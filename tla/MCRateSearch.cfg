SPECIFICATION Spec
CONSTANTS
  Levels = 2
  ChromaLevels = 1
  Channels = {0, 1, 3}
  Table <- MCTable
  Overrides = {40, 2000000}
  Lambdas = 3
  Places = {1, 2}
  Raws <- MCRaws
  MaxQ = 1
  Settings <- MCSettings
INVARIANTS
  TypeOK
  Committed
  CodedAgainstReceived
  WithinHalfAStep
\* the encoder ends
CHECK_DEADLOCK FALSE
