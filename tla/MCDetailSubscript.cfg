SPECIFICATION Spec
CONSTANTS
  Levels = 2
  ChromaLevels = 1
  Channels = {0, 1}
  StepOf <- MCStepOf
  SizeOf <- MCSizeOf
  Settings <- MCSettings
INVARIANTS
  DetailSubscript
CHECK_DEADLOCK FALSE
