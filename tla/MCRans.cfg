SPECIFICATION Spec
CONSTANTS
  ByteBase = 4
  M = 8
  Rates = {2, 4}
  RansInitProbs = {4, 7}
  Contexts = {0, 1}
  MaxSymbols = 5
INVARIANTS
  TypeOK
  EncoderInWindow
  DecoderRetraces
  DecodesRecordedBits
  ExactConsumption
\* the section is decoded once
CHECK_DEADLOCK FALSE
