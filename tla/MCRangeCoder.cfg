SPECIFICATION RangeSpec
CONSTANTS
  ByteBase = 4
  P = 8
  Rates = {2, 4}
  InitProbs <- MCInitProbs
  Contexts = {0, 1}
  MaxSymbols = 4
INVARIANTS
  RangeTypeOK
  CarryAbsorbed
  RangesAgree
  DecodesEncodedBits
  RangeExactConsumption
\* the section is decoded once
CHECK_DEADLOCK FALSE
