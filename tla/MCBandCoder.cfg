SPECIFICATION Spec
CONSTANTS
  Kinds <- MCKinds
  Sizes <- MCSizes
  Samples <- MCSamples
  ParentSize <- MCParentSize
  ParentSamples <- MCParentSamples
  Steps <- MCSteps
  Block = 2
  Window = 2
  ValueWindow = 2
  GapLimits <- MCGapLimits
INVARIANTS
  TypeOK
  ContextsAgree
  DecodedSoFar
  AllBitsRead
CHECK_DEADLOCK FALSE
