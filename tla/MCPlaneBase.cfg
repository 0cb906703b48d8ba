SPECIFICATION Spec
CONSTANTS
  Kinds <- PlaneKinds
  Sizes <- SmallSize
  Samples <- MCSamples
  ParentSize <- MCParentSize
  ParentSamples <- MCParentSamples
  Steps <- MCSteps
  Block = 2
  Window = 2
  ValueWindow = 2
  GapLimits <- MCGapLimits
INVARIANT
  LosslessBase
CHECK_DEADLOCK FALSE
