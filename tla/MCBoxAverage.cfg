SPECIFICATION Spec
CONSTANTS
  Sizes <- MCSizes
  Samples <- MCSamples
  Targets <- MCTargets
  BaseSteps <- MCBaseSteps
  Steps <- MCSteps
INVARIANTS
  BoxAverage
CHECK_DEADLOCK FALSE
