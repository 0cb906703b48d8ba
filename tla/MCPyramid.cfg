SPECIFICATION Spec
CONSTANTS
  Sizes <- MCSizes
  Samples <- MCSamples
  Targets <- MCTargets
  BaseSteps <- MCBaseSteps
  Steps <- MCSteps
INVARIANTS
  TypeOK
  PrefixWithin
  FlatStaysFlat
  ShownBetween
CHECK_DEADLOCK FALSE
