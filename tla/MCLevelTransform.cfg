SPECIFICATION Spec
CONSTANTS
  Sizes <- MCSizes
  Samples <- MCSamples
  Threads = 2
INVARIANTS
  TypeOK
  PassesAreSequential
PROPERTIES
  Completes
\* the level is transformed once
CHECK_DEADLOCK FALSE
