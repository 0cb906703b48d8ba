SPECIFICATION SizesSpec
CONSTANTS
  Widths <- MCSides
  Heights <- MCSides
  Targets <- MCTargets
INVARIANTS
  SizesTypeOK
  NeverRejected
  ShapesAgree
  ChromaNotDeeper
\* the sizes are derived once
CHECK_DEADLOCK FALSE
