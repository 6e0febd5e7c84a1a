SPECIFICATION Spec
CONSTANTS
  Setups <- DefaultSetups3D
  MaxRegions = 1
  MayRefuse = {}
INVARIANTS NullOnlyIfRefused
CHECK_DEADLOCK FALSE
