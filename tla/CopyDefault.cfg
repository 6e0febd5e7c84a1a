SPECIFICATION Spec
CONSTANTS
  Setups <- DefaultSetups
  MaxRegions = 1
  MayRefuse = {}
INVARIANTS Delivered
CHECK_DEADLOCK FALSE
