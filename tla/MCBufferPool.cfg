SPECIFICATION Spec
CONSTANTS
  Objects = {o1, o2, o3, o4}
  Sizes = {"small", "large"}
  MaxBufferMultiplicity = 2
INVARIANTS BusyIsHeld SlotsAreStable
PROPERTIES PoolShrinks OwnershipSpec
SYMMETRY ObjectSymmetry
CHECK_DEADLOCK FALSE
