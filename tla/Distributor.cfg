SPECIFICATION Spec
CONSTANTS
  Address = {a1, a2}
  ZeroAddress = Zero
  Distributor = Distributor
  MaxAmount = 2
  MaxAssigned = 2
  MaxBatch = 2
  Supply = 3
INVARIANTS
  AssignedOnce
  PoolAccounted
SYMMETRY Symmetry
CHECK_DEADLOCK FALSE
