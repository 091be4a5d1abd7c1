\* A loop closed by a conditional branch, entered below its first instruction.
SPECIFICATION Spec
CONSTANTS
  ByteBits = 2
  RamStart = 14
  MemoryEnd = 32
  LocalsBase = 1
  FrameEnd = 8
  StackMaximum = 20
  Weyl = 159
  Mixed <- MCMixed
  Real <- MCReal
  Ordered <- MCOrdered
  Image <- MCImage
  Programs <- MCPrograms
  Machines <- MCMachines
  Shapes = "loops"
  MaxTrace = 3
  Capacity = 16
  Budgets = {1, 4}
INVARIANTS Agrees
CHECK_DEADLOCK FALSE
