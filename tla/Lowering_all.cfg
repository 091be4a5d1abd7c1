\* All instructions alone, and short programs, with slices that end anywhere; all searches; an object, its class and three tables.
SPECIFICATION MCSpec
CONSTANTS
  ByteBits = 2
  RamStart = 14
  MemoryEnd = 32
  LocalsBase = 1
  FrameEnd = 8
  StackMaximum = 20
  Weyl = 159
  Mixed <- MCMixed
  Real <- MCReal
  Ordered <- MCOrdered
  Image <- MCImage
  Programs <- MCPrograms
  Machines <- MCMachines
  Shapes = "all"
  MaxTrace = 3
  Capacity = 16
  Budgets = {1, 2, 4}
  Memories <- MCMemories
  Asked <- MCAsked
  TypeByte <- MCTypeByte
  InRam = {101, 102, 103, 2}
  Words <- MCWords
  TableImage <- MCTables
  Straddling = {}
  TableValues <- MCTableValues
  Changing = {101}
  Lists <- MCLists
  ClassTable <- MCClassTable
  Defaults <- MCDefaults
  Parameters <- MCParameters
  NewParameters <- MCNewParameters
  CodeByte <- MCCodeByte
  Registered = {5, 7, 12, 14}
  Numbers = {0, 2, 5}
  Half = 8
  Slot <- MCSlot
  PROPERTY_CACHE_SIZE = 2
INVARIANTS Agrees RepliesAreTrue
CHECK_DEADLOCK FALSE
