SPECIFICATION MCSpec
CONSTANTS
  Value = {0, 1}
  Pc = {0, 1}
  PageSize = 1
  OrigPages = 1
  MaxPages = 2
  MaxStack = 2
  Reserve = 2
  Low <- MCHalf
  High <- MCSame
  Instr <- MCInstr
  Zero = 0
  Addresses = {1, 2, 3}
  Traceless = {3}
  Looping = {1, 3}
  BlockBytes <- MCBlockBytes
  CompileQueueCapacity = 1
  HotBlockThreshold = 2
  MaxBlocks = 2
  MaxTraceCacheBytes = 2
  AotFlushBlocks = 2
  MaxAotBlocks = 2
  MaxAotBytes = 2
  MaxClears = 2
  MaxDeaths = 1
INVARIANTS Faithful HostCurrent Tracked CacheIsSound
PROPERTIES Compiles
