\* Two functions, an accelerated one and four texts; images of five bytes, four of them ROM; three stories opened or attached.
SPECIFICATION InterpreterSpec
CONSTANTS
  Maximum = 26
  FunctionTable <- MCFunctionTable
  Native = {300}
  StartFunction = 100
  IoSettings <- MCIoSettings
  Constants = {1}
  Cells <- MCCells
  Objects <- MCObjects
  Digits <- MCDigits
  Strings = {1, 20}
  Numbers = {12}
  Alphabets <- MCAlphabets
  RamStart = 4
  Length = 5
  Images <- MCImages
  CodeBytes = {0, 254}
  DecodeCacheSize = 2
  MaxTraceInstructions = 4
  MaxRead = 2
  Headers <- MCHeaders
  Executables <- MCExecutables
  Archives <- MCArchives
  LooseFiles <- MCLooseFiles
  Siblings <- MCSiblings
  MaxLoose = 2
  MaxOpened = 3
INVARIANTS Resumable DecodesWhatIsThere ResourcesAreTheirs
PROPERTIES Refines
CHECK_DEADLOCK FALSE
