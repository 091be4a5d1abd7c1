\* The heap with undo, restart, saved games of any origin and changing limits.
SPECIFICATION Spec
CONSTANTS
  Word = 20
  PageSize = 4
  Align = 2
  OrigEnd = 4
  Limits = {8, 12}
  MaxUndo = 2
  Sizes = {1, 6, 19}
  Files <- MCFiles
INVARIANTS HeapSafe RefusedOnlyWhenFull SavesAreAccepted ScanIsFirstFit
PROPERTIES Allocates
