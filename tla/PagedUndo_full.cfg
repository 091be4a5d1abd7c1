\* All of it: discardundo and resumed sessions too.
SPECIFICATION Spec
CONSTANTS
  PageSize = 1
  ByteMod = 2
  ExtPages = 1
  OrigPages = 1
  MaxPages = 2
  Initial <- MCInitial
  MaxUndo = 2
  PageCost = 2
  Budgets = {0, 5}
  Limits = {1, 2}
  StackCosts = {1, 4}
  StartCost = 1
  Ranges <- MCRanges
  Destinations <- MCTwoDestinations
  MaxStore = 1
INVARIANTS UndoRestorable UndoBounded
PROPERTIES KeepsAligned ProtectionHolds
