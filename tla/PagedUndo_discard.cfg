\* discardundo leaves the next snapshot on the wrong base.
SPECIFICATION DiscardSpec
CONSTANTS
  PageSize = 1
  ByteMod = 2
  ExtPages = 1
  OrigPages = 1
  MaxPages = 2
  Initial <- MCInitial
  MaxUndo = 2
  PageCost = 2
  Budgets = {0, 5}
  Limits = {1, 2}
  StackCosts = {1, 2}
  StartCost = 1
  Ranges <- MCRanges
  Destinations <- MCDestinations
  MaxStore = 2
INVARIANTS UndoExact
