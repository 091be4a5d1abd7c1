\* Everything but discardundo and resumed sessions: the snapshots are exact.
SPECIFICATION ChainSpec
CONSTANTS
  PageSize = 2
  ByteMod = 2
  ExtPages = 1
  OrigPages = 1
  MaxPages = 2
  Initial <- MCInitial
  MaxUndo = 2
  PageCost = 2
  Budgets = {8}
  Limits = {2}
  StackCosts = {1}
  StartCost = 1
  Ranges <- MCSplitRanges
  Destinations <- MCTwoDestinations
  MaxStore = 2
INVARIANTS UndoExact
PROPERTIES UndoReturns
