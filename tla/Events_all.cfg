\* Two windows and every request; two text windows that print, echo and are shown; the keys of a terminal; a pipe.
SPECIFICATION MCSpec
CONSTANTS
  Kinds = {"text_grid"}
  MaxWindows = 2
  MaxQueue = 1
  Letters = {"a", "w"}
  Wide = {"w"}
  InputStyle = 8
  OwnStyles = {0, 1}
  MaxTextChars = 2
  BufferLength = 2
  UnicodePanes = {2}
  Typed <- MCTyped
  PaneWidths = {1, 2, 3}
  PaneHeight = 2
  MaxPanes = 3
  MaxCalls = 3
  MaxFileName = 2
  PipeCapacity = 1
  PipeLines <- MCPipeLines
INVARIANTS Coherent NothingStaleOrLost TextsArrive
PROPERTIES Wakes ShowsItsOwn
