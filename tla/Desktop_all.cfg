\* Two texts, three turns and two resets; two stories that load; one that draws twice and restarts; three drawings of a canvas; texts of three runs.
SPECIFICATION MCSpec
CONSTANTS
  greeting = greeting
  farewell = farewell
  epilogue = epilogue
  NoText = NoText
  Keys = {greeting, farewell}
  Oversized = {}
  Bytes <- MCBytes
  TextBytes = 1
  QueueCap = 1
  ChannelCap = 1
  MaxPendingTurns = 2
  MaxPendingBytes = 6
  MaxCacheEntries = 1
  MaxCacheBytes = 2
  MaxTurns = 3
  MaxIds = 3
  MaxGeneration = 2
  Pictures = {1, 2}
  BadPictures = {2}
  ImageQueueCapacity = 1
  CacheSize = 1
  Restyles = FALSE
  MaxLoads = 3
  MaxText = 2
  MaxDrawn = 3
  MaxRevision = 2
  MaxAgain = 1
  Sizes <- MCSizes
  Assets <- MCAssets
  Rectangles <- MCRectangles
  Hyperlinks = {7}
  Colors <- MCColors
  MaxOperations = 2
  Recolors = FALSE
  MaxPainted = 3
  Runs <- MCRuns
  Advance <- MCAdvance
  Cjk = {"zh"}
  Styles <- MCStyles
  Fonts = {1, 2}
  Base <- MCBase
  LayoutWidths = {96, 240}
  MaxRuns = 3
INVARIANTS Accounted FramesAreTrue ShowsWhatWasDrawn LaysOutWhatIsThere
PROPERTIES KeepsHistory Settles NewestComes
