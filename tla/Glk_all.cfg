\* Windows, echo streams, marks, files and sounds, one at a time.
\* The story may close everything and have used up its identifiers: no deadlock check.
SPECIFICATION Spec
CONSTANTS
  Kinds = {"buffer", "graphics"}
  Methods = {16, 33, 35}
  Sizes = {40}
  Viewports <- MCViewports
  Cell <- MCCell
  TextCell <- MCTextCell
  WindowLimit = 7
  p = p
  q = q
  n1 = n1
  n2 = n2
  None = none
  Paths = {p, q}
  Nodes = {n1, n2}
  StartLinks <- MCLinks
  Values = {2}
  Lengths = {0, 2}
  Offsets <- MCOffsets
  Strays = FALSE
  StreamLimit = 3
  ByteLimit = 1
  Decodable = {"good"}
  Broken = {"bad"}
  Missing = {}
  Notify = {1}
  FullVolume = 1
  AudioQueueCapacity = 1
  MaxChannels = 2
  MaxPlays = 2
  MaxResumes = 1
INVARIANTS Arranged FilesAgree SoundsAreTold
PROPERTIES OrderKept ResumedAsSaved TellsPlayed
CHECK_DEADLOCK FALSE
