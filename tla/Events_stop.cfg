SPECIFICATION Spec
CONSTANTS
  Kinds = {"text_grid"}
  MaxWindows = 1
  MaxQueue = 1
PROPERTIES StopHolds
