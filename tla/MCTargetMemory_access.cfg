SPECIFICATION Spec
CONSTANTS
  Boxes <- MCBoxes
  PageSize <- MCPageSize
  Size <- MCSize
  Block = 2
  LoadBytes = 4
  Ranges <- MCRanges
  Image <- MCImage
  MaxRequests = 4
  MaxFaults = 1
INVARIANTS
  ModeAsFound
  ReadsSound
  WritesArrive
  FlashedAsSent
  DownloadVerified
  GoodbyeUnlessMissized
CHECK_DEADLOCK FALSE
