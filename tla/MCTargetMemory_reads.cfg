\* A debugWIRE target, whose flash is read in pages: one read across a page.
SPECIFICATION Spec
CONSTANTS
  Boxes <- MCDebugWire
  PageSize <- MCPageSize
  Size <- MCSize
  Block = 2
  LoadBytes = 4
  Ranges <- MCRanges
  Image <- MCImage
  MaxRequests = 1
  MaxFaults = 0
INVARIANT ReadsReturnMemory
CHECK_DEADLOCK FALSE
