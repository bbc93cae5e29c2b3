\* The JTAGICE3 class, events in order.
SPECIFICATION Spec
CONSTANTS
  Boxes = {"edbg"}
  PCs = {0, 1}
  MaxNews = 1
  MaxLine = 3
PROPERTIES InterruptFirst
CHECK_DEADLOCK FALSE
