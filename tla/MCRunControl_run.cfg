\* All three ways a box is connected.  The session may end.
SPECIFICATION Spec
CONSTANTS
  Boxes = {"jtag2", "edbg", "jtag3"}
  PCs = {0, 1}
  MaxNews = 2
  MaxLine = 3
INVARIANTS TypeOK ReportedStopped StepReportsPC
PROPERTIES StopIsReported InterruptServed
CHECK_DEADLOCK FALSE
