SPECIFICATION Spec
CONSTANTS
  Ices = {"jtag1", "jtag2", "jtag3"}
  Targets <- AllDevices
  Forced <- MCForced
  FuseStates <- MCFuseStates
  Batch = 8
INVARIANTS TargetGeometry RegistersAsShown
PROPERTIES OcdenActivated QueryAnswered
CHECK_DEADLOCK FALSE
