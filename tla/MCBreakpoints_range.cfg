\* One range watchpoint.
CONSTANTS
  Settings <- OneMega
  MaxTotal = 6
  CodeAddrs = {2}
  DataAddrs = {64}
  DataTypes = {"WRITE_DATA"}
  Lengths = {2}
SPECIFICATION Spec
INVARIANT MaskHasWatchpoint
CHECK_DEADLOCK FALSE
