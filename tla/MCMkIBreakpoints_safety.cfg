\* One code address more than there are registers, and three watchpoints.
CONSTANTS
  MAX_BREAKPOINTS = 4
  MAX_BREAKPOINTS_CODE = 4
  MAX_BREAKPOINTS_DATA = 2
  CodeAddrs = {c1, c2, c3, c4, c5}
  DataAddrs = {d1, d2, d3}
  DataTypes = {"WRITE_DATA"}
SPECIFICATION Spec
SYMMETRY AddrSymmetry
INVARIANTS TypeOK TableIsAsAsked EveryBreakpointArmed
CHECK_DEADLOCK FALSE
