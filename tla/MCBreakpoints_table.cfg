\* Every box and kind of target, with a table too small for every breakpoint
\* GDB asks for, so that entries are written over.
CONSTANTS
  Settings <- AllSettings
  MaxTotal = 4
  CodeAddrs = {c1, c2, c3}
  DataAddrs = {d1}
  DataTypes = {"WRITE_DATA"}
  Lengths = {1}
SPECIFICATION Spec
SYMMETRY AddrSymmetry
INVARIANTS TypeOK TableMatchesIce RunsAsAsked XmegaHasRoom
PROPERTIES SlotKept PromiseKept
CHECK_DEADLOCK FALSE
