--------------------------- MODULE MCBreakpoints ---------------------------
(* Instances of Breakpoints for TLC: see the .cfg files for the bounds.    *)
(* Where every watchpoint is one byte long no address is computed with, so *)
(* addresses are model values and interchangeable.                         *)
EXTENDS Breakpoints

(* A megaAVR and an Xmega on each box, an Xmega on old mkII firmware that  *)
(* only has software breakpoints, and a device that has none.              *)
Megas ==
  [box : {"mkII", "JTAGICE3"}, no_softbp : {FALSE}, softbp_only : {FALSE},
   is_xmega : {FALSE}, full_xmega : {FALSE}]
Xmegas ==
  [box : {"mkII", "JTAGICE3"}, no_softbp : {FALSE}, softbp_only : {FALSE},
   is_xmega : {TRUE}, full_xmega : {TRUE}]
Others == {
  [box |-> "mkII", no_softbp |-> FALSE, softbp_only |-> TRUE,
   is_xmega |-> TRUE, full_xmega |-> FALSE],
  [box |-> "mkII", no_softbp |-> TRUE, softbp_only |-> FALSE,
   is_xmega |-> FALSE, full_xmega |-> FALSE]}
AllSettings == Megas \cup Xmegas \cup Others
OneMega == {m \in Megas : m.box = "mkII"}

AddrSymmetry == Permutations(CodeAddrs) \cup Permutations(DataAddrs)
=============================================================================
