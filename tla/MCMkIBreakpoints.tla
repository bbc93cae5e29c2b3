-------------------------- MODULE MCMkIBreakpoints --------------------------
(* Instances of MkIBreakpoints for TLC; addresses are interchangeable.     *)
EXTENDS MkIBreakpoints

AddrSymmetry == Permutations(CodeAddrs) \cup Permutations(DataAddrs)
=============================================================================
