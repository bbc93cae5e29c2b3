---------------------------- MODULE MCJtag2Link ----------------------------
(* Instances of Jtag2Link for TLC: see the .cfg files for the bounds.      *)
EXTENDS Jtag2Link
=============================================================================
