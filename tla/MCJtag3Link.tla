---------------------------- MODULE MCJtag3Link ----------------------------
(* Instances of Jtag3Link for TLC: see the .cfg files for the bounds.      *)
EXTENDS Jtag3Link
=============================================================================
