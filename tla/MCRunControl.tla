---------------------------- MODULE MCRunControl ----------------------------
(* Instances of RunControl for TLC: see the .cfg files for the bounds.     *)
EXTENDS RunControl
=============================================================================
