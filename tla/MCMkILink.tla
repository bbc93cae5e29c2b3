----------------------------- MODULE MCMkILink -----------------------------
(* Instances of MkILink for TLC: see the .cfg files for the bounds.        *)
EXTENDS MkILink
(* The rates that are tried: a fast one first, as in the code. *)
MCBitrates == <<2, 1>>
=============================================================================
