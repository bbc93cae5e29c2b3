------------------------- MODULE BreakpointPromise -------------------------
(***************************************************************************)
(* What the breakpoint table promises GDB, without the table: a breakpoint *)
(* that was asked for is in the box whenever the target runs, and one that *)
(* was taken back is not.  The box is brought up to date one breakpoint at *)
(* a time, and only between a request to run and the run itself.  Once a   *)
(* breakpoint has been refused for lack of room nothing is promised, and   *)
(* nothing on an Xmega, whose breakpoints last for one run.                *)
(***************************************************************************)
CONSTANT Breakpoint

VARIABLES
  wanted,    \* breakpoints GDB, or the single-step code, asked for
  armed,     \* breakpoints the box stops at
  mode,      \* "stopped", "updating", "running" or "ended"
  released   \* nothing is promised any more

vars == <<wanted, armed, mode, released>>

Init ==
  /\ wanted = {}
  /\ armed = {}
  /\ mode = "stopped"
  /\ released \in BOOLEAN

Ask ==
  /\ mode = "stopped"
  /\ wanted' \subseteq Breakpoint
  /\ UNCHANGED <<armed, mode, released>>

(* The single-step code may ask and run in one go. *)
Resume ==
  /\ mode = "stopped"
  /\ wanted' \subseteq Breakpoint
  /\ mode' = "updating"
  /\ UNCHANGED <<armed, released>>

Disarm ==
  /\ mode = "updating"
  /\ \E b \in armed \ wanted : armed' = armed \ {b}
  /\ UNCHANGED <<wanted, mode, released>>

Arm ==
  /\ mode = "updating"
  /\ armed \subseteq wanted
  /\ \E b \in wanted \ armed : armed' = armed \cup {b}
  /\ UNCHANGED <<wanted, mode, released>>

Run ==
  /\ mode = "updating"
  /\ armed = wanted
  /\ mode' = "running"
  /\ UNCHANGED <<wanted, armed, released>>

(* The target stops; a momentary breakpoint is taken back, or put back for *)
(* another run.                                                            *)
Halt ==
  /\ mode = "running"
  /\ wanted' \subseteq Breakpoint
  /\ mode' \in {"stopped", "updating"}
  /\ UNCHANGED <<armed, released>>

Fail ==
  /\ mode' = "ended"
  /\ UNCHANGED <<wanted, armed, released>>

Release == released' = TRUE

Next == Ask \/ Resume \/ Disarm \/ Arm \/ Run \/ Halt \/ Fail \/ Release

Spec == Init /\ [][Next]_vars

=============================================================================
