--------------------------- MODULE CascadeContract --------------------------
(***************************************************************************)
(* What the monitor promises about the cascade, whatever its rules are     *)
(* (the "Hysteresis" block of bot/services/dpi_monitor.py): a run moves at *)
(* most MaxChanges targets, a target rests MinChangeGap ticks between two  *)
(* moves, and one operator command puts everything back.                   *)
(***************************************************************************)
EXTENDS Naturals, FiniteSets

CONSTANTS Targets, MaxChanges, MinChangeGap

VARIABLES
  demoted,   \* the targets at the end of the cascade
  since      \* ticks since a target last moved, up to MinChangeGap

Fresh == [t \in Targets |-> MinChangeGap]

Init == demoted = {} /\ since = Fresh

Tick ==
  /\ since' = [t \in Targets |->
                 IF since[t] < MinChangeGap THEN since[t] + 1 ELSE since[t]]
  /\ UNCHANGED demoted

\* One run of the monitor moves the targets in "moved".
Adjust(moved) ==
  /\ Cardinality(moved) <= MaxChanges
  /\ \A t \in moved : since[t] = MinChangeGap
  /\ demoted' = (demoted \ moved) \cup (moved \ demoted)
  /\ since' = [t \in Targets |-> IF t \in moved THEN 0 ELSE since[t]]

\* /cascade reset: nothing is demoted, and the resting times are forgotten.
Undo == demoted' = {} /\ UNCHANGED since
Forget == since' = Fresh /\ UNCHANGED demoted

Next == Tick \/ Undo \/ Forget \/ \E moved \in SUBSET Targets : Adjust(moved)

Spec == Init /\ [][Next]_<<demoted, since>>
=============================================================================
