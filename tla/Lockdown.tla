------------------------------ MODULE Lockdown ------------------------------
(***************************************************************************)
(* bot/services/lockdown.py, its detector as DPIMonitor._run_lockdown runs *)
(* it in the scheduler thread, and the operator's /lockdown on|off|auto    *)
(* (bot/handlers/admin/ops.py) in the polling thread.  Both read the row   *)
(* app_settings[lockdown_mode], change it and write it back whole.         *)
(*                                                                         *)
(* FlippedToOn is Flipped with a bug in it; StreaksKept is Streaks with a  *)
(* bug in it; FlippedWhoever is Flipped with a bug in it; VerifyNothing is *)
(* Verify with a bug in it; WithModeOnly is WithMode with a bug in it;     *)
(* FlippedUnlessAdmin is Flipped with a bug in it: see "mutants" in        *)
(* PROJECT.json.                                                           *)
(***************************************************************************)
EXTENDS Naturals, FiniteSets

CONSTANTS
  Direct,            \* DIRECT_PROTOCOLS
  Fronted,           \* FRONTED_PROTOCOLS
  OnAfter, OffAfter, \* evaluations in a row before the detector flips
  MinDirect,         \* MIN_DIRECT_MEASURED and MIN_DIRECT_ALIVE
  Faults,            \* which of "read", "write" may fail
  Interleaved        \* may a command run between a detector's read and write?

Modes == {"auto", "on", "off"}

ASSUME ConstantsOK ==
  /\ IsFiniteSet(Direct) /\ IsFiniteSet(Fronted) /\ Direct \cap Fronted = {}
  /\ OnAfter \in Nat \ {0} /\ OffAfter \in Nat \ {0} /\ MinDirect \in Nat \ {0}
  /\ Interleaved \in BOOLEAN

\* The row.  A streak is kept up to the number it is compared with.
Record == [mode: Modes, active: BOOLEAN, by: {"system", "auto", "admin"},
           streakOn: 0..OnAfter, streakOff: 0..OffAfter]

Default == [mode |-> "auto", active |-> FALSE, by |-> "system",
            streakOn |-> 0, streakOff |-> 0]

VARIABLES
  store,     \* the row
  pc,        \* the detector: between ticks, or about to write
  draft,     \* the record it will write
  verdict,   \* what its last probe table meant
  opc,       \* where the operator's command is
  cmd,       \* the mode asked for
  edit,      \* the record the command will write
  answer,    \* what the operator was told last
  proof      \* verdicts in a row that were applied: for the properties only

vars == <<store, pc, draft, verdict, opc, cmd, edit, answer, proof>>
-----------------------------------------------------------------------------
(* evaluate_lockdown.                                                      *)

Probes == {p \in [stale: BOOLEAN, measured: SUBSET (Direct \cup Fronted),
                  dark: SUBSET (Direct \cup Fronted)] :
             p.dark \subseteq p.measured /\ (p.stale => p.measured = {})}

Meaning(p) ==
  LET alive == p.measured \ p.dark
      frontDark == Fronted \cap p.measured # {} /\ Fronted \cap alive = {}
  IN  CASE p.stale \/ frontDark -> "unclear"
        [] ~(p.stale \/ frontDark)
             /\ Cardinality(Direct \cap p.measured) >= MinDirect
             /\ Direct \cap alive = {} /\ Fronted \cap alive # {} -> "shutdown"
        [] ~(p.stale \/ frontDark)
             /\ Cardinality(Direct \cap alive) >= MinDirect -> "healthy"
        [] OTHER -> "unclear"

Bump(n, limit) == IF n < limit THEN n + 1 ELSE limit

StreaksKept(r, v) ==
  CASE v = "shutdown" -> [r EXCEPT !.streakOn = Bump(@, OnAfter)]
    [] v = "healthy" -> [r EXCEPT !.streakOff = Bump(@, OffAfter)]
    [] OTHER -> r

Streaks(r, v) ==
  CASE v = "shutdown" -> [r EXCEPT !.streakOn = Bump(@, OnAfter), !.streakOff = 0]
    [] v = "healthy" -> [r EXCEPT !.streakOff = Bump(@, OffAfter), !.streakOn = 0]
    [] OTHER -> r

FlippedWhoever(r, v) ==
  CASE r.mode = "auto" /\ v = "shutdown" /\ ~r.active /\ r.streakOn >= OnAfter
         -> [r EXCEPT !.active = TRUE, !.by = "auto"]
    [] r.mode = "auto" /\ v = "healthy" /\ r.active /\ r.streakOff >= OffAfter
         -> [r EXCEPT !.active = FALSE, !.by = "auto"]
    [] OTHER -> r

FlippedToOn(r, v) ==
  CASE r.mode = "auto" /\ v = "shutdown" /\ ~r.active /\ r.streakOn >= OnAfter
         -> [r EXCEPT !.active = TRUE, !.by = "auto", !.mode = "on"]
    [] OTHER -> r

FlippedUnlessAdmin(r, v) ==
  CASE r.mode = "auto" /\ v = "shutdown" /\ ~r.active /\ r.streakOn >= OnAfter
         /\ r.by # "admin" -> [r EXCEPT !.active = TRUE, !.by = "auto"]
    [] r.mode = "auto" /\ v = "healthy" /\ r.active /\ r.by = "auto"
         /\ r.streakOff >= OffAfter
         -> [r EXCEPT !.active = FALSE, !.by = "auto"]
    [] OTHER -> r

Flipped(r, v) ==
  CASE r.mode = "auto" /\ v = "shutdown" /\ ~r.active /\ r.streakOn >= OnAfter
         -> [r EXCEPT !.active = TRUE, !.by = "auto"]
    [] r.mode = "auto" /\ v = "healthy" /\ r.active /\ r.by = "auto"
         /\ r.streakOff >= OffAfter
         -> [r EXCEPT !.active = FALSE, !.by = "auto"]
    [] OTHER -> r

WithModeOnly(r, m) ==
  IF m = "on" THEN [r EXCEPT !.mode = m, !.active = TRUE, !.by = "admin"]
  ELSE [r EXCEPT !.mode = m]


\* set_mode.
WithMode(r, m) ==
  CASE m = "on" -> [r EXCEPT !.mode = m, !.active = TRUE, !.by = "admin"]
    [] m = "off" -> [r EXCEPT !.mode = m, !.active = FALSE, !.by = "admin"]
    [] m = "auto" -> [r EXCEPT !.mode = m]
-----------------------------------------------------------------------------
NoProof == [shutdown |-> 0, healthy |-> 0]

Init ==
  /\ store = Default /\ pc = "idle" /\ draft = Default /\ verdict = "unclear"
  /\ opc = "idle" /\ cmd = "auto" /\ edit = Default /\ answer = "none"
  /\ proof = NoProof

\* A tick of the monitor: a strict read of the row, then the pure part.  The
\* row is written back only when it changed.
Evaluate ==
  /\ pc = "idle" /\ (Interleaved \/ opc = "idle")
  /\ \E p \in Probes :
       LET v == Meaning(p)
           r == Flipped(Streaks(store, v), v)
       IN  /\ verdict' = v
           /\ IF v = "unclear" THEN UNCHANGED <<pc, draft>>
              ELSE pc' = "writing" /\ draft' = r
  /\ UNCHANGED <<store, opc, cmd, edit, answer, proof>>

\* save_lockdown in _run_lockdown: a failed write leaves the tick unapplied.
Save ==
  /\ pc = "writing" /\ pc' = "idle" /\ draft' = Default
  /\ \/ /\ store' = draft
        /\ proof' = IF verdict = "shutdown"
                    THEN [shutdown |-> Bump(proof.shutdown, OnAfter), healthy |-> 0]
                    ELSE [shutdown |-> 0, healthy |-> Bump(proof.healthy, OffAfter)]
     \/ "write" \in Faults /\ UNCHANGED <<store, proof>>
  /\ UNCHANGED <<verdict, opc, cmd, edit, answer>>

\* load_lockdown takes a failed read for "no row".
TolerantRead == {store} \cup (IF "read" \in Faults THEN {Default} ELSE {})

\* /lockdown <m>: set_mode reads the row ...
Command(m) ==
  /\ opc = "idle" /\ (Interleaved \/ pc = "idle")
  /\ opc' = "writing" /\ cmd' = m
  /\ \E r \in TolerantRead : edit' = WithMode(r, m)
  /\ UNCHANGED <<store, pc, draft, verdict, answer, proof>>

\* ... and writes it back; when that fails the command does the same itself.
CommandWrite ==
  /\ opc = "writing"
  /\ \/ store' = edit /\ opc' = "verify"
     \/ "write" \in Faults /\ opc' = "fallback" /\ UNCHANGED store
  /\ UNCHANGED <<pc, draft, verdict, cmd, edit, answer, proof>>

FallbackRead ==
  /\ opc = "fallback" /\ opc' = "rewriting"
  /\ \E r \in TolerantRead : edit' = WithMode(r, cmd)
  /\ UNCHANGED <<store, pc, draft, verdict, cmd, answer, proof>>

FallbackWrite ==
  /\ opc = "rewriting" /\ opc' = "verify"
  /\ \/ store' = edit
     \/ "write" \in Faults /\ UNCHANGED store
  /\ UNCHANGED <<pc, draft, verdict, cmd, edit, answer, proof>>

VerifyNothing ==
  /\ opc = "verify" /\ opc' = "idle"
  /\ answer' = cmd /\ cmd' = "auto" /\ edit' = Default
  /\ UNCHANGED <<store, pc, draft, verdict, proof>>

\* _lockdown_set reads the row again before it answers.
Verify ==
  /\ opc = "verify" /\ opc' = "idle"
  /\ \E r \in TolerantRead : answer' = IF r.mode = cmd THEN cmd ELSE "failed"
  /\ cmd' = "auto" /\ edit' = Default
  /\ UNCHANGED <<store, pc, draft, verdict, proof>>

Detector == Evaluate \/ Save
Operator == (\E m \in Modes : Command(m)) \/ CommandWrite \/ FallbackRead
            \/ FallbackWrite \/ Verify

Next == Detector \/ Operator

Spec == Init /\ [][Next]_vars

\* The scheduler keeps ticking, a command ends, a write does not always fail.
FairSpec ==
  /\ Spec
  /\ WF_vars(Evaluate) /\ SF_vars(Save /\ store' = draft)
  /\ WF_vars(CommandWrite \/ FallbackRead \/ FallbackWrite \/ Verify)
-----------------------------------------------------------------------------
\* Every variable has its type.
TypeOK ==
  /\ store \in Record /\ draft \in Record /\ edit \in Record
  /\ pc \in {"idle", "writing"} /\ verdict \in {"unclear", "shutdown", "healthy"}
  /\ opc \in {"idle", "writing", "fallback", "rewriting", "verify"}
  /\ cmd \in Modes /\ answer \in Modes \cup {"none", "failed"}
  /\ proof \in [shutdown: 0..OnAfter, healthy: 0..OffAfter]

\* A lockdown that is up was put up by someone who is on record, and one that a
\* pin holds agrees with the pin: mode 'on' is active, mode 'off' is not, and
\* the default owner never has a live lockdown (set_mode, evaluate_lockdown).
Agrees(r) ==
  /\ r.mode = "on" => r.active
  /\ r.mode = "off" => ~r.active
  /\ r.active => r.by # "system"

PinAgrees == Agrees(store)

\* The detector raises a lockdown only after OnAfter shutdown evaluations in a
\* row, and lowers one only after OffAfter healthy ones, unclear evaluations
\* not counting either way: a command in between neither adds nor keeps any.
FlipNeedsProof ==
  [][opc = "idle" /\ opc' = "idle" /\ store'.active # store.active =>
       IF store'.active THEN proof'.shutdown = OnAfter
                        ELSE proof'.healthy = OffAfter]_vars

\* The detector never touches the mode, never moves a pinned "active", and
\* lowers only what it raised; /lockdown auto moves nothing but the mode.
Contract == INSTANCE LockdownContract WITH
  mode <- store.mode, active <- store.active, owner <- store.by
KeepsContract == Contract!Spec

\* The operator is told "done" only when the row has the mode asked for
\* (_lockdown_set: "must not walk away believing the mode flipped").
AnswerTrue ==
  [][answer' # "failed" /\ opc = "verify" /\ opc' = "idle" => store.mode = cmd]_vars

\* Only a command changes the mode: the detector's write carries the mode it
\* read, and must not bring back one the operator has left since.
PinHolds == [][opc' = opc => store'.mode = store.mode]_vars

\* A shutdown that goes on is answered, and a lockdown the detector raised does
\* not outlive it, with writes that may fail along the way.
Responds ==
  /\ <>[](verdict = "shutdown" /\ store.mode = "auto" /\ opc = "idle") => <>[]store.active
  /\ <>[](verdict = "healthy" /\ store.mode = "auto" /\ store.by = "auto" /\ opc = "idle")
       => <>[](~store.active)

\* The rows have their types, and the command's answers are true.
AnswersHold == []TypeOK /\ AnswerTrue
=============================================================================
