--------------------------- MODULE CascadeMonitor ---------------------------
(***************************************************************************)
(* bot/services/dpi_monitor.py: the job that demotes and restores cascade  *)
(* protocols on its own, and the operator's /cascade commands that run in  *)
(* another thread and write the same two app_settings rows.                *)
(*                                                                         *)
(* The scheduler thread performs one evaluation as a chain of database     *)
(* reads and writes (pc); the polling thread performs /cascade reset as a  *)
(* chain of its own (opc).  Nothing locks the rows between a read and the  *)
(* write that follows it.                                                  *)
(*                                                                         *)
(* SaveAutoUnchecked is SaveAuto with a bug in it; InPlaceKeepsBad is      *)
(* InPlace with a bug in it; DemoteAnyTime is DemoteCandidates with a bug  *)
(* in it; ComplainingOneMore is Complaining with a bug in it;              *)
(* SunkWhileAnyDark is Sunk with a bug in it: see "mutants" in             *)
(* PROJECT.json.                                                           *)
(***************************************************************************)
EXTENDS Naturals, FiniteSets

CONSTANTS
  Protocols,          \* cascade protocols
  Asns,               \* networks that have a row of their own
  Global,             \* the scope that is not an ASN
  None,               \* "no rule": not demoted, no streak
  CascadeRank,        \* operator's order: [Protocols -> Nat], the head is least
  KeyRank,            \* sort order of the target keys: [Targets -> Nat]
  RealityProto,       \* REALITY_INBOUND_TAG
  UdpProtos,          \* UDP_STORM_PROTOCOLS
  DemoteAfterBad, RestoreAfterGood,
  MinChangeGap,       \* MIN_CHANGE_GAP_MIN in ticks of the 10-minute job
  MaxChanges,         \* MAX_CHANGES_PER_RUN
  ReportsMaxPerAsn,   \* REPORTS_MAX_PER_ASN
  Signals,            \* what collect_signals may return
  Faults,             \* which of "read", "auto", "rows", "audit", "reset", "crash" may happen
  MaxRefused,         \* bound: changes at a time whose log row was refused
  OperatorInterrupts  \* may a reset interleave with a run?

Rules == {"probe_dark", "probe_degraded", "client_dark",
          "reality_asn", "udp_storm_asn", "user_reports_asn"}

RuleRank == [probe_dark |-> 0, probe_degraded |-> 1, client_dark |-> 2,
             reality_asn |-> 3, udp_storm_asn |-> 4, user_reports_asn |-> 5]

ProbeRules == {"probe_dark", "probe_degraded"}

Scopes == Asns \cup {Global}
Targets == Scopes \X Protocols
NetTargets == Asns \X Protocols

\* Streaks count up to the threshold they are compared with.
Row == [bad: 0..DemoteAfterBad, good: 0..RestoreAfterGood,
        age: 0..MinChangeGap, rule: Rules \cup {None}]

\* An absent row reads as zeroes; an age of MinChangeGap also stands for
\* "never changed": both let the next change through.
NoRow == [bad |-> 0, good |-> 0, age |-> MinChangeGap, rule |-> None]
NoRows == [t \in Targets |-> NoRow]
NothingDemoted == [t \in Targets |-> None]

\* A change whose row was refused leaves nothing that could be read of it.
Logged == {"sunk", "in place", "refused"}
NothingLogged == [t \in Targets |-> "in place"]
Refused(log) == {t \in Targets : log[t] = "refused"}

Signal == [stale: BOOLEAN, measured: SUBSET Protocols, dark: SUBSET Protocols,
           degraded: SUBSET Protocols, client: SUBSET NetTargets,
           reality: SUBSET Asns, storm: SUBSET Asns, reports: SUBSET Asns,
           unknown: SUBSET Rules]

\* A collector that failed leaves the default (empty, stale) entry behind and
\* puts its rules in "unknown".
SignalOK(s) ==
  /\ s.dark \subseteq s.measured /\ s.degraded \subseteq s.measured \ s.dark
  /\ s.stale => s.measured = {}
  /\ s.unknown \cap ProbeRules # {} => s.stale /\ ProbeRules \subseteq s.unknown
  /\ "client_dark" \in s.unknown => s.client = {}
  /\ "reality_asn" \in s.unknown => s.reality = {}
  /\ "udp_storm_asn" \in s.unknown => s.storm = {}
  /\ "user_reports_asn" \in s.unknown => s.reports = {}

Quiet == [stale |-> FALSE, measured |-> {}, dark |-> {}, degraded |-> {},
          client |-> {}, reality |-> {}, storm |-> {}, reports |-> {},
          unknown |-> {}]

ASSUME ConstantsOK ==
  /\ Global \notin Asns /\ None \notin Rules
  /\ IsFiniteSet(Protocols) /\ IsFiniteSet(Asns) /\ Protocols # {}
  /\ CascadeRank \in [Protocols -> Nat] /\ KeyRank \in [Targets -> Nat]
  /\ DemoteAfterBad \in Nat \ {0} /\ RestoreAfterGood \in Nat \ {0}
  /\ MinChangeGap \in Nat /\ MaxChanges \in Nat /\ ReportsMaxPerAsn \in Nat
  /\ MaxRefused \in Nat
  /\ UdpProtos \subseteq Protocols /\ RealityProto \in Protocols
  /\ Signals \subseteq Signal /\ \A s \in Signals : SignalOK(s)
  /\ OperatorInterrupts \in BOOLEAN

VARIABLES
  auto,      \* app_settings[cascade_auto]: the rule that demoted each target
  rows,      \* app_settings[dpi_monitor_state]: the streaks
  enabled,   \* app_settings[dpi_monitor_enabled]
  pc,        \* where the scheduler thread is in run_once
  run,       \* its locals
  opc,       \* where the polling thread is in /cascade reset
  audit,     \* what the admin_actions rows say of each target's last change
  evidence   \* the signals' own history, for stating properties: not code

vars == <<auto, rows, enabled, pc, run, opc, audit, evidence>>
-----------------------------------------------------------------------------
(* The pure part: what one evaluation makes of signals and state.          *)

Bump(n, limit) == IF n < limit THEN n + 1 ELSE limit

AllDark(s) ==
  /\ ~s.stale /\ s.dark = s.measured /\ Cardinality(s.measured) >= 2

Frozen(s) == s.unknown \cup (IF s.stale THEN ProbeRules ELSE {})

\* The head of an ASN's effective order: the first protocol that is not
\* demoted, the first of all when every one is.
Head(a, asn) ==
  LET sunk == {p \in Protocols : a[<<Global, p>>] # None \/ a[<<asn, p>>] # None}
      front == IF sunk = Protocols THEN Protocols ELSE Protocols \ sunk
  IN  CHOOSE p \in front : \A q \in front : CascadeRank[p] <= CascadeRank[q]

ByReports(a, asn) == {p \in Protocols : a[<<asn, p>>] = "user_reports_asn"}

\* The complaining networks that still have room under the cap.
ComplainingOneMore(s, a) ==
  {n \in s.reports : Cardinality(ByReports(a, n)) <= ReportsMaxPerAsn}
Complaining(s, a) ==
  {n \in s.reports : Cardinality(ByReports(a, n)) < ReportsMaxPerAsn}

\* The targets each rule points at.
Aim(s, heads, a) ==
  [probe_dark |-> IF s.stale THEN {} ELSE {Global} \X s.dark,
   probe_degraded |-> IF s.stale THEN {} ELSE {Global} \X s.degraded,
   client_dark |-> s.client,
   reality_asn |-> s.reality \X {RealityProto},
   udp_storm_asn |-> s.storm \X UdpProtos,
   user_reports_asn |->
     {<<asn, heads[asn]>> : asn \in {n \in Complaining(s, a) : heads[n] # None}}]

\* Is the rule that demoted a target still active?  Judged per network.
Active(s, rule) ==
  CASE rule \in ProbeRules -> Scopes \X (s.dark \cup s.degraded)
    [] rule = "client_dark" -> s.client
    [] rule = "reality_asn" -> s.reality \X Protocols
    [] rule = "udp_storm_asn" -> s.storm \X Protocols
    [] rule = "user_reports_asn" -> s.reports \X Protocols
    [] OTHER -> {}

\* The rule that fires on a target: the highest-ranked that points at it.
Firing(aim, t) ==
  LET at == {r \in Rules : t \in aim[r]}
  IN  IF at = {} THEN None
      ELSE CHOOSE r \in at : \A q \in at : RuleRank[r] <= RuleRank[q]

\* The rule whose silence restores a demoted target.
Owner(row, reason) == IF row.rule # None THEN row.rule ELSE reason

\* The streaks of a target in its place, and of a demoted one.
InPlaceKeepsBad(s, row, fire) ==
  IF fire # None
  THEN [row EXCEPT !.bad = Bump(@, DemoteAfterBad), !.good = 0, !.rule = fire]
  ELSE row

InPlace(s, row, fire) ==
  IF fire # None
  THEN [row EXCEPT !.bad = Bump(@, DemoteAfterBad), !.good = 0, !.rule = fire]
  ELSE IF row.rule \in Frozen(s) THEN row
  ELSE [row EXCEPT !.bad = 0, !.good = 0, !.rule = None]


SunkWhileAnyDark(s, row, owner, t) ==
  IF owner \in Frozen(s) THEN row
  ELSE [row EXCEPT !.bad = 0, !.rule = owner,
                   !.good = IF s.dark # {} THEN 0 ELSE Bump(@, RestoreAfterGood)]

Sunk(s, row, owner, t) ==
  IF owner \in Frozen(s) THEN row
  ELSE [row EXCEPT !.bad = 0, !.rule = owner,
                   !.good = IF t \in Active(s, owner) THEN 0
                            ELSE Bump(@, RestoreAfterGood)]

\* One target's row after the streak update, before any change is applied.
Counted(s, aim, row, reason, t) ==
  IF reason # None THEN Sunk(s, row, Owner(row, reason), t)
  ELSE InPlace(s, row, Firing(aim, t))

DemoteAnyTime(aim, a, counted) ==
  {t \in Targets : /\ a[t] = None /\ Firing(aim, t) # None
                   /\ counted[t].bad >= DemoteAfterBad}

DemoteCandidates(aim, a, counted) ==
  {t \in Targets : /\ a[t] = None /\ Firing(aim, t) # None
                   /\ counted[t].bad >= DemoteAfterBad
                   /\ counted[t].age >= MinChangeGap}

RestoreCandidates(s, old, a, counted) ==
  {t \in Targets : /\ a[t] # None /\ Owner(old[t], a[t]) \notin Frozen(s)
                   /\ counted[t].good >= RestoreAfterGood
                   /\ counted[t].age >= MinChangeGap}

\* Demotions before restores, then by rule, then by key.
Precedes(a, counted, t, u) ==
  LET rank(v) == RuleRank[counted[v].rule]
  IN  \/ a[t] = None /\ a[u] # None
      \/ /\ (a[t] = None) = (a[u] = None)
         /\ \/ rank(t) < rank(u)
            \/ rank(t) = rank(u) /\ KeyRank[t] < KeyRank[u]

\* The first MaxChanges candidates.
IsCapped(first, candidates, a, counted) ==
  /\ Cardinality(first) <= MaxChanges
  /\ first # candidates => Cardinality(first) = MaxChanges
  /\ \A t \in first, u \in candidates \ first : Precedes(a, counted, t, u)
-----------------------------------------------------------------------------
(* What the properties compare the state with: per target, the consecutive *)
(* applied evaluations in which a rule fired on it, those in which the     *)
(* rule that demoted it was quiet, counted from the signals alone.         *)

NoEvidence == [t \in Targets |-> [hits |-> 0, by |-> None, calm |-> 0,
                                   since |-> MinChangeGap]]

Observed(s, aim, a, old, moved) ==
  [t \in Targets |->
    [hits |-> IF a[t] # None THEN 0
              ELSE IF Firing(aim, t) # None THEN Bump(old[t].hits, DemoteAfterBad)
              ELSE IF old[t].by \in Frozen(s) THEN old[t].hits ELSE 0,
     by |-> IF a[t] # None THEN None
            ELSE IF Firing(aim, t) # None THEN Firing(aim, t)
            ELSE IF old[t].by \in Frozen(s) THEN old[t].by ELSE None,
     calm |-> IF a[t] = None THEN 0
              ELSE IF a[t] \in Frozen(s) THEN old[t].calm
              ELSE IF t \in Active(s, a[t]) THEN 0
              ELSE Bump(old[t].calm, RestoreAfterGood),
     since |-> IF t \in moved THEN 0 ELSE old[t].since]]
-----------------------------------------------------------------------------
NoRun == [sig |-> Quiet, heads |-> [n \in Asns |-> None], rows |-> NoRows,
          auto |-> NothingDemoted, demote |-> {}, restore |-> {},
          evidence |-> NoEvidence]

Init ==
  /\ auto = NothingDemoted /\ rows = NoRows /\ enabled = TRUE
  /\ pc = "idle" /\ run = NoRun /\ opc = "idle"
  /\ audit = NothingLogged /\ evidence = NoEvidence

Finish == pc' = "idle" /\ run' = NoRun

\* Ten minutes pass and the job is due.  Runs are much shorter than a tick.
Tick ==
  /\ pc \in {"idle", "due"} /\ opc = "idle"
  /\ pc' = "due"
  /\ rows' = [t \in Targets |-> [rows[t] EXCEPT !.age = Bump(@, MinChangeGap)]]
  /\ evidence' = [t \in Targets |->
                    [evidence[t] EXCEPT !.since = Bump(@, MinChangeGap)]]
  /\ UNCHANGED <<auto, enabled, run, opc, audit>>

\* run_once up to and including collect_signals. A network whose order cannot be read has
\* no head, and complaints from it point at nothing.
Collect ==
  /\ pc = "due"
  /\ OperatorInterrupts \/ opc = "idle"
  /\ IF enabled
     THEN /\ pc' = "collected"
          /\ \E s \in Signals, headless \in SUBSET Asns :
               /\ headless # {} => "read" \in Faults
               /\ run' = [run EXCEPT !.sig = s,
                    !.heads = [n \in Asns |-> IF n \in headless THEN None ELSE Head(auto, n)]]
     ELSE Finish
  /\ UNCHANGED <<auto, rows, enabled, opc, audit, evidence>>

\* load_state reads dpi_monitor_state, then cascade_auto.
LoadRows ==
  /\ pc = "collected" /\ pc' = "loading"
  /\ run' = [run EXCEPT !.rows = rows]
  /\ UNCHANGED <<auto, rows, enabled, opc, audit, evidence>>

\* StateUnreadable: the run is skipped.
SkipUnreadable ==
  /\ "read" \in Faults /\ pc \in {"collected", "loading"}
  /\ Finish
  /\ UNCHANGED <<auto, rows, enabled, opc, audit, evidence>>

\* load_state's second read, then evaluate: pure, its result stays local.
Evaluate ==
  /\ pc = "loading" /\ pc' = "evaluated"
  /\ IF AllDark(run.sig)
     THEN run' = [run EXCEPT !.auto = auto, !.evidence = evidence]
     ELSE LET aim == Aim(run.sig, run.heads, auto)
              counted == [t \in Targets |->
                            Counted(run.sig, aim, run.rows[t], auto[t], t)]
              demotable == DemoteCandidates(aim, auto, counted)
              restorable == RestoreCandidates(run.sig, run.rows, auto, counted)
          IN  \E first \in SUBSET (demotable \cup restorable) :
                /\ IsCapped(first, demotable \cup restorable, auto, counted)
                /\ run' = [run EXCEPT
                     !.demote = first \cap demotable,
                     !.restore = first \cap restorable,
                     !.auto = [t \in Targets |->
                                 IF t \notin first THEN auto[t]
                                 ELSE IF t \in demotable THEN counted[t].rule ELSE None],
                     !.rows = [t \in Targets |->
                                 IF t \notin first THEN counted[t]
                                 ELSE [bad |-> 0, good |-> 0, age |-> 0,
                                       rule |-> IF t \in demotable
                                                THEN counted[t].rule ELSE None]],
                     !.evidence = Observed(run.sig, aim, auto, evidence, first)]
  /\ UNCHANGED <<auto, rows, enabled, opc, audit, evidence>>

SaveAutoUnchecked ==
  /\ pc = "evaluated" /\ pc' = "autoSaved"
  /\ \/ auto' = run.auto /\ evidence' = run.evidence
     \/ "auto" \in Faults /\ UNCHANGED <<auto, evidence>>
  /\ UNCHANGED <<rows, enabled, run, opc, audit>>

\* save_state, first write: when it fails the run is aborted.
SaveAuto ==
  /\ pc = "evaluated"
  /\ \/ /\ auto' = run.auto /\ evidence' = run.evidence
        /\ pc' = "autoSaved" /\ UNCHANGED run
     \/ /\ "auto" \in Faults
        /\ Finish /\ UNCHANGED <<auto, evidence>>
  /\ UNCHANGED <<rows, enabled, opc, audit>>


\* save_state, second write: when it fails the run goes on.
SaveRows ==
  /\ pc = "autoSaved" /\ pc' = "saved"
  /\ \/ rows' = run.rows
     \/ "rows" \in Faults /\ UNCHANGED rows
  /\ UNCHANGED <<auto, enabled, run, opc, audit, evidence>>

\* apply_changes: one admin_actions row per change, then the topic message.
\* log_admin_action swallows a refused INSERT, and nobody looks at its answer.
Announce ==
  /\ pc = "saved"
  /\ \E refused \in SUBSET (run.demote \cup run.restore) :
       /\ refused # {} => "audit" \in Faults
       /\ audit' = [t \in Targets |-> CASE t \in refused -> "refused"
                                       [] t \in run.demote \ refused -> "sunk"
                                       [] t \in run.restore \ refused -> "in place"
                                       [] OTHER -> audit[t]]
  /\ Cardinality(Refused(audit')) <= MaxRefused
  /\ Finish
  /\ UNCHANGED <<auto, rows, enabled, opc, evidence>>

\* The process dies between two steps and starts again.
Crash ==
  /\ "crash" \in Faults /\ pc \notin {"idle", "due"}
  /\ Finish /\ opc' = "idle"
  /\ UNCHANGED <<auto, rows, enabled, audit, evidence>>
-----------------------------------------------------------------------------
\* set_setting swallows a failed write, and the reset does not look.
ClearsAuto ==
  \/ auto' = NothingDemoted
  \/ "reset" \in Faults /\ UNCHANGED auto

ClearsRows ==
  \/ rows' = NoRows /\ evidence' = NoEvidence
  \/ "reset" \in Faults /\ UNCHANGED <<rows, evidence>>

\* /cascade reset: DPIMonitor.reset clears both rows and writes the audit row;
\* the command then looks whether anything is still demoted and, if so,
\* clears the rows once more itself.  The row of the reset may be refused too.
ResetAuto ==
  /\ opc = "idle" /\ opc' = "autoCleared"
  /\ OperatorInterrupts \/ pc \in {"idle", "due"}
  /\ ClearsAuto
  /\ UNCHANGED <<rows, enabled, pc, run, audit, evidence>>

ResetRows ==
  /\ opc = "autoCleared" /\ opc' = "rowsCleared"
  /\ ClearsRows
  /\ UNCHANGED <<auto, enabled, pc, run, audit>>

ResetVerify ==
  /\ opc = "rowsCleared" /\ opc' = "idle"
  /\ \/ audit' = NothingLogged
     \/ /\ "audit" \in Faults
        /\ audit' = [t \in Targets |-> IF audit[t] = "sunk" THEN "refused" ELSE audit[t]]
        /\ Cardinality(Refused(audit')) <= MaxRefused
  /\ IF auto = NothingDemoted THEN UNCHANGED <<auto, rows, evidence>>
     ELSE ClearsAuto /\ ClearsRows
  /\ UNCHANGED <<enabled, pc, run>>

\* /cascade on and /cascade off.
Toggle ==
  /\ opc = "idle"
  /\ OperatorInterrupts \/ pc \in {"idle", "due"}
  /\ enabled' = ~enabled
  /\ UNCHANGED <<auto, rows, pc, run, opc, audit, evidence>>

Monitor ==
  \/ Collect \/ LoadRows \/ SkipUnreadable \/ Evaluate
  \/ SaveAuto \/ SaveRows \/ Announce

Reset == ResetAuto \/ ResetRows \/ ResetVerify

Next == Tick \/ Monitor \/ Crash \/ Reset \/ Toggle

Spec == Init /\ [][Next]_vars

\* The scheduler keeps calling the job (APScheduler interval trigger), a reset
\* that began ends, and no read or write of a run fails every time.
FairSpec ==
  /\ Spec
  /\ WF_vars(Tick /\ pc = "idle") /\ WF_vars(Monitor) /\ WF_vars(ResetRows \/ ResetVerify)
  /\ SF_vars(LoadRows) /\ SF_vars(Evaluate)
  /\ SF_vars(SaveAuto /\ pc' = "autoSaved") /\ SF_vars(SaveRows /\ rows' = run.rows)
-----------------------------------------------------------------------------
Demoted == {t \in Targets : auto[t] # None}
Steady == pc \in {"idle", "due"} /\ opc = "idle"

Evidence == [hits: 0..DemoteAfterBad, by: Rules \cup {None},
             calm: 0..RestoreAfterGood, since: 0..MinChangeGap]

Run == [sig: Signal, heads: [Asns -> Protocols \cup {None}],
        rows: [Targets -> Row], auto: [Targets -> Rules \cup {None}],
        demote: SUBSET Targets, restore: SUBSET Targets,
        evidence: [Targets -> Evidence]]

\* Every variable has its type.
TypeOK ==
  /\ auto \in [Targets -> Rules \cup {None}] /\ rows \in [Targets -> Row]
  /\ enabled \in BOOLEAN /\ run \in Run
  /\ audit \in [Targets -> Logged]
  /\ pc \in {"idle", "due", "collected", "loading", "evaluated", "autoSaved", "saved"}
  /\ opc \in {"idle", "autoCleared", "rowsCleared"}
  /\ evidence \in [Targets -> Evidence]

\* User complaints sink at most REPORTS_MAX_PER_ASN protocols of a network,
\* however often the head they point at moves on (R5 in evaluate), and that
\* holds through failed writes, crashes and resets in the middle of a run.
ReportsCap ==
  \A n \in Asns : Cardinality(ByReports(auto, n)) <= ReportsMaxPerAsn

\* A protocol sinks only after DemoteAfterBad consecutive evaluations fired on
\* it, and the rule recorded as its reason is the one that fired last.
DemoteNeedsEvidence ==
  [][\A t \in Targets : auto[t] = None /\ auto'[t] # None =>
       evidence'[t].hits = DemoteAfterBad /\ evidence'[t].by = auto'[t]]_vars

\* The monitor restores a protocol only after the rule recorded as the reason
\* was quiet in RestoreAfterGood consecutive evaluations that had its data.
RestoreNeedsSilence ==
  [][\A t \in Targets : auto[t] # None /\ auto'[t] = None /\ opc = "idle" /\ opc' = "idle"
       => evidence'[t].calm = RestoreAfterGood]_vars

\* Between runs the admin_actions rows add up to what is demoted, of every target
\* whose last change got its row: no change is logged that did not land, and one
\* that landed is missing only where the database refused the row itself.  What
\* the refused row left wrong, the target's next row puts right.
AuditAddsUp ==
  Steady => \A t \in Targets \ Refused(audit) :
              audit[t] = IF t \in Demoted THEN "sunk" ELSE "in place"

\* NOT TRUE of the code (apply_changes: "audit each change"): a refused row is
\* reported by a return value that apply_changes does not read.
EveryChangeLogged == Steady => Demoted = {t \in Targets : audit[t] = "sunk"}

\* The cap and the gap between two changes: see CascadeContract.
Contract == INSTANCE CascadeContract WITH
  demoted <- Demoted, since <- [t \in Targets |-> evidence[t].since]
KeepsContract == Contract!Spec

\* Once a reset has ended, a target is demoted again only on evidence gathered
\* after it ("one command undoes everything", UNDO_HINT): the run that was in
\* progress does not bring back what the operator has just cleared.
ResetSticks ==
  [][\A t \in Targets : auto[t] = None /\ auto'[t] # None => t \in run.demote]_vars

\* With the operator, crashes and failed writes at their worst, a target whose
\* signals stay quiet for good ends up back in its place for good.
Silent(t) ==
  pc \in {"collected", "loading", "evaluated"} =>
    /\ run.sig.unknown = {} /\ ~run.sig.stale /\ ~AllDark(run.sig)
    /\ \A r \in Rules : t \notin Active(run.sig, r)
    /\ t[1] \notin run.sig.reports
Recovers ==
  \A t \in Targets :
    <>[](enabled /\ opc = "idle" /\ Silent(t)) => <>[](auto[t] = None)

\* Every change of the monitor's is earned, to sink as to return.
ChangesAreEarned == []TypeOK /\ DemoteNeedsEvidence /\ RestoreNeedsSilence
=============================================================================
