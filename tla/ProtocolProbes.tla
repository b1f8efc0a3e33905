--------------------------- MODULE ProtocolProbes ---------------------------
(***************************************************************************)
(* services/health_checker.py writes the outcome of every probe, protocol  *)
(* by protocol, and check_protocol_probe_down of alert_manager.py reads    *)
(* the last rows at any moment to say what is dark.                        *)
(*                                                                         *)
(* VerdictAnyway is Verdict with a bug in it: see "mutants" in             *)
(* PROJECT.json.                                                           *)
(***************************************************************************)
EXTENDS Integers, Sequences, SequencesExt, FiniteSets

CONSTANTS ProbeTags,    \* the protocols probed, in the order of probe_ports_for
          ProbeRuns,    \* runs a verdict looks at
          ProbeDomains, \* rows of one run of one protocol
          MinSamples,   \* PROBE_MIN_SAMPLES
          DegradedMin,  \* PROBE_DEGRADED_MIN_SAMPLES
          DegradedInv,  \* one over PROBE_DEGRADED_OK_RATIO
          StaleAge,     \* missed runs after which the pipeline is called dead
          MaxLost       \* bound: runs of a protocol whose rows are not written

ProbeTag == ToSet(ProbeTags)

ASSUME ProbeConstants ==
  /\ ProbeTags \in Seq(ProbeTag) \ {<<>>} /\ ProbeRuns \in Nat \ {0} /\ ProbeDomains \in Nat \ {0}
  /\ MinSamples \in Nat \ {0} /\ DegradedMin \in Nat /\ DegradedInv \in Nat \ {0}
  /\ StaleAge \in Nat /\ MaxLost \in Nat

\* What a row says: 'ok'; an error with a latency; nothing came back.
RowKind == {"ok", "answered", "dead"}
WindowSize == ProbeRuns * ProbeDomains

VARIABLES window,   \* per protocol its newest rows, newest first
          age,      \* runs missed since the newest row
          cursor,   \* the next protocol of the run
          cut,      \* protocols whose tunnel is down
          lost      \* runs of a protocol that were not written

probeVars == <<window, age, cursor, cut, lost>>

Measured == {t \in ProbeTag : Len(window[t]) >= MinSamples}
Alive(row) == row # "dead"
Dark == {t \in Measured : ~\E i \in DOMAIN window[t] : Alive(window[t][i])}
OkRows(t) == Len(SelectSeq(window[t], LAMBDA r : r = "ok"))
Degraded == {t \in ProbeTag \ Dark : /\ Len(window[t]) >= DegradedMin
                                     /\ OkRows(t) * DegradedInv < Len(window[t])}

\* The alerts of the check: a dead pipeline or a dark link stand for everything.
TagAlerts == {<<"dark", t>> : t \in Dark} \union {<<"degraded", t>> : t \in Degraded}
VerdictAnyway ==
  IF age > StaleAge \/ \A t \in ProbeTag : window[t] = <<>> THEN {} ELSE TagAlerts
Verdict ==
  IF age > StaleAge \/ \A t \in ProbeTag : window[t] = <<>>
  THEN {<<"pipeline">>}
  ELSE IF Cardinality(Measured) >= 2 /\ Dark = Measured
  THEN {<<"all">>}
  ELSE TagAlerts

-----------------------------------------------------------------------------
ProbeInit ==
  /\ window = [t \in ProbeTag |-> <<>>]
  /\ age = 0 /\ cursor = 1 /\ cut = {} /\ lost = 0

\* ORDER BY ts DESC LIMIT
Newest(rows) == IF Len(rows) < WindowSize THEN rows ELSE SubSeq(rows, 1, WindowSize)

\* _check_one of every domain, then the rows of this protocol at once; a write that
\* fails is logged and the run goes on.  A cut tunnel gives only dead rows; an open
\* one may still meet a site that answers with an error, or not at all.
ProbeProtocol ==
  LET t == ProbeTags[cursor] IN
  /\ \/ \E rows \in [1..ProbeDomains -> IF t \in cut THEN {"dead"} ELSE RowKind] :
          /\ window' = [window EXCEPT ![t] =
               Newest(rows \o @)]
          /\ age' = 0 /\ UNCHANGED lost
     \/ lost < MaxLost /\ lost' = lost + 1 /\ UNCHANGED <<window, age>>
  /\ cursor' = IF cursor = Len(ProbeTags) THEN 1 ELSE cursor + 1
  /\ UNCHANGED cut

\* The job is skipped or dead for the time of one run.
ProbeRunMissed ==
  /\ age <= StaleAge /\ age' = age + 1
  /\ UNCHANGED <<window, cursor, cut, lost>>

TunnelFlips(t) ==
  /\ cut' = IF t \in cut THEN cut \ {t} ELSE cut \union {t}
  /\ UNCHANGED <<window, age, cursor, lost>>

ProbeNext == ProbeProtocol \/ ProbeRunMissed \/ \E t \in ProbeTag : TunnelFlips(t)

\* Either the job runs or its time passes.
ProbeSpec == ProbeInit /\ [][ProbeNext]_probeVars
               /\ WF_probeVars(ProbeProtocol \/ ProbeRunMissed)

-----------------------------------------------------------------------------
ProbeTypeOK ==
  /\ window \in [ProbeTag -> BoundedSeq(RowKind, WindowSize)]
  /\ age \in 0..(StaleAge + 1) /\ cursor \in 1..Len(ProbeTags)
  /\ cut \subseteq ProbeTag /\ lost \in 0..MaxLost

\* One incident, one page: while the pipeline is dead or the whole link is dark no
\* single protocol is blamed, and nothing is called dark on fewer than MinSamples.
OneIncident ==
  /\ Cardinality(Verdict) > 1 => Verdict \intersect {<<"pipeline">>, <<"all">>} = {}
  /\ \A t \in ProbeTag : <<"dark", t>> \in Verdict =>
       /\ Len(window[t]) >= MinSamples
       /\ Measured \ Dark # {} \/ Cardinality(Measured) = 1

\* A tunnel that is down for good is reported for good, as itself, as part of
\* everything, or as probes that stopped (the 2026-09-01 outage went unread).
DarkIsPaged ==
  \A t \in ProbeTag : <>[](t \in cut) =>
    <>[](Verdict \intersect {<<"pipeline">>, <<"all">>, <<"dark", t>>} # {})

\* What the verdict over the probes promises.
ProbesHold == ProbeTypeOK /\ OneIncident
=============================================================================
