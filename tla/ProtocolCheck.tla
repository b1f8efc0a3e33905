----------------------------- MODULE ProtocolCheck -----------------------------
(***************************************************************************)
(* scripts/protocol_healthcheck.py: the check run by hand or by the agent   *)
(* when an outage is suspected.  Three layers are collected, any of which   *)
(* may fail, as may what is read within them: (a) the probe rows and the   *)
(* panel audit, whose output is cut after so many lines, (b) the entry     *)
(* host, (c) the exit host with its rules, its users and its certificate.  *)
(* assess() turns what was read into a state per protocol, the             *)
(* suspects and an exit code.  Around it, faults come and go and the probe  *)
(* writes its rounds, or does not, or dies in the middle of one.            *)
(*                                                                         *)
(* ProbeVerdictAverage is ProbeVerdict with a bug in it: see "mutants" in  *)
(* PROJECT.json.                                                           *)
(***************************************************************************)
EXTENDS Integers, Sequences, SequencesExt, FiniteSets

CONSTANTS Probed,     \* PROBED: tags the probe always speaks
          Turbo,      \* the tag of PROBED_OPTIONAL
          Audited,    \* those of Probed with an inbound on the panel: hy2 has a daemon of its own
          RunRows,    \* PROBE_DOMAINS: rows of a tag in a round
          OkRows,     \* of these, rows that are ok when all is well (BASELINE_OK)
          Runs,       \* PROBE_RUNS
          StaleAfter, WindowRounds,   \* PROBE_STALE_MIN and PROBE_WINDOW_H, in rounds
          MaxTurns    \* bound: faults, repairs and broken rounds

ASSUME CheckConstants ==
  /\ Probed # {} /\ Turbo \notin Probed /\ Audited \subseteq Probed \ {"hy2"}
  /\ OkRows \in 1..RunRows
  /\ {RunRows, Runs, StaleAfter, WindowRounds, MaxTurns} \subseteq Nat \ {0}

VARIABLES faults,   \* what is wrong, as <<what, where>>
          rows,     \* outbound_health: a tag's rows within the window, newest first
          turbo,    \* the sidecar has an inbound for Turbo
          calm,     \* full rounds since anything changed
          turned

checkVars == <<faults, rows, turbo, calm, turned>>

Tags == Probed \union {Turbo}
Hysteria == {"hy2", Turbo} \intersect Tags
Fault ==
  ({"dead", "shut"} \X Tags) \union ({"daemon", "dnat", "hop"} \X Hysteria)
  \union {<<"entryhop", Turbo>>}
  \union ({"carries", "drift"} \X Audited)
  \union {f \in {<<"flow", "reality">>, <<"cert", "reality">>, <<"password", "stls">>, <<"front", "stls">>} :
            f[2] \in Audited}

CheckInit ==
  /\ faults = {} /\ rows = [t \in Tags |-> <<>>] /\ turbo \in BOOLEAN /\ calm = 0 /\ turned = 0

-----------------------------------------------------------------------------
\* The probe's rounds: a site that does not open through the tunnel still has a latency.
RowKind(t, i) ==
  IF <<"dead", t>> \in faults THEN "dark"
  ELSE IF <<"shut", t>> \in faults \/ i > OkRows THEN "alive" ELSE "ok"
RoundOf(t, n) == [i \in 1..n |-> [kind |-> RowKind(t, i), age |-> 0]]
\* The newest rows come first, so those that leave the window are the last ones.
Within(s) == {i \in DOMAIN s : s[i].age < WindowRounds}
Aged(s) == [i \in 1..Cardinality(Within(s)) |-> [s[i] EXCEPT !.age = @ + 1]]
Written == IF turbo THEN Tags ELSE Probed

ProbeRound(written) ==
  /\ rows' = [t \in Tags |-> RoundOf(t, written[t]) \o Aged(rows[t])]
  /\ UNCHANGED <<faults, turbo>>

FullRound ==
  /\ ProbeRound([t \in Tags |-> IF t \in Written THEN RunRows ELSE 0])
  /\ calm' = (IF calm < Runs THEN calm + 1 ELSE calm) /\ UNCHANGED turned
\* A round that is not written, or in which the bot dies at a tag's first row.
BrokenRound ==
  /\ turned < MaxTurns /\ turned' = turned + 1 /\ calm' = 0
  /\ \/ ProbeRound([t \in Tags |-> 0])
     \/ \E t \in Written, before \in SUBSET Written :
          t \notin before /\ ProbeRound([u \in Tags |-> IF u = t THEN 1 ELSE IF u \in before THEN RunRows ELSE 0])

FaultComes ==
  /\ turned < MaxTurns /\ turned' = turned + 1 /\ calm' = 0
  /\ \E f \in Fault \ faults : faults' = faults \union {f}
  /\ UNCHANGED <<rows, turbo>>
FaultGoes ==
  /\ turned < MaxTurns /\ turned' = turned + 1 /\ calm' = 0
  /\ \E f \in faults : faults' = faults \ {f}
  /\ UNCHANGED <<rows, turbo>>

CheckNext == FullRound \/ BrokenRound \/ FaultComes \/ FaultGoes
CheckSpec == CheckInit /\ [][CheckNext]_checkVars

-----------------------------------------------------------------------------
\* Layer A's query, and which tags have a verdict of the probes.
Limit == Runs * RunRows
SeenUp(t) == SubSeq(rows[t], 1, IF Len(rows[t]) < Limit THEN Len(rows[t]) ELSE Limit)
ProbedTags(av) == Probed \union (IF "a" \in av.from /\ rows[Turbo] # <<>> THEN {Turbo} ELSE {})
StaleTag(t) == rows[t] = <<>> \/ rows[t][1].age > StaleAfter
PipelineStale == \A t \in Tags : StaleTag(t)

Count(s, kinds) == Cardinality({i \in DOMAIN s : s[i].kind \in kinds})
LatestRun(t) ==
  LET seen == SeenUp(t)
  IN SubSeq(seen, 1, Cardinality({i \in DOMAIN seen : seen[i].age = seen[1].age}))

\* _probe_verdict.
DarkLately(t) ==
  LET latest == LatestRun(t) IN Len(latest) >= RunRows /\ Count(latest, {"ok"}) = 0
ProbeVerdictAverage(t) ==
  LET seen == SeenUp(t)
  IN IF StaleTag(t) THEN "UNKNOWN"
     ELSE IF Count(seen, {"ok", "alive"}) = 0 THEN "DOWN"
     ELSE IF 2 * RunRows * Count(seen, {"ok"}) < OkRows * Len(seen) THEN "DEGRADED"
     ELSE "OK"
ProbeVerdict(t) ==
  LET seen == SeenUp(t)
  IN IF StaleTag(t) THEN "UNKNOWN"
     ELSE IF Count(seen, {"ok", "alive"}) = 0 THEN "DOWN"
     ELSE IF 2 * RunRows * Count(seen, {"ok"}) < OkRows * Len(seen) \/ DarkLately(t) THEN "DEGRADED"
     ELSE "OK"

-----------------------------------------------------------------------------
(* A reading of the hosts: what answered (from), the inbounds whose users   *)
(* were read both from xray and from config.json, and the wipes that the    *)
(* lines kept of the audit's output show: of more than forty problems the   *)
(* last ones are cut, which may hide all of an inbound's.  And what the     *)
(* probes say of each tag, if layer A came and the pipeline is not stale.   *)

Layer == {"a", "b", "c"}
Wiped == {f \in faults : f[1] \in {"flow", "password", "carries"}}
Answers ==
  {r \in [from : SUBSET (Layer \union {"audit", "nat", "cert"}), users : SUBSET Audited] :
     r.from \intersect {"nat", "cert"} # {} \/ r.users # {} => "c" \in r.from}

Verdicts == [t \in Tags |-> ProbeVerdict(t)]
NoVerdicts == [t \in Tags |-> "UNKNOWN"]
Readings ==
  LET verdicts == Verdicts
  IN {v \in {[from |-> r.from, users |-> r.users, lines |-> l,
              probes |-> IF "a" \notin r.from \/ PipelineStale THEN NoVerdicts ELSE verdicts] :
                r \in Answers, l \in SUBSET Wiped} :
        v.lines = {} <=> "audit" \notin v.from \/ Wiped = {}}

\* _audit_flags.
BrokenInbounds(av) == {f[2] : f \in av.lines}

\* Layer C and the entry's rules on the turbo daemon; the hop rules count if they were read.
TurboByHosts(av) ==
  IF <<"daemon", Turbo>> \in faults \/ ("b" \in av.from /\ <<"dnat", Turbo>> \in faults) THEN "DOWN"
  ELSE IF ("nat" \in av.from /\ <<"hop", Turbo>> \in faults) \/ ("b" \in av.from /\ <<"entryhop", Turbo>> \in faults)
       THEN "DEGRADED"
  ELSE IF "b" \notin av.from \/ "nat" \notin av.from THEN "UNKNOWN" ELSE "OK"

Worse == [DOWN |-> 3, DEGRADED |-> 2, UNKNOWN |-> 1, OK |-> 0]

\* assess: the probes first, then the audit that can only worsen them, then the floor of
\* the hosts under the turbo daemon.
State(t, av) ==
  IF t # Turbo
  THEN IF av.probes[t] = "OK" /\ t \in BrokenInbounds(av) THEN "DEGRADED" ELSE av.probes[t]
  ELSE LET hosts == IF "c" \in av.from THEN TurboByHosts(av) ELSE "UNKNOWN"
       IN IF Turbo \notin ProbedTags(av) THEN hosts
          ELSE IF hosts \in {"DOWN", "DEGRADED"} /\ Worse[hosts] > Worse[av.probes[Turbo]] THEN hosts
          ELSE av.probes[Turbo]

AllDark(av) == \A t \in ProbedTags(av) : State(t, av) = "DOWN"

\* exit_code_for.
ExitCode(av) ==
  IF \E t \in Tags : State(t, av) \in {"DOWN", "DEGRADED"} THEN 1
  ELSE IF \A t \in Tags : State(t, av) = "OK" THEN 0 ELSE 2

-----------------------------------------------------------------------------
\* The suspects, as <<protocol, cause>>; _hy2_suspects for the two of Hysteria.
ByAudit(av) ==
  LET named == {f \in av.lines : f[1] \in {"flow", "password"}}
  IN IF named # {} THEN named ELSE IF av.lines # {} THEN {<<"carries", "*">>} ELSE {}
ByHosts(t, av) ==
  {f \in faults : f[2] = t /\
     \/ f[1] = "daemon" /\ "c" \in av.from
     \/ f[1] = "hop" /\ "nat" \in av.from
     \/ f[1] \in {"dnat", "entryhop"} /\ "b" \in av.from}
ByInbound(t, av) ==
  {f \in faults : f[2] = t /\
     \/ f[1] = "cert" /\ "cert" \in av.from
     \/ f[1] = "drift" /\ t \in av.users
     \/ f[1] = "front" /\ "b" \in av.from}
  \union IF t = "reality" /\ "audit" \notin av.from THEN {<<"audit", t>>} ELSE {}
OrItself(t, found) == IF \E s \in found : s[2] = t THEN found ELSE found \union {<<"itself", t>>}
SuspectsOf(t, av) ==
  IF t \in Hysteria
  THEN IF State(t, av) = "DOWN" THEN OrItself(t, ByHosts(t, av))
       ELSE IF State(t, av) = "DEGRADED" THEN ByHosts(t, av) ELSE {}
  ELSE IF State(t, av) = "DOWN" THEN OrItself(t, ByAudit(av) \union ByInbound(t, av)) ELSE {}
ByRate(t, av) ==
  IF t \in ProbedTags(av) /\ State(t, av) = "DEGRADED" /\ av.probes[t] = "DEGRADED"
  THEN {<<"rate", t>>} ELSE {}
Suspects(av) ==
  (IF "a" \in av.from /\ PipelineStale THEN {<<"probes", "*">>} ELSE {})
  \union (IF Layer \subseteq av.from THEN {} ELSE {<<"layer", "*">>})
  \union (IF AllDark(av) THEN {<<"upstream", "*">>}
          ELSE ByAudit(av) \union UNION {SuspectsOf(t, av) \union ByRate(t, av) : t \in Tags})

-----------------------------------------------------------------------------
\* Type correctness: rows newest first and within the window, faults that can be.
CheckTypeOK ==
  /\ faults \subseteq Fault /\ calm \in 0..Runs /\ turned \in 0..MaxTurns
  /\ \A t \in Tags : \A i \in DOMAIN rows[t] :
       /\ rows[t][i].age <= WindowRounds /\ rows[t][i].kind \in {"ok", "alive", "dark"}
       /\ i > 1 => rows[t][i - 1].age <= rows[t][i].age

\* No outage passes: a tag whose last round was full and without a single ok, or the last
\* Runs rounds of which were dark, is never called OK, whatever else could be collected.
NoOutagePasses ==
  \A t \in Tags :
    (~StaleTag(t) /\ Len(LatestRun(t)) >= RunRows /\ Count(LatestRun(t), {"ok"}) = 0) =>
      \A av \in Readings : (t = Turbo => "a" \in av.from) =>
        State(t, av) # "OK" /\ ExitCode(av) # 0

\* No false alarm of a protocol's death: DOWN means not one answer in the rounds judged, or
\* a turbo daemon or its way in known to be gone.
DownIsDead ==
  \A av \in Readings : \A t \in Tags : State(t, av) = "DOWN" =>
    \/ \A i \in DOMAIN SeenUp(t) : SeenUp(t)[i].kind = "dark"
    \/ t = Turbo /\ {<<"daemon", Turbo>>, <<"dnat", Turbo>>} \intersect faults # {}

\* Every death is pinned down: a protocol that is DOWN has a suspect, and what is wrong with
\* it is named if what shows it was read, unless all are dark at once: a wipe, in the lines
\* kept of the audit; a drift, by the users of its own inbound; a certificate, if it came.
CausesNamed ==
  \A av \in Readings : \A t \in Tags : State(t, av) = "DOWN" =>
    /\ \E s \in Suspects(av) : s[2] \in {t, "*"}
    /\ ~AllDark(av) =>
         \A f \in faults : f[2] = t =>
           /\ (f[1] \in {"flow", "password"} /\ f \in av.lines => f \in Suspects(av))
           /\ (f[1] = "drift" /\ t \in av.users => f \in Suspects(av))
           /\ (f[1] = "cert" /\ "cert" \in av.from => f \in Suspects(av))
           /\ (f[1] = "daemon" /\ "c" \in av.from => f \in Suspects(av))
           /\ (f[1] \in {"dnat", "entryhop", "front"} /\ "b" \in av.from => f \in Suspects(av))

\* A pass needs eyes: exit code 0 is only given on fresh rows of every tag that is probed,
\* and on a turbo daemon that was probed or seen with its rules on both hosts.
PassNeedsEyes ==
  \A av \in Readings : ExitCode(av) = 0 =>
    /\ "a" \in av.from /\ \A t \in Probed : ~StaleTag(t)
    /\ rows[Turbo] # <<>> \/ {"b", "c", "nat"} \subseteq av.from

\* The alarm does not linger: when nothing is wrong and the rounds judged were all written
\* since, a check that reads every layer and the rules passes, whatever else is silent.
AlarmEnds ==
  calm = Runs /\ faults = {} =>
    \A av \in Readings : Layer \union {"nat"} \subseteq av.from => ExitCode(av) = 0

\* NOT TRUE of the code: "Audit-driven suspects do not wait for the probes to go dark: the
\* probe is one client; the audit speaks for all of them" (protocol_healthcheck.py:852-853);
\* the audit's output is cut after forty problems, and one inbound's can fill it.
WipesNamed ==
  \A av \in Readings : ("audit" \in av.from /\ ~AllDark(av)) =>
    \A f \in faults : f[1] \in {"flow", "password"} => f \in Suspects(av)

\* The check's promises: types, no outage passed, no false death, causes, eyes, an end.
CheckHolds ==
  CheckTypeOK /\ NoOutagePasses /\ DownIsDead /\ CausesNamed /\ PassNeedsEyes /\ AlarmEnds
==============================================================================
