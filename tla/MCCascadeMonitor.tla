-------------------------- MODULE MCCascadeMonitor --------------------------
(* Small instances of CascadeMonitor for TLC. *)
EXTENDS CascadeMonitor

CONSTANTS p1, p2, p3, n1

\* The cascade runs p1, p2, p3; keys sort "asn:..." before "global:...".
MCCascadeRank == [p \in Protocols |-> CASE p = p1 -> 1 [] p = p2 -> 2 [] OTHER -> 3]
MCKeyRank == [t \in Targets |-> (IF t[1] = Global THEN 3 ELSE 0) + MCCascadeRank[t[2]]]

Probed == [Quiet EXCEPT !.measured = Protocols]
Stale == [Quiet EXCEPT !.stale = TRUE]

\* The probes see nothing wrong, one protocol dark and another degraded, or
\* everything dark; then the per-network rules, and collectors that fail.
AllSignals ==
  {Probed,
   [Probed EXCEPT !.dark = {p1}, !.degraded = {p2}],
   [Probed EXCEPT !.dark = Protocols],
   [Probed EXCEPT !.reports = {n1}],
   [Probed EXCEPT !.client = {<<n1, p1>>}, !.storm = {n1}],
   [Probed EXCEPT !.reality = {n1}, !.reports = {n1}],
   [Stale EXCEPT !.unknown = ProbeRules],
   [Probed EXCEPT !.unknown = {"client_dark", "reality_asn", "user_reports_asn"}]}

\* Two protocols that flap, for the liveness run.
ProbeFew == {Probed, [Probed EXCEPT !.dark = {p1}], [Probed EXCEPT !.dark = {p2}]}
=============================================================================
