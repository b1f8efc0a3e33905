------------------------------- MODULE MCWatch -------------------------------
(***************************************************************************)
(* What watches and steers the servers: the lockdown detector, the alerts, *)
(* the verdict on the probes, the election among exit nodes and the client *)
(* between them, the rotation of the Reality name, and the calls to        *)
(* Telegram. The components share no state; one of them moves in a         *)
(* behaviour (part).                                                       *)
(***************************************************************************)
EXTENDS Lockdown, AlertManager, ProtocolProbes, Election, SyncClient, RealityRotation, TelegramCalls, TLC

VARIABLE part   \* the component that moves

CONSTANTS reality, stls, ws

MCDirect == {reality, stls}
MCFronted == {ws}
MCProbeTags == <<"reality", "hy2">>
MCPool == <<"proxy", "direct">>
MCPeersOf == ("n1" :> {"n1"}) @@ ("n2" :> {"n1"})

\* The alerts, the verdicts that raise them and the calls to Telegram by which they go out.
AlarmsHold == AlertsHold /\ ProbesHold /\ CallsHold

\* What comes about in the end: a storm is paged and a dark tunnel reported, calls settle on
\* an entry that works, a node without peers leads, a peer that is up is reached again and a
\* confirmed rotation ends (AlertManager.run_once, check_protocol_probe_down,
\* TelegramClient._request, _election_timer_loop, the sync client's _request,
\* rotate_reality_dest.py).
WatchProgress == StormPaged /\ DarkIsPaged /\ Settles /\ LonerLeads /\ ReachedAgain /\ RunsEnd

hostVars == <<part, vars, alertVars, probeVars, electVars, syncVars, rotVars, callVars>>

\* Each component starts as it does by itself; those that stand still, from one state.
HostInit ==
  /\ part \in {"lockdown", "alerts", "probes", "election", "sync", "rotation", "calls"}
  /\ Init /\ AlertInit /\ ProbeInit /\ ElectInit /\ SyncInit /\ RotInit /\ CallInit
  /\ (part # "sync" => ~peerUp)
  /\ (part # "rotation" => layers = On("s1"))

HostNext ==
  \/ /\ part = "lockdown" /\ Next
     /\ UNCHANGED <<part, alertVars, probeVars, electVars, syncVars, rotVars, callVars>>
  \/ /\ part = "alerts" /\ AlertNext
     /\ UNCHANGED <<part, vars, probeVars, electVars, syncVars, rotVars, callVars>>
  \/ /\ part = "probes" /\ ProbeNext
     /\ UNCHANGED <<part, vars, alertVars, electVars, syncVars, rotVars, callVars>>
  \/ /\ part = "election" /\ ElectNext
     /\ UNCHANGED <<part, vars, alertVars, probeVars, syncVars, rotVars, callVars>>
  \/ /\ part = "sync" /\ SyncNext
     /\ UNCHANGED <<part, vars, alertVars, probeVars, electVars, rotVars, callVars>>
  \/ /\ part = "rotation" /\ RotNext
     /\ UNCHANGED <<part, vars, alertVars, probeVars, electVars, syncVars, callVars>>
  \/ /\ part = "calls" /\ CallNext
     /\ UNCHANGED <<part, vars, alertVars, probeVars, electVars, syncVars, rotVars>>
  \/ /\ part \in {"rotation"}   \* these may come to an end
     /\ UNCHANGED hostVars

\* The fairness of each component's own specification, while it is the one that moves.
HostSpec ==
  /\ HostInit /\ [][HostNext]_hostVars
  /\ WF_alertVars(part = "alerts" /\ TickStep)
  /\ WF_probeVars(part = "probes" /\ (ProbeProtocol \/ ProbeRunMissed))
  /\ \A n \in Node : WF_electVars(part = "election" /\ ElectTimeout(n))
  /\ WF_syncVars(part = "sync" /\ CircuitTime)
  /\ \A k \in Caller : WF_syncVars(part = "sync" /\ CallerStep(k)) /\ WF_syncVars(part = "sync" /\ RequestBegun(k, FALSE))
  /\ WF_rotVars(part = "rotation" /\ RunGoesOn)
  /\ \A s \in Sender : WF_callVars(part = "calls" /\ CallMoves(s))
  /\ WF_callVars(part = "calls" /\ EntryCooled)
  /\ WF_callVars(part = "calls" /\ TelegramChecked)
==============================================================================
