------------------------------ MODULE MCAccess -------------------------------
(***************************************************************************)
(* Who is let in: the support status, the calls on the panel, the monthly  *)
(* quota, Hysteria's authentication, the reserve node and the RU zone; and *)
(* the turns of the agent. The components share no state; one of them      *)
(* moves in a behaviour (part).                                            *)
(***************************************************************************)
EXTENDS UserLifecycle, PanelClients, MonthlyQuota, Hy2Auth, ReserveNode, RuZone, AgentTurns, TLC

VARIABLE part   \* the component that moves

MCMailOf == ("k1" :> "k") @@ ("k2" :> "k") @@ ("m1" :> "m")

hostVars == <<part, vars, panelVars, quotaVars, hyVars, reserveVars, zoneVars, agentVars>>

\* Each component starts as it does by itself; those that stand still, from one state.
HostInit ==
  /\ part \in {"support", "panel", "quota", "hysteria", "reserve", "zone", "agent"}
  /\ Init /\ PanelInit /\ QuotaInit /\ HyInit /\ ReserveInit /\ ZoneInit /\ AgentInit
  /\ (part # "panel" => ~client.used /\ client.quota = client.row)
  /\ (part # "hysteria" => hyRow = [u \in HyUser |-> "out"])
  /\ (part # "reserve" => live = {})
  /\ (part # "zone" => eligible = {})
  /\ (part # "agent" => backend = "hermes")

HostNext ==
  \/ /\ part = "support" /\ Next
     /\ UNCHANGED <<part, panelVars, quotaVars, hyVars, reserveVars, zoneVars, agentVars>>
  \/ /\ part = "panel" /\ PanelNext
     /\ UNCHANGED <<part, vars, quotaVars, hyVars, reserveVars, zoneVars, agentVars>>
  \/ /\ part = "quota" /\ QuotaNext
     /\ UNCHANGED <<part, vars, panelVars, hyVars, reserveVars, zoneVars, agentVars>>
  \/ /\ part = "hysteria" /\ HyNext
     /\ UNCHANGED <<part, vars, panelVars, quotaVars, reserveVars, zoneVars, agentVars>>
  \/ /\ part = "reserve" /\ ReserveNext
     /\ UNCHANGED <<part, vars, panelVars, quotaVars, hyVars, zoneVars, agentVars>>
  \/ /\ part = "zone" /\ ZoneNext
     /\ UNCHANGED <<part, vars, panelVars, quotaVars, hyVars, reserveVars, agentVars>>
  \/ /\ part = "agent" /\ AgentNext
     /\ UNCHANGED <<part, vars, panelVars, quotaVars, hyVars, reserveVars, zoneVars>>
  \/ /\ part \in {"reserve", "zone", "quota", "agent"}   \* these may come to an end
     /\ UNCHANGED hostVars

\* The fairness of each component's own specification, while it is the one that moves.
HostSpec ==
  /\ HostInit /\ [][HostNext]_hostVars
  /\ \A th \in Threads : WF_vars(part = "support" /\ Step(th))
  /\ WF_vars(part = "support" /\ Start("job", "repair"))
  /\ SF_panelVars(part = "panel" /\ Renewing)
  /\ \A t \in PanelThread : WF_panelVars(part = "panel" /\ CallGoesOn(t))
  /\ WF_quotaVars(part = "quota" /\ MonthBegins)
  /\ WF_quotaVars(part = "quota" /\ JobStarts) /\ WF_quotaVars(part = "quota" /\ JobGoesOn)
  /\ WF_quotaVars(part = "quota" /\ (GrantRaises \/ GrantSaves))
  /\ WF_hyVars(part = "hysteria" /\ HyTick)
  /\ \A u \in HyUser : WF_hyVars(part = "hysteria" /\ HyConnect(u, FALSE)) /\ WF_hyVars(part = "hysteria" /\ RefreshAnswered(u))
  /\ WF_reserveVars(part = "reserve" /\ EnsureMoves(PoolThread))
  /\ WF_reserveVars(part = "reserve" /\ ReserveTick)
  /\ \A k \in ReserveKey : WF_reserveVars(part = "reserve" /\ ProfileFetched(k))
  /\ WF_zoneVars(part = "zone" /\ RunStarted("sync"))
  /\ WF_zoneVars(part = "zone" /\ RunMoves)
  /\ \A w \in TurnWorker : WF_agentVars(part = "agent" /\ TurnGoesOn(w))

\* What comes about in the end: support ends, a lost client is renewed, the quota and
\* Hysteria's readings catch up, a payer gets onto the reserve and into the RU zone, and a
\* conversation with the agent is free again.
AccessProgress ==
  /\ SupportEnds /\ LostComesBack /\ QuotaHolds /\ HysteriaHolds
  /\ PayerGetsIn /\ ListArrives /\ TurnsEnd
==============================================================================
