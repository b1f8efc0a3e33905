------------------------------ MODULE MCServed -------------------------------
(***************************************************************************)
(* What a user is served and from where: the order of the cascade, the     *)
(* profiles made from it, the table that routes users to exits, what is    *)
(* known of the exits' load, the desk that tells of moved users, and the   *)
(* guard of the agent's models. The components share no state; one of them *)
(* moves in a behaviour (part).                                            *)
(***************************************************************************)
EXTENDS Cascade, SubProfile, ExitRouting, HermesGuard, FailoverDesk, TLC

VARIABLE part   \* the component that moves

\* Four protocols, and lists that repeat a name, name one that no longer exists, or leave some out.
MCKnown == <<"stls", "ws", "hy2", "reality">>
MCDefaultOrder == <<"hy2", "stls", "ws", "reality">>
MCLockdownOrder == <<"ws", "stls", "reality", "hy2">>
MCNoDefault == <<>>
MCFree == {"stls", "ws", "hy2"}

Item(name, on) == [name |-> name, enabled |-> on]

MCConfigs ==
  {<<>>, <<Item("xhttp", TRUE)>>,
   <<Item("reality", TRUE), Item("hy2", FALSE)>>,
   <<Item("ws", FALSE), Item("ws", TRUE), Item("xhttp", TRUE), Item("stls", TRUE)>>,
   <<Item("hy2", FALSE), Item("ws", FALSE), Item("stls", FALSE), Item("reality", TRUE)>>}

MCOrders ==
  {<<>>, <<"xhttp">>, <<"reality", "ws">>, <<"hy2", "hy2", "stls">>,
   <<"ws", "xhttp", "reality", "stls", "hy2">>}

MCStoredOrders ==
  {<<>>, <<"stls">>, <<"reality", "xhttp", "hy2">>, <<"ws", "reality", "stls">>}
MCDemotions == {{}, {"reality"}, {"hy2", "stls"}, {"ws", "reality", "stls"}}
MCCurated == <<"c1", "c2">>
MCTier == ("x" :> 0) @@ ("y" :> 2) @@ ("z" :> 1)

\* Looked at while their part moves.
OrdersHold == part = "order" => OrderSound
ProfilesHold == part = "profile" => ProfileHolds

\* Routing, trackers and desk: a move helps and is there when needed, the trackers do not
\* contradict one another, and no event of a moved user is lost.
FailoverHolds == RoutesHold /\ [](TrackersHold /\ DeskHolds)

\* What comes about: a run of the desk batches all it took, and the agent leaves a model
\* that costs something and is restarted.
ServedProgress == EventsBatched /\ PaidIsCut /\ RestartHappens

hostVars == <<part, vars, profileVars, routingVars, trackVars, guardVars, deskVars>>

\* Each component starts as it does by itself; those that stand still, from one state.
HostInit ==
  /\ part \in {"order", "profile", "routing", "trackers", "guard", "desk"}
  /\ Init /\ ProfileInit /\ RoutingInit /\ TrackInit /\ GuardInit /\ DeskInit
  /\ (part # "order" => config = <<>> /\ byAsn = <<>> /\ byCountry = <<>> /\ lockOrder = <<>>
                        /\ ~locked /\ sunk = {})
  /\ (part # "profile" => offer = [order |-> <<>>, demoted |-> {}]
                          /\ ~who.payer /\ ~who.en /\ ~who.reserve /\ ~who.base /\ who.mirrors = 0)
  /\ yaml.vision = Curated[1]

HostNext ==
  \/ /\ part = "order" /\ Next
     /\ UNCHANGED <<part, profileVars, routingVars, trackVars, guardVars, deskVars>>
  \/ /\ part = "profile" /\ ProfileNext
     /\ UNCHANGED <<part, vars, routingVars, trackVars, guardVars, deskVars>>
  \/ /\ part = "routing" /\ RoutingNext
     /\ UNCHANGED <<part, vars, profileVars, trackVars, guardVars, deskVars>>
  \/ /\ part = "trackers" /\ TrackNext
     /\ UNCHANGED <<part, vars, profileVars, routingVars, guardVars, deskVars>>
  \/ /\ part = "guard" /\ GuardNext
     /\ UNCHANGED <<part, vars, profileVars, routingVars, trackVars, deskVars>>
  \/ /\ part = "desk" /\ DeskNext
     /\ UNCHANGED <<part, vars, profileVars, routingVars, trackVars, guardVars>>
  \/ /\ part \in {"desk"}   \* these may come to an end
     /\ UNCHANGED hostVars

\* The fairness of each component's own specification, while it is the one that moves.
HostSpec ==
  /\ HostInit /\ [][HostNext]_hostVars
  /\ SF_guardVars(part = "guard" /\ RunBegins(TRUE, TRUE))
  /\ WF_guardVars(part = "guard" /\ GuardRunMoves)
  /\ WF_deskVars(part = "desk" /\ BatchRunMoves)
==============================================================================
