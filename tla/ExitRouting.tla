------------------------------ MODULE ExitRouting ------------------------------
(***************************************************************************)
(* core/cluster: by which exit an entry node lets its users leave, and      *)
(* what is known of the exits.                                              *)
(*                                                                         *)
(* Routing (smart_routing.py): the table of the exits and of which user     *)
(* leaves by which.  Exits are registered and their statuses                *)
(* pushed one by one; a user is assigned to a primary exit with the         *)
(* fallbacks known at that moment, and moved off an exit that is down or    *)
(* throttled, at most MaxMoves times and not while the last move is fresh.  *)
(* The code has no caller of its own: what an entry node does with it is    *)
(* asking for a decision and executing it at once.                          *)
(*                                                                         *)
(* Trackers (node_tracker.py and performance_monitor.py with the            *)
(* recommendation of failover_api.py): loads are reported one by one; the   *)
(* average over a window says whether a limited exit is throttled, the age  *)
(* of the last report whether it is alive.  A change of the throttling is   *)
(* told to a listener by tasks of the event loop, in the order they were    *)
(* made.                                                                    *)
(*                                                                         *)
(* MovesToHasty is MovesTo with a bug in it: see "mutants" in              *)
(* PROJECT.json.                                                           *)
(***************************************************************************)
EXTENDS Integers, Sequences, SequencesExt, FiniteSets, Sublists

-----------------------------------------------------------------------------
(* Routing.                                                                *)

CONSTANTS Exit,       \* exit nodes
          Tier,       \* an exit's tier: 0 (high), 1 (standard), 2 (limited)
          RouteUser,
          Cpu,        \* loads
          MaxMoves,   \* MAX_FAILOVER_COUNT
          NoExit

ASSUME RoutingConstants ==
  /\ IsFiniteSet(Exit) /\ Tier \in [Exit -> 0..2] /\ Cpu \subseteq Nat /\ MaxMoves \in Nat /\ NoExit \notin Exit

VARIABLES profiles,   \* exits registered
          statuses,   \* an exit's status as last pushed
          routes,     \* the users' entries
          cooling,    \* users whose last move is younger than the cooldown
          idle        \* users not seen for a day

routingVars == <<profiles, statuses, routes, cooling, idle>>

Unknown == [known |-> FALSE, healthy |-> FALSE, throttled |-> FALSE, cpu |-> 0]
Unrouted == [primary |-> NoExit, current |-> NoExit, fallbacks |-> <<>>, moves |-> 0]

\* Only limited exits are ever throttled.
StatusesOf(x) ==
  {[known |-> TRUE, healthy |-> h, throttled |-> t, cpu |-> c] :
     h \in BOOLEAN, t \in IF Tier[x] = 2 THEN BOOLEAN ELSE {FALSE}, c \in Cpu}
Preferred(x) == statuses[x].healthy /\ ~statuses[x].throttled

RoutingInit ==
  /\ profiles = {} /\ statuses = [x \in Exit |-> Unknown]
  /\ routes = [u \in RouteUser |-> Unrouted] /\ cooling = {} /\ idle = {}

ExitRegistered(x) ==
  /\ x \notin profiles /\ profiles' = profiles \union {x}
  /\ UNCHANGED <<statuses, routes, cooling, idle>>

StatusPushed(x) ==
  /\ x \in profiles
  /\ \E s \in StatusesOf(x) : statuses' = [statuses EXCEPT ![x] = s]
  /\ UNCHANGED <<profiles, routes, cooling, idle>>

-----------------------------------------------------------------------------
\* _build_fallback_priority: the other exits known now, the best tier first; ties are by name,
\* which is any order here.
FallbacksOf(primary) ==
  LET others == profiles \ {primary}
  IN {f \in [1..Cardinality(others) -> others] :
        \A i, j \in DOMAIN f : i < j => f[i] # f[j] /\ Tier[f[i]] <= Tier[f[j]]}

\* assign_user: a new entry with its moves at none; a fresh move stays fresh. The user may
\* already leave by another exit than his primary.
UserAssigned(u, primary, current) ==
  /\ {primary, current} \subseteq profiles
  /\ \E f \in FallbacksOf(primary) :
       routes' = [routes EXCEPT ![u] = [primary |-> primary, current |-> current,
                                       fallbacks |-> f, moves |-> 0]]
  /\ idle' = idle \ {u}
  /\ UNCHANGED <<profiles, statuses, cooling>>

\* _find_best_target: the primary, then the fallbacks in order, then whatever healthy exit
\* has the least load.
BestTarget(r) ==
  LET inTurn == Keep(<<r.primary>> \o r.fallbacks, {x \in Exit : Preferred(x)})
      healthy == {x \in Exit : statuses[x].healthy}
  IN IF inTurn # <<>> THEN {inTurn[1]}
     ELSE {x \in healthy : \A y \in healthy : statuses[x].cpu <= statuses[y].cpu}

\* should_failover.
Movable(u) ==
  /\ routes[u] # Unrouted /\ routes[u].moves < MaxMoves /\ u \notin cooling
  /\ ~Preferred(routes[u].current)

MovesToHasty(u) == IF Movable(u) THEN BestTarget(routes[u]) \ {routes[u].current} ELSE {}
MovesTo(u) ==
  IF Movable(u)
  THEN {x \in BestTarget(routes[u]) \ {routes[u].current} : ~statuses[x].throttled}
  ELSE {}

\* execute_failover, right after the decision.
UserMoved(u) ==
  \E x \in MovesTo(u) :
    /\ routes' = [routes EXCEPT ![u].current = x, ![u].moves = @ + 1]
    /\ cooling' = cooling \union {u} /\ idle' = idle \ {u}
    /\ UNCHANGED <<profiles, statuses>>

RouteAsked(u) ==
  /\ routes[u] # Unrouted /\ idle' = idle \ {u}
  /\ UNCHANGED <<profiles, statuses, routes, cooling>>

\* cleanup_stale_routes.
RoutesCleaned ==
  /\ idle # {}
  /\ routes' = [u \in RouteUser |-> IF u \in idle THEN Unrouted ELSE routes[u]]
  /\ cooling' = cooling \ idle /\ idle' = {}
  /\ UNCHANGED <<profiles, statuses>>

\* The clock: the cooldown of five minutes and the day are over.
CooledDown ==
  \E u \in cooling : cooling' = cooling \ {u} /\ UNCHANGED <<profiles, statuses, routes, idle>>
DayPassed ==
  /\ cooling = {}
  /\ \E u \in RouteUser : routes[u] # Unrouted /\ idle' = idle \union {u}
  /\ UNCHANGED <<profiles, statuses, routes, cooling>>

RoutingNext ==
  \/ \E x \in Exit : ExitRegistered(x) \/ StatusPushed(x)
  \/ \E u \in RouteUser :
       UserMoved(u) \/ RouteAsked(u) \/ \E x, y \in Exit : UserAssigned(u, x, y)
  \/ RoutesCleaned \/ CooledDown \/ DayPassed

RoutingSpec == RoutingInit /\ [][RoutingNext]_routingVars

-----------------------------------------------------------------------------
\* Type correctness: the table.
RoutingTypeOK ==
  /\ profiles \subseteq Exit /\ cooling \union idle \subseteq RouteUser
  /\ \A x \in Exit : statuses[x] \in StatusesOf(x) \union {Unknown}
  /\ \A u \in RouteUser :
       /\ {routes[u].primary, routes[u].current} \subseteq Exit \union {NoExit}
       /\ routes[u].fallbacks \in Seq(Exit) /\ routes[u].moves \in 0..MaxMoves

\* A move helps: it leaves an exit that is down, throttled or unknown for one that is
\* neither, also when only the least loaded exit is left to choose (should_failover).
MovesHelp ==
  [][\A u \in RouteUser : routes'[u].moves > routes[u].moves =>
       ~Preferred(routes[u].current) /\ Preferred(routes'[u].current)]_routingVars

\* Nobody flaps: two moves of a user have a cooldown between them, also across a new
\* assignment, which sets the count of his moves back.
NobodyFlaps ==
  [][\A u \in RouteUser : routes'[u].moves > routes[u].moves => u \notin cooling]_routingVars

\* A bad exit can be left: a user with moves left and none fresh, on an exit that is down,
\* throttled or unknown, is decided a move while his primary or a fallback of his stands ready.
BadExitLeft ==
  \A u \in RouteUser :
    (/\ Movable(u)
     /\ \E x \in Exit :
          x \in {routes[u].primary} \union ToSet(routes[u].fallbacks) /\ Preferred(x))
      => MovesTo(u) # {}

\* The table's promises: types, moves that help and are there, no flapping.
RoutesHold == [](RoutingTypeOK /\ BadExitLeft) /\ MovesHelp /\ NobodyFlaps

-----------------------------------------------------------------------------
(* Trackers.                                                               *)

CONSTANTS TrackedNode,
          LimitedNode,   \* those of the limited tier
          Loads,         \* CPU loads in percent
          Threshold, Warning,   \* cpu_threshold and 80% of it
          MinSamples,    \* 10 reports before the average counts
          WindowSize,    \* 60 reports kept
          AvgWindow,     \* throttle_window_seconds, in ticks
          AliveFor,      \* 30 seconds, in ticks
          MaxTold        \* bound: changes of the throttling not told yet

ASSUME TrackerConstants ==
  /\ LimitedNode \subseteq TrackedNode /\ Loads \subseteq 0..100
  /\ {Threshold, Warning, MinSamples, WindowSize, AvgWindow, AliveFor, MaxTold} \subseteq Nat

VARIABLES trackers,   \* a node's reports with their ages, and its status
          telling,    \* tasks that tell the listener
          heard,      \* what the listener heard last of a node
          changed     \* nodes whose tracker has changed its status since it was made

trackVars == <<trackers, telling, heard, changed>>

MaxAge == IF AvgWindow > AliveFor THEN AvgWindow ELSE AliveFor
Untracked == [on |-> FALSE, reports |-> <<>>, status |-> "normal"]
NewTracker == [on |-> TRUE, reports |-> <<>>, status |-> "normal"]

TrackInit ==
  /\ trackers = [n \in TrackedNode |-> Untracked] /\ telling = <<>>
  /\ heard = [n \in TrackedNode |-> "normal"] /\ changed = {}

\* register_node makes a tracker anew, unregister_node takes it away.
NodeRegistered(n) ==
  /\ trackers' = [trackers EXCEPT ![n] = NewTracker] /\ changed' = changed \ {n}
  /\ UNCHANGED <<telling, heard>>
NodeUnregistered(n) ==
  /\ trackers[n].on /\ trackers' = [trackers EXCEPT ![n] = Untracked] /\ changed' = changed \ {n}
  /\ UNCHANGED <<telling, heard>>

-----------------------------------------------------------------------------
SumOf(s) == FoldLeft(LAMBDA a, r : a + r.cpu, 0, s)

\* _calculate_throttle_status: every report kept counts against MinSamples, only those of
\* the window enter the average.
Above(reports, limit) ==
  LET recent == SelectSeq(reports, LAMBDA r : r.age <= AvgWindow)
  IN SumOf(recent) > limit * Len(recent)
StatusAfter(reports) ==
  IF Len(reports) < MinSamples THEN "normal"
  ELSE IF Above(reports, Threshold) THEN "throttled"
  ELSE IF Above(reports, Warning) THEN "warning" ELSE "normal"

Told(n, status) == Append(telling, [node |-> n, status |-> status])

\* update_metrics: the report is kept, the status computed, a change is handed to a task.
LoadReported(n, cpu) ==
  LET all == Append(trackers[n].reports, [cpu |-> cpu, age |-> 0])
      kept == SubSeq(all, IF Len(all) > WindowSize THEN 2 ELSE 1, Len(all))
      status == IF n \in LimitedNode THEN StatusAfter(kept) ELSE "normal"
  IN /\ trackers[n].on /\ Len(telling) < MaxTold
     /\ trackers' = [trackers EXCEPT ![n].reports = kept, ![n].status = status]
     /\ IF status # trackers[n].status
        THEN telling' = Told(n, status) /\ changed' = changed \union {n}
        ELSE UNCHANGED <<telling, changed>>
     /\ UNCHANGED heard

ListenerTold ==
  /\ telling # <<>> /\ telling' = Tail(telling)
  /\ heard' = [heard EXCEPT ![telling[1].node] = telling[1].status]
  /\ UNCHANGED <<trackers, changed>>

\* The clock; ages beyond the windows are all the same.
Older(reports) == [i \in DOMAIN reports |->
                     [reports[i] EXCEPT !.age = IF @ > MaxAge THEN @ ELSE @ + 1]]
TrackTick ==
  /\ trackers' = [n \in TrackedNode |-> [trackers[n] EXCEPT !.reports = Older(@)]]
  /\ trackers' # trackers /\ UNCHANGED <<telling, heard, changed>>

TrackNext ==
  \/ \E n \in TrackedNode : NodeRegistered(n) \/ NodeUnregistered(n)
                            \/ \E c \in Loads : LoadReported(n, c)
  \/ ListenerTold \/ TrackTick

TrackSpec == TrackInit /\ [][TrackNext]_trackVars

-----------------------------------------------------------------------------
\* get_status: alive by the age of the last report; the score is cut by what is wrong.
LastOf(n) == trackers[n].reports[Len(trackers[n].reports)]
LoadOf(n) == IF trackers[n].reports = <<>> THEN 0 ELSE LastOf(n).cpu
Alive(n) == trackers[n].on /\ trackers[n].reports # <<>> /\ LastOf(n).age < AliveFor
Throttled(n) == trackers[n].status = "throttled"
Score(n) ==
  LET free == (100 - LoadOf(n)) + 100       \* with the memory at 0
  IN IF Throttled(n) THEN free \div 4 ELSE IF trackers[n].status = "warning" THEN free \div 2 ELSE free

\* select_best_exit_node: the best that is alive and not throttled, or the least loaded
\* alive one if the caller allows it.
BestOf(nodes) ==
  {n \in nodes : \A m \in nodes :
     Score(n) > Score(m) \/ (Score(n) = Score(m) /\ LoadOf(n) <= LoadOf(m))}
SelectBest(allowThrottled) ==
  LET alive == {n \in TrackedNode : Alive(n)}
      good == {n \in alive : ~Throttled(n)}
  IN IF good # {} THEN BestOf(good)
     ELSE IF allowThrottled
          THEN {n \in alive : \A m \in alive : LoadOf(n) <= LoadOf(m)}
          ELSE {}

\* get_failover_recommendation.
Recommended(current) ==
  IF Alive(current) /\ ~Throttled(current) THEN {}
  ELSE IF SelectBest(FALSE) # {} THEN SelectBest(FALSE)
  ELSE IF trackers[current].on /\ Throttled(current) THEN SelectBest(TRUE) \ {current} ELSE {}

\* GET /exit/recommendation: healthy ones, throttled ones if asked for, by score and load.
ApiRecommends(allowThrottled) ==
  BestOf({n \in TrackedNode : Alive(n) /\ (allowThrottled \/ ~Throttled(n))})

-----------------------------------------------------------------------------
\* Type correctness: reports within the window kept, none younger than the one after it.
TrackTypeOK ==
  /\ \A n \in TrackedNode :
       /\ Len(trackers[n].reports) <= WindowSize /\ trackers[n].status \in {"normal", "warning", "throttled"}
       /\ \A i \in 2..Len(trackers[n].reports) : trackers[n].reports[i].age <= trackers[n].reports[i - 1].age
  /\ heard \in [TrackedNode -> {"normal", "warning", "throttled"}] /\ changed \subseteq TrackedNode

\* The listener ends with the truth: once every task has run it holds the status of each
\* tracker that changed at all since it was made (a tracker made anew tells nobody).
ListenerKnows ==
  telling = <<>> => \A n \in changed : heard[n] = trackers[n].status

\* The monitor and the public recommendation name the same exits, and neither sends anybody
\* to where he is, to a dead exit, or to a throttled one while another is good.
AdviceAgrees ==
  /\ SelectBest(FALSE) = ApiRecommends(FALSE)
  /\ \A n \in TrackedNode : \A m \in Recommended(n) :
       m # n /\ Alive(m) /\ (Throttled(m) => ApiRecommends(FALSE) = {})

\* What is known of the exits holds: types, the listener's view, advice without contradiction.
TrackersHold == TrackTypeOK /\ ListenerKnows /\ AdviceAgrees
==============================================================================
