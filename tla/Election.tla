------------------------------ MODULE Election ------------------------------
(***************************************************************************)
(* Leader election between exit nodes (core/cluster/election.py, state.py, *)
(* services/node_cluster.py) as NodeClusterManager wires it: the handler   *)
(* that sends vote requests is the node's own vote handler, and a health   *)
(* check hands the callee its OWN health, as a heartbeat if it leads.      *)
(* Each node is one event loop: a handler runs to its next await.          *)
(*                                                                         *)
(* VoteHandledAnew is VoteHandled with a bug in it: see "mutants" in       *)
(* PROJECT.json.                                                           *)
(***************************************************************************)
EXTENDS Naturals, FiniteSets

CONSTANTS Node,      \* exit nodes
          PeersOf,   \* PeersOf[n]: the EXIT_NODE_PEERS of n, perhaps with n itself
          MaxTerm,   \* bound: no node starts an election beyond this term
          MaxCrash,  \* bound: restarts of processes
          NoNode

ASSUME ElectionConstants ==
  /\ IsFiniteSet(Node) /\ PeersOf \in [Node -> SUBSET Node]
  /\ MaxTerm \in Nat
  /\ MaxCrash \in Nat
  /\ NoNode \notin Node

VARIABLES node,      \* ClusterState and LeaderElection of each node
          crashes    \* processes killed so far

electVars == <<node, crashes>>

\* timer: an election timer task is pending; pulse: the heartbeat loop runs;
\* asks: vote tasks created and not run yet, all in the term of the election.
FreshNode == [up |-> FALSE, role |-> "follower", term |-> 0, voted |-> NoNode,
              leader |-> NoNode, leaderTerm |-> 0, votes |-> {}, electing |-> FALSE,
              timer |-> FALSE, pulse |-> FALSE, asks |-> 0, askTerm |-> 0]

Led(s) == s.role = "leader"

\* _start_election_timer cancels the pending task. When the task is the one that
\* runs the election, its collection of votes dies with it and end_election is
\* never reached; the loop of a stopped manager ends at once.
TimerStarted(s) == [s EXCEPT !.timer = s.up]

\* A timer loop that wakes finds a role: only a follower starts an election.
BecameCandidate(s, n) ==
  [s EXCEPT !.electing = TRUE, !.role = "candidate", !.votes = {n},
            !.voted = n, !.term = @ + 1]

BecameLeader(s, n) ==
  [s EXCEPT !.timer = FALSE, !.role = "leader", !.leader = n,
            !.leaderTerm = s.term, !.electing = FALSE, !.pulse = TRUE]

SteppedDown(s) ==
  TimerStarted([s EXCEPT !.pulse = FALSE, !.role = "follower",
                         !.leader = NoNode, !.leaderTerm = 0])

ExitPeers(n) == PeersOf[n] \ {n}

\* _start_election: alone, the node leads at once; else one vote task per peer.
ElectionStarted(s, n) ==
  LET c == BecameCandidate(s, n)
  IN IF ExitPeers(n) = {}
     THEN BecameLeader(c, n)
     ELSE [c EXCEPT !.asks = Cardinality(ExitPeers(n)), !.askTerm = c.term]

\* The first half of handle_vote_request: a higher term is adopted.
AdoptTerm(s, t) ==
  IF t > s.term
  THEN TimerStarted([s EXCEPT !.term = t, !.role = "follower", !.voted = NoNode,
                              !.leader = NoNode, !.leaderTerm = 0])
  ELSE s

\* The second half: a free or repeated vote is cast and resets the timer.
VoteHandledAnew(s, c, t) ==
  IF t < s.term THEN s ELSE TimerStarted([AdoptTerm(s, t) EXCEPT !.voted = c])

VoteHandled(s, c, t) ==
  LET a == AdoptTerm(s, t)
  IN IF t >= s.term /\ a.voted \in {NoNode, c}
     THEN TimerStarted([a EXCEPT !.voted = c])
     ELSE a

\* handle_heartbeat: a leader or candidate steps down whatever the sender.
HeartbeatHandled(s, from, t) ==
  LET adopted == IF t > s.term THEN [s EXCEPT !.term = t, !.voted = NoNode] ELSE s
      below   == IF adopted.role # "follower" THEN SteppedDown(adopted) ELSE adopted
  IN IF t < s.term
     THEN s
     ELSE TimerStarted([below EXCEPT !.leader = from, !.leaderTerm = t])

\* GET /health: on_get_health is given the health of the node that is asked.
HealthAsked(s, n) == IF Led(s) THEN HeartbeatHandled(s, n, s.term) ELSE s

-----------------------------------------------------------------------------
ElectInit == node = [n \in Node |-> FreshNode] /\ crashes = 0

ElectStart(n) ==
  /\ ~node[n].up
  /\ node' = [node EXCEPT ![n] = TimerStarted([@ EXCEPT !.up = TRUE, !.role = "follower"])]
  /\ UNCHANGED crashes

\* stop(): the tasks are cancelled and a leader steps down.
ElectStop(n) ==
  /\ node[n].up
  /\ node' = [node EXCEPT ![n] =
       LET s == [@ EXCEPT !.up = FALSE, !.timer = FALSE, !.pulse = FALSE]
       IN IF Led(s) THEN SteppedDown(s) ELSE s]
  /\ UNCHANGED crashes

\* The process dies and comes back: nothing of ClusterState is on disk.
ElectCrash(n) ==
  /\ node[n].up
  /\ crashes < MaxCrash
  /\ node' = [node EXCEPT ![n] = FreshNode]
  /\ crashes' = crashes + 1

ElectTimeout(n) ==
  /\ node[n].up /\ node[n].timer
  /\ node[n].role = "follower"
  /\ node[n].asks = 0
  /\ node[n].term < MaxTerm
  /\ node' = [node EXCEPT ![n] = ElectionStarted(@, n)]
  /\ UNCHANGED crashes

\* A vote task: the request is answered by the candidate itself.
AskVote(n) ==
  /\ node[n].asks > 0
  /\ LET s == node[n]
     IN node' = [node EXCEPT ![n] = [VoteHandled(s, n, s.askTerm) EXCEPT !.asks = s.asks - 1]]
  /\ UNCHANGED crashes

\* POST /vote of a NodeSyncClient.
VoteRequested(n, c, t) ==
  /\ node[n].up
  /\ node' = [node EXCEPT ![n] = VoteHandled(@, c, t)]
  /\ UNCHANGED crashes

\* The health loop of n asks a peer; whether the answer arrives only labels it.
PeerChecked(n, p) ==
  /\ node[n].up /\ node[p].up
  /\ p \in PeersOf[n]
  /\ node' = [node EXCEPT ![p] = HealthAsked(@, p)]
  /\ UNCHANGED crashes

\* One round of the heartbeat loop: it ends when the node leads no more, else it
\* asks the health of every peer of the client, itself when it is listed.
HeartbeatRound(n) ==
  /\ node[n].up /\ node[n].pulse
  /\ node' = [p \in Node |->
       IF ~Led(node[n])
       THEN IF p = n THEN [node[n] EXCEPT !.pulse = FALSE] ELSE node[p]
       ELSE IF p \in PeersOf[n] /\ node[p].up THEN HealthAsked(node[p], p) ELSE node[p]]
  /\ UNCHANGED crashes

ElectNext ==
  \E n \in Node :
     \/ ElectStart(n) \/ ElectStop(n) \/ ElectCrash(n)
     \/ ElectTimeout(n) \/ AskVote(n) \/ HeartbeatRound(n)
     \/ \E p \in Node : PeerChecked(n, p)
     \/ \E c \in Node \ {n}, t \in 1..MaxTerm : VoteRequested(n, c, t)

ElectSpec == ElectInit /\ [][ElectNext]_electVars

-----------------------------------------------------------------------------
ElectTypeOK ==
  /\ crashes \in 0..MaxCrash
  /\ node \in [Node ->
       [up : BOOLEAN, role : {"follower", "candidate", "leader"}, term : 0..MaxTerm,
        voted : Node \union {NoNode}, leader : Node \union {NoNode},
        leaderTerm : 0..MaxTerm, votes : SUBSET Node, electing : BOOLEAN,
        timer : BOOLEAN, pulse : BOOLEAN, asks : 0..Cardinality(Node),
        askTerm : 0..MaxTerm]]

\* A node that stays up votes for one candidate of a term: its vote changes only
\* with its term, whatever requests, tasks and elections of its own interleave
\* (handle_vote_request, start_election).
OneVotePerTerm ==
  [][\A n \in Node :
       node[n].voted # NoNode /\ node'[n].voted # node[n].voted
         => node'[n].term > node[n].term \/ crashes' > crashes]_electVars

\* Nobody waits for ever: a running follower has an election timer, and a node
\* that leads has its heartbeat loop, through every step-down and restart.
WatchKept ==
  \A n \in Node : node[n].up =>
    /\ node[n].role # "leader" => node[n].timer
    /\ Led(node[n]) => node[n].pulse /\ ~node[n].electing

\* What the wiring amounts to: only a node without exit peers ever leads, and the
\* only leader a node knows is itself (_collect_votes is cancelled by the vote the
\* node gives itself; no heartbeat travels between nodes).
LeadsAlone ==
  \A n \in Node : /\ Led(node[n]) => ExitPeers(n) = {}
                  /\ node[n].leader \in {NoNode, n}

\* A node without exit peers that stays up leads again and again, though every
\* health check it answers makes it step down.
LonerLeads ==
  \A n \in Node : ExitPeers(n) = {} =>
    []<>(Led(node[n]) \/ ~node[n].up \/ node[n].term = MaxTerm)

\* What the election promises.
ElectionHolds == [](ElectTypeOK /\ WatchKept /\ LeadsAlone) /\ OneVotePerTerm
=============================================================================
