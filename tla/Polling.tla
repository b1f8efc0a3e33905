------------------------------ MODULE Polling -------------------------------
(***************************************************************************)
(* bot/core/polling.py with TelegramClient.get_updates: long polling with  *)
(* an offset that the bot keeps in memory only, and the queue that         *)
(* Telegram keeps on its side.  Telegram forgets an update when a          *)
(* getUpdates call asks for a later one.                                   *)
(*                                                                         *)
(* NextOfNewest is NextOf with a bug in it; ProcessOrRaise is Process with *)
(* a bug in it: see "mutants" in PROJECT.json.                             *)
(***************************************************************************)
EXTENDS Integers, FiniteSets

CONSTANTS
  LastUpdate,   \* bound: updates that ever arrive are 1..LastUpdate
  Limit,        \* updates per getUpdates
  MaxRestarts,  \* bound: times the process stops or dies
  Faults        \* which of "request", "answer", "crash", "stop" may happen

ASSUME ConstantsOK == LastUpdate \in Nat /\ Limit \in Nat \ {0} /\ MaxRestarts \in Nat

Updates == 1..LastUpdate

VARIABLES
  arrived,    \* the newest update at Telegram
  confirmed,  \* Telegram has forgotten every update up to this one
  offset,     \* PollingService.offset, 0 for None
  batch,      \* the updates still to process of the last answer
  running,    \* PollingService.running
  restarts,   \* how often the process began again
  handled     \* per update, how often its handler was called

vars == <<arrived, confirmed, offset, batch, running, restarts, handled>>

NewestOf(b) == CHOOSE u \in b : \A v \in b : u >= v

\* The for loop takes a batch from its oldest update; the client's new offset is
\* one past its newest.
NextOfNewest(b) == NewestOf(b)
NextOf(b) == CHOOSE u \in b : \A v \in b : u <= v
Past(b) == NewestOf(b) + 1
-----------------------------------------------------------------------------
Init ==
  /\ arrived = 0 /\ confirmed = 0 /\ offset = 0 /\ batch = {} /\ running = TRUE
  /\ restarts = 0 /\ handled = [u \in Updates |-> 0]

\* Somebody writes to the bot.
Arrive ==
  /\ arrived < LastUpdate /\ arrived' = arrived + 1
  /\ UNCHANGED <<confirmed, offset, batch, running, restarts, handled>>

\* What Telegram forgets and what it answers when asked for "from" on.
Forgets(from) == IF from > confirmed + 1 THEN from - 1 ELSE confirmed
Answer(from) == {u \in Updates : Forgets(from) < u /\ u <= arrived
                                   /\ u <= Forgets(from) + Limit}

\* get_updates, and offset moved past the answer before any of it is processed.
\* A failed request gives ([], None); its answer may be lost on the way back.
Asked ==
  /\ confirmed' = Forgets(offset) /\ batch' = batch \cup Answer(offset)
  /\ offset' = IF batch' = {} THEN offset ELSE Past(batch')


Poll ==
  /\ running /\ batch = {}
  /\ \/ Asked
     \/ "answer" \in Faults /\ confirmed' = Forgets(offset) /\ UNCHANGED <<batch, offset>>
     \/ "request" \in Faults /\ UNCHANGED <<confirmed, batch, offset>>
  /\ UNCHANGED <<arrived, running, restarts, handled>>

\* processor(update): the first handler that can handle it; whatever it raises
\* is swallowed, here and in _handle_update.
ProcessOrRaise ==
  /\ batch # {}
  /\ handled' = [handled EXCEPT ![NextOf(batch)] = @ + 1]
  /\ batch' \in {{}, batch \ {NextOf(batch)}}
  /\ UNCHANGED <<arrived, confirmed, offset, running, restarts>>

Process ==
  /\ batch # {}
  /\ handled' = [handled EXCEPT ![NextOf(batch)] = @ + 1]
  /\ batch' = batch \ {NextOf(batch)}
  /\ UNCHANGED <<arrived, confirmed, offset, running, restarts>>

\* stop(): the loop ends at its next turn, with the whole batch processed but
\* not confirmed.
Stop ==
  /\ "stop" \in Faults /\ running /\ restarts < MaxRestarts
  /\ running' = FALSE
  /\ UNCHANGED <<arrived, confirmed, offset, batch, restarts, handled>>

\* The process starts (again) after a stop, or after it died at any point.
Restart ==
  /\ \/ ~running /\ batch = {}
     \/ "crash" \in Faults /\ running /\ restarts < MaxRestarts
  /\ running' = TRUE /\ restarts' = restarts + 1 /\ offset' = 0 /\ batch' = {}
  /\ UNCHANGED <<arrived, confirmed, handled>>

Next == Arrive \/ Poll \/ Process \/ Stop \/ Restart

Spec == Init /\ [][Next]_vars

\* The loop keeps polling and processing, and not every request fails.
FairSpec ==
  Spec /\ SF_vars(Poll /\ batch' # {}) /\ WF_vars(Process) /\ WF_vars(Restart /\ ~running)
-----------------------------------------------------------------------------
\* Every variable has its type.
TypeOK ==
  /\ arrived \in 0..LastUpdate /\ confirmed \in 0..LastUpdate /\ offset \in 0..(LastUpdate + 1)
  /\ batch \subseteq Updates /\ running \in BOOLEAN /\ restarts \in 0..MaxRestarts
  /\ handled \in [Updates -> Nat]

\* No update is forgotten by Telegram before a handler was called for it,
\* though "offset" moves past a batch before any of it is processed.
NothingSkipped == \A u \in 1..confirmed : handled[u] > 0

\* A restart repeats at most the batch it interrupts: an update is handled
\* twice only by way of a restart, once for each, and only before its
\* confirmation.
RepeatsAreRestarts ==
  /\ \A u \in Updates : handled[u] <= 1 + restarts
  /\ \A u \in batch : u > confirmed

\* Updates are handled in the order they arrived, each run of the loop.
InOrder ==
  [][\A u, v \in Updates : u < v /\ handled'[v] # handled[v] => handled[u] > 0]_vars

\* Whoever writes to the bot is handled in the end.
EventuallyHandled ==
  \A u \in Updates : (arrived >= u) ~> (handled[u] > 0)

\* Updates are handled in turn: none passed over, none repeated without a restart, in order.
InTurn == [](TypeOK /\ NothingSkipped /\ RepeatsAreRestarts) /\ InOrder
=============================================================================
