------------------------------ MODULE FailoverDesk ------------------------------
(***************************************************************************)
(* services/failover_notifications.py behind failover_api.py: events of     *)
(* moved users are collected, a processor turns them into one batch per     *)
(* target exit and shows each to the admin, who ignores it or sends its     *)
(* users a message.  Everything awaits Telegram, so that events and the     *)
(* admin's buttons come in between.  A batch is called after its target and *)
(* the second of the day.                                                  *)
(***************************************************************************)
EXTENDS Integers, Sequences, SequencesExt, FiniteSets

CONSTANTS Target,      \* exits users are moved to
          DaySecond,   \* seconds of the day at which batches are made
          Button,      \* handlers of the admin's buttons that may run at once
          MaxEvents    \* bound: events reported

ASSUME DeskConstants == MaxEvents \in Nat \ {0}

VARIABLES target,     \* where every event's user was moved to
          recent,     \* _recent_failovers
          run,        \* process_failover_batch: the targets left and what it awaits
          pending,    \* _pending_batches: the events of a batch, by its name
          shown,      \* batches the admin was shown
          sending,    \* per handler: the batch it sends to and how far it is
          late,       \* events that came while a batch run was on
          batched,    \* events that got into a batch
          decided     \* events of batches ignored, sent or replaced

deskVars == <<target, recent, run, pending, shown, sending, late, batched, decided>>

Name == [to : Target, second : DaySecond]
Event == DOMAIN target
NoRun == [on |-> FALSE, events |-> {}, left |-> {}, awaits |-> {}]
NotSending == [name |-> {}, left |-> {}, failed |-> 0, sent |-> 0]

DeskInit ==
  /\ target = <<>> /\ recent = {} /\ run = NoRun /\ pending = [n \in Name |-> {}]
  /\ shown = {} /\ sending = [b \in Button |-> NotSending]
  /\ late = {} /\ batched = {} /\ decided = {}

\* report_failover_event: a handler that raises is answered with "not accepted".
EventReported(x) ==
  LET e == Len(target) + 1
  IN /\ e <= MaxEvents /\ target' = Append(target, x) /\ recent' = recent \union {e}
     /\ late' = IF run.on THEN late \union {e} ELSE late
     /\ UNCHANGED <<run, pending, shown, sending, batched, decided>>

-----------------------------------------------------------------------------
\* start_batch_processor, once a minute: a run takes a copy of what is there.
BatchDue == recent # {}

BatchRunStarts ==
  /\ ~run.on /\ BatchDue
  /\ run' = [on |-> TRUE, events |-> recent, left |-> {target[e] : e \in recent}, awaits |-> {}]
  /\ UNCHANGED <<target, recent, pending, shown, sending, late, batched, decided>>

\* A batch is put down, over one of the same name if there is one; then the admin is told.
Group(x) == {e \in run.events : target[e] = x}

BatchMade ==
  \E n \in Name :
    /\ run.on /\ run.awaits = {} /\ n.to \in run.left
    /\ pending' = [pending EXCEPT ![n] = Group(n.to)]
    /\ batched' = batched \union Group(n.to) /\ decided' = decided \union pending[n]
    /\ shown' = shown \ {n}
    /\ run' = [run EXCEPT !.left = @ \ {n.to}, !.awaits = {n}]
    /\ UNCHANGED <<target, recent, sending, late>>

AdminTold(works) ==
  /\ run.awaits # {} /\ run' = [run EXCEPT !.awaits = {}]
  /\ shown' = IF works THEN shown \union (run.awaits \intersect {n \in Name : pending[n] # {}}) ELSE shown
  /\ UNCHANGED <<target, recent, pending, sending, late, batched, decided>>

\* The run is over: the list is emptied, with what came in the meantime.
BatchRunEnds ==
  /\ run.on /\ run.awaits = {} /\ run.left = {} /\ run' = NoRun /\ recent' = {}
  /\ UNCHANGED <<target, pending, shown, sending, late, batched, decided>>

-----------------------------------------------------------------------------
\* handle_admin_callback: "ignore", and "send_broadcast" one user after the other.
Dropped(n) == pending' = [pending EXCEPT ![n] = {}] /\ decided' = decided \union pending[n]

BatchIgnored(n) ==
  /\ n \in shown /\ pending[n] # {} /\ Dropped(n) /\ shown' = shown \ {n}
  /\ UNCHANGED <<target, recent, run, sending, late, batched>>

BroadcastBegun(b, n) ==
  /\ sending[b] = NotSending /\ n \in shown /\ pending[n] # {}
  /\ sending' = [sending EXCEPT ![b] = [name |-> {n}, left |-> pending[n], failed |-> 0, sent |-> 0]]
  /\ UNCHANGED <<target, recent, run, pending, shown, late, batched, decided>>

UserMessaged(b, works) ==
  \E e \in sending[b].left :
    /\ sending' = [sending EXCEPT ![b].left = @ \ {e},
                                  ![b].sent = IF works THEN @ + 1 ELSE @,
                                  ![b].failed = IF works THEN @ ELSE @ + 1]
    /\ UNCHANGED <<target, recent, run, pending, shown, late, batched, decided>>

\* The admin gets the sums and the batch is deleted (a KeyError if another hand did it); if
\* he cannot be told the batch stays, with its buttons.
BroadcastEnds(b, told) ==
  \E n \in sending[b].name :
    /\ sending[b].left = {} /\ sending' = [sending EXCEPT ![b] = NotSending]
    /\ IF told THEN Dropped(n) /\ shown' = shown \ {n} ELSE UNCHANGED <<pending, decided, shown>>
    /\ UNCHANGED <<target, recent, run, late, batched>>

BatchRunMoves == BatchMade \/ (\E works \in BOOLEAN : AdminTold(works)) \/ BatchRunEnds

DeskNext ==
  \/ \E x \in Target : EventReported(x)
  \/ BatchRunStarts \/ BatchRunMoves
  \/ \E n \in Name : BatchIgnored(n) \/ \E b \in Button : BroadcastBegun(b, n)
  \/ \E b \in Button, works \in BOOLEAN : BroadcastEnds(b, works) \/ UserMessaged(b, works)

\* A run once begun goes on; nothing makes one begin.
DeskSpec == DeskInit /\ [][DeskNext]_deskVars /\ WF_deskVars(BatchRunMoves)

-----------------------------------------------------------------------------
\* Type correctness: events, batches and broadcasts.
DeskTypeOK ==
  /\ target \in Seq(Target) /\ recent \union late \union batched \union decided \subseteq Event
  /\ pending \in [Name -> SUBSET Event] /\ shown \subseteq Name
  /\ run.events \union UNION {sending[b].left : b \in Button} \subseteq Event

\* No event is lost but one that came while a run awaited Telegram: until then it is on the
\* list, afterwards in a batch, or in one that was decided (process_failover_batch).
EventsAccounted ==
  \A e \in Event : e \in recent \union late \union decided \union UNION {pending[n] : n \in Name}

\* A batch speaks of one exit: its events are those of users moved there, whole or not at all.
BatchesAreWhole ==
  \A n \in Name : \A e \in pending[n] :
    target[e] = n.to /\ (run.on /\ e \in run.events => Group(n.to) \subseteq pending[n])

\* Whatever a run has taken from the list is in a batch in the end, whether the admin can be
\* told of its batches or not.
EventsBatched == \A e \in 1..MaxEvents : (run.on /\ e \in run.events) ~> e \in batched

\* What the desk never does: lose an event, or tear or mix a batch.
DeskHolds == DeskTypeOK /\ EventsAccounted /\ BatchesAreWhole
==============================================================================
