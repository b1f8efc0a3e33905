---------------------------- MODULE TelegramCalls ----------------------------
(***************************************************************************)
(* core/telegram_client.py: calls from the polling and scheduler threads   *)
(* through a pool of proxies.  An entry that cannot be connected to is     *)
(* cooled, the call tried again through another.  The pool has a lock; the *)
(* streak of failures and the record of an outage, read by check_telegram_ *)
(* api of services/alert_manager.py, have none, so their reads and writes  *)
(* interleave.                                                             *)
(***************************************************************************)
EXTENDS Sublists, SequencesExt

CONSTANTS Pool,          \* TG_PROXY_URLS, in its order
          Sender,        \* threads that make calls
          CallTries,     \* MAX_RETRIES
          OutageStreak,  \* OUTAGE_FAIL_STREAK
          NoEntry,
          MaxFlips,      \* bound: entries that fail or come back
          MaxErrors      \* bound: calls that Telegram answers with an error

Entry == ToSet(Pool)

ASSUME CallConstants ==
  /\ Pool \in Seq(Entry) \ {<<>>} /\ NoEntry \notin Entry /\ Len(Pool) <= CallTries
  /\ {CallTries, OutageStreak} \subseteq Nat \ {0} /\ {MaxFlips, MaxErrors} \subseteq Nat

VARIABLES reachable,  \* entries through which Telegram can be reached
          cooling,    \* _proxy_dead_until: marked entries, the first to come back first
          active,     \* _active_proxy
          connFails,  \* _conn_fail_streak, counted up to OutageStreak
          outage,     \* TG_API_OUTAGE: since, and recovery_pending
          sending,       \* the call of every thread
          flips, errors

callVars == <<reachable, cooling, active, connFails, outage, sending, flips, errors>>

\* An outage on record: none, one of at most three minutes, a longer one.
Since == {"none", "short", "long"}

NoCall == [at |-> "idle", entry |-> NoEntry, tries |-> 0, read |-> 0, marked |-> {}, steady |-> {}]
CallInit ==
  /\ reachable = Entry /\ cooling = <<>> /\ active = NoEntry /\ connFails = 0
  /\ outage = [since |-> "none", pending |-> FALSE]
  /\ sending = [s \in Sender |-> NoCall] /\ flips = 0 /\ errors = 0

CallAt(s, step) == sending' = [sending EXCEPT ![s].at = step]
Cooled == ToSet(cooling)
Without(e) == Drop(cooling, {e})

-----------------------------------------------------------------------------
\* _pick_proxy: the active entry while it is not marked, else the first that is not, else
\* the one that comes back soonest.
FirstAlive ==
  Pool[CHOOSE i \in DOMAIN Pool :
         Pool[i] \notin Cooled /\ \A j \in 1..(i - 1) : Pool[j] \in Cooled]
PickProxy ==
  IF Entry \subseteq Cooled THEN Head(cooling)
  ELSE IF active \in Entry \ Cooled THEN active ELSE FirstAlive

\* _request takes an entry, for the first time or again; steady: the entries that could be
\* connected to ever since it began.
EntryPicked(s) ==
  /\ sending[s].at \in {"idle", "again"} /\ active' = PickProxy
  /\ sending' = [sending EXCEPT ![s].at = "post", ![s].entry = active',
                          ![s].steady = IF sending[s].at = "idle" THEN reachable ELSE @]
  /\ UNCHANGED <<reachable, cooling, connFails, outage, flips, errors>>

\* Telegram answers, with the result or with an error; a read that times out is no
\* connection error either.  Neither says anything of the entry, and an error no success.
CallAnswered(s) ==
  /\ sending[s].at = "post" /\ sending[s].entry \in reachable /\ CallAt(s, "won")
  /\ UNCHANGED <<reachable, cooling, active, connFails, outage, flips, errors>>

Again(s) == IF sending[s].tries + 1 < CallTries THEN "again" ELSE "failed"
CallErred(s) ==
  /\ sending[s].at = "post" /\ sending[s].entry \in reachable /\ errors < MaxErrors
  /\ errors' = errors + 1
  /\ sending' = [sending EXCEPT ![s].at = Again(s), ![s].tries = @ + 1, ![s].steady = {}, ![s].entry = NoEntry]
  /\ UNCHANGED <<reachable, cooling, active, connFails, outage, flips>>

CallRefused(s) ==
  /\ sending[s].at = "post" /\ sending[s].entry \notin reachable /\ CallAt(s, "lost")
  /\ UNCHANGED <<reachable, cooling, active, connFails, outage, flips, errors>>

\* _note_success: streak and record are looked at, the streak reset; then the record is
\* closed, from what was read.
SuccessRead(s) ==
  /\ sending[s].at = "won"
  /\ IF connFails = 0 /\ outage.since = "none"
     THEN sending' = [sending EXCEPT ![s] = NoCall] /\ UNCHANGED connFails
     ELSE /\ connFails' = 0
          /\ sending' = [sending EXCEPT ![s].at = "closing", ![s].read = IF outage.since = "none" THEN 0 ELSE 1]
  /\ UNCHANGED <<reachable, cooling, active, outage, flips, errors>>

SuccessNoted(s) ==
  /\ sending[s].at = "closing" /\ sending' = [sending EXCEPT ![s] = NoCall]
  /\ outage' = IF sending[s].read = 0 THEN outage
               ELSE [since |-> "none", pending |-> TRUE]
  /\ UNCHANGED <<reachable, cooling, active, connFails, flips, errors>>

\* _note_conn_failure: the streak is read, then written one higher and compared.
FailureRead(s) ==
  /\ sending[s].at = "lost" /\ sending' = [sending EXCEPT ![s].at = "counting", ![s].read = connFails]
  /\ UNCHANGED <<reachable, cooling, active, connFails, outage, flips, errors>>

FailureNoted(s) ==
  /\ sending[s].at = "counting" /\ sending' = [sending EXCEPT ![s].at = "mark", ![s].read = 0]
  /\ connFails' = IF sending[s].read < OutageStreak THEN sending[s].read + 1 ELSE OutageStreak
  /\ outage' = IF connFails' = OutageStreak /\ outage.since = "none"
               THEN [outage EXCEPT !.since = "short"] ELSE outage
  /\ UNCHANGED <<reachable, cooling, active, flips, errors>>

\* _mark_proxy_dead, and the next try; others' calls lose what they could count on.
EntryMarked(s) ==
  LET e == sending[s].entry
  IN /\ sending[s].at = "mark"
     /\ cooling' = Append(Without(e), e) /\ active' = IF active = e THEN NoEntry ELSE active
     /\ sending' = [c \in Sender |->
          IF c = s THEN [sending[s] EXCEPT !.at = Again(s), !.tries = @ + 1, !.marked = @ \union {e},
                                        !.entry = NoEntry]
          ELSE [sending[c] EXCEPT !.steady = @ \ {e}]]
     /\ UNCHANGED <<reachable, connFails, outage, flips, errors>>

CallGivenUp(s) ==
  /\ sending[s].at = "failed" /\ sending' = [sending EXCEPT ![s] = NoCall]
  /\ UNCHANGED <<reachable, cooling, active, connFails, outage, flips, errors>>

-----------------------------------------------------------------------------
\* PROXY_COOLDOWN_SEC is over for the entry marked first; it is longer than a call takes to
\* its last try.
EntryCooled ==
  /\ cooling # <<>> /\ \A s \in Sender : Head(cooling) \notin sending[s].marked
  /\ cooling' = Tail(cooling)
  /\ UNCHANGED <<reachable, active, connFails, outage, sending, flips, errors>>

EntryFlips(e) ==
  /\ flips < MaxFlips /\ flips' = flips + 1
  /\ reachable' = IF e \in reachable THEN reachable \ {e} ELSE reachable \union {e}
  /\ sending' = [s \in Sender |-> [sending[s] EXCEPT !.steady = @ \ {e}]]
  /\ UNCHANGED <<cooling, active, connFails, outage, errors>>

OutageAges ==
  /\ outage.since = "short" /\ outage' = [outage EXCEPT !.since = "long"]
  /\ UNCHANGED <<reachable, cooling, active, connFails, sending, flips, errors>>

\* check_telegram_api: a long outage is reported as long as it lasts; one that is over is
\* told of once, unless it was under a minute.
TelegramChecked ==
  /\ outage.since # "long" /\ outage.pending /\ outage' = [outage EXCEPT !.pending = FALSE]
  /\ UNCHANGED <<reachable, cooling, active, connFails, sending, flips, errors>>

CallMoves(s) ==
  \/ EntryPicked(s) \/ CallAnswered(s) \/ CallRefused(s) \/ SuccessRead(s)
  \/ SuccessNoted(s) \/ FailureRead(s) \/ FailureNoted(s) \/ EntryMarked(s) \/ CallGivenUp(s)

CallNext ==
  \/ \E s \in Sender : CallMoves(s) \/ CallErred(s)
  \/ EntryCooled \/ OutageAges \/ TelegramChecked
  \/ \E e \in Entry : EntryFlips(e)

\* The polling thread calls again and again, and the check runs every minute.
CallSpec ==
  /\ CallInit /\ [][CallNext]_callVars
  /\ \A s \in Sender : WF_callVars(CallMoves(s))
  /\ WF_callVars(EntryCooled) /\ WF_callVars(TelegramChecked)

-----------------------------------------------------------------------------
\* Type correctness: the pool, the record and the calls.
CallTypeOK ==
  /\ reachable \subseteq Entry /\ Cooled \subseteq Entry /\ Len(cooling) <= Len(Pool)
  /\ active \in {NoEntry} \union Entry /\ connFails \in 0..OutageStreak
  /\ outage \in [since : Since, pending : BOOLEAN]
  /\ \A s \in Sender : sending[s].tries <= CallTries /\ sending[s].marked \union sending[s].steady \subseteq Entry

\* A call gives up only if no entry could be connected to all the while it was made, but for
\* those that another thread marked meanwhile and calls that Telegram refused (_request,
\* _pick_proxy: the tries reach every entry of the pool).
TriedWhatWorks == \A s \in Sender : sending[s].at = "failed" => sending[s].steady = {}

\* Once an entry works for good, the bot settles: it stops trying those that do not, no outage
\* stays on record - so the alert ends - and its end has been told of.
Settles ==
  (\E e \in Entry : <>[](e \in reachable))
    => <>[](connFails = 0 /\ outage = [since |-> "none", pending |-> FALSE])

\* What the pool and the record promise.
CallsHold == CallTypeOK /\ TriedWhatWorks
==============================================================================
