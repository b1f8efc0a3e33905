----------------------------- MODULE SyncClient -----------------------------
(***************************************************************************)
(* The HTTP client of the cluster (core/cluster/sync_client.py) against    *)
(* the API of one peer (sync_api.py, node_cluster.py): concurrent requests *)
(* with retries under one circuit breaker, and what the peer does with     *)
(* them.  Peers are independent of each other in the client's tables.      *)
(* POST /sync/user and /sync/traffic are signed; /health and /vote are not.*)
(*                                                                         *)
(* RecordSuccessNot is RecordSuccess with a bug in it: see "mutants" in    *)
(* PROJECT.json.                                                           *)
(***************************************************************************)
EXTENDS Integers

CONSTANTS Caller,      \* tasks that may have a request in flight
          Threshold,   \* _circuit_threshold
          HoldTime,    \* _circuit_timeout, in ticks
          MaxTries,    \* max_retries
          MaxSigned    \* bound: signed requests ever begun

ASSUME SyncConstants ==
  /\ Threshold \in Nat \ {0} /\ HoldTime \in Nat \ {0}
  /\ MaxTries \in Nat \ {0} /\ MaxSigned \in Nat

VARIABLES call,      \* per caller: what it is doing and at which attempt
          peerFails,     \* _failed_peers[peer], Absent when there is no entry
          openLeft,  \* time left of _circuit_open_until[peer], 0 once past
          peerUp,    \* the peer answers
          inARow,    \* counted failures since the last counted success
          reached,   \* the last finished attempt was answered
          signed     \* signed requests begun

syncVars == <<call, peerFails, openLeft, peerUp, inARow, reached, signed>>

Absent == -1
Idle == [at |-> "idle", signs |-> FALSE, tries |-> 0]

\* What is signed is the payload with sorted keys and no spaces; what travels is
\* the payload with the default separators; the peer checks what travelled.
SignedText == "compact"
BodyText == "spaced"
VerifiedBy(text) == text = BodyText
Accepts(signs) == ~signs \/ VerifiedBy(SignedText)

\* _is_circuit_open: an entry whose time is over is dropped by whoever asks.
CircuitOpen == openLeft > 0
CircuitAsked ==
  /\ ~CircuitOpen
  /\ IF openLeft = 0 THEN peerFails' = 0 /\ openLeft' = Absent
                     ELSE UNCHANGED <<peerFails, openLeft>>

\* _record_success forgets the failures, not the time the circuit is open.
RecordSuccessNot == UNCHANGED <<peerFails, openLeft>>
RecordSuccess == peerFails' = Absent /\ UNCHANGED openLeft

\* _record_failure
FailsNow == IF peerFails = Absent THEN 1 ELSE peerFails + 1
RecordFailure ==
  /\ peerFails' = FailsNow
  /\ openLeft' = IF FailsNow >= Threshold THEN HoldTime ELSE openLeft

-----------------------------------------------------------------------------
SyncInit ==
  /\ call = [k \in Caller |-> Idle]
  /\ peerFails = Absent /\ openLeft = Absent
  /\ peerUp \in BOOLEAN
  /\ inARow = 0 /\ reached = FALSE /\ signed = 0

\* sync_user and send_traffic_stats sign; get_health and request_vote do not.
\* An open circuit raises at once and the caller gets None.
RequestBegun(k, signs) ==
  /\ call[k].at = "idle"
  /\ signs => signed < MaxSigned
  /\ CircuitAsked
  /\ call' = [call EXCEPT ![k] = [at |-> "sent", signs |-> signs, tries |-> 1]]
  /\ signed' = IF signs THEN signed + 1 ELSE signed
  /\ UNCHANGED <<peerUp, inARow, reached>>

Answered(k) ==
  /\ call[k].at = "sent"
  /\ peerUp /\ Accepts(call[k].signs)
  /\ RecordSuccess
  /\ call' = [call EXCEPT ![k] = Idle]
  /\ inARow' = 0 /\ reached' = TRUE
  /\ UNCHANGED <<peerUp, signed>>

\* An answer that is no JSON raises past the retries and counts neither way.
Garbled(k) ==
  /\ call[k].at = "sent"
  /\ ~peerUp
  /\ call' = [call EXCEPT ![k] = Idle]
  /\ reached' = FALSE
  /\ UNCHANGED <<peerFails, openLeft, peerUp, inARow, signed>>

\* A timeout, a lost connection, an error status, the 401 of a bad signature.
Failed(k) ==
  /\ call[k].at = "sent"
  /\ ~peerUp \/ ~Accepts(call[k].signs)
  /\ RecordFailure
  /\ call' = [call EXCEPT ![k] = IF @.tries = MaxTries THEN Idle
                                 ELSE [@ EXCEPT !.at = "waiting"]]
  /\ inARow' = IF inARow < Threshold THEN inARow + 1 ELSE inARow
  /\ reached' = FALSE
  /\ UNCHANGED <<peerUp, signed>>

\* The next attempt of the same request does not look at the circuit.
Retried(k) ==
  /\ call[k].at = "waiting"
  /\ call' = [call EXCEPT ![k].at = "sent", ![k].tries = @ + 1]
  /\ UNCHANGED <<peerFails, openLeft, peerUp, inARow, reached, signed>>

\* remove_peer and add_peer: the breaker forgets, requests in flight go on.
PeerReadded ==
  /\ peerFails' = Absent /\ openLeft' = Absent /\ inARow' = 0
  /\ UNCHANGED <<call, peerUp, reached, signed>>

CircuitTime ==
  /\ openLeft > 0
  /\ openLeft' = openLeft - 1
  /\ UNCHANGED <<call, peerFails, peerUp, inARow, reached, signed>>

PeerFlips ==
  /\ peerUp' = ~peerUp
  /\ UNCHANGED <<call, peerFails, openLeft, inARow, reached, signed>>

CallerStep(k) == Answered(k) \/ Garbled(k) \/ Failed(k) \/ Retried(k)

SyncNext ==
  \/ CircuitTime \/ PeerFlips \/ PeerReadded
  \/ \E k \in Caller : \/ CallerStep(k)
                       \/ \E signs \in BOOLEAN : RequestBegun(k, signs)

\* Time passes, an attempt ends (the client's timeout), the back-off ends and the
\* health loop asks every thirty seconds.
SyncFairness ==
  /\ WF_syncVars(CircuitTime)
  /\ \A k \in Caller : WF_syncVars(CallerStep(k)) /\ WF_syncVars(RequestBegun(k, FALSE))

SyncSpec == SyncInit /\ [][SyncNext]_syncVars /\ SyncFairness

-----------------------------------------------------------------------------
SyncTypeOK ==
  /\ call \in [Caller -> [at : {"idle", "sent", "waiting"}, signs : BOOLEAN,
                          tries : 0..MaxTries]]
  /\ peerFails \in Nat \union {Absent} /\ openLeft \in Absent..HoldTime
  /\ peerUp \in BOOLEAN /\ inARow \in 0..Threshold
  /\ reached \in BOOLEAN /\ signed \in 0..MaxSigned

\* Whoever else is retrying, a peer that failed Threshold times has its circuit
\* set: no interleaving of attempts, expiry and re-adding loses it.
ThresholdOpens == peerFails >= Threshold => openLeft # Absent

\* The circuit is set only after Threshold failures with no answered request
\* among them, of any caller.
OpensOnARow ==
  [][openLeft' > openLeft => inARow' >= Threshold]_syncVars

\* A peer that is up for good and no longer sent signed requests is reached again,
\* whatever state the breaker was left in.
ReachedAgain == <>[]peerUp => []<>reached

\* What the client between the nodes promises.
SyncHolds == [](SyncTypeOK /\ ThresholdOpens) /\ OpensOnARow
=============================================================================
