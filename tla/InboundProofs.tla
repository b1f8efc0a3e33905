---------------------------- MODULE InboundProofs ----------------------------
(***************************************************************************)
(* Theorems about what reaches the bot: the polling of Telegram, for every *)
(* number of updates, batch size and number of restarts; the claims behind *)
(* emergency kits and warnings; the reports of a blocking; the mailbox;    *)
(* the heartbeats; the tickets.  Each component is by itself; they share   *)
(* no state, and at the end the same is said of the host of the run.       *)
(***************************************************************************)
EXTENDS MCInbound, DataLemmas

-----------------------------------------------------------------------------
(* Polling.                                                                 *)

\* The oldest update of a batch without gaps, and its newest.
LEMMA RangeEnds ==
  ASSUME NEW lo \in Nat, NEW hi \in Nat, lo <= hi
  PROVE  NextOf(lo..hi) = lo /\ NewestOf(lo..hi) = hi
<1>1. \A u \in lo..hi : (\A v \in lo..hi : u <= v) <=> u = lo
  OBVIOUS
<1>2. \A u \in lo..hi : (\A v \in lo..hi : u >= v) <=> u = hi
  OBVIOUS
<1> QED
  BY <1>1, <1>2 DEF NextOf, NewestOf

LEMMA ForgetsType ==
  ASSUME confirmed \in 0..LastUpdate, NEW from \in 0..(LastUpdate + 1)
  PROVE  /\ Forgets(from) \in 0..LastUpdate
         /\ Forgets(from) >= confirmed
         /\ Forgets(from) <= confirmed \/ Forgets(from) = from - 1
         /\ from <= Forgets(from) + 1
  BY ConstantsOK DEF Forgets, ConstantsOK

\* What getUpdates answers has no gaps.
LEMMA AnswerRange ==
  ASSUME NEW f \in Nat, arrived \in 0..LastUpdate, NEW from, Forgets(from) = f
  PROVE  \E hi \in Nat : Answer(from) = (f + 1)..hi /\ hi <= arrived
<1> DEFINE hi == IF arrived <= f + Limit THEN arrived ELSE f + Limit
<1>1. hi \in Nat /\ hi <= arrived /\ arrived <= LastUpdate
  BY ConstantsOK DEF ConstantsOK
<1>2. Answer(from) = (f + 1)..hi
  BY <1>1, ConstantsOK DEF Answer, Updates, ConstantsOK
<1> QED
  BY <1>1, <1>2
-----------------------------------------------------------------------------
(* The offset says what was handled or is at hand, and a handler runs at   *)
(* most once between two restarts.                                         *)

NoGaps == \E lo, hi \in Nat : batch = lo..hi

Kept ==
  /\ confirmed <= arrived /\ offset <= arrived + 1
  /\ \A u \in batch : confirmed < u /\ u < offset /\ handled[u] <= restarts
  /\ \A u \in Updates : u < offset => handled[u] > 0 \/ u \in batch
  /\ \A u \in Updates : u >= offset => handled[u] <= restarts
  /\ \A u \in Updates : handled[u] <= 1 + restarts
  /\ running \/ restarts < MaxRestarts

PInv == TypeOK /\ NoGaps /\ Kept /\ NothingSkipped

LEMMA InitPInv == Init => PInv
<1> SUFFICES ASSUME Init PROVE PInv
  OBVIOUS
<1>1. batch = 1..0
  BY DEF Init
<1>2. TypeOK
  BY ConstantsOK DEF Init, TypeOK, ConstantsOK
<1>3. Kept /\ NothingSkipped
  BY DEF Init, Kept, NothingSkipped, Updates
<1> QED
  BY <1>1, <1>2, <1>3 DEF PInv, NoGaps

LEMMA AskedPInv ==
  ASSUME PInv, batch = {}, Asked, UNCHANGED <<arrived, running, restarts, handled>>
  PROVE  PInv'
<1> DEFINE f == Forgets(offset)
<1>1. /\ f \in 0..LastUpdate /\ f >= confirmed /\ offset <= f + 1
      /\ f <= confirmed \/ f = offset - 1
  BY ForgetsType DEF PInv, TypeOK
<1>2. PICK hi \in Nat : Answer(offset) = (f + 1)..hi /\ hi <= arrived
  BY <1>1, AnswerRange DEF PInv, TypeOK
<1>3. batch' = (f + 1)..hi /\ confirmed' = f
  BY <1>2 DEF Asked
<1>4. \A u \in 1..f : u \in Updates /\ handled[u] > 0
  BY <1>1, ConstantsOK DEF PInv, Kept, TypeOK, NothingSkipped, Updates, ConstantsOK
<1>5. arrived \in 0..LastUpdate /\ offset \in 0..(LastUpdate + 1) /\ restarts \in 0..MaxRestarts
      /\ handled \in [Updates -> Nat] /\ running \in BOOLEAN /\ confirmed <= arrived
      /\ confirmed \in 0..LastUpdate
  BY DEF PInv, TypeOK, Kept
<1>6. f <= arrived
  <2>1. offset <= arrived + 1
    BY DEF PInv, Kept
  <2> HIDE DEF f
  <2> QED
    BY <1>1, <1>5, <2>1
<1> HIDE DEF f
<1>7. CASE batch' = {}
  <2>1. offset' = offset
    BY <1>7 DEF Asked
  <2>2. TypeOK' /\ NoGaps'
    BY <1>1, <1>3, <1>5, <1>7, <2>1 DEF TypeOK, NoGaps
  <2>3. Kept' /\ NothingSkipped'
    BY <1>1, <1>3, <1>4, <1>5, <1>6, <1>7, <2>1 DEF PInv, Kept, NothingSkipped
  <2> QED
    BY <2>2, <2>3 DEF PInv
<1>8. CASE batch' # {}
  <2>1. f + 1 <= hi
    BY <1>1, <1>3, <1>8
  <2>2. offset' = hi + 1
    BY <1>1, <1>3, <1>8, <2>1, RangeEnds DEF Asked, Past
  <2>3. TypeOK' /\ NoGaps'
    BY <1>1, <1>2, <1>3, <1>5, <2>2, ConstantsOK DEF TypeOK, NoGaps, Updates, ConstantsOK
  <2>4. \A u \in Updates : u >= offset => handled[u] <= restarts
    BY DEF PInv, Kept
  <2>5. \A u \in batch' : u \in Updates /\ confirmed' < u /\ u < offset'
                            /\ handled'[u] <= restarts'
    <3> SUFFICES ASSUME NEW u \in (f + 1)..hi
                 PROVE  u \in Updates /\ f < u /\ u < hi + 1 /\ handled[u] <= restarts
      BY <1>3, <2>2
    <3>1. u \in Updates /\ f < u /\ u < hi + 1 /\ u >= offset
      BY <1>1, <1>2, <1>5, ConstantsOK DEF Updates, ConstantsOK
    <3> QED
      BY <2>4, <3>1
  <2>6. \A u \in Updates : u < offset' => handled'[u] > 0 \/ u \in batch'
    BY <1>1, <1>3, <1>4, <2>2 DEF Updates
  <2>7. Kept'
    BY <1>1, <1>2, <1>3, <1>5, <1>6, <2>1, <2>2, <2>4, <2>5, <2>6
       DEF PInv, Kept, Updates
  <2>8. NothingSkipped'
    BY <1>3, <1>4 DEF NothingSkipped
  <2> QED
    BY <2>3, <2>7, <2>8 DEF PInv
<1> QED
  BY <1>7, <1>8

LEMMA ProcessPInv ==
  ASSUME PInv, Process
  PROVE  /\ PInv'
         /\ \A u, v \in Updates : u < v /\ handled'[v] # handled[v] => handled[u] > 0
<1>1. PICK lo \in Nat, hi \in Nat : batch = lo..hi
  BY DEF PInv, NoGaps
<1>2. lo <= hi
  BY <1>1 DEF Process
<1>3. NextOf(batch) = lo
  BY <1>1, <1>2, RangeEnds
<1>4. lo \in batch /\ lo \in Updates
  BY <1>1, <1>2 DEF PInv, TypeOK
<1>5. /\ batch' = (lo + 1)..hi
      /\ handled' = [handled EXCEPT ![lo] = @ + 1]
      /\ UNCHANGED <<arrived, confirmed, offset, running, restarts>>
  <2>1. (lo..hi) \ {lo} = (lo + 1)..hi
    BY <1>2
  <2> QED
    BY <1>1, <1>3, <2>1 DEF Process
<1>6. handled \in [Updates -> Nat] /\ handled' \in [Updates -> Nat]
  BY <1>4, <1>5 DEF PInv, TypeOK
<1>7. TypeOK' /\ NoGaps'
  BY <1>1, <1>5, <1>6 DEF PInv, TypeOK, NoGaps
<1>8. \A u \in Updates : IF u = lo THEN handled'[u] = handled[u] + 1
                                   ELSE handled'[u] = handled[u]
  BY <1>5, <1>6
<1>9. restarts \in Nat /\ offset \in Nat /\ confirmed \in 0..LastUpdate /\ LastUpdate \in Nat
  BY ConstantsOK DEF PInv, TypeOK, ConstantsOK
<1>10. Kept'
  <2>1. \A u \in batch' : confirmed < u /\ u < offset /\ handled'[u] <= restarts
    BY <1>1, <1>5, <1>8 DEF PInv, Kept, TypeOK
  <2>2. \A u \in Updates : u < offset => handled'[u] > 0 \/ u \in batch'
    BY <1>1, <1>5, <1>6, <1>8 DEF PInv, Kept, Updates
  <2>3. \A u \in Updates : u >= offset => handled'[u] <= restarts
    BY <1>4, <1>8, <1>9 DEF PInv, Kept, Updates
  <2>4. \A u \in Updates : handled'[u] <= 1 + restarts
    BY <1>4, <1>6, <1>8, <1>9 DEF PInv, Kept
  <2> QED
    BY <1>5, <2>1, <2>2, <2>3, <2>4 DEF PInv, Kept
<1>11. NothingSkipped'
  BY <1>5, <1>6, <1>8, <1>9 DEF PInv, NothingSkipped, Updates
<1>12. \A u, v \in Updates : u < v /\ handled'[v] # handled[v] => handled[u] > 0
  <2> TAKE u, v \in Updates
  <2> HAVE u < v /\ handled'[v] # handled[v]
  <2>1. v = lo
    BY <1>8
  <2>2. u < offset /\ u \notin batch
    <3>1. lo < offset
      BY <1>4 DEF PInv, Kept
    <3>2. u < lo /\ u \in Nat /\ lo \in Nat
      BY <2>1 DEF Updates
    <3> QED
      BY <1>1, <1>9, <3>1, <3>2
  <2> QED
    BY <2>2 DEF PInv, Kept
<1> QED
  BY <1>7, <1>10, <1>11, <1>12 DEF PInv

LEMMA NextPInv == PInv /\ [Next]_vars => PInv'
<1> SUFFICES ASSUME PInv, [Next]_vars PROVE PInv'
  OBVIOUS
<1>0. /\ arrived \in 0..LastUpdate /\ confirmed \in 0..LastUpdate /\ offset \in 0..(LastUpdate + 1)
      /\ restarts \in 0..MaxRestarts /\ handled \in [Updates -> Nat]
      /\ LastUpdate \in Nat /\ MaxRestarts \in Nat
  BY ConstantsOK DEF PInv, TypeOK, ConstantsOK
<1>1. CASE Arrive
  BY <1>0, <1>1 DEF Arrive, PInv, TypeOK, NoGaps, Kept, NothingSkipped
<1>2. CASE Poll
  <2>1. CASE Asked
    BY <1>2, <2>1, AskedPInv DEF Poll
  <2>2. CASE confirmed' = Forgets(offset) /\ UNCHANGED <<batch, offset>>
    <3>1. /\ Forgets(offset) \in 0..LastUpdate /\ Forgets(offset) >= confirmed
          /\ Forgets(offset) <= confirmed \/ Forgets(offset) = offset - 1
      BY <1>0, ForgetsType
    <3>2. batch = {} /\ UNCHANGED <<arrived, running, restarts, handled>>
      BY <1>2 DEF Poll
    <3>3. \A u \in 1..Forgets(offset) : handled[u] > 0
      BY <1>0, <3>1, <3>2 DEF PInv, Kept, NothingSkipped, Updates
    <3>4. Forgets(offset) <= arrived
      BY <1>0, <3>1 DEF PInv, Kept
    <3>5. TypeOK' /\ NoGaps' /\ NothingSkipped'
      BY <2>2, <3>1, <3>2, <3>3 DEF PInv, TypeOK, NoGaps, NothingSkipped
    <3>6. Kept'
      BY <2>2, <3>2, <3>4 DEF PInv, Kept
    <3> QED
      BY <3>5, <3>6 DEF PInv
  <2>3. CASE UNCHANGED <<confirmed, batch, offset>>
    BY <1>2, <2>3 DEF Poll, PInv, TypeOK, NoGaps, Kept, NothingSkipped
  <2> QED
    BY <1>2, <2>1, <2>2, <2>3 DEF Poll
<1>3. CASE Process
  BY <1>3, ProcessPInv
<1>4. CASE Stop
  BY <1>4 DEF Stop, PInv, TypeOK, NoGaps, Kept, NothingSkipped
<1>5. CASE Restart
  <2>1. batch' = 1..0
    BY <1>5 DEF Restart
  <2>2. restarts' \in 0..MaxRestarts
    BY <1>0, <1>5 DEF Restart, PInv, Kept
  <2>3. TypeOK' /\ NoGaps'
    BY <1>0, <1>5, <2>1, <2>2 DEF Restart, PInv, TypeOK, NoGaps
  <2>4. Kept' /\ NothingSkipped'
    BY <1>0, <1>5 DEF Restart, PInv, Kept, NothingSkipped, Updates
  <2> QED
    BY <2>3, <2>4 DEF PInv
<1>6. CASE UNCHANGED vars
  BY <1>6 DEF vars, PInv, TypeOK, NoGaps, Kept, NothingSkipped
<1> QED
  BY <1>1, <1>2, <1>3, <1>4, <1>5, <1>6 DEF Next
-----------------------------------------------------------------------------
\* Every variable keeps its type; offset and the queue stay within what ever
\* arrived plus one (Polling's TypeOK).
THEOREM TypeCorrect == Spec => []TypeOK
<1>1. PInv => TypeOK
  BY DEF PInv
<1> QED
  BY <1>1, InitPInv, NextPInv, PTL DEF Spec

\* Telegram forgets no update whose handler was not called, in any mixture of
\* stops, deaths, failed requests and lost answers (Polling's NothingSkipped; the
\* offset of PollingService.start moves before the batch is processed).
THEOREM NeverSkips == Spec => []NothingSkipped
<1>1. PInv => NothingSkipped
  BY DEF PInv
<1> QED
  BY <1>1, InitPInv, NextPInv, PTL DEF Spec

\* A handler runs a second time for one update only after a restart, and at most
\* once for each (Polling's RepeatsAreRestarts).
THEOREM RepeatsNeedRestarts == Spec => []RepeatsAreRestarts
<1>1. PInv => RepeatsAreRestarts
  BY DEF PInv, Kept, RepeatsAreRestarts
<1> QED
  BY <1>1, InitPInv, NextPInv, PTL DEF Spec

\* No handler runs before those of all the earlier updates have run (Polling's
\* InOrder).
THEOREM OrderKept == Spec => InOrder
<1>1. PInv /\ [Next]_vars =>
        [\A u, v \in Updates :
           u < v /\ handled'[v] # handled[v] => handled[u] > 0]_vars
  <2> SUFFICES ASSUME PInv, Next
               PROVE  \A u, v \in Updates :
                        u < v /\ handled'[v] # handled[v] => handled[u] > 0
    BY DEF vars
  <2>1. CASE Process
    BY <2>1, ProcessPInv
  <2>2. CASE UNCHANGED handled
    BY <2>2
  <2> QED
    BY <2>1, <2>2 DEF Next, Arrive, Poll, Asked, Stop, Restart
<1> QED
  BY <1>1, InitPInv, NextPInv, PTL DEF Spec, InOrder

\* Updates are handled in turn: the four facts together (Polling's InTurn, which the polling
\* run checks).
THEOREM InTurnKept == Spec => InTurn
BY TypeCorrect, NeverSkips, RepeatsNeedRestarts, OrderKept, PTL DEF InTurn

-----------------------------------------------------------------------------
(* The emergency kit.                                                      *)

\* Claims are numbered in turn, a number is one user's, and nobody's claim or running
\* worker has the number of a kit that failed.
KitNumbers ==
  /\ \A n \in brokenKits : n <= kits
  /\ \A w \in kitWorkers : w[2] <= kits /\ w[2] \notin brokenKits
  /\ \A w, x \in kitWorkers : w[2] = x[2] => w = x
  /\ \A u \in KitUser : /\ kitClaim[u] <= kits /\ kitClaim[u] \notin brokenKits
                        /\ \A w \in kitWorkers : kitClaim[u] = w[2] => w[1] = u

KitInv == KitTypeOK /\ KitNumbers

LEMMA KitStarts == KitInit => KitInv
  BY KitConstants DEF KitConstants, KitInit, KitInv, KitTypeOK, KitNumbers

LEMMA KitAskedKept ==
  ASSUME KitInv, NEW u \in KitUser, KitAsked(u)
  PROVE  KitInv'
<1>1. /\ kits' = kits + 1 /\ kits \in Nat /\ MaxKits \in Nat /\ kits < MaxKits
      /\ kitClaim' = [kitClaim EXCEPT ![u] = kits'] /\ kitAge' = [kitAge EXCEPT ![u] = 0]
      /\ kitWorkers' = kitWorkers \union {<<u, kits'>>} /\ brokenKits' = brokenKits
  BY KitConstants DEF KitConstants, KitAsked, KitInv, KitTypeOK
<1>2. KitTypeOK'
  BY <1>1, KitConstants DEF KitConstants, KitInv, KitTypeOK
<1>3. kits' \notin brokenKits /\ \A w \in kitWorkers : w[2] < kits' /\ w[2] \in Nat
  BY <1>1 DEF KitInv, KitNumbers, KitTypeOK
<1>4. \A v \in KitUser : kitClaim[v] < kits' /\ kitClaim[v] \in Nat
  BY <1>1 DEF KitInv, KitNumbers, KitTypeOK
<1>5. \A v \in KitUser : kitClaim'[v] = IF v = u THEN kits' ELSE kitClaim[v]
  BY <1>1 DEF KitInv, KitTypeOK
<1>6. \A n \in brokenKits : n <= kits'
  BY <1>1 DEF KitInv, KitNumbers, KitTypeOK
<1>7. \A w \in kitWorkers' : (w \in kitWorkers /\ w[2] < kits') \/ (w = <<u, kits'>> /\ w[1] = u /\ w[2] = kits')
  BY <1>1, <1>3
<1> QED
  BY <1>1, <1>2, <1>3, <1>4, <1>5, <1>6, <1>7 DEF KitInv, KitNumbers

LEMMA KitFailedKept ==
  ASSUME KitInv, NEW u \in KitUser, NEW n \in 1..MaxKits, KitFailed(u, n)
  PROVE  KitInv'
<1>1. /\ <<u, n>> \in kitWorkers /\ kitWorkers' = kitWorkers \ {<<u, n>>}
      /\ kitClaim' = [kitClaim EXCEPT ![u] = IF kitClaim[u] = n THEN 0 ELSE kitClaim[u]]
      /\ brokenKits' = brokenKits \union {n} /\ UNCHANGED <<kitAge, kits>>
  BY DEF KitFailed, Forgot
<1>2. KitTypeOK'
  BY <1>1, KitConstants DEF KitConstants, KitInv, KitTypeOK
<1>3. n <= kits /\ \A w \in kitWorkers' : w[2] # n
  <2>1. <<u, n>>[2] = n
    OBVIOUS
  <2> QED
    BY <1>1, <2>1 DEF KitInv, KitNumbers
<1>4. \A v \in KitUser : v # u => kitClaim[v] # n
  <2>1. <<u, n>>[1] = u /\ <<u, n>>[2] = n
    OBVIOUS
  <2> QED
    BY <1>1, <2>1 DEF KitInv, KitNumbers
<1>5. \A v \in KitUser : kitClaim'[v] \in {0, kitClaim[v]} \ {n}
  BY <1>1, <1>4 DEF KitInv, KitTypeOK
<1>6. \A v \in KitUser : kitClaim'[v] <= kits /\ kitClaim'[v] \notin brokenKits'
  BY <1>1, <1>5, KitConstants DEF KitConstants, KitInv, KitTypeOK, KitNumbers
<1>7. \A v \in KitUser : \A w \in kitWorkers' : kitClaim'[v] = w[2] => w[1] = v
  <2> SUFFICES ASSUME NEW v \in KitUser, NEW w \in kitWorkers', kitClaim'[v] = w[2]
               PROVE  w[1] = v
    OBVIOUS
  <2>1. w[2] # 0
    BY <1>1 DEF KitInv, KitTypeOK
  <2> QED
    BY <1>1, <1>5, <2>1 DEF KitInv, KitNumbers
<1> QED
  BY <1>1, <1>2, <1>3, <1>6, <1>7 DEF KitInv, KitNumbers

LEMMA KitTickKept ==
  ASSUME KitInv, KitTick
  PROVE  KitInv'
<1>1. KitTypeOK'
  BY KitConstants DEF KitConstants, KitInv, KitTypeOK, KitTick
<1> QED
  BY <1>1 DEF KitInv, KitNumbers, KitTick

LEMMA KitKept == KitInv /\ [KitNext]_kitVars => KitInv'
<1> SUFFICES ASSUME KitInv, [KitNext]_kitVars PROVE KitInv'
  OBVIOUS
<1>1. ASSUME NEW u \in KitUser, NEW n \in 1..MaxKits, KitSent(u, n) PROVE KitInv'
  BY <1>1 DEF KitSent, KitInv, KitTypeOK, KitNumbers
<1>2. CASE KitRestart
  <2>1. KitTypeOK'
    BY <1>2, KitConstants DEF KitConstants, KitRestart, KitInv, KitTypeOK
  <2>2. KitNumbers'
    BY <1>2, KitConstants DEF KitConstants, KitRestart, KitInv, KitTypeOK, KitNumbers
  <2> QED
    BY <2>1, <2>2 DEF KitInv
<1>3. CASE UNCHANGED kitVars
  BY <1>3 DEF kitVars, KitInv, KitTypeOK, KitNumbers
<1> QED
  BY <1>1, <1>2, <1>3, KitAskedKept, KitFailedKept, KitTickKept DEF KitNext

\* What a step does to the claims is what a kit's user is promised.
LEMMA ClaimsSound ==
  ASSUME KitInv, KitInv', KitNext, ~KitRestart, NEW u \in KitUser
  PROVE  /\ kitClaim'[u] \notin brokenKits'
         /\ kitClaim'[u] # kitClaim[u] =>
              kitClaim[u] = 0 \/ kitAge[u] >= KitWindow \/ kitClaim[u] \in brokenKits'
<1>1. kitClaim'[u] \notin brokenKits'
  BY DEF KitInv, KitNumbers
<1>2. ASSUME NEW v \in KitUser, KitAsked(v), kitClaim'[u] # kitClaim[u]
      PROVE  kitClaim[u] = 0 \/ kitAge[u] >= KitWindow
  BY <1>2 DEF KitAsked, KitInv, KitTypeOK
<1>3. ASSUME NEW v \in KitUser, NEW n \in 1..MaxKits, KitFailed(v, n), kitClaim'[u] # kitClaim[u]
      PROVE  kitClaim[u] \in brokenKits'
  BY <1>3 DEF KitFailed, Forgot, KitInv, KitTypeOK
<1>4. ASSUME KitTick \/ \E v \in KitUser, n \in 1..MaxKits : KitSent(v, n)
      PROVE  kitClaim' = kitClaim
  BY <1>4 DEF KitTick, KitSent
<1> QED
  BY <1>1, <1>2, <1>3, <1>4 DEF KitNext

-----------------------------------------------------------------------------
(* The reverse SOS.                                                        *)

\* The claim is never older than the message it stands for, and a message not yet sent
\* is the first of its day.
ClaimsCover ==
  /\ \A u \in Reader : claimed[u] <= noticeAge[u]
  /\ \A u \in outbox : claimed[u] = 0 /\ noticeAge[u] = NoticeWait

ReverseInv == ReverseTypeOK /\ ClaimsCover

LEMMA ReverseStarts == ReverseInit => ReverseInv
  BY ReverseConstants DEF ReverseConstants, ReverseInit, ReverseInv, ReverseTypeOK, ClaimsCover

LEMMA NoticesStartedKept ==
  ASSUME ReverseInv, NEW S \in SUBSET Reader, NoticesStarted(S)
  PROVE  ReverseInv'
<1>1. notices' \in 0..MaxNotices /\ noticeAge' = noticeAge
  BY ReverseConstants DEF ReverseConstants, NoticesStarted, ReverseInv, ReverseTypeOK
<1>2. CASE UNCHANGED <<claimed, outbox>>
  BY <1>1, <1>2 DEF ReverseInv, ReverseTypeOK, ClaimsCover
<1>3. CASE /\ claimed' = [u \in Reader |-> IF u \in Planned(S) THEN 0 ELSE claimed[u]]
           /\ outbox' = outbox \union Planned(S)
  <2>1. \A u \in Planned(S) : u \in Reader \ Unreachable /\ noticeAge[u] = NoticeWait
    BY ReverseConstants DEF ReverseConstants, Planned, ReverseInv, ReverseTypeOK, ClaimsCover
  <2>2. ReverseTypeOK'
    BY <1>1, <1>3, <2>1, ReverseConstants DEF ReverseConstants, ReverseInv, ReverseTypeOK
  <2>3. ClaimsCover'
    BY <1>1, <1>3, <2>1, ReverseConstants DEF ReverseConstants, ReverseInv, ReverseTypeOK, ClaimsCover
  <2> QED
    BY <2>2, <2>3 DEF ReverseInv
<1> QED
  BY <1>2, <1>3 DEF NoticesStarted, Claim

LEMMA ReverseKept == ReverseInv /\ [ReverseNext]_reverseVars => ReverseInv'
<1> SUFFICES ASSUME ReverseInv, [ReverseNext]_reverseVars PROVE ReverseInv'
  OBVIOUS
<1>1. ASSUME NEW u \in Reader, NoticeSent(u) PROVE ReverseInv'
  BY <1>1, ReverseConstants
  DEF ReverseConstants, NoticeSent, ReverseInv, ReverseTypeOK, ClaimsCover
<1>2. CASE ReverseTick
  BY <1>2, ReverseConstants
  DEF ReverseConstants, ReverseTick, ReverseInv, ReverseTypeOK, ClaimsCover
<1>3. CASE ReverseRestart \/ UNCHANGED reverseVars
  BY <1>3 DEF ReverseRestart, reverseVars, ReverseInv, ReverseTypeOK, ClaimsCover
<1> QED
  BY <1>1, <1>2, <1>3, NoticesStartedKept DEF ReverseNext

\* Whatever fails or dies, and however many networks are demoted meanwhile: a user gets a
\* second kit within its window only after the first one failed, late workers included, and
\* is warned once a day (ClaimsHold of Sos; sos.py _forget, reverse_sos.py claim).
THEOREM ClaimsKept == KitSpec /\ ReverseSpec => ClaimsHold
<1>1. KitInv /\ KitInv' /\ [KitNext]_kitVars =>
        [KitRestart \/ \A u \in KitUser :
           /\ kitClaim'[u] \notin brokenKits'
           /\ kitClaim'[u] # kitClaim[u] =>
                kitClaim[u] = 0 \/ kitAge[u] >= KitWindow \/ kitClaim[u] \in brokenKits']_kitVars
  BY ClaimsSound
<1>2. ReverseInv /\ [ReverseNext]_reverseVars =>
        [\A u \in Reader : noticeAge'[u] = 0 /\ u \in outbox /\ u \notin outbox'
                             => noticeAge[u] = NoticeWait]_reverseVars
  BY DEF ReverseInv, ClaimsCover
<1>3. KitSpec => []KitTypeOK /\ KitClaimsHold
  <2>1. KitInv => KitTypeOK
    BY DEF KitInv
  <2> QED
    BY <1>1, <2>1, KitStarts, KitKept, PTL DEF KitSpec, KitClaimsHold
<1>4. ReverseSpec => []ReverseTypeOK /\ NoticeOncePerDay
  <2>1. ReverseInv => ReverseTypeOK
    BY DEF ReverseInv
  <2> QED
    BY <1>2, <2>1, ReverseStarts, ReverseKept, PTL DEF ReverseSpec, NoticeOncePerDay
<1> QED
  BY <1>3, <1>4, PTL DEF ClaimsHold

-----------------------------------------------------------------------------
(* Reports of a blocking.                                                  *)

\* A thread that handles a request has its number; a turn behind its gate too.
Numbered ==
  /\ \A t \in Asker : asker[t].at # "idle" => asker[t].user \in SosUser /\ asker[t].no \in 1..asked
  /\ reported \subseteq 1..asked

SosInv == SosTypeOK /\ Numbered /\ ReportFirst

LEMMA SosStarts == SosInit => SosInv
  BY SosConstants
  DEF SosConstants, SosInit, SosInv, SosTypeOK, Numbered, ReportFirst, IdleAsker, NoTurn

LEMMA SosAskedKept ==
  ASSUME SosInv, NEW t \in Asker, NEW u \in SosUser, SosAsked(t, u)
  PROVE  SosInv'
<1> DEFINE new == [user |-> u, no |-> asked + 1, at |-> "record"]
<1>1. /\ asked' = asked + 1 /\ asked' \in 0..MaxSos /\ asked \in Nat /\ asker' = [asker EXCEPT ![t] = new]
      /\ UNCHANGED <<reportAge, turn, reported>>
  BY SosConstants DEF SosConstants, SosAsked, SosInv, SosTypeOK
<1>2. \A s \in Asker : asker'[s] = IF s = t THEN new ELSE asker[s]
  BY <1>1 DEF SosInv, SosTypeOK
<1>3. SosTypeOK'
  BY <1>1, <1>2, SosConstants DEF SosConstants, SosInv, SosTypeOK
<1>4. Numbered'
  BY <1>1, <1>2 DEF SosInv, Numbered
<1> QED
  BY <1>1, <1>3, <1>4 DEF SosInv, ReportFirst

LEMMA SosRecordedKept ==
  ASSUME SosInv, NEW t \in Asker, SosRecorded(t)
  PROVE  SosInv'
<1> DEFINE u == asker[t].user
           g == TargetOf(t)
<1>1. asker[t].at = "record" /\ asker' = [asker EXCEPT ![t].at = "kick"] /\ UNCHANGED <<turn, reported, asked>>
      /\ (reportAge' = reportAge \/ reportAge' = [reportAge EXCEPT ![u][g] = 0])
  BY DEF SosRecorded
<1>2. u \in SosUser /\ g \in {"sos", "sos_app"}
  BY <1>1 DEF SosInv, Numbered, TargetOf
<1> HIDE DEF u, g
<1>3. reportAge' \in [SosUser -> [{"sos", "sos_app"} -> 0..SosWindow]]
  BY <1>1, <1>2, SosConstants DEF SosConstants, SosInv, SosTypeOK
<1>4. /\ asker' \in [Asker -> [user : SosUser \union {NoUser}, no : 0..MaxSos,
                               at : {"idle", "record", "kick", "post"}]]
      /\ \A s \in Asker : asker'[s].user = asker[s].user /\ asker'[s].no = asker[s].no
                          /\ (asker'[s].at # "idle" => asker[s].at # "idle")
  BY <1>1 DEF SosInv, SosTypeOK
<1> QED
  BY <1>1, <1>3, <1>4 DEF SosInv, SosTypeOK, Numbered, ReportFirst

LEMMA SosKickedKept ==
  ASSUME SosInv, NEW t \in Asker, SosKicked(t)
  PROVE  SosInv'
<1>1. /\ asker[t].at = "kick" /\ asker' = [asker EXCEPT ![t].at = "post"]
      /\ UNCHANGED <<reportAge, reported, asked>> /\ turn' \in {turn, TurnStarted(t)}
  BY DEF SosKicked
<1>2. /\ asker' \in [Asker -> [user : SosUser \union {NoUser}, no : 0..MaxSos,
                               at : {"idle", "record", "kick", "post"}]]
      /\ \A s \in Asker : asker'[s].user = asker[s].user /\ asker'[s].no = asker[s].no
                          /\ (asker'[s].at # "idle" => asker[s].at # "idle")
  BY <1>1 DEF SosInv, SosTypeOK
<1>3. TurnStarted(t) \in [user : SosUser \union {NoUser}, no : 0..MaxSos, at : {"none", "gate", "ask", "late"}]
      /\ TurnStarted(t).at = "gate"
  BY DEF TurnStarted, SosInv, SosTypeOK
<1> QED
  BY <1>1, <1>2, <1>3 DEF SosInv, SosTypeOK, Numbered, ReportFirst

LEMMA SosPostedKept ==
  ASSUME SosInv, NEW t \in Asker, SosPosted(t)
  PROVE  SosInv'
<1> DEFINE n == asker[t].no
<1>1. /\ asker[t].at = "post" /\ asker' = [asker EXCEPT ![t] = IdleAsker]
      /\ reported' = reported \union {n} /\ UNCHANGED <<reportAge, asked>>
      /\ turn' = IF turn.no = n /\ turn.at = "gate" THEN [turn EXCEPT !.at = "ask"] ELSE turn
  BY DEF SosPosted, GateSet
<1>2. n \in 1..asked /\ asked \in 0..MaxSos /\ MaxSos \in Nat
  BY <1>1, SosConstants DEF SosConstants, SosInv, SosTypeOK, Numbered
<1> HIDE DEF n
<1>3. /\ asker' \in [Asker -> [user : SosUser \union {NoUser}, no : 0..MaxSos,
                               at : {"idle", "record", "kick", "post"}]]
      /\ \A s \in Asker : asker'[s] = asker[s] \/ asker'[s].at = "idle"
  BY <1>1, <1>2 DEF SosInv, SosTypeOK, IdleAsker
<1>4. /\ turn' \in [user : SosUser \union {NoUser}, no : 0..MaxSos, at : {"none", "gate", "ask", "late"}]
      /\ turn'.no = turn.no /\ (turn'.at = "ask" => turn.at = "ask" \/ turn.no = n)
  BY <1>1 DEF SosInv, SosTypeOK
<1> QED
  BY <1>1, <1>2, <1>3, <1>4 DEF SosInv, SosTypeOK, Numbered, ReportFirst

LEMMA SosKept == SosInv /\ [SosNext]_sosVars => SosInv'
<1> SUFFICES ASSUME SosInv, [SosNext]_sosVars PROVE SosInv'
  OBVIOUS
<1>1. CASE DiagnosisEnds \/ GateTimesOut
  BY <1>1, SosConstants
  DEF SosConstants, DiagnosisEnds, GateTimesOut, SosInv, SosTypeOK, Numbered, ReportFirst, NoTurn
<1>2. CASE SosRestart
  BY <1>2, SosConstants
  DEF SosConstants, SosRestart, SosInv, SosTypeOK, Numbered, ReportFirst, NoTurn, IdleAsker
<1>3. CASE SosTick
  BY <1>3, SosConstants
  DEF SosConstants, SosTick, SosInv, SosTypeOK, Numbered, ReportFirst
<1>4. CASE UNCHANGED sosVars
  BY <1>4 DEF sosVars, SosInv, SosTypeOK, Numbered, ReportFirst
<1> QED
  BY <1>1, <1>2, <1>3, <1>4, SosAskedKept, SosRecordedKept, SosKickedKept, SosPostedKept
  DEF SosNext, SosServes

\* However many users call for help at once, and whatever insert or post fails: the agent is
\* asked for a diagnosis before its own report was posted only when that post takes longer
\* than the gate is waited for; no other request's report opens the gate (sos.py, the gate of
\* _kick_agent).
THEOREM ReportsComeFirst == SosSpec => []SosHolds
<1>1. SosInv => SosTypeOK /\ ReportFirst
  BY DEF SosInv
<1> QED
  BY <1>1, SosStarts, SosKept, PTL DEF SosSpec, SosHolds

-----------------------------------------------------------------------------
(* Heartbeats.                                                             *)

\* The history's types; a row of the running window was claimed no later than written.
BeatInv ==
  /\ BeatTypeOK /\ OneRowPerWindow
  /\ rows \in [Token -> Nat] /\ rowAge \in [Token -> 0 .. BeatWindow]

LEMMA BeatStarts == BeatInit => BeatInv
  BY BeatConstants DEF BeatConstants, BeatInit, BeatInv, BeatTypeOK, OneRowPerWindow

LEMMA RecordedKept ==
  ASSUME BeatInv, NEW t \in Token, NEW known \in BOOLEAN, Recorded(t, known)
  PROVE  /\ claimedAt' \in [Token -> 0 .. BeatWindow]
         /\ \A s \in Token : rowAge'[s] < BeatWindow => claimedAt'[s] <= rowAge'[s]
         /\ beatFaults' \in 0 .. MaxBeatFaults
         /\ OneRowPerWindow'
         /\ rows' \in [Token -> Nat] /\ rowAge' \in [Token -> 0 .. BeatWindow]
<1>1. CASE UNCHANGED <<claimedAt, rows, rowAge, beatFaults>>
  BY <1>1 DEF BeatInv, BeatTypeOK, OneRowPerWindow
<1>2. CASE claimedAt[t] >= BeatWindow /\ Claimed(t) /\ UNCHANGED beatFaults /\ RowWritten(t)
  <2>1. BeatWindow \in Nat \ {0} /\ claimedAt[t] \in 0 .. BeatWindow /\ rowAge[t] \in 0 .. BeatWindow
    BY BeatConstants DEF BeatConstants, BeatInv, BeatTypeOK
  <2>2. rowAge[t] = BeatWindow
    BY <1>2, <2>1 DEF BeatInv, BeatTypeOK
  <2>3. /\ rows' = [rows EXCEPT ![t] = IF rowAge[t] < BeatWindow THEN rows[t] + 1 ELSE 1]
        /\ rowAge' = [rowAge EXCEPT ![t] = 0]
        /\ claimedAt' = [claimedAt EXCEPT ![t] = 0] /\ beatFaults' = beatFaults
    BY <1>2 DEF RowWritten, Claimed
  <2>4. ~(rowAge[t] < BeatWindow)
    BY <2>1, <2>2
  <2>8. \A s \in Token : /\ rows'[s] = (IF s = t THEN 1 ELSE rows[s])
                         /\ rowAge'[s] = (IF s = t THEN 0 ELSE rowAge[s])
                         /\ claimedAt'[s] = (IF s = t THEN 0 ELSE claimedAt[s])
    BY <2>3, <2>4 DEF BeatInv, BeatTypeOK
  <2>5. /\ claimedAt' \in [Token -> 0 .. BeatWindow]
        /\ rows' \in [Token -> Nat] /\ rowAge' \in [Token -> 0 .. BeatWindow]
        /\ beatFaults' \in 0 .. MaxBeatFaults
    BY <2>1, <2>3, <2>4 DEF BeatInv, BeatTypeOK
  <2>6. \A s \in Token : rowAge'[s] < BeatWindow => claimedAt'[s] <= rowAge'[s]
    BY <2>1, <2>8 DEF BeatInv, BeatTypeOK
  <2>7. OneRowPerWindow'
    BY <2>8 DEF BeatInv, OneRowPerWindow
  <2> QED
    BY <2>5, <2>6, <2>7
<1>3. CASE Claimed(t) /\ beatFaults < MaxBeatFaults /\ beatFaults' = beatFaults + 1
           /\ UNCHANGED <<rows, rowAge>>
  <2>1. claimedAt' = [claimedAt EXCEPT ![t] = 0] /\ BeatWindow \in Nat \ {0} /\ MaxBeatFaults \in Nat
    BY <1>3, BeatConstants DEF BeatConstants, Claimed
  <2>2. \A s \in Token : claimedAt'[s] = IF s = t THEN 0 ELSE claimedAt[s]
    BY <2>1 DEF BeatInv, BeatTypeOK
  <2> QED
    BY <1>3, <2>1, <2>2 DEF BeatInv, BeatTypeOK, OneRowPerWindow
<1> QED
  BY <1>1, <1>2, <1>3 DEF Recorded

LEMMA ResolvedKept ==
  ASSUME BeatInv, NEW t \in Token, Resolved(t)
  PROVE  BeatInv'
<1>1. /\ waiting' = [waiting EXCEPT ![t] = waiting[t] - 1] /\ waiting[t] > 0
      /\ UNCHANGED <<held, rekeys>>
  BY DEF Resolved
<1>2. waiting' \in [Token -> 0 .. 2]
  BY <1>1 DEF BeatInv, BeatTypeOK
<1>3. map' \subseteq Token /\ mapAge' \in 0 .. MapRefresh
  <2>1. map' \in {map, held} /\ mapAge' \in {mapAge, 0}
    BY ZenonT(30) DEF Resolved
  <2> QED
    BY <2>1, BeatConstants DEF BeatConstants, BeatInv, BeatTypeOK
<1>4. \/ \E known \in BOOLEAN : Recorded(t, known)
      \/ /\ beatFaults < MaxBeatFaults /\ beatFaults' = beatFaults + 1
         /\ UNCHANGED <<claimedAt, rows, rowAge>>
  <2>1. TRUE \in BOOLEAN /\ FALSE \in BOOLEAN /\ (t \in held) \in BOOLEAN
    OBVIOUS
  <2>2. \/ Recorded(t, TRUE) \/ Recorded(t, FALSE) \/ Recorded(t, t \in held)
        \/ (beatFaults < MaxBeatFaults /\ beatFaults' = beatFaults + 1
             /\ UNCHANGED <<claimedAt, rows, rowAge>>)
    BY ZenonT(30) DEF Resolved
  <2> QED
    BY <2>1, <2>2, Zenon
<1>5. CASE \E known \in BOOLEAN : Recorded(t, known)
  BY <1>1, <1>2, <1>3, <1>5, RecordedKept DEF BeatInv, BeatTypeOK
<1>6. CASE beatFaults < MaxBeatFaults /\ beatFaults' = beatFaults + 1
           /\ UNCHANGED <<claimedAt, rows, rowAge>>
  BY <1>1, <1>2, <1>3, <1>6, BeatConstants DEF BeatConstants, BeatInv, BeatTypeOK, OneRowPerWindow
<1> QED
  BY <1>4, <1>5, <1>6

LEMMA BeatTickKept ==
  ASSUME BeatInv, BeatTick
  PROVE  BeatInv'
<1>1. BeatWindow \in Nat \ {0} /\ MapRefresh \in Nat
  BY BeatConstants DEF BeatConstants
<1>2. \A s \in Token :
        /\ claimedAt'[s] = IF claimedAt[s] < BeatWindow THEN claimedAt[s] + 1 ELSE BeatWindow
        /\ rowAge'[s] = IF rowAge[s] < BeatWindow THEN rowAge[s] + 1 ELSE BeatWindow
  BY DEF BeatTick
<1>3. /\ claimedAt' \in [Token -> 0 .. BeatWindow] /\ rowAge' \in [Token -> 0 .. BeatWindow]
      /\ mapAge' \in 0 .. MapRefresh
  BY <1>1 DEF BeatTick, BeatInv, BeatTypeOK
<1>4. \A s \in Token : rowAge'[s] < BeatWindow => claimedAt'[s] <= rowAge'[s]
  BY <1>1, <1>2 DEF BeatInv, BeatTypeOK
<1> QED
  BY <1>3, <1>4 DEF BeatTick, BeatInv, BeatTypeOK, OneRowPerWindow

LEMMA BeatKept == BeatInv /\ [BeatNext]_beatVars => BeatInv'
<1> SUFFICES ASSUME BeatInv, [BeatNext]_beatVars PROVE BeatInv'
  OBVIOUS
<1>1. ASSUME NEW t \in Token, Probed(t) PROVE BeatInv'
  BY <1>1 DEF Probed, BeatInv, BeatTypeOK, OneRowPerWindow
<1>2. ASSUME NEW t \in Token, Rekeyed(t) PROVE BeatInv'
  BY <1>2, BeatConstants DEF BeatConstants, Rekeyed, BeatInv, BeatTypeOK, OneRowPerWindow
<1>3. CASE UNCHANGED beatVars
  BY <1>3 DEF beatVars, BeatInv, BeatTypeOK, OneRowPerWindow
<1> QED
  BY <1>1, <1>2, <1>3, ResolvedKept, BeatTickKept DEF BeatNext

\* What every heartbeat keeps.
LEMMA BeatSafe == BeatInit /\ [][BeatNext]_beatVars => []BeatsHold
<1>1. BeatInv => BeatsHold
  BY DEF BeatInv, BeatsHold
<1> QED
  BY <1>1, BeatStarts, BeatKept, PTL

\* In whatever order the tasks of a round of health checks run, and whatever write or
\* rebuild fails between them, a client leaves one row per window
\* (web_server.py:1590-1596, 1649-1655).
THEOREM OneRow == BeatSpec => []BeatsHold
  BY BeatSafe, PTL DEF BeatSpec

-----------------------------------------------------------------------------
(* The mailbox.                                                            *)

\* Why a letter has no row that waits for it: it failed, it has one, or an older letter of
\* the same sender has.
Accounted(u) ==
  \/ u \in lostMail \/ request[u] # "none"
  \/ \E v \in 1..Len(inbox) : v < u /\ inbox[v] = inbox[u] /\ request[v] # "none"

\* A poll that runs holds what is left of its batch, which begins at the watermark; a press
\* that is being handled is of some letter.
BatchInRange ==
  /\ baseline <= watermark /\ watermark <= Len(inbox) + 1 /\ (watermark > 0 => baseline > 0)
  /\ batchEnd = 0 => letters = {}
  /\ batchEnd > 0 => /\ watermark > 0 /\ watermark < batchEnd /\ batchEnd <= Len(inbox) + 1
                     /\ letters \subseteq watermark..(batchEnd - 1)
  /\ \A u \in Uid : request[u] # "none" => u <= Len(inbox) /\ watermark > 0
  /\ \A d \in Admin : press[d].at # "idle" => press[d].uid \in Uid

\* Letters are accounted for in the order they came in: those of the batch that were
\* processed, and those before any that has a row; and a sender who was answered has one.
OldestFirst ==
  /\ batchEnd > 0 => \A u \in baseline..(batchEnd - 1) : u \notin letters => Accounted(u)
  /\ \A v \in Uid : request[v] # "none" => \A u \in baseline..v : Accounted(u)
  /\ \A a \in KeyHolder : replyAge[a] < MailWindow =>
       \E v \in 1..Len(inbox) : inbox[v] = a /\ request[v] # "none"

MailInv == MailTypeOK /\ BatchInRange /\ OldestFirst /\ LettersAccounted /\ OneOpenPerAddress

\* What no step takes back: letters, rows, and failures that were counted.
MailGrows ==
  /\ lostMail \subseteq lostMail'
  /\ \A u \in Uid : request[u] # "none" => request'[u] # "none"
  /\ Len(inbox) <= Len(inbox') /\ Len(inbox') \in Nat
  /\ \A v \in 1..Len(inbox) : inbox'[v] = inbox[v]

LEMMA InboxBounds ==
  ASSUME MailTypeOK
  PROVE  /\ Len(inbox) \in 0..MailLetters /\ MailLetters \in Nat /\ MailFaults \in Nat
         /\ MailWindow \in Nat \ {0}
         /\ \A u \in 1..Len(inbox) : u \in Uid /\ inbox[u] \in Stranger \union KeyHolder
         /\ watermark \in Nat /\ baseline \in Nat /\ batchEnd \in Nat
  BY MailConstants DEF MailConstants, MailTypeOK, Uid

LEMMA AccountedStays ==
  ASSUME MailTypeOK, MailGrows, NEW u \in 1..Len(inbox), Accounted(u)
  PROVE  Accounted(u)'
<1>1. Len(inbox) \in Nat /\ u \in Uid
  BY InboxBounds
<1>2. CASE \E v \in 1..Len(inbox) : v < u /\ inbox[v] = inbox[u] /\ request[v] # "none"
  <2>1. PICK v \in 1..Len(inbox) : v < u /\ inbox[v] = inbox[u] /\ request[v] # "none"
    BY <1>2
  <2>2. v \in Uid
    BY InboxBounds
  <2>3. v \in 1..Len(inbox') /\ inbox'[v] = inbox'[u] /\ request'[v] # "none"
    BY <1>1, <2>1, <2>2 DEF MailGrows
  <2> QED
    BY <2>1, <2>3 DEF Accounted
<1> QED
  BY <1>1, <1>2 DEF Accounted, MailGrows


\* Such a step keeps what was accounted for.
LEMMA StaysInOrder ==
  ASSUME MailInv, MailGrows
  PROVE  /\ \A u \in baseline..(watermark - 1) : Accounted(u)'
         /\ batchEnd > 0 => \A u \in baseline..(batchEnd - 1) : u \notin letters => Accounted(u)'
         /\ \A v \in Uid : request[v] # "none" => \A u \in baseline..v : Accounted(u)'
         /\ \A a \in KeyHolder : replyAge[a] < MailWindow =>
              \E v \in 1..Len(inbox') : inbox'[v] = a /\ request'[v] # "none"
<1>1. MailTypeOK /\ BatchInRange /\ OldestFirst /\ LettersAccounted
  BY DEF MailInv
<1>2. /\ Len(inbox) \in Nat /\ MailLetters \in Nat /\ baseline \in Nat /\ watermark \in Nat
      /\ batchEnd \in Nat /\ Len(inbox) <= MailLetters /\ Uid = 1..MailLetters
  BY <1>1, InboxBounds DEF Uid
<1>3. \A u \in 1..Len(inbox) : Accounted(u) => Accounted(u)'
  BY <1>1, AccountedStays
<1>4. \A u \in baseline..(watermark - 1) : Accounted(u)'
  <2> TAKE u \in baseline..(watermark - 1)
  <2>1. u \in 1..Len(inbox)
    BY <1>1, <1>2 DEF BatchInRange
  <2>2. Accounted(u)
    BY <1>1 DEF LettersAccounted, Accounted
  <2> QED
    BY <1>3, <2>1, <2>2
<1>5. ASSUME batchEnd > 0, NEW u \in baseline..(batchEnd - 1), u \notin letters
      PROVE  Accounted(u)'
  <2>1. u \in 1..Len(inbox)
    BY <1>1, <1>2, <1>5 DEF BatchInRange
  <2>2. Accounted(u)
    BY <1>1, <1>5 DEF OldestFirst
  <2> QED
    BY <1>3, <2>1, <2>2
<1>6. ASSUME NEW v \in Uid, request[v] # "none", NEW u \in baseline..v
      PROVE  Accounted(u)'
  <2>1. u \in 1..Len(inbox)
    BY <1>1, <1>2, <1>6 DEF BatchInRange
  <2>2. Accounted(u)
    BY <1>1, <1>6 DEF OldestFirst
  <2> QED
    BY <1>3, <2>1, <2>2
<1>7. ASSUME NEW a \in KeyHolder, replyAge[a] < MailWindow
      PROVE  \E v \in 1..Len(inbox') : inbox'[v] = a /\ request'[v] # "none"
  <2>1. PICK v \in 1..Len(inbox) : inbox[v] = a /\ request[v] # "none"
    BY <1>1, <1>7 DEF OldestFirst
  <2>2. v \in Uid /\ v \in 1..Len(inbox')
    BY <1>2 DEF MailGrows
  <2> QED
    BY <2>1, <2>2 DEF MailGrows
<1> QED
  BY <1>4, <1>5, <1>6, <1>7

\* A step that makes no row, answers nobody and leaves the watermark alone.
LEMMA QuietMailStep ==
  ASSUME MailInv, MailTypeOK', BatchInRange', OneOpenPerAddress', MailGrows,
         UNCHANGED <<baseline, watermark>>,
         \/ UNCHANGED <<batchEnd, letters>>
         \/ batchEnd' = 0,
         \A u \in Uid : request'[u] # "none" => request[u] # "none",
         \A a \in KeyHolder : replyAge'[a] < MailWindow => replyAge[a] < MailWindow
  PROVE  MailInv'
<1>1. LettersAccounted'
  BY StaysInOrder DEF LettersAccounted, Accounted
<1>2. OldestFirst'
  <2>1. batchEnd' > 0 => \A u \in baseline'..(batchEnd' - 1) : u \notin letters' => Accounted(u)'
    BY StaysInOrder
  <2>2. \A v \in Uid : request'[v] # "none" => \A u \in baseline'..v : Accounted(u)'
    BY StaysInOrder
  <2>3. \A a \in KeyHolder : replyAge'[a] < MailWindow =>
          \E v \in 1..Len(inbox') : inbox'[v] = a /\ request'[v] # "none"
    BY StaysInOrder
  <2> QED
    BY <2>1, <2>2, <2>3 DEF OldestFirst
<1> QED
  BY <1>1, <1>2 DEF MailInv

LEMMA MailStarts == MailInit => MailInv
<1> SUFFICES ASSUME MailInit PROVE MailInv
  OBVIOUS
<1>1. inbox \in Seq(Stranger \union KeyHolder) /\ Len(inbox) \in {0, 1}
  <2>1. CASE inbox = <<>>
    BY <2>1
  <2>2. ASSUME NEW a \in Stranger, inbox = <<a>>
        PROVE  inbox \in Seq(Stranger \union KeyHolder) /\ Len(inbox) = 1
    BY <2>2
  <2> QED
    BY <2>1, <2>2 DEF MailInit
<1>2. MailLetters \in Nat \ {0} /\ MailFaults \in Nat /\ MailWindow \in Nat \ {0}
  BY MailConstants DEF MailConstants
<1>3. Len(inbox) <= MailLetters
  BY <1>1, <1>2
<1>4. MailTypeOK
  BY <1>1, <1>2, <1>3 DEF MailInit, MailTypeOK, NoPress
<1>5. BatchInRange /\ OldestFirst /\ LettersAccounted /\ OneOpenPerAddress
  BY <1>1, <1>2 DEF MailInit, BatchInRange, OldestFirst, LettersAccounted, OneOpenPerAddress, NoPress
<1> QED
  BY <1>4, <1>5 DEF MailInv

LEMMA LetterArrivesKept ==
  ASSUME MailInv, NEW a \in Stranger \union KeyHolder, LetterArrives(a)
  PROVE  MailInv'
<1>1. /\ MailTypeOK /\ BatchInRange /\ OneOpenPerAddress
      /\ Len(inbox) \in Nat /\ MailLetters \in Nat /\ Len(inbox) < MailLetters
      /\ inbox \in Seq(Stranger \union KeyHolder)
      /\ UNCHANGED <<watermark, baseline, letters, batchEnd, request, carded, lostMail, press,
                     mailKeys, replyAge, mailFaults>>
  BY InboxBounds DEF LetterArrives, MailInv, MailTypeOK
<1>2. /\ inbox' \in Seq(Stranger \union KeyHolder) /\ Len(inbox') = Len(inbox) + 1
      /\ \A v \in 1..Len(inbox) : inbox'[v] = inbox[v]
  BY <1>1 DEF LetterArrives
<1>3. MailTypeOK'
  BY <1>1, <1>2 DEF MailTypeOK
<1>4. BatchInRange'
  <2>1. watermark \in Nat /\ baseline \in Nat /\ batchEnd \in Nat
    BY <1>1, InboxBounds
  <2>2. \A u \in Uid : u \in Nat
    BY DEF Uid
  <2> QED
    BY <1>1, <1>2, <2>1, <2>2 DEF BatchInRange
<1>5. OneOpenPerAddress'
  <2> SUFFICES ASSUME NEW u \in 1..Len(inbox'), NEW v \in 1..Len(inbox'),
                      request[u] = "pending", request[v] = "pending", inbox'[u] = inbox'[v]
               PROVE  u = v
    BY <1>1 DEF OneOpenPerAddress
  <2>1. u \in Uid /\ v \in Uid
    BY <1>1, <1>2 DEF Uid
  <2>2. u \in 1..Len(inbox) /\ v \in 1..Len(inbox)
    BY <1>1, <2>1 DEF BatchInRange, Uid
  <2> QED
    BY <1>1, <1>2, <2>2 DEF OneOpenPerAddress
<1>6. MailGrows
  BY <1>1, <1>2 DEF MailGrows
<1> QED
  BY <1>1, <1>3, <1>4, <1>5, <1>6, QuietMailStep

LEMMA PollBaselineKept ==
  ASSUME MailInv, PollBaseline
  PROVE  MailInv'
<1>1. /\ MailTypeOK /\ BatchInRange /\ OneOpenPerAddress /\ OldestFirst
      /\ Len(inbox) \in Nat /\ MailLetters \in Nat /\ Len(inbox) <= MailLetters
      /\ watermark \in Nat /\ baseline \in Nat /\ MailFaults \in Nat /\ Uid = 1..MailLetters
      /\ batchEnd = 0 /\ letters = {} /\ watermark' = Len(inbox) + 1
      /\ UNCHANGED <<inbox, letters, batchEnd, request, carded, press, mailKeys, replyAge>>
  BY InboxBounds DEF PollBaseline, MailInv, MailTypeOK, BatchInRange, Uid
<1>2. CASE watermark = 0 /\ baseline' = watermark' /\ UNCHANGED <<lostMail, mailFaults>>
  <2>1. MailTypeOK' /\ BatchInRange' /\ OneOpenPerAddress'
    BY <1>1, <1>2 DEF MailTypeOK, BatchInRange, OneOpenPerAddress
  <2>2. LettersAccounted'
    BY <1>1, <1>2 DEF LettersAccounted
  <2>3. OldestFirst'
    BY <1>1, <1>2 DEF OldestFirst, BatchInRange, MailTypeOK
  <2> QED
    BY <2>1, <2>2, <2>3 DEF MailInv
<1>3. CASE /\ watermark > 0 /\ MailFault
           /\ lostMail' = lostMail \union {u \in watermark..Len(inbox) : request[u] = "none"}
           /\ UNCHANGED baseline
  <2>1. watermark \in 1..(Len(inbox) + 1) /\ mailFaults' \in 0..MailFaults
    BY <1>1, <1>3 DEF BatchInRange, MailFault, MailTypeOK
  <2>2. lostMail' \subseteq Uid
    <3>1. lostMail \subseteq Uid
      BY <1>1 DEF MailTypeOK
    <3>2. \A u \in watermark..Len(inbox) : u \in Uid
      BY <1>1, <2>1
    <3> QED
      BY <1>3, <3>1, <3>2
  <2>3. MailTypeOK' /\ BatchInRange' /\ OneOpenPerAddress'
    BY <1>1, <1>3, <2>1, <2>2 DEF MailTypeOK, BatchInRange, OneOpenPerAddress
  <2>4. MailGrows
    BY <1>1, <1>3 DEF MailGrows
  <2>5. LettersAccounted'
    <3> SUFFICES ASSUME NEW u \in baseline..Len(inbox) PROVE Accounted(u)'
      BY <1>1, <1>3 DEF LettersAccounted, Accounted
    <3>1. CASE u \in baseline..(watermark - 1)
      BY <2>4, <3>1, StaysInOrder
    <3>2. CASE u \in watermark..Len(inbox)
      BY <1>1, <1>3, <3>2 DEF Accounted
    <3> QED
      BY <1>1, <3>1, <3>2
  <2>6. OldestFirst'
    <3>1. \A v \in Uid : request'[v] # "none" => \A u \in baseline'..v : Accounted(u)'
      BY <1>1, <1>3, <2>4, StaysInOrder
    <3> QED
      BY <1>1, <2>4, <3>1, StaysInOrder DEF OldestFirst
  <2> QED
    BY <2>3, <2>5, <2>6 DEF MailInv
<1> QED
  BY <1>2, <1>3 DEF PollBaseline

LEMMA PollStartsKept ==
  ASSUME MailInv, PollStarts
  PROVE  MailInv'
<1>1. /\ MailTypeOK /\ BatchInRange /\ OneOpenPerAddress
      /\ Len(inbox) \in Nat /\ MailLetters \in Nat /\ Len(inbox) <= MailLetters
      /\ watermark \in 1..Len(inbox) /\ baseline \in Nat /\ Uid = 1..MailLetters
      /\ letters' = watermark..Len(inbox) /\ batchEnd' = Len(inbox) + 1
      /\ UNCHANGED <<inbox, watermark, baseline, request, carded, lostMail, press, mailKeys,
                     replyAge, mailFaults>>
  BY InboxBounds DEF PollStarts, MailInv, Uid
<1>2. MailTypeOK' /\ BatchInRange' /\ OneOpenPerAddress'
  BY <1>1 DEF MailTypeOK, BatchInRange, OneOpenPerAddress
<1>3. MailGrows
  BY <1>1 DEF MailGrows
<1>4. LettersAccounted'
  BY <1>1, <1>3, StaysInOrder DEF LettersAccounted, Accounted
<1>5. OldestFirst'
  <2>1. \A u \in baseline'..(batchEnd' - 1) : u \notin letters' => Accounted(u)'
    BY <1>1, <1>3, StaysInOrder
  <2>2. \A v \in Uid : request'[v] # "none" => \A u \in baseline'..v : Accounted(u)'
    BY <1>1, <1>3, StaysInOrder
  <2> QED
    BY <1>1, <1>3, <2>1, <2>2, StaysInOrder DEF OldestFirst
<1> QED
  BY <1>2, <1>4, <1>5 DEF MailInv

LEMMA PollEndsKept ==
  ASSUME MailInv, PollEnds
  PROVE  MailInv'
<1>1. /\ MailTypeOK /\ BatchInRange /\ OneOpenPerAddress
      /\ Len(inbox) \in Nat /\ MailLetters \in Nat /\ Len(inbox) <= MailLetters
      /\ watermark \in Nat /\ baseline \in Nat /\ MailFaults \in Nat /\ Uid = 1..MailLetters
      /\ batchEnd > 0 /\ batchEnd \in Nat /\ letters = {} /\ batchEnd' = 0
      /\ UNCHANGED <<inbox, baseline, letters, request, carded, lostMail, press, mailKeys,
                     replyAge>>
  BY InboxBounds DEF PollEnds, MailInv, Uid
<1>2. \/ watermark' = batchEnd /\ UNCHANGED mailFaults
      \/ MailFault /\ UNCHANGED watermark
  BY DEF PollEnds
<1>3. mailFaults' \in 0..MailFaults
  BY <1>1, <1>2 DEF MailFault, MailTypeOK
<1>4. MailGrows
  BY <1>1 DEF MailGrows
<1>5. CASE UNCHANGED watermark
  <2>1. MailTypeOK' /\ BatchInRange' /\ OneOpenPerAddress'
    BY <1>1, <1>3, <1>5 DEF MailTypeOK, BatchInRange, OneOpenPerAddress
  <2> QED
    BY <1>1, <1>4, <1>5, <2>1, QuietMailStep
<1>6. CASE watermark' = batchEnd
  <2>1. BatchInRange' /\ OneOpenPerAddress'
    BY <1>1, <1>6 DEF BatchInRange, OneOpenPerAddress
  <2>2. MailTypeOK'
    BY <1>1, <1>3, <1>6 DEF MailTypeOK, BatchInRange
  <2>3. LettersAccounted'
    <3>1. \A u \in baseline..(batchEnd - 1) : Accounted(u)'
      BY <1>1, <1>4, StaysInOrder
    <3> QED
      BY <1>1, <1>6, <3>1 DEF LettersAccounted, Accounted
  <2>4. OldestFirst'
    <3>1. \A v \in Uid : request'[v] # "none" => \A u \in baseline'..v : Accounted(u)'
      BY <1>1, <1>4, StaysInOrder
    <3> QED
      BY <1>1, <1>4, <3>1, StaysInOrder DEF OldestFirst
  <2> QED
    BY <2>1, <2>2, <2>3, <2>4 DEF MailInv
<1> QED
  BY <1>2, <1>5, <1>6

\* The letter at hand is the oldest of the batch, so that all before it are accounted for.
LEMMA LetterProcessedKept ==
  ASSUME MailInv, LetterProcessed
  PROVE  MailInv'
<1>1. /\ MailTypeOK /\ BatchInRange /\ OneOpenPerAddress /\ OldestFirst /\ LettersAccounted
      /\ Len(inbox) \in Nat /\ MailLetters \in Nat /\ Len(inbox) <= MailLetters
      /\ watermark \in Nat /\ baseline \in Nat /\ MailFaults \in Nat /\ MailWindow \in Nat \ {0}
      /\ batchEnd \in Nat /\ Uid = 1..MailLetters
      /\ UNCHANGED <<inbox, watermark, baseline, batchEnd, press, mailKeys>>
  BY InboxBounds DEF LetterProcessed, MailInv, Uid
<1>2. letters \subseteq Nat /\ letters # {}
  BY <1>1 DEF LetterProcessed, MailTypeOK
<1>3. PICK u \in letters : u = Min(letters) /\ \A v \in letters : u <= v
  BY <1>2, MinIsLeast
<1> DEFINE a == inbox[u]
<1>4. /\ letters' = letters \ {u}
      /\ \/ a \in KeyHolder /\ SosAnswered(u, a)
            /\ UNCHANGED <<carded, lostMail, mailFaults>>
         \/ RequestFiled(u, a) /\ UNCHANGED <<replyAge, lostMail>>
         \/ /\ MailFault
            /\ lostMail' = IF request[u] = "none" THEN lostMail \union {u} ELSE lostMail
            /\ UNCHANGED <<request, carded, replyAge>>
  BY <1>3, Zenon DEF LetterProcessed
<1>5. /\ batchEnd > 0 /\ watermark > 0 /\ baseline > 0 /\ u \in watermark..(batchEnd - 1)
      /\ u \in 1..Len(inbox) /\ u \in Uid
  BY <1>1, <1>2, <1>3 DEF BatchInRange
<1> HIDE DEF a
<1>6. \* what becomes of rows, replies and failures
      /\ \/ UNCHANGED <<request, replyAge>>
         \/ request[u] = "none" /\ a \in KeyHolder /\ request' = [request EXCEPT ![u] = "sos"]
            /\ replyAge' = [replyAge EXCEPT ![a] = 0]
         \/ request[u] = "none" /\ ~Open(a) /\ request' = [request EXCEPT ![u] = "pending"]
            /\ UNCHANGED replyAge
      /\ lostMail' \in {lostMail, lostMail \union {u}}
      /\ carded' \in {carded, carded \union {u}}
      /\ mailFaults' \in 0..MailFaults
  <2>0. mailFaults \in 0..MailFaults
    BY <1>1 DEF MailTypeOK
  <2>1. CASE a \in KeyHolder /\ SosAnswered(u, a) /\ UNCHANGED <<carded, lostMail, mailFaults>>
    BY <2>0, <2>1 DEF SosAnswered
  <2>2. CASE RequestFiled(u, a) /\ UNCHANGED <<replyAge, lostMail>>
    BY <1>1, <2>0, <2>2 DEF RequestFiled, MailFault
  <2>3. CASE /\ MailFault
             /\ lostMail' = IF request[u] = "none" THEN lostMail \union {u} ELSE lostMail
             /\ UNCHANGED <<request, carded, replyAge>>
    BY <1>1, <2>0, <2>3 DEF MailFault
  <2> QED
    BY <1>4, <2>1, <2>2, <2>3
<1>7. /\ request \in [Uid -> {"none", "pending", "approved", "rejected", "sos"}]
      /\ replyAge \in [KeyHolder -> 0..MailWindow]
      /\ letters \subseteq Uid /\ carded \subseteq Uid /\ lostMail \subseteq Uid
  BY <1>1 DEF MailTypeOK
<1>8. /\ request' \in [Uid -> {"none", "pending", "approved", "rejected", "sos"}]
      /\ replyAge' \in [KeyHolder -> 0..MailWindow]
      /\ \A v \in Uid : request'[v] # request[v] => v = u /\ request[u] = "none"
      /\ \A b \in KeyHolder : replyAge'[b] # replyAge[b] => b = a /\ request'[u] # "none"
  BY <1>1, <1>5, <1>6, <1>7
<1>9. MailTypeOK'
  BY <1>1, <1>4, <1>5, <1>6, <1>7, <1>8 DEF MailTypeOK
<1>10. BatchInRange'
  BY <1>1, <1>4, <1>5, <1>8 DEF BatchInRange
<1>11. MailGrows
  BY <1>1, <1>6, <1>8 DEF MailGrows
<1>12. Accounted(u)'
  <2>1. CASE request[u] # "none"
    BY <1>5, <1>8, <2>1 DEF Accounted
  <2>2. CASE request[u] = "none" /\ \E v \in 1..Len(inbox) : inbox[v] = a /\ request[v] # "none"
    <3>1. PICK v \in 1..Len(inbox) : inbox[v] = a /\ request[v] # "none"
      BY <2>2
    <3>2. v \in Uid /\ u # v /\ request'[v] # "none"
      BY <1>1, <1>8, <2>2, <3>1
    <3>3. CASE v < u
      BY <1>1, <3>1, <3>2, <3>3 DEF a, Accounted
    <3>4. CASE u < v
      <4>1. u \in baseline..v
        BY <1>1, <1>5, <3>1, <3>4 DEF BatchInRange
      <4> QED
        BY <1>11, <3>1, <3>2, <4>1, StaysInOrder
    <3> QED
      BY <1>5, <3>1, <3>2, <3>3, <3>4
  <2>3. CASE request[u] = "none" /\ ~\E v \in 1..Len(inbox) : inbox[v] = a /\ request[v] # "none"
    <3>1. ~Open(a) /\ (a \in KeyHolder => ~(replyAge[a] < MailWindow))
      BY <1>1, <2>3 DEF Open, OldestFirst
    <3>2. u \in lostMail' \/ request'[u] # "none"
      BY <1>4, <1>5, <1>7, <2>3, <3>1 DEF SosAnswered, RequestFiled
    <3> QED
      BY <3>2 DEF Accounted
  <2> QED
    BY <2>1, <2>2, <2>3
<1>13. \A w \in baseline..(batchEnd - 1) : w \notin letters' => Accounted(w)'
  BY <1>4, <1>5, <1>11, <1>12, StaysInOrder
<1>14. LettersAccounted'
  BY <1>1, <1>11, StaysInOrder DEF LettersAccounted, Accounted
<1>15. OldestFirst'
  <2>1. ASSUME NEW v \in Uid, request'[v] # "none", NEW w \in baseline..v PROVE Accounted(w)'
    <3>1. CASE request[v] # "none"
      BY <1>11, <3>1, StaysInOrder
    <3>2. CASE request[v] = "none"
      <4>1. v = u
        BY <1>8, <2>1, <3>2
      <4>2. w \in baseline..(batchEnd - 1) /\ (w = u \/ w < u)
        BY <1>1, <1>5, <4>1
      <4>3. w \notin letters'
        BY <1>2, <1>3, <1>4, <4>2
      <4> QED
        BY <1>13, <4>2, <4>3
    <3> QED
      BY <3>1, <3>2
  <2>2. ASSUME NEW b \in KeyHolder, replyAge'[b] < MailWindow
        PROVE  \E v \in 1..Len(inbox') : inbox'[v] = b /\ request'[v] # "none"
    <3>1. CASE replyAge'[b] = replyAge[b]
      BY <1>11, <2>2, <3>1, StaysInOrder
    <3>2. CASE replyAge'[b] # replyAge[b]
      BY <1>1, <1>5, <1>8, <3>2 DEF a
    <3> QED
      BY <3>1, <3>2
  <2> QED
    BY <1>1, <1>13, <2>1, <2>2 DEF OldestFirst
<1>16. OneOpenPerAddress'
  <2> SUFFICES ASSUME NEW v \in 1..Len(inbox), NEW w \in 1..Len(inbox),
                      request'[v] = "pending", request'[w] = "pending", inbox[v] = inbox[w]
               PROVE  v = w
    BY <1>1 DEF OneOpenPerAddress
  <2>1. v \in Uid /\ w \in Uid
    BY <1>1
  <2>2. CASE request[v] = "pending" /\ request[w] = "pending"
    BY <1>1, <2>2 DEF OneOpenPerAddress
  <2>3. CASE request[v] # "pending" \/ request[w] # "pending"
    <3>1. ~Open(a) /\ request' = [request EXCEPT ![u] = "pending"]
      BY <1>5, <1>6, <1>7, <2>1, <2>3
    <3>2. \A x \in 1..Len(inbox) : inbox[x] = a => request[x] # "pending"
      BY <3>1 DEF Open
    <3> QED
      BY <1>5, <1>8, <2>1, <2>3, <3>2 DEF a
  <2> QED
    BY <2>2, <2>3
<1> QED
  BY <1>9, <1>10, <1>14, <1>15, <1>16 DEF MailInv

\* The steps of the admins, the clock and a restart.
LEMMA CardStepKept ==
  ASSUME MailInv,
         \/ MailRestart \/ MailTick
         \/ \E d \in Admin : \/ \E u \in Uid, ok \in BOOLEAN : CardPressed(d, u, ok)
                             \/ CardDecided(d) \/ KeyProvisioned(d)
  PROVE  MailInv' /\ \A u \in Uid : request[u] \in {"approved", "rejected"} => request'[u] = request[u]
<1>1. /\ MailTypeOK /\ BatchInRange /\ OneOpenPerAddress
      /\ Len(inbox) \in Nat /\ MailLetters \in Nat /\ Len(inbox) <= MailLetters
      /\ MailFaults \in Nat /\ MailWindow \in Nat \ {0} /\ Uid = 1..MailLetters
  BY InboxBounds DEF MailInv, Uid
<1>2. /\ UNCHANGED <<inbox, baseline, watermark, lostMail>>
      /\ UNCHANGED <<batchEnd, letters>> \/ (batchEnd' = 0 /\ letters' = {})
  BY DEF MailRestart, MailTick, CardPressed, CardDecided, KeyProvisioned
<1>3. /\ request' \in [Uid -> {"none", "pending", "approved", "rejected", "sos"}]
      /\ \A u \in Uid : request'[u] # request[u] =>
           request[u] = "pending" /\ request'[u] \in {"approved", "rejected"}
  <2>1. request \in [Uid -> {"none", "pending", "approved", "rejected", "sos"}]
    BY <1>1 DEF MailTypeOK
  <2>2. CASE UNCHANGED request
    BY <2>1, <2>2
  <2>3. ASSUME NEW d \in Admin, CardDecided(d) PROVE <1>3!1 /\ <1>3!2
    BY <2>1, <2>3 DEF CardDecided, Decided
  <2> QED
    BY <2>2, <2>3 DEF MailRestart, MailTick, CardPressed, KeyProvisioned
<1>4. /\ press' \in [Admin -> [uid : 0..MailLetters, ok : BOOLEAN,
                               at : {"idle", "decide", "provision"}]]
      /\ \A d \in Admin : press'[d].at # "idle" => press'[d].uid \in Uid
  <2>1. /\ press \in [Admin -> [uid : 0..MailLetters, ok : BOOLEAN,
                                at : {"idle", "decide", "provision"}]]
        /\ \A d \in Admin : press[d].at # "idle" => press[d].uid \in Uid
    BY <1>1 DEF MailTypeOK, BatchInRange
  <2>2. CASE UNCHANGED press
    BY <2>1, <2>2
  <2>3. CASE MailRestart
    BY <1>1, <2>3 DEF MailRestart, NoPress
  <2>4. ASSUME NEW d \in Admin, NEW u \in Uid, NEW ok \in BOOLEAN, CardPressed(d, u, ok)
        PROVE  <1>4!1 /\ <1>4!2
    <3>1. press' = [press EXCEPT ![d] = [uid |-> u, ok |-> ok, at |-> "decide"]]
      BY <2>4 DEF CardPressed
    <3> QED
      BY <1>1, <2>1, <3>1
  <2>5. ASSUME NEW d \in Admin, CardDecided(d) PROVE <1>4!1 /\ <1>4!2
    <3>1. press' = [press EXCEPT ![d] = IF press[d].ok THEN [press[d] EXCEPT !.at = "provision"]
                                                       ELSE NoPress]
          /\ press[d].at # "idle"
      BY <2>5 DEF CardDecided
    <3> QED
      BY <1>1, <2>1, <3>1 DEF NoPress
  <2>6. ASSUME NEW d \in Admin, KeyProvisioned(d) PROVE <1>4!1 /\ <1>4!2
    BY <1>1, <2>1, <2>6 DEF KeyProvisioned, NoPress
  <2> QED
    BY <2>2, <2>3, <2>4, <2>5, <2>6 DEF MailTick
<1>5. /\ carded' = carded /\ mailKeys' \subseteq Uid /\ mailFaults' \in 0..MailFaults
      /\ replyAge' \in [KeyHolder -> 0..MailWindow]
      /\ \A a \in KeyHolder : replyAge'[a] < MailWindow => replyAge[a] < MailWindow
  <2>1. /\ mailKeys \subseteq Uid /\ mailFaults \in 0..MailFaults
        /\ replyAge \in [KeyHolder -> 0..MailWindow]
        /\ \A d \in Admin : press[d].at # "idle" => press[d].uid \in Uid
    BY <1>1 DEF MailTypeOK, BatchInRange
  <2>2. CASE MailTick
    BY <1>1, <2>1, <2>2 DEF MailTick
  <2>3. CASE MailRestart
    BY <1>1, <2>1, <2>3 DEF MailRestart, MailFault
  <2>4. ASSUME NEW d \in Admin,
               \/ \E u \in Uid, ok \in BOOLEAN : CardPressed(d, u, ok)
               \/ CardDecided(d)
        PROVE  UNCHANGED <<carded, mailKeys, mailFaults, replyAge>>
    BY <2>4 DEF CardPressed, CardDecided
  <2>5. ASSUME NEW d \in Admin, KeyProvisioned(d)
        PROVE  /\ UNCHANGED <<carded, replyAge>> /\ mailKeys' \subseteq Uid
               /\ mailFaults' \in 0..MailFaults
    <3>1. press[d].at = "provision" /\ UNCHANGED <<carded, replyAge>>
          /\ ((mailKeys' = mailKeys \union {press[d].uid} /\ UNCHANGED mailFaults)
              \/ (MailFault /\ UNCHANGED mailKeys))
      BY <2>5 DEF KeyProvisioned
    <3>2. press[d].uid \in Uid
      BY <2>1, <3>1
    <3>3. mailKeys' \subseteq Uid
      BY <2>1, <3>1, <3>2
    <3>4. mailFaults' \in 0..MailFaults
      <4>1. MailFaults \in Nat /\ mailFaults \in 0..MailFaults
        BY <1>1, <2>1
      <4> QED
        BY <3>1, <4>1 DEF MailFault
    <3> QED
      BY <3>1, <3>3, <3>4
  <2> QED
    BY <2>1, <2>2, <2>3, <2>4, <2>5
<1>6. MailTypeOK'
  <2>1. letters' \subseteq Uid /\ batchEnd' \in 0..(MailLetters + 1)
    <3>1. letters \subseteq Uid /\ batchEnd \in 0..(MailLetters + 1)
      BY <1>1 DEF MailTypeOK
    <3>2. MailLetters \in Nat
      BY <1>1
    <3>3. CASE UNCHANGED <<batchEnd, letters>>
      BY <3>1, <3>3
    <3>4. CASE batchEnd' = 0 /\ letters' = {}
      BY <3>2, <3>4
    <3> QED
      BY <1>2, <3>3, <3>4
  <2>2. /\ inbox' \in Seq(Stranger \union KeyHolder) /\ Len(inbox') <= MailLetters
        /\ watermark' \in 0..(MailLetters + 1) /\ baseline' \in 0..(MailLetters + 1)
    <3>1. /\ inbox \in Seq(Stranger \union KeyHolder) /\ Len(inbox) <= MailLetters
          /\ watermark \in 0..(MailLetters + 1) /\ baseline \in 0..(MailLetters + 1)
      BY <1>1 DEF MailTypeOK
    <3> QED
      BY <1>2, <3>1
  <2>3. carded' \subseteq Uid /\ lostMail' \subseteq Uid /\ mailKeys' \subseteq Uid
    BY <1>1, <1>2, <1>5 DEF MailTypeOK
  <2> QED
    BY <1>3, <1>4, <1>5, <2>1, <2>2, <2>3 DEF MailTypeOK
<1>7. BatchInRange'
  BY <1>1, <1>2, <1>3, <1>4 DEF BatchInRange
<1>8. OneOpenPerAddress'
  BY <1>1, <1>2, <1>3 DEF OneOpenPerAddress
<1>9. MailGrows
  BY <1>1, <1>2, <1>3 DEF MailGrows
<1>10. MailInv'
  BY <1>2, <1>3, <1>5, <1>6, <1>7, <1>8, <1>9, QuietMailStep
<1> QED
  BY <1>3, <1>10

\* Who writes a row: the poll, where there is none; an admin, where it is open.
LEMMA DecisionsStay ==
  ASSUME MailInv, MailNext
  PROVE  \A u \in Uid : request[u] \in {"approved", "rejected"} => request'[u] = request[u]
<1>1. CASE LetterProcessed
  <2>1. request \in [Uid -> {"none", "pending", "approved", "rejected", "sos"}]
    BY DEF MailInv, MailTypeOK
  <2>2. request' = request \/ \E u, x : request[u] = "none" /\ request' = [request EXCEPT ![u] = x]
    BY <1>1 DEF LetterProcessed, SosAnswered, RequestFiled
  <2> QED
    BY <2>1, <2>2
<1>2. CASE \/ PollBaseline \/ PollStarts \/ PollEnds
           \/ \E a \in Stranger \union KeyHolder : LetterArrives(a)
  BY <1>2 DEF PollBaseline, PollStarts, PollEnds, LetterArrives
<1> QED
  BY <1>1, <1>2, CardStepKept DEF MailNext, MailPoll

LEMMA MailKept == MailInv /\ [MailNext]_mailVars => MailInv'
<1> SUFFICES ASSUME MailInv, [MailNext]_mailVars PROVE MailInv'
  OBVIOUS
<1>1. CASE UNCHANGED mailVars
  <2>1. MailTypeOK' /\ BatchInRange' /\ OneOpenPerAddress' /\ LettersAccounted' /\ OldestFirst'
    BY <1>1 DEF mailVars, MailInv, MailTypeOK, BatchInRange, OneOpenPerAddress, LettersAccounted,
                OldestFirst, Accounted
  <2> QED
    BY <2>1 DEF MailInv
<1> QED
  BY <1>1, LetterArrivesKept, PollBaselineKept, PollStartsKept, PollEndsKept, LetterProcessedKept,
     CardStepKept DEF MailNext, MailPoll

\* What every step of the mailbox keeps.
LEMMA MailKeeps == MailInit /\ [][MailNext]_mailVars => MailHolds
<1>1. MailInv => MailTypeOK /\ LettersAccounted /\ OneOpenPerAddress
  BY DEF MailInv
<1>2. MailInv /\ [MailNext]_mailVars =>
        [\A u \in Uid : request[u] \in {"approved", "rejected"} => request'[u] = request[u]]_mailVars
  BY DecisionsStay
<1> QED
  BY <1>1, <1>2, MailStarts, MailKept, PTL DEF MailHolds, DecisionsStick

\* Though letters fail, batches are read again after a watermark that could not be written,
\* and the process dies anywhere: no letter is passed over without a reason, no address has
\* two open requests, and what one admin decided no other changes (mail_intake.py; the
\* safety part of MailIntake's MailHolds).
THEOREM MailSafe == MailSpec => MailHolds
  BY MailKeeps, PTL DEF MailSpec

-----------------------------------------------------------------------------
(* Tickets: what a post, a row and a handler at work know of each other.    *)

\* What the steps compute with.
TopicData ==
  /\ users \in [Writer -> [status : {"away", "support"}, topic : {NoTopic} \union Topic]]
  /\ Len(owner) \in Nat /\ Len(owner) <= MaxTopics /\ Topic = 1..Len(owner)
  /\ owner \in [Topic -> Writer]
  /\ forum \in [Topic -> {"open", "closed", "gone"}]
  /\ logged \in [Topic -> SUBSET DOMAIN shown]
  /\ archive \in [Topic -> SUBSET SUBSET Nat]
  /\ shown \in Seq(Seq(Nat))
  /\ \A m \in DOMAIN shown : \A t : ReadIn(m, t) => t \in {General} \union Topic
  /\ parted \subseteq Topic /\ unheard \subseteq Topic /\ restored \subseteq Topic
  /\ renewed \subseteq DOMAIN shown

\* A row a web thread holds was its user's; its topic is his still, or was taken from him.
CopiesOwn ==
  \A c \in copied : \E u \in Writer :
    /\ c \in [who : {{u}}, status : {"away", "support"}, topic : {NoTopic} \union Topic]
    /\ c.topic # NoTopic => owner[c.topic] = u /\ (c.topic \in parted \/ users[u].topic = c.topic)

\* The row of the user whose message or topic is in hand, stage by stage: his topic is the
\* one in hand, but that a new one is stored only after the post; an old row, written back
\* meanwhile, takes the topic from him, or gives him one that had been taken.
DeskStage ==
  /\ desk \in [at : {"idle", "create", "forward", "recreate", "post", "repost", "again", "log", "close"},
               who : SUBSET Writer, status : {"away", "support"}, topic : {NoTopic} \union Topic,
               msg : {0} \union DOMAIN shown]
  /\ desk.at = "idle" => desk = AtDesk
  /\ desk.at # "idle" => \E u \in Writer :
       /\ desk.who = {u}
       /\ desk.topic # NoTopic => owner[desk.topic] = u
       /\ users[u].topic \in {NoTopic} \union parted
            \union (IF desk.at \in {"post", "repost"} THEN {} ELSE {desk.topic})
       /\ desk.at \notin {"post", "repost"} => desk.topic \in {NoTopic, users[u].topic} \union parted
  /\ desk.at \in {"forward", "again", "close"} => desk.topic # NoTopic
  /\ desk.at \in {"create", "recreate"} => desk.topic = NoTopic
  /\ desk.at = "close" => desk.msg = 0
  /\ desk.at \notin {"idle", "close"} => desk.msg \in DOMAIN shown
  /\ desk.at \in {"post", "repost"} => desk.topic \notin parted
  /\ desk.at \in {"post", "repost", "again"} /\ desk.topic # NoTopic => forum[desk.topic] # "gone"

\* What has become of the message in hand: it was not shown before the post, and is logged
\* before it is forwarded.
DeskMessage ==
  LET m == desk.msg
  IN /\ desk.at \in {"forward", "create", "post"} => shown[m] = <<>> /\ m \notin renewed
     /\ desk.at = "forward" => m \in logged[desk.topic]
     /\ desk.at \in {"post", "repost"} /\ desk.topic = NoTopic => m \in excused
     /\ desk.at \in {"recreate", "repost", "again"} => m \in renewed
     /\ desk.at = "log" =>
          /\ m \notin renewed /\ \A t : ReadIn(m, t) => t = desk.topic
          /\ shown[m] = <<>> => m \in Long \union Media \union excused

RowsOwn ==
  \A u \in Writer : users[u].topic # NoTopic
    => owner[users[u].topic] = u /\ users[u].topic \notin parted \ restored

\* What can be read in a topic is in its log while nobody took it, and the topic is somebody's
\* or was taken.
ReadAreLogged ==
  \A t \in Topic \ parted : \A m \in DOMAIN shown : ReadIn(m, t)
    => m \in logged[t] \union renewed \union excused \/ (desk.at = "log" /\ m = desk.msg)

ReadAreOwned ==
  \A t \in Topic : \A m \in DOMAIN shown : ReadIn(m, t) =>
    t \in parted \/ \E u \in Writer : users[u].topic = t

\* A log was put into the archive by the closing of a topic that nobody posts to any more,
\* unless an old row brought it back.
ArchivesAre ==
  \A t \in Topic \ restored : \A log \in archive[t] :
    /\ desk.topic = t => desk.at = "close"
    /\ desk.topic # t => \A u \in Writer : users[u].topic # t
    /\ \A m \in DOMAIN shown \ Media : ReadIn(m, t) => m \in log \union renewed \union excused

TopicInv ==
  /\ TopicData /\ CopiesOwn /\ DeskStage /\ DeskMessage /\ RowsOwn /\ NothingUnread /\ ShownOnce
  /\ ReadAreLogged /\ ReadAreOwned /\ ArchivesAre /\ UnheardAreParted

\* g is f, of length n, with as many entries x behind it as Telegram makes of one call.
Grown(g, f, n, X, x, o) ==
  /\ g \in [1..(n + Times(o)) -> X]
  /\ \A i \in 1..n : g[i] = f[i]
  /\ \A i \in (n + 1)..(n + Times(o)) : g[i] = x
  /\ Times(o) \in Nat /\ (o = "refused" <=> Times(o) = 0) /\ (o = "done" => Times(o) = 1)

LEMMA CopiesGrow ==
  ASSUME NEW X, NEW n \in Nat, NEW f \in [1..n -> X], NEW x \in X, NEW o \in Outcome
  PROVE  Grown(f \o Copies(o, x), f, n, X, x, o)
<1> DEFINE c == Copies(o, x)
           k == Times(o)
<1>1. k \in Nat /\ (o = "refused" <=> k = 0) /\ (o = "done" => k = 1)
  BY DEF Times, Outcome
<1> HIDE DEF k
<1>2. c = [i \in 1..k |-> x]
  BY DEF Copies, k
<1>3. c \in Seq(X) /\ Len(c) = k /\ \A i \in 1..k : c[i] = x
  BY <1>1, <1>2
<1>4. f \in Seq(X) /\ Len(f) = n
  OBVIOUS
<1> HIDE DEF c
<1>5. /\ f \o c \in Seq(X) /\ Len(f \o c) = n + k
      /\ \A i \in 1..(n + k) : (f \o c)[i] = (IF i <= n THEN f[i] ELSE c[i - n])
  BY <1>3, <1>4, ConcatProperties
<1>6. f \o c \in [1..(n + k) -> X]
  BY <1>5, LenProperties
<1>7. \A i \in 1..n : (f \o c)[i] = f[i]
  BY <1>1, <1>5
<1>8. \A i \in (n + 1)..(n + k) : (f \o c)[i] = x
  BY <1>1, <1>3, <1>5
<1> QED
  BY <1>1, <1>6, <1>7, <1>8 DEF c, k, Grown

LEMMA FunctionIsList ==
  ASSUME NEW X, NEW n \in Nat, NEW f \in [1..n -> X]
  PROVE  f \in Seq(X) /\ Len(f) = n /\ DOMAIN f = 1..n
  OBVIOUS

\* A post into a place: it can be read there, and nowhere else than before.
LEMMA PostedIs ==
  ASSUME shown \in Seq(Seq(Nat)), NEW m \in DOMAIN shown, desk.msg = m, NEW o \in Outcome,
         NEW p \in Nat, Posted(o, p)
  PROVE  /\ shown' \in Seq(Seq(Nat)) /\ DOMAIN shown' = DOMAIN shown
         /\ \A l \in DOMAIN shown : l # m => shown'[l] = shown[l]
         /\ \A t : (\E i \in DOMAIN shown'[m] : shown'[m][i] = t) => ReadIn(m, t) \/ t = p
         /\ o # "refused" => shown'[m] # <<>>
         /\ o = "done" /\ shown[m] = <<>> => Len(shown'[m]) = 1
<1> DEFINE s == shown[m]
           z == s \o Copies(o, p)
           n == Len(s)
<1>1. /\ DOMAIN shown = 1..Len(shown) /\ Len(shown) \in Nat
      /\ shown \in [1..Len(shown) -> Seq(Nat)]
  BY LenProperties
<1>2. s \in Seq(Nat)
  BY <1>1
<1> HIDE DEF s
<1>3. n \in Nat /\ s \in [1..n -> Nat] /\ DOMAIN s = 1..n
  BY <1>2, LenProperties
<1> HIDE DEF n
<1>4. /\ z \in [1..(n + Times(o)) -> Nat]
      /\ \A i \in 1..n : z[i] = s[i]
      /\ \A i \in (n + 1)..(n + Times(o)) : z[i] = p
      /\ Times(o) \in Nat /\ (o = "refused" <=> Times(o) = 0) /\ (o = "done" => Times(o) = 1)
  <2>1. Grown(s \o Copies(o, p), s, n, Nat, p, o)
    BY <1>3, CopiesGrow, Zenon
  <2> QED
    BY <2>1 DEF Grown
<1>5. shown' = [shown EXCEPT ![m] = z]
  BY DEF Posted, s
<1> HIDE DEF z
<1>6. z \in Seq(Nat) /\ Len(z) = n + Times(o) /\ DOMAIN z = 1..(n + Times(o))
  <2> DEFINE k == n + Times(o)
  <2>1. k \in Nat /\ z \in [1..k -> Nat]
    BY <1>3, <1>4
  <2> HIDE DEF k
  <2>2. z \in Seq(Nat) /\ Len(z) = k /\ DOMAIN z = 1..k
    BY <2>1
  <2> QED
    BY <2>2 DEF k
<1>7. shown' \in [1..Len(shown) -> Seq(Nat)] /\ shown'[m] = z
      /\ \A l \in DOMAIN shown : l # m => shown'[l] = shown[l]
  BY <1>1, <1>5, <1>6
<1>8. shown' \in Seq(Seq(Nat)) /\ DOMAIN shown' = DOMAIN shown
  BY <1>1, <1>7, FunctionIsList
<1>9. \A t : (\E i \in DOMAIN z : z[i] = t) => ReadIn(m, t) \/ t = p
  <2>1. ASSUME NEW i \in DOMAIN z PROVE (\E j \in DOMAIN s : s[j] = z[i]) \/ z[i] = p
    <3>1. i \in 1..n \/ i \in (n + 1)..(n + Times(o))
      BY <1>3, <1>4, <1>6
    <3>2. CASE i \in 1..n
      BY <1>3, <1>4, <3>2
    <3>3. CASE i \in (n + 1)..(n + Times(o))
      BY <1>4, <3>3
    <3> QED
      BY <3>1, <3>2, <3>3
  <2> QED
    BY <2>1 DEF ReadIn, s
<1>10. o # "refused" => z # <<>>
  BY <1>3, <1>4, <1>6
<1>11. o = "done" /\ s = <<>> => Len(z) = 1
  BY <1>3, <1>4, <1>6 DEF n
<1> QED
  BY <1>7, <1>8, <1>9, <1>10, <1>11 DEF s

LEMMA TopicStarts == TopicInit => TopicInv
<1> SUFFICES ASSUME TopicInit PROVE TopicInv
  OBVIOUS
<1>1. Len(owner) = 0 /\ Topic = 1..0 /\ owner = <<>> /\ shown = <<>> /\ DOMAIN shown = {} /\ Topic = {}
  BY DEF TopicInit, Topic
<1>2. shown \in Seq(Seq(Nat)) /\ MaxTopics \in Nat
  BY <1>1, TopicConstants DEF TopicConstants
<1>3. TopicData /\ CopiesOwn
  BY <1>1, <1>2 DEF TopicInit, TopicData, CopiesOwn, NoTopic, General, Topic
<1>4. DeskStage /\ DeskMessage
  BY <1>1 DEF TopicInit, DeskStage, DeskMessage, AtDesk, NoTopic
<1>5. RowsOwn /\ NothingUnread /\ ShownOnce /\ UnheardAreParted
  BY <1>1 DEF TopicInit, RowsOwn, NothingUnread, ShownOnce, UnheardAreParted, Handled, NoTopic
<1>6. ReadAreLogged /\ ReadAreOwned /\ ArchivesAre
  BY <1>1 DEF ReadAreLogged, ReadAreOwned, ArchivesAre
<1> QED
  BY <1>3, <1>4, <1>5, <1>6 DEF TopicInv

LEMMA DeskFields ==
  ASSUME TopicInv, NEW a, NEW t
  PROVE  [desk EXCEPT !.at = a, !.topic = t] =
         [at |-> a, who |-> desk.who, status |-> desk.status, topic |-> t, msg |-> desk.msg]
<1> DEFINE d == [desk EXCEPT !.at = a]
<1>1. d = [at |-> a, who |-> desk.who, status |-> desk.status, topic |-> desk.topic, msg |-> desk.msg]
  BY DEF TopicInv, DeskStage
<1> HIDE DEF d
<1>2. [d EXCEPT !.topic = t] =
        [at |-> a, who |-> desk.who, status |-> desk.status, topic |-> t, msg |-> desk.msg]
  BY <1>1
<1> QED
  BY <1>2, Zenon DEF d

\* What an answer to a call leaves of the message in hand.
LEMMA Excused ==
  ASSUME NEW o \in Outcome, Excuse(o)
  PROVE  /\ excused \subseteq excused' /\ excused' \subseteq excused \union {desk.msg}
         /\ o # "done" => desk.msg \in excused'
  BY DEF Excuse

\* What a step shows of the message in hand can be read in the topic in hand.
LEMMA ShownStep ==
  ASSUME TopicInv, desk.at \notin {"idle", "close"}, NEW o \in Outcome,
         UNCHANGED shown \/ Posted(o, desk.topic)
  PROVE  /\ desk.msg \in DOMAIN shown /\ shown' \in Seq(Seq(Nat)) /\ DOMAIN shown' = DOMAIN shown
         /\ \A l \in DOMAIN shown : l # desk.msg => shown'[l] = shown[l]
         /\ \A l \in DOMAIN shown : \A t :
              ReadIn(l, t)' => ReadIn(l, t) \/ (l = desk.msg /\ t = desk.topic)
         /\ Posted(o, desk.topic) /\ o # "refused" => shown'[desk.msg] # <<>>
         /\ o = "done" /\ shown[desk.msg] = <<>> => Len(shown'[desk.msg]) <= 1
<1>1. /\ desk.msg \in DOMAIN shown /\ shown \in Seq(Seq(Nat)) /\ desk.topic \in Nat
  BY DEF TopicInv, TopicData, DeskStage, NoTopic
<1>2. PICK m : m = desk.msg
  OBVIOUS
<1>3. PICK p : p = desk.topic
  OBVIOUS
<1>4. CASE UNCHANGED shown /\ ~Posted(o, desk.topic)
  <2>1. shown[desk.msg] = <<>> => Len(shown'[desk.msg]) <= 1
    BY <1>4
  <2>2. \A l, t : ReadIn(l, t)' => ReadIn(l, t)
    BY <1>4 DEF ReadIn
  <2> QED
    BY <1>1, <1>4, <2>1, <2>2
<1>5. CASE Posted(o, desk.topic)
  <2>1. /\ shown' \in Seq(Seq(Nat)) /\ DOMAIN shown' = DOMAIN shown
        /\ \A l \in DOMAIN shown : l # m => shown'[l] = shown[l]
        /\ \A t : (\E i \in DOMAIN shown'[m] : shown'[m][i] = t) => ReadIn(m, t) \/ t = p
        /\ o # "refused" => shown'[m] # <<>>
        /\ o = "done" /\ shown[m] = <<>> => Len(shown'[m]) = 1
    BY <1>1, <1>2, <1>3, <1>5, PostedIs
  <2>2. ASSUME NEW l \in DOMAIN shown, NEW t, ReadIn(l, t)'
        PROVE  ReadIn(l, t) \/ (l = m /\ t = p)
    BY <2>1, <2>2 DEF ReadIn
  <2>3. /\ \A l \in DOMAIN shown : l # desk.msg => shown'[l] = shown[l]
        /\ \A l \in DOMAIN shown : \A t :
              ReadIn(l, t)' => ReadIn(l, t) \/ (l = desk.msg /\ t = desk.topic)
    BY <1>2, <1>3, <2>1, <2>2
  <2>4. o # "refused" => shown'[desk.msg] # <<>>
    BY <1>2, <2>1
  <2>5. o = "done" /\ shown[desk.msg] = <<>> => Len(shown'[desk.msg]) <= 1
    <3>1. ASSUME o = "done", shown[m] = <<>> PROVE Len(shown'[m]) <= 1
      <4>1. Len(shown'[m]) = 1
        BY <2>1, <3>1
      <4> HIDE <2>1
      <4> QED
        BY <4>1
    <3> QED
      BY <1>2, <3>1
  <2> QED
    BY <1>1, <2>1, <2>3, <2>4, <2>5
<1> QED
  BY <1>4, <1>5

\* Such a step leaves the archive as it should be: nobody posts to a topic that was closed, and
\* no row gets one but the topic in hand.
LEMMA ArchiveKept ==
  ASSUME TopicInv, desk.at \in {"forward", "post", "repost", "again"},
         UNCHANGED <<owner, archive, restored>>,
         renewed \subseteq renewed', excused \subseteq excused',
         DOMAIN shown' = DOMAIN shown, desk'.topic \in {NoTopic, desk.topic},
         \A v \in Writer : users'[v].topic \in {NoTopic, desk.topic, users[v].topic},
         \A l \in DOMAIN shown : \A t :
              ReadIn(l, t)' => ReadIn(l, t) \/ (l = desk.msg /\ t = desk.topic)
  PROVE  ArchivesAre'
<1>1. Topic' = Topic /\ 0 \notin Topic
  BY DEF Topic, TopicInv, TopicData
<1>2. ASSUME NEW t \in Topic \ restored, NEW log \in archive[t]
      PROVE  /\ desk.topic # t /\ desk'.topic # t /\ \A v \in Writer : users'[v].topic # t
             /\ \A m \in DOMAIN shown \ Media :
                  ReadIn(m, t)' => m \in log \union renewed \union excused
  <2>1. desk.topic # t
    BY <1>2 DEF TopicInv, ArchivesAre
  <2>2. /\ \A v \in Writer : users[v].topic # t
        /\ \A m \in DOMAIN shown \ Media :
             ReadIn(m, t) => m \in log \union renewed \union excused
    BY <1>2, <2>1 DEF TopicInv, ArchivesAre
  <2> QED
    BY <1>1, <1>2, <2>1, <2>2 DEF NoTopic
<1> QED
  BY <1>1, <1>2 DEF ArchivesAre

\* The row a web thread holds stays its user's, while topics are taken but not given back.
LEMMA CopiesKept ==
  ASSUME TopicInv, copied' \subseteq copied, parted \subseteq parted', Topic \subseteq Topic',
         \A t \in Topic : owner'[t] = owner[t],
         \A v \in Writer : users'[v].topic = users[v].topic
                           \/ users[v].topic \in {NoTopic} \union parted'
  PROVE  CopiesOwn'
<1> SUFFICES ASSUME NEW c \in copied
             PROVE  \E u \in Writer :
                      /\ c \in [who : {{u}}, status : {"away", "support"},
                                topic : {NoTopic} \union Topic']
                      /\ c.topic # NoTopic => /\ owner'[c.topic] = u
                                              /\ c.topic \in parted' \/ users'[u].topic = c.topic
  BY DEF CopiesOwn
<1>1. PICK u \in Writer :
        /\ c \in [who : {{u}}, status : {"away", "support"}, topic : {NoTopic} \union Topic]
        /\ c.topic # NoTopic => owner[c.topic] = u /\ (c.topic \in parted \/ users[u].topic = c.topic)
  BY DEF TopicInv, CopiesOwn
<1> QED
  BY <1>1

LEMMA MessageForwardedKept ==
  ASSUME TopicInv, NEW o \in Outcome, MessageForwarded(o)
  PROVE  TopicInv'
<1> DEFINE m == desk.msg
           T == desk.topic
           told == Told(o) /\ forum[T] # "gone"
<1>1. /\ desk.at = "forward" /\ excused \subseteq excused' /\ excused' \subseteq excused \union {m}
      /\ o # "done" => m \in excused'
      /\ UNCHANGED <<owner, forum, logged, archive, repairing, unheard, copied, restored>>
      /\ told => desk' = AtDesk /\ UNCHANGED <<users, renewed, parted>>
      /\ ~told => /\ desk' = [at |-> "recreate", who |-> desk.who, status |-> desk.status,
                              topic |-> NoTopic, msg |-> m]
                  /\ \A v \in Writer : users'[v] = IF v \in desk.who
                       THEN [status |-> desk.status, topic |-> NoTopic] ELSE users[v]
                  /\ DOMAIN users' = Writer
                  /\ renewed' = renewed \union {m} /\ parted' = parted \union {T}
  <2>1. ~told => Saved(desk') /\ desk' = [desk EXCEPT !.at = "recreate", !.topic = NoTopic]
    BY Zenon DEF MessageForwarded
  <2>2. ~told => desk' = [at |-> "recreate", who |-> desk.who, status |-> desk.status,
                          topic |-> NoTopic, msg |-> m]
    BY <2>1, DeskFields
  <2>3. ~told => /\ \A v \in Writer : users'[v] = IF v \in desk.who
                       THEN [status |-> desk.status, topic |-> NoTopic] ELSE users[v]
                 /\ DOMAIN users' = Writer
    BY <2>1, <2>2 DEF Saved
  <2> QED
    BY <2>2, <2>3, Excused DEF MessageForwarded
<1>2. PICK u \in Writer : desk.who = {u} /\ owner[T] = u /\ T # NoTopic /\ T \in Topic
                     /\ users[u].topic \in {NoTopic, T} \union parted
                     /\ T \in {users[u].topic} \union parted
  BY <1>1 DEF TopicInv, DeskStage
<1>3. /\ m \in DOMAIN shown /\ shown' \in Seq(Seq(Nat)) /\ DOMAIN shown' = DOMAIN shown
      /\ \A l \in DOMAIN shown : l # m => shown'[l] = shown[l]
      /\ \A l \in DOMAIN shown : \A t : ReadIn(l, t)' => ReadIn(l, t) \/ (l = m /\ t = T)
      /\ Posted(o, T) /\ o # "refused" => shown'[m] # <<>>
      /\ o = "done" /\ shown[m] = <<>> => Len(shown'[m]) <= 1
  BY <1>1, ShownStep DEF MessageForwarded, Forwarded
<1>4. /\ shown[m] = <<>> /\ m \notin renewed /\ m \in logged[T]
  BY <1>1, <1>2 DEF TopicInv, DeskMessage
<1>5. Topic' = Topic /\ parted \subseteq parted' /\ parted' \subseteq Topic /\ renewed \subseteq renewed'
      /\ Topic \subseteq Nat /\ 0 \notin Topic
  BY <1>1, <1>2 DEF Topic, TopicInv, TopicData
<1>6. \A v \in Writer : users'[v] = users[v] \/ (v = u /\ users'[v].topic = NoTopic)
  BY <1>1, <1>2 DEF Saved, TopicInv, TopicData
<1>7. users' \in [Writer -> [status : {"away", "support"}, topic : {NoTopic} \union Topic]]
  <2>1. users \in [Writer -> [status : {"away", "support"}, topic : {NoTopic} \union Topic]]
        /\ desk.status \in {"away", "support"}
    BY DEF TopicInv, TopicData, DeskStage
  <2>2. CASE told
    BY <1>1, <2>1, <2>2
  <2>3. CASE ~told
    <3>1. \A v \in Writer : users'[v] \in [status : {"away", "support"}, topic : {NoTopic} \union Topic]
      BY <1>1, <2>1, <2>3
    <3>2. users' = [v \in Writer |-> users'[v]]
      BY <2>3, Zenon DEF MessageForwarded, Saved
    <3> QED
      BY <3>1, <3>2
  <2> QED
    BY <2>2, <2>3
<1>8. TopicData'
  BY <1>1, <1>2, <1>3, <1>5, <1>7 DEF TopicInv, TopicData, General
<1>9. DeskStage'
  <2>1. CASE told
    BY <1>1, <1>5, <2>1 DEF DeskStage, AtDesk, NoTopic
  <2>2. CASE ~told
    <3>1. desk'.at = "recreate" /\ desk'.who = {u} /\ desk'.topic = NoTopic /\ desk'.msg = m
      BY <1>1, <1>2, <2>2
    <3>2. desk' \in [at : {"idle", "create", "forward", "recreate", "post", "repost", "again", "log", "close"},
                     who : SUBSET Writer, status : {"away", "support"}, topic : {NoTopic} \union Topic',
                     msg : {0} \union DOMAIN shown']
      BY <1>1, <1>3, <2>2 DEF TopicInv, DeskStage
    <3>3. users'[u].topic = NoTopic
      BY <1>1, <1>2, <2>2
    <3> QED
      BY <1>3, <3>1, <3>2, <3>3 DEF DeskStage
  <2> QED
    BY <2>1, <2>2
<1>10. DeskMessage'
  <2>1. CASE told
    BY <1>1, <2>1 DEF DeskMessage, AtDesk
  <2>2. CASE ~told
    BY <1>1, <2>2 DEF DeskMessage
  <2> QED
    BY <2>1, <2>2
<1>11. RowsOwn'
  <2>1. ASSUME NEW v \in Writer, users'[v].topic # NoTopic
        PROVE  owner[users'[v].topic] = v /\ users'[v].topic \notin parted' \ restored
    <3>1. users'[v] = users[v]
      BY <1>6, <2>1
    <3>2. owner[users[v].topic] = v /\ users[v].topic \notin parted \ restored
      BY <2>1, <3>1 DEF TopicInv, RowsOwn
    <3>3. CASE told
      BY <1>1, <3>1, <3>2, <3>3
    <3>4. CASE ~told
      BY <1>1, <1>2, <1>6, <2>1, <3>1, <3>2, <3>4
    <3> QED
      BY <3>3, <3>4
  <2> QED
    BY <1>1, <2>1 DEF RowsOwn
<1>12. NothingUnread'
  <2>1. ASSUME NEW l \in DOMAIN shown, l # desk'.msg, l \notin excused', shown'[l] = <<>>
        PROVE  l \in (Long \union Media) \ renewed'
    <3>1. CASE l = m
      <4>1. o = "done" /\ told
        BY <1>1, <2>1, <3>1 DEF Told
      <4>2. Posted(o, T)
        BY <1>1, <4>1 DEF MessageForwarded, Forwarded
      <4> QED
        BY <1>3, <2>1, <3>1, <4>1, <4>2
    <3>2. CASE l # m
      BY <1>1, <1>3, <2>1, <3>2 DEF TopicInv, NothingUnread, Handled
    <3> QED
      BY <3>1, <3>2
  <2> QED
    BY <1>3, <2>1 DEF NothingUnread, Handled
<1>13. ShownOnce'
  BY <1>1, <1>3, <1>4 DEF TopicInv, ShownOnce
<1>14. ReadAreLogged'
  BY <1>1, <1>3, <1>4, <1>5 DEF TopicInv, ReadAreLogged
<1>15. ReadAreOwned'
  <2>1. ASSUME NEW t \in Topic, NEW l \in DOMAIN shown, ReadIn(l, t)'
        PROVE  t \in parted' \/ \E v \in Writer : users'[v].topic = t
    <3>1. t \in parted \/ \E v \in Writer : users[v].topic = t
      BY <1>2, <1>3, <2>1 DEF TopicInv, ReadAreOwned
    <3>2. CASE told
      BY <1>1, <3>1, <3>2
    <3>3. CASE ~told
      BY <1>1, <1>2, <1>6, <3>1, <3>3 DEF Saved
    <3> QED
      BY <3>2, <3>3
  <2> QED
    BY <1>3, <1>5, <2>1 DEF ReadAreOwned
<1>16. ArchivesAre'
  <2>1. desk'.topic \in {NoTopic, T} /\ \A v \in Writer : users'[v].topic \in {NoTopic, T, users[v].topic}
    BY <1>1, <1>6 DEF AtDesk
  <2> QED
    BY <1>1, <1>3, <1>5, <2>1, ArchiveKept
<1>17. UnheardAreParted'
  BY <1>1, <1>5 DEF TopicInv, UnheardAreParted
<1>18. CopiesOwn'
  <2>1. \A v \in Writer : users'[v].topic = users[v].topic \/ users[v].topic \in {NoTopic} \union parted'
    BY <1>1, <1>2, <1>6
  <2> QED
    BY <1>1, <1>5, <2>1, CopiesKept
<1> QED
  BY <1>8, <1>9, <1>10, <1>11, <1>12, <1>13, <1>14, <1>15, <1>16, <1>17, <1>18 DEF TopicInv

\* Where only a row's status changes.
LEMMA StatusKept ==
  ASSUME TopicInv, \A v \in Writer : users'[v].topic = users[v].topic,
         users' \in [Writer -> [status : {"away", "support"}, topic : {NoTopic} \union Topic]],
         UNCHANGED <<owner, forum, shown, logged, archive, desk, excused, renewed, parted, unheard,
                     copied, restored>>
  PROVE  TopicInv'
<1>1. TopicData' /\ CopiesOwn'
  BY DEF TopicInv, TopicData, CopiesOwn, Topic, ReadIn
<1>2. DeskStage' /\ DeskMessage'
  BY DEF TopicInv, DeskStage, DeskMessage, Topic, ReadIn
<1>3. RowsOwn' /\ ReadAreOwned'
  BY DEF TopicInv, RowsOwn, ReadAreOwned, Topic, ReadIn
<1>4. NothingUnread' /\ ShownOnce' /\ ReadAreLogged' /\ ArchivesAre' /\ UnheardAreParted'
  BY DEF TopicInv, NothingUnread, Handled, ShownOnce, ReadAreLogged, ArchivesAre, UnheardAreParted, Topic,
         ReadIn
<1> QED
  BY <1>1, <1>2, <1>3, <1>4 DEF TopicInv

LEMMA StatusStepsKept ==
  ASSUME TopicInv, (\E u \in Writer : SupportAsked(u)) \/ RepairReads \/ RepairSets
  PROVE  TopicInv'
<1>1. users \in [Writer -> [status : {"away", "support"}, topic : {NoTopic} \union Topic]]
  BY DEF TopicInv, TopicData
<1>2. CASE \E u \in Writer : SupportAsked(u)
  BY <1>1, <1>2, StatusKept DEF SupportAsked
<1>3. CASE RepairReads
  BY <1>1, <1>3, StatusKept DEF RepairReads
<1>4. CASE RepairSets
  BY <1>1, <1>4, StatusKept DEF RepairSets
<1> QED
  BY <1>2, <1>3, <1>4

LEMMA MessageComesKept ==
  ASSUME TopicInv, NEW u \in Writer, MessageComes(u)
  PROVE  TopicInv'
<1> DEFINE n == Len(shown)
           T == users[u].topic
<1>1. /\ desk = AtDesk /\ shown' = Append(shown, <<>>)
      /\ desk' = [at |-> IF T = NoTopic THEN "create" ELSE "forward", who |-> {u},
                  status |-> "support", topic |-> T, msg |-> n + 1]
      /\ Logged(n + 1, T)
      /\ UNCHANGED <<users, owner, forum, archive, repairing, excused, renewed, parted, unheard, copied, restored, lapses>>
  BY DEF MessageComes
<1>2. /\ n \in Nat /\ DOMAIN shown = 1..n /\ shown \in Seq(Seq(Nat))
      /\ shown \in [1..n -> Seq(Nat)] /\ <<>> \in Seq(Nat)
  BY LenProperties DEF TopicInv, TopicData
<1>3. /\ shown' \in Seq(Seq(Nat)) /\ Len(shown') = n + 1 /\ shown'[n + 1] = <<>>
      /\ \A l \in 1..n : shown'[l] = shown[l]
  BY <1>1, <1>2, AppendProperties
<1> HIDE DEF n
<1>4. DOMAIN shown' = 1..(n + 1)
  BY <1>3, LenProperties
<1>5. \A l \in DOMAIN shown' : \A t : ReadIn(l, t)' => l \in DOMAIN shown /\ ReadIn(l, t)
  <2>1. ASSUME NEW l \in DOMAIN shown', NEW t, ReadIn(l, t)' PROVE l \in DOMAIN shown /\ ReadIn(l, t)
    <3>1. PICK i \in DOMAIN shown'[l] : shown'[l][i] = t
      BY <2>1 DEF ReadIn
    <3>2. l # n + 1
      BY <1>3, <3>1
    <3>3. l \in 1..n
      BY <1>2, <1>4, <3>2
    <3> QED
      BY <1>2, <1>3, <3>1, <3>3 DEF ReadIn
  <2> QED
    BY <2>1
<1>6. DOMAIN shown \subseteq DOMAIN shown' /\ n + 1 \notin DOMAIN shown /\ n + 1 # 0
      /\ DOMAIN shown' = DOMAIN shown \union {n + 1}
  BY <1>2, <1>4
<1>7. Topic' = Topic /\ Topic \subseteq Nat /\ 0 \notin Topic /\ T \in {NoTopic} \union Topic
      /\ users[u] \in [status : {"away", "support"}, topic : {NoTopic} \union Topic]
  BY <1>1 DEF Topic, TopicInv, TopicData
<1>8. /\ logged' \in [Topic -> SUBSET DOMAIN shown'] /\ \A t \in Topic : logged[t] \subseteq logged'[t]
      /\ T # NoTopic => n + 1 \in logged'[T]
  BY <1>1, <1>6, <1>7 DEF Logged, TopicInv, TopicData
<1>9. TopicData'
  BY <1>1, <1>3, <1>5, <1>7, <1>8 DEF TopicInv, TopicData
<1>10. DeskStage'
  <2>1. T # NoTopic => owner[T] = u
    BY DEF TopicInv, RowsOwn
  <2>2. /\ desk'.at \in {"create", "forward"} /\ desk'.who = {u} /\ desk'.topic = T /\ desk'.msg = n + 1
        /\ (desk'.at = "create" <=> T = NoTopic)
    BY <1>1
  <2>3. desk' \in [at : {"idle", "create", "forward", "recreate", "post", "repost", "again", "log", "close"},
                   who : SUBSET Writer, status : {"away", "support"}, topic : {NoTopic} \union Topic',
                   msg : {0} \union DOMAIN shown']
    BY <1>1, <1>6, <1>7
  <2> QED
    BY <1>1, <1>6, <2>1, <2>2, <2>3 DEF DeskStage
<1>11. DeskMessage'
  <2>1. n + 1 \notin renewed
    BY <1>6 DEF TopicInv, TopicData
  <2> QED
    BY <1>1, <1>3, <1>8, <2>1 DEF DeskMessage
<1>12. RowsOwn' /\ UnheardAreParted' /\ CopiesOwn'
  BY <1>1, <1>7, CopiesKept DEF TopicInv, RowsOwn, UnheardAreParted
<1>13. NothingUnread'
  BY <1>1, <1>2, <1>3, <1>6 DEF TopicInv, NothingUnread, Handled, AtDesk
<1>14. ShownOnce'
  BY <1>1, <1>2, <1>3, <1>6 DEF TopicInv, ShownOnce
<1>15. ReadAreLogged'
  BY <1>1, <1>5, <1>7, <1>8 DEF TopicInv, ReadAreLogged, AtDesk
<1>16. ReadAreOwned'
  BY <1>1, <1>5, <1>7 DEF TopicInv, ReadAreOwned
<1>17. ArchivesAre'
  BY <1>1, <1>5, <1>7 DEF TopicInv, ArchivesAre, AtDesk
<1> QED
  BY <1>9, <1>10, <1>11, <1>12, <1>13, <1>14, <1>15, <1>16, <1>17 DEF TopicInv

\* A message a prompt takes is shown to nobody.
LEMMA MessageTakenKept ==
  ASSUME TopicInv, NEW u \in Writer, MessageTaken(u)
  PROVE  TopicInv'
<1> DEFINE n == Len(shown)
<1>1. /\ desk = AtDesk /\ shown' = Append(shown, <<>>) /\ excused' = excused \union {n + 1}
      /\ UNCHANGED <<users, owner, forum, logged, archive, desk, repairing, renewed, parted, unheard,
                     copied, restored>>
  BY DEF MessageTaken
<1>2. /\ n \in Nat /\ DOMAIN shown = 1..n /\ shown \in Seq(Seq(Nat))
      /\ shown \in [1..n -> Seq(Nat)] /\ <<>> \in Seq(Nat)
  BY LenProperties DEF TopicInv, TopicData
<1>3. /\ shown' \in Seq(Seq(Nat)) /\ Len(shown') = n + 1 /\ shown'[n + 1] = <<>>
      /\ \A l \in 1..n : shown'[l] = shown[l]
  BY <1>1, <1>2, AppendProperties
<1> HIDE DEF n
<1>4. DOMAIN shown' = 1..(n + 1)
  BY <1>3, LenProperties
<1>5. \A l \in DOMAIN shown' : \A t : ReadIn(l, t)' => l \in DOMAIN shown /\ ReadIn(l, t)
  <2>1. ASSUME NEW l \in DOMAIN shown', NEW t, ReadIn(l, t)' PROVE l \in DOMAIN shown /\ ReadIn(l, t)
    <3>1. PICK i \in DOMAIN shown'[l] : shown'[l][i] = t
      BY <2>1 DEF ReadIn
    <3>2. l # n + 1
      BY <1>3, <3>1
    <3>3. l \in 1..n
      BY <1>2, <1>4, <3>2
    <3> QED
      BY <1>2, <1>3, <3>1, <3>3 DEF ReadIn
  <2> QED
    BY <2>1
<1>6. DOMAIN shown \subseteq DOMAIN shown' /\ DOMAIN shown' = DOMAIN shown \union {n + 1}
  BY <1>2, <1>4
<1>7. Topic' = Topic
  BY <1>1 DEF Topic
<1>8. TopicData'
  <2>1. logged' \in [Topic -> SUBSET DOMAIN shown']
    BY <1>1, <1>6 DEF TopicInv, TopicData
  <2> QED
    BY <1>1, <1>3, <1>5, <1>6, <1>7, <2>1 DEF TopicInv, TopicData
<1>9. DeskStage' /\ DeskMessage'
  BY <1>1, <1>7 DEF DeskStage, DeskMessage, AtDesk, NoTopic
<1>10. RowsOwn' /\ UnheardAreParted' /\ CopiesOwn'
  BY <1>1, <1>7, CopiesKept DEF TopicInv, RowsOwn, UnheardAreParted
<1>11. NothingUnread' /\ ShownOnce'
  BY <1>1, <1>2, <1>3, <1>6 DEF TopicInv, NothingUnread, ShownOnce, Handled, AtDesk
<1>12. ReadAreLogged' /\ ReadAreOwned'
  BY <1>1, <1>5, <1>7 DEF TopicInv, ReadAreLogged, ReadAreOwned, AtDesk
<1>13. ArchivesAre'
  BY <1>1, <1>5, <1>7 DEF TopicInv, ArchivesAre, AtDesk
<1> QED
  BY <1>8, <1>9, <1>10, <1>11, <1>12, <1>13 DEF TopicInv

LEMMA TopicCreatedKept ==
  ASSUME TopicInv, NEW o \in Outcome, TopicCreated(o)
  PROVE  TopicInv'
<1> DEFINE m == desk.msg
           n == Len(owner)
           k == Times(o)
           told == Told(o)
<1>1. /\ desk.at \in {"create", "recreate"} /\ desk.topic = NoTopic
      /\ excused \subseteq excused' /\ excused' \subseteq excused \union {m}
      /\ o # "done" => m \in excused'
      /\ n + k <= MaxTopics
      /\ UNCHANGED <<users, shown, repairing, renewed, parted, unheard, copied, restored>>
  BY Excused DEF TopicCreated, TopicInv, DeskStage
<1>2. PICK u \in Writer : desk.who = {u} /\ users[u].topic \in {NoTopic} \union parted
  BY <1>1 DEF TopicInv, DeskStage
<1>3. /\ owner' = owner \o Copies(o, u) /\ forum' = forum \o Copies(o, "open")
      /\ logged' = logged \o Copies(o, {}) /\ archive' = archive \o Copies(o, {})
  BY <1>2 DEF TopicCreated
<1>4. /\ n \in Nat /\ Topic = 1..n /\ owner \in [1..n -> Writer]
      /\ forum \in [1..n -> {"open", "closed", "gone"}]
      /\ logged \in [1..n -> SUBSET DOMAIN shown] /\ archive \in [1..n -> SUBSET SUBSET Nat]
      /\ parted \subseteq Topic /\ unheard \subseteq Topic
      /\ restored \subseteq Topic
  BY DEF TopicInv, TopicData
<1>5. /\ Grown(owner', owner, n, Writer, u, o)
      /\ Grown(forum', forum, n, {"open", "closed", "gone"}, "open", o)
      /\ Grown(logged', logged, n, SUBSET DOMAIN shown, {}, o)
      /\ Grown(archive', archive, n, SUBSET SUBSET Nat, {}, o)
  <2>1. "open" \in {"open", "closed", "gone"} /\ {} \in SUBSET DOMAIN shown /\ {} \in SUBSET SUBSET Nat
    OBVIOUS
  <2> HIDE DEF n
  <2>2. Grown(owner \o Copies(o, u), owner, n, Writer, u, o)
    BY <1>4, CopiesGrow, Zenon
  <2>3. Grown(forum \o Copies(o, "open"), forum, n, {"open", "closed", "gone"}, "open", o)
    BY <1>4, <2>1, CopiesGrow, Zenon
  <2>4. Grown(logged \o Copies(o, {}), logged, n, SUBSET DOMAIN shown, {}, o)
    BY <1>4, <2>1, CopiesGrow, Zenon
  <2>5. Grown(archive \o Copies(o, {}), archive, n, SUBSET SUBSET Nat, {}, o)
    BY <1>4, <2>1, CopiesGrow, Zenon
  <2> QED
    BY <1>3, <2>2, <2>3, <2>4, <2>5
<1> HIDE DEF n
<1>6. /\ k \in Nat /\ (o = "refused" <=> k = 0)
      /\ owner' \in [1..(n + k) -> Writer] /\ \A t \in 1..n : owner'[t] = owner[t]
      /\ \A t \in (n + 1)..(n + k) : owner'[t] = u
  BY <1>5 DEF Grown
<1>7. /\ forum' \in [1..(n + k) -> {"open", "closed", "gone"}] /\ \A t \in 1..n : forum'[t] = forum[t]
      /\ \A t \in (n + 1)..(n + k) : forum'[t] = "open"
  BY <1>5 DEF Grown
<1>8. /\ logged' \in [1..(n + k) -> SUBSET DOMAIN shown] /\ \A t \in 1..n : logged'[t] = logged[t]
      /\ archive' \in [1..(n + k) -> SUBSET SUBSET Nat] /\ \A t \in 1..n : archive'[t] = archive[t]
      /\ \A t \in (n + 1)..(n + k) : archive'[t] = {}
  BY <1>5 DEF Grown
<1> HIDE DEF k
<1>9. Len(owner') = n + k /\ Topic' = 1..(n + k) /\ n + k \in Nat
  <2> DEFINE l == n + k
  <2>1. l \in Nat /\ owner' \in [1..l -> Writer]
    BY <1>4, <1>6
  <2> HIDE DEF l
  <2>2. Len(owner') = l /\ DOMAIN owner' = 1..l
    BY <2>1, FunctionIsList
  <2> QED
    BY <2>1, <2>2 DEF l, Topic
<1>10. Topic \subseteq Topic' /\ Topic' \ Topic = (n + 1)..(n + k) /\ 0 \notin Topic'
  BY <1>4, <1>6, <1>9
<1>11. /\ desk' = [at |-> IF desk.at = "create" THEN "post" ELSE "repost", who |-> desk.who,
                   status |-> desk.status, topic |-> IF told THEN n + k ELSE NoTopic, msg |-> m]
  <2>1. desk' = [desk EXCEPT !.at = IF @ = "create" THEN "post" ELSE "repost",
                             !.topic = IF told THEN Len(owner') ELSE NoTopic]
    BY Zenon DEF TopicCreated
  <2>2. desk' = [desk EXCEPT !.at = IF desk.at = "create" THEN "post" ELSE "repost",
                             !.topic = IF told THEN Len(owner') ELSE NoTopic]
    BY <2>1
  <2> QED
    BY <1>9, <2>2, DeskFields
<1>12. told => n + k \in Topic' \ Topic
  BY <1>4, <1>6, <1>9 DEF Told
<1>13. \A l, t : ReadIn(l, t)' <=> ReadIn(l, t)
  BY <1>1 DEF ReadIn
<1>14. \A l \in DOMAIN shown : \A t \in Topic' : ReadIn(l, t) => t \in Topic
  BY <1>10 DEF TopicInv, TopicData, General
<1>15. TopicData'
  <2>1. users' \in [Writer -> [status : {"away", "support"}, topic : {NoTopic} \union Topic']]
    BY <1>1, <1>10 DEF TopicInv, TopicData
  <2>2. \A l \in DOMAIN shown' : \A t : ReadIn(l, t)' => t \in {General} \union Topic'
    BY <1>1, <1>10, <1>13 DEF TopicInv, TopicData
  <2>3. shown' \in Seq(Seq(Nat)) /\ parted' \subseteq Topic' /\ unheard' \subseteq Topic'
        /\ restored' \subseteq Topic' /\ renewed' \subseteq DOMAIN shown'
    BY <1>1, <1>4, <1>10 DEF TopicInv, TopicData
  <2>4. Len(owner') \in Nat /\ Len(owner') <= MaxTopics
    BY <1>1, <1>9 DEF n, k
  <2> QED
    BY <1>1, <1>6, <1>7, <1>8, <1>9, <2>1, <2>2, <2>3, <2>4 DEF TopicData
<1>16. DeskStage'
  <2>1. desk' \in [at : {"idle", "create", "forward", "recreate", "post", "repost", "again", "log", "close"},
                   who : SUBSET Writer, status : {"away", "support"}, topic : {NoTopic} \union Topic',
                   msg : {0} \union DOMAIN shown']
    BY <1>1, <1>11, <1>12 DEF TopicInv, DeskStage
  <2>2. /\ desk'.at \in {"post", "repost"} /\ desk'.who = {u} /\ desk'.msg = m /\ m \in DOMAIN shown'
        /\ desk'.topic \in {NoTopic} \union (Topic' \ Topic)
    BY <1>1, <1>2, <1>11, <1>12 DEF TopicInv, DeskStage
  <2>3. /\ desk'.topic \notin parted'
        /\ desk'.topic # NoTopic => owner'[desk'.topic] = u /\ forum'[desk'.topic] = "open"
    BY <1>1, <1>4, <1>6, <1>7, <1>10, <2>2 DEF NoTopic
  <2> QED
    BY <1>1, <1>2, <2>1, <2>2, <2>3 DEF DeskStage
<1>17. DeskMessage'
  <2>1. /\ desk'.msg = m /\ (desk'.at = "post" <=> desk.at = "create")
        /\ (desk'.at = "repost" <=> desk.at = "recreate") /\ desk'.at \in {"post", "repost"}
        /\ (desk'.topic = NoTopic => ~told)
    BY <1>1, <1>10, <1>11, <1>12 DEF NoTopic
  <2>2. desk'.topic = NoTopic => m \in excused'
    BY <1>1, <2>1 DEF Told
  <2> QED
    BY <1>1, <2>1, <2>2 DEF TopicInv, DeskMessage
<1>18. RowsOwn' /\ UnheardAreParted' /\ CopiesOwn'
  BY <1>1, <1>4, <1>6, <1>10, CopiesKept DEF TopicInv, RowsOwn, UnheardAreParted, TopicData
<1>19. NothingUnread' /\ ShownOnce'
  BY <1>1, <1>11 DEF TopicInv, NothingUnread, ShownOnce, Handled
<1>20. ReadAreLogged'
  BY <1>1, <1>4, <1>8, <1>13, <1>14 DEF TopicInv, ReadAreLogged
<1>21. ReadAreOwned'
  BY <1>1, <1>13, <1>14 DEF TopicInv, ReadAreOwned
<1>22. ArchivesAre'
  <2>1. ASSUME NEW t \in Topic \ restored, NEW log \in archive[t]
        PROVE  /\ desk'.topic # t /\ \A v \in Writer : users[v].topic # t
               /\ \A l \in DOMAIN shown \ Media :
                    ReadIn(l, t) => l \in log \union renewed \union excused
    <3>1. desk'.topic # t
      BY <1>10, <1>11, <1>12, <2>1 DEF NoTopic
    <3>2. desk.topic # t
      BY <1>1, <1>10, <2>1 DEF NoTopic
    <3> QED
      BY <2>1, <3>1, <3>2 DEF TopicInv, ArchivesAre
  <2> QED
    BY <1>1, <1>4, <1>8, <1>10, <1>13, <2>1 DEF ArchivesAre
<1> QED
  BY <1>15, <1>16, <1>17, <1>18, <1>19, <1>20, <1>21, <1>22 DEF TopicInv

\* The post that opens a ticket, and the row with its topic.
LEMMA TicketPostedKept ==
  ASSUME TopicInv, NEW o \in Outcome, TicketPosted(o)
  PROVE  TopicInv'
<1> DEFINE m == desk.msg
           T == desk.topic
<1>1. /\ desk.at = "post" /\ excused \subseteq excused' /\ excused' \subseteq excused \union {m}
      /\ o # "done" => m \in excused'
      /\ desk' = [desk EXCEPT !.at = "log"]
      /\ UNCHANGED <<owner, forum, logged, archive, repairing, renewed, parted, unheard, copied, restored>>
  BY Excused DEF TicketPosted, DeskAt
<1>2. PICK u \in Writer : desk.who = {u} /\ users[u].topic \in {NoTopic} \union parted
                     /\ (T # NoTopic => owner[T] = u)
  BY <1>1 DEF TopicInv, DeskStage
<1>3. /\ m \in DOMAIN shown /\ shown' \in Seq(Seq(Nat)) /\ DOMAIN shown' = DOMAIN shown
      /\ \A l \in DOMAIN shown : l # m => shown'[l] = shown[l]
      /\ \A l \in DOMAIN shown : \A t : ReadIn(l, t)' => ReadIn(l, t) \/ (l = m /\ t = T)
      /\ Posted(o, T) /\ o # "refused" => shown'[m] # <<>>
      /\ o = "done" /\ shown[m] = <<>> => Len(shown'[m]) <= 1
  BY <1>1, ShownStep DEF TicketPosted, InText
<1>4. /\ shown[m] = <<>> /\ m \notin renewed /\ (T = NoTopic => m \in excused)
      /\ T # NoTopic => T \notin parted /\ T \in Topic
  BY <1>1 DEF TopicInv, DeskMessage, DeskStage
<1>5. Topic' = Topic /\ Topic \subseteq Nat /\ 0 \notin Topic
  BY <1>1 DEF Topic, TopicInv, TopicData
<1>6. users \in [Writer -> [status : {"away", "support"}, topic : {NoTopic} \union Topic]]
      /\ desk.status \in {"away", "support"}
  BY DEF TopicInv, TopicData, DeskStage
<1>7. /\ \A v \in Writer : v # u => users'[v] = users[v]
      /\ users'[u].topic = IF T = NoTopic THEN users[u].topic ELSE T
      /\ users' \in [Writer -> [status : {"away", "support"}, topic : {NoTopic} \union Topic]]
  <2>1. CASE T = NoTopic
    BY <1>2, <1>6, <2>1 DEF TicketPosted
  <2>2. CASE T # NoTopic
    BY <1>2, <1>4, <1>6, <2>2 DEF TicketPosted, Saved
  <2> QED
    BY <2>1, <2>2
<1>8. desk' \in [at : {"idle", "create", "forward", "recreate", "post", "repost", "again", "log", "close"},
                 who : SUBSET Writer, status : {"away", "support"}, topic : {NoTopic} \union Topic,
                 msg : {0} \union DOMAIN shown]
      /\ desk'.at = "log" /\ desk'.who = {u} /\ desk'.topic = T /\ desk'.msg = m
  BY <1>1, <1>2 DEF TopicInv, DeskStage
<1>9. TopicData'
  <2>1. \A l \in DOMAIN shown' : \A t : ReadIn(l, t)' => t \in {General} \union Topic'
    BY <1>3, <1>4, <1>5 DEF TopicInv, TopicData, NoTopic, General
  <2> QED
    BY <1>1, <1>3, <1>5, <1>7, <2>1 DEF TopicInv, TopicData
<1>10. DeskStage'
  BY <1>1, <1>2, <1>3, <1>5, <1>7, <1>8 DEF DeskStage
<1>11. DeskMessage'
  <2>1. \A t : ReadIn(m, t)' => t = T
    <3>1. PICK k : k = m
      OBVIOUS
    <3>2. \A t : ~ReadIn(k, t)
      BY <1>4, <3>1 DEF ReadIn
    <3>3. \A t : ReadIn(k, t)' => t = T
      BY <1>3, <3>1, <3>2
    <3> QED
      BY <1>8, <3>1, <3>3
  <2>2. shown'[m] = <<>> => m \in Long \union Media \union excused'
    BY <1>1, <1>3 DEF TicketPosted, InText
  <2> QED
    BY <1>1, <1>4, <1>8, <2>1, <2>2 DEF DeskMessage, ReadIn
<1>12. RowsOwn'
  BY <1>1, <1>2, <1>4, <1>7 DEF TopicInv, RowsOwn
<1>13. NothingUnread'
  BY <1>1, <1>3, <1>8 DEF TopicInv, NothingUnread, Handled
<1>14. ShownOnce'
  BY <1>1, <1>3, <1>4 DEF TopicInv, ShownOnce
<1>15. ReadAreLogged'
  BY <1>1, <1>3, <1>5, <1>8 DEF TopicInv, ReadAreLogged
<1>16. ReadAreOwned'
  <2>1. ASSUME NEW t \in Topic, NEW l \in DOMAIN shown, ReadIn(l, t)'
        PROVE  t \in parted \/ \E v \in Writer : users'[v].topic = t
    <3>1. CASE l = m /\ t = T
      BY <1>5, <1>7, <3>1 DEF NoTopic
    <3>2. CASE ReadIn(l, t)
      <4>1. t \in parted \/ \E v \in Writer : users[v].topic = t
        BY <3>2 DEF TopicInv, ReadAreOwned
      <4>2. users[u].topic = t => t \in parted
        BY <1>2, <1>5 DEF NoTopic
      <4> QED
        BY <1>7, <4>1, <4>2
    <3> QED
      BY <1>3, <2>1, <3>1, <3>2
  <2> QED
    BY <1>1, <1>3, <1>5, <2>1 DEF ReadAreOwned
<1>17. ArchivesAre'
  <2>1. desk'.topic \in {NoTopic, T} /\ \A v \in Writer : users'[v].topic \in {NoTopic, T, users[v].topic}
    BY <1>1, <1>7, <1>8 DEF AtDesk
  <2> QED
    BY <1>1, <1>3, <2>1, ArchiveKept
<1>18. UnheardAreParted' /\ CopiesOwn'
  BY <1>1, <1>2, <1>5, <1>7, CopiesKept DEF TopicInv, UnheardAreParted
<1> QED
  BY <1>9, <1>10, <1>11, <1>12, <1>13, <1>14, <1>15, <1>16, <1>17, <1>18 DEF TopicInv

LEMMA TicketLoggedKept ==
  ASSUME TopicInv, TicketLogged
  PROVE  TopicInv'
<1> DEFINE m == desk.msg
           T == desk.topic
<1>1. PICK u \in desk.who : desk' = AtDesk /\ Logged(m, users[u].topic) /\ desk.at = "log"
        /\ UNCHANGED <<users, owner, forum, shown, archive, repairing, excused, renewed, parted, unheard, copied, restored>>
  BY DEF TicketLogged
<1>2. u \in Writer /\ T \in {NoTopic, users[u].topic} \union parted /\ m \in DOMAIN shown /\ T \in {NoTopic} \union Topic
  BY <1>1 DEF TopicInv, DeskStage
<1>3. Topic' = Topic /\ Topic \subseteq Nat /\ 0 \notin Topic
  BY <1>1 DEF Topic, TopicInv, TopicData
<1>4. /\ logged' \in [Topic -> SUBSET DOMAIN shown] /\ \A t \in Topic : logged[t] \subseteq logged'[t]
      /\ T # NoTopic /\ T \notin parted => m \in logged'[T]
  BY <1>1, <1>2, <1>3 DEF Logged, TopicInv, TopicData
<1>5. \A l, t : ReadIn(l, t)' <=> ReadIn(l, t)
  BY <1>1 DEF ReadIn
<1>6. /\ m \notin renewed /\ \A t : ReadIn(m, t) => t = T
      /\ shown[m] = <<>> => m \in Long \union Media \union excused
  BY <1>1 DEF TopicInv, DeskMessage
<1>7. TopicData'
  BY <1>1, <1>3, <1>4, <1>5 DEF TopicInv, TopicData
<1>8. DeskStage' /\ DeskMessage'
  BY <1>1 DEF DeskStage, DeskMessage, AtDesk, NoTopic
<1>9. RowsOwn' /\ ShownOnce' /\ UnheardAreParted' /\ CopiesOwn'
  BY <1>1, <1>3, CopiesKept DEF TopicInv, RowsOwn, ShownOnce, UnheardAreParted
<1>10. NothingUnread'
  BY <1>1, <1>6 DEF TopicInv, NothingUnread, Handled
<1>11. ReadAreLogged'
  <2>1. ASSUME NEW t \in Topic \ parted, NEW l \in DOMAIN shown, ReadIn(l, t)
        PROVE  l \in logged'[t] \union renewed \union excused
    <3>1. CASE l = m
      BY <1>3, <1>4, <1>6, <2>1, <3>1 DEF NoTopic
    <3>2. CASE l # m
      BY <1>4, <2>1, <3>2 DEF TopicInv, ReadAreLogged
    <3> QED
      BY <3>1, <3>2
  <2> QED
    BY <1>1, <1>3, <1>5, <2>1 DEF ReadAreLogged
<1>12. ReadAreOwned'
  BY <1>1, <1>3, <1>5 DEF TopicInv, ReadAreOwned
<1>13. ArchivesAre'
  <2>1. ASSUME NEW t \in Topic \ restored, NEW log \in archive[t]
        PROVE  /\ t # NoTopic /\ \A v \in Writer : users[v].topic # t
               /\ \A l \in DOMAIN shown \ Media :
                    ReadIn(l, t) => l \in log \union renewed \union excused
    BY <1>1, <1>3, <2>1 DEF TopicInv, ArchivesAre, NoTopic
  <2> QED
    BY <1>1, <1>3, <1>5, <2>1 DEF ArchivesAre, AtDesk
<1> QED
  BY <1>7, <1>8, <1>9, <1>10, <1>11, <1>12, <1>13 DEF TopicInv

\* The first post of a topic made anew, and the row with it.
LEMMA TopicRepostedKept ==
  ASSUME TopicInv, NEW o \in Outcome, TopicReposted(o)
  PROVE  TopicInv'
<1> DEFINE m == desk.msg
           T == desk.topic
<1>1. /\ desk.at = "repost" /\ excused \subseteq excused' /\ excused' \subseteq excused \union {m}
      /\ o # "done" => m \in excused'
      /\ UNCHANGED <<owner, forum, logged, archive, repairing, renewed, parted, unheard, copied, restored>>
      /\ T = NoTopic => desk' = AtDesk /\ UNCHANGED users
      /\ T # NoTopic => desk' = [desk EXCEPT !.at = "again"] /\ Saved(desk)
  BY Excused DEF TopicReposted, DeskAt
<1>2. PICK u \in Writer : desk.who = {u} /\ users[u].topic \in {NoTopic} \union parted
                     /\ (T # NoTopic => owner[T] = u)
  BY <1>1 DEF TopicInv, DeskStage
<1>3. /\ m \in DOMAIN shown /\ shown' \in Seq(Seq(Nat)) /\ DOMAIN shown' = DOMAIN shown
      /\ \A l \in DOMAIN shown : l # m => shown'[l] = shown[l]
      /\ \A l \in DOMAIN shown : \A t : ReadIn(l, t)' => ReadIn(l, t) \/ (l = m /\ t = T)
  BY <1>1, ShownStep DEF TopicReposted, InText
<1>4. /\ m \in renewed /\ (T = NoTopic => m \in excused)
      /\ T # NoTopic => T \notin parted /\ T \in Topic /\ forum[T] # "gone"
  BY <1>1 DEF TopicInv, DeskMessage, DeskStage
<1>5. Topic' = Topic /\ Topic \subseteq Nat /\ 0 \notin Topic
  BY <1>1 DEF Topic, TopicInv, TopicData
<1>6. users \in [Writer -> [status : {"away", "support"}, topic : {NoTopic} \union Topic]]
      /\ desk.status \in {"away", "support"}
  BY DEF TopicInv, TopicData, DeskStage
<1>7. /\ \A v \in Writer : v # u => users'[v] = users[v]
      /\ users'[u].topic = IF T = NoTopic THEN users[u].topic ELSE T
      /\ users' \in [Writer -> [status : {"away", "support"}, topic : {NoTopic} \union Topic]]
  <2>1. CASE T = NoTopic
    BY <1>1, <1>2, <1>6, <2>1
  <2>2. CASE T # NoTopic
    BY <1>1, <1>2, <1>4, <1>6, <2>2 DEF Saved
  <2> QED
    BY <2>1, <2>2
<1>8. TopicData'
  <2>1. \A l \in DOMAIN shown' : \A t : ReadIn(l, t)' => t \in {General} \union Topic'
    BY <1>3, <1>4, <1>5 DEF TopicInv, TopicData, NoTopic, General
  <2> QED
    BY <1>1, <1>3, <1>5, <1>7, <2>1 DEF TopicInv, TopicData
<1>9. DeskStage' /\ DeskMessage'
  <2>1. CASE T = NoTopic
    BY <1>1, <2>1 DEF DeskStage, DeskMessage, AtDesk, NoTopic
  <2>2. CASE T # NoTopic
    <3>1. desk' \in [at : {"idle", "create", "forward", "recreate", "post", "repost", "again", "log", "close"},
                     who : SUBSET Writer, status : {"away", "support"}, topic : {NoTopic} \union Topic,
                     msg : {0} \union DOMAIN shown]
          /\ desk'.at = "again" /\ desk'.who = {u} /\ desk'.topic = T /\ desk'.msg = m
      BY <1>1, <1>2, <2>2 DEF TopicInv, DeskStage
    <3>2. DeskStage'
      BY <1>1, <1>2, <1>3, <1>4, <1>5, <1>7, <2>2, <3>1 DEF DeskStage
    <3>3. DeskMessage'
      BY <1>1, <1>4, <3>1 DEF DeskMessage
    <3> QED
      BY <3>2, <3>3
  <2> QED
    BY <2>1, <2>2
<1>10. RowsOwn'
  BY <1>1, <1>2, <1>4, <1>7 DEF TopicInv, RowsOwn
<1>11. NothingUnread'
  <2>1. desk'.msg = m \/ m \in excused'
    BY <1>1, <1>4 DEF TopicInv, DeskStage
  <2>2. ASSUME NEW l \in DOMAIN shown, l # desk'.msg, l \notin excused', shown'[l] = <<>>
        PROVE  l \in (Long \union Media) \ renewed'
    BY <1>1, <1>3, <2>1, <2>2 DEF TopicInv, NothingUnread, Handled
  <2> QED
    BY <1>3, <2>2 DEF NothingUnread, Handled
<1>12. ShownOnce'
  BY <1>1, <1>3, <1>4 DEF TopicInv, ShownOnce
<1>13. ReadAreLogged'
  BY <1>1, <1>3, <1>4, <1>5 DEF TopicInv, ReadAreLogged
<1>14. ReadAreOwned'
  <2>1. ASSUME NEW t \in Topic, NEW l \in DOMAIN shown, ReadIn(l, t)'
        PROVE  t \in parted \/ \E v \in Writer : users'[v].topic = t
    <3>1. CASE l = m /\ t = T
      BY <1>5, <1>7, <3>1 DEF NoTopic
    <3>2. CASE ReadIn(l, t)
      <4>1. t \in parted \/ \E v \in Writer : users[v].topic = t
        BY <3>2 DEF TopicInv, ReadAreOwned
      <4>2. users[u].topic = t => t \in parted
        BY <1>2, <1>5 DEF NoTopic
      <4> QED
        BY <1>7, <4>1, <4>2
    <3> QED
      BY <1>3, <2>1, <3>1, <3>2
  <2> QED
    BY <1>1, <1>3, <1>5, <2>1 DEF ReadAreOwned
<1>15. ArchivesAre'
  <2>1. desk'.topic \in {NoTopic, T} /\ \A v \in Writer : users'[v].topic \in {NoTopic, T, users[v].topic}
    <3>1. CASE T = NoTopic
      BY <1>1, <1>7, <3>1 DEF AtDesk
    <3>2. CASE T # NoTopic
      <4>1. desk'.topic = T
        BY <1>1, <3>2 DEF TopicInv, DeskStage
      <4> QED
        BY <1>7, <4>1
    <3> QED
      BY <3>1, <3>2
  <2> QED
    BY <1>1, <1>3, <2>1, ArchiveKept
<1>16. UnheardAreParted' /\ CopiesOwn'
  BY <1>1, <1>2, <1>5, <1>7, CopiesKept DEF TopicInv, UnheardAreParted
<1> QED
  BY <1>8, <1>9, <1>10, <1>11, <1>12, <1>13, <1>14, <1>15, <1>16 DEF TopicInv

\* The message itself, forwarded into the topic made anew for it.
LEMMA ForwardedAgainKept ==
  ASSUME TopicInv, NEW o \in Outcome, ForwardedAgain(o)
  PROVE  TopicInv'
<1> DEFINE m == desk.msg
           T == desk.topic
<1>1. /\ desk.at = "again" /\ excused \subseteq excused' /\ excused' \subseteq excused \union {m}
      /\ o # "done" => m \in excused'
      /\ UNCHANGED <<users, owner, forum, logged, archive, repairing, renewed, parted, unheard, copied, restored>>
      /\ desk' = AtDesk
  BY Excused DEF ForwardedAgain
<1>2. PICK u \in Writer : T \in parted \/ users[u].topic = T
  BY <1>1 DEF TopicInv, DeskStage
<1>3. /\ m \in DOMAIN shown /\ shown' \in Seq(Seq(Nat)) /\ DOMAIN shown' = DOMAIN shown
      /\ \A l \in DOMAIN shown : l # m => shown'[l] = shown[l]
      /\ \A l \in DOMAIN shown : \A t : ReadIn(l, t)' => ReadIn(l, t) \/ (l = m /\ t = T)
      /\ Posted(o, T) /\ o # "refused" => shown'[m] # <<>>
  BY <1>1, ShownStep DEF ForwardedAgain, Forwarded
<1>4. m \in renewed /\ T \in Topic /\ forum[T] # "gone"
  BY <1>1 DEF TopicInv, DeskMessage, DeskStage
<1>5. Topic' = Topic /\ Topic \subseteq Nat /\ 0 \notin Topic
  BY <1>1 DEF Topic, TopicInv, TopicData
<1>6. TopicData'
  <2>1. \A l \in DOMAIN shown' : \A t : ReadIn(l, t)' => t \in {General} \union Topic'
    BY <1>3, <1>4, <1>5 DEF TopicInv, TopicData
  <2> QED
    BY <1>1, <1>3, <1>5, <2>1 DEF TopicInv, TopicData
<1>7. DeskStage' /\ DeskMessage'
  BY <1>1 DEF DeskStage, DeskMessage, AtDesk, NoTopic
<1>8. RowsOwn' /\ UnheardAreParted' /\ CopiesOwn'
  BY <1>1, <1>5, CopiesKept DEF TopicInv, RowsOwn, UnheardAreParted
<1>9. NothingUnread'
  <2>1. m \in excused' \/ shown'[m] # <<>>
    BY <1>1, <1>3, <1>4 DEF ForwardedAgain, Forwarded
  <2>2. ASSUME NEW l \in DOMAIN shown, l \notin excused', shown'[l] = <<>>
        PROVE  l \in (Long \union Media) \ renewed'
    BY <1>1, <1>3, <2>1, <2>2 DEF TopicInv, NothingUnread, Handled
  <2> QED
    BY <1>3, <2>2 DEF NothingUnread, Handled
<1>10. ShownOnce'
  BY <1>1, <1>3, <1>4 DEF TopicInv, ShownOnce
<1>11. ReadAreLogged'
  BY <1>1, <1>3, <1>4, <1>5 DEF TopicInv, ReadAreLogged
<1>12. ReadAreOwned'
  BY <1>1, <1>2, <1>3, <1>5 DEF TopicInv, ReadAreOwned
<1>13. ArchivesAre'
  <2>1. desk'.topic = NoTopic
    BY <1>1 DEF AtDesk
  <2> QED
    BY <1>1, <1>3, <2>1, ArchiveKept
<1> QED
  BY <1>6, <1>7, <1>8, <1>9, <1>10, <1>11, <1>12, <1>13 DEF TopicInv

\* An answer into a topic of nobody, such a topic closed, any topic deleted.
LEMMA ForumStepKept ==
  ASSUME TopicInv, NEW t \in Topic,
         AdminAnswers(t) \/ TopicDeleted(t) \/ \E o \in Outcome : StrayClosed(t, o)
  PROVE  TopicInv'
<1>1. UNCHANGED <<users, owner, shown, logged, archive, desk, excused, renewed, parted, copied, restored>>
  BY DEF AdminAnswers, TopicDeleted, StrayClosed
<1>2. Topic' = Topic /\ \A l, s : ReadIn(l, s)' <=> ReadIn(l, s)
  BY <1>1 DEF Topic, ReadIn
<1>3. /\ forum' \in [Topic -> {"open", "closed", "gone"}]
      /\ forum' = forum \/ desk = AtDesk \/ (desk.at \in {"post", "repost", "again"} => t # desk.topic)
      /\ \A s \in Topic : s # t => forum'[s] = forum[s]
  BY DEF AdminAnswers, TopicDeleted, StrayClosed, TopicInv, TopicData
<1>4. unheard' \subseteq Topic /\ unheard' \subseteq parted
  <2>1. CASE AdminAnswers(t)
    <3>1. \A u \in Writer : users[u].topic # t
      BY <2>1 DEF AdminAnswers, UserOf
    <3>2. t \in parted
      BY <2>1, <3>1 DEF AdminAnswers, TopicInv, ReadAreOwned
    <3> QED
      BY <2>1, <3>2 DEF AdminAnswers, TopicInv, TopicData, UnheardAreParted
  <2>2. CASE UNCHANGED unheard
    BY <2>2 DEF TopicInv, TopicData, UnheardAreParted
  <2> QED
    BY <2>1, <2>2 DEF TopicDeleted, StrayClosed
<1>5. TopicData'
  BY <1>1, <1>2, <1>3, <1>4 DEF TopicInv, TopicData
<1>6. DeskStage'
  BY <1>1, <1>2, <1>3 DEF TopicInv, DeskStage, AtDesk
<1>7. CopiesOwn' /\ DeskMessage' /\ RowsOwn' /\ NothingUnread' /\ ShownOnce'
  BY <1>1, <1>2 DEF TopicInv, CopiesOwn, DeskMessage, RowsOwn, NothingUnread, ShownOnce, Handled, ReadIn
<1>8. ReadAreLogged' /\ ReadAreOwned' /\ ArchivesAre' /\ UnheardAreParted'
  BY <1>1, <1>2, <1>4 DEF TopicInv, ReadAreLogged, ReadAreOwned, ArchivesAre, UnheardAreParted
<1> QED
  BY <1>5, <1>6, <1>7, <1>8 DEF TopicInv

LEMMA NoMessageZero ==
  ASSUME TopicInv
  PROVE  DOMAIN shown \subseteq Nat /\ 0 \notin DOMAIN shown
<1>1. shown \in Seq(Seq(Nat))
  BY DEF TopicInv, TopicData
<1> QED
  BY <1>1, LenProperties

LEMMA CloseBeginsKept ==
  ASSUME TopicInv, NEW t \in Topic, NEW o \in Outcome, CloseBegins(t, o)
  PROVE  TopicInv'
<1>1. PICK u \in Writer :
        /\ users[u].topic = t /\ desk = AtDesk
        /\ archive' = [archive EXCEPT ![t] = IF LogRefused(t, o) THEN {} ELSE {logged[t] \ Media}]
        /\ desk' = [at |-> "close", who |-> {u}, status |-> users[u].status, topic |-> t, msg |-> 0]
        /\ users' = [users EXCEPT ![u].status = "away"]
        /\ UNCHANGED <<owner, forum, shown, logged, repairing, excused, renewed, parted, unheard, copied, restored>>
  BY DEF CloseBegins, UserOf
<1>2. Topic' = Topic /\ Topic \subseteq Nat /\ 0 \notin Topic
      /\ \A l, s : ReadIn(l, s)' <=> ReadIn(l, s)
  BY <1>1 DEF Topic, ReadIn, TopicInv, TopicData
<1>3. /\ users' \in [Writer -> [status : {"away", "support"}, topic : {NoTopic} \union Topic]]
      /\ \A v \in Writer : users'[v].topic = users[v].topic
      /\ users[u].status \in {"away", "support"}
  BY <1>1 DEF TopicInv, TopicData
<1>4. DOMAIN shown \subseteq Nat
  BY NoMessageZero
<1>5. /\ archive' \in [Topic -> SUBSET SUBSET Nat]
      /\ \A s \in Topic : s # t => archive'[s] = archive[s]
      /\ archive'[t] \subseteq {logged[t] \ Media}
  BY <1>1, <1>4 DEF TopicInv, TopicData
<1>6. owner[t] = u /\ t # NoTopic /\ t \notin parted \ restored
  BY <1>1, <1>2 DEF TopicInv, RowsOwn, NoTopic
<1>7. TopicData'
  BY <1>1, <1>2, <1>3, <1>5 DEF TopicInv, TopicData
<1>8. DeskStage'
  <2>1. desk' \in [at : {"idle", "create", "forward", "recreate", "post", "repost", "again", "log", "close"},
                   who : SUBSET Writer, status : {"away", "support"}, topic : {NoTopic} \union Topic,
                   msg : {0} \union DOMAIN shown]
        /\ desk'.at = "close" /\ desk'.who = {u} /\ desk'.topic = t /\ desk'.msg = 0
    BY <1>1, <1>3
  <2> QED
    BY <1>1, <1>2, <1>3, <1>6, <2>1 DEF DeskStage
<1>9. DeskMessage' /\ ShownOnce' /\ UnheardAreParted' /\ CopiesOwn'
  BY <1>1, <1>2, <1>3, CopiesKept DEF TopicInv, DeskMessage, ShownOnce, UnheardAreParted
<1>10. RowsOwn' /\ NothingUnread'
  BY <1>1, <1>3 DEF TopicInv, RowsOwn, NothingUnread, Handled, AtDesk
<1>11. ReadAreLogged' /\ ReadAreOwned'
  BY <1>1, <1>2, <1>3 DEF TopicInv, ReadAreLogged, ReadAreOwned, AtDesk
<1>12. ArchivesAre'
  <2>1. t \notin restored =>
          \A l \in DOMAIN shown : ReadIn(l, t) => l \in logged[t] \union renewed \union excused
    BY <1>1, <1>6 DEF TopicInv, ReadAreLogged, AtDesk
  <2>2. ASSUME NEW s \in Topic \ restored, NEW log \in archive'[s]
        PROVE  /\ s # t => \A v \in Writer : users[v].topic # s
               /\ \A l \in DOMAIN shown \ Media : ReadIn(l, s) => l \in log \union renewed \union excused
    <3>1. CASE s = t
      BY <1>5, <2>1, <2>2, <3>1
    <3>2. CASE s # t
      <4>1. log \in archive[s] /\ desk.topic # s
        BY <1>1, <1>2, <1>5, <2>2, <3>2 DEF AtDesk, NoTopic
      <4> QED
        BY <2>2, <4>1 DEF TopicInv, ArchivesAre
    <3> QED
      BY <3>1, <3>2
  <2> QED
    BY <1>1, <1>2, <1>3, <2>2 DEF ArchivesAre
<1> QED
  BY <1>7, <1>8, <1>9, <1>10, <1>11, <1>12 DEF TopicInv

LEMMA CloseEndsKept ==
  ASSUME TopicInv, NEW o \in Outcome, CloseEnds(o)
  PROVE  TopicInv'
<1> DEFINE T == desk.topic
<1>1. /\ desk.at = "close" /\ desk' = AtDesk /\ parted' = parted \union {T}
      /\ UNCHANGED <<owner, shown, logged, archive, repairing, excused, renewed, unheard, copied, restored>>
  BY DEF CloseEnds
<1>2. PICK u \in Writer : desk.who = {u} /\ owner[T] = u /\ T \in Topic
                     /\ users[u].topic \in {NoTopic, T} \union parted
  BY <1>1 DEF TopicInv, DeskStage
<1>3. Topic' = Topic /\ Topic \subseteq Nat /\ 0 \notin Topic
      /\ \A l, s : ReadIn(l, s)' <=> ReadIn(l, s)
  BY <1>1 DEF Topic, ReadIn, TopicInv, TopicData
<1>4. /\ users \in [Writer -> [status : {"away", "support"}, topic : {NoTopic} \union Topic]]
      /\ desk.status \in {"away", "support"} /\ forum \in [Topic -> {"open", "closed", "gone"}]
  BY DEF TopicInv, TopicData, DeskStage
<1>5. /\ users' \in [Writer -> [status : {"away", "support"}, topic : {NoTopic} \union Topic]]
      /\ users'[u].topic = NoTopic /\ \A v \in Writer : v # u => users'[v] = users[v]
  <2> DEFINE c == [desk EXCEPT !.topic = NoTopic]
  <2>1. c.who = {u} /\ c.status = desk.status /\ c.topic = NoTopic
    BY <1>2 DEF TopicInv, DeskStage
  <2>2. Saved(c)
    BY Zenon DEF CloseEnds
  <2> HIDE DEF c
  <2> QED
    BY <1>4, <2>1, <2>2 DEF Saved
<1>6. forum' \in [Topic -> {"open", "closed", "gone"}]
  BY <1>2, <1>4 DEF CloseEnds
<1>7. TopicData'
  BY <1>1, <1>2, <1>3, <1>5, <1>6 DEF TopicInv, TopicData
<1>8. DeskStage' /\ DeskMessage'
  BY <1>1 DEF DeskStage, DeskMessage, AtDesk, NoTopic
<1>9. RowsOwn' /\ UnheardAreParted'
  BY <1>1, <1>2, <1>5 DEF TopicInv, RowsOwn, UnheardAreParted, NoTopic
<1>10. NothingUnread' /\ ShownOnce'
  BY <1>1 DEF TopicInv, NothingUnread, ShownOnce, Handled, AtDesk, DeskStage
<1>11. ReadAreLogged' /\ CopiesOwn'
  BY <1>1, <1>2, <1>3, <1>5, CopiesKept DEF TopicInv, ReadAreLogged
<1>12. ReadAreOwned'
  BY <1>1, <1>2, <1>3, <1>5 DEF TopicInv, ReadAreOwned
<1>13. ArchivesAre'
  <2>1. ASSUME NEW t \in Topic \ restored, NEW log \in archive[t]
        PROVE  /\ t # NoTopic /\ \A v \in Writer : users'[v].topic # t
               /\ \A l \in DOMAIN shown \ Media :
                    ReadIn(l, t) => l \in log \union renewed \union excused
    <3>1. \A v \in Writer : users[v].topic = t => v = u
      BY <1>2, <1>3, <2>1 DEF TopicInv, RowsOwn, ArchivesAre, NoTopic
    <3> QED
      BY <1>3, <1>5, <2>1, <3>1 DEF TopicInv, ArchivesAre, NoTopic
  <2> QED
    BY <1>1, <1>3, <2>1 DEF ArchivesAre, AtDesk
<1> QED
  BY <1>7, <1>8, <1>9, <1>10, <1>11, <1>12, <1>13 DEF TopicInv

LEMMA DeskCrashKept ==
  ASSUME TopicInv, DeskCrash
  PROVE  TopicInv'
<1>1. /\ desk.at # "idle" /\ desk' = AtDesk
      /\ excused \subseteq excused' /\ (desk.msg # 0 => desk.msg \in excused')
      /\ parted \subseteq parted' /\ parted' \subseteq parted \union {desk.topic}
      /\ NoTopic \in parted' => NoTopic \in parted
      /\ \A u \in Writer : users[u].topic \in parted' => users[u].topic \in parted
      /\ UNCHANGED <<users, owner, forum, shown, logged, renewed, unheard, restored>>
      /\ copied' = {}
  BY DEF DeskCrash, TopicInv, DeskStage
<1>2. Topic' = Topic /\ Topic \subseteq Nat /\ 0 \notin Topic
      /\ \A l, s : ReadIn(l, s)' <=> ReadIn(l, s)
  BY <1>1 DEF Topic, ReadIn, TopicInv, TopicData
<1>3. /\ archive' \in [Topic -> SUBSET SUBSET Nat]
      /\ \A t \in Topic : archive'[t] \subseteq archive[t]
      /\ desk.at = "close" => archive'[desk.topic] = {}
  BY <1>1 DEF DeskCrash, TopicInv, TopicData, DeskStage
<1>4. parted' \subseteq Topic
  BY <1>1, <1>2 DEF TopicInv, TopicData, DeskStage, NoTopic
<1>5. TopicData'
  BY <1>1, <1>2, <1>3, <1>4 DEF TopicInv, TopicData
<1>6. DeskStage' /\ DeskMessage'
  BY <1>1 DEF DeskStage, DeskMessage, AtDesk, NoTopic
<1>7. RowsOwn' /\ UnheardAreParted' /\ CopiesOwn'
  BY <1>1 DEF TopicInv, RowsOwn, UnheardAreParted, CopiesOwn
<1>8. NothingUnread' /\ ShownOnce'
  <2>1. desk.msg = 0 \/ desk.msg \in excused'
    BY <1>1
  <2> QED
    BY <1>1, <2>1, NoMessageZero DEF TopicInv, NothingUnread, ShownOnce, Handled
<1>9. ReadAreLogged'
  <2>1. desk.at = "log" => desk.msg \in excused'
    BY <1>1, NoMessageZero DEF TopicInv, DeskStage
  <2> QED
    BY <1>1, <1>2, <2>1 DEF TopicInv, ReadAreLogged
<1>10. ReadAreOwned'
  BY <1>1, <1>2 DEF TopicInv, ReadAreOwned
<1>11. ArchivesAre'
  <2>1. ASSUME NEW t \in Topic \ restored, NEW log \in archive'[t]
        PROVE  /\ t # NoTopic /\ \A u \in Writer : users[u].topic # t
               /\ \A l \in DOMAIN shown \ Media : ReadIn(l, t) => l \in log \union renewed \union excused'
    <3>1. log \in archive[t] /\ ~(desk.at = "close" /\ desk.topic = t)
      BY <1>3, <2>1
    <3> QED
      BY <1>1, <1>2, <2>1, <3>1 DEF TopicInv, ArchivesAre, NoTopic
  <2> QED
    BY <1>1, <1>2, <2>1 DEF ArchivesAre, AtDesk
<1> QED
  BY <1>5, <1>6, <1>7, <1>8, <1>9, <1>10, <1>11 DEF TopicInv

\* A row read by a web thread, and written back over what happened since.
LEMMA RowCopiedKept ==
  ASSUME TopicInv, NEW u \in Writer, RowCopied(u)
  PROVE  TopicInv'
<1>1. /\ copied' = {[who |-> {u}, status |-> users[u].status, topic |-> users[u].topic]}
      /\ UNCHANGED <<users, owner, forum, shown, logged, archive, desk, excused, renewed, parted, unheard,
                     restored>>
  BY DEF RowCopied
<1>2. Topic' = Topic /\ users[u] \in [status : {"away", "support"}, topic : {NoTopic} \union Topic]
      /\ \A l, s : ReadIn(l, s)' <=> ReadIn(l, s)
  BY <1>1 DEF Topic, ReadIn, TopicInv, TopicData
<1>3. CopiesOwn'
  BY <1>1, <1>2 DEF TopicInv, RowsOwn, CopiesOwn
<1>4. TopicData' /\ DeskStage' /\ DeskMessage'
  BY <1>1, <1>2 DEF TopicInv, TopicData, DeskStage, DeskMessage
<1>5. RowsOwn' /\ NothingUnread' /\ ShownOnce' /\ UnheardAreParted'
  BY <1>1 DEF TopicInv, RowsOwn, NothingUnread, Handled, ShownOnce, UnheardAreParted
<1>6. ReadAreLogged' /\ ReadAreOwned' /\ ArchivesAre'
  BY <1>1, <1>2 DEF TopicInv, ReadAreLogged, ReadAreOwned, ArchivesAre
<1> QED
  BY <1>3, <1>4, <1>5, <1>6 DEF TopicInv

LEMMA RowWrittenBackKept ==
  ASSUME TopicInv, RowWrittenBack
  PROVE  TopicInv'
<1>1. PICK c \in copied :
        /\ copied' = {} /\ Saved(c)
        /\ parted' = parted \union ({users[u].topic : u \in c.who} \ {NoTopic, c.topic})
        /\ restored' = restored \union ({c.topic} \ ({NoTopic} \union {users[u].topic : u \in c.who}))
        /\ UNCHANGED <<owner, forum, shown, logged, archive, desk, excused, renewed, unheard>>
  BY DEF RowWrittenBack
<1>2. PICK u \in Writer :
        /\ c \in [who : {{u}}, status : {"away", "support"}, topic : {NoTopic} \union Topic]
        /\ c.topic # NoTopic => owner[c.topic] = u /\ (c.topic \in parted \/ users[u].topic = c.topic)
  BY DEF TopicInv, CopiesOwn
<1> DEFINE X == users[u].topic
           Y == c.topic
<1>3. /\ parted' = parted \union ({X} \ {NoTopic, Y}) /\ restored' = restored \union ({Y} \ {NoTopic, X})
      /\ Y \in {NoTopic} \union Topic
  BY <1>1, <1>2
<1>4. Topic' = Topic /\ Topic \subseteq Nat /\ 0 \notin Topic
      /\ \A l, s : ReadIn(l, s)' <=> ReadIn(l, s)
  BY <1>1 DEF Topic, ReadIn, TopicInv, TopicData
<1>5. /\ users \in [Writer -> [status : {"away", "support"}, topic : {NoTopic} \union Topic]]
      /\ X # NoTopic => owner[X] = u
  BY DEF TopicInv, TopicData, RowsOwn
<1>6. /\ users' \in [Writer -> [status : {"away", "support"}, topic : {NoTopic} \union Topic]]
      /\ users'[u].topic = Y /\ \A v \in Writer : v # u => users'[v] = users[v]
  BY <1>1, <1>2, <1>5 DEF Saved
<1>7. TopicData' /\ CopiesOwn'
  <2>1. X \in {NoTopic} \union Topic
    BY <1>5
  <2>2. parted' \subseteq Topic /\ restored' \subseteq Topic
    BY <1>3, <2>1 DEF TopicInv, TopicData
  <2>3. TopicData'
    BY <1>1, <1>4, <1>6, <2>2 DEF TopicInv, TopicData
  <2> QED
    BY <1>1, <2>3 DEF CopiesOwn
<1>8. DeskStage'
  <2>1. \A w \in Writer : desk.who = {w} /\ w # u /\ desk.topic # NoTopic /\ owner[desk.topic] = w
          => desk.topic # X
    BY <1>5
  <2> QED
    BY <1>1, <1>2, <1>3, <1>4, <1>6, <2>1 DEF TopicInv, DeskStage
<1>9. DeskMessage' /\ NothingUnread' /\ ShownOnce'
  BY <1>1, <1>4 DEF TopicInv, DeskMessage, NothingUnread, ShownOnce, Handled
<1>10. RowsOwn'
  <2>1. ASSUME NEW v \in Writer, users'[v].topic # NoTopic
        PROVE  owner[users'[v].topic] = v /\ users'[v].topic \notin parted' \ restored'
    <3>1. CASE v = u
      BY <1>2, <1>3, <1>6, <2>1, <3>1 DEF TopicInv, RowsOwn
    <3>2. CASE v # u
      BY <1>3, <1>5, <1>6, <2>1, <3>2 DEF TopicInv, RowsOwn
    <3> QED
      BY <3>1, <3>2
  <2> QED
    BY <1>1, <2>1 DEF RowsOwn
<1>11. ReadAreLogged' /\ UnheardAreParted'
  BY <1>1, <1>3, <1>4 DEF TopicInv, ReadAreLogged, UnheardAreParted
<1>12. ReadAreOwned'
  <2>1. ASSUME NEW t \in Topic, NEW l \in DOMAIN shown, ReadIn(l, t)
        PROVE  t \in parted' \/ \E v \in Writer : users'[v].topic = t
    <3>1. t \in parted \/ \E v \in Writer : users[v].topic = t
      BY <2>1 DEF TopicInv, ReadAreOwned
    <3> QED
      BY <1>3, <1>4, <1>6, <3>1 DEF NoTopic
  <2> QED
    BY <1>1, <1>4, <2>1 DEF ReadAreOwned
<1>13. ArchivesAre'
  <2>1. ASSUME NEW t \in Topic \ restored', NEW log \in archive[t]
        PROVE  /\ desk.topic = t => desk.at = "close"
               /\ desk.topic # t => \A v \in Writer : users'[v].topic # t
               /\ \A l \in DOMAIN shown \ Media :
                    ReadIn(l, t) => l \in log \union renewed \union excused
    <3>1. t \in Topic \ restored /\ (Y = t => X = t)
      BY <1>3, <1>4, <2>1 DEF NoTopic
    <3>2. /\ desk.topic = t => desk.at = "close"
          /\ desk.topic # t => \A v \in Writer : users[v].topic # t
          /\ \A l \in DOMAIN shown \ Media :
               ReadIn(l, t) => l \in log \union renewed \union excused
      BY <2>1, <3>1 DEF TopicInv, ArchivesAre
    <3> QED
      BY <1>6, <3>1, <3>2
  <2> QED
    BY <1>1, <1>4, <2>1 DEF ArchivesAre
<1> QED
  BY <1>7, <1>8, <1>9, <1>10, <1>11, <1>12, <1>13 DEF TopicInv

LEMMA TopicKept == TopicInv /\ [TopicNext]_topicVars => TopicInv'
<1> SUFFICES ASSUME TopicInv, [TopicNext]_topicVars PROVE TopicInv'
  OBVIOUS
<1>1. CASE UNCHANGED topicVars
  <2>1. UNCHANGED <<users, owner, forum, shown, logged, archive, desk, excused, renewed, parted, unheard,
                  copied, restored>>
    BY <1>1 DEF topicVars
  <2> QED
    BY <2>1, StatusKept DEF TopicInv, TopicData
<1>2. CASE \E o \in Outcome : DeskMoves(o)
  BY <1>2, MessageForwardedKept, TopicCreatedKept, TicketPostedKept, TopicRepostedKept, ForwardedAgainKept,
     CloseEndsKept DEF DeskMoves
<1>3. CASE \E u \in Writer : MessageComes(u) \/ MessageTaken(u) \/ RowCopied(u)
  BY <1>3, MessageComesKept, MessageTakenKept, RowCopiedKept
<1>4. CASE \E t \in Topic : AdminAnswers(t) \/ TopicDeleted(t)
                            \/ \E o \in Outcome : StrayClosed(t, o) \/ CloseBegins(t, o)
  BY <1>4, ForumStepKept, CloseBeginsKept
<1> QED
  BY <1>1, <1>2, <1>3, <1>4, StatusStepsKept, TicketLoggedKept, RowWrittenBackKept,
     DeskCrashKept DEF TopicNext

\* The parts of the invariant say what the desk promises.
LEMMA TopicPromises == TopicInv => TicketsHold
<1> SUFFICES ASSUME TopicInv PROVE TicketsHold
  OBVIOUS
<1>1. TopicTypeOK
  <2>1. owner \in Seq(Writer)
    <3>1. PICK n \in Nat : n = Len(owner) /\ owner \in [1..n -> Writer]
      BY DEF TopicInv, TopicData
    <3> QED
      BY <3>1, FunctionIsList
  <2> QED
    BY <2>1 DEF TopicInv, TopicData, DeskStage, TopicTypeOK
<1>2. OwnTopic /\ NothingUnread /\ ShownOnce /\ UnheardAreParted
  BY DEF TopicInv, RowsOwn, OwnTopic
<1>3. ArchiveComplete
  BY DEF TopicInv, TopicData, ArchivesAre, ArchiveComplete
<1> QED
  BY <1>1, <1>2, <1>3 DEF TicketsHold

LEMMA TopicKeeps == TopicInit /\ [][TopicNext]_topicVars => []TicketsHold
  BY TopicStarts, TopicKept, TopicPromises, PTL

\* Though calls to Telegram are refused, done twice or unseen, topics deleted under the
\* handler, the process dies anywhere, prompts take messages and a web thread writes old rows
\* back: a row has a topic of its own user, and one that was taken from him only if an old row
\* brought it back; what he writes can be read, once, unless a call went wrong or a prompt took
\* it; its text is in the log of the closed ticket; and an answer is passed over only in a topic
\* that was taken from its user (handlers/messages.py, handlers/forum.py, web_server.py
\* handle_subscription; SupportTopics' TicketsHold).
THEOREM TicketsSafe == TopicSpec => []TicketsHold
  BY TopicKeeps, PTL DEF TopicSpec

-----------------------------------------------------------------------------
(* The run's host: a step of it is a step of the component that moves.     *)

LEMMA HostSteps ==
  /\ HostInit => Init /\ SosInit /\ KitInit /\ ReverseInit /\ MailInit /\ BeatInit /\ TopicInit
  /\ [HostNext]_hostVars =>
       /\ [Next]_vars /\ [SosNext]_sosVars /\ [KitNext]_kitVars /\ [ReverseNext]_reverseVars
       /\ [MailNext]_mailVars /\ [BeatNext]_beatVars /\ [TopicNext]_topicVars
<1>1. HostInit => Init /\ SosInit /\ KitInit /\ ReverseInit /\ MailInit /\ BeatInit /\ TopicInit
  BY Zenon DEF HostInit
<1>2. [HostNext]_hostVars =>
       /\ [Next]_vars /\ [SosNext]_sosVars /\ [KitNext]_kitVars /\ [ReverseNext]_reverseVars
       /\ [MailNext]_mailVars /\ [BeatNext]_beatVars /\ [TopicNext]_topicVars
  BY DEF HostNext, hostVars
<1> QED
  BY <1>1, <1>2

\* In the host: nothing skipped, repeats are restarts, in order.
THEOREM HostedTurns == HostSpec => InTurn
  BY HostSteps, InTurnKept, PTL DEF HostSpec, Spec

\* In the host: another kit only after a failure or a day, one notice a day.
THEOREM HostedClaimsHold == HostSpec => ClaimsHold
  BY HostSteps, ClaimsKept, PTL DEF HostSpec, KitSpec, ReverseSpec

\* In the host: letters are accounted for, one open request per address, decisions stick.
THEOREM HostedMailHolds == HostSpec => MailHolds
  BY HostSteps, MailKeeps, PTL DEF HostSpec

\* In the host: one row per client and window.
THEOREM HostedBeatsHold == HostSpec => []BeatsHold
  BY HostSteps, BeatSafe, PTL DEF HostSpec

\* In the host: who asks for help is heard once - no diagnosis is asked for before its report
\* but after the gate's time-out, and what is written to the support desk and neither met a
\* failure nor a prompt can be read, once, in a topic of the writer's.
THEOREM HostedHelpHolds == HostSpec => []HelpHolds
<1>1. HostSpec => []SosHolds
  <2>1. SosInv => SosTypeOK /\ ReportFirst
    BY DEF SosInv
  <2> QED
    BY <2>1, HostSteps, SosStarts, SosKept, PTL DEF HostSpec, SosHolds
<1>2. HostSpec => []TicketsHold
  BY HostSteps, TopicKeeps, PTL DEF HostSpec
<1> QED
  BY <1>1, <1>2, PTL DEF HelpHolds
==============================================================================
