---------------------------- MODULE AccessProofs ----------------------------
(***************************************************************************)
(* Theorems about accounts and about who is let in.                        *)
(*                                                                         *)
(* UserLifecycle: first for handlers in however many pieces: nobody ends   *)
(* up with more months than were sold, and every variable keeps its type,  *)
(* the calls a handler has left included; then for handlers that run one   *)
(* at a time: what a handler reports of a user is so, bans stick, purchases *)
(* add up and only those let in hold a key. Then the jobs that write to    *)
(* people (Reminders) and the components of MCAccess: the RU zone, the      *)
(* agent, the reserve node and the panel.                                  *)
(***************************************************************************)
EXTENDS MCAccess, Reminders, DataLemmas

\* What the argument needs to know of a User object: its shape, and that what is
\* paid is a number that a bound covers.
Earned(u, bound) ==
  /\ u = [status |-> u.status, previous |-> u.previous, key |-> u.key,
          topic |-> u.topic, rejects |-> u.rejects, paid |-> u.paid]
  /\ u.paid \in Nat /\ u.paid <= bound

\* Every object held by a handler is covered by what was sold, and the date it
\* has worked out by that and what it is about to sell; a thread at rest holds
\* nothing of worth, so that time may pass.
Covered(l, bound) ==
  /\ l = [op |-> l.op, todo |-> l.todo, user |-> l.user, other |-> l.other,
          until |-> l.until, months |-> l.months]
  /\ Earned(l.user, bound) /\ Earned(l.other, bound)
  /\ l.until \in Nat /\ l.months \in Nat /\ l.until <= bound + l.months

EInv ==
  /\ sold \in Nat /\ Earned(row, sold)
  /\ at = [th \in Threads |-> at[th]]
  /\ \A th \in Threads : Covered(at[th], sold)
  /\ \A th \in Threads : at[th].todo = <<>> => Covered(at[th], 0)

LEMMA EarnedMonotone ==
  ASSUME NEW a \in Nat, NEW b \in Nat, a <= b, NEW u, Earned(u, a)
  PROVE  Earned(u, b)
  BY DEF Earned

LEMMA CoveredMonotone ==
  ASSUME NEW a \in Nat, NEW b \in Nat, a <= b, NEW l, Covered(l, a)
  PROVE  Covered(l, b)
  BY EarnedMonotone DEF Covered

LEMMA NewUserEarned ==
  ASSUME NEW bound \in Nat
  PROVE  Earned(NewUser, bound)
  BY DEF Earned, NewUser

LEMMA HandlerCovered ==
  ASSUME NEW bound \in Nat, NEW op, NEW todo, NEW months \in Nat
  PROVE  Covered(Handler(op, todo, months), bound)
  BY NewUserEarned DEF Covered, Handler

LEMMA IdleCovered ==
  ASSUME NEW bound \in Nat
  PROVE  Covered(Idle, bound)
  BY HandlerCovered DEF Idle

\* Going on with a covered object keeps every thread covered.
LEMMA GoesCovered ==
  ASSUME EInv, NEW th \in Threads, NEW rest, NEW local, Goes(th, rest, local),
         sold' \in Nat, sold <= sold', Covered(local, sold')
  PROVE  /\ at' = [t \in Threads |-> at'[t]]
         /\ \A t \in Threads : Covered(at'[t], sold')
         /\ \A t \in Threads : at'[t].todo = <<>> => Covered(at'[t], 0)
<1> DEFINE next == IF rest = <<>> THEN Idle ELSE [local EXCEPT !.todo = rest]
<1>1. Covered([local EXCEPT !.todo = rest], sold')
  BY DEF Covered
<1>2. Covered(next, sold')
  BY <1>1, IdleCovered
<1>6. next.todo = <<>> => Covered(next, 0)
  <2>1. CASE rest = <<>>
    BY <2>1, IdleCovered
  <2>2. CASE rest # <<>>
    <3>1. next = [local EXCEPT !.todo = rest]
      BY <2>2
    <3>2. next.todo = rest
      BY <3>1 DEF Covered
    <3> QED
      BY <2>2, <3>2
  <2> QED
    BY <2>1, <2>2
<1>3. at' = [at EXCEPT ![th] = next] /\ sold \in Nat
  BY DEF Goes, EInv
<1> HIDE DEF next
<1>4. \A t \in Threads : at'[t] = IF t = th THEN next ELSE at[t]
  BY <1>3 DEF EInv
<1>5. \A t \in Threads : Covered(at[t], sold')
  BY <1>3, CoveredMonotone DEF EInv
<1> QED
  BY <1>2, <1>3, <1>4, <1>5, <1>6 DEF EInv

LEMMA StopsCovered ==
  ASSUME EInv, NEW th \in Threads, Stops(th)
  PROVE  /\ at' = [t \in Threads |-> at'[t]]
         /\ \A t \in Threads : Covered(at'[t], sold)
         /\ \A t \in Threads : at'[t].todo = <<>> => Covered(at'[t], 0)
<1>1. Covered(Idle, sold) /\ Covered(Idle, 0)
  BY IdleCovered DEF EInv
<1>2. at' = [at EXCEPT ![th] = Idle]
  BY DEF Stops
<1> QED
  BY <1>1, <1>2 DEF EInv

LEMMA ChangedEarned ==
  ASSUME NEW bound \in Nat, NEW u, Earned(u, bound), NEW what, NEW until \in Nat
  PROVE  /\ what \notin {"paid", "granted"} => Earned(Changed(what, u, until), bound)
         /\ until <= bound => Earned(Changed(what, u, until), bound)
  BY DEF Changed, Earned
-----------------------------------------------------------------------------
LEMMA InitEInv == Init => EInv
  BY NewUserEarned, IdleCovered DEF Init, EInv

LEMMA StartEInv ==
  ASSUME EInv, NEW th \in Threads, NEW op, Start(th, op)
  PROVE  EInv'
<1>1. PICK months \in IF op \in {"pay", "webExpire"} THEN Plans
                      ELSE IF op \in {"webGrant", "approvePayment"} THEN {1} ELSE {0} :
        /\ sold + at["bot"].months + at["web"].months + months <= MaxMonths
        /\ at' = [at EXCEPT ![th] = Handler(op, Program(op), months)]
  BY ZenonT(30) DEF Start
<1>2. months \in Nat /\ sold \in Nat
  BY ConstantsOK DEF ConstantsOK, EInv
<1>3. /\ Covered(Handler(op, Program(op), months), sold)
      /\ Covered(Handler(op, Program(op), months), 0)
  BY <1>2, HandlerCovered
<1>4. /\ \A t \in Threads : Covered(at'[t], sold)
      /\ \A t \in Threads : at'[t].todo = <<>> => Covered(at'[t], 0)
  BY <1>1, <1>3 DEF EInv
<1>5. at' = [t \in Threads |-> at'[t]] /\ UNCHANGED <<row, sold>>
  BY <1>1 DEF EInv, Start
<1> QED
  BY <1>4, <1>5 DEF EInv, Earned

\* A handler's step that sells nothing and writes no paid-until date.
LEMMA PlainStep ==
  ASSUME EInv, NEW th \in Threads, NEW rest, NEW local, Goes(th, rest, local),
         Covered(local, sold), sold' = sold, Earned(row', sold)
  PROVE  EInv'
<1>1. sold \in Nat /\ sold' \in Nat /\ sold <= sold' /\ Covered(local, sold')
  BY DEF EInv
<1>2. /\ at' = [t \in Threads |-> at'[t]]
      /\ \A t \in Threads : Covered(at'[t], sold')
      /\ \A t \in Threads : at'[t].todo = <<>> => Covered(at'[t], 0)
  BY <1>1, GoesCovered
<1> QED
  BY <1>1, <1>2 DEF EInv

LEMMA UntilCovered ==
  ASSUME EInv, NEW op, NEW months \in Nat
  PROVE  Until(op, row, months) \in Nat /\ Until(op, row, months) <= sold + months
  BY DEF EInv, Earned, Until

LEMMA WithUser ==
  ASSUME NEW l, NEW bound, Covered(l, bound), NEW u, NEW m
  PROVE  [l EXCEPT !.user = u, !.months = m] =
           [op |-> l.op, todo |-> l.todo, user |-> u, other |-> l.other,
            until |-> l.until, months |-> m]
<1> DEFINE k == [l EXCEPT !.user = u]
<1>1. k = [op |-> l.op, todo |-> l.todo, user |-> u, other |-> l.other,
           until |-> l.until, months |-> l.months]
  BY DEF Covered
<1> HIDE DEF k
<1>2. [k EXCEPT !.months = m] =
        [op |-> l.op, todo |-> l.todo, user |-> u, other |-> l.other,
         until |-> l.until, months |-> m]
  BY <1>1
<1> QED
  BY <1>2 DEF k

LEMMA SaveEInv ==
  ASSUME EInv, NEW th \in Threads, SaveUser(th)
  PROVE  EInv'
<1> DEFINE was == at[th].user
           until == at[th].until
           new == Changed(What(th), was, until)
           sells == What(th) \in {"granted", "paid"}
           after == [at[th] EXCEPT !.user = new,
                                  !.months = IF sells THEN 0 ELSE @]
<1>1. /\ sold \in Nat /\ Earned(row, sold) /\ Covered(at[th], sold)
      /\ Earned(was, sold) /\ until \in Nat /\ at[th].months \in Nat
      /\ until <= sold + at[th].months
  BY DEF EInv, Covered
<1>2. PICK rest : Goes(th, rest, after)
  BY DEF SaveUser
<1>3. row' = row \/ row' = new
  BY DEF SaveUser
<1>4. /\ sold' \in Nat /\ sold <= sold'
      /\ sells => until <= sold'
      /\ ~sells => sold' = sold
  BY <1>1 DEF SaveUser
<1>5. Earned(new, sold')
  <2>1. Earned(was, sold')
    BY <1>1, <1>4, EarnedMonotone
  <2> HIDE DEF was, until
  <2> QED
    BY <1>1, <1>4, <2>1, ChangedEarned
<1>6. Covered(after, sold')
  <2>1. Covered(at[th], sold')
    BY <1>1, <1>4, CoveredMonotone
  <2> DEFINE left == IF sells THEN 0 ELSE at[th].months
  <2>2. left \in Nat /\ until <= sold' + left
    BY <1>1, <1>4
  <2> HIDE DEF new, left
  <2>3. after = [op |-> at[th].op, todo |-> at[th].todo, user |-> new,
                other |-> at[th].other, until |-> until, months |-> left]
    <3>1. after = [at[th] EXCEPT !.user = new, !.months = left]
      BY DEF left
    <3> HIDE DEF after
    <3> QED
      BY <2>1, <3>1, WithUser
  <2> HIDE DEF after
  <2>4. Earned(at[th].other, sold') /\ until \in Nat
    BY <2>1 DEF Covered
  <2> QED
    BY <1>5, <2>2, <2>3, <2>4 DEF Covered
<1>7. Earned(row', sold')
  BY <1>1, <1>3, <1>4, <1>5, EarnedMonotone
<1> HIDE DEF after
<1>8. /\ at' = [t \in Threads |-> at'[t]]
      /\ \A t \in Threads : Covered(at'[t], sold')
      /\ \A t \in Threads : at'[t].todo = <<>> => Covered(at'[t], 0)
  BY <1>2, <1>4, <1>6, GoesCovered
<1> QED
  BY <1>4, <1>7, <1>8 DEF EInv

LEMMA WithFields ==
  ASSUME NEW l, NEW bound, Covered(l, bound), NEW u, Earned(u, bound)
  PROVE  /\ Covered([l EXCEPT !.user = u], bound)
         /\ Covered([l EXCEPT !.other = u], bound)
  BY DEF Covered

LEMMA GetEInv ==
  ASSUME EInv, NEW th \in Threads, GetUser(th)
  PROVE  EInv'
<1>1. sold' = sold /\ row' = row /\ Earned(row', sold) /\ sold \in Nat
  BY DEF GetUser, EInv
<1>2. CASE Stops(th)
  BY <1>1, <1>2, StopsCovered DEF EInv
<1>3. CASE ~Stops(th)
  <2> DEFINE until == Until(at[th].op, row, at[th].months)
             held == [at[th] EXCEPT !.user = row]
  <2>1. Covered(at[th], sold) /\ Earned(row, sold)
    BY DEF EInv
  <2>2. until \in Nat /\ until <= sold + at[th].months
    BY <2>1, UntilCovered DEF Covered
  <2>3. Covered(held, sold) /\ held.months = at[th].months
    BY <2>1, WithFields DEF Covered
  <2>4. Goes(th, Rest(th), [at[th] EXCEPT !.user = row, !.until = until])
    BY <1>3 DEF GetUser
  <2> HIDE DEF until
  <2>5. [at[th] EXCEPT !.user = row, !.until = until] = [held EXCEPT !.until = until]
    OBVIOUS
  <2> HIDE DEF held
  <2>6. Covered([held EXCEPT !.until = until], sold)
    BY <2>2, <2>3 DEF Covered
  <2> QED
    BY <1>1, <2>4, <2>5, <2>6, PlainStep
<1> QED
  BY <1>2, <1>3

LEMMA TransitionSaveEInv ==
  ASSUME EInv, NEW th \in Threads, TransitionSave(th)
  PROVE  EInv'
<1>1. Covered(at[th], sold) /\ Earned(at[th].other, sold) /\ sold \in Nat
  BY DEF EInv, Covered
<1>2. Earned(row', sold) /\ sold' = sold
  BY <1>1 DEF TransitionSave, Earned
<1>3. Covered([at[th] EXCEPT !.other = NewUser], sold)
  BY <1>1, WithFields, NewUserEarned
<1> QED
  BY <1>2, <1>3, PlainStep DEF TransitionSave

\* The steps that leave the objects they hold alone.
LEMMA CallEInv ==
  ASSUME EInv, NEW th \in Threads,
         \/ TransitionGet(th) \/ UpdateStatus(th) \/ Approve(th) \/ ReturnFromSupport(th)
         \/ FetchUser(th) \/ PanelRemove(th) \/ PanelAdd(th) \/ PanelSync(th)
  PROVE  EInv'
<1>1. Covered(at[th], sold) /\ Earned(row, sold) /\ sold \in Nat
  BY DEF EInv
<1>2. Covered([at[th] EXCEPT !.other = row], sold) /\ Covered([at[th] EXCEPT !.user = row], sold)
  BY <1>1, WithFields
<1>3. sold' = sold
  BY DEF TransitionGet, UpdateStatus, Approve, ReturnFromSupport, FetchUser,
         PanelRemove, PanelAdd, PanelSync
<1>4. Earned(row', sold)
  <2>1. CASE UpdateStatus(th)
    BY <1>1, <2>1 DEF UpdateStatus, Earned
  <2>2. CASE row' = row
    BY <1>1, <2>2
  <2> QED
    BY <2>1, <2>2 DEF TransitionGet, Approve, ReturnFromSupport, FetchUser,
                      PanelRemove, PanelAdd, PanelSync
<1>5. \/ Stops(th)
      \/ \E rest : \/ Goes(th, rest, at[th])
                   \/ Goes(th, rest, [at[th] EXCEPT !.other = row])
                   \/ Goes(th, rest, [at[th] EXCEPT !.user = row])
  <2>1. CASE TransitionGet(th)
    BY <2>1 DEF TransitionGet
  <2>2. CASE UpdateStatus(th)
    BY <2>2 DEF UpdateStatus
  <2>3. CASE Approve(th)
    BY <2>3 DEF Approve
  <2>4. CASE ReturnFromSupport(th)
    BY <2>4 DEF ReturnFromSupport
  <2>5. CASE FetchUser(th)
    BY <2>5 DEF FetchUser
  <2>6. CASE PanelRemove(th) \/ PanelSync(th)
    BY <2>6 DEF PanelRemove, PanelSync
  <2>7. CASE PanelAdd(th)
    BY <2>7 DEF PanelAdd
  <2> QED
    BY <2>1, <2>2, <2>3, <2>4, <2>5, <2>6, <2>7
<1>6. CASE Stops(th)
  BY <1>3, <1>4, <1>6, StopsCovered DEF EInv
<1> QED
  BY <1>1, <1>2, <1>3, <1>4, <1>5, <1>6, PlainStep

LEMMA MonthEInv ==
  ASSUME EInv, Month
  PROVE  EInv'
<1>1. sold \in Nat /\ sold' = Less(sold) /\ Earned(row, sold) /\ UNCHANGED at
  BY DEF EInv, Month
<1>2. sold' \in Nat
  BY <1>1 DEF Less
<1>3. row' = [row EXCEPT !.paid = Less(row.paid)]
  BY DEF Month
<1>4. Earned(row', sold')
  BY <1>1, <1>3 DEF Earned, Less
<1>5. \A th \in Threads : Covered(at[th], 0)
  BY DEF EInv, Month, Quiet
<1>6. \A th \in Threads : Covered(at[th], sold')
  BY <1>2, <1>5, CoveredMonotone
<1> QED
  BY <1>1, <1>2, <1>4, <1>5, <1>6 DEF EInv

LEMMA RestEInv ==
  ASSUME EInv, Purge \/ Crash \/ UNCHANGED vars
  PROVE  EInv'
<1>1. CASE Purge \/ UNCHANGED vars
  BY <1>1 DEF Purge, vars, EInv
<1>2. CASE Crash
  <2>1. at' = [th \in Threads |-> Idle] /\ UNCHANGED <<row, sold>>
    BY <1>2 DEF Crash
  <2>2. Covered(Idle, sold) /\ Covered(Idle, 0)
    BY IdleCovered DEF EInv
  <2> QED
    BY <2>1, <2>2 DEF EInv
<1> QED
  BY <1>1, <1>2

LEMMA NextEInv == EInv /\ [Next]_vars => EInv'
<1> SUFFICES ASSUME EInv, [Next]_vars PROVE EInv'
  OBVIOUS
<1>1. ASSUME NEW th \in Threads, Step(th) PROVE EInv'
  BY <1>1, GetEInv, SaveEInv, TransitionSaveEInv, CallEInv DEF Step
<1>2. ASSUME NEW th \in Threads, NEW op \in Ops(th), Start(th, op) PROVE EInv'
  BY <1>2, StartEInv
<1>3. CASE Month
  BY <1>3, MonthEInv
<1>4. CASE Purge \/ Crash \/ UNCHANGED vars
  BY <1>4, RestEInv
<1> QED
  BY <1>1, <1>2, <1>3, <1>4 DEF Next

\* No interleaving of the user's, the admins', the dashboard's and the scheduler's
\* handlers, and no death in the middle of one, leaves a user with more months
\* than were sold, for any plans and any mixture of handlers (UserLifecycle's
\* NeverUnearned; every extension is worked out from a User object read before
\* and saved whole after, UserRepository.save).
THEOREM NobodyIsOverpaid == Spec => []NeverUnearned
<1>1. EInv => NeverUnearned
  BY DEF EInv, Earned, NeverUnearned
<1> QED
  BY <1>1, InitEInv, NextEInv, PTL DEF Spec
-----------------------------------------------------------------------------
(* Types.  A handler's calls name a status where they move it and a change *)
(* where they save one, and a program is put together from such pieces.    *)

LEMMA CallLegal ==
  /\ \A do \in StatusCalls, to \in Statuses : Call(do, to) \in LegalCall
  /\ \A do \in OtherCalls, what \in SaveKinds : Call(do, what) \in LegalCall
  BY DEF Call, LegalCall

LEMMA PiecesLegal ==
  /\ Get \in Seq(LegalCall) /\ Fetch \in Seq(LegalCall)
  /\ \A to \in Statuses : Transition(to) \in Seq(LegalCall) /\ SetState(to) \in Seq(LegalCall)
  /\ \A what \in SaveKinds : Put(what) \in Seq(LegalCall)
  /\ \A do \in OtherCalls : <<Call(do, "")>> \in Seq(LegalCall)
<1>1. Call("get", "") \in LegalCall /\ Call("fetch", "") \in LegalCall
  BY CallLegal DEF OtherCalls, SaveKinds
<1>2. \A to \in Statuses : /\ Call("smGet", to) \in LegalCall /\ Call("smSave", to) \in LegalCall
                           /\ Call("smStatus", to) \in LegalCall /\ Call("force", to) \in LegalCall
  BY CallLegal DEF StatusCalls
<1>3. /\ \A what \in SaveKinds : Call("put", what) \in LegalCall
      /\ \A do \in OtherCalls : Call(do, "") \in LegalCall
  BY CallLegal DEF OtherCalls, SaveKinds
<1>4. \A c \in LegalCall : <<c>> \in Seq(LegalCall)
  OBVIOUS
<1>5. \A c, d, e \in LegalCall : <<c, d, e>> \in Seq(LegalCall)
  OBVIOUS
<1> HIDE DEF LegalCall
<1> QED
  BY <1>1, <1>2, <1>3, <1>4, <1>5 DEF Get, Fetch, Transition, SetState, Put

LEMMA Joined ==
  ASSUME NEW S, NEW s \in Seq(S), NEW t \in Seq(S)
  PROVE  s \o t \in Seq(S)
  OBVIOUS

LEMMA Consumed ==
  ASSUME NEW S, NEW s \in Seq(S), s # <<>>
  PROVE  Tail(s) \in Seq(S) /\ Next3(s) \in Seq(S) /\ Head(s) \in S
  BY DEF Next3

LEMMA ProgramsLegal ==
  ASSUME NEW op \in UserOps \cup AdminOps \cup DashboardOps \cup {"repair"}
  PROVE  Program(op) \in Seq(LegalCall)
<1> DEFINE T(x) == x \in Seq(LegalCall)
<1>1. /\ T(Get) /\ T(Fetch)
      /\ \A to \in Statuses : T(Transition(to)) /\ T(SetState(to))
      /\ \A w \in SaveKinds : T(Put(w))
      /\ \A do \in OtherCalls : T(<<Call(do, "")>>)
  BY PiecesLegal
<1>2. \A s, t : T(s) /\ T(t) => T(s \o t)
  BY Joined
<1> HIDE DEF T
<1>3. T(Revoke) /\ T(Grant)
  BY <1>1, <1>2 DEF Revoke, Grant, Statuses, OtherCalls, SaveKinds
<1>4. /\ T(DemoRequest) /\ T(PlatformSelect) /\ T(GetKey) /\ T(SupportRequest)
      /\ T(SupportMessage) /\ T(SuccessfulPayment) /\ T(ApproveUser) /\ T(RejectUser)
      /\ T(BanUser) /\ T(UnbanUser) /\ T(ResetUser) /\ T(ResetApproval) /\ T(CloseTicket)
  BY <1>1, <1>2, <1>3 DEF DemoRequest, PlatformSelect, GetKey, SupportRequest, SupportMessage,
     SuccessfulPayment, ApproveUser, RejectUser, BanUser, UnbanUser, ResetUser, ResetApproval,
     CloseTicket, Statuses, OtherCalls, SaveKinds
<1>5. /\ T(AutoApproval) /\ T(RejectButton) /\ T(ApprovePayment) /\ T(WebApprove) /\ T(WebReject)
      /\ T(WebBan) /\ T(WebUnban) /\ T(WebReset) /\ T(WebGrantPaid) /\ T(WebSetQuota)
      /\ T(WebSetExpire) /\ T(RepairStuckSupport)
  BY <1>1, <1>2, <1>3, <1>4 DEF AutoApproval, RejectButton, ApprovePayment, WebApprove, WebReject,
     WebBan, WebUnban, WebReset, WebGrantPaid, WebSetQuota, WebSetExpire, RepairStuckSupport,
     Statuses, OtherCalls, SaveKinds
<1>6. T(Program(op))
  BY <1>4, <1>5 DEF Program, UserOps, AdminOps, DashboardOps
<1> QED
  BY <1>6 DEF T

-----------------------------------------------------------------------------
\* What is being sold fits under the bound, with what was sold.
TInv ==
  /\ TypeOK /\ EInv
  /\ at["job"].months = 0 /\ sold + at["bot"].months + at["web"].months <= MaxMonths

AllOps == {"none"} \cup UserOps \cup AdminOps \cup DashboardOps \cup {"repair"}

LEMMA LocalFields ==
  ASSUME NEW l \in Local
  PROVE  /\ l.op \in AllOps /\ l.todo \in Seq(LegalCall) /\ l.user \in User /\ l.other \in User
         /\ l.until \in 0..MaxMonths /\ l.months \in 0..MaxMonths
  BY DEF Local, AllOps

LEMMA HandlerTyped ==
  ASSUME NEW op \in AllOps, NEW todo \in Seq(LegalCall), NEW months \in 0..MaxMonths
  PROVE  Handler(op, todo, months) \in Local
<1>1. NewUser \in User
  BY ConstantsOK DEF NewUser, User, Statuses, ConstantsOK
<1>2. 0 \in 0..MaxMonths
  BY ConstantsOK DEF ConstantsOK
<1> QED
  BY <1>1, <1>2 DEF Handler, Local, AllOps

LEMMA IdleTyped == Idle \in Local
<1>1. 0 \in 0..MaxMonths /\ <<>> \in Seq(LegalCall)
  BY ConstantsOK DEF ConstantsOK
<1> QED
  BY <1>1, HandlerTyped DEF Idle, AllOps

LEMMA GoesTyped ==
  ASSUME at \in [Threads -> Local], NEW th \in Threads, NEW rest \in Seq(LegalCall),
         NEW local \in Local, Goes(th, rest, local)
  PROVE  /\ at' \in [Threads -> Local] /\ said' \in AllOps
         /\ \A t \in Threads \ {th} : at'[t] = at[t]
         /\ at'[th] = Idle \/ at'[th].months = local.months
<1> DEFINE next == IF rest = <<>> THEN Idle ELSE [local EXCEPT !.todo = rest]
<1>1. next \in Local /\ (next = Idle \/ next.months = local.months)
  BY IdleTyped DEF Local
<1>2. at[th].op \in AllOps
  BY LocalFields
<1>3. "none" \in AllOps
  BY DEF AllOps
<1>4. at' = [at EXCEPT ![th] = next] /\ said' \in AllOps
  BY <1>2, <1>3 DEF Goes
<1> HIDE DEF next
<1> QED
  BY <1>1, <1>4

LEMMA StopsTyped ==
  ASSUME at \in [Threads -> Local], NEW th \in Threads, Stops(th)
  PROVE  /\ at' \in [Threads -> Local] /\ said' \in AllOps
         /\ \A t \in Threads \ {th} : at'[t] = at[t]
         /\ at'[th] = Idle
  BY IdleTyped DEF Stops, AllOps

\* Fewer months on sale leave room for as many more sold.
LEMMA RoomKept ==
  ASSUME TInv, NEW th \in Threads, NEW n \in Nat, NEW m \in Nat,
         sold' = n, at' \in [Threads -> Local],
         \A t \in Threads \ {th} : at'[t] = at[t],
         at'[th] = Idle \/ at'[th].months = m,
         m <= at[th].months, n + m <= sold + at[th].months, n <= sold + at[th].months
  PROVE  at'["job"].months = 0 /\ sold' + at'["bot"].months + at'["web"].months <= MaxMonths
<1>1. \A t \in Threads : at[t].months \in Nat
  BY LocalFields DEF TInv, TypeOK
<1>2. Idle.months = 0
  BY DEF Idle, Handler
<1>3. sold \in Nat
  BY DEF TInv, EInv
<1>4. MaxMonths \in Nat
  BY ConstantsOK DEF ConstantsOK
<1>5. at["job"].months = 0 /\ sold + at["bot"].months + at["web"].months <= MaxMonths
  BY DEF TInv
<1>6. CASE th = "bot"
  <2>1. at'["job"] = at["job"] /\ at'["web"] = at["web"]
    BY <1>6 DEF Threads
  <2> QED
    BY <1>1, <1>2, <1>3, <1>4, <1>5, <1>6, <2>1 DEF Threads
<1>7. CASE th = "web"
  <2>1. at'["job"] = at["job"] /\ at'["bot"] = at["bot"]
    BY <1>7 DEF Threads
  <2> QED
    BY <1>1, <1>2, <1>3, <1>4, <1>5, <1>7, <2>1 DEF Threads
<1>8. CASE th = "job"
  <2>1. at'["web"] = at["web"] /\ at'["bot"] = at["bot"]
    BY <1>8 DEF Threads
  <2> QED
    BY <1>1, <1>2, <1>3, <1>4, <1>5, <1>8, <2>1 DEF Threads
<1> QED
  BY <1>6, <1>7, <1>8 DEF Threads

LEMMA InitTyped == Init => TInv
<1>1. Init => EInv
  BY InitEInv
<1>2. NewUser \in User /\ Idle \in Local
  BY IdleTyped, ConstantsOK DEF NewUser, User, Statuses, ConstantsOK
<1>3. Idle.months = 0 /\ MaxMonths \in Nat
  BY ConstantsOK DEF Idle, Handler, ConstantsOK
<1> SUFFICES ASSUME Init PROVE TInv
  OBVIOUS
<1>4. \A th \in Threads : at[th] = Idle
  BY DEF Init
<1>5. at["job"].months = 0 /\ sold + at["bot"].months + at["web"].months <= MaxMonths
  BY <1>3, <1>4 DEF Init, Threads
<1>6. row \in User /\ sold \in 0..MaxMonths
  BY <1>2, <1>3 DEF Init
<1>10. at \in [Threads -> Local]
  BY <1>2 DEF Init
<1>11. leaked \in BOOLEAN
  BY DEF Init
<1>7. panel \in [on : BOOLEAN, until : 0..MaxMonths]
  BY <1>3 DEF Init, NoClient
<1>8. said \in {"none"} \cup UserOps \cup AdminOps \cup DashboardOps \cup {"repair"}
  BY DEF Init
<1>9. TypeOK
  BY <1>6, <1>7, <1>8, <1>10, <1>11 DEF TypeOK
<1> QED
  BY <1>1, <1>5, <1>9 DEF TInv

LEMMA RejectsTyped ==
  ASSUME NEW u \in User, NEW n \in 0..MaxRejects
  PROVE  [u EXCEPT !.rejects = n] \in User
  BY DEF User

LEMMA ChangedTyped ==
  ASSUME NEW u \in User, NEW what, NEW until \in 0..MaxMonths
  PROVE  Changed(what, u, until) \in User
<1>1. /\ \A b \in BOOLEAN : [u EXCEPT !.key = b] \in User /\ [u EXCEPT !.topic = b] \in User
      /\ [u EXCEPT !.paid = until] \in User
  BY DEF User
<1>2. (IF u.rejects < MaxRejects THEN u.rejects + 1 ELSE u.rejects) \in 0..MaxRejects
  BY ConstantsOK DEF User, ConstantsOK
<1>3. [u EXCEPT !.rejects = IF @ < MaxRejects THEN @ + 1 ELSE @] \in User
  BY <1>2 DEF User
<1>4. [u EXCEPT !.key = FALSE, !.rejects = 0] \in User
  <2> DEFINE k == [u EXCEPT !.key = FALSE]
  <2>1. k \in User /\ MaxRejects \in Nat
    BY <1>1, ConstantsOK DEF ConstantsOK
  <2> HIDE DEF k
  <2>2. [k EXCEPT !.rejects = 0] \in User
    BY <2>1, RejectsTyped
  <2> QED
    BY <2>2 DEF k
<1>5. CASE what \in {"key", "keyless", "topic", "noTopic", "paid", "granted"}
  BY <1>1, <1>5 DEF Changed
<1>6. CASE what = "rejected"
  BY <1>3, <1>6 DEF Changed
<1>7. CASE what = "cleared"
  BY <1>4, <1>7 DEF Changed
<1>8. CASE what \notin {"key", "keyless", "topic", "noTopic", "paid", "granted", "rejected", "cleared"}
  BY <1>8 DEF Changed
<1> QED
  BY <1>5, <1>6, <1>7, <1>8

LEMMA Assembled ==
  ASSUME TInv, NEW th \in Threads, EInv', NEW n \in Nat, NEW m \in Nat,
         sold' = n, at' \in [Threads -> Local], said' \in AllOps,
         \A t \in Threads \ {th} : at'[t] = at[t],
         at'[th] = Idle \/ at'[th].months = m,
         m <= at[th].months, n + m <= sold + at[th].months, n <= sold + at[th].months,
         row' \in User, panel' \in [on : BOOLEAN, until : 0..MaxMonths], leaked' \in BOOLEAN
  PROVE  TInv'
<1>1. at'["job"].months = 0 /\ sold' + at'["bot"].months + at'["web"].months <= MaxMonths
  BY RoomKept
<1>2. sold' \in 0..MaxMonths
  <2>1. at'["bot"] \in Local /\ at'["web"] \in Local
    BY DEF Threads
  <2>2. at'["bot"].months \in 0..MaxMonths /\ at'["web"].months \in 0..MaxMonths
    BY <2>1, LocalFields
  <2>3. MaxMonths \in Nat
    BY ConstantsOK DEF ConstantsOK
  <2> QED
    BY <1>1, <2>2, <2>3
<1>3. said' \in {"none"} \cup UserOps \cup AdminOps \cup DashboardOps \cup {"repair"}
  BY DEF AllOps
<1>4. TypeOK'
  BY <1>2, <1>3 DEF TypeOK
<1> QED
  BY <1>1, <1>4 DEF TInv

LEMMA StepTyped ==
  ASSUME TInv, NEW th \in Threads, EInv', sold' = sold, row' \in User,
         panel' \in [on : BOOLEAN, until : 0..MaxMonths], leaked' \in BOOLEAN,
         \/ Stops(th)
         \/ \E rest \in Seq(LegalCall), local \in Local :
              Goes(th, rest, local) /\ local.months = at[th].months
  PROVE  TInv'
<1>1. at \in [Threads -> Local] /\ sold \in Nat /\ at[th].months \in Nat
  BY LocalFields DEF TInv, TypeOK
<1>2. /\ at' \in [Threads -> Local] /\ said' \in AllOps
      /\ \A t \in Threads \ {th} : at'[t] = at[t]
      /\ at'[th] = Idle \/ at'[th].months = at[th].months
  BY <1>1, GoesTyped, StopsTyped
<1> QED
  BY <1>1, <1>2, Assembled

LEMMA HeadTyped ==
  ASSUME TInv, NEW th \in Threads, at[th].todo # <<>>
  PROVE  /\ at[th] \in Local /\ at[th].todo \in Seq(LegalCall)
         /\ Rest(th) \in Seq(LegalCall) /\ Next3(at[th].todo) \in Seq(LegalCall)
         /\ Head(at[th].todo) \in LegalCall
  BY LocalFields, Consumed DEF TInv, TypeOK, Rest

LEMMA WhatTyped ==
  ASSUME TInv, NEW th \in Threads, NEW do \in StatusCalls, Calls(th, do)
  PROVE  What(th) \in Statuses
<1>1. Head(at[th].todo) \in LegalCall /\ Head(at[th].todo).do = do
  BY HeadTyped DEF Calls
<1> QED
  BY <1>1 DEF LegalCall, What, StatusCalls, OtherCalls

LEMMA StartTyped ==
  ASSUME TInv, NEW th \in Threads, NEW op \in Ops(th), Start(th, op)
  PROVE  TInv'
<1>1. EInv'
  BY StartEInv DEF TInv
<1>2. PICK months \in IF op \in {"pay", "webExpire"} THEN Plans
                      ELSE IF op \in {"webGrant", "approvePayment"} THEN {1} ELSE {0} :
        /\ sold + at["bot"].months + at["web"].months + months <= MaxMonths
        /\ at' = [at EXCEPT ![th] = Handler(op, Program(op), months)]
  BY ZenonT(30) DEF Start
<1>3. op \in UserOps \cup AdminOps \cup DashboardOps \cup {"repair"}
  BY ConstantsOK DEF ConstantsOK, Ops, Threads
<1>4. th = "job" => months = 0
  BY ConstantsOK DEF ConstantsOK, Ops
<1>5. MaxMonths \in Nat /\ sold \in Nat /\ months \in Nat
  BY ConstantsOK DEF ConstantsOK, TInv, EInv
<1>6. at["bot"].months \in Nat /\ at["web"].months \in Nat
  BY LocalFields DEF TInv, TypeOK, Threads
<1>7. months \in 0..MaxMonths
  BY <1>2, <1>5, <1>6
<1>8. Handler(op, Program(op), months) \in Local /\ Handler(op, Program(op), months).months = months
  <2>1. op \in AllOps
    BY <1>3 DEF AllOps
  <2>2. Handler(op, Program(op), months) \in Local
    BY <1>3, <1>7, <2>1, ProgramsLegal, HandlerTyped
  <2> QED
    BY <2>2 DEF Handler
<1>9. at' \in [Threads -> Local]
  BY <1>2, <1>8 DEF TInv, TypeOK
<1>10. at'["job"].months = 0 /\ sold + at'["bot"].months + at'["web"].months <= MaxMonths
  <2>1. at \in [Threads -> Local] /\ at["job"].months = 0
    BY DEF TInv, TypeOK
  <2>2. CASE th = "bot"
    BY <1>2, <1>5, <1>6, <1>8, <2>1, <2>2 DEF Threads
  <2>3. CASE th = "web"
    BY <1>2, <1>5, <1>6, <1>8, <2>1, <2>3 DEF Threads
  <2>4. CASE th = "job"
    BY <1>2, <1>4, <1>5, <1>6, <1>8, <2>1, <2>4 DEF Threads
  <2> QED
    BY <2>2, <2>3, <2>4 DEF Threads
<1>11. TypeOK'
  <2>1. UNCHANGED <<row, panel, sold, leaked>> /\ said' = "none"
    BY DEF Start
  <2> QED
    BY <1>9, <2>1 DEF TInv, TypeOK
<1> QED
  BY <1>1, <1>10, <1>11 DEF TInv, Start

LEMMA WithTyped ==
  ASSUME NEW l \in Local, NEW u \in User, NEW n \in 0..MaxMonths
  PROVE  /\ [l EXCEPT !.user = u] \in Local /\ [l EXCEPT !.user = u].months = l.months
         /\ [l EXCEPT !.other = u] \in Local /\ [l EXCEPT !.other = u].months = l.months
         /\ [l EXCEPT !.until = n] \in Local /\ [l EXCEPT !.until = n].months = l.months
         /\ [l EXCEPT !.months = n] \in Local /\ [l EXCEPT !.months = n].months = n
  BY DEF Local

LEMMA NowTyped ==
  ASSUME TInv, NEW th \in Threads
  PROVE  /\ row \in User /\ at[th] \in Local /\ sold \in Nat /\ MaxMonths \in Nat
         /\ panel \in [on : BOOLEAN, until : 0..MaxMonths] /\ leaked \in BOOLEAN
         /\ at[th].until \in 0..MaxMonths /\ at[th].months \in 0..MaxMonths
         /\ at[th].user \in User /\ at[th].other \in User
         /\ sold + at[th].months <= MaxMonths
<1>1. row \in User /\ at[th] \in Local /\ sold \in Nat /\ MaxMonths \in Nat
  BY ConstantsOK DEF ConstantsOK, TInv, TypeOK, EInv
<1>2. panel \in [on : BOOLEAN, until : 0..MaxMonths]
  BY DEF TInv, TypeOK
<1>3. leaked \in BOOLEAN
  BY DEF TInv, TypeOK
<1>4. \A t \in Threads : at[t].months \in Nat
  BY LocalFields DEF TInv, TypeOK
<1>5. sold + at[th].months <= MaxMonths
  BY <1>1, <1>4 DEF TInv, Threads
<1> QED
  BY <1>1, <1>2, <1>3, <1>5, LocalFields

LEMMA GetTyped ==
  ASSUME TInv, NEW th \in Threads, GetUser(th)
  PROVE  TInv'
<1>1. EInv'
  BY GetEInv DEF TInv
<1>2. UNCHANGED <<row, panel, sold, leaked>> /\ Calls(th, "get")
  BY DEF GetUser
<1>3. CASE Stops(th)
  BY <1>1, <1>2, <1>3, NowTyped, StepTyped
<1>4. CASE ~Stops(th)
  <2> DEFINE until == Until(at[th].op, row, at[th].months)
             held == [at[th] EXCEPT !.user = row]
  <2>1. Goes(th, Rest(th), [at[th] EXCEPT !.user = row, !.until = until])
    BY <1>4 DEF GetUser
  <2>2. until \in 0..MaxMonths
    <3>1. until \in Nat /\ until <= sold + at[th].months
      BY NowTyped, UntilCovered DEF TInv
    <3> QED
      BY <3>1, NowTyped
  <2> HIDE DEF until
  <2>3. [at[th] EXCEPT !.user = row, !.until = until] = [held EXCEPT !.until = until]
    OBVIOUS
  <2>4. held \in Local /\ held.months = at[th].months
    BY NowTyped, WithTyped
  <2> HIDE DEF held
  <2>5. [held EXCEPT !.until = until] \in Local /\ [held EXCEPT !.until = until].months = at[th].months
    BY <2>2, <2>4, NowTyped, WithTyped
  <2>6. Rest(th) \in Seq(LegalCall)
    BY <1>2, HeadTyped DEF Calls
  <2> QED
    BY <1>1, <1>2, <2>1, <2>3, <2>5, <2>6, NowTyped, StepTyped
<1> QED
  BY <1>3, <1>4

LEMMA SaveTyped ==
  ASSUME TInv, NEW th \in Threads, SaveUser(th)
  PROVE  TInv'
<1> DEFINE was == at[th].user
           until == at[th].until
           new == Changed(What(th), was, until)
           sells == What(th) \in {"granted", "paid"}
           after == [at[th] EXCEPT !.user = new, !.months = IF sells THEN 0 ELSE @]
           left == IF sells THEN 0 ELSE at[th].months
           held == [at[th] EXCEPT !.user = new]
<1>1. EInv'
  BY SaveEInv DEF TInv
<1>2. /\ row \in User /\ at[th] \in Local /\ sold \in Nat /\ MaxMonths \in Nat
      /\ until \in 0..MaxMonths /\ at[th].months \in 0..MaxMonths
      /\ until <= sold + at[th].months
  BY NowTyped DEF TInv, EInv, Covered
<1>3. new \in User
  BY NowTyped, ChangedTyped
<1>4. /\ Rest(th) \in Seq(LegalCall) /\ Next3(Rest(th)) \in Seq(LegalCall)
      /\ Calls(th, "put") /\ UNCHANGED <<panel, leaked>>
  BY HeadTyped, Consumed DEF SaveUser, Calls, Next3
<1>5. PICK rest \in Seq(LegalCall) : Goes(th, rest, after)
  BY <1>4 DEF SaveUser
<1>6. row' \in User
  BY <1>2, <1>3 DEF SaveUser
<1>7. after \in Local /\ after.months = left
  <2>1. held \in Local /\ held.months = at[th].months
    BY <1>2, <1>3, WithTyped
  <2>2. left \in 0..MaxMonths
    BY <1>2
  <2>3. after = [held EXCEPT !.months = left]
    OBVIOUS
  <2> HIDE DEF held, left, after
  <2> QED
    BY <1>2, <2>1, <2>2, <2>3, WithTyped
<1>8. sold' \in Nat /\ sold' + left <= sold + at[th].months /\ sold' <= sold + at[th].months
  BY <1>2 DEF SaveUser
<1> HIDE DEF after, left, new
<1>9. /\ at' \in [Threads -> Local] /\ said' \in AllOps
      /\ \A t \in Threads \ {th} : at'[t] = at[t]
      /\ at'[th] = Idle \/ at'[th].months = left
  BY <1>5, <1>7, GoesTyped DEF TInv, TypeOK
<1>10. left \in Nat /\ left <= at[th].months
  BY <1>2 DEF left
<1>11. panel' \in [on : BOOLEAN, until : 0..MaxMonths] /\ leaked' \in BOOLEAN
  BY <1>4, NowTyped
<1> QED
  BY <1>1, <1>6, <1>8, <1>9, <1>10, <1>11, Assembled

LEMMA TransitionSaveTyped ==
  ASSUME TInv, NEW th \in Threads, TransitionSave(th)
  PROVE  TInv'
<1>1. EInv'
  BY TransitionSaveEInv DEF TInv
<1>2. /\ at[th] \in Local /\ at[th].other \in User
      /\ Rest(th) \in Seq(LegalCall) /\ UNCHANGED <<panel, sold, leaked>>
  BY NowTyped, HeadTyped DEF TransitionSave, Calls
<1>3. row' \in User
  BY <1>2 DEF TransitionSave, User
<1>4. NewUser \in User
  BY ConstantsOK DEF NewUser, User, Statuses, ConstantsOK
<1>5. /\ [at[th] EXCEPT !.other = NewUser] \in Local
      /\ [at[th] EXCEPT !.other = NewUser].months = at[th].months
  BY <1>2, <1>4, NowTyped, WithTyped
<1>6. Goes(th, Rest(th), [at[th] EXCEPT !.other = NewUser])
  BY DEF TransitionSave
<1> QED
  BY <1>1, <1>2, <1>3, <1>5, <1>6, NowTyped, StepTyped

LEMMA ReturnStates ==
  ASSUME NEW u
  PROVE  ReturnState(u) \in {"demo", "paid", "new"}
  BY DEF ReturnState

LEMMA TransitionTyped ==
  ASSUME TInv, NEW th \in Threads,
         \/ TransitionGet(th) \/ UpdateStatus(th) \/ FetchUser(th)
         \/ Approve(th) \/ ReturnFromSupport(th)
  PROVE  TInv'
<1>1. EInv' /\ at[th].todo # <<>> /\ UNCHANGED <<panel, sold, leaked>>
  BY CallEInv DEF TInv, TransitionGet, UpdateStatus, FetchUser, Approve, ReturnFromSupport, Calls
<1>2. /\ Rest(th) \in Seq(LegalCall) /\ Next3(at[th].todo) \in Seq(LegalCall)
      /\ at[th] \in Local /\ row \in User
  BY <1>1, HeadTyped, NowTyped
<1>3. \A s, t \in Seq(LegalCall) : s \o t \in Seq(LegalCall)
  BY Joined
<1>4. \A to \in Statuses : Transition(to) \in Seq(LegalCall) /\ SetState(to) \in Seq(LegalCall)
  BY PiecesLegal
<1>5. row' \in User
  <2>1. CASE UpdateStatus(th)
    <3>1. What(th) \in Statuses
      BY <2>1, WhatTyped DEF UpdateStatus, StatusCalls
    <3> QED
      BY <1>2, <2>1, <3>1 DEF UpdateStatus, User
  <2>2. CASE row' = row
    BY <1>2, <2>2
  <2> QED
    BY <2>1, <2>2 DEF TransitionGet, FetchUser, Approve, ReturnFromSupport
<1>6. [at[th] EXCEPT !.other = row] \in Local /\ [at[th] EXCEPT !.other = row].months = at[th].months
  BY <1>2, NowTyped, WithTyped
<1>7. [at[th] EXCEPT !.user = row] \in Local /\ [at[th] EXCEPT !.user = row].months = at[th].months
  BY <1>2, NowTyped, WithTyped
<1> DEFINE Moved == \/ Stops(th)
                    \/ \E rest \in Seq(LegalCall), local \in Local :
                         Goes(th, rest, local) /\ local.months = at[th].months
<1>8. CASE TransitionGet(th)
  <2>1. What(th) \in Statuses
    BY <1>8, WhatTyped DEF TransitionGet, StatusCalls
  <2>2. SetState(What(th)) \o Next3(at[th].todo) \in Seq(LegalCall)
    BY <1>2, <1>3, <1>4, <2>1
  <2>3. Moved
    BY <1>2, <1>6, <1>8, <2>2 DEF TransitionGet
  <2> QED
    BY <1>1, <1>5, <2>3, NowTyped, StepTyped
<1>9. CASE UpdateStatus(th)
  <2>1. Moved
    BY <1>2, <1>9 DEF UpdateStatus
  <2> QED
    BY <1>1, <1>5, <2>1, NowTyped, StepTyped
<1>10. CASE FetchUser(th)
  <2>1. Moved
    BY <1>2, <1>7, <1>10 DEF FetchUser
  <2> QED
    BY <1>1, <1>5, <2>1, NowTyped, StepTyped
<1>11. CASE Approve(th)
  <2>1. (IF at[th].user.status = "pending_demo" THEN "platform_select" ELSE "demo") \in Statuses
    BY DEF Statuses
  <2>2. Moved
    BY <1>2, <1>4, <1>11, <2>1 DEF Approve
  <2> QED
    BY <1>1, <1>5, <2>2, NowTyped, StepTyped
<1>12. CASE ReturnFromSupport(th)
  <2>1. ReturnState(row) \in Statuses
    BY ReturnStates DEF Statuses
  <2>2. /\ SetState(ReturnState(row)) \o Rest(th) \in Seq(LegalCall)
        /\ Transition(ReturnState(row)) \o Rest(th) \in Seq(LegalCall)
    BY <1>2, <1>3, <1>4, <2>1
  <2>3. Moved
    BY <1>2, <1>12, <2>2 DEF ReturnFromSupport
  <2> QED
    BY <1>1, <1>5, <2>3, NowTyped, StepTyped
<1> QED
  BY <1>8, <1>9, <1>10, <1>11, <1>12

LEMMA PanelTyped ==
  ASSUME TInv, NEW th \in Threads, PanelRemove(th) \/ PanelAdd(th) \/ PanelSync(th)
  PROVE  TInv'
<1>1. EInv' /\ at[th].todo # <<>> /\ UNCHANGED <<row, sold>>
  BY CallEInv DEF TInv, PanelRemove, PanelAdd, PanelSync, Calls
<1>2. Rest(th) \in Seq(LegalCall) /\ at[th] \in Local /\ row \in User
  BY <1>1, HeadTyped, NowTyped
<1>3. /\ panel \in [on : BOOLEAN, until : 0..MaxMonths] /\ MaxMonths \in Nat \ {0}
      /\ at[th].until \in 0..MaxMonths /\ at[th].user \in User
  BY NowTyped, ConstantsOK DEF ConstantsOK
<1>4. TierMonths(at[th].user) \in 0..MaxMonths /\ DemoMonths \in 0..MaxMonths
  BY <1>3 DEF TierMonths, DemoMonths, User
<1>5. NoClient \in [on : BOOLEAN, until : 0..MaxMonths]
  BY <1>3 DEF NoClient
<1>6. \A n \in 0..MaxMonths : [on |-> TRUE, until |-> n] \in [on : BOOLEAN, until : 0..MaxMonths]
  OBVIOUS
<1>7. panel' \in [on : BOOLEAN, until : 0..MaxMonths]
  <2>1. CASE PanelRemove(th)
    BY <1>3, <1>5, <2>1 DEF PanelRemove
  <2>2. CASE PanelAdd(th)
    BY <1>3, <1>4, <1>6, <2>2 DEF PanelAdd
  <2>3. CASE PanelSync(th)
    BY <1>3, <1>6, <2>3 DEF PanelSync
  <2> QED
    BY <2>1, <2>2, <2>3
<1>8. leaked' \in BOOLEAN
  <2>1. leaked' = leaked \/ leaked' = TRUE
    BY DEF PanelRemove, PanelAdd, PanelSync
  <2> QED
    BY <2>1, NowTyped
<1>9. Goes(th, Rest(th), at[th]) \/ Stops(th)
  BY DEF PanelRemove, PanelAdd, PanelSync
<1> QED
  BY <1>1, <1>2, <1>7, <1>8, <1>9, StepTyped

LEMMA TimeTyped ==
  ASSUME TInv, Month \/ Purge \/ Crash \/ UNCHANGED vars
  PROVE  TInv'
<1>1. EInv'
  BY MonthEInv, RestEInv DEF TInv
<1>3. MaxMonths \in Nat
  BY ConstantsOK DEF ConstantsOK
<1>2. \A n \in 0..MaxMonths : Less(n) \in 0..MaxMonths /\ Less(n) <= n
  BY <1>3 DEF Less
<1>4. /\ row \in User /\ panel \in [on : BOOLEAN, until : 0..MaxMonths] /\ at \in [Threads -> Local]
      /\ sold \in 0..MaxMonths
      /\ said \in {"none"} \cup UserOps \cup AdminOps \cup DashboardOps \cup {"repair"}
      /\ at["job"].months = 0 /\ sold + at["bot"].months + at["web"].months <= MaxMonths
  BY DEF TInv, TypeOK
<1>5. leaked \in BOOLEAN
  BY DEF TInv, TypeOK
<1>6. at["bot"].months \in Nat /\ at["web"].months \in Nat
  BY <1>4, LocalFields DEF Threads
<1>7. CASE Month
  <2>1. row' \in User
    BY <1>2, <1>4, <1>7 DEF Month, User
  <2>2. panel' \in [on : BOOLEAN, until : 0..MaxMonths]
    BY <1>2, <1>4, <1>7 DEF Month
  <2>3. sold' \in 0..MaxMonths /\ sold' <= sold /\ UNCHANGED <<at, leaked>> /\ said' = "none"
    BY <1>2, <1>4, <1>7 DEF Month
  <2>4. sold' + at'["bot"].months + at'["web"].months <= MaxMonths /\ at'["job"].months = 0
    BY <1>3, <1>4, <1>6, <2>3
  <2>5. TypeOK'
    BY <1>4, <1>5, <2>1, <2>2, <2>3 DEF TypeOK
  <2> QED
    BY <1>1, <2>4, <2>5 DEF TInv
<1>8. CASE Purge
  <2>1. panel' \in [on : BOOLEAN, until : 0..MaxMonths] /\ UNCHANGED <<row, at, sold, leaked>> /\ said' = "none"
    BY <1>3, <1>8 DEF Purge, NoClient
  <2>2. TypeOK'
    BY <1>4, <1>5, <2>1 DEF TypeOK
  <2> QED
    BY <1>1, <1>4, <2>1, <2>2 DEF TInv
<1>9. CASE Crash
  <2>1. at' = [th \in Threads |-> Idle] /\ UNCHANGED <<row, panel, sold, leaked>> /\ said' = "none"
    BY <1>9 DEF Crash
  <2>2. at' \in [Threads -> Local]
    BY <2>1, IdleTyped
  <2>3. Idle.months = 0
    BY DEF Idle, Handler
  <2>4. sold' + at'["bot"].months + at'["web"].months <= MaxMonths /\ at'["job"].months = 0
    BY <1>3, <1>4, <2>1, <2>3 DEF Threads
  <2>5. TypeOK'
    BY <1>4, <1>5, <2>1, <2>2 DEF TypeOK
  <2> QED
    BY <1>1, <2>4, <2>5 DEF TInv
<1>10. CASE UNCHANGED vars
  <2>1. TypeOK'
    BY <1>4, <1>5, <1>10 DEF TypeOK, vars
  <2> QED
    BY <1>1, <1>4, <1>10, <2>1 DEF TInv, vars
<1> QED
  BY <1>7, <1>8, <1>9, <1>10

LEMMA NextTyped == TInv /\ [Next]_vars => TInv'
<1> SUFFICES ASSUME TInv, [Next]_vars PROVE TInv'
  OBVIOUS
<1>1. ASSUME NEW th \in Threads, Step(th) PROVE TInv'
  BY <1>1, GetTyped, SaveTyped, TransitionSaveTyped, TransitionTyped, PanelTyped DEF Step
<1>2. ASSUME NEW th \in Threads, NEW op \in Ops(th), Start(th, op) PROVE TInv'
  BY <1>2, StartTyped
<1>3. CASE Month \/ Purge \/ Crash \/ UNCHANGED vars
  BY <1>3, TimeTyped
<1> QED
  BY <1>1, <1>2, <1>3 DEF Next

\* Every variable has its type however the bot's, the dashboard's and the job's
\* handlers interleave, crash and fail: a handler only ever has calls left that
\* the code makes, a save writes a user with a status the schema knows, and the
\* dates stay within what was sold (UserRepository.save, StateMachine.transition).
THEOREM TypeCorrect == Spec => []TypeOK
<1>1. TInv => TypeOK
  BY DEF TInv
<1> QED
  BY <1>1, InitTyped, NextTyped, PTL DEF Spec

-----------------------------------------------------------------------------
(* Handlers that run one at a time. A handler is a sequence of calls, so   *)
(* the argument is in three parts: which calls may follow which (Runs,     *)
(* which every Program is and which every step keeps); what holds of the   *)
(* row, the panel and the objects held while the handler is at a call      *)
(* (StatusHolds, DateHolds, KeyHolds), with one lemma per call on what     *)
(* holds at the call after it; and the same of the thread that is busy,    *)
(* action by action (Kept).                                                *)

Lifting == {"unban", "webUnban", "reset", "webReset", "resetApproval"}
Refetching == {"reset", "webApprove", "webReject", "webBan", "webUnban", "webReset", "webGrant"}
Clearing == {"keyless", "cleared"}
Granting == {"pay", "approvePayment", "webGrant"}
Handlers == UserOps \cup AdminOps \cup DashboardOps \cup {"repair"}

\* What a handler may save, and the statuses it may ask for.
Saves(op) ==
  CASE op \in {"platform", "webQuota"} -> {"same"}
    [] op = "getKey" -> {"key"}
    [] op = "message" -> {"topic"}
    [] op \in Granting -> {"granted"}
    [] op \in {"reject", "ban", "unban", "webBan", "webUnban"} -> {"keyless"}
    [] op \in {"rejectButton", "webReject"} -> {"keyless", "rejected"}
    [] op \in {"reset", "resetApproval"} -> {"cleared"}
    [] op = "webReset" -> {"keyless", "cleared"}
    [] op = "closeTicket" -> {"noTopic"}
    [] op = "webExpire" -> {"paid"}
    [] OTHER -> {}

Targets(op) ==
  CASE op = "requestAuto" -> {"pending_demo", "platform_select"}
    [] op = "platform" -> {"demo"}
    [] op = "approve" -> {"platform_select", "demo"}
    [] op \in {"closeTicket", "repair"} -> {"demo", "paid", "new"}
    [] op \in {"getKey", "message", "webQuota", "webExpire"} -> {}
    [] OTHER -> Promise(op)

\* A call that a handler may make, one that may follow another, and the last one.
Fits(op, c) ==
  /\ c.do \in StatusCalls => c.what \in Targets(op)
  /\ c.do = "put" => c.what \in Saves(op)
  /\ c.do = "force" => op \in {"reset", "webReset", "closeTicket", "repair"}
  /\ c.do = "fetch" => op \in Refetching \cup Granting
  /\ c.do = "remove" => op \notin {"support", "repair"}
  /\ c.do = "sync" => op \in Granting \cup {"webExpire"}
  /\ c.do = "add" => op = "getKey"
  /\ c.do = "approve" => op = "approve"
  /\ c.do = "return" => op \in {"closeTicket", "repair"}

Clears(c) == c.do = "put" /\ c.what \in Clearing

\* Calls on a user read again after the status was set.
Refetched(op, c) ==
  /\ op \in Refetching
  /\ \/ c.do = "put" /\ ~(op = "webReset" /\ c.what = "keyless")
     \/ c.do = "remove" /\ op \in {"webBan", "webReject"}

Follows(op, a, c) ==
  /\ c.do # "get"
  /\ a.do = "smGet" => c = Call("smSave", a.what)
  /\ a.do = "smSave" => c = Call("smStatus", a.what)
  /\ a = Call("put", "granted") => c = Call("smGet", "paid")
  /\ a.do = "add" => c.do = "put"
  /\ a.do = "return" => c = Call("put", "noTopic")
  /\ c.do = "smSave" => a = Call("smGet", c.what)
  /\ c.do = "smStatus" => a = Call("smSave", c.what)
  /\ c.do = "force" => \/ op = "reset" /\ a.do = "remove"
                       \/ op = "webReset" /\ a = Call("put", "keyless")
  /\ c.do = "fetch" /\ op \in Refetching => a.do \in {"smStatus", "force"}
  /\ c.do = "fetch" /\ op \in {"reset", "webReset"} => a.do = "force"
  /\ c.do = "sync" /\ op \in Refetching => a.do = "smStatus"
  /\ op = "webBan" => /\ a.do = "smStatus" => c.do = "fetch"
                      /\ a.do \in {"fetch", "remove"} => c.do \in {"remove", "put"}
  /\ Refetched(op, c) => a.do = "fetch" \/ Refetched(op, a)
  /\ Clears(c) => \/ a.do = "remove" \/ op \in {"unban", "webUnban"}
                  \/ op \in {"reset", "webReset"} /\ a.do = "fetch"
  /\ c.do = "smGet" =>
       /\ op = "ban" => a = Call("put", "keyless")
       /\ op = "webBan" => a.do = "get"
       /\ op \in {"request", "requestAuto"} =>
            \/ a.do = "get" /\ c.what = "pending_demo"
            \/ a = Call("smStatus", "pending_demo")
       /\ op \notin {"approve", "closeTicket", "repair"}
  /\ c.do = "remove" /\ op = "ban" => a.do = "get"
  /\ c.do = "put" /\ op = "webUnban" => a.do = "fetch"

Concludes(op, c) ==
  /\ c.do \notin {"smGet", "smSave", "add"} /\ c # Call("put", "granted")
  /\ op \in {"request", "requestAuto", "support"} =>
       c.do = "smStatus" /\ c.what \in Promise(op)
  /\ op \in {"getKey", "webBan", "reset"} => c.do = "put"
  /\ op \in Refetching => c.do \in {"fetch", "sync"} \/ Refetched(op, c)

\* The calls a handler has left.
Runs(op, s) ==
  /\ \A i \in 1..Len(s) : Fits(op, s[i])
  /\ \A i \in 2..Len(s) : Follows(op, s[i-1], s[i])
  /\ s # <<>> => Concludes(op, s[Len(s)])

LEMMA TailRuns ==
  ASSUME NEW op, NEW s \in Seq(LegalCall), s # <<>>, Runs(op, s)
  PROVE  /\ Runs(op, Tail(s))
         /\ Tail(s) # <<>> => Fits(op, s[2]) /\ Follows(op, s[1], s[2]) /\ Tail(s)[1] = s[2]
         /\ Tail(s) = <<>> => Concludes(op, s[1])
         /\ Fits(op, s[1]) /\ Head(s) = s[1]
<1> DEFINE t == Tail(s)
<1>1. /\ Len(s) \in Nat /\ Len(s) > 0 /\ t \in Seq(LegalCall)
      /\ Len(t) = Len(s) - 1 /\ (\A i \in 1..Len(t) : t[i] = s[i+1])
  <2>1. Len(s) \in Nat /\ Len(s) > 0
    BY EmptySeq, LenProperties
  <2> QED
    BY <2>1, HeadTailProperties
<1>2. t = <<>> <=> Len(t) = 0
  BY <1>1, EmptySeq
<1> HIDE DEF t
<1>3. \A i \in 1..Len(t) : Fits(op, t[i])
  <2> TAKE i \in 1..Len(t)
  <2>1. i+1 \in 1..Len(s) /\ t[i] = s[i+1]
    BY <1>1
  <2> QED
    BY <2>1 DEF Runs
<1>4. \A i \in 2..Len(t) : Follows(op, t[i-1], t[i])
  <2> TAKE i \in 2..Len(t)
  <2>1. i+1 \in 2..Len(s) /\ t[i] = s[i+1] /\ t[i-1] = s[(i+1)-1]
    BY <1>1
  <2> QED
    BY <2>1 DEF Runs
<1>5. t # <<>> => Concludes(op, t[Len(t)])
  <2>1. t # <<>> => t[Len(t)] = s[Len(s)]
    BY <1>1, <1>2
  <2> QED
    BY <2>1 DEF Runs
<1>7. Runs(op, t)
  BY <1>3, <1>4, <1>5 DEF Runs
<1>8. t # <<>> => Fits(op, s[2]) /\ Follows(op, s[1], s[2]) /\ t[1] = s[2]
  <2> HAVE t # <<>>
  <2>1. 1 \in 1..Len(t) /\ 2 \in 2..Len(s) /\ 2 \in 1..Len(s) /\ 2-1 = 1
    BY <1>1, <1>2
  <2> QED
    BY <1>1, <2>1 DEF Runs
<1>9. t = <<>> => Concludes(op, s[1])
  <2>1. t = <<>> => Len(s) = 1
    BY <1>1, <1>2
  <2> QED
    BY <2>1 DEF Runs
<1>10. Fits(op, s[1]) /\ Head(s) = s[1]
  <2>1. 1 \in 1..Len(s)
    BY <1>1
  <2> QED
    BY <2>1, HeadTailProperties DEF Runs
<1> QED
  BY <1>7, <1>8, <1>9, <1>10 DEF t

-----------------------------------------------------------------------------
(* Every handler's program is such a run: it is put together from parts.   *)

\* Part of a handler's calls, from a to b.
Part(op, s, a, b) ==
  /\ s \in Seq(LegalCall) /\ s # <<>> /\ s[1] = a /\ s[Len(s)] = b
  /\ \A i \in 1..Len(s) : Fits(op, s[i])
  /\ \A i \in 2..Len(s) : Follows(op, s[i-1], s[i])

LEMMA OneCall ==
  ASSUME NEW op, NEW c \in LegalCall, Fits(op, c)
  PROVE  Part(op, <<c>>, c, c)
<1> HIDE DEF LegalCall
<1>1. <<c>> \in Seq(LegalCall) /\ Len(<<c>>) = 1 /\ <<c>>[1] = c /\ <<c>> # <<>>
  OBVIOUS
<1> QED
  BY <1>1 DEF Part

LEMMA JoinParts ==
  ASSUME NEW op, NEW s, NEW a, NEW b, NEW t, NEW c, NEW d,
         Part(op, s, a, b), Part(op, t, c, d), Follows(op, b, c)
  PROVE  Part(op, s \o t, a, d)
<1> DEFINE u == s \o t
           n == Len(s)
           m == Len(t)
<1>1. s \in Seq(LegalCall) /\ t \in Seq(LegalCall) /\ n \in Nat \ {0} /\ m \in Nat \ {0}
  BY EmptySeq, LenProperties DEF Part
<1>2. u \in Seq(LegalCall) /\ Len(u) = n + m
  BY <1>1, ConcatProperties
<1>3. \A i \in 1..n+m : u[i] = IF i <= n THEN s[i] ELSE t[i-n]
  BY <1>1, ConcatProperties
<1> HIDE DEF u, n, m
<1>4. u # <<>> /\ u[1] = a /\ u[n+m] = d
  <2>1. u # <<>>
    BY <1>1, <1>2, EmptySeq
  <2>2. u[1] = s[1]
    BY <1>1, <1>3
  <2>3. u[n+m] = t[m]
    <3>1. n+m \in 1..n+m /\ ~(n+m <= n) /\ (n+m)-n = m
      BY <1>1
    <3> QED
      BY <1>3, <3>1
  <2> QED
    BY <2>1, <2>2, <2>3 DEF Part, m
<1>5. ASSUME NEW i \in 1..n+m PROVE Fits(op, u[i])
  <2>1. CASE i <= n
    BY <1>1, <1>3, <2>1 DEF Part, n
  <2>2. CASE ~(i <= n)
    <3>1. i-n \in 1..m /\ u[i] = t[i-n]
      BY <1>1, <1>3, <2>2
    <3> QED
      BY <3>1 DEF Part, m
  <2> QED
    BY <2>1, <2>2
<1>6. ASSUME NEW i \in 2..n+m PROVE Follows(op, u[i-1], u[i])
  <2>1. CASE i <= n
    <3>1. u[i] = s[i] /\ u[i-1] = s[i-1] /\ i \in 2..n
      BY <1>1, <1>3, <2>1
    <3> QED
      BY <3>1 DEF Part, n
  <2>2. CASE i = n+1
    <3>1. u[i] = t[1] /\ u[i-1] = s[n]
      BY <1>1, <1>3, <2>2
    <3> QED
      BY <3>1 DEF Part, n
  <2>3. CASE i > n+1
    <3>1. i-n \in 2..m /\ (i-1)-n = (i-n)-1 /\ i-1 \in 1..n+m /\ ~(i-1 <= n)
      BY <1>1, <2>3
    <3>2. u[i] = t[i-n] /\ u[i-1] = t[(i-n)-1]
      BY <1>1, <1>3, <2>3, <3>1
    <3> QED
      BY <3>1, <3>2 DEF Part, m
  <2> QED
    BY <1>1, <2>1, <2>2, <2>3
<1>7. Part(op, u, a, d)
  BY <1>2, <1>4, <1>5, <1>6 DEF Part
<1> QED
  BY <1>7 DEF u

LEMMA PartRuns ==
  ASSUME NEW op, NEW s, NEW a, NEW b, Part(op, s, a, b), Concludes(op, b)
  PROVE  Runs(op, s) /\ s # <<>> /\ s[1] = a
  BY DEF Part, Runs

LEMMA PartsFit ==
  ASSUME NEW op
  PROVE  /\ Part(op, Get, Call("get", ""), Call("get", ""))
         /\ op \in Refetching \cup Granting => Part(op, Fetch, Call("fetch", ""), Call("fetch", ""))
         /\ \A what \in SaveKinds \cap Saves(op) :
              Part(op, Put(what), Call("put", what), Call("put", what))
         /\ \A to \in Statuses \cap Targets(op) :
              Part(op, Transition(to), Call("smGet", to), Call("smStatus", to))
         /\ \A to \in Statuses \cap Targets(op) : op \in {"reset", "webReset", "closeTicket", "repair"} =>
              Part(op, SetState(to), Call("force", to), Call("force", to))
         /\ op \in {"reject", "rejectButton", "ban", "webReject", "webBan", "webReset"} =>
              Part(op, Revoke, Call("remove", ""), Call("put", "keyless"))
         /\ op \notin {"support", "repair"} =>
              Part(op, <<Call("remove", "")>>, Call("remove", ""), Call("remove", ""))
         /\ op = "getKey" => Part(op, <<Call("add", "")>>, Call("add", ""), Call("add", ""))
         /\ op = "approve" => Part(op, <<Call("approve", "")>>, Call("approve", ""), Call("approve", ""))
         /\ op \in {"closeTicket", "repair"} =>
              Part(op, <<Call("return", "")>>, Call("return", ""), Call("return", ""))
         /\ op \in Granting \cup {"webExpire"} =>
              Part(op, <<Call("sync", "")>>, Call("sync", ""), Call("sync", ""))
<1>1. \A do \in OtherCalls : Call(do, "") \in LegalCall
  BY CallLegal DEF SaveKinds
<1>2. /\ \A do \in StatusCalls, to \in Statuses : Call(do, to) \in LegalCall
      /\ \A what \in SaveKinds : Call("put", what) \in LegalCall
  BY CallLegal DEF OtherCalls
<1>3. Part(op, Get, Call("get", ""), Call("get", ""))
  <2>1. Call("get", "") \in LegalCall /\ Fits(op, Call("get", ""))
    BY <1>1 DEF OtherCalls, Fits, Call, StatusCalls
  <2> QED
    BY <2>1, OneCall DEF Get
<1>4. op \in Refetching \cup Granting => Part(op, Fetch, Call("fetch", ""), Call("fetch", ""))
  <2>1. Call("fetch", "") \in LegalCall /\ (op \in Refetching \cup Granting => Fits(op, Call("fetch", "")))
    BY <1>1 DEF OtherCalls, Fits, Call, StatusCalls
  <2> QED
    BY <2>1, OneCall DEF Fetch
<1>5. \A what \in SaveKinds \cap Saves(op) : Part(op, Put(what), Call("put", what), Call("put", what))
  <2>1. \A what \in SaveKinds \cap Saves(op) : Fits(op, Call("put", what))
    BY DEF Fits, Call, StatusCalls
  <2> QED
    BY <1>2, <2>1, OneCall DEF Put
<1>6. \A to \in Statuses \cap Targets(op) :
        Part(op, Transition(to), Call("smGet", to), Call("smStatus", to))
  <2> TAKE to \in Statuses \cap Targets(op)
  <2> DEFINE a == Call("smGet", to)
             b == Call("smSave", to)
             c == Call("smStatus", to)
  <2>1. a \in LegalCall /\ b \in LegalCall /\ c \in LegalCall
    BY <1>2 DEF StatusCalls
  <2>2. Fits(op, a) /\ Fits(op, b) /\ Fits(op, c)
    BY DEF Fits, Call
  <2>3. Follows(op, a, b) /\ Follows(op, b, c)
    BY DEF Follows, Refetched, Clears, Call
  <2> HIDE DEF a, b, c
  <2>4. /\ <<a, b, c>> \in Seq(LegalCall) /\ Len(<<a, b, c>>) = 3 /\ <<a, b, c>> # <<>>
        /\ <<a, b, c>>[1] = a /\ <<a, b, c>>[2] = b /\ <<a, b, c>>[3] = c
    <3> HIDE DEF LegalCall
    <3> QED
      BY <2>1
  <2>5. Part(op, <<a, b, c>>, a, c)
    BY <2>2, <2>3, <2>4 DEF Part
  <2> QED
    BY <2>5 DEF Transition, a, b, c
<1>7. \A to \in Statuses \cap Targets(op) : op \in {"reset", "webReset", "closeTicket", "repair"} =>
        Part(op, SetState(to), Call("force", to), Call("force", to))
  <2>1. \A to \in Statuses \cap Targets(op) : op \in {"reset", "webReset", "closeTicket", "repair"} =>
          Fits(op, Call("force", to)) /\ Call("force", to) \in LegalCall
    BY <1>2 DEF Fits, Call, StatusCalls
  <2> QED
    BY <2>1, OneCall DEF SetState
<1>8. op \notin {"support", "repair"} =>
        Part(op, <<Call("remove", "")>>, Call("remove", ""), Call("remove", ""))
  <2>1. Call("remove", "") \in LegalCall /\ (op \notin {"support", "repair"} => Fits(op, Call("remove", "")))
    BY <1>1 DEF OtherCalls, Fits, Call, StatusCalls
  <2> QED
    BY <2>1, OneCall
<1>9. op \in {"reject", "rejectButton", "ban", "webReject", "webBan", "webReset"} =>
        Part(op, Revoke, Call("remove", ""), Call("put", "keyless"))
  <2> HAVE op \in {"reject", "rejectButton", "ban", "webReject", "webBan", "webReset"}
  <2>1. "keyless" \in SaveKinds \cap Saves(op)
    BY DEF SaveKinds, Saves, Granting
  <2>2. Follows(op, Call("remove", ""), Call("put", "keyless"))
    BY DEF Follows, Refetched, Clears, Call, Clearing, Refetching
  <2> QED
    BY <1>5, <1>8, <2>1, <2>2, JoinParts DEF Revoke
<1>10. op = "getKey" => Part(op, <<Call("add", "")>>, Call("add", ""), Call("add", ""))
  <2>1. Call("add", "") \in LegalCall /\ (op = "getKey" => Fits(op, Call("add", "")))
    BY <1>1 DEF OtherCalls, Fits, Call, StatusCalls
  <2> QED
    BY <2>1, OneCall
<1>11. op = "approve" => Part(op, <<Call("approve", "")>>, Call("approve", ""), Call("approve", ""))
  <2>1. Call("approve", "") \in LegalCall /\ (op = "approve" => Fits(op, Call("approve", "")))
    BY <1>1 DEF OtherCalls, Fits, Call, StatusCalls
  <2> QED
    BY <2>1, OneCall
<1>12. op \in {"closeTicket", "repair"} =>
         Part(op, <<Call("return", "")>>, Call("return", ""), Call("return", ""))
  <2>1. Call("return", "") \in LegalCall /\ (op \in {"closeTicket", "repair"} => Fits(op, Call("return", "")))
    BY <1>1 DEF OtherCalls, Fits, Call, StatusCalls
  <2> QED
    BY <2>1, OneCall
<1>13. op \in Granting \cup {"webExpire"} =>
         Part(op, <<Call("sync", "")>>, Call("sync", ""), Call("sync", ""))
  <2>1. Call("sync", "") \in LegalCall /\ (op \in Granting \cup {"webExpire"} => Fits(op, Call("sync", "")))
    BY <1>1 DEF OtherCalls, Fits, Call, StatusCalls
  <2> QED
    BY <2>1, OneCall
<1> QED
  BY <1>3, <1>4, <1>5, <1>6, <1>7, <1>8, <1>9, <1>10, <1>11, <1>12, <1>13

LEMMA GrantPart ==
  ASSUME NEW op \in Granting
  PROVE  Part(op, Grant, Call("fetch", ""), Call("sync", ""))
<1>1. /\ Part(op, Fetch, Call("fetch", ""), Call("fetch", ""))
      /\ Part(op, Put("granted"), Call("put", "granted"), Call("put", "granted"))
      /\ Part(op, Transition("paid"), Call("smGet", "paid"), Call("smStatus", "paid"))
      /\ Part(op, <<Call("sync", "")>>, Call("sync", ""), Call("sync", ""))
  BY PartsFit DEF Granting, Saves, Targets, Promise, SaveKinds, Statuses
<1>2. /\ Follows(op, Call("fetch", ""), Call("put", "granted"))
      /\ Follows(op, Call("put", "granted"), Call("smGet", "paid"))
      /\ Follows(op, Call("smStatus", "paid"), Call("sync", ""))
  BY DEF Follows, Refetched, Clears, Call, Clearing, Granting
<1>3. Part(op, Fetch \o Put("granted"), Call("fetch", ""), Call("put", "granted"))
  BY <1>1, <1>2, JoinParts
<1>4. Part(op, Fetch \o Put("granted") \o Transition("paid"), Call("fetch", ""), Call("smStatus", "paid"))
  BY <1>1, <1>2, <1>3, JoinParts
<1> QED
  BY <1>1, <1>2, <1>4, JoinParts DEF Grant

LEMMA DemoRequestRuns == Runs("request", DemoRequest) /\ DemoRequest # <<>> /\ DemoRequest[1] = Call("get", "")
<1>0. "pending_demo" \in Statuses \cap Targets("request")
  BY DEF Statuses, Targets, Promise
<1>1. /\ Part("request", Get, Call("get", ""), Call("get", ""))
      /\ Part("request", Transition("pending_demo"), Call("smGet", "pending_demo"), Call("smStatus", "pending_demo"))
  BY <1>0, PartsFit DEF Saves, Targets, Promise, Granting, Refetching
<1>2. /\ Follows("request", Call("get", ""), Call("smGet", "pending_demo"))
      /\ Concludes("request", Call("smStatus", "pending_demo"))
  BY DEF Follows, Concludes, Refetched, Clears, Call, Promise, StatusCalls, Clearing, Refetching
<1>3. Part("request", Get \o Transition("pending_demo"),
          Call("get", ""), Call("smStatus", "pending_demo"))
  BY <1>1, <1>2, JoinParts
<1> QED
  BY <1>2, <1>3, PartRuns DEF DemoRequest

LEMMA AutoApprovalRuns == Runs("requestAuto", AutoApproval) /\ AutoApproval # <<>> /\ AutoApproval[1] = Call("get", "")
<1>1. /\ Part("requestAuto", Get, Call("get", ""), Call("get", ""))
      /\ Part("requestAuto", Transition("pending_demo"), Call("smGet", "pending_demo"), Call("smStatus", "pending_demo"))
      /\ Part("requestAuto", Transition("platform_select"), Call("smGet", "platform_select"), Call("smStatus", "platform_select"))
  BY PartsFit DEF SaveKinds, Statuses, Saves, Targets, Promise, Granting, Refetching
<1>2. /\ Follows("requestAuto", Call("get", ""), Call("smGet", "pending_demo"))
      /\ Follows("requestAuto", Call("smStatus", "pending_demo"), Call("smGet", "platform_select"))
      /\ Concludes("requestAuto", Call("smStatus", "platform_select"))
  BY DEF Follows, Concludes, Refetched, Clears, Call, Promise, StatusCalls, Clearing, Refetching
<1>3. Part("requestAuto", Get \o Transition("pending_demo"),
          Call("get", ""), Call("smStatus", "pending_demo"))
  BY <1>1, <1>2, JoinParts
<1>4. Part("requestAuto", Get \o Transition("pending_demo") \o Transition("platform_select"),
          Call("get", ""), Call("smStatus", "platform_select"))
  BY <1>1, <1>2, <1>3, JoinParts
<1> QED
  BY <1>2, <1>4, PartRuns DEF AutoApproval, DemoRequest

LEMMA PlatformSelectRuns == Runs("platform", PlatformSelect) /\ PlatformSelect # <<>> /\ PlatformSelect[1] = Call("get", "")
<1>1. /\ Part("platform", Get, Call("get", ""), Call("get", ""))
      /\ Part("platform", Put("same"), Call("put", "same"), Call("put", "same"))
      /\ Part("platform", Transition("demo"), Call("smGet", "demo"), Call("smStatus", "demo"))
  BY PartsFit DEF SaveKinds, Statuses, Saves, Targets, Promise, Granting, Refetching
<1>2. /\ Follows("platform", Call("get", ""), Call("put", "same"))
      /\ Follows("platform", Call("put", "same"), Call("smGet", "demo"))
      /\ Concludes("platform", Call("smStatus", "demo"))
  BY DEF Follows, Concludes, Refetched, Clears, Call, Promise, StatusCalls, Clearing, Refetching
<1>3. Part("platform", Get \o Put("same"),
          Call("get", ""), Call("put", "same"))
  BY <1>1, <1>2, JoinParts
<1>4. Part("platform", Get \o Put("same") \o Transition("demo"),
          Call("get", ""), Call("smStatus", "demo"))
  BY <1>1, <1>2, <1>3, JoinParts
<1> QED
  BY <1>2, <1>4, PartRuns DEF PlatformSelect

LEMMA GetKeyRuns == Runs("getKey", GetKey) /\ GetKey # <<>> /\ GetKey[1] = Call("get", "")
<1>1. /\ Part("getKey", Get, Call("get", ""), Call("get", ""))
      /\ Part("getKey", <<Call("add", "")>>, Call("add", ""), Call("add", ""))
      /\ Part("getKey", Put("key"), Call("put", "key"), Call("put", "key"))
  BY PartsFit DEF SaveKinds, Statuses, Saves, Targets, Promise, Granting, Refetching
<1>2. /\ Follows("getKey", Call("get", ""), Call("add", ""))
      /\ Follows("getKey", Call("add", ""), Call("put", "key"))
      /\ Concludes("getKey", Call("put", "key"))
  BY DEF Follows, Concludes, Refetched, Clears, Call, Promise, StatusCalls, Clearing, Refetching
<1>3. Part("getKey", Get \o <<Call("add", "")>>,
          Call("get", ""), Call("add", ""))
  BY <1>1, <1>2, JoinParts
<1>4. Part("getKey", Get \o <<Call("add", "")>> \o Put("key"),
          Call("get", ""), Call("put", "key"))
  BY <1>1, <1>2, <1>3, JoinParts
<1> QED
  BY <1>2, <1>4, PartRuns DEF GetKey

LEMMA SupportRequestRuns == Runs("support", SupportRequest) /\ SupportRequest # <<>> /\ SupportRequest[1] = Call("smGet", "support_topic")
<1>0. "support_topic" \in Statuses \cap Targets("support")
  BY DEF Statuses, Targets, Promise
<1>1. /\ Part("support", Transition("support_topic"), Call("smGet", "support_topic"), Call("smStatus", "support_topic"))
  BY <1>0, PartsFit DEF Saves, Targets, Promise, Granting, Refetching
<1>2. /\ Concludes("support", Call("smStatus", "support_topic"))
  BY DEF Follows, Concludes, Refetched, Clears, Call, Promise, StatusCalls, Clearing, Refetching
<1> QED
  BY <1>1, <1>2, PartRuns DEF SupportRequest

LEMMA SupportMessageRuns == Runs("message", SupportMessage) /\ SupportMessage # <<>> /\ SupportMessage[1] = Call("get", "")
<1>1. /\ Part("message", Get, Call("get", ""), Call("get", ""))
      /\ Part("message", Put("topic"), Call("put", "topic"), Call("put", "topic"))
  BY PartsFit DEF SaveKinds, Statuses, Saves, Targets, Promise, Granting, Refetching
<1>2. /\ Follows("message", Call("get", ""), Call("put", "topic"))
      /\ Concludes("message", Call("put", "topic"))
  BY DEF Follows, Concludes, Refetched, Clears, Call, Promise, StatusCalls, Clearing, Refetching
<1>3. Part("message", Get \o Put("topic"),
          Call("get", ""), Call("put", "topic"))
  BY <1>1, <1>2, JoinParts
<1> QED
  BY <1>2, <1>3, PartRuns DEF SupportMessage

LEMMA SuccessfulPaymentRuns == Runs("pay", SuccessfulPayment) /\ SuccessfulPayment # <<>> /\ SuccessfulPayment[1] = Call("get", "")
<1>1. /\ Part("pay", Get, Call("get", ""), Call("get", ""))
      /\ Part("pay", Grant, Call("fetch", ""), Call("sync", ""))
  BY PartsFit, GrantPart DEF SaveKinds, Statuses, Saves, Targets, Promise, Granting, Refetching
<1>2. /\ Follows("pay", Call("get", ""), Call("fetch", ""))
      /\ Concludes("pay", Call("sync", ""))
  BY DEF Follows, Concludes, Refetched, Clears, Call, Promise, StatusCalls, Clearing, Refetching
<1>3. Part("pay", Get \o Grant,
          Call("get", ""), Call("sync", ""))
  BY <1>1, <1>2, JoinParts
<1> QED
  BY <1>2, <1>3, PartRuns DEF SuccessfulPayment

LEMMA ApproveUserRuns == Runs("approve", ApproveUser) /\ ApproveUser # <<>> /\ ApproveUser[1] = Call("get", "")
<1>1. /\ Part("approve", Get, Call("get", ""), Call("get", ""))
      /\ Part("approve", <<Call("approve", "")>>, Call("approve", ""), Call("approve", ""))
  BY PartsFit DEF SaveKinds, Statuses, Saves, Targets, Promise, Granting, Refetching
<1>2. /\ Follows("approve", Call("get", ""), Call("approve", ""))
      /\ Concludes("approve", Call("approve", ""))
  BY DEF Follows, Concludes, Refetched, Clears, Call, Promise, StatusCalls, Clearing, Refetching
<1>3. Part("approve", Get \o <<Call("approve", "")>>,
          Call("get", ""), Call("approve", ""))
  BY <1>1, <1>2, JoinParts
<1> QED
  BY <1>2, <1>3, PartRuns DEF ApproveUser

LEMMA RejectUserRuns == Runs("reject", RejectUser) /\ RejectUser # <<>> /\ RejectUser[1] = Call("get", "")
<1>1. /\ Part("reject", Get, Call("get", ""), Call("get", ""))
      /\ Part("reject", Revoke, Call("remove", ""), Call("put", "keyless"))
      /\ Part("reject", Transition("rejected"), Call("smGet", "rejected"), Call("smStatus", "rejected"))
  BY PartsFit DEF SaveKinds, Statuses, Saves, Targets, Promise, Granting, Refetching
<1>2. /\ Follows("reject", Call("get", ""), Call("remove", ""))
      /\ Follows("reject", Call("put", "keyless"), Call("smGet", "rejected"))
      /\ Concludes("reject", Call("smStatus", "rejected"))
  BY DEF Follows, Concludes, Refetched, Clears, Call, Promise, StatusCalls, Clearing, Refetching
<1>3. Part("reject", Get \o Revoke,
          Call("get", ""), Call("put", "keyless"))
  BY <1>1, <1>2, JoinParts
<1>4. Part("reject", Get \o Revoke \o Transition("rejected"),
          Call("get", ""), Call("smStatus", "rejected"))
  BY <1>1, <1>2, <1>3, JoinParts
<1> QED
  BY <1>2, <1>4, PartRuns DEF RejectUser

LEMMA RejectButtonRuns == Runs("rejectButton", RejectButton) /\ RejectButton # <<>> /\ RejectButton[1] = Call("get", "")
<1>1. /\ Part("rejectButton", Get, Call("get", ""), Call("get", ""))
      /\ Part("rejectButton", Revoke, Call("remove", ""), Call("put", "keyless"))
      /\ Part("rejectButton", Transition("rejected"), Call("smGet", "rejected"), Call("smStatus", "rejected"))
      /\ Part("rejectButton", Put("rejected"), Call("put", "rejected"), Call("put", "rejected"))
  BY PartsFit DEF SaveKinds, Statuses, Saves, Targets, Promise, Granting, Refetching
<1>2. /\ Follows("rejectButton", Call("get", ""), Call("remove", ""))
      /\ Follows("rejectButton", Call("put", "keyless"), Call("smGet", "rejected"))
      /\ Follows("rejectButton", Call("smStatus", "rejected"), Call("put", "rejected"))
      /\ Concludes("rejectButton", Call("put", "rejected"))
  BY DEF Follows, Concludes, Refetched, Clears, Call, Promise, StatusCalls, Clearing, Refetching
<1>3. Part("rejectButton", Get \o Revoke,
          Call("get", ""), Call("put", "keyless"))
  BY <1>1, <1>2, JoinParts
<1>4. Part("rejectButton", Get \o Revoke \o Transition("rejected"),
          Call("get", ""), Call("smStatus", "rejected"))
  BY <1>1, <1>2, <1>3, JoinParts
<1>5. Part("rejectButton", Get \o Revoke \o Transition("rejected") \o Put("rejected"),
          Call("get", ""), Call("put", "rejected"))
  BY <1>1, <1>2, <1>4, JoinParts
<1> QED
  BY <1>2, <1>5, PartRuns DEF RejectButton, RejectUser

LEMMA BanUserRuns == Runs("ban", BanUser) /\ BanUser # <<>> /\ BanUser[1] = Call("get", "")
<1>1. /\ Part("ban", Get, Call("get", ""), Call("get", ""))
      /\ Part("ban", Revoke, Call("remove", ""), Call("put", "keyless"))
      /\ Part("ban", Transition("banned"), Call("smGet", "banned"), Call("smStatus", "banned"))
  BY PartsFit DEF SaveKinds, Statuses, Saves, Targets, Promise, Granting, Refetching
<1>2. /\ Follows("ban", Call("get", ""), Call("remove", ""))
      /\ Follows("ban", Call("put", "keyless"), Call("smGet", "banned"))
      /\ Concludes("ban", Call("smStatus", "banned"))
  BY DEF Follows, Concludes, Refetched, Clears, Call, Promise, StatusCalls, Clearing, Refetching
<1>3. Part("ban", Get \o Revoke,
          Call("get", ""), Call("put", "keyless"))
  BY <1>1, <1>2, JoinParts
<1>4. Part("ban", Get \o Revoke \o Transition("banned"),
          Call("get", ""), Call("smStatus", "banned"))
  BY <1>1, <1>2, <1>3, JoinParts
<1> QED
  BY <1>2, <1>4, PartRuns DEF BanUser

LEMMA UnbanUserRuns == Runs("unban", UnbanUser) /\ UnbanUser # <<>> /\ UnbanUser[1] = Call("get", "")
<1>1. /\ Part("unban", Get, Call("get", ""), Call("get", ""))
      /\ Part("unban", Put("keyless"), Call("put", "keyless"), Call("put", "keyless"))
      /\ Part("unban", Transition("new"), Call("smGet", "new"), Call("smStatus", "new"))
  BY PartsFit DEF SaveKinds, Statuses, Saves, Targets, Promise, Granting, Refetching
<1>2. /\ Follows("unban", Call("get", ""), Call("put", "keyless"))
      /\ Follows("unban", Call("put", "keyless"), Call("smGet", "new"))
      /\ Concludes("unban", Call("smStatus", "new"))
  BY DEF Follows, Concludes, Refetched, Clears, Call, Promise, StatusCalls, Clearing, Refetching
<1>3. Part("unban", Get \o Put("keyless"),
          Call("get", ""), Call("put", "keyless"))
  BY <1>1, <1>2, JoinParts
<1>4. Part("unban", Get \o Put("keyless") \o Transition("new"),
          Call("get", ""), Call("smStatus", "new"))
  BY <1>1, <1>2, <1>3, JoinParts
<1> QED
  BY <1>2, <1>4, PartRuns DEF UnbanUser

LEMMA ResetUserRuns == Runs("reset", ResetUser) /\ ResetUser # <<>> /\ ResetUser[1] = Call("get", "")
<1>1. /\ Part("reset", Get, Call("get", ""), Call("get", ""))
      /\ Part("reset", <<Call("remove", "")>>, Call("remove", ""), Call("remove", ""))
      /\ Part("reset", SetState("new"), Call("force", "new"), Call("force", "new"))
      /\ Part("reset", Fetch, Call("fetch", ""), Call("fetch", ""))
      /\ Part("reset", Put("cleared"), Call("put", "cleared"), Call("put", "cleared"))
  BY PartsFit DEF SaveKinds, Statuses, Saves, Targets, Promise, Granting, Refetching
<1>2. /\ Follows("reset", Call("get", ""), Call("remove", ""))
      /\ Follows("reset", Call("remove", ""), Call("force", "new"))
      /\ Follows("reset", Call("force", "new"), Call("fetch", ""))
      /\ Follows("reset", Call("fetch", ""), Call("put", "cleared"))
      /\ Concludes("reset", Call("put", "cleared"))
  BY DEF Follows, Concludes, Refetched, Clears, Call, Promise, StatusCalls, Clearing, Refetching
<1>3. Part("reset", Get \o <<Call("remove", "")>>,
          Call("get", ""), Call("remove", ""))
  BY <1>1, <1>2, JoinParts
<1>4. Part("reset", Get \o <<Call("remove", "")>> \o SetState("new"),
          Call("get", ""), Call("force", "new"))
  BY <1>1, <1>2, <1>3, JoinParts
<1>5. Part("reset", Get \o <<Call("remove", "")>> \o SetState("new") \o Fetch,
          Call("get", ""), Call("fetch", ""))
  BY <1>1, <1>2, <1>4, JoinParts
<1>6. Part("reset", Get \o <<Call("remove", "")>> \o SetState("new") \o Fetch \o Put("cleared"),
          Call("get", ""), Call("put", "cleared"))
  BY <1>1, <1>2, <1>5, JoinParts
<1> QED
  BY <1>2, <1>6, PartRuns DEF ResetUser

LEMMA ResetApprovalRuns == Runs("resetApproval", ResetApproval) /\ ResetApproval # <<>> /\ ResetApproval[1] = Call("get", "")
<1>1. /\ Part("resetApproval", Get, Call("get", ""), Call("get", ""))
      /\ Part("resetApproval", Transition("new"), Call("smGet", "new"), Call("smStatus", "new"))
      /\ Part("resetApproval", <<Call("remove", "")>>, Call("remove", ""), Call("remove", ""))
      /\ Part("resetApproval", Put("cleared"), Call("put", "cleared"), Call("put", "cleared"))
  BY PartsFit DEF SaveKinds, Statuses, Saves, Targets, Promise, Granting, Refetching
<1>2. /\ Follows("resetApproval", Call("get", ""), Call("smGet", "new"))
      /\ Follows("resetApproval", Call("smStatus", "new"), Call("remove", ""))
      /\ Follows("resetApproval", Call("remove", ""), Call("put", "cleared"))
      /\ Concludes("resetApproval", Call("put", "cleared"))
  BY DEF Follows, Concludes, Refetched, Clears, Call, Promise, StatusCalls, Clearing, Refetching
<1>3. Part("resetApproval", Get \o Transition("new"),
          Call("get", ""), Call("smStatus", "new"))
  BY <1>1, <1>2, JoinParts
<1>4. Part("resetApproval", Get \o Transition("new") \o <<Call("remove", "")>>,
          Call("get", ""), Call("remove", ""))
  BY <1>1, <1>2, <1>3, JoinParts
<1>5. Part("resetApproval", Get \o Transition("new") \o <<Call("remove", "")>> \o Put("cleared"),
          Call("get", ""), Call("put", "cleared"))
  BY <1>1, <1>2, <1>4, JoinParts
<1> QED
  BY <1>2, <1>5, PartRuns DEF ResetApproval

LEMMA ApprovePaymentRuns == Runs("approvePayment", ApprovePayment) /\ ApprovePayment # <<>> /\ ApprovePayment[1] = Call("get", "")
<1>1. /\ Part("approvePayment", Get, Call("get", ""), Call("get", ""))
      /\ Part("approvePayment", Grant, Call("fetch", ""), Call("sync", ""))
  BY PartsFit, GrantPart DEF SaveKinds, Statuses, Saves, Targets, Promise, Granting, Refetching
<1>2. /\ Follows("approvePayment", Call("get", ""), Call("fetch", ""))
      /\ Concludes("approvePayment", Call("sync", ""))
  BY DEF Follows, Concludes, Refetched, Clears, Call, Promise, StatusCalls, Clearing, Refetching
<1>3. Part("approvePayment", Get \o Grant,
          Call("get", ""), Call("sync", ""))
  BY <1>1, <1>2, JoinParts
<1> QED
  BY <1>2, <1>3, PartRuns DEF ApprovePayment

LEMMA CloseTicketRuns == Runs("closeTicket", CloseTicket) /\ CloseTicket # <<>> /\ CloseTicket[1] = Call("get", "")
<1>1. /\ Part("closeTicket", Get, Call("get", ""), Call("get", ""))
      /\ Part("closeTicket", <<Call("return", "")>>, Call("return", ""), Call("return", ""))
      /\ Part("closeTicket", Put("noTopic"), Call("put", "noTopic"), Call("put", "noTopic"))
  BY PartsFit DEF SaveKinds, Statuses, Saves, Targets, Promise, Granting, Refetching
<1>2. /\ Follows("closeTicket", Call("get", ""), Call("return", ""))
      /\ Follows("closeTicket", Call("return", ""), Call("put", "noTopic"))
      /\ Concludes("closeTicket", Call("put", "noTopic"))
  BY DEF Follows, Concludes, Refetched, Clears, Call, Promise, StatusCalls, Clearing, Refetching
<1>3. Part("closeTicket", Get \o <<Call("return", "")>>,
          Call("get", ""), Call("return", ""))
  BY <1>1, <1>2, JoinParts
<1>4. Part("closeTicket", Get \o <<Call("return", "")>> \o Put("noTopic"),
          Call("get", ""), Call("put", "noTopic"))
  BY <1>1, <1>2, <1>3, JoinParts
<1> QED
  BY <1>2, <1>4, PartRuns DEF CloseTicket

LEMMA WebApproveRuns == Runs("webApprove", WebApprove) /\ WebApprove # <<>> /\ WebApprove[1] = Call("get", "")
<1>0. "platform_select" \in Statuses \cap Targets("webApprove")
  BY DEF Statuses, Targets, Promise
<1>1. /\ Part("webApprove", Get, Call("get", ""), Call("get", ""))
      /\ Part("webApprove", Transition("platform_select"), Call("smGet", "platform_select"), Call("smStatus", "platform_select"))
      /\ Part("webApprove", Fetch, Call("fetch", ""), Call("fetch", ""))
  BY <1>0, PartsFit DEF Saves, Targets, Promise, Granting, Refetching
<1>2. /\ Follows("webApprove", Call("get", ""), Call("smGet", "platform_select"))
      /\ Follows("webApprove", Call("smStatus", "platform_select"), Call("fetch", ""))
      /\ Concludes("webApprove", Call("fetch", ""))
  BY DEF Follows, Concludes, Refetched, Clears, Call, Promise, StatusCalls, Clearing, Refetching
<1>3. Part("webApprove", Get \o Transition("platform_select"),
          Call("get", ""), Call("smStatus", "platform_select"))
  BY <1>1, <1>2, JoinParts
<1>4. Part("webApprove", Get \o Transition("platform_select") \o Fetch,
          Call("get", ""), Call("fetch", ""))
  BY <1>1, <1>2, <1>3, JoinParts
<1> QED
  BY <1>2, <1>4, PartRuns DEF WebApprove

LEMMA WebRejectRuns == Runs("webReject", WebReject) /\ WebReject # <<>> /\ WebReject[1] = Call("get", "")
<1>1. /\ Part("webReject", Get, Call("get", ""), Call("get", ""))
      /\ Part("webReject", Transition("rejected"), Call("smGet", "rejected"), Call("smStatus", "rejected"))
      /\ Part("webReject", Fetch, Call("fetch", ""), Call("fetch", ""))
      /\ Part("webReject", Put("rejected"), Call("put", "rejected"), Call("put", "rejected"))
      /\ Part("webReject", Revoke, Call("remove", ""), Call("put", "keyless"))
  BY PartsFit DEF SaveKinds, Statuses, Saves, Targets, Promise, Granting, Refetching
<1>2. /\ Follows("webReject", Call("get", ""), Call("smGet", "rejected"))
      /\ Follows("webReject", Call("smStatus", "rejected"), Call("fetch", ""))
      /\ Follows("webReject", Call("fetch", ""), Call("put", "rejected"))
      /\ Follows("webReject", Call("put", "rejected"), Call("remove", ""))
      /\ Concludes("webReject", Call("put", "keyless"))
  BY DEF Follows, Concludes, Refetched, Clears, Call, Promise, StatusCalls, Clearing, Refetching
<1>3. Part("webReject", Get \o Transition("rejected"),
          Call("get", ""), Call("smStatus", "rejected"))
  BY <1>1, <1>2, JoinParts
<1>4. Part("webReject", Get \o Transition("rejected") \o Fetch,
          Call("get", ""), Call("fetch", ""))
  BY <1>1, <1>2, <1>3, JoinParts
<1>5. Part("webReject", Get \o Transition("rejected") \o Fetch \o Put("rejected"),
          Call("get", ""), Call("put", "rejected"))
  BY <1>1, <1>2, <1>4, JoinParts
<1>6. Part("webReject", Get \o Transition("rejected") \o Fetch \o Put("rejected") \o Revoke,
          Call("get", ""), Call("put", "keyless"))
  BY <1>1, <1>2, <1>5, JoinParts
<1> QED
  BY <1>2, <1>6, PartRuns DEF WebReject

LEMMA WebBanRuns == Runs("webBan", WebBan) /\ WebBan # <<>> /\ WebBan[1] = Call("get", "")
<1>1. /\ Part("webBan", Get, Call("get", ""), Call("get", ""))
      /\ Part("webBan", Transition("banned"), Call("smGet", "banned"), Call("smStatus", "banned"))
      /\ Part("webBan", Fetch, Call("fetch", ""), Call("fetch", ""))
      /\ Part("webBan", Revoke, Call("remove", ""), Call("put", "keyless"))
  BY PartsFit DEF SaveKinds, Statuses, Saves, Targets, Promise, Granting, Refetching
<1>2. /\ Follows("webBan", Call("get", ""), Call("smGet", "banned"))
      /\ Follows("webBan", Call("smStatus", "banned"), Call("fetch", ""))
      /\ Follows("webBan", Call("fetch", ""), Call("remove", ""))
      /\ Concludes("webBan", Call("put", "keyless"))
  BY DEF Follows, Concludes, Refetched, Clears, Call, Promise, StatusCalls, Clearing, Refetching
<1>3. Part("webBan", Get \o Transition("banned"),
          Call("get", ""), Call("smStatus", "banned"))
  BY <1>1, <1>2, JoinParts
<1>4. Part("webBan", Get \o Transition("banned") \o Fetch,
          Call("get", ""), Call("fetch", ""))
  BY <1>1, <1>2, <1>3, JoinParts
<1>5. Part("webBan", Get \o Transition("banned") \o Fetch \o Revoke,
          Call("get", ""), Call("put", "keyless"))
  BY <1>1, <1>2, <1>4, JoinParts
<1> QED
  BY <1>2, <1>5, PartRuns DEF WebBan

LEMMA WebUnbanRuns == Runs("webUnban", WebUnban) /\ WebUnban # <<>> /\ WebUnban[1] = Call("get", "")
<1>1. /\ Part("webUnban", Get, Call("get", ""), Call("get", ""))
      /\ Part("webUnban", Transition("new"), Call("smGet", "new"), Call("smStatus", "new"))
      /\ Part("webUnban", Fetch, Call("fetch", ""), Call("fetch", ""))
      /\ Part("webUnban", Put("keyless"), Call("put", "keyless"), Call("put", "keyless"))
  BY PartsFit DEF SaveKinds, Statuses, Saves, Targets, Promise, Granting, Refetching
<1>2. /\ Follows("webUnban", Call("get", ""), Call("smGet", "new"))
      /\ Follows("webUnban", Call("smStatus", "new"), Call("fetch", ""))
      /\ Follows("webUnban", Call("fetch", ""), Call("put", "keyless"))
      /\ Concludes("webUnban", Call("put", "keyless"))
  BY DEF Follows, Concludes, Refetched, Clears, Call, Promise, StatusCalls, Clearing, Refetching
<1>3. Part("webUnban", Get \o Transition("new"),
          Call("get", ""), Call("smStatus", "new"))
  BY <1>1, <1>2, JoinParts
<1>4. Part("webUnban", Get \o Transition("new") \o Fetch,
          Call("get", ""), Call("fetch", ""))
  BY <1>1, <1>2, <1>3, JoinParts
<1>5. Part("webUnban", Get \o Transition("new") \o Fetch \o Put("keyless"),
          Call("get", ""), Call("put", "keyless"))
  BY <1>1, <1>2, <1>4, JoinParts
<1> QED
  BY <1>2, <1>5, PartRuns DEF WebUnban

LEMMA WebResetRuns == Runs("webReset", WebReset) /\ WebReset # <<>> /\ WebReset[1] = Call("get", "")
<1>1. /\ Part("webReset", Get, Call("get", ""), Call("get", ""))
      /\ Part("webReset", Revoke, Call("remove", ""), Call("put", "keyless"))
      /\ Part("webReset", SetState("new"), Call("force", "new"), Call("force", "new"))
      /\ Part("webReset", Fetch, Call("fetch", ""), Call("fetch", ""))
      /\ Part("webReset", Put("cleared"), Call("put", "cleared"), Call("put", "cleared"))
  BY PartsFit DEF SaveKinds, Statuses, Saves, Targets, Promise, Granting, Refetching
<1>2. /\ Follows("webReset", Call("get", ""), Call("remove", ""))
      /\ Follows("webReset", Call("put", "keyless"), Call("force", "new"))
      /\ Follows("webReset", Call("force", "new"), Call("fetch", ""))
      /\ Follows("webReset", Call("fetch", ""), Call("put", "cleared"))
      /\ Concludes("webReset", Call("put", "cleared"))
  BY DEF Follows, Concludes, Refetched, Clears, Call, Promise, StatusCalls, Clearing, Refetching
<1>3. Part("webReset", Get \o Revoke,
          Call("get", ""), Call("put", "keyless"))
  BY <1>1, <1>2, JoinParts
<1>4. Part("webReset", Get \o Revoke \o SetState("new"),
          Call("get", ""), Call("force", "new"))
  BY <1>1, <1>2, <1>3, JoinParts
<1>5. Part("webReset", Get \o Revoke \o SetState("new") \o Fetch,
          Call("get", ""), Call("fetch", ""))
  BY <1>1, <1>2, <1>4, JoinParts
<1>6. Part("webReset", Get \o Revoke \o SetState("new") \o Fetch \o Put("cleared"),
          Call("get", ""), Call("put", "cleared"))
  BY <1>1, <1>2, <1>5, JoinParts
<1> QED
  BY <1>2, <1>6, PartRuns DEF WebReset

LEMMA WebGrantPaidRuns == Runs("webGrant", WebGrantPaid) /\ WebGrantPaid # <<>> /\ WebGrantPaid[1] = Call("get", "")
<1>1. /\ Part("webGrant", Get, Call("get", ""), Call("get", ""))
      /\ Part("webGrant", Transition("paid"), Call("smGet", "paid"), Call("smStatus", "paid"))
      /\ Part("webGrant", Grant, Call("fetch", ""), Call("sync", ""))
  BY PartsFit, GrantPart DEF SaveKinds, Statuses, Saves, Targets, Promise, Granting, Refetching
<1>2. /\ Follows("webGrant", Call("get", ""), Call("smGet", "paid"))
      /\ Follows("webGrant", Call("smStatus", "paid"), Call("fetch", ""))
      /\ Concludes("webGrant", Call("sync", ""))
  BY DEF Follows, Concludes, Refetched, Clears, Call, Promise, StatusCalls, Clearing, Refetching
<1>3. Part("webGrant", Get \o Transition("paid"),
          Call("get", ""), Call("smStatus", "paid"))
  BY <1>1, <1>2, JoinParts
<1>4. Part("webGrant", Get \o Transition("paid") \o Grant,
          Call("get", ""), Call("sync", ""))
  BY <1>1, <1>2, <1>3, JoinParts
<1> QED
  BY <1>2, <1>4, PartRuns DEF WebGrantPaid

LEMMA WebSetQuotaRuns == Runs("webQuota", WebSetQuota) /\ WebSetQuota # <<>> /\ WebSetQuota[1] = Call("get", "")
<1>1. /\ Part("webQuota", Get, Call("get", ""), Call("get", ""))
      /\ Part("webQuota", Put("same"), Call("put", "same"), Call("put", "same"))
  BY PartsFit DEF SaveKinds, Statuses, Saves, Targets, Promise, Granting, Refetching
<1>2. /\ Follows("webQuota", Call("get", ""), Call("put", "same"))
      /\ Concludes("webQuota", Call("put", "same"))
  BY DEF Follows, Concludes, Refetched, Clears, Call, Promise, StatusCalls, Clearing, Refetching
<1>3. Part("webQuota", Get \o Put("same"),
          Call("get", ""), Call("put", "same"))
  BY <1>1, <1>2, JoinParts
<1> QED
  BY <1>2, <1>3, PartRuns DEF WebSetQuota

LEMMA WebSetExpireRuns == Runs("webExpire", WebSetExpire) /\ WebSetExpire # <<>> /\ WebSetExpire[1] = Call("get", "")
<1>1. /\ Part("webExpire", Get, Call("get", ""), Call("get", ""))
      /\ Part("webExpire", Put("paid"), Call("put", "paid"), Call("put", "paid"))
      /\ Part("webExpire", <<Call("sync", "")>>, Call("sync", ""), Call("sync", ""))
  BY PartsFit DEF SaveKinds, Statuses, Saves, Targets, Promise, Granting, Refetching
<1>2. /\ Follows("webExpire", Call("get", ""), Call("put", "paid"))
      /\ Follows("webExpire", Call("put", "paid"), Call("sync", ""))
      /\ Concludes("webExpire", Call("sync", ""))
  BY DEF Follows, Concludes, Refetched, Clears, Call, Promise, StatusCalls, Clearing, Refetching
<1>3. Part("webExpire", Get \o Put("paid"),
          Call("get", ""), Call("put", "paid"))
  BY <1>1, <1>2, JoinParts
<1>4. Part("webExpire", Get \o Put("paid") \o <<Call("sync", "")>>,
          Call("get", ""), Call("sync", ""))
  BY <1>1, <1>2, <1>3, JoinParts
<1> QED
  BY <1>2, <1>4, PartRuns DEF WebSetExpire

LEMMA RepairStuckSupportRuns == Runs("repair", RepairStuckSupport) /\ RepairStuckSupport # <<>> /\ RepairStuckSupport[1] = Call("return", "")
<1>1. /\ Part("repair", <<Call("return", "")>>, Call("return", ""), Call("return", ""))
  BY PartsFit DEF SaveKinds, Statuses, Saves, Targets, Promise, Granting, Refetching
<1>2. /\ Concludes("repair", Call("return", ""))
  BY DEF Follows, Concludes, Refetched, Clears, Call, Promise, StatusCalls, Clearing, Refetching
<1> QED
  BY <1>1, <1>2, PartRuns DEF RepairStuckSupport

LEMMA ProgramsRun ==
  ASSUME NEW op \in Handlers
  PROVE  /\ Runs(op, Program(op)) /\ Program(op) # <<>>
         /\ \/ Program(op)[1] = Call("get", "")
            \/ op = "support" /\ Program(op)[1] = Call("smGet", "support_topic")
            \/ op = "repair" /\ Program(op)[1] = Call("return", "")
  BY DemoRequestRuns, AutoApprovalRuns, PlatformSelectRuns, GetKeyRuns,
     SupportRequestRuns, SupportMessageRuns, SuccessfulPaymentRuns, ApproveUserRuns,
     RejectUserRuns, RejectButtonRuns, BanUserRuns, UnbanUserRuns, ResetUserRuns,
     ResetApprovalRuns, ApprovePaymentRuns, CloseTicketRuns, WebApproveRuns,
     WebRejectRuns, WebBanRuns, WebUnbanRuns, WebResetRuns, WebGrantPaidRuns,
     WebSetQuotaRuns, WebSetExpireRuns, RepairStuckSupportRuns
  DEF Program, Handlers, UserOps, AdminOps, DashboardOps

-----------------------------------------------------------------------------
(* What holds of the user's row while a handler is at a call: h is the     *)
(* call, u and o are the objects it holds, r is the row.                   *)

\* The handler has read the user.
HasRead(op, h) == h.do # "get" /\ op \notin {"support", "repair"}

\* The row's key and date are as read, and its status as the handler needs it.
StatusHolds(op, h, u, o, r) ==
  /\ HasRead(op, h) => u.key = r.key /\ u.paid = r.paid
  /\ h.do = "smSave" => o = r
  /\ op \in Refetching /\ h.do \in {"fetch", "sync"} => r.status \in Promise(op)
  /\ Refetched(op, h) => r.status \in Promise(op) /\ u.status \in Promise(op)
  /\ op \in {"request", "requestAuto"} /\ h.do = "smGet" => CanTransition(r.status, h.what)
  /\ HasRead(op, h) /\ r.status = "banned" /\ op \notin Lifting \cup {"ban", "webBan"} =>
       u.status = "banned"
  /\ op = "ban" /\ h.do \in {"remove", "put"} /\ r.status = "banned" => u.status = "banned"
  /\ h.do \in {"smSave", "smStatus"} /\ op \notin Lifting /\ r.status = "banned" =>
       h.what = "banned"
  /\ op \in {"closeTicket", "repair"} /\ h.do \in StatusCalls => r.status = "support_topic"

\* The date worked out is the row's and the months on sale.
DateHolds(op, h, until, months, paid) ==
  op \in {"pay", "webGrant"} /\ h.do # "get" => until = paid + months

\* A status without a key is about to be set, and the key is gone already.
Moved(op, h) ==
  /\ op \notin {"webBan", "reset"} /\ h.what \notin KeyStatuses
  /\ \/ h.do \in {"smSave", "smStatus", "force"}
     \/ h.do = "smGet" /\ op \in {"ban", "closeTicket", "repair"}

\* The client was removed, and the row is to be told.
Removed(op, h) ==
  /\ op \notin {"unban", "webUnban"}
  /\ Clears(h) \/ (op \in {"reset", "webReset"} /\ h.do \in {"force", "fetch"})

KeyHolds(op, h, u, r, p, k) ==
  /\ \/ r.key => r.status \in KeyStatuses
     \/ op = "reset" \/ (op = "webBan" /\ h.do \in {"fetch", "remove", "put"})
  /\ Moved(op, h) => ~r.key
  /\ HasRead(op, h) /\ op \notin {"webBan", "reset"} => (u.key => u.status \in KeyStatuses)
  /\ HasRead(op, h) /\ op = "getKey" => u.status \in KeyStatuses
  /\ op = "webUnban" /\ h.do \in {"fetch", "put"} => ~r.key
  /\ p.on => r.key \/ k \/ (op = "getKey" /\ h.do = "put")
  /\ Removed(op, h) => ~p.on \/ k \/ ~r.key

\* Between handlers.
KeysSettled(r, p, k) ==
  /\ r.key => r.status \in KeyStatuses
  /\ p.on => r.key \/ k

-----------------------------------------------------------------------------
Busy(th) == at[th].todo # <<>>

\* One handler runs at a time, and it has a legal run left.
OneRuns ==
  /\ TInv
  /\ \A th \in Threads : ~Busy(th) => at[th] = Idle
  /\ \A a, b \in Threads : Busy(a) /\ Busy(b) => a = b
  /\ \A th \in Threads : Busy(th) => Runs(at[th].op, at[th].todo) /\ at[th].op \in Ops(th)

StatusInv ==
  /\ KeepsPromise
  /\ \A th \in Threads : Busy(th) =>
       StatusHolds(at[th].op, at[th].todo[1], at[th].user, at[th].other, row)

DateInv ==
  /\ row.paid = sold
  /\ \A th \in Threads : Busy(th) =>
       DateHolds(at[th].op, at[th].todo[1], at[th].until, at[th].months, row.paid)

KeyInv ==
  /\ Quiet => KeysSettled(row, panel, leaked)
  /\ \A th \in Threads : Busy(th) =>
       KeyHolds(at[th].op, at[th].todo[1], at[th].user, row, panel, leaked)

-----------------------------------------------------------------------------
(* The calls that are left once one, or a refused transition, is past.     *)

\* The calls s may come after a, or the handler may end with a.
Bears(op, a, s) ==
  /\ s \in Seq(LegalCall) /\ Runs(op, s)
  /\ s # <<>> => Fits(op, s[1]) /\ Follows(op, a, s[1])
  /\ s = <<>> => Concludes(op, a)

\* What holds with the calls s left, and once there are none.
StatusLeads(op, s, u, o, r) ==
  /\ s # <<>> => StatusHolds(op, s[1], u, o, r)
  /\ s = <<>> /\ op \in Checked => r.status \in Promise(op)

DateLeads(op, s, until, months, paid) ==
  s # <<>> => DateHolds(op, s[1], until, months, paid)

KeyLeads(op, s, u, r, p, k) ==
  /\ s # <<>> => KeyHolds(op, s[1], u, r, p, k)
  /\ s = <<>> => KeysSettled(r, p, k)

LEMMA Restful ==
  ASSUME NEW op, NEW s \in Seq(LegalCall), s # <<>>, Runs(op, s)
  PROVE  Bears(op, s[1], Tail(s)) /\ Fits(op, s[1]) /\ Head(s) = s[1] /\ s[1] \in LegalCall
<1>1. Tail(s) \in Seq(LegalCall) /\ Head(s) \in LegalCall
  BY Consumed
<1> QED
  BY <1>1, TailRuns DEF Bears

LEMMA Skips ==
  ASSUME NEW op, NEW s \in Seq(LegalCall), s # <<>>, Runs(op, s), s[1].do = "smGet"
  PROVE  Bears(op, Call("smStatus", s[1].what), Next3(s))
<1> DEFINE t == Tail(s)
           v == Tail(t)
<1>1. t # <<>> /\ t \in Seq(LegalCall) /\ Runs(op, t) /\ t[1] = Call("smSave", s[1].what)
  <2>1. ~Concludes(op, s[1])
    BY DEF Concludes
  <2>2. t # <<>> /\ t \in Seq(LegalCall) /\ Runs(op, t) /\ t[1] = s[2] /\ Follows(op, s[1], s[2])
    BY <2>1, TailRuns, Consumed
  <2> QED
    BY <2>2 DEF Follows
<1>2. v # <<>> /\ v \in Seq(LegalCall) /\ Runs(op, v) /\ v[1] = Call("smStatus", s[1].what)
  <2> HIDE DEF t
  <2>1. ~Concludes(op, t[1]) /\ t[1].do = "smSave" /\ t[1].what = s[1].what
    BY <1>1 DEF Concludes, Call
  <2>2. v # <<>> /\ v \in Seq(LegalCall) /\ Runs(op, v) /\ v[1] = t[2] /\ Follows(op, t[1], t[2])
    BY <1>1, <2>1, TailRuns, Consumed
  <2> QED
    BY <2>1, <2>2 DEF Follows
<1>3. Bears(op, v[1], Tail(v))
  BY <1>2, Restful
<1>4. Next3(s) = Tail(v)
  <2>1. ASSUME NEW x \in Seq(LegalCall), x # <<>>
        PROVE  /\ Len(x) \in Nat /\ Len(x) > 0 /\ Tail(x) \in Seq(LegalCall)
               /\ Len(Tail(x)) = Len(x) - 1 /\ (\A i \in 1..Len(Tail(x)) : Tail(x)[i] = x[i+1])
    BY <2>1, EmptySeq, LenProperties, HeadTailProperties
  <2>2. /\ Len(s) \in Nat /\ Len(t) = Len(s) - 1 /\ (\A i \in 1..Len(t) : t[i] = s[i+1])
        /\ Len(v) = Len(t) - 1 /\ (\A i \in 1..Len(v) : v[i] = t[i+1]) /\ Len(v) > 0
        /\ Tail(v) \in Seq(LegalCall)
        /\ Len(Tail(v)) = Len(v) - 1 /\ (\A i \in 1..Len(Tail(v)) : Tail(v)[i] = v[i+1])
    BY <1>1, <1>2, <2>1
  <2> HIDE DEF t, v
  <2>3. \A i \in 1..Len(s)-3 : Tail(v)[i] = s[i+3]
    <3> TAKE i \in 1..Len(s)-3
    <3>1. i \in 1..Len(Tail(v)) /\ i+1 \in 1..Len(v) /\ (i+1)+1 \in 1..Len(t) /\ ((i+1)+1)+1 = i+3
      BY <2>2
    <3> QED
      BY <2>2, <3>1
  <2>4. Len(s) \in Nat /\ Len(s) >= 3 /\ Len(Tail(v)) = Len(s) - 3
    BY <2>2
  <2>5. /\ Next3(s) \in Seq(LegalCall) /\ Len(Next3(s)) = Len(s) - 3
        /\ \A i \in 1..Len(s)-3 : Next3(s)[i] = s[i+3]
    <3>1. Next3(s) \in Seq(LegalCall)
      BY Consumed
    <3>2. Len(Next3(s)) = Len(s) - 3 /\ \A i \in 1..Len(s)-3 : Next3(s)[i] = s[i+3]
      <4> DEFINE n == Len(s)
      <4>1. n \in Int /\ n >= 3 /\ 4 \in Int /\ (\A i \in 4..n : s[i] \in LegalCall)
        BY <2>4, LenProperties
      <4>2. /\ Len(SubSeq(s, 4, n)) = IF 4 <= n THEN n-4+1 ELSE 0
            /\ \A i \in 1 .. n-4+1 : SubSeq(s, 4, n)[i] = s[4+i-1]
        BY <4>1, SubSeqProperties
      <4> HIDE DEF n
      <4>3. Len(SubSeq(s, 4, n)) = n - 3
        BY <4>1, <4>2
      <4>4. \A i \in 1..n-3 : i \in 1..n-4+1 /\ 4+i-1 = i+3
        BY <4>1
      <4>5. \A i \in 1..n-3 : SubSeq(s, 4, n)[i] = s[i+3]
        <5> TAKE i \in 1..n-3
        <5>1. i \in 1..n-4+1 /\ 4+i-1 = i+3
          BY <4>4
        <5> QED
          BY <4>2, <5>1
      <4> QED
        BY <4>3, <4>5 DEF Next3, n
    <3> QED
      BY <3>1, <3>2
  <2> DEFINE a == Next3(s)
             b == Tail(v)
  <2>6. /\ a \in Seq(LegalCall) /\ b \in Seq(LegalCall) /\ Len(a) = Len(b)
        /\ \A i \in 1..Len(a) : a[i] = b[i]
    BY <2>2, <2>3, <2>4, <2>5
  <2> HIDE DEF a, b, LegalCall
  <2>7. a = b
    BY <2>6, SeqEqual
  <2> QED
    BY <2>7 DEF a, b
<1> QED
  BY <1>2, <1>3, <1>4
-----------------------------------------------------------------------------
(* Call by call: what holds at a call h holds at the call g that follows   *)
(* it, with the objects and the row as h leaves them.                      *)

\* Which handlers save what, and ask for which status.
LEMMA SavesAre ==
  ASSUME NEW op \in Handlers
  PROVE  /\ op \in {"support", "repair"} => Saves(op) = {}
         /\ op = "closeTicket" => Saves(op) = {"noTopic"}
         /\ op \in {"ban", "unban", "webBan", "webUnban"} => Saves(op) = {"keyless"}
         /\ op \in Granting => Saves(op) = {"granted"}
         /\ op = "getKey" => Saves(op) = {"key"}
         /\ "granted" \in Saves(op) => op \in Granting
         /\ "paid" \in Saves(op) => op = "webExpire"
         /\ "key" \in Saves(op) => op = "getKey"
         /\ op = "reset" => Saves(op) = {"cleared"}
  BY DEF Handlers, Saves, Granting, UserOps, AdminOps, DashboardOps

LEMMA TargetsAre ==
  ASSUME NEW op \in Handlers
  PROVE  /\ op \in Refetching \/ (op \in Checked /\ op # "requestAuto") =>
              Targets(op) \subseteq Promise(op)
         /\ op = "request" => Targets(op) = {"pending_demo"}
         /\ op = "requestAuto" => Targets(op) = {"pending_demo", "platform_select"}
         /\ op \in Granting => Targets(op) = {"paid"} /\ Promise(op) = {"paid"}
         /\ op \in {"ban", "webBan"} <=> "banned" \in Targets(op)
         /\ "new" \in Targets(op) => op \in Lifting \cup {"closeTicket", "repair"}
  BY DEF Handlers, Targets, Promise, Refetching, Checked, Granting, Lifting, UserOps, AdminOps, DashboardOps

\* What a save changes in the object that is saved.
LEMMA ChangedAre ==
  ASSUME NEW u \in User, NEW until \in 0..MaxMonths, NEW what \in SaveKinds
  PROVE  /\ Changed(what, u, until) \in User /\ Changed(what, u, until).status = u.status
         /\ Changed(what, u, until).key =
              (IF what \in Clearing THEN FALSE ELSE IF what = "key" THEN TRUE ELSE u.key)
         /\ Changed(what, u, until).paid =
              (IF what \in {"granted", "paid"} THEN until ELSE u.paid)
         /\ what = "keyless" /\ ~u.key => Changed(what, u, until) = u
<1>1. Changed(what, u, until) \in User
  BY ChangedTyped
<1>2. what = "keyless" /\ ~u.key => Changed(what, u, until) = u
  BY DEF Changed, User
<1> QED
  BY <1>1, <1>2 DEF Changed, User, Clearing

LEMMA StatusGet ==
  ASSUME NEW op \in Handlers, NEW h, NEW g, NEW u \in User, NEW o \in User, NEW r \in User,
         Fits(op, h), Fits(op, g), Follows(op, h, g), StatusHolds(op, h, u, o, r), h.do = "get", Admits(op, r)
  PROVE  StatusHolds(op, g, r, o, r)
<1>1. op \in {"request", "requestAuto"} => CanTransition(r.status, "pending_demo")
  BY DEF Admits, CanTransition, Transitions
<1> QED
  BY <1>1 DEF StatusHolds, HasRead, Fits, Follows, Refetched, Clears, Clearing, Refetching, Lifting, Granting, StatusCalls, Call

LEMMA StatusFetch ==
  ASSUME NEW op \in Handlers, NEW h, NEW g, NEW u \in User, NEW o \in User, NEW r \in User,
         Fits(op, h), Fits(op, g), Follows(op, h, g), StatusHolds(op, h, u, o, r), h.do = "fetch"
  PROVE  StatusHolds(op, g, r, o, r)
  BY DEF StatusHolds, HasRead, Fits, Follows, Refetched, Clears, Clearing, Refetching, Lifting, Granting, StatusCalls, Call

LEMMA StatusPanel ==
  ASSUME NEW op \in Handlers, NEW h, NEW g, NEW u \in User, NEW o \in User, NEW r \in User,
         Fits(op, h), Fits(op, g), Follows(op, h, g), StatusHolds(op, h, u, o, r), h.do \in {"remove", "add", "sync"}
  PROVE  StatusHolds(op, g, u, o, r)
  BY DEF StatusHolds, HasRead, Fits, Follows, Refetched, Clears, Clearing, Refetching, Lifting, Granting, StatusCalls, Call

LEMMA StatusPut ==
  ASSUME NEW op \in Handlers, NEW h, NEW g, NEW u \in User, NEW o \in User, NEW r \in User,
         Fits(op, h), Fits(op, g), Follows(op, h, g), StatusHolds(op, h, u, o, r), 
         NEW n \in User, n.status = u.status, NEW q, h.do = "put",
         q = n \/ (q = r /\ n = u)
  PROVE  StatusHolds(op, g, n, o, q)
  BY SavesAre DEF StatusHolds, HasRead, Fits, Follows, Refetched, Clears, Clearing, Refetching, Lifting, Granting, StatusCalls, Call

LEMMA StatusGrantSkip ==
  ASSUME NEW op \in Handlers, NEW h, NEW g, NEW u \in User, NEW o \in User, NEW r \in User,
         Fits(op, h), Fits(op, g), Follows(op, Call("smStatus", "paid"), g), StatusHolds(op, h, u, o, r), 
         NEW n \in User, n.status = "paid", h = Call("put", "granted")
  PROVE  StatusHolds(op, g, n, o, n)
  BY SavesAre, TargetsAre DEF StatusHolds, HasRead, Fits, Follows, Refetched, Clears, Clearing, Refetching, Lifting, Granting, StatusCalls, Call

LEMMA StatusGranted ==
  ASSUME NEW op \in Handlers, NEW h, NEW g, NEW u \in User, NEW o \in User, NEW r \in User,
         Fits(op, h), Fits(op, g), Follows(op, h, g), StatusHolds(op, h, u, o, r), h.do = "smGet", CanTransition(r.status, h.what)
  PROVE  StatusHolds(op, g, u, r, r)
<1>1. r.status = "banned" => h.what \in {"banned", "new"}
  BY DEF CanTransition, Transitions
<1> QED
  BY <1>1, TargetsAre DEF StatusHolds, HasRead, Fits, Follows, Refetched, Clears, Clearing, Refetching, Lifting, Granting, StatusCalls, Call

LEMMA StatusSkip ==
  ASSUME NEW op \in Handlers, NEW h, NEW g, NEW u \in User, NEW o \in User, NEW r \in User,
         Fits(op, h), Fits(op, g), Follows(op, Call("smStatus", h.what), g), StatusHolds(op, h, u, o, r), 
         h.do = "smGet", ~CanTransition(r.status, h.what), op \notin Strict
  PROVE  StatusHolds(op, g, u, o, r)
  BY SavesAre DEF StatusHolds, HasRead, Fits, Follows, Refetched, Clears, Clearing, Refetching, Lifting, Granting, StatusCalls, Call, Strict, DashboardOps

LEMMA StatusForce ==
  ASSUME NEW op \in Handlers, NEW h, NEW g, NEW u \in User, NEW o \in User, NEW r \in User,
         Fits(op, h), Fits(op, g), StatusHolds(op, h, u, o, r), 
         op = "closeTicket", h.do = "smGet", g = Call("force", h.what)
  PROVE  StatusHolds(op, g, u, o, r)
  BY DEF StatusHolds, HasRead, Fits, Follows, Refetched, Clears, Clearing, Refetching, Lifting, Granting, StatusCalls, Call

LEMMA StatusMoveSave ==
  ASSUME NEW op \in Handlers, NEW h, NEW g, NEW u \in User, NEW o \in User, NEW r \in User,
         Fits(op, h), Fits(op, g), Follows(op, h, g), StatusHolds(op, h, u, o, r), h.do = "smSave"
  PROVE  StatusHolds(op, g, u, NewUser, [o EXCEPT !.previous = o.status])
<1> DEFINE q == [o EXCEPT !.previous = o.status]
<1>1. o = r /\ q.status = r.status /\ q.key = r.key /\ q.paid = r.paid
  BY DEF StatusHolds, User
<1> HIDE DEF q
<1> QED
  BY <1>1 DEF StatusHolds, HasRead, Fits, Follows, Refetched, Clears, Clearing, Refetching, Lifting, Granting, StatusCalls, Call

LEMMA StatusMove ==
  ASSUME NEW op \in Handlers, NEW h, NEW g, NEW u \in User, NEW o \in User, NEW r \in User,
         Fits(op, h), Fits(op, g), Follows(op, h, g), StatusHolds(op, h, u, o, r), h.do \in {"smStatus", "force"}, h.what \in Statuses
  PROVE  StatusHolds(op, g, u, o, [r EXCEPT !.status = h.what])
<1> DEFINE q == [r EXCEPT !.status = h.what]
<1>1. q.status = h.what /\ q.key = r.key /\ q.paid = r.paid
  BY DEF User
<1>2. op \in {"request", "requestAuto"} /\ h.what = "pending_demo" /\ g.do = "smGet" =>
        CanTransition(h.what, g.what)
  BY TargetsAre DEF Fits, StatusCalls, CanTransition, Transitions
<1> HIDE DEF q
<1> QED
  BY <1>1, <1>2, SavesAre, TargetsAre DEF StatusHolds, HasRead, Fits, Follows, Refetched, Clears, Clearing, Refetching, Lifting, Granting, StatusCalls, Call

LEMMA StatusApprove ==
  ASSUME NEW h, NEW u, NEW o, NEW r, NEW to, h.do = "approve",
         StatusHolds("approve", h, u, o, r)
  PROVE  StatusHolds("approve", Call("smGet", to), u, o, r)
  BY DEF StatusHolds, HasRead, Fits, Follows, Refetched, Clears, Clearing, Refetching, Lifting, Granting, StatusCalls, Call

LEMMA StatusReturn ==
  ASSUME NEW op \in {"closeTicket", "repair"}, NEW h, NEW g, NEW u, NEW o, NEW r,
         h.do = "return", StatusHolds(op, h, u, o, r), g.do # "smSave",
         g = Call("put", "noTopic") \/ r.status = "support_topic"
  PROVE  StatusHolds(op, g, u, o, r)
  BY DEF StatusHolds, HasRead, Fits, Follows, Refetched, Clears, Clearing, Refetching, Lifting, Granting, StatusCalls, Call, CanTransition

LEMMA KeyFacts ==
  ASSUME NEW op \in Handlers
  PROVE  /\ op = "webUnban" => Targets(op) = {"new"}
         /\ op = "webExpire" => Saves(op) = {"paid"}
  BY DEF Handlers, Targets, Promise, Saves, Granting

LEMMA KeyGet ==
  ASSUME NEW op \in Handlers, NEW h, NEW g, NEW u \in User, NEW o \in User, NEW r \in User,
         NEW p, NEW k \in BOOLEAN, Fits(op, h), Fits(op, g), Follows(op, h, g), StatusHolds(op, h, u, o, r),
         KeyHolds(op, h, u, r, p, k), h.do = "get", Admits(op, r)
  PROVE  KeyHolds(op, g, r, r, p, k)
<1>1. op = "getKey" => r.status \in KeyStatuses
  BY DEF Admits
<1> QED
  BY <1>1 DEF StatusHolds, HasRead, Fits, Follows, Refetched, Clears, Clearing, Refetching, Lifting, Granting, StatusCalls, Call, KeyHolds, Moved, Removed, KeyStatuses

LEMMA KeyFetch ==
  ASSUME NEW op \in Handlers, NEW h, NEW g, NEW u \in User, NEW o \in User, NEW r \in User,
         NEW p, NEW k \in BOOLEAN, Fits(op, h), Fits(op, g), Follows(op, h, g), StatusHolds(op, h, u, o, r),
         KeyHolds(op, h, u, r, p, k), h.do = "fetch"
  PROVE  KeyHolds(op, g, r, r, p, k)
  BY DEF StatusHolds, HasRead, Fits, Follows, Refetched, Clears, Clearing, Refetching, Lifting, Granting, StatusCalls, Call, KeyHolds, Moved, Removed, KeyStatuses

LEMMA KeyPut ==
  ASSUME NEW op \in Handlers, NEW h, NEW g, NEW u \in User, NEW r \in User, NEW p, NEW k \in BOOLEAN,
         Fits(op, h), Fits(op, g), Follows(op, h, g), u.key = r.key, KeyHolds(op, h, u, r, p, k),
         h.do = "put", op # "unban"
  PROVE  \A n, q : /\ n.status = u.status /\ (q = n \/ (q = r /\ n = u /\ h.what = "keyless"))
                   /\ n.key = (IF h.what \in Clearing THEN FALSE ELSE IF h.what = "key" THEN TRUE ELSE u.key)
                   => KeyHolds(op, g, n, q, p, k)
<1> SUFFICES ASSUME NEW n, NEW q, n.status = u.status, q = n \/ (q = r /\ n = u /\ h.what = "keyless"),
                    n.key = (IF h.what \in Clearing THEN FALSE ELSE IF h.what = "key" THEN TRUE ELSE u.key)
             PROVE  KeyHolds(op, g, n, q, p, k)
  OBVIOUS
<1>1. q.key = n.key
  BY DEF Clearing
<1>2. q.key => u.status \in KeyStatuses /\ q.status = u.status
  BY <1>1, SavesAre DEF KeyHolds, HasRead, Fits, Clearing
<1> QED
  BY <1>1, <1>2, SavesAre DEF HasRead, Fits, Follows, Refetched, Clears, Clearing, Refetching, Lifting,
     Granting, StatusCalls, Call, KeyHolds, Moved, Removed, KeyStatuses

LEMMA KeyGrantSkip ==
  ASSUME NEW op \in Handlers, NEW h, NEW g, NEW u \in User, NEW o \in User, NEW r \in User,
         NEW p, NEW k \in BOOLEAN, Fits(op, h), Fits(op, g), Follows(op, Call("smStatus", "paid"), g), StatusHolds(op, h, u, o, r),
         KeyHolds(op, h, u, r, p, k),
         NEW n \in User, n.status = "paid", n.key = u.key, h = Call("put", "granted")
  PROVE  KeyHolds(op, g, n, n, p, k)
  BY SavesAre, TargetsAre DEF StatusHolds, HasRead, Fits, Follows, Refetched, Clears, Clearing, Refetching, Lifting, Granting, StatusCalls, Call, KeyHolds, Moved, Removed, KeyStatuses

LEMMA KeyGranted ==
  ASSUME NEW op \in Handlers, NEW h, NEW g, NEW u \in User, NEW o \in User, NEW r \in User,
         NEW p, NEW k \in BOOLEAN, Fits(op, h), Fits(op, g), Follows(op, h, g), StatusHolds(op, h, u, o, r),
         KeyHolds(op, h, u, r, p, k), h.do = "smGet", CanTransition(r.status, h.what)
  PROVE  KeyHolds(op, g, u, r, p, k)
<1>1. r.status \in KeyStatuses /\ h.what \notin KeyStatuses => h.what = "banned"
  BY DEF KeyStatuses, CanTransition, Transitions
<1> QED
  BY <1>1, TargetsAre DEF StatusHolds, HasRead, Fits, Follows, Refetched, Clears, Clearing, Refetching, Lifting, Granting, StatusCalls, Call, KeyHolds, Moved, Removed, KeyStatuses

LEMMA KeySkip ==
  ASSUME NEW op \in Handlers, NEW h, NEW g, NEW u \in User, NEW o \in User, NEW r \in User,
         NEW p, NEW k \in BOOLEAN, Fits(op, h), Fits(op, g), Follows(op, Call("smStatus", h.what), g), StatusHolds(op, h, u, o, r),
         KeyHolds(op, h, u, r, p, k), h.do = "smGet", op \notin Strict
  PROVE  KeyHolds(op, g, u, r, p, k)
  BY SavesAre DEF StatusHolds, HasRead, Fits, Follows, Refetched, Clears, Clearing, Refetching, Lifting, Granting, StatusCalls, Call, KeyHolds, Moved, Removed, KeyStatuses, Strict, DashboardOps

LEMMA KeyForce ==
  ASSUME NEW op \in Handlers, NEW h, NEW g, NEW u \in User, NEW o \in User, NEW r \in User,
         NEW p, NEW k \in BOOLEAN, Fits(op, h), StatusHolds(op, h, u, o, r),
         KeyHolds(op, h, u, r, p, k),
         op = "closeTicket", h.do = "smGet", g = Call("force", h.what)
  PROVE  KeyHolds(op, g, u, r, p, k)
  BY SavesAre DEF StatusHolds, HasRead, Fits, Follows, Refetched, Clears, Clearing, Refetching, Lifting, Granting, StatusCalls, Call, KeyHolds, Moved, Removed, KeyStatuses

LEMMA KeyMoveSave ==
  ASSUME NEW op \in Handlers, NEW h, NEW g, NEW u \in User, NEW o \in User, NEW r \in User,
         NEW p, NEW k \in BOOLEAN, Fits(op, h), Fits(op, g), Follows(op, h, g), StatusHolds(op, h, u, o, r),
         KeyHolds(op, h, u, r, p, k), h.do = "smSave", NEW q, q.key = r.key, q.status = r.status
  PROVE  KeyHolds(op, g, u, q, p, k)
  BY DEF StatusHolds, HasRead, Fits, Follows, Refetched, Clears, Clearing, Refetching, Lifting, Granting, StatusCalls, Call, KeyHolds, Moved, Removed, KeyStatuses

LEMMA KeyMove ==
  ASSUME NEW op \in Handlers, NEW h, NEW g, NEW u \in User, NEW o \in User, NEW r \in User,
         NEW p, NEW k \in BOOLEAN, Fits(op, h), Fits(op, g), Follows(op, h, g), StatusHolds(op, h, u, o, r),
         KeyHolds(op, h, u, r, p, k),
         h.do \in {"smStatus", "force"}, NEW q, q.key = r.key, q.status = h.what
  PROVE  KeyHolds(op, g, u, q, p, k)
  BY SavesAre, TargetsAre, KeyFacts DEF StatusHolds, HasRead, Fits, Follows, Refetched, Clears, Clearing, Refetching, Lifting, Granting, StatusCalls, Call, KeyHolds, Moved, Removed, KeyStatuses

LEMMA KeyPanel ==
  ASSUME NEW op \in Handlers, NEW h, NEW g, NEW u \in User, NEW o \in User, NEW r \in User,
         NEW p, NEW k \in BOOLEAN, Fits(op, h), Fits(op, g), Follows(op, h, g), StatusHolds(op, h, u, o, r),
         KeyHolds(op, h, u, r, p, k),
         h.do \in {"remove", "add", "sync"}
  PROVE  \A c, l : /\ l \in BOOLEAN /\ (k => l) /\ (c.on => p.on \/ h.do # "remove")
                   /\ h.do = "remove" /\ u.key => ~c.on \/ l
                   /\ h.do = "sync" => (c.on => p.on \/ u.key)
                   => KeyHolds(op, g, u, r, c, l)
  BY SavesAre, KeyFacts DEF StatusHolds, HasRead, Fits, Follows, Refetched, Clears, Clearing, Refetching, Lifting, Granting, StatusCalls, Call, KeyHolds, Moved, Removed, KeyStatuses

LEMMA KeyApprove ==
  ASSUME NEW h, NEW u, NEW r, NEW p, NEW k, NEW to, h.do = "approve",
         KeyHolds("approve", h, u, r, p, k)
  PROVE  KeyHolds("approve", Call("smGet", to), u, r, p, k)
  BY DEF StatusHolds, HasRead, Fits, Follows, Refetched, Clears, Clearing, Refetching, Lifting, Granting, StatusCalls, Call, KeyHolds, Moved, Removed, KeyStatuses

LEMMA KeyReturn ==
  ASSUME NEW op \in {"closeTicket", "repair"}, NEW h, NEW g, NEW u, NEW r, NEW p, NEW k,
         h.do = "return", KeyHolds(op, h, u, r, p, k),
         g = Call("put", "noTopic") \/ (g.do \in {"smGet", "force"} /\ g.what = ReturnState(r))
  PROVE  KeyHolds(op, g, u, r, p, k)
  BY DEF StatusHolds, HasRead, Fits, Follows, Refetched, Clears, Clearing, Refetching, Lifting, Granting, StatusCalls, Call, KeyHolds, Moved, Removed, KeyStatuses, ReturnState

\* And with no call left it holds between handlers.
LEMMA KeyRests ==
  ASSUME NEW op \in Handlers, NEW h, NEW u \in User, NEW o \in User, NEW r \in User,
         NEW p, NEW k \in BOOLEAN, Fits(op, h), Concludes(op, h), StatusHolds(op, h, u, o, r),
         KeyHolds(op, h, u, r, p, k), h.do \in {"get", "fetch", "return"}
  PROVE  KeysSettled(r, p, k)
  BY DEF StatusHolds, HasRead, Fits, Concludes, Refetched, Clears, Clearing, Refetching, Lifting, Granting, StatusCalls, Call, KeyHolds, Moved, Removed, KeyStatuses, KeysSettled

LEMMA KeyPutLast ==
  ASSUME NEW op \in Handlers, NEW h, NEW u \in User, NEW r \in User, NEW p, NEW k \in BOOLEAN,
         Fits(op, h), Concludes(op, h), u.key = r.key, KeyHolds(op, h, u, r, p, k),
         h.do = "put", op # "unban"
  PROVE  \A n, q : /\ n.status = u.status /\ (q = n \/ (q = r /\ n = u /\ h.what = "keyless"))
                   /\ n.key = (IF h.what \in Clearing THEN FALSE ELSE IF h.what = "key" THEN TRUE ELSE u.key)
                   => KeysSettled(q, p, k)
<1> SUFFICES ASSUME NEW n, NEW q, n.status = u.status, q = n \/ (q = r /\ n = u /\ h.what = "keyless"),
                    n.key = (IF h.what \in Clearing THEN FALSE ELSE IF h.what = "key" THEN TRUE ELSE u.key)
             PROVE  KeysSettled(q, p, k)
  OBVIOUS
<1>1. q.key = n.key
  BY DEF Clearing
<1>2. q.key => u.status \in KeyStatuses /\ q.status = u.status
  BY <1>1, SavesAre DEF KeyHolds, HasRead, Fits, Clearing
<1> QED
  BY <1>1, <1>2, SavesAre DEF HasRead, Fits, Concludes, Refetched, Clears, Clearing, Refetching, Lifting,
     Granting, StatusCalls, Call, KeyHolds, Moved, Removed, KeyStatuses, KeysSettled

LEMMA KeyGrantLast ==
  ASSUME NEW op \in Handlers, NEW h, NEW u \in User, NEW o \in User, NEW r \in User,
         NEW p, NEW k \in BOOLEAN, Fits(op, h), Concludes(op, Call("smStatus", "paid")), StatusHolds(op, h, u, o, r),
         KeyHolds(op, h, u, r, p, k), NEW n \in User, n.status = "paid", n.key = u.key,
         h = Call("put", "granted")
  PROVE  KeysSettled(n, p, k)
  BY SavesAre DEF StatusHolds, HasRead, Fits, Concludes, Refetched, Clears, Clearing, Refetching, Lifting, Granting, StatusCalls, Call, KeyHolds, Moved, Removed, KeyStatuses, KeysSettled

LEMMA KeySkipLast ==
  ASSUME NEW op \in Handlers, NEW h, NEW u \in User, NEW o \in User, NEW r \in User,
         NEW p, NEW k \in BOOLEAN, Fits(op, h), Concludes(op, Call("smStatus", h.what)), StatusHolds(op, h, u, o, r),
         KeyHolds(op, h, u, r, p, k), h.do = "smGet", op \notin Strict
  PROVE  KeysSettled(r, p, k)
  BY DEF StatusHolds, HasRead, Fits, Concludes, Refetched, Clears, Clearing, Refetching, Lifting, Granting, StatusCalls, Call, KeyHolds, Moved, Removed, KeyStatuses, KeysSettled, Strict, DashboardOps

LEMMA KeyMoveLast ==
  ASSUME NEW op \in Handlers, NEW h, NEW u \in User, NEW o \in User, NEW r \in User,
         NEW p, NEW k \in BOOLEAN, Fits(op, h), Concludes(op, h), StatusHolds(op, h, u, o, r),
         KeyHolds(op, h, u, r, p, k),
         h.do \in {"smStatus", "force"}, NEW q, q.key = r.key, q.status = h.what
  PROVE  KeysSettled(q, p, k)
  BY DEF StatusHolds, HasRead, Fits, Concludes, Refetched, Clears, Clearing, Refetching, Lifting, Granting, StatusCalls, Call, KeyHolds, Moved, Removed, KeyStatuses, KeysSettled

LEMMA KeyPanelLast ==
  ASSUME NEW op \in Handlers, NEW h, NEW u \in User, NEW o \in User, NEW r \in User,
         NEW p, NEW k \in BOOLEAN, Fits(op, h), Concludes(op, h), StatusHolds(op, h, u, o, r),
         KeyHolds(op, h, u, r, p, k),
         h.do \in {"remove", "sync"}, NEW c, NEW l \in BOOLEAN, k => l, c.on => p.on \/ h.do # "remove",
         h.do = "remove" /\ u.key => ~c.on \/ l, h.do = "sync" => (c.on => p.on \/ u.key)
  PROVE  KeysSettled(r, c, l)
  BY DEF StatusHolds, HasRead, Fits, Concludes, Refetched, Clears, Clearing, Refetching, Lifting, Granting, StatusCalls, Call, KeyHolds, Moved, Removed, KeyStatuses, KeysSettled

LEMMA KeyStops ==
  ASSUME NEW op \in Handlers, NEW h, NEW u \in User, NEW o \in User, NEW r \in User,
         NEW p, NEW k \in BOOLEAN, Fits(op, h), StatusHolds(op, h, u, o, r),
         KeyHolds(op, h, u, r, p, k),
         \/ h.do = "get" /\ ~Admits(op, r)
         \/ h.do = "smGet" /\ op \in Strict
         \/ h.do = "add"
  PROVE  KeysSettled(r, p, k)
<1>1. Admits("reset", r)
  BY DEF Admits
<1> QED
  BY <1>1 DEF StatusHolds, HasRead, Fits, Concludes, Refetched, Clears, Clearing, Refetching, Lifting, Granting, StatusCalls, Call, KeyHolds, Moved, Removed, KeyStatuses, KeysSettled, Strict, DashboardOps

LEMMA StatusEnds ==
  ASSUME NEW op \in Handlers, NEW h, NEW u \in User, NEW o \in User, NEW r \in User,
         Fits(op, h), Concludes(op, h), op \in Checked, StatusHolds(op, h, u, o, r)
  PROVE  /\ h.do \notin StatusCalls =>
              r.status \in Promise(op) /\ (h.do = "put" => u.status \in Promise(op))
         /\ h.do \in {"smStatus", "force"} => h.what \in Promise(op)
<1>1. op \in {"webQuota", "webExpire"} => Promise(op) = Statuses
  BY DEF Promise
<1>2. r.status \in Statuses /\ u.status \in Statuses
  BY DEF User
<1>3. op \in Checked \ {"webQuota", "webExpire"} =>
        op \in Refetching \cup {"request", "requestAuto", "support"}
  BY DEF Checked, DashboardOps, Refetching
<1> QED
  BY <1>1, <1>2, <1>3, TargetsAre DEF StatusHolds, Fits, Concludes, Refetched, StatusCalls

LEMMA StatusEndsSkipped ==
  ASSUME NEW op \in Handlers, NEW h, NEW u \in User, NEW o \in User, NEW r \in User,
         Concludes(op, Call("smStatus", h.what)), op \in Checked, StatusHolds(op, h, u, o, r),
         h.do = "smGet", ~CanTransition(r.status, h.what)
  PROVE  op \in Strict
  BY DEF StatusHolds, Concludes, Call, Checked, Strict

LEMMA StatusEndsGranted ==
  ASSUME NEW op \in Handlers, Fits(op, Call("put", "granted"))
  PROVE  "paid" \in Promise(op)
  BY SavesAre, TargetsAre DEF Fits, Call

-----------------------------------------------------------------------------
(* The same of the threads: the one that is busy takes its step.           *)

\* Which handlers and faults leave the dates, and the keys, in order.
DatesAddUp == "approvePayment" \notin BotOps /\ "webExpire" \notin WebOps
KeysAreKept == "unban" \notin BotOps /\ "crash" \notin Faults

OpOf(th) == at[th].op
At(th) == at[th].todo[1]

LEMMA Alone ==
  ASSUME OneRuns, NEW th \in Threads, Busy(th)
  PROVE  /\ at[th] \in Local /\ row \in User /\ at[th].user \in User /\ at[th].other \in User
         /\ OpOf(th) \in Handlers /\ OpOf(th) \in Ops(th) /\ leaked \in BOOLEAN
         /\ at[th].todo \in Seq(LegalCall) /\ Runs(OpOf(th), at[th].todo)
         /\ Bears(OpOf(th), At(th), Rest(th)) /\ Fits(OpOf(th), At(th))
         /\ Head(at[th].todo) = At(th) /\ At(th) \in LegalCall
         /\ Rest(th) \in Seq(LegalCall)
         /\ \A t \in Threads \ {th} : at[t] = Idle
<1>1. at[th] \in Local /\ row \in User /\ leaked \in BOOLEAN
  BY DEF OneRuns, TInv, TypeOK
<1>2. at[th].todo \in Seq(LegalCall) /\ at[th].user \in User /\ at[th].other \in User
  BY <1>1, LocalFields
<1>3. Runs(OpOf(th), at[th].todo) /\ OpOf(th) \in Ops(th)
  BY DEF OneRuns, OpOf
<1>4. OpOf(th) \in Handlers
  BY <1>3, ConstantsOK DEF Ops, ConstantsOK, Threads, Handlers
<1>5. /\ Bears(OpOf(th), At(th), Rest(th)) /\ Fits(OpOf(th), At(th))
      /\ Head(at[th].todo) = At(th) /\ At(th) \in LegalCall
  BY <1>2, <1>3, Restful DEF Busy, At, Rest
<1>6. \A t \in Threads \ {th} : at[t] = Idle
  BY DEF OneRuns
<1> QED
  BY <1>1, <1>2, <1>3, <1>4, <1>5, <1>6 DEF Bears

LEMMA GoesAlone ==
  ASSUME OneRuns, TInv', NEW th \in Threads, Busy(th), NEW rest \in Seq(LegalCall),
         NEW l \in Local, Goes(th, rest, l), l.op = OpOf(th), Runs(l.op, rest)
  PROVE  /\ OneRuns'
         /\ \A t \in Threads \ {th} : ~Busy(t)'
         /\ rest # <<>> => /\ Busy(th)' /\ ~Quiet' /\ said' = "none"
                           /\ at'[th].todo = rest /\ at'[th].op = l.op
                           /\ at'[th].user = l.user /\ at'[th].other = l.other
                           /\ at'[th].until = l.until /\ at'[th].months = l.months
         /\ rest = <<>> => ~Busy(th)' /\ Quiet' /\ said' = l.op
<1> DEFINE next == IF rest = <<>> THEN Idle ELSE [l EXCEPT !.todo = rest]
<1>1. at \in [Threads -> Local] /\ at' = [at EXCEPT ![th] = next]
  BY DEF OneRuns, TInv, TypeOK, Goes
<1>2. rest # <<>> => /\ next.todo = rest /\ next.op = l.op /\ next.user = l.user
                     /\ next.other = l.other /\ next.until = l.until /\ next.months = l.months
  BY DEF Local
<1>3. Idle.todo = <<>>
  BY DEF Idle, Handler
<1>4. rest = <<>> => next = Idle
  OBVIOUS
<1> HIDE DEF next
<1>5. at'[th] = next /\ (\A t \in Threads \ {th} : at'[t] = Idle)
  BY <1>1, Alone
<1>6. \A t \in Threads \ {th} : ~Busy(t)'
  BY <1>3, <1>5 DEF Busy
<1>7. said' = IF rest = <<>> THEN l.op ELSE "none"
  BY DEF Goes, OpOf
<1>8. rest # <<>> => Busy(th)' /\ ~Quiet'
  BY <1>2, <1>5 DEF Busy, Quiet
<1>9. rest = <<>> => ~Busy(th)' /\ Quiet'
  BY <1>3, <1>4, <1>5 DEF Busy, Quiet
<1>10. OneRuns'
  <2>1. \A t \in Threads : ~Busy(t)' => at'[t] = Idle
    BY <1>4, <1>5, <1>8
  <2>2. \A a, b \in Threads : Busy(a)' /\ Busy(b)' => a = b
    BY <1>6
  <2>3. \A t \in Threads : Busy(t)' => t = th /\ rest # <<>>
    BY <1>6, <1>9
  <2>4. OpOf(th) \in Ops(th)
    BY Alone
  <2>5. \A t \in Threads : Busy(t)' => Runs(at'[t].op, at'[t].todo) /\ at'[t].op \in Ops(t)
    BY <1>2, <1>5, <2>3, <2>4
  <2> QED
    BY <2>1, <2>2, <2>5 DEF OneRuns
<1> QED
  BY <1>2, <1>5, <1>6, <1>7, <1>8, <1>9, <1>10

LEMMA StopsAlone ==
  ASSUME OneRuns, TInv', NEW th \in Threads, Busy(th), Stops(th)
  PROVE  OneRuns' /\ Quiet' /\ said' = "none" /\ (\A t \in Threads : ~Busy(t)')
<1>1. at \in [Threads -> Local] /\ Idle.todo = <<>>
  BY DEF OneRuns, TInv, TypeOK, Idle, Handler
<1>2. \A t \in Threads : at'[t] = Idle
  BY <1>1, Alone DEF Stops
<1>3. Quiet' /\ \A t \in Threads : ~Busy(t)'
  BY <1>1, <1>2 DEF Busy, Quiet
<1> QED
  BY <1>2, <1>3 DEF OneRuns, Stops

\* A step keeps what this proof is about, with the new row, panel and dates.
Kept ==
  /\ OneRuns' /\ StatusInv'
  /\ DatesAddUp /\ DateInv => DateInv'
  /\ KeysAreKept /\ KeyInv => KeyInv'

LEMMA NobodySpeaks ==
  ASSUME said' = "none"
  PROVE  KeepsPromise'
  BY DEF KeepsPromise, Checked, DashboardOps

LEMMA GoesKeeps ==
  ASSUME OneRuns, TInv', NEW th \in Threads, Busy(th), NEW rest \in Seq(LegalCall),
         NEW l \in Local, Goes(th, rest, l), l.op = OpOf(th), Runs(l.op, rest),
         StatusLeads(l.op, rest, l.user, l.other, row'),
         DatesAddUp /\ DateInv =>
           row'.paid = sold' /\ DateLeads(l.op, rest, l.until, l.months, row'.paid),
         KeysAreKept /\ KeyInv => KeyLeads(l.op, rest, l.user, row', panel', leaked')
  PROVE  Kept
<1>1. /\ OneRuns'
      /\ \A t \in Threads \ {th} : ~Busy(t)'
      /\ rest # <<>> => /\ Busy(th)' /\ ~Quiet' /\ said' = "none"
                        /\ at'[th].todo = rest /\ at'[th].op = l.op
                        /\ at'[th].user = l.user /\ at'[th].other = l.other
                        /\ at'[th].until = l.until /\ at'[th].months = l.months
      /\ rest = <<>> => ~Busy(th)' /\ Quiet' /\ said' = l.op
  BY GoesAlone
<1>2. \A t \in Threads : Busy(t)' => t = th /\ rest # <<>>
  BY <1>1
<1>3. StatusInv'
  <2>1. KeepsPromise'
    BY <1>1, NobodySpeaks DEF KeepsPromise, StatusLeads
  <2>2. \A t \in Threads : Busy(t)' =>
          StatusHolds(at'[t].op, at'[t].todo[1], at'[t].user, at'[t].other, row')
    BY <1>1, <1>2 DEF StatusLeads
  <2> QED
    BY <2>1, <2>2 DEF StatusInv
<1>4. DatesAddUp /\ DateInv => DateInv'
  <2> HAVE DatesAddUp /\ DateInv
  <2>1. \A t \in Threads : Busy(t)' =>
          DateHolds(at'[t].op, at'[t].todo[1], at'[t].until, at'[t].months, row'.paid)
    BY <1>1, <1>2 DEF DateLeads
  <2> QED
    BY <2>1 DEF DateInv
<1>5. KeysAreKept /\ KeyInv => KeyInv'
  <2> HAVE KeysAreKept /\ KeyInv
  <2>1. \A t \in Threads : Busy(t)' =>
          KeyHolds(at'[t].op, at'[t].todo[1], at'[t].user, row', panel', leaked')
    BY <1>1, <1>2 DEF KeyLeads
  <2>2. Quiet' => KeysSettled(row', panel', leaked')
    BY <1>1 DEF KeyLeads
  <2> QED
    BY <2>1, <2>2 DEF KeyInv
<1> QED
  BY <1>1, <1>3, <1>4, <1>5 DEF Kept

LEMMA StopsKeeps ==
  ASSUME OneRuns, TInv', NEW th \in Threads, Busy(th), Stops(th), row' = row, sold' = sold,
         KeysAreKept /\ KeyInv => KeysSettled(row', panel', leaked')
  PROVE  Kept
<1>1. OneRuns' /\ Quiet' /\ said' = "none" /\ (\A t \in Threads : ~Busy(t)')
  BY StopsAlone
<1>2. StatusInv'
  BY <1>1, NobodySpeaks DEF StatusInv
<1>3. DateInv => DateInv'
  BY <1>1 DEF DateInv
<1>4. KeysAreKept /\ KeyInv => KeyInv'
  BY <1>1 DEF KeyInv
<1> QED
  BY <1>1, <1>2, <1>3, <1>4 DEF Kept

\* What holds at the call that a thread is about to make.
LEMMA HoldsAt ==
  ASSUME OneRuns, NEW th \in Threads, Busy(th)
  PROVE  /\ StatusInv => StatusHolds(OpOf(th), At(th), at[th].user, at[th].other, row)
         /\ DateInv => /\ row.paid = sold
                       /\ DateHolds(OpOf(th), At(th), at[th].until, at[th].months, row.paid)
         /\ KeyInv => KeyHolds(OpOf(th), At(th), at[th].user, row, panel, leaked)
         /\ KeysAreKept => OpOf(th) # "unban"
         /\ DatesAddUp => OpOf(th) \notin {"approvePayment", "webExpire"}
<1>1. OpOf(th) \in Ops(th)
  BY Alone
<1>2. (KeysAreKept => OpOf(th) # "unban") /\ (DatesAddUp => OpOf(th) \notin {"approvePayment", "webExpire"})
  BY <1>1, ConstantsOK DEF ConstantsOK, Ops, Threads, KeysAreKept, DatesAddUp, UserOps, AdminOps, DashboardOps
<1> QED
  BY <1>2 DEF StatusInv, DateInv, KeyInv, OpOf, At

LEMMA AtCall ==
  ASSUME OneRuns, NEW th \in Threads, NEW do, Calls(th, do)
  PROVE  Busy(th) /\ At(th).do = do /\ At(th).what = What(th)
<1>1. Busy(th)
  BY DEF Calls, Busy
<1> QED
  BY <1>1, Alone DEF Calls, What

LEMMA DateStays ==
  ASSUME NEW op, NEW h, NEW s, NEW until, NEW months, NEW paid,
         h.do # "get", DateHolds(op, h, until, months, paid)
  PROVE  DateLeads(op, s, until, months, paid)
  BY DEF DateHolds, DateLeads

LEMMA GetKeeps ==
  ASSUME OneRuns, StatusInv, TInv', NEW th \in Threads, GetUser(th)
  PROVE  Kept
<1> DEFINE op == OpOf(th)
           h == At(th)
           s == Rest(th)
           until == Until(op, row, at[th].months)
           l == [at[th] EXCEPT !.user = row, !.until = until]
<1>1. Busy(th) /\ h.do = "get" /\ UNCHANGED <<row, panel, sold, leaked>>
  BY AtCall DEF GetUser
<1>2. /\ at[th] \in Local /\ row \in User /\ at[th].user \in User /\ at[th].other \in User
      /\ op \in Handlers /\ Fits(op, h) /\ Bears(op, h, s) /\ leaked \in BOOLEAN
  BY <1>1, Alone
<1>3. /\ StatusHolds(op, h, at[th].user, at[th].other, row)
      /\ DateInv => row.paid = sold
      /\ KeyInv => KeyHolds(op, h, at[th].user, row, panel, leaked)
  BY <1>1, HoldsAt
<1>4. CASE ~Admits(op, row)
  <2>1. Stops(th)
    BY <1>4 DEF GetUser, OpOf
  <2>2. KeyInv => KeysSettled(row, panel, leaked)
    BY <1>1, <1>2, <1>3, <1>4, KeyStops
  <2> QED
    BY <1>1, <2>1, <2>2, StopsKeeps
<1>5. CASE Admits(op, row)
  <2>1. Goes(th, s, l)
    BY <1>5 DEF GetUser, OpOf
  <2>2. until \in 0..MaxMonths
    <3>1. until \in Nat /\ until <= sold + at[th].months
      BY NowTyped, UntilCovered DEF OneRuns, TInv
    <3> QED
      BY <3>1, NowTyped DEF OneRuns
  <2>3. op \in {"pay", "webGrant"} => until = row.paid + at[th].months
    BY DEF Until
  <2> HIDE DEF until
  <2>4. /\ l \in Local /\ l.op = op /\ l.user = row /\ l.other = at[th].other
        /\ l.until = until /\ l.months = at[th].months
    BY <1>2, <2>2 DEF Local, OpOf
  <2> HIDE DEF l, s, op, h
  <2>5. StatusLeads(op, s, row, at[th].other, row)
    <3>1. s # <<>> => StatusHolds(op, s[1], row, at[th].other, row)
      BY <1>1, <1>2, <1>3, <1>5, StatusGet DEF Bears
    <3>2. s = <<>> /\ op \in Checked => row.status \in Promise(op)
      BY <1>1, <1>2, <1>3, StatusEnds DEF Bears, StatusCalls
    <3> QED
      BY <3>1, <3>2 DEF StatusLeads
  <2>6. DateLeads(op, s, until, at[th].months, row.paid)
    BY <2>3 DEF DateLeads, DateHolds
  <2>7. KeyInv => KeyLeads(op, s, row, row, panel, leaked)
    <3>1. KeyInv /\ s # <<>> => KeyHolds(op, s[1], row, row, panel, leaked)
      BY <1>1, <1>2, <1>3, <1>5, KeyGet DEF Bears
    <3>2. KeyInv /\ s = <<>> => KeysSettled(row, panel, leaked)
      BY <1>1, <1>2, <1>3, KeyRests DEF Bears
    <3> QED
      BY <3>1, <3>2 DEF KeyLeads
  <2>8. s \in Seq(LegalCall) /\ Runs(op, s)
    BY <1>2 DEF Bears
  <2> QED
    BY <1>1, <1>3, <2>1, <2>4, <2>5, <2>6, <2>7, <2>8, GoesKeeps DEF op
<1> QED
  BY <1>4, <1>5

LEMMA FetchKeeps ==
  ASSUME OneRuns, StatusInv, TInv', NEW th \in Threads, FetchUser(th)
  PROVE  Kept
<1> DEFINE op == OpOf(th)
           h == At(th)
           s == Rest(th)
           l == [at[th] EXCEPT !.user = row]
<1>1. Busy(th) /\ h.do = "fetch" /\ UNCHANGED <<row, panel, sold, leaked>> /\ Goes(th, s, l)
  BY AtCall DEF FetchUser
<1>2. /\ at[th] \in Local /\ row \in User /\ at[th].user \in User /\ at[th].other \in User
      /\ op \in Handlers /\ Fits(op, h) /\ Bears(op, h, s) /\ leaked \in BOOLEAN
  BY <1>1, Alone
<1>3. /\ StatusHolds(op, h, at[th].user, at[th].other, row)
      /\ DateInv => row.paid = sold /\ DateHolds(op, h, at[th].until, at[th].months, row.paid)
      /\ KeyInv => KeyHolds(op, h, at[th].user, row, panel, leaked)
  BY <1>1, HoldsAt
<1>4. /\ l \in Local /\ l.op = op /\ l.user = row /\ l.other = at[th].other
      /\ l.until = at[th].until /\ l.months = at[th].months
  BY <1>2 DEF Local, OpOf
<1> HIDE DEF l, s, op, h
<1>5. StatusLeads(op, s, row, at[th].other, row)
  <2>1. s # <<>> => StatusHolds(op, s[1], row, at[th].other, row)
    BY <1>1, <1>2, <1>3, StatusFetch DEF Bears
  <2>2. s = <<>> /\ op \in Checked => row.status \in Promise(op)
    BY <1>1, <1>2, <1>3, StatusEnds DEF Bears, StatusCalls
  <2> QED
    BY <2>1, <2>2 DEF StatusLeads
<1>6. DateInv => DateLeads(op, s, at[th].until, at[th].months, row.paid)
  BY <1>1, <1>3, DateStays
<1>7. KeyInv => KeyLeads(op, s, row, row, panel, leaked)
  <2>1. KeyInv /\ s # <<>> => KeyHolds(op, s[1], row, row, panel, leaked)
    BY <1>1, <1>2, <1>3, KeyFetch DEF Bears
  <2>2. KeyInv /\ s = <<>> => KeysSettled(row, panel, leaked)
    BY <1>1, <1>2, <1>3, KeyRests DEF Bears
  <2> QED
    BY <2>1, <2>2 DEF KeyLeads
<1>8. s \in Seq(LegalCall) /\ Runs(op, s)
  BY <1>2 DEF Bears
<1> QED
  BY <1>1, <1>3, <1>4, <1>5, <1>6, <1>7, <1>8, GoesKeeps DEF op

LEMMA PanelKeeps ==
  ASSUME OneRuns, StatusInv, TInv', NEW th \in Threads,
         PanelRemove(th) \/ PanelAdd(th) \/ PanelSync(th)
  PROVE  Kept
<1> DEFINE op == OpOf(th)
           h == At(th)
           s == Rest(th)
           u == at[th].user
<1>1. /\ Busy(th) /\ h.do \in {"remove", "add", "sync"} /\ UNCHANGED <<row, sold>>
      /\ PanelRemove(th) <=> h.do = "remove"
      /\ PanelAdd(th) <=> h.do = "add"
      /\ PanelSync(th) <=> h.do = "sync"
  <2>1. CASE PanelRemove(th)
    <3>1. Busy(th) /\ h.do = "remove" /\ UNCHANGED <<row, sold>>
      BY <2>1, AtCall DEF PanelRemove
    <3>2. ~PanelAdd(th) /\ ~PanelSync(th)
      BY <3>1, AtCall DEF PanelAdd, PanelSync
    <3> QED
      BY <2>1, <3>1, <3>2
  <2>2. CASE PanelAdd(th)
    <3>1. Busy(th) /\ h.do = "add" /\ UNCHANGED <<row, sold>>
      BY <2>2, AtCall DEF PanelAdd
    <3>2. ~PanelRemove(th) /\ ~PanelSync(th)
      BY <3>1, AtCall DEF PanelRemove, PanelSync
    <3> QED
      BY <2>2, <3>1, <3>2
  <2>3. CASE PanelSync(th)
    <3>1. Busy(th) /\ h.do = "sync" /\ UNCHANGED <<row, sold>>
      BY <2>3, AtCall DEF PanelSync
    <3>2. ~PanelRemove(th) /\ ~PanelAdd(th)
      BY <3>1, AtCall DEF PanelRemove, PanelAdd
    <3> QED
      BY <2>3, <3>1, <3>2
  <2> QED
    BY <2>1, <2>2, <2>3
<1>2. /\ at[th] \in Local /\ row \in User /\ u \in User /\ at[th].other \in User
      /\ op \in Handlers /\ Fits(op, h) /\ Bears(op, h, s) /\ leaked \in BOOLEAN
  BY <1>1, Alone
<1>3. /\ StatusHolds(op, h, u, at[th].other, row)
      /\ DateInv => row.paid = sold /\ DateHolds(op, h, at[th].until, at[th].months, row.paid)
      /\ KeyInv => KeyHolds(op, h, u, row, panel, leaked)
  BY <1>1, HoldsAt
<1>4. at[th].op = op /\ leaked' \in BOOLEAN
  BY DEF TInv, TypeOK, OpOf
<1> DEFINE Gone == /\ Goes(th, s, at[th]) /\ (leaked => leaked')
                   /\ panel'.on => panel.on \/ h.do # "remove"
                   /\ h.do = "remove" /\ u.key => ~panel'.on \/ leaked'
                   /\ h.do = "sync" => (panel'.on => panel.on \/ u.key)
           Halted == /\ PanelAdd(th) /\ Stops(th) /\ leaked' = leaked
                     /\ panel'.on => panel.on \/ u.key
<1>5. Gone \/ Halted
  <2>1. CASE PanelRemove(th)
    <3>1. Goes(th, s, at[th])
      BY <2>1 DEF PanelRemove
    <3>2. (leaked => leaked') /\ (panel'.on => panel.on) /\ (u.key => ~panel'.on \/ leaked')
      BY <2>1 DEF PanelRemove, NoClient
    <3> QED
      BY <1>1, <2>1, <3>1, <3>2
  <2>2. CASE PanelAdd(th)
    <3>1. leaked' = leaked /\ h.do = "add"
      BY <1>1, <2>2 DEF PanelAdd
    <3>2. Goes(th, s, at[th]) \/ (Stops(th) /\ (panel'.on => panel.on \/ u.key))
      BY <2>2 DEF PanelAdd
    <3> QED
      BY <2>2, <3>1, <3>2
  <2>3. CASE PanelSync(th)
    <3>1. Goes(th, s, at[th]) /\ leaked' = leaked /\ (panel'.on => panel.on \/ u.key)
      BY <2>3 DEF PanelSync
    <3> QED
      BY <1>1, <2>3, <3>1
  <2> QED
    BY <1>1, <2>1, <2>2, <2>3
<1>6. CASE Gone
  <2>1. /\ Goes(th, s, at[th]) /\ (leaked => leaked') /\ (panel'.on => panel.on \/ h.do # "remove")
        /\ h.do = "remove" /\ u.key => ~panel'.on \/ leaked'
        /\ h.do = "sync" => (panel'.on => panel.on \/ u.key)
    BY <1>6
  <2> HIDE DEF s, op, h, u
  <2>2. StatusLeads(op, s, u, at[th].other, row)
    <3>1. s # <<>> => StatusHolds(op, s[1], u, at[th].other, row)
      BY <1>1, <1>2, <1>3, StatusPanel DEF Bears
    <3>2. s = <<>> /\ op \in Checked => row.status \in Promise(op)
      BY <1>1, <1>2, <1>3, StatusEnds DEF Bears, StatusCalls
    <3> QED
      BY <3>1, <3>2 DEF StatusLeads
  <2>3. DateInv => DateLeads(op, s, at[th].until, at[th].months, row.paid)
    BY <1>1, <1>3, DateStays
  <2>4. KeyInv => KeyLeads(op, s, u, row, panel', leaked')
    <3>1. KeyInv /\ s # <<>> => KeyHolds(op, s[1], u, row, panel', leaked')
      <4> HAVE KeyInv /\ s # <<>>
      <4> DEFINE g == s[1]
      <4>1. Fits(op, g) /\ Follows(op, h, g) /\ KeyHolds(op, h, u, row, panel, leaked)
        BY <1>2, <1>3 DEF Bears
      <4> HIDE DEF g
      <4>2. \A c, l : /\ l \in BOOLEAN /\ (leaked => l) /\ (c.on => panel.on \/ h.do # "remove")
                      /\ h.do = "remove" /\ u.key => ~c.on \/ l
                      /\ h.do = "sync" => (c.on => panel.on \/ u.key)
                      => KeyHolds(op, g, u, row, c, l)
        BY <1>1, <1>2, <1>3, <4>1, KeyPanel
      <4>3. KeyHolds(op, g, u, row, panel', leaked')
        BY <1>4, <2>1, <4>2
      <4> QED
        BY <4>3 DEF g
    <3>2. KeyInv /\ s = <<>> => KeysSettled(row, panel', leaked')
      <4>1. s = <<>> => h.do \in {"remove", "sync"}
        BY <1>1, <1>2 DEF Bears, Concludes
      <4> QED
        BY <1>1, <1>2, <1>3, <1>4, <2>1, <4>1, KeyPanelLast DEF Bears
    <3> QED
      BY <3>1, <3>2 DEF KeyLeads
  <2>5. s \in Seq(LegalCall) /\ Runs(op, s)
    BY <1>2 DEF Bears
  <2> QED
    BY <1>1, <1>2, <1>3, <1>4, <2>1, <2>2, <2>3, <2>4, <2>5, GoesKeeps DEF op, u
<1>7. CASE Halted
  <2>1. h.do = "add" /\ Stops(th) /\ leaked' = leaked /\ (panel'.on => panel.on \/ u.key)
    BY <1>1, <1>7
  <2>2. KeyInv => KeysSettled(row, panel', leaked')
    <3>1. HasRead(op, h)
      BY <1>2, <2>1 DEF HasRead, Fits
    <3>2. u.key = row.key
      BY <1>3, <3>1 DEF StatusHolds
    <3>3. KeyInv => KeysSettled(row, panel, leaked)
      BY <1>1, <1>2, <1>3, <2>1, KeyStops
    <3> QED
      BY <2>1, <3>2, <3>3 DEF KeysSettled
  <2> QED
    BY <1>1, <2>1, <2>2, StopsKeeps
<1> QED
  BY <1>5, <1>6, <1>7

LEMMA MoveSaveKeeps ==
  ASSUME OneRuns, StatusInv, TInv', NEW th \in Threads, TransitionSave(th)
  PROVE  Kept
<1> DEFINE op == OpOf(th)
           h == At(th)
           s == Rest(th)
           u == at[th].user
           o == at[th].other
           q == [o EXCEPT !.previous = o.status]
           l == [at[th] EXCEPT !.other = NewUser]
<1>1. /\ Busy(th) /\ h.do = "smSave" /\ UNCHANGED <<panel, sold, leaked>> /\ Goes(th, s, l)
      /\ row' = q
  BY AtCall DEF TransitionSave
<1>2. /\ at[th] \in Local /\ row \in User /\ u \in User /\ o \in User
      /\ op \in Handlers /\ Fits(op, h) /\ Bears(op, h, s) /\ leaked \in BOOLEAN
  BY <1>1, Alone
<1>3. /\ StatusHolds(op, h, u, o, row)
      /\ DateInv => row.paid = sold /\ DateHolds(op, h, at[th].until, at[th].months, row.paid)
      /\ KeyInv => KeyHolds(op, h, u, row, panel, leaked)
  BY <1>1, HoldsAt
<1>4. NewUser \in User
  BY ConstantsOK DEF NewUser, User, Statuses, ConstantsOK
<1>5. /\ l \in Local /\ l.op = op /\ l.user = u /\ l.other = NewUser
      /\ l.until = at[th].until /\ l.months = at[th].months
  BY <1>2, <1>4 DEF Local, OpOf
<1>6. o = row
  BY <1>1, <1>3 DEF StatusHolds
<1>7. q.key = row.key /\ q.status = row.status /\ q.paid = row.paid
  BY <1>2, <1>6 DEF User
<1> HIDE DEF l, s, op, h, u, o
<1>8. s # <<>>
  BY <1>1, <1>2 DEF Bears, Concludes
<1>9. StatusLeads(op, s, u, NewUser, row')
  BY <1>1, <1>2, <1>3, <1>8, StatusMoveSave DEF Bears, StatusLeads
<1> HIDE DEF q
<1>10. DateInv => DateLeads(op, s, at[th].until, at[th].months, row'.paid)
  BY <1>1, <1>3, <1>7, DateStays
<1>11. KeyInv => KeyLeads(op, s, u, row', panel', leaked')
  BY <1>1, <1>2, <1>3, <1>7, <1>8, KeyMoveSave DEF Bears, KeyLeads
<1>12. s \in Seq(LegalCall) /\ Runs(op, s)
  BY <1>2 DEF Bears
<1> QED
  BY <1>1, <1>3, <1>5, <1>7, <1>9, <1>10, <1>11, <1>12, GoesKeeps DEF op

LEMMA MoveKeeps ==
  ASSUME OneRuns, StatusInv, TInv', NEW th \in Threads, UpdateStatus(th)
  PROVE  Kept
<1> DEFINE op == OpOf(th)
           h == At(th)
           s == Rest(th)
           u == at[th].user
           o == at[th].other
           q == [row EXCEPT !.status = h.what]
<1>1. /\ Busy(th) /\ h.do \in {"smStatus", "force"} /\ UNCHANGED <<panel, sold, leaked>>
      /\ Goes(th, s, at[th]) /\ row' = q
  BY AtCall DEF UpdateStatus
<1>2. /\ at[th] \in Local /\ row \in User /\ u \in User /\ o \in User /\ h \in LegalCall
      /\ op \in Handlers /\ Fits(op, h) /\ Bears(op, h, s) /\ leaked \in BOOLEAN
  BY <1>1, Alone
<1>3. /\ StatusHolds(op, h, u, o, row)
      /\ DateInv => row.paid = sold /\ DateHolds(op, h, at[th].until, at[th].months, row.paid)
      /\ KeyInv => KeyHolds(op, h, u, row, panel, leaked)
  BY <1>1, HoldsAt
<1>4. at[th].op = op
  BY DEF OpOf
<1>5. h.what \in Statuses
  BY <1>1, <1>2 DEF LegalCall, OtherCalls
<1>6. q.key = row.key /\ q.status = h.what /\ q.paid = row.paid
  BY <1>2 DEF User
<1> HIDE DEF s, op, h, u, o
<1>7. StatusLeads(op, s, u, o, row')
  <2>1. s # <<>> => StatusHolds(op, s[1], u, o, row')
    BY <1>1, <1>2, <1>3, <1>5, StatusMove DEF Bears
  <2>2. s = <<>> /\ op \in Checked => row'.status \in Promise(op)
    BY <1>1, <1>2, <1>3, <1>6, StatusEnds DEF Bears
  <2> QED
    BY <2>1, <2>2 DEF StatusLeads
<1> HIDE DEF q
<1>8. DateInv => DateLeads(op, s, at[th].until, at[th].months, row'.paid)
  BY <1>1, <1>3, <1>6, DateStays
<1>9. KeyInv => KeyLeads(op, s, u, row', panel', leaked')
  <2>1. KeyInv /\ s # <<>> => KeyHolds(op, s[1], u, row', panel', leaked')
    BY <1>1, <1>2, <1>3, <1>6, KeyMove DEF Bears
  <2>2. KeyInv /\ s = <<>> => KeysSettled(row', panel', leaked')
    BY <1>1, <1>2, <1>3, <1>6, KeyMoveLast DEF Bears
  <2> QED
    BY <2>1, <2>2 DEF KeyLeads
<1>10. s \in Seq(LegalCall) /\ Runs(op, s)
  BY <1>2 DEF Bears
<1> QED
  BY <1>1, <1>2, <1>3, <1>4, <1>6, <1>7, <1>8, <1>9, <1>10, GoesKeeps DEF op, u, o

\* Calls put in front of those that are left.
LEMMA Prefixed ==
  ASSUME NEW op, NEW s, NEW a, NEW b, NEW t, Part(op, s, a, b), Bears(op, b, t)
  PROVE  /\ s \o t \in Seq(LegalCall) /\ s \o t # <<>>
         /\ (s \o t)[1] = a /\ Runs(op, s \o t)
<1>1. s \in Seq(LegalCall) /\ t \in Seq(LegalCall)
  BY DEF Part, Bears
<1>2. s \o t \in Seq(LegalCall)
  BY <1>1, Joined
<1>3. CASE t = <<>>
  <2>1. s \o t = s
    BY <1>1, <1>3
  <2>2. Runs(op, s) /\ s # <<>> /\ s[1] = a
    BY <1>3, PartRuns DEF Bears
  <2> QED
    BY <1>2, <2>1, <2>2
<1>4. CASE t # <<>>
  <2>1. Part(op, t, t[1], t[Len(t)]) /\ Concludes(op, t[Len(t)]) /\ Follows(op, b, t[1])
    BY <1>1, <1>4 DEF Part, Bears, Runs
  <2>2. Part(op, s \o t, a, t[Len(t)])
    BY <2>1, JoinParts
  <2> QED
    BY <1>2, <2>1, <2>2, PartRuns
<1> QED
  BY <1>3, <1>4

LEMMA ForceLeads ==
  ASSUME NEW what, NEW t, Bears("closeTicket", Call("smStatus", what), t)
  PROVE  Bears("closeTicket", Call("force", what), t)
<1>1. "closeTicket" \in Handlers
  BY DEF Handlers, AdminOps
<1>2. Saves("closeTicket") = {"noTopic"}
  BY <1>1, SavesAre
<1>3. ASSUME NEW g, Fits("closeTicket", g), Follows("closeTicket", Call("smStatus", what), g)
      PROVE  Follows("closeTicket", Call("force", what), g)
  BY <1>2, <1>3 DEF Fits, Follows, Refetched, Refetching, Granting, Clears, Clearing, Call
<1>4. Concludes("closeTicket", Call("force", what))
  BY DEF Concludes, Refetching, Call
<1> HIDE DEF Call
<1> QED
  BY <1>3, <1>4 DEF Bears

LEMMA TransitionGetKeeps ==
  ASSUME OneRuns, StatusInv, TInv', NEW th \in Threads, TransitionGet(th)
  PROVE  Kept
<1> DEFINE op == OpOf(th)
           h == At(th)
           s == Rest(th)
           t == Next3(at[th].todo)
           u == at[th].user
           o == at[th].other
           l == [at[th] EXCEPT !.other = row]
<1>1. /\ Busy(th) /\ h.do = "smGet" /\ What(th) = h.what /\ UNCHANGED <<row, panel, sold, leaked>>
      /\ at[th].op = op
  BY AtCall DEF TransitionGet, OpOf
<1>2. /\ at[th] \in Local /\ row \in User /\ u \in User /\ o \in User /\ h \in LegalCall
      /\ op \in Handlers /\ Fits(op, h) /\ Bears(op, h, s) /\ leaked \in BOOLEAN
      /\ at[th].todo \in Seq(LegalCall) /\ Runs(op, at[th].todo)
  BY <1>1, Alone
<1>3. /\ StatusHolds(op, h, u, o, row)
      /\ DateInv => row.paid = sold /\ DateHolds(op, h, at[th].until, at[th].months, row.paid)
      /\ KeyInv => KeyHolds(op, h, u, row, panel, leaked)
  BY <1>1, HoldsAt
<1>4. Bears(op, Call("smStatus", h.what), t)
  BY <1>1, <1>2, Skips DEF Busy, At
<1>5. h.what \in Statuses
  BY <1>1, <1>2 DEF LegalCall, OtherCalls
<1>6. \A rest : DateInv => DateLeads(op, rest, at[th].until, at[th].months, row.paid)
  BY <1>1, <1>3, DateStays
<1>7. CASE CanTransition(row.status, h.what)
  <2>1. Goes(th, s, l)
    BY <1>1, <1>7 DEF TransitionGet
  <2>2. /\ l \in Local /\ l.op = op /\ l.user = u /\ l.other = row
        /\ l.until = at[th].until /\ l.months = at[th].months
    BY <1>2 DEF Local, OpOf
  <2> HIDE DEF l, s, op, h, u, o
  <2>3. s # <<>>
    BY <1>1, <1>2 DEF Bears, Concludes
  <2>4. StatusLeads(op, s, u, row, row)
    BY <1>1, <1>2, <1>3, <1>7, <2>3, StatusGranted DEF Bears, StatusLeads
  <2>5. KeyInv => KeyLeads(op, s, u, row, panel, leaked)
    BY <1>1, <1>2, <1>3, <1>7, <2>3, KeyGranted DEF Bears, KeyLeads
  <2>6. s \in Seq(LegalCall) /\ Runs(op, s)
    BY <1>2 DEF Bears
  <2> QED
    BY <1>1, <1>3, <1>6, <2>1, <2>2, <2>4, <2>5, <2>6, GoesKeeps DEF op
<1>8. CASE ~CanTransition(row.status, h.what) /\ op = "closeTicket"
  <2> DEFINE rest == SetState(h.what) \o t
             g == Call("force", h.what)
  <2>1. Goes(th, rest, at[th])
    BY <1>1, <1>8 DEF TransitionGet
  <2>2. h.what \in Targets(op)
    BY <1>1, <1>2 DEF Fits, StatusCalls
  <2>3. Part(op, SetState(h.what), g, g)
    BY <1>5, <1>8, <2>2, PartsFit
  <2>4. Bears(op, g, t)
    BY <1>4, <1>8, ForceLeads
  <2>5. rest \in Seq(LegalCall) /\ rest # <<>> /\ rest[1] = g /\ Runs(op, rest)
    BY <2>3, <2>4, Prefixed
  <2>6. StatusHolds(op, g, u, o, row)
    <3>1. Fits(op, g)
      BY <1>8, <2>2 DEF Fits, Call
    <3> QED
      BY <1>1, <1>2, <1>3, <1>8, <3>1, StatusForce
  <2>7. KeyInv => KeyHolds(op, g, u, row, panel, leaked)
    BY <1>1, <1>2, <1>3, <1>8, KeyForce
  <2> HIDE DEF rest, g
  <2>8. StatusLeads(op, rest, u, o, row)
    BY <2>5, <2>6 DEF StatusLeads
  <2>9. KeyInv => KeyLeads(op, rest, u, row, panel, leaked)
    BY <2>5, <2>7 DEF KeyLeads
  <2> QED
    BY <1>1, <1>2, <1>3, <1>6, <2>1, <2>5, <2>8, <2>9, GoesKeeps DEF op, u, o
<1>9. CASE ~CanTransition(row.status, h.what) /\ op # "closeTicket" /\ op \in Strict
  <2>1. Stops(th)
    BY <1>1, <1>9 DEF TransitionGet
  <2>2. KeyInv => KeysSettled(row, panel, leaked)
    BY <1>1, <1>2, <1>3, <1>9, KeyStops
  <2> QED
    BY <1>1, <2>1, <2>2, StopsKeeps
<1>10. CASE ~CanTransition(row.status, h.what) /\ op # "closeTicket" /\ op \notin Strict
  <2>1. Goes(th, t, at[th])
    BY <1>1, <1>10 DEF TransitionGet
  <2> HIDE DEF t, op, h, u, o
  <2>2. StatusLeads(op, t, u, o, row)
    <3>1. t # <<>> => StatusHolds(op, t[1], u, o, row)
      BY <1>1, <1>2, <1>3, <1>4, <1>10, StatusSkip DEF Bears
    <3>2. t = <<>> => op \notin Checked
      BY <1>1, <1>2, <1>3, <1>4, <1>10, StatusEndsSkipped DEF Bears
    <3> QED
      BY <3>1, <3>2 DEF StatusLeads
  <2>3. KeyInv => KeyLeads(op, t, u, row, panel, leaked)
    <3>1. KeyInv /\ t # <<>> => KeyHolds(op, t[1], u, row, panel, leaked)
      BY <1>1, <1>2, <1>3, <1>4, <1>10, KeySkip DEF Bears
    <3>2. KeyInv /\ t = <<>> => KeysSettled(row, panel, leaked)
      BY <1>1, <1>2, <1>3, <1>4, <1>10, KeySkipLast DEF Bears
    <3> QED
      BY <3>1, <3>2 DEF KeyLeads
  <2>4. t \in Seq(LegalCall) /\ Runs(op, t)
    BY <1>4 DEF Bears
  <2> QED
    BY <1>1, <1>2, <1>3, <1>6, <2>1, <2>2, <2>3, <2>4, GoesKeeps DEF op, u, o
<1> QED
  BY <1>7, <1>8, <1>9, <1>10

LEMMA ApproveKeeps ==
  ASSUME OneRuns, StatusInv, TInv', NEW th \in Threads, Approve(th)
  PROVE  Kept
<1> DEFINE op == OpOf(th)
           h == At(th)
           u == at[th].user
           o == at[th].other
           to == IF u.status = "pending_demo" THEN "platform_select" ELSE "demo"
           rest == Transition(to)
<1>1. /\ Busy(th) /\ h.do = "approve" /\ UNCHANGED <<row, panel, sold, leaked>>
      /\ at[th].op = op /\ Goes(th, rest, at[th])
  BY AtCall DEF Approve, OpOf
<1>2. /\ at[th] \in Local /\ row \in User /\ u \in User /\ o \in User
      /\ op \in Handlers /\ Fits(op, h) /\ leaked \in BOOLEAN
  BY <1>1, Alone
<1>3. /\ StatusHolds(op, h, u, o, row)
      /\ DateInv => row.paid = sold /\ DateHolds(op, h, at[th].until, at[th].months, row.paid)
      /\ KeyInv => KeyHolds(op, h, u, row, panel, leaked)
  BY <1>1, HoldsAt
<1>4. op = "approve"
  BY <1>1, <1>2 DEF Fits
<1>5. to \in Statuses \cap Targets(op)
  BY <1>4 DEF Statuses, Targets
<1> HIDE DEF to
<1>6. Part(op, rest, Call("smGet", to), Call("smStatus", to))
  BY <1>5, PartsFit
<1>7. Concludes(op, Call("smStatus", to))
  BY <1>4 DEF Concludes, Call, Refetching
<1>8. Runs(op, rest) /\ rest # <<>> /\ rest[1] = Call("smGet", to) /\ rest \in Seq(LegalCall)
  BY <1>6, <1>7, PartRuns DEF Part
<1> HIDE DEF rest, op, h, u, o
<1>9. StatusLeads(op, rest, u, o, row)
  BY <1>1, <1>3, <1>4, <1>8, StatusApprove DEF StatusLeads
<1>10. KeyInv => KeyLeads(op, rest, u, row, panel, leaked)
  BY <1>1, <1>3, <1>4, <1>8, KeyApprove DEF KeyLeads
<1>11. DateInv => DateLeads(op, rest, at[th].until, at[th].months, row.paid)
  BY <1>1, <1>3, DateStays
<1> QED
  BY <1>1, <1>2, <1>3, <1>8, <1>9, <1>10, <1>11, GoesKeeps DEF op, u, o

LEMMA ReturnKeeps ==
  ASSUME OneRuns, StatusInv, TInv', NEW th \in Threads, ReturnFromSupport(th)
  PROVE  Kept
<1> DEFINE op == OpOf(th)
           h == At(th)
           s == Rest(th)
           u == at[th].user
           o == at[th].other
           to == ReturnState(row)
<1>1. /\ Busy(th) /\ h.do = "return" /\ UNCHANGED <<row, panel, sold, leaked>> /\ at[th].op = op
  BY AtCall DEF ReturnFromSupport, OpOf
<1>2. /\ at[th] \in Local /\ row \in User /\ u \in User /\ o \in User
      /\ op \in Handlers /\ Fits(op, h) /\ Bears(op, h, s) /\ leaked \in BOOLEAN
  BY <1>1, Alone
<1>3. /\ StatusHolds(op, h, u, o, row)
      /\ DateInv => row.paid = sold /\ DateHolds(op, h, at[th].until, at[th].months, row.paid)
      /\ KeyInv => KeyHolds(op, h, u, row, panel, leaked)
  BY <1>1, HoldsAt
<1>4. op \in {"closeTicket", "repair"} /\ op \notin Checked
  <2>1. op \in {"closeTicket", "repair"}
    BY <1>1, <1>2 DEF Fits
  <2> QED
    BY <2>1 DEF Checked, DashboardOps
<1>5. s # <<>> => op = "closeTicket" /\ s[1] = Call("put", "noTopic")
  <2>1. s # <<>> => s[1] = Call("put", "noTopic") /\ Fits(op, s[1])
    BY <1>1, <1>2 DEF Bears, Follows
  <2>2. s # <<>> => "noTopic" \in Saves(op)
    BY <2>1 DEF Fits, Call
  <2> QED
    BY <1>2, <1>4, <2>1, <2>2, SavesAre
<1>6. \A rest : DateInv => DateLeads(op, rest, at[th].until, at[th].months, row.paid)
  BY <1>1, <1>3, DateStays
<1>7. to \in Statuses /\ to \in Targets(op)
  BY <1>4, ReturnStates DEF Statuses, Targets
<1>8. CASE Goes(th, s, at[th])
  <2> HIDE DEF s, op, h, u, o
  <2>1. StatusLeads(op, s, u, o, row)
    <3>1. Call("put", "noTopic").do # "smSave"
      BY DEF Call
    <3>2. s # <<>> => StatusHolds(op, s[1], u, o, row)
      BY <1>1, <1>3, <1>4, <1>5, <3>1, StatusReturn
    <3> QED
      BY <1>4, <3>2 DEF StatusLeads
  <2>2. KeyInv => KeyLeads(op, s, u, row, panel, leaked)
    <3>1. KeyInv => KeyHolds(op, Call("put", "noTopic"), u, row, panel, leaked)
      BY <1>1, <1>3, <1>4, KeyReturn
    <3>2. KeyInv /\ s = <<>> => KeysSettled(row, panel, leaked)
      BY <1>1, <1>2, <1>3, KeyRests DEF Bears
    <3> QED
      BY <1>5, <3>1, <3>2 DEF KeyLeads
  <2>3. s \in Seq(LegalCall) /\ Runs(op, s)
    BY <1>2 DEF Bears
  <2> QED
    BY <1>1, <1>2, <1>3, <1>6, <1>8, <2>1, <2>2, <2>3, GoesKeeps DEF op, u, o
<1>9. CASE ~Goes(th, s, at[th])
  <2> DEFINE first == IF op = "repair" THEN SetState(to) ELSE Transition(to)
             rest == first \o s
             g == Call(IF op = "repair" THEN "force" ELSE "smGet", to)
             b == Call(IF op = "repair" THEN "force" ELSE "smStatus", to)
  <2>1. Goes(th, rest, at[th]) /\ row.status = "support_topic"
    BY <1>1, <1>9 DEF ReturnFromSupport
  <2>2. Part(op, first, g, b)
    <3>1. CASE op = "repair"
      BY <1>7, <3>1, PartsFit
    <3>2. CASE op # "repair"
      BY <1>7, <3>2, PartsFit
    <3> QED
      BY <3>1, <3>2
  <2>3. Bears(op, b, s)
    <3>1. Concludes(op, b)
      BY <1>4 DEF Concludes, Call, Refetching
    <3>2. op = "closeTicket" => Follows(op, b, Call("put", "noTopic"))
      BY DEF Follows, Refetched, Refetching, Clears, Clearing, Call
    <3> HIDE DEF b, op, s
    <3> QED
      BY <1>2, <1>5, <3>1, <3>2 DEF Bears
  <2>4. rest \in Seq(LegalCall) /\ rest # <<>> /\ rest[1] = g /\ Runs(op, rest)
    BY <2>2, <2>3, Prefixed
  <2>5. g.do \in {"smGet", "force"} /\ g.what = to /\ g.do # "smSave"
    BY DEF Call
  <2> HIDE DEF first, rest, g, b, to
  <2>6. StatusHolds(op, g, u, o, row)
    BY <1>1, <1>3, <1>4, <2>1, <2>5, StatusReturn
  <2>7. KeyInv => KeyHolds(op, g, u, row, panel, leaked)
    BY <1>1, <1>3, <1>4, <2>1, <2>5, KeyReturn DEF to
  <2>8. StatusLeads(op, rest, u, o, row)
    BY <2>4, <2>6 DEF StatusLeads
  <2>9. KeyInv => KeyLeads(op, rest, u, row, panel, leaked)
    BY <2>4, <2>7 DEF KeyLeads
  <2> QED
    BY <1>1, <1>2, <1>3, <1>6, <2>1, <2>4, <2>8, <2>9, GoesKeeps DEF op, u, o
<1> QED
  BY <1>8, <1>9

LEMMA SaveKeeps ==
  ASSUME OneRuns, StatusInv, TInv', NEW th \in Threads, SaveUser(th)
  PROVE  Kept
<1> DEFINE op == OpOf(th)
           h == At(th)
           s == Rest(th)
           u == at[th].user
           o == at[th].other
           until == at[th].until
           n == Changed(h.what, u, until)
           none == h.what = "keyless" /\ ~u.key
           q == IF none THEN row ELSE n
           sells == h.what \in {"granted", "paid"}
           left == IF sells THEN 0 ELSE at[th].months
           l == [at[th] EXCEPT !.user = n, !.months = IF sells THEN 0 ELSE @]
           skips == h.what = "granted" /\ u.status = "paid"
           rest == IF skips THEN Next3(s) ELSE s
<1>1. /\ Busy(th) /\ h.do = "put" /\ What(th) = h.what /\ UNCHANGED <<panel, leaked>>
      /\ at[th].op = op
  BY AtCall DEF SaveUser, OpOf
<1>2. /\ at[th] \in Local /\ row \in User /\ u \in User /\ o \in User /\ h \in LegalCall
      /\ op \in Handlers /\ Fits(op, h) /\ Bears(op, h, s) /\ leaked \in BOOLEAN
  BY <1>1, Alone
<1>3. /\ StatusHolds(op, h, u, o, row)
      /\ DateInv => row.paid = sold /\ DateHolds(op, h, until, at[th].months, row.paid)
      /\ KeyInv => KeyHolds(op, h, u, row, panel, leaked)
      /\ KeysAreKept => op # "unban"
      /\ DatesAddUp => op \notin {"approvePayment", "webExpire"}
  BY <1>1, HoldsAt
<1>4. /\ row' = q /\ Goes(th, rest, l)
      /\ sold' = CASE h.what = "granted" -> sold + at[th].months
                   [] h.what = "paid" /\ until > sold -> until
                   [] OTHER -> sold
  BY <1>1 DEF SaveUser
<1>5. h.what \in SaveKinds /\ h.what \in Saves(op)
  BY <1>1, <1>2 DEF LegalCall, StatusCalls, Fits
<1>6. until \in 0..MaxMonths /\ at[th].months \in 0..MaxMonths /\ MaxMonths \in Nat /\ sold \in Nat
  BY NowTyped DEF OneRuns
<1>7. /\ n \in User /\ n.status = u.status
      /\ n.key = (IF h.what \in Clearing THEN FALSE ELSE IF h.what = "key" THEN TRUE ELSE u.key)
      /\ n.paid = (IF sells THEN until ELSE u.paid)
      /\ none => n = u
  <2> DEFINE what == h.what
  <2>1. what \in SaveKinds /\ u \in User /\ until \in 0..MaxMonths /\ n = Changed(what, u, until)
    BY <1>2, <1>5, <1>6
  <2> HIDE DEF n, u, until, what
  <2>2. /\ n \in User /\ n.status = u.status
        /\ n.key = (IF what \in Clearing THEN FALSE ELSE IF what = "key" THEN TRUE ELSE u.key)
        /\ n.paid = (IF what \in {"granted", "paid"} THEN until ELSE u.paid)
        /\ what = "keyless" /\ ~u.key => n = u
    <3>1. n \in User /\ n.status = u.status
      BY <2>1, ChangedAre
    <3>2. n.paid = (IF what \in {"granted", "paid"} THEN until ELSE u.paid)
      BY <2>1 DEF Changed, User
    <3>3. what = "keyless" /\ ~u.key => n = u
      BY <2>1 DEF Changed, User
    <3>4. n.key = (IF what \in Clearing THEN FALSE ELSE IF what = "key" THEN TRUE ELSE u.key)
      BY <2>1, ChangedAre
    <3> QED
      BY <3>1, <3>2, <3>3, <3>4
  <2> QED
    BY <2>2 DEF what
<1>8. u.key = row.key /\ u.paid = row.paid
  BY <1>1, <1>2, <1>3, <1>5, SavesAre DEF StatusHolds, HasRead
<1>9. /\ l \in Local /\ l.op = op /\ l.user = n /\ l.other = o
      /\ l.until = until /\ l.months = left
  <2> DEFINE held == [at[th] EXCEPT !.user = n]
  <2>1. held \in Local /\ held.op = op /\ held.user = n /\ held.other = o /\ held.until = until
    <3> HIDE DEF n
    <3> QED
      BY <1>1, <1>2, <1>7 DEF Local
  <2>2. l = [held EXCEPT !.months = left]
    OBVIOUS
  <2>3. left \in 0..MaxMonths
    BY <1>6
  <2> HIDE DEF held, left, n, l
  <2> QED
    BY <2>1, <2>2, <2>3 DEF Local
<1>10. q = n \/ (q = row /\ n = u /\ h.what = "keyless")
  BY <1>7
<1> HIDE DEF n, l, left, s, op, h, u, o, until
<1>11. skips => /\ h = Call("put", "granted") /\ Bears(op, Call("smStatus", "paid"), Next3(s))
                /\ q = n
  <2> HAVE skips
  <2>1. h = Call("put", "granted")
    BY <1>1, <1>2 DEF LegalCall, Call
  <2>2. s # <<>> /\ s \in Seq(LegalCall) /\ Runs(op, s) /\ s[1] = Call("smGet", "paid")
    BY <1>2, <2>1 DEF Bears, Concludes, Follows
  <2>3. s[1].do = "smGet" /\ s[1].what = "paid"
    BY <2>2 DEF Call
  <2>4. Bears(op, Call("smStatus", "paid"), Next3(s))
    BY <2>2, <2>3, Skips
  <2> QED
    BY <2>1, <2>4
<1>12. q.key = n.key /\ q.status \in {u.status, row.status}
  BY <1>7, <1>8, <1>10
<1>13. rest \in Seq(LegalCall) /\ Runs(op, rest)
  BY <1>2, <1>11 DEF Bears
<1>14. StatusLeads(op, rest, n, o, q)
  <2>1. CASE skips
    <3>1. n.status = "paid" /\ q = n /\ rest = Next3(s)
      BY <1>7, <1>11, <2>1
    <3>2. rest # <<>> => StatusHolds(op, rest[1], n, o, n)
      BY <1>2, <1>3, <1>7, <1>11, <2>1, <3>1, StatusGrantSkip DEF Bears
    <3>3. "paid" \in Promise(op)
      BY <1>2, <1>11, <2>1, StatusEndsGranted
    <3> HIDE DEF q, rest, skips
    <3> QED
      BY <3>1, <3>2, <3>3 DEF StatusLeads
  <2>2. CASE ~skips
    <3>1. rest = s
      BY <2>2
    <3>2. s # <<>> => StatusHolds(op, s[1], n, o, q)
      <4> HIDE DEF q
      <4> QED
        BY <1>1, <1>2, <1>3, <1>7, <1>10, StatusPut DEF Bears
    <3>3. s = <<>> /\ op \in Checked => q.status \in Promise(op)
      <4>1. s = <<>> /\ op \in Checked => row.status \in Promise(op) /\ u.status \in Promise(op)
        BY <1>1, <1>2, <1>3, StatusEnds DEF Bears, StatusCalls
      <4> QED
        BY <1>12, <4>1
    <3> HIDE DEF q, rest, skips
    <3> QED
      BY <3>1, <3>2, <3>3 DEF StatusLeads
  <2> QED
    BY <2>1, <2>2
<1>15. DatesAddUp /\ DateInv => /\ q.paid = sold' /\ DateLeads(op, rest, until, left, q.paid)
  <2> HAVE DatesAddUp /\ DateInv
  <2>1. row.paid = sold /\ DateHolds(op, h, until, at[th].months, row.paid)
    BY <1>3
  <2>2. CASE h.what = "granted"
    <3>1. op \in {"pay", "webGrant"}
      BY <1>2, <1>3, <1>5, <2>2, SavesAre DEF Granting
    <3>2. until = sold + at[th].months
      BY <1>1, <2>1, <3>1 DEF DateHolds
    <3>3. q.paid = until /\ sold' = until /\ left = 0
      BY <1>4, <1>7, <2>2, <3>2 DEF left
    <3>4. until = until + 0
      BY <1>6
    <3> QED
      BY <3>3, <3>4 DEF DateLeads, DateHolds
  <2>3. CASE h.what # "granted"
    <3>1. h.what # "paid"
      BY <1>2, <1>3, <1>5, SavesAre
    <3>2. q.paid = row.paid /\ sold' = sold /\ left = at[th].months
      BY <1>4, <1>7, <1>8, <1>10, <2>3, <3>1 DEF left
    <3> QED
      BY <1>1, <2>1, <3>2, DateStays
  <2> QED
    BY <2>2, <2>3
<1>16. KeysAreKept /\ KeyInv => KeyLeads(op, rest, n, q, panel, leaked)
  <2> HAVE KeysAreKept /\ KeyInv
  <2>1. op # "unban" /\ KeyHolds(op, h, u, row, panel, leaked)
    BY <1>3
  <2>2. CASE skips
    <3>1. n.status = "paid" /\ n.key = u.key /\ q = n /\ rest = Next3(s)
      BY <1>7, <1>11, <2>2 DEF Clearing
    <3>2. rest # <<>> => KeyHolds(op, rest[1], n, n, panel, leaked)
      BY <1>2, <1>3, <1>7, <1>11, <2>1, <2>2, <3>1, KeyGrantSkip DEF Bears
    <3>3. rest = <<>> => KeysSettled(n, panel, leaked)
      BY <1>2, <1>3, <1>7, <1>11, <2>1, <2>2, <3>1, KeyGrantLast DEF Bears
    <3> HIDE DEF q, rest, skips
    <3> QED
      BY <3>1, <3>2, <3>3 DEF KeyLeads
  <2>3. CASE ~skips
    <3>1. rest = s
      BY <2>3
    <3> HIDE DEF q, rest, skips
    <3>2. ASSUME s # <<>> PROVE KeyHolds(op, s[1], n, q, panel, leaked)
      <4> DEFINE g == s[1]
      <4>1. Fits(op, g) /\ Follows(op, h, g)
        BY <1>2, <3>2 DEF Bears
      <4> HIDE DEF g
      <4>2. \A m, r : /\ m.status = u.status /\ (r = m \/ (r = row /\ m = u /\ h.what = "keyless"))
                      /\ m.key = (IF h.what \in Clearing THEN FALSE ELSE IF h.what = "key" THEN TRUE ELSE u.key)
                      => KeyHolds(op, g, m, r, panel, leaked)
        BY <1>1, <1>2, <1>8, <2>1, <4>1, KeyPut
      <4>3. KeyHolds(op, g, n, q, panel, leaked)
        BY <1>7, <1>10, <4>2
      <4> QED
        BY <4>3 DEF g
    <3>3. ASSUME s = <<>> PROVE KeysSettled(q, panel, leaked)
      <4>1. Concludes(op, h)
        BY <1>2, <3>3 DEF Bears
      <4>2. \A m, r : /\ m.status = u.status /\ (r = m \/ (r = row /\ m = u /\ h.what = "keyless"))
                      /\ m.key = (IF h.what \in Clearing THEN FALSE ELSE IF h.what = "key" THEN TRUE ELSE u.key)
                      => KeysSettled(r, panel, leaked)
        BY <1>1, <1>2, <1>8, <2>1, <4>1, KeyPutLast
      <4> QED
        BY <1>7, <1>10, <4>2
    <3> QED
      BY <3>1, <3>2, <3>3 DEF KeyLeads
  <2> QED
    BY <2>2, <2>3
<1> HIDE DEF q, rest
<1> QED
  BY <1>1, <1>4, <1>9, <1>13, <1>14, <1>15, <1>16, GoesKeeps DEF op

LEMMA StepKeeps ==
  ASSUME OneRuns, StatusInv, TInv', NEW th \in Threads, Step(th)
  PROVE  Kept
  BY GetKeeps, FetchKeeps, SaveKeeps, TransitionGetKeeps, MoveSaveKeeps, MoveKeeps,
     ApproveKeeps, ReturnKeeps, PanelKeeps DEF Step

\* A handler begins when no other is at work.
LEMMA StartKeeps ==
  ASSUME OneRuns, StatusInv, TInv', ~Interleaved, NEW th \in Threads, NEW op \in Ops(th), Start(th, op)
  PROVE  Kept
<1> DEFINE s == Program(op)
<1>1. PICK months : at' = [at EXCEPT ![th] = Handler(op, s, months)]
  BY DEF Start
<1>2. UNCHANGED <<row, panel, sold, leaked>> /\ said' = "none" /\ Quiet
  BY DEF Start
<1>3. op \in Handlers
  BY ConstantsOK DEF Ops, ConstantsOK, Threads, Handlers
<1>4. /\ Runs(op, s) /\ s # <<>>
      /\ \/ s[1] = Call("get", "")
         \/ op = "support" /\ s[1] = Call("smGet", "support_topic")
         \/ op = "repair" /\ s[1] = Call("return", "")
  BY <1>3, ProgramsRun
<1> HIDE DEF s
<1>5. /\ Handler(op, s, months).op = op /\ Handler(op, s, months).todo = s
      /\ Handler(op, s, months).user = NewUser /\ Handler(op, s, months).other = NewUser
  BY DEF Handler
<1>6. at \in [Threads -> Local] /\ \A t \in Threads : at[t] = Idle /\ ~Busy(t)
  BY <1>2 DEF OneRuns, TInv, TypeOK, Quiet, Busy
<1>7. Idle.todo = <<>>
  BY DEF Idle, Handler
<1>8. /\ at'[th].op = op /\ at'[th].todo = s /\ at'[th].user = NewUser /\ at'[th].other = NewUser
      /\ \A t \in Threads \ {th} : at'[t] = Idle
  <2>1. at'[th] = Handler(op, s, months) /\ \A t \in Threads \ {th} : at'[t] = Idle
    BY <1>1, <1>6
  <2> QED
    BY <1>5, <2>1
<1>9. Busy(th)' /\ ~Quiet' /\ \A t \in Threads : Busy(t)' => t = th
  BY <1>4, <1>7, <1>8 DEF Busy, Quiet
<1>10. OneRuns'
  <2>1. \A t \in Threads : Busy(t)' => Runs(at'[t].op, at'[t].todo) /\ at'[t].op \in Ops(t)
    BY <1>4, <1>8, <1>9
  <2>2. \A t \in Threads : ~Busy(t)' => at'[t] = Idle
    BY <1>8, <1>9
  <2>3. \A a, b \in Threads : Busy(a)' /\ Busy(b)' => a = b
    BY <1>9
  <2> QED
    BY <2>1, <2>2, <2>3 DEF OneRuns
<1> DEFINE g == s[1]
<1>11. /\ g.do \in {"get", "smGet", "return"}
       /\ g.do = "smGet" => op = "support"
       /\ g.do = "return" => op = "repair"
  <2>1. /\ Call("get", "").do = "get" /\ Call("smGet", "support_topic").do = "smGet"
        /\ Call("return", "").do = "return"
    BY DEF Call
  <2> QED
    BY <1>4, <2>1
<1> HIDE DEF g
<1>12. \A t \in Threads : Busy(t)' => /\ at'[t].op = op /\ at'[t].todo[1] = g
                                      /\ at'[t].user = NewUser /\ at'[t].other = NewUser
  BY <1>8, <1>9 DEF g
<1>13. StatusInv'
  <2>1. StatusHolds(op, g, NewUser, NewUser, row)
    BY <1>11 DEF StatusHolds, HasRead, Refetched, StatusCalls
  <2>2. \A t \in Threads : Busy(t)' =>
          StatusHolds(at'[t].op, at'[t].todo[1], at'[t].user, at'[t].other, row')
    BY <1>2, <1>12, <2>1
  <2> QED
    BY <1>2, <2>2, NobodySpeaks DEF StatusInv
<1>14. DateInv => DateInv'
  <2>1. \A until, m, paid : DateHolds(op, g, until, m, paid)
    BY <1>11 DEF DateHolds
  <2> QED
    BY <1>2, <1>12, <2>1 DEF DateInv
<1>15. KeyInv => KeyInv'
  <2>1. KeyInv => KeysSettled(row, panel, leaked)
    BY <1>2 DEF KeyInv
  <2>2. KeyInv => KeyHolds(op, g, NewUser, row, panel, leaked)
    BY <1>11, <2>1 DEF KeyHolds, KeysSettled, Moved, Removed, Clears, HasRead
  <2>3. KeyInv => \A t \in Threads : Busy(t)' =>
          KeyHolds(at'[t].op, at'[t].todo[1], at'[t].user, row', panel', leaked')
    BY <1>2, <1>12, <2>2
  <2> QED
    BY <1>2, <1>9, <2>3 DEF KeyInv
<1> QED
  BY <1>10, <1>13, <1>14, <1>15 DEF Kept

\* A month passes, the panel drops a client, the process dies, or nothing moves.
LEMMA TimeKeeps ==
  ASSUME OneRuns, StatusInv, TInv', Month \/ Purge \/ Crash \/ UNCHANGED vars
  PROVE  Kept
<1>1. CASE Month
  <2>1. /\ Quiet /\ at' = at /\ said' = "none" /\ leaked' = leaked /\ sold' = Less(sold)
        /\ row' = [row EXCEPT !.paid = Less(@)] /\ panel' = [panel EXCEPT !.until = Less(@)]
    BY <1>1 DEF Month
  <2>2. row \in User /\ panel \in [on : BOOLEAN, until : 0..MaxMonths]
    BY DEF OneRuns, TInv, TypeOK
  <2>3. /\ row'.paid = Less(row.paid) /\ row'.key = row.key /\ row'.status = row.status
        /\ panel'.on = panel.on
    BY <2>1, <2>2 DEF User
  <2>4. \A t \in Threads : ~Busy(t)' /\ at'[t] = Idle
    BY <2>1 DEF Quiet, Busy, OneRuns
  <2>5. OneRuns'
    BY <2>4 DEF OneRuns
  <2>6. StatusInv'
    BY <2>1, <2>4, NobodySpeaks DEF StatusInv
  <2>7. DateInv => DateInv'
    BY <2>1, <2>3, <2>4 DEF DateInv
  <2>8. KeyInv => KeyInv'
    BY <2>1, <2>3, <2>4 DEF KeyInv, KeysSettled
  <2> QED
    BY <2>5, <2>6, <2>7, <2>8 DEF Kept
<1>2. CASE Purge
  <2>1. UNCHANGED <<row, at, sold, leaked>> /\ said' = "none" /\ panel' = NoClient /\ ~panel'.on
    BY <1>2 DEF Purge, NoClient
  <2>2. \A t \in Threads : Busy(t)' <=> Busy(t)
    BY <2>1 DEF Busy
  <2>3. OneRuns'
    BY <2>1, <2>2 DEF OneRuns
  <2>4. StatusInv'
    BY <2>1, <2>2, NobodySpeaks DEF StatusInv
  <2>5. DateInv => DateInv'
    BY <2>1, <2>2 DEF DateInv
  <2>6. KeyInv => KeyInv'
    <3>1. Quiet' <=> Quiet
      BY <2>1 DEF Quiet
    <3>2. KeysSettled(row, panel, leaked) => KeysSettled(row, panel', leaked)
      BY <2>1 DEF KeysSettled
    <3>3. \A op, h, u : KeyHolds(op, h, u, row, panel, leaked) => KeyHolds(op, h, u, row, panel', leaked)
      BY <2>1 DEF KeyHolds
    <3> QED
      BY <2>1, <2>2, <3>1, <3>2, <3>3 DEF KeyInv
  <2> QED
    BY <2>3, <2>4, <2>5, <2>6 DEF Kept
<1>3. CASE Crash
  <2>1. UNCHANGED <<row, panel, sold, leaked>> /\ said' = "none" /\ at' = [th \in Threads |-> Idle]
        /\ "crash" \in Faults
    BY <1>3 DEF Crash
  <2>2. Idle.todo = <<>>
    BY DEF Idle, Handler
  <2>3. \A t \in Threads : ~Busy(t)' /\ at'[t] = Idle
    BY <2>1, <2>2 DEF Busy
  <2>4. OneRuns'
    BY <2>3 DEF OneRuns
  <2>5. StatusInv'
    BY <2>1, <2>3, NobodySpeaks DEF StatusInv
  <2>6. DateInv => DateInv'
    BY <2>1, <2>3 DEF DateInv
  <2> QED
    BY <2>1, <2>4, <2>5, <2>6 DEF Kept, KeysAreKept
<1>4. CASE UNCHANGED vars
  <2>1. UNCHANGED <<row, panel, at, said, sold, leaked>>
    BY <1>4 DEF vars
  <2>2. (\A t \in Threads : Busy(t)' <=> Busy(t)) /\ (Quiet' <=> Quiet)
    BY <2>1 DEF Busy, Quiet
  <2>3. OneRuns'
    BY <2>1, <2>2 DEF OneRuns
  <2>4. StatusInv'
    BY <2>1, <2>2 DEF StatusInv, KeepsPromise
  <2>5. DateInv => DateInv'
    BY <2>1, <2>2 DEF DateInv
  <2>6. KeyInv => KeyInv'
    BY <2>1, <2>2 DEF KeyInv
  <2> QED
    BY <2>3, <2>4, <2>5, <2>6 DEF Kept
<1> QED
  BY <1>1, <1>2, <1>3, <1>4

LEMMA BeginsSettled ==
  ASSUME Init
  PROVE  OneRuns /\ StatusInv /\ DateInv /\ KeyInv
<1>1. TInv
  BY InitTyped
<1>2. Idle.todo = <<>>
  BY DEF Idle, Handler
<1>3. \A t \in Threads : ~Busy(t) /\ at[t] = Idle
  BY <1>2 DEF Init, Busy
<1>4. /\ row = NewUser /\ panel = NoClient /\ said = "none" /\ sold = 0
  BY DEF Init
<1>5. OneRuns
  BY <1>1, <1>3 DEF OneRuns
<1>6. StatusInv
  BY <1>3, <1>4 DEF StatusInv, KeepsPromise, Checked, DashboardOps
<1>7. DateInv
  BY <1>3, <1>4 DEF DateInv, NewUser
<1>8. KeyInv
  BY <1>3, <1>4 DEF KeyInv, KeysSettled, NewUser, NoClient
<1> QED
  BY <1>5, <1>6, <1>7, <1>8

LEMMA NextKeeps ==
  ASSUME ~Interleaved, OneRuns, StatusInv, [Next]_vars
  PROVE  Kept
<1>1. TInv'
  BY NextTyped DEF OneRuns
<1>2. ASSUME NEW th \in Threads, Step(th) PROVE Kept
  BY <1>1, <1>2, StepKeeps
<1>3. ASSUME NEW th \in Threads, NEW op \in Ops(th), Start(th, op) PROVE Kept
  BY <1>1, <1>3, StartKeeps
<1>4. CASE Month \/ Purge \/ Crash \/ UNCHANGED vars
  BY <1>1, <1>4, TimeKeeps
<1> QED
  BY <1>2, <1>3, <1>4 DEF Next

LEMMA BansHold ==
  ASSUME OneRuns, StatusInv, [Next]_vars, row.status = "banned", row'.status # "banned"
  PROVE  \E th \in Threads : at[th].op \in Lifting
<1>1. PICK th \in Threads : Step(th)
  <2>1. row \in User
    BY DEF OneRuns, TInv, TypeOK
  <2>2. Month => row'.status = row.status
    BY <2>1 DEF Month, User
  <2>3. Purge \/ Crash \/ UNCHANGED vars => row' = row
    BY DEF Purge, Crash, vars
  <2>4. \A th \in Threads : \A op : Start(th, op) => row' = row
    BY DEF Start
  <2> QED
    BY <2>2, <2>3, <2>4 DEF Next
<1> DEFINE op == OpOf(th)
           h == At(th)
           u == at[th].user
           o == at[th].other
<1>2. SaveUser(th) \/ TransitionSave(th) \/ UpdateStatus(th)
  BY <1>1 DEF Step, GetUser, FetchUser, TransitionGet, Approve, ReturnFromSupport,
     PanelRemove, PanelAdd, PanelSync
<1>3. Busy(th)
  BY <1>2, AtCall DEF SaveUser, TransitionSave, UpdateStatus
<1>4. /\ u \in User /\ o \in User /\ row \in User /\ h \in LegalCall
      /\ op \in Handlers /\ Fits(op, h) /\ StatusHolds(op, h, u, o, row)
  BY <1>3, Alone, HoldsAt
<1>5. CASE SaveUser(th)
  <2>1. h.do = "put" /\ What(th) = h.what
    BY <1>5, AtCall DEF SaveUser
  <2>2. h.what \in SaveKinds /\ h.what \in Saves(op)
    BY <1>4, <2>1 DEF LegalCall, StatusCalls, Fits
  <2>3. at[th].until \in 0..MaxMonths
    BY NowTyped DEF OneRuns
  <2>4. Changed(h.what, u, at[th].until).status = u.status
    BY <1>4, <2>2, <2>3 DEF Changed, User
  <2>5. row' = row \/ row' = Changed(h.what, u, at[th].until)
    BY <1>5, <2>1 DEF SaveUser
  <2>6. u.status # "banned" /\ (h.what # "keyless" \/ u.key)
    BY <1>5, <2>1, <2>4, <2>5 DEF SaveUser
  <2>7. op \in Lifting \cup {"webBan"}
    BY <1>4, <2>1, <2>2, <2>6, SavesAre DEF StatusHolds, HasRead
  <2>8. op = "webBan" => u.status \in Promise(op)
    BY <1>4, <2>1 DEF StatusHolds, Refetched, Refetching
  <2>9. Promise("webBan") = {"banned"}
    BY DEF Promise
  <2> QED
    BY <2>6, <2>7, <2>8, <2>9 DEF OpOf
<1>6. CASE TransitionSave(th)
  <2>1. h.do = "smSave" /\ row' = [o EXCEPT !.previous = o.status]
    BY <1>6, AtCall DEF TransitionSave
  <2>2. o = row
    BY <1>4, <2>1 DEF StatusHolds
  <2> QED
    BY <1>4, <2>1, <2>2 DEF User
<1>7. CASE UpdateStatus(th)
  <2>1. h.do \in {"smStatus", "force"} /\ row' = [row EXCEPT !.status = h.what]
    BY <1>7, AtCall DEF UpdateStatus
  <2>2. row'.status = h.what
    BY <1>4, <2>1 DEF User
  <2>3. op \in Lifting
    BY <1>4, <2>1, <2>2 DEF StatusHolds, Fits, Lifting, StatusCalls
  <2> QED
    BY <2>3 DEF OpOf
<1> QED
  BY <1>2, <1>5, <1>6, <1>7

-----------------------------------------------------------------------------
(* The theorems.  Interleaved is FALSE: the lifecycle_race and             *)
(* lifecycle_lost_ban runs show what interleaved handlers break.           *)

\* What a handler that checks its transitions has answered is so when it
\* answers: the user is in the status it reports, whichever handlers ran and
\* crashed before it and whatever the panel failed to do, because the dashboard's
\* side effects work on a user read again after the transition and the others
\* save nothing after it (StateMachine.transition, _execute_action_side_effects).
THEOREM AnswersAreKept ==
  ASSUME ~Interleaved
  PROVE  Spec => []KeepsPromise
<1>1. Init => OneRuns /\ StatusInv
  BY BeginsSettled
<1>2. OneRuns /\ StatusInv /\ [Next]_vars => OneRuns' /\ StatusInv'
  BY NextKeeps DEF Kept
<1>3. StatusInv => KeepsPromise
  BY DEF StatusInv
<1> QED
  BY <1>1, <1>2, <1>3, PTL DEF Spec

\* A banned user stays banned until one of the five commands that lift a ban
\* moves them: no save of a User object read before the ban, and no transition
\* from it, brings them back while handlers run one at a time (STATE_TRANSITIONS,
\* revoke_user_key, UserRepository.save).
THEOREM BansStick ==
  ASSUME ~Interleaved
  PROVE  Spec => BanSticks
<1>1. Init => OneRuns /\ StatusInv
  BY BeginsSettled
<1>2. OneRuns /\ StatusInv /\ [Next]_vars => OneRuns' /\ StatusInv'
  BY NextKeeps DEF Kept
<1>3. OneRuns /\ StatusInv /\ [Next]_vars =>
        [row.status = "banned" /\ row'.status # "banned" =>
           \E th \in Threads : at[th].op \in {"unban", "webUnban", "reset", "webReset",
                                              "resetApproval"}]_vars
  BY BansHold DEF Lifting
<1> QED
  BY <1>1, <1>2, <1>3, PTL DEF Spec, BanSticks

\* Purchases add up: each payment and each paid grant extends what is left by
\* what was sold, whatever crashes or fails, when handlers run one at a time and
\* nobody sets the date by hand.  The two handlers left out do: /approvepay and the
\* dashboard's expiry replace the date (_on_successful_payment, grant_paid_access).
THEOREM PurchasesAddUp ==
  ASSUME ~Interleaved, DatesAddUp
  PROVE  Spec => []PaidAdds
<1>1. Init => OneRuns /\ StatusInv /\ DateInv
  BY BeginsSettled
<1>2. OneRuns /\ StatusInv /\ DateInv /\ [Next]_vars =>
        OneRuns' /\ StatusInv' /\ DateInv'
  BY NextKeeps DEF Kept
<1>3. DateInv => PaidAdds
  BY DEF DateInv, PaidAdds
<1> QED
  BY <1>1, <1>2, <1>3, PTL DEF Spec

\* Someone who is not let in holds no key, and the panel serves no client whose
\* row has none unless a removal failed, when handlers run one at a time and to
\* their end.  Telegram's /unban is left out: it forgets the key without removing
\* the client (revoke_user_key, _KEY_ALLOWED_STATUSES).
THEOREM KeysNeedApproval ==
  ASSUME ~Interleaved, KeysAreKept
  PROVE  Spec => []KeyNeedsApproval
<1>1. Init => OneRuns /\ StatusInv /\ KeyInv
  BY BeginsSettled
<1>2. OneRuns /\ StatusInv /\ KeyInv /\ [Next]_vars =>
        OneRuns' /\ StatusInv' /\ KeyInv'
  BY NextKeeps DEF Kept
<1>3. KeyInv => KeyNeedsApproval
  BY DEF KeyInv, KeysSettled, KeyNeedsApproval
<1> QED
  BY <1>1, <1>2, <1>3, PTL DEF Spec

\* What is reported of a user holds: the types, the status, the key and the months
\* paid for, for any plans, limits and sets of handlers that run one at a time and
\* to their end, without the three handlers that the theorems above leave out.
THEOREM PromisesHold ==
  ASSUME ~Interleaved, DatesAddUp, KeysAreKept
  PROVE  Spec => []PromisesKept
<1>1. Spec => []TypeOK
  BY TypeCorrect
<1>2. TypeOK /\ KeepsPromise /\ KeyNeedsApproval /\ PaidAdds => PromisesKept
  BY DEF PromisesKept
<1> QED
  BY <1>1, <1>2, AnswersAreKept, PurchasesAddUp, KeysNeedApproval, PTL

-----------------------------------------------------------------------------
ReminderRow == [who : Person, of : Stuck]
SenderState == [rows : Seq(ReminderRow), at : {"gate", "send", "mark"}]
Tally == [Person -> [Stuck -> Nat]]

\* The job has the row first and has come to this point with it.
JobWith(r, pos) ==
  /\ sender["job"].rows # <<>> /\ sender["job"].at = pos
  /\ r = Head(sender["job"].rows)

\* Every reminder the job sent is in the log, was lost, or is about to be entered; and it
\* sends no more than it may, since what it is about to send passed the gates.
Counted(p, k) ==
  nagged[p][k] <= logged[p][k] + lost + (IF JobWith([who |-> p, of |-> k], "mark") THEN 1 ELSE 0)
Bounded(p, k) ==
  /\ nagged[p][k] <= setting.maxPer + lost
  /\ JobWith([who |-> p, of |-> k], "send") => nagged[p][k] < setting.maxPer + lost

SendersAre ==
  /\ sender \in [Sender -> SenderState] /\ logged \in Tally /\ nagged \in Tally
  /\ lost \in 0..MaxLost /\ setting.maxPer \in {0, MaxPer}
  /\ fresh \subseteq Person \X Stuck /\ standing \in [Person -> Standing]
SendersInv == /\ SendersAre
              /\ \A p \in Person, k \in Stuck : Counted(p, k) /\ Bounded(p, k)

LEMMA RowsAre ==
  ASSUME NEW r \in ReminderRow
  PROVE  r.who \in Person /\ r.of \in Stuck /\ r = [who |-> r.who, of |-> r.of]
  BY DEF ReminderRow

LEMMA RowIs ==
  ASSUME NEW p \in Person, NEW k \in Stuck, NEW r, r = [who |-> p, of |-> k]
  PROVE  r \in ReminderRow /\ r.who = p /\ r.of = k
  BY DEF ReminderRow

LEMMA SenderHas ==
  ASSUME NEW v \in SenderState
  PROVE  /\ v.rows \in Seq(ReminderRow) /\ v.at \in {"gate", "send", "mark"}
         /\ \A pos \in {"gate", "send", "mark"} :
              LET n == [v EXCEPT !.at = pos]
              IN n \in SenderState /\ n.rows = v.rows /\ n.at = pos
  BY DEF SenderState

LEMMA SenderIs ==
  ASSUME NEW rows \in Seq(ReminderRow), NEW pos \in {"gate", "send", "mark"},
         NEW v, v = [rows |-> rows, at |-> pos]
  PROVE  v \in SenderState /\ v.rows = rows /\ v.at = pos
  BY DEF SenderState

LEMMA TallyPlus ==
  ASSUME NEW f \in Tally, NEW r \in ReminderRow
  PROVE  /\ OneMore(f, r) \in Tally /\ OneMore(f, r)[r.who][r.of] = f[r.who][r.of] + 1
         /\ \A q \in Person, l \in Stuck :
              q # r.who \/ l # r.of => OneMore(f, r)[q][l] = f[q][l]
<1> DEFINE p == r.who
           k == r.of
           g == OneMore(f, r)
           h == [f[p] EXCEPT ![k] = f[p][k] + 1]
<1>1. p \in Person /\ k \in Stuck BY RowsAre
<1>2. g = [f EXCEPT ![p] = h] BY DEF OneMore
<1> HIDE DEF p, k, g
<1>3. f[p] \in [Stuck -> Nat] BY <1>1 DEF Tally
<1>4. h \in [Stuck -> Nat] /\ h[k] = f[p][k] + 1 /\ \A l \in Stuck : l # k => h[l] = f[p][l]
  BY <1>1, <1>3
<1> HIDE DEF h
<1>5. g \in Tally /\ g[p] = h /\ \A q \in Person : q # p => g[q] = f[q]
  BY <1>1, <1>2, <1>4 DEF Tally
<1>6. \A q \in Person, l \in Stuck : q # p \/ l # k => g[q][l] = f[q][l] BY <1>4, <1>5
<1> QED BY <1>4, <1>5, <1>6 DEF g, p, k

LEMMA RestingIs == Resting \in SenderState /\ Resting.rows = <<>> /\ Resting.at = "gate"
<1>1. <<>> \in Seq(ReminderRow) OBVIOUS
<1> QED BY <1>1, SenderIs DEF Resting

\* The rows of a reminder that goes to a cohort or to the stuck.
LEMMA StuckAre ==
  /\ standing \in [Person -> Standing] => StuckRows \in Seq(ReminderRow)
  /\ \A k \in Stuck : LET rows == [i \in DOMAIN Cohort(k) |-> [who |-> Cohort(k)[i], of |-> k]]
                     IN rows \in Seq(ReminderRow)
<1>0. Oldest \in Seq(Person) BY ReminderConstants
<1>1. ASSUME standing \in [Person -> Standing] PROVE StuckRows \in Seq(ReminderRow)
  <2> DEFINE S == {p \in old : standing[p] \in Stuck}
             rows == Keep(Oldest, S)
  <2>1. rows \in Seq(Person) /\ ToSet(rows) = ToSet(Oldest) \intersect S BY <1>0, KeepIs
  <2>2. StuckRows = [i \in DOMAIN rows |-> [who |-> rows[i], of |-> standing[rows[i]]]]
    BY DEF StuckRows
  <2> HIDE DEF rows
  <2>3. /\ DOMAIN rows = 1..Len(rows) /\ Len(rows) \in Nat
        /\ \A i \in DOMAIN rows : rows[i] \in Person /\ rows[i] \in ToSet(rows)
    BY <2>1, ListIs
  <2>4. \A i \in DOMAIN rows : rows[i] \in Person /\ standing[rows[i]] \in Stuck
    BY <2>1, <2>3
  <2>5. StuckRows \in [1..Len(rows) -> ReminderRow] BY <2>2, <2>3, <2>4 DEF ReminderRow
  <2> QED BY <2>3, <2>5, SeqDef
<1>2. ASSUME NEW k \in Stuck
      PROVE  [i \in DOMAIN Cohort(k) |-> [who |-> Cohort(k)[i], of |-> k]] \in Seq(ReminderRow)
  <2> DEFINE rows == Cohort(k)
  <2>1. rows \in Seq(Person) BY <1>0, KeepIs DEF Cohort
  <2> HIDE DEF rows
  <2>2. DOMAIN rows = 1..Len(rows) /\ Len(rows) \in Nat /\ \A i \in DOMAIN rows : rows[i] \in Person
    BY <2>1, ListIs
  <2> DEFINE g == [i \in DOMAIN rows |-> [who |-> rows[i], of |-> k]]
  <2>3. g \in [1..Len(rows) -> ReminderRow] BY <2>2 DEF ReminderRow
  <2> HIDE DEF g
  <2>4. g \in Seq(ReminderRow) BY <2>2, <2>3, SeqDef
  <2> QED BY <2>4 DEF g, rows
<1> QED BY <1>1, <1>2

LEMMA NextRowIs ==
  ASSUME NEW s \in Sender, sender \in [Sender -> SenderState], sender[s].rows # <<>>
  PROVE  NextRow(s) \in SenderState /\ (s = "job" => NextRow(s).at = "gate")
<1> DEFINE rows == sender[s].rows
           left == Tail(rows)
<1>1. sender[s] \in SenderState OBVIOUS
<1>2. rows \in Seq(ReminderRow) /\ rows # <<>> BY <1>1, SenderHas
<1>3. left \in Seq(ReminderRow)
  <2> HIDE DEF rows
  <2> QED BY <1>2, TailIs
<1>4. NextRow(s) = IF left = <<>> THEN Resting
                   ELSE [rows |-> left, at |-> IF s = "job" THEN "gate" ELSE "send"]
  BY DEF NextRow
<1> HIDE DEF left
<1> DEFINE v == [rows |-> left, at |-> IF s = "job" THEN "gate" ELSE "send"]
<1>5. v \in SenderState /\ (s = "job" => v.at = "gate") BY <1>3 DEF SenderState
<1> HIDE DEF v
<1>6. NextRow(s) = IF left = <<>> THEN Resting ELSE v BY <1>4 DEF v
<1> QED BY <1>5, <1>6, RestingIs

LEMMA HeadIs ==
  ASSUME NEW s \in Sender, sender \in [Sender -> SenderState], sender[s].rows # <<>>
  PROVE  Head(sender[s].rows) \in ReminderRow
<1> DEFINE rows == sender[s].rows
<1>1. sender[s] \in SenderState OBVIOUS
<1>2. rows \in Seq(ReminderRow) /\ rows # <<>> BY <1>1, SenderHas
<1> HIDE DEF rows
<1>3. Head(rows) \in ToSet(rows) BY <1>2, TailIs
<1>4. Head(rows) \in ReminderRow BY <1>2, <1>3, ListIs
<1> QED BY <1>4 DEF rows

\* A sender moves; the tallies stay as they are.
LEMMA SenderMoves ==
  ASSUME SendersInv, NEW s \in Sender, NEW v \in SenderState, SenderTo(s, v),
         UNCHANGED <<logged, nagged, lost>>, fresh' \subseteq fresh,
         s = "job" => /\ ~JobWith(Head(sender["job"].rows), "mark") /\ v.at # "mark"
                      /\ (v.rows # <<>> /\ v.at = "send" =>
                            \A p \in Person, k \in Stuck :
                              Head(v.rows) = [who |-> p, of |-> k] =>
                                nagged[p][k] < setting.maxPer + lost)
  PROVE  SendersInv'
<1>1. sender' = [sender EXCEPT ![s] = v] /\ UNCHANGED <<setting, standing>> BY DEF SenderTo
<1>2. /\ sender' \in [Sender -> SenderState] /\ sender'[s] = v
      /\ \A u \in Sender : u # s => sender'[u] = sender[u]
  BY <1>1 DEF SendersInv, SendersAre
<1>3. SendersAre' BY <1>1, <1>2 DEF SendersInv, SendersAre
<1>4. "job" \in Sender BY DEF Sender
<1>5. CASE s # "job"
  <2>1. sender'["job"] = sender["job"] BY <1>2, <1>4, <1>5
  <2>2. \A p \in Person, k \in Stuck : Counted(p, k)' /\ Bounded(p, k)'
    BY <1>1, <2>1 DEF SendersInv, Counted, Bounded, JobWith
  <2> QED BY <1>3, <2>2 DEF SendersInv
<1>6. CASE s = "job"
  <2>1. sender'["job"] = v BY <1>2, <1>6
  <2>2. ASSUME NEW p \in Person, NEW k \in Stuck PROVE Counted(p, k)' /\ Bounded(p, k)'
    <3>1. Counted(p, k) /\ Bounded(p, k) BY DEF SendersInv
    <3>2. ~JobWith([who |-> p, of |-> k], "mark") BY <1>6 DEF JobWith
    <3>3. ~JobWith([who |-> p, of |-> k], "mark")' BY <1>6, <2>1 DEF JobWith
    <3>4. Counted(p, k)' BY <3>1, <3>2, <3>3 DEF Counted
    <3>5. JobWith([who |-> p, of |-> k], "send")' => nagged[p][k] < setting.maxPer + lost
      BY <1>6, <2>1 DEF JobWith
    <3>6. Bounded(p, k)' BY <1>1, <3>1, <3>5 DEF Bounded
    <3> QED BY <3>4, <3>6
  <2> QED BY <1>3, <2>2 DEF SendersInv
<1> QED BY <1>5, <1>6

LEMMA SendersStart == RemindInit => SendersInv
<1> SUFFICES ASSUME RemindInit PROVE SendersInv OBVIOUS
<1>1. sender = [s \in Sender |-> Resting] BY DEF RemindInit
<1>2. "job" \in Sender BY DEF Sender
<1>3. SendersAre
  <2>1. sender \in [Sender -> SenderState] BY <1>1, RestingIs
  <2>2. logged \in Tally /\ nagged \in Tally BY DEF RemindInit, Tally
  <2>3. standing \in [Person -> Standing] BY DEF RemindInit, Standing
  <2> QED BY <2>1, <2>2, <2>3, ReminderConstants DEF RemindInit, SendersAre
<1>4. \A p \in Person, k \in Stuck : nagged[p][k] = 0 /\ logged[p][k] = 0 BY DEF RemindInit
<1>5. \A r, pos : ~JobWith(r, pos) BY <1>1, <1>2, RestingIs DEF JobWith
<1>6. lost = 0 /\ setting.maxPer \in Nat BY ReminderConstants DEF RemindInit
<1>7. \A p \in Person, k \in Stuck : Counted(p, k) /\ Bounded(p, k)
  BY <1>4, <1>5, <1>6 DEF Counted, Bounded
<1> QED BY <1>3, <1>7 DEF SendersInv

LEMMA LostCounts == SendersAre => lost \in Nat /\ setting.maxPer \in Nat
  BY ReminderConstants DEF SendersAre

\* What people do, and the other jobs, leaves the reminders alone.
LEMMA SendersRest ==
  ASSUME SendersInv, UNCHANGED <<setting, sender, logged, nagged, lost>>, fresh' \subseteq fresh,
         standing' \in [Person -> Standing]
  PROVE  SendersInv'
<1>1. SendersAre' BY DEF SendersInv, SendersAre
<1>2. \A p \in Person, k \in Stuck : Counted(p, k)' /\ Bounded(p, k)'
  BY DEF SendersInv, Counted, Bounded, JobWith
<1> QED BY <1>1, <1>2 DEF SendersInv

LEMMA GatedKeeps == SendersInv /\ Gated => SendersInv'
<1> SUFFICES ASSUME SendersInv, Gated PROVE SendersInv' OBVIOUS
<1> DEFINE r == Head(sender["job"].rows)
           v == IF Passes(r) THEN [sender["job"] EXCEPT !.at = "send"] ELSE NextRow("job")
<1>1. "job" \in Sender /\ SendersAre /\ sender["job"].rows # <<>> /\ sender["job"].at = "gate"
  BY DEF Sender, SendersInv, Gated
<1>2. sender \in [Sender -> SenderState] /\ sender["job"] \in SenderState BY <1>1 DEF SendersAre
<1>3. v \in SenderState /\ v.at # "mark" /\ (v.at = "send" => Passes(r) /\ v.rows = sender["job"].rows)
  <2>1. CASE Passes(r) BY <1>2, <2>1, SenderHas
  <2>2. CASE ~Passes(r) BY <1>1, <1>2, <2>2, NextRowIs
  <2> QED BY <2>1, <2>2
<1>4. SenderTo("job", v) /\ UNCHANGED <<logged, fresh, nagged, lost>> BY DEF Gated
<1> HIDE DEF v
<1>5. \A x : ~JobWith(x, "mark") BY <1>1 DEF JobWith
<1>6. ASSUME v.at = "send", NEW p \in Person, NEW k \in Stuck, Head(v.rows) = [who |-> p, of |-> k]
      PROVE  nagged[p][k] < setting.maxPer + lost
  <2> HIDE DEF r
  <2>1. r = [who |-> p, of |-> k] /\ Passes(r) BY <1>3, <1>6 DEF r
  <2>2. r.who = p /\ r.of = k BY <2>1
  <2>3. logged[p][k] < setting.maxPer BY <2>1, <2>2 DEF Passes
  <2>4. Counted(p, k) /\ ~JobWith([who |-> p, of |-> k], "mark") BY <1>5 DEF SendersInv
  <2>5. nagged[p][k] \in Nat /\ logged[p][k] \in Nat /\ lost \in Nat /\ setting.maxPer \in Nat
    BY <1>1, LostCounts DEF SendersAre, Tally
  <2>6. nagged[p][k] <= logged[p][k] + lost BY <2>4, <2>5 DEF Counted
  <2> QED BY <2>3, <2>5, <2>6
<1> QED BY <1>1, <1>3, <1>4, <1>5, <1>6, SenderMoves

LEMMA SentKeeps ==
  ASSUME SendersInv, NEW s \in Sender, NEW ok \in BOOLEAN, ReminderSent(s, ok)
  PROVE  SendersInv'
<1> DEFINE v == IF ok THEN [sender[s] EXCEPT !.at = "mark"] ELSE NextRow(s)
<1>1. "job" \in Sender /\ SendersAre /\ sender[s].rows # <<>> /\ sender[s].at = "send"
  BY DEF Sender, SendersInv, ReminderSent
<1>2. sender \in [Sender -> SenderState] /\ sender[s] \in SenderState BY <1>1 DEF SendersAre
<1>6. PICK r \in ReminderRow : r = Head(sender[s].rows) BY <1>1, <1>2, HeadIs
<1>3. /\ v \in SenderState /\ (ok => v.at = "mark" /\ v.rows = sender[s].rows)
      /\ (~ok /\ s = "job" => v.at = "gate")
  <2>1. CASE ok BY <1>2, <2>1, SenderHas
  <2>2. CASE ~ok BY <1>1, <1>2, <2>2, NextRowIs
  <2> QED BY <2>1, <2>2
<1>4. SenderTo(s, v) /\ UNCHANGED <<logged, fresh, lost>> BY DEF ReminderSent
<1>5. nagged' = IF ok /\ s = "job" THEN OneMore(nagged, r) ELSE nagged
  BY <1>6 DEF ReminderSent
<1>7. s = "job" => JobWith(r, "send") /\ \A x : ~JobWith(x, "mark") BY <1>1, <1>6 DEF JobWith
<1> HIDE DEF v
<1>8. CASE ~(ok /\ s = "job")
  <2>1. nagged' = nagged BY <1>5, <1>8
  <2>2. s = "job" => v.at = "gate" BY <1>3, <1>8
  <2> QED BY <1>3, <1>4, <1>7, <2>1, <2>2, SenderMoves
<1>9. CASE ok /\ s = "job"
  <2>1. r.who \in Person /\ r.of \in Stuck /\ r = [who |-> r.who, of |-> r.of] BY <1>6, RowsAre
  <2>2. /\ nagged' \in Tally /\ nagged'[r.who][r.of] = nagged[r.who][r.of] + 1
        /\ \A q \in Person, l \in Stuck : q # r.who \/ l # r.of => nagged'[q][l] = nagged[q][l]
    <3>1. nagged \in Tally /\ nagged' = OneMore(nagged, r) BY <1>1, <1>5, <1>9 DEF SendersAre
    <3> QED BY <1>6, <3>1, TallyPlus
  <2>3. sender' = [sender EXCEPT !["job"] = v] /\ UNCHANGED <<setting, standing>>
    BY <1>4, <1>9 DEF SenderTo
  <2>4. sender' \in [Sender -> SenderState] /\ sender'["job"] = v BY <1>1, <1>2, <1>3, <2>3
  <2>5. SendersAre' BY <1>1, <1>4, <2>2, <2>3, <2>4 DEF SendersAre
  <2>6. JobWith(r, "mark")' BY <1>1, <1>3, <1>6, <1>9, <2>4 DEF JobWith
  <2>7. \A x : ~JobWith(x, "send")' BY <1>3, <1>9, <2>4 DEF JobWith
  <2>8. ASSUME NEW p \in Person, NEW k \in Stuck PROVE Counted(p, k)' /\ Bounded(p, k)'
    <3>1. /\ Counted(p, k) /\ Bounded(p, k) /\ nagged[p][k] \in Nat /\ logged[p][k] \in Nat
          /\ lost \in Nat /\ setting.maxPer \in Nat
      BY <1>1, LostCounts DEF SendersInv, SendersAre, Tally
    <3>2. nagged[p][k] <= logged[p][k] + lost BY <1>7, <1>9, <3>1 DEF Counted
    <3>3. CASE p = r.who /\ k = r.of
      <4>1. nagged[p][k] < setting.maxPer + lost BY <1>7, <1>9, <2>1, <3>1, <3>3 DEF Bounded
      <4>0. [who |-> p, of |-> k] = r BY <2>1, <3>3
      <4>2. JobWith([who |-> p, of |-> k], "mark")' BY <2>6, <4>0
      <4>3. nagged'[p][k] = nagged[p][k] + 1 BY <2>2, <3>3
      <4>4. Counted(p, k)' BY <1>4, <3>1, <3>2, <4>2, <4>3 DEF Counted
      <4>5. nagged'[p][k] <= setting'.maxPer + lost' BY <1>4, <2>3, <3>1, <4>1, <4>3
      <4> QED BY <2>7, <4>4, <4>5 DEF Bounded
    <3>4. CASE ~(p = r.who /\ k = r.of)
      <4>1. nagged'[p][k] = nagged[p][k] BY <2>2, <3>4
      <4>2. Counted(p, k)' BY <1>4, <3>1, <3>2, <4>1 DEF Counted
      <4>3. nagged'[p][k] <= setting'.maxPer + lost' BY <1>4, <2>3, <3>1, <4>1 DEF Bounded
      <4> QED BY <2>7, <4>2, <4>3 DEF Bounded
    <3> QED BY <3>3, <3>4
  <2> QED BY <2>5, <2>8 DEF SendersInv
<1> QED BY <1>8, <1>9

LEMMA MarkedKeeps ==
  ASSUME SendersInv, NEW s \in Sender, NEW ok \in BOOLEAN, ReminderMarked(s, ok)
  PROVE  SendersInv'
<1> DEFINE v == NextRow(s)
<1>1. "job" \in Sender /\ SendersAre /\ sender[s].rows # <<>> /\ sender[s].at = "mark"
  BY DEF Sender, SendersInv, ReminderMarked
<1>2. sender \in [Sender -> SenderState] /\ sender[s] \in SenderState BY <1>1 DEF SendersAre
<1>6. PICK r \in ReminderRow : r = Head(sender[s].rows) BY <1>1, <1>2, HeadIs
<1>3. v \in SenderState /\ (s = "job" => v.at = "gate") BY <1>1, <1>2, NextRowIs
<1>4. SenderTo(s, v) /\ nagged' = nagged BY DEF ReminderMarked
<1>5. IF ok THEN /\ logged' = OneMore(logged, r)
                 /\ fresh' = fresh \union {<<r.who, r.of>>} /\ UNCHANGED lost
            ELSE lost < MaxLost /\ lost' = lost + 1 /\ UNCHANGED <<logged, fresh>>
  BY <1>6 DEF ReminderMarked
<1>7. r.who \in Person /\ r.of \in Stuck /\ r = [who |-> r.who, of |-> r.of] BY <1>6, RowsAre
<1>8. s = "job" => \A x : JobWith(x, "mark") => x = r BY <1>6 DEF JobWith
<1> HIDE DEF v
<1>9. sender' = [sender EXCEPT ![s] = v] /\ UNCHANGED <<setting, standing>> BY <1>4 DEF SenderTo
<1>10. /\ sender' \in [Sender -> SenderState]
       /\ sender'["job"] = IF s = "job" THEN v ELSE sender["job"]
  BY <1>1, <1>2, <1>3, <1>9
<1>11. \A x, pos : JobWith(x, pos)' => (s = "job" /\ pos = "gate") \/ (s # "job" /\ JobWith(x, pos))
  BY <1>3, <1>10 DEF JobWith
<1>12. s # "job" => \A x, pos : JobWith(x, pos)' <=> JobWith(x, pos) BY <1>10 DEF JobWith
<1>13. CASE ok
  <2>1. /\ logged' \in Tally /\ logged'[r.who][r.of] = logged[r.who][r.of] + 1
        /\ \A q \in Person, l \in Stuck : q # r.who \/ l # r.of => logged'[q][l] = logged[q][l]
    <3>1. logged \in Tally /\ logged' = OneMore(logged, r) BY <1>1, <1>5, <1>13 DEF SendersAre
    <3> QED BY <1>6, <3>1, TallyPlus
  <2>2. lost' = lost /\ fresh' = fresh \union {<<r.who, r.of>>} BY <1>5, <1>13
  <2>3. SendersAre' BY <1>1, <1>4, <1>7, <1>9, <1>10, <2>1, <2>2 DEF SendersAre
  <2>4. ASSUME NEW p \in Person, NEW k \in Stuck PROVE Counted(p, k)' /\ Bounded(p, k)'
    <3>1. /\ Counted(p, k) /\ Bounded(p, k) /\ nagged[p][k] \in Nat /\ logged[p][k] \in Nat
          /\ lost \in Nat /\ setting.maxPer \in Nat
      BY <1>1, LostCounts DEF SendersInv, SendersAre, Tally
    <3>2. Bounded(p, k)' BY <1>4, <1>9, <1>11, <2>2, <3>1 DEF Bounded
    <3>3. CASE p = r.who /\ k = r.of
      <4>1. logged'[p][k] = logged[p][k] + 1 BY <2>1, <3>3
      <4>2. nagged'[p][k] = nagged[p][k] /\ lost' = lost BY <1>4, <2>2
      <4>3. nagged[p][k] <= logged[p][k] + lost + 1 BY <3>1 DEF Counted
      <4>4. nagged'[p][k] <= logged'[p][k] + lost' BY <3>1, <4>1, <4>2, <4>3
      <4>5. logged'[p][k] \in Nat /\ lost' \in Nat BY <3>1, <4>1, <4>2
      <4>6. Counted(p, k)' BY <3>1, <4>2, <4>4, <4>5 DEF Counted
      <4> QED BY <3>2, <4>6
    <3>4. CASE ~(p = r.who /\ k = r.of)
      <4>1. logged'[p][k] = logged[p][k] BY <2>1, <3>4
      <4>2. JobWith([who |-> p, of |-> k], "mark") => s # "job"
        <5>1. [who |-> p, of |-> k] # r BY <1>7, <3>4
        <5> QED BY <1>8, <5>1
      <4>3. JobWith([who |-> p, of |-> k], "mark") => JobWith([who |-> p, of |-> k], "mark")'
        BY <1>12, <4>2
      <4>4. Counted(p, k)' BY <1>4, <2>2, <3>1, <4>1, <4>3 DEF Counted
      <4> QED BY <3>2, <4>4
    <3> QED BY <3>3, <3>4
  <2> QED BY <2>3, <2>4 DEF SendersInv
<1>14. CASE ~ok
  <2>1. lost' = lost + 1 /\ UNCHANGED <<logged, fresh>> /\ lost < MaxLost BY <1>5, <1>14
  <2>2. lost \in 0..MaxLost /\ MaxLost \in Nat BY <1>1, ReminderConstants DEF SendersAre
  <2>3. lost' \in 0..MaxLost BY <2>1, <2>2
  <2>4. SendersAre' BY <1>1, <1>4, <1>9, <1>10, <2>1, <2>3 DEF SendersAre
  <2>5. ASSUME NEW p \in Person, NEW k \in Stuck PROVE Counted(p, k)' /\ Bounded(p, k)'
    <3>1. /\ Counted(p, k) /\ Bounded(p, k) /\ nagged[p][k] \in Nat /\ logged[p][k] \in Nat
          /\ lost \in Nat /\ setting.maxPer \in Nat
      BY <1>1, LostCounts DEF SendersInv, SendersAre, Tally
    <3>2. nagged'[p][k] = nagged[p][k] /\ logged'[p][k] = logged[p][k] /\ setting' = setting
      BY <1>4, <1>9, <2>1
    <3>3. Bounded(p, k)' BY <1>11, <2>1, <3>1, <3>2 DEF Bounded
    <3>4. CASE s = "job" BY <2>1, <3>1, <3>2, <3>3 DEF Counted
    <3>5. CASE s # "job" BY <1>12, <2>1, <3>1, <3>2, <3>3, <3>5 DEF Counted
    <3> QED BY <3>4, <3>5
  <2> QED BY <2>4, <2>5 DEF SendersInv
<1> QED BY <1>13, <1>14

-----------------------------------------------------------------------------
PeopleInv ==
  /\ standing \in [Person -> Standing] /\ ancient \subseteq old /\ old \subseteq Person
  /\ moves \in 0..MaxMoves /\ forced \in 0..MaxForced
  /\ sweep.rows \subseteq Person /\ moved \subseteq Person /\ digest.rows \subseteq Person
  /\ sig \subseteq Person /\ named \subseteq Open

\* Whoever was warned of something is in the log for it, but for the entries that were lost;
\* the job looks into the log before it writes to anybody.
Told(w) == told[w] <= (IF w \in warned THEN 1 ELSE 0) + unlogged

WarnInv ==
  /\ limited \subseteq Client /\ used \in [Client -> Level] /\ month \in 0..LastMonth
  /\ alerts \in [left : SUBSET Client, seen : [Client -> Level]]
  /\ warned \subseteq Warning /\ unlogged \in Nat /\ told \in [Warning -> Nat]
  /\ \A w \in Warning : Told(w)

RemindInv == SendersInv /\ PeopleInv /\ WarnInv

LEMMA PeopleStart == RemindInit => PeopleInv
<1> SUFFICES ASSUME RemindInit PROVE PeopleInv OBVIOUS
<1>1. standing \in [Person -> Standing] BY DEF RemindInit, Standing
<1> QED BY <1>1, ReminderConstants DEF RemindInit, PeopleInv, NothingRead

LEMMA NoAlertsAre == NoAlerts \in [left : SUBSET Client, seen : [Client -> Level]]
  BY DEF NoAlerts, Level

LEMMA WarnStarts == RemindInit => WarnInv
<1> SUFFICES ASSUME RemindInit PROVE WarnInv OBVIOUS
<1>1. used \in [Client -> Level] BY DEF RemindInit, Level
<1>2. \A w \in Warning : Told(w) BY DEF RemindInit, Told
<1>3. told \in [Warning -> Nat] BY DEF RemindInit
<1> QED BY <1>1, <1>2, <1>3, NoAlertsAre, ReminderConstants DEF RemindInit, WarnInv

LEMMA SenderToKeeps ==
  ASSUME PeopleInv, NEW s, NEW v, SenderTo(s, v), forced' \in 0..MaxForced
  PROVE  PeopleInv'
  BY DEF PeopleInv, SenderTo, sweepVars, digestVars, Open

LEMMA MovesKeep ==
  ASSUME PeopleInv, NEW p \in Person, NEW to \in Standing, Moves(p, to)
  PROVE  PeopleInv'
<1>1. /\ standing' = [standing EXCEPT ![p] = to] /\ moves' = moves + 1 /\ moves < MaxMoves
      /\ named' = named \ {p} /\ moved' \subseteq moved \union {p}
      /\ UNCHANGED <<old, ancient, sweep, digest, sig, forced>>
  BY DEF Moves, funnelVars, sweepVars, digestVars
<1>2. moves' \in 0..MaxMoves BY <1>1, ReminderConstants DEF PeopleInv
<1>3. standing' \in [Person -> Standing] /\ \A q \in Person : q # p => standing'[q] = standing[q]
  BY <1>1 DEF PeopleInv
<1>4. named' \subseteq Open' BY <1>1, <1>3 DEF PeopleInv, Open
<1> QED BY <1>1, <1>2, <1>3, <1>4 DEF PeopleInv

LEMMA SweepKeeps == PeopleInv /\ (SweepReads \/ SweepRejects) => PeopleInv'
<1>1. ASSUME PeopleInv, SweepReads PROVE PeopleInv'
  BY <1>1 DEF PeopleInv, SweepReads, SweepTo, funnelVars, digestVars, Open
<1>2. ASSUME PeopleInv, SweepRejects PROVE PeopleInv'
  <2>1. /\ standing' = [p \in Person |-> IF p \in sweep.rows THEN "rejected" ELSE standing[p]]
        /\ named' = named \ sweep.rows /\ moved' = {} /\ sweep' = NothingRead
        /\ UNCHANGED <<old, ancient, digest, sig, moves, forced>>
    BY <1>2 DEF SweepRejects, SweepTo, funnelVars, digestVars
  <2>2. standing' \in [Person -> Standing] BY <1>2, <2>1 DEF PeopleInv, Standing
  <2>3. named' \subseteq Open' BY <1>2, <2>1 DEF PeopleInv, Open
  <2>4. sweep'.rows = {} BY <2>1 DEF NothingRead
  <2> QED BY <1>2, <2>1, <2>2, <2>3, <2>4 DEF PeopleInv
<1> QED BY <1>1, <1>2

LEMMA DigestKeeps ==
  ASSUME PeopleInv, DigestRuns \/ DayPasses \/ \E ok \in BOOLEAN : DigestSent(ok)
  PROVE  PeopleInv'
<1>0. \A v : DigestTo(v) => /\ digest' = v /\ Open' = Open
                           /\ UNCHANGED <<standing, old, ancient, moved, moves, forced, sweep>>
  BY DEF DigestTo, funnelVars, sweepVars, Open
<1>1. Open \subseteq Person /\ NothingRead.rows = {} BY DEF Open, NothingRead
<1>2. CASE DigestRuns
  <2>1. digest'.rows \in {{}, Open} /\ sig' \in {{}, sig} /\ named' = named
    BY <1>0, <1>1, <1>2 DEF DigestRuns
  <2>2. UNCHANGED <<standing, old, ancient, moved, moves, forced, sweep>> /\ Open' = Open
    BY <1>0, <1>2 DEF DigestRuns
  <2> QED BY <1>1, <2>1, <2>2 DEF PeopleInv
<1>3. CASE DayPasses BY <1>0, <1>3 DEF DayPasses, PeopleInv
<1>4. ASSUME NEW ok \in BOOLEAN, DigestSent(ok) PROVE PeopleInv'
  <2>1. digest' = NothingRead /\ sig' \in {sig, digest.rows} /\ named' \subseteq named \union Open
    BY <1>0, <1>4 DEF DigestSent
  <2>2. UNCHANGED <<standing, old, ancient, moved, moves, forced, sweep>> /\ Open' = Open
    BY <1>0, <1>4 DEF DigestSent
  <2> QED BY <1>1, <2>1, <2>2 DEF PeopleInv
<1> QED BY <1>2, <1>3, <1>4

LEMMA FunnelKeepsPeople == PeopleInv /\ FunnelNext => PeopleInv'
<1> SUFFICES ASSUME PeopleInv, FunnelNext PROVE PeopleInv' OBVIOUS
<1>0. forced \in 0..MaxForced /\ MaxForced \in Nat BY ReminderConstants DEF PeopleInv
<1>1. ASSUME NEW p \in Person, Ages(p) PROVE PeopleInv'
  <2>1. /\ UNCHANGED <<standing, sweep, moved, named, moves, forced, digest, sig>>
        /\ ancient' \subseteq old' /\ old' \subseteq Person
    BY <1>1 DEF Ages, funnelVars, digestVars, PeopleInv
  <2> QED BY <2>1 DEF PeopleInv, Open
<1>2. ASSUME NEW p \in Person, SendToChat(p) PROVE PeopleInv'
  BY <1>0, <1>2, SenderToKeeps DEF SendToChat
<1>3. ASSUME NEW k \in Stuck, SendToCohort(k) PROVE PeopleInv'
  BY <1>0, <1>3, SenderToKeeps DEF SendToCohort
<1>4. CASE RemindStuck BY <1>0, <1>4, SenderToKeeps DEF RemindStuck
<1>5. CASE Gated BY <1>0, <1>5, SenderToKeeps DEF Gated
<1>6. ASSUME NEW s \in Sender, NEW ok \in BOOLEAN, ReminderSent(s, ok) PROVE PeopleInv'
  BY <1>0, <1>6, SenderToKeeps DEF ReminderSent
<1>7. ASSUME NEW s \in Sender, NEW ok \in BOOLEAN, ReminderMarked(s, ok) PROVE PeopleInv'
  BY <1>0, <1>7, SenderToKeeps DEF ReminderMarked
<1>8. ASSUME NEW f \in fresh, HoursPass(f) PROVE PeopleInv'
  BY <1>8 DEF HoursPass, PeopleInv, sweepVars, digestVars, Open
<1> QED BY <1>1, <1>2, <1>3, <1>4, <1>5, <1>6, <1>7, <1>8, MovesKeep, SweepKeeps, DigestKeeps
        DEF FunnelNext

LEMMA ChatKeeps ==
  ASSUME SendersInv, NEW rows \in Seq(ReminderRow), NEW v, v = [rows |-> rows, at |-> "send"],
         SenderTo("dashboard", v), UNCHANGED <<logged, fresh, nagged, lost>>
  PROVE  SendersInv'
<1>1. v \in SenderState BY SenderIs
<1>2. "dashboard" \in Sender BY DEF Sender
<1> QED BY <1>1, <1>2, SenderMoves

LEMMA FunnelKeepsSenders == SendersInv /\ FunnelNext => SendersInv'
<1> SUFFICES ASSUME SendersInv, FunnelNext PROVE SendersInv' OBVIOUS
<1>0. SendersAre /\ standing \in [Person -> Standing] BY DEF SendersInv, SendersAre
<1>1. ASSUME NEW p \in Person, Ages(p) PROVE SendersInv'
  BY <1>0, <1>1, SendersRest DEF Ages, funnelVars
<1>2. ASSUME NEW p \in Person, SendToChat(p) PROVE SendersInv'
  <2> DEFINE r == [who |-> p, of |-> standing[p]]
             rows == <<r>>
             v == [rows |-> rows, at |-> "send"]
  <2>1. r \in ReminderRow BY <1>2 DEF SendToChat, ReminderRow
  <2>2. SenderTo("dashboard", v) /\ UNCHANGED <<logged, fresh, nagged, lost>>
    BY <1>2 DEF SendToChat
  <2> HIDE DEF r
  <2>3. rows \in Seq(ReminderRow) BY <2>1
  <2> HIDE DEF rows
  <2>4. v = [rows |-> rows, at |-> "send"] OBVIOUS
  <2> HIDE DEF v
  <2> QED BY <2>2, <2>3, <2>4, ChatKeeps
<1>3. ASSUME NEW k \in Stuck, SendToCohort(k) PROVE SendersInv'
  <2> DEFINE rows == [i \in DOMAIN Cohort(k) |-> [who |-> Cohort(k)[i], of |-> k]]
             v == [rows |-> rows, at |-> "send"]
  <2>1. rows \in Seq(ReminderRow) BY StuckAre
  <2>2. SenderTo("dashboard", v) /\ UNCHANGED <<logged, fresh, nagged, lost>>
    BY <1>3 DEF SendToCohort
  <2> HIDE DEF rows
  <2>3. v = [rows |-> rows, at |-> "send"] OBVIOUS
  <2> HIDE DEF v
  <2> QED BY <2>1, <2>2, <2>3, ChatKeeps
<1>4. CASE RemindStuck
  <2> DEFINE v == [rows |-> StuckRows, at |-> "gate"]
  <2>1. v \in SenderState /\ v.at = "gate" BY <1>0, StuckAre, SenderIs DEF SenderState
  <2>2. SenderTo("job", v) /\ UNCHANGED <<logged, fresh, nagged, lost>> /\ sender["job"] = Resting
    BY <1>4 DEF RemindStuck
  <2> HIDE DEF v
  <2>3. ~JobWith(Head(sender["job"].rows), "mark") BY <2>2, RestingIs DEF JobWith
  <2>4. "job" \in Sender BY DEF Sender
  <2> QED BY <2>1, <2>2, <2>3, <2>4, SenderMoves
<1>5. ASSUME NEW f \in fresh, HoursPass(f) PROVE SendersInv'
  BY <1>0, <1>5, SendersRest DEF HoursPass
<1>6. ASSUME NEW p \in Person, NEW to \in Standing, Moves(p, to) PROVE SendersInv'
  <2>1. standing' \in [Person -> Standing] BY <1>0, <1>6 DEF Moves
  <2> QED BY <1>6, <2>1, SendersRest DEF Moves, funnelVars
<1>7. CASE SweepReads BY <1>0, <1>7, SendersRest DEF SweepReads, SweepTo, funnelVars
<1>8. CASE SweepRejects
  <2>1. standing' \in [Person -> Standing] BY <1>0, <1>8 DEF SweepRejects, Standing
  <2> QED BY <1>8, <2>1, SendersRest DEF SweepRejects, SweepTo, funnelVars
<1>9. ASSUME NEW v, DigestTo(v) PROVE SendersInv'
  BY <1>0, <1>9, SendersRest DEF DigestTo, funnelVars
<1>10. CASE DigestRuns \/ DayPasses \/ \E ok \in BOOLEAN : DigestSent(ok)
  BY <1>9, <1>10 DEF DigestRuns, DayPasses, DigestSent
<1> QED BY <1>1, <1>2, <1>3, <1>4, <1>5, <1>6, <1>7, <1>8, <1>10, GatedKeeps, SentKeeps, MarkedKeeps
        DEF FunnelNext

LEMMA FunnelLeavesWarnings == WarnInv /\ FunnelNext => WarnInv'
<1> SUFFICES ASSUME WarnInv, FunnelNext PROVE WarnInv' OBVIOUS
<1>1. UNCHANGED warnVars /\ limited' = limited
  BY DEF FunnelNext, Ages, SendToChat, Moves, RemindStuck, Gated, SendToCohort, ReminderSent,
         ReminderMarked, HoursPass, SweepReads, SweepRejects, SweepTo, DigestRuns, DayPasses,
         DigestSent, DigestTo, SenderTo
<1> QED BY <1>1 DEF WarnInv, warnVars, Told

LEMMA WarnedKeeps ==
  ASSUME WarnInv, NEW c \in Client, NEW sent \in BOOLEAN, NEW marked \in BOOLEAN,
         Warned(c, sent, marked)
  PROVE  WarnInv'
<1> DEFINE w == [who |-> c, of |-> alerts.seen[c], in |-> month]
           owed == ToWarn(alerts.seen, c)
           goes == NoticeGoes(c, sent)
<1>1. /\ alerts' = IF alerts.left = {c} THEN NoAlerts ELSE [alerts EXCEPT !.left = @ \ {c}]
      /\ told' = IF owed /\ sent THEN [told EXCEPT ![w] = @ + 1] ELSE told
      /\ warned' = IF owed /\ goes /\ marked THEN warned \union {w} ELSE warned
      /\ unlogged' = IF owed /\ goes /\ ~marked THEN unlogged + 1 ELSE unlogged
      /\ UNCHANGED <<used, month, limited>>
  BY DEF Warned, QuotaTo
<1>2. alerts.seen[c] \in Level /\ month \in 0..LastMonth /\ unlogged \in Nat
      /\ warned \subseteq Warning /\ told \in [Warning -> Nat]
  BY DEF WarnInv
<1>3. owed => w \in Warning /\ w \notin warned BY <1>2 DEF ToWarn, Warning, Level
<1>4. sent => goes BY DEF NoticeGoes
<1> HIDE DEF w, owed, goes
<1>5. alerts' \in [left : SUBSET Client, seen : [Client -> Level]]
  BY <1>1, NoAlertsAre DEF WarnInv
<1>6. warned' \subseteq Warning /\ unlogged' \in Nat /\ unlogged' >= unlogged
  BY <1>1, <1>2, <1>3
<1>7. told' \in [Warning -> Nat] BY <1>1, <1>2, <1>3
<1>8. ASSUME NEW x \in Warning PROVE Told(x)'
  <2>1. told[x] \in Nat /\ Told(x) BY <1>2 DEF WarnInv
  <2>2. CASE x # w \/ ~owed \/ ~sent
    <3>1. told'[x] = told[x] BY <1>1, <1>2, <1>3, <2>2
    <3>2. x \in warned => x \in warned' BY <1>1
    <3> QED BY <1>2, <1>6, <2>1, <3>1, <3>2 DEF Told
  <2>3. CASE x = w /\ owed /\ sent
    <3>1. told'[x] = told[x] + 1 BY <1>1, <1>2, <2>3
    <3>2. told[x] <= unlogged BY <1>2, <1>3, <2>1, <2>3 DEF Told
    <3>3. CASE marked
      <4>1. x \in warned' /\ unlogged' = unlogged BY <1>1, <1>4, <2>3, <3>3
      <4> QED BY <1>2, <2>1, <3>1, <3>2, <4>1 DEF Told
    <3>4. CASE ~marked
      <4>1. unlogged' = unlogged + 1 BY <1>1, <1>4, <2>3, <3>4
      <4> QED BY <1>2, <2>1, <3>1, <3>2, <4>1 DEF Told
    <3> QED BY <3>3, <3>4
  <2> QED BY <2>2, <2>3
<1>9. limited' \subseteq Client /\ used' \in [Client -> Level] /\ month' \in 0..LastMonth
  BY <1>1 DEF WarnInv
<1> QED BY <1>5, <1>6, <1>7, <1>8, <1>9 DEF WarnInv

LEMMA WarnKeeps == WarnInv /\ WarnNext => WarnInv'
<1> SUFFICES ASSUME WarnInv, WarnNext PROVE WarnInv' OBVIOUS
<1>1. ASSUME NEW c \in Client, TrafficGrows(c) PROVE WarnInv'
  <2>1. used' \in [Client -> Level] BY <1>1 DEF TrafficGrows, WarnInv, Level
  <2> QED BY <1>1, <2>1 DEF TrafficGrows, QuotaTo, WarnInv, Told
<1>2. CASE MonthTurns
  <2>1. used' \in [Client -> Level] BY <1>2 DEF MonthTurns, Level
  <2>2. month' \in 0..LastMonth BY <1>2, ReminderConstants DEF MonthTurns, WarnInv
  <2> QED BY <1>2, <2>1, <2>2 DEF MonthTurns, QuotaTo, WarnInv, Told
<1>3. CASE TrafficSynced
  <2>1. alerts' \in [left : SUBSET Client, seen : [Client -> Level]]
    BY <1>3 DEF TrafficSynced, WarnInv
  <2> QED BY <1>3, <2>1 DEF TrafficSynced, QuotaTo, WarnInv, Told
<1> QED BY <1>1, <1>2, <1>3, WarnedKeeps DEF WarnNext

LEMMA WarnLeavesTheRest == SendersInv /\ PeopleInv /\ WarnNext => SendersInv' /\ PeopleInv'
<1> SUFFICES ASSUME SendersInv, PeopleInv, WarnNext PROVE SendersInv' /\ PeopleInv' OBVIOUS
<1>1. QuotaTo BY DEF WarnNext, MonthTurns, TrafficSynced, TrafficGrows, Warned
<1>2. SendersInv'
  <2>1. standing \in [Person -> Standing] BY DEF PeopleInv
  <2> QED BY <1>1, <2>1, SendersRest DEF QuotaTo, funnelVars
<1>3. PeopleInv' BY <1>1 DEF QuotaTo, funnelVars, sweepVars, digestVars, PeopleInv, Open
<1> QED BY <1>2, <1>3

LEMMA RemindSteps == RemindInv /\ [FunnelNext \/ WarnNext]_remindVars => RemindInv'
<1> SUFFICES ASSUME RemindInv, [FunnelNext \/ WarnNext]_remindVars PROVE RemindInv' OBVIOUS
<1>1. CASE FunnelNext
  BY <1>1, FunnelKeepsPeople, FunnelKeepsSenders, FunnelLeavesWarnings DEF RemindInv
<1>2. CASE WarnNext BY <1>2, WarnKeeps, WarnLeavesTheRest DEF RemindInv
<1>3. CASE UNCHANGED remindVars
  <2>1. SendersInv'
    <3>1. standing \in [Person -> Standing] BY DEF RemindInv, PeopleInv
    <3> QED BY <1>3, <3>1, SendersRest DEF RemindInv, remindVars
  <2>2. PeopleInv' BY <1>3 DEF RemindInv, PeopleInv, remindVars, Open
  <2>3. WarnInv' BY <1>3 DEF RemindInv, WarnInv, remindVars, Told
  <2> QED BY <2>1, <2>2, <2>3 DEF RemindInv
<1> QED BY <1>1, <1>2, <1>3

LEMMA RemindHolds == RemindInv => RemindersHold
<1> SUFFICES ASSUME RemindInv PROVE RemindersHold OBVIOUS
<1>1. RemindTypeOK
  <2>1. \A s \in Sender : sender[s].at \in {"gate", "send", "mark"}
    BY SenderHas DEF RemindInv, SendersInv, SendersAre
  <2> QED BY <2>1 DEF RemindInv, SendersInv, SendersAre, PeopleInv, WarnInv, RemindTypeOK
<1>2. EnoughIsEnough BY DEF RemindInv, SendersInv, Bounded, EnoughIsEnough
<1>3. ASSUME NEW w \in Warning PROVE told[w] <= 1 + unlogged
  BY DEF RemindInv, WarnInv, Told
<1> QED BY <1>1, <1>2, <1>3 DEF RemindersHold, WarnedOnce

\* However reminders, warnings, log entries and the moves of people come in each other's
\* way, nobody is reminded or warned more often than is set, but for entries that were lost.
THEOREM NobodyIsPestered == RemindSpec => []RemindersHold
<1>1. RemindInit => RemindInv BY SendersStart, PeopleStart, WarnStarts DEF RemindInv
<1> QED BY <1>1, RemindSteps, RemindHolds, PTL DEF RemindSpec

-----------------------------------------------------------------------------
Served == [up : BOOLEAN, users : SUBSET ZoneUser]
RunAt == {"idle", "read", "judge", "swap", "start", "offer", "clear", "drop"}
ZoneRuns == [mode : {"none", "sync", "setup", "remove"}, at : RunAt, list : SUBSET ZoneUser]

ZoneData ==
  /\ eligible \in SUBSET ZoneUser /\ offered \in BOOLEAN /\ torn \in BOOLEAN
  /\ confFile \in SUBSET ZoneUser /\ confPrev \in SUBSET ZoneUser
  /\ container \in Served /\ zoneRun \in ZoneRuns

ZoneCounts == zoneFaults \in 0 .. MaxZoneFaults

\* Unless a run was torn, what is served is the config: the file's, or while a run is
\* between the swap and the start, the one before it.
ConfServed ==
  /\ zoneRun.at = "start" => confFile = zoneRun.list
  /\ ~torn /\ zoneRun.at = "start" => container.users \in {{}, confPrev}
  /\ ~torn /\ zoneRun.at # "start" => container.users \in {{}, confFile}

\* A run of the timer swaps an empty list in for an empty list only; a removal has withdrawn
\* the offer before it drops the container.
RunIsSound ==
  /\ zoneRun.mode = "sync" /\ zoneRun.at = "swap" /\ zoneRun.list = {} => confFile = {}
  /\ zoneRun.mode = "sync" /\ zoneRun.at = "start" /\ zoneRun.list = {} => confPrev = {}
  /\ zoneRun.mode = "remove" <=> zoneRun.at \in {"clear", "drop"}
  /\ zoneRun.at = "drop" => ~offered

ZoneInv == ZoneData /\ ZoneCounts /\ ConfServed /\ RunIsSound

LEMMA ServedAre ==
  \A up \in BOOLEAN, users \in SUBSET ZoneUser :
    /\ [up |-> up, users |-> users] \in Served
    /\ [up |-> up, users |-> users].up = up /\ [up |-> up, users |-> users].users = users
  BY DEF Served

LEMMA DownIs == Down \in Served /\ Down.up = FALSE /\ Down.users = {}
  BY DEF Down, Served

LEMMA ZoneRunsAre ==
  /\ NoRun \in ZoneRuns /\ NoRun.at = "idle" /\ NoRun.mode = "none"
  /\ \A r \in ZoneRuns : /\ r.mode \in {"none", "sync", "setup", "remove"}
                         /\ r.at \in RunAt /\ r.list \in SUBSET ZoneUser
  BY DEF ZoneRuns, NoRun, RunAt

\* A run goes on to something else.
RunGoesTo(pos) == zoneRun' = [zoneRun EXCEPT !.at = pos]

LEMMA RunGoes ==
  ASSUME zoneRun \in ZoneRuns, NEW pos \in RunAt, RunGoesTo(pos)
  PROVE  /\ zoneRun' \in ZoneRuns /\ zoneRun'.at = pos
         /\ zoneRun'.mode = zoneRun.mode /\ zoneRun'.list = zoneRun.list
  BY DEF ZoneRuns, RunGoesTo

LEMMA RunReads ==
  ASSUME zoneRun \in ZoneRuns, NEW list \in SUBSET ZoneUser, Read(list)
  PROVE  zoneRun' \in ZoneRuns /\ zoneRun'.at = "judge" /\ zoneRun'.mode = zoneRun.mode
  BY DEF ZoneRuns, Read, RunAt

LEMMA RunBegins ==
  ASSUME NEW mode \in {"sync", "setup", "remove"}, RunStarted(mode)
  PROVE  /\ zoneRun' \in ZoneRuns /\ zoneRun'.at \in {"clear", "read"}
         /\ zoneRun'.mode = "remove" <=> zoneRun'.at = "clear"
  BY DEF RunStarted, ZoneRuns, RunAt

LEMMA ZoneStarts == ZoneInit => ZoneInv
<1> SUFFICES ASSUME ZoneInit PROVE ZoneInv OBVIOUS
<1> USE ServedAre, ZoneRunsAre DEF ZoneInit
<1>1. ZoneData BY DEF ZoneData
<1>2. ZoneCounts BY ZoneConstants DEF ZoneCounts
<1>3. ConfServed BY DEF ConfServed
<1>4. RunIsSound BY DEF RunIsSound
<1> QED BY <1>1, <1>2, <1>3, <1>4 DEF ZoneInv

LEMMA FaultCounts == ZoneCounts /\ (Fault \/ UNCHANGED zoneFaults) => ZoneCounts'
  BY ZoneConstants DEF ZoneCounts, Fault

LEMMA ZoneSteps ==
  ASSUME ZoneInv, [ZoneNext]_zoneVars
  PROVE  ZoneInv'
<1> ZoneData /\ ZoneCounts /\ ConfServed /\ RunIsSound BY DEF ZoneInv
<1> USE ZoneRunsAre
<1>1. ASSUME NEW u \in ZoneUser, EligibilityMoves(u) PROVE ZoneInv'
  <2> USE <1>1 DEF EligibilityMoves
  <2>1. ZoneData' BY DEF ZoneData
  <2>2. ZoneCounts' BY FaultCounts
  <2>3. ConfServed' BY DEF ConfServed
  <2>4. RunIsSound' BY DEF RunIsSound
  <2> QED BY <2>1, <2>2, <2>3, <2>4 DEF ZoneInv
<1>2. ASSUME NEW mode \in {"sync", "setup", "remove"}, RunStarted(mode) PROVE ZoneInv'
  <2> USE <1>2 DEF RunStarted
  <2>1. /\ zoneRun' \in ZoneRuns /\ zoneRun'.at \in {"clear", "read"}
        /\ zoneRun'.mode = "remove" <=> zoneRun'.at = "clear"
    BY RunBegins
  <2>2. ZoneData' BY <2>1 DEF ZoneData
  <2>3. ZoneCounts' BY FaultCounts
  <2>4. ConfServed' BY <2>1 DEF ConfServed
  <2>5. RunIsSound' BY <2>1 DEF RunIsSound
  <2> QED BY <2>2, <2>3, <2>4, <2>5 DEF ZoneInv
<1>3. CASE ListFetched
  <2> USE <1>3 DEF ListFetched
  <2>1. /\ zoneRun' \in ZoneRuns
        /\ \/ zoneRun' = NoRun
           \/ zoneRun'.at = "judge" /\ zoneRun'.mode = zoneRun.mode
    <3>1. Read(eligible) \/ Read({}) \/ zoneRun' = NoRun BY DEF RunOver
    <3> QED BY <3>1, RunReads DEF ZoneData
  <2>2. ZoneData' BY <2>1 DEF ZoneData
  <2>3. ZoneCounts' BY FaultCounts
  <2>4. ConfServed' BY <2>1 DEF ConfServed
  <2>5. RunIsSound' BY <2>1 DEF RunIsSound
  <2> QED BY <2>2, <2>3, <2>4, <2>5 DEF ZoneInv
<1>4. CASE Judged
  <2> USE <1>4 DEF Judged
  <2>1. /\ zoneRun' \in ZoneRuns
        /\ \/ zoneRun' = NoRun
           \/ /\ zoneRun'.at = "swap" /\ zoneRun'.mode = zoneRun.mode /\ zoneRun'.list = zoneRun.list
              /\ zoneRun.mode = "sync" => ~Emptied
    <3>1. zoneRun' = NoRun \/ (RunGoesTo("swap") /\ (zoneRun.mode = "sync" => ~Emptied))
      BY DEF RunOver, RunGoesTo
    <3> QED BY <3>1, RunGoes DEF ZoneData, RunAt
  <2>2. ZoneData' BY <2>1 DEF ZoneData
  <2>3. ZoneCounts' BY FaultCounts
  <2>4. ConfServed' BY <2>1 DEF ConfServed
  <2>5. RunIsSound' BY <2>1 DEF RunIsSound, Emptied
  <2> QED BY <2>2, <2>3, <2>4, <2>5 DEF ZoneInv
<1>5. CASE Swapped
  <2> USE <1>5 DEF Swapped
  <2>1. zoneRun' \in ZoneRuns /\ zoneRun'.at = "start" /\ zoneRun'.mode = zoneRun.mode
         /\ zoneRun'.list = zoneRun.list
    BY RunGoes DEF ZoneData, RunAt, RunGoesTo
  <2>2. ZoneData' BY <2>1 DEF ZoneData
  <2>3. ZoneCounts' BY FaultCounts
  <2>4. ConfServed' BY <2>1 DEF ConfServed
  <2>5. RunIsSound' BY <2>1 DEF RunIsSound
  <2> QED BY <2>2, <2>3, <2>4, <2>5 DEF ZoneInv
<1>6. CASE ContainerStarted
  <2> USE <1>6 DEF ContainerStarted
  <2>1. /\ zoneRun' \in ZoneRuns
        /\ zoneRun' = NoRun \/ (zoneRun'.at = "offer" /\ zoneRun'.mode = "setup")
    <3>1. zoneRun' = NoRun \/ (RunGoesTo("offer") /\ zoneRun.mode = "setup")
      BY DEF RunOver, RollsBack, RunGoesTo
    <3> QED BY <3>1, RunGoes DEF ZoneData, RunAt
  <2>2. /\ container' \in Served /\ confFile' \in SUBSET ZoneUser
        /\ container'.users \in {{}, confFile'}
    <3>1. \/ container' = [up |-> TRUE, users |-> confFile] /\ confFile' = confFile
          \/ /\ container' = [up |-> TRUE, users |-> confPrev] \/ container' = Down
             /\ confFile' = confPrev
      BY DEF RollsBack
    <3>2. confFile \in SUBSET ZoneUser /\ confPrev \in SUBSET ZoneUser BY DEF ZoneData
    <3> QED BY <3>1, <3>2, ServedAre, DownIs
  <2>3. ZoneData' BY <2>1, <2>2 DEF ZoneData
  <2>4. ZoneCounts' BY FaultCounts
  <2>5. ConfServed' BY <2>1, <2>2 DEF ConfServed
  <2>6. RunIsSound' BY <2>1 DEF RunIsSound
  <2> QED BY <2>3, <2>4, <2>5, <2>6 DEF ZoneInv
<1>7. CASE RunTorn
  <2> USE <1>7 DEF RunTorn, RunOver
  <2>1. ZoneData' BY DEF ZoneData
  <2>2. ZoneCounts' BY FaultCounts
  <2>3. ConfServed' BY DEF ConfServed
  <2>4. RunIsSound' BY DEF RunIsSound
  <2> QED BY <2>1, <2>2, <2>3, <2>4 DEF ZoneInv
<1>8. CASE Offered
  <2> USE <1>8 DEF Offered, RunOver
  <2>1. ZoneData' BY DEF ZoneData
  <2>2. ZoneCounts' BY FaultCounts
  <2>3. ConfServed' BY DEF ConfServed
  <2>4. RunIsSound' BY DEF RunIsSound
  <2> QED BY <2>1, <2>2, <2>3, <2>4 DEF ZoneInv
<1>9. CASE Withdrawn
  <2> USE <1>9 DEF Withdrawn
  <2>1. /\ zoneRun' \in ZoneRuns
        /\ \/ zoneRun' = NoRun /\ container' = Down
           \/ /\ zoneRun'.at = "drop" /\ zoneRun'.mode = zoneRun.mode
              /\ zoneRun.at = "clear" /\ container' = container /\ ~offered'
    <3>1. \/ zoneRun' = NoRun /\ container' = Down
          \/ RunGoesTo("drop") /\ zoneRun.at = "clear" /\ container' = container /\ ~offered'
      BY DEF RunOver, RunGoesTo
    <3> QED BY <3>1, RunGoes DEF ZoneData, RunAt
  <2>2. ZoneData' BY <2>1, DownIs DEF ZoneData
  <2>3. ZoneCounts' BY FaultCounts
  <2>4. ConfServed' BY <2>1, DownIs DEF ConfServed
  <2>5. RunIsSound' BY <2>1 DEF RunIsSound
  <2> QED BY <2>2, <2>3, <2>4, <2>5 DEF ZoneInv
<1>10. CASE UNCHANGED zoneVars
  <2> USE <1>10 DEF zoneVars
  <2>1. ZoneData' BY DEF ZoneData
  <2>2. ZoneCounts' BY FaultCounts
  <2>3. ConfServed' BY DEF ConfServed
  <2>4. RunIsSound' BY DEF RunIsSound
  <2> QED BY <2>1, <2>2, <2>3, <2>4 DEF ZoneInv
<1> QED BY <1>1, <1>2, <1>3, <1>4, <1>5, <1>6, <1>7, <1>8, <1>9, <1>10 DEF ZoneNext, RunMoves

\* The two action properties, of a step from a state of the invariant.
LEMMA ZoneStepsAreSound ==
  ASSUME ZoneInv, [ZoneNext]_zoneVars
  PROVE  /\ (zoneRun.mode = "sync" /\ container.up /\ container.users # {} /\ container'.up
               /\ ~torn) => container'.users # {}
         /\ (zoneRun.mode = "remove" /\ container' # container) => ~offered
<1>1. CASE container' = container
  BY <1>1
<1>2. CASE ContainerStarted
  <2>1. container'.up => container'.users \in {confFile, confPrev}
    BY <1>2, ServedAre, DownIs DEF ContainerStarted, RollsBack, ZoneInv, ZoneData
  <2>2. zoneRun.mode # "remove"
    BY <1>2 DEF ContainerStarted, ZoneInv, RunIsSound
  <2> QED BY <1>2, <2>1, <2>2 DEF ContainerStarted, ZoneInv, ConfServed, RunIsSound
<1>3. CASE Withdrawn
  BY <1>3, DownIs DEF Withdrawn, ZoneInv, RunIsSound
<1> QED
  BY <1>1, <1>2, <1>3 DEF ZoneNext, RunMoves, zoneVars, EligibilityMoves, RunStarted, ListFetched,
     Judged, Swapped, RunTorn, Offered

LEMMA ZoneSafe == ZoneInit /\ [][ZoneNext]_zoneVars => ZoneHolds
<1>1. ZoneInit => ZoneInv BY ZoneStarts
<1>2. ZoneInv /\ [ZoneNext]_zoneVars => ZoneInv' BY ZoneSteps
<1>3. ZoneInv => ZoneTypeOK
  BY DEF ZoneInv, ZoneData, ZoneCounts, ConfServed, ZoneTypeOK, Served, ZoneRuns, RunAt
<1>4. ZoneInv /\ [ZoneNext]_zoneVars =>
        [(zoneRun.mode = "sync" /\ container.up /\ container.users # {} /\ container'.up
            /\ ~torn) => container'.users # {}]_zoneVars
  BY ZoneStepsAreSound
<1>5. ZoneInv /\ [ZoneNext]_zoneVars =>
        [zoneRun.mode = "remove" /\ container' # container => ~offered]_zoneVars
  BY ZoneStepsAreSound
<1> QED BY <1>1, <1>2, <1>3, <1>4, <1>5, PTL
        DEF ZoneHolds, SyncNeverEmpties, GoneAfterWithdrawn

\* Whatever reads return and wherever a run is cut short: what is served is a config that was
\* in place, a run of the timer takes it from nobody unless one was torn, and the server
\* goes only after the zone was withdrawn.
THEOREM ServedWhoMay == ZoneSpec => ZoneHolds
BY ZoneSafe, PTL DEF ZoneSpec

-----------------------------------------------------------------------------
TurnOf(m) == [chat : Chat \union {NoChat}, sid : 0..m, at : {"idle", "ask", "sent", "reply"},
              fresh : BOOLEAN, photo : BOOLEAN]

AgentData ==
  /\ made \in Nat /\ kept \in [Chat -> 0..made] /\ answering \in SUBSET Chat
  /\ photos \in SUBSET Chat /\ turns \in [TurnWorker -> TurnOf(made)]
  /\ sessions \in SUBSET (1..made) /\ primed \in SUBSET (1..made) /\ busy \in SUBSET (1..made)
  /\ closing \in Chat \union {NoChat} /\ dropped \in [Chat -> BOOLEAN]

\* Who answers, and for whom: at most one worker each.
OneEach ==
  /\ \A w \in TurnWorker : Working(w) => turns[w].chat \in answering
  /\ \A k \in answering : \E w \in TurnWorker : Working(w) /\ turns[w].chat = k
  /\ \A w, v \in TurnWorker : Working(w) /\ Working(v) /\ turns[w].chat = turns[v].chat => w = v

\* The sessions that are remembered or in use were told the rules; unless a conversation was
\* cut off from its session, that is the one it is in.
InSession ==
  /\ \A w \in TurnWorker : turns[w].at \in {"sent", "reply"} => turns[w].sid \in primed
  /\ \A k \in Chat : kept[k] # NoSession => kept[k] \in primed
  /\ \A k \in Chat : ~dropped[k] => kept[k] # NoSession
  /\ \A w \in TurnWorker :
       turns[w].at = "sent" /\ ~dropped[turns[w].chat] => turns[w].sid = kept[turns[w].chat]

AgentInv == AgentData /\ OneEach /\ InSession

LEMMA AgentStarts == AgentInit => AgentInv
<1> SUFFICES ASSUME AgentInit PROVE AgentInv OBVIOUS
<1>1. AtRest \in TurnOf(0) /\ AtRest.at = "idle"
  BY DEF AtRest, TurnOf, NoSession
<1>2. AgentData BY <1>1 DEF AgentInit, AgentData, NoSession
<1>3. OneEach BY <1>1 DEF AgentInit, OneEach, Working
<1>4. InSession BY <1>1 DEF AgentInit, InSession
<1> QED BY <1>2, <1>3, <1>4 DEF AgentInv

LEMMA TurnOfGrows ==
  ASSUME NEW m \in Nat, NEW n \in Nat, m <= n
  PROVE  TurnOf(m) \subseteq TurnOf(n) /\ 0..m \subseteq 0..n /\ 1..m \subseteq 1..n
  BY DEF TurnOf

\* One worker goes on, the others stay where they are.
LEMMA OneTurns ==
  ASSUME NEW m \in Nat, turns \in [TurnWorker -> TurnOf(m)], NEW w \in TurnWorker,
         NEW n \in Nat, m <= n,
         NEW t \in TurnOf(n), turns' = [turns EXCEPT ![w] = t]
  PROVE  /\ turns' \in [TurnWorker -> TurnOf(n)]
         /\ turns'[w] = t
         /\ \A v \in TurnWorker : v # w => turns'[v] = turns[v]
  BY TurnOfGrows

LEMMA RestIs == AtRest.at = "idle" /\ \A m \in Nat : AtRest \in TurnOf(m)
  BY DEF AtRest, TurnOf, NoSession

\* A worker is done: what remains of the invariant when nothing else matters.
LEMMA DoneIs ==
  ASSUME AgentData, OneEach, NEW w \in TurnWorker, WorkerDone(w), turns[w].at # "idle"
  PROVE  /\ turns' \in [TurnWorker -> TurnOf(made)] /\ answering' \in SUBSET Chat
         /\ OneEach'
         /\ \A v \in TurnWorker : turns'[v].at # "idle" => turns'[v] = turns[v]
<1>1. /\ turns' \in [TurnWorker -> TurnOf(made)] /\ turns'[w] = AtRest
      /\ \A v \in TurnWorker : v # w => turns'[v] = turns[v]
  BY OneTurns, RestIs DEF WorkerDone, AgentData
<1>2. answering' = answering \ {turns[w].chat} BY DEF WorkerDone
<1>3. OneEach' BY <1>1, <1>2, RestIs DEF OneEach, Working
<1>4. \A v \in TurnWorker : turns'[v].at # "idle" => turns'[v] = turns[v] BY <1>1, RestIs
<1> QED BY <1>1, <1>2, <1>3, <1>4 DEF AgentData

\* A worker at work goes on to something else, for the same conversation.
LEMMA GoesOnIs ==
  ASSUME AgentData, OneEach, NEW w \in TurnWorker, turns[w].at # "idle",
         NEW n \in Nat, made <= n, NEW t \in TurnOf(n), t.chat = turns[w].chat, t.at # "idle",
         turns' = [turns EXCEPT ![w] = t], answering' = answering
  PROVE  /\ turns' \in [TurnWorker -> TurnOf(n)] /\ turns'[w] = t
         /\ \A v \in TurnWorker : v # w => turns'[v] = turns[v]
         /\ \A v \in TurnWorker : turns'[v].chat = turns[v].chat
         /\ OneEach'
<1>1. /\ turns' \in [TurnWorker -> TurnOf(n)] /\ turns'[w] = t
      /\ \A v \in TurnWorker : v # w => turns'[v] = turns[v]
  BY OneTurns DEF AgentData
<1>2. \A v \in TurnWorker : /\ turns'[v].chat = turns[v].chat
                            /\ turns'[v].at # "idle" <=> turns[v].at # "idle"
  BY <1>1
<1>3. OneEach' BY <1>2 DEF OneEach, Working
<1> QED BY <1>1, <1>2, <1>3

\* Whoever works does so for one of the conversations, and nobody else for the same.
LEMMA WorkersAre ==
  ASSUME AgentData, OneEach, NEW w \in TurnWorker, turns[w].at # "idle"
  PROVE  /\ turns[w] \in TurnOf(made) /\ turns[w].chat \in Chat /\ turns[w].sid \in 0..made
         /\ turns[w].photo \in BOOLEAN /\ turns[w].fresh \in BOOLEAN
         /\ \A v \in TurnWorker : v # w /\ turns[v].at # "idle" => turns[v].chat # turns[w].chat
  BY DEF AgentData, OneEach, Working, TurnOf

LEMMA SendsIs ==
  ASSUME AgentData, OneEach, NEW w \in TurnWorker, turns[w].at # "idle",
         NEW n \in Nat, made <= n, NEW sid \in 0..n, NEW anew \in BOOLEAN,
         Sends(w, sid, anew), answering' = answering
  PROVE  /\ turns' \in [TurnWorker -> TurnOf(n)]
         /\ turns'[w].at = "sent" /\ turns'[w].sid = sid
         /\ \A v \in TurnWorker : v # w => turns'[v] = turns[v]
         /\ \A v \in TurnWorker : turns'[v].chat = turns[v].chat
         /\ OneEach'
<1> DEFINE t == [chat |-> turns[w].chat, at |-> "sent", sid |-> sid, fresh |-> anew,
                 photo |-> turns[w].photo]
<1>1. t \in TurnOf(n) /\ t.chat = turns[w].chat /\ t.at = "sent" /\ t.sid = sid
  BY WorkersAre DEF TurnOf
<1>2. turns' = [turns EXCEPT ![w] = t] BY DEF Sends
<1> HIDE DEF t
<1> QED BY <1>1, <1>2, GoesOnIs

\* A new session is one more, and knows the rules.
LEMMA OpenedIs ==
  ASSUME AgentData, NEW w \in TurnWorker, Opened(w)
  PROVE  /\ made' \in Nat /\ made <= made' /\ made + 1 \in 0..made' /\ made + 1 \in primed'
         /\ primed \subseteq primed' /\ primed' \in SUBSET (1..made')
         /\ sessions' \in SUBSET (1..made') /\ busy \in SUBSET (1..made')
         /\ kept \in [Chat -> 0..made']
         /\ [kept EXCEPT ![turns[w].chat] = NoSession] \in [Chat -> 0..made']
<1>1. made' \in Nat /\ made <= made' /\ made' = made + 1 BY DEF AgentData, Opened
<1>2. 0..made \subseteq 0..made' /\ 1..made \subseteq 1..made' BY <1>1 DEF AgentData
<1>3. made + 1 \in 1..made' /\ made + 1 \in 0..made' BY <1>1 DEF AgentData
<1>4. 0 \in 0..made' BY <1>1
<1> QED BY <1>1, <1>2, <1>3, <1>4 DEF AgentData, Opened, NoSession

LEMMA AgentSteps ==
  ASSUME AgentInv, [AgentNext]_agentVars
  PROVE  AgentInv'
<1> AgentData /\ OneEach /\ InSession BY DEF AgentInv
<1>0. ASSUME UNCHANGED <<kept, answering, turns, primed, busy, dropped, made>>,
             sessions' \in SUBSET sessions, photos' \in SUBSET Chat,
             closing' \in Chat \union {NoChat}
      PROVE  AgentInv'
  <2>1. AgentData' BY <1>0 DEF AgentData
  <2>2. OneEach' BY <1>0 DEF OneEach, Working
  <2>3. InSession' BY <1>0 DEF InSession
  <2> QED BY <2>1, <2>2, <2>3 DEF AgentInv
<1>1. ASSUME NEW k \in Chat, NEW photo \in BOOLEAN, PromptArrives(k, photo) PROVE AgentInv'
  <2>1. /\ photos' \in SUBSET Chat /\ closing' \in Chat \union {NoChat}
        /\ UNCHANGED <<kept, sessions, primed, busy, dropped, made>>
    BY <1>1 DEF PromptArrives, AgentData
  <2>2. CASE ~Takes(k)
    <3>1. UNCHANGED <<turns, answering>> BY <1>1, <2>2 DEF PromptArrives
    <3> QED BY <1>0, <2>1, <3>1
  <2>3. CASE Takes(k)
    <3> DEFINE t == [chat |-> k, at |-> "ask", sid |-> NoSession, fresh |-> FALSE, photo |-> photo]
    <3>1. PICK w \in TurnWorker : /\ turns[w].at = "idle" /\ turns' = [turns EXCEPT ![w] = t]
                                  /\ answering' = answering \union {k}
      BY <1>1, <2>3 DEF PromptArrives
    <3>2. t \in TurnOf(made) /\ t.chat = k /\ t.at = "ask"
      BY DEF TurnOf, NoSession, AgentData
    <3> HIDE DEF t
    <3>3. /\ turns' \in [TurnWorker -> TurnOf(made)] /\ turns'[w] = t
          /\ \A v \in TurnWorker : v # w => turns'[v] = turns[v]
      BY <3>1, <3>2, OneTurns DEF AgentData
    <3>4. AgentData' BY <2>1, <3>1, <3>3 DEF AgentData
    <3>5. OneEach' BY <2>3, <3>1, <3>2, <3>3 DEF OneEach, Working, Takes
    <3>6. InSession' BY <2>1, <3>2, <3>3 DEF InSession
    <3> QED BY <3>4, <3>5, <3>6 DEF AgentInv
  <2> QED BY <2>2, <2>3
<1>2. ASSUME NEW k \in Chat, NEW reached \in BOOLEAN, ResetAsked(k, reached) PROVE AgentInv'
  <2>1. /\ UNCHANGED <<answering, turns, photos, primed, busy, closing, made>>
        /\ sessions' \in SUBSET sessions
        /\ kept' = [kept EXCEPT ![k] = NoSession] /\ dropped' = [dropped EXCEPT ![k] = TRUE]
    BY <1>2 DEF ResetAsked, agentCounts
  <2>2. NoSession \in 0..made BY DEF NoSession, AgentData
  <2>3. AgentData' BY <2>1, <2>2 DEF AgentData
  <2>4. OneEach' BY <2>1 DEF OneEach, Working
  <2>5. \A j \in Chat : IF j = k THEN kept'[j] = NoSession /\ dropped'[j] = TRUE
                        ELSE kept'[j] = kept[j] /\ dropped'[j] = dropped[j]
    BY <2>1 DEF AgentData
  <2>6. \A w \in TurnWorker : turns[w].at = "sent" => turns[w].chat \in Chat
    BY WorkersAre
  <2>7. InSession' BY <2>1, <2>5, <2>6 DEF InSession
  <2> QED BY <2>3, <2>4, <2>7 DEF AgentInv
<1>3. ASSUME NEW w \in TurnWorker, turns[w].at # "idle", WorkerDone(w), busy' \in SUBSET (1..made),
             UNCHANGED <<kept, sessions, primed, dropped, made, photos, closing>>
      PROVE  AgentInv'
  <2>1. /\ turns' \in [TurnWorker -> TurnOf(made)] /\ answering' \in SUBSET Chat /\ OneEach'
        /\ \A v \in TurnWorker : turns'[v].at # "idle" => turns'[v] = turns[v]
    BY <1>3, DoneIs
  <2>2. AgentData' BY <1>3, <2>1 DEF AgentData
  <2>3. InSession' BY <1>3, <2>1 DEF InSession
  <2> QED BY <2>1, <2>2, <2>3 DEF AgentInv
<1>4. ASSUME NEW w \in TurnWorker, TurnAsks(w) PROVE AgentInv'
  <2> DEFINE k == turns[w].chat
  <2>1. /\ turns[w].at # "idle" /\ k \in Chat
        /\ UNCHANGED <<kept, photos, closing, busy, dropped>>
    BY <1>4, WorkersAre DEF TurnAsks
  <2>2. CASE kept[k] = NoSession /\ Opened(w) /\ Sends(w, made + 1, TRUE) /\ UNCHANGED answering
    <3>1. /\ turns' \in [TurnWorker -> TurnOf(made')] /\ OneEach'
          /\ turns'[w].at = "sent" /\ turns'[w].sid = made + 1
          /\ \A v \in TurnWorker : v # w => turns'[v] = turns[v]
          /\ \A v \in TurnWorker : turns'[v].chat = turns[v].chat
      BY <2>1, <2>2, OpenedIs, SendsIs
    <3>2. AgentData' BY <2>1, <2>2, <3>1, OpenedIs DEF AgentData
    <3>3. InSession' BY <2>1, <2>2, <3>1, OpenedIs DEF InSession
    <3> QED BY <3>1, <3>2, <3>3 DEF AgentInv
  <2>3. CASE /\ kept[k] # NoSession /\ Sends(w, kept[k], FALSE)
             /\ UNCHANGED <<made, sessions, primed, answering>>
    <3>0. kept[k] \in 0..made /\ made \in Nat /\ made <= made BY <2>1 DEF AgentData
    <3>1. /\ turns' \in [TurnWorker -> TurnOf(made)] /\ OneEach'
          /\ turns'[w].at = "sent" /\ turns'[w].sid = kept[k]
          /\ \A v \in TurnWorker : v # w => turns'[v] = turns[v]
          /\ \A v \in TurnWorker : turns'[v].chat = turns[v].chat
      BY <2>1, <2>3, <3>0, SendsIs
    <3>2. AgentData' BY <2>1, <2>3, <3>1 DEF AgentData
    <3>3. InSession' BY <2>1, <2>3, <3>1 DEF InSession
    <3> QED BY <3>1, <3>2, <3>3 DEF AgentInv
  <2>4. CASE WorkerDone(w) /\ UNCHANGED <<made, sessions, primed>>
    BY <1>3, <2>1, <2>4 DEF AgentData
  <2> QED BY <1>4, <2>2, <2>3, <2>4 DEF TurnAsks
<1>5. ASSUME NEW w \in TurnWorker, TurnAnswered(w) PROVE AgentInv'
  <2> DEFINE k == turns[w].chat
             t == [turns[w] EXCEPT !.at = "reply"]
  <2>1. /\ turns[w].at = "sent" /\ k \in Chat /\ turns[w].sid \in sessions
        /\ turns[w] \in TurnOf(made) /\ made \in Nat /\ made <= made
        /\ kept' = [kept EXCEPT ![k] = turns[w].sid] /\ dropped' = [dropped EXCEPT ![k] = FALSE]
        /\ turns' = [turns EXCEPT ![w] = t]
        /\ UNCHANGED <<answering, photos, closing, sessions, primed, busy, made>>
    BY <1>5, WorkersAre DEF TurnAnswered, SessionKept, agentCounts, AgentData
  <2>2. t \in TurnOf(made) /\ t.chat = k /\ t.at = "reply" /\ t.sid = turns[w].sid
    BY <2>1 DEF TurnOf
  <2> HIDE DEF t
  <2>3. /\ turns' \in [TurnWorker -> TurnOf(made)] /\ OneEach' /\ turns'[w] = t
        /\ \A v \in TurnWorker : v # w => turns'[v] = turns[v]
    BY <2>1, <2>2, GoesOnIs
  <2>4. turns[w].sid \in 1..made /\ turns[w].sid # NoSession /\ turns[w].sid \in 0..made
    <3>1. turns[w].sid \in 1..made BY <2>1 DEF AgentData
    <3> QED BY <2>1, <3>1 DEF NoSession
  <2>5. AgentData' BY <2>1, <2>3, <2>4 DEF AgentData
  <2>6. \A j \in Chat : IF j = k THEN kept'[j] = turns[w].sid /\ dropped'[j] = FALSE
                        ELSE kept'[j] = kept[j] /\ dropped'[j] = dropped[j]
    BY <2>1 DEF AgentData
  <2>7. \A v \in TurnWorker : v # w /\ turns[v].at = "sent" =>
          turns[v].chat \in Chat /\ turns[v].chat # k
    BY <2>1, WorkersAre
  <2>8. InSession' BY <2>1, <2>2, <2>3, <2>4, <2>6, <2>7 DEF InSession
  <2> QED BY <2>3, <2>5, <2>8 DEF AgentInv
<1>6. ASSUME NEW w \in TurnWorker, TurnRestarted(w) PROVE AgentInv'
  <2> DEFINE k == turns[w].chat
  <2>1. /\ turns[w].at = "sent" /\ k \in Chat
        /\ kept' = [kept EXCEPT ![k] = NoSession] /\ dropped' = [dropped EXCEPT ![k] = TRUE]
        /\ Opened(w) /\ Sends(w, made + 1, TRUE)
        /\ UNCHANGED <<answering, photos, closing, busy>>
    BY <1>6, WorkersAre DEF TurnRestarted
  <2>2. /\ turns' \in [TurnWorker -> TurnOf(made')] /\ OneEach'
        /\ turns'[w].at = "sent" /\ turns'[w].sid = made + 1
        /\ \A v \in TurnWorker : v # w => turns'[v] = turns[v]
        /\ \A v \in TurnWorker : turns'[v].chat = turns[v].chat
    BY <2>1, OpenedIs, SendsIs
  <2>3. AgentData' BY <2>1, <2>2, OpenedIs DEF AgentData
  <2>4. \A j \in Chat : IF j = k THEN kept'[j] = NoSession /\ dropped'[j] = TRUE
                        ELSE kept'[j] = kept[j] /\ dropped'[j] = dropped[j]
    BY <2>1 DEF AgentData
  <2>5. \A v \in TurnWorker : turns[v].at = "sent" => turns[v].chat \in Chat
    BY WorkersAre
  <2>6. InSession' BY <2>1, <2>2, <2>4, <2>5, OpenedIs DEF InSession
  <2> QED BY <2>2, <2>3, <2>6 DEF AgentInv
<1>7. ASSUME NEW w \in TurnWorker, TurnRefused(w) PROVE AgentInv'
  BY <1>7, <1>3 DEF TurnRefused, RowKept, AgentData
<1>8. ASSUME NEW w \in TurnWorker, TurnTimesOut(w) PROVE AgentInv'
  BY <1>8, <1>3 DEF TurnTimesOut, AgentData
<1>9. ASSUME NEW w \in TurnWorker, TurnReplied(w) PROVE AgentInv'
  BY <1>9, <1>3 DEF TurnReplied, AgentData, agentCounts
<1>10. CASE PhotoDeleted
  BY <1>10, <1>0 DEF PhotoDeleted, AgentData, agentCounts
<1>11. CASE SessionLost
  BY <1>11, <1>0 DEF SessionLost, AgentData
<1>12. CASE ServerTurnEnds
  <2>1. /\ UNCHANGED <<kept, answering, turns, primed, dropped, made, sessions, photos, closing>>
        /\ busy' \in SUBSET busy
    BY <1>12 DEF ServerTurnEnds, agentCounts
  <2>2. AgentData' BY <2>1 DEF AgentData
  <2>3. OneEach' BY <2>1 DEF OneEach, Working
  <2>4. InSession' BY <2>1 DEF InSession
  <2> QED BY <2>2, <2>3, <2>4 DEF AgentInv
<1>13. CASE BotRestarts
  <2>1. /\ answering' = {} /\ turns' = [w \in TurnWorker |-> AtRest] /\ closing' = NoChat
        /\ UNCHANGED <<kept, photos, sessions, primed, busy, dropped, made>>
    BY <1>13 DEF BotRestarts
  <2>2. AgentData' BY <2>1, RestIs DEF AgentData
  <2>3. OneEach' BY <2>1, RestIs DEF OneEach, Working
  <2>4. InSession' BY <2>1, RestIs DEF InSession
  <2> QED BY <2>2, <2>3, <2>4 DEF AgentInv
<1>14. CASE UNCHANGED agentVars
  BY <1>14, <1>0 DEF agentVars, AgentData
<1> QED BY <1>1, <1>2, <1>4, <1>5, <1>6, <1>7, <1>8, <1>9, <1>10, <1>11, <1>12, <1>13, <1>14
        DEF AgentNext, TurnGoesOn

\* The conversation goes on, in a step from a state of the invariant: what is remembered
\* changes to nothing, with a mark, or to the session that the answered turn was in.
LEMMA AgentStepsGoOn ==
  ASSUME AgentInv, [AgentNext]_agentVars, NEW k \in Chat, kept[k] # NoSession, kept'[k] # kept[k]
  PROVE  dropped'[k] \/ dropped[k]
<1> AgentData /\ OneEach /\ InSession BY DEF AgentInv
<1>1. ASSUME NEW w \in TurnWorker, TurnAnswered(w) PROVE dropped[k]
  <2>1. turns[w].chat = k /\ kept'[k] = turns[w].sid /\ turns[w].at = "sent"
    BY <1>1, WorkersAre DEF TurnAnswered, SessionKept, AgentData
  <2> QED BY <2>1 DEF InSession
<1>2. ASSUME NEW w \in TurnWorker, TurnRestarted(w) PROVE dropped'[k]
  BY <1>2 DEF TurnRestarted, AgentData
<1>3. ASSUME NEW j \in Chat, NEW reached \in BOOLEAN, ResetAsked(j, reached) PROVE dropped'[k]
  BY <1>3 DEF ResetAsked, AgentData
<1> QED
  BY <1>1, <1>2, <1>3 DEF AgentNext, TurnGoesOn, agentVars, PromptArrives, TurnAsks, TurnRefused,
     RowKept, TurnTimesOut, TurnReplied, PhotoDeleted, SessionLost, ServerTurnEnds, BotRestarts

LEMMA AgentSafe == AgentInit /\ [][AgentNext]_agentVars => AgentHolds
<1>1. AgentInit => AgentInv BY AgentStarts
<1>2. AgentInv /\ [AgentNext]_agentVars => AgentInv' BY AgentSteps
<1>3. AgentInv => AgentTypeOK
  BY DEF AgentInv, AgentData, AgentTypeOK, TurnOf
<1>4. AgentInv => OneTurnPerChat
  <2> SUFFICES ASSUME AgentInv PROVE OneTurnPerChat OBVIOUS
  <2>1. answering = {turns[w].chat : w \in {v \in TurnWorker : Working(v)}}
    BY DEF AgentInv, OneEach
  <2> QED BY <2>1 DEF AgentInv, OneEach, OneTurnPerChat
<1>5. AgentInv => AnsweredKnowTheRules BY DEF AgentInv, InSession, AnsweredKnowTheRules
<1>6. AgentInv /\ [AgentNext]_agentVars =>
        [\A k \in Chat : kept[k] # NoSession /\ kept'[k] # kept[k] => dropped'[k] \/ dropped[k]]_agentVars
  BY AgentStepsGoOn
<1> QED BY <1>1, <1>2, <1>3, <1>4, <1>5, <1>6, PTL DEF AgentHolds, ConversationGoesOn

\* At most one worker answers in a conversation, whoever is answered is in a session that got
\* the rules, and a conversation changes its session only after a reset or a loss.
THEOREM TurnsAreKept == AgentSpec => AgentHolds
BY AgentSafe, PTL DEF AgentSpec

-----------------------------------------------------------------------------
EnsureAt == [uuid : ReserveKey \union {NoUuid}, at : {"idle", "read", "add"}]
Answer == [age : 0 .. EnsureTtl, says : BOOLEAN]

ReserveData ==
  /\ live \in SUBSET ReserveKey /\ revoking \in SUBSET live
  /\ onPanel \in [Mails -> ReserveKey \union {NoUuid}]
  /\ ensureCache \in [ReserveKey -> Answer]
  /\ skipUntil \in 0 .. SkipTime

EnsuringIs ==
  /\ ensuring \in [ReserveThread -> EnsureAt]
  /\ \A t \in ReserveThread : ensuring[t].at = "idle" <=> ensuring[t].uuid = NoUuid

\* Who waits for the pool thread waits once, and not while it is his turn.
QueueIs ==
  /\ queue \in Seq(ReserveKey) /\ IsInjective(queue)
  /\ inflight = ToSet(queue) \union ({ensuring[PoolThread].uuid} \ {NoUuid})
  /\ ensuring[PoolThread].uuid \notin ToSet(queue)

\* While the pool thread asks, it has not been kept waiting in this window; a timeout is
\* remembered no longer than the window.
WindowIs ==
  /\ timeouts \in {0, 1} /\ (skipUntil = 0 => timeouts = 0)
  /\ ensuring[PoolThread].at # "idle" => timeouts = 0

ReserveInv == ReserveData /\ EnsuringIs /\ QueueIs /\ WindowIs

LEMMA ReserveConsts ==
  /\ \A k \in ReserveKey : MailOf[k] \in Mails /\ k # NoUuid
  /\ PoolThread \in ReserveThread /\ KitThread \in ReserveThread /\ PoolThread # KitThread
  /\ EnsureTtl \in Nat /\ EnsureTtl > 0 /\ SkipTime \in Nat /\ SkipTime > 0
  BY ReserveConstants DEF Mails, ReserveThread

LEMMA AnswersAre ==
  /\ NotCached \in Answer
  /\ \A says \in BOOLEAN : [age |-> 0, says |-> says] \in Answer
  /\ \A a \in Answer : [a EXCEPT !.age = IF @ < EnsureTtl THEN @ + 1 ELSE @] \in Answer
<1>1. NotCached \in Answer BY ReserveConsts DEF NotCached, Answer
<1>2. \A says \in BOOLEAN : [age |-> 0, says |-> says] \in Answer BY ReserveConsts DEF Answer
<1>3. ASSUME NEW a \in Answer
      PROVE  [a EXCEPT !.age = IF @ < EnsureTtl THEN @ + 1 ELSE @] \in Answer
  <2>1. a.age \in 0 .. EnsureTtl BY DEF Answer
  <2> DEFINE n == IF a.age < EnsureTtl THEN a.age + 1 ELSE a.age
  <2>2. n \in 0 .. EnsureTtl BY <2>1, ReserveConsts
  <2> HIDE DEF n
  <2>3. [a EXCEPT !.age = n] \in Answer BY <2>2 DEF Answer
  <2> QED BY <2>3 DEF n
<1> QED BY <1>1, <1>2, <1>3

LEMMA NotEnsuringIs ==
  NotEnsuring \in EnsureAt /\ NotEnsuring.at = "idle" /\ NotEnsuring.uuid = NoUuid
  BY DEF NotEnsuring, EnsureAt

\* A list without repeats loses exactly its head.
LEMMA TailOfDistinct ==
  ASSUME NEW X, NEW s \in Seq(X), s # <<>>, IsInjective(s)
  PROVE  /\ Tail(s) \in Seq(X) /\ IsInjective(Tail(s)) /\ Head(s) \in X
         /\ ToSet(Tail(s)) = ToSet(s) \ {Head(s)}
<1>1. /\ Tail(s) \in Seq(X) /\ Head(s) \in ToSet(s) /\ ToSet(Tail(s)) \subseteq ToSet(s)
      /\ ToSet(s) \ {Head(s)} \subseteq ToSet(Tail(s))
      /\ \A x, y : <<x, y>> \in Pairs(Tail(s)) => <<x, y>> \in Pairs(s)
  BY TailIs
<1>2. IsInjective(Tail(s)) BY <1>1, DistinctPairs
<1>3. ASSUME Head(s) \in ToSet(Tail(s)) PROVE FALSE
  <2>1. /\ Len(s) \in Nat /\ Len(s) >= 1 /\ DOMAIN s = 1..Len(s)
    BY ListIs, EmptySeq
  <2>2. Len(Tail(s)) = Len(s) - 1 /\ Head(s) = s[1]
        /\ \A i \in 1..Len(Tail(s)) : Tail(s)[i] = s[i + 1]
    BY HeadTailProperties
  <2>3. PICK i \in DOMAIN Tail(s) : Tail(s)[i] = Head(s)
    BY <1>1, <1>3, ListIs
  <2>4. i \in 1..(Len(s) - 1) BY <1>1, <2>2, <2>3, ListIs
  <2>5. s[i + 1] = s[1] /\ i + 1 \in DOMAIN s /\ 1 \in DOMAIN s BY <2>1, <2>2, <2>3, <2>4
  <2>6. i + 1 = 1 BY <2>5 DEF IsInjective
  <2> QED BY <2>4, <2>6
<1> QED BY <1>1, <1>2, <1>3, ListIs

LEMMA AppendDistinct ==
  ASSUME NEW X, NEW s \in Seq(X), IsInjective(s), NEW e \in X, e \notin ToSet(s)
  PROVE  Append(s, e) \in Seq(X) /\ IsInjective(Append(s, e)) /\ ToSet(Append(s, e)) = ToSet(s) \union {e}
  BY AppendIs, DistinctPairs

LEMMA ReserveStarts == ReserveInit => ReserveInv
<1> SUFFICES ASSUME ReserveInit PROVE ReserveInv OBVIOUS
<1>1. ReserveData
  <2>1. 0 \in 0 .. SkipTime BY ReserveConsts
  <2> QED BY <2>1, AnswersAre DEF ReserveInit, ReserveData
<1>2. EnsuringIs BY NotEnsuringIs DEF ReserveInit, EnsuringIs
<1>3. ensuring[PoolThread].uuid = NoUuid /\ ensuring[PoolThread].at = "idle"
  BY NotEnsuringIs, ReserveConsts DEF ReserveInit
<1>4. QueueIs
  <2>1. queue \in Seq(ReserveKey) /\ queue = <<>> BY DEF ReserveInit
  <2>2. DOMAIN queue = {} /\ ToSet(queue) = {} BY <2>1, ListIs, EmptySeq DEF ToSet
  <2> QED BY <1>3, <2>1, <2>2 DEF ReserveInit, QueueIs, IsInjective
<1>5. WindowIs BY <1>3 DEF ReserveInit, WindowIs
<1> QED BY <1>1, <1>2, <1>4, <1>5 DEF ReserveInv

\* A thread goes on to something else.
LEMMA EnsuringGoes ==
  ASSUME EnsuringIs, NEW t \in ReserveThread, NEW e \in EnsureAt,
         e.at = "idle" <=> e.uuid = NoUuid, ensuring' = [ensuring EXCEPT ![t] = e]
  PROVE  /\ EnsuringIs' /\ ensuring'[t] = e
         /\ \A u \in ReserveThread : u # t => ensuring'[u] = ensuring[u]
  BY DEF EnsuringIs

\* The end of a call: the pool thread is free for the next, and the uuid for a new call.
LEMMA EnsuredIs ==
  ASSUME EnsuringIs, QueueIs, NEW t \in ReserveThread, Ensured(t), queue' = queue
  PROVE  /\ EnsuringIs' /\ QueueIs' /\ ensuring'[t] = NotEnsuring
         /\ \A u \in ReserveThread : u # t => ensuring'[u] = ensuring[u]
<1>1. /\ EnsuringIs' /\ ensuring'[t] = NotEnsuring
      /\ \A u \in ReserveThread : u # t => ensuring'[u] = ensuring[u]
  BY EnsuringGoes, NotEnsuringIs DEF Ensured
<1>2. NoUuid \notin ToSet(queue)
  BY ReserveConsts, ListIs DEF QueueIs
<1>3. QueueIs'
  <2>1. CASE t = PoolThread
    BY <1>1, <1>2, <2>1, NotEnsuringIs DEF QueueIs, Ensured
  <2>2. CASE t # PoolThread
    <3>1. ensuring'[PoolThread] = ensuring[PoolThread] BY <1>1, <2>2, ReserveConsts
    <3> QED BY <2>2, <3>1 DEF QueueIs, Ensured
  <2> QED BY <2>1, <2>2
<1> QED BY <1>1, <1>3

LEMMA ReadsIs ==
  ASSUME NEW k \in ReserveKey
  PROVE  /\ [uuid |-> k, at |-> "read"] \in EnsureAt /\ [uuid |-> k, at |-> "read"].uuid = k
         /\ [uuid |-> k, at |-> "read"].at = "read"
  BY DEF EnsureAt

\* A call that runs is for a uuid, under a mail the panel may have.
LEMMA EnsuringWhom ==
  ASSUME EnsuringIs, NEW t \in ReserveThread, ensuring[t].at # "idle"
  PROVE  /\ ensuring[t].uuid \in ReserveKey /\ MailOf[ensuring[t].uuid] \in Mails
         /\ [ensuring[t] EXCEPT !.at = "add"] \in EnsureAt
         /\ [ensuring[t] EXCEPT !.at = "add"].at = "add"
         /\ [ensuring[t] EXCEPT !.at = "add"].uuid = ensuring[t].uuid
<1>1. ensuring[t] \in EnsureAt /\ ensuring[t].uuid # NoUuid BY DEF EnsuringIs
<1> QED BY <1>1, ReserveConsts DEF EnsureAt

LEMMA RememberedIs ==
  ASSUME ReserveData, NEW k \in ReserveKey, NEW says \in BOOLEAN, Remembered(k, says)
  PROVE  ensureCache' \in [ReserveKey -> Answer]
  BY AnswersAre DEF ReserveData, Remembered

\* The end of a call keeps the window, if it was not the pool thread's timeout.
LEMMA WindowKept ==
  ASSUME WindowIs, UNCHANGED <<skipUntil, timeouts>>,
         ensuring'[PoolThread].at # "idle" => ensuring[PoolThread].at # "idle"
  PROVE  WindowIs'
  BY DEF WindowIs

LEMMA EndKeepsWindow ==
  ASSUME WindowIs, UNCHANGED <<skipUntil, timeouts>>, NEW t \in ReserveThread,
         ensuring'[t] = NotEnsuring, \A u \in ReserveThread : u # t => ensuring'[u] = ensuring[u]
  PROVE  WindowIs'
  BY WindowKept, NotEnsuringIs, ReserveConsts

LEMMA ReserveSteps ==
  ASSUME ReserveInv, [ReserveNext]_reserveVars
  PROVE  ReserveInv'
<1> ReserveData /\ EnsuringIs /\ QueueIs /\ WindowIs BY DEF ReserveInv
<1>0. ASSUME UNCHANGED <<ensuring, queue, inflight, skipUntil, timeouts>>, ReserveData'
      PROVE  ReserveInv'
  <2>1. EnsuringIs' BY <1>0 DEF EnsuringIs
  <2>2. QueueIs' BY <1>0 DEF QueueIs
  <2>3. WindowIs' BY <1>0 DEF WindowIs
  <2> QED BY <1>0, <2>1, <2>2, <2>3 DEF ReserveInv
<1>1. ASSUME NEW k \in ReserveKey, ProfileFetched(k) PROVE ReserveInv'
  <2> USE <1>1 DEF ProfileFetched
  <2>1. k \notin ToSet(queue) /\ k # ensuring[PoolThread].uuid
    BY ReserveConsts DEF QueueIs
  <2>2. /\ queue' \in Seq(ReserveKey) /\ IsInjective(queue') /\ ToSet(queue') = ToSet(queue) \union {k}
    BY <2>1, AppendDistinct DEF QueueIs
  <2>3. ReserveData' BY DEF ReserveData
  <2>4. EnsuringIs' BY DEF EnsuringIs
  <2>5. QueueIs' BY <2>1, <2>2 DEF QueueIs
  <2>6. WindowIs' BY DEF WindowIs
  <2> QED BY <2>3, <2>4, <2>5, <2>6 DEF ReserveInv
<1>2. ASSUME NEW k \in ReserveKey, RevokeBegun(k) PROVE ReserveInv'
  <2>1. ReserveData' BY <1>2, AnswersAre DEF RevokeBegun, ReserveData
  <2> QED BY <1>0, <1>2, <2>1 DEF RevokeBegun
<1>3. ASSUME NEW k \in ReserveKey, RevokeEnds(k) PROVE ReserveInv'
  <2>1. onPanel' \in [Mails -> ReserveKey \union {NoUuid}]
    BY <1>3, ReserveConsts DEF RevokeEnds, ReserveData
  <2>2. ReserveData' BY <1>3, <2>1 DEF RevokeEnds, ReserveData
  <2> QED BY <1>0, <1>3, <2>2 DEF RevokeEnds
<1>4. ASSUME NEW k \in ReserveKey, KeyIssued(k) PROVE ReserveInv'
  <2>1. ReserveData' BY <1>4 DEF KeyIssued, ReserveData
  <2> QED BY <1>0, <1>4, <2>1 DEF KeyIssued
<1>5. ASSUME NEW t \in ReserveThread, ListRead(t) PROVE ReserveInv'
  <2> DEFINE k == ensuring[t].uuid
  <2>1. /\ k \in ReserveKey /\ ensuring[t].at = "read"
        /\ UNCHANGED <<live, onPanel, skipUntil, queue, revoking, timeouts>>
    BY <1>5, EnsuringWhom DEF ListRead
  <2>2. CASE ensuring' = [ensuring EXCEPT ![t].at = "add"] /\ UNCHANGED <<ensureCache, inflight>>
    <3>1. ensuring' = [ensuring EXCEPT ![t] = [ensuring[t] EXCEPT !.at = "add"]] BY <2>2
    <3> DEFINE e == [ensuring[t] EXCEPT !.at = "add"]
    <3>2. e \in EnsureAt /\ e.at = "add" /\ e.uuid = k /\ k # NoUuid
      BY <2>1, EnsuringWhom, ReserveConsts
    <3>3. ensuring' = [ensuring EXCEPT ![t] = e] BY <3>1
    <3> HIDE DEF e
    <3>4. /\ EnsuringIs' /\ ensuring'[t] = e
          /\ \A u \in ReserveThread : u # t => ensuring'[u] = ensuring[u]
      BY <3>2, <3>3, EnsuringGoes
    <3>5. ensuring'[PoolThread].uuid = ensuring[PoolThread].uuid
      BY <3>2, <3>4, ReserveConsts
    <3>6. ReserveData' BY <2>1, <2>2 DEF ReserveData
    <3>7. QueueIs' BY <2>1, <2>2, <3>5 DEF QueueIs
    <3>8. WindowIs'
      <4>1. ensuring'[PoolThread].at # "idle" => ensuring[PoolThread].at # "idle"
        BY <2>1, <3>4, ReserveConsts
      <4> QED BY <2>1, <4>1, WindowKept
    <3> QED BY <3>4, <3>6, <3>7, <3>8 DEF ReserveInv
  <2>3. CASE Ensured(t) /\ Remembered(k, onPanel[MailOf[k]] = k)
    <3>1. /\ EnsuringIs' /\ QueueIs' /\ ensuring'[t] = NotEnsuring
          /\ \A u \in ReserveThread : u # t => ensuring'[u] = ensuring[u]
      BY <2>1, <2>3, EnsuredIs
    <3>2. ensureCache' \in [ReserveKey -> Answer]
      BY <2>1, <2>3, RememberedIs
    <3>3. ReserveData' BY <2>1, <3>2 DEF ReserveData
    <3>4. WindowIs' BY <2>1, <3>1, EndKeepsWindow
    <3> QED BY <3>1, <3>3, <3>4 DEF ReserveInv
  <2> QED BY <1>5, <2>2, <2>3 DEF ListRead
<1>6. ASSUME NEW t \in ReserveThread, ClientAdded(t) PROVE ReserveInv'
  <2> DEFINE k == ensuring[t].uuid
  <2>1. /\ k \in ReserveKey /\ Ensured(t)
        /\ UNCHANGED <<live, skipUntil, queue, revoking, timeouts>>
    BY <1>6, EnsuringWhom DEF ClientAdded
  <2>2. /\ EnsuringIs' /\ QueueIs' /\ ensuring'[t] = NotEnsuring
        /\ \A u \in ReserveThread : u # t => ensuring'[u] = ensuring[u]
    BY <2>1, EnsuredIs
  <2>3. \/ onPanel' = [onPanel EXCEPT ![MailOf[k]] = k] /\ Remembered(k, TRUE)
        \/ UNCHANGED <<onPanel, ensureCache>>
    BY <1>6 DEF ClientAdded
  <2>4. onPanel' \in [Mails -> ReserveKey \union {NoUuid}] BY <2>1, <2>3 DEF ReserveData
  <2>5. ensureCache' \in [ReserveKey -> Answer]
    BY <2>1, <2>3, RememberedIs DEF ReserveData
  <2>6. ReserveData' BY <2>1, <2>4, <2>5 DEF ReserveData
  <2>7. WindowIs' BY <2>1, <2>2, EndKeepsWindow
  <2> QED BY <2>2, <2>6, <2>7 DEF ReserveInv
<1>7. ASSUME NEW t \in ReserveThread, NEW k \in ReserveKey, EnsureTaken(t, k) PROVE ReserveInv'
  <2>1. /\ ensuring[t] = NotEnsuring
        /\ UNCHANGED <<live, onPanel, ensureCache, skipUntil, revoking, timeouts>>
    BY <1>7 DEF EnsureTaken
  <2>2. ReserveData' BY <2>1 DEF ReserveData
  <2> DEFINE e == [uuid |-> k, at |-> "read"]
  <2>3. e \in EnsureAt /\ e.uuid = k /\ e.at = "read" /\ k # NoUuid BY ReadsIs, ReserveConsts
  <2>4. (Asks(k) /\ ensuring' = [ensuring EXCEPT ![t] = e] /\ UNCHANGED inflight)
         \/ (~Asks(k) /\ UNCHANGED ensuring /\ inflight' = inflight \ {k})
    BY <1>7 DEF EnsureTaken
  <2> HIDE DEF e
  <2>5. Asks(k) => timeouts = 0 BY DEF Asks, WindowIs
  <2>6. CASE t = PoolThread
    <3>1. /\ queue # <<>> /\ k = Head(queue) /\ queue' = Tail(queue)
          /\ ensuring[PoolThread].uuid = NoUuid /\ ensuring[PoolThread].at = "idle"
      BY <1>7, <2>1, <2>6, NotEnsuringIs DEF EnsureTaken
    <3>2. /\ queue' \in Seq(ReserveKey) /\ IsInjective(queue') /\ ToSet(queue') = ToSet(queue) \ {k}
      BY <3>1, TailOfDistinct DEF QueueIs
    <3>3. k \in ToSet(queue) BY <3>1, TailIs DEF QueueIs
    <3>4. inflight = ToSet(queue) BY <3>1 DEF QueueIs
    <3>5. CASE Asks(k) /\ ensuring' = [ensuring EXCEPT ![t] = e] /\ UNCHANGED inflight
      <4>1. EnsuringIs' /\ ensuring'[PoolThread] = e
        BY <2>3, <2>6, <3>5, EnsuringGoes
      <4>2. QueueIs' BY <2>3, <3>2, <3>3, <3>4, <3>5, <4>1 DEF QueueIs
      <4>3. WindowIs' BY <2>1, <2>5, <3>5 DEF WindowIs
      <4> QED BY <2>2, <4>1, <4>2, <4>3 DEF ReserveInv
    <3>6. CASE UNCHANGED ensuring /\ inflight' = inflight \ {k}
      <4>1. EnsuringIs' BY <3>6 DEF EnsuringIs
      <4>2. QueueIs' BY <3>1, <3>2, <3>4, <3>6 DEF QueueIs
      <4>3. WindowIs' BY <2>1, <3>6 DEF WindowIs
      <4> QED BY <2>2, <4>1, <4>2, <4>3 DEF ReserveInv
    <3> QED BY <2>4, <3>5, <3>6
  <2>7. CASE t # PoolThread
    <3>1. /\ Asks(k) /\ UNCHANGED queue /\ ensuring' = [ensuring EXCEPT ![t] = e] /\ UNCHANGED inflight
      BY <1>7, <2>4, <2>7 DEF EnsureTaken
    <3>2. EnsuringIs' /\ ensuring'[PoolThread] = ensuring[PoolThread]
      BY <2>3, <2>7, <3>1, EnsuringGoes, ReserveConsts
    <3>3. QueueIs' BY <3>1, <3>2 DEF QueueIs
    <3>4. WindowIs' BY <2>1, <3>2, WindowKept
    <3> QED BY <2>2, <3>2, <3>3, <3>4 DEF ReserveInv
  <2> QED BY <2>6, <2>7
<1>8. ASSUME NEW t \in ReserveThread, EnsureFailed(t) PROVE ReserveInv'
  <2> DEFINE k == ensuring[t].uuid
  <2>1. /\ k \in ReserveKey /\ ensuring[t].at # "idle" /\ Ensured(t)
        /\ UNCHANGED <<live, ensureCache, queue, revoking>>
        /\ Silence(t) \/ UNCHANGED <<skipUntil, timeouts>>
    BY <1>8, EnsuringWhom DEF EnsureFailed
  <2>2. /\ EnsuringIs' /\ QueueIs' /\ ensuring'[t] = NotEnsuring
        /\ \A u \in ReserveThread : u # t => ensuring'[u] = ensuring[u]
    BY <2>1, EnsuredIs
  <2>3. onPanel' \in [Mails -> ReserveKey \union {NoUuid}]
    BY <1>8, <2>1 DEF EnsureFailed, ReserveData
  <2>4. skipUntil' \in 0 .. SkipTime
    BY <2>1, ReserveConsts DEF Silence, ReserveData
  <2>5. ReserveData' BY <2>1, <2>3, <2>4 DEF ReserveData
  <2>6. WindowIs'
    <3>1. CASE Silence(t)
      <4>1. skipUntil' # 0 BY <3>1, ReserveConsts DEF Silence
      <4>2. CASE t = PoolThread
        <5>1. timeouts = 0 /\ timeouts' = 1 BY <2>1, <3>1, <4>2 DEF Silence, WindowIs
        <5>2. ensuring'[PoolThread].at = "idle" BY <2>2, <4>2, NotEnsuringIs
        <5> QED BY <4>1, <5>1, <5>2 DEF WindowIs
      <4>3. CASE t # PoolThread
        <5>1. timeouts' = timeouts BY <3>1, <4>3 DEF Silence
        <5>2. ensuring'[PoolThread] = ensuring[PoolThread] BY <2>2, <4>3, ReserveConsts
        <5> QED BY <4>1, <5>1, <5>2 DEF WindowIs
      <4> QED BY <4>2, <4>3
    <3>2. CASE UNCHANGED <<skipUntil, timeouts>>
      BY <2>2, <3>2, EndKeepsWindow
    <3> QED BY <2>1, <3>1, <3>2
  <2> QED BY <2>2, <2>5, <2>6 DEF ReserveInv
<1>9. CASE ReserveTick
  <2>1. UNCHANGED <<live, onPanel, inflight, queue, ensuring, revoking>>
    BY <1>9 DEF ReserveTick
  <2>2. skipUntil \in 0 .. SkipTime /\ SkipTime \in Nat BY ReserveConsts DEF ReserveData
  <2>3. skipUntil' \in 0 .. SkipTime BY <1>9, <2>2 DEF ReserveTick
  <2>4. ensureCache' \in [ReserveKey -> Answer]
    BY <1>9, AnswersAre DEF ReserveTick, ReserveData
  <2>5. ReserveData' BY <2>1, <2>3, <2>4 DEF ReserveData
  <2>6. EnsuringIs' BY <2>1 DEF EnsuringIs
  <2>7. QueueIs' BY <2>1 DEF QueueIs
  <2>8. timeouts' = IF skipUntil > 1 THEN timeouts ELSE 0 BY <1>9 DEF ReserveTick
  <2>9. skipUntil' = 0 => timeouts' = 0
    BY <1>9, <2>2, <2>8 DEF ReserveTick
  <2>10. WindowIs' BY <2>1, <2>8, <2>9 DEF WindowIs
  <2> QED BY <2>5, <2>6, <2>7, <2>10 DEF ReserveInv
<1>10. CASE UNCHANGED reserveVars
  <2>1. ReserveData' BY <1>10 DEF reserveVars, ReserveData
  <2> QED BY <1>0, <1>10, <2>1 DEF reserveVars
<1> QED BY <1>1, <1>2, <1>3, <1>4, <1>5, <1>6, <1>7, <1>8, <1>9, <1>10
        DEF ReserveNext, EnsureMoves

\* Only an e-mail that nobody holds is given away, only the holder's own removal frees it.
LEMMA HolderKept ==
  ASSUME ReserveInv, [ReserveNext]_reserveVars, NEW m \in Mails, onPanel[m] # NoUuid
  PROVE  onPanel'[m] \in {onPanel[m], NoUuid}
<1> ReserveData BY DEF ReserveInv
<1>1. ASSUME NEW k \in ReserveKey, RevokeEnds(k) PROVE onPanel'[m] \in {onPanel[m], NoUuid}
  BY <1>1 DEF RevokeEnds, ReserveData
<1>2. ASSUME NEW t \in ReserveThread, ClientAdded(t) PROVE onPanel'[m] = onPanel[m]
  BY <1>2 DEF ClientAdded, ReserveData
<1>3. ASSUME NEW t \in ReserveThread, EnsureFailed(t) PROVE onPanel'[m] = onPanel[m]
  BY <1>3 DEF EnsureFailed, ReserveData
<1> QED
  BY <1>1, <1>2, <1>3 DEF ReserveNext, EnsureMoves, reserveVars, ProfileFetched, RevokeBegun,
     KeyIssued, ListRead, EnsureTaken, ReserveTick

LEMMA ReserveSafe == ReserveInit /\ [][ReserveNext]_reserveVars => ReserveHolds
<1>1. ReserveInit => ReserveInv BY ReserveStarts
<1>2. ReserveInv /\ [ReserveNext]_reserveVars => ReserveInv' BY ReserveSteps
<1>3. ReserveInv => ReserveTypeOK
  BY DEF ReserveInv, ReserveData, EnsuringIs, QueueIs, ReserveTypeOK, Answer, EnsureAt, IsInjective
<1>4. ReserveInv => OneTimeoutPerWindow BY DEF ReserveInv, WindowIs, OneTimeoutPerWindow
<1>5. ReserveInv /\ [ReserveNext]_reserveVars =>
        [\A m \in Mails : onPanel[m] # NoUuid => onPanel'[m] \in {onPanel[m], NoUuid}]_reserveVars
  BY HolderKept
<1> QED BY <1>1, <1>2, <1>3, <1>4, <1>5, PTL DEF ReserveHolds, HolderStays

\* However fetches, kits, revocations and new keys come in each other's way: an address on the
\* reserve panel stays with its key until it is taken off, nobody waits twice, and a dead
\* panel costs the pool one timeout a window.
THEOREM TheReserveStays == ReserveSpec => ReserveHolds
BY ReserveSafe, PTL DEF ReserveSpec

-----------------------------------------------------------------------------
CallAt == {"idle", "read", "write", "reset", "attached?", "add", "replace", "add_again", "delete"}
PanelCall == [op : Op \union {"none"}, set : Quotas, body : Body, sound : BOOLEAN, at : CallAt]

PanelData ==
  /\ client \in ClientRecord /\ call \in [PanelThread -> PanelCall]
  /\ panelWrites \in [PanelThread -> BOOLEAN]

PanelCounts == panelFaults \in 0..MaxPanelFaults

\* What a call found out stays so until somebody changes the record: what it is about to
\* write back, or that the client is on no inbound.
FoundOut(t) ==
  /\ call[t].at = "write" /\ call[t].sound /\ ~panelWrites[t] =>
       call[t].body.flow = client.flow /\ call[t].body.password = client.password
  /\ call[t].op = "revive" /\ call[t].at = "add" /\ ~panelWrites[t] => ~client.on
  /\ call[t].op = "revive" /\ call[t].at = "replace" => panelWrites[t]

PanelInv == PanelData /\ PanelCounts /\ FlowKept /\ \A t \in PanelThread : FoundOut(t)

LEMMA QuotasAre == 0 \in Quotas /\ PanelQuota \subseteq Quotas
  BY DEF Quotas

LEMMA ClientHas ==
  ASSUME NEW c \in ClientRecord
  PROVE  /\ c.on \in BOOLEAN /\ c.flow \in BOOLEAN /\ c.password \in BOOLEAN
         /\ c.quota \in Quotas /\ c.row \in Quotas /\ c.used \in BOOLEAN
         /\ \A u \in BOOLEAN : LET n == [c EXCEPT !.used = u]
              IN n \in ClientRecord /\ n.on = c.on /\ n.flow = c.flow /\ n.password = c.password
  BY DEF ClientRecord

LEMMA CallHas ==
  ASSUME NEW c \in PanelCall
  PROVE  /\ c.op \in Op \union {"none"} /\ c.set \in Quotas /\ c.body \in Body
         /\ c.sound \in BOOLEAN /\ c.at \in CallAt
         /\ \A pos \in CallAt : LET n == [c EXCEPT !.at = pos]
              IN n \in PanelCall /\ n.at = pos /\ n.op = c.op
  BY DEF PanelCall

LEMMA NoCallIs ==
  /\ NoBody \in Body /\ NoCall \in PanelCall /\ NoCall.at = "idle" /\ NoCall.op = "none"
<1>1. NoBody \in Body BY QuotasAre DEF NoBody, Body
<1> QED BY <1>1, QuotasAre DEF NoCall, PanelCall, CallAt

LEMMA BodyHas ==
  ASSUME NEW b \in Body
  PROVE  /\ b.flow \in BOOLEAN /\ b.password \in BOOLEAN /\ b.quota \in Quotas
         /\ \A q \in Quotas : LET n == [b EXCEPT !.quota = q]
              IN n \in Body /\ n.flow = b.flow /\ n.password = b.password
  BY DEF Body

LEMMA RewrittenIs ==
  ASSUME client \in ClientRecord, NEW b \in Body
  PROVE  LET c == Rewritten(b)
         IN /\ c \in ClientRecord /\ c.flow = b.flow /\ c.password = b.password
            /\ c.on = client.on /\ c.used = client.used
<1>1. b.flow \in BOOLEAN /\ b.password \in BOOLEAN /\ b.quota \in Quotas BY BodyHas
<1>2. client.on \in BOOLEAN /\ client.used \in BOOLEAN BY ClientHas
<1> QED BY <1>1, <1>2 DEF Rewritten, ClientRecord

LEMMA PanelStarts == PanelInit => PanelInv
<1> SUFFICES ASSUME PanelInit PROVE PanelInv OBVIOUS
<1>1. PICK q \in PanelQuota, lag \in BOOLEAN, u \in BOOLEAN :
        client = [on |-> TRUE, flow |-> TRUE, password |-> TRUE,
                  quota |-> IF lag THEN 0 ELSE q, row |-> q, used |-> u]
  BY DEF PanelInit
<1>2. client \in ClientRecord /\ client.on = TRUE /\ client.flow = TRUE
  BY <1>1, QuotasAre DEF ClientRecord
<1>3. \A t \in PanelThread : call[t] = NoCall BY DEF PanelInit
<1>4. PanelData BY <1>2, NoCallIs DEF PanelInit, PanelData
<1>5. PanelCounts BY PanelConstants DEF PanelInit, PanelCounts
<1>6. \A t \in PanelThread : FoundOut(t) BY <1>3, NoCallIs DEF FoundOut
<1> QED BY <1>2, <1>4, <1>5, <1>6 DEF PanelInv, FlowKept

LEMMA FailsCount == PanelCounts /\ (MayFail \/ Works) => PanelCounts'
  BY PanelConstants DEF PanelCounts, MayFail, Works

\* A call goes on while the record stays as it is.
LEMMA CallMoves ==
  ASSUME PanelInv, NEW t \in PanelThread, NEW c \in PanelCall,
         call' = [call EXCEPT ![t] = c], client' = client, PanelCounts',
         panelWrites' \in [PanelThread -> BOOLEAN],
         \A u \in PanelThread : u # t => panelWrites'[u] = panelWrites[u],
         FoundOut(t)'
  PROVE  PanelInv'
<1>1. /\ call' \in [PanelThread -> PanelCall] /\ call'[t] = c
      /\ \A u \in PanelThread : u # t => call'[u] = call[u]
  BY DEF PanelInv, PanelData
<1>2. PanelData' BY <1>1 DEF PanelInv, PanelData
<1>3. \A u \in PanelThread : FoundOut(u)' BY <1>1 DEF PanelInv, FoundOut
<1>4. FlowKept' BY DEF PanelInv, FlowKept
<1> QED BY <1>2, <1>3, <1>4 DEF PanelInv

\* The record is changed, so that whatever was read of it is old; whoever revives asks again
\* before he gets anywhere near a replacement.
LEMMA RecordMoves ==
  ASSUME PanelInv, NEW c \in ClientRecord, Changes(c), c.on => c.flow, PanelCounts',
         call' \in [PanelThread -> PanelCall]
  PROVE  PanelInv'
<1>1. client' = c /\ panelWrites' = [t \in PanelThread |-> TRUE] BY DEF Changes
<1>2. PanelData' BY <1>1 DEF PanelInv, PanelData
<1>3. \A u \in PanelThread : FoundOut(u)' BY <1>1 DEF FoundOut
<1>4. FlowKept' BY <1>1 DEF FlowKept
<1> QED BY <1>2, <1>3, <1>4 DEF PanelInv

LEMMA CallEnds ==
  ASSUME PanelInv, NEW t \in PanelThread, EndCall(t)
  PROVE  /\ call' = [call EXCEPT ![t] = NoCall] /\ NoCall \in PanelCall /\ call'[t] = NoCall
         /\ call' \in [PanelThread -> PanelCall]
  BY NoCallIs DEF PanelInv, PanelData, EndCall

LEMMA CallGoesIs ==
  ASSUME PanelInv, NEW t \in PanelThread, NEW pos \in CallAt, CallGoes(t, pos)
  PROVE  \E c \in PanelCall : /\ call' = [call EXCEPT ![t] = c] /\ c.at = pos /\ c.op = call[t].op
                              /\ call'[t] = c /\ call' \in [PanelThread -> PanelCall]
<1> DEFINE c == [call[t] EXCEPT !.at = pos]
<1>1. call[t] \in PanelCall BY DEF PanelInv, PanelData
<1>2. c \in PanelCall /\ c.at = pos /\ c.op = call[t].op BY <1>1, CallHas
<1>3. call' = [call EXCEPT ![t] = c] BY DEF CallGoes
<1> HIDE DEF c
<1> QED BY <1>2, <1>3 DEF PanelInv, PanelData

\* What a thread found out is no matter for it once its call is over, or is elsewhere.
LEMMA NothingFound ==
  ASSUME NEW t \in PanelThread, call'[t].at \notin {"write", "add", "replace"}
  PROVE  FoundOut(t)'
  BY DEF FoundOut

LEMMA MovesOn ==
  ASSUME PanelInv, NEW t \in PanelThread, NEW pos \in CallAt,
         EndCall(t) \/ CallGoes(t, pos),
         pos \in {"write", "add", "replace"} => EndCall(t),
         client' = client, PanelCounts', panelWrites' \in [PanelThread -> BOOLEAN],
         \A u \in PanelThread : u # t => panelWrites'[u] = panelWrites[u]
  PROVE  PanelInv'
<1>1. CASE EndCall(t)
  BY <1>1, CallEnds, CallMoves, NothingFound, NoCallIs
<1>2. CASE CallGoes(t, pos) /\ ~EndCall(t)
  BY <1>2, CallGoesIs, CallMoves, NothingFound
<1> QED BY <1>1, <1>2

\* What a read returns, of an inbound or of both.
LEMMA MergedIs ==
  ASSUME PanelInv, NEW t \in PanelThread, NEW reality \in BOOLEAN, NEW ss \in BOOLEAN,
         NEW acc \in BOOLEAN, NEW body,
         body = With(t, IF call[t].op = "comment" THEN Merged(reality, ss)
                        ELSE Recovered(Merged(reality, ss), acc))
  PROVE  /\ body \in Body /\ body.flow = reality
         /\ ss => body.password = client.password
<1>1. client \in ClientRecord /\ call[t].set \in Quotas
  BY CallHas DEF PanelInv, PanelData
<1> DEFINE m == Merged(reality, ss)
<1>2. /\ m \in Body /\ m.flow = reality /\ m.password = (client.password /\ ss)
  BY <1>1, ClientHas DEF Merged, Body
<1> HIDE DEF m
<1> DEFINE r == Recovered(m, acc)
<1>3. r \in Body /\ r.flow = reality /\ r.password = (client.password /\ ss)
  <2> DEFINE n == [m EXCEPT !.quota = client.row]
  <2>1. n \in Body /\ n.flow = m.flow /\ n.password = m.password
    BY <1>1, <1>2, ClientHas, BodyHas
  <2>2. r = n \/ r = m
    BY DEF Recovered
  <2> HIDE DEF n, r
  <2> QED BY <1>2, <2>1, <2>2
<1> HIDE DEF r
<1> DEFINE b == IF call[t].op = "comment" THEN m ELSE r
<1>4. b \in Body /\ b.flow = reality /\ b.password = (client.password /\ ss)
  BY <1>2, <1>3
<1>5. body = With(t, b) BY DEF m, r
<1> HIDE DEF b
<1>6. /\ body \in Body /\ body.flow = reality /\ body.password = (client.password /\ ss)
  <2> DEFINE n == [b EXCEPT !.quota = call[t].set]
  <2>1. n \in Body /\ n.flow = b.flow /\ n.password = b.password
    BY <1>1, <1>4, BodyHas
  <2>2. body = n \/ body = b
    BY <1>5 DEF With
  <2> HIDE DEF n
  <2> QED BY <1>4, <2>1, <2>2
<1>7. client.password \in BOOLEAN BY <1>1, ClientHas
<1> QED BY <1>6, <1>7

LEMMA PanelSteps ==
  ASSUME PanelInv, [PanelNext]_panelVars
  PROVE  PanelInv'
<1> PanelData /\ PanelCounts /\ FlowKept BY DEF PanelInv
<1>0. /\ panelWrites \in [PanelThread -> BOOLEAN] /\ client \in ClientRecord
      /\ \A t \in PanelThread : call[t] \in PanelCall /\ FoundOut(t)
  BY DEF PanelInv, PanelData
<1>1. CASE TrafficCounted
  <2>1. client' = [client EXCEPT !.used = TRUE] /\ UNCHANGED <<call, panelWrites, panelFaults>>
    BY <1>1 DEF TrafficCounted
  <2>2. client' \in ClientRecord /\ client'.on = client.on /\ client'.flow = client.flow
        /\ client'.password = client.password
    BY <1>0, <2>1, ClientHas
  <2>3. PanelData' BY <2>1, <2>2 DEF PanelData
  <2>4. PanelCounts' BY <2>1 DEF PanelCounts
  <2>5. FlowKept' BY <2>2 DEF FlowKept
  <2>6. \A t \in PanelThread : FoundOut(t)' BY <1>0, <2>1, <2>2 DEF FoundOut
  <2> QED BY <2>3, <2>4, <2>5, <2>6 DEF PanelInv
<1>2. CASE Detached
  <2> DEFINE c == [on |-> FALSE, flow |-> FALSE, password |-> FALSE, quota |-> client.quota,
                   row |-> client.row, used |-> client.used]
  <2>0. client.quota \in Quotas /\ client.row \in Quotas /\ client.used \in BOOLEAN
    BY <1>0, ClientHas
  <2>1. c \in ClientRecord /\ c.on = FALSE
    BY <2>0 DEF ClientRecord
  <2>2. Changes(c) /\ UNCHANGED <<call, panelFaults>> BY <1>2 DEF Detached
  <2> HIDE DEF c
  <2>3. PanelCounts' /\ call' \in [PanelThread -> PanelCall]
    BY <2>2 DEF PanelCounts, PanelData
  <2> QED BY <2>1, <2>2, <2>3, RecordMoves
<1>3. ASSUME NEW t \in PanelThread, NEW op \in Op \ {"revive"}, NEW q \in PanelQuota,
             CallStarts(t, op, q)
      PROVE  PanelInv'
  <2> DEFINE c == [op |-> op, at |-> FirstOf(op), set |-> q, body |-> NoBody, sound |-> FALSE]
  <2>1. FirstOf(op) \in CallAt BY DEF FirstOf, CallAt
  <2>2. FALSE \in BOOLEAN /\ q \in Quotas /\ NoBody \in Body /\ op \in Op \union {"none"}
    BY QuotasAre, NoCallIs
  <2>3. c \in PanelCall /\ c.op = op /\ c.sound = FALSE
    BY <2>1, <2>2 DEF PanelCall
  <2>4. call' = [call EXCEPT ![t] = c] /\ UNCHANGED <<client, panelWrites, panelFaults>>
    BY <1>3 DEF CallStarts
  <2> HIDE DEF c
  <2>5. call'[t] = c BY <2>4 DEF PanelData
  <2>6. FoundOut(t)' BY <2>3, <2>5 DEF FoundOut
  <2>7. PanelCounts' BY <2>4 DEF PanelCounts
  <2> QED BY <1>0, <2>3, <2>4, <2>6, <2>7, CallMoves
<1>4. ASSUME NEW t \in PanelThread, ReadClient(t) PROVE PanelInv'
  <2>1. PICK reality \in BOOLEAN, ss \in BOOLEAN, acc \in BOOLEAN :
          LET body == With(t, IF call[t].op = "comment" THEN Merged(reality, ss)
                              ELSE Recovered(Merged(reality, ss), acc))
          IN /\ IF reality /\ ss /\ acc THEN Works ELSE MayFail
             /\ IF client.on /\ (reality \/ ss)
                THEN call' = [call EXCEPT ![t] = [op |-> call[t].op, at |-> "write",
                       set |-> call[t].set, body |-> body, sound |-> reality /\ ss]]
                ELSE IF call[t].op = "renew" THEN CallGoes(t, "attached?")
                ELSE EndCall(t)
    BY <1>4 DEF ReadClient
  <2>2. client' = client /\ panelWrites' = [panelWrites EXCEPT ![t] = FALSE]
    BY <1>4 DEF ReadClient
  <2>3. /\ panelWrites' \in [PanelThread -> BOOLEAN]
        /\ \A u \in PanelThread : u # t => panelWrites'[u] = panelWrites[u]
    BY <1>0, <2>2
  <2>4. PanelCounts' BY <2>1, FailsCount
  <2>5. CASE client.on /\ (reality \/ ss)
    <3> DEFINE body == With(t, IF call[t].op = "comment" THEN Merged(reality, ss)
                               ELSE Recovered(Merged(reality, ss), acc))
    <3>1. body \in Body /\ body.flow = reality /\ (ss => body.password = client.password)
      BY MergedIs
    <3>2. call' = [call EXCEPT ![t] = [op |-> call[t].op, at |-> "write",
                     set |-> call[t].set, body |-> body, sound |-> reality /\ ss]]
      BY <2>1, <2>5
    <3> HIDE DEF body
    <3> DEFINE c == [op |-> call[t].op, at |-> "write", set |-> call[t].set, body |-> body,
                     sound |-> reality /\ ss]
    <3>3. "write" \in CallAt /\ (reality /\ ss) \in BOOLEAN BY DEF CallAt
    <3>0. call[t].op \in Op \union {"none"} /\ call[t].set \in Quotas BY <1>0, CallHas
    <3>4. c \in PanelCall /\ c.at = "write" /\ c.body = body /\ c.sound = (reality /\ ss)
      BY <3>0, <3>1, <3>3 DEF PanelCall
    <3>5. call' = [call EXCEPT ![t] = c] BY <3>2
    <3> HIDE DEF c
    <3>6. call'[t] = c BY <3>5 DEF PanelData
    <3>7. client.flow = TRUE BY <1>0, <2>5, ClientHas DEF FlowKept
    <3>8. FoundOut(t)' BY <2>2, <3>1, <3>4, <3>6, <3>7 DEF FoundOut
    <3> QED BY <2>2, <2>3, <2>4, <3>4, <3>5, <3>8, CallMoves
  <2>6. CASE ~(client.on /\ (reality \/ ss))
    <3>1. CallGoes(t, "attached?") \/ EndCall(t) BY <2>1, <2>6
    <3>2. "attached?" \in CallAt BY DEF CallAt
    <3> QED BY <2>2, <2>3, <2>4, <3>1, <3>2, MovesOn
  <2> QED BY <2>5, <2>6
<1>5. ASSUME NEW t \in PanelThread, UpdateClient(t) PROVE PanelInv'
  <2> DEFINE body == call[t].body
  <2>1. PICK pos \in {"reset", "attached?"} : EndCall(t) \/ CallGoes(t, pos)
    BY <1>5 DEF UpdateClient
  <2>2. pos \in CallAt /\ pos \notin {"write", "add", "replace"} BY DEF CallAt
  <2>3. PanelCounts' BY <1>5, FailsCount DEF UpdateClient
  <2>4. CASE UNCHANGED <<client, panelWrites>>
    BY <1>0, <2>1, <2>2, <2>3, <2>4, MovesOn
  <2>5. CASE Accepted(body) /\ Changes(Rewritten(body))
    <3>1. call' \in [PanelThread -> PanelCall] BY <2>1, <2>2, CallEnds, CallGoesIs
    <3>2. body \in Body BY <1>0, CallHas
    <3>3. Rewritten(body) \in ClientRecord /\ Rewritten(body).flow = body.flow
      BY <1>0, <3>2, RewrittenIs
    <3>4. body.flow BY <2>5 DEF Accepted
    <3> QED BY <2>3, <2>5, <3>1, <3>3, <3>4, RecordMoves
  <2> QED BY <1>5, <2>4, <2>5 DEF UpdateClient
<1>6. ASSUME NEW t \in PanelThread, ResetTraffic(t) PROVE PanelInv'
  <2>1. EndCall(t) /\ "idle" \in CallAt BY <1>6 DEF ResetTraffic, CallAt
  <2>2. PanelCounts' BY <1>6, FailsCount DEF ResetTraffic
  <2>3. CASE UNCHANGED <<client, panelWrites>>
    BY <1>0, <2>1, <2>2, <2>3, MovesOn
  <2>4. CASE Changes([client EXCEPT !.used = FALSE])
    <3> DEFINE c == [client EXCEPT !.used = FALSE]
    <3>1. c \in ClientRecord /\ c.on = client.on /\ c.flow = client.flow BY <1>0, ClientHas
    <3>2. Changes(c) BY <2>4
    <3> HIDE DEF c
    <3>3. c.on => c.flow BY <3>1 DEF FlowKept
    <3> QED BY <2>1, <2>2, <3>1, <3>2, <3>3, CallEnds, RecordMoves
  <2> QED BY <1>6, <2>3, <2>4 DEF ResetTraffic
<1>7. ASSUME NEW t \in PanelThread, AskAttached(t) PROVE PanelInv'
  <2>1. PICK known \in BOOLEAN :
          /\ IF known THEN Works ELSE MayFail
          /\ IF Attached(known) THEN EndCall(t)
             ELSE call' = [call EXCEPT ![t] = [op |-> "revive", at |-> "add", set |-> call[t].set,
                    body |-> call[t].body, sound |-> call[t].sound]]
    BY <1>7 DEF AskAttached
  <2>2. client' = client /\ panelWrites' = [panelWrites EXCEPT ![t] = FALSE]
    BY <1>7 DEF AskAttached
  <2>3. /\ panelWrites' \in [PanelThread -> BOOLEAN] /\ panelWrites'[t] = FALSE
        /\ \A u \in PanelThread : u # t => panelWrites'[u] = panelWrites[u]
    BY <1>0, <2>2
  <2>4. PanelCounts' BY <2>1, FailsCount
  <2>5. CASE Attached(known)
    <3>1. EndCall(t) /\ "idle" \in CallAt BY <2>1, <2>5 DEF CallAt
    <3> QED BY <2>2, <2>3, <2>4, <3>1, MovesOn
  <2>6. CASE ~Attached(known)
    <3> DEFINE c == [op |-> "revive", at |-> "add", set |-> call[t].set, body |-> call[t].body,
                     sound |-> call[t].sound]
    <3>1. "add" \in CallAt /\ "revive" \in Op \union {"none"} BY DEF CallAt, Op
    <3>0. call[t].set \in Quotas /\ call[t].body \in Body /\ call[t].sound \in BOOLEAN
      BY <1>0, CallHas
    <3>2. c \in PanelCall /\ c.at = "add" /\ c.op = "revive"
      BY <1>0, <3>0, <3>1 DEF PanelCall
    <3>3. call' = [call EXCEPT ![t] = c] BY <2>1, <2>6
    <3> HIDE DEF c
    <3>4. call'[t] = c BY <3>3 DEF PanelData
    <3>5. ~client.on BY <2>6 DEF Attached
    <3>6. FoundOut(t)' BY <2>2, <3>2, <3>4, <3>5 DEF FoundOut
    <3> QED BY <2>2, <2>3, <2>4, <3>2, <3>3, <3>6, CallMoves
  <2> QED BY <2>5, <2>6
<1>8. ASSUME NEW t \in PanelThread, AddClient(t) PROVE PanelInv'
  <2>1. "idle" \in CallAt /\ "replace" \in CallAt BY DEF CallAt
  <2>2. PanelCounts' BY <1>8, FailsCount DEF AddClient
  <2>3. CASE EndCall(t) /\ UNCHANGED <<client, panelWrites>>
    BY <1>0, <2>1, <2>2, <2>3, MovesOn
  <2>4. CASE EndCall(t) /\ Changes(Added(t))
    <3>1. call[t].set \in Quotas BY <1>0, CallHas
    <3>2. (IF client.row = 0 THEN call[t].set ELSE client.row) \in Quotas
      BY <1>0, <3>1, ClientHas
    <3>3. client.used \in BOOLEAN BY <1>0, ClientHas
    <3>4. Added(t) \in ClientRecord /\ Added(t).flow = TRUE
      BY <3>1, <3>2, <3>3 DEF Added, ClientRecord
    <3> QED BY <2>2, <2>4, <3>4, CallEnds, RecordMoves
  <2>5. CASE /\ client.on /\ UNCHANGED <<client, panelWrites>> /\ call[t].at = "add"
             /\ CallGoes(t, "replace")
    <3>1. PICK c \in PanelCall : /\ call' = [call EXCEPT ![t] = c] /\ c.at = "replace"
                                 /\ c.op = call[t].op /\ call'[t] = c
      BY <2>1, <2>5, CallGoesIs
    <3>2. c.op = "revive" => panelWrites[t]
      BY <1>0, <2>5, <3>1 DEF FoundOut
    <3>3. FoundOut(t)' BY <2>5, <3>1, <3>2 DEF FoundOut
    <3> QED BY <1>0, <2>2, <2>5, <3>1, <3>3, CallMoves
  <2> QED BY <1>8, <2>3, <2>4, <2>5 DEF AddClient
<1>9. ASSUME NEW t \in PanelThread, DeleteClient(t) PROVE PanelInv'
  <2>1. "add_again" \in CallAt BY DEF CallAt
  <2>2. PanelCounts' BY <1>9, FailsCount DEF DeleteClient
  <2>3. CallGoes(t, "add_again") \/ EndCall(t) BY <1>9 DEF DeleteClient
  <2>4. call' \in [PanelThread -> PanelCall] BY <2>1, <2>3, CallEnds, CallGoesIs
  <2>5. CASE UNCHANGED <<client, panelWrites>>
    BY <1>0, <2>1, <2>2, <2>3, <2>5, MovesOn
  <2>6. CASE Changes(Deleted)
    <3>1. Deleted \in ClientRecord /\ Deleted.on = FALSE
      BY QuotasAre DEF Deleted, ClientRecord
    <3> QED BY <2>2, <2>4, <2>6, <3>1, RecordMoves
  <2> QED BY <1>9, <2>5, <2>6 DEF DeleteClient
<1>10. CASE UNCHANGED panelVars
  <2>1. PanelData' BY <1>10 DEF panelVars, PanelData
  <2>2. PanelCounts' BY <1>10 DEF panelVars, PanelCounts
  <2>3. FlowKept' BY <1>10 DEF panelVars, FlowKept
  <2>4. \A t \in PanelThread : FoundOut(t)' BY <1>0, <1>10 DEF panelVars, FoundOut
  <2> QED BY <2>1, <2>2, <2>3, <2>4 DEF PanelInv
<1> QED BY <1>1, <1>2, <1>3, <1>4, <1>5, <1>6, <1>7, <1>8, <1>9, <1>10
        DEF PanelNext, CallGoesOn

\* A step of one call leaves the others where they are.
LEMMA OthersWait ==
  ASSUME call \in [PanelThread -> PanelCall], NEW u \in PanelThread, CallGoesOn(u),
         NEW t \in PanelThread, t # u
  PROVE  call'[t] = call[t]
<1>1. ASSUME EndCall(u) PROVE call'[t] = call[t] BY <1>1 DEF EndCall
<1>2. ASSUME NEW pos, CallGoes(u, pos) PROVE call'[t] = call[t] BY <1>2 DEF CallGoes
<1>3. ASSUME NEW c, call' = [call EXCEPT ![u] = c] PROVE call'[t] = call[t] BY <1>3
<1>4. CASE ReadClient(u) BY <1>1, <1>2, <1>3, <1>4 DEF ReadClient
<1>5. CASE UpdateClient(u) BY <1>1, <1>2, <1>5 DEF UpdateClient
<1>6. CASE ResetTraffic(u) BY <1>1, <1>6 DEF ResetTraffic
<1>7. CASE AskAttached(u) BY <1>1, <1>3, <1>7 DEF AskAttached
<1>8. CASE AddClient(u) BY <1>1, <1>2, <1>8 DEF AddClient
<1>9. CASE DeleteClient(u) BY <1>1, <1>2, <1>9 DEF DeleteClient
<1> QED BY <1>4, <1>5, <1>6, <1>7, <1>8, <1>9 DEF CallGoesOn

\* Whoever writes back what nobody has changed since writes back what is there.
LEMMA UpdatesAreExact ==
  ASSUME PanelInv, [PanelNext]_panelVars, NEW t \in PanelThread,
         call[t].at = "write", call[t].sound, ~panelWrites[t], client' # client,
         call'[t] # call[t]
  PROVE  /\ client'.on = client.on /\ client'.flow = client.flow
         /\ client'.password = client.password /\ client'.used = client.used
<1> DEFINE body == call[t].body
<1>1. /\ call \in [PanelThread -> PanelCall] /\ client \in ClientRecord
      /\ call[t] \in PanelCall /\ FoundOut(t)
  BY DEF PanelInv, PanelData
<1>2. body \in Body /\ body.flow = client.flow /\ body.password = client.password
  BY <1>1, CallHas DEF FoundOut
<1>3. ~TrafficCounted /\ ~Detached /\ ~UNCHANGED panelVars
      /\ \A u \in PanelThread, op \in Op \ {"revive"}, q \in PanelQuota : ~CallStarts(u, op, q)
  BY DEF TrafficCounted, Detached, panelVars, CallStarts
<1>4. PICK u \in PanelThread : CallGoesOn(u) BY <1>3 DEF PanelNext
<1>5. CallGoesOn(t) BY <1>1, <1>4, OthersWait
<1>6. UpdateClient(t)
  BY <1>5 DEF CallGoesOn, ReadClient, ResetTraffic, AskAttached, AddClient, DeleteClient
<1>7. client' = Rewritten(body) BY <1>6 DEF UpdateClient, Changes
<1> QED BY <1>1, <1>2, <1>7, RewrittenIs

LEMMA PanelSafe == PanelInit /\ [][PanelNext]_panelVars => PanelHolds
<1>1. PanelInv => PanelTypeOK /\ FlowKept
  BY DEF PanelInv, PanelData, PanelCounts, PanelTypeOK, PanelCall, CallAt
<1>2. ASSUME PanelInv, [PanelNext]_panelVars
      PROVE  \A t \in PanelThread :
               call[t].at = "write" /\ call[t].sound /\ ~panelWrites[t] /\ client' # client
                 /\ call'[t] # call[t]
                 => /\ client'.on = client.on /\ client'.flow = client.flow
                    /\ client'.password = client.password /\ client'.used = client.used
  BY <1>2, UpdatesAreExact
<1>3. ASSUME PanelInv, [PanelNext]_panelVars
      PROVE  \A t \in PanelThread :
               call[t].op = "revive" /\ call[t].at = "replace" /\ call'[t] # call[t] =>
                 panelWrites[t]
  BY <1>3 DEF PanelInv, FoundOut
<1> QED BY <1>1, <1>2, <1>3, PanelStarts, PanelSteps, PTL
        DEF PanelHolds, UpdatesKeepTheRest, RevivesOnlyLost

\* Whatever fails and whoever else calls, a client keeps its flow, an update of some fields
\* gives back the rest as it was, and a lost client is not replaced unless somebody has
\* added it meanwhile.
THEOREM ThePanelKeeps == PanelSpec => PanelHolds
BY PanelSafe, PTL DEF PanelSpec

-----------------------------------------------------------------------------
(***************************************************************************)
(* The monthly quota and Hysteria's authentication                         *)
(***************************************************************************)
LEMMA GbIs == Gb \subseteq Nat /\ OtherGb \in Gb /\ AppGb \in Gb /\ BigGb \in Gb /\ 0 \in 0..BigGb
BY QuotaConstants DEF Gb

LEMMA QuotaStarts == QuotaInit => QuotaTypeOK
<1> SUFFICES ASSUME QuotaInit PROVE QuotaTypeOK
  OBVIOUS
<1>1. NoJob \in [at : {"idle", "paid", "demo", "panel", "row"}, gb : Gb]
  BY GbIs DEF NoJob
<1>2. NewRow \in Row
  BY GbIs DEF NewRow, Row
<1>3. NoGrant \in [at : {"idle", "panel", "row"}, row : Row]
  BY <1>2 DEF NoGrant
<1>4. [gb |-> OtherGb, spent |-> 0, enabled |-> TRUE] \in [gb : Gb, spent : 0..BigGb, enabled : BOOLEAN]
  BY GbIs
<1>5. 0 \in 0..MaxQuotaFaults
  BY QuotaConstants
<1> QED BY <1>1, <1>2, <1>3, <1>4, <1>5 DEF QuotaInit, QuotaTypeOK

\* What the panel has counted stays within what it may, and a fault is counted once.
LEMMA QuotaSteps == QuotaTypeOK /\ [QuotaNext]_quotaVars => QuotaTypeOK'
<1> DEFINE Key == [gb : Gb, spent : 0..BigGb, enabled : BOOLEAN]
<1> DEFINE Job == [at : {"idle", "paid", "demo", "panel", "row"}, gb : Gb]
<1> DEFINE Raise == [at : {"idle", "panel", "row"}, row : Row]
<1> SUFFICES ASSUME QuotaTypeOK, [QuotaNext]_quotaVars PROVE QuotaTypeOK'
  OBVIOUS
<1>t. /\ userRow \in Row /\ panelKey \in Key /\ appSeen \in BOOLEAN /\ resetDone \in BOOLEAN
      /\ job \in Job /\ grant \in Raise /\ quotaFaults \in 0..MaxQuotaFaults
  BY DEF QuotaTypeOK
<1>n. NoJob \in Job /\ NoGrant \in Raise
  BY GbIs DEF NoJob, NoGrant, NewRow, Row
<1>f. ASSUME QuotaFault \/ NoFault PROVE quotaFaults' \in 0..MaxQuotaFaults
  BY <1>f, <1>t, QuotaConstants DEF QuotaFault, NoFault
<1>1. CASE MonthBegins
  BY <1>1, <1>t DEF MonthBegins, QuotaTypeOK
<1>2. CASE JobStarts
  <2>1. quotaFaults' \in 0..MaxQuotaFaults
    BY <1>2, <1>f DEF JobStarts
  <2>2. job' \in Job
    BY <1>2, <1>n DEF JobStarts
  <2> QED BY <1>2, <1>t, <2>1, <2>2 DEF JobStarts, QuotaTypeOK
<1>3. CASE JobGoesOn
  <2>1. quotaFaults' \in 0..MaxQuotaFaults
    BY <1>3, <1>f DEF JobGoesOn, JobReads, JobRenews, JobPaid, JobStores
  <2>2. job' \in Job
    BY <1>3, <1>t, <1>n, GbIs DEF JobGoesOn, JobReads, JobRenews, JobPaid, JobStores
  <2>3. panelKey' \in Key
    <3>1. job.gb \in Gb
      BY <1>t
    <3>2. Renewed \in Key
      BY <3>1, GbIs DEF Renewed
    <3>3. PaidPass \in Key
      BY <1>t, GbIs DEF PaidPass
    <3>4. [panelKey EXCEPT !.gb = job.gb, !.enabled = TRUE] \in Key
      BY <1>t, <3>1
    <3> QED BY <1>3, <1>t, <3>2, <3>3, <3>4 DEF JobGoesOn, JobReads, JobRenews, JobPaid, JobStores
  <2>4. userRow' \in Row
    BY <1>3, <1>t DEF JobGoesOn, JobReads, JobRenews, JobPaid, JobStores, JobStored, Row
  <2>5. UNCHANGED <<appSeen, resetDone, grant>>
    BY <1>3 DEF JobGoesOn, JobReads, JobRenews, JobPaid, JobStores
  <2> QED BY <1>t, <2>1, <2>2, <2>3, <2>4, <2>5 DEF QuotaTypeOK
<1>4. CASE AppFetches
  <2>1. grant' \in Raise
    BY <1>4, <1>t DEF AppFetches
  <2> QED BY <1>4, <1>t, <2>1 DEF AppFetches, QuotaTypeOK
<1>5. CASE GrantRaises
  <2>1. quotaFaults' \in 0..MaxQuotaFaults
    BY <1>5, <1>f DEF GrantRaises
  <2>2. grant' \in Raise
    BY <1>5, <1>t, <1>n DEF GrantRaises
  <2>3. panelKey' \in Key
    BY <1>5, <1>t, GbIs DEF GrantRaises
  <2> QED BY <1>5, <1>t, <2>1, <2>2, <2>3 DEF GrantRaises, QuotaTypeOK
<1>6. CASE GrantSaves
  <2>1. userRow' \in Row
    BY <1>6, <1>t, GbIs DEF GrantSaves, GrantStores, Row
  <2> QED BY <1>6, <1>t, <1>n, <2>1 DEF GrantSaves, QuotaTypeOK
<1>7. CASE Bought \/ GivenQuota
  <2>1. userRow' \in Row
    <3>1. [status |-> "paid", was |-> "demo", gb |-> BigGb, lapsed |-> FALSE] \in Row
      BY GbIs DEF Row
    <3>2. [userRow EXCEPT !.gb = BigGb] \in Row
      BY <1>t, GbIs DEF Row
    <3> QED BY <1>7, <3>1, <3>2 DEF Bought, GivenQuota
  <2>2. panelKey' \in Key
    BY <1>7, <1>t, GbIs DEF Bought, GivenQuota
  <2> QED BY <1>7, <1>t, <2>1, <2>2 DEF Bought, GivenQuota, QuotaTypeOK
<1>8. CASE Lapses \/ HelpAsked \/ HelpGiven
  <2>1. userRow' \in Row
    <3>1. [userRow EXCEPT !.lapsed = TRUE] \in Row
      BY <1>t DEF Row
    <3>2. [userRow EXCEPT !.was = userRow.status, !.status = "support"] \in Row
      BY <1>t DEF Row
    <3>3. ASSUME NEW now \in {"demo", "paid"}
          PROVE  [userRow EXCEPT !.status = now, !.was = "demo"] \in Row
      BY <1>t DEF Row
    <3> QED BY <1>8, <3>1, <3>2, <3>3 DEF Lapses, HelpAsked, HelpGiven
  <2>2. panelKey' \in Key
    BY <1>8, <1>t DEF Lapses, HelpAsked, HelpGiven
  <2> QED BY <1>8, <1>t, <2>1, <2>2 DEF Lapses, HelpAsked, HelpGiven, QuotaTypeOK
<1>9. CASE Spends
  <2> DEFINE spent == IF panelKey.spent < BigGb THEN panelKey.spent + 1 ELSE BigGb
  <2>1. spent \in 0..BigGb
    BY <1>t, QuotaConstants
  <2>2. panelKey' \in Key
    <3>1. panelKey' = [panelKey EXCEPT !.spent = spent, !.enabled = spent < panelKey.gb]
      BY <1>9 DEF Spends
    <3>2. (spent < panelKey.gb) \in BOOLEAN
      OBVIOUS
    <3> HIDE DEF spent
    <3> QED BY <1>t, <2>1, <3>1, <3>2
  <2> QED BY <1>9, <1>t, <2>2 DEF Spends, QuotaTypeOK
<1>10. CASE UNCHANGED quotaVars
  BY <1>10 DEF quotaVars, QuotaTypeOK
<1> QED BY <1>1, <1>2, <1>3, <1>4, <1>5, <1>6, <1>7, <1>8, <1>9, <1>10 DEF QuotaNext

LEMMA QuotaSafe == QuotaInit /\ [][QuotaNext]_quotaVars => []QuotaTypeOK
BY QuotaStarts, QuotaSteps, PTL

-----------------------------------------------------------------------------
\* The reading of a user is the last one that came, or none.
LEMMA HyStarts == HyInit => HyTypeOK
BY Hy2Constants DEF HyInit, HyTypeOK, NoEntry

LEMMA HySteps == HyTypeOK /\ [HyNext]_hyVars => HyTypeOK'
<1> DEFINE Entry == [age : 0 .. StaleMax, says : {"nothing", "left", "spent"}]
<1> SUFFICES ASSUME HyTypeOK, [HyNext]_hyVars PROVE HyTypeOK'
  OBVIOUS
<1>t. /\ hyRow \in [HyUser -> {"paid", "demo", "out"}] /\ hySpent \in [HyUser -> BOOLEAN]
      /\ hyCache \in [HyUser -> Entry] /\ refreshing \subseteq HyUser /\ due \subseteq HyUser
      /\ hyAnswer \in [HyUser -> {"none", "allow", "deny"}] /\ hyEvents \in 0 .. MaxHyEvents
  BY DEF HyTypeOK
<1>e. ASSUME hyEvents < MaxHyEvents, hyEvents' = hyEvents + 1 PROVE hyEvents' \in 0 .. MaxHyEvents
  BY <1>e, <1>t, Hy2Constants
<1>1. ASSUME NEW u \in HyUser, NEW paid_only \in BOOLEAN, HyConnect(u, paid_only) PROVE HyTypeOK'
  <2>1. hyAnswer' \in [HyUser -> {"none", "allow", "deny"}]
    BY <1>1, <1>t DEF HyConnect
  <2>2. refreshing' \subseteq HyUser /\ due' \subseteq HyUser
    BY <1>1, <1>t DEF HyConnect
  <2> QED BY <1>1, <1>t, <2>1, <2>2 DEF HyConnect, HyTypeOK
<1>2. ASSUME NEW u \in HyUser, RefreshAnswered(u) PROVE HyTypeOK'
  <2>1. [age |-> 0, says |-> IF hySpent[u] THEN "spent" ELSE "left"] \in Entry
    BY Hy2Constants
  <2> QED BY <1>2, <1>t, <2>1 DEF RefreshAnswered, HyTypeOK
<1>3. ASSUME NEW u \in HyUser, RefreshFailed(u) PROVE HyTypeOK'
  <2>1. [age |-> 0, says |-> "nothing"] \in Entry
    BY Hy2Constants
  <2> QED BY <1>3, <1>t, <1>e, <2>1 DEF RefreshFailed, HyTypeOK
<1>4. ASSUME NEW u \in HyUser, CounterMoves(u) PROVE HyTypeOK'
  <2>1. hySpent' \in [HyUser -> BOOLEAN] /\ hyRow' \in [HyUser -> {"paid", "demo", "out"}]
    BY <1>4, <1>t DEF CounterMoves
  <2> QED BY <1>4, <1>t, <1>e, <2>1 DEF CounterMoves, HyTypeOK
<1>5. CASE HyTick
  <2>1. ASSUME NEW u \in HyUser
        PROVE [hyCache[u] EXCEPT !.age = IF @ < StaleMax THEN @ + 1 ELSE @] \in Entry
    BY <1>t, Hy2Constants
  <2> QED BY <1>5, <1>t, <2>1 DEF HyTick, HyTypeOK
<1>6. CASE HyRestart
  <2>1. NoEntry \in Entry
    BY Hy2Constants DEF NoEntry
  <2> QED BY <1>6, <1>t, <1>e, <2>1 DEF HyRestart, HyTypeOK
<1>7. CASE UNCHANGED hyVars
  BY <1>7 DEF hyVars, HyTypeOK
<1> QED BY <1>1, <1>2, <1>3, <1>4, <1>5, <1>6, <1>7 DEF HyNext

LEMMA HySafe == HyInit /\ [][HyNext]_hyVars => []HyTypeOK
BY HyStarts, HySteps, PTL

-----------------------------------------------------------------------------
\* A step of the host is a step of each component or leaves its variables alone.
LEMMA HostSteps ==
  /\ HostInit => /\ PanelInit /\ ReserveInit /\ ZoneInit /\ AgentInit
                 /\ QuotaInit /\ HyInit
  /\ [HostNext]_hostVars => /\ [PanelNext]_panelVars /\ [ReserveNext]_reserveVars
                            /\ [ZoneNext]_zoneVars /\ [AgentNext]_agentVars
                            /\ [QuotaNext]_quotaVars /\ [HyNext]_hyVars
BY DEF HostInit, HostNext, hostVars

\* The components as the run checks them, beside the others: what the four promise, and that
\* the monthly quota and Hysteria's cache keep to their ranges.
THEOREM HostedAccessHolds ==
  HostSpec => /\ PanelHolds /\ ReserveHolds /\ ZoneHolds /\ AgentHolds
              /\ []QuotaTypeOK /\ []HyTypeOK
<1>1. HostInit /\ [][HostNext]_hostVars => PanelInit /\ [][PanelNext]_panelVars
  BY HostSteps, PTL
<1>2. HostInit /\ [][HostNext]_hostVars => ReserveInit /\ [][ReserveNext]_reserveVars
  BY HostSteps, PTL
<1>3. HostInit /\ [][HostNext]_hostVars => ZoneInit /\ [][ZoneNext]_zoneVars
  BY HostSteps, PTL
<1>4. HostInit /\ [][HostNext]_hostVars => AgentInit /\ [][AgentNext]_agentVars
  BY HostSteps, PTL
<1>5. HostInit /\ [][HostNext]_hostVars => QuotaInit /\ [][QuotaNext]_quotaVars
  BY HostSteps, PTL
<1>6. HostInit /\ [][HostNext]_hostVars => HyInit /\ [][HyNext]_hyVars
  BY HostSteps, PTL
<1> QED BY <1>1, <1>2, <1>3, <1>4, <1>5, <1>6, PanelSafe, ReserveSafe, ZoneSafe, AgentSafe,
           QuotaSafe, HySafe, PTL DEF HostSpec
=============================================================================
