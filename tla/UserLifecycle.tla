--------------------------- MODULE UserLifecycle ---------------------------
(***************************************************************************)
(* One user's row of the users table and its client on the 3x-ui panel,    *)
(* under everything that moves them: the user's own buttons and payments   *)
(* and the admin's Telegram commands (the polling thread, "bot"), the      *)
(* dashboard's POST /users/{id}/action (the web server's thread, "web")    *)
(* and the hourly support repair (the scheduler, "job").                   *)
(*                                                                         *)
(* UserRepository.save writes the WHOLE row from a User object read        *)
(* earlier, so a handler is a chain of database and panel calls, Program,  *)
(* that the other threads' calls may fall between.  Time stands still: a   *)
(* subscription is the number of 30-day months left on it.                 *)
(*                                                                         *)
(* RevokeRowOnly is Revoke with a bug in it; TransitionsTrusting is        *)
(* Transitions with a bug in it; UntilTwice is Until with a bug in it;     *)
(* ReturnStatePrevious is ReturnState with a bug in it: see "mutants" in   *)
(* PROJECT.json.                                                           *)
(***************************************************************************)
EXTENDS Naturals, Sequences

CONSTANTS
  BotOps, WebOps, JobOps, \* which handlers run in each thread
  Plans,                  \* PLAN_DEFINITIONS, in months
  MaxMonths,              \* bound: months on sale in one behaviour
  MaxRejects,             \* MAX_REJECT_RETRIES
  Faults,                 \* which of "panel", "crash" may happen
  Interleaved             \* may two threads be in a handler at once?

UserOps == {"request", "requestAuto", "platform", "getKey", "support", "message", "pay"}
AdminOps == {"approve", "reject", "rejectButton", "ban", "unban", "reset",
             "resetApproval", "approvePayment", "closeTicket"}
DashboardOps == {"webApprove", "webReject", "webBan", "webUnban", "webReset",
                 "webGrant", "webQuota", "webExpire"}

ASSUME ConstantsOK ==
  /\ BotOps \subseteq UserOps \cup AdminOps /\ WebOps \subseteq DashboardOps
  /\ JobOps \subseteq {"repair"}
  /\ Plans \subseteq 1..MaxMonths /\ MaxMonths \in Nat \ {0} /\ MaxRejects \in Nat \ {0} /\ Interleaved \in BOOLEAN

Threads == {"bot", "web", "job"}
Ops(th) == CASE th = "bot" -> BotOps [] th = "web" -> WebOps [] th = "job" -> JobOps

Statuses == {"new", "pending_demo", "platform_select", "demo", "paid",
             "support_topic", "rejected", "banned"}

User == [status: Statuses, previous: Statuses \cup {"none"}, key: BOOLEAN,
         topic: BOOLEAN, rejects: 0..MaxRejects, paid: 0..MaxMonths]

NewUser == [status |-> "new", previous |-> "none", key |-> FALSE, topic |-> FALSE,
            rejects |-> 0, paid |-> 0]

\* STATE_TRANSITIONS.
TransitionsTrusting ==
  [new |-> {"pending_demo"},
   pending_demo |-> {"platform_select", "rejected", "banned"},
   rejected |-> {"pending_demo"}, platform_select |-> {"demo"},
   demo |-> {"support_topic", "paid", "banned"}, paid |-> {"support_topic", "banned"},
   support_topic |-> {"demo", "paid"}, banned |-> {"new", "paid"}]

Transitions ==
  [new |-> {"pending_demo"},
   pending_demo |-> {"platform_select", "rejected", "banned"},
   rejected |-> {"pending_demo"}, platform_select |-> {"demo"},
   demo |-> {"support_topic", "paid", "banned"}, paid |-> {"support_topic", "banned"},
   support_topic |-> {"demo", "paid"}, banned |-> {"new"}]

CanTransition(from, to) == from = to \/ to \in Transitions[from]

KeyStatuses == {"demo", "paid", "support_topic"}   \* _KEY_ALLOWED_STATUSES
DemoMonths == 1                                    \* DEMO_DAYS

VARIABLES
  row,     \* the users row
  panel,   \* the client on the panel: is it there, until when
  at,      \* per thread: its handler, the calls left, the objects it holds
  said,    \* the handler that has just answered that it is done
  sold,    \* months sold so far: for the properties only, as is
  leaked   \* "the panel failed to remove a client"

vars == <<row, panel, at, said, sold, leaked>>
-----------------------------------------------------------------------------
(* The handlers, as the calls they make.                                   *)

Call(do, what) == [do |-> do, what |-> what]
Put(what) == <<Call("put", what)>>
Get == <<Call("get", "")>>
Fetch == <<Call("fetch", "")>>
SetState(to) == <<Call("force", to)>>

\* StateMachine.transition: get_user, save_user, update_status.
Transition(to) == <<Call("smGet", to), Call("smSave", to), Call("smStatus", to)>>

\* revoke_user_key.
RevokeRowOnly == Put("keyless")
Revoke == <<Call("remove", "")>> \o Put("keyless")

\* grant_paid_access.
Grant == Fetch \o Put("granted") \o Transition("paid") \o <<Call("sync", "")>>

\* The user's buttons and messages.
DemoRequest == Get \o Transition("pending_demo")
AutoApproval == DemoRequest \o Transition("platform_select")
PlatformSelect == Get \o Put("same") \o Transition("demo")
GetKey == Get \o <<Call("add", "")>> \o Put("key")
SupportRequest == Transition("support_topic")
SupportMessage == Get \o Put("topic")
SuccessfulPayment == Get \o Grant

\* The admin's commands and buttons in Telegram.
ApproveUser == Get \o <<Call("approve", "")>>
RejectUser == Get \o Revoke \o Transition("rejected")
RejectButton == RejectUser \o Put("rejected")
BanUser == Get \o Revoke \o Transition("banned")
UnbanUser == Get \o Put("keyless") \o Transition("new")
ResetUser == Get \o <<Call("remove", "")>> \o SetState("new") \o Fetch \o Put("cleared")
ResetApproval == Get \o Transition("new") \o <<Call("remove", "")>> \o Put("cleared")
ApprovePayment == Get \o Grant
CloseTicket == Get \o <<Call("return", "")>> \o Put("noTopic")

\* The dashboard's actions, each with its side effects on a user read again.
WebApprove == Get \o Transition("platform_select") \o Fetch
WebReject == Get \o Transition("rejected") \o Fetch \o Put("rejected") \o Revoke
WebBan == Get \o Transition("banned") \o Fetch \o Revoke
WebUnban == Get \o Transition("new") \o Fetch \o Put("keyless")
WebReset == Get \o Revoke \o SetState("new") \o Fetch \o Put("cleared")
WebGrantPaid == Get \o Transition("paid") \o Grant
WebSetQuota == Get \o Put("same")
WebSetExpire == Get \o Put("paid") \o <<Call("sync", "")>>

\* The hourly job, for one user it found.
RepairStuckSupport == <<Call("return", "")>>

Program(op) ==
  CASE op = "request" -> DemoRequest [] op = "requestAuto" -> AutoApproval
    [] op = "platform" -> PlatformSelect [] op = "getKey" -> GetKey
    [] op = "support" -> SupportRequest [] op = "message" -> SupportMessage
    [] op = "pay" -> SuccessfulPayment [] op = "approvePayment" -> ApprovePayment
    [] op = "approve" -> ApproveUser [] op = "reject" -> RejectUser
    [] op = "rejectButton" -> RejectButton [] op = "ban" -> BanUser
    [] op = "unban" -> UnbanUser [] op = "reset" -> ResetUser
    [] op = "resetApproval" -> ResetApproval [] op = "closeTicket" -> CloseTicket
    [] op = "webApprove" -> WebApprove [] op = "webReject" -> WebReject
    [] op = "webBan" -> WebBan [] op = "webUnban" -> WebUnban
    [] op = "webReset" -> WebReset [] op = "webGrant" -> WebGrantPaid
    [] op = "webQuota" -> WebSetQuota [] op = "webExpire" -> WebSetExpire
    [] op = "repair" -> RepairStuckSupport

\* Handlers that stop when a transition is refused; the others carry on.
Strict == {"support", "resetApproval"} \cup DashboardOps

\* What a handler asks of the row before it does anything.
Admits(op, u) ==
  CASE op \in {"request", "requestAuto"} ->
         u.status = "new" \/ (u.status = "rejected" /\ u.rejects < MaxRejects)
    [] op = "getKey" -> u.status \in KeyStatuses
    [] op = "message" -> u.status = "support_topic" /\ ~u.topic
    [] op = "closeTicket" -> u.topic
    [] op = "rejectButton" -> u.status = "pending_demo"
    [] op = "repair" -> u.status = "support_topic" /\ ~u.topic
    [] OTHER -> TRUE

\* The paid-until date a handler works out from the user it has read.
UntilTwice(op, u, months) ==
  IF op \in {"pay", "webGrant"} THEN u.paid + 2 * months ELSE months
Until(op, u, months) ==
  IF op \in {"pay", "webGrant"} THEN u.paid + months ELSE months

\* The user object as a handler's save_user writes it.
Changed(what, u, until) ==
  CASE what = "key" -> [u EXCEPT !.key = TRUE]
    [] what = "keyless" -> [u EXCEPT !.key = FALSE]
    [] what = "topic" -> [u EXCEPT !.topic = TRUE]
    [] what = "noTopic" -> [u EXCEPT !.topic = FALSE]
    [] what \in {"paid", "granted"} -> [u EXCEPT !.paid = until]
    [] what = "rejected" -> [u EXCEPT !.rejects = IF @ < MaxRejects THEN @ + 1 ELSE @]
    [] what = "cleared" -> [u EXCEPT !.key = FALSE, !.rejects = 0]
    [] OTHER -> u

\* return_from_support, and the repair's rule, which is the same.
ReturnStatePrevious(u) == u.previous
ReturnState(u) ==
  IF u.previous \in {"demo", "paid"} THEN u.previous
  ELSE IF u.key THEN "demo" ELSE "new"

\* billing.tier_client_values: how long a re-added client may live; 0: not at all.
TierMonths(u) ==
  IF u.paid > 0 /\ u.status \in {"paid", "support_topic"} THEN u.paid
  ELSE IF u.status = "paid" THEN 0 ELSE DemoMonths
-----------------------------------------------------------------------------
\* A thread's handler as it begins, and no handler.
Handler(op, todo, months) ==
  [op |-> op, todo |-> todo, user |-> NewUser, other |-> NewUser,
   until |-> 0, months |-> months]
Idle == Handler("none", <<>>, 0)
NoClient == [on |-> FALSE, until |-> 0]

Init ==
  /\ row = NewUser /\ panel = NoClient /\ at = [th \in Threads |-> Idle]
  /\ said = "none" /\ sold = 0 /\ leaked = FALSE

Quiet == \A th \in Threads : at[th].todo = <<>>

\* The handler of thread th goes on with the calls in "rest".
Goes(th, rest, local) ==
  /\ at' = [at EXCEPT ![th] = IF rest = <<>> THEN Idle ELSE [local EXCEPT !.todo = rest]]
  /\ said' = IF rest = <<>> THEN at[th].op ELSE "none"

Stops(th) == at' = [at EXCEPT ![th] = Idle] /\ said' = "none"

Next3(s) == SubSeq(s, 4, Len(s))   \* past a transition's three calls
Calls(th, do) == at[th].todo # <<>> /\ Head(at[th].todo).do = do
What(th) == Head(at[th].todo).what
Rest(th) == Tail(at[th].todo)

\* A handler begins: a tap, a command, a request, or the hourly job.
Start(th, op) ==
  /\ at[th].todo = <<>> /\ op \in Ops(th) /\ (Interleaved \/ Quiet)
  /\ \E months \in IF op \in {"pay", "webExpire"} THEN Plans
                   ELSE IF op \in {"webGrant", "approvePayment"} THEN {1} ELSE {0} :
       /\ sold + at["bot"].months + at["web"].months + months <= MaxMonths
       /\ at' = [at EXCEPT ![th] = Handler(op, Program(op), months)]
  /\ said' = "none"
  /\ UNCHANGED <<row, panel, sold, leaked>>

\* The handler's own get_user, and what it checks at once.
GetUser(th) ==
  /\ Calls(th, "get")
  /\ IF Admits(at[th].op, row)
     THEN Goes(th, Rest(th), [at[th] EXCEPT !.user = row,
                                !.until = Until(at[th].op, row, at[th].months)])
     ELSE Stops(th)
  /\ UNCHANGED <<row, panel, sold, leaked>>


\* A second get_user, by a function that the handler calls.
FetchUser(th) ==
  /\ Calls(th, "fetch")
  /\ Goes(th, Rest(th), [at[th] EXCEPT !.user = row])
  /\ UNCHANGED <<row, panel, sold, leaked>>

\* db.save_user(user).  revoke_user_key saves only a user that had a key, and
\* a grant asks for a transition only when its user is not paid yet.
SaveUser(th) ==
  /\ Calls(th, "put")
  /\ LET old == at[th].user
         new == Changed(What(th), old, at[th].until)
         rest == IF What(th) = "granted" /\ old.status = "paid"
                 THEN Next3(Rest(th)) ELSE Rest(th)
         none == What(th) = "keyless" /\ ~old.key
     IN  /\ row' = IF none THEN row ELSE new
         /\ Goes(th, rest, [at[th] EXCEPT !.user = new,
                              !.months = IF What(th) \in {"granted", "paid"} THEN 0 ELSE @])
  /\ sold' = CASE What(th) = "granted" -> sold + at[th].months
               [] What(th) = "paid" /\ at[th].until > sold -> at[th].until
               [] OTHER -> sold
  /\ UNCHANGED <<panel, leaked>>

\* StateMachine.transition, call by call; the User object is its own.
TransitionGet(th) ==
  /\ Calls(th, "smGet")
  /\ IF CanTransition(row.status, What(th))
     THEN Goes(th, Rest(th), [at[th] EXCEPT !.other = row])
     ELSE IF at[th].op = "closeTicket"
          THEN Goes(th, SetState(What(th)) \o Next3(at[th].todo), at[th])
     ELSE IF at[th].op \in Strict THEN Stops(th)
     ELSE Goes(th, Next3(at[th].todo), at[th])
  /\ UNCHANGED <<row, panel, sold, leaked>>

TransitionSave(th) ==
  /\ Calls(th, "smSave")
  /\ row' = [at[th].other EXCEPT !.previous = at[th].other.status]
  /\ Goes(th, Rest(th), [at[th] EXCEPT !.other = NewUser])
  /\ UNCHANGED <<panel, sold, leaked>>

\* UserRepository.update_status: one column.
UpdateStatus(th) ==
  /\ Calls(th, "smStatus") \/ Calls(th, "force")
  /\ row' = [row EXCEPT !.status = What(th)]
  /\ Goes(th, Rest(th), at[th])
  /\ UNCHANGED <<panel, sold, leaked>>

\* /approve moves a pending user on, and anyone else straight to demo.
Approve(th) ==
  /\ Calls(th, "approve")
  /\ Goes(th, Transition(IF at[th].user.status = "pending_demo" THEN "platform_select"
                         ELSE "demo"), at[th])
  /\ UNCHANGED <<row, panel, sold, leaked>>

\* A ticket is closed, or the repair found one that never got a topic.
ReturnFromSupport(th) ==
  /\ Calls(th, "return")
  /\ IF \/ row.status # "support_topic"
        \/ at[th].op = "closeTicket" /\ at[th].user.status # "support_topic"
        \/ at[th].op = "repair" /\ row.topic
     THEN Goes(th, Rest(th), at[th])
     ELSE Goes(th, (IF at[th].op = "repair" THEN SetState(ReturnState(row))
                    ELSE Transition(ReturnState(row))) \o Rest(th), at[th])
  /\ UNCHANGED <<row, panel, sold, leaked>>

\* The panel's answers.  Every call may fail; the handlers carry on, but a key
\* that could not be added is not saved.
PanelFails == "panel" \in Faults

PanelRemove(th) ==
  /\ Calls(th, "remove")
  /\ Goes(th, Rest(th), at[th])
  /\ \/ panel' = (IF at[th].user.key THEN NoClient ELSE panel) /\ UNCHANGED leaked
     \/ PanelFails /\ at[th].user.key /\ leaked' = TRUE /\ UNCHANGED panel
  /\ UNCHANGED <<row, sold>>

\* _create_new_key, or _resync_existing_key for a user who has one.
PanelAdd(th) ==
  /\ Calls(th, "add")
  /\ LET user == at[th].user
         months == IF user.key THEN TierMonths(user) ELSE DemoMonths
     IN  \/ /\ panel' = IF user.key /\ (panel.on \/ months = 0) THEN panel
                        ELSE [on |-> TRUE, until |-> months]
            /\ IF user.key THEN Stops(th) ELSE Goes(th, Rest(th), at[th])
         \/ PanelFails /\ Stops(th) /\ UNCHANGED panel
  /\ UNCHANGED <<row, sold, leaked>>

\* sync_client_settings_sync; a grant puts a client back that the panel lost.
PanelSync(th) ==
  /\ Calls(th, "sync")
  /\ \/ panel' = IF at[th].user.key /\ (panel.on \/ at[th].op # "webExpire")
                 THEN [on |-> TRUE, until |-> at[th].until] ELSE panel
     \/ PanelFails /\ at[th].user.key /\ UNCHANGED panel
  /\ Goes(th, Rest(th), at[th])
  /\ UNCHANGED <<row, sold, leaked>>

Step(th) ==
  \/ GetUser(th) \/ FetchUser(th) \/ SaveUser(th)
  \/ TransitionGet(th) \/ TransitionSave(th) \/ UpdateStatus(th)
  \/ Approve(th) \/ ReturnFromSupport(th)
  \/ PanelRemove(th) \/ PanelAdd(th) \/ PanelSync(th)

\* 30 days pass; the handlers are short.
Less(n) == IF n = 0 THEN 0 ELSE n - 1
Month ==
  /\ Quiet /\ (sold > 0 \/ panel.until > 0)
  /\ row' = [row EXCEPT !.paid = Less(@)] /\ panel' = [panel EXCEPT !.until = Less(@)]
  /\ sold' = Less(sold) /\ said' = "none"
  /\ UNCHANGED <<at, leaked>>

\* The panel drops a client that has been expired for long.
Purge ==
  /\ panel.on /\ panel.until = 0 /\ panel' = NoClient /\ said' = "none"
  /\ UNCHANGED <<row, at, sold, leaked>>

\* The process dies in the middle of its handlers and starts again.
Crash ==
  /\ "crash" \in Faults /\ ~Quiet
  /\ at' = [th \in Threads |-> Idle] /\ said' = "none"
  /\ UNCHANGED <<row, panel, sold, leaked>>

Next ==
  \/ \E th \in Threads : Step(th) \/ \E op \in Ops(th) : Start(th, op)
  \/ Month \/ Purge \/ Crash

Spec == Init /\ [][Next]_vars

\* A handler that began goes on, and the scheduler keeps starting the repair.
FairSpec ==
  /\ Spec
  /\ \A th \in Threads : WF_vars(Step(th))
  /\ WF_vars(Start("job", "repair"))
-----------------------------------------------------------------------------
\* A call that moves the status names one; another says what its save changes, if anything.
StatusCalls == {"smGet", "smSave", "smStatus", "force"}
OtherCalls == {"get", "fetch", "put", "remove", "add", "sync", "approve", "return"}
SaveKinds == {"", "same", "key", "keyless", "topic", "noTopic", "granted", "paid", "rejected", "cleared"}
LegalCall == [do: StatusCalls, what: Statuses] \cup [do: OtherCalls, what: SaveKinds]

Local == [op: {"none"} \cup UserOps \cup AdminOps \cup DashboardOps \cup {"repair"},
          todo: Seq(LegalCall), user: User, other: User,
          until: 0..MaxMonths, months: 0..MaxMonths]

\* Every variable has its type.
TypeOK ==
  /\ row \in User /\ panel \in [on: BOOLEAN, until: 0..MaxMonths]
  /\ at \in [Threads -> Local]
  /\ said \in {"none"} \cup UserOps \cup AdminOps \cup DashboardOps \cup {"repair"}
  /\ sold \in 0..MaxMonths /\ leaked \in BOOLEAN

\* What each handler has done to the status when it answers that it is done.
Promise(op) ==
  CASE op = "request" -> {"pending_demo"}
    [] op \in {"requestAuto", "webApprove"} -> {"platform_select"}
    [] op \in {"pay", "approvePayment", "webGrant"} -> {"paid"}
    [] op \in {"reject", "rejectButton", "webReject"} -> {"rejected"}
    [] op \in {"ban", "webBan"} -> {"banned"}
    [] op \in {"unban", "reset", "resetApproval", "webUnban", "webReset"} -> {"new"}
    [] op = "support" -> {"support_topic"}
    [] op = "closeTicket" -> Statuses \ {"support_topic"}
    [] OTHER -> Statuses

\* A handler that checks its transitions has left the user in the status it
\* reports: no save of an older User object undid it on the way (the comment at
\* the re-fetch in _execute_action_side_effects).
Checked == DashboardOps \cup {"request", "requestAuto", "support", "reset"}
KeepsPromise == said \in Checked => row.status \in Promise(said)

\* Whatever the order of commands, someone who is not let in holds no key, and
\* the panel serves no client whose row has none unless a removal failed
\* (revoke_user_key, _KEY_ALLOWED_STATUSES).
KeyNeedsApproval ==
  Quiet => /\ row.key => row.status \in KeyStatuses
           /\ panel.on => row.key \/ leaked

\* Purchases add up: the time left is the time sold, and one extension does not
\* swallow another (_on_successful_payment, grant_paid).
PaidAdds == Quiet => row.paid = sold

\* However handlers interleave and crash, no save brings a user more months
\* than were sold: each object held anywhere is at most one sale ahead.
NeverUnearned == row.paid <= sold

\* Only a command that lifts the ban moves a banned user.
BanSticks ==
  [][row.status = "banned" /\ row'.status # "banned" =>
       \E th \in Threads : at[th].op \in {"unban", "webUnban", "reset", "webReset",
                                          "resetApproval"}]_vars

\* Nobody stays in support without a ticket, unless the process dies for ever:
\* the hourly repair gets them out, and with them the users whom a closed
\* ticket's last save put back in.
SupportEnds ==
  []<><<Crash>>_vars \/ []<>(row.status # "support_topic" \/ row.topic)

\* What is reported of a user holds: the status, the key, the months paid for.
PromisesKept == TypeOK /\ KeepsPromise /\ KeyNeedsApproval /\ PaidAdds
=============================================================================
