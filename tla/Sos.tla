--------------------------------- MODULE Sos ---------------------------------
(***************************************************************************)
(* The SOS services.                                                       *)
(*                                                                         *)
(* Reports: handle_sos and handle_app_sos of services/sos.py, a user's SOS *)
(* from Telegram (the polling thread) and from the app (web threads), the  *)
(* report in the support topic and the agent's diagnosis, which waits      *)
(* behind a gate for the report it answers.                                *)
(*                                                                         *)
(* The two limits, each a claim written before a thread does the work.     *)
(* The emergency kit is SosService.send_kit: the claim under _kit_lock,    *)
(* the worker that uploads the files, and _forget after a failure.  The    *)
(* reverse SOS is services/reverse_sos.py: after a monitor run that        *)
(* demoted a protocol for a network, the users of that network are written *)
(* to, once a day at most; one run may name several networks and protocols.*)
(*                                                                         *)
(* GateSetAny and ForgotAny are GateSet and Forgot with a bug in them: see *)
(* "mutants" in PROJECT.json.                                              *)
(***************************************************************************)
EXTENDS Integers, FiniteSets

CONSTANTS SosUser, WebThread, SosThread,   \* SosThread is the polling thread
          SosWindow,     \* SOS_RATE_LIMIT_S in ticks
          MaxSos,        \* bound: requests that are not repeats
          NoUser

ASSUME SosConstants ==
  /\ SosThread \notin WebThread /\ NoUser \notin SosUser
  /\ SosWindow \in Nat \ {0} /\ MaxSos \in Nat

VARIABLES reportAge,   \* user -> target -> ticks since the newest report row
          asker,       \* thread -> the request it handles: user and step
          turn,        \* the one diagnosis turn: whose, for which request, its step
          reported,    \* numbers of the requests whose report was handed over
          asked        \* requests so far

sosVars == <<reportAge, asker, turn, reported, asked>>

Asker == WebThread \union {SosThread}
TargetOf(t) == IF t = SosThread THEN "sos" ELSE "sos_app"
IdleAsker == [user |-> NoUser, no |-> 0, at |-> "idle"]
NoTurn == [user |-> NoUser, no |-> 0, at |-> "none"]

SosInit ==
  /\ reportAge = [u \in SosUser |-> [g \in {"sos", "sos_app"} |-> SosWindow]]
  /\ asker = [t \in Asker |-> IdleAsker] /\ turn = NoTurn
  /\ reported = {} /\ asked = 0

-----------------------------------------------------------------------------
\* The limit is read before anything else; the user is answered first.
SosAsked(t, u) ==
  /\ asked < MaxSos
  /\ asker[t].at = "idle" /\ reportAge[u][TargetOf(t)] >= SosWindow
  /\ asked' = asked + 1
  /\ asker' = [asker EXCEPT ![t] = [user |-> u, no |-> asked', at |-> "record"]]
  /\ UNCHANGED <<reportAge, turn, reported>>

\* _record: a failed insert leaves the report without its row.
SosRecorded(t) ==
  /\ asker[t].at = "record"
  /\ reportAge' \in {reportAge, [reportAge EXCEPT ![asker[t].user][TargetOf(t)] = 0]}
  /\ asker' = [asker EXCEPT ![t].at = "kick"]
  /\ UNCHANGED <<turn, reported, asked>>

\* _kick_agent: one slot for all SOS turns; a turn starts behind the request's gate.
TurnStarted(t) == [user |-> asker[t].user, no |-> asker[t].no, at |-> "gate"]

SosKicked(t) ==
  /\ asker[t].at = "kick"
  /\ turn' \in {turn} \union (IF turn.at = "none" THEN {TurnStarted(t)} ELSE {})
  /\ asker' = [asker EXCEPT ![t].at = "post"]
  /\ UNCHANGED <<reportAge, reported, asked>>

\* The report is posted, or the post fails; the gate is set in a finally either way.
GateSetAny(n, posted) ==
  turn' = IF turn.at = "gate" THEN [turn EXCEPT !.at = "ask"] ELSE turn
GateSet(n, posted) ==
  turn' = IF turn.no = n /\ turn.at = "gate" THEN [turn EXCEPT !.at = "ask"] ELSE turn

SosPosted(t) ==
  /\ asker[t].at = "post"
  /\ \E posted \in BOOLEAN : GateSet(asker[t].no, posted)
  /\ reported' = reported \union {asker[t].no}
  /\ asker' = [asker EXCEPT ![t] = IdleAsker]
  /\ UNCHANGED <<reportAge, asked>>

\* The worker waits AGENT_GATE_TIMEOUT_S for the gate, and then asks anyway.
GateTimesOut ==
  /\ turn.at = "gate"
  /\ turn' = [turn EXCEPT !.at = "late"]
  /\ UNCHANGED <<reportAge, asker, reported, asked>>

\* The worker past the gate: the diagnosis is posted, or the agent failed; the slot is
\* free again.
DiagnosisEnds ==
  /\ turn.at \in {"ask", "late"}
  /\ turn' = NoTurn
  /\ UNCHANGED <<reportAge, asker, reported, asked>>

\* The process dies: the rows stay.
SosRestart ==
  /\ turn.at # "none"
  /\ asker' = [t \in Asker |-> IdleAsker] /\ turn' = NoTurn
  /\ UNCHANGED <<reportAge, reported, asked>>

SosTick ==
  /\ \E u \in SosUser, g \in {"sos", "sos_app"} : reportAge[u][g] < SosWindow
  /\ reportAge' = [u \in SosUser |-> [g \in {"sos", "sos_app"} |->
                     IF reportAge[u][g] < SosWindow THEN reportAge[u][g] + 1 ELSE SosWindow]]
  /\ UNCHANGED <<asker, turn, reported, asked>>

SosServes(t) == SosRecorded(t) \/ SosKicked(t) \/ SosPosted(t)

SosNext ==
  \/ GateTimesOut \/ DiagnosisEnds \/ SosRestart \/ SosTick
  \/ \E t \in Asker : SosServes(t) \/ \E u \in SosUser : SosAsked(t, u)

\* The worker goes on: its wait comes to an end and so does the agent's call.  A thread that
\* handles a request may hang in its post.
SosSpec ==
  SosInit /\ [][SosNext]_sosVars /\ WF_sosVars(GateTimesOut) /\ WF_sosVars(DiagnosisEnds)

-----------------------------------------------------------------------------
SosTypeOK ==
  /\ reportAge \in [SosUser -> [{"sos", "sos_app"} -> 0..SosWindow]]
  /\ asker \in [Asker -> [user : SosUser \union {NoUser}, no : 0..MaxSos,
                          at : {"idle", "record", "kick", "post"}]]
  /\ turn \in [user : SosUser \union {NoUser}, no : 0..MaxSos, at : {"none", "gate", "ask", "late"}]
  /\ reported \subseteq 1..MaxSos /\ asked \in 0..MaxSos

\* A diagnosis is not asked for above the report it answers, whatever other requests post
\* meanwhile, unless its own report took longer than the gate waits.
ReportFirst == turn.at = "ask" => turn.no \in reported

\* NOT TRUE of the code: "so the diagnosis can never land above the report it answers"
\* (sos.py:803); the gate is not waited for longer than AGENT_GATE_TIMEOUT_S.
ReportAlwaysFirst == turn.at \in {"ask", "late"} => turn.no \in reported

\* The one turn all SOS share is free again in the end, also when the report could not
\* be posted, or its post hangs.
TurnComesBack == (turn.at # "none") ~> (turn.at = "none")

\* What the bot's SOS service promises.
SosHolds == SosTypeOK /\ ReportFirst

-----------------------------------------------------------------------------
CONSTANTS KitUser,
          KitWindow,   \* KIT_RATE_LIMIT_S in ticks
          MaxKits      \* bound: claims

ASSUME KitConstants == KitWindow \in Nat \ {0} /\ MaxKits \in Nat

VARIABLES kitClaim,    \* _kit_sent_at: user -> number of the claim, 0 = none
          kitAge,      \* user -> ticks since that claim
          kits,        \* claims made so far
          kitWorkers,  \* claims whose worker runs: <<user, number>>
          brokenKits   \* claims whose worker failed (history)

kitVars == <<kitClaim, kitAge, kits, kitWorkers, brokenKits>>

KitInit ==
  /\ kitClaim = [u \in KitUser |-> 0] /\ kitAge = [u \in KitUser |-> KitWindow]
  /\ kits = 0 /\ kitWorkers = {} /\ brokenKits = {}

KitAsked(u) ==
  /\ kits < MaxKits
  /\ kitClaim[u] = 0 \/ kitAge[u] >= KitWindow
  /\ kits' = kits + 1
  /\ kitClaim' = [kitClaim EXCEPT ![u] = kits']
  /\ kitAge' = [kitAge EXCEPT ![u] = 0]
  /\ kitWorkers' = kitWorkers \union {<<u, kits'>>}
  /\ UNCHANGED brokenKits

\* _forget: a failed kit gives up its own claim and no later one.
ForgotAny(u, n) == [kitClaim EXCEPT ![u] = 0]
Forgot(u, n) == [kitClaim EXCEPT ![u] = IF @ = n THEN 0 ELSE @]

KitSent(u, n) ==
  /\ <<u, n>> \in kitWorkers
  /\ kitWorkers' = kitWorkers \ {<<u, n>>}
  /\ UNCHANGED <<kitClaim, kitAge, kits, brokenKits>>

KitFailed(u, n) ==
  /\ <<u, n>> \in kitWorkers
  /\ kitWorkers' = kitWorkers \ {<<u, n>>}
  /\ kitClaim' = Forgot(u, n)
  /\ brokenKits' = brokenKits \union {n}
  /\ UNCHANGED <<kitAge, kits>>

KitRestart ==
  /\ kitWorkers # {}
  /\ kitClaim' = [u \in KitUser |-> 0] /\ kitAge' = [u \in KitUser |-> KitWindow]
  /\ kitWorkers' = {}
  /\ UNCHANGED <<kits, brokenKits>>

KitTick ==
  /\ \E u \in KitUser : kitAge[u] < KitWindow
  /\ kitAge' = [u \in KitUser |-> IF kitAge[u] < KitWindow THEN kitAge[u] + 1 ELSE KitWindow]
  /\ UNCHANGED <<kitClaim, kits, kitWorkers, brokenKits>>

KitNext ==
  \/ KitTick \/ KitRestart
  \/ \E u \in KitUser : \/ KitAsked(u)
                        \/ \E n \in 1..MaxKits : KitSent(u, n) \/ KitFailed(u, n)

KitSpec == KitInit /\ [][KitNext]_kitVars

-----------------------------------------------------------------------------
KitTypeOK ==
  /\ kitClaim \in [KitUser -> 0..MaxKits] /\ kitAge \in [KitUser -> 0..KitWindow]
  /\ kits \in 0..MaxKits /\ kitWorkers \subseteq KitUser \X (1..MaxKits)
  /\ brokenKits \subseteq 1..MaxKits

\* A user gets a second kit within the window only after the first one failed, and a kit
\* that failed blocks no other: no claim is a failed kit's, and nothing but its own
\* worker's failure takes a young claim away, late workers of older kits included.
KitClaimsHold ==
  [][KitRestart \/ \A u \in KitUser :
       /\ kitClaim'[u] \notin brokenKits'
       /\ kitClaim'[u] # kitClaim[u] =>
            kitClaim[u] = 0 \/ kitAge[u] >= KitWindow \/ kitClaim[u] \in brokenKits']_kitVars

-----------------------------------------------------------------------------
CONSTANTS Reader,       \* users whose client reported the protocol lately
          Unreachable,  \* those without a Telegram id or an address
          NoticeWait,   \* COOLDOWN_H in ticks
          MaxNotices    \* bound: runs that trigger

ASSUME ReverseConstants ==
  Unreachable \subseteq Reader /\ NoticeWait \in Nat \ {0} /\ MaxNotices \in Nat

VARIABLES claimed,     \* app_settings reverse_sos_sent: user -> ticks since
          notices,     \* runs so far
          outbox,      \* users a sender thread has still to write to
          noticeAge    \* user -> ticks since a message went out (history)

reverseVars == <<claimed, notices, outbox, noticeAge>>

ReverseInit ==
  /\ claimed = [u \in Reader |-> NoticeWait] /\ notices = 0 /\ outbox = {}
  /\ noticeAge = [u \in Reader |-> NoticeWait]

\* triggering, select_users and plan: each user once, whatever protocols reach him.
Planned(S) == {u \in S \ Unreachable : claimed[u] >= NoticeWait}

\* claim: expired entries are dropped, the recipients written, and only then is a sender
\* started; an unreadable or unwritten limiter ends it.
Claim(to) ==
  \/ /\ claimed' = [u \in Reader |-> IF u \in to THEN 0 ELSE claimed[u]]
     /\ outbox' = outbox \union to
  \/ UNCHANGED <<claimed, outbox>>

NoticesStarted(S) ==
  /\ notices < MaxNotices /\ S # {}
  /\ notices' = notices + 1
  /\ Claim(Planned(S))
  /\ UNCHANGED noticeAge

\* The sender thread: a message that fails is not sent again.
NoticeSent(u) ==
  /\ u \in outbox
  /\ outbox' = outbox \ {u}
  /\ noticeAge' \in {noticeAge, [noticeAge EXCEPT ![u] = 0]}
  /\ UNCHANGED <<claimed, notices>>

ReverseRestart ==
  /\ outbox # {} /\ outbox' = {}
  /\ UNCHANGED <<claimed, notices, noticeAge>>

\* A sender, 50 ms a message, is done within a tick.
ReverseTick ==
  /\ outbox = {} /\ \E u \in Reader : claimed[u] < NoticeWait
  /\ claimed' = [u \in Reader |-> IF claimed[u] < NoticeWait THEN claimed[u] + 1 ELSE NoticeWait]
  /\ noticeAge' = [u \in Reader |-> IF noticeAge[u] < NoticeWait THEN noticeAge[u] + 1
                                                                 ELSE NoticeWait]
  /\ UNCHANGED <<notices, outbox>>

ReverseNext ==
  \/ ReverseRestart \/ ReverseTick
  \/ \E u \in Reader : NoticeSent(u)
  \/ \E S \in SUBSET Reader : NoticesStarted(S)

ReverseSpec == ReverseInit /\ [][ReverseNext]_reverseVars

-----------------------------------------------------------------------------
ReverseTypeOK ==
  /\ claimed \in [Reader -> 0..NoticeWait] /\ noticeAge \in [Reader -> 0..NoticeWait]
  /\ notices \in 0..MaxNotices /\ outbox \subseteq Reader \ Unreachable

\* Nobody is written to twice within a day, though writes fail, processes die between
\* the claim and the sends, and a second network is demoted meanwhile.
NoticeOncePerDay ==
  [][\A u \in Reader : noticeAge'[u] = 0 /\ u \in outbox /\ u \notin outbox'
                         => noticeAge[u] = NoticeWait]_reverseVars

-----------------------------------------------------------------------------
\* Kits and warnings: a user gets another only when the first failed, or its day is over.
ClaimsHold == [](KitTypeOK /\ ReverseTypeOK) /\ KitClaimsHold /\ NoticeOncePerDay
=============================================================================
