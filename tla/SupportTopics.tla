----------------------------- MODULE SupportTopics -----------------------------
(***************************************************************************)
(* Support in a forum group: handlers/messages.py and handlers/forum.py     *)
(* with the notices of services/notifications.py.  A user in support writes *)
(* to the bot; his first message opens a topic, the next ones are forwarded *)
(* to it, and a topic that cannot be written to is replaced by a new one.   *)
(* Admins answer in the topic and close it, which puts its log into the     *)
(* archive.  All handlers run one after another on the polling thread, but  *)
(* every step waits for Telegram.  A call may be refused; TelegramClient      *)
(* sends it again when the answer was lost, so that it is done twice, or    *)
(* gives it up although it was done.  Meanwhile admins delete topics, the  *)
(* hourly repair returns users from support, and a web thread writes back  *)
(* a whole row that it read before (sub_handler of core/web_server.py).     *)
(***************************************************************************)
EXTENDS Integers, Sequences

CONSTANTS Writer,      \* users
          MaxMsgs,     \* bound: messages of users
          Long,        \* messages that with a heading exceed Telegram's limit
          Media,       \* messages with an attachment: these have no text, a caption at most
          MaxTopics,   \* bound: topics
          MaxLapses    \* bound: calls that go wrong, crashes, prompts, rows a web thread copies

ASSUME TopicConstants ==
  /\ {MaxMsgs, MaxTopics, MaxLapses} \subseteq Nat
  /\ Long \subseteq 1..MaxMsgs /\ Media \subseteq 1..MaxMsgs

VARIABLES users,      \* users.status and support_topic_id
          owner,      \* the user every topic was made for
          forum,      \* the state of every topic
          shown,      \* where every message of a user can be read, in order
          logged,     \* ticket_messages: the messages of a topic
          archive,    \* the log a topic's closing put into the topic of solved tickets
          desk,       \* the handler that runs on the polling thread
          repairing,  \* the rows the hourly repair has read
          excused,    \* messages in whose handling a call went wrong, or that a prompt took
          renewed,    \* messages that came when the topic could not be written to
          parted,     \* topics taken from their user by a closing, a renewal or an old row
          unheard,    \* topics in which an answer of an admin was passed over
          copied,     \* the row a web thread has read whole and will write back
          restored,   \* topics that an old row has brought back
          lapses

topicVars == <<users, owner, forum, shown, logged, archive, desk, repairing, excused, renewed,
               parted, unheard, copied, restored, lapses>>

NoTopic == 0
General == 0                 \* a post without a thread goes to the group's general topic
Topic == DOMAIN owner
AtDesk == [at |-> "idle", who |-> {}, status |-> "away", topic |-> NoTopic, msg |-> 0]

TopicInit ==
  /\ users = [u \in Writer |-> [status |-> "away", topic |-> NoTopic]]
  /\ owner = <<>> /\ forum = <<>> /\ shown = <<>> /\ logged = <<>> /\ archive = <<>>
  /\ desk = AtDesk /\ repairing = {} /\ excused = {} /\ renewed = {} /\ parted = {}
  /\ unheard = {} /\ copied = {} /\ restored = {} /\ lapses = 0

\* What comes of a call: how often Telegram does it, and whether the bot is told so.
Outcome == {"done", "refused", "twice", "unseen"}
Times(o) == IF o = "refused" THEN 0 ELSE IF o = "twice" THEN 2 ELSE 1
Told(o) == o \in {"done", "twice"}
Called(o) == IF o = "done" THEN UNCHANGED lapses ELSE lapses < MaxLapses /\ lapses' = lapses + 1
Excuse(o) == excused' = IF o = "done" THEN excused ELSE excused \union {desk.msg}

Copies(o, x) == [i \in 1..Times(o) |-> x]
Posted(o, place) == shown' = [shown EXCEPT ![desk.msg] = @ \o Copies(o, place)]
DeskAt(step) == desk' = [desk EXCEPT !.at = step]

\* save_user: the whole row, from the object the handler holds.
Saved(c) == users' = [u \in Writer |-> IF u \in c.who THEN [status |-> c.status, topic |-> c.topic]
                                       ELSE users[u]]

\* _log_ticket_message: under the topic the handler found on the row.
Logged(m, t) == logged' = IF t = NoTopic THEN logged ELSE [logged EXCEPT ![t] = @ \union {m}]

-----------------------------------------------------------------------------
\* The support button: a transition from any status that has one.
SupportAsked(u) ==
  /\ desk = AtDesk /\ users[u].status = "away"
  /\ users' = [users EXCEPT ![u].status = "support"]
  /\ UNCHANGED <<owner, forum, shown, logged, archive, desk, repairing, excused, renewed, parted,
                 unheard, copied, restored, lapses>>

\* handle and handle_support_message read the row; with a topic the message is logged first.
MessageComes(u) ==
  LET m == Len(shown) + 1
      t == users[u].topic
  IN /\ desk = AtDesk /\ m <= MaxMsgs /\ users[u].status = "support"
     /\ shown' = Append(shown, <<>>)
     /\ desk' = [at |-> IF t = NoTopic THEN "create" ELSE "forward", who |-> {u},
                 status |-> "support", topic |-> t, msg |-> m]
     /\ Logged(m, t)
     /\ UNCHANGED <<users, owner, forum, archive, repairing, excused, renewed, parted, unheard,
                    copied, restored, lapses>>

\* handle asks first whether a prompt is pending, for an e-mail address or the name of a site,
\* and takes the message for the answer.
MessageTaken(u) ==
  LET m == Len(shown) + 1
  IN /\ desk = AtDesk /\ m <= MaxMsgs /\ users[u].status = "support"
     /\ shown' = Append(shown, <<>>) /\ excused' = excused \union {m}
     /\ lapses < MaxLapses /\ lapses' = lapses + 1
     /\ UNCHANGED <<users, owner, forum, logged, archive, desk, repairing, renewed, parted, unheard,
                    copied, restored>>

\* forward_to_support: into a topic that is there, unless refused.
Forwarded(o) == IF forum[desk.topic] = "gone" THEN UNCHANGED shown ELSE Posted(o, desk.topic)

MessageForwarded(o) ==
  /\ desk.at = "forward" /\ Called(o) /\ Excuse(o) /\ Forwarded(o)
  /\ IF Told(o) /\ forum[desk.topic] # "gone"
     THEN desk' = AtDesk /\ UNCHANGED <<users, renewed, parted>>
     ELSE \* the topic is taken off the row, and a new one made
          /\ desk' = [desk EXCEPT !.at = "recreate", !.topic = NoTopic] /\ Saved(desk')
          /\ renewed' = renewed \union {desk.msg} /\ parted' = parted \union {desk.topic}
  /\ UNCHANGED <<owner, forum, logged, archive, repairing, unheard, copied, restored>>

\* notify_new_support_ticket, its first call; the post after it goes to the general topic
\* if the bot knows of no new one.
TopicCreated(o) ==
  /\ desk.at \in {"create", "recreate"} /\ Called(o) /\ Excuse(o)
  /\ Len(owner) + Times(o) <= MaxTopics
  /\ \E u \in desk.who : owner' = owner \o Copies(o, u)
  /\ forum' = forum \o Copies(o, "open")
  /\ logged' = logged \o Copies(o, {}) /\ archive' = archive \o Copies(o, {})
  /\ desk' = [desk EXCEPT !.at = IF @ = "create" THEN "post" ELSE "repost",
                          !.topic = IF Told(o) THEN Len(owner') ELSE NoTopic]
  /\ UNCHANGED <<users, shown, repairing, renewed, parted, unheard, copied, restored>>

\* Its second call, the text under a heading; then the caller stores the topic, if there is one.
InText(o) ==
  IF desk.msg \in Long \union Media THEN UNCHANGED shown ELSE Posted(o, desk.topic)

TicketPosted(o) ==
  /\ desk.at = "post" /\ Called(o) /\ Excuse(o) /\ InText(o)
  /\ IF desk.topic # NoTopic THEN Saved(desk) ELSE UNCHANGED users
  /\ DeskAt("log")
  /\ UNCHANGED <<owner, forum, logged, archive, repairing, renewed, parted, unheard, copied,
                 restored>>

\* The row is read again, and the message logged under the topic it now has; the message
\* that opened the ticket is not forwarded.
TicketLogged ==
  \E u \in desk.who :
    /\ desk.at = "log" /\ desk' = AtDesk /\ Logged(desk.msg, users[u].topic)
    /\ UNCHANGED <<users, owner, forum, shown, archive, repairing, excused, renewed, parted,
                   unheard, copied, restored, lapses>>

\* forward_to_support after the new topic: the text as its first post, the row, the message.
TopicReposted(o) ==
  /\ desk.at = "repost" /\ Called(o) /\ Excuse(o) /\ InText(o)
  /\ IF desk.topic # NoTopic THEN Saved(desk) /\ DeskAt("again") ELSE desk' = AtDesk /\ UNCHANGED users
  /\ UNCHANGED <<owner, forum, logged, archive, repairing, renewed, parted, unheard, copied,
                 restored>>

ForwardedAgain(o) ==
  /\ desk.at = "again" /\ Called(o) /\ Excuse(o) /\ Forwarded(o) /\ desk' = AtDesk
  /\ UNCHANGED <<users, owner, forum, logged, archive, repairing, renewed, parted, unheard,
                 copied, restored>>

-----------------------------------------------------------------------------
\* ForumHandler.handle: an answer goes to the user whose row has the topic; in a topic of
\* nobody, an answer that names nobody is taken for chatter.
UserOf(t) == {u \in Writer : users[u].topic = t}
ReadIn(m, t) == \E i \in DOMAIN shown[m] : shown[m][i] = t

AdminAnswers(t) ==
  /\ desk = AtDesk /\ forum[t] = "open" /\ t \notin unheard /\ UserOf(t) = {}
  /\ \E m \in DOMAIN shown : ReadIn(m, t)
  /\ unheard' = unheard \union {t}
  /\ UNCHANGED <<users, owner, forum, shown, logged, archive, desk, repairing, excused, renewed,
                 parted,
                 copied, restored, lapses>>

\* handle_close_ticket for a topic of nobody.
StrayClosed(t, o) ==
  /\ desk = AtDesk /\ forum[t] = "open" /\ UserOf(t) = {} /\ Called(o)
  /\ forum' = IF o = "refused" THEN forum ELSE [forum EXCEPT ![t] = "closed"]
  /\ UNCHANGED <<users, owner, shown, logged, archive, desk, repairing, excused, renewed, parted,
                 unheard, copied, restored>>

\* The compiled log is one message, too long if one of its texts is; of an attachment it has
\* no more than a mark, and the copy asked for is of another message: the number logged is
\* the one it has in the user's own chat, the chat named is the group.
LogRefused(t, o) == o = "refused" \/ logged[t] \intersect Long # {}

\* handle_close_ticket: the user is read, the log posted, the user told and returned from
\* support; a log that is refused is passed over.
CloseBegins(t, o) ==
  \E u \in UserOf(t) :
    /\ desk = AtDesk /\ forum[t] = "open" /\ Called(o)
    /\ archive' = [archive EXCEPT ![t] = IF LogRefused(t, o) THEN {} ELSE {logged[t] \ Media}]
    /\ desk' = [at |-> "close", who |-> {u}, status |-> users[u].status, topic |-> t, msg |-> 0]
    /\ users' = [users EXCEPT ![u].status = "away"]
    /\ UNCHANGED <<owner, forum, shown, logged, repairing, excused, renewed, parted, unheard,
                   copied, restored>>

\* Then the topic is closed, if Telegram does it, and the row saved as it was read.
CloseEnds(o) ==
  /\ desk.at = "close" /\ Called(o) /\ desk' = AtDesk
  /\ forum' = IF o = "refused" \/ forum[desk.topic] = "gone" THEN forum ELSE [forum EXCEPT ![desk.topic] = "closed"]
  /\ Saved([desk EXCEPT !.topic = NoTopic]) /\ parted' = parted \union {desk.topic}
  /\ UNCHANGED <<owner, shown, logged, archive, repairing, excused, renewed, unheard, copied,
                 restored>>

-----------------------------------------------------------------------------
\* An admin deletes a topic, though not one that is being made.
TopicDeleted(t) ==
  /\ forum[t] # "gone" /\ (desk.at \in {"post", "repost", "again"} => t # desk.topic)
  /\ forum' = [forum EXCEPT ![t] = "gone"]
  /\ UNCHANGED <<users, owner, shown, logged, archive, desk, repairing, excused, renewed, parted,
                 unheard, copied, restored,
                 lapses>>

\* _repair_stuck_support_users_sync: the rows are read, then their statuses set.
StuckInSupport == {u \in Writer : users[u].status = "support" /\ users[u].topic = NoTopic}
RepairReads ==
  /\ repairing = {} /\ StuckInSupport # {} /\ repairing' = StuckInSupport
  /\ UNCHANGED <<users, owner, forum, shown, logged, archive, desk, excused, renewed, parted,
                 unheard, copied, restored,
                 lapses>>
RepairSets ==
  /\ repairing # {} /\ repairing' = {}
  /\ users' = [u \in Writer |-> IF u \in repairing THEN [users[u] EXCEPT !.status = "away"] ELSE users[u]]
  /\ UNCHANGED <<owner, forum, shown, logged, archive, desk, excused, renewed, parted, unheard,
                 copied, restored, lapses>>

\* A web thread reads a row, and writes it back whole when it knows where the user is.
RowCopied(u) ==
  /\ copied = {} /\ lapses < MaxLapses /\ lapses' = lapses + 1
  /\ copied' = {[who |-> {u}, status |-> users[u].status, topic |-> users[u].topic]}
  /\ UNCHANGED <<users, owner, forum, shown, logged, archive, desk, repairing, excused, renewed,
                 parted,
                 unheard, restored>>

RowWrittenBack ==
  \E c \in copied :
    LET now == {users[u].topic : u \in c.who}
    IN /\ copied' = {} /\ Saved(c)
       /\ parted' = parted \union (now \ {NoTopic, c.topic})
       /\ restored' = restored \union ({c.topic} \ ({NoTopic} \union now))
       /\ UNCHANGED <<owner, forum, shown, logged, archive, desk, repairing, excused, renewed,
                      unheard, lapses>>

\* The process dies; the message in hand is handled no further, and a closing that is cut
\* short does not count as one.
DeskCrash ==
  /\ desk # AtDesk /\ Called("refused") /\ desk' = AtDesk /\ repairing' = {} /\ copied' = {}
  /\ excused' = excused \union ({desk.msg} \ {0})
  /\ parted' = parted \union ({desk.topic} \ ({NoTopic} \union {users[u].topic : u \in Writer}))
  /\ archive' = IF desk.at = "close" THEN [archive EXCEPT ![desk.topic] = {}] ELSE archive
  /\ UNCHANGED <<users, owner, forum, shown, logged, renewed, unheard, restored>>

DeskMoves(o) ==
  \/ MessageForwarded(o) \/ TopicCreated(o) \/ TicketPosted(o) \/ TopicReposted(o)
  \/ ForwardedAgain(o) \/ CloseEnds(o)

TopicNext ==
  \/ \E u \in Writer : SupportAsked(u) \/ MessageComes(u) \/ MessageTaken(u) \/ RowCopied(u)
  \/ \E o \in Outcome : DeskMoves(o)
  \/ TicketLogged \/ RepairReads \/ RepairSets \/ RowWrittenBack \/ DeskCrash
  \/ \E t \in Topic :
       AdminAnswers(t) \/ TopicDeleted(t) \/ \E o \in Outcome : StrayClosed(t, o) \/ CloseBegins(t, o)

TopicSpec ==
  /\ TopicInit /\ [][TopicNext]_topicVars
  /\ WF_topicVars(\E o \in Outcome : DeskMoves(o)) /\ WF_topicVars(TicketLogged)
  /\ WF_topicVars(RepairReads) /\ WF_topicVars(RepairSets)

-----------------------------------------------------------------------------
\* Type correctness: rows, topics, logs and the handler.
TopicTypeOK ==
  /\ users \in [Writer -> [status : {"away", "support"}, topic : {NoTopic} \union Topic]]
  /\ owner \in Seq(Writer) /\ Len(owner) <= MaxTopics
  /\ {DOMAIN forum, DOMAIN logged, DOMAIN archive} = {Topic}
  /\ \A t \in Topic : forum[t] \in {"open", "closed", "gone"} /\ logged[t] \subseteq DOMAIN shown
  /\ desk.topic \in {NoTopic} \union Topic /\ parted \union unheard \union restored \subseteq Topic

Handled == DOMAIN shown \ {desk.msg}

\* A row has the topic of its own user, and never one that was taken from him: no late save
\* of the desk's brings a topic back that was closed or replaced.  Only the web thread's does,
\* of a row it read before (web_server.py:1231).
OwnTopic ==
  \A u \in Writer : users[u].topic # NoTopic
    => owner[users[u].topic] = u /\ users[u].topic \notin parted \ restored

\* Whatever a user in support writes can be read by the admins, also when they deleted his
\* topic, unless a call went wrong or a prompt took it - but for the message that opened the
\* ticket, which is never forwarded: an attachment is not in the post made of it, and too long
\* a text makes no post (forward_to_support, handle_support_message).
NothingUnread ==
  \A m \in Handled \ excused : shown[m] = <<>> => m \in (Long \union Media) \ renewed

\* It can be read once, unless the topic had to be made anew for it.
ShownOnce == \A m \in DOMAIN shown \ (renewed \union excused) : Len(shown[m]) <= 1

\* The log of a topic's closing, if Telegram took one, has every text that could be read
\* there, but for the message the topic was made anew for, which was logged under the old one,
\* and one in whose handling the process died; a topic brought back by an old row aside.
ArchiveComplete ==
  \A t \in parted \ restored : \A log \in archive[t] :
    {m \in DOMAIN shown : ReadIn(m, t)} \ (Media \union renewed \union excused) \subseteq log

\* NOT TRUE of the code: "Copy each media message into the Solved archive so the attachments
\* survive the topic closure" (forum.py:302-303); a user's was logged under its number in his
\* own chat, and the copy is asked for of the group's.
AttachmentsArchived ==
  \A t \in parted \ restored : \A log \in archive[t] :
    {m \in DOMAIN shown : ReadIn(m, t)} \ (renewed \union excused) \subseteq log

\* An answer is passed over in silence only in a topic that was taken from its user.
UnheardAreParted == unheard \subseteq parted

\* Nobody stays in support without a topic.
SupportMovesOn ==
  \A u \in Writer : users[u].status = "support" /\ users[u].topic = NoTopic
    ~> users[u].status # "support" \/ users[u].topic # NoTopic

\* What the support desk promises.
TicketsHold ==
  TopicTypeOK /\ OwnTopic /\ NothingUnread /\ ShownOnce /\ ArchiveComplete /\ UnheardAreParted
==============================================================================
