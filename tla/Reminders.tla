------------------------------- MODULE Reminders -------------------------------
(***************************************************************************)
(* The scheduler's jobs in services/notifications.py that write to people: *)
(* the reminder to those stuck on their way to a key, the sweep that       *)
(* rejects the abandoned, the digest of open requests, the warnings of     *)
(* spent traffic and of expiry.  Every job reads its rows, then sends with *)
(* Telegram and saves what it sent in notification_log, while users and    *)
(* admins go on.  Log entries age one by one (HoursPass).                  *)
(*                                                                         *)
(* DigestDueOnce is DigestDue, and PassesOnceMore is Passes, with a bug in *)
(* it: see "mutants" in PROJECT.json.                                      *)
(***************************************************************************)
EXTENDS Integers, Sequences, SequencesExt, FiniteSets, Sublists

CONSTANTS Person,      \* users with a username, on their way to a key
          Client,      \* users with a key and a quota
          ByMail,      \* those of them who have only a mail address (ext_)
          MaxPer,      \* reminder_max_per_user, where reminders are on
          CardRows,    \* requests a digest names (20)
          Oldest,      \* persons ordered by created_at
          MaxMoves,    \* bound: moves of users and admins
          MaxForced,   \* bound: reminders sent from the dashboard
          MaxLost,     \* bound: log entries that could not be written
          LastMonth    \* bound: months

ASSUME ReminderConstants ==
  /\ ByMail \subseteq Client /\ MaxPer \in Nat /\ CardRows \in Nat \ {0}
  /\ Oldest \in Seq(Person) /\ IsInjective(Oldest) /\ ToSet(Oldest) = Person
  /\ {MaxMoves, MaxForced, MaxLost, LastMonth} \subseteq Nat

VARIABLES setting,     \* app_settings and DB_PATH: which jobs do anything at all
          limited,     \* clients whose traffic is limited
          standing,    \* users.status
          old,         \* accounts older than reminder_min_age_hours
          ancient,     \* accounts older than reminder_delete_after_days
          sender,      \* per sender of reminders: the rows left and where it is with the first
          logged,      \* notification_log: reminders of a kind to a person
          fresh,       \* <<person, kind>> logged within reminder_repeat_after_hours
          nagged,      \* reminders of a kind the job has really sent
          lost,        \* log entries that could not be written
          sweep,       \* _cleanup_abandoned_sync: the rows read
          moved,       \* persons who moved since the sweep read its rows
          digest,      \* _pending_digest_sync: the rows read
          sig, sigNew, \* pending_digest_sig, and whether it is younger than a day
          named,       \* persons whose present request an admin saw named on a card
          used,        \* what the panel counts of a person's traffic
          month,
          alerts,      \* _send_quota_threshold_alerts: traffic read, persons left
          warned,      \* notification_log: <<person, kind, month>>
          told,        \* how often a client got a warning
          unlogged,    \* warnings whose entry could not be written
          moves, forced

remindVars == <<setting, limited, standing, old, ancient, sender, logged, fresh, nagged, lost, sweep, moved,
                digest, sig, sigNew, named, used, month, alerts, warned, told, unlogged, moves, forced>>
funnelVars == <<sender, logged, fresh, nagged, forced>>
sweepVars == <<sweep, ancient>>
digestVars == <<digest, sig, sigNew>>
warnVars == <<used, month, alerts, warned, told, unlogged>>

Standing == {"new", "pending_demo", "platform_select", "demo", "rejected"}
Stuck == {"new", "platform_select"}
Sender == {"job", "dashboard"}
Level == {"low", "most", "all"}
Warning == [who : Client, of : {"most", "all"}, in : 0..LastMonth]
NothingRead == [on |-> FALSE, rows |-> {}]
Resting == [rows |-> <<>>, at |-> "gate"]
NoAlerts == [left |-> {}, seen |-> [c \in Client |-> "low"]]

RemindInit ==
  /\ setting \in [maxPer : {0, MaxPer}, sweeps : BOOLEAN, digests : BOOLEAN]
  /\ limited \in SUBSET Client
  /\ standing \in [Person -> {"new", "pending_demo"}] /\ old = {} /\ ancient = {}
  /\ sender = [s \in Sender |-> Resting]
  /\ logged = [p \in Person |-> [k \in Stuck |-> 0]] /\ fresh = {} /\ nagged = logged /\ lost = 0
  /\ sweep = NothingRead /\ moved = {} /\ digest = NothingRead /\ sig = {} /\ sigNew = FALSE /\ named = {}
  /\ used = [c \in Client |-> "low"] /\ month = 0 /\ alerts = NoAlerts /\ warned = {}
  /\ told = [w \in Warning |-> 0] /\ unlogged = 0
  /\ moves \in 0..MaxMoves /\ forced \in 0..MaxForced   \* a bound may be spent in part

-----------------------------------------------------------------------------
\* What users and admins do meanwhile (the handlers are UserLifecycle's).
Way == {<<"new", "pending_demo">>, <<"pending_demo", "platform_select">>,
        <<"pending_demo", "rejected">>, <<"platform_select", "demo">>, <<"rejected", "new">>}

Moves(p, to) ==
  /\ moves < MaxMoves /\ <<standing[p], to>> \in Way
  /\ standing' = [standing EXCEPT ![p] = to] /\ moves' = moves + 1
  /\ named' = named \ {p} /\ moved' = IF sweep.on THEN moved \union {p} ELSE moved
  /\ UNCHANGED <<setting, limited, old, lost>> /\ UNCHANGED funnelVars /\ UNCHANGED sweepVars
  /\ UNCHANGED digestVars /\ UNCHANGED warnVars

\* datetime(created_at) < datetime('now', ...): first the hours, then the days
\* (of no interest where the sweep is off).
Ages(p) ==
  /\ IF p \in old THEN setting.sweeps /\ p \notin ancient /\ ancient' = ancient \union {p} /\ UNCHANGED old
                  ELSE old' = old \union {p} /\ UNCHANGED ancient
  /\ UNCHANGED <<setting, limited, standing, sweep, moved, named, lost, moves>> /\ UNCHANGED funnelVars
  /\ UNCHANGED digestVars /\ UNCHANGED warnVars

-----------------------------------------------------------------------------
\* _remind_stuck_sync reads the statuses once, for all it is going to send.
StuckRows ==
  LET rows == Keep(Oldest, {p \in old : standing[p] \in Stuck})
  IN [i \in DOMAIN rows |-> [who |-> rows[i], of |-> standing[rows[i]]]]

SenderTo(s, value) ==
  /\ sender' = [sender EXCEPT ![s] = value]
  /\ UNCHANGED <<setting, limited, standing, old, moved, named, moves>> /\ UNCHANGED sweepVars
  /\ UNCHANGED digestVars /\ UNCHANGED warnVars

RemindStuck ==
  /\ sender["job"] = Resting /\ StuckRows # <<>>
  /\ SenderTo("job", [rows |-> StuckRows, at |-> "gate"])
  /\ UNCHANGED <<logged, fresh, nagged, lost, forced>>

\* send_reminder_to_chat from the dashboard, which forces: one row, no gates.
SendToChat(p) ==
  /\ sender["dashboard"] = Resting /\ forced < MaxForced /\ standing[p] \in Stuck
  /\ forced' = forced + 1
  /\ SenderTo("dashboard", [rows |-> <<[who |-> p, of |-> standing[p]]>>, at |-> "send"])
  /\ UNCHANGED <<logged, fresh, nagged, lost>>

\* send_reminders_to_cohort: all who are at that step, whatever their age.
Cohort(k) == Keep(Oldest, {p \in Person : standing[p] = k})

SendToCohort(k) ==
  LET cohort == Cohort(k)
  IN /\ sender["dashboard"] = Resting /\ forced < MaxForced /\ Len(cohort) > 1
     /\ forced' = forced + 1
     /\ SenderTo("dashboard", [rows |-> [i \in DOMAIN cohort |-> [who |-> cohort[i], of |-> k]],
                               at |-> "send"])
     /\ UNCHANGED <<logged, fresh, nagged, lost>>

\* _send_one_reminder: its gates read the log, the message is sent, the log is written; an
\* entry that cannot be written is passed over.
PassesOnceMore(r) == logged[r.who][r.of] <= setting.maxPer /\ <<r.who, r.of>> \notin fresh
Passes(r) == logged[r.who][r.of] < setting.maxPer /\ <<r.who, r.of>> \notin fresh

OneMore(tally, r) == [tally EXCEPT ![r.who][r.of] = @ + 1]

NextRow(s) ==
  LET left == Tail(sender[s].rows)
  IN IF left = <<>> THEN Resting
     ELSE [rows |-> left, at |-> IF s = "job" THEN "gate" ELSE "send"]

Gated ==
  LET r == Head(sender["job"].rows)
  IN /\ sender["job"].rows # <<>> /\ sender["job"].at = "gate"
     /\ SenderTo("job", IF Passes(r) THEN [sender["job"] EXCEPT !.at = "send"] ELSE NextRow("job"))
     /\ UNCHANGED <<logged, fresh, nagged, lost, forced>>

ReminderSent(s, ok) ==
  LET r == Head(sender[s].rows)
  IN /\ sender[s].rows # <<>> /\ sender[s].at = "send"
     /\ SenderTo(s, IF ok THEN [sender[s] EXCEPT !.at = "mark"] ELSE NextRow(s))
     /\ nagged' = IF ok /\ s = "job" THEN OneMore(nagged, r) ELSE nagged
     /\ UNCHANGED <<logged, fresh, lost, forced>>

ReminderMarked(s, ok) ==
  LET r == Head(sender[s].rows)
  IN /\ sender[s].rows # <<>> /\ sender[s].at = "mark"
     /\ SenderTo(s, NextRow(s))
     /\ IF ok THEN /\ logged' = OneMore(logged, r)
                   /\ fresh' = fresh \union {<<r.who, r.of>>} /\ UNCHANGED lost
              ELSE lost < MaxLost /\ lost' = lost + 1 /\ UNCHANGED <<logged, fresh>>
     /\ UNCHANGED <<nagged, forced>>

\* reminder_repeat_after_hours after an entry.
HoursPass(f) ==
  /\ f \in fresh /\ fresh' = fresh \ {f}
  /\ UNCHANGED <<setting, limited, standing, old, sender, logged, nagged, lost, moved, named, moves, forced>>
  /\ UNCHANGED sweepVars /\ UNCHANGED digestVars /\ UNCHANGED warnVars

-----------------------------------------------------------------------------
\* _cleanup_abandoned_sync: rows by status and created_at, then an UPDATE by chat_id alone.
SweepTo(value) ==
  /\ sweep' = value
  /\ UNCHANGED <<setting, limited, old, ancient, lost, moves>> /\ UNCHANGED funnelVars /\ UNCHANGED digestVars
  /\ UNCHANGED warnVars

SweepReads ==
  LET rows == {p \in ancient : standing[p] \in Stuck}
  IN /\ setting.sweeps /\ ~sweep.on /\ rows # {} /\ SweepTo([on |-> TRUE, rows |-> rows]) /\ moved' = {}
     /\ UNCHANGED <<standing, named>>

SweepRejects ==
  /\ sweep.on /\ SweepTo(NothingRead) /\ moved' = {}
  /\ standing' = [p \in Person |-> IF p \in sweep.rows THEN "rejected" ELSE standing[p]]
  /\ named' = named \ sweep.rows

-----------------------------------------------------------------------------
\* _pending_digest_sync: the signature of the rows, and whether its card is to be sent; the
\* list is cut, by the age of the account (build_pending_digest).
Open == {p \in Person : standing[p] = "pending_demo"}
OnCard(rows) ==
  LET inOrder == Keep(Oldest, rows)
  IN ToSet(SubSeq(inOrder, 1, IF Len(inOrder) < CardRows THEN Len(inOrder) ELSE CardRows))

DigestDueOnce(rows) == rows # sig
DigestDue(rows) == rows # sig \/ ~sigNew

DigestTo(value) ==
  /\ digest' = value
  /\ UNCHANGED <<setting, limited, standing, old, lost, moved, moves>> /\ UNCHANGED funnelVars
  /\ UNCHANGED sweepVars /\ UNCHANGED warnVars

DigestRuns ==
  /\ setting.digests /\ ~digest.on /\ (Open = {} => sig # {}) /\ (Open # {} => DigestDue(Open))
  /\ DigestTo(IF Open = {} THEN NothingRead ELSE [on |-> TRUE, rows |-> Open])
  /\ sig' = IF Open = {} THEN {} ELSE sig
  /\ UNCHANGED <<sigNew, named>>

\* The signature and its time are stored only after the card was sent.
DigestSent(ok) ==
  /\ digest.on /\ DigestTo(NothingRead)
  /\ IF ok THEN /\ sig' = digest.rows /\ sigNew' = TRUE
                /\ named' = named \union (OnCard(digest.rows) \intersect Open)
           ELSE UNCHANGED <<sig, sigNew, named>>

DayPasses == sigNew /\ sigNew' = FALSE /\ UNCHANGED <<sig, named>> /\ DigestTo(digest)

-----------------------------------------------------------------------------
\* _sync_traffic_to_botdb_sync mirrors the panel's counters and hands what it read on.
QuotaTo ==
  /\ UNCHANGED <<setting, limited, standing, old, lost, moved, named, moves>> /\ UNCHANGED funnelVars
  /\ UNCHANGED sweepVars /\ UNCHANGED digestVars

TrafficGrows(c) ==
  /\ c \in limited /\ used[c] # "all" /\ used' = [used EXCEPT ![c] = IF @ = "low" THEN "most" ELSE "all"]
  /\ QuotaTo /\ UNCHANGED <<month, alerts, warned, told, unlogged>>

\* The reset on the 1st (MonthlyQuota).
MonthTurns ==
  /\ month < LastMonth /\ month' = month + 1 /\ used' = [c \in Client |-> "low"]
  /\ QuotaTo /\ UNCHANGED <<alerts, warned, told, unlogged>>

ToWarn(seen, c) == seen[c] # "low" /\ [who |-> c, of |-> seen[c], in |-> month] \notin warned

TrafficSynced ==
  /\ alerts.left = {} /\ \E c \in limited : ToWarn(used, c)
  /\ alerts' = [left |-> limited, seen |-> used]
  /\ QuotaTo /\ UNCHANGED <<used, month, warned, told, unlogged>>

\* _deliver_user_notice: mail that is not set up is passed over in silence and counts as sent.
NoticeGoes(c, sent) == sent \/ c \in ByMail

\* _send_quota_threshold_alerts: the month is that of the sending; an exception of Telegram's
\* or of the log's leaves the warning to the next run.
Warned(c, sent, marked) ==
  LET w == [who |-> c, of |-> alerts.seen[c], in |-> month]
      due == ToWarn(alerts.seen, c)
      goes == NoticeGoes(c, sent)
  IN /\ c \in alerts.left
     /\ (due /\ goes /\ ~marked) => unlogged < MaxLost
     /\ alerts' = IF alerts.left = {c} THEN NoAlerts ELSE [alerts EXCEPT !.left = @ \ {c}]
     /\ told' = IF due /\ sent THEN [told EXCEPT ![w] = @ + 1] ELSE told
     /\ warned' = IF due /\ goes /\ marked THEN warned \union {w} ELSE warned
     /\ unlogged' = IF due /\ goes /\ ~marked THEN unlogged + 1 ELSE unlogged
     /\ QuotaTo /\ UNCHANGED <<used, month>>

-----------------------------------------------------------------------------
\* The two kinds of jobs touch nothing of each other's.
FunnelNext ==
  \/ \E p \in Person : Ages(p) \/ SendToChat(p) \/ \E to \in Standing : Moves(p, to)
  \/ RemindStuck \/ Gated \/ \E k \in Stuck : SendToCohort(k)
  \/ \E s \in Sender, ok \in BOOLEAN : ReminderSent(s, ok) \/ ReminderMarked(s, ok)
  \/ \E f \in fresh : HoursPass(f)
  \/ SweepReads \/ SweepRejects
  \/ DigestRuns \/ DayPasses \/ \E ok \in BOOLEAN : DigestSent(ok)

WarnNext ==
  \/ MonthTurns \/ TrafficSynced
  \/ \E c \in Client : TrafficGrows(c) \/ \E sent, marked \in BOOLEAN : Warned(c, sent, marked)

\* The jobs run again and again, and now and then Telegram takes what they send.
RemindFair ==
  /\ WF_remindVars(DigestRuns)
  /\ SF_remindVars(DigestSent(TRUE)) /\ WF_remindVars(DayPasses)

WarnFair ==
  /\ WF_remindVars(TrafficSynced)
  /\ \A c \in Client : SF_remindVars(Warned(c, TRUE, TRUE))

RemindSpec == RemindInit /\ [][FunnelNext \/ WarnNext]_remindVars /\ RemindFair /\ WarnFair
-----------------------------------------------------------------------------
RemindTypeOK ==
  /\ setting.maxPer \in {0, MaxPer} /\ limited \subseteq Client
  /\ standing \in [Person -> Standing] /\ ancient \subseteq old /\ old \subseteq Person
  /\ \A s \in Sender : sender[s].at \in {"gate", "send", "mark"}
  /\ fresh \subseteq Person \X Stuck /\ lost \in 0..MaxLost /\ moves \in 0..MaxMoves
  /\ forced \in 0..MaxForced /\ sweep.rows \union moved \union digest.rows \subseteq Person
  /\ sig \subseteq Person /\ named \subseteq Open /\ used \in [Client -> Level]
  /\ month \in 0..LastMonth /\ warned \subseteq Warning

\* The job reminds a person of one thing at most reminder_max_per_user times, however the
\* dashboard's reminders come in between, but for the entries of the log that were lost
\* (_send_one_reminder).
EnoughIsEnough ==
  \A p \in Person, k \in Stuck : nagged[p][k] <= setting.maxPer + lost

\* A warning of spent traffic is sent once a month, but for the entries that were lost.
WarnedOnce == \A w \in Warning : told[w] <= 1 + unlogged

\* A request that stays open is named on a card that reaches the admins, unless as many older
\* accounts as a card names are asking too: also one made again by somebody whose card the
\* admins already saw (pending_digest_sig and its day).
RequestsAreSeen ==
  \A p \in Person :
    setting.digests /\ p \in Open ~> p \in named \/ p \notin Open \/ p \notin OnCard(Open)

\* Who has spent everything and has a Telegram chat is told so.
ExhaustedAreTold ==
  \A c \in Client \ ByMail :
    used[c] = "all" ~> \/ used[c] # "all"
                       \/ \E m \in 0..LastMonth : told[[who |-> c, of |-> "all", in |-> m]] > 0

\* What the jobs that write to people never do: remind or warn too often.
RemindersHold == RemindTypeOK /\ EnoughIsEnough /\ WarnedOnce

\* What they do in the end: show open requests and tell of spent traffic.
RemindersProgress == RequestsAreSeen /\ ExhaustedAreTold
================================================================================
