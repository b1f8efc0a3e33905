---------------------------- MODULE MonthlyQuota ----------------------------
(***************************************************************************)
(* One user's monthly allowance: the job of the 1st, _reset_demo_quota_sync *)
(* of services/notifications.py with its paid pass, the app's raise,        *)
(* grant_app_allowance of services/demo_tiers.py, on a thread of the        *)
(* profile endpoint, and the purchase and the /quota command that change    *)
(* the same row and the same panel client.  The job passes over a payer    *)
(* whose date is past and a user who is in support when it reads the rows.  *)
(*                                                                         *)
(* JobStoredApp is JobStored with a bug in it: see "mutants" in            *)
(* PROJECT.json.                                                           *)
(***************************************************************************)
EXTENDS Integers

CONSTANTS OtherGb, AppGb,    \* the two demo allowances
          BigGb,             \* a quota the admin gave
          MaxQuotaFaults     \* bound: panel calls and row writes that fail

ASSUME QuotaConstants ==
  /\ OtherGb \in Nat \ {0} /\ AppGb \in Nat /\ BigGb \in Nat
  /\ AppGb > OtherGb /\ BigGb > AppGb
  /\ MaxQuotaFaults \in Nat

VARIABLES userRow,     \* the users row: status, the one before support (kept there only), quota, a date that is past
          panelKey,    \* the panel client: quota, spent in it, enabled
          appSeen,     \* the app fetched the profile within NEKO_APP_SEEN_DAYS
          resetDone,   \* the month's job has run or is running
          job,         \* the month's job
          grant,       \* the app's raise in progress
          quotaFaults

quotaVars == <<userRow, panelKey, appSeen, resetDone, job, grant, quotaFaults>>

Gb == {OtherGb, AppGb, BigGb}
NoJob == [at |-> "idle", gb |-> OtherGb]
NewRow == [status |-> "demo", was |-> "demo", gb |-> OtherGb, lapsed |-> FALSE]
NoGrant == [at |-> "idle", row |-> NewRow]

QuotaInit ==
  /\ userRow = NewRow
  /\ panelKey = [gb |-> OtherGb, spent |-> 0, enabled |-> TRUE]
  /\ appSeen = FALSE /\ resetDone = TRUE
  /\ job = NoJob /\ grant = NoGrant /\ quotaFaults = 0

QuotaFault == quotaFaults < MaxQuotaFaults /\ quotaFaults' = quotaFaults + 1
NoFault == UNCHANGED quotaFaults

-----------------------------------------------------------------------------
\* The calendar; an app that was not used for a week is no longer in the record.
MonthBegins ==
  /\ job.at = "idle" /\ resetDone
  /\ resetDone' = FALSE
  /\ appSeen' \in {appSeen, FALSE}
  /\ UNCHANGED <<userRow, panelKey, job, grant, quotaFaults>>

\* _reset_paid_quota_sync reads the payers first and leaves the lapsed ones off.
JobStarts ==
  /\ ~resetDone /\ job.at = "idle"
  /\ resetDone' = TRUE
  /\ \/ NoFault /\ job' = [NoJob EXCEPT !.at =
                       IF userRow.status = "paid" /\ ~userRow.lapsed THEN "paid" ELSE "demo"]
     \/ QuotaFault /\ job' = [NoJob EXCEPT !.at = "demo"]
  /\ UNCHANGED <<userRow, panelKey, appSeen, grant>>

\* Then the demo users and the app's; a read of the app's that fails is "not in the app".
JobReads ==
  /\ job.at = "demo"
  /\ \/ /\ userRow.status = "demo"
        /\ \E known \in BOOLEAN :
             /\ IF known THEN NoFault ELSE QuotaFault
             /\ job' = [at |-> "panel", gb |-> IF appSeen /\ known THEN AppGb ELSE OtherGb]
     \/ /\ IF userRow.status = "demo" THEN QuotaFault ELSE NoFault
        /\ job' = NoJob
  /\ UNCHANGED <<userRow, panelKey, appSeen, resetDone, grant>>

\* renew_client_sync: the quota, enabled, then the counters.
Renewed == [gb |-> job.gb, spent |-> 0, enabled |-> TRUE]
JobRenews ==
  /\ job.at = "panel"
  /\ \/ NoFault /\ panelKey' = Renewed /\ job' = [job EXCEPT !.at = "row"]
     \/ QuotaFault /\ UNCHANGED panelKey /\ job' = NoJob
     \/ QuotaFault /\ panelKey' = [panelKey EXCEPT !.gb = job.gb, !.enabled = TRUE] /\ job' = NoJob
  /\ UNCHANGED <<userRow, appSeen, resetDone, grant>>

\* _reset_paid_quota_sync: enabled and zeroed, the quota is the admin's.
PaidPass == [panelKey EXCEPT !.spent = 0, !.enabled = TRUE]
JobPaid ==
  /\ job.at = "paid"
  /\ \/ NoFault /\ panelKey' = PaidPass
     \/ QuotaFault /\ UNCHANGED panelKey
  /\ job' = [job EXCEPT !.at = "demo"]
  /\ UNCHANGED <<userRow, appSeen, resetDone, grant>>

JobStoredApp == [userRow EXCEPT !.gb = AppGb]
JobStored == [userRow EXCEPT !.gb = job.gb]

\* UPDATE users SET quota_gb, by e-mail; a failed write is only logged.
JobStores ==
  /\ job.at = "row"
  /\ \/ NoFault /\ userRow' = JobStored
     \/ QuotaFault /\ UNCHANGED userRow
  /\ job' = NoJob
  /\ UNCHANGED <<panelKey, appSeen, resetDone, grant>>

-----------------------------------------------------------------------------
\* The NekoVPN app fetches its profile; one raise per key at a time.
AppFetches ==
  /\ appSeen' = TRUE
  /\ grant.at = "idle"
  /\ IF userRow.status = "demo" /\ userRow.gb < AppGb
     THEN grant' = [at |-> "panel", row |-> userRow]
     ELSE UNCHANGED grant
  /\ UNCHANGED <<userRow, panelKey, resetDone, job, quotaFaults>>

GrantRaises ==
  /\ grant.at = "panel"
  /\ \/ NoFault /\ panelKey' = [panelKey EXCEPT !.gb = AppGb, !.enabled = TRUE]
                /\ grant' = [grant EXCEPT !.at = "row"]
     \/ QuotaFault /\ UNCHANGED panelKey /\ grant' = NoGrant
  /\ UNCHANGED <<userRow, appSeen, resetDone, job>>

\* save_user writes the whole row that was read before the panel call.
GrantStores == [grant.row EXCEPT !.gb = AppGb]
GrantSaves ==
  /\ grant.at = "row"
  /\ userRow' = GrantStores /\ grant' = NoGrant
  /\ UNCHANGED <<panelKey, appSeen, resetDone, job, quotaFaults>>

\* The purchase, and /quota: row and panel by one handler at any moment of the others.
Bought ==
  /\ userRow.status # "paid" \/ userRow.lapsed
  /\ userRow' = [status |-> "paid", was |-> "demo", gb |-> BigGb, lapsed |-> FALSE]
  /\ panelKey' = [panelKey EXCEPT !.gb = BigGb, !.enabled = TRUE]
  /\ UNCHANGED <<appSeen, resetDone, job, grant, quotaFaults>>

\* A payer's date passes, and the panel cuts the client.
Lapses ==
  /\ userRow.status = "paid" /\ ~userRow.lapsed
  /\ userRow' = [userRow EXCEPT !.lapsed = TRUE]
  /\ panelKey' = [panelKey EXCEPT !.enabled = FALSE]
  /\ UNCHANGED <<appSeen, resetDone, job, grant, quotaFaults>>

\* The user asks for help, and his ticket is closed; asked twice, the status before is lost.
HelpAsked ==
  /\ userRow' = [userRow EXCEPT !.was = userRow.status, !.status = "support"]
  /\ UNCHANGED <<panelKey, appSeen, resetDone, job, grant, quotaFaults>>
HelpGiven ==
  /\ userRow.status = "support"
  /\ userRow' = [userRow EXCEPT !.status = IF userRow.was = "paid" THEN "paid" ELSE "demo",
                                !.was = "demo"]
  /\ UNCHANGED <<panelKey, appSeen, resetDone, job, grant, quotaFaults>>

GivenQuota ==
  /\ userRow.gb # BigGb
  /\ userRow' = [userRow EXCEPT !.gb = BigGb]
  /\ panelKey' = [panelKey EXCEPT !.gb = BigGb]
  /\ UNCHANGED <<appSeen, resetDone, job, grant, quotaFaults>>

\* The panel counts (up to BigGb) and cuts a depleted client.
Spends ==
  /\ panelKey.enabled
  /\ LET spent == IF panelKey.spent < BigGb THEN panelKey.spent + 1 ELSE BigGb
     IN panelKey' = [panelKey EXCEPT !.spent = spent, !.enabled = spent < panelKey.gb]
  /\ UNCHANGED <<userRow, appSeen, resetDone, job, grant, quotaFaults>>

JobGoesOn == JobPaid \/ JobReads \/ JobRenews \/ JobStores
QuotaNext ==
  \/ MonthBegins \/ JobStarts \/ JobGoesOn
  \/ AppFetches \/ GrantRaises \/ GrantSaves
  \/ Bought \/ Lapses \/ HelpAsked \/ HelpGiven \/ GivenQuota \/ Spends

\* The calendar and the scheduler go on; threads end what they started; the app refreshes
\* its profile every six hours.
QuotaSpec ==
  /\ QuotaInit /\ [][QuotaNext]_quotaVars
  /\ WF_quotaVars(MonthBegins) /\ WF_quotaVars(JobStarts) /\ WF_quotaVars(JobGoesOn)
  /\ WF_quotaVars(GrantRaises \/ GrantSaves)

-----------------------------------------------------------------------------
Row == [status : {"demo", "paid", "support"}, was : {"demo", "paid", "support"}, gb : Gb, lapsed : BOOLEAN]
QuotaTypeOK ==
  /\ userRow \in Row
  /\ panelKey \in [gb : Gb, spent : 0..BigGb, enabled : BOOLEAN]
  /\ appSeen \in BOOLEAN /\ resetDone \in BOOLEAN
  /\ job \in [at : {"idle", "paid", "demo", "panel", "row"}, gb : Gb]
  /\ grant \in [at : {"idle", "panel", "row"}, row : Row]
  /\ quotaFaults \in 0..MaxQuotaFaults

\* A key that was cut works again in some later month, for a user who stays demo or a payer
\* in good standing, and for any whom the job finds again and again: one who is in support
\* on the 1st, or has not paid, waits.
Renewable == userRow.status = "demo" \/ (userRow.status = "paid" /\ ~userRow.lapsed)
CutKeyReturns ==
  (<>[]Renewable \/ []<>(job.at \in {"paid", "panel"})) => []<>(panelKey.enabled)

\* NOT TRUE of the code: "demo users get a monthly allowance forever" (notifications.py:835)
\* of every user whose key is cut: the job's query passes over those in support.
EveryCutKeyReturns == []<>(panelKey.enabled \/ userRow.lapsed)

\* A demo key the app keeps fetching gets the app's allowance again and again, whatever calls
\* failed and however the raise meets the job.
AppKeyRaised ==
  []<><<AppFetches>>_quotaVars => []<>(userRow.status # "demo" \/ panelKey.gb >= AppGb)

\* NOT TRUE of the code: the raise never touches a key that is not demo (no row goes from
\* paid to demo) (demo_tiers.py:92-93); it saves the row it read before a purchase.
PaidStays == [][userRow.status = "paid" => userRow'.status # "demo"]_quotaVars

\* What the monthly quota promises.
QuotaHolds == []QuotaTypeOK /\ CutKeyReturns /\ AppKeyRaised
=============================================================================
