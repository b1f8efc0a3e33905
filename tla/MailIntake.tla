----------------------------- MODULE MailIntake -----------------------------
(***************************************************************************)
(* services/mail_intake.py and MailRequestHandler of                       *)
(* handlers/callbacks/admin.py: letters of an IMAP mailbox become rows of   *)
(* email_requests, an admin's card each, and a key when a button says so;  *)
(* SosService.handle_mail_sos answers the SOS letters of key holders.      *)
(* A letter is its UID, from 1 on, which is also its Message-ID; those of  *)
(* machines and without a valid sender, which leave no row, are left out.  *)
(*                                                                         *)
(* DecidedOver is Decided with a bug in it: see "mutants" in PROJECT.json. *)
(***************************************************************************)
EXTENDS Integers, Sequences, FiniteSets, FiniteSetsExt

CONSTANTS Stranger,     \* addresses without a key
          KeyHolder,    \* contact_email of users with a key; their letters may be SOS
          Admin,        \* threads that handle a press of a card's button
          MailLetters,  \* bound: letters that arrive
          MailFaults,   \* bound: failed calls and restarts
          MailWindow    \* MAIL_SOS_DEDUP_S in ticks

ASSUME MailConstants ==
  /\ Stranger \intersect KeyHolder = {}
  /\ MailLetters \in Nat \ {0} /\ MailFaults \in Nat /\ MailWindow \in Nat \ {0}

VARIABLES inbox,      \* the senders, in order of UID
          watermark,  \* app_settings mail_intake_last_uid; 0 = no row
          baseline,   \* the first UID that counts (history)
          letters,      \* UIDs the running poll has still to process
          batchEnd,   \* max(uids) + 1 of the running poll; 0 = no poll runs
          request,    \* UID -> the letter's row: its status, or "none"
          carded,     \* UIDs whose card reached the admins
          lostMail,   \* UIDs passed over by a failure (history)
          press,      \* admin thread -> the press it is handling
          mailKeys,   \* UIDs whose sender was given a key
          replyAge,   \* key holder -> ticks since the SOS row; MailWindow = longer ago
          mailFaults

mailVars == <<inbox, watermark, baseline, letters, batchEnd, request, carded, lostMail,
              press, mailKeys, replyAge, mailFaults>>

Uid == 1..MailLetters
NoPress == [uid |-> 0, ok |-> FALSE, at |-> "idle"]
Open(a) == \E u \in 1..Len(inbox) : inbox[u] = a /\ request[u] = "pending"
MailFault == mailFaults < MailFaults /\ mailFaults' = mailFaults + 1

-----------------------------------------------------------------------------
\* Letters that lie in the mailbox before the first poll are never looked at.
MailInit ==
  /\ inbox \in {<<>>} \union {<<a>> : a \in Stranger}
  /\ watermark = 0 /\ baseline = 0
  /\ letters = {} /\ batchEnd = 0
  /\ request = [u \in Uid |-> "none"] /\ carded = {} /\ lostMail = {}
  /\ press = [a \in Admin |-> NoPress] /\ mailKeys = {}
  /\ replyAge = [a \in KeyHolder |-> MailWindow] /\ mailFaults = 0

LetterArrives(a) ==
  /\ Len(inbox) < MailLetters
  /\ inbox' = Append(inbox, a)
  /\ UNCHANGED <<watermark, baseline, letters, batchEnd, request, carded, lostMail, press,
                 mailKeys, replyAge, mailFaults>>

\* No watermark: UIDNEXT becomes one.  get_setting answers a failed read the same way.
PollBaseline ==
  /\ batchEnd = 0
  /\ watermark' = Len(inbox) + 1
  /\ \/ watermark = 0 /\ baseline' = watermark' /\ UNCHANGED <<lostMail, mailFaults>>
     \/ /\ watermark > 0 /\ MailFault
        /\ lostMail' = lostMail \union {u \in watermark..Len(inbox) : request[u] = "none"}
        /\ UNCHANGED baseline
  /\ UNCHANGED <<inbox, letters, batchEnd, request, carded, press, mailKeys, replyAge>>

PollStarts ==
  /\ batchEnd = 0 /\ watermark \in 1..Len(inbox)
  /\ letters' = watermark..Len(inbox)
  /\ batchEnd' = Len(inbox) + 1
  /\ UNCHANGED <<inbox, watermark, baseline, request, carded, lostMail, press, mailKeys,
                 replyAge, mailFaults>>

\* handle_mail_sos: the row first, then the reply; a failed reply is not tried again.
SosAnswered(u, a) ==
  IF request[u] # "none" \/ replyAge[a] < MailWindow
  THEN UNCHANGED <<request, replyAge>>
  ELSE /\ request' = [request EXCEPT ![u] = "sos"]
       /\ replyAge' = [replyAge EXCEPT ![a] = 0]

\* The rest of _process_message: at most one row per letter and one open row per address.
RequestFiled(u, a) ==
  IF request[u] # "none" \/ Open(a)
  THEN UNCHANGED <<request, carded, mailFaults>>
  ELSE /\ request' = [request EXCEPT ![u] = "pending"]
       /\ \/ carded' = carded \union {u} /\ UNCHANGED mailFaults
          \/ MailFault /\ UNCHANGED carded     \* the card is lost, the row stays

LetterProcessed ==
  /\ letters # {}
  /\ LET u == Min(letters)
         a == inbox[u]
     IN /\ letters' = letters \ {u}
        /\ \/ a \in KeyHolder /\ SosAnswered(u, a)
              /\ UNCHANGED <<carded, lostMail, mailFaults>>
           \/ \* also a key holder's, without a trigger word or when he is not found
              RequestFiled(u, a) /\ UNCHANGED <<replyAge, lostMail>>
           \/ /\ MailFault       \* the letter raises and is passed over
              /\ lostMail' = IF request[u] = "none" THEN lostMail \union {u} ELSE lostMail
              /\ UNCHANGED <<request, carded, replyAge>>
  /\ UNCHANGED <<inbox, watermark, baseline, batchEnd, press, mailKeys>>

\* The watermark is written once, at the end; a failed write reads the letters again.
PollEnds ==
  /\ batchEnd > 0 /\ letters = {}
  /\ \/ watermark' = batchEnd /\ UNCHANGED mailFaults
     \/ MailFault /\ UNCHANGED watermark
  /\ batchEnd' = 0
  /\ UNCHANGED <<inbox, baseline, letters, request, carded, lostMail, press, mailKeys, replyAge>>

\* MailRequestHandler reads the status ...
CardPressed(d, u, ok) ==
  /\ press[d].at = "idle" /\ u \in carded /\ request[u] = "pending"
  /\ press' = [press EXCEPT ![d] = [uid |-> u, ok |-> ok, at |-> "decide"]]
  /\ UNCHANGED <<inbox, watermark, baseline, letters, batchEnd, request, carded, lostMail,
                 mailKeys, replyAge, mailFaults>>

\* ... then updates WHERE status = 'pending', and does not look at what that changed.
DecidedOver(d) ==
  request' = [request EXCEPT ![press[d].uid] = IF press[d].ok THEN "approved" ELSE "rejected"]
Decided(d) ==
  LET u == press[d].uid
  IN request' = IF request[u] # "pending" THEN request
                ELSE [request EXCEPT ![u] = IF press[d].ok THEN "approved" ELSE "rejected"]

CardDecided(d) ==
  /\ press[d].at = "decide"
  /\ Decided(d)
  /\ press' = [press EXCEPT ![d] = IF press[d].ok THEN [@ EXCEPT !.at = "provision"]
                                                  ELSE NoPress]
  /\ UNCHANGED <<inbox, watermark, baseline, letters, batchEnd, carded, lostMail, mailKeys,
                 replyAge, mailFaults>>

\* _provision_email_user; after a failure the row stays approved without a key.
KeyProvisioned(d) ==
  /\ press[d].at = "provision"
  /\ \/ mailKeys' = mailKeys \union {press[d].uid} /\ UNCHANGED mailFaults
     \/ MailFault /\ UNCHANGED mailKeys
  /\ press' = [press EXCEPT ![d] = NoPress]
  /\ UNCHANGED <<inbox, watermark, baseline, letters, batchEnd, request, carded, lostMail,
                 replyAge>>

MailRestart ==
  /\ MailFault
  /\ letters' = {} /\ batchEnd' = 0
  /\ press' = [d \in Admin |-> NoPress]
  /\ UNCHANGED <<inbox, watermark, baseline, request, carded, lostMail, mailKeys, replyAge>>

MailTick ==
  /\ \E a \in KeyHolder : replyAge[a] < MailWindow
  /\ replyAge' = [a \in KeyHolder |-> IF replyAge[a] < MailWindow THEN replyAge[a] + 1
                                                                 ELSE MailWindow]
  /\ UNCHANGED <<inbox, watermark, baseline, letters, batchEnd, request, carded, lostMail,
                 press, mailKeys, mailFaults>>

MailPoll == PollBaseline \/ PollStarts \/ LetterProcessed \/ PollEnds
MailNext ==
  \/ MailPoll \/ MailRestart \/ MailTick
  \/ \E a \in Stranger \union KeyHolder : LetterArrives(a)
  \/ \E d \in Admin : \/ \E u \in Uid, ok \in BOOLEAN : CardPressed(d, u, ok)
                      \/ CardDecided(d) \/ KeyProvisioned(d)

\* The scheduler runs the poll every few minutes.
MailFairness == WF_mailVars(PollStarts \/ LetterProcessed \/ PollEnds \/ (PollBaseline /\ watermark = 0))
MailSpec == MailInit /\ [][MailNext]_mailVars /\ MailFairness

-----------------------------------------------------------------------------
MailTypeOK ==
  /\ inbox \in Seq(Stranger \union KeyHolder) /\ Len(inbox) <= MailLetters
  /\ watermark \in 0..MailLetters + 1 /\ baseline \in 0..MailLetters + 1
  /\ letters \subseteq Uid /\ batchEnd \in 0..MailLetters + 1
  /\ request \in [Uid -> {"none", "pending", "approved", "rejected", "sos"}]
  /\ carded \subseteq Uid /\ lostMail \subseteq Uid /\ mailKeys \subseteq Uid
  /\ press \in [Admin -> [uid : 0..MailLetters, ok : BOOLEAN,
                          at : {"idle", "decide", "provision"}]]
  /\ replyAge \in [KeyHolder -> 0..MailWindow] /\ mailFaults \in 0..MailFaults

\* Every letter below the watermark has its row, lost out to an older open request or
\* to a reply of the last hour, or met a failure: the poll itself skips nothing, though
\* the watermark is moved past letters that failed and batches are read again.
LettersAccounted ==
  \A u \in baseline..watermark - 1 :
    \/ u \in lostMail \/ request[u] # "none"
    \/ \E v \in 1..Len(inbox) : v < u /\ inbox[v] = inbox[u] /\ request[v] # "none"

\* However often a letter is read again, no address has two open requests.
OneOpenPerAddress ==
  \A u, v \in 1..Len(inbox) :
    request[u] = "pending" /\ request[v] = "pending" /\ inbox[u] = inbox[v] => u = v

\* A decision is final: of two admins who both saw the request open, the second changes
\* nothing in the row.
DecisionsStick ==
  [][\A u \in Uid : request[u] \in {"approved", "rejected"} => request'[u] = request[u]]_mailVars

\* A letter is read, once faults are over: the watermark passes every letter.
LettersRead ==
  \A u \in Uid : (Len(inbox) >= u) ~> (watermark > u)

\* What the mail intake promises.
MailHolds ==
  [](MailTypeOK /\ LettersAccounted /\ OneOpenPerAddress) /\ DecisionsStick
=============================================================================
