---------------------------- MODULE ReserveNode ----------------------------
(***************************************************************************)
(* services/fallback_node.py and its callers: a payer who fetches his       *)
(* profile is put on the reserve panel in the background, by one pool       *)
(* thread of the web server (web_server.py, _schedule_fallback_provisioning)*)
(* or by the thread that sends an emergency kit; a revocation takes him off.*)
(* The answers of the panel are cached per uuid for the whole process.      *)
(*                                                                         *)
(* ClientAddedOver is ClientAdded with a bug in it: see "mutants" in       *)
(* PROJECT.json.                                                           *)
(***************************************************************************)
EXTENDS Integers, Sequences, SequencesExt

CONSTANTS ReserveKey,   \* uuids
          MailOf,       \* uuid -> the e-mail it was issued under
          PoolThread, KitThread,
          EnsureTtl,    \* _ENSURE_CACHE_TTL in ticks
          SkipTime,     \* _PANEL_SKIP_S in ticks
          MaxRevokes, MaxReserveFaults   \* bounds

NoUuid == "no_uuid"

ASSUME ReserveConstants ==
  /\ DOMAIN MailOf = ReserveKey /\ NoUuid \notin ReserveKey /\ PoolThread # KitThread
  /\ EnsureTtl \in Nat \ {0} /\ SkipTime \in Nat \ {0}
  /\ MaxRevokes \in Nat /\ MaxReserveFaults \in Nat

ReserveThread == {PoolThread, KitThread}
Mails == {MailOf[k] : k \in ReserveKey}

VARIABLES live,       \* uuids of the users table: at most one for each e-mail
          onPanel,    \* e-mail -> uuid on the reserve inbound, or NoUuid
          ensureCache,\* uuid -> [age, says]: _ensure_cache
          skipUntil,  \* ticks left of _panel_skip_until
          inflight,   \* _fallback_inflight
          queue,      \* calls waiting for the pool thread
          ensuring,   \* thread -> [uuid, at]: the ensure_client it runs
          revoking,   \* uuids whose removal has begun, the row not yet cleared
          revokes, reserveFaults,
          timeouts    \* timeouts of the pool thread in the present window (history)

reserveVars == <<live, onPanel, ensureCache, skipUntil, inflight, queue, ensuring, revoking,
                 revokes, reserveFaults, timeouts>>

NotCached == [age |-> EnsureTtl, says |-> FALSE]
NotEnsuring == [uuid |-> NoUuid, at |-> "idle"]

ReserveInit ==
  /\ live \in {S \in SUBSET ReserveKey : \A k, j \in S : MailOf[k] = MailOf[j] => k = j}
  /\ onPanel = [m \in Mails |-> NoUuid]
  /\ ensureCache = [k \in ReserveKey |-> NotCached]
  /\ skipUntil = 0 /\ inflight = {} /\ queue = <<>>
  /\ ensuring = [t \in ReserveThread |-> NotEnsuring]
  /\ revoking = {} /\ revokes = 0 /\ reserveFaults = 0 /\ timeouts = 0

\* A paid profile fetch: at most one call per uuid is queued or running.
ProfileFetched(k) ==
  /\ k \in live /\ k \notin inflight
  /\ inflight' = inflight \union {k} /\ queue' = Append(queue, k)
  /\ UNCHANGED <<live, onPanel, ensureCache, skipUntil, ensuring, revoking, revokes,
                 reserveFaults, timeouts>>

\* The end of ensure_client, and of the task that ran it.
Ensured(t) ==
  /\ ensuring' = [ensuring EXCEPT ![t] = NotEnsuring]
  /\ inflight' = IF t = PoolThread THEN inflight \ {ensuring[t].uuid} ELSE inflight

\* A fresh answer, or a panel that was silent a moment ago: nothing is asked.
Asks(k) == ensureCache[k].age >= EnsureTtl /\ skipUntil = 0

EnsureTaken(t, k) ==
  /\ ensuring[t] = NotEnsuring
  /\ IF t = PoolThread
     THEN queue # <<>> /\ k = Head(queue) /\ queue' = Tail(queue)
     ELSE k \in live /\ Asks(k) /\ UNCHANGED queue
  /\ \/ /\ Asks(k) /\ ensuring' = [ensuring EXCEPT ![t] = [uuid |-> k, at |-> "read"]]
        /\ UNCHANGED inflight
     \/ /\ ~Asks(k) /\ UNCHANGED ensuring
        /\ inflight' = inflight \ {k}
  /\ UNCHANGED <<live, onPanel, ensureCache, skipUntil, revoking, revokes, reserveFaults, timeouts>>

Remembered(k, says) == ensureCache' = [ensureCache EXCEPT ![k] = [age |-> 0, says |-> says]]

\* Login and the list of the inbound: present, taken by another uuid, or still to be added.
ListRead(t) ==
  LET k == ensuring[t].uuid  found == onPanel[MailOf[k]] IN
  /\ ensuring[t].at = "read"
  /\ IF found = NoUuid
     THEN ensuring' = [ensuring EXCEPT ![t].at = "add"] /\ UNCHANGED <<ensureCache, inflight>>
     ELSE Ensured(t) /\ Remembered(k, found = k)
  /\ UNCHANGED <<live, onPanel, skipUntil, queue, revoking, revokes, reserveFaults, timeouts>>

\* addClient; the panel takes no e-mail twice, and a refusal is not remembered.
ClientAddedOver(t) ==
  LET k == ensuring[t].uuid IN
  /\ ensuring[t].at = "add"
  /\ Ensured(t) /\ onPanel' = [onPanel EXCEPT ![MailOf[k]] = k] /\ Remembered(k, TRUE)
  /\ UNCHANGED <<live, skipUntil, queue, revoking, revokes, reserveFaults, timeouts>>
ClientAdded(t) ==
  LET k == ensuring[t].uuid  m == MailOf[k] IN
  /\ ensuring[t].at = "add"
  /\ Ensured(t)
  /\ IF onPanel[m] = NoUuid
     THEN onPanel' = [onPanel EXCEPT ![m] = k] /\ Remembered(k, TRUE)
     ELSE UNCHANGED <<onPanel, ensureCache>>
  /\ UNCHANGED <<live, skipUntil, queue, revoking, revokes, reserveFaults, timeouts>>

\* No answer opens the skip window; an error answer opens none. The call may have landed.
Silence(t) ==
  /\ skipUntil' = SkipTime /\ timeouts' = IF t = PoolThread THEN timeouts + 1 ELSE timeouts

EnsureFailed(t) ==
  LET k == ensuring[t].uuid  m == MailOf[k] IN
  /\ ensuring[t].at # "idle" /\ reserveFaults < MaxReserveFaults
  /\ reserveFaults' = reserveFaults + 1
  /\ Ensured(t)
  /\ Silence(t) \/ UNCHANGED <<skipUntil, timeouts>>
  /\ \/ UNCHANGED onPanel
     \/ /\ ensuring[t].at = "add" /\ onPanel[m] = NoUuid
        /\ onPanel' = [onPanel EXCEPT ![m] = k]
  /\ UNCHANGED <<live, ensureCache, queue, revoking, revokes>>

\* revoke_user_key -> remove_client: the cached answer is dropped, the panel asked whatever
\* the window says, and only then is the row cleared.
RevokeBegun(k) ==
  /\ k \in live \ revoking /\ revokes < MaxRevokes
  /\ revokes' = revokes + 1 /\ revoking' = revoking \union {k}
  /\ ensureCache' = [ensureCache EXCEPT ![k] = NotCached]
  /\ UNCHANGED <<live, onPanel, skipUntil, inflight, queue, ensuring, reserveFaults, timeouts>>

RevokeEnds(k) ==
  LET m == MailOf[k] IN
  /\ k \in revoking
  /\ revoking' = revoking \ {k} /\ live' = live \ {k}
  /\ \/ /\ onPanel' = [onPanel EXCEPT ![m] = IF @ = k THEN NoUuid ELSE @]
        /\ UNCHANGED reserveFaults
     \/ /\ reserveFaults < MaxReserveFaults /\ reserveFaults' = reserveFaults + 1
        /\ UNCHANGED onPanel
  /\ UNCHANGED <<ensureCache, skipUntil, inflight, queue, ensuring, revokes, timeouts>>

\* A new key under the same e-mail.
KeyIssued(k) ==
  /\ \A j \in live : MailOf[j] # MailOf[k]
  /\ live' = live \union {k}
  /\ UNCHANGED <<onPanel, ensureCache, skipUntil, inflight, queue, ensuring, revoking,
                 revokes, reserveFaults, timeouts>>

ReserveTick ==
  /\ \/ skipUntil > 0
     \/ \E k \in ReserveKey : ensureCache[k].age < EnsureTtl
  /\ skipUntil' = IF skipUntil = 0 THEN 0 ELSE skipUntil - 1
  /\ timeouts' = IF skipUntil > 1 THEN timeouts ELSE 0
  /\ ensureCache' = [k \in ReserveKey |->
       [ensureCache[k] EXCEPT !.age = IF @ < EnsureTtl THEN @ + 1 ELSE @]]
  /\ UNCHANGED <<live, onPanel, inflight, queue, ensuring, revoking, revokes, reserveFaults>>

EnsureMoves(t) == ListRead(t) \/ ClientAdded(t) \/ \E k \in ReserveKey : EnsureTaken(t, k)

ReserveNext ==
  \/ \E k \in ReserveKey : ProfileFetched(k) \/ RevokeBegun(k) \/ RevokeEnds(k) \/ KeyIssued(k)
  \/ \E t \in ReserveThread : EnsureMoves(t) \/ EnsureFailed(t)
  \/ ReserveTick

\* The pool thread works its queue, clients refresh every few hours, time passes.
ReserveSpec ==
  /\ ReserveInit /\ [][ReserveNext]_reserveVars
  /\ WF_reserveVars(EnsureMoves(PoolThread)) /\ WF_reserveVars(ReserveTick)
  /\ \A k \in ReserveKey : WF_reserveVars(ProfileFetched(k))

-----------------------------------------------------------------------------
ReserveTypeOK ==
  /\ live \subseteq ReserveKey /\ revoking \subseteq live
  /\ onPanel \in [Mails -> ReserveKey \union {NoUuid}]
  /\ ensureCache \in [ReserveKey -> [age : 0 .. EnsureTtl, says : BOOLEAN]]
  /\ skipUntil \in 0 .. SkipTime
  /\ ensuring \in [ReserveThread ->
       [uuid : ReserveKey \union {NoUuid}, at : {"idle", "read", "add"}]]
  /\ \A i, j \in DOMAIN queue : queue[i] = queue[j] => i = j
  /\ inflight = ToSet(queue) \union ({ensuring[PoolThread].uuid} \ {NoUuid})

\* A dead panel costs the pool one timeout per window, however many payers fetch
\* (fallback_node.py:71-75, web_server.py:1045-1051).
OneTimeoutPerWindow == timeouts <= 1

\* Provisioning never takes an e-mail away from the uuid that holds it
\* (fallback_node.py:253-259).
HolderStays ==
  [][\A m \in Mails : onPanel[m] # NoUuid => onPanel'[m] \in {onPanel[m], NoUuid}]_reserveVars

\* A payer who keeps fetching gets onto the reserve, whatever failed before, unless his
\* e-mail is held by an older uuid (fallback_node.py:224-233).
PayerGetsIn ==
  \A k \in ReserveKey :
    [](k \in live => <>(k \notin live \/ k \in revoking \/ onPanel[MailOf[k]] # NoUuid))

\* NOT TRUE of the code (fallback_node.py:292-294): "the next ensure_client for this uuid
\* must ask it again instead of trusting a pre-revoke 'present'"; a call that read the list
\* before the deletion stores its answer after it, or adds the client again.
RevokedStaysOff ==
  [][\A k \in ReserveKey :
       k \notin live => (onPanel'[MailOf[k]] = k => onPanel[MailOf[k]] = k)]_reserveVars

\* What the reserve node never does.
ReserveHolds == [](ReserveTypeOK /\ OneTimeoutPerWindow) /\ HolderStays
=============================================================================
