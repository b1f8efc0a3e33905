------------------------------ MODULE SubFetch ------------------------------
(***************************************************************************)
(* core/web_server.py, handle_subscription: a client fetches its profile, or*)
(* one of its proxy-providers does. The row is read once; geolocation, the  *)
(* write-back of the network and the log run in worker threads, so other    *)
(* fetches and the admin's actions fall between. users.save writes the      *)
(* whole row.                                                               *)
(*                                                                         *)
(* WritesEven is Writes with a bug in it: see "mutants" in PROJECT.json.   *)
(***************************************************************************)
EXTENDS Integers, FiniteSets

CONSTANTS FetchSlot,    \* requests that may be under way at once
          Network,      \* networks of the user
          Hop,          \* an address of ours, or a CDN edge: not a network of the user
          MaxFetches, MaxStatusMoves   \* bounds

ASSUME FetchConstants ==
  Hop \notin Network /\ MaxFetches \in Nat /\ MaxStatusMoves \in Nat

NoNetwork == "none"
Active == {"demo", "paid", "support_topic"}

VARIABLES srow,      \* the row: [status, net]
          request,   \* slot -> the request there
          fetchLog,  \* sub_fetches: networks recorded
          cameFrom,  \* networks the user fetched a profile from (history)
          fetches, statusMoves

fetchVars == <<srow, request, fetchLog, cameFrom, fetches, statusMoves>>

NoRequest == [at |-> "free", kind |-> "profile", from |-> NoNetwork, seen |-> NoNetwork,
              copy |-> [status |-> "demo", net |-> NoNetwork], code |-> 0]

FetchInit ==
  /\ srow \in [status : {"demo", "paid"}, net : {NoNetwork}]
  /\ request = [s \in FetchSlot |-> NoRequest]
  /\ fetchLog = {} /\ cameFrom = {} /\ fetches = 0 /\ statusMoves = 0

\* find_user_by_token: no key, no user (404); a row that is not active (410). The RU-zone
\* profile is refused to whoever does not pay before anything is recorded (403).
Code(row, kind) ==
  IF row.status = "keyless" THEN 404
  ELSE IF row.status \notin Active THEN 410
  ELSE IF kind = "abroad" /\ row.status # "paid" THEN 403 ELSE 200

Requested(s, kind, from) ==
  /\ request[s].at = "free" /\ fetches < MaxFetches
  /\ fetches' = fetches + 1
  /\ request' = [request EXCEPT ![s] =
       [at |-> IF Code(srow, kind) = 200 THEN "locate" ELSE "free", kind |-> kind, from |-> from,
        seen |-> NoNetwork, copy |-> srow, code |-> Code(srow, kind)]]
  /\ cameFrom' = IF kind = "provider" \/ from = Hop THEN cameFrom ELSE cameFrom \union {from}
  /\ UNCHANGED <<srow, fetchLog, statusMoves>>

\* Geolocation: a hop says nothing of the user's network, nor may a lookup.
Seen(from) == IF from = Hop THEN {NoNetwork} ELSE {from, NoNetwork}

Located(s) ==
  /\ request[s].at = "locate"
  /\ \E n \in Seen(request[s].from) :
       request' = [request EXCEPT ![s].seen = n, ![s].at = "save"]
  /\ UNCHANGED <<srow, fetchLog, cameFrom, fetches, statusMoves>>

\* The network is written with the row as it was looked up; a provider's fetch writes none.
WritesEven(r) == r.seen # NoNetwork /\ r.seen # r.copy.net
Writes(r) == r.kind # "provider" /\ r.seen # NoNetwork /\ r.seen # r.copy.net
Saved(s) ==
  LET r == request[s] IN
  /\ r.at = "save"
  /\ IF Writes(r)
     THEN \/ srow' = [r.copy EXCEPT !.net = r.seen]
             /\ request' = [request EXCEPT ![s].copy.net = r.seen, ![s].at = "log"]
          \/ UNCHANGED srow /\ request' = [request EXCEPT ![s].at = "log"]
     ELSE UNCHANGED srow /\ request' = [request EXCEPT ![s].at = "log"]
  /\ UNCHANGED <<fetchLog, cameFrom, fetches, statusMoves>>

\* sub_fetches and the answer.
Answered(s) ==
  LET r == request[s] IN
  /\ r.at = "log"
  /\ fetchLog' \in {fetchLog, IF r.kind # "provider" /\ r.seen # NoNetwork
                              THEN fetchLog \union {r.seen} ELSE fetchLog}
  /\ request' = [request EXCEPT ![s].at = "free"]
  /\ UNCHANGED <<srow, cameFrom, fetches, statusMoves>>

\* A purchase, a ban, a revoked key (user_lifecycle, billing), all targeted or on fresh rows.
StatusMoves(to) ==
  /\ statusMoves < MaxStatusMoves /\ to # srow.status
  /\ statusMoves' = statusMoves + 1
  /\ srow' = [srow EXCEPT !.status = to]
  /\ UNCHANGED <<request, fetchLog, cameFrom, fetches>>

FetchNext ==
  \/ \E s \in FetchSlot :
       \/ \E kind \in {"profile", "provider", "abroad"}, from \in Network \union {Hop} :
            Requested(s, kind, from)
       \/ Located(s) \/ Saved(s) \/ Answered(s)
  \/ \E to \in {"paid", "banned", "keyless"} : StatusMoves(to)
FetchSpec == FetchInit /\ [][FetchNext]_fetchVars

-----------------------------------------------------------------------------
FetchTypeOK ==
  /\ srow.status \in {"demo", "paid", "banned", "keyless"}
  /\ request \in [FetchSlot -> [at : {"free", "locate", "save", "log"},
       kind : {"profile", "provider", "abroad"}, from : Network \union {Hop, NoNetwork},
       seen : Network \union {NoNetwork}, code : {0, 200, 403, 404, 410},
       copy : [status : {"demo", "paid", "banned", "keyless"}, net : Network \union {NoNetwork}]]]

\* What orders this user's profile when his address says nothing, and what failure reports
\* print, is a network he fetched a profile from: not a CDN edge, an address of ours, or a
\* background refresh of a provider (web_server.py:1133-1139, 1172-1213).
NetworkIsHis == srow.net \in cameFrom \union {NoNetwork} /\ fetchLog \subseteq cameFrom

\* NOT TRUE of the code: the write-back restores the status of the row it looked up
\* (web_server.py:1226-1237), so a ban or a purchase during a fetch may be undone.
FetchKeepsStatus ==
  [][statusMoves' = statusMoves => srow'.status = srow.status]_fetchVars

\* What a fetch of the profile promises.
FetchHolds == FetchTypeOK /\ NetworkIsHis
=============================================================================
