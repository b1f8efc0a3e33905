---------------------------- MODULE WritersProofs ----------------------------
(***************************************************************************)
(* Theorems about the threads that save what they have read: SubFetch, for *)
(* all networks and numbers of requests; RuleLists, for all lists, sites,  *)
(* users and limits; ProtocolCheck, for all protocols, windows and runs.   *)
(***************************************************************************)
EXTENDS MCWriters, DataLemmas, SequenceTheorems

(* SubFetch: where the network in the row comes from.                      *)

FetchStatus == {"demo", "paid", "banned", "keyless"}
FetchRow == [status : FetchStatus, net : Network \union {NoNetwork}]
FetchRequest == [at : {"free", "locate", "save", "log"},
                 kind : {"profile", "provider", "abroad"},
                 from : Network \union {Hop, NoNetwork},
                 seen : Network \union {NoNetwork}, copy : FetchRow,
                 code : {0, 200, 403, 404, 410}]

FetchTypes ==
  /\ srow \in FetchRow /\ request \in [FetchSlot -> FetchRequest]
  /\ cameFrom \subseteq Network

\* What a request under way knows of the user's network, unless it is a provider's,
\* he has shown; and what it would write back, he had shown before.
FetchKnows(r) ==
  /\ r.copy.net \in cameFrom \union {NoNetwork}
  /\ r.at # "free" /\ r.kind # "provider" =>
       /\ r.from = Hop \/ r.from \in cameFrom
       /\ r.seen \in cameFrom \union {NoNetwork}

FetchInv == FetchTypes /\ NetworkIsHis /\ \A s \in FetchSlot : FetchKnows(request[s])

\* A request that has saved the row c.
LEMMA LoggedIs ==
  ASSUME NEW r \in FetchRequest, NEW c \in FetchRow
  PROVE  [r EXCEPT !.copy = c, !.at = "log"] \in FetchRequest
<1> DEFINE p == [r EXCEPT !.copy = c]
<1>1. p \in FetchRequest
  BY DEF FetchRequest
<1>2. [r EXCEPT !.copy = c, !.at = "log"] = [p EXCEPT !.at = "log"]
  OBVIOUS
<1> HIDE DEF p
<1>3. [p EXCEPT !.at = "log"] \in FetchRequest
  BY <1>1 DEF FetchRequest
<1> QED
  BY <1>2, <1>3

\* The network that orders a user's profile, and those in the log of fetches, are
\* networks he fetched a profile from, however fetches, write-backs and purchases
\* interleave (SubFetch's FetchHolds; handle_subscription).
THEOREM NetworksStayHis == FetchSpec => []FetchHolds
<1>1. FetchInit => FetchInv
  BY DEF FetchInit, FetchInv, FetchTypes, FetchRow, FetchStatus, FetchRequest, NoRequest,
     NetworkIsHis, FetchKnows
<1>2. FetchInv /\ [FetchNext]_fetchVars => FetchInv'
  <2> SUFFICES ASSUME FetchInv, [FetchNext]_fetchVars PROVE FetchInv'
    OBVIOUS
  <2> USE DEF FetchInv
  <2>1. ASSUME NEW s \in FetchSlot, NEW kind \in {"profile", "provider", "abroad"},
               NEW from \in Network \union {Hop}, Requested(s, kind, from)
        PROVE  FetchInv'
    <3>1. Code(srow, kind) \in {200, 403, 404, 410}
      BY DEF Code
    <3> DEFINE r == [at |-> IF Code(srow, kind) = 200 THEN "locate" ELSE "free",
                     kind |-> kind, from |-> from, seen |-> NoNetwork, copy |-> srow,
                     code |-> Code(srow, kind)]
    <3>2. r \in FetchRequest
      BY <3>1 DEF FetchTypes, FetchRequest, FetchRow
    <3>3. request' = [request EXCEPT ![s] = r]
      BY <2>1 DEF Requested
    <3>4. cameFrom \subseteq cameFrom' /\ cameFrom' \subseteq Network
          /\ (kind # "provider" => from = Hop \/ from \in cameFrom')
      BY <2>1 DEF Requested, FetchTypes
    <3>5. FetchTypes'
      BY <2>1, <3>2, <3>3, <3>4 DEF Requested, FetchTypes
    <3>6. NetworkIsHis'
      BY <2>1, <3>4 DEF Requested, NetworkIsHis
    <3>7. ASSUME NEW u \in FetchSlot PROVE FetchKnows(request[u])'
      <4>1. CASE u = s
        <5>1. request'[u] = r
          BY <3>3, <4>1 DEF FetchTypes
        <5>2. srow.net \in cameFrom' \union {NoNetwork}
          BY <3>4 DEF NetworkIsHis
        <5> QED
          BY <5>1, <5>2, <3>4 DEF FetchKnows
      <4>2. CASE u # s
        BY <3>3, <3>4, <4>2 DEF FetchKnows, FetchTypes
      <4> QED
        BY <4>1, <4>2
    <3> QED
      BY <3>5, <3>6, <3>7
  <2>2. ASSUME NEW s \in FetchSlot, Located(s) PROVE FetchInv'
    <3>1. PICK n \in Seen(request[s].from) :
            request' = [request EXCEPT ![s].seen = n, ![s].at = "save"]
      BY <2>2 DEF Located
    <3>2. request[s] \in FetchRequest /\ FetchKnows(request[s]) /\ request[s].at = "locate"
      BY <2>2 DEF Located, FetchTypes
    <3>3. request'[s] = [at |-> "save", kind |-> request[s].kind, from |-> request[s].from,
                         seen |-> n, copy |-> request[s].copy, code |-> request[s].code]
      BY <3>1, <3>2 DEF FetchTypes, FetchRequest
    <3>4. n \in Network \union {NoNetwork}
          /\ (request[s].kind # "provider" => n \in cameFrom \union {NoNetwork})
      BY <3>2 DEF Seen, FetchKnows, FetchRequest
    <3>5. request'[s] \in FetchRequest
      BY <3>2, <3>3, <3>4 DEF FetchRequest
    <3>6. FetchTypes' /\ NetworkIsHis'
      BY <2>2, <3>1, <3>5 DEF Located, FetchTypes, NetworkIsHis
    <3>7. FetchKnows(request[s])'
      BY <2>2, <3>2, <3>3, <3>4 DEF Located, FetchKnows, FetchRequest
    <3>8. \A u \in FetchSlot : u # s => FetchKnows(request[u])'
      BY <2>2, <3>1 DEF Located, FetchKnows, FetchTypes
    <3> QED
      BY <3>6, <3>7, <3>8
  <2>3. ASSUME NEW s \in FetchSlot, Saved(s) PROVE FetchInv'
    <3>1. request[s] \in FetchRequest /\ FetchKnows(request[s]) /\ request[s].at = "save"
      BY <2>3 DEF Saved, FetchTypes
    <3>2. CASE /\ Writes(request[s])
               /\ srow' = [request[s].copy EXCEPT !.net = request[s].seen]
               /\ request' = [request EXCEPT ![s].copy.net = request[s].seen, ![s].at = "log"]
      <4>1. request[s].seen \in cameFrom \union {NoNetwork} /\ request[s].copy \in FetchRow
        BY <3>1, <3>2 DEF Writes, FetchKnows, FetchRequest
      <4>2. srow' \in FetchRow /\ srow'.net \in cameFrom \union {NoNetwork}
        BY <3>2, <4>1 DEF FetchRow, FetchTypes
      <4>3. request'[s] = [request[s] EXCEPT
                             !.copy = [request[s].copy EXCEPT !.net = request[s].seen],
                             !.at = "log"]
        BY <3>2 DEF FetchTypes
      <4>8. [request[s].copy EXCEPT !.net = request[s].seen] \in FetchRow
        BY <3>1, <4>1 DEF FetchRow, FetchRequest
      <4>4. /\ request'[s] \in FetchRequest
            /\ request'[s].kind = request[s].kind /\ request'[s].from = request[s].from
            /\ request'[s].seen = request[s].seen
            /\ request'[s].copy = [request[s].copy EXCEPT !.net = request[s].seen]
        <5>1. PICK r \in FetchRequest, c \in FetchRow :
                r = request[s] /\ c = [request[s].copy EXCEPT !.net = request[s].seen]
          BY <3>1, <4>8
        <5>2. request'[s] = [r EXCEPT !.copy = c, !.at = "log"]
          BY <4>3, <5>1
        <5>3. /\ request'[s] \in FetchRequest
              /\ request'[s].kind = r.kind /\ request'[s].from = r.from
              /\ request'[s].seen = r.seen /\ request'[s].copy = c
          <6>1. r \in FetchRequest /\ c \in FetchRow
            BY <5>1
          <6>2. [r EXCEPT !.copy = c, !.at = "log"] \in FetchRequest
            BY <6>1, LoggedIs
          <6>3. request'[s] \in FetchRequest
            BY <5>2, <6>2
          <6> QED
            BY <6>1, <5>2, <6>3 DEF FetchRequest
        <5> QED
          BY <5>1, <5>3
      <4>9. request'[s].copy.net = request[s].seen
        BY <4>1, <4>4 DEF FetchRow
      <4>5. FetchTypes' /\ NetworkIsHis'
        BY <2>3, <3>2, <4>2, <4>4 DEF Saved, FetchTypes, NetworkIsHis
      <4>6. FetchKnows(request[s])'
        BY <2>3, <3>1, <4>1, <4>4, <4>9 DEF Saved, FetchKnows
      <4>7. \A u \in FetchSlot : u # s => FetchKnows(request[u])'
        BY <2>3, <3>2 DEF Saved, FetchKnows, FetchTypes
      <4> QED
        BY <4>5, <4>6, <4>7
    <3>3. CASE UNCHANGED srow /\ request' = [request EXCEPT ![s].at = "log"]
      <4>1. request'[s] = [request[s] EXCEPT !.at = "log"]
        BY <3>3 DEF FetchTypes
      <4>2. request'[s] \in FetchRequest
        BY <3>1, <4>1 DEF FetchRequest
      <4>3. FetchTypes' /\ NetworkIsHis'
        BY <2>3, <3>3, <4>2 DEF Saved, FetchTypes, NetworkIsHis
      <4>4. \A u \in FetchSlot : FetchKnows(request[u])'
        BY <2>3, <3>1, <3>3, <4>1 DEF Saved, FetchKnows, FetchTypes, FetchRequest
      <4> QED
        BY <4>3, <4>4
    <3> QED
      BY <2>3, <3>2, <3>3 DEF Saved
  <2>4. ASSUME NEW s \in FetchSlot, Answered(s) PROVE FetchInv'
    <3>1. request[s] \in FetchRequest /\ FetchKnows(request[s])
      BY DEF FetchTypes
    <3>2. request' = [request EXCEPT ![s].at = "free"]
      BY <2>4 DEF Answered
    <3>3. request'[s] = [request[s] EXCEPT !.at = "free"]
      BY <3>2 DEF FetchTypes
    <3>4. request'[s] \in FetchRequest
      BY <3>1, <3>3 DEF FetchRequest
    <3>5. fetchLog' \subseteq cameFrom
      BY <2>4, <3>1 DEF Answered, FetchKnows, NetworkIsHis
    <3>6. FetchTypes' /\ NetworkIsHis'
      BY <2>4, <3>2, <3>4, <3>5 DEF Answered, FetchTypes, NetworkIsHis
    <3>7. \A u \in FetchSlot : FetchKnows(request[u])'
      BY <2>4, <3>1, <3>2, <3>3 DEF Answered, FetchKnows, FetchTypes, FetchRequest
    <3> QED
      BY <3>6, <3>7
  <2>5. ASSUME NEW to \in {"paid", "banned", "keyless"}, StatusMoves(to) PROVE FetchInv'
    <3>1. srow' \in FetchRow /\ srow'.net = srow.net
      BY <2>5 DEF StatusMoves, FetchTypes, FetchRow, FetchStatus
    <3> QED
      BY <2>5, <3>1 DEF StatusMoves, FetchTypes, NetworkIsHis, FetchKnows
  <2>6. CASE UNCHANGED fetchVars
    BY <2>6 DEF fetchVars, FetchTypes, NetworkIsHis, FetchKnows
  <2> QED
    BY <2>1, <2>2, <2>3, <2>4, <2>5, <2>6 DEF FetchNext
<1>3. FetchInv => FetchHolds
  BY DEF FetchInv, FetchHolds, FetchTypes, FetchTypeOK, FetchRow, FetchStatus, FetchRequest
<1> QED
  BY <1>1, <1>2, <1>3, PTL DEF FetchSpec
-----------------------------------------------------------------------------
(* RuleLists: types, with the finiteness the counts need.                  *)

RuleTypes ==
  /\ lists \in [RuleList -> SUBSET Site]
  /\ \A n \in RuleList : IsFiniteSet(lists[n]) /\ Cardinality(lists[n]) <= MaxEntries
  /\ copy \in [ServedList -> SUBSET Site] /\ takenOut \in [ServedList -> SUBSET Site]
  /\ pendingAge \in [Complainer -> [Site -> 0..KeepDays]]
  /\ today \in [Complainer -> 0..DailyLimit]
  /\ ignoredAge \in [Site -> 0..IgnoreDays] /\ saidNoAge \in [Site -> 0..IgnoreDays]
  /\ ruleFaults \in 0..RuleFaults /\ deciding \in Site \union {NoSite}
  /\ voices \in [Site -> SUBSET Complainer] /\ \A d \in Site : IsFiniteSet(voices[d])

LEMMA AgesInRange ==
  /\ KeepDays \in 0..KeepDays /\ IgnoreDays \in 0..IgnoreDays
  /\ 0 \in 0..KeepDays /\ 0 \in 0..IgnoreDays /\ KeepDays # 0
  BY RuleConstants DEF RuleConstants

LEMMA SettledType ==
  ASSUME RuleTypes, NEW d \in Site
  PROVE  /\ Settled(d) \in [Complainer -> [Site -> 0..KeepDays]]
         /\ \A u \in Complainer, e \in Site :
              Settled(d)[u][e] = IF e = d THEN KeepDays ELSE pendingAge[u][e]
  BY AgesInRange DEF Settled, RuleTypes

LEMMA FaultCounted ==
  RuleTypes /\ RuleFault => ruleFaults' \in 0..RuleFaults
  BY RuleConstants DEF RuleTypes, RuleFault, RuleConstants

LEMMA AddToTypes ==
  ASSUME RuleTypes, NEW n \in RuleList, NEW d \in Site, AddTo(n, d),
         UNCHANGED <<today, copy>>, deciding' \in Site \union {NoSite}
  PROVE  RuleTypes'
<1>1. /\ IsFiniteSet(lists[n] \union {d})
      /\ Cardinality(lists[n] \union {d}) <= MaxEntries
  <2>1. /\ IsFiniteSet(lists[n]) /\ Cardinality(lists[n]) < MaxEntries
        /\ MaxEntries \in Nat
    BY RuleConstants DEF AddTo, RuleTypes, RuleConstants
  <2>2. Cardinality(lists[n]) \in Nat
    BY <2>1, FS_CardinalityType
  <2>3. /\ IsFiniteSet(lists[n] \union {d})
        /\ Cardinality(lists[n] \union {d}) =
             IF d \in lists[n] THEN Cardinality(lists[n]) ELSE Cardinality(lists[n]) + 1
    BY <2>1, FS_AddElement
  <2> QED
    BY <2>1, <2>2, <2>3
<1>2. lists' = [lists EXCEPT ![n] = lists[n] \union {d}]
  BY DEF AddTo
<1>3. /\ lists' \in [RuleList -> SUBSET Site]
      /\ \A m \in RuleList : IsFiniteSet(lists'[m]) /\ Cardinality(lists'[m]) <= MaxEntries
  BY <1>1, <1>2 DEF RuleTypes
<1>4. takenOut' \in [ServedList -> SUBSET Site]
  BY DEF AddTo, RuleTypes
<1>5. voices' \in [Site -> SUBSET Complainer] /\ \A e \in Site : IsFiniteSet(voices'[e])
  BY FS_EmptySet DEF AddTo, RuleTypes
<1>6. saidNoAge' \in [Site -> 0..IgnoreDays]
  BY AgesInRange DEF AddTo, RuleTypes
<1>7. /\ pendingAge' \in [Complainer -> [Site -> 0..KeepDays]]
      /\ ignoredAge' \in [Site -> 0..IgnoreDays] /\ ruleFaults' \in 0..RuleFaults
  <2>1. CASE UNCHANGED <<pendingAge, ignoredAge, saidNoAge, voices, ruleFaults>>
    BY <2>1 DEF RuleTypes
  <2>2. CASE /\ pendingAge' = Settled(d)
             /\ ignoredAge' = [ignoredAge EXCEPT ![d] = IgnoreDays]
             /\ UNCHANGED ruleFaults
    BY <2>2, AgesInRange, SettledType DEF RuleTypes
  <2>3. CASE RuleFault /\ UNCHANGED <<pendingAge, ignoredAge>>
    BY <2>3, FaultCounted DEF RuleTypes
  <2> QED
    BY <2>1, <2>2, <2>3 DEF AddTo
<1> QED
  BY <1>3, <1>4, <1>5, <1>6, <1>7 DEF RuleTypes

LEMMA SaidNoTypes ==
  ASSUME RuleTypes, NEW d \in Site, SaidNo(d)
  PROVE  /\ pendingAge' \in [Complainer -> [Site -> 0..KeepDays]]
         /\ ignoredAge' \in [Site -> 0..IgnoreDays] /\ saidNoAge' \in [Site -> 0..IgnoreDays]
         /\ ruleFaults' \in 0..RuleFaults
         /\ voices' \in [Site -> SUBSET Complainer]
         /\ \A e \in Site : IsFiniteSet(voices'[e])
<1>1. CASE RuleFault /\ UNCHANGED <<pendingAge, ignoredAge, saidNoAge, voices>>
  BY <1>1, FaultCounted DEF RuleTypes
<1>2. CASE /\ pendingAge' = Settled(d) /\ voices' = [voices EXCEPT ![d] = {}]
           /\ ignoredAge' = [ignoredAge EXCEPT ![d] = 0]
           /\ saidNoAge' = [saidNoAge EXCEPT ![d] = 0] /\ UNCHANGED ruleFaults
  BY <1>2, AgesInRange, SettledType, FS_EmptySet DEF RuleTypes
<1> QED
  BY <1>1, <1>2 DEF SaidNo

LEMMA RuleTypesKept == RuleTypes /\ [RuleNext]_ruleVars => RuleTypes'
<1> SUFFICES ASSUME RuleTypes, [RuleNext]_ruleVars PROVE RuleTypes'
  OBVIOUS
<1>1. CASE NextDay
  <2>1. /\ pendingAge' \in [Complainer -> [Site -> 0..KeepDays]]
        /\ ignoredAge' \in [Site -> 0..IgnoreDays] /\ saidNoAge' \in [Site -> 0..IgnoreDays]
    BY <1>1, RuleConstants DEF NextDay, RuleTypes, RuleConstants
  <2>2. today' \in [Complainer -> 0..DailyLimit]
    BY <1>1, RuleConstants DEF NextDay, RuleConstants
  <2>3. voices' \in [Site -> SUBSET Complainer] /\ \A d \in Site : IsFiniteSet(voices'[d])
    BY <1>1, FS_EmptySet DEF NextDay
  <2> QED
    BY <1>1, <2>1, <2>2, <2>3 DEF NextDay, RuleTypes
<1>2. CASE AutoPassed
  BY <1>2, RuleConstants DEF AutoPassed, RuleFault, historyVars, RuleTypes, RuleConstants
<1>3. ASSUME NEW n \in ServedList, ProviderFetched(n) PROVE RuleTypes'
  BY <1>3, RuleConstants
  DEF ProviderFetched, Served, historyVars, RuleTypes, RuleConstants
<1>4. ASSUME NEW n \in RuleList, NEW d \in Site, ListAdded(n, d) PROVE RuleTypes'
  BY <1>4, AddToTypes DEF ListAdded, RuleTypes
<1>5. ASSUME NEW n \in RuleList, NEW d \in Site, ListRemoved(n, d) PROVE RuleTypes'
  <2>1. /\ IsFiniteSet(lists[n] \ {d}) /\ Cardinality(lists[n] \ {d}) <= MaxEntries
    <3>1. IsFiniteSet(lists[n]) /\ Cardinality(lists[n]) <= MaxEntries /\ MaxEntries \in Nat
      BY RuleConstants DEF RuleTypes, RuleConstants
    <3>2. /\ IsFiniteSet(lists[n] \ {d})
          /\ Cardinality(lists[n] \ {d}) <= Cardinality(lists[n])
      BY <3>1, FS_Subset
    <3>3. Cardinality(lists[n]) \in Nat /\ Cardinality(lists[n] \ {d}) \in Nat
      BY <3>1, <3>2, FS_CardinalityType
    <3> QED
      BY <3>1, <3>2, <3>3
  <2>2. /\ lists' \in [RuleList -> SUBSET Site]
        /\ \A m \in RuleList : IsFiniteSet(lists'[m])
                               /\ Cardinality(lists'[m]) <= MaxEntries
    BY <1>5, <2>1 DEF ListRemoved, RuleTypes
  <2>3. takenOut' \in [ServedList -> SUBSET Site]
    BY <1>5 DEF ListRemoved, RuleTypes
  <2>4. CASE SaidNo(d)
    BY <1>5, <2>2, <2>3, <2>4, SaidNoTypes DEF ListRemoved, RuleTypes
  <2>5. CASE UNCHANGED <<pendingAge, ignoredAge, saidNoAge, voices, ruleFaults>>
    BY <1>5, <2>2, <2>3, <2>5 DEF ListRemoved, RuleTypes
  <2> QED
    BY <1>5, <2>4, <2>5 DEF ListRemoved
<1>6. ASSUME NEW d \in Site, CoveredSettled(d) PROVE RuleTypes'
  BY <1>6, SettledType, FS_EmptySet DEF CoveredSettled, RuleTypes
<1>7. ASSUME NEW d \in Site, ComplaintIgnored(d) PROVE RuleTypes'
  BY <1>7, SaidNoTypes DEF ComplaintIgnored, RuleTypes
<1>8. ASSUME NEW d \in Site, AutoAdded(d) PROVE RuleTypes'
  <2>1. "blocked-recent" \in RuleList
    BY RuleConstants DEF RuleConstants, RuleList
  <2> QED
    BY <1>8, <2>1, AddToTypes DEF AutoAdded
<1>9. ASSUME NEW d \in Site, NEW u \in Complainer, Complained(u, d) PROVE RuleTypes'
  <2>1. IsFiniteSet(voices[d] \union {u})
    BY FS_AddElement DEF RuleTypes
  <2>2. voices' \in [Site -> SUBSET Complainer] /\ \A e \in Site : IsFiniteSet(voices'[e])
    BY <1>9, <2>1 DEF Complained, RuleTypes
  <2>3. pendingAge' \in [Complainer -> [Site -> 0..KeepDays]]
    BY <1>9, AgesInRange DEF Complained, RuleTypes
  <2>4. today' \in [Complainer -> 0..DailyLimit]
    BY <1>9, RuleConstants DEF Complained, RuleTypes, RuleConstants
  <2> QED
    BY <1>9, <2>2, <2>3, <2>4 DEF Complained, RuleTypes
<1>10. CASE UNCHANGED ruleVars
  BY <1>10 DEF ruleVars, RuleTypes
<1> QED
  BY <1>1, <1>2, <1>3, <1>4, <1>5, <1>6, <1>7, <1>8, <1>9, <1>10 DEF RuleNext

\* The lists, the queue and the ages of the operator's noes stay in range, and no list
\* outgrows its bound, whatever calls fail (RuleLists' RuleTypeOK; add_entry, _prune_queue).
THEOREM RuleTypesHold == RuleSpec => []RuleTypeOK
<1>1. RuleInit => RuleTypes
  <2>1. IsFiniteSet({}) /\ Cardinality({}) = 0
    BY FS_EmptySet
  <2> QED
    BY <2>1, AgesInRange, RuleConstants DEF RuleInit, RuleTypes, RuleConstants
<1>2. RuleTypes => RuleTypeOK
  BY DEF RuleTypes, RuleTypeOK
<1> QED
  BY <1>1, <1>2, RuleTypesKept, PTL DEF RuleSpec
-----------------------------------------------------------------------------
(* What the automatic rule and the clients' copies can rely on.            *)

\* A no that was written is at least as young in the queue's record.
NoesRemembered == \A d \in Site : ignoredAge[d] <= saidNoAge[d]

\* What a client still has and the list has not was taken out.
CopiesExplained == \A n \in ServedList : copy[n] \subseteq lists[n] \union takenOut[n]

\* A complaint of today that no longer counts is left over from the one failed write,
\* and the site it is about is on a list.
VoicesExplained ==
  \A d \in Site, u \in Complainer : pendingAge[u][d] = 0 /\ u \notin voices[d] =>
    ruleFaults = RuleFaults /\ \E n \in VpnList : d \in lists[n]

LEMMA NoesKept == RuleTypes /\ NoesRemembered /\ [RuleNext]_ruleVars => NoesRemembered'
<1> SUFFICES ASSUME RuleTypes, NoesRemembered, [RuleNext]_ruleVars PROVE NoesRemembered'
  OBVIOUS
<1>1. \A d \in Site : /\ ignoredAge[d] \in 0..IgnoreDays /\ saidNoAge[d] \in 0..IgnoreDays
                      /\ ignoredAge[d] <= saidNoAge[d]
  BY DEF RuleTypes, NoesRemembered
<1>2. IgnoreDays \in Nat
  BY RuleConstants DEF RuleConstants
<1>3. ASSUME NEW d \in Site, SaidNo(d) PROVE NoesRemembered'
  BY <1>1, <1>3 DEF SaidNo, NoesRemembered, RuleTypes
<1>4. ASSUME NEW n \in RuleList, NEW d \in Site, AddTo(n, d) PROVE NoesRemembered'
  BY <1>1, <1>2, <1>4 DEF AddTo, NoesRemembered, RuleTypes
<1>5. CASE NextDay
  BY <1>1, <1>2, <1>5 DEF NextDay, NoesRemembered
<1>6. CASE UNCHANGED <<ignoredAge, saidNoAge>>
  BY <1>6 DEF NoesRemembered
<1>7. "blocked-recent" \in RuleList
  BY RuleConstants DEF RuleConstants, RuleList
<1>8. ASSUME NEW n \in RuleList, NEW d \in Site, ListRemoved(n, d) PROVE NoesRemembered'
  BY <1>3, <1>6, <1>8 DEF ListRemoved
<1> QED
  BY <1>3, <1>4, <1>5, <1>6, <1>7, <1>8
  DEF RuleNext, AutoPassed, ProviderFetched, ListAdded, CoveredSettled, ComplaintIgnored,
      AutoAdded, Complained, historyVars, ruleVars

LEMMA CopiesKept == RuleTypes /\ CopiesExplained /\ [RuleNext]_ruleVars => CopiesExplained'
<1> SUFFICES ASSUME RuleTypes, CopiesExplained, [RuleNext]_ruleVars, NEW m \in ServedList
             PROVE  copy'[m] \subseteq lists'[m] \union takenOut'[m]
  BY DEF CopiesExplained
<1>1. copy[m] \subseteq lists[m] \union takenOut[m] /\ m \in RuleList
  BY RuleConstants DEF CopiesExplained, RuleConstants
<1>2. ASSUME NEW n \in RuleList, NEW d \in Site, AddTo(n, d), copy' = copy
      PROVE  copy'[m] \subseteq lists'[m] \union takenOut'[m]
  BY <1>1, <1>2 DEF AddTo, RuleTypes
<1>3. ASSUME NEW n \in RuleList, NEW d \in Site, ListRemoved(n, d)
      PROVE  copy'[m] \subseteq lists'[m] \union takenOut'[m]
  BY <1>1, <1>3 DEF ListRemoved, RuleTypes
<1>4. ASSUME NEW n \in ServedList, ProviderFetched(n)
      PROVE  copy'[m] \subseteq lists'[m] \union takenOut'[m]
  BY <1>1, <1>4 DEF ProviderFetched, Served, historyVars, RuleTypes
<1>5. CASE UNCHANGED <<lists, copy, takenOut>>
  BY <1>1, <1>5
<1>6. "blocked-recent" \in RuleList
  BY RuleConstants DEF RuleConstants, RuleList
<1> QED
  BY <1>2, <1>3, <1>4, <1>5, <1>6
  DEF RuleNext, NextDay, AutoPassed, ListAdded, CoveredSettled, ComplaintIgnored,
      AutoAdded, Complained, historyVars, ruleVars

LEMMA VoicesKept ==
  ASSUME RuleFaults <= 1
  PROVE  RuleTypes /\ VoicesExplained /\ [RuleNext]_ruleVars => VoicesExplained'
<1> SUFFICES ASSUME RuleTypes, VoicesExplained, [RuleNext]_ruleVars,
                    NEW e \in Site, NEW v \in Complainer,
                    pendingAge'[v][e] = 0, v \notin voices'[e]
             PROVE  ruleFaults' = RuleFaults /\ \E n \in VpnList : e \in lists'[n]
  BY DEF VoicesExplained
<1> DEFINE Goal == ruleFaults' = RuleFaults /\ \E n \in VpnList : e \in lists'[n]
<1>1. pendingAge[v][e] = 0 /\ v \notin voices[e]
        => ruleFaults = RuleFaults /\ \E n \in VpnList : e \in lists[n]
  BY DEF VoicesExplained
<1>2. RuleFaults \in Nat /\ ruleFaults \in 0..RuleFaults /\ KeepDays \in Nat \ {0}
  BY RuleConstants DEF RuleTypes, RuleConstants
<1>3. RuleFault => ruleFaults' = RuleFaults /\ ruleFaults # RuleFaults
  BY <1>2 DEF RuleFault
<1>4. ASSUME NEW n \in RuleList, NEW d \in Site, AddTo(n, d) PROVE Goal
  <2>1. \A m \in RuleList : lists[m] \subseteq lists'[m]
    BY <1>4 DEF AddTo, RuleTypes
  <2>2. \A m \in VpnList : m \in RuleList
    BY DEF RuleList
  <2>3. CASE UNCHANGED <<pendingAge, ignoredAge, saidNoAge, voices, ruleFaults>>
    BY <1>1, <2>1, <2>2, <2>3
  <2>4. CASE n \in VpnList
    <3>1. d \in lists'[n] /\ voices' = [voices EXCEPT ![d] = {}]
      BY <1>4, <2>4 DEF AddTo, RuleTypes
    <3>2. CASE pendingAge' = Settled(d) /\ UNCHANGED ruleFaults
      <4>1. e # d /\ pendingAge[v][e] = 0
        BY <1>2, <3>2, SettledType
      <4>2. voices'[e] = voices[e]
        BY <3>1, <4>1 DEF RuleTypes
      <4> QED
        BY <1>1, <2>1, <2>2, <3>2, <4>1, <4>2
    <3>3. CASE RuleFault /\ UNCHANGED <<pendingAge, ignoredAge>>
      <4>1. CASE e = d
        BY <1>3, <2>4, <3>1, <3>3, <4>1
      <4>2. CASE e # d
        BY <1>1, <1>3, <3>1, <3>3, <4>2 DEF RuleTypes
      <4> QED
        BY <4>1, <4>2
    <3> QED
      BY <1>4, <2>4, <3>2, <3>3 DEF AddTo
  <2> QED
    BY <1>4, <2>3, <2>4 DEF AddTo
<1>5. ASSUME NEW d \in Site, SaidNo(d),
             \A m \in VpnList : e # d => lists'[m] \cap {e} = lists[m] \cap {e}
      PROVE  Goal
  <2>1. CASE pendingAge' = Settled(d) /\ voices' = [voices EXCEPT ![d] = {}]
             /\ UNCHANGED ruleFaults
    <3>1. e # d /\ pendingAge[v][e] = 0
      BY <1>2, <2>1, SettledType
    <3>2. voices'[e] = voices[e]
      BY <2>1, <3>1 DEF RuleTypes
    <3> QED
      BY <1>1, <1>5, <2>1, <3>1, <3>2
  <2>2. CASE RuleFault /\ UNCHANGED <<pendingAge, ignoredAge, saidNoAge, voices>>
    BY <1>1, <1>3, <2>2
  <2> QED
    BY <1>5, <2>1, <2>2 DEF SaidNo
<1>6. ASSUME NEW n \in RuleList, NEW d \in Site, ListRemoved(n, d) PROVE Goal
  <2>1. \A m \in RuleList : e # d => lists'[m] \cap {e} = lists[m] \cap {e}
    BY <1>6 DEF ListRemoved, RuleTypes
  <2>2. CASE n \in VpnList
    <3>1. SaidNo(d)
      BY <1>6, <2>2 DEF ListRemoved
    <3> QED
      BY <1>5, <2>1, <3>1 DEF RuleList
  <2>3. CASE n \notin VpnList
    <3>1. \A m \in VpnList : lists'[m] = lists[m]
      BY <1>6, <2>3 DEF ListRemoved, RuleTypes, RuleList
    <3>2. UNCHANGED <<pendingAge, voices, ruleFaults>>
      BY <1>6, <2>3 DEF ListRemoved
    <3> QED
      BY <1>1, <3>1, <3>2
  <2> QED
    BY <2>2, <2>3
<1>7. ASSUME NEW d \in Site, CoveredSettled(d) PROVE Goal
  <2>1. e # d /\ pendingAge[v][e] = 0
    BY <1>2, <1>7, SettledType DEF CoveredSettled
  <2>2. voices'[e] = voices[e]
    BY <1>7, <2>1 DEF CoveredSettled, RuleTypes
  <2> QED
    BY <1>1, <1>7, <2>1, <2>2 DEF CoveredSettled
<1>8. ASSUME NEW d \in Site, ComplaintIgnored(d) PROVE Goal
  BY <1>5, <1>8 DEF ComplaintIgnored
<1>9. ASSUME NEW d \in Site, NEW u \in Complainer, Complained(u, d) PROVE Goal
  <2>1. pendingAge[v][e] = 0 /\ v \notin voices[e]
    BY <1>9 DEF Complained, RuleTypes
  <2> QED
    BY <1>1, <1>9, <2>1 DEF Complained
<1>10. CASE NextDay
  <2>1. pendingAge'[v][e] # 0
    BY <1>2, <1>10 DEF NextDay, RuleTypes
  <2> QED
    BY <2>1
<1>11. CASE AutoPassed
  BY <1>1, <1>3, <1>11 DEF AutoPassed, historyVars
<1>12. ASSUME NEW n \in ServedList, ProviderFetched(n) PROVE Goal
  BY <1>1, <1>12 DEF ProviderFetched, historyVars
<1>13. CASE UNCHANGED ruleVars
  BY <1>1, <1>13 DEF ruleVars
<1>14. ASSUME NEW d \in Site, AutoAdded(d) PROVE Goal
  BY <1>4, <1>14, RuleConstants DEF AutoAdded, RuleConstants, RuleList
<1> QED
  BY <1>4, <1>6, <1>7, <1>8, <1>9, <1>10, <1>11, <1>12, <1>13, <1>14
  DEF RuleNext, ListAdded

LEMMA RuleListsStart ==
  RuleInit => RuleTypes /\ NoesRemembered /\ CopiesExplained /\ VoicesExplained
<1>1. IsFiniteSet({}) /\ Cardinality({}) = 0
  BY FS_EmptySet
<1>2. RuleInit => RuleTypes
  BY <1>1, AgesInRange, RuleConstants DEF RuleInit, RuleTypes, RuleConstants
<1>3. RuleInit => NoesRemembered
  BY RuleConstants DEF RuleInit, NoesRemembered, RuleConstants
<1>4. RuleInit => CopiesExplained
  BY DEF RuleInit, CopiesExplained
<1>5. RuleInit => VoicesExplained
  BY AgesInRange DEF RuleInit, VoicesExplained
<1> QED
  BY <1>2, <1>3, <1>4, <1>5

\* What the automatic rule adds, no list covers, the operator has not refused as long
\* as his no holds, and enough users complained about.
LEMMA AutoAddedSound ==
  ASSUME RuleTypes, NoesRemembered, NEW d \in Site, AutoAdded(d)
  PROVE  /\ saidNoAge[d] = IgnoreDays /\ d \notin RuZone
         /\ ({d} \union Above[d]) \intersect lists["ru-direct"] = {}
         /\ VoicesExplained => Cardinality(voices[d]) >= AutoThreshold
<1>1. AutoFree(d) /\ Cardinality({u \in Complainer : pendingAge[u][d] = 0}) >= AutoThreshold
  BY DEF AutoAdded, Decided
<1>2. saidNoAge[d] = IgnoreDays
  <2>1. /\ ignoredAge[d] \in 0..IgnoreDays /\ saidNoAge[d] \in 0..IgnoreDays
        /\ ignoredAge[d] <= saidNoAge[d] /\ ignoredAge[d] >= IgnoreDays
    BY <1>1 DEF RuleTypes, NoesRemembered, AutoFree
  <2> QED
    BY <2>1, RuleConstants DEF RuleConstants
<1>3. \A n \in RuleList : ({d} \union Above[d]) \intersect lists[n] = {}
  BY <1>1 DEF AutoFree, Covered
<1>4. ASSUME VoicesExplained PROVE Cardinality(voices[d]) >= AutoThreshold
  <2> DEFINE open == {u \in Complainer : pendingAge[u][d] = 0}
  <2>1. open \subseteq voices[d]
    BY <1>3, <1>4 DEF VoicesExplained, RuleList
  <2>2. IsFiniteSet(voices[d])
    BY DEF RuleTypes
  <2>3. IsFiniteSet(open) /\ Cardinality(open) <= Cardinality(voices[d])
    BY <2>1, <2>2, FS_Subset
  <2>4. Cardinality(open) \in Nat /\ Cardinality(voices[d]) \in Nat
    BY <2>2, <2>3, FS_CardinalityType
  <2> QED
    BY <1>1, <2>3, <2>4, RuleConstants DEF RuleConstants
<1> QED
  BY <1>1, <1>2, <1>3, <1>4 DEF AutoFree, RuleList

\* The automatic rule never overrules a no of the operator's that was written, nor his
\* direct list, and no client loses a rule he did not take out, however many calls
\* fail (RuleLists' AutoObeys and ClientsKeepRules; auto_guard, serve_provider).
THEOREM TheOperatorPrevails == RuleSpec => AutoObeys /\ ClientsKeepRules
<1>1. RuleTypes /\ NoesRemembered /\ [RuleNext]_ruleVars =>
        [\A d \in Site : AutoAdded(d) =>
           /\ saidNoAge[d] = IgnoreDays /\ d \notin RuZone
           /\ ({d} \union Above[d]) \intersect lists["ru-direct"] = {}]_ruleVars
  BY AutoAddedSound
<1>2. CopiesExplained /\ [RuleNext]_ruleVars =>
        [\A n \in ServedList : copy[n] \ copy'[n] \subseteq takenOut[n]]_ruleVars
  <2> SUFFICES ASSUME CopiesExplained, [RuleNext]_ruleVars, NEW n \in ServedList
               PROVE  copy[n] \ copy'[n] \subseteq takenOut[n]
    OBVIOUS
  <2>1. ASSUME NEW m \in ServedList, ProviderFetched(m)
        PROVE  copy[n] \ copy'[n] \subseteq takenOut[n]
    BY <2>1 DEF ProviderFetched, Served, CopiesExplained
  <2>2. CASE copy' = copy
    BY <2>2
  <2> QED
    BY <2>1, <2>2 DEF RuleNext, NextDay, AutoPassed, ListAdded, ListRemoved,
       CoveredSettled, ComplaintIgnored, AutoAdded, Complained, ruleVars
<1> QED
  BY <1>1, <1>2, RuleListsStart, RuleTypesKept, NoesKept, CopiesKept, PTL
  DEF RuleSpec, AutoObeys, ClientsKeepRules

\* When at most one call fails, the automatic rule also acts only on as many users as
\* the threshold asks for, who complained within the day and since the site was last
\* decided: all that RuleLists' ListsHold promises.  A second failure may lose both a
\* settlement and the no that follows it (settle_domain, ignore_domain).
THEOREM ListsKept == RuleFaults <= 1 => (RuleSpec => ListsHold)
<1> SUFFICES ASSUME RuleFaults <= 1 PROVE RuleSpec => ListsHold
  OBVIOUS
<1>1. RuleTypes /\ NoesRemembered /\ VoicesExplained /\ [RuleNext]_ruleVars =>
        [\A d \in Site : AutoAdded(d) => Cardinality(voices[d]) >= AutoThreshold]_ruleVars
  BY AutoAddedSound
<1>2. RuleSpec => AutoHasVoices
  BY <1>1, RuleListsStart, RuleTypesKept, NoesKept, VoicesKept, PTL
  DEF RuleSpec, AutoHasVoices
<1> QED
  BY <1>2, RuleTypesHold, TheOperatorPrevails, PTL DEF ListsHold

-----------------------------------------------------------------------------
(* ProtocolCheck: what the rows of the probe say when nothing has changed for a while. *)

RowKinds == {"ok", "alive", "dark"}
CheckRow == [kind : RowKinds, age : Nat]

CheckTypes ==
  /\ faults \subseteq Fault /\ calm \in 0..Runs /\ turned \in 0..MaxTurns
  /\ turbo \in BOOLEAN /\ rows \in [Tags -> Seq(CheckRow)]

\* Newest first, and none older than the window.
NewestFirst(s) ==
  \A i \in DOMAIN s : s[i].age <= WindowRounds /\ \A j \in i..Len(s) : s[i].age <= s[j].age

\* The last c rounds were full and as the faults of now make them; rows behind d of them
\* are at least that old.
FullRounds(t, s, c) ==
  /\ \A d \in 0..c : \A i \in DOMAIN s : i > d * RunRows => d <= s[i].age
  /\ \A k \in 0..(c - 1), j \in 1..RunRows : k <= WindowRounds =>
       /\ k * RunRows + j \in DOMAIN s
       /\ s[k * RunRows + j] = [kind |-> RowKind(t, j), age |-> k]

CheckInv ==
  /\ CheckTypes
  /\ \A t \in Tags : NewestFirst(rows[t]) /\ (t \in Written => FullRounds(t, rows[t], calm))
  /\ ~turbo => rows[Turbo] = <<>>

\* The constants.
LEMMA CheckNumbers ==
  /\ RunRows \in Nat /\ Runs \in Nat /\ StaleAfter \in Nat /\ WindowRounds \in Nat
  /\ MaxTurns \in Nat /\ OkRows \in Nat
  /\ 0 < RunRows /\ 0 < Runs /\ 0 < WindowRounds /\ 0 < OkRows /\ OkRows <= RunRows
<1>1. {RunRows, Runs, StaleAfter, WindowRounds, MaxTurns} \subseteq Nat \ {0} /\ OkRows \in 1..RunRows
  BY CheckConstants
<1> QED
  BY <1>1

LEMMA RowTyped ==
  ASSUME NEW s \in Seq(CheckRow), NEW i \in DOMAIN s
  PROVE  s[i] \in CheckRow /\ s[i].age \in Nat /\ s[i].kind \in RowKinds
<1>1. s \in [1..Len(s) -> CheckRow] /\ DOMAIN s = 1..Len(s)
  BY LenProperties
<1>2. s[i] \in CheckRow
  BY <1>1
<1> QED
  BY <1>2 DEF CheckRow

\* What a round leaves of the rows of before.
LEMMA AgedRows ==
  ASSUME NEW s \in Seq(CheckRow), NewestFirst(s)
  PROVE  /\ Cardinality(Within(s)) \in 0..Len(s) /\ Aged(s) \in Seq(CheckRow)
         /\ Len(Aged(s)) = Cardinality(Within(s))
         /\ \A i \in 1..Cardinality(Within(s)) :
              /\ s[i] \in CheckRow /\ s[i].age < WindowRounds
              /\ Aged(s)[i] = [kind |-> s[i].kind, age |-> s[i].age + 1]
         /\ \A i \in DOMAIN s : s[i].age < WindowRounds => i <= Cardinality(Within(s))
<1> DEFINE n == Len(s)
           m == Cardinality(Within(s))
<1>1. n \in Nat /\ DOMAIN s = 1..n /\ \A i \in 1..n : s[i] \in CheckRow
  BY LenProperties, ElementOfSeq
<1>2. WindowRounds \in Nat
  BY CheckNumbers
<1>3. Within(s) \subseteq 1..n
  BY <1>1 DEF Within
<1>4. ASSUME NEW i \in Within(s), NEW j \in 1..i PROVE j \in Within(s)
  <2>1. i \in 1..n /\ j \in 1..n /\ i \in j..n /\ s[i].age < WindowRounds
    BY <1>1, <1>3 DEF Within
  <2>2. s[j].age <= s[i].age
    BY <1>1, <2>1 DEF NewestFirst
  <2>3. s[i].age \in Nat /\ s[j].age \in Nat
    BY <1>1, <2>1 DEF CheckRow
  <2> QED
    BY <1>1, <1>2, <2>1, <2>2, <2>3 DEF Within
<1>5. m \in 0..n /\ Within(s) = 1..m
  <2> HIDE DEF n
  <2> QED
    BY <1>1, <1>3, <1>4, PrefixIsInterval
<1>6. ASSUME NEW i \in 1..m
      PROVE  /\ s[i] \in CheckRow /\ s[i].age < WindowRounds
             /\ [s[i] EXCEPT !.age = @ + 1] = [kind |-> s[i].kind, age |-> s[i].age + 1]
             /\ [s[i] EXCEPT !.age = @ + 1] \in CheckRow
  <2>1. i \in Within(s) /\ i \in 1..n
    BY <1>3, <1>5
  <2>2. s[i] \in CheckRow /\ s[i].age < WindowRounds
    BY <1>1, <2>1 DEF Within
  <2> QED
    BY <2>2 DEF CheckRow
<1>7. Aged(s) = [i \in 1..m |-> [s[i] EXCEPT !.age = @ + 1]]
  BY DEF Aged
<1> HIDE DEF m
<1>8. Aged(s) \in [1..m -> CheckRow] /\ m \in Nat
  <2>1. m \in Nat
    BY <1>1, <1>5
  <2>2. \A i \in 1..m : [s[i] EXCEPT !.age = @ + 1] \in CheckRow
    BY <1>6
  <2> QED
    BY <1>7, <2>1, <2>2
<1>9. Aged(s) \in Seq(CheckRow) /\ Len(Aged(s)) = m
  <2>1. Aged(s) \in Seq(CheckRow) /\ DOMAIN Aged(s) = 1..m
    BY <1>8, SeqDef
  <2>2. Len(Aged(s)) \in Nat /\ 1..m = 1..Len(Aged(s))
    BY <2>1, LenProperties
  <2> QED
    BY <1>8, <2>1, <2>2
<1>10. \A i \in DOMAIN s : s[i].age < WindowRounds => i \in 1..m
  BY <1>5 DEF Within
<1>11. \A i \in 1..m : /\ s[i] \in CheckRow /\ s[i].age < WindowRounds
                       /\ Aged(s)[i] = [kind |-> s[i].kind, age |-> s[i].age + 1]
  BY <1>6, <1>7
<1>12. \A i \in DOMAIN s : s[i].age < WindowRounds => i <= m
  BY <1>5, <1>10
<1> QED
  BY <1>5, <1>9, <1>11, <1>12 DEF m, n

\* A round: n rows of a tag in front of those that are left.
AfterRound(t, n, s) == RoundOf(t, n) \o Aged(s)

RoundLooks(t, n, s, z) ==
  /\ z \in Seq(CheckRow) /\ NewestFirst(z)
  /\ \A i \in DOMAIN z : i <= n => z[i] = [kind |-> RowKind(t, i), age |-> 0]
  /\ \A i \in DOMAIN z : n < i =>
       i - n \in DOMAIN s /\ z[i] = [kind |-> s[i - n].kind, age |-> s[i - n].age + 1]
  /\ \A i \in 1..n : i \in DOMAIN z
  /\ \A i \in DOMAIN s : s[i].age < WindowRounds => n + i \in DOMAIN z

LEMMA RoundRows ==
  ASSUME NEW t, NEW n \in Nat, NEW s \in Seq(CheckRow), NewestFirst(s)
  PROVE  RoundLooks(t, n, s, AfterRound(t, n, s))
<1> DEFINE m == Cardinality(Within(s))
           a == Aged(s)
           b == RoundOf(t, n)
           z == AfterRound(t, n, s)
<1>1. /\ m \in 0..Len(s) /\ a \in Seq(CheckRow) /\ Len(a) = m
      /\ \A i \in 1..m : /\ s[i] \in CheckRow /\ s[i].age < WindowRounds
                         /\ a[i] = [kind |-> s[i].kind, age |-> s[i].age + 1]
      /\ \A i \in DOMAIN s : s[i].age < WindowRounds => i <= m
  BY AgedRows
<1>2. b \in Seq(CheckRow) /\ Len(b) = n /\ \A i \in 1..n : b[i] = [kind |-> RowKind(t, i), age |-> 0]
  <2>1. \A i \in 1..n : [kind |-> RowKind(t, i), age |-> 0] \in CheckRow
    BY DEF CheckRow, RowKind, RowKinds
  <2>2. b = [i \in 1..n |-> [kind |-> RowKind(t, i), age |-> 0]]
    BY DEF RoundOf
  <2> HIDE DEF b
  <2>3. b \in [1..n -> CheckRow]
    BY <2>1, <2>2
  <2>4. b \in Seq(CheckRow) /\ DOMAIN b = 1..n
    BY <2>3, SeqDef
  <2>5. Len(b) \in Nat /\ 1..n = 1..Len(b)
    BY <2>4, LenProperties
  <2> QED
    BY <2>2, <2>4, <2>5
<1>3. z = b \o a
  BY DEF AfterRound
<1>4. Len(s) \in Nat /\ DOMAIN s = 1..Len(s) /\ WindowRounds \in Nat
  BY LenProperties, CheckNumbers
<1> HIDE DEF m, a, b, z
<1>5. /\ z \in Seq(CheckRow) /\ Len(z) = n + m
      /\ \A i \in 1..(n + m) : z[i] = (IF i <= n THEN b[i] ELSE a[i - n])
  <2>1. /\ b \o a \in Seq(CheckRow) /\ Len(b \o a) = Len(b) + Len(a)
        /\ \A i \in 1..(Len(b) + Len(a)) : (b \o a)[i] = (IF i <= Len(b) THEN b[i] ELSE a[i - Len(b)])
    <3>1. a \in Seq(CheckRow) /\ b \in Seq(CheckRow)
      BY <1>1, <1>2
    <3> QED
      BY <3>1, ConcatProperties
  <2>2. Len(b) = n /\ Len(a) = m
    BY <1>1, <1>2
  <2> QED
    BY <1>3, <2>1, <2>2
<1>6. DOMAIN z = 1..(n + m) /\ m \in Nat
  BY <1>1, <1>4, <1>5, LenProperties
<1>7. \A i \in DOMAIN z : i <= n => z[i] = [kind |-> RowKind(t, i), age |-> 0]
  BY <1>2, <1>5, <1>6
<1>8. ASSUME NEW i \in DOMAIN z, n < i
      PROVE  /\ i - n \in 1..m /\ i - n \in DOMAIN s /\ s[i - n] \in CheckRow
             /\ s[i - n].age < WindowRounds
             /\ z[i] = [kind |-> s[i - n].kind, age |-> s[i - n].age + 1]
  <2>1. i - n \in 1..m /\ ~(i <= n)
    BY <1>6, <1>8
  <2>2. z[i] = a[i - n]
    BY <1>5, <1>6, <2>1
  <2>3. i - n \in DOMAIN s
    BY <1>1, <1>4, <2>1
  <2> QED
    BY <1>1, <2>1, <2>2, <2>3
<1>9. NewestFirst(z)
  <2> SUFFICES ASSUME NEW i \in DOMAIN z, NEW j \in i..Len(z)
               PROVE  z[i].age <= WindowRounds /\ z[i].age <= z[j].age
    <3>1. \A i \in DOMAIN z : i \in i..Len(z)
      BY <1>5, <1>6
    <3> QED
      BY <3>1 DEF NewestFirst
  <2>1. j \in DOMAIN z /\ i \in Nat /\ j \in Nat /\ i <= j
    BY <1>5, <1>6
  <2>2. CASE i <= n
    <3>1. z[i].age = 0
      BY <1>7, <2>2
    <3>2. z[j].age \in Nat
      BY <1>5, <2>1, RowTyped
    <3> QED
      BY <1>4, <3>1, <3>2
  <2>3. CASE n < i
    <3>1. /\ s[i - n] \in CheckRow /\ s[i - n].age < WindowRounds /\ z[i].age = s[i - n].age + 1
          /\ i - n \in DOMAIN s
      BY <1>8, <2>3
    <3>2. n < j
      BY <2>1, <2>3
    <3>3. s[j - n] \in CheckRow /\ z[j].age = s[j - n].age + 1 /\ j - n \in DOMAIN s
      BY <1>8, <2>1, <3>2
    <3>4. j - n \in (i - n)..Len(s)
      BY <1>4, <2>1, <3>3
    <3>5. s[i - n].age <= s[j - n].age
      BY <3>1, <3>4 DEF NewestFirst
    <3>6. s[i - n].age \in Nat /\ s[j - n].age \in Nat
      BY <3>1, <3>3 DEF CheckRow
    <3> QED
      BY <1>4, <3>1, <3>3, <3>5, <3>6
  <2> QED
    BY <2>1, <2>2, <2>3
<1>10. \A i \in 1..n : i \in DOMAIN z
  BY <1>6
<1>11. \A i \in DOMAIN s : s[i].age < WindowRounds => n + i \in DOMAIN z
  BY <1>1, <1>4, <1>6
<1> QED
  BY <1>5, <1>7, <1>8, <1>9, <1>10, <1>11 DEF z, RoundLooks

\* A full round makes one more of the last full rounds.
LEMMA OneMoreRound ==
  ASSUME NEW t, NEW s \in Seq(CheckRow), NEW c \in Nat, NEW e \in 0..(c + 1), NEW z,
         NewestFirst(s), FullRounds(t, s, c), z = AfterRound(t, RunRows, s)
  PROVE  FullRounds(t, z, e)
<1>1. /\ RunRows \in Nat /\ WindowRounds \in Nat /\ 0 < RunRows
      /\ Len(s) \in Nat /\ DOMAIN s = 1..Len(s)
  BY CheckNumbers, LenProperties
<1>2. /\ z \in Seq(CheckRow)
      /\ \A i \in DOMAIN z : i <= RunRows => z[i] = [kind |-> RowKind(t, i), age |-> 0]
      /\ \A i \in DOMAIN z : RunRows < i =>
           /\ i - RunRows \in DOMAIN s
           /\ z[i] = [kind |-> s[i - RunRows].kind, age |-> s[i - RunRows].age + 1]
      /\ \A i \in 1..RunRows : i \in DOMAIN z
      /\ \A i \in DOMAIN s : s[i].age < WindowRounds => RunRows + i \in DOMAIN z
  <2>1. RoundLooks(t, RunRows, s, z)
    BY <1>1, RoundRows
  <2> QED
    BY <2>1 DEF RoundLooks
<1>3. DOMAIN z = 1..Len(z) /\ Len(z) \in Nat
  BY <1>2, LenProperties
<1>4. ASSUME NEW d \in 0..e, NEW i \in DOMAIN z, i > d * RunRows PROVE d <= z[i].age
  <2>1. z[i].age \in Nat
    BY <1>2, RowTyped
  <2>2. CASE d = 0
    BY <2>1, <2>2
  <2>3. CASE d # 0
    <3>1. d - 1 \in 0..c /\ d * RunRows = (d - 1) * RunRows + RunRows /\ (d - 1) * RunRows \in Nat
      BY <1>1, <2>3
    <3>2. i \in Nat /\ RunRows < i /\ i - RunRows > (d - 1) * RunRows
      BY <1>1, <1>3, <1>4, <3>1
    <3>3. i - RunRows \in DOMAIN s /\ z[i].age = s[i - RunRows].age + 1
      BY <1>2, <3>2
    <3>4. d - 1 <= s[i - RunRows].age
      BY <3>1, <3>2, <3>3 DEF FullRounds
    <3>5. s[i - RunRows].age \in Nat
      BY <3>3, RowTyped
    <3> QED
      BY <3>1, <3>3, <3>4, <3>5
  <2> QED
    BY <2>2, <2>3
<1>5. ASSUME NEW k \in 0..(e - 1), NEW j \in 1..RunRows, k <= WindowRounds
      PROVE  k * RunRows + j \in DOMAIN z /\ z[k * RunRows + j] = [kind |-> RowKind(t, j), age |-> k]
  <2>1. CASE k = 0
    <3>1. 0 * RunRows = 0
      BY <1>1
    <3>2. k * RunRows + j = j /\ j <= RunRows
      BY <1>1, <2>1, <3>1
    <3>3. j \in DOMAIN z /\ z[j] = [kind |-> RowKind(t, j), age |-> 0]
      BY <1>2, <3>2
    <3> QED
      BY <2>1, <3>2, <3>3
  <2>2. CASE k # 0
    <3> DEFINE b == (k - 1) * RunRows
    <3>1. k - 1 \in 0..(c - 1) /\ k * RunRows = b + RunRows /\ b \in Nat /\ k - 1 <= WindowRounds
      BY <1>1, <1>5, <2>2
    <3>2. b + j \in DOMAIN s /\ s[b + j] = [kind |-> RowKind(t, j), age |-> k - 1]
      BY <3>1 DEF FullRounds
    <3> HIDE DEF b
    <3>3. s[b + j].age < WindowRounds
      BY <1>1, <1>5, <2>2, <3>2
    <3> DEFINE x == RunRows + (b + j)
    <3>4. x \in DOMAIN z
      BY <1>2, <3>2, <3>3
    <3>5. k * RunRows + j = x /\ RunRows < x /\ x - RunRows = b + j
      BY <1>1, <3>1
    <3> HIDE DEF x
    <3>6. z[x] = [kind |-> s[b + j].kind, age |-> s[b + j].age + 1]
      BY <1>2, <3>4, <3>5
    <3>7. k - 1 + 1 = k
      OBVIOUS
    <3> QED
      BY <3>2, <3>4, <3>5, <3>6, <3>7
  <2> QED
    BY <2>1, <2>2
<1> QED
  BY <1>4, <1>5 DEF FullRounds

LEMMA NoFullRounds ==
  ASSUME NEW t, NEW s \in Seq(CheckRow), NEW z, z = 0
  PROVE  FullRounds(t, s, z)
<1>1. z \in Nat /\ \A i \in DOMAIN s : z <= s[i].age
  BY RowTyped
<1>2. \A d \in 0..z : d = z
  OBVIOUS
<1> QED
  BY <1>1, <1>2 DEF FullRounds

\* A round that is written, in part or not at all: w rows of each tag.
LEMMA RoundKeeps ==
  ASSUME NEW w \in [Tags -> Nat], CheckInv, ProbeRound(w),
         turned' \in 0..MaxTurns, calm' \in 0..Runs, \A t \in Tags \ Written : w[t] = 0,
         calm' = 0 \/ (calm' <= calm + 1 /\ \A t \in Written : w[t] = RunRows)
  PROVE  CheckInv'
<1>1. faults' = faults /\ turbo' = turbo /\ rows' = [t \in Tags |-> AfterRound(t, w[t], rows[t])]
  BY DEF ProbeRound, AfterRound
<1>2. CheckTypes /\ (~turbo => rows[Turbo] = <<>>) /\ Runs \in Nat /\ calm \in Nat
  <2>1. Runs \in Nat
    BY CheckNumbers
  <2> QED
    BY <2>1 DEF CheckInv, CheckTypes
<1>3. ASSUME NEW t \in Tags
      PROVE  /\ w[t] \in Nat /\ rows[t] \in Seq(CheckRow) /\ NewestFirst(rows[t])
             /\ rows'[t] = AfterRound(t, w[t], rows[t])
             /\ RoundLooks(t, w[t], rows[t], rows'[t])
  <2>1. w[t] \in Nat /\ rows[t] \in Seq(CheckRow) /\ NewestFirst(rows[t])
    BY <1>2 DEF CheckInv, CheckTypes
  <2>2. rows'[t] = AfterRound(t, w[t], rows[t])
    BY <1>1
  <2>3. RoundLooks(t, w[t], rows[t], AfterRound(t, w[t], rows[t]))
    BY <2>1, RoundRows
  <2> QED
    BY <2>1, <2>2, <2>3
<1>4. \A t \in Tags : rows'[t] \in Seq(CheckRow) /\ NewestFirst(rows'[t])
  BY <1>3 DEF RoundLooks
<1>5. CheckTypes'
  <2>1. rows' \in [Tags -> Seq(CheckRow)]
    BY <1>1, <1>3, <1>4
  <2> QED
    BY <1>1, <1>2, <2>1 DEF CheckTypes
<1>6. ASSUME NEW t \in Tags, t \in Written PROVE FullRounds(t, rows'[t], calm')
  <2>1. CASE calm' = 0
    BY <1>4, <2>1, NoFullRounds
  <2>2. CASE calm' # 0
    <3>1. w[t] = RunRows /\ calm' \in 0..(calm + 1)
      BY <1>2, <1>6, <2>2
    <3>2. rows'[t] = AfterRound(t, RunRows, rows[t])
      BY <1>3, <3>1
    <3>3. FullRounds(t, rows[t], calm) /\ NewestFirst(rows[t]) /\ rows[t] \in Seq(CheckRow)
      BY <1>3, <1>6 DEF CheckInv
    <3> DEFINE s == rows[t]
               c == calm
               e == calm'
               z == rows'[t]
    <3>4. /\ s \in Seq(CheckRow) /\ c \in Nat /\ e \in 0..(c + 1) /\ NewestFirst(s)
          /\ FullRounds(t, s, c) /\ z = AfterRound(t, RunRows, s)
      BY <1>2, <3>1, <3>2, <3>3
    <3> HIDE DEF s, c, e, z
    <3>5. FullRounds(t, z, e)
      BY <3>4, OneMoreRound
    <3> QED
      BY <3>5 DEF z, e
  <2> QED
    BY <2>1, <2>2
<1>7. \A t \in Tags : (NewestFirst(rows[t]) /\ (t \in Written => FullRounds(t, rows[t], calm)))'
  <2> SUFFICES ASSUME NEW t \in Tags
               PROVE  (NewestFirst(rows[t]) /\ (t \in Written => FullRounds(t, rows[t], calm)))'
    OBVIOUS
  <2>1. NewestFirst(rows[t])'
    BY <1>4 DEF NewestFirst
  <2>2. ASSUME (t \in Written)' PROVE FullRounds(t, rows[t], calm)'
    <3>1. t \in Written
      BY <1>1, <2>2 DEF Written
    <3> QED
      BY <1>1, <1>6, <3>1 DEF FullRounds, RowKind
  <2> QED
    BY <2>1, <2>2
<1>8. (~turbo => rows[Turbo] = <<>>)'
  <2> SUFFICES ASSUME ~turbo PROVE rows'[Turbo] = <<>>
    BY <1>1
  <2>1. Turbo \in Tags /\ Turbo \notin Written
    BY CheckConstants DEF Tags, Written
  <2>2. w[Turbo] = 0 /\ rows[Turbo] = <<>>
    BY <1>2, <2>1
  <2>3. RoundLooks(Turbo, w[Turbo], rows[Turbo], rows'[Turbo])
    BY <1>3, <2>1
  <2> DEFINE z == rows'[Turbo]
             e == <<>>
  <2>4. RoundLooks(Turbo, 0, e, z) /\ DOMAIN e = {}
    BY <2>2, <2>3
  <2> HIDE DEF z, e
  <2>5. z \in Seq(CheckRow) /\ \A i \in DOMAIN z : 0 < i => i - 0 \in DOMAIN e
    BY <2>4 DEF RoundLooks
  <2>6. DOMAIN z = 1..Len(z) /\ Len(z) \in Nat
    BY <2>5, LenProperties
  <2>7. Len(z) = 0
    <3> SUFFICES ASSUME Len(z) # 0 PROVE FALSE
      OBVIOUS
    <3>1. 1 \in DOMAIN z
      BY <2>6
    <3> QED
      BY <2>4, <2>5, <3>1
  <2>8. z = <<>>
    BY <2>5, <2>7, EmptySeq
  <2> QED
    BY <2>8 DEF z
<1> QED
  BY <1>5, <1>7, <1>8 DEF CheckInv

LEMMA CheckInvInit == CheckInit => CheckInv
<1> SUFFICES ASSUME CheckInit PROVE CheckInv
  OBVIOUS
<1>1. /\ faults = {} /\ rows = [t \in Tags |-> <<>>] /\ turbo \in BOOLEAN /\ calm = 0 /\ turned = 0
  BY DEF CheckInit
<1>2. 0 \in 0..Runs /\ 0 \in 0..MaxTurns
  BY CheckNumbers
<1>3. <<>> \in Seq(CheckRow) /\ NewestFirst(<<>>)
  BY EmptySeq DEF NewestFirst
<1>4. \A t \in Tags : rows[t] = <<>>
  BY <1>1
<1>5. CheckTypes
  BY <1>1, <1>2, <1>3 DEF CheckTypes
<1>6. \A t \in Tags : FullRounds(t, <<>>, calm)
  BY <1>1, <1>3, NoFullRounds
<1>7. Turbo \in Tags
  BY DEF Tags
<1> QED
  BY <1>3, <1>4, <1>5, <1>6, <1>7 DEF CheckInv

LEMMA CheckInvNext == CheckInv /\ [CheckNext]_checkVars => CheckInv'
<1> SUFFICES ASSUME CheckInv, [CheckNext]_checkVars PROVE CheckInv'
  OBVIOUS
<1>1. /\ RunRows \in Nat /\ Runs \in Nat /\ MaxTurns \in Nat /\ calm \in 0..Runs
      /\ turned \in 0..MaxTurns /\ Written \subseteq Tags
  BY CheckNumbers DEF CheckInv, CheckTypes, Written, Tags
<1>2. ASSUME turned < MaxTurns, turned' = turned + 1, calm' = 0
      PROVE  turned' \in 0..MaxTurns /\ calm' \in 0..Runs
  BY <1>1, <1>2
<1>3. CASE FullRound
  <2> DEFINE w == [t \in Tags |-> IF t \in Written THEN RunRows ELSE 0]
  <2>1. ProbeRound(w) /\ turned' = turned /\ calm' = (IF calm < Runs THEN calm + 1 ELSE calm)
    BY <1>3 DEF FullRound
  <2>2. w \in [Tags -> Nat] /\ \A t \in Tags : t \notin Written => w[t] = 0
    BY <1>1
  <2>3. \A t \in Written : w[t] = RunRows
    BY <1>1
  <2>4. calm' \in 0..Runs /\ calm' <= calm + 1 /\ turned' \in 0..MaxTurns
    BY <1>1, <2>1
  <2> HIDE DEF w
  <2> QED
    BY <2>1, <2>2, <2>3, <2>4, RoundKeeps
<1>4. CASE BrokenRound
  <2>1. turned < MaxTurns /\ turned' = turned + 1 /\ calm' = 0
    BY <1>4 DEF BrokenRound
  <2>2. turned' \in 0..MaxTurns /\ calm' \in 0..Runs
    BY <1>2, <2>1
  <2>3. PICK w \in [Tags -> Nat] : ProbeRound(w) /\ \A t \in Tags \ Written : w[t] = 0
    <3>1. CASE ProbeRound([t \in Tags |-> 0])
      <4> DEFINE w == [t \in Tags |-> 0]
      <4>1. w \in [Tags -> Nat] /\ \A t \in Tags \ Written : w[t] = 0
        OBVIOUS
      <4> QED
        BY <3>1, <4>1
    <3>2. ASSUME NEW t \in Written, NEW before \in SUBSET Written,
                 ProbeRound([u \in Tags |-> IF u = t THEN 1
                                            ELSE IF u \in before THEN RunRows ELSE 0])
          PROVE  \E w \in [Tags -> Nat] : ProbeRound(w) /\ \A u \in Tags \ Written : w[u] = 0
      <4> DEFINE w == [u \in Tags |-> IF u = t THEN 1 ELSE IF u \in before THEN RunRows ELSE 0]
      <4>1. w \in [Tags -> Nat]
        BY <1>1
      <4>2. \A u \in Tags \ Written : w[u] = 0
        OBVIOUS
      <4>3. ProbeRound(w)
        BY <3>2
      <4> HIDE DEF w
      <4> QED
        BY <4>1, <4>2, <4>3
    <3> QED
      BY <1>4, <3>1, <3>2 DEF BrokenRound
  <2> QED
    BY <2>1, <2>2, <2>3, RoundKeeps
<1>5. ASSUME faults' \subseteq Fault, rows' = rows, turbo' = turbo, calm' = 0,
             turned < MaxTurns, turned' = turned + 1
      PROVE  CheckInv'
  <2>1. turned' \in 0..MaxTurns /\ calm' \in 0..Runs
    BY <1>2, <1>5
  <2>2. CheckTypes'
    BY <1>5, <2>1 DEF CheckInv, CheckTypes
  <2>3. \A t \in Tags : rows[t] \in Seq(CheckRow) /\ NewestFirst(rows[t])
    BY DEF CheckInv, CheckTypes
  <2>4. ASSUME NEW t \in Tags PROVE FullRounds(t, rows[t], calm)'
    <3>1. \A i \in DOMAIN rows[t] : rows[t][i].age \in Nat
      BY <2>3, RowTyped
    <3>2. \A d \in 0..0 : d = 0
      OBVIOUS
    <3>3. 0..(0 - 1) = {}
      OBVIOUS
    <3> QED
      BY <1>5, <3>1, <3>2, <3>3 DEF FullRounds
  <2>5. \A t \in Tags : NewestFirst(rows[t])'
    BY <1>5, <2>3 DEF NewestFirst
  <2>6. (~turbo => rows[Turbo] = <<>>)'
    BY <1>5 DEF CheckInv
  <2> QED
    BY <2>2, <2>4, <2>5, <2>6 DEF CheckInv
<1>6. CASE FaultComes
  <2>1. faults' \subseteq Fault
    BY <1>6 DEF FaultComes, CheckInv, CheckTypes
  <2> QED
    BY <1>5, <1>6, <2>1 DEF FaultComes
<1>7. CASE FaultGoes
  <2>1. faults' \subseteq Fault
    BY <1>7 DEF FaultGoes, CheckInv, CheckTypes
  <2> QED
    BY <1>5, <1>7, <2>1 DEF FaultGoes
<1>8. CASE UNCHANGED checkVars
  BY <1>8 DEF checkVars, CheckInv, CheckTypes, NewestFirst, FullRounds, RowKind, Written
<1> QED
  BY <1>3, <1>4, <1>6, <1>7, <1>8 DEF CheckNext

(* What assess() makes of the rows. *)

\* The rows layer A's query returns are the newest.
LEMMA SeenRows ==
  ASSUME CheckInv, NEW t \in Tags
  PROVE  /\ SeenUp(t) \in Seq(CheckRow) /\ Len(SeenUp(t)) \in 0..Len(rows[t])
         /\ Len(SeenUp(t)) <= Limit /\ Limit \in Nat
         /\ \A i \in 1..Len(rows[t]) : i <= Limit => i <= Len(SeenUp(t))
         /\ \A i \in 1..Len(SeenUp(t)) : SeenUp(t)[i] = rows[t][i]
<1> DEFINE s == rows[t]
           n == IF Len(s) < Limit THEN Len(s) ELSE Limit
<1>1. s \in Seq(CheckRow) /\ Len(s) \in Nat
  BY LenProperties DEF CheckInv, CheckTypes
<1>2. Limit \in Nat
  BY CheckNumbers DEF Limit
<1>3. n \in 0..Len(s) /\ n <= Limit /\ \A i \in 1..Len(s) : i <= Limit => i <= n
  BY <1>1, <1>2
<1>4. SeenUp(t) = SubSeq(s, 1, n)
  BY DEF SeenUp
<1> HIDE DEF n
<1>5. \A i \in 1..n : s[i] \in CheckRow
  BY <1>1, <1>3, ElementOfSeq
<1>6. SubSeq(s, 1, n) = [i \in 1..n |-> s[i]]
  BY <1>1, <1>3
<1>7. SeenUp(t) \in [1..n -> CheckRow] /\ n \in Nat
  <2>1. [i \in 1..n |-> s[i]] \in [1..n -> CheckRow]
    BY <1>5
  <2>2. n \in Nat
    BY <1>1, <1>3
  <2> QED
    BY <1>4, <1>6, <2>1, <2>2
<1>8. SeenUp(t) \in Seq(CheckRow) /\ DOMAIN SeenUp(t) = 1..n
  BY <1>7, SeqDef
<1>9. Len(SeenUp(t)) \in Nat /\ 1..n = 1..Len(SeenUp(t))
  BY <1>8, LenProperties
<1>10. Len(SeenUp(t)) = n
  BY <1>7, <1>9
<1> QED
  BY <1>2, <1>3, <1>4, <1>6, <1>8, <1>10

\* A count is a number; it is none if no row is of the kinds.
LEMMA Counted ==
  ASSUME NEW s \in Seq(CheckRow), NEW kinds
  PROVE  Count(s, kinds) \in Nat /\ (Count(s, kinds) = 0 <=> \A i \in DOMAIN s : s[i].kind \notin kinds)
<1> DEFINE S == {i \in DOMAIN s : s[i].kind \in kinds}
<1>1. IsFiniteSet(DOMAIN s)
  BY LenProperties, FS_Interval
<1>2. IsFiniteSet(S)
  BY <1>1, FS_Subset
<1>3. Cardinality(S) \in Nat /\ (Cardinality(S) = 0 <=> S = {})
  BY <1>2, FS_CardinalityType, FS_EmptySet
<1>4. S = {} <=> \A i \in DOMAIN s : s[i].kind \notin kinds
  OBVIOUS
<1> QED
  BY <1>3, <1>4 DEF Count

LEMMA TypesKept == CheckInv => CheckTypeOK
<1> SUFFICES ASSUME CheckInv PROVE CheckTypeOK
  OBVIOUS
<1>1. CheckTypes
  BY DEF CheckInv
<1>2. ASSUME NEW t \in Tags, NEW i \in DOMAIN rows[t]
      PROVE  /\ rows[t][i].age <= WindowRounds /\ rows[t][i].kind \in {"ok", "alive", "dark"}
             /\ i > 1 => rows[t][i - 1].age <= rows[t][i].age
  <2>1. rows[t] \in Seq(CheckRow) /\ NewestFirst(rows[t])
    BY <1>1 DEF CheckInv, CheckTypes
  <2>2. rows[t][i].kind \in RowKinds /\ rows[t][i].age <= WindowRounds
    BY <2>1, RowTyped DEF NewestFirst
  <2>3. DOMAIN rows[t] = 1..Len(rows[t]) /\ Len(rows[t]) \in Nat
    BY <2>1, LenProperties
  <2>4. ASSUME i > 1 PROVE rows[t][i - 1].age <= rows[t][i].age
    <3>1. i - 1 \in DOMAIN rows[t] /\ i \in (i - 1)..Len(rows[t])
      BY <2>3, <2>4
    <3> QED
      BY <2>1, <3>1 DEF NewestFirst
  <2> QED
    BY <2>2, <2>4 DEF RowKinds
<1> QED
  BY <1>1, <1>2 DEF CheckTypeOK, CheckTypes

\* What a reading has of the probes: nothing, or the verdict of each tag.
LEMMA ProbesSay ==
  ASSUME NEW av \in Readings, NEW t \in Tags
  PROVE  av.probes[t] = IF "a" \notin av.from \/ PipelineStale THEN "UNKNOWN" ELSE ProbeVerdict(t)
<1>1. av.probes = IF "a" \notin av.from \/ PipelineStale THEN NoVerdicts ELSE Verdicts
  BY DEF Readings
<1> QED
  BY <1>1 DEF Verdicts, NoVerdicts

LEMMA OutagesSeen == NoOutagePasses
<1> SUFFICES ASSUME NEW t \in Tags, ~StaleTag(t), DarkLately(t),
                    NEW av \in Readings, t = Turbo => "a" \in av.from
             PROVE  State(t, av) # "OK" /\ ExitCode(av) # 0
  BY DEF NoOutagePasses, DarkLately
<1>1. ProbeVerdict(t) # "OK"
  BY DEF ProbeVerdict
<1>2. av.probes[t] # "OK"
  BY <1>1, ProbesSay
<1>3. State(t, av) # "OK"
  <2>1. CASE t # Turbo
    BY <1>2, <2>1 DEF State
  <2>2. CASE t = Turbo
    <3>1. Turbo \in ProbedTags(av)
      BY <2>2 DEF ProbedTags, StaleTag
    <3> QED
      BY <1>2, <2>2, <3>1 DEF State
  <2> QED
    BY <2>1, <2>2
<1>4. ExitCode(av) # 0
  BY <1>3 DEF ExitCode
<1> QED
  BY <1>3, <1>4

LEMMA DeathsAreReal == CheckInv => DownIsDead
<1> SUFFICES ASSUME CheckInv, NEW av \in Readings, NEW t \in Tags, State(t, av) = "DOWN"
             PROVE  \/ \A i \in DOMAIN SeenUp(t) : SeenUp(t)[i].kind = "dark"
                    \/ t = Turbo /\ {<<"daemon", Turbo>>, <<"dnat", Turbo>>} \intersect faults # {}
  BY DEF DownIsDead
<1>1. CASE av.probes[t] = "DOWN"
  <2>1. ProbeVerdict(t) = "DOWN"
    BY <1>1, ProbesSay
  <2>2. Count(SeenUp(t), {"ok", "alive"}) = 0
    BY <2>1 DEF ProbeVerdict
  <2>3. SeenUp(t) \in Seq(CheckRow)
    BY SeenRows
  <2>4. \A i \in DOMAIN SeenUp(t) : SeenUp(t)[i].kind \notin {"ok", "alive"}
    BY <2>2, <2>3, Counted
  <2>5. \A i \in DOMAIN SeenUp(t) : SeenUp(t)[i].kind \in RowKinds
    BY <2>3, RowTyped
  <2> QED
    BY <2>4, <2>5 DEF RowKinds
<1>2. CASE av.probes[t] # "DOWN"
  <2>1. t = Turbo
    BY <1>2 DEF State
  <2>2. "c" \in av.from /\ TurboByHosts(av) = "DOWN"
    BY <1>2, <2>1 DEF State
  <2>3. <<"daemon", Turbo>> \in faults \/ <<"dnat", Turbo>> \in faults
    BY <2>2 DEF TurboByHosts
  <2> QED
    BY <2>1, <2>3
<1> QED
  BY <1>1, <1>2

LEMMA CausesFound == CheckInv => CausesNamed
<1> SUFFICES ASSUME CheckInv, NEW av \in Readings, NEW t \in Tags, State(t, av) = "DOWN"
             PROVE  /\ \E s \in Suspects(av) : s[2] \in {t, "*"}
                    /\ ~AllDark(av) =>
                         \A f \in faults : f[2] = t =>
                           /\ (f[1] \in {"flow", "password"} /\ f \in av.lines => f \in Suspects(av))
                           /\ (f[1] = "drift" /\ t \in av.users => f \in Suspects(av))
                           /\ (f[1] = "cert" /\ "cert" \in av.from => f \in Suspects(av))
                           /\ (f[1] = "daemon" /\ "c" \in av.from => f \in Suspects(av))
                           /\ (f[1] \in {"dnat", "entryhop", "front"} /\ "b" \in av.from => f \in Suspects(av))
  BY DEF CausesNamed
<1>1. CASE AllDark(av)
  <2> DEFINE s == <<"upstream", "*">>
  <2>1. s \in Suspects(av) /\ s[2] = "*"
    BY <1>1 DEF Suspects
  <2> QED
    BY <1>1, <2>1
<1>2. CASE ~AllDark(av)
  <2>1. ByAudit(av) \subseteq Suspects(av) /\ SuspectsOf(t, av) \subseteq Suspects(av)
    BY <1>2 DEF Suspects
  <2>2. \E s \in SuspectsOf(t, av) : s[2] = t
    <3>1. ASSUME NEW found PROVE \E s \in OrItself(t, found) : s[2] = t
      <4> DEFINE g == <<"itself", t>>
      <4>1. g[2] = t
        OBVIOUS
      <4> HIDE DEF g
      <4>2. OrItself(t, found) = IF \E s \in found : s[2] = t THEN found ELSE found \union {g}
        BY DEF OrItself, g
      <4> QED
        BY <4>1, <4>2
    <3>2. SuspectsOf(t, av) = IF t \in Hysteria THEN OrItself(t, ByHosts(t, av))
                              ELSE OrItself(t, ByAudit(av) \union ByInbound(t, av))
      BY DEF SuspectsOf
    <3> QED
      BY <3>1, <3>2
  <2>3. \A found : found \subseteq OrItself(t, found)
    BY DEF OrItself
  <2>4. t \in Hysteria => ByHosts(t, av) \subseteq SuspectsOf(t, av)
    BY <2>3 DEF SuspectsOf
  <2>5. t \notin Hysteria => ByInbound(t, av) \subseteq SuspectsOf(t, av)
    BY <2>3 DEF SuspectsOf
  <2>6. ASSUME NEW f \in faults, f[2] = t
        PROVE  /\ (f[1] \in {"flow", "password"} /\ f \in av.lines => f \in Suspects(av))
               /\ (f[1] = "drift" /\ t \in av.users => f \in Suspects(av))
               /\ (f[1] = "cert" /\ "cert" \in av.from => f \in Suspects(av))
               /\ (f[1] = "daemon" /\ "c" \in av.from => f \in Suspects(av))
               /\ (f[1] \in {"dnat", "entryhop", "front"} /\ "b" \in av.from => f \in Suspects(av))
    <3>1. /\ f[1] \in {"daemon", "dnat"} => t \in Hysteria
          /\ f[1] = "entryhop" => t \in Hysteria
          /\ f[1] \in {"cert", "drift", "front"} => t \notin Hysteria
      <4>1. f \in Fault /\ f[2] = t
        BY <2>6 DEF CheckInv, CheckTypes
      <4>2. Audited \subseteq Probed /\ "hy2" \notin Audited /\ Turbo \notin Probed /\ Turbo \in Hysteria
        BY CheckConstants DEF Hysteria, Tags
      <4>3. \A u \in Audited : u \notin Hysteria
        BY <4>2 DEF Hysteria
      <4> QED
        BY <4>1, <4>2, <4>3 DEF Fault
    <3>2. f[1] \in {"flow", "password"} /\ f \in av.lines => f \in ByAudit(av)
      BY DEF ByAudit
    <3>3. f[1] = "daemon" /\ "c" \in av.from => f \in ByHosts(t, av)
      BY <2>6 DEF ByHosts
    <3>4. f[1] \in {"dnat", "entryhop"} /\ "b" \in av.from => f \in ByHosts(t, av)
      BY <2>6 DEF ByHosts
    <3>5. (f[1] = "cert" /\ "cert" \in av.from) \/ (f[1] = "drift" /\ t \in av.users)
            => f \in ByInbound(t, av)
      BY <2>6 DEF ByInbound
    <3>6. f[1] = "front" /\ "b" \in av.from => f \in ByInbound(t, av)
      BY <2>6 DEF ByInbound
    <3> QED
      BY <2>1, <2>4, <2>5, <3>1, <3>2, <3>3, <3>4, <3>5, <3>6
  <2>7. \E s \in Suspects(av) : s[2] \in {t, "*"}
    BY <2>1, <2>2
  <2> QED
    BY <2>6, <2>7
<1> QED
  BY <1>1, <1>2

LEMMA EyesNeeded == PassNeedsEyes
<1> SUFFICES ASSUME NEW av \in Readings, ExitCode(av) = 0
             PROVE  /\ "a" \in av.from /\ \A t \in Probed : ~StaleTag(t)
                    /\ rows[Turbo] # <<>> \/ {"b", "c", "nat"} \subseteq av.from
  BY DEF PassNeedsEyes
<1>1. \A t \in Tags : State(t, av) = "OK"
  BY DEF ExitCode
<1>2. ASSUME NEW t \in Probed PROVE "a" \in av.from /\ ~StaleTag(t)
  <2>1. t \in Tags /\ t # Turbo
    BY CheckConstants DEF Tags
  <2>2. av.probes[t] = "OK"
    BY <1>1, <2>1 DEF State
  <2>3. "a" \in av.from /\ ProbeVerdict(t) = "OK"
    BY <2>1, <2>2, ProbesSay
  <2> QED
    BY <2>3 DEF ProbeVerdict
<1>3. Probed # {}
  BY CheckConstants
<1>4. ASSUME rows[Turbo] = <<>> PROVE {"b", "c", "nat"} \subseteq av.from
  <2>1. Turbo \in Tags /\ Turbo \notin ProbedTags(av)
    BY <1>4, CheckConstants DEF Tags, ProbedTags
  <2>2. "c" \in av.from /\ TurboByHosts(av) = "OK"
    BY <1>1, <2>1 DEF State
  <2>3. "b" \in av.from /\ "nat" \in av.from
    BY <2>2 DEF TurboByHosts
  <2> QED
    BY <2>2, <2>3
<1> QED
  BY <1>2, <1>3, <1>4

\* Once the rounds judged were all full and nothing is wrong, a tag the probe writes is well.
LEMMA WellAgain ==
  ASSUME CheckInv, calm = Runs, faults = {}, NEW t \in Written
  PROVE  ~StaleTag(t) /\ ProbeVerdict(t) = "OK"
<1> DEFINE s == rows[t]
           u == SeenUp(t)
           n == RunRows
           m == OkRows
           W == WindowRounds
<1>1. /\ n \in Nat /\ m \in 1..n /\ W \in Nat /\ 0 < W /\ Runs \in Nat /\ 0 < Runs
      /\ 0 < n /\ StaleAfter \in Nat
  BY CheckNumbers
<1>2. t \in Tags
  BY DEF Written, Tags
<1>3. s \in Seq(CheckRow) /\ NewestFirst(s) /\ FullRounds(t, s, Runs)
  BY <1>2 DEF CheckInv, CheckTypes
<1>4. Len(s) \in Nat /\ DOMAIN s = 1..Len(s)
  BY <1>3, LenProperties
<1>5. \A j \in 1..m : RowKind(t, j) = "ok"
  BY <1>1 DEF RowKind
<1>6. ASSUME NEW k \in 0..(Runs - 1), NEW j \in 1..n, k <= W
      PROVE  k * n + j \in DOMAIN s /\ s[k * n + j] = [kind |-> RowKind(t, j), age |-> k]
  BY <1>3, <1>6 DEF FullRounds
<1>7. 1 \in DOMAIN s /\ s[1] = [kind |-> "ok", age |-> 0]
  <2>1. 0 \in 0..(Runs - 1) /\ 1 \in 1..n /\ 0 <= W /\ 1 \in 1..m
    BY <1>1
  <2>2. 0 * n + 1 = 1
    BY <1>1
  <2>3. 0 * n + 1 \in DOMAIN s /\ s[0 * n + 1] = [kind |-> RowKind(t, 1), age |-> 0]
    BY <1>6, <2>1
  <2> QED
    BY <1>5, <2>1, <2>2, <2>3
<1>8. ~StaleTag(t)
  <2>1. s # <<>>
    BY <1>7
  <2>2. s[1].age = 0
    BY <1>7
  <2> QED
    BY <1>1, <2>1, <2>2 DEF StaleTag
<1>9. /\ u \in Seq(CheckRow) /\ Len(u) \in 0..Len(s) /\ Len(u) <= Limit /\ Limit \in Nat
      /\ \A i \in 1..Len(s) : i <= Limit => i <= Len(u)
      /\ \A i \in 1..Len(u) : u[i] = s[i]
  BY <1>2, SeenRows
<1>10. Limit = Runs * n /\ DOMAIN u = 1..Len(u) /\ Len(u) \in Nat
  BY <1>9, LenProperties DEF Limit
<1> HIDE DEF s, u, n, m, W
<1>11. 1 \in DOMAIN u /\ u[1] = [kind |-> "ok", age |-> 0]
  <2>1. 1 <= Limit
    BY <1>1, <1>10
  <2> QED
    BY <1>4, <1>7, <1>9, <1>10, <2>1
<1>12. Count(u, {"ok", "alive"}) # 0
  BY <1>9, <1>11, Counted
<1>13. ~DarkLately(t)
  <2> DEFINE S == {i \in DOMAIN u : u[i].age = u[1].age}
             q == Cardinality(S)
             r == SubSeq(u, 1, q)
  <2>1. S \subseteq 1..Len(u) /\ IsFiniteSet(1..Len(u)) /\ Cardinality(1..Len(u)) = Len(u)
    BY <1>10, FS_Interval
  <2>2. q \in Nat /\ q <= Len(u)
    <3> HIDE DEF S
    <3>1. q <= Cardinality(1..Len(u))
      BY <2>1, FS_Subset
    <3>2. IsFiniteSet(S)
      BY <2>1, FS_Subset
    <3> QED
      BY <2>1, <3>1, <3>2, FS_CardinalityType
  <2>3. q # 0
    <3>1. 1 \in S /\ IsFiniteSet(S)
      BY <1>11, <2>1, FS_Subset
    <3> HIDE DEF S
    <3> QED
      BY <3>1, FS_EmptySet
  <2>4. LatestRun(t) = r
    BY DEF LatestRun, u
  <2> HIDE DEF q, S
  <2>5. r = [i \in 1..q |-> u[i]]
    BY <1>9, <1>10, <2>2
  <2>6. \A i \in 1..q : u[i] \in CheckRow
    <3>1. \A i \in 1..q : i \in DOMAIN u
      BY <1>10, <2>2
    <3> QED
      BY <1>9, <3>1, RowTyped
  <2>7. [i \in 1..q |-> u[i]] \in [1..q -> CheckRow]
    BY <2>6
  <2>8. r \in Seq(CheckRow)
    BY <2>2, <2>5, <2>7, SeqDef
  <2>9. 1 \in DOMAIN r /\ r[1].kind = "ok"
    BY <1>11, <2>2, <2>3, <2>5
  <2> HIDE DEF r
  <2>10. Count(r, {"ok"}) # 0
    BY <2>8, <2>9, Counted
  <2> QED
    BY <2>4, <2>10 DEF DarkLately
<1>14. \E R \in Nat : 0 < R /\ R <= Runs /\ R <= W + 1 /\ Len(u) <= R * n
  <2>1. CASE Runs <= W + 1
    BY <1>1, <1>9, <1>10, <2>1
  <2>2. CASE ~(Runs <= W + 1)
    <3>1. W + 1 \in 0..Runs /\ (W + 1) * n \in Nat
      BY <1>1, <2>2
    <3>2. ASSUME NEW i \in DOMAIN s, i > (W + 1) * n PROVE FALSE
      <4>1. W + 1 <= s[i].age
        BY <1>3, <3>1, <3>2 DEF FullRounds, n
      <4>2. s[i].age <= W /\ s[i].age \in Nat
        BY <1>3, RowTyped DEF NewestFirst, W
      <4> QED
        BY <1>1, <4>1, <4>2
    <3>3. Len(s) <= (W + 1) * n
      <4> SUFFICES ASSUME ~(Len(s) <= (W + 1) * n) PROVE FALSE
        OBVIOUS
      <4>1. Len(s) \in DOMAIN s /\ Len(s) > (W + 1) * n
        BY <1>4, <3>1
      <4> QED
        BY <3>2, <4>1
    <3>4. Len(u) <= (W + 1) * n
      BY <1>4, <1>9, <1>10, <3>1, <3>3
    <3>5. W + 1 \in Nat /\ 0 < W + 1 /\ W + 1 <= Runs
      BY <1>1, <2>2
    <3> QED
      BY <3>4, <3>5
  <2> QED
    BY <2>1, <2>2
<1>15. PICK R \in Nat : 0 < R /\ R <= Runs /\ R <= W + 1 /\ Len(u) <= R * n
  BY <1>14
<1>16. Count(u, {"ok"}) \in Nat /\ R * m <= Count(u, {"ok"})
  <2> DEFINE Grid == Blocks(n, m, R)
             Ok == {i \in DOMAIN u : u[i].kind \in {"ok"}}
  <2>1. ASSUME NEW k \in 0..(R - 1), NEW j \in 1..m PROVE k * n + j \in Ok
    <3>1. k \in 0..(Runs - 1) /\ j \in 1..n /\ k <= W
      BY <1>1, <1>15
    <3>2. k * n + j \in DOMAIN s /\ s[k * n + j] = [kind |-> RowKind(t, j), age |-> k]
      BY <1>6, <3>1
    <3>3. k * n + j <= Limit
      <4>1. (k + 1) * n = k * n + n /\ k + 1 <= Runs /\ k + 1 \in Nat
        BY <1>1, <3>1
      <4>2. (k + 1) * n <= Runs * n
        BY <1>1, <4>1
      <4>3. k * n \in Nat
        BY <1>1, <3>1
      <4> QED
        BY <1>1, <1>10, <3>1, <4>1, <4>2, <4>3
    <3> DEFINE x == k * n + j
    <3>4. x \in DOMAIN s /\ s[x].kind = "ok" /\ x <= Limit
      BY <1>5, <3>2, <3>3
    <3> HIDE DEF x
    <3>5. x \in DOMAIN u /\ u[x] = s[x]
      BY <1>4, <1>9, <1>10, <3>4
    <3>6. x \in Ok
      BY <3>4, <3>5
    <3> QED
      BY <3>6 DEF x
  <2>2. IsFiniteSet(Grid) /\ Cardinality(Grid) = R * m
    <3>1. m \in 0..n
      BY <1>1
    <3> QED
      BY <1>1, <1>15, <3>1, BlocksCount
  <2>3. Grid \subseteq Ok
    BY <2>1 DEF Blocks
  <2>4. IsFiniteSet(Ok)
    <3>1. IsFiniteSet(DOMAIN u)
      BY <1>10, FS_Interval
    <3> QED
      BY <3>1, FS_Subset
  <2> HIDE DEF Grid, Ok
  <2>5. Cardinality(Grid) <= Cardinality(Ok) /\ Cardinality(Ok) \in Nat
    BY <2>3, <2>4, FS_Subset, FS_CardinalityType
  <2> QED
    BY <2>2, <2>5 DEF Count, Ok
<1>17. ~(2 * n * Count(u, {"ok"}) < m * Len(u))
  <2> DEFINE c == Count(u, {"ok"})
             l == Len(u)
  <2>1. c \in Nat /\ l \in Nat /\ R * m <= c /\ l <= R * n /\ R * m \in Nat /\ R * n \in Nat
    BY <1>1, <1>10, <1>15, <1>16
  <2> HIDE DEF c, l
  <2>2. m * l <= m * (R * n)
    BY <1>1, <2>1
  <2>3. m * (R * n) = n * (R * m)
    BY <1>1, <2>1
  <2>4. n * (R * m) <= n * c
    BY <1>1, <2>1
  <2>5. n * c \in Nat /\ 2 * n * c = n * c + n * c
    BY <1>1, <2>1
  <2>6. m * l \in Nat /\ m * (R * n) \in Nat /\ n * (R * m) \in Nat
    BY <1>1, <2>1
  <2>7. ~(2 * n * c < m * l)
    BY <2>2, <2>3, <2>4, <2>5, <2>6
  <2> QED
    BY <2>7 DEF c, l
<1>18. ProbeVerdict(t) = "OK"
  BY <1>8, <1>12, <1>13, <1>17 DEF ProbeVerdict, u, n, m
<1> QED
  BY <1>8, <1>18

LEMMA AlarmsEnd == CheckInv => AlarmEnds
<1> SUFFICES ASSUME CheckInv, calm = Runs, faults = {},
                    NEW av \in Readings, Layer \union {"nat"} \subseteq av.from
             PROVE  ExitCode(av) = 0
  BY DEF AlarmEnds
<1>1. Probed \subseteq Written /\ Probed # {} /\ Turbo \in Tags /\ Probed \subseteq Tags
  BY CheckConstants DEF Written, Tags
<1>2. ~PipelineStale
  BY <1>1, WellAgain DEF PipelineStale
<1>3. "a" \in av.from /\ "b" \in av.from /\ "c" \in av.from /\ "nat" \in av.from
  BY DEF Layer
<1>4. \A t \in Written : av.probes[t] = "OK"
  BY <1>1, <1>2, <1>3, WellAgain, ProbesSay DEF Written, Tags
<1>5. BrokenInbounds(av) = {}
  <2>1. Wiped = {}
    BY DEF Wiped
  <2>2. av.lines = {}
    BY <2>1 DEF Readings
  <2> QED
    BY <2>2 DEF BrokenInbounds
<1>6. TurboByHosts(av) = "OK"
  BY <1>3 DEF TurboByHosts
<1>7. ASSUME NEW t \in Tags PROVE State(t, av) = "OK"
  <2>1. CASE t # Turbo
    <3>1. t \in Written
      BY <1>1, <2>1 DEF Tags
    <3> QED
      BY <1>4, <1>5, <2>1, <3>1 DEF State
  <2>2. CASE t = Turbo /\ Turbo \notin ProbedTags(av)
    BY <1>3, <1>6, <2>2 DEF State
  <2>3. CASE t = Turbo /\ Turbo \in ProbedTags(av)
    <3>1. rows[Turbo] # <<>>
      BY <2>3, CheckConstants DEF ProbedTags
    <3>2. turbo
      BY <3>1 DEF CheckInv
    <3>3. Turbo \in Written
      BY <1>1, <3>2 DEF Written
    <3> QED
      BY <1>3, <1>4, <1>6, <2>3, <3>3 DEF State
  <2> QED
    BY <2>1, <2>2, <2>3
<1> QED
  BY <1>7 DEF ExitCode

\* The check run when an outage is suspected keeps its promises, whatever faults come and
\* go, whatever rounds the probe fails to write and whatever is read of the hosts: types, no
\* outage passed, no protocol called dead that is not, a suspect for every death, the cause
\* if what shows it was read, no pass without fresh rows and both hosts, and an end to the
\* alarm (protocol_healthcheck.py's assess and exit_code_for).
THEOREM ChecksKept == CheckSpec => []CheckHolds
<1>1. CheckInv => CheckHolds
  BY TypesKept, OutagesSeen, DeathsAreReal, CausesFound, EyesNeeded, AlarmsEnd DEF CheckHolds
<1> QED
  BY <1>1, CheckInvInit, CheckInvNext, PTL DEF CheckSpec

\* The same of the run's host, in which the check is one of the parts that may move.
THEOREM HostedChecksKept == HostSpec => []ChecksHold
<1>1. HostInit => CheckInit
  BY DEF HostInit
<1>2. [HostNext]_hostVars => [CheckNext]_checkVars
  BY DEF HostNext, hostVars, checkVars
<1>3. CheckHolds => ChecksHold
  BY DEF ChecksHold
<1>4. CheckSpec => []CheckHolds
  BY ChecksKept
<1> QED
  BY <1>1, <1>2, <1>3, <1>4, PTL DEF HostSpec, CheckSpec
==============================================================================
