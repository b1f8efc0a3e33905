----------------------------- MODULE RuleLists ------------------------------
(***************************************************************************)
(* services/rule_lists.py with its callers in handlers/admin/lists.py and   *)
(* handlers/callbacks/rule_lists.py: the operator's rule lists, the users'  *)
(* complaint queue, the automatic rule, and the copies clients download.    *)
(* Commands and complaints come one by one from the polling thread; a call  *)
(* on app_settings may fail and the process may die between two of them.    *)
(* The CIDR list, which no complaint reaches, is left out.                  *)
(*                                                                         *)
(* AutoFreeUnlessListed is AutoFree with a bug in it: see "mutants" in     *)
(* PROJECT.json.                                                           *)
(***************************************************************************)
EXTENDS Integers, FiniteSets

CONSTANTS VpnList,       \* domain lists of target VPN
          ServedList,    \* lists whose copies are followed
          Site,          \* normalised domains
          Above,         \* site -> its parent domains
          RuZone,        \* sites under RU_ZONE_TLDS
          Complainer,    \* key holders who complain
          AutoThreshold, \* rule_list_auto_threshold
          MaxEntries, DailyLimit,
          KeepDays,      \* QUEUE_RETENTION_DAYS; a day is the automatic rule's window
          IgnoreDays,
          RuleFaults,    \* bound: failed calls and deaths
          NoSite

RuleList == VpnList \union {"ru-direct"}

ASSUME RuleConstants ==
  /\ "blocked-recent" \in VpnList /\ "ru-direct" \notin VpnList /\ ServedList \subseteq RuleList
  /\ Above \in [Site -> SUBSET Site] /\ RuZone \subseteq Site
  /\ AutoThreshold \in Nat /\ MaxEntries \in Nat /\ DailyLimit \in Nat
  /\ KeepDays \in Nat \ {0} /\ IgnoreDays \in Nat /\ IgnoreDays > KeepDays
  /\ RuleFaults \in Nat /\ NoSite \notin Site

VARIABLES lists,       \* rule_lists: list -> entries
          pendingAge,  \* rule_list_queue: user -> site -> days since his open complaint
          today,       \* user -> complaints of the last 24 hours
          ignoredAge,  \* queue's ignored: site -> days since the admin's no
          copy,        \* what a client last downloaded of each list
          deciding,    \* site just complained about, which the automatic rule looks at next
          ruleFaults,
          takenOut,    \* list -> entries the operator removed (history)
          saidNoAge,   \* site -> days since a no that was written (history)
          voices       \* site -> users who complained today, since it was last decided (history)

ruleVars == <<lists, pendingAge, today, ignoredAge, copy, deciding, ruleFaults,
              takenOut, saidNoAge, voices>>
historyVars == <<takenOut, saidNoAge, voices>>

Covered(n, d) == ({d} \union Above[d]) \intersect lists[n] # {}
Open(d) == {u \in Complainer : pendingAge[u][d] < KeepDays}
RuleFault == ruleFaults < RuleFaults /\ ruleFaults' = ruleFaults + 1

-----------------------------------------------------------------------------
RuleInit ==
  /\ lists = [n \in RuleList |-> {}] /\ copy = [n \in ServedList |-> {}]
  /\ pendingAge = [u \in Complainer |-> [d \in Site |-> KeepDays]]
  /\ today = [u \in Complainer |-> 0]
  /\ ignoredAge = [d \in Site |-> IgnoreDays] /\ ruleFaults = 0
  /\ deciding = NoSite
  /\ takenOut = [n \in ServedList |-> {}]
  /\ saidNoAge = [d \in Site |-> IgnoreDays]
  /\ voices = [d \in Site |-> {}]

\* settle_domain: the open complaints about the site are closed.
Settled(d) == [u \in Complainer |-> [pendingAge[u] EXCEPT ![d] = KeepDays]]

\* add_entry on a list where nothing covers the entry and there is room; for a VPN list
\* the complaints are settled and a no is lifted, unless that second write fails.
AddTo(n, d) ==
  /\ ~Covered(n, d) /\ Cardinality(lists[n]) < MaxEntries
  /\ lists' = [lists EXCEPT ![n] = @ \union {d}]
  /\ takenOut' = [m \in ServedList |-> IF m = n THEN takenOut[m] \ {d} ELSE takenOut[m]]
  /\ IF n \notin VpnList
     THEN UNCHANGED <<pendingAge, ignoredAge, saidNoAge, voices, ruleFaults>>
     ELSE /\ voices' = [voices EXCEPT ![d] = {}]
          /\ saidNoAge' = [saidNoAge EXCEPT ![d] = IgnoreDays]
          /\ \/ /\ pendingAge' = Settled(d)
                /\ ignoredAge' = [ignoredAge EXCEPT ![d] = IgnoreDays]
                /\ UNCHANGED ruleFaults
             \/ RuleFault /\ UNCHANGED <<pendingAge, ignoredAge>>

\* /list add, and the add button of a complaint card, which also settles the complaints
\* about a covered site.  A strict read that fails writes nothing: UNCHANGED.
ListAdded(n, d) ==
  /\ deciding = NoSite
  /\ AddTo(n, d)
  /\ UNCHANGED <<today, copy, deciding>>

CoveredSettled(d) ==
  /\ deciding = NoSite /\ Open(d) # {} /\ Covered("blocked-recent", d)
  /\ pendingAge' = Settled(d) /\ voices' = [voices EXCEPT ![d] = {}]
  /\ UNCHANGED <<lists, today, ignoredAge, copy, deciding, ruleFaults, takenOut, saidNoAge>>

\* ignore_domain; its write is not checked.
SaidNo(d) ==
  \/ /\ pendingAge' = Settled(d)
     /\ voices' = [voices EXCEPT ![d] = {}]
     /\ ignoredAge' = [ignoredAge EXCEPT ![d] = 0]
     /\ saidNoAge' = [saidNoAge EXCEPT ![d] = 0]
     /\ UNCHANGED ruleFaults
  \/ RuleFault /\ UNCHANGED <<pendingAge, ignoredAge, saidNoAge, voices>>

\* /list rm: taking a site out of a VPN list is a no to the automatic rule.
ListRemoved(n, d) ==
  /\ deciding = NoSite /\ d \in lists[n]
  /\ lists' = [lists EXCEPT ![n] = @ \ {d}]
  /\ takenOut' = [m \in ServedList |-> IF m = n THEN takenOut[m] \union {d} ELSE takenOut[m]]
  /\ IF n \in VpnList THEN SaidNo(d)
     ELSE UNCHANGED <<pendingAge, ignoredAge, saidNoAge, voices, ruleFaults>>
  /\ UNCHANGED <<today, copy, deciding>>

\* The ignore button of a complaint card.
ComplaintIgnored(d) ==
  /\ deciding = NoSite /\ Open(d) # {}
  /\ SaidNo(d)
  /\ UNCHANGED <<lists, today, copy, deciding, takenOut>>

\* record_complaint: one open complaint per user and site, DailyLimit a day.
Complained(u, d) ==
  /\ deciding = NoSite
  /\ pendingAge[u][d] = KeepDays /\ today[u] < DailyLimit
  /\ pendingAge' = [pendingAge EXCEPT ![u][d] = 0]
  /\ today' = [today EXCEPT ![u] = @ + 1]
  /\ voices' = [voices EXCEPT ![d] = @ \union {u}]
  /\ deciding' = d
  /\ UNCHANGED <<lists, ignoredAge, copy, ruleFaults, takenOut, saidNoAge>>

\* auto_guard and decide_auto_adds.
AutoFreeUnlessListed(d) == ~\E n \in VpnList : Covered(n, d)
AutoFree(d) ==
  /\ ~\E n \in RuleList : Covered(n, d)
  /\ ignoredAge[d] >= IgnoreDays
  /\ d \notin RuZone
Decided(d) ==
  /\ AutoThreshold >= 1
  /\ Cardinality({u \in Complainer : pendingAge[u][d] = 0}) >= AutoThreshold
  /\ AutoFree(d)

\* run_auto, right after a complaint about the site was queued ...
AutoAdded(d) ==
  /\ deciding = d /\ Decided(d)
  /\ AddTo("blocked-recent", d)
  /\ deciding' = NoSite
  /\ UNCHANGED <<today, copy>>

\* ... which decides against it, has no room, cannot read the state, or dies.
AutoPassed ==
  /\ deciding # NoSite
  /\ \/ /\ ~Decided(deciding) \/ Cardinality(lists["blocked-recent"]) >= MaxEntries
        /\ UNCHANGED ruleFaults
     \/ RuleFault
  /\ deciding' = NoSite
  /\ UNCHANGED <<lists, pendingAge, today, ignoredAge, copy, historyVars>>

\* serve_provider: a client keeps its copy of a list that cannot be read (503).
Served(n) == copy' = [copy EXCEPT ![n] = lists[n]]
ProviderFetched(n) ==
  /\ Served(n)
  /\ UNCHANGED <<lists, pendingAge, today, ignoredAge, deciding, ruleFaults, historyVars>>

\* A day passes: _prune_queue drops old complaints and old noes.
NextDay ==
  /\ deciding = NoSite
  /\ pendingAge' = [u \in Complainer |-> [d \in Site |->
                     IF pendingAge[u][d] < KeepDays THEN pendingAge[u][d] + 1 ELSE KeepDays]]
  /\ today' = [u \in Complainer |-> 0]
  /\ ignoredAge' = [d \in Site |-> IF ignoredAge[d] < IgnoreDays THEN ignoredAge[d] + 1
                                                                 ELSE IgnoreDays]
  /\ saidNoAge' = [d \in Site |-> IF saidNoAge[d] < IgnoreDays THEN saidNoAge[d] + 1
                                                               ELSE IgnoreDays]
  /\ voices' = [d \in Site |-> {}]
  /\ UNCHANGED <<lists, copy, deciding, ruleFaults, takenOut>>

RuleNext ==
  \/ NextDay \/ AutoPassed
  \/ \E n \in ServedList : ProviderFetched(n)
  \/ \E n \in RuleList, d \in Site : ListAdded(n, d) \/ ListRemoved(n, d)
  \/ \E d \in Site : \/ CoveredSettled(d) \/ ComplaintIgnored(d) \/ AutoAdded(d)
                     \/ \E u \in Complainer : Complained(u, d)

RuleSpec == RuleInit /\ [][RuleNext]_ruleVars

-----------------------------------------------------------------------------
RuleTypeOK ==
  /\ \A n \in RuleList : /\ lists[n] \subseteq Site /\ Cardinality(lists[n]) <= MaxEntries
  /\ \A n \in ServedList : copy[n] \subseteq Site /\ takenOut[n] \subseteq Site
  /\ pendingAge \in [Complainer -> [Site -> 0..KeepDays]]
  /\ today \in [Complainer -> 0..DailyLimit]
  /\ ignoredAge \in [Site -> 0..IgnoreDays] /\ saidNoAge \in [Site -> 0..IgnoreDays]
  /\ ruleFaults \in 0..RuleFaults /\ deciding \in Site \union {NoSite}
  /\ voices \in [Site -> SUBSET Complainer]

\* The automatic rule never puts back what the operator took out or refused, for as long
\* as his no holds, nor a site he sends direct or a site of the RU zone.
AutoObeys ==
  [][\A d \in Site : AutoAdded(d) =>
       /\ saidNoAge[d] = IgnoreDays /\ d \notin RuZone
       /\ ({d} \union Above[d]) \intersect lists["ru-direct"] = {}]_ruleVars

\* It acts only on enough users who complained within the day and since the site was last
\* decided, even when the write that settles complaints failed once.
AutoHasVoices ==
  [][\A d \in Site : AutoAdded(d) => Cardinality(voices[d]) >= AutoThreshold]_ruleVars

\* A rule leaves a client only after the operator took it out: no failed read or write
\* on the way from the lists to the clients wipes one.
ClientsKeepRules ==
  [][\A n \in ServedList : copy[n] \ copy'[n] \subseteq takenOut[n]]_ruleVars

\* What the rule lists promise.
ListsHold == []RuleTypeOK /\ AutoObeys /\ AutoHasVoices /\ ClientsKeepRules
=============================================================================
