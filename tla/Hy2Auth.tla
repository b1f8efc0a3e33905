------------------------------ MODULE Hy2Auth ------------------------------
(***************************************************************************)
(* core/web_server.py: the Hysteria daemon asks whether a client may        *)
(* connect. The row of the user is read at once; the quota is judged by the *)
(* panel reading a background refresh left in the cache, so the panel is    *)
(* never waited for. A reading is used until HY2_QUOTA_STALE_MAX_S, and a   *)
(* refresh is asked for once it is older than HY2_QUOTA_FRESH_S.            *)
(*                                                                         *)
(* WantsRefreshOnce is WantsRefresh with a bug in it: see "mutants" in     *)
(* PROJECT.json.                                                           *)
(***************************************************************************)
EXTENDS Integers

CONSTANTS HyUser,
          FreshAge,      \* HY2_QUOTA_FRESH_S in ticks
          StaleMax,      \* HY2_QUOTA_STALE_MAX_S in ticks
          MaxHyEvents    \* bound: changes of a row or counter, panel faults and restarts

ASSUME Hy2Constants ==
  FreshAge \in Nat \ {0} /\ StaleMax \in Nat /\ FreshAge < StaleMax /\ MaxHyEvents \in Nat

VARIABLES hyRow,      \* user -> "paid", "demo" or "out" (banned, expired, no key)
          hySpent,    \* user -> the panel has cut the client or its quota is used up
          hyCache,    \* user -> [age, says]: _hy2_quota_cache
          refreshing, \* _hy2_quota_refreshing
          hyAnswer,   \* user -> last answer of the main instance
          due,        \* users who have still to connect in this tick (bound on the clock)
          hyEvents

hyVars == <<hyRow, hySpent, hyCache, refreshing, hyAnswer, due, hyEvents>>

NoEntry == [age |-> StaleMax, says |-> "nothing"]

HyInit ==
  /\ hyRow \in [HyUser -> {"paid", "demo", "out"}]
  /\ hySpent = [u \in HyUser |-> FALSE]
  /\ hyCache = [u \in HyUser |-> NoEntry]
  /\ refreshing = {}
  /\ hyAnswer = [u \in HyUser |-> "none"]
  /\ due = HyUser
  /\ hyEvents = 0

\* The tier gate: the Turbo instance wants a payer, the main one takes demo keys too.
Entitled(u, paid_only) == hyRow[u] = "paid" \/ (~paid_only /\ hyRow[u] = "demo")

\* A reading older than the limit is no reading; none at all lets the client in.
Reading(u) == IF hyCache[u].age < StaleMax THEN hyCache[u].says ELSE "nothing"
Allowed(u, paid_only) == Entitled(u, paid_only) /\ Reading(u) # "spent"

\* An entry kept past STALE_MAX is like none: both are refreshed.
WantsRefreshOnce(u) == hyCache[u] = NoEntry /\ u \notin refreshing
WantsRefresh(u) == hyCache[u].age >= FreshAge /\ u \notin refreshing

\* _hy2_auth_common. Only a client the row lets in has its quota looked at.
HyConnect(u, paid_only) ==
  /\ hyAnswer' = IF paid_only THEN hyAnswer
                 ELSE [hyAnswer EXCEPT ![u] = IF Allowed(u, FALSE) THEN "allow" ELSE "deny"]
  /\ refreshing' = IF Entitled(u, paid_only) /\ WantsRefresh(u)
                   THEN refreshing \union {u} ELSE refreshing
  /\ due' = IF paid_only THEN due ELSE due \ {u}
  /\ UNCHANGED <<hyRow, hySpent, hyCache, hyEvents>>

\* _refresh: what the panel says is stored; the e-mail may be refreshed again.
RefreshAnswered(u) ==
  /\ u \in refreshing
  /\ hyCache' = [hyCache EXCEPT ![u] = [age |-> 0, says |-> IF hySpent[u] THEN "spent" ELSE "left"]]
  /\ refreshing' = refreshing \ {u}
  /\ UNCHANGED <<hyRow, hySpent, hyAnswer, due, hyEvents>>

\* The panel does not answer, or does not list the client: XUIService turns every error
\* into None, so the refresh "succeeds" and an empty reading replaces the last one.
RefreshFailed(u) ==
  /\ u \in refreshing /\ hyEvents < MaxHyEvents
  /\ hyCache' = [hyCache EXCEPT ![u] = [age |-> 0, says |-> "nothing"]]
  /\ refreshing' = refreshing \ {u}
  /\ hyEvents' = hyEvents + 1
  /\ UNCHANGED <<hyRow, hySpent, hyAnswer, due>>

\* Traffic, the monthly reset, a purchase; a ban, an expiry, a grant.
CounterMoves(u) ==
  /\ hyEvents < MaxHyEvents
  /\ hyEvents' = hyEvents + 1
  /\ \/ hySpent' = [hySpent EXCEPT ![u] = ~@] /\ UNCHANGED hyRow
     \/ \E s \in {"paid", "demo", "out"} \ {hyRow[u]} :
          hyRow' = [hyRow EXCEPT ![u] = s] /\ UNCHANGED hySpent
  /\ UNCHANGED <<hyCache, refreshing, hyAnswer, due>>

\* One connection a tick at least (who connects less often than StaleMax is never judged),
\* and a panel call is over, or timed out, within one.
HyTick ==
  /\ due = {} /\ refreshing = {} /\ due' = HyUser
  /\ hyCache' = [u \in HyUser |-> [hyCache[u] EXCEPT !.age = IF @ < StaleMax THEN @ + 1 ELSE @]]
  /\ UNCHANGED <<hyRow, hySpent, refreshing, hyAnswer, hyEvents>>

\* Cache and tasks live in the process.
HyRestart ==
  /\ hyEvents < MaxHyEvents
  /\ hyEvents' = hyEvents + 1
  /\ hyCache' = [u \in HyUser |-> NoEntry] /\ refreshing' = {}
  /\ UNCHANGED <<hyRow, hySpent, hyAnswer, due>>

HyNext ==
  \/ \E u \in HyUser : \/ \E paid_only \in BOOLEAN : HyConnect(u, paid_only)
                       \/ RefreshAnswered(u) \/ RefreshFailed(u) \/ CounterMoves(u)
  \/ HyTick \/ HyRestart

\* Clients reconnect; the event loop finishes what was started; time passes.
HySpec ==
  /\ HyInit /\ [][HyNext]_hyVars /\ WF_hyVars(HyTick)
  /\ \A u \in HyUser : WF_hyVars(HyConnect(u, FALSE)) /\ WF_hyVars(RefreshAnswered(u))

-----------------------------------------------------------------------------
HyTypeOK ==
  /\ hyRow \in [HyUser -> {"paid", "demo", "out"}]
  /\ hySpent \in [HyUser -> BOOLEAN]
  /\ hyCache \in [HyUser -> [age : 0 .. StaleMax, says : {"nothing", "left", "spent"}]]
  /\ refreshing \subseteq HyUser /\ due \subseteq HyUser
  /\ hyAnswer \in [HyUser -> {"none", "allow", "deny"}]
  /\ hyEvents \in 0 .. MaxHyEvents

\* A client over its quota is not let in for good: reconnecting, it is denied sooner or
\* later, whatever was cached and whichever readings failed (web_server.py:635-647).
SpentIsDenied ==
  \A u \in HyUser : [](hySpent[u] => <>(~hySpent[u] \/ hyAnswer[u] = "deny"))

\* And whoever has quota again, by a purchase or on the 1st, gets in again.
PaidUpIsLetIn ==
  \A u \in HyUser :
    []((~hySpent[u] /\ hyRow[u] # "out")
         => <>(hySpent[u] \/ hyRow[u] = "out" \/ hyAnswer[u] = "allow"))

\* NOT TRUE of the code (web_server.py:564-565): "A failed refresh keeps the previous
\* reading - a panel hiccup must not flip a known over-quota user back to allowed."
SpentStaysKnown ==
  [][\A u \in HyUser :
       (Reading(u) = "spent" /\ hyCache'[u].age = 0 /\ hySpent[u] /\ hySpent'[u])
         => hyCache'[u].says = "spent"]_hyVars

\* What Hysteria's authentication promises.
HysteriaHolds == []HyTypeOK /\ SpentIsDenied /\ PaidUpIsLetIn
=============================================================================
