------------------------------ MODULE Cascade -------------------------------
(***************************************************************************)
(* The order of protocols a user is served: get_cascade_order of           *)
(* bot/handlers/callbacks/user.py over the settings the operator, the      *)
(* monitor and the lockdown switch keep in app_settings.  Settings are     *)
(* written by different threads, so any combination of them may be read.   *)
(*                                                                         *)
(* ProjectOnly is Project with a bug in it: see "mutants" in PROJECT.json. *)
(***************************************************************************)
EXTENDS SequencesExt, FiniteSets, Sublists

CONSTANTS
  Known,          \* PROTOCOL_METHOD_MAP, a sequence: its order is used
  DefaultOrder,   \* DEFAULT_CASCADE_ORDER
  CountryDefault, \* COUNTRY_CASCADE_DEFAULTS of the user's country, or <<>>
  LockdownOrder,  \* LOCKDOWN_ORDER
  Free,           \* protocols of the free tier
  Tiers,          \* "paid", "demo", or "nobody": the dashboard preview
  Configs,        \* stored cascade_protocol_order values the operator may save
  Orders          \* stored override lists the operator may save

Protocols == ToSet(Known)

\* The tables of the code name each protocol once; what the operator saves may be any list.
ASSUME CascadeConstants ==
  /\ {Known, DefaultOrder, CountryDefault, LockdownOrder} \subseteq Seq(STRING)
  /\ IsInjective(Known) /\ IsInjective(DefaultOrder) /\ IsInjective(LockdownOrder)
  /\ ToSet(DefaultOrder) = Protocols
  /\ Configs \subseteq Seq([name : STRING, enabled : BOOLEAN])
  /\ Orders \subseteq Seq(STRING)

VARIABLES
  config,    \* cascade_protocol_order: a sequence of [name, enabled]
  byAsn,     \* cascade_by_asn of the user's network, <<>> for none
  byCountry, \* cascade_by_country of the user's country, <<>> for none
  locked,    \* lockdown_mode.active
  lockOrder, \* cascade_lockdown, <<>> for none
  sunk       \* cascade_auto: global or of the user's network

vars == <<config, byAsn, byCountry, locked, lockOrder, sunk>>

Names(items) == [i \in DOMAIN items |-> items[i].name]

\* get_cascade_config: unknown names and repeats dropped, protocols the
\* operator has never seen appended as enabled.
CascadeConfig(stored) ==
  LET first(i) == \A j \in 1..(i - 1) : stored[j].name # stored[i].name
      kept == Pick(stored, {i \in DOMAIN stored : stored[i].name \in Protocols /\ first(i)})
      enable(s) == [i \in DOMAIN s |-> [name |-> s[i], enabled |-> TRUE]]
  IN  IF kept = <<>> THEN enable(DefaultOrder)
      ELSE kept \o enable(Drop(Known, ToSet(Names(kept))))

EnabledOrder(stored) ==
  LET all == CascadeConfig(stored)
  IN  Names(Pick(all, {i \in DOMAIN all : all[i].enabled}))

\* get_asn_cascade, else get_country_cascade: <<>> when neither says anything.
Override(asn, country) ==
  LET a == Keep(asn, Protocols)
      c == Keep(country, Protocols)
  IN  IF a # <<>> THEN a ELSE IF c # <<>> THEN c ELSE CountryDefault

BaseOrder(stored, asn, country) ==
  LET enabled == EnabledOrder(stored)
      chosen == Once(Keep(Override(asn, country), ToSet(enabled)))
  IN  chosen \o Drop(enabled, ToSet(chosen))

ProjectOnly(order, stored) ==
  LET known == Once(Keep(stored, Protocols))
      top == IF known = <<>> THEN LockdownOrder ELSE known
  IN  Keep(top, ToSet(order))

\* load_lockdown_order and apply_lockdown_order.
Project(order, stored) ==
  LET known == Once(Keep(stored, Protocols))
      top == IF known = <<>> THEN LockdownOrder ELSE known
      head == Keep(top, ToSet(order))
  IN  head \o Drop(order, ToSet(head))

\* The stable partition, then the tier.
Sink(order, S) == Drop(order, S) \o Keep(order, S)
ForTier(order, tier) == IF tier = "demo" THEN Keep(order, Free) ELSE order

\* get_cascade_order; "forced" is the emergency profile's force_lockdown.
CascadeOrder(tier, forced) ==
  LET base == BaseOrder(config, byAsn, byCountry)
      projected == IF forced \/ locked THEN Project(base, lockOrder) ELSE base
  IN  ForTier(Sink(projected, sunk), tier)
-----------------------------------------------------------------------------
Init ==
  /\ config \in Configs /\ byAsn \in Orders /\ byCountry \in Orders
  /\ locked = FALSE /\ lockOrder = <<>> /\ sunk = {}

SaveConfig == config' \in Configs /\ UNCHANGED <<byAsn, byCountry, locked, lockOrder, sunk>>
SaveLockOrder == lockOrder' \in Orders /\ UNCHANGED <<config, byAsn, byCountry, locked, sunk>>
FlipLockdown == locked' = ~locked /\ UNCHANGED <<config, byAsn, byCountry, lockOrder, sunk>>
Demote == /\ \E p \in Protocols \ sunk : sunk' = sunk \cup {p}
          /\ UNCHANGED <<config, byAsn, byCountry, locked, lockOrder>>
Restore == /\ \E p \in sunk : sunk' = sunk \ {p}
           /\ UNCHANGED <<config, byAsn, byCountry, locked, lockOrder>>

Next == SaveConfig \/ SaveLockOrder \/ FlipLockdown \/ Demote \/ Restore

Spec == Init /\ [][Next]_vars
-----------------------------------------------------------------------------
IsOn(p) == \A i \in DOMAIN config :
             config[i].name = p /\ (\A j \in 1..(i - 1) : config[j].name # p)
               => config[i].enabled

\* Whatever the lockdown and the monitor do to the order, a user is served
\* exactly the enabled protocols of the tier, each once.
NothingLost ==
  \A tier \in Tiers, forced \in BOOLEAN :
    LET order == CascadeOrder(tier, forced)
    IN  /\ IsInjective(order)
        /\ ToSet(order) = {p \in Protocols :
                             IsOn(p) /\ (tier = "demo" => p \in Free)}

\* Position in a list, past its end for what the list does not name.
Place(s, p) == IF Contains(s, p) THEN SelectInSeq(s, LAMBDA x : x = p) ELSE Len(s) + 1

\* What decides between two protocols, most important first: the monitor's
\* verdict, the lockdown order when it applies, the finest override that knows
\* a protocol, the operator's own order.
Key(p, forced) ==
  LET over == Override(byAsn, byCountry)
      top == Keep(lockOrder, Protocols)
  IN  <<IF p \in sunk THEN 1 ELSE 0,
        IF forced \/ locked
        THEN Place(IF top = <<>> THEN LockdownOrder ELSE top, p) ELSE 0,
        Place(over, p),
        Place(Names(CascadeConfig(config)), p)>>

Before(k, l) ==
  \E n \in 1..4 : k[n] < l[n] /\ \A m \in 1..(n - 1) : k[m] = l[m]

\* The pipeline of projections is the lexicographic order of those four keys:
\* no layer undoes a layer above it, and none reshuffles what it does not rank.
SortedByVerdict ==
  \A tier \in Tiers, forced \in BOOLEAN :
    LET order == CascadeOrder(tier, forced)
    IN  \A i, j \in DOMAIN order :
          i < j => Before(Key(order[i], forced), Key(order[j], forced))

\* What every order handed out promises: nothing lost or repeated, and the four keys in turn.
OrderSound == NothingLost /\ SortedByVerdict
=============================================================================
