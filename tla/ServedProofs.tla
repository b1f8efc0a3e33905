----------------------------- MODULE ServedProofs -----------------------------
(***************************************************************************)
(* Theorems about what a user is served: the order of the cascade, for all *)
(* lists the operator may save, the profiles, for all orders without       *)
(* repeats, demotions and deployments, the moves between exits, what is    *)
(* known of their load, the desk, and the guard of the agent's models.     *)
(***************************************************************************)
EXTENDS MCServed, DataLemmas, SequenceTheorems

\* The place of a protocol in a list.
LEMMA PlaceIs ==
  ASSUME NEW X, NEW s \in Seq(X), NEW x, NEW y
  PROVE  /\ Place(s, x) \in Nat
         /\ x \notin ToSet(s) => Place(s, x) = Len(s) + 1
         /\ Leads(s, x, y) => Place(s, x) < Place(s, y)
         /\ x \in ToSet(s) /\ y \notin ToSet(s) => Place(s, x) < Place(s, y)
<1>1. Len(s) \in Nat /\ DOMAIN s = 1..Len(s) /\ \A v : v \in ToSet(s) <=> \E i \in DOMAIN s : s[i] = v
  BY ListIs
<1>2. ASSUME NEW v PROVE Contains(s, v) <=> v \in ToSet(s)
  BY <1>1 DEF Contains
<1>3. ASSUME NEW v, v \in ToSet(s)
      PROVE  /\ Place(s, v) \in DOMAIN s /\ s[Place(s, v)] = v
             /\ \A i \in DOMAIN s : s[i] = v => Place(s, v) <= i
  <2> DEFINE I == {i \in 1..Len(s) : s[i] = v}
  <2>1. I \subseteq Nat /\ I # {}
    BY <1>1, <1>3
  <2>2. Min(I) \in I /\ \A i \in I : Min(I) <= i
    BY <2>1, MinIsLeast
  <2>3. Place(s, v) = Min(I)
    BY <1>2, <1>3, <2>1 DEF Place, SelectInSeq
  <2> QED
    BY <1>1, <2>2, <2>3
<1>4. ASSUME NEW v, v \notin ToSet(s) PROVE Place(s, v) = Len(s) + 1
  BY <1>2, <1>4 DEF Place
<1>5. \A v : Place(s, v) \in Nat
  BY <1>1, <1>3, <1>4
<1>6. ASSUME x \in ToSet(s), y \notin ToSet(s) PROVE Place(s, x) < Place(s, y)
  BY <1>1, <1>3, <1>4, <1>6
<1>7. ASSUME Leads(s, x, y) PROVE Place(s, x) < Place(s, y)
  <2>1. PICK i \in DOMAIN s : s[i] = x /\ \A j \in 1..i : s[j] # y
    BY <1>7 DEF Leads
  <2>2. x \in ToSet(s) /\ Place(s, x) <= i
    BY <1>1, <1>3, <2>1
  <2>3. CASE y \notin ToSet(s)
    BY <1>6, <2>2, <2>3
  <2>4. CASE y \in ToSet(s)
    <3>1. Place(s, y) \in DOMAIN s /\ s[Place(s, y)] = y
      BY <1>3, <2>4
    <3>2. ~(Place(s, y) <= i)
      BY <1>1, <2>1, <3>1
    <3> QED
      BY <1>1, <1>5, <2>1, <2>2, <3>1, <3>2
  <2> QED
    BY <2>3, <2>4
<1> QED
  BY <1>4, <1>5, <1>6, <1>7

-----------------------------------------------------------------------------
(* Cascade: the operator's list.                                           *)

Entry == [name : STRING, enabled : BOOLEAN]

\* No two entries of a list name one protocol.
NamesDiffer(c) == \A u, v : <<u, v>> \in Pairs(c) => u.name # v.name

AllOn(s) == [i \in DOMAIN s |-> [name |-> s[i], enabled |-> TRUE]]

LEMMA NamesAre ==
  ASSUME NEW c \in Seq(Entry)
  PROVE  /\ Names(c) \in Seq(STRING) /\ DOMAIN Names(c) = DOMAIN c
         /\ \A i \in DOMAIN c : Names(c)[i] = c[i].name
<1>1. Len(c) \in Nat /\ DOMAIN c = 1..Len(c) /\ \A i \in DOMAIN c : c[i] \in Entry
  BY ListIs
<1>2. \A i \in DOMAIN c : c[i].name \in STRING
  BY <1>1 DEF Entry
<1> DEFINE n == Names(c)
<1>3. n = [i \in 1..Len(c) |-> c[i].name]
  BY <1>1 DEF Names
<1> HIDE DEF n
<1>4. n \in [1..Len(c) -> STRING]
  BY <1>1, <1>2, <1>3
<1>5. n \in Seq(STRING) /\ DOMAIN n = DOMAIN c
  BY <1>1, <1>4, SeqDef
<1> QED
  BY <1>1, <1>3, <1>5 DEF n

LEMMA AllOnIs ==
  ASSUME NEW s \in Seq(STRING), IsInjective(s)
  PROVE  /\ AllOn(s) \in Seq(Entry) /\ NamesDiffer(AllOn(s))
         /\ \A u : u \in ToSet(AllOn(s)) <=> \E x \in ToSet(s) : u = [name |-> x, enabled |-> TRUE]
<1> DEFINE e == AllOn(s)
<1>1. /\ Len(s) \in Nat /\ DOMAIN s = 1..Len(s) /\ \A i \in DOMAIN s : s[i] \in STRING
      /\ \A x : x \in ToSet(s) <=> \E i \in DOMAIN s : s[i] = x
  BY ListIs
<1>2. e = [i \in 1..Len(s) |-> [name |-> s[i], enabled |-> TRUE]]
  BY <1>1 DEF AllOn
<1> HIDE DEF e
<1>3. e \in [1..Len(s) -> Entry]
  <2>1. \A i \in 1..Len(s) : [name |-> s[i], enabled |-> TRUE] \in Entry
    BY <1>1 DEF Entry
  <2> QED
    BY <1>2, <2>1
<1>4. e \in Seq(Entry) /\ DOMAIN e = DOMAIN s
  BY <1>1, <1>3, SeqDef
<1>5. ASSUME NEW u, NEW v, <<u, v>> \in Pairs(e) PROVE u.name # v.name
  <2>1. PICK i \in DOMAIN e, j \in DOMAIN e : i < j /\ u = e[i] /\ v = e[j]
    BY <1>5 DEF Pairs
  <2>2. u.name = s[i] /\ v.name = s[j] /\ i # j
    BY <1>1, <1>2, <1>4, <2>1
  <2> QED
    BY <1>4, <2>1, <2>2 DEF IsInjective
<1>6. ASSUME NEW u PROVE u \in ToSet(e) <=> \E x \in ToSet(s) : u = [name |-> x, enabled |-> TRUE]
  <2>1. u \in ToSet(e) <=> \E i \in DOMAIN e : e[i] = u
    BY DEF ToSet
  <2>2. \A i \in DOMAIN s : e[i] = [name |-> s[i], enabled |-> TRUE]
    BY <1>1, <1>2
  <2>3. ASSUME u \in ToSet(e) PROVE \E x \in ToSet(s) : u = [name |-> x, enabled |-> TRUE]
    <3>1. PICK i \in DOMAIN s : e[i] = u
      BY <1>4, <2>1, <2>3
    <3>2. s[i] \in ToSet(s) /\ u = [name |-> s[i], enabled |-> TRUE]
      BY <1>1, <2>2, <3>1
    <3> QED
      BY <3>2
  <2>4. ASSUME NEW x \in ToSet(s), u = [name |-> x, enabled |-> TRUE] PROVE u \in ToSet(e)
    <3>1. PICK i \in DOMAIN s : s[i] = x
      BY <1>1, <2>4
    <3>2. e[i] = u
      BY <2>2, <2>4, <3>1
    <3> QED
      BY <1>4, <2>1, <3>2
  <2> QED
    BY <2>3, <2>4
<1> QED
  BY <1>4, <1>5, <1>6 DEF e, NamesDiffer

\* The tables of the code.
LEMMA Tables ==
  /\ Known \in Seq(STRING) /\ IsInjective(Known)
  /\ DefaultOrder \in Seq(STRING) /\ IsInjective(DefaultOrder) /\ ToSet(DefaultOrder) = Protocols
  /\ LockdownOrder \in Seq(STRING) /\ IsInjective(LockdownOrder)
  /\ CountryDefault \in Seq(STRING)
  /\ Configs \subseteq Seq(Entry) /\ Orders \subseteq Seq(STRING)
BY CascadeConstants DEF CascadeConstants, Entry

\* get_cascade_config: every protocol once, on unless the first entry that names it says no.
LEMMA ConfigIs ==
  ASSUME config \in Seq(Entry)
  PROVE  /\ CascadeConfig(config) \in Seq(Entry) /\ NamesDiffer(CascadeConfig(config))
         /\ \A p : (p \in Protocols /\ IsOn(p)) <=>
                   \E u \in ToSet(CascadeConfig(config)) : u.name = p /\ u.enabled
<1> DEFINE first(i) == \A j \in 1..(i - 1) : config[j].name # config[i].name
           at == {i \in DOMAIN config : config[i].name \in Protocols /\ first(i)}
           kept == Pick(config, at)
           K == ToSet(Names(kept))
           d == Drop(Known, K)
           C == CascadeConfig(config)
<1>1. C = (IF kept = <<>> THEN AllOn(DefaultOrder) ELSE kept \o AllOn(d))
  BY DEF CascadeConfig, AllOn
<1>2. /\ kept \in Seq(Entry) /\ \A u : u \in ToSet(kept) <=> \E i \in at : config[i] = u
      /\ \A u, v : <<u, v>> \in Pairs(kept) => \E i, j \in at : i < j /\ u = config[i] /\ v = config[j]
  <2>1. at \subseteq DOMAIN config
    OBVIOUS
  <2> HIDE DEF at
  <2> QED
    BY <2>1, PickIs
<1>3. Len(config) \in Nat /\ DOMAIN config = 1..Len(config) /\ \A i \in DOMAIN config : config[i] \in Entry
  BY ListIs
<1>4. ASSUME NEW i \in DOMAIN config, NEW j \in DOMAIN config, i < j, first(j)
      PROVE  config[i].name # config[j].name
  <2>1. i \in 1..(j - 1)
    BY <1>3, <1>4
  <2> QED
    BY <1>4, <2>1
<1>5. ASSUME NEW i \in DOMAIN config, NEW j \in DOMAIN config, first(i), first(j),
             config[i].name = config[j].name
      PROVE  i = j
  <2>1. ~(i < j) /\ ~(j < i)
    <3> HIDE DEF first
    <3> QED
      BY <1>4, <1>5
  <2> QED
    BY <1>3, <2>1
<1>6. \A i \in at : i \in DOMAIN config /\ config[i].name \in Protocols /\ first(i)
  OBVIOUS
<1>7. \A i \in DOMAIN config : config[i].name \in Protocols /\ first(i) => i \in at
  OBVIOUS
<1>8. ASSUME NEW p PROVE IsOn(p) <=> \A i \in DOMAIN config : config[i].name = p /\ first(i) => config[i].enabled
  BY DEF IsOn
<1> HIDE DEF first, at, kept
<1>9. NamesDiffer(kept)
  <2> SUFFICES ASSUME NEW u, NEW v, <<u, v>> \in Pairs(kept) PROVE u.name # v.name
    BY DEF NamesDiffer
  <2>1. PICK i \in at, j \in at : i < j /\ u = config[i] /\ v = config[j]
    BY <1>2
  <2> QED
    BY <1>4, <1>6, <2>1
<1>10. \A x : x \in K <=> \E u \in ToSet(kept) : u.name = x
  BY DEF Names, ToSet
<1>11. \A x : x \in K <=> \E i \in at : config[i].name = x
  BY <1>2, <1>10
<1> HIDE DEF K, C
<1>12. CASE kept = <<>>
  <2>1. ToSet(kept) = {}
    BY <1>12 DEF ToSet
  <2>2. at = {}
    BY <1>2, <2>1
  <2>3. C = AllOn(DefaultOrder)
    BY <1>1, <1>12
  <2>4. /\ C \in Seq(Entry) /\ NamesDiffer(C)
        /\ \A u : u \in ToSet(C) <=> \E x \in Protocols : u = [name |-> x, enabled |-> TRUE]
    BY <2>3, AllOnIs, Tables
  <2>5. \A p \in Protocols : IsOn(p)
    BY <1>7, <1>8, <2>2
  <2>6. ASSUME NEW p PROVE (p \in Protocols /\ IsOn(p)) <=> \E u \in ToSet(C) : u.name = p /\ u.enabled
    <3>1. ASSUME p \in Protocols PROVE \E u \in ToSet(C) : u.name = p /\ u.enabled
      <4> DEFINE u == [name |-> p, enabled |-> TRUE]
      <4>1. u \in ToSet(C) /\ u.name = p /\ u.enabled = TRUE
        BY <2>4, <3>1
      <4> QED
        BY <4>1
    <3>2. ASSUME NEW u \in ToSet(C), u.name = p PROVE p \in Protocols
      BY <2>4, <3>2
    <3> QED
      BY <2>5, <3>1, <3>2
  <2> QED
    BY <2>4, <2>6 DEF C
<1>13. CASE kept # <<>>
  <2>1. /\ d \in Seq(STRING) /\ ToSet(d) = Protocols \ K
        /\ \A x, y : <<x, y>> \in Pairs(d) => <<x, y>> \in Pairs(Known) /\ x \notin K /\ y \notin K
    BY Tables, DropIs DEF Protocols
  <2>2. IsInjective(d)
    BY <2>1, Tables, DistinctPairs
  <2> DEFINE e == AllOn(d)
  <2>3. /\ e \in Seq(Entry) /\ NamesDiffer(e)
        /\ \A u : u \in ToSet(e) <=> \E x \in ToSet(d) : u = [name |-> x, enabled |-> TRUE]
    BY <2>1, <2>2, AllOnIs
  <2>4. C = kept \o e
    BY <1>1, <1>13
  <2> HIDE DEF d, e
  <2>5. /\ C \in Seq(Entry) /\ ToSet(C) = ToSet(kept) \union ToSet(e)
        /\ \A u, v : <<u, v>> \in Pairs(C) =>
             \/ <<u, v>> \in Pairs(kept)
             \/ <<u, v>> \in Pairs(e)
             \/ u \in ToSet(kept) /\ v \in ToSet(e)
    BY <1>2, <2>3, <2>4, ConcatIs
  <2>6. \A u \in ToSet(kept) : u.name \in K
    BY <1>10
  <2>7. \A u \in ToSet(e) : u.name \in Protocols /\ u.name \notin K
    BY <2>1, <2>3
  <2>8. NamesDiffer(C)
    BY <1>9, <2>3, <2>5, <2>6, <2>7 DEF NamesDiffer
  <2>9. ASSUME NEW p PROVE (p \in Protocols /\ IsOn(p)) <=> \E u \in ToSet(C) : u.name = p /\ u.enabled
    <3>1. CASE p \in K
      <4>1. PICK i \in at : config[i].name = p
        BY <1>11, <3>1
      <4>2. config[i] \in ToSet(kept) /\ p \in Protocols /\ first(i) /\ i \in DOMAIN config
        BY <1>2, <1>6, <4>1
      <4>3. \A j \in DOMAIN config : config[j].name = p /\ first(j) => j = i
        BY <1>5, <4>1, <4>2
      <4>4. ASSUME IsOn(p) PROVE \E u \in ToSet(C) : u.name = p /\ u.enabled
        <5>1. config[i].enabled
          BY <1>8, <4>1, <4>2, <4>4
        <5> QED
          BY <2>5, <4>1, <4>2, <5>1
      <4>5. ASSUME NEW u \in ToSet(C), u.name = p, u.enabled PROVE IsOn(p)
        <5>1. u \in ToSet(kept)
          BY <2>5, <2>7, <3>1, <4>5
        <5>2. PICK j \in at : config[j] = u
          BY <1>2, <5>1
        <5>3. j = i
          BY <1>6, <4>3, <4>5, <5>2
        <5>4. config[i].enabled
          BY <4>5, <5>2, <5>3
        <5> QED
          BY <1>8, <4>3, <5>4
      <4> QED
        BY <4>2, <4>4, <4>5
    <3>2. CASE p \notin K
      <4>1. ASSUME p \in Protocols PROVE IsOn(p) /\ \E u \in ToSet(C) : u.name = p /\ u.enabled
        <5>1. IsOn(p)
          BY <1>7, <1>8, <1>11, <3>2, <4>1
        <5> DEFINE u == [name |-> p, enabled |-> TRUE]
        <5>2. u \in ToSet(e)
          BY <2>1, <2>3, <3>2, <4>1
        <5>3. u \in ToSet(C) /\ u.name = p /\ u.enabled = TRUE
          BY <2>5, <5>2
        <5> QED
          BY <5>1, <5>3
      <4>2. ASSUME NEW u \in ToSet(C), u.name = p PROVE p \in Protocols
        BY <2>5, <2>6, <2>7, <3>2, <4>2
      <4> QED
        BY <4>1, <4>2
    <3> QED
      BY <3>1, <3>2
  <2> QED
    BY <2>5, <2>8, <2>9 DEF C
<1> QED
  BY <1>12, <1>13

\* What is on, in the operator's order.
LEMMA EnabledIs ==
  ASSUME config \in Seq(Entry)
  PROVE  /\ EnabledOrder(config) \in Seq(STRING)
         /\ ToSet(EnabledOrder(config)) = {p \in Protocols : IsOn(p)}
         /\ Names(CascadeConfig(config)) \in Seq(STRING)
         /\ \A x, y : <<x, y>> \in Pairs(EnabledOrder(config)) =>
              Leads(Names(CascadeConfig(config)), x, y) /\ x # y
<1> DEFINE C == CascadeConfig(config)
           N == Names(C)
           at == {i \in DOMAIN C : C[i].enabled}
           kept == Pick(C, at)
           E == EnabledOrder(config)
<1>1. /\ C \in Seq(Entry) /\ NamesDiffer(C)
      /\ \A p : (p \in Protocols /\ IsOn(p)) <=> \E u \in ToSet(C) : u.name = p /\ u.enabled
  BY ConfigIs
<1>2. E = Names(kept)
  BY DEF EnabledOrder
<1>3. at \subseteq DOMAIN C /\ (\A i \in at : C[i].enabled) /\ \A i \in DOMAIN C : C[i].enabled => i \in at
  OBVIOUS
<1> HIDE DEF C, at
<1>4. /\ kept \in Seq(Entry) /\ \A u : u \in ToSet(kept) <=> \E i \in at : C[i] = u
      /\ \A u, v : <<u, v>> \in Pairs(kept) => \E i, j \in at : i < j /\ u = C[i] /\ v = C[j]
  BY <1>1, <1>3, PickIs
<1>5. /\ Len(C) \in Nat /\ DOMAIN C = 1..Len(C) /\ \A i \in DOMAIN C : C[i] \in Entry
      /\ \A u : u \in ToSet(C) <=> \E i \in DOMAIN C : C[i] = u
  BY <1>1, ListIs
<1>6. N \in Seq(STRING) /\ DOMAIN N = DOMAIN C /\ \A i \in DOMAIN C : N[i] = C[i].name
  BY <1>1, NamesAre
<1> HIDE DEF N, E, kept
<1>7. E \in Seq(STRING) /\ DOMAIN E = DOMAIN kept /\ \A i \in DOMAIN kept : E[i] = kept[i].name
  BY <1>2, <1>4, NamesAre
<1>8. ToSet(E) = {p \in Protocols : IsOn(p)}
  <2>1. \A p : p \in ToSet(E) <=> \E u \in ToSet(kept) : u.name = p
    BY <1>7 DEF ToSet
  <2>2. \A p : (\E u \in ToSet(kept) : u.name = p) <=> \E i \in at : C[i].name = p
    BY <1>4
  <2>3. \A p : (\E u \in ToSet(C) : u.name = p /\ u.enabled) <=> \E i \in at : C[i].name = p
    BY <1>3, <1>5
  <2>4. \A p : p \in ToSet(E) <=> p \in Protocols /\ IsOn(p)
    BY <1>1, <2>1, <2>2, <2>3
  <2> QED
    BY <2>4
<1>9. ASSUME NEW x, NEW y, <<x, y>> \in Pairs(E) PROVE Leads(N, x, y) /\ x # y
  <2>1. PICK k \in DOMAIN E, l \in DOMAIN E : k < l /\ x = E[k] /\ y = E[l]
    BY <1>9 DEF Pairs
  <2>2. <<kept[k], kept[l]>> \in Pairs(kept)
    BY <1>4, <1>7, <2>1, PairsAre
  <2>3. PICK i \in at, j \in at : i < j /\ kept[k] = C[i] /\ kept[l] = C[j]
    BY <1>4, <2>2
  <2>4. i \in DOMAIN N /\ j \in DOMAIN N /\ N[i] = x /\ N[j] = y
    BY <1>3, <1>6, <1>7, <2>1, <2>3
  <2>5. ASSUME NEW a \in DOMAIN N, NEW b \in DOMAIN N, a < b PROVE N[a] # N[b]
    <3>1. <<C[a], C[b]>> \in Pairs(C)
      BY <1>1, <1>6, <2>5, PairsAre
    <3> QED
      BY <1>1, <1>6, <2>5, <3>1 DEF NamesDiffer
  <2>6. \A a \in 1..i : a \in DOMAIN N /\ a < j
    BY <1>5, <1>6, <2>3, <2>4
  <2>7. i \in 1..i
    BY <1>5, <1>6, <2>4
  <2> QED
    BY <2>3, <2>4, <2>5, <2>6, <2>7 DEF Leads
<1> QED
  BY <1>6, <1>7, <1>8, <1>9 DEF N, E, C

-----------------------------------------------------------------------------
(* The layers of the cascade, each a sort that leaves what it does not rank.*)

\* x stands before y by place in s, or s does not tell them apart.
Ahead(s, x, y) == Place(s, x) < Place(s, y)
Level(s, x, y) == Place(s, x) = Place(s, y)

\* A list put in front of o: members by their place in it, the others as in o.
LEMMA LayerIs ==
  ASSUME NEW o \in Seq(STRING), NEW s \in Seq(STRING), NEW h \in Seq(STRING),
         ToSet(h) = ToSet(s) \intersect ToSet(o),
         \A x, y : <<x, y>> \in Pairs(h) => Leads(s, x, y)
  PROVE  /\ h \o Drop(o, ToSet(h)) \in Seq(STRING) /\ ToSet(h \o Drop(o, ToSet(h))) = ToSet(o)
         /\ \A x, y : <<x, y>> \in Pairs(h \o Drop(o, ToSet(h))) =>
              \/ Ahead(s, x, y)
              \/ Level(s, x, y) /\ <<x, y>> \in Pairs(o)
<1> DEFINE z == h \o Drop(o, ToSet(h))
<1>1. /\ z \in Seq(STRING) /\ ToSet(z) = ToSet(o)
      /\ \A x, y : <<x, y>> \in Pairs(z) =>
           \/ <<x, y>> \in Pairs(h) /\ x \in ToSet(h) /\ y \in ToSet(h)
           \/ x \in ToSet(h) /\ y \notin ToSet(h) /\ y \in ToSet(o)
           \/ x \notin ToSet(h) /\ y \notin ToSet(h) /\ <<x, y>> \in Pairs(o)
  BY FrontIs
<1> HIDE DEF z
<1>2. ASSUME NEW x, NEW y, <<x, y>> \in Pairs(z)
      PROVE  Ahead(s, x, y) \/ (Level(s, x, y) /\ <<x, y>> \in Pairs(o))
  <2>1. CASE <<x, y>> \in Pairs(h)
    BY <2>1, PlaceIs DEF Ahead
  <2>2. CASE x \in ToSet(h) /\ y \notin ToSet(h) /\ y \in ToSet(o)
    BY <2>2, PlaceIs DEF Ahead
  <2>3. CASE x \notin ToSet(h) /\ y \notin ToSet(h) /\ <<x, y>> \in Pairs(o)
    <3>1. x \in ToSet(o) /\ y \in ToSet(o)
      BY <2>3 DEF Pairs
    <3>2. x \notin ToSet(s) /\ y \notin ToSet(s)
      BY <2>3, <3>1
    <3> QED
      BY <2>3, <3>2, PlaceIs DEF Level
  <2> QED
    BY <1>1, <1>2, <2>1, <2>2, <2>3
<1> QED
  BY <1>1, <1>2 DEF z

LEMMA OverrideIs ==
  ASSUME byAsn \in Seq(STRING), byCountry \in Seq(STRING)
  PROVE  Override(byAsn, byCountry) \in Seq(STRING)
<1>1. Keep(byAsn, Protocols) \in Seq(STRING) /\ Keep(byCountry, Protocols) \in Seq(STRING)
  BY KeepIs
<1> QED
  BY <1>1, Tables DEF Override

LEMMA BaseIs ==
  ASSUME config \in Seq(Entry), byAsn \in Seq(STRING), byCountry \in Seq(STRING)
  PROVE  /\ BaseOrder(config, byAsn, byCountry) \in Seq(STRING)
         /\ ToSet(BaseOrder(config, byAsn, byCountry)) = {p \in Protocols : IsOn(p)}
         /\ \A x, y : <<x, y>> \in Pairs(BaseOrder(config, byAsn, byCountry)) =>
              \/ Ahead(Override(byAsn, byCountry), x, y)
              \/ Level(Override(byAsn, byCountry), x, y) /\ Ahead(Names(CascadeConfig(config)), x, y)
<1> DEFINE E == EnabledOrder(config)
           N == Names(CascadeConfig(config))
           over == Override(byAsn, byCountry)
           kept == Keep(over, ToSet(E))
           h == Once(kept)
           z == BaseOrder(config, byAsn, byCountry)
<1>1. /\ E \in Seq(STRING) /\ ToSet(E) = {p \in Protocols : IsOn(p)} /\ N \in Seq(STRING)
      /\ \A x, y : <<x, y>> \in Pairs(E) => Leads(N, x, y) /\ x # y
  BY EnabledIs
<1>2. over \in Seq(STRING)
  BY OverrideIs
<1>3. z = h \o Drop(E, ToSet(h))
  BY DEF BaseOrder
<1> HIDE DEF E, N, over
<1>4. kept \in Seq(STRING) /\ ToSet(kept) = ToSet(over) \intersect ToSet(E)
  BY <1>2, KeepIs
<1>5. /\ h \in Seq(STRING) /\ ToSet(h) = ToSet(kept)
      /\ \A x, y : <<x, y>> \in Pairs(h) => Leads(kept, x, y) /\ x # y
  BY <1>4, OnceIs
<1>6. ASSUME NEW x, NEW y, <<x, y>> \in Pairs(h) PROVE Leads(over, x, y)
  <2>1. y \in ToSet(h)
    BY <1>6 DEF Pairs
  <2>2. y \in ToSet(E) /\ Leads(kept, x, y)
    BY <1>4, <1>5, <1>6, <2>1
  <2> QED
    BY <1>2, <2>2, KeepLeads
<1> HIDE DEF kept, h, z
<1>7. /\ z \in Seq(STRING) /\ ToSet(z) = ToSet(E)
      /\ \A x, y : <<x, y>> \in Pairs(z) =>
           Ahead(over, x, y) \/ (Level(over, x, y) /\ <<x, y>> \in Pairs(E))
  BY <1>1, <1>2, <1>3, <1>4, <1>5, <1>6, LayerIs
<1>8. \A x, y : <<x, y>> \in Pairs(E) => Ahead(N, x, y)
  BY <1>1, PlaceIs DEF Ahead
<1> QED
  BY <1>1, <1>7, <1>8 DEF z, N, over

\* The lockdown order that applies: the operator's, or the one of the code.
Top(stored) ==
  IF Keep(stored, Protocols) = <<>> THEN LockdownOrder ELSE Keep(stored, Protocols)

LEMMA ProjectIs ==
  ASSUME NEW o \in Seq(STRING), lockOrder \in Seq(STRING)
  PROVE  /\ Project(o, lockOrder) \in Seq(STRING) /\ ToSet(Project(o, lockOrder)) = ToSet(o)
         /\ \A x, y : <<x, y>> \in Pairs(Project(o, lockOrder)) =>
              \/ Ahead(Top(lockOrder), x, y)
              \/ Level(Top(lockOrder), x, y) /\ <<x, y>> \in Pairs(o)
<1> DEFINE kept == Keep(lockOrder, Protocols)
           known == Once(kept)
           top == IF known = <<>> THEN LockdownOrder ELSE known
           head == Keep(top, ToSet(o))
           t == Top(lockOrder)
           z == Project(o, lockOrder)
<1>1. z = head \o Drop(o, ToSet(head))
  BY DEF Project
<1>2. kept \in Seq(STRING) /\ t = (IF kept = <<>> THEN LockdownOrder ELSE kept)
  BY KeepIs DEF Top
<1> HIDE DEF kept, t, z
<1>3. /\ known \in Seq(STRING) /\ ToSet(known) = ToSet(kept)
      /\ \A x, y : <<x, y>> \in Pairs(known) => Leads(kept, x, y) /\ x # y
  BY <1>2, OnceIs
<1>4. \A s \in Seq(STRING) : s = <<>> <=> ToSet(s) = {}
  <2> SUFFICES ASSUME NEW s \in Seq(STRING) PROVE s = <<>> <=> ToSet(s) = {}
    OBVIOUS
  <2>1. ASSUME s # <<>> PROVE ToSet(s) # {}
    <3>1. Len(s) # 0
      BY <2>1, EmptySeq
    <3>2. 1 \in DOMAIN s
      BY <3>1, ListIs
    <3> QED
      BY <3>2, ListIs
  <2> QED
    BY <2>1 DEF ToSet
<1>5. known = <<>> <=> kept = <<>>
  BY <1>2, <1>3, <1>4
<1> HIDE DEF known
<1>6. /\ top \in Seq(STRING) /\ t \in Seq(STRING) /\ ToSet(top) = ToSet(t)
      /\ \A x, y : <<x, y>> \in Pairs(top) => Leads(t, x, y)
  <2>1. CASE kept = <<>>
    BY <1>2, <1>5, <2>1, Tables, DistinctLeads
  <2>2. CASE kept # <<>>
    BY <1>2, <1>3, <1>5, <2>2
  <2> QED
    BY <2>1, <2>2
<1> HIDE DEF top
<1>7. /\ head \in Seq(STRING) /\ ToSet(head) = ToSet(top) \intersect ToSet(o)
      /\ \A x, y : <<x, y>> \in Pairs(head) => <<x, y>> \in Pairs(top)
  BY <1>6, KeepIs
<1> HIDE DEF head
<1>8. \A x, y : <<x, y>> \in Pairs(head) => Leads(t, x, y)
  BY <1>6, <1>7
<1>9. /\ z \in Seq(STRING) /\ ToSet(z) = ToSet(o)
      /\ \A x, y : <<x, y>> \in Pairs(z) =>
           Ahead(t, x, y) \/ (Level(t, x, y) /\ <<x, y>> \in Pairs(o))
  BY <1>1, <1>6, <1>7, <1>8, LayerIs
<1> QED
  BY <1>9 DEF z, t

LEMMA SinkIs ==
  ASSUME NEW o \in Seq(STRING), NEW S
  PROVE  /\ Sink(o, S) \in Seq(STRING) /\ ToSet(Sink(o, S)) = ToSet(o)
         /\ \A x, y : <<x, y>> \in Pairs(Sink(o, S)) =>
              \/ x \notin S /\ y \in S
              \/ (x \in S <=> y \in S) /\ <<x, y>> \in Pairs(o)
<1> DEFINE a == Drop(o, S)
           b == Keep(o, S)
           z == Sink(o, S)
<1>1. z = a \o b
  BY DEF Sink
<1>2. /\ a \in Seq(STRING) /\ ToSet(a) = ToSet(o) \ S
      /\ \A x, y : <<x, y>> \in Pairs(a) => <<x, y>> \in Pairs(o) /\ x \notin S /\ y \notin S
  BY DropIs
<1>3. /\ b \in Seq(STRING) /\ ToSet(b) = ToSet(o) \intersect S
      /\ \A x, y : <<x, y>> \in Pairs(b) => <<x, y>> \in Pairs(o) /\ x \in S /\ y \in S
  BY KeepIs
<1> HIDE DEF a, b, z
<1>4. /\ z \in Seq(STRING) /\ ToSet(z) = ToSet(a) \union ToSet(b)
      /\ \A x, y : <<x, y>> \in Pairs(z) =>
           \/ <<x, y>> \in Pairs(a)
           \/ <<x, y>> \in Pairs(b)
           \/ x \in ToSet(a) /\ y \in ToSet(b)
  BY <1>1, <1>2, <1>3, ConcatIs
<1>5. ToSet(z) = ToSet(o)
  BY <1>2, <1>3, <1>4
<1>6. ASSUME NEW x, NEW y, <<x, y>> \in Pairs(z)
      PROVE  (x \notin S /\ y \in S) \/ ((x \in S <=> y \in S) /\ <<x, y>> \in Pairs(o))
  BY <1>2, <1>3, <1>4, <1>6
<1> QED
  BY <1>4, <1>5, <1>6 DEF z

LEMMA BeforeIs ==
  ASSUME NEW a1 \in Nat, NEW a2 \in Nat, NEW a3 \in Nat, NEW a4 \in Nat,
         NEW b1 \in Nat, NEW b2 \in Nat, NEW b3 \in Nat, NEW b4 \in Nat,
         \/ a1 < b1
         \/ a1 = b1 /\ a2 < b2
         \/ a1 = b1 /\ a2 = b2 /\ a3 < b3
         \/ a1 = b1 /\ a2 = b2 /\ a3 = b3 /\ a4 < b4
  PROVE  /\ Before(<<a1, a2, a3, a4>>, <<b1, b2, b3, b4>>)
         /\ <<a1, a2, a3, a4>> # <<b1, b2, b3, b4>>
<1> DEFINE k == <<a1, a2, a3, a4>>
           l == <<b1, b2, b3, b4>>
<1>1. /\ k[1] = a1 /\ k[2] = a2 /\ k[3] = a3 /\ k[4] = a4
      /\ l[1] = b1 /\ l[2] = b2 /\ l[3] = b3 /\ l[4] = b4
  OBVIOUS
<1> HIDE DEF k, l
<1>2. CASE a1 < b1
  <2>1. 1 \in 1..4 /\ k[1] < l[1] /\ \A m \in 1..(1 - 1) : k[m] = l[m]
    BY <1>1, <1>2
  <2> QED
    BY <1>1, <1>2, <2>1 DEF Before, k, l
<1>3. CASE a1 = b1 /\ a2 < b2
  <2>1. 2 \in 1..4 /\ k[2] < l[2] /\ \A m \in 1..(2 - 1) : k[m] = l[m]
    BY <1>1, <1>3
  <2> QED
    BY <1>1, <1>3, <2>1 DEF Before, k, l
<1>4. CASE a1 = b1 /\ a2 = b2 /\ a3 < b3
  <2>1. \A m \in 1..(3 - 1) : m = 1 \/ m = 2
    OBVIOUS
  <2>2. 3 \in 1..4 /\ k[3] < l[3] /\ \A m \in 1..(3 - 1) : k[m] = l[m]
    BY <1>1, <1>4, <2>1
  <2> QED
    BY <1>1, <1>4, <2>2 DEF Before, k, l
<1>5. CASE a1 = b1 /\ a2 = b2 /\ a3 = b3 /\ a4 < b4
  <2>1. \A m \in 1..(4 - 1) : m = 1 \/ m = 2 \/ m = 3
    OBVIOUS
  <2>2. 4 \in 1..4 /\ k[4] < l[4] /\ \A m \in 1..(4 - 1) : k[m] = l[m]
    BY <1>1, <1>5, <2>1
  <2> QED
    BY <1>1, <1>5, <2>2 DEF Before, k, l
<1> QED
  BY <1>2, <1>3, <1>4, <1>5

-----------------------------------------------------------------------------
(* The order handed out.                                                   *)

SettingsOK ==
  /\ config \in Seq(Entry) /\ byAsn \in Seq(STRING) /\ byCountry \in Seq(STRING)
  /\ lockOrder \in Seq(STRING)

LEMMA OrderIs ==
  ASSUME SettingsOK, NEW tier, NEW forced \in BOOLEAN
  PROVE  /\ CascadeOrder(tier, forced) \in Seq(STRING)
         /\ ToSet(CascadeOrder(tier, forced)) =
              {p \in Protocols : IsOn(p) /\ (tier = "demo" => p \in Free)}
         /\ \A x, y : <<x, y>> \in Pairs(CascadeOrder(tier, forced)) =>
              Before(Key(x, forced), Key(y, forced)) /\ Key(x, forced) # Key(y, forced)
<1> DEFINE over == Override(byAsn, byCountry)
           N == Names(CascadeConfig(config))
           t == Top(lockOrder)
           base == BaseOrder(config, byAsn, byCountry)
           projected == IF forced \/ locked THEN Project(base, lockOrder) ELSE base
           s == Sink(projected, sunk)
           z == CascadeOrder(tier, forced)
           on == {p \in Protocols : IsOn(p)}
<1>1. config \in Seq(Entry) /\ byAsn \in Seq(STRING) /\ byCountry \in Seq(STRING) /\ lockOrder \in Seq(STRING)
  BY DEF SettingsOK
<1>2. over \in Seq(STRING) /\ N \in Seq(STRING) /\ t \in Seq(STRING)
  <2>1. Keep(lockOrder, Protocols) \in Seq(STRING)
    BY <1>1, KeepIs
  <2> QED
    BY <1>1, <2>1, OverrideIs, EnabledIs, Tables DEF Top
<1>3. /\ base \in Seq(STRING) /\ ToSet(base) = on
      /\ \A x, y : <<x, y>> \in Pairs(base) => Ahead(over, x, y) \/ (Level(over, x, y) /\ Ahead(N, x, y))
  BY <1>1, BaseIs
<1>4. z = (IF tier = "demo" THEN Keep(s, Free) ELSE s)
  BY DEF CascadeOrder, ForTier
<1>5. ASSUME NEW x
      PROVE  Key(x, forced) = <<IF x \in sunk THEN 1 ELSE 0,
                                IF forced \/ locked THEN Place(t, x) ELSE 0, Place(over, x), Place(N, x)>>
  BY DEF Key, Top
<1> HIDE DEF over, N, t, base, z, on
<1>6. /\ projected \in Seq(STRING) /\ ToSet(projected) = on
      /\ \A x, y : <<x, y>> \in Pairs(projected) =>
           \/ (forced \/ locked) /\ Ahead(t, x, y)
           \/ ((forced \/ locked) => Level(t, x, y)) /\ <<x, y>> \in Pairs(base)
  <2>1. CASE forced \/ locked
    <3>1. projected = Project(base, lockOrder)
      BY <2>1
    <3> HIDE DEF projected
    <3> QED
      BY <1>1, <1>3, <2>1, <3>1, ProjectIs DEF t
  <2>2. CASE ~(forced \/ locked)
    <3>1. projected = base
      BY <2>2
    <3> HIDE DEF projected
    <3> QED
      BY <1>3, <2>2, <3>1
  <2> QED
    BY <2>1, <2>2
<1> HIDE DEF projected
<1>7. /\ s \in Seq(STRING) /\ ToSet(s) = on
      /\ \A x, y : <<x, y>> \in Pairs(s) =>
           \/ x \notin sunk /\ y \in sunk
           \/ (x \in sunk <=> y \in sunk) /\ <<x, y>> \in Pairs(projected)
  BY <1>6, SinkIs
<1> HIDE DEF s
<1>8. /\ z \in Seq(STRING)
      /\ \A p : p \in ToSet(z) <=> p \in on /\ (tier = "demo" => p \in Free)
      /\ \A x, y : <<x, y>> \in Pairs(z) => <<x, y>> \in Pairs(s)
  <2>1. CASE tier = "demo"
    BY <1>4, <1>7, <2>1, KeepIs
  <2>2. CASE tier # "demo"
    BY <1>4, <1>7, <2>2
  <2> QED
    BY <2>1, <2>2
<1>9. ASSUME NEW x, NEW y, <<x, y>> \in Pairs(z)
      PROVE  Before(Key(x, forced), Key(y, forced)) /\ Key(x, forced) # Key(y, forced)
  <2> DEFINE a1 == IF x \in sunk THEN 1 ELSE 0
             a2 == IF forced \/ locked THEN Place(t, x) ELSE 0
             a3 == Place(over, x)
             a4 == Place(N, x)
             b1 == IF y \in sunk THEN 1 ELSE 0
             b2 == IF forced \/ locked THEN Place(t, y) ELSE 0
             b3 == Place(over, y)
             b4 == Place(N, y)
  <2>1. /\ a1 \in Nat /\ a2 \in Nat /\ a3 \in Nat /\ a4 \in Nat
        /\ b1 \in Nat /\ b2 \in Nat /\ b3 \in Nat /\ b4 \in Nat
    BY <1>2, PlaceIs
  <2>2. \/ a1 < b1
        \/ a1 = b1 /\ a2 < b2
        \/ a1 = b1 /\ a2 = b2 /\ a3 < b3
        \/ a1 = b1 /\ a2 = b2 /\ a3 = b3 /\ a4 < b4
    <3>1. CASE x \notin sunk /\ y \in sunk
      BY <3>1
    <3>2. CASE (x \in sunk <=> y \in sunk) /\ <<x, y>> \in Pairs(projected)
      <4>1. a1 = b1
        BY <3>2
      <4>2. CASE (forced \/ locked) /\ Ahead(t, x, y)
        BY <4>1, <4>2 DEF Ahead
      <4>3. CASE ((forced \/ locked) => Level(t, x, y)) /\ <<x, y>> \in Pairs(base)
        <5>1. a2 = b2
          BY <4>3 DEF Level
        <5>2. a3 < b3 \/ (a3 = b3 /\ a4 < b4)
          BY <1>3, <4>3 DEF Ahead, Level
        <5> QED
          BY <4>1, <5>1, <5>2
      <4> QED
        BY <1>6, <3>2, <4>2, <4>3
    <3> QED
      BY <1>7, <1>8, <1>9, <3>1, <3>2
  <2>3. Key(x, forced) = <<a1, a2, a3, a4>> /\ Key(y, forced) = <<b1, b2, b3, b4>>
    BY <1>5
  <2> HIDE DEF a1, a2, a3, a4, b1, b2, b3, b4
  <2> DEFINE k == <<a1, a2, a3, a4>>
             l == <<b1, b2, b3, b4>>
  <2>4. Before(k, l) /\ k # l
    BY <2>1, <2>2, BeforeIs
  <2>5. Key(x, forced) = k /\ Key(y, forced) = l
    BY <2>3
  <2> HIDE DEF k, l
  <2> QED
    BY <2>4, <2>5
<1>10. ToSet(z) = {p \in Protocols : IsOn(p) /\ (tier = "demo" => p \in Free)}
  BY <1>8 DEF on
<1> QED
  BY <1>8, <1>9, <1>10 DEF z

LEMMA OrderIsSound ==
  ASSUME SettingsOK
  PROVE  OrderSound
<1> SUFFICES ASSUME NEW tier \in Tiers, NEW forced \in BOOLEAN
             PROVE  LET order == CascadeOrder(tier, forced)
                    IN  /\ IsInjective(order)
                        /\ ToSet(order) = {p \in Protocols : IsOn(p) /\ (tier = "demo" => p \in Free)}
                        /\ \A i, j \in DOMAIN order :
                             i < j => Before(Key(order[i], forced), Key(order[j], forced))
  BY DEF OrderSound, NothingLost, SortedByVerdict
<1> DEFINE z == CascadeOrder(tier, forced)
<1>1. /\ z \in Seq(STRING)
      /\ ToSet(z) = {p \in Protocols : IsOn(p) /\ (tier = "demo" => p \in Free)}
      /\ \A x, y : <<x, y>> \in Pairs(z) =>
           Before(Key(x, forced), Key(y, forced)) /\ Key(x, forced) # Key(y, forced)
  BY OrderIs
<1> HIDE DEF z
<1>2. IsInjective(z)
  BY <1>1, DistinctPairs
<1>3. ASSUME NEW i \in DOMAIN z, NEW j \in DOMAIN z, i < j
      PROVE  Before(Key(z[i], forced), Key(z[j], forced))
  BY <1>1, <1>3, PairsAre
<1> QED
  BY <1>1, <1>2, <1>3 DEF z

\* What is stored stays what the operator may save.
SettingsInv ==
  /\ config \in Configs /\ byAsn \in Orders /\ byCountry \in Orders
  /\ lockOrder \in Orders \union {<<>>}

LEMMA SettingsKept == Next /\ SettingsInv => SettingsInv'
BY DEF Next, SettingsInv, SaveConfig, SaveLockOrder, FlipLockdown, Demote, Restore

LEMMA SettingsAre ==
  ASSUME SettingsInv
  PROVE  SettingsOK
<1>1. <<>> \in Seq(STRING)
  BY EmptySeq
<1> QED
  BY <1>1, Tables DEF SettingsInv, SettingsOK

\* Whatever the settings, the lockdown and the monitor's verdicts, what a user is handed is the
\* enabled protocols of the tier, each once, in the order of verdict, lockdown, override and list
\* (get_cascade_order and the projections it calls).
THEOREM OrdersAreSound == Spec => []OrderSound
<1>1. Init => SettingsInv
  BY DEF Init, SettingsInv
<1>2. SettingsInv /\ [Next]_vars => SettingsInv'
  <2> SUFFICES ASSUME SettingsInv, [Next]_vars PROVE SettingsInv'
    OBVIOUS
  <2>1. CASE Next
    BY <2>1, SettingsKept
  <2>2. CASE UNCHANGED vars
    BY <2>2 DEF vars, SettingsInv
  <2> QED
    BY <2>1, <2>2
<1>3. SettingsInv => OrderSound
  BY SettingsAre, OrderIsSound
<1> QED
  BY <1>1, <1>2, <1>3, PTL DEF Spec

\* The same where the order lives beside the other components, as the runs check it.
THEOREM HostedOrdersHold == HostSpec => []OrdersHold
<1>1. HostInit => SettingsInv
  BY DEF HostInit, Init, SettingsInv
<1>2. SettingsInv /\ [HostNext]_hostVars => SettingsInv'
  <2> SUFFICES ASSUME SettingsInv, [HostNext]_hostVars PROVE SettingsInv'
    OBVIOUS
  <2>1. CASE Next
    BY <2>1, SettingsKept
  <2>2. CASE UNCHANGED vars
    BY <2>2 DEF vars, SettingsInv
  <2> QED
    BY <2>1, <2>2 DEF HostNext, hostVars
<1>3. SettingsInv => OrdersHold
  BY SettingsAre, OrderIsSound DEF OrdersHold
<1> QED
  BY <1>1, <1>2, <1>3, PTL DEF HostSpec

-----------------------------------------------------------------------------
(* SubProfile: the servers of a profile.                                   *)

ServerName == STRING \union {"de"}

LEMMA ReserveIsNoBuilder == "de" \notin Builders
BY DEF Builders

LEMMA OneMember ==
  ASSUME NEW X, NEW s \in Seq(X), IsInjective(s), NEW x, ToSet(s) = {x}
  PROVE  s = <<x>>
<1>1. Len(s) \in Nat /\ DOMAIN s = 1..Len(s) /\ \A v : v \in ToSet(s) <=> \E i \in DOMAIN s : s[i] = v
  BY ListIs
<1>2. PICK i \in DOMAIN s : s[i] = x
  BY <1>1
<1>3. \A j \in DOMAIN s : s[j] = x
  BY <1>1
<1>4. \A j \in DOMAIN s : j = i
  BY <1>2, <1>3 DEF IsInjective
<1>5. 1 \in DOMAIN s /\ Len(s) \in DOMAIN s
  BY <1>1, <1>2
<1>6. Len(s) = 1
  BY <1>4, <1>5
<1>7. <<x>> \in Seq(X) /\ Len(<<x>>) = 1 /\ <<x>>[1] = x
  BY <1>3, <1>5, ListIs
<1> DEFINE t == <<x>>
<1> HIDE DEF t
<1>8. t \in Seq(X) /\ Len(t) = 1 /\ t[1] = x
  BY <1>7 DEF t
<1>9. \A j \in 1..Len(s) : s[j] = t[j]
  BY <1>1, <1>3, <1>6, <1>8
<1>10. s = t
  BY <1>6, <1>8, <1>9, SeqEqual
<1> QED
  BY <1>10 DEF t

LEMMA ServersAre ==
  ASSUME NEW w, NEW o \in Offers
  PROVE  /\ Servers(w, o) \in Seq(ServerName) /\ IsInjective(Servers(w, o))
         /\ ToSet(Servers(w, o)) = (ToSet(o.order) \intersect Configured)
                                     \union (IF w.payer /\ w.reserve THEN {"de"} ELSE {})
<1> DEFINE a == Keep(o.order, Configured)
           b == Reserve(w)
           z == Servers(w, o)
<1>1. o.order \in Seq(ServerName) /\ IsInjective(o.order)
  <2>1. o.order \in Seq(STRING) /\ IsInjective(o.order)
    BY ProfileConstants DEF Offers, ProfileConstants
  <2>2. o.order \in Seq(ServerName)
    BY <2>1, ListIs, SeqDef DEF ServerName
  <2> QED
    BY <2>1, <2>2
<1>2. /\ a \in Seq(ServerName) /\ ToSet(a) = ToSet(o.order) \intersect Configured
      /\ \A x, y : <<x, y>> \in Pairs(a) => <<x, y>> \in Pairs(o.order)
  BY <1>1, KeepIs
<1>3. /\ b \in Seq(ServerName) /\ ToSet(b) = (IF w.payer /\ w.reserve THEN {"de"} ELSE {})
      /\ \A x : <<x, x>> \notin Pairs(b)
  <2>1. CASE w.payer /\ w.reserve
    <3>1. b = <<"de">>
      BY <2>1 DEF Reserve
    <3>2. "de" \in ServerName
      BY DEF ServerName
    <3>3. b \in Seq(ServerName) /\ Len(b) = 1 /\ b[1] = "de"
      BY <3>1, <3>2
    <3> HIDE DEF b
    <3>4. DOMAIN b = 1..1
      BY <3>3, ListIs
    <3>5. ToSet(b) = {"de"}
      BY <3>3, <3>4 DEF ToSet
    <3>6. IsInjective(b)
      BY <3>4 DEF IsInjective
    <3> QED
      BY <2>1, <3>3, <3>5, <3>6, DistinctPairs
  <2>2. CASE ~(w.payer /\ w.reserve)
    <3>1. b = <<>>
      BY <2>2 DEF Reserve
    <3>2. ToSet(b) = {}
      BY <3>1 DEF ToSet
    <3>3. b \in Seq(ServerName)
      BY <3>1, EmptySeq
    <3> QED
      BY <2>2, <3>2, <3>3 DEF Pairs
  <2> QED
    BY <2>1, <2>2
<1>4. z = a \o b
  BY DEF Servers
<1> HIDE DEF a, b, z
<1>5. /\ z \in Seq(ServerName) /\ ToSet(z) = ToSet(a) \union ToSet(b)
      /\ \A x, y : <<x, y>> \in Pairs(z) =>
           \/ <<x, y>> \in Pairs(a)
           \/ <<x, y>> \in Pairs(b)
           \/ x \in ToSet(a) /\ y \in ToSet(b)
  BY <1>2, <1>3, <1>4, ConcatIs
<1>6. \A x : x \in ToSet(a) => x \notin ToSet(b)
  BY <1>2, <1>3, ProfileConstants, ReserveIsNoBuilder DEF ProfileConstants
<1>7. \A x : <<x, x>> \notin Pairs(a)
  BY <1>1, <1>2, DistinctPairs
<1>8. IsInjective(z)
  BY <1>3, <1>5, <1>6, <1>7, DistinctPairs
<1> QED
  BY <1>2, <1>3, <1>5, <1>8 DEF z

LEMMA DemotionsLeaveServers == DemotionLeavesServers
<1> SUFFICES ASSUME NEW o \in Offers, ToSet(Servers(who, o)) \ {"de"} # {}
             PROVE  ToSet(Kept(who, o)) \intersect (ToSet(Servers(who, o)) \ {"de"}) # {}
  BY DEF DemotionLeavesServers
<1> DEFINE s == Servers(who, o)
           demoted == ToSet(s) \intersect o.demoted
<1>1. s \in Seq(ServerName)
  BY ServersAre
<1>2. Kept(who, o) = Drop(s, Excluded(who, o))
  BY DEF Kept
<1>3. Excluded(who, o) = (IF ToSet(s) \ demoted \subseteq {"de"} THEN {} ELSE demoted)
  BY DEF Excluded
<1> HIDE DEF s
<1>4. ToSet(Kept(who, o)) = ToSet(s) \ Excluded(who, o)
  BY <1>1, <1>2, DropIs
<1>5. CASE ToSet(s) \ demoted \subseteq {"de"}
  BY <1>3, <1>4, <1>5 DEF s
<1>6. CASE ~(ToSet(s) \ demoted \subseteq {"de"})
  BY <1>3, <1>4, <1>6 DEF s
<1> QED
  BY <1>5, <1>6

LEMMA ServersAreWatched ==
  ASSUME held \in Offers
  PROVE  EveryServerWatched
<1> SUFFICES ASSUME who.base
             PROVE  /\ Probed(who, held) \subseteq ProbeGroups(who)
                    /\ \A p \in ToSet(Servers(who, held)) :
                         <<"p", p>> \in Probed(who, held) /\ ProviderList(who, held, p) = <<p>>
  BY DEF EveryServerWatched
<1> DEFINE s == Servers(who, held)
<1>1. /\ s \in Seq(ServerName) /\ IsInjective(s)
      /\ ToSet(s) = (ToSet(held.order) \intersect Configured)
                       \union (IF who.payer /\ who.reserve THEN {"de"} ELSE {})
  BY ServersAre
<1>2. Probed(who, held) \subseteq ProbeGroups(who)
  <2> DEFINE T == TelemetryProtocols(who)
  <2> HIDE DEF T
  <2>1. {<<"p", p>> : p \in ToSet(s) \intersect T} \subseteq {<<"p", p>> : p \in T}
    OBVIOUS
  <2> QED
    BY <2>1 DEF Probed, ProbeGroups, T
<1> HIDE DEF s
<1>3. ASSUME NEW p \in ToSet(s) PROVE <<"p", p>> \in Probed(who, held) /\ ProviderList(who, held, p) = <<p>>
  <2>1. p \in TelemetryProtocols(who)
    BY <1>1, <1>3 DEF TelemetryProtocols
  <2>2. s # <<>>
    BY <1>3 DEF ToSet
  <2>3. <<"p", p>> \in Probed(who, held)
    BY <1>3, <2>1, <2>2 DEF Probed, s
  <2> DEFINE l == Keep(s, {p})
  <2>4. /\ l \in Seq(ServerName) /\ ToSet(l) = ToSet(s) \intersect {p}
        /\ \A x, y : <<x, y>> \in Pairs(l) => <<x, y>> \in Pairs(s)
    BY <1>1, KeepIs
  <2>5. ProviderList(who, held, p) = l
    BY DEF ProviderList, s
  <2> HIDE DEF l
  <2>6. IsInjective(l)
    BY <1>1, <2>4, DistinctPairs
  <2>7. ToSet(l) = {p}
    BY <1>3, <2>4
  <2>8. l = <<p>>
    BY <2>4, <2>6, <2>7, OneMember
  <2> QED
    BY <2>3, <2>5, <2>8
<1> QED
  BY <1>2, <1>3 DEF s

-----------------------------------------------------------------------------
(* SubProfile: where the rules send a packet.                              *)

\* The rule at i decides what no earlier rule matches.
LEMMA DecisionIs ==
  ASSUME NEW n \in Nat, NEW rules, DOMAIN rules = 1..n, NEW p, NEW i \in 1..n,
         Matches(rules[i].test, p), \A j \in 1..(i - 1) : ~Matches(rules[j].test, p)
  PROVE  Decision(rules, p) = rules[i].out
<1> DEFINE F(k) == Matches(rules[k].test, p) /\ \A j \in 1 .. k - 1 : ~Matches(rules[j].test, p)
           first == CHOOSE k \in DOMAIN rules : F(k)
<1>1. i \in DOMAIN rules /\ F(i)
  OBVIOUS
<1>2. first \in DOMAIN rules /\ F(first)
  <2> HIDE DEF F
  <2> QED
    BY <1>1
<1>3. Decision(rules, p) = rules[first].out
  BY DEF Decision
<1> HIDE DEF first
<1>4. ~(first < i)
  BY <1>2
<1>5. ~(i < first)
  BY <1>2
<1>6. first = i
  BY <1>2, <1>4, <1>5
<1> QED
  BY <1>3, <1>6

\* The rules of the sing-box profile, in one list.
SingBox(w, o) ==
  IF w.en
  THEN << Rule("Direct", "direct"), Rule("ru-quic", "ru-exit"), Rule("udp", UdpOut(w, o)),
          Rule("telegram", "proxy"), Rule("Global", "proxy"), Rule("max", "direct"),
          Rule("ru", "ru-exit"), Rule("always", "proxy"), Rule("any", "proxy") >>
  ELSE << Rule("Direct", "direct"), Rule("ru-quic", "direct"), Rule("udp", UdpOut(w, o)),
          Rule("telegram", "proxy"), Rule("Global", "proxy"), Rule("max", "direct"),
          Rule("always", "proxy"), Rule("ru-tcp", "direct"), Rule("any", "proxy") >>

LEMMA RouteRulesAre ==
  ASSUME NEW w, NEW o
  PROVE  RouteRules(w, o) = SingBox(w, o)
BY DEF RouteRules, SingBox

LEMMA SevenDecide ==
  ASSUME NEW a1, NEW a2, NEW a3, NEW a4, NEW a5, NEW a6, NEW a7, NEW p,
         Matches(a7.test, p)
  PROVE  Decision(<<a1, a2, a3, a4, a5, a6, a7>>, p) =
           (IF Matches(a1.test, p) THEN a1.out
            ELSE IF Matches(a2.test, p) THEN a2.out
            ELSE IF Matches(a3.test, p) THEN a3.out
            ELSE IF Matches(a4.test, p) THEN a4.out
            ELSE IF Matches(a5.test, p) THEN a5.out
            ELSE IF Matches(a6.test, p) THEN a6.out
            ELSE a7.out)
<1> DEFINE r == <<a1, a2, a3, a4, a5, a6, a7>>
           M(k) == Matches(r[k].test, p)
           Upto(i) == \A j \in 1..(i - 1) : ~M(j)
           D == Decision(r, p)
<1>1. DOMAIN r = 1..7
  OBVIOUS
<1>2. r[1] = a1 /\ r[2] = a2 /\ r[3] = a3 /\ r[4] = a4 /\ r[5] = a5 /\ r[6] = a6 /\ r[7] = a7
  OBVIOUS
<1> HIDE DEF r
<1>3. ASSUME NEW i \in 1..7, M(i), Upto(i) PROVE D = r[i].out
  BY <1>1, <1>3, DecisionIs
<1>4. Upto(1)
  OBVIOUS
<1>5. ASSUME NEW i \in 1..7, Upto(i), ~M(i) PROVE Upto(i + 1)
  <2> SUFFICES ASSUME NEW j \in 1..((i + 1) - 1) PROVE ~M(j)
    OBVIOUS
  <2>1. j \in 1..(i - 1) \/ j = i
    OBVIOUS
  <2> HIDE DEF M
  <2> QED
    BY <1>5, <2>1
<1>6. (M(1) <=> Matches(a1.test, p)) /\ (M(2) <=> Matches(a2.test, p)) /\ (M(3) <=> Matches(a3.test, p)) /\ (M(4) <=> Matches(a4.test, p)) /\ (M(5) <=> Matches(a5.test, p)) /\ (M(6) <=> Matches(a6.test, p)) /\ (M(7) <=> Matches(a7.test, p))
  BY <1>2
<1> HIDE DEF M, Upto, D
<1>7. ~(M(1)) => Upto(2)
  BY <1>4, <1>5
<1>8. ~(M(1) \/ M(2)) => Upto(3)
  BY <1>7, <1>5
<1>9. ~(M(1) \/ M(2) \/ M(3)) => Upto(4)
  BY <1>8, <1>5
<1>10. ~(M(1) \/ M(2) \/ M(3) \/ M(4)) => Upto(5)
  BY <1>9, <1>5
<1>11. ~(M(1) \/ M(2) \/ M(3) \/ M(4) \/ M(5)) => Upto(6)
  BY <1>10, <1>5
<1>12. ~(M(1) \/ M(2) \/ M(3) \/ M(4) \/ M(5) \/ M(6)) => Upto(7)
  BY <1>11, <1>5
<1>13. /\ M(1) => D = r[1].out
       /\ ~(M(1)) /\ M(2) => D = r[2].out
       /\ ~(M(1) \/ M(2)) /\ M(3) => D = r[3].out
       /\ ~(M(1) \/ M(2) \/ M(3)) /\ M(4) => D = r[4].out
       /\ ~(M(1) \/ M(2) \/ M(3) \/ M(4)) /\ M(5) => D = r[5].out
       /\ ~(M(1) \/ M(2) \/ M(3) \/ M(4) \/ M(5)) /\ M(6) => D = r[6].out
       /\ ~(M(1) \/ M(2) \/ M(3) \/ M(4) \/ M(5) \/ M(6)) /\ M(7) => D = r[7].out
  BY <1>3, <1>4, <1>7, <1>8, <1>9, <1>10, <1>11, <1>12
<1> QED
  BY <1>2, <1>6, <1>13 DEF D, r

LEMMA NineDecide ==
  ASSUME NEW a1, NEW a2, NEW a3, NEW a4, NEW a5, NEW a6, NEW a7, NEW a8, NEW a9, NEW p,
         Matches(a9.test, p)
  PROVE  Decision(<<a1, a2, a3, a4, a5, a6, a7, a8, a9>>, p) =
           (IF Matches(a1.test, p) THEN a1.out
            ELSE IF Matches(a2.test, p) THEN a2.out
            ELSE IF Matches(a3.test, p) THEN a3.out
            ELSE IF Matches(a4.test, p) THEN a4.out
            ELSE IF Matches(a5.test, p) THEN a5.out
            ELSE IF Matches(a6.test, p) THEN a6.out
            ELSE IF Matches(a7.test, p) THEN a7.out
            ELSE IF Matches(a8.test, p) THEN a8.out
            ELSE a9.out)
<1> DEFINE r == <<a1, a2, a3, a4, a5, a6, a7, a8, a9>>
           M(k) == Matches(r[k].test, p)
           Upto(i) == \A j \in 1..(i - 1) : ~M(j)
           D == Decision(r, p)
<1>1. DOMAIN r = 1..9
  OBVIOUS
<1>2. r[1] = a1 /\ r[2] = a2 /\ r[3] = a3 /\ r[4] = a4 /\ r[5] = a5 /\ r[6] = a6 /\ r[7] = a7 /\ r[8] = a8 /\ r[9] = a9
  OBVIOUS
<1> HIDE DEF r
<1>3. ASSUME NEW i \in 1..9, M(i), Upto(i) PROVE D = r[i].out
  BY <1>1, <1>3, DecisionIs
<1>4. Upto(1)
  OBVIOUS
<1>5. ASSUME NEW i \in 1..9, Upto(i), ~M(i) PROVE Upto(i + 1)
  <2> SUFFICES ASSUME NEW j \in 1..((i + 1) - 1) PROVE ~M(j)
    OBVIOUS
  <2>1. j \in 1..(i - 1) \/ j = i
    OBVIOUS
  <2> HIDE DEF M
  <2> QED
    BY <1>5, <2>1
<1>6. (M(1) <=> Matches(a1.test, p)) /\ (M(2) <=> Matches(a2.test, p)) /\ (M(3) <=> Matches(a3.test, p)) /\ (M(4) <=> Matches(a4.test, p)) /\ (M(5) <=> Matches(a5.test, p)) /\ (M(6) <=> Matches(a6.test, p)) /\ (M(7) <=> Matches(a7.test, p)) /\ (M(8) <=> Matches(a8.test, p)) /\ (M(9) <=> Matches(a9.test, p))
  BY <1>2
<1> HIDE DEF M, Upto, D
<1>7. ~(M(1)) => Upto(2)
  BY <1>4, <1>5
<1>8. ~(M(1) \/ M(2)) => Upto(3)
  BY <1>7, <1>5
<1>9. ~(M(1) \/ M(2) \/ M(3)) => Upto(4)
  BY <1>8, <1>5
<1>10. ~(M(1) \/ M(2) \/ M(3) \/ M(4)) => Upto(5)
  BY <1>9, <1>5
<1>11. ~(M(1) \/ M(2) \/ M(3) \/ M(4) \/ M(5)) => Upto(6)
  BY <1>10, <1>5
<1>12. ~(M(1) \/ M(2) \/ M(3) \/ M(4) \/ M(5) \/ M(6)) => Upto(7)
  BY <1>11, <1>5
<1>13. ~(M(1) \/ M(2) \/ M(3) \/ M(4) \/ M(5) \/ M(6) \/ M(7)) => Upto(8)
  BY <1>12, <1>5
<1>14. ~(M(1) \/ M(2) \/ M(3) \/ M(4) \/ M(5) \/ M(6) \/ M(7) \/ M(8)) => Upto(9)
  BY <1>13, <1>5
<1>15. /\ M(1) => D = r[1].out
       /\ ~(M(1)) /\ M(2) => D = r[2].out
       /\ ~(M(1) \/ M(2)) /\ M(3) => D = r[3].out
       /\ ~(M(1) \/ M(2) \/ M(3)) /\ M(4) => D = r[4].out
       /\ ~(M(1) \/ M(2) \/ M(3) \/ M(4)) /\ M(5) => D = r[5].out
       /\ ~(M(1) \/ M(2) \/ M(3) \/ M(4) \/ M(5)) /\ M(6) => D = r[6].out
       /\ ~(M(1) \/ M(2) \/ M(3) \/ M(4) \/ M(5) \/ M(6)) /\ M(7) => D = r[7].out
       /\ ~(M(1) \/ M(2) \/ M(3) \/ M(4) \/ M(5) \/ M(6) \/ M(7)) /\ M(8) => D = r[8].out
       /\ ~(M(1) \/ M(2) \/ M(3) \/ M(4) \/ M(5) \/ M(6) \/ M(7) \/ M(8)) /\ M(9) => D = r[9].out
  BY <1>3, <1>4, <1>7, <1>8, <1>9, <1>10, <1>11, <1>12, <1>13, <1>14
<1> QED
  BY <1>2, <1>6, <1>15 DEF D, r

LEMMA TenDecide ==
  ASSUME NEW a1, NEW a2, NEW a3, NEW a4, NEW a5, NEW a6, NEW a7,
         NEW a8, NEW a9, NEW a10, NEW p,
         Matches(a10.test, p)
  PROVE  Decision(<<a1, a2, a3, a4, a5, a6, a7, a8, a9, a10>>, p) =
           (IF Matches(a1.test, p) THEN a1.out
            ELSE IF Matches(a2.test, p) THEN a2.out
            ELSE IF Matches(a3.test, p) THEN a3.out
            ELSE IF Matches(a4.test, p) THEN a4.out
            ELSE IF Matches(a5.test, p) THEN a5.out
            ELSE IF Matches(a6.test, p) THEN a6.out
            ELSE IF Matches(a7.test, p) THEN a7.out
            ELSE IF Matches(a8.test, p) THEN a8.out
            ELSE IF Matches(a9.test, p) THEN a9.out
            ELSE a10.out)
<1> DEFINE r == <<a1, a2, a3, a4, a5, a6, a7, a8, a9, a10>>
           M(k) == Matches(r[k].test, p)
           Upto(i) == \A j \in 1..(i - 1) : ~M(j)
           D == Decision(r, p)
<1>1. DOMAIN r = 1..10
  OBVIOUS
<1>2. r[1] = a1 /\ r[2] = a2 /\ r[3] = a3 /\ r[4] = a4 /\ r[5] = a5 /\ r[6] = a6 /\ r[7] = a7 /\ r[8] = a8 /\ r[9] = a9 /\ r[10] = a10
  OBVIOUS
<1> HIDE DEF r
<1>3. ASSUME NEW i \in 1..10, M(i), Upto(i) PROVE D = r[i].out
  BY <1>1, <1>3, DecisionIs
<1>4. Upto(1)
  OBVIOUS
<1>5. ASSUME NEW i \in 1..10, Upto(i), ~M(i) PROVE Upto(i + 1)
  <2> SUFFICES ASSUME NEW j \in 1..((i + 1) - 1) PROVE ~M(j)
    OBVIOUS
  <2>1. j \in 1..(i - 1) \/ j = i
    OBVIOUS
  <2> HIDE DEF M
  <2> QED
    BY <1>5, <2>1
<1>6. (M(1) <=> Matches(a1.test, p)) /\ (M(2) <=> Matches(a2.test, p)) /\ (M(3) <=> Matches(a3.test, p)) /\ (M(4) <=> Matches(a4.test, p)) /\ (M(5) <=> Matches(a5.test, p)) /\ (M(6) <=> Matches(a6.test, p)) /\ (M(7) <=> Matches(a7.test, p)) /\ (M(8) <=> Matches(a8.test, p)) /\ (M(9) <=> Matches(a9.test, p)) /\ (M(10) <=> Matches(a10.test, p))
  BY <1>2
<1> HIDE DEF M, Upto, D
<1>7. ~(M(1)) => Upto(2)
  BY <1>4, <1>5
<1>8. ~(M(1) \/ M(2)) => Upto(3)
  BY <1>7, <1>5
<1>9. ~(M(1) \/ M(2) \/ M(3)) => Upto(4)
  BY <1>8, <1>5
<1>10. ~(M(1) \/ M(2) \/ M(3) \/ M(4)) => Upto(5)
  BY <1>9, <1>5
<1>11. ~(M(1) \/ M(2) \/ M(3) \/ M(4) \/ M(5)) => Upto(6)
  BY <1>10, <1>5
<1>12. ~(M(1) \/ M(2) \/ M(3) \/ M(4) \/ M(5) \/ M(6)) => Upto(7)
  BY <1>11, <1>5
<1>13. ~(M(1) \/ M(2) \/ M(3) \/ M(4) \/ M(5) \/ M(6) \/ M(7)) => Upto(8)
  BY <1>12, <1>5
<1>14. ~(M(1) \/ M(2) \/ M(3) \/ M(4) \/ M(5) \/ M(6) \/ M(7) \/ M(8)) => Upto(9)
  BY <1>13, <1>5
<1>15. ~(M(1) \/ M(2) \/ M(3) \/ M(4) \/ M(5) \/ M(6) \/ M(7) \/ M(8) \/ M(9)) => Upto(10)
  BY <1>14, <1>5
<1>16. /\ M(1) => D = r[1].out
       /\ ~(M(1)) /\ M(2) => D = r[2].out
       /\ ~(M(1) \/ M(2)) /\ M(3) => D = r[3].out
       /\ ~(M(1) \/ M(2) \/ M(3)) /\ M(4) => D = r[4].out
       /\ ~(M(1) \/ M(2) \/ M(3) \/ M(4)) /\ M(5) => D = r[5].out
       /\ ~(M(1) \/ M(2) \/ M(3) \/ M(4) \/ M(5)) /\ M(6) => D = r[6].out
       /\ ~(M(1) \/ M(2) \/ M(3) \/ M(4) \/ M(5) \/ M(6)) /\ M(7) => D = r[7].out
       /\ ~(M(1) \/ M(2) \/ M(3) \/ M(4) \/ M(5) \/ M(6) \/ M(7)) /\ M(8) => D = r[8].out
       /\ ~(M(1) \/ M(2) \/ M(3) \/ M(4) \/ M(5) \/ M(6) \/ M(7) \/ M(8)) /\ M(9) => D = r[9].out
       /\ ~(M(1) \/ M(2) \/ M(3) \/ M(4) \/ M(5) \/ M(6) \/ M(7) \/ M(8) \/ M(9)) /\ M(10) => D = r[10].out
  BY <1>3, <1>4, <1>7, <1>8, <1>9, <1>10, <1>11, <1>12, <1>13, <1>14, <1>15
<1> QED
  BY <1>2, <1>6, <1>16 DEF D, r

\* What a test asks of a packet.
LEMMA TestsAre ==
  ASSUME NEW p \in Packet
  PROVE  /\ Matches("any", p)
         /\ Matches("udp", p) <=> p.udp
         /\ Matches("ru-quic", p) <=> p.udp /\ p.https /\ "ru" \in p.zone
         /\ Matches("ru-tcp", p) <=> ~p.udp /\ "ru" \in p.zone
         /\ Matches("list-quic", p) <=> p.udp /\ p.https /\ "direct" \in p.listed
         /\ Matches("list-vpn", p) <=> "vpn" \in p.listed
         /\ Matches("list-direct", p) <=> "direct" \in p.listed \/ "direct-ip" \in p.listed
         /\ Matches("Direct", p) <=> p.mode = "Direct"
         /\ Matches("Global", p) <=> p.mode = "Global"
         /\ \A t \in {"ru", "telegram", "always", "max"} : Matches(t, p) <=> t \in p.zone
<1>1. p.zone \subseteq {"ru", "telegram", "always", "max"} /\ p.udp \in BOOLEAN /\ p.https \in BOOLEAN
  BY DEF Packet, Zones
<1>2. \A t \in {"any", "udp", "ru-quic", "ru-tcp", "list-quic", "list-vpn", "list-direct",
                  "Direct", "Global"} : t \notin p.zone
  BY <1>1
<1> QED
  BY <1>2 DEF Matches

SingBoxOut(w, o, p) ==
  IF p.mode = "Direct" THEN "direct"
  ELSE IF p.udp /\ p.https /\ "ru" \in p.zone THEN (IF w.en THEN "ru-exit" ELSE "direct")
  ELSE IF p.udp THEN UdpOut(w, o)
  ELSE IF "telegram" \in p.zone THEN "proxy"
  ELSE IF p.mode = "Global" THEN "proxy"
  ELSE IF "max" \in p.zone THEN "direct"
  ELSE IF w.en /\ "ru" \in p.zone THEN "ru-exit"
  ELSE IF "always" \in p.zone THEN "proxy"
  ELSE IF ~w.en /\ "ru" \in p.zone THEN "direct"
  ELSE "proxy"

LEMMA SingBoxDecides ==
  ASSUME NEW w, NEW o, NEW p \in Packet
  PROVE  Decision(RouteRules(w, o), p) = SingBoxOut(w, o, p)
<1>1. \A t, x : Rule(t, x).test = t /\ Rule(t, x).out = x
  BY DEF Rule
<1>2. CASE w.en
  <2>1. RouteRules(w, o) =
         << Rule("Direct", "direct"), Rule("ru-quic", "ru-exit"), Rule("udp", UdpOut(w, o)),
            Rule("telegram", "proxy"), Rule("Global", "proxy"), Rule("max", "direct"),
            Rule("ru", "ru-exit"), Rule("always", "proxy"), Rule("any", "proxy") >>
    BY <1>2, RouteRulesAre DEF SingBox
  <2> QED
    BY <1>1, <1>2, <2>1, TestsAre, NineDecide DEF SingBoxOut
<1>3. CASE ~w.en
  <2>1. RouteRules(w, o) =
         << Rule("Direct", "direct"), Rule("ru-quic", "direct"), Rule("udp", UdpOut(w, o)),
            Rule("telegram", "proxy"), Rule("Global", "proxy"), Rule("max", "direct"),
            Rule("always", "proxy"), Rule("ru-tcp", "direct"), Rule("any", "proxy") >>
    BY <1>3, RouteRulesAre DEF SingBox
  <2> QED
    BY <1>1, <1>3, <2>1, TestsAre, NineDecide DEF SingBoxOut
<1> QED
  BY <1>2, <1>3

ClashOut(w, o, p) ==
  IF p.udp /\ p.https /\ "ru" \in p.zone THEN "direct"
  ELSE IF w.base /\ p.udp /\ p.https /\ "direct" \in p.listed THEN "direct"
  ELSE IF p.udp THEN UdpOut(w, o)
  ELSE IF "telegram" \in p.zone THEN "proxy"
  ELSE IF "max" \in p.zone THEN "direct"
  ELSE IF w.base /\ "vpn" \in p.listed THEN "proxy"
  ELSE IF "always" \in p.zone THEN "proxy"
  ELSE IF w.base /\ ("direct" \in p.listed \/ "direct-ip" \in p.listed) THEN "direct"
  ELSE IF "ru" \in p.zone THEN "direct"
  ELSE "proxy"

LEMMA ClashDecides ==
  ASSUME NEW w, NEW o, NEW p \in Packet
  PROVE  Decision(ClashRules(w, o), p) = ClashOut(w, o, p)
<1>1. \A t, x : Rule(t, x).test = t /\ Rule(t, x).out = x
  BY DEF Rule
<1>2. CASE w.base
  <2>1. ClashRules(w, o) =
         << Rule("ru-quic", "direct"), Rule("list-quic", "direct"), Rule("udp", UdpOut(w, o)),
            Rule("telegram", "proxy"), Rule("max", "direct"), Rule("list-vpn", "proxy"),
            Rule("always", "proxy"), Rule("list-direct", "direct"), Rule("ru", "direct"),
            Rule("any", "proxy") >>
    BY <1>2 DEF ClashRules
  <2> QED
    BY <1>1, <1>2, <2>1, TestsAre, TenDecide DEF ClashOut
<1>3. CASE ~w.base
  <2>1. ClashRules(w, o) =
         << Rule("ru-quic", "direct"), Rule("udp", UdpOut(w, o)), Rule("telegram", "proxy"),
            Rule("max", "direct"), Rule("always", "proxy"), Rule("ru", "direct"), Rule("any", "proxy") >>
    BY <1>3 DEF ClashRules
  <2> QED
    BY <1>1, <1>3, <2>1, TestsAre, SevenDecide DEF ClashOut
<1> QED
  BY <1>2, <1>3

LEMMA CallsAreCarried == CallsCarried
<1> SUFFICES ASSUME CallServers(who, held) # {},
                    NEW p \in Packet, p.udp, ~("ru" \in p.zone /\ p.https)
             PROVE  /\ p.mode # "Direct" => Decision(RouteRules(who, held), p) = "calls"
                    /\ (p.mode = "Rule" /\ ~(p.https /\ "direct" \in p.listed))
                         => Decision(ClashRules(who, held), p) = "calls"
  BY DEF CallsCarried
<1>1. UdpOut(who, held) = "calls"
  BY DEF UdpOut
<1> QED
  BY <1>1, SingBoxDecides, ClashDecides DEF SingBoxOut, ClashOut

\* The same site over QUIC is a packet that differs in nothing else.
LEMMA Http3Is ==
  ASSUME NEW p \in Packet
  PROVE  LET q == OverHttp3(p)
         IN q \in Packet /\ q.udp /\ q.https /\ q.zone = p.zone /\ q.listed = p.listed /\ q.mode = p.mode
BY DEF OverHttp3, Packet

LEMMA CountryIsOne == OneCountry
<1> SUFFICES ASSUME NEW p \in Packet, p.zone = {"ru"}, p.mode = "Rule", ~p.udp
             PROVE  Decision(RouteRules(who, held), p) = Decision(RouteRules(who, held), OverHttp3(p))
  BY DEF OneCountry
<1> DEFINE q == OverHttp3(p)
<1>0. q \in Packet /\ q.udp /\ q.https /\ q.zone = p.zone /\ q.mode = "Rule"
  BY Http3Is
<1> HIDE DEF q
<1>1. \A z \in {"telegram", "max", "always"} : z \notin p.zone
  OBVIOUS
<1>2. "ru" \in p.zone /\ "ru" \in q.zone
  BY <1>0
<1>3. Decision(RouteRules(who, held), p) = (IF who.en THEN "ru-exit" ELSE "direct")
  BY <1>1, <1>2, SingBoxDecides DEF SingBoxOut
<1>4. Decision(RouteRules(who, held), q) = (IF who.en THEN "ru-exit" ELSE "direct")
  BY <1>0, <1>2, SingBoxDecides DEF SingBoxOut
<1> QED
  BY <1>3, <1>4 DEF q

LEMMA ProfilesAgree == ClashAgrees
BY SingBoxDecides, ClashDecides DEF ClashAgrees, SingBoxOut, ClashOut

LEMMA ListsWin == ListsPrevail
<1> SUFFICES ASSUME who.base, NEW p \in Packet, p.mode = "Rule", ~p.udp,
                    p.zone \intersect {"telegram", "max"} = {}
             PROVE  /\ "vpn" \in p.listed => Decision(ClashRules(who, held), p) = "proxy"
                    /\ (p.listed # {} /\ "vpn" \notin p.listed /\ "always" \notin p.zone)
                         => Decision(ClashRules(who, held), p) = "direct"
  BY DEF ListsPrevail
<1>1. "telegram" \notin p.zone /\ "max" \notin p.zone
  OBVIOUS
<1>2. p.listed \subseteq {"vpn", "direct", "direct-ip"}
  BY DEF Packet
<1> QED
  BY <1>1, <1>2, ClashDecides DEF ClashOut

LEMMA QuicIsAsTcp == QuicFollows
<1> SUFFICES ASSUME NEW p \in Packet, p.mode = "Rule", ~p.udp, "direct-ip" \notin p.listed,
                    Decision(ClashRules(who, held), p) = "direct"
             PROVE  Decision(ClashRules(who, held), OverHttp3(p)) = "direct"
  BY DEF QuicFollows
<1> DEFINE q == OverHttp3(p)
<1>1. q \in Packet /\ q.udp /\ q.https /\ q.zone = p.zone /\ q.listed = p.listed
  BY Http3Is
<1> HIDE DEF q
<1>2. "max" \in p.zone => "ru" \in p.zone
  BY DEF Packet, Zones
<1>3. "ru" \in p.zone \/ (who.base /\ "direct" \in p.listed)
  BY <1>2, ClashDecides DEF ClashOut
<1>4. Decision(ClashRules(who, held), q) = "direct"
  BY <1>1, <1>3, ClashDecides DEF ClashOut
<1> QED
  BY <1>4 DEF q

-----------------------------------------------------------------------------
(* SubProfile: what every profile promises.                                *)

LEMMA FeedIs ==
  ASSUME NEW w, NEW o \in Offers
  PROVE  /\ ToSet(Servers(w, o)) \subseteq Configured \union {"de"}
         /\ \A i, j \in DOMAIN Servers(w, o) : Servers(w, o)[i] = Servers(w, o)[j] => i = j
BY ServersAre DEF IsInjective

LEMMA ProfileTypeKept == ProfileNext /\ ProfileTypeOK => ProfileTypeOK'
<1> SUFFICES ASSUME ProfileNext, ProfileTypeOK PROVE ProfileTypeOK'
  OBVIOUS
<1>1. CASE \E o \in Offers : OfferMoves(o)
  BY <1>1 DEF OfferMoves, ProfileTypeOK
<1>2. CASE ProfileLoaded \/ ProvidersRefreshed
  <2>1. fed' = Servers(who, offer) /\ offer' = offer /\ held' \in {held, offer}
    BY <1>2 DEF ProfileLoaded, ProvidersRefreshed
  <2> QED
    BY <2>1, FeedIs DEF ProfileTypeOK
<1> QED
  BY <1>1, <1>2 DEF ProfileNext

LEMMA ProfileStarts == ProfileInit => ProfileTypeOK
BY FeedIs DEF ProfileInit, ProfileTypeOK

LEMMA ProfilePromises == ProfileTypeOK => ProfileHolds
BY CallsAreCarried, CountryIsOne, ProfilesAgree, ListsWin, QuicIsAsTcp, DemotionsLeaveServers, ServersAreWatched
   DEF ProfileHolds, ProfileTypeOK

\* Whatever the order, the demotions and the days the profile and its providers are of: calls go
\* to servers that carry them, a Russian site sees one country, the two profiles agree for a
\* Russian-speaking user on what no list of the operator names, the lists beat the databases
\* over TCP and HTTP/3 follows where a site goes directly, a demotion leaves a server, and every
\* server is watched by a provider of its own (build_singbox_config, build_clash_config,
\* build_clash_proxies, rule_lists).
THEOREM ProfilesKept == ProfileSpec => []ProfileHolds
<1>1. ProfileInit => ProfileTypeOK
  BY ProfileStarts
<1>2. ProfileTypeOK /\ [ProfileNext]_profileVars => ProfileTypeOK'
  <2> SUFFICES ASSUME ProfileTypeOK, [ProfileNext]_profileVars PROVE ProfileTypeOK'
    OBVIOUS
  <2>1. CASE ProfileNext
    BY <2>1, ProfileTypeKept
  <2>2. CASE UNCHANGED profileVars
    BY <2>2 DEF profileVars, ProfileTypeOK
  <2> QED
    BY <2>1, <2>2
<1>3. ProfileTypeOK => ProfileHolds
  BY ProfilePromises
<1> QED
  BY <1>1, <1>2, <1>3, PTL DEF ProfileSpec

\* The same where the profile lives beside the other components, as the runs check it.
THEOREM HostedProfilesHold == HostSpec => []ProfilesHold
<1>1. HostInit => ProfileTypeOK
  BY ProfileStarts DEF HostInit
<1>2. ProfileTypeOK /\ [HostNext]_hostVars => ProfileTypeOK'
  <2> SUFFICES ASSUME ProfileTypeOK, [HostNext]_hostVars PROVE ProfileTypeOK'
    OBVIOUS
  <2>1. CASE ProfileNext
    BY <2>1, ProfileTypeKept
  <2>2. CASE UNCHANGED profileVars
    BY <2>2 DEF profileVars, ProfileTypeOK
  <2> QED
    BY <2>1, <2>2 DEF HostNext, hostVars
<1>3. ProfileTypeOK => ProfilesHold
  BY ProfilePromises DEF ProfilesHold
<1> QED
  BY <1>1, <1>2, <1>3, PTL DEF HostSpec

-----------------------------------------------------------------------------
\* The first of a list.
LEMMA FirstIsIn ==
  ASSUME NEW X, NEW s \in Seq(X), s # <<>>
  PROVE  s[1] \in ToSet(s)
<1>1. Len(s) \in Nat /\ Len(s) >= 1 /\ DOMAIN s = 1..Len(s)
  BY ListIs, EmptySeq
<1> QED
  BY <1>1, ListIs

-----------------------------------------------------------------------------
(* ExitRouting: moves that help, and nobody flaps.                         *)

\* A user who has an entry has a primary and a current exit.
StatusesAre ==
  /\ statuses = [x \in Exit |-> statuses[x]]
  /\ \A x \in Exit : statuses[x] \in StatusesOf(x) \union {Unknown}

RoutesInv ==
  /\ profiles \subseteq Exit /\ cooling \subseteq RouteUser /\ idle \subseteq RouteUser
  /\ StatusesAre
  /\ routes \in [RouteUser -> [primary : Exit \union {NoExit}, current : Exit \union {NoExit},
                               fallbacks : Seq(Exit), moves : 0..MaxMoves]]

LEMMA RoutesStart == RoutingInit => RoutesInv
<1> SUFFICES ASSUME RoutingInit PROVE RoutesInv
  OBVIOUS
<1>1. <<>> \in Seq(Exit)
  BY EmptySeq
<1>2. 0 \in 0..MaxMoves
  BY RoutingConstants
<1> QED
  BY <1>1, <1>2 DEF RoutingInit, RoutesInv, StatusesAre, Unrouted

LEMMA FallbacksAre ==
  ASSUME profiles \subseteq Exit, NEW p, NEW f \in FallbacksOf(p)
  PROVE  f \in Seq(Exit)
<1> DEFINE others == profiles \ {p}
           n == Cardinality(others)
<1>1. n \in Nat
  BY RoutingConstants, FS_Subset, FS_CardinalityType
<1>2. f \in [1..n -> others]
  BY DEF FallbacksOf
<1> HIDE DEF n
<1>3. f \in [1..n -> Exit]
  BY <1>2
<1> QED
  BY <1>1, <1>3, SeqDef

\* What is taken of the primary and the fallbacks is preferred; otherwise it is healthy.
LEMMA TargetIs ==
  ASSUME RoutesInv, NEW u \in RouteUser, NEW x \in MovesTo(u)
  PROVE  Movable(u) /\ x \in Exit /\ Preferred(x)
<1> DEFINE r == routes[u]
           P == {y \in Exit : Preferred(y)}
           all == <<r.primary>> \o r.fallbacks
           inTurn == Keep(all, P)
<1>1. Movable(u) /\ x \in BestTarget(r) /\ ~statuses[x].throttled
  BY DEF MovesTo
<1>2. CASE inTurn # <<>>
  <2>1. r.primary \in Exit \union {NoExit} /\ r.fallbacks \in Seq(Exit)
    BY DEF RoutesInv
  <2>2. all \in Seq(Exit \union {NoExit})
    <3>1. <<r.primary>> \in Seq(Exit \union {NoExit}) /\ r.fallbacks \in Seq(Exit \union {NoExit})
      BY <2>1
    <3> HIDE DEF r
    <3> QED
      BY <3>1, ConcatProperties
  <2> HIDE DEF all, P
  <2>3. inTurn \in Seq(Exit \union {NoExit}) /\ ToSet(inTurn) \subseteq P
    BY <2>2, KeepIs
  <2> HIDE DEF inTurn
  <2>4. inTurn[1] \in ToSet(inTurn)
    BY <1>2, <2>3, FirstIsIn
  <2>5. x = inTurn[1]
    BY <1>1, <1>2 DEF BestTarget, inTurn, all, P
  <2> QED
    BY <1>1, <2>3, <2>4, <2>5 DEF P
<1>3. CASE inTurn = <<>>
  <2>1. x \in {y \in Exit : statuses[y].healthy}
    BY <1>1, <1>3 DEF BestTarget
  <2> QED
    BY <1>1, <2>1 DEF Preferred
<1> QED
  BY <1>2, <1>3

LEMMA MoveIs ==
  ASSUME RoutesInv, NEW u \in RouteUser, UserMoved(u)
  PROVE  /\ RoutesInv' /\ Movable(u) /\ Preferred(routes'[u].current)
         /\ \A v \in RouteUser : v # u => routes'[v] = routes[v]
<1>1. PICK x \in MovesTo(u) :
        /\ routes' = [routes EXCEPT ![u].current = x, ![u].moves = @ + 1]
        /\ cooling' = cooling \union {u} /\ idle' = idle \ {u}
        /\ UNCHANGED <<profiles, statuses>>
  BY DEF UserMoved
<1>2. Movable(u) /\ x \in Exit /\ Preferred(x)
  BY TargetIs
<1>3. routes[u].moves + 1 \in 0..MaxMoves
  BY <1>2, RoutingConstants DEF Movable, RoutesInv
<1> DEFINE R == [primary : Exit \union {NoExit}, current : Exit \union {NoExit},
                 fallbacks : Seq(Exit), moves : 0..MaxMoves]
           r1 == [routes EXCEPT ![u].current = x]
           r2 == [r1 EXCEPT ![u].moves = @ + 1]
<1>4. /\ r1 \in [RouteUser -> R] /\ r1[u].current = x /\ r1[u].moves = routes[u].moves
      /\ \A v \in RouteUser : v # u => r1[v] = routes[v]
  BY <1>2 DEF RoutesInv
<1> HIDE DEF r1
<1>5. /\ r2 \in [RouteUser -> R] /\ r2[u].current = x
      /\ \A v \in RouteUser : v # u => r2[v] = r1[v]
  BY <1>3, <1>4
<1>6. routes' = r2
  BY <1>1, Zenon DEF r1, r2
<1> HIDE DEF r2
<1>0. UNCHANGED statuses => StatusesAre'
  BY DEF RoutesInv, StatusesAre
<1>7. RoutesInv'
  BY <1>0, <1>1, <1>5, <1>6 DEF RoutesInv
<1> QED
  BY <1>1, <1>2, <1>4, <1>5, <1>6, <1>7 DEF Preferred

LEMMA RoutesKept == ASSUME RoutesInv, [RoutingNext]_routingVars PROVE RoutesInv'
<1>0. UNCHANGED statuses => StatusesAre'
  BY DEF RoutesInv, StatusesAre
<1>1. CASE UNCHANGED routingVars
  BY <1>0, <1>1 DEF routingVars, RoutesInv
<1>2. CASE \E x \in Exit : ExitRegistered(x)
  BY <1>0, <1>2 DEF ExitRegistered, RoutesInv
<1>3. CASE \E x \in Exit : StatusPushed(x)
  <2>0. PICK x \in Exit : StatusPushed(x)
    BY <1>3
  <2>1. PICK s \in StatusesOf(x) : statuses' = [statuses EXCEPT ![x] = s]
                                   /\ UNCHANGED <<profiles, routes, cooling, idle>>
    BY <2>0 DEF StatusPushed
  <2>2. StatusesAre'
    BY <2>1 DEF RoutesInv, StatusesAre
  <2> QED
    BY <2>1, <2>2 DEF RoutesInv
<1>4. CASE \E u \in RouteUser : UserMoved(u)
  BY <1>4, MoveIs
<1>5. CASE \E u \in RouteUser, x, y \in Exit : UserAssigned(u, x, y)
  <2>0. PICK u \in RouteUser, x \in Exit, y \in Exit : UserAssigned(u, x, y)
    BY <1>5
  <2>1. PICK f \in FallbacksOf(x) :
          /\ routes' = [routes EXCEPT ![u] = [primary |-> x, current |-> y, fallbacks |-> f, moves |-> 0]]
          /\ idle' = idle \ {u} /\ UNCHANGED <<profiles, statuses, cooling>>
    BY <2>0 DEF UserAssigned
  <2>2. f \in Seq(Exit) /\ 0 \in 0..MaxMoves
    BY FallbacksAre, RoutingConstants DEF RoutesInv
  <2> QED
    BY <1>0, <2>1, <2>2 DEF RoutesInv
<1>6. CASE RoutesCleaned
  <2>1. Unrouted \in [primary : Exit \union {NoExit}, current : Exit \union {NoExit},
                      fallbacks : Seq(Exit), moves : 0..MaxMoves]
    BY EmptySeq, RoutingConstants DEF Unrouted
  <2> QED
    BY <1>0, <1>6, <2>1 DEF RoutesCleaned, RoutesInv
<1>7. CASE CooledDown \/ DayPassed \/ \E u \in RouteUser : RouteAsked(u)
  BY <1>0, <1>7 DEF CooledDown, DayPassed, RouteAsked, RoutesInv
<1> QED
  BY <1>1, <1>2, <1>3, <1>4, <1>5, <1>6, <1>7 DEF RoutingNext

\* With the primary or a fallback ready, the first of them is the target, and not the exit left.
LEMMA TargetIsFound ==
  ASSUME RoutesInv, NEW u \in RouteUser, Movable(u), NEW x \in Exit, Preferred(x),
         x \in {routes[u].primary} \union ToSet(routes[u].fallbacks)
  PROVE  MovesTo(u) # {}
<1> DEFINE r == routes[u]
           P == {y \in Exit : Preferred(y)}
           all == <<r.primary>> \o r.fallbacks
           inTurn == Keep(all, P)
<1>1. /\ <<r.primary>> \in Seq(Exit \union {NoExit}) /\ r.fallbacks \in Seq(Exit \union {NoExit})
      /\ ToSet(<<r.primary>>) = {r.primary}
  BY DEF RoutesInv, ToSet
<1> HIDE DEF r
<1>2. all \in Seq(Exit \union {NoExit}) /\ ToSet(all) = {r.primary} \union ToSet(r.fallbacks)
  BY <1>1, ConcatIs, ConcatProperties
<1>3. x \in ToSet(all) \intersect P
  BY <1>2 DEF r
<1> HIDE DEF all, P
<1>4. inTurn \in Seq(Exit \union {NoExit}) /\ ToSet(inTurn) = ToSet(all) \intersect P
  BY <1>2, KeepIs
<1> HIDE DEF inTurn
<1>5. inTurn # <<>>
  BY <1>3, <1>4 DEF ToSet
<1>6. inTurn[1] \in P
  BY <1>4, <1>5, FirstIsIn
<1>7. BestTarget(routes[u]) = {inTurn[1]}
  BY <1>5 DEF BestTarget, inTurn, all, P, r
<1>8. Preferred(inTurn[1]) /\ ~Preferred(routes[u].current)
  BY <1>6 DEF P, Movable
<1>9. inTurn[1] # routes[u].current /\ ~statuses[inTurn[1]].throttled
  BY <1>8 DEF Preferred
<1> QED
  BY <1>7, <1>9 DEF MovesTo

LEMMA RoutesTyped == RoutesInv => RoutingTypeOK /\ BadExitLeft
<1> SUFFICES ASSUME RoutesInv PROVE RoutingTypeOK /\ BadExitLeft
  OBVIOUS
<1>1. RoutingTypeOK
  BY DEF RoutesInv, StatusesAre, RoutingTypeOK
<1>2. BadExitLeft
  BY TargetIsFound DEF BadExitLeft
<1> QED
  BY <1>1, <1>2

\* Only a move counts as one.
LEMMA OnlyMovesCount ==
  ASSUME RoutesInv, [RoutingNext]_routingVars, NEW u \in RouteUser, routes'[u].moves > routes[u].moves
  PROVE  UserMoved(u)
<1>1. routes[u].moves \in Nat /\ DOMAIN routes = RouteUser
  BY DEF RoutesInv
<1>2. CASE UNCHANGED routes
  BY <1>1, <1>2
<1>3. ASSUME NEW v \in RouteUser, UserMoved(v) PROVE v = u
  BY <1>1, <1>3, MoveIs
<1>4. ASSUME NEW v \in RouteUser, NEW x \in Exit, NEW y \in Exit, UserAssigned(v, x, y) PROVE FALSE
  <2>1. PICK f : routes' = [routes EXCEPT ![v] = [primary |-> x, current |-> y, fallbacks |-> f, moves |-> 0]]
    BY <1>4 DEF UserAssigned
  <2> QED
    BY <1>1, <2>1
<1>5. ~RoutesCleaned
  BY <1>1 DEF RoutesCleaned, Unrouted
<1> QED
  BY <1>2, <1>3, <1>4, <1>5
     DEF RoutingNext, routingVars, ExitRegistered, StatusPushed, RouteAsked, CooledDown, DayPassed

LEMMA MovesAreGood ==
  ASSUME RoutesInv, [RoutingNext]_routingVars, NEW u \in RouteUser, routes'[u].moves > routes[u].moves
  PROVE  ~Preferred(routes[u].current) /\ Preferred(routes'[u].current) /\ u \notin cooling
BY OnlyMovesCount, MoveIs DEF Movable

-----------------------------------------------------------------------------
(* ExitRouting: the trackers, their listener and their advice.             *)

LoadStatus == {"normal", "warning", "throttled"}
Report == [cpu : Nat, age : Nat]

\* Reports of a tracker: no more than are kept, none younger than the one after it.
Aging(s) == \A i \in 2..Len(s) : s[i].age <= s[i - 1].age
Reports(s) == s \in Seq(Report) /\ Len(s) <= WindowSize /\ Aging(s)

TrackersAre ==
  /\ trackers = [n \in TrackedNode |-> trackers[n]]
  /\ \A n \in TrackedNode :
       /\ trackers[n] \in [on : BOOLEAN, reports : Seq(Report), status : LoadStatus]
       /\ Reports(trackers[n].reports)

\* What waits to be told of a node ends with its status; where nothing waits, it was heard.
Mute(n, i) == \A j \in DOMAIN telling : j > i => telling[j].node # n
WordIsTrue ==
  \A n \in changed :
    /\ Mute(n, 0) => heard[n] = trackers[n].status
    /\ \A i \in DOMAIN telling :
         telling[i].node = n /\ Mute(n, i) => telling[i].status = trackers[n].status

TrackInv ==
  /\ TrackersAre /\ WordIsTrue
  /\ telling \in Seq([node : TrackedNode, status : LoadStatus])
  /\ heard \in [TrackedNode -> LoadStatus] /\ changed \subseteq TrackedNode

LEMMA NoReports == Reports(<<>>)
<1>1. <<>> \in Seq(Report) /\ Len(<<>>) = 0 /\ WindowSize \in Nat
  BY EmptySeq, TrackerConstants
<1> QED
  BY <1>1 DEF Reports, Aging

LEMMA TrackStarts == TrackInit => TrackInv
<1> SUFFICES ASSUME TrackInit PROVE TrackInv
  OBVIOUS
<1>1. Untracked \in [on : BOOLEAN, reports : Seq(Report), status : LoadStatus]
      /\ Untracked.reports = <<>>
  BY NoReports DEF Untracked, Reports, LoadStatus
<1>2. telling \in Seq([node : TrackedNode, status : LoadStatus])
  BY EmptySeq DEF TrackInit
<1> QED
  BY <1>1, <1>2, NoReports DEF TrackInit, TrackInv, TrackersAre, WordIsTrue, LoadStatus

\* A tracker made anew or taken away is one that has not changed.
LEMMA RemadeKept ==
  ASSUME TrackInv, NEW n \in TrackedNode, NEW t \in {Untracked, NewTracker},
         trackers' = [trackers EXCEPT ![n] = t], changed' = changed \ {n}, UNCHANGED <<telling, heard>>
  PROVE  TrackInv'
<1> DEFINE T == [on : BOOLEAN, reports : Seq(Report), status : LoadStatus]
<1>1. Untracked \in T /\ NewTracker \in T /\ Untracked.reports = <<>> /\ NewTracker.reports = <<>>
  <2>1. <<>> \in Seq(Report)
    BY EmptySeq
  <2>2. Untracked \in T /\ Untracked.reports = <<>>
    BY <2>1 DEF Untracked, LoadStatus
  <2>3. NewTracker \in T /\ NewTracker.reports = <<>>
    BY <2>1 DEF NewTracker, LoadStatus
  <2> QED
    BY <2>2, <2>3
<1>2. t \in T /\ t.reports = <<>>
  BY <1>1
<1>3. \A m \in TrackedNode : trackers'[m] = (IF m = n THEN t ELSE trackers[m])
  BY DEF TrackInv, TrackersAre
<1>4. TrackersAre'
  BY <1>2, <1>3, NoReports DEF TrackInv, TrackersAre
<1>5. WordIsTrue'
  BY <1>3 DEF TrackInv, WordIsTrue, Mute
<1> QED
  BY <1>4, <1>5 DEF TrackInv

LEMMA StatusIs == ASSUME NEW s PROVE StatusAfter(s) \in LoadStatus
BY DEF StatusAfter, LoadStatus

\* The newest report comes last, with age none; the oldest may go.
LEMMA ReportsGrow ==
  ASSUME NEW s, Reports(s), NEW r \in Report, r.age = 0
  PROVE  LET all == Append(s, r)
         IN  Reports(SubSeq(all, IF Len(all) > WindowSize THEN 2 ELSE 1, Len(all)))
<1> DEFINE all == Append(s, r)
           m == IF Len(all) > WindowSize THEN 2 ELSE 1
           kept == SubSeq(all, m, Len(all))
<1>1. /\ s \in Seq(Report) /\ Len(s) \in Nat /\ all \in Seq(Report) /\ Len(all) = Len(s) + 1
      /\ all[Len(s) + 1] = r /\ \A i \in 1..Len(s) : all[i] = s[i] /\ s[i] \in Report
  BY AppendProperties, LenProperties, ElementOfSeq DEF Reports
<1>2. \A i \in 1..Len(all) : all[i] \in Report
  BY <1>1
<1>3. \A i \in 2..Len(all) : all[i].age <= all[i - 1].age
  <2> SUFFICES ASSUME NEW i \in 2..Len(all) PROVE all[i].age <= all[i - 1].age
    OBVIOUS
  <2>1. CASE i = Len(s) + 1
    <3>1. i - 1 \in 1..Len(s)
      BY <1>1, <2>1
    <3>2. all[i] = r /\ all[i - 1] \in Report
      BY <1>1, <2>1, <3>1
    <3> QED
      BY <3>2 DEF Report
  <2>2. CASE i # Len(s) + 1
    <3>1. i \in 2..Len(s) /\ i \in 1..Len(s) /\ i - 1 \in 1..Len(s)
      BY <1>1, <2>2
    <3>2. all[i] = s[i] /\ all[i - 1] = s[i - 1]
      BY <1>1, <3>1
    <3> QED
      BY <3>1, <3>2 DEF Reports, Aging
  <2> QED
    BY <2>1, <2>2
<1>4. m \in {1, 2} /\ (m = 1 => Len(all) <= WindowSize) /\ WindowSize \in Nat /\ Len(s) <= WindowSize
  BY <1>1, TrackerConstants DEF Reports
<1> HIDE DEF m, all
<1>5. /\ kept \in Seq(Report) /\ Len(kept) = (IF m <= Len(all) THEN Len(all) - m + 1 ELSE 0)
      /\ \A i \in 1..(Len(all) - m + 1) : kept[i] = all[m + i - 1]
  <2>1. \A i \in m..Len(all) : all[i] \in Report
    BY <1>1, <1>2, <1>4
  <2>2. m \in Int /\ Len(all) \in Int
    BY <1>1, <1>4
  <2> QED
    BY <2>1, <2>2, SubSeqProperties
<1> HIDE DEF kept
<1>6. Len(kept) <= WindowSize
  BY <1>1, <1>4, <1>5
<1>7. Aging(kept)
  <2> SUFFICES ASSUME NEW i \in 2..Len(kept) PROVE kept[i].age <= kept[i - 1].age
    BY DEF Aging
  <2>1. i \in 1..(Len(all) - m + 1) /\ i - 1 \in 1..(Len(all) - m + 1) /\ m + i - 1 \in 2..Len(all)
        /\ m + (i - 1) - 1 = (m + i - 1) - 1
    BY <1>1, <1>4, <1>5
  <2>2. kept[i] = all[m + i - 1] /\ kept[i - 1] = all[(m + i - 1) - 1]
    BY <1>5, <2>1
  <2> QED
    BY <1>3, <2>1, <2>2
<1>8. Reports(kept)
  BY <1>5, <1>6, <1>7 DEF Reports
<1> QED
  BY <1>8 DEF kept, m, all

LEMMA LoadKept ==
  ASSUME TrackInv, NEW n \in TrackedNode, NEW c \in Loads, LoadReported(n, c)
  PROVE  TrackInv'
<1> DEFINE r == [cpu |-> c, age |-> 0]
           all == Append(trackers[n].reports, r)
           kept == SubSeq(all, IF Len(all) > WindowSize THEN 2 ELSE 1, Len(all))
           status == IF n \in LimitedNode THEN StatusAfter(kept) ELSE "normal"
           T == [on : BOOLEAN, reports : Seq(Report), status : LoadStatus]
<1>1. Reports(kept)
  <2>0. c \in Nat
    BY TrackerConstants
  <2>1. r \in Report /\ r.age = 0 /\ Reports(trackers[n].reports)
    BY <2>0 DEF Report, TrackInv, TrackersAre
  <2> HIDE DEF r
  <2> QED
    BY <2>1, ReportsGrow
<1>2. status \in LoadStatus
  BY StatusIs DEF LoadStatus
<1>3. /\ trackers' = [trackers EXCEPT ![n].reports = kept, ![n].status = status]
      /\ IF status # trackers[n].status
         THEN telling' = Told(n, status) /\ changed' = changed \union {n}
         ELSE UNCHANGED <<telling, changed>>
      /\ UNCHANGED heard
  BY DEF LoadReported
<1> HIDE DEF r, all, kept, status
<1> DEFINE t1 == [trackers EXCEPT ![n].reports = kept]
           t2 == [t1 EXCEPT ![n].status = status]
<1>4. /\ t1 = [m \in TrackedNode |-> t1[m]] /\ t1[n] \in T /\ t1[n].reports = kept
      /\ \A m \in TrackedNode : m # n => t1[m] = trackers[m]
  BY <1>1 DEF TrackInv, TrackersAre, Reports
<1> HIDE DEF t1
<1>5. /\ t2 = [m \in TrackedNode |-> t2[m]] /\ t2[n] \in T /\ t2[n].reports = kept
      /\ t2[n].status = status /\ \A m \in TrackedNode : m # n => t2[m] = t1[m]
  BY <1>2, <1>4
<1>6. trackers' = t2
  BY <1>3, Zenon DEF t1, t2
<1> HIDE DEF t2
<1>7. trackers'[n].status = status /\ \A m \in TrackedNode : m # n => trackers'[m] = trackers[m]
  BY <1>4, <1>5, <1>6
<1>8. TrackersAre'
  BY <1>1, <1>4, <1>5, <1>6 DEF TrackInv, TrackersAre
<1>9. CASE status = trackers[n].status
  <2>1. UNCHANGED <<telling, heard, changed>>
    BY <1>3, <1>9
  <2>2. \A m \in TrackedNode : trackers'[m].status = trackers[m].status
    BY <1>7, <1>9
  <2>3. WordIsTrue'
    BY <2>1, <2>2 DEF TrackInv, WordIsTrue, Mute
  <2> QED
    BY <1>8, <2>1, <2>3 DEF TrackInv
<1>10. CASE status # trackers[n].status
  <2> DEFINE e == [node |-> n, status |-> status]
             S == [node : TrackedNode, status : LoadStatus]
  <2>1. telling' = Append(telling, e) /\ e \in S /\ telling \in Seq(S)
    BY <1>2, <1>3, <1>10 DEF Told, TrackInv
  <2>2. /\ telling' \in Seq(S) /\ Len(telling) \in Nat /\ telling'[Len(telling) + 1] = e
        /\ DOMAIN telling = 1..Len(telling) /\ DOMAIN telling' = 1..(Len(telling) + 1)
        /\ \A i \in DOMAIN telling : telling'[i] = telling[i]
    BY <2>1, AppendProperties, LenProperties
  <2>3. changed' = changed \union {n} /\ heard' = heard
    BY <1>3, <1>10
  <2>4. WordIsTrue'
    <3> SUFFICES ASSUME NEW m \in changed'
                 PROVE  /\ Mute(m, 0)' => heard'[m] = trackers'[m].status
                        /\ \A i \in DOMAIN telling' :
                             telling'[i].node = m /\ Mute(m, i)' => telling'[i].status = trackers'[m].status
      BY DEF WordIsTrue
    <3>1. CASE m = n
      <4>1. Len(telling) + 1 \in DOMAIN telling' /\ telling'[Len(telling) + 1].node = n
            /\ Len(telling) + 1 > 0
        BY <2>2
      <4>2. ~Mute(m, 0)'
        BY <3>1, <4>1 DEF Mute
      <4>3. ASSUME NEW i \in DOMAIN telling', Mute(m, i)' PROVE i = Len(telling) + 1
        BY <3>1, <4>1, <4>3, <2>2 DEF Mute
      <4> QED
        BY <1>7, <2>2, <3>1, <4>2, <4>3
    <3>2. CASE m # n
      <4>1. m \in changed /\ m \in TrackedNode
        BY <2>3, <3>2 DEF TrackInv
      <4>2. \A i : Mute(m, i)' => Mute(m, i)
        BY <2>2 DEF Mute
      <4>3. ASSUME NEW i \in DOMAIN telling', telling'[i].node = m PROVE i \in DOMAIN telling
        BY <2>2, <3>2, <4>3
      <4> QED
        BY <1>7, <2>2, <2>3, <3>2, <4>1, <4>2, <4>3 DEF TrackInv, WordIsTrue
    <3> QED
      BY <3>1, <3>2
  <2>5. heard' \in [TrackedNode -> LoadStatus] /\ changed' \subseteq TrackedNode
    BY <2>3 DEF TrackInv
  <2> QED
    BY <1>8, <2>2, <2>4, <2>5 DEF TrackInv
<1> QED
  BY <1>9, <1>10

LEMMA HeardKept == ASSUME TrackInv, ListenerTold PROVE TrackInv'
<1> DEFINE S == [node : TrackedNode, status : LoadStatus]
           h == telling[1]
<1>1. /\ telling \in Seq(S) /\ telling # <<>> /\ telling' = Tail(telling)
      /\ heard' = [heard EXCEPT ![h.node] = h.status] /\ UNCHANGED <<trackers, changed>>
  BY DEF ListenerTold, TrackInv
<1>2. /\ telling' \in Seq(S) /\ Len(telling) \in Nat /\ Len(telling) >= 1 /\ h \in S
      /\ DOMAIN telling = 1..Len(telling) /\ DOMAIN telling' = 1..(Len(telling) - 1)
      /\ \A i \in DOMAIN telling' : telling'[i] = telling[i + 1]
  <2>1. Len(telling) \in Nat /\ Len(telling) >= 1 /\ DOMAIN telling = 1..Len(telling)
    BY <1>1, LenProperties, EmptySeq
  <2>2. /\ telling' \in Seq(S) /\ Len(telling') = Len(telling) - 1
        /\ \A i \in 1..Len(telling') : telling'[i] = telling[i + 1]
    BY <1>1, HeadTailProperties
  <2>3. DOMAIN telling' = 1..Len(telling')
    BY <2>2, LenProperties
  <2>4. telling[1] \in S
    <3>1. 1 \in 1..Len(telling)
      BY <2>1
    <3> QED
      BY <1>1, <3>1, ElementOfSeq
  <2> QED
    BY <2>1, <2>2, <2>3, <2>4
<1> HIDE DEF h
<1>3. /\ heard' \in [TrackedNode -> LoadStatus] /\ heard'[h.node] = h.status
      /\ \A n \in TrackedNode : n # h.node => heard'[n] = heard[n]
  BY <1>1, <1>2 DEF TrackInv
<1>4. WordIsTrue'
  <2> SUFFICES ASSUME NEW n \in changed
               PROVE  /\ Mute(n, 0)' => heard'[n] = trackers[n].status
                      /\ \A i \in DOMAIN telling' :
                           telling'[i].node = n /\ Mute(n, i)' => telling'[i].status = trackers[n].status
    BY <1>1 DEF WordIsTrue
  <2>1. ASSUME NEW i \in Nat, Mute(n, i)' PROVE Mute(n, i + 1)
    <3> SUFFICES ASSUME NEW j \in DOMAIN telling, j > i + 1 PROVE telling[j].node # n
      BY DEF Mute
    <3>1. j - 1 \in DOMAIN telling' /\ j - 1 > i /\ telling'[j - 1] = telling[j]
      <4>1. j - 1 \in DOMAIN telling' /\ j - 1 > i /\ (j - 1) + 1 = j
        BY <1>2
      <4> QED
        BY <1>2, <4>1
    <3> QED
      BY <2>1, <3>1 DEF Mute
  <2>2. ASSUME Mute(n, 0)' PROVE heard'[n] = trackers[n].status
    <3>1. Mute(n, 1)
      BY <2>1, <2>2
    <3>2. 1 \in DOMAIN telling /\ n \in TrackedNode
      BY <1>2 DEF TrackInv
    <3>3. CASE h.node = n
      BY <1>3, <3>1, <3>2, <3>3 DEF h, TrackInv, WordIsTrue
    <3>4. CASE h.node # n
      <4>1. Mute(n, 0)
        BY <1>2, <3>1, <3>4 DEF Mute, h
      <4> QED
        BY <1>3, <3>2, <3>4, <4>1 DEF TrackInv, WordIsTrue
    <3> QED
      BY <3>3, <3>4
  <2>3. ASSUME NEW i \in DOMAIN telling', telling'[i].node = n, Mute(n, i)'
        PROVE  telling'[i].status = trackers[n].status
    <3>1. i \in Nat /\ i + 1 \in DOMAIN telling /\ telling'[i] = telling[i + 1]
      BY <1>2
    <3>2. Mute(n, i + 1)
      BY <2>1, <2>3, <3>1
    <3> QED
      BY <2>3, <3>1, <3>2 DEF TrackInv, WordIsTrue
  <2> QED
    BY <2>2, <2>3
<1> QED
  BY <1>1, <1>2, <1>3, <1>4 DEF TrackInv, TrackersAre

LEMMA OlderAre == ASSUME NEW s, Reports(s) PROVE Reports(Older(s))
<1> DEFINE o == Older(s)
           n == Len(s)
<1>1. n \in Nat /\ DOMAIN s = 1..n /\ \A i \in 1..n : s[i] \in Report
  BY LenProperties, ElementOfSeq DEF Reports
<1>2. MaxAge \in Nat
  BY TrackerConstants DEF MaxAge
<1> HIDE DEF n
<1>3. \A i \in 1..n : /\ o[i] \in Report
                      /\ o[i].age = IF s[i].age > MaxAge THEN s[i].age ELSE s[i].age + 1
  BY <1>1 DEF Older, Report
<1>4. o \in [1..n -> Report]
  BY <1>1, <1>3 DEF Older
<1> HIDE DEF o
<1>5. o \in Seq(Report) /\ Len(o) = n
  <2>1. o \in Seq(Report)
    BY <1>1, <1>4, SeqDef
  <2>2. DOMAIN o = 1..n
    BY <1>4
  <2> QED
    BY <1>1, <2>1, <2>2, LenProperties
<1>6. Aging(o)
  <2> SUFFICES ASSUME NEW i \in 2..n PROVE o[i].age <= o[i - 1].age
    BY <1>5 DEF Aging
  <2>1. i \in 1..n /\ i - 1 \in 1..n
    BY <1>1
  <2>2. s[i].age \in Nat /\ s[i - 1].age \in Nat
    BY <1>1, <2>1 DEF Report
  <2>3. s[i].age <= s[i - 1].age
    BY DEF Reports, Aging, n
  <2>4. o[i].age = (IF s[i].age > MaxAge THEN s[i].age ELSE s[i].age + 1)
        /\ o[i - 1].age = (IF s[i - 1].age > MaxAge THEN s[i - 1].age ELSE s[i - 1].age + 1)
    BY <1>3, <2>1
  <2> QED
    BY <1>2, <2>2, <2>3, <2>4
<1> QED
  BY <1>5, <1>6 DEF Reports, o, n

LEMMA TickKept == ASSUME TrackInv, TrackTick PROVE TrackInv'
<1>1. trackers' = [n \in TrackedNode |-> [trackers[n] EXCEPT !.reports = Older(@)]]
      /\ UNCHANGED <<telling, heard, changed>>
  BY DEF TrackTick
<1>2. ASSUME NEW n \in TrackedNode
      PROVE  /\ trackers'[n] \in [on : BOOLEAN, reports : Seq(Report), status : LoadStatus]
             /\ Reports(trackers'[n].reports) /\ trackers'[n].status = trackers[n].status
  <2>1. Reports(Older(trackers[n].reports))
    BY OlderAre DEF TrackInv, TrackersAre
  <2>2. Older(trackers[n].reports) \in Seq(Report)
    BY <2>1 DEF Reports
  <2> QED
    BY <1>1, <2>1, <2>2 DEF TrackInv, TrackersAre
<1>3. TrackersAre'
  BY <1>1, <1>2 DEF TrackersAre
<1>4. WordIsTrue'
  BY <1>1, <1>2 DEF TrackInv, WordIsTrue, Mute
<1> QED
  BY <1>1, <1>3, <1>4 DEF TrackInv

LEMMA TrackKept == TrackInv /\ [TrackNext]_trackVars => TrackInv'
<1> SUFFICES ASSUME TrackInv, [TrackNext]_trackVars PROVE TrackInv'
  OBVIOUS
<1>1. CASE UNCHANGED trackVars
  <2>1. UNCHANGED <<trackers, telling, heard, changed>>
    BY <1>1 DEF trackVars
  <2>2. TrackersAre'
    BY <2>1 DEF TrackInv, TrackersAre
  <2>3. WordIsTrue'
    BY <2>1 DEF TrackInv, WordIsTrue, Mute
  <2>4. /\ telling' \in Seq([node : TrackedNode, status : LoadStatus])
        /\ heard' \in [TrackedNode -> LoadStatus] /\ changed' \subseteq TrackedNode
    BY <2>1 DEF TrackInv
  <2> QED
    BY <2>2, <2>3, <2>4 DEF TrackInv
<1>2. CASE \E n \in TrackedNode : NodeRegistered(n) \/ NodeUnregistered(n)
  BY <1>2, RemadeKept DEF NodeRegistered, NodeUnregistered
<1>3. CASE TrackNext
  BY <1>2, <1>3, LoadKept, HeardKept, TickKept DEF TrackNext
<1> QED
  BY <1>1, <1>3

LEMMA NoneBest == ASSUME NEW N, N = {} PROVE BestOf(N) = {}
BY DEF BestOf

LEMMA AdviceIsOne == AdviceAgrees
<1> DEFINE alive == {n \in TrackedNode : Alive(n)}
           good == {n \in alive : ~Throttled(n)}
<1>1. ApiRecommends(FALSE) = BestOf(good)
  <2>1. good = {n \in TrackedNode : Alive(n) /\ (FALSE \/ ~Throttled(n))}
    OBVIOUS
  <2> HIDE DEF good
  <2> QED
    BY <2>1 DEF ApiRecommends
<1>2. SelectBest(FALSE) = BestOf(good)
  BY NoneBest DEF SelectBest
<1>3. BestOf(good) \subseteq good
  BY DEF BestOf
<1>4. SelectBest(TRUE) \subseteq alive
  BY DEF SelectBest, BestOf
<1>5. ASSUME NEW n \in TrackedNode, NEW m \in Recommended(n)
      PROVE  m # n /\ Alive(m) /\ (Throttled(m) => ApiRecommends(FALSE) = {})
  <2>1. ~(Alive(n) /\ ~Throttled(n))
    BY <1>5 DEF Recommended
  <2>2. CASE SelectBest(FALSE) # {}
    <3>1. m \in good
      BY <1>2, <1>3, <1>5, <2>1, <2>2 DEF Recommended
    <3> QED
      BY <2>1, <3>1
  <2>3. CASE SelectBest(FALSE) = {}
    <3>1. m \in SelectBest(TRUE) \ {n}
      BY <1>5, <2>1, <2>3 DEF Recommended
    <3> QED
      BY <1>1, <1>2, <1>4, <2>3, <3>1
  <2> QED
    BY <2>2, <2>3
<1> QED
  BY <1>1, <1>2, <1>5 DEF AdviceAgrees

LEMMA TrackPromises == TrackInv => TrackersHold
<1> SUFFICES ASSUME TrackInv PROVE TrackTypeOK /\ ListenerKnows
  BY AdviceIsOne DEF TrackersHold
<1>1. TrackTypeOK
  BY DEF TrackInv, TrackersAre, TrackTypeOK, Reports, Aging, LoadStatus
<1>2. ListenerKnows
  <2> SUFFICES ASSUME telling = <<>>, NEW n \in changed PROVE heard[n] = trackers[n].status
    BY DEF ListenerKnows
  <2>1. DOMAIN telling = {}
    OBVIOUS
  <2> QED
    BY <2>1 DEF TrackInv, WordIsTrue, Mute
<1> QED
  BY <1>1, <1>2

-----------------------------------------------------------------------------
(* FailoverDesk: no event lost, no batch torn or mixed.                    *)

InBatch(e) == \E n \in Name : e \in pending[n]
Settled(e) == e \in late \union decided \/ InBatch(e)

DeskData ==
  /\ target \in Seq(Target) /\ recent \union late \union batched \union decided \subseteq Event
  /\ pending \in [Name -> SUBSET Event] /\ shown \subseteq Name
  /\ run \in [on : BOOLEAN, events : SUBSET Event, left : SUBSET Target, awaits : SUBSET Name]

Broadcasts ==
  sending \in [Button -> [name : SUBSET Name, left : SUBSET Event, failed : Nat, sent : Nat]]

\* No run: nothing on the list is in a batch.  A run: the list is its events and those that
\* came late, and the events of the exits it has done are settled.
RunIs ==
  /\ ~run.on => run = NoRun /\ \A n \in Name : pending[n] \intersect recent = {}
  /\ run.on => recent \subseteq run.events \union late
  /\ run.on => \A e \in run.events : target[e] \in run.left \/ Settled(e)

DeskInv == DeskData /\ Broadcasts /\ RunIs /\ EventsAccounted /\ BatchesAreWhole

AllSettled == \A e \in Event : e \in recent \/ Settled(e)

LEMMA AccountedIs == EventsAccounted <=> AllSettled
BY DEF EventsAccounted, AllSettled, Settled, InBatch

LEMMA DeskStarts == DeskInit => DeskInv
<1> SUFFICES ASSUME DeskInit PROVE DeskInv
  OBVIOUS
<1>1. Event = {} /\ target \in Seq(Target)
  BY EmptySeq DEF DeskInit, Event
<1>2. DeskData /\ RunIs /\ EventsAccounted /\ BatchesAreWhole
  BY <1>1 DEF DeskInit, DeskData, RunIs, NoRun, EventsAccounted, BatchesAreWhole
<1>3. Broadcasts
  BY <1>1 DEF DeskInit, Broadcasts, NotSending
<1> QED
  BY <1>2, <1>3 DEF DeskInv

\* Nothing but the batches is touched, and an event that leaves them is decided.
LEMMA DroppedKeeps ==
  ASSUME DeskInv, NEW n \in Name, Dropped(n), UNCHANGED <<target, recent, run, late, batched>>,
         shown' \subseteq shown, Broadcasts'
  PROVE  DeskInv'
<1> USE DEF DeskInv
<1>1. Event' = Event
  BY DEF Event
<1>2. pending' \in [Name -> SUBSET Event] /\ pending'[n] = {}
      /\ \A m \in Name : m # n => pending'[m] = pending[m]
  BY DEF Dropped, DeskData
<1>3. decided' = decided \union pending[n] /\ pending[n] \subseteq Event
  BY DEF Dropped, DeskData
<1>4. ASSUME NEW e, Settled(e) PROVE Settled(e)'
  BY <1>2, <1>3, <1>4 DEF Settled, InBatch, Name
<1>5. DeskData'
  BY <1>1, <1>2, <1>3 DEF DeskData, Name
<1>6. RunIs'
  BY <1>2, <1>4 DEF RunIs, DeskData, NoRun, Name
<1>7. EventsAccounted'
  BY <1>1, <1>4, AccountedIs DEF AllSettled, EventsAccounted, Settled, InBatch
<1>8. BatchesAreWhole'
  <2> SUFFICES ASSUME NEW m \in Name, NEW e \in pending'[m]
               PROVE  target'[e] = m.to /\ (run'.on /\ e \in run'.events => Group(m.to)' \subseteq pending'[m])
    BY DEF BatchesAreWhole, Name
  <2>1. m # n /\ pending'[m] = pending[m] /\ Group(m.to)' = Group(m.to)
    BY <1>2 DEF Group
  <2> QED
    BY <2>1 DEF BatchesAreWhole
<1> QED
  BY <1>5, <1>6, <1>7, <1>8

LEMMA IgnoreKept ==
  ASSUME DeskInv, NEW n \in Name, BatchIgnored(n) PROVE DeskInv'
<1>1. Broadcasts'
  BY DEF BatchIgnored, DeskInv, Broadcasts, Event, Name
<1> QED
  BY <1>1, DroppedKeeps DEF BatchIgnored

\* A handler that sends to a batch: only its own progress moves.
LEMMA SendingKeeps ==
  ASSUME DeskInv, UNCHANGED <<target, recent, run, pending, shown, late, batched, decided>>,
         Broadcasts'
  PROVE  DeskInv'
<1>1. DeskData' /\ RunIs' /\ EventsAccounted' /\ BatchesAreWhole'
  BY DEF DeskInv, DeskData, RunIs, EventsAccounted, BatchesAreWhole, Event, Settled, InBatch,
         Group, NoRun, Name
<1> QED
  BY <1>1 DEF DeskInv

LEMMA BegunKept ==
  ASSUME DeskInv, NEW b \in Button, NEW n \in Name, BroadcastBegun(b, n) PROVE DeskInv'
<1>4. sending' = [sending EXCEPT ![b] = [name |-> {n}, left |-> pending[n], failed |-> 0, sent |-> 0]]
  BY DEF BroadcastBegun
<1>5. pending[n] \subseteq Event /\ Event' = Event
  BY DEF BroadcastBegun, DeskInv, DeskData, Event
<1>6. Broadcasts'
  BY <1>4, <1>5 DEF DeskInv, Broadcasts, Name
<1> QED
  BY <1>6, SendingKeeps DEF BroadcastBegun

LEMMA EndsKept ==
  ASSUME DeskInv, NEW b \in Button, NEW told \in BOOLEAN, BroadcastEnds(b, told) PROVE DeskInv'
<1>1. PICK n \in sending[b].name :
        /\ sending' = [sending EXCEPT ![b] = NotSending]
        /\ IF told THEN Dropped(n) /\ shown' = shown \ {n} ELSE UNCHANGED <<pending, decided, shown>>
        /\ UNCHANGED <<target, recent, run, late, batched>>
  BY DEF BroadcastEnds
<1>2. n \in Name
  BY DEF DeskInv, Broadcasts
<1>3. Broadcasts'
  BY <1>1 DEF DeskInv, Broadcasts, NotSending, Event, Name
<1>4. CASE told
  BY <1>1, <1>2, <1>3, <1>4, DroppedKeeps
<1>5. CASE ~told
  BY <1>1, <1>3, <1>5, SendingKeeps
<1> QED
  BY <1>4, <1>5

LEMMA ToldKept ==
  ASSUME DeskInv, NEW works \in BOOLEAN, AdminTold(works) PROVE DeskInv'
<1> USE DEF DeskInv
<1>1. /\ run.on' = run.on /\ run'.events = run.events /\ run'.left = run.left
      /\ run' \in [on : BOOLEAN, events : SUBSET Event, left : SUBSET Target, awaits : SUBSET Name]
      /\ run.on
  BY DEF AdminTold, DeskData, RunIs, NoRun
<1>2. Event' = Event /\ shown' \subseteq Name /\ Broadcasts'
  BY DEF AdminTold, DeskData, Event, Broadcasts, Name
<1>3. DeskData'
  BY <1>1, <1>2 DEF AdminTold, DeskData, Name
<1>4. RunIs' /\ EventsAccounted' /\ BatchesAreWhole'
  BY <1>1, <1>2 DEF AdminTold, RunIs, EventsAccounted, BatchesAreWhole, Settled, InBatch, Group, NoRun, Name
<1> QED
  BY <1>2, <1>3, <1>4

LEMMA StartsKept == ASSUME DeskInv, BatchRunStarts PROVE DeskInv'
<1> USE DEF DeskInv
<1> DEFINE L == {target[e] : e \in recent}
<1>1. run = NoRun /\ ~run.on
  BY DEF BatchRunStarts, RunIs
<1>2. L \subseteq Target /\ recent \subseteq Event
  <2>1. \A e \in Event : target[e] \in Target
    BY ElementOfSeq DEF DeskData, Event
  <2> QED
    BY <2>1 DEF DeskData
<1>7. run' = [on |-> TRUE, events |-> recent, left |-> L, awaits |-> {}]
  BY DEF BatchRunStarts
<1>8. Event' = Event /\ Broadcasts' /\ UNCHANGED <<target, recent, pending, shown, late, batched, decided>>
  BY DEF BatchRunStarts, Event, Broadcasts, Name
<1>9. DeskData'
  BY <1>2, <1>7, <1>8 DEF DeskData, Name
<1>10. RunIs'
  BY <1>7, <1>8 DEF RunIs
<1>11. EventsAccounted'
  BY <1>8 DEF EventsAccounted, Name
<1>12. BatchesAreWhole'
  BY <1>1, <1>7, <1>8 DEF BatchesAreWhole, RunIs, Name
<1> QED
  BY <1>8, <1>9, <1>10, <1>11, <1>12

LEMMA RunEndsKept == ASSUME DeskInv, BatchRunEnds PROVE DeskInv'
<1> USE DEF DeskInv
<1>1. Event' = Event /\ Broadcasts' /\ run' = NoRun /\ recent' = {}
      /\ UNCHANGED <<target, pending, shown, late, batched, decided>>
  BY DEF BatchRunEnds, Event, Broadcasts, Name
<1>2. DeskData'
  BY <1>1 DEF DeskData, NoRun, Name
<1>3. RunIs' /\ BatchesAreWhole'
  BY <1>1 DEF RunIs, BatchesAreWhole, NoRun, Name
<1>4. AllSettled'
  <2> SUFFICES ASSUME NEW e \in Event PROVE Settled(e)'
    BY <1>1 DEF AllSettled
  <2>1. Settled(e)
    BY AccountedIs DEF AllSettled, BatchRunEnds, RunIs, Settled
  <2> QED
    BY <1>1, <2>1 DEF Settled, InBatch, Name
<1>5. EventsAccounted'
  BY <1>4 DEF AllSettled, EventsAccounted, Settled, InBatch
<1> QED
  BY <1>1, <1>2, <1>3, <1>5

LEMMA ReportKept ==
  ASSUME DeskInv, NEW x \in Target, EventReported(x) PROVE DeskInv'
<1> USE DEF DeskInv
<1> DEFINE e == Len(target) + 1
<1>1. /\ target' \in Seq(Target) /\ Event = 1..Len(target) /\ Event' = 1..(Len(target) + 1)
      /\ Len(target) \in Nat /\ \A i \in Event : target'[i] = target[i]
  <2>1. target \in Seq(Target) /\ target' = Append(target, x)
    BY DEF EventReported, DeskData
  <2>2. /\ target' \in Seq(Target) /\ Len(target') = Len(target) + 1 /\ Len(target) \in Nat
        /\ \A i \in 1..Len(target) : target'[i] = target[i]
    BY <2>1, AppendProperties, LenProperties
  <2>3. DOMAIN target = 1..Len(target) /\ DOMAIN target' = 1..Len(target')
    BY <2>1, <2>2, LenProperties
  <2> QED
    BY <2>2, <2>3 DEF Event
<1>2. Event \subseteq Event' /\ e \in Event' /\ e \notin Event /\ \A i \in Event' : i \in Event \/ i = e
  BY <1>1
<1>3. /\ recent' = recent \union {e} /\ late' = (IF run.on THEN late \union {e} ELSE late)
      /\ UNCHANGED <<run, pending, shown, sending, batched, decided>>
  BY DEF EventReported
<1> HIDE DEF e
<1>4. ASSUME NEW i, Settled(i) PROVE Settled(i)'
  BY <1>3, <1>4 DEF Settled, InBatch, Name
<1>5. DeskData'
  BY <1>1, <1>2, <1>3 DEF DeskData, Name
<1>6. Broadcasts'
  BY <1>2, <1>3 DEF Broadcasts, Name
<1>7. RunIs'
  BY <1>1, <1>2, <1>3, <1>4 DEF RunIs, DeskData, NoRun, Name
<1>8. AllSettled'
  BY <1>2, <1>3, <1>4, AccountedIs DEF AllSettled
<1>9. EventsAccounted'
  BY <1>8 DEF AllSettled, EventsAccounted, Settled, InBatch
<1>10. BatchesAreWhole'
  <2> SUFFICES ASSUME NEW m \in Name, NEW i \in pending[m]
               PROVE  target'[i] = m.to /\ (run.on /\ i \in run.events => Group(m.to)' \subseteq pending[m])
    BY <1>3 DEF BatchesAreWhole, Name
  <2>1. i \in Event /\ target'[i] = target[i]
    BY <1>1 DEF DeskData
  <2>2. Group(m.to)' = Group(m.to)
    BY <1>1, <1>3 DEF Group, DeskData
  <2> QED
    BY <2>1, <2>2 DEF BatchesAreWhole
<1> QED
  BY <1>5, <1>6, <1>7, <1>9, <1>10

LEMMA MadeKept == ASSUME DeskInv, BatchMade PROVE DeskInv'
<1> USE DEF DeskInv
<1>1. PICK n \in Name :
        /\ run.on /\ run.awaits = {} /\ n.to \in run.left
        /\ pending' = [pending EXCEPT ![n] = Group(n.to)]
        /\ batched' = batched \union Group(n.to) /\ decided' = decided \union pending[n]
        /\ shown' = shown \ {n}
        /\ run' = [run EXCEPT !.left = @ \ {n.to}, !.awaits = {n}]
        /\ UNCHANGED <<target, recent, sending, late>>
  BY DEF BatchMade
<1> DEFINE R == [on : BOOLEAN, events : SUBSET Event, left : SUBSET Target, awaits : SUBSET Name]
           r == [run EXCEPT !.left = @ \ {n.to}]
<1>2. r \in R /\ r.on = run.on /\ r.events = run.events /\ r.left = run.left \ {n.to}
  BY DEF DeskData
<1> HIDE DEF r
<1> DEFINE q == [r EXCEPT !.awaits = {n}]
<1>3. q \in R /\ q.on = r.on /\ q.events = r.events /\ q.left = r.left
  BY <1>2
<1>4. run' = q
  BY <1>1, Zenon DEF r
<1> HIDE DEF q
<1>5. run' \in R /\ run'.on = run.on /\ run'.events = run.events /\ run'.left = run.left \ {n.to}
  BY <1>2, <1>3, <1>4
<1>6. Event' = Event /\ Broadcasts'
  BY <1>1 DEF Event, Broadcasts, Name
<1>7. Group(n.to) \subseteq Event /\ pending[n] \subseteq Event
  BY DEF Group, DeskData
<1>8. pending' \in [Name -> SUBSET Event] /\ pending'[n] = Group(n.to)
      /\ \A m \in Name : m # n => pending'[m] = pending[m]
  BY <1>1, <1>7 DEF DeskData
<1>9. DeskData'
  BY <1>1, <1>5, <1>6, <1>7, <1>8 DEF DeskData, Name
<1>10. ASSUME NEW e, Settled(e) PROVE Settled(e)'
  BY <1>1, <1>8, <1>10 DEF Settled, InBatch, Name
<1>11. \A e \in Group(n.to) : Settled(e)'
  BY <1>8 DEF Settled, InBatch, Name
<1>12. RunIs'
  <2>1. ASSUME NEW e \in run.events PROVE target[e] \in run'.left \/ Settled(e)'
    <3>1. CASE target[e] = n.to
      BY <3>1, <1>11 DEF Group
    <3>2. CASE target[e] # n.to
      BY <3>2, <1>1, <1>5, <1>10 DEF RunIs
    <3> QED
      BY <3>1, <3>2
  <2> QED
    BY <2>1, <1>1, <1>5 DEF RunIs
<1>13. AllSettled'
  BY <1>1, <1>6, <1>10, AccountedIs DEF AllSettled
<1>14. EventsAccounted'
  BY <1>13 DEF AllSettled, EventsAccounted, Settled, InBatch
<1>15. BatchesAreWhole'
  <2> SUFFICES ASSUME NEW m \in Name, NEW e \in pending'[m]
               PROVE  target'[e] = m.to /\ (run'.on /\ e \in run'.events => Group(m.to)' \subseteq pending'[m])
    BY DEF BatchesAreWhole, Name
  <2>1. Group(m.to)' = Group(m.to) /\ run'.events = run.events /\ run'.on = run.on /\ target' = target
    BY <1>1, <1>5 DEF Group
  <2>2. CASE m = n
    BY <2>1, <2>2, <1>8 DEF Group
  <2>3. CASE m # n
    BY <2>1, <2>3, <1>8 DEF BatchesAreWhole
  <2> QED
    BY <2>2, <2>3
<1> QED
  BY <1>6, <1>9, <1>12, <1>14, <1>15

LEMMA MessagedKept ==
  ASSUME DeskInv, NEW b \in Button, NEW works \in BOOLEAN, UserMessaged(b, works) PROVE DeskInv'
<1> USE DEF DeskInv
<1>1. PICK e \in sending[b].left :
        /\ sending' = [sending EXCEPT ![b].left = @ \ {e},
                                      ![b].sent = IF works THEN @ + 1 ELSE @,
                                      ![b].failed = IF works THEN @ ELSE @ + 1]
        /\ UNCHANGED <<target, recent, run, pending, shown, late, batched, decided>>
  BY DEF UserMessaged
<1> DEFINE s1 == [sending EXCEPT ![b].left = @ \ {e}]
           s2 == [s1 EXCEPT ![b].sent = IF works THEN @ + 1 ELSE @]
           s3 == [s2 EXCEPT ![b].failed = IF works THEN @ ELSE @ + 1]
           S == [Button -> [name : SUBSET Name, left : SUBSET Event, failed : Nat, sent : Nat]]
<1>2. s1 \in S
  BY DEF Broadcasts
<1> HIDE DEF s1
<1>3. s2 \in S
  BY <1>2
<1> HIDE DEF s2
<1>4. s3 \in S
  BY <1>3
<1>5. sending' = s3
  BY <1>1, Zenon DEF s1, s2, s3
<1>6. Broadcasts'
  BY <1>1, <1>4, <1>5 DEF Broadcasts, Event, Name
<1> QED
  BY <1>1, <1>6, SendingKeeps

LEMMA DeskKept == DeskInv /\ [DeskNext]_deskVars => DeskInv'
<1> SUFFICES ASSUME DeskInv, [DeskNext]_deskVars PROVE DeskInv'
  OBVIOUS
<1>1. CASE UNCHANGED deskVars
  BY <1>1 DEF deskVars, DeskInv, DeskData, Broadcasts, RunIs, EventsAccounted, BatchesAreWhole,
              Event, Settled, InBatch, Group, NoRun, Name
<1>2. CASE DeskNext
  BY <1>2, ReportKept, StartsKept, MadeKept, ToldKept, RunEndsKept, IgnoreKept, BegunKept,
     EndsKept, MessagedKept DEF DeskNext, BatchRunMoves
<1> QED
  BY <1>1, <1>2

LEMMA DeskPromises == DeskInv => DeskHolds
<1> SUFFICES ASSUME DeskInv PROVE DeskTypeOK
  BY DEF DeskInv, DeskHolds
<1>1. run.events \union UNION {sending[b].left : b \in Button} \subseteq Event
  BY DEF DeskInv, DeskData, Broadcasts
<1> QED
  BY <1>1 DEF DeskInv, DeskData, DeskTypeOK

-----------------------------------------------------------------------------
(* HermesGuard: the models it writes, and what it lets nobody forget.      *)

MaybeModel == GuardModel \union {NoModel}
Yamls == [primary : GuardModel, chain : Seq(GuardModel), text : MaybeModel, vision : MaybeModel]
States == [GuardModel -> Verdict \union {"unseen"}]

GuardData ==
  /\ price \in [GuardModel -> Verdict] /\ yaml \in Yamls
  /\ outdated \in BOOLEAN /\ rewriteTold \in BOOLEAN /\ unsaved \in BOOLEAN
  /\ saved \in [states : States, owed : 0..MaxDefer] /\ misses \subseteq GuardModel
  /\ guard \in [at : {"idle", "restart", "deliver"}, sighted : BOOLEAN, states : States,
                owed : 0..MaxDefer, news : BOOLEAN]

\* What the state on disk calls missing was missing in the run that saved it; a run in
\* progress carries what it saw, or what was saved before.
MissesKnown ==
  /\ \A m \in GuardModel : saved.states[m] = "missing" => m \in misses
  /\ guard.at # "idle" /\ guard.sighted =>
       \A m \in GuardModel : guard.states[m] = "missing" => price[m] = "missing"
  /\ guard.at # "idle" /\ ~guard.sighted => guard.states = saved.states

\* An old process is known between runs, and at the end of a run it is about to be.
OldIsKnown ==
  /\ OldProcessIsKnown
  /\ guard.at = "deliver" /\ outdated => guard.owed > 0 \/ rewriteTold \/ unsaved \/ guard.news

GuardInv == GuardData /\ MissesKnown /\ OldIsKnown

-----------------------------------------------------------------------------
\* A list of models, by its members.
Models(s, S) == s \in Seq(GuardModel) /\ ToSet(s) = S

LEMMA InSeqIs == ASSUME NEW s \in Seq(GuardModel) PROVE InSeq(s) = ToSet(s)
BY ListIs DEF InSeq

LEMMA KeptOf ==
  ASSUME NEW s \in Seq(GuardModel), NEW S
  PROVE  Models(Keep(s, S), ToSet(s) \intersect S)
BY KeepIs DEF Models

\* The first of a list, or something else.
LEMMA FirstOf ==
  ASSUME NEW s \in Seq(GuardModel), NEW m
  PROVE  /\ FirstOr(s, m) \in ToSet(s) \union {m}
         /\ ToSet(s) # {} => FirstOr(s, m) \in ToSet(s)
<1>1. CASE s = <<>>
  <2>1. ToSet(s) = {}
    BY <1>1 DEF ToSet
  <2> QED
    BY <1>1, <2>1 DEF FirstOr
<1>2. CASE s # <<>>
  BY <1>2, FirstIsIn DEF FirstOr
<1> QED
  BY <1>1, <1>2

LEMMA FreeAre == FreeModels \subseteq GuardModel /\ \A m : m \in FreeModels => IsFree(m)
BY DEF FreeModels

LEMMA CandidatesAre ==
  ASSUME NEW W
  PROVE  Models(LiveCandidates(W), ToSet(Curated) \intersect (FreeModels \ W))
BY KeptOf, GuardConstants DEF LiveCandidates

\* The winner is a free model of the chain or of the list, if there is one.
LEMMA WinnerIs ==
  ASSUME GuardData
  PROVE  /\ Winner \in FreeModels \union {NoModel}
         /\ Winner # NoModel \/ ToSet(yaml.chain) \intersect FreeModels = {}
         /\ Winner # NoModel \/ ToSet(Curated) \intersect (FreeModels \ {yaml.primary}) = {}
         /\ Winner # NoModel => \/ ToSet(yaml.chain) \intersect FreeModels # {}
                                \/ ToSet(Curated) \intersect (FreeModels \ {yaml.primary}) # {}
<1> DEFINE k == Keep(yaml.chain, FreeModels)
           c == LiveCandidates({yaml.primary})
           d == FirstOr(c, NoModel)
<1>1. yaml.chain \in Seq(GuardModel)
  BY DEF GuardData, Yamls
<1>2. Models(k, ToSet(yaml.chain) \intersect FreeModels)
  BY <1>1, KeptOf
<1>3. Models(c, ToSet(Curated) \intersect (FreeModels \ {yaml.primary}))
  BY CandidatesAre
<1>4. Winner = FirstOr(k, d)
  BY DEF Winner
<1> HIDE DEF k, c, d
<1>5. d \in ToSet(c) \union {NoModel} /\ (ToSet(c) # {} => d \in ToSet(c))
  BY <1>3, FirstOf DEF Models, d
<1>6. Winner \in ToSet(k) \union {d} /\ (ToSet(k) # {} => Winner \in ToSet(k))
  BY <1>2, <1>4, FirstOf DEF Models
<1>7. NoModel \notin FreeModels
  BY GuardConstants, FreeAre
<1> QED
  BY <1>2, <1>3, <1>5, <1>6, <1>7 DEF Models

\* What the chain keeps: all but the dead and the one that is promoted.
Gone == IF Promotes THEN {Winner} ELSE {}

LEMMA KeptIs ==
  ASSUME GuardData
  PROVE  /\ Models(KeptChain, {m \in ToSet(yaml.chain) : ~Dead(m)} \ Gone)
         /\ ToSet(yaml.chain) \subseteq GuardModel
<1> DEFINE S == {m \in GuardModel : ~Dead(m)} \ Gone
<1>1. yaml.chain \in Seq(GuardModel) /\ ToSet(yaml.chain) \subseteq GuardModel
  BY ListIs DEF GuardData, Yamls
<1>2. KeptChain = Keep(yaml.chain, S)
  BY DEF KeptChain, Gone
<1> HIDE DEF S
<1>3. Models(KeptChain, ToSet(yaml.chain) \intersect S)
  BY <1>1, <1>2, KeptOf
<1>4. ToSet(yaml.chain) \intersect S = {m \in ToSet(yaml.chain) : ~Dead(m)} \ Gone
  BY <1>1 DEF S
<1> QED
  BY <1>1, <1>3, <1>4

More == LiveCandidates(InSeq(KeptChain) \union {NewPrimary, yaml.primary})
Cut == Promotes \/ KeptChain # yaml.chain

\* The chain as written: what is kept, with free models behind it; if it was cut and nothing
\* free is left in it, with one at least.
LEMMA NewChainIs ==
  ASSUME GuardData
  PROVE  /\ NewChain \in Seq(GuardModel)
         /\ ToSet(KeptChain) \subseteq ToSet(NewChain)
         /\ ToSet(NewChain) \subseteq ToSet(KeptChain) \union FreeModels
         /\ ~Cut => NewChain = KeptChain
         /\ Cut /\ ToSet(More) # {} => ToSet(NewChain) \intersect FreeModels # {}
<1> DEFINE room == MinFree - Len(Keep(KeptChain, FreeModels))
           l == IF room < Len(More) THEN room ELSE Len(More)
           top == SubSeq(More, 1, l)
<1>1. KeptChain \in Seq(GuardModel) /\ Models(More, ToSet(More)) /\ ToSet(More) \subseteq FreeModels
  BY KeptIs, CandidatesAre DEF Models, More
<1>2. NewChain = IF Cut /\ room > 0 THEN KeptChain \o top ELSE KeptChain
  BY DEF NewChain, Cut, More
<1>3. /\ Keep(KeptChain, FreeModels) \in Seq(GuardModel)
      /\ ToSet(Keep(KeptChain, FreeModels)) = ToSet(KeptChain) \intersect FreeModels
  BY <1>1, KeptOf DEF Models
<1>4. Len(Keep(KeptChain, FreeModels)) \in Nat /\ MinFree \in Nat /\ MinFree >= 1
  BY <1>3, GuardConstants, LenProperties
<1>5. room \in Int /\ Len(More) \in Nat /\ More \in Seq(GuardModel) /\ DOMAIN More = 1..Len(More)
  BY <1>1, <1>4, LenProperties DEF Models
<1>6. l \in Int /\ l <= Len(More)
  BY <1>5
<1>7. /\ top \in Seq(GuardModel) /\ \A i \in 1..l : top[i] = More[i]
      /\ Len(top) = IF 1 <= l THEN l ELSE 0
  <2>1. \A i \in 1..l : More[i] \in GuardModel
    BY <1>5, <1>6, ElementOfSeq
  <2>2. 1 \in Int
    OBVIOUS
  <2> HIDE DEF l
  <2>3. /\ SubSeq(More, 1, l) \in Seq(GuardModel)
        /\ Len(SubSeq(More, 1, l)) = IF 1 <= l THEN l - 1 + 1 ELSE 0
        /\ \A i \in 1..(l - 1 + 1) : SubSeq(More, 1, l)[i] = More[1 + i - 1]
    BY <1>6, <2>1, <2>2, SubSeqProperties
  <2>4. l - 1 + 1 = l /\ \A i \in 1..l : 1 + i - 1 = i
    BY <1>6
  <2> QED
    BY <2>3, <2>4
<1> HIDE DEF l, room
<1>8. ToSet(top) \subseteq ToSet(More)
  <2> HIDE DEF top
  <2> SUFFICES ASSUME NEW x \in ToSet(top) PROVE x \in ToSet(More)
    OBVIOUS
  <2>1. PICK i \in DOMAIN top : top[i] = x
    BY <1>7, ListIs
  <2>2. i \in 1..l /\ i \in DOMAIN More
    BY <1>5, <1>6, <1>7, <2>1, LenProperties
  <2> QED
    BY <1>5, <1>7, <2>1, <2>2, ListIs
<1>9. CASE Cut /\ room > 0
  <2> HIDE DEF top
  <2>1. NewChain \in Seq(GuardModel) /\ ToSet(NewChain) = ToSet(KeptChain) \union ToSet(top)
    BY <1>1, <1>2, <1>7, <1>9, ConcatIs
  <2>2. ASSUME ToSet(More) # {} PROVE ToSet(top) # {}
    <3>1. Len(More) >= 1
      BY <1>5, <2>2, ListIs
    <3>2. l >= 1
      BY <1>5, <1>9, <3>1 DEF l
    <3>3. 1 \in DOMAIN top
      BY <1>6, <1>7, <3>2, LenProperties
    <3> QED
      BY <1>7, <3>3, ListIs
  <2> QED
    BY <1>1, <1>8, <1>9, <2>1, <2>2
<1>10. CASE ~(Cut /\ room > 0)
  <2>1. NewChain = KeptChain
    BY <1>2, <1>10
  <2>2. ASSUME Cut PROVE ToSet(KeptChain) \intersect FreeModels # {}
    <3>1. room <= 0
      BY <1>5, <1>10, <2>2
    <3>2. Len(Keep(KeptChain, FreeModels)) >= 1
      BY <1>4, <3>1 DEF room
    <3>3. 1 \in DOMAIN Keep(KeptChain, FreeModels)
      BY <1>3, <1>4, <3>2, LenProperties
    <3> QED
      BY <1>3, <3>3, ListIs
  <2> QED
    BY <1>1, <2>1, <2>2
<1> QED
  BY <1>9, <1>10

-----------------------------------------------------------------------------
\* The primary that is written: the winner, or the present one.
LEMMA PrimaryIs ==
  ASSUME GuardData, ~NothingFree
  PROVE  /\ NewPrimary \in GuardModel /\ ~Dead(NewPrimary)
         /\ Promotes => Winner \in FreeModels /\ Dead(yaml.primary)
         /\ NewPrimary # yaml.primary => Promotes
         /\ ~Promotes /\ ~IsFree(yaml.primary) => Winner # NoModel
<1>1. yaml.primary \in GuardModel /\ NoModel \notin GuardModel
  BY GuardConstants DEF GuardData, Yamls
<1>2. ~IsFree(yaml.primary) => Winner \in FreeModels
  BY WinnerIs DEF NothingFree
<1>3. \A m \in FreeModels : m \in GuardModel /\ ~Dead(m) /\ m # NoModel
  BY <1>1, FreeAre DEF Dead
<1> QED
  BY <1>1, <1>2, <1>3 DEF NewPrimary, Promotes, Dead

\* Where a side task goes when its model is dead: to a model that is free, and there is one
\* as soon as anything is rewritten.
LEMMA TargetsAre ==
  ASSUME GuardData, ~NothingFree
  PROVE  /\ TextTarget \in FreeModels \union {NoModel}
         /\ VisionTarget \in FreeModels \union {NoModel, TextTarget}
         /\ TextTarget # NoModel => VisionTarget # NoModel
         /\ Cut => TextTarget # NoModel
<1> DEFINE k == Keep(NewChain, FreeModels)
           sees == FreeModels \intersect SeesImages
           all == <<NewPrimary>> \o NewChain
           a == Keep(all, sees)
           b == Keep(Curated, sees)
           e == FirstOr(b, TextTarget)
<1>1. NewChain \in Seq(GuardModel) /\ NewPrimary \in GuardModel /\ NoModel \notin FreeModels
  BY NewChainIs, PrimaryIs, GuardConstants, FreeAre
<1>2. Models(k, ToSet(NewChain) \intersect FreeModels)
  BY <1>1, KeptOf
<1>3. NewPrimary \in FreeModels <=> IsFree(NewPrimary)
  BY <1>1 DEF FreeModels
<1>4. TextTarget = IF IsFree(NewPrimary) THEN NewPrimary ELSE FirstOr(k, NoModel)
  BY DEF TextTarget
<1>5. all \in Seq(GuardModel)
  <2>1. <<NewPrimary>> \in Seq(GuardModel)
    BY <1>1
  <2> QED
    BY <1>1, <2>1, ConcatProperties
<1>6. VisionTarget = FirstOr(a, e)
  BY DEF VisionTarget
<1> HIDE DEF all, k
<1>7. Models(a, ToSet(all) \intersect sees) /\ Models(b, ToSet(Curated) \intersect sees)
  BY <1>5, KeptOf, GuardConstants
<1> HIDE DEF a, b
<1>8. FirstOr(k, NoModel) \in ToSet(k) \union {NoModel} /\ (ToSet(k) # {} => FirstOr(k, NoModel) \in ToSet(k))
  BY <1>2, FirstOf DEF Models
<1>9. TextTarget \in FreeModels \union {NoModel}
  BY <1>2, <1>3, <1>4, <1>8 DEF Models
<1>10. e \in ToSet(b) \union {TextTarget}
  BY <1>7, FirstOf DEF Models
<1> HIDE DEF e
<1>11. VisionTarget \in ToSet(a) \union {e}
  BY <1>6, <1>7, FirstOf DEF Models
<1>12. VisionTarget \in FreeModels \union {TextTarget}
  BY <1>7, <1>10, <1>11 DEF Models
<1>13. ASSUME Cut, ~IsFree(NewPrimary) PROVE ToSet(NewChain) \intersect FreeModels # {}
  <2>1. ~Promotes
    <3>1. Promotes => NewPrimary \in FreeModels
      BY PrimaryIs DEF NewPrimary
    <3> QED
      BY <1>3, <1>13, <3>1
  <2>2. NewPrimary = yaml.primary /\ Winner # NoModel
    BY <1>13, <2>1, PrimaryIs
  <2>3. CASE ToSet(yaml.chain) \intersect FreeModels # {}
    <3>1. PICK m \in ToSet(yaml.chain) : m \in FreeModels
      BY <2>3
    <3>2. ~Dead(m)
      BY <3>1, FreeAre DEF Dead
    <3>3. m \in ToSet(KeptChain)
      BY <2>1, <3>1, <3>2, KeptIs DEF Models, Gone
    <3> QED
      BY <3>1, <3>3, NewChainIs
  <2>4. CASE ToSet(yaml.chain) \intersect FreeModels = {}
    <3>1. ToSet(Curated) \intersect (FreeModels \ {yaml.primary}) # {}
      BY <2>2, <2>4, WinnerIs
    <3>2. ToSet(KeptChain) \intersect FreeModels = {} /\ InSeq(KeptChain) = ToSet(KeptChain)
      BY <2>4, KeptIs, InSeqIs DEF Models
    <3>3. ToSet(More) = ToSet(Curated) \intersect (FreeModels \ (InSeq(KeptChain) \union {NewPrimary, yaml.primary}))
      BY CandidatesAre DEF More, Models
    <3>4. ToSet(More) # {}
      BY <2>2, <3>1, <3>2, <3>3
    <3> QED
      BY <1>13, <3>4, NewChainIs
  <2> QED
    BY <2>3, <2>4
<1>14. Cut => TextTarget # NoModel
  BY <1>1, <1>2, <1>3, <1>4, <1>8, <1>13 DEF Models
<1> QED
  BY <1>1, <1>9, <1>12, <1>14

\* Nothing cut, nothing promoted: the primary and the chain stay.
LEMMA UncutStays ==
  ASSUME GuardData, ~Cut
  PROVE  NewPrimary = yaml.primary /\ NewChain = yaml.chain
BY NewChainIs DEF Cut, NewPrimary

\* What a rewrite puts in: no model of it is dead, and who left was dead.
LEMMA RepairIs ==
  ASSUME GuardData
  PROVE  /\ Repaired \in Yamls
         /\ Repaired # yaml => \A m \in UsedBy(Repaired) : m \in GuardModel /\ ~Dead(m)
         /\ \A m \in UsedBy(yaml) \ UsedBy(Repaired) : m \in GuardModel /\ Dead(m)
<1>0. yaml \in Yamls
  BY DEF GuardData
<1>1. CASE NothingFree
  BY <1>0, <1>1 DEF Repaired
<1>2. CASE ~NothingFree
  <2> DEFINE t == Repinned(yaml.text, TextTarget)
             v == Repinned(yaml.vision, VisionTarget)
  <2>1. Repaired = [primary |-> NewPrimary, chain |-> NewChain, text |-> t, vision |-> v]
    BY <1>2 DEF Repaired
  <2>2. /\ NewPrimary \in GuardModel /\ ~Dead(NewPrimary) /\ NewChain \in Seq(GuardModel)
        /\ FreeModels \subseteq GuardModel /\ \A m \in FreeModels : ~Dead(m)
        /\ yaml.text \in MaybeModel /\ yaml.vision \in MaybeModel /\ yaml.primary \in GuardModel
    BY <1>0, <1>2, PrimaryIs, NewChainIs, FreeAre DEF Yamls, Dead
  <2>3. /\ TextTarget \in FreeModels \union {NoModel}
        /\ VisionTarget \in FreeModels \union {NoModel}
        /\ TextTarget # NoModel => VisionTarget # NoModel
        /\ Cut => TextTarget # NoModel
    BY <1>2, TargetsAre
  <2>4. t \in MaybeModel /\ v \in MaybeModel
    BY <2>2, <2>3 DEF Repinned, MaybeModel
  <2>5. /\ TextTarget = NoModel => t = yaml.text /\ v = yaml.vision
        /\ TextTarget # NoModel => (Dead(t) => t = NoModel) /\ (Dead(v) => v = NoModel)
        /\ (t # yaml.text => Dead(yaml.text)) /\ (v # yaml.vision => Dead(yaml.vision))
    BY <2>2, <2>3 DEF Repinned
  <2>6. \A m \in ToSet(NewChain) : m \in GuardModel /\ ~Dead(m)
    BY <2>2, KeptIs, NewChainIs DEF Models
  <2>7. InSeq(NewChain) = ToSet(NewChain) /\ InSeq(yaml.chain) = ToSet(yaml.chain)
        /\ ToSet(yaml.chain) \subseteq GuardModel
    BY <1>0, <2>2, InSeqIs, KeptIs DEF Yamls
  <2>8. /\ UsedBy(Repaired) = ({NewPrimary, t, v} \union ToSet(NewChain)) \ {NoModel}
        /\ UsedBy(yaml) = ({yaml.primary, yaml.text, yaml.vision} \union ToSet(yaml.chain)) \ {NoModel}
    BY <2>1, <2>7 DEF UsedBy
  <2> HIDE DEF t, v
  <2>9. Repaired \in Yamls
    BY <2>1, <2>2, <2>4 DEF Yamls
  <2>10. ASSUME Repaired # yaml PROVE TextTarget # NoModel
    <3>1. CASE Cut
      BY <2>3, <3>1
    <3>2. CASE ~Cut
      <4>1. NewPrimary = yaml.primary /\ NewChain = yaml.chain
        BY <3>2, UncutStays
      <4>2. yaml = [primary |-> yaml.primary, chain |-> yaml.chain, text |-> yaml.text, vision |-> yaml.vision]
        BY <1>0 DEF Yamls
      <4> QED
        BY <2>1, <2>5, <2>10, <4>1, <4>2
    <3> QED
      BY <3>1, <3>2
  <2>11. ASSUME Repaired # yaml, NEW m \in UsedBy(Repaired) PROVE m \in GuardModel /\ ~Dead(m)
    BY <2>2, <2>4, <2>5, <2>6, <2>8, <2>10, <2>11 DEF MaybeModel
  <2>12. ASSUME NEW m \in UsedBy(yaml), m \notin UsedBy(Repaired) PROVE m \in GuardModel /\ Dead(m)
    <3>1. m \in GuardModel
      BY <2>2, <2>7, <2>8 DEF MaybeModel
    <3>2. CASE m = yaml.primary
      BY <1>2, <2>8, <2>12, <3>1, <3>2, PrimaryIs
    <3>3. CASE m = yaml.text \/ m = yaml.vision
      BY <2>5, <2>8, <2>12, <3>1, <3>3
    <3>4. CASE m \in ToSet(yaml.chain)
      <4>1. m # NewPrimary /\ m \notin ToSet(NewChain)
        BY <2>8, <2>12, <3>1
      <4>2. m \notin Gone
        BY <4>1 DEF Gone, NewPrimary
      <4> QED
        BY <3>1, <3>4, <4>1, <4>2, KeptIs, NewChainIs DEF Models
    <3> QED
      BY <2>8, <2>12, <3>2, <3>3, <3>4
  <2> QED
    BY <2>9, <2>11, <2>12
<1> QED
  BY <1>1, <1>2

\* Dead is without a price in no catalogue: it has one, or was missed before.
LEMMA DeadIs ==
  ASSUME GuardInv, NEW m \in GuardModel
  PROVE  /\ Dead(m) => price[m] = "paid" \/ (price[m] = "missing" /\ m \in misses)
         /\ ~Dead(m) => price[m] # "paid"
BY GuardConstants DEF GuardInv, GuardData, MissesKnown, Dead, IsFree, FirstMiss, Verdict

-----------------------------------------------------------------------------
LEMMA GuardStarts == GuardInit => GuardInv
<1> SUFFICES ASSUME GuardInit PROVE GuardInv
  OBVIOUS
<1>1. HandPicked \in GuardModel /\ Curated \in Seq(GuardModel) /\ Curated # <<>>
  BY GuardConstants
<1>2. Curated[1] \in GuardModel
  BY <1>1, FirstIsIn, ListIs
<1>3. <<Curated[1]>> \in Seq(GuardModel)
  BY <1>2
<1>4. yaml \in Yamls
  BY <1>1, <1>2, <1>3 DEF GuardInit, Yamls, MaybeModel
<1>5. 0 \in 0..MaxDefer
  BY GuardConstants
<1>6. NoStates \in States
  BY DEF NoStates, States
<1>7. GuardData
  BY <1>4, <1>5, <1>6 DEF GuardInit, GuardData, NoGuardRun, Verdict
<1>8. MissesKnown /\ OldIsKnown
  BY DEF GuardInit, MissesKnown, OldIsKnown, OldProcessIsKnown, NoGuardRun, NoStates
<1> QED
  BY <1>7, <1>8 DEF GuardInv

\* What the beginning of a run makes of the config.
LEMMA BeginIs ==
  ASSUME GuardInv, NEW sighted \in BOOLEAN, NEW writes \in BOOLEAN, RunBegins(sighted, writes)
  PROVE  /\ guard.at = "idle" /\ yaml' \in {yaml, Repaired}
         /\ GuardInv'
<1> DEFINE new == IF sighted THEN Repaired ELSE yaml
           s == IF sighted THEN StatesSeen ELSE saved.states
           a == IF (new # yaml /\ writes) \/ (new = yaml /\ saved.owed > 0) THEN "restart" ELSE "deliver"
<1>1. /\ guard.at = "idle"
      /\ guard' = [at |-> a, sighted |-> sighted, owed |-> saved.owed, news |-> new # yaml, states |-> s]
      /\ yaml' = IF writes THEN new ELSE yaml
      /\ outdated' = (outdated \/ yaml' # yaml)
      /\ rewriteTold' = (rewriteTold /\ yaml' = yaml)
      /\ UNCHANGED <<price, saved, misses, unsaved, priceMoves, guardFaults>>
  BY DEF RunBegins
<1>2. new \in Yamls
  BY RepairIs DEF GuardInv, GuardData
<1>3. s \in States /\ (sighted => \A m \in GuardModel : s[m] = "missing" => price[m] = "missing")
  BY DEF StatesSeen, States, GuardInv, GuardData
<1>4. ~sighted => s = saved.states
  OBVIOUS
<1>5. a \in {"restart", "deliver"}
      /\ (a = "deliver" => (new # yaml => ~writes) /\ (new = yaml => saved.owed <= 0))
  BY DEF GuardInv, GuardData
<1>6. yaml' \in {yaml, Repaired}
  BY <1>1
<1> HIDE DEF s, a, new
<1>7. GuardData'
  <2>1. yaml' \in Yamls
    BY <1>1, <1>2 DEF GuardInv, GuardData
  <2>2. (new # yaml) \in BOOLEAN /\ outdated' \in BOOLEAN /\ rewriteTold' \in BOOLEAN
    BY <1>1 DEF GuardInv, GuardData
  <2>3. guard' \in [at : {"idle", "restart", "deliver"}, sighted : BOOLEAN, states : States,
                    owed : 0..MaxDefer, news : BOOLEAN]
    BY <1>1, <1>3, <1>5, <2>2 DEF GuardInv, GuardData
  <2> QED
    BY <1>1, <2>1, <2>2, <2>3 DEF GuardInv, GuardData
<1>8. MissesKnown'
  BY <1>1, <1>3, <1>4, <1>5 DEF GuardInv, MissesKnown
<1>9. OldIsKnown'
  <2>1. guard'.at = a /\ guard'.owed = saved.owed /\ guard'.news = (new # yaml) /\ unsaved' = unsaved
    BY <1>1
  <2>2. OldProcessIsKnown'
    BY <1>5, <2>1 DEF OldProcessIsKnown
  <2>3. ASSUME a = "deliver", outdated'
        PROVE  saved.owed > 0 \/ rewriteTold' \/ unsaved \/ new # yaml
    <3>1. CASE new # yaml
      BY <3>1
    <3>2. CASE new = yaml
      <4>1. yaml' = yaml /\ outdated /\ rewriteTold' = rewriteTold
        BY <1>1, <2>3, <3>2 DEF GuardInv, GuardData
      <4> QED
        BY <1>1, <4>1 DEF GuardInv, OldIsKnown, OldProcessIsKnown
    <3> QED
      BY <3>1, <3>2
  <2> QED
    BY <2>1, <2>2, <2>3 DEF OldIsKnown
<1> QED
  BY <1>1, <1>6, <1>7, <1>8, <1>9 DEF GuardInv

LEMMA RestartKept ==
  ASSUME GuardInv, NEW inflight \in BOOLEAN, NEW works \in BOOLEAN, RestartOrDefer(inflight, works)
  PROVE  GuardInv'
<1> DEFINE defers == inflight /\ guard.owed < MaxDefer
           w == IF defers THEN Owed ELSE 0
           R == [at : {"idle", "restart", "deliver"}, sighted : BOOLEAN, states : States,
                 owed : 0..MaxDefer, news : BOOLEAN]
           g1 == [guard EXCEPT !.at = "deliver"]
           g2 == [g1 EXCEPT !.owed = w]
           g3 == [g2 EXCEPT !.news = @ \/ ~defers]
<1>1. /\ guard.at = "restart"
      /\ guard' = [guard EXCEPT !.at = "deliver", !.owed = w, !.news = @ \/ ~defers]
      /\ outdated' = (outdated /\ (defers \/ ~works))
      /\ unsaved' = (unsaved /\ (defers \/ ~works))
      /\ UNCHANGED <<price, yaml, saved, misses, rewriteTold, priceMoves, guardFaults>>
  BY DEF RestartOrDefer
<1>2. w \in 0..MaxDefer /\ (defers => w > 0)
  BY GuardConstants DEF Owed, GuardInv, GuardData
<1> HIDE DEF w, defers
<1>3. g1 \in R /\ g1.at = "deliver" /\ g1.sighted = guard.sighted /\ g1.states = guard.states
  BY DEF GuardInv, GuardData
<1> HIDE DEF g1
<1>4. g2 \in R /\ g2.at = "deliver" /\ g2.sighted = guard.sighted /\ g2.states = guard.states /\ g2.owed = w
  BY <1>2, <1>3
<1> HIDE DEF g2
<1>5. /\ g3 \in R /\ g3.at = "deliver" /\ g3.sighted = guard.sighted /\ g3.states = guard.states
      /\ g3.owed = w /\ (~defers => g3.news)
  BY <1>4
<1>6. guard' = g3
  BY <1>1, Zenon DEF g1, g2, g3
<1> HIDE DEF g3
<1>7. GuardData'
  <2>1. outdated' \in BOOLEAN /\ unsaved' \in BOOLEAN
    BY <1>1
  <2> QED
    BY <1>1, <1>5, <1>6, <2>1 DEF GuardInv, GuardData
<1>8. MissesKnown'
  BY <1>1, <1>5, <1>6 DEF GuardInv, MissesKnown
<1>9. OldIsKnown'
  BY <1>2, <1>5, <1>6 DEF OldIsKnown, OldProcessIsKnown
<1> QED
  BY <1>7, <1>8, <1>9 DEF GuardInv

LEMMA NoRunIs ==
  /\ NoGuardRun \in [at : {"idle", "restart", "deliver"}, sighted : BOOLEAN, states : States,
                     owed : 0..MaxDefer, news : BOOLEAN]
  /\ NoGuardRun.at = "idle"
<1>0. 0 \in 0..MaxDefer
  BY GuardConstants
<1>1. NoStates \in States
  BY DEF NoStates, States
<1> QED
  BY <1>0, <1>1 DEF NoGuardRun

LEMMA DeliverKept ==
  ASSUME GuardInv, NEW saves \in BOOLEAN, DeliverAndSave(saves) PROVE GuardInv'
<1>1. /\ guard.at = "deliver" /\ guard' = NoGuardRun /\ rewriteTold' = (rewriteTold \/ guard.news)
      /\ UNCHANGED <<price, yaml, outdated, priceMoves>>
  BY DEF DeliverAndSave
<1>2. CASE saves
  <2>1. /\ saved' = [states |-> guard.states, owed |-> guard.owed] /\ unsaved' = unsaved
        /\ misses' = IF guard.sighted THEN {m \in GuardModel : price[m] = "missing"} ELSE misses
    BY <1>2 DEF DeliverAndSave, StateSaved
  <2>2. GuardData'
    <3>1. rewriteTold' \in BOOLEAN
      BY <1>1 DEF GuardInv, GuardData
    <3>2. saved' \in [states : States, owed : 0..MaxDefer] /\ misses' \subseteq GuardModel
      BY <2>1 DEF GuardInv, GuardData
    <3> QED
      BY <1>1, <2>1, <3>1, <3>2, NoRunIs DEF GuardInv, GuardData
  <2>3. MissesKnown'
    BY <1>1, <2>1, NoRunIs DEF GuardInv, GuardData, MissesKnown
  <2>4. OldIsKnown'
    BY <1>1, <2>1, NoRunIs DEF GuardInv, GuardData, OldIsKnown, OldProcessIsKnown
  <2> QED
    BY <2>2, <2>3, <2>4 DEF GuardInv
<1>3. CASE ~saves
  <2>1. unsaved' = TRUE /\ UNCHANGED <<saved, misses>>
    BY <1>3 DEF DeliverAndSave
  <2>2. GuardData'
    <3>1. rewriteTold' \in BOOLEAN
      BY <1>1 DEF GuardInv, GuardData
    <3> QED
      BY <1>1, <2>1, <3>1, NoRunIs DEF GuardInv, GuardData
  <2>3. MissesKnown' /\ OldIsKnown'
    BY <1>1, <2>1, NoRunIs DEF GuardInv, GuardData, MissesKnown, OldIsKnown, OldProcessIsKnown
  <2> QED
    BY <2>2, <2>3 DEF GuardInv
<1> QED
  BY <1>2, <1>3

LEMMA PriceKept == ASSUME GuardInv, CatalogueMoves PROVE GuardInv'
<1>1. /\ guard.at = "idle" /\ price' \in [GuardModel -> Verdict]
      /\ UNCHANGED <<yaml, outdated, saved, guard, misses, rewriteTold, unsaved>>
  BY DEF CatalogueMoves, GuardInv, GuardData
<1>2. GuardData'
  BY <1>1 DEF GuardInv, GuardData
<1>3. MissesKnown' /\ OldIsKnown'
  BY <1>1 DEF GuardInv, MissesKnown, OldIsKnown, OldProcessIsKnown
<1> QED
  BY <1>2, <1>3 DEF GuardInv

LEMMA RebootKept == ASSUME GuardInv, HostReboots PROVE GuardInv'
<1>1. /\ guard' = NoGuardRun /\ outdated' = FALSE /\ unsaved' = FALSE
      /\ UNCHANGED <<price, yaml, saved, misses, rewriteTold>>
  BY DEF HostReboots
<1>3. GuardData'
  BY <1>1, NoRunIs DEF GuardInv, GuardData
<1>4. MissesKnown' /\ OldIsKnown'
  BY <1>1, NoRunIs DEF GuardInv, MissesKnown, OldIsKnown, OldProcessIsKnown
<1> QED
  BY <1>3, <1>4 DEF GuardInv

LEMMA GuardKept == GuardInv /\ [GuardNext]_guardVars => GuardInv'
<1> SUFFICES ASSUME GuardInv, [GuardNext]_guardVars PROVE GuardInv'
  OBVIOUS
<1>1. CASE UNCHANGED guardVars
  <2>1. UNCHANGED <<price, yaml, outdated, saved, guard, misses, rewriteTold, unsaved>>
    BY <1>1 DEF guardVars
  <2>2. GuardData'
    BY <2>1 DEF GuardInv, GuardData
  <2>3. MissesKnown' /\ OldIsKnown'
    BY <2>1 DEF GuardInv, MissesKnown, OldIsKnown, OldProcessIsKnown
  <2> QED
    BY <2>2, <2>3 DEF GuardInv
<1>2. CASE GuardNext
  BY <1>2, BeginIs, RestartKept, DeliverKept, PriceKept, RebootKept DEF GuardNext, GuardRunMoves
<1> QED
  BY <1>1, <1>2

\* Only the beginning of a run rewrites the config.
LEMMA RewriteIs ==
  ASSUME GuardInv, [GuardNext]_guardVars, yaml' # yaml
  PROVE  yaml' = Repaired
BY BeginIs DEF GuardNext, GuardRunMoves, RestartOrDefer, DeliverAndSave, CatalogueMoves, HostReboots,
               guardVars

LEMMA RewritesAreGood ==
  ASSUME GuardInv, [GuardNext]_guardVars
  PROVE  /\ yaml' # yaml => \A m \in UsedBy(yaml') : price[m] # "paid"
         /\ \A m \in UsedBy(yaml) \ UsedBy(yaml') :
              price[m] = "paid" \/ (price[m] = "missing" /\ m \in misses)
<1>1. CASE yaml' = yaml
  BY <1>1
<1>2. CASE yaml' # yaml
  <2>1. yaml' = Repaired /\ Repaired # yaml
    BY <1>2, RewriteIs
  <2>2. GuardData
    BY DEF GuardInv
  <2> QED
    BY <2>1, <2>2, RepairIs, DeadIs
<1> QED
  BY <1>1, <1>2

LEMMA GuardTyped == GuardInv => GuardTypeOK
<1> SUFFICES ASSUME GuardInv PROVE GuardTypeOK
  OBVIOUS
<1>1. yaml \in Yamls /\ InSeq(yaml.chain) \subseteq GuardModel
  <2>1. yaml.chain \in Seq(GuardModel)
    BY DEF GuardInv, GuardData, Yamls
  <2> QED
    BY <2>1, InSeqIs, ListIs DEF GuardInv, GuardData
<1>2. UsedBy(yaml) \subseteq GuardModel
  BY <1>1 DEF UsedBy, Yamls, MaybeModel
<1>3. /\ {outdated, rewriteTold, unsaved} \subseteq BOOLEAN
      /\ {guard.news, guard.sighted} \subseteq BOOLEAN
  BY DEF GuardInv, GuardData
<1>4. /\ saved.states \in [GuardModel -> Verdict \union {"unseen"}] /\ saved.owed \in 0..MaxDefer
      /\ guard.at \in {"idle", "restart", "deliver"} /\ guard.owed \in 0..MaxDefer
      /\ price \in [GuardModel -> Verdict] /\ misses \subseteq GuardModel
  BY DEF GuardInv, GuardData, States
<1> QED
  BY <1>2, <1>3, <1>4 DEF GuardTypeOK

-----------------------------------------------------------------------------
(* Together.                                                               *)

\* The table, for any exits, tiers and users: a move leaves an exit that is not preferred for one
\* that is, never follows another within the cooldown, and is there while the primary or a fallback
\* stands ready (should_failover, execute_failover).
THEOREM MovesAreSound == RoutingSpec => RoutesHold
<1>1. RoutingInit => RoutesInv
  BY RoutesStart
<1>2. RoutesInv /\ [RoutingNext]_routingVars => RoutesInv'
  BY RoutesKept
<1>3. RoutesInv => RoutingTypeOK /\ BadExitLeft
  BY RoutesTyped
<1>4. RoutesInv /\ [RoutingNext]_routingVars =>
        [\A u \in RouteUser : routes'[u].moves > routes[u].moves =>
           ~Preferred(routes[u].current) /\ Preferred(routes'[u].current)]_routingVars
  BY MovesAreGood
<1>5. RoutesInv /\ [RoutingNext]_routingVars =>
        [\A u \in RouteUser : routes'[u].moves > routes[u].moves => u \notin cooling]_routingVars
  BY MovesAreGood
<1> QED
  BY <1>1, <1>2, <1>3, <1>4, <1>5, PTL DEF RoutingSpec, RoutesHold, MovesHelp, NobodyFlaps

\* The trackers, for any nodes, loads and windows: the listener of a node's throttling ends with
\* the truth, and the monitor's advice and the API's never contradict one another.
THEOREM AdviceIsSound == TrackSpec => []TrackersHold
BY TrackStarts, TrackKept, TrackPromises, PTL DEF TrackSpec

\* The desk, for any exits, buttons and seconds of the day: no event of a moved user is lost but
\* one that came while a run awaited Telegram, and a batch is of one exit, whole.
THEOREM EventsAreKept == DeskSpec => []DeskHolds
BY DeskStarts, DeskKept, DeskPromises, PTL DEF DeskSpec

\* The guard, for any models, prices and faults: what it writes has no price, what it drops had
\* one or was missed twice, and an agent on an old config is known of.
THEOREM GuardIsSound == GuardSpec => GuardHolds
<1>1. GuardInit => GuardInv
  BY GuardStarts
<1>2. GuardInv /\ [GuardNext]_guardVars => GuardInv'
  BY GuardKept
<1>3. GuardInv => GuardTypeOK /\ OldProcessIsKnown
  BY GuardTyped DEF GuardInv, OldIsKnown
<1>4. GuardInv /\ [GuardNext]_guardVars =>
        [yaml' # yaml => \A m \in UsedBy(yaml') : price[m] # "paid"]_guardVars
  BY RewritesAreGood
<1>5. GuardInv /\ [GuardNext]_guardVars =>
        [\A m \in UsedBy(yaml) \ UsedBy(yaml') :
           price[m] = "paid" \/ (price[m] = "missing" /\ m \in misses)]_guardVars
  BY RewritesAreGood
<1> QED
  BY <1>1, <1>2, <1>3, <1>4, <1>5, PTL DEF GuardSpec, GuardHolds, CleanRewrite, NeedsTwoMisses

-----------------------------------------------------------------------------
\* A step of the host is a step of each component or leaves its variables alone.
LEMMA HostSteps ==
  /\ HostInit => RoutingInit /\ TrackInit /\ GuardInit /\ DeskInit
  /\ [HostNext]_hostVars => /\ [RoutingNext]_routingVars /\ [TrackNext]_trackVars
                            /\ [GuardNext]_guardVars /\ [DeskNext]_deskVars
BY DEF HostInit, HostNext, hostVars

\* Routing, trackers and desk as the run checks them, beside the other components.
THEOREM HostedFailoverHolds == HostSpec => FailoverHolds
<1>1. HostInit => RoutesInv /\ TrackInv /\ DeskInv
  BY HostSteps, RoutesStart, TrackStarts, DeskStarts
<1>2. RoutesInv /\ [HostNext]_hostVars => RoutesInv'
  BY HostSteps, RoutesKept
<1>3. TrackInv /\ [HostNext]_hostVars => TrackInv'
  BY HostSteps, TrackKept
<1>4. DeskInv /\ [HostNext]_hostVars => DeskInv'
  BY HostSteps, DeskKept
<1>5. RoutesInv => RoutingTypeOK /\ BadExitLeft
  BY RoutesTyped
<1>6. TrackInv /\ DeskInv => TrackersHold /\ DeskHolds
  BY TrackPromises, DeskPromises
<1>7. RoutesInv /\ [HostNext]_hostVars =>
        [\A u \in RouteUser : routes'[u].moves > routes[u].moves =>
           ~Preferred(routes[u].current) /\ Preferred(routes'[u].current)]_routingVars
  BY HostSteps, MovesAreGood
<1>8. RoutesInv /\ [HostNext]_hostVars =>
        [\A u \in RouteUser : routes'[u].moves > routes[u].moves => u \notin cooling]_routingVars
  BY HostSteps, MovesAreGood
<1> QED
  BY <1>1, <1>2, <1>3, <1>4, <1>5, <1>6, <1>7, <1>8, PTL
     DEF HostSpec, FailoverHolds, RoutesHold, MovesHelp, NobodyFlaps

\* The guard as the run checks it.
THEOREM HostedGuardHolds == HostSpec => GuardHolds
<1>1. HostInit => GuardInv
  BY HostSteps, GuardStarts
<1>2. GuardInv /\ [HostNext]_hostVars => GuardInv'
  BY HostSteps, GuardKept
<1>3. GuardInv => GuardTypeOK /\ OldProcessIsKnown
  BY GuardTyped DEF GuardInv, OldIsKnown
<1>4. GuardInv /\ [HostNext]_hostVars =>
        [yaml' # yaml => \A m \in UsedBy(yaml') : price[m] # "paid"]_guardVars
  BY HostSteps, RewritesAreGood
<1>5. GuardInv /\ [HostNext]_hostVars =>
        [\A m \in UsedBy(yaml) \ UsedBy(yaml') :
           price[m] = "paid" \/ (price[m] = "missing" /\ m \in misses)]_guardVars
  BY HostSteps, RewritesAreGood
<1> QED
  BY <1>1, <1>2, <1>3, <1>4, <1>5, PTL DEF HostSpec, GuardHolds, CleanRewrite, NeedsTwoMisses
===============================================================================
