------------------------ MODULE CascadeMonitorProofs ------------------------
(***************************************************************************)
(* Theorems about CascadeMonitor, for all protocols, networks, thresholds, *)
(* rules' signals and faults.                                              *)
(***************************************************************************)
EXTENDS CascadeMonitor, TLAPS, FiniteSetTheorems, NaturalsInduction,
        WellFoundedInduction

\* Something ranked by naturals has a first element.
LEMMA LeastExists ==
  ASSUME NEW S, S # {}, NEW f, \A x \in S : f[x] \in Nat
  PROVE  \E x \in S : \A y \in S : f[x] <= f[y]
<1> DEFINE T == {f[x] : x \in S}
<1>1. T \subseteq Nat /\ T # {}
  OBVIOUS
<1> HIDE DEF T
<1>2. PICK m \in T : \A n \in T : ~ (<<n, m>> \in OpToRel(<, Nat))
  BY <1>1, NatLessThanWellFounded, WFMin
<1>3. \A n \in T : ~ (n < m)
  BY <1>1, <1>2 DEF OpToRel
<1>4. \A n \in T : m <= n
  BY <1>1, <1>3
<1>5. PICK x \in S : f[x] = m
  BY DEF T
<1>6. \A y \in S : f[y] \in T
  BY DEF T
<1> QED
  BY <1>4, <1>5, <1>6

LEMMA HeadType ==
  ASSUME NEW a, NEW n
  PROVE  Head(a, n) \in Protocols
<1> DEFINE sunk == {p \in Protocols : a[<<Global, p>>] # None \/ a[<<n, p>>] # None}
           front == IF sunk = Protocols THEN Protocols ELSE Protocols \ sunk
<1>1. front # {} /\ front \subseteq Protocols
  BY ConstantsOK DEF ConstantsOK
<1>2. \A p \in front : CascadeRank[p] \in Nat
  BY <1>1, ConstantsOK DEF ConstantsOK
<1> HIDE DEF front
<1>3. \E p \in front : \A q \in front : CascadeRank[p] <= CascadeRank[q]
  BY <1>1, <1>2, LeastExists
<1>4. (CHOOSE p \in front : \A q \in front : CascadeRank[p] <= CascadeRank[q]) \in front
  BY <1>3
<1>5. Head(a, n) = CHOOSE p \in front : \A q \in front : CascadeRank[p] <= CascadeRank[q]
  BY DEF Head, front
<1> QED
  BY <1>1, <1>4, <1>5

\* The rule that fires on a target points at it.
LEMMA FiringPoints ==
  ASSUME NEW aim, NEW t
  PROVE  /\ Firing(aim, t) \in Rules \cup {None}
         /\ Firing(aim, t) # None => t \in aim[Firing(aim, t)]
<1> DEFINE pointing == {r \in Rules : t \in aim[r]}
<1>1. CASE pointing = {}
  BY <1>1 DEF Firing
<1>2. CASE pointing # {}
  <2>1. \A r \in pointing : RuleRank[r] \in Nat
    BY DEF RuleRank, Rules
  <2> HIDE DEF pointing
  <2>2. \E r \in pointing : \A q \in pointing : RuleRank[r] <= RuleRank[q]
    BY <1>2, <2>1, LeastExists
  <2>3. (CHOOSE r \in pointing : \A q \in pointing : RuleRank[r] <= RuleRank[q]) \in pointing
    BY <2>2
  <2>4. Firing(aim, t) = CHOOSE r \in pointing : \A q \in pointing : RuleRank[r] <= RuleRank[q]
    BY <1>2 DEF Firing, pointing
  <2> QED
    BY <2>3, <2>4 DEF pointing
<1> QED
  BY <1>1, <1>2

LEMMA BumpType ==
  ASSUME NEW limit \in Nat, NEW n \in 0..limit
  PROVE  Bump(n, limit) \in 0..limit
  BY DEF Bump

\* The streak update keeps a row a row.
LEMMA InPlaceType ==
  ASSUME NEW s, NEW row \in Row, NEW fire \in Rules \cup {None}
  PROVE  InPlace(s, row, fire) \in Row
<1>1. /\ Bump(row.bad, DemoteAfterBad) \in 0..DemoteAfterBad
      /\ 0 \in 0..DemoteAfterBad /\ 0 \in 0..RestoreAfterGood
  BY BumpType, ConstantsOK DEF Row, ConstantsOK
<1> QED
  BY <1>1 DEF InPlace, Row

LEMMA SunkType ==
  ASSUME NEW s, NEW row \in Row, NEW owner \in Rules, NEW t
  PROVE  Sunk(s, row, owner, t) \in Row
<1>1. /\ Bump(row.good, RestoreAfterGood) \in 0..RestoreAfterGood
      /\ 0 \in 0..DemoteAfterBad /\ 0 \in 0..RestoreAfterGood
  BY BumpType, ConstantsOK DEF Row, ConstantsOK
<1> QED
  BY <1>1 DEF Sunk, Row

LEMMA CountedType ==
  ASSUME NEW s, NEW aim, NEW row \in Row, NEW reason \in Rules \cup {None}, NEW t
  PROVE  Counted(s, aim, row, reason, t) \in Row
<1>1. CASE reason # None
  <2>1. Owner(row, reason) \in Rules
    BY <1>1 DEF Owner, Row
  <2> QED
    BY <1>1, <2>1, SunkType DEF Counted
<1>2. CASE reason = None
  BY <1>2, FiringPoints, InPlaceType DEF Counted
<1> QED
  BY <1>1, <1>2

LEMMA ObservedType ==
  ASSUME NEW s, NEW aim, NEW a \in [Targets -> Rules \cup {None}],
         NEW old \in [Targets -> Evidence], NEW moved
  PROVE  Observed(s, aim, a, old, moved) \in [Targets -> Evidence]
<1>1. ASSUME NEW t \in Targets
      PROVE  /\ Bump(old[t].hits, DemoteAfterBad) \in 0..DemoteAfterBad
             /\ Bump(old[t].calm, RestoreAfterGood) \in 0..RestoreAfterGood
             /\ old[t] \in Evidence /\ a[t] \in Rules \cup {None}
             /\ Firing(aim, t) \in Rules \cup {None}
             /\ 0 \in 0..DemoteAfterBad /\ 0 \in 0..RestoreAfterGood
             /\ 0 \in 0..MinChangeGap
  BY BumpType, FiringPoints, ConstantsOK DEF Evidence, ConstantsOK
<1>2. ASSUME NEW t \in Targets
      PROVE  Observed(s, aim, a, old, moved)[t] \in Evidence
  BY <1>1 DEF Observed, Evidence
<1> QED
  BY <1>2 DEF Observed

\* One evaluation: its result has its type, and a protocol is demoted only by a
\* rule that points at it.
LEMMA EvaluateType ==
  ASSUME TypeOK, Evaluate
  PROVE  /\ run' \in Run
         /\ \A t \in Targets :
              \/ run'.auto[t] = auto[t]
              \/ run'.auto[t] = None
              \/ /\ auto[t] = None /\ run'.auto[t] \in Rules
                 /\ t \in Aim(run.sig, run.heads, auto)[run'.auto[t]]
<1>1. CASE AllDark(run.sig)
  <2>1. run' = [run EXCEPT !.auto = auto, !.evidence = evidence]
    BY <1>1 DEF Evaluate
  <2>2. run' \in Run /\ run'.auto = auto
    BY <2>1 DEF TypeOK, Run
  <2> QED
    BY <2>2
<1>2. CASE ~AllDark(run.sig)
  <2> DEFINE aim == Aim(run.sig, run.heads, auto)
             counted == [t \in Targets |->
                           Counted(run.sig, aim, run.rows[t], auto[t], t)]
             demotable == DemoteCandidates(aim, auto, counted)
             restorable == RestoreCandidates(run.sig, run.rows, auto, counted)
             newAuto(first) == [t \in Targets |->
                                  IF t \notin first THEN auto[t]
                                  ELSE IF t \in demotable THEN counted[t].rule ELSE None]
             newRows(first) == [t \in Targets |->
                                  IF t \notin first THEN counted[t]
                                  ELSE [bad |-> 0, good |-> 0, age |-> 0,
                                        rule |-> IF t \in demotable
                                                 THEN counted[t].rule ELSE None]]
  <2>1. PICK first \in SUBSET (demotable \cup restorable) :
          run' = [run EXCEPT
                    !.demote = first \cap demotable,
                    !.restore = first \cap restorable,
                    !.auto = newAuto(first),
                    !.rows = newRows(first),
                    !.evidence = Observed(run.sig, aim, auto, evidence, first)]
    BY <1>2 DEF Evaluate
  <2>2. run \in Run /\ auto \in [Targets -> Rules \cup {None}]
        /\ run.rows \in [Targets -> Row] /\ evidence \in [Targets -> Evidence]
    BY DEF TypeOK, Run
  <2>3. \A t \in Targets : counted[t] \in Row
    BY <2>2, CountedType
  <2>4. demotable \subseteq Targets /\ restorable \subseteq Targets
    BY DEF DemoteCandidates, RestoreCandidates
  <2>5. \A t \in demotable : /\ auto[t] = None
                             /\ counted[t].rule \in Rules
                             /\ t \in aim[counted[t].rule]
    <3> SUFFICES ASSUME NEW t \in demotable
                 PROVE  /\ auto[t] = None
                        /\ counted[t].rule \in Rules /\ t \in aim[counted[t].rule]
      OBVIOUS
    <3>1. auto[t] = None /\ Firing(aim, t) # None /\ t \in Targets
      BY DEF DemoteCandidates
    <3>2. counted[t] = InPlace(run.sig, run.rows[t], Firing(aim, t))
      BY <3>1 DEF Counted
    <3>3. counted[t].rule = Firing(aim, t)
      BY <2>2, <3>1, <3>2 DEF InPlace, Row
    <3> HIDE DEF counted, aim
    <3> QED
      BY <3>1, <3>3, FiringPoints
  <2>6. Observed(run.sig, aim, auto, evidence, first) \in [Targets -> Evidence]
    BY <2>2, ObservedType
  <2> HIDE DEF aim, counted, demotable, restorable
  <2>7. newAuto(first) \in [Targets -> Rules \cup {None}]
    BY <2>2, <2>5
  <2>8. newRows(first) \in [Targets -> Row]
    <3>1. 0 \in 0..DemoteAfterBad /\ 0 \in 0..RestoreAfterGood /\ 0 \in 0..MinChangeGap
      BY ConstantsOK DEF ConstantsOK
    <3>2. ASSUME NEW t \in Targets PROVE newRows(first)[t] \in Row
      BY <2>3, <2>5, <3>1 DEF Row
    <3> QED
      BY <3>2
  <2>9. first \cap demotable \in SUBSET Targets /\ first \cap restorable \in SUBSET Targets
    BY <2>4
  <2>10. \A t \in Targets :
           \/ newAuto(first)[t] = auto[t]
           \/ newAuto(first)[t] = None
           \/ auto[t] = None /\ newAuto(first)[t] \in Rules /\ t \in aim[newAuto(first)[t]]
    BY <2>5
  <2> HIDE DEF newAuto, newRows
  <2>11. run' \in Run
    BY <2>1, <2>2, <2>6, <2>7, <2>8, <2>9 DEF Run
  <2>12. run'.auto = newAuto(first)
    BY <2>1, <2>2 DEF Run
  <2> QED
    BY <2>10, <2>11, <2>12 DEF aim
<1> QED
  BY <1>1, <1>2
-----------------------------------------------------------------------------
LEMMA InitTypes ==
  /\ NoRows \in [Targets -> Row] /\ NothingDemoted \in [Targets -> Rules \cup {None}]
  /\ NoEvidence \in [Targets -> Evidence] /\ NoRun \in Run
<1>1. 0 \in 0..DemoteAfterBad /\ 0 \in 0..RestoreAfterGood /\ MinChangeGap \in 0..MinChangeGap
  BY ConstantsOK DEF ConstantsOK
<1>2. NoRow \in Row
  BY <1>1 DEF NoRow, Row
<1>3. NoRows \in [Targets -> Row] /\ NothingDemoted \in [Targets -> Rules \cup {None}]
  BY <1>2 DEF NoRows, NothingDemoted
<1>4. NoEvidence \in [Targets -> Evidence]
  BY <1>1 DEF NoEvidence, Evidence
<1>5. Quiet \in Signal
  BY DEF Quiet, Signal
<1>6. NoRun \in Run
  BY <1>3, <1>4, <1>5 DEF NoRun, Run
<1> QED
  BY <1>3, <1>4, <1>6

LEMMA FinishType ==
  ASSUME Finish
  PROVE  run' \in Run /\ pc' = "idle"
  BY InitTypes DEF Finish

LEMMA TickType ==
  ASSUME TypeOK, Tick
  PROVE  TypeOK'
<1>1. ASSUME NEW t \in Targets
      PROVE  /\ [rows[t] EXCEPT !.age = Bump(@, MinChangeGap)] \in Row
             /\ [evidence[t] EXCEPT !.since = Bump(@, MinChangeGap)] \in Evidence
  <2>1. rows[t] \in Row /\ evidence[t] \in Evidence
    BY DEF TypeOK
  <2>2. Bump(rows[t].age, MinChangeGap) \in 0..MinChangeGap
        /\ Bump(evidence[t].since, MinChangeGap) \in 0..MinChangeGap
    BY <2>1, BumpType, ConstantsOK DEF Row, Evidence, ConstantsOK
  <2> QED
    BY <2>1, <2>2 DEF Row, Evidence
<1>2. rows' \in [Targets -> Row] /\ evidence' \in [Targets -> Evidence]
  BY <1>1 DEF Tick
<1> QED
  BY <1>2 DEF Tick, TypeOK

LEMMA CollectType ==
  ASSUME TypeOK, Collect
  PROVE  TypeOK'
<1>1. CASE enabled
  <2>1. PICK s \in Signals, headless \in SUBSET Asns :
          run' = [run EXCEPT !.sig = s,
                    !.heads = [n \in Asns |-> IF n \in headless THEN None ELSE Head(auto, n)]]
    BY <1>1 DEF Collect
  <2>2. /\ s \in Signal
        /\ [n \in Asns |-> IF n \in headless THEN None ELSE Head(auto, n)]
             \in [Asns -> Protocols \cup {None}]
    BY HeadType, ConstantsOK DEF ConstantsOK
  <2>3. run' \in Run
    BY <2>1, <2>2 DEF TypeOK, Run
  <2> QED
    BY <1>1, <2>3 DEF Collect, TypeOK
<1>2. CASE ~enabled
  BY <1>2, FinishType DEF Collect, TypeOK
<1> QED
  BY <1>1, <1>2

LEMMA LoggedType ==
  /\ NothingLogged \in [Targets -> Logged]
  /\ TypeOK /\ (Announce \/ ResetVerify) => audit' \in [Targets -> Logged]
  BY DEF NothingLogged, Logged, TypeOK, Announce, ResetVerify

LEMMA ClearsType ==
  /\ TypeOK /\ ClearsAuto => auto' \in [Targets -> Rules \cup {None}]
  /\ TypeOK /\ ClearsRows => rows' \in [Targets -> Row] /\ evidence' \in [Targets -> Evidence]
  BY InitTypes DEF ClearsAuto, ClearsRows, TypeOK

\* Every variable keeps its type, through every fault and interleaving
\* (CascadeMonitor's TypeOK).
THEOREM TypeCorrect == Spec => []TypeOK
<1>1. Init => TypeOK
  BY InitTypes, LoggedType DEF Init, TypeOK
<1>2. TypeOK /\ [Next]_vars => TypeOK'
  <2> SUFFICES ASSUME TypeOK, [Next]_vars PROVE TypeOK'
    OBVIOUS
  <2>1. CASE Tick
    BY <2>1, TickType
  <2>2. CASE Collect
    BY <2>2, CollectType
  <2>3. CASE LoadRows
    <3>1. run' \in Run
      BY <2>3 DEF LoadRows, TypeOK, Run
    <3> QED
      BY <2>3, <3>1 DEF LoadRows, TypeOK
  <2>4. CASE SkipUnreadable
    BY <2>4, FinishType DEF SkipUnreadable, TypeOK
  <2>5. CASE Evaluate
    BY <2>5, EvaluateType DEF Evaluate, TypeOK
  <2>6. CASE SaveAuto
    BY <2>6, FinishType DEF SaveAuto, TypeOK, Run
  <2>7. CASE SaveRows
    BY <2>7 DEF SaveRows, TypeOK, Run
  <2>8. CASE Announce
    BY <2>8, FinishType, LoggedType DEF Announce, TypeOK, Run
  <2>9. CASE Crash
    BY <2>9, FinishType DEF Crash, TypeOK
  <2>10. CASE ResetAuto
    BY <2>10, ClearsType DEF ResetAuto, TypeOK
  <2>11. CASE ResetRows
    BY <2>11, ClearsType DEF ResetRows, TypeOK
  <2>12. CASE ResetVerify
    BY <2>12, ClearsType, LoggedType DEF ResetVerify, TypeOK
  <2>13. CASE Toggle
    BY <2>13 DEF Toggle, TypeOK
  <2>14. CASE UNCHANGED vars
    BY <2>14 DEF vars, TypeOK
  <2> QED
    BY <2>1, <2>2, <2>3, <2>4, <2>5, <2>6, <2>7, <2>8, <2>9, <2>10, <2>11, <2>12,
       <2>13, <2>14 DEF Next, Monitor, Reset
<1> QED
  BY <1>1, <1>2, PTL DEF Spec
-----------------------------------------------------------------------------
(* The cap on user complaints.  An evaluation adds at most one protocol    *)
(* per network, the head it took before, and only where there is room; the *)
(* saved row is always one that an evaluation, or a reset, has made whole. *)

Capped(a) == \A n \in Asns : Cardinality(ByReports(a, n)) <= ReportsMaxPerAsn

LEMMA EvaluateCapped ==
  ASSUME TypeOK, Capped(auto), Evaluate
  PROVE  Capped(run'.auto)
<1> SUFFICES ASSUME NEW n \in Asns
             PROVE  Cardinality(ByReports(run'.auto, n)) <= ReportsMaxPerAsn
  BY DEF Capped
<1> DEFINE old == ByReports(auto, n)
           new == ByReports(run'.auto, n)
<1>1. IsFiniteSet(old) /\ old \subseteq Protocols /\ new \subseteq Protocols
  BY ConstantsOK, FS_Subset DEF ByReports, ConstantsOK
<1>2. Cardinality(old) \in Nat /\ Cardinality(old) <= ReportsMaxPerAsn
      /\ ReportsMaxPerAsn \in Nat
  BY <1>1, FS_CardinalityType, ConstantsOK DEF Capped, ConstantsOK
<1>3. ASSUME NEW p \in new, p \notin old
      PROVE  n \in Complaining(run.sig, auto) /\ p = run.heads[n]
  <2>1. <<n, p>> \in Targets
    BY <1>1 DEF Targets, Scopes
  <2>2. run'.auto[<<n, p>>] = "user_reports_asn" /\ auto[<<n, p>>] # "user_reports_asn"
    BY <1>1, <1>3 DEF ByReports
  <2>3. None # "user_reports_asn"
    BY ConstantsOK DEF ConstantsOK, Rules
  <2>4. <<n, p>> \in Aim(run.sig, run.heads, auto)["user_reports_asn"]
    BY <2>1, <2>2, <2>3, EvaluateType
  <2>5. <<n, p>> \in {<<asn, run.heads[asn]>> :
                         asn \in {m \in Complaining(run.sig, auto) : run.heads[m] # None}}
    BY <2>4 DEF Aim
  <2> QED
    BY <2>5
<1>4. CASE n \in Complaining(run.sig, auto)
  <2>1. new \subseteq old \cup {run.heads[n]}
    BY <1>3
  <2>2. Cardinality(old) < ReportsMaxPerAsn
    BY <1>4 DEF Complaining
  <2>3. IsFiniteSet(old \cup {run.heads[n]})
        /\ Cardinality(old \cup {run.heads[n]}) <= Cardinality(old) + 1
    <3> HIDE DEF old
    <3>1. /\ IsFiniteSet(old \cup {run.heads[n]})
          /\ Cardinality(old \cup {run.heads[n]}) =
               IF run.heads[n] \in old THEN Cardinality(old) ELSE Cardinality(old) + 1
      BY <1>1, FS_AddElement
    <3> QED
      BY <1>2, <3>1
  <2> HIDE DEF old, new
  <2>4. Cardinality(new) <= Cardinality(old \cup {run.heads[n]}) /\ IsFiniteSet(new)
    BY <2>1, <2>3, FS_Subset
  <2>5. Cardinality(new) \in Nat /\ Cardinality(old \cup {run.heads[n]}) \in Nat
    BY <2>3, <2>4, FS_CardinalityType
  <2>6. Cardinality(new) <= ReportsMaxPerAsn
    BY <1>2, <2>2, <2>3, <2>4, <2>5
  <2> QED
    BY <2>6 DEF new
<1>5. CASE n \notin Complaining(run.sig, auto)
  <2>1. new \subseteq old
    BY <1>3, <1>5
  <2> HIDE DEF old, new
  <2>2. Cardinality(new) <= Cardinality(old) /\ IsFiniteSet(new)
    BY <1>1, <2>1, FS_Subset
  <2>3. Cardinality(new) \in Nat
    BY <2>2, FS_CardinalityType
  <2>4. Cardinality(new) <= ReportsMaxPerAsn
    BY <1>2, <2>2, <2>3
  <2> QED
    BY <2>4 DEF new
<1> QED
  BY <1>4, <1>5

LEMMA NothingCapped == Capped(NothingDemoted)
<1> SUFFICES ASSUME NEW n \in Asns
             PROVE  Cardinality(ByReports(NothingDemoted, n)) <= ReportsMaxPerAsn
  BY DEF Capped
<1>1. ByReports(NothingDemoted, n) = {}
  BY ConstantsOK DEF ByReports, NothingDemoted, Targets, Scopes, ConstantsOK, Rules
<1> QED
  BY <1>1, FS_EmptySet, ConstantsOK DEF ConstantsOK

\* No network ever has more than REPORTS_MAX_PER_ASN protocols demoted on user
\* complaints, however the head moves on, however writes fail and resets and
\* crashes cut a run (CascadeMonitor's ReportsCap; R5 in evaluate).
THEOREM ReportsStayCapped == Spec => []ReportsCap
<1> DEFINE Inv == Capped(auto) /\ Capped(run.auto)
<1>1. Init => Inv
  BY NothingCapped DEF Init, NoRun
<1>2. TypeOK /\ Inv /\ [Next]_vars => Inv'
  <2> SUFFICES ASSUME TypeOK, Inv, [Next]_vars PROVE Inv'
    OBVIOUS
  <2>1. CASE Evaluate
    BY <2>1, EvaluateCapped DEF Evaluate, Capped, ByReports
  <2>2. ASSUME ~Evaluate
        PROVE  /\ auto' = auto \/ auto' = run.auto \/ auto' = NothingDemoted
               /\ run'.auto = run.auto \/ run'.auto = NothingDemoted
    <3>1. NoRun.auto = NothingDemoted
      BY DEF NoRun
    <3> QED
      BY <2>2, <3>1 DEF Next, Monitor, Reset, Tick, Collect, LoadRows, SkipUnreadable,
         SaveAuto, SaveRows, Announce, Crash, ResetAuto, ResetRows, ResetVerify,
         Toggle, ClearsAuto, Finish, vars, TypeOK, Run
  <2>3. CASE ~Evaluate
    BY <2>2, <2>3, NothingCapped DEF Capped, ByReports
  <2> QED
    BY <2>1, <2>3
<1>3. Inv => ReportsCap
  BY DEF Capped, ReportsCap
<1> QED
  BY <1>1, <1>2, <1>3, TypeCorrect, PTL DEF Spec
-----------------------------------------------------------------------------
(* What one evaluation does to one target, when the streaks it loaded and  *)
(* the evidence are linked: the rows count what the signals showed.        *)

LinkedAt(reason, row, e) ==
  /\ reason = None => row.bad = e.hits /\ row.rule = e.by
  /\ reason # None => row.rule = reason /\ row.good = e.calm
  /\ row.age = e.since

Linked(a, r, e) == \A t \in Targets : LinkedAt(a[t], r[t], e[t])

\* The target t was moved from reason "was" to "is", with the evidence e of
\* the evaluation that moved it.
Earned(was, is, e) ==
  /\ was = None /\ is # None => e.hits = DemoteAfterBad /\ e.by = is
  /\ was # None /\ is = None => e.calm = RestoreAfterGood

\* One evaluation moves the targets in "first", none of which was moved lately.
MovesOnly(first, a, e, b, f) ==
  \A t \in Targets :
    /\ t \in first => e[t].since = MinChangeGap /\ f[t].since = 0 /\ (a[t] = None) # (b[t] = None)
    /\ t \notin first => f[t].since = e[t].since /\ b[t] = a[t]

\* A target that a rule fires on long enough.
LEMMA DemotableAt ==
  ASSUME TypeOK, NEW aim, NEW t \in Targets, LinkedAt(auto[t], run.rows[t], evidence[t]),
         NEW counted, counted[t] = Counted(run.sig, aim, run.rows[t], auto[t], t),
         t \in DemoteCandidates(aim, auto, counted), NEW moved
  PROVE  LET f == Observed(run.sig, aim, auto, evidence, moved)[t] IN
         /\ auto[t] = None /\ counted[t].rule \in Rules /\ counted[t].rule # None
         /\ f.hits = DemoteAfterBad /\ f.by = counted[t].rule /\ f.calm = 0
         /\ evidence[t].since = MinChangeGap
<1>1. /\ auto[t] = None /\ Firing(aim, t) # None
      /\ counted[t].bad >= DemoteAfterBad /\ counted[t].age >= MinChangeGap
  BY DEF DemoteCandidates
<1>2. run.rows[t] \in Row /\ evidence[t] \in Evidence
  BY DEF TypeOK, Run
<1>3. /\ counted[t].bad = Bump(run.rows[t].bad, DemoteAfterBad)
      /\ counted[t].rule = Firing(aim, t) /\ counted[t].age = run.rows[t].age
  BY <1>1, <1>2 DEF Counted, InPlace, Row
<1>4. run.rows[t].bad = evidence[t].hits /\ run.rows[t].age = evidence[t].since
  BY <1>1 DEF LinkedAt
<1>5. Bump(run.rows[t].bad, DemoteAfterBad) \in 0..DemoteAfterBad
  BY <1>2, BumpType, ConstantsOK DEF Row, ConstantsOK
<1>6. /\ Observed(run.sig, aim, auto, evidence, moved)[t].hits
           = Bump(evidence[t].hits, DemoteAfterBad)
      /\ Observed(run.sig, aim, auto, evidence, moved)[t].by = Firing(aim, t)
      /\ Observed(run.sig, aim, auto, evidence, moved)[t].calm = 0
  BY <1>1 DEF Observed
<1>7. Firing(aim, t) \in Rules
  BY <1>1, FiringPoints
<1>8. evidence[t].since \in 0..MinChangeGap /\ MinChangeGap \in Nat /\ DemoteAfterBad \in Nat
  BY <1>2, ConstantsOK DEF Evidence, ConstantsOK
<1> QED
  BY <1>1, <1>3, <1>4, <1>5, <1>6, <1>7, <1>8

\* A target whose rule was silent long enough.
LEMMA RestorableAt ==
  ASSUME TypeOK, NEW aim, NEW t \in Targets, LinkedAt(auto[t], run.rows[t], evidence[t]),
         NEW counted, counted[t] = Counted(run.sig, aim, run.rows[t], auto[t], t),
         t \in RestoreCandidates(run.sig, run.rows, auto, counted), NEW moved
  PROVE  LET f == Observed(run.sig, aim, auto, evidence, moved)[t] IN
         /\ auto[t] # None
         /\ f.calm = RestoreAfterGood /\ f.hits = 0 /\ f.by = None
         /\ evidence[t].since = MinChangeGap
<1>1. /\ auto[t] # None /\ Owner(run.rows[t], auto[t]) \notin Frozen(run.sig)
      /\ counted[t].good >= RestoreAfterGood /\ counted[t].age >= MinChangeGap
  BY DEF RestoreCandidates
<1>2. run.rows[t] \in Row /\ evidence[t] \in Evidence
  BY DEF TypeOK, Run
<1>3. /\ Owner(run.rows[t], auto[t]) = auto[t]
      /\ run.rows[t].good = evidence[t].calm /\ run.rows[t].age = evidence[t].since
  BY <1>1 DEF LinkedAt, Owner
<1>4. /\ counted[t].good = IF t \in Active(run.sig, auto[t]) THEN 0
                           ELSE Bump(run.rows[t].good, RestoreAfterGood)
      /\ counted[t].age = run.rows[t].age
  BY <1>1, <1>2, <1>3 DEF Counted, Sunk, Row
<1>5. /\ Observed(run.sig, aim, auto, evidence, moved)[t].calm
           = IF t \in Active(run.sig, auto[t]) THEN 0
             ELSE Bump(evidence[t].calm, RestoreAfterGood)
      /\ Observed(run.sig, aim, auto, evidence, moved)[t].hits = 0
      /\ Observed(run.sig, aim, auto, evidence, moved)[t].by = None
  BY <1>1, <1>3 DEF Observed
<1>6. Bump(run.rows[t].good, RestoreAfterGood) \in 0..RestoreAfterGood
  BY <1>2, BumpType, ConstantsOK DEF Row, ConstantsOK
<1>7. /\ evidence[t].since \in 0..MinChangeGap /\ MinChangeGap \in Nat
      /\ RestoreAfterGood \in Nat \ {0}
  BY <1>2, ConstantsOK DEF Evidence, ConstantsOK
<1> QED
  BY <1>1, <1>3, <1>4, <1>5, <1>6, <1>7

\* The streaks of a target that is not moved go on counting what its evidence does.
LEMMA CountedLinked ==
  ASSUME TypeOK, NEW aim, NEW t \in Targets, LinkedAt(auto[t], run.rows[t], evidence[t]),
         NEW moved, t \notin moved
  PROVE  LinkedAt(auto[t], Counted(run.sig, aim, run.rows[t], auto[t], t),
                  Observed(run.sig, aim, auto, evidence, moved)[t])
<1> DEFINE r == run.rows[t]
           e == evidence[t]
           f == Observed(run.sig, aim, auto, evidence, moved)[t]
           c == Counted(run.sig, aim, run.rows[t], auto[t], t)
<1>1. r \in Row /\ e \in Evidence /\ auto[t] \in Rules \cup {None}
  BY DEF TypeOK, Run
<1>2. f.since = e.since
  BY DEF Observed
<1>3. CASE auto[t] = None
  <2>1. r.bad = e.hits /\ r.rule = e.by /\ r.age = e.since
    BY <1>3 DEF LinkedAt
  <2>2. c = InPlace(run.sig, r, Firing(aim, t))
    BY <1>3 DEF Counted
  <2>3. CASE Firing(aim, t) # None
    <3>1. /\ c.bad = Bump(r.bad, DemoteAfterBad) /\ c.rule = Firing(aim, t)
          /\ c.age = r.age
      BY <1>1, <2>2, <2>3 DEF InPlace, Row
    <3>2. f.hits = Bump(e.hits, DemoteAfterBad) /\ f.by = Firing(aim, t)
      BY <1>3, <2>3 DEF Observed
    <3> QED
      BY <1>2, <1>3, <2>1, <3>1, <3>2 DEF LinkedAt
  <2>4. CASE Firing(aim, t) = None /\ r.rule \in Frozen(run.sig)
    <3>1. c = r
      BY <2>2, <2>4 DEF InPlace
    <3>2. f.hits = e.hits /\ f.by = e.by
      BY <1>3, <2>1, <2>4 DEF Observed
    <3> QED
      BY <1>2, <1>3, <2>1, <3>1, <3>2 DEF LinkedAt
  <2>5. CASE Firing(aim, t) = None /\ r.rule \notin Frozen(run.sig)
    <3>1. c.bad = 0 /\ c.rule = None /\ c.age = r.age
      BY <1>1, <2>2, <2>5 DEF InPlace, Row
    <3>2. f.hits = 0 /\ f.by = None
      BY <1>3, <2>1, <2>5 DEF Observed
    <3> QED
      BY <1>2, <1>3, <2>1, <3>1, <3>2 DEF LinkedAt
  <2> QED
    BY <2>3, <2>4, <2>5
<1>4. CASE auto[t] # None
  <2>1. r.rule = auto[t] /\ r.good = e.calm /\ r.age = e.since
    BY <1>4 DEF LinkedAt
  <2>2. c = Sunk(run.sig, r, auto[t], t)
    BY <1>4, <2>1 DEF Counted, Owner
  <2>3. CASE auto[t] \in Frozen(run.sig)
    <3>1. c = r
      BY <2>2, <2>3 DEF Sunk
    <3>2. f.calm = e.calm
      BY <1>4, <2>3 DEF Observed
    <3> QED
      BY <1>2, <1>4, <2>1, <3>1, <3>2 DEF LinkedAt
  <2>4. CASE auto[t] \notin Frozen(run.sig)
    <3>1. /\ c.rule = auto[t] /\ c.age = r.age
          /\ c.good = IF t \in Active(run.sig, auto[t]) THEN 0
                      ELSE Bump(r.good, RestoreAfterGood)
      BY <1>1, <2>2, <2>4 DEF Sunk, Row
    <3>2. f.calm = IF t \in Active(run.sig, auto[t]) THEN 0
                   ELSE Bump(e.calm, RestoreAfterGood)
      BY <1>4, <2>4 DEF Observed
    <3> QED
      BY <1>2, <1>4, <2>1, <3>1, <3>2 DEF LinkedAt
  <2> QED
    BY <2>3, <2>4
<1> QED
  BY <1>3, <1>4

\* One evaluation of linked streaks: its result is linked again, it moves at
\* most MaxChanges targets, and each move is earned.
LEMMA EvaluateMoves ==
  ASSUME TypeOK, Evaluate, Linked(auto, run.rows, evidence),
         run.demote = {}, run.restore = {}
  PROVE  /\ Linked(run'.auto, run'.rows, run'.evidence)
         /\ \A t \in Targets : Earned(auto[t], run'.auto[t], run'.evidence[t])
         /\ Cardinality(run'.demote \cup run'.restore) <= MaxChanges
         /\ MovesOnly(run'.demote \cup run'.restore, auto, evidence, run'.auto, run'.evidence)
         /\ \A t \in Targets : /\ t \in run'.demote => auto[t] = None
                               /\ t \in run'.restore => auto[t] # None
<1>1. run \in Run /\ auto \in [Targets -> Rules \cup {None}]
  BY DEF TypeOK
<1>2. CASE AllDark(run.sig)
  <2>1. run' = [run EXCEPT !.auto = auto, !.evidence = evidence]
    BY <1>2 DEF Evaluate
  <2>2. /\ run'.auto = auto /\ run'.evidence = evidence /\ run'.rows = run.rows
        /\ run'.demote = {} /\ run'.restore = {}
    BY <1>1, <2>1 DEF Run
  <2>3. Cardinality({}) = 0 /\ MaxChanges \in Nat
    BY FS_EmptySet, ConstantsOK DEF ConstantsOK
  <2>4. Cardinality(run'.demote \cup run'.restore) <= MaxChanges
    BY <2>2, <2>3
  <2> QED
    BY <2>2, <2>4 DEF Earned, MovesOnly
<1>3. CASE ~AllDark(run.sig)
  <2> DEFINE aim == Aim(run.sig, run.heads, auto)
             counted == [t \in Targets |->
                           Counted(run.sig, aim, run.rows[t], auto[t], t)]
             demotable == DemoteCandidates(aim, auto, counted)
             restorable == RestoreCandidates(run.sig, run.rows, auto, counted)
             newAuto(first) == [t \in Targets |->
                                  IF t \notin first THEN auto[t]
                                  ELSE IF t \in demotable THEN counted[t].rule ELSE None]
             newRows(first) == [t \in Targets |->
                                  IF t \notin first THEN counted[t]
                                  ELSE [bad |-> 0, good |-> 0, age |-> 0,
                                        rule |-> IF t \in demotable
                                                 THEN counted[t].rule ELSE None]]
  <2>1. PICK first \in SUBSET (demotable \cup restorable) :
          /\ IsCapped(first, demotable \cup restorable, auto, counted)
          /\ run' = [run EXCEPT
                    !.demote = first \cap demotable,
                    !.restore = first \cap restorable,
                    !.auto = newAuto(first),
                    !.rows = newRows(first),
                    !.evidence = Observed(run.sig, aim, auto, evidence, first)]
    BY <1>3 DEF Evaluate
  <2> DEFINE f == Observed(run.sig, aim, auto, evidence, first)
  <2>2. /\ run'.auto = newAuto(first) /\ run'.rows = newRows(first) /\ run'.evidence = f
        /\ run'.demote = first \cap demotable /\ run'.restore = first \cap restorable
    BY <1>1, <2>1 DEF Run
  <2>3. first \subseteq Targets /\ run'.demote \cup run'.restore = first
    BY <2>2, <2>1 DEF DemoteCandidates, RestoreCandidates
  <2>4. Cardinality(first) <= MaxChanges
    BY <2>1 DEF IsCapped
  <2>5. \A t \in Targets : counted[t] = Counted(run.sig, aim, run.rows[t], auto[t], t)
    OBVIOUS
  <2>6. \A t \in Targets : f[t].since = IF t \in first THEN 0 ELSE evidence[t].since
    BY DEF Observed
  <2> HIDE DEF aim, counted, f
  <2>7. ASSUME NEW t \in demotable
        PROVE  /\ auto[t] = None /\ counted[t].rule \in Rules /\ counted[t].rule # None
               /\ f[t].hits = DemoteAfterBad /\ f[t].by = counted[t].rule /\ f[t].calm = 0
               /\ evidence[t].since = MinChangeGap
    <3>1. t \in Targets
      BY DEF DemoteCandidates
    <3>2. LinkedAt(auto[t], run.rows[t], evidence[t])
      BY <3>1 DEF Linked
    <3> QED
      BY <2>5, <3>1, <3>2, DemotableAt DEF f
  <2>8. ASSUME NEW t \in restorable
        PROVE  /\ auto[t] # None
               /\ f[t].calm = RestoreAfterGood /\ f[t].hits = 0 /\ f[t].by = None
               /\ evidence[t].since = MinChangeGap
    <3>1. t \in Targets
      BY DEF RestoreCandidates
    <3>2. LinkedAt(auto[t], run.rows[t], evidence[t])
      BY <3>1 DEF Linked
    <3> QED
      BY <2>5, <3>1, <3>2, RestorableAt DEF f
  <2>9. ASSUME NEW t \in Targets, t \notin first
        PROVE  LinkedAt(auto[t], counted[t], f[t])
    <3>1. LinkedAt(auto[t], run.rows[t], evidence[t])
      BY DEF Linked
    <3> QED
      BY <2>5, <2>9, <3>1, CountedLinked DEF f
  <2> HIDE DEF demotable, restorable
  <2>10. ASSUME NEW t \in Targets, t \in first, t \in demotable
         PROVE  /\ LinkedAt(newAuto(first)[t], newRows(first)[t], f[t])
                /\ Earned(auto[t], newAuto(first)[t], f[t])
                /\ evidence[t].since = MinChangeGap
                /\ auto[t] = None /\ newAuto(first)[t] # None
    <3>1. newAuto(first)[t] = counted[t].rule
      BY <2>10
    <3>2. newRows(first)[t] = [bad |-> 0, good |-> 0, age |-> 0, rule |-> counted[t].rule]
      BY <2>10
    <3>3. f[t].since = 0
      BY <2>6, <2>10
    <3> QED
      BY <2>7, <2>10, <3>1, <3>2, <3>3 DEF LinkedAt, Earned
  <2>11. ASSUME NEW t \in Targets, t \in first, t \notin demotable
         PROVE  /\ LinkedAt(newAuto(first)[t], newRows(first)[t], f[t])
                /\ Earned(auto[t], newAuto(first)[t], f[t])
                /\ evidence[t].since = MinChangeGap
                /\ auto[t] # None /\ newAuto(first)[t] = None
    <3>1. newAuto(first)[t] = None /\ t \in restorable
      BY <2>1, <2>11
    <3>2. newRows(first)[t] = [bad |-> 0, good |-> 0, age |-> 0, rule |-> None]
      BY <2>11
    <3>3. f[t].since = 0
      BY <2>6, <2>11
    <3> QED
      BY <2>8, <3>1, <3>2, <3>3 DEF LinkedAt, Earned
  <2>12. ASSUME NEW t \in Targets, t \notin first
         PROVE  /\ LinkedAt(newAuto(first)[t], newRows(first)[t], f[t])
                /\ newAuto(first)[t] = auto[t]
    <3>1. newAuto(first)[t] = auto[t] /\ newRows(first)[t] = counted[t]
      BY <2>12
    <3> QED
      BY <2>9, <2>12, <3>1
  <2>13. MovesOnly(first, auto, evidence, newAuto(first), f)
    BY <2>6, <2>10, <2>11, <2>12 DEF MovesOnly
  <2>14. \A t \in Targets : Earned(auto[t], newAuto(first)[t], f[t])
    BY <2>10, <2>11, <2>12 DEF Earned
  <2>15. Linked(newAuto(first), newRows(first), f)
    BY <2>10, <2>11, <2>12 DEF Linked
  <2>16. \A t \in Targets : /\ t \in run'.demote => auto[t] = None
                            /\ t \in run'.restore => auto[t] # None
    BY <2>2, <2>7, <2>8
  <2> HIDE DEF newAuto, newRows
  <2> QED
    BY <2>2, <2>3, <2>4, <2>13, <2>14, <2>15, <2>16
<1> QED
  BY <1>2, <1>3
-----------------------------------------------------------------------------
(* A run and a reset take turns, when the operator does not interrupt and  *)
(* the process does not die between two steps.                             *)

InTurn ==
  /\ pc \notin {"idle", "due"} => opc = "idle"
  /\ opc # "idle" => auto = NothingDemoted
  /\ opc = "rowsCleared" => rows = NoRows /\ evidence = NoEvidence

LEMMA TurnsKept ==
  ASSUME Faults \cap {"crash", "reset"} = {}, ~OperatorInterrupts
  PROVE  /\ Init => InTurn
         /\ InTurn /\ [Next]_vars => InTurn'
<1>1. Init => InTurn
  BY DEF Init, InTurn
<1>2. ASSUME InTurn, [Next]_vars PROVE InTurn'
  <2>1. CASE Tick
    BY <1>2, <2>1 DEF Tick, InTurn
  <2>2. CASE Collect
    BY <1>2, <2>2 DEF Collect, InTurn, Finish
  <2>3. CASE LoadRows \/ SkipUnreadable \/ Evaluate
    BY <1>2, <2>3 DEF LoadRows, SkipUnreadable, Evaluate, InTurn, Finish
  <2>4. CASE SaveAuto \/ SaveRows \/ Announce
    BY <1>2, <2>4 DEF SaveAuto, SaveRows, Announce, InTurn, Finish
  <2>5. CASE Crash
    BY <2>5 DEF Crash
  <2>6. CASE ResetAuto
    BY <1>2, <2>6 DEF ResetAuto, ClearsAuto, InTurn
  <2>7. CASE ResetRows
    BY <1>2, <2>7 DEF ResetRows, ClearsRows, InTurn
  <2>8. CASE ResetVerify
    BY <1>2, <2>8 DEF ResetVerify, InTurn
  <2>9. CASE Toggle
    BY <1>2, <2>9 DEF Toggle, InTurn
  <2>10. CASE UNCHANGED vars
    BY <1>2, <2>10 DEF vars, InTurn
  <2> QED
    BY <1>2, <2>1, <2>2, <2>3, <2>4, <2>5, <2>6, <2>7, <2>8, <2>9, <2>10
    DEF Next, Monitor, Reset
<1> QED
  BY <1>1, <1>2
-----------------------------------------------------------------------------
(* The admin_actions rows.                                                 *)

SunkIn(a) == {t \in Targets : a[t] # None}

\* The changes of an evaluation lead from the old demotions to the new ones.
LEMMA EvaluateMarks ==
  ASSUME TypeOK, Evaluate, run.demote = {}, run.restore = {}
  PROVE  /\ SunkIn(run'.auto) = (SunkIn(auto) \cup run'.demote) \ run'.restore
         /\ run'.demote \cap run'.restore = {}
<1>1. run \in Run /\ auto \in [Targets -> Rules \cup {None}]
  BY DEF TypeOK
<1>2. CASE AllDark(run.sig)
  <2>1. run' = [run EXCEPT !.auto = auto, !.evidence = evidence]
    BY <1>2 DEF Evaluate
  <2> QED
    BY <1>1, <2>1 DEF Run, SunkIn
<1>3. CASE ~AllDark(run.sig)
  <2> DEFINE aim == Aim(run.sig, run.heads, auto)
             counted == [t \in Targets |->
                           Counted(run.sig, aim, run.rows[t], auto[t], t)]
             demotable == DemoteCandidates(aim, auto, counted)
             restorable == RestoreCandidates(run.sig, run.rows, auto, counted)
             newAuto(first) == [t \in Targets |->
                                  IF t \notin first THEN auto[t]
                                  ELSE IF t \in demotable THEN counted[t].rule ELSE None]
             newRows(first) == [t \in Targets |->
                                  IF t \notin first THEN counted[t]
                                  ELSE [bad |-> 0, good |-> 0, age |-> 0,
                                        rule |-> IF t \in demotable
                                                 THEN counted[t].rule ELSE None]]
  <2>1. PICK first \in SUBSET (demotable \cup restorable) :
          run' = [run EXCEPT
                    !.demote = first \cap demotable,
                    !.restore = first \cap restorable,
                    !.auto = newAuto(first),
                    !.rows = newRows(first),
                    !.evidence = Observed(run.sig, aim, auto, evidence, first)]
    BY <1>3 DEF Evaluate
  <2>2. /\ run'.auto = newAuto(first)
        /\ run'.demote = first \cap demotable /\ run'.restore = first \cap restorable
    BY <1>1, <2>1 DEF Run
  <2>3. \A t \in demotable : t \in Targets /\ auto[t] = None /\ counted[t].rule # None
    <3> SUFFICES ASSUME NEW t \in demotable
                 PROVE  t \in Targets /\ auto[t] = None /\ counted[t].rule # None
      OBVIOUS
    <3>1. auto[t] = None /\ Firing(aim, t) # None /\ t \in Targets
      BY DEF DemoteCandidates
    <3>2. counted[t] = InPlace(run.sig, run.rows[t], Firing(aim, t))
      BY <3>1 DEF Counted
    <3>3. run.rows[t] \in Row
      BY <1>1, <3>1 DEF Run
    <3>4. counted[t].rule = Firing(aim, t)
      BY <3>1, <3>2, <3>3 DEF InPlace, Row
    <3> QED
      BY <3>1, <3>4
  <2>4. \A t \in restorable : t \in Targets /\ auto[t] # None
    BY DEF RestoreCandidates
  <2>6. demotable \cap restorable = {}
    BY <2>3, <2>4
  <2> HIDE DEF aim, counted, demotable, restorable
  <2>5. \A t \in Targets : newAuto(first)[t] # None
          <=> (auto[t] # None \/ t \in first \cap demotable) /\ t \notin first \cap restorable
    BY <2>1, <2>3, <2>4
  <2> QED
    BY <2>2, <2>3, <2>5, <2>6 DEF SunkIn
<1> QED
  BY <1>2, <1>3

\* What the log says of the targets whose last change it has.
SaysRight(log, S) ==
  \A t \in Targets : /\ log[t] = "sunk" => t \in S
                     /\ log[t] = "in place" => t \notin S

AuditFollows ==
  /\ pc \in {"idle", "due", "collected", "loading"} => run.demote = {} /\ run.restore = {}
  /\ pc \notin {"autoSaved", "saved"} /\ opc = "idle" =>
       SaysRight(audit, SunkIn(auto))
  /\ pc \in {"evaluated", "autoSaved", "saved"} =>
       /\ run.demote \cap run.restore = {}
       /\ \E before \in SUBSET Targets :
            /\ SunkIn(run.auto) = (before \cup run.demote) \ run.restore
            /\ SaysRight(audit, before)
  /\ pc \in {"autoSaved", "saved"} => auto = run.auto

LEMMA NothingSunk ==
  /\ SunkIn(NothingDemoted) = {} /\ SaysRight(NothingLogged, {})
  /\ NoRun.demote = {} /\ NoRun.restore = {}
  BY DEF SunkIn, NothingDemoted, NoRun, SaysRight, NothingLogged

\* Between runs the admin_actions rows add up to what is demoted, of every target
\* whose last change got its row, whatever reads and writes of the two settings
\* fail and whichever rows the log refuses (CascadeMonitor's AuditAddsUp;
\* apply_changes after save_state, and the reset's own audit row).
THEOREM AuditKept ==
  Faults \cap {"crash", "reset"} = {} /\ ~OperatorInterrupts => (Spec => []AuditAddsUp)
<1> SUFFICES ASSUME Faults \cap {"crash", "reset"} = {}, ~OperatorInterrupts
             PROVE  Spec => []AuditAddsUp
  OBVIOUS
<1>1. Init => InTurn /\ AuditFollows
  BY TurnsKept, NothingSunk DEF Init, AuditFollows
<1>2. TypeOK /\ InTurn /\ AuditFollows /\ [Next]_vars => InTurn' /\ AuditFollows'
  <2> SUFFICES ASSUME TypeOK, InTurn, AuditFollows, [Next]_vars
               PROVE  AuditFollows'
    BY TurnsKept
  <2>1. CASE Tick
    BY <2>1 DEF Tick, AuditFollows, SunkIn
  <2>2. CASE Collect
    <3>1. (run'.demote = run.demote /\ run'.restore = run.restore) \/ run' = NoRun
      BY <2>2 DEF Collect, Finish, TypeOK, Run
    <3> QED
      BY <2>2, <3>1, NothingSunk DEF Collect, Finish, AuditFollows, SunkIn
  <2>3. CASE LoadRows
    BY <2>3 DEF LoadRows, AuditFollows, SunkIn, TypeOK, Run
  <2>4. CASE SkipUnreadable
    BY <2>4, NothingSunk DEF SkipUnreadable, Finish, AuditFollows, SunkIn, InTurn
  <2>5. CASE Evaluate
    <3>1. /\ pc = "loading" /\ pc' = "evaluated"
          /\ UNCHANGED <<auto, opc, audit>>
      BY <2>5 DEF Evaluate
    <3>2. SunkIn(run'.auto) = (SunkIn(auto) \cup run'.demote) \ run'.restore
      BY <2>5, <3>1, EvaluateMarks DEF AuditFollows
    <3>3. SaysRight(audit, SunkIn(auto)) /\ run'.demote \cap run'.restore = {}
      BY <2>5, <3>1, EvaluateMarks DEF AuditFollows, InTurn
    <3>4. SunkIn(auto) \in SUBSET Targets
      BY DEF SunkIn
    <3> QED
      BY <3>1, <3>2, <3>3, <3>4 DEF AuditFollows
  <2>6. CASE SaveAuto
    BY <2>6, NothingSunk DEF SaveAuto, Finish, AuditFollows, SunkIn, InTurn
  <2>7. CASE SaveRows
    BY <2>7 DEF SaveRows, AuditFollows, SunkIn
  <2>8. CASE Announce
    <3>1. /\ pc = "saved" /\ pc' = "idle" /\ run' = NoRun /\ UNCHANGED <<auto, opc>>
      BY <2>8 DEF Announce, Finish
    <3>2. PICK before \in SUBSET Targets :
            /\ SunkIn(auto) = (before \cup run.demote) \ run.restore
            /\ SaysRight(audit, before)
      BY <3>1 DEF AuditFollows
    <3>3. PICK refused \in SUBSET (run.demote \cup run.restore) :
            audit' = [t \in Targets |-> CASE t \in refused -> "refused"
                                        [] t \in run.demote \ refused -> "sunk"
                                        [] t \in run.restore \ refused -> "in place"
                                        [] OTHER -> audit[t]]
      BY <2>8 DEF Announce
    <3>4. run.demote \cap run.restore = {}
      BY <3>1 DEF AuditFollows
    <3>5. SaysRight(audit', SunkIn(auto))
      <4> SUFFICES ASSUME NEW t \in Targets
                   PROVE  /\ audit'[t] = "sunk" => t \in SunkIn(auto)
                          /\ audit'[t] = "in place" => t \notin SunkIn(auto)
        BY DEF SaysRight
      <4>1. /\ audit[t] = "sunk" => t \in before
            /\ audit[t] = "in place" => t \notin before
        BY <3>2 DEF SaysRight
      <4>2. CASE t \in refused
        BY <3>3, <4>2
      <4>3. CASE t \in run.demote \ refused
        BY <3>2, <3>3, <3>4, <4>3
      <4>4. CASE t \in run.restore \ refused
        BY <3>2, <3>3, <3>4, <4>4
      <4>5. CASE t \notin run.demote \cup run.restore
        <5>1. audit'[t] = audit[t]
          BY <3>3, <4>5
        <5> QED
          BY <3>2, <4>1, <4>5, <5>1
      <4> QED
        BY <4>2, <4>3, <4>4, <4>5
    <3>6. SunkIn(auto') = SunkIn(auto)
      BY <3>1
    <3> QED
      BY <3>1, <3>5, <3>6, NothingSunk DEF AuditFollows
  <2>9. CASE Crash
    BY <2>9 DEF Crash
  <2>10. CASE ResetAuto
    BY <2>10 DEF ResetAuto, AuditFollows, InTurn
  <2>11. CASE ResetRows
    BY <2>11 DEF ResetRows, AuditFollows, InTurn
  <2>12. CASE ResetVerify
    <3>1. auto = NothingDemoted /\ auto' = NothingDemoted
      BY <2>12 DEF ResetVerify, InTurn
    <3>2. pc \in {"idle", "due"} /\ pc' = pc /\ run' = run
      BY <2>12 DEF ResetVerify, InTurn
    <3>3. SaysRight(audit', {})
      <4>1. CASE audit' = NothingLogged
        BY <4>1, NothingSunk
      <4>2. CASE audit' = [t \in Targets |-> IF audit[t] = "sunk" THEN "refused" ELSE audit[t]]
        BY <4>2 DEF SaysRight
      <4> QED
        BY <2>12, <4>1, <4>2 DEF ResetVerify
    <3> QED
      BY <3>1, <3>2, <3>3, NothingSunk DEF AuditFollows
  <2>13. CASE Toggle
    BY <2>13 DEF Toggle, AuditFollows, SunkIn
  <2>14. CASE UNCHANGED vars
    BY <2>14 DEF vars, AuditFollows, SunkIn
  <2> QED
    BY <2>1, <2>2, <2>3, <2>4, <2>5, <2>6, <2>7, <2>8, <2>9, <2>10, <2>11, <2>12,
       <2>13, <2>14 DEF Next, Monitor, Reset
<1>3. TypeOK /\ AuditFollows => AuditAddsUp
  <2> SUFFICES ASSUME TypeOK, AuditFollows, Steady, NEW t \in Targets \ Refused(audit)
               PROVE  audit[t] = IF t \in Demoted THEN "sunk" ELSE "in place"
    BY DEF AuditAddsUp
  <2>1. audit[t] \in {"sunk", "in place"}
    BY DEF TypeOK, Logged, Refused
  <2>2. SaysRight(audit, SunkIn(auto))
    BY DEF AuditFollows, Steady
  <2> QED
    BY <2>1, <2>2 DEF SaysRight, SunkIn, Demoted
<1> QED
  BY <1>1, <1>2, <1>3, TypeCorrect, PTL DEF Spec
-----------------------------------------------------------------------------
(* The streaks and the evidence stay linked from run to run, so every      *)
(* change that is saved was earned and keeps to the contract.              *)

StreaksHold ==
  /\ pc \in {"idle", "due", "collected", "loading"} => run.demote = {} /\ run.restore = {}
  /\ pc # "autoSaved" /\ opc # "autoCleared" => Linked(auto, rows, evidence)
  /\ pc = "loading" => run.rows = rows
  /\ pc = "autoSaved" => Linked(auto, run.rows, evidence)
  /\ pc = "evaluated" =>
       /\ Linked(run.auto, run.rows, run.evidence)
       /\ \A t \in Targets : Earned(auto[t], run.auto[t], run.evidence[t])
       /\ Cardinality(run.demote \cup run.restore) <= MaxChanges
       /\ MovesOnly(run.demote \cup run.restore, auto, evidence, run.auto, run.evidence)

LEMMA ClearedLinked == Linked(NothingDemoted, NoRows, NoEvidence)
  BY DEF Linked, LinkedAt, NothingDemoted, NoRows, NoRow, NoEvidence

LEMMA StreaksKept ==
  ASSUME Faults \subseteq {"read", "auto", "audit"}, ~OperatorInterrupts
  PROVE  /\ Init => StreaksHold
         /\ TypeOK /\ InTurn /\ StreaksHold /\ [Next]_vars => StreaksHold'
<1>1. Init => StreaksHold
  BY NothingSunk, ClearedLinked DEF Init, StreaksHold
<1>2. ASSUME TypeOK, InTurn, StreaksHold, [Next]_vars PROVE StreaksHold'
  <2>1. CASE Tick
    <3>1. /\ pc \in {"idle", "due"} /\ pc' = "due" /\ opc = "idle" /\ opc' = "idle"
          /\ auto' = auto /\ run' = run
          /\ \A t \in Targets :
               /\ rows'[t] = [rows[t] EXCEPT !.age = Bump(@, MinChangeGap)]
               /\ evidence'[t] = [evidence[t] EXCEPT !.since = Bump(@, MinChangeGap)]
      BY <2>1 DEF Tick
    <3>2. ASSUME NEW t \in Targets PROVE LinkedAt(auto[t], rows'[t], evidence'[t])
      <4>1. rows[t] \in Row /\ evidence[t] \in Evidence
        BY <1>2 DEF TypeOK
      <4>2. LinkedAt(auto[t], rows[t], evidence[t])
        BY <1>2, <3>1 DEF StreaksHold, Linked
      <4>3. /\ rows'[t].bad = rows[t].bad /\ rows'[t].good = rows[t].good
            /\ rows'[t].rule = rows[t].rule
            /\ rows'[t].age = Bump(rows[t].age, MinChangeGap)
        BY <3>1, <4>1 DEF Row
      <4>4. /\ evidence'[t].hits = evidence[t].hits /\ evidence'[t].by = evidence[t].by
            /\ evidence'[t].calm = evidence[t].calm
            /\ evidence'[t].since = Bump(evidence[t].since, MinChangeGap)
        BY <3>1, <4>1 DEF Evidence
      <4> QED
        BY <4>2, <4>3, <4>4 DEF LinkedAt
    <3> QED
      BY <1>2, <3>1, <3>2 DEF StreaksHold, Linked
  <2>2. CASE Collect
    <3>1. (run'.demote = run.demote /\ run'.restore = run.restore) \/ run' = NoRun
      BY <1>2, <2>2 DEF Collect, Finish, TypeOK, Run
    <3>2. /\ pc = "due" /\ pc' \in {"collected", "idle"}
          /\ UNCHANGED <<auto, rows, opc, evidence>>
      BY <2>2 DEF Collect, Finish
    <3> QED
      BY <1>2, <3>1, <3>2, NothingSunk DEF StreaksHold
  <2>3. CASE LoadRows
    <3>1. run'.demote = run.demote /\ run'.restore = run.restore /\ run'.rows = rows
      BY <1>2, <2>3 DEF LoadRows, TypeOK, Run
    <3> QED
      BY <1>2, <2>3, <3>1 DEF LoadRows, StreaksHold
  <2>4. CASE SkipUnreadable
    BY <1>2, <2>4, NothingSunk DEF SkipUnreadable, Finish, StreaksHold
  <2>5. CASE Evaluate
    <3>1. /\ pc = "loading" /\ pc' = "evaluated" /\ opc = "idle" /\ opc' = "idle"
          /\ UNCHANGED <<auto, rows, evidence>>
      BY <1>2, <2>5 DEF Evaluate, InTurn
    <3>2. Linked(auto, run.rows, evidence) /\ run.demote = {} /\ run.restore = {}
      BY <1>2, <3>1 DEF StreaksHold
    <3>3. /\ Linked(run'.auto, run'.rows, run'.evidence)
          /\ \A t \in Targets : Earned(auto[t], run'.auto[t], run'.evidence[t])
          /\ Cardinality(run'.demote \cup run'.restore) <= MaxChanges
          /\ MovesOnly(run'.demote \cup run'.restore, auto, evidence,
                       run'.auto, run'.evidence)
      BY <1>2, <2>5, <3>2, EvaluateMoves
    <3> QED
      BY <1>2, <3>1, <3>3 DEF StreaksHold
  <2>6. CASE SaveAuto
    <3>1. CASE auto' = run.auto /\ evidence' = run.evidence /\ pc' = "autoSaved"
      BY <1>2, <2>6, <3>1 DEF SaveAuto, Finish, StreaksHold
    <3>2. CASE Finish /\ UNCHANGED <<auto, evidence>>
      BY <1>2, <2>6, <3>2, NothingSunk DEF SaveAuto, Finish, StreaksHold
    <3> QED
      BY <2>6, <3>1, <3>2 DEF SaveAuto
  <2>7. CASE SaveRows
    <3>1. rows' = run.rows
      BY <2>7 DEF SaveRows
    <3> QED
      BY <1>2, <2>7, <3>1 DEF SaveRows, StreaksHold
  <2>8. CASE Announce
    BY <1>2, <2>8, NothingSunk DEF Announce, Finish, StreaksHold
  <2>9. CASE Crash
    BY <2>9 DEF Crash
  <2>10. CASE ResetAuto
    BY <1>2, <2>10 DEF ResetAuto, StreaksHold
  <2>11. CASE ResetRows
    <3>1. /\ auto = NothingDemoted /\ auto' = auto
          /\ rows' = NoRows /\ evidence' = NoEvidence
      BY <1>2, <2>11 DEF ResetRows, ClearsRows, InTurn
    <3>2. pc \in {"idle", "due"} /\ pc' = pc /\ run' = run
      BY <1>2, <2>11 DEF ResetRows, InTurn
    <3> QED
      BY <1>2, <3>1, <3>2, ClearedLinked DEF StreaksHold
  <2>12. CASE ResetVerify
    <3>1. auto = NothingDemoted
      BY <1>2, <2>12 DEF ResetVerify, InTurn
    <3>2. UNCHANGED <<auto, rows, evidence, pc, run>> /\ opc = "rowsCleared"
      BY <2>12, <3>1 DEF ResetVerify
    <3> QED
      BY <1>2, <3>2 DEF StreaksHold
  <2>13. CASE Toggle
    BY <1>2, <2>13 DEF Toggle, StreaksHold
  <2>14. CASE UNCHANGED vars
    BY <1>2, <2>14 DEF vars, StreaksHold
  <2> QED
    BY <1>2, <2>1, <2>2, <2>3, <2>4, <2>5, <2>6, <2>7, <2>8, <2>9, <2>10, <2>11,
       <2>12, <2>13, <2>14 DEF Next, Monitor, Reset
<1> QED
  BY <1>1, <1>2

\* Who writes the demotions: a saved evaluation, a reset, nobody else.
LEMMA WhoMoves ==
  ASSUME [Next]_vars, ~SaveAuto, ~ResetAuto, InTurn
  PROVE  auto' = auto
<1>1. CASE ResetVerify
  BY <1>1 DEF ResetVerify, InTurn
<1>2. CASE ~ResetVerify
  BY <1>2 DEF Next, Monitor, Reset, Tick, Collect, LoadRows, SkipUnreadable, Evaluate,
     SaveRows, Announce, Crash, ResetRows, Toggle, vars
<1> QED
  BY <1>1, <1>2

\* A protocol sinks only on DemoteAfterBad evaluations in a row in which a
\* rule fired on it, and returns only after its own rule was silent in
\* RestoreAfterGood evaluations that had that rule's data (CascadeMonitor's
\* ChangesAreEarned; the streaks of evaluate, saved and loaded again).
THEOREM EveryChangeIsEarned ==
  Faults \subseteq {"read", "auto", "audit"} /\ ~OperatorInterrupts => (Spec => ChangesAreEarned)
<1> SUFFICES ASSUME Faults \subseteq {"read", "auto", "audit"}, ~OperatorInterrupts
             PROVE  Spec => ChangesAreEarned
  OBVIOUS
<1>1. Init => InTurn /\ StreaksHold
  BY TurnsKept, StreaksKept
<1>2. TypeOK /\ InTurn /\ StreaksHold /\ [Next]_vars => InTurn' /\ StreaksHold'
  BY TurnsKept, StreaksKept
<1>3. InTurn /\ StreaksHold /\ [Next]_vars =>
        [\A t \in Targets : Earned(auto[t], auto'[t], evidence'[t])
                            \/ (auto'[t] = None /\ opc' # "idle")]_vars
  <2> SUFFICES ASSUME InTurn, StreaksHold, [Next]_vars, NEW t \in Targets
               PROVE  Earned(auto[t], auto'[t], evidence'[t]) \/ (auto'[t] = None /\ opc' # "idle")
    OBVIOUS
  <2>1. CASE SaveAuto
    <3>1. CASE auto' = run.auto /\ evidence' = run.evidence
      BY <2>1, <3>1 DEF SaveAuto, StreaksHold
    <3>2. CASE auto' = auto
      BY <3>2 DEF Earned
    <3> QED
      BY <2>1, <3>1, <3>2 DEF SaveAuto
  <2>2. CASE ResetAuto
    BY <2>2 DEF ResetAuto, ClearsAuto, NothingDemoted
  <2>3. CASE ~SaveAuto /\ ~ResetAuto
    BY <2>3, WhoMoves DEF Earned
  <2> QED
    BY <2>1, <2>2, <2>3
<1>4. [\A t \in Targets : Earned(auto[t], auto'[t], evidence'[t])
                          \/ (auto'[t] = None /\ opc' # "idle")]_vars
      => /\ [\A t \in Targets : auto[t] = None /\ auto'[t] # None =>
                evidence'[t].hits = DemoteAfterBad /\ evidence'[t].by = auto'[t]]_vars
         /\ [\A t \in Targets : auto[t] # None /\ auto'[t] = None
                                /\ opc = "idle" /\ opc' = "idle"
                => evidence'[t].calm = RestoreAfterGood]_vars
  BY DEF Earned
<1> QED
  BY <1>1, <1>2, <1>3, <1>4, TypeCorrect, PTL
  DEF Spec, ChangesAreEarned, DemoteNeedsEvidence, RestoreNeedsSilence
-----------------------------------------------------------------------------
(* The refinement: a tick is the contract's Tick, a saved evaluation its   *)
(* Adjust, a reset its Undo and then its Forget; all else stutters.        *)

Resting == [t \in Targets |-> evidence[t].since]

LEMMA SaveAdjusts ==
  ASSUME TypeOK, StreaksHold, SaveAuto
  PROVE  \/ \E moved \in SUBSET Targets : Contract!Adjust(moved)
         \/ UNCHANGED <<auto, evidence>>
<1>1. CASE auto' = run.auto /\ evidence' = run.evidence
  <2>1. /\ run.demote \cup run.restore \in SUBSET Targets
        /\ auto \in [Targets -> Rules \cup {None}]
        /\ run.auto \in [Targets -> Rules \cup {None}]
    BY DEF TypeOK, Run
  <2>2. PICK moved \in SUBSET Targets : moved = run.demote \cup run.restore
    BY <2>1
  <2>3. /\ Cardinality(moved) <= MaxChanges
        /\ MovesOnly(moved, auto, evidence, auto', evidence')
    BY <1>1, <2>2 DEF SaveAuto, StreaksHold
  <2>4. \A t \in moved : Resting[t] = MinChangeGap
    BY <2>3 DEF MovesOnly, Resting
  <2>5. Demoted' = (Demoted \ moved) \cup (moved \ Demoted)
    BY <2>1, <2>3 DEF MovesOnly, Demoted
  <2>6. Resting' = [t \in Targets |-> IF t \in moved THEN 0 ELSE Resting[t]]
    BY <2>3 DEF MovesOnly, Resting
  <2>7. Contract!Cardinality(moved) = Cardinality(moved)
    BY DEF Contract!Cardinality, Cardinality
  <2>8. Contract!Adjust(moved)
    BY <2>3, <2>4, <2>5, <2>6, <2>7 DEF Contract!Adjust, Resting
  <2> QED
    BY <2>8
<1> QED
  BY <1>1 DEF SaveAuto

\* The monitor and the operator's reset keep to CascadeContract: a run moves at
\* most MaxChanges targets and none that moved in the last MinChangeGap ticks,
\* and a reset puts everything back (CascadeMonitor's KeepsContract).
THEOREM ContractKept ==
  Faults \subseteq {"read", "auto", "audit"} /\ ~OperatorInterrupts => (Spec => KeepsContract)
<1> SUFFICES ASSUME Faults \subseteq {"read", "auto", "audit"}, ~OperatorInterrupts
             PROVE  Spec => KeepsContract
  OBVIOUS
<1>1. Init => InTurn /\ StreaksHold
  BY TurnsKept, StreaksKept
<1>2. TypeOK /\ InTurn /\ StreaksHold /\ [Next]_vars => InTurn' /\ StreaksHold'
  BY TurnsKept, StreaksKept
<1>3. Init => Contract!Init
  BY DEF Init, Contract!Init, Contract!Fresh, Demoted, NothingDemoted, NoEvidence
<1>4. TypeOK /\ InTurn /\ StreaksHold /\ [Next]_vars
      => [Contract!Next]_<<Demoted, Resting>>
  <2> SUFFICES ASSUME TypeOK, InTurn, StreaksHold, [Next]_vars
               PROVE  Contract!Next \/ UNCHANGED <<Demoted, Resting>>
    OBVIOUS
  <2>1. CASE Tick
    <3>1. \A t \in Targets : evidence[t] \in Evidence
      BY DEF TypeOK
    <3>2. \A t \in Targets : evidence'[t].since = Bump(evidence[t].since, MinChangeGap)
      BY <2>1, <3>1 DEF Tick, Evidence
    <3>3. \A t \in Targets : evidence[t].since \in 0..MinChangeGap /\ MinChangeGap \in Nat
      BY <3>1, ConstantsOK DEF Evidence, ConstantsOK
    <3>4. Resting' = [t \in Targets |-> IF Resting[t] < MinChangeGap
                                        THEN Resting[t] + 1 ELSE Resting[t]]
      BY <3>2, <3>3 DEF Resting, Bump
    <3>5. Demoted' = Demoted
      BY <2>1 DEF Tick, Demoted
    <3> QED
      BY <3>4, <3>5 DEF Contract!Next, Contract!Tick, Resting
  <2>2. CASE SaveAuto
    <3>1. CASE \E moved \in SUBSET Targets : Contract!Adjust(moved)
      BY <3>1 DEF Contract!Next
    <3>2. CASE UNCHANGED <<auto, evidence>>
      BY <3>2 DEF Demoted, Resting
    <3> QED
      BY <2>2, <3>1, <3>2, SaveAdjusts
  <2>3. CASE ResetAuto
    <3>1. Demoted' = {} /\ Resting' = Resting
      BY <2>3 DEF ResetAuto, ClearsAuto, Demoted, NothingDemoted, Resting
    <3> QED
      BY <3>1 DEF Contract!Next, Contract!Undo, Resting
  <2>4. CASE ResetRows
    <3>1. Demoted' = Demoted
      BY <2>4 DEF ResetRows, Demoted
    <3>2. Resting' = [t \in Targets |-> MinChangeGap]
      BY <2>4 DEF ResetRows, ClearsRows, NoEvidence, Resting
    <3> QED
      BY <3>1, <3>2 DEF Contract!Next, Contract!Forget, Contract!Fresh, Resting
  <2>5. CASE ResetVerify
    BY <2>5 DEF ResetVerify, InTurn, Demoted, Resting
  <2>6. CASE ~Tick /\ ~SaveAuto /\ ~Reset
    <3>1. UNCHANGED <<auto, evidence>>
      BY <2>6 DEF Next, Monitor, Collect, LoadRows, SkipUnreadable, Evaluate,
         SaveRows, Announce, Crash, Toggle, vars
    <3> QED
      BY <3>1 DEF Demoted, Resting
  <2> QED
    BY <2>1, <2>2, <2>3, <2>4, <2>5, <2>6 DEF Reset
<1> QED
  BY <1>1, <1>2, <1>3, <1>4, TypeCorrect, PTL
  DEF Spec, KeepsContract, Contract!Spec, Resting
=============================================================================
