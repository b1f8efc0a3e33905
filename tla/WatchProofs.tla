---------------------------- MODULE WatchProofs ----------------------------
(***************************************************************************)
(* Theorems about what watches and steers the servers: the lockdown        *)
(* detector for every set of protocols and every number of evaluations,    *)
(* the election for every finite set of nodes, the breaker for every       *)
(* number of callers, the alerts for every set of keys, the calls for      *)
(* every pool, the rotation for any names; and about the host in which     *)
(* one of them moves.                                                      *)
(***************************************************************************)
EXTENDS MCWatch, DataLemmas

LEMMA BumpType ==
  ASSUME NEW limit \in Nat, NEW n \in 0..limit
  PROVE  Bump(n, limit) \in 0..limit
  BY DEF Bump

\* What the pure part of the module makes of a record is a record.
LEMMA DefaultType == Default \in Record
  BY ConstantsOK DEF Default, Record, Modes, ConstantsOK

LEMMA StreaksType ==
  ASSUME NEW r \in Record, NEW v
  PROVE  Streaks(r, v) \in Record
<1> DEFINE on == Bump(r.streakOn, OnAfter)
           off == Bump(r.streakOff, OffAfter)
<1>1. on \in 0..OnAfter /\ off \in 0..OffAfter
  BY BumpType, ConstantsOK DEF Record, ConstantsOK
<1>2. 0 \in 0..OnAfter /\ 0 \in 0..OffAfter
  BY ConstantsOK DEF ConstantsOK
<1> HIDE DEF on, off
<1>3. /\ [r EXCEPT !.streakOn = on, !.streakOff = 0] \in Record
      /\ [r EXCEPT !.streakOff = off, !.streakOn = 0] \in Record
  BY <1>1, <1>2 DEF Record
<1> QED
  BY <1>3 DEF Streaks, on, off

LEMMA FlippedType ==
  ASSUME NEW r \in Record, NEW v
  PROVE  Flipped(r, v) \in Record
  BY DEF Flipped, Record

LEMMA WithModeType ==
  ASSUME NEW r \in Record, NEW m \in Modes
  PROVE  WithMode(r, m) \in Record
  BY DEF WithMode, Record, Modes

LEMMA MeaningType ==
  ASSUME NEW p
  PROVE  Meaning(p) \in {"unclear", "shutdown", "healthy"}
  BY DEF Meaning

LEMMA TolerantReadType ==
  ASSUME store \in Record, NEW r \in TolerantRead
  PROVE  r \in Record
  BY DefaultType DEF TolerantRead
-----------------------------------------------------------------------------
\* Every variable keeps its type, whatever fails and however the detector's tick
\* and the operator's command interleave (Lockdown's TypeOK).
THEOREM TypeCorrect == Spec => []TypeOK
<1>1. Init => TypeOK
  BY DefaultType, ConstantsOK DEF Init, TypeOK, Modes, NoProof, ConstantsOK
<1>2. TypeOK /\ [Next]_vars => TypeOK'
  <2> SUFFICES ASSUME TypeOK, [Next]_vars PROVE TypeOK'
    OBVIOUS
  <2> USE DEF TypeOK
  <2>1. CASE Evaluate
    <3>1. PICK p \in Probes :
            LET v == Meaning(p)
                r == Flipped(Streaks(store, v), v)
            IN  /\ verdict' = v
                /\ IF v = "unclear" THEN UNCHANGED <<pc, draft>>
                   ELSE pc' = "writing" /\ draft' = r
      BY <2>1 DEF Evaluate
    <3>2. Flipped(Streaks(store, Meaning(p)), Meaning(p)) \in Record
      BY StreaksType, FlippedType
    <3>3. Meaning(p) \in {"unclear", "shutdown", "healthy"}
      BY MeaningType
    <3> QED
      BY <2>1, <3>1, <3>2, <3>3 DEF Evaluate
  <2>2. CASE Save
    <3>1. /\ Bump(proof.shutdown, OnAfter) \in 0..OnAfter
          /\ Bump(proof.healthy, OffAfter) \in 0..OffAfter
          /\ 0 \in 0..OnAfter /\ 0 \in 0..OffAfter
      BY BumpType, ConstantsOK DEF ConstantsOK
    <3>2. proof' \in [shutdown: 0..OnAfter, healthy: 0..OffAfter]
      BY <2>2, <3>1 DEF Save
    <3> QED
      BY <2>2, <3>2, DefaultType DEF Save
  <2>3. ASSUME NEW m \in Modes, Command(m) PROVE TypeOK'
    BY <2>3, TolerantReadType, WithModeType DEF Command
  <2>4. CASE CommandWrite
    BY <2>4 DEF CommandWrite
  <2>5. CASE FallbackRead
    BY <2>5, TolerantReadType, WithModeType DEF FallbackRead
  <2>6. CASE FallbackWrite
    BY <2>6 DEF FallbackWrite
  <2>7. CASE Verify
    BY <2>7, DefaultType DEF Verify, Modes
  <2>8. CASE UNCHANGED vars
    BY <2>8 DEF vars
  <2> QED
    BY <2>1, <2>2, <2>3, <2>4, <2>5, <2>6, <2>7, <2>8
       DEF Next, Detector, Operator
<1> QED
  BY <1>1, <1>2, PTL DEF Spec
-----------------------------------------------------------------------------
(* A pin and "active" agree: what the detector and the command carry       *)
(* between their read and their write agrees too, which is why a stale     *)
(* write can bring back an old record but never a mixture of two.          *)

LEMMA DefaultAgrees == Agrees(Default)
  BY DEF Agrees, Default

LEMMA FlippedAgrees ==
  ASSUME NEW r \in Record, Agrees(r), NEW v
  PROVE  Agrees(Flipped(Streaks(r, v), v))
<1> DEFINE s == Streaks(r, v)
<1>1. s \in Record
  BY StreaksType
<1>2. s.mode = r.mode /\ s.active = r.active /\ s.by = r.by
  BY DEF Streaks, Record
<1>3. Agrees(s)
  BY <1>2 DEF Agrees
<1> HIDE DEF s
<1>4. Agrees(Flipped(s, v))
  BY <1>1, <1>3 DEF Agrees, Flipped, Record
<1> QED
  BY <1>4 DEF s

LEMMA WithModeAgrees ==
  ASSUME NEW r \in Record, Agrees(r), NEW m \in Modes
  PROVE  Agrees(WithMode(r, m))
  BY DEF Agrees, WithMode, Record, Modes

AllAgree == Agrees(store) /\ Agrees(draft) /\ Agrees(edit)

\* The row is never pinned one way and active the other, in every interleaving of
\* the detector with the operator and with reads and writes that fail
\* (Lockdown's PinAgrees; set_mode, evaluate_lockdown and the fallback of
\* set_lockdown_mode).
THEOREM PinsAgree == Spec => []PinAgrees
<1>1. Init => AllAgree
  BY DefaultAgrees DEF Init, AllAgree
<1>2. TypeOK /\ AllAgree /\ [Next]_vars => AllAgree'
  <2> SUFFICES ASSUME TypeOK, AllAgree, [Next]_vars PROVE AllAgree'
    OBVIOUS
  <2>1. store \in Record /\ draft \in Record /\ edit \in Record /\ cmd \in Modes
    BY DEF TypeOK
  <2>2. \A r \in TolerantRead : r \in Record /\ Agrees(r)
    BY <2>1, DefaultType, DefaultAgrees DEF TolerantRead, AllAgree
  <2>3. \A r \in TolerantRead, m \in Modes : Agrees(WithMode(r, m))
    BY <2>2, WithModeAgrees
  <2>4. CASE Evaluate
    <3>1. \A v : Agrees(Flipped(Streaks(store, v), v))
      BY <2>1, FlippedAgrees DEF AllAgree
    <3>2. Agrees(draft)'
      BY <2>4, <3>1 DEF Evaluate, AllAgree, Agrees
    <3> QED
      BY <2>4, <3>2 DEF Evaluate, AllAgree, Agrees
  <2>5. CASE Save
    BY <2>5, DefaultAgrees DEF Save, AllAgree, Agrees
  <2>6. ASSUME NEW m \in Modes, Command(m) PROVE AllAgree'
    BY <2>3, <2>6 DEF Command, AllAgree, Agrees
  <2>7. CASE CommandWrite
    BY <2>7 DEF CommandWrite, AllAgree, Agrees
  <2>8. CASE FallbackRead
    BY <2>1, <2>3, <2>8 DEF FallbackRead, AllAgree, Agrees
  <2>9. CASE FallbackWrite
    BY <2>9 DEF FallbackWrite, AllAgree, Agrees
  <2>10. CASE Verify
    BY <2>10, DefaultAgrees DEF Verify, AllAgree, Agrees
  <2>11. CASE UNCHANGED vars
    BY <2>11 DEF vars, AllAgree, Agrees
  <2> QED
    BY <2>4, <2>5, <2>6, <2>7, <2>8, <2>9, <2>10, <2>11
       DEF Next, Detector, Operator
<1>3. AllAgree => PinAgrees
  BY DEF AllAgree, PinAgrees
<1> QED
  BY <1>1, <1>2, <1>3, TypeCorrect, PTL DEF Spec
-----------------------------------------------------------------------------
(* What holds when no command runs between the detector's read and its     *)
(* write: what each of them is about to write is made of the row as it is. *)

Separate ==
  /\ pc = "writing" =>
       /\ opc = "idle" /\ verdict \in {"shutdown", "healthy"}
       /\ draft = Flipped(Streaks(store, verdict), verdict)
  /\ opc \in {"writing", "rewriting"} =>
       \E r \in TolerantRead : edit = WithMode(r, cmd)

LEMMA FlippedFields ==
  ASSUME NEW r \in Record, NEW v
  PROVE  /\ Flipped(Streaks(r, v), v).mode = r.mode
         /\ v = "shutdown" =>
              /\ Flipped(Streaks(r, v), v).streakOn = Bump(r.streakOn, OnAfter)
              /\ Flipped(Streaks(r, v), v).streakOff = 0
         /\ v = "healthy" =>
              /\ Flipped(Streaks(r, v), v).streakOff = Bump(r.streakOff, OffAfter)
              /\ Flipped(Streaks(r, v), v).streakOn = 0
         /\ \/ /\ Flipped(Streaks(r, v), v).active = r.active
               /\ Flipped(Streaks(r, v), v).by = r.by
            \/ /\ v = "shutdown" /\ Bump(r.streakOn, OnAfter) >= OnAfter
               /\ r.mode = "auto" /\ ~r.active
               /\ Flipped(Streaks(r, v), v).active
               /\ Flipped(Streaks(r, v), v).by = "auto"
            \/ /\ v = "healthy" /\ Bump(r.streakOff, OffAfter) >= OffAfter
               /\ r.mode = "auto" /\ r.active /\ r.by = "auto"
               /\ ~Flipped(Streaks(r, v), v).active
               /\ Flipped(Streaks(r, v), v).by = "auto"
<1> DEFINE s == Streaks(r, v)
<1>1. s \in Record
  BY StreaksType
<1>2. /\ s.mode = r.mode /\ s.active = r.active /\ s.by = r.by
      /\ v = "shutdown" => s.streakOn = Bump(r.streakOn, OnAfter) /\ s.streakOff = 0
      /\ v = "healthy" => s.streakOff = Bump(r.streakOff, OffAfter) /\ s.streakOn = 0
  BY DEF Streaks, Record
<1> HIDE DEF s
<1>3. /\ Flipped(s, v).mode = s.mode
      /\ Flipped(s, v).streakOn = s.streakOn /\ Flipped(s, v).streakOff = s.streakOff
      /\ \/ Flipped(s, v).active = s.active /\ Flipped(s, v).by = s.by
         \/ /\ v = "shutdown" /\ s.streakOn >= OnAfter /\ s.mode = "auto" /\ ~s.active
            /\ Flipped(s, v).active /\ Flipped(s, v).by = "auto"
         \/ /\ v = "healthy" /\ s.streakOff >= OffAfter /\ s.mode = "auto"
            /\ s.active /\ s.by = "auto"
            /\ ~Flipped(s, v).active /\ Flipped(s, v).by = "auto"
  BY <1>1 DEF Flipped, Record
<1>4. Flipped(s, v) = Flipped(Streaks(r, v), v)
  BY DEF s
<1> QED
  BY <1>2, <1>3, <1>4

LEMMA StaysSeparate ==
  ASSUME ~Interleaved, TypeOK, Separate, [Next]_vars
  PROVE  Separate'
<1>1. CASE Evaluate
  BY <1>1, MeaningType DEF Evaluate, Separate, TolerantRead
<1>2. CASE Save
  BY <1>2 DEF Save, Separate
<1>3. ASSUME NEW m \in Modes, Command(m) PROVE Separate'
  BY <1>3 DEF Command, Separate, TolerantRead
<1>4. CASE CommandWrite
  BY <1>4 DEF CommandWrite, Separate, TypeOK
<1>5. CASE FallbackRead
  BY <1>5 DEF FallbackRead, Separate, TolerantRead
<1>6. CASE FallbackWrite
  BY <1>6 DEF FallbackWrite, Separate
<1>7. CASE Verify
  BY <1>7 DEF Verify, Separate
<1>8. CASE UNCHANGED vars
  BY <1>8 DEF vars, Separate, TolerantRead
<1> QED
  BY <1>1, <1>2, <1>3, <1>4, <1>5, <1>6, <1>7, <1>8 DEF Next, Detector, Operator

\* Only a command changes the mode, when no command runs inside a tick
\* (Lockdown's PinHolds; DPIMonitor._run_lockdown writes the mode it read).
THEOREM PinsHoldApart == ~Interleaved => (Spec => PinHolds)
<1> SUFFICES ASSUME ~Interleaved PROVE Spec => PinHolds
  OBVIOUS
<1>1. Init => Separate
  BY DEF Init, Separate
<1>2. TypeOK /\ Separate /\ [Next]_vars => Separate'
  BY StaysSeparate
<1>3. TypeOK /\ Separate /\ [Next]_vars => [opc' = opc => store'.mode = store.mode]_vars
  <2> SUFFICES ASSUME TypeOK, Separate, Next, opc' = opc
               PROVE  store'.mode = store.mode
    BY DEF vars
  <2>1. CASE Save
    BY <2>1, FlippedFields DEF Save, Separate, TypeOK
  <2>2. CASE ~Save
    BY <2>2 DEF Next, Detector, Operator, Evaluate, Command, CommandWrite,
                FallbackRead, FallbackWrite, Verify
  <2> QED
    BY <2>1, <2>2
<1> QED
  BY <1>1, <1>2, <1>3, TypeCorrect, PTL DEF Spec, PinHolds

\* The evidence a streak stands for was really applied in a row.
Evidence ==
  /\ store.streakOn <= proof.shutdown /\ store.streakOff <= proof.healthy
  /\ opc \in {"writing", "rewriting"} =>
       edit.streakOn <= proof.shutdown /\ edit.streakOff <= proof.healthy

LEMMA WithModeFields ==
  ASSUME NEW r \in Record, NEW m \in Modes
  PROVE  /\ WithMode(r, m).streakOn = r.streakOn
         /\ WithMode(r, m).streakOff = r.streakOff
         /\ WithMode(r, m).mode = m
         /\ m = "auto" => WithMode(r, m).active = r.active /\ WithMode(r, m).by = r.by
         /\ m # "auto" => WithMode(r, m).active = (m = "on") /\ WithMode(r, m).by = "admin"
  BY DEF WithMode, Record, Modes

LEMMA TolerantStreaks ==
  ASSUME TypeOK, Evidence, NEW r \in TolerantRead, NEW m \in Modes
  PROVE  /\ WithMode(r, m).streakOn <= proof.shutdown
         /\ WithMode(r, m).streakOff <= proof.healthy
<1>1. r \in Record
  BY TolerantReadType DEF TypeOK
<1>2. r.streakOn <= proof.shutdown /\ r.streakOff <= proof.healthy
  BY DEF TolerantRead, Evidence, Default, TypeOK
<1> QED
  BY <1>1, <1>2, WithModeFields

LEMMA EvidenceStays ==
  ASSUME ~Interleaved, TypeOK, Separate, Evidence, [Next]_vars
  PROVE  Evidence'
<1>1. CASE Evaluate
  BY <1>1 DEF Evaluate, Evidence
<1>2. CASE Save
  <2>1. store \in Record /\ draft = Flipped(Streaks(store, verdict), verdict)
    BY <1>2 DEF Save, Separate, TypeOK
  <2>2. opc = "idle" /\ verdict \in {"shutdown", "healthy"}
    BY <1>2 DEF Save, Separate
  <2>3. CASE UNCHANGED <<store, proof>>
    BY <1>2, <2>2, <2>3 DEF Save, Evidence
  <2>4. CASE store' = draft /\ verdict = "shutdown"
    <3>1. draft.streakOn = Bump(store.streakOn, OnAfter) /\ draft.streakOff = 0
      BY <2>1, <2>4, FlippedFields
    <3>2. CASE proof' = [shutdown |-> Bump(proof.shutdown, OnAfter), healthy |-> 0]
      BY <1>2, <2>1, <2>2, <2>4, <3>1, <3>2, ConstantsOK
         DEF Save, Evidence, Bump, TypeOK, Record, ConstantsOK
    <3> QED
      BY <1>2, <2>3, <2>4, <3>2 DEF Save
  <2>5. CASE store' = draft /\ verdict = "healthy"
    <3>1. draft.streakOff = Bump(store.streakOff, OffAfter) /\ draft.streakOn = 0
      BY <2>1, <2>5, FlippedFields
    <3>2. CASE proof' = [shutdown |-> 0, healthy |-> Bump(proof.healthy, OffAfter)]
      BY <1>2, <2>1, <2>2, <2>5, <3>1, <3>2, ConstantsOK
         DEF Save, Evidence, Bump, TypeOK, Record, ConstantsOK
    <3> QED
      BY <1>2, <2>3, <2>5, <3>2 DEF Save
  <2> QED
    BY <1>2, <2>2, <2>3, <2>4, <2>5 DEF Save
<1>3. ASSUME NEW m \in Modes, Command(m) PROVE Evidence'
  BY <1>3, TolerantStreaks DEF Command, Evidence
<1>4. CASE CommandWrite
  BY <1>4 DEF CommandWrite, Evidence
<1>5. CASE FallbackRead
  BY <1>5, TolerantStreaks DEF FallbackRead, Evidence, TypeOK
<1>6. CASE FallbackWrite
  BY <1>6 DEF FallbackWrite, Evidence
<1>7. CASE Verify
  BY <1>7 DEF Verify, Evidence
<1>8. CASE UNCHANGED vars
  BY <1>8 DEF vars, Evidence
<1> QED
  BY <1>1, <1>2, <1>3, <1>4, <1>5, <1>6, <1>7, <1>8 DEF Next, Detector, Operator

\* A flip of the detector's has the full streak of evidence behind it, when no
\* command runs inside a tick, whatever fails (Lockdown's FlipNeedsProof; the
\* streak comparisons of evaluate_lockdown and the resets between them).
THEOREM FlipsAreProved == ~Interleaved => (Spec => FlipNeedsProof)
<1> SUFFICES ASSUME ~Interleaved PROVE Spec => FlipNeedsProof
  OBVIOUS
<1>1. Init => Separate /\ Evidence
  BY DEF Init, Separate, Evidence, Default, NoProof
<1>2. TypeOK /\ Separate /\ Evidence /\ [Next]_vars => Separate' /\ Evidence'
  BY StaysSeparate, EvidenceStays
<1>3. TypeOK /\ Separate /\ Evidence /\ [Next]_vars =>
        [opc = "idle" /\ opc' = "idle" /\ store'.active # store.active =>
           IF store'.active THEN proof'.shutdown = OnAfter
                            ELSE proof'.healthy = OffAfter]_vars
  <2> SUFFICES ASSUME TypeOK, Separate, Evidence, Next,
                      opc = "idle", opc' = "idle", store'.active # store.active
               PROVE  IF store'.active THEN proof'.shutdown = OnAfter
                                       ELSE proof'.healthy = OffAfter
    BY DEF vars
  <2>1. Save
    BY DEF Next, Detector, Operator, Evaluate, Command, CommandWrite,
           FallbackRead, FallbackWrite, Verify
  <2>2. /\ store' = draft /\ store \in Record
        /\ draft = Flipped(Streaks(store, verdict), verdict)
    BY <2>1 DEF Save, Separate, TypeOK
  <2>3. \/ verdict = "shutdown" /\ Bump(store.streakOn, OnAfter) >= OnAfter
             /\ store'.active
        \/ verdict = "healthy" /\ Bump(store.streakOff, OffAfter) >= OffAfter
             /\ ~store'.active
    BY <2>2, FlippedFields
  <2>4. proof' = IF verdict = "shutdown"
                 THEN [shutdown |-> Bump(proof.shutdown, OnAfter), healthy |-> 0]
                 ELSE [shutdown |-> 0, healthy |-> Bump(proof.healthy, OffAfter)]
    BY <2>1 DEF Save
  <2>5. /\ store.streakOn \in 0..OnAfter /\ store.streakOff \in 0..OffAfter
        /\ proof.shutdown \in 0..OnAfter /\ proof.healthy \in 0..OffAfter
        /\ store.streakOn <= proof.shutdown /\ store.streakOff <= proof.healthy
    BY <2>2 DEF TypeOK, Evidence, Record
  <2>6. CASE verdict = "shutdown"
    <3>1. Bump(proof.shutdown, OnAfter) = OnAfter
      BY <2>3, <2>5, <2>6, ConstantsOK DEF Bump, ConstantsOK
    <3> QED
      BY <2>3, <2>4, <2>6, <3>1
  <2>7. CASE verdict = "healthy"
    <3>1. Bump(proof.healthy, OffAfter) = OffAfter
      BY <2>3, <2>5, <2>7, ConstantsOK DEF Bump, ConstantsOK
    <3> QED
      BY <2>3, <2>4, <2>7, <3>1
  <2> QED
    BY <2>3, <2>6, <2>7
<1> QED
  BY <1>1, <1>2, <1>3, TypeCorrect, PTL DEF Spec, FlipNeedsProof
-----------------------------------------------------------------------------
\* Detector and operator keep to LockdownContract when no command runs inside a
\* tick and the row can be read: every step of theirs is one of its five moves or
\* changes nothing it speaks of (Lockdown's KeepsContract).  The run
\* lockdown_pin_race shows what is lost when a command interleaves.
THEOREM ContractKept ==
  ~Interleaved /\ "read" \notin Faults => (Spec => KeepsContract)
<1> SUFFICES ASSUME ~Interleaved, "read" \notin Faults PROVE Spec => KeepsContract
  OBVIOUS
<1>1. Init => Separate /\ Contract!Init
  BY DEF Init, Separate, Contract!Init, Default
<1>2. TypeOK /\ Separate /\ [Next]_vars => Separate'
  BY StaysSeparate
<1>3. TypeOK /\ Separate /\ [Next]_vars =>
        [Contract!Next]_<<store.mode, store.active, store.by>>
  <2> SUFFICES ASSUME TypeOK, Separate, Next
               PROVE  Contract!Next \/ UNCHANGED <<store.mode, store.active, store.by>>
    BY DEF vars
  <2> USE DEF Contract!Next, Contract!Pin, Contract!HandOver, Contract!Raise,
              Contract!Lower
  <2>1. TolerantRead = {store} /\ store \in Record
    BY DEF TolerantRead, TypeOK
  <2>2. CASE store' = store
    BY <2>2
  <2>3. CASE Save /\ store' = draft
    <3>1. draft = Flipped(Streaks(store, verdict), verdict)
      BY <2>3 DEF Save, Separate
    <3> QED
      BY <2>1, <2>3, <3>1, FlippedFields
  <2>4. CASE opc \in {"writing", "rewriting"} /\ store' = edit
    <3>1. edit = WithMode(store, cmd) /\ cmd \in Modes
      BY <2>1, <2>4 DEF Separate, TypeOK
    <3>2. store'.mode = cmd
      BY <2>1, <2>4, <3>1, WithModeFields
    <3>3. CASE cmd = "auto"
      BY <2>1, <2>4, <3>1, <3>2, <3>3, WithModeFields
    <3>4. CASE cmd # "auto"
      <4>1. store'.active = (cmd = "on") /\ store'.by = "admin"
        BY <2>1, <2>4, <3>1, <3>4, WithModeFields
      <4>2. cmd \in {"on", "off"}
        BY <3>1, <3>4 DEF Modes
      <4> QED
        BY <3>2, <4>1, <4>2
    <3> QED
      BY <3>3, <3>4
  <2> QED
    BY <2>2, <2>3, <2>4 DEF Next, Detector, Operator, Evaluate, Save, Command,
       CommandWrite, FallbackRead, FallbackWrite, Verify
<1> QED
  BY <1>1, <1>2, <1>3, TypeCorrect, PTL DEF Spec, KeepsContract, Contract!Spec
-----------------------------------------------------------------------------
(* What /lockdown answers: the row is read again before the answer is made *)
(* (_lockdown_set).  A failed read answers with the default row, whose     *)
(* mode is 'auto': it can confirm no pin.                                  *)

LEMMA AnswersCome ==
  ASSUME TypeOK, [Next]_vars, opc = "verify", opc' = "idle"
  PROVE  \E r \in TolerantRead : answer' = IF r.mode = cmd THEN cmd ELSE "failed"
<1>1. ~UNCHANGED vars
  BY DEF vars
<1>2. CASE Verify
  BY <1>2 DEF Verify
<1> QED
  BY <1>1, <1>2 DEF Next, Detector, Operator, Evaluate, Save, Command,
     CommandWrite, FallbackRead, FallbackWrite

\* The operator is never told that a pin took when the row does not have it,
\* whatever fails and whatever the detector writes meanwhile (_lockdown_set:
\* "must not walk away believing the mode flipped").
THEOREM PinsAreConfirmed ==
  Spec => [][answer' \in {"on", "off"} /\ opc = "verify" /\ opc' = "idle"
               => store.mode = answer']_vars
<1>1. TypeOK /\ [Next]_vars =>
        [answer' \in {"on", "off"} /\ opc = "verify" /\ opc' = "idle"
           => store.mode = answer']_vars
  <2> SUFFICES ASSUME TypeOK, [Next]_vars, answer' \in {"on", "off"},
                      opc = "verify", opc' = "idle"
               PROVE  store.mode = answer'
    OBVIOUS
  <2>1. PICK r \in TolerantRead :
          answer' = IF r.mode = cmd THEN cmd ELSE "failed"
    BY AnswersCome
  <2>2. r.mode = answer'
    BY <2>1
  <2>3. r # Default
    BY <2>2 DEF Default
  <2> QED
    BY <2>1, <2>2, <2>3 DEF TolerantRead
<1> QED
  BY <1>1, TypeCorrect, PTL DEF Spec

\* Every answer but "failed" is true of the row, however the command and the
\* detector interleave and whichever writes fail; a failed read is excluded
\* because /lockdown auto takes the default row for a confirmation (Lockdown's
\* AnswersHold).
THEOREM AnswersAreTrue == "read" \notin Faults => (Spec => AnswersHold)
<1> SUFFICES ASSUME "read" \notin Faults PROVE Spec => AnswersHold
  OBVIOUS
<1>1. TypeOK /\ [Next]_vars =>
        [answer' # "failed" /\ opc = "verify" /\ opc' = "idle"
           => store.mode = cmd]_vars
  <2> SUFFICES ASSUME TypeOK, [Next]_vars, answer' # "failed",
                      opc = "verify", opc' = "idle"
               PROVE  store.mode = cmd
    OBVIOUS
  <2>1. TolerantRead = {store}
    BY DEF TolerantRead
  <2> QED
    BY <2>1, AnswersCome
<1> QED
  BY <1>1, TypeCorrect, PTL DEF Spec, AnswersHold, AnswerTrue

-----------------------------------------------------------------------------
(* The election: a step is, for every node, one of a few local moves.      *)

ElectState ==
  [up : BOOLEAN, role : {"follower", "candidate", "leader"}, term : 0..MaxTerm,
   voted : Node \union {NoNode}, leader : Node \union {NoNode},
   leaderTerm : 0..MaxTerm, votes : SUBSET Node, electing : BOOLEAN,
   timer : BOOLEAN, pulse : BOOLEAN, asks : 0..Cardinality(Node),
   askTerm : 0..MaxTerm]

\* What holds of a node by itself: type, watch, and who leads.
NodeSound(n, s) ==
  /\ s \in ElectState
  /\ s.up => /\ s.role # "leader" => s.timer
             /\ Led(s) => s.pulse /\ ~s.electing
  /\ Led(s) => ExitPeers(n) = {}
  /\ s.leader \in {NoNode, n}

\* A vote of the term stays.
VoteStays(s, z) == s.voted # NoNode /\ z.voted # s.voted => z.term > s.term

LEMMA FreshIsSound ==
  ASSUME NEW n \in Node PROVE NodeSound(n, FreshNode)
<1>1. Cardinality(Node) \in Nat
  BY ElectionConstants, FS_CardinalityType DEF ElectionConstants
<1> QED
  BY <1>1, ElectionConstants DEF NodeSound, FreshNode, ElectState, Led, ElectionConstants

LEMMA AsksAreFew ==
  ASSUME NEW n \in Node
  PROVE  Cardinality(ExitPeers(n)) \in 0..Cardinality(Node)
<1>1. ExitPeers(n) \subseteq Node /\ IsFiniteSet(Node)
  BY ElectionConstants DEF ElectionConstants, ExitPeers
<1>2. Cardinality(ExitPeers(n)) \in Nat /\ Cardinality(Node) \in Nat
  BY <1>1, FS_Subset, FS_CardinalityType
<1> QED
  BY <1>1, <1>2, FS_Subset

LEMMA ElectionStartedIs ==
  ASSUME NEW n \in Node, NEW s, NodeSound(n, s), s.up, s.term < MaxTerm, s.timer
  PROVE  /\ NodeSound(n, ElectionStarted(s, n))
         /\ ElectionStarted(s, n).term = s.term + 1
<1> DEFINE z == ElectionStarted(s, n)
           c == BecameCandidate(s, n)
<1> USE DEF ElectState
<1>1. s \in ElectState /\ s.up /\ s.timer /\ s.term + 1 \in 0..MaxTerm
  BY ElectionConstants DEF NodeSound, ElectionConstants
<1>2. /\ c \in ElectState /\ c.up /\ c.timer /\ c.role = "candidate"
      /\ c.leader = s.leader /\ c.term = s.term + 1
  BY <1>1 DEF BecameCandidate
<1> HIDE DEF c
<1>3. CASE ExitPeers(n) = {}
  <2>1. z = BecameLeader(c, n)
    BY <1>3 DEF ElectionStarted, c
  <2>2. /\ z \in ElectState /\ z.pulse /\ ~z.electing /\ z.role = "leader"
        /\ z.leader = n /\ z.term = c.term
    BY <1>2, <2>1 DEF BecameLeader
  <2> HIDE DEF z
  <2> QED
    BY <1>2, <1>3, <2>2 DEF NodeSound, z, Led
<1>4. CASE ExitPeers(n) # {}
  <2>1. z = [c EXCEPT !.asks = Cardinality(ExitPeers(n)), !.askTerm = c.term]
    BY <1>4 DEF ElectionStarted, c
  <2>2. /\ z \in ElectState /\ z.timer /\ z.role = "candidate"
        /\ z.leader = s.leader /\ z.term = c.term
    BY <1>2, <2>1, AsksAreFew
  <2> HIDE DEF z
  <2> QED
    BY <1>2, <2>2 DEF NodeSound, z, Led
<1> QED
  BY <1>3, <1>4

LEMMA VoteHandledIs ==
  ASSUME NEW n \in Node, NEW s, NodeSound(n, s), NEW c \in Node, NEW t \in 0..MaxTerm
  PROVE  /\ NodeSound(n, VoteHandled(s, c, t))
         /\ VoteStays(s, VoteHandled(s, c, t))
<1> DEFINE a == AdoptTerm(s, t)
           z == VoteHandled(s, c, t)
<1> USE DEF ElectState
<1>0. s \in ElectState /\ s.term \in 0..MaxTerm /\ MaxTerm \in Nat
  BY ElectionConstants DEF NodeSound, ElectionConstants
<1>1. /\ NodeSound(n, a) /\ a.term >= s.term /\ (t <= s.term => a = s)
      /\ (t > s.term => a.term = t)
  <2>1. CASE t > s.term
    <3>1. a = [s EXCEPT !.term = t, !.role = "follower", !.voted = NoNode,
                        !.leader = NoNode, !.leaderTerm = 0, !.timer = s.up]
      BY <1>0, <2>1 DEF AdoptTerm, TimerStarted
    <3>0. 0 \in 0..MaxTerm /\ s.up \in BOOLEAN
      BY <1>0
    <3> HIDE DEF a
    <3>2. /\ a \in ElectState /\ a.timer = s.up /\ a.up = s.up /\ a.role = "follower"
          /\ a.leader = NoNode /\ a.term = t
      BY <1>0, <3>0, <3>1
    <3> QED
      BY <1>0, <2>1, <3>2 DEF NodeSound, Led
  <2>2. CASE t <= s.term
    BY <1>0, <2>2 DEF AdoptTerm
  <2> QED
    BY <1>0, <2>1, <2>2
<1> HIDE DEF a
<1>2. CASE z = a
  BY <1>0, <1>1, <1>2 DEF VoteStays
<1>3. CASE a.voted \in {NoNode, c} /\ z = TimerStarted([a EXCEPT !.voted = c])
  <2>1. z = [a EXCEPT !.voted = c, !.timer = a.up]
    BY <1>1, <1>3 DEF TimerStarted, NodeSound
  <2>2. /\ z \in ElectState /\ z.timer = a.up /\ z.up = a.up /\ z.role = a.role
        /\ z.leader = a.leader /\ z.term = a.term /\ z.voted = c
        /\ z.pulse = a.pulse /\ z.electing = a.electing
    BY <1>1, <2>1 DEF NodeSound
  <2> HIDE DEF z
  <2>3. NodeSound(n, z)
    BY <1>1, <2>2 DEF NodeSound, Led
  <2>4. VoteStays(s, z)
    BY <1>0, <1>1, <1>3, <2>2 DEF VoteStays
  <2> QED
    BY <2>3, <2>4 DEF z
<1> QED
  BY <1>2, <1>3 DEF VoteHandled, a

LEMMA HealthAskedIs ==
  ASSUME NEW n \in Node, NEW s, NodeSound(n, s), s.up
  PROVE  /\ NodeSound(n, HealthAsked(s, n))
         /\ HealthAsked(s, n).voted = s.voted
<1> DEFINE z == HealthAsked(s, n)
<1> USE DEF ElectState
<1>1. CASE ~Led(s)
  BY <1>1 DEF HealthAsked
<1>2. CASE Led(s)
  <2> DEFINE b == [s EXCEPT !.pulse = FALSE, !.role = "follower", !.leader = NoNode,
                            !.leaderTerm = 0, !.timer = s.up]
  <2>0. s \in ElectState /\ ~(s.term > s.term) /\ ~(s.term < s.term)
    BY ElectionConstants DEF NodeSound, ElectionConstants
  <2>c. 0 \in 0..MaxTerm /\ s.up \in BOOLEAN
    BY <2>0, ElectionConstants DEF ElectionConstants
  <2>b. b \in ElectState /\ b.up = s.up /\ b.voted = s.voted
    BY <2>0, <2>c
  <2>a. SteppedDown(s) = b
    BY <2>0 DEF SteppedDown, TimerStarted
  <2> HIDE DEF b
  <2>1. z = [b EXCEPT !.leader = n, !.leaderTerm = s.term, !.timer = b.up]
    <3>1. z = TimerStarted([b EXCEPT !.leader = n, !.leaderTerm = s.term])
      BY <1>2, <2>0, <2>a DEF HealthAsked, HeartbeatHandled, Led
    <3> QED
      BY <2>b, <3>1 DEF TimerStarted
  <2>2. /\ z \in ElectState /\ z.timer = s.up /\ z.up = s.up /\ z.role = "follower"
        /\ z.leader = n /\ z.voted = s.voted
    <3>1. b.role = "follower"
      BY <2>0 DEF b
    <3> QED
      BY <2>0, <2>b, <2>1, <3>1
  <2> HIDE DEF z
  <2> QED
    BY <2>2 DEF NodeSound, Led, z
<1> QED
  BY <1>1, <1>2

ElectInv == crashes \in 0..MaxCrash /\ node \in [Node -> ElectState]
            /\ \A n \in Node : NodeSound(n, node[n])

LEMMA NodeMoves ==
  ASSUME ElectInv, ElectNext
  PROVE  /\ crashes' \in 0..MaxCrash /\ crashes' >= crashes
         /\ node' \in [Node -> ElectState]
         /\ \A n \in Node : /\ NodeSound(n, node'[n])
                            /\ VoteStays(node[n], node'[n]) \/ crashes' > crashes
<1> USE DEF ElectInv
<1>0. crashes \in Nat /\ MaxCrash \in Nat /\ MaxTerm \in Nat
  BY ElectionConstants DEF ElectionConstants
<1>1. PICK n \in Node :
         \/ ElectStart(n) \/ ElectStop(n) \/ ElectCrash(n)
         \/ ElectTimeout(n) \/ AskVote(n) \/ HeartbeatRound(n)
         \/ \E p \in Node : PeerChecked(n, p)
         \/ \E c \in Node \ {n}, t \in 1..MaxTerm : VoteRequested(n, c, t)
  BY DEF ElectNext
<1>2. ASSUME NEW p \in Node, NEW z, NodeSound(p, z), UNCHANGED crashes,
             node' = [node EXCEPT ![p] = z], VoteStays(node[p], z)
      PROVE  /\ crashes' \in 0..MaxCrash /\ crashes' >= crashes
             /\ node' \in [Node -> ElectState]
             /\ \A m \in Node : NodeSound(m, node'[m]) /\ VoteStays(node[m], node'[m])
  <2>1. z \in ElectState
    BY <1>2 DEF NodeSound
  <2>2. \A m \in Node : node'[m] = IF m = p THEN z ELSE node[m]
    BY <1>2
  <2>3. \A m \in Node : VoteStays(node[m], node[m])
    BY DEF VoteStays
  <2> QED
    BY <1>0, <1>2, <2>1, <2>2, <2>3
<1>3. NodeSound(n, node[n]) /\ node[n] \in ElectState
  OBVIOUS
<1>4. CASE ElectStart(n)
  <2> DEFINE z == TimerStarted([node[n] EXCEPT !.up = TRUE, !.role = "follower"])
  <2>1. z = [node[n] EXCEPT !.up = TRUE, !.role = "follower", !.timer = TRUE]
    BY <1>3 DEF TimerStarted, ElectState
  <2>2. NodeSound(n, z) /\ z.voted = node[n].voted
    BY <1>3, <2>1 DEF NodeSound, ElectState, Led
  <2>3. node' = [node EXCEPT ![n] = z] /\ UNCHANGED crashes
    BY <1>4 DEF ElectStart
  <2> QED
    BY <1>2, <2>2, <2>3 DEF VoteStays
<1>5. CASE ElectStop(n)
  <2> DEFINE s == [node[n] EXCEPT !.up = FALSE, !.timer = FALSE, !.pulse = FALSE]
             z == IF Led(s) THEN SteppedDown(s) ELSE s
  <2>1. /\ s \in ElectState /\ ~s.up /\ s.role = node[n].role
        /\ s.leader = node[n].leader /\ s.voted = node[n].voted
    BY <1>3 DEF ElectState
  <2> HIDE DEF s
  <2>2. NodeSound(n, z) /\ z.voted = node[n].voted
    <3>1. CASE Led(s)
      <4>1. z = [s EXCEPT !.pulse = FALSE, !.role = "follower", !.leader = NoNode,
                          !.leaderTerm = 0, !.timer = FALSE]
        BY <2>1, <3>1 DEF SteppedDown, TimerStarted, ElectState
      <4>2. 0 \in 0..MaxTerm
        BY <1>0
      <4> HIDE DEF z
      <4>3. /\ z \in ElectState /\ ~z.up /\ z.role = "follower"
            /\ z.leader = NoNode /\ z.voted = s.voted
        BY <2>1, <4>1, <4>2 DEF ElectState
      <4> QED
        BY <2>1, <4>3 DEF NodeSound, Led
    <3>2. CASE ~Led(s)
      BY <1>3, <2>1, <3>2 DEF NodeSound
    <3> QED
      BY <3>1, <3>2
  <2>3. node' = [node EXCEPT ![n] = z] /\ UNCHANGED crashes
    BY <1>5 DEF ElectStop, s
  <2> HIDE DEF z
  <2> QED
    BY <1>2, <2>2, <2>3 DEF VoteStays
<1>6. CASE ElectCrash(n)
  <2>1. NodeSound(n, FreshNode) /\ FreshNode \in ElectState
    BY FreshIsSound DEF NodeSound
  <2>2. node' = [node EXCEPT ![n] = FreshNode] /\ crashes' = crashes + 1
        /\ crashes < MaxCrash
    BY <1>6 DEF ElectCrash
  <2>3. \A m \in Node : node'[m] = IF m = n THEN FreshNode ELSE node[m]
    BY <2>2
  <2> QED
    BY <1>0, <2>1, <2>2, <2>3
<1>7. CASE ElectTimeout(n)
  <2>1. /\ node[n].up /\ node[n].timer /\ node[n].term < MaxTerm
        /\ node' = [node EXCEPT ![n] = ElectionStarted(node[n], n)]
        /\ UNCHANGED crashes
    BY <1>7 DEF ElectTimeout
  <2>2. node[n].term \in Nat
    BY <1>3 DEF ElectState
  <2>3. VoteStays(node[n], ElectionStarted(node[n], n))
    BY <1>3, <2>1, <2>2, ElectionStartedIs DEF VoteStays
  <2> QED
    BY <1>2, <1>3, <2>1, <2>3, ElectionStartedIs
<1>8. CASE AskVote(n)
  <2> DEFINE s == node[n]
             v == VoteHandled(s, n, s.askTerm)
             z == [v EXCEPT !.asks = s.asks - 1]
  <2>1. s.asks > 0 /\ node' = [node EXCEPT ![n] = z] /\ UNCHANGED crashes
    BY <1>8 DEF AskVote
  <2>2. s.askTerm \in 0..MaxTerm /\ s.asks - 1 \in 0..Cardinality(Node)
    <3>1. s.asks \in 0..Cardinality(Node) /\ s.askTerm \in 0..MaxTerm
      BY <1>3 DEF ElectState
    <3>2. Cardinality(Node) \in Nat
      BY ElectionConstants, FS_CardinalityType DEF ElectionConstants
    <3> QED
      BY <2>1, <3>1, <3>2
  <2>3. NodeSound(n, v) /\ VoteStays(s, v)
    BY <1>3, <2>2, VoteHandledIs
  <2> HIDE DEF v
  <2>4. /\ z \in ElectState /\ z.up = v.up /\ z.role = v.role /\ z.timer = v.timer
        /\ z.pulse = v.pulse /\ z.electing = v.electing /\ z.leader = v.leader
        /\ z.voted = v.voted /\ z.term = v.term
    BY <2>2, <2>3 DEF NodeSound, ElectState
  <2> HIDE DEF z
  <2>5. NodeSound(n, z)
    BY <2>3, <2>4 DEF NodeSound, Led
  <2>6. VoteStays(s, z)
    BY <2>3, <2>4 DEF VoteStays
  <2> QED
    BY <1>2, <2>1, <2>5, <2>6
<1>9. CASE HeartbeatRound(n)
  <2>1. UNCHANGED crashes
    BY <1>9 DEF HeartbeatRound
  <2>2. \A p \in Node : node'[p] =
          IF ~Led(node[n])
          THEN IF p = n THEN [node[n] EXCEPT !.pulse = FALSE] ELSE node[p]
          ELSE IF p \in PeersOf[n] /\ node[p].up THEN HealthAsked(node[p], p) ELSE node[p]
    BY <1>9 DEF HeartbeatRound
  <2>3. DOMAIN node' = Node /\ node' = [p \in Node |-> node'[p]]
    BY <1>9 DEF HeartbeatRound
  <2>4. ASSUME NEW p \in Node
        PROVE  NodeSound(p, node'[p]) /\ node'[p].voted = node[p].voted
    <3>1. NodeSound(p, node[p])
      OBVIOUS
    <3>2. CASE node'[p] = node[p]
      BY <3>1, <3>2
    <3>3. CASE ~Led(node[n]) /\ p = n
      <4> DEFINE z == [node[n] EXCEPT !.pulse = FALSE]
      <4>1. /\ z \in ElectState /\ z.up = node[n].up /\ z.role = node[n].role
            /\ z.timer = node[n].timer /\ z.leader = node[n].leader
            /\ z.voted = node[n].voted
        BY <1>3 DEF ElectState
      <4>2. node'[p] = z
        BY <2>2, <3>3
      <4> HIDE DEF z
      <4> QED
        BY <1>3, <3>3, <4>1, <4>2 DEF NodeSound, Led
    <3>4. CASE node[p].up /\ node'[p] = HealthAsked(node[p], p)
      BY <3>1, <3>4, HealthAskedIs
    <3> QED
      BY <2>2, <3>2, <3>3, <3>4
  <2>5. \A p \in Node : node'[p] \in ElectState
    BY <2>4 DEF NodeSound
  <2> QED
    BY <1>0, <2>1, <2>3, <2>4, <2>5 DEF VoteStays
<1>10. CASE \E p \in Node : PeerChecked(n, p)
  <2>1. PICK p \in Node : PeerChecked(n, p)
    BY <1>10
  <2>2. /\ node' = [node EXCEPT ![p] = HealthAsked(node[p], p)]
        /\ UNCHANGED crashes /\ node[p].up
    BY <2>1 DEF PeerChecked
  <2>3. NodeSound(p, HealthAsked(node[p], p)) /\ HealthAsked(node[p], p).voted = node[p].voted
    BY <2>2, HealthAskedIs
  <2> QED
    BY <1>2, <2>2, <2>3 DEF VoteStays
<1>11. CASE \E c \in Node \ {n}, t \in 1..MaxTerm : VoteRequested(n, c, t)
  <2>1. PICK c \in Node \ {n}, t \in 1..MaxTerm : VoteRequested(n, c, t)
    BY <1>11
  <2>2. /\ node' = [node EXCEPT ![n] = VoteHandled(node[n], c, t)]
        /\ UNCHANGED crashes
    BY <2>1 DEF VoteRequested
  <2>3. t \in 0..MaxTerm
    BY <1>0
  <2>4. NodeSound(n, VoteHandled(node[n], c, t)) /\ VoteStays(node[n], VoteHandled(node[n], c, t))
    BY <1>3, <2>3, VoteHandledIs
  <2> QED
    BY <1>2, <2>2, <2>4
<1> QED
  BY <1>1, <1>4, <1>5, <1>6, <1>7, <1>8, <1>9, <1>10, <1>11

LEMMA ElectInitSound == ElectInit => ElectInv
<1> SUFFICES ASSUME ElectInit PROVE ElectInv
  OBVIOUS
<1>1. \A n \in Node : node[n] = FreshNode
  BY DEF ElectInit
<1>2. \A n \in Node : NodeSound(n, FreshNode) /\ FreshNode \in ElectState
  BY FreshIsSound DEF NodeSound
<1> QED
  BY <1>1, <1>2, ElectionConstants DEF ElectInit, ElectInv, ElectionConstants

LEMMA ElectStepSound == ElectInv /\ [ElectNext]_electVars => ElectInv'
<1>1. CASE UNCHANGED electVars
  BY <1>1 DEF electVars, ElectInv
<1>2. ElectInv /\ ElectNext => ElectInv'
  BY NodeMoves DEF ElectInv
<1> QED
  BY <1>1, <1>2

\* What the wiring of the election amounts to, for any exit nodes and any lists
\* of peers: types, timers and heartbeat loops, and that only a node without exit
\* peers ever leads (Election's WatchKept and LeadsAlone).
THEOREM ElectionIsSound == ElectSpec => [](ElectTypeOK /\ WatchKept /\ LeadsAlone)
<1>1. ElectInit => ElectInv
  BY ElectInitSound
<1>2. ElectInv /\ [ElectNext]_electVars => ElectInv'
  BY ElectStepSound
<1>3. ElectInv => ElectTypeOK /\ WatchKept /\ LeadsAlone
  BY DEF ElectInv, ElectTypeOK, ElectState, WatchKept, LeadsAlone, NodeSound
<1> QED
  BY <1>1, <1>2, <1>3, PTL DEF ElectSpec

\* A node that stays up gives its vote of a term to one candidate, whatever the
\* others do and however its own tasks interleave (Election's OneVotePerTerm).
THEOREM VotesAreKept == ElectSpec => OneVotePerTerm
<1>1. ElectInit => ElectInv
  BY ElectInitSound
<1>2. ElectInv /\ [ElectNext]_electVars => ElectInv'
  BY ElectStepSound
<1>3. ElectInv /\ [ElectNext]_electVars =>
        [\A n \in Node :
           node[n].voted # NoNode /\ node'[n].voted # node[n].voted
             => node'[n].term > node[n].term \/ crashes' > crashes]_electVars
  BY NodeMoves DEF electVars, VoteStays
<1> QED
  BY <1>1, <1>2, <1>3, PTL DEF ElectSpec, OneVotePerTerm

-----------------------------------------------------------------------------
\* The circuit counts failures in a row: what it has counted, however often it
\* expired or was forgotten, is no more than what failed since an answer.
BreakerSound ==
  /\ call \in [Caller -> [at : {"idle", "sent", "waiting"}, signs : BOOLEAN,
                          tries : 0..MaxTries]]
  /\ peerFails \in Nat \union {Absent} /\ openLeft \in Absent..HoldTime
  /\ inARow \in 0..Threshold /\ signed \in 0..MaxSigned
  /\ \A k \in Caller : call[k].at = "waiting" => call[k].tries < MaxTries
  /\ peerFails >= Threshold => openLeft # Absent
  /\ peerFails <= inARow \/ inARow = Threshold

LEMMA IdleType ==
  /\ Idle \in [at : {"idle", "sent", "waiting"}, signs : BOOLEAN, tries : 0..MaxTries]
  /\ Idle.at = "idle"
  BY SyncConstants DEF SyncConstants, Idle

LEMMA BreakerInit == SyncInit => BreakerSound
<1>1. SyncInit => /\ call = [k \in Caller |-> Idle] /\ peerFails = Absent /\ openLeft = Absent
                  /\ inARow = 0 /\ signed = 0
  BY DEF SyncInit
<1> QED
  BY <1>1, IdleType, SyncConstants DEF SyncConstants, BreakerSound, Absent

LEMMA AnsweredSound ==
  ASSUME BreakerSound, NEW k \in Caller, Answered(k)
  PROVE  BreakerSound'
  BY IdleType, SyncConstants
     DEF SyncConstants, BreakerSound, Answered, RecordSuccess, Absent

LEMMA FailedSound ==
  ASSUME BreakerSound, NEW k \in Caller, Failed(k)
  PROVE  BreakerSound' /\ (openLeft' > openLeft => inARow' >= Threshold)
<1> USE SyncConstants DEF SyncConstants, BreakerSound, Absent
<1>1. FailsNow \in Nat /\ (FailsNow <= inARow + 1 \/ inARow = Threshold)
  BY DEF FailsNow
<1>2. /\ peerFails' = FailsNow
      /\ openLeft' = IF FailsNow >= Threshold THEN HoldTime ELSE openLeft
      /\ inARow' = IF inARow < Threshold THEN inARow + 1 ELSE inARow
      /\ UNCHANGED signed
  BY DEF Failed, RecordFailure
<1>3. /\ call' \in [Caller -> [at : {"idle", "sent", "waiting"}, signs : BOOLEAN,
                               tries : 0..MaxTries]]
      /\ \A j \in Caller : call'[j].at = "waiting" => call'[j].tries < MaxTries
  <2> DEFINE z == IF call[k].tries = MaxTries THEN Idle
                  ELSE [call[k] EXCEPT !.at = "waiting"]
  <2>1. call' = [call EXCEPT ![k] = z]
    BY DEF Failed
  <2>2. /\ z \in [at : {"idle", "sent", "waiting"}, signs : BOOLEAN, tries : 0..MaxTries]
        /\ z.at = "waiting" => z.tries < MaxTries
    BY IdleType
  <2> HIDE DEF z
  <2> QED
    BY <2>1, <2>2
<1>4. /\ peerFails' \in Nat /\ openLeft' \in Absent..HoldTime /\ inARow' \in 0..Threshold
      /\ peerFails' >= Threshold => openLeft' # Absent
      /\ peerFails' <= inARow' \/ inARow' = Threshold
      /\ openLeft' > openLeft => inARow' >= Threshold
  BY <1>1, <1>2
<1> QED
  BY <1>2, <1>3, <1>4

LEMMA RequestSound ==
  ASSUME BreakerSound, NEW k \in Caller, NEW signs \in BOOLEAN, RequestBegun(k, signs)
  PROVE  BreakerSound' /\ ~(openLeft' > openLeft)
<1> USE SyncConstants DEF SyncConstants, BreakerSound, Absent
<1>1. /\ call' \in [Caller -> [at : {"idle", "sent", "waiting"}, signs : BOOLEAN,
                               tries : 0..MaxTries]]
      /\ \A j \in Caller : call'[j].at = "waiting" => call'[j].tries < MaxTries
  BY DEF RequestBegun
<1>2. /\ \/ openLeft = 0 /\ peerFails' = 0 /\ openLeft' = Absent
         \/ UNCHANGED <<peerFails, openLeft>>
      /\ UNCHANGED inARow /\ signed' \in 0..MaxSigned
  BY DEF RequestBegun, CircuitAsked
<1> QED
  BY <1>1, <1>2

LEMMA OtherSyncSound ==
  ASSUME BreakerSound,
         \/ CircuitTime \/ PeerFlips \/ PeerReadded
         \/ \E k \in Caller : Garbled(k) \/ Retried(k)
  PROVE  BreakerSound' /\ ~(openLeft' > openLeft)
<1> USE SyncConstants DEF SyncConstants, BreakerSound, Absent
<1>1. CASE CircuitTime
  BY <1>1 DEF CircuitTime
<1>2. CASE PeerFlips
  BY <1>2 DEF PeerFlips
<1>3. CASE PeerReadded
  BY <1>3 DEF PeerReadded
<1>4. ASSUME NEW k \in Caller, Garbled(k)
      PROVE  BreakerSound' /\ ~(openLeft' > openLeft)
  BY <1>4, IdleType DEF Garbled
<1>5. ASSUME NEW k \in Caller, Retried(k)
      PROVE  BreakerSound' /\ ~(openLeft' > openLeft)
  <2> DEFINE z == [call[k] EXCEPT !.at = "sent", !.tries = call[k].tries + 1]
  <2>1. call' = [call EXCEPT ![k] = z]
    BY <1>5 DEF Retried
  <2>2. /\ z \in [at : {"idle", "sent", "waiting"}, signs : BOOLEAN, tries : 0..MaxTries]
        /\ z.at = "sent"
    BY <1>5 DEF Retried
  <2> HIDE DEF z
  <2> QED
    BY <1>5, <2>1, <2>2 DEF Retried
<1> QED
  BY <1>1, <1>2, <1>3, <1>4, <1>5

LEMMA BreakerStep ==
  BreakerSound /\ [SyncNext]_syncVars
    => BreakerSound' /\ [openLeft' > openLeft => inARow' >= Threshold]_syncVars
<1> SUFFICES ASSUME BreakerSound, [SyncNext]_syncVars
             PROVE  BreakerSound' /\ [openLeft' > openLeft => inARow' >= Threshold]_syncVars
  OBVIOUS
<1>1. CASE UNCHANGED syncVars
  BY <1>1 DEF syncVars, BreakerSound
<1>2. ASSUME NEW k \in Caller, Answered(k) PROVE ~(openLeft' > openLeft)
  BY <1>2, SyncConstants DEF Answered, RecordSuccess, BreakerSound,
     SyncConstants, Absent
<1> QED
  BY <1>1, <1>2, AnsweredSound, FailedSound, RequestSound, OtherSyncSound
     DEF SyncNext, CallerStep

\* The two flags; they are kept apart from the numbers.
SyncFlags == peerUp \in BOOLEAN /\ reached \in BOOLEAN

LEMMA FlagsStep == SyncFlags /\ [SyncNext]_syncVars => SyncFlags'
<1> SUFFICES ASSUME SyncFlags, [SyncNext]_syncVars PROVE SyncFlags'
  OBVIOUS
<1>1. \/ UNCHANGED <<peerUp, reached>>
      \/ peerUp' = ~peerUp /\ UNCHANGED reached
      \/ UNCHANGED peerUp /\ (reached' = TRUE \/ reached' = FALSE)
  BY Zenon DEF syncVars, SyncNext, CallerStep, CircuitTime, PeerFlips, PeerReadded,
     RequestBegun, Answered, Garbled, Failed, Retried
<1> QED
  BY <1>1, Zenon DEF SyncFlags

\* What every step of the client keeps.
LEMMA SyncSafe == SyncInit /\ [][SyncNext]_syncVars => SyncHolds
<1>1. BreakerSound /\ SyncFlags => SyncTypeOK /\ ThresholdOpens
  BY Zenon DEF BreakerSound, SyncFlags, SyncTypeOK, ThresholdOpens
<1>2. SyncInit => SyncFlags
  BY Zenon DEF SyncInit, SyncFlags
<1> QED
  BY <1>1, <1>2, BreakerInit, BreakerStep, FlagsStep, PTL DEF SyncHolds, OpensOnARow

\* A peer that failed Threshold times has its circuit set, whoever else retries and
\* whatever expires meanwhile; and it is set only after Threshold failures with no
\* answer among them, of any caller: for any callers, thresholds and times
\* (SyncClient's ThresholdOpens and OpensOnARow; _record_failure, _is_circuit_open).
THEOREM CircuitIsEarned == SyncSpec => SyncHolds
  BY SyncSafe, PTL DEF SyncSpec

-----------------------------------------------------------------------------
\* An alert still to be processed has its report counted already; a slot is free,
\* held by a worker, or held by one that is about to give it back.
AlertInv ==
  /\ AlertTypeOK
  /\ IsFiniteSet(inflight)
  /\ \A k \in DpiKey \union ProtocolKey :
       /\ fails[k] <= streak[k]
       /\ k \in todo => fails[k] < streak[k] \/ streak[k] = MinCycles
  /\ SlotsAddUp

LEMMA BucketsAreChecked ==
  ASSUME NEW c \in Checks, NEW k \in c, k \in DpiKey \union ProtocolKey
  PROVE  Bucketed(c)
  BY AlertConstants DEF AlertConstants, Checks, Bucketed

LEMMA ChecksAreKeys ==
  ASSUME NEW c \in Checks PROVE c \subseteq AlertKey
  BY DEF Checks, AlertKey

LEMMA HeldSlots ==
  ASSUME IsFiniteSet(inflight), NEW k
  PROVE  /\ Cardinality(inflight \intersect DpiKey) \in Nat
         /\ k \in DpiKey /\ k \notin inflight =>
              Cardinality((inflight \union {k}) \intersect DpiKey)
                = Cardinality(inflight \intersect DpiKey) + 1
         /\ k \in DpiKey /\ k \in inflight =>
              Cardinality((inflight \ {k}) \intersect DpiKey)
                = Cardinality(inflight \intersect DpiKey) - 1
         /\ k \notin DpiKey =>
              /\ (inflight \union {k}) \intersect DpiKey = inflight \intersect DpiKey
              /\ (inflight \ {k}) \intersect DpiKey = inflight \intersect DpiKey
<1> DEFINE held == inflight \intersect DpiKey
<1>1. IsFiniteSet(held) /\ Cardinality(held) \in Nat
  BY FS_Subset, FS_CardinalityType
<1>2. ASSUME k \in DpiKey, k \notin inflight
      PROVE  Cardinality((inflight \union {k}) \intersect DpiKey) = Cardinality(held) + 1
  <2>1. (inflight \union {k}) \intersect DpiKey = held \union {k} /\ k \notin held
    BY <1>2
  <2> HIDE DEF held
  <2> QED
    BY <1>1, <2>1, FS_AddElement
<1>3. ASSUME k \in DpiKey, k \in inflight
      PROVE  Cardinality((inflight \ {k}) \intersect DpiKey) = Cardinality(held) - 1
  <2>1. (inflight \ {k}) \intersect DpiKey = held \ {k} /\ k \in held
    BY <1>3
  <2> HIDE DEF held
  <2> QED
    BY <1>1, <2>1, FS_RemoveElement
<1> QED
  BY <1>1, <1>2, <1>3

LEMMA AlertInitSound == AlertInit => AlertInv
<1> SUFFICES ASSUME AlertInit PROVE AlertInv
  OBVIOUS
<1> USE DEF AlertInit
<1>1. inflight \intersect DpiKey = {} /\ IsFiniteSet(inflight)
  BY FS_EmptySet
<1>2. Cardinality(inflight \intersect DpiKey) = 0
  BY <1>1, FS_EmptySet
<1>3. AlertTypeOK
  BY AlertConstants DEF AlertConstants, AlertTypeOK
<1>4. SlotsAddUp
  BY <1>2, AlertConstants DEF AlertConstants, SlotsAddUp
<1>5. \A k \in DpiKey \union ProtocolKey : fails[k] <= streak[k] /\ k \notin todo
  BY DEF AlertKey
<1> QED
  BY <1>1, <1>3, <1>4, <1>5 DEF AlertInv

LEMMA AlertStepSound == AlertInv /\ [AlertNext]_alertVars => AlertInv'
<1> SUFFICES ASSUME AlertInv, [AlertNext]_alertVars PROVE AlertInv'
  OBVIOUS
<1> USE DEF AlertInv
<1>0. /\ MinCycles \in Nat /\ MinCycles > 0 /\ Repeat \in Nat /\ AckTime \in Nat
      /\ Repeat < AckTime /\ AgentSlots \in Nat
  BY AlertConstants DEF AlertConstants
<1>a. /\ fails \in [AlertKey -> 0..MinCycles] /\ streak \in [AlertKey -> 0..MinCycles]
      /\ quiet \in [AlertKey -> 0..AckTime]
  BY DEF AlertTypeOK
<1>b. DpiKey \union ProtocolKey \subseteq AlertKey
  BY DEF AlertKey
<1>1. CASE AlertTick
  <2>1. quiet' \in [AlertKey -> 0..AckTime] /\ checks' = Checks /\ todo = {}
        /\ UNCHANGED <<fails, tracked, todo, firing, inflight, late, slots, streak>>
    BY <1>0, <1>a, <1>1 DEF AlertTick
  <2> QED
    BY <2>1 DEF AlertTypeOK, SlotsAddUp
<1>2. ASSUME NEW c \in checks, CheckRun(c) PROVE AlertInv'
  <2>1. c \in Checks /\ c \subseteq AlertKey /\ todo = {} /\ checks' = checks \ {c}
        /\ UNCHANGED <<quiet, tracked, firing, inflight, late, slots>>
    BY <1>2, ChecksAreKeys DEF CheckRun, AlertTypeOK
  <2>2. CASE UNCHANGED <<fails, todo, streak>>
    BY <2>1, <2>2 DEF AlertTypeOK, SlotsAddUp
  <2>3. ASSUME NEW found \in SUBSET c, fails' = Healed(c, found), todo' = found,
               streak' = [k \in AlertKey |->
                          IF k \notin c THEN streak[k]
                          ELSE IF k \in found THEN UpTo(streak[k] + 1, MinCycles) ELSE 0]
        PROVE  AlertInv'
    <3>1. /\ fails' \in [AlertKey -> 0..MinCycles]
          /\ \A k \in AlertKey :
               fails'[k] = IF Bucketed(c) /\ k \in c \ found THEN 0 ELSE fails[k]
      BY <1>0, <1>a, <2>3 DEF Healed
    <3>2. \A n \in 0..MinCycles :
            /\ UpTo(n + 1, MinCycles) \in 0..MinCycles
            /\ n < UpTo(n + 1, MinCycles) \/ UpTo(n + 1, MinCycles) = MinCycles
            /\ n <= UpTo(n + 1, MinCycles)
      BY <1>0 DEF UpTo
    <3>3. streak' \in [AlertKey -> 0..MinCycles]
      BY <1>0, <1>a, <2>3, <3>2
    <3>4. ASSUME NEW k \in DpiKey \union ProtocolKey
          PROVE  /\ fails'[k] <= streak'[k]
                 /\ k \in todo' => fails'[k] < streak'[k] \/ streak'[k] = MinCycles
      <4>1. k \in AlertKey /\ fails[k] \in 0..MinCycles /\ streak[k] \in 0..MinCycles
            /\ fails[k] <= streak[k]
        BY <1>a, <1>b
      <4>2. k \in c => Bucketed(c)
        BY <2>1, BucketsAreChecked
      <4>3. CASE k \notin c
        BY <2>3, <3>1, <4>1, <4>3
      <4>4. CASE k \in c \ found
        BY <1>0, <2>3, <3>1, <4>1, <4>2, <4>4
      <4>5. CASE k \in found
        <5>1. fails'[k] = fails[k] /\ streak'[k] = UpTo(streak[k] + 1, MinCycles)
          BY <2>3, <3>1, <4>1, <4>5
        <5> QED
          BY <1>0, <3>2, <4>1, <5>1
      <4> QED
        BY <4>3, <4>4, <4>5
    <3>5. AlertTypeOK' /\ SlotsAddUp'
      BY <2>1, <2>3, <3>1, <3>3 DEF AlertTypeOK, SlotsAddUp
    <3> QED
      BY <2>1, <3>4, <3>5
  <2> QED
    BY <1>2, <2>2, <2>3 DEF CheckRun
<1>3. ASSUME NEW k \in todo, AlertProcessed(k) PROVE AlertInv'
  <2>1. k \in AlertKey /\ fails[k] \in 0..MinCycles
    BY <1>a DEF AlertTypeOK
  <2>2. fails' = [fails EXCEPT ![k] = UpTo(fails[k] + 1, MinCycles)]
        /\ todo' = todo \ {k} /\ tracked' = tracked \union {k}
        /\ firing' \in AlertKey \union {NoAlert}
        /\ UNCHANGED <<quiet, checks, inflight, late, slots, streak>>
    BY <1>3, <2>1 DEF AlertProcessed
  <2>3. /\ UpTo(fails[k] + 1, MinCycles) \in 0..MinCycles
        /\ UpTo(fails[k] + 1, MinCycles) <= fails[k] + 1
    BY <1>0, <2>1 DEF UpTo
  <2>4. fails' \in [AlertKey -> 0..MinCycles]
    BY <1>a, <2>2, <2>3
  <2>5. ASSUME NEW m \in DpiKey \union ProtocolKey
        PROVE  /\ fails'[m] <= streak'[m]
               /\ m \in todo' => fails'[m] < streak'[m] \/ streak'[m] = MinCycles
    <3>1. m \in AlertKey /\ streak[m] \in 0..MinCycles
      BY <1>a, <1>b
    <3>2. CASE m # k
      BY <1>a, <2>2, <3>1, <3>2
    <3>3. CASE m = k
      <4>1. fails'[k] = UpTo(fails[k] + 1, MinCycles) /\ k \notin todo'
        BY <1>a, <2>1, <2>2
      <4> QED
        BY <1>0, <2>1, <2>2, <2>3, <3>1, <3>3, <4>1
    <3> QED
      BY <3>2, <3>3
  <2>6. AlertTypeOK' /\ SlotsAddUp'
    BY <2>1, <2>2, <2>4 DEF AlertTypeOK, SlotsAddUp
  <2> QED
    BY <2>2, <2>5, <2>6
<1>4. CASE AlertFired
  <2>1. /\ firing \in AlertKey /\ firing' = NoAlert
        /\ UNCHANGED <<fails, tracked, checks, todo, late, streak>>
    BY <1>4 DEF AlertFired, AlertTypeOK
  <2>2. quiet' \in [AlertKey -> 0..AckTime]
    <3>1. quiet[firing] \in 0..AckTime
      BY <1>a, <2>1
    <3>2. Later(quiet[firing], Repeat) \in 0..AckTime
      BY <1>0, <3>1 DEF Later
    <3> QED
      BY <1>4, <1>a, <3>2 DEF AlertFired
  <2>3. /\ inflight' \subseteq AlertKey /\ IsFiniteSet(inflight')
        /\ slots' \in 0..AgentSlots /\ SlotsAddUp'
    <3>1. slots \in 0..AgentSlots /\ late \in Nat /\ inflight \subseteq AlertKey
      BY DEF AlertTypeOK
    <3>2. CASE UNCHANGED <<inflight, slots>>
      BY <2>1, <3>1, <3>2 DEF SlotsAddUp
    <3>3. CASE /\ firing \notin inflight /\ (firing \in DpiKey => slots > 0)
               /\ inflight' = inflight \union {firing}
               /\ slots' = IF firing \in DpiKey THEN slots - 1 ELSE slots
      <4>1. IsFiniteSet(inflight')
        BY <3>3, FS_AddElement
      <4> DEFINE held == Cardinality(inflight \intersect DpiKey)
                 held2 == Cardinality(inflight' \intersect DpiKey)
      <4>a. held \in Nat /\ held2 = IF firing \in DpiKey THEN held + 1 ELSE held
        BY <3>3, HeldSlots
      <4>b. slots + late + held = AgentSlots
        BY DEF SlotsAddUp
      <4> HIDE DEF held, held2
      <4>2. slots' \in 0..AgentSlots
        <5>1. CASE firing \in DpiKey
          BY <1>0, <3>1, <3>3, <5>1
        <5>2. CASE firing \notin DpiKey
          BY <3>1, <3>3, <5>2
        <5> QED
          BY <5>1, <5>2
      <4>c. slots' + late' + held2 = AgentSlots
        <5>1. CASE firing \in DpiKey
          BY <1>0, <2>1, <3>1, <3>3, <4>a, <4>b, <5>1
        <5>2. CASE firing \notin DpiKey
          BY <2>1, <3>3, <4>a, <4>b, <5>2
        <5> QED
          BY <5>1, <5>2
      <4>3. SlotsAddUp'
        BY <4>c DEF SlotsAddUp, held2
      <4> QED
        BY <2>1, <3>1, <3>3, <4>1, <4>2, <4>3
    <3> QED
      BY <1>4, <3>2, <3>3 DEF AlertFired, WorkerStarted
  <2> QED
    BY <2>1, <2>2, <2>3 DEF AlertTypeOK
<1>5. ASSUME NEW k \in AlertKey, AlertAcked(k) PROVE AlertInv'
  <2>1. quiet' = [quiet EXCEPT ![k] = Later(quiet[k], AckTime)]
        /\ fails' = [fails EXCEPT ![k] = 0]
        /\ UNCHANGED <<tracked, checks, todo, firing, inflight, late, slots, streak>>
    BY <1>5 DEF AlertAcked
  <2>2. Later(quiet[k], AckTime) \in 0..AckTime
    BY <1>0, <1>a DEF Later
  <2>3. quiet' \in [AlertKey -> 0..AckTime] /\ fails' \in [AlertKey -> 0..MinCycles]
    BY <1>0, <1>a, <2>1, <2>2
  <2>4. ASSUME NEW m \in DpiKey \union ProtocolKey
        PROVE  /\ fails'[m] <= streak'[m]
               /\ m \in todo' => fails'[m] < streak'[m] \/ streak'[m] = MinCycles
    <3>1. /\ m \in AlertKey /\ streak[m] \in 0..MinCycles /\ fails[m] \in 0..MinCycles
          /\ fails'[m] = IF m = k THEN 0 ELSE fails[m]
      BY <1>a, <1>b, <2>1
    <3> QED
      BY <1>0, <2>1, <3>1
  <2> QED
    BY <2>1, <2>3, <2>4 DEF AlertTypeOK, SlotsAddUp
<1>6. ASSUME NEW k \in AlertKey, TurnEnds(k) PROVE AlertInv'
  <2>1. /\ k \in inflight /\ inflight' = inflight \ {k}
        /\ late' = IF k \in DpiKey THEN late + 1 ELSE late
        /\ UNCHANGED <<fails, quiet, tracked, checks, todo, firing, slots, streak>>
    BY <1>6 DEF TurnEnds
  <2>2. late \in Nat /\ slots \in 0..AgentSlots
    BY DEF AlertTypeOK
  <2>3. IsFiniteSet(inflight')
    BY <2>1, FS_Subset
  <2>4. SlotsAddUp'
    <3> DEFINE held == Cardinality(inflight \intersect DpiKey)
               held2 == Cardinality(inflight' \intersect DpiKey)
    <3>1. held \in Nat /\ held2 = IF k \in DpiKey THEN held - 1 ELSE held
      BY <2>1, HeldSlots
    <3>2. slots + late + held = AgentSlots
      BY DEF SlotsAddUp
    <3> HIDE DEF held, held2
    <3>3. slots' + late' + held2 = AgentSlots
      <4>1. CASE k \in DpiKey
        BY <1>0, <2>1, <2>2, <3>1, <3>2, <4>1
      <4>2. CASE k \notin DpiKey
        BY <2>1, <3>1, <3>2, <4>2
      <4> QED
        BY <4>1, <4>2
    <3> QED
      BY <3>3 DEF SlotsAddUp, held2
  <2> QED
    BY <2>1, <2>2, <2>3, <2>4 DEF AlertTypeOK
<1>7. CASE SlotReleased
  <2>1. /\ late > 0 /\ late' = late - 1 /\ slots' = slots + 1
        /\ UNCHANGED <<fails, quiet, tracked, checks, todo, firing, inflight, streak>>
    BY <1>7 DEF SlotReleased
  <2>2. late \in Nat /\ slots \in 0..AgentSlots
    BY DEF AlertTypeOK
  <2>3. SlotsAddUp' /\ slots' \in 0..AgentSlots
    <3> DEFINE held == Cardinality(inflight \intersect DpiKey)
    <3>1. held \in Nat /\ held' = held
      BY <2>1, HeldSlots
    <3>2. slots + late + held = AgentSlots
      BY DEF SlotsAddUp
    <3>3. SlotsAddUp' <=> slots' + late' + held' = AgentSlots
      BY DEF SlotsAddUp
    <3> HIDE DEF held
    <3> QED
      BY <1>0, <2>1, <2>2, <3>1, <3>2, <3>3
  <2> QED
    BY <2>1, <2>2, <2>3 DEF AlertTypeOK
<1>8. CASE AlertRestart
  <2>1. inflight' \intersect DpiKey = {} /\ IsFiniteSet(inflight')
    BY <1>8, FS_EmptySet DEF AlertRestart
  <2>2. Cardinality(inflight' \intersect DpiKey) = 0
    BY <2>1, FS_EmptySet
  <2>3. AlertTypeOK'
    BY <1>0, <1>8 DEF AlertRestart, AlertTypeOK
  <2>4. SlotsAddUp'
    BY <1>0, <1>8, <2>2 DEF AlertRestart, SlotsAddUp
  <2>5. \A k \in DpiKey \union ProtocolKey : fails'[k] <= streak'[k] /\ k \notin todo'
    BY <1>8, <1>b DEF AlertRestart
  <2> QED
    BY <2>1, <2>3, <2>4, <2>5
<1>9. CASE UNCHANGED alertVars
  BY <1>9 DEF alertVars, AlertTypeOK, SlotsAddUp
<1> QED
  BY <1>1, <1>2, <1>3, <1>4, <1>5, <1>6, <1>7, <1>8, <1>9 DEF AlertNext, TickStep

\* What every step of the alert manager keeps.
LEMMA AlertSafe == AlertInit /\ [][AlertNext]_alertVars => []AlertsHold
<1>1. AlertInv => AlertTypeOK /\ FailsAreAStreak /\ SlotsAddUp
  BY DEF AlertInv, FailsAreAStreak
<1> QED
  BY <1>1, AlertInitSound, AlertStepSound, PTL DEF AlertsHold

\* For any checks, any keys and however the tick, the admin's button and the agent's
\* turns interleave: a bucket's count is never longer than its streak of reports, and
\* no slot of an agent is lost or given twice (AlertManager's FailsAreAStreak and
\* SlotsAddUp; run_once, _process_alert, _spawn_agent_worker).
THEOREM AlertsAddUp == AlertSpec => []AlertsHold
  BY AlertSafe, PTL DEF AlertSpec

-----------------------------------------------------------------------------
(* The calls.  An entry that worked ever since a call began, and that no   *)
(* other call marked, was marked before the call or never: so it stands    *)
(* before whatever the call marks itself.                                  *)

CallRecord ==
  [at : {"idle", "again", "post", "won", "lost", "closing", "counting", "mark", "failed"},
   entry : Entry \union {NoEntry}, tries : 0..CallTries, read : 0..OutageStreak,
   marked : SUBSET Entry, steady : SUBSET Entry]

Trying == {"post", "lost", "counting", "mark"}

\* What holds of a call, with the entries that work and those that cool down.
CallSound(r, works, cool) ==
  /\ r \in CallRecord
  /\ r.steady \subseteq works /\ r.marked \subseteq ToSet(cool)
  /\ r.marked \intersect r.steady = {}
  /\ \A x \in r.marked, y \in r.steady : <<x, y>> \notin Pairs(cool)
  /\ r.at \in Trying => r.entry \in Entry
  /\ r.at \in {"lost", "counting", "mark"} => r.entry \notin r.steady
  /\ r.at = "idle" => r = NoCall
  /\ r.at \in Trying \union {"idle", "again"} => r.tries < CallTries
  /\ r.at = "failed" => r.tries = CallTries
  /\ r.steady # {} => /\ Cardinality(r.marked) = r.tries
                      /\ r.at \in Trying => r.entry \notin r.marked

PoolSound ==
  /\ reachable \subseteq Entry /\ cooling \in Seq(Entry)
  /\ \A x : <<x, x>> \notin Pairs(cooling)
  /\ active \in Entry \union {NoEntry}

RecordSound ==
  /\ connFails \in 0..OutageStreak
  /\ outage \in [since : Since, pending : BOOLEAN]

CallInv ==
  /\ PoolSound /\ RecordSound
  /\ sending \in [Sender -> CallRecord]
  /\ \A s \in Sender : CallSound(sending[s], reachable, cooling)

LEMMA Numbers ==
  /\ CallTries \in Nat /\ CallTries > 0 /\ OutageStreak \in Nat /\ OutageStreak > 0
  /\ Len(Pool) \in Nat /\ Len(Pool) <= CallTries
  /\ Pool \in Seq(Entry) /\ Pool # <<>>
  BY CallConstants, LenProperties DEF CallConstants

LEMMA EntriesAreFew ==
  /\ IsFiniteSet(Entry) /\ Cardinality(Entry) \in Nat /\ Cardinality(Entry) <= Len(Pool)
  /\ Entry # {} /\ NoEntry \notin Entry
<1>1. Pool \in Seq(Entry)
  BY Numbers
<1>2. Entry # {}
  BY <1>1, Numbers, TailIs DEF Entry
<1>3. NoEntry \notin Entry
  BY CallConstants DEF CallConstants
<1> QED
  BY <1>1, <1>2, <1>3, MembersCount DEF Entry

LEMMA NoCallIsSound ==
  ASSUME NEW works, NEW cool
  PROVE  CallSound(NoCall, works, cool) /\ NoCall \in CallRecord
<1>1. Cardinality({}) = 0
  BY FS_EmptySet
<1>2. 0 \in 0..CallTries /\ 0 \in 0..OutageStreak /\ 0 < CallTries
  BY Numbers
<1>3. NoCall \in CallRecord
  BY <1>2 DEF NoCall, CallRecord
<1> QED
  BY <1>1, <1>2, <1>3 DEF CallSound, NoCall, Trying

\* An entry that was picked is not one the call has marked, as long as one entry
\* worked all the while.
LEMMA PickIsFresh ==
  ASSUME PoolSound
  PROVE  /\ PickProxy \in Entry
         /\ \A r : CallSound(r, reachable, cooling) /\ r.steady # {} => PickProxy \notin r.marked
<1> USE DEF PoolSound
<1>1. ToSet(cooling) \subseteq Entry
  BY ListIs
<1>2. CASE Entry \subseteq Cooled
  <2>1. PickProxy = Head(cooling)
    BY <1>2 DEF PickProxy
  <2>2. cooling # <<>>
    <3> SUFFICES ASSUME cooling = <<>> PROVE FALSE
      OBVIOUS
    <3>1. \A i \in DOMAIN cooling : FALSE
      BY EmptySeq
    <3>2. ToSet(cooling) = {}
      BY <3>1 DEF ToSet
    <3> QED
      BY <1>2, <3>2, EntriesAreFew DEF Cooled
  <2>3. /\ Head(cooling) \in ToSet(cooling)
        /\ \A y \in ToSet(cooling) : y # Head(cooling) => <<Head(cooling), y>> \in Pairs(cooling)
    BY <2>2, TailIs
  <2>4. ASSUME NEW r, CallSound(r, reachable, cooling), NEW y \in r.steady,
               Head(cooling) \in r.marked
        PROVE  FALSE
    <3>1. y \in ToSet(cooling) /\ y # Head(cooling)
      BY <1>2, <2>4 DEF CallSound, Cooled, CallRecord
    <3>2. <<Head(cooling), y>> \notin Pairs(cooling)
      BY <2>4 DEF CallSound
    <3> QED
      BY <2>3, <3>1, <3>2
  <2> QED
    BY <1>1, <2>1, <2>3, <2>4
<1>3. CASE ~(Entry \subseteq Cooled)
  <2>1. PickProxy \in Entry \ Cooled
    <3>1. CASE active \in Entry \ Cooled
      BY <1>3, <3>1 DEF PickProxy
    <3>2. CASE active \notin Entry \ Cooled
      <4> DEFINE T == {i \in DOMAIN Pool : Pool[i] \notin Cooled}
                 First(i) == Pool[i] \notin Cooled /\ \A j \in 1..(i - 1) : Pool[j] \in Cooled
      <4>1. DOMAIN Pool = 1..Len(Pool) /\ Len(Pool) \in Nat
            /\ \A x : x \in Entry <=> \E i \in DOMAIN Pool : Pool[i] = x
        BY Numbers, ListIs DEF Entry
      <4>2. T # {} /\ T \subseteq Nat
        BY <1>3, <4>1
      <4>3. PICK i \in T : \A j \in T : i <= j
        BY <4>2, LeastNatural
      <4>4. i \in DOMAIN Pool /\ First(i)
        <5>1. ASSUME NEW j \in 1..(i - 1) PROVE Pool[j] \in Cooled
          <6>1. j \in DOMAIN Pool /\ ~(i <= j)
            BY <4>1, <4>3
          <6> QED
            BY <4>3, <6>1
        <5> QED
          BY <4>3, <5>1
      <4>5. PickProxy = Pool[CHOOSE k \in DOMAIN Pool : First(k)]
        BY <1>3, <3>2 DEF PickProxy, FirstAlive
      <4> HIDE DEF First
      <4>6. PICK k \in DOMAIN Pool : PickProxy = Pool[k] /\ First(k)
        BY <4>4, <4>5
      <4> QED
        BY <4>1, <4>6 DEF First
    <3> QED
      BY <3>1, <3>2
  <2> QED
    BY <2>1 DEF CallSound, Cooled
<1> QED
  BY <1>2, <1>3

LEMMA OneCallMoves ==
  ASSUME CallInv, NEW s \in Sender, NEW r, sending' = [sending EXCEPT ![s] = r],
         CallSound(r, reachable, cooling), UNCHANGED <<reachable, cooling>>,
         active' \in Entry \union {NoEntry}, RecordSound'
  PROVE  CallInv'
<1>1. \A m \in Sender : sending'[m] = IF m = s THEN r ELSE sending[m]
  BY DEF CallInv
<1>2. r \in CallRecord
  BY DEF CallSound
<1>3. sending' \in [Sender -> CallRecord]
  BY <1>2 DEF CallInv
<1>4. \A m \in Sender : CallSound(sending'[m], reachable', cooling')
  BY <1>1 DEF CallInv
<1>5. PoolSound'
  BY DEF CallInv, PoolSound
<1> QED
  BY <1>3, <1>4, <1>5 DEF CallInv

\* A call that only moves on, from trying or from an answer.
LEMMA AtMoves ==
  ASSUME NEW works, NEW cool, NEW r, CallSound(r, works, cool),
         NEW a \in {"won", "lost", "closing", "counting", "mark"}, NEW n \in 0..OutageStreak,
         a \in {"lost", "counting", "mark"} =>
           r.at \in {"post", "lost", "counting"} /\ r.entry \notin r.steady
  PROVE  CallSound([r EXCEPT !.at = a, !.read = n], works, cool)
<1> DEFINE z == [r EXCEPT !.at = a, !.read = n]
<1>1. r \in CallRecord
  BY DEF CallSound
<1>2. /\ z \in CallRecord /\ z.at = a /\ z.entry = r.entry /\ z.tries = r.tries
      /\ z.marked = r.marked /\ z.steady = r.steady
  BY <1>1 DEF CallRecord
<1> HIDE DEF z
<1> QED
  <2>1. z.at \in Trying => r.at \in Trying /\ z.at \in {"lost", "counting", "mark"}
    BY <1>2 DEF Trying
  <2>2. CallSound(z, works, cool)
    BY <1>2, <2>1 DEF CallSound
  <2> QED
    BY <2>2 DEF z

LEMMA SuccessSound ==
  ASSUME CallInv, NEW s \in Sender, SuccessRead(s) \/ SuccessNoted(s)
  PROVE  CallInv'
<1> DEFINE r == sending[s]
<1>1. CallSound(r, reachable, cooling) /\ r \in CallRecord
  BY DEF CallInv, CallSound
<1>2. active \in Entry \union {NoEntry} /\ 0 \in 0..OutageStreak /\ 1 \in 0..OutageStreak
  BY Numbers DEF CallInv, PoolSound
<1>3. CallSound(NoCall, reachable, cooling)
  BY NoCallIsSound
<1>4. RecordSound
  BY DEF CallInv
<1>5. CASE SuccessRead(s)
  <2>1. /\ r.at = "won" /\ UNCHANGED <<reachable, cooling, active, outage>>
        /\ connFails' = connFails \/ connFails' = 0
    BY <1>5 DEF SuccessRead
  <2>2. RecordSound'
    BY <1>2, <1>4, <2>1 DEF RecordSound
  <2>3. CASE sending' = [sending EXCEPT ![s] = NoCall]
    BY <1>2, <1>3, <2>1, <2>2, <2>3, OneCallMoves
  <2>4. CASE sending' # [sending EXCEPT ![s] = NoCall]
    <3> DEFINE n == IF outage.since = "none" THEN 0 ELSE 1
    <3>1. sending' = [sending EXCEPT ![s] = [r EXCEPT !.at = "closing", !.read = n]]
      BY <1>5, <2>4 DEF SuccessRead, CallInv
    <3>2. n \in 0..OutageStreak
      BY <1>2
    <3> HIDE DEF n
    <3>3. CallSound([r EXCEPT !.at = "closing", !.read = n], reachable, cooling)
      BY <1>1, <3>2, AtMoves
    <3> QED
      BY <1>2, <2>1, <2>2, <3>1, <3>3, OneCallMoves
  <2> QED
    BY <2>3, <2>4
<1>6. CASE SuccessNoted(s)
  <2>1. /\ sending' = [sending EXCEPT ![s] = NoCall]
        /\ UNCHANGED <<reachable, cooling, active, connFails>>
        /\ outage' = outage \/ outage' = [since |-> "none", pending |-> TRUE]
    BY <1>6 DEF SuccessNoted
  <2>2. RecordSound'
    <3>1. [since |-> "none", pending |-> TRUE] \in [since : Since, pending : BOOLEAN]
      BY DEF Since
    <3> QED
      BY <1>4, <2>1, <3>1, Zenon DEF RecordSound
  <2> QED
    BY <1>2, <1>3, <2>1, <2>2, OneCallMoves
<1> QED
  BY <1>5, <1>6

LEMMA PickedSound ==
  ASSUME CallInv, NEW s \in Sender, EntryPicked(s)
  PROVE  CallInv'
<1> DEFINE r == sending[s]
           st == IF r.at = "idle" THEN reachable ELSE r.steady
           z == [r EXCEPT !.at = "post", !.entry = PickProxy, !.steady = st]
<1>1. CallSound(r, reachable, cooling) /\ r \in CallRecord /\ PoolSound
  BY DEF CallInv, CallSound
<1>2. /\ r.at \in {"idle", "again"} /\ sending' = [sending EXCEPT ![s] = z]
      /\ active' = PickProxy /\ UNCHANGED <<reachable, cooling, connFails, outage>>
  BY DEF EntryPicked, CallInv
<1>3. PickProxy \in Entry
  BY <1>1, PickIsFresh
<1>4. RecordSound'
  BY <1>2 DEF CallInv, RecordSound
<1>5. st \subseteq reachable /\ reachable \subseteq Entry
  BY <1>1 DEF CallSound, PoolSound
<1>6. /\ z \in CallRecord /\ z.at = "post" /\ z.entry = PickProxy /\ z.tries = r.tries
      /\ z.marked = r.marked /\ z.steady = st
  <2> HIDE DEF st
  <2> QED
    BY <1>1, <1>3, <1>5 DEF CallRecord
<1>7. CallSound(z, reachable, cooling)
  <2>1. r.tries < CallTries
    BY <1>1, <1>2 DEF CallSound, Trying
  <2>2. CASE r.at = "idle"
    <3>1. r = NoCall /\ r.marked = {} /\ r.tries = 0
      BY <1>1, <2>2 DEF CallSound, NoCall
    <3>2. Cardinality(r.marked) = r.tries
      BY <3>1, FS_EmptySet
    <3> HIDE DEF z, st, r
    <3> QED
      BY <1>3, <1>5, <1>6, <2>1, <3>1, <3>2 DEF CallSound, Trying
  <2>3. CASE r.at # "idle"
    <3>1. st = r.steady
      BY <2>3
    <3>2. r.steady # {} => PickProxy \notin r.marked
      BY <1>1, PickIsFresh
    <3> HIDE DEF z, st, r
    <3> QED
      BY <1>1, <1>3, <1>6, <2>1, <3>1, <3>2 DEF CallSound, Trying
  <2> QED
    BY <2>2, <2>3
<1> QED
  BY <1>2, <1>3, <1>4, <1>7, OneCallMoves

LEMMA AgainIs ==
  ASSUME NEW s \in Sender, sending[s].tries \in 0..CallTries, sending[s].tries < CallTries
  PROVE  /\ sending[s].tries + 1 \in 0..CallTries
         /\ \/ Again(s) = "again" /\ sending[s].tries + 1 < CallTries
            \/ Again(s) = "failed" /\ sending[s].tries + 1 = CallTries
  BY Numbers DEF Again

LEMMA AnswerSound ==
  ASSUME CallInv, NEW s \in Sender,
         \/ CallAnswered(s) \/ CallErred(s) \/ CallRefused(s)
         \/ FailureRead(s) \/ FailureNoted(s) \/ CallGivenUp(s)
  PROVE  CallInv'
<1> DEFINE r == sending[s]
<1>1. CallSound(r, reachable, cooling) /\ r \in CallRecord /\ r.read \in 0..OutageStreak
  BY DEF CallInv, CallSound, CallRecord
<1>2. active \in Entry \union {NoEntry} /\ connFails \in 0..OutageStreak /\ RecordSound
      /\ 0 \in 0..OutageStreak
  BY Numbers DEF CallInv, PoolSound, RecordSound
<1>3. UNCHANGED <<connFails, outage>> => RecordSound'
  BY <1>2 DEF RecordSound
<1>5. CASE CallAnswered(s)
  <2>1. /\ sending' = [sending EXCEPT ![s] = [r EXCEPT !.at = "won"]]
        /\ UNCHANGED <<reachable, cooling, active, connFails, outage>>
    BY <1>5 DEF CallAnswered, CallAt, CallInv
  <2>2. CallSound([r EXCEPT !.at = "won"], reachable, cooling)
    <3>1. CallSound([r EXCEPT !.at = "won", !.read = r.read], reachable, cooling)
      BY <1>1, AtMoves
    <3>2. [r EXCEPT !.at = "won", !.read = r.read] = [r EXCEPT !.at = "won"]
      BY <1>1 DEF CallRecord
    <3> HIDE DEF r
    <3> QED
      BY <3>1, <3>2
  <2> QED
    BY <1>2, <1>3, <2>1, <2>2, OneCallMoves
<1>6. CASE CallRefused(s)
  <2>1. /\ sending' = [sending EXCEPT ![s] = [r EXCEPT !.at = "lost"]]
        /\ UNCHANGED <<reachable, cooling, active, connFails, outage>>
        /\ r.at = "post" /\ r.entry \notin reachable
    BY <1>6 DEF CallRefused, CallAt, CallInv
  <2>2. r.entry \notin r.steady
    BY <1>1, <2>1 DEF CallSound
  <2>3. CallSound([r EXCEPT !.at = "lost"], reachable, cooling)
    <3>1. CallSound([r EXCEPT !.at = "lost", !.read = r.read], reachable, cooling)
      BY <1>1, <2>1, <2>2, AtMoves
    <3>2. [r EXCEPT !.at = "lost", !.read = r.read] = [r EXCEPT !.at = "lost"]
      BY <1>1 DEF CallRecord
    <3> HIDE DEF r
    <3> QED
      BY <3>1, <3>2
  <2> QED
    BY <1>2, <1>3, <2>1, <2>3, OneCallMoves
<1>7. CASE FailureRead(s)
  <2>1. /\ sending' = [sending EXCEPT ![s] = [r EXCEPT !.at = "counting", !.read = connFails]]
        /\ UNCHANGED <<reachable, cooling, active, connFails, outage>> /\ r.at = "lost"
    BY <1>7 DEF FailureRead, CallInv
  <2>2. r.entry \notin r.steady
    BY <1>1, <2>1 DEF CallSound
  <2>3. CallSound([r EXCEPT !.at = "counting", !.read = connFails], reachable, cooling)
    BY <1>1, <1>2, <2>1, <2>2, AtMoves
  <2> QED
    BY <1>2, <1>3, <2>1, <2>3, OneCallMoves
<1>8. CASE FailureNoted(s)
  <2>1. /\ sending' = [sending EXCEPT ![s] = [r EXCEPT !.at = "mark", !.read = 0]]
        /\ UNCHANGED <<reachable, cooling, active>> /\ r.at = "counting"
        /\ connFails' = IF r.read < OutageStreak THEN r.read + 1 ELSE OutageStreak
        /\ \/ outage' = outage
           \/ outage' = [outage EXCEPT !.since = "short"]
    BY <1>8 DEF FailureNoted, CallInv
  <2>2. r.entry \notin r.steady
    BY <1>1, <2>1 DEF CallSound
  <2>3. CallSound([r EXCEPT !.at = "mark", !.read = 0], reachable, cooling)
    BY <1>1, <1>2, <2>1, <2>2, AtMoves
  <2>4. connFails' \in 0..OutageStreak
    BY <1>1, <2>1, Numbers
  <2>5. outage' \in [since : Since, pending : BOOLEAN]
    BY <1>2, <2>1 DEF RecordSound, Since
  <2> QED
    BY <1>2, <2>1, <2>3, <2>4, <2>5, OneCallMoves DEF RecordSound
<1>9. CASE CallGivenUp(s)
  <2>1. /\ sending' = [sending EXCEPT ![s] = NoCall]
        /\ UNCHANGED <<reachable, cooling, active, connFails, outage>>
    BY <1>9 DEF CallGivenUp
  <2> QED
    BY <1>2, <1>3, <2>1, NoCallIsSound, OneCallMoves
<1>10. CASE CallErred(s)
  <2> DEFINE z == [r EXCEPT !.at = Again(s), !.tries = r.tries + 1, !.steady = {},
                            !.entry = NoEntry]
  <2>1. /\ sending' = [sending EXCEPT ![s] = z] /\ r.at = "post"
        /\ UNCHANGED <<reachable, cooling, active, connFails, outage>>
    BY <1>10 DEF CallErred, CallInv
  <2>2. /\ r.tries + 1 \in 0..CallTries
        /\ \/ Again(s) = "again" /\ r.tries + 1 < CallTries
           \/ Again(s) = "failed" /\ r.tries + 1 = CallTries
    <3>1. r.tries \in 0..CallTries /\ r.tries < CallTries
      BY <1>1, <2>1 DEF CallSound, CallRecord, Trying
    <3> QED
      BY <3>1, AgainIs
  <2>3. /\ z \in CallRecord /\ z.at = Again(s) /\ z.entry = NoEntry /\ z.tries = r.tries + 1
        /\ z.marked = r.marked /\ z.steady = {}
    BY <1>1, <2>2 DEF CallRecord
  <2> HIDE DEF z
  <2>4. CallSound(z, reachable, cooling)
    BY <1>1, <2>2, <2>3 DEF CallSound, Trying
  <2> QED
    BY <1>2, <1>3, <2>1, <2>4, OneCallMoves
<1> QED
  BY <1>5, <1>6, <1>7, <1>8, <1>9, <1>10

\* The mark: the entry goes behind all others, and no other call counts on it.
LEMMA MarkedSound ==
  ASSUME CallInv, NEW s \in Sender, EntryMarked(s)
  PROVE  CallInv'
<1> DEFINE r == sending[s]
           e == r.entry
           d == Without(e)
           z == [r EXCEPT !.at = Again(s), !.tries = r.tries + 1,
                          !.marked = r.marked \union {e}, !.entry = NoEntry]
<1>1. /\ r.at = "mark" /\ cooling' = Append(d, e)
      /\ active' = (IF active = e THEN NoEntry ELSE active)
      /\ sending' = [c \in Sender |->
           IF c = s THEN z ELSE [sending[c] EXCEPT !.steady = sending[c].steady \ {e}]]
      /\ UNCHANGED <<reachable, connFails, outage>>
  BY DEF EntryMarked
<1>2. /\ \A c \in Sender : CallSound(sending[c], reachable, cooling) /\ sending[c] \in CallRecord
      /\ reachable \subseteq Entry /\ cooling \in Seq(Entry) /\ RecordSound
      /\ \A x : <<x, x>> \notin Pairs(cooling)
      /\ active \in Entry \union {NoEntry}
  BY DEF CallInv, CallSound, PoolSound
<1>3. e \in Entry /\ e \notin r.steady /\ r.tries < CallTries
  BY <1>1, <1>2 DEF CallSound, Trying
<1>4. /\ d \in Seq(Entry) /\ ToSet(d) = ToSet(cooling) \ {e}
      /\ \A x, y : <<x, y>> \in Pairs(d) => <<x, y>> \in Pairs(cooling) /\ x # e /\ y # e
  BY <1>2, DropIs DEF Without
<1> HIDE DEF d, z, r, e
<1>5. /\ cooling' \in Seq(Entry) /\ ToSet(cooling') = ToSet(cooling) \union {e}
      /\ \A x, y : <<x, y>> \in Pairs(cooling') =>
           \/ <<x, y>> \in Pairs(cooling) /\ x # e /\ y # e
           \/ x # e /\ y = e
  BY <1>1, <1>3, <1>4, AppendIs
<1>6. PoolSound'
  BY <1>1, <1>2, <1>5 DEF PoolSound
<1>7. RecordSound'
  BY <1>1, <1>2 DEF RecordSound
<1>8. CallSound(z, reachable', cooling')
  <2>1. CallSound(r, reachable, cooling) /\ r \in CallRecord
    BY <1>2 DEF r
  <2>2. /\ r.tries + 1 \in 0..CallTries
        /\ \/ Again(s) = "again" /\ r.tries + 1 < CallTries
           \/ Again(s) = "failed" /\ r.tries + 1 = CallTries
    <3>1. r.tries \in 0..CallTries
      BY <2>1 DEF CallRecord
    <3> QED
      BY <1>3, <3>1, AgainIs DEF r
  <2>3. /\ z \in CallRecord /\ z.at = Again(s) /\ z.entry = NoEntry /\ z.tries = r.tries + 1
        /\ z.marked = r.marked \union {e} /\ z.steady = r.steady
    <3>1. r.marked \union {e} \in SUBSET Entry
      BY <1>3, <2>1 DEF CallRecord
    <3> QED
      BY <2>1, <2>2, <3>1 DEF CallRecord, z
  <2>4. z.steady # {} => Cardinality(z.marked) = z.tries
    <3> SUFFICES ASSUME z.steady # {} PROVE Cardinality(z.marked) = z.tries
      OBVIOUS
    <3>1. Cardinality(r.marked) = r.tries /\ e \notin r.marked
      BY <1>1, <2>1, <2>3 DEF CallSound, Trying, e, r
    <3>2. IsFiniteSet(r.marked)
      BY <2>1, EntriesAreFew, FS_Subset DEF CallRecord
    <3> QED
      BY <2>3, <3>1, <3>2, FS_AddElement
  <2>5. \A x \in z.marked, y \in z.steady : <<x, y>> \notin Pairs(cooling')
    <3> SUFFICES ASSUME NEW x \in r.marked \union {e}, NEW y \in r.steady,
                        <<x, y>> \in Pairs(cooling')
                 PROVE  FALSE
      BY <2>3
    <3>1. y # e
      BY <1>3
    <3>2. <<x, y>> \in Pairs(cooling) /\ x # e
      BY <1>5, <3>1
    <3> QED
      BY <2>1, <3>2 DEF CallSound
  <2> QED
    BY <1>1, <1>3, <1>5, <2>1, <2>2, <2>3, <2>4, <2>5 DEF CallSound, Trying
<1>9. ASSUME NEW c \in Sender, c # s
      PROVE  CallSound([sending[c] EXCEPT !.steady = sending[c].steady \ {e}],
                       reachable', cooling')
  <2> DEFINE q == sending[c]
             y == [q EXCEPT !.steady = q.steady \ {e}]
  <2>1. CallSound(q, reachable, cooling) /\ q \in CallRecord
    BY <1>2
  <2>2. /\ y \in CallRecord /\ y.at = q.at /\ y.entry = q.entry /\ y.tries = q.tries
        /\ y.marked = q.marked /\ y.steady = q.steady \ {e} /\ (q = NoCall => y = NoCall)
    <3>1. y \in CallRecord /\ y.at = q.at /\ y.entry = q.entry /\ y.tries = q.tries
          /\ y.marked = q.marked /\ y.steady = q.steady \ {e}
      BY <2>1 DEF CallRecord
    <3>2. q = NoCall => y = NoCall
      BY DEF NoCall
    <3> QED
      BY <3>1, <3>2
  <2> HIDE DEF q, y
  <2>3. \A v \in y.marked, w \in y.steady : <<v, w>> \notin Pairs(cooling')
    BY <1>5, <2>1, <2>2 DEF CallSound
  <2>4. CallSound(y, reachable', cooling')
    BY <1>1, <1>5, <2>1, <2>2, <2>3 DEF CallSound
  <2> QED
    BY <2>4 DEF q, y
<1>10. \A c \in Sender : CallSound(sending'[c], reachable', cooling')
  BY <1>1, <1>8, <1>9
<1>11. sending' \in [Sender -> CallRecord]
  <2>1. \A c \in Sender : sending'[c] \in CallRecord
    BY <1>10 DEF CallSound
  <2> QED
    BY <1>1, <2>1
<1> QED
  BY <1>6, <1>7, <1>10, <1>11 DEF CallInv

LEMMA CooledSound ==
  ASSUME CallInv, EntryCooled
  PROVE  CallInv'
<1>1. /\ cooling # <<>> /\ \A s \in Sender : Head(cooling) \notin sending[s].marked
      /\ cooling' = Tail(cooling)
      /\ UNCHANGED <<reachable, active, connFails, outage, sending>>
  BY DEF EntryCooled
<1>2. cooling \in Seq(Entry) /\ RecordSound /\ PoolSound
      /\ \A s \in Sender : CallSound(sending[s], reachable, cooling)
  BY DEF CallInv, PoolSound
<1>3. /\ cooling' \in Seq(Entry) /\ ToSet(cooling) \ {Head(cooling)} \subseteq ToSet(cooling')
      /\ \A x, y : <<x, y>> \in Pairs(cooling') => <<x, y>> \in Pairs(cooling)
  BY <1>1, <1>2, TailIs
<1>4. PoolSound' /\ RecordSound'
  BY <1>1, <1>2, <1>3 DEF PoolSound, RecordSound
<1>5. ASSUME NEW s \in Sender PROVE CallSound(sending[s], reachable, cooling')
  <2>1. sending[s].marked \subseteq ToSet(cooling')
    BY <1>1, <1>2, <1>3 DEF CallSound
  <2>2. CallSound(sending[s], reachable, cooling)
    BY <1>2
  <2> QED
    BY <1>3, <2>1, <2>2 DEF CallSound
<1> QED
  BY <1>1, <1>4, <1>5 DEF CallInv

LEMMA FlipSound ==
  ASSUME CallInv, NEW e \in Entry, EntryFlips(e)
  PROVE  CallInv'
<1>1. /\ reachable' = IF e \in reachable THEN reachable \ {e} ELSE reachable \union {e}
      /\ sending' = [s \in Sender |-> [sending[s] EXCEPT !.steady = sending[s].steady \ {e}]]
      /\ UNCHANGED <<cooling, active, connFails, outage>>
  BY DEF EntryFlips
<1>2. PoolSound' /\ RecordSound'
  BY <1>1 DEF CallInv, PoolSound, RecordSound
<1>3. ASSUME NEW c \in Sender
      PROVE  CallSound([sending[c] EXCEPT !.steady = sending[c].steady \ {e}],
                       reachable', cooling)
  <2> DEFINE q == sending[c]
             y == [q EXCEPT !.steady = q.steady \ {e}]
  <2>1. CallSound(q, reachable, cooling) /\ q \in CallRecord
    BY DEF CallInv, CallSound
  <2>2. /\ y \in CallRecord /\ y.at = q.at /\ y.entry = q.entry /\ y.tries = q.tries
        /\ y.marked = q.marked /\ y.steady = q.steady \ {e} /\ (q = NoCall => y = NoCall)
    <3>1. y \in CallRecord /\ y.at = q.at /\ y.entry = q.entry /\ y.tries = q.tries
          /\ y.marked = q.marked /\ y.steady = q.steady \ {e}
      BY <2>1 DEF CallRecord
    <3>2. q = NoCall => y = NoCall
      BY DEF NoCall
    <3> QED
      BY <3>1, <3>2
  <2> HIDE DEF q, y
  <2>3. CallSound(y, reachable', cooling)
    BY <1>1, <2>1, <2>2 DEF CallSound
  <2> QED
    BY <2>3 DEF q, y
<1>4. \A c \in Sender : CallSound(sending'[c], reachable', cooling')
  BY <1>1, <1>3
<1>5. sending' \in [Sender -> CallRecord]
  <2>1. \A c \in Sender : sending'[c] \in CallRecord
    BY <1>4 DEF CallSound
  <2> QED
    BY <1>1, <2>1
<1> QED
  BY <1>2, <1>4, <1>5 DEF CallInv

LEMMA CallInitSound == CallInit => CallInv
<1> SUFFICES ASSUME CallInit PROVE CallInv
  OBVIOUS
<1>1. /\ reachable = Entry /\ cooling = <<>> /\ active = NoEntry /\ connFails = 0
      /\ outage = [since |-> "none", pending |-> FALSE] /\ sending = [s \in Sender |-> NoCall]
  BY DEF CallInit
<1>2. cooling \in Seq(Entry) /\ \A x : <<x, x>> \notin Pairs(cooling)
  <2>1. cooling \in Seq(Entry) /\ DOMAIN cooling = {}
    BY <1>1, EmptySeq
  <2> QED
    BY <2>1, PairsAre
<1>3. [since |-> "none", pending |-> FALSE] \in [since : Since, pending : BOOLEAN]
  BY DEF Since
<1>4. RecordSound
  <2>1. connFails \in 0..OutageStreak
    BY <1>1, Numbers
  <2> QED
    BY <1>1, <1>3, <2>1, Zenon DEF RecordSound
<1>5. PoolSound
  BY <1>1, <1>2 DEF PoolSound
<1>6. /\ sending \in [Sender -> CallRecord]
      /\ \A s \in Sender : CallSound(sending[s], reachable, cooling)
  <2>1. CallSound(NoCall, reachable, cooling) /\ NoCall \in CallRecord
    BY NoCallIsSound
  <2> QED
    BY <1>1, <2>1
<1> QED
  BY <1>4, <1>5, <1>6 DEF CallInv

LEMMA CallStepSound == CallInv /\ [CallNext]_callVars => CallInv'
<1> SUFFICES ASSUME CallInv, [CallNext]_callVars PROVE CallInv'
  OBVIOUS
<1>1. CASE UNCHANGED callVars
  BY <1>1 DEF callVars, CallInv, PoolSound, RecordSound
<1>2. ASSUME UNCHANGED <<reachable, cooling, active, connFails, sending>>,
             outage' \in [since : Since, pending : BOOLEAN]
      PROVE  CallInv'
  BY <1>2 DEF CallInv, PoolSound, RecordSound
<1>3. outage \in [since : Since, pending : BOOLEAN]
  BY DEF CallInv, RecordSound
<1>4. CASE OutageAges
  <2>1. [outage EXCEPT !.since = "long"] \in [since : Since, pending : BOOLEAN]
    BY <1>3 DEF Since
  <2> QED
    BY <1>2, <1>4, <2>1 DEF OutageAges
<1>5. CASE TelegramChecked
  <2>1. [outage EXCEPT !.pending = FALSE] \in [since : Since, pending : BOOLEAN]
    BY <1>3
  <2> QED
    BY <1>2, <1>5, <2>1 DEF TelegramChecked
<1> QED
  BY <1>1, <1>4, <1>5, SuccessSound, PickedSound, AnswerSound, MarkedSound, CooledSound,
     FlipSound DEF CallNext, CallMoves

\* What the invariant says of the list of marks and of calls that give up.
LEMMA CallsAreSound == CallInv => CallTypeOK /\ TriedWhatWorks
<1> SUFFICES ASSUME CallInv PROVE CallTypeOK /\ TriedWhatWorks
  OBVIOUS
<1>1. \A s \in Sender : CallSound(sending[s], reachable, cooling) /\ sending[s] \in CallRecord
  BY DEF CallInv, CallSound
<1>2. Cooled \subseteq Entry /\ Len(cooling) <= Len(Pool)
  <2>1. cooling \in Seq(Entry) /\ Cardinality(ToSet(cooling)) = Len(cooling)
    BY MembersCount DEF CallInv, PoolSound
  <2>2. ToSet(cooling) \subseteq Entry
    BY <2>1, ListIs
  <2>3. Cardinality(ToSet(cooling)) <= Cardinality(Entry)
    BY <2>2, EntriesAreFew, FS_Subset
  <2>4. Len(cooling) \in Nat /\ Cardinality(Entry) \in Nat /\ Len(Pool) \in Nat
        /\ Cardinality(Entry) <= Len(Pool)
    BY <2>1, EntriesAreFew, Numbers, ListIs
  <2> QED
    BY <2>1, <2>2, <2>3, <2>4 DEF Cooled
<1>3. CallTypeOK
  <2>1. \A s \in Sender : sending[s].tries <= CallTries
                          /\ sending[s].marked \union sending[s].steady \subseteq Entry
    BY <1>1, Numbers DEF CallRecord
  <2> QED
    BY <1>2, <2>1 DEF CallTypeOK, CallInv, PoolSound, RecordSound
<1>4. ASSUME NEW s \in Sender, sending[s].at = "failed", sending[s].steady # {} PROVE FALSE
  <2> DEFINE r == sending[s]
  <2>1. CallSound(r, reachable, cooling) /\ r \in CallRecord
    BY <1>1
  <2>2. /\ r.tries = CallTries /\ Cardinality(r.marked) = r.tries
        /\ r.marked \intersect r.steady = {}
    BY <1>4, <2>1 DEF CallSound
  <2>3. r.marked \subseteq Entry /\ r.steady \subseteq Entry
    BY <2>1 DEF CallRecord
  <2> HIDE DEF r
  <2>4. Cardinality(r.marked) <= Cardinality(Entry)
        /\ (Cardinality(Entry) = Cardinality(r.marked) => Entry = r.marked)
    BY <2>3, EntriesAreFew, FS_Subset
  <2>5. Entry = r.marked
    BY <2>2, <2>4, EntriesAreFew, Numbers
  <2> QED
    BY <1>4, <2>2, <2>3, <2>5 DEF r
<1>5. TriedWhatWorks
  BY <1>4 DEF TriedWhatWorks
<1> QED
  BY <1>3, <1>5

\* What every step of a call keeps.
LEMMA CallSafe == CallInit /\ [][CallNext]_callVars => []CallsHold
  BY CallInitSound, CallStepSound, CallsAreSound, PTL DEF CallsHold

\* A call that gives up had tried every entry of the pool that worked all the while and
\* that no other thread marked meanwhile: for any nonempty pool no longer than the number
\* of tries, and any number of threads (TelegramCalls' TriedWhatWorks; _pick_proxy,
\* _request).
THEOREM NoWorkingEntryMissed == CallSpec => []CallsHold
  BY CallSafe, PTL DEF CallSpec

-----------------------------------------------------------------------------
(* The verdict on the probes.                                              *)

ProbeInv ==
  /\ window \in [ProbeTag -> Seq(RowKind)] /\ \A t \in ProbeTag : Len(window[t]) <= WindowSize
  /\ age \in 0..(StaleAge + 1) /\ cursor \in 1..Len(ProbeTags)
  /\ cut \subseteq ProbeTag /\ lost \in 0..MaxLost

LEMMA TagsAre ==
  /\ Len(ProbeTags) \in Nat \ {0} /\ \A i \in 1..Len(ProbeTags) : ProbeTags[i] \in ProbeTag
  /\ IsFiniteSet(ProbeTag) /\ WindowSize \in Nat
<1>1. ProbeTags \in Seq(ProbeTag) /\ ProbeTags # <<>>
  BY ProbeConstants DEF ProbeConstants
<1>2. WindowSize \in Nat
  BY ProbeConstants DEF ProbeConstants, WindowSize
<1>3. IsFiniteSet(ProbeTag)
  BY <1>1, MembersCount DEF ProbeTag
<1> QED
  BY <1>1, <1>2, <1>3, ListIs, EmptySeq

\* The newest rows of a list of rows.
LEMMA NewestIs ==
  ASSUME NEW rows \in Seq(RowKind)
  PROVE  Newest(rows) \in Seq(RowKind) /\ Len(Newest(rows)) <= WindowSize
<1>1. Len(rows) \in Nat /\ DOMAIN rows = 1..Len(rows) /\ \A i \in 1..Len(rows) : rows[i] \in RowKind
  BY ListIs
<1>2. CASE Len(rows) < WindowSize
  BY <1>1, <1>2, TagsAre DEF Newest
<1>3. CASE ~(Len(rows) < WindowSize)
  <2>1. \A i \in 1..WindowSize : rows[i] \in RowKind
    BY <1>1, <1>3, TagsAre
  <2>2. SubSeq(rows, 1, WindowSize) \in Seq(RowKind)
        /\ Len(SubSeq(rows, 1, WindowSize)) = IF 1 <= WindowSize THEN WindowSize - 1 + 1 ELSE 0
    BY <2>1, TagsAre, SubSeqProperties
  <2> QED
    BY <1>3, <2>2, TagsAre DEF Newest
<1> QED
  BY <1>2, <1>3

LEMMA ProbeInitSound == ProbeInit => ProbeInv
  BY ProbeConstants, TagsAre, EmptySeq DEF ProbeConstants, ProbeInit, ProbeInv

LEMMA ProbeStepSound == ProbeInv /\ [ProbeNext]_probeVars => ProbeInv'
<1> SUFFICES ASSUME ProbeInv, [ProbeNext]_probeVars PROVE ProbeInv'
  OBVIOUS
<1>1. CASE UNCHANGED probeVars
  BY <1>1 DEF probeVars, ProbeInv
<1>2. CASE ProbeProtocol
  <2> DEFINE t == ProbeTags[cursor]
  <2>1. t \in ProbeTag
    BY TagsAre DEF ProbeInv
  <2>2. cursor' \in 1..Len(ProbeTags) /\ cut' = cut
    BY <1>2, TagsAre DEF ProbeProtocol, ProbeInv
  <2>3. ASSUME NEW rows \in [1..ProbeDomains -> IF t \in cut THEN {"dead"} ELSE RowKind],
               window' = [window EXCEPT ![t] = Newest(rows \o @)], age' = 0, UNCHANGED lost
        PROVE  ProbeInv'
    <3>1. rows \in [1..ProbeDomains -> RowKind] /\ ProbeDomains \in Nat
      BY <2>3, ProbeConstants DEF ProbeConstants, RowKind
    <3>2. rows \in Seq(RowKind)
      BY <3>1, SeqDef
    <3>3. rows \o window[t] \in Seq(RowKind)
      BY <2>1, <3>2, ConcatProperties DEF ProbeInv
    <3> DEFINE z == Newest(rows \o window[t])
    <3>4. z \in Seq(RowKind) /\ Len(z) <= WindowSize
      BY <3>3, NewestIs
    <3>5. window' = [window EXCEPT ![t] = z]
      BY <2>3
    <3> HIDE DEF z, t
    <3>6. /\ window' \in [ProbeTag -> Seq(RowKind)]
          /\ \A u \in ProbeTag : Len(window'[u]) <= WindowSize
      BY <2>1, <3>4, <3>5 DEF ProbeInv
    <3> QED
      BY <2>2, <2>3, <3>6, ProbeConstants DEF ProbeConstants, ProbeInv
  <2>4. ASSUME lost < MaxLost, lost' = lost + 1, UNCHANGED <<window, age>> PROVE ProbeInv'
    BY <2>2, <2>4, ProbeConstants DEF ProbeConstants, ProbeInv
  <2> QED
    BY <1>2, <2>3, <2>4 DEF ProbeProtocol
<1>3. CASE ProbeRunMissed
  BY <1>3, ProbeConstants DEF ProbeConstants, ProbeRunMissed, ProbeInv
<1>4. ASSUME NEW t \in ProbeTag, TunnelFlips(t) PROVE ProbeInv'
  BY <1>4 DEF TunnelFlips, ProbeInv
<1> QED
  BY <1>1, <1>2, <1>3, <1>4 DEF ProbeNext

\* The alerts that stand for everything stand alone.
LEMMA OnePage == ProbeInv => ProbeTypeOK /\ OneIncident
<1> SUFFICES ASSUME ProbeInv PROVE ProbeTypeOK /\ OneIncident
  OBVIOUS
<1>1. ProbeTypeOK
  <2>1. ASSUME NEW t \in ProbeTag PROVE window[t] \in BoundedSeq(RowKind, WindowSize)
    <3>1. Len(window[t]) \in 0..WindowSize /\ window[t] \in [1..Len(window[t]) -> RowKind]
      BY TagsAre, LenProperties DEF ProbeInv
    <3> QED
      BY <3>1 DEF BoundedSeq, SeqOf
  <2> QED
    BY <2>1 DEF ProbeTypeOK, ProbeInv
<1>2. IsFiniteSet(Measured) /\ Cardinality(Measured) \in Nat /\ (Cardinality(Measured) = 0 <=> Measured = {})
  <2>1. Measured \subseteq ProbeTag
    BY DEF Measured
  <2> QED
    BY <2>1, TagsAre, FS_Subset, FS_CardinalityType, FS_EmptySet
<1>3. ASSUME Cardinality(Verdict) > 1
      PROVE  Verdict \intersect {<<"pipeline">>, <<"all">>} = {}
  <2>1. Cardinality({<<"pipeline">>}) = 1 /\ Cardinality({<<"all">>}) = 1
    BY FS_Singleton
  <2>2. Verdict # {<<"pipeline">>} /\ Verdict # {<<"all">>}
    BY <1>3, <2>1
  <2>3. Verdict = TagAlerts
    BY <2>2 DEF Verdict
  <2>4. \A t : <<"dark", t>> # <<"pipeline">> /\ <<"degraded", t>> # <<"pipeline">>
             /\ <<"dark", t>> # <<"all">> /\ <<"degraded", t>> # <<"all">>
    OBVIOUS
  <2> QED
    BY <2>3, <2>4 DEF TagAlerts
<1>4. ASSUME NEW t \in ProbeTag, <<"dark", t>> \in Verdict
      PROVE  Len(window[t]) >= MinSamples /\ (Measured \ Dark # {} \/ Cardinality(Measured) = 1)
  <2>1. <<"dark", t>> # <<"pipeline">> /\ <<"dark", t>> # <<"all">>
    OBVIOUS
  <2>2. Verdict = TagAlerts /\ ~(Cardinality(Measured) >= 2 /\ Dark = Measured)
    BY <1>4, <2>1 DEF Verdict
  <2>3. \A u : <<"dark", t>> # <<"degraded", u>>
    OBVIOUS
  <2>4. \A u : <<"dark", t>> = <<"dark", u>> => t = u
    OBVIOUS
  <2>5. t \in Dark
    BY <1>4, <2>2, <2>3, <2>4 DEF TagAlerts
  <2>6. t \in Measured /\ Len(window[t]) >= MinSamples /\ Dark \subseteq Measured
    BY <2>5 DEF Dark, Measured
  <2> QED
    BY <1>2, <2>2, <2>5, <2>6
<1>5. OneIncident
  BY <1>3, <1>4 DEF OneIncident
<1> QED
  BY <1>1, <1>5

\* While the pipeline is dead or the whole link dark no protocol is blamed, and none is
\* called dark on fewer than MinSamples rows or as the only one of several: for any
\* protocols, windows and thresholds (ProtocolProbes' OneIncident;
\* check_protocol_probe_down).
LEMMA ProbeSafe == ProbeInit /\ [][ProbeNext]_probeVars => []ProbesHold
  BY ProbeInitSound, ProbeStepSound, OnePage, PTL DEF ProbesHold

-----------------------------------------------------------------------------
(* The rotation.  A layer that is not left to do is on the value wanted,   *)
(* unless somebody edited it: what the plan leaves out was there already,  *)
(* and a step takes away only the layer it was seen to change.             *)

RotOp ==
  [mode : {"none", "apply", "revert", "rollback"}, at : {"idle", "confirm", "step", "failed"},
   fresh : BOOLEAN, cur : [Layer -> RotName \union {RotUnread}], target : [Layer -> RotName],
   left : Seq(Layer), only : SUBSET Layer, soft : BOOLEAN]
RotSnapshot ==
  [status : Unfinished \union {"none", "applied", "reverted", "rolled_back"},
   old : [Layer -> RotName], new : [Layer -> RotName]]

RotTypes ==
  /\ layers \in [Layer -> RotName] /\ snapshot \in RotSnapshot /\ op \in RotOp
  /\ elsewhere \subseteq Guarded
  /\ runs \in 0..MaxRuns /\ rotFaults \in 0..MaxRotFaults /\ edits \in 0..MaxEdits
  /\ op.at = "confirm" => runs < MaxRuns

\* What a run is after, and what the snapshot has to do with it.
RotPlanned(r, s) ==
  /\ s.status # "none" => s.new \in [Layer -> RotSni]
  /\ r.at = "idle" <=> r.mode = "none"
  /\ r.at \in {"step", "failed"} => s.status \in {"pending", "rolling_back"}
  /\ r.mode = "apply" =>
       \/ r.at = "confirm" /\ r.fresh /\ r.target \in [Layer -> RotSni]
       \/ s.status # "none" /\ r.target = s.new
  /\ r.mode = "rollback" =>
       s.status # "none" /\ r.target = s.old /\ \A l \in Guarded : r.cur[l] \in {s.old[l], s.new[l]}
  /\ r.mode = "revert" => s.status # "none" /\ r.target = s.old /\ r.at # "confirm"
  /\ \A l \in Layer : r.cur[l] = RotUnread => r.mode = "revert"

\* A layer is on its value, or somebody has edited what decides it.
HoldsAt(v, l, ls, es) ==
  IF l \in Guarded THEN ls[l] = v[l] \/ l \in es ELSE ls[l] = v["env"] \/ "env" \in es
\* It was so when the plan was made.
PlannedAt(c, v, l) == IF l \in Guarded THEN c[l] = v[l] ELSE c[l] = v["env"]

RotDone(r, s, ls, es) ==
  /\ r.at \in {"idle", "confirm"} =>
       /\ s.status = "applied" => \A l \in Layer : HoldsAt(s.new, l, ls, es)
       /\ s.status = "rolled_back" => \A l \in Layer \ {"probe"} : HoldsAt(s.old, l, ls, es)
  /\ r.at = "confirm" => /\ \A l \in Layer : ls[l] = r.cur[l] \/ l \in es
                         /\ \A l \in Layer \ ToSet(r.left) : PlannedAt(r.cur, r.target, l)
  /\ r.at = "step" /\ r.mode \in {"apply", "rollback"} /\ (r.mode = "apply" => ~r.soft) =>
       \A l \in Layer \ ToSet(r.left) :
         (l = "probe" => r.mode = "apply") => HoldsAt(r.target, l, ls, es)

RotInv == RotTypes /\ RotPlanned(op, snapshot) /\ RotDone(op, snapshot, layers, elsewhere)

\* The steps of a plan are layers, and what is not among them was as wanted.
LEMMA StepsAre ==
  ASSUME NEW cur, NEW target, NEW order \in {ApplyOrder, RollbackOrder}
  PROVE  LET s == StepsNeeded(cur, target, order) IN
         /\ s \in Seq(Layer)
         /\ \A l \in Layer \ ToSet(s) : PlannedAt(cur, target, l)
         /\ s = <<>> => ToSet(s) = {}
<1>1. order \in Seq(Layer) /\ ToSet(order) = Layer
  <2>1. /\ ApplyOrder \in Seq(Layer) /\ RollbackOrder \in Seq(Layer)
        /\ Len(ApplyOrder) = 5 /\ Len(RollbackOrder) = 5
    BY DEF ApplyOrder, RollbackOrder, Layer
  <2>2. ASSUME NEW l \in Layer PROVE \E i \in 1..5 : ApplyOrder[i] = l
    <3>1. /\ ApplyOrder[1] = "panel" /\ ApplyOrder[2] = "haproxy" /\ ApplyOrder[3] = "env"
          /\ ApplyOrder[4] = "bot" /\ ApplyOrder[5] = "probe"
      BY DEF ApplyOrder
    <3> QED
      BY <3>1 DEF Layer
  <2>3. ASSUME NEW l \in Layer PROVE \E i \in 1..5 : RollbackOrder[i] = l
    <3>1. /\ RollbackOrder[1] = "env" /\ RollbackOrder[2] = "bot" /\ RollbackOrder[3] = "probe"
          /\ RollbackOrder[4] = "haproxy" /\ RollbackOrder[5] = "panel"
      BY DEF RollbackOrder
    <3> QED
      BY <3>1 DEF Layer
  <2>4. Layer \subseteq ToSet(ApplyOrder) /\ Layer \subseteq ToSet(RollbackOrder)
    BY <2>1, <2>2, <2>3, ListIs
  <2>5. ToSet(ApplyOrder) \subseteq Layer
    BY <2>1, ListIs
  <2>6. ToSet(RollbackOrder) \subseteq Layer
    BY <2>1, ListIs
  <2>7. ToSet(ApplyOrder) = Layer /\ ToSet(RollbackOrder) = Layer
    BY <2>4, <2>5, <2>6
  <2> QED
    BY <2>1, <2>7
<1> DEFINE s == StepsNeeded(cur, target, order)
<1>2. s \in Seq(Layer) /\ ToSet(s) = Needed(cur, target)
  BY <1>1, KeepIs DEF StepsNeeded, Needed
<1> HIDE DEF s
<1>3. \A l \in Layer \ ToSet(s) : PlannedAt(cur, target, l)
  BY <1>2 DEF Needed, NeedBot, PlannedAt, Layer, Guarded
<1>4. s = <<>> => ToSet(s) = {}
  BY DEF ToSet
<1> QED
  BY <1>2, <1>3, <1>4 DEF s

LEMMA NoOpIs ==
  /\ NoOp \in RotOp /\ NoOp.mode = "none" /\ NoOp.at = "idle" /\ ~NoOp.fresh /\ ~NoOp.soft
  /\ \A l \in Layer : NoOp.cur[l] # RotUnread
<1>1. On(OtherSni) \in [Layer -> RotName] /\ RotUnread \notin RotName
  BY RotConstants DEF RotConstants, On, RotName
<1>2. <<>> \in Seq(Layer)
  BY EmptySeq
<1> QED
  BY <1>1, <1>2 DEF NoOp, RotOp

LEMMA RotInitSound == RotInit => RotInv
<1> SUFFICES ASSUME RotInit PROVE RotInv
  OBVIOUS
<1>1. layers \in [Layer -> RotName] /\ On(OtherSni) \in [Layer -> RotName]
  BY DEF RotInit, On, RotName
<1>2. snapshot \in RotSnapshot /\ snapshot.status = "none"
  BY <1>1 DEF RotInit, NoSnapshot, RotSnapshot
<1>3. RotTypes
  BY <1>1, <1>2, NoOpIs, RotConstants DEF RotConstants, RotInit, RotTypes
<1>4. op = NoOp
  BY DEF RotInit
<1> QED
  BY <1>2, <1>3, <1>4, NoOpIs DEF RotInv, RotPlanned, RotDone

\* A plan made while nothing runs: it shows the layers as they are.
LEMMA PlannedSound ==
  ASSUME RotInv, op.at = "idle", NEW r,
         r.cur = layers, r.at = "confirm", r.mode \in {"apply", "rollback"}, r \in RotOp,
         r.mode = "apply" =>
           \/ r.fresh /\ r.target \in [Layer -> RotSni]
           \/ snapshot.status # "none" /\ r.target = snapshot.new,
         r.mode = "rollback" => /\ snapshot.status # "none" /\ r.target = snapshot.old
                                /\ \A l \in Guarded : layers[l] \in {snapshot.old[l], snapshot.new[l]},
         \A l \in Layer \ ToSet(r.left) : PlannedAt(layers, r.target, l)
  PROVE  RotPlanned(r, snapshot) /\ RotDone(r, snapshot, layers, elsewhere)
<1>1. \A l \in Layer : layers[l] # RotUnread
  BY RotConstants DEF RotConstants, RotInv, RotTypes, RotName
<1>2. RotPlanned(r, snapshot)
  BY <1>1 DEF RotInv, RotPlanned
<1>3. RotDone(r, snapshot, layers, elsewhere)
  BY DEF RotInv, RotDone
<1> QED
  BY <1>2, <1>3

\* Nothing is left to do: all of the layers are on the values wanted.
LEMMA NothingNeeded ==
  ASSUME NEW v, NEW order \in {ApplyOrder, RollbackOrder}, StepsNeeded(layers, v, order) = <<>>
  PROVE  \A l \in Layer : HoldsAt(v, l, layers, elsewhere)
  BY StepsAre DEF HoldsAt, PlannedAt

LEMMA PlanApplySound ==
  ASSUME RotInv, NEW s \in RotSni, NEW force \in BOOLEAN, PlanApply(s, force)
  PROVE  RotInv'
<1> DEFINE resume == snapshot.status \in Unfinished /\ ~force
           target == IF resume THEN snapshot.new ELSE On(s)
           steps == StepsNeeded(layers, target, ApplyOrder)
<1>1. /\ op.at = "idle" /\ runs < MaxRuns /\ (resume => snapshot.new = On(s))
      /\ UNCHANGED <<layers, elsewhere, runs, rotFaults, edits>>
      /\ IF steps = <<>>
         THEN resume /\ snapshot' = [snapshot EXCEPT !.status = "applied"] /\ op' = op
         ELSE /\ op' = [NoOp EXCEPT !.mode = "apply", !.at = "confirm", !.fresh = ~resume,
                                    !.cur = layers, !.target = target, !.left = steps]
              /\ UNCHANGED snapshot
  BY DEF PlanApply
<1>2. On(s) \in [Layer -> RotSni] /\ target \in [Layer -> RotName]
  BY DEF On, RotName, RotInv, RotTypes, RotSnapshot
<1>3. steps \in Seq(Layer) /\ \A l \in Layer \ ToSet(steps) : PlannedAt(layers, target, l)
  BY StepsAre
<1>4. CASE steps = <<>>
  <2>1. resume /\ snapshot' = [snapshot EXCEPT !.status = "applied"] /\ op' = op
    BY <1>1, <1>4
  <2>2. snapshot' \in RotSnapshot /\ snapshot'.status = "applied" /\ snapshot'.new = snapshot.new
        /\ snapshot'.old = snapshot.old /\ snapshot.status # "none"
    BY <2>1 DEF RotInv, RotTypes, RotSnapshot, Unfinished
  <2>3. \A l \in Layer : HoldsAt(snapshot.new, l, layers, elsewhere)
    BY <1>4, <2>1, NothingNeeded
  <2> HIDE DEF resume, target, steps
  <2>4. RotTypes'
    BY <1>1, <2>1, <2>2 DEF RotInv, RotTypes
  <2>5. RotPlanned(op', snapshot')
    BY <1>1, <2>1, <2>2 DEF RotInv, RotPlanned
  <2>6. RotDone(op', snapshot', layers', elsewhere')
    BY <1>1, <2>1, <2>2, <2>3 DEF RotInv, RotDone
  <2> QED
    BY <2>4, <2>5, <2>6 DEF RotInv
<1>5. CASE steps # <<>>
  <2>1. /\ op' = [NoOp EXCEPT !.mode = "apply", !.at = "confirm", !.fresh = ~resume,
                              !.cur = layers, !.target = target, !.left = steps]
        /\ UNCHANGED snapshot
    BY <1>1, <1>5
  <2>2. op' \in RotOp
    BY <1>2, <1>3, <2>1, NoOpIs DEF RotOp, RotInv, RotTypes
  <2>3. /\ op'.cur = layers /\ op'.at = "confirm" /\ op'.mode = "apply" /\ op'.target = target
        /\ op'.left = steps /\ (op'.fresh <=> ~resume)
    BY <2>1, NoOpIs DEF RotOp
  <2>4. \/ op'.fresh /\ op'.target \in [Layer -> RotSni]
        \/ snapshot.status # "none" /\ op'.target = snapshot.new
    BY <1>2, <2>3 DEF Unfinished
  <2> HIDE DEF resume, target, steps
  <2>5. RotPlanned(op', snapshot) /\ RotDone(op', snapshot, layers, elsewhere)
    BY <1>1, <1>3, <2>2, <2>3, <2>4, PlannedSound
  <2> QED
    BY <1>1, <2>1, <2>2, <2>5 DEF RotInv, RotTypes
<1> QED
  BY <1>4, <1>5

LEMMA PlanRollbackSound ==
  ASSUME RotInv, PlanRollback PROVE RotInv'
<1> DEFINE steps == StepsNeeded(layers, snapshot.old, RollbackOrder)
<1>1. /\ op.at = "idle" /\ runs < MaxRuns /\ snapshot.status # "none"
      /\ \A l \in Guarded : layers[l] \in {snapshot.old[l], snapshot.new[l]}
      /\ UNCHANGED <<layers, elsewhere, runs, rotFaults, edits>>
      /\ IF steps = <<>>
         THEN snapshot' = [snapshot EXCEPT !.status = "rolled_back"] /\ op' = op
         ELSE /\ op' = [NoOp EXCEPT !.mode = "rollback", !.at = "confirm", !.cur = layers,
                                    !.target = snapshot.old, !.left = steps]
              /\ UNCHANGED snapshot
  BY DEF PlanRollback, Neither
<1>2. steps \in Seq(Layer) /\ \A l \in Layer \ ToSet(steps) : PlannedAt(layers, snapshot.old, l)
  BY StepsAre
<1>3. steps = <<>> => \A l \in Layer : HoldsAt(snapshot.old, l, layers, elsewhere)
  BY NothingNeeded
<1> HIDE DEF steps
<1>4. CASE steps = <<>>
  <2>1. snapshot' \in RotSnapshot /\ snapshot'.status = "rolled_back" /\ snapshot'.new = snapshot.new
        /\ snapshot'.old = snapshot.old
    BY <1>1, <1>4 DEF RotInv, RotTypes, RotSnapshot
  <2>2. RotTypes'
    BY <1>1, <1>4, <2>1 DEF RotInv, RotTypes
  <2>3. RotPlanned(op', snapshot')
    BY <1>1, <1>4, <2>1 DEF RotInv, RotPlanned
  <2>4. RotDone(op', snapshot', layers', elsewhere')
    BY <1>1, <1>3, <1>4, <2>1 DEF RotInv, RotDone
  <2> QED
    BY <2>2, <2>3, <2>4 DEF RotInv
<1>5. CASE steps # <<>>
  <2>1. /\ op' = [NoOp EXCEPT !.mode = "rollback", !.at = "confirm", !.cur = layers,
                              !.target = snapshot.old, !.left = steps]
        /\ UNCHANGED snapshot
    BY <1>1, <1>5
  <2>2. op' \in RotOp
    BY <1>2, <2>1, NoOpIs DEF RotOp, RotInv, RotTypes, RotSnapshot
  <2>3. /\ op'.cur = layers /\ op'.at = "confirm" /\ op'.mode = "rollback"
        /\ op'.target = snapshot.old /\ op'.left = steps
    BY <2>1, NoOpIs DEF RotOp
  <2>4. RotPlanned(op', snapshot) /\ RotDone(op', snapshot, layers, elsewhere)
    BY <1>1, <1>2, <2>2, <2>3, PlannedSound
  <2> QED
    BY <1>1, <2>1, <2>2, <2>4 DEF RotInv, RotTypes
<1> QED
  BY <1>4, <1>5

LEMMA ConfirmSound ==
  ASSUME RotInv, Confirm PROVE RotInv'
<1>1. /\ op.at = "confirm" /\ UNCHANGED <<layers, rotFaults, edits>>
      /\ op \in RotOp /\ snapshot \in RotSnapshot /\ op.mode \in {"apply", "rollback"}
  <2>1. op \in RotOp /\ snapshot \in RotSnapshot /\ op.at = "confirm"
    BY DEF Confirm, RotInv, RotTypes
  <2> QED
    BY <2>1 DEF Confirm, RotInv, RotPlanned, RotOp
<1>2. CASE op' = NoOp /\ UNCHANGED <<snapshot, elsewhere, runs>>
  <2>1. RotPlanned(NoOp, snapshot) /\ RotDone(NoOp, snapshot, layers, elsewhere)
    BY <1>1, NoOpIs DEF RotInv, RotPlanned, RotDone
  <2> QED
    BY <1>1, <1>2, <2>1, NoOpIs DEF RotInv, RotTypes
<1>3. ASSUME snapshot' = Saved, op' = [op EXCEPT !.at = "step"], runs' = runs + 1,
             elsewhere' = IF op.fresh THEN {l \in Layer : layers[l] # op.cur[l]} ELSE elsewhere
      PROVE  RotInv'
  <2>1. /\ op' \in RotOp /\ op'.at = "step" /\ op'.mode = op.mode /\ op'.cur = op.cur
        /\ op'.target = op.target /\ op'.left = op.left /\ (op'.fresh <=> op.fresh)
    BY <1>1, <1>3 DEF RotOp
  <2>2. op.cur \in [Layer -> RotName]
    <3>1. \A l \in Layer : op.cur[l] # RotUnread
      BY <1>1 DEF RotInv, RotPlanned
    <3> QED
      BY <1>1, <3>1 DEF RotOp
  <2>3. /\ snapshot' \in RotSnapshot /\ snapshot'.status \in {"pending", "rolling_back"}
        /\ IF op.mode = "apply" /\ op.fresh
           THEN snapshot'.old = op.cur /\ snapshot'.new = op.target
           ELSE snapshot'.old = snapshot.old /\ snapshot'.new = snapshot.new
    BY <1>1, <1>3, <2>2 DEF Saved, RotSnapshot, RotOp, Unfinished
  <2>4. RotPlanned(op', snapshot')
    BY <1>1, <2>1, <2>3 DEF RotInv, RotPlanned
  <2>5. elsewhere \subseteq Guarded /\ \A l \in Layer : layers[l] = op.cur[l] \/ l \in elsewhere
    BY <1>1 DEF RotInv, RotTypes, RotDone
  <2>6. elsewhere' \subseteq Guarded /\ \A l \in Layer : layers[l] = op.cur[l] \/ l \in elsewhere'
    BY <1>3, <2>5
  <2>7. \A l \in Layer \ ToSet(op.left) : HoldsAt(op.target, l, layers, elsewhere')
    BY <1>1, <2>6 DEF RotInv, RotDone, HoldsAt, PlannedAt
  <2>8. RotDone(op', snapshot', layers', elsewhere')
    BY <1>1, <2>1, <2>7 DEF RotDone
  <2>9. RotTypes'
    BY <1>1, <1>3, <2>1, <2>3, <2>6, RotConstants DEF RotInv, RotTypes, RotConstants
  <2> QED
    BY <2>4, <2>8, <2>9 DEF RotInv
<1> QED
  BY <1>1, <1>2, <1>3 DEF Confirm

\* What one step of a run may do to a layer, and what it then leaves to do.
LEMMA StepIs ==
  ASSUME RotInv, Step
  PROVE  \E l \in Layer :
           /\ op.at = "step" /\ UNCHANGED <<snapshot, elsewhere, runs, edits>>
           /\ op' \in RotOp /\ op'.mode = op.mode /\ op'.target = op.target
           /\ (op'.fresh <=> op.fresh) /\ rotFaults' \in 0..MaxRotFaults
           /\ \/ UNCHANGED layers
              \/ MayWrite(l) /\ layers' = [layers EXCEPT ![l] = Written(l)]
           /\ \/ op'.at = "failed" /\ op'.cur = op.cur
              \/ /\ op'.at = "step" /\ ToSet(op.left) \ {l} \subseteq ToSet(op'.left)
                 /\ \/ /\ MayWrite(l) /\ Good(l) /\ layers' = [layers EXCEPT ![l] = Written(l)]
                       /\ op'.cur = [op.cur EXCEPT ![l] = Written(l)] /\ (op'.soft <=> op.soft)
                    \/ l = "probe" /\ op'.soft /\ op'.cur = op.cur
<1> DEFINE l == Head(op.left)
<1>1. op \in RotOp /\ layers \in [Layer -> RotName] /\ rotFaults \in 0..MaxRotFaults /\ op.left # <<>>
  BY DEF RotInv, RotTypes, Step
<1>2. /\ op.left \in Seq(Layer) /\ l \in ToSet(op.left) /\ ToSet(op.left) \subseteq Layer
      /\ Tail(op.left) \in Seq(Layer) /\ ToSet(op.left) \ {l} \subseteq ToSet(Tail(op.left))
  <2>1. op.left \in Seq(Layer)
    BY <1>1 DEF RotOp
  <2> QED
    BY <1>1, <2>1, TailIs, ListIs
<1>3. l \in Layer /\ Written(l) \in RotName
  BY <1>1, <1>2 DEF Written, RotOp, Layer
<1>4. op.at = "step" /\ UNCHANGED <<snapshot, elsewhere, runs, edits>>
  BY DEF Step
<1>5. CASE /\ MayWrite(l) /\ Good(l) /\ layers' = [layers EXCEPT ![l] = Written(l)]
           /\ op' = [op EXCEPT !.cur[l] = Written(l), !.left = Tail(@), !.only = @ \union {l}]
           /\ UNCHANGED rotFaults
  <2> DEFINE w == Written(l)
             c == [op.cur EXCEPT ![l] = w]
  <2>1. op' = [op EXCEPT !.cur = c, !.left = Tail(op.left), !.only = op.only \union {l}]
    BY <1>1, <1>5 DEF RotOp
  <2>2. c \in [Layer -> RotName \union {RotUnread}] /\ op.only \union {l} \in SUBSET Layer
    BY <1>1, <1>3 DEF RotOp
  <2> HIDE DEF l, c
  <2>3. /\ op' \in RotOp /\ op'.mode = op.mode /\ op'.target = op.target /\ op'.at = "step"
        /\ (op'.fresh <=> op.fresh) /\ (op'.soft <=> op.soft) /\ op'.cur = c
        /\ op'.left = Tail(op.left)
    BY <1>1, <1>2, <1>4, <2>1, <2>2 DEF RotOp
  <2> QED
    BY <1>1, <1>2, <1>3, <1>4, <1>5, <2>3 DEF c
<1>6. ASSUME NEW only \in SUBSET Layer,
             op' = IF l = "probe"
                   THEN [op EXCEPT !.left = Tail(@), !.only = only, !.soft = TRUE]
                   ELSE [op EXCEPT !.at = "failed", !.only = only],
             rotFaults' \in 0..MaxRotFaults,
             UNCHANGED layers \/ (MayWrite(l) /\ layers' = [layers EXCEPT ![l] = Written(l)])
      PROVE  \/ op' \in RotOp /\ op'.mode = op.mode /\ op'.target = op.target
                /\ (op'.fresh <=> op.fresh) /\ op'.at = "failed" /\ op'.cur = op.cur
             \/ op' \in RotOp /\ op'.mode = op.mode /\ op'.target = op.target
                /\ (op'.fresh <=> op.fresh) /\ op'.at = "step" /\ op'.left = Tail(op.left)
                /\ l = "probe" /\ op'.soft /\ op'.cur = op.cur
  <2>1. CASE l = "probe"
    <3>1. op' = [op EXCEPT !.left = Tail(op.left), !.only = only, !.soft = TRUE]
      BY <1>1, <1>6, <2>1 DEF RotOp
    <3> HIDE DEF l
    <3> QED
      BY <1>1, <1>2, <1>4, <1>6, <2>1, <3>1 DEF RotOp
  <2>2. CASE l # "probe"
    <3>1. op' = [op EXCEPT !.at = "failed", !.only = only]
      BY <1>6, <2>2
    <3> HIDE DEF l
    <3> QED
      BY <1>1, <1>6, <3>1 DEF RotOp
  <2> QED
    BY <2>1, <2>2
<1>7. CASE /\ \/ /\ rotFaults < MaxRotFaults /\ rotFaults' = rotFaults + 1
                 /\ (UNCHANGED layers \/ (MayWrite(l) /\ layers' = [layers EXCEPT ![l] = Written(l)]))
              \/ /\ Refuses(l) \/ ~Good(l)
                 /\ UNCHANGED rotFaults
                 /\ IF MayWrite(l) THEN layers' = [layers EXCEPT ![l] = Written(l)]
                                   ELSE UNCHANGED layers
           /\ LET only == IF Refuses(l) THEN op.only ELSE op.only \union {l} IN
              op' = IF l = "probe"
                    THEN [op EXCEPT !.left = Tail(@), !.only = only, !.soft = TRUE]
                    ELSE [op EXCEPT !.at = "failed", !.only = only]
  <2> DEFINE only == IF Refuses(l) THEN op.only ELSE op.only \union {l}
  <2>1. only \in SUBSET Layer
    BY <1>1, <1>3 DEF RotOp
  <2>2. op' = IF l = "probe"
              THEN [op EXCEPT !.left = Tail(@), !.only = only, !.soft = TRUE]
              ELSE [op EXCEPT !.at = "failed", !.only = only]
    BY <1>7
  <2> HIDE DEF only
  <2>3. UNCHANGED layers \/ (MayWrite(l) /\ layers' = [layers EXCEPT ![l] = Written(l)])
    BY <1>7
  <2>4. rotFaults' \in 0..MaxRotFaults
    BY <1>1, <1>7, RotConstants DEF RotConstants
  <2>5. \/ op' \in RotOp /\ op'.mode = op.mode /\ op'.target = op.target
           /\ (op'.fresh <=> op.fresh) /\ op'.at = "failed" /\ op'.cur = op.cur
        \/ op' \in RotOp /\ op'.mode = op.mode /\ op'.target = op.target
           /\ (op'.fresh <=> op.fresh) /\ op'.at = "step" /\ op'.left = Tail(op.left)
           /\ l = "probe" /\ op'.soft /\ op'.cur = op.cur
    BY <1>6, <2>1, <2>2, <2>3, <2>4
  <2> HIDE DEF l
  <2> QED
    BY <1>2, <1>3, <1>4, <2>3, <2>4, <2>5
<1> QED
  BY <1>5, <1>7 DEF Step

LEMMA StepSound == ASSUME RotInv, Step PROVE RotInv'
<1> PICK l \in Layer :
      /\ op.at = "step" /\ UNCHANGED <<snapshot, elsewhere, runs, edits>>
      /\ op' \in RotOp /\ op'.mode = op.mode /\ op'.target = op.target
      /\ (op'.fresh <=> op.fresh) /\ rotFaults' \in 0..MaxRotFaults
      /\ \/ UNCHANGED layers
         \/ MayWrite(l) /\ layers' = [layers EXCEPT ![l] = Written(l)]
      /\ \/ op'.at = "failed" /\ op'.cur = op.cur
         \/ /\ op'.at = "step" /\ ToSet(op.left) \ {l} \subseteq ToSet(op'.left)
            /\ \/ /\ MayWrite(l) /\ Good(l) /\ layers' = [layers EXCEPT ![l] = Written(l)]
                  /\ op'.cur = [op.cur EXCEPT ![l] = Written(l)] /\ (op'.soft <=> op.soft)
               \/ l = "probe" /\ op'.soft /\ op'.cur = op.cur
  BY StepIs
<1>1. op \in RotOp /\ layers \in [Layer -> RotName] /\ snapshot \in RotSnapshot
  BY DEF RotInv, RotTypes
<1>2. Written(l) \in RotName /\ (l \in Guarded => Written(l) = op.target[l])
  BY <1>1 DEF Written, RotOp, Layer, Guarded
<1>3. layers' \in [Layer -> RotName]
  BY <1>1, <1>2
<1>4. RotTypes'
  BY <1>3 DEF RotInv, RotTypes
<1>5. \A k \in Layer : op'.cur[k] = op.cur[k] \/ (k = l /\ op'.cur[k] = Written(l))
  BY <1>1 DEF RotOp
<1>6. RotPlanned(op', snapshot')
  <2>1. \A k \in Layer : op'.cur[k] = RotUnread => op.mode = "revert"
    BY <1>2, <1>5, RotConstants DEF RotConstants, RotName, RotInv, RotPlanned
  <2>2. op.mode = "rollback" =>
          \A k \in Guarded : op'.cur[k] \in {snapshot.old[k], snapshot.new[k]}
    BY <1>2, <1>5 DEF RotInv, RotPlanned, Guarded, Layer
  <2> QED
    BY <2>1, <2>2 DEF RotInv, RotPlanned
<1>7. ASSUME op'.at = "step", op.mode \in {"apply", "rollback"}, op.mode = "apply" => ~op'.soft,
             NEW k \in Layer \ ToSet(op'.left), k = "probe" => op.mode = "apply"
      PROVE  HoldsAt(op.target, k, layers', elsewhere)
  <2>1. CASE k # l
    <3>1. k \notin ToSet(op.left) /\ layers'[k] = layers[k] /\ (op.mode = "apply" => ~op.soft)
      BY <1>1, <1>7, <2>1
    <3>2. HoldsAt(op.target, k, layers, elsewhere)
      BY <1>7, <3>1 DEF RotInv, RotDone
    <3> QED
      BY <3>1, <3>2 DEF HoldsAt
  <2>2. CASE k = l
    <3>1. Good(l) /\ layers'[l] = Written(l)
      BY <1>1, <1>7, <2>2
    <3> QED
      BY <1>2, <2>2, <3>1 DEF Good, HoldsAt
  <2> QED
    BY <2>1, <2>2
<1>8. RotDone(op', snapshot', layers', elsewhere')
  BY <1>7 DEF RotDone
<1> QED
  BY <1>4, <1>6, <1>8 DEF RotInv

LEMMA RevertStartSound == ASSUME RotInv, RevertStart PROVE RotInv'
<1> DEFINE c == [layers EXCEPT !["panel"] = RotUnread]
           x == StepsNeeded(c, snapshot.old, RollbackOrder)
           z == Keep(x, RevertOnly)
<1>1. /\ op.mode = "apply" /\ op.at = "failed"
      /\ op' = [op EXCEPT !.mode = "revert", !.at = "step", !.cur = c, !.target = snapshot.old, !.left = z]
      /\ UNCHANGED <<layers, snapshot, elsewhere, runs, rotFaults, edits>>
  BY DEF RevertStart
<1>2. op \in RotOp /\ layers \in [Layer -> RotName] /\ snapshot \in RotSnapshot
  BY DEF RotInv, RotTypes
<1>3. z \in Seq(Layer) /\ c \in [Layer -> RotName \union {RotUnread}]
  <2>1. x \in Seq(Layer)
    BY StepsAre
  <2> HIDE DEF x
  <2>2. z \in Seq(Layer)
    BY <2>1, KeepIs
  <2> QED
    BY <1>2, <2>2
<1> HIDE DEF c, z
<1>4. op' \in RotOp /\ op'.mode = "revert" /\ op'.at = "step" /\ op'.target = snapshot.old
  BY <1>1, <1>2, <1>3 DEF RotOp, RotSnapshot
<1>5. RotPlanned(op', snapshot') /\ RotDone(op', snapshot', layers', elsewhere')
  BY <1>1, <1>4 DEF RotInv, RotPlanned, RotDone
<1> QED
  BY <1>1, <1>4, <1>5 DEF RotInv, RotTypes

LEMMA RunEndsSound == ASSUME RotInv, RunEnds PROVE RotInv'
<1>1. /\ op.at = "failed" \/ (op.at = "step" /\ op.left = <<>>)
      /\ snapshot' = [snapshot EXCEPT !.status = FinalStatus] /\ op' = NoOp
      /\ UNCHANGED <<layers, elsewhere, runs, rotFaults, edits>>
  BY DEF RunEnds
<1>2. op \in RotOp /\ snapshot \in RotSnapshot /\ snapshot.status # "none"
  BY <1>1 DEF RotInv, RotTypes, RotPlanned, RotOp
<1>3. FinalStatus \in {"failed", "partial", "applied", "reverted", "rolled_back"}
  BY DEF FinalStatus
<1>4. /\ snapshot' \in RotSnapshot /\ snapshot'.status = FinalStatus
      /\ snapshot'.old = snapshot.old /\ snapshot'.new = snapshot.new
  BY <1>1, <1>2, <1>3 DEF RotSnapshot, Unfinished
<1>5. RotPlanned(op', snapshot')
  BY <1>1, <1>2, <1>3, <1>4, NoOpIs DEF RotInv, RotPlanned
<1>6. ToSet(<<>>) = {}
  BY DEF ToSet
<1>7. FinalStatus = "applied" => \A l \in Layer : HoldsAt(snapshot.new, l, layers, elsewhere)
  <2>1. FinalStatus = "applied" => op.at = "step" /\ op.left = <<>> /\ op.mode = "apply" /\ ~op.soft
    <3> SUFFICES ASSUME FinalStatus = "applied"
                 PROVE  op.at = "step" /\ op.left = <<>> /\ op.mode = "apply" /\ ~op.soft
      OBVIOUS
    <3>0. op.at = "failed" => FinalStatus = "failed"
      BY <1>2 DEF FinalStatus, RotOp
    <3>1. op.at = "step" /\ op.left = <<>>
      BY <1>1, <3>0
    <3>2. op.mode \in {"apply", "revert", "rollback"}
      BY <1>2, <3>1 DEF RotInv, RotPlanned, RotOp
    <3>3. op.mode = "revert" => FinalStatus = "reverted"
      BY <1>2, <3>1 DEF FinalStatus, RotOp
    <3>4. op.mode = "rollback" => FinalStatus = "rolled_back"
      BY <1>2, <3>1 DEF FinalStatus, RotOp
    <3>5. op.mode = "apply"
      BY <3>2, <3>3, <3>4
    <3>6. op.soft => FinalStatus = "partial"
      BY <1>2, <3>1, <3>5 DEF FinalStatus, RotOp
    <3> QED
      BY <3>1, <3>5, <3>6
  <2>2. op.at = "step" /\ op.mode = "apply" => op.target = snapshot.new
    BY DEF RotInv, RotPlanned
  <2> QED
    BY <1>6, <2>1, <2>2 DEF RotInv, RotDone
<1>8. FinalStatus = "rolled_back" => \A l \in Layer \ {"probe"} : HoldsAt(snapshot.old, l, layers, elsewhere)
  <2>1. FinalStatus = "rolled_back" => op.at = "step" /\ op.left = <<>> /\ op.mode = "rollback"
    BY <1>1, <1>2 DEF FinalStatus, RotInv, RotPlanned, RotOp
  <2> QED
    BY <1>6, <2>1 DEF RotInv, RotPlanned, RotDone
<1>9. RotDone(op', snapshot', layers', elsewhere')
  BY <1>1, <1>4, <1>7, <1>8, NoOpIs DEF RotDone
<1> QED
  BY <1>1, <1>4, <1>5, <1>9, NoOpIs DEF RotInv, RotTypes

LEMMA RotStepSound == RotInv /\ [RotNext]_rotVars => RotInv'
<1> SUFFICES ASSUME RotInv, [RotNext]_rotVars PROVE RotInv'
  OBVIOUS
<1>1. CASE UNCHANGED rotVars
  BY <1>1 DEF rotVars, RotInv, RotTypes
<1>2. CASE Killed
  <2>1. UNCHANGED <<layers, snapshot, elsewhere, runs, edits>> /\ op' = NoOp /\ op.at \in {"step", "failed"}
        /\ rotFaults' \in 0..MaxRotFaults
    BY <1>2, RotConstants DEF RotConstants, Killed, RotInv, RotTypes
  <2>2. snapshot.status \in {"pending", "rolling_back"}
    BY <2>1 DEF RotInv, RotPlanned
  <2> QED
    BY <2>1, <2>2, NoOpIs DEF RotInv, RotTypes, RotPlanned, RotDone
<1>3. ASSUME NEW l \in Guarded, EditedElsewhere(l) PROVE RotInv'
  <2>1. /\ layers' = [layers EXCEPT ![l] = OtherSni] /\ elsewhere' = elsewhere \union {l}
        /\ UNCHANGED <<snapshot, op, runs, rotFaults>> /\ edits' \in 0..MaxEdits
        /\ layers \in [Layer -> RotName] /\ OtherSni \in RotName
    BY <1>3, RotConstants DEF RotConstants, EditedElsewhere, RotInv, RotTypes, RotName
  <2>2. RotTypes'
    BY <2>1 DEF RotInv, RotTypes
  <2>3. \A v, k : k \in Layer /\ HoldsAt(v, k, layers, elsewhere) => HoldsAt(v, k, layers', elsewhere')
    BY <2>1 DEF HoldsAt
  <2>4. \A k \in Layer : layers'[k] = layers[k] \/ k \in elsewhere'
    BY <2>1
  <2>5. RotDone(op', snapshot', layers', elsewhere')
    BY <2>1, <2>3, <2>4 DEF RotInv, RotDone
  <2> QED
    BY <2>1, <2>2, <2>5 DEF RotInv, RotPlanned
<1> QED
  BY <1>1, <1>2, <1>3, PlanApplySound, PlanRollbackSound, ConfirmSound, StepSound,
     RevertStartSound, RunEndsSound DEF RotNext, RunGoesOn

LEMMA RotSound == RotInit /\ [][RotNext]_rotVars => []RotInv
  BY RotInitSound, RotStepSound, PTL

LEMMA RotInvPromises == RotInv => RotTypeOK /\ StatusHonest
<1> SUFFICES ASSUME RotInv PROVE RotTypeOK /\ StatusHonest
  OBVIOUS
<1>1. \A i \in 1..Len(op.left) : op.left[i] \in Layer
  BY DEF RotInv, RotTypes, RotOp
<1>2. RotTypeOK
  BY <1>1 DEF RotInv, RotTypes, RotOp, RotSnapshot, RotTypeOK, Guarded, Layer
<1>3. StatusHonest
  BY DEF RotInv, RotDone, HoldsAt, StatusHonest
<1> QED
  BY <1>2, <1>3

OldKept == snapshot.status \in Unfinished /\ snapshot'.old # snapshot.old => op.fresh
OthersStand ==
  \A l \in Guarded :
    layers[l] = OtherSni /\ layers'[l] # OtherSni => op.cur[l] = OtherSni /\ op.mode # "rollback"

LEMMA OldKeptStep == RotInv /\ [RotNext]_rotVars => OldKept
<1> SUFFICES ASSUME RotInv, [RotNext]_rotVars, snapshot'.old # snapshot.old PROVE op.fresh
  BY DEF OldKept
<1>1. snapshot \in RotSnapshot
  BY DEF RotInv, RotTypes
<1>2. snapshot' # snapshot
  OBVIOUS
<1>3. \A st : [snapshot EXCEPT !.status = st].old = snapshot.old
  BY <1>1 DEF RotSnapshot
<1>4. CASE Confirm
  BY <1>2, <1>3, <1>4 DEF Confirm, Saved
<1>5. ~RunEnds /\ ~PlanRollback /\ \A s, force : ~PlanApply(s, force)
  BY <1>2, <1>3 DEF RunEnds, PlanRollback, PlanApply
<1>6. ~Step /\ ~RevertStart /\ ~Killed /\ ~UNCHANGED rotVars /\ \A l \in Guarded : ~EditedElsewhere(l)
  BY <1>2 DEF Step, RevertStart, Killed, rotVars, EditedElsewhere
<1> QED
  BY <1>4, <1>5, <1>6 DEF RotNext, RunGoesOn

\* Only a step takes a value of somebody else away, and it looks at the layer first.
LEMMA OthersStandStep == RotInv /\ [RotNext]_rotVars => OthersStand
<1> SUFFICES ASSUME RotInv, [RotNext]_rotVars, NEW k \in Guarded,
                    layers[k] = OtherSni, layers'[k] # OtherSni
             PROVE  op.cur[k] = OtherSni /\ op.mode # "rollback"
  BY DEF OthersStand
<1>1. layers \in [Layer -> RotName] /\ op \in RotOp /\ snapshot \in RotSnapshot
  BY DEF RotInv, RotTypes
<1>2. layers' # layers
  OBVIOUS
<1>3. ~RunEnds /\ ~PlanRollback /\ (\A s, force : ~PlanApply(s, force)) /\ ~Confirm
      /\ ~RevertStart /\ ~Killed /\ ~UNCHANGED rotVars
  BY <1>2 DEF RunEnds, PlanRollback, PlanApply, Confirm, RevertStart, Killed, rotVars
<1>4. \A l \in Guarded : ~EditedElsewhere(l)
  BY <1>1 DEF EditedElsewhere, Guarded, Layer
<1>5. Step
  BY <1>3, <1>4 DEF RotNext, RunGoesOn
<1> DEFINE l == Head(op.left)
<1>6. /\ op.at = "step" /\ op.left # <<>>
      /\ MayWrite(l) /\ layers' = [layers EXCEPT ![l] = Written(l)]
  BY <1>2, <1>5 DEF Step
<1>7. l = k /\ k \in Layer
  BY <1>1, <1>6 DEF Guarded, Layer
<1>8. Written(k) = op.target[k]
  BY DEF Written, Guarded
<1>9. op.target[k] # OtherSni
  BY <1>1, <1>6, <1>7, <1>8
<1>10. ~Refuses(k)
  BY <1>6, <1>7 DEF MayWrite
<1>11. snapshot.new \in [Layer -> RotSni] /\ OtherSni \notin RotSni
  BY <1>6, RotConstants DEF RotConstants, RotInv, RotPlanned
<1>12. op.cur[k] # RotUnread
  BY <1>7, <1>9, <1>10, <1>11 DEF Refuses, NotOurs
<1>13. op.cur[k] = OtherSni
  BY <1>10, <1>12 DEF Refuses, Stale
<1>14. op.mode # "rollback"
  BY <1>7, <1>9, <1>11, <1>13 DEF RotInv, RotPlanned
<1> QED
  BY <1>13, <1>14

LEMMA RotSafe == RotInit /\ [][RotNext]_rotVars => RotationHolds
  BY RotSound, RotInvPromises, OldKeptStep, OthersStandStep, PTL
     DEF RotationHolds, OldValuesKept, OthersWorkStands, OldKept, OthersStand

\* The rotation: "applied" and "rolled back" are written over layers that are so, what was
\* before it is kept while it is unfinished, and nobody's edit is overwritten unseen
\* (rotate_reality_dest.py, run_apply, run_rollback, do_step and revert_to).
THEOREM RotationIsHonest == RotSpec => RotationHolds
  BY RotSafe, PTL DEF RotSpec

-----------------------------------------------------------------------------
(* The run's host: a step of it is a step of the component that moves.     *)

LEMMA HostSteps ==
  [HostNext]_hostVars =>
    /\ [AlertNext]_alertVars /\ [ProbeNext]_probeVars /\ [ElectNext]_electVars
    /\ [SyncNext]_syncVars /\ [CallNext]_callVars /\ [RotNext]_rotVars
  BY DEF HostNext, hostVars

\* In the host, while any of them moves: what every page counts and stands for, what the
\* slots of the agent add up to, and what a call has tried (AlertManager, ProtocolProbes
\* and TelegramCalls).
THEOREM HostedAlarmsHold == HostSpec => []AlarmsHold
<1>1. HostInit => AlertInit /\ ProbeInit /\ CallInit
  BY DEF HostInit
<1>2. AlertsHold /\ ProbesHold /\ CallsHold => AlarmsHold
  BY DEF AlarmsHold
<1> QED
  BY <1>1, <1>2, HostSteps, AlertSafe, ProbeSafe, CallSafe, PTL DEF HostSpec

\* In the host: one vote a term, a watched follower and a leader without exit peers.
THEOREM HostedElectionHolds == HostSpec => ElectionHolds
<1>1. HostInit => ElectInit
  BY DEF HostInit
<1> QED
  BY <1>1, HostSteps, ElectionIsSound, VotesAreKept, PTL DEF HostSpec, ElectSpec, ElectionHolds

\* In the host: the circuit of a peer opens on a streak of failures, and always then.
THEOREM HostedSyncHolds == HostSpec => SyncHolds
<1>1. HostInit => SyncInit
  BY Zenon DEF HostInit
<1> QED
  BY <1>1, HostSteps, SyncSafe, PTL DEF HostSpec

\* In the host: the rotation's statuses are true, and nobody's edit is overwritten unseen.
THEOREM HostedRotationHolds == HostSpec => RotationHolds
<1>1. HostInit => RotInit
  BY DEF HostInit
<1> QED
  BY <1>1, HostSteps, RotSafe, PTL DEF HostSpec

=============================================================================
