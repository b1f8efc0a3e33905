--------------------------- MODULE RealityRotation ---------------------------
(***************************************************************************)
(* scripts/rotate_reality_dest.py: one operator moves the Reality name      *)
(* through five layers (--apply), each step re-checking the host it writes, *)
(* with a snapshot on disk, the automatic revert of a failed run and        *)
(* --rollback, while other people edit the same layers and runs are killed. *)
(* A layer's value is the name it is on.                                    *)
(*                                                                         *)
(* RefusesUnguarded is Refuses with a bug in it: see "mutants" in          *)
(* PROJECT.json.                                                           *)
(***************************************************************************)
EXTENDS Sublists

CONSTANTS RotSni,       \* the names rotated between
          OtherSni,     \* what somebody else puts into a layer
          RotUnread,    \* a layer that was not read
          MaxRuns,      \* bound: confirmed runs
          MaxRotFaults, \* bound: steps that fail, runs that are killed
          MaxEdits      \* bound: edits by somebody else

ASSUME RotConstants ==
  /\ OtherSni \notin RotSni /\ RotUnread \notin RotSni \union {OtherSni}
  /\ MaxRuns \in Nat /\ MaxRotFaults \in Nat /\ MaxEdits \in Nat

VARIABLES layers,    \* what every layer is on
          snapshot,  \* the snapshot file
          op,        \* the run in progress
          elsewhere, \* layers edited by somebody else since the snapshot was taken
          runs, rotFaults, edits

rotVars == <<layers, snapshot, op, elsewhere, runs, rotFaults, edits>>

Layer == {"panel", "haproxy", "env", "bot", "probe"}
Guarded == {"panel", "haproxy", "env"}      \* layers whose write re-checks the old value
ApplyOrder == <<"panel", "haproxy", "env", "bot", "probe">>
RollbackOrder == <<"env", "bot", "probe", "haproxy", "panel">>
Unfinished == {"pending", "failed", "partial", "rolling_back"}
RotName == RotSni \union {OtherSni}

On(s) == [l \in Layer |-> s]
NoSnapshot == [status |-> "none", old |-> On(OtherSni), new |-> On(OtherSni)]
NoOp == [mode |-> "none", at |-> "idle", fresh |-> FALSE, cur |-> On(OtherSni),
         target |-> On(OtherSni), left |-> <<>>, only |-> {}, soft |-> FALSE]

RotInit ==
  /\ \E s \in RotSni : layers = On(s)
  /\ snapshot = NoSnapshot /\ op = NoOp /\ elsewhere = {}
  /\ runs = 0 /\ rotFaults = 0 /\ edits = 0

-----------------------------------------------------------------------------
\* steps_needed: a changed .env drags the bot along, and the bot the probe.
NeedBot(cur, target) == cur["env"] # target["env"] \/ cur["bot"] # target["env"]
Needed(cur, target) ==
  {l \in Layer : IF l \in Guarded THEN cur[l] # target[l]
                 ELSE NeedBot(cur, target) \/ (l = "probe" /\ cur[l] # target["env"])}
StepsNeeded(cur, target, order) == Keep(order, Needed(cur, target))

Neither(l, cur) == cur[l] \notin {snapshot.old[l], snapshot.new[l]}

\* --apply up to the operator's yes: a rotation that is not finished is continued towards
\* the snapshot's values, another name is refused; force takes a new snapshot instead.
PlanApply(s, force) ==
  LET resume == snapshot.status \in Unfinished /\ ~force
      target == IF resume THEN snapshot.new ELSE On(s)
      steps == StepsNeeded(layers, target, ApplyOrder)
  IN /\ op.at = "idle" /\ runs < MaxRuns
     /\ resume => snapshot.new = On(s)
     /\ IF steps = <<>>
        THEN /\ resume
             /\ snapshot' = [snapshot EXCEPT !.status = "applied"] /\ op' = op
        ELSE /\ op' = [NoOp EXCEPT !.mode = "apply", !.at = "confirm", !.fresh = ~resume,
                                   !.cur = layers, !.target = target, !.left = steps]
             /\ UNCHANGED snapshot
     /\ UNCHANGED <<layers, elsewhere, runs, rotFaults, edits>>

\* --rollback up to the yes: refused when a layer holds neither value.
PlanRollback ==
  LET steps == StepsNeeded(layers, snapshot.old, RollbackOrder)
  IN /\ op.at = "idle" /\ runs < MaxRuns /\ snapshot.status # "none"
     /\ \A l \in Guarded : ~Neither(l, layers)
     /\ IF steps = <<>>
        THEN /\ snapshot.status \notin {"rolled_back", "reverted"}
             /\ snapshot' = [snapshot EXCEPT !.status = "rolled_back"] /\ op' = op
        ELSE /\ op' = [NoOp EXCEPT !.mode = "rollback", !.at = "confirm", !.cur = layers,
                                   !.target = snapshot.old, !.left = steps]
             /\ UNCHANGED snapshot
     /\ UNCHANGED <<layers, elsewhere, runs, rotFaults, edits>>

\* new_snapshot, or the one being continued, written before the first change.
Saved ==
  IF op.mode = "apply" /\ op.fresh
  THEN [status |-> "pending", old |-> op.cur, new |-> op.target]
  ELSE [snapshot EXCEPT !.status = IF op.mode = "apply" THEN "pending" ELSE "rolling_back"]

Confirm ==
  /\ op.at = "confirm"
  /\ \/ /\ snapshot' = Saved
        /\ elsewhere' = IF op.fresh THEN {l \in Layer : layers[l] # op.cur[l]} ELSE elsewhere
        /\ op' = [op EXCEPT !.at = "step"]
        /\ runs' = runs + 1
     \/ /\ op' = NoOp /\ UNCHANGED <<snapshot, elsewhere, runs>>
  /\ UNCHANGED <<layers, rotFaults, edits>>

-----------------------------------------------------------------------------
\* What do_step finds on the host.  The panel is read right before its step in a revert.
Stale(l) == l \in Guarded /\ op.cur[l] # RotUnread /\ layers[l] # op.cur[l]
NotOurs(l) == op.cur[l] = RotUnread /\ layers[l] \notin {op.target[l], snapshot.new[l]}
RefusesUnguarded(l) == Stale(l)
Refuses(l) == Stale(l) \/ NotOurs(l)

\* What the step leaves in the layer: the bot takes the .env it is recreated with, the
\* probe is generated from the bot.
Written(l) == CASE l = "bot" -> layers["env"]
                [] l = "probe" -> layers["bot"]
                [] OTHER -> op.target[l]

\* The bot is recreated before its name is compared, the probe's config is compared first.
Good(l) == Written(l) = op.target["env"] \/ l \in Guarded
MayWrite(l) == ~Refuses(l) /\ (l = "probe" => Good(l))

Step ==
  LET l == Head(op.left)
      Write == layers' = [layers EXCEPT ![l] = Written(l)]
  IN /\ op.at = "step" /\ op.left # <<>>
     /\ \/ /\ MayWrite(l) /\ Good(l) /\ Write
           /\ op' = [op EXCEPT !.cur[l] = Written(l), !.left = Tail(@), !.only = @ \union {l}]
           /\ UNCHANGED rotFaults
        \/ /\ \/ /\ rotFaults < MaxRotFaults /\ rotFaults' = rotFaults + 1
                 /\ (UNCHANGED layers \/ (MayWrite(l) /\ Write))
              \/ /\ Refuses(l) \/ ~Good(l)
                 /\ UNCHANGED rotFaults
                 /\ IF MayWrite(l) THEN Write ELSE UNCHANGED layers
           /\ LET only == IF Refuses(l) THEN op.only ELSE op.only \union {l} IN
              op' = IF l = "probe"
                    THEN [op EXCEPT !.left = Tail(@), !.only = only, !.soft = TRUE]
                    ELSE [op EXCEPT !.at = "failed", !.only = only]
     /\ UNCHANGED <<snapshot, elsewhere, runs, edits>>

\* revert_to: what this run may have written, after a fresh read of entry; not started
\* when haproxy or .env holds neither value, or entry cannot be read.
RevertOnly == IF op.only \intersect {"env", "bot", "probe"} = {} THEN op.only
              ELSE op.only \union {"env", "bot", "probe"}
RevertRefused ==
  \E l \in {"haproxy", "env"} : l \in RevertOnly /\ Neither(l, layers)

RevertStart ==
  LET cur == [layers EXCEPT !["panel"] = RotUnread]
  IN /\ op.mode = "apply" /\ op.at = "failed" /\ ~RevertRefused
     /\ op' = [op EXCEPT !.mode = "revert", !.at = "step", !.cur = cur, !.target = snapshot.old,
                         !.left = Keep(StepsNeeded(cur, snapshot.old, RollbackOrder), RevertOnly)]
     /\ UNCHANGED <<layers, snapshot, elsewhere, runs, rotFaults, edits>>

\* The run's last save: with the revert refused, switched off (--no-auto-revert) or failed
\* too, the rotation stays unfinished.
FinalStatus ==
  IF op.at = "failed" THEN "failed"
  ELSE CASE op.mode = "apply" -> IF op.soft THEN "partial" ELSE "applied"
         [] op.mode = "revert" -> "reverted"
         [] OTHER -> "rolled_back"
RunEnds ==
  /\ op.at = "failed" \/ (op.at = "step" /\ op.left = <<>>)
  /\ snapshot' = [snapshot EXCEPT !.status = FinalStatus]
  /\ op' = NoOp
  /\ UNCHANGED <<layers, elsewhere, runs, rotFaults, edits>>

\* The run is interrupted or killed: the snapshot keeps the status it was saved with.
Killed ==
  /\ op.at \in {"step", "failed"} /\ rotFaults < MaxRotFaults
  /\ rotFaults' = rotFaults + 1 /\ op' = NoOp
  /\ UNCHANGED <<layers, snapshot, elsewhere, runs, edits>>

\* Somebody edits a layer by hand at any moment.
EditedElsewhere(l) ==
  /\ edits < MaxEdits /\ layers[l] # OtherSni
  /\ edits' = edits + 1
  /\ layers' = [layers EXCEPT ![l] = OtherSni]
  /\ elsewhere' = elsewhere \union {l}
  /\ UNCHANGED <<snapshot, op, runs, rotFaults>>

RunGoesOn == Step \/ RevertStart \/ RunEnds

RotNext ==
  \/ PlanRollback \/ Confirm \/ RunGoesOn \/ Killed
  \/ \E s \in RotSni, force \in BOOLEAN : PlanApply(s, force)
  \/ \E l \in Guarded : EditedElsewhere(l)

\* A run goes on until it ends; the operator need not start one.
RotSpec == RotInit /\ [][RotNext]_rotVars /\ WF_rotVars(RunGoesOn)

-----------------------------------------------------------------------------
RotTypeOK ==
  /\ layers \in [Layer -> RotName]
  /\ snapshot \in [status : Unfinished \union {"none", "applied", "reverted", "rolled_back"},
                   old : [Layer -> RotName], new : [Layer -> RotName]]
  /\ op.mode \in {"none", "apply", "revert", "rollback"}
  /\ op.at \in {"idle", "confirm", "step", "failed"}
  /\ op.cur \in [Layer -> RotName \union {RotUnread}] /\ op.target \in [Layer -> RotName]
  /\ \A i \in 1..Len(op.left) : op.left[i] \in Layer
  /\ op.only \subseteq Layer /\ op.soft \in BOOLEAN
  /\ elsewhere \subseteq Layer
  /\ runs \in 0..MaxRuns /\ rotFaults \in 0..MaxRotFaults /\ edits \in 0..MaxEdits

\* "Applied" and "rolled back" are never written over layers that disagree: each holds
\* the snapshot's value unless somebody else has edited it (bot and probe that of the .env).
StatusHonest ==
  LET Holds(v, ls) == \A l \in ls : IF l \in Guarded
                                     THEN layers[l] = v[l] \/ l \in elsewhere
                                     ELSE layers[l] = v["env"] \/ "env" \in elsewhere
  IN op.at = "idle" =>
       /\ snapshot.status = "applied" => Holds(snapshot.new, Layer)
       /\ snapshot.status = "rolled_back" => Holds(snapshot.old, Layer \ {"probe"})

\* The same of "reverted": a failed step reverts whatever was already changed.
RevertedIsOld ==
  op.at = "idle" /\ snapshot.status = "reverted" =>
    \A l \in Guarded : layers[l] = snapshot.old[l] \/ l \in elsewhere

\* While a rotation is unfinished the snapshot keeps the values from before it, through
\* every resumed run: nobody but a forced run replaces them.
OldValuesKept ==
  [][snapshot.status \in Unfinished /\ snapshot'.old # snapshot.old => op.fresh]_rotVars

\* A value somebody else put into a layer is overwritten only by a plan that showed it to
\* the operator: never by a stale plan, the automatic revert or a rollback.
OthersWorkStands ==
  [][\A l \in Guarded :
       layers[l] = OtherSni /\ layers'[l] # OtherSni =>
         op.cur[l] = OtherSni /\ op.mode # "rollback"]_rotVars

\* A run that was confirmed comes to its end and leaves a status.
RunsEnd == (op.at = "step") ~> (op.at = "idle")

\* What the rotation promises.
RotationHolds ==
  [](RotTypeOK /\ StatusHonest) /\ OldValuesKept /\ OthersWorkStands
=============================================================================
