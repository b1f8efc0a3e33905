----------------------------- MODULE HermesGuard -----------------------------
(***************************************************************************)
(* scripts/hermes_model_guard.py: a oneshot run by a timer keeps the agent  *)
(* on models that cost nothing.  A run reads the config and the prices,     *)
(* rewrites the config, restarts the agent unless a request is in flight,   *)
(* sends its messages and saves its state; every read, the write, the       *)
(* restart and the saving may fail, and the host may reboot.  A message is  *)
(* told once it is sent, queued, or was sent within the window.             *)
(*                                                                         *)
(* DeadAtOnce and OwedAnew are Dead and Owed with a bug in them: see       *)
(* "mutants" in PROJECT.json.                                              *)
(***************************************************************************)
EXTENDS Integers, Sequences, FiniteSets, Sublists

CONSTANTS GuardModel,   \* ids of models
          NoModel,
          HandPicked,   \* the primary the operator configured
          Curated,      \* FALLBACK_CANDIDATES, in order of preference
          SeesImages,   \* models that take images
          MinFree,      \* MIN_FREE_FALLBACKS
          MaxDefer,     \* RESTART_DEFER_MAX
          MaxPrices,    \* bound: changes of the catalogue
          GuardFaults   \* bound: states not saved

ASSUME GuardConstants ==
  /\ NoModel \notin GuardModel /\ HandPicked \in GuardModel /\ SeesImages \subseteq GuardModel
  /\ Curated \in Seq(GuardModel) \ {<<>>} /\ {MinFree, MaxDefer} \subseteq Nat \ {0}
  /\ MaxPrices \in Nat /\ GuardFaults \in Nat

VARIABLES price,     \* the catalogue: what each model costs, if it is listed
          yaml,      \* config.yaml: the primary, the fallbacks, the side tasks
          outdated,  \* the agent runs on an earlier config.yaml
          saved,     \* state.json
          guard,     \* the run in progress
          misses,    \* models not listed in the last run that saw the catalogue and saved
          rewriteTold,  \* the topic was told how the last rewrite or restart ended
          unsaved,   \* since the last restart, a run could not save its state
          priceMoves, guardFaults

guardVars == <<price, yaml, outdated, saved, guard, misses, rewriteTold, unsaved,
               priceMoves, guardFaults>>

Verdict == {"free", "paid", "missing"}
InSeq(s) == {s[i] : i \in DOMAIN s}
UsedBy(c) == ({c.primary, c.text, c.vision} \union InSeq(c.chain)) \ {NoModel}
NoStates == [m \in GuardModel |-> "unseen"]
NoGuardRun == [at |-> "idle", sighted |-> FALSE, states |-> NoStates, owed |-> 0, news |-> FALSE]

GuardInit ==
  /\ price = [m \in GuardModel |-> "free"]
  /\ \E v \in {NoModel, Curated[1]} :
       yaml = [primary |-> HandPicked, chain |-> <<Curated[1]>>, text |-> HandPicked, vision |-> v]
  /\ outdated = FALSE /\ guard = NoGuardRun
  /\ saved = [states |-> NoStates, owed |-> 0]
  /\ misses = {} /\ rewriteTold = TRUE /\ unsaved = FALSE /\ priceMoves = 0 /\ guardFaults = 0

-----------------------------------------------------------------------------
\* decide(): what is dead, and what replaces it.
IsFree(m) == m # NoModel /\ price[m] = "free"
FirstMiss(m) == price[m] = "missing" /\ saved.states[m] # "missing"
DeadAtOnce(m) == m # NoModel /\ ~IsFree(m)
Dead(m) == m # NoModel /\ ~IsFree(m) /\ ~FirstMiss(m)

FreeModels == {m \in GuardModel : IsFree(m)}
FirstOr(s, m) == IF s = <<>> THEN m ELSE s[1]
LiveCandidates(without) == Keep(Curated, FreeModels \ without)
Winner ==
  FirstOr(Keep(yaml.chain, FreeModels), FirstOr(LiveCandidates({yaml.primary}), NoModel))
NothingFree == ~IsFree(yaml.primary) /\ Winner = NoModel
Promotes == ~IsFree(yaml.primary) /\ ~FirstMiss(yaml.primary)
NewPrimary == IF Promotes THEN Winner ELSE yaml.primary

\* Dead fallbacks go, and only a chain that was cut is topped up.
KeptChain ==
  LET gone == IF Promotes THEN {Winner} ELSE {}
  IN Keep(yaml.chain, {m \in GuardModel : ~Dead(m)} \ gone)
NewChain ==
  LET kept == KeptChain
      cut == Promotes \/ kept # yaml.chain
      more == LiveCandidates(InSeq(kept) \union {NewPrimary, yaml.primary})
      room == MinFree - Len(Keep(kept, FreeModels))
  IN IF cut /\ room > 0 THEN kept \o SubSeq(more, 1, IF room < Len(more) THEN room ELSE Len(more))
     ELSE kept

\* Side tasks on a dead model: text follows the primary, images go where they are taken.
TextTarget == IF IsFree(NewPrimary) THEN NewPrimary ELSE FirstOr(Keep(NewChain, FreeModels), NoModel)
VisionTarget ==
  LET sees == FreeModels \intersect SeesImages
  IN FirstOr(Keep(<<NewPrimary>> \o NewChain, sees), FirstOr(Keep(Curated, sees), TextTarget))
Repinned(m, target) == IF Dead(m) /\ TextTarget # NoModel THEN target ELSE m

Repaired ==
  IF NothingFree THEN yaml
  ELSE [primary |-> NewPrimary, chain |-> NewChain,
        text |-> Repinned(yaml.text, TextTarget), vision |-> Repinned(yaml.vision, VisionTarget)]

\* model_states: of the models configured when the run began.
StatesSeen == [m \in GuardModel |-> IF m \in UsedBy(yaml) THEN price[m] ELSE "unseen"]

\* run_once up to the rewrite: without the catalogue or a readable config nothing is decided.
RunBegins(sighted, writes) ==
  /\ guard.at = "idle"
  /\ \E new \in {IF sighted THEN Repaired ELSE yaml} :
       /\ guard' = [at |-> IF (new # yaml /\ writes) \/ (new = yaml /\ saved.owed > 0)
                          THEN "restart" ELSE "deliver",
                    sighted |-> sighted, owed |-> saved.owed, news |-> new # yaml,
                    states |-> IF sighted THEN StatesSeen ELSE saved.states]
       /\ yaml' = IF writes THEN new ELSE yaml
  /\ outdated' = (outdated \/ yaml' # yaml)
  /\ rewriteTold' = (rewriteTold /\ yaml' = yaml)
  /\ UNCHANGED <<price, saved, misses, unsaved, priceMoves, guardFaults>>

\* _restart_or_defer: the debt of a deferral is carried on, three times at most.
OwedAnew == 1
Owed == guard.owed + 1

RestartOrDefer(inflight, works) ==
  LET defers == inflight /\ guard.owed < MaxDefer
  IN /\ guard.at = "restart"
     /\ guard' = [guard EXCEPT !.at = "deliver", !.owed = IF defers THEN Owed ELSE 0,
                              !.news = @ \/ ~defers]
     /\ outdated' = (outdated /\ (defers \/ ~works))
     /\ unsaved' = (unsaved /\ (defers \/ ~works))
     /\ UNCHANGED <<price, yaml, saved, misses, rewriteTold, priceMoves, guardFaults>>

\* save_state, in one piece.
StateSaved == saved' = [states |-> guard.states, owed |-> guard.owed]

\* The end of run_once: the messages, then the state.
DeliverAndSave(saves) ==
  /\ guard.at = "deliver" /\ guard' = NoGuardRun /\ rewriteTold' = (rewriteTold \/ guard.news)
  /\ IF saves
     THEN /\ StateSaved
          /\ misses' = IF guard.sighted THEN {m \in GuardModel : price[m] = "missing"} ELSE misses
          /\ UNCHANGED <<unsaved, guardFaults>>
     ELSE /\ guardFaults < GuardFaults /\ guardFaults' = guardFaults + 1
          /\ unsaved' = TRUE /\ UNCHANGED <<saved, misses>>
  /\ UNCHANGED <<price, yaml, outdated, priceMoves>>

-----------------------------------------------------------------------------
CatalogueMoves ==
  \E m \in GuardModel, v \in Verdict :
    /\ guard.at = "idle" /\ priceMoves < MaxPrices /\ v # price[m] /\ priceMoves' = priceMoves + 1
    /\ price' = [price EXCEPT ![m] = v]
    /\ UNCHANGED <<yaml, outdated, saved, guard, misses, rewriteTold, unsaved, guardFaults>>

\* The host reboots: the agent comes up on config.yaml, a run in progress is gone.
HostReboots ==
  /\ guard.at # "idle" /\ guardFaults < GuardFaults /\ guardFaults' = guardFaults + 1
  /\ guard' = NoGuardRun /\ outdated' = FALSE /\ unsaved' = FALSE
  /\ UNCHANGED <<price, yaml, saved, misses, rewriteTold, priceMoves>>

GuardRunMoves ==
  \/ \E inflight, works \in BOOLEAN : RestartOrDefer(inflight, works)
  \/ \E saves \in BOOLEAN : DeliverAndSave(saves)

GuardNext ==
  \/ \E sighted, writes \in BOOLEAN : RunBegins(sighted, writes)
  \/ GuardRunMoves \/ CatalogueMoves \/ HostReboots

\* The timer goes off again and again, and now and then a run reads and writes all it needs.
GuardFair ==
  /\ SF_guardVars(RunBegins(TRUE, TRUE)) /\ WF_guardVars(GuardRunMoves)
GuardSpec == GuardInit /\ [][GuardNext]_guardVars /\ GuardFair

-----------------------------------------------------------------------------
\* Type correctness: the guard's files and the run in progress.
GuardTypeOK ==
  /\ price \in [GuardModel -> Verdict] /\ UsedBy(yaml) \subseteq GuardModel
  /\ {outdated, rewriteTold, unsaved} \subseteq BOOLEAN /\ misses \subseteq GuardModel
  /\ saved.states \in [GuardModel -> Verdict \union {"unseen"}] /\ saved.owed \in 0..MaxDefer
  /\ guard.at \in {"idle", "restart", "deliver"} /\ guard.owed \in 0..MaxDefer
  /\ {guard.news, guard.sighted} \subseteq BOOLEAN

\* What the guard writes costs nothing: no model of a rewritten config, in any role, has a
\* price in the catalogue it was written from (decide).
CleanRewrite ==
  [][yaml' # yaml => \A m \in UsedBy(yaml') : price[m] # "paid"]_guardVars

\* One blink rewrites nothing: a model leaves the config because it has a price, or because
\* it was not listed in this run and in the last one that saw the catalogue and saved its state.
NeedsTwoMisses ==
  [][\A m \in UsedBy(yaml) \ UsedBy(yaml') :
       price[m] = "paid" \/ (price[m] = "missing" /\ m \in misses)]_guardVars

\* Between runs the agent is on an earlier config only while the restart is owed, or after
\* the topic was told how the rewrite or the restart ended; but for a state not saved.
OldProcessIsKnown ==
  guard.at = "idle" /\ outdated => saved.owed > 0 \/ rewriteTold \/ unsaved

\* A model that got a price does not stay in use, in the chain or in a side task, while a
\* free model is left to take its place.
PaidIsCut ==
  \A m \in GuardModel :
    (m \in UsedBy(yaml) /\ price[m] = "paid")
      ~> (m \notin UsedBy(yaml) \/ price[m] # "paid" \/ NothingFree)

\* A deferred restart is made, however busy the agent is.
RestartHappens == saved.owed > 0 ~> saved.owed = 0

\* What the guard of the agent's models never does: leave an old process unknown, write a
\* model that costs something, or drop one for a single blink.
GuardHolds == [](GuardTypeOK /\ OldProcessIsKnown) /\ CleanRewrite /\ NeedsTwoMisses
==============================================================================
