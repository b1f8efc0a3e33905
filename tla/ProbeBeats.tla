----------------------------- MODULE ProbeBeats -----------------------------
(***************************************************************************)
(* core/web_server.py, handle_probe: a client's health check reaches /probe *)
(* through a tunnel and is recorded by a background task, under a token map *)
(* that is rebuilt from the users table now and then.                       *)
(*                                                                         *)
(* RecordedEach is Recorded with a bug in it: see "mutants" in             *)
(* PROJECT.json.                                                           *)
(***************************************************************************)
EXTENDS Integers, FiniteSets

CONSTANTS Token,        \* tokens that are or were somebody's
          BeatWindow,   \* PROBE_MIN_INTERVAL_S in ticks
          MissRebuild,  \* PROBE_TOKEN_MISS_REBUILD_S in ticks
          MapRefresh,   \* PROBE_TOKEN_REFRESH_S in ticks
          MaxBeatFaults, MaxRekeys   \* bounds

ASSUME BeatConstants ==
  /\ BeatWindow \in Nat \ {0} /\ MissRebuild \in Nat \ {0} /\ MapRefresh \in Nat
  /\ MissRebuild < MapRefresh /\ MaxBeatFaults \in Nat /\ MaxRekeys \in Nat

VARIABLES held,       \* tokens of users with a key now
          map,        \* _probe_tokens
          mapAge,     \* ticks since _probe_tokens_at
          waiting,    \* bag of probes not yet resolved: token -> 0 .. 2
          claimedAt,  \* token -> ticks since _probe_last
          rows,       \* token -> rows written since its window began (history)
          rowAge,     \* token -> ticks since that row (history)
          beatFaults, rekeys

beatVars == <<held, map, mapAge, waiting, claimedAt, rows, rowAge, beatFaults, rekeys>>

BeatInit ==
  /\ held \in SUBSET Token /\ map = {} /\ mapAge = MapRefresh
  /\ waiting = [t \in Token |-> 0]
  /\ claimedAt = [t \in Token |-> BeatWindow] /\ rows = [t \in Token |-> 0]
  /\ rowAge = [t \in Token |-> BeatWindow]
  /\ beatFaults = 0 /\ rekeys = 0

\* 204 at once; the heartbeat is a task of its own. A round hits once per server.
Probed(t) ==
  /\ waiting[t] < 2 /\ waiting' = [waiting EXCEPT ![t] = @ + 1]
  /\ UNCHANGED <<held, map, mapAge, claimedAt, rows, rowAge, beatFaults, rekeys>>

\* _probe_chat_id, under its lock: a fresh hit, or a rebuild, which may fail and then waits
\* like one that succeeded.
Hit(t) == t \in map /\ mapAge < MapRefresh
RebuildDue == mapAge >= MissRebuild

\* _record_probe: claimed before the write, and not given back if it fails.
Claimed(t) == claimedAt' = [claimedAt EXCEPT ![t] = 0]
RowWritten(t) ==
  /\ rows' = [rows EXCEPT ![t] = IF rowAge[t] < BeatWindow THEN @ + 1 ELSE 1]
  /\ rowAge' = [rowAge EXCEPT ![t] = 0]
RecordedEach(t, known) ==
  IF known
  THEN Claimed(t) /\ RowWritten(t) /\ UNCHANGED beatFaults
  ELSE UNCHANGED <<claimedAt, rows, rowAge, beatFaults>>
Recorded(t, known) ==
  IF known /\ claimedAt[t] >= BeatWindow
  THEN /\ Claimed(t)
       /\ \/ RowWritten(t) /\ UNCHANGED beatFaults
          \/ beatFaults < MaxBeatFaults /\ beatFaults' = beatFaults + 1 /\ UNCHANGED <<rows, rowAge>>
  ELSE UNCHANGED <<claimedAt, rows, rowAge, beatFaults>>

Resolved(t) ==
  /\ waiting[t] > 0 /\ waiting' = [waiting EXCEPT ![t] = @ - 1]
  /\ UNCHANGED <<held, rekeys>>
  /\ \/ /\ Hit(t) /\ Recorded(t, TRUE) /\ UNCHANGED <<map, mapAge>>
     \/ /\ ~Hit(t) /\ ~RebuildDue /\ Recorded(t, FALSE) /\ UNCHANGED <<map, mapAge>>
     \/ /\ ~Hit(t) /\ RebuildDue /\ map' = held /\ mapAge' = 0 /\ Recorded(t, t \in held)
     \/ /\ ~Hit(t) /\ RebuildDue /\ beatFaults < MaxBeatFaults /\ beatFaults' = beatFaults + 1
        /\ mapAge' = 0 /\ UNCHANGED <<map, claimedAt, rows, rowAge>>

\* A key is issued or taken away.
Rekeyed(t) ==
  /\ rekeys < MaxRekeys /\ rekeys' = rekeys + 1
  /\ held' = IF t \in held THEN held \ {t} ELSE held \union {t}
  /\ UNCHANGED <<map, mapAge, waiting, claimedAt, rows, rowAge, beatFaults>>

BeatTick ==
  /\ mapAge < MapRefresh \/ \E t \in Token : claimedAt[t] < BeatWindow \/ rowAge[t] < BeatWindow
  /\ mapAge' = IF mapAge < MapRefresh THEN mapAge + 1 ELSE mapAge
  /\ claimedAt' = [t \in Token |-> IF claimedAt[t] < BeatWindow THEN claimedAt[t] + 1 ELSE BeatWindow]
  /\ rowAge' = [t \in Token |-> IF rowAge[t] < BeatWindow THEN rowAge[t] + 1 ELSE BeatWindow]
  /\ UNCHANGED <<held, map, waiting, rows, beatFaults, rekeys>>

BeatNext == BeatTick \/ \E t \in Token : Probed(t) \/ Resolved(t) \/ Rekeyed(t)

\* Clients keep probing, tasks run, time passes.
BeatSpec ==
  /\ BeatInit /\ [][BeatNext]_beatVars /\ WF_beatVars(BeatTick)
  /\ \A t \in Token : WF_beatVars(Probed(t)) /\ WF_beatVars(Resolved(t))

-----------------------------------------------------------------------------
BeatTypeOK ==
  /\ held \subseteq Token /\ map \subseteq Token /\ mapAge \in 0 .. MapRefresh
  /\ waiting \in [Token -> 0 .. 2] /\ claimedAt \in [Token -> 0 .. BeatWindow]
  /\ \A t \in Token : rowAge[t] < BeatWindow => claimedAt[t] <= rowAge[t]
  /\ beatFaults \in 0 .. MaxBeatFaults /\ rekeys \in 0 .. MaxRekeys

\* A round of health checks leaves one row per user and group, in whatever order its tasks
\* run (web_server.py:1590-1596, 1649-1655).
OneRowPerWindow == \A t \in Token : rows[t] <= 1

\* The heartbeats of a client with a key do arrive, also when it was keyed a moment ago and
\* others' probes keep the map fresh (web_server.py:1597-1602).
ClientSeen ==
  \A t \in Token : [](t \in held => <>(t \notin held \/ rowAge[t] = 0))

\* And those of a key taken away for good stop counting.
GoneForgotten ==
  \A t \in Token : <>[](t \notin held) => <>[](rowAge[t] = BeatWindow)

\* What the heartbeats promise.
BeatsHold == BeatTypeOK /\ OneRowPerWindow
=============================================================================
