---------------------------- MODULE AlertManager ----------------------------
(***************************************************************************)
(* services/alert_manager.py: the minute's tick over the checks, the       *)
(* tracker of each alert key, the admin's acknowledgement from the polling *)
(* thread, and the agent turns that a fired alert starts on worker         *)
(* threads.  Time is counted in ticks.                                     *)
(*                                                                         *)
(* HealedFound is Healed with a bug in it: see "mutants" in PROJECT.json.  *)
(***************************************************************************)
EXTENDS Integers, FiniteSets

CONSTANTS SingleKey,    \* keys of checks that return None or one Alert (cpu, ram, ...)
          DpiKey,       \* keys under the prefix of the DPI checks
          ProtocolKey,  \* keys under "protocol_down:"
          MinCycles,    \* failures in a row before an alert fires
          Repeat,       \* REPEAT_COOLDOWN_S
          AckTime,      \* ACK_COOLDOWN_S
          AgentSlots,   \* DPI_AGENT_MAX_CONCURRENT
          NoAlert

AlertKey == SingleKey \union DpiKey \union ProtocolKey

ASSUME AlertConstants ==
  /\ MinCycles \in Nat \ {0} /\ Repeat \in Nat \ {0}
  /\ AckTime \in Nat /\ AckTime > Repeat
  /\ AgentSlots \in Nat /\ NoAlert \notin AlertKey
  /\ SingleKey \intersect DpiKey = {} /\ SingleKey \intersect ProtocolKey = {}
  /\ DpiKey \intersect ProtocolKey = {}

VARIABLES fails,     \* _Tracker.consecutive_fails, counted up to MinCycles
          quiet,     \* ticks until neither cooldown holds the key back
          tracked,   \* keys that have a tracker
          checks,    \* checks this tick has still to run
          todo,      \* alerts of the running check that are not processed yet
          firing,    \* the alert being persisted and delivered
          inflight,  \* _agent_inflight
          late,      \* workers that gave up their key and not yet their slot
          slots,     \* free _dpi_agent_slots
          streak     \* reports in a row, healthy results ending it

alertVars == <<fails, quiet, tracked, checks, todo, firing, inflight, late, slots, streak>>

\* One check per single key; one multi-bucket check for each prefix.
Checks == {{k} : k \in SingleKey} \union ({DpiKey, ProtocolKey} \ {{}})
Bucketed(c) == ~(c \subseteq SingleKey)
UpTo(n, cap) == IF n > cap THEN cap ELSE n
Later(m, n) == IF m > n THEN m ELSE n

-----------------------------------------------------------------------------
AlertInit ==
  /\ fails = [k \in AlertKey |-> 0] /\ quiet = [k \in AlertKey |-> 0]
  /\ tracked = {} /\ checks = {} /\ todo = {} /\ firing = NoAlert
  /\ inflight = {} /\ late = 0 /\ slots = AgentSlots
  /\ streak = [k \in AlertKey |-> 0]

\* APScheduler starts no second tick while one runs.
AlertTick ==
  /\ checks = {} /\ todo = {} /\ firing = NoAlert
  /\ checks' = Checks
  /\ quiet' = [k \in AlertKey |-> IF quiet[k] > 0 THEN quiet[k] - 1 ELSE 0]
  /\ UNCHANGED <<fails, tracked, todo, firing, inflight, late, slots, streak>>

\* A multi-bucket result resets the trackers of its prefix that it does not name.
HealedFound(c, found) ==
  [k \in AlertKey |-> IF Bucketed(c) /\ k \in c /\ k \in found THEN 0 ELSE fails[k]]
Healed(c, found) ==
  [k \in AlertKey |-> IF Bucketed(c) /\ k \in c \ found THEN 0 ELSE fails[k]]

\* One check: it crashes and is passed over, or it reports some of its keys.
CheckRun(c) ==
  /\ c \in checks /\ todo = {} /\ firing = NoAlert
  /\ checks' = checks \ {c}
  /\ \/ UNCHANGED <<fails, todo, streak>>
     \/ \E found \in SUBSET c :
          /\ fails' = Healed(c, found)
          /\ todo' = found
          /\ streak' = [k \in AlertKey |->
                          IF k \notin c THEN streak[k]
                          ELSE IF k \in found THEN UpTo(streak[k] + 1, MinCycles) ELSE 0]
  /\ UNCHANGED <<quiet, tracked, firing, inflight, late, slots>>

\* _process_alert up to the decision to fire.
AlertProcessed(k) ==
  /\ k \in todo /\ firing = NoAlert
  /\ todo' = todo \ {k}
  /\ tracked' = tracked \union {k}
  /\ fails' = [fails EXCEPT ![k] = UpTo(@ + 1, MinCycles)]
  /\ firing' = IF fails'[k] >= MinCycles /\ quiet[k] = 0 THEN k ELSE NoAlert
  /\ UNCHANGED <<quiet, checks, inflight, late, slots, streak>>

\* _spawn_agent_worker: one turn per key, DPI turns within the slots; nothing is
\* started without an agent, without users on the ASN, or without a thread.
WorkerStarted(k) ==
  \/ /\ k \notin inflight /\ k \notin SingleKey
     /\ k \in DpiKey => slots > 0
     /\ inflight' = inflight \union {k}
     /\ slots' = IF k \in DpiKey THEN slots - 1 ELSE slots
  \/ UNCHANGED <<inflight, slots>>

\* _fire and the stamp after it.
AlertFired ==
  /\ firing # NoAlert
  /\ WorkerStarted(firing)
  /\ quiet' = [quiet EXCEPT ![firing] = Later(@, Repeat)]
  /\ firing' = NoAlert
  /\ UNCHANGED <<fails, tracked, checks, todo, late, streak>>

\* AlertManager.ack, from a button pressed at any moment of a tick.
AlertAcked(k) ==
  /\ k \in tracked
  /\ quiet' = [quiet EXCEPT ![k] = Later(@, AckTime)]
  /\ fails' = [fails EXCEPT ![k] = 0]
  /\ UNCHANGED <<tracked, checks, todo, firing, inflight, late, slots, streak>>

\* The worker's finally: the key under the lock, then the slot.
TurnEnds(k) ==
  /\ k \in inflight
  /\ inflight' = inflight \ {k}
  /\ late' = IF k \in DpiKey THEN late + 1 ELSE late
  /\ UNCHANGED <<fails, quiet, tracked, checks, todo, firing, slots, streak>>

SlotReleased ==
  /\ late > 0
  /\ late' = late - 1 /\ slots' = slots + 1
  /\ UNCHANGED <<fails, quiet, tracked, checks, todo, firing, inflight, streak>>

\* The process is restarted: trackers and workers live in memory.
AlertRestart ==
  /\ checks # {}
  /\ fails' = [k \in AlertKey |-> 0] /\ quiet' = [k \in AlertKey |-> 0]
  /\ tracked' = {} /\ checks' = {} /\ todo' = {} /\ firing' = NoAlert
  /\ inflight' = {} /\ late' = 0 /\ slots' = AgentSlots
  /\ streak' = [k \in AlertKey |-> 0]

TickStep == \/ AlertTick \/ AlertFired
            \/ \E c \in checks : CheckRun(c)
            \/ \E k \in todo : AlertProcessed(k)

AlertNext ==
  \/ TickStep \/ SlotReleased \/ AlertRestart
  \/ \E k \in AlertKey : AlertAcked(k) \/ TurnEnds(k)

\* The scheduler keeps running the tick and a tick keeps going.
AlertSpec == AlertInit /\ [][AlertNext]_alertVars /\ WF_alertVars(TickStep)

-----------------------------------------------------------------------------
AlertTypeOK ==
  /\ fails \in [AlertKey -> 0..MinCycles] /\ streak \in [AlertKey -> 0..MinCycles]
  /\ quiet \in [AlertKey -> 0..AckTime]
  /\ tracked \subseteq AlertKey /\ checks \subseteq Checks
  /\ todo \subseteq AlertKey /\ firing \in AlertKey \union {NoAlert}
  /\ inflight \subseteq AlertKey /\ late \in Nat /\ slots \in 0..AgentSlots

\* A bucket counts as failing no longer than it was reported without a break: a
\* bucket that healed starts from zero (run_once's reset by prefix).
FailsAreAStreak ==
  \A k \in DpiKey \union ProtocolKey : fails[k] <= streak[k]

\* No slot leaks and none is taken twice, however turns end and alerts fire.
SlotsAddUp ==
  slots + late + Cardinality(inflight \intersect DpiKey) = AgentSlots

\* A bucket that is reported again and again and never heals is paged again and
\* again, unless the admin keeps acknowledging it.
StormPaged ==
  \A k \in DpiKey \union ProtocolKey :
    (<>[](streak[k] = MinCycles) /\ []<>(k \in todo))
      => []<>(firing = k \/ quiet[k] > Repeat)

\* What the alert manager promises.
AlertsHold == AlertTypeOK /\ FailsAreAStreak /\ SlotsAddUp
=============================================================================
