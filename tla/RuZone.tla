------------------------------- MODULE RuZone -------------------------------
(***************************************************************************)
(* services/ru_exit.py and scripts/setup_ru_exit.sh: payers may leave by the*)
(* entry's own address. A root timer on the entry reads who may from the    *)
(* bot's database every two minutes and recreates the container when the    *)
(* rendered config differs from the live one; a hand-run setup or --remove  *)
(* takes the same lock.                                                     *)
(*                                                                         *)
(* EmptiedOnlyIdle is Emptied with a bug in it: see "mutants" in           *)
(* PROJECT.json.                                                           *)
(***************************************************************************)
EXTENDS Integers, FiniteSets

CONSTANTS ZoneUser,
          MaxZoneEvents,  \* bound: changes of who may
          MaxZoneFaults,  \* bound: bad reads, failed starts, runs cut short
          MaxByHand       \* bound: setups and removals by hand

ASSUME ZoneConstants == MaxZoneEvents \in Nat /\ MaxZoneFaults \in Nat /\ MaxByHand \in Nat

VARIABLES eligible,   \* users is_eligible accepts now
          offered,    \* app_settings.ru_exit is set
          confFile,   \* users of config.json
          confPrev,   \* users of config.json.prev
          container,  \* [up, users]: what runs
          zoneRun,    \* the run that holds the lock
          torn,       \* a run ended between the swap and the start; none started since (history)
          zoneEvents, zoneFaults, byHand

zoneVars == <<eligible, offered, confFile, confPrev, container, zoneRun, torn,
              zoneEvents, zoneFaults, byHand>>

NoRun == [mode |-> "none", at |-> "idle", list |-> {}]
Down == [up |-> FALSE, users |-> {}]

ZoneInit ==
  /\ eligible \in SUBSET ZoneUser
  /\ offered = TRUE
  /\ confFile = eligible /\ confPrev = eligible /\ container = [up |-> TRUE, users |-> eligible]
  /\ zoneRun = NoRun /\ torn = FALSE
  /\ zoneEvents = 0 /\ zoneFaults = 0 /\ byHand = 0

Fault == zoneFaults < MaxZoneFaults /\ zoneFaults' = zoneFaults + 1

\* A purchase, a lapse, a ban, a revoked key, a support ticket opened or closed.
EligibilityMoves(u) ==
  /\ zoneEvents < MaxZoneEvents /\ zoneEvents' = zoneEvents + 1
  /\ eligible' = IF u \in eligible THEN eligible \ {u} ELSE eligible \union {u}
  /\ UNCHANGED <<offered, confFile, confPrev, container, zoneRun, torn, zoneFaults, byHand>>

\* The timer, while the egress is set up; or the admin. flock: one run at a time.
RunStarted(mode) ==
  /\ zoneRun = NoRun
  /\ IF mode = "sync" THEN offered /\ UNCHANGED byHand
     ELSE byHand < MaxByHand /\ byHand' = byHand + 1
  /\ zoneRun' = [mode |-> mode, at |-> IF mode = "remove" THEN "clear" ELSE "read", list |-> {}]
  /\ UNCHANGED <<eligible, offered, confFile, confPrev, container, torn, zoneEvents, zoneFaults>>

RunOver == zoneRun' = NoRun

\* The user list from the bot's container: a broken read yields no users.
Read(list) == zoneRun' = [mode |-> zoneRun.mode, at |-> "judge", list |-> list]
ListFetched ==
  /\ zoneRun.at = "read"
  /\ \/ Read(eligible) /\ UNCHANGED zoneFaults
     \/ Read({}) /\ Fault
     \/ RunOver /\ Fault
  /\ UNCHANGED <<eligible, offered, confFile, confPrev, container, torn, zoneEvents, byHand>>

\* Nothing changed and the container runs: done. An empty list is not applied by --sync.
NothingToDo == zoneRun.list = confFile /\ container.up
EmptiedOnlyIdle == zoneRun.list = {} /\ confFile # {} /\ ~container.up
Emptied == zoneRun.list = {} /\ confFile # {}

Judged ==
  /\ zoneRun.at = "judge"
  /\ IF zoneRun.mode = "sync" /\ (NothingToDo \/ Emptied)
     THEN RunOver ELSE zoneRun' = [zoneRun EXCEPT !.at = "swap"]
  /\ UNCHANGED <<eligible, offered, confFile, confPrev, container, torn, zoneEvents, zoneFaults, byHand>>

Swapped ==
  /\ zoneRun.at = "swap"
  /\ confPrev' = confFile /\ confFile' = zoneRun.list
  /\ zoneRun' = [zoneRun EXCEPT !.at = "start"]
  /\ UNCHANGED <<eligible, offered, container, torn, zoneEvents, zoneFaults, byHand>>

\* docker rm, docker run, and the wait until the port answers. A container that does not
\* come up is replaced by one with the previous config, and the run fails.
RollsBack ==
  /\ RunOver /\ confFile' = confPrev
  /\ container' \in {[up |-> TRUE, users |-> confPrev], Down}

ContainerStarted ==
  /\ zoneRun.at = "start" /\ torn' = FALSE
  /\ \/ /\ container' = [up |-> TRUE, users |-> confFile]
        /\ IF zoneRun.mode = "setup"
           THEN zoneRun' = [zoneRun EXCEPT !.at = "offer"] ELSE RunOver
        /\ UNCHANGED <<confFile, zoneFaults>>
     \/ Fault /\ RollsBack
  /\ UNCHANGED <<eligible, offered, confPrev, zoneEvents, byHand>>

\* Killed, or docker refuses to remove and to run: the old container runs on beside the
\* new config.json.
RunTorn ==
  /\ zoneRun.at = "start" /\ Fault
  /\ RunOver /\ torn' = TRUE
  /\ UNCHANGED <<eligible, offered, confFile, confPrev, container, zoneEvents, byHand>>

\* Setup ends with the bot's setting; --remove begins with it.
Offered ==
  /\ zoneRun.at = "offer" /\ RunOver
  /\ \/ offered' = TRUE /\ UNCHANGED zoneFaults
     \/ Fault /\ UNCHANGED offered
  /\ UNCHANGED <<eligible, confFile, confPrev, container, torn, zoneEvents, byHand>>

Withdrawn ==
  /\ \/ /\ zoneRun.at = "clear" /\ offered' = FALSE
        /\ zoneRun' = [zoneRun EXCEPT !.at = "drop"] /\ UNCHANGED container
     \/ /\ zoneRun.at = "drop" /\ container' = Down /\ RunOver /\ UNCHANGED offered
  /\ UNCHANGED <<eligible, confFile, confPrev, torn, zoneEvents, zoneFaults, byHand>>

RunMoves == ListFetched \/ Judged \/ Swapped \/ ContainerStarted \/ RunTorn \/ Offered \/ Withdrawn

ZoneNext ==
  \/ \E u \in ZoneUser : EligibilityMoves(u)
  \/ \E mode \in {"sync", "setup", "remove"} : RunStarted(mode)
  \/ RunMoves

\* systemd starts the timer's unit again and again; a run goes on to its end.
ZoneSpec ==
  /\ ZoneInit /\ [][ZoneNext]_zoneVars /\ WF_zoneVars(RunStarted("sync")) /\ WF_zoneVars(RunMoves)

-----------------------------------------------------------------------------
ZoneTypeOK ==
  /\ eligible \subseteq ZoneUser /\ offered \in BOOLEAN /\ torn \in BOOLEAN
  /\ confFile \subseteq ZoneUser /\ confPrev \subseteq ZoneUser
  /\ container \in [up : BOOLEAN, users : SUBSET ZoneUser]
  /\ zoneRun \in [mode : {"none", "sync", "setup", "remove"},
                  at : {"idle", "read", "judge", "swap", "start", "offer", "clear", "drop"},
                  list : SUBSET ZoneUser]
  /\ zoneFaults \in 0 .. MaxZoneFaults
  /\ zoneRun.at = "start" => confFile = zoneRun.list /\ (~torn => container.users \in {{}, confPrev})

\* Whatever a read returns, the timer does not take the egress away from everyone who is
\* served (setup_ru_exit.sh:30-33).
SyncNeverEmpties ==
  [][(zoneRun.mode = "sync" /\ container.up /\ container.users # {} /\ container'.up
       /\ ~torn)
       => container'.users # {}]_zoneVars

\* The buttons and profiles are withdrawn before the server goes (setup_ru_exit.sh:96-98).
GoneAfterWithdrawn == [][zoneRun.mode = "remove" /\ container' # container => ~offered]_zoneVars

\* A new payer gets in and a lapsed or banned one drops out (ru_exit.py:31-33), unless the
\* list is empty or the last run that swapped the config was cut short before the start.
ListArrives ==
  \A S \in SUBSET ZoneUser \ {{}} :
    []((offered /\ eligible = S)
         => <>(~offered \/ torn \/ eligible # S \/ container = [up |-> TRUE, users |-> S]))

\* NOT TRUE of the code: after such a run every later --sync finds config.json as it renders
\* it and a container that runs, and changes nothing (setup_ru_exit.sh:237-241).
LapsedDropOut ==
  \A S \in SUBSET ZoneUser \ {{}} :
    []((offered /\ eligible = S)
         => <>(~offered \/ eligible # S \/ container = [up |-> TRUE, users |-> S]))

\* What the RU zone never does.
ZoneHolds == []ZoneTypeOK /\ SyncNeverEmpties /\ GoneAfterWithdrawn
=============================================================================
