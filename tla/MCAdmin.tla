------------------------------- MODULE MCAdmin -------------------------------
(***************************************************************************)
(* What goes on in the admin's chat and in the jobs of the scheduler: the  *)
(* accounts of the users, and the jobs that write to people. The           *)
(* components share no state; one of them moves in a behaviour (part).     *)
(***************************************************************************)
EXTENDS UserLifecycle, Reminders

VARIABLE part   \* the component that moves

MCOldest == <<"a", "b">>
\* Reminders by themselves, with the dashboard's; or the sweep and the digest.
MCSettings == {[maxPer |-> MaxPer, sweeps |-> FALSE, digests |-> FALSE],
               [maxPer |-> 0, sweeps |-> TRUE, digests |-> TRUE]}

hostVars == <<part, vars, remindVars>>

\* Each component starts as it does by itself; those that stand still, from one state.
HostInit ==
  /\ part \in {"accounts", "reminders", "warnings"}
  /\ Init /\ RemindInit
  /\ (part # "warnings" => limited = {})
  /\ (part = "warnings" => Cardinality(limited) = 1)
  /\ IF part = "reminders" THEN setting \in MCSettings ELSE ~setting.digests /\ ~setting.sweeps
  /\ (~setting.sweeps => \A p \in Person : standing[p] = "new")
  /\ (setting.maxPer > 0 => part = "reminders" /\ moves = 1 /\ forced = 0)
  /\ (setting.maxPer = 0 => moves = 0 /\ forced = MaxForced)

HostNext ==
  \/ /\ part = "accounts" /\ Next
     /\ UNCHANGED <<part, remindVars>>
  \/ /\ part = "reminders" /\ FunnelNext
     /\ UNCHANGED <<part, vars>>
  \/ /\ part = "warnings" /\ WarnNext
     /\ UNCHANGED <<part, vars>>
  \/ /\ part \in {"reminders", "warnings"}   \* these may come to an end
     /\ UNCHANGED hostVars

\* The fairness of each component's own specification, while it is the one that moves.
HostSpec ==
  /\ HostInit /\ [][HostNext]_hostVars
  /\ WF_remindVars(part = "reminders" /\ DigestRuns)
  /\ SF_remindVars(part = "reminders" /\ DigestSent(TRUE))
  /\ WF_remindVars(part = "reminders" /\ DayPasses)
  /\ WF_remindVars(part = "warnings" /\ TrafficSynced)
  /\ \A c \in Client : SF_remindVars(part = "warnings" /\ Warned(c, TRUE, TRUE))
==============================================================================
