------------------------------ MODULE MCWriters ------------------------------
(***************************************************************************)
(* Threads that save what they have read: payments and grants, the fetch   *)
(* of a profile, and the rule lists with the complaints about sites. The   *)
(* components share no state; one of them moves in a behaviour (part).     *)
(***************************************************************************)
EXTENDS UserLifecycle, SubFetch, RuleLists, ProtocolCheck

VARIABLE part   \* the component that moves

MCAbove == [d \in {"site", "sub"} |-> IF d = "sub" THEN {"site"} ELSE {}]

\* Looked at while its part moves.
ChecksHold == part = "check" => CheckHolds

hostVars == <<part, vars, fetchVars, ruleVars, checkVars>>

\* Each component starts as it does by itself; those that stand still, from one state.
HostInit ==
  /\ part \in {"payments", "fetch", "rules", "check"}
  /\ Init /\ FetchInit /\ RuleInit /\ CheckInit
  /\ (part # "check" => ~turbo)
  /\ (part # "fetch" => srow.status = "demo")

HostNext ==
  \/ /\ part = "payments" /\ Next
     /\ UNCHANGED <<part, fetchVars, ruleVars, checkVars>>
  \/ /\ part = "fetch" /\ FetchNext
     /\ UNCHANGED <<part, vars, ruleVars, checkVars>>
  \/ /\ part = "rules" /\ RuleNext
     /\ UNCHANGED <<part, vars, fetchVars, checkVars>>
  \/ /\ part = "check" /\ CheckNext
     /\ UNCHANGED <<part, vars, fetchVars, ruleVars>>
  \/ /\ part \in {"fetch"}   \* these may come to an end
     /\ UNCHANGED hostVars

HostSpec == HostInit /\ [][HostNext]_hostVars
==============================================================================
