-------------------------- MODULE LockdownContract --------------------------
(***************************************************************************)
(* Who may change what in app_settings[lockdown_mode] (the module comment  *)
(* of bot/services/lockdown.py and the one of set_lockdown_mode in         *)
(* bot/handlers/admin/ops.py): the operator picks the mode; 'on' and 'off' *)
(* pin "active"; in 'auto' the detector raises a lockdown, and lowers only *)
(* one that it raised itself.                                              *)
(***************************************************************************)
VARIABLES mode, active, owner

Init == mode = "auto" /\ active = FALSE /\ owner = "system"

Pin(m) ==
  /\ mode' = m /\ active' = (m = "on") /\ owner' = "admin"

HandOver == mode' = "auto" /\ UNCHANGED <<active, owner>>

Raise ==
  /\ mode = "auto" /\ ~active
  /\ active' = TRUE /\ owner' = "auto" /\ UNCHANGED mode

Lower ==
  /\ mode = "auto" /\ active /\ owner = "auto"
  /\ active' = FALSE /\ UNCHANGED <<mode, owner>>

Next == Pin("on") \/ Pin("off") \/ HandOver \/ Raise \/ Lower

Spec == Init /\ [][Next]_<<mode, active, owner>>
=============================================================================
