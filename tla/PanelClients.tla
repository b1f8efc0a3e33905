---------------------------- MODULE PanelClients ----------------------------
(***************************************************************************)
(* One client on the 3x-ui panel as services/xui_service.py changes it     *)
(* over the HTTP API (xui_api/client.py): updates of some fields by reading *)
(* the record from every inbound and writing the whole of it back, the     *)
(* monthly renewal with its re-provisioning, re-issued keys that replace a  *)
(* duplicate, deletion.  Threads interleave at every HTTP call; calls fail  *)
(* before or after the panel obeys.                                        *)
(*                                                                         *)
(* MergedNot is Merged with a bug in it: see "mutants" in PROJECT.json.    *)
(***************************************************************************)
EXTENDS Integers

CONSTANTS PanelThread,     \* threads that call the service
          PanelQuota,      \* quotas in use; 0 means unlimited
          MaxPanelFaults   \* bound: HTTP calls that fail

ASSUME PanelConstants ==
  PanelQuota \subseteq Nat \ {0} /\ PanelQuota # {} /\ MaxPanelFaults \in Nat

VARIABLES client,      \* the panel's record of the client
          call,        \* thread -> the call it is in
          panelWrites, \* changes of the record, up to the oldest read in use
          panelFaults

panelVars == <<client, call, panelWrites, panelFaults>>

Quotas == PanelQuota \union {0}
\* on: attached; flow (Reality) and password (Shadowsocks) live in one inbound each;
\* row: the quota of the accounting row; used: traffic was counted.
ClientRecord == [on : BOOLEAN, flow : BOOLEAN, password : BOOLEAN,
                 quota : Quotas, row : Quotas, used : BOOLEAN]
Body == [flow : BOOLEAN, password : BOOLEAN, quota : Quotas]
NoBody == [flow |-> FALSE, password |-> FALSE, quota |-> 0]
NoCall == [op |-> "none", at |-> "idle", set |-> 0, body |-> NoBody, sound |-> FALSE]
Op == {"fields", "renew", "comment", "issue", "revive", "remove"}

PanelInit ==
  /\ \E q \in PanelQuota, lag \in BOOLEAN, u \in BOOLEAN :
       client = [on |-> TRUE, flow |-> TRUE, password |-> TRUE,
                 quota |-> IF lag THEN 0 ELSE q, row |-> q, used |-> u]
  /\ call = [t \in PanelThread |-> NoCall]
  /\ panelWrites = [t \in PanelThread |-> FALSE] /\ panelFaults = 0

MayFail == panelFaults < MaxPanelFaults /\ panelFaults' = panelFaults + 1
Works == UNCHANGED panelFaults
EndCall(t) == call' = [call EXCEPT ![t] = NoCall]
CallGoes(t, at) == call' = [call EXCEPT ![t].at = at]
\* A change of the record makes every read before it old.
Changes(c) == client' = c /\ panelWrites' = [t \in PanelThread |-> TRUE]

-----------------------------------------------------------------------------
\* A key issued or re-issued adds first; the others read first.
FirstOf(op) == IF op = "issue" THEN "add" ELSE IF op = "remove" THEN "delete" ELSE "read"

CallStarts(t, op, q) ==
  /\ call[t] = NoCall
  /\ call' = [call EXCEPT ![t] = [op |-> op, at |-> FirstOf(op), set |-> q, body |-> NoBody,
                                  sound |-> FALSE]]
  /\ UNCHANGED <<client, panelWrites, panelFaults>>

\* _read_client_merged_async.  The inbounds that could be read are merged; a client that
\* is on the Reality inbound without a flow gets the default one.
MergedNot(reality, ss) == [flow |-> reality, password |-> client.password /\ ss /\ ~reality,
                           quota |-> client.quota]
Merged(reality, ss) == [flow |-> reality, password |-> client.password /\ ss,
                        quota |-> client.quota]
\* _update_client_fields_async takes a missing quota from the accounting row; a failed
\* read of the row leaves it missing.  set_client_comment does not look.
Recovered(body, row) == IF body.quota = 0 /\ row THEN [body EXCEPT !.quota = client.row] ELSE body
With(t, body) == IF call[t].op \in {"fields", "renew"} THEN [body EXCEPT !.quota = call[t].set] ELSE body

ReadClient(t) ==
  /\ call[t].at = "read"
  /\ \E reality \in BOOLEAN, ss \in BOOLEAN, row \in BOOLEAN :
       LET body == With(t, IF call[t].op = "comment" THEN Merged(reality, ss)
                           ELSE Recovered(Merged(reality, ss), row))
       IN /\ IF reality /\ ss /\ row THEN Works ELSE MayFail
          /\ IF client.on /\ (reality \/ ss)
             THEN call' = [call EXCEPT ![t] = [op |-> call[t].op, at |-> "write",
                    set |-> call[t].set, body |-> body, sound |-> reality /\ ss]]
             ELSE IF call[t].op = "renew" THEN CallGoes(t, "attached?")
             ELSE EndCall(t)
  /\ panelWrites' = [panelWrites EXCEPT ![t] = FALSE]
  /\ UNCHANGED client

\* update_client: a body without a flow is refused; the panel deletes and adds the record
\* from the body on every inbound.
Accepted(body) == body.flow
Rewritten(body) == [on |-> client.on, flow |-> body.flow, password |-> body.password,
                    quota |-> body.quota, row |-> body.quota, used |-> client.used]

UpdateClient(t) ==
  LET body == call[t].body
      done == Accepted(body) /\ client.on
  IN /\ call[t].at = "write"
     /\ IF ~Accepted(body) THEN Works /\ UNCHANGED <<client, panelWrites>>
        ELSE \/ Works /\ (IF client.on THEN Changes(Rewritten(body))
                          ELSE UNCHANGED <<client, panelWrites>>)
             \/ MayFail /\ (UNCHANGED <<client, panelWrites>>
                              \/ (client.on /\ Changes(Rewritten(body))))
     /\ IF call[t].op = "renew"
        THEN CallGoes(t, IF done /\ panelFaults' = panelFaults THEN "reset" ELSE "attached?")
        ELSE EndCall(t)

\* reset_client_traffic after the renewal.
ResetTraffic(t) ==
  /\ call[t].at = "reset"
  /\ \/ Works /\ Changes([client EXCEPT !.used = FALSE])
     \/ MayFail /\ UNCHANGED <<client, panelWrites>>
  /\ EndCall(t)

\* client_attached_sync: a failed read counts as attached.
Attached(known) == ~known \/ client.on
AskAttached(t) ==
  /\ call[t].at = "attached?"
  /\ \E known \in BOOLEAN :
       /\ IF known THEN Works ELSE MayFail
       /\ IF Attached(known) THEN EndCall(t)
          ELSE call' = [call EXCEPT ![t] = [op |-> "revive", at |-> "add", set |-> call[t].set,
                 body |-> call[t].body, sound |-> call[t].sound]]
  /\ panelWrites' = [panelWrites EXCEPT ![t] = FALSE]
  /\ UNCHANGED client

\* _api_add_client_async: a duplicate is deleted and added again.
Added(t) == [on |-> TRUE, flow |-> TRUE, password |-> TRUE, quota |-> call[t].set,
             row |-> IF client.row = 0 THEN call[t].set ELSE client.row, used |-> client.used]
AddClient(t) ==
  /\ call[t].at \in {"add", "add_again"}
  /\ \/ /\ ~client.on
        /\ \/ Works /\ Changes(Added(t)) /\ EndCall(t)
           \/ MayFail /\ EndCall(t) /\ (UNCHANGED <<client, panelWrites>> \/ Changes(Added(t)))
     \/ /\ client.on /\ Works /\ UNCHANGED <<client, panelWrites>>
        /\ IF call[t].at = "add" THEN CallGoes(t, "replace") ELSE EndCall(t)
     \/ /\ client.on /\ MayFail /\ UNCHANGED <<client, panelWrites>> /\ EndCall(t)

\* del_client_by_email takes the accounting row along.
Deleted == [on |-> FALSE, flow |-> FALSE, password |-> FALSE, quota |-> 0, row |-> 0,
            used |-> FALSE]
DeleteClient(t) ==
  /\ call[t].at \in {"delete", "replace"}
  /\ \/ /\ Works /\ Changes(Deleted)
        /\ IF call[t].at = "replace" /\ client.on THEN CallGoes(t, "add_again") ELSE EndCall(t)
     \/ MayFail /\ EndCall(t) /\ (UNCHANGED <<client, panelWrites>> \/ Changes(Deleted))

\* The panel: traffic is counted, long-expired clients are detached from every inbound.
TrafficCounted ==
  /\ client.on /\ ~client.used
  /\ client' = [client EXCEPT !.used = TRUE]
  /\ UNCHANGED <<call, panelWrites, panelFaults>>

Detached ==
  /\ client.on /\ client.used
  /\ Changes([on |-> FALSE, flow |-> FALSE, password |-> FALSE, quota |-> client.quota,
              row |-> client.row, used |-> client.used])
  /\ UNCHANGED <<call, panelFaults>>

CallGoesOn(t) == ReadClient(t) \/ UpdateClient(t) \/ ResetTraffic(t) \/ AskAttached(t)
                 \/ AddClient(t) \/ DeleteClient(t)

PanelNext ==
  \/ TrafficCounted \/ Detached
  \/ \E t \in PanelThread :
       CallGoesOn(t) \/ \E op \in Op \ {"revive"}, q \in PanelQuota : CallStarts(t, op, q)

\* Every call ends in an answer or an error; the monthly renewal comes again and again.
Renewing == \E t \in PanelThread, q \in PanelQuota : CallStarts(t, "renew", q)
PanelSpec ==
  /\ PanelInit /\ [][PanelNext]_panelVars
  /\ SF_panelVars(Renewing) /\ \A t \in PanelThread : WF_panelVars(CallGoesOn(t))

-----------------------------------------------------------------------------
PanelTypeOK ==
  /\ client \in ClientRecord
  /\ call \in [PanelThread -> [op : Op \union {"none"}, set : Quotas, body : Body,
                 sound : BOOLEAN,
                 at : {"idle", "read", "write", "reset", "attached?", "add", "replace",
                       "add_again", "delete"}]]
  /\ panelWrites \in [PanelThread -> BOOLEAN] /\ panelFaults \in 0..MaxPanelFaults

\* An attached client never loses its flow, whichever inbounds could be read.
FlowKept == client.on => client.flow

\* An update that read every inbound, with no other call in between, changes nothing it
\* was not asked to change: flow, password and counters stay.
UpdatesKeepTheRest ==
  [][\A t \in PanelThread :
       call[t].at = "write" /\ call[t].sound /\ ~panelWrites[t] /\ client' # client
         /\ call'[t] # call[t]
         => /\ client'.on = client.on /\ client'.flow = client.flow
            /\ client'.password = client.password /\ client'.used = client.used]_panelVars

\* The counted traffic of a client that is still attached is not wiped by the monthly job,
\* except by the reset it ends in, unless the client changed under its eyes.
RevivesOnlyLost ==
  [][\A t \in PanelThread :
       call[t].op = "revive" /\ call[t].at = "replace" /\ call'[t] # call[t] =>
         panelWrites[t]]_panelVars

\* The password is never missed by a merged read.
PasswordKept == client.on => client.password

\* A client that was lost comes back with some month's renewal, unless it is deleted
\* again and again.
LostComesBack == []<>client.on \/ []<>(\E t \in PanelThread : call[t].at \in {"delete", "replace"})

\* What the calls on the panel promise, whatever comes of them.
PanelHolds == [](PanelTypeOK /\ FlowKept) /\ UpdatesKeepTheRest /\ RevivesOnlyLost
=============================================================================
