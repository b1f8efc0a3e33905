------------------------------ MODULE AgentTurns ------------------------------
(***************************************************************************)
(* handlers/ai_handler.py with services/agent_client.py (OpenCode) or       *)
(* services/hermes_client.py (Hermes) under it: the admin's prompts become  *)
(* turns of the agent on worker threads, one per conversation, and the      *)
(* conversation's session is kept in ai_sessions between turns.  The server *)
(* may lose sessions (OpenCode), refuse, or answer later than the timeout,  *)
(* the bot may restart, the admin may reset at any moment.                  *)
(*                                                                         *)
(* RowKeptNot is RowKept with a bug in it: see "mutants" in PROJECT.json.  *)
(***************************************************************************)
EXTENDS Integers, FiniteSets

CONSTANTS Chat,         \* conversations: session keys
          TurnWorker,   \* worker threads that may run at once
          MaxPrompts,   \* bound: prompts taken
          AgentFaults   \* bound: refusals, losses, restarts, late answers

ASSUME AgentConstants == {MaxPrompts, AgentFaults} \subseteq Nat

VARIABLES backend,   \* "hermes" or "opencode"
          kept,      \* ai_sessions: the session remembered for a conversation
          answering, \* _inflight: conversations with a turn running
          turns,     \* what every worker is at
          photos,    \* conversations whose photo lies in TG_MEDIA_DIR
          closing,   \* the conversation whose photo handle() is about to delete
          sessions,  \* sessions the server has
          primed,    \* sessions that got the preamble
          busy,      \* sessions the server runs a timed-out turn of
          dropped,   \* the conversation's session was reset, or lost by the server
          made, prompts, agentFaults

agentVars == <<backend, kept, answering, turns, photos, closing, sessions, primed, busy, dropped,
               made, prompts, agentFaults>>
agentCounts == <<made, prompts, agentFaults>>

NoSession == 0
NoChat == "none"
AtRest == [chat |-> NoChat, at |-> "idle", sid |-> NoSession, fresh |-> FALSE, photo |-> FALSE]

AgentInit ==
  /\ backend \in {"hermes", "opencode"}
  /\ kept = [k \in Chat |-> NoSession] /\ answering = {} /\ turns = [w \in TurnWorker |-> AtRest]
  /\ photos = {} /\ closing = NoChat /\ sessions = {} /\ primed = {} /\ busy = {}
  /\ dropped = [k \in Chat |-> TRUE] /\ made = 0 /\ prompts = 0 /\ agentFaults = 0

AgentFault == agentFaults < AgentFaults /\ agentFaults' = agentFaults + 1

-----------------------------------------------------------------------------
\* handle and _handle_prompt: a photo is downloaded first; a conversation with a turn
\* running bounces the prompt; otherwise a worker is started.
Takes(k) == k \notin answering

PromptArrives(k, photo) ==
  /\ closing = NoChat /\ prompts < MaxPrompts /\ prompts' = prompts + 1
  /\ photos' = IF photo THEN photos \union {k} ELSE photos
  /\ closing' = IF photo THEN k ELSE NoChat
  /\ IF Takes(k)
     THEN \E w \in TurnWorker :
            /\ turns[w].at = "idle"
            /\ turns' = [turns EXCEPT ![w] = [chat |-> k, at |-> "ask", sid |-> NoSession,
                                              fresh |-> FALSE, photo |-> photo]]
            /\ answering' = answering \union {k}
     ELSE UNCHANGED <<turns, answering>>
  /\ UNCHANGED <<backend, kept, sessions, primed, busy, dropped, made, agentFaults>>

\* The finally of handle, on the polling thread: the turn has only been started.
PhotoDeleted ==
  /\ closing # NoChat /\ photos' = photos \ {closing} /\ closing' = NoChat
  /\ UNCHANGED <<backend, kept, answering, turns, sessions, primed, busy, dropped, agentCounts>>

\* The worker's finally: whatever happened, the conversation is free.
WorkerDone(w) ==
  /\ turns' = [turns EXCEPT ![w] = AtRest]
  /\ answering' = answering \ {turns[w].chat}

\* A new session with the preamble and the prompt: OpenCode makes it, Hermes gets an id of ours.
Opened(w) ==
  /\ made' = made + 1
  /\ sessions' = sessions \union {made + 1} /\ primed' = primed \union {made + 1}

\* The request of a turn goes out, in a session.
Sends(w, sid, fresh) ==
  turns' = [turns EXCEPT ![w] = [chat |-> turns[w].chat, at |-> "sent", sid |-> sid,
                                 fresh |-> fresh, photo |-> turns[w].photo]]

\* ask up to the request: the session is read, or a new one begun.
TurnAsks(w) ==
  LET k == turns[w].chat
  IN /\ turns[w].at = "ask"
     /\ \/ /\ kept[k] = NoSession /\ Opened(w) /\ Sends(w, made + 1, TRUE)
           /\ UNCHANGED <<answering, agentFaults>>
        \/ /\ kept[k] # NoSession /\ Sends(w, kept[k], FALSE)
           /\ UNCHANGED <<made, sessions, primed, answering, agentFaults>>
        \/ /\ kept[k] = NoSession /\ AgentFault /\ WorkerDone(w)      \* no session could be made
           /\ UNCHANGED <<made, sessions, primed>>
     /\ UNCHANGED <<backend, kept, photos, closing, busy, dropped, prompts>>

\* The answer came: the session is remembered.
SessionKept(w) == kept' = [kept EXCEPT ![turns[w].chat] = turns[w].sid]
TurnAnswered(w) ==
  /\ turns[w].at = "sent" /\ turns[w].sid \in sessions
  /\ SessionKept(w) /\ turns' = [turns EXCEPT ![w].at = "reply"]
  /\ dropped' = [dropped EXCEPT ![turns[w].chat] = FALSE]
  /\ UNCHANGED <<backend, answering, photos, closing, sessions, primed, busy, agentCounts>>

\* 404 for a session read from the table (OpenCode): it is forgotten and a new one is begun.
TurnRestarted(w) ==
  LET k == turns[w].chat
  IN /\ turns[w].at = "sent" /\ turns[w].sid \notin sessions /\ ~turns[w].fresh
     /\ kept' = [kept EXCEPT ![k] = NoSession] /\ dropped' = [dropped EXCEPT ![k] = TRUE]
     /\ Opened(w) /\ Sends(w, made + 1, TRUE)
     /\ UNCHANGED <<backend, answering, photos, closing, busy, prompts, agentFaults>>

\* An error or a refusal, a 404 of a new session among them: nothing is remembered.
RowKeptNot(w) == kept' = [kept EXCEPT ![turns[w].chat] = NoSession]
RowKept(w) == kept' = kept

TurnRefused(w) ==
  /\ turns[w].at = "sent" /\ WorkerDone(w) /\ RowKept(w)
  /\ IF turns[w].sid \in sessions \/ ~turns[w].fresh THEN AgentFault ELSE UNCHANGED agentFaults
  /\ UNCHANGED <<backend, photos, closing, sessions, primed, busy, dropped, made, prompts>>

\* The read timeout: the server goes on with the turn, nothing is remembered.
TurnTimesOut(w) ==
  /\ turns[w].at = "sent" /\ turns[w].sid \in sessions /\ AgentFault /\ WorkerDone(w)
  /\ busy' = busy \union {turns[w].sid}
  /\ UNCHANGED <<backend, kept, photos, closing, sessions, primed, dropped, made, prompts>>

\* The reply and its files are sent, by whatever way it went.
TurnReplied(w) ==
  /\ turns[w].at = "reply" /\ WorkerDone(w)
  /\ UNCHANGED <<backend, kept, photos, closing, sessions, primed, busy, dropped, agentCounts>>

-----------------------------------------------------------------------------
\* /ai_reset: OpenCode's session is deleted if that can be done, the kept in any case.
ResetAsked(k, reached) ==
  /\ closing = NoChat /\ kept[k] # NoSession
  /\ sessions' = IF backend = "opencode" /\ reached THEN sessions \ {kept[k]} ELSE sessions
  /\ kept' = [kept EXCEPT ![k] = NoSession] /\ dropped' = [dropped EXCEPT ![k] = TRUE]
  /\ UNCHANGED <<backend, answering, turns, photos, closing, primed, busy, agentCounts>>

SessionLost ==
  /\ backend = "opencode" /\ AgentFault
  /\ \E s \in sessions : sessions' = sessions \ {s}
  /\ UNCHANGED <<backend, kept, answering, turns, photos, closing, primed, busy, dropped, made, prompts>>

ServerTurnEnds ==
  /\ \E s \in busy : busy' = busy \ {s}
  /\ UNCHANGED <<backend, kept, answering, turns, photos, closing, sessions, primed, dropped, agentCounts>>

BotRestarts ==
  /\ AgentFault /\ answering # {}
  /\ answering' = {} /\ turns' = [w \in TurnWorker |-> AtRest] /\ closing' = NoChat
  /\ UNCHANGED <<backend, kept, photos, sessions, primed, busy, dropped, made, prompts>>

TurnGoesOn(w) ==
  \/ TurnAsks(w) \/ TurnAnswered(w) \/ TurnRestarted(w) \/ TurnRefused(w) \/ TurnTimesOut(w)
  \/ TurnReplied(w)

AgentNext ==
  \/ \E k \in Chat, yes \in BOOLEAN : PromptArrives(k, yes) \/ ResetAsked(k, yes)
  \/ \E w \in TurnWorker : TurnGoesOn(w)
  \/ PhotoDeleted \/ SessionLost \/ ServerTurnEnds \/ BotRestarts

AgentSpec ==
  /\ AgentInit /\ [][AgentNext]_agentVars
  /\ \A w \in TurnWorker : WF_agentVars(TurnGoesOn(w))

-----------------------------------------------------------------------------
\* Type correctness: the table, the workers and the server's sessions; every session was made.
AgentTypeOK ==
  /\ made \in Nat /\ kept \in [Chat -> 0..made] /\ answering \subseteq Chat /\ photos \subseteq Chat
  /\ turns \in [TurnWorker -> [chat : Chat \union {NoChat}, sid : 0..made,
                  at : {"idle", "ask", "sent", "reply"}, fresh : BOOLEAN, photo : BOOLEAN]]
  /\ sessions \union primed \union busy \subseteq 1..made /\ closing \in Chat \union {NoChat}
  /\ dropped \in [Chat -> BOOLEAN]

Working(w) == turns[w].at # "idle"

\* The bot runs one turn of a conversation at a time, and bounces prompts only while one
\* is running (_handle_prompt and its worker).
OneTurnPerChat ==
  /\ \A w, v \in TurnWorker : Working(w) /\ Working(v) /\ w # v => turns[w].chat # turns[v].chat
  /\ answering = {turns[w].chat : w \in {v \in TurnWorker : Working(v)}}

\* Whatever session a turn was answered in knows the rules of the house: it got the
\* preamble, also when it replaced one the server had lost.
AnsweredKnowTheRules ==
  /\ \A w \in TurnWorker : turns[w].at = "reply" => turns[w].sid \in primed
  /\ \A k \in Chat : kept[k] # NoSession => kept[k] \in primed

\* A conversation goes on in its session: another one is remembered only after a reset or
\* after the server lost the first.
ConversationGoesOn ==
  [][\A k \in Chat : kept[k] # NoSession /\ kept'[k] # kept[k] => dropped'[k] \/ dropped[k]]_agentVars

\* Nobody is bounced for ever: the conversation of a running turn is free again in the end.
TurnsEnd == \A k \in Chat : k \in answering ~> k \notin answering

\* What the conversations with the agent keep to.
AgentHolds == [](AgentTypeOK /\ OneTurnPerChat /\ AnsweredKnowTheRules) /\ ConversationGoesOn
==============================================================================
