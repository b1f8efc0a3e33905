------------------------------ MODULE MCInbound ------------------------------
(***************************************************************************)
(* What reaches the bot: the polling of Telegram, SOS reports, kits and    *)
(* warnings, the mailbox, the tickets of the support desk, and the         *)
(* heartbeats of the clients. The components share no state; one of them   *)
(* moves in a behaviour (part).                                            *)
(***************************************************************************)
EXTENDS Polling, Sos, MailIntake, SupportTopics, ProbeBeats

VARIABLE part   \* the component that moves

\* Who asks for help is heard once: reports of a blocking, and tickets.
HelpHolds == SosHolds /\ TicketsHold

\* What comes about in the end: updates are handled and letters read, the one turn of SOS is
\* given back, nobody stays in support without a topic, a living client is seen and a key
\* taken away forgotten (PollingService.start, poll_once, SosService._kick_agent, the hourly
\* repair of tickets, the probe endpoint).
InboundProgress ==
  EventuallyHandled /\ TurnComesBack /\ LettersRead /\ SupportMovesOn /\ ClientSeen /\ GoneForgotten

hostVars == <<part, vars, sosVars, kitVars, reverseVars, mailVars, topicVars, beatVars>>

\* Each component starts as it does by itself; those that stand still, from one state.
HostInit ==
  /\ part \in {"polling", "sos", "kit", "reverse", "mail", "tickets", "beats"}
  /\ Init /\ SosInit /\ KitInit /\ ReverseInit /\ MailInit /\ TopicInit /\ BeatInit
  /\ (part # "beats" => held = {})
  /\ (part # "mail" => inbox = <<>>)

HostNext ==
  \/ /\ part = "polling" /\ Next
     /\ UNCHANGED <<part, sosVars, kitVars, reverseVars, mailVars, topicVars, beatVars>>
  \/ /\ part = "sos" /\ SosNext
     /\ UNCHANGED <<part, vars, kitVars, reverseVars, mailVars, topicVars, beatVars>>
  \/ /\ part = "kit" /\ KitNext
     /\ UNCHANGED <<part, vars, sosVars, reverseVars, mailVars, topicVars, beatVars>>
  \/ /\ part = "reverse" /\ ReverseNext
     /\ UNCHANGED <<part, vars, sosVars, kitVars, mailVars, topicVars, beatVars>>
  \/ /\ part = "mail" /\ MailNext
     /\ UNCHANGED <<part, vars, sosVars, kitVars, reverseVars, topicVars, beatVars>>
  \/ /\ part = "tickets" /\ TopicNext
     /\ UNCHANGED <<part, vars, sosVars, kitVars, reverseVars, mailVars, beatVars>>
  \/ /\ part = "beats" /\ BeatNext
     /\ UNCHANGED <<part, vars, sosVars, kitVars, reverseVars, mailVars, topicVars>>
  \/ /\ part \in {"sos", "kit", "reverse", "mail", "tickets"}   \* these may come to an end
     /\ UNCHANGED hostVars

\* The fairness of each component's own specification, while it is the one that moves.
HostSpec ==
  /\ HostInit /\ [][HostNext]_hostVars
  /\ SF_vars(part = "polling" /\ Poll /\ batch' # {})
  /\ WF_vars(part = "polling" /\ Process)
  /\ WF_vars(part = "polling" /\ Restart /\ ~running)
  /\ WF_sosVars(part = "sos" /\ GateTimesOut) /\ WF_sosVars(part = "sos" /\ DiagnosisEnds)
  /\ WF_mailVars(part = "mail" /\ (PollStarts \/ LetterProcessed \/ PollEnds \/ (PollBaseline /\ watermark = 0)))
  /\ WF_topicVars(part = "tickets" /\ \E o \in Outcome : DeskMoves(o))
  /\ WF_topicVars(part = "tickets" /\ TicketLogged)
  /\ WF_topicVars(part = "tickets" /\ RepairReads)
  /\ WF_topicVars(part = "tickets" /\ RepairSets)
  /\ WF_beatVars(part = "beats" /\ BeatTick)
  /\ \A t \in Token : WF_beatVars(part = "beats" /\ Probed(t)) /\ WF_beatVars(part = "beats" /\ Resolved(t))
==============================================================================
