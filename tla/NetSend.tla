------------------------------ MODULE NetSend ------------------------------
(***************************************************************************)
(* NetServer together with a thread inside NetServerSendMsg                *)
(* (network_server.c), which sends a line to the client in sockfd[0] while *)
(* the server task may close that client and accept another one.           *)
(***************************************************************************)
EXTENDS NetServer

VARIABLES sender, sendFd

sndVars == <<sender, sendFd>>
allVars == <<vars, sndVars>>

SInit == Init /\ sender = "idle" /\ sendFd = NoFd

\* NetServerSendMsg tests serRun and sockfd[0] ...
SendCheck ==
  /\ sender = "idle"
  /\ serRun /\ sockfd[0] # NoFd
  /\ sender' = "arg"
  /\ UNCHANGED <<vars, sendFd>>

\* ... reads sockfd[0] again for the call of NetServerSend, ...
SendArg ==
  /\ sender = "arg"
  /\ sendFd' = sockfd[0]
  /\ sender' = "msg"
  /\ UNCHANGED vars

\* ... which sends the message, and fails on a descriptor that is not open, ...
SendMsg ==
  /\ sender = "msg"
  /\ sender' = IF sendFd \in open THEN "eol" ELSE "idle"
  /\ UNCHANGED <<vars, sendFd>>

\* ... and sends the line end, whose result it does not look at.
SendEol ==
  /\ sender = "eol"
  /\ sender' = "idle"
  /\ UNCHANGED <<vars, sendFd>>

SenderStep == SendCheck \/ SendArg \/ SendMsg \/ SendEol

SNext == (Next /\ UNCHANGED sndVars) \/ SenderStep

SSpec == SInit /\ [][SNext]_allVars

\* What NetServerSendMsg writes goes to the client that has introduced itself.
MessageReachesFA ==
  [][ (sender \in {"msg", "eol"} /\ sender' # sender /\ sendFd \in open)
        => sendFd \in greeted ]_allVars
=============================================================================
