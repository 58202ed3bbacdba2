--------------------------- MODULE CommandSocket ---------------------------
(***************************************************************************)
(* The connection between the daemon and a client (port 8080): a byte      *)
(* stream each way, and the client of andor2k_client.cpp, which types a    *)
(* command, sends it, waits for one message and asks for the next command. *)
(*                                                                         *)
(* recv() takes whatever the stream holds, so commands that are sent       *)
(* before the daemon reads come out as one, and so do messages the client  *)
(* has not read.  A client that is killed leaves a stream that takes one   *)
(* more message; the message after that raises SIGPIPE in the sender.      *)
(***************************************************************************)
EXTENDS Naturals, Sequences

CONSTANTS
  Commands,     \* the commands clients type, by their first word
  MaxPending    \* commands a client may have sent ahead of the daemon

ASSUME SocketAssumption ==
  /\ Commands \subseteq {"settemp", "shutdown", "status", "setparam", "image",
                         "abort", "unknown"}
  /\ MaxPending \in Nat \ {0}

VARIABLES
  cpc,       \* the client: "away", "typing", "awaiting"
  peer,      \* the daemon's child socket: "none", "open", "gone" (the client
             \* has left), "reset" (and the daemon has sent to it since)
  toDaemon,  \* commands the daemon has not received yet
  unread     \* the client has messages to read

socketVars == <<cpc, peer, toDaemon, unread>>

SocketTypeOK ==
  /\ cpc \in {"away", "typing", "awaiting"}
  /\ peer \in {"none", "open", "gone", "reset"}
  /\ toDaemon \in Seq(Commands) /\ Len(toDaemon) <= MaxPending
  /\ unread \in BOOLEAN

SocketInit ==
  /\ cpc = "away"
  /\ peer = "none"
  /\ toDaemon = <<>>
  /\ unread = FALSE

-----------------------------------------------------------------------------
(* The daemon's calls.                                                     *)

\* accept() returns a child socket for a client that connected.
Accept ==
  /\ peer = "none"
  /\ cpc = "away"
  /\ cpc' = "typing"
  /\ peer' = "open"
  /\ UNCHANGED <<toDaemon, unread>>

\* send() while it is only a call; peer = "none" is the start-up, which passes
\* no socket.
Send ==
  /\ peer # "reset"
  /\ unread' = (unread \/ peer = "open")
  /\ peer' = IF peer = "gone" THEN "reset" ELSE peer
  /\ UNCHANGED <<cpc, toDaemon>>

\* recv() > 0: everything that has arrived, of which the first word counts.
Receive ==
  /\ toDaemon # <<>>
  /\ peer # "reset"
  /\ toDaemon' = <<>>
  /\ UNCHANGED <<cpc, peer, unread>>

\* recv() < 1: the client has left.
ReceiveEnds ==
  /\ \/ peer = "gone" /\ toDaemon = <<>>
     \/ peer = "reset"
  /\ peer' = "none"
  /\ toDaemon' = <<>>
  /\ UNCHANGED <<cpc, unread>>

\* The child socket is closed by its destructor.
CloseChild ==
  /\ peer' = "none"
  /\ toDaemon' = <<>>
  /\ UNCHANGED <<cpc, unread>>

\* The process ends: the client reads the end of the stream and leaves.
HangUp ==
  /\ cpc' = "away"
  /\ peer' = "none"
  /\ toDaemon' = <<>>
  /\ unread' = FALSE

-----------------------------------------------------------------------------
(* andor2k_client.cpp                                                      *)

ClientSends(c) ==
  /\ cpc = "typing"
  /\ peer = "open"
  /\ Len(toDaemon) < MaxPending
  /\ toDaemon' = Append(toDaemon, c)
  /\ cpc' = "awaiting"
  /\ UNCHANGED <<peer, unread>>

ClientReads ==
  /\ cpc = "awaiting"
  /\ unread
  /\ unread' = FALSE
  /\ cpc' = "typing"
  /\ UNCHANGED <<peer, toDaemon>>

\* The user gives up: the process ends and its socket is closed.
ClientLeaves ==
  /\ cpc # "away"
  /\ peer' = IF peer = "open" THEN "gone" ELSE peer
  /\ cpc' = "away"
  /\ unread' = FALSE
  /\ UNCHANGED toDaemon
=============================================================================
