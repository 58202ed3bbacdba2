--------------------------- MODULE AbortListener ---------------------------
(***************************************************************************)
(* The abort channel of an image command: abort_listener(), the thread     *)
(* every scan starts on SOCKET_PORT+1, its listening socket, the peer that *)
(* may connect to it, and the four things the scanning thread does with it *)
(* (spawn, wait for the handshake, shut the socket down, join).            *)
(*                                                                         *)
(* The listener runs                                                       *)
(*   reset -> lock -> bind -> publish -> accept -> recv -> abort ->        *)
(*   cancel -> close -> ended                                              *)
(* and leaves early from bind (the constructor throws), accept and recv.   *)
(***************************************************************************)
EXTENDS Integers, AndorCamera

CONSTANTS
  ListenFd,          \* descriptor the listening socket gets
  OtherSocketErrors  \* BOOLEAN: may ServerSocket throw when the port is free,
                     \* and accept() fail before the scan shuts it down?

ASSUME ListenerAssumption == /\ ListenFd \in Nat \ {0}
                             /\ OtherSocketErrors \in BOOLEAN

Unpublished == -100   \* what the scans store before they spawn the listener
BindFailed == -1      \* what the listener's catch block stores

VARIABLES
  lpc,              \* where abort_listener() is; "none" when not spawned
  abort_set,        \* global: the message of the peer has been received
  abort_socket_fd,  \* global: descriptor for the scan to shut down
  g_mtx_abort,      \* global mutex of the handshake: its holder or "free"
  lsock,            \* the listening socket: "closed", "listening", "shut"
  peer,             \* "none", "connected", "sent" (a message) or "gone"
  timeWait          \* port SOCKET_PORT+1 is in TIME_WAIT (no SO_REUSEADDR)

listenerVars ==
  <<lpc, abort_set, abort_socket_fd, g_mtx_abort, lsock, peer, timeWait>>

ListenerPcs == {"none", "reset", "lock", "bind", "publish", "accept", "recv",
                "abort", "cancel", "close", "ended"}

ListenerTypeOK ==
  /\ lpc \in ListenerPcs
  /\ abort_set \in {0, 1}
  /\ abort_socket_fd \in {0, Unpublished, BindFailed, ListenFd}
  /\ g_mtx_abort \in {"free", "listener"}
  /\ lsock \in {"closed", "listening", "shut"}
  /\ peer \in {"none", "connected", "sent", "gone"}
  /\ timeWait \in BOOLEAN

\* Globals with static storage start at zero.
ListenerInit ==
  /\ lpc = "none"
  /\ abort_set = 0
  /\ abort_socket_fd = 0
  /\ g_mtx_abort = "free"
  /\ lsock = "closed"
  /\ peer = "none"
  /\ timeWait = FALSE

ListenerGoes(from, to) == lpc = from /\ lpc' = to

-----------------------------------------------------------------------------
(* What the scanning thread does with the listener.                        *)

SpawnListener ==
  /\ abort_socket_fd' = Unpublished
  /\ lpc' = "reset"
  /\ peer' = "none"
  /\ UNCHANGED <<abort_set, g_mtx_abort, lsock, timeWait>>

\* cv.wait(lk, [] { return abort_socket_fd; }): returns with the mutex free
\* and the predicate true.  The listener changes the descriptor only under
\* the mutex and notifies afterwards, so no wake-up is lost and waiting is
\* being disabled here.
HandshakeOver == g_mtx_abort = "free" /\ abort_socket_fd # 0

\* Mutated: the scan joins the listener without shutting its socket down.
NoShutdown == UNCHANGED listenerVars

\* shutdown(abort_socket_fd, 2): EBADF unless the descriptor is the open one.
ShutdownListener ==
  /\ lsock' = IF abort_socket_fd = ListenFd /\ lsock = "listening"
              THEN "shut" ELSE lsock
  /\ UNCHANGED <<lpc, abort_set, abort_socket_fd, g_mtx_abort, peer, timeWait>>

\* abort_t.join()
JoinListener ==
  /\ ListenerGoes("ended", "none")
  /\ UNCHANGED <<abort_set, abort_socket_fd, g_mtx_abort, lsock, peer, timeWait>>

-----------------------------------------------------------------------------
(* The listener thread.                                                    *)

\* Mutated: the flag of the previous command is left as it is.
NoReset ==
  /\ ListenerGoes("reset", "lock")
  /\ UNCHANGED <<abort_set, abort_socket_fd, g_mtx_abort, lsock, peer, timeWait>>
  /\ UNCHANGED cameraVars

ListenerReset ==
  /\ ListenerGoes("reset", "lock")
  /\ abort_set' = 0
  /\ UNCHANGED <<abort_socket_fd, g_mtx_abort, lsock, peer, timeWait>>
  /\ UNCHANGED cameraVars

ListenerLock ==
  /\ ListenerGoes("lock", "bind")
  /\ g_mtx_abort = "free"
  /\ g_mtx_abort' = "listener"
  /\ UNCHANGED <<abort_set, abort_socket_fd, lsock, peer, timeWait>>
  /\ UNCHANGED cameraVars

\* ServerSocket(port_no): socket, bind and listen succeed.
ListenerBinds ==
  /\ ListenerGoes("bind", "publish")
  /\ ~timeWait
  /\ lsock' = "listening"
  /\ UNCHANGED <<abort_set, abort_socket_fd, g_mtx_abort, peer, timeWait>>
  /\ UNCHANGED cameraVars

\* ServerSocket(port_no) throws: the catch block still owns the lock.
ListenerBindThrows ==
  /\ ListenerGoes("bind", "ended")
  /\ timeWait \/ OtherSocketErrors
  /\ abort_socket_fd' = BindFailed
  /\ g_mtx_abort' = "free"
  /\ UNCHANGED <<abort_set, lsock, peer, timeWait>>
  /\ UNCHANGED cameraVars

\* Store the descriptor, unlock, notify.
ListenerPublishes ==
  /\ ListenerGoes("publish", "accept")
  /\ abort_socket_fd' = ListenFd
  /\ g_mtx_abort' = "free"
  /\ UNCHANGED <<abort_set, lsock, peer, timeWait>>
  /\ UNCHANGED cameraVars

ListenerAccepts ==
  /\ ListenerGoes("accept", "recv")
  /\ lsock = "listening"
  /\ peer # "none"
  /\ UNCHANGED <<abort_set, abort_socket_fd, g_mtx_abort, lsock, peer, timeWait>>
  /\ UNCHANGED cameraVars

\* accept() < 0: the scan has shut the socket down, or the kernel refuses for
\* another reason; the thread returns.
ListenerAcceptFails ==
  /\ ListenerGoes("accept", "ended")
  /\ lsock = "shut" \/ OtherSocketErrors
  /\ lsock' = "closed"
  /\ UNCHANGED <<abort_set, abort_socket_fd, g_mtx_abort, peer, timeWait>>
  /\ UNCHANGED cameraVars

ListenerReceives ==
  /\ ListenerGoes("recv", "abort")
  /\ peer = "sent"
  /\ UNCHANGED <<abort_set, abort_socket_fd, g_mtx_abort, lsock, peer, timeWait>>
  /\ UNCHANGED cameraVars

\* recv() <= 0: the peer closed without a word; both sockets are destroyed.
\* The peer closed first, so the port is free at once.
ListenerPeerGone ==
  /\ ListenerGoes("recv", "ended")
  /\ peer = "gone"
  /\ lsock' = "closed"
  /\ UNCHANGED <<abort_set, abort_socket_fd, g_mtx_abort, peer, timeWait>>
  /\ UNCHANGED cameraVars

\* Mutated: the wait is cancelled but nobody learns why.
ForgetsAbort ==
  /\ ListenerGoes("abort", "cancel")
  /\ UNCHANGED <<abort_set, abort_socket_fd, g_mtx_abort, lsock, peer, timeWait>>
  /\ UNCHANGED cameraVars

ListenerSetsAbort ==
  /\ ListenerGoes("abort", "cancel")
  /\ abort_set' = 1
  /\ UNCHANGED <<abort_socket_fd, g_mtx_abort, lsock, peer, timeWait>>
  /\ UNCHANGED cameraVars

ListenerCancelsWait ==
  /\ ListenerGoes("cancel", "close")
  /\ CancelWait
  /\ UNCHANGED <<abort_set, abort_socket_fd, g_mtx_abort, lsock, peer, timeWait>>

\* The return destroys child_socket and server_sock.  If the peer has not
\* closed its end by then, this end closed first and holds the port.
ListenerCloses ==
  /\ ListenerGoes("close", "ended")
  /\ lsock' = "closed"
  /\ timeWait' \in BOOLEAN
  /\ UNCHANGED <<abort_set, abort_socket_fd, g_mtx_abort, peer>>
  /\ UNCHANGED cameraVars

ListenerNext ==
  \/ ListenerReset \/ ListenerLock
  \/ ListenerBinds \/ ListenerBindThrows \/ ListenerPublishes
  \/ ListenerAccepts \/ ListenerAcceptFails
  \/ ListenerReceives \/ ListenerPeerGone
  \/ ListenerSetsAbort \/ ListenerCancelsWait \/ ListenerCloses

\* For fairness: in accept() nothing is owed to the listener until a peer or the
\* shutdown comes, since an error never is.
ListenerOwed == lpc = "accept" => lsock = "shut" \/ peer # "none"

-----------------------------------------------------------------------------
(* The environment: whoever connects to the abort port, and the kernel.    *)

PeerConnects ==
  /\ lsock = "listening"
  /\ peer = "none"
  /\ peer' = "connected"
  /\ UNCHANGED <<lpc, abort_set, abort_socket_fd, g_mtx_abort, lsock, timeWait>>
  /\ UNCHANGED cameraVars

PeerSends ==
  /\ peer = "connected"
  /\ lsock # "closed"
  /\ peer' = "sent"
  /\ UNCHANGED <<lpc, abort_set, abort_socket_fd, g_mtx_abort, lsock, timeWait>>
  /\ UNCHANGED cameraVars

PeerCloses ==
  /\ peer = "connected"
  /\ peer' = "gone"
  /\ UNCHANGED <<lpc, abort_set, abort_socket_fd, g_mtx_abort, lsock, timeWait>>
  /\ UNCHANGED cameraVars

TimeWaitEnds ==
  /\ timeWait
  /\ timeWait' = FALSE
  /\ UNCHANGED <<lpc, abort_set, abort_socket_fd, g_mtx_abort, lsock, peer>>
  /\ UNCHANGED cameraVars

PeerNext == PeerConnects \/ PeerSends \/ PeerCloses \/ TimeWaitEnds
=============================================================================
