----------------------------- MODULE SingleScan -----------------------------
(***************************************************************************)
(* A single exposure: get_single_scan() in the daemon's main thread,       *)
(* AcquisitionReporter::report() in a second thread, abort_listener in a   *)
(* third, the camera beside them; one command after the other on the same  *)
(* globals.                                                                *)
(*                                                                         *)
(* The main thread runs                                                    *)
(*   idle -> handshake -> start -> lock -> wait -> asleep -> unlock ->     *)
(*        shutdown -> get -> joinR -> joinL -> announce -> save -> ok ->   *)
(*        return -> idle                                                   *)
(* Unlike the series, everything but the failure of StartAcquisition is    *)
(* answered after both threads are joined, and the data is fetched between *)
(* telling them to stop and joining them.                                  *)
(***************************************************************************)
EXTENDS AbortListener, Sequences

VARIABLES
  mpc,         \* where get_single_scan() is; "idle" between commands
  exposure_ms, \* exposure of the command: 0 for a bias image, else 1
  img_buffer,  \* the frame in img_buffer, 0 for none
  saved,       \* the frame each FITS file of this command holds
  outcome,     \* how far the acquisition came, "none" while it is exposed
  result,      \* what the "done" message of this command said
  dones,       \* "done" messages sent for this command
  g_mtx,       \* global mutex of the acquisition: "main" or "free"
  rpc,         \* where the reporter is; "none" when not spawned
  reported,    \* the reporter has sent a message
  sent         \* last message to the client

scanVars == <<exposure_ms, img_buffer, saved, outcome, result, dones>>
reporterVars == <<rpc, reported>>
vars == <<cameraVars, listenerVars, mpc, scanVars, g_mtx, reporterVars, sent>>

Outcomes == {"none", "exposed", "startfailed", "waitfailed", "getfailed",
             "savefailed", "ok"}
Results == {"none", "ok", "aborted", "failed"}
MessageTypes == {"none", "acquiring", "acquired", "saved", "done"}

Init ==
  /\ CameraInit
  /\ ListenerInit
  /\ mpc = "idle"
  /\ exposure_ms = 0
  /\ img_buffer = 0
  /\ saved = <<>>
  /\ outcome = "none"
  /\ result = "none"
  /\ dones = 0
  /\ g_mtx = "free"
  /\ rpc = "none"
  /\ reported = FALSE
  /\ sent = "none"

MainGoes(from, to) == mpc = from /\ mpc' = to

\* A "done" message: it ends the command for the client.
SendDone(r) ==
  /\ sent' = "done"
  /\ result' = r
  /\ dones' = dones + 1

-----------------------------------------------------------------------------
(* get_single_scan                                                         *)

\* The command arrives: the listener is spawned.
ImageCommand(ms) ==
  /\ MainGoes("idle", "handshake")
  /\ SpawnListener
  /\ exposure_ms' = ms
  /\ img_buffer' = 0
  /\ saved' = <<>>
  /\ outcome' = "none"
  /\ result' = "none"
  /\ dones' = 0
  /\ sent' = "none"
  /\ UNCHANGED <<cameraVars, g_mtx, reporterVars>>

Handshake ==
  /\ MainGoes("handshake", "start")
  /\ HandshakeOver
  /\ UNCHANGED <<cameraVars, listenerVars, scanVars, g_mtx, reporterVars, sent>>

StartSucceeds ==
  /\ MainGoes("start", "lock")
  /\ StartAcquisition
  /\ UNCHANGED <<listenerVars, scanVars, g_mtx, reporterVars, sent>>

StartFails ==
  /\ MainGoes("start", "shutdown")
  /\ SendDone("failed")
  /\ outcome' = "startfailed"
  /\ AbortAcquisition
  /\ UNCHANGED <<listenerVars, exposure_ms, img_buffer, saved, g_mtx,
                 reporterVars>>

\* g_mtx.lock(), then the reporter is spawned.
LockAndReport ==
  /\ MainGoes("lock", "wait")
  /\ g_mtx = "free"
  /\ g_mtx' = "main"
  /\ rpc' = "try"
  /\ reported' = FALSE
  /\ UNCHANGED <<cameraVars, listenerVars, scanVars, sent>>

FallAsleep ==
  /\ MainGoes("wait", "asleep")
  /\ EnterWait
  /\ UNCHANGED <<listenerVars, scanVars, g_mtx, reporterVars, sent>>

WaitDone ==
  /\ MainGoes("asleep", "unlock")
  /\ WaitSucceeds
  /\ outcome' = "exposed"
  /\ UNCHANGED <<listenerVars, exposure_ms, img_buffer, saved, result, dones,
                 g_mtx, reporterVars, sent>>

\* Mutated: the camera is left exposing.
WaitFailsAcquiring ==
  /\ MainGoes("asleep", "unlock")
  /\ WaitReturnsError
  /\ outcome' = "waitfailed"
  /\ UNCHANGED <<acquiring, exposed, available, event>>
  /\ UNCHANGED <<listenerVars, exposure_ms, img_buffer, saved, result, dones,
                 g_mtx, reporterVars, sent>>

\* WaitForAcquisition() fails; AbortAcquisition().
WaitFails ==
  /\ MainGoes("asleep", "unlock")
  /\ WaitReturnsError
  /\ outcome' = "waitfailed"
  /\ acquiring' = FALSE
  /\ UNCHANGED <<exposed, available, event>>
  /\ UNCHANGED <<listenerVars, exposure_ms, img_buffer, saved, result, dones,
                 g_mtx, reporterVars, sent>>

\* g_mtx.unlock(): the reporter may end.
Unlock ==
  /\ MainGoes("unlock", "shutdown")
  /\ g_mtx' = "free"
  /\ UNCHANGED <<cameraVars, listenerVars, scanVars, reporterVars, sent>>

Shutdown ==
  /\ mpc = "shutdown"
  /\ mpc' = CASE outcome = "startfailed" -> "joinL"
              [] outcome = "waitfailed" -> "joinR"
              [] outcome = "exposed" -> "get"
  /\ ShutdownListener
  /\ UNCHANGED <<cameraVars, scanVars, g_mtx, reporterVars, sent>>

\* GetAcquiredData() == DRV_SUCCESS; it needs an exposure that has ended.
GetAcquiredData ==
  /\ MainGoes("get", "joinR")
  /\ exposed = 1
  /\ ~acquiring
  /\ img_buffer' = exposed
  /\ UNCHANGED <<cameraVars, listenerVars, exposure_ms, saved, outcome, result,
                 dones, g_mtx, reporterVars, sent>>

\* GetAcquiredData() fails: remembered until both threads are joined.
GetAcquiredDataFails ==
  /\ MainGoes("get", "joinR")
  /\ outcome' = "getfailed"
  /\ UNCHANGED <<cameraVars, listenerVars, exposure_ms, img_buffer, saved, result,
                 dones, g_mtx, reporterVars, sent>>

\* Mutated: the reporter is left to itself.
DetachReporter ==
  /\ MainGoes("joinR", "joinL")
  /\ UNCHANGED <<cameraVars, listenerVars, scanVars, g_mtx, reporterVars, sent>>

JoinReporter ==
  /\ MainGoes("joinR", "joinL")
  /\ rpc = "ended"
  /\ rpc' = "none"
  /\ UNCHANGED <<cameraVars, listenerVars, scanVars, g_mtx, reported, sent>>

\* Mutated: the error of GetAcquiredData is not looked at.
JoinAndSave ==
  /\ mpc = "joinL"
  /\ mpc' = CASE outcome = "startfailed" -> "return"
              [] outcome = "waitfailed" -> "answer"
              [] OTHER -> "announce"
  /\ JoinListener
  /\ UNCHANGED <<cameraVars, scanVars, g_mtx, reporterVars, sent>>

JoinAbortListener ==
  /\ mpc = "joinL"
  /\ mpc' = CASE outcome = "startfailed" -> "return"
              [] outcome \in {"waitfailed", "getfailed"} -> "answer"
              [] outcome = "exposed" -> "announce"
  /\ JoinListener
  /\ UNCHANGED <<cameraVars, scanVars, g_mtx, reporterVars, sent>>

\* The answer to a failed wait: a user abort if abort_set says so.
AnswerWaitFailed ==
  /\ MainGoes("answer", "return")
  /\ outcome = "waitfailed"
  /\ SendDone(IF abort_set # 0 THEN "aborted" ELSE "failed")
  /\ UNCHANGED <<cameraVars, listenerVars, exposure_ms, img_buffer, saved,
                 outcome, g_mtx, reporterVars>>

AnswerGetFailed ==
  /\ MainGoes("answer", "return")
  /\ outcome = "getfailed"
  /\ AbortAcquisition
  /\ SendDone("failed")
  /\ UNCHANGED <<listenerVars, exposure_ms, img_buffer, saved, outcome, g_mtx,
                 reporterVars>>

\* "info:image data acquired"
Announce ==
  /\ MainGoes("announce", "save")
  /\ sent' = "acquired"
  /\ UNCHANGED <<cameraVars, listenerVars, scanVars, g_mtx, reporterVars>>

\* save_as_fits() == 0
SaveImage ==
  /\ MainGoes("save", "ok")
  /\ saved' = Append(saved, img_buffer)
  /\ outcome' = "ok"
  /\ sent' = "saved"
  /\ UNCHANGED <<cameraVars, listenerVars, exposure_ms, img_buffer, result,
                 dones, g_mtx, reporterVars>>

\* Mutated: save_as_fits() fails, and its caller answers as if it had not.
SaveFailsUnseen ==
  /\ MainGoes("save", "ok")
  /\ SendDone("failed")
  /\ outcome' = "savefailed"
  /\ UNCHANGED <<cameraVars, listenerVars, exposure_ms, img_buffer, saved, g_mtx,
                 reporterVars>>

\* save_as_fits() fails and answers the client itself; with no filename it
\* calls AbortAcquisition() too.
SaveFails ==
  /\ MainGoes("save", "return")
  /\ SendDone("failed")
  /\ outcome' = "savefailed"
  /\ AbortAcquisition \/ UNCHANGED cameraVars
  /\ UNCHANGED <<listenerVars, exposure_ms, img_buffer, saved, g_mtx,
                 reporterVars>>

AnswerOk ==
  /\ MainGoes("ok", "return")
  /\ SendDone("ok")
  /\ UNCHANGED <<cameraVars, listenerVars, exposure_ms, img_buffer, saved,
                 outcome, g_mtx, reporterVars>>

Return ==
  /\ MainGoes("return", "idle")
  /\ UNCHANGED <<cameraVars, listenerVars, scanVars, g_mtx, reporterVars, sent>>

MainNext ==
  \/ Handshake \/ StartSucceeds \/ StartFails \/ LockAndReport
  \/ FallAsleep \/ WaitDone \/ WaitFails
  \/ Unlock \/ Shutdown \/ GetAcquiredData \/ GetAcquiredDataFails
  \/ JoinReporter \/ JoinAbortListener
  \/ AnswerWaitFailed \/ AnswerGetFailed
  \/ Announce \/ SaveImage \/ SaveFails \/ AnswerOk \/ Return

-----------------------------------------------------------------------------
(* AcquisitionReporter::report: try -> send -> try ..., and ended once it  *)
(* gets hold of g_mtx; at once for a bias image.                           *)

ReporterGoes(from, to) == rpc = from /\ rpc' = to

ReporterFrame ==
  UNCHANGED <<cameraVars, listenerVars, mpc, scanVars, g_mtx>>

\* A bias image: a last message is formatted into the buffer, never sent.
ReporterSkipsBias ==
  /\ ReporterGoes("try", "ended")
  /\ exposure_ms = 0
  /\ UNCHANGED <<reported, sent>>
  /\ ReporterFrame

\* lk.try_lock() fails: the exposure is still going on.
ReporterTryFails ==
  /\ ReporterGoes("try", "send")
  /\ exposure_ms # 0
  /\ g_mtx # "free"
  /\ UNCHANGED <<reported, sent>>
  /\ ReporterFrame

\* lk.try_lock() succeeds; the last message is formatted and never sent.
ReporterEnds ==
  /\ ReporterGoes("try", "ended")
  /\ exposure_ms # 0
  /\ g_mtx = "free"
  /\ UNCHANGED <<reported, sent>>
  /\ ReporterFrame

ReportProgress ==
  /\ ReporterGoes("send", "try")
  /\ reported' = TRUE
  /\ sent' = "acquiring"
  /\ ReporterFrame

ReporterNext ==
  ReporterSkipsBias \/ ReporterTryFails \/ ReporterEnds \/ ReportProgress

-----------------------------------------------------------------------------
othersOfCamera == <<listenerVars, mpc, scanVars, g_mtx, reporterVars, sent>>

CameraNext == ExposeOnce /\ UNCHANGED othersOfCamera

ListenerStep == ListenerNext /\ UNCHANGED <<mpc, scanVars, g_mtx, reporterVars, sent>>

PeerStep == PeerNext /\ UNCHANGED <<mpc, scanVars, g_mtx, reporterVars, sent>>

Next ==
  \/ \E ms \in {0, 1} : ImageCommand(ms)
  \/ MainNext
  \/ ReporterNext
  \/ ListenerStep
  \/ PeerStep
  \/ CameraNext

Spec == Init /\ [][Next]_vars

(* As for the series: threads that can move do, and the exposure ends.     *)
MainProgress ==
  \/ Handshake \/ StartSucceeds \/ LockAndReport
  \/ FallAsleep \/ WaitDone \/ (waiter = "cancelled" /\ WaitFails)
  \/ Unlock \/ Shutdown \/ GetAcquiredData \/ JoinReporter \/ JoinAbortListener
  \/ AnswerWaitFailed \/ AnswerGetFailed
  \/ Announce \/ SaveImage \/ AnswerOk \/ Return

Fairness ==
  /\ WF_vars(MainProgress)
  /\ WF_vars(ReporterNext)
  /\ WF_vars(ListenerOwed /\ ListenerStep)
  /\ WF_vars(CameraNext)

FairSpec == Spec /\ Fairness

-----------------------------------------------------------------------------
(* Properties                                                              *)

MainPcs == {"idle", "handshake", "start", "lock", "wait", "asleep", "unlock",
            "shutdown", "get", "joinR", "joinL", "answer", "announce", "save",
            "ok", "return"}

\* The type invariant.  A single scan has no second "done" and no second file.
TypeOK ==
  /\ CameraTypeOK
  /\ ListenerTypeOK
  /\ mpc \in MainPcs
  /\ exposure_ms \in {0, 1}
  /\ img_buffer \in {0, 1}
  /\ saved \in {<<>>, <<0>>, <<1>>}
  /\ outcome \in Outcomes
  /\ result \in Results
  /\ dones \in {0, 1}
  /\ g_mtx \in {"free", "main"}
  /\ rpc \in {"none", "try", "send", "ended"}
  /\ reported \in BOOLEAN
  /\ sent \in MessageTypes

\* What is saved is an exposed image, although the data is fetched before the
\* threads are joined and the error looked at only afterwards
\* (get_single_scan.cpp:149-155, 166-184).
SavedIsExposed == saved # <<>> => saved = <<1>> /\ exposed = 1 /\ ~acquiring

\* Between two commands nothing of the last one is left: threads, mutexes,
\* abort socket, exposure.
IdleIsClean ==
  mpc = "idle" =>
    /\ lpc = "none" /\ rpc = "none"
    /\ g_mtx = "free" /\ g_mtx_abort = "free"
    /\ lsock = "closed"
    /\ ~acquiring /\ waiter = "none"

\* Each command is answered by exactly one "done" message, by get_single_scan()
\* or by save_as_fits(), on each of its six ways out.
OneAnswer ==
  /\ dones <= 1
  /\ mpc = "idle" /\ outcome # "none" => dones = 1

\* No message of a command follows its "done": every answer but that of a
\* failed start is sent after the reporter is joined.
DoneIsLast == [][sent = "done" => sent' \in {"done", "none"}]_vars

\* An abort that reaches the main thread while it sleeps in WaitForAcquisition
\* ends the command, and the client is told it was aborted by the user
\* (abort_listener.cpp:107-108, get_single_scan.cpp:125-133).
DeliveredAbortIsAnswered == waiter = "cancelled" ~> result = "aborted"

\* When the handshake did wait for the listener, only a peer that has connected
\* and stays silent for ever keeps the command from its end
\* (get_single_scan.cpp:153-155, abort_listener.cpp:91).
PublishedHandshakeReturns ==
  (mpc = "start" /\ abort_socket_fd # Unpublished) ~>
    (mpc = "idle" \/ [](lpc = "recv" /\ peer = "connected"))

\* The single scan implements the promise of an image command, for one image.
Command == INSTANCE ImageCommand WITH
  MaxImages <- 1,
  phase <- IF mpc = "idle" THEN "idle"
           ELSE IF dones = 0 THEN "running" ELSE "answered",
  wanted <- IF mpc = "idle" /\ outcome = "none" THEN 0 ELSE 1,
  files <- saved,
  asked <- peer = "sent",
  answer <- result

ImplementsImageCommand == Command!Spec

=============================================================================
