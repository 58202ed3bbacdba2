------------------------------ MODULE RtaScan ------------------------------
(***************************************************************************)
(* A run-till-abort series: get_rta_scan() in the daemon's main thread,    *)
(* AcquisitionSeriesReporter::report() in a second thread, abort_listener  *)
(* in a third, the camera beside them.  The daemon serves one image        *)
(* command after the other on the same globals, so commands are repeated   *)
(* for ever and what one leaves behind is what the next one starts from.   *)
(*                                                                         *)
(* The main thread runs                                                    *)
(*   idle -> handshake -> start -> lock -> next -> wait -> asleep -> poll  *)
(*        -> get -> save -> next ... -> unlock -> shutdown -> joinR ->     *)
(*        joinL -> answer -> stop -> return -> idle                        *)
(* and reaches unlock early from asleep, poll, get and save.               *)
(***************************************************************************)
EXTENDS AbortListener, Sequences

CONSTANT MaxImages   \* largest number of images a command asks for

ASSUME MaxImagesAssumption == /\ MaxImages \in Nat \ {0}
                              /\ FrameCap = MaxImages + BufSize

VARIABLES
  mpc,                \* where get_rta_scan() is; "idle" between commands
  num_images,         \* params->num_images_ of the command
  curimg,             \* loop variable of the series
  cur_img_in_series,  \* global: image being taken; never reset
  img_buffer,         \* the frame in img_buffer, 0 for none
  saved,              \* the frame each FITS file of this command holds
  outcome,            \* how the acquisition ended, "none" while it runs
  result,             \* what the "done" message of this command said
  dones,              \* "done" messages sent for this command
  g_mtx,              \* global mutex of the acquisition: "main" or "free"
  rpc,                \* where the reporter is; "none" when not spawned
  cur_img,            \* local of the reporter
  sent                \* last message to the client: its type and image number

scanVars == <<num_images, curimg, cur_img_in_series, img_buffer, saved,
              outcome, result, dones>>
reporterVars == <<rpc, cur_img>>
vars == <<cameraVars, listenerVars, mpc, scanVars, g_mtx, reporterVars, sent>>

Outcomes == {"none", "ok", "waitfailed", "nodata", "getfailed", "savefailed",
             "startfailed"}
Results == {"none", "ok", "aborted", "failed"}
ProgressTypes == {"acquired", "acquiring", "saved"}

Images == 0..MaxImages

\* params->num_images_ of a command is at most 0 when an earlier, rejected
\* --nimages left it there (resolve_image_parameters.cpp:79-86): the loop then
\* runs zero times, as it does for 0.
Init ==
  /\ CameraInit
  /\ ListenerInit
  /\ mpc = "idle"
  /\ num_images = 0
  /\ curimg = 0
  /\ cur_img_in_series = 0
  /\ img_buffer = 0
  /\ saved = <<>>
  /\ outcome = "none"
  /\ result = "none"
  /\ dones = 0
  /\ g_mtx = "free"
  /\ rpc = "none"
  /\ cur_img = 0
  /\ sent = [type |-> "none", img |-> 0]

MainGoes(from, to) == mpc = from /\ mpc' = to

Send(type, img) == sent' = [type |-> type, img |-> img]

\* A "done" message: it ends the command for the client.
SendDone(r) ==
  /\ Send("done", 0)
  /\ result' = r
  /\ dones' = dones + 1

-----------------------------------------------------------------------------
(* get_rta_scan                                                            *)

\* The command arrives: the listener is spawned.  The history variables of
\* the command start over; cur_img_in_series does not.
ImageCommand(n) ==
  /\ MainGoes("idle", "handshake")
  /\ SpawnListener
  /\ num_images' = n
  /\ curimg' = 0
  /\ img_buffer' = 0
  /\ saved' = <<>>
  /\ outcome' = "none"
  /\ result' = "none"
  /\ dones' = 0
  /\ Send("none", 0)
  /\ UNCHANGED <<cameraVars, cur_img_in_series, g_mtx, reporterVars>>

\* sleep 100 ms, lock g_mtx_abort, cv.wait, unlock
Handshake ==
  /\ MainGoes("handshake", "start")
  /\ HandshakeOver
  /\ UNCHANGED <<cameraVars, listenerVars, scanVars, g_mtx, reporterVars, sent>>

StartSucceeds ==
  /\ MainGoes("start", "lock")
  /\ StartAcquisition
  /\ UNCHANGED <<listenerVars, scanVars, g_mtx, reporterVars, sent>>

\* StartAcquisition fails: the client is told, the acquisition aborted.
StartFails ==
  /\ MainGoes("start", "shutdown")
  /\ SendDone("failed")
  /\ outcome' = "startfailed"
  /\ AbortAcquisition
  /\ UNCHANGED <<listenerVars, num_images, curimg, cur_img_in_series,
                 img_buffer, saved, g_mtx, reporterVars>>

\* Mutated: the reporter is spawned without the lock.
ReportUnlocked ==
  /\ MainGoes("lock", "next")
  /\ rpc' = "try"
  /\ cur_img' = 1
  /\ UNCHANGED <<cameraVars, listenerVars, scanVars, g_mtx, sent>>

\* g_mtx.lock(), then the reporter is spawned.
LockAndReport ==
  /\ MainGoes("lock", "next")
  /\ g_mtx = "free"
  /\ g_mtx' = "main"
  /\ rpc' = "try"
  /\ cur_img' = 1
  /\ UNCHANGED <<cameraVars, listenerVars, scanVars, sent>>

\* Mutated: one image too many.
OneImageTooMany ==
  /\ MainGoes("next", "wait")
  /\ curimg <= num_images
  /\ cur_img_in_series' = curimg + 1
  /\ UNCHANGED <<cameraVars, listenerVars, num_images, curimg, img_buffer, saved,
                 outcome, result, dones, g_mtx, reporterVars, sent>>

NextImage ==
  /\ MainGoes("next", "wait")
  /\ curimg < num_images
  /\ cur_img_in_series' = curimg + 1
  /\ UNCHANGED <<cameraVars, listenerVars, num_images, curimg, img_buffer, saved,
                 outcome, result, dones, g_mtx, reporterVars, sent>>

SeriesDone ==
  /\ MainGoes("next", "unlock")
  /\ curimg >= num_images
  /\ outcome' = "ok"
  /\ UNCHANGED <<cameraVars, listenerVars, num_images, curimg,
                 cur_img_in_series, img_buffer, saved, result, dones, g_mtx,
                 reporterVars, sent>>

FallAsleep ==
  /\ MainGoes("wait", "asleep")
  /\ EnterWait
  /\ UNCHANGED <<listenerVars, scanVars, g_mtx, reporterVars, sent>>

WaitDone ==
  /\ MainGoes("asleep", "poll")
  /\ WaitSucceeds
  /\ UNCHANGED <<listenerVars, scanVars, g_mtx, reporterVars, sent>>

\* Mutated: clean-up without AbortAcquisition.
GiveUpAcquiring(from, why) ==
  /\ MainGoes(from, "unlock")
  /\ outcome' = why
  /\ UNCHANGED <<acquiring, exposed, available, event>>
  /\ UNCHANGED <<listenerVars, num_images, curimg, cur_img_in_series, g_mtx,
                 reporterVars>>

\* The acquisition is given up for reason why: AbortAcquisition and clean-up.
GiveUp(from, why) ==
  /\ MainGoes(from, "unlock")
  /\ outcome' = why
  /\ acquiring' = FALSE
  /\ UNCHANGED <<exposed, available, event>>
  /\ UNCHANGED <<listenerVars, num_images, curimg, cur_img_in_series, g_mtx,
                 reporterVars>>

WaitFails ==
  /\ GiveUp("asleep", "waitfailed")
  /\ WaitReturnsError
  /\ UNCHANGED <<img_buffer, saved, result, dones, sent>>

\* GetNumberNewImages answers anything but DRV_NO_NEW_DATA: there is new data,
\* or the call has failed, which the loop does not tell apart.
PollEnds ==
  /\ MainGoes("poll", "get")
  /\ UNCHANGED <<cameraVars, listenerVars, scanVars, g_mtx, reporterVars, sent>>

\* More than 10 s of DRV_NO_NEW_DATA (the library is built with -DDEBUG).
PollTimesOut ==
  /\ GiveUp("poll", "nodata")
  /\ NoNewData(curimg)
  /\ UNCHANGED <<waiter, img_buffer, saved, result, dones, sent>>

\* Mutated: GetMostRecentImage, as get_kinetic_scan calls it.
GetMostRecentImage ==
  /\ MainGoes("get", "save")
  /\ available > 0
  /\ img_buffer' = available
  /\ UNCHANGED <<cameraVars, listenerVars, num_images, curimg,
                 cur_img_in_series, saved, outcome, result, dones, g_mtx,
                 reporterVars, sent>>

\* GetImages(cur_img_in_series, cur_img_in_series, img_buffer, ...)
GetImages ==
  /\ MainGoes("get", "save")
  /\ InBuffer(cur_img_in_series)
  /\ img_buffer' = cur_img_in_series
  /\ UNCHANGED <<cameraVars, listenerVars, num_images, curimg,
                 cur_img_in_series, saved, outcome, result, dones, g_mtx,
                 reporterVars, sent>>

\* Out of range of the circular buffer, or a driver error.
GetImagesFails ==
  /\ GiveUp("get", "getfailed")
  /\ UNCHANGED <<waiter, img_buffer, saved, result, dones, sent>>

\* save_as_fits() == 0, then the loop's curimg++.
SaveImage ==
  /\ MainGoes("save", "next")
  /\ saved' = Append(saved, img_buffer)
  /\ Send("saved", img_buffer)
  /\ curimg' = curimg + 1
  /\ UNCHANGED <<cameraVars, listenerVars, num_images, cur_img_in_series,
                 img_buffer, outcome, result, dones, g_mtx, reporterVars>>

\* save_as_fits() fails, for want of a filename or in the write: it answers
\* the client itself, before the reporter and the listener are told to stop.
SaveFails ==
  /\ GiveUp("save", "savefailed")
  /\ SendDone("failed")
  /\ UNCHANGED <<waiter, img_buffer, saved>>

\* g_mtx.unlock(): the reporter may end.
Unlock ==
  /\ MainGoes("unlock", "shutdown")
  /\ g_mtx' = "free"
  /\ UNCHANGED <<cameraVars, listenerVars, scanVars, reporterVars, sent>>

\* shutdown(abort_socket_fd, 2); no reporter to join if the start failed.
Shutdown ==
  /\ mpc = "shutdown"
  /\ mpc' = IF outcome = "startfailed" THEN "joinL" ELSE "joinR"
  /\ ShutdownListener
  /\ UNCHANGED <<cameraVars, scanVars, g_mtx, reporterVars, sent>>

\* Mutated: the reporter is left to itself.
DetachReporter ==
  /\ MainGoes("joinR", "joinL")
  /\ UNCHANGED <<cameraVars, listenerVars, scanVars, g_mtx, reporterVars, sent>>

JoinReporter ==
  /\ MainGoes("joinR", "joinL")
  /\ rpc = "ended"
  /\ rpc' = "none"
  /\ UNCHANGED <<cameraVars, listenerVars, scanVars, g_mtx, cur_img, sent>>

\* Mutated: the answer of save_as_fits is overlooked.
JoinAndAnswerAgain ==
  /\ mpc = "joinL"
  /\ mpc' = IF outcome = "startfailed" THEN "return" ELSE "answer"
  /\ JoinListener
  /\ UNCHANGED <<cameraVars, scanVars, g_mtx, reporterVars, sent>>

\* abort_t.join(); where the client has been answered this ends the command.
JoinAbortListener ==
  /\ mpc = "joinL"
  /\ mpc' = IF outcome \in {"startfailed", "savefailed"} THEN "return" ELSE "answer"
  /\ JoinListener
  /\ UNCHANGED <<cameraVars, scanVars, g_mtx, reporterVars, sent>>

\* The answer: a wait that failed counts as a user abort if abort_set says so.
AnswerOk ==
  /\ MainGoes("answer", "stop")
  /\ outcome = "ok"
  /\ SendDone("ok")
  /\ UNCHANGED <<cameraVars, listenerVars, num_images, curimg,
                 cur_img_in_series, img_buffer, saved, outcome, g_mtx,
                 reporterVars>>

AnswerFailure ==
  /\ MainGoes("answer", "return")
  /\ outcome # "ok"
  /\ SendDone(IF outcome = "waitfailed" /\ abort_set # 0
              THEN "aborted" ELSE "failed")
  /\ UNCHANGED <<cameraVars, listenerVars, num_images, curimg,
                 cur_img_in_series, img_buffer, saved, outcome, g_mtx,
                 reporterVars>>

\* The AbortAcquisition() that ends a complete series.
Stop ==
  /\ MainGoes("stop", "return")
  /\ AbortAcquisition
  /\ UNCHANGED <<listenerVars, scanVars, g_mtx, reporterVars, sent>>

\* Back in get_image(), which frees the buffer and returns to the chat loop.
Return ==
  /\ MainGoes("return", "idle")
  /\ UNCHANGED <<cameraVars, listenerVars, scanVars, g_mtx, reporterVars, sent>>

MainNext ==
  \/ Handshake \/ StartSucceeds \/ StartFails \/ LockAndReport
  \/ NextImage \/ SeriesDone \/ FallAsleep
  \/ WaitDone \/ WaitFails \/ PollEnds \/ PollTimesOut
  \/ GetImages \/ GetImagesFails \/ SaveImage \/ SaveFails
  \/ Unlock \/ Shutdown \/ JoinReporter \/ JoinAbortListener
  \/ AnswerOk \/ AnswerFailure \/ Stop \/ Return

-----------------------------------------------------------------------------
(* AcquisitionSeriesReporter::report: try -> compare -> (refresh ->)       *)
(* progress -> try ..., and ended once it gets hold of g_mtx.              *)

ReporterGoes(from, to) == rpc = from /\ rpc' = to

\* lk.try_lock() fails: the series is still going on.
ReporterTryFails ==
  /\ ReporterGoes("try", "compare")
  /\ g_mtx # "free"
  /\ UNCHANGED <<cameraVars, listenerVars, mpc, scanVars, g_mtx, cur_img, sent>>

\* lk.try_lock() succeeds and the lock is released at once.  The last message
\* is formatted into the buffer and never sent.
ReporterEnds ==
  /\ ReporterGoes("try", "ended")
  /\ g_mtx = "free"
  /\ UNCHANGED <<cameraVars, listenerVars, mpc, scanVars, g_mtx, cur_img, sent>>

\* cur_img != cur_img_in_series: report the previous image as acquired.
ReportAcquired ==
  /\ ReporterGoes("compare", "refresh")
  /\ cur_img # cur_img_in_series
  /\ Send("acquired", cur_img)
  /\ UNCHANGED <<cameraVars, listenerVars, mpc, scanVars, g_mtx, cur_img>>

SameImage ==
  /\ ReporterGoes("compare", "progress")
  /\ cur_img = cur_img_in_series
  /\ UNCHANGED <<cameraVars, listenerVars, mpc, scanVars, g_mtx, cur_img, sent>>

\* The global is read a second time.
RefreshImage ==
  /\ ReporterGoes("refresh", "progress")
  /\ cur_img' = cur_img_in_series
  /\ UNCHANGED <<cameraVars, listenerVars, mpc, scanVars, g_mtx, sent>>

\* Send the progress of the current image, sleep 200 ms.
ReportProgress ==
  /\ ReporterGoes("progress", "try")
  /\ Send("acquiring", cur_img)
  /\ UNCHANGED <<cameraVars, listenerVars, mpc, scanVars, g_mtx, cur_img>>

ReporterNext ==
  \/ ReporterTryFails \/ ReporterEnds
  \/ ReportAcquired \/ SameImage \/ RefreshImage \/ ReportProgress

-----------------------------------------------------------------------------
othersOfCamera == <<listenerVars, mpc, scanVars, g_mtx, reporterVars, sent>>

CameraNext == (Expose \/ Transfer) /\ UNCHANGED othersOfCamera

ListenerStep == ListenerNext /\ UNCHANGED <<mpc, scanVars, g_mtx, reporterVars, sent>>

PeerStep == PeerNext /\ UNCHANGED <<mpc, scanVars, g_mtx, reporterVars, sent>>

Next ==
  \/ \E n \in Images : ImageCommand(n)
  \/ MainNext
  \/ ReporterNext
  \/ ListenerStep
  \/ PeerStep
  \/ CameraNext

Spec == Init /\ [][Next]_vars
-----------------------------------------------------------------------------
(* What the scheduler and the camera owe: threads that can move do, and an *)
(* acquiring camera ends its exposures and delivers their data.  A driver  *)
(* error is never owed, nor is anything by the peer, unless it is said.    *)

MainProgress ==
  \/ Handshake \/ StartSucceeds \/ LockAndReport
  \/ NextImage \/ SeriesDone \/ FallAsleep
  \/ WaitDone \/ (waiter = "cancelled" /\ WaitFails)
  \/ (~NoNewData(curimg) /\ PollEnds) \/ GetImages \/ (~InBuffer(cur_img_in_series) /\ GetImagesFails)
  \/ SaveImage \/ Unlock \/ Shutdown \/ JoinReporter \/ JoinAbortListener
  \/ AnswerOk \/ AnswerFailure \/ Stop \/ Return

Fairness ==
  /\ WF_vars(MainProgress)
  /\ WF_vars(ReporterNext)
  /\ WF_vars(ListenerOwed /\ ListenerStep)
  /\ WF_vars(Expose /\ UNCHANGED othersOfCamera)
  /\ WF_vars(Transfer /\ UNCHANGED othersOfCamera)

FairSpec == Spec /\ Fairness

\* A peer that connected to the abort port says something or hangs up.
PeerFairness == WF_vars((PeerSends \/ PeerCloses) /\ PeerStep)

FairPeerSpec == FairSpec /\ PeerFairness

-----------------------------------------------------------------------------
(* Properties                                                              *)

MainPcs == {"idle", "handshake", "start", "lock", "next", "wait", "asleep",
            "poll", "get", "save", "unlock", "shutdown", "joinR", "joinL",
            "answer", "stop", "return"}
ReporterPcs == {"none", "try", "compare", "refresh", "progress", "ended"}

Messages == [type : ProgressTypes \cup {"none", "done"}, img : Images]

ScanTypeOK ==
  /\ mpc \in MainPcs
  /\ num_images \in Images
  /\ curimg \in Images
  /\ cur_img_in_series \in Images
  /\ img_buffer \in Images
  /\ saved \in Seq(Images)
  /\ outcome \in Outcomes
  /\ result \in Results
  /\ dones \in Nat
  /\ g_mtx \in {"free", "main"}
  /\ rpc \in ReporterPcs
  /\ cur_img \in Images
  /\ sent \in Messages

\* The type invariant: every variable of the three threads and the camera
\* stays in its range; the image index of the reporter and of the loop never
\* leaves the series (get_rta_scan.cpp:108-109).
TypeOK == CameraTypeOK /\ ListenerTypeOK /\ ScanTypeOK

\* A series reported as "acquired and saved" has one file per image asked for
\* and file i holds image i, however far the camera ran ahead of the loop
\* (get_rta_scan.cpp:205-207, 346-349).
OkMeansComplete ==
  result = "ok" => /\ Len(saved) = num_images
                   /\ \A i \in 1..Len(saved) : saved[i] = i

\* Between two commands nothing of the last one is left: both threads joined,
\* both mutexes free, the abort socket closed, the camera idle.  Every return
\* of get_rta_scan() has to see to that (eight clean-up sequences).
IdleIsClean ==
  mpc = "idle" =>
    /\ lpc = "none" /\ rpc = "none"
    /\ g_mtx = "free" /\ g_mtx_abort = "free"
    /\ lsock = "closed"
    /\ ~acquiring /\ waiter = "none"

\* The reporter goes on for as long as images are being taken: it gets hold
\* of g_mtx only when the main thread has finished with the acquisition
\* (get_rta_scan.cpp:95-98, acquisition_series_reporter.cpp:107-114).
ReporterOutlastsSeries == rpc = "ended" => outcome # "none"

\* Each command is answered by exactly one "done" message, whichever of
\* get_rta_scan() and save_as_fits() sends it.
OneAnswer ==
  /\ dones <= 1
  /\ mpc = "idle" /\ outcome # "none" => dones = 1

\* No message follows the "done" of a command, except when saving failed and
\* the "done" went out before the reporter was stopped (save_as_fits.cpp:25,39).
DoneIsLast ==
  [][sent.type = "done" /\ outcome # "savefailed"
       => sent'.type \in {"done", "none"}]_vars

\* An abort that reaches the main thread while it sleeps in WaitForAcquisition
\* ends the command, and the client is told that it was aborted by the user
\* (abort_listener.cpp:107-108, get_rta_scan.cpp:134-143).
DeliveredAbortIsAnswered == waiter = "cancelled" ~> result = "aborted"

\* When the handshake did wait for the listener, nothing but a peer that has
\* connected and stays silent for ever keeps the command from its end: no join
\* waits for ever, unless it is for a listener in recv() (get_rta_scan.cpp:338-343
\* and the error paths, abort_listener.cpp:91).
PublishedHandshakeReturns ==
  (mpc = "start" /\ abort_socket_fd # Unpublished) ~>
    (mpc = "idle" \/ [](lpc = "recv" /\ peer = "connected"))

\* The series implements the promise of an image command.
Command == INSTANCE ImageCommand WITH
  phase <- IF mpc = "idle" THEN "idle"
           ELSE IF dones = 0 THEN "running" ELSE "answered",
  wanted <- num_images,
  files <- saved,
  asked <- peer = "sent",
  answer <- result

ImplementsImageCommand == Command!Spec

-----------------------------------------------------------------------------
(* What comments of the code say, and the code does not do.                *)

\* "wait till we are notified that we have the socket's fd"
\* (get_rta_scan.cpp:49-50), so that at the end the scan can "kill abort
\* listening socket and join corresponding thread" (338-339): every command
\* comes to its end.
CommandReturns == (mpc = "handshake" /\ num_images > 0) ~> mpc = "idle"
=============================================================================
