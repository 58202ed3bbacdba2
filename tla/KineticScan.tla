---------------------------- MODULE KineticScan ----------------------------
(***************************************************************************)
(* A kinetic series: get_kinetic_scan() in the daemon's main thread and a  *)
(* ThreadReporter of its own for every image, which ends when the main     *)
(* thread sets stop_reporting_thread.  There is no abort listener and no   *)
(* mutex; the camera takes the images of the series by itself.             *)
(*                                                                         *)
(* The main thread runs                                                    *)
(*   idle -> start -> loop -> spawn -> wait -> asleep -> stop -> join ->   *)
(*        total -> copy -> save -> loop ... -> answer -> return -> idle    *)
(* and returns early from asleep (by way of join), copy and save.          *)
(***************************************************************************)
EXTENDS AndorCamera, Sequences

CONSTANT MaxImages   \* largest number of images a command asks for

ASSUME KineticAssumption == MaxImages \in Nat \ {0} /\ FrameCap = MaxImages

VARIABLES
  mpc,                    \* where get_kinetic_scan() is; "idle" between commands
  num_images,             \* params->num_images_
  lAcquired,              \* images acquired since the start, as last asked
  img_buffer,             \* the frame in img_buffer, 0 for none
  saved,                  \* the frame each FITS file of this command holds
  status,                 \* "none", "ok" or why the command was given up
  answers,                \* "done" messages sent for this command
  rpc,                    \* the reporter: "none", "test", "send", "sleep", "ended"
  stop_reporting_thread   \* global: the reporter is told to end

scanVars == <<num_images, lAcquired, img_buffer, saved, status, answers>>
vars == <<cameraVars, mpc, scanVars, rpc, stop_reporting_thread>>

Images == 0..MaxImages

Init ==
  /\ CameraInit
  /\ mpc = "idle"
  /\ num_images = 0
  /\ lAcquired = 0
  /\ img_buffer = 0
  /\ saved = <<>>
  /\ status = "none"
  /\ answers = 0
  /\ rpc = "none"
  /\ stop_reporting_thread = 0

MainGoes(from, to) == mpc = from /\ mpc' = to

-----------------------------------------------------------------------------
(* get_kinetic_scan                                                        *)

ImageCommand(n) ==
  /\ MainGoes("idle", "start")
  /\ num_images' = n
  /\ lAcquired' = 0
  /\ img_buffer' = 0
  /\ saved' = <<>>
  /\ status' = "none"
  /\ answers' = 0
  /\ UNCHANGED <<cameraVars, rpc, stop_reporting_thread>>

\* StartAcquisition(): the code does not look at what it returns.
Start ==
  /\ MainGoes("start", "loop")
  /\ StartAcquisition \/ StartRefused
  /\ UNCHANGED <<scanVars, rpc, stop_reporting_thread>>

\* Mutated: the flag of the previous reporter is left set.
SpawnUnreset ==
  /\ MainGoes("loop", "wait")
  /\ lAcquired < num_images
  /\ rpc' = "test"
  /\ UNCHANGED <<cameraVars, scanVars, stop_reporting_thread>>

\* stop_reporting_thread = false, then the reporter of this image.  Nothing in
\* the program sets sig_abort_set or sig_interrupt_set, so their test is never
\* true.
SpawnReporter ==
  /\ MainGoes("loop", "wait")
  /\ lAcquired < num_images
  /\ stop_reporting_thread' = 0
  /\ rpc' = "test"
  /\ UNCHANGED <<cameraVars, scanVars>>

FallAsleep ==
  /\ MainGoes("wait", "asleep")
  /\ EnterWait
  /\ UNCHANGED <<scanVars, rpc, stop_reporting_thread>>

WaitDone ==
  /\ MainGoes("asleep", "stop")
  /\ WaitSucceeds
  /\ UNCHANGED <<scanVars, rpc, stop_reporting_thread>>

\* Mutated: the wait fails and the camera is left to itself.
WaitFailsAcquiring ==
  /\ MainGoes("asleep", "stop")
  /\ WaitReturnsError
  /\ status' = "waitfailed"
  /\ UNCHANGED <<acquiring, exposed, available, event, num_images, lAcquired,
                 img_buffer, saved, answers, rpc, stop_reporting_thread>>

\* WaitForAcquisition() fails; AbortAcquisition().  The client gets no answer.
WaitFails ==
  /\ MainGoes("asleep", "stop")
  /\ WaitReturnsError
  /\ acquiring' = FALSE
  /\ status' = "waitfailed"
  /\ UNCHANGED <<exposed, available, event, num_images, lAcquired, img_buffer,
                 saved, answers, rpc, stop_reporting_thread>>

\* Mutated: the reporter is joined but never told.
StopForgotten ==
  /\ MainGoes("stop", "join")
  /\ UNCHANGED <<cameraVars, scanVars, rpc, stop_reporting_thread>>

StopReporter ==
  /\ MainGoes("stop", "join")
  /\ stop_reporting_thread' = 1
  /\ UNCHANGED <<cameraVars, scanVars, rpc>>

\* Mutated: no return after a failed wait.
JoinAndGoOn ==
  /\ MainGoes("join", "total")
  /\ rpc = "ended"
  /\ rpc' = "none"
  /\ UNCHANGED <<cameraVars, scanVars, stop_reporting_thread>>

JoinReporter ==
  /\ mpc = "join"
  /\ rpc = "ended"
  /\ rpc' = "none"
  /\ mpc' = IF status = "waitfailed" THEN "return" ELSE "total"
  /\ UNCHANGED <<cameraVars, scanVars, stop_reporting_thread>>

\* Mutated: images are counted when they are exposed, not when they arrive.
CountExposed ==
  /\ MainGoes("total", "copy")
  /\ lAcquired' = exposed
  /\ UNCHANGED <<cameraVars, num_images, img_buffer, saved, status, answers, rpc,
                 stop_reporting_thread>>

\* GetTotalNumberImagesAcquired(&lAcquired): a failure is not looked at, and
\* leaves the count of the image before.
CountAcquired ==
  /\ MainGoes("total", "copy")
  /\ lAcquired' \in {available, lAcquired}
  /\ UNCHANGED <<cameraVars, num_images, img_buffer, saved, status, answers, rpc,
                 stop_reporting_thread>>

\* GetMostRecentImage(): whatever arrived last.
GetMostRecentImage ==
  /\ MainGoes("copy", "save")
  /\ available > 0
  /\ img_buffer' = available
  /\ UNCHANGED <<cameraVars, num_images, lAcquired, saved, status, answers, rpc,
                 stop_reporting_thread>>

\* Mutated: no return after the error was answered.
CopyFailsGoesOn ==
  /\ MainGoes("copy", "loop")
  /\ acquiring' = FALSE
  /\ status' = "copyfailed"
  /\ answers' = answers + 1
  /\ UNCHANGED <<exposed, available, event, waiter, num_images, lAcquired,
                 img_buffer, saved, rpc, stop_reporting_thread>>

\* It fails: the one failure that is answered.
CopyFails ==
  /\ MainGoes("copy", "return")
  /\ acquiring' = FALSE
  /\ status' = "copyfailed"
  /\ answers' = answers + 1
  /\ UNCHANGED <<exposed, available, event, waiter, num_images, lAcquired,
                 img_buffer, saved, rpc, stop_reporting_thread>>

SaveImage ==
  /\ MainGoes("save", "loop")
  /\ saved' = Append(saved, img_buffer)
  /\ UNCHANGED <<cameraVars, num_images, lAcquired, img_buffer, status, answers,
                 rpc, stop_reporting_thread>>

\* No file name, or the write fails.  The client gets no answer.
SaveFails ==
  /\ MainGoes("save", "return")
  /\ acquiring' = FALSE
  /\ status' = "savefailed"
  /\ UNCHANGED <<exposed, available, event, waiter, num_images, lAcquired,
                 img_buffer, saved, answers, rpc, stop_reporting_thread>>

\* The loop ends: the answer, then AbortAcquisition().
AnswerOk ==
  /\ MainGoes("loop", "return")
  /\ lAcquired >= num_images
  /\ status' = "ok"
  /\ answers' = answers + 1
  /\ AbortAcquisition
  /\ UNCHANGED <<num_images, lAcquired, img_buffer, saved, rpc,
                 stop_reporting_thread>>

Return ==
  /\ MainGoes("return", "idle")
  /\ UNCHANGED <<cameraVars, scanVars, rpc, stop_reporting_thread>>

MainNext ==
  \/ Start \/ SpawnReporter \/ FallAsleep \/ WaitDone \/ WaitFails
  \/ StopReporter \/ JoinReporter \/ CountAcquired
  \/ GetMostRecentImage \/ CopyFails \/ SaveImage \/ SaveFails
  \/ AnswerOk \/ Return

-----------------------------------------------------------------------------
(* ThreadReporter::report                                                  *)

ReporterGoes(from, to) ==
  /\ rpc = from
  /\ rpc' = to
  /\ UNCHANGED <<cameraVars, mpc, scanVars, stop_reporting_thread>>

\* The flag is read at the head of the loop and again after the message.
ReporterGoesOn ==
  /\ stop_reporting_thread = 0
  /\ ReporterGoes("test", "send") \/ ReporterGoes("sleep", "test")

ReportProgress == ReporterGoes("send", "sleep")

ReporterEnds ==
  /\ stop_reporting_thread # 0
  /\ ReporterGoes("test", "ended") \/ ReporterGoes("sleep", "ended")

ReporterNext == ReporterGoesOn \/ ReportProgress \/ ReporterEnds

-----------------------------------------------------------------------------
CameraNext ==
  /\ ExposeSeries(num_images) \/ Transfer
  /\ UNCHANGED <<mpc, scanVars, rpc, stop_reporting_thread>>

Next ==
  \/ \E n \in Images : ImageCommand(n)
  \/ MainNext
  \/ ReporterNext
  \/ CameraNext

\* The threads run; what the camera owes is not needed below.
Spec == Init /\ [][Next]_vars
FairSpec == Spec /\ WF_vars(MainNext) /\ WF_vars(ReporterNext)

-----------------------------------------------------------------------------
(* Properties                                                              *)

\* The type invariant; in particular the program's count never exceeds the
\* series.
TypeOK ==
  /\ CameraTypeOK
  /\ mpc \in {"idle", "start", "loop", "wait", "asleep", "stop", "join", "total",
              "copy", "save", "return"}
  /\ {num_images, lAcquired, img_buffer} \subseteq Images
  /\ saved \in Seq(Images)
  /\ status \in {"none", "ok", "waitfailed", "copyfailed", "savefailed"}
  /\ answers \in {0, 1}
  /\ rpc \in {"none", "test", "send", "sleep", "ended"}
  /\ stop_reporting_thread \in {0, 1}

\* However far the camera is ahead of the loop, there are never more files than
\* images asked for, and they are in the order the camera took them
\* (get_acquisition.cpp:243, 280-284).
FilesInOrder ==
  /\ Len(saved) <= num_images
  /\ \A i \in 1..Len(saved) : saved[i] <= exposed
  /\ \A i, j \in 1..Len(saved) : i < j => saved[i] <= saved[j]

\* A series that is answered "ok" has saved its last image: the count that ends
\* the loop is read before the image is (get_acquisition.cpp:280-283).
OkHasLastImage ==
  status = "ok" /\ num_images > 0 =>
    /\ Len(saved) > 0
    /\ saved[Len(saved)] = num_images

\* Between two commands no reporter runs and the camera is idle.
IdleIsClean == mpc = "idle" => rpc = "none" /\ waiter = "none" /\ ~acquiring

\* A reporter reports for as long as its image is being waited for; a flag left
\* over from the image before does not end it (get_acquisition.cpp:247, 275).
ReporterOutlastsWait == mpc \in {"wait", "asleep"} => rpc # "ended"

\* The reporter of each image is stopped and joined (get_acquisition.cpp:275-276).
ReporterIsJoined == mpc = "join" ~> mpc # "join"
=============================================================================
