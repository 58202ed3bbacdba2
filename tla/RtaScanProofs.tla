--------------------------- MODULE RtaScanProofs ---------------------------
(***************************************************************************)
(* Proofs about RtaScan, for every number of images and every size of the  *)
(* circular buffer: the type invariant, the four safety invariants, that   *)
(* the series implements ImageCommand, that no thread waits for one that   *)
(* cannot go on, that a command has a bounded number of steps, and that a  *)
(* cancelled wait ends in "aborted".                                       *)
(*                                                                         *)
(* None of the safety invariants is inductive.  IInv adds what the code    *)
(* keeps in its control flow: which image the loop is at in each of its    *)
(* steps, which threads are alive and who holds which mutex at each point  *)
(* of get_rta_scan(), how far the command has been answered, and that      *)
(* abort_set is one only once the peer has sent its message.               *)
(***************************************************************************)
EXTENDS RtaScan, SequenceTheorems, TLAPS

InImage == {"wait", "asleep", "poll", "get", "save"}
Holding == {"next", "unlock"} \cup InImage
BeforeLoop == {"handshake", "start", "lock"}
Cleanup == {"unlock", "shutdown", "joinR", "joinL"}

\* The loop: curimg images are saved, in order, and the image under way is
\* the next one.
LoopInv ==
  /\ curimg <= num_images
  /\ Len(saved) = curimg
  /\ \A i \in 1..Len(saved) : saved[i] = i
  /\ mpc \in InImage => curimg < num_images /\ cur_img_in_series = curimg + 1
  /\ mpc = "save" => img_buffer = cur_img_in_series

\* The threads and the mutexes at each point of the main thread.
ThreadInv ==
  /\ g_mtx = "main" <=> mpc \in Holding
  /\ mpc \in Holding => rpc \notin {"none", "ended"}
  /\ mpc \in BeforeLoop \cup {"idle", "joinL", "answer", "stop", "return"} => rpc = "none"
  /\ mpc = "joinR" => rpc # "none"
  /\ mpc = "shutdown" => (rpc = "none" <=> outcome = "startfailed")
  /\ lpc = "none" <=> mpc \in {"idle", "answer", "stop", "return"}
  /\ g_mtx_abort = "listener" <=> lpc \in {"bind", "publish"}
  /\ lpc \in {"none", "reset", "lock", "bind", "ended"} => lsock = "closed"

\* The camera runs only between StartAcquisition and AbortAcquisition.
CameraInv ==
  /\ waiter # "none" <=> mpc = "asleep"
  /\ mpc \in {"idle", "handshake", "start", "return"} => ~acquiring
  /\ outcome \notin {"none", "ok"} => ~acquiring

\* How the acquisition ended and how far the command has been answered.
AnswerInv ==
  /\ mpc \in BeforeLoop \cup {"next"} \cup InImage => outcome = "none"
  /\ mpc \in Cleanup \cup {"answer", "stop", "return"} => outcome # "none"
  /\ mpc \in {"unlock", "joinR"} => outcome # "startfailed"
  /\ mpc = "answer" => outcome \notin {"startfailed", "savefailed"}
  /\ mpc = "stop" => outcome = "ok"
  /\ outcome = "ok" => curimg = num_images
  /\ outcome = "none" => dones = 0
  /\ mpc \in Cleanup =>
       dones = IF outcome \in {"startfailed", "savefailed"} THEN 1 ELSE 0
  /\ mpc = "answer" => dones = 0
  /\ mpc \in {"stop", "return"} => dones = 1
  /\ mpc = "idle" /\ outcome # "none" => dones = 1
  /\ dones = 0 => result = "none"
  /\ result = "ok" => outcome = "ok"

\* The flag of the abort belongs to this command.
AbortInv ==
  /\ lpc \in {"abort", "cancel", "close"} => peer = "sent"
  /\ lpc # "reset" /\ abort_set = 1 => peer = "sent"

\* Once "done" went out with the reporter joined, only the way back to idle is
\* left to the main thread.
DoneInv ==
  sent.type = "done" /\ outcome # "savefailed" =>
    /\ rpc = "none"
    /\ mpc \in {"shutdown", "joinL", "stop", "return", "idle"}
    /\ mpc \in {"shutdown", "joinL"} => outcome = "startfailed"

IInv == TypeOK /\ LoopInv /\ ThreadInv /\ CameraInv /\ AnswerInv /\ AbortInv
        /\ DoneInv

-----------------------------------------------------------------------------
\* The list of saved files stays a sequence of image numbers.
LEMMA SaveKeepsSeq ==
  ASSUME saved \in Seq(Images), img_buffer \in Images, SaveImage
  PROVE  saved' \in Seq(Images)
BY AppendProperties, Zenon DEF SaveImage

\* The daemon starts with no thread, no acquisition and nothing answered.
LEMMA InitIInv == Init => IInv
<1> SUFFICES ASSUME Init PROVE IInv
  OBVIOUS
<1> USE DEF Init, CameraInit, ListenerInit
<1>1. TypeOK
  <2>1. CameraTypeOK
    <3>1. acquiring \in BOOLEAN /\ event \in BOOLEAN
      BY Zenon
    <3>2. exposed \in 0..FrameCap /\ available \in 0..exposed
      BY CameraAssumption
    <3>3. QED
      BY <3>1, <3>2 DEF CameraTypeOK
  <2>2. ListenerTypeOK
    BY DEF ListenerTypeOK, ListenerPcs
  <2>3. saved \in Seq(Images) /\ sent \in Messages
    BY MaxImagesAssumption DEF Images, Messages, ProgressTypes
  <2>4. QED
    BY MaxImagesAssumption, <2>1, <2>2, <2>3
       DEF TypeOK, ScanTypeOK, MainPcs, ReporterPcs, Images, Outcomes, Results
<1>2. LoopInv
  BY DEF LoopInv, InImage
<1>3. ThreadInv /\ CameraInv /\ AnswerInv /\ AbortInv /\ DoneInv
  BY DEF ThreadInv, CameraInv, AnswerInv, AbortInv, DoneInv, InImage, Holding, BeforeLoop,
         Cleanup
<1> QED
  BY <1>1, <1>2, <1>3 DEF IInv

\* Every step keeps every variable in its range.
LEMMA TypePreserved == IInv /\ [Next]_vars => TypeOK'
<1> SUFFICES ASSUME IInv, [Next]_vars PROVE TypeOK'
  OBVIOUS
<1>1. CameraTypeOK'
  <2> USE CameraAssumption DEF IInv, TypeOK, CameraTypeOK, cameraVars
  <2>1. ASSUME NEW n \in Images, ImageCommand(n) PROVE CameraTypeOK'
    BY <2>1 DEF ImageCommand
  <2>2. CASE MainNext
    <3>1. CASE StartSucceeds \/ StartFails \/ Stop
      <4> USE DEF StartSucceeds, StartFails, Stop, StartAcquisition, AbortAcquisition
      <4>1. acquiring' \in BOOLEAN /\ event' \in BOOLEAN
        BY <3>1, Zenon
      <4>2. exposed' \in 0..FrameCap /\ available' \in 0..exposed'
        BY <3>1
      <4>3. waiter' \in {"none", "asleep", "cancelled"}
        BY <3>1
      <4>4. QED
        BY <4>1, <4>2, <4>3
    <3>2. CASE FallAsleep \/ WaitDone
      BY <3>2 DEF FallAsleep, WaitDone, EnterWait, WaitSucceeds
    <3>3. CASE WaitFails \/ PollTimesOut \/ GetImagesFails \/ SaveFails
      BY <3>3 DEF WaitFails, PollTimesOut, GetImagesFails, SaveFails, GiveUp,
                  WaitReturnsError
    <3>4. QED
      BY <2>2, <3>1, <3>2, <3>3
         DEF MainNext, Handshake, LockAndReport, NextImage, SeriesDone,
             PollEnds, GetImages, SaveImage, Unlock, Shutdown, JoinReporter,
             JoinAbortListener, AnswerOk, AnswerFailure, Return
  <2>3. CASE ReporterNext
    BY <2>3 DEF ReporterNext, ReporterTryFails, ReporterEnds, ReportAcquired,
                SameImage, RefreshImage, ReportProgress
  <2>4. CASE ListenerStep
    <3>1. CASE ListenerCancelsWait
      BY <3>1 DEF ListenerCancelsWait, CancelWait
    <3>2. QED
      BY <2>4, <3>1
         DEF ListenerStep, ListenerNext, ListenerReset, ListenerLock, ListenerBinds,
             ListenerBindThrows, ListenerPublishes, ListenerAccepts,
             ListenerAcceptFails, ListenerReceives, ListenerPeerGone,
             ListenerSetsAbort, ListenerCloses
  <2>5. CASE PeerStep
    BY <2>5 DEF PeerStep, PeerNext, PeerConnects, PeerSends, PeerCloses, TimeWaitEnds
  <2>6. CASE CameraNext
    <3>1. acquiring' \in BOOLEAN /\ event' \in BOOLEAN
      BY <2>6, Zenon DEF CameraNext, Expose, Transfer
    <3>2. exposed' \in 0..FrameCap /\ available' \in 0..exposed'
      BY <2>6 DEF CameraNext, Expose, Transfer
    <3>3. waiter' = waiter
      BY <2>6 DEF CameraNext, Expose, Transfer
    <3>4. QED
      BY <3>1, <3>2, <3>3
  <2>7. CASE UNCHANGED vars
    BY <2>7 DEF vars
  <2> QED
    BY <2>1, <2>2, <2>3, <2>4, <2>5, <2>6, <2>7 DEF Next
<1>2. ListenerTypeOK'
  <2> USE DEF IInv, TypeOK, ListenerTypeOK, ListenerPcs, ListenerGoes, listenerVars
  <2>1. ASSUME NEW n \in Images, ImageCommand(n) PROVE ListenerTypeOK'
    BY <2>1 DEF ImageCommand, SpawnListener
  <2>2. CASE MainNext
    BY <2>2 DEF MainNext, Handshake, StartSucceeds, StartFails, LockAndReport,
         NextImage, SeriesDone, FallAsleep, WaitDone, WaitFails, PollTimesOut,
         GetImagesFails, SaveFails, GiveUp, PollEnds, GetImages, SaveImage,
         Unlock, Shutdown, ShutdownListener, JoinReporter, JoinAbortListener,
         JoinListener, AnswerOk, AnswerFailure, Stop, Return
  <2>3. CASE ReporterNext
    BY <2>3 DEF ReporterNext, ReporterTryFails, ReporterEnds, ReportAcquired,
                SameImage, RefreshImage, ReportProgress
  <2>4. CASE ListenerStep
    BY <2>4
       DEF ListenerStep, ListenerNext, ListenerReset, ListenerLock, ListenerBinds,
           ListenerBindThrows, ListenerPublishes, ListenerAccepts,
           ListenerAcceptFails, ListenerReceives, ListenerPeerGone,
           ListenerSetsAbort, ListenerCancelsWait, ListenerCloses
  <2>5. CASE PeerStep
    BY <2>5 DEF PeerStep, PeerNext, PeerConnects, PeerSends, PeerCloses, TimeWaitEnds
  <2>6. CASE CameraNext
    BY <2>6 DEF CameraNext, othersOfCamera
  <2>7. CASE UNCHANGED vars
    BY <2>7 DEF vars
  <2> QED
    BY <2>1, <2>2, <2>3, <2>4, <2>5, <2>6, <2>7 DEF Next
<1>3. ScanTypeOK'
  <2> USE MaxImagesAssumption
      DEF IInv, TypeOK, ScanTypeOK, LoopInv, InImage, MainPcs, ReporterPcs, Images,
          Outcomes, Results, Messages, ProgressTypes, scanVars, reporterVars,
          MainGoes, ReporterGoes, Send, SendDone
  <2>1. ASSUME NEW n \in Images, ImageCommand(n) PROVE ScanTypeOK'
    BY <2>1 DEF ImageCommand
  <2>2. CASE MainNext
    <3>1. CASE Handshake \/ StartSucceeds \/ StartFails \/ LockAndReport
      BY <3>1 DEF Handshake, StartSucceeds, StartFails, LockAndReport
    <3>2. CASE NextImage \/ SeriesDone \/ FallAsleep \/ WaitDone \/ PollEnds
      BY <3>2 DEF NextImage, SeriesDone, FallAsleep, WaitDone, PollEnds
    <3>3. CASE WaitFails \/ PollTimesOut \/ GetImagesFails \/ SaveFails
      BY <3>3 DEF WaitFails, PollTimesOut, GetImagesFails, SaveFails, GiveUp
    <3>4. CASE GetImages \/ SaveImage
      <4>1. saved' \in Seq(Images)
        BY <3>4, SaveKeepsSeq DEF GetImages
      <4>2. sent' \in Messages
        BY <3>4 DEF GetImages, SaveImage
      <4>3. QED
        BY <3>4, <4>1, <4>2 DEF GetImages, SaveImage
    <3>5. CASE Unlock \/ Shutdown \/ JoinReporter \/ JoinAbortListener
      BY <3>5 DEF Unlock, Shutdown, JoinReporter, JoinAbortListener
    <3>6. CASE AnswerOk \/ AnswerFailure \/ Stop \/ Return
      BY <3>6 DEF AnswerOk, AnswerFailure, Stop, Return
    <3>7. QED
      BY <2>2, <3>1, <3>2, <3>3, <3>4, <3>5, <3>6 DEF MainNext
  <2>3. CASE ReporterNext
    BY <2>3 DEF ReporterNext, ReporterTryFails, ReporterEnds, ReportAcquired,
                SameImage, RefreshImage, ReportProgress
  <2>4. CASE ListenerStep \/ PeerStep \/ CameraNext
    BY <2>4 DEF ListenerStep, PeerStep, CameraNext, othersOfCamera
  <2>5. CASE UNCHANGED vars
    BY <2>5 DEF vars
  <2> QED
    BY <2>1, <2>2, <2>3, <2>4, <2>5 DEF Next
<1> QED
  BY <1>1, <1>2, <1>3 DEF TypeOK

\* Every step keeps the loop in step with the files saved so far.
LEMMA LoopPreserved == IInv /\ [Next]_vars => LoopInv'
<1> SUFFICES ASSUME IInv, [Next]_vars PROVE LoopInv'
  OBVIOUS
<1> USE DEF IInv, LoopInv, InImage, scanVars, MainGoes, TypeOK, ScanTypeOK, Images
<1>1. ASSUME NEW n \in Images, ImageCommand(n) PROVE LoopInv'
  BY <1>1 DEF ImageCommand
<1>2. CASE NextImage
  BY <1>2 DEF NextImage
<1>3. CASE WaitFails \/ PollTimesOut \/ GetImagesFails \/ SaveFails
  BY <1>3 DEF WaitFails, PollTimesOut, GetImagesFails, SaveFails, GiveUp
<1>4. CASE GetImages
  BY <1>4 DEF GetImages
<1>5. CASE SaveImage
  BY <1>5 DEF SaveImage
<1>6. CASE Handshake \/ StartSucceeds \/ StartFails \/ LockAndReport
  BY <1>6 DEF Handshake, StartSucceeds, StartFails, LockAndReport
<1>7. CASE SeriesDone \/ FallAsleep \/ WaitDone \/ PollEnds
  BY <1>7 DEF SeriesDone, FallAsleep, WaitDone, PollEnds
<1>8. CASE Unlock \/ Shutdown \/ JoinReporter \/ JoinAbortListener
  BY <1>8 DEF Unlock, Shutdown, JoinReporter, JoinAbortListener
<1>9. CASE AnswerOk \/ AnswerFailure \/ Stop \/ Return
  BY <1>9 DEF AnswerOk, AnswerFailure, Stop, Return
<1>10. CASE ReporterNext
  BY <1>10 DEF ReporterNext, ReporterTryFails, ReporterEnds, ReportAcquired,
               SameImage, RefreshImage, ReportProgress
<1>11. CASE ListenerStep \/ PeerStep \/ CameraNext
  BY <1>11 DEF ListenerStep, PeerStep, CameraNext, othersOfCamera
<1>12. CASE UNCHANGED vars
  BY <1>12 DEF vars
<1> QED
  BY <1>1, <1>2, <1>3, <1>4, <1>5, <1>6, <1>7, <1>8, <1>9, <1>10, <1>11, <1>12
     DEF Next, MainNext

\* Every step keeps threads and mutexes where the control flow has them.
LEMMA ThreadPreserved == IInv /\ [Next]_vars => ThreadInv'
<1> SUFFICES ASSUME IInv, [Next]_vars PROVE ThreadInv'
  OBVIOUS
<1> USE DEF IInv, ThreadInv, AnswerInv, InImage, Holding, BeforeLoop, Cleanup,
            scanVars, listenerVars, reporterVars, MainGoes, ReporterGoes, ListenerGoes
<1>1. ASSUME NEW n \in Images, ImageCommand(n) PROVE ThreadInv'
  BY <1>1 DEF ImageCommand, SpawnListener
<1>2. CASE Handshake \/ StartSucceeds \/ StartFails \/ LockAndReport
  BY <1>2 DEF Handshake, StartSucceeds, StartFails, LockAndReport
<1>3. CASE NextImage \/ SeriesDone \/ FallAsleep \/ WaitDone \/ PollEnds
  BY <1>3 DEF NextImage, SeriesDone, FallAsleep, WaitDone, PollEnds
<1>4. CASE WaitFails \/ PollTimesOut \/ GetImagesFails \/ SaveFails
  BY <1>4 DEF WaitFails, PollTimesOut, GetImagesFails, SaveFails, GiveUp
<1>5. CASE GetImages \/ SaveImage
  BY <1>5 DEF GetImages, SaveImage
<1>6. CASE Unlock \/ JoinReporter
  BY <1>6 DEF Unlock, JoinReporter
<1>7. CASE Shutdown
  BY <1>7 DEF Shutdown, ShutdownListener
<1>8. CASE JoinAbortListener
  BY <1>8 DEF JoinAbortListener, JoinListener
<1>9. CASE AnswerOk \/ AnswerFailure \/ Stop \/ Return
  BY <1>9 DEF AnswerOk, AnswerFailure, Stop, Return
<1>10. CASE ReporterNext
  BY <1>10 DEF ReporterNext, ReporterTryFails, ReporterEnds, ReportAcquired,
               SameImage, RefreshImage, ReportProgress
<1>11. CASE ListenerStep
  BY <1>11 DEF ListenerStep, ListenerNext, ListenerReset, ListenerLock, ListenerBinds,
           ListenerBindThrows, ListenerPublishes, ListenerAccepts,
           ListenerAcceptFails, ListenerReceives, ListenerPeerGone,
           ListenerSetsAbort, ListenerCancelsWait, ListenerCloses
<1>12. CASE PeerStep
  BY <1>12 DEF PeerStep, PeerNext, PeerConnects, PeerSends, PeerCloses, TimeWaitEnds
<1>13. CASE CameraNext
  BY <1>13 DEF CameraNext, othersOfCamera
<1>14. CASE UNCHANGED vars
  BY <1>14 DEF vars
<1> QED
  BY <1>1, <1>2, <1>3, <1>4, <1>5, <1>6, <1>7, <1>8, <1>9, <1>10, <1>11, <1>12,
     <1>13, <1>14 DEF Next, MainNext

\* No step leaves the camera acquiring outside an acquisition.
LEMMA CameraPreserved == IInv /\ [Next]_vars => CameraInv'
<1> SUFFICES ASSUME IInv, [Next]_vars PROVE CameraInv'
  OBVIOUS
<1> USE DEF IInv, CameraInv, AnswerInv, InImage, BeforeLoop, Cleanup,
            scanVars, cameraVars, MainGoes
<1>1. ASSUME NEW n \in Images, ImageCommand(n) PROVE CameraInv'
  BY <1>1 DEF ImageCommand
<1>2. CASE Handshake \/ StartSucceeds \/ StartFails \/ LockAndReport
  BY <1>2 DEF Handshake, StartSucceeds, StartFails, LockAndReport, StartAcquisition,
              AbortAcquisition
<1>3. CASE NextImage \/ SeriesDone \/ FallAsleep \/ WaitDone \/ PollEnds
  BY <1>3 DEF NextImage, SeriesDone, FallAsleep, WaitDone, PollEnds, EnterWait,
              WaitSucceeds
<1>4. CASE WaitFails \/ PollTimesOut \/ GetImagesFails \/ SaveFails
  BY <1>4 DEF WaitFails, PollTimesOut, GetImagesFails, SaveFails, GiveUp,
              WaitReturnsError
<1>5. CASE GetImages \/ SaveImage
  BY <1>5 DEF GetImages, SaveImage
<1>6. CASE Unlock \/ Shutdown \/ JoinReporter \/ JoinAbortListener
  BY <1>6 DEF Unlock, Shutdown, JoinReporter, JoinAbortListener
<1>7. CASE AnswerOk \/ AnswerFailure \/ Stop \/ Return
  BY <1>7 DEF AnswerOk, AnswerFailure, Stop, Return, AbortAcquisition
<1>8. CASE ReporterNext
  BY <1>8 DEF ReporterNext, ReporterTryFails, ReporterEnds, ReportAcquired,
              SameImage, RefreshImage, ReportProgress
<1>9. CASE ListenerStep
  BY <1>9 DEF ListenerStep, ListenerNext, ListenerReset, ListenerLock, ListenerBinds,
           ListenerBindThrows, ListenerPublishes, ListenerAccepts,
           ListenerAcceptFails, ListenerReceives, ListenerPeerGone,
           ListenerSetsAbort, ListenerCancelsWait, CancelWait, ListenerCloses
<1>10. CASE PeerStep
  BY <1>10 DEF PeerStep, PeerNext, PeerConnects, PeerSends, PeerCloses, TimeWaitEnds
<1>11. CASE CameraNext
  BY <1>11 DEF CameraNext, othersOfCamera, Expose, Transfer
<1>12. CASE UNCHANGED vars
  BY <1>12 DEF vars
<1> QED
  BY <1>1, <1>2, <1>3, <1>4, <1>5, <1>6, <1>7, <1>8, <1>9, <1>10, <1>11, <1>12
     DEF Next, MainNext

\* Every step keeps the count of answers in line with the outcome.
LEMMA AnswerPreserved == IInv /\ [Next]_vars => AnswerInv'
<1> SUFFICES ASSUME IInv, [Next]_vars PROVE AnswerInv'
  OBVIOUS
<1> USE DEF IInv, AnswerInv, LoopInv, InImage, BeforeLoop, Cleanup, scanVars,
            MainGoes, SendDone, TypeOK, ScanTypeOK, Images
<1>1. ASSUME NEW n \in Images, ImageCommand(n) PROVE AnswerInv'
  BY <1>1 DEF ImageCommand
<1>2. CASE Handshake \/ StartSucceeds \/ StartFails \/ LockAndReport
  BY <1>2 DEF Handshake, StartSucceeds, StartFails, LockAndReport
<1>3. CASE NextImage \/ SeriesDone \/ FallAsleep \/ WaitDone \/ PollEnds
  BY <1>3 DEF NextImage, SeriesDone, FallAsleep, WaitDone, PollEnds
<1>4. CASE WaitFails \/ PollTimesOut \/ GetImagesFails \/ SaveFails
  BY <1>4 DEF WaitFails, PollTimesOut, GetImagesFails, SaveFails, GiveUp
<1>5. CASE GetImages \/ SaveImage
  BY <1>5 DEF GetImages, SaveImage
<1>6. CASE Unlock \/ Shutdown \/ JoinReporter \/ JoinAbortListener
  BY <1>6 DEF Unlock, Shutdown, JoinReporter, JoinAbortListener
<1>7. CASE AnswerOk \/ AnswerFailure \/ Stop \/ Return
  BY <1>7 DEF AnswerOk, AnswerFailure, Stop, Return
<1>8. CASE ReporterNext
  BY <1>8 DEF ReporterNext, ReporterTryFails, ReporterEnds, ReportAcquired,
              SameImage, RefreshImage, ReportProgress
<1>9. CASE ListenerStep \/ PeerStep \/ CameraNext
  BY <1>9 DEF ListenerStep, PeerStep, CameraNext, othersOfCamera
<1>10. CASE UNCHANGED vars
  BY <1>10 DEF vars
<1> QED
  BY <1>1, <1>2, <1>3, <1>4, <1>5, <1>6, <1>7, <1>8, <1>9, <1>10
     DEF Next, MainNext

\* No step sets abort_set, or keeps it set, without a message of the peer.
LEMMA AbortPreserved == IInv /\ [Next]_vars => AbortInv'
<1> SUFFICES ASSUME IInv, [Next]_vars PROVE AbortInv'
  OBVIOUS
<1> USE DEF IInv, AbortInv, listenerVars, ListenerGoes
<1>1. ASSUME NEW n \in Images, ImageCommand(n) PROVE AbortInv'
  BY <1>1 DEF ImageCommand, SpawnListener
<1>2. CASE Shutdown
  BY <1>2 DEF Shutdown, ShutdownListener
<1>3. CASE JoinAbortListener
  BY <1>3 DEF JoinAbortListener, JoinListener
<1>4. CASE MainNext /\ ~Shutdown /\ ~JoinAbortListener
  BY <1>4 DEF MainNext, Handshake, StartSucceeds, StartFails, LockAndReport,
         NextImage, SeriesDone, FallAsleep, WaitDone, WaitFails, PollTimesOut,
         GetImagesFails, SaveFails, GiveUp, PollEnds, GetImages, SaveImage,
         Unlock, JoinReporter, AnswerOk, AnswerFailure, Stop, Return
<1>5. CASE ReporterNext
  BY <1>5 DEF ReporterNext, ReporterTryFails, ReporterEnds, ReportAcquired,
              SameImage, RefreshImage, ReportProgress
<1>6. CASE ListenerStep
  BY <1>6 DEF ListenerStep, ListenerNext, ListenerReset, ListenerLock, ListenerBinds,
           ListenerBindThrows, ListenerPublishes, ListenerAccepts,
           ListenerAcceptFails, ListenerReceives, ListenerPeerGone,
           ListenerSetsAbort, ListenerCancelsWait, ListenerCloses
<1>7. CASE PeerStep
  BY <1>7 DEF PeerStep, PeerNext, PeerConnects, PeerSends, PeerCloses, TimeWaitEnds
<1>8. CASE CameraNext
  BY <1>8 DEF CameraNext, othersOfCamera
<1>9. CASE UNCHANGED vars
  BY <1>9 DEF vars
<1> QED
  BY <1>1, <1>2, <1>3, <1>4, <1>5, <1>6, <1>7, <1>8, <1>9 DEF Next

\* No step makes a message follow the answer.
LEMMA DonePreserved == IInv /\ [Next]_vars => DoneInv'
<1> SUFFICES ASSUME IInv, [Next]_vars PROVE DoneInv'
  OBVIOUS
<1> USE DEF IInv, DoneInv, ThreadInv, AnswerInv, Holding, InImage, BeforeLoop, scanVars,
            reporterVars, MainGoes, ReporterGoes, Send, SendDone
<1>1. ASSUME NEW n \in Images, ImageCommand(n) PROVE DoneInv'
  BY <1>1 DEF ImageCommand
<1>2. CASE Handshake \/ StartSucceeds \/ StartFails \/ LockAndReport
  BY <1>2 DEF Handshake, StartSucceeds, StartFails, LockAndReport
<1>3. CASE NextImage \/ SeriesDone \/ FallAsleep \/ WaitDone \/ PollEnds
  BY <1>3 DEF NextImage, SeriesDone, FallAsleep, WaitDone, PollEnds
<1>4. CASE WaitFails \/ PollTimesOut \/ GetImagesFails \/ SaveFails
  BY <1>4 DEF WaitFails, PollTimesOut, GetImagesFails, SaveFails, GiveUp
<1>5. CASE GetImages \/ SaveImage
  BY <1>5 DEF GetImages, SaveImage
<1>6. CASE Unlock \/ Shutdown \/ JoinReporter \/ JoinAbortListener
  <2>1. CASE Unlock
    BY <2>1 DEF Unlock
  <2>2. CASE Shutdown
    BY <2>2 DEF Shutdown
  <2>3. CASE JoinReporter
    BY <2>3 DEF JoinReporter
  <2>4. CASE JoinAbortListener
    BY <2>4 DEF JoinAbortListener
  <2> QED
    BY <1>6, <2>1, <2>2, <2>3, <2>4
<1>7. CASE AnswerOk \/ AnswerFailure \/ Stop \/ Return
  BY <1>7 DEF AnswerOk, AnswerFailure, Stop, Return
<1>8. CASE ReporterNext
  BY <1>8 DEF ReporterNext, ReporterTryFails, ReporterEnds, ReportAcquired,
              SameImage, RefreshImage, ReportProgress
<1>9. CASE ListenerStep \/ PeerStep \/ CameraNext
  BY <1>9 DEF ListenerStep, PeerStep, CameraNext, othersOfCamera
<1>10. CASE UNCHANGED vars
  BY <1>10 DEF vars
<1> QED
  BY <1>1, <1>2, <1>3, <1>4, <1>5, <1>6, <1>7, <1>8, <1>9, <1>10
     DEF Next, MainNext

\* The strengthening holds in every reachable state.
THEOREM Invariance == Spec => []IInv
<1>1. IInv /\ [Next]_vars => IInv'
  BY TypePreserved, LoopPreserved, ThreadPreserved, CameraPreserved,
     AnswerPreserved, AbortPreserved, DonePreserved DEF IInv
<1> QED
  BY <1>1, InitIInv, PTL DEF Spec

\* Every variable of the three threads and the camera stays in its range, for
\* every length of the series and every size of the circular buffer.
THEOREM TypeCorrect == Spec => []TypeOK
<1>1. IInv => TypeOK
  BY DEF IInv
<1> QED
  BY <1>1, Invariance, PTL

\* A series that is answered with "ok" has saved every image it was asked for,
\* image i in file i (get_rta_scan.cpp:205-207, 346-349).
THEOREM OkIsComplete == Spec => []OkMeansComplete
<1>1. IInv => OkMeansComplete
  BY DEF IInv, LoopInv, AnswerInv, OkMeansComplete
<1> QED
  BY <1>1, Invariance, PTL

\* Whatever way a command ended, no thread, mutex, socket or acquisition of it
\* is left when the next one starts.
THEOREM CleanAtIdle == Spec => []IdleIsClean
<1>1. IInv => IdleIsClean
  <2>1. TypeOK => g_mtx \in {"free", "main"} /\ g_mtx_abort \in {"free", "listener"}
    BY DEF TypeOK, ScanTypeOK, ListenerTypeOK
  <2> QED
    BY <2>1 DEF IInv, ThreadInv, CameraInv, IdleIsClean, Holding, InImage
<1> QED
  BY <1>1, Invariance, PTL

\* The reporter does not end while images are being taken: g_mtx is held from
\* before it is spawned until the outcome is known.
THEOREM ReporterStays == Spec => []ReporterOutlastsSeries
<1>1. IInv => ReporterOutlastsSeries
  <2> SUFFICES ASSUME IInv, rpc = "ended" PROVE outcome # "none"
    BY DEF ReporterOutlastsSeries
  <2>1. mpc \in MainPcs
    BY DEF IInv, TypeOK, ScanTypeOK
  <2> QED
    BY <2>1 DEF IInv, ThreadInv, AnswerInv, MainPcs, Holding, InImage, BeforeLoop,
                Cleanup
<1> QED
  BY <1>1, Invariance, PTL

\* Every command is answered once, by get_rta_scan() or by save_as_fits().
THEOREM AnsweredOnce == Spec => []OneAnswer
<1>1. IInv => OneAnswer
  <2> SUFFICES ASSUME IInv PROVE OneAnswer
    OBVIOUS
  <2>1. mpc \in MainPcs
    BY DEF IInv, TypeOK, ScanTypeOK
  <2> QED
    BY <2>1 DEF IInv, AnswerInv, OneAnswer, MainPcs, InImage, BeforeLoop, Cleanup
<1> QED
  BY <1>1, Invariance, PTL

\* Nothing is sent after "done" but by the next command, unless the answer
\* came from save_as_fits().
THEOREM NothingAfterDone == Spec => DoneIsLast
<1> DEFINE Last == sent.type = "done" /\ outcome # "savefailed"
                     => sent'.type \in {"done", "none"}
<1>1. IInv /\ [Next]_vars => [Last]_vars
  <2> SUFFICES ASSUME IInv, Next, sent.type = "done", outcome # "savefailed"
               PROVE  sent'.type \in {"done", "none"}
    BY DEF vars
  <2> USE DEF IInv, DoneInv, MainGoes, ReporterGoes, Send, SendDone
  <2>1. ASSUME NEW n \in Images, ImageCommand(n) PROVE sent'.type \in {"done", "none"}
    BY <2>1 DEF ImageCommand
  <2>2. CASE MainNext
    BY <2>2 DEF MainNext, Handshake, StartSucceeds, StartFails, LockAndReport,
         NextImage, SeriesDone, FallAsleep, WaitDone, WaitFails, PollTimesOut,
         GetImagesFails, SaveFails, GiveUp, PollEnds, GetImages, SaveImage,
         Unlock, Shutdown, JoinReporter, JoinAbortListener, AnswerOk,
         AnswerFailure, Stop, Return
  <2>3. CASE ReporterNext
    BY <2>3 DEF ReporterNext, ReporterTryFails, ReporterEnds, ReportAcquired,
                SameImage, RefreshImage, ReportProgress
  <2>4. CASE ListenerStep \/ PeerStep \/ CameraNext
    BY <2>4 DEF ListenerStep, PeerStep, CameraNext, othersOfCamera
  <2> QED
    BY <2>1, <2>2, <2>3, <2>4 DEF Next
<1> QED
  BY <1>1, Invariance, PTL DEF Spec, DoneIsLast

-----------------------------------------------------------------------------
(* Refinement: which step of the series is which step of the promise.      *)

\* The series starts where the promise starts.
LEMMA InitImplements == Init => Command!Init
BY DEF Init, ListenerInit, Command!Init

\* The steps of the main thread, the reporter, the listener and the camera
\* that leave the files, the answer and the peer's message alone.
LEMMA Stuttering ==
  ASSUME UNCHANGED <<num_images, saved, dones, result>>,
         mpc = "idle" <=> mpc' = "idle",
         peer = "sent" <=> peer' = "sent"
  PROVE  UNCHANGED Command!vars
BY DEF Command!vars

\* Every step of the series is a step of the promise or leaves it alone.
LEMMA StepImplements == IInv /\ [Next]_vars => [Command!Next]_(Command!vars)
<1> SUFFICES ASSUME IInv, [Next]_vars PROVE [Command!Next]_(Command!vars)
  OBVIOUS
<1> USE DEF scanVars, listenerVars, MainGoes, SendDone, Images
<1>1. ASSUME NEW n \in Images, ImageCommand(n) PROVE Command!Request(n)
  BY <1>1 DEF ImageCommand, SpawnListener, Command!Request
<1>2. CASE StartFails
  <2>1. dones = 0
    BY <1>2 DEF StartFails, IInv, AnswerInv, BeforeLoop
  <2> QED
    BY <1>2, <2>1 DEF StartFails, Command!Answer, Command!Next
<1>3. CASE SaveFails
  <2>1. dones = 0
    BY <1>3 DEF SaveFails, GiveUp, IInv, AnswerInv, InImage
  <2> QED
    BY <1>3, <2>1 DEF SaveFails, GiveUp, Command!Answer, Command!Next
<1>4. CASE SaveImage
  <2>1. dones = 0 /\ Len(saved) < num_images /\ img_buffer = Len(saved) + 1
    BY <1>4 DEF SaveImage, IInv, LoopInv, AnswerInv, InImage
  <2> QED
    BY <1>4, <2>1 DEF SaveImage, Command!SaveNext, Command!Next
<1>5. CASE AnswerOk
  <2>1. dones = 0 /\ Len(saved) = num_images
    BY <1>5 DEF AnswerOk, IInv, LoopInv, AnswerInv
  <2> QED
    BY <1>5, <2>1 DEF AnswerOk, Command!Answer, Command!Next
<1>6. CASE AnswerFailure
  <2>1. dones = 0
    BY <1>6 DEF AnswerFailure, IInv, AnswerInv
  <2>2. abort_set # 0 => peer = "sent"
    BY <1>6 DEF AnswerFailure, IInv, ThreadInv, AbortInv, TypeOK, ListenerTypeOK
  <2>3. result' \in {"aborted", "failed"} /\ (result' = "aborted" => peer = "sent")
    BY <1>6, <2>2 DEF AnswerFailure
  <2> QED
    BY <1>6, <2>1, <2>3 DEF AnswerFailure, Command!Answer, Command!Next
<1>7. CASE Return
  <2>1. dones = 1
    BY <1>7 DEF Return, IInv, AnswerInv
  <2> QED
    BY <1>7, <2>1 DEF Return, Command!Return, Command!Next
<1>8. CASE PeerStep
  <2>1. CASE PeerSends
    BY <1>8, <2>1 DEF PeerStep, PeerSends, Command!AskAbort, Command!Next
  <2>2. CASE PeerConnects \/ PeerCloses \/ TimeWaitEnds
    BY <1>8, <2>2, Stuttering DEF PeerStep, PeerConnects, PeerCloses, TimeWaitEnds
  <2> QED
    BY <1>8, <2>1, <2>2 DEF PeerStep, PeerNext
<1>9. CASE Handshake \/ StartSucceeds \/ LockAndReport
  BY <1>9, Stuttering DEF Handshake, StartSucceeds, LockAndReport
<1>10. CASE NextImage \/ SeriesDone \/ FallAsleep \/ WaitDone \/ PollEnds
  BY <1>10, Stuttering DEF NextImage, SeriesDone, FallAsleep, WaitDone, PollEnds
<1>11. CASE WaitFails \/ PollTimesOut \/ GetImages \/ GetImagesFails
  BY <1>11, Stuttering DEF WaitFails, PollTimesOut, GetImages, GetImagesFails, GiveUp
<1>12. CASE Unlock \/ Shutdown \/ JoinReporter \/ JoinAbortListener \/ Stop
  BY <1>12, Stuttering DEF Unlock, Shutdown, ShutdownListener, JoinReporter,
     JoinAbortListener, JoinListener, Stop
<1>13. CASE ReporterNext
  BY <1>13, Stuttering DEF ReporterNext, ReporterTryFails, ReporterEnds,
     ReportAcquired, SameImage, RefreshImage, ReportProgress
<1>14. CASE ListenerStep
  BY <1>14, Stuttering
     DEF ListenerStep, ListenerNext, ListenerReset, ListenerLock, ListenerBinds,
         ListenerBindThrows, ListenerPublishes, ListenerAccepts,
         ListenerAcceptFails, ListenerReceives, ListenerPeerGone,
         ListenerSetsAbort, ListenerCancelsWait, ListenerCloses
<1>15. CASE CameraNext
  BY <1>15, Stuttering DEF CameraNext, othersOfCamera
<1>16. CASE UNCHANGED vars
  BY <1>16, Stuttering DEF vars
<1> QED
  BY <1>1, <1>2, <1>3, <1>4, <1>5, <1>6, <1>7, <1>8, <1>9, <1>10, <1>11, <1>12,
     <1>13, <1>14, <1>15, <1>16 DEF Next, MainNext, Command!Next

\* Every behaviour of the three threads, the camera and the peer keeps the
\* promise of an image command: the images are saved first to last, "ok" means
\* all of them, "aborted" means somebody asked, nothing is saved afterwards.
THEOREM Implementation == Spec => ImplementsImageCommand
BY InitImplements, StepImplements, Invariance, PTL
   DEF Spec, ImplementsImageCommand, Command!Spec
-----------------------------------------------------------------------------
(* Who waits for whom, and for how long                                    *)

\* Where the descriptor, the abort socket and the peer are while the listener runs.
SocketInv ==
  /\ lpc \in {"reset", "lock", "bind", "publish"} => abort_socket_fd = Unpublished
  /\ lpc = "publish" => lsock = "listening"
  /\ lpc \in {"accept", "recv", "abort", "cancel", "close"} =>
       abort_socket_fd = ListenFd /\ lsock \in {"listening", "shut"}
  /\ lpc = "recv" => peer # "none"
  /\ mpc # "idle" => abort_socket_fd # 0

\* At each place where one thread waits for another, the other can go on: the mutex
\* of the handshake is held only by a listener about to give it back, the mutex of
\* the acquisition is free where it is locked and where the reporter is joined, and a
\* listener in recv() has a peer.
WaitsAreServed ==
  /\ mpc = "handshake" => HandshakeOver \/ lpc \in {"bind", "publish"}
  /\ lpc = "lock" => g_mtx_abort = "free"
  /\ mpc = "lock" => g_mtx = "free"
  /\ mpc = "joinR" => g_mtx = "free" /\ rpc # "none"
  /\ mpc = "joinL" => lpc # "none"
  /\ lpc = "recv" => peer # "none"

\* The listener will not wait in accept() again.
Released ==
  /\ lpc \in {"accept", "recv", "abort", "cancel", "close", "ended"}
  /\ lpc = "accept" => lsock = "shut"

AfterShutdown == {"joinR", "joinL"}

\* The turns a reporter has left that finds the mutex free.
ReporterLeft ==
  CASE rpc = "compare" -> 4
    [] rpc = "refresh" -> 3
    [] rpc = "progress" -> 2
    [] rpc = "try" -> 1
    [] OTHER -> 0

\* A descriptor that was published is one until the command is over; shutting it down
\* releases the listener, who stays released until he is joined; and while the
\* reporter is waited for, each of its steps brings its end nearer.
ThreadsAreReleased ==
  [][/\ abort_socket_fd # Unpublished /\ mpc # "idle" => abort_socket_fd' # Unpublished
     /\ Shutdown /\ abort_socket_fd # Unpublished => Released'
     /\ Released /\ mpc \in AfterShutdown => Released' \/ JoinAbortListener
     /\ mpc \in AfterShutdown /\ ReporterNext => ReporterLeft' < ReporterLeft]_vars

\* Publication, shutdown and the end of the listener keep descriptor and socket
\* together.
LEMMA SocketPreserved == IInv /\ SocketInv /\ [Next]_vars => SocketInv'
<1> SUFFICES ASSUME IInv, SocketInv, [Next]_vars PROVE SocketInv'
  OBVIOUS
<1>0. Unpublished \notin {0, ListenFd} /\ ListenFd # 0 /\ BindFailed # 0
  BY ListenerAssumption DEF Unpublished, BindFailed
<1> USE <1>0 DEF IInv, ThreadInv, AnswerInv, SocketInv, listenerVars, ListenerGoes, MainGoes
<1>1. ASSUME NEW n \in Images, ImageCommand(n) PROVE SocketInv'
  BY <1>1 DEF ImageCommand, SpawnListener
<1>2. CASE MainNext
  <2>1. CASE Shutdown
    BY <2>1 DEF Shutdown, ShutdownListener
  <2>2. CASE JoinAbortListener
    BY <2>2 DEF JoinAbortListener, JoinListener
  <2>3. CASE ~Shutdown /\ ~JoinAbortListener
    BY <1>2, <2>3
       DEF MainNext, Handshake, StartSucceeds, StartFails, LockAndReport,
           NextImage, SeriesDone, FallAsleep, WaitDone, WaitFails, PollEnds,
           PollTimesOut, GetImages, GetImagesFails, SaveImage, SaveFails, GiveUp,
           Unlock, JoinReporter, AnswerOk, AnswerFailure, Stop, Return
  <2> QED
    BY <2>1, <2>2, <2>3
<1>3. CASE ListenerStep
  BY <1>3
     DEF ListenerStep, ListenerNext, ListenerReset, ListenerLock, ListenerBinds,
         ListenerBindThrows, ListenerPublishes, ListenerAccepts, ListenerAcceptFails,
         ListenerReceives, ListenerPeerGone, ListenerSetsAbort, ListenerCancelsWait,
         ListenerCloses
<1>4. CASE PeerStep
  BY <1>4 DEF PeerStep, PeerNext, PeerConnects, PeerSends, PeerCloses, TimeWaitEnds
<1>5. CASE ReporterNext \/ CameraNext \/ UNCHANGED vars
  BY <1>5 DEF ReporterNext, ReporterTryFails, ReporterEnds, ReportAcquired, SameImage,
              RefreshImage, ReportProgress, CameraNext, othersOfCamera, vars
<1> QED
  BY <1>1, <1>2, <1>3, <1>4, <1>5 DEF Next

\* With the descriptor published no listener is left in accept().
LEMMA ShutdownReleases ==
  ASSUME IInv, SocketInv, Shutdown, abort_socket_fd # Unpublished
  PROVE  Released'
<1>1. lpc \in ListenerPcs /\ lpc # "none"
  BY DEF IInv, TypeOK, ListenerTypeOK, ThreadInv, Shutdown
<1> QED
  BY <1>1 DEF Shutdown, ShutdownListener, SocketInv, Released, ListenerPcs

\* Nobody puts a released listener back.
LEMMA ReleasedStays ==
  ASSUME IInv, Released, mpc \in AfterShutdown, [Next]_vars
  PROVE  Released' \/ JoinAbortListener
<1> USE DEF Released, AfterShutdown, listenerVars, ListenerGoes, MainGoes
<1>1. ASSUME NEW n \in Images, ImageCommand(n) PROVE FALSE
  BY <1>1 DEF ImageCommand
<1>2. CASE MainNext
  BY <1>2
     DEF MainNext, Handshake, StartSucceeds, StartFails, LockAndReport,
         NextImage, SeriesDone, FallAsleep, WaitDone, WaitFails, PollEnds,
         PollTimesOut, GetImages, GetImagesFails, SaveImage, SaveFails, GiveUp,
         Unlock, Shutdown, JoinReporter, AnswerOk, AnswerFailure, Stop, Return
<1>3. CASE ListenerStep
  BY <1>3
     DEF ListenerStep, ListenerNext, ListenerReset, ListenerLock, ListenerBinds,
         ListenerBindThrows, ListenerPublishes, ListenerAccepts, ListenerAcceptFails,
         ListenerReceives, ListenerPeerGone, ListenerSetsAbort, ListenerCancelsWait,
         ListenerCloses
<1>4. CASE PeerStep
  BY <1>4 DEF PeerStep, PeerNext, PeerConnects, PeerSends, PeerCloses, TimeWaitEnds
<1>5. CASE ReporterNext \/ CameraNext \/ UNCHANGED vars
  BY <1>5 DEF ReporterNext, ReporterTryFails, ReporterEnds, ReportAcquired, SameImage,
              RefreshImage, ReportProgress, CameraNext, othersOfCamera, vars
<1> QED
  BY <1>1, <1>2, <1>3, <1>4, <1>5 DEF Next

\* A published descriptor is overwritten by the next command only.
LEMMA PublishedStays ==
  ASSUME SocketInv, [Next]_vars, mpc # "idle", abort_socket_fd # Unpublished
  PROVE  abort_socket_fd' # Unpublished
<1>0. Unpublished # ListenFd /\ BindFailed # Unpublished
  BY ListenerAssumption DEF Unpublished, BindFailed
<1> USE <1>0 DEF listenerVars, ListenerGoes, MainGoes
<1>1. ASSUME NEW n \in Images, ImageCommand(n) PROVE FALSE
  BY <1>1 DEF ImageCommand
<1>2. CASE MainNext
  BY <1>2
     DEF MainNext, Handshake, StartSucceeds, StartFails, LockAndReport,
         NextImage, SeriesDone, FallAsleep, WaitDone, WaitFails, PollEnds,
         PollTimesOut, GetImages, GetImagesFails, SaveImage, SaveFails, GiveUp,
         Unlock, Shutdown, ShutdownListener, JoinReporter, JoinAbortListener,
         JoinListener, AnswerOk, AnswerFailure, Stop, Return
<1>3. CASE ListenerStep
  BY <1>3
     DEF ListenerStep, ListenerNext, ListenerReset, ListenerLock, ListenerBinds,
         ListenerBindThrows, ListenerPublishes, ListenerAccepts, ListenerAcceptFails,
         ListenerReceives, ListenerPeerGone, ListenerSetsAbort, ListenerCancelsWait,
         ListenerCloses
<1>4. CASE PeerStep
  BY <1>4 DEF PeerStep, PeerNext, PeerConnects, PeerSends, PeerCloses, TimeWaitEnds
<1>5. CASE ReporterNext \/ CameraNext \/ UNCHANGED vars
  BY <1>5 DEF ReporterNext, ReporterTryFails, ReporterEnds, ReportAcquired, SameImage,
              RefreshImage, ReportProgress, CameraNext, othersOfCamera, vars
<1> QED
  BY <1>1, <1>2, <1>3, <1>4, <1>5 DEF Next

\* The mutex is free once the main thread has gone on to the joins, so that the
\* reporter's next try ends it.
LEMMA ReporterRunsOut ==
  ASSUME IInv, mpc \in AfterShutdown, ReporterNext
  PROVE  ReporterLeft' < ReporterLeft
<1>1. g_mtx = "free"
  BY DEF IInv, TypeOK, ScanTypeOK, ThreadInv, Holding, InImage, AfterShutdown
<1>2. CASE ReporterEnds
  BY <1>2 DEF ReporterEnds, ReporterGoes, ReporterLeft
<1>3. CASE ReportAcquired \/ SameImage \/ RefreshImage \/ ReportProgress
  BY <1>3 DEF ReportAcquired, SameImage, RefreshImage, ReportProgress, ReporterGoes,
              ReporterLeft
<1>4. ~ReporterTryFails
  BY <1>1 DEF ReporterTryFails
<1> QED
  BY <1>2, <1>3, <1>4 DEF ReporterNext

\* What no thread of a series is to wait for in vain: mutexes, joins and recv(), and,
\* when the descriptor was published in time, accept(). With the threads running and a
\* peer that says something, this is PublishedHandshakeReturns
\* (get_rta_scan.cpp:55, 341-343).
THEOREM WaitsEnd == Spec => []WaitsAreServed /\ ThreadsAreReleased
<1>1. Init => SocketInv
  BY DEF Init, ListenerInit, SocketInv
<1>2. Spec => []SocketInv
  BY <1>1, Invariance, SocketPreserved, PTL DEF Spec
<1>3. IInv /\ SocketInv => WaitsAreServed
  <2> SUFFICES ASSUME IInv, SocketInv PROVE WaitsAreServed
    OBVIOUS
  <2>1. g_mtx \in {"free", "main"} /\ g_mtx_abort \in {"free", "listener"}
    BY DEF IInv, TypeOK, ScanTypeOK, ListenerTypeOK
  <2>2. mpc = "handshake" => HandshakeOver \/ lpc \in {"bind", "publish"}
    BY <2>1 DEF IInv, ThreadInv, SocketInv, HandshakeOver
  <2>3. lpc = "lock" => g_mtx_abort = "free"
    BY <2>1 DEF IInv, ThreadInv
  <2>4. /\ mpc = "lock" => g_mtx = "free"
        /\ mpc = "joinR" => g_mtx = "free" /\ rpc # "none"
        /\ mpc = "joinL" => lpc # "none"
    BY <2>1 DEF IInv, ThreadInv, Holding, InImage, BeforeLoop
  <2> QED
    BY <2>2, <2>3, <2>4 DEF WaitsAreServed, SocketInv
<1>4. IInv /\ SocketInv /\ [Next]_vars =>
        [/\ abort_socket_fd # Unpublished /\ mpc # "idle" => abort_socket_fd' # Unpublished
         /\ Shutdown /\ abort_socket_fd # Unpublished => Released'
         /\ Released /\ mpc \in AfterShutdown => Released' \/ JoinAbortListener
         /\ mpc \in AfterShutdown /\ ReporterNext => ReporterLeft' < ReporterLeft]_vars
  BY PublishedStays, ShutdownReleases, ReleasedStays, ReporterRunsOut
<1> QED
  BY <1>2, <1>3, <1>4, Invariance, PTL DEF Spec, ThreadsAreReleased

-----------------------------------------------------------------------------
(* What becomes of a wait that was cancelled                               *)

\* A listener that cancels has set the flag before, and it stays set while the main
\* thread has not noticed.
CancelInv ==
  /\ lpc \in {"cancel", "close"} => abort_set = 1
  /\ waiter = "cancelled" => abort_set = 1 /\ lpc \in {"close", "ended"}

\* On the way from the cancelled wait to its answer.
Aborting ==
  /\ outcome = "waitfailed" /\ abort_set = 1
  /\ lpc \in {"close", "ended", "none"}
  /\ mpc \in {"unlock", "shutdown", "joinR", "joinL", "answer"}

\* A cancelled wait stays one until it fails; from there nobody lowers the flag, and
\* the way to the answer is not left, until the client has been told "aborted".
AbortIsKept ==
  [][/\ waiter = "cancelled" => waiter' = "cancelled" \/ (WaitFails /\ Aborting')
     /\ Aborting => Aborting' \/ (AnswerFailure /\ result' = "aborted")]_vars

\* The flag is lowered only at the start of the next listener.
LEMMA CancelPreserved == IInv /\ CancelInv /\ [Next]_vars => CancelInv'
<1> SUFFICES ASSUME IInv, CancelInv, [Next]_vars PROVE CancelInv'
  OBVIOUS
<1> USE DEF CancelInv, listenerVars, cameraVars, ListenerGoes, MainGoes
<1>1. waiter # "none" <=> mpc = "asleep"
  BY DEF IInv, CameraInv
<1>2. ASSUME NEW n \in Images, ImageCommand(n) PROVE CancelInv'
  BY <1>1, <1>2 DEF ImageCommand, SpawnListener
<1>3. CASE MainNext
  <2>1. CASE JoinAbortListener
    BY <1>1, <2>1 DEF JoinAbortListener, JoinListener
  <2>2. CASE ~JoinAbortListener
    BY <1>3, <2>2
       DEF MainNext, Handshake, StartSucceeds, StartFails, LockAndReport, NextImage, SeriesDone,
           FallAsleep, WaitDone, WaitFails, PollEnds, PollTimesOut, GetImages,
           GetImagesFails, SaveImage, SaveFails, Unlock, Shutdown, JoinReporter,
           AnswerOk, AnswerFailure, Stop, Return, StartAcquisition, AbortAcquisition,
           EnterWait, WaitSucceeds, WaitReturnsError, ShutdownListener, GiveUp
  <2> QED
    BY <2>1, <2>2
<1>4. CASE ListenerStep
  <2>1. waiter' = waiter \/ ListenerCancelsWait
    BY <1>4
       DEF ListenerStep, ListenerNext, ListenerReset, ListenerLock, ListenerBinds,
           ListenerBindThrows, ListenerPublishes, ListenerAccepts, ListenerAcceptFails,
           ListenerReceives, ListenerPeerGone, ListenerSetsAbort, ListenerCloses
  <2>2. CASE ListenerCancelsWait
    BY <2>2 DEF ListenerCancelsWait, CancelWait
  <2>3. CASE ~ListenerCancelsWait
    BY <1>4, <2>1, <2>3
       DEF ListenerStep, ListenerNext, ListenerReset, ListenerLock, ListenerBinds,
           ListenerBindThrows, ListenerPublishes, ListenerAccepts, ListenerAcceptFails,
           ListenerReceives, ListenerPeerGone, ListenerSetsAbort, ListenerCloses
  <2> QED
    BY <2>2, <2>3
<1>5. CASE PeerStep
  BY <1>5 DEF PeerStep, PeerNext, PeerConnects, PeerSends, PeerCloses, TimeWaitEnds
<1>6. CASE ReporterNext \/ CameraNext \/ UNCHANGED vars
  BY <1>6 DEF ReporterNext, ReporterTryFails, ReporterEnds, ReportAcquired, SameImage,
         RefreshImage, ReportProgress, CameraNext, Expose, Transfer, othersOfCamera,
         vars
<1> QED
  BY <1>2, <1>3, <1>4, <1>5, <1>6 DEF Next

\* A cancelled wait can only fail.
LEMMA CancelledFails ==
  ASSUME IInv, CancelInv, waiter = "cancelled", [Next]_vars
  PROVE  waiter' = "cancelled" \/ (WaitFails /\ Aborting')
<1> USE DEF listenerVars, cameraVars, ListenerGoes, MainGoes
<1>1. mpc = "asleep"
  BY DEF IInv, CameraInv
<1>2. ASSUME NEW n \in Images, ImageCommand(n) PROVE FALSE
  BY <1>1, <1>2 DEF ImageCommand
<1>3. CASE MainNext
  <2>1. ~WaitDone
    BY DEF WaitDone, WaitSucceeds
  <2>2. WaitFails
    BY <1>1, <1>3, <2>1
       DEF MainNext, Handshake, StartSucceeds, StartFails, LockAndReport, NextImage, SeriesDone,
           FallAsleep, PollEnds, PollTimesOut, GetImages, GetImagesFails, SaveImage,
           SaveFails, Unlock, Shutdown, JoinReporter, JoinAbortListener, AnswerOk,
           AnswerFailure, Stop, Return, GiveUp
  <2> QED
    BY <2>2 DEF WaitFails, GiveUp, CancelInv, Aborting
<1>4. ASSUME waiter' = waiter PROVE waiter' = "cancelled"
  BY <1>4
<1>5. ListenerStep => waiter' = waiter
  <2>1. CancelWait => waiter' = waiter
    BY DEF CancelWait
  <2> QED
    BY <2>1
       DEF ListenerStep, ListenerNext, ListenerReset, ListenerLock, ListenerBinds,
           ListenerBindThrows, ListenerPublishes, ListenerAccepts, ListenerAcceptFails,
           ListenerReceives, ListenerPeerGone, ListenerSetsAbort, ListenerCancelsWait,
           ListenerCloses
<1>6. PeerStep => waiter' = waiter
  BY DEF PeerStep, PeerNext, PeerConnects, PeerSends, PeerCloses, TimeWaitEnds
<1>7. ReporterNext \/ CameraNext \/ UNCHANGED vars => waiter' = waiter
  BY DEF ReporterNext, ReporterTryFails, ReporterEnds, ReportAcquired, SameImage,
         RefreshImage, ReportProgress, CameraNext, Expose, Transfer, othersOfCamera,
         vars
<1> QED
  BY <1>2, <1>3, <1>4, <1>5, <1>6, <1>7 DEF Next

\* Nobody gets in the way of the answer.
LEMMA AbortingStays ==
  ASSUME Aborting, [Next]_vars
  PROVE  Aborting' \/ (AnswerFailure /\ result' = "aborted")
<1> USE DEF Aborting, listenerVars, ListenerGoes, MainGoes
<1>1. ASSUME NEW n \in Images, ImageCommand(n) PROVE FALSE
  BY <1>1 DEF ImageCommand
<1>2. CASE MainNext
  <2>1. CASE Unlock \/ Shutdown \/ JoinReporter \/ JoinAbortListener
    <3>1. UNCHANGED <<outcome, abort_set>>
      BY <2>1 DEF Unlock, Shutdown, ShutdownListener, JoinReporter, JoinAbortListener,
                  JoinListener, scanVars
    <3>2. lpc' \in {"close", "ended", "none"}
      BY <2>1 DEF Unlock, Shutdown, ShutdownListener, JoinReporter, JoinAbortListener,
                  JoinListener
    <3>3. mpc' \in {"shutdown", "joinR", "joinL", "answer"}
      BY <2>1 DEF Unlock, Shutdown, JoinReporter, JoinAbortListener
    <3> QED
      BY <3>1, <3>2, <3>3
  <2>2. CASE AnswerFailure
    BY <2>2 DEF AnswerFailure, SendDone
  <2>3. CASE ~(Unlock \/ Shutdown \/ JoinReporter \/ JoinAbortListener \/ AnswerFailure)
    BY <1>2, <2>3
       DEF MainNext, Handshake, StartSucceeds, StartFails, LockAndReport, NextImage, SeriesDone,
           FallAsleep, WaitDone, WaitFails, PollEnds, PollTimesOut, GetImages,
           GetImagesFails, SaveImage, SaveFails, AnswerOk, Stop, Return, GiveUp
  <2> QED
    BY <2>1, <2>2, <2>3
<1>3. CASE ListenerStep
  <2>1. UNCHANGED <<mpc, outcome, abort_set>>
    BY <1>3
       DEF ListenerStep, ListenerNext, ListenerReset, ListenerLock, ListenerBinds,
           ListenerBindThrows, ListenerPublishes, ListenerAccepts, ListenerAcceptFails,
           ListenerReceives, ListenerPeerGone, ListenerSetsAbort, ListenerCancelsWait,
           ListenerCloses, scanVars
  <2>2. lpc' = "ended"
    BY <1>3
       DEF ListenerStep, ListenerNext, ListenerReset, ListenerLock, ListenerBinds,
           ListenerBindThrows, ListenerPublishes, ListenerAccepts, ListenerAcceptFails,
           ListenerReceives, ListenerPeerGone, ListenerSetsAbort, ListenerCancelsWait,
           ListenerCloses
  <2> QED
    BY <2>1, <2>2
<1>4. PeerStep => UNCHANGED <<mpc, outcome, abort_set, lpc>>
  BY DEF PeerStep, PeerNext, PeerConnects, PeerSends, PeerCloses, TimeWaitEnds,
         scanVars
<1>5. ReporterNext \/ CameraNext \/ UNCHANGED vars
        => UNCHANGED <<mpc, outcome, abort_set, lpc>>
  BY DEF ReporterNext, ReporterTryFails, ReporterEnds, ReportAcquired, SameImage,
         RefreshImage, ReportProgress, CameraNext, Expose, Transfer, othersOfCamera,
         vars, scanVars
<1> QED
  BY <1>1, <1>2, <1>3, <1>4, <1>5 DEF Next

\* An abort that reached the sleeping main thread is on its way to the answer "aborted"
\* and to no other (get_rta_scan.cpp:117-151): with the threads
\* running, DeliveredAbortIsAnswered.
THEOREM CancelledIsAborted == Spec => []CancelInv /\ AbortIsKept
<1>1. Init => CancelInv
  BY DEF Init, CameraInit, ListenerInit, CancelInv
<1>2. Spec => []CancelInv
  BY <1>1, Invariance, CancelPreserved, PTL DEF Spec
<1>3. IInv /\ CancelInv /\ [Next]_vars =>
        [/\ waiter = "cancelled" => waiter' = "cancelled" \/ (WaitFails /\ Aborting')
         /\ Aborting => Aborting' \/ (AnswerFailure /\ result' = "aborted")]_vars
  BY CancelledFails, AbortingStays
<1> QED
  BY <1>2, <1>3, Invariance, PTL DEF Spec, AbortIsKept

-----------------------------------------------------------------------------
(* How long a series takes                                                 *)

\* The steps the main thread has left: six for each image that is not saved yet, and
\* the way out.
StepsLeft ==
  CASE mpc \in {"handshake", "start", "lock", "next"} ->
         6 * (num_images - curimg) +
           (CASE mpc = "handshake" -> 11 [] mpc = "start" -> 10
              [] mpc = "lock" -> 9 [] mpc = "next" -> 8)
    [] mpc \in InImage ->
         6 * (num_images - curimg) +
           (CASE mpc = "wait" -> 7 [] mpc = "asleep" -> 6 [] mpc = "poll" -> 5
              [] mpc = "get" -> 4 [] mpc = "save" -> 3)
    [] mpc = "unlock" -> 7
    [] mpc = "shutdown" -> 6
    [] mpc = "joinR" -> 5
    [] mpc = "joinL" -> 4
    [] mpc = "answer" -> 3
    [] mpc = "stop" -> 2
    [] mpc = "return" -> 1
    [] mpc = "idle" -> 0

HasStepsLeft == StepsLeft \in Nat

\* Every step of the main thread takes something off, and only the next command puts
\* something on.
StepsRunOut ==
  [][/\ MainNext => StepsLeft' < StepsLeft
     /\ \/ StepsLeft' <= StepsLeft
        \/ \E n \in Images : ImageCommand(n) /\ StepsLeft' <= 6 * n + 11]_vars

\* The numbers of the loop.
LEMMA LoopNumbers ==
  ASSUME IInv
  PROVE  num_images \in Nat /\ curimg \in Nat /\ curimg <= num_images
BY MaxImagesAssumption DEF IInv, TypeOK, ScanTypeOK, LoopInv, Images

\* Each turn of the loop saves an image, and every other way leads out of it.
LEMMA MainRunsOut ==
  ASSUME IInv, MainNext
  PROVE  StepsLeft' < StepsLeft
<1>0. /\ num_images \in Nat /\ curimg \in Nat /\ curimg <= num_images
      /\ mpc \in InImage => curimg < num_images
  BY LoopNumbers DEF IInv, LoopInv
<1> USE <1>0 DEF StepsLeft, InImage, scanVars, MainGoes
<1>1. CASE Handshake \/ StartSucceeds \/ StartFails \/ LockAndReport
  BY <1>1 DEF Handshake, StartSucceeds, StartFails, LockAndReport
<1>2. CASE NextImage \/ SeriesDone \/ FallAsleep \/ WaitDone \/ PollEnds \/ GetImages
  BY <1>2 DEF NextImage, SeriesDone, FallAsleep, WaitDone, PollEnds, GetImages
<1>3. CASE WaitFails \/ PollTimesOut \/ GetImagesFails \/ SaveFails
  BY <1>3 DEF WaitFails, PollTimesOut, GetImagesFails, SaveFails, GiveUp
<1>4. CASE SaveImage
  BY <1>4 DEF SaveImage
<1>5. CASE \/ Unlock \/ Shutdown \/ JoinReporter \/ JoinAbortListener
           \/ AnswerOk \/ AnswerFailure \/ Stop \/ Return
  BY <1>5 DEF Unlock, Shutdown, JoinReporter, JoinAbortListener, AnswerOk, AnswerFailure,
              Stop, Return
<1> QED
  BY <1>1, <1>2, <1>3, <1>4, <1>5 DEF MainNext

\* A command of n images takes at most 6n + 11 steps of the main thread, whatever
\* the driver, the client and the other threads do.
THEOREM SeriesIsBounded == Spec => [](StepsLeft \in Nat) /\ StepsRunOut
<1>0. HasStepsLeft => StepsLeft \in Nat
  BY DEF HasStepsLeft
<1>1. IInv => HasStepsLeft
  <2> SUFFICES ASSUME IInv PROVE StepsLeft \in Nat
    BY DEF HasStepsLeft
  <2>1. mpc \in MainPcs
    BY DEF IInv, TypeOK, ScanTypeOK
  <2> QED
    BY <2>1, LoopNumbers DEF StepsLeft, MainPcs, InImage
<1>2. IInv /\ HasStepsLeft /\ HasStepsLeft' /\ [Next]_vars =>
        [/\ MainNext => StepsLeft' < StepsLeft
         /\ \/ StepsLeft' <= StepsLeft
            \/ \E n \in Images : ImageCommand(n) /\ StepsLeft' <= 6 * n + 11]_vars
  <2> SUFFICES ASSUME IInv, HasStepsLeft, HasStepsLeft', Next
               PROVE  /\ MainNext => StepsLeft' < StepsLeft
                      /\ \/ StepsLeft' <= StepsLeft
                         \/ \E n \in Images :
                              ImageCommand(n) /\ StepsLeft' <= 6 * n + 11
    OBVIOUS
  <2>1. CASE MainNext
    <3>1. StepsLeft' < StepsLeft
      BY <2>1, MainRunsOut
    <3> QED
      BY <3>1 DEF HasStepsLeft
  <2>2. ASSUME NEW n \in Images, ImageCommand(n) PROVE StepsLeft' <= 6 * n + 11
    <3>1. n \in Nat
      BY MaxImagesAssumption DEF Images
    <3>2. mpc' = "handshake" /\ num_images' = n /\ curimg' = 0
      BY <2>2 DEF ImageCommand, MainGoes
    <3>3. StepsLeft' = 6 * (n - 0) + 11
      BY <3>1, <3>2 DEF StepsLeft, InImage
    <3> QED
      BY <3>1, <3>3
  <2>3. CASE ReporterNext \/ ListenerStep \/ PeerStep \/ CameraNext
    <3>1. UNCHANGED <<mpc, num_images, curimg>>
      BY <2>3 DEF ReporterNext, ReporterTryFails, ReporterEnds, ReportAcquired, SameImage,
         RefreshImage, ReportProgress, ListenerStep, PeerStep, CameraNext, othersOfCamera,
         scanVars
    <3>2. StepsLeft' = StepsLeft
      BY <3>1 DEF StepsLeft
    <3> QED
      BY <2>1, <3>2 DEF HasStepsLeft
  <2> QED
    BY <2>1, <2>2, <2>3 DEF Next
<1> QED
  BY <1>0, <1>1, <1>2, Invariance, PTL DEF Spec, StepsRunOut
=============================================================================
