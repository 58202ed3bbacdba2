-------------------------- MODULE SingleScanProofs --------------------------
(***************************************************************************)
(* Proofs about SingleScan, over any number of commands: its types, its    *)
(* safety properties, that it implements ImageCommand for one image, and   *)
(* that no thread waits for one that cannot go on and a cancelled wait     *)
(* ends in "aborted".                                                      *)
(*                                                                         *)
(* The single scan unlocks and shuts down before it fetches the data, and  *)
(* looks at the error of the fetch only after two joins: IInv carries from *)
(* the wait to the save what makes that harmless.  It has one part for the *)
(* threads and mutexes, one for the exposure and the frame, one for the    *)
(* answer, one for the abort flag and one for what follows a "done".       *)
(***************************************************************************)
EXTENDS SingleScan, TLAPS

BeforeExposure == {"handshake", "start"}
Exposing == {"lock", "wait", "asleep"}
Holding == {"wait", "asleep", "unlock"}
Reporting == Holding \cup {"get", "joinR"}
AfterJoins == {"answer", "announce", "save", "ok", "return"}

\* The threads and the mutexes at each point of the main thread.
ThreadInv ==
  /\ g_mtx = "main" <=> mpc \in Holding
  /\ mpc \in Reporting => rpc # "none"
  /\ mpc = "shutdown" => (rpc = "none" <=> outcome = "startfailed")
  /\ rpc # "none" => mpc \in Reporting \cup {"shutdown"}
  /\ lpc = "none" <=> mpc \in {"idle"} \cup AfterJoins
  /\ g_mtx_abort = "listener" <=> lpc \in {"bind", "publish"}
  /\ lpc \in {"none", "reset", "lock", "bind", "ended"} => lsock = "closed"

\* The exposure: an event in the wait means that it has ended, nothing starts
\* it again, and what is in the buffer after the fetch is its frame.
ExposureInv ==
  /\ available = 0
  /\ acquiring => mpc \in Exposing
  /\ waiter # "none" <=> mpc = "asleep"
  /\ mpc \in Exposing /\ event => exposed = 1 /\ ~acquiring
  /\ outcome \in {"exposed", "ok"} => exposed = 1
  /\ outcome = "exposed" /\ mpc \in {"joinR", "joinL", "announce", "save"} =>
       img_buffer = 1
  /\ saved = IF outcome = "ok" THEN <<1>> ELSE <<>>

\* How the outcome and the answer go with each place.
AnswerInv ==
  /\ mpc \in BeforeExposure \cup Exposing => outcome = "none"
  /\ mpc = "unlock" => outcome \in {"exposed", "waitfailed"}
  /\ mpc = "shutdown" => outcome \in {"exposed", "waitfailed", "startfailed"}
  /\ mpc = "joinR" => outcome \in {"exposed", "waitfailed", "getfailed"}
  /\ mpc = "joinL" =>
       outcome \in {"exposed", "waitfailed", "getfailed", "startfailed"}
  /\ mpc = "answer" => outcome \in {"waitfailed", "getfailed"}
  /\ mpc \in {"get", "announce", "save"} => outcome = "exposed"
  /\ mpc = "ok" => outcome = "ok"
  /\ mpc = "return" => outcome # "none" /\ dones = 1
  /\ mpc = "idle" /\ outcome # "none" => dones = 1
  /\ mpc \in {"shutdown", "joinL"} =>
       dones = IF outcome = "startfailed" THEN 1 ELSE 0
  /\ mpc \notin {"idle", "return", "shutdown", "joinL"} => dones = 0

\* The flag of the abort belongs to this command.
AbortInv ==
  /\ lpc \in {"abort", "cancel", "close"} => peer = "sent"
  /\ lpc # "reset" /\ abort_set = 1 => peer = "sent"

\* Once "done" went out, no reporter is left, and only the way back to idle.
DoneInv ==
  sent = "done" =>
    /\ rpc = "none"
    /\ mpc \in {"shutdown", "joinL", "return", "idle"}
    /\ mpc \in {"shutdown", "joinL"} => outcome = "startfailed"

IInv == TypeOK /\ ThreadInv /\ ExposureInv /\ AnswerInv /\ AbortInv /\ DoneInv

-----------------------------------------------------------------------------
\* The daemon starts with no thread, no exposure and nothing answered.
LEMMA InitIInv == Init => IInv
<1> SUFFICES ASSUME Init PROVE IInv
  OBVIOUS
<1> USE DEF Init, CameraInit, ListenerInit
<1>1. CameraTypeOK
  <2>1. acquiring \in BOOLEAN /\ event \in BOOLEAN
    BY Zenon
  <2>2. exposed \in 0..FrameCap /\ available \in 0..exposed
    BY CameraAssumption
  <2> QED
    BY <2>1, <2>2 DEF CameraTypeOK
<1>2. ListenerTypeOK
  BY DEF ListenerTypeOK, ListenerPcs
<1>3. TypeOK
  BY <1>1, <1>2 DEF TypeOK, MainPcs, Outcomes, Results, MessageTypes
<1>4. ThreadInv /\ ExposureInv /\ AnswerInv /\ AbortInv /\ DoneInv
  BY DEF ThreadInv, ExposureInv, AnswerInv, AbortInv, DoneInv, Holding,
         Reporting, Exposing, BeforeExposure, AfterJoins
<1> QED
  BY <1>3, <1>4 DEF IInv

\* The camera's variables keep their types.
LEMMA CameraTypePreserved == IInv /\ [Next]_vars => CameraTypeOK'
<1> SUFFICES ASSUME IInv, [Next]_vars PROVE CameraTypeOK'
  OBVIOUS
<1> USE CameraAssumption DEF IInv, TypeOK, CameraTypeOK, cameraVars
<1>1. ASSUME NEW ms \in {0, 1}, ImageCommand(ms) PROVE CameraTypeOK'
  BY <1>1 DEF ImageCommand
<1>2. CASE StartSucceeds \/ StartFails \/ AnswerGetFailed \/ SaveFails
  <2> USE DEF StartSucceeds, StartFails, AnswerGetFailed, SaveFails,
              StartAcquisition, AbortAcquisition
  <2>1. acquiring' \in BOOLEAN /\ event' \in BOOLEAN
    BY <1>2, Zenon
  <2>2. exposed' \in 0..FrameCap /\ available' \in 0..exposed'
    BY <1>2
  <2>3. waiter' \in {"none", "asleep", "cancelled"}
    BY <1>2
  <2> QED
    BY <2>1, <2>2, <2>3
<1>3. CASE FallAsleep \/ WaitDone \/ WaitFails
  BY <1>3 DEF FallAsleep, WaitDone, WaitFails, EnterWait, WaitSucceeds,
              WaitReturnsError
<1>4. CASE \/ Handshake \/ LockAndReport \/ Unlock \/ Shutdown
           \/ GetAcquiredData \/ GetAcquiredDataFails \/ JoinReporter
           \/ JoinAbortListener \/ AnswerWaitFailed \/ Announce \/ SaveImage
           \/ AnswerOk \/ Return
  BY <1>4 DEF Handshake, LockAndReport, Unlock, Shutdown, GetAcquiredData,
              GetAcquiredDataFails, JoinReporter, JoinAbortListener,
              AnswerWaitFailed, Announce, SaveImage, AnswerOk, Return
<1>5. CASE ReporterNext
  BY <1>5 DEF ReporterNext, ReporterSkipsBias, ReporterTryFails, ReporterEnds,
              ReportProgress, ReporterFrame
<1>6. CASE ListenerStep
  <2>1. CASE ListenerCancelsWait
    BY <2>1 DEF ListenerCancelsWait, CancelWait
  <2> QED
    BY <1>6, <2>1
       DEF ListenerStep, ListenerNext, ListenerReset, ListenerLock,
           ListenerBinds, ListenerBindThrows, ListenerPublishes,
           ListenerAccepts, ListenerAcceptFails, ListenerReceives,
           ListenerPeerGone, ListenerSetsAbort, ListenerCloses
<1>7. CASE PeerStep
  BY <1>7 DEF PeerStep, PeerNext, PeerConnects, PeerSends, PeerCloses,
              TimeWaitEnds
<1>8. CASE CameraNext
  <2>1. acquiring' \in BOOLEAN /\ event' \in BOOLEAN
    BY <1>8, Zenon DEF CameraNext, ExposeOnce
  <2>2. exposed' \in 0..FrameCap /\ available' \in 0..exposed'
    BY <1>8 DEF CameraNext, ExposeOnce, ExposureInv
  <2>3. waiter' = waiter
    BY <1>8 DEF CameraNext, ExposeOnce
  <2> QED
    BY <2>1, <2>2, <2>3
<1>9. CASE UNCHANGED vars
  BY <1>9 DEF vars
<1> QED
  BY <1>1, <1>2, <1>3, <1>4, <1>5, <1>6, <1>7, <1>8, <1>9 DEF Next, MainNext

\* So do the listener's.
LEMMA ListenerTypePreserved == IInv /\ [Next]_vars => ListenerTypeOK'
<1> SUFFICES ASSUME IInv, [Next]_vars PROVE ListenerTypeOK'
  OBVIOUS
<1> USE DEF IInv, TypeOK, ListenerTypeOK, ListenerPcs, ListenerGoes, listenerVars
<1>1. ASSUME NEW ms \in {0, 1}, ImageCommand(ms) PROVE ListenerTypeOK'
  BY <1>1 DEF ImageCommand, SpawnListener
<1>2. CASE MainNext
  BY <1>2 DEF MainNext, Handshake, StartSucceeds, StartFails, LockAndReport,
       FallAsleep, WaitDone, WaitFails, Unlock, Shutdown, ShutdownListener,
       GetAcquiredData, GetAcquiredDataFails, JoinReporter, JoinAbortListener,
       JoinListener, AnswerWaitFailed, AnswerGetFailed, Announce, SaveImage,
       SaveFails, AnswerOk, Return
<1>3. CASE ReporterNext
  BY <1>3 DEF ReporterNext, ReporterSkipsBias, ReporterTryFails, ReporterEnds,
              ReportProgress, ReporterFrame
<1>4. CASE ListenerStep
  BY <1>4
       DEF ListenerStep, ListenerNext, ListenerReset, ListenerLock,
           ListenerBinds, ListenerBindThrows, ListenerPublishes,
           ListenerAccepts, ListenerAcceptFails, ListenerReceives,
           ListenerPeerGone, ListenerSetsAbort, ListenerCancelsWait,
           ListenerCloses
<1>5. CASE PeerStep
  BY <1>5 DEF PeerStep, PeerNext, PeerConnects, PeerSends, PeerCloses,
              TimeWaitEnds
<1>6. CASE CameraNext \/ UNCHANGED vars
  BY <1>6 DEF CameraNext, othersOfCamera, vars
<1> QED
  BY <1>1, <1>2, <1>3, <1>4, <1>5, <1>6 DEF Next

\* And so do those of the scan: it saves one file and answers once.
LEMMA TypePreserved == IInv /\ [Next]_vars => TypeOK'
<1> SUFFICES ASSUME IInv, [Next]_vars PROVE TypeOK'
  OBVIOUS
<1>1. CameraTypeOK' /\ ListenerTypeOK'
  BY CameraTypePreserved, ListenerTypePreserved
<1> DEFINE Rest ==
  /\ mpc \in MainPcs
  /\ exposure_ms \in {0, 1}
  /\ img_buffer \in {0, 1}
  /\ saved \in {<<>>, <<0>>, <<1>>}
  /\ outcome \in Outcomes
  /\ result \in Results
  /\ dones \in {0, 1}
  /\ g_mtx \in {"free", "main"}
  /\ rpc \in {"none", "try", "send", "ended"}
  /\ reported \in BOOLEAN
  /\ sent \in MessageTypes
<1>2. Rest'
  <2> USE DEF IInv, TypeOK, ExposureInv, AnswerInv, BeforeExposure, Exposing,
              MainPcs, Outcomes, Results, MessageTypes, scanVars, reporterVars,
              MainGoes, SendDone
  <2>1. ASSUME NEW ms \in {0, 1}, ImageCommand(ms) PROVE Rest'
    BY <2>1 DEF ImageCommand
  <2>2. CASE Handshake \/ StartSucceeds \/ StartFails \/ LockAndReport
    <3>1. reported' \in BOOLEAN
      BY <2>2, Zenon DEF Handshake, StartSucceeds, StartFails, LockAndReport
    <3> QED
      BY <2>2, <3>1 DEF Handshake, StartSucceeds, StartFails, LockAndReport
  <2>3. CASE FallAsleep \/ WaitDone \/ WaitFails \/ Unlock \/ Shutdown
    BY <2>3 DEF FallAsleep, WaitDone, WaitFails, Unlock, Shutdown
  <2>4. CASE GetAcquiredData \/ GetAcquiredDataFails \/ JoinReporter
             \/ JoinAbortListener
    BY <2>4 DEF GetAcquiredData, GetAcquiredDataFails, JoinReporter,
                JoinAbortListener
  <2>5. CASE AnswerWaitFailed \/ AnswerGetFailed \/ AnswerOk \/ Return
    BY <2>5 DEF AnswerWaitFailed, AnswerGetFailed, AnswerOk, Return
  <2>6. CASE Announce \/ SaveImage \/ SaveFails
    <3>1. SaveImage => saved' = <<1>>
      <4>1. SaveImage => saved = <<>> /\ img_buffer = 1
        BY DEF SaveImage
      <4>2. Append(<<>>, 1) = <<1>>
        OBVIOUS
      <4> QED
        BY <4>1, <4>2 DEF SaveImage
    <3>2. CASE SaveImage
      BY <3>1, <3>2 DEF SaveImage
    <3>3. CASE Announce \/ SaveFails
      BY <3>3 DEF Announce, SaveFails
    <3> QED
      BY <2>6, <3>2, <3>3
  <2>7. CASE ReporterNext
    <3>1. reported' \in BOOLEAN
      BY <2>7, Zenon DEF ReporterNext, ReporterSkipsBias, ReporterTryFails,
                         ReporterEnds, ReportProgress
    <3> QED
      BY <2>7, <3>1 DEF ReporterNext, ReporterSkipsBias, ReporterTryFails,
                        ReporterEnds, ReportProgress, ReporterFrame, ReporterGoes
  <2>8. CASE ListenerStep \/ PeerStep \/ CameraNext
    BY <2>8 DEF ListenerStep, PeerStep, CameraNext, othersOfCamera
  <2>9. CASE UNCHANGED vars
    BY <2>9 DEF vars
  <2> QED
    BY <2>1, <2>2, <2>3, <2>4, <2>5, <2>6, <2>7, <2>8, <2>9 DEF Next, MainNext
<1> QED
  BY <1>1, <1>2 DEF TypeOK

\* Every step keeps threads and mutexes where the control flow has them.
LEMMA ThreadPreserved == IInv /\ [Next]_vars => ThreadInv'
<1> SUFFICES ASSUME IInv, [Next]_vars PROVE ThreadInv'
  OBVIOUS
<1> USE DEF IInv, ThreadInv, AnswerInv, Holding, Reporting, AfterJoins, Exposing,
            BeforeExposure, scanVars, listenerVars, reporterVars, MainGoes,
            ListenerGoes
<1>1. ASSUME NEW ms \in {0, 1}, ImageCommand(ms) PROVE ThreadInv'
  BY <1>1 DEF ImageCommand, SpawnListener
<1>2. CASE Handshake \/ StartSucceeds \/ StartFails \/ LockAndReport
  BY <1>2 DEF Handshake, StartSucceeds, StartFails, LockAndReport
<1>3. CASE FallAsleep \/ WaitDone \/ WaitFails
  BY <1>3 DEF FallAsleep, WaitDone, WaitFails
<1>4. CASE Unlock
  BY <1>4 DEF Unlock
<1>5. CASE Shutdown
  BY <1>5 DEF Shutdown, ShutdownListener
<1>6. CASE GetAcquiredData \/ GetAcquiredDataFails \/ JoinReporter
  BY <1>6 DEF GetAcquiredData, GetAcquiredDataFails, JoinReporter
<1>7. CASE JoinAbortListener
  BY <1>7 DEF JoinAbortListener, JoinListener
<1>8. CASE AnswerWaitFailed \/ AnswerGetFailed \/ AnswerOk \/ Return
  BY <1>8 DEF AnswerWaitFailed, AnswerGetFailed, AnswerOk, Return
<1>9. CASE Announce \/ SaveImage \/ SaveFails
  BY <1>9 DEF Announce, SaveImage, SaveFails
<1>10. CASE ReporterNext
  BY <1>10 DEF ReporterNext, ReporterSkipsBias, ReporterTryFails, ReporterEnds,
              ReportProgress, ReporterFrame, ReporterGoes
<1>11. CASE ListenerStep
  BY <1>11
       DEF ListenerStep, ListenerNext, ListenerReset, ListenerLock,
           ListenerBinds, ListenerBindThrows, ListenerPublishes,
           ListenerAccepts, ListenerAcceptFails, ListenerReceives,
           ListenerPeerGone, ListenerSetsAbort, ListenerCancelsWait,
           ListenerCloses
<1>12. CASE PeerStep
  BY <1>12 DEF PeerStep, PeerNext, PeerConnects, PeerSends, PeerCloses,
              TimeWaitEnds
<1>13. CASE CameraNext
  BY <1>13 DEF CameraNext, othersOfCamera, ExposeOnce
<1>14. CASE UNCHANGED vars
  BY <1>14 DEF vars
<1> QED
  BY <1>1, <1>2, <1>3, <1>4, <1>5, <1>6, <1>7, <1>8, <1>9, <1>10, <1>11,
     <1>12, <1>13, <1>14
     DEF Next, MainNext

\* Every step keeps the exposure, the buffer and the file in step.
LEMMA ExposurePreserved == IInv /\ [Next]_vars => ExposureInv'
<1> SUFFICES ASSUME IInv, [Next]_vars PROVE ExposureInv'
  OBVIOUS
<1> USE DEF IInv, TypeOK, ExposureInv, AnswerInv, Exposing, BeforeExposure,
            scanVars, cameraVars, MainGoes
<1>1. ASSUME NEW ms \in {0, 1}, ImageCommand(ms) PROVE ExposureInv'
  BY <1>1 DEF ImageCommand
<1>2. CASE Handshake \/ StartSucceeds \/ StartFails \/ LockAndReport
  BY <1>2 DEF Handshake, StartSucceeds, StartFails, LockAndReport,
              StartAcquisition, AbortAcquisition
<1>3. CASE FallAsleep \/ WaitDone \/ WaitFails
  BY <1>3 DEF FallAsleep, WaitDone, WaitFails, EnterWait, WaitSucceeds,
              WaitReturnsError
<1>4. CASE Unlock
  BY <1>4 DEF Unlock
<1>5. CASE Shutdown
  BY <1>5 DEF Shutdown
<1>6. CASE GetAcquiredData \/ GetAcquiredDataFails \/ JoinReporter
  BY <1>6 DEF GetAcquiredData, GetAcquiredDataFails, JoinReporter
<1>7. CASE JoinAbortListener
  BY <1>7 DEF JoinAbortListener
<1>8. CASE AnswerWaitFailed \/ AnswerGetFailed \/ AnswerOk \/ Return
  BY <1>8 DEF AnswerWaitFailed, AnswerGetFailed, AnswerOk, Return,
              AbortAcquisition
<1>9. CASE Announce \/ SaveImage \/ SaveFails
  BY <1>9 DEF Announce, SaveImage, SaveFails, AbortAcquisition
<1>10. CASE ReporterNext
  BY <1>10 DEF ReporterNext, ReporterSkipsBias, ReporterTryFails, ReporterEnds,
              ReportProgress, ReporterFrame, ReporterGoes
<1>11. CASE ListenerStep
  BY <1>11
       DEF ListenerStep, ListenerNext, ListenerReset, ListenerLock,
           ListenerBinds, ListenerBindThrows, ListenerPublishes,
           ListenerAccepts, ListenerAcceptFails, ListenerReceives,
           ListenerPeerGone, ListenerSetsAbort, ListenerCancelsWait,
           ListenerCloses,
           CancelWait
<1>12. CASE PeerStep
  BY <1>12 DEF PeerStep, PeerNext, PeerConnects, PeerSends, PeerCloses,
              TimeWaitEnds
<1>13. CASE CameraNext
  BY <1>13 DEF CameraNext, othersOfCamera, ExposeOnce
<1>14. CASE UNCHANGED vars
  BY <1>14 DEF vars
<1> QED
  BY <1>1, <1>2, <1>3, <1>4, <1>5, <1>6, <1>7, <1>8, <1>9, <1>10, <1>11,
     <1>12, <1>13, <1>14
     DEF Next, MainNext

\* Every step keeps the count of answers in line with the outcome.
LEMMA AnswerPreserved == IInv /\ [Next]_vars => AnswerInv'
<1> SUFFICES ASSUME IInv, [Next]_vars PROVE AnswerInv'
  OBVIOUS
<1> USE DEF IInv, AnswerInv, Exposing, BeforeExposure, scanVars, MainGoes, SendDone
<1>1. ASSUME NEW ms \in {0, 1}, ImageCommand(ms) PROVE AnswerInv'
  BY <1>1 DEF ImageCommand
<1>2. CASE Handshake \/ StartSucceeds \/ StartFails \/ LockAndReport
  BY <1>2 DEF Handshake, StartSucceeds, StartFails, LockAndReport
<1>3. CASE FallAsleep \/ WaitDone \/ WaitFails
  BY <1>3 DEF FallAsleep, WaitDone, WaitFails
<1>4. CASE Unlock
  BY <1>4 DEF Unlock
<1>5. CASE Shutdown
  BY <1>5 DEF Shutdown
<1>6. CASE GetAcquiredData \/ GetAcquiredDataFails \/ JoinReporter
  BY <1>6 DEF GetAcquiredData, GetAcquiredDataFails, JoinReporter
<1>7. CASE JoinAbortListener
  BY <1>7 DEF JoinAbortListener
<1>8. CASE AnswerWaitFailed \/ AnswerGetFailed \/ AnswerOk \/ Return
  BY <1>8 DEF AnswerWaitFailed, AnswerGetFailed, AnswerOk, Return
<1>9. CASE Announce \/ SaveImage \/ SaveFails
  BY <1>9 DEF Announce, SaveImage, SaveFails
<1>10. CASE ReporterNext
  BY <1>10 DEF ReporterNext, ReporterSkipsBias, ReporterTryFails, ReporterEnds,
              ReportProgress, ReporterFrame, ReporterGoes
<1>11. CASE ListenerStep \/ PeerStep \/ CameraNext
  BY <1>11 DEF ListenerStep, PeerStep, CameraNext, othersOfCamera
<1>12. CASE UNCHANGED vars
  BY <1>12 DEF vars
<1> QED
  BY <1>1, <1>2, <1>3, <1>4, <1>5, <1>6, <1>7, <1>8, <1>9, <1>10, <1>11,
     <1>12
     DEF Next, MainNext

\* No step sets abort_set, or keeps it set, without a message of the peer.
LEMMA AbortPreserved == IInv /\ [Next]_vars => AbortInv'
<1> SUFFICES ASSUME IInv, [Next]_vars PROVE AbortInv'
  OBVIOUS
<1> USE DEF IInv, AbortInv, listenerVars, ListenerGoes
<1>1. ASSUME NEW ms \in {0, 1}, ImageCommand(ms) PROVE AbortInv'
  BY <1>1 DEF ImageCommand, SpawnListener
<1>2. CASE Handshake \/ StartSucceeds \/ StartFails \/ LockAndReport
  BY <1>2 DEF Handshake, StartSucceeds, StartFails, LockAndReport
<1>3. CASE FallAsleep \/ WaitDone \/ WaitFails
  BY <1>3 DEF FallAsleep, WaitDone, WaitFails
<1>4. CASE Unlock
  BY <1>4 DEF Unlock
<1>5. CASE Shutdown
  BY <1>5 DEF Shutdown, ShutdownListener
<1>6. CASE GetAcquiredData \/ GetAcquiredDataFails \/ JoinReporter
  BY <1>6 DEF GetAcquiredData, GetAcquiredDataFails, JoinReporter
<1>7. CASE JoinAbortListener
  BY <1>7 DEF JoinAbortListener, JoinListener
<1>8. CASE AnswerWaitFailed \/ AnswerGetFailed \/ AnswerOk \/ Return
  BY <1>8 DEF AnswerWaitFailed, AnswerGetFailed, AnswerOk, Return
<1>9. CASE Announce \/ SaveImage \/ SaveFails
  BY <1>9 DEF Announce, SaveImage, SaveFails
<1>10. CASE ReporterNext
  BY <1>10 DEF ReporterNext, ReporterSkipsBias, ReporterTryFails, ReporterEnds,
              ReportProgress, ReporterFrame, ReporterGoes
<1>11. CASE ListenerStep
  BY <1>11
       DEF ListenerStep, ListenerNext, ListenerReset, ListenerLock,
           ListenerBinds, ListenerBindThrows, ListenerPublishes,
           ListenerAccepts, ListenerAcceptFails, ListenerReceives,
           ListenerPeerGone, ListenerSetsAbort, ListenerCancelsWait,
           ListenerCloses
<1>12. CASE PeerStep
  BY <1>12 DEF PeerStep, PeerNext, PeerConnects, PeerSends, PeerCloses,
              TimeWaitEnds
<1>13. CASE CameraNext
  BY <1>13 DEF CameraNext, othersOfCamera, ExposeOnce
<1>14. CASE UNCHANGED vars
  BY <1>14 DEF vars
<1> QED
  BY <1>1, <1>2, <1>3, <1>4, <1>5, <1>6, <1>7, <1>8, <1>9, <1>10, <1>11,
     <1>12, <1>13, <1>14
     DEF Next, MainNext

\* No step makes a message follow the answer.
LEMMA DonePreserved == IInv /\ [Next]_vars => DoneInv'
<1> SUFFICES ASSUME IInv, [Next]_vars PROVE DoneInv'
  OBVIOUS
<1> USE DEF IInv, DoneInv, ThreadInv, AnswerInv, Holding, Reporting, AfterJoins,
            Exposing, BeforeExposure, scanVars, reporterVars, MainGoes, SendDone
<1>1. ASSUME NEW ms \in {0, 1}, ImageCommand(ms) PROVE DoneInv'
  BY <1>1 DEF ImageCommand
<1>2. CASE Handshake \/ StartSucceeds \/ StartFails \/ LockAndReport
  BY <1>2 DEF Handshake, StartSucceeds, StartFails, LockAndReport
<1>3. CASE FallAsleep \/ WaitDone \/ WaitFails
  BY <1>3 DEF FallAsleep, WaitDone, WaitFails
<1>4. CASE Unlock
  BY <1>4 DEF Unlock
<1>5. CASE Shutdown
  BY <1>5 DEF Shutdown
<1>6. CASE GetAcquiredData \/ GetAcquiredDataFails \/ JoinReporter
  BY <1>6 DEF GetAcquiredData, GetAcquiredDataFails, JoinReporter
<1>7. CASE JoinAbortListener
  BY <1>7 DEF JoinAbortListener
<1>8. CASE AnswerWaitFailed \/ AnswerGetFailed \/ AnswerOk \/ Return
  BY <1>8 DEF AnswerWaitFailed, AnswerGetFailed, AnswerOk, Return
<1>9. CASE Announce \/ SaveImage \/ SaveFails
  BY <1>9 DEF Announce, SaveImage, SaveFails
<1>10. CASE ReporterNext
  BY <1>10 DEF ReporterNext, ReporterSkipsBias, ReporterTryFails, ReporterEnds,
              ReportProgress, ReporterFrame, ReporterGoes
<1>11. CASE ListenerStep \/ PeerStep \/ CameraNext
  BY <1>11 DEF ListenerStep, PeerStep, CameraNext, othersOfCamera
<1>12. CASE UNCHANGED vars
  BY <1>12 DEF vars
<1> QED
  BY <1>1, <1>2, <1>3, <1>4, <1>5, <1>6, <1>7, <1>8, <1>9, <1>10, <1>11,
     <1>12
     DEF Next, MainNext

\* The strengthening holds in every reachable state.
THEOREM Invariance == Spec => []IInv
<1>1. IInv /\ [Next]_vars => IInv'
  BY TypePreserved, ThreadPreserved, ExposurePreserved, AnswerPreserved,
     AbortPreserved, DonePreserved DEF IInv
<1> QED
  BY <1>1, InitIInv, PTL DEF Spec

\* Every variable of the three threads and the camera stays in its range: a
\* single scan has no second file and no second answer.
THEOREM TypeCorrect == Spec => []TypeOK
<1>1. IInv => TypeOK
  BY DEF IInv
<1> QED
  BY <1>1, Invariance, PTL

\* A saved image is the one that was exposed, fetched before the joins and
\* judged after them (get_single_scan.cpp:149-184).
THEOREM OnlyExposedIsSaved == Spec => []SavedIsExposed
<1>1. IInv => SavedIsExposed
  <2> SUFFICES ASSUME IInv, outcome = "ok" PROVE exposed = 1 /\ ~acquiring
    BY DEF SavedIsExposed, IInv, ExposureInv
  <2> QED
    BY DEF IInv, ExposureInv, AnswerInv, Exposing
<1> QED
  BY <1>1, Invariance, PTL

\* Whatever way a command ended, no thread, mutex, socket or exposure of it is
\* left when the next one starts.
THEOREM CleanAtIdle == Spec => []IdleIsClean
<1>1. IInv => IdleIsClean
  <2>1. TypeOK => g_mtx \in {"free", "main"} /\ g_mtx_abort \in {"free", "listener"}
    BY DEF TypeOK, ListenerTypeOK
  <2> QED
    BY <2>1 DEF IInv, ThreadInv, ExposureInv, IdleIsClean, Holding, Reporting,
                Exposing
<1> QED
  BY <1>1, Invariance, PTL

\* Every command is answered once, by get_single_scan() or by save_as_fits().
THEOREM AnsweredOnce == Spec => []OneAnswer
<1>1. IInv => OneAnswer
  <2>1. TypeOK => dones <= 1
    BY DEF TypeOK
  <2> QED
    BY <2>1 DEF IInv, AnswerInv, OneAnswer
<1> QED
  BY <1>1, Invariance, PTL

\* Nothing is sent after "done" but by the next command.
THEOREM NothingAfterDone == Spec => DoneIsLast
<1> DEFINE Last == sent = "done" => sent' \in {"done", "none"}
<1>1. IInv /\ [Next]_vars => [Last]_vars
  <2> SUFFICES ASSUME IInv, Next, sent = "done" PROVE sent' \in {"done", "none"}
    BY DEF vars
  <2> USE DEF IInv, DoneInv, MainGoes, SendDone
  <2>1. ASSUME NEW ms \in {0, 1}, ImageCommand(ms) PROVE sent' \in {"done", "none"}
    BY <2>1 DEF ImageCommand
  <2>2. CASE MainNext
    BY <2>2 DEF MainNext, Handshake, StartSucceeds, StartFails, LockAndReport,
         FallAsleep, WaitDone, WaitFails, Unlock, Shutdown, GetAcquiredData,
         GetAcquiredDataFails, JoinReporter, JoinAbortListener,
         AnswerWaitFailed, AnswerGetFailed, Announce, SaveImage, SaveFails,
         AnswerOk, Return
  <2>3. CASE ReporterNext
    BY <2>3 DEF ReporterNext, ReporterSkipsBias, ReporterTryFails, ReporterEnds,
                ReportProgress, ReporterGoes
  <2>4. CASE ListenerStep \/ PeerStep \/ CameraNext
    BY <2>4 DEF ListenerStep, PeerStep, CameraNext, othersOfCamera
  <2> QED
    BY <2>1, <2>2, <2>3, <2>4 DEF Next
<1> QED
  BY <1>1, Invariance, PTL DEF Spec, DoneIsLast

-----------------------------------------------------------------------------
(* Refinement: which step of the scan is which step of the promise.        *)

\* The scan starts where the promise starts.
LEMMA InitImplements == Init => Command!Init
BY DEF Init, ListenerInit, Command!Init

\* Steps that leave the file, the answer and the peer's message alone, and
\* either go on with the command or change nothing of it.
LEMMA Stuttering ==
  ASSUME UNCHANGED <<saved, dones, result>>,
         \/ mpc # "idle" /\ mpc' # "idle"
         \/ UNCHANGED <<mpc, outcome>>,
         peer = "sent" <=> peer' = "sent"
  PROVE  UNCHANGED Command!vars
BY DEF Command!vars

\* Every step of the scan is a step of the promise or leaves it alone.
LEMMA StepImplements == IInv /\ [Next]_vars => [Command!Next]_(Command!vars)
<1> SUFFICES ASSUME IInv, [Next]_vars PROVE [Command!Next]_(Command!vars)
  OBVIOUS
<1> USE DEF scanVars, listenerVars, MainGoes, SendDone
<1>1. ASSUME NEW ms \in {0, 1}, ImageCommand(ms) PROVE Command!Request(1)
  BY <1>1 DEF ImageCommand, SpawnListener, Command!Request
<1>2. CASE StartFails
  <2>1. dones = 0
    BY <1>2 DEF StartFails, IInv, AnswerInv
  <2> QED
    BY <1>2, <2>1 DEF StartFails, Command!Answer, Command!Next
<1>3. CASE SaveFails
  <2>1. dones = 0
    BY <1>3 DEF SaveFails, IInv, AnswerInv
  <2> QED
    BY <1>3, <2>1 DEF SaveFails, Command!Answer, Command!Next
<1>4. CASE SaveImage
  <2>1. dones = 0 /\ saved = <<>> /\ img_buffer = 1
    BY <1>4 DEF SaveImage, IInv, ExposureInv, AnswerInv
  <2> QED
    BY <1>4, <2>1 DEF SaveImage, Command!SaveNext, Command!Next
<1>5. CASE AnswerOk
  <2>1. dones = 0 /\ saved = <<1>>
    BY <1>5 DEF AnswerOk, IInv, ExposureInv, AnswerInv
  <2> QED
    BY <1>5, <2>1 DEF AnswerOk, Command!Answer, Command!Next
<1>6. CASE AnswerWaitFailed \/ AnswerGetFailed
  <2>1. dones = 0
    BY <1>6 DEF AnswerWaitFailed, AnswerGetFailed, IInv, AnswerInv
  <2>2. abort_set # 0 => peer = "sent"
    BY <1>6 DEF AnswerWaitFailed, AnswerGetFailed, IInv, ThreadInv, AbortInv,
                TypeOK, ListenerTypeOK, AfterJoins
  <2>3. result' \in {"aborted", "failed"} /\ (result' = "aborted" => peer = "sent")
    BY <1>6, <2>2 DEF AnswerWaitFailed, AnswerGetFailed
  <2> QED
    BY <1>6, <2>1, <2>3
       DEF AnswerWaitFailed, AnswerGetFailed, Command!Answer, Command!Next
<1>7. CASE Return
  <2>1. dones = 1 /\ outcome # "none"
    BY <1>7 DEF Return, IInv, AnswerInv
  <2> QED
    BY <1>7, <2>1 DEF Return, Command!Return, Command!Next
<1>8. CASE PeerStep
  <2>1. CASE PeerSends
    BY <1>8, <2>1 DEF PeerStep, PeerSends, Command!AskAbort, Command!Next
  <2>2. CASE PeerConnects \/ PeerCloses \/ TimeWaitEnds
    BY <1>8, <2>2, Stuttering DEF PeerStep, PeerConnects, PeerCloses, TimeWaitEnds
  <2> QED
    BY <1>8, <2>1, <2>2 DEF PeerStep, PeerNext
<1>9. CASE \/ Handshake \/ StartSucceeds \/ LockAndReport \/ FallAsleep
           \/ WaitDone \/ WaitFails
  BY <1>9, Stuttering DEF Handshake, StartSucceeds, LockAndReport, FallAsleep,
     WaitDone, WaitFails
<1>10. CASE Unlock \/ Shutdown \/ JoinReporter \/ JoinAbortListener
  <2>1. mpc # "idle" /\ mpc' # "idle"
    BY <1>10 DEF Unlock, Shutdown, JoinReporter, JoinAbortListener, IInv, AnswerInv
  <2> QED
    BY <1>10, <2>1, Stuttering DEF Unlock, Shutdown, ShutdownListener,
       JoinReporter, JoinAbortListener, JoinListener
<1>11. CASE GetAcquiredData \/ GetAcquiredDataFails \/ Announce
  BY <1>11, Stuttering DEF GetAcquiredData, GetAcquiredDataFails, Announce
<1>12. CASE ReporterNext
  BY <1>12, Stuttering DEF ReporterNext, ReporterSkipsBias, ReporterTryFails,
     ReporterEnds, ReportProgress, ReporterFrame
<1>13. CASE ListenerStep
  BY <1>13, Stuttering
       DEF ListenerStep, ListenerNext, ListenerReset, ListenerLock,
           ListenerBinds, ListenerBindThrows, ListenerPublishes,
           ListenerAccepts, ListenerAcceptFails, ListenerReceives,
           ListenerPeerGone, ListenerSetsAbort, ListenerCancelsWait,
           ListenerCloses
<1>14. CASE CameraNext
  BY <1>14, Stuttering DEF CameraNext, othersOfCamera
<1>15. CASE UNCHANGED vars
  BY <1>15, Stuttering DEF vars
<1> QED
  BY <1>1, <1>2, <1>3, <1>4, <1>5, <1>6, <1>7, <1>8, <1>9, <1>10, <1>11, <1>12,
     <1>13, <1>14, <1>15 DEF Next, MainNext, Command!Next

\* Every behaviour of the three threads, the camera and the peer keeps the
\* promise of an image command, for one image.
THEOREM Implementation == Spec => ImplementsImageCommand
BY InitImplements, StepImplements, Invariance, PTL
   DEF Spec, ImplementsImageCommand, Command!Spec
-----------------------------------------------------------------------------
(* Who waits for whom                                                      *)

\* Where the descriptor, the abort socket and the peer are while the listener runs.
SocketInv ==
  /\ lpc \in {"reset", "lock", "bind", "publish"} => abort_socket_fd = Unpublished
  /\ lpc = "publish" => lsock = "listening"
  /\ lpc \in {"accept", "recv", "abort", "cancel", "close"} =>
       abort_socket_fd = ListenFd /\ lsock \in {"listening", "shut"}
  /\ lpc = "recv" => peer # "none"
  /\ mpc # "idle" => abort_socket_fd # 0

\* At each place where one thread waits for another, the other can go on: the mutex
\* of the handshake is held only by a listener about to give it back, the mutex of
\* the acquisition is free where it is locked and where the reporter is joined, and a
\* listener in recv() has a peer.
WaitsAreServed ==
  /\ mpc = "handshake" => HandshakeOver \/ lpc \in {"bind", "publish"}
  /\ lpc = "lock" => g_mtx_abort = "free"
  /\ mpc = "lock" => g_mtx = "free"
  /\ mpc = "joinR" => g_mtx = "free" /\ rpc # "none"
  /\ mpc = "joinL" => lpc # "none"
  /\ lpc = "recv" => peer # "none"

\* The listener will not wait in accept() again.
Released ==
  /\ lpc \in {"accept", "recv", "abort", "cancel", "close", "ended"}
  /\ lpc = "accept" => lsock = "shut"

AfterShutdown == {"get", "joinR", "joinL"}

\* The turns a reporter has left that finds the mutex free.
ReporterLeft ==
  CASE rpc = "send" -> 2
    [] rpc = "try" -> 1
    [] OTHER -> 0

\* A descriptor that was published is one until the command is over; shutting it down
\* releases the listener, who stays released until he is joined; and while the
\* reporter is waited for, each of its steps brings its end nearer.
ThreadsAreReleased ==
  [][/\ abort_socket_fd # Unpublished /\ mpc # "idle" => abort_socket_fd' # Unpublished
     /\ Shutdown /\ abort_socket_fd # Unpublished => Released'
     /\ Released /\ mpc \in AfterShutdown => Released' \/ JoinAbortListener
     /\ mpc \in AfterShutdown /\ ReporterNext => ReporterLeft' < ReporterLeft]_vars

\* Publication, shutdown and the end of the listener keep descriptor and socket
\* together.
LEMMA SocketPreserved == IInv /\ SocketInv /\ [Next]_vars => SocketInv'
<1> SUFFICES ASSUME IInv, SocketInv, [Next]_vars PROVE SocketInv'
  OBVIOUS
<1>0. Unpublished \notin {0, ListenFd} /\ ListenFd # 0 /\ BindFailed # 0
  BY ListenerAssumption DEF Unpublished, BindFailed
<1> USE <1>0 DEF IInv, ThreadInv, AnswerInv, SocketInv, listenerVars, ListenerGoes, MainGoes,
             AfterJoins
<1>1. ASSUME NEW ms \in {0, 1}, ImageCommand(ms) PROVE SocketInv'
  BY <1>1 DEF ImageCommand, SpawnListener
<1>2. CASE MainNext
  <2>1. CASE Shutdown
    BY <2>1 DEF Shutdown, ShutdownListener
  <2>2. CASE JoinAbortListener
    BY <2>2 DEF JoinAbortListener, JoinListener
  <2>3. CASE ~Shutdown /\ ~JoinAbortListener
    BY <1>2, <2>3
       DEF MainNext, Handshake, StartSucceeds, StartFails, LockAndReport, FallAsleep,
           WaitDone, WaitFails, Unlock, GetAcquiredData, GetAcquiredDataFails,
           JoinReporter, AnswerWaitFailed, AnswerGetFailed, Announce, SaveImage,
           SaveFails, AnswerOk, Return
  <2> QED
    BY <2>1, <2>2, <2>3
<1>3. CASE ListenerStep
  BY <1>3
     DEF ListenerStep, ListenerNext, ListenerReset, ListenerLock, ListenerBinds,
         ListenerBindThrows, ListenerPublishes, ListenerAccepts, ListenerAcceptFails,
         ListenerReceives, ListenerPeerGone, ListenerSetsAbort, ListenerCancelsWait,
         ListenerCloses
<1>4. CASE PeerStep
  BY <1>4 DEF PeerStep, PeerNext, PeerConnects, PeerSends, PeerCloses, TimeWaitEnds
<1>5. CASE ReporterNext \/ CameraNext \/ UNCHANGED vars
  BY <1>5 DEF ReporterNext, ReporterSkipsBias, ReporterTryFails, ReporterEnds,
              ReportProgress, ReporterFrame, CameraNext, othersOfCamera, vars
<1> QED
  BY <1>1, <1>2, <1>3, <1>4, <1>5 DEF Next

\* With the descriptor published no listener is left in accept().
LEMMA ShutdownReleases ==
  ASSUME IInv, SocketInv, Shutdown, abort_socket_fd # Unpublished
  PROVE  Released'
<1>1. lpc \in ListenerPcs /\ lpc # "none"
  BY DEF IInv, TypeOK, ListenerTypeOK, ThreadInv, Shutdown, AfterJoins
<1> QED
  BY <1>1 DEF Shutdown, ShutdownListener, SocketInv, Released, ListenerPcs

\* Nobody puts a released listener back.
LEMMA ReleasedStays ==
  ASSUME IInv, Released, mpc \in AfterShutdown, [Next]_vars
  PROVE  Released' \/ JoinAbortListener
<1> USE DEF Released, AfterShutdown, listenerVars, ListenerGoes, MainGoes
<1>1. ASSUME NEW ms \in {0, 1}, ImageCommand(ms) PROVE FALSE
  BY <1>1 DEF ImageCommand
<1>2. CASE MainNext
  BY <1>2
     DEF MainNext, Handshake, StartSucceeds, StartFails, LockAndReport, FallAsleep,
         WaitDone, WaitFails, Unlock, Shutdown, GetAcquiredData, GetAcquiredDataFails,
         JoinReporter, AnswerWaitFailed, AnswerGetFailed, Announce, SaveImage,
         SaveFails, AnswerOk, Return
<1>3. CASE ListenerStep
  BY <1>3
     DEF ListenerStep, ListenerNext, ListenerReset, ListenerLock, ListenerBinds,
         ListenerBindThrows, ListenerPublishes, ListenerAccepts, ListenerAcceptFails,
         ListenerReceives, ListenerPeerGone, ListenerSetsAbort, ListenerCancelsWait,
         ListenerCloses
<1>4. CASE PeerStep
  BY <1>4 DEF PeerStep, PeerNext, PeerConnects, PeerSends, PeerCloses, TimeWaitEnds
<1>5. CASE ReporterNext \/ CameraNext \/ UNCHANGED vars
  BY <1>5 DEF ReporterNext, ReporterSkipsBias, ReporterTryFails, ReporterEnds,
              ReportProgress, ReporterFrame, CameraNext, othersOfCamera, vars
<1> QED
  BY <1>1, <1>2, <1>3, <1>4, <1>5 DEF Next

\* A published descriptor is overwritten by the next command only.
LEMMA PublishedStays ==
  ASSUME SocketInv, [Next]_vars, mpc # "idle", abort_socket_fd # Unpublished
  PROVE  abort_socket_fd' # Unpublished
<1>0. Unpublished # ListenFd /\ BindFailed # Unpublished
  BY ListenerAssumption DEF Unpublished, BindFailed
<1> USE <1>0 DEF listenerVars, ListenerGoes, MainGoes
<1>1. ASSUME NEW ms \in {0, 1}, ImageCommand(ms) PROVE FALSE
  BY <1>1 DEF ImageCommand
<1>2. CASE MainNext
  BY <1>2
     DEF MainNext, Handshake, StartSucceeds, StartFails, LockAndReport, FallAsleep,
         WaitDone, WaitFails, Unlock, Shutdown, ShutdownListener, GetAcquiredData,
         GetAcquiredDataFails, JoinReporter, JoinAbortListener, JoinListener,
         AnswerWaitFailed, AnswerGetFailed, Announce, SaveImage, SaveFails, AnswerOk,
         Return
<1>3. CASE ListenerStep
  BY <1>3
     DEF ListenerStep, ListenerNext, ListenerReset, ListenerLock, ListenerBinds,
         ListenerBindThrows, ListenerPublishes, ListenerAccepts, ListenerAcceptFails,
         ListenerReceives, ListenerPeerGone, ListenerSetsAbort, ListenerCancelsWait,
         ListenerCloses
<1>4. CASE PeerStep
  BY <1>4 DEF PeerStep, PeerNext, PeerConnects, PeerSends, PeerCloses, TimeWaitEnds
<1>5. CASE ReporterNext \/ CameraNext \/ UNCHANGED vars
  BY <1>5 DEF ReporterNext, ReporterSkipsBias, ReporterTryFails, ReporterEnds,
              ReportProgress, ReporterFrame, CameraNext, othersOfCamera, vars
<1> QED
  BY <1>1, <1>2, <1>3, <1>4, <1>5 DEF Next

\* The mutex is free once the main thread has gone on to the joins, so that the
\* reporter's next try ends it.
LEMMA ReporterRunsOut ==
  ASSUME IInv, mpc \in AfterShutdown, ReporterNext
  PROVE  ReporterLeft' < ReporterLeft
<1>1. g_mtx = "free"
  BY DEF IInv, TypeOK, ThreadInv, Holding, AfterShutdown
<1>2. CASE ReporterSkipsBias \/ ReporterEnds
  BY <1>2 DEF ReporterSkipsBias, ReporterEnds, ReporterGoes, ReporterLeft
<1>3. CASE ReportProgress
  BY <1>3 DEF ReportProgress, ReporterGoes, ReporterLeft
<1>4. ~ReporterTryFails
  BY <1>1 DEF ReporterTryFails
<1> QED
  BY <1>2, <1>3, <1>4 DEF ReporterNext

\* What no thread of a single scan is to wait for in vain: mutexes, joins and recv(), and,
\* when the descriptor was published in time, accept(). With the threads running and a
\* peer that says something, this is PublishedHandshakeReturns
\* (get_single_scan.cpp:52, 147-155).
THEOREM WaitsEnd == Spec => []WaitsAreServed /\ ThreadsAreReleased
<1>1. Init => SocketInv
  BY DEF Init, ListenerInit, SocketInv
<1>2. Spec => []SocketInv
  BY <1>1, Invariance, SocketPreserved, PTL DEF Spec
<1>3. IInv /\ SocketInv => WaitsAreServed
  <2> SUFFICES ASSUME IInv, SocketInv PROVE WaitsAreServed
    OBVIOUS
  <2>1. g_mtx \in {"free", "main"} /\ g_mtx_abort \in {"free", "listener"}
    BY DEF IInv, TypeOK, ListenerTypeOK
  <2>2. mpc = "handshake" => HandshakeOver \/ lpc \in {"bind", "publish"}
    BY <2>1 DEF IInv, ThreadInv, SocketInv, HandshakeOver
  <2>3. lpc = "lock" => g_mtx_abort = "free"
    BY <2>1 DEF IInv, ThreadInv
  <2>4. /\ mpc = "lock" => g_mtx = "free"
        /\ mpc = "joinR" => g_mtx = "free" /\ rpc # "none"
        /\ mpc = "joinL" => lpc # "none"
    BY <2>1 DEF IInv, ThreadInv, Holding, Reporting, AfterJoins
  <2> QED
    BY <2>2, <2>3, <2>4 DEF WaitsAreServed, SocketInv
<1>4. IInv /\ SocketInv /\ [Next]_vars =>
        [/\ abort_socket_fd # Unpublished /\ mpc # "idle" => abort_socket_fd' # Unpublished
         /\ Shutdown /\ abort_socket_fd # Unpublished => Released'
         /\ Released /\ mpc \in AfterShutdown => Released' \/ JoinAbortListener
         /\ mpc \in AfterShutdown /\ ReporterNext => ReporterLeft' < ReporterLeft]_vars
  BY PublishedStays, ShutdownReleases, ReleasedStays, ReporterRunsOut
<1> QED
  BY <1>2, <1>3, <1>4, Invariance, PTL DEF Spec, ThreadsAreReleased

-----------------------------------------------------------------------------
(* What becomes of a wait that was cancelled                               *)

\* A listener that cancels has set the flag before, and it stays set while the main
\* thread has not noticed.
CancelInv ==
  /\ lpc \in {"cancel", "close"} => abort_set = 1
  /\ waiter = "cancelled" => abort_set = 1 /\ lpc \in {"close", "ended"}

\* On the way from the cancelled wait to its answer.
Aborting ==
  /\ outcome = "waitfailed" /\ abort_set = 1
  /\ lpc \in {"close", "ended", "none"}
  /\ mpc \in {"unlock", "shutdown", "joinR", "joinL", "answer"}

\* A cancelled wait stays one until it fails; from there nobody lowers the flag, and
\* the way to the answer is not left, until the client has been told "aborted".
AbortIsKept ==
  [][/\ waiter = "cancelled" => waiter' = "cancelled" \/ (WaitFails /\ Aborting')
     /\ Aborting => Aborting' \/ (AnswerWaitFailed /\ result' = "aborted")]_vars

\* The flag is lowered only at the start of the next listener.
LEMMA CancelPreserved == IInv /\ CancelInv /\ [Next]_vars => CancelInv'
<1> SUFFICES ASSUME IInv, CancelInv, [Next]_vars PROVE CancelInv'
  OBVIOUS
<1> USE DEF CancelInv, listenerVars, cameraVars, ListenerGoes, MainGoes
<1>1. waiter # "none" <=> mpc = "asleep"
  BY DEF IInv, ExposureInv
<1>2. ASSUME NEW ms \in {0, 1}, ImageCommand(ms) PROVE CancelInv'
  BY <1>1, <1>2 DEF ImageCommand, SpawnListener
<1>3. CASE MainNext
  <2>1. CASE JoinAbortListener
    BY <1>1, <2>1 DEF JoinAbortListener, JoinListener
  <2>2. CASE ~JoinAbortListener
    BY <1>3, <2>2
       DEF MainNext, Handshake, StartSucceeds, StartFails, LockAndReport, FallAsleep, WaitDone,
           WaitFails, Unlock, Shutdown, GetAcquiredData, GetAcquiredDataFails,
           JoinReporter, AnswerWaitFailed, AnswerGetFailed, Announce, SaveImage,
           SaveFails, AnswerOk, Return, StartAcquisition, AbortAcquisition, EnterWait,
           WaitSucceeds, WaitReturnsError, ShutdownListener
  <2> QED
    BY <2>1, <2>2
<1>4. CASE ListenerStep
  <2>1. waiter' = waiter \/ ListenerCancelsWait
    BY <1>4
       DEF ListenerStep, ListenerNext, ListenerReset, ListenerLock, ListenerBinds,
           ListenerBindThrows, ListenerPublishes, ListenerAccepts, ListenerAcceptFails,
           ListenerReceives, ListenerPeerGone, ListenerSetsAbort, ListenerCloses
  <2>2. CASE ListenerCancelsWait
    BY <2>2 DEF ListenerCancelsWait, CancelWait
  <2>3. CASE ~ListenerCancelsWait
    BY <1>4, <2>1, <2>3
       DEF ListenerStep, ListenerNext, ListenerReset, ListenerLock, ListenerBinds,
           ListenerBindThrows, ListenerPublishes, ListenerAccepts, ListenerAcceptFails,
           ListenerReceives, ListenerPeerGone, ListenerSetsAbort, ListenerCloses
  <2> QED
    BY <2>2, <2>3
<1>5. CASE PeerStep
  BY <1>5 DEF PeerStep, PeerNext, PeerConnects, PeerSends, PeerCloses, TimeWaitEnds
<1>6. CASE ReporterNext \/ CameraNext \/ UNCHANGED vars
  BY <1>6 DEF ReporterNext, ReporterSkipsBias, ReporterTryFails, ReporterEnds,
         ReportProgress, ReporterFrame, CameraNext, ExposeOnce, Transfer,
         othersOfCamera, vars
<1> QED
  BY <1>2, <1>3, <1>4, <1>5, <1>6 DEF Next

\* A cancelled wait can only fail.
LEMMA CancelledFails ==
  ASSUME IInv, CancelInv, waiter = "cancelled", [Next]_vars
  PROVE  waiter' = "cancelled" \/ (WaitFails /\ Aborting')
<1> USE DEF listenerVars, cameraVars, ListenerGoes, MainGoes
<1>1. mpc = "asleep"
  BY DEF IInv, ExposureInv
<1>2. ASSUME NEW ms \in {0, 1}, ImageCommand(ms) PROVE FALSE
  BY <1>1, <1>2 DEF ImageCommand
<1>3. CASE MainNext
  <2>1. ~WaitDone
    BY DEF WaitDone, WaitSucceeds
  <2>2. WaitFails
    BY <1>1, <1>3, <2>1
       DEF MainNext, Handshake, StartSucceeds, StartFails, LockAndReport, FallAsleep, Unlock,
           Shutdown, GetAcquiredData, GetAcquiredDataFails, JoinReporter,
           JoinAbortListener, AnswerWaitFailed, AnswerGetFailed, Announce, SaveImage,
           SaveFails, AnswerOk, Return
  <2> QED
    BY <2>2 DEF WaitFails, CancelInv, Aborting
<1>4. ASSUME waiter' = waiter PROVE waiter' = "cancelled"
  BY <1>4
<1>5. ListenerStep => waiter' = waiter
  <2>1. CancelWait => waiter' = waiter
    BY DEF CancelWait
  <2> QED
    BY <2>1
       DEF ListenerStep, ListenerNext, ListenerReset, ListenerLock, ListenerBinds,
           ListenerBindThrows, ListenerPublishes, ListenerAccepts, ListenerAcceptFails,
           ListenerReceives, ListenerPeerGone, ListenerSetsAbort, ListenerCancelsWait,
           ListenerCloses
<1>6. PeerStep => waiter' = waiter
  BY DEF PeerStep, PeerNext, PeerConnects, PeerSends, PeerCloses, TimeWaitEnds
<1>7. ReporterNext \/ CameraNext \/ UNCHANGED vars => waiter' = waiter
  BY DEF ReporterNext, ReporterSkipsBias, ReporterTryFails, ReporterEnds,
         ReportProgress, ReporterFrame, CameraNext, ExposeOnce, Transfer,
         othersOfCamera, vars
<1> QED
  BY <1>2, <1>3, <1>4, <1>5, <1>6, <1>7 DEF Next

\* Nobody gets in the way of the answer.
LEMMA AbortingStays ==
  ASSUME Aborting, [Next]_vars
  PROVE  Aborting' \/ (AnswerWaitFailed /\ result' = "aborted")
<1> USE DEF Aborting, listenerVars, ListenerGoes, MainGoes
<1>1. ASSUME NEW ms \in {0, 1}, ImageCommand(ms) PROVE FALSE
  BY <1>1 DEF ImageCommand
<1>2. CASE MainNext
  <2>1. CASE Unlock \/ Shutdown \/ JoinReporter \/ JoinAbortListener
    <3>1. UNCHANGED <<outcome, abort_set>>
      BY <2>1 DEF Unlock, Shutdown, ShutdownListener, JoinReporter, JoinAbortListener,
                  JoinListener, scanVars
    <3>2. lpc' \in {"close", "ended", "none"}
      BY <2>1 DEF Unlock, Shutdown, ShutdownListener, JoinReporter, JoinAbortListener,
                  JoinListener
    <3>3. mpc' \in {"shutdown", "joinR", "joinL", "answer"}
      BY <2>1 DEF Unlock, Shutdown, JoinReporter, JoinAbortListener
    <3> QED
      BY <3>1, <3>2, <3>3
  <2>2. CASE AnswerWaitFailed
    BY <2>2 DEF AnswerWaitFailed, SendDone
  <2>3. CASE ~(Unlock \/ Shutdown \/ JoinReporter \/ JoinAbortListener \/ AnswerWaitFailed)
    BY <1>2, <2>3
       DEF MainNext, Handshake, StartSucceeds, StartFails, LockAndReport, FallAsleep, WaitDone,
           WaitFails, GetAcquiredData, GetAcquiredDataFails, AnswerGetFailed, Announce,
           SaveImage, SaveFails, AnswerOk, Return
  <2> QED
    BY <2>1, <2>2, <2>3
<1>3. CASE ListenerStep
  <2>1. UNCHANGED <<mpc, outcome, abort_set>>
    BY <1>3
       DEF ListenerStep, ListenerNext, ListenerReset, ListenerLock, ListenerBinds,
           ListenerBindThrows, ListenerPublishes, ListenerAccepts, ListenerAcceptFails,
           ListenerReceives, ListenerPeerGone, ListenerSetsAbort, ListenerCancelsWait,
           ListenerCloses, scanVars
  <2>2. lpc' = "ended"
    BY <1>3
       DEF ListenerStep, ListenerNext, ListenerReset, ListenerLock, ListenerBinds,
           ListenerBindThrows, ListenerPublishes, ListenerAccepts, ListenerAcceptFails,
           ListenerReceives, ListenerPeerGone, ListenerSetsAbort, ListenerCancelsWait,
           ListenerCloses
  <2> QED
    BY <2>1, <2>2
<1>4. PeerStep => UNCHANGED <<mpc, outcome, abort_set, lpc>>
  BY DEF PeerStep, PeerNext, PeerConnects, PeerSends, PeerCloses, TimeWaitEnds,
         scanVars
<1>5. ReporterNext \/ CameraNext \/ UNCHANGED vars
        => UNCHANGED <<mpc, outcome, abort_set, lpc>>
  BY DEF ReporterNext, ReporterSkipsBias, ReporterTryFails, ReporterEnds,
         ReportProgress, ReporterFrame, CameraNext, ExposeOnce, Transfer,
         othersOfCamera, vars, scanVars
<1> QED
  BY <1>1, <1>2, <1>3, <1>4, <1>5 DEF Next

\* An abort that reached the sleeping main thread is on its way to the answer "aborted"
\* and to no other (get_single_scan.cpp:110-141): with the threads
\* running, DeliveredAbortIsAnswered.
THEOREM CancelledIsAborted == Spec => []CancelInv /\ AbortIsKept
<1>1. Init => CancelInv
  BY DEF Init, CameraInit, ListenerInit, CancelInv
<1>2. Spec => []CancelInv
  BY <1>1, Invariance, CancelPreserved, PTL DEF Spec
<1>3. IInv /\ CancelInv /\ [Next]_vars =>
        [/\ waiter = "cancelled" => waiter' = "cancelled" \/ (WaitFails /\ Aborting')
         /\ Aborting => Aborting' \/ (AnswerWaitFailed /\ result' = "aborted")]_vars
  BY CancelledFails, AbortingStays
<1> QED
  BY <1>2, <1>3, Invariance, PTL DEF Spec, AbortIsKept
=============================================================================
