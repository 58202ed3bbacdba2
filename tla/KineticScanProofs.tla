-------------------------- MODULE KineticScanProofs -------------------------
(***************************************************************************)
(* Proofs about KineticScan, for every number of images: its types and its *)
(* safety properties, that a series has a bounded number of steps, and     *)
(* that no reporter is joined that was not told to end.                    *)
(*                                                                         *)
(* The loop counts what the camera has taken and saves what came last; how *)
(* many files it writes, and which image is in the last, follows only from *)
(* how the waits, the events and the exposures go together: every wait     *)
(* that succeeds has used up an event, and every event is an exposure.     *)
(***************************************************************************)
EXTENDS KineticScan, SequenceTheorems, TLAPS

Waiting == {"loop", "wait", "asleep"}
Waited == {"stop", "join", "total", "copy", "save"}
Body == Waiting \cup Waited
WithReporter == {"wait", "asleep", "stop", "join"}

\* The reporter and its flag: it is there from the spawn to the join, and ends
\* only when it is told to.
ThreadInv ==
  /\ rpc # "none" <=> mpc \in WithReporter
  /\ rpc = "ended" => stop_reporting_thread = 1
  /\ mpc \in {"wait", "asleep", "stop"} => stop_reporting_thread = 0

\* The camera runs only between StartAcquisition and AbortAcquisition.
CameraInv ==
  /\ waiter # "none" <=> mpc = "asleep"
  /\ mpc \in {"idle", "start", "return"} => ~acquiring
  /\ status # "none" => ~acquiring

\* How status and answer go with each place.
AnswerInv ==
  /\ mpc \in {"start", "total", "copy", "save"} \cup Waiting => status = "none"
  /\ mpc \in {"stop", "join"} => status \in {"none", "waitfailed"}
  /\ mpc \in {"start"} \cup Body => answers = 0

\* The waits of this series that were satisfied.
Waits == IF mpc \in Waited THEN Len(saved) + 1 ELSE Len(saved)

\* There are no more waits than exposures, and an event that has not been used
\* up is one exposure more.  A series that was refused sees no event.
CountInv ==
  /\ mpc = "start" => saved = <<>>
  /\ mpc \in Body /\ status = "none" /\ acquiring =>
       /\ exposed <= num_images
       /\ Waits <= exposed
       /\ event => Waits < exposed
  /\ mpc \in Body /\ status = "none" /\ ~acquiring =>
       ~event /\ saved = <<>> /\ mpc \in Waiting

\* The files are in order, and none is newer than what has arrived.
OrderInv ==
  /\ Len(saved) <= num_images
  /\ \A i \in 1..Len(saved) : saved[i] <= available
  /\ \A i, j \in 1..Len(saved) : i < j => saved[i] <= saved[j]
  /\ mpc = "save" => /\ img_buffer <= available
                     /\ \A i \in 1..Len(saved) : saved[i] <= img_buffer

\* The last file is as new as the count that was read before it.
LastInv ==
  /\ mpc = "start" => lAcquired = 0
  /\ mpc \in Waiting \cup {"stop", "join", "total"} /\ lAcquired > 0 =>
       Len(saved) > 0 /\ lAcquired <= saved[Len(saved)]
  /\ mpc = "copy" => lAcquired <= available
  /\ mpc = "save" => lAcquired <= img_buffer
  /\ OkHasLastImage

IInv == TypeOK /\ ThreadInv /\ CameraInv /\ AnswerInv /\ CountInv /\ OrderInv
        /\ LastInv

-----------------------------------------------------------------------------
\* The list of saved files grows by the image in the buffer.
LEMMA SaveAppends ==
  ASSUME TypeOK, SaveImage
  PROVE  /\ saved' \in Seq(Images)
         /\ Len(saved') = Len(saved) + 1
         /\ \A i \in 1..Len(saved) : saved'[i] = saved[i]
         /\ saved'[Len(saved) + 1] = img_buffer
<1>1. saved \in Seq(Images) /\ img_buffer \in Images
  BY DEF TypeOK
<1>2. saved' = Append(saved, img_buffer)
  BY DEF SaveImage
<1> QED
  BY <1>1, <1>2, AppendProperties

\* The numbers of the model are naturals.
LEMMA Numbers ==
  ASSUME TypeOK
  PROVE  /\ MaxImages \in Nat
         /\ exposed \in Nat /\ available \in Nat /\ available <= exposed
         /\ exposed <= MaxImages
         /\ num_images \in Nat /\ lAcquired \in Nat /\ img_buffer \in Nat
         /\ num_images <= MaxImages
         /\ Len(saved) \in Nat
         /\ \A i \in 1..Len(saved) : saved[i] \in Nat
<1>1. MaxImages \in Nat /\ FrameCap = MaxImages
  BY KineticAssumption
<1>2. exposed \in 0..FrameCap /\ available \in 0..exposed
  BY DEF TypeOK, CameraTypeOK
<1>3. num_images \in Images /\ lAcquired \in Images /\ img_buffer \in Images
  BY DEF TypeOK
<1>4. saved \in Seq(Images)
  BY DEF TypeOK
<1>5. Len(saved) \in Nat /\ \A i \in 1..Len(saved) : saved[i] \in Images
  BY <1>4
<1> QED
  BY <1>1, <1>2, <1>3, <1>5 DEF Images

\* The daemon starts with no reporter, no acquisition and nothing saved.
LEMMA InitIInv == Init => IInv
<1> SUFFICES ASSUME Init PROVE IInv
  OBVIOUS
<1> USE DEF Init, CameraInit
<1>1. TypeOK
  <2>1. acquiring \in BOOLEAN /\ event \in BOOLEAN
    BY Zenon
  <2>2. exposed \in 0..FrameCap /\ available \in 0..exposed
    BY CameraAssumption
  <2>3. CameraTypeOK
    BY <2>1, <2>2 DEF CameraTypeOK
  <2>4. {num_images, lAcquired, img_buffer} \subseteq Images
    BY KineticAssumption DEF Images
  <2> QED
    BY <2>3, <2>4 DEF TypeOK
<1>2. ThreadInv /\ CameraInv /\ AnswerInv
  BY DEF ThreadInv, CameraInv, AnswerInv, Waiting, Waited, Body, WithReporter
<1>3. CountInv /\ OrderInv /\ LastInv
  BY DEF CountInv, OrderInv, LastInv, OkHasLastImage, Waiting, Waited, Body
<1> QED
  BY <1>1, <1>2, <1>3 DEF IInv

\* The camera's variables keep their types.
LEMMA CameraTypePreserved == IInv /\ [Next]_vars => CameraTypeOK'
<1> SUFFICES ASSUME IInv, [Next]_vars PROVE CameraTypeOK'
  OBVIOUS
<1> USE DEF IInv, TypeOK, CameraTypeOK, cameraVars
<1>1. ASSUME NEW n \in Images, ImageCommand(n) PROVE CameraTypeOK'
  BY <1>1 DEF ImageCommand
<1>2. CASE Start
  <2>1. acquiring' \in BOOLEAN /\ event' \in BOOLEAN
    BY <1>2, Zenon DEF Start, StartAcquisition, StartRefused
  <2>2. exposed' \in 0..FrameCap /\ available' \in 0..exposed'
    BY <1>2, Numbers, KineticAssumption DEF Start, StartAcquisition, StartRefused
  <2>3. waiter' \in {"none", "asleep", "cancelled"}
    BY <1>2 DEF Start, StartAcquisition, StartRefused
  <2> QED
    BY <2>1, <2>2, <2>3
<1>3. CASE SpawnReporter \/ FallAsleep
  BY <1>3 DEF SpawnReporter, FallAsleep, EnterWait
<1>4. CASE WaitDone
  BY <1>4 DEF WaitDone, WaitSucceeds
<1>5. CASE WaitFails
  BY <1>5 DEF WaitFails, WaitReturnsError
<1>6. CASE StopReporter \/ JoinReporter
  BY <1>6 DEF StopReporter, JoinReporter
<1>7. CASE CountAcquired \/ GetMostRecentImage
  BY <1>7 DEF CountAcquired, GetMostRecentImage
<1>8. CASE CopyFails \/ SaveFails
  <2>1. acquiring' \in BOOLEAN /\ event' \in BOOLEAN
    BY <1>8, Zenon DEF CopyFails, SaveFails
  <2>2. exposed' \in 0..FrameCap /\ available' \in 0..exposed'
    BY <1>8, Numbers, KineticAssumption DEF CopyFails, SaveFails
  <2>3. waiter' \in {"none", "asleep", "cancelled"}
    BY <1>8 DEF CopyFails, SaveFails
  <2> QED
    BY <2>1, <2>2, <2>3
<1>9. CASE SaveImage
  BY <1>9 DEF SaveImage
<1>10. CASE AnswerOk \/ Return
  <2>1. acquiring' \in BOOLEAN /\ event' \in BOOLEAN
    BY <1>10, Zenon DEF AnswerOk, Return, AbortAcquisition
  <2>2. exposed' \in 0..FrameCap /\ available' \in 0..exposed'
    BY <1>10, Numbers, KineticAssumption DEF AnswerOk, Return, AbortAcquisition
  <2>3. waiter' \in {"none", "asleep", "cancelled"}
    BY <1>10 DEF AnswerOk, Return, AbortAcquisition
  <2> QED
    BY <2>1, <2>2, <2>3
<1>11. CASE ReporterNext
  BY <1>11 DEF ReporterNext, ReporterGoesOn, ReportProgress, ReporterEnds,
            ReporterGoes
<1>12. CASE CameraNext
  <2>1. acquiring' \in BOOLEAN /\ event' \in BOOLEAN
    BY <1>12, Zenon DEF CameraNext, ExposeSeries, Transfer
  <2>2. exposed' \in 0..FrameCap /\ available' \in 0..exposed'
    BY <1>12, Numbers, KineticAssumption DEF CameraNext, ExposeSeries, Transfer
  <2>3. waiter' \in {"none", "asleep", "cancelled"}
    BY <1>12 DEF CameraNext, ExposeSeries, Transfer
  <2> QED
    BY <2>1, <2>2, <2>3
<1>13. CASE UNCHANGED vars
  BY <1>13 DEF vars
<1> QED
  BY <1>1, <1>2, <1>3, <1>4, <1>5, <1>6, <1>7, <1>8, <1>9, <1>10, <1>11,
     <1>12, <1>13
     DEF Next, MainNext

\* And so do those of the scan; the count never exceeds the series.
LEMMA TypePreserved == IInv /\ [Next]_vars => TypeOK'
<1> SUFFICES ASSUME IInv, [Next]_vars PROVE TypeOK'
  OBVIOUS
<1> USE DEF IInv, TypeOK, AnswerInv, Waiting, Waited, Body, scanVars, MainGoes
<1>0. CameraTypeOK'
  BY CameraTypePreserved
<1>a. Images \subseteq Nat /\ available \in Images
  BY Numbers DEF Images
<1>1. ASSUME NEW n \in Images, ImageCommand(n) PROVE TypeOK'
  <2>1. {n, 0} \subseteq Images /\ saved' \in Seq(Images)
    BY <1>1, KineticAssumption DEF ImageCommand, Images
  <2> QED
    BY <1>0, <1>1, <2>1 DEF ImageCommand
<1>2. CASE Start
  BY <1>2, <1>0, <1>a DEF Start, StartAcquisition, StartRefused
<1>3. CASE SpawnReporter \/ FallAsleep
  BY <1>3, <1>0, <1>a DEF SpawnReporter, FallAsleep, EnterWait
<1>4. CASE WaitDone
  BY <1>4, <1>0, <1>a DEF WaitDone, WaitSucceeds
<1>5. CASE WaitFails
  BY <1>5, <1>0, <1>a DEF WaitFails, WaitReturnsError
<1>6. CASE StopReporter \/ JoinReporter
  BY <1>6, <1>0, <1>a DEF StopReporter, JoinReporter
<1>7. CASE CountAcquired \/ GetMostRecentImage
  BY <1>7, <1>0, <1>a DEF CountAcquired, GetMostRecentImage
<1>8. CASE CopyFails \/ SaveFails
  BY <1>8, <1>0, <1>a DEF CopyFails, SaveFails
<1>9. CASE SaveImage
  BY <1>0, <1>9, SaveAppends DEF TypeOK, SaveImage
<1>10. CASE AnswerOk \/ Return
  BY <1>10, <1>0, <1>a DEF AnswerOk, Return, AbortAcquisition
<1>11. CASE ReporterNext
  BY <1>11, <1>0, <1>a DEF ReporterNext, ReporterGoesOn, ReportProgress, ReporterEnds,
            ReporterGoes
<1>12. CASE CameraNext
  BY <1>12, <1>0, <1>a DEF CameraNext, ExposeSeries, Transfer
<1>13. CASE UNCHANGED vars
  BY <1>13, <1>0, <1>a DEF vars
<1> QED
  BY <1>1, <1>2, <1>3, <1>4, <1>5, <1>6, <1>7, <1>8, <1>9, <1>10, <1>11,
     <1>12, <1>13
     DEF Next, MainNext

\* Every step keeps the reporter where the control flow has it.
LEMMA ThreadPreserved == IInv /\ [Next]_vars => ThreadInv'
<1> SUFFICES ASSUME IInv, [Next]_vars PROVE ThreadInv'
  OBVIOUS
<1> USE DEF IInv, TypeOK, ThreadInv, WithReporter, scanVars, MainGoes
<1>1. ASSUME NEW n \in Images, ImageCommand(n) PROVE ThreadInv'
  BY <1>1 DEF ImageCommand
<1>2. CASE Start
  BY <1>2 DEF Start, StartAcquisition, StartRefused
<1>3. CASE SpawnReporter \/ FallAsleep
  BY <1>3 DEF SpawnReporter, FallAsleep, EnterWait
<1>4. CASE WaitDone
  BY <1>4 DEF WaitDone, WaitSucceeds
<1>5. CASE WaitFails
  BY <1>5 DEF WaitFails, WaitReturnsError
<1>6. CASE StopReporter \/ JoinReporter
  BY <1>6 DEF StopReporter, JoinReporter
<1>7. CASE CountAcquired \/ GetMostRecentImage
  BY <1>7 DEF CountAcquired, GetMostRecentImage
<1>8. CASE CopyFails \/ SaveFails
  BY <1>8 DEF CopyFails, SaveFails
<1>9. CASE SaveImage
  BY <1>9 DEF SaveImage
<1>10. CASE AnswerOk \/ Return
  BY <1>10 DEF AnswerOk, Return, AbortAcquisition
<1>11. CASE ReporterNext
  BY <1>11 DEF ReporterNext, ReporterGoesOn, ReportProgress, ReporterEnds,
            ReporterGoes
<1>12. CASE CameraNext
  BY <1>12 DEF CameraNext, ExposeSeries, Transfer
<1>13. CASE UNCHANGED vars
  BY <1>13 DEF vars
<1> QED
  BY <1>1, <1>2, <1>3, <1>4, <1>5, <1>6, <1>7, <1>8, <1>9, <1>10, <1>11,
     <1>12, <1>13
     DEF Next, MainNext

\* No step leaves the camera acquiring outside an acquisition.
LEMMA CameraPreserved == IInv /\ [Next]_vars => CameraInv'
<1> SUFFICES ASSUME IInv, [Next]_vars PROVE CameraInv'
  OBVIOUS
<1> USE DEF IInv, CameraInv, AnswerInv, Waiting, Waited, Body, scanVars,
            cameraVars, MainGoes
<1>1. ASSUME NEW n \in Images, ImageCommand(n) PROVE CameraInv'
  BY <1>1 DEF ImageCommand
<1>2. CASE Start
  BY <1>2 DEF Start, StartAcquisition, StartRefused
<1>3. CASE SpawnReporter \/ FallAsleep
  BY <1>3 DEF SpawnReporter, FallAsleep, EnterWait
<1>4. CASE WaitDone
  BY <1>4 DEF WaitDone, WaitSucceeds
<1>5. CASE WaitFails
  BY <1>5 DEF WaitFails, WaitReturnsError
<1>6. CASE StopReporter \/ JoinReporter
  BY <1>6 DEF StopReporter, JoinReporter
<1>7. CASE CountAcquired \/ GetMostRecentImage
  BY <1>7 DEF CountAcquired, GetMostRecentImage
<1>8. CASE CopyFails \/ SaveFails
  BY <1>8 DEF CopyFails, SaveFails
<1>9. CASE SaveImage
  BY <1>9 DEF SaveImage
<1>10. CASE AnswerOk \/ Return
  BY <1>10 DEF AnswerOk, Return, AbortAcquisition
<1>11. CASE ReporterNext
  BY <1>11 DEF ReporterNext, ReporterGoesOn, ReportProgress, ReporterEnds,
            ReporterGoes
<1>12. CASE CameraNext
  BY <1>12 DEF CameraNext, ExposeSeries, Transfer
<1>13. CASE UNCHANGED vars
  BY <1>13 DEF vars
<1> QED
  BY <1>1, <1>2, <1>3, <1>4, <1>5, <1>6, <1>7, <1>8, <1>9, <1>10, <1>11,
     <1>12, <1>13
     DEF Next, MainNext

\* Every step keeps the answer in line with the place.
LEMMA AnswerPreserved == IInv /\ [Next]_vars => AnswerInv'
<1> SUFFICES ASSUME IInv, [Next]_vars PROVE AnswerInv'
  OBVIOUS
<1> USE DEF IInv, AnswerInv, Waiting, Waited, Body, scanVars, MainGoes
<1>1. ASSUME NEW n \in Images, ImageCommand(n) PROVE AnswerInv'
  BY <1>1 DEF ImageCommand
<1>2. CASE Start
  BY <1>2 DEF Start, StartAcquisition, StartRefused
<1>3. CASE SpawnReporter \/ FallAsleep
  BY <1>3 DEF SpawnReporter, FallAsleep, EnterWait
<1>4. CASE WaitDone
  BY <1>4 DEF WaitDone, WaitSucceeds
<1>5. CASE WaitFails
  BY <1>5 DEF WaitFails, WaitReturnsError
<1>6. CASE StopReporter \/ JoinReporter
  BY <1>6 DEF StopReporter, JoinReporter
<1>7. CASE CountAcquired \/ GetMostRecentImage
  BY <1>7 DEF CountAcquired, GetMostRecentImage
<1>8. CASE CopyFails \/ SaveFails
  BY <1>8 DEF CopyFails, SaveFails
<1>9. CASE SaveImage
  BY <1>9 DEF SaveImage
<1>10. CASE AnswerOk \/ Return
  BY <1>10 DEF AnswerOk, Return, AbortAcquisition
<1>11. CASE ReporterNext
  BY <1>11 DEF ReporterNext, ReporterGoesOn, ReportProgress, ReporterEnds,
            ReporterGoes
<1>12. CASE CameraNext
  BY <1>12 DEF CameraNext, ExposeSeries, Transfer
<1>13. CASE UNCHANGED vars
  BY <1>13 DEF vars
<1> QED
  BY <1>1, <1>2, <1>3, <1>4, <1>5, <1>6, <1>7, <1>8, <1>9, <1>10, <1>11,
     <1>12, <1>13
     DEF Next, MainNext

\* Every step keeps the waits behind the exposures.
LEMMA CountPreserved == IInv /\ [Next]_vars => CountInv'
<1> SUFFICES ASSUME IInv, [Next]_vars PROVE CountInv'
  OBVIOUS
<1> USE DEF IInv, CountInv, CameraInv, AnswerInv, Waits, Waiting, Waited, Body,
            scanVars, cameraVars, MainGoes
<1>1. ASSUME NEW n \in Images, ImageCommand(n) PROVE CountInv'
  BY <1>1 DEF ImageCommand
<1>2. CASE Start
  BY <1>2, Numbers DEF Start, StartAcquisition, StartRefused
<1>3. CASE SpawnReporter \/ FallAsleep
  BY <1>3, Numbers DEF SpawnReporter, FallAsleep, EnterWait
<1>4. CASE WaitDone
  BY <1>4, Numbers DEF WaitDone, WaitSucceeds
<1>5. CASE WaitFails
  BY <1>5, Numbers DEF WaitFails, WaitReturnsError
<1>6. CASE StopReporter \/ JoinReporter
  BY <1>6, Numbers DEF StopReporter, JoinReporter
<1>7. CASE CountAcquired \/ GetMostRecentImage
  BY <1>7, Numbers DEF CountAcquired, GetMostRecentImage
<1>8. CASE CopyFails \/ SaveFails
  BY <1>8, Numbers DEF CopyFails, SaveFails
<1>9. CASE SaveImage
  BY <1>9, Numbers, SaveAppends DEF SaveImage
<1>10. CASE AnswerOk \/ Return
  BY <1>10, Numbers DEF AnswerOk, Return, AbortAcquisition
<1>11. CASE ReporterNext
  BY <1>11, Numbers DEF ReporterNext, ReporterGoesOn, ReportProgress, ReporterEnds,
            ReporterGoes
<1>12. CASE CameraNext
  BY <1>12, Numbers DEF CameraNext, ExposeSeries, Transfer
<1>13. CASE UNCHANGED vars
  BY <1>13, Numbers DEF vars
<1> QED
  BY <1>1, <1>2, <1>3, <1>4, <1>5, <1>6, <1>7, <1>8, <1>9, <1>10, <1>11,
     <1>12, <1>13
     DEF Next, MainNext

\* Every step keeps the files in order.
LEMMA OrderPreserved == IInv /\ [Next]_vars => OrderInv'
<1> SUFFICES ASSUME IInv, [Next]_vars PROVE OrderInv'
  OBVIOUS
<1> USE DEF IInv, OrderInv, CountInv, AnswerInv, Waits, Waiting, Waited, Body,
            scanVars, cameraVars, MainGoes
<1>1. ASSUME NEW n \in Images, ImageCommand(n) PROVE OrderInv'
  <2>1. n \in Nat
    BY KineticAssumption DEF Images
  <2>2. saved' = <<>> /\ Len(saved') = 0 /\ num_images' = n /\ mpc' = "start"
    BY <1>1 DEF ImageCommand
  <2> QED
    BY <2>1, <2>2
<1>2. CASE Start
  BY <1>2, Numbers DEF Start, StartAcquisition, StartRefused
<1>3. CASE SpawnReporter \/ FallAsleep
  BY <1>3, Numbers DEF SpawnReporter, FallAsleep, EnterWait
<1>4. CASE WaitDone
  BY <1>4, Numbers DEF WaitDone, WaitSucceeds
<1>5. CASE WaitFails
  BY <1>5, Numbers DEF WaitFails, WaitReturnsError
<1>6. CASE StopReporter \/ JoinReporter
  BY <1>6, Numbers DEF StopReporter, JoinReporter
<1>7. CASE CountAcquired \/ GetMostRecentImage
  BY <1>7, Numbers DEF CountAcquired, GetMostRecentImage
<1>8. CASE CopyFails \/ SaveFails
  BY <1>8, Numbers DEF CopyFails, SaveFails
<1>9. CASE SaveImage
  BY <1>9, Numbers, SaveAppends DEF SaveImage
<1>10. CASE AnswerOk \/ Return
  BY <1>10, Numbers DEF AnswerOk, Return, AbortAcquisition
<1>11. CASE ReporterNext
  BY <1>11, Numbers DEF ReporterNext, ReporterGoesOn, ReportProgress, ReporterEnds,
            ReporterGoes
<1>12. CASE CameraNext
  BY <1>12, Numbers DEF CameraNext, ExposeSeries, Transfer
<1>13. CASE UNCHANGED vars
  BY <1>13, Numbers DEF vars
<1> QED
  BY <1>1, <1>2, <1>3, <1>4, <1>5, <1>6, <1>7, <1>8, <1>9, <1>10, <1>11,
     <1>12, <1>13
     DEF Next, MainNext

\* Every step keeps the last file as new as the count.
LEMMA LastPreserved == IInv /\ [Next]_vars => LastInv'
<1> SUFFICES ASSUME IInv, [Next]_vars PROVE LastInv'
  OBVIOUS
<1> USE DEF IInv, LastInv, OrderInv, CountInv, CameraInv, AnswerInv, OkHasLastImage,
            Waits, Waiting, Waited, Body, scanVars, cameraVars, MainGoes
<1>1. ASSUME NEW n \in Images, ImageCommand(n) PROVE LastInv'
  BY <1>1 DEF ImageCommand
<1>2. CASE Start
  BY <1>2, Numbers DEF Start, StartAcquisition, StartRefused
<1>3. CASE SpawnReporter \/ FallAsleep
  BY <1>3, Numbers DEF SpawnReporter, FallAsleep, EnterWait
<1>4. CASE WaitDone
  BY <1>4, Numbers DEF WaitDone, WaitSucceeds
<1>5. CASE WaitFails
  BY <1>5, Numbers DEF WaitFails, WaitReturnsError
<1>6. CASE StopReporter \/ JoinReporter
  BY <1>6, Numbers DEF StopReporter, JoinReporter
<1>7. CASE CountAcquired \/ GetMostRecentImage
  BY <1>7, Numbers DEF CountAcquired, GetMostRecentImage
<1>8. CASE CopyFails \/ SaveFails
  BY <1>8, Numbers DEF CopyFails, SaveFails
<1>9. CASE SaveImage
  BY <1>9, Numbers, SaveAppends DEF SaveImage
<1>10. CASE AnswerOk \/ Return
  BY <1>10, Numbers DEF AnswerOk, Return, AbortAcquisition
<1>11. CASE ReporterNext
  BY <1>11, Numbers DEF ReporterNext, ReporterGoesOn, ReportProgress, ReporterEnds,
            ReporterGoes
<1>12. CASE CameraNext
  BY <1>12, Numbers DEF CameraNext, ExposeSeries, Transfer
<1>13. CASE UNCHANGED vars
  BY <1>13, Numbers DEF vars
<1> QED
  BY <1>1, <1>2, <1>3, <1>4, <1>5, <1>6, <1>7, <1>8, <1>9, <1>10, <1>11,
     <1>12, <1>13
     DEF Next, MainNext

\* The strengthening holds in every reachable state.
THEOREM Invariance == Spec => []IInv
<1>1. IInv /\ [Next]_vars => IInv'
  BY TypePreserved, ThreadPreserved, CameraPreserved, AnswerPreserved,
     CountPreserved, OrderPreserved, LastPreserved DEF IInv
<1> QED
  BY <1>1, InitIInv, PTL DEF Spec

\* Every variable stays in its range: the count of the program never exceeds
\* the series, and there is at most one answer.
THEOREM TypeCorrect == Spec => []TypeOK
<1>1. IInv => TypeOK
  BY DEF IInv
<1> QED
  BY <1>1, Invariance, PTL

\* However far the camera is ahead of the loop, there are no more files than
\* images asked for, in the order they were taken (get_acquisition.cpp:243-284).
THEOREM FilesAreOrdered == Spec => []FilesInOrder
<1>1. IInv => FilesInOrder
  <2> SUFFICES ASSUME IInv PROVE FilesInOrder
    OBVIOUS
  <2>1. available <= exposed /\ available \in Nat /\ exposed \in Nat
        /\ \A i \in 1..Len(saved) : saved[i] \in Nat
    BY Numbers DEF IInv
  <2> QED
    BY <2>1 DEF IInv, OrderInv, FilesInOrder
<1> QED
  BY <1>1, Invariance, PTL

\* A series that is answered "ok" has its last image in its last file.
THEOREM OkHasLast == Spec => []OkHasLastImage
<1>1. IInv => OkHasLastImage
  BY DEF IInv, LastInv
<1> QED
  BY <1>1, Invariance, PTL

\* Whatever way a command ended, no reporter and no acquisition of it is left.
THEOREM CleanAtIdle == Spec => []IdleIsClean
<1>1. IInv => IdleIsClean
  BY DEF IInv, ThreadInv, CameraInv, IdleIsClean, WithReporter
<1> QED
  BY <1>1, Invariance, PTL

\* The reporter of an image outlives the wait for it.
THEOREM ReporterStays == Spec => []ReporterOutlastsWait
<1>1. IInv => ReporterOutlastsWait
  BY DEF IInv, ThreadInv, ReporterOutlastsWait
<1> QED
  BY <1>1, Invariance, PTL
-----------------------------------------------------------------------------
(* How long a series takes, and the join of a reporter                     *)

\* The steps the main thread has left: eight for each image, and the way out.
StepsLeft ==
  CASE mpc \in {"start", "loop", "wait", "asleep"} ->
         8 * (num_images - Len(saved)) +
           (CASE mpc = "start" -> 10 [] mpc = "loop" -> 9
              [] mpc = "wait" -> 8 [] mpc = "asleep" -> 7)
    [] mpc \in {"stop", "join", "total", "copy", "save"} ->
         8 * (num_images - Len(saved)) +
           (CASE mpc = "stop" -> 6 [] mpc = "join" -> 5 [] mpc = "total" -> 4
              [] mpc = "copy" -> 3 [] mpc = "save" -> 2)
    [] mpc = "return" -> 1
    [] mpc = "idle" -> 0

\* The turns a reporter has left that has been told to end.
ReporterLeft ==
  CASE rpc = "send" -> 2
    [] rpc \in {"sleep", "test"} -> 1
    [] OTHER -> 0

HasStepsLeft == StepsLeft \in Nat

\* A reporter that is joined was told to end.
JoinedIsTold == mpc = "join" => stop_reporting_thread = 1 /\ rpc # "none"

\* Every step of the main thread takes something off, only the next command puts
\* something on; and while a reporter is waited for, each of its steps brings its end
\* nearer.
StepsRunOut ==
  [][/\ MainNext => StepsLeft' < StepsLeft
     /\ \/ StepsLeft' <= StepsLeft
        \/ \E n \in Images : ImageCommand(n) /\ StepsLeft' <= 8 * n + 10
     /\ mpc = "join" /\ ReporterNext => ReporterLeft' < ReporterLeft]_vars

\* The flag of the reporter is raised on the only way to the join, and lowered only
\* after it.
LEMMA FlagPreserved == IInv /\ JoinedIsTold /\ [Next]_vars => JoinedIsTold'
<1> SUFFICES ASSUME IInv, JoinedIsTold, [Next]_vars PROVE JoinedIsTold'
  OBVIOUS
<1> USE DEF IInv, ThreadInv, WithReporter, JoinedIsTold, scanVars, MainGoes
<1>1. ASSUME NEW n \in Images, ImageCommand(n) PROVE JoinedIsTold'
  BY <1>1 DEF ImageCommand
<1>2. CASE MainNext
  BY <1>2
     DEF MainNext, Start, SpawnReporter, FallAsleep, WaitDone, WaitFails, StopReporter,
         JoinReporter, CountAcquired, GetMostRecentImage, CopyFails, SaveImage,
         SaveFails, AnswerOk, Return
<1>3. CASE ReporterNext
  BY <1>3 DEF ReporterNext, ReporterGoesOn, ReportProgress, ReporterEnds, ReporterGoes
<1>4. CASE CameraNext \/ UNCHANGED vars
  BY <1>4 DEF CameraNext, vars
<1> QED
  BY <1>1, <1>2, <1>3, <1>4 DEF Next

\* A turn of the loop saves an image, and every other way leads out of it; there are
\* never more turns than images, since a wait uses up an exposure.
LEMMA MainRunsOut ==
  ASSUME IInv, MainNext
  PROVE  StepsLeft' < StepsLeft
<1> DEFINE left == num_images - Len(saved)
<1>1. /\ num_images \in Nat /\ Len(saved) \in Nat /\ left \in Nat
      /\ mpc = "start" => saved = <<>>
  BY Numbers DEF IInv, OrderInv, CountInv
<1>2. CASE SaveImage
  <2>1. Len(saved') = Len(saved) + 1 /\ num_images' = num_images
    BY <1>2, SaveAppends DEF IInv, SaveImage
  <2>2. StepsLeft' = 8 * (num_images - (Len(saved) + 1)) + 9
    BY <1>2, <2>1 DEF SaveImage, MainGoes, StepsLeft
  <2>3. StepsLeft = 8 * (num_images - Len(saved)) + 2
    BY <1>2 DEF SaveImage, MainGoes, StepsLeft
  <2> QED
    BY <1>1, <2>2, <2>3
<1>3. CASE ~SaveImage
  <2> USE <1>1 DEF StepsLeft, scanVars, MainGoes
  <2>1. CASE Start \/ SpawnReporter \/ FallAsleep
    BY <2>1 DEF Start, SpawnReporter, FallAsleep
  <2>2. CASE WaitDone \/ WaitFails \/ StopReporter \/ JoinReporter
    BY <2>2 DEF WaitDone, WaitFails, StopReporter, JoinReporter
  <2>3. CASE CountAcquired \/ GetMostRecentImage \/ CopyFails \/ SaveFails
    BY <2>3 DEF CountAcquired, GetMostRecentImage, CopyFails, SaveFails
  <2>4. CASE AnswerOk \/ Return
    BY <2>4 DEF AnswerOk, Return
  <2> QED
    BY <1>3, <2>1, <2>2, <2>3, <2>4 DEF MainNext
<1> QED
  BY <1>2, <1>3

\* A command of n images takes at most 8n + 10 steps of the main thread, whatever the
\* camera and the reporters do, and no join waits for a reporter that was not told to
\* end. With the threads running the second part is ReporterIsJoined
\* (get_acquisition.cpp:275-276).
THEOREM SeriesIsBounded == Spec => [](StepsLeft \in Nat /\ JoinedIsTold) /\ StepsRunOut
<1>1. Init => JoinedIsTold
  BY DEF Init, JoinedIsTold
<1>2. Spec => []JoinedIsTold
  BY <1>1, Invariance, FlagPreserved, PTL DEF Spec
<1>3. HasStepsLeft => StepsLeft \in Nat
  BY DEF HasStepsLeft
<1>4. IInv => HasStepsLeft
  <2> SUFFICES ASSUME IInv PROVE StepsLeft \in Nat
    BY DEF HasStepsLeft
  <2>1. /\ mpc \in {"idle", "start", "loop", "wait", "asleep", "stop", "join", "total",
                    "copy", "save", "return"}
        /\ num_images \in Nat /\ Len(saved) \in Nat /\ Len(saved) <= num_images
    BY Numbers DEF IInv, TypeOK, OrderInv
  <2> QED
    BY <2>1 DEF StepsLeft
<1>5. IInv /\ JoinedIsTold /\ HasStepsLeft /\ HasStepsLeft' /\ [Next]_vars =>
        [/\ MainNext => StepsLeft' < StepsLeft
         /\ \/ StepsLeft' <= StepsLeft
            \/ \E n \in Images : ImageCommand(n) /\ StepsLeft' <= 8 * n + 10
         /\ mpc = "join" /\ ReporterNext => ReporterLeft' < ReporterLeft]_vars
  <2> SUFFICES ASSUME IInv, JoinedIsTold, HasStepsLeft, HasStepsLeft', Next
               PROVE  /\ MainNext => StepsLeft' < StepsLeft
                      /\ \/ StepsLeft' <= StepsLeft
                         \/ \E n \in Images :
                              ImageCommand(n) /\ StepsLeft' <= 8 * n + 10
                      /\ mpc = "join" /\ ReporterNext => ReporterLeft' < ReporterLeft
    OBVIOUS
  <2>1. MainNext => StepsLeft' < StepsLeft
    BY MainRunsOut
  <2>2. mpc = "join" /\ ReporterNext => ReporterLeft' < ReporterLeft
    BY DEF JoinedIsTold, ReporterNext, ReporterGoesOn, ReportProgress, ReporterEnds,
           ReporterGoes, ReporterLeft
  <2>3. CASE MainNext
    BY <2>1, <2>2, <2>3 DEF HasStepsLeft
  <2>4. ASSUME NEW n \in Images, ImageCommand(n) PROVE StepsLeft' <= 8 * n + 10
    <3>1. n \in Nat
      BY KineticAssumption DEF Images
    <3>2. mpc' = "start" /\ num_images' = n /\ Len(saved') = 0
      BY <2>4 DEF ImageCommand, MainGoes
    <3>3. StepsLeft' = 8 * (n - 0) + 10
      BY <3>1, <3>2 DEF StepsLeft
    <3> QED
      BY <3>1, <3>3
  <2>5. CASE ReporterNext \/ CameraNext
    <3>1. UNCHANGED <<mpc, num_images, saved>>
      BY <2>5 DEF ReporterNext, ReporterGoesOn, ReportProgress, ReporterEnds, ReporterGoes,
                  CameraNext, scanVars
    <3>2. StepsLeft' = StepsLeft
      BY <3>1 DEF StepsLeft
    <3>3. StepsLeft' <= StepsLeft
      BY <3>2 DEF HasStepsLeft
    <3> QED
      BY <2>1, <2>2, <3>3
  <2> QED
    BY <2>1, <2>2, <2>3, <2>4, <2>5 DEF Next
<1> QED
  BY <1>2, <1>3, <1>4, <1>5, Invariance, PTL DEF Spec, StepsRunOut
=============================================================================
