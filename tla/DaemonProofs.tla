---------------------------- MODULE DaemonProofs ----------------------------
(***************************************************************************)
(* Proofs about Daemon, for every set of signals and of commands, every    *)
(* temperature and every time limit: the type invariant, that a daemon     *)
(* which was told to end leaves the detector safe, that its commands are   *)
(* answered once, and that the two ends of the connection wait for each    *)
(* other only after a silent command; and how many steps a cooling and a   *)
(* shutdown can take, with signals coming in between.                      *)
(*                                                                         *)
(* SwitchInv says how far system_shutdown() has come at each of its steps, *)
(* and that no step before it needs an SDK that is not there; with signals *)
(* it may start over at any point, also after ShutDown().  AnswerInv says  *)
(* who is being served and what he has been told at each step of chat().   *)
(***************************************************************************)
EXTENDS Daemon, SequenceTheorems, FiniteSetTheorems, TLAPS

AfterAbort == {"gettemp", "cooleroff", "warm", "warming", "off", "exit"}
AfterSwitch == {"warm", "warming", "off", "exit"}

SwitchInv ==
  /\ dpc \in CoolingSteps \union ServingSteps => sdk
  /\ ~sdk /\ ~fault => ~acquiring /\ ~cooler
  /\ dpc \in AfterAbort /\ ~fault => ~acquiring
  /\ dpc \in AfterSwitch /\ ~fault => ~cooler
  /\ dpc = "exit" => ~sdk
  /\ LeavesDetectorSafe

AnswerInv ==
  /\ dpc \in {"init", "bind", "accept"} => peer = "none" /\ command = "none" /\ dones = 0
  /\ dpc \in CoolingSteps =>
       /\ dones = 0
       /\ command = IF peer = "none" THEN "none" ELSE "settemp"
  /\ dpc \in {"recv", "resolve", "image", "stop"} => peer # "none"
  /\ dpc = "resolve" => command # "none" /\ dones = 0
  /\ dpc = "image" => command = "image" /\ dones = 0
  /\ dpc = "stop" => command = "image"
  /\ AnsweredOnce

IInv == TypeOK /\ SwitchInv /\ AnswerInv

-----------------------------------------------------------------------------
\* The daemon starts with the SDK closed and nobody served.
LEMMA InitIInv == Init => IInv
<1> SUFFICES ASSUME Init PROVE IInv
  OBVIOUS
<1> USE DEF Init, DetectorInit, SocketInit
<1>1. TypeOK
  <2>1. DetectorTypeOK
    <3>1. sdk \in BOOLEAN /\ acquiring \in BOOLEAN /\ cooler \in BOOLEAN
      BY Zenon
    <3>2. target \in Temps /\ temp \in Temps
      BY DetectorAssumption DEF Temps
    <3> QED
      BY <3>1, <3>2 DEF DetectorTypeOK
  <2>2. SocketTypeOK
    <3>1. unread \in BOOLEAN
      BY Zenon
    <3>2. toDaemon \in Seq(Commands) /\ Len(toDaemon) <= MaxPending
      BY SocketAssumption
    <3> QED
      BY <3>1, <3>2 DEF SocketTypeOK
  <2>3. reporting \in BOOLEAN /\ fault \in BOOLEAN
    BY Zenon
  <2> QED
    BY <2>1, <2>2, <2>3, DetectorAssumption, DaemonAssumption DEF TypeOK, Temps
<1>2. SwitchInv /\ AnswerInv
  BY DEF SwitchInv, AnswerInv, LeavesDetectorSafe, AnsweredOnce, CoolingSteps,
         ServingSteps, AfterAbort, AfterSwitch
<1> QED
  BY <1>1, <1>2 DEF IInv

\* Whatever step is interrupted, system_shutdown() has always come as far as its
\* place in the code says.
LEMMA SwitchPreserved == IInv /\ [Next]_vars => SwitchInv'
<1> SUFFICES ASSUME SwitchInv, [Next]_vars PROVE SwitchInv'
  BY DEF IInv
<1> USE DEF SwitchInv, LeavesDetectorSafe, CoolingSteps, ServingSteps, AfterAbort,
            AfterSwitch, Goes, endVars, detectorVars
<1>1. CASE StartUp \/ StartUpFails \/ Bind \/ BindThrows
  BY <1>1 DEF StartUp, StartUpFails, Bind, BindThrows, Initialize, Exits
<1>2. CASE ReportsTemperature \/ ReportsCooling \/ ResolveStatus \/ ImageAnswers
  BY <1>2 DEF ReportsTemperature, ReportsCooling, ResolveStatus, ImageAnswers,
              SendsAndGoes, BrokenPipe, Exits
<1>3. CASE BadTemperature
  BY <1>3 DEF BadTemperature, SendsAndGoes, BrokenPipe, Exits
<1>4. CASE SetsTemperature \/ SwitchesOn \/ Polls \/ SleepsCooling
  BY <1>4 DEF SetsTemperature, SwitchesOn, Polls, SleepsCooling, SetTemperature, CoolerON,
              CanSwitch
<1>5. CASE TimeIsUp \/ CoolingFails \/ CoolingSucceeds
  BY <1>5 DEF TimeIsUp, CoolingFails, CoolingSucceeds, Returns, SendsAndGoes, BrokenPipe,
              Exits
<1>6. CASE Receives \/ ClientGone \/ ResolveSettemp \/ ResolveSilently
  BY <1>6 DEF Receives, ClientGone, ResolveSettemp, ResolveSilently
<1>7. CASE ResolveImage \/ ImageEndsSilently \/ ImageStops \/ ResolveShutdown
  BY <1>7 DEF ResolveImage, ImageEndsSilently, ImageStops, ResolveShutdown, SetAcquiring
<1>8. CASE ShutdownNext
  <2>1. CASE AbortsAcquisition
    BY <2>1 DEF AbortsAcquisition, SetAcquiring
  <2>2. CASE ReadsTemperature \/ Warm \/ Warming
    BY <2>2 DEF ReadsTemperature, Warm, Warming
  <2>3. CASE SwitchesOff
    BY <2>3 DEF SwitchesOff, CoolerOFF, CanSwitch
  <2>4. CASE SwitchesOffFails
    BY <2>4 DEF SwitchesOffFails, CanSwitch
  <2>5. CASE ShutsDown \/ Ends
    BY <2>5 DEF ShutsDown, Ends, ShutDown, Exits
  <2> QED
    BY <1>8, <2>1, <2>2, <2>3, <2>4, <2>5 DEF ShutdownNext
<1>9. CASE AcceptsClient \/ AcceptFails
  BY <1>9 DEF AcceptsClient, AcceptFails, Exits
<1>10. CASE \E s \in Signals : Signal(s)
  BY <1>10 DEF Signal
<1>11. CASE ReporterSends
  BY <1>11 DEF ReporterSends, SendsAndGoes, BrokenPipe, Exits
<1>12. CASE ClientNext \/ DetectorNext
  BY <1>12 DEF ClientNext, DetectorNext, Drift
<1>13. CASE UNCHANGED vars
  BY <1>13 DEF vars
<1> QED
  BY <1>1, <1>2, <1>3, <1>4, <1>5, <1>6, <1>7, <1>8, <1>9, <1>10, <1>11, <1>12, <1>13
     DEF Next, MainNext

\* A "done" is sent at most once, and by the commands that send one.
LEMMA AnswerPreserved == IInv /\ [Next]_vars => AnswerInv'
<1> SUFFICES ASSUME IInv, [Next]_vars PROVE AnswerInv'
  OBVIOUS
<1>0. AnswerInv /\ peer \in {"none", "open", "gone", "reset"} /\ "none" \notin Commands
  BY SocketAssumption DEF IInv, TypeOK, SocketTypeOK
<1> USE <1>0 DEF AnswerInv, AnsweredOnce, CoolingSteps, Goes, commandVars, socketVars
<1>1. CASE StartUp \/ StartUpFails \/ Bind \/ BindThrows
  BY <1>1 DEF StartUp, StartUpFails, Bind, BindThrows, Exits
<1>2. CASE ReportsTemperature \/ ReportsCooling \/ ResolveStatus \/ ImageAnswers
  BY <1>2 DEF ReportsTemperature, ReportsCooling, ResolveStatus, ImageAnswers,
              SendsAndGoes, Send, BrokenPipe, Exits
<1>3. CASE BadTemperature
  BY <1>3 DEF BadTemperature, SendsAndGoes, Send, BrokenPipe, Exits
<1>4. CASE SetsTemperature \/ SwitchesOn \/ Polls \/ SleepsCooling
  BY <1>4 DEF SetsTemperature, SwitchesOn, Polls, SleepsCooling
<1>5. CASE TimeIsUp \/ CoolingFails \/ CoolingSucceeds
  BY <1>5 DEF TimeIsUp, CoolingFails, CoolingSucceeds, Returns, Serving, SendsAndGoes,
              Send, BrokenPipe, Exits
<1>6. CASE Receives
  <2>1. command' \in Commands
    BY <1>6, HeadTailProperties DEF Receives, Receive, IInv, TypeOK, SocketTypeOK
  <2> QED
    BY <1>6, <2>1 DEF Receives, Receive
<1>7. CASE ClientGone \/ ResolveSettemp \/ ResolveSilently
  BY <1>7 DEF ClientGone, ReceiveEnds, ResolveSettemp, ResolveSilently
<1>8. CASE ResolveImage \/ ImageEndsSilently \/ ImageStops \/ ResolveShutdown
  BY <1>8 DEF ResolveImage, ImageEndsSilently, ImageStops, ResolveShutdown
<1>9. CASE ShutdownNext
  BY <1>9 DEF ShutdownNext, AbortsAcquisition, ReadsTemperature, SwitchesOff,
              SwitchesOffFails, Warm, Warming, ShutsDown, Ends, Exits
<1>10. CASE AcceptsClient \/ AcceptFails
  BY <1>10 DEF AcceptsClient, Accept, AcceptFails, Exits
<1>11. CASE \E s \in Signals : Signal(s)
  BY <1>11 DEF Signal
<1>12. CASE ReporterSends
  BY <1>12 DEF ReporterSends, SendsAndGoes, Send, BrokenPipe, Exits
<1>13. CASE ClientNext
  BY <1>13 DEF ClientNext, ClientSends, ClientReads, ClientLeaves
<1>14. CASE DetectorNext \/ UNCHANGED vars
  BY <1>14 DEF DetectorNext, vars
<1> QED
  BY <1>1, <1>2, <1>3, <1>4, <1>5, <1>6, <1>7, <1>8, <1>9, <1>10, <1>11, <1>12, <1>13,
     <1>14 DEF Next, MainNext

-----------------------------------------------------------------------------
\* The pieces of TypeOK that do not concern the detector or the socket.
ProcessTypeOK ==
  /\ dpc \in CoolingSteps \union ShutdownSteps \union ServingSteps
           \union {"init", "exit", "exited"}
  /\ reporting \in BOOLEAN /\ fault \in BOOLEAN
  /\ command \in Commands \union {"none"}
  /\ dones \in {0, 1}
  /\ status \in {"error", "not_reached", "not_stabilized", "stabilized"}
  /\ current_temp \in Temps
  /\ polls \in 0..MaxPolls
  /\ caught \subseteq Signals
  /\ exit \in {"none", "init", "cooling", "bind", "accept", "sigpipe", "command",
               "signal"}

\* Every detector call keeps the detector in its range.
LEMMA DetectorStep ==
  ASSUME DetectorTypeOK,
         \/ Initialize \/ CoolerON \/ CoolerOFF \/ ShutDown \/ Drift
         \/ SetAcquiring(TRUE) \/ SetAcquiring(FALSE)
         \/ \E t \in Targets \union {0} : SetTemperature(t)
         \/ UNCHANGED detectorVars
  PROVE  DetectorTypeOK'
<1> USE DetectorAssumption DEF DetectorTypeOK, Temps
<1>1. CASE Initialize \/ CoolerON \/ CoolerOFF \/ ShutDown
  <2> USE <1>1 DEF Initialize, CoolerON, CoolerOFF, ShutDown
  <2>1. sdk' \in BOOLEAN /\ acquiring' \in BOOLEAN /\ cooler' \in BOOLEAN
    BY Zenon
  <2>2. target' \in Temps /\ temp' \in Temps
    OBVIOUS
  <2> QED
    BY <2>1, <2>2
<1>2. CASE SetAcquiring(TRUE) \/ SetAcquiring(FALSE)
  <2> USE <1>2 DEF SetAcquiring
  <2>1. sdk' \in BOOLEAN /\ acquiring' \in BOOLEAN /\ cooler' \in BOOLEAN
    BY Zenon
  <2>2. target' \in Temps /\ temp' \in Temps
    OBVIOUS
  <2> QED
    BY <2>1, <2>2
<1>3. CASE Drift
  BY <1>3 DEF Drift
<1>4. CASE \E t \in Targets \union {0} : SetTemperature(t)
  BY <1>4 DEF SetTemperature
<1>5. CASE UNCHANGED detectorVars
  BY <1>5 DEF detectorVars
<1> QED
  BY <1>1, <1>2, <1>3, <1>4, <1>5

\* Every socket call keeps the connection in its range.
LEMMA SocketStep ==
  ASSUME SocketTypeOK,
         \/ Accept \/ Send \/ Receive \/ ReceiveEnds \/ CloseChild \/ HangUp
         \/ \E c \in Commands : ClientSends(c)
         \/ ClientReads \/ ClientLeaves
         \/ UNCHANGED socketVars
  PROVE  SocketTypeOK'
<1> USE SocketAssumption DEF SocketTypeOK
<1>1. CASE Accept \/ ClientReads \/ ClientLeaves
  <2> USE <1>1 DEF Accept, ClientReads, ClientLeaves
  <2>1. unread' \in BOOLEAN
    BY Zenon
  <2> QED
    BY <2>1
<1>2. CASE Receive \/ ReceiveEnds \/ CloseChild \/ HangUp
  <2> USE <1>2 DEF Receive, ReceiveEnds, CloseChild, HangUp
  <2>1. unread' \in BOOLEAN
    BY Zenon
  <2>2. toDaemon' \in Seq(Commands) /\ Len(toDaemon') <= MaxPending
    <3>1. toDaemon' = <<>>
      BY Zenon
    <3> QED
      BY <3>1
  <2>3. cpc' \in {"away", "typing", "awaiting"} /\ peer' \in {"none", "open", "gone", "reset"}
    OBVIOUS
  <2> QED
    BY <2>1, <2>2, <2>3
<1>3. CASE Send
  <2> USE <1>3 DEF Send
  <2>1. unread' \in BOOLEAN
    BY Zenon
  <2> QED
    BY <2>1
<1>4. ASSUME NEW c \in Commands, ClientSends(c) PROVE SocketTypeOK'
  <2>1. toDaemon' \in Seq(Commands) /\ Len(toDaemon') = Len(toDaemon) + 1
    BY <1>4, AppendProperties DEF ClientSends
  <2>2. Len(toDaemon') <= MaxPending
    BY <1>4, <2>1, LenProperties DEF ClientSends
  <2> QED
    BY <1>4, <2>1, <2>2 DEF ClientSends
<1>5. CASE UNCHANGED socketVars
  BY <1>5 DEF socketVars
<1> QED
  BY <1>1, <1>2, <1>3, <1>4, <1>5

\* Each step of the daemon makes at most one call to the detector.
LEMMA DetectorPreserved == IInv /\ [Next]_vars => DetectorTypeOK'
<1> SUFFICES ASSUME IInv, [Next]_vars PROVE DetectorTypeOK'
  OBVIOUS
<1>0. DetectorTypeOK
  BY DEF IInv, TypeOK
<1>1. CASE StartUp
  BY <1>0, <1>1, DetectorStep DEF StartUp
<1>2. CASE SetsTemperature
  <2>1. \E t \in Targets \union {0} : SetTemperature(t)
    BY <1>2 DEF SetsTemperature
  <2> QED
    BY <1>0, <2>1, DetectorStep
<1>3. CASE SwitchesOn
  BY <1>0, <1>3, DetectorStep DEF SwitchesOn
<1>4. CASE ResolveImage \/ ImageStops \/ AbortsAcquisition
  BY <1>0, <1>4, DetectorStep DEF ResolveImage, ImageStops, AbortsAcquisition
<1>5. CASE SwitchesOff \/ ShutsDown
  BY <1>0, <1>5, DetectorStep DEF SwitchesOff, ShutsDown
<1>6. CASE DetectorNext
  BY <1>0, <1>6, DetectorStep DEF DetectorNext
<1>7. ASSUME UNCHANGED detectorVars PROVE DetectorTypeOK'
  BY <1>0, <1>7, DetectorStep
<1>8. CASE \/ StartUpFails \/ Bind \/ BindThrows \/ ReportsTemperature \/ Polls
           \/ ReportsCooling \/ SleepsCooling \/ Receives \/ ClientGone
           \/ ResolveSettemp \/ BadTemperature \/ ResolveStatus \/ ResolveSilently
           \/ ImageAnswers \/ ImageEndsSilently \/ ResolveShutdown
  BY <1>7, <1>8 DEF StartUpFails, Bind, BindThrows, ReportsTemperature, Polls,
     ReportsCooling, SleepsCooling, Receives, ClientGone, ResolveSettemp,
     BadTemperature, ResolveStatus, ResolveSilently, ImageAnswers, ImageEndsSilently,
     ResolveShutdown
<1>9. CASE TimeIsUp \/ CoolingFails \/ CoolingSucceeds
  BY <1>7, <1>9 DEF TimeIsUp, CoolingFails, CoolingSucceeds, Returns
<1>10. CASE ReadsTemperature \/ SwitchesOffFails \/ Warm \/ Warming \/ Ends
  BY <1>7, <1>10 DEF ReadsTemperature, SwitchesOffFails, Warm, Warming, Ends
<1>11. CASE \/ AcceptsClient \/ AcceptFails \/ (\E s \in Signals : Signal(s))
            \/ ReporterSends \/ ClientNext \/ UNCHANGED vars
  BY <1>7, <1>11 DEF AcceptsClient, AcceptFails, Signal, ReporterSends, ClientNext, vars
<1> QED
  BY <1>1, <1>2, <1>3, <1>4, <1>5, <1>6, <1>8, <1>9, <1>10, <1>11
     DEF Next, MainNext, ShutdownNext

\* Each step makes at most one call to the socket.
LEMMA SocketPreserved == IInv /\ [Next]_vars => SocketTypeOK'
<1> SUFFICES ASSUME IInv, [Next]_vars PROVE SocketTypeOK'
  OBVIOUS
<1>0. SocketTypeOK
  BY DEF IInv, TypeOK
<1>1. ASSUME Send \/ HangUp PROVE SocketTypeOK'
  BY <1>0, <1>1, SocketStep
<1>2. ASSUME UNCHANGED socketVars PROVE SocketTypeOK'
  BY <1>0, <1>2, SocketStep
<1>3. CASE StartUpFails \/ AcceptFails \/ Ends
  BY <1>1, <1>3 DEF StartUpFails, AcceptFails, Ends, Exits
<1>4. CASE \/ ReportsTemperature \/ ReportsCooling \/ BadTemperature \/ ResolveStatus
           \/ ImageAnswers \/ ReporterSends
  BY <1>1, <1>4 DEF ReportsTemperature, ReportsCooling, BadTemperature, ResolveStatus,
     ImageAnswers, ReporterSends, SendsAndGoes, BrokenPipe, Exits
<1>5. CASE TimeIsUp \/ CoolingFails \/ CoolingSucceeds
  BY <1>1, <1>2, <1>5 DEF TimeIsUp, CoolingFails, CoolingSucceeds, Returns,
     SendsAndGoes, BrokenPipe, Exits
<1>6. CASE Receives \/ ClientGone \/ ResolveShutdown \/ AcceptsClient
  BY <1>0, <1>6, SocketStep DEF Receives, ClientGone, ResolveShutdown, AcceptsClient
<1>7. CASE ClientNext
  BY <1>0, <1>7, SocketStep DEF ClientNext
<1>8. CASE \/ StartUp \/ Bind \/ BindThrows \/ SetsTemperature \/ SwitchesOn \/ Polls
           \/ SleepsCooling \/ ResolveSettemp \/ ResolveSilently \/ ResolveImage
           \/ ImageEndsSilently \/ ImageStops
  BY <1>2, <1>8 DEF StartUp, Bind, BindThrows, SetsTemperature, SwitchesOn, Polls,
     SleepsCooling, ResolveSettemp, ResolveSilently, ResolveImage, ImageEndsSilently,
     ImageStops
<1>9. CASE \/ AbortsAcquisition \/ ReadsTemperature \/ SwitchesOff \/ SwitchesOffFails
           \/ Warm \/ Warming \/ ShutsDown
  BY <1>2, <1>9 DEF AbortsAcquisition, ReadsTemperature, SwitchesOff, SwitchesOffFails,
     Warm, Warming, ShutsDown
<1>10. CASE (\E s \in Signals : Signal(s)) \/ DetectorNext \/ UNCHANGED vars
  BY <1>2, <1>10 DEF Signal, DetectorNext, vars
<1> QED
  BY <1>3, <1>4, <1>5, <1>6, <1>7, <1>8, <1>9, <1>10 DEF Next, MainNext, ShutdownNext

\* The daemon's own variables.  That dones stays at most one is AnswerInv's doing.
LEMMA ProcessPreserved == IInv /\ [Next]_vars => ProcessTypeOK'
<1> SUFFICES ASSUME IInv, [Next]_vars PROVE ProcessTypeOK'
  OBVIOUS
<1>0. /\ ProcessTypeOK /\ AnswerInv /\ temp \in Temps /\ toDaemon \in Seq(Commands)
      /\ MaxPolls \in Nat /\ Ambient \in Temps
  BY DetectorAssumption, DaemonAssumption
     DEF IInv, TypeOK, ProcessTypeOK, DetectorTypeOK, SocketTypeOK, Temps
<1> USE <1>0 DEF ProcessTypeOK, Goes, commandVars, loopVars, endVars, CoolingSteps,
            ShutdownSteps, ServingSteps
<1>1. CASE StartUp \/ StartUpFails \/ Bind \/ BindThrows \/ AcceptsClient \/ AcceptFails
  BY <1>1 DEF StartUp, StartUpFails, Bind, BindThrows, AcceptsClient, AcceptFails, Exits
<1>2. CASE ReportsTemperature \/ ReportsCooling \/ ResolveStatus \/ ReporterSends
  BY <1>2 DEF ReportsTemperature, ReportsCooling, ResolveStatus, ReporterSends,
              SendsAndGoes, BrokenPipe, Exits
<1>3. CASE BadTemperature \/ ImageAnswers
  BY <1>3 DEF BadTemperature, ImageAnswers, SendsAndGoes, BrokenPipe, Exits, AnswerInv
<1>4. CASE SetsTemperature \/ SwitchesOn \/ Polls \/ SleepsCooling
  BY <1>4 DEF SetsTemperature, SwitchesOn, Polls, SleepsCooling, TemperatureStatus
<1>5. CASE TimeIsUp \/ CoolingFails \/ CoolingSucceeds
  BY <1>5 DEF TimeIsUp, CoolingFails, CoolingSucceeds, Returns, SendsAndGoes,
              BrokenPipe, Exits, AnswerInv
<1>6. CASE Receives
  <2>1. command' \in Commands
    BY <1>6, HeadTailProperties DEF Receives, Receive
  <2> QED
    BY <1>6, <2>1 DEF Receives
<1>7. CASE ClientGone \/ ResolveSettemp \/ ResolveSilently
  BY <1>7 DEF ClientGone, ResolveSettemp, ResolveSilently
<1>8. CASE ResolveImage \/ ImageEndsSilently \/ ImageStops \/ ResolveShutdown
  <2> USE <1>8 DEF ResolveImage, ImageEndsSilently, ImageStops, ResolveShutdown
  <2>1. reporting' \in BOOLEAN
    BY Zenon
  <2> QED
    BY <2>1
<1>9. CASE AbortsAcquisition \/ SwitchesOffFails
  <2> USE <1>9 DEF AbortsAcquisition, SwitchesOffFails
  <2>1. fault' \in BOOLEAN
    BY Zenon
  <2> QED
    BY <2>1
<1>10. CASE ReadsTemperature \/ SwitchesOff \/ Warm \/ Warming \/ ShutsDown \/ Ends
  BY <1>10 DEF ReadsTemperature, SwitchesOff, Warm, Warming, ShutsDown, LocalsGone, Ends,
               Exits
<1>11. CASE \E s \in Signals : Signal(s)
  BY <1>11 DEF Signal, LocalsGone
<1>12. CASE ClientNext \/ DetectorNext \/ UNCHANGED vars
  BY <1>12 DEF ClientNext, DetectorNext, vars
<1> QED
  BY <1>1, <1>2, <1>3, <1>4, <1>5, <1>6, <1>7, <1>8, <1>9, <1>10, <1>11, <1>12
     DEF Next, MainNext, ShutdownNext

-----------------------------------------------------------------------------
\* What the three parts of the invariant say holds in every state of the daemon.
THEOREM Invariance == Spec => []IInv
<1>1. IInv /\ [Next]_vars => IInv'
  <2>1. IInv /\ [Next]_vars => TypeOK'
    BY DetectorPreserved, SocketPreserved, ProcessPreserved DEF TypeOK, ProcessTypeOK
  <2> QED
    BY <2>1, SwitchPreserved, AnswerPreserved DEF IInv
<1> QED
  BY <1>1, InitIInv, PTL DEF Spec

\* Every variable of the daemon, the detector and the connection keeps its type; among
\* them the number of polls stays within the time limit and a command is never
\* answered twice.
THEOREM TypeCorrect == Spec => []TypeOK
<1>1. IInv => TypeOK
  BY DEF IInv
<1> QED
  BY <1>1, Invariance, PTL

\* However many signals interrupt the cooling, the scan or each other, a daemon that
\* was told to end has stopped the acquisition and the cooler unless the SDK refused.
THEOREM DetectorLeftSafe == Spec => []LeavesDetectorSafe
<1>1. IInv => LeavesDetectorSafe
  BY DEF IInv, SwitchInv
<1> QED
  BY <1>1, Invariance, PTL

\* The command loop reads the next command after exactly one "done" for a "settemp",
\* at most one for an image and none for anything else.
THEOREM CommandsAnsweredOnce == Spec => []AnsweredOnce
<1>1. IInv => AnsweredOnce
  BY DEF IInv, AnswerInv
<1> QED
  BY <1>1, Invariance, PTL
-----------------------------------------------------------------------------
\* The client waits, has nothing to read, and nothing of his is on the way.
Stuck == cpc = "awaiting" /\ ~unread /\ peer = "open" /\ toDaemon = <<>>

\* Whoever has just been sent something is not stuck.
LEMMA SentIsNotStuck == Send => ~Stuck'
<1> SUFFICES ASSUME Send PROVE peer' = "open" => unread'
  BY DEF Stuck
<1>1. peer' = "open" => peer = "open"
  BY DEF Send
<1>2. unread' = (unread \/ peer = "open")
  BY DEF Send
<1> QED
  BY <1>1, <1>2, Zenon

\* The client's own steps leave him asking, reading or away, never stuck.
LEMMA ClientIsNotStuck == SocketTypeOK /\ ClientNext => ~Stuck'
<1> SUFFICES ASSUME SocketTypeOK, ClientNext PROVE ~Stuck'
  OBVIOUS
<1>1. ASSUME NEW c \in Commands, ClientSends(c) PROVE toDaemon' # <<>>
  BY <1>1, AppendProperties DEF ClientSends, SocketTypeOK
<1>2. CASE ClientReads \/ ClientLeaves
  BY <1>2 DEF ClientReads, ClientLeaves, Stuck
<1> QED
  BY <1>1, <1>2 DEF ClientNext, Stuck

\* A client is stuck while the daemon waits for a command only if nothing was sent to
\* him since that command came in: each way back to recv() either sends or follows one
\* of the silent commands.
LEMMA StuckPreserved == IInv /\ StuckOnSilentOnly /\ [Next]_vars => StuckOnSilentOnly'
<1> SUFFICES ASSUME IInv, StuckOnSilentOnly, [Next]_vars, dpc' = "recv", Stuck'
             PROVE  command' \in {"setparam", "abort", "unknown", "image"}
  BY DEF StuckOnSilentOnly, Stuck
<1>0. AnswerInv /\ SocketTypeOK /\ ~Send /\ ~ClientNext
  BY SentIsNotStuck, ClientIsNotStuck DEF IInv, TypeOK
<1>1. ASSUME dpc = "recv", Stuck, command' = command
      PROVE  command' \in {"setparam", "abort", "unknown", "image"}
  BY <1>1 DEF StuckOnSilentOnly, Stuck
<1>2. CASE \/ StartUp \/ StartUpFails \/ Bind \/ BindThrows \/ SetsTemperature \/ SwitchesOn
           \/ Polls \/ SleepsCooling
  BY <1>2 DEF StartUp, StartUpFails, Bind, BindThrows, SetsTemperature, SwitchesOn, Polls,
              SleepsCooling, Goes, Exits
<1>3. CASE ReportsTemperature \/ ReportsCooling \/ ResolveStatus \/ ImageAnswers
           \/ BadTemperature \/ ReporterSends
  BY <1>0, <1>3 DEF ReportsTemperature, ReportsCooling, ResolveStatus, ImageAnswers,
                    BadTemperature, ReporterSends, SendsAndGoes, BrokenPipe, Exits
<1>4. CASE TimeIsUp \/ CoolingFails \/ CoolingSucceeds
  BY <1>0, <1>4 DEF TimeIsUp, CoolingFails, CoolingSucceeds, Returns, SendsAndGoes,
                    BrokenPipe, Exits
<1>5. CASE Receives \/ ClientGone \/ ResolveSettemp \/ ResolveImage
           \/ ImageEndsSilently \/ ResolveShutdown
  BY <1>5 DEF Receives, ClientGone, ResolveSettemp, ResolveImage, ImageEndsSilently,
              ResolveShutdown, Goes
<1>6. CASE ResolveSilently \/ ImageStops
  BY <1>0, <1>6 DEF ResolveSilently, ImageStops, AnswerInv, Goes, commandVars
<1>7. CASE ShutdownNext
  BY <1>7 DEF ShutdownNext, AbortsAcquisition, ReadsTemperature, SwitchesOff,
              SwitchesOffFails, Warm, Warming, ShutsDown, Ends, Exits, Goes
<1>8. CASE AcceptsClient \/ AcceptFails \/ \E s \in Signals : Signal(s)
  BY <1>8 DEF AcceptsClient, Accept, AcceptFails, Signal, Exits, Stuck
<1>9. CASE DetectorNext \/ UNCHANGED vars
  BY <1>1, <1>9 DEF DetectorNext, vars, socketVars, commandVars, Stuck
<1> QED
  BY <1>0, <1>2, <1>3, <1>4, <1>5, <1>6, <1>7, <1>8, <1>9 DEF Next, MainNext

\* Client and daemon wait for each other only after a command that is never answered,
\* for every set of commands and however many the client sends ahead.
THEOREM StuckAfterSilence == Spec => []StuckOnSilentOnly
<1>1. Init => StuckOnSilentOnly
  BY DEF Init, SocketInit, StuckOnSilentOnly
<1> QED
  BY <1>1, Invariance, StuckPreserved, PTL DEF Spec
-----------------------------------------------------------------------------
(* How long cooling and shutdown can take                                  *)

\* The most steps of its own that cool_to_temperature() has left: three to a
\* round, and as many rounds as its time limit allows.
CoolingLeft ==
  CASE dpc = "ctemp" -> 3 * MaxPolls + 6
    [] dpc = "settemp" -> 3 * MaxPolls + 5
    [] dpc = "cooleron" -> 3 * MaxPolls + 4
    [] dpc = "poll" -> 3 * (MaxPolls - polls) + 3
    [] dpc = "report" -> 3 * (MaxPolls - polls) + 2
    [] dpc = "elapsed" -> 3 * (MaxPolls - polls) + 1
    [] OTHER -> 0

\* The same of system_shutdown() and the exit after it.
ShutdownLeft ==
  CASE dpc = "getstatus" -> MaxPolls + 7
    [] dpc = "gettemp" -> MaxPolls + 6
    [] dpc = "cooleroff" -> MaxPolls + 5
    [] dpc = "warm" -> MaxPolls + 4
    [] dpc = "warming" -> (MaxPolls - polls) + 3
    [] dpc = "off" -> 2
    [] dpc = "exit" -> 1
    [] OTHER -> 0

\* A signal that has not been caught may start the shutdown over.
SignalsLeft == Cardinality(Signals \ caught)

EndLeft == SignalsLeft * (MaxPolls + 8) + ShutdownLeft

Cooling == dpc \in CoolingSteps

Ending == dpc \in ShutdownSteps \union {"exit", "exited"}

\* Every step of the cooling loop takes something off what it has left, whatever the
\* SDK says and whoever listens, until the loop is left; nothing else puts something on.
CoolingRunsOut ==
  [][Cooling /\ Cooling' =>
       /\ MainNext => CoolingLeft' < CoolingLeft
       /\ CoolingLeft' <= CoolingLeft]_vars

\* A daemon that has begun to end goes on with nothing else. Each of its steps and
\* each signal takes something off, and nothing puts something on.
ShutdownRunsOut ==
  [][Ending =>
       /\ Ending'
       /\ MainNext \/ (\E s \in Signals : Signal(s)) => EndLeft' < EndLeft
       /\ EndLeft' <= EndLeft]_vars

\* What a step can disturb of the measures.
LeftIsNatural ==
  /\ CoolingLeft \in Nat
  /\ ShutdownLeft \in 0..(MaxPolls + 7)
  /\ SignalsLeft \in Nat

\* The time limits are not passed, and the signals can be counted.
LEMMA LeftNatural == TypeOK => LeftIsNatural
<1> SUFFICES ASSUME TypeOK PROVE LeftIsNatural
  OBVIOUS
<1>1. MaxPolls \in Nat /\ polls \in 0..MaxPolls
  BY DaemonAssumption DEF TypeOK
<1>2. CoolingLeft \in Nat
  BY <1>1 DEF CoolingLeft
<1>3. ShutdownLeft \in 0..(MaxPolls + 7)
  BY <1>1 DEF ShutdownLeft
<1>4. SignalsLeft \in Nat
  <2>1. IsFiniteSet(Signals \ caught)
    BY DaemonAssumption, FS_Difference
  <2> QED
    BY <2>1, FS_CardinalityType DEF SignalsLeft
<1> QED
  BY <1>2, <1>3, <1>4 DEF LeftIsNatural

\* A step of the cooling loop that stays in it.
LEMMA CoolingStep ==
  ASSUME TypeOK, Cooling, Cooling', MainNext
  PROVE  CoolingLeft' < CoolingLeft
<1>1. MaxPolls \in Nat /\ polls \in 0..MaxPolls
  BY DaemonAssumption DEF TypeOK
<1> USE <1>1 DEF Cooling, CoolingSteps, CoolingLeft, Goes, loopVars
<1>2. CASE ReportsTemperature \/ ReportsCooling
  BY <1>2 DEF ReportsTemperature, ReportsCooling, SendsAndGoes, BrokenPipe, Exits
<1>3. CASE SetsTemperature \/ SwitchesOn \/ Polls \/ SleepsCooling
  BY <1>3 DEF SetsTemperature, SwitchesOn, Polls, SleepsCooling
<1>4. CASE TimeIsUp \/ CoolingFails \/ CoolingSucceeds
  BY <1>4 DEF TimeIsUp, CoolingFails, CoolingSucceeds, Returns, SendsAndGoes,
              BrokenPipe, Exits
<1>5. CASE \/ StartUp \/ StartUpFails \/ Bind \/ BindThrows \/ Receives \/ ClientGone
           \/ ResolveSettemp \/ BadTemperature \/ ResolveStatus \/ ResolveSilently
           \/ ResolveImage \/ ImageAnswers \/ ImageEndsSilently \/ ImageStops
           \/ ResolveShutdown
  BY <1>5 DEF StartUp, StartUpFails, Bind, BindThrows, Receives, ClientGone,
     ResolveSettemp, BadTemperature, ResolveStatus, ResolveSilently, ResolveImage,
     ImageAnswers, ImageEndsSilently, ImageStops, ResolveShutdown, SendsAndGoes
<1>6. CASE ShutdownNext
  BY <1>6 DEF ShutdownNext, AbortsAcquisition, ReadsTemperature, SwitchesOff,
     SwitchesOffFails, Warm, Warming, ShutsDown, Ends
<1> QED
  BY <1>2, <1>3, <1>4, <1>5, <1>6, Zenon DEF MainNext

\* What the rest of the world does to the daemon's place: nothing, a signal, or the end
\* by SIGPIPE.
LEMMA OthersStep ==
  ASSUME [Next]_vars, dpc \notin {"accept"}
  PROVE  \/ MainNext
         \/ \E s \in Signals : Signal(s)
         \/ dpc' = "exited" /\ caught' = caught
         \/ dpc' = dpc /\ caught' = caught /\ polls' = polls
<1>1. CASE AcceptsClient \/ AcceptFails
  BY <1>1 DEF AcceptsClient, AcceptFails, Goes
<1>2. CASE ReporterSends
  BY <1>2 DEF ReporterSends, SendsAndGoes, BrokenPipe, Exits, loopVars, endVars
<1>3. CASE ClientNext \/ DetectorNext \/ UNCHANGED vars
  BY <1>3 DEF ClientNext, DetectorNext, vars, loopVars, endVars
<1> QED
  BY <1>1, <1>2, <1>3, Zenon DEF Next

\* A step of the shutdown, or of the exit after it.
LEMMA ShutdownStep ==
  ASSUME TypeOK, Ending, MainNext
  PROVE  Ending' /\ ShutdownLeft' < ShutdownLeft /\ SignalsLeft' = SignalsLeft
<1>1. MaxPolls \in Nat /\ polls \in 0..MaxPolls
  BY DaemonAssumption DEF TypeOK
<1>2. ShutdownNext
  BY DEF Ending, ShutdownSteps, MainNext, StartUp, StartUpFails, Bind, BindThrows,
     ReportsTemperature, SetsTemperature, SwitchesOn, Polls, ReportsCooling,
     SleepsCooling, TimeIsUp, CoolingFails, CoolingSucceeds, Returns, Receives,
     ClientGone, ResolveSettemp, BadTemperature, ResolveStatus, ResolveSilently,
     ResolveImage, ImageAnswers, ImageEndsSilently, ImageStops, ResolveShutdown,
     SendsAndGoes, Goes
<1>3. caught' = caught
  BY <1>2 DEF ShutdownNext, AbortsAcquisition, ReadsTemperature, SwitchesOff,
     SwitchesOffFails, Warm, Warming, ShutsDown, Ends, Exits, endVars
<1> USE <1>1 DEF Ending, ShutdownSteps, ShutdownLeft, Goes
<1>4. Ending' /\ ShutdownLeft' < ShutdownLeft
  <2>1. CASE AbortsAcquisition \/ ReadsTemperature \/ SwitchesOff \/ SwitchesOffFails
    <3>1. \/ dpc = "getstatus" /\ dpc' = "gettemp"
          \/ dpc = "gettemp" /\ dpc' = "cooleroff"
          \/ dpc = "cooleroff" /\ dpc' = "warm"
      BY <2>1, Zenon DEF AbortsAcquisition, ReadsTemperature, SwitchesOff,
                         SwitchesOffFails
    <3> QED
      BY <3>1
  <2>2. CASE Warm \/ Warming
    BY <2>2 DEF Warm, Warming
  <2>3. CASE ShutsDown \/ Ends
    BY <2>3 DEF ShutsDown, Ends, Exits
  <2> QED
    BY <1>2, <2>1, <2>2, <2>3 DEF ShutdownNext
<1> QED
  BY <1>3, <1>4 DEF SignalsLeft

\* A signal begins the shutdown anew, and there is one signal less to do so.
LEMMA SignalStep ==
  ASSUME TypeOK, NEW s \in Signals, Signal(s)
  PROVE  Ending' /\ ShutdownLeft' = MaxPolls + 7 /\ SignalsLeft' = SignalsLeft - 1
<1>1. dpc' = "getstatus" /\ caught' = caught \union {s} /\ s \in Signals \ caught
  BY DEF Signal
<1>2. IsFiniteSet(Signals \ caught)
  BY DaemonAssumption, FS_Difference
<1>3. Signals \ caught' = (Signals \ caught) \ {s}
  BY <1>1
<1>4. Cardinality((Signals \ caught) \ {s}) = Cardinality(Signals \ caught) - 1
  BY <1>1, <1>2, FS_RemoveElement
<1> QED
  BY <1>1, <1>3, <1>4 DEF Ending, ShutdownSteps, ShutdownLeft, SignalsLeft

\* The signals left come first, the place in the shutdown second.
LEMMA EndIsLexicographic ==
  ASSUME LeftIsNatural, LeftIsNatural'
  PROVE  /\ SignalsLeft' = SignalsLeft /\ ShutdownLeft' < ShutdownLeft =>
              EndLeft' < EndLeft
         /\ SignalsLeft' = SignalsLeft - 1 => EndLeft' < EndLeft
         /\ SignalsLeft' = SignalsLeft /\ ShutdownLeft' <= ShutdownLeft =>
              EndLeft' <= EndLeft
         /\ EndLeft \in Nat
<1>1. /\ MaxPolls \in Nat /\ SignalsLeft \in Nat /\ SignalsLeft' \in Nat
      /\ ShutdownLeft \in 0..(MaxPolls + 7) /\ ShutdownLeft' \in 0..(MaxPolls + 7)
  BY DaemonAssumption DEF LeftIsNatural
<1>2. \A k \in Nat : \A m \in Nat : k * m \in Nat
  OBVIOUS
<1>3. \A k \in Nat : \A m \in Nat : k - 1 \in Nat => (k - 1) * m = k * m - m
  OBVIOUS
<1> DEFINE round == MaxPolls + 8
           all == SignalsLeft * round
<1>4. all \in Nat /\ round \in Nat
  BY <1>1, <1>2
<1>5. SignalsLeft' = SignalsLeft => EndLeft' = all + ShutdownLeft'
  BY <1>1 DEF EndLeft
<1>6. SignalsLeft' = SignalsLeft - 1 => EndLeft' = (all - round) + ShutdownLeft'
  <2> SUFFICES ASSUME SignalsLeft' = SignalsLeft - 1
               PROVE  EndLeft' = (all - round) + ShutdownLeft'
    OBVIOUS
  <2>1. (SignalsLeft - 1) * round = all - round
    BY <1>1, <1>3, <1>4
  <2> QED
    BY <2>1 DEF EndLeft
<1>7. EndLeft = all + ShutdownLeft
  BY DEF EndLeft
<1>8. round = MaxPolls + 8
  OBVIOUS
<1> HIDE DEF round, all
<1> QED
  BY <1>1, <1>4, <1>5, <1>6, <1>7, <1>8

\* cool_to_temperature() returns after at most 3 (MaxPolls + 2) steps of its own: the
\* time limit ends it whatever the cooler does. With the daemon's thread running this
\* is CoolingEnds.
THEOREM CoolingIsBounded == Spec => [](CoolingLeft \in Nat) /\ CoolingRunsOut
<1>0. TypeOK => LeftIsNatural
  BY LeftNatural
<1>1. LeftIsNatural => CoolingLeft \in Nat
  BY DEF LeftIsNatural
<1>2. TypeOK /\ LeftIsNatural /\ LeftIsNatural' /\ [Next]_vars =>
        [Cooling /\ Cooling' =>
           /\ MainNext => CoolingLeft' < CoolingLeft
           /\ CoolingLeft' <= CoolingLeft]_vars
  <2> SUFFICES ASSUME TypeOK, LeftIsNatural, LeftIsNatural', [Next]_vars,
                      Cooling, Cooling'
               PROVE  /\ MainNext => CoolingLeft' < CoolingLeft
                      /\ CoolingLeft' <= CoolingLeft
    OBVIOUS
  <2>1. CoolingLeft \in Nat /\ CoolingLeft' \in Nat
    BY DEF LeftIsNatural
  <2>2. CASE MainNext
    <3>1. CoolingLeft' < CoolingLeft
      BY <2>2, CoolingStep
    <3> QED
      BY <2>1, <3>1
  <2>3. CASE ~MainNext
    <3>1. dpc' = dpc /\ polls' = polls
      BY <2>3, OthersStep DEF Cooling, CoolingSteps, Signal
    <3>2. CoolingLeft' = CoolingLeft
      BY <3>1 DEF CoolingLeft
    <3> QED
      BY <2>1, <2>3, <3>2
  <2> QED
    BY <2>2, <2>3
<1> QED
  BY <1>0, <1>1, <1>2, TypeCorrect, PTL DEF Spec, CoolingRunsOut

\* A daemon that has begun to end takes at most MaxPolls + 8 steps for each signal that
\* can still interrupt it and as many again, and then it has exited. With the daemon's
\* thread running this is ShutdownEnds.
THEOREM ShutdownIsBounded == Spec => [](EndLeft \in Nat) /\ ShutdownRunsOut
<1>1. TypeOK => LeftIsNatural
  BY LeftNatural
<1>2. LeftIsNatural => EndLeft \in Nat
  <2> SUFFICES ASSUME LeftIsNatural PROVE EndLeft \in Nat
    OBVIOUS
  <2>1. MaxPolls \in Nat /\ SignalsLeft \in Nat /\ ShutdownLeft \in Nat
    BY DaemonAssumption DEF LeftIsNatural
  <2>2. SignalsLeft * (MaxPolls + 8) \in Nat
    BY <2>1
  <2> QED
    BY <2>1, <2>2 DEF EndLeft
<1>3. TypeOK /\ LeftIsNatural /\ LeftIsNatural' /\ [Next]_vars =>
        [Ending =>
           /\ Ending'
           /\ MainNext \/ (\E s \in Signals : Signal(s)) => EndLeft' < EndLeft
           /\ EndLeft' <= EndLeft]_vars
  <2> SUFFICES ASSUME TypeOK, LeftIsNatural, LeftIsNatural', [Next]_vars, Ending
               PROVE  /\ Ending'
                      /\ MainNext \/ (\E s \in Signals : Signal(s)) => EndLeft' < EndLeft
                      /\ EndLeft' <= EndLeft
    OBVIOUS
  <2>1. EndLeft \in Nat /\ EndLeft' \in Nat
    <3>1. /\ MaxPolls + 8 \in Nat /\ SignalsLeft' \in Nat /\ ShutdownLeft' \in Nat
      BY DaemonAssumption DEF LeftIsNatural
    <3>2. \A k \in Nat : \A m \in Nat : \A i \in Nat : k * m + i \in Nat
      OBVIOUS
    <3>3. SignalsLeft' * (MaxPolls + 8) + ShutdownLeft' \in Nat
      BY <3>1, <3>2, Zenon
    <3>4. EndLeft' = SignalsLeft' * (MaxPolls + 8) + ShutdownLeft'
      BY Zenon DEF EndLeft
    <3> QED
      BY <1>2, <3>3, <3>4
  <2>3. CASE MainNext
    <3>1. Ending' /\ EndLeft' < EndLeft
      BY <2>3, ShutdownStep, EndIsLexicographic
    <3> QED
      BY <2>1, <3>1
  <2>4. CASE \E s \in Signals : Signal(s)
    <3>1. Ending' /\ EndLeft' < EndLeft
      BY <2>4, SignalStep, EndIsLexicographic
    <3> QED
      BY <2>1, <3>1
  <2>5. CASE ~MainNext /\ ~ \E s \in Signals : Signal(s)
    <3>1. \/ dpc' = "exited" /\ caught' = caught
          \/ dpc' = dpc /\ caught' = caught /\ polls' = polls
      BY <2>5, OthersStep DEF Ending, ShutdownSteps
    <3>2. Ending' /\ SignalsLeft' = SignalsLeft
      BY <3>1 DEF Ending, SignalsLeft
    <3>3. ShutdownLeft' <= ShutdownLeft
      <4>1. ShutdownLeft \in Nat
        BY DaemonAssumption DEF LeftIsNatural
      <4>2. ShutdownLeft' = 0 \/ ShutdownLeft' = ShutdownLeft
        BY <3>1 DEF ShutdownLeft
      <4> QED
        BY <4>1, <4>2
    <3> QED
      BY <2>5, <3>2, <3>3, EndIsLexicographic
  <2> QED
    BY <2>3, <2>4, <2>5
<1> QED
  BY <1>1, <1>2, <1>3, TypeCorrect, PTL DEF Spec, ShutdownRunsOut
=============================================================================
