------------------------------- MODULE Daemon -------------------------------
(***************************************************************************)
(* The daemon's main thread from main() to its end, with the signals that  *)
(* end it, the client it talks to and the detector it cools:               *)
(*                                                                         *)
(*   init -> [cool_to_temperature] -> bind -> accept -> recv -> resolve    *)
(*        -> [the command] -> recv ... -> [system_shutdown] -> exited      *)
(*                                                                         *)
(* A signal runs system_shutdown() on top of whatever the main thread was  *)
(* doing and exits; a second signal does so on top of the first.  An       *)
(* acquisition is one step that ends with an answer or without (RtaScan,   *)
(* SingleScan and KineticScan model its inside), with a reporter thread    *)
(* that sends while it lasts, and goes on sending under a signal handler.  *)
(***************************************************************************)
EXTENDS Detector, CommandSocket, FiniteSets

CONSTANTS
  MaxPolls,   \* 5 s polls that fit in MAX_COOLING_DURATION and
              \* MAX_SHUTDOWN_DURATION
  Signals     \* SIGINT, SIGQUIT, SIGTERM: each is blocked in its own handler

ASSUME DaemonAssumption == MaxPolls \in Nat /\ IsFiniteSet(Signals)

VARIABLES
  dpc,           \* where the main thread is
  command,       \* the command performed last, "none" before the first
  dones,         \* "done" messages sent for it
  status,        \* what GetTemperature returned to cool_to_temperature()
  current_temp,  \* the temperature system_shutdown() goes by
  polls,         \* polls of the cooling or warming loop so far
  reporting,     \* a reporter thread runs
  caught,        \* signals whose handler has been entered
  exit,          \* why the daemon ends, "none" until it is decided
  fault          \* a shutdown could not stop the acquisition or the cooler: the
                 \* SDK failed a call for a reason of its own

commandVars == <<command, dones>>
loopVars == <<status, current_temp, polls>>
endVars == <<caught, exit, fault>>
vars == <<detectorVars, socketVars, dpc, commandVars, loopVars,
          reporting, endVars>>

CoolingSteps == {"ctemp", "settemp", "cooleron", "poll", "report", "elapsed"}
ShutdownSteps == {"getstatus", "gettemp", "cooleroff", "warm", "warming", "off"}
ServingSteps == {"bind", "accept", "recv", "resolve", "image", "stop"}

Init ==
  /\ DetectorInit
  /\ SocketInit
  /\ dpc = "init"
  /\ command = "none"
  /\ dones = 0
  /\ status = "error"
  /\ current_temp = Ambient
  /\ polls = 0
  /\ reporting = FALSE
  /\ caught = {}
  /\ exit = "none"
  /\ fault = FALSE

\* cool_to_temperature() was given a socket: main() gives it none at the start.
Serving == peer # "none"

Goes(from, to) == dpc = from /\ dpc' = to

\* The locals of the functions that a signal handler has left for good.
LocalsGone ==
  /\ command' = "none"
  /\ dones' = 0
  /\ status' = "error"
  /\ current_temp' = Ambient
  /\ polls' = 0

\* The process ends for the reason why, and its connection with it.
Exits(why) ==
  /\ dpc' = "exited"
  /\ exit' = why
  /\ HangUp
  /\ UNCHANGED <<caught, fault>>

\* SIGPIPE: a send to a peer that has reset the connection.  No handler is
\* installed and send() has no MSG_NOSIGNAL.
BrokenPipe ==
  /\ peer = "reset"
  /\ Exits("sigpipe")

\* socket_sprintf() or print_status() and on to the next step, if the process
\* survives it.
SendsAndGoes(from, to) ==
  /\ dpc = from
  /\ \/ Send /\ dpc' = to /\ UNCHANGED endVars
     \/ BrokenPipe

-----------------------------------------------------------------------------
(* main: until the first command                                           *)

StartUp ==
  /\ Goes("init", "ctemp")
  /\ Initialize
  /\ UNCHANGED <<socketVars, commandVars, loopVars, reporting, endVars>>

\* select_camera() or Initialize() fails.
StartUpFails ==
  /\ dpc = "init"
  /\ Exits("init")
  /\ UNCHANGED <<detectorVars, commandVars, loopVars, reporting>>

Bind ==
  /\ Goes("bind", "accept")
  /\ UNCHANGED <<detectorVars, socketVars, commandVars, loopVars, reporting, endVars>>

\* The ServerSocket throws; main() goes on to system_shutdown().
BindThrows ==
  /\ Goes("bind", "getstatus")
  /\ exit' = "bind"
  /\ UNCHANGED <<detectorVars, socketVars, commandVars, loopVars,
                 reporting, caught, fault>>

-----------------------------------------------------------------------------
(* cool_to_temperature, for main() and for "settemp"                       *)

\* GetTemperature for the report, SetTemperature, CoolerON, then the loop.
ReportsTemperature ==
  /\ SendsAndGoes("ctemp", "settemp")
  /\ UNCHANGED <<detectorVars, commandVars, loopVars, reporting>>

SetsTemperature ==
  /\ Goes("settemp", "cooleron")
  /\ \E t \in IF Serving THEN Targets ELSE {0} : SetTemperature(t)
  /\ UNCHANGED <<socketVars, commandVars, loopVars, reporting, endVars>>

SwitchesOn ==
  /\ Goes("cooleron", "poll")
  /\ CoolerON
  /\ polls' = 0
  /\ UNCHANGED <<socketVars, commandVars, status, current_temp,
                 reporting, endVars>>

Polls ==
  /\ Goes("poll", "report")
  /\ status' \in TemperatureStatus
  /\ UNCHANGED <<detectorVars, socketVars, commandVars, current_temp,
                 polls, reporting, endVars>>

\* Not stabilised: a line to the client.  An error is taken for one more such
\* state, DRV_TEMP_OFF in the condition being a constant that is not zero.
ReportsCooling ==
  /\ status # "stabilized"
  /\ SendsAndGoes("report", "elapsed")
  /\ status' = "error"
  /\ UNCHANGED <<detectorVars, commandVars, current_temp, polls, reporting>>

\* Mutated: the time limit is not looked at.
SleepsAnyway ==
  /\ Goes("elapsed", "poll")
  /\ polls' = polls + 1
  /\ UNCHANGED <<detectorVars, socketVars, commandVars, status, current_temp,
                 reporting, endVars>>

\* Mutated: the clock is started anew in every round.
SleepsOn ==
  /\ Goes("elapsed", "poll")
  /\ UNCHANGED <<detectorVars, socketVars, commandVars, loopVars,
                 reporting, endVars>>

SleepsCooling ==
  /\ Goes("elapsed", "poll")
  /\ polls < MaxPolls
  /\ polls' = polls + 1
  /\ UNCHANGED <<detectorVars, socketVars, commandVars, status,
                 current_temp, reporting, endVars>>

\* It returns to the command loop, or to main(), which gives up after a failure
\* and leaves the detector as it is.
Returns(from, ok) ==
  /\ IF Serving
     THEN SendsAndGoes(from, "recv") /\ dones' = dones + 1
     ELSE /\ dpc = from
          /\ IF ok THEN dpc' = "bind" /\ UNCHANGED <<socketVars, endVars>>
                   ELSE Exits("cooling")
          /\ UNCHANGED dones
  /\ status' = "error"
  /\ polls' = 0
  /\ UNCHANGED <<detectorVars, command, current_temp, reporting>>

\* Mutated: out of time, and no "done" in the message.
TimeIsUpUndone ==
  /\ Goes("elapsed", "recv")
  /\ polls = MaxPolls
  /\ Serving
  /\ Send
  /\ UNCHANGED <<detectorVars, commandVars, loopVars, reporting, endVars>>

TimeIsUp ==
  /\ polls = MaxPolls
  /\ Returns("elapsed", FALSE)

\* SetTemperature() or CoolerON() fails; the cooler keeps the state it has.
CoolingFails == Returns("settemp", FALSE) \/ Returns("cooleron", FALSE)

CoolingSucceeds ==
  /\ status = "stabilized"
  /\ Returns("report", TRUE)

-----------------------------------------------------------------------------
(* chat and resolve_command                                                *)

AcceptsClient ==
  /\ Goes("accept", "recv")
  /\ Accept
  /\ UNCHANGED <<detectorVars, commandVars, loopVars, reporting, endVars>>

\* main() returns from inside its try block, without system_shutdown().
AcceptFails ==
  /\ dpc = "accept"
  /\ Exits("accept")
  /\ UNCHANGED <<detectorVars, commandVars, loopVars, reporting>>

Receives ==
  /\ Goes("recv", "resolve")
  /\ Receive
  /\ command' = Head(toDaemon)
  /\ dones' = 0
  /\ UNCHANGED <<detectorVars, loopVars, reporting, endVars>>

ClientGone ==
  /\ Goes("recv", "accept")
  /\ ReceiveEnds
  /\ command' = "none"
  /\ dones' = 0
  /\ UNCHANGED <<detectorVars, loopVars, reporting, endVars>>

ResolveSettemp ==
  /\ command = "settemp"
  /\ Goes("resolve", "ctemp")
  /\ UNCHANGED <<detectorVars, socketVars, commandVars, loopVars,
                 reporting, endVars>>

\* "settemp" without a number, or with one outside the limits.
BadTemperature ==
  /\ command = "settemp"
  /\ dones' = dones + 1
  /\ SendsAndGoes("resolve", "recv")
  /\ UNCHANGED <<detectorVars, command, loopVars, reporting>>

\* Mutated: the status is only printed.
StatusUnsent ==
  /\ command = "status"
  /\ Goes("resolve", "recv")
  /\ UNCHANGED <<detectorVars, socketVars, commandVars, loopVars, reporting, endVars>>

ResolveStatus ==
  /\ command = "status"
  /\ SendsAndGoes("resolve", "recv")
  /\ UNCHANGED <<detectorVars, commandVars, loopVars, reporting>>

\* setparam changes the parameters of later images, abort a variable nothing
\* reads, an unknown command nothing; an image command may be rejected before it
\* starts.  None is answered.
ResolveSilently ==
  /\ command \in {"setparam", "abort", "unknown", "image"}
  /\ Goes("resolve", "recv")
  /\ UNCHANGED <<detectorVars, socketVars, commandVars, loopVars,
                 reporting, endVars>>

ResolveImage ==
  /\ command = "image"
  /\ Goes("resolve", "image")
  /\ SetAcquiring(TRUE)
  /\ reporting' = TRUE
  /\ UNCHANGED <<socketVars, commandVars, loopVars, endVars>>

\* The scan's one answer. The reporter may outlive it (save_as_fits answers before
\* it is joined).
ImageAnswers ==
  /\ SendsAndGoes("image", "stop")
  /\ dones' = dones + 1
  /\ UNCHANGED <<detectorVars, command, loopVars, reporting>>

\* A kinetic series may end without one.
ImageEndsSilently ==
  /\ Goes("image", "stop")
  /\ UNCHANGED <<detectorVars, socketVars, commandVars, loopVars,
                 reporting, endVars>>

\* On every way out the acquisition is stopped and the reporter joined.
ImageStops ==
  /\ Goes("stop", "recv")
  /\ SetAcquiring(FALSE)
  /\ reporting' = FALSE
  /\ UNCHANGED <<socketVars, commandVars, loopVars, endVars>>

\* chat() returns -1, the sockets are closed.
ResolveShutdown ==
  /\ command = "shutdown"
  /\ Goes("resolve", "getstatus")
  /\ CloseChild
  /\ exit' = "command"
  /\ command' = "none"
  /\ UNCHANGED <<detectorVars, dones, loopVars, reporting, caught, fault>>

-----------------------------------------------------------------------------
(* system_shutdown, after the command loop or in a signal handler          *)

\* Mutated: a running acquisition is not looked for.
SkipsAbort ==
  /\ Goes("getstatus", "gettemp")
  /\ UNCHANGED <<detectorVars, socketVars, commandVars, loopVars,
                 reporting, endVars>>

\* AbortAcquisition() if GetStatus() says so; what it returns is not looked at.
AbortsAcquisition ==
  /\ Goes("getstatus", "gettemp")
  /\ \/ SetAcquiring(FALSE) /\ UNCHANGED fault
     \/ acquiring /\ fault' = TRUE /\ UNCHANGED detectorVars
  /\ UNCHANGED <<socketVars, commandVars, loopVars, reporting, caught, exit>>

\* GetTemperature(&current_temp) into an uninitialised local: if it fails, any
\* value may be there.
ReadsTemperature ==
  /\ Goes("gettemp", "cooleroff")
  /\ \/ sdk /\ current_temp' = temp
     \/ current_temp' \in Temps
  /\ UNCHANGED <<detectorVars, socketVars, commandVars, status, polls,
                 reporting, endVars>>

\* IsCoolerOn, and CoolerOFF if it is.
SwitchesOff ==
  /\ Goes("cooleroff", "warm")
  /\ IF sdk /\ cooler THEN CoolerOFF ELSE UNCHANGED detectorVars
  /\ UNCHANGED <<socketVars, commandVars, loopVars, reporting, endVars>>

\* Either call fails; the shutdown goes on.
SwitchesOffFails ==
  /\ Goes("cooleroff", "warm")
  /\ fault' = (fault \/ CanSwitch)
  /\ UNCHANGED <<detectorVars, socketVars, commandVars, loopVars,
                 reporting, caught, exit>>

\* Is there anything to wait for?
Warm ==
  /\ dpc = "warm"
  /\ dpc' = IF current_temp < SHUTDOWN_TEMPERATURE THEN "warming" ELSE "off"
  /\ polls' = 0
  /\ UNCHANGED <<detectorVars, socketVars, commandVars, status,
                 current_temp, reporting, endVars>>

\* Mutated: the loop ends when it is warm, and only then.
WarmsForever ==
  /\ dpc = "warming"
  /\ current_temp' \in IF sdk THEN {temp, current_temp} ELSE {current_temp}
  /\ dpc' = IF current_temp' < SHUTDOWN_TEMPERATURE THEN "warming" ELSE "off"
  /\ UNCHANGED <<detectorVars, socketVars, commandVars, status, polls,
                 reporting, endVars>>

\* One round: sleep, GetTemperature, which may fail and leave current_temp as it
\* was, then the time limit.
Warming ==
  /\ dpc = "warming"
  /\ current_temp' \in IF sdk THEN {temp, current_temp} ELSE {current_temp}
  /\ IF current_temp' >= SHUTDOWN_TEMPERATURE \/ polls = MaxPolls
     THEN dpc' = "off" /\ UNCHANGED polls
     ELSE polls' = polls + 1 /\ UNCHANGED dpc
  /\ UNCHANGED <<detectorVars, socketVars, commandVars, status,
                 reporting, endVars>>

ShutsDown ==
  /\ Goes("off", "exit")
  /\ ShutDown
  /\ LocalsGone
  /\ UNCHANGED <<socketVars, reporting, endVars>>

\* exit() of the handler, or the return of main().
Ends ==
  /\ dpc = "exit"
  /\ Exits(exit)
  /\ UNCHANGED <<detectorVars, commandVars, loopVars, reporting>>

ShutdownNext ==
  \/ AbortsAcquisition \/ ReadsTemperature \/ SwitchesOff \/ SwitchesOffFails
  \/ Warm \/ Warming \/ ShutsDown \/ Ends

MainNext ==
  \/ StartUp \/ StartUpFails \/ Bind \/ BindThrows
  \/ ReportsTemperature \/ SetsTemperature \/ SwitchesOn \/ Polls
  \/ ReportsCooling \/ SleepsCooling \/ TimeIsUp \/ CoolingFails \/ CoolingSucceeds
  \/ Receives \/ ClientGone
  \/ ResolveSettemp \/ BadTemperature \/ ResolveStatus \/ ResolveSilently
  \/ ResolveImage \/ ImageAnswers \/ ImageEndsSilently \/ ImageStops
  \/ ResolveShutdown
  \/ ShutdownNext

-----------------------------------------------------------------------------
(* The rest of the world                                                   *)

\* kill_daemon(): the interrupted step is never taken up again.
Signal(s) ==
  /\ dpc # "exited"
  /\ s \notin caught
  /\ dpc' = "getstatus"
  /\ caught' = caught \union {s}
  /\ exit' = "signal"
  /\ LocalsGone
  /\ UNCHANGED <<detectorVars, socketVars, reporting, fault>>

ReporterSends ==
  /\ reporting
  /\ dpc # "exited"
  /\ SendsAndGoes(dpc, dpc)
  /\ UNCHANGED <<detectorVars, commandVars, loopVars, reporting>>

ClientNext ==
  /\ (\E c \in Commands : ClientSends(c)) \/ ClientReads \/ ClientLeaves
  /\ UNCHANGED <<detectorVars, dpc, commandVars, loopVars, reporting, endVars>>

DetectorNext ==
  /\ dpc # "exited"
  /\ Drift
  /\ UNCHANGED <<socketVars, dpc, commandVars, loopVars, reporting, endVars>>

Next ==
  \/ MainNext
  \/ AcceptsClient
  \/ AcceptFails
  \/ \E s \in Signals : Signal(s)
  \/ ReporterSends
  \/ ClientNext
  \/ DetectorNext

Spec == Init /\ [][Next]_vars

\* The main thread runs and a client that waits reads what arrives.  Nobody owes a
\* command, a connection or a signal.
FairSpec ==
  /\ Spec
  /\ WF_vars(MainNext)
  /\ WF_vars(ClientReads /\ UNCHANGED <<detectorVars, dpc, commandVars,
                                       loopVars, reporting, endVars>>)

-----------------------------------------------------------------------------
(* Properties                                                              *)

TypeOK ==
  /\ DetectorTypeOK
  /\ SocketTypeOK
  /\ dpc \in CoolingSteps \union ShutdownSteps \union ServingSteps
           \union {"init", "exit", "exited"}
  /\ reporting \in BOOLEAN /\ fault \in BOOLEAN
  /\ command \in Commands \union {"none"}
  /\ dones \in {0, 1}
  /\ status \in {"error", "not_reached", "not_stabilized", "stabilized"}
  /\ current_temp \in Temps
  /\ polls \in 0..MaxPolls
  /\ caught \subseteq Signals
  /\ exit \in {"none", "init", "cooling", "bind", "accept", "sigpipe", "command",
               "signal"}

\* A daemon that was told to end, by a command or by a signal in the middle of
\* anything, leaves a detector that is neither acquiring nor cooled, unless the
\* SDK refused (sys_shutdown.cpp:32, 70-101).
LeavesDetectorSafe ==
  dpc = "exited" /\ exit \in {"command", "signal", "bind"} /\ ~fault =>
    ~sdk /\ ~acquiring /\ ~cooler

\* When the command loop reads the next command, "settemp" has been answered by
\* exactly one "done" on each of its six ways out, an image by at most one, and
\* no other command by any.
AnsweredOnce ==
  dpc = "recv" =>
    /\ command = "settemp" => dones = 1
    /\ dones = 1 => command \in {"settemp", "image"}

\* Client and daemon wait for each other only after one of the commands that are
\* never answered, whatever the streams have run together.
StuckOnSilentOnly ==
  cpc = "awaiting" /\ ~unread /\ dpc = "recv" /\ peer = "open" /\ toDaemon = <<>>
    => command \in {"setparam", "abort", "unknown", "image"}

\* A cooling loop comes to its end, at the target or at the time limit.
CoolingEnds == dpc \in CoolingSteps ~> dpc \notin CoolingSteps

\* A shutdown that has begun ends the daemon, also when a second signal starts it
\* over and the thermometer fails.
ShutdownEnds == dpc \in ShutdownSteps ~> dpc = "exited"

-----------------------------------------------------------------------------
\* "perform the operation requested by client" (andor2kd.cpp:274): a shutdown a
\* client has sent is performed, or the client or the daemon is gone before.
ShutdownIsObeyed ==
  (\E i \in 1..Len(toDaemon) : toDaemon[i] = "shutdown")
    ~> exit # "none" \/ peer # "open"
=============================================================================
