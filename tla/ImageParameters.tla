-------------------------- MODULE ImageParameters --------------------------
(***************************************************************************)
(* The parameters of the images and what they do to the camera: the one    *)
(* AndorParameters instance of the daemon, resolve_image_parameters() and  *)
(* set_param_value(), which write it option by option, setup_acquisition() *)
(* which programs the camera from it, and the choice of the scan.          *)
(*                                                                         *)
(* The instance outlives the commands: what an "image" command does not    *)
(* mention keeps the value an earlier command gave it, and a command that  *)
(* is rejected half way has already written the options before the wrong   *)
(* one, and the wrong value itself.                                        *)
(*                                                                         *)
(*   idle -> options -> readout -> mode -> speeds -> gain -> shutter ->    *)
(*           size -> timings -> headers -> scan -> idle                    *)
(*   idle -> setparam -> idle                                              *)
(*                                                                         *)
(* params.read_out_mode_ is ReadOutMode::Image and params.shutter_mode_ is *)
(* FullyAuto: nothing writes either, so the tests of them always pass.     *)
(***************************************************************************)
EXTENDS Integers, Sequences

CONSTANTS
  MAX_PIXELS_IN_DIM,  \* pixels of the detector in each dimension
  Numbers,            \* numbers a client may write as an argument
  OptionCap           \* options all the commands of a behaviour give together

ASSUME ParametersAssumption ==
  /\ MAX_PIXELS_IN_DIM \in Nat \ {0, 1}
  /\ Numbers \subseteq Int
  /\ OptionCap \in Nat

VARIABLES
  pc,          \* where the main thread is
  params,      \* the AndorParameters instance
  camera,      \* what the camera has been told
  buffer,      \* width and height of img_buffer
  gainHeader,  \* the gain the GAIN header names, as its index
  scan,        \* the scan that get_acquisition() has called, or "none"
  given,       \* options given so far, up to OptionCap
  asked,       \* --nimages of this command, 0 when it was not given
  wrote,       \* parameters this command has written
  leftover,    \* parameters last written by a command that was rejected
  gainRefused  \* set_preampgain() failed in this set-up

historyVars == <<given, asked, wrote, leftover, gainRefused>>
setupVars == <<camera, buffer, gainHeader, scan>>
vars == <<pc, params, setupVars, historyVars>>

\* Acquisition modes: the enumerators of AcquisitionMode.  A "setparam" may
\* store any integer; 0 stands for those that name no enumerator.
SingleScan == 1
KineticSeries == 3
RunTillAbort == 5
Modes == 0..5

\* The classes of float that the tests of the code tell apart.
Exposures == {"positive", "zero", "negative", "nan"}

\* "dark" stands for any type that begins with "dark" or "bias".
Types == {"object", "dark"}

Gains == 0..2

Geometry == {"hbin", "vbin", "hstart", "hend", "vstart", "vend"}

\* What strtol() may return here: it answers 0 to what is no number.
Parsed == Numbers \cup {0}

TypeOK ==
  /\ pc \in {"idle", "options", "readout", "mode", "speeds", "gain",
             "shutter", "size", "timings", "headers", "scan", "setparam"}
  /\ params \in [mode : Modes, nimages : Parsed \cup {1}, exposure : Exposures,
                 image : [Geometry -> Parsed \cup {1, MAX_PIXELS_IN_DIM}],
                 type : Types, gain : Gains]
  /\ camera \in [mode : Modes, kinetics : Parsed \cup {1},
                 exposure : Exposures,
                 image : [Geometry -> Parsed \cup {1, MAX_PIXELS_IN_DIM}],
                 shutter : {"auto", "closed"}, gain : Gains]
  /\ buffer \in [width : 0..MAX_PIXELS_IN_DIM, height : 0..MAX_PIXELS_IN_DIM]
  /\ gainHeader \in Gains
  /\ scan \in {"none", "single", "rta", "kinetic"}
  /\ given \in 0..OptionCap
  /\ asked \in Nat
  /\ wrote \subseteq (Geometry \cup {"nimages", "exposure"})
  /\ leftover \subseteq (Geometry \cup {"nimages", "exposure"})
  /\ gainRefused \in BOOLEAN

\* The whole detector, unbinned.
FullImage == [g \in Geometry |-> IF g \in {"hend", "vend"}
                                 THEN MAX_PIXELS_IN_DIM ELSE 1]

\* AndorParameters::set_defaults(), called once, by main().
Defaults == [mode |-> SingleScan, nimages |-> 1, exposure |-> "positive",
             image |-> FullImage, type |-> "object", gain |-> 0]

\* What the camera does before it is told anything matters to nobody: every
\* set-up that succeeds programs all of it but the gain.
Init ==
  /\ pc = "idle"
  /\ params = Defaults
  /\ camera = [mode |-> SingleScan, kinetics |-> 1, exposure |-> "positive",
               image |-> FullImage, shutter |-> "auto", gain |-> 0]
  /\ buffer = [width |-> 0, height |-> 0]
  /\ gainHeader = 0
  /\ scan = "none"
  /\ given = 0
  /\ asked = 0
  /\ wrote = {}
  /\ leftover = {}
  /\ gainRefused = FALSE

-----------------------------------------------------------------------------
(* resolve_image_parameters().                                             *)

\* get_image() begins: resolve the options of the command.
ImageCommand ==
  /\ pc = "idle"
  /\ pc' = "options"
  /\ asked' = 0
  /\ wrote' = {}
  /\ UNCHANGED <<params, setupVars, given, leftover, gainRefused>>

\* One more option of the command is read.
ReadsOption ==
  /\ pc = "options"
  /\ given < OptionCap
  /\ given' = given + 1
  /\ UNCHANGED <<setupVars, gainRefused>>

\* return 1: the command is rejected and what it wrote stays.
Reject(written) ==
  /\ pc' = "idle"
  /\ leftover' = leftover \cup written
  /\ wrote' = {}
  /\ asked' = 0

\* The option has no argument, or a text that is too long: nothing is written
\* before the function returns.
OptionLacksArgument ==
  /\ ReadsOption
  /\ Reject(wrote)
  /\ UNCHANGED params

\* Mutated: any number will do.
AnyNimages(n) == TRUE

ValidNimages(n) == n >= 1

\* Mutated: one image after a series does not go back to the single scan.
ModeOfSeveral(mode, n) ==
  IF n > 1 /\ mode = SingleScan THEN RunTillAbort ELSE mode

\* --nimages: one image is a single scan; several turn a single scan into a
\* series and leave any other mode as it was.
ModeOfNimages(mode, n) ==
  IF n = 1 THEN SingleScan
  ELSE IF mode = SingleScan THEN RunTillAbort ELSE mode

OptionNimages(n) ==
  /\ ReadsOption
  /\ IF ValidNimages(n)
     THEN /\ params' = [params EXCEPT !.nimages = n,
                                      !.mode = ModeOfNimages(@, n)]
          /\ asked' = n
          /\ wrote' = wrote \cup {"nimages"}
          /\ UNCHANGED <<pc, leftover>>
     ELSE /\ params' = [params EXCEPT !.nimages = n]
          /\ Reject(wrote \cup {"nimages"})

\* --bin writes both bins; --hbin, --vbin, --hstart, --hend, --vstart and
\* --vend one each.  Their values are tested when all options are read.
OptionGeometry(gs, n) ==
  /\ ReadsOption
  /\ params' = [params EXCEPT !.image =
                  [g \in Geometry |-> IF g \in gs THEN n ELSE @[g]]]
  /\ wrote' = wrote \cup gs
  /\ UNCHANGED <<pc, asked, leftover>>

\* The argument is no number: 0 is written and the command rejected.
OptionGeometryNoNumber(gs) ==
  /\ ReadsOption
  /\ params' = [params EXCEPT !.image =
                  [g \in Geometry |-> IF g \in gs THEN 0 ELSE @[g]]]
  /\ Reject(wrote \cup gs)

\* --type.
OptionType(t) ==
  /\ ReadsOption
  /\ params' = [params EXCEPT !.type = t]
  /\ UNCHANGED <<pc, asked, wrote, leftover>>

\* --filename, --object, --filter and --ar-tries write what no step of this
\* module reads; an unknown option is ignored.
OptionElsewhere ==
  /\ ReadsOption
  /\ UNCHANGED <<pc, params, asked, wrote, leftover>>

\* Mutated: exposure_ < 0e0 is the test, as in the final testing.
NotNegative(x) == x # "negative"

\* !(exposure_ >= 0e0) is the test: it is meant for a NaN too.
ValidExposure(x) == x \in {"positive", "zero"}

OptionExposure(x) ==
  /\ ReadsOption
  /\ params' = [params EXCEPT !.exposure = x]
  /\ IF ValidExposure(x)
     THEN /\ wrote' = wrote \cup {"exposure"}
          /\ UNCHANGED <<pc, asked, leftover>>
     ELSE Reject(wrote \cup {"exposure"})

\* --exposure with no number: strtod() gives 0, and the command is rejected.
OptionExposureNoNumber ==
  /\ ReadsOption
  /\ params' = [params EXCEPT !.exposure = "zero"]
  /\ Reject(wrote \cup {"exposure"})

Bins(image) == {image["hbin"], image["vbin"]}
Starts(image) == {image["hstart"], image["vstart"]}
Ends(image) == {image["hend"], image["vend"]}

\* The final testing: the geometry, and again the sign of the exposure.
FinalTests ==
  /\ 0 \notin Bins(params.image)
  /\ Starts(params.image) \subseteq 1..(MAX_PIXELS_IN_DIM - 1)
  /\ Ends(params.image) \subseteq 2..MAX_PIXELS_IN_DIM
  /\ params.exposure # "negative"

\* The last option has been read.
OptionsEnd ==
  /\ pc = "options"
  /\ IF FinalTests
     THEN /\ pc' = "readout"
          /\ leftover' = leftover \ wrote
          /\ wrote' = {}
          /\ UNCHANGED asked
     ELSE Reject(wrote)
  /\ UNCHANGED <<params, setupVars, given, gainRefused>>

-----------------------------------------------------------------------------
(* set_param_value().                                                      *)

SetParamCommand ==
  /\ pc = "idle"
  /\ pc' = "setparam"
  /\ UNCHANGED <<params, setupVars, historyVars>>

ReadsToken ==
  /\ pc = "setparam"
  /\ given < OptionCap
  /\ given' = given + 1
  /\ UNCHANGED <<setupVars, asked, wrote, leftover, gainRefused>>

\* acqmode=: any integer is stored, and what is no number as 0.
SetAcqMode(mode) ==
  /\ ReadsToken
  /\ params' = [params EXCEPT !.mode = mode]
  /\ UNCHANGED pc

\* preampgain=: stored once the camera has answered for the index.
SetGain(gain) ==
  /\ ReadsToken
  /\ params' = [params EXCEPT !.gain = gain]
  /\ UNCHANGED pc

\* kineticcycletime=, observername= and hsspeed= write what no step of this
\* module reads; an unknown token is skipped.
TokenElsewhere ==
  /\ ReadsToken
  /\ UNCHANGED <<pc, params>>

\* An index out of limits, or a camera that does not answer: the function
\* returns, and the tokens before this one stay applied.
TokenRejected ==
  /\ ReadsToken
  /\ pc' = "idle"
  /\ UNCHANGED params

SetParamEnd ==
  /\ pc = "setparam"
  /\ pc' = "idle"
  /\ UNCHANGED <<params, setupVars, historyVars>>

-----------------------------------------------------------------------------
(* setup_acquisition() and the calls of the SDK below it.                  *)

SetUpGoes(from, to) ==
  /\ pc = from
  /\ pc' = to
  /\ UNCHANGED <<params, scan, given, asked, wrote, leftover>>

\* get_image() returns 2; what the camera was told before stays.
SetUpFails == SetUpGoes(pc, "idle")

\* SetImage() takes bins of at least 1 and areas that are not empty (external).
CameraTakes(image) ==
  /\ \A b \in Bins(image) : b >= 1
  /\ image["hstart"] <= image["hend"]
  /\ image["vstart"] <= image["vend"]

\* setup_read_out_mode(): SetReadMode() and SetImage().
SetReadOutMode ==
  /\ SetUpGoes("readout", "mode")
  /\ CameraTakes(params.image)
  /\ camera' = [camera EXCEPT !.image = params.image]
  /\ UNCHANGED <<buffer, gainHeader, gainRefused>>

ReadOutModeRefused ==
  /\ pc = "readout"
  /\ SetUpFails
  /\ UNCHANGED <<camera, buffer, gainHeader, gainRefused>>

\* The settings a mode needs, in the order setup_acquisition_mode() makes
\* them; the other modes are "not applicable" and no call is made.
ModeSettings(mode) ==
  CASE mode = SingleScan -> <<"mode", "exposure">>
    [] mode = 2 -> <<"mode", "exposure", "accumulations", "cycle">>
    [] mode = KineticSeries ->
         <<"mode", "exposure", "accumulations", "cycle", "kinetics", "kcycle">>
    [] mode = RunTillAbort -> <<"mode", "exposure", "kcycle">>
    [] OTHER -> <<>>

Calls == ModeSettings(params.mode)

\* SetNumberKinetics() takes no count below 1 (external).
CameraTakesCalls(n) ==
  (\E i \in 1..n : Calls[i] = "kinetics") => params.nimages >= 1

\* The camera after the first n of those calls.
Told(n) ==
  LET settings == {Calls[i] : i \in 1..n}
  IN  [camera EXCEPT
         !.mode = IF "mode" \in settings THEN params.mode ELSE @,
         !.exposure = IF "exposure" \in settings THEN params.exposure ELSE @,
         !.kinetics = IF "kinetics" \in settings THEN params.nimages ELSE @]

\* setup_acquisition_mode().
SetAcquisitionMode ==
  /\ SetUpGoes("mode", "speeds")
  /\ Calls # <<>>
  /\ CameraTakesCalls(Len(Calls))
  /\ camera' = Told(Len(Calls))
  /\ UNCHANGED <<buffer, gainHeader, gainRefused>>

\* One of the calls fails, or there is none: those before it were made.
AcquisitionModeRefused ==
  /\ pc = "mode"
  /\ SetUpFails
  /\ \E n \in 0..Len(Calls) :
       /\ n < Len(Calls) \/ Calls = <<>>
       /\ CameraTakesCalls(n)
       /\ camera' = Told(n)
  /\ UNCHANGED <<buffer, gainHeader, gainRefused>>

\* set_fastest_recomended_vh_speeds() succeeds.
SetSpeeds ==
  /\ SetUpGoes("speeds", "gain")
  /\ UNCHANGED <<camera, buffer, gainHeader, gainRefused>>

SpeedsRefused ==
  /\ pc = "speeds"
  /\ SetUpFails
  /\ UNCHANGED <<camera, buffer, gainHeader, gainRefused>>

\* Mutated: the index is answered for and never set.
ReadsPreAmpGain ==
  /\ SetUpGoes("gain", "shutter")
  /\ gainRefused' = FALSE
  /\ UNCHANGED <<camera, buffer, gainHeader>>

\* set_preampgain(); that it cannot read the factor back changes nothing.
SetPreAmpGain ==
  /\ SetUpGoes("gain", "shutter")
  /\ camera' = [camera EXCEPT !.gain = params.gain]
  /\ gainRefused' = FALSE
  /\ UNCHANGED <<buffer, gainHeader>>

\* Its result is not looked at: the camera keeps the gain it had.
PreAmpGainRefused ==
  /\ SetUpGoes("gain", "shutter")
  /\ gainRefused' = TRUE
  /\ UNCHANGED <<camera, buffer, gainHeader>>

ShutterFor(type) == IF type = "dark" THEN "closed" ELSE "auto"

\* Mutated: the shutter is set for dark images only.
ClosesShutter ==
  /\ SetUpGoes("shutter", "size")
  /\ camera' = [camera EXCEPT
                  !.shutter = IF params.type = "dark" THEN "closed" ELSE @]
  /\ UNCHANGED <<buffer, gainHeader, gainRefused>>

SetShutter ==
  /\ SetUpGoes("shutter", "size")
  /\ camera' = [camera EXCEPT !.shutter = ShutterFor(params.type)]
  /\ UNCHANGED <<buffer, gainHeader, gainRefused>>

ShutterRefused ==
  /\ pc = "shutter"
  /\ SetUpFails
  /\ UNCHANGED <<camera, buffer, gainHeader, gainRefused>>

\* Mutated: the last pixel is not counted.
PixelsBetween(start, end, bin) == (end - start) \div bin

\* Pixels along one axis, as the program computes them.
NumPixels(start, end, bin) == (end - start + 1) \div bin

Width == NumPixels(params.image["hstart"], params.image["hend"],
                   params.image["hbin"])
Height == NumPixels(params.image["vstart"], params.image["vend"],
                    params.image["vbin"])

SizeOK == {Width, Height} \subseteq 1..MAX_PIXELS_IN_DIM

\* GetDetector() agrees with MAX_PIXELS_IN_DIM and the size is valid.
ComputeSize ==
  /\ SetUpGoes("size", "timings")
  /\ SizeOK
  /\ UNCHANGED <<camera, buffer, gainHeader, gainRefused>>

SizeRefused ==
  /\ pc = "size"
  /\ SetUpFails
  /\ UNCHANGED <<camera, buffer, gainHeader, gainRefused>>

\* The headers of Aristarchos are merged here when they are asked for
\* (FitsHeaders); then GetAcquisitionTimings() succeeds.
GetTimings ==
  /\ SetUpGoes("timings", "headers")
  /\ UNCHANGED <<camera, buffer, gainHeader, gainRefused>>

TimingsRefused ==
  /\ pc = "timings"
  /\ SetUpFails
  /\ UNCHANGED <<camera, buffer, gainHeader, gainRefused>>

\* The GAIN header is the factor of the index in the parameters, which the
\* camera may not have taken.  Then the buffer is allocated, and
\* get_acquisition() calls the scan of the mode.
ScanOf(mode) ==
  CASE mode = SingleScan -> "single"
    [] mode = RunTillAbort -> "rta"
    [] mode = KineticSeries -> "kinetic"
    [] OTHER -> "none"

AllocateBuffer == buffer' = [width |-> Width, height |-> Height]

AddHeaders ==
  /\ pc = "headers"
  /\ gainHeader' = params.gain
  /\ AllocateBuffer
  /\ scan' = ScanOf(params.mode)
  /\ pc' = IF scan' = "none" THEN "idle" ELSE "scan"
  /\ UNCHANGED <<params, camera, historyVars>>

\* GetPreAmpGain() fails.
GainUnknown ==
  /\ pc = "headers"
  /\ SetUpFails
  /\ UNCHANGED <<camera, buffer, gainHeader, gainRefused>>

\* The scan returns and get_image() frees the buffer.
ScanReturns ==
  /\ pc = "scan"
  /\ pc' = "idle"
  /\ scan' = "none"
  /\ buffer' = [width |-> 0, height |-> 0]
  /\ UNCHANGED <<params, camera, gainHeader, historyVars>>

-----------------------------------------------------------------------------

ReadOptions ==
  \/ OptionLacksArgument
  \/ \E n \in Parsed : OptionNimages(n)
  \/ \E gs \in {{g} : g \in Geometry} \cup {{"hbin", "vbin"}} :
       \/ \E n \in Numbers : OptionGeometry(gs, n)
       \/ OptionGeometryNoNumber(gs)
  \/ \E t \in Types : OptionType(t)
  \/ OptionElsewhere
  \/ \E x \in Exposures : OptionExposure(x)
  \/ OptionExposureNoNumber

SetParameters ==
  \/ SetParamCommand
  \/ \E mode \in Modes : SetAcqMode(mode)
  \/ \E gain \in Gains : SetGain(gain)
  \/ TokenElsewhere
  \/ TokenRejected
  \/ SetParamEnd

SetUp ==
  \/ SetReadOutMode
  \/ SetAcquisitionMode
  \/ SetSpeeds
  \/ SetPreAmpGain
  \/ PreAmpGainRefused
  \/ SetShutter
  \/ ComputeSize
  \/ GetTimings
  \/ AddHeaders

SetUpRefused ==
  \/ ReadOutModeRefused
  \/ AcquisitionModeRefused
  \/ SpeedsRefused
  \/ ShutterRefused
  \/ SizeRefused
  \/ TimingsRefused
  \/ GainUnknown

Next ==
  \/ ImageCommand
  \/ ReadOptions
  \/ OptionsEnd
  \/ SetParameters
  \/ SetUp
  \/ SetUpRefused
  \/ ScanReturns

Spec == Init /\ [][Next]_vars

-----------------------------------------------------------------------------
(* Properties.                                                             *)

\* Pixels the camera will deliver along each axis (external).
CameraWidth == (camera.image["hend"] - camera.image["hstart"] + 1)
                 \div camera.image["hbin"]
CameraHeight == (camera.image["vend"] - camera.image["vstart"] + 1)
                  \div camera.image["vbin"]

\* While a scan runs, img_buffer has the shape of the image the camera was
\* last told to take: the SDK copies one into the other, and the FITS file is
\* written from it, with nothing but the two numbers in common.  A set-up that
\* failed earlier leaves the camera with another geometry than the buffer's.
BufferFitsImage ==
  pc = "scan" => /\ buffer.width = CameraWidth
                 /\ buffer.height = CameraHeight
                 /\ buffer.width >= 1
                 /\ buffer.height >= 1

\* While a scan runs, the camera has been told what the parameters say, and the
\* function that waits for the images is the one for the camera's mode.
\* Settings of earlier commands, of those that failed half way through the
\* set-up too, have all been replaced: above all the shutter opens again after
\* a dark image.
CameraObeysCommand ==
  pc = "scan" =>
    /\ scan = ScanOf(camera.mode)
    /\ camera.exposure = params.exposure
    /\ scan = "kinetic" => camera.kinetics = params.nimages
    /\ camera.shutter = "closed" <=> params.type = "dark"

\* A command that gives --nimages gets that many images: one is a single scan,
\* several never are, whatever mode earlier commands left behind.
NimagesDecides ==
  pc = "scan" /\ asked # 0 => /\ params.nimages = asked
                              /\ asked = 1 <=> scan = "single"

\* A scan with a number of images or an exposure that the options do not allow
\* has it from a command that was rejected, never from its own.
InvalidIsLeftover ==
  pc = "scan" =>
    /\ params.nimages < 1 => "nimages" \in leftover
    /\ params.exposure # "negative"
    /\ params.exposure = "nan" => "exposure" \in leftover

\* The GAIN header of the files names the gain the camera works with, but for
\* a SetPreAmpGain() that failed in the set-up of this very command.
GainIsTold == pc = "scan" => gainHeader = camera.gain \/ gainRefused

\* "Must be a (valid) integral numeric value", "Exposure must be a positive
\* real number" (resolve_image_parameters.cpp:82-83, 387): what runs respects
\* both.  It does not: a rejected command leaves its values behind and the
\* final tests repeat neither.
AcceptedIsValid ==
  pc = "scan" => params.nimages >= 1 /\ params.exposure # "nan"
=============================================================================
