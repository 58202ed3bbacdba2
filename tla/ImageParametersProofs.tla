----------------------- MODULE ImageParametersProofs -----------------------
(***************************************************************************)
(* Proofs about ImageParameters, for every detector size, every set of     *)
(* numbers a client may write and any number of options.                   *)
(*                                                                         *)
(* The properties speak of the moment a scan runs; what makes them true    *)
(* happened up to eight calls earlier, and commands that failed in between *)
(* have left their traces.  The inductive invariant says at each place of  *)
(* a set-up which settings of the camera are already this command's.       *)
(***************************************************************************)
EXTENDS ImageParameters, TLAPS

\* The places of setup_acquisition() and of the scan, from each one on.
FromHeaders == {"headers", "scan"}
FromTimings == {"timings"} \cup FromHeaders
FromSize == {"size"} \cup FromTimings
FromShutter == {"shutter"} \cup FromSize
FromSpeeds == {"speeds", "gain"} \cup FromShutter
FromMode == {"mode"} \cup FromSpeeds
FromReadOut == {"readout"} \cup FromMode

\* How the parameters go with what this command gave and what rejected ones
\* left: an invalid number or exposure is a leftover, and a number given by
\* this command has decided the mode.
CommandInv ==
  /\ wrote # {} => pc = "options"
  /\ pc \in {"options"} \cup FromReadOut /\ asked # 0 =>
       params.nimages = asked /\ (asked = 1 <=> params.mode = SingleScan)
  /\ params.nimages < 1 => "nimages" \in leftover
  /\ "nimages" \in wrote => params.nimages >= 1
  /\ params.exposure \in {"negative", "nan"} => "exposure" \in leftover
  /\ "exposure" \in wrote => params.exposure \in {"positive", "zero"}
  /\ pc \in FromReadOut => params.exposure # "negative"

\* What the camera has been told at each place of the set-up.
ToldInv ==
  /\ pc \in FromMode => camera.image = params.image
  /\ pc \in FromSpeeds => /\ camera.mode = params.mode
                          /\ camera.exposure = params.exposure
                          /\ params.mode = KineticSeries =>
                               camera.kinetics = params.nimages
  /\ pc \in FromShutter => camera.gain = params.gain \/ gainRefused
  /\ pc \in FromSize => camera.shutter = ShutterFor(params.type)

\* What setup_acquisition() has computed, and hands to the scan.
SizeInv ==
  /\ pc \in FromTimings => SizeOK
  /\ pc = "scan" => /\ buffer = [width |-> Width, height |-> Height]
                    /\ gainHeader = params.gain
                    /\ scan = ScanOf(params.mode)

IInv == TypeOK /\ CommandInv /\ ToldInv /\ SizeInv

ParamsType ==
  [mode : Modes, nimages : Parsed \cup {1}, exposure : Exposures,
   image : [Geometry -> Parsed \cup {1, MAX_PIXELS_IN_DIM}],
   type : Types, gain : Gains]
CameraType ==
  [mode : Modes, kinetics : Parsed \cup {1}, exposure : Exposures,
   image : [Geometry -> Parsed \cup {1, MAX_PIXELS_IN_DIM}],
   shutter : {"auto", "closed"}, gain : Gains]

-----------------------------------------------------------------------------

\* The numbers an option may write are integers.
LEMMA ParsedIsInt == Parsed \subseteq Int
  BY ParametersAssumption DEF Parsed

\* And so is the number of images.
LEMMA NimagesIsInt == TypeOK => params.nimages \in Int
<1>1. TypeOK => params.nimages \in Parsed \cup {1} BY DEF TypeOK
<1>2. \A n \in Parsed \cup {1} : n \in Int BY ParsedIsInt
<1> QED BY <1>1, <1>2

\* The initial state satisfies the invariant.
LEMMA InitIInv == Init => IInv
<1> SUFFICES ASSUME Init PROVE IInv OBVIOUS
<1> USE DEF Init, Defaults, FullImage
<1>1. TypeOK
  <2>1. params \in ParamsType
    BY SMT DEF ParamsType, Modes, SingleScan, Exposures, Types, Gains
  <2>2. camera \in CameraType
    BY SMT DEF CameraType, Modes, SingleScan, Exposures, Gains
  <2>3. buffer \in [width : 0..MAX_PIXELS_IN_DIM,
                    height : 0..MAX_PIXELS_IN_DIM]
    BY ParametersAssumption
  <2>4. gainHeader \in Gains /\ given \in 0..OptionCap /\ asked \in Nat
    BY ParametersAssumption DEF Gains
  <2> QED BY <2>1, <2>2, <2>3, <2>4 DEF TypeOK, ParamsType, CameraType
<1>2. CommandInv BY DEF CommandInv, FromReadOut, FromMode, FromSpeeds,
                        FromShutter, FromSize, FromTimings, FromHeaders
<1>3. ToldInv BY DEF ToldInv, FromMode, FromSpeeds, FromShutter, FromSize,
                     FromTimings, FromHeaders
<1>4. SizeInv BY DEF SizeInv, FromTimings, FromHeaders
<1> QED BY <1>1, <1>2, <1>3, <1>4 DEF IInv

\* The types are kept, first those of the option parser.
LEMMA ReadOptionsType == TypeOK /\ ReadOptions => TypeOK'
<1> SUFFICES ASSUME TypeOK, ReadOptions PROVE TypeOK' OBVIOUS
<1> USE DEF TypeOK, setupVars, ReadsOption, Reject
<1>1. ReadsOption /\ given' \in 0..OptionCap
  <2>1. ReadsOption
    BY DEF ReadOptions, OptionLacksArgument, OptionNimages, OptionGeometry,
           OptionGeometryNoNumber, OptionType, OptionElsewhere,
           OptionExposure, OptionExposureNoNumber
  <2> QED BY <2>1, ParametersAssumption
<1>2. CASE OptionLacksArgument \/ OptionElsewhere
  BY <1>1, <1>2 DEF OptionLacksArgument, OptionElsewhere
<1>3. ASSUME NEW n \in Parsed, OptionNimages(n) PROVE TypeOK'
  <2>1. n \in Int BY ParsedIsInt
  <2>2. ModeOfNimages(params.mode, n) \in Modes
    BY DEF ModeOfNimages, Modes, SingleScan, RunTillAbort
  <2>3. CASE ValidNimages(n)
    <3>1. n \in Nat BY <2>1, <2>3 DEF ValidNimages
    <3>2. params' \in ParamsType
      BY <1>3, <2>2, <2>3 DEF OptionNimages, ParamsType
    <3> QED BY <1>1, <1>3, <2>3, <3>1, <3>2 DEF OptionNimages, ParamsType
  <2>4. CASE ~ValidNimages(n)
    BY <1>1, <1>3, <2>4 DEF OptionNimages
  <2> QED BY <2>3, <2>4
<1>4. ASSUME NEW gs \in SUBSET Geometry, NEW n \in Parsed,
             params' = [params EXCEPT !.image =
                          [g \in Geometry |-> IF g \in gs THEN n ELSE @[g]]],
             \/ Reject(wrote \cup gs)
             \/ wrote' = wrote \cup gs /\ UNCHANGED <<pc, asked, leftover>>
      PROVE TypeOK'
  BY <1>1, <1>4
<1>5. ASSUME NEW gs \in SUBSET Geometry,
             \/ \E n \in Numbers : OptionGeometry(gs, n)
             \/ OptionGeometryNoNumber(gs)
      PROVE TypeOK'
  BY <1>4, <1>5 DEF OptionGeometry, OptionGeometryNoNumber, Parsed
<1>6. ASSUME NEW t \in Types, OptionType(t) PROVE TypeOK'
  BY <1>1, <1>6 DEF OptionType
<1>7. ASSUME NEW x \in Exposures, OptionExposure(x) PROVE TypeOK'
  BY <1>1, <1>7 DEF OptionExposure
<1>8. CASE OptionExposureNoNumber
  BY <1>1, <1>8 DEF OptionExposureNoNumber, Exposures
<1>9. {{g} : g \in Geometry} \cup {{"hbin", "vbin"}} \subseteq SUBSET Geometry
  BY DEF Geometry
<1> QED BY <1>2, <1>3, <1>5, <1>6, <1>7, <1>8, <1>9 DEF ReadOptions

\* The width and the height of the buffer are in range because the set-up has
\* passed the test of the size.
LEMMA TypeStep == TypeOK /\ SizeInv /\ [Next]_vars => TypeOK'
<1> SUFFICES ASSUME TypeOK, SizeInv, [Next]_vars PROVE TypeOK' OBVIOUS
<1> USE DEF TypeOK, setupVars, historyVars, SetUpGoes
<1>1. CASE ReadOptions BY <1>1, ReadOptionsType
<1>2. CASE ImageCommand \/ OptionsEnd
  BY <1>2 DEF ImageCommand, OptionsEnd, Reject
<1>3. CASE SetParameters
  <2>1. CASE SetParamCommand \/ SetParamEnd
    BY <2>1 DEF SetParamCommand, SetParamEnd
  <2>2. CASE ~(SetParamCommand \/ SetParamEnd)
    <3>1. ReadsToken /\ given' \in 0..OptionCap
      <4>1. ReadsToken BY <1>3, <2>2 DEF SetParameters, SetAcqMode, SetGain,
                                         TokenElsewhere, TokenRejected
      <4> QED BY <4>1, ParametersAssumption DEF ReadsToken
    <3> QED BY <1>3, <2>2, <3>1 DEF SetParameters, SetAcqMode, SetGain,
                                    TokenElsewhere, TokenRejected, ReadsToken
  <2> QED BY <2>1, <2>2
<1>4. CASE AddHeaders
  <2>1. /\ Width \in 1..MAX_PIXELS_IN_DIM
        /\ Height \in 1..MAX_PIXELS_IN_DIM
    BY <1>4 DEF AddHeaders, SizeInv, SizeOK, FromTimings, FromHeaders
  <2>2. buffer' \in [width : 0..MAX_PIXELS_IN_DIM,
                     height : 0..MAX_PIXELS_IN_DIM]
    BY <1>4, <2>1, ParametersAssumption DEF AddHeaders, AllocateBuffer
  <2> QED BY <1>4, <2>2 DEF AddHeaders, ScanOf
<1>5. ASSUME camera' \in CameraType, gainRefused' \in BOOLEAN,
             UNCHANGED <<params, scan, given, asked, wrote, leftover>>,
             UNCHANGED <<buffer, gainHeader>>,
             pc' \in {"idle"} \cup FromMode
      PROVE TypeOK'
  BY <1>5 DEF CameraType, FromMode, FromSpeeds, FromShutter, FromSize,
              FromTimings, FromHeaders
<1>6. ASSUME NEW n \in Nat PROVE Told(n) \in CameraType
  BY DEF Told, CameraType
<1>8. CASE SetAcquisitionMode \/ AcquisitionModeRefused
  <2>1. Len(Calls) \in Nat BY DEF Calls, ModeSettings
  <2>2. camera' \in CameraType
    BY <1>6, <1>8, <2>1 DEF SetAcquisitionMode, AcquisitionModeRefused
  <2> QED BY <1>5, <1>8, <2>2
          DEF SetAcquisitionMode, AcquisitionModeRefused, SetUpFails,
              FromMode, FromSpeeds
<1>9. CASE SetReadOutMode \/ SetPreAmpGain \/ PreAmpGainRefused \/ SetShutter
  <2>1. camera' \in CameraType /\ gainRefused' \in BOOLEAN
    BY <1>9 DEF SetReadOutMode, SetPreAmpGain, PreAmpGainRefused, SetShutter,
                ShutterFor, CameraType
  <2> QED BY <1>5, <1>9, <2>1
          DEF SetReadOutMode, SetPreAmpGain, PreAmpGainRefused, SetShutter,
              FromMode, FromSpeeds, FromShutter, FromSize
<1>10. CASE \/ SetSpeeds \/ ComputeSize \/ GetTimings
            \/ SetUpRefused /\ ~AcquisitionModeRefused
  <2>1. UNCHANGED <<camera, gainRefused, buffer, gainHeader>>
    BY <1>10 DEF SetSpeeds, ComputeSize, GetTimings, SetUpRefused,
                 ReadOutModeRefused, SpeedsRefused, ShutterRefused,
                 SizeRefused, TimingsRefused, GainUnknown
  <2>2. /\ UNCHANGED <<params, scan, given, asked, wrote, leftover>>
        /\ pc' \in {"idle"} \cup FromMode
    BY <1>10 DEF SetSpeeds, ComputeSize, GetTimings, SetUpRefused,
                 ReadOutModeRefused, SpeedsRefused, ShutterRefused,
                 SizeRefused, TimingsRefused, GainUnknown, SetUpFails,
                 FromMode, FromSpeeds, FromShutter, FromSize, FromTimings,
                 FromHeaders
  <2> QED BY <1>5, <2>1, <2>2 DEF CameraType
<1>11. CASE ScanReturns
  BY <1>11, ParametersAssumption DEF ScanReturns
<1>12. CASE UNCHANGED vars
  BY <1>12 DEF vars
<1> QED BY <1>1, <1>2, <1>3, <1>4, <1>8, <1>9, <1>10, <1>11, <1>12
    DEF Next, SetUp, SetUpRefused

-----------------------------------------------------------------------------

\* What a command gave, and what rejected ones left behind, is kept.  A number
\* of images is either tested by the command that gave it or a leftover.
LEMMA CommandStep ==
  TypeOK /\ CommandInv /\ [Next]_vars => CommandInv'
<1> SUFFICES ASSUME TypeOK, CommandInv, [Next]_vars PROVE CommandInv' OBVIOUS
<1> USE DEF CommandInv, FromReadOut, FromMode, FromSpeeds, FromShutter,
            FromSize, FromTimings, FromHeaders
<1>1. CASE ReadOptions
  <2> USE <1>1 DEF ReadsOption, Reject
  <2>1. /\ pc = "options"
        /\ pc' \in {"idle", "options"}
    BY DEF ReadOptions, OptionLacksArgument, OptionNimages, OptionGeometry,
           OptionGeometryNoNumber, OptionType, OptionElsewhere,
           OptionExposure, OptionExposureNoNumber
  <2>2. CASE OptionLacksArgument \/ OptionElsewhere
    BY <2>2 DEF OptionLacksArgument, OptionElsewhere
  <2>3. ASSUME NEW n \in Parsed, OptionNimages(n) PROVE CommandInv'
    <3>1. CASE ValidNimages(n)
      <4>1. /\ params'.nimages = n
            /\ params'.mode = ModeOfNimages(params.mode, n)
            /\ params'.exposure = params.exposure
        BY <2>3, <3>1 DEF OptionNimages, TypeOK
      <4>2. n = 1 <=> params'.mode = SingleScan
        BY <4>1 DEF ModeOfNimages, SingleScan, RunTillAbort
      <4>3. n \in Int /\ n >= 1
        BY <3>1, ParsedIsInt DEF ValidNimages
      <4> QED BY <2>1, <2>3, <3>1, <4>1, <4>2, <4>3 DEF OptionNimages
    <3>2. CASE ~ValidNimages(n)
      BY <2>3, <3>2 DEF OptionNimages, TypeOK
    <3> QED BY <3>1, <3>2
  <2>4. ASSUME NEW gs \in SUBSET Geometry,
               \/ \E n \in Numbers : OptionGeometry(gs, n)
               \/ OptionGeometryNoNumber(gs)
        PROVE CommandInv'
    BY <2>1, <2>4 DEF OptionGeometry, OptionGeometryNoNumber, TypeOK, Geometry
  <2>5. ASSUME NEW t \in Types, OptionType(t) PROVE CommandInv'
    BY <2>1, <2>5 DEF OptionType, TypeOK
  <2>6. ASSUME NEW x \in Exposures, OptionExposure(x) PROVE CommandInv'
    BY <2>1, <2>6 DEF OptionExposure, ValidExposure, TypeOK
  <2>7. CASE OptionExposureNoNumber
    BY <2>7 DEF OptionExposureNoNumber, TypeOK
  <2>8. {{g} : g \in Geometry} \cup {{"hbin", "vbin"}} \subseteq SUBSET Geometry
    BY DEF Geometry
  <2> QED BY <2>2, <2>3, <2>4, <2>5, <2>6, <2>7, <2>8 DEF ReadOptions
<1>2. CASE ImageCommand
  BY <1>2 DEF ImageCommand
<1>3. CASE OptionsEnd
  <2>1. UNCHANGED params
    BY <1>3 DEF OptionsEnd
  <2>2. CASE FinalTests
    <3>1. params.exposure # "negative" BY <2>2 DEF FinalTests
    <3>2. /\ pc = "options" /\ pc' = "readout" /\ asked' = asked
          /\ leftover' = leftover \ wrote /\ wrote' = {}
      BY <1>3, <2>2 DEF OptionsEnd
    <3>3. params.nimages < 1 => "nimages" \in leftover'
      <4>1. params.nimages \in Int BY NimagesIsInt
      <4>2. "nimages" \in wrote => ~(params.nimages < 1) BY <4>1
      <4> QED BY <3>2, <4>2
    <3>4. params.exposure \in {"negative", "nan"} => "exposure" \in leftover'
      <4>1. "exposure" \in wrote => params.exposure \notin {"negative", "nan"}
        OBVIOUS
      <4> QED BY <3>2, <4>1
    <3>5. asked # 0 => /\ params.nimages = asked
                       /\ asked = 1 <=> params.mode = SingleScan
      BY <3>2
    <3> QED BY <2>1, <3>1, <3>2, <3>3, <3>4, <3>5
  <2>3. CASE ~FinalTests
    BY <1>3, <2>1, <2>3 DEF OptionsEnd, Reject
  <2> QED BY <2>2, <2>3
<1>4. CASE SetParameters
  <2>1. /\ pc' \in {"idle", "setparam"}
        /\ params'.nimages = params.nimages
        /\ params'.exposure = params.exposure
        /\ UNCHANGED <<wrote, leftover>>
        /\ wrote = {}
    BY <1>4 DEF SetParameters, SetParamCommand, SetAcqMode, SetGain,
                TokenElsewhere, TokenRejected, SetParamEnd, ReadsToken,
                historyVars, TypeOK
  <2> QED BY <2>1
<1>5. CASE SetUp \/ SetUpRefused
  <2>1. /\ pc \in FromReadOut
        /\ pc' \in FromReadOut \cup {"idle"}
        /\ UNCHANGED <<params, asked, wrote, leftover>>
    BY <1>5 DEF SetUp, SetUpRefused, SetUpGoes, SetUpFails, SetReadOutMode,
                ReadOutModeRefused, SetAcquisitionMode,
                AcquisitionModeRefused, SetSpeeds, SpeedsRefused,
                SetPreAmpGain, PreAmpGainRefused, SetShutter, ShutterRefused,
                ComputeSize, SizeRefused, GetTimings, TimingsRefused,
                AddHeaders, GainUnknown, historyVars
  <2> QED BY <2>1
<1>6. CASE ScanReturns
  BY <1>6 DEF ScanReturns, historyVars
<1>7. CASE UNCHANGED vars
  BY <1>7 DEF vars, historyVars
<1> QED BY <1>1, <1>2, <1>3, <1>4, <1>5, <1>6, <1>7 DEF Next

\* The calls setup_acquisition_mode() makes when all of them succeed tell the
\* camera the mode, the exposure and, for a series, the number of images.
LEMMA ToldAll ==
  ASSUME TypeOK, Calls # <<>>
  PROVE  LET all == Told(Len(Calls))
         IN  /\ all.mode = params.mode
             /\ all.exposure = params.exposure
             /\ params.mode = KineticSeries => all.kinetics = params.nimages
             /\ all.image = camera.image
<1> DEFINE settings == {Calls[i] : i \in 1..Len(Calls)}
<1>1. {"mode", "exposure"} \subseteq settings
  <2>1. Len(Calls) >= 2 /\ Calls[1] = "mode" /\ Calls[2] = "exposure"
    BY DEF Calls, ModeSettings
  <2>2. 1 \in 1..Len(Calls) /\ 2 \in 1..Len(Calls)
    <3>1. Len(Calls) \in Nat BY DEF Calls, ModeSettings
    <3> QED BY <2>1, <3>1
  <2> QED BY <2>1, <2>2
<1>2. params.mode = KineticSeries => "kinetics" \in settings
  <2> SUFFICES ASSUME params.mode = KineticSeries PROVE "kinetics" \in settings
    OBVIOUS
  <2>1. Calls = <<"mode", "exposure", "accumulations", "cycle", "kinetics",
                  "kcycle">>
    BY DEF Calls, ModeSettings, KineticSeries, SingleScan, RunTillAbort
  <2>2. 5 \in 1..Len(Calls) /\ Calls[5] = "kinetics" BY <2>1
  <2> QED BY <2>2
<1> QED BY <1>1, <1>2 DEF Told, TypeOK

\* What the camera has been told is kept from the call that tells it to the
\* end of the scan.
LEMMA ToldStep == TypeOK /\ ToldInv /\ [Next]_vars => ToldInv'
<1> SUFFICES ASSUME TypeOK, ToldInv, [Next]_vars PROVE ToldInv' OBVIOUS
<1> USE DEF ToldInv, FromMode, FromSpeeds, FromShutter, FromSize,
            FromTimings, FromHeaders, SetUpGoes
<1>1. ASSUME pc' \in {"idle", "options", "readout", "setparam"}
      PROVE ToldInv'
  BY <1>1
<1>2. CASE ReadOptions \/ ImageCommand \/ OptionsEnd \/ SetParameters
  <2>1. pc' \in {"idle", "options", "readout", "setparam"}
    BY <1>2 DEF ReadOptions, OptionLacksArgument, OptionNimages,
         OptionGeometry, OptionGeometryNoNumber, OptionType, OptionElsewhere,
         OptionExposure, OptionExposureNoNumber, ReadsOption, Reject,
         ImageCommand, OptionsEnd, SetParameters, SetParamCommand, SetAcqMode,
         SetGain, TokenElsewhere, TokenRejected, SetParamEnd, ReadsToken
  <2> QED BY <1>1, <2>1
<1>3. CASE SetUpRefused \/ ScanReturns
  <2>1. pc' = "idle"
    BY <1>3 DEF SetUpRefused, ReadOutModeRefused, AcquisitionModeRefused,
         SpeedsRefused, ShutterRefused, SizeRefused, TimingsRefused,
         GainUnknown, SetUpFails, ScanReturns
  <2> QED BY <1>1, <2>1
<1>4. CASE SetReadOutMode
  BY <1>4 DEF SetReadOutMode, TypeOK
<1>5. CASE SetAcquisitionMode
  BY <1>5, ToldAll DEF SetAcquisitionMode
<1>6. CASE SetSpeeds \/ ComputeSize \/ GetTimings \/ AddHeaders
  BY <1>6 DEF SetSpeeds, ComputeSize, GetTimings, AddHeaders, historyVars
<1>7. CASE SetPreAmpGain \/ PreAmpGainRefused
  BY <1>7 DEF SetPreAmpGain, PreAmpGainRefused, TypeOK
<1>8. CASE SetShutter
  BY <1>8 DEF SetShutter, TypeOK
<1>9. CASE UNCHANGED vars
  BY <1>9 DEF vars, setupVars, historyVars
<1> QED BY <1>2, <1>3, <1>4, <1>5, <1>6, <1>7, <1>8, <1>9 DEF Next, SetUp

\* The size, the buffer, the header and the choice of the scan.
LEMMA SizeStep == SizeInv /\ [Next]_vars => SizeInv'
<1> SUFFICES ASSUME SizeInv, [Next]_vars PROVE SizeInv' OBVIOUS
<1> USE DEF SizeInv, FromTimings, FromHeaders, SetUpGoes
<1>1. ASSUME pc' \notin FromTimings PROVE SizeInv'
  BY <1>1
<1>2. CASE ReadOptions \/ ImageCommand \/ OptionsEnd \/ SetParameters
  <2>1. pc' \in {"idle", "options", "readout", "setparam"}
    BY <1>2 DEF ReadOptions, OptionLacksArgument, OptionNimages,
         OptionGeometry, OptionGeometryNoNumber, OptionType, OptionElsewhere,
         OptionExposure, OptionExposureNoNumber, ReadsOption, Reject,
         ImageCommand, OptionsEnd, SetParameters, SetParamCommand, SetAcqMode,
         SetGain, TokenElsewhere, TokenRejected, SetParamEnd, ReadsToken
  <2> QED BY <1>1, <2>1
<1>3. CASE SetUpRefused \/ ScanReturns
  <2>1. pc' = "idle"
    BY <1>3 DEF SetUpRefused, ReadOutModeRefused, AcquisitionModeRefused,
         SpeedsRefused, ShutterRefused, SizeRefused, TimingsRefused,
         GainUnknown, SetUpFails, ScanReturns
  <2> QED BY <1>1, <2>1
<1>4. CASE \/ SetReadOutMode \/ SetAcquisitionMode \/ SetSpeeds
           \/ SetPreAmpGain \/ PreAmpGainRefused \/ SetShutter
  BY <1>1, <1>4 DEF SetReadOutMode, SetAcquisitionMode, SetSpeeds,
       SetPreAmpGain, PreAmpGainRefused, SetShutter
<1>5. CASE ComputeSize \/ GetTimings
  BY <1>5 DEF ComputeSize, GetTimings, SizeOK, Width, Height
<1>6. CASE AddHeaders
  BY <1>6 DEF AddHeaders, AllocateBuffer, SizeOK, Width, Height
<1>7. CASE UNCHANGED vars
  BY <1>7 DEF vars, setupVars, SizeOK, Width, Height
<1> QED BY <1>2, <1>3, <1>4, <1>5, <1>6, <1>7 DEF Next, SetUp

-----------------------------------------------------------------------------

\* The strengthening holds in every reachable state.
THEOREM Invariance == Spec => []IInv
<1>1. Init => IInv BY InitIInv
<1>2. IInv /\ [Next]_vars => IInv'
  BY TypeStep, CommandStep, ToldStep, SizeStep DEF IInv
<1> QED BY <1>1, <1>2, PTL DEF Spec

\* Every variable keeps its type: the parameters hold only what some command
\* wrote, and the buffer is never larger than the detector.
THEOREM TypeCorrect == Spec => []TypeOK
BY Invariance, PTL DEF IInv

\* The buffer a scan copies into has the shape of the image the camera was
\* told to take, whatever earlier set-ups that failed had told it.
THEOREM BufferFits == Spec => []BufferFitsImage
<1>1. IInv => BufferFitsImage
  <2> SUFFICES ASSUME IInv, pc = "scan"
               PROVE  /\ buffer.width = CameraWidth
                      /\ buffer.height = CameraHeight
                      /\ buffer.width >= 1 /\ buffer.height >= 1
    BY DEF BufferFitsImage
  <2>1. /\ buffer = [width |-> Width, height |-> Height]
        /\ SizeOK
    BY DEF IInv, SizeInv, FromTimings, FromHeaders
  <2>2. camera.image = params.image
    BY DEF IInv, ToldInv, FromMode, FromSpeeds, FromShutter, FromSize,
           FromTimings, FromHeaders
  <2>3. CameraWidth = Width /\ CameraHeight = Height
    BY <2>2 DEF CameraWidth, CameraHeight, Width, Height, NumPixels
  <2>4. Width >= 1 /\ Height >= 1
    BY <2>1, ParametersAssumption DEF SizeOK
  <2> QED BY <2>1, <2>3, <2>4
<1> QED BY Invariance, <1>1, PTL

\* While a scan runs the camera works with the settings of this command, and
\* the scan is the one for the camera's mode.
THEOREM CameraObeys == Spec => []CameraObeysCommand
<1>1. IInv => CameraObeysCommand
  <2> SUFFICES ASSUME IInv, pc = "scan"
               PROVE  /\ scan = ScanOf(camera.mode)
                      /\ camera.exposure = params.exposure
                      /\ scan = "kinetic" => camera.kinetics = params.nimages
                      /\ camera.shutter = "closed" <=> params.type = "dark"
    BY DEF CameraObeysCommand
  <2>1. /\ scan = ScanOf(params.mode)
        /\ camera.mode = params.mode
        /\ camera.exposure = params.exposure
        /\ params.mode = KineticSeries => camera.kinetics = params.nimages
        /\ camera.shutter = ShutterFor(params.type)
    BY DEF IInv, ToldInv, SizeInv, FromSpeeds, FromShutter, FromSize,
           FromTimings, FromHeaders
  <2>2. scan = "kinetic" => params.mode = KineticSeries
    BY <2>1 DEF ScanOf, KineticSeries, SingleScan, RunTillAbort
  <2> QED BY <2>1, <2>2 DEF ShutterFor
<1> QED BY Invariance, <1>1, PTL

\* The number of images a command gives decides between one and several.
THEOREM NumberDecides == Spec => []NimagesDecides
<1>1. IInv => NimagesDecides
  <2> SUFFICES ASSUME IInv, pc = "scan", asked # 0
               PROVE  params.nimages = asked /\ (asked = 1 <=> scan = "single")
    BY DEF NimagesDecides
  <2>1. params.nimages = asked /\ (asked = 1 <=> params.mode = SingleScan)
    BY DEF IInv, CommandInv, FromReadOut, FromMode, FromSpeeds, FromShutter,
           FromSize, FromTimings, FromHeaders
  <2>2. scan = "single" <=> params.mode = SingleScan
    BY DEF IInv, SizeInv, ScanOf, SingleScan, RunTillAbort, KineticSeries
  <2> QED BY <2>1, <2>2
<1> QED BY Invariance, <1>1, PTL

\* A number or an exposure no command may have is what a rejected one left.
THEOREM OnlyLeftoversInvalid == Spec => []InvalidIsLeftover
<1>1. IInv => InvalidIsLeftover
  BY DEF IInv, CommandInv, InvalidIsLeftover, FromReadOut, FromMode,
         FromSpeeds, FromShutter, FromSize, FromTimings, FromHeaders
<1> QED BY Invariance, <1>1, PTL

\* The GAIN header tells the gain of the camera unless setting it failed.
THEOREM GainTold == Spec => []GainIsTold
<1>1. IInv => GainIsTold
  BY DEF IInv, ToldInv, SizeInv, GainIsTold, FromShutter, FromSize,
         FromTimings, FromHeaders
<1> QED BY Invariance, <1>1, PTL
=============================================================================
