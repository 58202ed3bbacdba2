----------------------------- MODULE Detector -----------------------------
(***************************************************************************)
(* The detector behind atmcdLXd.h as the daemon's cooling and shutdown use *)
(* it: whether the SDK is initialised, whether an acquisition runs, the    *)
(* cooler, its set point and the temperature.  External: the SDK refuses   *)
(* to touch the cooler while it is acquiring (DRV_ACQUIRING, which         *)
(* sys_shutdown.cpp:86 expects) or not initialised, and any call may fail  *)
(* for a reason of its own.                                                *)
(*                                                                         *)
(* A temperature is a level 0..Ambient; between SHUTDOWN_TEMPERATURE and   *)
(* Ambient the detector is warm enough to be switched off.                 *)
(***************************************************************************)
EXTENDS Naturals

CONSTANTS
  Ambient,               \* the level the detector drifts to with the cooler off
  SHUTDOWN_TEMPERATURE,  \* andor2k.hpp:34
  Targets                \* what a client may ask for; 0 is INTITIALIZE_TO_TEMP

ASSUME DetectorAssumption ==
  /\ Ambient \in Nat
  /\ SHUTDOWN_TEMPERATURE \in 0..Ambient
  /\ 0 \in Targets
  /\ Targets \subseteq 0..Ambient

VARIABLES
  sdk,        \* Initialize was called, ShutDown was not
  acquiring,  \* an acquisition runs
  cooler,     \* the cooler is on
  target,     \* set point of the cooler
  temp        \* temperature of the detector

detectorVars == <<sdk, acquiring, cooler, target, temp>>

Temps == 0..Ambient

DetectorTypeOK ==
  /\ sdk \in BOOLEAN /\ acquiring \in BOOLEAN /\ cooler \in BOOLEAN
  /\ target \in Temps /\ temp \in Temps

DetectorInit ==
  /\ sdk = FALSE
  /\ acquiring = FALSE
  /\ cooler = FALSE
  /\ target = Ambient
  /\ temp \in Temps

\* The cooler obeys only an initialised SDK that is not acquiring.
CanSwitch == sdk /\ ~acquiring

Initialize ==
  /\ sdk' = TRUE
  /\ UNCHANGED <<acquiring, cooler, target, temp>>

SetTemperature(t) ==
  /\ CanSwitch
  /\ target' = t
  /\ UNCHANGED <<sdk, acquiring, cooler, temp>>

CoolerON ==
  /\ CanSwitch
  /\ cooler' = TRUE
  /\ UNCHANGED <<sdk, acquiring, target, temp>>

CoolerOFF ==
  /\ CanSwitch
  /\ cooler' = FALSE
  /\ UNCHANGED <<sdk, acquiring, target, temp>>

SetAcquiring(a) ==
  /\ acquiring' = a
  /\ UNCHANGED <<sdk, cooler, target, temp>>

ShutDown ==
  /\ sdk' = FALSE
  /\ UNCHANGED <<acquiring, cooler, target, temp>>

\* What GetTemperature may return; the temperature comes with all of them but
\* "error".
TemperatureStatus ==
  {"error"} \union
  (IF ~CanSwitch THEN {}
   ELSE IF cooler /\ temp = target THEN {"stabilized", "not_stabilized"}
   ELSE {"not_reached"})

\* The temperature follows the cooler, or the room.
Drift ==
  LET goal == IF cooler THEN target ELSE Ambient
  IN  /\ temp # goal
      /\ temp' = IF temp < goal THEN temp + 1 ELSE temp - 1
      /\ UNCHANGED <<sdk, acquiring, cooler, target>>
=============================================================================
