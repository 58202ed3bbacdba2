---------------------------- MODULE AndorCamera ----------------------------
(***************************************************************************)
(* The ANDOR camera behind atmcdLXd.h, as src/ uses it.  The SDK itself is *)
(* external: a frame is the number of the exposure it holds, counted from  *)
(* 1 at StartAcquisition (get_rta_scan.cpp asks GetImages for exactly that *)
(* number), and every call may also fail.                                  *)
(*                                                                         *)
(* WaitForAcquisition puts its caller to sleep until an exposure ends.     *)
(* CancelWait wakes a caller that is asleep; with no one asleep it has no  *)
(* effect, which is what abort_listener.cpp:28-29 relies on.               *)
(***************************************************************************)
EXTENDS Naturals

CONSTANTS
  FrameCap,   \* exposures are counted up to here; at FrameCap every image a
              \* series asks for has left the circular buffer, so counting
              \* further would change nothing
  BufSize     \* images the circular buffer of the camera holds

ASSUME CameraAssumption == /\ FrameCap \in Nat \ {0}
                           /\ BufSize \in Nat \ {0}

VARIABLES
  acquiring,  \* StartAcquisition succeeded and nothing has stopped it since
  exposed,    \* exposures that ended since StartAcquisition
  available,  \* those whose data has reached the circular buffer
  event,      \* an exposure ended and no WaitForAcquisition consumed that yet
  waiter      \* the thread in WaitForAcquisition: "none", "asleep", "cancelled"

cameraVars == <<acquiring, exposed, available, event, waiter>>

CameraTypeOK ==
  /\ acquiring \in BOOLEAN
  /\ exposed \in 0..FrameCap
  /\ available \in 0..exposed
  /\ event \in BOOLEAN
  /\ waiter \in {"none", "asleep", "cancelled"}

CameraInit ==
  /\ acquiring = FALSE
  /\ exposed = 0
  /\ available = 0
  /\ event = FALSE
  /\ waiter = "none"

-----------------------------------------------------------------------------
(* The calls of the program.                                               *)

\* StartAcquisition() == DRV_SUCCESS: a new series, the counters start over.
StartAcquisition ==
  /\ acquiring' = TRUE
  /\ exposed' = 0
  /\ available' = 0
  /\ event' = FALSE
  /\ UNCHANGED waiter

\* StartAcquisition() fails: there is nothing to wait for.  That it leaves no event
\* of an earlier series either is an assumption about the SDK.
StartRefused ==
  /\ event' = FALSE
  /\ UNCHANGED <<acquiring, exposed, available, waiter>>

\* AbortAcquisition(): on an idle camera it only answers DRV_IDLE.
AbortAcquisition ==
  /\ acquiring' = FALSE
  /\ UNCHANGED <<exposed, available, event, waiter>>

EnterWait ==
  /\ waiter' = "asleep"
  /\ UNCHANGED <<acquiring, exposed, available, event>>

\* WaitForAcquisition() == DRV_SUCCESS.
WaitSucceeds ==
  /\ waiter = "asleep"
  /\ event
  /\ event' = FALSE
  /\ waiter' = "none"
  /\ UNCHANGED <<acquiring, exposed, available>>

\* WaitForAcquisition() returns any other code: cancelled, or a driver error.
WaitReturnsError ==
  /\ waiter # "none"
  /\ waiter' = "none"

\* If the exposure has ended already the sleeper may be on its way out, and
\* then it is not cancelled.
CancelWait ==
  /\ \/ waiter' = IF waiter = "asleep" THEN "cancelled" ELSE waiter
     \/ event /\ waiter' = waiter
  /\ UNCHANGED <<acquiring, exposed, available, event>>

\* GetNumberNewImages() == DRV_NO_NEW_DATA once the first n were retrieved.
NoNewData(n) == available <= n

\* Image k can be copied: it has arrived and nothing newer took its slot.
InBuffer(k) == k \in 1..available /\ available < k + BufSize

-----------------------------------------------------------------------------
(* The camera's own steps.                                                 *)

\* Run till abort: exposures follow each other until AbortAcquisition.
Expose ==
  /\ acquiring
  /\ exposed' = IF exposed < FrameCap THEN exposed + 1 ELSE exposed
  /\ event' = TRUE
  /\ UNCHANGED <<acquiring, available, waiter>>

\* Single scan: one exposure, after which the acquisition is over.
ExposeOnce ==
  /\ acquiring
  /\ exposed' = 1
  /\ event' = TRUE
  /\ acquiring' = FALSE
  /\ UNCHANGED <<available, waiter>>

\* Kinetic series of n images: the exposures end by themselves.
ExposeSeries(n) ==
  /\ acquiring
  /\ exposed < n
  /\ exposed' = exposed + 1
  /\ event' = TRUE
  /\ UNCHANGED <<acquiring, available, waiter>>

\* The data of an exposure reaches the circular buffer some time after the
\* exposure ended (get_rta_scan.cpp:168-197 polls for it).
Transfer ==
  /\ acquiring
  /\ available < exposed
  /\ available' = available + 1
  /\ UNCHANGED <<acquiring, exposed, event, waiter>>
=============================================================================
