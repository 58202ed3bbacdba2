--------------------------- MODULE RtaScanHistory ---------------------------
(***************************************************************************)
(* RtaScan with a history variable: where the main thread was when the     *)
(* abort listener called CancelWait.  No action reads it, so the series    *)
(* behaves as it does in RtaScan; a property can tell the abort that came  *)
(* between two waits from one that came before the first.                  *)
(***************************************************************************)
EXTENDS RtaScan

VARIABLE cancelledAt   \* mpc at the CancelWait of this command, or "none"

historyVars == <<vars, cancelledAt>>

InitHistory == Init /\ cancelledAt = "none"

\* ListenerCancelsWait is the step from "cancel" to "close"; no listener is left
\* when the next command comes.
NextHistory ==
  /\ Next
  /\ cancelledAt' = IF lpc = "cancel" /\ lpc' = "close" THEN mpc
                    ELSE IF mpc = "idle" THEN "none" ELSE cancelledAt

SpecHistory == InitHistory /\ [][NextHistory]_historyVars

\* A message on the abort port is "interpreted as an abort signal"
\* (abort_listener.cpp:25-29): once the listener has dealt with one while the
\* main thread had an image of the series to fetch or to save, the series does
\* not wait for another exposure.
NoWaitAfterAbort ==
  [][~(mpc = "wait" /\ mpc' = "asleep" /\ cancelledAt \in {"poll", "get", "save"})
    ]_historyVars
=============================================================================
