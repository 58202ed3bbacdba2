---------------------------- MODULE ImageCommand ----------------------------
(***************************************************************************)
(* What an image command promises to the client that sent it, whatever the *)
(* acquisition mode: the images of the series are saved one after the      *)
(* other, first to last, none twice and none left out; then the command is *)
(* answered, with "ok" only when all of them are there and with "aborted"  *)
(* only when somebody asked for an abort; nothing is saved after the       *)
(* answer, and the next command starts only after it.                      *)
(*                                                                         *)
(* RtaScan and SingleScan are shown to implement it.                       *)
(***************************************************************************)
EXTENDS Naturals, Sequences

CONSTANT MaxImages

VARIABLES
  phase,   \* "idle", "running" or "answered"
  wanted,  \* images of the command (0 when a rejected --nimages left none)
  files,   \* the image each FITS file of this command holds
  asked,   \* an abort has been asked for during this command
  answer   \* "none", "ok", "aborted" or "failed"

vars == <<phase, wanted, files, asked, answer>>

Init ==
  /\ phase = "idle"
  /\ wanted = 0
  /\ files = <<>>
  /\ asked = FALSE
  /\ answer = "none"

Request(n) ==
  /\ phase = "idle"
  /\ phase' = "running"
  /\ wanted' = n
  /\ files' = <<>>
  /\ asked' = FALSE
  /\ answer' = "none"

AskAbort ==
  /\ ~asked
  /\ asked' = TRUE
  /\ UNCHANGED <<phase, wanted, files, answer>>

SaveNext ==
  /\ phase = "running"
  /\ Len(files) < wanted
  /\ files' = Append(files, Len(files) + 1)
  /\ UNCHANGED <<phase, wanted, asked, answer>>

Answer(a) ==
  /\ phase = "running"
  /\ a = "ok" => Len(files) = wanted
  /\ a = "aborted" => asked
  /\ phase' = "answered"
  /\ answer' = a
  /\ UNCHANGED <<wanted, files, asked>>

Return ==
  /\ phase = "answered"
  /\ phase' = "idle"
  /\ UNCHANGED <<wanted, files, asked, answer>>

Next ==
  \/ \E n \in 0..MaxImages : Request(n)
  \/ AskAbort
  \/ SaveNext
  \/ \E a \in {"ok", "aborted", "failed"} : Answer(a)
  \/ Return

Spec == Init /\ [][Next]_vars
=============================================================================
