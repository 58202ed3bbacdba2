----------------------------- MODULE ImageFiles -----------------------------
(***************************************************************************)
(* What an image command promises to whoever reads its files afterwards.   *)
(* The telescope is asked before the first file, and never again; each     *)
(* file gets, at the moment it appears, an index above that of every file  *)
(* of its base; it is told what it was taken with before the next one is   *)
(* begun; and a command has no more files than it asked for.  It may end at  *)
(* any moment, by itself or because the daemon dies, and then leaves what  *)
(* is in the directory as it is.                                           *)
(*                                                                         *)
(* FitsHeaders is shown to implement it.                                   *)
(***************************************************************************)
EXTENDS Naturals

CONSTANTS
  Bases,    \* what an index is counted for
  IndexCap, \* files of one base the directory holds at most
  ImageCap, \* images of a command at most
  Keys,     \* the keywords of a file
  Lines,    \* those the telescope may send
  OwnKeys   \* those a file must have with the daemon's value

VARIABLES
  phase,  \* "idle", "collecting", "ready", "open" (a file is there), "told"
  left,   \* files the command has still to finish
  lines,  \* what the telescope has sent for this command
  dir,    \* the files there are
  file    \* keywords of the file that was told, and whose value each has

vars == <<phase, left, lines, dir, file>>

Untold == [key \in {} |-> "daemon"]

Init ==
  /\ phase = "idle"
  /\ left = 0
  /\ lines = {}
  /\ dir = {}
  /\ file = Untold

Request(n) ==
  /\ phase = "idle"
  /\ phase' = "collecting"
  /\ left' = n
  /\ UNCHANGED <<lines, dir, file>>

\* What the telescope sends is taken from one answer.
Learn(sent) ==
  /\ phase = "collecting"
  /\ lines = {}
  /\ lines' = sent
  /\ UNCHANGED <<phase, left, dir, file>>

BeginFiles ==
  /\ phase = "collecting"
  /\ phase' = "ready"
  /\ UNCHANGED <<left, lines, dir, file>>

\* However long ago the directory was read: when the file appears, its index
\* is the highest of the base.
Create(base, index) ==
  /\ phase = "ready"
  /\ \A entry \in dir : entry[1] = base => entry[2] < index
  /\ phase' = "open"
  /\ dir' = dir \cup {<<base, index>>}
  /\ UNCHANGED <<left, lines, file>>

Tells(f) ==
  /\ DOMAIN f \subseteq Keys
  /\ lines \subseteq DOMAIN f
  /\ \A key \in OwnKeys : key \in DOMAIN f /\ f[key] = "daemon"

Tell ==
  /\ phase = "open"
  /\ phase' = "told"
  /\ Tells(file')
  /\ UNCHANGED <<left, lines, dir>>

Finish ==
  /\ phase = "told"
  /\ left > 1
  /\ phase' = "ready"
  /\ left' = left - 1
  /\ file' = Untold
  /\ UNCHANGED <<lines, dir>>

\* After the last file, or before it.
End ==
  /\ phase # "idle"
  /\ phase' = "idle"
  /\ left' = 0
  /\ lines' = {}
  /\ file' = Untold
  /\ UNCHANGED dir

\* Somebody moves a file away.
Remove ==
  /\ \E entry \in dir : dir' = dir \ {entry}
  /\ UNCHANGED <<phase, left, lines, file>>

Next ==
  \/ \E n \in 1..ImageCap : Request(n)
  \/ \E sent \in SUBSET Lines : Learn(sent)
  \/ BeginFiles
  \/ \E base \in Bases, index \in 1..IndexCap : Create(base, index)
  \/ Tell
  \/ Finish
  \/ End
  \/ Remove

Spec == Init /\ [][Next]_vars
=============================================================================
