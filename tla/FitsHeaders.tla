---------------------------- MODULE FitsHeaders ----------------------------
(***************************************************************************)
(* From the headers of an image command to the headers of its files:       *)
(* setup_acquisition() collects them in a FitsHeaders list, first those of *)
(* Aristarchos, then its own; save_as_fits() names a file for each image,  *)
(* writes the image and applies the list.                                  *)
(*                                                                         *)
(*   idle -> fetch -> own -> name -> create -> write -> apply -> close ->  *)
(*        (name of the next image | idle)                                  *)
(*                                                                         *)
(* The directory of the files outlives the daemon; the list lives for one  *)
(* command.  cfitsio and the file system are external: fits_create_file()  *)
(* refuses a name that exists, and fits_update_key() trims the blanks of a *)
(* keyword and replaces the value of one that is there.                    *)
(***************************************************************************)
EXTENDS Aristarchos, FiniteSets

CONSTANTS
  Bases,      \* generic names with a date: what the index is counted for
  IndexCap,   \* files of one base the directory holds at most
  ImageCap,   \* images of a command at most
  Capacity    \* headers a new FitsHeaders has room for

ASSUME FitsAssumption == /\ IndexCap \in Nat \ {0}
                         /\ ImageCap \in Nat \ {0}
                         /\ Capacity \in Nat

VARIABLES
  hpc,     \* where the command is; "killed" when the daemon has died of it
  mvec,    \* FitsHeaders::mvec
  images,  \* images still to be saved
  dir,     \* names in save_dir_, each a base and an index
  name,    \* name of the current file
  file     \* keywords of the current file, and whose value each has

fileVars == <<dir, name, file>>
headerVars == <<hpc, mvec, images, fileVars>>
vars == <<aristarchosVars, headerVars>>

Types == {"char", "float", "int", "long"}

\* setup_acquisition() updates these, in this order; CCDTEMP only if the
\* temperature is stable.
OwnHeaders ==
  <<"HSSPEED", "VSSPEED", "GAIN", "OBSERVER", "EXPOSED", "EXPTIME", "VBIN",
    "HBIN", "INSTRUME", "OBJECT", "FILTER", "TIMECORR", "CCDTEMP">>

TypeOf(key) ==
  CASE key \in {"OBSERVER", "INSTRUME", "OBJECT", "FILTER"} -> "char"
    [] key \in {"VBIN", "HBIN"} -> "int"
    [] key = "TIMECORR" -> "long"
    [] OTHER -> "float"

\* The keys of Aristarchos are eight characters, blanks included: only those
\* that fill all eight compare equal to a key of setup_acquisition().
FillEight == {"OBSERVER", "INSTRUME", "TIMECORR"}

OwnHeader(key) ==
  [key |-> key, blanks |-> FALSE, type |-> TypeOf(key), from |-> "daemon"]
FccHeader(key) ==
  [key |-> key, blanks |-> key \notin FillEight, type |-> "char",
   from |-> "fcc"]

Keys == ToSet(OwnHeaders) \cup ToSet(FccHeaders)
Headers == [key : Keys, blanks : BOOLEAN, type : Types,
            from : {"daemon", "fcc"}]

Names == Bases \X (1..IndexCap)

TypeOK ==
  /\ AristarchosTypeOK
  /\ hpc \in {"idle", "fetch", "own", "name", "create", "write", "apply",
              "close", "killed"}
  /\ mvec \in Seq(Headers)
  /\ images \in 0..ImageCap
  /\ dir \subseteq Names
  /\ name = <<>> \/ name \in Names
  /\ DOMAIN file \subseteq Keys
  /\ \A key \in DOMAIN file : file[key] \in {"daemon", "fcc"}
  /\ hpc \notin {"fetch"} => apc = "idle"

NoFile == [key \in {} |-> "daemon"]

Init ==
  /\ AristarchosInit
  /\ hpc = "idle"
  /\ mvec = <<>>
  /\ images = 0
  /\ dir = {}
  /\ name = <<>>
  /\ file = NoFile

HeaderGoes(from, to) == hpc = from /\ hpc' = to

-----------------------------------------------------------------------------
(* FitsHeaders.                                                            *)

SameKey(h, g) == h.key = g.key /\ h.blanks = g.blanks

\* FitsHeaders::update(), of any list: a new key is appended, one of the same
\* type replaced where it stands, and one of another type is left as it is.
Update(hdr) ==
  [list \in Seq(Headers) |->
     LET same == {i \in DOMAIN list : SameKey(list[i], hdr)}
         at == CHOOSE i \in same : \A j \in same : i <= j
     IN  IF same = {} THEN Append(list, hdr)
         ELSE IF list[at].type = hdr.type THEN [list EXCEPT ![at] = hdr]
         ELSE list]

\* One update after the other, in the order of hdrs.
UpdateAll(list, hdrs) == FoldLeft(LAMBDA l, hdr : Update(hdr)[l], list, hdrs)

\* FitsHeaders::merge(): when its capacity does not suffice, an empty vector
\* takes the place of the list.  (It stops at a header whose type differs: all
\* that are merged are "char", into a list that is still empty.)
Merge(list, hdrs) ==
  UpdateAll(IF Len(list) + Len(hdrs) > Capacity THEN <<>> ELSE list, hdrs)

Own(stable) ==
  LET n == Len(OwnHeaders)
      keys == IF stable THEN OwnHeaders ELSE SubSeq(OwnHeaders, 1, n - 1)
  IN  [i \in DOMAIN keys |-> OwnHeader(keys[i])]

Fcc == [i \in DOMAIN extracted |-> FccHeader(extracted[i])]

-----------------------------------------------------------------------------
(* setup_acquisition(), as far as it is about headers.                     *)

\* An image command of n images begins, with a new list; tries is 0 when no
\* headers of Aristarchos are asked for.
ImageCommand(n, tries) ==
  /\ HeaderGoes("idle", "fetch")
  /\ images' = n
  /\ mvec' = <<>>
  /\ name' = <<>>
  /\ file' = NoFile
  /\ UNCHANGED dir
  /\ IF tries = 0 THEN NoRequest ELSE RequestHeaders(tries)

\* What was extracted is merged, whatever get_aristarchos_headers() returned.
MergeHeaders ==
  /\ apc = "idle"
  /\ HeaderGoes("fetch", "own")
  /\ mvec' = Merge(mvec, Fcc)
  /\ UNCHANGED <<aristarchosVars, images, fileVars>>

\* Mutated: the headers of Aristarchos arrive too late, "in another thread to
\* save us some time".
OwnUpdatesFirst ==
  /\ HeaderGoes("own", "name")
  /\ \E stable \in BOOLEAN :
       mvec' = Merge(UpdateAll(<<>>, Own(stable)), Fcc)
  /\ UNCHANGED <<aristarchosVars, images, fileVars>>

\* The headers of the daemon; an update that fails is only reported.
OwnUpdates ==
  /\ HeaderGoes("own", "name")
  /\ \E stable \in BOOLEAN : mvec' = UpdateAll(mvec, Own(stable))
  /\ UNCHANGED <<aristarchosVars, images, fileVars>>

\* GetAcquisitionTimings() or GetPreAmpGain() fails: no image is taken.
SetUpFails ==
  /\ HeaderGoes("own", "idle")
  /\ mvec' = <<>>
  /\ images' = 0
  /\ UNCHANGED <<aristarchosVars, fileVars>>

-----------------------------------------------------------------------------
(* make_fits_filename() and save_as_fits().                                *)

\* The command ends; get_image() drops the list.
CommandEnds ==
  /\ hpc' = "idle"
  /\ mvec' = <<>>
  /\ images' = 0
  /\ name' = <<>>
  /\ file' = NoFile

\* Mutated: current_count > img_count.
CountLargerFile(n, img_count) == IF n > img_count THEN n + 1 ELSE img_count

\* One entry of the directory against the counter.
CountFile(n, img_count) == IF n >= img_count THEN n + 1 ELSE img_count

\* The entries come in the order the directory lists them; for a maximum any
\* order will do.
NextIndex(base) ==
  FoldLeft(LAMBDA img_count, n : CountFile(n, img_count), 1,
           SetToSeq({entry[2] : entry \in {e \in dir : e[1] = base}}))

\* The base is the generic name and the date of now: the day may have changed
\* since the image before.
NameFile ==
  /\ HeaderGoes("name", "create")
  /\ \E base \in Bases :
       /\ NextIndex(base) <= IndexCap
       /\ name' = <<base, NextIndex(base)>>
  /\ file' = NoFile
  /\ UNCHANGED <<aristarchosVars, mvec, images, dir>>

\* save_dir_ is no directory, or there is no date.
NameFails ==
  /\ hpc = "name"
  /\ CommandEnds
  /\ UNCHANGED <<aristarchosVars, dir>>

CreateFile ==
  /\ name \notin dir
  /\ HeaderGoes("create", "write")
  /\ dir' = dir \cup {name}
  /\ UNCHANGED <<aristarchosVars, mvec, images, name, file>>

WriteImage ==
  /\ HeaderGoes("write", "apply")
  /\ UNCHANGED <<aristarchosVars, mvec, images, fileVars>>

\* The file is left as it is, not even closed, and the scan ends.
WriteFails ==
  /\ hpc = "write"
  /\ CommandEnds
  /\ UNCHANGED <<aristarchosVars, dir>>

\* FitsImage::apply_headers(): there is no case for a long, and it ends there.
Applied(list) ==
  LET longs == {i \in DOMAIN list : list[i].type = "long"}
      stop == IF longs = {} THEN Len(list) + 1
              ELSE CHOOSE i \in longs : \A j \in longs : i <= j
  IN  SubSeq(list, 1, stop - 1)

\* Keywords are trimmed, and the last value of one is the one that stays.
ValueIn(list, key) ==
  LET i == CHOOSE i \in DOMAIN list :
             /\ list[i].key = key
             /\ \A j \in DOMAIN list : list[j].key = key => j <= i
  IN  list[i].from

ApplyHeaders ==
  /\ HeaderGoes("apply", "close")
  /\ LET applied == Applied(mvec)
     IN  file' = [key \in {applied[i].key : i \in DOMAIN applied} |->
                    ValueIn(applied, key)]
  /\ UNCHANGED <<aristarchosVars, mvec, images, dir, name>>

\* The next image of the series gets the same list, or the scan is over.
CloseFile ==
  /\ hpc = "close"
  /\ IF images > 1
     THEN /\ hpc' = "name"
          /\ images' = images - 1
          /\ UNCHANGED <<mvec, name, file>>
     ELSE CommandEnds
  /\ UNCHANGED <<aristarchosVars, dir>>

-----------------------------------------------------------------------------
(* The end of the daemon, and what goes on beside it.                      *)

\* The process ends: the directory is what is left.
Dies ==
  /\ hpc' = "killed"
  /\ mvec' = <<>>
  /\ images' = 0
  /\ name' = <<>>
  /\ file' = NoFile
  /\ Clears
  /\ NoLink
  /\ extracted' = <<>>
  /\ UNCHANGED dir

\* SIGPIPE, in the middle of a conversation.
DiesOfSigpipe == Sigpipe /\ Dies

\* fits_create_file() fails: the constructor reports it, and write() uses the
\* null pointer it leaves.
CreateCrashes == hpc = "create" /\ Dies

\* Any other end, at any moment of a command.
IsKilled == hpc \notin {"idle", "killed"} /\ Dies

Restart ==
  /\ HeaderGoes("killed", "idle")
  /\ UNCHANGED <<aristarchosVars, mvec, images, fileVars>>

\* Files are moved out of the directory, in any order (external).
UserRemoves ==
  /\ \E entry \in dir : dir' = dir \ {entry}
  /\ UNCHANGED <<aristarchosVars, hpc, mvec, images, name, file>>

-----------------------------------------------------------------------------

CommandStep ==
  \/ MergeHeaders
  \/ OwnUpdates
  \/ SetUpFails
  \/ NameFile
  \/ NameFails
  \/ CreateFile
  \/ CreateCrashes
  \/ WriteImage
  \/ WriteFails
  \/ ApplyHeaders
  \/ CloseFile

FetchStep ==
  \/ AristarchosStep /\ UNCHANGED headerVars
  \/ DiesOfSigpipe

Next ==
  \/ \E n \in 1..ImageCap, tries \in 0..TriesCap : ImageCommand(n, tries)
  \/ FetchStep
  \/ FccStep /\ UNCHANGED headerVars
  \/ CommandStep
  \/ IsKilled
  \/ Restart
  \/ UserRemoves

\* The main thread never stops between two statements, and no call it makes
\* here blocks without a limit.  Nothing is assumed of the FCC.
Fairness == WF_vars(FetchStep) /\ WF_vars(CommandStep)

Spec == Init /\ [][Next]_vars /\ Fairness

-----------------------------------------------------------------------------
(* Properties.                                                             *)

\* The headers that apply_headers() reaches.
Reached == {OwnHeaders[i] : i \in 1..(Len(OwnHeaders) - 2)}

\* A file that is closed tells what this command was taken with: every header
\* of the daemon up to TIMECORR is in it with the daemon's value, though
\* Aristarchos sends some of the same keywords, and every line that was
\* extracted of Aristarchos is there too.
FileTellsCommand ==
  hpc = "close" => /\ \A key \in Reached :
                        key \in DOMAIN file /\ file[key] = "daemon"
                   /\ ToSet(extracted) \subseteq DOMAIN file

\* The name of a new image has an index above that of every file of its base
\* in the directory, after restarts, failed writes, changes of the day and
\* removals: no file is ever in the way, and the images sort by time.
NamesCountUp ==
  hpc = "create" => \A entry \in dir : entry[1] = name[1] => entry[2] < name[2]

\* A command with --ar-tries n opens at most n connections: the two loops that
\* count to n do not multiply.
ConnectionsBounded == connections <= num_tries

\* Every image command ends, whatever the FCC does or leaves undone.
CommandReturns == hpc \notin {"idle", "killed"} ~> hpc \in {"idle", "killed"}

\* The command keeps what ImageFiles promises to the reader of its files: in
\* the promise, the index is looked for and taken in one step.
Promise == INSTANCE ImageFiles WITH
  Lines <- ToSet(FccHeaders),
  OwnKeys <- Reached,
  phase <- CASE hpc \in {"idle", "killed"} -> "idle"
             [] hpc \in {"fetch", "own"} -> "collecting"
             [] hpc \in {"name", "create"} -> "ready"
             [] hpc \in {"write", "apply"} -> "open"
             [] hpc = "close" -> "told",
  left <- images,
  lines <- IF hpc \in {"idle", "killed"} THEN {} ELSE ToSet(extracted),
  file <- IF hpc = "close" THEN file ELSE NoFile

ImplementsImageFiles == Promise!Spec

\* "apply headers to FITS file" (save_as_fits.cpp:51): the headers collected
\* for the file, CCDTEMP among them, are in it when it is closed.  They are
\* not: apply_headers() leaves at the first header of type long, TIMECORR.
HeadersReachFile ==
  hpc = "close" => \A i \in DOMAIN mvec : mvec[i].key \in DOMAIN file
=============================================================================
