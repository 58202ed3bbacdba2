------------------------- MODULE FitsHeadersProofs -------------------------
(***************************************************************************)
(* What the checks of FitsHeaders find in a small instance, for every      *)
(* number of tries, of images and of files, every list of lines of         *)
(* Aristarchos and every capacity of a list: a file that is closed tells   *)
(* what its command was taken with, its name counts up from every file of  *)
(* its base, and the tries of get_aristarchos_headers() do not multiply.   *)
(* Together they are what ImageFiles promises, which FitsHeaders is shown  *)
(* to implement; and a command is shown to have a bounded number of steps. *)
(*                                                                         *)
(* What keeps the tries apart is a flag: no way through a conversation     *)
(* leaves the error of the inner loop set, so that it is run through once  *)
(* for each try of the outer one.  What a file tells is decided before it  *)
(* has a name: from the last update on, the list is Complete.              *)
(***************************************************************************)
EXTENDS FitsHeadersLemmas

\* Each try of the outer loop opens one connection, and none is open to be
\* tried before the first.
TriesInv ==
  /\ num_tries \in Nat /\ ctry \in Nat /\ connections \in Nat
  /\ apc = "idle" => connections <= num_tries
  /\ apc # "idle" => ctry <= num_tries
  /\ apc = "connect" => connections + 1 = ctry /\ count = 0
  /\ apc \notin {"idle", "connect"} => connections = ctry /\ error = FALSE

\* The daemon starts without a conversation.
LEMMA InitTriesInv == Init => TriesInv
  BY DEF Init, AristarchosInit, TriesInv

\* A step of the conversation keeps the connections in step with the tries.
LEMMA ConversationStep == TriesInv /\ AristarchosStep => TriesInv'
<1> SUFFICES ASSUME TriesInv, AristarchosStep PROVE TriesInv'
  OBVIOUS
<1> USE DEF TriesInv, tryVars, Goes
<1>1. CASE Connects \/ ConnectFails
  BY <1>1 DEF Connects, ConnectFails, OpensSocket
<1>2. CASE SendsCommand \/ SendFails
  BY <1>2 DEF SendsCommand, SendFails, Breaks
<1>3. CASE Receives \/ TimesOut \/ FindsClosed
  BY <1>3 DEF Receives, TimesOut, FindsClosed, Breaks, GoesOn
<1>4. CASE TriesAgain \/ EndsTrying
  BY <1>4 DEF TriesAgain, EndsTrying
<1>5. CASE DecodeSucceeds \/ DecodeFails
  BY <1>5 DEF DecodeSucceeds, DecodeFails, Returns, Clears
<1> QED
  BY <1>1, <1>2, <1>3, <1>4, <1>5 DEF AristarchosStep

\* And so does every step beside it.
LEMMA TriesPreserved == TriesInv /\ [Next]_vars => TriesInv'
<1> SUFFICES ASSUME TriesInv, [Next]_vars PROVE TriesInv'
  OBVIOUS
<1>1. ASSUME UNCHANGED aristarchosVars PROVE TriesInv'
  BY <1>1 DEF TriesInv, aristarchosVars
<1>2. ASSUME NEW n \in 1..ImageCap, NEW tries \in 0..TriesCap,
             ImageCommand(n, tries)
      PROVE  TriesInv'
  BY <1>2, AristarchosAssumption
     DEF ImageCommand, NoRequest, RequestHeaders, TriesInv, tryVars, Goes
<1>3. CASE FetchStep
  <2>1. ASSUME Dies PROVE TriesInv'
    BY <2>1 DEF Dies, Clears, TriesInv
  <2> QED
    BY <1>3, <2>1, ConversationStep DEF FetchStep, DiesOfSigpipe
<1>4. CASE FccStep
  BY <1>4 DEF FccStep, FccAnswers, FccHangsUp, FccKeepsRest, TriesInv, tryVars
<1>5. CASE CommandStep
  <2>1. CASE CreateCrashes
    BY <2>1 DEF CreateCrashes, Dies, Clears, TriesInv
  <2> QED
    BY <1>1, <1>5, <2>1
       DEF CommandStep, MergeHeaders, OwnUpdates, SetUpFails, NameFile,
           NameFails, CreateFile, WriteImage, WriteFails, ApplyHeaders,
           CloseFile
<1>6. CASE IsKilled
  BY <1>6 DEF IsKilled, Dies, Clears, TriesInv
<1>7. CASE Restart \/ UserRemoves \/ UNCHANGED vars
  BY <1>1, <1>7 DEF Restart, UserRemoves, vars
<1> QED
  BY <1>2, <1>3, <1>4, <1>5, <1>6, <1>7 DEF Next

\* A command with --ar-tries n opens at most n connections
\* (aristarchos.cpp:71, 221), whatever the FCC does.
THEOREM TriesDoNotMultiply == Spec => []ConnectionsBounded
<1>1. TriesInv => ConnectionsBounded
  BY DEF TriesInv, ConnectionsBounded
<1> QED
  BY <1>1, InitTriesInv, TriesPreserved, PTL DEF Spec

-----------------------------------------------------------------------------
(* The types.                                                              *)

\* Whichever lines are kept, they are lines of the FCC, and no more than it has.
LEMMA ExtractsLines ==
  ASSUME Extracts
  PROVE  /\ extracted' \in Seq(ToSet(FccHeaders))
         /\ Len(extracted') <= Len(FccHeaders)
<1>1. PICK n \in 0..Len(FccHeaders) :
        \E at \in [1..n -> DOMAIN FccHeaders] :
          /\ \A i, j \in 1..n : i < j => at[i] < at[j]
          /\ extracted' = [i \in 1..n |-> FccHeaders[at[i]]]
  BY Zenon DEF Extracts
<1>2. PICK at \in [1..n -> DOMAIN FccHeaders] :
        extracted' = [i \in 1..n |-> FccHeaders[at[i]]]
  BY <1>1
<1>3. n \in Nat /\ Len(FccHeaders) \in Nat /\ n <= Len(FccHeaders)
  BY AristarchosAssumption
<1>4. \A i \in 1..n : FccHeaders[at[i]] \in ToSet(FccHeaders)
  BY <1>2 DEF ToSet
<1>5. extracted' \in Seq(ToSet(FccHeaders))
  BY <1>2, <1>3, <1>4, IsASeq
<1>6. Len(extracted') = n
  BY <1>2, <1>3
<1> QED
  BY <1>3, <1>5, <1>6

\* The invariant that the extracted lines are among those sent.
LEMMA ExtractedPreserved == ExtractedInv /\ [Next]_vars => ExtractedInv'
<1> SUFFICES ASSUME ExtractedInv, [Next]_vars PROVE ExtractedInv'
  OBVIOUS
<1>1. ASSUME UNCHANGED extracted PROVE ExtractedInv'
  BY <1>1 DEF ExtractedInv
<1>2. ASSUME extracted' = <<>> PROVE ExtractedInv'
  <2>1. Len(FccHeaders) \in Nat /\ 0 <= Len(FccHeaders)
    BY AristarchosAssumption
  <2> QED
    BY <1>2, <2>1 DEF ExtractedInv
<1>3. ASSUME Extracts PROVE ExtractedInv'
  BY <1>3, ExtractsLines DEF ExtractedInv
<1>4. ASSUME NEW n \in 1..ImageCap, NEW tries \in 0..TriesCap,
             ImageCommand(n, tries)
      PROVE  ExtractedInv'
  BY <1>2, <1>4 DEF ImageCommand, NoRequest, RequestHeaders
<1>5. CASE AristarchosStep
  BY <1>1, <1>3, <1>5
     DEF AristarchosStep, Connects, ConnectFails, OpensSocket, SendsCommand,
         SendFails, Receives, TimesOut, FindsClosed, Breaks, GoesOn,
         TriesAgain, EndsTrying, DecodeSucceeds, DecodeFails
<1>6. ASSUME Dies PROVE ExtractedInv'
  BY <1>2, <1>6 DEF Dies
<1>7. CASE FccStep
  BY <1>1, <1>7 DEF FccStep, FccAnswers, FccHangsUp, FccKeepsRest
<1>8. CASE CommandStep
  <2>1. CASE CreateCrashes
    BY <1>6, <2>1 DEF CreateCrashes
  <2> QED
    BY <1>1, <1>8, <2>1
       DEF CommandStep, MergeHeaders, OwnUpdates, SetUpFails, NameFile,
           NameFails, CreateFile, WriteImage, WriteFails, ApplyHeaders,
           CloseFile, aristarchosVars
<1>9. CASE Restart \/ UserRemoves \/ UNCHANGED vars
  BY <1>1, <1>9 DEF Restart, UserRemoves, vars, aristarchosVars
<1> QED
  BY <1>4, <1>5, <1>6, <1>7, <1>8, <1>9
     DEF Next, FetchStep, DiesOfSigpipe, IsKilled

\* The counters of the tries.
TryTypes ==
  /\ num_tries \in 0..TriesCap
  /\ ctry \in 0..num_tries
  /\ count \in 0..num_tries

Orders == {"RE ON", "RS", "RE OF", "RD", "rest"}

\* What else the conversation keeps.
TalkTypes ==
  /\ apc \in {"idle", "connect", "send", "recv", "again", "decode"}
  /\ error \in BOOLEAN
  /\ step \in 1..4
  /\ link \in Links
  /\ wire \in Seq(Pieces)
  /\ header \in Seq(Pieces)
  /\ fcc \in Seq(Orders)

\* With what is known of the tries and of the lines these are all the types.
LEMMA AllTypes ==
  TalkTypes /\ TryTypes /\ TriesInv /\ ExtractedInv => AristarchosTypeOK
<1> SUFFICES ASSUME TalkTypes, TryTypes, TriesInv, ExtractedInv
             PROVE  AristarchosTypeOK
  OBVIOUS
<1>1. connections \in Nat /\ num_tries \in Nat /\ connections <= num_tries
  BY DEF TriesInv
<1>2. \A n \in Nat : n <= n * n /\ n * n \in Nat
  OBVIOUS
<1>3. num_tries * num_tries \in Nat /\ num_tries <= num_tries * num_tries
  BY <1>1, <1>2
<1>4. \A n \in Nat : num_tries <= n => connections \in 0..n
  BY <1>1
<1>5. connections \in 0..(num_tries * num_tries)
  BY <1>3, <1>4, Zenon
<1> QED
  BY <1>5 DEF TalkTypes, TryTypes, Orders, ExtractedInv, AristarchosTypeOK

LEMMA PartsOfTypes == AristarchosTypeOK => TalkTypes /\ TryTypes
  BY DEF AristarchosTypeOK, TalkTypes, TryTypes, Orders

\* A step of the conversation: the counters, and the rest.
LEMMA ConversationTries == TryTypes /\ TriesInv /\ AristarchosStep => TryTypes'
<1> SUFFICES ASSUME TryTypes, TriesInv, AristarchosStep PROVE TryTypes'
  OBVIOUS
<1>1. TriesCap \in Nat /\ num_tries \in Nat /\ ctry \in Nat /\ count \in Nat
  BY AristarchosAssumption DEF TryTypes
<1>2. ASSUME UNCHANGED <<num_tries, ctry, count>> PROVE TryTypes'
  BY <1>2 DEF TryTypes
<1>3. CASE Connects \/ ConnectFails
  <2>1. /\ apc = "connect" /\ count' = count + 1
        /\ num_tries' = num_tries /\ ctry' = ctry
    BY <1>3 DEF Connects, ConnectFails, OpensSocket, Goes
  <2>2. count = 0 /\ ctry <= num_tries /\ connections + 1 = ctry /\ connections \in Nat
    BY <2>1 DEF TriesInv
  <2>3. count' \in 0..num_tries
    BY <1>1, <2>1, <2>2
  <2> QED
    BY <2>1, <2>3 DEF TryTypes
<1>4. CASE DecodeSucceeds \/ DecodeFails
  <2>1. ASSUME Returns PROVE TryTypes'
    BY <1>1, <2>1 DEF Returns, Clears, TryTypes
  <2>2. ASSUME ctry < num_tries, ctry' = ctry + 1, count' = 0,
               num_tries' = num_tries
        PROVE  TryTypes'
    BY <1>1, <2>2 DEF TryTypes
  <2> QED
    BY <1>4, <2>1, <2>2 DEF DecodeSucceeds, DecodeFails
<1> QED
  BY <1>2, <1>3, <1>4
     DEF AristarchosStep, SendsCommand, SendFails, Receives, TimesOut,
         FindsClosed, Breaks, GoesOn, TriesAgain, EndsTrying, tryVars

LEMMA NoneIsASeq ==
  <<>> \in Seq(Pieces) /\ <<>> \in Seq(Orders) /\ 1 \in 1..4 /\ "none" \in Links
  BY EmptySeq DEF Links

LEMMA ConversationTalk == TalkTypes /\ AristarchosStep => TalkTypes'
<1> SUFFICES ASSUME TalkTypes, AristarchosStep PROVE TalkTypes'
  OBVIOUS
<1>1. CASE Connects \/ ConnectFails
  <2>1. /\ step' \in 1..4 /\ link' \in Links /\ error' \in BOOLEAN
        /\ apc' \in {"idle", "connect", "send", "recv", "again", "decode"}
    BY <1>1, NoneIsASeq
       DEF Connects, ConnectFails, OpensSocket, Goes, linkVars, Links, TalkTypes
  <2>2. wire' = wire /\ fcc' = fcc /\ header' = header
    BY <1>1 DEF Connects, ConnectFails, OpensSocket, linkVars
  <2> QED
    BY <2>1, <2>2 DEF TalkTypes
<1>2. CASE SendsCommand
  <2>1. step \in 1..4
    BY DEF TalkTypes
  <2>2. Commands[step] \in Orders
    <3>1. \A a, b, c, d, e : \A i \in 1..4 : <<a, b, c, d>>[i] \in {a, b, c, d, e}
      OBVIOUS
    <3> QED
      BY <2>1, <3>1, Zenon DEF Commands, Orders
  <2>3. Append(fcc, Commands[step]) \in Seq(Orders)
    BY <2>2, AppendProperties DEF TalkTypes
  <2>4. step' \in 1..4
    BY <1>2, <2>1 DEF SendsCommand, NoReply
  <2>5. fcc' \in Seq(Orders)
    BY <1>2, <2>3 DEF SendsCommand, TalkTypes
  <2>6. link' \in Links
    BY <1>2 DEF SendsCommand, Links
  <2>7. header' \in Seq(Pieces)
    BY <1>2, NoneIsASeq DEF SendsCommand
  <2>8. /\ apc' \in {"idle", "connect", "send", "recv", "again", "decode"}
        /\ wire' = wire /\ error' = error
    BY <1>2 DEF SendsCommand
  <2> QED
    BY <2>4, <2>5, <2>6, <2>7, <2>8 DEF TalkTypes
<1>3. ASSUME Breaks, header' \in Seq(Pieces) PROVE TalkTypes'
  BY <1>3, NoneIsASeq DEF Breaks, NoLink, Links, TalkTypes
<1>4. CASE SendFails
  <2>1. header' \in Seq(Pieces)
    BY <1>4, NoneIsASeq DEF SendFails
  <2> QED
    BY <1>3, <1>4, <2>1 DEF SendFails
<1>5. ASSUME GoesOn, header' \in Seq(Pieces) PROVE TalkTypes'
  <2>1. step \in 1..4
    BY DEF TalkTypes
  <2>2. step' \in 1..4
    BY <1>5, <2>1 DEF GoesOn
  <2>3. link' \in Links /\ wire' \in Seq(Pieces) /\ fcc' \in Seq(Orders)
    BY <1>5, NoneIsASeq DEF GoesOn, NoLink, Links, TalkTypes
  <2>4. /\ apc' \in {"idle", "connect", "send", "recv", "again", "decode"}
        /\ error' = error
    BY <1>5 DEF GoesOn
  <2> QED
    BY <1>5, <2>2, <2>3, <2>4 DEF TalkTypes
<1>6. CASE Receives \/ TimesOut \/ FindsClosed
  <2>1. header' \in Seq(Pieces)
    BY <1>6 DEF Receives, TimesOut, FindsClosed, TalkTypes
  <2> QED
    BY <1>3, <1>5, <1>6, <2>1 DEF Receives, TimesOut, FindsClosed
<1>7. CASE TriesAgain \/ EndsTrying
  BY <1>7 DEF TriesAgain, EndsTrying, Goes, linkVars, TalkTypes
<1>8. CASE DecodeSucceeds \/ DecodeFails
  <2>1. ASSUME Returns PROVE TalkTypes'
    <3>1. /\ step' \in 1..4 /\ header' \in Seq(Pieces) /\ error' \in BOOLEAN
          /\ apc' = "idle" /\ UNCHANGED <<link, wire, fcc>>
      BY <2>1, NoneIsASeq DEF Returns, Clears, linkVars
    <3> QED
      BY <3>1 DEF TalkTypes
  <2>2. ASSUME apc' = "connect", error' = TRUE, header' = <<>>,
               UNCHANGED <<step, linkVars>>
        PROVE  TalkTypes'
    BY <2>2, NoneIsASeq DEF linkVars, TalkTypes
  <2> QED
    BY <1>8, <2>1, <2>2 DEF DecodeSucceeds, DecodeFails
<1> QED
  BY <1>1, <1>2, <1>4, <1>6, <1>7, <1>8 DEF AristarchosStep

\* And one of the FCC.
LEMMA FccTypes == TalkTypes /\ TryTypes /\ FccStep => TalkTypes' /\ TryTypes'
<1> SUFFICES ASSUME TalkTypes, TryTypes, FccStep PROVE TalkTypes' /\ TryTypes'
  OBVIOUS
<1>1. TryTypes'
  BY DEF FccStep, FccAnswers, FccHangsUp, FccKeepsRest, TryTypes, tryVars
<1>2. CASE FccHangsUp
  BY <1>1, <1>2 DEF FccHangsUp, TalkTypes, Links
<1>3. CASE FccAnswers
  <2>1. /\ "ack" \in Pieces /\ "error" \in Pieces /\ "head" \in Pieces
        /\ DOMAIN Payload \subseteq Pieces
    BY DEF Pieces
  <2>2. wire \in Seq(Pieces) /\ fcc \in Seq(Orders) /\ fcc # <<>>
    BY <1>3 DEF TalkTypes, FccAnswers
  <2>3. \A piece \in Pieces : Append(wire, piece) \in Seq(Pieces)
    BY <2>2, AppendProperties
  <2>4. wire' \in Seq(Pieces)
    BY <1>3, <2>1, <2>2, <2>3 DEF FccAnswers
  <2>5. Tail(fcc) \in Seq(Orders)
    BY <2>2, HeadTailProperties
  <2>6. <<"rest">> \o Tail(fcc) \in Seq(Orders)
    <3>1. <<"rest">> \in Seq(Orders)
      BY DEF Orders
    <3> QED
      BY <2>5, <3>1, ConcatProperties
  <2>7. fcc' \in Seq(Orders)
    BY <1>3, <2>5, <2>6 DEF FccAnswers
  <2> QED
    BY <1>1, <1>3, <2>4, <2>7 DEF FccAnswers, FccKeepsRest, TalkTypes
<1> QED
  BY <1>2, <1>3 DEF FccStep

\* The types of the conversation, whatever step is taken.
LEMMA TalkPreserved ==
  TalkTypes /\ TryTypes /\ TriesInv /\ [Next]_vars => TalkTypes' /\ TryTypes'
<1> SUFFICES ASSUME TalkTypes, TryTypes, TriesInv, [Next]_vars
             PROVE  TalkTypes' /\ TryTypes'
  OBVIOUS
<1>1. ASSUME UNCHANGED aristarchosVars PROVE TalkTypes' /\ TryTypes'
  BY <1>1 DEF TalkTypes, TryTypes, aristarchosVars
<1>2. ASSUME NEW n \in 1..ImageCap, NEW tries \in 0..TriesCap,
             ImageCommand(n, tries)
      PROVE  TalkTypes' /\ TryTypes'
  <2>1. CASE tries = 0
    BY <1>2, <2>1
       DEF ImageCommand, NoRequest, TalkTypes, TryTypes, tryVars, linkVars
  <2>2. CASE tries # 0
    <3>1. RequestHeaders(tries)
      BY <1>2, <2>2 DEF ImageCommand
    <3>2. TalkTypes'
      BY <3>1, NoneIsASeq DEF RequestHeaders, TalkTypes, linkVars, Goes
    <3>3. tries \in 1..TriesCap
      BY <2>2, AristarchosAssumption
    <3>4. TryTypes'
      BY <3>1, <3>3 DEF RequestHeaders, TryTypes
    <3> QED
      BY <3>2, <3>4
  <2> QED
    BY <2>1, <2>2
<1>3. ASSUME Dies PROVE TalkTypes' /\ TryTypes'
  <2>1. TryTypes'
    <3>1. TriesCap \in Nat
      BY AristarchosAssumption
    <3> QED
      BY <1>3, <3>1 DEF Dies, Clears, TryTypes
  <2>2. TalkTypes'
    <3>1. /\ step' \in 1..4 /\ header' \in Seq(Pieces) /\ error' \in BOOLEAN
          /\ apc' = "idle" /\ link' \in Links
          /\ wire' \in Seq(Pieces) /\ fcc' \in Seq(Orders)
      BY <1>3, NoneIsASeq DEF Dies, Clears, NoLink
    <3> QED
      BY <3>1 DEF TalkTypes
  <2> QED
    BY <2>1, <2>2
<1>4. CASE CommandStep
  <2>1. CASE CreateCrashes
    BY <1>3, <2>1 DEF CreateCrashes
  <2> QED
    BY <1>1, <1>4, <2>1
       DEF CommandStep, MergeHeaders, OwnUpdates, SetUpFails, NameFile,
           NameFails, CreateFile, WriteImage, WriteFails, ApplyHeaders,
           CloseFile
<1>5. CASE Restart \/ UserRemoves \/ UNCHANGED vars
  BY <1>1, <1>5 DEF Restart, UserRemoves, vars
<1> QED
  BY <1>2, <1>3, <1>4, <1>5, ConversationTries, ConversationTalk, FccTypes
     DEF Next, FetchStep, DiesOfSigpipe, IsKilled

\* The types of the command and of its files.
FileTypes ==
  /\ hpc \in {"idle", "fetch", "own", "name", "create", "write",
              "apply", "close", "killed"}
  /\ mvec \in Seq(Headers)
  /\ images \in 0..ImageCap
  /\ dir \subseteq Names
  /\ name = <<>> \/ name \in Names
  /\ DOMAIN file \subseteq Keys
  /\ \A key \in DOMAIN file : file[key] \in {"daemon", "fcc"}
  /\ hpc \notin {"fetch"} => apc = "idle"

\* What the list is when: empty until the lines of Aristarchos are merged, and
\* complete before the first file has a name, as every file that is created has.
ListInv ==
  /\ hpc = "fetch" => mvec = <<>>
  /\ hpc = "own" => AfterOwn(mvec, 0)
  /\ hpc \in {"name", "create", "write", "apply", "close"} => Complete(mvec)
  /\ hpc = "create" => name \in Names

LEMMA NothingIsTyped ==
  /\ <<>> \in Seq(Headers) /\ 0 \in 0..ImageCap
  /\ DOMAIN NoFile = {}
  BY EmptySeq, FitsAssumption DEF NoFile

\* The directory and the name, whatever step is taken; and the types of the
\* rest with them.
LEMMA FilesPreserved ==
  ASSUME FileTypes, ExtractedInv, ListInv, [Next]_vars
  PROVE  FileTypes' /\ ListInv'
<1>1. ASSUME UNCHANGED <<headerVars, extracted>>, apc' = "idle" \/ hpc = "fetch"
      PROVE  FileTypes' /\ ListInv'
  <2>1. FileTypes'
    BY <1>1 DEF FileTypes, headerVars, fileVars
  <2>2. ListInv'
    BY <1>1 DEF ListInv, headerVars, fileVars, AfterOwn, Complete
  <2> QED
    BY <2>1, <2>2
<1>2. ASSUME NEW n \in 1..ImageCap, NEW tries \in 0..TriesCap,
             ImageCommand(n, tries)
      PROVE  FileTypes' /\ ListInv'
  <2>1. /\ hpc' = "fetch" /\ images' = n /\ mvec' = <<>> /\ name' = <<>>
        /\ file' = NoFile /\ dir' = dir
    BY <1>2 DEF ImageCommand, HeaderGoes
  <2>2. n \in 0..ImageCap
    BY FitsAssumption
  <2> QED
    BY <2>1, <2>2, NothingIsTyped DEF FileTypes, ListInv
<1>3. ASSUME hpc' \in {"idle", "killed"}, mvec' = <<>>, images' = 0,
             name' = <<>>, file' = NoFile, dir' = dir, apc' = "idle"
      PROVE  FileTypes' /\ ListInv'
  BY <1>3, NothingIsTyped DEF FileTypes, ListInv
<1>4. ASSUME Dies PROVE FileTypes' /\ ListInv'
  BY <1>3, <1>4 DEF Dies, Clears
<1>5. CASE AristarchosStep /\ UNCHANGED headerVars
  <2>1. apc # "idle"
    BY <1>5
       DEF AristarchosStep, Connects, ConnectFails, SendsCommand, SendFails,
           Receives, TimesOut, FindsClosed, TriesAgain, EndsTrying,
           DecodeSucceeds, DecodeFails, Goes
  <2>2. hpc = "fetch" /\ hpc' = "fetch"
    BY <1>5, <2>1 DEF FileTypes, headerVars
  <2> QED
    BY <1>5, <2>2 DEF FileTypes, ListInv, headerVars, fileVars
<1>6. CASE FccStep /\ UNCHANGED headerVars
  <2>1. apc' = apc /\ extracted' = extracted
    BY <1>6 DEF FccStep, FccAnswers, FccHangsUp, FccKeepsRest
  <2> QED
    BY <1>1, <1>6, <2>1 DEF FileTypes
<1>7. CASE MergeHeaders
  <2>1. /\ hpc = "fetch" /\ hpc' = "own" /\ apc = "idle"
        /\ mvec' = Merge(mvec, Fcc)
        /\ UNCHANGED <<apc, extracted, images, dir, name, file>>
    BY <1>7 DEF MergeHeaders, HeaderGoes, aristarchosVars, fileVars
  <2>2. mvec' = Merge(<<>>, Fcc)
    BY <2>1 DEF ListInv
  <2>3. mvec' \in Seq(Headers) /\ AfterOwn(mvec', 0)
    BY <2>2, MergedList
  <2>4. FileTypes'
    BY <2>1, <2>3 DEF FileTypes
  <2>5. ListInv'
    BY <2>1, <2>3 DEF ListInv, AfterOwn
  <2> QED
    BY <2>4, <2>5
<1>8. CASE OwnUpdates
  <2>1. /\ hpc = "own" /\ hpc' = "name"
        /\ UNCHANGED <<apc, extracted, images, dir, name, file>>
    BY <1>8 DEF OwnUpdates, HeaderGoes, aristarchosVars, fileVars
  <2>2. PICK stable \in BOOLEAN : mvec' = UpdateAll(mvec, Own(stable))
    BY <1>8 DEF OwnUpdates
  <2>3. mvec \in Seq(Headers) /\ AfterOwn(mvec, 0)
    BY <2>1 DEF FileTypes, ListInv
  <2>4. mvec' \in Seq(Headers) /\ Complete(mvec')
    BY <2>2, <2>3, OwnComplete
  <2>5. FileTypes'
    BY <2>1, <2>4 DEF FileTypes
  <2>6. ListInv'
    BY <2>1, <2>4 DEF ListInv, Complete
  <2> QED
    BY <2>5, <2>6
<1>9. CASE SetUpFails
  <2>1. FileTypes'
    BY <1>9, NothingIsTyped
       DEF SetUpFails, HeaderGoes, aristarchosVars, fileVars, FileTypes
  <2>2. ListInv'
    BY <1>9 DEF SetUpFails, HeaderGoes, ListInv
  <2> QED
    BY <2>1, <2>2
<1>10. CASE NameFile
  <2>1. /\ hpc = "name" /\ hpc' = "create" /\ file' = NoFile
        /\ UNCHANGED <<apc, extracted, mvec, images, dir>>
    BY <1>10 DEF NameFile, HeaderGoes, aristarchosVars
  <2>2. PICK base \in Bases : /\ NextIndex(base) <= IndexCap
                              /\ name' = <<base, NextIndex(base)>>
    BY <1>10 DEF NameFile
  <2>3. NextIndex(base) \in Nat \ {0}
    BY NextIndexIsAbove DEF FileTypes
  <2>4. NextIndex(base) \in 1..IndexCap
    BY <2>2, <2>3, FitsAssumption
  <2>5. name' \in Names
    BY <2>2, <2>4 DEF Names
  <2>6. FileTypes'
    BY <2>1, <2>5, NothingIsTyped DEF FileTypes
  <2>7. ListInv'
    BY <2>1, <2>5 DEF ListInv, Complete
  <2> QED
    BY <2>6, <2>7
<1>11. CASE NameFails \/ WriteFails
  <2>1. apc' = "idle" /\ dir' = dir
    BY <1>11 DEF NameFails, WriteFails, aristarchosVars, FileTypes
  <2> QED
    BY <1>3, <1>11, <2>1 DEF NameFails, WriteFails, CommandEnds
<1>12. CASE CreateFile
  <2>1. /\ hpc = "create" /\ hpc' = "write" /\ dir' = dir \cup {name}
        /\ name \in Names
        /\ UNCHANGED <<apc, extracted, mvec, images, name, file>>
    BY <1>12 DEF CreateFile, HeaderGoes, aristarchosVars, ListInv
  <2>2. ListInv'
    BY <2>1 DEF ListInv, Complete
  <2>3. FileTypes'
    BY <2>1 DEF FileTypes
  <2> QED
    BY <2>2, <2>3
<1>13. CASE WriteImage
  <2>1. /\ hpc = "write" /\ hpc' = "apply"
        /\ UNCHANGED <<apc, extracted, mvec, images, dir, name, file>>
    BY <1>13 DEF WriteImage, HeaderGoes, aristarchosVars, fileVars
  <2>2. FileTypes'
    BY <2>1 DEF FileTypes
  <2>3. ListInv'
    BY <2>1 DEF ListInv, Complete
  <2> QED
    BY <2>2, <2>3
<1>14. CASE ApplyHeaders
  <2>1. /\ hpc = "apply" /\ hpc' = "close" /\ file' = Written(mvec)
        /\ UNCHANGED <<apc, extracted, mvec, images, dir, name>>
    BY <1>14 DEF ApplyHeaders, HeaderGoes, aristarchosVars, Written
  <2>2. mvec \in Seq(Headers)
    BY DEF FileTypes
  <2>3. FileTypes'
    BY <2>1, <2>2, WrittenValues DEF FileTypes
  <2>4. ListInv'
    BY <2>1 DEF ListInv, Complete
  <2> QED
    BY <2>3, <2>4
<1>15. CASE CloseFile
  <2>1. apc' = "idle" /\ dir' = dir /\ extracted' = extracted /\ hpc = "close"
    BY <1>15 DEF CloseFile, aristarchosVars, FileTypes
  <2>2. CASE images > 1
    <3>1. /\ hpc' = "name" /\ images' = images - 1
          /\ UNCHANGED <<mvec, name, file>>
      BY <1>15, <2>2 DEF CloseFile
    <3>2. images' \in 0..ImageCap
      BY <2>2, <3>1, FitsAssumption DEF FileTypes
    <3>3. FileTypes'
      BY <2>1, <3>1, <3>2 DEF FileTypes
    <3>4. ListInv'
      BY <2>1, <3>1 DEF ListInv, Complete
    <3> QED
      BY <3>3, <3>4
  <2>3. CASE ~(images > 1)
    BY <1>3, <1>15, <2>1, <2>3 DEF CloseFile, CommandEnds
  <2> QED
    BY <2>2, <2>3
<1>16. CASE Restart
  BY <1>16
     DEF Restart, HeaderGoes, aristarchosVars, fileVars, FileTypes, ListInv
<1>17. CASE UserRemoves
  <2>1. /\ dir' \subseteq dir
        /\ UNCHANGED <<apc, extracted, hpc, mvec, images, name, file>>
    BY <1>17 DEF UserRemoves, aristarchosVars
  <2>2. FileTypes'
    BY <2>1 DEF FileTypes
  <2>3. ListInv'
    BY <2>1 DEF ListInv, AfterOwn, Complete
  <2> QED
    BY <2>2, <2>3
<1>18. CASE UNCHANGED vars
  <2>1. UNCHANGED <<headerVars, extracted, apc>>
    BY <1>18 DEF vars, aristarchosVars
  <2> QED
    BY <1>1, <2>1 DEF FileTypes
<1>19. CASE CommandStep
  BY <1>4, <1>7, <1>8, <1>9, <1>10, <1>11, <1>12, <1>13, <1>14, <1>15, <1>19
     DEF CommandStep, CreateCrashes
<1> QED
  BY <1>2, <1>4, <1>5, <1>6, <1>16, <1>17, <1>18, <1>19
     DEF Next, FetchStep, DiesOfSigpipe, IsKilled

-----------------------------------------------------------------------------
(* What a file tells, and its name.                                        *)

\* A file is closed as its list has written it, and the lines it was written
\* from stay those that were extracted.
LEMMA TellsPreserved ==
  ASSUME FileTypes, ListInv, FileTellsCommand, [Next]_vars
  PROVE  FileTellsCommand'
<1>1. CASE ApplyHeaders
  <2>1. /\ hpc = "apply" /\ extracted' = extracted /\ file' = Written(mvec)
    BY <1>1 DEF ApplyHeaders, HeaderGoes, aristarchosVars, Written
  <2>2. mvec \in Seq(Headers) /\ Complete(mvec)
    BY <2>1 DEF FileTypes, ListInv
  <2>3. /\ \A key \in Reached : key \in DOMAIN file' /\ file'[key] = "daemon"
        /\ ToSet(extracted') \subseteq DOMAIN file'
    BY <2>1, <2>2, WrittenTells
  <2> QED
    BY <2>3 DEF FileTellsCommand
<1>2. ASSUME hpc' # "close" PROVE FileTellsCommand'
  BY <1>2 DEF FileTellsCommand
<1>3. ASSUME UNCHANGED <<hpc, file, extracted>> PROVE FileTellsCommand'
  BY <1>3 DEF FileTellsCommand
<1>4. ASSUME NEW n \in 1..ImageCap, NEW tries \in 0..TriesCap,
             ImageCommand(n, tries)
      PROVE  FileTellsCommand'
  BY <1>2, <1>4 DEF ImageCommand, HeaderGoes
<1>5. CASE AristarchosStep /\ UNCHANGED headerVars
  <2>1. apc # "idle"
    BY <1>5
       DEF AristarchosStep, Connects, ConnectFails, SendsCommand, SendFails,
           Receives, TimesOut, FindsClosed, TriesAgain, EndsTrying,
           DecodeSucceeds, DecodeFails, Goes
  <2>2. hpc' = "fetch"
    BY <1>5, <2>1 DEF FileTypes, headerVars
  <2> QED
    BY <1>2, <2>2
<1>6. CASE FccStep /\ UNCHANGED headerVars
  BY <1>3, <1>6
     DEF FccStep, FccAnswers, FccHangsUp, FccKeepsRest, headerVars, fileVars
<1>7. ASSUME Dies PROVE FileTellsCommand'
  BY <1>2, <1>7 DEF Dies
<1>8. CASE CommandStep
  <2>1. CASE ApplyHeaders
    BY <1>1, <2>1
  <2>2. CASE CreateCrashes
    BY <1>7, <2>2 DEF CreateCrashes
  <2> QED
    BY <1>2, <1>8, <2>1, <2>2
       DEF CommandStep, MergeHeaders, OwnUpdates, SetUpFails, NameFile,
           NameFails, CreateFile, WriteImage, WriteFails, CloseFile,
           CommandEnds, HeaderGoes
<1>9. CASE Restart \/ UserRemoves \/ UNCHANGED vars
  BY <1>2, <1>3, <1>9
     DEF Restart, UserRemoves, HeaderGoes, vars, aristarchosVars, headerVars,
         fileVars
<1> QED
  BY <1>4, <1>5, <1>6, <1>7, <1>8, <1>9
     DEF Next, FetchStep, DiesOfSigpipe, IsKilled

\* The index of a name is counted over the whole directory, and until the file
\* is created the directory can only shrink.
LEMMA NamesPreserved ==
  ASSUME FileTypes, NamesCountUp, [Next]_vars
  PROVE  NamesCountUp'
<1>1. CASE NameFile
  <2>1. PICK base \in Bases : name' = <<base, NextIndex(base)>>
    BY <1>1 DEF NameFile
  <2>2. name'[1] = base /\ name'[2] = NextIndex(base) /\ dir' = dir
    BY <1>1, <2>1 DEF NameFile
  <2>3. \A entry \in dir : entry[1] = base => entry[2] < NextIndex(base)
    BY NextIndexIsAbove DEF FileTypes
  <2> QED
    BY <2>2, <2>3 DEF NamesCountUp
<1>2. ASSUME hpc' # "create" PROVE NamesCountUp'
  BY <1>2 DEF NamesCountUp
<1>3. ASSUME hpc' = hpc, name' = name, dir' \subseteq dir PROVE NamesCountUp'
  BY <1>3 DEF NamesCountUp
<1>4. ASSUME NEW n \in 1..ImageCap, NEW tries \in 0..TriesCap,
             ImageCommand(n, tries)
      PROVE  NamesCountUp'
  BY <1>2, <1>4 DEF ImageCommand, HeaderGoes
<1>5. ASSUME UNCHANGED headerVars PROVE NamesCountUp'
  BY <1>3, <1>5 DEF headerVars, fileVars
<1>6. ASSUME Dies PROVE NamesCountUp'
  BY <1>2, <1>6 DEF Dies
<1>7. CASE CommandStep
  <2>1. CASE NameFile
    BY <1>1, <2>1
  <2>2. CASE CreateCrashes
    BY <1>6, <2>2 DEF CreateCrashes
  <2> QED
    BY <1>2, <1>7, <2>1, <2>2
       DEF CommandStep, MergeHeaders, OwnUpdates, SetUpFails, NameFails,
           CreateFile, WriteImage, WriteFails, ApplyHeaders, CloseFile,
           CommandEnds, HeaderGoes
<1>8. CASE Restart
  BY <1>2, <1>8 DEF Restart, HeaderGoes
<1>9. CASE UserRemoves
  BY <1>3, <1>9 DEF UserRemoves
<1> QED
  BY <1>4, <1>5, <1>6, <1>7, <1>8, <1>9
     DEF Next, FetchStep, DiesOfSigpipe, IsKilled, vars

-----------------------------------------------------------------------------
(* The invariant of the component.                                         *)

HeadersInv ==
  /\ TriesInv /\ TryTypes /\ TalkTypes /\ ExtractedInv
  /\ FileTypes /\ ListInv
  /\ FileTellsCommand /\ NamesCountUp

LEMMA InitHeaders == Init => HeadersInv
<1> SUFFICES ASSUME Init PROVE HeadersInv
  OBVIOUS
<1>1. TriesInv
  BY InitTriesInv
<1>2. TryTypes
  <2>1. TriesCap \in Nat
    BY AristarchosAssumption
  <2> QED
    BY <2>1 DEF Init, AristarchosInit, TryTypes
<1>3. TalkTypes
  BY NoneIsASeq DEF Init, AristarchosInit, TalkTypes
<1>4. ExtractedInv
  <2>1. Len(FccHeaders) \in Nat
    BY AristarchosAssumption
  <2> QED
    BY <2>1 DEF ExtractedInv, Init, AristarchosInit
<1>5. FileTypes
  BY NothingIsTyped DEF Init, AristarchosInit, FileTypes
<1>6. ListInv /\ FileTellsCommand /\ NamesCountUp
  BY DEF Init, ListInv, FileTellsCommand, NamesCountUp
<1> QED
  BY <1>1, <1>2, <1>3, <1>4, <1>5, <1>6 DEF HeadersInv

\* The invariant is inductive.
LEMMA HeadersInductive == HeadersInv /\ [Next]_vars => HeadersInv'
<1> SUFFICES ASSUME HeadersInv, [Next]_vars PROVE HeadersInv'
  OBVIOUS
<1>1. TriesInv' /\ TryTypes' /\ TalkTypes' /\ ExtractedInv'
  BY TriesPreserved, TalkPreserved, ExtractedPreserved DEF HeadersInv
<1>2. FileTypes' /\ ListInv'
  BY FilesPreserved DEF HeadersInv
<1>3. FileTellsCommand' /\ NamesCountUp'
  BY TellsPreserved, NamesPreserved DEF HeadersInv
<1> QED
  BY <1>1, <1>2, <1>3 DEF HeadersInv

\* It holds in every reachable state.
THEOREM HeadersInvariance == Spec => []HeadersInv
  BY InitHeaders, HeadersInductive, PTL DEF Spec

\* The types of the command, of its conversation with Aristarchos, of its list
\* and of the directory.
THEOREM TypeCorrect == Spec => []TypeOK
<1>1. HeadersInv => TypeOK
  BY AllTypes DEF HeadersInv, FileTypes, TypeOK
<1> QED
  BY <1>1, HeadersInvariance, PTL

\* A closed file tells what its command was taken with (fits_header.cpp,
\* set_acquisition.cpp, save_as_fits.cpp): every header of the daemon before
\* TIMECORR with the daemon's value, whatever Aristarchos sent under the same
\* keyword, and every line that was extracted of Aristarchos.
THEOREM FilesTellCommands == Spec => []FileTellsCommand
<1>1. HeadersInv => FileTellsCommand
  BY DEF HeadersInv
<1> QED
  BY <1>1, HeadersInvariance, PTL

\* make_fits_filename() gives an index above that of every file of its base,
\* whatever the order the directory lists them in, and whatever was restarted,
\* given up or removed in between.
THEOREM NamesAlwaysCountUp == Spec => []NamesCountUp
<1>1. HeadersInv => NamesCountUp
  BY DEF HeadersInv
<1> QED
  BY <1>1, HeadersInvariance, PTL

-----------------------------------------------------------------------------
(* How long a command can take.                                            *)

\* Steps that are left of a conversation, and of the tries after it.
TalkLeft ==
  CASE apc = "idle" -> 0
    [] apc = "connect" -> 11
    [] apc = "send" -> 12 - 2 * step
    [] apc = "recv" -> 11 - 2 * step
    [] apc = "again" -> 2
    [] apc = "decode" -> 1

FetchLeft == TalkLeft + 11 * (num_tries - ctry)

\* Steps of the main thread that are left of a command, at most: five for each
\* image that is still to be saved.
StepsLeft ==
  CASE hpc \in {"idle", "killed"} -> 0
    [] hpc = "fetch" -> 5 * images + 2 + FetchLeft
    [] hpc = "own" -> 5 * images + 1
    [] hpc = "name" -> 5 * images
    [] hpc = "create" -> 5 * images - 1
    [] hpc = "write" -> 5 * images - 2
    [] hpc = "apply" -> 5 * images - 3
    [] hpc = "close" -> 5 * images - 4

\* A command has images to save until it ends, and no tries when it asks for
\* nothing.
EndInv ==
  /\ hpc \notin {"idle", "killed"} => images >= 1
  /\ apc = "idle" => num_tries = 0 /\ ctry = 0

\* Every step of the main thread takes something off, and only a new command
\* puts something on.
StepsRunOut ==
  [][/\ FetchStep \/ CommandStep => StepsLeft' < StepsLeft
     /\ \/ StepsLeft' <= StepsLeft
        \/ \E n \in 1..ImageCap, tries \in 0..TriesCap :
             ImageCommand(n, tries) /\ StepsLeft' <= 11 * tries + 5 * n + 2]_vars

LEMMA EndPreserved == FileTypes /\ EndInv /\ [Next]_vars => EndInv'
<1> SUFFICES ASSUME FileTypes, EndInv, [Next]_vars PROVE EndInv'
  OBVIOUS
<1>1. ASSUME NEW n \in 1..ImageCap, NEW tries \in 0..TriesCap,
             ImageCommand(n, tries)
      PROVE  EndInv'
  BY <1>1, FitsAssumption
     DEF ImageCommand, NoRequest, RequestHeaders, EndInv, tryVars, Goes,
         HeaderGoes
<1>2. CASE AristarchosStep /\ UNCHANGED headerVars
  <2>1. apc' = "idle" => Returns
    BY <1>2
       DEF AristarchosStep, Connects, ConnectFails, SendsCommand, SendFails,
           Receives, TimesOut, FindsClosed, Breaks, GoesOn, TriesAgain,
           EndsTrying, DecodeSucceeds, DecodeFails, Goes
  <2> QED
    BY <1>2, <2>1 DEF EndInv, headerVars, Returns, Clears
<1>3. CASE FccStep /\ UNCHANGED headerVars
  BY <1>3
     DEF FccStep, FccAnswers, FccHangsUp, FccKeepsRest, tryVars, headerVars,
         EndInv
<1>4. ASSUME Dies PROVE EndInv'
  BY <1>4 DEF Dies, Clears, EndInv
<1>5. CASE CommandStep
  <2>1. CASE CreateCrashes
    BY <1>4, <2>1 DEF CreateCrashes
  <2>2. CASE CloseFile
    <3>1. images \in Int
      BY FitsAssumption DEF FileTypes
    <3> QED
      BY <2>2, <3>1 DEF CloseFile, CommandEnds, aristarchosVars, EndInv
  <2> QED
    BY <1>5, <2>1, <2>2
       DEF CommandStep, MergeHeaders, OwnUpdates, SetUpFails, NameFile,
           NameFails, CreateFile, WriteImage, WriteFails, ApplyHeaders,
           CommandEnds, HeaderGoes, aristarchosVars, fileVars, EndInv
<1>6. CASE Restart \/ UserRemoves \/ UNCHANGED vars
  BY <1>6
     DEF Restart, UserRemoves, HeaderGoes, vars, aristarchosVars, headerVars,
         EndInv
<1> QED
  BY <1>1, <1>2, <1>3, <1>4, <1>5, <1>6
     DEF Next, FetchStep, DiesOfSigpipe, IsKilled

\* What is left of a conversation is a number, and every step of it takes
\* something off: the flag that would let the inner loop start again is clear.
LEMMA TalkRunsOut ==
  ASSUME TryTypes, TalkTypes, TriesInv, AristarchosStep
  PROVE  FetchLeft' < FetchLeft
<1>1. /\ num_tries \in Nat /\ ctry \in Nat /\ ctry <= num_tries
      /\ step \in 1..4
      /\ apc \in {"idle", "connect", "send", "recv", "again", "decode"}
  BY AristarchosAssumption DEF TryTypes, TalkTypes
<1>0. ASSUME num_tries' = num_tries, ctry' = ctry, TalkLeft' < TalkLeft,
             TalkLeft \in Int, TalkLeft' \in Int
      PROVE  FetchLeft' < FetchLeft
  <2>1. \A a, b, c \in Int : a < b => a + c < b + c
    OBVIOUS
  <2>2. 11 * (num_tries - ctry) \in Int
    BY <1>1
  <2> QED
    BY <1>0, <2>1, <2>2, Zenon DEF FetchLeft
<1>2. CASE Connects \/ ConnectFails
  BY <1>1, <1>2
     DEF Connects, ConnectFails, OpensSocket, Goes, FetchLeft, TalkLeft
<1>3. CASE SendsCommand
  <2>1. /\ apc = "send" /\ UNCHANGED <<num_tries, ctry>>
        /\ \/ apc' = "send" /\ step' = step + 1
           \/ apc' = "recv" /\ step' = step
    BY <1>3 DEF SendsCommand, tryVars
  <2>2. TalkLeft' < TalkLeft /\ TalkLeft \in Int /\ TalkLeft' \in Int
    BY <1>1, <2>1 DEF TalkLeft
  <2> QED
    BY <1>0, <2>1, <2>2
<1>4. ASSUME num_tries' = num_tries, ctry' = ctry, apc \in {"send", "recv"},
             apc' = "again" \/ (apc = "recv" /\ apc' = "send" /\ step' = step + 1)
      PROVE  FetchLeft' < FetchLeft
  <2>1. TalkLeft' < TalkLeft /\ TalkLeft \in Int /\ TalkLeft' \in Int
    BY <1>1, <1>4 DEF TalkLeft
  <2> QED
    BY <1>0, <1>4, <2>1
<1>5. CASE SendFails \/ Receives \/ TimesOut \/ FindsClosed
  BY <1>4, <1>5
     DEF SendFails, Receives, TimesOut, FindsClosed, Breaks, GoesOn, tryVars
<1>6. CASE TriesAgain
  BY <1>6 DEF TriesAgain, TriesInv
<1>7. CASE EndsTrying
  BY <1>1, <1>7 DEF EndsTrying, Goes, tryVars, FetchLeft, TalkLeft
<1>8. CASE DecodeSucceeds \/ DecodeFails
  <2>1. apc = "decode"
    BY <1>8 DEF DecodeSucceeds, DecodeFails
  <2>2. CASE Returns
    BY <1>1, <2>1, <2>2 DEF Returns, Clears, FetchLeft, TalkLeft
  <2>3. CASE ~Returns
    <3>1. /\ apc' = "connect" /\ ctry' = ctry + 1 /\ num_tries' = num_tries
          /\ ctry < num_tries
      BY <1>8, <2>3 DEF DecodeSucceeds, DecodeFails
    <3> QED
      BY <1>1, <2>1, <3>1 DEF FetchLeft, TalkLeft
  <2> QED
    BY <2>2, <2>3
<1> QED
  BY <1>2, <1>3, <1>5, <1>6, <1>7, <1>8 DEF AristarchosStep

\* What is left of a command is never less than nothing.
LeftIsNatural == FetchLeft \in Nat /\ StepsLeft \in Nat

LEMMA LeftNatural == HeadersInv /\ EndInv => LeftIsNatural
<1> SUFFICES ASSUME HeadersInv, EndInv PROVE LeftIsNatural
  OBVIOUS
<1>1. num_tries \in Nat /\ ctry \in Nat /\ ctry <= num_tries
  BY AristarchosAssumption DEF HeadersInv, TryTypes
<1>2. step \in 1..4 /\ apc \in {"idle", "connect", "send", "recv", "again", "decode"}
  BY DEF HeadersInv, TalkTypes
<1>3. /\ images \in Nat
      /\ hpc \in {"idle", "fetch", "own", "name", "create", "write",
                  "apply", "close", "killed"}
      /\ hpc \notin {"idle", "killed"} => images >= 1
  BY FitsAssumption DEF HeadersInv, FileTypes, EndInv
<1>4. TalkLeft \in Nat
  BY <1>2 DEF TalkLeft
<1>5. 11 * (num_tries - ctry) \in Nat
  BY <1>1
<1>6. FetchLeft \in Nat
  BY <1>4, <1>5 DEF FetchLeft
<1>7. StepsLeft \in Nat
  BY <1>3, <1>6 DEF StepsLeft
<1> QED
  BY <1>6, <1>7 DEF LeftIsNatural

\* A step of the main thread.
LEMMA MainRunsOut ==
  ASSUME HeadersInv, EndInv, LeftIsNatural, LeftIsNatural',
         FetchStep \/ CommandStep
  PROVE  StepsLeft' < StepsLeft
<1>1. /\ FetchLeft \in Nat /\ StepsLeft \in Nat
      /\ FetchLeft' \in Nat /\ StepsLeft' \in Nat
      /\ images \in Nat
      /\ hpc \notin {"idle", "killed"} => images >= 1
      /\ hpc \in {"idle", "fetch", "own", "name", "create", "write",
                  "apply", "close", "killed"}
  BY FitsAssumption DEF LeftIsNatural, HeadersInv, FileTypes, EndInv
<1>2. CASE AristarchosStep /\ UNCHANGED headerVars
  <2>1. apc # "idle"
    BY <1>2
       DEF AristarchosStep, Connects, ConnectFails, SendsCommand, SendFails,
           Receives, TimesOut, FindsClosed, TriesAgain, EndsTrying,
           DecodeSucceeds, DecodeFails, Goes
  <2>2. hpc = "fetch" /\ hpc' = "fetch" /\ images' = images
    BY <1>2, <2>1 DEF HeadersInv, FileTypes, headerVars
  <2>3. FetchLeft' < FetchLeft
    BY <1>2, TalkRunsOut DEF HeadersInv
  <2>4. /\ StepsLeft = 5 * images + 2 + FetchLeft
        /\ StepsLeft' = 5 * images + 2 + FetchLeft'
    BY <2>2 DEF StepsLeft
  <2>5. \A a, b, c \in Nat : a < b => c + a < c + b
    OBVIOUS
  <2>6. 5 * images + 2 \in Nat
    BY <1>1
  <2> QED
    BY <1>1, <2>3, <2>4, <2>5, <2>6
<1>3. ASSUME hpc \notin {"idle", "killed"}, hpc' \in {"idle", "killed"}
      PROVE  StepsLeft' < StepsLeft
  <2>1. StepsLeft' = 0
    BY <1>3 DEF StepsLeft
  <2>2. StepsLeft >= 1
    BY <1>1, <1>3 DEF StepsLeft
  <2> QED
    BY <1>1, <2>1, <2>2
<1>4. CASE DiesOfSigpipe
  <2>1. apc = "send" /\ hpc' = "killed"
    BY <1>4 DEF DiesOfSigpipe, Sigpipe, Dies
  <2>2. hpc = "fetch"
    BY <2>1 DEF HeadersInv, FileTypes
  <2> QED
    BY <1>3, <2>1, <2>2
<1>5. CASE MergeHeaders
  BY <1>1, <1>5 DEF MergeHeaders, HeaderGoes, StepsLeft
<1>6. CASE OwnUpdates
  BY <1>1, <1>6 DEF OwnUpdates, HeaderGoes, fileVars, StepsLeft
<1>7. CASE SetUpFails
  BY <1>3, <1>7 DEF SetUpFails, HeaderGoes
<1>8. CASE NameFile
  BY <1>1, <1>8 DEF NameFile, HeaderGoes, StepsLeft
<1>9. CASE NameFails \/ WriteFails
  BY <1>3, <1>9 DEF NameFails, WriteFails, CommandEnds
<1>10. CASE CreateFile \/ WriteImage \/ ApplyHeaders
  BY <1>1, <1>10 DEF CreateFile, WriteImage, ApplyHeaders, HeaderGoes, StepsLeft
<1>11. CASE CreateCrashes
  BY <1>3, <1>11 DEF CreateCrashes, Dies
<1>12. CASE CloseFile
  <2>1. CASE images > 1
    BY <1>1, <1>12, <2>1 DEF CloseFile, StepsLeft
  <2>2. CASE ~(images > 1)
    BY <1>3, <1>12, <2>2 DEF CloseFile, CommandEnds
  <2> QED
    BY <2>1, <2>2
<1> QED
  BY <1>2, <1>4, <1>5, <1>6, <1>7, <1>8, <1>9, <1>10, <1>11, <1>12
     DEF FetchStep, CommandStep

\* A command that begins.
LEMMA CommandLeft ==
  ASSUME HeadersInv, EndInv,
         NEW n \in 1..ImageCap, NEW tries \in 0..TriesCap, ImageCommand(n, tries)
  PROVE  StepsLeft' <= 11 * tries + 5 * n + 2
<1>1. hpc = "idle" /\ hpc' = "fetch" /\ images' = n /\ n \in Nat /\ tries \in Nat
  BY FitsAssumption, AristarchosAssumption DEF ImageCommand, HeaderGoes
<1>2. StepsLeft' = 5 * n + 2 + FetchLeft'
  BY <1>1 DEF StepsLeft
<1>3. CASE tries = 0
  <2>1. apc = "idle" /\ num_tries = 0 /\ ctry = 0
    BY <1>1 DEF HeadersInv, FileTypes, EndInv
  <2>2. apc' = "idle" /\ num_tries' = 0 /\ ctry' = 0
    BY <1>3, <2>1 DEF ImageCommand, NoRequest, tryVars
  <2>3. FetchLeft' = 0
    BY <2>2 DEF FetchLeft, TalkLeft
  <2> QED
    BY <1>1, <1>2, <1>3, <2>3
<1>4. CASE tries # 0
  <2>1. apc' = "connect" /\ num_tries' = tries /\ ctry' = 1
    BY <1>4 DEF ImageCommand, RequestHeaders, Goes
  <2>2. FetchLeft' = 11 + 11 * (tries - 1)
    BY <2>1 DEF FetchLeft, TalkLeft
  <2> QED
    BY <1>1, <1>2, <2>2
<1> QED
  BY <1>3, <1>4

\* Every other step.
LEMMA OthersAddNothing ==
  ASSUME LeftIsNatural, LeftIsNatural',
         \/ FccStep /\ UNCHANGED headerVars
         \/ IsKilled \/ Restart \/ UserRemoves \/ UNCHANGED vars
  PROVE  StepsLeft' <= StepsLeft
<1>1. StepsLeft \in Nat /\ StepsLeft' \in Nat
  BY DEF LeftIsNatural
<1>2. ASSUME UNCHANGED <<apc, step, num_tries, ctry, hpc, images>>
      PROVE  StepsLeft' <= StepsLeft
  <2>1. StepsLeft' = StepsLeft
    BY <1>2 DEF StepsLeft, FetchLeft, TalkLeft
  <2> QED
    BY <1>1, <2>1
<1>3. CASE FccStep /\ UNCHANGED headerVars
  BY <1>2, <1>3
     DEF FccStep, FccAnswers, FccHangsUp, FccKeepsRest, tryVars, headerVars
<1>4. CASE IsKilled \/ Restart
  <2>1. hpc' \in {"idle", "killed"}
    BY <1>4 DEF IsKilled, Restart, Dies, HeaderGoes
  <2>2. StepsLeft' = 0
    BY <2>1 DEF StepsLeft
  <2> QED
    BY <1>1, <2>2
<1>5. CASE UserRemoves \/ UNCHANGED vars
  BY <1>2, <1>5 DEF UserRemoves, vars, aristarchosVars, headerVars
<1> QED
  BY <1>3, <1>4, <1>5

\* A command of n images that asks Aristarchos t times takes at most
\* 11 t + 5 n + 2 steps of the main thread, whatever the FCC does beside it,
\* whoever moves the files and however often the daemon is killed.
THEOREM CommandsRunOut == Spec => [](StepsLeft \in Nat) /\ StepsRunOut
<1> DEFINE Inv == HeadersInv /\ EndInv
           RunsOut ==
             /\ FetchStep \/ CommandStep => StepsLeft' < StepsLeft
             /\ \/ StepsLeft' <= StepsLeft
                \/ \E n \in 1..ImageCap, tries \in 0..TriesCap :
                     ImageCommand(n, tries)
                       /\ StepsLeft' <= 11 * tries + 5 * n + 2
<1>1. Init => Inv
  <2>1. Init => EndInv
    BY DEF Init, AristarchosInit, EndInv
  <2> QED
    BY <2>1, InitHeaders
<1>2. Inv /\ [Next]_vars => Inv'
  <2>1. HeadersInv /\ [Next]_vars => HeadersInv'
    BY HeadersInductive
  <2>2. HeadersInv /\ EndInv /\ [Next]_vars => EndInv'
    BY EndPreserved DEF HeadersInv
  <2> QED
    BY <2>1, <2>2
<1>3. Inv => LeftIsNatural
  BY LeftNatural
<1>4. LeftIsNatural => StepsLeft \in Nat
  BY DEF LeftIsNatural
<1>5. ASSUME Inv, LeftIsNatural, LeftIsNatural', [Next]_vars
      PROVE  RunsOut
  <2>1. ASSUME FetchStep \/ CommandStep PROVE StepsLeft' < StepsLeft
    BY <1>5, <2>1, MainRunsOut
  <2>2. CASE FetchStep \/ CommandStep
    <3>1. StepsLeft \in Nat /\ StepsLeft' \in Nat /\ StepsLeft' < StepsLeft
      BY <1>5, <2>1, <2>2 DEF LeftIsNatural
    <3>2. StepsLeft' <= StepsLeft
      BY <3>1
    <3> QED
      BY <3>1, <3>2, Zenon
  <2>3. ASSUME NEW n \in 1..ImageCap, NEW tries \in 0..TriesCap,
               ImageCommand(n, tries)
        PROVE  RunsOut
    <3>1. StepsLeft' <= 11 * tries + 5 * n + 2
      BY <1>5, <2>3, CommandLeft
    <3> QED
      BY <2>1, <2>3, <3>1, Zenon
  <2>4. CASE \/ FccStep /\ UNCHANGED headerVars
             \/ IsKilled \/ Restart \/ UserRemoves \/ UNCHANGED vars
    <3>1. StepsLeft' <= StepsLeft
      BY <1>5, <2>4, OthersAddNothing
    <3> QED
      BY <2>1, <3>1, Zenon
  <2> HIDE DEF RunsOut
  <2> QED
    BY <1>5, <2>2, <2>3, <2>4 DEF Next
<1>6. Spec => []Inv
  BY <1>1, <1>2, PTL DEF Spec
<1> HIDE DEF Inv
<1> QED
  BY <1>3, <1>4, <1>5, <1>6, PTL DEF Spec, StepsRunOut

-----------------------------------------------------------------------------
(* The promise of the files.                                               *)

\* The lines of Aristarchos are taken from one answer, at the end of the
\* conversation; none are known before it.
LinesInv == apc # "idle" => hpc = "fetch" /\ extracted = <<>>

LEMMA LinesPreserved == LinesInv /\ [Next]_vars => LinesInv'
<1> SUFFICES ASSUME LinesInv, [Next]_vars PROVE LinesInv'
  OBVIOUS
<1>1. ASSUME NEW n \in 1..ImageCap, NEW tries \in 0..TriesCap,
             ImageCommand(n, tries)
      PROVE  LinesInv'
  BY <1>1
     DEF ImageCommand, NoRequest, RequestHeaders, LinesInv, tryVars, Goes,
         HeaderGoes
<1>2. CASE AristarchosStep /\ UNCHANGED headerVars
  BY <1>2
     DEF LinesInv, AristarchosStep, Connects, ConnectFails, OpensSocket,
         SendsCommand, SendFails, Receives, TimesOut, FindsClosed, Breaks,
         GoesOn, TriesAgain, EndsTrying, DecodeSucceeds, DecodeFails, Returns,
         Clears, Goes, headerVars, fileVars, tryVars
<1>3. CASE FccStep /\ UNCHANGED headerVars
  BY <1>3
     DEF LinesInv, FccStep, FccAnswers, FccHangsUp, FccKeepsRest, headerVars,
         fileVars
<1>4. ASSUME Dies PROVE LinesInv'
  BY <1>4 DEF Dies, Clears, LinesInv
<1>5. CASE CommandStep
  <2>1. CASE CreateCrashes
    BY <1>4, <2>1 DEF CreateCrashes
  <2>2. CASE ~CreateCrashes
    BY <1>5, <2>2
       DEF CommandStep, MergeHeaders, OwnUpdates, SetUpFails, NameFile,
           NameFails, CreateFile, WriteImage, WriteFails, ApplyHeaders,
           CloseFile, CommandEnds, aristarchosVars, HeaderGoes, LinesInv
  <2> QED
    BY <2>1, <2>2
<1>6. CASE Restart \/ UserRemoves \/ UNCHANGED vars
  BY <1>6
     DEF Restart, UserRemoves, vars, aristarchosVars, headerVars, fileVars,
         HeaderGoes, LinesInv
<1> QED
  BY <1>1, <1>2, <1>3, <1>4, <1>5, <1>6
     DEF Next, FetchStep, DiesOfSigpipe, IsKilled

\* The daemon starts without a file, as the promise does.
LEMMA InitPromise == Init => Promise!Init
  BY DEF Init, NoFile, Promise!Init, Promise!Untold

\* What neither begins nor ends a command, and leaves list, directory and file
\* alone, says nothing to the reader of the files.
LEMMA Unnoticed ==
  ASSUME UNCHANGED <<images, dir, file, extracted>>,
         \/ hpc' = hpc
         \/ hpc = "write" /\ hpc' = "apply"
  PROVE  UNCHANGED Promise!vars
  BY DEF Promise!vars

\* A command that ends, by itself or not, leaves the directory as it is.
LEMMA EndOfCommand ==
  ASSUME FileTypes, hpc \notin {"idle", "killed"}, hpc' \in {"idle", "killed"},
         images' = 0, dir' = dir
  PROVE  Promise!End
<1>1. hpc \in {"fetch", "own", "name", "create", "write", "apply", "close"}
  BY DEF FileTypes
<1>2. hpc' # "close"
  OBVIOUS
<1> QED
  BY <1>1, <1>2 DEF Promise!End, Promise!Untold, NoFile

LEMMA LearnsLines ==
  ASSUME Extracts, hpc = "fetch", hpc' = "fetch",
         UNCHANGED <<images, dir, file>>, extracted = <<>>
  PROVE  \E sent \in SUBSET ToSet(FccHeaders) : Promise!Learn(sent)
<1>1. extracted' \in Seq(ToSet(FccHeaders))
  BY ExtractsLines
<1>2. ToSet(extracted') \subseteq ToSet(FccHeaders)
  BY <1>1 DEF ToSet
<1>3. ToSet(<<>>) = {}
  BY DEF ToSet
<1> QED
  BY <1>2, <1>3 DEF Promise!Learn

\* What the index is when the file appears.
LEMMA CreatesHighest ==
  ASSUME FileTypes, ListInv, NamesCountUp, CreateFile
  PROVE  \E base \in Bases, index \in 1..IndexCap : Promise!Create(base, index)
<1>1. hpc = "create" /\ hpc' = "write" /\ dir' = dir \cup {name}
  BY DEF CreateFile, HeaderGoes
<1>2. PICK base \in Bases, index \in 1..IndexCap : name = <<base, index>>
  BY <1>1 DEF ListInv, Names
<1>3. \A entry \in dir : entry[1] = base => entry[2] < index
  BY <1>1, <1>2 DEF NamesCountUp
<1>4. UNCHANGED <<images, extracted>>
  BY DEF CreateFile, aristarchosVars
<1>5. Promise!Create(base, index)
  BY <1>1, <1>2, <1>3, <1>4 DEF Promise!Create
<1> QED
  BY <1>5

\* What the file is told is what the command was taken with.
LEMMA TellsCommand ==
  ASSUME ApplyHeaders, FileTypes', FileTellsCommand'
  PROVE  Promise!Tell
<1>1. /\ hpc = "apply" /\ hpc' = "close"
      /\ UNCHANGED <<images, dir, extracted>>
  BY DEF ApplyHeaders, HeaderGoes, aristarchosVars
<1>2. DOMAIN file' \subseteq Keys
  BY DEF FileTypes
<1>3. /\ \A key \in Reached : key \in DOMAIN file' /\ file'[key] = "daemon"
      /\ ToSet(extracted') \subseteq DOMAIN file'
  BY <1>1 DEF FileTellsCommand
<1> QED
  BY <1>1, <1>2, <1>3 DEF Promise!Tell, Promise!Tells

\* The next image of the series, or the end.
LEMMA FinishesFile ==
  ASSUME FileTypes, CloseFile
  PROVE  Promise!Finish \/ Promise!End
<1>1. hpc = "close" /\ dir' = dir /\ extracted' = extracted
  BY DEF CloseFile, HeaderGoes, CommandEnds, aristarchosVars
<1>2. CASE images > 1
  BY <1>1, <1>2 DEF CloseFile, Promise!Finish, Promise!Untold, NoFile
<1>3. CASE ~(images > 1)
  <2>1. hpc' = "idle" /\ images' = 0
    BY <1>3 DEF CloseFile, CommandEnds
  <2> QED
    BY <1>1, <2>1, EndOfCommand
<1> QED
  BY <1>2, <1>3

\* Every step keeps the promise, or says nothing to the reader of the files.
LEMMA StepImplements ==
  HeadersInv /\ LinesInv /\ [Next]_vars => [Promise!Next]_(Promise!vars)
<1> SUFFICES ASSUME HeadersInv, LinesInv, [Next]_vars
             PROVE  [Promise!Next]_(Promise!vars)
  OBVIOUS
<1>1. FileTypes /\ ListInv /\ NamesCountUp
  BY DEF HeadersInv
<1>2. FileTypes' /\ FileTellsCommand'
  BY HeadersInductive DEF HeadersInv
<1>3. Promise!End => Promise!Next
  BY DEF Promise!Next
<1>4. ASSUME NEW n \in 1..ImageCap, NEW tries \in 0..TriesCap,
             ImageCommand(n, tries)
      PROVE  Promise!Request(n)
  <2>1. /\ hpc = "idle" /\ hpc' = "fetch" /\ images' = n /\ dir' = dir
        /\ extracted' = <<>>
    BY <1>4 DEF ImageCommand, HeaderGoes, NoRequest, RequestHeaders
  <2>2. ToSet(<<>>) = {}
    BY DEF ToSet
  <2> QED
    BY <2>1, <2>2 DEF Promise!Request
<1>5. CASE DecodeSucceeds /\ UNCHANGED headerVars
  <2>1. /\ Extracts /\ hpc = "fetch" /\ hpc' = "fetch" /\ extracted = <<>>
        /\ UNCHANGED <<images, dir, file>>
    BY <1>5 DEF DecodeSucceeds, LinesInv, headerVars, fileVars
  <2> QED
    BY <2>1, LearnsLines DEF Promise!Next
<1>6. CASE AristarchosStep /\ ~DecodeSucceeds /\ UNCHANGED headerVars
  <2>1. extracted' = extracted
    BY <1>6
       DEF AristarchosStep, Connects, ConnectFails, OpensSocket, SendsCommand,
           SendFails, Receives, TimesOut, FindsClosed, Breaks, GoesOn,
           TriesAgain, EndsTrying, DecodeFails
  <2> QED
    BY <1>6, <2>1, Unnoticed DEF headerVars, fileVars
<1>7. CASE FccStep /\ UNCHANGED headerVars
  <2>1. extracted' = extracted
    BY <1>7 DEF FccStep, FccAnswers, FccHangsUp, FccKeepsRest
  <2> QED
    BY <1>7, <2>1, Unnoticed DEF headerVars, fileVars
<1>8. ASSUME Dies, hpc \notin {"idle", "killed"} PROVE Promise!End
  BY <1>1, <1>8, EndOfCommand DEF Dies
<1>9. CASE DiesOfSigpipe
  <2>1. hpc = "fetch"
    BY <1>9 DEF DiesOfSigpipe, Sigpipe, LinesInv
  <2> QED
    BY <1>3, <1>8, <1>9, <2>1 DEF DiesOfSigpipe
<1>10. CASE CommandStep
  <2>1. CASE MergeHeaders
    <3>1. /\ hpc = "fetch" /\ hpc' = "own"
          /\ UNCHANGED <<images, dir, file, extracted>>
      BY <2>1 DEF MergeHeaders, HeaderGoes, aristarchosVars, fileVars
    <3> QED
      BY <3>1 DEF Promise!vars
  <2>2. CASE OwnUpdates
    <3>1. /\ hpc = "own" /\ hpc' = "name"
          /\ UNCHANGED <<images, dir, file, extracted>>
      BY <2>2 DEF OwnUpdates, HeaderGoes, aristarchosVars, fileVars
    <3>2. Promise!BeginFiles
      BY <3>1 DEF Promise!BeginFiles
    <3> QED
      BY <3>2 DEF Promise!Next
  <2>3. CASE SetUpFails \/ NameFails \/ WriteFails
    <3>1. /\ hpc \notin {"idle", "killed"} /\ hpc' = "idle"
          /\ images' = 0 /\ dir' = dir
      BY <2>3
         DEF SetUpFails, NameFails, WriteFails, CommandEnds, HeaderGoes, fileVars
    <3> QED
      BY <1>1, <1>3, <3>1, EndOfCommand
  <2>4. CASE NameFile
    <3>1. /\ hpc = "name" /\ hpc' = "create"
          /\ UNCHANGED <<images, dir, extracted>>
      BY <2>4 DEF NameFile, HeaderGoes, aristarchosVars
    <3> QED
      BY <3>1 DEF Promise!vars
  <2>5. CASE WriteImage
    <3>1. /\ hpc = "write" /\ hpc' = "apply"
          /\ UNCHANGED <<images, dir, file, extracted>>
      BY <2>5 DEF WriteImage, HeaderGoes, aristarchosVars, fileVars
    <3> QED
      BY <3>1, Unnoticed
  <2>6. CASE CreateFile
    BY <1>1, <2>6, CreatesHighest DEF Promise!Next
  <2>7. CASE CreateCrashes
    BY <1>3, <1>8, <2>7 DEF CreateCrashes
  <2>8. CASE ApplyHeaders
    BY <1>2, <2>8, TellsCommand DEF Promise!Next
  <2>9. CASE CloseFile
    BY <1>1, <2>9, FinishesFile DEF Promise!Next
  <2> QED
    BY <1>10, <2>1, <2>2, <2>3, <2>4, <2>5, <2>6, <2>7, <2>8, <2>9
       DEF CommandStep
<1>11. CASE IsKilled
  BY <1>3, <1>8, <1>11 DEF IsKilled
<1>12. CASE Restart
  <2>1. /\ hpc = "killed" /\ hpc' = "idle"
        /\ UNCHANGED <<images, dir>>
    BY <1>12 DEF Restart, HeaderGoes, fileVars
  <2> QED
    BY <2>1 DEF Promise!vars
<1>13. CASE UserRemoves
  BY <1>13
     DEF UserRemoves, aristarchosVars, Promise!Remove, Promise!Next
<1>14. CASE UNCHANGED vars
  BY <1>14, Unnoticed DEF vars, aristarchosVars, headerVars, fileVars
<1> QED
  BY <1>4, <1>5, <1>6, <1>7, <1>9, <1>10, <1>11, <1>12, <1>13, <1>14
     DEF Next, FetchStep, Promise!Next

\* A command, its conversation, its files and the death of the daemon, for
\* every FCC and every number of tries, images and files, keep the promise of
\* ImageFiles (fits_filenames.cpp, save_as_fits.cpp, cppfits.hpp).
THEOREM Implementation == Spec => ImplementsImageFiles
<1>1. Init => LinesInv
  BY DEF Init, AristarchosInit, LinesInv
<1> QED
  BY <1>1, InitPromise, LinesPreserved, StepImplements, HeadersInvariance, PTL
     DEF Spec, ImplementsImageFiles, Promise!Spec
=============================================================================
