---------------------------- MODULE Aristarchos ----------------------------
(***************************************************************************)
(* The headers of the telescope: get_aristarchos_headers() asks the        *)
(* control computer of Aristarchos (FCC) for them over TCP, and            *)
(* decode_message() and decoded_str_to_header() take its answer apart.     *)
(*                                                                         *)
(* A conversation is four commands on a connection of its own:             *)
(*   1  RE ON   no reply is waited for                                     *)
(*   2  RS      a reply is needed                                          *)
(*   3  RE OF   a reply may come                                           *)
(*   4  RD      the reply is the block of headers                          *)
(* The FCC is external: it may answer late, answer what need not be        *)
(* answered, report an error, send the block in two pieces, hang up, or    *)
(* say nothing.                                                            *)
(*                                                                         *)
(* Two loops retry, one inside the other, and both count to num_tries: the *)
(* inner one repeats a conversation that broke, the outer one a block that *)
(* could not be decoded.                                                   *)
(***************************************************************************)
EXTENDS Naturals, Sequences, SequencesExt

CONSTANTS
  TriesCap,   \* largest --ar-tries of a command
  FccHeaders  \* the header lines the FCC would send, one name per line

ASSUME AristarchosAssumption == /\ TriesCap \in Nat \ {0}
                                /\ FccHeaders \in Seq(STRING)

VARIABLES
  apc,          \* where get_aristarchos_headers() is; "idle" when not called
  num_tries,    \* --ar-tries of the command
  ctry,         \* current try of the outer loop
  count,        \* current try of the inner loop
  error,        \* the error of the inner loop
  step,         \* command of the conversation, 1 to 4
  link,         \* the connection
  wire,         \* what has arrived from the FCC and is not yet read
  header,       \* the buffer header: the pieces of the last reply
  fcc,          \* commands the FCC has not dealt with
  connections,  \* connections tried for this command
  extracted     \* ar_headers: the lines extracted for this command

aristarchosVars == <<apc, num_tries, ctry, count, error, step, link, wire,
                     header, fcc, connections, extracted>>

\* The second half of a block is named for the bytes its payload has more
\* than a multiple of three.
Payload == [tail |-> 3, tail1 |-> 1, tail2 |-> 2]
Pieces == {"ack", "error", "head"} \cup DOMAIN Payload
Links == {"none", "up", "closed", "reset"}

AristarchosTypeOK ==
  /\ apc \in {"idle", "connect", "send", "recv", "again", "decode"}
  /\ num_tries \in 0..TriesCap
  /\ ctry \in 0..num_tries
  /\ count \in 0..num_tries
  /\ error \in BOOLEAN
  /\ step \in 1..4
  /\ link \in Links
  /\ wire \in Seq(Pieces)
  /\ header \in Seq(Pieces)
  /\ fcc \in Seq({"RE ON", "RS", "RE OF", "RD", "rest"})
  /\ connections \in 0..(num_tries * num_tries)
  /\ extracted \in Seq(ToSet(FccHeaders))
  /\ Len(extracted) <= Len(FccHeaders)

AristarchosInit ==
  /\ apc = "idle"
  /\ num_tries = 0
  /\ ctry = 0
  /\ count = 0
  /\ error = FALSE
  /\ step = 1
  /\ link = "none"
  /\ wire = <<>>
  /\ header = <<>>
  /\ fcc = <<>>
  /\ connections = 0
  /\ extracted = <<>>

tryVars == <<num_tries, ctry, count, connections>>
linkVars == <<link, wire, fcc>>

Goes(from, to) == apc = from /\ apc' = to

-----------------------------------------------------------------------------
(* send_request_header_sequence().                                         *)

Commands == <<"RE ON", "RS", "RE OF", "RD">>

NoReply(i) == i = 1
OptionalReply(i) == i = 3

NoLink ==
  /\ link' = "none"
  /\ wire' = <<>>
  /\ fcc' = <<>>

\* No headers are asked for: --ar-tries 0.
NoRequest ==
  /\ extracted' = <<>>
  /\ UNCHANGED <<apc, tryVars, error, step, linkVars, header>>

\* get_aristarchos_headers(n): the first try begins with empty buffers.
RequestHeaders(n) ==
  /\ Goes("idle", "connect")
  /\ num_tries' = n
  /\ ctry' = 1
  /\ count' = 0
  /\ connections' = 0
  /\ header' = <<>>
  /\ extracted' = <<>>
  /\ error' = TRUE
  /\ UNCHANGED <<step, linkVars>>

\* One more connection is opened.
OpensSocket ==
  /\ count' = count + 1
  /\ connections' = connections + 1
  /\ error' = FALSE
  /\ UNCHANGED <<num_tries, ctry, header, extracted>>

Connects ==
  /\ Goes("connect", "send")
  /\ OpensSocket
  /\ step' = 1
  /\ link' = "up"
  /\ UNCHANGED <<wire, fcc>>

\* ClientSocket throws; the error flag is clear already, and stays so.
ConnectFails ==
  /\ Goes("connect", "again")
  /\ OpensSocket
  /\ UNCHANGED <<step, linkVars>>

\* The next command, or the end of the conversation after the fourth.
GoesOn ==
  /\ apc' = IF step = 4 THEN "again" ELSE "send"
  /\ step' = IF step = 4 THEN step ELSE step + 1
  /\ IF step = 4 THEN NoLink ELSE wire' = <<>> /\ UNCHANGED <<link, fcc>>
  /\ UNCHANGED <<tryVars, error, extracted>>

\* Mutated: the error of a conversation that broke is kept.
BreaksWithError ==
  /\ apc' = "again"
  /\ error' = TRUE
  /\ NoLink
  /\ UNCHANGED <<step, tryVars, extracted>>

\* The conversation breaks: the socket is closed and error set to 1, but both
\* ways out of the loop pass by the line that sets it to 0 again.
Breaks ==
  /\ apc' = "again"
  /\ error' = FALSE
  /\ NoLink
  /\ UNCHANGED <<step, tryVars, extracted>>

\* The command is sent; on a connection the FCC has closed that works too, and
\* a reset comes back, at once or later.
SendsCommand ==
  /\ apc = "send"
  /\ link \in {"up", "closed"}
  /\ IF link = "up"
     THEN fcc' = Append(fcc, Commands[step]) /\ UNCHANGED link
     ELSE link' \in {"closed", "reset"} /\ UNCHANGED fcc
  /\ IF NoReply(step)
     THEN apc' = "send" /\ step' = step + 1
     ELSE apc' = "recv" /\ UNCHANGED step
  /\ header' = <<>>
  /\ UNCHANGED <<wire, tryVars, error, extracted>>

\* send() <= 0: the connection was reset while nothing had been closed.
SendFails ==
  /\ apc = "send"
  /\ link = "up"
  /\ Breaks
  /\ header' = <<>>

\* recv() returns what has arrived.  An error in it breaks the conversation.
Receives ==
  /\ apc = "recv"
  /\ wire # <<>>
  /\ header' = wire
  /\ IF Head(wire) = "error"
     THEN Breaks
     ELSE GoesOn

\* Mutated: the socket has no time-out.
WaitsForever == FALSE /\ UNCHANGED aristarchosVars

\* Two seconds pass without a byte (SO_RCVTIMEO): the optional reply is given
\* up, any other one breaks the conversation.
TimesOut ==
  /\ apc = "recv"
  /\ wire = <<>>
  /\ link = "up"
  /\ IF OptionalReply(step) THEN GoesOn ELSE Breaks
  /\ UNCHANGED header

\* recv() <= 0 and no time-out: the FCC has hung up.
FindsClosed ==
  /\ apc = "recv"
  /\ wire = <<>>
  /\ link \in {"closed", "reset"}
  /\ Breaks
  /\ UNCHANGED header

\* send() on a connection that was closed, then reset, raises SIGPIPE, which
\* nothing catches: of all sends only that of RS follows another one with no
\* recv() between them.
Sigpipe == apc = "send" /\ link = "reset"

\* The inner loop: count < max_tries && error.
TriesAgain ==
  /\ apc = "again"
  /\ error
  /\ count < num_tries
  /\ apc' = "connect"
  /\ UNCHANGED <<tryVars, error, step, linkVars, header, extracted>>

EndsTrying ==
  /\ Goes("again", "decode")
  /\ ~(error /\ count < num_tries)
  /\ UNCHANGED <<tryVars, error, step, linkVars, header, extracted>>

-----------------------------------------------------------------------------
(* decode_message() and the outer loop.                                    *)

\* base64decode_len() - 1 and base64decode(), of n characters without padding.
DecodeLength(n) == ((n + 3) \div 4) * 3
DecodedBytes(n) == DecodeLength(n) - ((4 - (n % 4)) % 4)

\* A payload of p bytes comes as this many characters (base64encode()).
EncodedLength(p) == (4 * p + 2) \div 3

\* The bytes are compared with the length of a block without padding: a block
\* whose payload is not a multiple of three bytes counts as undecodable.
Base64Succeeds(p) ==
  DecodedBytes(EncodedLength(p)) = DecodeLength(EncodedLength(p))

\* "BF=" and, after it, ";": both ends of a block are in the buffer, and its
\* length is one that decodes.
HoldsBlock ==
  \E i, j \in 1..Len(header) :
    /\ i < j
    /\ header[i] = "head"
    /\ header[j] \in DOMAIN Payload
    /\ Base64Succeeds(Payload[header[j]])

\* Its buffers and counters are gone when the function returns.
Clears ==
  /\ apc' = "idle"
  /\ num_tries' = 0
  /\ ctry' = 0
  /\ count' = 0
  /\ connections' = 0
  /\ error' = FALSE
  /\ step' = 1
  /\ header' = <<>>

Returns == Clears /\ UNCHANGED linkVars

\* A line that has no '=' at its place is skipped; one without a comment ends the
\* extraction, and those before it are kept.
Extracts ==
  \E n \in 0..Len(FccHeaders) : \E at \in [1..n -> DOMAIN FccHeaders] :
    /\ \A i, j \in 1..n : i < j => at[i] < at[j]
    /\ extracted' = [i \in 1..n |-> FccHeaders[at[i]]]

\* bzip2 finds the block intact.
DecodeSucceeds ==
  /\ apc = "decode"
  /\ ~error
  /\ HoldsBlock
  /\ Returns
  /\ Extracts

\* Mutated: ctry <= num_tries.
DecodeFailsOnceMore ==
  /\ apc = "decode"
  /\ IF ctry <= num_tries
     THEN /\ apc' = "connect"
          /\ ctry' = ctry + 1
          /\ count' = 0
          /\ error' = TRUE
          /\ header' = <<>>
          /\ UNCHANGED <<num_tries, connections, step, linkVars>>
     ELSE Returns
  /\ UNCHANGED extracted

\* No block, half of one, or one that does not decode: the outer loop.
DecodeFails ==
  /\ apc = "decode"
  /\ IF ctry < num_tries
     THEN /\ apc' = "connect"
          /\ ctry' = ctry + 1
          /\ count' = 0
          /\ error' = TRUE
          /\ header' = <<>>
          /\ UNCHANGED <<num_tries, connections, step, linkVars>>
     ELSE Returns
  /\ UNCHANGED extracted

-----------------------------------------------------------------------------
(* The FCC (external).                                                     *)

FccKeepsRest == UNCHANGED <<apc, tryVars, error, step, link, header, extracted>>

\* It deals with the oldest command: what it need not answer it may answer,
\* RD it answers with the block, whose second half is on its way.
FccAnswers ==
  /\ link = "up"
  /\ fcc # <<>>
  /\ LET command == Head(fcc)
     IN  \/ /\ command \in {"RE ON", "RE OF"}
            /\ wire' \in {wire, Append(wire, "ack")}
            /\ fcc' = Tail(fcc)
         \/ /\ command = "RS"
            /\ wire' = Append(wire, "ack")
            /\ fcc' = Tail(fcc)
         \/ /\ command = "RD"
            /\ wire' = Append(wire, "head")
            /\ fcc' = <<"rest">> \o Tail(fcc)
         \/ /\ command = "rest"
            /\ \E half \in DOMAIN Payload : wire' = Append(wire, half)
            /\ fcc' = Tail(fcc)
         \/ /\ command # "rest"
            /\ wire' = Append(wire, "error")
            /\ fcc' = Tail(fcc)
  /\ FccKeepsRest

FccHangsUp ==
  /\ link = "up"
  /\ link' = "closed"
  /\ UNCHANGED <<apc, tryVars, error, step, wire, fcc, header, extracted>>

\* A step of get_aristarchos_headers(), once it is called.
AristarchosStep ==
  \/ Connects
  \/ ConnectFails
  \/ SendsCommand
  \/ SendFails
  \/ Receives
  \/ TimesOut
  \/ FindsClosed
  \/ TriesAgain
  \/ EndsTrying
  \/ DecodeSucceeds
  \/ DecodeFails

FccStep == FccAnswers \/ FccHangsUp
=============================================================================
