-------------------------------- MODULE Framing --------------------------------
(***************************************************************************)
(* read_console_exchange() of framing/console.py: the bytes of one         *)
(* exchange arrive in chunks cut anywhere, and after each chunk the reader *)
(* looks for the start marker, the end marker and the prompt behind it.    *)
(*                                                                         *)
(* A byte is one of the following, the words of the two prompts and of the *)
(* confirmation line being taken as one byte each, since nothing looks     *)
(* inside them: pylon>, pylon_debug> and Command completed successfully    *)
(* are <<"pylon", ">">>, <<"pylon", "_debug", ">">> and <<"done">>.        *)
(***************************************************************************)
EXTENDS Naturals, Sequences, FiniteSetsExt

LineEnds == {"CR", "LF"}

Bytes == LineEnds \cup
  {"@", "$", "pylon", "_debug", ">", "done", "text", "non-ASCII"}

CONSTANTS
  Streams,    \* what the peer may send in answer to one command
  MaxBytes,   \* max_exchange_bytes
  MaxChunk    \* READ_CHUNK_BYTES

ASSUME StreamsAssumption == Streams \subseteq Seq(Bytes)
ASSUME SizesAssumption == MaxBytes \in Nat /\ MaxChunk \in Nat \ {0}

VARIABLES
  stream,   \* all the peer sends before it falls silent or closes
  got,      \* how much of it has been received
  end,      \* end_index, 0 for none: found once, never looked for again
  result    \* what the reader returned or raised

vars == <<stream, got, end, result>>

Waiting == [kind |-> "waiting"]

Raised(error) == [kind |-> error]

Exchange == [kind: {"exchange"}, payload: Seq(Bytes), mode: {"user", "debug"},
             succeeded: BOOLEAN]

TypeOK ==
  /\ stream \in Seq(Bytes)
  /\ got \in 0..Len(stream)
  /\ end \in 0..got
  /\ result \in Exchange \cup {Waiting} \cup
       {Raised(e) : e \in {"too large", "encoding", "incomplete", "timeout"}}

(***************************************************************************)
(* What the reader looks for in the bytes it has.                          *)
(***************************************************************************)
FirstOf(S) == IF S = {} THEN 0 ELSE Min(S)

\* Mutation of FindResponseStart: any @ is the start marker.
AnyAtSign(bytes) == FirstOf({i \in DOMAIN bytes : bytes[i] = "@"})

\* A start marker at the very start, or alone on its line as far as the bytes
\* received tell.
FindResponseStart(bytes) ==
  FirstOf({i \in DOMAIN bytes :
             /\ bytes[i] = "@"
             /\ i > 1 => /\ bytes[i - 1] \in LineEnds
                         /\ i < Len(bytes) => bytes[i + 1] \in LineEnds})

\* The first end marker behind position `start'.
FindEnd(bytes, start) ==
  FirstOf({i \in DOMAIN bytes :
             i > start /\ i < Len(bytes) /\ bytes[i] = "$" /\ bytes[i + 1] = "$"})

\* Mutation of Stripped: the line ends stay.
Unstripped(bytes) == bytes

\* Without the line ends at both ends.
Stripped(bytes) ==
  LET content == {i \in DOMAIN bytes : bytes[i] \notin LineEnds}
  IN  IF content = {} THEN <<>> ELSE SubSeq(bytes, Min(content), Max(content))

PromptMode(trailing) ==
  CASE trailing = <<"pylon", "_debug", ">">> -> "debug"
    [] trailing = <<"pylon", ">">>           -> "user"
    [] OTHER                                 -> "none"

\* Without one line end, CR LF counting as one, in front and behind.
Leading(bytes) ==
  CASE Len(bytes) > 1 /\ SubSeq(bytes, 1, 2) = <<"CR", "LF">> -> 2
    [] Len(bytes) > 0 /\ bytes[1] \in LineEnds -> 1
    [] OTHER -> 0

Trailing(bytes) ==
  LET n == Len(bytes)
  IN  CASE n > 1 /\ SubSeq(bytes, n - 1, n) = <<"CR", "LF">> -> 2
        [] n > 0 /\ bytes[n] \in LineEnds -> 1
        [] OTHER -> 0

Trimmed(bytes) ==
  LET rest == SubSeq(bytes, 1 + Leading(bytes), Len(bytes))
  IN  SubSeq(rest, 1, Len(rest) - Trailing(rest))

\* The last line that is not blank is the confirmation.
Succeeded(payload) ==
  \E i \in DOMAIN payload :
    /\ payload[i] = "done"
    /\ i > 1 => payload[i - 1] \in LineEnds
    /\ \A j \in i + 1..Len(payload) : payload[j] \in LineEnds

IsAscii(bytes) == \A i \in DOMAIN bytes : bytes[i] # "non-ASCII"

(***************************************************************************)
(* The reader.                                                             *)
(***************************************************************************)
Init ==
  /\ stream \in Streams
  /\ got = 0
  /\ end = 0
  /\ result = Waiting

\* One pass of the loop over the bytes received so far, the markers at
\* `start' and `last' (0 for not found), `fresh' if the end is newly found.
Pass(bytes, start, last, fresh) ==
  LET mode    == PromptMode(Stripped(SubSeq(bytes, last + 2, Len(bytes))))
      payload == Trimmed(SubSeq(bytes, start + 1, last - 1))
  IN  CASE fresh /\ last + 1 > MaxBytes -> Raised("too large")
        [] fresh /\ last + 1 <= MaxBytes /\ ~IsAscii(SubSeq(bytes, 1, last + 1)) ->
             Raised("encoding")
        [] OTHER ->
             IF last > 0 /\ mode # "none"
               THEN [kind |-> "exchange", payload |-> payload, mode |-> mode,
                     succeeded |-> Succeeded(payload)]
             ELSE IF Len(bytes) > MaxBytes THEN Raised("too large")
             ELSE Waiting

\* A chunk of n bytes arrives.
Receive(n) ==
  /\ result = Waiting
  /\ got + n <= Len(stream)
  /\ got' = got + n
  /\ LET bytes == SubSeq(stream, 1, got')
         start == FindResponseStart(bytes)
     IN  /\ end' = IF end = 0 /\ start > 0 THEN FindEnd(bytes, start) ELSE end
         /\ result' = Pass(bytes, start, end', end = 0 /\ end' > 0)
  /\ UNCHANGED stream

\* The peer closes, or the transport's timeout expires.
GivesUp ==
  /\ result = Waiting
  /\ got = Len(stream)
  /\ result' \in {Raised("incomplete"), Raised("timeout")}
  /\ UNCHANGED <<stream, got, end>>

Terminated == result # Waiting /\ UNCHANGED vars

Next == (\E n \in 1..MaxChunk : Receive(n)) \/ GivesUp \/ Terminated

Spec == Init /\ [][Next]_vars

(***************************************************************************)
(* Properties.                                                             *)
(***************************************************************************)
\* The response in a whole stream: its markers, with nothing left to arrive.
StartOf(s) ==
  FirstOf({i \in DOMAIN s :
             s[i] = "@" /\ (i = 1 \/ (/\ s[i - 1] \in LineEnds
                                      /\ i < Len(s) /\ s[i + 1] \in LineEnds))})

EndOf(s) ==
  FirstOf({i \in 1..Len(s) - 1 : StartOf(s) # 0 /\ i > StartOf(s)
                                 /\ s[i] = "$" /\ s[i + 1] = "$"})

Behind(s) == SubSeq(s, EndOf(s) + 2, Len(s))

\* A whole stream that is one exchange, within the limit: nothing but line
\* ends stands around the prompt.
IsExchange(s) ==
  /\ EndOf(s) # 0
  /\ \A i \in DOMAIN s : s[i] # "non-ASCII"
  /\ Len(s) <= MaxBytes
  /\ LET behind == Behind(s)
     IN  \E i, j \in DOMAIN behind :
           /\ SubSeq(behind, i, j) \in {<<"pylon", ">">>, <<"pylon", "_debug", ">">>}
           /\ \A k \in DOMAIN behind \ (i..j) : behind[k] \in LineEnds

\* However the bytes are cut, an exchange that is returned is the first
\* response of the whole stream, with the prompt that directly follows it: no
\* cut makes a reader take an echo, a part of a marker or of a prompt for it.
AnswerIsTheFirstResponse ==
  result.kind = "exchange" =>
    LET behind == Behind(stream)
        prompt == IF result.mode = "user" THEN <<"pylon", ">">>
                                          ELSE <<"pylon", "_debug", ">">>
        between == SubSeq(stream, StartOf(stream) + 1, EndOf(stream) - 1)
    IN  /\ EndOf(stream) # 0
        /\ result.payload = Trimmed(between)
        /\ \E i \in 0..Len(behind) :
             /\ \A j \in 1..i : behind[j] \in LineEnds
             /\ SubSeq(behind, i + 1, i + Len(prompt)) = prompt

\* However the bytes are cut, one complete exchange is never refused, and is
\* returned when its last byte is there at the latest.
CompleteIsAccepted ==
  IsExchange(stream) =>
    /\ result.kind \in {"waiting", "exchange"}
    /\ got = Len(stream) => result.kind = "exchange"
=============================================================================
