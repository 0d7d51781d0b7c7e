------------------------------ MODULE Transport ------------------------------
(***************************************************************************)
(* The connection lifecycle of transport/tcp.py (transport/serial.py is    *)
(* the same logic over a serial port).  The operators below are the pieces *)
(* of its methods between two awaits; ConsoleSession composes them into    *)
(* the steps of the one task that may use the transport at a time.         *)
(***************************************************************************)
EXTENDS ConsoleDevice

CONSTANTS
  MinDelay,   \* RECONNECT_MIN_SECONDS
  MaxDelay    \* RECONNECT_MAX_SECONDS

ASSUME DelayAssumption ==
  MinDelay \in Nat \ {0} /\ MaxDelay \in Nat /\ MinDelay <= MaxDelay

VARIABLES
  conn,        \* the owned writer: none, open, eof (the peer has closed its
               \* side, the writer is still open) or closing (a reset was seen)
  required,    \* _reconnect_required
  recovering,  \* _recovery_in_progress
  delay,       \* _reconnect_delay_seconds
  generation,  \* _connection_generation
  call,        \* the await the transport is suspended in
  request      \* the request of the exchange in progress

connectionVars == <<conn, generation>>
backoffVars    == <<required, recovering, delay>>
transportVars  == <<conn, required, recovering, delay, generation, call, request>>

TransportTypeOK ==
  /\ conn \in {"none", "open", "eof", "closing"}
  /\ required \in BOOLEAN
  /\ recovering \in BOOLEAN
  /\ delay \in Nat
  /\ generation \in Nat
  /\ call \in {"none", "connecting", "sleeping", "reconnecting", "exchanging"}
  /\ request \in Requests

TransportInit ==
  /\ conn = "none"
  /\ required = FALSE
  /\ recovering = FALSE
  /\ delay = MinDelay
  /\ generation = 0
  /\ call = "none"
  /\ request = "pwrsys"

IsConnected == conn \in {"open", "eof"}

Doubled == IF 2 * delay < MaxDelay THEN 2 * delay ELSE MaxDelay

(***************************************************************************)
(* connect() and _reconnect().  Both give up the old reader and writer     *)
(* before they open a new connection.                                      *)
(***************************************************************************)
\* ensure_connected() when there is no usable connection: suspended in the
\* reconnect delay, or in connect() when no failed exchange asked for one.
BeginEnsure ==
  /\ \/ required /\ call' = "sleeping" /\ UNCHANGED <<conn, wire>>
     \/ ~required /\ call' = "connecting" /\ conn' = "none" /\ DropAnswers
  /\ UNCHANGED <<backoffVars, generation>>

BeginConnect ==
  /\ call' = "connecting"
  /\ conn' = "none"
  /\ DropAnswers
  /\ UNCHANGED <<backoffVars, generation>>

\* The reconnect delay has passed.
WakeUp ==
  /\ call = "sleeping"
  /\ call' = "reconnecting"
  /\ conn' = "none"
  /\ UNCHANGED <<backoffVars, generation>>

Opening == call \in {"connecting", "reconnecting"}

\* Mutation of Opened: the generation is counted down.
OpenedBackwards ==
  /\ call \in {"connecting", "reconnecting"}
  /\ conn' = "open"
  /\ generation' = generation - 1
  /\ required' = FALSE
  /\ UNCHANGED <<recovering, delay>>

\* Mutation of Opened: _reconnect_required is not reset.
OpenedStillRequired ==
  /\ call \in {"connecting", "reconnecting"}
  /\ conn' = "open"
  /\ generation' = generation + 1
  /\ UNCHANGED <<backoffVars>>

Opened ==
  /\ Opening
  /\ conn' = "open"
  /\ generation' = generation + 1
  /\ required' = FALSE
  /\ UNCHANGED <<recovering, delay>>

\* Only _reconnect() notes the failure; connect() just raises.
OpenFailed ==
  /\ Opening
  /\ call' = "none"
  /\ \/ call = "reconnecting" /\ required' = TRUE /\ delay' = Doubled
     \/ call = "connecting" /\ UNCHANGED <<required, delay>>
  /\ UNCHANGED <<connectionVars, recovering>>

(***************************************************************************)
(* exchange().  Every caller has just ensured the connection, so the       *)
(* implicit reconnect at its head is not taken (NoImplicitReconnect).      *)
(***************************************************************************)
CanWrite(c) == c \in {"open", "eof"}

\* Write the request on connection gen; with the peer gone it reaches no one.
Write(cmd, c, gen) ==
  /\ call' = "exchanging"
  /\ request' = cmd
  /\ inbox' = IF c = "open" THEN Append(inbox, [cmd |-> cmd, gen |-> gen])
                            ELSE inbox

\* A complete response was read.
ExchangeOk ==
  /\ call = "exchanging"
  /\ wire # <<>>
  /\ wire' = Tail(wire)
  /\ recovering' = FALSE
  /\ delay' = MinDelay
  /\ UNCHANGED required

\* No answer can come any more: the peer is gone or the request was lost.
NoAnswerLeft ==
  /\ wire = <<>>
  /\ conn # "open" \/ \A i \in DOMAIN inbox : inbox[i].gen # generation

\* Mutation of ExchangeFailed: a failed exchange leaves the connection open.
ExchangeFailedKeepsConnection ==
  /\ call = "exchanging"
  /\ call' = "none"
  /\ UNCHANGED <<connectionVars, backoffVars, wire>>

\* Mutation of ExchangeFailed: every failure restarts the backoff.
ExchangeFailedRestarts ==
  /\ call = "exchanging"
  /\ call' = "none"
  /\ recovering' = TRUE
  /\ delay' = MinDelay
  /\ conn' = "none"
  /\ required' = TRUE
  /\ DropAnswers
  /\ UNCHANGED generation

\* _disconnect_after_failure(): a timeout, EOF, I/O or framing error.
ExchangeFailed ==
  /\ call = "exchanging"
  /\ call' = "none"
  /\ recovering' = TRUE
  /\ delay' = IF recovering THEN Doubled ELSE MinDelay
  /\ conn' = "none"
  /\ required' = TRUE
  /\ DropAnswers
  /\ UNCHANGED generation

Disconnect ==
  /\ required' = FALSE
  /\ recovering' = FALSE
  /\ delay' = MinDelay
  /\ conn' = "none"
  /\ DropAnswers
  /\ UNCHANGED generation

\* EXTERNAL.  The peer closes its side, or the connection is reset.
PeerGone ==
  /\ conn \in {"open", "eof"}
  /\ conn' \in {"eof", "closing"}
  /\ conn' # conn
  /\ UNCHANGED <<backoffVars, generation, call, request>>
=============================================================================
