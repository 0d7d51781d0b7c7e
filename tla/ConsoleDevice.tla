---------------------------- MODULE ConsoleDevice ----------------------------
(***************************************************************************)
(* EXTERNAL.  The Pylontech console behind the Waveshare gateway (or the   *)
(* USB adapter), as src/ uses it: a line-oriented command console with a   *)
(* user mode and a debug mode, which answers the requests it receives one  *)
(* at a time and in order.  The answers are modelled from what             *)
(* console_session.py and framing/console.py distinguish: the prompt, the  *)
(* completion line and the exact user-mode rejection of `pwrsys'.          *)
(*                                                                         *)
(* A request keeps the generation of the connection it was written on.     *)
(* Closing a connection does not take back what the console has received:  *)
(* it may still execute it.  What happens to the answer of such a request  *)
(* is the environment's choice, made by the constant LateAnswers.          *)
(***************************************************************************)
EXTENDS Naturals, Sequences

CONSTANTS
  Commands,     \* the read-only acquisition commands other than pwrsys
  LateAnswers   \* TRUE: an answer may be delivered on a later connection

ASSUME CommandsAssumption ==
  {"pwrsys", "login", "logout"} \cap Commands = {}

ASSUME LateAnswersAssumption == LateAnswers \in BOOLEAN

Acquisition == Commands \cup {"pwrsys"}
Requests    == Acquisition \cup {"login", "logout"}

VARIABLES
  devMode,   \* the console's own mode
  inbox,     \* requests the console has received and not yet answered
  wire       \* answers on their way to the connection's reader

deviceVars == <<devMode, inbox, wire>>

Request == [cmd: Requests, gen: Nat]

Answer == [cmd: Requests, gen: Nat, ok: BOOLEAN, mode: {"user", "debug"},
           rejects: BOOLEAN]

DeviceTypeOK ==
  /\ devMode \in {"user", "debug"}
  /\ inbox \in Seq(Request)
  /\ wire \in Seq(Answer)

DeviceInit ==
  /\ devMode \in {"user", "debug"}   \* an earlier session may have left debug on
  /\ inbox = <<>>
  /\ wire = <<>>

(***************************************************************************)
(* Reply is the usual answer to a request and NextMode the mode it leaves  *)
(* the console in.  `login' succeeds only in user mode: in debug mode the  *)
(* console answers `Quit current mode', fails, and stays in debug mode.    *)
(***************************************************************************)
NextMode(cmd, mode) ==
  CASE cmd = "login"  -> "debug"
    [] cmd = "logout" -> "user"
    [] OTHER          -> mode

Reply(req, mode) ==
  [cmd |-> req.cmd, gen |-> req.gen, mode |-> NextMode(req.cmd, mode),
   ok |-> IF req.cmd = "login" THEN mode = "user" ELSE mode = "debug",
   rejects |-> req.cmd = "pwrsys" /\ mode = "user"]

\* A refused login, a failed command, or a rejection in other words.
OddReply(req, mode) ==
  [cmd |-> req.cmd, gen |-> req.gen, mode |-> mode, ok |-> FALSE,
   rejects |-> FALSE]

\* The request at the head of the inbox is executed and `reply' is its answer,
\* delivered on the connection `gen' if that is up or kept for a later one.
Execute(reply, gen, up) ==
  /\ inbox # <<>>
  /\ devMode' = reply.mode
  /\ inbox' = Tail(inbox)
  /\ wire' = IF LateAnswers \/ (up /\ reply.gen = gen)
               THEN Append(wire, reply) ELSE wire

\* The battery console restarts, or leaves debug mode by itself; a restart
\* may lose what it had not executed.
FallBack ==
  /\ devMode' = "user"
  /\ inbox' = inbox \/ inbox' = <<>>
  /\ UNCHANGED wire

\* What a closed connection leaves of the answers not yet read.
DropAnswers == wire' = <<>> \/ (LateAnswers /\ wire' = wire)
=============================================================================
