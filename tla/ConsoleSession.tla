--------------------------- MODULE ConsoleSession ---------------------------
(***************************************************************************)
(* AuthenticatedConsoleClient of console_session.py over the transport,    *)
(* driven by the lifecycle of ServiceRuntime (main.py): connect and        *)
(* establish at startup, execute() for every polling command, and at       *)
(* shutdown the cancellation of the polling tasks, logout() and            *)
(* disconnect().                                                           *)
(*                                                                         *)
(* One operation runs at a time (the client's _lock), so its progress is   *)
(* one program counter.  A step is what runs between two awaits; the peer, *)
(* the console and the clock move in between.                              *)
(***************************************************************************)
EXTENDS Transport, Integers, FiniteSets

CONSTANT MaxFaults   \* bound on what the environment does wrong

ASSUME MaxFaultsAssumption == MaxFaults \in Nat

\* Only the operation establish() has that name.
ASSUME EstablishAssumption == "establish" \notin Commands

VARIABLES
  phase,     \* ServiceRuntime: where the service is in its life
  pc,        \* the await the operation in progress is suspended in
  target,    \* "establish", or the command execute() was called with
  health,    \* ConsoleSessionHealth, the error reduced to its presence
  verified,  \* _verified_generation
  outcome,   \* how the last execute() ended
  faults     \* faults so far

sessionVars == <<health, verified>>
vars == <<deviceVars, transportVars, phase, pc, target, health, verified,
          outcome, faults>>

NotVerified == -1

Health == [mode: {"user", "debug", "unknown"}, authenticated: BOOLEAN,
           error: BOOLEAN]

SessionTypeOK ==
  /\ phase \in {"new", "starting", "running", "failed", "stopping",
                "disconnecting", "stopped"}
  /\ pc \in {"idle", "connect", "ensure", "probe", "login", "command", "logout"}
  /\ target \in Acquisition \cup {"establish"}
  /\ health \in Health
  /\ verified \in Nat \cup {NotVerified}
  /\ outcome \in {"none", "ok", "failed"}
  /\ faults \in Nat

TypeOK ==
  /\ DeviceTypeOK
  /\ TransportTypeOK
  /\ SessionTypeOK

Init ==
  /\ DeviceInit
  /\ TransportInit
  /\ phase = "new"
  /\ pc = "idle"
  /\ target = "establish"
  /\ health = [mode |-> "unknown", authenticated |-> FALSE, error |-> FALSE]
  /\ verified = NotVerified
  /\ outcome = "none"
  /\ faults = 0

(***************************************************************************)
(* Pieces of the operations.                                               *)
(***************************************************************************)
MarkAuthenticated ==
  /\ health' = [mode |-> "debug", authenticated |-> TRUE, error |-> FALSE]
  /\ verified' = generation

MarkUnverified ==
  /\ health' = [mode |-> "unknown", authenticated |-> FALSE, error |-> TRUE]
  /\ verified' = NotVerified

\* The handlers of _establish_locked keep an error that is already there.
MarkUnverifiedUnlessError ==
  \/ health.error /\ UNCHANGED sessionVars
  \/ ~health.error /\ MarkUnverified

\* Mutation of LeftDebug: the generation stays verified.
LeftDebugStillVerified(mode) ==
  /\ health' = [mode |-> mode, authenticated |-> FALSE, error |-> TRUE]
  /\ UNCHANGED verified

LeftDebug(mode) ==
  /\ health' = [mode |-> mode, authenticated |-> FALSE, error |-> TRUE]
  /\ verified' = NotVerified

\* The operation ends: establish() is part of start(), execute() of polling.
Ends(result) ==
  /\ pc' = "idle"
  /\ call' = "none"
  /\ request' = request
  /\ inbox' = inbox
  /\ \/ /\ target = "establish"
        /\ phase' = IF result = "ok" THEN "running" ELSE "failed"
        /\ UNCHANGED outcome
     \/ target # "establish" /\ outcome' = result /\ UNCHANGED phase

Suspends(step, cmd, c, gen) ==
  /\ pc' = step
  /\ Write(cmd, c, gen)
  /\ UNCHANGED <<phase, outcome>>

\* Mutation of Proceeds: the generation is not compared after a reconnect.
ProceedsUnverified(goal, c, gen) ==
  \/ goal = "establish" /\ Suspends("probe", "pwrsys", c, gen)
  \/ goal # "establish" /\ Suspends("command", goal, c, gen)

\* execute() and establish() once the connection c of generation gen is up.
Proceeds(goal, c, gen) ==
  \/ goal = "establish" /\ Suspends("probe", "pwrsys", c, gen)
  \/ goal # "establish" /\ verified # gen /\ Suspends("probe", "pwrsys", c, gen)
  \/ goal # "establish" /\ verified = gen /\ Suspends("command", goal, c, gen)

\* The session is verified: establish() returns, execute() sends its command.
\* If the connection was reset meanwhile the write is refused.
Authenticated ==
  \/ target = "establish" /\ MarkAuthenticated /\ Ends("ok")
  \/ /\ target # "establish"
     /\ CanWrite(conn)
     /\ MarkAuthenticated
     /\ Suspends("command", target, conn, generation)
  \/ /\ target # "establish"
     /\ ~CanWrite(conn)
     /\ MarkUnverified
     /\ Ends("failed")

(***************************************************************************)
(* ServiceRuntime.start(): connect, then establish().                      *)
(***************************************************************************)
Start ==
  /\ phase = "new"
  /\ phase' = "starting"
  /\ pc' = "connect"
  /\ BeginConnect
  /\ UNCHANGED <<devMode, inbox, request, target, sessionVars, outcome, faults>>

\* The first connection is up and establish() sends its probe.
StartConnected ==
  /\ pc = "connect"
  /\ Opened
  /\ Proceeds("establish", "open", generation')
  /\ UNCHANGED <<devMode, wire, target, sessionVars, faults>>

\* start() catches the error and publishes OFFLINE; nothing tries again.
StartFails ==
  /\ pc = "connect"
  /\ faults < MaxFaults
  /\ OpenFailed
  /\ pc' = "idle"
  /\ phase' = "failed"
  /\ faults' = faults + 1
  /\ UNCHANGED <<deviceVars, request, target, sessionVars, outcome>>

(***************************************************************************)
(* execute(), called by the polling service.                               *)
(***************************************************************************)
ExecuteConnected(cmd) ==
  /\ phase = "running" /\ pc = "idle"
  /\ IsConnected /\ ~required
  /\ target' = cmd
  /\ \/ verified # generation /\ pc' = "probe" /\ Write("pwrsys", conn, generation)
     \/ verified = generation /\ pc' = "command" /\ Write(cmd, conn, generation)
  /\ outcome' = "none"
  /\ UNCHANGED <<connectionVars, backoffVars, devMode, wire, phase,
                 sessionVars, faults>>

ExecuteReconnects(cmd) ==
  /\ phase = "running" /\ pc = "idle"
  /\ ~(IsConnected /\ ~required)
  /\ target' = cmd
  /\ pc' = "ensure"
  /\ BeginEnsure
  /\ outcome' = "none"
  /\ UNCHANGED <<devMode, inbox, request, phase, sessionVars, faults>>

EnsureWakes ==
  /\ pc = "ensure"
  /\ WakeUp
  /\ UNCHANGED <<deviceVars, request, phase, pc, target, sessionVars, outcome,
                 faults>>

EnsureDone ==
  /\ pc = "ensure"
  /\ Opened
  /\ Proceeds(target, "open", generation')
  /\ UNCHANGED <<devMode, wire, target, sessionVars, faults>>

\* ensure_connected() is called outside execute()'s try: the health store
\* and _verified_generation keep what they said.
EnsureFails ==
  /\ pc = "ensure"
  /\ faults < MaxFaults
  /\ OpenFailed
  /\ pc' = "idle"
  /\ outcome' = "failed"
  /\ faults' = faults + 1
  /\ UNCHANGED <<deviceVars, request, phase, target, sessionVars>>

(***************************************************************************)
(* _establish_locked(): the probe and the login.                           *)
(***************************************************************************)
ExchangeFrame == UNCHANGED <<connectionVars, devMode, target, faults>>

ProbeConfirmsDebug ==
  /\ pc = "probe"
  /\ ExchangeOk
  /\ Head(wire).ok /\ Head(wire).mode = "debug"
  /\ Authenticated
  /\ ExchangeFrame

\* Mutation of ConfirmedUserMode: any refused probe counts as user mode.
AnyRefusal(answer) == ~answer.ok

\* Mutation of ConfirmedUserMode: only establish() logs in.
ConfirmedAtStartup(answer) ==
  answer.mode = "user" /\ answer.rejects /\ target = "establish"

ConfirmedUserMode(answer) == answer.mode = "user" /\ answer.rejects

ProbeConfirmsUser ==
  /\ pc = "probe"
  /\ ExchangeOk
  /\ ConfirmedUserMode(Head(wire))
  /\ \/ /\ CanWrite(conn)
        /\ Suspends("login", "login", conn, generation)
        /\ UNCHANGED sessionVars
     \/ /\ ~CanWrite(conn)
        /\ Ends("failed")
        /\ MarkUnverifiedUnlessError
  /\ ExchangeFrame

ProbeUndetermined ==
  /\ pc = "probe"
  /\ ExchangeOk
  /\ ~(Head(wire).ok /\ Head(wire).mode = "debug")
  /\ ~ConfirmedUserMode(Head(wire))
  /\ Ends("failed")
  /\ MarkUnverifiedUnlessError
  /\ ExchangeFrame

LoginAccepted ==
  /\ pc = "login"
  /\ ExchangeOk
  /\ Head(wire).ok /\ Head(wire).mode = "debug"
  /\ Authenticated
  /\ ExchangeFrame

LoginRefused ==
  /\ pc = "login"
  /\ ExchangeOk
  /\ ~(Head(wire).ok /\ Head(wire).mode = "debug")
  /\ LeftDebug(Head(wire).mode)
  /\ Ends("failed")
  /\ ExchangeFrame

(***************************************************************************)
(* The command itself.  Whether it succeeded is not looked at here.        *)
(***************************************************************************)
CommandAnswered ==
  /\ pc = "command"
  /\ ExchangeOk
  /\ \/ Head(wire).mode = "debug" /\ Ends("ok") /\ UNCHANGED sessionVars
     \/ /\ Head(wire).mode # "debug"
        /\ Ends("failed")
        /\ LeftDebug(Head(wire).mode)
  /\ ExchangeFrame

\* Mutation of ExchangeFails: execute() does not tell the health store.
ExchangeFailsUnnoticed ==
  /\ pc \in {"probe", "login", "command"}
  /\ ExchangeFailed
  /\ \/ NoAnswerLeft /\ UNCHANGED faults
     \/ faults < MaxFaults /\ faults' = faults + 1
  /\ Ends("failed")
  /\ \/ pc = "command" /\ UNCHANGED sessionVars
     \/ pc # "command" /\ MarkUnverifiedUnlessError
  /\ UNCHANGED <<devMode, target>>

\* Any exchange of establish() or execute() that ends without an answer, for
\* certain or because the environment was too slow or garbled it.
ExchangeFails ==
  /\ pc \in {"probe", "login", "command"}
  /\ ExchangeFailed
  /\ \/ NoAnswerLeft /\ UNCHANGED faults
     \/ faults < MaxFaults /\ faults' = faults + 1
  /\ Ends("failed")
  /\ \/ pc = "command" /\ MarkUnverified
     \/ pc # "command" /\ MarkUnverifiedUnlessError
  /\ UNCHANGED <<devMode, target>>

(***************************************************************************)
(* ServiceRuntime.stop(): the polling tasks are cancelled in whatever      *)
(* await they are in, then logout() and disconnect().  Cancellation is not *)
(* an Exception, so no handler of exchange() or execute() runs.            *)
(***************************************************************************)
Stop ==
  /\ phase \in {"running", "failed"}
  /\ phase' = "stopping"
  /\ pc' = "idle"
  /\ call' = "none"
  /\ UNCHANGED <<deviceVars, connectionVars, backoffVars, request, target,
                 sessionVars, outcome, faults>>

MayLogout ==
  /\ IsConnected
  /\ health.authenticated
  /\ health.mode = "debug"

Logout ==
  /\ phase = "stopping" /\ pc = "idle"
  /\ MayLogout
  /\ pc' = "logout"
  /\ Write("logout", conn, generation)
  /\ UNCHANGED <<connectionVars, backoffVars, devMode, wire, phase, target,
                 sessionVars, outcome, faults>>

LogoutSkipped ==
  /\ phase = "stopping" /\ pc = "idle"
  /\ ~MayLogout
  /\ phase' = "disconnecting"
  /\ UNCHANGED <<deviceVars, transportVars, pc, target, sessionVars, outcome,
                 faults>>

LogoutAnswered ==
  /\ pc = "logout"
  /\ ExchangeOk
  /\ \/ /\ Head(wire).ok /\ Head(wire).mode = "user"
        /\ health' = [mode |-> "user", authenticated |-> FALSE, error |-> FALSE]
        /\ verified' = NotVerified
     \/ ~(Head(wire).ok /\ Head(wire).mode = "user") /\ MarkUnverified
  /\ pc' = "idle"
  /\ call' = "none"
  /\ phase' = "disconnecting"
  /\ UNCHANGED <<inbox, request, outcome>>
  /\ ExchangeFrame

\* Mutation of LogoutFails: a logout without an answer is not given up.
LogoutHangs ==
  /\ pc = "logout"
  /\ ExchangeFailed
  /\ faults < MaxFaults /\ faults' = faults + 1
  /\ MarkUnverified
  /\ pc' = "idle"
  /\ phase' = "disconnecting"
  /\ UNCHANGED <<devMode, inbox, request, target, outcome>>

LogoutFails ==
  /\ pc = "logout"
  /\ ExchangeFailed
  /\ \/ NoAnswerLeft /\ UNCHANGED faults
     \/ faults < MaxFaults /\ faults' = faults + 1
  /\ MarkUnverified
  /\ pc' = "idle"
  /\ phase' = "disconnecting"
  /\ UNCHANGED <<devMode, inbox, request, target, outcome>>

Disconnects ==
  /\ phase = "disconnecting"
  /\ Disconnect
  /\ phase' = "stopped"
  /\ UNCHANGED <<devMode, inbox, call, request, pc, target, sessionVars,
                 outcome, faults>>

(***************************************************************************)
(* EXTERNAL.  The console, the peer and the connection.                    *)
(***************************************************************************)
EnvironmentFrame ==
  UNCHANGED <<phase, pc, target, sessionVars, outcome>>

ConsoleAnswers ==
  /\ inbox # <<>>
  /\ Execute(Reply(Head(inbox), devMode), generation, conn = "open")
  /\ UNCHANGED <<transportVars, faults>>
  /\ EnvironmentFrame

ConsoleAnswersOddly ==
  /\ faults < MaxFaults
  /\ inbox # <<>>
  /\ Execute(OddReply(Head(inbox), devMode), generation, conn = "open")
  /\ faults' = faults + 1
  /\ UNCHANGED transportVars
  /\ EnvironmentFrame

ConsoleFallsBack ==
  /\ faults < MaxFaults
  /\ FallBack
  /\ faults' = faults + 1
  /\ UNCHANGED transportVars
  /\ EnvironmentFrame

PeerLeaves ==
  /\ faults < MaxFaults
  /\ PeerGone
  /\ faults' = faults + 1
  /\ UNCHANGED deviceVars
  /\ EnvironmentFrame

Program ==
  \/ Start \/ StartConnected \/ StartFails
  \/ \E cmd \in Acquisition : ExecuteConnected(cmd) \/ ExecuteReconnects(cmd)
  \/ EnsureWakes \/ EnsureDone \/ EnsureFails
  \/ ProbeConfirmsDebug \/ ProbeConfirmsUser \/ ProbeUndetermined
  \/ LoginAccepted \/ LoginRefused
  \/ CommandAnswered \/ ExchangeFails

Shutdown ==
  Logout \/ LogoutSkipped \/ LogoutAnswered \/ LogoutFails \/ Disconnects

Terminated == phase = "stopped" /\ UNCHANGED vars

Environment ==
  ConsoleAnswers \/ ConsoleAnswersOddly \/ ConsoleFallsBack \/ PeerLeaves

Next == Program \/ Stop \/ Shutdown \/ Environment \/ Terminated

Spec == Init /\ [][Next]_vars

\* The event loop keeps running the service's task, the polling loops keep
\* calling execute(), and the console answers what it has received.
FairSpec ==
  /\ Spec
  /\ WF_vars(Program)
  /\ WF_vars(Shutdown)
  /\ WF_vars(ConsoleAnswers)

(***************************************************************************)
(* Properties.                                                             *)
(***************************************************************************)
\* A polling command is only ever outstanding on the very connection whose
\* debug mode was verified, and the health store says so (execute 84-106).
CommandsOnVerifiedSession ==
  pc = "command" =>
    /\ verified = generation
    /\ health = [mode |-> "debug", authenticated |-> TRUE, error |-> FALSE]

\* `login' is not idempotent: the console never executes one in debug mode,
\* whatever timed out, was reset or answered late on earlier connections.
LoginOnlyInUserMode ==
  inbox # <<>> /\ Head(inbox).cmd = "login" => devMode = "user"

\* The answer an exchange of the running service reads is the answer to its
\* own request, never the late one of an exchange that was given up.
AnswerBelongsToRequest ==
  phase \in {"starting", "running"} /\ call = "exchanging" /\ wire # <<>>
    => Head(wire).cmd = request /\ Head(wire).gen = generation

\* Requests written on the current connection that are not answered, and
\* answers that were not read.
OutstandingOnConnection ==
  Cardinality({i \in DOMAIN inbox : inbox[i].gen = generation}) +
  Cardinality({i \in DOMAIN wire : wire[i].gen = generation})

\* "Only one console command may be outstanding on a connection at a time."
OneOutstanding == conn # "none" => OutstandingOnConnection <= 1

\* While the polling tasks are not cancelled it is so.
OneOutstandingWhileServing ==
  phase \in {"starting", "running"} => OneOutstanding

\* The health store and the client's own _verified_generation never disagree
\* about whether there is an authenticated session.
HealthFollowsVerification ==
  health.authenticated <=> verified # NotVerified

\* exchange() never takes its implicit reconnect: the session would then
\* write a command on a connection it has not verified.
NoImplicitReconnect == call = "exchanging" => ~required

\* The reconnect delay stays within 1 to 30 seconds and is above the minimum
\* only while a recovery is in progress.
BackoffBounded ==
  /\ delay \in MinDelay..MaxDelay
  /\ delay > MinDelay => recovering

\* No failure shortens the delay: only a successful exchange, or disconnect().
BackoffGrows == [][recovering' => delay' >= delay]_vars

\* A running service always gets its commands answered again.
ServiceRecovers == phase = "running" ~> (outcome = "ok" \/ phase = "stopping")

\* A service that is not being stopped eventually polls.
ServiceStarts == <>(outcome = "ok" \/ phase = "stopping")

\* A logout that fails does not keep the process from ending.
StopCompletes == phase = "stopping" ~> phase = "stopped"

(***************************************************************************)
(* What is left of the session for those who use it.                       *)
(***************************************************************************)
Life ==
  CASE phase \in {"new", "starting"}           -> "starting"
    [] phase = "running"                       -> "serving"
    [] phase = "failed"                        -> "failed"
    [] phase \in {"stopping", "disconnecting"} -> "stopping"
    [] phase = "stopped"                       -> "stopped"

Stage ==
  CASE pc = "command" -> "sent"
    [] pc \in {"ensure", "probe", "login"} /\ target # "establish" -> "asked"
    [] OTHER -> "none"

Session == INSTANCE AbstractSession
  WITH life <- Life, authenticated <- health.authenticated, stage <- Stage

\* Connections, probes, logins and their failures are invisible to polling and
\* the outputs: a command is sent in an authenticated session only, a failed
\* one ends it, and every call of execute() ends.
ImplementsSession == Session!Spec

(***************************************************************************)
(* The inductive invariant behind the safety properties.                   *)
(***************************************************************************)
\* Where an operation stands determines what the transport is doing for it.
ControlInv ==
  /\ pc = "idle" => call = "none"
  /\ pc = "connect" => call = "connecting" /\ phase = "starting"
  /\ pc = "ensure" =>
       call \in {"connecting", "sleeping", "reconnecting"} /\ phase = "running"
  /\ pc = "probe" => call = "exchanging" /\ request = "pwrsys"
  /\ pc = "login" => call = "exchanging" /\ request = "login"
  /\ pc = "command" =>
       call = "exchanging" /\ request = target /\ phase = "running"
  /\ pc = "logout" => call = "exchanging" /\ phase = "stopping"
  /\ pc \in {"probe", "login"} => phase \in {"starting", "running"}
  /\ pc \in {"ensure", "command"} => target # "establish"
  /\ phase \in {"new", "starting"} => target = "establish"
  /\ phase \in {"new", "disconnecting", "stopped"} => pc = "idle"
  /\ pc \in {"probe", "login"} /\ phase = "running" => target # "establish"

\* A failed exchange has closed the connection and started a recovery.
ConnectionInv ==
  /\ required => conn = "none" /\ recovering
  /\ call = "exchanging" => conn # "none" /\ ~required
  /\ call \in {"connecting", "reconnecting"} => conn = "none"
  /\ call \in {"sleeping", "reconnecting"} => required
  /\ phase = "new" => conn = "none"

HealthInv ==
  /\ verified # NotVerified =>
       health = [mode |-> "debug", authenticated |-> TRUE, error |-> FALSE]
  /\ health.authenticated => verified # NotVerified
  /\ pc = "command" => verified = generation

\* When answers do not outlive their connection: the console has at most one
\* request of the serving connection, behind all older ones.
ChannelInv ==
  /\ \A i \in DOMAIN inbox : inbox[i].gen <= generation
  /\ conn = "none" => wire = <<>>
  /\ phase \in {"starting", "running"} /\ conn # "none" =>
       /\ Len(wire) <= 1
       /\ \A i \in DOMAIN inbox : inbox[i].gen = generation =>
            i = Len(inbox) /\ call = "exchanging" /\ inbox[i].cmd = request
       /\ wire # <<>> =>
            /\ inbox = <<>>
            /\ call = "exchanging"
            /\ Head(wire).cmd = request
            /\ Head(wire).gen = generation
            /\ Head(wire).mode = "user" => devMode = "user"

LoginInv ==
  \A i \in DOMAIN inbox : inbox[i].cmd = "login" => i = 1 /\ devMode = "user"

\* Everything the safety properties rest on; ConsoleSession_proofs proves it for
\* every value of the constants.
SessionInv ==
  /\ ControlInv
  /\ ConnectionInv
  /\ BackoffBounded
  /\ HealthInv
  /\ ~LateAnswers => ChannelInv /\ LoginInv
=============================================================================
