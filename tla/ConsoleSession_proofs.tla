------------------------ MODULE ConsoleSession_proofs ------------------------
(***************************************************************************)
(* The safety properties of ConsoleSession, for every set of commands,     *)
(* every pair of reconnect delays and any number of faults.  Each conjunct *)
(* of the inductive invariant has a lemma of its own, with one step per    *)
(* action of Next.                                                         *)
(***************************************************************************)
EXTENDS ConsoleSession, SequenceTheorems, FiniteSetTheorems, TLAPS

(***************************************************************************)
(* Types.                                                                  *)
(***************************************************************************)
\* What a closed connection leaves is still a sequence of answers.
LEMMA DropAnswersType ==
  ASSUME DeviceTypeOK, DropAnswers
  PROVE  wire' \in Seq(Answer)
BY EmptySeq DEF DropAnswers, DeviceTypeOK

\* Writing a request appends a request.
LEMMA WriteType ==
  ASSUME DeviceTypeOK, NEW cmd \in Requests, NEW c, NEW gen \in Nat,
         Write(cmd, c, gen)
  PROVE  inbox' \in Seq(Request)
<1>1. [cmd |-> cmd, gen |-> gen] \in Request
  BY DEF Request
<1>2. QED
  BY <1>1 DEF Write, DeviceTypeOK

\* A completed exchange consumes one answer.
LEMMA ExchangeOkType ==
  ASSUME DeviceTypeOK, ExchangeOk
  PROVE  /\ wire' \in Seq(Answer)
         /\ Head(wire) \in Answer
BY DEF ExchangeOk, DeviceTypeOK

\* The console's step keeps the types of its channels.
LEMMA ExecuteType ==
  ASSUME DeviceTypeOK, inbox # <<>>, NEW reply \in Answer, NEW gen, NEW up,
         Execute(reply, gen, up)
  PROVE  DeviceTypeOK'
<1>1. reply.mode \in {"user", "debug"}
  BY DEF Answer
<1>2. QED
  BY <1>1 DEF Execute, DeviceTypeOK

\* Both kinds of reply are answers.
LEMMA ReplyType ==
  ASSUME NEW req \in Request, NEW mode \in {"user", "debug"}
  PROVE  Reply(req, mode) \in Answer /\ OddReply(req, mode) \in Answer
BY DEF Request, Answer, Reply, OddReply, NextMode

\* The types of what the client itself stores.
SessionTypes == health \in Health /\ verified \in Nat \cup {NotVerified}

\* What the client stores in the health store is a health record.
LEMMA MarkType ==
  ASSUME TypeOK
  PROVE  /\ MarkAuthenticated => SessionTypes'
         /\ MarkUnverified => SessionTypes'
         /\ MarkUnverifiedUnlessError => SessionTypes'
         /\ \A answer \in Answer : LeftDebug(answer.mode) => SessionTypes'
<1> USE DEF SessionTypes, Health
<1>1. MarkAuthenticated => SessionTypes'
  BY DEF TypeOK, TransportTypeOK, MarkAuthenticated
<1>2. MarkUnverified => SessionTypes'
  BY DEF MarkUnverified
<1>3. MarkUnverifiedUnlessError => SessionTypes'
  BY <1>2 DEF MarkUnverifiedUnlessError, sessionVars, TypeOK, SessionTypeOK
<1>4. ASSUME NEW answer \in Answer, LeftDebug(answer.mode)
      PROVE  SessionTypes'
  BY <1>4 DEF LeftDebug, Answer
<1>5. QED
  BY <1>1, <1>2, <1>3, <1>4

\* The channels stay sequences of requests and of answers.
LEMMA DeviceTypeStep ==
  ASSUME TypeOK, [Next]_vars
  PROVE  DeviceTypeOK'
<1> USE DropAnswersType, WriteType, ExchangeOkType DEF TypeOK, DeviceTypeOK,
       TransportTypeOK, SessionTypeOK, Requests, Acquisition
<1>1. CASE Start
  BY <1>1 DEF Start, BeginConnect, sessionVars, backoffVars
<1>2. CASE StartConnected
  <2>1. Write("pwrsys", "open", generation') /\ generation' \in Nat
    BY <1>2 DEF StartConnected, Proceeds, Suspends, Opened
  <2>2. QED
    BY <2>1, <1>2 DEF StartConnected
<1>3. CASE StartFails
  BY <1>3 DEF StartFails, OpenFailed, deviceVars, sessionVars, Opening,
         connectionVars
<1>4. ASSUME NEW cmd \in Acquisition, ExecuteConnected(cmd)
      PROVE  DeviceTypeOK'
  BY <1>4 DEF ExecuteConnected, IsConnected, connectionVars, backoffVars,
         sessionVars
<1>5. ASSUME NEW cmd \in Acquisition, ExecuteReconnects(cmd)
      PROVE  DeviceTypeOK'
  BY <1>5 DEF ExecuteReconnects, IsConnected, BeginEnsure, sessionVars,
         backoffVars
<1>6. CASE EnsureWakes
  BY <1>6 DEF EnsureWakes, WakeUp, deviceVars, sessionVars, backoffVars
<1>7. CASE EnsureDone
  <2>1. PICK cmd \in Requests : Write(cmd, "open", generation')
    BY <1>7 DEF EnsureDone, Proceeds, Suspends
  <2>2. generation' \in Nat
    BY <1>7 DEF EnsureDone, Opened
  <2>3. QED
    BY <2>1, <2>2, <1>7 DEF EnsureDone
<1>8. CASE EnsureFails
  BY <1>8 DEF EnsureFails, OpenFailed, deviceVars, sessionVars, Opening,
         connectionVars
<1>9. CASE ProbeConfirmsDebug
  BY <1>9 DEF ProbeConfirmsDebug, Authenticated, ExchangeFrame, Ends,
         CanWrite, Suspends, connectionVars
<1>10. CASE ProbeConfirmsUser
  BY <1>10 DEF ProbeConfirmsUser, CanWrite, Suspends, sessionVars, Ends,
         ExchangeFrame, connectionVars
<1>11. CASE ProbeUndetermined
  BY <1>11 DEF ProbeUndetermined, Ends, ExchangeFrame, connectionVars
<1>12. CASE LoginAccepted
  BY <1>12 DEF LoginAccepted, Authenticated, ExchangeFrame, Ends, CanWrite,
         Suspends, connectionVars
<1>13. CASE LoginRefused
  BY <1>13 DEF LoginRefused, Ends, ExchangeFrame, connectionVars
<1>14. CASE CommandAnswered
  BY <1>14 DEF CommandAnswered, Ends, sessionVars, ExchangeFrame,
         connectionVars
<1>15. CASE ExchangeFails
  BY <1>15 DEF ExchangeFails, ExchangeFailed, Ends
<1>16. CASE Stop
  BY <1>16 DEF Stop, deviceVars, connectionVars, backoffVars, sessionVars
<1>17. CASE Logout
  BY <1>17 DEF Logout, connectionVars, backoffVars, sessionVars
<1>18. CASE LogoutSkipped
  BY <1>18 DEF LogoutSkipped, deviceVars, transportVars, sessionVars
<1>19. CASE LogoutAnswered
  BY <1>19 DEF LogoutAnswered, NotVerified, ExchangeFrame, connectionVars
<1>20. CASE LogoutFails
  BY <1>20 DEF LogoutFails, ExchangeFailed
<1>21. CASE Disconnects
  BY <1>21 DEF Disconnects, Disconnect, sessionVars
<1>22. CASE ConsoleAnswers
  BY <1>22, ExecuteType, ReplyType DEF ConsoleAnswers, transportVars,
         EnvironmentFrame, sessionVars
<1>23. CASE ConsoleAnswersOddly
  BY <1>23, ExecuteType, ReplyType DEF ConsoleAnswersOddly, transportVars,
         EnvironmentFrame, sessionVars
<1>24. CASE ConsoleFallsBack
  BY <1>24, EmptySeq DEF ConsoleFallsBack, FallBack, transportVars,
         EnvironmentFrame, sessionVars
<1>25. CASE PeerLeaves
  BY <1>25 DEF PeerLeaves, PeerGone, deviceVars, EnvironmentFrame,
         backoffVars, sessionVars
<1>26. CASE UNCHANGED vars
  BY <1>26 DEF vars, deviceVars, transportVars
<1>27. QED
  BY <1>1, <1>2, <1>3, <1>4, <1>5, <1>6, <1>7, <1>8, <1>9, <1>10, <1>11,
         <1>12, <1>13, <1>14, <1>15, <1>16, <1>17, <1>18, <1>19, <1>20, <1>21,
         <1>22, <1>23, <1>24, <1>25, <1>26 DEF Next, Program, Shutdown,
         Environment, Terminated

\* The two flags of the transport stay flags.
LEMMA FlagStep ==
  ASSUME TypeOK, [Next]_vars
  PROVE  required' \in BOOLEAN /\ recovering' \in BOOLEAN
<1> USE DEF TypeOK, TransportTypeOK
<1>1. CASE Start
  BY <1>1 DEF Start, BeginConnect, sessionVars, backoffVars
<1>2. CASE StartConnected
  BY <1>2 DEF StartConnected, Opened, Proceeds, sessionVars, Opening,
         Suspends, Write
<1>3. CASE StartFails
  BY <1>3 DEF StartFails, OpenFailed, deviceVars, sessionVars, Opening,
         connectionVars
<1>4. ASSUME NEW cmd \in Acquisition, ExecuteConnected(cmd)
      PROVE  required' \in BOOLEAN /\ recovering' \in BOOLEAN
  BY <1>4 DEF ExecuteConnected, Write, connectionVars, backoffVars,
         sessionVars
<1>5. ASSUME NEW cmd \in Acquisition, ExecuteReconnects(cmd)
      PROVE  required' \in BOOLEAN /\ recovering' \in BOOLEAN
  BY <1>5 DEF ExecuteReconnects, BeginEnsure, sessionVars, backoffVars
<1>6. CASE EnsureWakes
  BY <1>6 DEF EnsureWakes, WakeUp, deviceVars, sessionVars, backoffVars
<1>7. CASE EnsureDone
  BY <1>7 DEF EnsureDone, Opened, Proceeds, sessionVars, Opening, Suspends,
         Write
<1>8. CASE EnsureFails
  BY <1>8 DEF EnsureFails, OpenFailed, deviceVars, sessionVars, Opening,
         connectionVars
<1>9. CASE ProbeConfirmsDebug
  BY <1>9 DEF ProbeConfirmsDebug, ExchangeOk, Authenticated, ExchangeFrame,
         Ends, Suspends, connectionVars, Write
<1>10. CASE ProbeConfirmsUser
  BY <1>10 DEF ProbeConfirmsUser, ExchangeOk, Suspends, sessionVars, Ends,
         ExchangeFrame, Write, connectionVars
<1>11. CASE ProbeUndetermined
  BY <1>11 DEF ProbeUndetermined, ExchangeOk, Ends, ExchangeFrame,
         connectionVars
<1>12. CASE LoginAccepted
  BY <1>12 DEF LoginAccepted, ExchangeOk, Authenticated, ExchangeFrame, Ends,
         Suspends, connectionVars, Write
<1>13. CASE LoginRefused
  BY <1>13 DEF LoginRefused, ExchangeOk, Ends, ExchangeFrame, connectionVars
<1>14. CASE CommandAnswered
  BY <1>14 DEF CommandAnswered, ExchangeOk, Ends, sessionVars, ExchangeFrame,
         connectionVars
<1>15. CASE ExchangeFails
  BY <1>15 DEF ExchangeFails, ExchangeFailed, Ends
<1>16. CASE Stop
  BY <1>16 DEF Stop, deviceVars, connectionVars, backoffVars, sessionVars
<1>17. CASE Logout
  BY <1>17 DEF Logout, Write, connectionVars, backoffVars, sessionVars
<1>18. CASE LogoutSkipped
  BY <1>18 DEF LogoutSkipped, deviceVars, transportVars, sessionVars
<1>19. CASE LogoutAnswered
  BY <1>19 DEF LogoutAnswered, ExchangeOk, NotVerified, ExchangeFrame,
         connectionVars
<1>20. CASE LogoutFails
  BY <1>20 DEF LogoutFails, ExchangeFailed
<1>21. CASE Disconnects
  BY <1>21 DEF Disconnects, Disconnect, sessionVars
<1>22. CASE ConsoleAnswers
  BY <1>22 DEF ConsoleAnswers, transportVars, EnvironmentFrame, sessionVars
<1>23. CASE ConsoleAnswersOddly
  BY <1>23 DEF ConsoleAnswersOddly, transportVars, EnvironmentFrame,
         sessionVars
<1>24. CASE ConsoleFallsBack
  BY <1>24 DEF ConsoleFallsBack, FallBack, transportVars, EnvironmentFrame,
         sessionVars
<1>25. CASE PeerLeaves
  BY <1>25 DEF PeerLeaves, PeerGone, deviceVars, EnvironmentFrame,
         backoffVars, sessionVars
<1>26. CASE UNCHANGED vars
  BY <1>26 DEF vars, deviceVars, transportVars
<1>27. QED
  BY <1>1, <1>2, <1>3, <1>4, <1>5, <1>6, <1>7, <1>8, <1>9, <1>10, <1>11,
         <1>12, <1>13, <1>14, <1>15, <1>16, <1>17, <1>18, <1>19, <1>20, <1>21,
         <1>22, <1>23, <1>24, <1>25, <1>26 DEF Next, Program, Shutdown,
         Environment, Terminated

\* The transport without its flags.
TransportRestOK ==
  /\ conn \in {"none", "open", "eof", "closing"}
  /\ delay \in Nat
  /\ generation \in Nat
  /\ call \in {"none", "connecting", "sleeping", "reconnecting", "exchanging"}
  /\ request \in Requests

\* So does the rest of the transport keep its type.
LEMMA TransportRestStep ==
  ASSUME TypeOK, [Next]_vars
  PROVE  TransportRestOK'
<1> USE DelayAssumption DEF TypeOK, TransportTypeOK, TransportRestOK,
       SessionTypeOK, Requests, Acquisition
<1>1. CASE Start
  BY <1>1 DEF Start, BeginConnect, sessionVars, backoffVars
<1>2. CASE StartConnected
  BY <1>2 DEF StartConnected, Opened, Proceeds, sessionVars, Opening,
         Suspends, Write
<1>3. CASE StartFails
  BY <1>3 DEF StartFails, OpenFailed, deviceVars, sessionVars, Opening,
         Doubled, connectionVars
<1>4. ASSUME NEW cmd \in Acquisition, ExecuteConnected(cmd)
      PROVE  TransportRestOK'
  BY <1>4 DEF ExecuteConnected, Write, connectionVars, backoffVars,
         sessionVars
<1>5. ASSUME NEW cmd \in Acquisition, ExecuteReconnects(cmd)
      PROVE  TransportRestOK'
  BY <1>5 DEF ExecuteReconnects, BeginEnsure, sessionVars, backoffVars
<1>6. CASE EnsureWakes
  BY <1>6 DEF EnsureWakes, WakeUp, deviceVars, sessionVars, backoffVars
<1>7. CASE EnsureDone
  BY <1>7 DEF EnsureDone, Opened, Proceeds, sessionVars, Opening, Suspends,
         Write
<1>8. CASE EnsureFails
  BY <1>8 DEF EnsureFails, OpenFailed, deviceVars, sessionVars, Opening,
         Doubled, connectionVars
<1>9. CASE ProbeConfirmsDebug
  BY <1>9 DEF ProbeConfirmsDebug, ExchangeOk, Authenticated, ExchangeFrame,
         Ends, Suspends, connectionVars, Write
<1>10. CASE ProbeConfirmsUser
  BY <1>10 DEF ProbeConfirmsUser, ExchangeOk, Suspends, sessionVars, Ends,
         ExchangeFrame, Write, connectionVars
<1>11. CASE ProbeUndetermined
  BY <1>11 DEF ProbeUndetermined, ExchangeOk, Ends, ExchangeFrame,
         connectionVars
<1>12. CASE LoginAccepted
  BY <1>12 DEF LoginAccepted, ExchangeOk, Authenticated, ExchangeFrame, Ends,
         Suspends, connectionVars, Write
<1>13. CASE LoginRefused
  BY <1>13 DEF LoginRefused, ExchangeOk, Ends, ExchangeFrame, connectionVars
<1>14. CASE CommandAnswered
  BY <1>14 DEF CommandAnswered, ExchangeOk, Ends, sessionVars, ExchangeFrame,
         connectionVars
<1>15. CASE ExchangeFails
  BY <1>15 DEF ExchangeFails, ExchangeFailed, Ends, Doubled
<1>16. CASE Stop
  BY <1>16 DEF Stop, deviceVars, connectionVars, backoffVars, sessionVars
<1>17. CASE Logout
  BY <1>17 DEF Logout, Write, connectionVars, backoffVars, sessionVars
<1>18. CASE LogoutSkipped
  BY <1>18 DEF LogoutSkipped, deviceVars, transportVars, sessionVars
<1>19. CASE LogoutAnswered
  BY <1>19 DEF LogoutAnswered, ExchangeOk, NotVerified, ExchangeFrame,
         connectionVars
<1>20. CASE LogoutFails
  BY <1>20 DEF LogoutFails, ExchangeFailed, Doubled
<1>21. CASE Disconnects
  BY <1>21 DEF Disconnects, Disconnect, sessionVars
<1>22. CASE ConsoleAnswers
  BY <1>22 DEF ConsoleAnswers, transportVars, EnvironmentFrame, sessionVars
<1>23. CASE ConsoleAnswersOddly
  BY <1>23 DEF ConsoleAnswersOddly, transportVars, EnvironmentFrame,
         sessionVars
<1>24. CASE ConsoleFallsBack
  BY <1>24 DEF ConsoleFallsBack, FallBack, transportVars, EnvironmentFrame,
         sessionVars
<1>25. CASE PeerLeaves
  BY <1>25 DEF PeerLeaves, PeerGone, deviceVars, EnvironmentFrame,
         backoffVars, sessionVars
<1>26. CASE UNCHANGED vars
  BY <1>26 DEF vars, deviceVars, transportVars
<1>27. QED
  BY <1>1, <1>2, <1>3, <1>4, <1>5, <1>6, <1>7, <1>8, <1>9, <1>10, <1>11,
         <1>12, <1>13, <1>14, <1>15, <1>16, <1>17, <1>18, <1>19, <1>20, <1>21,
         <1>22, <1>23, <1>24, <1>25, <1>26 DEF Next, Program, Shutdown,
         Environment, Terminated

\* And the session.
LEMMA SessionTypeStep ==
  ASSUME TypeOK, [Next]_vars
  PROVE  SessionTypeOK'
<1> USE ExchangeOkType, MarkType DEF TypeOK, TransportTypeOK, SessionTypeOK,
       SessionTypes
<1>1. CASE Start
  BY <1>1 DEF Start, BeginConnect, sessionVars, backoffVars
<1>2. CASE StartConnected
  BY <1>2 DEF StartConnected, Opened, Proceeds, sessionVars, Opening,
         Suspends, Write
<1>3. CASE StartFails
  BY <1>3 DEF StartFails, OpenFailed, deviceVars, sessionVars, Opening,
         connectionVars
<1>4. ASSUME NEW cmd \in Acquisition, ExecuteConnected(cmd)
      PROVE  SessionTypeOK'
  BY <1>4 DEF ExecuteConnected, Write, connectionVars, backoffVars,
         sessionVars
<1>5. ASSUME NEW cmd \in Acquisition, ExecuteReconnects(cmd)
      PROVE  SessionTypeOK'
  BY <1>5 DEF ExecuteReconnects, BeginEnsure, sessionVars, backoffVars
<1>6. CASE EnsureWakes
  BY <1>6 DEF EnsureWakes, WakeUp, deviceVars, sessionVars, backoffVars
<1>7. CASE EnsureDone
  BY <1>7 DEF EnsureDone, Opened, Proceeds, sessionVars, Opening, Suspends,
         Write
<1>8. CASE EnsureFails
  BY <1>8 DEF EnsureFails, OpenFailed, deviceVars, sessionVars, Opening,
         connectionVars
<1>9. CASE ProbeConfirmsDebug
  BY <1>9 DEF ProbeConfirmsDebug, Authenticated, ExchangeFrame, Ends,
         Suspends, connectionVars, Write
<1>10. CASE ProbeConfirmsUser
  BY <1>10 DEF ProbeConfirmsUser, Suspends, sessionVars, Ends, ExchangeFrame,
         Write, connectionVars
<1>11. CASE ProbeUndetermined
  BY <1>11 DEF ProbeUndetermined, Ends, ExchangeFrame, connectionVars
<1>12. CASE LoginAccepted
  BY <1>12 DEF LoginAccepted, Authenticated, ExchangeFrame, Ends, Suspends,
         connectionVars, Write
<1>13. CASE LoginRefused
  BY <1>13 DEF LoginRefused, Ends, ExchangeFrame, connectionVars
<1>14. CASE CommandAnswered
  BY <1>14 DEF CommandAnswered, Ends, sessionVars, ExchangeFrame,
         connectionVars
<1>15. CASE ExchangeFails
  BY <1>15 DEF ExchangeFails, ExchangeFailed, Ends
<1>16. CASE Stop
  BY <1>16 DEF Stop, deviceVars, connectionVars, backoffVars, sessionVars
<1>17. CASE Logout
  BY <1>17 DEF Logout, Write, connectionVars, backoffVars, sessionVars
<1>18. CASE LogoutSkipped
  BY <1>18 DEF LogoutSkipped, deviceVars, transportVars, sessionVars
<1>19. CASE LogoutAnswered
  <2>1. SessionTypes'
    <3>1. CASE MarkUnverified
      BY <3>1
    <3>2. CASE /\ health' = [mode |-> "user", authenticated |-> FALSE,
                           error |-> FALSE]
               /\ verified' = NotVerified
      BY <3>2 DEF Health
    <3>3. QED
      BY <3>1, <3>2, <1>19 DEF LogoutAnswered
  <2>2. QED
    BY <2>1, <1>19 DEF LogoutAnswered, ExchangeFrame
<1>20. CASE LogoutFails
  BY <1>20 DEF LogoutFails, ExchangeFailed
<1>21. CASE Disconnects
  BY <1>21 DEF Disconnects, Disconnect, sessionVars
<1>22. CASE ConsoleAnswers
  BY <1>22 DEF ConsoleAnswers, transportVars, EnvironmentFrame, sessionVars
<1>23. CASE ConsoleAnswersOddly
  BY <1>23 DEF ConsoleAnswersOddly, transportVars, EnvironmentFrame,
         sessionVars
<1>24. CASE ConsoleFallsBack
  BY <1>24 DEF ConsoleFallsBack, FallBack, transportVars, EnvironmentFrame,
         sessionVars
<1>25. CASE PeerLeaves
  BY <1>25 DEF PeerLeaves, PeerGone, deviceVars, EnvironmentFrame,
         backoffVars, sessionVars
<1>26. CASE UNCHANGED vars
  BY <1>26 DEF vars, deviceVars, transportVars
<1>27. QED
  BY <1>1, <1>2, <1>3, <1>4, <1>5, <1>6, <1>7, <1>8, <1>9, <1>10, <1>11,
         <1>12, <1>13, <1>14, <1>15, <1>16, <1>17, <1>18, <1>19, <1>20, <1>21,
         <1>22, <1>23, <1>24, <1>25, <1>26 DEF Next, Program, Shutdown,
         Environment, Terminated

\* The program counter agrees with the transport and the phase.
LEMMA ControlStep ==
  ASSUME TypeOK, ControlInv, [Next]_vars
  PROVE  ControlInv'
<1> USE EstablishAssumption DEF TypeOK, TransportTypeOK, SessionTypeOK,
       Acquisition, ControlInv
<1>1. CASE Start
  BY <1>1 DEF Start, BeginConnect, sessionVars, backoffVars
<1>2. CASE StartConnected
  BY <1>2 DEF StartConnected, Opened, Proceeds, sessionVars, Opening,
         Suspends, Write
<1>3. CASE StartFails
  BY <1>3 DEF StartFails, OpenFailed, deviceVars, sessionVars, Opening,
         connectionVars
<1>4. ASSUME NEW cmd \in Acquisition, ExecuteConnected(cmd)
      PROVE  ControlInv'
  BY <1>4 DEF ExecuteConnected, Write, connectionVars, backoffVars,
         sessionVars
<1>5. ASSUME NEW cmd \in Acquisition, ExecuteReconnects(cmd)
      PROVE  ControlInv'
  BY <1>5 DEF ExecuteReconnects, BeginEnsure, sessionVars, backoffVars
<1>6. CASE EnsureWakes
  BY <1>6 DEF EnsureWakes, WakeUp, deviceVars, sessionVars, backoffVars
<1>7. CASE EnsureDone
  BY <1>7 DEF EnsureDone, Opened, Proceeds, sessionVars, Opening, Suspends,
         Write
<1>8. CASE EnsureFails
  BY <1>8 DEF EnsureFails, OpenFailed, deviceVars, sessionVars, Opening,
         connectionVars
<1>9. CASE ProbeConfirmsDebug
  BY <1>9 DEF ProbeConfirmsDebug, ExchangeOk, Authenticated, ExchangeFrame,
         Ends, Suspends, connectionVars, Write
<1>10. CASE ProbeConfirmsUser
  BY <1>10 DEF ProbeConfirmsUser, ExchangeOk, Suspends, sessionVars, Ends,
         ExchangeFrame, Write, connectionVars
<1>11. CASE ProbeUndetermined
  BY <1>11 DEF ProbeUndetermined, ExchangeOk, Ends, ExchangeFrame,
         connectionVars
<1>12. CASE LoginAccepted
  BY <1>12 DEF LoginAccepted, ExchangeOk, Authenticated, ExchangeFrame, Ends,
         Suspends, connectionVars, Write
<1>13. CASE LoginRefused
  BY <1>13 DEF LoginRefused, ExchangeOk, Ends, ExchangeFrame, connectionVars
<1>14. CASE CommandAnswered
  BY <1>14 DEF CommandAnswered, ExchangeOk, Ends, sessionVars, ExchangeFrame,
         connectionVars
<1>15. CASE ExchangeFails
  BY <1>15 DEF ExchangeFails, ExchangeFailed, Ends
<1>16. CASE Stop
  BY <1>16 DEF Stop, deviceVars, connectionVars, backoffVars, sessionVars
<1>17. CASE Logout
  BY <1>17 DEF Logout, Write, connectionVars, backoffVars, sessionVars
<1>18. CASE LogoutSkipped
  BY <1>18 DEF LogoutSkipped, deviceVars, transportVars, sessionVars
<1>19. CASE LogoutAnswered
  BY <1>19 DEF LogoutAnswered, ExchangeOk, NotVerified, ExchangeFrame,
         connectionVars
<1>20. CASE LogoutFails
  BY <1>20 DEF LogoutFails, ExchangeFailed
<1>21. CASE Disconnects
  BY <1>21 DEF Disconnects, Disconnect, sessionVars
<1>22. CASE ConsoleAnswers
  BY <1>22 DEF ConsoleAnswers, transportVars, EnvironmentFrame, sessionVars
<1>23. CASE ConsoleAnswersOddly
  BY <1>23 DEF ConsoleAnswersOddly, transportVars, EnvironmentFrame,
         sessionVars
<1>24. CASE ConsoleFallsBack
  BY <1>24 DEF ConsoleFallsBack, FallBack, transportVars, EnvironmentFrame,
         sessionVars
<1>25. CASE PeerLeaves
  BY <1>25 DEF PeerLeaves, PeerGone, deviceVars, EnvironmentFrame,
         backoffVars, sessionVars
<1>26. CASE UNCHANGED vars
  BY <1>26 DEF vars, deviceVars, transportVars
<1>27. QED
  BY <1>1, <1>2, <1>3, <1>4, <1>5, <1>6, <1>7, <1>8, <1>9, <1>10, <1>11,
         <1>12, <1>13, <1>14, <1>15, <1>16, <1>17, <1>18, <1>19, <1>20, <1>21,
         <1>22, <1>23, <1>24, <1>25, <1>26 DEF Next, Program, Shutdown,
         Environment, Terminated

\* A failed exchange closes the connection and starts a recovery.
LEMMA ConnectionStep ==
  ASSUME TypeOK, ControlInv, ConnectionInv, [Next]_vars
  PROVE  ConnectionInv'
<1> USE DEF TypeOK, TransportTypeOK, ControlInv, ConnectionInv
<1>1. CASE Start
  BY <1>1 DEF Start, BeginConnect, sessionVars, backoffVars
<1>2. CASE StartConnected
  BY <1>2 DEF StartConnected, Opened, Proceeds, sessionVars, Opening,
         Suspends, Write
<1>3. CASE StartFails
  BY <1>3 DEF StartFails, OpenFailed, deviceVars, sessionVars, Opening,
         connectionVars
<1>4. ASSUME NEW cmd \in Acquisition, ExecuteConnected(cmd)
      PROVE  ConnectionInv'
  BY <1>4 DEF ExecuteConnected, IsConnected, Write, connectionVars,
         backoffVars, sessionVars
<1>5. ASSUME NEW cmd \in Acquisition, ExecuteReconnects(cmd)
      PROVE  ConnectionInv'
  BY <1>5 DEF ExecuteReconnects, IsConnected, BeginEnsure, sessionVars,
         backoffVars
<1>6. CASE EnsureWakes
  BY <1>6 DEF EnsureWakes, WakeUp, deviceVars, sessionVars, backoffVars
<1>7. CASE EnsureDone
  BY <1>7 DEF EnsureDone, Opened, Proceeds, sessionVars, Opening, Suspends,
         Write
<1>8. CASE EnsureFails
  BY <1>8 DEF EnsureFails, OpenFailed, deviceVars, sessionVars, Opening,
         connectionVars
<1>9. CASE ProbeConfirmsDebug
  BY <1>9 DEF ProbeConfirmsDebug, ExchangeOk, Authenticated, ExchangeFrame,
         Ends, CanWrite, Suspends, connectionVars, Write
<1>10. CASE ProbeConfirmsUser
  BY <1>10 DEF ProbeConfirmsUser, ExchangeOk, CanWrite, Suspends, sessionVars,
         Ends, ExchangeFrame, Write, connectionVars
<1>11. CASE ProbeUndetermined
  BY <1>11 DEF ProbeUndetermined, ExchangeOk, Ends, ExchangeFrame,
         connectionVars
<1>12. CASE LoginAccepted
  BY <1>12 DEF LoginAccepted, ExchangeOk, Authenticated, ExchangeFrame, Ends,
         CanWrite, Suspends, connectionVars, Write
<1>13. CASE LoginRefused
  BY <1>13 DEF LoginRefused, ExchangeOk, Ends, ExchangeFrame, connectionVars
<1>14. CASE CommandAnswered
  BY <1>14 DEF CommandAnswered, ExchangeOk, Ends, sessionVars, ExchangeFrame,
         connectionVars
<1>15. CASE ExchangeFails
  BY <1>15 DEF ExchangeFails, ExchangeFailed, Ends
<1>16. CASE Stop
  BY <1>16 DEF Stop, deviceVars, connectionVars, backoffVars, sessionVars
<1>17. CASE Logout
  BY <1>17 DEF Logout, MayLogout, Write, connectionVars, backoffVars,
         sessionVars, IsConnected
<1>18. CASE LogoutSkipped
  BY <1>18 DEF LogoutSkipped, MayLogout, deviceVars, transportVars,
         sessionVars, IsConnected
<1>19. CASE LogoutAnswered
  BY <1>19 DEF LogoutAnswered, ExchangeOk, NotVerified, ExchangeFrame,
         connectionVars
<1>20. CASE LogoutFails
  BY <1>20 DEF LogoutFails, ExchangeFailed
<1>21. CASE Disconnects
  BY <1>21 DEF Disconnects, Disconnect, sessionVars
<1>22. CASE ConsoleAnswers
  BY <1>22 DEF ConsoleAnswers, transportVars, EnvironmentFrame, sessionVars
<1>23. CASE ConsoleAnswersOddly
  BY <1>23 DEF ConsoleAnswersOddly, transportVars, EnvironmentFrame,
         sessionVars
<1>24. CASE ConsoleFallsBack
  BY <1>24 DEF ConsoleFallsBack, FallBack, transportVars, EnvironmentFrame,
         sessionVars
<1>25. CASE PeerLeaves
  BY <1>25 DEF PeerLeaves, PeerGone, deviceVars, EnvironmentFrame,
         backoffVars, sessionVars
<1>26. CASE UNCHANGED vars
  BY <1>26 DEF vars, deviceVars, transportVars
<1>27. QED
  BY <1>1, <1>2, <1>3, <1>4, <1>5, <1>6, <1>7, <1>8, <1>9, <1>10, <1>11,
         <1>12, <1>13, <1>14, <1>15, <1>16, <1>17, <1>18, <1>19, <1>20, <1>21,
         <1>22, <1>23, <1>24, <1>25, <1>26 DEF Next, Program, Shutdown,
         Environment, Terminated

\* The delay stays within its bounds and is above the minimum only in a
\* recovery.
LEMMA BackoffStep ==
  ASSUME TypeOK, ConnectionInv, BackoffBounded, [Next]_vars
  PROVE  BackoffBounded'
<1> USE DelayAssumption DEF TypeOK, TransportTypeOK, ConnectionInv,
       BackoffBounded
<1>1. CASE Start
  BY <1>1 DEF Start, BeginConnect, sessionVars, backoffVars
<1>2. CASE StartConnected
  BY <1>2 DEF StartConnected, Opened, Proceeds, sessionVars, Opening,
         Suspends, Write
<1>3. CASE StartFails
  BY <1>3 DEF StartFails, OpenFailed, deviceVars, sessionVars, Opening,
         Doubled, connectionVars
<1>4. ASSUME NEW cmd \in Acquisition, ExecuteConnected(cmd)
      PROVE  BackoffBounded'
  BY <1>4 DEF ExecuteConnected, Write, connectionVars, backoffVars,
         sessionVars
<1>5. ASSUME NEW cmd \in Acquisition, ExecuteReconnects(cmd)
      PROVE  BackoffBounded'
  BY <1>5 DEF ExecuteReconnects, BeginEnsure, sessionVars, backoffVars
<1>6. CASE EnsureWakes
  BY <1>6 DEF EnsureWakes, WakeUp, deviceVars, sessionVars, backoffVars
<1>7. CASE EnsureDone
  BY <1>7 DEF EnsureDone, Opened, Proceeds, sessionVars, Opening, Suspends,
         Write
<1>8. CASE EnsureFails
  BY <1>8 DEF EnsureFails, OpenFailed, deviceVars, sessionVars, Opening,
         Doubled, connectionVars
<1>9. CASE ProbeConfirmsDebug
  BY <1>9 DEF ProbeConfirmsDebug, ExchangeOk, Authenticated, ExchangeFrame,
         Ends, Suspends, connectionVars, Write
<1>10. CASE ProbeConfirmsUser
  BY <1>10 DEF ProbeConfirmsUser, ExchangeOk, Suspends, sessionVars, Ends,
         ExchangeFrame, Write, connectionVars
<1>11. CASE ProbeUndetermined
  BY <1>11 DEF ProbeUndetermined, ExchangeOk, Ends, ExchangeFrame,
         connectionVars
<1>12. CASE LoginAccepted
  BY <1>12 DEF LoginAccepted, ExchangeOk, Authenticated, ExchangeFrame, Ends,
         Suspends, connectionVars, Write
<1>13. CASE LoginRefused
  BY <1>13 DEF LoginRefused, ExchangeOk, Ends, ExchangeFrame, connectionVars
<1>14. CASE CommandAnswered
  BY <1>14 DEF CommandAnswered, ExchangeOk, Ends, sessionVars, ExchangeFrame,
         connectionVars
<1>15. CASE ExchangeFails
  BY <1>15 DEF ExchangeFails, ExchangeFailed, Ends, Doubled
<1>16. CASE Stop
  BY <1>16 DEF Stop, deviceVars, connectionVars, backoffVars, sessionVars
<1>17. CASE Logout
  BY <1>17 DEF Logout, Write, connectionVars, backoffVars, sessionVars
<1>18. CASE LogoutSkipped
  BY <1>18 DEF LogoutSkipped, deviceVars, transportVars, sessionVars
<1>19. CASE LogoutAnswered
  BY <1>19 DEF LogoutAnswered, ExchangeOk, NotVerified, ExchangeFrame,
         connectionVars
<1>20. CASE LogoutFails
  BY <1>20 DEF LogoutFails, ExchangeFailed, Doubled
<1>21. CASE Disconnects
  BY <1>21 DEF Disconnects, Disconnect, sessionVars
<1>22. CASE ConsoleAnswers
  BY <1>22 DEF ConsoleAnswers, transportVars, EnvironmentFrame, sessionVars
<1>23. CASE ConsoleAnswersOddly
  BY <1>23 DEF ConsoleAnswersOddly, transportVars, EnvironmentFrame,
         sessionVars
<1>24. CASE ConsoleFallsBack
  BY <1>24 DEF ConsoleFallsBack, FallBack, transportVars, EnvironmentFrame,
         sessionVars
<1>25. CASE PeerLeaves
  BY <1>25 DEF PeerLeaves, PeerGone, deviceVars, EnvironmentFrame,
         backoffVars, sessionVars
<1>26. CASE UNCHANGED vars
  BY <1>26 DEF vars, deviceVars, transportVars
<1>27. QED
  BY <1>1, <1>2, <1>3, <1>4, <1>5, <1>6, <1>7, <1>8, <1>9, <1>10, <1>11,
         <1>12, <1>13, <1>14, <1>15, <1>16, <1>17, <1>18, <1>19, <1>20, <1>21,
         <1>22, <1>23, <1>24, <1>25, <1>26 DEF Next, Program, Shutdown,
         Environment, Terminated

\* The health store and _verified_generation change together.
LEMMA HealthStep ==
  ASSUME TypeOK, ControlInv, HealthInv, [Next]_vars
  PROVE  HealthInv'
<1> USE DEF TypeOK, TransportTypeOK, ControlInv, HealthInv, NotVerified
<1>1. CASE Start
  BY <1>1 DEF Start, BeginConnect, sessionVars, backoffVars
<1>2. CASE StartConnected
  BY <1>2 DEF StartConnected, Opened, Proceeds, sessionVars, Opening,
         Suspends, Write
<1>3. CASE StartFails
  BY <1>3 DEF StartFails, OpenFailed, deviceVars, sessionVars, Opening,
         connectionVars
<1>4. ASSUME NEW cmd \in Acquisition, ExecuteConnected(cmd)
      PROVE  HealthInv'
  BY <1>4 DEF ExecuteConnected, Write, connectionVars, backoffVars,
         sessionVars
<1>5. ASSUME NEW cmd \in Acquisition, ExecuteReconnects(cmd)
      PROVE  HealthInv'
  BY <1>5 DEF ExecuteReconnects, BeginEnsure, sessionVars, backoffVars
<1>6. CASE EnsureWakes
  BY <1>6 DEF EnsureWakes, WakeUp, deviceVars, sessionVars, backoffVars
<1>7. CASE EnsureDone
  BY <1>7 DEF EnsureDone, Opened, Proceeds, sessionVars, Opening, Suspends,
         Write
<1>8. CASE EnsureFails
  BY <1>8 DEF EnsureFails, OpenFailed, deviceVars, sessionVars, Opening,
         connectionVars
<1>9. CASE ProbeConfirmsDebug
  BY <1>9 DEF ProbeConfirmsDebug, ExchangeOk, Authenticated, ExchangeFrame,
         MarkAuthenticated, Ends, Suspends, MarkUnverified, connectionVars,
         Write
<1>10. CASE ProbeConfirmsUser
  BY <1>10 DEF ProbeConfirmsUser, ExchangeOk, Suspends, sessionVars, Ends,
         MarkUnverifiedUnlessError, ExchangeFrame, Write, MarkUnverified,
         connectionVars
<1>11. CASE ProbeUndetermined
  BY <1>11 DEF ProbeUndetermined, ExchangeOk, Ends, MarkUnverifiedUnlessError,
         ExchangeFrame, sessionVars, MarkUnverified, connectionVars
<1>12. CASE LoginAccepted
  BY <1>12 DEF LoginAccepted, ExchangeOk, Authenticated, ExchangeFrame,
         MarkAuthenticated, Ends, Suspends, MarkUnverified, connectionVars,
         Write
<1>13. CASE LoginRefused
  BY <1>13 DEF LoginRefused, ExchangeOk, LeftDebug, Ends, ExchangeFrame,
         connectionVars
<1>14. CASE CommandAnswered
  BY <1>14 DEF CommandAnswered, ExchangeOk, Ends, sessionVars, LeftDebug,
         ExchangeFrame, connectionVars
<1>15. CASE ExchangeFails
  BY <1>15 DEF ExchangeFails, ExchangeFailed, Ends, MarkUnverified,
         MarkUnverifiedUnlessError, sessionVars
<1>16. CASE Stop
  BY <1>16 DEF Stop, deviceVars, connectionVars, backoffVars, sessionVars
<1>17. CASE Logout
  BY <1>17 DEF Logout, Write, connectionVars, backoffVars, sessionVars
<1>18. CASE LogoutSkipped
  BY <1>18 DEF LogoutSkipped, deviceVars, transportVars, sessionVars
<1>19. CASE LogoutAnswered
  BY <1>19 DEF LogoutAnswered, ExchangeOk, MarkUnverified, ExchangeFrame,
         connectionVars
<1>20. CASE LogoutFails
  BY <1>20 DEF LogoutFails, ExchangeFailed, MarkUnverified
<1>21. CASE Disconnects
  BY <1>21 DEF Disconnects, Disconnect, sessionVars
<1>22. CASE ConsoleAnswers
  BY <1>22 DEF ConsoleAnswers, transportVars, EnvironmentFrame, sessionVars
<1>23. CASE ConsoleAnswersOddly
  BY <1>23 DEF ConsoleAnswersOddly, transportVars, EnvironmentFrame,
         sessionVars
<1>24. CASE ConsoleFallsBack
  BY <1>24 DEF ConsoleFallsBack, FallBack, transportVars, EnvironmentFrame,
         sessionVars
<1>25. CASE PeerLeaves
  BY <1>25 DEF PeerLeaves, PeerGone, deviceVars, EnvironmentFrame,
         backoffVars, sessionVars
<1>26. CASE UNCHANGED vars
  BY <1>26 DEF vars, deviceVars, transportVars
<1>27. QED
  BY <1>1, <1>2, <1>3, <1>4, <1>5, <1>6, <1>7, <1>8, <1>9, <1>10, <1>11,
         <1>12, <1>13, <1>14, <1>15, <1>16, <1>17, <1>18, <1>19, <1>20, <1>21,
         <1>22, <1>23, <1>24, <1>25, <1>26 DEF Next, Program, Shutdown,
         Environment, Terminated

\* Elements of the inbox, typed.
LEMMA InboxElements ==
  ASSUME DeviceTypeOK
  PROVE  \A i \in DOMAIN inbox : inbox[i].gen \in Nat /\ inbox[i].cmd \in Requests
<1>1. \A i \in DOMAIN inbox : inbox[i] \in Request
  BY DEF DeviceTypeOK
<1>2. QED
  BY <1>1 DEF Request

\* What is in the inbox after a write.
LEMMA WriteElements ==
  ASSUME DeviceTypeOK, NEW cmd, NEW c, NEW gen, Write(cmd, c, gen)
  PROVE  \A i \in DOMAIN inbox' :
           \/ i \in DOMAIN inbox /\ inbox'[i] = inbox[i]
           \/ i = Len(inbox') /\ inbox'[i] = [cmd |-> cmd, gen |-> gen]
BY DEF DeviceTypeOK, Write

\* The step that starts an exchange on a connection with nothing outstanding.
LEMMA WriteChannel ==
  ASSUME TypeOK, NEW cmd \in Requests, NEW c, NEW gen \in Nat, Write(cmd, c, gen),
         \A i \in DOMAIN inbox : inbox[i].gen < gen, wire = <<>>, wire' = wire,
         generation' = gen, conn' # "none"
  PROVE  ChannelInv'
<1> USE DEF TypeOK, DeviceTypeOK
<1>1. call' = "exchanging" /\ request' = cmd
  BY DEF Write
<1>2. \A i \in DOMAIN inbox : inbox[i].gen \in Nat
  BY InboxElements
<1>3. \A i \in DOMAIN inbox' :
        \/ i \in DOMAIN inbox /\ inbox'[i].gen < gen
        \/ i = Len(inbox') /\ inbox'[i].gen = gen /\ inbox'[i].cmd = cmd
  BY WriteElements
<1>4. \A i \in DOMAIN inbox' : inbox'[i].gen <= gen
  BY <1>2, <1>3, WriteElements
<1>5. \A i \in DOMAIN inbox' : inbox'[i].gen = gen =>
        i = Len(inbox') /\ inbox'[i].cmd = cmd
  BY <1>2, <1>3, WriteElements
<1>6. QED
  BY <1>1, <1>4, <1>5 DEF ChannelInv

\* An answer that is dropped with its connection cannot be taken for another.
LEMMA ChannelStep ==
  ASSUME TypeOK, ControlInv, ConnectionInv, ~LateAnswers, ChannelInv, [Next]_vars
  PROVE  ChannelInv'
<1> USE DEF TypeOK, DeviceTypeOK, TransportTypeOK, SessionTypeOK, ControlInv,
       ConnectionInv, ChannelInv
<1>1. CASE Start
  BY <1>1 DEF Start, BeginConnect, sessionVars, DropAnswers, backoffVars
<1>2. CASE StartConnected
  <2>1. /\ Write("pwrsys", "open", generation')
        /\ generation' = generation + 1
        /\ conn' = "open" /\ wire' = wire /\ wire = <<>>
    BY <1>2 DEF StartConnected, Opened, Proceeds, Suspends, Opening
  <2>2. \A i \in DOMAIN inbox : inbox[i].gen < generation'
    BY <2>1, InboxElements
  <2>3. "pwrsys" \in Requests /\ generation' \in Nat
    BY <2>1 DEF Requests, Acquisition
  <2>4. QED
    BY <2>1, <2>2, <2>3, WriteChannel
<1>3. CASE StartFails
  BY <1>3 DEF StartFails, OpenFailed, deviceVars, sessionVars, Opening,
         connectionVars
<1>4. ASSUME NEW cmd \in Acquisition, ExecuteConnected(cmd)
      PROVE  ChannelInv'
  <2>1. PICK req \in Requests : Write(req, conn, generation)
    BY <1>4 DEF ExecuteConnected, Requests, Acquisition
  <2>2. /\ generation' = generation /\ conn' = conn /\ conn # "none"
        /\ wire' = wire /\ wire = <<>>
    BY <1>4 DEF ExecuteConnected, IsConnected, connectionVars
  <2>3. \A i \in DOMAIN inbox : inbox[i].gen < generation
    <3>1. \A i \in DOMAIN inbox : inbox[i].gen # generation
      BY <1>4 DEF ExecuteConnected, IsConnected
    <3>2. QED
      BY <3>1, InboxElements
  <2>4. QED
    BY <2>1, <2>2, <2>3, WriteChannel
<1>5. ASSUME NEW cmd \in Acquisition, ExecuteReconnects(cmd)
      PROVE  ChannelInv'
  BY <1>5 DEF ExecuteReconnects, IsConnected, BeginEnsure, sessionVars,
         DropAnswers, backoffVars
<1>6. CASE EnsureWakes
  BY <1>6 DEF EnsureWakes, WakeUp, deviceVars, sessionVars, backoffVars
<1>7. CASE EnsureDone
  <2>1. PICK cmd \in Requests : Write(cmd, "open", generation')
    BY <1>7 DEF EnsureDone, Proceeds, Suspends, Requests, Acquisition
  <2>2. /\ generation' = generation + 1
        /\ conn' = "open" /\ wire' = wire /\ wire = <<>>
    BY <1>7 DEF EnsureDone, Opened, Opening
  <2>3. \A i \in DOMAIN inbox : inbox[i].gen < generation'
    BY <2>2, InboxElements
  <2>4. QED
    BY <2>1, <2>2, <2>3, WriteChannel
<1>8. CASE EnsureFails
  BY <1>8 DEF EnsureFails, OpenFailed, deviceVars, sessionVars, Opening,
         connectionVars
<1>9. CASE ProbeConfirmsDebug
  BY <1>9 DEF ProbeConfirmsDebug, ExchangeOk, Authenticated, ExchangeFrame,
         Ends, CanWrite, Suspends, connectionVars, Write
<1>10. CASE ProbeConfirmsUser
  BY <1>10 DEF ProbeConfirmsUser, ExchangeOk, ConfirmedUserMode, CanWrite,
         Suspends, sessionVars, Ends, ExchangeFrame, Write, connectionVars
<1>11. CASE ProbeUndetermined
  BY <1>11 DEF ProbeUndetermined, ExchangeOk, ConfirmedUserMode, Ends,
         ExchangeFrame, connectionVars
<1>12. CASE LoginAccepted
  BY <1>12 DEF LoginAccepted, ExchangeOk, Authenticated, ExchangeFrame, Ends,
         CanWrite, Suspends, connectionVars, Write
<1>13. CASE LoginRefused
  BY <1>13 DEF LoginRefused, ExchangeOk, Ends, ExchangeFrame, connectionVars
<1>14. CASE CommandAnswered
  BY <1>14 DEF CommandAnswered, ExchangeOk, Ends, sessionVars, ExchangeFrame,
         connectionVars
<1>15. CASE ExchangeFails
  BY <1>15 DEF ExchangeFails, ExchangeFailed, NoAnswerLeft, Ends, DropAnswers
<1>16. CASE Stop
  BY <1>16 DEF Stop, deviceVars, connectionVars, backoffVars, sessionVars
<1>17. CASE Logout
  BY <1>17 DEF Logout, Write, connectionVars, backoffVars, sessionVars
<1>18. CASE LogoutSkipped
  BY <1>18 DEF LogoutSkipped, deviceVars, transportVars, sessionVars
<1>19. CASE LogoutAnswered
  BY <1>19 DEF LogoutAnswered, ExchangeOk, NotVerified, ExchangeFrame,
         connectionVars
<1>20. CASE LogoutFails
  BY <1>20 DEF LogoutFails, ExchangeFailed, NoAnswerLeft, DropAnswers
<1>21. CASE Disconnects
  BY <1>21 DEF Disconnects, Disconnect, sessionVars, DropAnswers
<1>22. CASE ConsoleAnswers
  BY <1>22 DEF ConsoleAnswers, Execute, Reply, transportVars,
         EnvironmentFrame, sessionVars
<1>23. CASE ConsoleAnswersOddly
  BY <1>23 DEF ConsoleAnswersOddly, Execute, OddReply, transportVars,
         EnvironmentFrame, sessionVars
<1>24. CASE ConsoleFallsBack
  BY <1>24 DEF ConsoleFallsBack, FallBack, transportVars, EnvironmentFrame,
         sessionVars
<1>25. CASE PeerLeaves
  BY <1>25 DEF PeerLeaves, PeerGone, deviceVars, EnvironmentFrame,
         backoffVars, sessionVars
<1>26. CASE UNCHANGED vars
  BY <1>26 DEF vars, deviceVars, transportVars
<1>27. QED
  BY <1>1, <1>2, <1>3, <1>4, <1>5, <1>6, <1>7, <1>8, <1>9, <1>10, <1>11,
         <1>12, <1>13, <1>14, <1>15, <1>16, <1>17, <1>18, <1>19, <1>20, <1>21,
         <1>22, <1>23, <1>24, <1>25, <1>26 DEF Next, Program, Shutdown,
         Environment, Terminated

\* Writing anything else does not disturb a waiting login.
LEMMA WriteLogin ==
  ASSUME DeviceTypeOK, LoginInv, NEW cmd \in Acquisition, NEW c, NEW gen,
         Write(cmd, c, gen), devMode' = devMode
  PROVE  LoginInv'
<1>1. cmd # "login"
  BY CommandsAssumption DEF Acquisition
<1>2. QED
  BY <1>1, WriteElements DEF LoginInv

\* A login waits alone, in front of a console in user mode.
LEMMA LoginStep ==
  ASSUME TypeOK, ControlInv, ConnectionInv, ~LateAnswers, ChannelInv, LoginInv, [Next]_vars
  PROVE  LoginInv'
<1> USE DEF TypeOK, DeviceTypeOK, TransportTypeOK, SessionTypeOK, ControlInv,
       ConnectionInv, LoginInv
<1>1. CASE Start
  BY <1>1 DEF Start, BeginConnect, sessionVars, DropAnswers, backoffVars
<1>2. CASE StartConnected
  BY <1>2 DEF StartConnected, Opened, Proceeds, sessionVars, Opening,
         Suspends, Write
<1>3. CASE StartFails
  BY <1>3 DEF StartFails, OpenFailed, deviceVars, sessionVars, Opening,
         connectionVars
<1>4. ASSUME NEW cmd \in Acquisition, ExecuteConnected(cmd)
      PROVE  LoginInv'
  <2>1. PICK req \in Acquisition : Write(req, conn, generation)
    BY <1>4 DEF ExecuteConnected, Acquisition
  <2>2. QED
    BY <2>1, <1>4, WriteLogin DEF ExecuteConnected
<1>5. ASSUME NEW cmd \in Acquisition, ExecuteReconnects(cmd)
      PROVE  LoginInv'
  BY <1>5 DEF ExecuteReconnects, IsConnected, BeginEnsure, sessionVars,
         DropAnswers, backoffVars
<1>6. CASE EnsureWakes
  BY <1>6 DEF EnsureWakes, WakeUp, deviceVars, sessionVars, backoffVars
<1>7. CASE EnsureDone
  <2>1. PICK cmd \in Acquisition : Write(cmd, "open", generation')
    BY <1>7 DEF EnsureDone, Proceeds, Suspends, Acquisition
  <2>2. QED
    BY <2>1, <1>7, WriteLogin DEF EnsureDone
<1>8. CASE EnsureFails
  BY <1>8 DEF EnsureFails, OpenFailed, deviceVars, sessionVars, Opening,
         connectionVars
<1>9. CASE ProbeConfirmsDebug
  <2>1. CASE Ends("ok") \/ Ends("failed")
    BY <2>1, <1>9 DEF ProbeConfirmsDebug, Ends, ExchangeFrame
  <2>2. CASE target # "establish" /\ Suspends("command", target, conn, generation)
    BY <2>2, <1>9, WriteLogin DEF ProbeConfirmsDebug, Suspends, ExchangeFrame
  <2>3. QED
    BY <2>1, <2>2, <1>9 DEF ProbeConfirmsDebug, Authenticated
<1>10. CASE ProbeConfirmsUser
  BY <1>10 DEF ProbeConfirmsUser, ExchangeOk, ConfirmedUserMode, CanWrite,
         Suspends, sessionVars, Ends, ExchangeFrame, Write, connectionVars,
         ChannelInv
<1>11. CASE ProbeUndetermined
  BY <1>11 DEF ProbeUndetermined, ExchangeOk, ConfirmedUserMode, Ends,
         ExchangeFrame, connectionVars
<1>12. CASE LoginAccepted
  <2>1. CASE Ends("ok") \/ Ends("failed")
    BY <2>1, <1>12 DEF LoginAccepted, Ends, ExchangeFrame
  <2>2. CASE target # "establish" /\ Suspends("command", target, conn, generation)
    BY <2>2, <1>12, WriteLogin DEF LoginAccepted, Suspends, ExchangeFrame
  <2>3. QED
    BY <2>1, <2>2, <1>12 DEF LoginAccepted, Authenticated
<1>13. CASE LoginRefused
  BY <1>13 DEF LoginRefused, ExchangeOk, Ends, ExchangeFrame, connectionVars
<1>14. CASE CommandAnswered
  BY <1>14 DEF CommandAnswered, ExchangeOk, Ends, sessionVars, ExchangeFrame,
         connectionVars
<1>15. CASE ExchangeFails
  BY <1>15 DEF ExchangeFails, ExchangeFailed, NoAnswerLeft, Ends, DropAnswers
<1>16. CASE Stop
  BY <1>16 DEF Stop, deviceVars, connectionVars, backoffVars, sessionVars
<1>17. CASE Logout
  BY <1>17 DEF Logout, Write, connectionVars, backoffVars, sessionVars
<1>18. CASE LogoutSkipped
  BY <1>18 DEF LogoutSkipped, deviceVars, transportVars, sessionVars
<1>19. CASE LogoutAnswered
  BY <1>19 DEF LogoutAnswered, ExchangeOk, NotVerified, ExchangeFrame,
         connectionVars
<1>20. CASE LogoutFails
  BY <1>20 DEF LogoutFails, ExchangeFailed, NoAnswerLeft, DropAnswers
<1>21. CASE Disconnects
  BY <1>21 DEF Disconnects, Disconnect, sessionVars, DropAnswers
<1>22. CASE ConsoleAnswers
  BY <1>22 DEF ConsoleAnswers, Execute, Reply, transportVars,
         EnvironmentFrame, sessionVars
<1>23. CASE ConsoleAnswersOddly
  BY <1>23 DEF ConsoleAnswersOddly, Execute, OddReply, transportVars,
         EnvironmentFrame, sessionVars
<1>24. CASE ConsoleFallsBack
  BY <1>24 DEF ConsoleFallsBack, FallBack, transportVars, EnvironmentFrame,
         sessionVars
<1>25. CASE PeerLeaves
  BY <1>25 DEF PeerLeaves, PeerGone, deviceVars, EnvironmentFrame,
         backoffVars, sessionVars
<1>26. CASE UNCHANGED vars
  BY <1>26 DEF vars, deviceVars, transportVars
<1>27. QED
  BY <1>1, <1>2, <1>3, <1>4, <1>5, <1>6, <1>7, <1>8, <1>9, <1>10, <1>11,
         <1>12, <1>13, <1>14, <1>15, <1>16, <1>17, <1>18, <1>19, <1>20, <1>21,
         <1>22, <1>23, <1>24, <1>25, <1>26 DEF Next, Program, Shutdown,
         Environment, Terminated

\* No step of a recovery shortens the delay.
LEMMA DelayStep ==
  ASSUME TypeOK, BackoffBounded, [Next]_vars
  PROVE  recovering' => delay' >= delay
<1> USE DelayAssumption DEF TypeOK, TransportTypeOK, BackoffBounded
<1>1. CASE Start
  BY <1>1 DEF Start, BeginConnect, sessionVars, backoffVars
<1>2. CASE StartConnected
  BY <1>2 DEF StartConnected, Opened, Proceeds, sessionVars, Opening,
         Suspends, Write
<1>3. CASE StartFails
  BY <1>3 DEF StartFails, OpenFailed, deviceVars, sessionVars, Opening,
         Doubled, connectionVars
<1>4. ASSUME NEW cmd \in Acquisition, ExecuteConnected(cmd)
      PROVE  recovering' => delay' >= delay
  BY <1>4 DEF ExecuteConnected, Write, connectionVars, backoffVars,
         sessionVars
<1>5. ASSUME NEW cmd \in Acquisition, ExecuteReconnects(cmd)
      PROVE  recovering' => delay' >= delay
  BY <1>5 DEF ExecuteReconnects, BeginEnsure, sessionVars, backoffVars
<1>6. CASE EnsureWakes
  BY <1>6 DEF EnsureWakes, WakeUp, deviceVars, sessionVars, backoffVars
<1>7. CASE EnsureDone
  BY <1>7 DEF EnsureDone, Opened, Proceeds, sessionVars, Opening, Suspends,
         Write
<1>8. CASE EnsureFails
  BY <1>8 DEF EnsureFails, OpenFailed, deviceVars, sessionVars, Opening,
         Doubled, connectionVars
<1>9. CASE ProbeConfirmsDebug
  BY <1>9 DEF ProbeConfirmsDebug, ExchangeOk, Authenticated, ExchangeFrame,
         Ends, Suspends, connectionVars, Write
<1>10. CASE ProbeConfirmsUser
  BY <1>10 DEF ProbeConfirmsUser, ExchangeOk, Suspends, sessionVars, Ends,
         ExchangeFrame, Write, connectionVars
<1>11. CASE ProbeUndetermined
  BY <1>11 DEF ProbeUndetermined, ExchangeOk, Ends, ExchangeFrame,
         connectionVars
<1>12. CASE LoginAccepted
  BY <1>12 DEF LoginAccepted, ExchangeOk, Authenticated, ExchangeFrame, Ends,
         Suspends, connectionVars, Write
<1>13. CASE LoginRefused
  BY <1>13 DEF LoginRefused, ExchangeOk, Ends, ExchangeFrame, connectionVars
<1>14. CASE CommandAnswered
  BY <1>14 DEF CommandAnswered, ExchangeOk, Ends, sessionVars, ExchangeFrame,
         connectionVars
<1>15. CASE ExchangeFails
  BY <1>15 DEF ExchangeFails, ExchangeFailed, Ends, Doubled
<1>16. CASE Stop
  BY <1>16 DEF Stop, deviceVars, connectionVars, backoffVars, sessionVars
<1>17. CASE Logout
  BY <1>17 DEF Logout, Write, connectionVars, backoffVars, sessionVars
<1>18. CASE LogoutSkipped
  BY <1>18 DEF LogoutSkipped, deviceVars, transportVars, sessionVars
<1>19. CASE LogoutAnswered
  BY <1>19 DEF LogoutAnswered, ExchangeOk, NotVerified, ExchangeFrame,
         connectionVars
<1>20. CASE LogoutFails
  BY <1>20 DEF LogoutFails, ExchangeFailed, Doubled
<1>21. CASE Disconnects
  BY <1>21 DEF Disconnects, Disconnect, sessionVars
<1>22. CASE ConsoleAnswers
  BY <1>22 DEF ConsoleAnswers, transportVars, EnvironmentFrame, sessionVars
<1>23. CASE ConsoleAnswersOddly
  BY <1>23 DEF ConsoleAnswersOddly, transportVars, EnvironmentFrame,
         sessionVars
<1>24. CASE ConsoleFallsBack
  BY <1>24 DEF ConsoleFallsBack, FallBack, transportVars, EnvironmentFrame,
         sessionVars
<1>25. CASE PeerLeaves
  BY <1>25 DEF PeerLeaves, PeerGone, deviceVars, EnvironmentFrame,
         backoffVars, sessionVars
<1>26. CASE UNCHANGED vars
  BY <1>26 DEF vars, deviceVars, transportVars
<1>27. QED
  BY <1>1, <1>2, <1>3, <1>4, <1>5, <1>6, <1>7, <1>8, <1>9, <1>10, <1>11,
         <1>12, <1>13, <1>14, <1>15, <1>16, <1>17, <1>18, <1>19, <1>20, <1>21,
         <1>22, <1>23, <1>24, <1>25, <1>26 DEF Next, Program, Shutdown,
         Environment, Terminated

(***************************************************************************)
(* The theorems.                                                           *)
(***************************************************************************)
\* The initial state has the types and the invariant.
LEMMA InitInv == Init => TypeOK /\ SessionInv
<1>1. SUFFICES ASSUME Init
               PROVE  TypeOK /\ SessionInv
  OBVIOUS
<1> USE <1>1 DEF Init, DeviceInit, TransportInit
<1>2. DeviceTypeOK
  BY EmptySeq DEF DeviceTypeOK
<1>3. TransportTypeOK
  BY DelayAssumption DEF TransportTypeOK, Requests, Acquisition
<1>4. SessionTypeOK
  BY DEF SessionTypeOK, Health
<1>5. ControlInv /\ ConnectionInv /\ HealthInv
  BY DEF ControlInv, ConnectionInv, HealthInv
<1>6. BackoffBounded
  BY DelayAssumption DEF BackoffBounded
<1>7. ChannelInv /\ LoginInv
  BY DEF ChannelInv, LoginInv
<1>8. QED
  BY <1>2, <1>3, <1>4, <1>5, <1>6, <1>7 DEF TypeOK, SessionInv

\* Every step preserves both.
LEMMA StepInv == TypeOK /\ SessionInv /\ [Next]_vars => (TypeOK /\ SessionInv)'
<1>1. SUFFICES ASSUME TypeOK, SessionInv, [Next]_vars
               PROVE  TypeOK' /\ SessionInv'
  OBVIOUS
<1> USE <1>1
<1>2. TypeOK'
  BY DeviceTypeStep, FlagStep, TransportRestStep, SessionTypeStep
     DEF TypeOK, TransportTypeOK, TransportRestOK
<1>3. ControlInv' /\ ConnectionInv'
  BY ControlStep, ConnectionStep DEF SessionInv
<1>4. BackoffBounded' /\ HealthInv'
  BY BackoffStep, HealthStep DEF SessionInv
<1>5. ~LateAnswers => ChannelInv' /\ LoginInv'
  BY ChannelStep, LoginStep DEF SessionInv
<1>6. QED
  BY <1>2, <1>3, <1>4, <1>5 DEF SessionInv

\* Every variable keeps its type, and the inductive invariant of the session
\* holds in every reachable state.
THEOREM SessionInvariant == Spec => [](TypeOK /\ SessionInv)
BY InitInv, StepInv, PTL DEF Spec

\* The type invariant on its own.
THEOREM TypeCorrect == Spec => []TypeOK
BY SessionInvariant, PTL

\* A polling command is only ever outstanding on a connection whose debug
\* mode was verified, whatever times out, is reset or answers late.
THEOREM CommandsAreVerified == Spec => []CommandsOnVerifiedSession
<1>1. TypeOK /\ SessionInv => CommandsOnVerifiedSession
  BY DEF SessionInv, HealthInv, CommandsOnVerifiedSession, TypeOK,
         TransportTypeOK, NotVerified
<1>2. QED
  BY <1>1, SessionInvariant, PTL

\* The health store and _verified_generation never disagree.
THEOREM HealthIsVerification == Spec => []HealthFollowsVerification
<1>1. TypeOK /\ SessionInv => HealthFollowsVerification
  BY DEF SessionInv, HealthInv, HealthFollowsVerification
<1>2. QED
  BY <1>1, SessionInvariant, PTL

\* exchange() never reconnects by itself under an established session.
THEOREM NoReconnectInExchange == Spec => []NoImplicitReconnect
<1>1. SessionInv => NoImplicitReconnect
  BY DEF SessionInv, ConnectionInv, NoImplicitReconnect
<1>2. QED
  BY <1>1, SessionInvariant, PTL

\* The reconnect delay stays within the configured bounds.
THEOREM DelayIsBounded == Spec => []BackoffBounded
<1>1. SessionInv => BackoffBounded
  BY DEF SessionInv
<1>2. QED
  BY <1>1, SessionInvariant, PTL

\* No failure shortens the reconnect delay.
THEOREM DelayOnlyGrows == Spec => BackoffGrows
<1>1. TypeOK /\ SessionInv /\ [Next]_vars => [recovering' => delay' >= delay]_vars
  BY DelayStep DEF SessionInv
<1>2. QED
  BY <1>1, SessionInvariant, PTL DEF Spec, BackoffGrows

\* Unless answers outlive their connection, the console executes no login in
\* debug mode.
THEOREM LoginIsSafe == Spec => [](~LateAnswers => LoginOnlyInUserMode)
<1>1. TypeOK /\ SessionInv => (~LateAnswers => LoginOnlyInUserMode)
  BY DEF SessionInv, LoginInv, LoginOnlyInUserMode, TypeOK, DeviceTypeOK
<1>2. QED
  BY <1>1, SessionInvariant, PTL

\* Unless answers outlive their connection, an exchange of the running
\* service reads the answer to its own request.
THEOREM AnswersAreAttributed ==
  Spec => [](~LateAnswers => AnswerBelongsToRequest)
<1>1. TypeOK /\ SessionInv => (~LateAnswers => AnswerBelongsToRequest)
  BY DEF SessionInv, ChannelInv, ConnectionInv, AnswerBelongsToRequest
<1>2. QED
  BY <1>1, SessionInvariant, PTL

\* The arithmetic of "at most one": no answer is on its way together with a
\* request, and there is at most one of each.
LEMMA AtMostOne ==
  ASSUME TypeOK, ChannelInv, phase \in {"starting", "running"}, conn # "none"
  PROVE  OutstandingOnConnection <= 1
<1> DEFINE asked == {i \in DOMAIN inbox : inbox[i].gen = generation}
           given == {i \in DOMAIN wire : wire[i].gen = generation}
<1>1. asked \subseteq {Len(inbox)}
  BY DEF ChannelInv
<1>2. given \subseteq {1}
  BY DEF ChannelInv, TypeOK, DeviceTypeOK
<1>3. asked = {} \/ given = {}
  BY DEF ChannelInv, TypeOK, DeviceTypeOK
<1>4. asked = {} \/ asked = {Len(inbox)}
  BY <1>1
<1>5. given = {} \/ given = {1}
  BY <1>2
<1> HIDE DEF asked, given
<1>6. /\ Cardinality({}) = 0
      /\ Cardinality({Len(inbox)}) = 1
      /\ Cardinality({1}) = 1
  BY FS_EmptySet, FS_Singleton
<1>7. \/ Cardinality(asked) = 0 /\ Cardinality(given) \in {0, 1}
      \/ Cardinality(given) = 0 /\ Cardinality(asked) \in {0, 1}
  BY <1>3, <1>4, <1>5, <1>6, Zenon
<1>8. Cardinality(asked) + Cardinality(given) <= 1
  BY <1>7
<1>9. QED
  BY <1>8 DEF OutstandingOnConnection, asked, given

\* Unless answers outlive their connection, the service has one console
\* command outstanding on a connection at a time until it is stopped.
THEOREM OneCommandAtATime ==
  Spec => [](~LateAnswers => OneOutstandingWhileServing)
<1>1. TypeOK /\ SessionInv => (~LateAnswers => OneOutstandingWhileServing)
  BY AtMostOne DEF SessionInv, OneOutstandingWhileServing, OneOutstanding
<1>2. QED
  BY <1>1, SessionInvariant, PTL


(***************************************************************************)
(* ConsoleSession implements the safety part of AbstractSession: every     *)
(* step is one of its steps, or one that no user of the session sees.      *)
(* That every call of execute() ends stays with the run.                   *)
(***************************************************************************)
\* What the simulation needs beyond SessionInv: until the first session is
\* established nobody is authenticated, so a failing start() changes nothing.
StartInv == phase \in {"new", "starting"} => ~health.authenticated

\* What the users of the session see.
Seen == <<Life, health.authenticated, Stage, outcome>>

\* Only the end of establish() and execute() authenticate, and both leave the
\* start behind.
LEMMA StartStep ==
  ASSUME TypeOK, ControlInv, StartInv, [Next]_vars
  PROVE  StartInv'
<1> USE DEF TypeOK, SessionTypeOK, Health, ControlInv, StartInv, MarkUnverified,
       MarkUnverifiedUnlessError, sessionVars
<1>1. CASE Start
  BY <1>1 DEF Start
<1>2. CASE StartConnected
  BY <1>2 DEF StartConnected, Proceeds, Suspends
<1>3. CASE StartFails
  BY <1>3 DEF StartFails
<1>4. ASSUME NEW cmd \in Acquisition,
             ExecuteConnected(cmd) \/ ExecuteReconnects(cmd)
      PROVE  StartInv'
  BY <1>4 DEF ExecuteConnected, ExecuteReconnects
<1>5. CASE EnsureWakes \/ EnsureFails
  BY <1>5 DEF EnsureWakes, EnsureFails
<1>6. CASE EnsureDone
  BY <1>6 DEF EnsureDone, Proceeds, Suspends
<1>7. CASE ProbeConfirmsDebug \/ LoginAccepted
  BY <1>7 DEF ProbeConfirmsDebug, LoginAccepted, Authenticated, Ends, Suspends
<1>8. CASE ProbeConfirmsUser
  BY <1>8 DEF ProbeConfirmsUser, Suspends, Ends
<1>9. CASE ProbeUndetermined
  BY <1>9 DEF ProbeUndetermined, Ends
<1>10. CASE LoginRefused
  BY <1>10 DEF LoginRefused, LeftDebug
<1>11. CASE CommandAnswered
  BY <1>11 DEF CommandAnswered, LeftDebug, Ends
<1>12. CASE ExchangeFails
  BY <1>12 DEF ExchangeFails, Ends
<1>13. CASE Stop \/ LogoutSkipped \/ LogoutAnswered \/ LogoutFails \/ Disconnects
  BY <1>13 DEF Stop, LogoutSkipped, LogoutAnswered, LogoutFails, Disconnects
<1>14. CASE Logout
  BY <1>14 DEF Logout
<1>15. CASE Environment
  BY <1>15 DEF Environment, ConsoleAnswers, ConsoleAnswersOddly,
         ConsoleFallsBack, PeerLeaves, EnvironmentFrame
<1>16. CASE UNCHANGED vars
  BY <1>16 DEF vars
<1>17. QED
  BY <1>1, <1>2, <1>3, <1>4, <1>5, <1>6, <1>7, <1>8, <1>9, <1>10, <1>11,
         <1>12, <1>13, <1>14, <1>15, <1>16 DEF Next, Program, Shutdown,
         Terminated

\* The session that has been verified is seen as authenticated.
LEMMA AuthenticatedStep ==
  ASSUME TypeOK, ControlInv, Authenticated, target' = target,
         pc \in {"probe", "login"}
  PROVE  Session!Next
<1> USE DEF TypeOK, SessionTypeOK, ControlInv, Life, Stage, MarkAuthenticated,
       MarkUnverified, Ends, Suspends
<1>1. CASE target = "establish"
  BY <1>1 DEF Authenticated, Session!Next, Session!Establish
<1>2. CASE target # "establish" /\ CanWrite(conn)
  BY <1>2 DEF Authenticated, Session!Next, Session!Send
<1>3. CASE target # "establish" /\ ~CanWrite(conn)
  <2>1. phase = "running"
    BY <1>3
  <2>2. health'.authenticated = FALSE /\ pc' = "idle" /\ outcome' = "failed"
        /\ phase' = phase
    BY <1>3 DEF Authenticated
  <2>3. QED
    BY <1>3, <2>1, <2>2 DEF Session!Next, Session!NotSent
<1>4. QED
  BY <1>1, <1>2, <1>3

\* A probe or login that fails is a start that fails or a command not sent.
LEMMA FailureStep ==
  ASSUME TypeOK, ControlInv, StartInv, Ends("failed"), target' = target,
         pc \in {"probe", "login"},
         health' = health \/ health'.authenticated = FALSE
  PROVE  Session!Next
<1> USE DEF TypeOK, SessionTypeOK, Health, ControlInv, StartInv, Life, Stage, Ends
<1>1. CASE target = "establish"
  BY <1>1 DEF Session!Next, Session!StartFails
<1>2. CASE target # "establish"
  BY <1>2 DEF Session!Next, Session!NotSent
<1>3. QED
  BY <1>1, <1>2

\* So is one whose handler keeps an error that is already there.
LEMMA UnlessErrorStep ==
  ASSUME TypeOK, ControlInv, StartInv, Ends("failed"), target' = target,
         pc \in {"probe", "login"}, MarkUnverifiedUnlessError
  PROVE  Session!Next
<1>1. health' = health \/ health'.authenticated = FALSE
  BY DEF MarkUnverifiedUnlessError, MarkUnverified, sessionVars
<1>2. QED
  BY <1>1, FailureStep

\* Every step of the session is one of the abstract session, or is not seen.
LEMMA SimulationStep ==
  ASSUME TypeOK, SessionInv, StartInv, [Next]_vars
  PROVE  [Session!Next]_(Session!vars)
<1> USE DEF SessionInv
<1>1. SUFFICES Session!Next \/ UNCHANGED Seen
  BY DEF Seen, Session!vars
<1> USE DEF TypeOK, SessionTypeOK, Health, ControlInv, Life, Stage, Seen,
       sessionVars
<1>2. CASE Start
  BY <1>2 DEF Start
<1>3. CASE StartConnected
  BY <1>3 DEF StartConnected, Proceeds, Suspends
<1>4. CASE StartFails
  BY <1>4 DEF StartFails, Session!Next, Session!StartFails
<1>5. ASSUME NEW cmd \in Acquisition, ExecuteConnected(cmd)
      PROVE  Session!Next
  <2>1. cmd # "establish"
    BY EstablishAssumption DEF Acquisition
  <2>2. CASE pc' = "probe"
    BY <1>5, <2>1, <2>2 DEF ExecuteConnected, Session!Next, Session!Ask
  <2>3. CASE pc' = "command"
    <3>1. health.authenticated
      BY <1>5, <2>3 DEF ExecuteConnected, HealthInv, TransportTypeOK, NotVerified
    <3>2. QED
      BY <1>5, <2>1, <2>3, <3>1 DEF ExecuteConnected, Session!Next,
             Session!AskAndSend
  <2>4. QED
    BY <1>5, <2>2, <2>3 DEF ExecuteConnected
<1>6. ASSUME NEW cmd \in Acquisition, ExecuteReconnects(cmd)
      PROVE  Session!Next
  <2>1. cmd # "establish"
    BY EstablishAssumption DEF Acquisition
  <2>2. QED
    BY <1>6, <2>1 DEF ExecuteReconnects, Session!Next, Session!Ask
<1>7. CASE EnsureWakes
  BY <1>7 DEF EnsureWakes
<1>8. CASE EnsureDone
  <2>1. CASE pc' = "probe"
    BY <1>8, <2>1 DEF EnsureDone, Proceeds, Suspends
  <2>2. CASE pc' = "command"
    <3>1. verified = generation + 1
      BY <1>8, <2>2 DEF EnsureDone, Proceeds, Suspends, Opened
    <3>2. health.authenticated
      BY <3>1 DEF HealthInv, TransportTypeOK, NotVerified
    <3>3. QED
      BY <1>8, <2>2, <3>2 DEF EnsureDone, Proceeds, Suspends, Session!Next,
             Session!Send
  <2>3. QED
    BY <1>8, <2>1, <2>2 DEF EnsureDone, Proceeds, Suspends
<1>9. CASE EnsureFails
  BY <1>9 DEF EnsureFails, Session!Next, Session!NotSent
<1>10. CASE ProbeConfirmsDebug \/ LoginAccepted
  BY <1>10, AuthenticatedStep DEF ProbeConfirmsDebug, LoginAccepted,
         ExchangeFrame
<1>11. CASE ProbeConfirmsUser
  <2>1. CASE pc' = "login"
    BY <1>11, <2>1 DEF ProbeConfirmsUser, Suspends, Ends, ExchangeFrame
  <2>2. CASE pc' # "login"
    <3>1. Ends("failed") /\ MarkUnverifiedUnlessError /\ target' = target
          /\ pc = "probe"
      BY <1>11, <2>2 DEF ProbeConfirmsUser, Suspends, ExchangeFrame
    <3>2. QED
      BY <3>1, UnlessErrorStep
  <2>3. QED
    BY <2>1, <2>2
<1>12. CASE ProbeUndetermined
  <2>1. Ends("failed") /\ MarkUnverifiedUnlessError /\ target' = target
        /\ pc = "probe"
    BY <1>12 DEF ProbeUndetermined, ExchangeFrame
  <2>2. QED
    BY <2>1, UnlessErrorStep
<1>13. CASE LoginRefused
  BY <1>13, FailureStep DEF LoginRefused, ExchangeFrame, LeftDebug
<1>14. CASE CommandAnswered
  <2>1. target # "establish" /\ target' = target
    BY <1>14 DEF CommandAnswered, ExchangeFrame
  <2>2. CASE outcome' = "ok"
    BY <1>14, <2>1, <2>2 DEF CommandAnswered, Ends, Session!Next,
           Session!Answered
  <2>3. CASE outcome' # "ok"
    BY <1>14, <2>1, <2>3 DEF CommandAnswered, Ends, LeftDebug, Session!Next,
           Session!Lost
  <2>4. QED
    BY <2>2, <2>3
<1>15. CASE ExchangeFails
  <2>1. CASE pc = "command"
    BY <1>15, <2>1 DEF ExchangeFails, Ends, MarkUnverified, Session!Next,
           Session!Lost
  <2>2. CASE pc # "command"
    <3>1. Ends("failed") /\ MarkUnverifiedUnlessError /\ target' = target
          /\ pc \in {"probe", "login"}
      BY <1>15, <2>2 DEF ExchangeFails
    <3>2. QED
      BY <3>1, UnlessErrorStep
  <2>3. QED
    BY <2>1, <2>2
<1>16. CASE Stop
  BY <1>16 DEF Stop, Session!Next, Session!Stop
<1>17. CASE Logout
  BY <1>17 DEF Logout
<1>18. CASE LogoutSkipped
  BY <1>18 DEF LogoutSkipped
<1>19. CASE LogoutAnswered \/ LogoutFails
  <2>1. health'.authenticated = FALSE /\ phase = "stopping" /\ pc = "logout"
    BY <1>19 DEF LogoutAnswered, LogoutFails, MarkUnverified
  <2>2. CASE health.authenticated
    BY <1>19, <2>1, <2>2 DEF LogoutAnswered, LogoutFails, ExchangeFrame,
           Session!Next, Session!Logout
  <2>3. CASE ~health.authenticated
    BY <1>19, <2>1, <2>3 DEF LogoutAnswered, LogoutFails, ExchangeFrame
  <2>4. QED
    BY <2>2, <2>3
<1>20. CASE Disconnects
  BY <1>20 DEF Disconnects, Session!Next, Session!Disconnect
<1>21. CASE Environment
  BY <1>21 DEF Environment, ConsoleAnswers, ConsoleAnswersOddly,
         ConsoleFallsBack, PeerLeaves, EnvironmentFrame
<1>22. CASE UNCHANGED vars
  BY <1>22 DEF vars
<1>23. QED
  BY <1>2, <1>3, <1>4, <1>5, <1>6, <1>7, <1>8, <1>9, <1>10, <1>11, <1>12,
         <1>13, <1>14, <1>15, <1>16, <1>17, <1>18, <1>19, <1>20, <1>21, <1>22
     DEF Next, Program, Shutdown, Terminated

\* The console session does nothing that the abstract session does not: a
\* command is sent in an authenticated session only, one that is lost ends it,
\* and no connection, probe or login shows.
THEOREM SessionRefines == Spec => Session!Safety
<1>1. Init => StartInv /\ Session!Init
  BY DEF Init, StartInv, Session!Init, Life, Stage
<1>2. TypeOK /\ SessionInv /\ StartInv /\ [Next]_vars => StartInv'
  BY StartStep DEF SessionInv
<1>3. Spec => []StartInv
  BY <1>1, <1>2, SessionInvariant, PTL DEF Spec
<1>4. TypeOK /\ SessionInv /\ StartInv /\ [Next]_vars
        => [Session!Next]_(Session!vars)
  BY SimulationStep
<1>5. QED
  BY <1>1, <1>3, <1>4, SessionInvariant, PTL DEF Spec, Session!Safety
=============================================================================
