---------------------------- MODULE AbstractSession ----------------------------
(***************************************************************************)
(* What AuthenticatedConsoleClient and ServiceRuntime promise to those who *)
(* use them: polling, which calls execute(), and the outputs, which read   *)
(* the health store.  There are no connections, answers, probes or logins  *)
(* here.  ConsoleSession implements this module, and Status is built on it.*)
(***************************************************************************)
VARIABLES
  life,           \* starting, serving, failed, stopping or stopped
  authenticated,  \* ConsoleSessionHealth.authenticated
  stage,          \* of the call of execute(): none; asked, before its command
                  \* is written; sent, while its command is outstanding
  outcome         \* how the last call ended: none while there is none

vars == <<life, authenticated, stage, outcome>>

Init ==
  /\ life = "starting"
  /\ authenticated = FALSE
  /\ stage = "none"
  /\ outcome = "none"

Establish ==
  /\ life = "starting"
  /\ life' = "serving"
  /\ authenticated' = TRUE
  /\ UNCHANGED <<stage, outcome>>

\* Nothing that start() met can have left an authenticated session.
StartFails ==
  /\ life = "starting"
  /\ life' = "failed"
  /\ UNCHANGED <<authenticated, stage, outcome>>

Ask ==
  /\ life = "serving" /\ stage = "none"
  /\ stage' = "asked"
  /\ outcome' = "none"
  /\ UNCHANGED <<life, authenticated>>

\* Only in an authenticated session the command goes out without a probe.
AskAndSend ==
  /\ life = "serving" /\ stage = "none"
  /\ authenticated
  /\ stage' = "sent"
  /\ outcome' = "none"
  /\ UNCHANGED <<life, authenticated>>

Send ==
  /\ stage = "asked"
  /\ stage' = "sent"
  /\ authenticated' = TRUE
  /\ UNCHANGED <<life, outcome>>

Answered ==
  /\ stage = "sent"
  /\ stage' = "none"
  /\ outcome' = "ok"
  /\ UNCHANGED <<life, authenticated>>

\* The command did not come back, or came back outside debug mode.
Lost ==
  /\ stage = "sent"
  /\ stage' = "none"
  /\ outcome' = "failed"
  /\ authenticated' = FALSE
  /\ UNCHANGED life

\* No connection, or one whose debug mode is not confirmed.
NotSent ==
  /\ stage = "asked"
  /\ stage' = "none"
  /\ outcome' = "failed"
  /\ authenticated' \in {authenticated, FALSE}
  /\ UNCHANGED life

Stop ==
  /\ life \in {"serving", "failed"}
  /\ life' = "stopping"
  /\ stage' = "none"
  /\ UNCHANGED <<authenticated, outcome>>

Logout ==
  /\ life = "stopping"
  /\ authenticated
  /\ authenticated' = FALSE
  /\ UNCHANGED <<life, stage, outcome>>

Disconnect ==
  /\ life = "stopping"
  /\ life' = "stopped"
  /\ UNCHANGED <<authenticated, stage, outcome>>

Next ==
  \/ Establish \/ StartFails
  \/ Ask \/ AskAndSend \/ Send \/ Answered \/ Lost \/ NotSent
  \/ Stop \/ Logout \/ Disconnect

\* A call of execute() ends, whatever the peer and the console do.
CallsEnd == stage # "none" ~> stage = "none"

Safety == Init /\ [][Next]_vars

Spec == Safety /\ CallsEnd
=============================================================================
