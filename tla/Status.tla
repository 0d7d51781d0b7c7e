-------------------------------- MODULE Status --------------------------------
(***************************************************************************)
(* The status a reader is shown: StateQuery.health_for (outputs/api/       *)
(* query.py) over the published state, the MQTT health and the console     *)
(* session's health, while the polling cycles of polling.py drive the      *)
(* session of AbstractSession and paho's thread the MQTT health.           *)
(*                                                                         *)
(* Of a cycle only what decides its outcome is left: how many commands it  *)
(* sends and whether one of them failed.  The session's health changes     *)
(* during a cycle, the published state at its end.  A reader is a request  *)
(* in a worker thread: it reads the three sources one after the other.     *)
(* Requests are served between start() and stop(), so stop() is left out.  *)
(***************************************************************************)
EXTENDS Naturals

CONSTANTS
  MaxModules,  \* bound on modules in the rack
  MaxFaults    \* bound on failed commands and lost MQTT connections

ASSUME BoundsAssumption == MaxModules \in Nat /\ MaxFaults \in Nat

VARIABLES
  life, authenticated, stage, outcome,  \* of AbstractSession
  published,  \* CurrentState: the connection, and whether errors is empty
  mapped,     \* how many positions the inventory maps
  cycle,      \* the cycle that holds the cycle lock, or none
  todo,       \* commands it has still to send, the outstanding one included
  failed,     \* whether it has collected an error
  found,      \* identities an inventory cycle has read so far
  mqtt,       \* MqttHealth: disabled, up (connected) or down
  page,       \* what the reader has read
  faults      \* faults so far

sessionVars == <<life, authenticated, stage, outcome>>
cycleVars   == <<cycle, todo, failed, found>>
vars == <<sessionVars, published, mapped, cycleVars, mqtt, page, faults>>

Session == INSTANCE AbstractSession

Connections == {"starting", "discovering", "online", "degraded", "offline"}

State == [connection: Connections, errors: BOOLEAN]

NoPage == [at |-> "none", state |-> [connection |-> "starting", errors |-> FALSE],
           mqtt |-> "disabled", authenticated |-> FALSE, status |-> "starting"]

TypeOK ==
  /\ published \in State
  /\ mapped \in 0..MaxModules
  /\ cycle \in {"none", "inventory", "identities", "rack", "module"}
  /\ todo \in 0..MaxModules + 1
  /\ failed \in BOOLEAN
  /\ found \in 0..MaxModules
  /\ mqtt \in {"disabled", "up", "down"}
  /\ page \in [at: {"none", "state", "mqtt", "shown"}, state: State,
               mqtt: {"disabled", "up", "down"}, authenticated: BOOLEAN,
               status: Connections]
  /\ faults \in 0..MaxFaults

Init ==
  /\ Session!Init
  /\ published = [connection |-> "starting", errors |-> FALSE]
  /\ mapped = 0
  /\ cycle = "none" /\ todo = 0 /\ failed = FALSE /\ found = 0
  /\ mqtt \in {"disabled", "down"}
  /\ page = NoPage
  /\ faults = 0

(***************************************************************************)
(* Start.                                                                  *)
(***************************************************************************)
\* connect() and establish() succeed; initialize() begins the first cycle.
Starts ==
  /\ Session!Establish
  /\ published' = [published EXCEPT !.connection = "discovering"]
  /\ cycle' = "inventory" /\ todo' = 1
  /\ UNCHANGED <<mapped, failed, found, mqtt, page, faults>>

StartFails ==
  /\ Session!StartFails
  /\ faults < MaxFaults
  /\ faults' = faults + 1
  /\ published' = [published EXCEPT !.connection = "offline"]
  /\ UNCHANGED <<mapped, cycleVars, mqtt, page>>

(***************************************************************************)
(* The polling cycles.                                                     *)
(***************************************************************************)
\* Mutation of Published: once degraded, always degraded.
PublishedLatched(errors) ==
  published' = [connection |-> IF errors \/ published.connection = "degraded"
                                 THEN "degraded" ELSE "online",
                errors |-> errors]

\* _publish: the state speaks for the cycle that has just ended.
Published(errors) ==
  published' = [connection |-> IF errors THEN "degraded" ELSE "online",
                errors |-> errors]

CommandsOf(kind) ==
  CASE kind = "inventory" -> 1
    [] kind = "rack"      -> mapped + 1
    [] kind = "module"    -> mapped

\* A cycle gets the lock.  A module cycle without modules publishes at once.
CycleBegins(kind) ==
  /\ life = "serving" /\ cycle = "none"
  /\ \/ /\ CommandsOf(kind) > 0
        /\ cycle' = kind /\ todo' = CommandsOf(kind)
        /\ UNCHANGED published
     \/ /\ CommandsOf(kind) = 0
        /\ Published(FALSE)
        /\ UNCHANGED <<cycle, todo>>
  /\ UNCHANGED <<sessionVars, mapped, failed, found, mqtt, page, faults>>

CycleEnds(errors) ==
  /\ Published(errors)
  /\ cycle' = "none" /\ todo' = 0 /\ failed' = FALSE /\ found' = 0

\* The answer to `pwr' names the occupied positions; their identities come next.
TopologyRead(ok) ==
  \/ ~ok /\ CycleEnds(TRUE) /\ UNCHANGED mapped
  \/ ok /\ mapped' = 0 /\ CycleEnds(FALSE)
  \/ /\ ok
     /\ cycle' = "identities"
     /\ todo' \in 1..MaxModules
     /\ UNCHANGED <<published, mapped, failed, found>>

IdentityRead(ok) ==
  LET identified == IF ok THEN found + 1 ELSE found
  IN  \/ /\ todo > 1
         /\ todo' = todo - 1
         /\ failed' = (failed \/ ~ok)
         /\ found' = identified
         /\ UNCHANGED <<published, mapped, cycle>>
      \/ /\ todo = 1
         /\ CycleEnds(failed \/ ~ok)
         /\ mapped' = identified

MeasurementRead(ok) ==
  /\ UNCHANGED mapped
  /\ \/ /\ todo > 1
        /\ todo' = todo - 1
        /\ failed' = (failed \/ ~ok)
        /\ UNCHANGED <<published, cycle, found>>
     \/ /\ todo = 1
        /\ CycleEnds(failed \/ ~ok)

\* The cycle goes on with what a command returned or raised.
Read(ok) ==
  \/ cycle = "inventory" /\ TopologyRead(ok)
  \/ cycle = "identities" /\ IdentityRead(ok)
  \/ cycle \in {"rack", "module"} /\ MeasurementRead(ok)

CommandBegins ==
  /\ cycle # "none"
  /\ Session!Ask \/ Session!AskAndSend
  /\ UNCHANGED <<published, mapped, cycleVars, mqtt, page, faults>>

CommandSent ==
  /\ Session!Send
  /\ UNCHANGED <<published, mapped, cycleVars, mqtt, page, faults>>

CommandAnswered ==
  /\ Session!Answered
  /\ Read(TRUE)
  /\ UNCHANGED <<mqtt, page, faults>>

\* The parser or validate_cell_count refuses the answer, or there is none.
CommandFails ==
  /\ Session!Answered \/ Session!Lost \/ Session!NotSent
  /\ faults < MaxFaults
  /\ faults' = faults + 1
  /\ Read(FALSE)
  /\ UNCHANGED <<mqtt, page>>

(***************************************************************************)
(* The MQTT health, written by paho's thread.                              *)
(***************************************************************************)
MqttConnects ==
  /\ mqtt = "down"
  /\ mqtt' = "up"
  /\ UNCHANGED <<sessionVars, published, mapped, cycleVars, page, faults>>

MqttLost ==
  /\ mqtt = "up"
  /\ faults < MaxFaults
  /\ faults' = faults + 1
  /\ mqtt' = "down"
  /\ UNCHANGED <<sessionVars, published, mapped, cycleVars, page>>

(***************************************************************************)
(* A reader.                                                               *)
(***************************************************************************)
\* health_for: the later rule wins.
StatusOf(connection, link, session) ==
  CASE connection \in {"online", "discovering"} /\ ~session -> "offline"
    [] connection = "online" /\ session /\ link = "down"    -> "degraded"
    [] OTHER                                                -> connection

ReadState ==
  /\ page.at = "none"
  /\ page' = [page EXCEPT !.at = "state", !.state = published]
  /\ UNCHANGED <<sessionVars, published, mapped, cycleVars, mqtt, faults>>

ReadMqtt ==
  /\ page.at = "state"
  /\ page' = [page EXCEPT !.at = "mqtt", !.mqtt = mqtt]
  /\ UNCHANGED <<sessionVars, published, mapped, cycleVars, mqtt, faults>>

\* Mutation of ReadConsole: the MQTT health to be shown is read once more.
ReadConsoleAndMqtt ==
  /\ page.at = "mqtt"
  /\ page' = [page EXCEPT
       !.at = "shown",
       !.mqtt = mqtt,
       !.authenticated = authenticated,
       !.status = StatusOf(page.state.connection, page.mqtt, authenticated)]
  /\ UNCHANGED <<sessionVars, published, mapped, cycleVars, mqtt, faults>>

ReadConsole ==
  /\ page.at = "mqtt"
  /\ page' = [page EXCEPT
       !.at = "shown",
       !.authenticated = authenticated,
       !.status = StatusOf(page.state.connection, page.mqtt, authenticated)]
  /\ UNCHANGED <<sessionVars, published, mapped, cycleVars, mqtt, faults>>

PageDone ==
  /\ page.at = "shown"
  /\ page' = NoPage
  /\ UNCHANGED <<sessionVars, published, mapped, cycleVars, mqtt, faults>>

Command == CommandBegins \/ CommandSent \/ CommandAnswered \/ CommandFails

Reader == ReadState \/ ReadMqtt \/ ReadConsole \/ PageDone

Loops == {"inventory", "rack", "module"}

Next ==
  \/ Starts \/ StartFails
  \/ \E kind \in Loops : CycleBegins(kind)
  \/ Command
  \/ MqttConnects \/ MqttLost
  \/ Reader

Spec == Init /\ [][Next]_vars

\* Every loop gets the cycle lock again and again (Polling: NoStarvation),
\* every call of execute() ends (AbstractSession: CallsEnd), and paho retries
\* its connection for ever.
FairSpec ==
  /\ Spec
  /\ WF_vars(Starts \/ StartFails)
  /\ \A kind \in Loops : SF_vars(CycleBegins(kind))
  /\ WF_vars(Command)
  /\ WF_vars(MqttConnects)

(***************************************************************************)
(* Properties.                                                             *)
(***************************************************************************)
Status == StatusOf(published.connection, mqtt, authenticated)

\* Whatever changed between its reads, a page that shows less than `online'
\* shows the reason next to it, and one that shows `online' shows none.
PageSaysWhy ==
  page.at = "shown" =>
    /\ page.status = "online" =>
         page.authenticated /\ page.mqtt # "down" /\ ~page.state.errors
    /\ page.status = "degraded" => page.state.errors \/ page.mqtt = "down"
    /\ page.status = "offline" => ~page.authenticated

\* Once nothing fails any more, the status becomes and stays `online': no
\* error of a cycle, of the session or of MQTT outlives its cause.
StatusSettles == <>[](Status = "online" \/ life = "failed")
=============================================================================
