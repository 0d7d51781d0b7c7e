---------------------------- MODULE Status_proofs ----------------------------
(***************************************************************************)
(* The safety properties of Status, for any number of modules and faults.  *)
(***************************************************************************)
EXTENDS Status, TLAPS

(***************************************************************************)
(* The inductive invariant.                                                *)
(***************************************************************************)
ShapeOK ==
  /\ authenticated \in BOOLEAN
  /\ published \in State
  /\ failed \in BOOLEAN
  /\ mapped \in Nat /\ found \in Nat
  /\ page \in [at: {"none", "state", "mqtt", "shown"}, state: State,
               mqtt: {"disabled", "up", "down"}, authenticated: BOOLEAN,
               status: Connections]
  /\ mqtt \in {"disabled", "up", "down"}

\* A published state is online without errors and degraded with some.
Consistent(state) ==
  /\ state.connection = "online" => ~state.errors
  /\ state.connection = "degraded" => state.errors

\* `offline' is published by a failed start only, which is final; before and
\* after it nobody is authenticated.
LifeInv ==
  /\ life \in {"starting", "serving", "failed"}
  /\ life # "serving" => ~authenticated /\ stage = "none" /\ cycle = "none"
  /\ life = "serving" => published.connection \in {"discovering", "online", "degraded"}
  /\ published.connection = "offline" => life = "failed"
  /\ stage = "sent" => authenticated

PageInv ==
  /\ Consistent(page.state)
  /\ page.state.connection = "offline" => life = "failed"
  /\ page.at = "shown" =>
       /\ page.status = StatusOf(page.state.connection, page.mqtt, page.authenticated)
       /\ page.state.connection = "offline" => ~page.authenticated

StatusInv ==
  ShapeOK /\ Consistent(published) /\ LifeInv /\ PageInv

(***************************************************************************)
(* The steps.                                                              *)
(***************************************************************************)
\* What a cycle publishes is a consistent state of a running service.
LEMMA PublishedStep ==
  ASSUME NEW errors \in BOOLEAN, Published(errors)
  PROVE  /\ published' \in State
         /\ Consistent(published')
         /\ published'.connection \in {"online", "degraded"}
BY DEF Published, State, Connections, Consistent

\* After a command the cycle goes on, or has published what it has collected.
LEMMA ReadStep ==
  ASSUME StatusInv, life = "serving", NEW ok \in BOOLEAN, Read(ok)
  PROVE  /\ published' \in State /\ failed' \in BOOLEAN
         /\ mapped' \in Nat /\ found' \in Nat
         /\ Consistent(published')
         /\ published'.connection \in {"discovering", "online", "degraded"}
<1> USE DEF StatusInv, ShapeOK, LifeInv
<1>1. ASSUME NEW errors \in BOOLEAN, CycleEnds(errors)
      PROVE  /\ published' \in State /\ failed' \in BOOLEAN
             /\ found' \in Nat
             /\ Consistent(published')
             /\ published'.connection \in {"discovering", "online", "degraded"}
  BY <1>1, PublishedStep DEF CycleEnds
<1>2. CASE cycle = "inventory" /\ TopologyRead(ok)
  <2>1. CASE ~ok /\ CycleEnds(TRUE) /\ UNCHANGED mapped
    BY <1>1, <2>1
  <2>2. CASE ok /\ mapped' = 0 /\ CycleEnds(FALSE)
    BY <1>1, <2>2
  <2>3. CASE ok /\ UNCHANGED <<published, mapped, failed, found>>
    BY <2>3
  <2>4. QED
    BY <1>2, <2>1, <2>2, <2>3 DEF TopologyRead
<1>3. CASE cycle = "identities" /\ IdentityRead(ok)
  <2>1. found + 1 \in Nat /\ (failed \/ ~ok) \in BOOLEAN
    OBVIOUS
  <2>2. CASE todo = 1
    <3>1. CycleEnds(failed \/ ~ok) /\ mapped' \in {found, found + 1}
      BY <1>3, <2>2 DEF IdentityRead
    <3>2. QED
      BY <1>1, <2>1, <3>1
  <2>3. CASE todo > 1
    <3>1. /\ UNCHANGED <<published, mapped, cycle>>
          /\ failed' = (failed \/ ~ok)
          /\ found' \in {found, found + 1}
      BY <1>3, <2>3 DEF IdentityRead
    <3>2. QED
      BY <1>3, <2>1, <3>1
  <2>4. QED
    BY <1>3, <2>2, <2>3 DEF IdentityRead
<1>4. CASE cycle \in {"rack", "module"} /\ MeasurementRead(ok)
  <2>1. CASE CycleEnds(failed \/ ~ok)
    BY <1>1, <1>4, <2>1 DEF MeasurementRead
  <2>2. CASE ~CycleEnds(failed \/ ~ok)
    BY <1>4, <2>2 DEF MeasurementRead
  <2>3. QED
    BY <2>1, <2>2
<1>5. QED
  BY <1>2, <1>3, <1>4 DEF Read

\* Whatever changes the sources leaves a page that is being read alone.
LEMMA PageKept ==
  ASSUME PageInv, page' = page, life = "failed" => life' = "failed"
  PROVE  PageInv'
BY DEF PageInv, Consistent

LEMMA InitInv == Init => StatusInv
<1>1. SUFFICES ASSUME Init
               PROVE  StatusInv
  OBVIOUS
<1> USE <1>1 DEF Init, Session!Init, State, Connections, NoPage
<1>2. ShapeOK
  BY DEF ShapeOK
<1>3. Consistent(published) /\ LifeInv
  BY DEF Consistent, LifeInv
<1>4. PageInv
  BY DEF PageInv, Consistent
<1>5. QED
  BY <1>2, <1>3, <1>4 DEF StatusInv

\* The steps of the service.
LEMMA ServiceStep ==
  ASSUME StatusInv,
         \/ Starts \/ StartFails \/ Command \/ MqttConnects \/ MqttLost
         \/ \E kind \in Loops : CycleBegins(kind)
  PROVE  StatusInv'
<1> USE DEF StatusInv
<1>1. CASE Starts
  <2>1. PageInv'
    BY <1>1, PageKept DEF Starts, Session!Establish
  <2>2. QED
    BY <1>1, <2>1 DEF Starts, Session!Establish, ShapeOK, Consistent, LifeInv,
           State, Connections
<1>2. CASE StartFails
  <2>1. PageInv'
    BY <1>2, PageKept DEF StartFails, Session!StartFails
  <2>2. QED
    BY <1>2, <2>1 DEF StartFails, Session!StartFails, cycleVars, ShapeOK,
           Consistent, LifeInv, State, Connections
<1>3. ASSUME NEW kind \in Loops, CycleBegins(kind)
      PROVE  StatusInv'
  <2>1. PageInv'
    BY <1>3, PageKept DEF CycleBegins, sessionVars
  <2>2. CASE CommandsOf(kind) > 0 /\ UNCHANGED published
    BY <1>3, <2>1, <2>2 DEF CycleBegins, sessionVars, ShapeOK, Consistent,
           LifeInv
  <2>3. CASE CommandsOf(kind) = 0 /\ Published(FALSE)
    <3>1. mapped = 0 \/ mapped + 1 = 0
      <4>1. CASE kind = "inventory"
        BY <2>3, <4>1 DEF CommandsOf
      <4>2. CASE kind = "rack"
        BY <2>3, <4>2 DEF CommandsOf
      <4>3. CASE kind = "module"
        BY <2>3, <4>3 DEF CommandsOf
      <4>4. QED
        BY <4>1, <4>2, <4>3 DEF Loops
    <3>2. mapped = 0
      BY <3>1 DEF ShapeOK
    <3>3. /\ published' \in State /\ Consistent(published')
          /\ published'.connection \in {"online", "degraded"}
      BY <2>3, PublishedStep
    <3>4. UNCHANGED <<sessionVars, mapped, cycle, failed, found, mqtt, page>>
      BY <1>3, <2>3 DEF CycleBegins
    <3>5. QED
      BY <2>1, <3>2, <3>3, <3>4, <1>3
         DEF CycleBegins, sessionVars, ShapeOK, LifeInv
  <2>4. QED
    BY <1>3, <2>2, <2>3 DEF CycleBegins
<1>4. CASE CommandBegins
  <2>1. PageInv'
    BY <1>4, PageKept DEF CommandBegins, Session!Ask, Session!AskAndSend
  <2>2. QED
    BY <1>4, <2>1 DEF CommandBegins, Session!Ask, Session!AskAndSend,
           cycleVars, ShapeOK, Consistent, LifeInv
<1>5. CASE CommandSent
  <2>1. PageInv'
    BY <1>5, PageKept DEF CommandSent, Session!Send
  <2>2. QED
    BY <1>5, <2>1 DEF CommandSent, Session!Send, cycleVars, ShapeOK,
           Consistent, LifeInv
<1>6. CASE CommandAnswered
  <2>1. life = "serving" /\ life' = life /\ authenticated' = TRUE
        /\ stage' = "none" /\ UNCHANGED <<page, mqtt>> /\ Read(TRUE)
    BY <1>6 DEF CommandAnswered, Session!Answered, LifeInv, ShapeOK
  <2>2. PageInv'
    BY <2>1, PageKept
  <2>3. QED
    BY <2>1, <2>2, ReadStep DEF ShapeOK, LifeInv
<1>7. CASE CommandFails
  <2>1. life = "serving" /\ life' = life /\ authenticated' \in BOOLEAN
        /\ stage' = "none" /\ UNCHANGED <<page, mqtt>> /\ Read(FALSE)
    BY <1>7 DEF CommandFails, Session!Answered, Session!Lost, Session!NotSent,
           LifeInv, ShapeOK
  <2>2. PageInv'
    BY <2>1, PageKept
  <2>3. QED
    BY <2>1, <2>2, ReadStep DEF ShapeOK, LifeInv
<1>8. CASE MqttConnects \/ MqttLost
  <2>1. PageInv'
    BY <1>8, PageKept DEF MqttConnects, MqttLost, sessionVars
  <2>2. QED
    BY <1>8, <2>1 DEF MqttConnects, MqttLost, sessionVars, cycleVars, ShapeOK,
           Consistent, LifeInv
<1>9. QED
  BY <1>1, <1>2, <1>3, <1>4, <1>5, <1>6, <1>7, <1>8 DEF Command

\* The steps of a reader.
LEMMA ReaderStep ==
  ASSUME StatusInv, Reader
  PROVE  StatusInv'
<1> USE DEF StatusInv, ShapeOK
<1>1. Consistent(published)' /\ LifeInv'
  BY DEF Reader, ReadState, ReadMqtt, ReadConsole, PageDone, sessionVars,
         cycleVars, Consistent, LifeInv
<1>2. CASE ReadState
  BY <1>1, <1>2 DEF ReadState, sessionVars, cycleVars, PageInv, LifeInv, Consistent
<1>3. CASE ReadMqtt
  BY <1>1, <1>3 DEF ReadMqtt, sessionVars, cycleVars, PageInv, Consistent
<1>4. CASE ReadConsole
  <2>1. StatusOf(page.state.connection, page.mqtt, authenticated) \in Connections
    BY DEF StatusOf, State, Connections
  <2>2. page.state.connection = "offline" => ~authenticated
    BY DEF PageInv, LifeInv
  <2>3. QED
    BY <1>1, <1>4, <2>1, <2>2 DEF ReadConsole, sessionVars, cycleVars, PageInv,
           Consistent
<1>5. CASE PageDone
  BY <1>1, <1>5 DEF PageDone, NoPage, sessionVars, cycleVars, PageInv,
         Consistent, State, Connections
<1>6. QED
  BY <1>2, <1>3, <1>4, <1>5 DEF Reader

LEMMA StepInv == StatusInv /\ [Next]_vars => StatusInv'
<1>1. StatusInv /\ UNCHANGED vars => StatusInv'
  BY DEF vars, sessionVars, cycleVars, StatusInv, ShapeOK, Consistent, LifeInv, PageInv
<1>2. QED
  BY <1>1, ServiceStep, ReaderStep DEF Next

(***************************************************************************)
(* The theorems.                                                           *)
(***************************************************************************)
\* The inductive invariant of the status holds in every reachable state.
THEOREM StatusInvariant == Spec => []StatusInv
BY InitInv, StepInv, PTL DEF Spec

\* A page put together from three sources read one after the other never shows
\* a status whose reason it does not show.
THEOREM PagesAreExplained == Spec => []PageSaysWhy
<1>1. StatusInv => PageSaysWhy
  BY DEF StatusInv, ShapeOK, PageInv, PageSaysWhy, StatusOf, Consistent
<1>2. QED
  BY <1>1, StatusInvariant, PTL
(***************************************************************************)
(* The counts of a cycle.                                                  *)
(***************************************************************************)
\* The identities read and those still to be read are no more than the
\* positions of the rack; any other cycle has read none.
CountsOK(kind, left, identified, positions) ==
  /\ kind \in {"none", "inventory", "identities", "rack", "module"}
  /\ left \in 0..MaxModules + 1
  /\ identified \in 0..MaxModules
  /\ positions \in 0..MaxModules
  /\ kind # "identities" => identified = 0
  /\ kind = "identities" => left + identified <= MaxModules

CountInv ==
  CountsOK(cycle, todo, found, mapped) /\ faults \in 0..MaxFaults

\* Whatever ends a cycle leaves no count behind.
LEMMA EndedCounts ==
  ASSUME NEW errors, CycleEnds(errors), NEW n \in 0..MaxModules
  PROVE  CountsOK(cycle', todo', found', n)
BY BoundsAssumption DEF CycleEnds, CountsOK

LEMMA ReadCounts ==
  ASSUME CountInv, NEW ok \in BOOLEAN, Read(ok)
  PROVE  CountsOK(cycle', todo', found', mapped')
<1>1. /\ cycle \in {"none", "inventory", "identities", "rack", "module"}
      /\ todo \in 0..MaxModules + 1
      /\ found \in 0..MaxModules /\ mapped \in 0..MaxModules
      /\ cycle # "identities" => found = 0
      /\ cycle = "identities" => todo + found <= MaxModules
      /\ MaxModules \in Nat
  BY BoundsAssumption DEF CountInv, CountsOK
<1>2. PICK c, t, f, m : c = cycle' /\ t = todo' /\ f = found' /\ m = mapped'
  OBVIOUS
<1>3. 0 \in 0..MaxModules
  BY <1>1
<1>4. CASE cycle = "inventory" /\ TopologyRead(ok)
  <2>1. CASE \E errors \in BOOLEAN : CycleEnds(errors) /\ mapped' \in {0, mapped}
    BY <1>1, <1>3, <2>1, EndedCounts
  <2>2. CASE /\ cycle' = "identities" /\ todo' \in 1..MaxModules
             /\ UNCHANGED <<mapped, found>>
    <3>1. c = "identities" /\ t \in 1..MaxModules /\ f = 0 /\ m = mapped
      BY <1>1, <1>2, <1>4, <2>2
    <3>2. CountsOK(c, t, f, m)
      BY <1>1, <3>1 DEF CountsOK
    <3> QED
      BY <1>2, <3>2
  <2> QED
    BY <1>4, <2>1, <2>2 DEF TopologyRead
<1>5. CASE cycle = "identities" /\ IdentityRead(ok)
  <2>1. CASE todo > 1
    <3>1. c = "identities" /\ t = todo - 1 /\ f \in {found, found + 1} /\ m = mapped
      BY <1>2, <1>5, <2>1 DEF IdentityRead
    <3>2. CountsOK(c, t, f, m)
      BY <1>1, <1>5, <2>1, <3>1 DEF CountsOK
    <3> QED
      BY <1>2, <3>2
  <2>2. CASE todo = 1
    <3>1. \E errors : CycleEnds(errors)
      BY <1>5, <2>2 DEF IdentityRead
    <3>2. m \in {found, found + 1}
      BY <1>2, <1>5, <2>2 DEF IdentityRead
    <3>3. m \in 0..MaxModules
      BY <1>1, <1>5, <2>2, <3>2
    <3> QED
      BY <1>2, <3>1, <3>3, EndedCounts
  <2> QED
    BY <1>5, <2>1, <2>2 DEF IdentityRead
<1>6. CASE cycle \in {"rack", "module"} /\ MeasurementRead(ok)
  <2>1. CASE todo > 1 /\ todo' = todo - 1 /\ UNCHANGED <<cycle, found, mapped>>
    <3>1. c = cycle /\ t = todo - 1 /\ f = found /\ m = mapped
      BY <1>2, <2>1
    <3>2. CountsOK(c, t, f, m)
      BY <1>1, <1>6, <2>1, <3>1 DEF CountsOK
    <3> QED
      BY <1>2, <3>2
  <2>2. CASE CycleEnds(failed \/ ~ok) /\ UNCHANGED mapped
    BY <1>1, <2>2, EndedCounts
  <2> QED
    BY <1>6, <2>1, <2>2 DEF MeasurementRead
<1> QED
  BY <1>4, <1>5, <1>6 DEF Read

LEMMA CountStep == StatusInv /\ CountInv /\ [Next]_vars => CountInv'
<1> SUFFICES ASSUME StatusInv, CountInv, [Next]_vars
             PROVE  CountInv'
  OBVIOUS
<1>1. CountsOK(cycle, todo, found, mapped) /\ faults \in 0..MaxFaults
      /\ MaxModules \in Nat /\ MaxFaults \in Nat
  BY BoundsAssumption DEF CountInv
<1>2. faults' \in 0..MaxFaults
  <2>1. faults' = faults \/ (faults < MaxFaults /\ faults' = faults + 1)
    <3>1. CASE Starts \/ StartFails
      BY <3>1 DEF Starts, StartFails
    <3>2. CASE \E kind \in Loops : CycleBegins(kind)
      BY <3>2 DEF CycleBegins
    <3>3. CASE Command
      BY <3>3 DEF Command, CommandBegins, CommandSent, CommandAnswered, CommandFails
    <3>4. CASE MqttConnects \/ MqttLost
      BY <3>4 DEF MqttConnects, MqttLost
    <3>5. CASE Reader
      BY <3>5 DEF Reader, ReadState, ReadMqtt, ReadConsole, PageDone
    <3>6. CASE UNCHANGED vars
      BY <3>6 DEF vars
    <3> QED
      BY <3>1, <3>2, <3>3, <3>4, <3>5, <3>6 DEF Next
  <2>2. PICK n : n = faults'
    OBVIOUS
  <2>3. n \in 0..MaxFaults
    BY <1>1, <2>1, <2>2
  <2> QED
    BY <2>2, <2>3
<1>3. CASE UNCHANGED <<mapped, cycleVars>>
  BY <1>1, <1>2, <1>3 DEF CountInv, cycleVars
<1>4. CASE Starts
  <2>1. cycle' = "inventory" /\ todo' = 1 /\ found' = found /\ mapped' = mapped
    BY <1>4 DEF Starts
  <2>2. cycle # "identities"
    BY <1>4 DEF Starts, Session!Establish, StatusInv, LifeInv
  <2> QED
    BY <1>1, <1>2, <2>1, <2>2 DEF CountInv, CountsOK
<1>5. ASSUME NEW kind \in Loops, CycleBegins(kind)
      PROVE  CountInv'
  <2>1. CASE UNCHANGED <<cycle, todo>>
    BY <1>1, <1>2, <1>5, <2>1 DEF CycleBegins, CountInv
  <2>2. CASE cycle' = kind /\ todo' = CommandsOf(kind)
    <3>1. PICK t : t = CommandsOf(kind)
      OBVIOUS
    <3>2. mapped \in 0..MaxModules /\ found = 0
      BY <1>1, <1>5 DEF CycleBegins, CountsOK
    <3>3. t \in {1, mapped + 1, mapped}
      BY <3>1 DEF CommandsOf, Loops
    <3>4. t \in 0..MaxModules + 1
      BY <1>1, <3>2, <3>3
    <3>5. CountsOK(kind, t, found, mapped)
      BY <1>1, <3>2, <3>4 DEF CountsOK, Loops
    <3>6. found' = found /\ mapped' = mapped
      BY <1>5 DEF CycleBegins
    <3> QED
      BY <1>2, <2>2, <3>1, <3>5, <3>6 DEF CountInv
  <2> QED
    BY <1>5, <2>1, <2>2 DEF CycleBegins
<1>6. CASE CommandAnswered \/ CommandFails
  BY <1>2, <1>6, ReadCounts DEF CommandAnswered, CommandFails, CountInv
<1>7. CASE StartFails \/ CommandBegins \/ CommandSent \/ MqttConnects \/ MqttLost
             \/ Reader \/ UNCHANGED vars
  <2>1. UNCHANGED <<mapped, cycleVars>>
    BY <1>7 DEF StartFails, CommandBegins, CommandSent, MqttConnects, MqttLost,
                Reader, ReadState, ReadMqtt, ReadConsole, PageDone, vars
  <2> QED
    BY <1>3, <2>1
<1> QED
  BY <1>4, <1>5, <1>6, <1>7 DEF Next, Command

\* Every variable keeps its type: no cycle reads more identities than the rack
\* has positions, whatever fails on the way.
THEOREM StatusTypeCorrect == Spec => []TypeOK
<1>1. Init => CountInv
  BY BoundsAssumption DEF Init, CountInv, CountsOK
<1>2. StatusInv /\ CountInv => TypeOK
  BY DEF StatusInv, ShapeOK, CountInv, CountsOK, TypeOK
<1> QED
  BY <1>1, <1>2, CountStep, StatusInvariant, PTL DEF Spec
=============================================================================
