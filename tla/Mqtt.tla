--------------------------------- MODULE Mqtt ---------------------------------
(***************************************************************************)
(* MqttPublisher (outputs/mqtt/publisher.py), what SnapshotSerializer      *)
(* remembers between snapshots (outputs/mqtt/serializer.py) and the MQTT   *)
(* health (mqtt_health.py).                                                *)
(*                                                                         *)
(* Two threads: the event loop runs the publisher task and stop(); paho's  *)
(* network thread runs the callbacks, at any moment between two calls of   *)
(* client.publish().  A publication of a snapshot that the client accepts  *)
(* reaches the broker; stop() waits for its last one, which may not.  The  *)
(* task wakes up when it is notified and at every refresh interval, that   *)
(* is, at any time.                                                        *)
(*                                                                         *)
(* The payloads of a snapshot are reduced to its version.  The topics that *)
(* come and go are those of the rack positions; the per-cell topics are    *)
(* remembered and deleted in the same way.                                 *)
(***************************************************************************)
EXTENDS Naturals, FiniteSets, Sequences

CONSTANTS
  Positions,     \* rack positions with a topic of their own
  KeptEvents,    \* how many topology events the state keeps
  MaxVersions,   \* bound on published states
  MaxLosses,     \* bound on lost connections
  SlowReconnect  \* TRUE: a reconnect, which waits for reconnect_min_seconds,
                 \* takes longer than publishing one snapshot

ASSUME PositionsAssumption == Positions \subseteq Nat \ {0} /\ IsFiniteSet(Positions)
ASSUME KeptAssumption == KeptEvents \in Nat \ {0}
ASSUME BoundsAssumption == MaxVersions \in Nat /\ MaxLosses \in Nat
ASSUME SlowReconnectAssumption == SlowReconnect \in BOOLEAN

VARIABLES
  phase,    \* MqttPublisher: new, off, running; stop(): stopping, telling (it
            \* waits for `online=false'), parting, or unsent (it gave up); stopped
  task,     \* _run: none, waiting, publishing, or failing (in the handler)
  outbox,   \* what is left of the snapshot being published
  health,   \* MqttHealth.state
  topics,   \* _position_topics
  seen,     \* _seen_events
  current,  \* the CurrentState in the store
  link,     \* EXTERNAL: whether the client has a connection
  net,      \* the callback the network thread is about to run
  losses,   \* lost connections so far
  broker,   \* EXTERNAL: the retained topics
  log       \* EXTERNAL: the events the broker has passed on

publisherVars == <<phase, task, outbox, topics, seen>>
brokerVars    == <<broker, log>>
vars == <<publisherVars, health, current, link, net, losses, brokerVars>>

NoVersion == 0

CurrentState == [version: Nat \ {NoVersion}, positions: SUBSET Positions, events: Seq(Nat)]

HealthStates == {"connecting", "connected", "disconnected"}

Publication ==
  [kind: {"status", "clear", "position", "values", "event", "online"},
   arg: Nat, version: Nat]

Retained == [online: BOOLEAN, status: Nat, values: Nat,
             positions: [Positions -> Nat]]

TypeOK ==
  /\ phase \in {"new", "off", "running", "stopping", "telling", "parting", "unsent",
                "stopped"}
  /\ task \in {"none", "waiting", "publishing", "failing"}
  /\ outbox \in Seq(Publication)
  /\ health \in HealthStates
  /\ topics \subseteq Positions
  /\ seen \subseteq Nat
  /\ current \in CurrentState
  /\ link \in {"down", "up"}
  /\ net \in {"idle", "accepted", "refused", "lost"}
  /\ losses \in Nat
  /\ broker \in Retained
  /\ log \in Seq(Nat)

Init ==
  /\ phase = "new" /\ task = "none" /\ outbox = <<>>
  /\ health = "connecting"
  /\ topics = {} /\ seen = {}
  /\ current = [version |-> 1, positions |-> {}, events |-> <<>>]
  /\ link = "down" /\ net = "idle" /\ losses = 0
  /\ broker = [online |-> FALSE, status |-> NoVersion, values |-> NoVersion,
               positions |-> [p \in Positions |-> NoVersion]]
  /\ log = <<>>

(***************************************************************************)
(* MqttHealthStore.                                                        *)
(***************************************************************************)
Connected    == health' = "connected"
Connecting   == health' = "connecting"
Disconnected == health' = "disconnected"

(***************************************************************************)
(* SnapshotSerializer.serialize().                                         *)
(***************************************************************************)
\* The elements of S in ascending order.
Ascending(S) ==
  [i \in 1..Cardinality(S) |->
     CHOOSE x \in S : Cardinality({y \in S : y < x}) = i - 1]

\* One publication for each position of S.  (The code sorts the deletions by
\* topic name; nothing tells the order within one kind apart.)
Each(kind, S, v) ==
  [i \in 1..Cardinality(S) |-> [kind |-> kind, arg |-> Ascending(S)[i], version |-> v]]

One(kind, v) == <<[kind |-> kind, arg |-> 0, version |-> v]>>

\* _service, and _rack with _modules, each group as one publication.
Service(state) == One("status", state.version)
Values(state)  == One("values", state.version)

\* Mutation of InventoryPublications: the topics remembered are replaced
\* before they are compared.
InventoryPublicationsReplacedFirst(state, known) ==
  Each("clear", state.positions \ state.positions, state.version)
    \o Each("position", state.positions, state.version)

\* _inventory: deletions of the topics that are no longer current come first.
InventoryPublications(state, known) ==
  Each("clear", known \ state.positions, state.version)
    \o Each("position", state.positions, state.version)

\* _events: the events not seen before, in the state's order, each once.
NewEvents(state, old) ==
  LET new == {i \in DOMAIN state.events :
                state.events[i] \notin old \cup {state.events[j] : j \in 1..i - 1}}
  IN  [n \in 1..Cardinality(new) |->
         [kind |-> "event", arg |-> state.events[Ascending(new)[n]],
          version |-> state.version]]

\* Mutation of Snapshot: online=true goes ahead of the groups.
SnapshotOnlineFirst(state, known, old) ==
  One("online", state.version)
    \o Service(state)
    \o InventoryPublications(state, known)
    \o Values(state)
    \o NewEvents(state, old)

Snapshot(state, known, old) ==
  Service(state)
    \o InventoryPublications(state, known)
    \o Values(state)
    \o NewEvents(state, old)
    \o One("online", state.version)

EventIds(state) == {state.events[i] : i \in DOMAIN state.events}

(***************************************************************************)
(* The publisher task.                                                     *)
(***************************************************************************)
Start ==
  /\ phase = "new"
  /\ phase' = "running"
  /\ task' = "waiting"
  /\ Connecting
  /\ UNCHANGED <<outbox, topics, seen, current, link, net, losses, brokerVars>>

\* The client or its network loop cannot be started.
StartFails ==
  /\ phase = "new"
  /\ phase' = "off"
  /\ Disconnected
  /\ UNCHANGED <<task, outbox, topics, seen, current, link, net, losses,
                 brokerVars>>

\* Mutation of Publish: the events are not remembered.
PublishForgetsEvents ==
  /\ phase = "running" /\ task = "waiting"
  /\ health = "connected"
  /\ task' = "publishing"
  /\ outbox' = Snapshot(current, topics, seen)
  /\ topics' = current.positions
  /\ UNCHANGED <<phase, seen, health, current, link, net, losses, brokerVars>>

\* publish_snapshot() serializes the current state: the serializer already
\* counts as published what is only about to be.
Publish ==
  /\ phase = "running" /\ task = "waiting"
  /\ health = "connected"
  /\ task' = "publishing"
  /\ outbox' = Snapshot(current, topics, seen)
  /\ topics' = current.positions
  /\ seen' = seen \cup EventIds(current)
  /\ UNCHANGED <<phase, health, current, link, net, losses, brokerVars>>

\* The broker's retained topics after a publication.
Stored(b, publication) ==
  CASE publication.kind = "status"   -> [b EXCEPT !.status = publication.version]
    [] publication.kind = "values"   -> [b EXCEPT !.values = publication.version]
    [] publication.kind = "clear"    -> [b EXCEPT !.positions[publication.arg] = NoVersion]
    [] publication.kind = "position" ->
         [b EXCEPT !.positions[publication.arg] = publication.version]
    [] publication.kind = "online"   -> [b EXCEPT !.online = TRUE]
    [] OTHER                         -> b

\* _publish(): accepted by the client.
Publishes ==
  /\ task = "publishing"
  /\ link = "up"
  /\ LET publication == Head(outbox)
     IN  /\ broker' = Stored(broker, publication)
         /\ log' = IF publication.kind = "event" THEN Append(log, publication.arg)
                                                 ELSE log
  /\ outbox' = Tail(outbox)
  /\ task' = IF Tail(outbox) = <<>> THEN "waiting" ELSE "publishing"
  /\ UNCHANGED <<phase, health, topics, seen, current, link, net, losses>>

\* _publish(): no connection, so rc is not success; the rest is given up.
PublishFails ==
  /\ task = "publishing"
  /\ link = "down"
  /\ task' = "failing"
  /\ outbox' = <<>>
  /\ UNCHANGED <<phase, health, topics, seen, current, link, net, losses,
                 brokerVars>>

\* The handler of publish_snapshot().
ReportsFailure ==
  /\ task = "failing"
  /\ task' = "waiting"
  /\ Disconnected
  /\ UNCHANGED <<phase, outbox, topics, seen, current, link, net, losses,
                 brokerVars>>

(***************************************************************************)
(* stop().                                                                 *)
(***************************************************************************)
\* The task is cancelled: it is then waiting for its wake-up.
Stop ==
  /\ phase = "running" /\ task = "waiting"
  /\ phase' = "stopping"
  /\ task' = "none"
  /\ UNCHANGED <<outbox, health, topics, seen, current, link, net, losses,
                 brokerVars>>

\* Mutation of SaysOffline: it is left to the Last Will.
SaysNothing ==
  /\ phase = "stopping"
  /\ phase' = "parting"
  /\ UNCHANGED <<task, outbox, topics, seen, health, current, link, net,
                 losses, brokerVars>>

\* online=false, if the health says there is someone to tell; without a
\* connection rc is not success, and nobody waits.
SaysOffline ==
  /\ phase = "stopping"
  /\ phase' = IF health = "connected" /\ link = "up" THEN "telling" ELSE "parting"
  /\ UNCHANGED <<task, outbox, topics, seen, health, current, link, net,
                 losses, brokerVars>>

\* The broker has it and acknowledges: wait_for_publish() returns.  (After a
\* lost connection the client sends it again on the next one.)
OfflineSent ==
  /\ phase = "telling" /\ link = "up"
  /\ phase' = "parting"
  /\ broker' = [broker EXCEPT !.online = FALSE]
  /\ UNCHANGED <<task, outbox, topics, seen, health, current, link, net,
                 losses, log>>

\* It is still queued behind what the client has in flight when the timeout is
\* over, or wait_for_publish() raises: both are ignored.
WaitTimesOut ==
  /\ phase = "telling"
  /\ phase' = "unsent"
  /\ UNCHANGED <<task, outbox, topics, seen, health, current, link, net,
                 losses, brokerVars>>

\* disconnect() and loop_stop(): no Last Will for a graceful disconnect, and
\* what is still queued is never sent.
Disconnects ==
  /\ phase \in {"parting", "unsent"}
  /\ phase' = "stopped"
  /\ link' = "down"
  /\ net' = "idle"
  /\ UNCHANGED <<task, outbox, topics, seen, health, current, losses, brokerVars>>

\* Mutation of OnConnect: only the first connection is noticed.
OnFirstConnect ==
  /\ net = "accepted"
  /\ net' = "idle"
  /\ health' = IF health = "connecting" THEN "connected" ELSE health
  /\ UNCHANGED <<publisherVars, current, link, losses, brokerVars>>

(***************************************************************************)
(* The callbacks of the network thread.                                    *)
(***************************************************************************)
OnConnect ==
  /\ net = "accepted"
  /\ net' = "idle"
  /\ Connected
  /\ UNCHANGED <<publisherVars, current, link, losses, brokerVars>>

\* on_connect with a reason code, or on_connect_fail.
OnConnectFail ==
  /\ net = "refused"
  /\ net' = "idle"
  /\ Disconnected
  /\ UNCHANGED <<publisherVars, current, link, losses, brokerVars>>

\* Mutation of OnDisconnect: the test of _stopping is inverted.
OnDisconnectInverted ==
  /\ net = "lost"
  /\ net' = "idle"
  /\ health' = IF phase = "running" THEN health ELSE "disconnected"
  /\ UNCHANGED <<publisherVars, current, link, losses, brokerVars>>

OnDisconnect ==
  /\ net = "lost"
  /\ net' = "idle"
  /\ \/ phase = "running" /\ Disconnected
     \/ phase # "running" /\ UNCHANGED health
  /\ UNCHANGED <<publisherVars, current, link, losses, brokerVars>>

(***************************************************************************)
(* EXTERNAL.  The connection, the broker and the polling service.          *)
(***************************************************************************)
Networking ==
  /\ phase \in {"running", "stopping", "telling", "parting", "unsent"}
  /\ net = "idle"

LinkUp ==
  /\ Networking /\ link = "down"
  /\ SlowReconnect => task \notin {"publishing", "failing"}
  /\ link' = "up"
  /\ net' = "accepted"
  /\ UNCHANGED <<publisherVars, health, current, losses, brokerVars>>

LinkRefused ==
  /\ Networking /\ link = "down"
  /\ losses < MaxLosses
  /\ losses' = losses + 1
  /\ net' = "refused"
  /\ UNCHANGED <<publisherVars, health, current, link, brokerVars>>

\* The broker publishes the Last Will.
LinkLost ==
  /\ Networking /\ link = "up"
  /\ losses < MaxLosses
  /\ losses' = losses + 1
  /\ link' = "down"
  /\ net' = "lost"
  /\ broker' = [broker EXCEPT !.online = FALSE]
  /\ UNCHANGED <<publisherVars, health, current, log>>

\* The last KeptEvents of a sequence.
LastEvents(s) ==
  IF Len(s) <= KeptEvents THEN s
  ELSE SubSeq(s, Len(s) - KeptEvents + 1, Len(s))

\* The store publishes a state: a new measurement, or a new topology and its
\* event.
StateChanges(positions) ==
  /\ current.version < MaxVersions
  /\ current' = [version |-> current.version + 1,
                 positions |-> positions,
                 events |-> IF positions = current.positions THEN current.events
                            ELSE LastEvents(Append(current.events,
                                                   current.version + 1))]
  /\ UNCHANGED <<publisherVars, health, link, net, losses, brokerVars>>

Terminated == phase \in {"off", "stopped"} /\ UNCHANGED vars

Task == Publish \/ Publishes \/ PublishFails \/ ReportsFailure

Stopping == SaysOffline \/ OfflineSent \/ WaitTimesOut \/ Disconnects

Callback == OnConnect \/ OnConnectFail \/ OnDisconnect

Next ==
  \/ Start \/ StartFails \/ Task
  \/ Stop \/ Stopping
  \/ Callback \/ LinkUp \/ LinkRefused \/ LinkLost
  \/ \E positions \in SUBSET Positions : StateChanges(positions)
  \/ Terminated

Spec == Init /\ [][Next]_vars

\* Both threads are scheduled, paho retries the connection for ever, and
\* stop() once begun runs to its end.
FairSpec ==
  /\ Spec
  /\ WF_vars(Task)
  /\ WF_vars(Callback)
  /\ WF_vars(LinkUp)
  /\ WF_vars(Stopping)

(***************************************************************************)
(* Properties.                                                             *)
(***************************************************************************)
\* `online' turns true only behind a complete snapshot: the service, the
\* measurements and the topic of every position that the serializer counts as
\* published are at the broker, all of one and the same state, however often
\* the connection was lost and snapshots were given up before.  (Topics that it
\* no longer counts are ObsoleteDeletedUnlessLost's.)
Complete(b) ==
  /\ b.status # NoVersion /\ b.values = b.status
  /\ \A p \in topics : b.positions[p] = b.status

OnlineIsComplete == [][broker'.online /\ ~broker.online => Complete(broker')]_vars

\* An event is never published twice, and events keep their order, across
\* snapshots, failures and reconnects.
EventsInOrder ==
  \A i, j \in DOMAIN log : i < j => log[i] < log[j]

\* The health says connected only while there is a connection, or until the
\* callback that is about to tell otherwise.
HealthFollowsLink ==
  phase = "running" /\ health = "connected" => link = "up" \/ net = "lost"

\* stop() leaves the broker with online=false, whoever of the health, the link
\* and the Last Will had to see to it -- unless it gave up waiting for it.
OfflineUnlessUnsent == phase = "parting" => ~broker.online

\* As long as no connection was lost or refused, no topic of a position that is
\* no longer occupied is left behind a snapshot.  (A snapshot given up half
\* way takes its deletions with it: the serializer has already forgotten them.)
ObsoleteDeletedUnlessLost ==
  losses = 0 /\ task = "waiting" =>
    \A p \in Positions : broker.positions[p] # NoVersion => p \in topics

\* A connection that stays up ends up with the latest snapshot on it, complete.
ConnectedIsServed ==
  [](link = "up" /\ losses = MaxLosses =>
       <>(phase # "running" \/ (broker.online /\ broker.values = current.version)))
=============================================================================
