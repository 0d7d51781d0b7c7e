# Formal model of pylontech-console

TLA+ modules that model the service from the bytes of the console to the status
a reader is shown, TLC configurations that check them on small instances, and
TLAPS proofs of every safety property the passing runs check.  Paths are relative to the
repository; `src/pylontech_console/` is written `pc/`.

## The system

The service owns one connection to the console of a Pylontech battery rack (TCP
through a Waveshare gateway, or a serial port), polls it with text commands and
offers the current state over REST, a web page and MQTT.

| Part | State | Operations | Correct when |
|---|---|---|---|
| Transport (`pc/transport/tcp.py`, `serial.py`) | connection, generation, `_reconnect_required`, `_recovery_in_progress`, delay | connect, ensure_connected, exchange, disconnect | a failed exchange never leaves its connection behind; the delay grows and is capped |
| Framing (`pc/framing/console.py`) | none between exchanges | read_console_exchange | the result depends on the bytes, not on how they were cut |
| Console session (`pc/console_session.py`) | `_verified_generation`, health store | establish, execute, logout | commands go out only on a verified connection; `login` never in debug mode |
| Discovery (`pc/discovery/modules.py`) | none (previous inventory in, new one out) | discover_modules | the mapping is one-to-one; the events tell what changed |
| Polling (`pc/polling.py`, `pc/domain/current_state.py`) | the current state, cycle lock, command lock, three tasks | initialize, start, three cycles, stop | no update is lost; no failure destroys data; nobody starves |
| MQTT (`pc/outputs/mqtt/`, `pc/mqtt_health.py`) | health, topics and events already published | start, publish_snapshot, callbacks, stop | `online` means complete; events once and in order |
| Runtime (`pc/main.py`) | none of its own | start, stop | starts once, stops everything |
| Queries and web (`pc/outputs/api`, `pc/outputs/web`) | none | read-only views | the status is explained by its three sources; REST and the page tell the same of one state |
| Parsers, command client (`pc/parsers`, `pc/commands.py`) | none | one parser per command | a damaged answer is refused or harmless; an intact one is accepted |
| Configuration (`pc/config.py`, `pc/version.py`) | settings | read at startup | the polling settings leave room for the commands |

How they interact: polling calls the session through `ReadOnlyPylontechClient`;
the session calls the framing client, which runs the transport's exchange.  One
lock per layer serializes this path.  Polling publishes whole states to the
store, which notifies the MQTT publisher; the publisher's task runs in the
event loop and paho's callbacks in paho's thread, and both write the MQTT
health.  The REST and web views read the store and both health stores.

What is hard to test here: connections reset, closed or silent at any await;
answers that come after their timeout; a console that leaves debug mode by
itself; cancellation at shutdown; modules that are moved while cycles run;
callbacks of another thread between two publications; cycles that fail in part;
a status read piece by piece while its sources change; values that go stale
because other loops hold the lock; answers that arrive damaged.
`PROJECT.json` lists these hazards with their lines.

## The modules

**`ConsoleDevice`** (external).  The battery console as the code sees it: a user
and a debug mode, requests answered one at a time in order.  A request carries
the generation of the connection it was written on.  Closing the connection
does not take a request back; the constant `LateAnswers` says whether its answer
may still be delivered on a later connection.

**`Transport`**.  The pieces of `AsyncTcpTransport` between two awaits.  `conn`
is the owned writer (`eof`: the peer closed its side and the writer does not
know; `closing`: `is_closing()` is true), `call` the await it is suspended in.
`asyncio.Lock`s do not appear: the session's lock is outermost and makes one
operation at a time.  `serial.py` has the same state and transitions.

**`ConsoleSession`** composes both with `AuthenticatedConsoleClient` and the
runtime's life.  `pc` is the await of the operation in progress: `connect`,
`ensure`, `probe`, `login`, `command`, `logout`.  `establish()` and `execute()`
share their steps; `target` tells them apart.  Every handler is in the action
that reaches it: the failure of an exchange closes the connection, adjusts the
delay and writes the health store in one step, because no other task can see
the state in between (the session lock is held, and `wait_closed()` gives
nothing the model distinguishes).  `Stop` is possible in every await: it is the
cancellation of the polling task, which runs none of the handlers.

**`Framing`** is `read_console_exchange`: a stream chosen at the start arrives in
chunks of any size, and `Pass` is what the loop makes of the bytes received so
far.  The words of the prompts and of the confirmation are single bytes, because
nothing looks inside them; a prompt can still be cut before its `>` and before
`_debug`.

**`Discovery`** is `discover_modules` as operators: `ReplyError` is the chain of
checks of one answer, `Candidates` and `DiscoveryErrors` the result of
`_read_candidates`, `Reconcile` and `TopologyEvents` the two halves of
`_reconcile`.  **`DiscoveryCycles`** runs it cycle after cycle with any answers
and adds a subscriber, `view`, that knows the rack only from the events.

**`Polling`** is `PollingService` over `Discovery` and a physical rack.  Each
console command is a step; modules may be rearranged between any two.  A
measurement is reduced to the module it came from, so that a wrong attribution
is visible.  A task that ends with an exception is `dead`.

**`Mqtt`** is `MqttPublisher`, the memory of `SnapshotSerializer` and
`MqttHealthStore`.  Every `client.publish()` is a step, and so is every
callback.  A snapshot's payloads are reduced to the version of the state they
are from; `Snapshot` gives their order.  `stop()` is four steps: it says
`online=false`, the broker has it or the wait for it times out, and the client
disconnects.

**`AbstractSession`** is what the session promises to polling and to the outputs: a
service that starts, serves, stops; calls of `execute()` that send their command
only when authenticated and end; a health that is not *authenticated* once a
command was lost.  No connections, answers, probes or logins.
`ConsoleSession` implements it: `Life` and `Stage` there are the mapping of the
phase and of the await, `authenticated` is the health store's, `outcome` is the
same.  A reconnect, a probe and a login are stutters until the command itself
is written.  **`Status`** is built on it.

**`Status`** composes `AbstractSession` with the polling cycles, of which only the
number of commands and the failure flag are left, the MQTT health and a reader.
`health_for` reads the state, the MQTT health and the console health one after
the other in a worker thread, so `ReadState`, `ReadMqtt` and `ReadConsole` are
steps of their own.  A cycle publishes at its end; the session's health changes
during it.  In a rack without modules a module cycle publishes `online` without
a command, as `_run_modules_once` does.

**`Freshness`** is the three loops in time.  Time passes in units and only
while every loop waits; a command takes from 0 to `MaxCommand` units.  Ages are
counted instead of times, and capped above every limit.  Each value of the
state has its age and validity; what a cycle reads is stamped when the command ends
and published when the cycle ends.  `queue` is the order of the waiters of
`_cycle_lock`.

**`Views`** is what the REST queries and the web page make of one published
state, as operators over the states of `Polling`.  Which values are stale at the
moment of the request is a parameter, and the properties hold for every choice.
A row of the page has its 15 tiles, each with a cell's colour, neutral or
unavailable.

**`Parsers`** is the five parsers and the client that picks one for a command.
An answer is a sequence of lines, each of a kind (header, heading, dashes,
state, row, field, confirmation, garbled), with the row or field it is for and
what the module said with it.  Columns, numbers and units are not spelled out:
a line a parser could not read is `garbled`.  The numbers of the rack summary
and of the details stand for their lines.  Its specification is called
`ParserSpec`, because the proofs read the module together with `Framing`.

`MCDiscovery`, `MCFraming`, `MCPolling`, `MCFreshness` and `MCParsers` give the
values that a configuration cannot.

## The runs

| Run | States | What it shows |
|---|---|---|
| `session` | 20,416 | all session properties under up to 4 faults, and the refinement of `AbstractSession` |
| `framing` | 349,075 | 31,108 streams in every chunking |
| `discovery` | 27,627 | all sequences of cycles over 3 positions and 3 barcodes |
| `polling` | 261,969 | safety and the views with 2 positions, 2 modules of different cell counts, 1 move, 1 failed command |
| `polling_live` | 18,810 | fairness and convergence with one module |
| `mqtt` | 29,155 | 2 positions, 3 states, 1 kept event, 2 lost connections |
| `status` | 54,543 | up to 2 modules, 3 faults, a reader between any two steps |
| `freshness` | 2,256,678 | 2 positions, commands of up to 1 unit, 1 failed command, the least intervals allowed |
| `parsers` | 36,088 | answers of 2 modules with 2 and 3 cells, 2 damages |

What the properties say, and what would break them:

- `CommandsOnVerifiedSession`: comparing generations after a reconnect is what
  keeps a command from an unverified connection.
- `LoginOnlyInUserMode`, `AnswerBelongsToRequest`, `OneOutstandingWhileServing`:
  rest on closing the connection with every failed exchange, and on accepting
  only the exact rejection of `pwrsys` as user mode.
- `HealthFollowsVerification`: two fields that are written apart in five places.
- `NoImplicitReconnect`: the reconnect inside `exchange()` is never taken by the
  session; it would bypass the verification.
- `BackoffGrows`; `ServiceRecovers`, `StopCompletes`: below.
- `ImplementsSession`: the abstract session is what polling and the outputs rely
  on.  A failed command that left the health *authenticated*, a command before the
  verification or a call that never ends would not be a behaviour of it.
- `AnswerIsTheFirstResponse`: compares what the incremental reader returns with
  a definition over the whole stream: the first marker, the first end behind it,
  the payload between and the prompt that directly follows.
- `CompleteIsAccepted`: one complete exchange within the limit is returned, in
  every chunking, with its last byte at the latest.  For streams with more bytes
  behind the prompt nothing is promised: the reader returns or waits for its
  timeout, depending on whether those bytes come with the prompt's own chunk.
- `MappingAgrees`, `KnownModulesStayKnown`, `OneStoryPerModule`,
  `QuietWhenUnchanged`: the inventory in both directions, and no event twice.
- `EventsTellPresence`: a subscriber of the events alone knows where every
  present module is.  (Of absent modules it does not: see below.)
- `NoLostUpdate`: cycles replace the whole state with one computed from a
  snapshot taken several awaits earlier.  That is right only because everything
  that publishes does so under the cycle lock or before the loops exist.
- `LoopsSurvive`, `SlotsFollowMapping`: the unguarded `modules[barcode]`.
- `FailureKeepsData`: over every step, what a cycle makes valid is exactly what its
  commands returned in it, a failed read leaves the old data there but invalid and
  with an error, and no other step touches the data.
- `NoStarvation`, `FinallyCurrent`: the lock is first-come-first-served; once
  nothing moves and nothing fails, every module's data is present, valid and its
  own, and the status is `online`.
- `EventsInOrder`, `OnlineIsComplete`, `HealthFollowsLink`, `OfflineUnlessUnsent`,
  `ConnectedIsServed`, `ObsoleteDeletedUnlessLost`: see *MQTT* below.
- `ViewsAgree`: the unguarded `modules[barcode]` of `position()`, the counts of
  `/health`, the rows of the page and the two orders all rely on the halves of
  the inventory, and the places for the data, agreeing in every published state.
- `CurrentRowsAreCaptures`: validity, count and staleness are tested in different
  places of `pc/outputs/web/query.py`; that they never disagree, so that a current
  row has an average and the colours of all its module's cells (of those that have
  a tile), rests on `validate_cell_count` in polling.
- `PageSaysWhy`: the status was computed from three reads at three moments, but
  the page shows exactly the values read.  Reading one of them again for display
  would break it.  (The MQTT serializer does read the MQTT health again, for
  the `status/error` it publishes with `status/state`
  (`pc/outputs/mqtt/serializer.py:164-171`); that pair is outside `Status`.)
- `StatusSettles`: no error of a cycle, the session or MQTT outlives its cause.
- `ValidIsFresh`: with room for a whole round of the lock in the settings (see
  *Bounds*), only a failed acquisition makes a value stale.
- `SuccessAdvances`: three loops set `last_success_at` from stamps of different
  moments of their cycles, and it never goes back.
- `DamageIsNoticed`: two lines lost, repeated, exchanged, garbled or under
  another name are noticed in `bat`; one is noticed in the fields of the others.
  Limits found on the way, and part of the property's text: `bat` does not name
  its module, so only the session guarantees whose cells they are; two fields
  that swap their names cannot be told; a lost row of `pwr` makes a module look
  absent.
- `IntactIsAccepted`: whichever optional fields a module has.

### Bounds

Everything the environment does wrong takes from one budget (`MaxFaults`,
`MaxMoves`, `MaxLosses`).  Four faults allow a failure in each of probe, login
and command of a recovery and another one in the next; the delay reaches its
cap (1, 2, 3) within them.  One polling command besides `pwrsys` is enough: the
session treats all commands alike.  The streams of `framing` are an echo of up to 2 bytes, a marker, a body of up to
2, the end marker and a trailer; a limit of 9 bytes lies among their lengths, so
that both sides of it happen.  In `discovery`, all four faulty answers are
tried at position 1; they differ only in the error kind, which `Reconcile` does
not look at, so the second position has one and the third none; three positions
and three barcodes are what a move, a replacement and a third party need.  In
`polling`, one rearrangement at any await is any permutation, addition or
removal; two positions and modules are the least that can be exchanged.  `Views` has the same
bounds: two modules of different cell counts are the least with which a
capture of the wrong length exists; one of them has the 15 cells of
the tiles, the other a cell less.  For `mqtt`, two lost connections let a second one fall into the
recovery from the first; of three states the last two may each bring an event, and
as one is kept the second drops the first, also before it was published.  In
`status`, three faults allow a failed command, a lost MQTT connection and one
more of either; two modules let a cycle fail at its first command and go on.
In `parsers`, two damages can undo one another (a line lost and another
repeated), which one cannot.

`Freshness` assumes that the settings leave room: for each loop,
`Interval * Multiplier > Interval + Lag`, where `Lag` is the rest of the value's
own cycle, one cycle of each other loop and the next one of its own,
(4 N + 2) commands for the rack with N modules.  The bound is tight: with one
unit less `ValidIsFresh` fails.  The program does not check its settings.  With
its defaults (5 s, multiplier 2) and 16 modules a command may take 0.075 s on
average; one module that answers with timeouts makes the values of the others
stale, though nothing of theirs failed; a multiplier of 1, which
`pc/config.py` permits, makes every value stale before it is replaced.

### Fairness

The event loop runs what is ready, and every await of the program is bounded: a
connection attempt, an exchange and a sleep all have a timeout.  That is weak
fairness of `Program`, `Shutdown`, of each loop's timer, of the lock's hand-over
and of a command's end.  `asyncio.Lock` wakes its waiters in order, which
`queue` models; `NoStarvation` would fail otherwise.  The console answers what
it has received (`WF(ConsoleAnswers)`), which is needed only for
`ServiceRecovers`.  Faults are bounded, not fair: nothing has to go wrong, and
liveness is about the time after the last fault.  In `Mqtt`, paho retries the
connection for ever and its thread runs its callbacks.  Nothing forces `Stop`,
new states or moves.

`Status` takes from the other modules what it needs: that every loop gets the
lock again and again is `NoStarvation`, that a call of `execute()` ends is
`ImplementsSession`.  Strong fairness of `CycleBegins` stands for the first,
because the lock is taken and free in turn; paho retries its connection.  A
reader is never forced to come.

### MQTT

`SlowReconnect` is an assumption about time.  paho waits at least
`reconnect_min_seconds` (at least a second) before it reconnects; publishing one
snapshot hands it some hundred messages without waiting for anything.  With
`SlowReconnect = TRUE` a connection does not come back within the publication
of one snapshot.  With `FALSE`, `OfflineUnlessUnsent` and `ConnectedIsServed` are
violated (for the first one, `OfflineAfterStop` proves that nothing else is
needed): `on_connect` marks the health connected just before the handler in
`publish_snapshot` (`pc/outputs/mqtt/publisher.py:245`) marks it disconnected,
and nothing corrects it while the connection lasts.  That race is thus assumed
away, not shown to be harmless.

`OnlineIsComplete` is about the topics the serializer counts as published: the
service, the measurements, and the topic of each remembered position, all of one
state when `online` turns true.  Snapshots given up half way leave older
versions behind; the next complete one replaces them.  What it does not replace
is a topic that the serializer has forgotten: `ObsoleteDeletedUnlessLost` is what
remains of the contract's promise about obsolete topics -- as long as no
connection was lost, what the broker retains is what the serializer remembers.
After a loss it may not be (see below).

`stop()` publishes `online=false` and waits for the acknowledgement, but not
longer than the connect timeout, and ignores how the wait ends.  If the message
was still queued in the client, the graceful disconnect drops it, and there is no
Last Will either.  `OfflineUnlessUnsent` is what `stop()` does guarantee: it
disconnects behind `online=false`, or it gave up waiting (`phase = "unsent"`).  It
skips the message when the health does not say connected, and then the Last Will
has said so before.

Of the messages the client accepts, only the farewell of `stop()` may stay unsent:
the publications of a snapshot are at the broker with the step that makes them,
because the publisher waits for none of them and the broker receives them in
their order.  A publication whose `rc` is not success counts as not sent, which is
how the code treats it.  The client library may keep such a QoS 1 message and send it
after a reconnect; that, and its retransmissions, are not modelled.

## Disagreements with the documentation

Three runs state what a contract in `docs/contracts/` says and find it violated
by what the code does; `PROJECT.json` quotes the lines.

| Run | Property | Course of events |
|---|---|---|
| `session_shutdown` | `OneOutstanding` | `stop()` during a command: `logout` is written on the connection whose command is still outstanding, and reads its answer |
| `session_startup` | `ServiceStarts` | a fault in `connect()` or `establish()`: `OFFLINE`, and no further attempt |
| `polling_moved` | `DataBelongsToModule` | modules exchanged between inventory cycles: data under the other's barcode until the next one |

Others were met while modelling and have no run:

- A module that goes from present to unresolved to absent gets no
  `MODULE_REMOVED` (`pc/discovery/modules.py:273`): only `present=True` gives one.
- A cycle publishes the connection state and the errors of itself alone
  (`pc/polling.py:159`): an inventory error disappears with the next rack cycle.
- The serializer counts obsolete topics as deleted before the deletion is
  published (`pc/outputs/mqtt/serializer.py:229`): after a snapshot given up half
  way, no later one repeats it, where `docs/contracts/mqtt-v0.1.md:267-270` says
  that the topic is deleted.  `ObsoleteDeletedUnlessLost` is false without its
  premise.
- `docs/contracts/mqtt-v0.1.md:214` has `status/online` mean that the client is
  connected.  When `stop()` gives up waiting for its `online=false`
  (`pc/outputs/mqtt/publisher.py:312-319`) `online=true` can stay at the broker for
  good: the phase `unsent`, which `OfflineUnlessUnsent` excepts.
- `docs/contracts/rest-api-v0.1.md:140` has `offline` for unavailable
  communication.  Polling never publishes it: when a cycle loses the session with
  its first command, the status is `offline` until the cycle ends and then
  `degraded` (`pc/polling.py:159`), whether or not the next session comes up.
- `docs/contracts/web-ui-v0.1.md:283-287` has a current row consist of exactly the
  cells 0 to 14, and never be current in part.  The code compares a capture with
  its module's own number of cells (`pc/outputs/web/query.py:157`), which nothing
  requires to be 15, and shows 15 tiles: a module with 14 cells has a current row
  with an unavailable tile, one with 16 a current row without its last cell.
  `CurrentRowsAreCaptures` is the contract's promise for a module with 15 cells
  only; of a current row of another module, as of 14 cells in `polling`, it says no
  more than which of its tiles have colours.
- `ensure_connected()` reconnects without the documented delay when the
  connection was closed between two commands (`pc/transport/tcp.py:85`).
- After a reconnect and before its probe ends, the health store still says
  *authenticated* (`pc/console_session.py:86-88`).
- Obsolete per-cell topics are deleted behind the group's other topics
  (`pc/outputs/mqtt/serializer.py:362`), where the contract says before.

## The proofs

`ConsoleSession_proofs` proves, for every set of commands, every pair of delays
and every number of faults:

- `SessionInvariant`: `Spec => [](TypeOK /\ SessionInv)`;
- from it `TypeCorrect`, `CommandsAreVerified`, `HealthIsVerification`,
  `NoReconnectInExchange`, `DelayIsBounded`, `DelayOnlyGrows`;
- `LoginIsSafe`, `AnswersAreAttributed`, `OneCommandAtATime` under the premise
  `~LateAnswers`.

None of the safety properties is inductive by itself.  `SessionInv` adds what
they rest on:

- `ControlInv`: where the session stands determines what the transport is doing
  for it, and in which phase of the service.
- `ConnectionInv`: a reconnect is required only without a connection and in a
  recovery; an exchange runs only on a connection that needs none.  This gives
  `NoImplicitReconnect`.
- `BackoffBounded`: is inductive once `required => recovering` is known.
- `HealthInv`: a verified generation and the health record are written together.
  `CommandsOnVerifiedSession` follows.
- `ChannelInv`: requests of the serving connection are behind all older ones,
  there is at most one, and an answer on the wire excludes a request.  Needs
  `~LateAnswers`: with late answers the code has no means of telling an answer
  from another, and the property is false.
- `LoginInv`: a login waits alone, in front of a console in user mode.

There is one lemma per part of the invariant, each with one step per action;
`InitInv` and `StepInv` join them.  The assumptions used are those declared with
the constants (`CommandsAssumption`, `DelayAssumption`, `EstablishAssumption`,
`LateAnswersAssumption`, `MaxFaultsAssumption`), which TLC evaluates in `session`.

`SessionInv` and its parts, `BackoffBounded` (`DelayIsBounded`) among them, are proved
and in no run: what `session` checks are the properties that follow.

The same module proves `SessionRefines`, `Spec => Session!Safety`: every
step of `ConsoleSession` is a step of `AbstractSession` or changes nothing its
users see.  Beyond `SessionInv` it needs `StartInv`: before the first session
is established nobody is authenticated, so that a failing `start()` changes
only the life.  The liveness part, `CallsEnd`, is checked by the run.

`Status_proofs` proves `PagesAreExplained`, for any number of modules and faults.
It is not inductive.  `StatusInv` adds: a published state is `online` without errors
and `degraded` with some (`Consistent`); `offline` is only published by a failed
start, which is final, and nobody is authenticated outside the service's life
(`LifeInv`); and a page's status is the function of what was read into it
(`PageInv`).

It also proves `StatusTypeCorrect`, for which `CountInv` adds that the identities
read and those to be read are no more than the rack has positions.

`Mqtt_proofs` has two parts, both for any finite set of positions and any number
of states, events kept and losses.  The first proves `HealthIsTheLink`, and
`OfflineAfterStop` under the premise `SlowReconnect`.  `LinkInv` adds
what paho has still to report (`NetInv`), that there is no task unless the
publisher runs (`TaskInv`), and, with `SlowReconnect`, that whoever publishes on a
connection has a health that is right about it and that `online` at the broker
implies that health (`OnlineInv`): where `stop()` says nothing, nothing has to be
said.

The second proves what is said to the broker: `OnlineMeansComplete`,
`EventsKeepOrder`, `NothingLeftBehind` and the types.  None needs
`SlowReconnect`.  The properties speak of the broker at one moment, the code
decides when a snapshot begins, and publications in between may be cut off
anywhere; `SnapshotInv` is what relates them:

- `OutboxOK`: what is left of a snapshot is of one version, `online` is its last,
  each group and each remembered position that is not left any more is at the
  broker in that version, and no deletion in it is of a remembered position;
- `EventsOK`: the events passed on come before those still waiting, which come
  before those not yet seen, and all of them are in the store's order, although
  the store drops the oldest (`NewEvents` is taken from what is left of them);
- `KeptInv` with `TopicsOK`: without a lost connection every topic the broker
  retains is remembered or its deletion is still to come.

That `Snapshot` establishes them needs lemmas about the operators it is built
from (`Ascending`, `Each`, `NewEvents`, concatenation), which use that the
positions are finitely many (`PositionsAssumption`).

`Answers_proofs` has two parts.  The first proves `ExchangeIsTheFirstResponse` and
`ExchangeIsAccepted`, for any streams, any limit and every chunking.  The reader looks for a marker in
what it has so far; the properties look in the whole stream.  The lemmas say when
the two agree: a start marker counts at the end of the bytes received before the
byte behind it is known, so the start found in a prefix may be none (`StartHere`,
`StartInStream`); but once an end marker stands behind it, both are those of the
stream (`FoundIsTheFirst`, `FirstIsFound`).  The end is not looked for again, so
`FramingInv` adds to the two properties `MarkersOK`, that it stays right.  What
the reader then takes for a prompt is one however much of it has arrived
(`PromptFound`, `PromptNotMissed`).

The second proves `DamageNoticed` and `IntactAccepted`, for any positions, numbers of
cells, required and optional fields and any amount of damage.  Neither is inductive,
since a parser sees the lines and not what became of them.  `ParserInv` adds to the types:

- `CountsInv`: the damage is divided into misreading, which changes keys, and
  moving (losing, repeating, exchanging, garbling), which leaves each line with what it
  said.  Without misreading every line is honest, and after one all lines whose
  key is wrong are copies of a single line (`OneLie`).  Without moving all keys are
  still told by some line (`Told`), so that a wrong key stands twice in an answer
  and `Distinct` refuses it.  After one move the cells of `bat` are in place, or the
  table is broken, or two rows are displaced (`MovedOnce`), and one misreading
  cannot correct both;
- `Named`: every line of data, and a heading, is of the module that answered;
- `IntactInv`: without damage the answer is the one sent.  `AnswerShape` gives the
  place of each of its lines from the definition of the answers, `ShapeAccepted`
  what the parsers make of them.

The lemmas on the operators are what losing, repeating, exchanging, garbling and
misreading do to a sequence (`Removing`, `Inserting`, `Exchanging`, `Garbling`,
`Misreading`) and that `ByKey` reads back what was said (`ReadBack`).  The
assumptions are those on the constants of `Parsers`.

`Freshness_proofs` proves `ValidValuesAreFresh` and `SuccessNeverGoesBack`, for any
rack, durations of commands and intervals that leave room.  `AgeOK` bounds, for
every valid value, its age together with `UntilPublished`, the most time that
can still pass until its loop publishes again: the rest of the loop's wait and
then a round of the lock, or the rest of the running cycle, the cycles ahead in
the queue and the loop's own.  The sum never exceeds the interval and `Lag`.
It needs `LockOK`, that each waiter is queued once, so that it waits for each other
loop at most once; `CycleOK`, that what a cycle has read and the commands it has
left take no longer than the whole cycle, and that every value of its loop is
read, has failed or is still to be read.

`Discovery_proofs` has the lemmas about one cycle of discovery as operators:
the candidates are one to one, and `ReconcileAgrees`: the inventory made from
them agrees in both directions, *whatever the previous one was*.  That is why
`MappingAgrees` needs no history.  `DiscoveryCycles_proofs` proves, for any
positions, barcodes and replies, the five properties of the run `discovery` and
the types (`InventoryAgrees`, `EventsSuffice`, `NobodyForgotten`, `QuietCycles`,
`OneStoryEach`, `CyclesTyped`).  `EventsTellPresence` is not inductive: a
replacement tells of a module only by the position it had, so the subscriber is
right only while the previous mapping agrees with the records (`CyclesInv`).

`Polling_proofs` proves, for any rack, cell counts, rearrangements and failed
commands, the four properties of `Polling` that the run `polling` checks, and
the types (`NothingOverwritten`, `NoLoopDies`, `SlotsAreMapped`,
`FailuresKeepData`, `PollingTyped`).  `PollingInv` adds to them:

- `CycleOK`: a rack or module cycle has sent, or has still to send, exactly the
  commands of its snapshot, so that at its end every mapped module has a reply;
- `RepliesOK`: a position answers with the module that is in it;
- `StoreOK`: in every state that is published the places for data are those of
  the mapped modules (with which `KeyMissing` is impossible), the inventory
  agrees, and valid cells have been counted (`Counted`);
- `PhaseOK`: before `start()` nothing runs, which is what makes the two states
  published without the lock safe.

`OutcomeOK` shows that each of the three kinds of cycle keeps `StoreOK`, and
`OutcomeKeeps` what it makes of each value: the reading its own command returned,
or the old one as invalid, and untouched what another loop reads (`DataKept`).
`NoLostUpdate` then says that the snapshot it did this to is what is in the store.
`CycleOK` also says that no command is both sent and still to be sent, so that the
reply a value is compared with is the only one.

The same module derives `ViewsAgree` (`OneStoryShown`) and `CurrentRowsAreCaptures`
(`RowsAreCaptures`) from `PollingInvariant`.  Both hold in a state because of what
it took to publish it, not because the queries test it.  The counts need that
there are finitely many positions (`PositionsFinite`).

The assumptions behind the modules of discovery, polling and the views are those on the constants of
`Discovery` and `DiscoveryCycles` (`PositionsAssumption`, `PositionsFinite`,
`BarcodesAssumption`, `CycleRepliesAssumption`); the runs `discovery` and `polling`
evaluate them.

The type invariants of all these modules are proved (`TypeCorrect`,
`StatusTypeCorrect`, `MqttTypeCorrect`, `FramingTypeCorrect`, `ParserTypeCorrect`,
`FreshnessTypeCorrect`, `CyclesTyped`, `PollingTyped`); only `session` lists its own
as a property.

Only model-checked: all liveness (`ServiceRecovers`, `StopCompletes`, `NoStarvation`,
`FinallyCurrent`, `ConnectedIsServed`, `StatusSettles`, `CallsEnd`), which is out
of this prover's reach.

## What is not modelled

What is inside a line of an answer (columns, numbers, units), payload formats,
JSON field mapping, colours and voltage limits of the page, HTTP routes, logging
and wording are left out.  `encode_command` and the payload-only reader that
only unit tests call are left out, and so is `<INTERRUPT>`, which
`docs/architecture/layers.md` mentions and the code does not treat.
Configuration is read once; only its bounds on the polling settings matter and
are the assumptions of `Freshness`.  The opening of a serial port is not
modelled; the rest of `serial.py` is line for line that of `tcp.py`.  A disabled MQTT publisher does nothing.
Uvicorn and the wiring of `pc/main.py` are left out.

`Status` leaves out `stop()`, because requests are served between `start()` and
`stop()`, and which modules answered; `Freshness` leaves out what the values
are, a rack whose occupation changes (a removed module's values go, a new one's
are empty), and the failure of `execute()` before its command, which is one
more way to be slow and to fail.

## Plan

1. Done: transport, framing, session, discovery, polling, MQTT, status, views,
   freshness, parsers; the abstract session and its implementation; the proofs
   of the safety properties of all of them.
2. `Mqtt` with the client library's own queue of QoS 1 messages.
