------------------------------- MODULE Polling -------------------------------
(***************************************************************************)
(* PollingService and CurrentStateStore of polling.py: the three loops     *)
(* that share the cycle lock and replace the whole current state, over the *)
(* discovery algorithm and a physical rack whose modules are moved at any  *)
(* time.  ServiceRuntime.start() and stop() (main.py) begin and end it.    *)
(*                                                                         *)
(* A step is what a loop runs between two awaits: the timer, the cycle     *)
(* lock and every console command are awaits.  Only the holder of the      *)
(* cycle lock issues commands, so the command lock is never contended.     *)
(* A measurement is reduced to the module it was taken from; timestamps    *)
(* and the topology events, which no loop reads, are left out.             *)
(***************************************************************************)
EXTENDS Discovery, Sequences

CONSTANTS
  CellCount,   \* cells of each module, reported by `info' and counted in `bat'
  MaxMoves,    \* bound on physical rearrangements
  MaxFaults    \* bound on failed commands

ASSUME CellCountAssumption == CellCount \in [Barcodes -> Nat]
ASSUME BoundsAssumption == MaxMoves \in Nat /\ MaxFaults \in Nat

Loops == {"rack", "module", "inventory"}
Nobody == "nobody"

\* Step 0 of a cycle is `pwrsys' or `pwr', step p a command for position p.
RackStep == 0
Steps == {RackStep} \cup Positions

Racks == {r \in [Positions -> Barcodes \cup {NoBarcode}] :
            \A p, q \in Positions : p # q /\ r[p] = r[q] => r[p] = NoBarcode}

VARIABLES
  rack,      \* EXTERNAL: the module physically at each position
  store,     \* CurrentStateStore._state
  phase,     \* of PollingService and the runtime that starts it
  status,    \* what each loop's task does
  queue,     \* the tasks waiting for _cycle_lock, first come first served
  holder,    \* the loop that holds _cycle_lock
  previous,  \* its snapshot of the store, taken when it got the lock
  todo,      \* commands its cycle has still to send, the first one outstanding
  replies,   \* what the others returned
  moves,     \* rearrangements so far
  faults     \* failed commands so far

cycleVars == <<holder, previous, todo, replies>>
vars == <<rack, store, phase, status, queue, cycleVars, moves, faults>>

(***************************************************************************)
(* CurrentState and its parts.                                             *)
(***************************************************************************)
\* CurrentValue: of which module the data is, NoBarcode for none.
Value == [value: Barcodes \cup {NoBarcode}, valid: BOOLEAN, error: BOOLEAN]

EmptyValue == [value |-> NoBarcode, valid |-> FALSE, error |-> FALSE]

EmptyModule == [detail |-> EmptyValue, cells |-> EmptyValue]

AcquisitionError == [group: {"inventory", "rack", "cells", "module"}, position: Steps]

State ==
  [connection: {"starting", "discovering", "online", "degraded", "offline"},
   failing: BOOLEAN,          \* consecutive_failures is not 0
   inventory: InventoryState,
   identified: BOOLEAN,       \* inventory_freshness.valid
   measured: BOOLEAN,         \* rack.valid
   modules: UNION {[B -> [detail: Value, cells: Value]] : B \in SUBSET Barcodes},
   errors: SUBSET AcquisitionError]

EmptyState ==
  [connection |-> "starting", failing |-> FALSE, inventory |-> EmptyInventory,
   identified |-> FALSE, measured |-> FALSE,
   modules |-> [b \in {} |-> EmptyModule], errors |-> {}]

\* What a command returned: whether it did, and from which module.
Reading == [ok: BOOLEAN, from: Barcodes \cup {NoBarcode}]

TypeOK ==
  /\ rack \in Racks
  /\ store \in State
  /\ phase \in {"new", "initializing", "polling", "failed", "stopped"}
  /\ status \in [Loops -> {"none", "sleeping", "waiting", "running", "dead"}]
  /\ queue \in Seq(Loops)
  /\ holder \in Loops \cup {Nobody}
  /\ previous \in State
  /\ todo \subseteq Steps
  /\ replies \in UNION {[S -> Reading] : S \in SUBSET Steps}
  /\ moves \in Nat /\ faults \in Nat

NoReplies == [s \in {} |-> NoBarcode]

Init ==
  /\ rack \in Racks
  /\ store = EmptyState
  /\ phase = "new"
  /\ status = [l \in Loops |-> "none"]
  /\ queue = <<>>
  /\ holder = Nobody
  /\ previous = EmptyState
  /\ todo = {}
  /\ replies = NoReplies
  /\ moves = 0 /\ faults = 0

(***************************************************************************)
(* What a complete cycle publishes.                                        *)
(***************************************************************************)
\* _publish: the outcome of this cycle is the connection's.
Published(state, errs) ==
  [state EXCEPT !.connection = IF errs = {} THEN "online" ELSE "degraded",
                !.failing = errs # {},
                !.errors = errs]

Failed(group, positions) == [group: {group}, position: positions]

\* Mutation of Acquired: a failure leaves the data valid.
AcquiredKeepsValid(old, ok, from) ==
  IF ok THEN [value |-> from, valid |-> TRUE, error |-> FALSE]
        ELSE [old EXCEPT !.error = TRUE]

\* Mutation of Acquired: an error is never cleared.
AcquiredLatches(old, ok, from) ==
  IF ok /\ ~old.error THEN [value |-> from, valid |-> TRUE, error |-> FALSE]
        ELSE [old EXCEPT !.valid = FALSE, !.error = TRUE]

\* A value after an acquisition: a failed one keeps the data, as invalid.
Acquired(old, ok, from) ==
  IF ok THEN [value |-> from, valid |-> TRUE, error |-> FALSE]
        ELSE [old EXCEPT !.valid = FALSE, !.error = TRUE]

PositionOf(state, b) ==
  CHOOSE p \in DOMAIN state.inventory.positions : state.inventory.positions[p] = b

Mapped(state) == Values(state.inventory.positions)

\* Mutation of CellsOk: the number of cells is not compared.
CellsOkUncounted(state, p, reading) == reading.ok

\* read_cells and validate_cell_count.
CellsOk(state, p, reading) ==
  /\ reading.ok
  /\ CellCount[reading.from] = CellCount[state.inventory.positions[p]]

RackAndCells(prev, rep) ==
  LET ok == {p \in DOMAIN prev.inventory.positions : CellsOk(prev, p, rep[p])}
      cells(b) == LET p == PositionOf(prev, b)
                  IN  Acquired(prev.modules[b].cells, p \in ok, rep[p].from)
  IN  Published(
        [prev EXCEPT
           !.measured = rep[RackStep].ok,
           !.modules = [b \in DOMAIN @ |->
              IF b \in Mapped(prev) THEN [@[b] EXCEPT !.cells = cells(b)] ELSE @[b]]],
        Failed("rack", {s \in {RackStep} : ~rep[s].ok})
          \cup Failed("cells", DOMAIN prev.inventory.positions \ ok))

Modules(prev, rep) ==
  LET detail(b) == LET p == PositionOf(prev, b)
                   IN  Acquired(prev.modules[b].detail, rep[p].ok, rep[p].from)
  IN  Published(
        [prev EXCEPT
           !.modules = [b \in DOMAIN @ |->
              IF b \in Mapped(prev) THEN [@[b] EXCEPT !.detail = detail(b)] ELSE @[b]]],
        Failed("module", {p \in DOMAIN prev.inventory.positions : ~rep[p].ok}))

\* `pwr' failed: the old inventory stays, as invalid.
NoInventory(prev) ==
  Published([prev EXCEPT !.identified = FALSE], Failed("inventory", {RackStep}))

\* Mutation of Slots: newly found modules get no place.
SlotsOfKnown(prev, positions) ==
  [b \in Values(positions) \cap DOMAIN prev.modules |-> prev.modules[b]]

\* Mutation of Slots: modules that left keep their place.
SlotsKept(prev, positions) ==
  [b \in Values(positions) \cup DOMAIN prev.modules |->
     IF b \in DOMAIN prev.modules THEN prev.modules[b] ELSE EmptyModule]

\* Modules no longer in the rack lose their data, new ones start empty.
Slots(prev, positions) ==
  [b \in Values(positions) |->
     IF b \in DOMAIN prev.modules THEN prev.modules[b] ELSE EmptyModule]

Identity(p, reading) ==
  [read |-> reading.ok, position |-> p, barcode |-> reading.from, aware |-> TRUE]

Inventory(prev, rep) ==
  LET identities == [p \in DOMAIN rep \ {RackStep} |-> Identity(p, rep[p])]
      positions  == Candidates(identities)
      errs       == DiscoveryErrors(identities)
  IN  IF rep[RackStep].ok
        THEN Published([prev EXCEPT
                          !.inventory = Reconcile(prev.inventory, positions, errs),
                          !.identified = errs = [p \in {} |-> "none"],
                          !.modules = Slots(prev, positions)],
                       Failed("inventory", DOMAIN errs))
        ELSE NoInventory(prev)

Outcome(l, prev, rep) ==
  CASE l = "rack"      -> RackAndCells(prev, rep)
    [] l = "module"    -> Modules(prev, rep)
    [] l = "inventory" -> Inventory(prev, rep)

(***************************************************************************)
(* The cycle of the lock's holder.                                         *)
(***************************************************************************)
First(S) == CHOOSE s \in S : \A t \in S : s <= t

FirstSteps(l, state) ==
  CASE l = "rack"      -> {RackStep} \cup DOMAIN state.inventory.positions
    [] l = "module"    -> DOMAIN state.inventory.positions
    [] l = "inventory" -> {RackStep}

\* `modules[barcode]' is looked up outside the try: a KeyError ends the task.
KeyMissing(l, prev, rest) ==
  /\ l # "inventory"
  /\ rest # {} /\ First(rest) # RackStep
  /\ prev.inventory.positions[First(rest)] \notin DOMAIN prev.modules

\* After the first cycle, start() creates the three tasks, in this order.
Released(l, next) ==
  /\ holder' = Nobody
  /\ previous' = EmptyState /\ todo' = {} /\ replies' = NoReplies
  /\ \/ phase = "initializing"
        /\ phase' = "polling"
        /\ status' = [k \in Loops |-> "waiting"]
        /\ queue' = <<"rack", "module", "inventory">>
     \/ phase = "polling"
        /\ status' = [status EXCEPT ![l] = next]
        /\ UNCHANGED <<phase, queue>>

CycleEnds(l, prev, rep) ==
  /\ store' = Outcome(l, prev, rep)
  /\ Released(l, "sleeping")

CycleDies(l) ==
  /\ Released(l, "dead")
  /\ UNCHANGED store

\* Mutation of StartFails: OFFLINE is published whatever the loops are doing.
OfflineAnytime ==
  /\ phase \in {"new", "polling"}
  /\ faults < MaxFaults
  /\ store' = [store EXCEPT !.connection = "offline", !.failing = TRUE]
  /\ faults' = faults + 1
  /\ UNCHANGED <<rack, phase, status, queue, cycleVars, moves>>

(***************************************************************************)
(* The steps.                                                              *)
(***************************************************************************)
\* ServiceRuntime.start() fails to connect or to log in, and gives up.
StartFails ==
  /\ phase = "new"
  /\ faults < MaxFaults
  /\ phase' = "failed"
  /\ store' = [store EXCEPT !.connection = "offline", !.failing = TRUE]
  /\ faults' = faults + 1
  /\ UNCHANGED <<rack, status, queue, cycleVars, moves>>

\* PollingService.start(): initialize(), up to its first command.
Initialize ==
  /\ phase = "new"
  /\ phase' = "initializing"
  /\ store' = [store EXCEPT !.connection = "discovering"]
  /\ holder' = "inventory"
  /\ previous' = store'
  /\ todo' = FirstSteps("inventory", store')
  /\ UNCHANGED <<rack, status, queue, replies, moves, faults>>

\* Mutation of Wake: the last to ask is served first.
WakeFirst(l) ==
  /\ status[l] = "sleeping"
  /\ status' = [status EXCEPT ![l] = "waiting"]
  /\ queue' = <<l>> \o queue
  /\ UNCHANGED <<rack, store, phase, cycleVars, moves, faults>>

\* _loop: the interval is over and the task asks for the cycle lock.
Wake(l) ==
  /\ status[l] = "sleeping"
  /\ status' = [status EXCEPT ![l] = "waiting"]
  /\ queue' = Append(queue, l)
  /\ UNCHANGED <<rack, store, phase, cycleVars, moves, faults>>

\* The first waiter gets the lock, reads the store and goes on to its first
\* command; without a command to send it publishes at once.
Acquire ==
  /\ holder = Nobody /\ queue # <<>>
  /\ LET l == Head(queue)
         first == FirstSteps(l, store)
     IN  \/ /\ first = {}
            /\ store' = Outcome(l, store, NoReplies)
            /\ status' = [status EXCEPT ![l] = "sleeping"]
            /\ UNCHANGED cycleVars
         \/ /\ first # {} /\ KeyMissing(l, store, first)
            /\ status' = [status EXCEPT ![l] = "dead"]
            /\ UNCHANGED <<store, cycleVars>>
         \/ /\ first # {} /\ ~KeyMissing(l, store, first)
            /\ status' = [status EXCEPT ![l] = "running"]
            /\ holder' = l
            /\ previous' = store
            /\ todo' = first
            /\ UNCHANGED <<store, replies>>
  /\ queue' = Tail(queue)
  /\ UNCHANGED <<rack, phase, moves, faults>>

\* The outstanding command of the holder ends with this reading, and the
\* holder goes on to its next command or to the end of its cycle.
Returns(reading) ==
  LET step == First(todo)
      rep  == [s \in DOMAIN replies \cup {step} |->
                 IF s = step THEN reading ELSE replies[s]]
      rest == IF holder = "inventory" /\ step = RackStep
                THEN {p \in Positions : reading.ok /\ rack[p] # NoBarcode}
                ELSE todo \ {step}
  IN  \/ rest = {} /\ CycleEnds(holder, previous, rep)
      \/ KeyMissing(holder, previous, rest) /\ CycleDies(holder)
      \/ /\ rest # {} /\ ~KeyMissing(holder, previous, rest)
         /\ todo' = rest
         /\ replies' = rep
         /\ UNCHANGED <<store, phase, status, queue, holder, previous>>

\* The command is answered by the module that is at its position by now.
Answered ==
  /\ holder # Nobody
  /\ LET step == First(todo)
         from == IF step = RackStep THEN NoBarcode ELSE rack[step]
     IN  Returns([ok |-> step = RackStep \/ from # NoBarcode, from |-> from])
  /\ UNCHANGED <<rack, moves, faults>>

\* A transport, session, framing or parser error.
CommandFails ==
  /\ holder # Nobody
  /\ faults < MaxFaults
  /\ faults' = faults + 1
  /\ Returns([ok |-> FALSE, from |-> NoBarcode])
  /\ UNCHANGED <<rack, moves>>

\* PollingService.stop(): the tasks are cancelled wherever they wait.
Stop ==
  /\ phase \in {"polling", "failed"}
  /\ phase' = "stopped"
  /\ status' = [l \in Loops |-> "none"]
  /\ queue' = <<>>
  /\ holder' = Nobody
  /\ previous' = EmptyState /\ todo' = {} /\ replies' = NoReplies
  /\ UNCHANGED <<rack, store, moves, faults>>

\* EXTERNAL.  Modules are moved, exchanged, added or removed.
Rearrange ==
  /\ moves < MaxMoves
  /\ moves' = moves + 1
  /\ rack' \in Racks \ {rack}
  /\ UNCHANGED <<store, phase, status, queue, cycleVars, faults>>

Terminated == phase = "stopped" /\ UNCHANGED vars

Next ==
  \/ StartFails \/ Initialize
  \/ \E l \in Loops : Wake(l)
  \/ Acquire \/ Answered \/ CommandFails
  \/ Stop \/ Rearrange \/ Terminated

Spec == Init /\ [][Next]_vars

\* Timers expire, the lock is handed on, and every command is answered or
\* fails (its timeout sees to that).
FairSpec ==
  /\ Spec
  /\ WF_vars(Initialize \/ StartFails)
  /\ \A l \in Loops : WF_vars(Wake(l))
  /\ WF_vars(Acquire)
  /\ WF_vars(Answered \/ CommandFails)

(***************************************************************************)
(* Properties.                                                             *)
(***************************************************************************)
\* No loop is ever ended by an exception nobody sees.
LoopsSurvive == \A l \in Loops : status[l] # "dead"

\* Cycles replace the whole state, computed from a snapshot taken several
\* awaits earlier: nothing else may have been published in between.
NoLostUpdate == holder # Nobody => previous = store

\* The mapped modules are exactly those with a place for their data.
SlotsFollowMapping == DOMAIN store.modules = Mapped(store)

\* Detail is read by one loop, cells by another.
ReaderOf(part) == IF part = "detail" THEN "module" ELSE "rack"

\* A cycle ends in this step, and is not cancelled.
Ends(l) == holder = l /\ holder' = Nobody /\ phase' # "stopped"

\* What the command for a position returned to the cycle that ends now: the
\* last one returns in this step.
Returned(p) ==
  IF p \in DOMAIN replies THEN replies[p]
  ELSE [ok |-> faults' = faults /\ rack[p] # NoBarcode, from |-> rack[p]]

\* The end of a cycle makes valid exactly what its commands have read (cells
\* only if there are as many as the module has), keeps the rest as invalid, with
\* an error, and leaves what the other loop reads as it was.
ReadOrKept(b, part) ==
  LET old == store.modules[b][part]
      new == store'.modules[b][part]
      reading == Returned(PositionOf(store, b))
      read == /\ reading.ok
              /\ part = "cells" => CellCount[reading.from] = CellCount[b]
  IN  new = IF ~Ends(ReaderOf(part)) THEN old
            ELSE IF read THEN [value |-> reading.from, valid |-> TRUE, error |-> FALSE]
            ELSE [old EXCEPT !.valid = FALSE, !.error = TRUE]

\* A failed or partly failed cycle never loses data of a module that stays,
\* nor shows as valid what it did not read.
FailureKeepsData ==
  [][\A b \in DOMAIN store.modules \cap DOMAIN store'.modules :
       \A part \in {"detail", "cells"} : ReadOrKept(b, part)]_vars

\* Every loop that waits for the cycle lock gets it.
NoStarvation ==
  \A l \in Loops : status[l] = "waiting" ~> status[l] # "waiting"

\* What is physically in the rack is what the store says, with the data of
\* each module under its own barcode.
Current ==
  /\ store.connection = "online"
  /\ \A p \in Positions :
       LET b == rack[p]
       IN  b # NoBarcode =>
             /\ p \in DOMAIN store.inventory.positions
             /\ store.inventory.positions[p] = b
             /\ b \in DOMAIN store.modules
             /\ store.modules[b].detail = Acquired(EmptyValue, TRUE, b)
             /\ store.modules[b].cells = Acquired(EmptyValue, TRUE, b)

\* Once nothing moves and nothing fails, every module's data is its own.
FinallyCurrent == <>[](Current \/ phase \in {"failed", "stopped"})

\* Moving modules never mixes their data.
DataBelongsToModule ==
  \A b \in DOMAIN store.modules :
    store.modules[b].detail.value \in {b, NoBarcode}
=============================================================================
