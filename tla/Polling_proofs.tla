---------------------------- MODULE Polling_proofs ----------------------------
(***************************************************************************)
(* The polling service, for any rack, any cell counts and any number of    *)
(* rearrangements and failed commands.                                     *)
(***************************************************************************)
EXTENDS Views, Discovery_proofs, WellFoundedInduction, FiniteSetTheorems

Slot == [detail: Value, cells: Value]

(***************************************************************************)
(* The inductive invariant.                                                *)
(***************************************************************************)
\* Before start() nothing runs.
PhaseOK ==
  phase = "new" => /\ holder = Nobody /\ queue = <<>>
                   /\ status = [l \in Loops |-> "none"]

\* The commands of a cycle: those of its snapshot, sent or still to be sent;
\* an inventory cycle learns the positions from its first one.
CycleOK ==
  /\ holder = Nobody => replies = NoReplies
  /\ holder # Nobody =>
       /\ todo # {}
       /\ IF holder = "inventory"
            THEN RackStep \in DOMAIN replies \/ todo = {RackStep}
            ELSE /\ todo \cup DOMAIN replies = FirstSteps(holder, previous)
                 /\ todo \cap DOMAIN replies = {}

\* A position answers with the module that is there.
RepliesOK(rep) ==
  \A s \in DOMAIN rep : s # RackStep /\ rep[s].ok => rep[s].from \in Barcodes

\* Valid cell data has as many cells as the module it is shown for.
Counted(modules) ==
  \A b \in DOMAIN modules :
    modules[b].cells.valid => CellCount[modules[b].cells.value] = CellCount[b]

\* What every published state satisfies; SlotsFollowMapping is a part.
StoreOK(state) ==
  /\ state \in State
  /\ DOMAIN state.modules = Mapped(state)
  /\ Agrees(state.inventory)
  /\ Counted(state.modules)

PollingInv ==
  /\ TypeOK
  /\ PhaseOK
  /\ CycleOK
  /\ RepliesOK(replies)
  /\ StoreOK(store)
  /\ NoLostUpdate
  /\ LoopsSurvive

(***************************************************************************)
(* The next command.                                                       *)
(***************************************************************************)
LEMMA StepsAreNat == Steps \subseteq Nat
BY PositionsAssumption DEF Steps, RackStep

LEMMA FirstIsOne ==
  ASSUME NEW S \in SUBSET Steps, S # {}
  PROVE  First(S) \in S
<1>1. PICK s \in S : \A t \in S : <<t, s>> \notin OpToRel(<, Nat)
  BY WFMin, NatLessThanWellFounded, StepsAreNat
<1>2. S \subseteq Nat
  BY StepsAreNat
<1>3. \A t \in S : ~(t < s)
  BY <1>1, <1>2, Zenon DEF OpToRel
<1>4. \A t \in S : s <= t
  BY <1>2, <1>3
<1> QED
  BY <1>4 DEF First

\* Every position of the snapshot has a place for its data: no KeyError.
LEMMA NoKeyMissing ==
  ASSUME NEW l, NEW state, StoreOK(state),
         NEW rest \in SUBSET Steps, rest \subseteq FirstSteps(l, state),
         l \in {"rack", "module"}
  PROVE  ~KeyMissing(l, state, rest)
<1> SUFFICES ASSUME rest # {}, First(rest) # RackStep
             PROVE  state.inventory.positions[First(rest)] \in DOMAIN state.modules
  BY DEF KeyMissing
<1>1. First(rest) \in DOMAIN state.inventory.positions
  BY FirstIsOne DEF FirstSteps
<1> QED
  BY <1>1 DEF StoreOK, Mapped, Values

(***************************************************************************)
(* What a cycle publishes.                                                 *)
(***************************************************************************)
LEMMA AcquiredTyped ==
  ASSUME NEW old \in Value, NEW ok \in BOOLEAN, NEW from \in Barcodes \cup {NoBarcode}
  PROVE  Acquired(old, ok, from) \in Value
BY DEF Acquired, Value

LEMMA StateParts ==
  ASSUME NEW state \in State
  PROVE  /\ state.inventory \in InventoryState
         /\ DOMAIN state.modules \subseteq Barcodes
         /\ state.modules \in [DOMAIN state.modules -> Slot]
         /\ DOMAIN state.inventory.positions \subseteq Positions
         /\ state.inventory.positions \in [DOMAIN state.inventory.positions -> Barcodes]
         /\ Mapped(state) \subseteq Barcodes
<1>1. /\ state.modules \in Partial(Barcodes, Slot)
      /\ state.inventory \in InventoryState
  BY DEF State, Partial, Slot
<1>2. state.inventory.positions \in Partial(Positions, Barcodes)
  BY <1>1 DEF InventoryState, Partial
<1>3. Mapped(state) \subseteq Barcodes
  BY <1>2, PartialElim DEF Mapped, Values
<1> QED
  BY <1>1, <1>2, <1>3, PartialElim

LEMMA PositionOfMapped ==
  ASSUME NEW state, NEW b \in Mapped(state)
  PROVE  /\ PositionOf(state, b) \in DOMAIN state.inventory.positions
         /\ state.inventory.positions[PositionOf(state, b)] = b
BY DEF PositionOf, Mapped, Values

\* The parts of a state that a cycle replaces.
LEMMA WithData ==
  ASSUME NEW state \in State, NEW slots, DOMAIN slots \in SUBSET Barcodes,
         slots \in [DOMAIN slots -> Slot],
         NEW inventory \in InventoryState, NEW identified \in BOOLEAN,
         NEW measured \in BOOLEAN
  PROVE  /\ [state EXCEPT !.modules = slots] \in State
         /\ [state EXCEPT !.measured = measured, !.modules = slots] \in State
         /\ [state EXCEPT !.inventory = inventory, !.identified = identified,
                          !.modules = slots] \in State
<1>1. slots \in UNION {[B -> [detail: Value, cells: Value]] : B \in SUBSET Barcodes}
  BY PartialIntro DEF Partial, Slot
<1> QED
  BY <1>1 DEF State

\* _publish changes neither the mapping nor the data.
LEMMA PublishedOK ==
  ASSUME NEW state, StoreOK(state), NEW errs \in SUBSET AcquisitionError
  PROVE  /\ StoreOK(Published(state, errs))
         /\ Published(state, errs).modules = state.modules
         /\ Published(state, errs).inventory = state.inventory
<1>1. state \in State
  BY DEF StoreOK
<1>2. /\ Published(state, errs).modules = state.modules
      /\ Published(state, errs).inventory = state.inventory
  BY <1>1 DEF Published, State
<1>3. Published(state, errs) \in State
  BY <1>1 DEF Published, State
<1> QED
  BY <1>2, <1>3 DEF StoreOK, Mapped
\* Where the data of a mapped module comes from.
LEMMA ReplyOfMapped ==
  ASSUME NEW state, StoreOK(state), NEW b \in Mapped(state),
         NEW rep \in Partial(Steps, Reading),
         DOMAIN state.inventory.positions \subseteq DOMAIN rep
  PROVE  /\ PositionOf(state, b) \in DOMAIN rep \cap Positions
         /\ rep[PositionOf(state, b)].ok \in BOOLEAN
         /\ rep[PositionOf(state, b)].from \in Barcodes \cup {NoBarcode}
<1> DEFINE p == PositionOf(state, b)
<1>1. p \in DOMAIN state.inventory.positions
  BY PositionOfMapped
<1>2. p \in DOMAIN rep /\ rep[p] \in Reading
  BY <1>1, PartialElim
<1>3. p \in Positions
  BY <1>1, StateParts DEF StoreOK
<1> QED
  BY <1>2, <1>3 DEF Reading

\* A module cycle replaces the detail of every module, and nothing else.
LEMMA ModulesOK ==
  ASSUME NEW prev, StoreOK(prev), NEW rep \in Partial(Steps, Reading),
         DOMAIN prev.inventory.positions \subseteq DOMAIN rep
  PROVE  LET next == Modules(prev, rep)
         IN  /\ StoreOK(next)
             /\ DOMAIN next.modules = DOMAIN prev.modules
             /\ \A b \in DOMAIN prev.modules :
                  LET p == PositionOf(prev, b)
                  IN  next.modules[b] =
                        [detail |-> Acquired(prev.modules[b].detail, rep[p].ok, rep[p].from),
                         cells  |-> prev.modules[b].cells]
<1> DEFINE new == Modules(prev, rep)
           detail(b) == LET p == PositionOf(prev, b)
                        IN  Acquired(prev.modules[b].detail, rep[p].ok, rep[p].from)
           slots == [b \in DOMAIN prev.modules |->
                       IF b \in Mapped(prev) THEN [prev.modules[b] EXCEPT !.detail = detail(b)]
                                             ELSE prev.modules[b]]
           state == [prev EXCEPT !.modules = slots]
           errs == Failed("module", {p \in DOMAIN prev.inventory.positions : ~rep[p].ok})
<1>1. new = Published(state, errs)
  BY DEF Modules
<1>2. errs \in SUBSET AcquisitionError
  BY StateParts DEF Failed, AcquisitionError, StoreOK, Steps
<1>3. ASSUME NEW b \in DOMAIN prev.modules
      PROVE  /\ slots[b] = [detail |-> detail(b), cells |-> prev.modules[b].cells]
             /\ slots[b] \in Slot
  <2>1. b \in Mapped(prev) /\ prev.modules[b] \in Slot
    BY StateParts DEF StoreOK
  <2>2. detail(b) \in Value
    BY <2>1, AcquiredTyped, ReplyOfMapped DEF Slot
  <2> HIDE DEF detail
  <2> QED
    BY <2>1, <2>2 DEF Slot
<1>4. slots \in [DOMAIN slots -> Slot] /\ DOMAIN slots = DOMAIN prev.modules
  BY <1>3
<1> HIDE DEF slots
<1>5. state.modules = slots /\ state.inventory = prev.inventory
  BY DEF StoreOK, State
<1>6. state \in State
  BY <1>4, WithData, StateParts DEF StoreOK
<1>7. StoreOK(state)
  <2>1. Counted(slots)
    BY <1>3, <1>4 DEF StoreOK, Counted
  <2> QED
    BY <1>4, <1>5, <1>6, <2>1 DEF StoreOK, Mapped
<1> HIDE DEF state, errs, new
<1>8. StoreOK(new) /\ new.modules = slots
  BY <1>1, <1>2, <1>5, <1>7, PublishedOK
<1> QED
  BY <1>3, <1>4, <1>8 DEF new, slots
\* A rack cycle replaces the cells of every module, and no detail.
LEMMA RackAndCellsOK ==
  ASSUME NEW prev, StoreOK(prev), NEW rep \in Partial(Steps, Reading),
         {RackStep} \cup DOMAIN prev.inventory.positions \subseteq DOMAIN rep
  PROVE  LET next == RackAndCells(prev, rep)
         IN  /\ StoreOK(next)
             /\ DOMAIN next.modules = DOMAIN prev.modules
             /\ \A b \in DOMAIN prev.modules :
                  LET p == PositionOf(prev, b)
                  IN  next.modules[b] =
                        [detail |-> prev.modules[b].detail,
                         cells  |-> Acquired(prev.modules[b].cells,
                                             CellsOk(prev, p, rep[p]), rep[p].from)]
<1> DEFINE new == RackAndCells(prev, rep)
           ok == {p \in DOMAIN prev.inventory.positions : CellsOk(prev, p, rep[p])}
           cells(b) == LET p == PositionOf(prev, b)
                       IN  Acquired(prev.modules[b].cells, p \in ok, rep[p].from)
           slots == [b \in DOMAIN prev.modules |->
                       IF b \in Mapped(prev) THEN [prev.modules[b] EXCEPT !.cells = cells(b)]
                                             ELSE prev.modules[b]]
           state == [prev EXCEPT !.measured = rep[RackStep].ok, !.modules = slots]
           errs == Failed("rack", {s \in {RackStep} : ~rep[s].ok})
                     \cup Failed("cells", DOMAIN prev.inventory.positions \ ok)
<1>1. new = Published(state, errs)
  BY DEF RackAndCells
<1>2. errs \in SUBSET AcquisitionError
  BY StateParts DEF Failed, AcquisitionError, StoreOK, Steps
<1>3. ASSUME NEW b \in DOMAIN prev.modules
      PROVE  /\ slots[b] = [detail |-> prev.modules[b].detail, cells |-> cells(b)]
             /\ slots[b] \in Slot
             /\ PositionOf(prev, b) \in ok <=> CellsOk(prev, PositionOf(prev, b),
                                                       rep[PositionOf(prev, b)])
  <2>1. b \in Mapped(prev) /\ prev.modules[b] \in Slot
    BY StateParts DEF StoreOK
  <2>2. cells(b) \in Value
    <3>1. /\ rep[PositionOf(prev, b)].from \in Barcodes \cup {NoBarcode}
          /\ prev.modules[b].cells \in Value
      BY <2>1, ReplyOfMapped DEF Slot
    <3> HIDE DEF ok
    <3> QED
      BY <3>1 DEF Acquired, Value
  <2>3. PositionOf(prev, b) \in DOMAIN prev.inventory.positions
    BY <2>1, PositionOfMapped
  <2>4. slots[b] = [detail |-> prev.modules[b].detail, cells |-> cells(b)]
    <3> HIDE DEF cells
    <3> QED
      BY <2>1, <2>2 DEF Slot
  <2> HIDE DEF cells
  <2> QED
    BY <2>1, <2>2, <2>3, <2>4 DEF Slot
<1>4. slots \in [DOMAIN slots -> Slot] /\ DOMAIN slots = DOMAIN prev.modules
  BY <1>3
<1>5. rep[RackStep].ok \in BOOLEAN
  <2>1. RackStep \in DOMAIN rep /\ rep \in [DOMAIN rep -> Reading]
    BY PartialElim
  <2> QED
    BY <2>1 DEF Reading
<1> HIDE DEF slots
<1>6. state.modules = slots /\ state.inventory = prev.inventory
  BY DEF StoreOK, State
<1>7. state \in State
  <2>1. prev \in State
    BY DEF StoreOK
  <2> HIDE DEF errs, new
  <2> QED
    BY <1>4, <1>5, <2>1, WithData, StateParts
<1>8. StoreOK(state)
  <2>1. ASSUME NEW b \in DOMAIN slots, slots[b].cells.valid
        PROVE  CellCount[slots[b].cells.value] = CellCount[b]
    <3> DEFINE p == PositionOf(prev, b)
    <3>1. prev.inventory.positions[p] = b /\ b \in DOMAIN prev.modules
      BY <1>4, <2>1, PositionOfMapped DEF StoreOK
    <3>2. prev.modules[b].cells \in Value
      BY <3>1, StateParts DEF StoreOK, Slot
    <3>3. /\ slots[b].cells = Acquired(prev.modules[b].cells, p \in ok, rep[p].from)
          /\ p \in ok <=> CellsOk(prev, p, rep[p])
      <4>1. cells(b) = Acquired(prev.modules[b].cells, p \in ok, rep[p].from)
        OBVIOUS
      <4> HIDE DEF cells, ok
      <4>2. slots[b] = [detail |-> prev.modules[b].detail, cells |-> cells(b)]
        BY <1>3, <3>1
      <4>3. slots[b].cells = cells(b)
        BY <4>2
      <4>4. p \in ok <=> CellsOk(prev, p, rep[p])
        BY <1>3, <3>1
      <4> HIDE DEF p
      <4> QED
        BY <4>1, <4>3, <4>4
    <3> HIDE DEF ok, p
    <3>4. p \in ok /\ slots[b].cells.value = rep[p].from
      <4>1. CASE p \in ok
        BY <3>3, <4>1 DEF Acquired
      <4>2. CASE p \notin ok
        BY <2>1, <3>2, <3>3, <4>2 DEF Acquired, Value
      <4> QED
        BY <4>1, <4>2
    <3> QED
      BY <3>1, <3>3, <3>4 DEF CellsOk
  <2>2. Counted(slots)
    BY <2>1 DEF Counted
  <2> HIDE DEF cells, state
  <2> QED
    BY <1>4, <1>6, <1>7, <2>2 DEF StoreOK, Mapped
<1> HIDE DEF state, errs, new
<1>9. StoreOK(new) /\ new.modules = slots
  BY <1>1, <1>2, <1>6, <1>8, PublishedOK
<1> HIDE DEF ok
<1>10. ASSUME NEW b \in DOMAIN prev.modules
       PROVE  cells(b) = Acquired(prev.modules[b].cells,
                                  CellsOk(prev, PositionOf(prev, b), rep[PositionOf(prev, b)]),
                                  rep[PositionOf(prev, b)].from)
  BY <1>3 DEF Acquired
<1> HIDE DEF cells
<1> QED
  BY <1>3, <1>4, <1>9, <1>10 DEF new

LEMMA NoInventoryOK ==
  ASSUME NEW prev, StoreOK(prev)
  PROVE  /\ StoreOK(NoInventory(prev))
         /\ NoInventory(prev).modules = prev.modules
<1> DEFINE state == [prev EXCEPT !.identified = FALSE]
           errs == Failed("inventory", {RackStep})
<1>1. errs \in SUBSET AcquisitionError
  BY DEF Failed, AcquisitionError, Steps
<1>2. /\ state \in State
      /\ state.modules = prev.modules /\ state.inventory = prev.inventory
  BY DEF StoreOK, State
<1>3. StoreOK(state)
  BY <1>2 DEF StoreOK, Mapped
<1>4. NoInventory(prev) = Published(state, errs)
  BY DEF NoInventory
<1> HIDE DEF state, errs
<1> QED
  BY <1>1, <1>2, <1>3, <1>4, PublishedOK

\* An inventory cycle keeps the data of who stays, and gives every newcomer
\* an empty place.
LEMMA InventoryOK ==
  ASSUME NEW prev, StoreOK(prev), NEW rep \in Partial(Steps, Reading),
         RackStep \in DOMAIN rep
  PROVE  LET next == Inventory(prev, rep)
         IN  /\ StoreOK(next)
             /\ \A b \in DOMAIN next.modules :
                  next.modules[b] = IF b \in DOMAIN prev.modules THEN prev.modules[b]
                                                                 ELSE EmptyModule
<1> DEFINE identities == [p \in DOMAIN rep \ {RackStep} |-> Identity(p, rep[p])]
           positions == Candidates(identities)
           found == DiscoveryErrors(identities)
           slots == Slots(prev, positions)
           state == [prev EXCEPT !.inventory = Reconcile(prev.inventory, positions, found),
                                 !.identified = found = [p \in {} |-> "none"],
                                 !.modules = slots]
           errs == Failed("inventory", DOMAIN found)
<1>1. CASE ~rep[RackStep].ok
  <2>1. Inventory(prev, rep) = NoInventory(prev)
    BY <1>1 DEF Inventory
  <2> QED
    BY <2>1, NoInventoryOK
<1>2. CASE rep[RackStep].ok
  <2>1. Inventory(prev, rep) = Published(state, errs)
    BY <1>2 DEF Inventory
  <2>2. /\ DOMAIN identities \subseteq Positions
        /\ \A p \in DOMAIN identities : identities[p].barcode \in Barcodes \cup {NoBarcode}
    <3>1. DOMAIN rep \subseteq Steps /\ rep \in [DOMAIN rep -> Reading]
      BY PartialElim
    <3>2. ASSUME NEW p \in DOMAIN rep \ {RackStep}
          PROVE  /\ p \in Positions
                 /\ Identity(p, rep[p]).barcode \in Barcodes \cup {NoBarcode}
      BY <3>1 DEF Identity, Reading, Steps
    <3> QED
      BY <3>2
  <2> HIDE DEF identities
  <2>3. /\ positions \in Partial(Positions, Barcodes)
        /\ DOMAIN found \subseteq Positions
        /\ OneToOne(positions)
    BY <2>2, CandidatesTyped, CandidatesOneToOne
  <2> HIDE DEF positions, found
  <2>4. errs \in SUBSET AcquisitionError
    BY <2>3 DEF Failed, AcquisitionError, Steps
  <2>5. Reconcile(prev.inventory, positions, found) \in InventoryState
    BY <2>3, ReconcileTyped, StateParts DEF StoreOK
  <2>6. /\ DOMAIN slots = Values(positions) /\ Values(positions) \subseteq Barcodes
        /\ slots \in [DOMAIN slots -> Slot]
    <3>1. Values(positions) \subseteq Barcodes
      BY <2>3, PartialElim DEF Values
    <3>2. EmptyModule \in Slot
      BY DEF EmptyModule, EmptyValue, Slot, Value
    <3> QED
      BY <3>1, <3>2, StateParts DEF Slots, StoreOK
  <2>7. \A b \in DOMAIN slots :
          slots[b] = IF b \in DOMAIN prev.modules THEN prev.modules[b] ELSE EmptyModule
    BY DEF Slots
  <2> HIDE DEF slots
  <2>8. /\ state.modules = slots
        /\ state.inventory = Reconcile(prev.inventory, positions, found)
    BY DEF StoreOK, State
  <2>9. state \in State
    <3>1. prev \in State
      BY DEF StoreOK
    <3>2. (found = [p \in {} |-> "none"]) \in BOOLEAN
      OBVIOUS
    <3> QED
      BY <2>5, <2>6, <3>1, <3>2, WithData
  <2>10. StoreOK(state)
    <3>1. state.inventory.positions = positions
      BY <2>8 DEF Reconcile
    <3>2. Agrees(state.inventory)
      BY <2>3, <2>8, ReconcileAgrees
    <3>3. Counted(slots)
      BY <2>7 DEF StoreOK, Counted, EmptyModule, EmptyValue
    <3> HIDE DEF state
    <3> QED
      BY <2>6, <2>8, <2>9, <3>1, <3>2, <3>3 DEF StoreOK, Mapped
  <2> HIDE DEF state, errs
  <2>11. /\ StoreOK(Inventory(prev, rep))
         /\ Inventory(prev, rep).modules = slots
    BY <2>1, <2>4, <2>8, <2>10, PublishedOK
  <2> QED
    BY <2>7, <2>11
<1> QED
  BY <1>1, <1>2
\* What FailureKeepsData says of a step.
DataKept ==
  \A b \in DOMAIN store.modules \cap DOMAIN store'.modules :
    \A part \in {"detail", "cells"} : ReadOrKept(b, part)

\* A step that ends no cycle of a reader, and replaces no data.
LEMMA UnreadData ==
  ASSUME \/ holder' = holder \/ holder \notin {"rack", "module"} \/ phase' = "stopped",
         \A b \in DOMAIN store.modules \cap DOMAIN store'.modules :
           store'.modules[b] = store.modules[b]
  PROVE  DataKept
<1>1. \A part \in {"detail", "cells"} : ~Ends(ReaderOf(part))
  BY DEF Ends, ReaderOf, Nobody
<1> SUFFICES ASSUME NEW b \in DOMAIN store.modules \cap DOMAIN store'.modules,
                    NEW part \in {"detail", "cells"}
             PROVE  ReadOrKept(b, part)
  BY DEF DataKept
<1>2. ~Ends(ReaderOf(part)) /\ store'.modules[b][part] = store.modules[b][part]
  BY <1>1
<1> QED
  BY <1>2 DEF ReadOrKept

\* A complete cycle publishes a state that agrees with its snapshot.
LEMMA OutcomeOK ==
  ASSUME NEW l \in Loops, NEW prev, StoreOK(prev), NEW rep \in Partial(Steps, Reading),
         FirstSteps(l, prev) \subseteq DOMAIN rep
  PROVE  StoreOK(Outcome(l, prev, rep))
<1>1. CASE l = "rack"
  BY <1>1, RackAndCellsOK DEF FirstSteps, Outcome
<1>2. CASE l = "module"
  BY <1>2, ModulesOK DEF FirstSteps, Outcome
<1>3. CASE l = "inventory"
  BY <1>3, InventoryOK DEF FirstSteps, Outcome
<1> QED
  BY <1>1, <1>2, <1>3 DEF Loops

\* The value a reader leaves, for the reading it got.
LEMMA ReadOrKeptIntro ==
  ASSUME NEW b, NEW part \in {"detail", "cells"}, Ends(ReaderOf(part)),
         NEW reading, reading = Returned(PositionOf(store, b)),
         NEW ok \in BOOLEAN,
         ok <=> reading.ok /\ (part = "cells" => CellCount[reading.from] = CellCount[b]),
         store.modules[b][part] \in Value,
         store'.modules[b][part] = Acquired(store.modules[b][part], ok, reading.from)
  PROVE  ReadOrKept(b, part)
<1>1. CASE ok
  BY <1>1, Zenon DEF ReadOrKept, Acquired
<1>2. CASE ~ok
  BY <1>2, Zenon DEF ReadOrKept, Acquired
<1> QED
  BY <1>1, <1>2

\* It makes valid what its commands have read, and nothing else.
LEMMA OutcomeKeeps ==
  ASSUME NEW l \in Loops, StoreOK(store), NEW rep \in Partial(Steps, Reading),
         FirstSteps(l, store) \subseteq DOMAIN rep,
         holder = l, holder' = Nobody, phase' # "stopped",
         store' = Outcome(l, store, rep),
         l # "inventory" =>
           \A p \in DOMAIN store.inventory.positions :
             /\ Returned(p).ok = rep[p].ok
             /\ rep[p].ok => Returned(p).from = rep[p].from
  PROVE  DataKept
<1>1. ASSUME NEW b \in DOMAIN store.modules
      PROVE  /\ store.modules[b].detail \in Value /\ store.modules[b].cells \in Value
             /\ PositionOf(store, b) \in DOMAIN store.inventory.positions
             /\ store.inventory.positions[PositionOf(store, b)] = b
             /\ rep[PositionOf(store, b)].ok \in BOOLEAN \/ l = "inventory"
  <2>1. store.modules[b] \in Slot /\ b \in Mapped(store)
    BY StateParts DEF StoreOK
  <2>2. CASE l = "inventory"
    BY <2>1, <2>2, PositionOfMapped DEF Slot
  <2>3. CASE l # "inventory"
    <3>1. DOMAIN store.inventory.positions \subseteq DOMAIN rep
      BY <2>3 DEF FirstSteps, Loops
    <3> QED
      BY <2>1, <3>1, PositionOfMapped, ReplyOfMapped DEF Slot
  <2> QED
    BY <2>2, <2>3
<1>2. \A part \in {"detail", "cells"} : Ends(ReaderOf(part)) <=> l = ReaderOf(part)
  BY DEF Ends
<1>3. CASE l = "rack"
  <2>1. ASSUME NEW b \in DOMAIN store.modules
        PROVE  ReadOrKept(b, "detail") /\ ReadOrKept(b, "cells")
    <3> DEFINE p == PositionOf(store, b)
    <3>1. store'.modules[b] =
            [detail |-> store.modules[b].detail,
             cells  |-> Acquired(store.modules[b].cells, CellsOk(store, p, rep[p]), rep[p].from)]
      BY <1>3, RackAndCellsOK DEF FirstSteps, Outcome
    <3>2. ~Ends(ReaderOf("detail")) /\ Ends(ReaderOf("cells"))
      BY <1>2, <1>3 DEF ReaderOf
    <3>3. /\ Returned(p).ok = rep[p].ok
          /\ rep[p].ok => Returned(p).from = rep[p].from
      BY <1>1, <1>3
    <3>4. /\ store.inventory.positions[p] = b /\ store.modules[b].cells \in Value
          /\ rep[p].ok \in BOOLEAN
      BY <1>1, <1>3
    <3> HIDE DEF p
    <3>5. ReadOrKept(b, "detail")
      BY <3>1, <3>2 DEF ReadOrKept
    <3>6. CellsOk(store, p, rep[p])
            <=> Returned(p).ok /\ CellCount[Returned(p).from] = CellCount[b]
      BY <3>3, <3>4 DEF CellsOk
    <3> DEFINE ok == CellsOk(store, p, rep[p])
    <3>7. ok \in BOOLEAN
      BY DEF CellsOk
    <3>10. ok => Returned(p).from = rep[p].from
      BY <3>3 DEF CellsOk
    <3>11. store'.modules[b].cells = Acquired(store.modules[b].cells, ok, rep[p].from)
      BY <3>1
    <3> HIDE DEF ok
    <3>8. store'.modules[b].cells = Acquired(store.modules[b].cells, ok, Returned(p).from)
      <4>1. CASE ok
        BY <3>10, <3>11, <4>1, Zenon
      <4>2. CASE ~ok
        BY <3>11, <4>2, Zenon DEF Acquired
      <4> QED
        BY <4>1, <4>2
    <3>9. ReadOrKept(b, "cells")
      <4>1. ok <=> Returned(p).ok
                     /\ ("cells" = "cells" => CellCount[Returned(p).from] = CellCount[b])
        BY <3>6 DEF ok
      <4> QED
        BY <3>2, <3>4, <3>7, <3>8, <4>1, ReadOrKeptIntro, Zenon DEF p
    <3> QED
      BY <3>5, <3>9
  <2> QED
    BY <2>1 DEF DataKept
<1>4. CASE l = "module"
  <2>1. ASSUME NEW b \in DOMAIN store.modules
        PROVE  ReadOrKept(b, "detail") /\ ReadOrKept(b, "cells")
    <3> DEFINE p == PositionOf(store, b)
    <3>1. store'.modules[b] =
            [detail |-> Acquired(store.modules[b].detail, rep[p].ok, rep[p].from),
             cells  |-> store.modules[b].cells]
      BY <1>4, ModulesOK DEF FirstSteps, Outcome
    <3>2. Ends(ReaderOf("detail")) /\ ~Ends(ReaderOf("cells"))
      BY <1>2, <1>4 DEF ReaderOf
    <3>3. /\ Returned(p).ok = rep[p].ok
          /\ rep[p].ok => Returned(p).from = rep[p].from
      BY <1>1, <1>4
    <3>4. store.modules[b].detail \in Value /\ rep[p].ok \in BOOLEAN
      BY <1>1, <1>4
    <3> HIDE DEF p
    <3>5. ReadOrKept(b, "cells")
      BY <3>1, <3>2 DEF ReadOrKept
    <3> DEFINE ok == rep[p].ok
    <3>7. ok \in BOOLEAN /\ (ok <=> Returned(p).ok)
      BY <3>3, <3>4
    <3>9. ok => Returned(p).from = rep[p].from
      BY <3>3
    <3>10. store'.modules[b].detail = Acquired(store.modules[b].detail, ok, rep[p].from)
      BY <3>1
    <3> HIDE DEF ok
    <3>6. store'.modules[b].detail = Acquired(store.modules[b].detail, ok, Returned(p).from)
      <4>1. CASE ok
        BY <3>9, <3>10, <4>1, Zenon
      <4>2. CASE ~ok
        BY <3>10, <4>2, Zenon DEF Acquired
      <4> QED
        BY <4>1, <4>2
    <3>8. ReadOrKept(b, "detail")
      <4>1. ok <=> Returned(p).ok
                     /\ ("detail" = "cells" => CellCount[Returned(p).from] = CellCount[b])
        BY <3>7
      <4> QED
        BY <3>2, <3>4, <3>6, <3>7, <4>1, ReadOrKeptIntro, Zenon DEF p
    <3> QED
      BY <3>5, <3>8
  <2> QED
    BY <2>1 DEF DataKept
<1>5. CASE l = "inventory"
  <2>1. \A b \in DOMAIN store.modules \cap DOMAIN store'.modules :
          store'.modules[b] = store.modules[b]
    BY <1>5, InventoryOK DEF FirstSteps, Outcome
  <2> QED
    BY <1>5, <2>1, UnreadData
<1> QED
  BY <1>3, <1>4, <1>5 DEF Loops

LEMMA EmptyStateOK == StoreOK(EmptyState)
<1>1. EmptyState.modules \in [{} -> Slot]
  BY DEF EmptyState
<1>2. EmptyState.modules \in UNION {[B -> [detail: Value, cells: Value]] : B \in SUBSET Barcodes}
  BY <1>1, PartialIntro DEF Partial, Slot
<1>3. EmptyState \in State
  BY <1>2, EmptyTyped DEF EmptyState, State
<1>4. Mapped(EmptyState) = {}
  BY DEF EmptyState, EmptyInventory, Mapped, Values
<1> QED
  BY <1>3, <1>4, EmptyAgrees DEF StoreOK, EmptyState, Counted

(***************************************************************************)
(* The steps.                                                              *)
(***************************************************************************)
LEMMA NobodyIsNoLoop == Nobody \notin Loops
BY DEF Nobody, Loops

LEMMA NoRepliesTyped == NoReplies \in Partial(Steps, Reading) /\ RepliesOK(NoReplies)
<1>1. NoReplies \in [{} -> Reading]
  BY DEF NoReplies
<1> QED
  BY <1>1, PartialIntro DEF RepliesOK, NoReplies

\* The lock is handed back and the cycle forgotten.
LEMMA ReleasedStep ==
  ASSUME PollingInv, holder \in Loops, Released(holder, "sleeping"), StoreOK(store'),
         rack' = rack, moves' \in Nat, faults' \in Nat
  PROVE  PollingInv'
<1>1. TypeOK'
  <2>1. previous' \in State /\ replies' \in Partial(Steps, Reading) /\ store' \in State
    BY EmptyStateOK, NoRepliesTyped DEF Released, StoreOK
  <2>2. /\ phase' \in {"new", "initializing", "polling", "failed", "stopped"}
        /\ status' \in [Loops -> {"none", "sleeping", "waiting", "running", "dead"}]
        /\ queue' \in Seq(Loops)
        /\ holder' = Nobody /\ todo' = {}
    <3>1. <<"rack", "module", "inventory">> \in Seq(Loops)
      BY DEF Loops
    <3>2. CASE phase = "initializing"
      BY <3>1, <3>2 DEF Released, PollingInv, TypeOK
    <3>3. CASE phase = "polling"
      BY <3>3 DEF Released, PollingInv, TypeOK
    <3> QED
      BY <3>2, <3>3 DEF Released
  <2> QED
    BY <2>1, <2>2 DEF PollingInv, TypeOK, Partial
<1>2. PhaseOK' /\ CycleOK' /\ NoLostUpdate'
  BY DEF Released, PollingInv, PhaseOK, CycleOK, NoLostUpdate
<1>3. RepliesOK(replies)'
  BY NoRepliesTyped DEF Released
<1>4. LoopsSurvive'
  BY DEF Released, PollingInv, LoopsSurvive, TypeOK
<1> QED
  BY <1>1, <1>2, <1>3, <1>4 DEF PollingInv
\* The reply of the outstanding command, and what is left of the cycle.
LEMMA ReturnsStep ==
  ASSUME PollingInv, holder \in Loops, NEW reading \in Reading,
         reading.ok /\ First(todo) # RackStep => reading.from \in Barcodes,
         First(todo) # RackStep =>
           /\ reading.ok = (faults' = faults /\ rack[First(todo)] # NoBarcode)
           /\ reading.ok => reading.from = rack[First(todo)],
         Returns(reading), rack' = rack, moves' \in Nat, faults' \in Nat
  PROVE  PollingInv' /\ DataKept
<1> DEFINE step == First(todo)
           rep == [s \in DOMAIN replies \cup {step} |->
                     IF s = step THEN reading ELSE replies[s]]
           rest == IF holder = "inventory" /\ step = RackStep
                     THEN {p \in Positions : reading.ok /\ rack[p] # NoBarcode}
                     ELSE todo \ {step}
<1>1. /\ previous = store /\ StoreOK(previous)
      /\ todo # {} /\ todo \in SUBSET Steps
      /\ replies \in Partial(Steps, Reading) /\ RepliesOK(replies)
  BY NobodyIsNoLoop DEF PollingInv, NoLostUpdate, CycleOK, TypeOK, Partial
<1>2. step \in todo
  BY <1>1, FirstIsOne
<1>3. rep \in Partial(Steps, Reading)
  <2>1. DOMAIN replies \subseteq Steps /\ replies \in [DOMAIN replies -> Reading]
    BY <1>1, PartialElim
  <2>2. DOMAIN rep \in SUBSET Steps /\ rep \in [DOMAIN rep -> Reading]
    BY <1>1, <1>2, <2>1
  <2> HIDE DEF rep
  <2> QED
    BY <2>2, PartialIntro
<1>4. RepliesOK(rep)
  BY <1>1 DEF RepliesOK
<1>5. rest \in SUBSET Steps
  BY <1>1 DEF Steps
<1>6. IF holder = "inventory"
        THEN RackStep \in DOMAIN rep
        ELSE /\ rest \cup DOMAIN rep = FirstSteps(holder, previous)
             /\ rest \cap DOMAIN rep = {}
  BY <1>2, NobodyIsNoLoop DEF PollingInv, CycleOK
<1>7. \/ rest = {} /\ CycleEnds(holder, previous, rep)
      \/ KeyMissing(holder, previous, rest) /\ CycleDies(holder)
      \/ /\ rest # {} /\ ~KeyMissing(holder, previous, rest)
         /\ todo' = rest
         /\ replies' = rep
         /\ UNCHANGED <<store, phase, status, queue, holder, previous>>
  BY DEF Returns
\* Only the command that returns now has no reply yet.
<1>11. ASSUME rest = {}, holder # "inventory"
       PROVE  \A p \in DOMAIN store.inventory.positions :
                /\ Returned(p).ok = rep[p].ok
                /\ rep[p].ok => Returned(p).from = rep[p].from
  <2>1. todo = {step} /\ step \notin DOMAIN replies
    BY <1>2, <1>11, NobodyIsNoLoop DEF PollingInv, CycleOK
  <2>2. ASSUME NEW p \in DOMAIN store.inventory.positions
        PROVE  p \in Positions /\ p \in DOMAIN replies \cup {step} /\ p # RackStep
    <3>1. p \in FirstSteps(holder, previous)
      BY <1>1, <1>11 DEF FirstSteps, Loops
    <3>2. p \in Positions
      BY <1>1, StateParts DEF StoreOK
    <3> QED
      BY <1>11, <2>1, <3>1, <3>2, PositionsAssumption, NobodyIsNoLoop
         DEF PollingInv, CycleOK, RackStep
  <2>3. ASSUME NEW p \in DOMAIN store.inventory.positions
        PROVE  /\ Returned(p).ok = rep[p].ok
               /\ rep[p].ok => Returned(p).from = rep[p].from
    <3>1. CASE p \in DOMAIN replies
      BY <2>1, <3>1 DEF Returned
    <3>2. CASE p \notin DOMAIN replies
      <4>1. p = step /\ rep[p] = reading
        BY <2>2, <3>2
      <4> QED
        BY <2>2, <3>2, <4>1 DEF Returned
    <3> QED
      BY <3>1, <3>2
  <2> QED
    BY <2>3
<1> HIDE DEF rest, rep, step
<1>8. CASE rest = {} /\ CycleEnds(holder, previous, rep)
  <2>1. FirstSteps(holder, previous) \subseteq DOMAIN rep
    BY <1>6, <1>8 DEF FirstSteps
  <2>2. store' = Outcome(holder, store, rep) /\ Released(holder, "sleeping")
    BY <1>1, <1>8 DEF CycleEnds
  <2>3. StoreOK(store')
    BY <1>1, <1>3, <2>1, <2>2, OutcomeOK
  <2>4. holder' = Nobody /\ phase' # "stopped"
    BY <2>2 DEF Released
  <2>5. DataKept
    BY <1>1, <1>3, <1>8, <1>11, <2>1, <2>2, <2>4, OutcomeKeeps
  <2> QED
    BY <2>2, <2>3, <2>5, ReleasedStep
<1>9. CASE KeyMissing(holder, previous, rest)
  <2>1. holder \in {"rack", "module"}
    BY <1>9 DEF KeyMissing, Loops
  <2>2. rest \subseteq FirstSteps(holder, previous)
    BY <1>6, <2>1
  <2> QED
    BY <1>1, <1>5, <1>9, <2>1, <2>2, NoKeyMissing
<1>10. CASE /\ rest # {}
            /\ todo' = rest
            /\ replies' = rep
            /\ UNCHANGED <<store, phase, status, queue, holder, previous>>
  <2>1. TypeOK'
    BY <1>3, <1>5, <1>10 DEF PollingInv, TypeOK, Partial
  <2>2. CycleOK' /\ RepliesOK(replies)'
    BY <1>4, <1>6, <1>10, NobodyIsNoLoop DEF CycleOK
  <2>3. PhaseOK' /\ StoreOK(store)' /\ NoLostUpdate' /\ LoopsSurvive'
    BY <1>10 DEF PollingInv, PhaseOK, NoLostUpdate, LoopsSurvive
  <2> QED
    BY <1>10, <2>1, <2>2, <2>3, UnreadData DEF PollingInv
<1> QED
  BY <1>7, <1>8, <1>9, <1>10

LEMMA HolderIsLoop == PollingInv /\ holder # Nobody => holder \in Loops
BY DEF PollingInv, TypeOK

LEMMA AnsweredStep ==
  ASSUME PollingInv, Answered
  PROVE  PollingInv' /\ DataKept
<1> DEFINE step == First(todo)
           from == IF step = RackStep THEN NoBarcode ELSE rack[step]
           reading == [ok |-> step = RackStep \/ from # NoBarcode, from |-> from]
<1>1. /\ holder \in Loops /\ Returns(reading)
      /\ rack' = rack /\ moves' \in Nat /\ faults' \in Nat
  BY HolderIsLoop DEF Answered, PollingInv, TypeOK
<1>2. step \in todo /\ todo \subseteq Steps
  BY <1>1, FirstIsOne, NobodyIsNoLoop DEF PollingInv, CycleOK, TypeOK
<1>3. from \in Barcodes \cup {NoBarcode}
  BY <1>2 DEF Steps, PollingInv, TypeOK, Racks
<1>4. reading \in Reading
  BY <1>3 DEF Reading
<1>5. step # RackStep =>
        /\ reading.ok => reading.from \in Barcodes
        /\ reading.ok = (faults' = faults /\ rack[step] # NoBarcode)
        /\ reading.ok => reading.from = rack[step]
  BY <1>3 DEF Answered
<1> HIDE DEF reading
<1> QED
  BY <1>1, <1>4, <1>5, ReturnsStep

LEMMA CommandFailsStep ==
  ASSUME PollingInv, CommandFails
  PROVE  PollingInv' /\ DataKept
<1> DEFINE reading == [ok |-> FALSE, from |-> NoBarcode]
<1>1. /\ holder \in Loops /\ Returns(reading)
      /\ rack' = rack /\ moves' \in Nat /\ faults' \in Nat
  BY HolderIsLoop DEF CommandFails, PollingInv, TypeOK
<1>2. reading \in Reading /\ reading.ok = FALSE /\ faults' # faults
  BY DEF Reading, CommandFails, PollingInv, TypeOK
<1>3. /\ ~reading.ok
      /\ reading.ok = (faults' = faults /\ rack[First(todo)] # NoBarcode)
  BY <1>2
<1> HIDE DEF reading
<1> QED
  BY <1>1, <1>2, <1>3, ReturnsStep

\* The first in the queue starts its cycle; without a command to send it
\* publishes at once.
LEMMA AcquireStep ==
  ASSUME PollingInv, Acquire
  PROVE  PollingInv' /\ DataKept
<1> DEFINE l == Head(queue)
           first == FirstSteps(l, store)
<1>1. /\ holder = Nobody /\ queue # <<>> /\ queue \in Seq(Loops)
      /\ queue' = Tail(queue) /\ rack' = rack /\ phase' = phase
      /\ moves' = moves /\ faults' = faults /\ StoreOK(store)
  BY DEF Acquire, PollingInv, TypeOK
<1>2. l \in Loops /\ queue' \in Seq(Loops) /\ phase # "new"
  BY <1>1 DEF PollingInv, PhaseOK
<1> HIDE DEF l
<1>3. first \in SUBSET Steps
  BY <1>1, <1>2, StateParts DEF FirstSteps, Loops, Steps, StoreOK
<1>4. \/ /\ first = {}
         /\ store' = Outcome(l, store, NoReplies)
         /\ status' = [status EXCEPT ![l] = "sleeping"]
         /\ UNCHANGED cycleVars
      \/ KeyMissing(l, store, first)
      \/ /\ first # {}
         /\ status' = [status EXCEPT ![l] = "running"]
         /\ holder' = l
         /\ previous' = store
         /\ todo' = first
         /\ UNCHANGED <<store, replies>>
  BY DEF Acquire, l
<1>5. CASE /\ first = {}
           /\ store' = Outcome(l, store, NoReplies)
           /\ status' = [status EXCEPT ![l] = "sleeping"]
           /\ UNCHANGED cycleVars
  <2>1. StoreOK(store')
    BY <1>1, <1>2, <1>5, NoRepliesTyped, OutcomeOK
  <2>2. TypeOK'
    BY <1>1, <1>2, <1>5, <2>1 DEF PollingInv, TypeOK, cycleVars, StoreOK
  <2>3. PhaseOK' /\ CycleOK' /\ RepliesOK(replies)' /\ NoLostUpdate'
    BY <1>1, <1>2, <1>5 DEF PollingInv, PhaseOK, CycleOK, NoLostUpdate, cycleVars
  <2>4. LoopsSurvive'
    BY <1>5 DEF PollingInv, LoopsSurvive, TypeOK
  <2>5. DOMAIN store.modules = {}
    BY <1>1, <1>2, <1>5 DEF FirstSteps, Loops, StoreOK, Mapped, Values
  <2>6. DataKept
    BY <2>5 DEF DataKept
  <2> QED
    BY <2>1, <2>2, <2>3, <2>4, <2>6 DEF PollingInv
<1>6. CASE KeyMissing(l, store, first)
  <2>1. l \in {"rack", "module"}
    BY <1>2, <1>6 DEF KeyMissing, Loops
  <2> QED
    BY <1>1, <1>3, <1>6, <2>1, NoKeyMissing
<1>7. CASE /\ first # {}
           /\ status' = [status EXCEPT ![l] = "running"]
           /\ holder' = l
           /\ previous' = store
           /\ todo' = first
           /\ UNCHANGED <<store, replies>>
  <2>1. TypeOK'
    BY <1>1, <1>2, <1>3, <1>7 DEF PollingInv, TypeOK
  <2>2. PhaseOK' /\ RepliesOK(replies)' /\ StoreOK(store)' /\ NoLostUpdate'
    BY <1>1, <1>2, <1>7 DEF PollingInv, PhaseOK, NoLostUpdate
  <2>3. LoopsSurvive'
    BY <1>7 DEF PollingInv, LoopsSurvive, TypeOK
  <2>4. CycleOK'
    <3>1. DOMAIN replies = {}
      BY <1>1 DEF PollingInv, CycleOK, NoReplies
    <3>2. /\ holder' # Nobody /\ todo' # {}
          /\ todo' \cup DOMAIN replies' = todo' /\ todo' \cap DOMAIN replies' = {}
      BY <1>2, <1>7, <3>1, NobodyIsNoLoop
    <3>3. holder' = "inventory" => todo' = {RackStep}
      BY <1>7 DEF FirstSteps
    <3>4. todo' = FirstSteps(holder', previous')
      BY <1>7
    <3> QED
      BY <3>2, <3>3, <3>4 DEF CycleOK
  <2>5. DataKept
    BY <1>1, <1>7, UnreadData DEF Nobody
  <2> QED
    BY <1>7, <2>1, <2>2, <2>3, <2>4, <2>5 DEF PollingInv
<1> QED
  BY <1>4, <1>5, <1>6, <1>7

\* A new connection status touches neither mapping nor data.
LEMMA ConnectionOK ==
  ASSUME NEW state, StoreOK(state), NEW c \in {"discovering", "offline"},
         NEW next, next = [state EXCEPT !.connection = c]
                   \/ next = [state EXCEPT !.connection = c, !.failing = TRUE]
  PROVE  StoreOK(next) /\ next.modules = state.modules
<1>1. next \in State /\ next.modules = state.modules /\ next.inventory = state.inventory
  BY DEF StoreOK, State
<1> QED
  BY <1>1 DEF StoreOK, Mapped

LEMMA StartFailsStep ==
  ASSUME PollingInv, StartFails
  PROVE  PollingInv' /\ DataKept
<1>1. StoreOK(store') /\ store'.modules = store.modules
  BY ConnectionOK DEF StartFails, PollingInv
<1>0. DataKept
  BY <1>1, UnreadData DEF StartFails, PollingInv, PhaseOK, Nobody
<1> QED
  BY <1>0, <1>1 DEF StartFails, cycleVars, PollingInv, TypeOK, PhaseOK, CycleOK, NoLostUpdate,
              LoopsSurvive, StoreOK

LEMMA InitializeStep ==
  ASSUME PollingInv, Initialize
  PROVE  PollingInv' /\ DataKept
<1>1. StoreOK(store') /\ store'.modules = store.modules
  BY ConnectionOK DEF Initialize, PollingInv
<1>0. DataKept
  BY <1>1, UnreadData DEF Initialize, PollingInv, PhaseOK, Nobody
<1>2. todo' = {RackStep} /\ holder' = "inventory" /\ "inventory" \in Loops
  BY DEF Initialize, FirstSteps, Loops
<1>3. TypeOK'
  BY <1>1, <1>2 DEF Initialize, PollingInv, TypeOK, StoreOK, Steps
<1>4. PhaseOK' /\ CycleOK' /\ RepliesOK(replies)' /\ NoLostUpdate' /\ LoopsSurvive'
  BY <1>2, NobodyIsNoLoop
     DEF Initialize, PollingInv, PhaseOK, CycleOK, NoLostUpdate, LoopsSurvive
<1> QED
  BY <1>0, <1>1, <1>3, <1>4 DEF PollingInv

LEMMA WakeStep ==
  ASSUME PollingInv, NEW l \in Loops, Wake(l)
  PROVE  PollingInv' /\ DataKept
<1>1. phase # "new"
  BY DEF Wake, PollingInv, PhaseOK
<1>2. TypeOK'
  BY DEF Wake, PollingInv, TypeOK, cycleVars
<1>3. DataKept
  BY UnreadData DEF Wake, cycleVars
<1> QED
  BY <1>1, <1>2, <1>3 DEF Wake, PollingInv, TypeOK, cycleVars, PhaseOK, CycleOK,
                          NoLostUpdate, LoopsSurvive, StoreOK

LEMMA StopStep ==
  ASSUME PollingInv, Stop
  PROVE  PollingInv' /\ DataKept
<1>1. TypeOK'
  BY EmptyStateOK, NoRepliesTyped DEF Stop, PollingInv, TypeOK, StoreOK, Partial
<1>2. DataKept
  BY UnreadData DEF Stop
<1> QED
  BY <1>1, <1>2, NoRepliesTyped
     DEF Stop, PollingInv, PhaseOK, CycleOK, NoLostUpdate, LoopsSurvive, StoreOK

LEMMA StutterStep ==
  ASSUME PollingInv, Rearrange \/ UNCHANGED vars
  PROVE  PollingInv' /\ DataKept
<1>1. DataKept
  BY UnreadData DEF Rearrange, vars, cycleVars
<1> QED
  BY <1>1 DEF Rearrange, vars, cycleVars, PollingInv, TypeOK, PhaseOK, CycleOK,
              NoLostUpdate, LoopsSurvive, StoreOK

(***************************************************************************)
(* The theorems.                                                           *)
(***************************************************************************)
LEMMA InitPolling == Init => PollingInv
<1> SUFFICES ASSUME Init PROVE PollingInv
  OBVIOUS
<1>1. TypeOK
  BY EmptyStateOK, NoRepliesTyped DEF Init, TypeOK, StoreOK, Partial
<1> QED
  BY <1>1, EmptyStateOK, NoRepliesTyped
     DEF Init, PollingInv, PhaseOK, CycleOK, NoLostUpdate, LoopsSurvive

LEMMA StepPolling ==
  PollingInv /\ [Next]_vars => PollingInv' /\ DataKept
<1> SUFFICES ASSUME PollingInv, [Next]_vars
             PROVE  PollingInv' /\ DataKept
  OBVIOUS
<1>1. CASE StartFails
  BY <1>1, StartFailsStep
<1>2. CASE Initialize
  BY <1>2, InitializeStep
<1>3. ASSUME NEW l \in Loops, Wake(l)
      PROVE  PollingInv' /\ DataKept
  BY <1>3, WakeStep
<1>4. CASE Acquire
  BY <1>4, AcquireStep
<1>5. CASE Answered
  BY <1>5, AnsweredStep
<1>6. CASE CommandFails
  BY <1>6, CommandFailsStep
<1>7. CASE Stop
  BY <1>7, StopStep
<1>8. CASE Rearrange \/ UNCHANGED vars
  BY <1>8, StutterStep
<1> QED
  BY <1>1, <1>2, <1>3, <1>4, <1>5, <1>6, <1>7, <1>8 DEF Next, Terminated

\* The inductive invariant of the polling service holds.
THEOREM PollingInvariant == Spec => []PollingInv
BY InitPolling, StepPolling, PTL DEF Spec

\* PollingService: every value keeps its type.
THEOREM PollingTyped == Spec => []TypeOK
<1>1. PollingInv => TypeOK
  BY DEF PollingInv
<1> QED
  BY <1>1, PollingInvariant, PTL

\* _cycle_lock: nothing is published between a cycle's snapshot of the store
\* and the state that the cycle publishes.
THEOREM NothingOverwritten == Spec => []NoLostUpdate
<1>1. PollingInv => NoLostUpdate
  BY DEF PollingInv
<1> QED
  BY <1>1, PollingInvariant, PTL

\* `modules[barcode]', looked up outside the try, never raises.
THEOREM NoLoopDies == Spec => []LoopsSurvive
<1>1. PollingInv => LoopsSurvive
  BY DEF PollingInv
<1> QED
  BY <1>1, PollingInvariant, PTL

\* _replace_module_slots: exactly the mapped modules have a place for data.
THEOREM SlotsAreMapped == Spec => []SlotsFollowMapping
<1>1. PollingInv => SlotsFollowMapping
  BY DEF PollingInv, StoreOK, SlotsFollowMapping
<1> QED
  BY <1>1, PollingInvariant, PTL

\* A cycle makes valid exactly what its own commands have read, and keeps the
\* data of the others as invalid.
THEOREM FailuresKeepData == Spec => FailureKeepsData
<1>1. PollingInv /\ [Next]_vars => [DataKept]_vars
  BY StepPolling
<1>2. [DataKept]_vars =>
        [\A b \in DOMAIN store.modules \cap DOMAIN store'.modules :
           \A part \in {"detail", "cells"} : ReadOrKept(b, part)]_vars
  BY DEF DataKept
<1> QED
  BY <1>1, <1>2, PollingInvariant, PTL DEF Spec, FailureKeepsData

(***************************************************************************)
(* What REST and the web page make of a published state, for any rack and  *)
(* whatever was published: the invariant of the polling service is what    *)
(* the queries rely on without a test.                                     *)
(***************************************************************************)
\* A module is in the rack, for the queries, if the mapping has it.
LEMMA InRackIsMapped ==
  ASSUME NEW state, StoreOK(state)
  PROVE  /\ InRack(state) = Mapped(state)
         /\ \A p \in DOMAIN state.inventory.positions :
              LET b == state.inventory.positions[p]
              IN  /\ b \in InRack(state)
                  /\ state.inventory.modules[b] = [position |-> p, present |-> "yes"]
         /\ \A b \in InRack(state) :
              LET p == state.inventory.modules[b].position
              IN  p \in DOMAIN state.inventory.positions /\ state.inventory.positions[p] = b
<1>1. NoPosition \notin DOMAIN state.inventory.positions
  BY StateParts, PositionsAssumption DEF StoreOK, NoPosition
<1>2. ASSUME NEW p \in DOMAIN state.inventory.positions
      PROVE  LET b == state.inventory.positions[p]
             IN  /\ b \in InRack(state)
                 /\ state.inventory.modules[b] = [position |-> p, present |-> "yes"]
  BY <1>1 DEF InRack, StoreOK, Agrees
<1>3. ASSUME NEW b \in InRack(state)
      PROVE  LET p == state.inventory.modules[b].position
             IN  p \in DOMAIN state.inventory.positions /\ state.inventory.positions[p] = b
  BY DEF InRack, StoreOK, Agrees
<1>4. InRack(state) = Mapped(state)
  BY <1>2, <1>3 DEF Mapped, Values
<1> QED
  BY <1>2, <1>3, <1>4

\* There is one row, and one module with data, for every mapped position.
LEMMA RowsCounted ==
  ASSUME NEW state, StoreOK(state), NEW stale
  PROVE  Cardinality(DOMAIN state.modules) = Cardinality(Rows(state, stale))
<1> DEFINE positions == state.inventory.positions
           S == DOMAIN state.modules
           f == [p \in DOMAIN positions |-> positions[p]]
           g == [b \in S |-> Row(state, b, stale)]
<1>1. IsFiniteSet(DOMAIN positions)
  BY StateParts, PositionsFinite, FS_Subset DEF StoreOK
<1>2. S = {positions[p] : p \in DOMAIN positions} /\ S = InRack(state)
  BY InRackIsMapped DEF StoreOK, Mapped, Values
<1>3. f \in Surjection(DOMAIN positions, S)
  BY <1>2 DEF Surjection
<1>4. IsFiniteSet(S)
  BY <1>1, <1>3, FS_Surjection
<1>5. Rows(state, stale) = {Row(state, b, stale) : b \in S}
  BY <1>2 DEF Rows
<1>6. \A b, c \in S : Row(state, b, stale) = Row(state, c, stale) => b = c
  BY DEF Row
<1> HIDE DEF S
<1>7. g \in Bijection(S, Rows(state, stale))
  BY <1>5, <1>6 DEF Bijection, Injection, Surjection, IsInjective
<1>8. ExistsBijection(S, Rows(state, stale))
  BY <1>7 DEF ExistsBijection
<1> QED
  BY <1>4, <1>8, FS_Bijection DEF S

LEMMA StoreViewsAgree == StoreOK(store) => ViewsAgree
<1> SUFFICES ASSUME StoreOK(store), NEW stale \in SUBSET Barcodes
             PROVE
    LET inventory == store.inventory
        rows == Rows(store, stale)
    IN  /\ \A p \in DOMAIN inventory.positions :
             /\ inventory.positions[p] \in DOMAIN inventory.modules
             /\ PositionView(store, p, stale).record
                  = [position |-> p, present |-> "yes"]
        /\ {<<row.position, row.barcode>> : row \in rows}
             = {<<p, inventory.positions[p]>> : p \in DOMAIN inventory.positions}
        /\ \A part \in {"detail", "cells"} :
             Counts(store, part, stale).total = Cardinality(rows)
        /\ \A b \in DOMAIN inventory.modules \ InRack(store) :
             /\ ModuleView(store, b, stale).detail = EmptyMetadata
             /\ ModuleView(store, b, stale).cells = EmptyMetadata
        /\ \A b \in DOMAIN inventory.modules :
             Order(inventory.modules[b]) = WebOrder(inventory.modules[b])
  BY DEF ViewsAgree
<1> DEFINE inventory == store.inventory
           rows == Rows(store, stale)
<1>1. ASSUME NEW p \in DOMAIN inventory.positions
      PROVE  /\ inventory.positions[p] \in DOMAIN inventory.modules
             /\ PositionView(store, p, stale).record = [position |-> p, present |-> "yes"]
  <2>1. /\ inventory.positions[p] \in DOMAIN inventory.modules
        /\ inventory.modules[inventory.positions[p]] = [position |-> p, present |-> "yes"]
    BY DEF StoreOK, Agrees
  <2>2. Summary(store, inventory.positions[p], stale).record
          = inventory.modules[inventory.positions[p]]
    BY DEF Summary
  <2> QED
    BY <2>1, <2>2 DEF PositionView
<1>2. {<<row.position, row.barcode>> : row \in rows}
        = {<<p, inventory.positions[p]>> : p \in DOMAIN inventory.positions}
  <2>1. ASSUME NEW row \in rows
        PROVE  \E p \in DOMAIN inventory.positions :
                 row.position = p /\ row.barcode = inventory.positions[p]
    <3>1. PICK b \in InRack(store) : row = Row(store, b, stale)
      BY <2>1 DEF Rows
    <3>2. row.position = inventory.modules[b].position /\ row.barcode = b
      BY <3>1 DEF Row
    <3> QED
      BY <3>1, <3>2, InRackIsMapped
  <2>2. ASSUME NEW p \in DOMAIN inventory.positions
        PROVE  \E row \in rows : row.position = p /\ row.barcode = inventory.positions[p]
    <3> DEFINE b == inventory.positions[p]
    <3>1. b \in InRack(store) /\ inventory.modules[b].position = p
      <4>1. inventory.modules[b] = [position |-> p, present |-> "yes"]
        BY DEF StoreOK, Agrees
      <4>2. b \in Mapped(store)
        BY DEF Mapped, Values
      <4> HIDE DEF b
      <4> QED
        BY <4>1, <4>2, InRackIsMapped
    <3>2. Row(store, b, stale) \in rows
      BY <3>1 DEF Rows
    <3>3. /\ Row(store, b, stale).position = inventory.modules[b].position
          /\ Row(store, b, stale).barcode = b
      BY DEF Row
    <3> QED
      BY <3>1, <3>2, <3>3
  <2> HIDE DEF rows, inventory
  <2> QED
    BY <2>1, <2>2
<1>3. \A part \in {"detail", "cells"} : Counts(store, part, stale).total = Cardinality(rows)
  BY RowsCounted DEF Counts
<1>4. ASSUME NEW b \in DOMAIN inventory.modules \ InRack(store)
      PROVE  /\ ModuleView(store, b, stale).detail = EmptyMetadata
             /\ ModuleView(store, b, stale).cells = EmptyMetadata
  <2>1. ~HasSlot(store, b)
    BY <1>4, InRackIsMapped DEF HasSlot, StoreOK
  <2> QED
    BY <2>1 DEF ModuleView, Summary
<1>5. ASSUME NEW b \in DOMAIN inventory.modules
      PROVE  Order(inventory.modules[b]) = WebOrder(inventory.modules[b])
  <2>1. NoPosition \notin DOMAIN inventory.positions
    BY StateParts, PositionsAssumption DEF StoreOK, NoPosition
  <2>2. inventory.modules[b].present = "yes" <=> inventory.modules[b].position # NoPosition
    BY <2>1 DEF StoreOK, Agrees
  <2> QED
    BY <2>2 DEF Order, WebOrder
<1> QED
  BY <1>1, <1>2, <1>3, <1>4, <1>5

\* Valid cell data has been counted when it was read, so a row is current only
\* with an average and with the colours of as many cells as the module has.
LEMMA StoreRowsCaptured == StoreOK(store) => CurrentRowsAreCaptures
<1> SUFFICES ASSUME StoreOK(store), NEW stale \in SUBSET Barcodes,
                    NEW b \in InRack(store)
             PROVE  LET row == Row(store, b, stale)
                    IN  IF row.status = "current"
                          THEN row.average /\ Coloured(row) = Tiles \cap Cells(row.barcode)
                          ELSE ~row.average /\ Coloured(row) = {}
  BY DEF CurrentRowsAreCaptures, Rows
<1> DEFINE row == Row(store, b, stale)
<1>1. b \in DOMAIN store.modules
  BY InRackIsMapped DEF StoreOK
<1>2. store.modules[b].cells.valid =>
        CellCount[store.modules[b].cells.value] = CellCount[b]
  BY <1>1 DEF StoreOK, Counted
<1>3. CaptureIsCurrent(store, b, stale) <=> RowStatus(store, b, stale) = "current"
  BY <1>1, <1>2 DEF CaptureIsCurrent, RowStatus, HasSlot
<1>4. /\ row.status = RowStatus(store, b, stale)
      /\ row.average = CaptureIsCurrent(store, b, stale)
      /\ row.barcode = b
      /\ \A i \in Tiles : row.tiles[i] = Tile(store, b, stale, i)
  BY DEF Row
<1>5. CASE row.status = "current"
  <2>1. Captured(store, b) = Cells(b)
    <3>1. /\ HasSlot(store, b) /\ store.modules[b].cells.value # NoBarcode
          /\ store.modules[b].cells.valid
      BY <1>4, <1>5 DEF RowStatus
    <3>2. RowStatus(store, b, {}) # "unavailable"
      BY <3>1 DEF RowStatus
    <3> QED
      BY <1>2, <3>1, <3>2 DEF Captured, Cells
  <2>2. \A i \in Tiles : row.tiles[i] = "coloured" <=> i \in Cells(b)
    BY <1>3, <1>4, <1>5, <2>1 DEF Tile
  <2>3. row.average /\ row.barcode = b
    BY <1>3, <1>4, <1>5
  <2> HIDE DEF row
  <2>4. Coloured(row) = Tiles \cap Cells(b)
    BY <2>2, Zenon DEF Coloured
  <2> QED
    BY <1>5, <2>3, <2>4 DEF row
<1>6. CASE row.status # "current"
  <2>1. \A i \in Tiles : row.tiles[i] # "coloured"
    BY <1>4, <1>6 DEF Tile
  <2>2. ~row.average
    BY <1>3, <1>4, <1>6
  <2> HIDE DEF row
  <2>3. Coloured(row) = {}
    BY <2>1, Zenon DEF Coloured
  <2> QED
    BY <1>6, <2>2, <2>3 DEF row
<1> QED
  BY <1>5, <1>6

\* What /modules, /positions and the page show of one published state is one
\* story, whatever was published.
THEOREM OneStoryShown == Spec => []ViewsAgree
<1>1. PollingInv => ViewsAgree
  BY StoreViewsAgree DEF PollingInv
<1> QED
  BY <1>1, PollingInvariant, PTL

\* A current row shows the cells of its module, as far as it has tiles for them.
THEOREM RowsAreCaptures == Spec => []CurrentRowsAreCaptures
<1>1. PollingInv => CurrentRowsAreCaptures
  BY StoreRowsCaptured DEF PollingInv
<1> QED
  BY <1>1, PollingInvariant, PTL
=============================================================================
