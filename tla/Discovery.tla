------------------------------ MODULE Discovery ------------------------------
(***************************************************************************)
(* discover_modules() of discovery/modules.py: from the positions `pwr'    *)
(* reports present and the identities `info' returns for them, the new     *)
(* barcode-keyed inventory, the topology events and the inventory errors.  *)
(* Timestamps other than their awareness, and wording, are left out.       *)
(***************************************************************************)
EXTENDS Naturals, FiniteSets

CONSTANTS
  Positions,    \* rack addresses
  Barcodes,     \* physical identities
  NoBarcode     \* a missing or blank barcode

ASSUME PositionsAssumption == Positions \subseteq Nat \ {0}
ASSUME PositionsFinite == IsFiniteSet(Positions)
ASSUME BarcodesAssumption == NoBarcode \notin Barcodes

NoPosition == 0

\* What read_identity() returns for a position, or that it raised.
Reply == [read: BOOLEAN, position: Positions, barcode: Barcodes \cup {NoBarcode},
          aware: BOOLEAN]

\* The replies of a cycle, one for every position reported present.
Replies == UNION {[P -> Reply] : P \in SUBSET Positions}

ModuleRecord == [position: Positions \cup {NoPosition},
                 present: {"yes", "no", "unresolved"}]

InventoryState == [positions: UNION {[P -> Barcodes] : P \in SUBSET Positions},
                   modules: UNION {[B -> ModuleRecord] : B \in SUBSET Barcodes}]

Values(f) == {f[x] : x \in DOMAIN f}

\* InventoryState.empty(): no positions and no modules.
EmptyInventory == [positions |-> [p \in {} |-> NoBarcode],
                   modules   |-> [b \in {} |-> NoPosition]]

(***************************************************************************)
(* _read_candidates: the checks of one reply in their order, then the      *)
(* barcodes that more than one position returned.                          *)
(***************************************************************************)
ReplyError(p, reply) ==
  IF ~reply.read THEN "IDENTITY_READ_FAILED"
  ELSE IF reply.position # p THEN "POSITION_MISMATCH"
  ELSE IF reply.barcode = NoBarcode THEN "MISSING_BARCODE"
  ELSE IF ~reply.aware THEN "INVALID_TIMESTAMP"
  ELSE "none"

Accepted(replies) == {p \in DOMAIN replies : ReplyError(p, replies[p]) = "none"}

\* Mutation of Duplicated: the same barcode at two positions is accepted.
NoneDuplicated(replies) == {}

Duplicated(replies) ==
  {p \in Accepted(replies) :
     \E q \in Accepted(replies) \ {p} : replies[q].barcode = replies[p].barcode}

\* The candidates, as the new position -> barcode mapping.
Candidates(replies) ==
  [p \in Accepted(replies) \ Duplicated(replies) |-> replies[p].barcode]

\* errors_by_position.
DiscoveryErrors(replies) ==
  [p \in (DOMAIN replies \ Accepted(replies)) \cup Duplicated(replies) |->
     IF p \in Accepted(replies) THEN "DUPLICATE_BARCODE"
                                ELSE ReplyError(p, replies[p])]

(***************************************************************************)
(* _reconcile: the records.                                                *)
(***************************************************************************)
WasPresent(previous, b) ==
  b \in DOMAIN previous.modules /\ previous.modules[b].present = "yes"

WasUnresolved(previous, b, errors) ==
  previous.modules[b].position \in DOMAIN errors

Gone(previous, b, errors) ==
  [position |-> NoPosition,
   present  |-> IF WasUnresolved(previous, b, errors) THEN "unresolved" ELSE "no"]

\* Mutation of Reconcile: absent modules are forgotten.
ReconcileForgets(previous, positions, errors) ==
  [positions |-> positions,
   modules   |-> [b \in Values(positions) |->
     [position |-> CHOOSE p \in DOMAIN positions : positions[p] = b,
      present |-> "yes"]]]

\* Mutation of Reconcile: an unresolved module stays where it was.
ReconcileKeepsUnresolved(previous, positions, errors) ==
  [positions |-> positions,
   modules   |->
     [b \in DOMAIN previous.modules \cup Values(positions) |->
        IF b \in Values(positions)
          THEN [position |-> CHOOSE p \in DOMAIN positions : positions[p] = b,
                present |-> "yes"]
        ELSE IF WasUnresolved(previous, b, errors) THEN previous.modules[b]
        ELSE Gone(previous, b, errors)]]

Reconcile(previous, positions, errors) ==
  [positions |-> positions,
   modules   |->
     [b \in DOMAIN previous.modules \cup Values(positions) |->
        IF b \in Values(positions)
          THEN [position |-> CHOOSE p \in DOMAIN positions : positions[p] = b,
                present |-> "yes"]
          ELSE Gone(previous, b, errors)]]

(***************************************************************************)
(* The topology events.                                                    *)
(***************************************************************************)
Event(kind, b, p, replaced) ==
  [kind |-> kind, barcode |-> b, position |-> p, replaced |-> replaced]

\* Mutation of Arrival: only a free position counts as a move.
ArrivalIfFree(previous, b, p) ==
  IF b \notin DOMAIN previous.modules
    THEN {Event("MODULE_DISCOVERED", b, p, NoBarcode)}
  ELSE IF ~WasPresent(previous, b)
    THEN {Event("MODULE_REAPPEARED", b, p, NoBarcode)}
  ELSE IF p \notin DOMAIN previous.positions
    THEN {Event("MODULE_MOVED", b, p, NoBarcode)}
  ELSE {}

\* _topology_events_for_candidate: at most one arrival for the candidate b at
\* p, and the replacement of an occupant by a module that was not in the rack.
Arrival(previous, b, p) ==
  IF b \notin DOMAIN previous.modules
    THEN {Event("MODULE_DISCOVERED", b, p, NoBarcode)}
  ELSE IF ~WasPresent(previous, b)
    THEN {Event("MODULE_REAPPEARED", b, p, NoBarcode)}
  ELSE IF previous.modules[b].position # p
    THEN {Event("MODULE_MOVED", b, p, NoBarcode)}
  ELSE {}

Replacement(previous, b, p) ==
  IF p \in DOMAIN previous.positions /\ previous.positions[p] # b
     /\ ~WasPresent(previous, b)
    THEN {Event("MODULE_REPLACED_AT_POSITION", b, p, previous.positions[p])}
    ELSE {}

CandidateEvents(previous, positions) ==
  UNION {Arrival(previous, positions[p], p) \cup
         Replacement(previous, positions[p], p) : p \in DOMAIN positions}

\* Mutation of Removals: a module absent before is reported again.
RemovalsRepeated(previous, positions, errors) ==
  LET replaced == {e.replaced : e \in CandidateEvents(previous, positions)}
  IN  {Event("MODULE_REMOVED", b, NoPosition, NoBarcode) :
         b \in {c \in DOMAIN previous.modules \ Values(positions) :
                  ~WasUnresolved(previous, c, errors) /\ c \notin replaced}}

\* Mutation of Removals: whoever left its position is removed.
RemovalsOfMoved(previous, positions, errors) ==
  {Event("MODULE_REMOVED", b, NoPosition, NoBarcode) :
     b \in {c \in DOMAIN previous.modules :
              /\ WasPresent(previous, c)
              /\ ~WasUnresolved(previous, c, errors)
              /\ \/ previous.modules[c].position \notin DOMAIN positions
                 \/ positions[previous.modules[c].position] # c}}

Removals(previous, positions, errors) ==
  LET replaced == {e.replaced : e \in CandidateEvents(previous, positions)}
  IN  {Event("MODULE_REMOVED", b, NoPosition, NoBarcode) :
         b \in {c \in DOMAIN previous.modules \ Values(positions) :
                  /\ WasPresent(previous, c)
                  /\ ~WasUnresolved(previous, c, errors)
                  /\ c \notin replaced}}

ErrorEvents(errors) ==
  {Event("INVENTORY_ERROR", NoBarcode, p, NoBarcode) : p \in DOMAIN errors}

TopologyEvents(previous, positions, errors) ==
  CandidateEvents(previous, positions)
    \cup Removals(previous, positions, errors)
    \cup ErrorEvents(errors)
=============================================================================
