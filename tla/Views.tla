-------------------------------- MODULE Views --------------------------------
(***************************************************************************)
(* What the REST queries (outputs/api/query.py) and the web page           *)
(* (outputs/web/query.py) make of one published state, for the states that *)
(* Polling publishes.  Both only read.  Which values are stale at the      *)
(* moment of a request is a parameter here (see Freshness); measurements   *)
(* are the barcode of the module they came from, as in Polling.            *)
(***************************************************************************)
EXTENDS Polling

None == "none"

\* The metadata of a value; what was never received is stale.
Metadata(value, stale) ==
  [valid |-> value.valid, stale |-> stale \/ value.value = NoBarcode,
   error |-> value.error]

\* The metadata shown for a module without a place for its data.
EmptyMetadata == [valid |-> FALSE, stale |-> TRUE, error |-> FALSE]

HasSlot(state, b) == b \in DOMAIN state.modules

(***************************************************************************)
(* /modules, /modules/{barcode}, /positions/{position} and /health.        *)
(***************************************************************************)
\* summary() and module(): record, and the metadata of both groups.
Summary(state, b, stale) ==
  [barcode |-> b,
   record  |-> state.inventory.modules[b],
   detail  |-> IF HasSlot(state, b) THEN Metadata(state.modules[b].detail, b \in stale)
                                    ELSE EmptyMetadata,
   cells   |-> IF HasSlot(state, b) THEN Metadata(state.modules[b].cells, b \in stale)
                                    ELSE EmptyMetadata]

ModuleView(state, b, stale) ==
  IF b \in DOMAIN state.inventory.modules THEN Summary(state, b, stale) ELSE None

\* `modules[barcode]' is looked up without a test: see ViewsAgree.
PositionView(state, p, stale) ==
  IF p \in DOMAIN state.inventory.positions
    THEN Summary(state, state.inventory.positions[p], stale)
    ELSE None

\* The order of the modules: first those in the rack, by position.
After == 17
Order(record) ==
  <<record.present # "yes",
    IF record.present = "yes" THEN record.position ELSE After>>

\* The web page falls back on the position itself, not on `present'.
WebOrder(record) ==
  <<record.present # "yes",
    IF record.position # NoPosition THEN record.position ELSE After>>

\* health_for: the counts over the modules with data, for a group of values.
Counts(state, part, stale) ==
  [total   |-> Cardinality(DOMAIN state.modules),
   valid   |-> Cardinality({b \in DOMAIN state.modules : state.modules[b][part].valid}),
   invalid |-> Cardinality({b \in DOMAIN state.modules : ~state.modules[b][part].valid}),
   stale   |-> Cardinality({b \in DOMAIN state.modules :
                              Metadata(state.modules[b][part], b \in stale).stale})]

(***************************************************************************)
(* The rows of the cell voltages.                                          *)
(***************************************************************************)
InRack(state) ==
  {b \in DOMAIN state.inventory.modules :
     /\ state.inventory.modules[b].present = "yes"
     /\ state.inventory.modules[b].position # NoPosition}

CaptureIsCurrent(state, b, stale) ==
  /\ HasSlot(state, b)
  /\ LET cells == state.modules[b].cells
     IN  /\ cells.value # NoBarcode
         /\ cells.valid
         /\ ~Metadata(cells, b \in stale).stale
         /\ CellCount[cells.value] = CellCount[b]

RowStatus(state, b, stale) ==
  IF ~HasSlot(state, b) \/ state.modules[b].cells.value = NoBarcode
    THEN "unavailable"
  ELSE IF ~state.modules[b].cells.valid THEN "invalid"
  ELSE IF Metadata(state.modules[b].cells, b \in stale).stale THEN "stale"
  ELSE "current"

\* A row has the same number of tiles, whatever module it is for.
ExpectedCellCount == 15
Tiles == 0..ExpectedCellCount - 1

\* The parsers number the cells of a module from 0, without a gap.
Cells(b) == 0..CellCount[b] - 1

\* The last capture, which need not be valid.
Captured(state, b) ==
  IF RowStatus(state, b, {}) = "unavailable" THEN {}
  ELSE Cells(state.modules[b].cells.value)

\* A tile without a cell is unavailable, and a cell without a tile is dropped.
\* A tile has a colour, and an absolute state, if the row is current and has an
\* average to compare with.
Tile(state, b, stale, i) ==
  IF i \notin Captured(state, b) THEN "unavailable"
  ELSE IF RowStatus(state, b, stale) = "current" /\ CaptureIsCurrent(state, b, stale)
    THEN "coloured"
  ELSE "neutral"

Row(state, b, stale) ==
  [barcode  |-> b,
   position |-> state.inventory.modules[b].position,
   status   |-> RowStatus(state, b, stale),
   average  |-> CaptureIsCurrent(state, b, stale),
   tiles    |-> [i \in Tiles |-> Tile(state, b, stale, i)]]

Rows(state, stale) == {Row(state, b, stale) : b \in InRack(state)}

(***************************************************************************)
(* Properties.                                                             *)
(***************************************************************************)
\* The views of one state tell one story: a mapped position resolves to the
\* record of a module present at it, has exactly one row on the page and one
\* module counted by /health; every other module is shown without data, and
\* REST and the page list the modules in the same order.
ViewsAgree ==
  \A stale \in SUBSET Barcodes :
    LET inventory == store.inventory
        rows == Rows(store, stale)
    IN  /\ \A p \in DOMAIN inventory.positions :
             /\ inventory.positions[p] \in DOMAIN inventory.modules
             /\ PositionView(store, p, stale).record
                  = [position |-> p, present |-> "yes"]
        /\ {<<row.position, row.barcode>> : row \in rows}
             = {<<p, inventory.positions[p]>> : p \in DOMAIN inventory.positions}
        /\ \A part \in {"detail", "cells"} :
             Counts(store, part, stale).total = Cardinality(rows)
        /\ \A b \in DOMAIN inventory.modules \ InRack(store) :
             /\ ModuleView(store, b, stale).detail = EmptyMetadata
             /\ ModuleView(store, b, stale).cells = EmptyMetadata
        /\ \A b \in DOMAIN inventory.modules :
             Order(inventory.modules[b]) = WebOrder(inventory.modules[b])

Coloured(row) == {i \in Tiles : row.tiles[i] = "coloured"}

\* A row marked as current has an average, and the colours of all the cells its
\* module has a tile for: of a module with 15 cells, the only ones the contract
\* supports, no tile is left without.  No other row has an average or a colour.
\* (A row would be `current' without either if a capture with another module's
\* number of cells were stored as valid.)
CurrentRowsAreCaptures ==
  \A stale \in SUBSET Barcodes :
    \A row \in Rows(store, stale) :
      IF row.status = "current"
        THEN row.average /\ Coloured(row) = Tiles \cap Cells(row.barcode)
        ELSE ~row.average /\ Coloured(row) = {}
=============================================================================
