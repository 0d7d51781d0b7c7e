--------------------------- MODULE DiscoveryCycles ---------------------------
(***************************************************************************)
(* Successive discovery cycles, whatever `pwr' and `info' return in each,  *)
(* and a consumer that knows the rack only from the topology events.       *)
(***************************************************************************)
EXTENDS Discovery

CONSTANT CycleReplies   \* the combinations of replies a cycle may get

ASSUME CycleRepliesAssumption == CycleReplies \subseteq Replies

VARIABLES
  inventory,   \* DiscoveryResult.state of the last cycle
  errors,      \* DiscoveryResult.errors, by position
  events,      \* DiscoveryResult.events
  view         \* where the events put each barcode, NoPosition for nowhere

vars == <<inventory, errors, events, view>>

TypeOK ==
  /\ inventory \in InventoryState
  /\ DOMAIN errors \subseteq Positions
  /\ view \in [Barcodes -> Positions \cup {NoPosition}]

Init ==
  /\ inventory = EmptyInventory
  /\ errors = [p \in {} |-> "none"]
  /\ events = {}
  /\ view = [b \in Barcodes |-> NoPosition]

\* A subscriber that follows arrivals, removals and replacements.
Followed(v, evts) ==
  [b \in Barcodes |->
     IF \E e \in evts : e.barcode = b /\ e.kind \in
          {"MODULE_DISCOVERED", "MODULE_REAPPEARED", "MODULE_MOVED"}
       THEN (CHOOSE e \in evts : e.barcode = b /\ e.kind \in
          {"MODULE_DISCOVERED", "MODULE_REAPPEARED", "MODULE_MOVED"}).position
     ELSE IF \E e \in evts : \/ e.kind = "MODULE_REMOVED" /\ e.barcode = b
                             \/ e.replaced = b
       THEN NoPosition
     ELSE v[b]]

\* discover_modules(): one cycle.
Discover(replies) ==
  LET positions == Candidates(replies)
  IN  /\ errors' = DiscoveryErrors(replies)
      /\ inventory' = Reconcile(inventory, positions, errors')
      /\ events' = TopologyEvents(inventory, positions, errors')
      /\ view' = Followed(view, events')

Next == \E replies \in CycleReplies : Discover(replies)

Spec == Init /\ [][Next]_vars

(***************************************************************************)
(* Properties.                                                             *)
(***************************************************************************)
\* ADR-001: position -> barcode -> module data and barcode -> position are
\* the same relation, and no barcode is at two positions.
MappingAgrees ==
  /\ \A p \in DOMAIN inventory.positions :
       LET b == inventory.positions[p]
       IN  /\ b \in DOMAIN inventory.modules
           /\ inventory.modules[b] = [position |-> p, present |-> "yes"]
  /\ \A b \in DOMAIN inventory.modules :
       LET record == inventory.modules[b]
       IN  IF record.present = "yes"
             THEN /\ record.position \in DOMAIN inventory.positions
                  /\ inventory.positions[record.position] = b
             ELSE record.position = NoPosition

\* A module is never forgotten while the service runs.
KnownModulesStayKnown ==
  [][DOMAIN inventory.modules \subseteq DOMAIN inventory'.modules]_vars

\* The events alone tell where every present module is, whatever moved,
\* was replaced or could not be identified in between.
EventsTellPresence ==
  \A b \in DOMAIN inventory.modules :
    inventory.modules[b].present = "yes" => view[b] = inventory.modules[b].position

\* A cycle that finds what the previous one found reports no topology change.
QuietWhenUnchanged ==
  [][inventory' = inventory => events' = ErrorEvents(errors')]_vars

\* A barcode has at most one arrival in a cycle, and none together with its
\* own removal.
OneStoryPerModule ==
  \A b \in Barcodes :
    Cardinality({e \in events : e.barcode = b /\ e.kind \in
      {"MODULE_DISCOVERED", "MODULE_REAPPEARED", "MODULE_MOVED",
       "MODULE_REMOVED"}}) <= 1
=============================================================================
