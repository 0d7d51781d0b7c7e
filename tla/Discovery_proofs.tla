--------------------------- MODULE Discovery_proofs ---------------------------
(***************************************************************************)
(* What discover_modules() returns, for any replies and any previous       *)
(* inventory: the facts that the theorems about cycles and polling use.    *)
(***************************************************************************)
EXTENDS Discovery, TLAPS

OneToOne(positions) ==
  \A p, q \in DOMAIN positions : positions[p] = positions[q] => p = q

\* Both directions of an inventory, MappingAgrees for a value.
Agrees(inv) ==
  /\ \A p \in DOMAIN inv.positions :
       /\ inv.positions[p] \in DOMAIN inv.modules
       /\ inv.modules[inv.positions[p]] = [position |-> p, present |-> "yes"]
  /\ \A b \in DOMAIN inv.modules :
       IF inv.modules[b].present = "yes"
         THEN /\ inv.modules[b].position \in DOMAIN inv.positions
              /\ inv.positions[inv.modules[b].position] = b
         ELSE inv.modules[b].position = NoPosition

\* Whoever is a candidate is one at a single position.
LEMMA CandidatesOneToOne ==
  ASSUME NEW replies
  PROVE  OneToOne(Candidates(replies))
BY DEF OneToOne, Candidates, Duplicated

\* A candidate has a barcode, and its position was asked.
LEMMA CandidatesType ==
  ASSUME NEW replies, NEW p \in DOMAIN Candidates(replies)
  PROVE  /\ p \in DOMAIN replies
         /\ Candidates(replies)[p] = replies[p].barcode
         /\ Candidates(replies)[p] # NoBarcode
BY DEF Candidates, Accepted, ReplyError

\* The record of a candidate says where it is.
LEMMA CandidateRecord ==
  ASSUME NEW previous, NEW positions, NEW errors, OneToOne(positions),
         NEW p \in DOMAIN positions
  PROVE  LET inv == Reconcile(previous, positions, errors)
         IN  /\ positions[p] \in DOMAIN inv.modules
             /\ inv.modules[positions[p]] = [position |-> p, present |-> "yes"]
<1> DEFINE b == positions[p]
           q == CHOOSE x \in DOMAIN positions : positions[x] = b
<1>1. q \in DOMAIN positions /\ positions[q] = b
  OBVIOUS
<1>2. q = p
  BY <1>1 DEF OneToOne
<1>3. b \in Values(positions)
  BY DEF Values
<1> QED
  BY <1>2, <1>3 DEF Reconcile

\* The record of any other module puts it nowhere.
LEMMA GoneRecord ==
  ASSUME NEW previous, NEW positions, NEW errors,
         NEW b \in DOMAIN Reconcile(previous, positions, errors).modules,
         b \notin Values(positions)
  PROVE  LET record == Reconcile(previous, positions, errors).modules[b]
         IN  record.position = NoPosition /\ record.present # "yes"
BY DEF Reconcile, Gone

\* Whatever the inventory was, the two directions of the new one agree.
LEMMA ReconcileAgrees ==
  ASSUME NEW previous, NEW positions, NEW errors, OneToOne(positions)
  PROVE  Agrees(Reconcile(previous, positions, errors))
<1> DEFINE inv == Reconcile(previous, positions, errors)
<1>1. inv.positions = positions
  BY DEF Reconcile
<1>2. ASSUME NEW p \in DOMAIN inv.positions
      PROVE  /\ inv.positions[p] \in DOMAIN inv.modules
             /\ inv.modules[inv.positions[p]] = [position |-> p, present |-> "yes"]
  BY <1>1, <1>2, CandidateRecord
<1>3. ASSUME NEW b \in DOMAIN inv.modules
      PROVE  IF inv.modules[b].present = "yes"
               THEN /\ inv.modules[b].position \in DOMAIN inv.positions
                    /\ inv.positions[inv.modules[b].position] = b
               ELSE inv.modules[b].position = NoPosition
  <2>1. CASE b \in Values(positions)
    <3>1. PICK p \in DOMAIN positions : positions[p] = b
      BY <2>1 DEF Values
    <3>2. inv.modules[b] = [position |-> p, present |-> "yes"]
      BY <3>1, CandidateRecord
    <3> QED
      BY <3>1, <3>2, <1>1
  <2>2. CASE b \notin Values(positions)
    BY <2>2, GoneRecord
  <2> QED
    BY <2>1, <2>2
<1> QED
  BY <1>2, <1>3 DEF Agrees

\* No record is dropped, and the barcodes are old or candidates'.
LEMMA ReconcileKeeps ==
  ASSUME NEW previous, NEW positions, NEW errors
  PROVE  DOMAIN Reconcile(previous, positions, errors).modules
           = DOMAIN previous.modules \cup Values(positions)
BY DEF Reconcile

LEMMA EmptyAgrees == Agrees(EmptyInventory)
BY DEF Agrees, EmptyInventory
(***************************************************************************)
(* Types.                                                                  *)
(***************************************************************************)
\* Partial functions, as the type invariants write them.
Partial(S, X) == UNION {[D -> X] : D \in SUBSET S}

LEMMA PartialIntro ==
  ASSUME NEW S, NEW X, NEW D \in SUBSET S, NEW f \in [D -> X]
  PROVE  f \in Partial(S, X)
BY DEF Partial

LEMMA PartialElim ==
  ASSUME NEW S, NEW X, NEW f \in Partial(S, X)
  PROVE  DOMAIN f \subseteq S /\ f \in [DOMAIN f -> X]
BY DEF Partial

\* The checks of _read_candidates leave positions with barcodes.
LEMMA CandidatesTyped ==
  ASSUME NEW replies, DOMAIN replies \subseteq Positions,
         \A p \in DOMAIN replies : replies[p].barcode \in Barcodes \cup {NoBarcode}
  PROVE  /\ Candidates(replies) \in Partial(Positions, Barcodes)
         /\ DOMAIN DiscoveryErrors(replies) \subseteq Positions
<1>1. Candidates(replies) \in [Accepted(replies) \ Duplicated(replies) -> Barcodes]
  BY DEF Candidates, Accepted, ReplyError
<1>2. Accepted(replies) \ Duplicated(replies) \in SUBSET Positions
  BY DEF Accepted
<1>3. DOMAIN DiscoveryErrors(replies) \subseteq Positions
  BY DEF DiscoveryErrors, Accepted, Duplicated
<1> QED
  BY <1>1, <1>2, <1>3, PartialIntro

\* _reconcile makes an inventory of an inventory.
LEMMA ReconcileTyped ==
  ASSUME NEW previous \in InventoryState, NEW errors,
         NEW positions \in Partial(Positions, Barcodes), OneToOne(positions)
  PROVE  Reconcile(previous, positions, errors) \in InventoryState
<1> DEFINE inv == Reconcile(previous, positions, errors)
<1>1. previous.modules \in Partial(Barcodes, ModuleRecord)
  BY DEF InventoryState, Partial
<1>2. /\ DOMAIN positions \subseteq Positions /\ positions \in [DOMAIN positions -> Barcodes]
      /\ DOMAIN previous.modules \subseteq Barcodes
  BY <1>1, PartialElim
<1>3. DOMAIN inv.modules \in SUBSET Barcodes
  BY <1>2, ReconcileKeeps DEF Values
<1>4. inv.modules \in [DOMAIN inv.modules -> ModuleRecord]
  <2>1. ASSUME NEW b \in DOMAIN inv.modules
        PROVE  inv.modules[b] \in ModuleRecord
    <3>1. CASE b \in Values(positions)
      <4>1. PICK p \in DOMAIN positions : positions[p] = b
        BY <3>1 DEF Values
      <4>2. inv.modules[b] = [position |-> p, present |-> "yes"]
        BY <4>1, CandidateRecord
      <4> QED
        BY <4>1, <4>2, <1>2 DEF ModuleRecord
    <3>2. CASE b \notin Values(positions)
      BY <2>1, <3>2 DEF Reconcile, Gone, ModuleRecord
    <3> QED
      BY <3>1, <3>2
  <2>2. inv.modules = [b \in DOMAIN inv.modules |-> inv.modules[b]]
    BY DEF Reconcile
  <2> HIDE DEF inv
  <2> QED
    BY <2>1, <2>2
<1>5. inv.modules \in Partial(Barcodes, ModuleRecord)
  BY <1>3, <1>4, PartialIntro
<1>6. inv = [positions |-> positions, modules |-> inv.modules]
  BY DEF Reconcile
<1> HIDE DEF inv
<1> QED
  BY <1>5, <1>6 DEF InventoryState, Partial, inv

LEMMA EmptyTyped == EmptyInventory \in InventoryState
<1>1. /\ EmptyInventory.positions \in [{} -> Barcodes]
      /\ EmptyInventory.modules \in [{} -> ModuleRecord]
  BY DEF EmptyInventory
<1>2. /\ EmptyInventory.positions \in Partial(Positions, Barcodes)
      /\ EmptyInventory.modules \in Partial(Barcodes, ModuleRecord)
  BY <1>1, PartialIntro
<1> QED
  BY <1>2 DEF EmptyInventory, InventoryState, Partial
=============================================================================
