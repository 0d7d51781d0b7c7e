------------------------ MODULE DiscoveryCycles_proofs ------------------------
(***************************************************************************)
(* The inventory and the topology events, for any number of positions and  *)
(* barcodes and whatever `pwr' and `info' return in each cycle.            *)
(***************************************************************************)
EXTENDS DiscoveryCycles, Discovery_proofs, FiniteSetTheorems

ArrivalKinds == {"MODULE_DISCOVERED", "MODULE_REAPPEARED", "MODULE_MOVED"}

(***************************************************************************)
(* The inductive invariant.                                                *)
(***************************************************************************)
BarcodesOK ==
  /\ DOMAIN inventory.modules \subseteq Barcodes
  /\ Values(inventory.positions) \subseteq Barcodes

\* EventsTellPresence needs MappingAgrees: a replaced module is one that the
\* records put at that position, too.
CyclesInv ==
  /\ BarcodesOK
  /\ MappingAgrees
  /\ EventsTellPresence

(***************************************************************************)
(* The events of one cycle.                                                *)
(***************************************************************************)
\* All arrivals of a barcode are at its only position.
LEMMA ArrivalsOf ==
  ASSUME NEW previous, NEW positions, NEW errs, OneToOne(positions),
         NEW e \in TopologyEvents(previous, positions, errs),
         e.kind \in ArrivalKinds
  PROVE  \E p \in DOMAIN positions :
           /\ positions[p] = e.barcode /\ e.position = p
           /\ e \in Arrival(previous, positions[p], p)
BY DEF TopologyEvents, CandidateEvents, Arrival, Replacement, Removals, ErrorEvents,
       Event, ArrivalKinds

\* A removal is of a module that was present and is no candidate.
LEMMA RemovalsOf ==
  ASSUME NEW previous, NEW positions, NEW errs,
         NEW e \in TopologyEvents(previous, positions, errs),
         e.kind = "MODULE_REMOVED"
  PROVE  /\ e.barcode \in DOMAIN previous.modules \ Values(positions)
         /\ WasPresent(previous, e.barcode)
         /\ e = Event("MODULE_REMOVED", e.barcode, NoPosition, NoBarcode)
BY DEF TopologyEvents, CandidateEvents, Arrival, Replacement, Removals, ErrorEvents, Event

\* Only an occupant that somebody else took the position of is replaced.
LEMMA ReplacementsOf ==
  ASSUME NEW previous, NEW positions, NEW errs,
         NEW e \in TopologyEvents(previous, positions, errs),
         e.replaced # NoBarcode
  PROVE  \E p \in DOMAIN positions \cap DOMAIN previous.positions :
           previous.positions[p] = e.replaced /\ positions[p] # e.replaced
BY DEF TopologyEvents, CandidateEvents, Arrival, Replacement, Removals, ErrorEvents, Event

\* A candidate is announced unless it was where it is.
LEMMA AnnouncedOrThere ==
  ASSUME NEW previous, NEW positions, NEW errs, NEW p \in DOMAIN positions,
         ~ \E e \in TopologyEvents(previous, positions, errs) :
             e.barcode = positions[p] /\ e.kind \in ArrivalKinds
  PROVE  /\ positions[p] \in DOMAIN previous.modules
         /\ previous.modules[positions[p]].present = "yes"
         /\ previous.modules[positions[p]].position = p
<1>1. Arrival(previous, positions[p], p) \subseteq TopologyEvents(previous, positions, errs)
  BY DEF TopologyEvents, CandidateEvents
<1>2. \A e \in Arrival(previous, positions[p], p) :
        e.barcode = positions[p] /\ e.kind \in ArrivalKinds
  BY DEF Arrival, Event, ArrivalKinds
<1>3. Arrival(previous, positions[p], p) = {}
  BY <1>1, <1>2
<1> QED
  BY <1>3 DEF Arrival, WasPresent

(***************************************************************************)
(* One cycle.                                                              *)
(***************************************************************************)
\* The barcodes of a cycle are those of the replies.
LEMMA CandidatesBarcodes ==
  ASSUME NEW replies \in CycleReplies
  PROVE  Values(Candidates(replies)) \subseteq Barcodes
<1> SUFFICES ASSUME NEW p \in DOMAIN Candidates(replies)
             PROVE  Candidates(replies)[p] \in Barcodes
  BY DEF Values
<1>1. p \in DOMAIN replies /\ Candidates(replies)[p] = replies[p].barcode
      /\ Candidates(replies)[p] # NoBarcode
  BY CandidatesType
<1>2. replies[p] \in Reply
  BY <1>1, CycleRepliesAssumption DEF Replies
<1> QED
  BY <1>1, <1>2 DEF Reply

LEMMA BarcodesStep ==
  ASSUME BarcodesOK, NEW replies \in CycleReplies, Discover(replies)
  PROVE  BarcodesOK'
<1>1. inventory' = Reconcile(inventory, Candidates(replies), errors')
  BY DEF Discover
<1>2. inventory'.positions = Candidates(replies)
  BY <1>1 DEF Reconcile
<1>3. DOMAIN inventory'.modules = DOMAIN inventory.modules \cup Values(Candidates(replies))
  BY <1>1, ReconcileKeeps
<1> QED
  BY <1>2, <1>3, CandidatesBarcodes DEF BarcodesOK

LEMMA MappingStep ==
  ASSUME NEW replies \in CycleReplies, Discover(replies)
  PROVE  MappingAgrees'
<1>1. inventory' = Reconcile(inventory, Candidates(replies), errors')
  BY DEF Discover
<1>2. Agrees(inventory')
  BY <1>1, CandidatesOneToOne, ReconcileAgrees
<1> QED
  BY <1>2 DEF Agrees, MappingAgrees

\* The view follows: an arrival puts a candidate where it is; without one it
\* was there before, and neither a removal nor a replacement is about it.
LEMMA ViewStep ==
  ASSUME BarcodesOK, MappingAgrees, EventsTellPresence, BarcodesOK', MappingAgrees',
         NEW replies \in CycleReplies, Discover(replies)
  PROVE  EventsTellPresence'
<1> DEFINE positions == Candidates(replies)
<1>1. /\ inventory' = Reconcile(inventory, positions, errors')
      /\ events' = TopologyEvents(inventory, positions, errors')
      /\ view' = Followed(view, events')
  BY DEF Discover
<1>2. OneToOne(positions) /\ inventory'.positions = positions
  BY <1>1, CandidatesOneToOne DEF Reconcile
<1> SUFFICES ASSUME NEW b \in DOMAIN inventory'.modules,
                    inventory'.modules[b].present = "yes"
             PROVE  view'[b] = inventory'.modules[b].position
  BY DEF EventsTellPresence
<1> DEFINE p == inventory'.modules[b].position
           Arrives(e) == e.barcode = b /\ e.kind \in ArrivalKinds
<1>3. b \in Barcodes /\ p \in DOMAIN positions /\ positions[p] = b
  BY <1>2 DEF BarcodesOK, MappingAgrees
<1>4. view'[b] = IF \E e \in events' : Arrives(e)
                   THEN (CHOOSE e \in events' : Arrives(e)).position
                 ELSE IF \E e \in events' : \/ e.kind = "MODULE_REMOVED" /\ e.barcode = b
                                            \/ e.replaced = b
                   THEN NoPosition
                 ELSE view[b]
  BY <1>1, <1>3 DEF Followed, ArrivalKinds
<1>5. CASE \E e \in events' : Arrives(e)
  <2> DEFINE f == CHOOSE e \in events' : Arrives(e)
  <2>1. f \in events' /\ Arrives(f)
    BY <1>5
  <2>2. PICK q \in DOMAIN positions : positions[q] = f.barcode /\ f.position = q
    <3>1. \A e \in events' : e.kind \in ArrivalKinds =>
            \E q \in DOMAIN positions : positions[q] = e.barcode /\ e.position = q
      <4> SUFFICES ASSUME NEW e \in TopologyEvents(inventory, positions, errors'),
                          e.kind \in ArrivalKinds
                   PROVE  \E q \in DOMAIN positions :
                            positions[q] = e.barcode /\ e.position = q
        BY <1>1
      <4> HIDE DEF positions, p, f
      <4> QED
        BY <1>2, ArrivalsOf
    <3> HIDE DEF positions, p, f
    <3> QED
      BY <2>1, <3>1
  <2>3. q = p
    BY <2>1, <2>2, <1>2, <1>3 DEF OneToOne
  <2> QED
    BY <2>2, <2>3, <1>4, <1>5
<1>6. CASE ~ \E e \in events' : Arrives(e)
  <2>1. /\ b \in DOMAIN inventory.modules
        /\ inventory.modules[b].present = "yes"
        /\ inventory.modules[b].position = p
    <3>1. p \in DOMAIN positions /\ positions[p] = b
      BY <1>3
    <3>2. ~ \E e \in TopologyEvents(inventory, positions, errors') :
              e.barcode = positions[p] /\ e.kind \in ArrivalKinds
      BY <1>1, <1>6, <3>1
    <3> HIDE DEF p, positions
    <3>3. /\ positions[p] \in DOMAIN inventory.modules
          /\ inventory.modules[positions[p]].present = "yes"
          /\ inventory.modules[positions[p]].position = p
      BY <3>1, <3>2, AnnouncedOrThere
    <3> QED
      BY <3>1, <3>3
  <2>2. ASSUME NEW e \in events', e.kind = "MODULE_REMOVED", e.barcode = b
        PROVE  FALSE
    BY <2>2, <1>1, <1>3, RemovalsOf DEF Values
  <2>3. ASSUME NEW e \in events', e.replaced = b
        PROVE  FALSE
    <3>1. e.replaced # NoBarcode
      BY <2>3, <1>3, BarcodesAssumption
    <3>2. PICK q \in DOMAIN positions \cap DOMAIN inventory.positions :
            inventory.positions[q] = b /\ positions[q] # b
      BY <3>1, <2>3, <1>1, ReplacementsOf
    <3>3. inventory.modules[inventory.positions[q]] = [position |-> q, present |-> "yes"]
      BY <3>2 DEF MappingAgrees
    <3>4. inventory.modules[b].position = q
      BY <3>2, <3>3
    <3> QED
      BY <3>2, <3>4, <2>1, <1>3
  <2>4. view'[b] = view[b]
    BY <1>4, <1>6, <2>2, <2>3
  <2> QED
    BY <2>1, <2>4 DEF EventsTellPresence
<1> QED
  BY <1>5, <1>6

(***************************************************************************)
(* The theorems.                                                           *)
(***************************************************************************)
LEMMA InitInv == Init => CyclesInv
BY DEF Init, CyclesInv, BarcodesOK, MappingAgrees, EventsTellPresence, EmptyInventory,
       Values

LEMMA StepInv == CyclesInv /\ [Next]_vars => CyclesInv'
<1> SUFFICES ASSUME CyclesInv, [Next]_vars PROVE CyclesInv'
  OBVIOUS
<1>1. ASSUME NEW replies \in CycleReplies, Discover(replies) PROVE CyclesInv'
  BY <1>1, BarcodesStep, MappingStep, ViewStep DEF CyclesInv
<1>2. CASE UNCHANGED vars
  BY <1>2 DEF vars, CyclesInv, BarcodesOK, MappingAgrees, EventsTellPresence
<1> QED
  BY <1>1, <1>2 DEF Next

\* The inductive invariant of the cycles holds.
THEOREM CyclesInvariant == Spec => []CyclesInv
BY InitInv, StepInv, PTL DEF Spec

\* _reconcile: the two directions of the inventory always agree, and no
\* barcode is at two positions, whatever the identities said.
THEOREM InventoryAgrees == Spec => []MappingAgrees
<1>1. CyclesInv => MappingAgrees
  BY DEF CyclesInv
<1> QED
  BY CyclesInvariant, <1>1, PTL

\* _topology_events_for_candidate and the removals: who follows the events
\* alone knows where every present module is.
THEOREM EventsSuffice == Spec => []EventsTellPresence
<1>1. CyclesInv => EventsTellPresence
  BY DEF CyclesInv
<1> QED
  BY CyclesInvariant, <1>1, PTL

\* _reconcile starts from the previous records: nobody is forgotten.
THEOREM NobodyForgotten == Spec => KnownModulesStayKnown
<1>1. ASSUME [Next]_vars
      PROVE  [DOMAIN inventory.modules \subseteq DOMAIN inventory'.modules]_vars
  <2>1. ASSUME NEW replies \in CycleReplies, Discover(replies)
        PROVE  DOMAIN inventory.modules \subseteq DOMAIN inventory'.modules
    BY <2>1, ReconcileKeeps DEF Discover
  <2> QED
    BY <1>1, <2>1 DEF Next
<1> QED
  BY <1>1, PTL DEF Spec, KnownModulesStayKnown

\* What was there before and is still there is not reported, and neither is
\* once more what is still absent.
LEMMA QuietStep ==
  ASSUME MappingAgrees, NEW replies \in CycleReplies, Discover(replies),
         inventory' = inventory
  PROVE  events' = ErrorEvents(errors')
<1> DEFINE positions == Candidates(replies)
<1>1. /\ inventory.positions = positions
      /\ events' = TopologyEvents(inventory, positions, errors')
  BY DEF Discover, Reconcile
<1>2. ASSUME NEW p \in DOMAIN positions
      PROVE  /\ Arrival(inventory, positions[p], p) = {}
             /\ Replacement(inventory, positions[p], p) = {}
  <2>1. /\ positions[p] \in DOMAIN inventory.modules
        /\ inventory.modules[positions[p]] = [position |-> p, present |-> "yes"]
    BY <1>1 DEF MappingAgrees
  <2> QED
    BY <2>1, <1>1 DEF Arrival, Replacement, WasPresent
<1>3. CandidateEvents(inventory, positions) = {}
  BY <1>2 DEF CandidateEvents
<1>4. \A b \in DOMAIN inventory.modules \ Values(positions) : ~WasPresent(inventory, b)
  BY <1>1 DEF MappingAgrees, WasPresent, Values
<1>5. Removals(inventory, positions, errors') = {}
  BY <1>4 DEF Removals
<1> QED
  BY <1>1, <1>3, <1>5 DEF TopologyEvents

\* A cycle that finds what the last one found reports no topology change.
THEOREM QuietCycles == Spec => QuietWhenUnchanged
<1>1. ASSUME MappingAgrees, [Next]_vars
      PROVE  [inventory' = inventory => events' = ErrorEvents(errors')]_vars
  BY <1>1, QuietStep DEF Next
<1> QED
  BY <1>1, InventoryAgrees, PTL DEF Spec, QuietWhenUnchanged

\* What a cycle says of a barcode: one arrival or one removal.
StoryOf(b) ==
  {e \in events : e.barcode = b /\ e.kind \in
     {"MODULE_DISCOVERED", "MODULE_REAPPEARED", "MODULE_MOVED", "MODULE_REMOVED"}}

StoriesInv == \A b \in Barcodes : \A e, f \in StoryOf(b) : e = f

LEMMA StoriesStep ==
  ASSUME NEW replies \in CycleReplies, Discover(replies)
  PROVE  StoriesInv'
<1> DEFINE positions == Candidates(replies)
<1>1. events' = TopologyEvents(inventory, positions, errors') /\ OneToOne(positions)
  BY CandidatesOneToOne DEF Discover
<1> SUFFICES ASSUME NEW b \in Barcodes, NEW e \in StoryOf(b)', NEW f \in StoryOf(b)'
             PROVE  e = f
  BY DEF StoriesInv
<1>2. /\ e \in events' /\ e.barcode = b /\ e.kind \in ArrivalKinds \cup {"MODULE_REMOVED"}
      /\ f \in events' /\ f.barcode = b /\ f.kind \in ArrivalKinds \cup {"MODULE_REMOVED"}
  BY DEF StoryOf, ArrivalKinds
<1>3. CASE e.kind \in ArrivalKinds /\ f.kind \in ArrivalKinds
  <2>1. PICK p \in DOMAIN positions : positions[p] = b /\ e \in Arrival(inventory, b, p)
    BY <1>1, <1>2, <1>3, ArrivalsOf
  <2>2. PICK q \in DOMAIN positions : positions[q] = b /\ f \in Arrival(inventory, b, q)
    BY <1>1, <1>2, <1>3, ArrivalsOf
  <2>3. p = q
    BY <2>1, <2>2, <1>1 DEF OneToOne
  <2> QED
    BY <2>1, <2>2, <2>3 DEF Arrival
<1>4. CASE e.kind = "MODULE_REMOVED" /\ f.kind = "MODULE_REMOVED"
  BY <1>1, <1>2, <1>4, RemovalsOf
<1>5. ASSUME NEW g \in {e, f}, NEW h \in {e, f},
             g.kind \in ArrivalKinds, h.kind = "MODULE_REMOVED"
      PROVE  FALSE
  <2>1. \E p \in DOMAIN positions : positions[p] = b
    BY <1>1, <1>2, <1>5, ArrivalsOf
  <2>2. b \notin Values(positions)
    BY <1>1, <1>2, <1>5, RemovalsOf
  <2> QED
    BY <2>1, <2>2 DEF Values
<1> QED
  BY <1>2, <1>3, <1>4, <1>5

\* discover_modules: never two arrivals of a module in one cycle, and never
\* an arrival together with its removal.
THEOREM OneStoryEach == Spec => []OneStoryPerModule
<1>1. Init => StoriesInv
  BY DEF Init, StoriesInv, StoryOf
<1>2. StoriesInv /\ [Next]_vars => StoriesInv'
  <2>1. ASSUME StoriesInv, UNCHANGED vars PROVE StoriesInv'
    BY <2>1 DEF vars, StoriesInv, StoryOf
  <2> QED
    BY <2>1, StoriesStep DEF Next
<1>3. StoriesInv => OneStoryPerModule
  <2> SUFFICES ASSUME StoriesInv, NEW b \in Barcodes
               PROVE  Cardinality(StoryOf(b)) <= 1
    BY DEF OneStoryPerModule, StoryOf
  <2>1. CASE StoryOf(b) = {}
    BY <2>1, FS_EmptySet
  <2>2. CASE StoryOf(b) # {}
    <3>1. PICK e \in StoryOf(b) : TRUE
      BY <2>2
    <3>2. StoryOf(b) = {e}
      BY <3>1 DEF StoriesInv
    <3> QED
      BY <3>2, FS_Singleton
  <2> QED
    BY <2>1, <2>2
<1> QED
  BY <1>1, <1>2, <1>3, PTL DEF Spec
\* The types: a cycle's inventory is one, and the events place a module only
\* at a position that was asked.
LEMMA TypeStep ==
  ASSUME TypeOK, NEW replies \in CycleReplies, Discover(replies)
  PROVE  TypeOK'
<1> DEFINE positions == Candidates(replies)
<1>1. /\ inventory' = Reconcile(inventory, positions, errors')
      /\ errors' = DiscoveryErrors(replies)
      /\ events' = TopologyEvents(inventory, positions, errors')
      /\ view' = Followed(view, events')
      /\ OneToOne(positions)
  BY CandidatesOneToOne DEF Discover
<1>2. positions \in Partial(Positions, Barcodes) /\ DOMAIN errors' \subseteq Positions
  <2>1. replies \in Partial(Positions, Reply)
    BY CycleRepliesAssumption DEF Replies, Partial
  <2>2. DOMAIN replies \subseteq Positions /\ replies \in [DOMAIN replies -> Reply]
    BY <2>1, PartialElim
  <2> QED
    BY <1>1, <2>2, CandidatesTyped DEF Reply
<1> HIDE DEF positions
<1>3. inventory' \in InventoryState
  BY <1>1, <1>2, ReconcileTyped DEF TypeOK
<1>4. DOMAIN positions \subseteq Positions
  BY <1>2, PartialElim
<1>5. \A e \in events' : e.kind \in ArrivalKinds => e.position \in Positions
  <2> SUFFICES ASSUME NEW e \in TopologyEvents(inventory, positions, errors'),
                      e.kind \in ArrivalKinds
               PROVE  e.position \in Positions
    BY <1>1
  <2> QED
    BY <1>1, <1>4, ArrivalsOf
<1>6. view' \in [Barcodes -> Positions \cup {NoPosition}]
  BY <1>1, <1>5 DEF TypeOK, Followed, ArrivalKinds
<1> QED
  BY <1>2, <1>3, <1>6 DEF TypeOK

THEOREM CyclesTyped == Spec => []TypeOK
<1>1. Init => TypeOK
  BY EmptyTyped DEF Init, TypeOK
<1>2. TypeOK /\ [Next]_vars => TypeOK'
  BY TypeStep DEF Next, vars, TypeOK
<1> QED
  BY <1>1, <1>2, PTL DEF Spec
=============================================================================
