----------------------------- MODULE MCDiscovery -----------------------------
(***************************************************************************)
(* DiscoveryCycles for TLC: at every position an absent row or any         *)
(* identity, at the first also a faulty reply of each kind, and at the     *)
(* second a failed read, which _reconcile cannot tell from the others.     *)
(***************************************************************************)
EXTENDS DiscoveryCycles

CONSTANT Witness   \* the barcode a faulty reply carries

Good(p, b) == [read |-> TRUE, position |-> p, barcode |-> b, aware |-> TRUE]

Faulty(p) ==
  {[Good(p, Witness) EXCEPT !.read = FALSE],
   [Good(p, Witness) EXCEPT !.position = p + 1],
   [Good(p, Witness) EXCEPT !.barcode = NoBarcode],
   [Good(p, Witness) EXCEPT !.aware = FALSE]}

Choices(p) ==
  {Good(p, b) : b \in Barcodes} \cup
  CASE p = 1 -> Faulty(p)
    [] p = 2 -> {[Good(p, Witness) EXCEPT !.read = FALSE]}
    [] OTHER -> {}

MCReplies ==
  LET combinations(P) == {r \in [P -> UNION {Choices(p) : p \in P}] :
                            \A p \in P : r[p] \in Choices(p)}
  IN  UNION {combinations(P) : P \in SUBSET Positions}
=============================================================================
