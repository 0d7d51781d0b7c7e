----------------------------- MODULE MCFreshness -----------------------------
(***************************************************************************)
(* The least intervals that RoomAssumption allows.                         *)
(***************************************************************************)
EXTENDS Freshness

MCInterval ==
  [l \in Loops |-> CASE l = "rack"      -> 11
                     [] l = "module"    -> 10
                     [] l = "inventory" -> 11]
=============================================================================
