------------------------------ MODULE MCPolling ------------------------------
(***************************************************************************)
(* Polling for TLC: two positions, two modules, one with as many cells as  *)
(* a row of the page has tiles and one with a cell less.                   *)
(***************************************************************************)
EXTENDS Views

CONSTANTS Small, Large   \* the modules

MCCellCount == [b \in Barcodes |-> IF b = Small THEN 14 ELSE 15]
=============================================================================
