------------------------------ MODULE MCParsers ------------------------------
(***************************************************************************)
(* Two modules with different numbers of cells.                            *)
(***************************************************************************)
EXTENDS Parsers

MCCellCount == [p \in Positions |-> p + 1]
=============================================================================
