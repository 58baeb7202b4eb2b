-------------------------- MODULE MCPaxosHandlers ---------------------------
(***************************************************************************)
(* PaxosHandlers for three nodes, two of them proposing, and one slot.    *)
(* One client value suffices: with the no-op it gives two values that a   *)
(* slot may have chosen.                                                   *)
(***************************************************************************)
EXTENDS PaxosHandlers

CONSTANT V1

MCValues == {V1}

=============================================================================
