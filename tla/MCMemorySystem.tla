--------------------------- MODULE MCMemorySystem ---------------------------
(***************************************************************************)
(* An instance of MemorySystem: two lines of one row, and place for one    *)
(* write-back at a time beside the two packages of the manager.            *)
(***************************************************************************)
EXTENDS MemorySystem

CONSTANTS line_a, line_b

Shared == [l \in Level |-> 1]
TwoThenOne == [kl \in Kind \X Level |-> IF kl[2] = 0 THEN 2 ELSE 1]
OneRow == [l \in Line |-> [cell |-> <<0, 0>>, row |-> 0]]
=============================================================================
