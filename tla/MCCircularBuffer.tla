-------------------------- MODULE MCCircularBuffer --------------------------
(* A ring of three slots and two packages: every cursor position, the      *)
(* wrap of both cursors, the empty and the full ring occur.                *)
EXTENDS CircularBuffer
=============================================================================
