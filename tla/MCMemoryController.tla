------------------------- MODULE MCMemoryController -------------------------
(***************************************************************************)
(* Instances of MemoryController.  Rows 0 and 1 are kept whole by a row    *)
(* register of modulus 2; row 2 is above it and looks like row 0 there.    *)
(***************************************************************************)
EXTENDS MemoryController, TLC

At(c, b, w) == [cell |-> <<c, b>>, row |-> w]

\* Two rows of a bank that exclude each other.
TwoRows == {At(0, 0, 0), At(0, 0, 1)}

\* The two of them, and a row that the row register cannot hold.
NearAndFar == TwoRows \cup {At(0, 0, 2)}

\* Two rows of the first channel and one of the second.
TwoChannels == TwoRows \cup {At(1, 0, 0)}

Never == {FALSE}

Symmetric == Permutations(Request)
=============================================================================
