---------------------------- MODULE MCRowTiming ----------------------------
(* An instance of RowTiming with five banks, the fewest that can break a   *)
(* window of four.                                                         *)
EXTENDS RowTiming
=============================================================================
