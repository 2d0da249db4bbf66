----------------------------- MODULE MCCacheLines -----------------------------
(***************************************************************************)
(* Instances of CacheLines.  The first two levels are private and have one *)
(* line, the last one is shared.                                           *)
(***************************************************************************)
EXTENDS CacheLines, TLC

CONSTANTS p1, p2

PrivateThenShared == [p \in Processor |-> (0 :> p) @@ (1 :> p) @@ (2 :> "shared")]
OneEach == [v \in 0 .. 2 |-> 1]
TwoBelow == [v \in 0 .. 2 |-> IF v = 2 THEN 2 ELSE 1]

Stores == [p \in Processor |-> [line \in Line |-> {"WRITE"}]]

\* Lines 1 and 2 are data, line 3 is code; the second processor stores only.
Mixed ==
  [p \in Processor |->
     IF p = p1 THEN <<{"READ"}, {"WRITE"}, {"INST"}>>
               ELSE <<{"WRITE"}, {"WRITE"}, {}>>]
=============================================================================
