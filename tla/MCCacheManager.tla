--------------------------- MODULE MCCacheManager ---------------------------
(***************************************************************************)
(* Instances of CacheManager: private first levels (one cache for each     *)
(* processor), a shared last level.                                        *)
(***************************************************************************)
EXTENDS CacheManager, TLC

PrivateThenShared == [l \in Level |-> IF l = 0 THEN NUMBER_OF_PROCESSORS ELSE 1]

\* Two entries in the first level, one below it.
TwoThenOne == [kl \in Kind \X Level |-> IF kl[2] = 0 THEN 2 ELSE 1]

\* Packages are interchangeable, and so are clients and lines.
Symmetric == Permutations(Request) \cup Permutations(Client) \cup Permutations(Line)
=============================================================================
