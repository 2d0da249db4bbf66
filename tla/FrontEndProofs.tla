--------------------------- MODULE FrontEndProofs ---------------------------
(***************************************************************************)
(* The stages of processor/processor.cpp ahead of rename, and the branch   *)
(* target buffer: types, the assertions of decode(), the entries of the    *)
(* target buffer and what is fetched past a branch, for any widths, any    *)
(* buffers and any trace.                                                  *)
(***************************************************************************)
EXTENDS FrontEnd, WellFoundedInduction, TLAPS

-----------------------------------------------------------------------------
(* Numbers                                                                 *)

\* A set of numbers that is not empty has a least one.
LEMMA LeastNumber ==
  ASSUME NEW S \in SUBSET Nat, S # {}
  PROVE  \E m \in S : \A k \in S : m <= k
<1> DEFINE Less == OpToRel(<, Nat)
<1>1. IsWellFoundedOn(Less, Nat)
  BY NatLessThanWellFounded
<1>2. \A x, y \in Nat : <<y, x>> \in Less <=> y < x
  BY DEF OpToRel
<1> HIDE DEF Less
<1>3. PICK m \in S : \A k \in S : <<k, m>> \notin Less
  BY <1>1, WFMin
<1>4. \A k \in S : ~ (k < m)
  BY <1>2, <1>3
<1> QED BY <1>4

\* First is the least of a set of ways.
LEMMA FirstIsLeast ==
  ASSUME NEW S \in SUBSET Way, S # {}
  PROVE  First(S) \in S
<1> DEFINE IsFirst(w) == \A x \in S : w <= x
<1>1. S \in SUBSET Nat
  BY FrontEndAssumption DEF Way
<1>2. \E w \in S : IsFirst(w)
  BY <1>1, LeastNumber
<1> QED BY <1>2 DEF First

\* An address has one set.
LEMMA IndexIsSet ==
  ASSUME NEW a \in Nat
  PROVE  Index(a) \in Set
<1>1. a \div 4 \in Nat /\ BTB_SETS \in Nat \ {0}
  BY FrontEndAssumption
<1>2. \A x \in Nat, n \in Nat \ {0} : x % n \in 0 .. n - 1
  OBVIOUS
<1> QED BY <1>1, <1>2 DEF Index, Set

-----------------------------------------------------------------------------
(* fetch()                                                                 *)

Item == [instruction : Instruction, number : 1 .. TRACE, ready : BOOLEAN]

Branch == [address : Addresses \cup {0}, number : 0 .. TRACE]

\* The instructions in the buffer are numbered without a gap, from d on and up to
\* the next one that is fetched.
Numbered(buffer, counter, d) ==
  /\ buffer \in Seq(Item) /\ Len(buffer) <= FETCH_BUFFER
  /\ counter \in 1 .. TRACE + 1 /\ counter = d + Len(buffer)
  /\ \A k \in DOMAIN buffer : buffer[k].number = d + k - 1

\* Every entry is in the set of its address, and no set holds an address twice.
EntriesOK(table) ==
  /\ table \in [Set -> [Way -> Addresses \cup {0}]]
  /\ \A s \in Set, w \in Way : table[s][w] # 0 =>
       Index(table[s][w]) = s /\ \A v \in Way : table[s][v] = table[s][w] => v = w

\* The branch that waits to be resolved is the last instruction fetched; the one that
\* stalls the processor is the last but one.
BranchesOK(f) ==
  /\ f.stall \in 0 .. BTB_MISS_PENALITY + MISSPREDICTION_PENALITY
  /\ f.previousBranch \in Branch /\ f.resolved \in Branch
  /\ f.consulted \in [index : Set, way : Way]
  /\ f.previousBranch # NoBranch =>
       f.previousBranch.address # 0 /\ f.fetchCounter = f.previousBranch.number + 1
  /\ f.resolved # NoBranch => f.btb[f.consulted.index][f.consulted.way] = f.resolved.address
  /\ f.stall > 0 => f.fetchCounter = f.resolved.number + 2

FetchState ==
  [fetchBuffer : Seq(Item), fetchCounter : Nat, stall : Nat, previousBranch : Branch,
   btb : [Set -> [Way -> Addresses \cup {0}]], consulted : [index : Set, way : Way],
   traceIsOver : BOOLEAN, resolved : Branch]

FetchInv(f, d) ==
  /\ f \in FetchState
  /\ Numbered(f.fetchBuffer, f.fetchCounter, d)
  /\ EntriesOK(f.btb)
  /\ BranchesOK(f)

LEMMA NoBranchType == NoBranch \in Branch
BY FrontEndAssumption DEF NoBranch, Branch

LEMMA AddressType == Addresses \subseteq Nat \ {0}
BY FrontEndAssumption DEF Addresses, opcode_t

\* The entry of a branch that is installed: no other one has its address.
LEMMA InstalledEntry ==
  ASSUME NEW table, EntriesOK(table), NEW a \in Addresses, NEW w \in Way,
         \/ {v \in Way : table[Index(a)][v] = a} = {}
         \/ w \in {v \in Way : table[Index(a)][v] = a}
  PROVE  /\ EntriesOK([table EXCEPT ![Index(a)][w] = a])
         /\ [table EXCEPT ![Index(a)][w] = a][Index(a)][w] = a
<1> DEFINE s == Index(a)
           new == [table EXCEPT ![s][w] = a]
<1>1. s \in Set /\ a # 0
  BY AddressType, IndexIsSet
<1>2. table \in [Set -> [Way -> Addresses \cup {0}]]
  BY DEF EntriesOK
<1>3. /\ new \in [Set -> [Way -> Addresses \cup {0}]]
      /\ \A t \in Set, v \in Way : new[t][v] = IF t = s /\ v = w THEN a ELSE table[t][v]
  BY <1>1, <1>2
<1>4. \A v \in Way : table[s][v] = a => v = w
  BY <1>1, <1>2 DEF EntriesOK
<1> HIDE DEF new
<1>5. ASSUME NEW t \in Set, NEW v \in Way, new[t][v] # 0
      PROVE  Index(new[t][v]) = t /\ \A x \in Way : new[t][x] = new[t][v] => x = v
  <2>1. CASE t # s
    BY <1>3, <1>5, <2>1 DEF EntriesOK
  <2>2. CASE t = s /\ v = w
    BY <1>3, <1>4, <2>2
  <2>3. CASE t = s /\ v # w
    <3>1. new[t][v] = table[t][v] /\ table[t][v] # a
      BY <1>3, <1>4, <1>5, <2>3
    <3>2. Index(table[t][v]) = t /\ \A x \in Way : table[t][x] = table[t][v] => x = v
      BY <1>5, <3>1 DEF EntriesOK
    <3> QED BY <1>3, <2>3, <3>1, <3>2
  <2> QED BY <2>1, <2>2, <2>3
<1> QED BY <1>1, <1>3, <1>5 DEF EntriesOK, new

\* Resolving the branch that waits leaves it with an entry of its own, and stalls the
\* processor behind the instruction that is fetched next.
LEMMA Solving ==
  ASSUME NEW d \in Nat, NEW f, FetchInv(f, d), f.stall = 0, NEW g \in Unsolved(f)
  PROVE  /\ g \in FetchState /\ EntriesOK(g.btb)
         /\ g.fetchBuffer = f.fetchBuffer /\ g.fetchCounter = f.fetchCounter
         /\ g.traceIsOver = f.traceIsOver
         /\ g.previousBranch = NoBranch
         /\ g.stall \in 0 .. BTB_MISS_PENALITY + MISSPREDICTION_PENALITY
         /\ g.resolved # NoBranch => g.btb[g.consulted.index][g.consulted.way] = g.resolved.address
         /\ g.stall > 0 => g.fetchCounter = g.resolved.number + 1
<1>0. /\ f \in FetchState /\ EntriesOK(f.btb) /\ BranchesOK(f)
      /\ BTB_MISS_PENALITY \in Nat /\ MISSPREDICTION_PENALITY \in Nat
  BY FrontEndAssumption DEF FetchInv
<1>1. CASE f.previousBranch = NoBranch
  BY <1>0, <1>1 DEF Unsolved, BranchesOK
<1>2. CASE f.previousBranch # NoBranch
  <2> DEFINE a == f.previousBranch.address
             hits == Hits(f, a)
             missed == IF hits = {} THEN BTB_MISS_PENALITY ELSE 0
  <2>1. PICK w \in (IF hits # {} THEN {First(hits)} ELSE Installed(f, a)),
             wrong \in {0, MISSPREDICTION_PENALITY} :
          g = [At(f, a, w) EXCEPT !.stall = missed + wrong, !.resolved = f.previousBranch,
                                  !.previousBranch = NoBranch]
    <3> DEFINE Result(w, wrong) == [At(f, a, w) EXCEPT !.stall = missed + wrong,
                                      !.resolved = f.previousBranch, !.previousBranch = NoBranch]
               W == IF hits # {} THEN {First(hits)} ELSE Installed(f, a)
    <3>1. solveBranch(f) = {Result(w, wrong) : w \in W, wrong \in {0, MISSPREDICTION_PENALITY}}
      BY DEF solveBranch
    <3>2. g \in solveBranch(f)
      BY <1>2 DEF Unsolved
    <3> HIDE DEF Result, W
    <3>3. \E w \in W, wrong \in {0, MISSPREDICTION_PENALITY} : g = Result(w, wrong)
      BY <3>1, <3>2
    <3> QED BY <3>3 DEF Result, W
  <2>2. a \in Addresses /\ Index(a) \in Set
    <3>1. a \in Addresses
      BY <1>0, <1>2 DEF BranchesOK, Branch
    <3> QED BY <3>1, AddressType, IndexIsSet
  <2>3. w \in Way /\ (hits # {} => w \in hits)
    <3>1. hits \in SUBSET Way
      BY DEF Hits
    <3>2. CASE hits # {}
      BY <2>1, <3>1, <3>2, FirstIsLeast
    <3>3. CASE hits = {}
      <4> DEFINE invalid == {v \in Way : f.btb[Index(a)][v] = 0}
      <4>1. invalid # {} => First(invalid) \in Way
        BY FirstIsLeast
      <4>2. w \in Installed(f, a)
        BY <2>1, <3>3
      <4>3. Installed(f, a) \subseteq Way
        <5> HIDE DEF hits, a
        <5> QED BY <4>1 DEF Installed, a
      <4> QED BY <3>3, <4>2, <4>3
    <3> QED BY <3>2, <3>3
  <2> DEFINE table == [f.btb EXCEPT ![Index(a)][w] = a]
  <2>4. EntriesOK(table) /\ table[Index(a)][w] = a
    BY <1>0, <2>2, <2>3, InstalledEntry DEF Hits
  <2>5. missed + wrong \in 0 .. BTB_MISS_PENALITY + MISSPREDICTION_PENALITY
    BY <1>0
  <2>6. /\ g = [f EXCEPT !.consulted = [index |-> Index(a), way |-> w], !.btb = table,
                         !.stall = missed + wrong, !.resolved = f.previousBranch,
                         !.previousBranch = NoBranch]
    BY <1>0, <2>1 DEF At, FetchState
  <2>7. f.fetchCounter = f.previousBranch.number + 1
    BY <1>0, <1>2 DEF BranchesOK
  <2> DEFINE lost == missed + wrong
             used == [index |-> Index(a), way |-> w]
  <2>11. g = [f EXCEPT !.consulted = used, !.btb = table, !.stall = lost,
                       !.resolved = f.previousBranch, !.previousBranch = NoBranch]
    BY <2>6
  <2>12. /\ used \in [index : Set, way : Way] /\ used.index = Index(a) /\ used.way = w
         /\ table \in [Set -> [Way -> Addresses \cup {0}]] /\ lost \in Nat
    BY <1>0, <2>2, <2>3, <2>4, <2>5 DEF EntriesOK
  <2> HIDE DEF table, lost, used, a
  <2>8. /\ g.consulted = used /\ g.btb = table
        /\ g.stall = lost /\ g.resolved = f.previousBranch
        /\ g.previousBranch = NoBranch /\ g.fetchBuffer = f.fetchBuffer
        /\ g.fetchCounter = f.fetchCounter /\ g.traceIsOver = f.traceIsOver
    BY <1>0, <2>11 DEF FetchState
  <2>9. g \in FetchState
    BY <1>0, <2>11, <2>12, NoBranchType DEF FetchState
  <2>10. g.btb[g.consulted.index][g.consulted.way] = g.resolved.address
    BY <2>4, <2>8, <2>12 DEF a
  <2>13. lost \in 0 .. BTB_MISS_PENALITY + MISSPREDICTION_PENALITY
    BY <2>5 DEF lost
  <2> QED BY <2>4, <2>7, <2>8, <2>9, <2>10, <2>13
<1> QED BY <1>1, <1>2

\* The instruction that enters the buffer is numbered after the last one.
LEMMA Entering ==
  ASSUME NEW d \in Nat, NEW f, FetchInv(f, d), f.stall = 0,
         Len(f.fetchBuffer) # FETCH_BUFFER, f.fetchCounter <= TRACE,
         NEW g \in Unsolved(f), NEW i \in Instruction
  PROVE  FetchInv(Entered(g, i), d)
<1> DEFINE n == f.fetchCounter
           item == [instruction |-> i, number |-> n, ready |-> FALSE]
           buffer == Append(f.fetchBuffer, item)
           previous == IF i.op = "BRANCH" THEN [address |-> i.address, number |-> n] ELSE NoBranch
           e == Entered(g, i)
<1>1. /\ g \in FetchState /\ EntriesOK(g.btb)
      /\ g.fetchBuffer = f.fetchBuffer /\ g.fetchCounter = n
      /\ g.traceIsOver = f.traceIsOver
      /\ g.previousBranch = NoBranch
      /\ g.stall \in 0 .. BTB_MISS_PENALITY + MISSPREDICTION_PENALITY
      /\ g.resolved # NoBranch => g.btb[g.consulted.index][g.consulted.way] = g.resolved.address
      /\ g.stall > 0 => n = g.resolved.number + 1
  BY Solving
<1>2. Numbered(f.fetchBuffer, n, d) /\ FETCH_BUFFER \in Nat /\ TRACE \in Nat
  BY FrontEndAssumption DEF FetchInv
<1>3. n \in 1 .. TRACE /\ item \in Item /\ item.number = n
  BY <1>2 DEF Numbered, Item
<1>4. i.address \in Addresses /\ i.address # 0
  BY AddressType DEF Addresses
<1>5. previous \in Branch /\ (previous # NoBranch => previous.address # 0 /\ n = previous.number)
  BY <1>3, <1>4, NoBranchType DEF Branch
<1>6. e = [g EXCEPT !.fetchBuffer = buffer, !.fetchCounter = n + 1, !.previousBranch = previous]
  BY <1>1 DEF Entered
<1>7. Numbered(buffer, n + 1, d)
  <2> HIDE DEF item
  <2>1. f.fetchBuffer \in Seq(Item) /\ Len(f.fetchBuffer) \in Nat
    BY <1>2 DEF Numbered
  <2>2. /\ buffer \in Seq(Item) /\ Len(buffer) = Len(f.fetchBuffer) + 1
        /\ \A k \in 1 .. Len(f.fetchBuffer) : buffer[k] = f.fetchBuffer[k]
        /\ buffer[Len(f.fetchBuffer) + 1] = item
    BY <1>3, <2>1
  <2> HIDE DEF buffer
  <2>3. Len(f.fetchBuffer) + 1 <= FETCH_BUFFER /\ n = d + Len(f.fetchBuffer)
    BY <1>2, <2>1 DEF Numbered
  <2>4. \A k \in DOMAIN buffer : buffer[k].number = d + k - 1
    <3> TAKE k \in DOMAIN buffer
    <3>1. k \in 1 .. Len(f.fetchBuffer) + 1
      BY <2>2
    <3>2. CASE k = Len(f.fetchBuffer) + 1
      BY <1>3, <2>1, <2>2, <2>3, <3>2
    <3>3. CASE k \in 1 .. Len(f.fetchBuffer)
      <4>1. k \in DOMAIN f.fetchBuffer
        BY <2>1, <3>3
      <4> QED BY <1>2, <2>2, <3>3, <4>1 DEF Numbered
    <3> QED BY <2>1, <3>1, <3>2, <3>3
  <2>5. n + 1 \in 1 .. TRACE + 1 /\ n + 1 = d + Len(buffer) /\ Len(buffer) <= FETCH_BUFFER
    BY <1>2, <1>3, <2>1, <2>2, <2>3
  <2> QED BY <2>2, <2>4, <2>5 DEF Numbered
<1> HIDE DEF item, buffer, previous, e
<1>8. buffer \in Seq(Item) /\ n + 1 \in Nat
  BY <1>3, <1>7 DEF Numbered
<1>9. /\ e \in FetchState
      /\ e.fetchBuffer = buffer /\ e.fetchCounter = n + 1 /\ e.previousBranch = previous
      /\ e.btb = g.btb /\ e.consulted = g.consulted /\ e.resolved = g.resolved
      /\ e.stall = g.stall
  BY <1>1, <1>5, <1>6, <1>8 DEF FetchState
<1>10. BranchesOK(e)
  <2>1. g.resolved \in Branch /\ g.consulted \in [index : Set, way : Way]
    BY <1>1 DEF FetchState
  <2>2. e.stall > 0 => e.fetchCounter = e.resolved.number + 2
    <3>1. g.resolved.number \in Nat
      BY <1>2, <2>1 DEF Branch
    <3> QED BY <1>1, <1>3, <1>9, <3>1
  <2> QED BY <1>1, <1>5, <1>9, <2>1, <2>2 DEF BranchesOK
<1> QED BY <1>1, <1>7, <1>9, <1>10 DEF FetchInv, e

\* One slot of the cycle keeps the state of fetch() well formed.
LEMMA SlotKeeps ==
  ASSUME NEW d \in Nat, NEW f, FetchInv(f, d), NEW g \in Slot(f)
  PROVE  FetchInv(g, d)
<1>1. CASE g = f
  BY <1>1
<1>2. CASE g = [f EXCEPT !.traceIsOver = TRUE]
  <2>1. f \in FetchState
    BY DEF FetchInv
  <2>2. /\ g \in FetchState /\ g.fetchBuffer = f.fetchBuffer /\ g.fetchCounter = f.fetchCounter
        /\ g.btb = f.btb /\ g.stall = f.stall /\ g.previousBranch = f.previousBranch
        /\ g.consulted = f.consulted /\ g.resolved = f.resolved
    BY <1>2, <2>1 DEF FetchState
  <2> QED BY <2>2 DEF FetchInv, BranchesOK
<1>3. CASE /\ ~Stalled(f) /\ ~(f.fetchCounter > TRACE)
           /\ \E h \in Unsolved(f), i \in Instruction : g = Entered(h, i)
  <2>1. PICK h \in Unsolved(f), i \in Instruction : g = Entered(h, i)
    BY <1>3
  <2>2. f.stall = 0 /\ Len(f.fetchBuffer) # FETCH_BUFFER /\ f.fetchCounter <= TRACE
    BY <1>3, FrontEndAssumption DEF FetchInv, FetchState, Stalled
  <2> QED BY <2>1, <2>2, Entering
<1>4. Slot(f) = {f} \/ Slot(f) = {[f EXCEPT !.traceIsOver = TRUE]}
      \/ (/\ ~Stalled(f) /\ ~(f.fetchCounter > TRACE)
          /\ \E h \in Unsolved(f), i \in Instruction : g = Entered(h, i))
  <2>1. ~(Cardinality(Outstanding(f.fetchBuffer)) >= INSTRUCTION_MSHR \/ Stalled(f))
        /\ ~(f.fetchCounter > TRACE)
        => Slot(f) = {Entered(h, i) : h \in Unsolved(f), i \in Instruction}
    BY DEF Slot
  <2> QED BY <2>1 DEF Slot
<1> QED BY <1>1, <1>2, <1>3, <1>4

\* What the slots of a cycle make of the states S.
Slots(S) == UNION {Slot(g) : g \in S}

\* a[n] holds the states after n slots of the cycle that starts in f.
IsFetchChain(a, f, width) == a = [n \in 0 .. width |-> IF n = 0 THEN {f} ELSE Slots(a[n - 1])]

\* The chain of states is defined for every width.
LEMMA FetchChainExists ==
  ASSUME NEW f, NEW width \in Nat
  PROVE  \E a : IsFetchChain(a, f, width)
<1> DEFINE Missing == {n \in Nat : ~ \E a : IsFetchChain(a, f, n)}
<1>1. SUFFICES ASSUME Missing # {} PROVE FALSE
  BY <1>1
<1>2. PICK m \in Missing : \A k \in Missing : m <= k
  BY <1>1, LeastNumber
<1>3. CASE m = 0
  <2> DEFINE b == [n \in 0 .. 0 |-> {f}]
  <2>1. IsFetchChain(b, f, 0)
    BY DEF IsFetchChain
  <2> QED BY <1>3, <2>1
<1>4. CASE m # 0
  <2>1. m - 1 \in Nat /\ m - 1 \notin Missing
    BY <1>2, <1>4
  <2>2. PICK a : IsFetchChain(a, f, m - 1)
    BY <2>1
  <2> DEFINE b == [n \in 0 .. m |-> IF n = m THEN Slots(a[m - 1]) ELSE a[n]]
  <2>3. \A n \in 0 .. m - 1 : a[n] = IF n = 0 THEN {f} ELSE Slots(a[n - 1])
    BY <2>2 DEF IsFetchChain
  <2>4. \A n \in 0 .. m : b[n] = IF n = 0 THEN {f} ELSE Slots(b[n - 1])
    <3> TAKE n \in 0 .. m
    <3>1. CASE n = m
      <4>1. m - 1 \in 0 .. m /\ m - 1 # m
        BY <2>1
      <4>2. b[m - 1] = a[m - 1] /\ b[m] = Slots(a[m - 1])
        BY <4>1
      <4> HIDE DEF b
      <4> QED BY <1>4, <3>1, <4>2
    <3>2. CASE n # m
      <4>1. n \in 0 .. m - 1 /\ (n # 0 => n - 1 \in 0 .. m /\ n - 1 # m)
        BY <2>1, <3>2
      <4>2. b[n] = a[n] /\ (n # 0 => b[n - 1] = a[n - 1])
        BY <4>1, <3>2
      <4> HIDE DEF b
      <4> QED BY <2>3, <4>1, <4>2
    <3> QED BY <3>1, <3>2
  <2>5. b = [n \in 0 .. m |-> b[n]]
    OBVIOUS
  <2> HIDE DEF b
  <2>6. IsFetchChain(b, f, m)
    BY <2>4, <2>5 DEF IsFetchChain
  <2> QED BY <2>6
<1> QED BY <1>3, <1>4

\* The states fetch() may leave are the last ones of a chain.
LEMMA FetchedIsChain ==
  ASSUME NEW f, ~f.traceIsOver, NEW g \in Fetched(f)
  PROVE  \E a : IsFetchChain(a, f, FETCH_WIDTH) /\ g \in a[FETCH_WIDTH]
<1> DEFINE after == CHOOSE a : IsFetchChain(a, f, FETCH_WIDTH)
<1>1. IsFetchChain(after, f, FETCH_WIDTH)
  <2>1. FETCH_WIDTH \in Nat
    BY FrontEndAssumption
  <2>2. \E a : IsFetchChain(a, f, FETCH_WIDTH)
    BY <2>1, FetchChainExists
  <2> QED BY <2>2, Zenon
<1>2. Fetched(f) = after[FETCH_WIDTH]
  BY DEF Fetched, IsFetchChain, Slots
<1> QED BY <1>1, <1>2

\* fetch() keeps its state well formed.
LEMMA FetchedKeeps ==
  ASSUME NEW d \in Nat, NEW f, FetchInv(f, d), NEW g \in Fetched(f)
  PROVE  FetchInv(g, d)
<1>1. CASE f.traceIsOver
  BY <1>1 DEF Fetched
<1>2. CASE ~f.traceIsOver
  <2>1. PICK a : IsFetchChain(a, f, FETCH_WIDTH) /\ g \in a[FETCH_WIDTH]
    BY <1>2, FetchedIsChain
  <2>2. FETCH_WIDTH \in Nat
    BY FrontEndAssumption
  <2>3. \A n \in 0 .. FETCH_WIDTH : a[n] = IF n = 0 THEN {f} ELSE Slots(a[n - 1])
    BY <2>1 DEF IsFetchChain
  <2> DEFINE Wrong == {n \in 0 .. FETCH_WIDTH : ~ \A h \in a[n] : FetchInv(h, d)}
  <2>4. Wrong = {}
    <3> SUFFICES ASSUME Wrong # {} PROVE FALSE
      OBVIOUS
    <3>1. Wrong \in SUBSET Nat
      BY <2>2
    <3>2. PICK m \in Wrong : \A k \in Wrong : m <= k
      BY <3>1, LeastNumber
    <3>3. m # 0
      <4>1. 0 \in 0 .. FETCH_WIDTH /\ a[0] = {f}
        BY <2>2, <2>3
      <4> QED BY <4>1
    <3>4. m - 1 \in 0 .. FETCH_WIDTH /\ m - 1 \notin Wrong
      BY <2>2, <3>2, <3>3
    <3>5. \A h \in a[m] : FetchInv(h, d)
      <4> TAKE h \in a[m]
      <4>1. a[m] = Slots(a[m - 1])
        BY <2>3, <3>3
      <4>2. PICK e \in a[m - 1] : h \in Slot(e)
        BY <4>1 DEF Slots
      <4>3. FetchInv(e, d)
        BY <3>4
      <4> QED BY <4>2, <4>3, SlotKeeps
    <3> QED BY <3>5
  <2>5. FETCH_WIDTH \in 0 .. FETCH_WIDTH
    BY <2>2
  <2> QED BY <2>1, <2>4, <2>5
<1> QED BY <1>1, <1>2

-----------------------------------------------------------------------------
(* decode()                                                                *)

Kind == {"LOAD", "ALU", "BRANCH", "STORE", "NEAR_DATA"}

UopItem == [kind : Kind, opcode_number : 1 .. TRACE]

\* The concatenation of two sequences, and its length.
LEMMA Concatenation ==
  ASSUME NEW S, NEW s \in Seq(S), NEW t \in Seq(S)
  PROVE  s \o t \in Seq(S) /\ Len(s \o t) = Len(s) + Len(t)
OBVIOUS

LEMMA TimesType ==
  ASSUME NEW n \in Nat, NEW kind \in Kind
  PROVE  Times(n, kind) \in Seq(Kind) /\ Len(Times(n, kind)) = n
<1>1. \A k \in Nat : \A f \in [1 .. k -> Kind] : f \in Seq(Kind) /\ Len(f) = k
  OBVIOUS
<1>2. Times(n, kind) \in [1 .. n -> Kind]
  BY DEF Times
<1> QED BY <1>1, <1>2

\* The count by which decode() reserves room is the number of uops it makes.
LEMMA UopsCount ==
  ASSUME NEW i \in Instruction
  PROVE  Uops(i) \in Seq(Kind) /\ Len(Uops(i)) = num_uops(i)
<1>1. /\ i.op \in {"BRANCH", "LOAD", "STORE", "NEAR_DATA", "OTHER"}
      /\ i.num_reads \in Nat /\ i.num_writes \in Nat /\ i.uops \in Nat
  BY FrontEndAssumption DEF opcode_t
<1> DEFINE loads == Times(IF i.num_reads <= 2 THEN i.num_reads ELSE 1, "LOAD")
           middle == CASE i.op = "OTHER" -> Times(i.uops, "ALU")
                       [] i.op = "BRANCH" -> <<"BRANCH">>
                       [] OTHER -> <<>>
           stores == Times(IF i.num_writes > 0 THEN 1 ELSE 0, "STORE")
<1>2. CASE i.op = "NEAR_DATA"
  BY <1>2 DEF Uops, num_uops, Kind
<1>3. CASE i.op # "NEAR_DATA"
  <2>1. /\ loads \in Seq(Kind)
        /\ Len(loads) = IF i.num_reads <= 2 THEN i.num_reads ELSE 1
    <3> DEFINE n == IF i.num_reads <= 2 THEN i.num_reads ELSE 1
    <3>1. n \in Nat /\ "LOAD" \in Kind
      BY <1>1 DEF Kind
    <3> HIDE DEF n
    <3>2. Times(n, "LOAD") \in Seq(Kind) /\ Len(Times(n, "LOAD")) = n
      BY <3>1, TimesType
    <3> QED BY <3>2 DEF n
  <2>2. /\ stores \in Seq(Kind)
        /\ Len(stores) = IF i.num_writes <= 1 THEN i.num_writes ELSE 1
    <3> DEFINE n == IF i.num_writes > 0 THEN 1 ELSE 0
    <3>1. /\ n \in Nat /\ n = IF i.num_writes <= 1 THEN i.num_writes ELSE 1
          /\ "STORE" \in Kind
      BY <1>1 DEF Kind
    <3> HIDE DEF n
    <3>2. Times(n, "STORE") \in Seq(Kind) /\ Len(Times(n, "STORE")) = n
      BY <3>1, TimesType
    <3>3. stores = Times(n, "STORE")
      BY DEF n
    <3> QED BY <3>1, <3>2, <3>3
  <2>3. /\ middle \in Seq(Kind)
        /\ Len(middle) = (IF i.op = "BRANCH" THEN 1 ELSE 0) + (IF i.op = "OTHER" THEN i.uops ELSE 0)
    <3>1. CASE i.op = "OTHER"
      BY <1>1, <3>1, TimesType DEF Kind
    <3>2. CASE i.op = "BRANCH"
      BY <3>2 DEF Kind
    <3>3. CASE i.op \notin {"OTHER", "BRANCH"}
      BY <3>3
    <3> QED BY <3>1, <3>2, <3>3
  <2>4. Uops(i) = loads \o middle \o stores
    BY <1>3 DEF Uops
  <2> HIDE DEF loads, middle, stores
  <2>5. /\ loads \o middle \in Seq(Kind)
        /\ Len(loads \o middle) = Len(loads) + Len(middle)
    BY <2>1, <2>3, Concatenation
  <2>6. Uops(i) \in Seq(Kind) /\ Len(Uops(i)) = Len(loads) + Len(middle) + Len(stores)
    <3> DEFINE first == loads \o middle
    <3>1. first \in Seq(Kind) /\ Len(first) = Len(loads) + Len(middle) /\ Uops(i) = first \o stores
      BY <2>4, <2>5
    <3> HIDE DEF first
    <3>2. first \o stores \in Seq(Kind) /\ Len(first \o stores) = Len(first) + Len(stores)
      BY <2>2, <3>1, Concatenation
    <3> QED BY <3>1, <3>2
  <2>7. num_uops(i) = (IF i.num_reads <= 2 THEN i.num_reads ELSE 1)
                      + (IF i.num_writes <= 1 THEN i.num_writes ELSE 1)
                      + (IF i.op = "BRANCH" THEN 1 ELSE 0) + (IF i.op = "OTHER" THEN i.uops ELSE 0)
    BY <1>3 DEF num_uops
  <2>8. Len(Uops(i)) = num_uops(i)
    <3> DEFINE l == IF i.num_reads <= 2 THEN i.num_reads ELSE 1
               s == IF i.num_writes <= 1 THEN i.num_writes ELSE 1
               b == IF i.op = "BRANCH" THEN 1 ELSE 0
               u == IF i.op = "OTHER" THEN i.uops ELSE 0
    <3>1. l \in Nat /\ s \in Nat /\ b \in Nat /\ u \in Nat
      BY <1>1
    <3>2. /\ Len(Uops(i)) = Len(loads) + Len(middle) + Len(stores)
          /\ Len(loads) = l /\ Len(middle) = b + u /\ Len(stores) = s
          /\ num_uops(i) = l + s + b + u
      BY <2>1, <2>2, <2>3, <2>6, <2>7
    <3> HIDE DEF l, s, b, u
    <3> QED BY <3>1, <3>2
  <2> QED BY <2>6, <2>8
<1> QED BY <1>2, <1>3

DecodeState ==
  [fetchBuffer : Seq(Item), decodeBuffer : Seq(UopItem), decodeCounter : Nat, ended : BOOLEAN]

\* decode() takes the instructions in the order of their numbers, and never
\* overfills its buffer.
DecodeInv(d, counter) ==
  /\ d \in DecodeState
  /\ Numbered(d.fetchBuffer, counter, d.decodeCounter)
  /\ d.decodeCounter \in Nat \ {0}
  /\ Len(d.decodeBuffer) <= DECODE_BUFFER

\* The instructions behind the first one are numbered from the next number on.
LEMMA NumberedTail ==
  ASSUME NEW c \in Nat, NEW buffer, NEW counter, Numbered(buffer, counter, c), buffer # <<>>
  PROVE  Numbered(Tail(buffer), counter, c + 1)
<1> DEFINE rest == Tail(buffer)
<1>1. /\ buffer \in Seq(Item) /\ Len(buffer) \in Nat \ {0} /\ Len(buffer) <= FETCH_BUFFER
      /\ counter \in 1 .. TRACE + 1 /\ counter = c + Len(buffer)
      /\ \A k \in DOMAIN buffer : buffer[k].number = c + k - 1
  BY DEF Numbered
<1>2. rest \in Seq(Item) /\ Len(rest) = Len(buffer) - 1
  BY <1>1
<1>3. \A k \in 1 .. Len(rest) : rest[k] = buffer[k + 1] /\ k + 1 \in DOMAIN buffer
  BY <1>1, <1>2
<1>4. DOMAIN rest = 1 .. Len(rest)
  BY <1>2
<1> HIDE DEF rest
<1>5. \A k \in DOMAIN rest : rest[k].number = c + 1 + k - 1
  <2> TAKE k \in DOMAIN rest
  <2>1. k \in 1 .. Len(rest) /\ k \in Nat
    BY <1>4
  <2>2. rest[k] = buffer[k + 1] /\ k + 1 \in DOMAIN buffer
    BY <1>3, <2>1
  <2>3. buffer[k + 1].number = c + (k + 1) - 1
    BY <1>1, <2>2
  <2> QED BY <2>1, <2>2, <2>3
<1>6. Len(rest) <= FETCH_BUFFER /\ counter = c + 1 + Len(rest)
  BY <1>1, <1>2, FrontEndAssumption
<1> QED BY <1>1, <1>2, <1>5, <1>6 DEF Numbered, rest

\* One slot of the cycle keeps the state of decode() well formed.
LEMMA DecodeKeeps ==
  ASSUME NEW counter, NEW d, DecodeInv(d, counter)
  PROVE  DecodeInv(Decode(d), counter)
<1>1. CASE d.ended \/ d.fetchBuffer = <<>> \/ ~Head(d.fetchBuffer).ready \/ ~Room(d)
  BY <1>1 DEF Decode
<1>2. CASE ~(d.ended \/ d.fetchBuffer = <<>> \/ ~Head(d.fetchBuffer).ready \/ ~Room(d))
  <2> DEFINE head == Head(d.fetchBuffer)
             uops == Uops(head.instruction)
             made == [k \in DOMAIN uops |-> [kind |-> uops[k], opcode_number |-> head.number]]
             rest == Tail(d.fetchBuffer)
             all == d.decodeBuffer \o made
             last == head.instruction.op = "NEAR_DATA"
             next == d.decodeCounter + 1
  <2>1. /\ d \in DecodeState /\ Numbered(d.fetchBuffer, counter, d.decodeCounter)
        /\ d.decodeCounter \in Nat \ {0} /\ d.fetchBuffer # <<>> /\ Room(d)
    BY <1>2 DEF DecodeInv
  <2>2. head \in Item
    BY <2>1 DEF DecodeState
  <2>3. uops \in Seq(Kind) /\ Len(uops) = num_uops(head.instruction)
    BY <2>2, UopsCount DEF Item
  <2>4. made \in Seq(UopItem) /\ Len(made) = num_uops(head.instruction)
    <3>1. \A n \in Nat : \A f \in [1 .. n -> UopItem] : f \in Seq(UopItem) /\ Len(f) = n
      OBVIOUS
    <3>2. DOMAIN uops = 1 .. Len(uops) /\ Len(uops) \in Nat
      BY <2>3
    <3>3. made \in [1 .. Len(uops) -> UopItem]
      <4> HIDE DEF uops, head
      <4> QED BY <2>2, <2>3, <3>2 DEF UopItem, Item
    <3> QED BY <2>3, <3>1, <3>2, <3>3
  <2> HIDE DEF made, uops
  <2>5. all \in Seq(UopItem) /\ Len(all) = Len(d.decodeBuffer) + Len(made)
    BY <2>1, <2>4 DEF DecodeState
  <2>6. Len(all) <= DECODE_BUFFER
    <3>1. Len(d.decodeBuffer) \in Nat /\ Len(made) \in Nat
      BY <2>1, <2>4 DEF DecodeState
    <3>2. DECODE_BUFFER - Len(d.decodeBuffer) >= Len(made) /\ DECODE_BUFFER \in Nat
      BY <2>1, <2>4, FrontEndAssumption DEF Room
    <3> QED BY <2>5, <3>1, <3>2
  <2>7. Numbered(rest, counter, d.decodeCounter + 1)
    BY <2>1, NumberedTail
  <2>8. Decode(d) = [d EXCEPT !.fetchBuffer = rest, !.decodeCounter = next,
                              !.ended = last, !.decodeBuffer = all]
    BY <1>2 DEF Decode, made, uops
  <2>9. last \in BOOLEAN /\ rest \in Seq(Item) /\ next \in Nat \ {0}
    BY <2>1, <2>7 DEF Numbered
  <2> HIDE DEF rest, all, last, next
  <2>10. /\ Decode(d) \in DecodeState
         /\ Decode(d).fetchBuffer = rest /\ Decode(d).decodeBuffer = all
         /\ Decode(d).decodeCounter = next
    BY <2>1, <2>5, <2>8, <2>9 DEF DecodeState
  <2> QED BY <2>6, <2>7, <2>9, <2>10 DEF DecodeInv, next
<1> QED BY <1>1, <1>2

\* What a slot of the cycle makes of the states S of decode().
Steps(S) == {Decode(d) : d \in S}

\* The state decode() starts from, and the states after n slots of its cycle.
Undecoded == [fetchBuffer |-> fetchBuffer, decodeBuffer |-> decodeBuffer,
              decodeCounter |-> decodeCounter, ended |-> FALSE]

IsDecodeChain(a, width) ==
  a = [n \in 0 .. width |-> IF n = 0 THEN {Undecoded} ELSE Steps(a[n - 1])]

LEMMA DecodeChainExists ==
  ASSUME NEW width \in Nat
  PROVE  \E a : IsDecodeChain(a, width)
<1> DEFINE Missing == {n \in Nat : ~ \E a : IsDecodeChain(a, n)}
<1>1. SUFFICES ASSUME Missing # {} PROVE FALSE
  BY <1>1
<1>2. PICK m \in Missing : \A k \in Missing : m <= k
  BY <1>1, LeastNumber
<1>3. CASE m = 0
  <2> DEFINE b == [n \in 0 .. 0 |-> {Undecoded}]
  <2>1. IsDecodeChain(b, 0)
    BY DEF IsDecodeChain
  <2> QED BY <1>3, <2>1
<1>4. CASE m # 0
  <2>1. m - 1 \in Nat /\ m - 1 \notin Missing
    BY <1>2, <1>4
  <2>2. PICK a : IsDecodeChain(a, m - 1)
    BY <2>1
  <2> DEFINE b == [n \in 0 .. m |-> IF n = m THEN Steps(a[m - 1]) ELSE a[n]]
  <2>3. \A n \in 0 .. m - 1 : a[n] = IF n = 0 THEN {Undecoded} ELSE Steps(a[n - 1])
    BY <2>2 DEF IsDecodeChain
  <2>4. \A n \in 0 .. m : b[n] = IF n = 0 THEN {Undecoded} ELSE Steps(b[n - 1])
    <3> TAKE n \in 0 .. m
    <3>1. CASE n = m
      <4>1. m - 1 \in 0 .. m /\ m - 1 # m
        BY <2>1
      <4>2. b[m - 1] = a[m - 1] /\ b[m] = Steps(a[m - 1])
        BY <4>1
      <4> HIDE DEF b
      <4> QED BY <1>4, <3>1, <4>2
    <3>2. CASE n # m
      <4>1. n \in 0 .. m - 1 /\ (n # 0 => n - 1 \in 0 .. m /\ n - 1 # m)
        BY <2>1, <3>2
      <4>2. b[n] = a[n] /\ (n # 0 => b[n - 1] = a[n - 1])
        BY <4>1, <3>2
      <4> HIDE DEF b
      <4> QED BY <2>3, <4>1, <4>2
    <3> QED BY <3>1, <3>2
  <2>5. b = [n \in 0 .. m |-> b[n]]
    OBVIOUS
  <2> HIDE DEF b
  <2>6. IsDecodeChain(b, m)
    BY <2>4, <2>5 DEF IsDecodeChain
  <2> QED BY <2>6
<1> QED BY <1>3, <1>4

\* decode() keeps its state well formed.
LEMMA DecodedKeeps ==
  ASSUME DecodeInv(Undecoded, fetchCounter), NEW d \in Decoded
  PROVE  DecodeInv(d, fetchCounter)
<1> DEFINE after == CHOOSE a : IsDecodeChain(a, DECODE_WIDTH)
<1>1. DECODE_WIDTH \in Nat
  BY FrontEndAssumption
<1>2. IsDecodeChain(after, DECODE_WIDTH)
  <2>1. \E a : IsDecodeChain(a, DECODE_WIDTH)
    BY <1>1, DecodeChainExists
  <2> QED BY <2>1, Zenon
<1>3. Decoded = after[DECODE_WIDTH]
  BY DEF Decoded, IsDecodeChain, Steps, Undecoded
<1> HIDE DEF after
<1>4. \A n \in 0 .. DECODE_WIDTH : after[n] = IF n = 0 THEN {Undecoded} ELSE Steps(after[n - 1])
  BY <1>2 DEF IsDecodeChain
<1> DEFINE Wrong == {n \in 0 .. DECODE_WIDTH : ~ \A e \in after[n] : DecodeInv(e, fetchCounter)}
<1>5. Wrong = {}
  <2> SUFFICES ASSUME Wrong # {} PROVE FALSE
    OBVIOUS
  <2>1. Wrong \in SUBSET Nat
    BY <1>1
  <2>2. PICK m \in Wrong : \A k \in Wrong : m <= k
    BY <2>1, LeastNumber
  <2>3. m # 0
    <3>1. 0 \in 0 .. DECODE_WIDTH /\ after[0] = {Undecoded}
      BY <1>1, <1>4
    <3> QED BY <3>1
  <2>4. m - 1 \in 0 .. DECODE_WIDTH /\ m - 1 \notin Wrong
    BY <1>1, <2>2, <2>3
  <2>5. \A e \in after[m] : DecodeInv(e, fetchCounter)
    <3> TAKE e \in after[m]
    <3>1. after[m] = Steps(after[m - 1])
      BY <1>4, <2>3
    <3>2. PICK c \in after[m - 1] : e = Decode(c)
      BY <3>1 DEF Steps
    <3>3. DecodeInv(c, fetchCounter)
      BY <2>4
    <3> QED BY <3>2, <3>3, DecodeKeeps
  <2> QED BY <2>5
<1>6. DECODE_WIDTH \in 0 .. DECODE_WIDTH
  BY <1>1
<1> QED BY <1>3, <1>5, <1>6

-----------------------------------------------------------------------------
(* The inductive invariant                                                 *)

Fetching == [fetchBuffer |-> fetchBuffer, fetchCounter |-> fetchCounter, stall |-> stall,
             previousBranch |-> previousBranch, btb |-> btb, consulted |-> consulted,
             traceIsOver |-> traceIsOver, resolved |-> resolved]

FrontEndInv ==
  /\ FetchInv(Fetching, decodeCounter)
  /\ decodeCounter \in Nat \ {0}
  /\ decodeBuffer \in Seq(UopItem) /\ Len(decodeBuffer) <= DECODE_BUFFER

LEMMA InitInv == Init => FrontEndInv
<1> SUFFICES ASSUME Init PROVE FrontEndInv
  OBVIOUS
<1>1. /\ FETCH_BUFFER \in Nat /\ TRACE \in Nat /\ DECODE_BUFFER \in Nat
      /\ BTB_MISS_PENALITY \in Nat /\ MISSPREDICTION_PENALITY \in Nat
      /\ 0 \in Set /\ 1 \in Way
  BY FrontEndAssumption DEF Set, Way
<1>2. btb \in [Set -> [Way -> Addresses \cup {0}]] /\ \A s \in Set, w \in Way : btb[s][w] = 0
  BY DEF Init
<1>3. consulted \in [index : Set, way : Way]
  BY <1>1 DEF Init
<1>4. fetchBuffer = <<>> /\ fetchBuffer \in Seq(Item) /\ Len(fetchBuffer) = 0
      /\ DOMAIN fetchBuffer = {}
  BY DEF Init
<1>5. Numbered(fetchBuffer, fetchCounter, decodeCounter)
  BY <1>1, <1>4 DEF Init, Numbered
<1>6. EntriesOK(btb)
  BY <1>2 DEF EntriesOK
<1>7. Fetching \in FetchState
  BY <1>1, <1>2, <1>3, <1>4, NoBranchType DEF Init, Fetching, FetchState
<1>8. BranchesOK(Fetching)
  BY <1>1, <1>3, NoBranchType DEF Init, Fetching, BranchesOK
<1>9. FetchInv(Fetching, decodeCounter)
  BY <1>5, <1>6, <1>7, <1>8 DEF FetchInv, Fetching
<1> QED BY <1>1, <1>9 DEF FrontEndInv, Init

\* What the cache answers changes which instructions are ready, and nothing else.
LEMMA AnswerKeeps ==
  ASSUME FrontEndInv, NEW a, Answer(a)
  PROVE  FrontEndInv'
<1> DEFINE new == [k \in DOMAIN fetchBuffer |->
                    IF fetchBuffer[k].instruction.address = a
                    THEN [fetchBuffer[k] EXCEPT !.ready = TRUE] ELSE fetchBuffer[k]]
<1>1. FetchInv(Fetching, decodeCounter) /\ Numbered(fetchBuffer, fetchCounter, decodeCounter)
  BY DEF FrontEndInv, FetchInv, Fetching
<1>2. fetchBuffer \in Seq(Item) /\ DOMAIN fetchBuffer = 1 .. Len(fetchBuffer) /\ Len(fetchBuffer) \in Nat
  BY <1>1 DEF Numbered
<1>3. \A k \in DOMAIN fetchBuffer : new[k] \in Item /\ new[k].number = fetchBuffer[k].number
  <2> TAKE k \in DOMAIN fetchBuffer
  <2>1. fetchBuffer[k] \in Item
    BY <1>2
  <2>2. [fetchBuffer[k] EXCEPT !.ready = TRUE] \in Item
        /\ [fetchBuffer[k] EXCEPT !.ready = TRUE].number = fetchBuffer[k].number
    BY <2>1 DEF Item
  <2> QED BY <2>1, <2>2
<1>4. new \in Seq(Item) /\ Len(new) = Len(fetchBuffer) /\ DOMAIN new = DOMAIN fetchBuffer
  <2>1. \A n \in Nat : \A f \in [1 .. n -> Item] : f \in Seq(Item) /\ Len(f) = n
    OBVIOUS
  <2>2. DOMAIN new = DOMAIN fetchBuffer
    OBVIOUS
  <2>3. new = [k \in DOMAIN new |-> new[k]]
    OBVIOUS
  <2> HIDE DEF new
  <2>4. new \in [1 .. Len(fetchBuffer) -> Item]
    BY <1>2, <1>3, <2>2, <2>3
  <2> QED BY <1>2, <2>1, <2>2, <2>4
<1>5. fetchBuffer' = new
  BY DEF Answer
<1> HIDE DEF new
<1>6. Numbered(fetchBuffer, fetchCounter, decodeCounter)'
  BY <1>1, <1>3, <1>4, <1>5 DEF Numbered, Answer
<1>7. EntriesOK(btb)'
  BY <1>1 DEF FetchInv, Fetching, EntriesOK, Answer, Index
<1>8. (Fetching \in FetchState)'
  BY <1>1, <1>4, <1>5 DEF FetchInv, Fetching, FetchState, Answer
<1>9. BranchesOK(Fetching)'
  BY <1>1 DEF FetchInv, Fetching, BranchesOK, Answer
<1>10. FetchInv(Fetching, decodeCounter)'
  BY <1>6, <1>7, <1>8, <1>9 DEF FetchInv, Fetching
<1> QED BY <1>10 DEF FrontEndInv, Answer

\* A cycle: decode() takes from the buffer what fetch() then adds to.
LEMMA ClockKeeps ==
  ASSUME FrontEndInv, clock
  PROVE  FrontEndInv'
<1> DEFINE Passed(d) == [fetchBuffer |-> d.fetchBuffer, fetchCounter |-> fetchCounter,
                         stall |-> IF stall = 0 THEN 0 ELSE stall - 1,
                         previousBranch |-> previousBranch, btb |-> btb, consulted |-> consulted,
                         traceIsOver |-> traceIsOver, resolved |-> resolved]
<1>1. PICK d \in Decoded : \E f \in Fetched(Passed(d)) :
        /\ decodeBuffer' = d.decodeBuffer /\ decodeCounter' = d.decodeCounter
        /\ fetchBuffer' = f.fetchBuffer /\ fetchCounter' = f.fetchCounter
        /\ stall' = f.stall /\ previousBranch' = f.previousBranch
        /\ btb' = f.btb /\ consulted' = f.consulted
        /\ traceIsOver' = f.traceIsOver /\ resolved' = f.resolved
  BY DEF clock
<1>2. PICK f \in Fetched(Passed(d)) :
        /\ decodeBuffer' = d.decodeBuffer /\ decodeCounter' = d.decodeCounter
        /\ fetchBuffer' = f.fetchBuffer /\ fetchCounter' = f.fetchCounter
        /\ stall' = f.stall /\ previousBranch' = f.previousBranch
        /\ btb' = f.btb /\ consulted' = f.consulted
        /\ traceIsOver' = f.traceIsOver /\ resolved' = f.resolved
  BY <1>1
<1>3. FetchInv(Fetching, decodeCounter) /\ Numbered(fetchBuffer, fetchCounter, decodeCounter)
  BY DEF FrontEndInv, FetchInv, Fetching
<1>4. DecodeInv(Undecoded, fetchCounter)
  BY <1>3 DEF FrontEndInv, DecodeInv, DecodeState, Undecoded, Numbered
<1>5. DecodeInv(d, fetchCounter)
  BY <1>4, DecodedKeeps
<1>6. FetchInv(Passed(d), d.decodeCounter)
  <2> DEFINE p == Passed(d)
             left == IF stall = 0 THEN 0 ELSE stall - 1
  <2>1. BranchesOK(Fetching) /\ Fetching \in FetchState /\ EntriesOK(btb)
    BY <1>3 DEF FetchInv, Fetching
  <2>2. stall \in Nat /\ stall \in 0 .. BTB_MISS_PENALITY + MISSPREDICTION_PENALITY
    BY <2>1 DEF BranchesOK, Fetching
  <2>3. /\ left \in 0 .. BTB_MISS_PENALITY + MISSPREDICTION_PENALITY /\ left \in Nat
        /\ left > 0 => stall > 0
    BY <2>2, FrontEndAssumption
  <2>4. d.fetchBuffer \in Seq(Item) /\ Numbered(d.fetchBuffer, fetchCounter, d.decodeCounter)
    BY <1>5 DEF DecodeInv, Numbered
  <2>5. /\ p.fetchBuffer = d.fetchBuffer /\ p.fetchCounter = fetchCounter /\ p.stall = left
        /\ p.previousBranch = previousBranch /\ p.btb = btb /\ p.consulted = consulted
        /\ p.resolved = resolved
    OBVIOUS
  <2>10. p = [fetchBuffer |-> d.fetchBuffer, fetchCounter |-> fetchCounter, stall |-> left,
              previousBranch |-> previousBranch, btb |-> btb, consulted |-> consulted,
              traceIsOver |-> traceIsOver, resolved |-> resolved]
    OBVIOUS
  <2> HIDE DEF p, left
  <2>6. /\ fetchCounter \in Nat /\ previousBranch \in Branch /\ resolved \in Branch
        /\ btb \in [Set -> [Way -> Addresses \cup {0}]]
        /\ consulted \in [index : Set, way : Way] /\ traceIsOver \in BOOLEAN
    BY <2>1 DEF Fetching, FetchState
  <2>7. p \in FetchState
    BY <2>3, <2>4, <2>6, <2>10 DEF FetchState
  <2>8. BranchesOK(p)
    BY <2>1, <2>3, <2>5 DEF BranchesOK, Fetching
  <2>9. FetchInv(p, d.decodeCounter)
    BY <2>1, <2>4, <2>5, <2>7, <2>8 DEF FetchInv
  <2> QED BY <2>9 DEF p
<1> HIDE DEF Passed
<1>7. d.decodeCounter \in Nat \ {0} /\ d.decodeBuffer \in Seq(UopItem)
      /\ Len(d.decodeBuffer) <= DECODE_BUFFER
  BY <1>5 DEF DecodeInv, DecodeState
<1>8. FetchInv(f, d.decodeCounter)
  BY <1>2, <1>6, <1>7, FetchedKeeps
<1>9. Fetching' = f
  <2>1. f \in FetchState
    BY <1>8 DEF FetchInv
  <2>2. f = [fetchBuffer |-> f.fetchBuffer, fetchCounter |-> f.fetchCounter, stall |-> f.stall,
             previousBranch |-> f.previousBranch, btb |-> f.btb, consulted |-> f.consulted,
             traceIsOver |-> f.traceIsOver, resolved |-> f.resolved]
    BY <2>1 DEF FetchState
  <2> QED BY <1>2, <2>2 DEF Fetching
<1>10. FetchInv(Fetching, decodeCounter)'
  <2>1. FetchInv(Fetching', decodeCounter')
    BY <1>2, <1>8, <1>9
  <2> QED BY <2>1 DEF FetchInv, Numbered, EntriesOK, BranchesOK, Index
<1> QED BY <1>2, <1>7, <1>10 DEF FrontEndInv

LEMMA NextInv == FrontEndInv /\ [Next]_vars => FrontEndInv'
<1> SUFFICES ASSUME FrontEndInv, [Next]_vars PROVE FrontEndInv'
  OBVIOUS
<1>1. CASE clock
  BY <1>1, ClockKeeps
<1>2. CASE rename
  <2>1. decodeBuffer \in Seq(UopItem) /\ decodeBuffer # <<>> /\ Len(decodeBuffer) \in Nat
    BY <1>2 DEF FrontEndInv, rename
  <2>2. Tail(decodeBuffer) \in Seq(UopItem) /\ Len(Tail(decodeBuffer)) = Len(decodeBuffer) - 1
    BY <2>1
  <2>3. (FetchInv(Fetching, decodeCounter))'
    BY <1>2 DEF FrontEndInv, rename, FetchInv, Fetching, Numbered, EntriesOK, BranchesOK, Index
  <2> QED BY <1>2, <2>1, <2>2, <2>3, FrontEndAssumption DEF FrontEndInv, rename
<1>3. CASE \E a \in Addresses : Answer(a)
  BY <1>3, AnswerKeeps
<1>4. CASE UNCHANGED vars
  BY <1>4 DEF vars, FrontEndInv, FetchInv, Fetching, Numbered, EntriesOK, BranchesOK, Index
<1> QED BY <1>1, <1>2, <1>3, <1>4 DEF Next

\* The inductive invariant: the instructions in the buffer are numbered from the
\* next one decoded to the next one fetched; an entry of the target buffer is in
\* the set of its address and no set holds an address twice; the branch that
\* waits for its target is the last instruction fetched, and the one that stalls
\* fetch() the last but one.
THEOREM FrontEndInvariant == Spec => []FrontEndInv
<1>1. Init => FrontEndInv
  BY InitInv
<1>2. FrontEndInv /\ [Next]_vars => FrontEndInv'
  BY NextInv
<1> QED BY <1>1, <1>2, PTL DEF Spec

\* Every variable keeps its type, and no buffer more than its size.
THEOREM TypeCorrect == Spec => []TypeOK
<1>1. FrontEndInv => TypeOK
  <2> SUFFICES ASSUME FrontEndInv PROVE TypeOK
    OBVIOUS
  <2>1. /\ Fetching \in FetchState /\ BranchesOK(Fetching) /\ EntriesOK(btb)
        /\ Numbered(fetchBuffer, fetchCounter, decodeCounter)
    BY DEF FrontEndInv, FetchInv, Fetching
  <2>2. decodeCounter \in 1 .. TRACE + 1
    BY <2>1, FrontEndAssumption DEF Numbered, FrontEndInv
  <2>3. traceIsOver \in BOOLEAN
    BY <2>1 DEF FetchState, Fetching
  <2> QED BY <2>1, <2>2, <2>3
          DEF TypeOK, FrontEndInv, Numbered, EntriesOK, BranchesOK, Fetching, Item, UopItem, Kind, Branch
<1> QED BY <1>1, FrontEndInvariant, PTL

\* The assertions of decode() hold: the instruction it meets is the next one, and
\* what it reserved for an instruction is what the instruction's uops take.
THEOREM DecodeAssertionsHold == Spec => []DecodeAsserted
<1>1. FrontEndInv => DecodeAsserted
  BY DEF FrontEndInv, FetchInv, Fetching, Numbered, DecodeAsserted
<1> QED BY <1>1, FrontEndInvariant, PTL

\* A branch has one entry in the target buffer, and consults its own.
THEOREM OneEntryPerBranch == Spec => []BranchHasOneEntry
<1>1. FrontEndInv => BranchHasOneEntry
  <2> SUFFICES ASSUME FrontEndInv PROVE BranchHasOneEntry
    OBVIOUS
  <2>1. EntriesOK(btb) /\ BranchesOK(Fetching)
    BY DEF FrontEndInv, FetchInv, Fetching
  <2>2. ASSUME NEW s \in Set, NEW t \in Set, NEW v \in Way, NEW w \in Way,
               btb[s][v] = btb[t][w], btb[s][v] # 0
        PROVE  s = t /\ v = w
    BY <2>1, <2>2 DEF EntriesOK
  <2>3. resolved # NoBranch => btb[consulted.index][consulted.way] = resolved.address
    BY <2>1 DEF BranchesOK, Fetching
  <2> QED BY <2>2, <2>3 DEF BranchHasOneEntry
<1> QED BY <1>1, FrontEndInvariant, PTL

\* Past a branch that stalls fetch(), only the instruction that showed where it
\* went has been fetched.
THEOREM TargetIsLast == Spec => []NothingBeyondTarget
<1>1. FrontEndInv => NothingBeyondTarget
  BY DEF FrontEndInv, FetchInv, Fetching, BranchesOK, NothingBeyondTarget
<1> QED BY <1>1, FrontEndInvariant, PTL
=============================================================================
