-------------------------- MODULE PipelineProofs ---------------------------
(***************************************************************************)
(* Rename, the reservation station, the memory order buffers and commit of *)
(* processor/processor.cpp with memory_disambiguation/, for any sizes of   *)
(* the buffers and of the tables and any uops: the inductive invariant of  *)
(* Pipeline and what it promises of its rings, counters and lists.         *)
(*                                                                         *)
(* The dependencies between uops, and those between memory operations, are *)
(* arrays of pointers and counters that have to agree (Agree).  The parts  *)
(* of the inductive invariant IInv say so, and what the places of the      *)
(* memory order buffers and the lines of the reorder buffer say of each    *)
(* other.                                                                  *)
(***************************************************************************)
EXTENDS Pipeline, FiniteSetTheorems, SequenceTheorems, NaturalsInduction, WellFoundedInduction, TLAPS

-----------------------------------------------------------------------------
(* Numbers and constants.                                                  *)

\* A set of numbers that is not empty has a least one.
LEMMA LeastNumber ==
  ASSUME NEW S \in SUBSET Nat, S # {}
  PROVE  \E m \in S : \A k \in S : m <= k
<1> DEFINE Less == OpToRel(<, Nat)
<1>1. IsWellFoundedOn(Less, Nat)
  BY NatLessThanWellFounded
<1>2. \A x, y \in Nat : <<y, x>> \in Less <=> y < x
  BY DEF OpToRel
<1> HIDE DEF Less
<1>3. PICK m \in S : \A k \in S : <<k, m>> \notin Less
  BY <1>1, WFMin
<1>4. \A k \in S : ~ (k < m)
  BY <1>2, <1>3
<1> QED BY <1>4

LEMMA DisjointUnion ==
  ASSUME NEW S, NEW T, IsFiniteSet(S), IsFiniteSet(T), S \cap T = {}
  PROVE  Cardinality(S \cup T) = Cardinality(S) + Cardinality(T)
<1>1. Cardinality(S \cup T) = Cardinality(S) + Cardinality(T) - Cardinality(S \cap T)
  BY FS_Union
<1>2. Cardinality(S \cap T) = 0
  BY FS_EmptySet
<1>3. Cardinality(S) \in Nat /\ Cardinality(T) \in Nat
  BY FS_CardinalityType
<1> QED BY <1>1, <1>2, <1>3

\* Around a ring of N slots.
LEMMA Ring ==
  \A N \in Nat \ {0} : \A a \in 0 .. N - 1 : \A k \in 0 .. N :
    (a + k) % N = IF a + k < N THEN a + k ELSE a + k - N
<1> TAKE N \in Nat \ {0}
<1> TAKE a \in 0 .. N - 1
<1> TAKE k \in 0 .. N
<1>1. CASE a + k < N
  BY <1>1
<1>2. CASE N <= a + k
  BY <1>2
<1> QED BY <1>1, <1>2

LEMMA RingBack ==
  \A N \in Nat \ {0} : \A a, b \in 0 .. N - 1 :
    (a - b) % N = IF a >= b THEN a - b ELSE a - b + N
<1> TAKE N \in Nat \ {0}
<1> TAKE a, b \in 0 .. N - 1
<1>1. CASE a >= b
  BY <1>1
<1>2. CASE a < b
  BY <1>2
<1> QED BY <1>1, <1>2

LEMMA MobSize == \A op \in Memory : MOB[op] \in Nat
BY SizesAssumption

LEMMA RobSize == ROB_SIZE \in Nat \ {0}
BY TableAssumption

LEMMA PlaceType ==
  /\ \A p \in Place : /\ p[1] \in Memory /\ p[2] \in 0 .. MOB[p[1]] - 1 /\ p = <<p[1], p[2]>>
                      /\ MOB[p[1]] \in Nat \ {0}
  /\ \A op \in Memory : \A k \in 0 .. MOB[op] - 1 : <<op, k>> \in Place
<1>1. \A p \in Place : p[1] \in Memory /\ p[2] \in 0 .. MOB[p[1]] - 1 /\ p = <<p[1], p[2]>>
  BY DEF Place, Position
<1>2. \A op \in Memory : \A k \in 0 .. MOB[op] - 1 : <<op, k>> \in Place
  BY DEF Place, Position
<1> QED BY <1>1, <1>2, MobSize

LEMMA PlaceFinite == IsFiniteSet(Place)
<1>1. \A op \in Memory : IsFiniteSet({op} \X Position(op))
  <2> TAKE op \in Memory
  <2>1. IsFiniteSet(Position(op))
    BY MobSize, FS_Interval DEF Position
  <2> QED BY <2>1, FS_Singleton, FS_Product
<1> DEFINE parts == {{op} \X Position(op) : op \in Memory}
           one == {"LOAD"} \X Position("LOAD")
           two == {"STORE"} \X Position("STORE")
           three == {"HIVE"} \X Position("HIVE")
           four == {"VIMA"} \X Position("VIMA")
<1>2. Place = ((one \cup two) \cup three) \cup four
  BY Zenon DEF Place, Memory
<1> HIDE DEF one, two, three, four
<1>3. IsFiniteSet(one) /\ IsFiniteSet(two) /\ IsFiniteSet(three) /\ IsFiniteSet(four)
  BY <1>1 DEF Memory, one, two, three, four
<1>4. IsFiniteSet(one \cup two)
  BY <1>3, FS_Union
<1>5. IsFiniteSet((one \cup two) \cup three)
  BY <1>3, <1>4, FS_Union
<1> QED BY <1>2, <1>3, <1>5, FS_Union

\* The place k places after the first one, around the ring.
LEMMA PlaceOfIs ==
  ASSUME NEW op \in Memory, NEW first \in 0 .. MOB[op] - 1, NEW k \in 0 .. MOB[op]
  PROVE  /\ PlaceOf(op, first, k) = <<op, IF first + k < MOB[op] THEN first + k ELSE first + k - MOB[op]>>
         /\ PlaceOf(op, first, k) \in Place
<1>1. MOB[op] \in Nat \ {0}
  BY MobSize
<1>2. (first + k) % MOB[op] = IF first + k < MOB[op] THEN first + k ELSE first + k - MOB[op]
  BY <1>1, Ring, Zenon
<1>3. PlaceOf(op, first, k) = <<op, IF first + k < MOB[op] THEN first + k ELSE first + k - MOB[op]>>
  BY <1>2 DEF PlaceOf
<1>4. (IF first + k < MOB[op] THEN first + k ELSE first + k - MOB[op]) \in 0 .. MOB[op] - 1
  BY <1>1
<1> QED BY <1>3, <1>4, PlaceType

-----------------------------------------------------------------------------
(* The shape of the state.                                                 *)

LineShape ==
  [uop : Uop \cup {NULL}, uop_number : Nat,
   stage : {"DECODE", "RENAME", "EXECUTION", "COMMIT"},
   wait_reg_deps_number : Int, reg_deps_ptr_array : Seq(Slot),
   pos_mob : Nat \cup {NULL}, waiting_mem_request : Int, sent : BOOLEAN]

EntryShape ==
  [status : {"FREE", "WAIT", "READY"}, rob_ptr : Slot \cup {NULL},
   access : [address : Nat, size : Nat] \cup {NULL}, uop_executed : BOOLEAN,
   processed : BOOLEAN, sent : BOOLEAN, wait_mem_deps_number : Int,
   mem_deps_ptr_array : Seq(Place)]

RobShape ==
  /\ rob \in [Slot -> LineShape]
  /\ robStart \in Slot /\ robUsed \in 0 .. ROB_SIZE
  /\ renameCounter \in 0 .. MAX_UOPS

\* mob_start is a place of the buffer, or 0 if it has none.
MobShape ==
  /\ mob \in [Place -> EntryShape]
  /\ mob_start \in [Memory -> Nat] /\ mob_used \in [Memory -> Nat]
  /\ \A op \in Memory : /\ mob_used[op] <= MOB[op]
                        /\ MOB[op] /= 0 => mob_start[op] < MOB[op]
  /\ load_hash \in [0 .. LOAD_HASH_SIZE - 1 -> Place \cup {NULL}]
  /\ store_hash \in [0 .. STORE_HASH_SIZE - 1 -> Place \cup {NULL}]

StageShape ==
  /\ register_alias_table \in [Register -> Slot \cup {NULL}]
  /\ unified_reservation_station \in Seq(Slot)
  /\ unified_functional_units \subseteq Slot
  /\ memory_executed \in [Memory -> Int]
  /\ oldest_to_send \in [Memory -> Place \cup {NULL}]

LEMMA StartType ==
  ASSUME MobShape, NEW op \in Memory, MOB[op] # 0
  PROVE  /\ mob_start[op] \in 0 .. MOB[op] - 1 /\ mob_used[op] \in 0 .. MOB[op]
         /\ mobEnd(op) \in 0 .. MOB[op] - 1
         /\ mobEnd(op) = IF mob_start[op] + mob_used[op] < MOB[op] THEN mob_start[op] + mob_used[op]
                         ELSE mob_start[op] + mob_used[op] - MOB[op]
<1>1. mob_start[op] \in 0 .. MOB[op] - 1 /\ mob_used[op] \in 0 .. MOB[op] /\ MOB[op] \in Nat \ {0}
  BY MobSize DEF MobShape
<1>2. mobEnd(op) = IF mob_start[op] + mob_used[op] < MOB[op] THEN mob_start[op] + mob_used[op]
                   ELSE mob_start[op] + mob_used[op] - MOB[op]
  BY <1>1, Ring, Zenon DEF mobEnd
<1> QED BY <1>1, <1>2

LEMMA DistanceIs ==
  ASSUME MobShape, NEW p \in Place
  PROVE  /\ Distance(p) = IF p[2] >= mob_start[p[1]] THEN p[2] - mob_start[p[1]]
                          ELSE p[2] - mob_start[p[1]] + MOB[p[1]]
         /\ Distance(p) \in 0 .. MOB[p[1]] - 1
<1> DEFINE op == p[1]
<1>1. op \in Memory /\ p[2] \in 0 .. MOB[op] - 1 /\ MOB[op] \in Nat \ {0}
  BY PlaceType
<1>2. mob_start[op] \in 0 .. MOB[op] - 1
  BY <1>1, StartType
<1>3. Distance(p) = IF p[2] >= mob_start[op] THEN p[2] - mob_start[op] ELSE p[2] - mob_start[op] + MOB[op]
  BY <1>1, <1>2, RingBack, Zenon DEF Distance
<1> HIDE DEF op
<1> QED BY <1>1, <1>2, <1>3 DEF op

LEMMA DistanceInjective ==
  ASSUME MobShape, NEW p \in Place, NEW q \in Place, p[1] = q[1], Distance(p) = Distance(q)
  PROVE  p = q
<1>1. p[2] \in 0 .. MOB[p[1]] - 1 /\ q[2] \in 0 .. MOB[p[1]] - 1 /\ MOB[p[1]] \in Nat \ {0} /\ p[1] \in Memory
  BY PlaceType
<1>2. mob_start[p[1]] \in 0 .. MOB[p[1]] - 1
  BY <1>1, StartType
<1>3. p[2] = q[2]
  BY <1>1, <1>2, DistanceIs
<1> QED BY <1>3, PlaceType

\* The place k places after the start is k places from it.
LEMMA DistanceFromStart ==
  ASSUME MobShape, NEW op \in Memory, NEW k \in 0 .. MOB[op] - 1
  PROVE  /\ PlaceOf(op, mob_start[op], k) \in Place /\ PlaceOf(op, mob_start[op], k)[1] = op
         /\ Distance(PlaceOf(op, mob_start[op], k)) = k
<1> DEFINE p == PlaceOf(op, mob_start[op], k)
<1>1. MOB[op] \in Nat \ {0}
  BY MobSize
<1>2. mob_start[op] \in 0 .. MOB[op] - 1
  BY <1>1, StartType
<1>3. /\ p = <<op, IF mob_start[op] + k < MOB[op] THEN mob_start[op] + k ELSE mob_start[op] + k - MOB[op]>>
      /\ p \in Place
  BY <1>1, <1>2, PlaceOfIs
<1>4. p[1] = op /\ p[2] = IF mob_start[op] + k < MOB[op] THEN mob_start[op] + k ELSE mob_start[op] + k - MOB[op]
  BY <1>3
<1> HIDE DEF p
<1>5. Distance(p) = k
  BY <1>1, <1>2, <1>3, <1>4, DistanceIs
<1> QED BY <1>3, <1>4, <1>5 DEF p

\* The places in use are those within mob_used of the start.
LEMMA InUseIs ==
  ASSUME MobShape, NEW op \in Memory
  PROVE  /\ DOMAIN InUse(op) = 1 .. mob_used[op]
         /\ \A p : p \in ToSet(InUse(op)) <=> p \in Place /\ p[1] = op /\ Distance(p) < mob_used[op]
<1>1. mob_used[op] \in Nat /\ mob_used[op] <= MOB[op] /\ MOB[op] \in Nat
  BY MobSize DEF MobShape
<1>2. ToSet(InUse(op)) = {PlaceOf(op, mob_start[op], k - 1) : k \in 1 .. mob_used[op]}
  BY DEF ToSet, InUse
<1>3. ASSUME NEW p \in ToSet(InUse(op))
      PROVE  p \in Place /\ p[1] = op /\ Distance(p) < mob_used[op]
  <2>1. PICK k \in 1 .. mob_used[op] : p = PlaceOf(op, mob_start[op], k - 1)
    BY <1>2
  <2>2. k - 1 \in 0 .. MOB[op] - 1 /\ k - 1 < mob_used[op]
    BY <1>1
  <2> QED BY <2>1, <2>2, DistanceFromStart
<1>4. ASSUME NEW p \in Place, p[1] = op, Distance(p) < mob_used[op]
      PROVE  p \in ToSet(InUse(op))
  <2> DEFINE k == Distance(p)
  <2>1. k \in 0 .. MOB[op] - 1 /\ k + 1 \in 1 .. mob_used[op] /\ (k + 1) - 1 = k
    BY <1>1, <1>4, DistanceIs
  <2>2. p = PlaceOf(op, mob_start[op], k)
    <3> HIDE DEF k
    <3>1. Distance(PlaceOf(op, mob_start[op], k)) = k
      BY <2>1, DistanceFromStart
    <3> QED BY <1>4, <2>1, <3>1, DistanceFromStart, DistanceInjective DEF k
  <2> HIDE DEF k
  <2> QED BY <1>2, <2>1, <2>2
<1> QED BY <1>3, <1>4 DEF InUse

\* Places of a uop that are i apart are at distances i apart.
LEMMA DistanceBefore ==
  ASSUME MobShape, NEW op \in Memory, NEW first \in 0 .. MOB[op] - 1,
         NEW k \in 0 .. MOB[op] - 1, NEW i \in 0 .. k,
         i <= Distance(PlaceOf(op, first, k))
  PROVE  Distance(PlaceOf(op, first, k - i)) = Distance(PlaceOf(op, first, k)) - i
<1> DEFINE p == PlaceOf(op, first, k)
           q == PlaceOf(op, first, k - i)
<1>1. MOB[op] \in Nat \ {0} /\ k - i \in 0 .. MOB[op] - 1
  BY MobSize
<1>2. mob_start[op] \in 0 .. MOB[op] - 1
  BY <1>1, StartType
<1>3. /\ p = <<op, IF first + k < MOB[op] THEN first + k ELSE first + k - MOB[op]>>
      /\ p \in Place
  BY <1>1, PlaceOfIs
<1>4. /\ q = <<op, IF first + (k - i) < MOB[op] THEN first + (k - i) ELSE first + (k - i) - MOB[op]>>
      /\ q \in Place
  BY <1>1, PlaceOfIs
<1>5. /\ p[1] = op /\ p[2] = IF first + k < MOB[op] THEN first + k ELSE first + k - MOB[op]
      /\ q[1] = op /\ q[2] = IF first + (k - i) < MOB[op] THEN first + (k - i) ELSE first + (k - i) - MOB[op]
  BY <1>3, <1>4
<1>6. i <= Distance(p)
  OBVIOUS
<1> HIDE DEF p, q
<1>7. Distance(q) = Distance(p) - i
  BY <1>1, <1>2, <1>3, <1>4, <1>5, <1>6, DistanceIs
<1> QED BY <1>7 DEF p, q

\* The places of a uop are different ones.
LEMMA PlaceOfInjective ==
  ASSUME NEW op \in Memory, NEW first \in 0 .. MOB[op] - 1,
         NEW k \in 0 .. MOB[op] - 1, NEW l \in 0 .. MOB[op] - 1,
         PlaceOf(op, first, k) = PlaceOf(op, first, l)
  PROVE  k = l
<1>1. MOB[op] \in Nat \ {0}
  BY MobSize
<1>2. (IF first + k < MOB[op] THEN first + k ELSE first + k - MOB[op])
        = (IF first + l < MOB[op] THEN first + l ELSE first + l - MOB[op])
  BY <1>1, PlaceOfIs
<1> QED BY <1>1, <1>2
-----------------------------------------------------------------------------
(* Counts of what is waited for, and the arrays that point back.           *)

\* The places of the arrays of X that hold x.
PointersTo(X, arrays, x) ==
  {y \in X \X (1 .. ROB_SIZE) : y[2] <= Len(arrays[y[1]]) /\ arrays[y[1]][y[2]] = x}

\* Every member of X waits as often as it is pointed to.
Agree(X, arrays, waits) ==
  \A x \in X : /\ Len(arrays[x]) <= ROB_SIZE
               /\ waits[x] = Cardinality(PointersTo(X, arrays, x))

LEMMA PointersFinite ==
  ASSUME NEW X, IsFiniteSet(X), NEW arrays, NEW x
  PROVE  IsFiniteSet(PointersTo(X, arrays, x))
<1>1. IsFiniteSet(1 .. ROB_SIZE)
  BY RobSize, FS_Interval
<1>2. IsFiniteSet(X \X (1 .. ROB_SIZE))
  BY <1>1, FS_Product
<1> QED BY <1>2, FS_Subset DEF PointersTo

\* An array holds x a finite number of times.
LEMMA TimesIs ==
  ASSUME NEW X, NEW a \in Seq(X), NEW x
  PROVE  /\ IsFiniteSet({j \in DOMAIN a : a[j] = x})
         /\ Times(x, a) \in Nat
         /\ Times(x, a) # 0 <=> x \in ToSet(a)
<1> DEFINE J == {j \in DOMAIN a : a[j] = x}
<1>1. IsFiniteSet(DOMAIN a)
  BY FS_Interval
<1>2. IsFiniteSet(J)
  BY <1>1, FS_Subset
<1>3. Times(x, a) = Cardinality(J)
  BY DEF Times
<1>4. J = {} <=> x \notin ToSet(a)
  BY DEF ToSet
<1> HIDE DEF J
<1>5. Cardinality(J) \in Nat /\ (Cardinality(J) = 0 <=> J = {})
  BY <1>2, FS_CardinalityType, FS_EmptySet
<1> QED BY <1>2, <1>3, <1>4, <1>5 DEF J

\* Emptying an array takes back what its members waited for.
LEMMA EmptyAgrees ==
  ASSUME NEW X, IsFiniteSet(X), NEW arrays \in [X -> Seq(X)], NEW waits,
         Agree(X, arrays, waits), NEW s \in X,
         NEW arrays1, \A x \in X : arrays1[x] = IF x = s THEN <<>> ELSE arrays[x],
         NEW waits1, \A x \in X : waits1[x] = waits[x] - Times(x, arrays[s])
  PROVE  Agree(X, arrays1, waits1)
<1> DEFINE a == arrays[s]
<1>1. a \in Seq(X) /\ Len(a) \in Nat /\ Len(a) <= ROB_SIZE /\ ROB_SIZE \in Nat
  BY RobSize DEF Agree
<1>2. DOMAIN a = 1 .. Len(a)
  BY <1>1
<1> HIDE DEF a
<1>3. ASSUME NEW x \in X PROVE Len(arrays1[x]) <= ROB_SIZE
  BY RobSize DEF Agree
<1>4. ASSUME NEW x \in X PROVE waits1[x] = Cardinality(PointersTo(X, arrays1, x))
  <2> DEFINE J == {j \in DOMAIN a : a[j] = x}
             M == {<<s, j>> : j \in J}
             P == PointersTo(X, arrays, x)
             Q == PointersTo(X, arrays1, x)
  <2>1. IsFiniteSet(J) /\ Times(x, a) = Cardinality(J)
    BY <1>1, TimesIs DEF Times
  <2>2. M \subseteq P
    BY <1>1, <1>2 DEF PointersTo, a
  <2>3. Q = P \ M
    <3>1. \A y \in Q : y \in P /\ y \notin M
      BY <1>1 DEF PointersTo, a
    <3>2. ASSUME NEW y \in P, y \notin M PROVE y \in Q
      <4>1. /\ y \in X \X (1 .. ROB_SIZE) /\ y[1] \in X /\ y[2] \in 1 .. ROB_SIZE /\ y = <<y[1], y[2]>>
            /\ y[2] <= Len(arrays[y[1]]) /\ arrays[y[1]][y[2]] = x
        BY <3>2 DEF PointersTo
      <4>2. y[1] # s
        <5> SUFFICES ASSUME y[1] = s PROVE FALSE
          OBVIOUS
        <5>1. y[2] \in J
          BY <1>1, <1>2, <4>1 DEF a
        <5> QED BY <3>2, <4>1, <5>1
      <4>3. arrays1[y[1]] = arrays[y[1]]
        BY <4>1, <4>2
      <4> QED BY <4>1, <4>3 DEF PointersTo
    <3> QED BY <3>1, <3>2
  <2>4. IsFiniteSet(P)
    BY PointersFinite
  <2>5. IsFiniteSet(M) /\ Cardinality(M) = Cardinality(J)
    <3> DEFINE f == [j \in J |-> <<s, j>>]
    <3>1. f \in [J -> M] /\ \A j, k \in J : f[j] = f[k] => j = k
      OBVIOUS
    <3>2. \A m \in M : \E j \in J : f[j] = m
      OBVIOUS
    <3> HIDE DEF f, J, M
    <3>3. f \in Injection(J, M)
      BY <3>1 DEF Injection, IsInjective
    <3>4. f \in Surjection(J, M)
      BY <3>1, <3>2 DEF Surjection
    <3>5. ExistsBijection(J, M)
      BY <3>3, <3>4 DEF ExistsBijection, Bijection
    <3> QED BY <2>1, <3>5, FS_Bijection
  <2>6. Cardinality(Q) = Cardinality(P) - Cardinality(M)
    <3>1. IsFiniteSet(P \ M) /\ P \cap M = M
      BY <2>2, <2>4, FS_Difference
    <3> HIDE DEF P, M, J, Q
    <3>2. Cardinality(P \ M) = Cardinality(P) - Cardinality(P \cap M)
      BY <2>4, FS_Difference
    <3> QED BY <2>3, <3>1, <3>2
  <2>7. waits1[x] = waits[x] - Times(x, a) /\ waits[x] = Cardinality(P)
    BY DEF Agree, a
  <2> QED BY <2>1, <2>5, <2>6, <2>7
<1> QED BY <1>3, <1>4 DEF Agree

\* A pointer to t is appended to the array of s, and t waits for one more.
Appended(X, arrays, waits, arrays1, waits1, s, t) ==
  /\ arrays \in [X -> Seq(X)] /\ Agree(X, arrays, waits) /\ Len(arrays[s]) # ROB_SIZE
  /\ \A x \in X : arrays1[x] = IF x = s THEN Append(arrays[s], t) ELSE arrays[x]
  /\ \A x \in X : waits1[x] = IF x = t THEN waits[x] + 1 ELSE waits[x]

LEMMA AppendAgrees ==
  \A X : IsFiniteSet(X) =>
    \A arrays, waits, arrays1, waits1 : \A s, t \in X :
      Appended(X, arrays, waits, arrays1, waits1, s, t) => Agree(X, arrays1, waits1)
<1> SUFFICES ASSUME NEW X, IsFiniteSet(X), NEW arrays, NEW waits, NEW arrays1, NEW waits1,
                    NEW s \in X, NEW t \in X, Appended(X, arrays, waits, arrays1, waits1, s, t)
             PROVE  Agree(X, arrays1, waits1)
  BY Zenon
<1>h. /\ arrays \in [X -> Seq(X)] /\ Agree(X, arrays, waits) /\ Len(arrays[s]) # ROB_SIZE
      /\ \A x \in X : arrays1[x] = IF x = s THEN Append(arrays[s], t) ELSE arrays[x]
      /\ \A x \in X : waits1[x] = IF x = t THEN waits[x] + 1 ELSE waits[x]
  BY DEF Appended
<1> USE <1>h
<1> DEFINE a == arrays[s]
           n == Len(a) + 1
           b == Append(a, t)
<1>1. a \in Seq(X) /\ Len(a) \in Nat /\ Len(a) < ROB_SIZE /\ ROB_SIZE \in Nat /\ n \in 1 .. ROB_SIZE
  BY RobSize DEF Agree
<1>2. Len(b) = n /\ b[n] = t /\ \A j \in 1 .. Len(a) : b[j] = a[j]
  BY <1>1
<1>0. \A x \in X : arrays1[x] = IF x = s THEN b ELSE arrays[x]
  OBVIOUS
<1>a. arrays[s] = a /\ n = Len(a) + 1
  OBVIOUS
<1> HIDE DEF a, b, n
<1>3. ASSUME NEW x \in X PROVE Len(arrays1[x]) <= ROB_SIZE
  <2>1. CASE x = s
    <3>1. arrays1[x] = b
      BY <1>0, <2>1, Zenon
    <3> QED BY <1>1, <1>2, <3>1
  <2>2. CASE x # s
    <3>1. arrays1[x] = arrays[x]
      BY <1>0, <2>2, Zenon
    <3> QED BY <3>1 DEF Agree
  <2> QED BY <2>1, <2>2
<1>4. ASSUME NEW x \in X PROVE waits1[x] = Cardinality(PointersTo(X, arrays1, x))
  <2> DEFINE P == PointersTo(X, arrays, x)
             Q == PointersTo(X, arrays1, x)
  <2>1. IsFiniteSet(P) /\ waits[x] = Cardinality(P)
    BY PointersFinite DEF Agree
  <2>2. <<s, n>> \notin P
    BY <1>1, <1>a DEF PointersTo
  <2>3. ASSUME NEW y \in X \X (1 .. ROB_SIZE), y # <<s, n>> PROVE y \in Q <=> y \in P
    <3>1. y[1] \in X /\ y[2] \in 1 .. ROB_SIZE /\ y = <<y[1], y[2]>>
      OBVIOUS
    <3>2. CASE y[1] # s
      BY <1>0, <3>1, <3>2 DEF PointersTo
    <3>3. CASE y[1] = s
      <4>1. y[2] # n
        BY <2>3, <3>1, <3>3
      <4>2. arrays1[y[1]] = b /\ arrays[y[1]] = a
        BY <1>0, <1>a, <3>3
      <4>3. y[2] <= n <=> y[2] <= Len(a)
        BY <1>1, <1>a, <3>1, <4>1
      <4> QED BY <1>1, <1>2, <3>1, <4>2, <4>3 DEF PointersTo
    <3> QED BY <3>2, <3>3
  <2>4. <<s, n>> \in Q <=> x = t
    BY <1>0, <1>1, <1>2 DEF PointersTo
  <2>5. P \subseteq X \X (1 .. ROB_SIZE) /\ Q \subseteq X \X (1 .. ROB_SIZE)
    BY DEF PointersTo
  <2> HIDE DEF P, Q
  <2>6. CASE x = t
    <3>1. Q = P \cup {<<s, n>>}
      BY <2>2, <2>3, <2>4, <2>5, <2>6
    <3>2. Cardinality(Q) = Cardinality(P) + 1
      BY <2>1, <2>2, <3>1, FS_AddElement
    <3> QED BY <2>1, <2>6, <3>2 DEF Q
  <2>7. CASE x # t
    <3>1. \A y \in X \X (1 .. ROB_SIZE) : y \in Q <=> y \in P
      BY <2>2, <2>3, <2>4, <2>7
    <3>2. Q = P
      BY <2>5, <3>1
    <3> QED BY <2>1, <2>7, <3>2 DEF Q
  <2> QED BY <2>6, <2>7
<1> QED BY <1>3, <1>4 DEF Agree

\* Nothing points to what waits for nothing.
LEMMA PointedAt ==
  ASSUME NEW X, IsFiniteSet(X), NEW arrays \in [X -> Seq(X)], NEW waits,
         Agree(X, arrays, waits), NEW s \in X, NEW x \in X, waits[x] = 0
  PROVE  x \notin ToSet(arrays[s]) /\ Times(x, arrays[s]) = 0
<1> DEFINE P == PointersTo(X, arrays, x)
<1>1. IsFiniteSet(P) /\ Cardinality(P) = 0
  BY PointersFinite DEF Agree
<1>2. P = {}
  <2> HIDE DEF P
  <2> QED BY <1>1, FS_EmptySet
<1>3. arrays[s] \in Seq(X) /\ Len(arrays[s]) <= ROB_SIZE /\ ROB_SIZE \in Nat
  BY RobSize DEF Agree
<1>4. x \notin ToSet(arrays[s])
  <2> SUFFICES ASSUME x \in ToSet(arrays[s]) PROVE FALSE
    OBVIOUS
  <2>1. PICK j \in DOMAIN arrays[s] : arrays[s][j] = x
    BY DEF ToSet
  <2>2. j \in 1 .. ROB_SIZE /\ j <= Len(arrays[s])
    BY <1>3
  <2>3. <<s, j>> \in P
    BY <2>1, <2>2 DEF PointersTo
  <2> QED BY <1>2, <2>3
<1> QED BY <1>3, <1>4, TimesIs

\* A count of what is waited for is never taken below zero.
LEMMA TimesBound ==
  ASSUME NEW X, IsFiniteSet(X), NEW arrays \in [X -> Seq(X)], NEW waits,
         Agree(X, arrays, waits), NEW x \in X
  PROVE  waits[x] \in Nat
BY PointersFinite, FS_CardinalityType DEF Agree

-----------------------------------------------------------------------------
(* The inductive invariant.                                                *)

\* The reorder buffer is a ring: the lines in use follow robStart, and are
\* numbered in the order they were renamed.
Busy(s) == rob[s].uop /= NULL
Age(s) == (s - robStart) % ROB_SIZE

RobInv ==
  /\ robUsed <= renameCounter
  /\ \A s \in Slot :
       /\ Busy(s) <=> Age(s) < robUsed
       /\ Busy(s) => /\ rob[s].uop_number = renameCounter - robUsed + Age(s)
                     /\ rob[s].stage /= "DECODE"
       /\ ~Busy(s) => rob[s].stage = "DECODE" /\ ~rob[s].sent

\* The places of a memory uop: Kept of them, the last ones, are still its own.
IsMemory(s) == Busy(s) /\ rob[s].uop.op \in Memory
Kind(s) == rob[s].uop.op
Count(s) == Len(rob[s].uop.accesses)
Kept(s) == IF Kind(s) = "STORE" THEN rob[s].waiting_mem_request ELSE Count(s)
Nth(s, i) == PlaceOf(Kind(s), rob[s].pos_mob, i)
Rank(s) == Distance(Nth(s, Count(s) - 1))
Used(p) == mob[p].status /= "FREE"
Owner(p) == mob[p].rob_ptr

\* A place in use is within mob_used of the start and is kept by a memory uop
\* of its kind.
PlaceInv ==
  \A p \in Place :
    /\ Used(p) <=> Distance(p) < mob_used[p[1]]
    /\ Used(p) => /\ Owner(p) \in Slot /\ IsMemory(Owner(p)) /\ Kind(Owner(p)) = p[1]
                  /\ Rank(Owner(p)) - Kept(Owner(p)) < Distance(p)
                  /\ Distance(p) <= Rank(Owner(p))

\* What a memory uop keeps is in use, and its own.
OwnerInv ==
  \A s \in Slot : IsMemory(s) =>
    /\ rob[s].pos_mob \in 0 .. MOB[Kind(s)] - 1
    /\ Kept(s) \in 0 .. Count(s)
    /\ Kept(s) > 0 => Rank(s) < mob_used[Kind(s)] /\ Kept(s) <= Rank(s) + 1
    /\ \A i \in 0 .. Count(s) - 1 :
         Count(s) - Kept(s) <= i => /\ mob[Nth(s, i)].rob_ptr = s
                                    /\ mob[Nth(s, i)].access = rob[s].uop.accesses[i + 1]

\* The places of an older uop come before those of a younger one.
OrderInv ==
  \A s, t \in Slot :
    IsMemory(s) /\ IsMemory(t) /\ Kind(s) = Kind(t) /\ Kept(s) > 0 /\ Kept(t) > 0 /\ Before(s, t)
    => Rank(s) + Kept(t) <= Rank(t)

\* A uop goes from the reservation station to a functional unit, and its
\* memory operations are not executed before it leaves that.
Waiting(s) == rob[s].stage = "RENAME" \/ s \in unified_functional_units

StageInv ==
  /\ \A j \in DOMAIN unified_reservation_station :
       LET s == unified_reservation_station[j] IN Busy(s) /\ rob[s].stage = "RENAME"
  /\ \A i, j \in DOMAIN unified_reservation_station :
       unified_reservation_station[i] = unified_reservation_station[j] => i = j
  /\ \A s \in unified_functional_units : Busy(s) /\ rob[s].stage = "EXECUTION"
  /\ \A s \in Slot : IsMemory(s) /\ Waiting(s) =>
       /\ Kind(s) = "STORE" => Kept(s) = Count(s)
       /\ \A p \in Place : Used(p) /\ Owner(p) = s => ~mob[p].uop_executed

\* What the fields of a place say of each other.
EntryOK(p) ==
  IF Used(p)
  THEN /\ ~mob[p].uop_executed => mob[p].status = "WAIT" /\ ~mob[p].sent
       /\ mob[p].status = "READY" => mob[p].sent
       /\ mob[p].processed => mob[p].status = "READY"
       /\ p[1] = "STORE" => ~mob[p].sent
       /\ mob[p].sent => mob[p].wait_mem_deps_number = 0 /\ rob[Owner(p)].sent
  ELSE /\ ~mob[p].uop_executed /\ ~mob[p].processed /\ ~mob[p].sent
       /\ mob[p].wait_mem_deps_number = 0

EntryInv == \A p \in Place : EntryOK(p)

\* A memory uop is done when none of its operations is left.
Open(s) == {p \in Place : Used(p) /\ Owner(p) = s /\ ~mob[p].processed}

DoneInv ==
  \A s \in Slot : IsMemory(s) =>
    /\ Kind(s) \in {"LOAD", "STORE"} =>
         (rob[s].stage = "COMMIT" <=> rob[s].waiting_mem_request = 0)
    /\ Kind(s) = "LOAD" => rob[s].waiting_mem_request = Cardinality(Open(s))
    /\ Kind(s) \in {"HIVE", "VIMA"} => (rob[s].stage = "COMMIT" <=> mob[Nth(s, 0)].processed)

\* The counters of executed operations.
ExecutedOf(op) == {p \in Place : p[1] = op /\ mob[p].uop_executed /\ ~mob[p].processed}

CountInv == \A op \in Memory : memory_executed[op] = Cardinality(ExecutedOf(op))

\* The kept candidates.
CandidateInv ==
  \A op \in Memory : oldest_to_send[op] /= NULL =>
    LET p == oldest_to_send[op]
    IN /\ p[1] = op /\ Used(p) /\ Sendable(p)
       /\ op = "STORE" => Distance(p) = 0

\* The arrays and the counts of the lines, and of the places.
RegDeps(lines) == [s \in Slot |-> lines[s].reg_deps_ptr_array]
RegWaits(lines) == [s \in Slot |-> lines[s].wait_reg_deps_number]
MemDeps(entries) == [p \in Place |-> entries[p].mem_deps_ptr_array]
MemWaits(entries) == [p \in Place |-> entries[p].wait_mem_deps_number]

\* Only a line that is pending has dependents, and only one that is in the
\* reservation station waits.
LineWaitInv ==
  /\ Agree(Slot, RegDeps(rob), RegWaits(rob))
  /\ \A s \in Slot : /\ rob[s].reg_deps_ptr_array /= <<>> => Busy(s) /\ Pending(s)
                     /\ rob[s].stage /= "RENAME" => rob[s].wait_reg_deps_number = 0

PlaceWaitInv ==
  /\ Agree(Place, MemDeps(mob), MemWaits(mob))
  /\ \A p \in Place : mob[p].mem_deps_ptr_array /= <<>> => Used(p) /\ ~mob[p].processed

\* The tables of the disambiguator name operations that are not done.
TableInv ==
  /\ \A b \in 0 .. LOAD_HASH_SIZE - 1 : load_hash[b] /= NULL =>
       LET p == load_hash[b]
       IN p[1] = "LOAD" /\ Used(p) /\ ~mob[p].processed /\ LoadHash(mob[p].access.address) = b
  /\ \A b \in 0 .. STORE_HASH_SIZE - 1 : store_hash[b] /= NULL =>
       LET p == store_hash[b]
       IN p[1] = "STORE" /\ Used(p) /\ ~mob[p].processed /\ StoreHash(mob[p].access.address) = b

\* The alias table names a pending uop that writes the register, the last one.
Named(s, r) ==
  /\ Busy(s) /\ Writes(s, r) /\ Pending(s)
  /\ \A x \in Slot : Busy(x) /\ Writes(x, r) => ~Before(s, x)

Unnamed(r) ==
  \A s \in Slot : Busy(s) /\ Writes(s, r) /\ Pending(s) =>
    \E x \in Slot : Busy(x) /\ Writes(x, r) /\ Before(s, x)

AliasInv ==
  \A r \in Register :
    /\ register_alias_table[r] /= NULL => Named(register_alias_table[r], r)
    /\ register_alias_table[r] = NULL => Unnamed(r)

-----------------------------------------------------------------------------
(* The ring of the reorder buffer.                                         *)

LEMMA AgeIs ==
  ASSUME RobShape, NEW s \in Slot
  PROVE  /\ Age(s) = IF s >= robStart THEN s - robStart ELSE s - robStart + ROB_SIZE
         /\ Age(s) \in 0 .. ROB_SIZE - 1
<1>1. ROB_SIZE \in Nat \ {0} /\ robStart \in 0 .. ROB_SIZE - 1 /\ s \in 0 .. ROB_SIZE - 1
  BY RobSize DEF RobShape, Slot
<1>2. Age(s) = IF s >= robStart THEN s - robStart ELSE s - robStart + ROB_SIZE
  BY <1>1, RingBack, Zenon DEF Age
<1> QED BY <1>1, <1>2

LEMMA AgeInjective ==
  ASSUME RobShape, NEW s \in Slot, NEW t \in Slot, Age(s) = Age(t)
  PROVE  s = t
<1>1. ROB_SIZE \in Nat \ {0} /\ robStart \in 0 .. ROB_SIZE - 1 /\ s \in 0 .. ROB_SIZE - 1 /\ t \in 0 .. ROB_SIZE - 1
  BY RobSize DEF RobShape, Slot
<1> QED BY <1>1, AgeIs

\* The line k places after the start has age k.
LEMMA SlotOfAge ==
  ASSUME RobShape, NEW k \in 0 .. ROB_SIZE - 1
  PROVE  (robStart + k) % ROB_SIZE \in Slot /\ Age((robStart + k) % ROB_SIZE) = k
<1> DEFINE s == (robStart + k) % ROB_SIZE
<1>1. ROB_SIZE \in Nat \ {0} /\ robStart \in 0 .. ROB_SIZE - 1 /\ k \in 0 .. ROB_SIZE
  BY RobSize DEF RobShape, Slot
<1>2. s = IF robStart + k < ROB_SIZE THEN robStart + k ELSE robStart + k - ROB_SIZE
  BY <1>1, Ring, Zenon
<1> HIDE DEF s
<1>3. s \in Slot
  BY <1>1, <1>2 DEF Slot
<1>4. Age(s) = k
  BY <1>1, <1>2, <1>3, AgeIs
<1> QED BY <1>3, <1>4 DEF s

\* The lines in use are those that hold a uop.
LEMMA LiveIsBusy ==
  ASSUME RobShape, RobInv
  PROVE  Live = {s \in Slot : Busy(s)}
<1>1. robUsed \in Nat /\ robUsed <= ROB_SIZE /\ ROB_SIZE \in Nat \ {0}
  BY RobSize DEF RobShape
<1>2. ASSUME NEW s \in Live PROVE s \in Slot /\ Busy(s)
  <2>1. PICK k \in 0 .. robUsed - 1 : s = (robStart + k) % ROB_SIZE
    BY DEF Live
  <2>2. k \in 0 .. ROB_SIZE - 1 /\ k < robUsed
    BY <1>1
  <2>3. s \in Slot /\ Age(s) < robUsed
    BY <2>1, <2>2, SlotOfAge
  <2> QED BY <2>3 DEF RobInv
<1>3. ASSUME NEW s \in Slot, Busy(s) PROVE s \in Live
  <2> DEFINE k == Age(s)
  <2>1. k \in 0 .. robUsed - 1 /\ k \in 0 .. ROB_SIZE - 1
    BY <1>1, <1>3, AgeIs DEF RobInv
  <2>2. s = (robStart + k) % ROB_SIZE
    <3> HIDE DEF k
    <3> QED BY <2>1, SlotOfAge, AgeInjective DEF k
  <2> HIDE DEF k
  <2> QED BY <2>1, <2>2 DEF Live
<1> QED BY <1>2, <1>3

\* Rename takes a line that is free.
LEMMA EndIsFree ==
  ASSUME RobShape, RobInv, robUsed < ROB_SIZE
  PROVE  robEnd \in Slot /\ ~Busy(robEnd) /\ Age(robEnd) = robUsed
<1>1. robUsed \in 0 .. ROB_SIZE - 1
  BY RobSize DEF RobShape
<1>2. robEnd \in Slot /\ Age(robEnd) = robUsed
  BY <1>1, SlotOfAge DEF robEnd
<1> QED BY <1>1, <1>2 DEF RobInv

\* Commit treats the oldest uop.
LEMMA HeadIsOldest ==
  ASSUME RobShape, RobInv, robUsed # 0
  PROVE  /\ robStart \in Slot /\ Busy(robStart) /\ Age(robStart) = 0
         /\ \A s \in Slot : Busy(s) /\ s # robStart => Before(robStart, s)
<1>1. robUsed \in Nat \ {0} /\ robStart \in Slot /\ renameCounter \in Nat /\ ROB_SIZE \in Nat
  BY RobSize, SizesAssumption DEF RobShape
<1>2. Age(robStart) = 0
  BY <1>1, AgeIs DEF Slot
<1>3. Busy(robStart)
  BY <1>1, <1>2 DEF RobInv
<1>4. ASSUME NEW s \in Slot, Busy(s), s # robStart PROVE Before(robStart, s)
  <2>1. Age(s) \in Nat /\ Age(s) # 0
    BY <1>1, <1>2, <1>4, AgeIs, AgeInjective
  <2>2. rob[s].uop_number = renameCounter - robUsed + Age(s)
    BY <1>4 DEF RobInv
  <2>3. rob[robStart].uop_number = renameCounter - robUsed + 0
    BY <1>1, <1>2, <1>3 DEF RobInv
  <2> QED BY <1>1, <2>1, <2>2, <2>3 DEF Before
<1> QED BY <1>1, <1>2, <1>3, <1>4

\* Uops are numbered, all below the next number.
LEMMA Numbers ==
  ASSUME RobShape, RobInv
  PROVE  /\ \A s \in Slot : rob[s].uop_number \in Nat
         /\ \A s \in Slot : Busy(s) => rob[s].uop_number < renameCounter
         /\ \A s, t \in Slot : Busy(s) /\ Busy(t) /\ s # t => Before(s, t) \/ Before(t, s)
<1>1. \A s \in Slot : rob[s].uop_number \in Nat
  BY DEF RobShape, LineShape
<1>2. robUsed \in Nat /\ renameCounter \in Nat /\ ROB_SIZE \in Nat
  BY RobSize, SizesAssumption DEF RobShape
<1>3. \A s \in Slot : Age(s) \in Int
  BY <1>2, AgeIs
<1>4. \A s \in Slot : Busy(s) => Age(s) < robUsed /\ rob[s].uop_number = renameCounter - robUsed + Age(s)
  BY DEF RobInv
<1>5. \A s, t \in Slot : Busy(s) /\ Busy(t) /\ s # t => Before(s, t) \/ Before(t, s)
  <2> TAKE s, t \in Slot
  <2> HAVE Busy(s) /\ Busy(t) /\ s # t
  <2>1. Age(s) # Age(t)
    BY AgeInjective
  <2> QED BY <1>2, <1>3, <1>4, <2>1 DEF Before
<1> QED BY <1>1, <1>2, <1>3, <1>4, <1>5

-----------------------------------------------------------------------------
(* Steps that neither rename, nor give places or lines back.               *)

\* What such a step leaves alone.
RobFrame ==
  /\ robStart' = robStart /\ robUsed' = robUsed /\ renameCounter' = renameCounter
  /\ \A s \in Slot : /\ rob'[s].uop = rob[s].uop /\ rob'[s].uop_number = rob[s].uop_number
                     /\ rob'[s].pos_mob = rob[s].pos_mob

StageFrame ==
  \A s \in Slot : /\ Busy(s) => rob'[s].stage # "DECODE"
                  /\ ~Busy(s) => rob'[s].stage = rob[s].stage /\ rob'[s].sent = rob[s].sent

PlaceFrame ==
  /\ mob_start' = mob_start /\ mob_used' = mob_used
  /\ \A p \in Place : /\ Used(p)' = Used(p)
                      /\ mob'[p].rob_ptr = mob[p].rob_ptr /\ mob'[p].access = mob[p].access

StoreFrame ==
  \A s \in Slot : IsMemory(s) /\ Kind(s) = "STORE" =>
                    rob'[s].waiting_mem_request = rob[s].waiting_mem_request

LEMMA FrameKeepsRob ==
  ASSUME RobInv, RobFrame, StageFrame
  PROVE  RobInv'
<1>1. \A s \in Slot : Busy(s)' = Busy(s) /\ Age(s)' = Age(s)
  BY DEF Busy, Age, RobFrame
<1> QED BY <1>1 DEF RobInv, RobFrame, StageFrame

LEMMA FrameSame ==
  ASSUME RobFrame, PlaceFrame, StoreFrame
  PROVE  /\ \A s \in Slot : /\ Busy(s)' = Busy(s) /\ IsMemory(s)' = IsMemory(s)
                            /\ Kind(s)' = Kind(s) /\ Count(s)' = Count(s)
                            /\ IsMemory(s) => Kept(s)' = Kept(s)
                            /\ \A i : Nth(s, i)' = Nth(s, i)
                            /\ Rank(s)' = Rank(s)
         /\ \A s, t \in Slot : Before(s, t)' = Before(s, t)
         /\ \A p : Distance(p)' = Distance(p)
         /\ \A p \in Place : Used(p)' = Used(p) /\ Owner(p)' = Owner(p)
<1>1. \A s \in Slot : /\ Busy(s)' = Busy(s) /\ IsMemory(s)' = IsMemory(s)
                      /\ Kind(s)' = Kind(s) /\ Count(s)' = Count(s)
  BY DEF Busy, IsMemory, Kind, Count, RobFrame
<1>2. \A s \in Slot : IsMemory(s) => Kept(s)' = Kept(s)
  BY <1>1 DEF Kept, StoreFrame
<1>3. \A s \in Slot : \A i : Nth(s, i)' = Nth(s, i)
  BY <1>1 DEF Nth, RobFrame
<1>4. \A p : Distance(p)' = Distance(p)
  BY DEF Distance, PlaceFrame
<1>5. \A s \in Slot : Rank(s)' = Rank(s)
  BY <1>1, <1>3, <1>4 DEF Rank
<1>6. \A s, t \in Slot : Before(s, t)' = Before(s, t)
  BY DEF Before, RobFrame
<1>7. \A p \in Place : Used(p)' = Used(p) /\ Owner(p)' = Owner(p)
  BY DEF PlaceFrame, Owner
<1> QED BY <1>1, <1>2, <1>3, <1>4, <1>5, <1>6, <1>7

LEMMA FrameKeepsPlaces ==
  ASSUME RobShape, MobShape, PlaceInv, OwnerInv, OrderInv, RobFrame, PlaceFrame, StoreFrame
  PROVE  PlaceInv' /\ OwnerInv' /\ OrderInv'
<1>1. PlaceInv'
  <2> SUFFICES ASSUME NEW p \in Place
               PROVE  /\ Used(p)' <=> Distance(p)' < mob_used'[p[1]]
                      /\ Used(p)' => /\ Owner(p)' \in Slot /\ IsMemory(Owner(p))' /\ Kind(Owner(p))' = p[1]
                                     /\ Rank(Owner(p))' - Kept(Owner(p))' < Distance(p)'
                                     /\ Distance(p)' <= Rank(Owner(p))'
    BY DEF PlaceInv
  <2>1. Used(p)' = Used(p) /\ Owner(p)' = Owner(p) /\ Distance(p)' = Distance(p) /\ mob_used' = mob_used
    BY FrameSame DEF PlaceFrame
  <2> DEFINE s == Owner(p)
  <2>2. Used(p) => s \in Slot /\ IsMemory(s) /\ Kind(s) = p[1] /\ Rank(s) - Kept(s) < Distance(p) /\ Distance(p) <= Rank(s)
    BY DEF PlaceInv
  <2>3. Used(p) => IsMemory(s)' = IsMemory(s) /\ Kind(s)' = Kind(s) /\ Rank(s)' = Rank(s) /\ Kept(s)' = Kept(s)
    BY <2>2, FrameSame
  <2> QED BY <2>1, <2>2, <2>3 DEF PlaceInv
<1>2. OwnerInv'
  <2> SUFFICES ASSUME NEW s \in Slot, IsMemory(s)'
               PROVE  /\ rob'[s].pos_mob \in 0 .. MOB[Kind(s)'] - 1
                      /\ Kept(s)' \in 0 .. Count(s)'
                      /\ Kept(s)' > 0 => Rank(s)' < mob_used'[Kind(s)'] /\ Kept(s)' <= Rank(s)' + 1
                      /\ \A i \in 0 .. Count(s)' - 1 :
                           Count(s)' - Kept(s)' <= i =>
                             /\ mob'[Nth(s, i)'].rob_ptr = s
                             /\ mob'[Nth(s, i)'].access = rob'[s].uop.accesses[i + 1]
    BY DEF OwnerInv
  <2>1. /\ IsMemory(s) /\ Kind(s)' = Kind(s) /\ Count(s)' = Count(s) /\ Kept(s)' = Kept(s)
        /\ Rank(s)' = Rank(s) /\ mob_used' = mob_used /\ rob'[s].pos_mob = rob[s].pos_mob
        /\ rob'[s].uop = rob[s].uop /\ \A i : Nth(s, i)' = Nth(s, i)
    BY FrameSame DEF PlaceFrame, RobFrame
  <2>2. /\ rob[s].pos_mob \in 0 .. MOB[Kind(s)] - 1
        /\ Kept(s) \in 0 .. Count(s)
        /\ Kept(s) > 0 => Rank(s) < mob_used[Kind(s)] /\ Kept(s) <= Rank(s) + 1
        /\ \A i \in 0 .. Count(s) - 1 :
             Count(s) - Kept(s) <= i => /\ mob[Nth(s, i)].rob_ptr = s
                                        /\ mob[Nth(s, i)].access = rob[s].uop.accesses[i + 1]
    BY <2>1 DEF OwnerInv
  <2>3. Kind(s) \in Memory /\ Count(s) \in 1 .. MOB[Kind(s)]
    BY <2>1, UopAssumption DEF IsMemory, Kind, Count, Busy, RobShape, LineShape
  <2>4. \A i \in 0 .. Count(s) - 1 : Nth(s, i) \in Place
    BY <2>2, <2>3, MobSize, PlaceOfIs DEF Nth
  <2>5. \A i \in 0 .. Count(s) - 1 : /\ mob'[Nth(s, i)].rob_ptr = mob[Nth(s, i)].rob_ptr
                                     /\ mob'[Nth(s, i)].access = mob[Nth(s, i)].access
    BY <2>4 DEF PlaceFrame
  <2> QED BY <2>1, <2>2, <2>5
<1>3. OrderInv'
  <2> SUFFICES ASSUME NEW s \in Slot, NEW t \in Slot, IsMemory(s)', IsMemory(t)', Kind(s)' = Kind(t)',
                      Kept(s)' > 0, Kept(t)' > 0, Before(s, t)'
               PROVE  Rank(s)' + Kept(t)' <= Rank(t)'
    BY DEF OrderInv
  <2>1. /\ IsMemory(s) /\ IsMemory(t) /\ Kind(s) = Kind(t) /\ Kept(s) > 0 /\ Kept(t) > 0 /\ Before(s, t)
        /\ Rank(s)' = Rank(s) /\ Rank(t)' = Rank(t) /\ Kept(t)' = Kept(t)
    BY FrameSame
  <2> QED BY <2>1 DEF OrderInv
<1> QED BY <1>1, <1>2, <1>3

-----------------------------------------------------------------------------
(* The places of a memory uop.                                             *)

LEMMA MemoryUop ==
  ASSUME RobShape, MobShape, OwnerInv, NEW s \in Slot, IsMemory(s)
  PROVE  /\ Kind(s) \in Memory /\ Count(s) \in 1 .. MOB[Kind(s)] /\ rob[s].uop \in Uop
         /\ MOB[Kind(s)] \in Nat \ {0}
         /\ rob[s].pos_mob \in 0 .. MOB[Kind(s)] - 1
         /\ Kept(s) \in 0 .. Count(s)
         /\ \A i \in 0 .. Count(s) - 1 : Nth(s, i) \in Place /\ Nth(s, i)[1] = Kind(s)
         /\ Rank(s) \in 0 .. MOB[Kind(s)] - 1
<1>1. Kind(s) \in Memory /\ Count(s) \in 1 .. MOB[Kind(s)] /\ rob[s].uop \in Uop
  BY UopAssumption DEF IsMemory, Kind, Count, Busy, RobShape, LineShape
<1>2. MOB[Kind(s)] \in Nat \ {0}
  BY <1>1, MobSize
<1>3. rob[s].pos_mob \in 0 .. MOB[Kind(s)] - 1 /\ Kept(s) \in 0 .. Count(s)
  BY DEF OwnerInv
<1>4. \A i \in 0 .. Count(s) - 1 : Nth(s, i) \in Place
  BY <1>1, <1>2, <1>3, PlaceOfIs DEF Nth
<1>5. \A i : Nth(s, i)[1] = Kind(s)
  BY DEF Nth, PlaceOf
<1>6. Nth(s, Count(s) - 1) \in Place /\ Nth(s, Count(s) - 1)[1] = Kind(s)
  BY <1>1, <1>4, <1>5
<1>7. Rank(s) \in 0 .. MOB[Kind(s)] - 1
  BY <1>6, DistanceIs DEF Rank
<1> QED BY <1>1, <1>2, <1>3, <1>4, <1>5, <1>7

LEMMA KeptPlace ==
  ASSUME RobShape, MobShape, PlaceInv, OwnerInv, NEW s \in Slot, IsMemory(s),
         NEW i \in 0 .. Count(s) - 1, Count(s) - Kept(s) <= i
  PROVE  /\ Nth(s, i) \in Place /\ Nth(s, i)[1] = Kind(s) /\ Used(Nth(s, i)) /\ Owner(Nth(s, i)) = s
         /\ Distance(Nth(s, i)) = Rank(s) - (Count(s) - 1 - i)
         /\ mob[Nth(s, i)].access = rob[s].uop.accesses[i + 1]
<1> DEFINE n == Count(s)
           j == n - 1 - i
<1>1. /\ Kind(s) \in Memory /\ n \in 1 .. MOB[Kind(s)] /\ MOB[Kind(s)] \in Nat \ {0}
      /\ rob[s].pos_mob \in 0 .. MOB[Kind(s)] - 1 /\ Kept(s) \in 0 .. n
      /\ Nth(s, i) \in Place /\ Nth(s, i)[1] = Kind(s) /\ Rank(s) \in 0 .. MOB[Kind(s)] - 1
  BY MemoryUop
<1>2. Owner(Nth(s, i)) = s /\ mob[Nth(s, i)].access = rob[s].uop.accesses[i + 1]
  BY DEF OwnerInv, Owner
<1>3. Kept(s) > 0
  BY <1>1
<1>4. Rank(s) < mob_used[Kind(s)] /\ Kept(s) <= Rank(s) + 1
  BY <1>3 DEF OwnerInv
<1>5. n - 1 \in 0 .. MOB[Kind(s)] - 1 /\ j \in 0 .. n - 1 /\ j <= Rank(s) /\ (n - 1) - j = i
  BY <1>1, <1>4
<1>6. Distance(Nth(s, i)) = Rank(s) - j
  <2>1. Rank(s) = Distance(PlaceOf(Kind(s), rob[s].pos_mob, n - 1))
    BY DEF Rank, Nth
  <2>2. Distance(PlaceOf(Kind(s), rob[s].pos_mob, (n - 1) - j)) = Distance(PlaceOf(Kind(s), rob[s].pos_mob, n - 1)) - j
    <3> HIDE DEF n, j
    <3> QED BY <1>1, <1>5, <2>1, DistanceBefore
  <2> HIDE DEF j, n
  <2> QED BY <1>5, <2>1, <2>2 DEF Nth
<1>7. Distance(Nth(s, i)) < mob_used[Kind(s)]
  <2>1. mob_used[Kind(s)] \in Nat
    BY <1>1 DEF MobShape
  <2> QED BY <1>1, <1>4, <1>5, <1>6, <2>1
<1>8. Used(Nth(s, i))
  BY <1>1, <1>7 DEF PlaceInv
<1> QED BY <1>1, <1>2, <1>6, <1>8

LEMMA OwnedPlace ==
  ASSUME RobShape, MobShape, PlaceInv, OwnerInv, NEW p \in Place, Used(p)
  PROVE  /\ Owner(p) \in Slot /\ IsMemory(Owner(p)) /\ Kind(Owner(p)) = p[1]
         /\ \E i \in 0 .. Count(Owner(p)) - 1 :
              Count(Owner(p)) - Kept(Owner(p)) <= i /\ p = Nth(Owner(p), i)
<1> DEFINE s == Owner(p)
           i == Count(s) - 1 - (Rank(s) - Distance(p))
<1>1. s \in Slot /\ IsMemory(s) /\ Kind(s) = p[1] /\ Rank(s) - Kept(s) < Distance(p) /\ Distance(p) <= Rank(s)
  BY DEF PlaceInv
<1> HIDE DEF s
<1>2. /\ Count(s) \in 1 .. MOB[Kind(s)] /\ Kept(s) \in 0 .. Count(s) /\ MOB[Kind(s)] \in Nat
      /\ Rank(s) \in 0 .. MOB[Kind(s)] - 1 /\ Distance(p) \in Int
  BY <1>1, MemoryUop, DistanceIs
<1>3. i \in 0 .. Count(s) - 1 /\ Count(s) - Kept(s) <= i /\ Rank(s) - (Count(s) - 1 - i) = Distance(p)
  BY <1>1, <1>2
<1> HIDE DEF i
<1>4. Nth(s, i) \in Place /\ Nth(s, i)[1] = Kind(s) /\ Distance(Nth(s, i)) = Distance(p)
  BY <1>1, <1>3, KeptPlace
<1>5. p = Nth(s, i)
  BY <1>1, <1>4, DistanceInjective
<1> QED BY <1>1, <1>3, <1>5 DEF s

\* A uop that keeps all of its places owns them.
LEMMA PlacesOfIs ==
  ASSUME RobShape, MobShape, PlaceInv, OwnerInv, NEW s \in Slot, IsMemory(s), Kept(s) = Count(s)
  PROVE  ToSet(PlacesOf(s)) = {p \in Place : Used(p) /\ Owner(p) = s}
<1>1. Count(s) \in Nat
  BY MemoryUop
<1>2. PlacesOf(s) = [k \in 1 .. Count(s) |-> Nth(s, k - 1)]
  BY DEF PlacesOf, Count, Nth, Kind
<1>3. ToSet(PlacesOf(s)) = {Nth(s, k - 1) : k \in 1 .. Count(s)}
  BY <1>2 DEF ToSet
<1>4. ASSUME NEW p \in ToSet(PlacesOf(s)) PROVE p \in Place /\ Used(p) /\ Owner(p) = s
  <2>1. PICK k \in 1 .. Count(s) : p = Nth(s, k - 1)
    BY <1>3
  <2>2. k - 1 \in 0 .. Count(s) - 1 /\ Count(s) - Kept(s) <= k - 1
    BY <1>1
  <2> QED BY <2>1, <2>2, KeptPlace
<1>5. ASSUME NEW p \in Place, Used(p), Owner(p) = s PROVE p \in ToSet(PlacesOf(s))
  <2>1. PICK i \in 0 .. Count(s) - 1 : p = Nth(s, i)
    BY <1>5, OwnedPlace
  <2>2. i + 1 \in 1 .. Count(s) /\ (i + 1) - 1 = i
    BY <1>1
  <2> QED BY <1>3, <2>1, <2>2
<1> QED BY <1>4, <1>5

-----------------------------------------------------------------------------
(* Steps that move a line on, or complete it.                              *)

\* Line s, if it is done, lets its dependents go and gives its registers up.
LineStep(s, done) ==
  /\ rob' \in [Slot -> LineShape]
  /\ robStart' = robStart /\ robUsed' = robUsed /\ renameCounter' = renameCounter
  /\ \A x \in Slot :
       /\ rob'[x].uop = rob[x].uop /\ rob'[x].uop_number = rob[x].uop_number
       /\ rob'[x].pos_mob = rob[x].pos_mob
       /\ rob'[x].stage = IF done /\ x = s THEN "COMMIT" ELSE rob[x].stage
       /\ rob'[x].wait_reg_deps_number =
            IF done THEN rob[x].wait_reg_deps_number - Times(x, rob[s].reg_deps_ptr_array)
            ELSE rob[x].wait_reg_deps_number
       /\ rob'[x].reg_deps_ptr_array = IF done /\ x = s THEN <<>> ELSE rob[x].reg_deps_ptr_array
       /\ ~Busy(x) => rob'[x].sent = rob[x].sent
       /\ rob[x].sent => rob'[x].sent
  /\ register_alias_table' =
       [r \in Register |->
          IF /\ done /\ Writes(s, r) /\ register_alias_table[r] /= NULL
             /\ rob[register_alias_table[r]].uop_number = rob[s].uop_number
          THEN NULL ELSE register_alias_table[r]]

LEMMA SlotFinite == IsFiniteSet(Slot)
BY RobSize, FS_Interval DEF Slot

LEMMA RegDepsType ==
  ASSUME RobShape
  PROVE  RegDeps(rob) \in [Slot -> Seq(Slot)] /\ \A s \in Slot : rob[s].reg_deps_ptr_array \in Seq(Slot)
<1>1. \A s \in Slot : rob[s].reg_deps_ptr_array \in Seq(Slot)
  BY DEF RobShape, LineShape
<1> QED BY <1>1 DEF RegDeps

LEMMA LineStepFrame ==
  ASSUME RobShape, StageShape, RobInv, NEW s \in Slot, NEW done \in BOOLEAN, LineStep(s, done), Busy(s)
  PROVE  /\ RobShape' /\ RobFrame /\ StageFrame /\ RobInv'
         /\ register_alias_table' \in [Register -> Slot \cup {NULL}]
<1>1. RobShape'
  BY DEF RobShape, LineStep
<1>2. RobFrame
  BY DEF RobFrame, LineStep
<1>3. StageFrame
  <2>1. \A x \in Slot : /\ rob'[x].stage = IF done /\ x = s THEN "COMMIT" ELSE rob[x].stage
                        /\ ~Busy(x) => rob'[x].sent = rob[x].sent
    BY DEF LineStep
  <2>2. \A x \in Slot : Busy(x) => rob[x].stage # "DECODE"
    BY DEF RobInv
  <2> QED BY <2>1, <2>2 DEF StageFrame
<1>4. register_alias_table' \in [Register -> Slot \cup {NULL}]
  BY DEF LineStep, StageShape
<1> QED BY <1>1, <1>2, <1>3, <1>4, FrameKeepsRob

LEMMA LineStepWaits ==
  ASSUME RobShape, RobInv, LineWaitInv, NEW s \in Slot, NEW done \in BOOLEAN, LineStep(s, done),
         Busy(s), done => rob[s].stage = "EXECUTION"
  PROVE  LineWaitInv'
<1>1. Agree(Slot, RegDeps(rob'), RegWaits(rob'))
  <2>1. CASE done
    <3>1. \A x \in Slot : RegDeps(rob')[x] = IF x = s THEN <<>> ELSE RegDeps(rob)[x]
      BY <2>1 DEF LineStep, RegDeps
    <3>2. \A x \in Slot : RegWaits(rob')[x] = RegWaits(rob)[x] - Times(x, RegDeps(rob)[s])
      BY <2>1 DEF LineStep, RegDeps, RegWaits
    <3>3. Agree(Slot, RegDeps(rob), RegWaits(rob))
      BY DEF LineWaitInv
    <3> QED BY <3>1, <3>2, <3>3, SlotFinite, RegDepsType, EmptyAgrees
  <2>2. CASE ~done
    <3>1. RegDeps(rob') = RegDeps(rob) /\ RegWaits(rob') = RegWaits(rob)
      BY <2>2 DEF LineStep, RegDeps, RegWaits
    <3> QED BY <3>1 DEF LineWaitInv
  <2> QED BY <2>1, <2>2
<1>2. ASSUME NEW x \in Slot, rob'[x].reg_deps_ptr_array # <<>>
      PROVE  Busy(x)' /\ Pending(x)'
  <2>1. ~(done /\ x = s) /\ rob[x].reg_deps_ptr_array # <<>>
    BY <1>2 DEF LineStep
  <2>2. Busy(x) /\ Pending(x)
    BY <2>1 DEF LineWaitInv
  <2> QED BY <2>1, <2>2 DEF LineStep, Busy, Pending
<1>3. ASSUME NEW x \in Slot, rob'[x].stage # "RENAME"
      PROVE  rob'[x].wait_reg_deps_number = 0
  <2>1. rob[x].stage # "RENAME"
    BY <1>3 DEF LineStep
  <2>2. rob[x].wait_reg_deps_number = 0
    BY <2>1 DEF LineWaitInv
  <2>3. Agree(Slot, RegDeps(rob), RegWaits(rob)) /\ RegWaits(rob)[x] = 0 /\ RegDeps(rob)[s] = rob[s].reg_deps_ptr_array
    BY <2>2 DEF LineWaitInv, RegWaits, RegDeps
  <2>4. Times(x, rob[s].reg_deps_ptr_array) = 0
    BY <2>3, SlotFinite, RegDepsType, PointedAt
  <2> QED BY <2>2, <2>4 DEF LineStep
<1> QED BY <1>1, <1>2, <1>3 DEF LineWaitInv

LEMMA LineStepAlias ==
  ASSUME RobShape, StageShape, RobInv, AliasInv, NEW s \in Slot, NEW done \in BOOLEAN, LineStep(s, done),
         Busy(s), done => Pending(s)
  PROVE  AliasInv'
<1>1. \A x \in Slot : /\ Busy(x)' = Busy(x) /\ \A r : Writes(x, r)' = Writes(x, r)
                      /\ Pending(x)' <=> Pending(x) /\ ~(done /\ x = s)
  BY DEF LineStep, Busy, Writes, Pending
<1>2. \A x, y \in Slot : Before(x, y)' = Before(x, y)
  BY DEF LineStep, Before
<1> SUFFICES ASSUME NEW r \in Register, NEW b, b = register_alias_table'[r]
             PROVE  (b # NULL => Named(b, r)') /\ (b = NULL => Unnamed(r)')
  BY DEF AliasInv, Named, Busy, Writes, Pending, Before
<1>3. PICK a \in Slot \cup {NULL} : a = register_alias_table[r]
  BY DEF StageShape
<1>0. NULL \notin Slot
  BY NullAssumption, RobSize DEF Slot
<1>4. b = IF done /\ Writes(s, r) /\ a # NULL /\ rob[a].uop_number = rob[s].uop_number THEN NULL ELSE a
  BY <1>3 DEF LineStep
<1>5. a # NULL => /\ Busy(a) /\ Writes(a, r) /\ Pending(a)
                  /\ \A x \in Slot : Busy(x) /\ Writes(x, r) => ~Before(a, x)
  BY <1>3 DEF AliasInv, Named
<1>6. a = NULL => \A x \in Slot : Busy(x) /\ Writes(x, r) /\ Pending(x) =>
                    \E y \in Slot : Busy(y) /\ Writes(y, r) /\ Before(x, y)
  BY <1>3 DEF AliasInv, Unnamed
<1>7. \A x, y \in Slot : Busy(x) /\ Busy(y) /\ x # y => Before(x, y) \/ Before(y, x)
  BY Numbers
<1>8. CASE b # NULL
  <2>1. b = a /\ a # NULL /\ a \in Slot
    BY <1>0, <1>4, <1>8
  <2>2. ~(done /\ a = s)
    BY <1>4, <1>5, <1>8, <2>1
  <2>3. Busy(a)' /\ Writes(a, r)' /\ Pending(a)'
    BY <1>1, <1>5, <2>1, <2>2
  <2>4. \A x \in Slot : Busy(x)' /\ Writes(x, r)' => ~Before(a, x)'
    BY <1>1, <1>2, <1>5, <2>1
  <2> QED BY <1>8, <2>1, <2>3, <2>4 DEF Named
<1>9. CASE b = NULL /\ a = NULL
  BY <1>1, <1>2, <1>6, <1>9 DEF Unnamed
<1>10. CASE b = NULL /\ a # NULL
  <2>1. a \in Slot /\ done /\ rob[a].uop_number = rob[s].uop_number
    BY <1>0, <1>4, <1>10
  <2>2. ~Before(a, s) /\ ~Before(s, a)
    BY <2>1, Numbers DEF Before
  <2>3. a = s
    BY <1>5, <1>7, <1>10, <2>1, <2>2
  <2>4. \A x \in Slot : Busy(x) /\ Writes(x, r) /\ x # s => Before(x, s)
    BY <1>5, <1>7, <1>10, <2>3
  <2>5. \A x \in Slot : Busy(x)' /\ Writes(x, r)' /\ Pending(x)' => Busy(s)' /\ Writes(s, r)' /\ Before(x, s)'
    BY <1>1, <1>2, <1>5, <1>10, <2>1, <2>3, <2>4
  <2> QED BY <1>10, <2>5 DEF Unnamed
<1> QED BY <1>8, <1>9, <1>10

\* Lines that differ from those of the reorder buffer in what a memory
\* operation says of itself only.
LineBase(lines) ==
  /\ lines \in [Slot -> LineShape]
  /\ \A x \in Slot :
       /\ lines[x].uop = rob[x].uop /\ lines[x].uop_number = rob[x].uop_number
       /\ lines[x].pos_mob = rob[x].pos_mob
       /\ lines[x].wait_reg_deps_number = rob[x].wait_reg_deps_number
       /\ lines[x].reg_deps_ptr_array = rob[x].reg_deps_ptr_array
       /\ ~Busy(x) => lines[x].sent = rob[x].sent
       /\ rob[x].sent => lines[x].sent

LEMMA SolvedIs ==
  ASSUME NEW lines \in [Slot -> LineShape], NEW s \in Slot, NEW g, g = Solved(lines, s)
  PROVE  /\ g \in [Slot -> LineShape]
         /\ \A x \in Slot :
              /\ g[x].uop = lines[x].uop /\ g[x].uop_number = lines[x].uop_number
              /\ g[x].pos_mob = lines[x].pos_mob /\ g[x].stage = lines[x].stage
              /\ g[x].waiting_mem_request = lines[x].waiting_mem_request /\ g[x].sent = lines[x].sent
              /\ g[x].wait_reg_deps_number = lines[x].wait_reg_deps_number - Times(x, lines[s].reg_deps_ptr_array)
              /\ g[x].reg_deps_ptr_array = IF x = s THEN <<>> ELSE lines[x].reg_deps_ptr_array
<1> DEFINE a == lines[s].reg_deps_ptr_array
<1>1. a \in Seq(Slot)
  BY DEF LineShape
<1>2. \A x \in Slot : Times(x, a) \in Nat
  BY <1>1, TimesIs
<1>3. g = [x \in Slot |->
             [lines[x] EXCEPT
                !.wait_reg_deps_number = @ - Times(x, a),
                !.reg_deps_ptr_array = IF x = s THEN <<>> ELSE @]]
  BY DEF Solved
<1> HIDE DEF a
<1>4. ASSUME NEW x \in Slot
      PROVE  /\ g[x] \in LineShape
             /\ g[x].uop = lines[x].uop /\ g[x].uop_number = lines[x].uop_number
             /\ g[x].pos_mob = lines[x].pos_mob /\ g[x].stage = lines[x].stage
             /\ g[x].waiting_mem_request = lines[x].waiting_mem_request /\ g[x].sent = lines[x].sent
             /\ g[x].wait_reg_deps_number = lines[x].wait_reg_deps_number - Times(x, a)
             /\ g[x].reg_deps_ptr_array = IF x = s THEN <<>> ELSE lines[x].reg_deps_ptr_array
  <2>1. lines[x] \in LineShape /\ Times(x, a) \in Nat
    BY <1>2
  <2>2. g[x] = [lines[x] EXCEPT
                !.wait_reg_deps_number = @ - Times(x, a),
                !.reg_deps_ptr_array = IF x = s THEN <<>> ELSE @]
    BY <1>3
  <2>3. /\ g[x].uop = lines[x].uop /\ g[x].uop_number = lines[x].uop_number
        /\ g[x].pos_mob = lines[x].pos_mob /\ g[x].stage = lines[x].stage
        /\ g[x].waiting_mem_request = lines[x].waiting_mem_request /\ g[x].sent = lines[x].sent
    BY <2>1, <2>2 DEF LineShape
  <2>4. g[x].wait_reg_deps_number = lines[x].wait_reg_deps_number - Times(x, a)
    BY <2>1, <2>2 DEF LineShape
  <2>5. CASE x = s
    <3>1. g[x] = [lines[x] EXCEPT !.wait_reg_deps_number = @ - Times(x, a), !.reg_deps_ptr_array = <<>>]
      BY <2>2, <2>5
    <3>2. lines[x].wait_reg_deps_number - Times(x, a) \in Int /\ <<>> \in Seq(Slot)
      BY <2>1 DEF LineShape
    <3>3. g[x].reg_deps_ptr_array = <<>>
      BY <2>1, <3>1 DEF LineShape
    <3>4. g[x] \in LineShape
      BY <2>1, <3>1, <3>2 DEF LineShape
    <3> QED BY <2>3, <2>4, <2>5, <3>3, <3>4
  <2>6. CASE x # s
    <3>1. g[x] = [lines[x] EXCEPT !.wait_reg_deps_number = @ - Times(x, a)]
      BY <2>1, <2>2, <2>6 DEF LineShape
    <3>2. lines[x].wait_reg_deps_number - Times(x, a) \in Int
      BY <2>1 DEF LineShape
    <3>3. g[x].reg_deps_ptr_array = lines[x].reg_deps_ptr_array
      BY <2>1, <3>1 DEF LineShape
    <3>4. g[x] \in LineShape
      BY <2>1, <3>1, <3>2 DEF LineShape
    <3> QED BY <2>3, <2>4, <2>6, <3>3, <3>4
  <2> QED BY <2>5, <2>6
<1>5. g \in [Slot -> LineShape]
  BY <1>3, <1>4
<1> QED BY <1>4, <1>5 DEF a

LEMMA SolvesLine ==
  ASSUME StageShape, NEW s \in Slot, NEW lines, LineBase(lines),
         \A x \in Slot : lines[x].stage = IF x = s THEN "COMMIT" ELSE rob[x].stage,
         solve_registers_dependency(lines, s), UNCHANGED <<robStart, robUsed, renameCounter>>
  PROVE  /\ LineStep(s, TRUE)
         /\ \A x \in Slot : /\ rob'[x].waiting_mem_request = lines[x].waiting_mem_request
                            /\ rob'[x].sent = lines[x].sent
<1>1. rob' = Solved(lines, s) /\ register_alias_table' = Forgotten(lines, s)
  BY DEF solve_registers_dependency
<1>2. lines \in [Slot -> LineShape]
  BY DEF LineBase
<1>3. /\ rob' \in [Slot -> LineShape]
      /\ \A x \in Slot :
           /\ rob'[x].uop = lines[x].uop /\ rob'[x].uop_number = lines[x].uop_number
           /\ rob'[x].pos_mob = lines[x].pos_mob /\ rob'[x].stage = lines[x].stage
           /\ rob'[x].waiting_mem_request = lines[x].waiting_mem_request /\ rob'[x].sent = lines[x].sent
           /\ rob'[x].wait_reg_deps_number = lines[x].wait_reg_deps_number - Times(x, lines[s].reg_deps_ptr_array)
           /\ rob'[x].reg_deps_ptr_array = IF x = s THEN <<>> ELSE lines[x].reg_deps_ptr_array
  BY <1>1, <1>2, SolvedIs
<1>4. \A x \in Slot :
       /\ rob'[x].uop = rob[x].uop /\ rob'[x].uop_number = rob[x].uop_number
       /\ rob'[x].pos_mob = rob[x].pos_mob
       /\ rob'[x].stage = IF x = s THEN "COMMIT" ELSE rob[x].stage
       /\ rob'[x].wait_reg_deps_number = rob[x].wait_reg_deps_number - Times(x, rob[s].reg_deps_ptr_array)
       /\ rob'[x].reg_deps_ptr_array = IF x = s THEN <<>> ELSE rob[x].reg_deps_ptr_array
       /\ ~Busy(x) => rob'[x].sent = rob[x].sent
       /\ rob[x].sent => rob'[x].sent
  BY <1>3 DEF LineBase
<1>5. register_alias_table' =
       [r \in Register |->
          IF /\ Writes(s, r) /\ register_alias_table[r] /= NULL
             /\ rob[register_alias_table[r]].uop_number = rob[s].uop_number
          THEN NULL ELSE register_alias_table[r]]
  <2>1. \A x \in Slot : lines[x].uop = rob[x].uop /\ lines[x].uop_number = rob[x].uop_number
    BY DEF LineBase
  <2>2. \A r \in Register : register_alias_table[r] # NULL => register_alias_table[r] \in Slot
    BY DEF StageShape
  <2> QED BY <1>1, <2>1, <2>2 DEF Forgotten, Writes
<1>6. LineStep(s, TRUE)
  BY <1>3, <1>4, <1>5 DEF LineStep
<1> QED BY <1>3, <1>6

LEMMA LineBaseStep ==
  ASSUME RobShape, StageShape, NEW s \in Slot, LineBase(rob'), \A x \in Slot : rob'[x].stage = rob[x].stage,
         UNCHANGED <<robStart, robUsed, renameCounter, register_alias_table>>
  PROVE  LineStep(s, FALSE)
<1>1. register_alias_table' = [r \in Register |-> register_alias_table[r]]
  BY DEF StageShape
<1> QED BY <1>1 DEF LineStep, LineBase

LEMMA CompleteOneIs ==
  ASSUME RobShape, StageShape, NEW s \in Slot, NEW lines, LineBase(lines),
         \A x \in Slot : lines[x].stage = rob[x].stage /\ lines[x].waiting_mem_request = rob[x].waiting_mem_request,
         CompleteOne(lines, s), UNCHANGED <<robStart, robUsed, renameCounter>>
  PROVE  /\ LineStep(s, rob[s].waiting_mem_request - 1 = 0)
         /\ \A x \in Slot : /\ rob'[x].waiting_mem_request =
                                 IF x = s THEN rob[x].waiting_mem_request - 1 ELSE rob[x].waiting_mem_request
                            /\ rob'[x].sent = lines[x].sent
<1> DEFINE left == rob[s].waiting_mem_request - 1
<1>1. PICK after : after = OneDone(lines, s)
  OBVIOUS
<1>2. lines \in [Slot -> LineShape] /\ left \in Int /\ lines[s].waiting_mem_request - 1 = left
  BY DEF LineBase, RobShape, LineShape
<1> HIDE DEF left
<1>3. /\ after \in [Slot -> LineShape]
      /\ \A x \in Slot :
           /\ after[x].uop = lines[x].uop /\ after[x].uop_number = lines[x].uop_number
           /\ after[x].pos_mob = lines[x].pos_mob
           /\ after[x].stage = IF x = s /\ left = 0 THEN "COMMIT" ELSE lines[x].stage
           /\ after[x].waiting_mem_request = (IF x = s THEN left ELSE lines[x].waiting_mem_request)
           /\ after[x].sent = lines[x].sent
           /\ after[x].wait_reg_deps_number = lines[x].wait_reg_deps_number
           /\ after[x].reg_deps_ptr_array = lines[x].reg_deps_ptr_array
  <2>1. after = [lines EXCEPT ![s] = [lines[s] EXCEPT !.waiting_mem_request = left,
                                                      !.stage = IF left = 0 THEN "COMMIT" ELSE @]]
    BY <1>1, <1>2, Zenon DEF OneDone
  <2>2. lines[s] \in LineShape
    BY <1>2
  <2> QED BY <1>2, <2>1, <2>2 DEF LineShape
<1>4. LineBase(after)
  BY <1>3 DEF LineBase
<1>5. IF after[s].waiting_mem_request = 0
      THEN solve_registers_dependency(after, s)
      ELSE rob' = after /\ register_alias_table' = register_alias_table
  BY <1>1, Zenon DEF CompleteOne
<1>6. CASE left = 0
  <2>1. solve_registers_dependency(after, s)
    BY <1>3, <1>5, <1>6
  <2>2. \A x \in Slot : after[x].stage = IF x = s THEN "COMMIT" ELSE rob[x].stage
    BY <1>3, <1>6
  <2>3. /\ LineStep(s, TRUE)
        /\ \A x \in Slot : rob'[x].waiting_mem_request = after[x].waiting_mem_request /\ rob'[x].sent = after[x].sent
    BY <1>4, <2>1, <2>2, SolvesLine
  <2>4. (rob[s].waiting_mem_request - 1 = 0) = TRUE
    BY <1>6 DEF left
  <2>5. LineStep(s, rob[s].waiting_mem_request - 1 = 0)
    BY <2>3, <2>4, Zenon
  <2> QED BY <1>3, <2>3, <2>5 DEF left
<1>7. CASE left # 0
  <2>1. rob' = after /\ register_alias_table' = register_alias_table
    BY <1>3, <1>5, <1>7
  <2>2. \A x \in Slot : rob'[x].stage = rob[x].stage
    BY <1>3, <1>7, <2>1
  <2>3. LineStep(s, FALSE)
    BY <1>4, <2>1, <2>2, LineBaseStep
  <2>4. (rob[s].waiting_mem_request - 1 = 0) = FALSE
    BY <1>7 DEF left
  <2>5. LineStep(s, rob[s].waiting_mem_request - 1 = 0)
    BY <2>3, <2>4, Zenon
  <2> QED BY <1>3, <2>1, <2>5 DEF left
<1> QED BY <1>6, <1>7

-----------------------------------------------------------------------------
(* Steps of the places of the memory order buffers.                        *)

LEMMA EntryTypes ==
  ASSUME NEW entries \in [Place -> EntryShape], NEW x \in Place
  PROVE  /\ entries[x] \in EntryShape
         /\ entries[x].mem_deps_ptr_array \in Seq(Place) /\ entries[x].wait_mem_deps_number \in Int
         /\ entries[x].status \in {"FREE", "WAIT", "READY"} /\ entries[x].sent \in BOOLEAN
         /\ entries[x].processed \in BOOLEAN /\ entries[x].uop_executed \in BOOLEAN
         /\ entries[x].rob_ptr \in Slot \cup {NULL}
         /\ entries[x].access \in [address : Nat, size : Nat] \cup {NULL}
<1>1. entries[x] \in EntryShape
  OBVIOUS
<1> QED BY <1>1 DEF EntryShape

LEMMA SolveIs ==
  ASSUME NEW entries \in [Place -> EntryShape], NEW p \in Place,
         NEW d, d = solve_memory_dependences(order(entries), p)
  PROVE  /\ d.mob \in [Place -> EntryShape]
         /\ \A x \in Place :
              /\ d.mob[x].rob_ptr = entries[x].rob_ptr /\ d.mob[x].access = entries[x].access
              /\ d.mob[x].uop_executed = entries[x].uop_executed /\ d.mob[x].processed = entries[x].processed
              /\ d.mob[x].wait_mem_deps_number = StillWaits(entries, p, x)
              /\ d.mob[x].mem_deps_ptr_array = IF x = p THEN <<>> ELSE entries[x].mem_deps_ptr_array
              /\ d.mob[x].status = IF x \in Forwarded(entries, p) THEN "READY" ELSE entries[x].status
              /\ d.mob[x].sent = (entries[x].sent \/ x \in Forwarded(entries, p))
         /\ d.load_hash = IF p[1] = "LOAD" THEN Forget(load_hash, LoadHash(entries[p].access.address), p) ELSE load_hash
         /\ d.store_hash = IF p[1] = "LOAD" THEN store_hash ELSE Forget(store_hash, StoreHash(entries[p].access.address), p)
<1>0. order(entries).mob = entries /\ order(entries).load_hash = load_hash /\ order(entries).store_hash = store_hash
  BY DEF order
<1> DEFINE F == Forwarded(entries, p)
<1>1. /\ d.mob = [x \in Place |->
                    [entries[x] EXCEPT
                       !.wait_mem_deps_number = StillWaits(entries, p, x),
                       !.mem_deps_ptr_array = IF x = p THEN <<>> ELSE @,
                       !.status = IF x \in F THEN "READY" ELSE @,
                       !.sent = @ \/ x \in F]]
      /\ d.load_hash = IF p[1] = "LOAD" THEN Forget(load_hash, LoadHash(entries[p].access.address), p) ELSE load_hash
      /\ d.store_hash = IF p[1] = "LOAD" THEN store_hash ELSE Forget(store_hash, StoreHash(entries[p].access.address), p)
  BY <1>0 DEF solve_memory_dependences
<1>2. \A x \in Place : StillWaits(entries, p, x) \in Int
  <2> TAKE x \in Place
  <2>1. Times(x, entries[p].mem_deps_ptr_array) \in Nat
    BY EntryTypes, TimesIs
  <2> QED BY <2>1, EntryTypes DEF StillWaits
<1> HIDE DEF F
<1>3. ASSUME NEW x \in Place
      PROVE  /\ d.mob[x] \in EntryShape
             /\ d.mob[x].rob_ptr = entries[x].rob_ptr /\ d.mob[x].access = entries[x].access
             /\ d.mob[x].uop_executed = entries[x].uop_executed /\ d.mob[x].processed = entries[x].processed
             /\ d.mob[x].wait_mem_deps_number = StillWaits(entries, p, x)
             /\ d.mob[x].mem_deps_ptr_array = IF x = p THEN <<>> ELSE entries[x].mem_deps_ptr_array
             /\ d.mob[x].status = IF x \in F THEN "READY" ELSE entries[x].status
             /\ d.mob[x].sent = (entries[x].sent \/ x \in F)
  <2>1. PICK e : e = entries[x]
    OBVIOUS
  <2>2. e \in EntryShape
    BY <2>1
  <2>3. PICK w \in Int : w = StillWaits(entries, p, x)
    BY <1>2
  <2>4. PICK a \in Seq(Place) : a = IF x = p THEN <<>> ELSE e.mem_deps_ptr_array
    <3>1. <<>> \in Seq(Place) /\ e.mem_deps_ptr_array \in Seq(Place)
      BY <2>2 DEF EntryShape
    <3> QED BY <3>1
  <2>5. PICK t \in {"FREE", "WAIT", "READY"} : t = IF x \in F THEN "READY" ELSE e.status
    BY <2>2 DEF EntryShape
  <2>6. PICK b \in BOOLEAN : b = (e.sent \/ x \in F)
    BY <2>2 DEF EntryShape
  <2>7. d.mob[x] = [e EXCEPT !.wait_mem_deps_number = w,
                             !.mem_deps_ptr_array = a,
                             !.status = t,
                             !.sent = b]
    <3>1. d.mob[x] = [e EXCEPT !.wait_mem_deps_number = StillWaits(entries, p, x),
                               !.mem_deps_ptr_array = IF x = p THEN <<>> ELSE e.mem_deps_ptr_array,
                               !.status = IF x \in F THEN "READY" ELSE e.status,
                               !.sent = e.sent \/ x \in F]
      BY <1>1, <2>1, Zenon
    <3> QED BY <2>3, <2>4, <2>5, <2>6, <3>1, Zenon
  <2>8. /\ d.mob[x] \in EntryShape
        /\ d.mob[x].rob_ptr = e.rob_ptr /\ d.mob[x].access = e.access
        /\ d.mob[x].uop_executed = e.uop_executed /\ d.mob[x].processed = e.processed
        /\ d.mob[x].wait_mem_deps_number = w /\ d.mob[x].mem_deps_ptr_array = a
        /\ d.mob[x].status = t /\ d.mob[x].sent = b
    BY <2>2, <2>7 DEF EntryShape
  <2> QED BY <2>1, <2>3, <2>4, <2>5, <2>6, <2>8
<1>4. d.mob \in [Place -> EntryShape]
  BY <1>1, <1>3
<1> QED BY <1>1, <1>3, <1>4 DEF F

LEMMA ForgetIs ==
  ASSUME NEW S, NEW T, NEW table \in [S -> T \cup {NULL}], NEW bucket, NEW place,
         NEW g, g = Forget(table, bucket, place)
  PROVE  /\ g \in [S -> T \cup {NULL}]
         /\ \A b \in S : g[b] = IF b = bucket /\ table[b] = place THEN NULL ELSE table[b]
<1>1. CASE table[bucket] = place
  BY <1>1 DEF Forget
<1>2. CASE table[bucket] # place
  BY <1>2 DEF Forget
<1> QED BY <1>1, <1>2

\* What is forwarded depends on the fields that a step that marks an
\* operation as done does not change.
LEMMA ForwardedSame ==
  ASSUME NEW f \in [Place -> EntryShape], NEW g \in [Place -> EntryShape], NEW p \in Place,
         \A x \in Place : /\ g[x].mem_deps_ptr_array = f[x].mem_deps_ptr_array
                          /\ g[x].wait_mem_deps_number = f[x].wait_mem_deps_number
                          /\ g[x].uop_executed = f[x].uop_executed /\ g[x].access = f[x].access
  PROVE  /\ Forwarded(g, p) = Forwarded(f, p)
         /\ \A x \in Place : StillWaits(g, p, x) = StillWaits(f, p, x)
         /\ Forwarded(f, p) \subseteq Place
<1>1. f[p].mem_deps_ptr_array \in Seq(Place)
  BY EntryTypes
<1>2. ToSet(f[p].mem_deps_ptr_array) \subseteq Place
  BY <1>1 DEF ToSet
<1>3. \A x \in Place : StillWaits(g, p, x) = StillWaits(f, p, x)
  BY DEF StillWaits
<1>4. g[p].mem_deps_ptr_array = f[p].mem_deps_ptr_array /\ g[p].access = f[p].access
  OBVIOUS
<1>5. \A x : x \in Forwarded(g, p) <=> x \in Forwarded(f, p)
  BY <1>2, <1>3, <1>4 DEF Forwarded
<1>6. Forwarded(g, p) = Forwarded(f, p)
  BY <1>5
<1> QED BY <1>2, <1>3, <1>6 DEF Forwarded

LEMMA MemDepsType ==
  ASSUME MobShape
  PROVE  MemDeps(mob) \in [Place -> Seq(Place)] /\ \A p \in Place : mob[p].mem_deps_ptr_array \in Seq(Place)
<1>1. \A p \in Place : mob[p].mem_deps_ptr_array \in Seq(Place)
  BY EntryTypes DEF MobShape
<1> QED BY <1>1 DEF MemDeps

\* Nothing points to a place that waits for nothing.
LEMMA PlacePointedAt ==
  ASSUME MobShape, PlaceWaitInv, NEW p \in Place, NEW x \in Place, mob[x].wait_mem_deps_number = 0
  PROVE  x \notin ToSet(mob[p].mem_deps_ptr_array) /\ Times(x, mob[p].mem_deps_ptr_array) = 0
<1>1. Agree(Place, MemDeps(mob), MemWaits(mob))
  BY DEF PlaceWaitInv
<1>2. MemWaits(mob)[x] = 0 /\ MemDeps(mob)[p] = mob[p].mem_deps_ptr_array
  BY DEF MemWaits, MemDeps
<1> QED BY <1>1, <1>2, PlaceFinite, MemDepsType, PointedAt

\* The array of p is emptied, and its members wait for less.
Emptied(A, W, A1, W1, p) ==
  /\ A \in [Place -> Seq(Place)] /\ Agree(Place, A, W)
  /\ \A x \in Place : A1[x] = IF x = p THEN <<>> ELSE A[x]
  /\ \A x \in Place : W1[x] = W[x] - Times(x, A[p])

LEMMA PlacesEmptyAgree ==
  \A A, W, A1, W1 : \A p \in Place : Emptied(A, W, A1, W1, p) => Agree(Place, A1, W1)
<1>1. ASSUME NEW A, NEW W, NEW A1, NEW W1, NEW p \in Place, Emptied(A, W, A1, W1, p)
      PROVE  Agree(Place, A1, W1)
  <2>1. A \in [Place -> Seq(Place)] /\ Agree(Place, A, W)
    BY <1>1 DEF Emptied
  <2>2. \A x \in Place : A1[x] = IF x = p THEN <<>> ELSE A[x]
    BY <1>1 DEF Emptied
  <2>3. \A x \in Place : W1[x] = W[x] - Times(x, A[p])
    BY <1>1 DEF Emptied
  <2> QED BY <2>1, <2>2, <2>3, PlaceFinite, EmptyAgrees
<1> QED BY <1>1

\* Place p lets its dependents go.
LEMMA PlacesAgree ==
  ASSUME MobShape, PlaceWaitInv, NEW p \in Place,
         \A x \in Place :
           /\ mob'[x].wait_mem_deps_number = mob[x].wait_mem_deps_number - Times(x, mob[p].mem_deps_ptr_array)
           /\ mob'[x].mem_deps_ptr_array = IF x = p THEN <<>> ELSE mob[x].mem_deps_ptr_array,
         \A x \in Place : x # p => Used(x)' = Used(x) /\ mob'[x].processed = mob[x].processed
  PROVE  PlaceWaitInv'
<1>1. \A x \in Place : MemDeps(mob')[x] = IF x = p THEN <<>> ELSE MemDeps(mob)[x]
  BY DEF MemDeps
<1>2. \A x \in Place : MemWaits(mob')[x] = MemWaits(mob)[x] - Times(x, MemDeps(mob)[p])
  BY DEF MemDeps, MemWaits
<1>3. Agree(Place, MemDeps(mob), MemWaits(mob))
  BY DEF PlaceWaitInv
<1>0. MemDeps(mob) \in [Place -> Seq(Place)]
  BY MemDepsType
<1>4. Agree(Place, MemDeps(mob'), MemWaits(mob'))
  <2>1. Emptied(MemDeps(mob), MemWaits(mob), MemDeps(mob'), MemWaits(mob'), p)
    BY <1>0, <1>1, <1>2, <1>3 DEF Emptied
  <2> QED BY <2>1, PlacesEmptyAgree, Zenon
<1>5. ASSUME NEW x \in Place, mob'[x].mem_deps_ptr_array # <<>>
      PROVE  Used(x)' /\ ~mob'[x].processed
  <2>1. x # p /\ mob[x].mem_deps_ptr_array # <<>>
    BY <1>5
  <2>2. Used(x) /\ ~mob[x].processed
    BY <2>1 DEF PlaceWaitInv
  <2> QED BY <2>1, <2>2
<1> QED BY <1>4, <1>5 DEF PlaceWaitInv

LEMMA PlacesIdle ==
  ASSUME PlaceWaitInv,
         \A x \in Place :
           /\ mob'[x].wait_mem_deps_number = mob[x].wait_mem_deps_number
           /\ mob'[x].mem_deps_ptr_array = mob[x].mem_deps_ptr_array
           /\ mob[x].mem_deps_ptr_array # <<>> => Used(x)' = Used(x) /\ mob'[x].processed = mob[x].processed
  PROVE  PlaceWaitInv'
<1>1. MemDeps(mob') = MemDeps(mob) /\ MemWaits(mob') = MemWaits(mob)
  BY DEF MemDeps, MemWaits
<1>2. ASSUME NEW x \in Place, mob'[x].mem_deps_ptr_array # <<>>
      PROVE  Used(x)' /\ ~mob'[x].processed
  BY <1>2 DEF PlaceWaitInv
<1> QED BY <1>1, <1>2 DEF PlaceWaitInv

\* The tables only lose entries, those of the places that are done.
LEMMA TablesKept ==
  ASSUME MobShape, TableInv, NEW gone,
         \A b \in 0 .. LOAD_HASH_SIZE - 1 : load_hash'[b] # NULL => load_hash'[b] = load_hash[b] /\ load_hash[b] \notin gone,
         \A b \in 0 .. STORE_HASH_SIZE - 1 : store_hash'[b] # NULL => store_hash'[b] = store_hash[b] /\ store_hash[b] \notin gone,
         \A x \in Place \ gone : /\ Used(x)' = Used(x) /\ mob'[x].processed = mob[x].processed
                                 /\ mob'[x].access = mob[x].access
  PROVE  TableInv'
<1>1. ASSUME NEW b \in 0 .. LOAD_HASH_SIZE - 1, NEW p, p = load_hash'[b], p # NULL
      PROVE  p[1] = "LOAD" /\ Used(p)' /\ ~mob'[p].processed /\ LoadHash(mob'[p].access.address) = b
  <2>1. p = load_hash[b] /\ p \in Place \ gone
    BY <1>1 DEF MobShape
  <2>2. p[1] = "LOAD" /\ Used(p) /\ ~mob[p].processed /\ LoadHash(mob[p].access.address) = b
    BY <1>1, <2>1 DEF TableInv
  <2> QED BY <2>1, <2>2
<1>2. ASSUME NEW b \in 0 .. STORE_HASH_SIZE - 1, NEW p, p = store_hash'[b], p # NULL
      PROVE  p[1] = "STORE" /\ Used(p)' /\ ~mob'[p].processed /\ StoreHash(mob'[p].access.address) = b
  <2>1. p = store_hash[b] /\ p \in Place \ gone
    BY <1>2 DEF MobShape
  <2>2. p[1] = "STORE" /\ Used(p) /\ ~mob[p].processed /\ StoreHash(mob[p].access.address) = b
    BY <1>2, <2>1 DEF TableInv
  <2> QED BY <2>1, <2>2
<1> QED BY <1>1, <1>2 DEF TableInv, Used

LEMMA TablesIdle ==
  ASSUME MobShape, TableInv, load_hash' = load_hash, store_hash' = store_hash,
         \A x \in Place : /\ Used(x)' = Used(x) /\ mob'[x].processed = mob[x].processed
                          /\ mob'[x].access = mob[x].access
  PROVE  TableInv'
<1>1. ASSUME NEW b \in 0 .. LOAD_HASH_SIZE - 1, NEW p \in Place, p = load_hash[b]
      PROVE  p # NULL => p[1] = "LOAD" /\ Used(p)' /\ ~mob'[p].processed /\ LoadHash(mob'[p].access.address) = b
  BY <1>1 DEF TableInv
<1>2. ASSUME NEW b \in 0 .. STORE_HASH_SIZE - 1, NEW p \in Place, p = store_hash[b]
      PROVE  p # NULL => p[1] = "STORE" /\ Used(p)' /\ ~mob'[p].processed /\ StoreHash(mob'[p].access.address) = b
  BY <1>2 DEF TableInv
<1>3. /\ \A b \in 0 .. LOAD_HASH_SIZE - 1 : load_hash[b] # NULL => load_hash[b] \in Place
      /\ \A b \in 0 .. STORE_HASH_SIZE - 1 : store_hash[b] # NULL => store_hash[b] \in Place
  BY DEF MobShape
<1> QED BY <1>1, <1>2, <1>3 DEF TableInv, Used

-----------------------------------------------------------------------------
(* The inductive invariant, and what steps that change little keep.        *)

IInv ==
  /\ RobShape /\ MobShape /\ StageShape
  /\ RobInv /\ PlaceInv /\ OwnerInv /\ OrderInv
  /\ StageInv /\ EntryInv /\ DoneInv /\ CountInv /\ CandidateInv
  /\ LineWaitInv /\ PlaceWaitInv /\ TableInv /\ AliasInv

LEMMA RemoveAtIs ==
  ASSUME NEW S, NEW q \in Seq(S), NEW k \in DOMAIN q
  PROVE  /\ RemoveAt(q, k) \in Seq(S) /\ DOMAIN RemoveAt(q, k) = 1 .. Len(q) - 1
         /\ \A j \in 1 .. Len(q) - 1 : RemoveAt(q, k)[j] = IF j < k THEN q[j] ELSE q[j + 1]
<1>1. Len(q) \in Nat /\ k \in 1 .. Len(q)
  OBVIOUS
<1>2. PICK a \in Seq(S) : a = SubSeq(q, 1, k - 1) /\ Len(a) = k - 1 /\ \A j \in 1 .. k - 1 : a[j] = q[j]
  <2>1. \A j \in 1 .. k - 1 : q[j] \in S
    BY <1>1
  <2>2. /\ SubSeq(q, 1, k - 1) \in Seq(S)
        /\ Len(SubSeq(q, 1, k - 1)) = IF 1 <= k - 1 THEN (k - 1) - 1 + 1 ELSE 0
        /\ \A j \in 1 .. (k - 1) - 1 + 1 : SubSeq(q, 1, k - 1)[j] = q[1 + j - 1]
    BY <1>1, <2>1, SubSeqProperties
  <2>3. \A j \in 1 .. k - 1 : j \in 1 .. (k - 1) - 1 + 1 /\ 1 + j - 1 = j
    BY <1>1
  <2>4. Len(SubSeq(q, 1, k - 1)) = k - 1
    BY <1>1, <2>2
  <2> QED BY <2>2, <2>3, <2>4
<1>3. PICK b \in Seq(S) : /\ b = SubSeq(q, k + 1, Len(q)) /\ Len(b) = Len(q) - k
                          /\ \A j \in 1 .. Len(q) - k : b[j] = q[k + j]
  <2>1. \A j \in (k + 1) .. Len(q) : q[j] \in S
    BY <1>1
  <2>2. /\ SubSeq(q, k + 1, Len(q)) \in Seq(S)
        /\ Len(SubSeq(q, k + 1, Len(q))) = IF k + 1 <= Len(q) THEN Len(q) - (k + 1) + 1 ELSE 0
        /\ \A j \in 1 .. Len(q) - (k + 1) + 1 : SubSeq(q, k + 1, Len(q))[j] = q[(k + 1) + j - 1]
    BY <1>1, <2>1, SubSeqProperties
  <2>3. \A j \in 1 .. Len(q) - k : j \in 1 .. Len(q) - (k + 1) + 1 /\ (k + 1) + j - 1 = k + j
    BY <1>1
  <2>4. Len(SubSeq(q, k + 1, Len(q))) = Len(q) - k
    BY <1>1, <2>2
  <2> QED BY <2>2, <2>3, <2>4
<1>4. RemoveAt(q, k) = a \o b
  BY <1>2, <1>3 DEF RemoveAt
<1>c. /\ a \o b \in Seq(S) /\ Len(a \o b) = Len(a) + Len(b)
      /\ \A j \in 1 .. Len(a) + Len(b) : (a \o b)[j] = IF j <= Len(a) THEN a[j] ELSE b[j - Len(a)]
  BY ConcatProperties
<1>d. Len(a) = k - 1 /\ Len(b) = Len(q) - k
  BY <1>2, <1>3
<1>5. a \o b \in Seq(S) /\ Len(a \o b) = Len(q) - 1
  BY <1>1, <1>c, <1>d
<1>6. ASSUME NEW j \in 1 .. Len(q) - 1 PROVE (a \o b)[j] = IF j < k THEN q[j] ELSE q[j + 1]
  <2>0. (a \o b)[j] = IF j <= k - 1 THEN a[j] ELSE b[j - (k - 1)]
    <3>1. j \in 1 .. Len(a) + Len(b)
      BY <1>1, <1>d
    <3>2. (a \o b)[j] = IF j <= Len(a) THEN a[j] ELSE b[j - Len(a)]
      BY <1>c, <3>1
    <3> QED BY <1>d, <3>2
  <2>1. CASE j < k
    BY <1>1, <1>2, <2>0, <2>1
  <2>2. CASE k <= j
    <3>1. j - (k - 1) \in 1 .. Len(q) - k /\ k + (j - (k - 1)) = j + 1
      BY <1>1, <2>2
    <3>2. (a \o b)[j] = b[j - (k - 1)]
      BY <1>1, <2>0, <2>2
    <3>3. b[j - (k - 1)] = q[j + 1]
      <4>1. PICK i \in 1 .. Len(q) - k : i = j - (k - 1) /\ k + i = j + 1
        BY <3>1
      <4>2. b[i] = q[k + i]
        BY <1>3
      <4> QED BY <4>1, <4>2
    <3> QED BY <1>1, <2>2, <3>2, <3>3
  <2>3. j < k \/ k <= j
    BY <1>1
  <2> QED BY <2>1, <2>2, <2>3, Zenon
<1> QED BY <1>4, <1>5, <1>6

\* Steps that leave the memory order buffers alone.
LEMMA MobUnchanged ==
  ASSUME MobShape, PlaceWaitInv, TableInv, UNCHANGED mobVars
  PROVE  /\ MobShape' /\ PlaceWaitInv' /\ TableInv' /\ PlaceFrame
         /\ \A p \in Place : mob'[p] = mob[p]
<1>1. mob' = mob /\ mob_start' = mob_start /\ mob_used' = mob_used /\ load_hash' = load_hash /\ store_hash' = store_hash
  BY DEF mobVars
<1>2. MobShape'
  BY <1>1 DEF MobShape
<1>3. PlaceWaitInv'
  BY <1>1, PlacesIdle DEF Used
<1>4. TableInv'
  BY <1>1, Zenon DEF TableInv, Used
<1>5. PlaceFrame
  BY <1>1 DEF PlaceFrame, Used
<1> QED BY <1>1, <1>2, <1>3, <1>4, <1>5

LEMMA EntriesKept ==
  ASSUME RobShape, MobShape, PlaceInv, OwnerInv, EntryInv, mob' = mob,
         \A s \in Slot : rob[s].sent => rob'[s].sent
  PROVE  EntryInv'
<1> SUFFICES ASSUME NEW p \in Place PROVE EntryOK(p)'
  BY DEF EntryInv
<1>1. EntryOK(p)
  BY DEF EntryInv
<1>2. Used(p) => Owner(p) \in Slot
  BY OwnedPlace
<1> QED BY <1>1, <1>2 DEF EntryOK, Used, Owner

LEMMA DoneKept ==
  ASSUME RobShape, MobShape, OwnerInv, DoneInv, RobFrame, PlaceFrame,
         \A p \in Place : mob'[p].processed = mob[p].processed,
         \A s \in Slot : IsMemory(s) => /\ rob'[s].waiting_mem_request = rob[s].waiting_mem_request
                                        /\ rob'[s].stage = "COMMIT" <=> rob[s].stage = "COMMIT"
  PROVE  DoneInv'
<1> SUFFICES ASSUME NEW s \in Slot, IsMemory(s)'
             PROVE  /\ Kind(s)' \in {"LOAD", "STORE"} =>
                         (rob'[s].stage = "COMMIT" <=> rob'[s].waiting_mem_request = 0)
                    /\ Kind(s)' = "LOAD" => rob'[s].waiting_mem_request = Cardinality(Open(s)')
                    /\ Kind(s)' \in {"HIVE", "VIMA"} => (rob'[s].stage = "COMMIT" <=> mob'[Nth(s, 0)'].processed)
  BY DEF DoneInv
<1>1. /\ IsMemory(s) /\ Kind(s)' = Kind(s) /\ Nth(s, 0)' = Nth(s, 0)
      /\ rob'[s].waiting_mem_request = rob[s].waiting_mem_request
      /\ rob'[s].stage = "COMMIT" <=> rob[s].stage = "COMMIT"
  BY DEF RobFrame, IsMemory, Busy, Kind, Nth
<1>2. Nth(s, 0) \in Place
  BY <1>1, MemoryUop
<1>3. Open(s)' = Open(s)
  BY DEF Open, PlaceFrame, Owner
<1>4. /\ Kind(s) \in {"LOAD", "STORE"} =>
           (rob[s].stage = "COMMIT" <=> rob[s].waiting_mem_request = 0)
      /\ Kind(s) = "LOAD" => rob[s].waiting_mem_request = Cardinality(Open(s))
      /\ Kind(s) \in {"HIVE", "VIMA"} => (rob[s].stage = "COMMIT" <=> mob[Nth(s, 0)].processed)
  BY <1>1 DEF DoneInv
<1> QED BY <1>1, <1>2, <1>3, <1>4

LEMMA CountKept ==
  ASSUME CountInv, memory_executed' = memory_executed,
         \A p \in Place : mob'[p].uop_executed = mob[p].uop_executed /\ mob'[p].processed = mob[p].processed
  PROVE  CountInv'
<1>1. \A op \in Memory : ExecutedOf(op)' = ExecutedOf(op)
  BY DEF ExecutedOf
<1> QED BY <1>1 DEF CountInv

\* A kept candidate stays one if it is not touched.
LEMMA CandidatesKept ==
  ASSUME MobShape, StageShape, CandidateInv, mob_start' = mob_start,
         \A op \in Memory : oldest_to_send'[op] # NULL => oldest_to_send'[op] = oldest_to_send[op],
         \A p \in Place : p = oldest_to_send'[p[1]] /\ Sendable(p) => Sendable(p)'
  PROVE  CandidateInv'
<1> SUFFICES ASSUME NEW op \in Memory, NEW p, p = oldest_to_send'[op], p # NULL
             PROVE  p[1] = op /\ Used(p)' /\ Sendable(p)' /\ (op = "STORE" => Distance(p)' = 0)
  BY DEF CandidateInv, Used, Sendable, Distance
<1>1. p = oldest_to_send[op] /\ p \in Place
  BY DEF StageShape
<1>2. p[1] = op /\ Used(p) /\ Sendable(p) /\ (op = "STORE" => Distance(p) = 0)
  BY <1>1 DEF CandidateInv
<1>3. Sendable(p)'
  BY <1>1, <1>2
<1>4. Distance(p)' = Distance(p)
  BY DEF Distance
<1> QED BY <1>2, <1>3, <1>4 DEF Used, Sendable

\* A step that leaves the uops alone that are in the first stages after it.
StaysWaiting(s) == rob[s].stage = "RENAME" \/ s \in unified_functional_units'

LEMMA StagesKept ==
  ASSUME RobShape, MobShape, StageShape, StageInv, RobFrame, PlaceFrame, StoreFrame,
         unified_reservation_station' = unified_reservation_station,
         unified_functional_units' \subseteq unified_functional_units,
         \A s \in Slot : StaysWaiting(s) => rob'[s].stage = rob[s].stage,
         \A s \in Slot : rob'[s].stage = "RENAME" => rob[s].stage = "RENAME",
         \A p \in Place : Used(p) /\ mob'[p].uop_executed =>
           mob[p].uop_executed \/ ~StaysWaiting(Owner(p))
  PROVE  StageInv'
<1>1. \A s \in Slot : /\ Busy(s)' = Busy(s) /\ IsMemory(s)' = IsMemory(s) /\ Kind(s)' = Kind(s)
                      /\ Count(s)' = Count(s) /\ (IsMemory(s) => Kept(s)' = Kept(s))
  BY FrameSame
<1>2. \A s \in Slot : Waiting(s)' => StaysWaiting(s) /\ Waiting(s) /\ rob'[s].stage = rob[s].stage
  BY DEF Waiting, StaysWaiting
<1>3. ASSUME NEW j \in DOMAIN unified_reservation_station, NEW s \in Slot, s = unified_reservation_station[j]
      PROVE  Busy(s)' /\ rob'[s].stage = "RENAME"
  BY <1>1, <1>3 DEF StageInv, StaysWaiting
<1>4. ASSUME NEW s \in Slot, IsMemory(s)', Waiting(s)'
      PROVE  /\ Kind(s)' = "STORE" => Kept(s)' = Count(s)'
             /\ \A p \in Place : Used(p)' /\ Owner(p)' = s => ~mob'[p].uop_executed
  <2>1. IsMemory(s) /\ Waiting(s) /\ StaysWaiting(s)
    BY <1>1, <1>2, <1>4
  <2>2. /\ Kind(s) = "STORE" => Kept(s) = Count(s)
        /\ \A p \in Place : Used(p) /\ Owner(p) = s => ~mob[p].uop_executed
    BY <2>1 DEF StageInv
  <2> QED BY <1>1, <2>1, <2>2 DEF PlaceFrame, Owner
<1>5. \A s \in unified_functional_units' : Busy(s)' /\ rob'[s].stage = "EXECUTION"
  BY <1>1 DEF StageInv, StaysWaiting, StageShape
<1>6. \A j \in DOMAIN unified_reservation_station : unified_reservation_station[j] \in Slot
  BY DEF StageShape
<1>7. \A j \in DOMAIN unified_reservation_station :
        Busy(unified_reservation_station[j])' /\ rob'[unified_reservation_station[j]].stage = "RENAME"
  BY <1>3, <1>6
<1>8. \A i, j \in DOMAIN unified_reservation_station :
        unified_reservation_station[i] = unified_reservation_station[j] => i = j
  BY DEF StageInv
<1> QED BY <1>4, <1>5, <1>7, <1>8 DEF StageInv

-----------------------------------------------------------------------------
(* Dispatch.                                                               *)

LEMMA DispatchKeeps ==
  ASSUME IInv, NEW k \in DOMAIN unified_reservation_station, dispatch(k)
  PROVE  IInv'
<1> USE DEF IInv
<1>1. PICK s \in Slot : s = unified_reservation_station[k]
  BY DEF StageShape
<1>2. Busy(s) /\ rob[s].stage = "RENAME"
  BY <1>1 DEF StageInv
<1>3. /\ rob[s].wait_reg_deps_number = 0
      /\ rob' = [rob EXCEPT ![s].stage = "EXECUTION"]
      /\ unified_reservation_station' = RemoveAt(unified_reservation_station, k)
      /\ unified_functional_units' = unified_functional_units \cup {s}
      /\ UNCHANGED <<robStart, robUsed, register_alias_table, mobVars, sendVars, renameCounter>>
  BY <1>1 DEF dispatch
<1>4. /\ rob' \in [Slot -> LineShape]
      /\ \A x \in Slot :
           /\ rob'[x].uop = rob[x].uop /\ rob'[x].uop_number = rob[x].uop_number
           /\ rob'[x].pos_mob = rob[x].pos_mob /\ rob'[x].sent = rob[x].sent
           /\ rob'[x].stage = IF x = s THEN "EXECUTION" ELSE rob[x].stage
           /\ rob'[x].waiting_mem_request = rob[x].waiting_mem_request
           /\ rob'[x].wait_reg_deps_number = rob[x].wait_reg_deps_number
           /\ rob'[x].reg_deps_ptr_array = rob[x].reg_deps_ptr_array
  <2>1. rob \in [Slot -> LineShape] /\ rob[s] \in LineShape
    BY DEF RobShape
  <2>2. rob' = [rob EXCEPT ![s] = [rob[s] EXCEPT !.stage = "EXECUTION"]]
    BY <1>3, Zenon
  <2> QED BY <2>1, <2>2 DEF LineShape
<1>5. RobShape' /\ RobFrame
  BY <1>3, <1>4 DEF RobShape, RobFrame
<1>6. StageFrame
  BY <1>2, <1>4 DEF StageFrame, RobInv
<1>7. StoreFrame
  BY <1>4 DEF StoreFrame
<1>8. /\ MobShape' /\ PlaceWaitInv' /\ TableInv' /\ PlaceFrame /\ mob' = mob /\ mob_start' = mob_start
      /\ \A p \in Place : mob'[p] = mob[p]
  BY <1>3, MobUnchanged DEF mobVars
<1>9. memory_executed' = memory_executed /\ oldest_to_send' = oldest_to_send /\ register_alias_table' = register_alias_table
  BY <1>3 DEF sendVars
<1>10. RobInv' /\ PlaceInv' /\ OwnerInv' /\ OrderInv'
  BY <1>5, <1>6, <1>7, <1>8, FrameKeepsRob, FrameKeepsPlaces
<1>11. /\ unified_reservation_station' \in Seq(Slot)
       /\ DOMAIN unified_reservation_station' = 1 .. Len(unified_reservation_station) - 1
       /\ \A j \in 1 .. Len(unified_reservation_station) - 1 :
            unified_reservation_station'[j] = IF j < k THEN unified_reservation_station[j]
                                              ELSE unified_reservation_station[j + 1]
  BY <1>3, RemoveAtIs DEF StageShape
<1>12. StageShape'
  BY <1>3, <1>9, <1>11 DEF StageShape
<1>13. StageInv'
  <2>1. k \in 1 .. Len(unified_reservation_station) /\ Len(unified_reservation_station) \in Nat
        /\ DOMAIN unified_reservation_station = 1 .. Len(unified_reservation_station)
    BY DEF StageShape
  <2>2. \A x \in Slot : /\ Busy(x)' = Busy(x) /\ IsMemory(x)' = IsMemory(x) /\ Kind(x)' = Kind(x)
                        /\ Count(x)' = Count(x) /\ (IsMemory(x) => Kept(x)' = Kept(x))
    BY <1>5, <1>7, <1>8, FrameSame
  <2>3. ASSUME NEW j \in DOMAIN unified_reservation_station'
        PROVE  \E i \in DOMAIN unified_reservation_station :
                 i # k /\ i = (IF j < k THEN j ELSE j + 1) /\ unified_reservation_station'[j] = unified_reservation_station[i]
    <3>1. j \in 1 .. Len(unified_reservation_station) - 1
      BY <1>11
    <3>2. CASE j < k
      BY <1>11, <2>1, <3>1, <3>2
    <3>3. CASE ~(j < k)
      <4>1. j + 1 \in 1 .. Len(unified_reservation_station) /\ j + 1 # k
        BY <2>1, <3>1, <3>3
      <4> QED BY <1>11, <2>1, <3>1, <3>3, <4>1
    <3> QED BY <3>2, <3>3
  <2>4. ASSUME NEW j \in DOMAIN unified_reservation_station'
        PROVE  \E x \in Slot : x = unified_reservation_station'[j] /\ Busy(x)' /\ rob'[x].stage = "RENAME"
    <3>1. PICK i \in DOMAIN unified_reservation_station :
            i # k /\ unified_reservation_station'[j] = unified_reservation_station[i]
      BY <2>3
    <3>2. PICK x \in Slot : x = unified_reservation_station[i]
      BY DEF StageShape
    <3>3. x # s /\ Busy(x) /\ rob[x].stage = "RENAME"
      BY <1>1, <3>1, <3>2 DEF StageInv
    <3> QED BY <1>4, <2>2, <3>1, <3>2, <3>3
  <2>5. ASSUME NEW j1 \in DOMAIN unified_reservation_station', NEW j2 \in DOMAIN unified_reservation_station',
               unified_reservation_station'[j1] = unified_reservation_station'[j2]
        PROVE  j1 = j2
    <3>1. PICK i1 \in DOMAIN unified_reservation_station :
            i1 # k /\ i1 = (IF j1 < k THEN j1 ELSE j1 + 1) /\ unified_reservation_station'[j1] = unified_reservation_station[i1]
      BY <2>3
    <3>2. PICK i2 \in DOMAIN unified_reservation_station :
            i2 # k /\ i2 = (IF j2 < k THEN j2 ELSE j2 + 1) /\ unified_reservation_station'[j2] = unified_reservation_station[i2]
      BY <2>3
    <3>3. i1 = i2
      BY <2>5, <3>1, <3>2 DEF StageInv
    <3>4. j1 \in Nat /\ j2 \in Nat
      BY <1>11
    <3> QED BY <2>1, <3>1, <3>2, <3>3, <3>4
  <2>6. \A x \in unified_functional_units' : Busy(x)' /\ rob'[x].stage = "EXECUTION"
    <3> TAKE x \in unified_functional_units'
    <3>1. x \in Slot
      BY <1>3 DEF StageShape
    <3>2. x = s \/ (x \in unified_functional_units /\ Busy(x) /\ rob[x].stage = "EXECUTION")
      BY <1>3 DEF StageInv
    <3> QED BY <1>2, <1>4, <2>2, <3>1, <3>2
  <2>7. ASSUME NEW x \in Slot, IsMemory(x)', Waiting(x)'
        PROVE  /\ Kind(x)' = "STORE" => Kept(x)' = Count(x)'
               /\ \A p \in Place : Used(p)' /\ Owner(p)' = x => ~mob'[p].uop_executed
    <3>1. IsMemory(x) /\ Waiting(x)
      BY <1>2, <1>3, <1>4, <2>2, <2>7 DEF Waiting
    <3>2. /\ Kind(x) = "STORE" => Kept(x) = Count(x)
          /\ \A p \in Place : Used(p) /\ Owner(p) = x => ~mob[p].uop_executed
      BY <3>1 DEF StageInv
    <3> QED BY <1>8, <2>2, <3>1, <3>2 DEF PlaceFrame, Owner
  <2>8. \A j \in DOMAIN unified_reservation_station' :
          rob'[unified_reservation_station'[j]].uop # NULL /\ rob'[unified_reservation_station'[j]].stage = "RENAME"
    BY <2>4 DEF Busy
  <2> QED BY <2>5, <2>6, <2>7, <2>8 DEF StageInv, Busy
<1>14. EntryInv'
  BY <1>4, <1>8, EntriesKept
<1>15. DoneInv'
  BY <1>2, <1>4, <1>5, <1>8, DoneKept
<1>16. CountInv'
  BY <1>8, <1>9, CountKept
<1>17. CandidateInv'
  BY <1>8, <1>9, CandidatesKept DEF Sendable
<1>18. LineWaitInv'
  <2>1. RegDeps(rob') = RegDeps(rob) /\ RegWaits(rob') = RegWaits(rob)
    BY <1>4 DEF RegDeps, RegWaits
  <2>2. ASSUME NEW x \in Slot
        PROVE  /\ rob'[x].reg_deps_ptr_array # <<>> => Busy(x)' /\ Pending(x)'
               /\ rob'[x].stage # "RENAME" => rob'[x].wait_reg_deps_number = 0
    BY <1>2, <1>3, <1>4 DEF LineWaitInv, Busy, Pending
  <2> QED BY <2>1, <2>2 DEF LineWaitInv
<1>19. AliasInv'
  <2>1. \A x \in Slot : /\ Busy(x)' = Busy(x) /\ \A r : Writes(x, r)' = Writes(x, r)
                        /\ Pending(x)' <=> Pending(x)
    BY <1>2, <1>4 DEF Busy, Writes, Pending
  <2>2. \A x, y \in Slot : Before(x, y)' = Before(x, y)
    BY <1>4 DEF Before
  <2> SUFFICES ASSUME NEW r \in Register, NEW b, b = register_alias_table'[r]
               PROVE  (b # NULL => Named(b, r)') /\ (b = NULL => Unnamed(r)')
    BY DEF AliasInv, Named, Busy, Writes, Pending, Before
  <2>3. b = register_alias_table[r] /\ b \in Slot \cup {NULL}
    BY <1>9 DEF StageShape
  <2>4. (b # NULL => Named(b, r)) /\ (b = NULL => Unnamed(r))
    BY <2>3 DEF AliasInv
  <2>5. b # NULL => Named(b, r)'
    BY <2>1, <2>2, <2>3, <2>4 DEF Named
  <2>6. b = NULL => Unnamed(r)'
    BY <2>1, <2>2, <2>4 DEF Unnamed
  <2> QED BY <2>5, <2>6
<1> QED BY <1>5, <1>8, <1>10, <1>12, <1>13, <1>14, <1>15, <1>16, <1>17, <1>18, <1>19

-----------------------------------------------------------------------------
(* Execute.                                                                *)

LEMMA ExecuteAluKeeps ==
  ASSUME IInv, NEW s \in unified_functional_units, execute(s), rob[s].uop.op \notin Memory
  PROVE  IInv'
<1> USE DEF IInv
<1>1. s \in Slot /\ Busy(s) /\ rob[s].stage = "EXECUTION" /\ ~IsMemory(s)
  BY DEF StageInv, StageShape, IsMemory
<1> DEFINE lines == [rob EXCEPT ![s].stage = "COMMIT"]
<1>2. /\ solve_registers_dependency(lines, s)
      /\ unified_functional_units' = unified_functional_units \ {s}
      /\ unified_reservation_station' = unified_reservation_station
      /\ memory_executed' = memory_executed /\ oldest_to_send' = oldest_to_send
      /\ UNCHANGED mobVars /\ UNCHANGED <<robStart, robUsed, renameCounter>>
  BY DEF execute, mobVars
<1>3. /\ LineBase(lines)
      /\ \A x \in Slot : /\ lines[x].stage = IF x = s THEN "COMMIT" ELSE rob[x].stage
                         /\ lines[x].waiting_mem_request = rob[x].waiting_mem_request
                         /\ lines[x].sent = rob[x].sent
  <2>1. rob \in [Slot -> LineShape] /\ rob[s] \in LineShape
    BY <1>1 DEF RobShape
  <2>2. lines = [rob EXCEPT ![s] = [rob[s] EXCEPT !.stage = "COMMIT"]]
    BY Zenon
  <2> HIDE DEF lines
  <2> QED BY <2>1, <2>2 DEF LineShape, LineBase
<1> HIDE DEF lines
<1>4. /\ LineStep(s, TRUE)
      /\ \A x \in Slot : rob'[x].waiting_mem_request = rob[x].waiting_mem_request /\ rob'[x].sent = rob[x].sent
  BY <1>1, <1>2, <1>3, SolvesLine
<1>5. /\ RobShape' /\ RobFrame /\ StageFrame /\ RobInv'
      /\ register_alias_table' \in [Register -> Slot \cup {NULL}]
  BY <1>1, <1>4, LineStepFrame
<1>6. LineWaitInv'
  BY <1>1, <1>4, LineStepWaits
<1>7. AliasInv'
  BY <1>1, <1>4, LineStepAlias DEF Pending
<1>8. /\ MobShape' /\ PlaceWaitInv' /\ TableInv' /\ PlaceFrame /\ mob' = mob /\ mob_start' = mob_start
      /\ \A p \in Place : mob'[p] = mob[p]
  BY <1>2, MobUnchanged DEF mobVars
<1>9. StoreFrame
  BY <1>4 DEF StoreFrame
<1>10. PlaceInv' /\ OwnerInv' /\ OrderInv'
  BY <1>5, <1>8, <1>9, FrameKeepsPlaces
<1>11. StageShape'
  BY <1>2, <1>5 DEF StageShape
<1>12. \A x \in Slot : rob'[x].stage = IF x = s THEN "COMMIT" ELSE rob[x].stage
  BY <1>4 DEF LineStep
<1>13. StageInv'
  <2>1. \A x \in Slot : StaysWaiting(x) => rob'[x].stage = rob[x].stage
    BY <1>1, <1>2, <1>12 DEF StaysWaiting
  <2>2. \A x \in Slot : rob'[x].stage = "RENAME" => rob[x].stage = "RENAME"
    BY <1>12
  <2> QED BY <1>2, <1>5, <1>8, <1>9, <2>1, <2>2, StagesKept
<1>14. EntryInv'
  BY <1>4, <1>8, EntriesKept
<1>15. DoneInv'
  BY <1>1, <1>4, <1>5, <1>8, <1>12, DoneKept
<1>16. CountInv'
  BY <1>2, <1>8, CountKept
<1>17. CandidateInv'
  BY <1>2, <1>8, CandidatesKept DEF Sendable
<1> QED BY <1>5, <1>6, <1>7, <1>8, <1>10, <1>11, <1>13, <1>14, <1>15, <1>16, <1>17

LEMMA ExecuteMemoryKeeps ==
  ASSUME IInv, NEW s \in unified_functional_units, execute(s), rob[s].uop.op \in Memory
  PROVE  IInv'
<1> USE DEF IInv
<1>1. s \in Slot /\ Busy(s) /\ rob[s].stage = "EXECUTION" /\ IsMemory(s)
  BY DEF StageInv, StageShape, IsMemory
<1> DEFINE op == rob[s].uop.op
           places == ToSet(PlacesOf(s))
<1>2. /\ mob' = [p \in Place |-> IF p \in places THEN [mob[p] EXCEPT !.uop_executed = TRUE] ELSE mob[p]]
      /\ memory_executed' = Counted(op, places)
      /\ rob' = rob /\ register_alias_table' = register_alias_table
      /\ unified_functional_units' = unified_functional_units \ {s}
      /\ unified_reservation_station' = unified_reservation_station
      /\ oldest_to_send' = oldest_to_send
      /\ mob_start' = mob_start /\ mob_used' = mob_used /\ load_hash' = load_hash /\ store_hash' = store_hash
      /\ robStart' = robStart /\ robUsed' = robUsed /\ renameCounter' = renameCounter
  BY DEF execute
<1>3. Waiting(s)
  BY DEF Waiting
<1>4. Kept(s) = Count(s)
  BY <1>1, <1>3 DEF StageInv, Kept
<1>5. places = {p \in Place : Used(p) /\ Owner(p) = s}
  BY <1>1, <1>4, PlacesOfIs
<1>6. op \in Memory /\ op = Kind(s)
  BY DEF Kind
<1> HIDE DEF op, places
<1>7. \A p \in places : /\ p \in Place /\ Used(p) /\ Owner(p) = s /\ p[1] = op
                        /\ ~mob[p].uop_executed /\ mob[p].status = "WAIT" /\ ~mob[p].sent /\ ~mob[p].processed
  <2> TAKE p \in places
  <2>1. p \in Place /\ Used(p) /\ Owner(p) = s
    BY <1>5
  <2>2. p[1] = op
    BY <1>6, <2>1, OwnedPlace
  <2>3. ~mob[p].uop_executed
    BY <1>1, <1>3, <2>1 DEF StageInv
  <2>4. EntryOK(p)
    BY <2>1 DEF EntryInv
  <2> QED BY <2>1, <2>2, <2>3, <2>4 DEF EntryOK
<1>8. /\ mob' \in [Place -> EntryShape]
      /\ \A p \in Place :
           /\ mob'[p].status = mob[p].status /\ mob'[p].rob_ptr = mob[p].rob_ptr /\ mob'[p].access = mob[p].access
           /\ mob'[p].uop_executed = (mob[p].uop_executed \/ p \in places)
           /\ mob'[p].processed = mob[p].processed /\ mob'[p].sent = mob[p].sent
           /\ mob'[p].wait_mem_deps_number = mob[p].wait_mem_deps_number
           /\ mob'[p].mem_deps_ptr_array = mob[p].mem_deps_ptr_array
  <2>1. mob \in [Place -> EntryShape]
    BY DEF MobShape
  <2>2. ASSUME NEW p \in Place
        PROVE  /\ mob'[p] \in EntryShape
               /\ mob'[p].status = mob[p].status /\ mob'[p].rob_ptr = mob[p].rob_ptr /\ mob'[p].access = mob[p].access
               /\ mob'[p].uop_executed = (mob[p].uop_executed \/ p \in places)
               /\ mob'[p].processed = mob[p].processed /\ mob'[p].sent = mob[p].sent
               /\ mob'[p].wait_mem_deps_number = mob[p].wait_mem_deps_number
               /\ mob'[p].mem_deps_ptr_array = mob[p].mem_deps_ptr_array
    <3>1. mob[p] \in EntryShape
      BY <2>1
    <3>2. CASE p \in places
      <4>1. mob'[p] = [mob[p] EXCEPT !.uop_executed = TRUE]
        BY <1>2, <3>2
      <4> QED BY <3>1, <3>2, <4>1 DEF EntryShape
    <3>3. CASE p \notin places
      <4>1. mob'[p] = mob[p]
        BY <1>2, <3>3
      <4>2. mob[p].uop_executed \in BOOLEAN
        BY <3>1 DEF EntryShape
      <4> QED BY <3>1, <3>3, <4>1, <4>2
    <3> QED BY <3>2, <3>3
  <2>3. mob' \in [Place -> EntryShape]
    BY <1>2, <2>2
  <2> QED BY <2>2, <2>3
<1>9. RobShape' /\ RobFrame /\ StageFrame /\ StoreFrame
  BY <1>2 DEF RobShape, RobFrame, StageFrame, StoreFrame, RobInv
<1>10. PlaceFrame
  BY <1>2, <1>8 DEF PlaceFrame, Used
<1>11. MobShape'
  BY <1>2, <1>8 DEF MobShape
<1>12. RobInv' /\ PlaceInv' /\ OwnerInv' /\ OrderInv'
  BY <1>9, <1>10, FrameKeepsRob, FrameKeepsPlaces
<1>13. IsFiniteSet(places)
  BY <1>7, PlaceFinite, FS_Subset
<1>14. /\ memory_executed' \in [Memory -> Int]
       /\ \A o \in Memory : memory_executed'[o] = IF o = op THEN memory_executed[o] + Cardinality(places)
                                                  ELSE memory_executed[o]
  <2>1. Cardinality(places) \in Nat
    BY <1>13, FS_CardinalityType
  <2>2. memory_executed' = [memory_executed EXCEPT ![op] = @ + Cardinality(places)]
    BY <1>2 DEF Counted
  <2> QED BY <1>6, <2>1, <2>2 DEF StageShape
<1>15. StageShape'
  BY <1>2, <1>14 DEF StageShape
<1>16. StageInv'
  <2>1. \A p \in Place : Used(p) /\ mob'[p].uop_executed => mob[p].uop_executed \/ ~StaysWaiting(Owner(p))
    BY <1>1, <1>2, <1>7, <1>8 DEF StaysWaiting
  <2> QED BY <1>2, <1>9, <1>10, <2>1, StagesKept
<1>17. EntryInv'
  <2> SUFFICES ASSUME NEW p \in Place PROVE EntryOK(p)'
    BY DEF EntryInv
  <2>1. EntryOK(p)
    BY DEF EntryInv
  <2> QED BY <1>2, <1>7, <1>8, <2>1 DEF EntryOK, Used, Owner
<1>18. DoneInv'
  BY <1>2, <1>8, <1>9, <1>10, DoneKept
<1>19. CountInv'
  <2> SUFFICES ASSUME NEW o \in Memory PROVE memory_executed'[o] = Cardinality(ExecutedOf(o)')
    BY DEF CountInv
  <2>1. memory_executed[o] = Cardinality(ExecutedOf(o))
    BY DEF CountInv
  <2>2. IsFiniteSet(ExecutedOf(o))
    BY PlaceFinite, FS_Subset DEF ExecutedOf
  <2>3. CASE o = op
    <3>1. ExecutedOf(o)' = ExecutedOf(o) \cup places
      BY <1>7, <1>8, <2>3 DEF ExecutedOf
    <3>2. ExecutedOf(o) \cap places = {}
      BY <1>7 DEF ExecutedOf
    <3>3. Cardinality(ExecutedOf(o) \cup places) = Cardinality(ExecutedOf(o)) + Cardinality(places)
      BY <1>13, <2>2, <3>2, DisjointUnion
    <3> QED BY <1>14, <2>1, <2>3, <3>1, <3>3
  <2>4. CASE o # op
    <3>1. ExecutedOf(o)' = ExecutedOf(o)
      BY <1>7, <1>8, <2>4 DEF ExecutedOf
    <3> QED BY <1>14, <2>1, <2>4, <3>1
  <2> QED BY <2>3, <2>4
<1>20. CandidateInv'
  BY <1>2, <1>8, CandidatesKept DEF Sendable
<1>21. LineWaitInv'
  BY <1>2 DEF LineWaitInv, Busy, Pending
<1>22. PlaceWaitInv'
  BY <1>8, PlacesIdle DEF Used
<1>23. TableInv'
  BY <1>2, <1>8, TablesIdle DEF Used
<1>24. AliasInv'
  BY <1>2 DEF AliasInv, Named, Unnamed, Busy, Writes, Pending, Before
<1> QED BY <1>9, <1>11, <1>12, <1>15, <1>16, <1>17, <1>18, <1>19, <1>20, <1>21, <1>22, <1>23, <1>24

-----------------------------------------------------------------------------
(* Sending an operation, and its answer.                                   *)

\* What is sent is an operation that may be sent; of the stores, the oldest.
LEMMA CandidateIs ==
  ASSUME IInv, NEW op \in Memory, Sending(op)
  PROVE  /\ Candidate(op) \in Place /\ Candidate(op)[1] = op /\ Used(Candidate(op)) /\ Sendable(Candidate(op))
         /\ op = "STORE" => Distance(Candidate(op)) = 0
<1> USE DEF IInv
<1>1. memory_executed[op] # 0 /\ Candidate(op) # NULL
  BY DEF Sending
<1>2. CASE oldest_to_send[op] # NULL
  <2>1. Candidate(op) = oldest_to_send[op] /\ oldest_to_send[op] \in Place
    BY <1>2 DEF Candidate, StageShape
  <2> QED BY <1>2, <2>1 DEF CandidateInv
<1>3. CASE oldest_to_send[op] = NULL
  <2>1. Candidate(op) = get_next_op(op)
    BY <1>3 DEF Candidate
  <2> DEFINE last == (IF op = "STORE" THEN 1 ELSE mob_used[op]) - 1
             Found(k) == Sendable(PlaceOf(op, mob_start[op], k))
             Good(k) == Found(k) /\ \A j \in 0 .. k - 1 : ~Found(j)
  <2>2. get_next_op(op) = IF \E k \in 0 .. last : Found(k)
                          THEN PlaceOf(op, mob_start[op], CHOOSE k \in 0 .. last : Good(k))
                          ELSE NULL
    BY DEF get_next_op
  <2>3. MOB[op] # 0
    <3>1. ExecutedOf(op) # {}
      BY <1>1, FS_EmptySet DEF CountInv
    <3>2. PICK p \in Place : p[1] = op
      BY <3>1 DEF ExecutedOf
    <3> QED BY <3>2, PlaceType
  <2>4. MOB[op] \in Nat \ {0} /\ mob_used[op] \in 0 .. MOB[op]
    BY <2>3, StartType, MobSize
  <2>5. last \in Int /\ last <= MOB[op] - 1 /\ (op = "STORE" => last = 0)
    BY <2>4
  <2> HIDE DEF last, Found
  <2>6. \E k \in 0 .. last : Found(k)
    BY <1>1, <2>1, <2>2
  <2>7. \E k \in 0 .. last : Good(k)
    <3> DEFINE S == {k \in 0 .. last : Found(k)}
    <3>1. S \in SUBSET Nat /\ S # {}
      BY <2>6
    <3>2. PICK m \in S : \A k \in S : m <= k
      <4> HIDE DEF S
      <4> QED BY <3>1, LeastNumber
    <3>3. \A j \in 0 .. m - 1 : j \in 0 .. last /\ ~(m <= j)
      BY <2>5, <3>1, <3>2
    <3> QED BY <3>2, <3>3
  <2>8. PICK k \in 0 .. last : Good(k) /\ k = CHOOSE j \in 0 .. last : Good(j)
    <3> HIDE DEF Good
    <3> QED BY <2>7, Zenon
  <2>9. Candidate(op) = PlaceOf(op, mob_start[op], k)
    BY <2>1, <2>2, <2>6, <2>8
  <2>10. k \in 0 .. MOB[op] - 1 /\ (op = "STORE" => k = 0)
    BY <2>4, <2>5
  <2>11. Candidate(op) \in Place /\ Candidate(op)[1] = op /\ Distance(Candidate(op)) = k
    BY <2>9, <2>10, DistanceFromStart
  <2>12. Sendable(Candidate(op))
    BY <2>8, <2>9 DEF Found
  <2> QED BY <2>10, <2>11, <2>12 DEF Sendable, Used
<1> QED BY <1>2, <1>3

LEMMA RobUnchanged ==
  ASSUME IInv, UNCHANGED robVars, UNCHANGED <<register_alias_table, renameCounter>>
  PROVE  /\ RobShape' /\ RobInv' /\ LineWaitInv' /\ AliasInv' /\ RobFrame /\ StageFrame /\ StoreFrame
         /\ rob' = rob
<1> USE DEF IInv
<1>1. rob' = rob /\ robStart' = robStart /\ robUsed' = robUsed
  BY DEF robVars
<1>2. RobShape' /\ RobFrame /\ StageFrame /\ StoreFrame
  BY <1>1 DEF RobShape, RobFrame, StageFrame, StoreFrame, RobInv
<1>3. RobInv'
  BY <1>2, FrameKeepsRob
<1>4. LineWaitInv'
  BY <1>1 DEF LineWaitInv, Busy, Pending
<1>5. AliasInv'
  BY <1>1 DEF AliasInv, Named, Unnamed, Busy, Writes, Pending, Before
<1> QED BY <1>1, <1>2, <1>3, <1>4, <1>5

LEMMA QuietKeeps ==
  ASSUME IInv,
         UNCHANGED <<robVars, register_alias_table, stationVars, mobVars, memory_executed, renameCounter>>,
         oldest_to_send' \in [Memory -> Place \cup {NULL}], CandidateInv'
  PROVE  IInv'
<1> USE DEF IInv
<1>1. /\ RobShape' /\ RobInv' /\ LineWaitInv' /\ AliasInv' /\ RobFrame /\ StageFrame /\ StoreFrame
      /\ rob' = rob
  BY RobUnchanged
<1>2. /\ MobShape' /\ PlaceWaitInv' /\ TableInv' /\ PlaceFrame /\ mob' = mob
      /\ \A p \in Place : mob'[p] = mob[p]
  BY MobUnchanged DEF mobVars
<1>3. unified_reservation_station' = unified_reservation_station /\ unified_functional_units' = unified_functional_units
  BY DEF stationVars
<1>4. StageShape'
  BY <1>3 DEF StageShape
<1>5. PlaceInv' /\ OwnerInv' /\ OrderInv'
  BY <1>1, <1>2, FrameKeepsPlaces
<1>6. StageInv'
  BY <1>1, <1>2, <1>3, StagesKept
<1>7. EntryInv'
  BY <1>1, <1>2, EntriesKept
<1>8. DoneInv'
  BY <1>1, <1>2, DoneKept
<1>9. CountInv'
  BY <1>2, CountKept
<1> QED BY <1>1, <1>2, <1>4, <1>5, <1>6, <1>7, <1>8, <1>9

LEMMA UnavailableKeeps ==
  ASSUME IInv, NEW op \in Memory, mob_unavailable(op)
  PROVE  IInv'
<1>1. /\ Sending(op) /\ oldest_to_send' = [oldest_to_send EXCEPT ![op] = Candidate(op)]
      /\ UNCHANGED <<robVars, register_alias_table, stationVars, mobVars, memory_executed, renameCounter>>
  BY DEF mob_unavailable
<1>2. PICK c \in Place : c = Candidate(op)
  BY <1>1, CandidateIs
<1>3. c[1] = op /\ Used(c) /\ Sendable(c) /\ (op = "STORE" => Distance(c) = 0)
  BY <1>1, <1>2, CandidateIs
<1>4. oldest_to_send \in [Memory -> Place \cup {NULL}] /\ oldest_to_send' = [oldest_to_send EXCEPT ![op] = c]
  BY <1>1, <1>2 DEF IInv, StageShape
<1>5. oldest_to_send' \in [Memory -> Place \cup {NULL}]
  BY <1>4
<1>6. mob' = mob /\ mob_start' = mob_start
  BY <1>1 DEF mobVars
<1>7. CandidateInv'
  <2> SUFFICES ASSUME NEW o \in Memory, NEW p, p = oldest_to_send'[o], p # NULL
               PROVE  p[1] = o /\ Used(p)' /\ Sendable(p)' /\ (o = "STORE" => Distance(p)' = 0)
    BY DEF CandidateInv, Used, Sendable, Distance
  <2>1. Used(p)' = Used(p) /\ Sendable(p)' = Sendable(p) /\ Distance(p)' = Distance(p)
    BY <1>6 DEF Used, Sendable, Distance
  <2>2. CASE o = op
    BY <1>3, <1>4, <2>1, <2>2
  <2>3. CASE o # op
    <3>1. p = oldest_to_send[o]
      BY <1>4, <2>3
    <3> QED BY <2>1, <3>1 DEF IInv, CandidateInv
  <2> QED BY <2>2, <2>3
<1> QED BY <1>1, <1>5, <1>7, QuietKeeps

LEMMA RefusedKeeps ==
  ASSUME IInv, NEW op \in Memory, mob_refused(op)
  PROVE  IInv'
<1>1. /\ oldest_to_send' = [oldest_to_send EXCEPT ![op] = NULL]
      /\ UNCHANGED <<robVars, register_alias_table, stationVars, mobVars, memory_executed, renameCounter>>
  BY DEF mob_refused, Dropped
<1>2. oldest_to_send' \in [Memory -> Place \cup {NULL}]
  BY <1>1 DEF IInv, StageShape
<1>3. mob' = mob /\ mob_start' = mob_start
  BY <1>1 DEF mobVars
<1>4. \A o \in Memory : oldest_to_send'[o] # NULL => oldest_to_send'[o] = oldest_to_send[o]
  BY <1>1 DEF IInv, StageShape
<1>5. CandidateInv'
  BY <1>3, <1>4, CandidatesKept DEF IInv, Sendable
<1> QED BY <1>1, <1>2, <1>5, QuietKeeps

LEMMA SendKeeps ==
  ASSUME IInv, NEW op \in Memory, mob_send(op)
  PROVE  IInv'
<1> USE DEF IInv
<1>1. PICK p \in Place : p = Candidate(op)
  BY CandidateIs DEF mob_send
<1>2. p[1] = op /\ Used(p) /\ Sendable(p) /\ op # "STORE"
  BY <1>1, CandidateIs DEF mob_send
<1>3. /\ mob' = [mob EXCEPT ![p].sent = TRUE]
      /\ rob' = [rob EXCEPT ![Owner(p)].sent = TRUE]
      /\ oldest_to_send' = [oldest_to_send EXCEPT ![op] = NULL]
      /\ robStart' = robStart /\ robUsed' = robUsed /\ register_alias_table' = register_alias_table
      /\ UNCHANGED stationVars /\ mob_start' = mob_start /\ mob_used' = mob_used
      /\ load_hash' = load_hash /\ store_hash' = store_hash /\ memory_executed' = memory_executed
      /\ renameCounter' = renameCounter
  BY <1>1 DEF mob_send, Taken, Dropped, Owner
<1>4. PICK s \in Slot : s = Owner(p)
  BY <1>2, OwnedPlace
<1>5. IsMemory(s) /\ Busy(s)
  BY <1>2, <1>4, OwnedPlace DEF IsMemory
<1>6. EntryOK(p)
  BY DEF EntryInv
<1>7. /\ rob' \in [Slot -> LineShape]
      /\ \A x \in Slot :
           /\ rob'[x].uop = rob[x].uop /\ rob'[x].uop_number = rob[x].uop_number
           /\ rob'[x].pos_mob = rob[x].pos_mob /\ rob'[x].sent = (IF x = s THEN TRUE ELSE rob[x].sent)
           /\ rob'[x].stage = rob[x].stage
           /\ rob'[x].waiting_mem_request = rob[x].waiting_mem_request
           /\ rob'[x].wait_reg_deps_number = rob[x].wait_reg_deps_number
           /\ rob'[x].reg_deps_ptr_array = rob[x].reg_deps_ptr_array
  <2>1. rob \in [Slot -> LineShape] /\ rob[s] \in LineShape
    BY DEF RobShape
  <2>2. rob' = [rob EXCEPT ![s] = [rob[s] EXCEPT !.sent = TRUE]]
    BY <1>3, <1>4, Zenon
  <2>3. \A x \in Slot : rob[x].sent \in BOOLEAN
    BY <2>1 DEF LineShape
  <2> QED BY <2>1, <2>2, <2>3 DEF LineShape
<1>8. /\ mob' \in [Place -> EntryShape]
      /\ \A x \in Place :
           /\ mob'[x].status = mob[x].status /\ mob'[x].rob_ptr = mob[x].rob_ptr /\ mob'[x].access = mob[x].access
           /\ mob'[x].uop_executed = mob[x].uop_executed
           /\ mob'[x].processed = mob[x].processed /\ mob'[x].sent = (mob[x].sent \/ x = p)
           /\ mob'[x].wait_mem_deps_number = mob[x].wait_mem_deps_number
           /\ mob'[x].mem_deps_ptr_array = mob[x].mem_deps_ptr_array
  <2>1. mob \in [Place -> EntryShape] /\ mob[p] \in EntryShape
    BY DEF MobShape
  <2>2. mob' = [mob EXCEPT ![p] = [mob[p] EXCEPT !.sent = TRUE]]
    BY <1>3, Zenon
  <2>3. \A x \in Place : mob[x].sent \in BOOLEAN
    BY <2>1, EntryTypes
  <2> QED BY <2>1, <2>2, <2>3 DEF EntryShape
<1>9. LineStep(s, FALSE)
  <2>1. LineBase(rob')
    BY <1>5, <1>7 DEF LineBase
  <2> QED BY <1>3, <1>7, <2>1, LineBaseStep
<1>10. /\ RobShape' /\ RobFrame /\ StageFrame /\ RobInv'
       /\ register_alias_table' \in [Register -> Slot \cup {NULL}]
  BY <1>5, <1>9, LineStepFrame
<1>11. LineWaitInv'
  BY <1>5, <1>9, LineStepWaits
<1>12. AliasInv'
  BY <1>5, <1>9, LineStepAlias
<1>13. MobShape'
  BY <1>3, <1>8 DEF MobShape
<1>14. PlaceFrame
  BY <1>3, <1>8 DEF PlaceFrame, Used
<1>15. StoreFrame
  BY <1>7 DEF StoreFrame
<1>16. PlaceInv' /\ OwnerInv' /\ OrderInv'
  BY <1>10, <1>14, <1>15, FrameKeepsPlaces
<1>17. oldest_to_send' \in [Memory -> Place \cup {NULL}]
       /\ \A o \in Memory : oldest_to_send'[o] # NULL => oldest_to_send'[o] = oldest_to_send[o] /\ o # op
  BY <1>3 DEF StageShape
<1>18. unified_reservation_station' = unified_reservation_station /\ unified_functional_units' = unified_functional_units
  BY <1>3 DEF stationVars
<1>19. StageShape'
  BY <1>3, <1>17, <1>18 DEF StageShape
<1>20. StageInv'
  BY <1>7, <1>8, <1>10, <1>14, <1>15, <1>18, StagesKept
<1>21. EntryInv'
  <2> SUFFICES ASSUME NEW x \in Place PROVE EntryOK(x)'
    BY DEF EntryInv
  <2>1. EntryOK(x)
    BY DEF EntryInv
  <2>2. Used(x)' = Used(x) /\ Owner(x)' = Owner(x)
    BY <1>8 DEF Used, Owner
  <2>3. CASE x = p
    BY <1>2, <1>4, <1>7, <1>8, <2>1, <2>2, <2>3 DEF EntryOK, Sendable
  <2>4. CASE x # p
    <3>1. Used(x) => Owner(x) \in Slot
      BY OwnedPlace
    <3>2. Used(x) /\ rob[Owner(x)].sent => rob'[Owner(x)].sent
      BY <1>7, <3>1
    <3> QED BY <1>8, <2>1, <2>2, <2>4, <3>2 DEF EntryOK
  <2> QED BY <2>3, <2>4
<1>22. DoneInv'
  BY <1>7, <1>8, <1>10, <1>14, DoneKept
<1>23. CountInv'
  BY <1>3, <1>8, CountKept
<1>24. CandidateInv'
  <2>1. \A x \in Place : x = oldest_to_send'[x[1]] /\ Sendable(x) => Sendable(x)'
    <3> TAKE x \in Place
    <3> HAVE x = oldest_to_send'[x[1]] /\ Sendable(x)
    <3>1. x[1] \in Memory /\ x # NULL
      BY PlaceType, NullAssumption
    <3>2. x # p
      BY <1>2, <1>17, <3>1
    <3> QED BY <1>8, <3>2 DEF Sendable
  <2> QED BY <1>3, <1>17, <2>1, CandidatesKept
<1>25. PlaceWaitInv'
  BY <1>8, PlacesIdle DEF Used
<1>26. TableInv'
  BY <1>3, <1>8, TablesIdle DEF Used
<1> QED BY <1>10, <1>11, <1>12, <1>13, <1>16, <1>19, <1>20, <1>21, <1>22, <1>23, <1>24, <1>25, <1>26

LEMMA AnswerKeeps ==
  ASSUME IInv, NEW p \in Place, Answer(p)
  PROVE  IInv'
<1> USE DEF IInv
<1>1. /\ p[1] # "STORE" /\ mob[p].sent /\ mob[p].status = "WAIT"
      /\ mob' = [mob EXCEPT ![p].status = "READY"]
      /\ UNCHANGED <<register_alias_table, renameCounter>> /\ UNCHANGED robVars
      /\ UNCHANGED stationVars /\ mob_start' = mob_start /\ mob_used' = mob_used
      /\ load_hash' = load_hash /\ store_hash' = store_hash
      /\ memory_executed' = memory_executed /\ oldest_to_send' = oldest_to_send
  BY DEF Answer, sendVars
<1>2. /\ RobShape' /\ RobInv' /\ LineWaitInv' /\ AliasInv' /\ RobFrame /\ StageFrame /\ StoreFrame
      /\ rob' = rob
  BY <1>1, RobUnchanged
<1>3. /\ mob' \in [Place -> EntryShape]
      /\ \A x \in Place :
           /\ mob'[x].status = (IF x = p THEN "READY" ELSE mob[x].status)
           /\ mob'[x].rob_ptr = mob[x].rob_ptr /\ mob'[x].access = mob[x].access
           /\ mob'[x].uop_executed = mob[x].uop_executed
           /\ mob'[x].processed = mob[x].processed /\ mob'[x].sent = mob[x].sent
           /\ mob'[x].wait_mem_deps_number = mob[x].wait_mem_deps_number
           /\ mob'[x].mem_deps_ptr_array = mob[x].mem_deps_ptr_array
  <2>1. mob \in [Place -> EntryShape] /\ mob[p] \in EntryShape
    BY DEF MobShape
  <2>2. mob' = [mob EXCEPT ![p] = [mob[p] EXCEPT !.status = "READY"]]
    BY <1>1, Zenon
  <2> QED BY <2>1, <2>2 DEF EntryShape
<1>4. \A x \in Place : Used(x)' = Used(x) /\ Owner(x)' = Owner(x)
  BY <1>1, <1>3 DEF Used, Owner
<1>5. MobShape' /\ PlaceFrame
  BY <1>1, <1>3, <1>4 DEF MobShape, PlaceFrame
<1>6. PlaceInv' /\ OwnerInv' /\ OrderInv'
  BY <1>2, <1>5, FrameKeepsPlaces
<1>7. unified_reservation_station' = unified_reservation_station /\ unified_functional_units' = unified_functional_units
  BY <1>1 DEF stationVars
<1>8. StageShape'
  BY <1>1, <1>7 DEF StageShape
<1>9. StageInv'
  BY <1>2, <1>3, <1>5, <1>7, StagesKept
<1>10. EntryInv'
  <2> SUFFICES ASSUME NEW x \in Place PROVE EntryOK(x)'
    BY DEF EntryInv
  <2>1. EntryOK(x)
    BY DEF EntryInv
  <2> QED BY <1>1, <1>2, <1>3, <1>4, <2>1 DEF EntryOK
<1>11. DoneInv'
  BY <1>2, <1>3, <1>5, DoneKept
<1>12. CountInv'
  BY <1>1, <1>3, CountKept
<1>13. CandidateInv'
  <2>1. \A x \in Place : Sendable(x) => Sendable(x)'
    BY <1>1, <1>3 DEF Sendable
  <2> QED BY <1>1, <2>1, CandidatesKept
<1>14. PlaceWaitInv'
  BY <1>3, <1>4, PlacesIdle
<1>15. TableInv'
  BY <1>1, <1>3, <1>4, TablesIdle
<1> QED BY <1>2, <1>5, <1>6, <1>8, <1>9, <1>10, <1>11, <1>12, <1>13, <1>14, <1>15

-----------------------------------------------------------------------------
(* An answer is consumed.                                                  *)

\* The lines once those in R are marked as sent.
LEMMA ReceiversIs ==
  ASSUME RobShape, NEW R \in SUBSET Slot, \A x \in R : Busy(x),
         NEW lines, lines = [x \in Slot |-> [rob[x] EXCEPT !.sent = @ \/ x \in R]]
  PROVE  /\ LineBase(lines)
         /\ \A x \in Slot : /\ lines[x].stage = rob[x].stage
                            /\ lines[x].waiting_mem_request = rob[x].waiting_mem_request
                            /\ lines[x].sent = (rob[x].sent \/ x \in R)
<1>1. rob \in [Slot -> LineShape]
  BY DEF RobShape
<1>2. ASSUME NEW x \in Slot
      PROVE  /\ lines[x] \in LineShape
             /\ lines[x].uop = rob[x].uop /\ lines[x].uop_number = rob[x].uop_number
             /\ lines[x].pos_mob = rob[x].pos_mob
             /\ lines[x].wait_reg_deps_number = rob[x].wait_reg_deps_number
             /\ lines[x].reg_deps_ptr_array = rob[x].reg_deps_ptr_array
             /\ ~Busy(x) => lines[x].sent = rob[x].sent
             /\ rob[x].sent => lines[x].sent
             /\ lines[x].stage = rob[x].stage
             /\ lines[x].waiting_mem_request = rob[x].waiting_mem_request
             /\ lines[x].sent = (rob[x].sent \/ x \in R)
  <2>1. rob[x] \in LineShape
    BY <1>1
  <2>2. PICK b \in BOOLEAN : b = (rob[x].sent \/ x \in R)
    BY <2>1 DEF LineShape
  <2>3. lines[x] = [rob[x] EXCEPT !.sent = b]
    BY <2>2, Zenon
  <2>4. rob[x].sent \in BOOLEAN
    BY <2>1 DEF LineShape
  <2> QED BY <2>1, <2>2, <2>3, <2>4 DEF LineShape
<1>3. lines \in [Slot -> LineShape]
  BY <1>2
<1> QED BY <1>2, <1>3 DEF LineBase

Receiving(lines, R) ==
  /\ RobShape /\ R \in SUBSET Slot /\ \A x \in R : Busy(x)
  /\ lines = [x \in Slot |-> [rob[x] EXCEPT !.sent = @ \/ x \in R]]

LEMMA MarkedIs ==
  \A lines, R : Receiving(lines, R) =>
    /\ LineBase(lines)
    /\ \A x \in Slot : /\ lines[x].stage = rob[x].stage
                       /\ lines[x].waiting_mem_request = rob[x].waiting_mem_request
                       /\ lines[x].sent = (rob[x].sent \/ x \in R)
<1> TAKE lines, R
<1> HAVE Receiving(lines, R)
<1>1. RobShape /\ R \in SUBSET Slot /\ \A x \in R : Busy(x)
  BY DEF Receiving
<1>2. lines = [x \in Slot |-> [rob[x] EXCEPT !.sent = @ \/ x \in R]]
  BY DEF Receiving
<1> QED BY <1>1, <1>2, ReceiversIs

\* The operation at p, and the uop it is of.
CleanedFacts(p, s) ==
  /\ p[1] \in Memory /\ p[1] # "STORE" /\ Used(p) /\ s = Owner(p)
  /\ mob[p].status = "READY" /\ ~mob[p].processed /\ mob[p].uop_executed
  /\ mob[p].wait_mem_deps_number = 0
  /\ IsMemory(s) /\ Busy(s) /\ Kind(s) = p[1] /\ rob[s].stage = "EXECUTION"
  /\ \A w \in Forwarded(mob, p) :
       /\ w \in Place /\ w # p /\ Used(w) /\ w[1] = "LOAD" /\ mob[w].uop_executed /\ ~mob[w].processed
       /\ Owner(w) \in Slot /\ Busy(Owner(w)) /\ StillWaits(mob, p, w) = 0
       /\ mob[w].wait_mem_deps_number # 0

LEMMA ForwardedIs ==
  ASSUME IInv, NEW p \in Place, mob[p].wait_mem_deps_number = 0
  PROVE  \A w \in Forwarded(mob, p) :
           /\ w \in Place /\ w # p /\ Used(w) /\ w[1] = "LOAD" /\ mob[w].uop_executed /\ ~mob[w].processed
           /\ Owner(w) \in Slot /\ Busy(Owner(w)) /\ StillWaits(mob, p, w) = 0
           /\ mob[w].wait_mem_deps_number # 0
<1> USE DEF IInv
<1> TAKE w \in Forwarded(mob, p)
<1>1. mob \in [Place -> EntryShape]
  BY DEF MobShape
<1>2. w \in Place
  BY <1>1, ForwardedSame
<1>3. /\ w \in ToSet(mob[p].mem_deps_ptr_array) /\ w[1] = "LOAD" /\ mob[w].uop_executed
      /\ StillWaits(mob, p, w) = 0
  BY DEF Forwarded
<1>4. mob[w].wait_mem_deps_number # 0
  BY <1>2, <1>3, PlacePointedAt
<1>5. EntryOK(w)
  BY <1>2 DEF EntryInv
<1>6. Used(w)
  BY <1>3, <1>5 DEF EntryOK
<1>7. ~mob[w].processed
  BY <1>4, <1>5, <1>6 DEF EntryOK
<1>8. Owner(w) \in Slot /\ Busy(Owner(w))
  BY <1>2, <1>6, OwnedPlace DEF IsMemory
<1> QED BY <1>2, <1>3, <1>4, <1>6, <1>7, <1>8

LEMMA OpenFinite == \A s : IsFiniteSet(Open(s))
<1> TAKE s
<1>1. Open(s) \subseteq Place
  BY DEF Open
<1> QED BY <1>1, PlaceFinite, FS_Subset

LEMMA CleanedIs ==
  ASSUME IInv, NEW p \in Place, clean_mob(p)
  PROVE  Owner(p) \in Slot /\ CleanedFacts(p, Owner(p))
<1> USE DEF IInv
<1> DEFINE s == Owner(p)
<1>1. mob[p].status = "READY" /\ ~mob[p].processed
  BY DEF clean_mob
<1>2. EntryOK(p) /\ Used(p)
  BY <1>1 DEF EntryInv, Used
<1>3. mob[p].uop_executed /\ mob[p].sent /\ mob[p].wait_mem_deps_number = 0 /\ p[1] # "STORE"
  BY <1>1, <1>2 DEF EntryOK
<1>4. s \in Slot /\ IsMemory(s) /\ Kind(s) = p[1] /\ p[1] \in Memory
  BY <1>2, OwnedPlace, PlaceType
<1>5. PICK i \in 0 .. Count(s) - 1 : p = Nth(s, i)
  BY <1>2, OwnedPlace
<1> HIDE DEF s
<1>6. Busy(s) /\ rob[s].stage # "DECODE"
  BY <1>4 DEF IsMemory, RobInv
<1>7. rob[s].stage # "RENAME"
  BY <1>2, <1>3, <1>4 DEF StageInv, Waiting, s
<1>8. rob[s].stage # "COMMIT"
  <2>1. CASE p[1] = "LOAD"
    <3>1. p \in Open(s)
      BY <1>1, <1>2 DEF Open, s
    <3>2. Cardinality(Open(s)) # 0
      BY <3>1, OpenFinite, FS_EmptySet
    <3> QED BY <1>4, <2>1, <3>2 DEF DoneInv
  <2>2. CASE p[1] # "LOAD"
    <3>1. p[1] \in {"HIVE", "VIMA"}
      BY <1>3, <1>4, <2>2 DEF Memory
    <3>2. Count(s) = 1
      BY <1>4, <3>1, MemoryUop, UopAssumption DEF Count, Kind
    <3>3. p = Nth(s, 0)
      BY <1>5, <3>2
    <3> QED BY <1>1, <1>4, <3>1, <3>3 DEF DoneInv
  <2> QED BY <2>1, <2>2
<1>9. rob[s].stage = "EXECUTION"
  BY <1>4, <1>6, <1>7, <1>8 DEF RobShape, LineShape
<1>10. \A w \in Forwarded(mob, p) :
           /\ w \in Place /\ w # p /\ Used(w) /\ w[1] = "LOAD" /\ mob[w].uop_executed /\ ~mob[w].processed
           /\ Owner(w) \in Slot /\ Busy(Owner(w)) /\ StillWaits(mob, p, w) = 0
           /\ mob[w].wait_mem_deps_number # 0
  BY <1>3, ForwardedIs
<1> QED BY <1>1, <1>2, <1>3, <1>4, <1>6, <1>9, <1>10 DEF CleanedFacts, s

\* What an answer at p does to the places, those in F taking their data.
Wakes(p, F) ==
  /\ mob' \in [Place -> EntryShape]
  /\ \A x \in Place :
       /\ mob'[x].rob_ptr = mob[x].rob_ptr /\ mob'[x].access = mob[x].access
       /\ mob'[x].uop_executed = mob[x].uop_executed
       /\ mob'[x].processed = IF x = p THEN TRUE ELSE mob[x].processed
       /\ mob'[x].wait_mem_deps_number = mob[x].wait_mem_deps_number - Times(x, mob[p].mem_deps_ptr_array)
       /\ mob'[x].mem_deps_ptr_array = IF x = p THEN <<>> ELSE mob[x].mem_deps_ptr_array
       /\ mob'[x].status = IF x \in F THEN "READY" ELSE mob[x].status
       /\ mob'[x].sent = (mob[x].sent \/ x \in F)

\* The tables forget p.
TablesForget(p) ==
  /\ load_hash' \in [0 .. LOAD_HASH_SIZE - 1 -> Place \cup {NULL}]
  /\ store_hash' \in [0 .. STORE_HASH_SIZE - 1 -> Place \cup {NULL}]
  /\ \A b \in 0 .. LOAD_HASH_SIZE - 1 : load_hash'[b] # NULL => load_hash'[b] = load_hash[b] /\ load_hash[b] # p
  /\ \A b \in 0 .. STORE_HASH_SIZE - 1 : store_hash'[b] # NULL => store_hash'[b] = store_hash[b] /\ store_hash[b] # p
  /\ \A b \in 0 .. LOAD_HASH_SIZE - 1 : load_hash'[b] = NULL => load_hash[b] \in {NULL, p}
  /\ \A b \in 0 .. STORE_HASH_SIZE - 1 : store_hash'[b] = NULL => store_hash[b] \in {NULL, p}

LEMMA ForgetsPlace ==
  ASSUME MobShape, TableInv, NEW p \in Place,
         load_hash' = IF p[1] = "LOAD" THEN Forget(load_hash, LoadHash(mob[p].access.address), p) ELSE load_hash,
         store_hash' = IF p[1] = "LOAD" THEN store_hash ELSE Forget(store_hash, StoreHash(mob[p].access.address), p)
  PROVE  TablesForget(p)
<1>1. /\ load_hash \in [0 .. LOAD_HASH_SIZE - 1 -> Place \cup {NULL}]
      /\ store_hash \in [0 .. STORE_HASH_SIZE - 1 -> Place \cup {NULL}]
  BY DEF MobShape
<1>2. /\ load_hash' \in [0 .. LOAD_HASH_SIZE - 1 -> Place \cup {NULL}]
      /\ \A b \in 0 .. LOAD_HASH_SIZE - 1 : load_hash'[b] # NULL => load_hash'[b] = load_hash[b] /\ load_hash[b] # p
      /\ \A b \in 0 .. LOAD_HASH_SIZE - 1 : load_hash'[b] = NULL => load_hash[b] \in {NULL, p}
  <2>1. CASE p[1] = "LOAD"
    <3>1. load_hash' = Forget(load_hash, LoadHash(mob[p].access.address), p)
      BY <2>1
    <3>2. /\ load_hash' \in [0 .. LOAD_HASH_SIZE - 1 -> Place \cup {NULL}]
          /\ \A b \in 0 .. LOAD_HASH_SIZE - 1 :
               load_hash'[b] = IF b = LoadHash(mob[p].access.address) /\ load_hash[b] = p THEN NULL ELSE load_hash[b]
      <4>1. CASE load_hash[LoadHash(mob[p].access.address)] = p
        BY <1>1, <3>1, <4>1 DEF Forget
      <4>2. CASE load_hash[LoadHash(mob[p].access.address)] # p
        BY <1>1, <3>1, <4>2 DEF Forget
      <4> QED BY <4>1, <4>2
    <3>3. \A b \in 0 .. LOAD_HASH_SIZE - 1 : load_hash[b] # NULL => LoadHash(mob[load_hash[b]].access.address) = b
      BY DEF TableInv
    <3>4. \A b \in 0 .. LOAD_HASH_SIZE - 1 : load_hash'[b] # NULL => load_hash'[b] = load_hash[b] /\ load_hash[b] # p
      <4> TAKE b \in 0 .. LOAD_HASH_SIZE - 1
      <4> HAVE load_hash'[b] # NULL
      <4>1. ~(b = LoadHash(mob[p].access.address) /\ load_hash[b] = p) /\ load_hash'[b] = load_hash[b]
        BY <3>2
      <4>2. LoadHash(mob[load_hash[b]].access.address) = b
        BY <3>3, <4>1
      <4> QED BY <4>1, <4>2, Zenon
    <3> QED BY <3>2, <3>4
  <2>2. CASE p[1] # "LOAD"
    <3>1. load_hash' = load_hash
      BY <2>2
    <3>2. \A b \in 0 .. LOAD_HASH_SIZE - 1 : load_hash[b] # NULL => load_hash[b][1] = "LOAD"
      BY DEF TableInv
    <3> QED BY <1>1, <2>2, <3>1, <3>2
  <2> QED BY <2>1, <2>2
<1>3. /\ store_hash' \in [0 .. STORE_HASH_SIZE - 1 -> Place \cup {NULL}]
      /\ \A b \in 0 .. STORE_HASH_SIZE - 1 : store_hash'[b] # NULL => store_hash'[b] = store_hash[b] /\ store_hash[b] # p
      /\ \A b \in 0 .. STORE_HASH_SIZE - 1 : store_hash'[b] = NULL => store_hash[b] \in {NULL, p}
  <2>1. CASE p[1] # "LOAD"
    <3>1. store_hash' = Forget(store_hash, StoreHash(mob[p].access.address), p)
      BY <2>1
    <3>2. /\ store_hash' \in [0 .. STORE_HASH_SIZE - 1 -> Place \cup {NULL}]
          /\ \A b \in 0 .. STORE_HASH_SIZE - 1 :
               store_hash'[b] = IF b = StoreHash(mob[p].access.address) /\ store_hash[b] = p THEN NULL ELSE store_hash[b]
      <4>1. CASE store_hash[StoreHash(mob[p].access.address)] = p
        BY <1>1, <3>1, <4>1 DEF Forget
      <4>2. CASE store_hash[StoreHash(mob[p].access.address)] # p
        BY <1>1, <3>1, <4>2 DEF Forget
      <4> QED BY <4>1, <4>2
    <3>3. \A b \in 0 .. STORE_HASH_SIZE - 1 : store_hash[b] # NULL => StoreHash(mob[store_hash[b]].access.address) = b
      BY DEF TableInv
    <3>4. \A b \in 0 .. STORE_HASH_SIZE - 1 : store_hash'[b] # NULL => store_hash'[b] = store_hash[b] /\ store_hash[b] # p
      <4> TAKE b \in 0 .. STORE_HASH_SIZE - 1
      <4> HAVE store_hash'[b] # NULL
      <4>1. ~(b = StoreHash(mob[p].access.address) /\ store_hash[b] = p) /\ store_hash'[b] = store_hash[b]
        BY <3>2
      <4>2. StoreHash(mob[store_hash[b]].access.address) = b
        BY <3>3, <4>1
      <4> QED BY <4>1, <4>2, Zenon
    <3> QED BY <3>2, <3>4
  <2>2. CASE p[1] = "LOAD"
    <3>1. store_hash' = store_hash
      BY <2>2
    <3>2. \A b \in 0 .. STORE_HASH_SIZE - 1 : store_hash[b] # NULL => store_hash[b][1] = "STORE"
      BY DEF TableInv
    <3> QED BY <1>1, <2>2, <3>1, <3>2
  <2> QED BY <2>1, <2>2
<1> QED BY <1>2, <1>3 DEF TablesForget

\* The effect of clean_mob on the lines: s completes an operation.
LEMMA CleanLines ==
  ASSUME IInv, NEW p \in Place, clean_mob(p), NEW s \in Slot, s = Owner(p)
  PROVE  \E done \in BOOLEAN :
           /\ LineStep(s, done)
           /\ p[1] = "LOAD" => (done <=> rob[s].waiting_mem_request - 1 = 0)
           /\ p[1] # "LOAD" => done
           /\ \A x \in Slot :
                /\ rob'[x].waiting_mem_request =
                     IF p[1] = "LOAD" /\ x = s THEN rob[x].waiting_mem_request - 1 ELSE rob[x].waiting_mem_request
                /\ rob'[x].sent = (rob[x].sent \/ \E w \in Forwarded(mob, p) : Owner(w) = x)
<1> USE DEF IInv
<1>1. CleanedFacts(p, s)
  BY CleanedIs
<1> DEFINE R == {Owner(w) : w \in Forwarded(mob, p)}
<1>2. PICK lines : lines = [x \in Slot |-> [rob[x] EXCEPT !.sent = @ \/ x \in R]]
  OBVIOUS
<1>3. R \in SUBSET Slot /\ \A x \in R : Busy(x)
  BY <1>1 DEF CleanedFacts
<1>4. \A x \in Slot : x \in R <=> \E w \in Forwarded(mob, p) : Owner(w) = x
  OBVIOUS
<1>5. /\ IF p[1] = "LOAD" THEN CompleteOne(lines, s)
         ELSE solve_registers_dependency([lines EXCEPT ![s].stage = "COMMIT"], s)
      /\ UNCHANGED <<robStart, robUsed, renameCounter>>
  BY <1>2 DEF clean_mob, Owner
<1> HIDE DEF R
<1>6. /\ LineBase(lines)
      /\ \A x \in Slot : /\ lines[x].stage = rob[x].stage
                         /\ lines[x].waiting_mem_request = rob[x].waiting_mem_request
                         /\ lines[x].sent = (rob[x].sent \/ x \in R)
  <2>1. Receiving(lines, R)
    BY <1>2, <1>3 DEF Receiving
  <2> QED BY <2>1, MarkedIs, Zenon
<1>7. CASE p[1] = "LOAD"
  <2> DEFINE done == rob[s].waiting_mem_request - 1 = 0
  <2>1. /\ LineStep(s, done)
        /\ \A x \in Slot : /\ rob'[x].waiting_mem_request =
                                 IF x = s THEN rob[x].waiting_mem_request - 1 ELSE rob[x].waiting_mem_request
                           /\ rob'[x].sent = lines[x].sent
    BY <1>5, <1>6, <1>7, CompleteOneIs
  <2>2. done \in BOOLEAN
    OBVIOUS
  <2> HIDE DEF done
  <2>3. \A x \in Slot :
                /\ rob'[x].waiting_mem_request =
                     IF p[1] = "LOAD" /\ x = s THEN rob[x].waiting_mem_request - 1 ELSE rob[x].waiting_mem_request
                /\ rob'[x].sent = (rob[x].sent \/ \E w \in Forwarded(mob, p) : Owner(w) = x)
    BY <1>4, <1>6, <1>7, <2>1
  <2>4. done <=> rob[s].waiting_mem_request - 1 = 0
    BY DEF done
  <2> QED BY <1>7, <2>1, <2>2, <2>3, <2>4
<1>8. CASE p[1] # "LOAD"
  <2>1. PICK after : after = [lines EXCEPT ![s].stage = "COMMIT"]
    OBVIOUS
  <2>2. /\ LineBase(after)
        /\ \A x \in Slot : /\ after[x].stage = IF x = s THEN "COMMIT" ELSE rob[x].stage
                           /\ after[x].waiting_mem_request = rob[x].waiting_mem_request
                           /\ after[x].sent = (rob[x].sent \/ x \in R)
    <3>1. lines \in [Slot -> LineShape] /\ lines[s] \in LineShape
      BY <1>6 DEF LineBase
    <3>2. after = [lines EXCEPT ![s] = [lines[s] EXCEPT !.stage = "COMMIT"]]
      BY <2>1, Zenon
    <3>3. /\ after \in [Slot -> LineShape]
          /\ \A x \in Slot :
               /\ after[x].uop = lines[x].uop /\ after[x].uop_number = lines[x].uop_number
               /\ after[x].pos_mob = lines[x].pos_mob
               /\ after[x].stage = IF x = s THEN "COMMIT" ELSE lines[x].stage
               /\ after[x].waiting_mem_request = lines[x].waiting_mem_request
               /\ after[x].sent = lines[x].sent
               /\ after[x].wait_reg_deps_number = lines[x].wait_reg_deps_number
               /\ after[x].reg_deps_ptr_array = lines[x].reg_deps_ptr_array
      BY <3>1, <3>2 DEF LineShape
    <3> QED BY <1>6, <3>3 DEF LineBase
  <2>3. solve_registers_dependency(after, s)
    BY <1>5, <1>8, <2>1
  <2>4. /\ LineStep(s, TRUE)
        /\ \A x \in Slot : /\ rob'[x].waiting_mem_request = after[x].waiting_mem_request
                           /\ rob'[x].sent = after[x].sent
    BY <1>5, <2>2, <2>3, SolvesLine
  <2>5. \A x \in Slot :
                /\ rob'[x].waiting_mem_request =
                     IF p[1] = "LOAD" /\ x = s THEN rob[x].waiting_mem_request - 1 ELSE rob[x].waiting_mem_request
                /\ rob'[x].sent = (rob[x].sent \/ \E w \in Forwarded(mob, p) : Owner(w) = x)
    BY <1>4, <1>8, <2>2, <2>4
  <2> QED BY <1>8, <2>4, <2>5
<1> QED BY <1>7, <1>8

LEMMA CleanPlaces ==
  ASSUME IInv, NEW p \in Place, clean_mob(p)
  PROVE  Wakes(p, Forwarded(mob, p)) /\ TablesForget(p)
<1> USE DEF IInv
<1>0. mob \in [Place -> EntryShape] /\ mob[p] \in EntryShape
  BY DEF MobShape
<1>1. PICK entries : entries = [mob EXCEPT ![p].processed = TRUE]
  OBVIOUS
<1>2. /\ entries \in [Place -> EntryShape]
      /\ \A x \in Place :
           /\ entries[x].rob_ptr = mob[x].rob_ptr /\ entries[x].access = mob[x].access
           /\ entries[x].uop_executed = mob[x].uop_executed
           /\ entries[x].processed = IF x = p THEN TRUE ELSE mob[x].processed
           /\ entries[x].wait_mem_deps_number = mob[x].wait_mem_deps_number
           /\ entries[x].mem_deps_ptr_array = mob[x].mem_deps_ptr_array
           /\ entries[x].status = mob[x].status /\ entries[x].sent = mob[x].sent
  <2>1. entries = [mob EXCEPT ![p] = [mob[p] EXCEPT !.processed = TRUE]]
    BY <1>1, Zenon
  <2> QED BY <1>0, <2>1 DEF EntryShape
<1>3. PICK d : d = solve_memory_dependences(order(entries), p)
  OBVIOUS
<1>4. mob' = d.mob /\ load_hash' = d.load_hash /\ store_hash' = d.store_hash
  BY <1>1, <1>3 DEF clean_mob, OrderBecomes
<1>5. /\ Forwarded(entries, p) = Forwarded(mob, p)
      /\ \A x \in Place : StillWaits(entries, p, x) = StillWaits(mob, p, x)
  BY <1>0, <1>2, ForwardedSame
<1>6. /\ d.mob \in [Place -> EntryShape]
      /\ \A x \in Place :
              /\ d.mob[x].rob_ptr = entries[x].rob_ptr /\ d.mob[x].access = entries[x].access
              /\ d.mob[x].uop_executed = entries[x].uop_executed /\ d.mob[x].processed = entries[x].processed
              /\ d.mob[x].wait_mem_deps_number = StillWaits(entries, p, x)
              /\ d.mob[x].mem_deps_ptr_array = IF x = p THEN <<>> ELSE entries[x].mem_deps_ptr_array
              /\ d.mob[x].status = IF x \in Forwarded(entries, p) THEN "READY" ELSE entries[x].status
              /\ d.mob[x].sent = (entries[x].sent \/ x \in Forwarded(entries, p))
      /\ d.load_hash = IF p[1] = "LOAD" THEN Forget(load_hash, LoadHash(entries[p].access.address), p) ELSE load_hash
      /\ d.store_hash = IF p[1] = "LOAD" THEN store_hash ELSE Forget(store_hash, StoreHash(entries[p].access.address), p)
  BY <1>2, <1>3, SolveIs
<1>7. Wakes(p, Forwarded(mob, p))
  <2>1. mob' \in [Place -> EntryShape]
    BY <1>4, <1>6
  <2>2. ASSUME NEW x \in Place
        PROVE  /\ mob'[x].rob_ptr = mob[x].rob_ptr /\ mob'[x].access = mob[x].access
               /\ mob'[x].uop_executed = mob[x].uop_executed
               /\ mob'[x].processed = IF x = p THEN TRUE ELSE mob[x].processed
               /\ mob'[x].wait_mem_deps_number = mob[x].wait_mem_deps_number - Times(x, mob[p].mem_deps_ptr_array)
               /\ mob'[x].mem_deps_ptr_array = IF x = p THEN <<>> ELSE mob[x].mem_deps_ptr_array
               /\ mob'[x].status = IF x \in Forwarded(mob, p) THEN "READY" ELSE mob[x].status
               /\ mob'[x].sent = (mob[x].sent \/ x \in Forwarded(mob, p))
    <3>1. mob'[x].wait_mem_deps_number = mob[x].wait_mem_deps_number - Times(x, mob[p].mem_deps_ptr_array)
      <4>1. d.mob[x].wait_mem_deps_number = StillWaits(entries, p, x) /\ StillWaits(entries, p, x) = StillWaits(mob, p, x)
        BY <1>5, <1>6, Zenon
      <4> QED BY <1>4, <4>1, Zenon DEF StillWaits
    <3>2. /\ mob'[x].rob_ptr = mob[x].rob_ptr /\ mob'[x].access = mob[x].access
          /\ mob'[x].uop_executed = mob[x].uop_executed
          /\ mob'[x].processed = IF x = p THEN TRUE ELSE mob[x].processed
          /\ mob'[x].mem_deps_ptr_array = IF x = p THEN <<>> ELSE mob[x].mem_deps_ptr_array
      <4>1. /\ d.mob[x].rob_ptr = entries[x].rob_ptr /\ d.mob[x].access = entries[x].access
            /\ d.mob[x].uop_executed = entries[x].uop_executed /\ d.mob[x].processed = entries[x].processed
            /\ d.mob[x].mem_deps_ptr_array = IF x = p THEN <<>> ELSE entries[x].mem_deps_ptr_array
        BY <1>6, Zenon
      <4>2. /\ entries[x].rob_ptr = mob[x].rob_ptr /\ entries[x].access = mob[x].access
            /\ entries[x].uop_executed = mob[x].uop_executed
            /\ entries[x].processed = IF x = p THEN TRUE ELSE mob[x].processed
            /\ entries[x].mem_deps_ptr_array = mob[x].mem_deps_ptr_array
        BY <1>2, Zenon
      <4> QED BY <1>4, <4>1, <4>2, Zenon
    <3>3. /\ mob'[x].status = IF x \in Forwarded(mob, p) THEN "READY" ELSE mob[x].status
          /\ mob'[x].sent = (mob[x].sent \/ x \in Forwarded(mob, p))
      BY <1>2, <1>4, <1>5, <1>6
    <3> QED BY <3>1, <3>2, <3>3
  <2> QED BY <2>1, <2>2, Zenon DEF Wakes
<1>8. TablesForget(p)
  <2>1. entries[p].access = mob[p].access
    BY <1>2
  <2> QED BY <1>4, <1>6, <2>1, ForgetsPlace
<1> QED BY <1>7, <1>8

LEMMA CleanKeeps ==
  ASSUME IInv, NEW p \in Place, clean_mob(p)
  PROVE  IInv'
<1> USE DEF IInv
<1> DEFINE F == Forwarded(mob, p)
<1>1. PICK s \in Slot : s = Owner(p)
  BY CleanedIs
<1>2. CleanedFacts(p, s)
  BY <1>1, CleanedIs
<1>3. /\ p[1] \in Memory /\ p[1] # "STORE" /\ Used(p) /\ s = Owner(p)
      /\ mob[p].status = "READY" /\ ~mob[p].processed /\ mob[p].uop_executed
      /\ mob[p].wait_mem_deps_number = 0
      /\ IsMemory(s) /\ Busy(s) /\ Kind(s) = p[1] /\ rob[s].stage = "EXECUTION"
  BY <1>2 DEF CleanedFacts
<1>4. \A w \in F : /\ w \in Place /\ w # p /\ Used(w) /\ w[1] = "LOAD" /\ mob[w].uop_executed /\ ~mob[w].processed
                   /\ Owner(w) \in Slot /\ Busy(Owner(w)) /\ StillWaits(mob, p, w) = 0
                   /\ mob[w].wait_mem_deps_number # 0
  BY <1>2 DEF CleanedFacts
<1>5. PICK done \in BOOLEAN :
           /\ LineStep(s, done)
           /\ p[1] = "LOAD" => (done <=> rob[s].waiting_mem_request - 1 = 0)
           /\ p[1] # "LOAD" => done
           /\ \A x \in Slot :
                /\ rob'[x].waiting_mem_request =
                     IF p[1] = "LOAD" /\ x = s THEN rob[x].waiting_mem_request - 1 ELSE rob[x].waiting_mem_request
                /\ rob'[x].sent = (rob[x].sent \/ \E w \in F : Owner(w) = x)
  BY <1>1, CleanLines
<1>6. Wakes(p, F) /\ TablesForget(p)
  BY CleanPlaces
<1>7. /\ memory_executed' = [memory_executed EXCEPT ![p[1]] = @ - 1]
      /\ mob_start' = mob_start /\ mob_used' = mob_used /\ oldest_to_send' = oldest_to_send
      /\ unified_reservation_station' = unified_reservation_station
      /\ unified_functional_units' = unified_functional_units
  BY DEF clean_mob, stationVars
<1> HIDE DEF F
<1>8. \A x \in Place :
       /\ mob'[x].rob_ptr = mob[x].rob_ptr /\ mob'[x].access = mob[x].access
       /\ mob'[x].uop_executed = mob[x].uop_executed
       /\ mob'[x].processed = IF x = p THEN TRUE ELSE mob[x].processed
       /\ mob'[x].wait_mem_deps_number = mob[x].wait_mem_deps_number - Times(x, mob[p].mem_deps_ptr_array)
       /\ mob'[x].mem_deps_ptr_array = IF x = p THEN <<>> ELSE mob[x].mem_deps_ptr_array
       /\ mob'[x].status = IF x \in F THEN "READY" ELSE mob[x].status
       /\ mob'[x].sent = (mob[x].sent \/ x \in F)
  BY <1>6 DEF Wakes
<1>9. /\ RobShape' /\ RobFrame /\ StageFrame /\ RobInv'
      /\ register_alias_table' \in [Register -> Slot \cup {NULL}]
  BY <1>3, <1>5, LineStepFrame
<1>10. LineWaitInv'
  BY <1>3, <1>5, LineStepWaits
<1>11. AliasInv'
  BY <1>3, <1>5, LineStepAlias DEF Pending
<1>12. \A x \in Place : Used(x)' = Used(x) /\ Owner(x)' = Owner(x)
  BY <1>4, <1>8 DEF Used, Owner
<1>13. PlaceFrame
  BY <1>7, <1>8, <1>12 DEF PlaceFrame
<1>14. MobShape'
  BY <1>6, <1>7 DEF MobShape, Wakes, TablesForget
<1>15. StoreFrame
  BY <1>3, <1>5 DEF StoreFrame
<1>16. PlaceInv' /\ OwnerInv' /\ OrderInv'
  BY <1>9, <1>13, <1>15, FrameKeepsPlaces
<1>17. /\ memory_executed' \in [Memory -> Int]
       /\ \A o \in Memory : memory_executed'[o] = IF o = p[1] THEN memory_executed[o] - 1 ELSE memory_executed[o]
  BY <1>3, <1>7 DEF StageShape
<1>18. StageShape'
  BY <1>7, <1>9, <1>17 DEF StageShape
<1>19. \A x \in Slot : rob'[x].stage = IF done /\ x = s THEN "COMMIT" ELSE rob[x].stage
  BY <1>5 DEF LineStep
<1>20. StageInv'
  <2>1. \A x \in Slot : StaysWaiting(x) => rob'[x].stage = rob[x].stage
    <3>1. ~StaysWaiting(s)
      <4>1. s \notin unified_functional_units
        BY <1>3 DEF StageInv, Waiting
      <4> QED BY <1>3, <1>7, <4>1 DEF StaysWaiting
    <3> QED BY <1>19, <3>1
  <2>2. \A x \in Slot : rob'[x].stage = "RENAME" => rob[x].stage = "RENAME"
    BY <1>19
  <2>3. \A x \in Place : Used(x) /\ mob'[x].uop_executed => mob[x].uop_executed \/ ~StaysWaiting(Owner(x))
    BY <1>8
  <2> QED BY <1>7, <1>9, <1>13, <1>15, <2>1, <2>2, <2>3, StagesKept
<1>21. EntryInv'
  <2> SUFFICES ASSUME NEW x \in Place PROVE EntryOK(x)'
    BY DEF EntryInv
  <2>1. EntryOK(x)
    BY DEF EntryInv
  <2>2. mob[x].wait_mem_deps_number = 0 => Times(x, mob[p].mem_deps_ptr_array) = 0
    BY PlacePointedAt
  <2>3. Used(x) => Owner(x) \in Slot
    BY OwnedPlace
  <2>4. Used(x) /\ rob[Owner(x)].sent => rob'[Owner(x)].sent
    BY <1>5, <2>3
  <2>5. mob[x].wait_mem_deps_number = 0 => mob'[x].wait_mem_deps_number = 0
    <3>1. mob'[x].wait_mem_deps_number = mob[x].wait_mem_deps_number - Times(x, mob[p].mem_deps_ptr_array)
      BY <1>8, Zenon
    <3> QED BY <2>2, <3>1
  <2>6. CASE x \in F
    <3>1. mob'[x].wait_mem_deps_number = 0
      BY <1>4, <1>8, <2>6 DEF StillWaits
    <3>2. rob'[Owner(x)].sent
      BY <1>4, <1>5, <2>6
    <3>3. Used(x)' /\ x[1] = "LOAD" /\ mob'[x].uop_executed /\ mob'[x].status = "READY" /\ mob'[x].sent
      BY <1>4, <1>8, <1>12, <2>6
    <3> QED BY <1>12, <3>1, <3>2, <3>3 DEF EntryOK
  <2>7. CASE x \notin F
    <3>1. /\ mob'[x].status = mob[x].status /\ mob'[x].sent = mob[x].sent
          /\ mob'[x].uop_executed = mob[x].uop_executed
          /\ Used(x)' = Used(x) /\ Owner(x)' = Owner(x)
      <4>1. mob[x].sent \in BOOLEAN
        BY EntryTypes DEF MobShape
      <4> QED BY <1>8, <1>12, <2>7, <4>1
    <3>2. CASE x = p
      BY <1>3, <1>8, <2>1, <2>4, <2>5, <3>1, <3>2 DEF EntryOK
    <3>3. CASE x # p
      <4>1. mob'[x].processed = mob[x].processed
        BY <1>8, <3>3
      <4> QED BY <2>1, <2>4, <2>5, <3>1, <4>1 DEF EntryOK
    <3> QED BY <3>2, <3>3
  <2> QED BY <2>6, <2>7
<1>22. DoneInv'
  <2> SUFFICES ASSUME NEW t \in Slot, IsMemory(t)'
               PROVE  /\ Kind(t)' \in {"LOAD", "STORE"} =>
                           (rob'[t].stage = "COMMIT" <=> rob'[t].waiting_mem_request = 0)
                      /\ Kind(t)' = "LOAD" => rob'[t].waiting_mem_request = Cardinality(Open(t)')
                      /\ Kind(t)' \in {"HIVE", "VIMA"} => (rob'[t].stage = "COMMIT" <=> mob'[Nth(t, 0)'].processed)
    BY DEF DoneInv
  <2>1. IsMemory(t) /\ Kind(t)' = Kind(t) /\ Nth(t, 0)' = Nth(t, 0)
    BY <1>9, <1>13, <1>15, FrameSame
  <2>2. /\ Kind(t) \in {"LOAD", "STORE"} => (rob[t].stage = "COMMIT" <=> rob[t].waiting_mem_request = 0)
        /\ Kind(t) = "LOAD" => rob[t].waiting_mem_request = Cardinality(Open(t))
        /\ Kind(t) \in {"HIVE", "VIMA"} => (rob[t].stage = "COMMIT" <=> mob[Nth(t, 0)].processed)
    BY <2>1 DEF DoneInv
  <2>3. Nth(t, 0) \in Place /\ Count(t) \in Nat \ {0}
    BY <2>1, MemoryUop
  <2>4. Open(t)' = IF t = s THEN Open(t) \ {p} ELSE Open(t)
    <3>2. \A x \in Place : x \in Open(t)' <=> x \in Open(t) /\ x # p
      BY <1>8, <1>12 DEF Open
    <3>3. Open(t)' \subseteq Place /\ Open(t) \subseteq Place
      BY DEF Open
    <3>4. p \in Open(t) <=> t = s
      BY <1>1, <1>3 DEF Open
    <3> QED BY <3>2, <3>3, <3>4
  <2>5. CASE t # s
    <3>1. rob'[t].stage = rob[t].stage /\ rob'[t].waiting_mem_request = rob[t].waiting_mem_request
      BY <1>5, <1>19, <2>5
    <3>2. Kind(t) \in {"HIVE", "VIMA"} => Nth(t, 0) # p
      <4> SUFFICES ASSUME Kind(t) \in {"HIVE", "VIMA"}, Nth(t, 0) = p PROVE FALSE
        OBVIOUS
      <4>1. Kept(t) = Count(t)
        BY DEF Kept
      <4>2. Owner(Nth(t, 0)) = t
        BY <2>1, <2>3, <4>1, KeptPlace
      <4> QED BY <1>1, <2>5, <4>2
    <3>3. Kind(t) \in {"HIVE", "VIMA"} => mob'[Nth(t, 0)].processed = mob[Nth(t, 0)].processed
      BY <1>8, <2>3, <3>2
    <3> QED BY <2>1, <2>2, <2>4, <2>5, <3>1, <3>3
  <2>6. CASE t = s /\ p[1] = "LOAD"
    <3>1. rob[s].waiting_mem_request = Cardinality(Open(s))
      BY <1>3, <2>2, <2>6
    <3>2. p \in Open(s) /\ IsFiniteSet(Open(s))
      BY <1>1, <1>3, OpenFinite DEF Open
    <3>3. Cardinality(Open(s) \ {p}) = Cardinality(Open(s)) - 1
      BY <3>2, FS_RemoveElement
    <3>4. rob'[s].waiting_mem_request = rob[s].waiting_mem_request - 1
      BY <1>5, <2>6
    <3>5. rob'[s].stage = "COMMIT" <=> rob'[s].waiting_mem_request = 0
      BY <1>3, <1>5, <1>19, <2>6, <3>4
    <3> QED BY <1>3, <2>1, <2>4, <2>6, <3>1, <3>3, <3>4, <3>5
  <2>7. CASE t = s /\ p[1] # "LOAD"
    <3>1. p[1] \in {"HIVE", "VIMA"}
      BY <1>3, <2>7 DEF Memory
    <3>2. Count(s) = 1
      BY <1>3, <3>1, MemoryUop, UopAssumption DEF Count, Kind
    <3>3. PICK i \in 0 .. Count(s) - 1 : p = Nth(s, i)
      BY <1>1, <1>3, OwnedPlace
    <3>4. p = Nth(s, 0)
      BY <3>2, <3>3
    <3>5. mob'[p].processed /\ rob'[s].stage = "COMMIT"
      BY <1>5, <1>8, <1>19, <2>7
    <3> QED BY <1>3, <2>1, <2>7, <3>1, <3>4, <3>5
  <2> QED BY <2>5, <2>6, <2>7
<1>23. CountInv'
  <2> SUFFICES ASSUME NEW o \in Memory PROVE memory_executed'[o] = Cardinality(ExecutedOf(o)')
    BY DEF CountInv
  <2>1. memory_executed[o] = Cardinality(ExecutedOf(o))
    BY DEF CountInv
  <2>2. IsFiniteSet(ExecutedOf(o))
    BY PlaceFinite, FS_Subset DEF ExecutedOf
  <2>3. \A x \in Place : x \in ExecutedOf(o)' <=> x \in ExecutedOf(o) /\ x # p
    BY <1>8 DEF ExecutedOf
  <2>4. ExecutedOf(o) \subseteq Place /\ ExecutedOf(o)' \subseteq Place
    BY DEF ExecutedOf
  <2>5. p \in ExecutedOf(o) <=> o = p[1]
    BY <1>3 DEF ExecutedOf
  <2>6. CASE o = p[1]
    <3>1. ExecutedOf(o)' = ExecutedOf(o) \ {p}
      BY <2>3, <2>4
    <3>2. Cardinality(ExecutedOf(o) \ {p}) = Cardinality(ExecutedOf(o)) - 1
      BY <2>2, <2>5, <2>6, FS_RemoveElement
    <3> QED BY <1>17, <2>1, <2>6, <3>1, <3>2
  <2>7. CASE o # p[1]
    <3>1. ExecutedOf(o)' = ExecutedOf(o)
      BY <2>3, <2>4, <2>5, <2>7
    <3> QED BY <1>17, <2>1, <2>7, <3>1
  <2> QED BY <2>6, <2>7
<1>24. CandidateInv'
  <2>1. \A x \in Place : Sendable(x) => Sendable(x)'
    <3> TAKE x \in Place
    <3> HAVE Sendable(x)
    <3>1. mob[x].wait_mem_deps_number = 0
      BY DEF Sendable
    <3>2. Times(x, mob[p].mem_deps_ptr_array) = 0 /\ x \notin F
      BY <1>4, <3>1, PlacePointedAt
    <3>3. mob'[x].wait_mem_deps_number = mob[x].wait_mem_deps_number - Times(x, mob[p].mem_deps_ptr_array)
      BY <1>8, Zenon
    <3>4. mob'[x].wait_mem_deps_number = 0
      BY <3>1, <3>2, <3>3
    <3>5. /\ mob'[x].uop_executed = mob[x].uop_executed /\ mob'[x].status = mob[x].status
          /\ mob'[x].sent <=> mob[x].sent
      BY <1>8, <3>2
    <3> QED BY <3>4, <3>5 DEF Sendable
  <2>2. \A x \in Place : x = oldest_to_send'[x[1]] /\ Sendable(x) => Sendable(x)'
    BY <2>1
  <2>3. \A o \in Memory : oldest_to_send'[o] # NULL => oldest_to_send'[o] = oldest_to_send[o]
    BY <1>7
  <2> QED BY <1>7, <2>2, <2>3, CandidatesKept
<1>25. PlaceWaitInv'
  <2>1. \A x \in Place : x # p => Used(x)' = Used(x) /\ mob'[x].processed = mob[x].processed
    BY <1>8, <1>12
  <2> QED BY <1>8, <2>1, PlacesAgree
<1>26. TableInv'
  <2> DEFINE gone == {p}
  <2>1. \A x \in Place \ gone : /\ Used(x)' = Used(x) /\ mob'[x].processed = mob[x].processed
                                /\ mob'[x].access = mob[x].access
    BY <1>8, <1>12
  <2>2. /\ \A b \in 0 .. LOAD_HASH_SIZE - 1 : load_hash'[b] # NULL => load_hash'[b] = load_hash[b] /\ load_hash[b] \notin gone
        /\ \A b \in 0 .. STORE_HASH_SIZE - 1 : store_hash'[b] # NULL => store_hash'[b] = store_hash[b] /\ store_hash[b] \notin gone
    BY <1>6 DEF TablesForget
  <2> HIDE DEF gone
  <2> QED BY <2>1, <2>2, TablesKept
<1> QED BY <1>9, <1>10, <1>11, <1>14, <1>16, <1>18, <1>20, <1>21, <1>22, <1>23, <1>24, <1>25, <1>26

-----------------------------------------------------------------------------
(* Places leave a buffer at its front.                                     *)

\* The start moves on by n.
LEMMA DistanceMoves ==
  ASSUME MobShape, MobShape', NEW p \in Place, NEW n \in 0 .. MOB[p[1]],
         mob_start'[p[1]] = (mob_start[p[1]] + n) % MOB[p[1]]
  PROVE  Distance(p)' = IF n <= Distance(p) THEN Distance(p) - n ELSE Distance(p) - n + MOB[p[1]]
<1> DEFINE op == p[1]
<1>1. op \in Memory /\ p[2] \in 0 .. MOB[op] - 1 /\ MOB[op] \in Nat \ {0}
  BY PlaceType
<1>2. mob_start[op] \in 0 .. MOB[op] - 1
  BY <1>1, StartType
<1>3. mob_start'[op] = IF mob_start[op] + n < MOB[op] THEN mob_start[op] + n ELSE mob_start[op] + n - MOB[op]
  <2>1. (mob_start[op] + n) % MOB[op] = IF mob_start[op] + n < MOB[op] THEN mob_start[op] + n ELSE mob_start[op] + n - MOB[op]
    BY <1>1, <1>2, Ring, Zenon
  <2> QED BY <2>1
<1>4. Distance(p) = IF p[2] >= mob_start[op] THEN p[2] - mob_start[op] ELSE p[2] - mob_start[op] + MOB[op]
  BY DistanceIs
<1>5. mob_start'[op] \in 0 .. MOB[op] - 1
  BY <1>1, <1>2, <1>3
<1>6. Distance(p)' = IF p[2] >= mob_start'[op] THEN p[2] - mob_start'[op] ELSE p[2] - mob_start'[op] + MOB[op]
  <2>1. (p[2] - mob_start'[op]) % MOB[op] =
          IF p[2] >= mob_start'[op] THEN p[2] - mob_start'[op] ELSE p[2] - mob_start'[op] + MOB[op]
    BY <1>1, <1>5, RingBack, Zenon
  <2> QED BY <2>1 DEF Distance
<1> HIDE DEF op
<1>7. n \in 0 .. MOB[op]
  BY DEF op
<1> QED BY <1>1, <1>2, <1>3, <1>4, <1>6, <1>7 DEF op

\* The first n places of the buffer of op leave, with what their uops keep.
Leaves(op, n) ==
  /\ n \in 0 .. mob_used[op]
  /\ \A o \in Memory : mob_used'[o] = IF o = op THEN mob_used[o] - n ELSE mob_used[o]
  /\ \A o \in Memory : MOB[o] # 0 =>
       mob_start'[o] = IF o = op THEN (mob_start[o] + n) % MOB[o] ELSE mob_start[o]
  /\ \A x \in Place : /\ Used(x)' <=> Used(x) /\ ~(x[1] = op /\ Distance(x) < n)
                      /\ Used(x)' => mob'[x].rob_ptr = mob[x].rob_ptr /\ mob'[x].access = mob[x].access
  /\ \A x \in Slot :
       /\ rob'[x].uop # NULL => /\ rob'[x].uop = rob[x].uop /\ rob'[x].uop_number = rob[x].uop_number
                                /\ rob'[x].pos_mob = rob[x].pos_mob
       /\ IsMemory(x) /\ rob'[x].uop = NULL => Kind(x) = op /\ (Kept(x) > 0 => Rank(x) < n)
       /\ IsMemory(x)' => IF Kind(x) # op THEN Kept(x)' = Kept(x)
                          ELSE /\ Kept(x)' \in 0 .. Kept(x)
                               /\ Kept(x)' > 0 => n <= Rank(x) - Kept(x)' + 1
                               /\ Kept(x)' = Kept(x) \/ Rank(x) - n + 1 <= Kept(x)'

LEMMA LeavesSame ==
  ASSUME RobShape, MobShape, MobShape', OwnerInv, NEW op \in Memory, NEW n, Leaves(op, n)
  PROVE  /\ \A p \in Place : Distance(p)' = IF p[1] # op THEN Distance(p)
                                            ELSE IF n <= Distance(p) THEN Distance(p) - n
                                            ELSE Distance(p) - n + MOB[op]
         /\ \A x \in Slot : IsMemory(x)' =>
              /\ IsMemory(x) /\ Kind(x)' = Kind(x) /\ Count(x)' = Count(x)
              /\ \A i : Nth(x, i)' = Nth(x, i)
              /\ Rank(x)' = IF Kind(x) # op THEN Rank(x)
                            ELSE IF n <= Rank(x) THEN Rank(x) - n ELSE Rank(x) - n + MOB[op]
<1>1. ASSUME NEW p \in Place
      PROVE  Distance(p)' = IF p[1] # op THEN Distance(p)
                            ELSE IF n <= Distance(p) THEN Distance(p) - n ELSE Distance(p) - n + MOB[op]
  <2>1. p[1] \in Memory /\ MOB[p[1]] \in Nat \ {0}
    BY PlaceType
  <2>2. CASE p[1] # op
    <3>1. mob_start'[p[1]] = mob_start[p[1]]
      BY <2>1, <2>2 DEF Leaves
    <3> QED BY <2>2, <3>1 DEF Distance
  <2>3. CASE p[1] = op
    <3>1. mob_start'[p[1]] = (mob_start[p[1]] + n) % MOB[p[1]] /\ n \in 0 .. mob_used[p[1]]
      BY <2>1, <2>3 DEF Leaves
    <3>2. n \in 0 .. MOB[p[1]]
      BY <2>1, <3>1, StartType
    <3>3. Distance(p)' = IF n <= Distance(p) THEN Distance(p) - n ELSE Distance(p) - n + MOB[p[1]]
      BY <3>1, <3>2, DistanceMoves
    <3> QED BY <2>3, <3>3
  <2> QED BY <2>2, <2>3
<1>2. ASSUME NEW x \in Slot, IsMemory(x)'
      PROVE  /\ IsMemory(x) /\ Kind(x)' = Kind(x) /\ Count(x)' = Count(x)
             /\ \A i : Nth(x, i)' = Nth(x, i)
             /\ Rank(x)' = IF Kind(x) # op THEN Rank(x)
                           ELSE IF n <= Rank(x) THEN Rank(x) - n ELSE Rank(x) - n + MOB[op]
  <2>1. rob'[x].uop # NULL
    BY <1>2 DEF IsMemory, Busy
  <2>2. rob'[x].uop = rob[x].uop /\ rob'[x].pos_mob = rob[x].pos_mob
    BY <2>1 DEF Leaves
  <2>3. IsMemory(x) /\ Kind(x)' = Kind(x) /\ Count(x)' = Count(x)
    BY <1>2, <2>2 DEF IsMemory, Busy, Kind, Count
  <2>4. \A i : Nth(x, i)' = Nth(x, i)
    BY <2>2, <2>3 DEF Nth
  <2>5. PICK q \in Place : q = Nth(x, Count(x) - 1) /\ q[1] = Kind(x)
    BY <2>3, MemoryUop
  <2>6. Rank(x) = Distance(q)
    BY <2>5 DEF Rank
  <2>7. Rank(x)' = Distance(q)'
    BY <2>3, <2>4, <2>5 DEF Rank
  <2> QED BY <1>1, <2>3, <2>4, <2>5, <2>6, <2>7
<1> QED BY <1>1, <1>2

LEMMA LeavesKeep ==
  ASSUME RobShape, MobShape, MobShape', PlaceInv, OwnerInv, OrderInv, NEW op \in Memory, NEW n, Leaves(op, n)
  PROVE  PlaceInv' /\ OwnerInv' /\ OrderInv'
<1>0. n \in Nat /\ MOB[op] \in Nat /\ n <= mob_used[op] /\ mob_used[op] \in Nat /\ mob_used[op] <= MOB[op]
  BY MobSize DEF MobShape, Leaves
<1>1. PlaceInv'
  <2> SUFFICES ASSUME NEW p \in Place
               PROVE  /\ Used(p)' <=> Distance(p)' < mob_used'[p[1]]
                      /\ Used(p)' => /\ Owner(p)' \in Slot /\ IsMemory(Owner(p))' /\ Kind(Owner(p))' = p[1]
                                     /\ Rank(Owner(p))' - Kept(Owner(p))' < Distance(p)'
                                     /\ Distance(p)' <= Rank(Owner(p))'
    BY DEF PlaceInv
  <2>1. p[1] \in Memory /\ Distance(p) \in 0 .. MOB[p[1]] - 1
    BY PlaceType, DistanceIs
  <2>2. Used(p) <=> Distance(p) < mob_used[p[1]]
    BY DEF PlaceInv
  <2>3. Distance(p)' = IF p[1] # op THEN Distance(p)
                       ELSE IF n <= Distance(p) THEN Distance(p) - n ELSE Distance(p) - n + MOB[op]
    BY LeavesSame
  <2>4. /\ Used(p)' <=> Used(p) /\ ~(p[1] = op /\ Distance(p) < n)
        /\ mob_used'[p[1]] = IF p[1] = op THEN mob_used[p[1]] - n ELSE mob_used[p[1]]
    BY <2>1 DEF Leaves
  <2>5. Used(p)' <=> Distance(p)' < mob_used'[p[1]]
    BY <1>0, <2>1, <2>2, <2>3, <2>4
  <2>6. ASSUME Used(p)'
        PROVE  /\ Owner(p)' \in Slot /\ IsMemory(Owner(p))' /\ Kind(Owner(p))' = p[1]
               /\ Rank(Owner(p))' - Kept(Owner(p))' < Distance(p)'
               /\ Distance(p)' <= Rank(Owner(p))'
    <3>1. Used(p) /\ ~(p[1] = op /\ Distance(p) < n)
      BY <2>4, <2>6
    <3>2. PICK s \in Slot : s = Owner(p)
      BY <3>1 DEF PlaceInv
    <3>3. Owner(p)' = s
      BY <2>6, <3>2 DEF Leaves, Owner
    <3>4. IsMemory(s) /\ Kind(s) = p[1] /\ Rank(s) - Kept(s) < Distance(p) /\ Distance(p) <= Rank(s)
      BY <3>1, <3>2 DEF PlaceInv
    <3>5. Kept(s) \in Nat /\ Rank(s) \in Nat /\ Kept(s) > 0
      <4>1. Kept(s) \in Nat /\ Rank(s) \in Nat
        BY <3>4, MemoryUop
      <4> QED BY <2>1, <3>4, <4>1
    <3>6. rob'[s].uop # NULL
      <4>1. SUFFICES ASSUME rob'[s].uop = NULL PROVE FALSE
        OBVIOUS
      <4>2. Kind(s) = op /\ Rank(s) < n
        BY <3>4, <3>5, <4>1 DEF Leaves
      <4> QED BY <1>0, <2>1, <3>1, <3>4, <3>5, <4>2
    <3>7. IsMemory(s)'
      <4>1. rob'[s].uop = rob[s].uop
        BY <3>6 DEF Leaves
      <4> QED BY <3>4, <4>1 DEF IsMemory, Busy
    <3>8. /\ Kind(s)' = Kind(s)
          /\ Rank(s)' = IF Kind(s) # op THEN Rank(s)
                        ELSE IF n <= Rank(s) THEN Rank(s) - n ELSE Rank(s) - n + MOB[op]
      BY <3>7, LeavesSame
    <3>9. IF Kind(s) # op THEN Kept(s)' = Kept(s)
                          ELSE /\ Kept(s)' \in 0 .. Kept(s)
                               /\ Kept(s)' > 0 => n <= Rank(s) - Kept(s)' + 1
                               /\ Kept(s)' = Kept(s) \/ Rank(s) - n + 1 <= Kept(s)'
      BY <3>7 DEF Leaves
    <3>10. Rank(s)' - Kept(s)' < Distance(p)' /\ Distance(p)' <= Rank(s)'
      <4>1. CASE p[1] # op
        BY <2>3, <3>4, <3>8, <3>9, <4>1
      <4>2. CASE p[1] = op
        <5>1. n <= Distance(p) /\ n <= Rank(s)
          BY <1>0, <2>1, <3>1, <3>4, <3>5, <4>2
        <5>2. Distance(p)' = Distance(p) - n /\ Rank(s)' = Rank(s) - n
          BY <2>3, <3>4, <3>8, <4>2, <5>1
        <5>3. Kept(s)' \in 0 .. Kept(s) /\ (Kept(s)' = Kept(s) \/ Rank(s) - n + 1 <= Kept(s)')
          BY <3>4, <3>9, <4>2
        <5> HIDE DEF Kept, Rank, Distance
        <5> QED BY <1>0, <2>1, <3>4, <3>5, <5>1, <5>2, <5>3
      <4> QED BY <4>1, <4>2
    <3> QED BY <3>3, <3>4, <3>7, <3>8, <3>10
  <2> QED BY <2>5, <2>6
<1>2. OwnerInv'
  <2> SUFFICES ASSUME NEW s \in Slot, IsMemory(s)'
               PROVE  /\ rob'[s].pos_mob \in 0 .. MOB[Kind(s)'] - 1
                      /\ Kept(s)' \in 0 .. Count(s)'
                      /\ Kept(s)' > 0 => Rank(s)' < mob_used'[Kind(s)'] /\ Kept(s)' <= Rank(s)' + 1
                      /\ \A i \in 0 .. Count(s)' - 1 :
                           Count(s)' - Kept(s)' <= i =>
                             /\ mob'[Nth(s, i)'].rob_ptr = s
                             /\ mob'[Nth(s, i)'].access = rob'[s].uop.accesses[i + 1]
    BY DEF OwnerInv
  <2>1. /\ IsMemory(s) /\ Kind(s)' = Kind(s) /\ Count(s)' = Count(s)
        /\ \A i : Nth(s, i)' = Nth(s, i)
        /\ Rank(s)' = IF Kind(s) # op THEN Rank(s)
                      ELSE IF n <= Rank(s) THEN Rank(s) - n ELSE Rank(s) - n + MOB[op]
    BY LeavesSame
  <2>2. rob'[s].uop = rob[s].uop /\ rob'[s].pos_mob = rob[s].pos_mob
    BY DEF Leaves, IsMemory, Busy
  <2>3. IF Kind(s) # op THEN Kept(s)' = Kept(s)
                          ELSE /\ Kept(s)' \in 0 .. Kept(s)
                               /\ Kept(s)' > 0 => n <= Rank(s) - Kept(s)' + 1
                               /\ Kept(s)' = Kept(s) \/ Rank(s) - n + 1 <= Kept(s)'
    BY DEF Leaves
  <2>4. /\ Kind(s) \in Memory /\ Count(s) \in 1 .. MOB[Kind(s)]
        /\ rob[s].pos_mob \in 0 .. MOB[Kind(s)] - 1
        /\ Kept(s) \in 0 .. Count(s) /\ Rank(s) \in 0 .. MOB[Kind(s)] - 1 /\ MOB[Kind(s)] \in Nat \ {0}
    BY <2>1, MemoryUop
  <2>5. Kept(s) > 0 => Rank(s) < mob_used[Kind(s)] /\ Kept(s) <= Rank(s) + 1
    BY <2>1 DEF OwnerInv
  <2>6. Kept(s)' \in 0 .. Kept(s)
    BY <2>3, <2>4
  <2>7. mob_used'[Kind(s)] = IF Kind(s) = op THEN mob_used[Kind(s)] - n ELSE mob_used[Kind(s)]
    BY <2>4 DEF Leaves
  <2>8. Kept(s)' > 0 => Rank(s)' < mob_used'[Kind(s)] /\ Kept(s)' <= Rank(s)' + 1
    <3>1. CASE Kind(s) # op
      BY <2>1, <2>3, <2>5, <2>7, <3>1
    <3>2. CASE Kind(s) = op
      <4>1. ASSUME Kept(s)' > 0 PROVE Rank(s)' < mob_used'[Kind(s)] /\ Kept(s)' <= Rank(s)' + 1
        <5>1. Kept(s) > 0 /\ n <= Rank(s) - Kept(s)' + 1 /\ Kept(s)' \in Nat
          BY <2>3, <2>4, <2>6, <3>2, <4>1
        <5>2. Rank(s)' = Rank(s) - n
          BY <1>0, <2>1, <2>4, <3>2, <4>1, <5>1
        <5> QED BY <1>0, <2>4, <2>5, <2>7, <3>2, <4>1, <5>1, <5>2
      <4> QED BY <4>1
    <3> QED BY <3>1, <3>2
  <2>9. ASSUME NEW i \in 0 .. Count(s) - 1, Count(s) - Kept(s)' <= i
        PROVE  mob'[Nth(s, i)].rob_ptr = s /\ mob'[Nth(s, i)].access = rob[s].uop.accesses[i + 1]
    <3>1. Count(s) - Kept(s) <= i /\ Kept(s)' > 0
      BY <2>4, <2>6, <2>9
    <3>2. PICK q \in Place : /\ q = Nth(s, i) /\ q[1] = Kind(s) /\ Used(q) /\ Owner(q) = s
                             /\ Distance(q) = Rank(s) - (Count(s) - 1 - i)
                             /\ mob[q].access = rob[s].uop.accesses[i + 1]
      BY <2>1, <3>1, KeptPlace
    <3>3. ~(q[1] = op /\ Distance(q) < n)
      <4> SUFFICES ASSUME q[1] = op PROVE n <= Distance(q)
        BY <1>0, <2>4, <3>2
      <4>1. n <= Rank(s) - Kept(s)' + 1 /\ Kept(s)' \in Nat
        BY <2>3, <2>4, <2>6, <3>1, <3>2
      <4> QED BY <1>0, <2>4, <2>9, <3>2, <4>1
    <3>4. Used(q)' /\ mob'[q].rob_ptr = mob[q].rob_ptr /\ mob'[q].access = mob[q].access
      BY <3>2, <3>3 DEF Leaves
    <3> QED BY <3>2, <3>4 DEF Owner
  <2> QED BY <2>1, <2>2, <2>4, <2>6, <2>8, <2>9
<1>3. OrderInv'
  <2> SUFFICES ASSUME NEW s \in Slot, NEW t \in Slot, IsMemory(s)', IsMemory(t)', Kind(s)' = Kind(t)',
                      Kept(s)' > 0, Kept(t)' > 0, Before(s, t)'
               PROVE  Rank(s)' + Kept(t)' <= Rank(t)'
    BY DEF OrderInv
  <2>1. \A x \in {s, t} :
          /\ IsMemory(x) /\ Kind(x)' = Kind(x)
          /\ Rank(x)' = IF Kind(x) # op THEN Rank(x)
                        ELSE IF n <= Rank(x) THEN Rank(x) - n ELSE Rank(x) - n + MOB[op]
    BY LeavesSame
  <2>2. Before(s, t)
    BY DEF Before, Leaves, IsMemory, Busy
  <2>3. \A x \in {s, t} : IF Kind(x) # op THEN Kept(x)' = Kept(x)
                          ELSE /\ Kept(x)' \in 0 .. Kept(x)
                               /\ Kept(x)' > 0 => n <= Rank(x) - Kept(x)' + 1
                               /\ Kept(x)' = Kept(x) \/ Rank(x) - n + 1 <= Kept(x)'
    BY DEF Leaves
  <2>4. \A x \in {s, t} : Kept(x) \in Nat /\ Rank(x) \in Nat
    BY <2>1, MemoryUop
  <2>5. Kind(s) = Kind(t) /\ Kept(s) > 0 /\ Kept(t) > 0 /\ Kept(t)' <= Kept(t) /\ Kept(t)' \in Nat
    <3>1. Kind(s) = Kind(t)
      BY <2>1
    <3>2. Kept(s) > 0
      BY <2>3, <2>4
    <3>3. Kept(t) > 0 /\ Kept(t)' <= Kept(t) /\ Kept(t)' \in Nat
      BY <2>3, <2>4
    <3> QED BY <3>1, <3>2, <3>3
  <2>6. Rank(s) + Kept(t) <= Rank(t)
    BY <2>1, <2>2, <2>5 DEF OrderInv
  <2>7. CASE Kind(s) # op
    BY <2>1, <2>4, <2>5, <2>6, <2>7
  <2>8. CASE Kind(s) = op
    <3>1. Rank(s)' = Rank(s) - n
      <4>1. n <= Rank(s) - Kept(s)' + 1 /\ Kept(s)' \in Nat
        BY <2>3, <2>4, <2>8
      <4>2. n <= Rank(s)
        BY <1>0, <2>4, <4>1
      <4> QED BY <2>1, <2>8, <4>2
    <3>2. Rank(t)' = Rank(t) - n
      <4>1. n <= Rank(t) - Kept(t)' + 1
        BY <2>3, <2>5, <2>8
      <4>2. n <= Rank(t)
        BY <1>0, <2>4, <2>5, <4>1
      <4> QED BY <2>1, <2>5, <2>8, <4>2
    <3> QED BY <1>0, <2>4, <2>5, <2>6, <3>1, <3>2
  <2> QED BY <2>7, <2>8
<1> QED BY <1>1, <1>2, <1>3

-----------------------------------------------------------------------------
(* A store is done.                                                        *)

\* The oldest store, and the uop it is of: it is the first place that this
\* uop keeps, and no other uop keeps one that far in front.
WriteFacts(p, s) ==
  /\ p[1] = "STORE" /\ Used(p) /\ Distance(p) = 0 /\ s = Owner(p)
  /\ mob[p].uop_executed /\ mob[p].status = "WAIT" /\ ~mob[p].sent /\ ~mob[p].processed
  /\ mob[p].wait_mem_deps_number = 0
  /\ IsMemory(s) /\ Busy(s) /\ Kind(s) = "STORE" /\ rob[s].stage = "EXECUTION"
  /\ s \notin unified_functional_units
  /\ Kept(s) = Rank(s) + 1 /\ Kept(s) = rob[s].waiting_mem_request /\ Kept(s) \in Nat \ {0}
  /\ \A w \in Forwarded(mob, p) :
       /\ w \in Place /\ w # p /\ Used(w) /\ w[1] = "LOAD" /\ mob[w].uop_executed /\ ~mob[w].processed
       /\ Owner(w) \in Slot /\ Busy(Owner(w)) /\ StillWaits(mob, p, w) = 0
       /\ mob[w].wait_mem_deps_number # 0

LEMMA WriteIs ==
  ASSUME IInv, NEW p \in Place, p[1] = "STORE", Used(p), Sendable(p), Distance(p) = 0,
         NEW s \in Slot, s = Owner(p)
  PROVE  WriteFacts(p, s)
<1> USE DEF IInv
<1>1. /\ mob[p].uop_executed /\ mob[p].status = "WAIT" /\ ~mob[p].sent
      /\ mob[p].wait_mem_deps_number = 0
  BY DEF Sendable
<1>2. ~mob[p].processed
  BY <1>1 DEF EntryInv, EntryOK
<1>3. IsMemory(s) /\ Kind(s) = "STORE" /\ Rank(s) - Kept(s) < 0 /\ Busy(s)
  BY DEF PlaceInv, IsMemory
<1>4. Kept(s) \in Nat /\ Rank(s) \in Nat
  BY <1>3, MemoryUop
<1>5. Kept(s) <= Rank(s) + 1 /\ Kept(s) > 0
  BY <1>3, <1>4 DEF OwnerInv
<1>6. Kept(s) = Rank(s) + 1 /\ Kept(s) \in Nat \ {0}
  BY <1>3, <1>4, <1>5
<1>7. Kept(s) = rob[s].waiting_mem_request
  BY <1>3 DEF Kept
<1>8. ~Waiting(s)
  BY <1>1, <1>3 DEF StageInv
<1>9. rob[s].stage # "COMMIT"
  BY <1>3, <1>6, <1>7 DEF DoneInv
<1>10. rob[s].stage = "EXECUTION" /\ s \notin unified_functional_units
  <2>1. rob[s].stage # "DECODE" /\ rob[s].stage # "RENAME"
    BY <1>3, <1>8 DEF RobInv, Waiting
  <2> QED BY <1>8, <1>9, <2>1 DEF RobShape, LineShape, Waiting
<1>11. \A w \in Forwarded(mob, p) :
       /\ w \in Place /\ w # p /\ Used(w) /\ w[1] = "LOAD" /\ mob[w].uop_executed /\ ~mob[w].processed
       /\ Owner(w) \in Slot /\ Busy(Owner(w)) /\ StillWaits(mob, p, w) = 0
       /\ mob[w].wait_mem_deps_number # 0
  BY <1>1, ForwardedIs
<1> QED BY <1>1, <1>2, <1>3, <1>6, <1>7, <1>10, <1>11 DEF WriteFacts

\* The effect of StoreDone on the lines.
LEMMA WriteLines ==
  ASSUME IInv, NEW p \in Place, NEW s \in Slot, WriteFacts(p, s), StoreDone(p),
         UNCHANGED <<robStart, robUsed, renameCounter>>
  PROVE  /\ LineStep(s, rob[s].waiting_mem_request - 1 = 0)
         /\ \A x \in Slot :
              /\ rob'[x].waiting_mem_request =
                   IF x = s THEN rob[x].waiting_mem_request - 1 ELSE rob[x].waiting_mem_request
              /\ rob'[x].sent = (rob[x].sent \/ x = s \/ \E w \in Forwarded(mob, p) : Owner(w) = x)
<1> USE DEF IInv
<1> DEFINE R == {s} \cup {Owner(w) : w \in Forwarded(mob, p)}
<1>2. PICK lines : lines = [x \in Slot |-> [rob[x] EXCEPT !.sent = @ \/ x \in R]]
  OBVIOUS
<1>3. R \in SUBSET Slot /\ \A x \in R : Busy(x)
  BY DEF WriteFacts
<1>4. \A x \in Slot : x \in R <=> x = s \/ \E w \in Forwarded(mob, p) : Owner(w) = x
  OBVIOUS
<1>5. CompleteOne(lines, s)
  BY <1>2 DEF StoreDone, Owner, WriteFacts
<1> HIDE DEF R
<1>6. /\ LineBase(lines)
      /\ \A x \in Slot : /\ lines[x].stage = rob[x].stage
                         /\ lines[x].waiting_mem_request = rob[x].waiting_mem_request
                         /\ lines[x].sent = (rob[x].sent \/ x \in R)
  <2>1. Receiving(lines, R)
    BY <1>2, <1>3 DEF Receiving
  <2> QED BY <2>1, MarkedIs, Zenon
<1>7. /\ LineStep(s, rob[s].waiting_mem_request - 1 = 0)
      /\ \A x \in Slot : /\ rob'[x].waiting_mem_request =
                                 IF x = s THEN rob[x].waiting_mem_request - 1 ELSE rob[x].waiting_mem_request
                         /\ rob'[x].sent = lines[x].sent
    BY <1>5, <1>6, CompleteOneIs
<1> QED BY <1>4, <1>6, <1>7

\* What a store that is done does to the places: its own is free, and those
\* in F take its data.
WritePlaces(p, F) ==
  /\ mob' \in [Place -> EntryShape]
  /\ mob'[p] = CleanEntry(<<>>)
  /\ \A x \in Place :
       /\ mob'[x].wait_mem_deps_number = mob[x].wait_mem_deps_number - Times(x, mob[p].mem_deps_ptr_array)
       /\ mob'[x].mem_deps_ptr_array = IF x = p THEN <<>> ELSE mob[x].mem_deps_ptr_array
       /\ x # p =>
            /\ mob'[x].rob_ptr = mob[x].rob_ptr /\ mob'[x].access = mob[x].access
            /\ mob'[x].uop_executed = mob[x].uop_executed /\ mob'[x].processed = mob[x].processed
            /\ mob'[x].status = IF x \in F THEN "READY" ELSE mob[x].status
            /\ mob'[x].sent = (mob[x].sent \/ x \in F)

LEMMA CleanEntryIs ==
  ASSUME NEW a \in Seq(Place)
  PROVE  /\ CleanEntry(a) \in EntryShape
         /\ CleanEntry(a).status = "FREE" /\ CleanEntry(a).rob_ptr = NULL /\ CleanEntry(a).access = NULL
         /\ CleanEntry(a).uop_executed = FALSE /\ CleanEntry(a).processed = FALSE /\ CleanEntry(a).sent = FALSE
         /\ CleanEntry(a).wait_mem_deps_number = 0 /\ CleanEntry(a).mem_deps_ptr_array = a
BY DEF CleanEntry, EntryShape

LEMMA StorePlaces ==
  ASSUME IInv, NEW p \in Place, NEW s \in Slot, WriteFacts(p, s), StoreDone(p)
  PROVE  WritePlaces(p, Forwarded(mob, p)) /\ TablesForget(p)
<1> USE DEF IInv
<1>0. mob \in [Place -> EntryShape] /\ mob[p] \in EntryShape
  BY DEF MobShape
<1>1. PICK entries : entries = [mob EXCEPT ![p].sent = TRUE, ![p].processed = TRUE]
  OBVIOUS
<1>2. /\ entries \in [Place -> EntryShape]
      /\ \A x \in Place :
           /\ entries[x].rob_ptr = mob[x].rob_ptr /\ entries[x].access = mob[x].access
           /\ entries[x].uop_executed = mob[x].uop_executed
           /\ x # p => entries[x].processed = mob[x].processed /\ entries[x].sent = mob[x].sent
           /\ entries[x].wait_mem_deps_number = mob[x].wait_mem_deps_number
           /\ entries[x].mem_deps_ptr_array = mob[x].mem_deps_ptr_array
           /\ entries[x].status = mob[x].status
  <2>1. entries = [mob EXCEPT ![p] = [mob[p] EXCEPT !.sent = TRUE, !.processed = TRUE]]
    BY <1>0, <1>1, Zenon
  <2> QED BY <1>0, <2>1 DEF EntryShape
<1>3. PICK d : d = solve_memory_dependences(order(entries), p)
  OBVIOUS
<1>f. PlaceOf("STORE", mob_start["STORE"], 0) = p
  <2>1. "STORE" \in Memory /\ p[1] = "STORE" /\ Distance(p) = 0
    BY DEF Memory, WriteFacts
  <2>2. 0 \in 0 .. MOB["STORE"] - 1
    BY <2>1, PlaceType
  <2> DEFINE q == PlaceOf("STORE", mob_start["STORE"], 0)
  <2>3. q \in Place /\ q[1] = "STORE" /\ Distance(q) = 0
    BY <2>1, <2>2, DistanceFromStart
  <2> HIDE DEF q
  <2>4. q = p
    BY <2>1, <2>3, DistanceInjective
  <2> QED BY <2>4 DEF q
<1>4. mob' = Freed(d.mob, {p}) /\ load_hash' = d.load_hash /\ store_hash' = d.store_hash
  <2>1. OrderBecomes([d EXCEPT !.mob = Freed(@, {p})])
    BY <1>1, <1>3, <1>f DEF StoreDone
  <2>2. d = [mob |-> d.mob, load_hash |-> d.load_hash, store_hash |-> d.store_hash]
    BY <1>3 DEF solve_memory_dependences
  <2> QED BY <2>1, <2>2 DEF OrderBecomes
<1>5. /\ Forwarded(entries, p) = Forwarded(mob, p)
      /\ \A x \in Place : StillWaits(entries, p, x) = StillWaits(mob, p, x)
  BY <1>0, <1>2, ForwardedSame
<1>6. /\ d.mob \in [Place -> EntryShape]
      /\ \A x \in Place :
              /\ d.mob[x].rob_ptr = entries[x].rob_ptr /\ d.mob[x].access = entries[x].access
              /\ d.mob[x].uop_executed = entries[x].uop_executed /\ d.mob[x].processed = entries[x].processed
              /\ d.mob[x].wait_mem_deps_number = StillWaits(entries, p, x)
              /\ d.mob[x].mem_deps_ptr_array = IF x = p THEN <<>> ELSE entries[x].mem_deps_ptr_array
              /\ d.mob[x].status = IF x \in Forwarded(entries, p) THEN "READY" ELSE entries[x].status
              /\ d.mob[x].sent = (entries[x].sent \/ x \in Forwarded(entries, p))
      /\ d.load_hash = IF p[1] = "LOAD" THEN Forget(load_hash, LoadHash(entries[p].access.address), p) ELSE load_hash
      /\ d.store_hash = IF p[1] = "LOAD" THEN store_hash ELSE Forget(store_hash, StoreHash(entries[p].access.address), p)
  BY <1>2, <1>3, SolveIs
<1>7. mob' = [x \in Place |-> IF x = p THEN CleanEntry(<<>>) ELSE d.mob[x]]
  <2>1. d.mob[p].mem_deps_ptr_array = <<>>
    BY <1>6
  <2>2. \A x \in Place : x \in {p} <=> x = p
    OBVIOUS
  <2> QED BY <1>4, <2>1, <2>2, Zenon DEF Freed
<1>8. /\ CleanEntry(<<>>) \in EntryShape /\ CleanEntry(<<>>).wait_mem_deps_number = 0
      /\ CleanEntry(<<>>).mem_deps_ptr_array = <<>>
  <2>1. <<>> \in Seq(Place)
    OBVIOUS
  <2> QED BY <2>1, CleanEntryIs
<1>9. WritePlaces(p, Forwarded(mob, p))
  <2>1. mob' \in [Place -> EntryShape]
    BY <1>6, <1>7, <1>8
  <2>2. mob'[p] = CleanEntry(<<>>)
    BY <1>7
  <2>3. ASSUME NEW x \in Place, x # p
        PROVE  /\ mob'[x].wait_mem_deps_number = mob[x].wait_mem_deps_number - Times(x, mob[p].mem_deps_ptr_array)
               /\ mob'[x].mem_deps_ptr_array = mob[x].mem_deps_ptr_array
               /\ mob'[x].rob_ptr = mob[x].rob_ptr /\ mob'[x].access = mob[x].access
               /\ mob'[x].uop_executed = mob[x].uop_executed /\ mob'[x].processed = mob[x].processed
               /\ mob'[x].status = IF x \in Forwarded(mob, p) THEN "READY" ELSE mob[x].status
               /\ mob'[x].sent = (mob[x].sent \/ x \in Forwarded(mob, p))
    <3>0. mob'[x] = d.mob[x]
      BY <1>7, <2>3
    <3>1. mob'[x].wait_mem_deps_number = mob[x].wait_mem_deps_number - Times(x, mob[p].mem_deps_ptr_array)
      <4>1. d.mob[x].wait_mem_deps_number = StillWaits(entries, p, x) /\ StillWaits(entries, p, x) = StillWaits(mob, p, x)
        BY <1>5, <1>6, Zenon
      <4> QED BY <3>0, <4>1, Zenon DEF StillWaits
    <3>2. /\ d.mob[x].rob_ptr = entries[x].rob_ptr /\ d.mob[x].access = entries[x].access
          /\ d.mob[x].uop_executed = entries[x].uop_executed /\ d.mob[x].processed = entries[x].processed
          /\ d.mob[x].mem_deps_ptr_array = entries[x].mem_deps_ptr_array
      BY <1>6, <2>3, Zenon
    <3>3. /\ entries[x].rob_ptr = mob[x].rob_ptr /\ entries[x].access = mob[x].access
          /\ entries[x].uop_executed = mob[x].uop_executed /\ entries[x].processed = mob[x].processed
          /\ entries[x].mem_deps_ptr_array = mob[x].mem_deps_ptr_array
          /\ entries[x].status = mob[x].status /\ entries[x].sent = mob[x].sent
      BY <1>2, <2>3, Zenon
    <3>4. /\ d.mob[x].status = IF x \in Forwarded(mob, p) THEN "READY" ELSE entries[x].status
          /\ d.mob[x].sent = (entries[x].sent \/ x \in Forwarded(mob, p))
      BY <1>5, <1>6
    <3>5. /\ mob'[x].status = IF x \in Forwarded(mob, p) THEN "READY" ELSE mob[x].status
          /\ mob'[x].sent = (mob[x].sent \/ x \in Forwarded(mob, p))
      BY <3>0, <3>3, <3>4, Zenon
    <3> QED BY <3>0, <3>1, <3>2, <3>3, <3>5, Zenon
  <2>4. mob'[p].wait_mem_deps_number = mob[p].wait_mem_deps_number - Times(p, mob[p].mem_deps_ptr_array)
    <3>1. mob[p].wait_mem_deps_number = 0
      BY DEF WriteFacts
    <3>2. Times(p, mob[p].mem_deps_ptr_array) = 0
      BY <3>1, PlacePointedAt
    <3> QED BY <1>8, <2>2, <3>1, <3>2
  <2>5. mob'[p].mem_deps_ptr_array = <<>>
    BY <1>8, <2>2
  <2> QED BY <2>1, <2>2, <2>3, <2>4, <2>5, Zenon DEF WritePlaces
<1>10. TablesForget(p)
  <2>1. entries[p].access = mob[p].access
    BY <1>2
  <2> QED BY <1>4, <1>6, <2>1, ForgetsPlace
<1> QED BY <1>9, <1>10

LEMMA WriteKeeps ==
  ASSUME IInv, mob_write
  PROVE  IInv'
<1> USE DEF IInv
<1>0. "STORE" \in Memory /\ MOB["STORE"] = MOB_WRITE
  BY DEF Memory, MOB
<1>1. PICK p \in Place : p = Candidate("STORE")
  BY <1>0, CandidateIs DEF mob_write
<1>2. p[1] = "STORE" /\ Used(p) /\ Sendable(p) /\ Distance(p) = 0
  BY <1>0, <1>1, CandidateIs DEF mob_write
<1>3. PICK s \in Slot : s = Owner(p)
  BY <1>2, OwnedPlace
<1>4. WriteFacts(p, s)
  BY <1>2, <1>3, WriteIs
<1> DEFINE F == Forwarded(mob, p)
<1>5. /\ p[1] = "STORE" /\ Used(p) /\ Distance(p) = 0 /\ s = Owner(p)
      /\ mob[p].uop_executed /\ mob[p].status = "WAIT" /\ ~mob[p].sent /\ ~mob[p].processed
      /\ mob[p].wait_mem_deps_number = 0
      /\ IsMemory(s) /\ Busy(s) /\ Kind(s) = "STORE" /\ rob[s].stage = "EXECUTION"
      /\ s \notin unified_functional_units
      /\ Kept(s) = Rank(s) + 1 /\ Kept(s) = rob[s].waiting_mem_request /\ Kept(s) \in Nat \ {0}
  BY <1>4 DEF WriteFacts
<1>6. \A w \in F : /\ w \in Place /\ w # p /\ Used(w) /\ w[1] = "LOAD" /\ mob[w].uop_executed /\ ~mob[w].processed
                   /\ Owner(w) \in Slot /\ Busy(Owner(w)) /\ StillWaits(mob, p, w) = 0
                   /\ mob[w].wait_mem_deps_number # 0
  BY <1>4 DEF WriteFacts
<1>7. /\ StoreDone(p)
      /\ mob_used' = [mob_used EXCEPT !["STORE"] = @ - 1]
      /\ mob_start' = [mob_start EXCEPT !["STORE"] = (@ + 1) % MOB_WRITE]
      /\ memory_executed' = [memory_executed EXCEPT !["STORE"] = @ - 1]
      /\ oldest_to_send' = [oldest_to_send EXCEPT !["STORE"] = NULL]
      /\ UNCHANGED <<robStart, robUsed, renameCounter>>
      /\ unified_reservation_station' = unified_reservation_station
      /\ unified_functional_units' = unified_functional_units
  BY <1>1 DEF mob_write, Dropped, stationVars
<1> DEFINE done == rob[s].waiting_mem_request - 1 = 0
<1>8. /\ LineStep(s, done)
      /\ \A x \in Slot :
           /\ rob'[x].waiting_mem_request =
                IF x = s THEN rob[x].waiting_mem_request - 1 ELSE rob[x].waiting_mem_request
           /\ rob'[x].sent = (rob[x].sent \/ x = s \/ \E w \in F : Owner(w) = x)
  BY <1>4, <1>7, WriteLines
<1>9. WritePlaces(p, F) /\ TablesForget(p)
  BY <1>4, <1>7, StorePlaces
<1>d. done \in BOOLEAN /\ (done <=> rob[s].waiting_mem_request - 1 = 0)
  OBVIOUS
<1> HIDE DEF F, done
<1>10. /\ mob' \in [Place -> EntryShape]
       /\ mob'[p] = CleanEntry(<<>>)
       /\ \A x \in Place :
            /\ mob'[x].wait_mem_deps_number = mob[x].wait_mem_deps_number - Times(x, mob[p].mem_deps_ptr_array)
            /\ mob'[x].mem_deps_ptr_array = IF x = p THEN <<>> ELSE mob[x].mem_deps_ptr_array
            /\ x # p =>
                 /\ mob'[x].rob_ptr = mob[x].rob_ptr /\ mob'[x].access = mob[x].access
                 /\ mob'[x].uop_executed = mob[x].uop_executed /\ mob'[x].processed = mob[x].processed
                 /\ mob'[x].status = IF x \in F THEN "READY" ELSE mob[x].status
                 /\ mob'[x].sent = (mob[x].sent \/ x \in F)
  BY <1>9 DEF WritePlaces
<1>11. /\ ~Used(p)' /\ mob'[p].uop_executed = FALSE /\ mob'[p].processed = FALSE /\ mob'[p].sent = FALSE
       /\ mob'[p].wait_mem_deps_number = 0
  BY <1>10 DEF CleanEntry, Used
<1>12. \A x \in Place : x # p => Used(x)' = Used(x) /\ Owner(x)' = Owner(x)
  BY <1>6, <1>10 DEF Used, Owner
<1>13. /\ RobShape' /\ RobFrame /\ StageFrame /\ RobInv'
       /\ register_alias_table' \in [Register -> Slot \cup {NULL}]
  BY <1>5, <1>8, <1>d, LineStepFrame
<1>14. LineWaitInv'
  BY <1>5, <1>8, <1>d, LineStepWaits
<1>15. AliasInv'
  BY <1>5, <1>8, <1>d, LineStepAlias DEF Pending
<1>16. /\ mob_used' \in [Memory -> Nat] /\ mob_start' \in [Memory -> Nat]
       /\ \A o \in Memory : mob_used'[o] = IF o = "STORE" THEN mob_used[o] - 1 ELSE mob_used[o]
       /\ \A o \in Memory : mob_start'[o] = IF o = "STORE" THEN (mob_start[o] + 1) % MOB[o] ELSE mob_start[o]
       /\ mob_used["STORE"] \in Nat \ {0}
       /\ MOB["STORE"] # 0 => mob_start'["STORE"] < MOB["STORE"]
  <2>1. mob_used["STORE"] \in Nat \ {0}
    <3>1. 0 < mob_used["STORE"] /\ mob_used["STORE"] \in Nat
      BY <1>0, <1>5 DEF PlaceInv, MobShape
    <3> QED BY <3>1
  <2>2. MOB["STORE"] \in Nat \ {0}
    BY <1>2, PlaceType
  <2>3. mob_start \in [Memory -> Nat] /\ mob_used \in [Memory -> Nat] /\ mob_start["STORE"] \in 0 .. MOB["STORE"] - 1
    BY <1>0, <2>2 DEF MobShape
  <2>4. (mob_start["STORE"] + 1) % MOB["STORE"] \in Nat /\ (mob_start["STORE"] + 1) % MOB["STORE"] < MOB["STORE"]
    <3>1. 1 \in 0 .. MOB["STORE"]
      BY <2>2
    <3>2. (mob_start["STORE"] + 1) % MOB["STORE"] =
            IF mob_start["STORE"] + 1 < MOB["STORE"] THEN mob_start["STORE"] + 1 ELSE mob_start["STORE"] + 1 - MOB["STORE"]
      BY <2>2, <2>3, <3>1, Ring, Zenon
    <3> QED BY <2>2, <2>3, <3>2
  <2>5. mob_used["STORE"] - 1 \in Nat
    BY <2>1
  <2>6. /\ mob_start' = [mob_start EXCEPT !["STORE"] = (mob_start["STORE"] + 1) % MOB["STORE"]]
        /\ mob_used' = [mob_used EXCEPT !["STORE"] = mob_used["STORE"] - 1]
    BY <1>0, <1>7
  <2> DEFINE m == (mob_start["STORE"] + 1) % MOB["STORE"]
             k == mob_used["STORE"] - 1
  <2>7. \A o \in Memory : mob_start'[o] = IF o = "STORE" THEN m ELSE mob_start[o]
    <3> HIDE DEF m
    <3> QED BY <2>3, <2>6 DEF m
  <2>8. mob_start' \in [Memory -> Nat]
    <3> HIDE DEF m
    <3> QED BY <2>3, <2>4, <2>6 DEF m
  <2>9. mob_used' \in [Memory -> Nat] /\ \A o \in Memory : mob_used'[o] = IF o = "STORE" THEN k ELSE mob_used[o]
    <3> HIDE DEF k
    <3> QED BY <2>3, <2>5, <2>6 DEF k
  <2>10. mob_start'["STORE"] = m
    BY <1>0, <2>7
  <2>11. \A o \in Memory : mob_start'[o] = IF o = "STORE" THEN (mob_start[o] + 1) % MOB[o] ELSE mob_start[o]
    BY <2>7, Zenon
  <2> QED BY <2>1, <2>4, <2>8, <2>9, <2>10, <2>11
<1>17. MobShape'
  <2>1. \A o \in Memory : mob_used'[o] <= MOB[o] /\ (MOB[o] # 0 => mob_start'[o] < MOB[o])
    <3> TAKE o \in Memory
    <3>1. mob_used[o] \in Nat /\ mob_used[o] <= MOB[o] /\ (MOB[o] # 0 => mob_start[o] < MOB[o]) /\ MOB[o] \in Nat
      BY MobSize DEF MobShape
    <3>2. CASE o = "STORE"
      <4>1. mob_used'[o] = mob_used[o] - 1
        BY <1>16, <3>2
      <4> QED BY <1>16, <3>1, <3>2, <4>1
    <3>3. CASE o # "STORE"
      BY <1>16, <3>1, <3>3
    <3> QED BY <3>2, <3>3
  <2> QED BY <1>9, <1>10, <1>16, <2>1 DEF MobShape, TablesForget
<1>18. \A x \in Slot : /\ Busy(x)' = Busy(x) /\ IsMemory(x)' = IsMemory(x) /\ Kind(x)' = Kind(x)
                       /\ Count(x)' = Count(x) /\ Nth(x, 0)' = Nth(x, 0)
                       /\ x # s => (IsMemory(x) => Kept(x)' = Kept(x))
                       /\ x = s => Kept(x)' = Kept(x) - 1
  <2>1. \A x \in Slot : /\ Busy(x)' = Busy(x) /\ IsMemory(x)' = IsMemory(x) /\ Kind(x)' = Kind(x)
                        /\ Count(x)' = Count(x) /\ Nth(x, 0)' = Nth(x, 0)
    BY <1>13 DEF RobFrame, Busy, IsMemory, Kind, Count, Nth
  <2>2. \A x \in Slot : x # s => Kept(x)' = Kept(x)
    BY <1>8, <2>1 DEF Kept
  <2>3. Kept(s)' = Kept(s) - 1
    BY <1>5, <1>8, <2>1 DEF Kept
  <2> QED BY <2>1, <2>2, <2>3
<1>19. Leaves("STORE", 1)
  <2>1. 1 \in 0 .. mob_used["STORE"]
    BY <1>16
  <2>2. \A x \in Place : /\ Used(x)' <=> Used(x) /\ ~(x[1] = "STORE" /\ Distance(x) < 1)
                         /\ Used(x)' => mob'[x].rob_ptr = mob[x].rob_ptr /\ mob'[x].access = mob[x].access
    <3> TAKE x \in Place
    <3>1. CASE x = p
      <4>1. x[1] = "STORE" /\ Distance(x) < 1
        BY <1>5, <3>1
      <4> QED BY <1>11, <3>1, <4>1
    <3>2. CASE x # p
      <4>1. ~(x[1] = "STORE" /\ Distance(x) < 1)
        <5>1. SUFFICES ASSUME x[1] = "STORE", Distance(x) < 1 PROVE FALSE
          OBVIOUS
        <5>2. Distance(x) = 0
          BY <5>1, DistanceIs
        <5> QED BY <1>5, <3>2, <5>1, <5>2, DistanceInjective
      <4> QED BY <1>10, <1>12, <3>2, <4>1
    <3> QED BY <3>1, <3>2
  <2>3. ASSUME NEW x \in Slot
        PROVE  /\ rob'[x].uop = rob[x].uop /\ rob'[x].uop_number = rob[x].uop_number
               /\ rob'[x].pos_mob = rob[x].pos_mob
               /\ ~(IsMemory(x) /\ rob'[x].uop = NULL)
    BY <1>13 DEF RobFrame, IsMemory, Busy
  <2>4. ASSUME NEW x \in Slot, IsMemory(x)', Kind(x) # "STORE" PROVE Kept(x)' = Kept(x)
    BY <1>5, <1>18, <2>4
  <2>5. ASSUME NEW x \in Slot, IsMemory(x)', Kind(x) = "STORE"
        PROVE  /\ Kept(x)' \in 0 .. Kept(x)
               /\ Kept(x)' > 0 => 1 <= Rank(x) - Kept(x)' + 1
               /\ Kept(x)' = Kept(x) \/ Rank(x) - 1 + 1 <= Kept(x)'
    <3>1. IsMemory(x) /\ Kept(x) \in Nat /\ Rank(x) \in Nat
      <4>1. IsMemory(x)
        BY <1>18, <2>5
      <4> QED BY <4>1, MemoryUop
    <3>2. CASE x = s
      <4>1. Kept(x)' = Kept(x) - 1 /\ Kept(x) = Rank(x) + 1
        BY <1>5, <1>18, <3>2
      <4> QED BY <3>1, <4>1
    <3>3. CASE x # s
      <4>1. Kept(x)' = Kept(x)
        BY <1>18, <3>1, <3>3
      <4>2. ASSUME Kept(x) > 0 PROVE Kept(x) <= Rank(x)
        <5>1. Before(x, s) \/ Before(s, x)
          BY <1>5, <3>1, <3>3, Numbers DEF IsMemory
        <5>2. CASE Before(x, s)
          <6>1. Rank(x) + Kept(s) <= Rank(s)
            BY <1>5, <2>5, <3>1, <4>2, <5>2 DEF OrderInv
          <6>2. Rank(s) \in Nat
            BY <1>5, MemoryUop
          <6> QED BY <1>5, <3>1, <6>1, <6>2
        <5>3. CASE Before(s, x)
          <6>1. Rank(s) + Kept(x) <= Rank(x)
            BY <1>5, <2>5, <3>1, <4>2, <5>3 DEF OrderInv
          <6>2. Rank(s) \in Nat
            BY <1>5, MemoryUop
          <6> QED BY <3>1, <6>1, <6>2
        <5> QED BY <5>1, <5>2, <5>3
      <4> QED BY <3>1, <4>1, <4>2
    <3> QED BY <3>2, <3>3
  <2>6. \A x \in Slot : IsMemory(x)' => IF Kind(x) # "STORE" THEN Kept(x)' = Kept(x)
                          ELSE /\ Kept(x)' \in 0 .. Kept(x)
                               /\ Kept(x)' > 0 => 1 <= Rank(x) - Kept(x)' + 1
                               /\ Kept(x)' = Kept(x) \/ Rank(x) - 1 + 1 <= Kept(x)'
    BY <2>4, <2>5, Zenon
  <2>7. \A o \in Memory : MOB[o] # 0 =>
          mob_start'[o] = IF o = "STORE" THEN (mob_start[o] + 1) % MOB[o] ELSE mob_start[o]
    BY <1>16, Zenon
  <2>8. \A o \in Memory : mob_used'[o] = IF o = "STORE" THEN mob_used[o] - 1 ELSE mob_used[o]
    BY <1>16, Zenon
  <2> QED BY <2>1, <2>2, <2>3, <2>6, <2>7, <2>8, Zenon DEF Leaves
<1>20. PlaceInv' /\ OwnerInv' /\ OrderInv'
  BY <1>0, <1>17, <1>19, LeavesKeep
<1>21. /\ memory_executed' \in [Memory -> Int]
       /\ \A o \in Memory : memory_executed'[o] = IF o = "STORE" THEN memory_executed[o] - 1 ELSE memory_executed[o]
  BY <1>0, <1>7 DEF StageShape
<1>22. /\ oldest_to_send' \in [Memory -> Place \cup {NULL}]
       /\ \A o \in Memory : oldest_to_send'[o] = IF o = "STORE" THEN NULL ELSE oldest_to_send[o]
  BY <1>0, <1>7 DEF StageShape
<1>23. StageShape'
  BY <1>7, <1>13, <1>21, <1>22 DEF StageShape
<1>24. \A x \in Slot : rob'[x].stage = IF done /\ x = s THEN "COMMIT" ELSE rob[x].stage
  BY <1>8 DEF LineStep
<1>25. StageInv'
  <2>1. \A x \in Slot : Waiting(x)' => Waiting(x) /\ x # s /\ rob'[x].stage = rob[x].stage
    BY <1>5, <1>7, <1>24 DEF Waiting
  <2>2. \A j \in DOMAIN unified_reservation_station :
          rob'[unified_reservation_station[j]].uop # NULL /\ rob'[unified_reservation_station[j]].stage = "RENAME"
    <3> TAKE j \in DOMAIN unified_reservation_station
    <3>1. PICK x \in Slot : x = unified_reservation_station[j]
      BY DEF StageShape
    <3>2. Busy(x) /\ rob[x].stage = "RENAME"
      BY <3>1 DEF StageInv
    <3>3. Busy(x)' /\ rob'[x].stage = "RENAME"
      BY <1>5, <1>18, <1>24, <3>2
    <3> QED BY <3>1, <3>3 DEF Busy
  <2>3. \A i, j \in DOMAIN unified_reservation_station :
          unified_reservation_station[i] = unified_reservation_station[j] => i = j
    BY DEF StageInv
  <2>4. \A x \in unified_functional_units : Busy(x)' /\ rob'[x].stage = "EXECUTION"
    <3> TAKE x \in unified_functional_units
    <3>1. x \in Slot /\ x # s /\ Busy(x) /\ rob[x].stage = "EXECUTION"
      BY <1>5 DEF StageInv, StageShape
    <3> QED BY <1>18, <1>24, <3>1
  <2>5. ASSUME NEW x \in Slot, IsMemory(x)', Waiting(x)'
        PROVE  /\ Kind(x)' = "STORE" => Kept(x)' = Count(x)'
               /\ \A q \in Place : Used(q)' /\ Owner(q)' = x => ~mob'[q].uop_executed
    <3>1. IsMemory(x) /\ Waiting(x) /\ x # s
      BY <1>18, <2>1, <2>5
    <3>2. /\ Kind(x) = "STORE" => Kept(x) = Count(x)
          /\ \A q \in Place : Used(q) /\ Owner(q) = x => ~mob[q].uop_executed
      BY <3>1 DEF StageInv
    <3>3. Kind(x)' = "STORE" => Kept(x)' = Count(x)'
      BY <1>18, <3>1, <3>2
    <3>4. ASSUME NEW q \in Place, Used(q)', Owner(q)' = x PROVE ~mob'[q].uop_executed
      <4>1. q # p
        BY <1>11, <3>4
      <4>2. Used(q) /\ Owner(q) = x /\ mob'[q].uop_executed = mob[q].uop_executed
        BY <1>10, <1>12, <3>4, <4>1
      <4> QED BY <3>2, <4>2
    <3> QED BY <3>3, <3>4
  <2> QED BY <1>7, <2>2, <2>3, <2>4, <2>5 DEF StageInv, Busy
<1>26. EntryInv'
  <2> SUFFICES ASSUME NEW x \in Place PROVE EntryOK(x)'
    BY DEF EntryInv
  <2>1. EntryOK(x)
    BY DEF EntryInv
  <2>2. mob[x].wait_mem_deps_number = 0 => Times(x, mob[p].mem_deps_ptr_array) = 0
    BY PlacePointedAt
  <2>3. Used(x) => Owner(x) \in Slot
    BY OwnedPlace
  <2>4. Used(x) /\ rob[Owner(x)].sent => rob'[Owner(x)].sent
    BY <1>8, <2>3
  <2>5. mob[x].wait_mem_deps_number = 0 => mob'[x].wait_mem_deps_number = 0
    <3>1. mob'[x].wait_mem_deps_number = mob[x].wait_mem_deps_number - Times(x, mob[p].mem_deps_ptr_array)
      BY <1>10, Zenon
    <3> QED BY <2>2, <3>1
  <2>6. CASE x \in F
    <3>1. mob'[x].wait_mem_deps_number = 0
      <4>1. mob'[x].wait_mem_deps_number = mob[x].wait_mem_deps_number - Times(x, mob[p].mem_deps_ptr_array)
        BY <1>10, Zenon
      <4> QED BY <1>6, <2>6, <4>1 DEF StillWaits
    <3>2. rob'[Owner(x)].sent
      BY <1>6, <1>8, <2>6
    <3>3. Used(x)' /\ x[1] = "LOAD" /\ mob'[x].uop_executed /\ mob'[x].status = "READY" /\ mob'[x].sent
      BY <1>6, <1>10, <1>12, <2>6
    <3>4. Owner(x)' = Owner(x)
      BY <1>6, <1>12, <2>6
    <3> QED BY <3>1, <3>2, <3>3, <3>4 DEF EntryOK
  <2>7. CASE x = p
    BY <1>11, <2>7 DEF EntryOK
  <2>8. CASE x \notin F /\ x # p
    <3>1. /\ mob'[x].status = mob[x].status /\ mob'[x].sent = mob[x].sent
          /\ mob'[x].uop_executed = mob[x].uop_executed /\ mob'[x].processed = mob[x].processed
          /\ Used(x)' = Used(x) /\ Owner(x)' = Owner(x)
      <4>1. mob[x].sent \in BOOLEAN
        BY EntryTypes DEF MobShape
      <4> QED BY <1>10, <1>12, <2>8, <4>1
    <3> QED BY <2>1, <2>4, <2>5, <3>1 DEF EntryOK
  <2> QED BY <2>6, <2>7, <2>8
<1>27. DoneInv'
  <2> SUFFICES ASSUME NEW t \in Slot, IsMemory(t)'
               PROVE  /\ Kind(t)' \in {"LOAD", "STORE"} =>
                           (rob'[t].stage = "COMMIT" <=> rob'[t].waiting_mem_request = 0)
                      /\ Kind(t)' = "LOAD" => rob'[t].waiting_mem_request = Cardinality(Open(t)')
                      /\ Kind(t)' \in {"HIVE", "VIMA"} => (rob'[t].stage = "COMMIT" <=> mob'[Nth(t, 0)'].processed)
    BY DEF DoneInv
  <2>1. IsMemory(t) /\ Kind(t)' = Kind(t) /\ Nth(t, 0)' = Nth(t, 0)
    BY <1>18
  <2>2. /\ Kind(t) \in {"LOAD", "STORE"} => (rob[t].stage = "COMMIT" <=> rob[t].waiting_mem_request = 0)
        /\ Kind(t) = "LOAD" => rob[t].waiting_mem_request = Cardinality(Open(t))
        /\ Kind(t) \in {"HIVE", "VIMA"} => (rob[t].stage = "COMMIT" <=> mob[Nth(t, 0)].processed)
    BY <2>1 DEF DoneInv
  <2>3. Nth(t, 0) \in Place /\ Nth(t, 0)[1] = Kind(t)
    BY <2>1, MemoryUop
  <2>5. CASE t # s
    <3>1. rob'[t].stage = rob[t].stage /\ rob'[t].waiting_mem_request = rob[t].waiting_mem_request
      BY <1>8, <1>24, <2>5
    <3>2. Kind(t) # "STORE" => mob'[Nth(t, 0)].processed = mob[Nth(t, 0)].processed
      BY <1>5, <1>10, <2>3
    <3>3. Open(t)' = Open(t)
      <4>1. \A x \in Place : x # p => (x \in Open(t)' <=> x \in Open(t))
        BY <1>10, <1>12 DEF Open
      <4>2. p \notin Open(t)' /\ p \notin Open(t)
        BY <1>5, <1>11, <2>5 DEF Open
      <4>3. Open(t) \subseteq Place /\ Open(t)' \subseteq Place
        BY DEF Open
      <4> QED BY <4>1, <4>2, <4>3
    <3> QED BY <2>1, <2>2, <2>5, <3>1, <3>2, <3>3
  <2>6. CASE t = s
    <3>1. rob'[s].waiting_mem_request = rob[s].waiting_mem_request - 1
      BY <1>8
    <3>2. rob'[s].stage = "COMMIT" <=> rob'[s].waiting_mem_request = 0
      BY <1>5, <1>24, <1>d, <3>1
    <3> QED BY <1>5, <2>1, <2>6, <3>2
  <2> QED BY <2>5, <2>6
<1>28. CountInv'
  <2> SUFFICES ASSUME NEW o \in Memory PROVE memory_executed'[o] = Cardinality(ExecutedOf(o)')
    BY DEF CountInv
  <2>1. memory_executed[o] = Cardinality(ExecutedOf(o))
    BY DEF CountInv
  <2>2. IsFiniteSet(ExecutedOf(o))
    BY PlaceFinite, FS_Subset DEF ExecutedOf
  <2>3. \A x \in Place : x \in ExecutedOf(o)' <=> x \in ExecutedOf(o) /\ x # p
    BY <1>10, <1>11 DEF ExecutedOf
  <2>4. ExecutedOf(o) \subseteq Place /\ ExecutedOf(o)' \subseteq Place
    BY DEF ExecutedOf
  <2>5. p \in ExecutedOf(o) <=> o = "STORE"
    BY <1>5 DEF ExecutedOf
  <2>6. CASE o = "STORE"
    <3>1. ExecutedOf(o)' = ExecutedOf(o) \ {p}
      BY <2>3, <2>4
    <3>2. Cardinality(ExecutedOf(o) \ {p}) = Cardinality(ExecutedOf(o)) - 1
      BY <2>2, <2>5, <2>6, FS_RemoveElement
    <3> QED BY <1>21, <2>1, <2>6, <3>1, <3>2
  <2>7. CASE o # "STORE"
    <3>1. ExecutedOf(o)' = ExecutedOf(o)
      BY <2>3, <2>4, <2>5, <2>7
    <3> QED BY <1>21, <2>1, <2>7, <3>1
  <2> QED BY <2>6, <2>7
<1>29. CandidateInv'
  <2> SUFFICES ASSUME NEW o \in Memory, NEW x, x = oldest_to_send'[o], x # NULL
               PROVE  x[1] = o /\ Used(x)' /\ Sendable(x)' /\ (o = "STORE" => Distance(x)' = 0)
    BY DEF CandidateInv, Used, Sendable, Distance
  <2>1. o # "STORE" /\ x = oldest_to_send[o] /\ x \in Place
    BY <1>22 DEF StageShape
  <2>2. x[1] = o /\ Used(x) /\ Sendable(x) /\ x # p
    BY <1>5, <2>1 DEF CandidateInv
  <2>3. mob[x].wait_mem_deps_number = 0
    BY <2>2 DEF Sendable
  <2>4. Times(x, mob[p].mem_deps_ptr_array) = 0 /\ x \notin F
    BY <1>6, <2>1, <2>3, PlacePointedAt
  <2>5. mob'[x].wait_mem_deps_number = mob[x].wait_mem_deps_number - Times(x, mob[p].mem_deps_ptr_array)
    BY <1>10, <2>1, Zenon
  <2>6. mob'[x].wait_mem_deps_number = 0
    BY <2>3, <2>4, <2>5
  <2>7. /\ mob'[x].uop_executed = mob[x].uop_executed /\ mob'[x].status = mob[x].status
        /\ mob'[x].sent <=> mob[x].sent
    BY <1>10, <2>1, <2>2, <2>4
  <2> QED BY <1>12, <2>1, <2>2, <2>6, <2>7 DEF Sendable
<1>30. PlaceWaitInv'
  <2>1. \A x \in Place : x # p => Used(x)' = Used(x) /\ mob'[x].processed = mob[x].processed
    BY <1>10, <1>12
  <2>2. \A x \in Place :
           /\ mob'[x].wait_mem_deps_number = mob[x].wait_mem_deps_number - Times(x, mob[p].mem_deps_ptr_array)
           /\ mob'[x].mem_deps_ptr_array = IF x = p THEN <<>> ELSE mob[x].mem_deps_ptr_array
    BY <1>10, Zenon
  <2> QED BY <2>1, <2>2, PlacesAgree
<1>31. TableInv'
  <2> DEFINE gone == {p}
  <2>1. \A x \in Place \ gone : /\ Used(x)' = Used(x) /\ mob'[x].processed = mob[x].processed
                                /\ mob'[x].access = mob[x].access
    BY <1>10, <1>12
  <2>2. /\ \A b \in 0 .. LOAD_HASH_SIZE - 1 : load_hash'[b] # NULL => load_hash'[b] = load_hash[b] /\ load_hash[b] \notin gone
        /\ \A b \in 0 .. STORE_HASH_SIZE - 1 : store_hash'[b] # NULL => store_hash'[b] = store_hash[b] /\ store_hash[b] \notin gone
    BY <1>9 DEF TablesForget
  <2> HIDE DEF gone
  <2> QED BY <2>1, <2>2, TablesKept
<1> QED BY <1>13, <1>14, <1>15, <1>17, <1>20, <1>23, <1>25, <1>26, <1>27, <1>28, <1>29, <1>30, <1>31

-----------------------------------------------------------------------------
(* Commit.                                                                 *)

\* The head h gives n places of op back, and they are all that it keeps.
HeadFacts(h, op, n) ==
  /\ Busy(h) /\ rob[h].stage = "COMMIT"
  /\ op \in Memory /\ n \in 0 .. mob_used[op] /\ (op = "STORE" => n = 0)
  /\ IsMemory(h) => Kind(h) = op /\ (Kept(h) > 0 => Rank(h) < n)
  /\ n > 0 => IsMemory(h) /\ Kept(h) = n /\ Rank(h) = n - 1
  /\ \A x \in Place : x[1] = op /\ Distance(x) < n <=> Used(x) /\ Owner(x) = h
  /\ \A x \in Place : Used(x) /\ Owner(x) = h =>
       /\ mob[x].processed /\ mob[x].sent /\ mob[x].wait_mem_deps_number = 0
       /\ mob[x].mem_deps_ptr_array = <<>>

LEMMA HeadIs ==
  ASSUME IInv, robUsed # 0, rob[robStart].stage = "COMMIT", NEW op, NEW n,
         op = (IF rob[robStart].uop.op \in Memory THEN rob[robStart].uop.op ELSE "LOAD"),
         n = Leaving(rob[robStart].uop)
  PROVE  robStart \in Slot /\ HeadFacts(robStart, op, n)
<1> USE DEF IInv
<1>1. PICK h \in Slot : h = robStart /\ Busy(h) /\ \A s \in Slot : Busy(s) /\ s # h => Before(h, s)
  BY HeadIsOldest
<1>2. rob[h].stage = "COMMIT"
  BY <1>1
<1>3. op \in Memory /\ (IsMemory(h) => Kind(h) = op) /\ (op = "STORE" => IsMemory(h))
  BY <1>1 DEF Memory, IsMemory, Kind
<1>4. n = IF rob[h].sent /\ IsMemory(h) /\ op # "STORE" THEN Count(h) ELSE 0
  BY <1>1, <1>3 DEF Leaving, IsMemory, Kind, Count
<1>5. \A x \in Place : Used(x) /\ Owner(x) = h => IsMemory(h) /\ Kind(h) = x[1]
  BY <1>1, OwnedPlace
<1>6. ASSUME NEW x \in Place, Used(x), Owner(x) = h
      PROVE  /\ mob[x].processed /\ mob[x].sent /\ mob[x].wait_mem_deps_number = 0
             /\ mob[x].mem_deps_ptr_array = <<>> /\ rob[h].sent /\ IsMemory(h) /\ op # "STORE"
  <2>1. IsMemory(h) /\ Kind(h) = op /\ x[1] = op
    BY <1>3, <1>5, <1>6
  <2>2. op # "STORE"
    <3> SUFFICES ASSUME op = "STORE" PROVE FALSE
      OBVIOUS
    <3>1. Kept(h) = 0
      BY <1>1, <1>2, <2>1 DEF DoneInv, Kept
    <3>2. Rank(h) - Kept(h) < Distance(x) /\ Distance(x) <= Rank(h)
      BY <1>6 DEF PlaceInv
    <3>3. Rank(h) \in Nat /\ Distance(x) \in Nat
      BY <1>1, <2>1, MemoryUop, DistanceIs
    <3> QED BY <3>1, <3>2, <3>3
  <2>3. mob[x].processed
    <3>1. CASE op = "LOAD"
      <4>1. Cardinality(Open(h)) = 0
        BY <1>1, <1>2, <2>1, <3>1 DEF DoneInv
      <4>2. Open(h) = {}
        BY <4>1, OpenFinite, FS_EmptySet
      <4> QED BY <1>6, <4>2 DEF Open
    <3>2. CASE op # "LOAD"
      <4>1. op \in {"HIVE", "VIMA"}
        BY <1>3, <2>2, <3>2 DEF Memory
      <4>2. Count(h) = 1
        BY <1>1, <2>1, <4>1, MemoryUop, UopAssumption DEF Count, Kind
      <4>3. PICK i \in 0 .. Count(h) - 1 : x = Nth(h, i)
        BY <1>6, OwnedPlace
      <4>4. x = Nth(h, 0)
        BY <4>2, <4>3
      <4> QED BY <1>1, <1>2, <2>1, <4>1, <4>4 DEF DoneInv
    <3> QED BY <3>1, <3>2
  <2>4. EntryOK(x)
    BY DEF EntryInv
  <2>5. mob[x].sent /\ mob[x].wait_mem_deps_number = 0 /\ rob[h].sent
    BY <1>6, <2>3, <2>4 DEF EntryOK
  <2>6. mob[x].mem_deps_ptr_array = <<>>
    BY <2>3 DEF PlaceWaitInv
  <2> QED BY <2>1, <2>2, <2>3, <2>5, <2>6
<1>7. IsMemory(h) => Kept(h) \in 0 .. Count(h) /\ Count(h) \in Nat \ {0} /\ Rank(h) \in Nat
  BY <1>1, MemoryUop
<1>8. ASSUME IsMemory(h), op # "STORE"
      PROVE  n = Count(h) /\ Kept(h) = Count(h) /\ Rank(h) = n - 1 /\ n <= mob_used[op]
  <2>1. Kept(h) = Count(h) /\ Kept(h) > 0
    BY <1>3, <1>7, <1>8 DEF Kept
  <2>2. PICK x \in Place : Used(x) /\ Owner(x) = h
    <3>1. 0 \in 0 .. Count(h) - 1 /\ Count(h) - Kept(h) <= 0
      BY <1>7, <1>8, <2>1
    <3> QED BY <1>8, <3>1, KeptPlace
  <2>3. n = Count(h)
    BY <1>4, <1>6, <1>8, <2>2
  <2>4. Rank(h) < mob_used[op] /\ Kept(h) <= Rank(h) + 1
    BY <1>3, <1>8, <2>1 DEF OwnerInv
  <2>5. 0 \in 0 .. MOB[op] - 1 /\ mob_used[op] \in Nat
    BY <1>1, <1>3, <1>8, MemoryUop DEF MobShape
  <2>6. PICK q \in Place : q[1] = op /\ Distance(q) = 0
    BY <1>3, <2>5, DistanceFromStart
  <2>7. Used(q)
    BY <1>7, <1>8, <2>4, <2>5, <2>6 DEF PlaceInv
  <2>8. PICK y \in Slot : y = Owner(q) /\ IsMemory(y) /\ Kind(y) = op /\ Rank(y) - Kept(y) < 0
    BY <2>6, <2>7 DEF PlaceInv
  <2>9. Kept(y) \in Nat /\ Rank(y) \in Nat
    BY <2>8, MemoryUop
  <2>10. y = h
    <3> SUFFICES ASSUME y # h PROVE FALSE
      OBVIOUS
    <3>1. Before(h, y)
      BY <1>1, <2>8 DEF IsMemory
    <3>2. Rank(h) + Kept(y) <= Rank(y)
      BY <1>3, <1>8, <2>1, <2>8, <2>9, <3>1 DEF OrderInv
    <3> QED BY <1>7, <1>8, <2>8, <2>9, <3>2
  <2>11. Rank(h) = Count(h) - 1
    BY <1>7, <1>8, <2>1, <2>4, <2>8, <2>10
  <2> QED BY <1>7, <1>8, <2>1, <2>3, <2>4, <2>5, <2>11
<1>9. n \in 0 .. mob_used[op] /\ (op = "STORE" => n = 0)
  <2>1. mob_used[op] \in Nat
    BY <1>3 DEF MobShape
  <2> QED BY <1>4, <1>7, <1>8, <2>1
<1>10. n > 0 => IsMemory(h) /\ op # "STORE"
  BY <1>4
<1>11. IsMemory(h) /\ op = "STORE" => Kept(h) = 0
  BY <1>1, <1>2, <1>3 DEF DoneInv, Kept
<1>12. IsMemory(h) => Kind(h) = op /\ (Kept(h) > 0 => Rank(h) < n)
  <2>1. CASE IsMemory(h) /\ op = "STORE"
    BY <1>3, <1>11, <2>1
  <2>2. CASE IsMemory(h) /\ op # "STORE"
    BY <1>3, <1>7, <1>8, <2>2
  <2> QED BY <2>1, <2>2
<1>13. n > 0 => IsMemory(h) /\ Kept(h) = n /\ Rank(h) = n - 1
  BY <1>8, <1>10
<1>14. ASSUME NEW x \in Place
       PROVE  x[1] = op /\ Distance(x) < n <=> Used(x) /\ Owner(x) = h
  <2>0. Distance(x) \in Nat /\ n \in Nat /\ mob_used[op] \in Nat
    BY <1>3, <1>9, DistanceIs DEF MobShape
  <2>1. ASSUME x[1] = op, Distance(x) < n PROVE Used(x) /\ Owner(x) = h
    <3>1. n > 0 /\ Distance(x) < mob_used[op]
      BY <1>9, <2>0, <2>1
    <3>2. Used(x)
      BY <2>1, <3>1 DEF PlaceInv
    <3>3. PICK y \in Slot : y = Owner(x) /\ IsMemory(y) /\ Kind(y) = op /\ Rank(y) - Kept(y) < Distance(x) /\ Distance(x) <= Rank(y)
      BY <2>1, <3>2 DEF PlaceInv
    <3>4. Kept(y) \in Nat /\ Rank(y) \in Nat
      BY <3>3, MemoryUop
    <3>5. y = h
      <4> SUFFICES ASSUME y # h PROVE FALSE
        OBVIOUS
      <4>1. Before(h, y)
        BY <1>1, <3>3 DEF IsMemory
      <4>2. IsMemory(h) /\ Kind(h) = op /\ Kept(h) > 0 /\ Kept(y) > 0 /\ Rank(h) = n - 1
        BY <1>3, <1>13, <2>0, <3>1, <3>3, <3>4
      <4>3. Rank(h) + Kept(y) <= Rank(y)
        BY <3>3, <4>1, <4>2 DEF OrderInv
      <4> QED BY <2>0, <2>1, <3>3, <3>4, <4>2, <4>3
    <3> QED BY <3>2, <3>3, <3>5
  <2>2. ASSUME Used(x), Owner(x) = h PROVE x[1] = op /\ Distance(x) < n
    <3>1. IsMemory(h) /\ Kind(h) = x[1] /\ Distance(x) <= Rank(h)
      BY <1>1, <2>2 DEF PlaceInv
    <3>2. op # "STORE"
      BY <1>6, <2>2
    <3>3. Rank(h) = n - 1
      BY <1>8, <3>1, <3>2
    <3> QED BY <1>3, <2>0, <3>1, <3>3
  <2> QED BY <2>1, <2>2
<1>15. \A x \in Place : Used(x) /\ Owner(x) = h =>
       /\ mob[x].processed /\ mob[x].sent /\ mob[x].wait_mem_deps_number = 0
       /\ mob[x].mem_deps_ptr_array = <<>>
  BY <1>6
<1>16. HeadFacts(h, op, n)
  BY <1>1, <1>2, <1>3, <1>9, <1>12, <1>13, <1>14, <1>15, Zenon DEF HeadFacts
<1> QED BY <1>1, <1>16

\* The effect of commit.
CommitEffect(h, op, n) ==
  /\ h = robStart /\ robUsed # 0
  /\ robStart' = (robStart + 1) % ROB_SIZE /\ robUsed' = robUsed - 1 /\ renameCounter' = renameCounter
  /\ rob' \in [Slot -> LineShape]
  /\ rob'[h].uop = NULL /\ rob'[h].stage = "DECODE" /\ rob'[h].sent = FALSE
  /\ rob'[h].uop_number = 0 /\ rob'[h].waiting_mem_request = 0
  /\ rob'[h].wait_reg_deps_number = 0 /\ rob'[h].reg_deps_ptr_array = <<>>
  /\ rob[h].wait_reg_deps_number = 0 /\ rob[h].reg_deps_ptr_array = <<>>
  /\ \A x \in Slot : x # h => rob'[x] = rob[x]
  /\ mob' \in [Place -> EntryShape]
  /\ \A x \in Place : mob'[x] = IF Used(x) /\ Owner(x) = h THEN CleanEntry(<<>>) ELSE mob[x]
  /\ mob_used' \in [Memory -> Nat]
  /\ \A o \in Memory : mob_used'[o] = IF o = op THEN mob_used[o] - n ELSE mob_used[o]
  /\ mob_start' \in [Memory -> Nat]
  /\ \A o \in Memory : mob_start'[o] = IF o = op /\ n # 0 THEN (mob_start[o] + n) % MOB[o] ELSE mob_start[o]
  /\ register_alias_table' = register_alias_table
  /\ unified_reservation_station' = unified_reservation_station
  /\ unified_functional_units' = unified_functional_units
  /\ load_hash' = load_hash /\ store_hash' = store_hash
  /\ memory_executed' = memory_executed /\ oldest_to_send' = oldest_to_send

LEMMA CommitIs ==
  ASSUME IInv, commit
  PROVE  \E h \in Slot : \E op \in Memory : \E n \in Nat : HeadFacts(h, op, n) /\ CommitEffect(h, op, n)
<1> USE DEF IInv
<1> DEFINE h == robStart
           u == rob[h].uop
           n == Leaving(u)
           op == IF u.op \in Memory THEN u.op ELSE "LOAD"
           fronts == {PlaceOf(op, mob_start[op], k - 1) : k \in 1 .. n}
<1>1. /\ robUsed # 0 /\ rob[h].stage = "COMMIT"
      /\ rob' = [rob EXCEPT ![h] = CleanLine(@.reg_deps_ptr_array)]
      /\ robStart' = (robStart + 1) % ROB_SIZE
      /\ robUsed' = robUsed - 1
      /\ mob' = Freed(mob, fronts)
      /\ mob_used' = [mob_used EXCEPT ![op] = @ - n]
      /\ mob_start' = [mob_start EXCEPT ![op] = IF n = 0 THEN @ ELSE (@ + n) % MOB[op]]
      /\ register_alias_table' = register_alias_table
      /\ unified_reservation_station' = unified_reservation_station
      /\ unified_functional_units' = unified_functional_units
      /\ load_hash' = load_hash /\ store_hash' = store_hash
      /\ memory_executed' = memory_executed /\ oldest_to_send' = oldest_to_send
      /\ renameCounter' = renameCounter
  BY DEF commit, stationVars, sendVars
<1>2. h \in Slot /\ HeadFacts(h, op, n)
  BY <1>1, HeadIs
<1> HIDE DEF h, u, n, op
<1>h. h = robStart
  BY DEF h
<1>3. /\ Busy(h) /\ rob[h].stage = "COMMIT"
      /\ op \in Memory /\ n \in 0 .. mob_used[op] /\ (op = "STORE" => n = 0)
      /\ \A x \in Place : x[1] = op /\ Distance(x) < n <=> Used(x) /\ Owner(x) = h
      /\ \A x \in Place : Used(x) /\ Owner(x) = h => mob[x].mem_deps_ptr_array = <<>>
  BY <1>2 DEF HeadFacts
<1>4. n \in Nat /\ mob_used[op] \in Nat /\ mob_used[op] <= MOB[op] /\ MOB[op] \in Nat
  BY <1>3, MobSize DEF MobShape
<1>5. rob[h].wait_reg_deps_number = 0 /\ rob[h].reg_deps_ptr_array = <<>>
  BY <1>2, <1>3 DEF LineWaitInv, Pending
<1>6. rob' = [rob EXCEPT ![h] = CleanLine(<<>>)]
  BY <1>1, <1>5
<1>7. CleanLine(<<>>) \in LineShape /\ CleanLine(<<>>).uop = NULL /\ CleanLine(<<>>).stage = "DECODE"
      /\ CleanLine(<<>>).sent = FALSE /\ CleanLine(<<>>).wait_reg_deps_number = 0
      /\ CleanLine(<<>>).uop_number = 0 /\ CleanLine(<<>>).waiting_mem_request = 0
      /\ CleanLine(<<>>).reg_deps_ptr_array = <<>>
  <2>1. <<>> \in Seq(Slot)
    OBVIOUS
  <2> QED BY <2>1 DEF CleanLine, LineShape
<1>8. /\ rob' \in [Slot -> LineShape] /\ rob'[h] = CleanLine(<<>>)
      /\ \A x \in Slot : x # h => rob'[x] = rob[x]
  BY <1>2, <1>6, <1>7 DEF RobShape
<1>9. \A x \in Place : x \in fronts <=> x[1] = op /\ Distance(x) < n
  <2> TAKE x \in Place
  <2>1. ASSUME x \in fronts PROVE x[1] = op /\ Distance(x) < n
    <3>1. PICK k \in 1 .. n : x = PlaceOf(op, mob_start[op], k - 1)
      BY <2>1
    <3>2. k - 1 \in 0 .. MOB[op] - 1 /\ k - 1 < n
      BY <1>3, <1>4
    <3> QED BY <1>3, <3>1, <3>2, DistanceFromStart
  <2>2. ASSUME x[1] = op, Distance(x) < n PROVE x \in fronts
    <3>1. PICK k \in Nat : k = Distance(x) /\ k \in 0 .. MOB[op] - 1
      BY <2>2, DistanceIs
    <3>2. k + 1 \in 1 .. n /\ (k + 1) - 1 = k
      BY <1>4, <2>2, <3>1
    <3>3. x = PlaceOf(op, mob_start[op], k)
      <4>1. /\ PlaceOf(op, mob_start[op], k) \in Place /\ PlaceOf(op, mob_start[op], k)[1] = op
            /\ Distance(PlaceOf(op, mob_start[op], k)) = k
        BY <1>3, <3>1, DistanceFromStart
      <4> QED BY <2>2, <3>1, <4>1, DistanceInjective
    <3> QED BY <3>2, <3>3
  <2> QED BY <2>1, <2>2
<1> HIDE DEF fronts
<1>10. \A x \in Place : x \in fronts <=> Used(x) /\ Owner(x) = h
  BY <1>3, <1>9
<1>11. \A x \in Place : mob'[x] = IF Used(x) /\ Owner(x) = h THEN CleanEntry(<<>>) ELSE mob[x]
  <2> TAKE x \in Place
  <2>1. mob'[x] = IF x \in fronts THEN CleanEntry(mob[x].mem_deps_ptr_array) ELSE mob[x]
    BY <1>1 DEF Freed
  <2> QED BY <1>3, <1>10, <2>1
<1>12. mob' \in [Place -> EntryShape]
  <2>1. <<>> \in Seq(Place)
    OBVIOUS
  <2>2. CleanEntry(<<>>) \in EntryShape
    BY <2>1, CleanEntryIs
  <2>3. \A x \in Place : mob[x] \in EntryShape
    BY DEF MobShape
  <2>4. \A x \in Place : mob'[x] \in EntryShape
    BY <1>11, <2>2, <2>3
  <2>5. mob' = [x \in Place |-> mob'[x]]
    BY <1>1 DEF Freed
  <2> QED BY <2>4, <2>5
<1>13. /\ mob_used' \in [Memory -> Nat]
       /\ \A o \in Memory : mob_used'[o] = IF o = op THEN mob_used[o] - n ELSE mob_used[o]
  <2>1. mob_used \in [Memory -> Nat] /\ mob_used[op] - n \in Nat
    BY <1>3, <1>4 DEF MobShape
  <2> QED BY <1>1, <1>3, <2>1
<1>14. /\ mob_start' \in [Memory -> Nat]
       /\ \A o \in Memory : mob_start'[o] = IF o = op /\ n # 0 THEN (mob_start[o] + n) % MOB[o] ELSE mob_start[o]
  <2> DEFINE m == IF n = 0 THEN mob_start[op] ELSE (mob_start[op] + n) % MOB[op]
  <2>1. mob_start \in [Memory -> Nat]
    BY DEF MobShape
  <2>2. m \in Nat
    <3>1. CASE n = 0
      BY <1>3, <2>1, <3>1
    <3>2. CASE n # 0
      <4>1. MOB[op] \in Nat \ {0} /\ mob_start[op] + n \in Nat
        BY <1>3, <1>4, <2>1, <3>2
      <4>2. (mob_start[op] + n) % MOB[op] \in Nat
        BY <4>1
      <4> QED BY <3>2, <4>2
    <3> QED BY <3>1, <3>2
  <2>3. mob_start' = [mob_start EXCEPT ![op] = m]
    BY <1>1
  <2>4. \A o \in Memory : mob_start'[o] = IF o = op THEN m ELSE mob_start[o]
    <3> HIDE DEF m
    <3> QED BY <1>3, <2>1, <2>3
  <2>5. mob_start' \in [Memory -> Nat]
    <3> HIDE DEF m
    <3> QED BY <1>3, <2>1, <2>2, <2>3
  <2> QED BY <2>4, <2>5, Zenon
<1>15. CommitEffect(h, op, n)
  BY <1>h, <1>1, <1>5, <1>7, <1>8, <1>11, <1>12, <1>13, <1>14, Zenon DEF CommitEffect
<1> QED BY <1>2, <1>3, <1>4, <1>15

\* What commit does to the reorder buffer.
LEMMA CommitRob ==
  ASSUME IInv, NEW h \in Slot, NEW op \in Memory, NEW n \in Nat, HeadFacts(h, op, n), CommitEffect(h, op, n)
  PROVE  /\ RobShape' /\ RobInv' /\ LineWaitInv' /\ AliasInv'
         /\ \A x \in Slot : Busy(x)' <=> Busy(x) /\ x # h
<1> USE DEF IInv
<1>1. /\ h = robStart /\ robUsed # 0
      /\ robStart' = (robStart + 1) % ROB_SIZE /\ robUsed' = robUsed - 1 /\ renameCounter' = renameCounter
      /\ rob' \in [Slot -> LineShape]
      /\ rob'[h].uop = NULL /\ rob'[h].stage = "DECODE" /\ rob'[h].sent = FALSE
      /\ rob'[h].wait_reg_deps_number = 0 /\ rob'[h].reg_deps_ptr_array = <<>>
      /\ rob[h].wait_reg_deps_number = 0 /\ rob[h].reg_deps_ptr_array = <<>>
      /\ \A x \in Slot : x # h => rob'[x] = rob[x]
      /\ register_alias_table' = register_alias_table
  BY DEF CommitEffect
<1>2. Busy(h) /\ rob[h].stage = "COMMIT"
  BY DEF HeadFacts
<1>3. \A x \in Slot : Busy(x)' <=> Busy(x) /\ x # h
  BY <1>1 DEF Busy
<1>4. ROB_SIZE \in Nat \ {0} /\ robStart \in 0 .. ROB_SIZE - 1 /\ Slot = 0 .. ROB_SIZE - 1 /\ robUsed \in 1 .. ROB_SIZE
      /\ renameCounter \in Nat
  BY <1>1, RobSize, SizesAssumption DEF RobShape, Slot
<1>5. robStart' = IF robStart + 1 < ROB_SIZE THEN robStart + 1 ELSE robStart + 1 - ROB_SIZE
  <2>1. 1 \in 0 .. ROB_SIZE
    BY <1>4
  <2>2. (robStart + 1) % ROB_SIZE = IF robStart + 1 < ROB_SIZE THEN robStart + 1 ELSE robStart + 1 - ROB_SIZE
    BY <1>4, <2>1, Ring, Zenon
  <2> QED BY <1>1, <2>2
<1>6. RobShape'
  <2>1. robStart' \in Slot /\ robUsed' \in 0 .. ROB_SIZE
    BY <1>1, <1>4, <1>5
  <2> QED BY <1>1, <2>1 DEF RobShape
<1>7. \A s \in Slot : Age(s)' = IF Age(s) = 0 THEN ROB_SIZE - 1 ELSE Age(s) - 1
  <2> TAKE s \in Slot
  <2>1. Age(s) = IF s >= robStart THEN s - robStart ELSE s - robStart + ROB_SIZE
    BY AgeIs
  <2>2. (s - robStart') % ROB_SIZE = IF s >= robStart' THEN s - robStart' ELSE s - robStart' + ROB_SIZE
    <3>1. s \in 0 .. ROB_SIZE - 1 /\ robStart' \in 0 .. ROB_SIZE - 1
      BY <1>4, <1>5
    <3> QED BY <1>4, <3>1, RingBack, Zenon
  <2>3. Age(s)' = IF s >= robStart' THEN s - robStart' ELSE s - robStart' + ROB_SIZE
    BY <2>2 DEF Age
  <2> QED BY <1>4, <1>5, <2>1, <2>3
<1>8. Age(h) = 0 /\ \A s \in Slot : s # h => Age(s) \in 1 .. ROB_SIZE - 1
  <2>1. Age(h) = 0
    BY <1>1, <1>4, AgeIs
  <2>2. \A s \in Slot : s # h => Age(s) # 0 /\ Age(s) \in 0 .. ROB_SIZE - 1
    BY <2>1, AgeIs, AgeInjective
  <2> QED BY <1>4, <2>1, <2>2
<1>9. RobInv'
  <2>1. robUsed' <= renameCounter'
    BY <1>1, <1>4 DEF RobInv
  <2>2. ASSUME NEW s \in Slot
        PROVE  /\ Busy(s)' <=> Age(s)' < robUsed'
               /\ Busy(s)' => /\ rob'[s].uop_number = renameCounter' - robUsed' + Age(s)'
                              /\ rob'[s].stage # "DECODE"
               /\ ~Busy(s)' => rob'[s].stage = "DECODE" /\ ~rob'[s].sent
    <3>1. /\ Busy(s) <=> Age(s) < robUsed
          /\ Busy(s) => rob[s].uop_number = renameCounter - robUsed + Age(s) /\ rob[s].stage # "DECODE"
          /\ ~Busy(s) => rob[s].stage = "DECODE" /\ ~rob[s].sent
      BY DEF RobInv
    <3>2. CASE s = h
      <4>1. ~Busy(s)' /\ Age(s)' = ROB_SIZE - 1
        BY <1>3, <1>7, <1>8, <3>2
      <4> QED BY <1>1, <1>4, <3>2, <4>1
    <3>3. CASE s # h
      <4>1. Busy(s)' = Busy(s) /\ rob'[s] = rob[s] /\ Age(s)' = Age(s) - 1 /\ Age(s) \in 1 .. ROB_SIZE - 1
        BY <1>1, <1>3, <1>7, <1>8, <3>3 DEF Busy
      <4> QED BY <1>1, <1>4, <3>1, <4>1
    <3> QED BY <3>2, <3>3
  <2> QED BY <2>1, <2>2 DEF RobInv
<1>10. LineWaitInv'
  <2>1. \A x \in Slot : /\ rob'[x].wait_reg_deps_number = rob[x].wait_reg_deps_number
                        /\ rob'[x].reg_deps_ptr_array = rob[x].reg_deps_ptr_array
    BY <1>1
  <2>2. RegDeps(rob') = RegDeps(rob) /\ RegWaits(rob') = RegWaits(rob)
    BY <2>1 DEF RegDeps, RegWaits
  <2>3. ASSUME NEW s \in Slot
        PROVE  /\ rob'[s].reg_deps_ptr_array # <<>> => Busy(s)' /\ Pending(s)'
               /\ rob'[s].stage # "RENAME" => rob'[s].wait_reg_deps_number = 0
    <3>1. CASE s = h
      BY <1>1, <3>1
    <3>2. CASE s # h
      BY <1>1, <1>3, <3>2 DEF LineWaitInv, Pending
    <3> QED BY <3>1, <3>2
  <2> QED BY <2>2, <2>3 DEF LineWaitInv
<1>11. AliasInv'
  <2>1. ASSUME NEW r \in Register, NEW s \in Slot, Named(s, r) PROVE Named(s, r)'
    <3>1. Busy(s) /\ Writes(s, r) /\ Pending(s) /\ \A x \in Slot : Busy(x) /\ Writes(x, r) => ~Before(s, x)
      BY <2>1 DEF Named
    <3>2. s # h /\ rob'[s] = rob[s]
      BY <1>1, <1>2, <3>1 DEF Pending
    <3>3. Busy(s)' /\ Writes(s, r)' /\ Pending(s)'
      BY <3>1, <3>2 DEF Busy, Writes, Pending
    <3>4. ASSUME NEW x \in Slot, Busy(x)', Writes(x, r)' PROVE ~Before(s, x)'
      <4>1. x # h /\ rob'[x] = rob[x] /\ Busy(x)
        BY <1>1, <1>3, <3>4
      <4> QED BY <3>1, <3>2, <3>4, <4>1 DEF Writes, Before
    <3> QED BY <3>3, <3>4 DEF Named
  <2>2. ASSUME NEW r \in Register, Unnamed(r) PROVE Unnamed(r)'
    <3> SUFFICES ASSUME NEW s \in Slot, Busy(s)', Writes(s, r)', Pending(s)'
                 PROVE  \E x \in Slot : Busy(x)' /\ Writes(x, r)' /\ Before(s, x)'
      BY DEF Unnamed
    <3>1. s # h /\ rob'[s] = rob[s] /\ Busy(s)
      BY <1>1, <1>3
    <3>2. Writes(s, r) /\ Pending(s)
      BY <3>1 DEF Writes, Pending
    <3>3. PICK x \in Slot : Busy(x) /\ Writes(x, r) /\ Before(s, x)
      BY <2>2, <3>1, <3>2 DEF Unnamed
    <3>4. Before(h, s)
      BY <1>1, <3>1, HeadIsOldest
    <3>5. x # h
      BY <3>3, <3>4, Numbers DEF Before
    <3>6. rob'[x] = rob[x] /\ Busy(x)'
      BY <1>1, <1>3, <3>3, <3>5
    <3> QED BY <3>1, <3>3, <3>6 DEF Writes, Before
  <2>3. ASSUME NEW r \in Register, NEW a, a = register_alias_table[r]
        PROVE  (a # NULL => Named(a, r)') /\ (a = NULL => Unnamed(r)')
    <3>1. a # NULL => a \in Slot /\ Named(a, r)
      BY <2>3 DEF StageShape, AliasInv
    <3>2. a = NULL => Unnamed(r)
      BY <2>3 DEF AliasInv
    <3> QED BY <2>1, <2>2, <3>1, <3>2
  <2> QED BY <1>1, <2>3 DEF AliasInv, Named, Busy, Writes, Pending, Before
<1> QED BY <1>3, <1>6, <1>9, <1>10, <1>11

LEMMA CommitKeeps ==
  ASSUME IInv, commit
  PROVE  IInv'
<1> USE DEF IInv
<1>0. PICK h \in Slot, op \in Memory, n \in Nat : HeadFacts(h, op, n) /\ CommitEffect(h, op, n)
  BY CommitIs
<1>1. /\ rob'[h].uop = NULL /\ rob'[h].stage = "DECODE"
      /\ \A x \in Slot : x # h => rob'[x] = rob[x]
      /\ mob' \in [Place -> EntryShape]
      /\ \A x \in Place : mob'[x] = IF Used(x) /\ Owner(x) = h THEN CleanEntry(<<>>) ELSE mob[x]
      /\ mob_used' \in [Memory -> Nat]
      /\ \A o \in Memory : mob_used'[o] = IF o = op THEN mob_used[o] - n ELSE mob_used[o]
      /\ mob_start' \in [Memory -> Nat]
      /\ \A o \in Memory : mob_start'[o] = IF o = op /\ n # 0 THEN (mob_start[o] + n) % MOB[o] ELSE mob_start[o]
      /\ register_alias_table' = register_alias_table
      /\ unified_reservation_station' = unified_reservation_station
      /\ unified_functional_units' = unified_functional_units
      /\ load_hash' = load_hash /\ store_hash' = store_hash
      /\ memory_executed' = memory_executed /\ oldest_to_send' = oldest_to_send
  BY <1>0 DEF CommitEffect
<1>2. /\ Busy(h) /\ rob[h].stage = "COMMIT"
      /\ n \in 0 .. mob_used[op] /\ (op = "STORE" => n = 0)
      /\ IsMemory(h) => Kind(h) = op /\ (Kept(h) > 0 => Rank(h) < n)
      /\ n > 0 => IsMemory(h) /\ Kept(h) = n /\ Rank(h) = n - 1
      /\ \A x \in Place : x[1] = op /\ Distance(x) < n <=> Used(x) /\ Owner(x) = h
      /\ \A x \in Place : Used(x) /\ Owner(x) = h =>
           /\ mob[x].processed /\ mob[x].sent /\ mob[x].wait_mem_deps_number = 0
           /\ mob[x].mem_deps_ptr_array = <<>>
  BY <1>0 DEF HeadFacts
<1>3. RobShape' /\ RobInv' /\ LineWaitInv' /\ AliasInv' /\ \A x \in Slot : Busy(x)' <=> Busy(x) /\ x # h
  BY <1>0, CommitRob
<1>4. ASSUME NEW x \in Place, Used(x), Owner(x) = h
      PROVE  /\ ~Used(x)' /\ ~mob'[x].processed /\ ~mob'[x].sent /\ ~mob'[x].uop_executed
             /\ mob'[x].wait_mem_deps_number = 0 /\ mob'[x].mem_deps_ptr_array = <<>>
  BY <1>1, <1>4 DEF CleanEntry, Used
<1>5. ASSUME NEW x \in Place, ~(Used(x) /\ Owner(x) = h)
      PROVE  mob'[x] = mob[x] /\ Used(x)' = Used(x) /\ Owner(x)' = Owner(x)
  BY <1>1, <1>5 DEF Used, Owner
<1>6. MobShape'
  <2>1. ASSUME NEW o \in Memory PROVE mob_used'[o] <= MOB[o] /\ (MOB[o] # 0 => mob_start'[o] < MOB[o])
    <3>1. mob_used[o] \in Nat /\ mob_used[o] <= MOB[o] /\ (MOB[o] # 0 => mob_start[o] < MOB[o]) /\ MOB[o] \in Nat
          /\ mob_start[o] \in Nat
      BY MobSize DEF MobShape
    <3>2. mob_used'[o] <= MOB[o]
      BY <1>1, <3>1
    <3>3. MOB[o] # 0 => mob_start'[o] < MOB[o]
      <4>1. CASE o = op /\ n # 0
        <5>1. (mob_start[o] + n) % MOB[o] < MOB[o] \/ MOB[o] = 0
          BY <3>1
        <5> QED BY <1>1, <4>1, <5>1
      <4>2. CASE ~(o = op /\ n # 0)
        BY <1>1, <3>1, <4>2
      <4> QED BY <4>1, <4>2
    <3> QED BY <3>2, <3>3
  <2> QED BY <1>1, <2>1 DEF MobShape
<1>7. \A x \in Slot : IsMemory(x)' => /\ IsMemory(x) /\ x # h /\ rob'[x] = rob[x] /\ Kind(x)' = Kind(x)
                                      /\ Kept(x)' = Kept(x) /\ Count(x)' = Count(x) /\ Nth(x, 0)' = Nth(x, 0)
  <2> SUFFICES ASSUME NEW x \in Slot, IsMemory(x)'
               PROVE  /\ IsMemory(x) /\ x # h /\ rob'[x] = rob[x] /\ Kind(x)' = Kind(x)
                      /\ Kept(x)' = Kept(x) /\ Count(x)' = Count(x) /\ Nth(x, 0)' = Nth(x, 0)
    OBVIOUS
  <2>1. x # h /\ rob'[x] = rob[x]
    BY <1>1, <1>3 DEF IsMemory
  <2> QED BY <2>1 DEF IsMemory, Busy, Kind, Kept, Count, Nth
<1>8. Leaves(op, n)
  <2>1. \A o \in Memory : MOB[o] # 0 =>
          mob_start'[o] = IF o = op THEN (mob_start[o] + n) % MOB[o] ELSE mob_start[o]
    <3> TAKE o \in Memory
    <3> HAVE MOB[o] # 0
    <3>1. CASE o = op /\ n = 0
      <4>1. mob_start[o] \in 0 .. MOB[o] - 1 /\ MOB[o] \in Nat \ {0} /\ n \in 0 .. MOB[o]
        BY <3>1, MobSize, StartType
      <4>2. (mob_start[o] + n) % MOB[o] = IF mob_start[o] + n < MOB[o] THEN mob_start[o] + n ELSE mob_start[o] + n - MOB[o]
        BY <4>1, Ring, Zenon
      <4>3. (mob_start[o] + n) % MOB[o] = mob_start[o]
        BY <3>1, <4>1, <4>2
      <4>4. mob_start'[o] = mob_start[o]
        BY <1>1, <3>1
      <4> QED BY <3>1, <4>3, <4>4
    <3>2. CASE ~(o = op /\ n = 0)
      <4>1. CASE o = op
        <5>1. n # 0
          BY <3>2, <4>1
        <5> QED BY <1>1, <4>1, <5>1, Zenon
      <4>2. CASE o # op
        BY <1>1, <4>2, Zenon
      <4> QED BY <4>1, <4>2
    <3> QED BY <3>1, <3>2
  <2>2. \A x \in Place : /\ Used(x)' <=> Used(x) /\ ~(x[1] = op /\ Distance(x) < n)
                         /\ Used(x)' => mob'[x].rob_ptr = mob[x].rob_ptr /\ mob'[x].access = mob[x].access
    BY <1>2, <1>4, <1>5
  <2>3. ASSUME NEW x \in Slot, rob'[x].uop # NULL
        PROVE  rob'[x].uop = rob[x].uop /\ rob'[x].uop_number = rob[x].uop_number /\ rob'[x].pos_mob = rob[x].pos_mob
    BY <1>1, <2>3
  <2>4. ASSUME NEW x \in Slot, IsMemory(x), rob'[x].uop = NULL
        PROVE  Kind(x) = op /\ (Kept(x) > 0 => Rank(x) < n)
    <3>1. x = h
      BY <1>1, <2>4 DEF IsMemory, Busy
    <3> QED BY <1>2, <2>4, <3>1
  <2>5. ASSUME NEW x \in Slot, IsMemory(x)'
        PROVE  IF Kind(x) # op THEN Kept(x)' = Kept(x)
               ELSE /\ Kept(x)' \in 0 .. Kept(x)
                    /\ Kept(x)' > 0 => n <= Rank(x) - Kept(x)' + 1
                    /\ Kept(x)' = Kept(x) \/ Rank(x) - n + 1 <= Kept(x)'
    <3>1. IsMemory(x) /\ x # h /\ Kept(x)' = Kept(x)
      BY <1>7, <2>5
    <3>2. Kept(x) \in Nat /\ Rank(x) \in Nat
      BY <3>1, MemoryUop
    <3>3. ASSUME Kind(x) = op, Kept(x) > 0 PROVE n <= Rank(x) - Kept(x) + 1
      <4>1. CASE n = 0
        <5>1. Kept(x) <= Rank(x) + 1
          BY <3>1, <3>3 DEF OwnerInv
        <5> QED BY <3>2, <4>1, <5>1
      <4>2. CASE n # 0
        <5>1. IsMemory(h) /\ Kept(h) = n /\ Rank(h) = n - 1 /\ Kind(h) = op
          BY <1>2, <4>2
        <5>2. Before(h, x)
          <6>1. robUsed # 0 /\ h = robStart
            BY <1>0 DEF CommitEffect
          <6> QED BY <3>1, <6>1, HeadIsOldest DEF IsMemory
        <5>3. Rank(h) + Kept(x) <= Rank(x)
          BY <3>1, <3>3, <4>2, <5>1, <5>2 DEF OrderInv
        <5> QED BY <3>2, <5>1, <5>3
      <4> QED BY <4>1, <4>2
    <3> QED BY <3>1, <3>2, <3>3
  <2> QED BY <1>1, <1>2, <2>1, <2>2, <2>3, <2>4, <2>5, Zenon DEF Leaves
<1>9. PlaceInv' /\ OwnerInv' /\ OrderInv'
  BY <1>6, <1>8, LeavesKeep
<1>10. StageShape'
  BY <1>1 DEF StageShape
<1>11. StageInv'
  <2>1. ASSUME NEW j \in DOMAIN unified_reservation_station
        PROVE  rob'[unified_reservation_station[j]].uop # NULL /\ rob'[unified_reservation_station[j]].stage = "RENAME"
    <3>1. PICK x \in Slot : x = unified_reservation_station[j]
      BY DEF StageShape
    <3>2. Busy(x) /\ rob[x].stage = "RENAME"
      BY <3>1 DEF StageInv
    <3>3. rob'[x] = rob[x]
      BY <1>1, <1>2, <3>2
    <3> QED BY <3>1, <3>2, <3>3 DEF Busy
  <2>2. \A i, j \in DOMAIN unified_reservation_station :
          unified_reservation_station[i] = unified_reservation_station[j] => i = j
    BY DEF StageInv
  <2>3. \A x \in unified_functional_units : Busy(x)' /\ rob'[x].stage = "EXECUTION"
    <3> TAKE x \in unified_functional_units
    <3>1. x \in Slot /\ Busy(x) /\ rob[x].stage = "EXECUTION"
      BY DEF StageInv, StageShape
    <3> QED BY <1>1, <1>2, <1>3, <3>1
  <2>4. ASSUME NEW x \in Slot, IsMemory(x)', Waiting(x)'
        PROVE  /\ Kind(x)' = "STORE" => Kept(x)' = Count(x)'
               /\ \A q \in Place : Used(q)' /\ Owner(q)' = x => ~mob'[q].uop_executed
    <3>1. IsMemory(x) /\ x # h /\ Waiting(x)
      BY <1>1, <1>7, <2>4 DEF Waiting
    <3>2. /\ Kind(x) = "STORE" => Kept(x) = Count(x)
          /\ \A q \in Place : Used(q) /\ Owner(q) = x => ~mob[q].uop_executed
      BY <3>1 DEF StageInv
    <3>3. ASSUME NEW q \in Place, Used(q)', Owner(q)' = x PROVE ~mob'[q].uop_executed
      BY <1>4, <1>5, <3>2, <3>3
    <3> QED BY <1>7, <2>4, <3>2, <3>3
  <2> QED BY <1>1, <2>1, <2>2, <2>3, <2>4 DEF StageInv, Busy
<1>12. EntryInv'
  <2> SUFFICES ASSUME NEW x \in Place PROVE EntryOK(x)'
    BY DEF EntryInv
  <2>1. EntryOK(x)
    BY DEF EntryInv
  <2>2. CASE Used(x) /\ Owner(x) = h
    BY <1>4, <2>2 DEF EntryOK
  <2>3. CASE ~(Used(x) /\ Owner(x) = h)
    <3>1. mob'[x] = mob[x] /\ Used(x)' = Used(x) /\ Owner(x)' = Owner(x)
      BY <1>5, <2>3
    <3>2. Used(x) => rob'[Owner(x)] = rob[Owner(x)]
      BY <1>1, <2>3, OwnedPlace
    <3> QED BY <2>1, <3>1, <3>2 DEF EntryOK
  <2> QED BY <2>2, <2>3
<1>13. DoneInv'
  <2> SUFFICES ASSUME NEW t \in Slot, IsMemory(t)'
               PROVE  /\ Kind(t)' \in {"LOAD", "STORE"} =>
                           (rob'[t].stage = "COMMIT" <=> rob'[t].waiting_mem_request = 0)
                      /\ Kind(t)' = "LOAD" => rob'[t].waiting_mem_request = Cardinality(Open(t)')
                      /\ Kind(t)' \in {"HIVE", "VIMA"} => (rob'[t].stage = "COMMIT" <=> mob'[Nth(t, 0)'].processed)
    BY DEF DoneInv
  <2>1. IsMemory(t) /\ t # h /\ rob'[t] = rob[t] /\ Kind(t)' = Kind(t) /\ Nth(t, 0)' = Nth(t, 0)
    BY <1>7
  <2>2. /\ Kind(t) \in {"LOAD", "STORE"} => (rob[t].stage = "COMMIT" <=> rob[t].waiting_mem_request = 0)
        /\ Kind(t) = "LOAD" => rob[t].waiting_mem_request = Cardinality(Open(t))
        /\ Kind(t) \in {"HIVE", "VIMA"} => (rob[t].stage = "COMMIT" <=> mob[Nth(t, 0)].processed)
    BY <2>1 DEF DoneInv
  <2>3. Open(t)' = Open(t)
    <3>1. \A x \in Place : x \in Open(t)' <=> x \in Open(t)
      <4> TAKE x \in Place
      <4>1. CASE Used(x) /\ Owner(x) = h
        BY <1>4, <2>1, <4>1 DEF Open
      <4>2. CASE ~(Used(x) /\ Owner(x) = h)
        BY <1>5, <4>2 DEF Open
      <4> QED BY <4>1, <4>2
    <3>2. Open(t) \subseteq Place /\ Open(t)' \subseteq Place
      BY DEF Open
    <3> QED BY <3>1, <3>2
  <2>4. Kind(t) \in {"HIVE", "VIMA"} => mob'[Nth(t, 0)] = mob[Nth(t, 0)]
    <3> HAVE Kind(t) \in {"HIVE", "VIMA"}
    <3>1. Count(t) \in Nat \ {0} /\ Kept(t) = Count(t)
      BY <2>1, MemoryUop DEF Kept
    <3>2. 0 \in 0 .. Count(t) - 1 /\ Count(t) - Kept(t) <= 0
      BY <3>1
    <3>3. Nth(t, 0) \in Place /\ Owner(Nth(t, 0)) = t
      BY <2>1, <3>2, KeptPlace
    <3> QED BY <1>5, <2>1, <3>3
  <2> QED BY <2>1, <2>2, <2>3, <2>4
<1>14. CountInv'
  <2>1. \A o \in Memory : ExecutedOf(o)' = ExecutedOf(o)
    <3> TAKE o \in Memory
    <3>1. \A x \in Place : x \in ExecutedOf(o)' <=> x \in ExecutedOf(o)
      <4> TAKE x \in Place
      <4>1. CASE Used(x) /\ Owner(x) = h
        BY <1>2, <1>4, <4>1 DEF ExecutedOf
      <4>2. CASE ~(Used(x) /\ Owner(x) = h)
        BY <1>5, <4>2 DEF ExecutedOf
      <4> QED BY <4>1, <4>2
    <3>2. ExecutedOf(o) \subseteq Place /\ ExecutedOf(o)' \subseteq Place
      BY DEF ExecutedOf
    <3> QED BY <3>1, <3>2
  <2> QED BY <1>1, <2>1 DEF CountInv
<1>15. CandidateInv'
  <2> SUFFICES ASSUME NEW o \in Memory, NEW x, x = oldest_to_send'[o], x # NULL
               PROVE  x[1] = o /\ Used(x)' /\ Sendable(x)' /\ (o = "STORE" => Distance(x)' = 0)
    BY DEF CandidateInv, Used, Sendable, Distance
  <2>1. x = oldest_to_send[o] /\ x \in Place
    BY <1>1 DEF StageShape
  <2>2. x[1] = o /\ Used(x) /\ Sendable(x) /\ (o = "STORE" => Distance(x) = 0)
    BY <2>1 DEF CandidateInv
  <2>3. ~(Used(x) /\ Owner(x) = h)
    BY <1>2, <2>1, <2>2 DEF Sendable
  <2>4. mob'[x] = mob[x] /\ Used(x)' = Used(x)
    BY <1>5, <2>1, <2>3
  <2>5. o = "STORE" => mob_start'[o] = mob_start[o]
    BY <1>1, <1>2
  <2> QED BY <2>2, <2>4, <2>5 DEF Sendable, Distance
<1>16. PlaceWaitInv'
  <2>1. ASSUME NEW x \in Place
        PROVE  /\ mob'[x].wait_mem_deps_number = mob[x].wait_mem_deps_number
               /\ mob'[x].mem_deps_ptr_array = mob[x].mem_deps_ptr_array
               /\ mob[x].mem_deps_ptr_array # <<>> => Used(x)' = Used(x) /\ mob'[x].processed = mob[x].processed
    <3>1. CASE Used(x) /\ Owner(x) = h
      BY <1>2, <1>4, <3>1
    <3>2. CASE ~(Used(x) /\ Owner(x) = h)
      BY <1>5, <3>2
    <3> QED BY <3>1, <3>2
  <2> QED BY <2>1, PlacesIdle
<1>17. TableInv'
  <2> DEFINE gone == {x \in Place : Used(x) /\ Owner(x) = h}
  <2>1. \A x \in Place \ gone : /\ Used(x)' = Used(x) /\ mob'[x].processed = mob[x].processed
                                /\ mob'[x].access = mob[x].access
    BY <1>5
  <2>2. /\ \A b \in 0 .. LOAD_HASH_SIZE - 1 : load_hash'[b] # NULL => load_hash'[b] = load_hash[b] /\ load_hash[b] \notin gone
        /\ \A b \in 0 .. STORE_HASH_SIZE - 1 : store_hash'[b] # NULL => store_hash'[b] = store_hash[b] /\ store_hash[b] \notin gone
    BY <1>1, <1>2 DEF TableInv
  <2> HIDE DEF gone
  <2> QED BY <2>1, <2>2, TablesKept
<1> QED BY <1>3, <1>6, <1>9, <1>10, <1>11, <1>12, <1>13, <1>14, <1>15, <1>16, <1>17

-----------------------------------------------------------------------------
(* Rename: the registers.                                                  *)

\* a[n] holds the lines after n registers.
IsLinesChain(a, lines, s, registers, width) ==
  a = [n \in 0 .. width |-> IF n = 0 THEN lines ELSE ReadRegister(a[n - 1], s, registers[n])]

\* The chain of lines is defined for every width.
LEMMA LinesChainExists ==
  ASSUME NEW lines, NEW s, NEW registers, NEW width \in Nat
  PROVE  \E a : IsLinesChain(a, lines, s, registers, width)
<1> DEFINE Missing == {n \in Nat : ~ \E a : IsLinesChain(a, lines, s, registers, n)}
<1>1. SUFFICES ASSUME Missing # {} PROVE FALSE
  BY <1>1
<1>2. PICK m \in Missing : \A k \in Missing : m <= k
  BY <1>1, LeastNumber
<1>3. CASE m = 0
  <2> DEFINE b == [n \in 0 .. 0 |-> lines]
  <2>1. b = [n \in 0 .. 0 |-> IF n = 0 THEN lines ELSE ReadRegister(b[n - 1], s, registers[n])]
    OBVIOUS
  <2>2. IsLinesChain(b, lines, s, registers, 0)
    BY <2>1 DEF IsLinesChain
  <2> QED BY <1>3, <2>2
<1>4. CASE m # 0
  <2>1. m - 1 \in Nat /\ m - 1 \notin Missing
    BY <1>2, <1>4
  <2>2. PICK a : IsLinesChain(a, lines, s, registers, m - 1)
    BY <2>1
  <2> DEFINE b == [n \in 0 .. m |-> IF n = m THEN ReadRegister(a[m - 1], s, registers[m]) ELSE a[n]]
  <2>3. \A n \in 0 .. m - 1 : a[n] = IF n = 0 THEN lines ELSE ReadRegister(a[n - 1], s, registers[n])
    BY <2>2 DEF IsLinesChain
  <2>4. \A n \in 0 .. m : b[n] = IF n = 0 THEN lines ELSE ReadRegister(b[n - 1], s, registers[n])
    <3> TAKE n \in 0 .. m
    <3>1. CASE n = m
      <4>1. m - 1 \in 0 .. m /\ m - 1 # m
        BY <2>1
      <4>2. b[m - 1] = a[m - 1] /\ b[m] = ReadRegister(a[m - 1], s, registers[m])
        BY <4>1
      <4> HIDE DEF b
      <4> QED BY <1>4, <3>1, <4>2
    <3>2. CASE n # m
      <4>1. n \in 0 .. m - 1 /\ (n # 0 => n - 1 \in 0 .. m /\ n - 1 # m)
        BY <2>1, <3>2
      <4>2. b[n] = a[n] /\ (n # 0 => b[n - 1] = a[n - 1])
        BY <4>1, <3>2
      <4> HIDE DEF b
      <4> QED BY <2>3, <4>1, <4>2
    <3> QED BY <3>1, <3>2
  <2>5. b = [n \in 0 .. m |-> b[n]]
    OBVIOUS
  <2> HIDE DEF b
  <2>6. IsLinesChain(b, lines, s, registers, m)
    BY <2>4, <2>5 DEF IsLinesChain
  <2> QED BY <2>6
<1> QED BY <1>3, <1>4

\* The lines once the registers are read are the last ones of a chain.
LEMMA ReadRegistersChain ==
  ASSUME NEW lines, NEW s, NEW registers, Len(registers) \in Nat
  PROVE  \E a : /\ IsLinesChain(a, lines, s, registers, Len(registers))
                /\ ReadRegisters(lines, s, registers) = a[Len(registers)]
<1> DEFINE after == CHOOSE a : IsLinesChain(a, lines, s, registers, Len(registers))
<1>1. IsLinesChain(after, lines, s, registers, Len(registers))
  <2>1. \E a : IsLinesChain(a, lines, s, registers, Len(registers))
    BY LinesChainExists
  <2> QED BY <2>1, Zenon
<1>2. ReadRegisters(lines, s, registers) = after[Len(registers)]
  BY DEF ReadRegisters, IsLinesChain
<1> QED BY <1>1, <1>2

\* Line s is new, and it is all that differs from the reorder buffer but for
\* the producers that remember it.
Renaming(lines, line, s) ==
  /\ lines \in [Slot -> LineShape]
  /\ lines[s].uop = line.uop /\ lines[s].uop_number = line.uop_number /\ lines[s].stage = line.stage
  /\ lines[s].pos_mob = line.pos_mob /\ lines[s].waiting_mem_request = line.waiting_mem_request
  /\ lines[s].sent = line.sent
  /\ lines[s].reg_deps_ptr_array = <<>>
  /\ \A x \in Slot : x # s =>
       /\ lines[x].uop = rob[x].uop /\ lines[x].uop_number = rob[x].uop_number /\ lines[x].stage = rob[x].stage
       /\ lines[x].pos_mob = rob[x].pos_mob /\ lines[x].waiting_mem_request = rob[x].waiting_mem_request
       /\ lines[x].sent = rob[x].sent
       /\ lines[x].wait_reg_deps_number = rob[x].wait_reg_deps_number
       /\ lines[x].reg_deps_ptr_array # <<>> => Busy(x) /\ Pending(x)
  /\ Agree(Slot, RegDeps(lines), RegWaits(lines))

LEMMA ReadRegisterKeeps ==
  ASSUME StageShape, AliasInv, NEW s \in Slot, ~Busy(s), NEW line,
         NEW lines, Renaming(lines, line, s), NEW r \in Register
  PROVE  Renaming(ReadRegister(lines, s, r), line, s)
<1> DEFINE g == ReadRegister(lines, s, r)
           a == register_alias_table[r]
<1>1. CASE a = NULL \/ Len(lines[a].reg_deps_ptr_array) = ROB_SIZE
  <2>1. g = lines
    BY <1>1 DEF ReadRegister
  <2> QED BY <2>1
<1>2. CASE ~(a = NULL \/ Len(lines[a].reg_deps_ptr_array) = ROB_SIZE)
  <2>1. a \in Slot /\ Busy(a) /\ Pending(a) /\ Len(lines[a].reg_deps_ptr_array) # ROB_SIZE
    BY <1>2 DEF StageShape, AliasInv, Named
  <2>2. a # s
    BY <2>1
  <2>3. g = [lines EXCEPT ![a].reg_deps_ptr_array = Append(@, s), ![s].wait_reg_deps_number = @ + 1]
    BY <1>2 DEF ReadRegister
  <2> HIDE DEF g, a
  <2>4. lines \in [Slot -> LineShape]
    BY DEF Renaming
  <2>5. PICK b : b = Append(lines[a].reg_deps_ptr_array, s)
    OBVIOUS
  <2>6. PICK w : w = lines[s].wait_reg_deps_number + 1
    OBVIOUS
  <2>7. b \in Seq(Slot) /\ w \in Int /\ b # <<>>
    <3>1. lines[a].reg_deps_ptr_array \in Seq(Slot) /\ lines[s].wait_reg_deps_number \in Int
      <4>1. lines[a] \in LineShape /\ lines[s] \in LineShape
        BY <2>1, <2>4
      <4> QED BY <4>1 DEF LineShape
    <3>2. b \in Seq(Slot) /\ Len(b) = Len(lines[a].reg_deps_ptr_array) + 1 /\ Len(lines[a].reg_deps_ptr_array) \in Nat
      BY <2>5, <3>1
    <3>3. Len(b) # 0
      BY <3>2
    <3>4. b # <<>>
      BY <3>3
    <3> QED BY <2>6, <3>1, <3>2, <3>4
  <2>8. g = [[lines EXCEPT ![a] = [lines[a] EXCEPT !.reg_deps_ptr_array = b]]
               EXCEPT ![s] = [lines[s] EXCEPT !.wait_reg_deps_number = w]]
    <3>1. [lines EXCEPT ![a].reg_deps_ptr_array = Append(@, s)] = [lines EXCEPT ![a] = [lines[a] EXCEPT !.reg_deps_ptr_array = b]]
      BY <2>5, Zenon
    <3>2. PICK f : f = [lines EXCEPT ![a] = [lines[a] EXCEPT !.reg_deps_ptr_array = b]]
      OBVIOUS
    <3>3. f[s] = lines[s]
      BY <2>1, <2>2, <2>4, <3>2
    <3>4. g = [f EXCEPT ![s].wait_reg_deps_number = @ + 1]
      BY <2>3, <3>1, <3>2, Zenon
    <3>5. g = [f EXCEPT ![s] = [f[s] EXCEPT !.wait_reg_deps_number = f[s].wait_reg_deps_number + 1]]
      BY <3>4, Zenon
    <3> QED BY <2>6, <3>2, <3>3, <3>5
  <2>9. /\ g \in [Slot -> LineShape]
        /\ g[a] = [lines[a] EXCEPT !.reg_deps_ptr_array = b]
        /\ g[s] = [lines[s] EXCEPT !.wait_reg_deps_number = w]
        /\ \A x \in Slot : x # a /\ x # s => g[x] = lines[x]
    <3>1. lines[a] \in LineShape /\ lines[s] \in LineShape
      BY <2>1, <2>4
    <3>2. [lines[a] EXCEPT !.reg_deps_ptr_array = b] \in LineShape /\ [lines[s] EXCEPT !.wait_reg_deps_number = w] \in LineShape
      BY <2>7, <3>1 DEF LineShape
    <3> QED BY <2>1, <2>2, <2>4, <2>8, <3>2
  <2>10. \A x \in Slot :
           /\ g[x].uop = lines[x].uop /\ g[x].uop_number = lines[x].uop_number /\ g[x].stage = lines[x].stage
           /\ g[x].pos_mob = lines[x].pos_mob /\ g[x].waiting_mem_request = lines[x].waiting_mem_request
           /\ g[x].sent = lines[x].sent
           /\ g[x].wait_reg_deps_number = IF x = s THEN w ELSE lines[x].wait_reg_deps_number
           /\ g[x].reg_deps_ptr_array = IF x = a THEN b ELSE lines[x].reg_deps_ptr_array
    <3> TAKE x \in Slot
    <3>1. lines[x] \in LineShape
      BY <2>4
    <3>2. CASE x = a
      BY <2>2, <2>9, <3>1, <3>2 DEF LineShape
    <3>3. CASE x = s
      BY <2>2, <2>9, <3>1, <3>3 DEF LineShape
    <3>4. CASE x # a /\ x # s
      BY <2>9, <3>4
    <3> QED BY <3>2, <3>3, <3>4
  <2>11. Agree(Slot, RegDeps(g), RegWaits(g))
    <3>1. RegDeps(lines) \in [Slot -> Seq(Slot)] /\ Agree(Slot, RegDeps(lines), RegWaits(lines))
      <4>1. \A x \in Slot : lines[x].reg_deps_ptr_array \in Seq(Slot)
        BY <2>4 DEF LineShape
      <4> QED BY <4>1 DEF RegDeps, Renaming
    <3>2. Len(RegDeps(lines)[a]) # ROB_SIZE
      BY <2>1 DEF RegDeps
    <3>3. \A x \in Slot : RegDeps(g)[x] = IF x = a THEN Append(RegDeps(lines)[a], s) ELSE RegDeps(lines)[x]
      BY <2>1, <2>5, <2>10 DEF RegDeps
    <3>4. \A x \in Slot : RegWaits(g)[x] = IF x = s THEN RegWaits(lines)[x] + 1 ELSE RegWaits(lines)[x]
      BY <2>6, <2>10 DEF RegWaits
    <3>5. Appended(Slot, RegDeps(lines), RegWaits(lines), RegDeps(g), RegWaits(g), a, s)
      BY <3>1, <3>2, <3>3, <3>4 DEF Appended
    <3> QED BY <2>1, <3>5, SlotFinite, AppendAgrees, Zenon
  <2>12. \A x \in Slot : x # s /\ g[x].reg_deps_ptr_array # <<>> => Busy(x) /\ Pending(x)
    BY <2>1, <2>10 DEF Renaming
  <2>13. g[s].reg_deps_ptr_array = <<>>
    BY <2>2, <2>10 DEF Renaming
  <2>14. Renaming(g, line, s)
    BY <2>9, <2>10, <2>11, <2>12, <2>13 DEF Renaming
  <2> QED BY <2>14 DEF g
<1> QED BY <1>1, <1>2

\* The line of a uop that is renamed, before its registers are read.
NewLine(u) ==
  [uop |-> u, uop_number |-> renameCounter, stage |-> "RENAME", wait_reg_deps_number |-> 0,
   reg_deps_ptr_array |-> <<>>,
   pos_mob |-> IF u.op \in Memory THEN mobEnd(u.op) ELSE NULL,
   waiting_mem_request |-> IF u.op \in {"LOAD", "STORE"} THEN Len(u.accesses) ELSE 0,
   sent |-> FALSE]

LEMMA NewLineType ==
  ASSUME RobShape, MobShape, NEW u \in Uop
  PROVE  NewLine(u) \in LineShape
<1>1. u.op \in Memory => /\ mobEnd(u.op) \in Nat /\ Len(u.accesses) \in Nat
  <2> HAVE u.op \in Memory
  <2>1. Len(u.accesses) \in 1 .. MOB[u.op] /\ MOB[u.op] \in Nat
    BY UopAssumption, MobSize
  <2>2. MOB[u.op] # 0
    BY <2>1
  <2> QED BY <2>1, <2>2, StartType
<1>2. <<>> \in Seq(Slot) /\ renameCounter \in Nat
  BY SizesAssumption DEF RobShape
<1> DEFINE pos == IF u.op \in Memory THEN mobEnd(u.op) ELSE NULL
           waiting == IF u.op \in {"LOAD", "STORE"} THEN Len(u.accesses) ELSE 0
<1>3. pos \in Nat \cup {NULL} /\ waiting \in Int
  BY <1>1 DEF Memory
<1>4. NewLine(u) = [uop |-> u, uop_number |-> renameCounter, stage |-> "RENAME", wait_reg_deps_number |-> 0,
                    reg_deps_ptr_array |-> <<>>, pos_mob |-> pos, waiting_mem_request |-> waiting, sent |-> FALSE]
  BY DEF NewLine
<1> HIDE DEF pos, waiting
<1> QED BY <1>2, <1>3, <1>4 DEF LineShape

\* a[n] holds the lines of the reorder buffer when rename has read n of the
\* registers of the new uop.
RenameChain(a, u, s) ==
  /\ rob' = a[Len(u.read_regs)] /\ RegDeps(a[0]) = RegDeps(rob)
  /\ \A k \in 0 .. Len(u.read_regs) : Renaming(a[k], NewLine(u), s)
  /\ \A k \in 1 .. Len(u.read_regs) : a[k] = ReadRegister(a[k - 1], s, u.read_regs[k])

LEMMA RenameChainExists ==
  ASSUME IInv, NEW u \in Uop, rename(u), NEW s, s = robEnd
  PROVE  /\ s \in Slot /\ ~Busy(s) /\ Age(s) = robUsed /\ robUsed < ROB_SIZE
         /\ \E a : RenameChain(a, u, s)
<1> USE DEF IInv
<1>1. robUsed < ROB_SIZE
  BY DEF rename
<1>2. s \in Slot /\ ~Busy(s) /\ Age(s) = robUsed
  BY <1>1, EndIsFree
<1>3. rob[s].reg_deps_ptr_array = <<>> /\ rob[s].stage = "DECODE"
  BY <1>2 DEF LineWaitInv, RobInv
<1>4. rob[s].wait_reg_deps_number = 0
  BY <1>2, <1>3 DEF LineWaitInv
<1> DEFINE N1 == NewLine(u)
<1>c. PICK clean : clean = CleanLine(<<>>)
  OBVIOUS
<1>n. PICK line : line = [clean EXCEPT
                 !.uop = u, !.uop_number = renameCounter, !.stage = "RENAME",
                 !.pos_mob = IF u.op \in Memory THEN mobEnd(u.op) ELSE NULL,
                 !.waiting_mem_request = IF u.op \in {"LOAD", "STORE"} THEN Len(u.accesses) ELSE 0]
  OBVIOUS
<1> DEFINE lines == [rob EXCEPT ![s] = line]
<1>5. rob' = ReadRegisters(lines, s, u.read_regs)
  <2>1. rob' = ReadRegisters([rob EXCEPT ![s] = [CleanLine(rob[s].reg_deps_ptr_array) EXCEPT
                 !.uop = u, !.uop_number = renameCounter, !.stage = "RENAME",
                 !.pos_mob = IF u.op \in Memory THEN mobEnd(u.op) ELSE NULL,
                 !.waiting_mem_request =
                    IF u.op \in {"LOAD", "STORE"} THEN Len(u.accesses) ELSE 0]], s, u.read_regs)
    BY DEF rename, update_registers
  <2> QED BY <1>3, <1>c, <1>n, <2>1, Zenon
<1>6. /\ line \in LineShape
      /\ line.uop = N1.uop /\ line.uop_number = N1.uop_number /\ line.stage = N1.stage
      /\ line.pos_mob = N1.pos_mob /\ line.waiting_mem_request = N1.waiting_mem_request
      /\ line.sent = N1.sent /\ line.wait_reg_deps_number = 0 /\ line.reg_deps_ptr_array = <<>>
  <2>1. /\ clean \in LineShape /\ clean.wait_reg_deps_number = 0 /\ clean.reg_deps_ptr_array = <<>> /\ clean.sent = FALSE
    <3>1. <<>> \in Seq(Slot)
      OBVIOUS
    <3> QED BY <1>c, <3>1 DEF CleanLine, LineShape
  <2>2. PICK pos : pos = IF u.op \in Memory THEN mobEnd(u.op) ELSE NULL
    OBVIOUS
  <2>3. PICK waiting : waiting = IF u.op \in {"LOAD", "STORE"} THEN Len(u.accesses) ELSE 0
    OBVIOUS
  <2>4. line = [clean EXCEPT !.uop = u, !.uop_number = renameCounter, !.stage = "RENAME",
                         !.pos_mob = pos, !.waiting_mem_request = waiting]
    BY <1>n, <2>2, <2>3, Zenon
  <2>5. /\ N1.uop = u /\ N1.uop_number = renameCounter /\ N1.stage = "RENAME" /\ N1.sent = FALSE
        /\ N1.pos_mob = pos /\ N1.waiting_mem_request = waiting
    BY <2>2, <2>3 DEF NewLine
  <2>6. pos \in Nat \cup {NULL} /\ waiting \in Int /\ renameCounter \in Nat
    <3>1. N1 \in LineShape
      BY NewLineType
    <3>2. N1.pos_mob \in Nat \cup {NULL} /\ N1.waiting_mem_request \in Int
      BY <3>1 DEF LineShape
    <3> QED BY <2>5, <3>2, SizesAssumption DEF RobShape
  <2>7. line \in LineShape
    BY <2>1, <2>4, <2>6 DEF LineShape
  <2>8. /\ line.uop = u /\ line.uop_number = renameCounter /\ line.stage = "RENAME"
        /\ line.pos_mob = pos /\ line.waiting_mem_request = waiting
        /\ line.sent = FALSE /\ line.wait_reg_deps_number = 0 /\ line.reg_deps_ptr_array = <<>>
    BY <2>1, <2>4 DEF LineShape
  <2> QED BY <2>5, <2>7, <2>8
<1> HIDE DEF N1
<1>7. Renaming(lines, NewLine(u), s) /\ RegDeps(lines) = RegDeps(rob)
  <2>1. /\ lines \in [Slot -> LineShape] /\ lines[s] = line
        /\ \A x \in Slot : x # s => lines[x] = rob[x]
    BY <1>2, <1>6 DEF RobShape
  <2> HIDE DEF lines
  <2>3. \A x \in Slot : x # s /\ lines[x].reg_deps_ptr_array # <<>> => Busy(x) /\ Pending(x)
    BY <2>1 DEF LineWaitInv
  <2>4. \A x \in Slot : /\ lines[x].wait_reg_deps_number = rob[x].wait_reg_deps_number
                        /\ lines[x].reg_deps_ptr_array = rob[x].reg_deps_ptr_array
    BY <1>3, <1>4, <1>6, <2>1
  <2>5. RegDeps(lines) = RegDeps(rob) /\ RegWaits(lines) = RegWaits(rob)
    BY <2>4 DEF RegDeps, RegWaits
  <2>6. Agree(Slot, RegDeps(lines), RegWaits(lines))
    BY <2>5 DEF LineWaitInv
  <2>7. Renaming(lines, NewLine(u), s)
    BY <1>6, <2>1, <2>3, <2>6 DEF Renaming, N1
  <2> QED BY <2>5, <2>7
<1> HIDE DEF lines
<1> DEFINE registers == u.read_regs
           N == Len(registers)
<1>8. registers \in Seq(Register) /\ N \in Nat
  <2>1. u.read_regs \in Seq(Register)
    BY UopAssumption
  <2> QED BY <2>1
<1>9. PICK a : IsLinesChain(a, lines, s, registers, N) /\ ReadRegisters(lines, s, registers) = a[N]
  BY <1>8, ReadRegistersChain
<1>10. rob' = a[N]
  BY <1>5, <1>9
<1>11. \A k \in 1 .. N : registers[k] \in Register
  BY <1>8
<1>h. registers = u.read_regs /\ N = Len(u.read_regs)
  OBVIOUS
<1> HIDE DEF registers, N
<1>12. \A k \in 0 .. N : a[k] = IF k = 0 THEN lines ELSE ReadRegister(a[k - 1], s, registers[k])
  BY <1>9 DEF IsLinesChain
<1> DEFINE Wrong == {k \in 0 .. N : ~Renaming(a[k], NewLine(u), s)}
<1>13. Wrong = {}
  <2> SUFFICES ASSUME Wrong # {} PROVE FALSE
    OBVIOUS
  <2>1. Wrong \in SUBSET Nat
    BY <1>8
  <2>2. PICK m \in Wrong : \A k \in Wrong : m <= k
    BY <2>1, LeastNumber
  <2>3. m # 0
    <3>1. 0 \in 0 .. N
      BY <1>8
    <3>2. a[0] = lines
      BY <1>12, <3>1
    <3> QED BY <1>7, <3>2
  <2>4. m \in 1 .. N /\ m - 1 \in 0 .. N /\ m - 1 \notin Wrong
    BY <1>8, <2>2, <2>3
  <2>5. PICK c : c = a[m - 1] /\ Renaming(c, NewLine(u), s)
    BY <2>4
  <2>6. a[m] = ReadRegister(c, s, registers[m])
    BY <1>12, <2>3, <2>4, <2>5
  <2>7. PICK r \in Register : r = registers[m]
    BY <1>11, <2>4
  <2>8. Renaming(ReadRegister(c, s, r), NewLine(u), s)
    BY <1>2, <2>5, ReadRegisterKeeps
  <2> QED BY <2>6, <2>7, <2>8
<1>14. 0 \in 0 .. N /\ \A k \in 1 .. N : k \in 0 .. N /\ k # 0
  BY <1>8
<1>15. a[0] = lines
  BY <1>12, <1>14
<1>16. \A k \in 1 .. N : a[k] = ReadRegister(a[k - 1], s, registers[k])
  BY <1>12, <1>14
<1>17. RenameChain(a, u, s)
  BY <1>h, <1>7, <1>10, <1>13, <1>15, <1>16 DEF RenameChain
<1> QED BY <1>1, <1>2, <1>17

\* The lines that rename leaves.
LEMMA RenameLines ==
  ASSUME IInv, NEW u \in Uop, rename(u), NEW s, s = robEnd
  PROVE  s \in Slot /\ ~Busy(s) /\ Age(s) = robUsed /\ robUsed < ROB_SIZE /\ Renaming(rob', NewLine(u), s)
<1>1. s \in Slot /\ ~Busy(s) /\ Age(s) = robUsed /\ robUsed < ROB_SIZE
  BY RenameChainExists
<1>2. PICK a : RenameChain(a, u, s)
  BY RenameChainExists
<1>3. Len(u.read_regs) \in 0 .. Len(u.read_regs)
  <2>1. u.read_regs \in Seq(Register)
    BY UopAssumption
  <2> QED BY <2>1
<1> QED BY <1>1, <1>2, <1>3 DEF RenameChain

\* What rename does to the reorder buffer.
LEMMA RenameRob ==
  ASSUME IInv, NEW u \in Uop, rename(u), NEW s, s = robEnd
  PROVE  /\ RobShape' /\ RobInv' /\ LineWaitInv' /\ AliasInv'
         /\ register_alias_table' \in [Register -> Slot \cup {NULL}]
         /\ \A x \in Slot : Busy(x)' <=> Busy(x) \/ x = s
         /\ \A x \in Slot : Busy(x) => Before(x, s)'
<1> USE DEF IInv
<1>1. /\ s \in Slot /\ ~Busy(s) /\ Age(s) = robUsed /\ robUsed < ROB_SIZE /\ Renaming(rob', NewLine(u), s)
  BY RenameLines
<1>2. /\ robStart' = robStart /\ robUsed' = robUsed + 1 /\ renameCounter' = renameCounter + 1
      /\ renameCounter < MAX_UOPS
      /\ register_alias_table' = [r \in Register |-> IF r \in ToSet(u.write_regs) THEN s ELSE register_alias_table[r]]
  BY DEF rename, update_registers
<1>3. /\ rob' \in [Slot -> LineShape]
      /\ rob'[s].uop = u /\ rob'[s].uop_number = renameCounter /\ rob'[s].stage = "RENAME"
      /\ rob'[s].reg_deps_ptr_array = <<>>
      /\ \A x \in Slot : x # s =>
           /\ rob'[x].uop = rob[x].uop /\ rob'[x].uop_number = rob[x].uop_number /\ rob'[x].stage = rob[x].stage
           /\ rob'[x].sent = rob[x].sent
           /\ rob'[x].wait_reg_deps_number = rob[x].wait_reg_deps_number
           /\ rob'[x].reg_deps_ptr_array # <<>> => Busy(x) /\ Pending(x)
      /\ Agree(Slot, RegDeps(rob'), RegWaits(rob'))
  BY <1>1 DEF Renaming, NewLine
<1>4. ROB_SIZE \in Nat \ {0} /\ robUsed \in Nat /\ renameCounter \in Nat /\ MAX_UOPS \in Nat /\ robUsed <= renameCounter
  BY RobSize, SizesAssumption DEF RobShape, RobInv
<1>5. \A x \in Slot : Busy(x)' <=> Busy(x) \/ x = s
  <2>1. u # NULL
    BY NullAssumption
  <2> QED BY <1>3, <2>1 DEF Busy
<1>6. RobShape'
  <2>1. robUsed' \in 0 .. ROB_SIZE /\ renameCounter' \in 0 .. MAX_UOPS
    BY <1>1, <1>2, <1>4
  <2> QED BY <1>2, <1>3, <2>1 DEF RobShape
<1>7. \A x \in Slot : Age(x)' = Age(x) /\ Age(x) \in Nat
  BY <1>2, AgeIs, RobSize DEF Age
<1>8. RobInv'
  <2>1. robUsed' <= renameCounter'
    BY <1>2, <1>4
  <2>2. ASSUME NEW x \in Slot
        PROVE  /\ Busy(x)' <=> Age(x)' < robUsed'
               /\ Busy(x)' => /\ rob'[x].uop_number = renameCounter' - robUsed' + Age(x)'
                              /\ rob'[x].stage # "DECODE"
               /\ ~Busy(x)' => rob'[x].stage = "DECODE" /\ ~rob'[x].sent
    <3>1. /\ Busy(x) <=> Age(x) < robUsed
          /\ Busy(x) => rob[x].uop_number = renameCounter - robUsed + Age(x) /\ rob[x].stage # "DECODE"
          /\ ~Busy(x) => rob[x].stage = "DECODE" /\ ~rob[x].sent
      BY DEF RobInv
    <3>2. CASE x = s
      BY <1>1, <1>2, <1>3, <1>4, <1>5, <1>7, <3>2
    <3>3. CASE x # s
      <4>1. Age(x) # robUsed
        BY <1>1, <3>3, AgeInjective
      <4>2. Busy(x)' = Busy(x) /\ rob'[x].uop_number = rob[x].uop_number /\ rob'[x].stage = rob[x].stage
            /\ rob'[x].sent = rob[x].sent
        BY <1>3, <1>5, <3>3 DEF Busy
      <4>3. Busy(x)' <=> Age(x)' < robUsed'
        BY <1>2, <1>4, <1>7, <3>1, <4>1, <4>2
      <4> QED BY <1>2, <1>4, <1>7, <3>1, <4>2, <4>3
    <3> QED BY <3>2, <3>3
  <2> QED BY <2>1, <2>2 DEF RobInv
<1>9. LineWaitInv'
  <2>1. ASSUME NEW x \in Slot
        PROVE  /\ rob'[x].reg_deps_ptr_array # <<>> => Busy(x)' /\ Pending(x)'
               /\ rob'[x].stage # "RENAME" => rob'[x].wait_reg_deps_number = 0
    <3>1. CASE x = s
      BY <1>3, <3>1
    <3>2. CASE x # s
      BY <1>3, <1>5, <3>2 DEF LineWaitInv, Pending
    <3> QED BY <3>1, <3>2
  <2> QED BY <1>3, <2>1 DEF LineWaitInv
<1>10. \A x \in Slot : Busy(x) => Before(x, s)'
  <2> SUFFICES ASSUME NEW x \in Slot, Busy(x) PROVE rob'[x].uop_number < rob'[s].uop_number
    BY DEF Before
  <2>1. x # s
    BY <1>1
  <2> QED BY <1>3, <2>1, Numbers
<1>11. register_alias_table' \in [Register -> Slot \cup {NULL}]
  BY <1>1, <1>2 DEF StageShape
<1>12. \A x, y \in Slot : Busy(x) /\ Busy(y) =>
         /\ x # s /\ y # s
         /\ Before(x, y)' = Before(x, y) /\ Pending(x)' = Pending(x) /\ \A r : Writes(x, r)' = Writes(x, r)
  BY <1>1, <1>3 DEF Before, Pending, Writes
<1>13. AliasInv'
  <2>1. ASSUME NEW r \in Register, r \in ToSet(u.write_regs) PROVE Named(s, r)'
    <3>1. Busy(s)' /\ Writes(s, r)' /\ Pending(s)'
      BY <1>1, <1>3, <1>5, <2>1 DEF Writes, Pending
    <3>2. ASSUME NEW x \in Slot, Busy(x)' PROVE ~Before(s, x)'
      <4>1. x = s \/ Before(x, s)'
        BY <1>5, <1>10, <3>2
      <4>2. rob'[x].uop_number \in Nat /\ rob'[s].uop_number \in Nat
        BY <1>1, <1>3 DEF LineShape
      <4> QED BY <4>1, <4>2 DEF Before
    <3> QED BY <3>1, <3>2 DEF Named
  <2>2. ASSUME NEW r \in Register, r \notin ToSet(u.write_regs), NEW a \in Slot, Named(a, r) PROVE Named(a, r)'
    <3>1. Busy(a) /\ Writes(a, r) /\ Pending(a) /\ \A x \in Slot : Busy(x) /\ Writes(x, r) => ~Before(a, x)
      BY <2>2 DEF Named
    <3>2. Busy(a)' /\ Writes(a, r)' /\ Pending(a)'
      BY <1>5, <1>12, <3>1
    <3>3. ASSUME NEW x \in Slot, Busy(x)', Writes(x, r)' PROVE ~Before(a, x)'
      <4>1. x # s
        BY <1>3, <2>2, <3>3 DEF Writes
      <4>2. Busy(x)
        BY <1>5, <3>3, <4>1
      <4> QED BY <1>12, <3>1, <3>3, <4>2
    <3> QED BY <3>2, <3>3 DEF Named
  <2>3. ASSUME NEW r \in Register, r \notin ToSet(u.write_regs), Unnamed(r) PROVE Unnamed(r)'
    <3> SUFFICES ASSUME NEW x \in Slot, Busy(x)', Writes(x, r)', Pending(x)'
                 PROVE  \E y \in Slot : Busy(y)' /\ Writes(y, r)' /\ Before(x, y)'
      BY DEF Unnamed
    <3>1. x # s
      BY <1>3, <2>3 DEF Writes
    <3>2. Busy(x) /\ Writes(x, r) /\ Pending(x)
      BY <1>5, <1>12, <3>1
    <3>3. PICK y \in Slot : Busy(y) /\ Writes(y, r) /\ Before(x, y)
      BY <2>3, <3>2 DEF Unnamed
    <3> QED BY <1>5, <1>12, <3>2, <3>3
  <2>4. ASSUME NEW r \in Register, NEW b, b = register_alias_table'[r]
        PROVE  (b # NULL => Named(b, r)') /\ (b = NULL => Unnamed(r)')
    <3>1. CASE r \in ToSet(u.write_regs)
      <4>1. b = s /\ s # NULL
        <5>1. s # NULL
          BY <1>1, NullAssumption, RobSize DEF Slot
        <5> QED BY <1>2, <2>4, <3>1, <5>1
      <4> QED BY <2>1, <3>1, <4>1
    <3>2. CASE r \notin ToSet(u.write_regs)
      <4>1. b = register_alias_table[r]
        BY <1>2, <2>4, <3>2
      <4>2. b # NULL => b \in Slot /\ Named(b, r)
        BY <4>1 DEF StageShape, AliasInv
      <4>3. b = NULL => Unnamed(r)
        BY <4>1 DEF AliasInv
      <4> QED BY <2>2, <2>3, <3>2, <4>2, <4>3
    <3> QED BY <3>1, <3>2
  <2> QED BY <2>4 DEF AliasInv, Named, Unnamed, Busy, Writes, Pending, Before
<1> QED BY <1>5, <1>6, <1>8, <1>9, <1>10, <1>11, <1>13

-----------------------------------------------------------------------------
(* Rename: the places.                                                     *)

\* The places after the end of the buffer are free.
LEMMA EndPlace ==
  ASSUME MobShape, NEW op \in Memory, NEW k \in Nat, mob_used[op] + k < MOB[op]
  PROVE  /\ PlaceOf(op, mobEnd(op), k) \in Place /\ PlaceOf(op, mobEnd(op), k)[1] = op
         /\ Distance(PlaceOf(op, mobEnd(op), k)) = mob_used[op] + k
<1> DEFINE p == PlaceOf(op, mobEnd(op), k)
<1>1. MOB[op] \in Nat \ {0} /\ mob_used[op] \in Nat
  BY MobSize DEF MobShape
<1>2. /\ mob_start[op] \in 0 .. MOB[op] - 1
      /\ mobEnd(op) \in 0 .. MOB[op] - 1
      /\ mobEnd(op) = IF mob_start[op] + mob_used[op] < MOB[op] THEN mob_start[op] + mob_used[op]
                      ELSE mob_start[op] + mob_used[op] - MOB[op]
  BY <1>1, StartType
<1>3. k \in 0 .. MOB[op]
  BY <1>1
<1>4. /\ p = <<op, IF mobEnd(op) + k < MOB[op] THEN mobEnd(op) + k ELSE mobEnd(op) + k - MOB[op]>>
      /\ p \in Place
  BY <1>2, <1>3, PlaceOfIs
<1>5. p[1] = op /\ p[2] = IF mobEnd(op) + k < MOB[op] THEN mobEnd(op) + k ELSE mobEnd(op) + k - MOB[op]
  BY <1>4
<1> HIDE DEF p
<1>6. Distance(p) = mob_used[op] + k
  <2>1. Distance(p) = IF p[2] >= mob_start[op] THEN p[2] - mob_start[op] ELSE p[2] - mob_start[op] + MOB[op]
    BY <1>4, <1>5, DistanceIs
  <2>2. PICK e \in 0 .. MOB[op] - 1 : e = mobEnd(op)
    BY <1>2
  <2> QED BY <1>1, <1>2, <1>5, <2>1, <2>2
<1> QED BY <1>4, <1>5, <1>6 DEF p

\* The places that rename takes.
LEMMA NewPlacesAre ==
  ASSUME MobShape, NEW u \in Uop, u.op \in Memory, mob_used[u.op] + Len(u.accesses) <= MOB[u.op]
  PROVE  /\ Len(u.accesses) \in Nat \ {0} /\ DOMAIN NewPlaces(u) = 1 .. Len(u.accesses)
         /\ Len(NewPlaces(u)) = Len(u.accesses) /\ mob_used[u.op] \in Nat /\ MOB[u.op] \in Nat \ {0}
         /\ \A k \in 1 .. Len(u.accesses) :
              /\ NewPlaces(u)[k] \in Place /\ NewPlaces(u)[k][1] = u.op
              /\ NewPlaces(u)[k] = PlaceOf(u.op, mobEnd(u.op), k - 1)
              /\ Distance(NewPlaces(u)[k]) = mob_used[u.op] + k - 1
         /\ \A k, l \in 1 .. Len(u.accesses) : NewPlaces(u)[k] = NewPlaces(u)[l] => k = l
         /\ \A p \in Place : p \in ToSet(NewPlaces(u)) <=>
              /\ p[1] = u.op /\ mob_used[u.op] <= Distance(p)
              /\ Distance(p) < mob_used[u.op] + Len(u.accesses)
<1> DEFINE op == u.op
           n == Len(u.accesses)
           q == NewPlaces(u)
<1>1. n \in 1 .. MOB[op] /\ MOB[op] \in Nat /\ mob_used[op] \in Nat /\ op \in Memory /\ mob_used[op] + n <= MOB[op]
  BY UopAssumption, MobSize DEF MobShape
<1>2. q = [k \in 1 .. n |-> PlaceOf(op, mobEnd(op), k - 1)]
  BY DEF NewPlaces
<1>3. DOMAIN q = 1 .. n /\ Len(q) = n
  <2> HIDE DEF q, n
  <2> QED BY <1>1, <1>2
<1>4. \A k \in 1 .. n : q[k] = PlaceOf(op, mobEnd(op), k - 1)
  BY <1>2
<1> HIDE DEF op, n, q
<1>5. ASSUME NEW k \in 1 .. n
      PROVE  q[k] \in Place /\ q[k][1] = op /\ Distance(q[k]) = mob_used[op] + k - 1
  <2>1. k - 1 \in Nat /\ mob_used[op] + (k - 1) < MOB[op]
    BY <1>1
  <2>2. /\ PlaceOf(op, mobEnd(op), k - 1) \in Place /\ PlaceOf(op, mobEnd(op), k - 1)[1] = op
        /\ Distance(PlaceOf(op, mobEnd(op), k - 1)) = mob_used[op] + (k - 1)
    BY <1>1, <2>1, EndPlace
  <2> QED BY <1>1, <1>4, <2>2
<1>6. \A k, l \in 1 .. n : q[k] = q[l] => k = l
  <2> TAKE k, l \in 1 .. n
  <2> HAVE q[k] = q[l]
  <2>1. mob_used[op] + k - 1 = mob_used[op] + l - 1
    BY <1>5
  <2> QED BY <1>1, <2>1
<1>7. ASSUME NEW p \in Place
      PROVE  p \in ToSet(q) <=> p[1] = op /\ mob_used[op] <= Distance(p) /\ Distance(p) < mob_used[op] + n
  <2>1. ASSUME p \in ToSet(q) PROVE p[1] = op /\ mob_used[op] <= Distance(p) /\ Distance(p) < mob_used[op] + n
    <3>1. PICK k \in 1 .. n : p = q[k]
      BY <1>3, <2>1 DEF ToSet
    <3>2. p[1] = op /\ Distance(p) = mob_used[op] + k - 1
      BY <1>5, <3>1
    <3> QED BY <1>1, <3>2
  <2>2. ASSUME p[1] = op, mob_used[op] <= Distance(p), Distance(p) < mob_used[op] + n PROVE p \in ToSet(q)
    <3>1. PICK k \in 1 .. n : k = Distance(p) - mob_used[op] + 1
      <4>1. Distance(p) \in Nat
        BY DistanceIs
      <4> QED BY <1>1, <2>2, <4>1
    <3>2. Distance(q[k]) = Distance(p) /\ q[k] \in Place /\ q[k][1] = op
      <4>1. Distance(p) \in Nat
        BY DistanceIs
      <4>2. Distance(q[k]) = mob_used[op] + k - 1 /\ q[k] \in Place /\ q[k][1] = op
        BY <1>5
      <4> QED BY <1>1, <3>1, <4>1, <4>2
    <3>3. p = q[k]
      BY <2>2, <3>2, DistanceInjective
    <3> QED BY <1>3, <3>3 DEF ToSet
  <2> QED BY <2>1, <2>2
<1>8. n \in Nat \ {0} /\ MOB[op] \in Nat \ {0}
  BY <1>1
<1> QED BY <1>1, <1>3, <1>4, <1>5, <1>6, <1>7, <1>8, Zenon DEF op, n, q

\* Rename fills places that are free.
FilledFacts(filled, s, u) ==
  /\ filled \in [Place -> EntryShape]
  /\ \A x \in Place : x \notin ToSet(NewPlaces(u)) => filled[x] = mob[x]
  /\ \A k \in 1 .. Len(u.accesses) :
       LET e == filled[NewPlaces(u)[k]]
       IN /\ e.status = "WAIT" /\ e.rob_ptr = s /\ e.access = u.accesses[k] /\ e.uop_executed = FALSE
          /\ e.processed = FALSE /\ e.sent = FALSE /\ e.wait_mem_deps_number = 0 /\ e.mem_deps_ptr_array = <<>>

LEMMA FilledIs ==
  ASSUME MobShape, PlaceInv, PlaceWaitInv, NEW s \in Slot, NEW u \in Uop, u.op \in Memory,
         mob_used[u.op] + Len(u.accesses) <= MOB[u.op]
  PROVE  /\ FilledFacts(Filled(s, u, NewPlaces(u)), s, u)
         /\ \A x \in ToSet(NewPlaces(u)) : x \in Place /\ ~Used(x) /\ mob[x].mem_deps_ptr_array = <<>>
<1> DEFINE n == Len(u.accesses)
           q == NewPlaces(u)
           filled == Filled(s, u, q)
<1>1. /\ n \in Nat \ {0} /\ DOMAIN q = 1 .. n /\ mob_used[u.op] \in Nat
      /\ \A k \in 1 .. n : q[k] \in Place /\ q[k][1] = u.op /\ Distance(q[k]) = mob_used[u.op] + k - 1
      /\ \A k, l \in 1 .. n : q[k] = q[l] => k = l
  BY NewPlacesAre
<1>2. \A k \in 1 .. n : u.accesses[k] \in [address : Nat, size : Nat]
  <2>1. u.accesses \in Seq([address : Nat, size : Nat])
    BY UopAssumption
  <2>2. PICK a \in Seq([address : Nat, size : Nat]) : a = u.accesses
    BY <2>1
  <2>3. \A k \in 1 .. Len(a) : a[k] \in [address : Nat, size : Nat]
    BY ElementOfSeq
  <2> QED BY <2>2, <2>3
<1> HIDE DEF q, n
<1>3. \A x \in Place : x \in ToSet(q) <=> \E k \in 1 .. n : x = q[k]
  BY <1>1 DEF ToSet
<1>4. \A k \in 1 .. n : ~Used(q[k]) /\ mob[q[k]].mem_deps_ptr_array = <<>>
  <2> TAKE k \in 1 .. n
  <2>1. ~(Distance(q[k]) < mob_used[u.op])
    BY <1>1
  <2>2. ~Used(q[k])
    BY <1>1, <2>1 DEF PlaceInv
  <2> QED BY <1>1, <2>2 DEF PlaceWaitInv
<1>5. ASSUME NEW k \in 1 .. n
      PROVE  filled[q[k]] = [Entry(s, u.accesses[k]) EXCEPT !.mem_deps_ptr_array = <<>>]
  <2>1. q[k] \in Place /\ q[k] \in ToSet(q)
    BY <1>1, <1>3
  <2>2. (CHOOSE l \in DOMAIN q : q[l] = q[k]) = k
    BY <1>1
  <2>3. filled[q[k]] = [Entry(s, u.accesses[CHOOSE l \in DOMAIN q : q[l] = q[k]])
                          EXCEPT !.mem_deps_ptr_array = mob[q[k]].mem_deps_ptr_array]
    BY <2>1 DEF Filled
  <2> QED BY <1>4, <2>2, <2>3
<1>6. ASSUME NEW k \in 1 .. n, NEW e, e = filled[q[k]]
      PROVE  /\ e \in EntryShape /\ e.status = "WAIT" /\ e.rob_ptr = s /\ e.access = u.accesses[k] /\ e.uop_executed = FALSE
             /\ e.processed = FALSE /\ e.sent = FALSE /\ e.wait_mem_deps_number = 0 /\ e.mem_deps_ptr_array = <<>>
  <2>1. <<>> \in Seq(Place)
    OBVIOUS
  <2>2. PICK c \in EntryShape :
          /\ c = CleanEntry(<<>>) /\ c.uop_executed = FALSE /\ c.processed = FALSE /\ c.sent = FALSE
          /\ c.wait_mem_deps_number = 0 /\ c.mem_deps_ptr_array = <<>>
    BY <2>1, CleanEntryIs
  <2>3. PICK a \in [address : Nat, size : Nat] : a = u.accesses[k]
    BY <1>2
  <2>4. PICK f : f = Entry(s, a)
    OBVIOUS
  <2>5. f = [c EXCEPT !.status = "WAIT", !.rob_ptr = s, !.access = a]
    BY <2>2, <2>4, Zenon DEF Entry
  <2>6. f \in EntryShape
    BY <2>2, <2>5 DEF EntryShape
  <2>7. /\ f.status = "WAIT" /\ f.rob_ptr = s /\ f.access = a /\ f.uop_executed = FALSE
        /\ f.processed = FALSE /\ f.sent = FALSE /\ f.wait_mem_deps_number = 0 /\ f.mem_deps_ptr_array = <<>>
    BY <2>2, <2>5 DEF EntryShape
  <2>8. e = [f EXCEPT !.mem_deps_ptr_array = <<>>]
    BY <1>5, <1>6, <2>3, <2>4
  <2>9. ASSUME NEW g \in EntryShape, NEW h, h = [g EXCEPT !.mem_deps_ptr_array = <<>>]
        PROVE  /\ h \in EntryShape /\ h.status = g.status /\ h.rob_ptr = g.rob_ptr /\ h.access = g.access
               /\ h.uop_executed = g.uop_executed /\ h.processed = g.processed /\ h.sent = g.sent
               /\ h.wait_mem_deps_number = g.wait_mem_deps_number /\ h.mem_deps_ptr_array = <<>>
    BY <2>1, <2>9 DEF EntryShape
  <2> QED BY <2>3, <2>6, <2>7, <2>8, <2>9
<1>7. \A x \in Place : x \notin ToSet(q) => filled[x] = mob[x]
  BY DEF Filled
<1>8. filled \in [Place -> EntryShape]
  <2>1. \A x \in Place : filled[x] \in EntryShape
    <3> TAKE x \in Place
    <3>1. CASE x \in ToSet(q)
      BY <1>3, <1>6, <3>1
    <3>2. CASE x \notin ToSet(q)
      BY <1>7, <3>2 DEF MobShape
    <3> QED BY <3>1, <3>2
  <2>2. filled = [x \in Place |-> filled[x]]
    BY DEF Filled
  <2> HIDE DEF filled
  <2> QED BY <2>1, <2>2
<1>9. \A k \in 1 .. n :
       LET e == filled[q[k]]
       IN /\ e.status = "WAIT" /\ e.rob_ptr = s /\ e.access = u.accesses[k] /\ e.uop_executed = FALSE
          /\ e.processed = FALSE /\ e.sent = FALSE /\ e.wait_mem_deps_number = 0 /\ e.mem_deps_ptr_array = <<>>
  BY <1>6
<1> HIDE DEF filled
<1>10. FilledFacts(filled, s, u)
  BY <1>7, <1>8, <1>9, Zenon DEF FilledFacts, q, n
<1>11. \A x \in ToSet(q) : x \in Place /\ ~Used(x) /\ mob[x].mem_deps_ptr_array = <<>>
  <2> TAKE x \in ToSet(q)
  <2>1. PICK k \in 1 .. n : x = q[k]
    BY <1>1 DEF ToSet
  <2> QED BY <1>1, <1>4, <2>1
<1> QED BY <1>10, <1>11 DEF filled, q

\* The places while the disambiguator orders the new ones: only what they
\* wait for, and what points to them, has changed.
Ordering(m, filled, new) ==
  /\ m \in [Place -> EntryShape]
  /\ \A x \in Place :
       /\ m[x].status = filled[x].status /\ m[x].rob_ptr = filled[x].rob_ptr
       /\ m[x].access = filled[x].access /\ m[x].uop_executed = filled[x].uop_executed
       /\ m[x].processed = filled[x].processed /\ m[x].sent = filled[x].sent
       /\ x \notin new => m[x].wait_mem_deps_number = filled[x].wait_mem_deps_number
       /\ m[x].mem_deps_ptr_array # <<>> => filled[x].status # "FREE" /\ ~filled[x].processed
  /\ Agree(Place, MemDeps(m), MemWaits(m))

\* A place that is not done.
Undone(filled, x) == filled[x].status # "FREE" /\ ~filled[x].processed

LEMMA DependOnKeeps ==
  ASSUME NEW filled, NEW new, NEW m, Ordering(m, filled, new),
         NEW old \in Place \cup {NULL}, old # NULL => Undone(filled, old), NEW p \in new, p \in Place
  PROVE  Ordering(DependOn(m, old, p), filled, new)
<1>1. CASE old = NULL \/ Len(m[old].mem_deps_ptr_array) = ROB_SIZE
  <2>1. DependOn(m, old, p) = m
    BY <1>1 DEF DependOn
  <2> QED BY <2>1
<1>2. CASE ~(old = NULL \/ Len(m[old].mem_deps_ptr_array) = ROB_SIZE)
  <2>1. old \in Place /\ Undone(filled, old) /\ Len(m[old].mem_deps_ptr_array) # ROB_SIZE
    BY <1>2
  <2>2. PICK g : g = DependOn(m, old, p)
    OBVIOUS
  <2>3. g = [m EXCEPT ![old].mem_deps_ptr_array = Append(@, p), ![p].wait_mem_deps_number = @ + 1]
    BY <1>2, <2>2 DEF DependOn
  <2>4. m \in [Place -> EntryShape]
    BY DEF Ordering
  <2>5. PICK b : b = Append(m[old].mem_deps_ptr_array, p)
    OBVIOUS
  <2>6. PICK w : w = m[p].wait_mem_deps_number + 1
    OBVIOUS
  <2>7. b \in Seq(Place) /\ w \in Int
    <3>1. m[old].mem_deps_ptr_array \in Seq(Place) /\ m[p].wait_mem_deps_number \in Int
      BY <2>1, <2>4, EntryTypes
    <3> QED BY <2>5, <2>6, <3>1
  <2>8. PICK f : f = [m EXCEPT ![old] = [m[old] EXCEPT !.mem_deps_ptr_array = b]]
    OBVIOUS
  <2>9. g = [f EXCEPT ![p] = [f[p] EXCEPT !.wait_mem_deps_number = f[p].wait_mem_deps_number + 1]]
    <3>1. [m EXCEPT ![old].mem_deps_ptr_array = Append(@, p)] = f
      BY <2>5, <2>8, Zenon
    <3>2. g = [f EXCEPT ![p].wait_mem_deps_number = @ + 1]
      BY <2>3, <3>1, Zenon
    <3> QED BY <3>2, Zenon
  <2>10. /\ f \in [Place -> EntryShape]
         /\ \A x \in Place :
              /\ f[x].status = m[x].status /\ f[x].rob_ptr = m[x].rob_ptr
              /\ f[x].access = m[x].access /\ f[x].uop_executed = m[x].uop_executed
              /\ f[x].processed = m[x].processed /\ f[x].sent = m[x].sent
              /\ f[x].wait_mem_deps_number = m[x].wait_mem_deps_number
              /\ f[x].mem_deps_ptr_array = IF x = old THEN b ELSE m[x].mem_deps_ptr_array
    <3>1. m[old] \in EntryShape
      BY <2>1, <2>4
    <3>2. PICK e : e = [m[old] EXCEPT !.mem_deps_ptr_array = b]
      OBVIOUS
    <3>3. /\ e \in EntryShape /\ e.status = m[old].status /\ e.rob_ptr = m[old].rob_ptr /\ e.access = m[old].access
          /\ e.uop_executed = m[old].uop_executed /\ e.processed = m[old].processed /\ e.sent = m[old].sent
          /\ e.wait_mem_deps_number = m[old].wait_mem_deps_number /\ e.mem_deps_ptr_array = b
      BY <2>7, <3>1, <3>2 DEF EntryShape
    <3>4. f \in [Place -> EntryShape] /\ f[old] = e /\ \A x \in Place : x # old => f[x] = m[x]
      BY <2>1, <2>4, <2>8, <3>2, <3>3
    <3>5. \A x \in Place :
              /\ f[x].status = m[x].status /\ f[x].rob_ptr = m[x].rob_ptr
              /\ f[x].access = m[x].access /\ f[x].uop_executed = m[x].uop_executed
              /\ f[x].processed = m[x].processed /\ f[x].sent = m[x].sent
              /\ f[x].wait_mem_deps_number = m[x].wait_mem_deps_number
              /\ f[x].mem_deps_ptr_array = IF x = old THEN b ELSE m[x].mem_deps_ptr_array
      BY <3>3, <3>4
    <3> QED BY <3>4, <3>5
  <2>11. /\ g \in [Place -> EntryShape]
         /\ \A x \in Place :
              /\ g[x].status = f[x].status /\ g[x].rob_ptr = f[x].rob_ptr
              /\ g[x].access = f[x].access /\ g[x].uop_executed = f[x].uop_executed
              /\ g[x].processed = f[x].processed /\ g[x].sent = f[x].sent
              /\ g[x].wait_mem_deps_number = IF x = p THEN w ELSE f[x].wait_mem_deps_number
              /\ g[x].mem_deps_ptr_array = f[x].mem_deps_ptr_array
    <3>1. f[p] \in EntryShape /\ f[p].wait_mem_deps_number + 1 = w
      BY <2>6, <2>10
    <3>2. PICK e : e = [f[p] EXCEPT !.wait_mem_deps_number = w]
      OBVIOUS
    <3>3. /\ e \in EntryShape /\ e.status = f[p].status /\ e.rob_ptr = f[p].rob_ptr /\ e.access = f[p].access
          /\ e.uop_executed = f[p].uop_executed /\ e.processed = f[p].processed /\ e.sent = f[p].sent
          /\ e.wait_mem_deps_number = w /\ e.mem_deps_ptr_array = f[p].mem_deps_ptr_array
      BY <2>7, <3>1, <3>2 DEF EntryShape
    <3>4. g \in [Place -> EntryShape] /\ g[p] = e /\ \A x \in Place : x # p => g[x] = f[x]
      BY <2>9, <2>10, <3>1, <3>2, <3>3
    <3>5. \A x \in Place :
              /\ g[x].status = f[x].status /\ g[x].rob_ptr = f[x].rob_ptr
              /\ g[x].access = f[x].access /\ g[x].uop_executed = f[x].uop_executed
              /\ g[x].processed = f[x].processed /\ g[x].sent = f[x].sent
              /\ g[x].wait_mem_deps_number = IF x = p THEN w ELSE f[x].wait_mem_deps_number
              /\ g[x].mem_deps_ptr_array = f[x].mem_deps_ptr_array
      BY <3>3, <3>4
    <3> QED BY <3>4, <3>5
  <2>12. Agree(Place, MemDeps(g), MemWaits(g))
    <3>1. MemDeps(m) \in [Place -> Seq(Place)] /\ Agree(Place, MemDeps(m), MemWaits(m))
      <4>1. \A x \in Place : m[x].mem_deps_ptr_array \in Seq(Place)
        BY <2>4, EntryTypes
      <4> QED BY <4>1 DEF MemDeps, Ordering
    <3>2. Len(MemDeps(m)[old]) # ROB_SIZE
      BY <2>1 DEF MemDeps
    <3>3. \A x \in Place : MemDeps(g)[x] = IF x = old THEN Append(MemDeps(m)[old], p) ELSE MemDeps(m)[x]
      BY <2>1, <2>5, <2>10, <2>11 DEF MemDeps
    <3>4. \A x \in Place : MemWaits(g)[x] = IF x = p THEN MemWaits(m)[x] + 1 ELSE MemWaits(m)[x]
      BY <2>6, <2>10, <2>11 DEF MemWaits
    <3>5. Appended(Place, MemDeps(m), MemWaits(m), MemDeps(g), MemWaits(g), old, p)
      BY <3>1, <3>2, <3>3, <3>4 DEF Appended
    <3> QED BY <2>1, <3>5, PlaceFinite, AppendAgrees, Zenon
  <2>13. ASSUME NEW x \in Place
         PROVE  /\ g[x].status = filled[x].status /\ g[x].rob_ptr = filled[x].rob_ptr
                /\ g[x].access = filled[x].access /\ g[x].uop_executed = filled[x].uop_executed
                /\ g[x].processed = filled[x].processed /\ g[x].sent = filled[x].sent
                /\ x \notin new => g[x].wait_mem_deps_number = filled[x].wait_mem_deps_number
                /\ g[x].mem_deps_ptr_array # <<>> => filled[x].status # "FREE" /\ ~filled[x].processed
    <3>1. /\ g[x].status = m[x].status /\ g[x].rob_ptr = m[x].rob_ptr
          /\ g[x].access = m[x].access /\ g[x].uop_executed = m[x].uop_executed
          /\ g[x].processed = m[x].processed /\ g[x].sent = m[x].sent
          /\ x \notin new => g[x].wait_mem_deps_number = m[x].wait_mem_deps_number
          /\ x # old => g[x].mem_deps_ptr_array = m[x].mem_deps_ptr_array
      BY <2>10, <2>11
    <3> QED BY <2>1, <3>1 DEF Ordering, Undone
  <2>14. Ordering(g, filled, new)
    BY <2>11, <2>12, <2>13 DEF Ordering
  <2> QED BY <2>2, <2>14
<1> QED BY <1>1, <1>2

\* The tables name operations that are not done.
TablesOK(loads, stores, filled) ==
  /\ loads \in [0 .. LOAD_HASH_SIZE - 1 -> Place \cup {NULL}]
  /\ stores \in [0 .. STORE_HASH_SIZE - 1 -> Place \cup {NULL}]
  /\ \A b \in 0 .. LOAD_HASH_SIZE - 1 : loads[b] # NULL =>
       /\ loads[b][1] = "LOAD" /\ Undone(filled, loads[b]) /\ LoadHash(filled[loads[b]].access.address) = b
  /\ \A b \in 0 .. STORE_HASH_SIZE - 1 : stores[b] # NULL =>
       /\ stores[b][1] = "STORE" /\ Undone(filled, stores[b]) /\ StoreHash(filled[stores[b]].access.address) = b

LEMMA HashRange ==
  ASSUME NEW a \in Nat
  PROVE  LoadHash(a) \in 0 .. LOAD_HASH_SIZE - 1 /\ StoreHash(a) \in 0 .. STORE_HASH_SIZE - 1
<1>1. LOAD_HASH_SIZE \in Nat \ {0} /\ STORE_HASH_SIZE \in Nat \ {0} /\ DESAMBIGUATION_BLOCK_SIZE \in Nat \ {0}
  BY TableAssumption
<1>2. PICK c : c = a \div DESAMBIGUATION_BLOCK_SIZE
  OBVIOUS
<1>3. c \in Int
  BY <1>1, <1>2
<1>4. \A N \in Nat \ {0} : \A x \in Int : x % N \in 0 .. N - 1
  OBVIOUS
<1> QED BY <1>1, <1>2, <1>3, <1>4 DEF LoadHash, StoreHash

LEMMA DependencesKeep ==
  ASSUME NEW filled, NEW new, NEW d, Ordering(d.mob, filled, new), TablesOK(d.load_hash, d.store_hash, filled),
         NEW p \in new, p \in Place, Undone(filled, p), filled[p].access \in [address : Nat, size : Nat],
         NEW e, e = make_memory_dependences(d, p)
  PROVE  Ordering(e.mob, filled, new) /\ TablesOK(e.load_hash, e.store_hash, filled)
<1>1. PICK address \in Nat : address = d.mob[p].access.address /\ address = filled[p].access.address
  BY DEF Ordering
<1>2. PICK i \in 0 .. LOAD_HASH_SIZE - 1 : i = LoadHash(address)
  BY HashRange
<1>3. PICK j \in 0 .. STORE_HASH_SIZE - 1 : j = StoreHash(address)
  BY HashRange
<1>4. PICK y : y = d.load_hash[i]
  OBVIOUS
<1>5. PICK z : z = d.store_hash[j]
  OBVIOUS
<1>6. y \in Place \cup {NULL} /\ (y # NULL => Undone(filled, y)) /\ z \in Place \cup {NULL} /\ (z # NULL => Undone(filled, z))
  BY <1>4, <1>5 DEF TablesOK
<1>7. /\ e.mob = DependOn(DependOn(d.mob, y, p), z, p)
      /\ e.load_hash = IF p[1] = "LOAD" THEN [d.load_hash EXCEPT ![i] = p] ELSE d.load_hash
      /\ e.store_hash = IF p[1] = "STORE" THEN [d.store_hash EXCEPT ![j] = p] ELSE d.store_hash
  BY <1>1, <1>2, <1>3, <1>4, <1>5 DEF make_memory_dependences
<1>8. Ordering(DependOn(d.mob, y, p), filled, new)
  BY <1>6, DependOnKeeps
<1>9. Ordering(DependOn(DependOn(d.mob, y, p), z, p), filled, new)
  BY <1>6, <1>8, DependOnKeeps
<1>10. NULL \notin Place
  BY NullAssumption
<1>11. PICK loads : loads = e.load_hash
  OBVIOUS
<1>12. PICK stores : stores = e.store_hash
  OBVIOUS
<1>13. /\ loads \in [0 .. LOAD_HASH_SIZE - 1 -> Place \cup {NULL}]
       /\ \A b \in 0 .. LOAD_HASH_SIZE - 1 : loads[b] = d.load_hash[b] \/ (b = i /\ loads[b] = p /\ p[1] = "LOAD")
  BY <1>7, <1>11 DEF TablesOK
<1>14. /\ stores \in [0 .. STORE_HASH_SIZE - 1 -> Place \cup {NULL}]
       /\ \A b \in 0 .. STORE_HASH_SIZE - 1 : stores[b] = d.store_hash[b] \/ (b = j /\ stores[b] = p /\ p[1] = "STORE")
  BY <1>7, <1>12 DEF TablesOK
<1>15. ASSUME NEW b \in 0 .. LOAD_HASH_SIZE - 1, loads[b] # NULL
       PROVE  loads[b][1] = "LOAD" /\ Undone(filled, loads[b]) /\ LoadHash(filled[loads[b]].access.address) = b
  BY <1>1, <1>2, <1>13, <1>15 DEF TablesOK
<1>16. ASSUME NEW b \in 0 .. STORE_HASH_SIZE - 1, stores[b] # NULL
       PROVE  stores[b][1] = "STORE" /\ Undone(filled, stores[b]) /\ StoreHash(filled[stores[b]].access.address) = b
  BY <1>1, <1>3, <1>14, <1>16 DEF TablesOK
<1>17. TablesOK(loads, stores, filled)
  BY <1>13, <1>14, <1>15, <1>16 DEF TablesOK
<1> QED BY <1>7, <1>9, <1>11, <1>12, <1>17

-----------------------------------------------------------------------------
(* Rename: the disambiguator orders the new places one after the other.    *)

IsOrderChain(a, d, places, width) ==
  a = [n \in 0 .. width |-> IF n = 0 THEN d ELSE make_memory_dependences(a[n - 1], places[n])]

\* The chain of orders is defined for every width.
LEMMA OrderChainExists ==
  ASSUME NEW d, NEW places, NEW width \in Nat
  PROVE  \E a : IsOrderChain(a, d, places, width)
<1> DEFINE Missing == {n \in Nat : ~ \E a : IsOrderChain(a, d, places, n)}
<1>1. SUFFICES ASSUME Missing # {} PROVE FALSE
  BY <1>1
<1>2. PICK m \in Missing : \A k \in Missing : m <= k
  BY <1>1, LeastNumber
<1>3. CASE m = 0
  <2> DEFINE b == [n \in 0 .. 0 |-> d]
  <2>1. b = [n \in 0 .. 0 |-> IF n = 0 THEN d ELSE make_memory_dependences(b[n - 1], places[n])]
    OBVIOUS
  <2>2. IsOrderChain(b, d, places, 0)
    BY <2>1 DEF IsOrderChain
  <2> QED BY <1>3, <2>2
<1>4. CASE m # 0
  <2>1. m - 1 \in Nat /\ m - 1 \notin Missing
    BY <1>2, <1>4
  <2>2. PICK a : IsOrderChain(a, d, places, m - 1)
    BY <2>1
  <2> DEFINE b == [n \in 0 .. m |-> IF n = m THEN make_memory_dependences(a[m - 1], places[m]) ELSE a[n]]
  <2>3. \A n \in 0 .. m - 1 : a[n] = IF n = 0 THEN d ELSE make_memory_dependences(a[n - 1], places[n])
    BY <2>2 DEF IsOrderChain
  <2>4. \A n \in 0 .. m : b[n] = IF n = 0 THEN d ELSE make_memory_dependences(b[n - 1], places[n])
    <3> TAKE n \in 0 .. m
    <3>1. CASE n = m
      <4>1. m - 1 \in 0 .. m /\ m - 1 # m
        BY <2>1
      <4>2. b[m - 1] = a[m - 1] /\ b[m] = make_memory_dependences(a[m - 1], places[m])
        BY <4>1
      <4> HIDE DEF b
      <4> QED BY <1>4, <3>1, <4>2
    <3>2. CASE n # m
      <4>1. n \in 0 .. m - 1 /\ (n # 0 => n - 1 \in 0 .. m /\ n - 1 # m)
        BY <2>1, <3>2
      <4>2. b[n] = a[n] /\ (n # 0 => b[n - 1] = a[n - 1])
        BY <4>1, <3>2
      <4> HIDE DEF b
      <4> QED BY <2>3, <4>1, <4>2
    <3> QED BY <3>1, <3>2
  <2>5. b = [n \in 0 .. m |-> b[n]]
    OBVIOUS
  <2> HIDE DEF b
  <2>6. IsOrderChain(b, d, places, m)
    BY <2>4, <2>5 DEF IsOrderChain
  <2> QED BY <2>6
<1> QED BY <1>3, <1>4

\* The order of the places is the last one of a chain.
LEMMA OrderedChain ==
  ASSUME NEW d, NEW places, Len(places) \in Nat
  PROVE  \E a : IsOrderChain(a, d, places, Len(places)) /\ Ordered(d, places) = a[Len(places)]
<1> DEFINE after == CHOOSE a : IsOrderChain(a, d, places, Len(places))
<1>1. IsOrderChain(after, d, places, Len(places))
  <2>1. \E a : IsOrderChain(a, d, places, Len(places))
    BY OrderChainExists
  <2> QED BY <2>1, Zenon
<1>2. Ordered(d, places) = after[Len(places)]
  BY DEF Ordered, IsOrderChain
<1> QED BY <1>1, <1>2

\* The new places before they are ordered.
LEMMA OrderStarts ==
  ASSUME IInv, NEW u \in Uop, u.op \in Memory, mob_used[u.op] + Len(u.accesses) <= MOB[u.op],
         NEW s \in Slot, NEW filled, filled = Filled(s, u, NewPlaces(u))
  PROVE  /\ Ordering(filled, filled, ToSet(NewPlaces(u))) /\ TablesOK(load_hash, store_hash, filled)
         /\ \A p \in ToSet(NewPlaces(u)) : /\ p \in Place /\ ~Used(p) /\ Undone(filled, p)
                                           /\ filled[p].access \in [address : Nat, size : Nat]
<1> USE DEF IInv
<1> DEFINE new == ToSet(NewPlaces(u))
           n == Len(u.accesses)
<1>1. /\ FilledFacts(filled, s, u)
      /\ \A x \in new : x \in Place /\ ~Used(x) /\ mob[x].mem_deps_ptr_array = <<>>
  BY FilledIs
<1>2. /\ n \in Nat /\ DOMAIN NewPlaces(u) = 1 .. n
      /\ \A k \in 1 .. n : NewPlaces(u)[k] \in Place
  BY NewPlacesAre
<1>3. \A x \in new : \E k \in 1 .. n : x = NewPlaces(u)[k]
  BY <1>2 DEF ToSet
<1> HIDE DEF new
<1>4. \A x \in Place \ new : filled[x] = mob[x]
  BY <1>1 DEF FilledFacts, new
<1>5. \A k \in 1 .. n : u.accesses[k] \in [address : Nat, size : Nat]
  <2>1. u.accesses \in Seq([address : Nat, size : Nat])
    BY UopAssumption
  <2>2. PICK a \in Seq([address : Nat, size : Nat]) : a = u.accesses
    BY <2>1
  <2>3. \A k \in 1 .. Len(a) : a[k] \in [address : Nat, size : Nat]
    BY ElementOfSeq
  <2> QED BY <2>2, <2>3
<1>6. ASSUME NEW x \in new
      PROVE  /\ x \in Place /\ ~Used(x) /\ Undone(filled, x) /\ filled[x].access \in [address : Nat, size : Nat]
             /\ filled[x].mem_deps_ptr_array = <<>> /\ filled[x].wait_mem_deps_number = 0
  <2>1. PICK k \in 1 .. n : x = NewPlaces(u)[k]
    BY <1>3
  <2> QED BY <1>1, <1>5, <2>1 DEF FilledFacts, Undone
<1>7. filled \in [Place -> EntryShape]
  BY <1>1 DEF FilledFacts
<1>8. \A x \in Place : /\ filled[x].mem_deps_ptr_array = mob[x].mem_deps_ptr_array
                       /\ filled[x].wait_mem_deps_number = mob[x].wait_mem_deps_number
  <2> TAKE x \in Place
  <2>1. CASE x \in new
    <3>1. mob[x].mem_deps_ptr_array = <<>> /\ ~Used(x)
      BY <1>1, <2>1
    <3>2. mob[x].wait_mem_deps_number = 0
      BY <3>1 DEF EntryInv, EntryOK
    <3> QED BY <1>6, <2>1, <3>1, <3>2
  <2>2. CASE x \notin new
    BY <1>4, <2>2
  <2> QED BY <2>1, <2>2
<1>9. Agree(Place, MemDeps(filled), MemWaits(filled))
  <2>1. MemDeps(filled) = MemDeps(mob) /\ MemWaits(filled) = MemWaits(mob)
    BY <1>8 DEF MemDeps, MemWaits
  <2> QED BY <2>1 DEF PlaceWaitInv
<1>10. \A x \in Place : filled[x].mem_deps_ptr_array # <<>> => filled[x].status # "FREE" /\ ~filled[x].processed
  <2> SUFFICES ASSUME NEW x \in Place, filled[x].mem_deps_ptr_array # <<>>
               PROVE  filled[x].status # "FREE" /\ ~filled[x].processed
    OBVIOUS
  <2>1. x \notin new
    BY <1>6
  <2> QED BY <1>4, <2>1 DEF PlaceWaitInv, Used
<1>11. Ordering(filled, filled, new)
  BY <1>7, <1>9, <1>10 DEF Ordering
<1>12. \A x \in Place : Used(x) => x \notin new
  BY <1>6
<1>13. ASSUME NEW b \in 0 .. LOAD_HASH_SIZE - 1, load_hash[b] # NULL
       PROVE  load_hash[b][1] = "LOAD" /\ Undone(filled, load_hash[b]) /\ LoadHash(filled[load_hash[b]].access.address) = b
  <2>1. PICK p \in Place : p = load_hash[b]
    BY <1>13 DEF MobShape
  <2>2. p[1] = "LOAD" /\ Used(p) /\ ~mob[p].processed /\ LoadHash(mob[p].access.address) = b
    BY <1>13, <2>1 DEF TableInv
  <2>3. filled[p] = mob[p]
    BY <1>4, <1>12, <2>2
  <2> QED BY <2>1, <2>2, <2>3 DEF Undone, Used
<1>14. ASSUME NEW b \in 0 .. STORE_HASH_SIZE - 1, store_hash[b] # NULL
       PROVE  store_hash[b][1] = "STORE" /\ Undone(filled, store_hash[b]) /\ StoreHash(filled[store_hash[b]].access.address) = b
  <2>1. PICK p \in Place : p = store_hash[b]
    BY <1>14 DEF MobShape
  <2>2. p[1] = "STORE" /\ Used(p) /\ ~mob[p].processed /\ StoreHash(mob[p].access.address) = b
    BY <1>14, <2>1 DEF TableInv
  <2>3. filled[p] = mob[p]
    BY <1>4, <1>12, <2>2
  <2> QED BY <2>1, <2>2, <2>3 DEF Undone, Used
<1>15. TablesOK(load_hash, store_hash, filled)
  BY <1>13, <1>14 DEF TablesOK, MobShape
<1> QED BY <1>6, <1>11, <1>15 DEF new

\* a[n] holds the order when n of the new places are ordered.
OrderChain(a, filled, u, s) ==
  /\ FilledFacts(filled, s, u) /\ a[0] = order(filled)
  /\ mob' = a[Len(u.accesses)].mob
  /\ load_hash' = a[Len(u.accesses)].load_hash /\ store_hash' = a[Len(u.accesses)].store_hash
  /\ \A k \in 0 .. Len(u.accesses) : /\ Ordering(a[k].mob, filled, ToSet(NewPlaces(u)))
                                     /\ TablesOK(a[k].load_hash, a[k].store_hash, filled)
  /\ \A k \in 1 .. Len(u.accesses) : a[k] = make_memory_dependences(a[k - 1], NewPlaces(u)[k])

LEMMA OrderChainOfRename ==
  ASSUME IInv, NEW u \in Uop, u.op \in Memory, rename(u), NEW s, s = robEnd
  PROVE  \E a, filled : OrderChain(a, filled, u, s)
<1> USE DEF IInv
<1>1. s \in Slot
  BY RenameLines
<1>2. mob_used[u.op] + Len(u.accesses) <= MOB[u.op]
  BY DEF rename
<1> DEFINE places == NewPlaces(u)
           N == Len(places)
           new == ToSet(places)
<1>3. PICK filled : filled = Filled(s, u, places)
  OBVIOUS
<1>4. PICK d : d = Ordered(order(filled), places)
  OBVIOUS
<1>5. mob' = d.mob /\ load_hash' = d.load_hash /\ store_hash' = d.store_hash
  <2>1. Remember(s, u)
    BY DEF rename
  <2> QED BY <1>3, <1>4, <2>1 DEF Remember, OrderBecomes
<1>6. /\ Ordering(filled, filled, new) /\ TablesOK(load_hash, store_hash, filled)
      /\ \A p \in new : /\ p \in Place /\ Undone(filled, p) /\ filled[p].access \in [address : Nat, size : Nat]
  BY <1>1, <1>2, <1>3, OrderStarts
<1>7. FilledFacts(filled, s, u)
  BY <1>1, <1>2, <1>3, FilledIs
<1>8. N \in Nat /\ N = Len(u.accesses) /\ \A k \in 1 .. N : places[k] \in new
  <2>1. Len(u.accesses) \in Nat /\ DOMAIN places = 1 .. Len(u.accesses) /\ N = Len(u.accesses)
    BY <1>2, NewPlacesAre
  <2> QED BY <2>1 DEF ToSet
<1>h. places = NewPlaces(u) /\ new = ToSet(NewPlaces(u))
  OBVIOUS
<1> HIDE DEF places, new
<1>9. PICK a : IsOrderChain(a, order(filled), places, N) /\ Ordered(order(filled), places) = a[N]
  BY <1>8, OrderedChain
<1> HIDE DEF N
<1>10. \A k \in 0 .. N : a[k] = IF k = 0 THEN order(filled) ELSE make_memory_dependences(a[k - 1], places[k])
  BY <1>9 DEF IsOrderChain
<1> DEFINE Good(k) == Ordering(a[k].mob, filled, new) /\ TablesOK(a[k].load_hash, a[k].store_hash, filled)
           Wrong == {k \in 0 .. N : ~Good(k)}
<1>11. Wrong = {}
  <2> SUFFICES ASSUME Wrong # {} PROVE FALSE
    OBVIOUS
  <2>1. Wrong \in SUBSET Nat
    BY <1>8
  <2>2. PICK m \in Wrong : \A k \in Wrong : m <= k
    BY <2>1, LeastNumber
  <2>3. m # 0
    <3>1. 0 \in 0 .. N
      BY <1>8
    <3>2. a[0] = order(filled)
      BY <1>10, <3>1
    <3>3. a[0].mob = filled /\ a[0].load_hash = load_hash /\ a[0].store_hash = store_hash
      BY <3>2 DEF order
    <3>4. Good(0)
      BY <1>6, <3>3
    <3> QED BY <3>4
  <2>4. m \in 1 .. N /\ m - 1 \in 0 .. N /\ m - 1 \notin Wrong
    BY <1>8, <2>2, <2>3
  <2>5. PICK c : c = a[m - 1]
    OBVIOUS
  <2>6. Ordering(c.mob, filled, new) /\ TablesOK(c.load_hash, c.store_hash, filled)
    BY <2>4, <2>5
  <2>7. PICK p \in new : p = places[m]
    BY <1>8, <2>4
  <2>8. PICK e : e = make_memory_dependences(c, p)
    OBVIOUS
  <2>9. a[m] = e
    BY <1>10, <2>3, <2>4, <2>5, <2>7, <2>8
  <2>10. p \in Place /\ Undone(filled, p) /\ filled[p].access \in [address : Nat, size : Nat]
    BY <1>6
  <2>11. Ordering(e.mob, filled, new) /\ TablesOK(e.load_hash, e.store_hash, filled)
    BY <2>6, <2>8, <2>10, DependencesKeep
  <2>12. Good(m)
    BY <2>9, <2>11
  <2> QED BY <2>12
<1>12. 0 \in 0 .. N /\ \A k \in 1 .. N : k \in 0 .. N /\ k # 0
  BY <1>8
<1>13. a[0] = order(filled) /\ \A k \in 1 .. N : a[k] = make_memory_dependences(a[k - 1], places[k])
  BY <1>10, <1>12
<1>14. d = a[N]
  BY <1>4, <1>9
<1>15. \A k \in 0 .. N : Good(k)
  BY <1>11
<1>16. OrderChain(a, filled, u, s)
  BY <1>h, <1>5, <1>7, <1>8, <1>13, <1>14, <1>15, Zenon DEF OrderChain
<1> QED BY <1>16

\* What rename does to the places.
LEMMA RenamePlaces ==
  ASSUME IInv, NEW u \in Uop, u.op \in Memory, rename(u), NEW s, s = robEnd
  PROVE  \E filled : /\ FilledFacts(filled, s, u)
                     /\ Ordering(mob', filled, ToSet(NewPlaces(u)))
                     /\ TablesOK(load_hash', store_hash', filled)
<1>1. PICK a, filled : OrderChain(a, filled, u, s)
  BY OrderChainOfRename
<1>2. Len(u.accesses) \in 0 .. Len(u.accesses)
  <2>1. Len(u.accesses) \in 1 .. MOB[u.op]
    BY UopAssumption
  <2> QED BY <2>1, MobSize
<1> QED BY <1>1, <1>2 DEF OrderChain

\* What becomes of the places when a memory uop is renamed.
PlacesRenamed(u, s) ==
  /\ mob_start' = mob_start /\ mob_used' \in [Memory -> Nat]
  /\ mob_used'[u.op] = mob_used[u.op] + Len(u.accesses)
  /\ \A op \in Memory : op # u.op => mob_used'[op] = mob_used[op]
  /\ \A x \in Place : x \notin ToSet(NewPlaces(u)) =>
       /\ mob'[x].status = mob[x].status /\ mob'[x].rob_ptr = mob[x].rob_ptr
       /\ mob'[x].access = mob[x].access /\ mob'[x].uop_executed = mob[x].uop_executed
       /\ mob'[x].processed = mob[x].processed /\ mob'[x].sent = mob[x].sent
       /\ mob'[x].wait_mem_deps_number = mob[x].wait_mem_deps_number
  /\ \A k \in 1 .. Len(u.accesses) :
       LET x == NewPlaces(u)[k]
       IN /\ mob'[x].status = "WAIT" /\ mob'[x].rob_ptr = s /\ mob'[x].access = u.accesses[k]
          /\ mob'[x].uop_executed = FALSE /\ mob'[x].processed = FALSE /\ mob'[x].sent = FALSE
  /\ \A x \in Place : Distance(x)' = Distance(x)

LEMMA RenameMob ==
  ASSUME IInv, NEW u \in Uop, u.op \in Memory, rename(u), NEW s, s = robEnd
  PROVE  MobShape' /\ PlaceWaitInv' /\ TableInv' /\ PlacesRenamed(u, s)
<1> USE DEF IInv
<1>1. PICK filled : /\ FilledFacts(filled, s, u)
                    /\ Ordering(mob', filled, ToSet(NewPlaces(u)))
                    /\ TablesOK(load_hash', store_hash', filled)
  BY RenamePlaces
<1> DEFINE n == Len(u.accesses)
           new == ToSet(NewPlaces(u))
<1>2. mob_used[u.op] + n <= MOB[u.op]
  BY DEF rename
<1>3. /\ n \in Nat \ {0} /\ DOMAIN NewPlaces(u) = 1 .. n /\ mob_used[u.op] \in Nat
      /\ \A k \in 1 .. n : NewPlaces(u)[k] \in Place
  BY <1>2, NewPlacesAre
<1>4. \A k \in 1 .. n : NewPlaces(u)[k] \in Place /\ NewPlaces(u)[k] \in new
  BY <1>3 DEF ToSet
<1> HIDE DEF new
<1>5. mob_start' = mob_start /\ mob_used' = [mob_used EXCEPT ![u.op] = @ + n]
  BY DEF rename
<1>6. /\ mob_used' \in [Memory -> Nat] /\ mob_used'[u.op] = mob_used[u.op] + n
      /\ \A op \in Memory : op # u.op => mob_used'[op] = mob_used[op]
  BY <1>3, <1>5 DEF MobShape
<1>7. mob' \in [Place -> EntryShape]
  BY <1>1 DEF Ordering
<1>8. MobShape'
  <2>1. \A op \in Memory : mob_used'[op] <= MOB[op] /\ (MOB[op] /= 0 => mob_start'[op] < MOB[op])
    BY <1>2, <1>5, <1>6 DEF MobShape
  <2>2. /\ load_hash' \in [0 .. LOAD_HASH_SIZE - 1 -> Place \cup {NULL}]
        /\ store_hash' \in [0 .. STORE_HASH_SIZE - 1 -> Place \cup {NULL}]
    BY <1>1 DEF TablesOK
  <2>3. mob_start' \in [Memory -> Nat]
    BY <1>5 DEF MobShape
  <2> QED BY <1>6, <1>7, <2>1, <2>2, <2>3 DEF MobShape
<1>9. \A x \in Place :
       /\ mob'[x].status = filled[x].status /\ mob'[x].rob_ptr = filled[x].rob_ptr
       /\ mob'[x].access = filled[x].access /\ mob'[x].uop_executed = filled[x].uop_executed
       /\ mob'[x].processed = filled[x].processed /\ mob'[x].sent = filled[x].sent
       /\ x \notin new => mob'[x].wait_mem_deps_number = filled[x].wait_mem_deps_number
       /\ mob'[x].mem_deps_ptr_array # <<>> => filled[x].status # "FREE" /\ ~filled[x].processed
  BY <1>1 DEF Ordering, new
<1>10. PlaceWaitInv'
  <2>1. \A x \in Place : mob'[x].mem_deps_ptr_array # <<>> => Used(x)' /\ ~mob'[x].processed
    BY <1>9 DEF Used
  <2> QED BY <1>1, <2>1 DEF Ordering, PlaceWaitInv
<1>11. TableInv'
  <2>1. ASSUME NEW b \in 0 .. LOAD_HASH_SIZE - 1, NEW p, p = load_hash'[b], p # NULL
        PROVE  p[1] = "LOAD" /\ Used(p)' /\ ~mob'[p].processed /\ LoadHash(mob'[p].access.address) = b
    <3>1. p \in Place /\ p[1] = "LOAD" /\ Undone(filled, p) /\ LoadHash(filled[p].access.address) = b
      BY <1>1, <2>1 DEF TablesOK
    <3> QED BY <1>9, <3>1 DEF Undone, Used
  <2>2. ASSUME NEW b \in 0 .. STORE_HASH_SIZE - 1, NEW p, p = store_hash'[b], p # NULL
        PROVE  p[1] = "STORE" /\ Used(p)' /\ ~mob'[p].processed /\ StoreHash(mob'[p].access.address) = b
    <3>1. p \in Place /\ p[1] = "STORE" /\ Undone(filled, p) /\ StoreHash(filled[p].access.address) = b
      BY <1>1, <2>2 DEF TablesOK
    <3> QED BY <1>9, <3>1 DEF Undone, Used
  <2> QED BY <2>1, <2>2 DEF TableInv, Used
<1>12. \A x \in Place : x \notin new => filled[x] = mob[x]
  BY <1>1 DEF FilledFacts, new
<1>13. \A k \in 1 .. n :
       LET e == filled[NewPlaces(u)[k]]
       IN /\ e.status = "WAIT" /\ e.rob_ptr = s /\ e.access = u.accesses[k] /\ e.uop_executed = FALSE
          /\ e.processed = FALSE /\ e.sent = FALSE
  BY <1>1 DEF FilledFacts
<1>14. \A x \in Place : x \notin new =>
       /\ mob'[x].status = mob[x].status /\ mob'[x].rob_ptr = mob[x].rob_ptr
       /\ mob'[x].access = mob[x].access /\ mob'[x].uop_executed = mob[x].uop_executed
       /\ mob'[x].processed = mob[x].processed /\ mob'[x].sent = mob[x].sent
       /\ mob'[x].wait_mem_deps_number = mob[x].wait_mem_deps_number
  BY <1>9, <1>12
<1>15. \A k \in 1 .. n :
       LET x == NewPlaces(u)[k]
       IN /\ mob'[x].status = "WAIT" /\ mob'[x].rob_ptr = s /\ mob'[x].access = u.accesses[k]
          /\ mob'[x].uop_executed = FALSE /\ mob'[x].processed = FALSE /\ mob'[x].sent = FALSE
  BY <1>4, <1>9, <1>13
<1>16. \A x \in Place : Distance(x)' = Distance(x)
  BY <1>5 DEF Distance
<1>17. PlacesRenamed(u, s)
  BY <1>5, <1>6, <1>14, <1>15, <1>16 DEF PlacesRenamed, new
<1> QED BY <1>8, <1>10, <1>11, <1>17

\* What becomes of the lines when uop u is renamed in line s.
LinesRenamed(u, s) ==
  /\ s \in Slot /\ ~Busy(s)
  /\ Busy(s)' /\ rob'[s].uop = u /\ rob'[s].uop_number = renameCounter
  /\ rob'[s].stage = "RENAME" /\ rob'[s].sent = FALSE
  /\ rob'[s].pos_mob = IF u.op \in Memory THEN mobEnd(u.op) ELSE NULL
  /\ rob'[s].waiting_mem_request = IF u.op \in {"LOAD", "STORE"} THEN Len(u.accesses) ELSE 0
  /\ \A x \in Slot : Busy(x) => Before(x, s)'
  /\ \A x \in Slot : x # s =>
       /\ rob'[x].uop = rob[x].uop /\ rob'[x].uop_number = rob[x].uop_number /\ rob'[x].stage = rob[x].stage
       /\ rob'[x].pos_mob = rob[x].pos_mob /\ rob'[x].waiting_mem_request = rob[x].waiting_mem_request
       /\ rob'[x].sent = rob[x].sent
  /\ unified_reservation_station' = Append(unified_reservation_station, s)
  /\ unified_functional_units' = unified_functional_units
  /\ mob_start' = mob_start /\ memory_executed' = memory_executed /\ oldest_to_send' = oldest_to_send

LEMMA RenamedLines ==
  ASSUME IInv, NEW u \in Uop, rename(u), NEW s, s = robEnd
  PROVE  LinesRenamed(u, s)
<1> USE DEF IInv
<1>1. s \in Slot /\ ~Busy(s) /\ Renaming(rob', NewLine(u), s)
  BY RenameLines
<1>2. Busy(s)' /\ \A x \in Slot : Busy(x) => Before(x, s)'
  BY <1>1, RenameRob
<1>3. /\ rob'[s].uop = u /\ rob'[s].uop_number = renameCounter
      /\ rob'[s].stage = "RENAME" /\ rob'[s].sent = FALSE
      /\ rob'[s].pos_mob = IF u.op \in Memory THEN mobEnd(u.op) ELSE NULL
      /\ rob'[s].waiting_mem_request = IF u.op \in {"LOAD", "STORE"} THEN Len(u.accesses) ELSE 0
  BY <1>1 DEF Renaming, NewLine
<1>4. \A x \in Slot : x # s =>
       /\ rob'[x].uop = rob[x].uop /\ rob'[x].uop_number = rob[x].uop_number /\ rob'[x].stage = rob[x].stage
       /\ rob'[x].pos_mob = rob[x].pos_mob /\ rob'[x].waiting_mem_request = rob[x].waiting_mem_request
       /\ rob'[x].sent = rob[x].sent
  BY <1>1 DEF Renaming
<1>5. /\ unified_reservation_station' = Append(unified_reservation_station, s)
      /\ unified_functional_units' = unified_functional_units
      /\ mob_start' = mob_start /\ memory_executed' = memory_executed /\ oldest_to_send' = oldest_to_send
  BY DEF rename, sendVars
<1> QED BY <1>1, <1>2, <1>3, <1>4, <1>5 DEF LinesRenamed

\* The other uops are as they were.
LEMMA RenamedSame ==
  ASSUME NEW u, NEW s, LinesRenamed(u, s)
  PROVE  /\ \A p : Distance(p)' = Distance(p)
         /\ \A x \in Slot : x # s =>
              /\ Busy(x)' = Busy(x) /\ IsMemory(x)' = IsMemory(x) /\ Kind(x)' = Kind(x) /\ Count(x)' = Count(x)
              /\ Kept(x)' = Kept(x) /\ Rank(x)' = Rank(x) /\ \A i : Nth(x, i)' = Nth(x, i)
         /\ \A x, y \in Slot : x # s /\ y # s => Before(x, y)' = Before(x, y)
<1>1. \A p : Distance(p)' = Distance(p)
  BY DEF Distance, LinesRenamed
<1>2. ASSUME NEW x \in Slot, x # s
      PROVE  /\ Busy(x)' = Busy(x) /\ IsMemory(x)' = IsMemory(x) /\ Kind(x)' = Kind(x) /\ Count(x)' = Count(x)
             /\ Kept(x)' = Kept(x) /\ Rank(x)' = Rank(x) /\ \A i : Nth(x, i)' = Nth(x, i)
  <2>1. /\ rob'[x].uop = rob[x].uop /\ rob'[x].pos_mob = rob[x].pos_mob
        /\ rob'[x].waiting_mem_request = rob[x].waiting_mem_request
    BY <1>2 DEF LinesRenamed
  <2>2. Busy(x)' = Busy(x) /\ IsMemory(x)' = IsMemory(x) /\ Kind(x)' = Kind(x) /\ Count(x)' = Count(x)
    BY <2>1 DEF Busy, IsMemory, Kind, Count
  <2>3. Kept(x)' = Kept(x)
    BY <2>1, <2>2 DEF Kept
  <2>4. \A i : Nth(x, i)' = Nth(x, i)
    BY <2>1, <2>2 DEF Nth
  <2>5. Rank(x)' = Rank(x)
    BY <1>1, <2>2, <2>4 DEF Rank
  <2> QED BY <2>2, <2>3, <2>4, <2>5
<1>3. \A x, y \in Slot : x # s /\ y # s => Before(x, y)' = Before(x, y)
  BY DEF Before, LinesRenamed
<1> QED BY <1>1, <1>2, <1>3

\* The memory uop that is renamed keeps the new places.
NewFacts(u, s) ==
  /\ u.op \in Memory /\ Len(u.accesses) \in Nat \ {0} /\ mob_used[u.op] \in Nat
  /\ mob_used[u.op] + Len(u.accesses) <= MOB[u.op]
  /\ IsMemory(s)' /\ Kind(s)' = u.op /\ Count(s)' = Len(u.accesses) /\ Kept(s)' = Len(u.accesses)
  /\ Rank(s)' = mob_used[u.op] + Len(u.accesses) - 1
  /\ rob'[s].pos_mob \in 0 .. MOB[u.op] - 1
  /\ \A i \in 0 .. Len(u.accesses) - 1 : Nth(s, i)' = NewPlaces(u)[i + 1]
  /\ \A k \in 1 .. Len(u.accesses) :
       /\ NewPlaces(u)[k] \in Place /\ NewPlaces(u)[k][1] = u.op
       /\ Distance(NewPlaces(u)[k]) = mob_used[u.op] + k - 1
  /\ \A k, l \in 1 .. Len(u.accesses) : NewPlaces(u)[k] = NewPlaces(u)[l] => k = l
  /\ \A x \in ToSet(NewPlaces(u)) : \E k \in 1 .. Len(u.accesses) : x = NewPlaces(u)[k]
  /\ \A k \in 1 .. Len(u.accesses) : NewPlaces(u)[k] \in ToSet(NewPlaces(u))
  /\ \A p \in Place : p \in ToSet(NewPlaces(u)) <=>
       /\ p[1] = u.op /\ mob_used[u.op] <= Distance(p)
       /\ Distance(p) < mob_used[u.op] + Len(u.accesses)
  /\ \A p \in Place : Used(p) => p \notin ToSet(NewPlaces(u))

LEMMA NewUop ==
  ASSUME IInv, NEW u \in Uop, u.op \in Memory, rename(u), NEW s, s = robEnd
  PROVE  NewFacts(u, s)
<1> USE DEF IInv
<1> DEFINE n == Len(u.accesses)
           q == NewPlaces(u)
<1>1. mob_used[u.op] + n <= MOB[u.op]
  BY DEF rename
<1>2. /\ n \in Nat \ {0} /\ DOMAIN q = 1 .. n
      /\ mob_used[u.op] \in Nat /\ MOB[u.op] \in Nat \ {0}
      /\ \A k \in 1 .. n :
              /\ q[k] \in Place /\ q[k][1] = u.op
              /\ q[k] = PlaceOf(u.op, mobEnd(u.op), k - 1)
              /\ Distance(q[k]) = mob_used[u.op] + k - 1
      /\ \A k, l \in 1 .. n : q[k] = q[l] => k = l
      /\ \A p \in Place : p \in ToSet(q) <=>
              /\ p[1] = u.op /\ mob_used[u.op] <= Distance(p)
              /\ Distance(p) < mob_used[u.op] + n
  BY <1>1, NewPlacesAre
<1> HIDE DEF q, n
<1>3. /\ \A x \in ToSet(q) : \E k \in 1 .. n : x = q[k]
      /\ \A k \in 1 .. n : q[k] \in ToSet(q)
  BY <1>2 DEF ToSet
<1>4. LinesRenamed(u, s)
  BY RenamedLines
<1>5. s \in Slot /\ Busy(s)' /\ rob'[s].uop = u /\ rob'[s].pos_mob = mobEnd(u.op)
  BY <1>4 DEF LinesRenamed
<1>6. IsMemory(s)' /\ Kind(s)' = u.op /\ Count(s)' = n
  BY <1>5 DEF IsMemory, Kind, Count, n
<1>7. Kept(s)' = n
  <2>1. u.op = "STORE" => rob'[s].waiting_mem_request = n
    BY <1>4 DEF LinesRenamed, n
  <2> QED BY <1>6, <2>1 DEF Kept
<1>8. \A i \in 0 .. n - 1 : Nth(s, i)' = q[i + 1]
  <2> TAKE i \in 0 .. n - 1
  <2>1. Nth(s, i)' = PlaceOf(u.op, mobEnd(u.op), i)
    BY <1>5, <1>6 DEF Nth
  <2>2. i + 1 \in 1 .. n /\ (i + 1) - 1 = i
    BY <1>2
  <2>3. q[i + 1] = PlaceOf(u.op, mobEnd(u.op), (i + 1) - 1)
    BY <1>2, <2>2
  <2> QED BY <2>1, <2>2, <2>3
<1>9. Rank(s)' = mob_used[u.op] + n - 1
  <2>1. n - 1 \in 0 .. n - 1 /\ (n - 1) + 1 = n /\ n \in 1 .. n
    BY <1>2
  <2>2. Nth(s, n - 1)' = q[n]
    BY <1>8, <2>1
  <2>3. Rank(s)' = Distance(Nth(s, Count(s) - 1))'
    BY DEF Rank
  <2>4. Nth(s, Count(s) - 1)' = q[n]
    <3>1. Nth(s, Count(s) - 1)' = PlaceOf(u.op, mobEnd(u.op), n - 1)
      BY <1>5, <1>6 DEF Nth
    <3> QED BY <1>2, <2>1, <3>1
  <2>5. Distance(Nth(s, Count(s) - 1))' = Distance(q[n])
    <3>1. mob_start' = mob_start
      BY <1>4 DEF LinesRenamed
    <3> QED BY <2>4, <3>1 DEF Distance
  <2> QED BY <1>2, <2>1, <2>3, <2>5
<1>10. mobEnd(u.op) \in 0 .. MOB[u.op] - 1
  BY <1>2, StartType
<1>11. \A p \in Place : Used(p) => p \notin ToSet(q)
  <2> SUFFICES ASSUME NEW p \in Place, Used(p), p \in ToSet(q) PROVE FALSE
    OBVIOUS
  <2>1. p[1] = u.op /\ mob_used[u.op] <= Distance(p) /\ Distance(p) \in Int
    BY <1>2, DistanceIs
  <2>2. Distance(p) < mob_used[u.op]
    BY <2>1 DEF PlaceInv
  <2> QED BY <1>2, <2>1, <2>2
<1> QED BY <1>1, <1>2, <1>3, <1>5, <1>6, <1>7, <1>8, <1>9, <1>10, <1>11 DEF NewFacts, n, q

\* The ring of the places, once a memory uop is renamed.
LEMMA RenameRing ==
  ASSUME IInv, RobShape', NEW u \in Uop, NEW s, LinesRenamed(u, s), NewFacts(u, s), PlacesRenamed(u, s)
  PROVE  PlaceInv' /\ OwnerInv' /\ OrderInv'
<1> USE DEF IInv
<1> DEFINE n == Len(u.accesses)
           q == NewPlaces(u)
           new == ToSet(q)
<1>1. /\ u.op \in Memory /\ n \in Nat \ {0} /\ mob_used[u.op] \in Nat
      /\ IsMemory(s)' /\ Kind(s)' = u.op /\ Count(s)' = n /\ Kept(s)' = n
      /\ Rank(s)' = mob_used[u.op] + n - 1
      /\ rob'[s].pos_mob \in 0 .. MOB[u.op] - 1
      /\ \A i \in 0 .. n - 1 : Nth(s, i)' = q[i + 1]
      /\ \A k \in 1 .. n : q[k] \in Place /\ q[k][1] = u.op /\ Distance(q[k]) = mob_used[u.op] + k - 1
      /\ \A x \in new : \E k \in 1 .. n : x = q[k]
      /\ \A p \in Place : p \in new <=> /\ p[1] = u.op /\ mob_used[u.op] <= Distance(p)
                                        /\ Distance(p) < mob_used[u.op] + n
      /\ \A p \in Place : Used(p) => p \notin new
  BY DEF NewFacts
<1>2. /\ mob_used' \in [Memory -> Nat] /\ mob_used'[u.op] = mob_used[u.op] + n
      /\ \A op \in Memory : op # u.op => mob_used'[op] = mob_used[op]
      /\ \A x \in Place : x \notin new =>
           mob'[x].status = mob[x].status /\ mob'[x].rob_ptr = mob[x].rob_ptr /\ mob'[x].access = mob[x].access
      /\ \A k \in 1 .. n : mob'[q[k]].status = "WAIT" /\ mob'[q[k]].rob_ptr = s /\ mob'[q[k]].access = u.accesses[k]
  BY DEF PlacesRenamed
<1>3. s \in Slot /\ ~Busy(s) /\ rob'[s].uop = u
  BY DEF LinesRenamed
<1>4. /\ \A p : Distance(p)' = Distance(p)
      /\ \A x \in Slot : x # s =>
              /\ Busy(x)' = Busy(x) /\ IsMemory(x)' = IsMemory(x) /\ Kind(x)' = Kind(x) /\ Count(x)' = Count(x)
              /\ Kept(x)' = Kept(x) /\ Rank(x)' = Rank(x) /\ \A i : Nth(x, i)' = Nth(x, i)
      /\ \A x, y \in Slot : x # s /\ y # s => Before(x, y)' = Before(x, y)
  BY RenamedSame
<1> HIDE DEF n, q, new
<1>5. \A op \in Memory : mob_used[op] \in Nat /\ mob_used'[op] \in Nat
  BY <1>2 DEF MobShape
<1>6. PlaceInv'
  <2> SUFFICES ASSUME NEW p \in Place
               PROVE  /\ Used(p)' <=> Distance(p)' < mob_used'[p[1]]
                      /\ Used(p)' => /\ Owner(p)' \in Slot /\ IsMemory(Owner(p))' /\ Kind(Owner(p))' = p[1]
                                     /\ Rank(Owner(p))' - Kept(Owner(p))' < Distance(p)'
                                     /\ Distance(p)' <= Rank(Owner(p))'
    BY DEF PlaceInv
  <2>1. p[1] \in Memory /\ Distance(p) \in Nat /\ Distance(p)' = Distance(p)
    BY <1>4, PlaceType, DistanceIs
  <2>2. CASE p \in new
    <3>1. PICK k \in 1 .. n : p = q[k]
      BY <1>1, <2>2
    <3>2. Used(p)' /\ Owner(p)' = s
      BY <1>2, <3>1 DEF Used, Owner
    <3>3. p[1] = u.op /\ Distance(p) = mob_used[u.op] + k - 1
      BY <1>1, <3>1
    <3>4. IsMemory(Owner(p))' /\ Kind(Owner(p))' = u.op /\ Kept(Owner(p))' = n
          /\ Rank(Owner(p))' = mob_used[u.op] + n - 1
      <4>1. PICK o : o = Owner(p)'
        OBVIOUS
      <4>2. mob'[p].rob_ptr = s
        BY <3>2 DEF Owner
      <4> QED BY <1>1, <4>2 DEF Owner, IsMemory, Kind, Kept, Rank, Nth, Count, Busy, Distance
    <3> QED BY <1>1, <1>2, <1>3, <2>1, <3>2, <3>3, <3>4
  <2>3. CASE p \notin new
    <3>1. mob'[p].rob_ptr = mob[p].rob_ptr /\ Used(p)' = Used(p)
      BY <1>2, <2>3 DEF Used
    <3>2. Used(p) <=> Distance(p) < mob_used[p[1]]
      BY DEF PlaceInv
    <3>3. Distance(p) < mob_used[p[1]] <=> Distance(p) < mob_used'[p[1]]
      <4>1. CASE p[1] = u.op
        BY <1>1, <1>2, <2>1, <2>3, <4>1
      <4>2. CASE p[1] # u.op
        BY <1>2, <2>1, <4>2
      <4> QED BY <4>1, <4>2
    <3>4. ASSUME Used(p)
          PROVE  /\ Owner(p)' \in Slot /\ IsMemory(Owner(p))' /\ Kind(Owner(p))' = p[1]
                 /\ Rank(Owner(p))' - Kept(Owner(p))' < Distance(p)
                 /\ Distance(p) <= Rank(Owner(p))'
      <4>1. PICK o \in Slot : /\ o = Owner(p) /\ IsMemory(o) /\ Kind(o) = p[1]
                              /\ Rank(o) - Kept(o) < Distance(p) /\ Distance(p) <= Rank(o)
        BY <3>4 DEF PlaceInv
      <4>2. o # s
        BY <1>3, <4>1 DEF IsMemory
      <4>3. IsMemory(o)' /\ Kind(o)' = p[1] /\ Rank(o)' - Kept(o)' < Distance(p) /\ Distance(p) <= Rank(o)'
        BY <1>4, <4>1, <4>2
      <4>4. mob'[p].rob_ptr = o
        BY <3>1, <4>1 DEF Owner
      <4> QED BY <4>3, <4>4 DEF Owner, IsMemory, Kind, Kept, Rank, Nth, Count, Busy, Distance
    <3> QED BY <2>1, <3>1, <3>2, <3>3, <3>4
  <2> QED BY <2>2, <2>3
<1>7. OwnerInv'
  <2> SUFFICES ASSUME NEW x \in Slot, IsMemory(x)'
               PROVE  /\ rob'[x].pos_mob \in 0 .. MOB[Kind(x)'] - 1
                      /\ Kept(x)' \in 0 .. Count(x)'
                      /\ Kept(x)' > 0 => Rank(x)' < mob_used'[Kind(x)'] /\ Kept(x)' <= Rank(x)' + 1
                      /\ \A i \in 0 .. Count(x)' - 1 :
                           Count(x)' - Kept(x)' <= i =>
                             /\ mob'[Nth(x, i)'].rob_ptr = x
                             /\ mob'[Nth(x, i)'].access = rob'[x].uop.accesses[i + 1]
    BY DEF OwnerInv
  <2>1. CASE x = s
    <3>1. ASSUME NEW i \in 0 .. n - 1
          PROVE  mob'[Nth(s, i)'].rob_ptr = s /\ mob'[Nth(s, i)'].access = u.accesses[i + 1]
      <4>1. i + 1 \in 1 .. n /\ Nth(s, i)' = q[i + 1]
        BY <1>1
      <4> QED BY <1>2, <4>1
    <3>2. n \in 0 .. n /\ mob_used[u.op] + n - 1 < mob_used[u.op] + n /\ n <= mob_used[u.op] + n - 1 + 1
      BY <1>1
    <3> QED BY <1>1, <1>2, <1>3, <2>1, <3>1, <3>2
  <2>2. CASE x # s
    <3>1. /\ IsMemory(x) /\ Kind(x)' = Kind(x) /\ Count(x)' = Count(x)
          /\ Kept(x)' = Kept(x) /\ Rank(x)' = Rank(x) /\ \A i : Nth(x, i)' = Nth(x, i)
      BY <1>4, <2>2
    <3>2. rob'[x].uop = rob[x].uop /\ rob'[x].pos_mob = rob[x].pos_mob
      BY <2>2 DEF LinesRenamed
    <3>3. /\ rob[x].pos_mob \in 0 .. MOB[Kind(x)] - 1
          /\ Kept(x) \in 0 .. Count(x)
          /\ Kept(x) > 0 => Rank(x) < mob_used[Kind(x)] /\ Kept(x) <= Rank(x) + 1
      BY <3>1 DEF OwnerInv
    <3>4. Kind(x) \in Memory /\ Rank(x) \in Int
      BY <3>1, MemoryUop
    <3>5. mob_used[Kind(x)] <= mob_used'[Kind(x)]
      BY <1>1, <1>2, <1>5, <3>4
    <3>6. ASSUME NEW i \in 0 .. Count(x) - 1, Count(x) - Kept(x) <= i
          PROVE  mob'[Nth(x, i)].rob_ptr = x /\ mob'[Nth(x, i)].access = rob[x].uop.accesses[i + 1]
      <4>1. /\ Nth(x, i) \in Place /\ Used(Nth(x, i)) /\ Owner(Nth(x, i)) = x
            /\ mob[Nth(x, i)].access = rob[x].uop.accesses[i + 1]
        BY <3>1, <3>6, KeptPlace
      <4>2. Nth(x, i) \notin new
        BY <1>1, <4>1
      <4> QED BY <1>2, <4>1, <4>2 DEF Owner
    <3>7. Kept(x) > 0 => Rank(x) < mob_used'[Kind(x)]
      BY <1>5, <3>3, <3>4, <3>5
    <3> QED BY <3>1, <3>2, <3>3, <3>6, <3>7
  <2> QED BY <2>1, <2>2
<1>8. OrderInv'
  <2> SUFFICES ASSUME NEW x \in Slot, NEW y \in Slot, IsMemory(x)', IsMemory(y)', Kind(x)' = Kind(y)',
                      Kept(x)' > 0, Kept(y)' > 0, Before(x, y)'
               PROVE  Rank(x)' + Kept(y)' <= Rank(y)'
    BY DEF OrderInv
  <2>0. rob'[x].uop_number < rob'[y].uop_number
    BY DEF Before
  <2>1. y = s \/ (Before(y, s)' /\ Busy(y))
    <3>1. y # s => Busy(y)
      BY <1>4 DEF IsMemory
    <3> QED BY <3>1 DEF LinesRenamed
  <2>2. x = s \/ (IsMemory(x) /\ Busy(x))
    BY <1>4 DEF IsMemory
  <2>3. x # s
    <3> SUFFICES ASSUME x = s PROVE FALSE
      OBVIOUS
    <3>1. y # s => rob'[y].uop_number < rob'[s].uop_number
      BY <2>1 DEF Before
    <3>2. rob'[y].uop_number \in Nat /\ rob'[s].uop_number \in Nat
      BY <1>3 DEF RobShape, LineShape
    <3> QED BY <2>0, <3>1, <3>2
  <2>4. IsMemory(x) /\ Kind(x)' = Kind(x) /\ Kept(x)' = Kept(x) /\ Rank(x)' = Rank(x)
    BY <1>4, <2>3
  <2>5. CASE y = s
    <3>1. Rank(x) < mob_used[u.op] /\ Rank(x) \in Int
      <4>1. Kind(x) = u.op
        BY <1>1, <2>4, <2>5
      <4>2. Kept(x) > 0 => Rank(x) < mob_used[Kind(x)]
        BY <2>4 DEF OwnerInv
      <4> QED BY <2>4, <4>1, <4>2, MemoryUop
    <3> QED BY <1>1, <2>4, <2>5, <3>1
  <2>6. CASE y # s
    <3>1. IsMemory(y) /\ Kind(y)' = Kind(y) /\ Kept(y)' = Kept(y) /\ Rank(y)' = Rank(y)
      BY <1>4, <2>6
    <3>2. Before(x, y)
      BY <1>4, <2>3, <2>6
    <3> QED BY <2>4, <3>1, <3>2 DEF OrderInv
  <2> QED BY <2>5, <2>6
<1> QED BY <1>6, <1>7, <1>8

\* The stages, once a uop is renamed.
LEMMA RenameStation ==
  ASSUME StageShape, StageInv, NEW u, NEW s, LinesRenamed(u, s)
  PROVE  /\ unified_reservation_station' \in Seq(Slot)
         /\ \A j \in DOMAIN unified_reservation_station' :
              /\ rob'[unified_reservation_station'[j]].uop # NULL
              /\ rob'[unified_reservation_station'[j]].stage = "RENAME"
         /\ \A i, j \in DOMAIN unified_reservation_station' :
              unified_reservation_station'[i] = unified_reservation_station'[j] => i = j
         /\ \A x \in unified_functional_units' : Busy(x)' /\ rob'[x].stage = "EXECUTION"
<1> DEFINE before == unified_reservation_station
           after == unified_reservation_station'
<1>1. /\ s \in Slot /\ ~Busy(s) /\ Busy(s)' /\ rob'[s].stage = "RENAME"
      /\ after = Append(before, s) /\ unified_functional_units' = unified_functional_units
      /\ \A x \in Slot : x # s => rob'[x].uop = rob[x].uop /\ rob'[x].stage = rob[x].stage
  BY DEF LinesRenamed
<1>2. before \in Seq(Slot) /\ unified_functional_units \subseteq Slot
  BY DEF StageShape
<1>3. \A x \in Slot : Busy(x) => x # s /\ Busy(x)' /\ rob'[x].stage = rob[x].stage
  BY <1>1 DEF Busy
<1>4. \A j \in DOMAIN before : before[j] \in Slot /\ Busy(before[j]) /\ rob[before[j]].stage = "RENAME"
  BY <1>2 DEF StageInv
<1>5. \A i, j \in DOMAIN before : before[i] = before[j] => i = j
  BY DEF StageInv
<1>6. \A x \in unified_functional_units : Busy(x) /\ rob[x].stage = "EXECUTION"
  BY DEF StageInv
<1> HIDE DEF before, after
<1>7. /\ after \in Seq(Slot) /\ Len(before) \in Nat /\ DOMAIN before = 1 .. Len(before)
      /\ DOMAIN after = 1 .. Len(before) + 1
      /\ after[Len(before) + 1] = s /\ \A j \in 1 .. Len(before) : after[j] = before[j]
  BY <1>1, <1>2
<1>8. ASSUME NEW j \in DOMAIN after
      PROVE  j = Len(before) + 1 \/ (j \in DOMAIN before /\ after[j] = before[j])
  BY <1>7
<1>9. \A j \in DOMAIN after :
        /\ after[j] \in Slot /\ rob'[after[j]].uop # NULL /\ rob'[after[j]].stage = "RENAME"
  <2> TAKE j \in DOMAIN after
  <2>1. CASE j = Len(before) + 1
    BY <1>1, <1>7, <2>1 DEF Busy
  <2>2. CASE j \in DOMAIN before /\ after[j] = before[j]
    <3>1. PICK x \in Slot : x = after[j] /\ Busy(x) /\ rob[x].stage = "RENAME"
      BY <1>4, <2>2
    <3>2. rob'[x].uop # NULL /\ rob'[x].stage = "RENAME"
      BY <1>3, <3>1 DEF Busy
    <3> QED BY <3>1, <3>2
  <2> QED BY <1>8, <2>1, <2>2
<1>10. \A i, j \in DOMAIN after : after[i] = after[j] => i = j
  <2> SUFFICES ASSUME NEW i \in DOMAIN after, NEW j \in DOMAIN after, after[i] = after[j] PROVE i = j
    OBVIOUS
  <2>1. \A l \in DOMAIN before : before[l] # s
    BY <1>3, <1>4
  <2>2. after[Len(before) + 1] = s
    BY <1>7
  <2>3. CASE i = Len(before) + 1 /\ j # i
    <3>1. j \in DOMAIN before /\ after[j] = before[j] /\ after[i] = s
      BY <1>8, <2>2, <2>3
    <3> QED BY <2>1, <3>1
  <2>4. CASE j = Len(before) + 1 /\ j # i
    <3>1. i \in DOMAIN before /\ after[i] = before[i] /\ after[j] = s
      BY <1>8, <2>2, <2>4
    <3> QED BY <2>1, <3>1
  <2>5. CASE i # Len(before) + 1 /\ j # Len(before) + 1
    <3>1. i \in DOMAIN before /\ after[i] = before[i] /\ j \in DOMAIN before /\ after[j] = before[j]
      BY <1>8, <2>5
    <3>2. before[i] = before[j]
      BY <3>1
    <3> QED BY <1>5, <3>1, <3>2
  <2> QED BY <2>3, <2>4, <2>5
<1>11. \A x \in unified_functional_units' : Busy(x)' /\ rob'[x].stage = "EXECUTION"
  BY <1>1, <1>2, <1>3, <1>6
<1> QED BY <1>7, <1>9, <1>10, <1>11, Zenon DEF after

\* The new places are as many as the uop has accesses.
LEMMA NewPlacesCount ==
  ASSUME NEW n \in Nat, NEW q, \A k, l \in 1 .. n : q[k] = q[l] => k = l
  PROVE  Cardinality({q[k] : k \in 1 .. n}) = n
<1> DEFINE S == {q[k] : k \in 1 .. n}
           f == [k \in 1 .. n |-> q[k]]
<1>1. f \in [1 .. n -> S] /\ (\A k, l \in 1 .. n : f[k] = f[l] => k = l) /\ (\A x \in S : \E k \in 1 .. n : f[k] = x)
  OBVIOUS
<1>2. f \in Bijection(1 .. n, S)
  BY <1>1 DEF Bijection, Injection, IsInjective, Surjection
<1>3. ExistsBijection(1 .. n, S)
  BY <1>2, Zenon DEF ExistsBijection
<1>4. IsFiniteSet(1 .. n) /\ Cardinality(1 .. n) = n
  BY FS_Interval
<1> HIDE DEF S
<1>5. Cardinality(S) = Cardinality(1 .. n)
  BY <1>3, <1>4, FS_Bijection
<1> QED BY <1>4, <1>5 DEF S

\* The rest of the invariant, once a memory uop is renamed.
LEMMA RenameMemoryUops ==
  ASSUME IInv, NEW u \in Uop, NEW s, LinesRenamed(u, s), NewFacts(u, s), PlacesRenamed(u, s)
  PROVE  StageInv' /\ EntryInv' /\ DoneInv' /\ CountInv' /\ CandidateInv'
<1> USE DEF IInv
<1> DEFINE n == Len(u.accesses)
           q == NewPlaces(u)
           new == ToSet(q)
<1>1. /\ u.op \in Memory /\ n \in Nat \ {0}
      /\ IsMemory(s)' /\ Kind(s)' = u.op /\ Count(s)' = n /\ Kept(s)' = n
      /\ \A i \in 0 .. n - 1 : Nth(s, i)' = q[i + 1]
      /\ \A k \in 1 .. n : q[k] \in Place /\ q[k] \in new
      /\ \A k, l \in 1 .. n : q[k] = q[l] => k = l
      /\ \A x \in new : \E k \in 1 .. n : x = q[k]
      /\ \A p \in Place : Used(p) => p \notin new
  BY DEF NewFacts
<1>2. /\ \A x \in Place : x \notin new =>
           /\ mob'[x].status = mob[x].status /\ mob'[x].rob_ptr = mob[x].rob_ptr
           /\ mob'[x].uop_executed = mob[x].uop_executed
           /\ mob'[x].processed = mob[x].processed /\ mob'[x].sent = mob[x].sent
           /\ mob'[x].wait_mem_deps_number = mob[x].wait_mem_deps_number
      /\ \A k \in 1 .. n :
           /\ mob'[q[k]].status = "WAIT" /\ mob'[q[k]].rob_ptr = s
           /\ mob'[q[k]].uop_executed = FALSE /\ mob'[q[k]].processed = FALSE /\ mob'[q[k]].sent = FALSE
  BY DEF PlacesRenamed
<1>3. /\ s \in Slot /\ ~Busy(s) /\ rob'[s].uop = u /\ rob'[s].stage = "RENAME"
      /\ u.op \in {"LOAD", "STORE"} => rob'[s].waiting_mem_request = n
      /\ \A x \in Slot : x # s => /\ rob'[x].stage = rob[x].stage /\ rob'[x].sent = rob[x].sent
                                  /\ rob'[x].waiting_mem_request = rob[x].waiting_mem_request
      /\ unified_functional_units' = unified_functional_units /\ mob_start' = mob_start
      /\ memory_executed' = memory_executed /\ oldest_to_send' = oldest_to_send
  BY DEF LinesRenamed
<1>4. /\ \A p : Distance(p)' = Distance(p)
      /\ \A x \in Slot : x # s =>
              /\ Busy(x)' = Busy(x) /\ IsMemory(x)' = IsMemory(x) /\ Kind(x)' = Kind(x) /\ Count(x)' = Count(x)
              /\ Kept(x)' = Kept(x) /\ \A i : Nth(x, i)' = Nth(x, i)
  BY RenamedSame
<1> HIDE DEF n, q, new
<1>5. \A x \in new : /\ x \in Place /\ ~Used(x)
                     /\ mob'[x].status = "WAIT" /\ mob'[x].rob_ptr = s
                     /\ mob'[x].uop_executed = FALSE /\ mob'[x].processed = FALSE /\ mob'[x].sent = FALSE
  BY <1>1, <1>2
<1>6. \A p \in Place : Used(p) => Owner(p) \in Slot /\ Owner(p) # s /\ mob'[p].rob_ptr = Owner(p)
  <2> SUFFICES ASSUME NEW p \in Place, Used(p) PROVE Owner(p) \in Slot /\ Owner(p) # s /\ mob'[p].rob_ptr = Owner(p)
    OBVIOUS
  <2>1. Owner(p) \in Slot /\ IsMemory(Owner(p))
    BY OwnedPlace
  <2>2. Owner(p) # s
    BY <1>3, <2>1 DEF IsMemory
  <2>3. p \notin new
    BY <1>1
  <2> QED BY <1>2, <2>1, <2>2, <2>3 DEF Owner
<1>7. StageInv'
  <2>1. /\ \A j \in DOMAIN unified_reservation_station' :
              /\ rob'[unified_reservation_station'[j]].uop # NULL
              /\ rob'[unified_reservation_station'[j]].stage = "RENAME"
        /\ \A i, j \in DOMAIN unified_reservation_station' :
              unified_reservation_station'[i] = unified_reservation_station'[j] => i = j
        /\ \A x \in unified_functional_units' : Busy(x)' /\ rob'[x].stage = "EXECUTION"
    BY RenameStation
  <2>2. ASSUME NEW x \in Slot, IsMemory(x)', Waiting(x)'
        PROVE  /\ Kind(x)' = "STORE" => Kept(x)' = Count(x)'
               /\ \A p \in Place : Used(p)' /\ mob'[p].rob_ptr = x => ~mob'[p].uop_executed
    <3>1. CASE x = s
      <4>1. ASSUME NEW p \in Place, Used(p)', mob'[p].rob_ptr = s PROVE ~mob'[p].uop_executed
        <5>1. p \in new
          <6> SUFFICES ASSUME p \notin new PROVE FALSE
            OBVIOUS
          <6>1. Used(p) /\ Owner(p) = s
            BY <1>2, <4>1 DEF Used, Owner
          <6> QED BY <1>6, <6>1
        <5> QED BY <1>5, <5>1
      <4> QED BY <1>1, <3>1, <4>1
    <3>2. CASE x # s
      <4>1. IsMemory(x) /\ Kind(x)' = Kind(x) /\ Count(x)' = Count(x) /\ Kept(x)' = Kept(x)
        BY <1>4, <2>2, <3>2
      <4>2. Waiting(x)
        BY <1>3, <2>2, <3>2 DEF Waiting
      <4>3. /\ Kind(x) = "STORE" => Kept(x) = Count(x)
            /\ \A p \in Place : Used(p) /\ Owner(p) = x => ~mob[p].uop_executed
        BY <4>1, <4>2 DEF StageInv
      <4>4. ASSUME NEW p \in Place, Used(p)', mob'[p].rob_ptr = x PROVE ~mob'[p].uop_executed
        <5>1. CASE p \in new
          BY <1>5, <5>1
        <5>2. CASE p \notin new
          <6>1. Used(p) /\ Owner(p) = x
            BY <1>2, <4>4, <5>2 DEF Used, Owner
          <6> QED BY <1>2, <4>3, <5>2, <6>1
        <5> QED BY <5>1, <5>2
      <4> QED BY <4>1, <4>3, <4>4
    <3> QED BY <3>1, <3>2
  <2> QED BY <2>1, <2>2 DEF StageInv, Busy, Owner
<1>8. EntryInv'
  <2> SUFFICES ASSUME NEW p \in Place PROVE EntryOK(p)'
    BY DEF EntryInv
  <2>1. CASE p \in new
    BY <1>5, <2>1 DEF EntryOK, Used
  <2>2. CASE p \notin new
    <3>1. EntryOK(p)
      BY DEF EntryInv
    <3>2. Used(p)' = Used(p)
      BY <1>2, <2>2 DEF Used
    <3>3. Used(p) => rob'[mob'[p].rob_ptr].sent = rob[Owner(p)].sent
      BY <1>3, <1>6
    <3> QED BY <1>2, <2>2, <3>1, <3>2, <3>3 DEF EntryOK, Owner
  <2> QED BY <2>1, <2>2
<1>9. Open(s)' = new
  <2>1. ASSUME NEW p \in Place, Used(p)', mob'[p].rob_ptr = s PROVE p \in new
    <3> SUFFICES ASSUME p \notin new PROVE FALSE
      OBVIOUS
    <3>1. Used(p) /\ Owner(p) = s
      BY <1>2, <2>1 DEF Used, Owner
    <3> QED BY <1>6, <3>1
  <2>2. \A p \in new : p \in Place /\ Used(p)' /\ mob'[p].rob_ptr = s /\ ~mob'[p].processed
    BY <1>5 DEF Used
  <2> QED BY <2>1, <2>2 DEF Open, Owner
<1>10. Cardinality(new) = n
  <2>1. new = {q[k] : k \in 1 .. n}
    BY <1>1
  <2>2. Cardinality({q[k] : k \in 1 .. n}) = n
    BY <1>1, NewPlacesCount
  <2> QED BY <2>1, <2>2
<1>11. DoneInv'
  <2> SUFFICES ASSUME NEW x \in Slot, IsMemory(x)'
               PROVE  /\ Kind(x)' \in {"LOAD", "STORE"} =>
                           (rob'[x].stage = "COMMIT" <=> rob'[x].waiting_mem_request = 0)
                      /\ Kind(x)' = "LOAD" => rob'[x].waiting_mem_request = Cardinality(Open(x)')
                      /\ Kind(x)' \in {"HIVE", "VIMA"} => (rob'[x].stage = "COMMIT" <=> mob'[Nth(x, 0)'].processed)
    BY DEF DoneInv
  <2>1. CASE x = s
    <3>1. Cardinality(Open(x)') = n
      BY <1>9, <1>10, <2>1
    <3>2. ~mob'[Nth(s, 0)'].processed
      <4>1. 0 \in 0 .. n - 1 /\ 0 + 1 = 1 /\ 1 \in 1 .. n
        BY <1>1
      <4>2. Nth(s, 0)' = q[1]
        BY <1>1, <4>1
      <4> QED BY <1>2, <4>1, <4>2
    <3> QED BY <1>1, <1>3, <2>1, <3>1, <3>2
  <2>2. CASE x # s
    <3>1. IsMemory(x) /\ Kind(x)' = Kind(x) /\ Nth(x, 0)' = Nth(x, 0)
      BY <1>4, <2>2
    <3>2. Open(x)' = Open(x)
      <4>1. \A p \in Place : Used(p)' /\ mob'[p].rob_ptr = x /\ ~mob'[p].processed
                             <=> Used(p) /\ mob[p].rob_ptr = x /\ ~mob[p].processed
        <5> TAKE p \in Place
        <5>1. CASE p \in new
          BY <1>5, <2>2, <5>1
        <5>2. CASE p \notin new
          BY <1>2, <5>2 DEF Used
        <5> QED BY <5>1, <5>2
      <4> QED BY <4>1 DEF Open, Owner
    <3>3. /\ Kind(x) \in {"LOAD", "STORE"} => (rob[x].stage = "COMMIT" <=> rob[x].waiting_mem_request = 0)
          /\ Kind(x) = "LOAD" => rob[x].waiting_mem_request = Cardinality(Open(x))
          /\ Kind(x) \in {"HIVE", "VIMA"} => (rob[x].stage = "COMMIT" <=> mob[Nth(x, 0)].processed)
      BY <3>1 DEF DoneInv
    <3>4. Kind(x) \in {"HIVE", "VIMA"} => mob'[Nth(x, 0)].processed = mob[Nth(x, 0)].processed
      <4> HAVE Kind(x) \in {"HIVE", "VIMA"}
      <4>1. Count(x) \in Nat \ {0} /\ Kept(x) = Count(x)
        BY <3>1, MemoryUop DEF Kept
      <4>2. 0 \in 0 .. Count(x) - 1 /\ Count(x) - Kept(x) <= 0
        BY <4>1
      <4>3. Nth(x, 0) \in Place /\ Used(Nth(x, 0))
        BY <3>1, <4>2, KeptPlace
      <4>4. Nth(x, 0) \notin new
        BY <1>1, <4>3
      <4> QED BY <1>2, <4>3, <4>4
    <3> QED BY <1>3, <2>2, <3>1, <3>2, <3>3, <3>4
  <2> QED BY <2>1, <2>2
<1>12. CountInv'
  <2>1. \A p \in Place : mob'[p].uop_executed /\ ~mob'[p].processed <=> mob[p].uop_executed /\ ~mob[p].processed
    <3> TAKE p \in Place
    <3>1. CASE p \in new
      <4>1. ~Used(p)
        BY <1>5, <3>1
      <4>2. ~mob[p].uop_executed
        BY <4>1 DEF EntryInv, EntryOK
      <4> QED BY <1>5, <3>1, <4>2
    <3>2. CASE p \notin new
      BY <1>2, <3>2
    <3> QED BY <3>1, <3>2
  <2>2. \A op \in Memory : ExecutedOf(op)' = ExecutedOf(op)
    BY <2>1 DEF ExecutedOf
  <2> QED BY <1>3, <2>2 DEF CountInv
<1>13. CandidateInv'
  <2>1. \A p \in Place : p = oldest_to_send'[p[1]] /\ Sendable(p) => Sendable(p)'
    <3> SUFFICES ASSUME NEW p \in Place, Sendable(p) PROVE Sendable(p)'
      OBVIOUS
    <3>1. Used(p)
      BY DEF Sendable, Used
    <3>2. p \notin new
      BY <1>1, <3>1
    <3> QED BY <1>2, <3>2 DEF Sendable
  <2>2. mob_start' = mob_start /\ \A op \in Memory : oldest_to_send'[op] # NULL => oldest_to_send'[op] = oldest_to_send[op]
    BY <1>3
  <2> QED BY <2>1, <2>2, CandidatesKept
<1> QED BY <1>7, <1>8, <1>11, <1>12, <1>13

\* Rename of a uop that is not a memory operation.
LEMMA RenameAluUops ==
  ASSUME IInv, NEW u \in Uop, u.op \notin Memory, rename(u), NEW s, s = robEnd
  PROVE  /\ MobShape' /\ PlaceInv' /\ OwnerInv' /\ OrderInv'
         /\ StageInv' /\ EntryInv' /\ DoneInv' /\ CountInv' /\ CandidateInv'
         /\ PlaceWaitInv' /\ TableInv'
<1> USE DEF IInv
<1>1. LinesRenamed(u, s)
  BY RenamedLines
<1>2. UNCHANGED mobVars
  BY DEF rename, mobVars, Memory
<1>3. MobShape' /\ PlaceWaitInv' /\ TableInv' /\ PlaceFrame /\ \A p \in Place : mob'[p] = mob[p]
  BY <1>2, MobUnchanged
<1>4. /\ s \in Slot /\ ~Busy(s) /\ rob'[s].uop = u
      /\ \A x \in Slot : x # s => /\ rob'[x].stage = rob[x].stage /\ rob'[x].sent = rob[x].sent
                                  /\ rob'[x].waiting_mem_request = rob[x].waiting_mem_request
                                  /\ rob'[x].pos_mob = rob[x].pos_mob /\ rob'[x].uop = rob[x].uop
      /\ unified_functional_units' = unified_functional_units /\ mob_start' = mob_start
      /\ memory_executed' = memory_executed /\ oldest_to_send' = oldest_to_send
  BY <1>1 DEF LinesRenamed
<1>5. mob' = mob /\ mob_used' = mob_used
  BY <1>2 DEF mobVars
<1>6. /\ \A p : Distance(p)' = Distance(p)
      /\ \A x \in Slot : x # s =>
              /\ Busy(x)' = Busy(x) /\ IsMemory(x)' = IsMemory(x) /\ Kind(x)' = Kind(x) /\ Count(x)' = Count(x)
              /\ Kept(x)' = Kept(x) /\ Rank(x)' = Rank(x) /\ \A i : Nth(x, i)' = Nth(x, i)
      /\ \A x, y \in Slot : x # s /\ y # s => Before(x, y)' = Before(x, y)
  BY <1>1, RenamedSame
<1>7. \A x \in Slot : IsMemory(x)' => x # s /\ IsMemory(x)
  BY <1>4, <1>6 DEF IsMemory
<1>8. \A p \in Place : /\ Used(p)' = Used(p)
                       /\ Used(p) => Owner(p) \in Slot /\ Owner(p) # s /\ IsMemory(Owner(p))
  <2>1. \A p \in Place : Used(p)' = Used(p)
    BY <1>5 DEF Used
  <2>2. ASSUME NEW p \in Place, Used(p) PROVE Owner(p) \in Slot /\ Owner(p) # s /\ IsMemory(Owner(p))
    <3>1. Owner(p) \in Slot /\ IsMemory(Owner(p))
      BY <2>2, OwnedPlace
    <3>2. Owner(p) # s
      BY <1>4, <3>1 DEF IsMemory
    <3> QED BY <3>1, <3>2
  <2> QED BY <2>1, <2>2
<1>9. PlaceInv'
  <2> SUFFICES ASSUME NEW p \in Place
               PROVE  /\ Used(p)' <=> Distance(p)' < mob_used'[p[1]]
                      /\ Used(p)' => /\ mob'[p].rob_ptr \in Slot /\ IsMemory(Owner(p))' /\ Kind(Owner(p))' = p[1]
                                     /\ Rank(Owner(p))' - Kept(Owner(p))' < Distance(p)'
                                     /\ Distance(p)' <= Rank(Owner(p))'
    BY DEF PlaceInv, Owner
  <2>1. Used(p)' = Used(p) /\ Distance(p)' = Distance(p) /\ (Used(p) <=> Distance(p) < mob_used[p[1]])
    BY <1>6, <1>8 DEF PlaceInv
  <2>2. ASSUME Used(p)
        PROVE  /\ mob'[p].rob_ptr \in Slot /\ IsMemory(Owner(p))' /\ Kind(Owner(p))' = p[1]
               /\ Rank(Owner(p))' - Kept(Owner(p))' < Distance(p)
               /\ Distance(p) <= Rank(Owner(p))'
    <3>1. PICK o \in Slot : /\ o = mob[p].rob_ptr /\ IsMemory(o) /\ Kind(o) = p[1]
                            /\ Rank(o) - Kept(o) < Distance(p) /\ Distance(p) <= Rank(o)
      BY <2>2 DEF PlaceInv, Owner
    <3>2. o # s
      BY <1>4, <3>1 DEF IsMemory
    <3>3. IsMemory(o)' /\ Kind(o)' = p[1] /\ Rank(o)' - Kept(o)' < Distance(p) /\ Distance(p) <= Rank(o)'
      BY <1>6, <3>1, <3>2
    <3>4. mob'[p].rob_ptr = o
      BY <1>5, <3>1
    <3> QED BY <3>3, <3>4 DEF Owner, IsMemory, Kind, Kept, Rank, Nth, Count, Busy, Distance
  <2> QED BY <1>5, <2>1, <2>2
<1>10. OwnerInv'
  <2> SUFFICES ASSUME NEW x \in Slot, IsMemory(x)'
               PROVE  /\ rob'[x].pos_mob \in 0 .. MOB[Kind(x)'] - 1
                      /\ Kept(x)' \in 0 .. Count(x)'
                      /\ Kept(x)' > 0 => Rank(x)' < mob_used'[Kind(x)'] /\ Kept(x)' <= Rank(x)' + 1
                      /\ \A i \in 0 .. Count(x)' - 1 :
                           Count(x)' - Kept(x)' <= i =>
                             /\ mob'[Nth(x, i)'].rob_ptr = x
                             /\ mob'[Nth(x, i)'].access = rob'[x].uop.accesses[i + 1]
    BY DEF OwnerInv
  <2>1. x # s /\ IsMemory(x)
    BY <1>7
  <2>2. /\ Kind(x)' = Kind(x) /\ Count(x)' = Count(x)
        /\ Kept(x)' = Kept(x) /\ Rank(x)' = Rank(x) /\ \A i : Nth(x, i)' = Nth(x, i)
    BY <1>6, <2>1
  <2>3. rob'[x].pos_mob = rob[x].pos_mob /\ rob'[x].uop = rob[x].uop
    BY <1>4, <2>1
  <2> QED BY <1>5, <2>1, <2>2, <2>3 DEF OwnerInv
<1>11. OrderInv'
  <2> SUFFICES ASSUME NEW x \in Slot, NEW y \in Slot, IsMemory(x)', IsMemory(y)', Kind(x)' = Kind(y)',
                      Kept(x)' > 0, Kept(y)' > 0, Before(x, y)'
               PROVE  Rank(x)' + Kept(y)' <= Rank(y)'
    BY DEF OrderInv
  <2>1. x # s /\ IsMemory(x) /\ y # s /\ IsMemory(y)
    BY <1>7
  <2>2. /\ Kind(x)' = Kind(x) /\ Kept(x)' = Kept(x) /\ Rank(x)' = Rank(x)
        /\ Kind(y)' = Kind(y) /\ Kept(y)' = Kept(y) /\ Rank(y)' = Rank(y) /\ Before(x, y)
    BY <1>6, <2>1
  <2> QED BY <2>1, <2>2 DEF OrderInv
<1>12. StageInv'
  <2>1. /\ \A j \in DOMAIN unified_reservation_station' :
              /\ rob'[unified_reservation_station'[j]].uop # NULL
              /\ rob'[unified_reservation_station'[j]].stage = "RENAME"
        /\ \A i, j \in DOMAIN unified_reservation_station' :
              unified_reservation_station'[i] = unified_reservation_station'[j] => i = j
        /\ \A x \in unified_functional_units' : Busy(x)' /\ rob'[x].stage = "EXECUTION"
    BY <1>1, RenameStation
  <2>2. ASSUME NEW x \in Slot, IsMemory(x)', Waiting(x)'
        PROVE  /\ Kind(x)' = "STORE" => Kept(x)' = Count(x)'
               /\ \A p \in Place : Used(p)' /\ mob'[p].rob_ptr = x => ~mob'[p].uop_executed
    <3>1. x # s /\ IsMemory(x)
      BY <1>7, <2>2
    <3>2. Kind(x)' = Kind(x) /\ Count(x)' = Count(x) /\ Kept(x)' = Kept(x)
      BY <1>6, <3>1
    <3>3. Waiting(x)
      BY <1>4, <2>2, <3>1 DEF Waiting
    <3>4. /\ Kind(x) = "STORE" => Kept(x) = Count(x)
          /\ \A p \in Place : Used(p) /\ mob[p].rob_ptr = x => ~mob[p].uop_executed
      BY <3>1, <3>3 DEF StageInv, Owner
    <3> QED BY <1>5, <3>2, <3>4 DEF Used
  <2> QED BY <2>1, <2>2 DEF StageInv, Busy, Owner
<1>13. EntryInv'
  <2> SUFFICES ASSUME NEW p \in Place PROVE EntryOK(p)'
    BY DEF EntryInv
  <2>1. EntryOK(p)
    BY DEF EntryInv
  <2>2. Used(p) => rob'[mob[p].rob_ptr].sent = rob[mob[p].rob_ptr].sent
    BY <1>4, <1>8 DEF Owner
  <2> QED BY <1>5, <2>1, <2>2 DEF EntryOK, Owner, Used
<1>14. DoneInv'
  <2> SUFFICES ASSUME NEW x \in Slot, IsMemory(x)'
               PROVE  /\ Kind(x)' \in {"LOAD", "STORE"} =>
                           (rob'[x].stage = "COMMIT" <=> rob'[x].waiting_mem_request = 0)
                      /\ Kind(x)' = "LOAD" => rob'[x].waiting_mem_request = Cardinality(Open(x)')
                      /\ Kind(x)' \in {"HIVE", "VIMA"} => (rob'[x].stage = "COMMIT" <=> mob'[Nth(x, 0)'].processed)
    BY DEF DoneInv
  <2>1. x # s /\ IsMemory(x)
    BY <1>7
  <2>2. Kind(x)' = Kind(x) /\ Nth(x, 0)' = Nth(x, 0)
    BY <1>6, <2>1
  <2>3. Open(x)' = Open(x)
    BY <1>5 DEF Open, Owner, Used
  <2>4. /\ Kind(x) \in {"LOAD", "STORE"} => (rob[x].stage = "COMMIT" <=> rob[x].waiting_mem_request = 0)
        /\ Kind(x) = "LOAD" => rob[x].waiting_mem_request = Cardinality(Open(x))
        /\ Kind(x) \in {"HIVE", "VIMA"} => (rob[x].stage = "COMMIT" <=> mob[Nth(x, 0)].processed)
    BY <2>1 DEF DoneInv
  <2>5. rob'[x].stage = rob[x].stage /\ rob'[x].waiting_mem_request = rob[x].waiting_mem_request
    BY <1>4, <2>1
  <2> QED BY <1>5, <2>2, <2>3, <2>4, <2>5
<1>15. CountInv'
  BY <1>4, <1>5, CountKept
<1>16. CandidateInv'
  <2>1. \A p \in Place : p = oldest_to_send'[p[1]] /\ Sendable(p) => Sendable(p)'
    BY <1>5 DEF Sendable
  <2> QED BY <1>4, <2>1, CandidatesKept
<1> QED BY <1>3, <1>9, <1>10, <1>11, <1>12, <1>13, <1>14, <1>15, <1>16

LEMMA RenameKeeps ==
  ASSUME IInv, NEW u \in Uop, rename(u)
  PROVE  IInv'
<1> USE DEF IInv
<1>1. PICK s : s = robEnd
  OBVIOUS
<1>2. RobShape' /\ RobInv' /\ LineWaitInv' /\ AliasInv' /\ register_alias_table' \in [Register -> Slot \cup {NULL}]
  BY <1>1, RenameRob
<1>3. LinesRenamed(u, s)
  BY <1>1, RenamedLines
<1>4. StageShape'
  <2>1. unified_reservation_station' \in Seq(Slot)
    BY <1>3, RenameStation
  <2> QED BY <1>2, <1>3, <2>1 DEF StageShape, LinesRenamed
<1>5. CASE u.op \in Memory
  <2>1. NewFacts(u, s)
    BY <1>1, <1>5, NewUop
  <2>2. MobShape' /\ PlaceWaitInv' /\ TableInv' /\ PlacesRenamed(u, s)
    BY <1>1, <1>5, RenameMob
  <2>3. PlaceInv' /\ OwnerInv' /\ OrderInv'
    BY <1>2, <1>3, <2>1, <2>2, RenameRing
  <2>4. StageInv' /\ EntryInv' /\ DoneInv' /\ CountInv' /\ CandidateInv'
    BY <1>3, <2>1, <2>2, RenameMemoryUops
  <2> QED BY <1>2, <1>4, <2>2, <2>3, <2>4, Zenon
<1>6. CASE u.op \notin Memory
  <2>1. /\ MobShape' /\ PlaceInv' /\ OwnerInv' /\ OrderInv'
        /\ StageInv' /\ EntryInv' /\ DoneInv' /\ CountInv' /\ CandidateInv'
        /\ PlaceWaitInv' /\ TableInv'
    BY <1>1, <1>6, RenameAluUops
  <2> QED BY <1>2, <1>4, <2>1, Zenon
<1> QED BY <1>5, <1>6

-----------------------------------------------------------------------------
(* Every step keeps the invariant.                                         *)

\* Nothing points to anything in the arrays of the initial state.
LEMMA EmptyArraysAgree ==
  \A X : IsFiniteSet(X) =>
    \A arrays, waits : (\A x \in X : arrays[x] = <<>> /\ waits[x] = 0) => Agree(X, arrays, waits)
<1> SUFFICES ASSUME NEW X, IsFiniteSet(X), NEW arrays, NEW waits, \A x \in X : arrays[x] = <<>> /\ waits[x] = 0
             PROVE  Agree(X, arrays, waits)
  OBVIOUS
<1>1. Len(<<>>) = 0 /\ ROB_SIZE \in Nat
  BY RobSize
<1>2. \A x \in X : PointersTo(X, arrays, x) = {}
  <2> SUFFICES ASSUME NEW x \in X, NEW y \in PointersTo(X, arrays, x) PROVE FALSE
    OBVIOUS
  <2>1. PICK z \in X, j \in 1 .. ROB_SIZE : y = <<z, j>>
    BY DEF PointersTo
  <2>2. j <= Len(arrays[z])
    BY <2>1 DEF PointersTo
  <2>3. j <= 0 /\ j >= 1
    BY <1>1, <2>2
  <2> QED BY <1>1, <2>3
<1>3. Cardinality({}) = 0
  BY FS_EmptySet
<1>4. \A x \in X : Len(arrays[x]) <= ROB_SIZE
  BY <1>1
<1> QED BY <1>2, <1>3, <1>4 DEF Agree

LEMMA InitialInv == Init => IInv
<1> SUFFICES ASSUME Init PROVE IInv
  OBVIOUS
<1>1. ROB_SIZE \in Nat \ {0} /\ MAX_UOPS \in Nat
  BY RobSize, SizesAssumption
<1>2. /\ rob = [s \in Slot |-> CleanLine(<<>>)] /\ robStart = 0 /\ robUsed = 0
      /\ register_alias_table = [r \in Register |-> NULL]
      /\ unified_reservation_station = <<>> /\ unified_functional_units = {}
      /\ mob = [p \in Place |-> CleanEntry(<<>>)]
      /\ mob_start = [op \in Memory |-> 0] /\ mob_used = [op \in Memory |-> 0]
      /\ load_hash = [b \in 0 .. LOAD_HASH_SIZE - 1 |-> NULL]
      /\ store_hash = [b \in 0 .. STORE_HASH_SIZE - 1 |-> NULL]
      /\ memory_executed = [op \in Memory |-> 0] /\ oldest_to_send = [op \in Memory |-> NULL]
      /\ renameCounter = 0
  BY DEF Init
<1>3. PICK c : c = CleanLine(<<>>)
  OBVIOUS
<1>4. /\ c \in LineShape /\ c.uop = NULL /\ c.stage = "DECODE" /\ c.sent = FALSE
      /\ c.wait_reg_deps_number = 0 /\ c.reg_deps_ptr_array = <<>>
  <2>1. <<>> \in Seq(Slot)
    OBVIOUS
  <2> QED BY <1>3, <2>1 DEF CleanLine, LineShape
<1>5. PICK e : e = CleanEntry(<<>>)
  OBVIOUS
<1>6. /\ e \in EntryShape /\ e.status = "FREE" /\ e.rob_ptr = NULL /\ e.access = NULL
      /\ e.uop_executed = FALSE /\ e.processed = FALSE /\ e.sent = FALSE
      /\ e.wait_mem_deps_number = 0 /\ e.mem_deps_ptr_array = <<>>
  <2>1. <<>> \in Seq(Place)
    OBVIOUS
  <2> QED BY <1>5, <2>1, CleanEntryIs
<1>7. \A s \in Slot : rob[s] = c
  BY <1>2, <1>3
<1>8. \A p \in Place : mob[p] = e
  BY <1>2, <1>5
<1>9. \A s \in Slot : ~Busy(s) /\ ~IsMemory(s)
  BY <1>4, <1>7 DEF Busy, IsMemory
<1>10. \A p \in Place : ~Used(p)
  BY <1>6, <1>8 DEF Used
<1>11. RobShape
  <2>1. rob \in [Slot -> LineShape]
    BY <1>2, <1>3, <1>4
  <2> QED BY <1>1, <1>2, <2>1 DEF RobShape, Slot
<1>12. MobShape
  <2>1. mob \in [Place -> EntryShape]
    BY <1>2, <1>5, <1>6
  <2>2. \A op \in Memory : MOB[op] \in Nat
    BY MobSize
  <2>3. mob_start \in [Memory -> Nat] /\ mob_used \in [Memory -> Nat]
    BY <1>2
  <2>4. \A op \in Memory : mob_used[op] <= MOB[op] /\ (MOB[op] /= 0 => mob_start[op] < MOB[op])
    BY <1>2, <2>2
  <2>5. /\ load_hash \in [0 .. LOAD_HASH_SIZE - 1 -> Place \cup {NULL}]
        /\ store_hash \in [0 .. STORE_HASH_SIZE - 1 -> Place \cup {NULL}]
    BY <1>2
  <2> QED BY <2>1, <2>3, <2>4, <2>5 DEF MobShape
<1>13. StageShape
  <2>1. <<>> \in Seq(Slot)
    OBVIOUS
  <2> QED BY <1>2, <2>1 DEF StageShape
<1>14. RobInv
  <2>1. \A s \in Slot : Age(s) \in Nat
    BY <1>1, <1>11, AgeIs
  <2> QED BY <1>2, <1>4, <1>7, <1>9, <2>1 DEF RobInv
<1>15. PlaceInv
  <2>1. \A p \in Place : p[1] \in Memory /\ Distance(p) \in Nat
    BY <1>12, PlaceType, DistanceIs
  <2> QED BY <1>2, <1>10, <2>1 DEF PlaceInv
<1>16. OwnerInv /\ OrderInv
  BY <1>9 DEF OwnerInv, OrderInv
<1>17. StageInv
  BY <1>2, <1>9 DEF StageInv
<1>18. EntryInv
  BY <1>6, <1>8, <1>10 DEF EntryInv, EntryOK
<1>19. DoneInv
  BY <1>9 DEF DoneInv
<1>20. CountInv
  <2>1. \A op \in Memory : ExecutedOf(op) = {}
    BY <1>6, <1>8 DEF ExecutedOf
  <2> QED BY <1>2, <2>1, FS_EmptySet DEF CountInv
<1>21. CandidateInv
  BY <1>2 DEF CandidateInv
<1>22. LineWaitInv
  <2>1. \A s \in Slot : RegDeps(rob)[s] = <<>> /\ RegWaits(rob)[s] = 0
    BY <1>4, <1>7 DEF RegDeps, RegWaits
  <2>2. Agree(Slot, RegDeps(rob), RegWaits(rob))
    BY <2>1, SlotFinite, EmptyArraysAgree, Zenon
  <2> QED BY <1>4, <1>7, <2>2 DEF LineWaitInv
<1>23. PlaceWaitInv
  <2>1. \A p \in Place : MemDeps(mob)[p] = <<>> /\ MemWaits(mob)[p] = 0
    BY <1>6, <1>8 DEF MemDeps, MemWaits
  <2>2. Agree(Place, MemDeps(mob), MemWaits(mob))
    BY <2>1, PlaceFinite, EmptyArraysAgree, Zenon
  <2> QED BY <1>6, <1>8, <2>2 DEF PlaceWaitInv
<1>24. TableInv
  BY <1>2 DEF TableInv
<1>25. AliasInv
  BY <1>2, <1>9 DEF AliasInv, Unnamed
<1> QED BY <1>11, <1>12, <1>13, <1>14, <1>15, <1>16, <1>17, <1>18, <1>19, <1>20, <1>21, <1>22, <1>23, <1>24,
           <1>25, Zenon DEF IInv

LEMMA ExecuteKeeps ==
  ASSUME IInv, NEW s \in unified_functional_units, execute(s)
  PROVE  IInv'
<1>1. CASE rob[s].uop.op \in Memory
  BY <1>1, ExecuteMemoryKeeps
<1>2. CASE rob[s].uop.op \notin Memory
  BY <1>2, ExecuteAluKeeps
<1> QED BY <1>1, <1>2

LEMMA StutterKeeps == IInv /\ UNCHANGED vars => IInv'
<1> SUFFICES ASSUME IInv, UNCHANGED vars PROVE IInv'
  OBVIOUS
<1>1. /\ rob' = rob /\ robStart' = robStart /\ robUsed' = robUsed
      /\ register_alias_table' = register_alias_table
      /\ unified_reservation_station' = unified_reservation_station
      /\ unified_functional_units' = unified_functional_units
      /\ mob' = mob /\ mob_start' = mob_start /\ mob_used' = mob_used
      /\ load_hash' = load_hash /\ store_hash' = store_hash
      /\ memory_executed' = memory_executed /\ oldest_to_send' = oldest_to_send
      /\ renameCounter' = renameCounter
  BY DEF vars, robVars, stationVars, mobVars, sendVars
<1>2. /\ RobShape' /\ RobInv' /\ LineWaitInv' /\ AliasInv'
  BY <1>1, Zenon DEF IInv, RobShape, RobInv, LineWaitInv, AliasInv, Busy, Age, Pending, Named, Unnamed, Writes, Before
<1>3. MobShape' /\ StageShape'
  BY <1>1, Zenon DEF IInv, MobShape, StageShape
<1>4. RobFrame /\ PlaceFrame /\ StoreFrame
  BY <1>1 DEF RobFrame, PlaceFrame, StoreFrame, Used
<1>7. PlaceInv' /\ OwnerInv' /\ OrderInv'
  BY <1>4, FrameKeepsPlaces DEF IInv
<1>9. StageInv'
  <2>1. /\ unified_functional_units' \subseteq unified_functional_units
        /\ \A s \in Slot : StaysWaiting(s) => rob'[s].stage = rob[s].stage
        /\ \A s \in Slot : rob'[s].stage = "RENAME" => rob[s].stage = "RENAME"
        /\ \A p \in Place : Used(p) /\ mob'[p].uop_executed =>
             mob[p].uop_executed \/ ~StaysWaiting(Owner(p))
    BY <1>1
  <2> QED BY <1>1, <1>4, <2>1, StagesKept DEF IInv
<1>10. EntryInv'
  BY <1>1, Zenon DEF IInv, EntryInv, EntryOK, Used, Owner
<1>11. DoneInv'
  BY <1>1, Zenon DEF IInv, DoneInv, Used, Owner, IsMemory, Kind, Nth, Busy, Open
<1>6. CountInv' /\ CandidateInv' /\ PlaceWaitInv' /\ TableInv'
  BY <1>1, Zenon DEF IInv, CountInv, ExecutedOf, CandidateInv, Used, Sendable, Distance, PlaceWaitInv, TableInv
<1> QED BY <1>2, <1>3, <1>4, <1>6, <1>7, <1>9, <1>10, <1>11, Zenon DEF IInv

LEMMA NextKeeps == IInv /\ [Next]_vars => IInv'
<1> SUFFICES ASSUME IInv, [Next]_vars PROVE IInv'
  OBVIOUS
<1>1. ASSUME NEW u \in Uop, rename(u) PROVE IInv'
  BY <1>1, RenameKeeps
<1>2. ASSUME NEW k \in DOMAIN unified_reservation_station, dispatch(k) PROVE IInv'
  BY <1>2, DispatchKeeps
<1>3. ASSUME NEW s \in unified_functional_units, execute(s) PROVE IInv'
  BY <1>3, ExecuteKeeps
<1>4. ASSUME NEW op \in Memory, mob_unavailable(op) PROVE IInv'
  BY <1>4, UnavailableKeeps
<1>5. ASSUME NEW op \in Memory, mob_refused(op) PROVE IInv'
  BY <1>5, RefusedKeeps
<1>6. ASSUME NEW op \in Memory, mob_send(op) PROVE IInv'
  BY <1>6, SendKeeps
<1>7. ASSUME mob_write PROVE IInv'
  BY <1>7, WriteKeeps
<1>8. ASSUME NEW p \in Place, Answer(p) PROVE IInv'
  BY <1>8, AnswerKeeps
<1>9. ASSUME NEW p \in Place, clean_mob(p) PROVE IInv'
  BY <1>9, CleanKeeps
<1>10. ASSUME commit PROVE IInv'
  BY <1>10, CommitKeeps
<1>11. ASSUME Finished \/ UNCHANGED vars PROVE IInv'
  BY <1>11, StutterKeeps DEF Finished
<1> QED BY <1>1, <1>2, <1>3, <1>4, <1>5, <1>6, <1>7, <1>8, <1>9, <1>10, <1>11 DEF Next

LEMMA Inductive == Spec => []IInv
<1>1. Init => IInv
  BY InitialInv
<1>2. IInv /\ [Next]_vars => IInv'
  BY NextKeeps
<1> QED BY <1>1, <1>2, PTL DEF Spec

-----------------------------------------------------------------------------
(* What the invariant says of the system.                                  *)

LEMMA CandidatesHold == IInv => KeptCandidateSendable
BY DEF IInv, CandidateInv, KeptCandidateSendable

LEMMA CountsHold == IInv => ExecutedCountsUnprocessed
<1> SUFFICES ASSUME IInv, NEW op \in Memory
             PROVE  memory_executed[op] =
                      Cardinality({p \in ToSet(InUse(op)) : mob[p].uop_executed /\ ~mob[p].processed})
  BY DEF ExecutedCountsUnprocessed
<1>1. MobShape /\ PlaceInv /\ EntryInv /\ CountInv
  BY DEF IInv
<1>2. \A p : p \in ToSet(InUse(op)) <=> p \in Place /\ p[1] = op /\ Distance(p) < mob_used[op]
  BY <1>1, InUseIs
<1>3. \A p \in Place : p[1] = op => (Used(p) <=> p \in ToSet(InUse(op)))
  BY <1>1, <1>2 DEF PlaceInv
<1>4. \A p \in Place : mob[p].uop_executed => Used(p)
  BY <1>1 DEF EntryInv, EntryOK
<1>5. {p \in ToSet(InUse(op)) : mob[p].uop_executed /\ ~mob[p].processed} = ExecutedOf(op)
  BY <1>2, <1>3, <1>4 DEF ExecutedOf
<1> QED BY <1>1, <1>5 DEF CountInv

LEMMA WaitsHold == IInv => EveryWaitHasAWaker
<1> SUFFICES ASSUME IInv PROVE EveryWaitHasAWaker
  OBVIOUS
<1>1. RobShape /\ RobInv /\ LineWaitInv /\ PlaceWaitInv
  BY DEF IInv
<1>2. ASSUME NEW s \in Slot
      PROVE  rob[s].wait_reg_deps_number = Pointers(Slot, LAMBDA x : rob[x].reg_deps_ptr_array, s)
  <2>1. PointersTo(Slot, RegDeps(rob), s) =
          {y \in Slot \X (1 .. ROB_SIZE) :
             y[2] <= Len(rob[y[1]].reg_deps_ptr_array) /\ rob[y[1]].reg_deps_ptr_array[y[2]] = s}
    BY DEF PointersTo, RegDeps
  <2>2. RegWaits(rob)[s] = Cardinality(PointersTo(Slot, RegDeps(rob), s))
    BY <1>1 DEF LineWaitInv, Agree
  <2> QED BY <2>1, <2>2 DEF Pointers, RegWaits
<1>3. ASSUME NEW p \in Place
      PROVE  mob[p].wait_mem_deps_number = Pointers(Place, LAMBDA x : mob[x].mem_deps_ptr_array, p)
  <2>1. PointersTo(Place, MemDeps(mob), p) =
          {y \in Place \X (1 .. ROB_SIZE) :
             y[2] <= Len(mob[y[1]].mem_deps_ptr_array) /\ mob[y[1]].mem_deps_ptr_array[y[2]] = p}
    BY DEF PointersTo, MemDeps
  <2>2. MemWaits(mob)[p] = Cardinality(PointersTo(Place, MemDeps(mob), p))
    BY <1>1 DEF PlaceWaitInv, Agree
  <2> QED BY <2>1, <2>2 DEF Pointers, MemWaits
<1>4. \A s \in Slot : rob[s].reg_deps_ptr_array /= <<>> => s \in Live /\ Pending(s)
  BY <1>1, LiveIsBusy DEF LineWaitInv
<1>5. \A p \in Place : mob[p].mem_deps_ptr_array /= <<>> => mob[p].status /= "FREE" /\ ~mob[p].processed
  BY <1>1 DEF PlaceWaitInv, Used
<1> QED BY <1>2, <1>3, <1>4, <1>5 DEF EveryWaitHasAWaker

LEMMA AliasHolds == IInv => AliasIsYoungestWriter
<1> SUFFICES ASSUME IInv, NEW r \in Register, NEW writers, NEW youngest,
                    writers = {s \in Live : Writes(s, r)},
                    youngest = {s \in writers : \A x \in writers : ~Before(s, x)}
             PROVE  register_alias_table[r] =
                      (IF \E s \in youngest : Pending(s) THEN CHOOSE s \in youngest : TRUE ELSE NULL)
  BY DEF AliasIsYoungestWriter
<1>1. RobShape /\ RobInv /\ AliasInv
  BY DEF IInv
<1>2. \A s : s \in writers <=> s \in Slot /\ Busy(s) /\ Writes(s, r)
  BY <1>1, LiveIsBusy
<1>3. CASE register_alias_table[r] = NULL
  <2>1. Unnamed(r)
    BY <1>1, <1>3 DEF AliasInv
  <2>2. ~\E s \in youngest : Pending(s)
    BY <1>2, <2>1 DEF Unnamed
  <2> QED BY <1>3, <2>2
<1>4. CASE register_alias_table[r] /= NULL
  <2>1. PICK a : a = register_alias_table[r]
    OBVIOUS
  <2>2. a \in Slot /\ Named(a, r)
    BY <1>1, <1>4, <2>1 DEF AliasInv, IInv, StageShape
  <2>3. a \in youngest /\ Pending(a)
    BY <1>2, <2>2 DEF Named
  <2>4. \A b \in youngest : b = a
    BY <1>1, <1>2, <2>3, Numbers
  <2>5. (CHOOSE s \in youngest : TRUE) \in youngest
    BY <2>3
  <2> QED BY <2>1, <2>3, <2>4, <2>5
<1> QED BY <1>3, <1>4

\* The operation that mob_read, mob_write, mob_hive or mob_vima keeps to be
\* sent, over cycles in which the cache has no room, can still be sent.
THEOREM KeptCandidate == Spec => []KeptCandidateSendable
BY Inductive, CandidatesHold, PTL

\* memory_read_executed and its like, which the stages look at before they look
\* for anything to send, count the operations executed and not done.
THEOREM ExecutedCount == Spec => []ExecutedCountsUnprocessed
BY Inductive, CountsHold, PTL

\* A uop, or a memory operation, that waits is in as many lists of dependents
\* of others that are not done as its counter says: execute, clean_mob_read and
\* mob_write will wake it up as often as rename made it wait.
THEOREM Wakers == Spec => []EveryWaitHasAWaker
BY Inductive, WaitsHold, PTL

\* The alias table names, for each register, the youngest uop in the reorder
\* buffer to write it, until that is done: update_registers never makes a uop
\* wait for another one, and solve_registers_dependency takes no alias too many.
THEOREM Alias == Spec => []AliasIsYoungestWriter
BY Inductive, AliasHolds, PTL

\* A uop holds the places it keeps.
LEMMA HeldIs ==
  ASSUME RobShape, MobShape, OwnerInv, NEW s \in Slot, IsMemory(s)
  PROVE  /\ DOMAIN Held(s) = 1 .. Kept(s)
         /\ \A k \in 1 .. Kept(s) : /\ Count(s) - Kept(s) + k - 1 \in 0 .. Count(s) - 1
                                    /\ Held(s)[k] = Nth(s, Count(s) - Kept(s) + k - 1)
<1> DEFINE gone == IF rob[s].uop.op = "STORE" THEN Len(PlacesOf(s)) - rob[s].waiting_mem_request ELSE 0
<1>1. Count(s) \in Nat /\ Kept(s) \in 0 .. Count(s)
  BY MemoryUop
<1>2. PlacesOf(s) = [k \in 1 .. Count(s) |-> Nth(s, k - 1)]
  BY DEF PlacesOf, Count, Nth, Kind
<1>3. Len(PlacesOf(s)) = Count(s)
  BY <1>1, <1>2
<1>4. gone = Count(s) - Kept(s)
  <2>1. CASE Kind(s) = "STORE"
    <3>1. Kept(s) = rob[s].waiting_mem_request
      BY <2>1 DEF Kept
    <3> QED BY <1>3, <2>1, <3>1 DEF Kind
  <2>2. CASE Kind(s) # "STORE"
    <3>1. Kept(s) = Count(s)
      BY <2>2 DEF Kept
    <3> QED BY <1>1, <2>2, <3>1 DEF Kind
  <2> QED BY <2>1, <2>2
<1>5. Held(s) = [k \in 1 .. Len(PlacesOf(s)) - gone |-> PlacesOf(s)[k + gone]]
  BY DEF Held
<1> HIDE DEF gone
<1>6. Len(PlacesOf(s)) - gone = Kept(s)
  BY <1>1, <1>3, <1>4
<1>7. DOMAIN Held(s) = 1 .. Kept(s)
  BY <1>5, <1>6
<1>8. ASSUME NEW k \in 1 .. Kept(s)
      PROVE  /\ Count(s) - Kept(s) + k - 1 \in 0 .. Count(s) - 1
             /\ Held(s)[k] = Nth(s, Count(s) - Kept(s) + k - 1)
  <2>1. k + gone \in 1 .. Count(s) /\ k + gone - 1 = Count(s) - Kept(s) + k - 1
    BY <1>1, <1>4
  <2>2. Held(s)[k] = PlacesOf(s)[k + gone]
    BY <1>5, <1>6
  <2>3. PICK i \in 1 .. Count(s) : i = k + gone
    BY <2>1
  <2>4. PlacesOf(s)[i] = Nth(s, i - 1)
    BY <1>2
  <2>5. i - 1 = Count(s) - Kept(s) + k - 1 /\ i - 1 \in 0 .. Count(s) - 1
    BY <1>1, <1>4, <2>3
  <2>6. Held(s)[k] = Nth(s, i - 1)
    BY <2>2, <2>3, <2>4, Zenon
  <2>7. PICK j : j = Count(s) - Kept(s) + k - 1
    OBVIOUS
  <2>8. j = i - 1 /\ j \in 0 .. Count(s) - 1
    BY <2>5, <2>7
  <2> QED BY <2>6, <2>7, <2>8, Zenon
<1> QED BY <1>7, <1>8

LEMMA RingHolds == IInv => MobFollowsRob
<1> SUFFICES ASSUME IInv, NEW op \in Memory
             PROVE  /\ {p \in Place : p[1] = op /\ mob[p].status /= "FREE"} = ToSet(InUse(op))
                    /\ \A k \in 1 .. mob_used[op] :
                         LET p == InUse(op)[k]
                         IN /\ mob[p].rob_ptr \in Live /\ rob[mob[p].rob_ptr].uop.op = op
                            /\ p \in ToSet(Held(mob[p].rob_ptr))
                            /\ k > 1 => ~Before(mob[p].rob_ptr, mob[InUse(op)[k - 1]].rob_ptr)
                    /\ \A s \in {x \in Live : rob[x].uop.op = op} :
                         LET held == Held(s)
                         IN \A k \in DOMAIN held :
                              /\ mob[held[k]].rob_ptr = s
                              /\ Distance(held[k]) = Distance(held[1]) + k - 1
                              /\ Distance(held[k]) < mob_used[op]
  BY DEF MobFollowsRob
<1>1. RobShape /\ MobShape /\ RobInv /\ PlaceInv /\ OwnerInv /\ OrderInv
  BY DEF IInv
<1>2. mob_used[op] \in Nat /\ mob_used[op] <= MOB[op] /\ MOB[op] \in Nat
  BY <1>1, MobSize DEF MobShape
<1>3. {p \in Place : p[1] = op /\ mob[p].status /= "FREE"} = ToSet(InUse(op))
  <2>1. \A p : p \in ToSet(InUse(op)) <=> p \in Place /\ p[1] = op /\ Distance(p) < mob_used[op]
    BY <1>1, InUseIs
  <2>2. \A p \in Place : p[1] = op => (mob[p].status /= "FREE" <=> Distance(p) < mob_used[op])
    BY <1>1 DEF PlaceInv, Used
  <2> QED BY <2>1, <2>2
<1>4. ASSUME NEW k \in 1 .. mob_used[op]
      PROVE  /\ InUse(op)[k] \in Place /\ InUse(op)[k][1] = op /\ Distance(InUse(op)[k]) = k - 1
             /\ Used(InUse(op)[k])
  <2>1. InUse(op)[k] = PlaceOf(op, mob_start[op], k - 1)
    BY DEF InUse
  <2>2. k - 1 \in 0 .. MOB[op] - 1 /\ k - 1 < mob_used[op]
    BY <1>2
  <2>3. InUse(op)[k] \in Place /\ InUse(op)[k][1] = op /\ Distance(InUse(op)[k]) = k - 1
    BY <1>1, <2>1, <2>2, DistanceFromStart
  <2> QED BY <1>1, <2>2, <2>3 DEF PlaceInv
<1>5. ASSUME NEW k \in 1 .. mob_used[op]
      PROVE  LET p == InUse(op)[k]
             IN /\ mob[p].rob_ptr \in Live /\ rob[mob[p].rob_ptr].uop.op = op
                /\ p \in ToSet(Held(mob[p].rob_ptr))
                /\ k > 1 => ~Before(mob[p].rob_ptr, mob[InUse(op)[k - 1]].rob_ptr)
  <2>1. PICK p : p = InUse(op)[k]
    OBVIOUS
  <2>2. p \in Place /\ p[1] = op /\ Distance(p) = k - 1 /\ Used(p)
    BY <1>4, <2>1
  <2>3. PICK s : s = Owner(p)
    OBVIOUS
  <2>4. /\ s \in Slot /\ IsMemory(s) /\ Kind(s) = op
        /\ Rank(s) - Kept(s) < k - 1 /\ k - 1 <= Rank(s)
    BY <1>1, <2>2, <2>3 DEF PlaceInv
  <2>5. PICK i \in 0 .. Count(s) - 1 : Count(s) - Kept(s) <= i /\ p = Nth(s, i)
    BY <1>1, <2>2, <2>3, OwnedPlace
  <2>6. Count(s) \in Nat /\ Kept(s) \in 0 .. Count(s) /\ Rank(s) \in Nat
    BY <1>1, <2>4, MemoryUop
  <2>7. p \in ToSet(Held(s))
    <3>1. PICK j : j = i - (Count(s) - Kept(s)) + 1
      OBVIOUS
    <3>2. j \in 1 .. Kept(s) /\ Count(s) - Kept(s) + j - 1 = i
      BY <2>5, <2>6, <3>1
    <3>3. Held(s)[j] = p /\ DOMAIN Held(s) = 1 .. Kept(s)
      BY <1>1, <2>4, <2>5, <3>2, HeldIs
    <3> QED BY <3>2, <3>3 DEF ToSet
  <2>8. s \in Live
    BY <1>1, <2>4, LiveIsBusy DEF IsMemory
  <2>9. ASSUME k > 1, Before(s, mob[InUse(op)[k - 1]].rob_ptr)
        PROVE  FALSE
    <3>1. PICK q : q = InUse(op)[k - 1]
      OBVIOUS
    <3>2. k - 1 \in 1 .. mob_used[op] /\ (k - 1) - 1 = k - 2
      BY <1>2, <2>9
    <3>3. q \in Place /\ q[1] = op /\ Distance(q) = k - 2 /\ Used(q)
      BY <1>4, <3>1, <3>2
    <3>4. PICK t : t = Owner(q)
      OBVIOUS
    <3>5. /\ t \in Slot /\ IsMemory(t) /\ Kind(t) = op
          /\ Rank(t) - Kept(t) < k - 2 /\ k - 2 <= Rank(t)
      BY <1>1, <3>3, <3>4 DEF PlaceInv
    <3>6. Count(t) \in Nat /\ Kept(t) \in 0 .. Count(t) /\ Rank(t) \in Nat
      BY <1>1, <3>5, MemoryUop
    <3>7. Kept(s) > 0 /\ Kept(t) > 0
      BY <1>2, <2>4, <2>6, <3>5, <3>6
    <3>8. Before(s, t)
      BY <2>9, <3>1, <3>4 DEF Owner
    <3>9. Rank(s) + Kept(t) <= Rank(t)
      BY <1>1, <2>4, <3>5, <3>7, <3>8 DEF OrderInv
    <3> QED BY <1>2, <2>4, <2>6, <3>5, <3>6, <3>9
  <2>10. s = mob[p].rob_ptr /\ rob[s].uop.op = op
    BY <2>3, <2>4 DEF Owner, Kind
  <2> QED BY <2>1, <2>7, <2>8, <2>9, <2>10
<1>6. ASSUME NEW s \in {x \in Live : rob[x].uop.op = op}, NEW k \in DOMAIN Held(s)
      PROVE  /\ mob[Held(s)[k]].rob_ptr = s
             /\ Distance(Held(s)[k]) = Distance(Held(s)[1]) + k - 1
             /\ Distance(Held(s)[k]) < mob_used[op]
  <2>1. s \in Slot /\ IsMemory(s) /\ Kind(s) = op
    BY <1>1, LiveIsBusy DEF IsMemory, Kind
  <2>2. Count(s) \in Nat /\ Kept(s) \in 0 .. Count(s) /\ Rank(s) \in Nat
    BY <1>1, <2>1, MemoryUop
  <2>3. DOMAIN Held(s) = 1 .. Kept(s)
    BY <1>1, <2>1, HeldIs
  <2>4. ASSUME NEW j \in 1 .. Kept(s)
        PROVE  Owner(Held(s)[j]) = s /\ Distance(Held(s)[j]) = Rank(s) - Kept(s) + j
    <3>1. PICK i : i = Count(s) - Kept(s) + j - 1
      OBVIOUS
    <3>2. i \in 0 .. Count(s) - 1 /\ Held(s)[j] = Nth(s, i)
      BY <1>1, <2>1, <3>1, HeldIs
    <3>3. Count(s) - Kept(s) <= i
      BY <2>2, <3>1
    <3>4. Owner(Held(s)[j]) = s /\ Distance(Held(s)[j]) = Rank(s) - (Count(s) - 1 - i)
      BY <1>1, <2>1, <3>2, <3>3, KeptPlace
    <3> QED BY <2>2, <3>1, <3>4
  <2>5. k \in 1 .. Kept(s) /\ 1 \in 1 .. Kept(s)
    BY <2>2, <2>3
  <2>6. /\ Owner(Held(s)[k]) = s /\ Distance(Held(s)[k]) = Rank(s) - Kept(s) + k
        /\ Distance(Held(s)[1]) = Rank(s) - Kept(s) + 1
    BY <2>4, <2>5
  <2>7. Rank(s) < mob_used[op]
    BY <1>1, <2>1, <2>2, <2>5 DEF OwnerInv
  <2> QED BY <1>2, <2>2, <2>5, <2>6, <2>7 DEF Owner
<1> QED BY <1>3, <1>5, <1>6

\* The lines in use of each memory order buffer are those of the uops of its
\* kind in the reorder buffer, in program order: remove_front_mob_read and its
\* like, which commit calls by count, remove the lines of the uop that leaves.
THEOREM MobRing == Spec => []MobFollowsRob
BY Inductive, RingHolds, PTL
=============================================================================
