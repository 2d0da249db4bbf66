--------------------------- MODULE CacheLinesProofs ---------------------------
(***************************************************************************)
(* The contents of the caches of cache/cache.cpp and cache_manager.cpp,    *)
(* for any numbers of processors and lines, any sizes of the caches, and   *)
(* caches shared in any way.                                               *)
(***************************************************************************)
EXTENDS CacheLines, WellFoundedInduction, FiniteSetTheorems, TLAPS

-----------------------------------------------------------------------------
(* Places                                                                  *)

\* The caches of a level that processor p uses.
Mine(p, v) == {Cache(op, v, p) : op \in Op}

Pointers == [Processor -> [Level -> Place \cup {NULL}]]

LEMMA Numbers == DATA_LEVELS = 3 /\ LLC = 2 /\ Level = 0 .. 2 /\ {0, 1, 2} = Level
BY HierarchyAssumption DEF LLC, Level

LEMMA MineLevel ==
  ASSUME NEW p \in Processor, NEW v \in Level, NEW c \in Mine(p, v)
  PROVE  c.level = v /\ c \in Caches
BY DEF Mine, Cache, Caches

LEMMA PlaceType ==
  ASSUME NEW q \in Place
  PROVE  /\ q.cache \in Caches /\ q.cache.level \in Level
         /\ q \in [cache : {q.cache}, set : 0 .. n_sets[q.cache.level] - 1, way : 1 .. n_ways[q.cache.level]]
<1>1. PICK c \in Caches : q \in Ways(c)
  BY DEF Place
<1>2. c.level \in Level
  BY DEF Caches, Cache
<1> QED BY <1>1, <1>2 DEF Ways

LEMMA SetOfType ==
  ASSUME NEW c \in Caches, NEW line \in Line
  PROVE  /\ SetOf(c, line) \subseteq Place
         /\ \A q \in SetOf(c, line) : q.cache = c
         /\ \A w \in 1 .. n_ways[c.level] : \E q \in SetOf(c, line) : q.way = w
<1>1. c.level \in Level
  BY DEF Caches, Cache
<1>2. n_sets[c.level] \in Nat \ {0} /\ line \in Nat
  BY <1>1, HierarchyAssumption
<1>3. line % n_sets[c.level] \in 0 .. n_sets[c.level] - 1
  <2>1. \A x \in Nat, n \in Nat \ {0} : x % n \in 0 .. n - 1
    OBVIOUS
  <2> QED BY <1>2, <2>1
<1>4. ASSUME NEW w \in 1 .. n_ways[c.level] PROVE \E q \in SetOf(c, line) : q.way = w
  <2> DEFINE s == line % n_sets[c.level]
             q == [cache |-> c, set |-> s, way |-> w]
  <2> HIDE DEF s
  <2>1. q \in Ways(c)
    BY <1>3 DEF Ways, s
  <2>2. q \in SetOf(c, line)
    BY <2>1 DEF SetOf, Place, s
  <2> QED BY <2>2
<1> QED BY <1>4 DEF SetOf

-----------------------------------------------------------------------------
(* What a write-back does to a line                                        *)

\* Line q is m after it was l: it is what it was or holds nothing, it has lost
\* pointers at most, none of them to a level below, and if it changed it is in a
\* cache that p uses.
Milder(q, l, m, p) ==
  /\ m \in line_t /\ m.tag \in {l.tag, NULL}
  /\ \A x \in Processor, v \in Level :
       /\ m.ptr[x][v] \in {l.ptr[x][v], NULL}
       /\ v > q.cache.level => m.ptr[x][v] = l.ptr[x][v]
  /\ m # l => q.cache \in Mine(p, q.cache.level)

HierarchyType ==
  [lines : [Place -> line_t], sent : SUBSET Line, at : [Level -> Place \cup {NULL}]]

\* A pointer for processor p to level v names a place in a cache of level v that p uses.
PointersOK(h) ==
  \A q \in Place, p \in Processor, v \in Level :
    Pointer(h, q, p, v) # NULL => Pointer(h, q, p, v).cache \in Mine(p, v)

Quieter(h, g, p) ==
  /\ g \in HierarchyType /\ g.at = h.at
  /\ \A q \in Place : Milder(q, h.lines[q], g.lines[q], p)

LEMMA Cleaned ==
  ASSUME NEW q \in Place, NEW p \in Processor, NEW l \in line_t, q.cache \in Mine(p, q.cache.level)
  PROVE  Milder(q, l, clean_line(l), p)
BY DEF Milder, clean_line, line_t

LEMMA SameLineMilder ==
  ASSUME NEW q \in Place, NEW p \in Processor, NEW l \in line_t
  PROVE  Milder(q, l, l, p)
BY DEF Milder


\* A change of the lines that gives every one a line is a hierarchy.
LEMMA NewLines ==
  ASSUME NEW h \in HierarchyType, NEW new \in [Place -> line_t]
  PROVE  /\ [h EXCEPT !.lines = new] \in HierarchyType
         /\ [h EXCEPT !.lines = new].lines = new
         /\ [h EXCEPT !.lines = new].at = h.at
         /\ [h EXCEPT !.lines = new].sent = h.sent
BY DEF HierarchyType

\* The line leaves the first level.
LEMMA FirstIsQuiet ==
  ASSUME NEW h \in HierarchyType, PointersOK(h), NEW p \in Processor,
         NEW victim \in Place, victim.cache \in Mine(p, victim.cache.level)
  PROVE  Quieter(h, WriteBackFirst(h, victim, p), p)
<1> DEFINE below == {Pointer(h, victim, p, v) : v \in 1 .. LLC}
           New(q) == IF q = victim THEN clean_line(h.lines[q])
                     ELSE IF q \in below THEN [h.lines[q] EXCEPT !.dirty = TRUE, !.ptr[p][0] = NULL]
                     ELSE h.lines[q]
           new == [q \in Place |-> New(q)]
<1>1. WriteBackFirst(h, victim, p) = [h EXCEPT !.lines = new]
  BY DEF WriteBackFirst, Changed
<1>2. ASSUME NEW q \in Place PROVE Milder(q, h.lines[q], New(q), p)
  <2>1. h.lines[q] \in line_t
    BY DEF HierarchyType
  <2>2. CASE q = victim
    BY <2>1, <2>2, Cleaned
  <2>3. CASE q # victim /\ q \notin below
    BY <2>1, <2>3, SameLineMilder
  <2>4. CASE q # victim /\ q \in below
    <3> DEFINE l == h.lines[q]
               m == [l EXCEPT !.dirty = TRUE, !.ptr[p][0] = NULL]
    <3>1. q.cache \in Mine(p, q.cache.level)
      <4>1. PICK v \in 1 .. LLC : q = Pointer(h, victim, p, v)
        BY <2>4
      <4>2. v \in Level /\ q # NULL
        BY HierarchyAssumption, Numbers
      <4>3. q.cache \in Mine(p, v)
        BY <4>1, <4>2 DEF PointersOK
      <4> QED BY <4>2, <4>3, MineLevel
    <3>2. m \in line_t /\ m.tag = l.tag
          /\ \A x \in Processor, v \in Level :
               m.ptr[x][v] = IF x = p /\ v = 0 THEN NULL ELSE l.ptr[x][v]
      BY <2>1, Numbers DEF line_t
    <3> HIDE DEF m
    <3>3. q.cache.level \in Level
      BY PlaceType
    <3>4. \A x \in Processor, v \in Level : v > q.cache.level => m.ptr[x][v] = l.ptr[x][v]
      BY <3>2, <3>3, Numbers
    <3>5. Milder(q, l, m, p)
      BY <3>1, <3>2, <3>4 DEF Milder
    <3> QED BY <2>4, <3>5 DEF m
  <2> QED BY <2>2, <2>3, <2>4
<1> HIDE DEF New
<1>3. new \in [Place -> line_t] /\ \A q \in Place : new[q] = New(q)
  BY <1>2 DEF Milder
<1> HIDE DEF new
<1> QED BY <1>1, <1>2, <1>3, NewLines DEF Quieter

LEMMA PointerType ==
  ASSUME NEW h \in HierarchyType, PointersOK(h), NEW q \in Place, NEW p \in Processor, NEW v \in Level
  PROVE  /\ Pointer(h, q, p, v) \in Place \cup {NULL}
         /\ Pointer(h, q, p, v) # NULL =>
              /\ Pointer(h, q, p, v) \in Place
              /\ Pointer(h, q, p, v).cache \in Mine(p, v)
              /\ Pointer(h, q, p, v).cache.level = v
<1>1. Pointer(h, q, p, v) \in Place \cup {NULL}
  BY DEF Pointer, HierarchyType, line_t
<1>2. Pointer(h, q, p, v) # NULL => Pointer(h, q, p, v).cache \in Mine(p, v)
  BY DEF PointersOK
<1>3. \A c \in Mine(p, v) : c.level = v
  BY MineLevel
<1> QED BY <1>1, <1>2, <1>3

LEMMA MarkedDirty ==
  ASSUME NEW q \in Place, NEW p \in Processor, NEW l \in line_t, q.cache \in Mine(p, q.cache.level)
  PROVE  Milder(q, l, [l EXCEPT !.dirty = TRUE], p)
BY DEF Milder, line_t

LEMMA MilderTwice ==
  ASSUME NEW q, NEW p, NEW l, NEW m, NEW n, Milder(q, l, m, p), Milder(q, m, n, p)
  PROVE  Milder(q, l, n, p)
BY DEF Milder

\* A processor's pointers to the levels up to `level` are taken out of a line below.
LEMMA Forgotten ==
  ASSUME NEW q \in Place, NEW p \in Processor, NEW l \in line_t, NEW level \in Level,
         q.cache \in Mine(p, q.cache.level), q.cache.level >= level
  PROVE  Milder(q, l, [l EXCEPT !.ptr[p] = [v \in Level |-> IF v <= level THEN NULL ELSE @[v]]], p)
<1> DEFINE kept == [v \in Level |-> IF v <= level THEN NULL ELSE l.ptr[p][v]]
           m == [l EXCEPT !.ptr[p] = kept]
<1>1. kept \in [Level -> Place \cup {NULL}]
  BY DEF line_t
<1>2. \A v \in Level : kept[v] = IF v <= level THEN NULL ELSE l.ptr[p][v]
  OBVIOUS
<1>3. q.cache.level \in Level
  BY PlaceType
<1> HIDE DEF kept
<1>4. m \in line_t /\ m.tag = l.tag
      /\ \A x \in Processor, v \in Level : m.ptr[x][v] = IF x = p THEN kept[v] ELSE l.ptr[x][v]
  BY <1>1 DEF line_t
<1> HIDE DEF m
<1>5. \A x \in Processor, v \in Level : v > q.cache.level => m.ptr[x][v] = l.ptr[x][v]
  BY <1>2, <1>3, <1>4, Numbers
<1>6. \A x \in Processor, v \in Level : m.ptr[x][v] \in {l.ptr[x][v], NULL}
  BY <1>2, <1>4
<1>7. Milder(q, l, m, p)
  BY <1>4, <1>5, <1>6 DEF Milder
<1> QED BY <1>7 DEF m, kept

\* The line leaves the last level.
LEMMA LastIsQuiet ==
  ASSUME NEW h \in HierarchyType, PointersOK(h), NEW p \in Processor, NEW victim \in Place,
         NEW line \in Line
  PROVE  Quieter(h, [WriteBackLast(h, victim, p) EXCEPT !.sent = @ \cup {line}], p)
<1> DEFINE above == {Pointer(h, victim, p, v) : v \in 0 .. LLC - 1}
           New(q) == IF q \in above THEN clean_line(h.lines[q]) ELSE h.lines[q]
           new == [q \in Place |-> New(q)]
           g == WriteBackLast(h, victim, p)
<1>1. g = [h EXCEPT !.lines = new]
  BY DEF WriteBackLast, Changed
<1>2. ASSUME NEW q \in Place PROVE Milder(q, h.lines[q], New(q), p)
  <2>1. h.lines[q] \in line_t
    BY DEF HierarchyType
  <2>2. CASE q \notin above
    BY <2>1, <2>2, SameLineMilder
  <2>3. CASE q \in above
    <3>1. PICK v \in 0 .. LLC - 1 : q = Pointer(h, victim, p, v)
      BY <2>3
    <3>2. v \in Level /\ q # NULL
      BY HierarchyAssumption, Numbers
    <3>3. q.cache \in Mine(p, q.cache.level)
      BY <3>1, <3>2, PointerType
    <3> QED BY <2>1, <2>3, <3>3, Cleaned
  <2> QED BY <2>2, <2>3
<1> HIDE DEF New
<1>3. new \in [Place -> line_t] /\ \A q \in Place : new[q] = New(q)
  BY <1>2 DEF Milder
<1> HIDE DEF new
<1>4. g \in HierarchyType /\ g.lines = new /\ g.at = h.at
  BY <1>1, <1>3, NewLines
<1> HIDE DEF g
<1>5. [g EXCEPT !.sent = @ \cup {line}] \in HierarchyType
      /\ [g EXCEPT !.sent = @ \cup {line}].lines = new
      /\ [g EXCEPT !.sent = @ \cup {line}].at = h.at
  BY <1>4 DEF HierarchyType
<1> QED BY <1>2, <1>3, <1>5 DEF Quieter, g

\* The line leaves a level in between.
LEMMA MiddleIsQuiet ==
  ASSUME NEW h \in HierarchyType, PointersOK(h), NEW p \in Processor, NEW victim \in Place,
         victim.cache \in Mine(p, victim.cache.level), NEW level \in Level
  PROVE  Quieter(h, WriteBackMiddle(h, victim, p, level), p)
<1> DEFINE first == Pointer(h, victim, p, 0)
           third == IF first = NULL THEN Pointer(h, victim, p, 2)
                    ELSE IF h.lines[first].dirty THEN Pointer(h, first, p, 2) ELSE NULL
           One(q) == IF q = third THEN [h.lines[q] EXCEPT !.dirty = TRUE]
                     ELSE IF q = first THEN clean_line(h.lines[q]) ELSE h.lines[q]
           one == [q \in Place |-> One(q)]
           copied == [h EXCEPT !.lines = one]
           below == {Pointer(h, victim, p, v) : v \in level + 1 .. LLC}
           Two(q) == IF q = victim THEN clean_line(one[q])
                     ELSE IF q \in below
                       THEN [one[q] EXCEPT !.ptr[p] = [v \in Level |-> IF v <= level THEN NULL ELSE @[v]]]
                     ELSE one[q]
           two == [q \in Place |-> Two(q)]
<1>0. 0 \in Level /\ 2 \in Level /\ NULL \notin Place
  BY HierarchyAssumption, Numbers
<1>1. ASSUME NEW q \in Place PROVE Milder(q, h.lines[q], One(q), p)
  <2>1. h.lines[q] \in line_t /\ q # NULL
    BY <1>0 DEF HierarchyType
  <2>2. CASE q = third
    <3>1. q.cache \in Mine(p, q.cache.level)
      <4>1. CASE first = NULL
        BY <1>0, <2>1, <2>2, <4>1, PointerType
      <4>2. CASE first # NULL
        <5>1. first \in Place
          BY <1>0, <4>2, PointerType
        <5>2. q = Pointer(h, first, p, 2)
          BY <2>1, <2>2, <4>2
        <5> QED BY <1>0, <2>1, <5>1, <5>2, PointerType
      <4> QED BY <4>1, <4>2
    <3> QED BY <2>1, <2>2, <3>1, MarkedDirty
  <2>3. CASE q # third /\ q = first
    <3>1. q.cache \in Mine(p, q.cache.level)
      BY <1>0, <2>1, <2>3, PointerType
    <3> QED BY <2>1, <2>3, <3>1, Cleaned
  <2>4. CASE q # third /\ q # first
    BY <2>1, <2>4, SameLineMilder
  <2> QED BY <2>2, <2>3, <2>4
<1> HIDE DEF One
<1>2. one \in [Place -> line_t] /\ \A q \in Place : one[q] = One(q)
  BY <1>1 DEF Milder
<1> HIDE DEF one
<1>3. /\ copied \in HierarchyType /\ copied.lines = one
      /\ copied.at = h.at /\ copied.sent = h.sent
  BY <1>2, NewLines
<1>4. ASSUME NEW q \in Place PROVE Milder(q, one[q], Two(q), p)
  <2>1. one[q] \in line_t /\ q # NULL
    BY <1>0, <1>2
  <2>2. CASE q = victim
    BY <2>1, <2>2, Cleaned
  <2>3. CASE q # victim /\ q \in below
    <3>1. PICK v \in level + 1 .. LLC : q = Pointer(h, victim, p, v)
      BY <2>3
    <3>2. v \in Level /\ v >= level
      BY Numbers
    <3>3. q.cache \in Mine(p, q.cache.level) /\ q.cache.level = v
      BY <2>1, <3>1, <3>2, PointerType
    <3> QED BY <2>1, <2>3, <3>2, <3>3, Forgotten
  <2>4. CASE q # victim /\ q \notin below
    BY <2>1, <2>4, SameLineMilder
  <2> QED BY <2>2, <2>3, <2>4
<1>5. WriteBackMiddle(h, victim, p, level) = [copied EXCEPT !.lines = two]
  <2>1. copied = Changed(h, LAMBDA q, l : IF q = third THEN [l EXCEPT !.dirty = TRUE]
                                          ELSE IF q = first THEN clean_line(l) ELSE l)
    BY DEF Changed, one, One
  <2>2. [copied EXCEPT !.lines = two] =
          Changed(copied, LAMBDA q, l :
            IF q = victim THEN clean_line(l)
            ELSE IF q \in below
              THEN [l EXCEPT !.ptr[p] = [v \in Level |-> IF v <= level THEN NULL ELSE @[v]]]
            ELSE l)
    BY <1>3 DEF Changed
  <2> HIDE DEF two, copied
  <2> QED BY <2>1, <2>2 DEF WriteBackMiddle
<1> HIDE DEF Two, copied
<1>6. two \in [Place -> line_t] /\ \A q \in Place : two[q] = Two(q)
  BY <1>4 DEF Milder
<1> HIDE DEF two
<1>7. \A q \in Place : Milder(q, h.lines[q], two[q], p)
  BY <1>1, <1>2, <1>4, <1>6, MilderTwice
<1> QED BY <1>3, <1>5, <1>6, <1>7, NewLines DEF Quieter

LEMMA QuietKeeps ==
  ASSUME NEW h \in HierarchyType, PointersOK(h), NEW p, NEW g, Quieter(h, g, p)
  PROVE  g \in HierarchyType /\ PointersOK(g)
<1>1. g \in HierarchyType
  BY DEF Quieter
<1>2. ASSUME NEW q \in Place, NEW x \in Processor, NEW v \in Level, Pointer(g, q, x, v) # NULL
      PROVE  Pointer(g, q, x, v).cache \in Mine(x, v)
  <2>1. Milder(q, h.lines[q], g.lines[q], p)
    BY DEF Quieter
  <2>2. g.lines[q].ptr[x][v] = h.lines[q].ptr[x][v]
    BY <1>2, <2>1 DEF Milder, Pointer
  <2> QED BY <1>2, <2>2 DEF PointersOK, Pointer
<1> QED BY <1>1, <1>2 DEF PointersOK

\* Whatever the level of the line that leaves, and whether it is dirty.
LEMMA EvictedIsQuiet ==
  ASSUME NEW h \in HierarchyType, PointersOK(h), NEW p \in Processor, NEW q \in Place,
         q.cache \in Mine(p, q.cache.level), NEW line \in Line
  PROVE  Quieter(h, Evicted(h, q, p, line), p)
<1>1. q.cache.level \in Level
  BY PlaceType
<1>2. CASE ~h.lines[q].dirty
  <2>1. \A x \in Place : Milder(x, h.lines[x], h.lines[x], p)
    BY SameLineMilder DEF HierarchyType
  <2> QED BY <1>2, <2>1 DEF Evicted, Quieter
<1>3. CASE h.lines[q].dirty
  <2>1. CASE q.cache.level = 0
    BY <1>3, <2>1, FirstIsQuiet DEF Evicted, writeBack
  <2>2. CASE q.cache.level # 0 /\ q.cache.level < LLC
    BY <1>1, <1>3, <2>2, MiddleIsQuiet DEF Evicted, writeBack
  <2>3. CASE q.cache.level # 0 /\ ~(q.cache.level < LLC)
    BY <1>3, <2>3, LastIsQuiet DEF Evicted, writeBack
  <2> QED BY <2>1, <2>2, <2>3
<1> QED BY <1>2, <1>3

-----------------------------------------------------------------------------
(* Installing a line                                                       *)

\* A set of numbers that is not empty has a least one.
LEMMA LeastNumber ==
  ASSUME NEW S \in SUBSET Nat, S # {}
  PROVE  \E m \in S : \A k \in S : m <= k
<1> DEFINE Less == OpToRel(<, Nat)
<1>1. IsWellFoundedOn(Less, Nat)
  BY NatLessThanWellFounded
<1>2. \A x, y \in Nat : <<y, x>> \in Less <=> y < x
  BY DEF OpToRel
<1> HIDE DEF Less
<1>3. PICK m \in S : \A k \in S : <<k, m>> \notin Less
  BY <1>1, WFMin
<1>4. \A k \in S : ~ (k < m)
  BY <1>2, <1>3
<1> QED BY <1>4

\* What the ways of the replacement may be.
WaysOK(lru) == \A v \in Level : lru[v] \in 1 .. n_ways[v]

\* The line of r is in level v, where at[v] says, and everything else is milder.
Installs(h, g, r, v) ==
  /\ g \in HierarchyType /\ PointersOK(g)
  /\ g.at[v] \in SetOf(Cache(r.op, v, r.processor), r.line)
  /\ \A w \in Level : w # v => g.at[w] = h.at[w]
  /\ g.lines[g.at[v]].tag = r.line
  /\ \A q \in Place : q # g.at[v] => Milder(q, h.lines[q], g.lines[q], r.processor)

LEMMA InstallLine ==
  ASSUME NEW h \in HierarchyType, PointersOK(h), NEW r \in Request, NEW v \in Level,
         NEW lru, WaysOK(lru)
  PROVE  Installs(h, installLine(h, r, Cache(r.op, v, r.processor), lru), r, v)
<1> DEFINE cache == Cache(r.op, v, r.processor)
           set == SetOf(cache, r.line)
           empty == {q \in set : h.lines[q].tag = NULL}
           place == Victim(h, cache, r.line, lru)
           room == IF h.lines[place].tag = NULL THEN h ELSE Evicted(h, place, r.processor, r.line)
           g == installLine(h, r, cache, lru)
<1>6. g = Filled(room, place, r.line)
  BY DEF installLine
<1>1. r.line \in Line /\ r.op \in Op /\ r.processor \in Processor
  BY DEF Request
<1>2. cache \in Caches /\ cache \in Mine(r.processor, v) /\ cache.level = v
  BY <1>1 DEF Caches, Mine, Cache
<1>3. /\ set \subseteq Place /\ \A q \in set : q.cache = cache
      /\ \A w \in 1 .. n_ways[v] : \E q \in set : q.way = w
  BY <1>1, <1>2, SetOfType
<1> HIDE DEF cache, set
<1>4. place \in set
  <2>1. CASE empty # {}
    <3> DEFINE ways == {q.way : q \in empty}
               IsLeast(q) == \A e \in empty : q.way <= e.way
    <3>1. ways \in SUBSET Nat
      <4>1. \A q \in Place : q.way \in Nat
        BY PlaceType, HierarchyAssumption
      <4> QED BY <1>3, <4>1
    <3>2. ways # {}
      BY <2>1
    <3>3. PICK m \in ways : \A k \in ways : m <= k
      <4> HIDE DEF ways
      <4> QED BY <3>1, <3>2, LeastNumber
    <3>4. \E q \in empty : IsLeast(q)
      BY <3>3
    <3>5. place = CHOOSE q \in empty : IsLeast(q)
      BY <2>1 DEF Victim, set
    <3>6. place \in empty
      <4> HIDE DEF IsLeast, empty, place
      <4> QED BY <3>4, <3>5
    <3> QED BY <3>6
  <2>2. CASE empty = {}
    <3>1. \E q \in set : q.way = lru[cache.level]
      BY <1>2, <1>3 DEF WaysOK
    <3>2. place = CHOOSE q \in set : q.way = lru[cache.level]
      BY <2>2 DEF Victim, set
    <3> HIDE DEF place
    <3> QED BY <3>1, <3>2
  <2> QED BY <2>1, <2>2
<1>5. place \in Place /\ place.cache = cache /\ place.cache.level = v
  BY <1>2, <1>3, <1>4
<1> HIDE DEF place, g
<1>7. Quieter(h, room, r.processor)
  <2>1. \A q \in Place : Milder(q, h.lines[q], h.lines[q], r.processor)
    BY <1>1, SameLineMilder DEF HierarchyType
  <2>2. Quieter(h, h, r.processor)
    BY <2>1 DEF Quieter
  <2>3. Quieter(h, Evicted(h, place, r.processor, r.line), r.processor)
    BY <1>1, <1>2, <1>5, EvictedIsQuiet
  <2> QED BY <2>2, <2>3
<1> HIDE DEF room, empty
<1>8. room \in HierarchyType /\ PointersOK(room)
  BY <1>7, QuietKeeps
<1> DEFINE l == [room.lines[place] EXCEPT !.tag = r.line, !.dirty = FALSE]
           new == [room.lines EXCEPT ![place] = l]
           at == [room.at EXCEPT ![v] = place]
<1>9. l \in line_t /\ l.tag = r.line /\ l.ptr = room.lines[place].ptr
  <2>1. room.lines[place] \in line_t
    BY <1>5, <1>8 DEF HierarchyType
  <2> QED BY <1>1, <2>1 DEF line_t
<1>10. g = [room EXCEPT !.lines = new, !.at = at]
  <2> DEFINE l1 == [room.lines[place] EXCEPT !.tag = r.line]
             new1 == [room.lines EXCEPT ![place] = l1]
             g1 == [room EXCEPT !.lines = new1]
             l2 == [l1 EXCEPT !.dirty = FALSE]
             new2 == [new1 EXCEPT ![place] = l2]
             g2 == [g1 EXCEPT !.lines = new2]
  <2>1. l2 = l /\ new1[place] = l1
    BY <1>5, <1>8 DEF HierarchyType
  <2>2. g1.lines = new1 /\ g1.at = room.at
    BY <1>8 DEF HierarchyType
  <2>3. g2.at = room.at
    BY <1>8, <2>2 DEF HierarchyType
  <2>4. g = [g2 EXCEPT !.at = [g2.at EXCEPT ![v] = place]]
    <3> HIDE DEF l
    <3>1. g1.lines[place] = l1
      BY <2>1, <2>2
    <3>2. g = [[g1 EXCEPT !.lines = [g1.lines EXCEPT ![place] = [g1.lines[place] EXCEPT !.dirty = FALSE]]]
                 EXCEPT !.at = [@ EXCEPT ![place.cache.level] = place]]
      BY <1>6, Zenon DEF Filled
    <3> QED BY <1>5, <2>2, <3>1, <3>2
  <2>5. new2 = new
    <3> HIDE DEF l1, l2
    <3>1. room.lines \in [Place -> line_t]
      BY <1>8 DEF HierarchyType
    <3> HIDE DEF l
    <3> QED BY <2>1, <3>1
  <2>6. g2 = [room EXCEPT !.lines = new2]
    <3> HIDE DEF new1, new2
    <3> QED BY <1>8 DEF HierarchyType
  <2> HIDE DEF new, new2, g2
  <2> QED BY <2>3, <2>4, <2>5, <2>6
<1> HIDE DEF l
<1>11. /\ new \in [Place -> line_t] /\ new[place] = l
       /\ \A q \in Place : q # place => new[q] = room.lines[q]
  BY <1>5, <1>8, <1>9 DEF HierarchyType
<1>12. /\ at \in [Level -> Place \cup {NULL}] /\ at[v] = place
       /\ \A w \in Level : w # v => at[w] = h.at[w]
  BY <1>5, <1>7, <1>8 DEF HierarchyType, Quieter
<1> HIDE DEF new, at
<1>13. g \in HierarchyType /\ g.lines = new /\ g.at = at
  BY <1>8, <1>10, <1>11, <1>12 DEF HierarchyType
<1>14. \A q \in Place, x \in Processor, w \in Level : Pointer(g, q, x, w) = Pointer(room, q, x, w)
  BY <1>9, <1>11, <1>13 DEF Pointer
<1>15. PointersOK(g)
  BY <1>8, <1>14 DEF PointersOK
<1>16. \A q \in Place : q # g.at[v] => Milder(q, h.lines[q], g.lines[q], r.processor)
  BY <1>7, <1>11, <1>12, <1>13 DEF Quieter
<1>17. Installs(h, g, r, v)
  BY <1>4, <1>9, <1>11, <1>12, <1>13, <1>15, <1>16 DEF Installs, set, cache
<1> QED BY <1>17 DEF g, cache

-----------------------------------------------------------------------------
(* What is said of a hierarchy                                             *)

OneCopy(h) ==
  \A c \in Caches, line \in Line : \A q1, q2 \in Holding(h, c, line) : q1 = q2

\* The pointers to the levels below of every line that holds something.
BelowOK(h) ==
  \A q \in Place : h.lines[q].tag # NULL =>
    \A p \in Processor, v \in Level :
      v > q.cache.level /\ Cache("READ", q.cache.level, p) = q.cache => Pointer(h, q, p, v) # NULL

\* No processor shares a cache with another one, but for the last level.
Private ==
  \A p, x \in Processor, v \in 0 .. LLC - 1 : cache_indexes[p][v] = cache_indexes[x][v] => p = x

\* From h to g, lines other than that of r may only have gone, and only the
\* caches of its processor have changed.
Serves(h, g, r) ==
  /\ g \in HierarchyType /\ PointersOK(g)
  /\ \A q \in Place, line \in Line : line # r.line /\ g.lines[q].tag = line => h.lines[q].tag = line
  /\ \A q \in Place : g.lines[q] # h.lines[q] => q.cache \in Mine(r.processor, q.cache.level)

LEMMA ServesTwice ==
  ASSUME NEW r, NEW h, NEW g, NEW k, Serves(h, g, r), Serves(g, k, r)
  PROVE  Serves(h, k, r)
BY DEF Serves

LEMMA RequestType ==
  ASSUME NEW r \in Request
  PROVE  /\ r.line \in Line /\ r.op \in Op /\ r.processor \in Processor /\ r.line # NULL
         /\ \A v \in Level : /\ Cache(r.op, v, r.processor) \in Caches
                             /\ Cache(r.op, v, r.processor) \in Mine(r.processor, v)
                             /\ Cache(r.op, v, r.processor).level = v
BY HierarchyAssumption DEF Request, Caches, Mine, Cache

LEMMA QuietServes ==
  ASSUME NEW h \in HierarchyType, PointersOK(h), NEW r \in Request, NEW g, Quieter(h, g, r.processor)
  PROVE  Serves(h, g, r)
<1>1. g \in HierarchyType /\ PointersOK(g)
  BY QuietKeeps
<1>2. \A q \in Place : g.lines[q].tag \in {h.lines[q].tag, NULL}
  BY DEF Quieter, Milder
<1>3. \A q \in Place : g.lines[q] # h.lines[q] => q.cache \in Mine(r.processor, q.cache.level)
  BY DEF Quieter, Milder
<1> QED BY <1>1, <1>2, <1>3, HierarchyAssumption DEF Serves

\* If the cache did not have the line, it has it once.
LEMMA InstallServes ==
  ASSUME NEW h \in HierarchyType, NEW r \in Request, NEW v \in Level, NEW g, Installs(h, g, r, v)
  PROVE  LET cache == Cache(r.op, v, r.processor)
         IN /\ Serves(h, g, r)
            /\ g.at[v] \in Place /\ g.at[v].cache = cache /\ g.at[v] \in Holding(g, cache, r.line)
            /\ \A c \in Caches : c # cache => Holding(g, c, r.line) \subseteq Holding(h, c, r.line)
            /\ OneCopy(h) /\ Holding(h, cache, r.line) = {} => OneCopy(g)
<1> DEFINE cache == Cache(r.op, v, r.processor)
           at == g.at[v]
<1>1. /\ r.line \in Line /\ r.line # NULL /\ cache \in Caches /\ cache \in Mine(r.processor, v)
      /\ cache.level = v
  BY RequestType
<1>2. at \in Place /\ at.cache = cache /\ at \in SetOf(cache, r.line)
  BY <1>1, SetOfType DEF Installs
<1>3. g.lines[at].tag = r.line
  BY DEF Installs
<1>4. \A q \in Place : q # at => g.lines[q].tag \in {h.lines[q].tag, NULL}
  BY DEF Installs, Milder
<1> HIDE DEF cache, at
<1>5. ASSUME NEW q \in Place, NEW line \in Line, line # r.line, g.lines[q].tag = line
      PROVE  h.lines[q].tag = line
  BY <1>3, <1>4, <1>5, HierarchyAssumption
<1>6. ASSUME NEW q \in Place, g.lines[q] # h.lines[q]
      PROVE  q.cache \in Mine(r.processor, q.cache.level)
  <2>1. CASE q = at
    BY <1>1, <1>2, <2>1
  <2>2. CASE q # at
    BY <1>6, <2>2 DEF Installs, Milder, at
  <2> QED BY <2>1, <2>2
<1>7. Serves(h, g, r)
  BY <1>5, <1>6 DEF Serves, Installs
<1>8. at \in Holding(g, cache, r.line)
  BY <1>2, <1>3 DEF Holding
<1>9. ASSUME NEW c \in Caches, NEW q \in Holding(g, c, r.line), q # at
      PROVE  q \in Holding(h, c, r.line)
  <2>1. q \in Place /\ q \in SetOf(c, r.line) /\ g.lines[q].tag = r.line
    BY <1>1, SetOfType DEF Holding
  <2> QED BY <1>1, <1>4, <1>9, <2>1 DEF Holding
<1>10. ASSUME NEW c \in Caches, c # cache PROVE Holding(g, c, r.line) \subseteq Holding(h, c, r.line)
  <2>1. \A q \in Holding(g, c, r.line) : q.cache = c
    BY <1>1, SetOfType DEF Holding
  <2> QED BY <1>2, <1>9, <1>10, <2>1
<1>11. ASSUME OneCopy(h), Holding(h, cache, r.line) = {} PROVE OneCopy(g)
  <2> SUFFICES ASSUME NEW c \in Caches, NEW line \in Line,
                      NEW q1 \in Holding(g, c, line), NEW q2 \in Holding(g, c, line)
               PROVE  q1 = q2
    BY DEF OneCopy
  <2>1. CASE line # r.line
    <3>1. \A q \in Holding(g, c, line) : q \in Holding(h, c, line)
      BY <1>5, <2>1, SetOfType DEF Holding
    <3> QED BY <1>11, <3>1 DEF OneCopy
  <2>2. CASE line = r.line /\ c # cache
    BY <1>10, <1>11, <2>2 DEF OneCopy
  <2>3. CASE line = r.line /\ c = cache
    BY <1>9, <1>11, <2>3
  <2> QED BY <2>1, <2>2, <2>3
<1> QED BY <1>2, <1>7, <1>8, <1>10, <1>11 DEF cache, at

\* Where tags stay, so does what the caches hold.
LEMMA SameTags ==
  ASSUME NEW h, NEW g, \A q \in Place : g.lines[q].tag = h.lines[q].tag
  PROVE  /\ \A c \in Caches, line \in Line : Holding(g, c, line) = Holding(h, c, line)
         /\ OneCopy(h) => OneCopy(g)
<1>1. \A c \in Caches, line \in Line : Holding(g, c, line) = Holding(h, c, line)
  BY SetOfType DEF Holding
<1> QED BY <1>1 DEF OneCopy

-----------------------------------------------------------------------------
(* Copying a line to the level above                                       *)

\* An installation leaves every other line its pointers to the levels below.
LEMMA InstallBelow ==
  ASSUME NEW h \in HierarchyType, NEW r \in Request, NEW v \in Level, NEW g, Installs(h, g, r, v),
         NEW q \in Place, q # g.at[v]
  PROVE  /\ g.lines[q].tag \in {h.lines[q].tag, NULL}
         /\ \A x \in Processor, w \in Level :
              w > q.cache.level => Pointer(g, q, x, w) = Pointer(h, q, x, w)
BY DEF Installs, Milder, Pointer

\* No other processor uses the cache that the line is copied to.
LEMMA OnlyUser ==
  ASSUME Private, NEW r \in Request, NEW v \in 0 .. LLC - 1, NEW x \in Processor,
         Cache("READ", v, x) = Cache(r.op, v, r.processor)
  PROVE  x = r.processor
BY RequestType DEF Private, Cache

LEMMA ReturnLine ==
  ASSUME NEW h \in HierarchyType, PointersOK(h), NEW r \in Request, NEW level \in {1, 2},
         NEW lru, WaysOK(lru), Holding(h, Cache(r.op, level, r.processor), r.line) # {}
  PROVE  LET g == returnLine(h, r, level, lru)
             above == Cache(r.op, level - 1, r.processor)
         IN /\ Serves(h, g, r)
            /\ Holding(g, above, r.line) # {}
            /\ \A c \in Caches : c # above => Holding(g, c, r.line) \subseteq Holding(h, c, r.line)
            /\ OneCopy(h) /\ Holding(h, above, r.line) = {} => OneCopy(g)
            /\ Private /\ BelowOK(h) => BelowOK(g)
<1> DEFINE p == r.processor
           from == Cache(r.op, level, p)
           above == Cache(r.op, level - 1, p)
           source == CHOOSE q \in Holding(h, from, r.line) : TRUE
           h1 == installLine(h, r, above, lru)
           copy == h1.at[level - 1]
           linked == [h1.lines[source] EXCEPT !.ptr[p][level - 1] = copy]
           ptr == [v \in Level |-> IF v = level THEN source
                                   ELSE IF v > level THEN Pointer(h1, source, p, v)
                                   ELSE h1.lines[copy].ptr[p][v]]
           copied == [h1.lines[copy] EXCEPT !.dirty = h1.lines[source].dirty, !.ptr[p] = ptr]
           New(q) == IF q = source THEN linked ELSE IF q = copy THEN copied ELSE h1.lines[q]
           new == [q \in Place |-> New(q)]
           g == returnLine(h, r, level, lru)
<1>1. g = [h1 EXCEPT !.lines = new]
  <2> DEFINE Change(q, l) ==
               IF q = source THEN [l EXCEPT !.ptr[p][level - 1] = copy]
               ELSE IF q = copy
                 THEN [l EXCEPT !.dirty = h1.lines[source].dirty,
                                !.ptr[p] = [v \in Level |-> IF v = level THEN source
                                                            ELSE IF v > level THEN Pointer(h1, source, p, v)
                                                            ELSE @[v]]]
               ELSE l
  <2>1. g = [h1 EXCEPT !.lines = [q \in Place |-> Change(q, h1.lines[q])]]
    BY DEF returnLine, Changed
  <2>2. \A q : Change(q, h1.lines[q]) = New(q)
    <3> HIDE DEF source, copy
    <3> QED OBVIOUS
  <2> HIDE DEF Change, New, source, copy, h1
  <2> QED BY <2>1, <2>2
<1>2. /\ p \in Processor /\ r.line \in Line /\ r.line # NULL
      /\ level \in Level /\ level - 1 \in Level /\ level - 1 \in 0 .. LLC - 1
      /\ level = level - 1 + 1 /\ level \in Nat
  BY RequestType, Numbers
<1>3. /\ from \in Caches /\ from \in Mine(p, level) /\ from.level = level
      /\ above \in Caches /\ above \in Mine(p, level - 1) /\ above.level = level - 1
  BY <1>2, RequestType
<1>4. Installs(h, h1, r, level - 1)
  BY <1>2, InstallLine
<1>5. source \in Holding(h, from, r.line)
  OBVIOUS
<1> HIDE DEF New, linked, copied, ptr, source, h1, copy, from, above
<1>6. /\ source \in Place /\ source.cache = from /\ h.lines[source].tag = r.line
  BY <1>2, <1>3, <1>5, SetOfType DEF Holding
<1>7. /\ Serves(h, h1, r) /\ h1 \in HierarchyType /\ PointersOK(h1)
      /\ copy \in Place /\ copy.cache = above /\ copy \in Holding(h1, above, r.line)
      /\ \A c \in Caches : c # above => Holding(h1, c, r.line) \subseteq Holding(h, c, r.line)
      /\ OneCopy(h) /\ Holding(h, above, r.line) = {} => OneCopy(h1)
  <2> DEFINE up == level - 1
  <2>1. up \in Level /\ above = Cache(r.op, up, r.processor) /\ copy = h1.at[up] /\ Installs(h, h1, r, up)
    BY <1>2, <1>4 DEF above, copy
  <2> HIDE DEF up
  <2>2. Serves(h, h1, r) /\ h1 \in HierarchyType /\ PointersOK(h1)
    BY <2>1, InstallServes DEF Serves
  <2>3. copy \in Place /\ copy.cache = above /\ copy \in Holding(h1, above, r.line)
    BY <2>1, InstallServes
  <2>4. \A c \in Caches : c # above => Holding(h1, c, r.line) \subseteq Holding(h, c, r.line)
    BY <2>1, InstallServes
  <2>5. OneCopy(h) /\ Holding(h, above, r.line) = {} => OneCopy(h1)
    BY <2>1, InstallServes
  <2> QED BY <2>2, <2>3, <2>4, <2>5
<1>8. source # copy
  BY <1>2, <1>3, <1>6, <1>7
<1>9. h1.lines[source] \in line_t /\ h1.lines[copy] \in line_t /\ source # NULL /\ copy # NULL
  BY <1>6, <1>7, HierarchyAssumption DEF HierarchyType
<1>10. ptr \in [Level -> Place \cup {NULL}]
       /\ \A v \in Level : ptr[v] = IF v = level THEN source
                                    ELSE IF v > level THEN Pointer(h1, source, p, v)
                                    ELSE h1.lines[copy].ptr[p][v]
  <2>1. \A v \in Level : Pointer(h1, source, p, v) \in Place \cup {NULL}
    BY <1>2, <1>6, <1>7, PointerType
  <2> QED BY <1>2, <1>6, <1>9, <2>1 DEF ptr, line_t
<1>11. /\ linked \in line_t /\ linked.tag = h1.lines[source].tag
       /\ \A x \in Processor, v \in Level :
            linked.ptr[x][v] = IF x = p /\ v = level - 1 THEN copy ELSE h1.lines[source].ptr[x][v]
  BY <1>2, <1>7, <1>9 DEF linked, line_t
<1>12. /\ copied \in line_t /\ copied.tag = h1.lines[copy].tag
       /\ \A x \in Processor, v \in Level :
            copied.ptr[x][v] = IF x = p THEN ptr[v] ELSE h1.lines[copy].ptr[x][v]
  BY <1>2, <1>9, <1>10 DEF copied, line_t
<1>13. /\ new \in [Place -> line_t]
       /\ \A q \in Place : new[q] = IF q = source THEN linked ELSE IF q = copy THEN copied ELSE h1.lines[q]
  BY <1>7, <1>11, <1>12 DEF New, HierarchyType
<1> HIDE DEF new, g
<1>14. g \in HierarchyType /\ g.lines = new /\ g.at = h1.at
  BY <1>1, <1>7, <1>13, NewLines
<1>15. \A q \in Place : g.lines[q].tag = h1.lines[q].tag
  BY <1>11, <1>12, <1>13, <1>14
<1>16. PointersOK(g)
  <2> SUFFICES ASSUME NEW q \in Place, NEW x \in Processor, NEW v \in Level, Pointer(g, q, x, v) # NULL
               PROVE  Pointer(g, q, x, v).cache \in Mine(x, v)
    BY DEF PointersOK
  <2>0. \A y \in Place : Pointer(h1, y, x, v) # NULL => Pointer(h1, y, x, v).cache \in Mine(x, v)
    BY <1>7 DEF PointersOK
  <2>1. CASE q = source
    <3>1. Pointer(g, q, x, v) = IF x = p /\ v = level - 1 THEN copy ELSE Pointer(h1, q, x, v)
      BY <1>6, <1>11, <1>13, <1>14, <2>1 DEF Pointer
    <3> QED BY <1>3, <1>6, <1>7, <2>0, <2>1, <3>1
  <2>2. CASE q = copy
    <3>1. Pointer(g, q, x, v) = IF x = p THEN ptr[v] ELSE Pointer(h1, q, x, v)
      BY <1>7, <1>8, <1>12, <1>13, <1>14, <2>2 DEF Pointer
    <3>2. ptr[v] \in {source, Pointer(h1, source, p, v), Pointer(h1, copy, p, v)} /\ (ptr[v] = source => v = level \/ ptr[v] \in {Pointer(h1, source, p, v), Pointer(h1, copy, p, v)})
      BY <1>10 DEF Pointer
    <3> QED BY <1>3, <1>6, <1>7, <2>0, <2>2, <3>1, <3>2
  <2>3. CASE q # source /\ q # copy
    <3>1. Pointer(g, q, x, v) = Pointer(h1, q, x, v)
      BY <1>13, <1>14, <2>3 DEF Pointer
    <3> QED BY <2>0, <3>1
  <2> QED BY <2>1, <2>2, <2>3
<1>17. Serves(h1, g, r)
  <2>1. \A q \in Place : g.lines[q] # h1.lines[q] => q \in {source, copy}
    BY <1>13, <1>14
  <2>2. source.cache \in Mine(p, source.cache.level) /\ copy.cache \in Mine(p, copy.cache.level)
    BY <1>3, <1>6, <1>7
  <2> QED BY <1>14, <1>15, <1>16, <2>1, <2>2 DEF Serves
<1>18. Serves(h, g, r)
  BY <1>7, <1>17, ServesTwice
<1>19. /\ \A c \in Caches, line \in Line : Holding(g, c, line) = Holding(h1, c, line)
       /\ OneCopy(h1) => OneCopy(g)
  BY <1>15, SameTags
<1>20. ASSUME Private, BelowOK(h) PROVE BelowOK(g)
  <2> SUFFICES ASSUME NEW q \in Place, g.lines[q].tag # NULL, NEW x \in Processor, NEW v \in Level,
                      v > q.cache.level, Cache("READ", q.cache.level, x) = q.cache
               PROVE  Pointer(g, q, x, v) # NULL
    BY DEF BelowOK
  <2>0. ASSUME NEW y \in Place, y # copy, h.lines[y].tag # NULL, v > y.cache.level,
               Cache("READ", y.cache.level, x) = y.cache
        PROVE  Pointer(h1, y, x, v) # NULL
    <3>1. Pointer(h, y, x, v) # NULL
      BY <1>20, <2>0 DEF BelowOK
    <3>2. Pointer(h1, y, x, v) = Pointer(h, y, x, v)
      BY <1>2, <1>4, <2>0, InstallBelow DEF copy
    <3> QED BY <3>1, <3>2
  <2>1. CASE q = source
    <3>1. Pointer(g, q, x, v) = Pointer(h1, q, x, v) \/ Pointer(g, q, x, v) = copy
      BY <1>6, <1>11, <1>13, <1>14, <2>1 DEF Pointer
    <3> QED BY <1>2, <1>6, <1>8, <1>9, <2>0, <2>1, <3>1
  <2>2. CASE q = copy
    <3>1. x = p
      BY <1>2, <1>3, <1>7, <1>20, <2>2, OnlyUser DEF above
    <3>2. Pointer(g, q, x, v) = ptr[v]
      BY <1>7, <1>8, <1>12, <1>13, <1>14, <2>2, <3>1 DEF Pointer
    <3>3. v >= level
      BY <1>2, <1>3, <1>7, <2>2, Numbers
    <3>4. CASE v = level
      BY <1>9, <1>10, <3>2, <3>4
    <3>5. CASE v > level
      <4>1. Cache("READ", level, x) = from
        BY <1>2, <3>1 DEF from, Cache
      <4>2. Pointer(h1, source, x, v) # NULL
        BY <1>2, <1>3, <1>6, <1>8, <2>0, <3>5, <4>1
      <4>3. v # level
        BY <1>2, <3>5, Numbers
      <4> QED BY <1>10, <3>1, <3>2, <3>5, <4>2, <4>3
    <3> QED BY <1>2, <3>3, <3>4, <3>5, Numbers
  <2>3. CASE q # source /\ q # copy
    <3>1. g.lines[q] = h1.lines[q]
      BY <1>13, <1>14, <2>3
    <3>2. h.lines[q].tag # NULL
      BY <1>2, <1>4, <2>3, <3>1, InstallBelow DEF copy
    <3> QED BY <2>0, <2>3, <3>1, <3>2 DEF Pointer
  <2> QED BY <2>1, <2>2, <2>3
<1>21. Holding(g, above, r.line) # {}
  BY <1>2, <1>3, <1>7, <1>19
<1>22. \A c \in Caches : c # above => Holding(g, c, r.line) \subseteq Holding(h, c, r.line)
  BY <1>2, <1>7, <1>19
<1> QED BY <1>7, <1>18, <1>19, <1>20, <1>21, <1>22 DEF g, above

-----------------------------------------------------------------------------
(* A hit, an installation, a store                                         *)

\* What a step that serves r may do to the contents of the caches.
Settles(h, g, r) ==
  /\ Serves(h, g, r)
  /\ OneCopy(h) => OneCopy(g)
  /\ Private /\ BelowOK(h) => BelowOK(g)

LEMMA SettlesTwice ==
  ASSUME NEW r, NEW h, NEW g, NEW k, Settles(h, g, r), Settles(g, k, r)
  PROVE  Settles(h, k, r)
BY ServesTwice DEF Settles

LEMMA Unchanged ==
  ASSUME NEW h \in HierarchyType, PointersOK(h), NEW r \in Request
  PROVE  Settles(h, h, r)
BY DEF Settles, Serves

LEMMA QuietSettles ==
  ASSUME NEW h \in HierarchyType, PointersOK(h), NEW r \in Request, NEW g, Quieter(h, g, r.processor)
  PROVE  Settles(h, g, r)
<1>1. \A q \in Place : /\ g.lines[q].tag \in {h.lines[q].tag, NULL}
                       /\ \A x \in Processor, v \in Level :
                            v > q.cache.level => Pointer(g, q, x, v) = Pointer(h, q, x, v)
  BY DEF Quieter, Milder, Pointer
<1>2. BelowOK(h) => BelowOK(g)
  BY <1>1 DEF BelowOK
<1>3. \A c \in Caches, line \in Line : Holding(g, c, line) \subseteq Holding(h, c, line)
  BY <1>1, SetOfType, HierarchyAssumption DEF Holding
<1>4. OneCopy(h) => OneCopy(g)
  BY <1>3 DEF OneCopy
<1> QED BY <1>2, <1>4, QuietServes DEF Settles

LEMMA CopiedSettles ==
  ASSUME Hierarchy \in HierarchyType, PointersOK(Hierarchy), NEW r \in Request, r.next_level \in Level,
         Holding(Hierarchy, Cache(r.op, r.next_level, r.processor), r.line) # {},
         \A v \in 0 .. r.next_level - 1 : Holding(Hierarchy, Cache(r.op, v, r.processor), r.line) = {},
         NEW lru, WaysOK(lru)
  PROVE  Settles(Hierarchy, Copied(r, lru), r)
<1> DEFINE h == Hierarchy
           C(v) == Cache(r.op, v, r.processor)
           second == returnLine(h, r, LLC, lru)
<1>0. /\ r.line \in Line /\ \A v \in Level : C(v) \in Caches /\ C(v).level = v
      /\ 0 \in Level /\ 1 \in Level /\ 2 \in Level
  BY RequestType, Numbers
<1> HIDE DEF h, C
<1>1. CASE r.next_level = 0
  BY <1>1, Unchanged DEF Copied
<1>2. CASE r.next_level = 1
  <2> DEFINE g == returnLine(h, r, 1, lru)
  <2>1. Copied(r, lru) = g
    BY <1>2, Numbers DEF Copied, h
  <2>2. Holding(h, C(0), r.line) = {} /\ Holding(h, C(1), r.line) # {}
    BY <1>2 DEF h, C
  <2>3. /\ Serves(h, g, r)
        /\ OneCopy(h) /\ Holding(h, C(0), r.line) = {} => OneCopy(g)
        /\ Private /\ BelowOK(h) => BelowOK(g)
    BY <2>2, ReturnLine DEF h, C
  <2> QED BY <2>1, <2>2, <2>3 DEF Settles, h
<1>3. CASE r.next_level = 2
  <2> DEFINE g == returnLine(second, r, 1, lru)
  <2>1. Copied(r, lru) = g
    BY <1>3, Numbers DEF Copied, h
  <2>2. Holding(h, C(0), r.line) = {} /\ Holding(h, C(1), r.line) = {} /\ Holding(h, C(2), r.line) # {}
    BY <1>3 DEF h, C
  <2>3. /\ Serves(h, second, r)
        /\ Holding(second, C(1), r.line) # {}
        /\ \A c \in Caches : c # C(1) => Holding(second, c, r.line) \subseteq Holding(h, c, r.line)
        /\ OneCopy(h) => OneCopy(second)
        /\ Private /\ BelowOK(h) => BelowOK(second)
    <3> DEFINE k == returnLine(h, r, 2, lru)
    <3>1. second = k
      BY Numbers
    <3>2. /\ Serves(h, k, r)
          /\ Holding(k, C(1), r.line) # {}
          /\ \A c \in Caches : c # C(1) => Holding(k, c, r.line) \subseteq Holding(h, c, r.line)
          /\ OneCopy(h) /\ Holding(h, C(1), r.line) = {} => OneCopy(k)
          /\ Private /\ BelowOK(h) => BelowOK(k)
      BY <2>2, ReturnLine DEF h, C
    <3> HIDE DEF second, k
    <3> QED BY <2>2, <3>1, <3>2
  <2> HIDE DEF second
  <2>4. Holding(second, C(0), r.line) = {}
    <3>1. C(0) # C(1)
      BY <1>0
    <3> QED BY <1>0, <2>2, <2>3, <3>1
  <2>5. /\ Serves(second, g, r)
        /\ OneCopy(second) /\ Holding(second, C(0), r.line) = {} => OneCopy(g)
        /\ Private /\ BelowOK(second) => BelowOK(g)
    BY <2>3, ReturnLine DEF C, Serves
  <2> HIDE DEF g
  <2>6. Settles(h, second, r) /\ Settles(second, g, r)
    BY <2>3, <2>4, <2>5 DEF Settles
  <2> QED BY <2>1, <2>6, SettlesTwice DEF h
<1> QED BY <1>1, <1>2, <1>3, Numbers

LEMMA WrittenSettles ==
  ASSUME NEW h \in HierarchyType, PointersOK(h), NEW r \in Request, NEW other \in 1 .. n_ways[0]
  PROVE  Settles(h, Written(h, r, other), r)
<1>1. CASE r.op # "WRITE"
  BY <1>1, Unchanged DEF Written
<1>2. CASE r.op = "WRITE"
  <2> DEFINE p == r.processor
             cache == Cache("WRITE", 0, p)
             found == Holding(h, cache, r.line)
             place == IF found # {} THEN CHOOSE q \in found : TRUE
                      ELSE CHOOSE q \in SetOf(cache, r.line) : q.way = other
             room == IF found # {} THEN h ELSE Evicted(h, place, p, r.line)
             g == write(h, r, other)
  <2>1. /\ r.line \in Line /\ p \in Processor /\ cache \in Caches
        /\ cache \in Mine(p, 0) /\ cache.level = 0
    BY <1>2, RequestType, Numbers
  <2>2. g = [room EXCEPT !.lines[place].dirty = TRUE]
    BY DEF write
  <2>3. place \in SetOf(cache, r.line)
    <3>1. \E q \in SetOf(cache, r.line) : q.way = other
      BY <2>1, SetOfType
    <3>2. found \subseteq SetOf(cache, r.line)
      BY DEF Holding
    <3>3. CASE found # {}
      BY <3>2, <3>3
    <3>4. CASE found = {}
      <4>1. place = CHOOSE q \in SetOf(cache, r.line) : q.way = other
        BY <3>4
      <4> HIDE DEF place, cache
      <4> QED BY <3>1, <4>1
    <3> QED BY <3>3, <3>4
  <2> HIDE DEF place, found, cache
  <2>4. place \in Place /\ place.cache = cache /\ place.cache \in Mine(p, place.cache.level)
    BY <2>1, <2>3, SetOfType
  <2>5. Quieter(h, room, p)
    <3>1. \A q \in Place : Milder(q, h.lines[q], h.lines[q], p)
      BY <2>1, SameLineMilder DEF HierarchyType
    <3>2. Quieter(h, h, p)
      BY <3>1 DEF Quieter
    <3>3. Quieter(h, Evicted(h, place, p, r.line), p)
      BY <2>1, <2>4, EvictedIsQuiet
    <3> QED BY <3>2, <3>3
  <2> HIDE DEF room
  <2>6. room \in HierarchyType /\ room.at = h.at
    BY <2>5 DEF Quieter
  <2> DEFINE l == [room.lines[place] EXCEPT !.dirty = TRUE]
             new == [room.lines EXCEPT ![place] = l]
  <2>7. Milder(place, room.lines[place], l, p)
    BY <2>1, <2>4, <2>6, MarkedDirty DEF HierarchyType
  <2>8. g = [room EXCEPT !.lines = new]
    BY <2>2, <2>4, <2>6 DEF HierarchyType
  <2> HIDE DEF l, g
  <2>9. /\ new \in [Place -> line_t]
        /\ \A q \in Place : new[q] = IF q = place THEN l ELSE room.lines[q]
    BY <2>4, <2>6, <2>7 DEF HierarchyType, Milder
  <2> HIDE DEF new
  <2>10. g \in HierarchyType /\ g.lines = new /\ g.at = h.at
    BY <2>6, <2>8, <2>9, NewLines
  <2>11. ASSUME NEW q \in Place PROVE Milder(q, h.lines[q], g.lines[q], p)
    <3>1. Milder(q, h.lines[q], room.lines[q], p)
      BY <2>5 DEF Quieter
    <3>2. CASE q = place
      BY <2>7, <2>9, <2>10, <3>1, <3>2, MilderTwice
    <3>3. CASE q # place
      BY <2>9, <2>10, <3>1, <3>3
    <3> QED BY <3>2, <3>3
  <2>12. Quieter(h, g, p)
    BY <2>10, <2>11 DEF Quieter
  <2>13. Written(h, r, other) = g
    BY <1>2 DEF Written, g
  <2> QED BY <2>12, <2>13, QuietSettles
<1> QED BY <1>1, <1>2

\* An installation leaves the caches of the other levels without the line they
\* did not have.
LEMMA InstallStays ==
  ASSUME NEW h \in HierarchyType, NEW r \in Request, NEW v \in Level, NEW g, Installs(h, g, r, v)
  PROVE  /\ Serves(h, g, r) /\ g \in HierarchyType /\ PointersOK(g)
         /\ g.at[v] \in Place /\ g.at[v].cache = Cache(r.op, v, r.processor)
         /\ \A w \in Level : w # v => g.at[w] = h.at[w]
         /\ \A w \in Level \ {v} :
              Holding(h, Cache(r.op, w, r.processor), r.line) = {}
                => Holding(g, Cache(r.op, w, r.processor), r.line) = {}
         /\ OneCopy(h) /\ Holding(h, Cache(r.op, v, r.processor), r.line) = {} => OneCopy(g)
<1>1. /\ Serves(h, g, r)
      /\ g.at[v] \in Place /\ g.at[v].cache = Cache(r.op, v, r.processor)
  BY InstallServes
<1>2. \A c \in Caches : c # Cache(r.op, v, r.processor)
                          => Holding(g, c, r.line) \subseteq Holding(h, c, r.line)
  BY InstallServes
<1>3. OneCopy(h) /\ Holding(h, Cache(r.op, v, r.processor), r.line) = {} => OneCopy(g)
  BY InstallServes
<1>4. ASSUME NEW w \in Level \ {v}
      PROVE  /\ Cache(r.op, w, r.processor) \in Caches
             /\ Cache(r.op, w, r.processor) # Cache(r.op, v, r.processor)
  BY RequestType
<1>5. \A w \in Level : w # v => g.at[w] = h.at[w]
  BY DEF Installs
<1>6. g \in HierarchyType /\ PointersOK(g)
  BY <1>1 DEF Serves
<1> QED BY <1>1, <1>2, <1>3, <1>4, <1>5, <1>6

\* The line is in each level, where `at` says; every line but these has the
\* pointers it had.
LEMMA InstalledType ==
  ASSUME Hierarchy \in HierarchyType, PointersOK(Hierarchy), NEW r \in Request,
         \A v \in Level : Holding(Hierarchy, Cache(r.op, v, r.processor), r.line) = {},
         NEW lru, WaysOK(lru)
  PROVE  LET g == Installed(r, lru)
         IN /\ Serves(Hierarchy, g, r)
            /\ \A v \in Level : g.at[v] \in Place /\ g.at[v].cache = Cache(r.op, v, r.processor)
            /\ OneCopy(Hierarchy) => OneCopy(g)
            /\ \A q \in Place : (\A v \in Level : q # g.at[v]) =>
                 /\ g.lines[q].tag \in {lines[q].tag, NULL}
                 /\ \A x \in Processor, w \in Level :
                      w > q.cache.level => Pointer(g, q, x, w) = Pointer(Hierarchy, q, x, w)
<1> DEFINE h == Hierarchy
           C(v) == Cache(r.op, v, r.processor)
           h1 == installLine(h, r, C(0), lru)
           h2 == installLine(h1, r, C(1), lru)
           h3 == installLine(h2, r, C(2), lru)
<1>0. 0 \in Level /\ 1 \in Level /\ 2 \in Level /\ LLC = 2 /\ Level = {0, 1, 2}
  BY Numbers
<1>1. Installed(r, lru) = h3
  BY <1>0 DEF Installed
<1>2. h.lines = lines
  BY DEF Hierarchy
<1> HIDE DEF h
<1>3. Installs(h, h1, r, 0)
  BY <1>0, InstallLine DEF h
<1> HIDE DEF h1
<1>4. /\ Serves(h, h1, r) /\ h1 \in HierarchyType /\ PointersOK(h1)
      /\ h1.at[0] \in Place /\ h1.at[0].cache = C(0)
      /\ Holding(h1, C(1), r.line) = {} /\ Holding(h1, C(2), r.line) = {}
      /\ OneCopy(h) => OneCopy(h1)
  BY <1>0, <1>3, InstallStays DEF h
<1>5. Installs(h1, h2, r, 1)
  BY <1>0, <1>4, InstallLine
<1> HIDE DEF h2
<1>6. /\ Serves(h1, h2, r) /\ h2 \in HierarchyType /\ PointersOK(h2)
      /\ h2.at[1] \in Place /\ h2.at[1].cache = C(1) /\ h2.at[0] = h1.at[0]
      /\ Holding(h2, C(2), r.line) = {}
      /\ OneCopy(h1) => OneCopy(h2)
  <2>1. /\ Serves(h1, h2, r) /\ h2 \in HierarchyType /\ PointersOK(h2)
        /\ h2.at[1] \in Place /\ h2.at[1].cache = C(1)
    BY <1>0, <1>4, <1>5, InstallStays
  <2>2. h2.at[0] = h1.at[0]
    BY <1>0, <1>4, <1>5, InstallStays
  <2>3. 2 \in Level \ {1}
    BY <1>0
  <2>4. Holding(h2, C(2), r.line) = {}
    BY <1>0, <1>4, <1>5, <2>3, InstallStays
  <2>5. OneCopy(h1) => OneCopy(h2)
    BY <1>0, <1>4, <1>5, InstallStays
  <2> QED BY <2>1, <2>2, <2>4, <2>5
<1>7. Installs(h2, h3, r, 2)
  BY <1>0, <1>6, InstallLine
<1> HIDE DEF h3
<1>8. /\ Serves(h2, h3, r)
      /\ h3.at[2] \in Place /\ h3.at[2].cache = C(2)
      /\ h3.at[0] = h2.at[0] /\ h3.at[1] = h2.at[1]
      /\ OneCopy(h2) => OneCopy(h3)
  BY <1>0, <1>6, <1>7, InstallStays
<1>9. ASSUME NEW q \in Place, \A v \in Level : q # h3.at[v]
      PROVE  /\ h3.lines[q].tag \in {lines[q].tag, NULL}
             /\ \A x \in Processor, w \in Level :
                  w > q.cache.level => Pointer(h3, q, x, w) = Pointer(h, q, x, w)
  <2>0. q # h1.at[0] /\ q # h2.at[1] /\ q # h3.at[2]
    BY <1>0, <1>6, <1>8, <1>9
  <2>1. /\ h1.lines[q].tag \in {h.lines[q].tag, NULL}
        /\ \A x \in Processor, w \in Level :
             w > q.cache.level => Pointer(h1, q, x, w) = Pointer(h, q, x, w)
    BY <1>0, <1>3, <2>0, InstallBelow DEF h
  <2>2. /\ h2.lines[q].tag \in {h1.lines[q].tag, NULL}
        /\ \A x \in Processor, w \in Level :
             w > q.cache.level => Pointer(h2, q, x, w) = Pointer(h1, q, x, w)
    BY <1>0, <1>4, <1>5, <2>0, InstallBelow
  <2>3. /\ h3.lines[q].tag \in {h2.lines[q].tag, NULL}
        /\ \A x \in Processor, w \in Level :
             w > q.cache.level => Pointer(h3, q, x, w) = Pointer(h2, q, x, w)
    BY <1>0, <1>6, <1>7, <2>0, InstallBelow
  <2> QED BY <1>2, <2>1, <2>2, <2>3
<1>10. Serves(h, h3, r)
  BY <1>4, <1>6, <1>8, ServesTwice
<1>11. \A v \in Level : h3.at[v] \in Place /\ h3.at[v].cache = C(v)
  BY <1>0, <1>4, <1>6, <1>8
<1> HIDE DEF C
<1>12. OneCopy(h) => OneCopy(h3)
  BY <1>4, <1>6, <1>8
<1> QED BY <1>1, <1>9, <1>10, <1>11, <1>12 DEF h, C

\* Line m is l, but for the pointers of processor p, which are f.
Relink(m, l, p, f) ==
  /\ m \in line_t /\ m.tag = l.tag
  /\ \A x \in Processor, w \in Level : m.ptr[x][w] = IF x = p THEN f[w] ELSE l.ptr[x][w]

LEMMA Relinked ==
  ASSUME NEW l \in line_t, NEW p \in Processor, NEW f \in [Level -> Place \cup {NULL}],
         NEW m, m = [l EXCEPT !.ptr[p] = f]
  PROVE  Relink(m, l, p, f)
BY DEF line_t, Relink

LEMMA LinkedSettles ==
  ASSUME Hierarchy \in HierarchyType, PointersOK(Hierarchy), NEW r \in Request,
         \A v \in Level : Holding(Hierarchy, Cache(r.op, v, r.processor), r.line) = {},
         NEW lru, WaysOK(lru)
  PROVE  Settles(Hierarchy, Linked(Installed(r, lru), r.processor), r)
<1> DEFINE p == r.processor
           h == Hierarchy
           k == Installed(r, lru)
           at == k.at
           Ptr(q) == [v \in Level |-> IF q = at[v] THEN k.lines[q].ptr[p][v] ELSE at[v]]
           New(q) == IF \E v \in Level : q = at[v] THEN [k.lines[q] EXCEPT !.ptr[p] = Ptr(q)]
                     ELSE k.lines[q]
           new == [q \in Place |-> New(q)]
           g == Linked(k, p)
<1>1. g = [k EXCEPT !.lines = new]
  <2> DEFINE Change(q, l) ==
               IF \E v \in Level : q = at[v]
                 THEN [l EXCEPT !.ptr[p] = [v \in Level |-> IF q = at[v] THEN @[v] ELSE at[v]]]
                 ELSE l
  <2>1. g = [k EXCEPT !.lines = [q \in Place |-> Change(q, k.lines[q])]]
    BY DEF Linked, Changed
  <2>2. \A q : Change(q, k.lines[q]) = New(q)
    <3> HIDE DEF k
    <3> QED OBVIOUS
  <2> HIDE DEF Change, New, k, at
  <2> QED BY <2>1, <2>2
<1>2. /\ Serves(h, k, r)
      /\ \A v \in Level : at[v] \in Place /\ at[v].cache = Cache(r.op, v, p)
      /\ OneCopy(h) => OneCopy(k)
      /\ \A q \in Place : (\A v \in Level : q # at[v]) =>
           /\ k.lines[q].tag \in {lines[q].tag, NULL}
           /\ \A x \in Processor, w \in Level :
                w > q.cache.level => Pointer(k, q, x, w) = Pointer(h, q, x, w)
  BY InstalledType
<1>3. p \in Processor /\ \A v \in Level : Cache(r.op, v, p) \in Mine(p, v) /\ Cache(r.op, v, p).level = v
  BY RequestType
<1>4. h.lines = lines /\ k \in HierarchyType /\ PointersOK(k)
  BY <1>2 DEF Hierarchy, Serves
<1> HIDE DEF h, k, at, Ptr, New
<1>5. ASSUME NEW q \in Place
      PROVE  /\ New(q) \in line_t /\ New(q).tag = k.lines[q].tag
             /\ \A x \in Processor, w \in Level :
                  New(q).ptr[x][w] = IF x = p /\ (\E v \in Level : q = at[v]) /\ q # at[w]
                                       THEN at[w] ELSE k.lines[q].ptr[x][w]
  <2>1. k.lines[q] \in line_t
    BY <1>4 DEF HierarchyType
  <2>2. Ptr(q) \in [Level -> Place \cup {NULL}]
        /\ \A w \in Level : Ptr(q)[w] = IF q = at[w] THEN k.lines[q].ptr[p][w] ELSE at[w]
    BY <1>2, <1>3, <2>1 DEF Ptr, line_t
  <2>3. CASE \E v \in Level : q = at[v]
    <3>1. New(q) = [k.lines[q] EXCEPT !.ptr[p] = Ptr(q)]
      BY <2>3 DEF New
    <3>2. /\ New(q) \in line_t /\ New(q).tag = k.lines[q].tag
          /\ \A x \in Processor, w \in Level :
               New(q).ptr[x][w] = IF x = p THEN Ptr(q)[w] ELSE k.lines[q].ptr[x][w]
      <4>1. Ptr(q) \in [Level -> Place \cup {NULL}]
        BY <2>2
      <4>2. Relink(New(q), k.lines[q], p, Ptr(q))
        BY <1>3, <2>1, <3>1, <4>1, Relinked
      <4> QED BY <4>2 DEF Relink
    <3> QED BY <2>2, <2>3, <3>2
  <2>4. CASE ~ \E v \in Level : q = at[v]
    BY <2>1, <2>4 DEF New
  <2> QED BY <2>3, <2>4
<1>6. new \in [Place -> line_t] /\ \A q \in Place : new[q] = New(q)
  BY <1>5
<1> HIDE DEF new, g
<1>7. g \in HierarchyType /\ g.lines = new
  BY <1>1, <1>4, <1>6, NewLines
<1>8. \A q \in Place : g.lines[q].tag = k.lines[q].tag
  BY <1>5, <1>6, <1>7
<1>9. \A q \in Place, x \in Processor, w \in Level :
        Pointer(g, q, x, w) = IF x = p /\ (\E v \in Level : q = at[v]) /\ q # at[w]
                                THEN at[w] ELSE Pointer(k, q, x, w)
  BY <1>5, <1>6, <1>7 DEF Pointer
<1>10. PointersOK(g)
  <2> SUFFICES ASSUME NEW q \in Place, NEW x \in Processor, NEW w \in Level, Pointer(g, q, x, w) # NULL
               PROVE  Pointer(g, q, x, w).cache \in Mine(x, w)
    BY DEF PointersOK
  <2>1. Pointer(k, q, x, w) # NULL => Pointer(k, q, x, w).cache \in Mine(x, w)
    BY <1>4 DEF PointersOK
  <2> QED BY <1>2, <1>3, <1>9, <2>1
<1>11. ASSUME NEW q \in Place, g.lines[q] # k.lines[q] PROVE q.cache \in Mine(p, q.cache.level)
  <2>1. PICK v \in Level : q = at[v]
    BY <1>6, <1>7, <1>11 DEF New
  <2> QED BY <1>2, <1>3, <2>1
<1>12. Serves(h, g, r)
  <2>1. Serves(k, g, r)
    BY <1>7, <1>8, <1>10, <1>11 DEF Serves
  <2> QED BY <1>2, <2>1, ServesTwice
<1>13. OneCopy(h) => OneCopy(g)
  BY <1>2, <1>8, SameTags
<1>14. ASSUME Private, BelowOK(h) PROVE BelowOK(g)
  <2> SUFFICES ASSUME NEW q \in Place, g.lines[q].tag # NULL, NEW x \in Processor, NEW w \in Level,
                      w > q.cache.level, Cache("READ", q.cache.level, x) = q.cache
               PROVE  Pointer(g, q, x, w) # NULL
    BY DEF BelowOK
  <2>1. CASE \E v \in Level : q = at[v]
    <3>1. PICK v \in Level : q = at[v]
      BY <2>1
    <3>2. q.cache.level = v /\ q.cache = Cache(r.op, v, p)
      BY <1>2, <1>3, <3>1
    <3>3. v \in 0 .. LLC - 1
      BY <3>2, Numbers
    <3>4. x = p
      BY <1>14, <3>2, <3>3, OnlyUser
    <3>5. q # at[w]
      <4>1. at[w].cache.level = w
        BY <1>2, <1>3
      <4> QED BY <3>2, <4>1, Numbers
    <3>6. at[w] \in Place
      BY <1>2
    <3> QED BY <1>9, <2>1, <3>4, <3>5, <3>6, HierarchyAssumption
  <2>2. CASE ~ \E v \in Level : q = at[v]
    <3>1. k.lines[q].tag # NULL /\ k.lines[q].tag \in {lines[q].tag, NULL}
          /\ Pointer(k, q, x, w) = Pointer(h, q, x, w)
      BY <1>2, <1>8, <2>2
    <3>2. Pointer(h, q, x, w) # NULL
      BY <1>4, <1>14, <3>1 DEF BelowOK
    <3> QED BY <1>9, <2>2, <3>1, <3>2
  <2> QED BY <2>1, <2>2
<1> QED BY <1>12, <1>13, <1>14 DEF Settles, g, h, k

-----------------------------------------------------------------------------
(* The invariant                                                           *)

ContentsOK(h) ==
  /\ h \in HierarchyType /\ PointersOK(h) /\ OneCopy(h)
  /\ Private => BelowOK(h)

\* No two requests outstanding are for the same line: isIn() merges them.
RequestsOK ==
  /\ requests \subseteq Request /\ IsFiniteSet(requests) /\ Cardinality(requests) <= MAX_REQUESTS
  /\ \A r \in requests : r.op \in operations[r.processor][r.line]
  /\ \A r, s \in requests : r.line = s.line => r = s

\* The levels that a request was looked up in without success do not have the
\* line since: nobody but the request itself could have brought it there.
SearchedOK ==
  \A r \in requests : r.status = "UNTREATED" =>
    \A v \in 0 .. r.next_level - 1 : Holding(Hierarchy, Cache(r.op, v, r.processor), r.line) = {}

CacheInv == ContentsOK(Hierarchy) /\ RequestsOK /\ SearchedOK /\ stored \subseteq Followed

\* The contents are what the lines are.
LEMMA SameContents ==
  ASSUME NEW h, NEW g, h.lines = g.lines
  PROVE  /\ PointersOK(h) => PointersOK(g)
         /\ OneCopy(h) => OneCopy(g)
         /\ BelowOK(h) => BelowOK(g)
         /\ \A c, line : Holding(h, c, line) = Holding(g, c, line)
<1>1. PointersOK(h) => PointersOK(g)
  BY DEF PointersOK, Pointer
<1>2. \A c, line : Holding(h, c, line) = Holding(g, c, line)
  BY DEF Holding
<1>3. OneCopy(h) => OneCopy(g)
  BY <1>2 DEF OneCopy
<1>4. BelowOK(h) => BelowOK(g)
  BY DEF BelowOK, Pointer
<1> QED BY <1>1, <1>2, <1>3, <1>4

LEMMA VictimsType ==
  ASSUME NEW r, NEW levels, NEW lru \in Victims(r, levels)
  PROVE  WaysOK(lru)
<1> DEFINE full(v) == \A q \in SetOf(Cache(r.op, v, r.processor), r.line) : lines[q].tag # NULL
           choice == [v \in Level |-> IF v < levels /\ full(v) THEN 1 .. n_ways[v] ELSE {1}]
<1>1. \A v \in Level : lru[v] \in choice[v]
  BY DEF Victims
<1>2. \A v \in Level : choice[v] \in {1 .. n_ways[v], {1}}
  OBVIOUS
<1> HIDE DEF choice
<1>3. \A v \in Level : 1 \in 1 .. n_ways[v]
  BY HierarchyAssumption
<1> QED BY <1>1, <1>2, <1>3 DEF WaysOK

LEMMA InitInv == Init => CacheInv
<1> SUFFICES ASSUME Init PROVE CacheInv
  OBVIOUS
<1>1. Allocated \in line_t /\ Allocated.tag = NULL
      /\ \A p \in Processor, v \in Level : Allocated.ptr[p][v] = NULL
  BY DEF Allocated, line_t
<1>2. /\ lines \in [Place -> line_t]
      /\ \A q \in Place : lines[q] = Allocated
  BY <1>1 DEF Init
<1>3. Hierarchy \in HierarchyType /\ Hierarchy.lines = lines
  BY <1>2 DEF Hierarchy, HierarchyType
<1>4. PointersOK(Hierarchy)
  BY <1>1, <1>2, <1>3 DEF PointersOK, Pointer
<1>5. \A c \in Caches, line \in Line : Holding(Hierarchy, c, line) = {}
  BY <1>1, <1>2, <1>3, SetOfType, HierarchyAssumption DEF Holding
<1>6. BelowOK(Hierarchy)
  BY <1>1, <1>2, <1>3 DEF BelowOK
<1>7. ContentsOK(Hierarchy)
  BY <1>3, <1>4, <1>5, <1>6 DEF ContentsOK, OneCopy
<1>8. RequestsOK
  BY FS_EmptySet, HierarchyAssumption DEF Init, RequestsOK
<1> QED BY <1>7, <1>8 DEF CacheInv, SearchedOK, Init

\* A request that has been served is replaced by one for the same line, or is gone.
LEMMA Replaced ==
  ASSUME RequestsOK, NEW r \in requests, NEW s \in Request, s.op = r.op, s.processor = r.processor, s.line = r.line,
         requests' \in {requests \ {r}, (requests \ {r}) \cup {s}}
  PROVE  /\ RequestsOK'
         /\ \A t \in requests' : t = s \/ (t \in requests /\ t.line # r.line)
<1>1. requests' \subseteq Request
  BY DEF RequestsOK
<1>2. IsFiniteSet(requests') /\ Cardinality(requests') <= MAX_REQUESTS
  <2>1. IsFiniteSet(requests) /\ Cardinality(requests) \in Nat
    BY FS_CardinalityType DEF RequestsOK
  <2>2. IsFiniteSet(requests \ {r}) /\ Cardinality(requests \ {r}) = Cardinality(requests) - 1
    BY <2>1, FS_RemoveElement
  <2>3. /\ IsFiniteSet((requests \ {r}) \cup {s})
        /\ Cardinality((requests \ {r}) \cup {s}) \in {Cardinality(requests) - 1, Cardinality(requests) - 1 + 1}
    BY <2>2, FS_AddElement
  <2>4. Cardinality(requests) <= MAX_REQUESTS /\ MAX_REQUESTS \in Nat
    BY HierarchyAssumption DEF RequestsOK
  <2>5. \A n, m \in Nat : n <= m => n - 1 <= m /\ n - 1 + 1 <= m
    OBVIOUS
  <2>6. Cardinality(requests') \in {Cardinality(requests) - 1, Cardinality(requests) - 1 + 1}
    BY <2>2, <2>3
  <2>7. IsFiniteSet(requests')
    BY <2>2, <2>3
  <2> QED BY <2>1, <2>4, <2>5, <2>6, <2>7
<1>3. \A t \in requests' : t.op \in operations[t.processor][t.line]
  BY DEF RequestsOK
<1>4. \A t \in requests' : t = s \/ (t \in requests /\ t.line # r.line)
  BY DEF RequestsOK
<1>5. \A t, u \in requests' : t.line = u.line => t = u
  BY <1>4 DEF RequestsOK
<1> QED BY <1>1, <1>2, <1>3, <1>4, <1>5 DEF RequestsOK

\* The step of a request that was served, whatever it does to the caches.
LEMMA Served ==
  ASSUME CacheInv, NEW r \in requests, NEW g, Settles(Hierarchy, g, r), Becomes(g),
         NEW s \in Request, s.op = r.op, s.processor = r.processor, s.line = r.line, s.status = "WAIT",
         requests' \in {requests \ {r}, (requests \ {r}) \cup {s}}
  PROVE  /\ CacheInv'
         /\ \A q \in Place : lines'[q] # lines[q] => q.cache \in Mine(r.processor, q.cache.level)
<1>1. /\ Serves(Hierarchy, g, r) /\ g \in HierarchyType /\ PointersOK(g)
      /\ OneCopy(g) /\ (Private => BelowOK(g))
  BY DEF CacheInv, ContentsOK, Settles, Serves
<1>2. Hierarchy.lines = lines /\ Hierarchy'.lines = lines' /\ lines' = g.lines
  BY DEF Hierarchy, Becomes
<1>3. Hierarchy' \in HierarchyType
  BY <1>1, <1>2 DEF Hierarchy, HierarchyType
<1>4. /\ PointersOK(Hierarchy') /\ OneCopy(Hierarchy') /\ (Private => BelowOK(Hierarchy'))
      /\ \A c, line : Holding(Hierarchy', c, line) = Holding(g, c, line)
  <2> DEFINE k == Hierarchy'
  <2>1. g.lines = k.lines
    BY <1>2
  <2> HIDE DEF k
  <2>2. /\ PointersOK(g) => PointersOK(k)
        /\ OneCopy(g) => OneCopy(k)
        /\ BelowOK(g) => BelowOK(k)
        /\ \A c, line : Holding(g, c, line) = Holding(k, c, line)
    BY <2>1, SameContents
  <2> QED BY <1>1, <2>2 DEF k
<1>5. ContentsOK(Hierarchy')
  BY <1>3, <1>4 DEF ContentsOK
<1>6. /\ RequestsOK'
      /\ \A t \in requests' : t = s \/ (t \in requests /\ t.line # r.line)
  BY Replaced DEF CacheInv
<1>7. SearchedOK'
  <2> SUFFICES ASSUME NEW t \in requests', t.status = "UNTREATED", NEW v \in 0 .. t.next_level - 1
               PROVE  Holding(Hierarchy', Cache(t.op, v, t.processor), t.line) = {}
    BY DEF SearchedOK
  <2>1. t \in requests /\ t.line # r.line
    BY <1>6
  <2>2. Holding(Hierarchy, Cache(t.op, v, t.processor), t.line) = {}
    BY <2>1 DEF CacheInv, SearchedOK
  <2>3. t \in Request /\ v \in Level
    BY <2>1, HierarchyAssumption DEF CacheInv, RequestsOK, Request, Level
  <2>4. t.line \in Line /\ Cache(t.op, v, t.processor) \in Caches
    BY <2>3, RequestType
  <2>5. Holding(g, Cache(t.op, v, t.processor), t.line) = {}
    <3>1. SetOf(Cache(t.op, v, t.processor), t.line) \subseteq Place
      BY <2>4, SetOfType
    <3> QED BY <1>1, <2>1, <2>2, <2>4, <3>1 DEF Holding, Serves
  <2> QED BY <1>4, <2>5
<1>8. stored' \subseteq Followed
  BY DEF CacheInv, Becomes
<1>9. \A q \in Place : lines'[q] # lines[q] => q.cache \in Mine(r.processor, q.cache.level)
  BY <1>1, <1>2 DEF Serves
<1> QED BY <1>5, <1>6, <1>7, <1>8, <1>9 DEF CacheInv

LEMMA SearchData ==
  ASSUME CacheInv, NEW p \in Processor, NEW line \in Line, NEW op \in operations[p][line],
         searchData(p, op, line)
  PROVE  CacheInv'
<1> DEFINE r == [line |-> line, op |-> op, processor |-> p, next_level |-> 0, status |-> "UNTREATED"]
<1>1. /\ requests' = IF isIn(r) THEN requests ELSE requests \cup {r}
      /\ Cardinality(requests') <= MAX_REQUESTS
      /\ stored' = IF op = "WRITE" THEN stored \cup ({line} \cap Followed) ELSE stored
      /\ lines' = lines
  BY DEF searchData
<1>2. UNION {operations[x][line] : x \in Processor} \subseteq Op
  BY HierarchyAssumption DEF Op
<1>3. r \in Request
  BY <1>2, HierarchyAssumption DEF Request
<1>4. requests' \subseteq Request /\ IsFiniteSet(requests')
  BY <1>1, <1>3, FS_AddElement DEF CacheInv, RequestsOK
<1>5. \A s \in requests' : s = r \/ s \in requests
  BY <1>1
<1>6. \A s \in requests' : s.op \in operations[s.processor][s.line]
  BY <1>5 DEF CacheInv, RequestsOK
<1>7. ASSUME ~ isIn(r), NEW s \in requests PROVE s.line # r.line
  <2> SUFFICES ASSUME s.line = r.line PROVE FALSE
    OBVIOUS
  <2> DEFINE ops == UNION {operations[x][line] : x \in Processor}
  <2>1. s.op \in ops
    <3>1. s \in Request /\ s.op \in operations[s.processor][s.line]
      BY DEF CacheInv, RequestsOK
    <3> QED BY <3>1 DEF Request
  <2>2. op \in ops
    OBVIOUS
  <2>3. ops \subseteq {"READ", "WRITE"} \/ ops = {"INST"}
    BY HierarchyAssumption
  <2> HIDE DEF ops
  <2>4. s.op = "INST" <=> r.op = "INST"
    BY <2>1, <2>2, <2>3
  <2> QED BY <1>7, <2>4 DEF isIn, SameLine
<1>8. \A s, t \in requests' : s.line = t.line => s = t
  <2>1. CASE isIn(r)
    BY <1>1, <2>1 DEF CacheInv, RequestsOK
  <2>2. CASE ~ isIn(r)
    <3>1. \A s \in requests : s.line # r.line
      BY <1>7, <2>2
    <3> QED BY <1>5, <3>1 DEF CacheInv, RequestsOK
  <2> QED BY <2>1, <2>2
<1>9. RequestsOK'
  BY <1>1, <1>4, <1>6, <1>8 DEF RequestsOK
<1>10. Hierarchy' = Hierarchy
  BY <1>1 DEF Hierarchy
<1>11. SearchedOK'
  <2>1. \A v \in 0 .. r.next_level - 1 : FALSE
    OBVIOUS
  <2>2. ASSUME NEW s \in requests', s.status = "UNTREATED", NEW v \in 0 .. s.next_level - 1
        PROVE  Holding(Hierarchy, Cache(s.op, v, s.processor), s.line) = {}
    <3>1. CASE s = r
      BY <2>1, <2>2, <3>1
    <3>2. CASE s \in requests
      BY <2>2, <3>2 DEF CacheInv, SearchedOK
    <3> QED BY <1>5, <3>1, <3>2
  <2> QED BY <1>10, <2>2 DEF SearchedOK
<1>12. stored' \subseteq Followed
  BY <1>1 DEF CacheInv
<1> QED BY <1>9, <1>10, <1>11, <1>12 DEF CacheInv

\* A request that is being looked for moves to the next level.
LEMMA Miss ==
  ASSUME CacheInv, NEW r \in requests, miss(r)
  PROVE  CacheInv'
<1> DEFINE n == r.next_level
           s == [r EXCEPT !.next_level = @ + 1]
<1>1. /\ r \in Request /\ r.status = "UNTREATED" /\ n \in 0 .. 2 /\ n + 1 \in 0 .. 3
      /\ lines' = lines /\ stored' = stored
      /\ Holding(Hierarchy, Cache(r.op, n, r.processor), r.line) = {}
      /\ requests' = (requests \ {r}) \cup {s}
  BY HierarchyAssumption DEF miss, CacheInv, RequestsOK, Request, Hit
<1>2. /\ s \in Request /\ s.op = r.op /\ s.processor = r.processor /\ s.line = r.line
      /\ s.next_level = n + 1
  BY <1>1, HierarchyAssumption DEF Request
<1> HIDE DEF s, n
<1>3. /\ RequestsOK'
      /\ \A t \in requests' : t = s \/ (t \in requests /\ t.line # r.line)
  BY <1>1, <1>2, Replaced DEF CacheInv
<1>4. Hierarchy' = Hierarchy
  BY <1>1 DEF Hierarchy
<1>5. ASSUME NEW t \in requests', t.status = "UNTREATED", NEW v \in 0 .. t.next_level - 1
      PROVE  Holding(Hierarchy, Cache(t.op, v, t.processor), t.line) = {}
  <2>1. CASE t = s
    <3>1. v = n \/ v \in 0 .. n - 1
      BY <1>1, <1>2, <1>5, <2>1
    <3>2. \A w \in 0 .. n - 1 : Holding(Hierarchy, Cache(r.op, w, r.processor), r.line) = {}
      BY <1>1 DEF CacheInv, SearchedOK, n
    <3> QED BY <1>1, <1>2, <2>1, <3>1, <3>2
  <2>2. CASE t \in requests
    BY <1>5, <2>2 DEF CacheInv, SearchedOK
  <2> QED BY <1>3, <2>1, <2>2
<1>6. SearchedOK'
  BY <1>4, <1>5 DEF SearchedOK
<1> QED BY <1>1, <1>3, <1>4, <1>6 DEF CacheInv

LEMMA Finish ==
  ASSUME CacheInv, NEW r \in requests, finish(r)
  PROVE  CacheInv'
<1>1. r \in Request /\ requests' = requests \ {r} /\ lines' = lines /\ stored' = stored
  BY DEF finish, CacheInv, RequestsOK
<1>2. /\ RequestsOK'
      /\ \A t \in requests' : t \in requests
  BY <1>1, Replaced DEF CacheInv
<1>3. Hierarchy' = Hierarchy
  BY <1>1 DEF Hierarchy
<1> QED BY <1>1, <1>2, <1>3 DEF CacheInv, SearchedOK

LEMMA HitServed ==
  ASSUME CacheInv, NEW r \in requests, hit(r)
  PROVE  /\ CacheInv'
         /\ \A q \in Place : lines'[q] # lines[q] => q.cache \in Mine(r.processor, q.cache.level)
<1> DEFINE s == Found(r)
<1>1. PICK lru \in Victims(r, r.next_level), other \in 1 .. n_ways[0] :
        Becomes(Written(Copied(r, lru), r, other))
  BY DEF hit
<1>2. /\ r \in Request /\ r.status = "UNTREATED" /\ r.next_level \in 0 .. 2 /\ r.next_level + 1 \in 0 .. 3
      /\ Holding(Hierarchy, Cache(r.op, r.next_level, r.processor), r.line) # {}
      /\ requests' = (requests \ {r}) \cup {s}
  BY HierarchyAssumption DEF hit, CacheInv, RequestsOK, Request, Hit
<1>3. /\ s \in Request /\ s.op = r.op /\ s.processor = r.processor /\ s.line = r.line
      /\ s.status = "WAIT"
  BY <1>2, HierarchyAssumption DEF Request, Found
<1> HIDE DEF s
<1> DEFINE h == Copied(r, lru)
           g == Written(h, r, other)
<1>4. Hierarchy \in HierarchyType /\ PointersOK(Hierarchy)
  BY DEF CacheInv, ContentsOK
<1>5. \A v \in 0 .. r.next_level - 1 : Holding(Hierarchy, Cache(r.op, v, r.processor), r.line) = {}
  BY <1>2 DEF CacheInv, SearchedOK
<1>6. WaysOK(lru)
  BY VictimsType
<1>7. Settles(Hierarchy, h, r)
  BY <1>2, <1>4, <1>5, <1>6, CopiedSettles, Numbers
<1> HIDE DEF h
<1>8. h \in HierarchyType /\ PointersOK(h)
  BY <1>7 DEF Settles, Serves
<1>9. Settles(h, g, r)
  BY <1>2, <1>8, WrittenSettles
<1>10. Becomes(g)
  BY <1>1 DEF h
<1> HIDE DEF g
<1>11. Settles(Hierarchy, g, r)
  BY <1>7, <1>9, SettlesTwice
<1> QED BY <1>2, <1>3, <1>10, <1>11, Served

LEMMA InstallServed ==
  ASSUME CacheInv, NEW r \in requests, install(r)
  PROVE  /\ CacheInv'
         /\ \A q \in Place : lines'[q] # lines[q] => q.cache \in Mine(r.processor, q.cache.level)
<1> DEFINE s == [r EXCEPT !.status = "WAIT"]
<1>1. PICK lru \in Victims(r, DATA_LEVELS), other \in 1 .. n_ways[0] :
        Becomes(Written(Linked(Installed(r, lru), r.processor), r, other))
  BY DEF install
<1>2. /\ r \in Request /\ r.status = "UNTREATED" /\ r.next_level = 3
      /\ requests' = requests \ {r}
  BY HierarchyAssumption DEF install, CacheInv, RequestsOK
<1>3. /\ s \in Request /\ s.op = r.op /\ s.processor = r.processor /\ s.line = r.line
      /\ s.status = "WAIT"
  BY <1>2 DEF Request
<1> HIDE DEF s
<1> DEFINE h == Linked(Installed(r, lru), r.processor)
           g == Written(h, r, other)
<1>4. Hierarchy \in HierarchyType /\ PointersOK(Hierarchy)
  BY DEF CacheInv, ContentsOK
<1>5. \A v \in Level : Holding(Hierarchy, Cache(r.op, v, r.processor), r.line) = {}
  <2>1. \A v \in 0 .. r.next_level - 1 : Holding(Hierarchy, Cache(r.op, v, r.processor), r.line) = {}
    BY <1>2 DEF CacheInv, SearchedOK
  <2>2. 0 .. r.next_level - 1 = Level
    BY <1>2, Numbers
  <2> QED BY <2>1, <2>2
<1>6. WaysOK(lru)
  BY VictimsType
<1>7. Settles(Hierarchy, h, r)
  BY <1>2, <1>4, <1>5, <1>6, LinkedSettles
<1> HIDE DEF h
<1>8. h \in HierarchyType /\ PointersOK(h)
  BY <1>7 DEF Settles, Serves
<1>9. Settles(h, g, r)
  BY <1>2, <1>8, WrittenSettles
<1>10. Becomes(g)
  BY <1>1 DEF h
<1> HIDE DEF g
<1>11. Settles(Hierarchy, g, r)
  BY <1>7, <1>9, SettlesTwice
<1> QED BY <1>2, <1>3, <1>10, <1>11, Served

\* One step: the invariant, and the caches it may change.
LEMMA NextInv ==
  ASSUME CacheInv, Next
  PROVE  /\ CacheInv'
         /\ \E p \in Processor : \A q \in Place :
              lines'[q] # lines[q] => q.cache \in Mine(p, q.cache.level)
<1>1. CASE \E p \in Processor, line \in Line : \E op \in operations[p][line] : searchData(p, op, line)
  <2>1. PICK p \in Processor, line \in Line : \E op \in operations[p][line] : searchData(p, op, line)
    BY <1>1
  <2>2. PICK op \in operations[p][line] : searchData(p, op, line)
    BY <2>1
  <2>3. lines' = lines
    BY <2>2 DEF searchData
  <2> QED BY <2>2, <2>3, SearchData
<1>2. CASE clock
  <2>1. PICK r \in requests : hit(r) \/ miss(r) \/ install(r) \/ finish(r)
    BY <1>2 DEF clock
  <2>2. r.processor \in Processor
    BY DEF CacheInv, RequestsOK, Request
  <2>3. CASE hit(r)
    BY <2>2, <2>3, HitServed
  <2>4. CASE miss(r)
    <3>1. lines' = lines
      BY <2>4 DEF miss
    <3> QED BY <2>2, <2>4, <3>1, Miss
  <2>5. CASE install(r)
    BY <2>2, <2>5, InstallServed
  <2>6. CASE finish(r)
    <3>1. lines' = lines
      BY <2>6 DEF finish
    <3> QED BY <2>2, <2>6, <3>1, Finish
  <2> QED BY <2>1, <2>3, <2>4, <2>5, <2>6
<1> QED BY <1>1, <1>2 DEF Next

LEMMA StutterInv ==
  ASSUME CacheInv, UNCHANGED vars
  PROVE  CacheInv'
<1>1. Hierarchy' = Hierarchy
  BY DEF vars, Hierarchy
<1> QED BY <1>1 DEF vars, CacheInv, RequestsOK, SearchedOK

-----------------------------------------------------------------------------
(* The theorems                                                            *)

\* The invariant holds throughout.
THEOREM CacheLinesInvariant == Spec => []CacheInv
<1>1. CacheInv /\ [Next]_vars => CacheInv'
  BY NextInv, StutterInv
<1> QED BY <1>1, InitInv, PTL DEF Spec

\* The fields of every line and request, and the number of requests, for any
\* number of lines, processors, sets and ways.
THEOREM TypeCorrect == Spec => []TypeOK
<1>1. CacheInv => TypeOK
  <2>1. Hierarchy.lines = lines
    BY DEF Hierarchy
  <2> QED BY <2>1 DEF CacheInv, ContentsOK, RequestsOK, HierarchyType, TypeOK
<1> QED BY <1>1, CacheLinesInvariant, PTL

\* However hits, answers of the DRAM and evictions of all processors interleave,
\* a line is in a cache once, so read() and write() find the one there is.
THEOREM LineIsInACacheOnce == Spec => []OneCopyPerCache
<1>1. ASSUME NEW S, \A x, y \in S : x = y PROVE Cardinality(S) <= 1
  <2>1. CASE S = {}
    BY <2>1, FS_EmptySet
  <2>2. CASE S # {}
    <3>1. PICK x \in S : TRUE
      BY <2>2
    <3>2. S = {x}
      BY <1>1, <3>1
    <3> QED BY <3>2, FS_Singleton
  <2> QED BY <2>1, <2>2
<1>2. CacheInv => OneCopyPerCache
  BY <1>1 DEF CacheInv, ContentsOK, OneCopy, OneCopyPerCache
<1> QED BY <1>2, CacheLinesInvariant, PTL

\* writeBack() finds every level below a line that it writes back, if processors
\* share the last level only.
THEOREM PointersBelowAreSet == Private /\ Spec => []WriteBackFindsLevelsBelow
<1> SUFFICES ASSUME Private PROVE Spec => []WriteBackFindsLevelsBelow
  OBVIOUS
<1>1. CacheInv => WriteBackFindsLevelsBelow
  <2>1. Hierarchy.lines = lines
    BY DEF Hierarchy
  <2>2. \A q \in Place : q.cache.level \in Level
    BY PlaceType
  <2>3. \A v, w \in Level : v < w <=> w > v
    BY Numbers
  <2> QED BY <2>1, <2>2, <2>3 DEF CacheInv, ContentsOK, BelowOK, Pointer, WriteBackFindsLevelsBelow
<1> QED BY <1>1, CacheLinesInvariant, PTL

\* What is done for one processor changes no line of a cache that only others use,
\* in whatever way the caches are shared.
THEOREM OthersKeepTheirCaches == Spec => PrivateCachesKept
<1>1. ASSUME CacheInv, [Next]_vars
      PROVE  [\E p \in Processor : \A q \in Place :
                lines'[q] # lines[q] => \E op \in Op : Cache(op, q.cache.level, p) = q.cache]_vars
  <2>1. CASE Next
    <3>1. PICK p \in Processor : \A q \in Place : lines'[q] # lines[q] => q.cache \in Mine(p, q.cache.level)
      BY <1>1, <2>1, NextInv
    <3> QED BY <3>1 DEF Mine
  <2>2. CASE UNCHANGED vars
    BY <2>2
  <2> QED BY <1>1, <2>1, <2>2
<1> QED BY <1>1, CacheLinesInvariant, PTL DEF Spec, PrivateCachesKept
=============================================================================
