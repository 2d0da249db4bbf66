------------------------------ MODULE CacheLines ------------------------------
(***************************************************************************)
(* cache/cache.cpp, cache/linha.hpp and what cache_manager.cpp does with   *)
(* the contents of the caches: a request is looked up level by level; a    *)
(* hit copies the line up to the first level, data from the DRAM is        *)
(* installed in every level, and a dirty victim is written back.           *)
(*                                                                         *)
(* Each line has, for each processor, pointers to the lines of the other   *)
(* levels that hold the same address.  They are neither cleared when a     *)
(* clean victim is overwritten nor when a line is cleaned.                 *)
(*                                                                         *)
(* One step is one lookup, or the installation that ends a request.  LRU   *)
(* is a choice of any way of a full set.  MSHR entries, clients and        *)
(* latencies are in CacheManager.                                          *)
(*                                                                         *)
(* A definition with a capitalised suffix, such as SameLine_SameProcessor, *)
(* is a faulty variant of the one it is named after; the specification     *)
(* does not use it.                                                        *)
(***************************************************************************)
EXTENDS Naturals, FiniteSets

CONSTANTS
  Line,           \* line addresses, natural numbers
  operations,     \* of each processor and line, the operations it asks for
  Followed,       \* the lines whose stores the history variable follows
  Processor,
  DATA_LEVELS,    \* the last of them is the LLC
  cache_indexes,  \* of each processor, the cache it uses in each level
  n_sets, n_ways, \* of the caches of each level
  MAX_REQUESTS,   \* bound: requests outstanding at once
  NULL

Level == 0 .. DATA_LEVELS - 1
LLC == DATA_LEVELS - 1
Op == {"READ", "WRITE", "INST"}

\* Instructions have a first level of their own (INSTRUCTION_LEVELS = 1).
Cache(op, level, p) ==
  [kind |-> IF op = "INST" /\ level = 0 THEN "INSTRUCTION" ELSE "DATA",
   level |-> level, index |-> cache_indexes[p][level]]

Caches == {Cache(op, level, p) : op \in Op, level \in Level, p \in Processor}

Ways(cache) == [cache : {cache}, set : 0 .. n_sets[cache.level] - 1, way : 1 .. n_ways[cache.level]]

Place == UNION {Ways(cache) : cache \in Caches}

\* The numbers writeBack() is written with are those of three levels.  Code and
\* data do not share lines: isIn() does not merge an instruction fetch with a
\* load, and the two would install the line twice.
ASSUME HierarchyAssumption ==
  /\ Line \subseteq Nat /\ NULL \notin Line \cup Place
  /\ \A line \in Line :
       LET ops == UNION {operations[p][line] : p \in Processor}
       IN ops \subseteq {"READ", "WRITE"} \/ ops = {"INST"}
  /\ DATA_LEVELS = 3
  /\ \A v \in Level : n_sets[v] \in Nat \ {0} /\ n_ways[v] \in Nat \ {0}
  /\ MAX_REQUESTS \in Nat

VARIABLES
  lines,     \* the lines of all caches
  requests,  \* the requests outstanding
  stored     \* history: the followed lines stored to since they were last sent to the DRAM

vars == <<lines, requests, stored>>

line_t ==
  [tag : Line \cup {NULL}, dirty : BOOLEAN, ptr : [Processor -> [Level -> Place \cup {NULL}]]]

Request ==
  [line : Line, op : Op, processor : Processor, next_level : 0 .. DATA_LEVELS,
   status : {"UNTREATED", "WAIT"}]

\* clean_line() leaves the pointers.
clean_line(l) == [l EXCEPT !.tag = NULL, !.dirty = FALSE]

Allocated == [tag |-> NULL, dirty |-> FALSE, ptr |-> [p \in Processor |-> [v \in Level |-> NULL]]]

Init ==
  /\ lines = [q \in Place |-> Allocated]
  /\ requests = {} /\ stored = {}

-----------------------------------------------------------------------------
(* cache.cpp.  A hierarchy h is the lines, the addresses sent to the DRAM, *)
(* and the place the line was last installed at in each level.             *)

Hierarchy == [lines |-> lines, sent |-> {}, at |-> [v \in Level |-> NULL]]

SetOf(cache, line) == {q \in Place : q.cache = cache /\ q.set = line % n_sets[cache.level]}

Holding(h, cache, line) == {q \in SetOf(cache, line) : h.lines[q].tag = line}

\* What read() tells of a cache: whether a line of the set has the tag.
Hit(cache, line) == Holding(Hierarchy, cache, line) # {}

Changed(h, change(_, _)) == [h EXCEPT !.lines = [q \in Place |-> change(q, @[q])]]

\* The pointers that processor p has in line q.
Pointer_First(h, q, p, level) == h.lines[q].ptr[CHOOSE x \in Processor : TRUE][level]

Pointer(h, q, p, level) == h.lines[q].ptr[p][level]

\* The line leaves the first level: the lines below become dirty.
WriteBackFirst(h, victim, p) ==
  LET below == {Pointer(h, victim, p, v) : v \in 1 .. LLC}
  IN Changed(h, LAMBDA q, l :
       IF q = victim THEN clean_line(l)
       ELSE IF q \in below THEN [l EXCEPT !.dirty = TRUE, !.ptr[p][0] = NULL]
       ELSE l)

\* The line leaves the LLC: the copies this processor has above are dropped.
WriteBackLast(h, victim, p) ==
  LET above == {Pointer(h, victim, p, v) : v \in 0 .. LLC - 1}
  IN Changed(h, LAMBDA q, l : IF q \in above THEN clean_line(l) ELSE l)

\* copyLevels() when there is a line in the first level, else copyNextLevels();
\* the first forgets that the victim itself is dirty.
WriteBackMiddle(h, victim, p, level) ==
  LET first == Pointer(h, victim, p, 0)
      third == IF first = NULL THEN Pointer(h, victim, p, 2)
               ELSE IF h.lines[first].dirty THEN Pointer(h, first, p, 2) ELSE NULL
      copied == Changed(h, LAMBDA q, l :
                  IF q = third THEN [l EXCEPT !.dirty = TRUE]
                  ELSE IF q = first THEN clean_line(l) ELSE l)
      below == {Pointer(h, victim, p, v) : v \in level + 1 .. LLC}
  IN Changed(copied, LAMBDA q, l :
       IF q = victim THEN clean_line(l)
       ELSE IF q \in below
         THEN [l EXCEPT !.ptr[p] = [v \in Level |-> IF v <= level THEN NULL ELSE @[v]]]
       ELSE l)

writeBack(h, victim, p, line) ==
  LET level == victim.cache.level
  IN IF level = 0 THEN WriteBackFirst(h, victim, p)
     ELSE IF level < LLC THEN WriteBackMiddle(h, victim, p, level)
     ELSE [WriteBackLast(h, victim, p) EXCEPT !.sent = @ \cup {line}]

Evicted(h, q, p, line) ==
  IF h.lines[q].dirty THEN writeBack(h, q, p, line) ELSE h

\* The first way that holds nothing, or the one that lru names for the level.
Victim(h, cache, line, lru) ==
  LET empty == {q \in SetOf(cache, line) : h.lines[q].tag = NULL}
  IN IF empty # {} THEN CHOOSE q \in empty : \A e \in empty : q.way <= e.way
     ELSE CHOOSE q \in SetOf(cache, line) : q.way = lru[cache.level]

Filled(h, place, line) ==
  [h EXCEPT !.lines[place].tag = line, !.lines[place].dirty = FALSE, !.at[place.cache.level] = place]

installLine(h, r, cache, lru) ==
  LET place == Victim(h, cache, r.line, lru)
  IN Filled(IF h.lines[place].tag = NULL THEN h ELSE Evicted(h, place, r.processor, r.line),
            place, r.line)

returnLine_NoPointers(h, r, level, lru) ==
  LET source == CHOOSE q \in Holding(h, Cache(r.op, level, r.processor), r.line) : TRUE
      h1 == installLine(h, r, Cache(r.op, level - 1, r.processor), lru)
      copy == h1.at[level - 1]
  IN Changed(h1, LAMBDA q, l :
       IF q = source THEN [l EXCEPT !.ptr[r.processor][level - 1] = copy]
       ELSE IF q = copy
         THEN [l EXCEPT !.dirty = h1.lines[source].dirty,
                        !.ptr[r.processor] = [v \in Level |-> IF v = level THEN source ELSE @[v]]]
       ELSE l)

\* The line is copied from a level to the one above it.
returnLine(h, r, level, lru) ==
  LET source == CHOOSE q \in Holding(h, Cache(r.op, level, r.processor), r.line) : TRUE
      h1 == installLine(h, r, Cache(r.op, level - 1, r.processor), lru)
      copy == h1.at[level - 1]
  IN Changed(h1, LAMBDA q, l :
       IF q = source THEN [l EXCEPT !.ptr[r.processor][level - 1] = copy]
       ELSE IF q = copy
         THEN [l EXCEPT !.dirty = h1.lines[source].dirty,
                        !.ptr[r.processor] =
                          [v \in Level |-> IF v = level THEN source
                                           ELSE IF v > level THEN Pointer(h1, source, r.processor, v)
                                           ELSE @[v]]]
       ELSE l)

\* A store in the first level; if the line is not there, some line is taken for
\* it, whose tag stays what it was.
write(h, r, other) ==
  LET cache == Cache("WRITE", 0, r.processor)
      found == Holding(h, cache, r.line)
      place == IF found # {} THEN CHOOSE q \in found : TRUE
               ELSE CHOOSE q \in SetOf(cache, r.line) : q.way = other
      room == IF found # {} THEN h ELSE Evicted(h, place, r.processor, r.line)
  IN [room EXCEPT !.lines[place].dirty = TRUE]

Written(h, r, other) == IF r.op = "WRITE" THEN write(h, r, other) ELSE h

-----------------------------------------------------------------------------
(* cache_manager.cpp                                                       *)

SameLine_SameProcessor(r, s) ==
  r.line = s.line /\ (r.op = "INST" <=> s.op = "INST") /\ r.processor = s.processor

SameLine(r, s) == r.line = s.line /\ (r.op = "INST" <=> s.op = "INST")

\* A request for a line that is being looked for is merged: the one outstanding
\* goes on as what it is, even when the new one is a store.
isIn(r) == \E s \in requests : SameLine(r, s)

searchData(p, op, line) ==
  LET r == [line |-> line, op |-> op, processor |-> p, next_level |-> 0, status |-> "UNTREATED"]
  IN /\ requests' = IF isIn(r) THEN requests ELSE requests \cup {r}
     /\ Cardinality(requests') <= MAX_REQUESTS
     /\ stored' = IF op = "WRITE" THEN stored \cup ({line} \cap Followed) ELSE stored
     /\ UNCHANGED lines

\* The caches become h, and what h sent to the DRAM is up to date there.
Becomes(h) ==
  /\ lines' = h.lines
  /\ stored' = stored \ h.sent

\* The ways the LRU replacement may name in the first `levels` levels.
Victims(r, levels) ==
  LET full(v) == \A q \in SetOf(Cache(r.op, v, r.processor), r.line) : lines[q].tag # NULL
      choice == [v \in Level |-> IF v < levels /\ full(v) THEN 1 .. n_ways[v] ELSE {1}]
  IN {lru \in [Level -> UNION {choice[v] : v \in Level}] : \A v \in Level : lru[v] \in choice[v]}

Found(r) == [r EXCEPT !.status = "WAIT", !.next_level = @ + 1]

\* The line is copied from the level it was found in up to the first.
Copied(r, lru) ==
  LET second == IF r.next_level = LLC THEN returnLine(Hierarchy, r, LLC, lru) ELSE Hierarchy
  IN IF r.next_level = 0 THEN Hierarchy ELSE returnLine(second, r, 1, lru)

\* cache_search(), HIT.
hit(r) ==
  /\ r.status = "UNTREATED" /\ r.next_level < DATA_LEVELS
  /\ Hit(Cache(r.op, r.next_level, r.processor), r.line)
  /\ \E lru \in Victims(r, r.next_level), other \in 1 .. n_ways[0] :
       Becomes(Written(Copied(r, lru), r, other))
  /\ requests' = (requests \ {r}) \cup {Found(r)}

\* cache_search(), MISS: the next level, or the DRAM, is next.
miss(r) ==
  /\ r.status = "UNTREATED" /\ r.next_level < DATA_LEVELS
  /\ ~Hit(Cache(r.op, r.next_level, r.processor), r.line)
  /\ requests' = (requests \ {r}) \cup {[r EXCEPT !.next_level = @ + 1]}
  /\ UNCHANGED <<lines, stored>>

\* installCacheLines(): first level first, then every line is made to point to
\* the others.
Installed(r, lru) ==
  LET first == installLine(Hierarchy, r, Cache(r.op, 0, r.processor), lru)
      second == installLine(first, r, Cache(r.op, 1, r.processor), lru)
  IN installLine(second, r, Cache(r.op, LLC, r.processor), lru)

Linked(h, p) ==
  Changed(h, LAMBDA q, l :
    IF \E v \in Level : q = h.at[v]
      THEN [l EXCEPT !.ptr[p] = [v \in Level |-> IF q = h.at[v] THEN @[v] ELSE h.at[v]]]
      ELSE l)

\* The DRAM has answered: install() and finishRequest().
install(r) ==
  /\ r.status = "UNTREATED" /\ r.next_level = DATA_LEVELS
  /\ \E lru \in Victims(r, DATA_LEVELS), other \in 1 .. n_ways[0] :
       Becomes(Written(Linked(Installed(r, lru), r.processor), r, other))
  /\ requests' = requests \ {r}

\* finishRequest() of a request that hit.
finish(r) ==
  /\ r.status = "WAIT"
  /\ requests' = requests \ {r}
  /\ UNCHANGED <<lines, stored>>

clock == \E r \in requests : hit(r) \/ miss(r) \/ install(r) \/ finish(r)

Next ==
  \/ \E p \in Processor, line \in Line : \E op \in operations[p][line] : searchData(p, op, line)
  \/ clock

Spec == Init /\ [][Next]_vars

-----------------------------------------------------------------------------
(* Properties                                                              *)

TypeOK ==
  /\ lines \in [Place -> line_t]
  /\ requests \subseteq Request /\ Cardinality(requests) <= MAX_REQUESTS
  /\ stored \subseteq Followed

\* No set holds a line twice, although a line may be installed by a hit below,
\* by the answer of the DRAM or by another processor between two lookups of a
\* request: read(), write() and returnLine() all take the first line they find.
OneCopyPerCache ==
  \A cache \in Caches, line \in Line : Cardinality(Holding(Hierarchy, cache, line)) <= 1

\* writeBack() dereferences the pointers of a dirty line to the levels below; it
\* asserts that they are not NULL for one of them and uses them all.
WriteBackFindsLevelsBelow ==
  \A q \in Place : lines[q].tag # NULL =>
    \A p \in Processor, level \in Level :
      (q.cache.level < level /\ Cache("READ", q.cache.level, p) = q.cache) => lines[q].ptr[p][level] # NULL

\* A step for one processor leaves alone the caches that only others use: what
\* it evicts from a shared level drops and marks no line of theirs.
PrivateCachesKept ==
  [][\E p \in Processor : \A q \in Place :
       lines'[q] # lines[q] => \E op \in Op : Cache(op, q.cache.level, p) = q.cache]_vars

\* A line that was stored to, and that no request is about, is dirty in some
\* cache until it is written to the DRAM: no store is lost.
StoresKept ==
  \A line \in stored :
    (\E r \in requests : r.line = line) \/ (\E q \in Place : lines[q].tag = line /\ lines[q].dirty)
=============================================================================
