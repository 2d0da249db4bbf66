------------------------- MODULE CacheManagerProofs -------------------------
(***************************************************************************)
(* cache/cache_manager.cpp for any number of processors, caches, lines,    *)
(* clients and requests: its MSHR accounting; who knows a package (the     *)
(* table, the controllers and the clients), with any number of instruction *)
(* levels; and, with any number of channels, banks and entries, that it    *)
(* agrees with the memory controller below it on the packages they share.  *)
(* All but the last part is about CacheManager alone: its Spec, where the  *)
(* memory answers at will.                                                 *)
(***************************************************************************)
EXTENDS MemorySystem, FiniteSetTheorems, TLAPS

USE DEF Plain, NearData, Op, Kind

-----------------------------------------------------------------------------
(* Types                                                                   *)

\* Removing one entry of a table leaves a shorter table.
LEMMA EraseType ==
  ASSUME NEW S, NEW seq \in Seq(S), NEW j \in DOMAIN seq
  PROVE  Erase(seq, j) \in Seq(S) /\ Len(Erase(seq, j)) = Len(seq) - 1
<1>1. Len(seq) - 1 \in Nat
  OBVIOUS
<1>2. Erase(seq, j) \in [1 .. Len(seq) - 1 -> S]
  BY DEF Erase
<1> QED BY <1>1, <1>2

\* What a constructor fills in is a package.
LEMMA NewPackageType ==
  ASSUME NEW op \in Op, NEW line \in Line \cup {NoLine}, NEW p \in Processor,
         NEW S \in SUBSET Client
  PROVE  NewPackage(op, line, p, S) \in Package
BY LevelsAssumption DEF NewPackage, Package

LEMMA DeletedType == Deleted \in Package
<1>1. 0 \in Processor
  BY ProcessorsAssumption DEF Processor
<1>2. NewPackage("READ", NoLine, 0, {}) \in Package
  BY <1>1, NewPackageType
<1> QED BY <1>2 DEF Deleted, Package

\* Submitting a request keeps the types.
LEMMA SearchDataType ==
  ASSUME TypeOK, NEW op \in Op, NEW line \in Line \cup {NoLine}, NEW p \in Processor,
         NEW S \in SUBSET Client, searchData(op, line, p, S)
  PROVE  /\ requests' \in Seq(Request) /\ package' \in [Request -> Package]
         /\ i' = 1
<1>1. CASE isIn(op, line) /\ Merge(op, line, S)
  <2>1. PICK j \in DOMAIN requests :
          package' = [package EXCEPT ![requests[j]].clients = @ \cup S]
    BY <1>1 DEF Merge, SameLine
  <2>2. package[requests[j]] \in Package
    BY DEF TypeOK
  <2>3. package[requests[j]].clients \cup S \in SUBSET Client
    BY <2>2 DEF Package
  <2>4. [package[requests[j]] EXCEPT !.clients = @ \cup S] \in Package
    BY <2>2, <2>3 DEF Package
  <2> QED BY <1>1, <2>1, <2>4 DEF TypeOK, Merge, searchData
<1>2. CASE ~isIn(op, line) /\ Enter(op, line, p, S)
  <2>1. PICK r \in Request :
          /\ package' = [package EXCEPT ![r] = NewPackage(op, line, p, S)]
          /\ requests' = Append(requests, r)
    BY <1>2 DEF Enter
  <2>2. NewPackage(op, line, p, S) \in Package
    BY NewPackageType
  <2>3. requests \in Seq(Request) /\ package \in [Request -> Package]
    BY DEF TypeOK
  <2>4. requests' \in Seq(Request)
    BY <2>1, <2>3
  <2>5. package' \in [Request -> Package]
    BY <2>1, <2>2, <2>3
  <2> QED BY <2>4, <2>5 DEF searchData
<1> QED BY <1>1, <1>2 DEF searchData

\* The loop index stays inside the table or starts again.
LEMMA AdvanceType ==
  ASSUME NEW n \in Nat, NEW j \in Nat \ {0}
  PROVE  Advance(j, n) = 1 \/ Advance(j, n) \in 1 .. n
BY DEF Advance

\* The entry the walk has reached is in the table.
LEMMA Reached == TypeOK /\ requests # <<>> => i \in DOMAIN requests /\ requests[i] \in Request
BY DEF TypeOK

\* A processor's cache of a level is one of the caches.
LEMMA CacheType ==
  ASSUME NEW p \in Processor, NEW l \in Level
  PROVE  instruction_cache(p, l) \in Cache /\ data_cache(p, l) \in Cache
<1>1. DCACHE_AMOUNT[l] \in 1 .. NUMBER_OF_PROCESSORS
  BY AmountAssumption
<1>2. ASSUME NEW n \in Nat, NEW d \in Nat \ {0} PROVE n % d \in 0 .. d - 1
  OBVIOUS
<1>3. p \in Nat /\ DCACHE_AMOUNT[l] \in Nat \ {0} /\ NUMBER_OF_PROCESSORS \in Nat
  BY <1>1, ProcessorsAssumption DEF Processor
<1>4. p % DCACHE_AMOUNT[l] \in 0 .. DCACHE_AMOUNT[l] - 1
  BY <1>2, <1>3
<1>5. p % DCACHE_AMOUNT[l] \in Processor
  BY <1>1, <1>3, <1>4 DEF Processor
<1> QED BY <1>5 DEF instruction_cache, data_cache, generateIndexArray, Cache

LEMMA SearchedCacheType ==
  ASSUME NEW k \in Package, NEW l \in Level
  PROVE  SearchedCache(k, l) \in Cache
<1>1. k.processor_id \in Processor
  BY DEF Package
<1> QED BY <1>1, CacheType DEF SearchedCache

\* One iteration of the walk keeps the types.
LEMMA ClockType == TypeOK /\ clock => TypeOK'
<1> SUFFICES ASSUME TypeOK, clock PROVE TypeOK'
  OBVIOUS
<1> DEFINE r == requests[i]
<1>0. /\ requests # <<>> /\ i \in DOMAIN requests /\ r \in Request
      /\ package[r] \in Package /\ requests \in Seq(Request)
      /\ i \in Nat \ {0} /\ Len(requests) \in Nat
      /\ DOMAIN requests = 1 .. Len(requests)
  BY Reached DEF TypeOK, clock
<1>1. CASE finishRequest(r)
  <2>1. requests' \in Seq(Request) /\ Len(requests') = Len(requests) - 1
    BY <1>0, <1>1, EraseType DEF finishRequest
  <2>2. i' = 1 \/ i' \in DOMAIN requests'
    BY <1>0, <1>1, <2>1, AdvanceType DEF finishRequest
  <2>3. package' \in [Request -> Package]
    BY <1>1, DeletedType DEF finishRequest, TypeOK
  <2>4. count' \in [Cache -> Int]
    BY <1>1 DEF finishRequest, TypeOK
  <2>5. client' \in [Client -> {"idle", "waiting", "ready"}]
    BY <1>1 DEF finishRequest, TypeOK
  <2> QED BY <1>1, <2>1, <2>2, <2>3, <2>4, <2>5 DEF finishRequest, TypeOK
<1>i. ASSUME i' = Advance(i + 1, Len(requests)), requests' = requests
      PROVE  i' = 1 \/ i' \in DOMAIN requests'
  <2>1. i + 1 \in Nat \ {0}
    BY <1>0
  <2> QED BY <1>0, <1>i, <2>1, AdvanceType
<1>2. ASSUME NEW outcome \in {"HIT", "MISS"}, cache_search(r, outcome),
             i' = Advance(i + 1, Len(requests))
      PROVE  TypeOK'
  <2> DEFINE l == package[r].next_level
  <2>1. l \in Level /\ l + 1 \in 0 .. DATA_LEVELS
    BY <1>0, <1>2, LevelsAssumption DEF cache_search, Searchable, Package, Level
  <2>2. [package[r] EXCEPT !.sent_to_cache_level = @ \cup {l}, !.next_level = l + 1,
                           !.due = FALSE,
                           !.status = IF outcome = "HIT" THEN "WAIT" ELSE "UNTREATED"] \in Package
    <3>1. package[r].sent_to_cache_level \cup {l} \in SUBSET Level
      BY <1>0, <2>1 DEF Package
    <3>2. (IF outcome = "HIT" THEN "WAIT" ELSE "UNTREATED") \in {"FREE", "UNTREATED", "WAIT", "VIMA"}
      OBVIOUS
    <3> HIDE DEF l, r
    <3> QED BY <1>0, <2>1, <3>1, <3>2 DEF Package
  <2>3. package' = [package EXCEPT ![r] =
           [package[r] EXCEPT !.sent_to_cache_level = @ \cup {l}, !.next_level = l + 1,
                           !.due = FALSE,
                           !.status = IF outcome = "HIT" THEN "WAIT" ELSE "UNTREATED"]]
    BY <1>0, <1>2 DEF cache_search, TypeOK
  <2>4. package' \in [Request -> Package]
    BY <1>0, <2>2, <2>3 DEF TypeOK
  <2>5. count' \in [Cache -> Int]
    <3>1. SearchedCache(package[r], l) \in Cache
      BY <1>0, <2>1, SearchedCacheType
    <3>2. count' = [count EXCEPT ![SearchedCache(package[r], l)] = @ + 1]
      BY <1>2 DEF cache_search
    <3> HIDE DEF l, r
    <3> QED BY <3>1, <3>2 DEF TypeOK
  <2> QED BY <1>2, <1>i, <2>4, <2>5 DEF cache_search, TypeOK
<1>3. ASSUME requestDRAM(r) \/ addRequestHive(r), i' = Advance(i + 1, Len(requests))
      PROVE  TypeOK'
  <2>1. [package[r] EXCEPT !.sent_to_ram = TRUE] \in Package
    BY <1>0 DEF Package
  <2>2. package' \in [Request -> Package]
    BY <1>0, <1>3, <2>1 DEF requestDRAM, addRequestHive, TypeOK
  <2> QED BY <1>0, <1>3, <1>i, <2>2 DEF requestDRAM, addRequestHive, TypeOK
<1>4. ASSUME addRequestVima(r), i' = Advance(i + 1, Len(requests)) PROVE TypeOK'
  <2>1. [package[r] EXCEPT !.sent_to_ram = TRUE, !.status = "VIMA"] \in Package
    BY <1>0 DEF Package
  <2>2. package' \in [Request -> Package]
    BY <1>0, <1>4, <2>1 DEF addRequestVima, TypeOK
  <2> QED BY <1>0, <1>4, <1>i, <2>2 DEF addRequestVima, TypeOK
<1>5. ASSUME Pass(r), i' = Advance(i + 1, Len(requests)) PROVE TypeOK'
  BY <1>5, <1>i DEF Pass, TypeOK
<1> QED BY <1>1, <1>2, <1>3, <1>4, <1>5 DEF clock

\* Every step keeps the types.
LEMMA StepTypeOK == TypeOK /\ [Next]_vars => TypeOK'
<1> SUFFICES ASSUME TypeOK, [Next]_vars PROVE TypeOK'
  OBVIOUS
<1>1. ASSUME NEW p \in Processor, NEW op \in Op, NEW line \in Line \cup {NoLine},
             NEW c \in Client, Ask(op, line, p, c)
      PROVE  TypeOK'
  <2>1. searchData(op, line, p, {c}) /\ {c} \in SUBSET Client
    BY <1>1 DEF Ask
  <2>2. requests' \in Seq(Request) /\ package' \in [Request -> Package] /\ i' = 1
    BY <2>1, SearchDataType
  <2> QED BY <1>1, <2>1, <2>2 DEF Ask, searchData, TypeOK
<1>2. ASSUME NEW p \in Processor, NEW line \in Line, mob_write(p, line)
      PROVE  TypeOK'
  <2>1. searchData("WRITE", line, p, {}) /\ {} \in SUBSET Client
    BY <1>2 DEF mob_write
  <2>2. requests' \in Seq(Request) /\ package' \in [Request -> Package] /\ i' = 1
    BY <2>1, SearchDataType
  <2> QED BY <1>2, <2>1, <2>2 DEF mob_write, searchData, TypeOK
<1>3. CASE Submit
  BY <1>1, <1>2, <1>3 DEF Submit, fetch, mob_read, mob_vima, mob_hive
<1>4. ASSUME NEW c \in Client, Consume(c) PROVE TypeOK'
  BY <1>4 DEF Consume, TypeOK
<1>5. CASE clock
  BY <1>5, ClockType
<1>6. ASSUME NEW r \in Request, Elapse(r) PROVE TypeOK'
  <2>1. [package[r] EXCEPT !.due = TRUE] \in Package
    BY DEF TypeOK, Package
  <2>2. package' \in [Request -> Package]
    BY <1>6, <2>1 DEF Elapse, TypeOK
  <2> QED BY <1>6, <2>2 DEF Elapse, TypeOK
<1>7. ASSUME NEW r \in Request, Answer(r) PROVE TypeOK'
  <2>1. [package[r] EXCEPT !.status = "WAIT", !.due = FALSE] \in Package
    BY DEF TypeOK, Package
  <2>2. package' \in [Request -> Package]
    BY <1>7, <2>1 DEF Answer, TypeOK
  <2> QED BY <1>7, <2>2 DEF Answer, TypeOK
<1>8. CASE UNCHANGED vars
  BY <1>8 DEF vars, TypeOK
<1> QED BY <1>3, <1>4, <1>5, <1>6, <1>7, <1>8 DEF Next

LEMMA InitTypeOK == Init => TypeOK
BY DeletedType DEF Init, TypeOK

\* The table, the packages and the counters keep their types (TypeOK).
THEOREM TypeCorrect == Spec => []TypeOK
BY InitTypeOK, StepTypeOK, PTL DEF Spec

-----------------------------------------------------------------------------
(* MSHR accounting                                                         *)

\* A package has searched the levels below next_level, each once.
SearchedBelowOf(k) == k.sent_to_cache_level = 0 .. k.next_level - 1
SearchedBelow == \A r \in Request : SearchedBelowOf(package[r])

\* With one instruction cache level, finishRequest gives back exactly what the
\* searches took.
LEMMA ReleasedIsHeld ==
  ASSUME INSTRUCTION_LEVELS = 1, NEW k \in Package, SearchedBelowOf(k)
  PROVE  Released(k) = Held(k)
<1>1. \A m \in k.sent_to_cache_level : m \in Nat /\ m < k.next_level
  BY DEF SearchedBelowOf, Package
<1>2. CASE k.op = "INST"
  <2>1. \A m \in k.sent_to_cache_level : m < INSTRUCTION_LEVELS <=> m = 0
    BY <1>1
  <2>2. \A m \in k.sent_to_cache_level : INSTRUCTION_LEVELS <= m /\ m < k.next_level <=> m # 0
    BY <1>1
  <2> QED BY <1>2, <2>1, <2>2 DEF Released, Held, SearchedCache
<1>3. CASE k.op # "INST"
  BY <1>1, <1>3 DEF Released, Held, SearchedCache
<1> QED BY <1>2, <1>3

\* The next level's cache is none of those the package already holds.
LEMMA NextEntryIsNew ==
  ASSUME NEW k \in Package, SearchedBelowOf(k)
  PROVE  SearchedCache(k, k.next_level) \notin Held(k)
<1>1. \A m : SearchedCache(k, m)[2] = m
  BY DEF SearchedCache, instruction_cache, data_cache
<1>2. k.next_level \notin k.sent_to_cache_level
  BY DEF SearchedBelowOf, Package
<1> QED BY <1>1, <1>2 DEF Held

\* The holders of a cache's entries when one package changes.
LEMMA HoldersFinite ==
  ASSUME NEW f, NEW c PROVE IsFiniteSet(Holders(f, c)) /\ Cardinality(Holders(f, c)) \in Nat
<1>1. Holders(f, c) \subseteq Request
  BY DEF Holders
<1> QED BY <1>1, RequestAssumption, FS_Subset, FS_CardinalityType

LEMMA HoldersChange ==
  ASSUME NEW f \in [Request -> Package], NEW r \in Request, NEW k \in Package, NEW c
  PROVE  /\ (c \in Held(k) <=> c \in Held(f[r])) =>
              Holders([f EXCEPT ![r] = k], c) = Holders(f, c)
         /\ c \in Held(k) /\ c \notin Held(f[r]) =>
              Cardinality(Holders([f EXCEPT ![r] = k], c)) = Cardinality(Holders(f, c)) + 1
         /\ c \notin Held(k) /\ c \in Held(f[r]) =>
              Cardinality(Holders([f EXCEPT ![r] = k], c)) = Cardinality(Holders(f, c)) - 1
<1> DEFINE g == [f EXCEPT ![r] = k]
<1>0. \A q \in Request : g[q] = IF q = r THEN k ELSE f[q]
  OBVIOUS
<1> HIDE DEF g
<1>1. ASSUME c \in Held(k) <=> c \in Held(f[r]) PROVE Holders(g, c) = Holders(f, c)
  BY <1>0, <1>1 DEF Holders
<1>2. ASSUME c \in Held(k), c \notin Held(f[r])
      PROVE  Cardinality(Holders(g, c)) = Cardinality(Holders(f, c)) + 1
  <2>1. Holders(g, c) = Holders(f, c) \cup {r} /\ r \notin Holders(f, c)
    BY <1>0, <1>2 DEF Holders
  <2> QED BY <2>1, HoldersFinite, FS_AddElement
<1>3. ASSUME c \notin Held(k), c \in Held(f[r])
      PROVE  Cardinality(Holders(g, c)) = Cardinality(Holders(f, c)) - 1
  <2>1. Holders(g, c) = Holders(f, c) \ {r} /\ r \in Holders(f, c)
    BY <1>0, <1>3 DEF Holders
  <2> QED BY <2>1, HoldersFinite, FS_RemoveElement
<1> QED BY <1>1, <1>2, <1>3 DEF g

\* A deleted package holds nothing, so it can be reused.
FreeUnused == \A r \in Request : package[r].status = "FREE" => package[r].next_level = 0

Accounting == SearchedBelow /\ FreeUnused /\ MSHRConservation

\* A step that changes other fields of a package, and no counter.
LEMMA KeepsAccounting ==
  ASSUME TypeOK, Accounting, NEW r \in Request, NEW k \in Package,
         package' = [package EXCEPT ![r] = k], count' = count,
         k.next_level = package[r].next_level,
         k.sent_to_cache_level = package[r].sent_to_cache_level,
         \/ k.op = package[r].op /\ k.processor_id = package[r].processor_id
         \/ package[r].status = "FREE",
         k.status = "FREE" => package[r].status = "FREE"
  PROVE  Accounting'
<1>0. /\ package \in [Request -> Package]
      /\ \A q \in Request : package'[q] = IF q = r THEN k ELSE package[q]
  BY DEF TypeOK
<1>1. SearchedBelow'
  BY <1>0 DEF Accounting, SearchedBelow, SearchedBelowOf
<1>2. FreeUnused'
  BY <1>0 DEF Accounting, FreeUnused
<1>3. Held(k) = Held(package[r])
  <2>1. CASE package[r].status = "FREE"
    <3>1. k.sent_to_cache_level = {} /\ package[r].sent_to_cache_level = {}
      BY <2>1 DEF Accounting, FreeUnused, SearchedBelow, SearchedBelowOf
    <3> QED BY <3>1 DEF Held
  <2>2. CASE k.op = package[r].op /\ k.processor_id = package[r].processor_id
    BY <2>2 DEF Held, SearchedCache
  <2> QED BY <2>1, <2>2
<1>4. \A c \in Cache : Holders(package', c) = Holders(package, c)
  BY <1>0, <1>3, HoldersChange
<1>5. MSHRConservation'
  BY <1>4 DEF Accounting, MSHRConservation
<1> QED BY <1>1, <1>2, <1>5 DEF Accounting

\* Submitting takes no entry: the package is merged, or enters unsearched.
LEMMA SubmitAccounting ==
  ASSUME TypeOK, Accounting, NEW op \in Op, NEW line \in Line \cup {NoLine},
         NEW p \in Processor, NEW S \in SUBSET Client, searchData(op, line, p, S)
  PROVE  Accounting'
<1>0. count' = count
  BY DEF searchData
<1>1. CASE Merge(op, line, S)
  <2>1. PICK j \in DOMAIN requests :
          package' = [package EXCEPT ![requests[j]].clients = @ \cup S]
    BY <1>1 DEF Merge, SameLine
  <2> DEFINE r == requests[j]
             k == [package[r] EXCEPT !.clients = @ \cup S]
  <2>2. r \in Request /\ package[r] \in Package
    BY DEF TypeOK
  <2>3. k \in Package
    <3>1. package[r].clients \cup S \in SUBSET Client
      BY <2>2 DEF Package
    <3> QED BY <2>2, <3>1 DEF Package
  <2>4. package' = [package EXCEPT ![r] = k]
    BY <2>1
  <2>5. /\ k.next_level = package[r].next_level /\ k.status = package[r].status
        /\ k.sent_to_cache_level = package[r].sent_to_cache_level
        /\ k.op = package[r].op /\ k.processor_id = package[r].processor_id
    BY <2>2 DEF Package
  <2> HIDE DEF r, k
  <2> QED BY <1>0, <2>2, <2>3, <2>4, <2>5, KeepsAccounting
<1>2. CASE Enter(op, line, p, S)
  <2> DEFINE k == NewPackage(op, line, p, S)
  <2>1. PICK r \in Request :
          package[r].status = "FREE" /\ package' = [package EXCEPT ![r] = k]
    BY <1>2 DEF Enter
  <2>2. package[r].next_level = 0 /\ package[r].sent_to_cache_level = {}
    BY <2>1 DEF Accounting, FreeUnused, SearchedBelow, SearchedBelowOf
  <2>3. k \in Package
    BY NewPackageType
  <2>4. k.next_level = 0 /\ k.sent_to_cache_level = {} /\ k.status = "UNTREATED"
    BY DEF NewPackage
  <2> HIDE DEF k
  <2> QED BY <1>0, <2>1, <2>2, <2>3, <2>4, KeepsAccounting
<1> QED BY <1>1, <1>2 DEF searchData

\* A search takes one entry, of a cache the package does not hold yet.
LEMMA SearchAccounting ==
  ASSUME TypeOK, Accounting, NEW r \in Request, NEW outcome \in {"HIT", "MISS"},
         cache_search(r, outcome)
  PROVE  Accounting'
<1> DEFINE l == package[r].next_level
           c0 == SearchedCache(package[r], l)
           k == [package[r] EXCEPT !.sent_to_cache_level = @ \cup {l}, !.next_level = l + 1,
                   !.due = FALSE,
                   !.status = IF outcome = "HIT" THEN "WAIT" ELSE "UNTREATED"]
<1>0. /\ package \in [Request -> Package] /\ package[r] \in Package
      /\ l \in Level /\ l + 1 \in 0 .. DATA_LEVELS /\ l \in Nat
  BY LevelsAssumption DEF TypeOK, cache_search, Searchable, Package, Level
<1>1. package' = [package EXCEPT ![r] = k] /\ count' = [count EXCEPT ![c0] = @ + 1]
  BY <1>0 DEF cache_search
<1>2. /\ k.next_level = l + 1
      /\ k.sent_to_cache_level = package[r].sent_to_cache_level \cup {l}
      /\ k.op = package[r].op /\ k.processor_id = package[r].processor_id
      /\ k.status # "FREE"
  BY <1>0 DEF Package
<1>3. k \in Package
  <2>1. package[r].sent_to_cache_level \cup {l} \in SUBSET Level
    BY <1>0 DEF Package
  <2>2. (IF outcome = "HIT" THEN "WAIT" ELSE "UNTREATED") \in {"FREE", "UNTREATED", "WAIT", "VIMA"}
    OBVIOUS
  <2> HIDE DEF l
  <2> QED BY <1>0, <2>1, <2>2 DEF Package
<1>4. SearchedBelowOf(package[r]) /\ c0 \notin Held(package[r]) /\ c0 \in Cache
  BY <1>0, NextEntryIsNew, SearchedCacheType DEF Accounting, SearchedBelow
<1>5. Held(k) = Held(package[r]) \cup {c0}
  <2>1. \A m : SearchedCache(k, m) = SearchedCache(package[r], m)
    BY <1>2 DEF SearchedCache
  <2> HIDE DEF k
  <2> QED BY <1>2, <2>1 DEF Held
<1> HIDE DEF k, c0, l
<1>6. \A q \in Request : package'[q] = IF q = r THEN k ELSE package[q]
  BY <1>0, <1>1
<1>7. SearchedBelow'
  <2>1. k.sent_to_cache_level = 0 .. k.next_level - 1
    <3>1. package[r].sent_to_cache_level = 0 .. l - 1
      BY <1>4 DEF SearchedBelowOf, l
    <3> QED BY <1>0, <1>2, <3>1
  <2> QED BY <1>6, <2>1 DEF Accounting, SearchedBelow, SearchedBelowOf
<1>8. FreeUnused'
  BY <1>2, <1>6 DEF Accounting, FreeUnused
<1>9. ASSUME NEW c \in Cache PROVE count'[c] = Cardinality(Holders(package', c))
  <2>1. count'[c] = IF c = c0 THEN count[c] + 1 ELSE count[c]
    BY <1>1, <1>4 DEF TypeOK
  <2>2. count[c] = Cardinality(Holders(package, c))
    BY DEF Accounting, MSHRConservation
  <2>3. Holders(package', c) = Holders([package EXCEPT ![r] = k], c)
    BY <1>1
  <2>4. CASE c = c0
    <3>1. c \in Held(k) /\ c \notin Held(package[r])
      BY <1>4, <1>5, <2>4
    <3>2. Cardinality(Holders([package EXCEPT ![r] = k], c)) = Cardinality(Holders(package, c)) + 1
      BY <1>0, <1>3, <3>1, HoldersChange
    <3> QED BY <2>1, <2>2, <2>3, <2>4, <3>2
  <2>5. CASE c # c0
    <3>1. c \in Held(k) <=> c \in Held(package[r])
      BY <1>5, <2>5
    <3>2. Holders(package', c) = Holders(package, c)
      BY <1>0, <1>3, <2>3, <3>1, HoldersChange
    <3> QED BY <2>1, <2>2, <2>5, <3>2
  <2> QED BY <2>4, <2>5
<1> QED BY <1>7, <1>8, <1>9 DEF Accounting, MSHRConservation

\* Finishing gives back every entry the package holds.
LEMMA FinishAccounting ==
  ASSUME INSTRUCTION_LEVELS = 1, TypeOK, Accounting, NEW r \in Request, finishRequest(r)
  PROVE  Accounting'
<1>0. /\ package \in [Request -> Package] /\ package[r] \in Package
      /\ SearchedBelowOf(package[r])
  BY DEF TypeOK, Accounting, SearchedBelow
<1>1. Released(package[r]) = Held(package[r])
  BY <1>0, ReleasedIsHeld
<1>2. /\ package' = [package EXCEPT ![r] = Deleted]
      /\ \A q \in Request : package'[q] = IF q = r THEN Deleted ELSE package[q]
  BY <1>0 DEF finishRequest
<1>3. /\ Deleted.next_level = 0 /\ Deleted.sent_to_cache_level = {}
      /\ Held(Deleted) = {} /\ SearchedBelowOf(Deleted)
  <2>1. Deleted.next_level = 0 /\ Deleted.sent_to_cache_level = {}
    BY DEF Deleted, NewPackage
  <2>2. 0 .. 0 - 1 = {}
    OBVIOUS
  <2> QED BY <2>1, <2>2 DEF Held, SearchedBelowOf
<1>4. SearchedBelow'
  BY <1>2, <1>3 DEF Accounting, SearchedBelow
<1>5. FreeUnused'
  BY <1>2, <1>3 DEF Accounting, FreeUnused
<1>6. ASSUME NEW c \in Cache PROVE count'[c] = Cardinality(Holders(package', c))
  <2>1. count'[c] = IF c \in Held(package[r]) THEN count[c] - 1 ELSE count[c]
    BY <1>1 DEF finishRequest
  <2>2. count[c] = Cardinality(Holders(package, c))
    BY DEF Accounting, MSHRConservation
  <2>3. c \notin Held(Deleted)
    BY <1>3
  <2> DEFINE after == [package EXCEPT ![r] = Deleted]
  <2>4. /\ c \notin Held(package[r]) => Holders(after, c) = Holders(package, c)
        /\ c \in Held(package[r]) =>
             Cardinality(Holders(after, c)) = Cardinality(Holders(package, c)) - 1
    BY <1>0, <2>3, DeletedType, HoldersChange
  <2>5. package' = after
    BY <1>2
  <2> HIDE DEF after
  <2>6. CASE c \in Held(package[r])
    BY <2>1, <2>2, <2>4, <2>5, <2>6
  <2>7. CASE c \notin Held(package[r])
    BY <2>1, <2>2, <2>4, <2>5, <2>7
  <2> QED BY <2>6, <2>7
<1> QED BY <1>4, <1>5, <1>6 DEF Accounting, MSHRConservation

\* One iteration of the walk keeps the accounts.
LEMMA ClockAccounting == INSTRUCTION_LEVELS = 1 /\ TypeOK /\ Accounting /\ clock => Accounting'
<1> SUFFICES ASSUME INSTRUCTION_LEVELS = 1, TypeOK, Accounting, clock PROVE Accounting'
  OBVIOUS
<1> DEFINE r == requests[i]
<1>0. r \in Request /\ package \in [Request -> Package] /\ package[r] \in Package
  BY Reached DEF TypeOK, clock
<1>1. CASE finishRequest(r)
  BY <1>0, <1>1, FinishAccounting
<1>2. ASSUME NEW outcome \in {"HIT", "MISS"}, cache_search(r, outcome) PROVE Accounting'
  BY <1>0, <1>2, SearchAccounting
<1>3. CASE requestDRAM(r) \/ addRequestHive(r)
  <2> DEFINE k == [package[r] EXCEPT !.sent_to_ram = TRUE]
  <2>1. /\ k \in Package /\ k.status = package[r].status
        /\ k.next_level = package[r].next_level
        /\ k.sent_to_cache_level = package[r].sent_to_cache_level
        /\ k.op = package[r].op /\ k.processor_id = package[r].processor_id
    BY <1>0 DEF Package
  <2>2. package' = [package EXCEPT ![r] = k] /\ count' = count
    BY <1>0, <1>3 DEF requestDRAM, addRequestHive
  <2> HIDE DEF k, r
  <2> QED BY <1>0, <2>1, <2>2, KeepsAccounting
<1>4. CASE addRequestVima(r)
  <2> DEFINE k == [package[r] EXCEPT !.sent_to_ram = TRUE, !.status = "VIMA"]
  <2>1. /\ k \in Package /\ k.status # "FREE"
        /\ k.next_level = package[r].next_level
        /\ k.sent_to_cache_level = package[r].sent_to_cache_level
        /\ k.op = package[r].op /\ k.processor_id = package[r].processor_id
    BY <1>0 DEF Package
  <2>2. package' = [package EXCEPT ![r] = k] /\ count' = count
    BY <1>0, <1>4 DEF addRequestVima
  <2> HIDE DEF k, r
  <2> QED BY <1>0, <2>1, <2>2, KeepsAccounting
<1>5. CASE Pass(r)
  BY <1>5 DEF Pass, Accounting, SearchedBelow, FreeUnused, MSHRConservation
<1> QED BY <1>1, <1>2, <1>3, <1>4, <1>5 DEF clock

\* Every step keeps the accounts.
LEMMA StepAccounting ==
  INSTRUCTION_LEVELS = 1 /\ TypeOK /\ Accounting /\ [Next]_vars => Accounting'
<1> SUFFICES ASSUME INSTRUCTION_LEVELS = 1, TypeOK, Accounting, [Next]_vars PROVE Accounting'
  OBVIOUS
<1>1. ASSUME NEW p \in Processor, NEW op \in Op, NEW line \in Line \cup {NoLine},
             NEW c \in Client, Ask(op, line, p, c)
      PROVE  Accounting'
  <2>1. searchData(op, line, p, {c}) /\ {c} \in SUBSET Client
    BY <1>1 DEF Ask
  <2> QED BY <2>1, SubmitAccounting
<1>2. ASSUME NEW p \in Processor, NEW line \in Line, mob_write(p, line) PROVE Accounting'
  <2>1. searchData("WRITE", line, p, {}) /\ {} \in SUBSET Client
    BY <1>2 DEF mob_write
  <2> QED BY <2>1, SubmitAccounting
<1>3. CASE Submit
  BY <1>1, <1>2, <1>3 DEF Submit, fetch, mob_read, mob_vima, mob_hive
<1>4. ASSUME NEW c \in Client, Consume(c) PROVE Accounting'
  BY <1>4 DEF Consume, Accounting, SearchedBelow, FreeUnused, MSHRConservation
<1>5. CASE clock
  BY <1>5, ClockAccounting
<1>6. ASSUME NEW r \in Request, Elapse(r) PROVE Accounting'
  <2> DEFINE k == [package[r] EXCEPT !.due = TRUE]
  <2>0. package \in [Request -> Package] /\ package[r] \in Package
    BY DEF TypeOK
  <2>1. /\ k \in Package /\ k.status = package[r].status
        /\ k.next_level = package[r].next_level
        /\ k.sent_to_cache_level = package[r].sent_to_cache_level
        /\ k.op = package[r].op /\ k.processor_id = package[r].processor_id
    BY <2>0 DEF Package
  <2>2. package' = [package EXCEPT ![r] = k] /\ count' = count
    BY <2>0, <1>6 DEF Elapse
  <2> HIDE DEF k
  <2> QED BY <2>1, <2>2, KeepsAccounting
<1>7. ASSUME NEW r \in Request, Answer(r) PROVE Accounting'
  <2> DEFINE k == [package[r] EXCEPT !.status = "WAIT", !.due = FALSE]
  <2>0. package \in [Request -> Package] /\ package[r] \in Package
    BY DEF TypeOK
  <2>1. /\ k \in Package /\ k.status # "FREE"
        /\ k.next_level = package[r].next_level
        /\ k.sent_to_cache_level = package[r].sent_to_cache_level
        /\ k.op = package[r].op /\ k.processor_id = package[r].processor_id
    BY <2>0 DEF Package
  <2>2. package' = [package EXCEPT ![r] = k] /\ count' = count
    BY <2>0, <1>7 DEF Answer
  <2> HIDE DEF k
  <2> QED BY <2>1, <2>2, KeepsAccounting
<1>8. CASE UNCHANGED vars
  BY <1>8 DEF vars, Accounting, SearchedBelow, FreeUnused, MSHRConservation
<1> QED BY <1>3, <1>4, <1>5, <1>6, <1>7, <1>8 DEF Next

\* At the start nothing is outstanding and nothing is counted.
LEMMA InitAccounting == Init => Accounting
<1> SUFFICES ASSUME Init PROVE Accounting
  OBVIOUS
<1>1. \A r \in Request : package[r] = Deleted
  BY DEF Init
<1>2. /\ Deleted.next_level = 0 /\ Deleted.sent_to_cache_level = {}
      /\ Held(Deleted) = {} /\ 0 .. 0 - 1 = {}
  BY DEF Deleted, NewPackage, Held
<1>3. SearchedBelow /\ FreeUnused
  BY <1>1, <1>2 DEF SearchedBelow, SearchedBelowOf, FreeUnused
<1>4. \A c \in Cache : Holders(package, c) = {} /\ count[c] = 0
  BY <1>1, <1>2 DEF Holders, Init
<1> QED BY <1>3, <1>4, FS_EmptySet DEF Accounting, MSHRConservation

\* With one instruction cache level, which every shipped configuration has,
\* the MSHR entries in use are at every cache exactly those of the outstanding
\* requests that searched it (property MSHRConservation).
THEOREM EntriesConserved == INSTRUCTION_LEVELS = 1 /\ Spec => []MSHRConservation
<1>1. INSTRUCTION_LEVELS = 1 /\ TypeOK /\ Accounting /\ [Next]_vars => (TypeOK /\ Accounting)'
  BY StepTypeOK, StepAccounting
<1>2. TypeOK /\ Accounting => MSHRConservation
  BY DEF Accounting
<1>3. Init => TypeOK /\ Accounting
  BY InitTypeOK, InitAccounting
<1> SUFFICES ASSUME INSTRUCTION_LEVELS = 1 PROVE Spec => []MSHRConservation
  OBVIOUS
<1>4. TypeOK /\ Accounting /\ [Next]_vars => (TypeOK /\ Accounting)'
  BY <1>1
<1> QED BY <1>2, <1>3, <1>4, PTL DEF Spec

\* The lower bound of MSHRBounds and the upper one, given the accounts.
LEMMA StepBounds ==
  INSTRUCTION_LEVELS = 1 /\ TypeOK /\ Accounting /\ MSHRBounds /\ [Next]_vars => MSHRBounds'
<1> SUFFICES ASSUME INSTRUCTION_LEVELS = 1, TypeOK, Accounting, MSHRBounds, [Next]_vars,
                    NEW c \in Cache
             PROVE  0 <= count'[c] /\ count'[c] <= MSHR_SIZE[<<c[1], c[2]>>]
  BY DEF MSHRBounds
<1> DEFINE size == MSHR_SIZE[<<c[1], c[2]>>]
<1>0. size \in Nat
  BY MSHRAssumption DEF Cache
<1>1. count'[c] \in Nat
  <2>1. Accounting'
    BY StepAccounting
  <2>2. count'[c] = Cardinality(Holders(package', c))
    BY <2>1 DEF Accounting, MSHRConservation
  <2> QED BY <2>2, HoldersFinite
<1>2. count[c] \in Int /\ count[c] <= size
  BY DEF TypeOK, MSHRBounds
<1> SUFFICES 0 <= count'[c] /\ count'[c] <= size
  OBVIOUS
<1> HIDE DEF size
<1>3. CASE count' = count
  BY <1>0, <1>1, <1>2, <1>3
<1>4. CASE finishRequest(requests[i])
  <2>1. count'[c] = count[c] \/ count'[c] = count[c] - 1
    BY <1>4 DEF finishRequest
  <2> QED BY <1>0, <1>1, <1>2, <2>1
<1>5. ASSUME NEW outcome \in {"HIT", "MISS"}, cache_search(requests[i], outcome)
      PROVE  count'[c] <= size
  <2> DEFINE c0 == SearchedCache(package[requests[i]], package[requests[i]].next_level)
  <2>1. HasEntry(c0) /\ count' = [count EXCEPT ![c0] = @ + 1]
    BY <1>5 DEF cache_search
  <2> HIDE DEF c0
  <2>2. CASE c = c0
    <3>1. count[c] < size
      BY <2>1, <2>2 DEF HasEntry, size
    <3>2. count'[c] = count[c] + 1
      BY <2>1, <2>2 DEF TypeOK
    <3> QED BY <1>0, <1>2, <3>1, <3>2
  <2>3. CASE c # c0
    <3>1. count'[c] = count[c]
      BY <2>1, <2>3 DEF TypeOK
    <3> QED BY <1>2, <3>1
  <2> QED BY <2>2, <2>3
<1>6. \/ count' = count \/ finishRequest(requests[i])
      \/ \E outcome \in {"HIT", "MISS"} : cache_search(requests[i], outcome)
  BY DEF Next, Submit, fetch, mob_read, mob_write, mob_vima, mob_hive, Ask, searchData,
         Consume, clock, requestDRAM, addRequestVima, addRequestHive, Pass, Elapse, Answer, vars
<1> QED BY <1>0, <1>1, <1>3, <1>4, <1>5, <1>6 DEF size

\* With one instruction cache level, neither assertion on the counter of a
\* cache can fail: it is never negative and never above the MSHR size
\* (property MSHRBounds).
THEOREM CounterAssertionsHold == INSTRUCTION_LEVELS = 1 /\ Spec => []MSHRBounds
<1> SUFFICES ASSUME INSTRUCTION_LEVELS = 1 PROVE Spec => []MSHRBounds
  OBVIOUS
<1>1. Init => TypeOK /\ Accounting /\ MSHRBounds
  <2>1. Init => MSHRBounds
    <3> SUFFICES ASSUME Init, NEW c \in Cache
                 PROVE  0 <= count[c] /\ count[c] <= MSHR_SIZE[<<c[1], c[2]>>]
      BY DEF MSHRBounds
    <3>1. count[c] = 0 /\ MSHR_SIZE[<<c[1], c[2]>>] \in Nat
      BY MSHRAssumption DEF Init, Cache
    <3> QED BY <3>1
  <2> QED BY <2>1, InitTypeOK, InitAccounting
<1>2. TypeOK /\ Accounting /\ MSHRBounds /\ [Next]_vars => (TypeOK /\ Accounting /\ MSHRBounds)'
  BY StepTypeOK, StepAccounting, StepBounds
<1> QED BY <1>1, <1>2, PTL DEF Spec

HIDE DEF Plain, NearData, Op, Kind

-----------------------------------------------------------------------------
(* The table as a set                                                      *)

NoDuplicates(seq) == \A j, k \in DOMAIN seq : seq[j] = seq[k] => j = k

EntriesOf(seq) == {seq[j] : j \in DOMAIN seq}

\* Removing an entry removes one request from the table.
LEMMA EraseEntry ==
  ASSUME NEW S, NEW seq \in Seq(S), NEW j \in DOMAIN seq, NoDuplicates(seq)
  PROVE  /\ NoDuplicates(Erase(seq, j))
         /\ EntriesOf(Erase(seq, j)) = EntriesOf(seq) \ {seq[j]}
<1> DEFINE e == Erase(seq, j)
           n == Len(seq)
<1>0. /\ n \in Nat /\ DOMAIN seq = 1 .. n /\ j \in 1 .. n
      /\ DOMAIN e = 1 .. n - 1
      /\ \A k \in 1 .. n - 1 : e[k] = IF k < j THEN seq[k] ELSE seq[k + 1]
  BY DEF Erase
<1> HIDE DEF e, n
<1>1. NoDuplicates(e)
  <2> SUFFICES ASSUME NEW k \in 1 .. n - 1, NEW m \in 1 .. n - 1, e[k] = e[m] PROVE k = m
    BY <1>0 DEF NoDuplicates
  <2> DEFINE at(x) == IF x < j THEN x ELSE x + 1
  <2>1. at(k) \in 1 .. n /\ at(m) \in 1 .. n /\ e[k] = seq[at(k)] /\ e[m] = seq[at(m)]
    BY <1>0
  <2>2. at(k) = at(m)
    BY <1>0, <2>1 DEF NoDuplicates
  <2> QED BY <1>0, <2>2
<1>2. ASSUME NEW k \in 1 .. n - 1 PROVE e[k] \in EntriesOf(seq) \ {seq[j]}
  <2> DEFINE at == IF k < j THEN k ELSE k + 1
  <2>1. at \in 1 .. n /\ at # j /\ e[k] = seq[at]
    BY <1>0
  <2> HIDE DEF at
  <2>2. seq[at] # seq[j]
    BY <1>0, <2>1 DEF NoDuplicates
  <2> QED BY <1>0, <2>1, <2>2 DEF EntriesOf
<1>3. ASSUME NEW m \in 1 .. n, seq[m] # seq[j] PROVE seq[m] \in EntriesOf(e)
  <2>1. CASE m < j
    <3>1. m \in 1 .. n - 1 /\ e[m] = seq[m]
      BY <1>0, <2>1
    <3> QED BY <1>0, <3>1 DEF EntriesOf
  <2>2. CASE m > j
    <3>1. m - 1 \in 1 .. n - 1 /\ e[m - 1] = seq[m]
      BY <1>0, <2>2
    <3> QED BY <1>0, <3>1 DEF EntriesOf
  <2>3. m # j
    BY <1>3
  <2> QED BY <1>0, <2>1, <2>2, <2>3
<1>4. EntriesOf(e) = EntriesOf(seq) \ {seq[j]}
  BY <1>0, <1>2, <1>3 DEF EntriesOf
<1> QED BY <1>1, <1>4 DEF e

\* Appending a request that is not there adds it.
LEMMA AppendEntry ==
  ASSUME NEW S, NEW seq \in Seq(S), NEW r \in S, r \notin EntriesOf(seq), NoDuplicates(seq)
  PROVE  /\ NoDuplicates(Append(seq, r))
         /\ EntriesOf(Append(seq, r)) = EntriesOf(seq) \cup {r}
<1> DEFINE e == Append(seq, r)
           n == Len(seq)
<1>0. /\ n \in Nat /\ DOMAIN seq = 1 .. n /\ DOMAIN e = 1 .. n + 1
      /\ e[n + 1] = r /\ \A k \in 1 .. n : e[k] = seq[k]
  OBVIOUS
<1> HIDE DEF e, n
<1>1. \A k \in 1 .. n + 1 : k = n + 1 \/ k \in 1 .. n
  BY <1>0
<1>2. \A k \in 1 .. n : k \in 1 .. n + 1 /\ seq[k] # r
  BY <1>0 DEF EntriesOf
<1>3. n + 1 \in 1 .. n + 1
  BY <1>0
<1>4. NoDuplicates(e)
  BY <1>0, <1>1, <1>2 DEF NoDuplicates
<1>5. EntriesOf(e) = EntriesOf(seq) \cup {r}
  BY <1>0, <1>1, <1>2, <1>3 DEF EntriesOf
<1> QED BY <1>4, <1>5 DEF e

\* A package is in the table from its construction to its deletion, once.
Table ==
  /\ NoDuplicates(requests)
  /\ \A r \in Request : r \in Outstanding <=> package[r].status # "FREE"

\* The controllers hold packages of their own kind that are in the table and
\* not answered.
Sent(r) == r \in Outstanding /\ package[r].sent_to_ram /\ package[r].status # "WAIT"

HeldByKind ==
  /\ \A r \in dram : Sent(r) /\ package[r].op \in Plain
  /\ \A r \in vima : Sent(r) /\ package[r].op = "VIMA"
  /\ \A r \in hive : Sent(r) /\ package[r].op = "HIVE"

\* MergedByLine, said of requests and not of positions.
OnePerLine ==
  \A r, s \in Outstanding :
    /\ package[r].op \in Plain /\ package[s].op \in Plain
    /\ package[r].line = package[s].line
    /\ Type(package[r].op) = Type(package[s].op)
    => r = s

TableInv == Table /\ HeldByKind /\ ClientsRegistered /\ OnePerLine

LEMMA OutstandingIsEntries == Outstanding = EntriesOf(requests)
BY DEF Outstanding, EntriesOf

LEMMA OutstandingType == TypeOK => Outstanding \subseteq Request
BY DEF TypeOK, Outstanding

-----------------------------------------------------------------------------
(* The kinds of step                                                       *)

\* A step that leaves the table, the operation, the line and the clients of every
\* package alone.
LEMMA TouchKeeps ==
  ASSUME TypeOK, TableInv, NEW r \in Request, NEW k,
         package' = [package EXCEPT ![r] = k], requests' = requests, client' = client,
         k.op = package[r].op, k.line = package[r].line, k.clients = package[r].clients,
         k.status = "FREE" <=> package[r].status = "FREE"
  PROVE  Table' /\ ClientsRegistered' /\ OnePerLine'
<1>0. /\ Outstanding' = Outstanding
      /\ \A q \in Request : package'[q] = IF q = r THEN k ELSE package[q]
  BY DEF TypeOK, Outstanding
<1>1. \A q \in Request :
        /\ package'[q].op = package[q].op /\ package'[q].line = package[q].line
        /\ package'[q].clients = package[q].clients
        /\ package'[q].status = "FREE" <=> package[q].status = "FREE"
  BY <1>0
<1>2. Table'
  BY <1>0, <1>1 DEF TableInv, Table
<1>3. OnePerLine'
  <2>1. Outstanding \subseteq Request
    BY OutstandingType
  <2> QED BY <1>0, <1>1, <2>1 DEF TableInv, OnePerLine
<1>4. ASSUME NEW c \in Client
      PROVE  {q \in Request : c \in package'[q].clients} = {q \in Request : c \in package[q].clients}
  BY <1>1
<1>5. ClientsRegistered'
  BY <1>0, <1>4 DEF TableInv, ClientsRegistered
<1> QED BY <1>2, <1>3, <1>5

\* What a submission does: it adds clients to a request of the table, or a new
\* request, which for a plain operation is the only one of its line and type.
LEMMA SubmissionEffect ==
  ASSUME TypeOK, TableInv, NEW op \in Op, NEW line \in Line \cup {NoLine}, NEW p \in Processor,
         NEW S \in SUBSET Client, searchData(op, line, p, S)
  PROVE  /\ NoDuplicates(requests')
         /\ \E r \in Request :
              \/ /\ r \in Outstanding /\ Outstanding' = Outstanding
                 /\ package' = [package EXCEPT ![r] = [package[r] EXCEPT !.clients = @ \cup S]]
              \/ /\ r \notin Outstanding /\ Outstanding' = Outstanding \cup {r}
                 /\ package' = [package EXCEPT ![r] = NewPackage(op, line, p, S)]
                 /\ op \in Plain => \A q \in Outstanding :
                      ~(package[q].line = line /\ Type(package[q].op) = Type(op))
<1>1. CASE isIn(op, line) /\ Merge(op, line, S)
  <2>1. PICK j \in DOMAIN requests :
          package' = [package EXCEPT ![requests[j]].clients = @ \cup S]
    BY <1>1 DEF Merge, SameLine
  <2>2. requests[j] \in Request /\ requests[j] \in Outstanding
    BY DEF TypeOK, Outstanding
  <2>3. requests' = requests /\ Outstanding' = Outstanding
    BY <1>1 DEF Merge, Outstanding
  <2> QED BY <2>1, <2>2, <2>3 DEF TableInv, Table
<1>2. CASE ~isIn(op, line) /\ Enter(op, line, p, S)
  <2>1. PICK r \in Request :
          /\ package[r].status = "FREE"
          /\ package' = [package EXCEPT ![r] = NewPackage(op, line, p, S)]
          /\ requests' = Append(requests, r)
    BY <1>2 DEF Enter
  <2>2. r \notin Outstanding /\ requests \in Seq(Request) /\ NoDuplicates(requests)
    BY <2>1 DEF TableInv, Table, TypeOK
  <2>3. NoDuplicates(requests') /\ EntriesOf(requests') = EntriesOf(requests) \cup {r}
    BY <2>1, <2>2, AppendEntry, OutstandingIsEntries
  <2>4. Outstanding' = Outstanding \cup {r}
    BY <2>3, OutstandingIsEntries DEF Outstanding, EntriesOf
  <2>5. ASSUME op \in Plain, NEW q \in Outstanding,
               package[q].line = line, Type(package[q].op) = Type(op)
        PROVE  FALSE
    <3>1. PICK j \in DOMAIN requests : q = requests[j]
      BY DEF Outstanding
    <3>2. j \in SameLine(op, line)
      BY <2>5, <3>1 DEF SameLine
    <3> QED BY <1>2, <2>5, <3>2 DEF isIn, Plain, NearData
  <2> QED BY <2>1, <2>2, <2>3, <2>4, <2>5
<1> QED BY <1>1, <1>2 DEF searchData

\* What the end of a request does.
LEMMA FinishEffect ==
  ASSUME TypeOK, TableInv, clock, finishRequest(requests[i])
  PROVE  /\ requests[i] \in Request /\ requests[i] \in Outstanding
         /\ NoDuplicates(requests') /\ Outstanding' = Outstanding \ {requests[i]}
<1>1. i \in DOMAIN requests /\ requests[i] \in Request /\ requests \in Seq(Request)
  BY Reached DEF clock, TypeOK
<1>2. NoDuplicates(requests') /\ EntriesOf(requests') = EntriesOf(requests) \ {requests[i]}
  BY <1>1, EraseEntry DEF finishRequest, TableInv, Table
<1>3. Outstanding' = Outstanding \ {requests[i]}
  BY <1>2 DEF Outstanding, EntriesOf
<1> QED BY <1>1, <1>2, <1>3 DEF Outstanding

-----------------------------------------------------------------------------
(* Every step keeps the invariant                                          *)

\* A request that enters the table, or is asked for again.
LEMMA SubmissionKeeps ==
  ASSUME TypeOK, TableInv, NEW op \in Op, NEW line \in Line \cup {NoLine}, NEW p \in Processor,
         NEW S \in SUBSET Client, searchData(op, line, p, S),
         \A c \in S : client[c] = "idle",
         client' = [c \in Client |-> IF c \in S THEN "waiting" ELSE client[c]],
         \A c, d \in S : c = d
  PROVE  TableInv'
<1>0. PICK r \in Request :
        \/ /\ r \in Outstanding /\ Outstanding' = Outstanding
           /\ package' = [package EXCEPT ![r] = [package[r] EXCEPT !.clients = @ \cup S]]
        \/ /\ r \notin Outstanding /\ Outstanding' = Outstanding \cup {r}
           /\ package' = [package EXCEPT ![r] = NewPackage(op, line, p, S)]
           /\ op \in Plain => \A q \in Outstanding :
                ~(package[q].line = line /\ Type(package[q].op) = Type(op))
  BY SubmissionEffect
<1>1. NoDuplicates(requests')
  BY SubmissionEffect
<1>2. /\ Outstanding \subseteq Request /\ package \in [Request -> Package]
      /\ package[r] \in Package
      /\ dram' = dram /\ vima' = vima /\ hive' = hive
  BY OutstandingType DEF TypeOK, searchData
<1>3. CASE /\ r \in Outstanding /\ Outstanding' = Outstanding
           /\ package' = [package EXCEPT ![r] = [package[r] EXCEPT !.clients = @ \cup S]]
  <2>1. \A q \in Request :
          /\ package'[q].op = package[q].op /\ package'[q].line = package[q].line
          /\ package'[q].status = package[q].status
          /\ package'[q].sent_to_ram = package[q].sent_to_ram
          /\ package'[q].clients = IF q = r THEN package[r].clients \cup S
                                            ELSE package[q].clients
    BY <1>2, <1>3 DEF Package
  <2>2. Table'
    BY <1>1, <1>3, <2>1 DEF Table, TableInv
  <2>3. HeldByKind'
    BY <1>2, <1>3, <2>1 DEF HeldByKind, TableInv, Sent
  <2>4. OnePerLine'
    BY <1>2, <1>3, <2>1 DEF OnePerLine, TableInv
  <2>5. ClientsRegistered'
    <3> SUFFICES ASSUME NEW c \in Client
                 PROVE  LET with == {q \in Request : c \in package'[q].clients}
                        IN IF client'[c] = "waiting" THEN \E q \in Outstanding' : with = {q}
                                                     ELSE with = {}
      BY DEF ClientsRegistered
    <3> DEFINE before == {q \in Request : c \in package[q].clients}
               after == {q \in Request : c \in package'[q].clients}
    <3>0. IF client[c] = "waiting" THEN \E q \in Outstanding : before = {q} ELSE before = {}
      BY DEF TableInv, ClientsRegistered
    <3>1. CASE c \in S
      <4>1. before = {} /\ client'[c] = "waiting"
        BY <3>0, <3>1
      <4>2. after = {r}
        BY <2>1, <3>1, <4>1
      <4> QED BY <1>3, <4>1, <4>2
    <3>2. CASE c \notin S
      <4>1. after = before
        BY <2>1, <3>2
      <4>2. client'[c] = client[c]
        BY <3>2
      <4> QED BY <1>3, <3>0, <4>1, <4>2
    <3> QED BY <3>1, <3>2
  <2> QED BY <2>2, <2>3, <2>4, <2>5 DEF TableInv
<1>4. CASE /\ r \notin Outstanding /\ Outstanding' = Outstanding \cup {r}
           /\ package' = [package EXCEPT ![r] = NewPackage(op, line, p, S)]
           /\ op \in Plain => \A q \in Outstanding :
                ~(package[q].line = line /\ Type(package[q].op) = Type(op))
  <2>1. \A q \in Request : q # r => package'[q] = package[q]
    BY <1>2, <1>4
  <2>2. /\ package'[r].op = op /\ package'[r].line = line /\ package'[r].status = "UNTREATED"
        /\ package'[r].clients = S
    BY <1>2, <1>4 DEF NewPackage
  <2>3. Table'
    <3>1. ASSUME NEW q \in Request PROVE q \in Outstanding' <=> package'[q].status # "FREE"
      <4>1. CASE q = r
        BY <1>4, <2>2, <4>1
      <4>2. CASE q # r
        BY <1>4, <2>1, <4>2 DEF TableInv, Table
      <4> QED BY <4>1, <4>2
    <3> QED BY <1>1, <3>1 DEF Table
  <2>4. HeldByKind'
    <3>1. \A q \in dram \cup vima \cup hive : q # r /\ q \in Request /\ q \in Outstanding
      BY <1>2, <1>4 DEF TableInv, HeldByKind, Sent
    <3> QED BY <1>2, <1>4, <2>1, <3>1 DEF HeldByKind, TableInv, Sent
  <2>5. OnePerLine'
    <3> SUFFICES ASSUME NEW q \in Outstanding', NEW s \in Outstanding',
                        package'[q].op \in Plain, package'[s].op \in Plain,
                        package'[q].line = package'[s].line,
                        Type(package'[q].op) = Type(package'[s].op), q # s
                 PROVE  FALSE
      BY DEF OnePerLine
    <3>1. CASE q # r /\ s # r
      BY <1>2, <1>4, <2>1, <3>1 DEF TableInv, OnePerLine
    <3>2. CASE q = r
      BY <1>2, <1>4, <2>1, <2>2, <3>2
    <3>3. CASE s = r
      BY <1>2, <1>4, <2>1, <2>2, <3>3
    <3> QED BY <3>1, <3>2, <3>3
  <2>6. ClientsRegistered'
    <3> SUFFICES ASSUME NEW c \in Client
                 PROVE  LET with == {q \in Request : c \in package'[q].clients}
                        IN IF client'[c] = "waiting" THEN \E q \in Outstanding' : with = {q}
                                                     ELSE with = {}
      BY DEF ClientsRegistered
    <3> DEFINE before == {q \in Request : c \in package[q].clients}
               after == {q \in Request : c \in package'[q].clients}
    <3>0. IF client[c] = "waiting" THEN \E q \in Outstanding : before = {q} ELSE before = {}
      BY DEF TableInv, ClientsRegistered
    <3>1. r \notin before
      BY <1>4, <3>0
    <3>2. CASE c \in S
      <4>1. before = {} /\ client'[c] = "waiting"
        BY <3>0, <3>2
      <4>2. after = {r}
        BY <2>1, <2>2, <3>2, <4>1
      <4> QED BY <1>4, <4>1, <4>2
    <3>3. CASE c \notin S
      <4>1. after = before
        BY <2>1, <2>2, <3>1, <3>3
      <4>2. client'[c] = client[c]
        BY <3>3
      <4> QED BY <1>4, <3>0, <4>1, <4>2
    <3> QED BY <3>2, <3>3
  <2> QED BY <2>3, <2>4, <2>5, <2>6 DEF TableInv
<1> QED BY <1>0, <1>3, <1>4

\* A request that is finished: its clients are woken, nobody knows it any more.
LEMMA FinishKeeps ==
  ASSUME TypeOK, TableInv, clock, finishRequest(requests[i])
  PROVE  TableInv'
<1> DEFINE r == requests[i]
<1>0. r \in Request /\ r \in Outstanding /\ NoDuplicates(requests')
      /\ Outstanding' = Outstanding \ {r}
  BY FinishEffect
<1>1. /\ package[r].status = "WAIT"
      /\ package' = [package EXCEPT ![r] = Deleted]
      /\ client' = [c \in Client |-> IF c \in package[r].clients THEN "ready" ELSE client[c]]
      /\ dram' = dram /\ vima' = vima /\ hive' = hive
  BY DEF finishRequest
<1> HIDE DEF r
<1>2. Outstanding \subseteq Request /\ package \in [Request -> Package]
  BY OutstandingType DEF TypeOK
<1>3. /\ \A q \in Request : q # r => package'[q] = package[q]
      /\ package'[r].status = "FREE" /\ package'[r].clients = {}
  BY <1>0, <1>1, <1>2 DEF Deleted, NewPackage
<1>4. Table'
  BY <1>0, <1>3 DEF Table, TableInv
<1>5. HeldByKind'
  <2>1. \A q \in dram \cup vima \cup hive : q # r /\ q \in Request /\ q \in Outstanding
    BY <1>1, <1>2 DEF TableInv, HeldByKind, Sent
  <2> QED BY <1>0, <1>1, <1>3, <2>1 DEF TableInv, HeldByKind, Sent
<1>6. OnePerLine'
  BY <1>0, <1>2, <1>3 DEF TableInv, OnePerLine
<1>7. ClientsRegistered'
  <2> SUFFICES ASSUME NEW c \in Client
               PROVE  LET with == {q \in Request : c \in package'[q].clients}
                      IN IF client'[c] = "waiting" THEN \E q \in Outstanding' : with = {q}
                                                   ELSE with = {}
    BY DEF ClientsRegistered
  <2> DEFINE before == {q \in Request : c \in package[q].clients}
             after == {q \in Request : c \in package'[q].clients}
  <2>0. IF client[c] = "waiting" THEN \E q \in Outstanding : before = {q} ELSE before = {}
    BY DEF TableInv, ClientsRegistered
  <2>1. after = before \ {r}
    BY <1>3
  <2>2. CASE c \in package[r].clients
    <3>1. r \in before
      BY <1>0, <2>2
    <3>2. before = {r}
      BY <2>0, <3>1
    <3>3. client'[c] = "ready"
      BY <1>1, <2>2
    <3> QED BY <2>1, <3>2, <3>3
  <2>3. CASE c \notin package[r].clients
    <3>1. r \notin before /\ client'[c] = client[c]
      BY <1>1, <2>3
    <3>2. after = before
      BY <2>1, <3>1
    <3> HIDE DEF before, after
    <3>3. \A q \in Outstanding : before = {q} => q # r
      BY <3>1
    <3> QED BY <1>0, <2>0, <3>1, <3>2, <3>3 DEF after
  <2> QED BY <2>2, <2>3
<1> QED BY <1>4, <1>5, <1>6, <1>7 DEF TableInv

\* One iteration of the walk.
LEMMA ClockKeeps == TypeOK /\ TableInv /\ clock => TableInv'
<1> SUFFICES ASSUME TypeOK, TableInv, clock PROVE TableInv'
  OBVIOUS
<1> DEFINE r == requests[i]
<1>0. /\ r \in Request /\ r \in Outstanding
      /\ package \in [Request -> Package] /\ package[r] \in Package
      /\ package[r].status # "FREE"
  <2>1. i \in DOMAIN requests /\ r \in Request
    BY Reached DEF clock
  <2> QED BY <2>1 DEF Outstanding, TypeOK, TableInv, Table
<1>1. CASE finishRequest(r)
  BY <1>1, FinishKeeps
<1>2. ASSUME NEW k, package' = [package EXCEPT ![r] = k], requests' = requests, client' = client,
             k.op = package[r].op, k.line = package[r].line, k.clients = package[r].clients,
             k.status # "FREE", HeldByKind'
      PROVE  TableInv'
  <2>1. k.status = "FREE" <=> package[r].status = "FREE"
    BY <1>0, <1>2
  <2> QED BY <1>0, <1>2, <2>1, TouchKeeps DEF TableInv
<1>h. /\ Outstanding \subseteq Request
      /\ \A q \in dram \cup vima \cup hive : q \in Request /\ Sent(q)
  BY OutstandingType DEF TableInv, HeldByKind, Sent
<1> HIDE DEF r
<1>3. ASSUME NEW outcome \in {"HIT", "MISS"}, cache_search(r, outcome) PROVE TableInv'
  <2> DEFINE k == [package[r] EXCEPT
           !.sent_to_cache_level = @ \cup {package[r].next_level},
           !.next_level = package[r].next_level + 1,
           !.due = FALSE,
           !.status = IF outcome = "HIT" THEN "WAIT" ELSE "UNTREATED"]
  <2>1. /\ k.op = package[r].op /\ k.line = package[r].line /\ k.clients = package[r].clients
        /\ k.status # "FREE"
    BY <1>0 DEF Package
  <2>2. /\ package' = [package EXCEPT ![r] = k] /\ requests' = requests /\ client' = client
        /\ dram' = dram /\ vima' = vima /\ hive' = hive /\ ~package[r].sent_to_ram
    BY <1>3 DEF cache_search, Searchable, Processable
  <2> HIDE DEF k
  <2>3. \A q \in dram \cup vima \cup hive : package'[q] = package[q]
    BY <1>0, <1>h, <2>2 DEF Sent
  <2>4. HeldByKind'
    BY <1>h, <2>2, <2>3 DEF HeldByKind, TableInv, Sent, Outstanding
  <2> QED BY <1>2, <2>1, <2>2, <2>4
<1>4. ASSUME requestDRAM(r) \/ addRequestHive(r) PROVE TableInv'
  <2> DEFINE k == [package[r] EXCEPT !.sent_to_ram = TRUE]
  <2>1. /\ k.op = package[r].op /\ k.line = package[r].line /\ k.clients = package[r].clients
        /\ k.status = package[r].status /\ k.sent_to_ram
    BY <1>0 DEF Package
  <2>2. /\ package' = [package EXCEPT ![r] = k] /\ requests' = requests /\ client' = client
        /\ vima' = vima /\ package[r].status # "WAIT"
        /\ ~package[r].sent_to_ram
        /\ \/ package[r].op \in Plain /\ dram' = dram \cup {r} /\ hive' = hive
           \/ package[r].op = "HIVE" /\ hive' \in {hive, hive \cup {r}} /\ dram' = dram
    BY <1>4 DEF requestDRAM, addRequestHive, Processable
  <2> HIDE DEF k
  <2>3. \A q \in dram \cup vima \cup hive : package'[q] = package[q]
    BY <1>0, <1>h, <2>2 DEF Sent
  <2>4. package'[r] = k /\ Outstanding' = Outstanding
    BY <1>0, <2>2 DEF Outstanding
  <2>5. HeldByKind'
    BY <1>0, <1>h, <2>1, <2>2, <2>3, <2>4 DEF HeldByKind, TableInv, Sent
  <2> QED BY <1>0, <1>2, <2>1, <2>2, <2>5
<1>5. ASSUME addRequestVima(r) PROVE TableInv'
  <2> DEFINE k == [package[r] EXCEPT !.sent_to_ram = TRUE, !.status = "VIMA"]
  <2>1. /\ k.op = package[r].op /\ k.line = package[r].line /\ k.clients = package[r].clients
        /\ k.status = "VIMA" /\ k.sent_to_ram
    BY <1>0 DEF Package
  <2>2. /\ package' = [package EXCEPT ![r] = k] /\ requests' = requests /\ client' = client
        /\ dram' = dram /\ hive' = hive /\ vima' = vima \cup {r}
        /\ ~package[r].sent_to_ram /\ package[r].op = "VIMA"
    BY <1>5 DEF addRequestVima, Processable
  <2> HIDE DEF k
  <2>3. \A q \in dram \cup vima \cup hive : package'[q] = package[q]
    BY <1>0, <1>h, <2>2 DEF Sent
  <2>4. package'[r] = k /\ Outstanding' = Outstanding
    BY <1>0, <2>2 DEF Outstanding
  <2>5. HeldByKind'
    BY <1>0, <1>h, <2>1, <2>2, <2>3, <2>4 DEF HeldByKind, TableInv, Sent
  <2> QED BY <1>0, <1>2, <2>1, <2>2, <2>5
<1>6. ASSUME Pass(r) PROVE TableInv'
  BY <1>6 DEF Pass, TableInv, Table, HeldByKind, Sent, ClientsRegistered, OnePerLine, Outstanding
<1> QED BY <1>1, <1>3, <1>4, <1>5, <1>6 DEF clock, r

\* A step of time, or an answer.
LEMMA BetweenWalksKeeps ==
  ASSUME TypeOK, TableInv, NEW r \in Request, Elapse(r) \/ Answer(r)
  PROVE  TableInv'
<1>0. /\ Outstanding \subseteq Request /\ r \in Outstanding
      /\ package \in [Request -> Package] /\ package[r] \in Package
      /\ package[r].status # "FREE"
      /\ \A q \in dram \cup vima \cup hive : q \in Request /\ Sent(q)
  BY OutstandingType DEF TypeOK, TableInv, Table, HeldByKind, Sent, Elapse, Answer
<1>1. CASE Elapse(r)
  <2> DEFINE k == [package[r] EXCEPT !.due = TRUE]
  <2>1. /\ k.op = package[r].op /\ k.line = package[r].line /\ k.clients = package[r].clients
        /\ k.status = package[r].status /\ k.sent_to_ram = package[r].sent_to_ram
    BY <1>0 DEF Package
  <2>2. /\ package' = [package EXCEPT ![r] = k] /\ requests' = requests /\ client' = client
        /\ dram' = dram /\ vima' = vima /\ hive' = hive
    BY <1>1 DEF Elapse
  <2> HIDE DEF k
  <2>3. HeldByKind'
    BY <1>0, <2>1, <2>2 DEF HeldByKind, TableInv, Sent, Outstanding
  <2> QED BY <1>0, <2>1, <2>2, <2>3, TouchKeeps DEF TableInv
<1>2. CASE Answer(r)
  <2> DEFINE k == [package[r] EXCEPT !.status = "WAIT", !.due = FALSE]
  <2>1. /\ k.op = package[r].op /\ k.line = package[r].line /\ k.clients = package[r].clients
        /\ k.status # "FREE"
    BY <1>0 DEF Package
  <2>2. /\ package' = [package EXCEPT ![r] = k] /\ requests' = requests /\ client' = client
        /\ dram' = dram \ {r} /\ vima' = vima \ {r} /\ hive' = hive \ {r}
    BY <1>2 DEF Answer
  <2> HIDE DEF k
  <2>3. HeldByKind'
    BY <1>0, <2>2 DEF HeldByKind, TableInv, Sent, Outstanding
  <2> QED BY <1>0, <2>1, <2>2, <2>3, TouchKeeps DEF TableInv
<1> QED BY <1>1, <1>2

LEMMA StepTableInv == TypeOK /\ TableInv /\ [Next]_vars => TableInv'
<1> SUFFICES ASSUME TypeOK, TableInv, [Next]_vars PROVE TableInv'
  OBVIOUS
<1>0. client \in [Client -> {"idle", "waiting", "ready"}]
  BY DEF TypeOK
<1>1. ASSUME NEW p \in Processor, NEW op \in Op, NEW line \in Line \cup {NoLine},
             NEW c \in Client, Ask(op, line, p, c)
      PROVE  TableInv'
  <2>1. /\ searchData(op, line, p, {c}) /\ {c} \in SUBSET Client
        /\ \A d \in {c} : client[d] = "idle"
        /\ client' = [d \in Client |-> IF d \in {c} THEN "waiting" ELSE client[d]]
    BY <1>0, <1>1 DEF Ask
  <2>2. \A d, e \in {c} : d = e
    OBVIOUS
  <2> QED BY <2>1, <2>2, SubmissionKeeps
<1>2. ASSUME NEW p \in Processor, NEW line \in Line, mob_write(p, line) PROVE TableInv'
  <2>1. /\ searchData("WRITE", line, p, {}) /\ {} \in SUBSET Client
        /\ \A d \in {} : client[d] = "idle"
        /\ client' = [d \in Client |-> IF d \in {} THEN "waiting" ELSE client[d]]
    BY <1>0, <1>2 DEF mob_write
  <2>2. "WRITE" \in Op /\ line \in Line \cup {NoLine} /\ \A d, e \in {} : d = e
    BY DEF Op, Plain
  <2> QED BY <2>1, <2>2, SubmissionKeeps
<1>3. CASE Submit
  <2>1. {"INST", "READ", "VIMA", "HIVE"} \subseteq Op
    BY DEF Op, Plain, NearData
  <2> QED BY <1>1, <1>2, <1>3, <2>1 DEF Submit, fetch, mob_read, mob_vima, mob_hive
<1>4. ASSUME NEW c \in Client, Consume(c) PROVE TableInv'
  <2>1. /\ UNCHANGED <<requests, package, dram, vima, hive>>
        /\ client[c] = "ready" /\ client' = [client EXCEPT ![c] = "idle"]
    BY <1>4 DEF Consume
  <2>2. \A d \in Client : client'[d] = "waiting" <=> client[d] = "waiting"
    BY <1>0, <2>1
  <2>3. ClientsRegistered'
    BY <2>1, <2>2 DEF TableInv, ClientsRegistered, Outstanding
  <2> QED BY <2>1, <2>3 DEF TableInv, Table, HeldByKind, Sent, OnePerLine, Outstanding
<1>5. ASSUME NEW r \in Request, Elapse(r) \/ Answer(r) PROVE TableInv'
  BY <1>5, BetweenWalksKeeps
<1>6. CASE UNCHANGED vars
  BY <1>6 DEF vars, TableInv, Table, HeldByKind, Sent, ClientsRegistered, OnePerLine, Outstanding
<1> QED BY <1>3, <1>4, <1>5, <1>6, ClockKeeps DEF Next

LEMMA InitTableInv == Init => TableInv
<1> SUFFICES ASSUME Init PROVE TableInv
  OBVIOUS
<1>1. \A r \in Request : package[r].status = "FREE" /\ package[r].clients = {}
  BY DEF Init, Deleted, NewPackage
<1>2. requests = <<>> /\ Outstanding = {}
  BY DEF Init, Outstanding
<1>3. \A c \in Client : client[c] = "idle" /\ {r \in Request : c \in package[r].clients} = {}
  BY <1>1 DEF Init
<1> QED BY <1>1, <1>2, <1>3
        DEF Init, TableInv, Table, NoDuplicates, HeldByKind, ClientsRegistered, OnePerLine

LEMMA TableInvariant == Spec => []TableInv
<1>1. Init => TypeOK /\ TableInv
  BY InitTypeOK, InitTableInv
<1>2. TypeOK /\ TableInv /\ [Next]_vars => (TypeOK /\ TableInv)'
  BY StepTypeOK, StepTableInv
<1> QED BY <1>1, <1>2, PTL DEF Spec

-----------------------------------------------------------------------------
(* What follows                                                            *)

\* finishRequest deletes no package that the memory, VIMA or HIVE controller still
\* points to (property HeldPackagesAlive).
THEOREM NoPackageDangles == Spec => []HeldPackagesAlive
<1>1. TableInv => HeldPackagesAlive
  BY DEF TableInv, HeldByKind, HeldPackagesAlive, Sent, Plain
<1> QED BY <1>1, TableInvariant, PTL

\* isIn() moves the clients of a merged request, and finishRequest wakes all of them:
\* whoever waits is in the list of exactly one request of the table (property
\* ClientsRegistered).
THEOREM NoWakeUpLost == Spec => []ClientsRegistered
BY TableInvariant, PTL DEF TableInv

\* searchData never enters a second plain request for a line and type (property
\* MergedByLine).
THEOREM OneRequestPerLine == Spec => []MergedByLine
<1>1. TableInv => MergedByLine
  <2> SUFFICES ASSUME TableInv, NEW j \in DOMAIN requests, NEW k \in DOMAIN requests,
                      package[requests[j]].op \in Plain, package[requests[k]].op \in Plain,
                      package[requests[j]].line = package[requests[k]].line,
                      Type(package[requests[j]].op) = Type(package[requests[k]].op)
               PROVE  j = k
    BY DEF MergedByLine
  <2>1. requests[j] \in Outstanding /\ requests[k] \in Outstanding
    BY DEF Outstanding
  <2>2. requests[j] = requests[k]
    BY <2>1 DEF TableInv, OnePerLine
  <2> QED BY <2>2 DEF TableInv, Table, NoDuplicates
<1> QED BY <1>1, TableInvariant, PTL
-----------------------------------------------------------------------------
(* None is forgotten                                                       *)

\* hive_controller_t::addRequest marks a request as sent and then drops it when its
\* buffer is full.  Here the buffer has room for one instruction of every client.
HiveHasRoom ==
  HIVE_BUFFER \in Nat /\ IsFiniteSet(Client) /\ Cardinality(Client) <= HIVE_BUFFER

\* A near-data instruction has a client; it is never merged away.
NearDataAwaited ==
  \A r \in Outstanding : package[r].op \in NearData => package[r].clients # {}

KnownInv == TypeOK /\ TableInv /\ NearDataAwaited /\ NoneForgotten

\* Different outstanding instructions have different clients, so there are never more
\* of them than the buffer holds.
LEMMA BufferNotFull ==
  ASSUME KnownInv, HiveHasRoom, NEW r \in Outstanding, package[r].op = "HIVE", r \notin hive
  PROVE  Cardinality(hive) < HIVE_BUFFER
<1> DEFINE S == hive \cup {r}
           awaiting == [q \in S |-> CHOOSE c \in Client : c \in package[q].clients]
<1>1. ASSUME NEW q \in S
      PROVE  q \in Outstanding /\ q \in Request /\ \E c \in Client : c \in package[q].clients
  <2>1. q \in Outstanding /\ package[q].op = "HIVE"
    BY DEF KnownInv, TableInv, HeldByKind, Sent
  <2>2. q \in Request /\ package[q].clients \subseteq Client
    BY <2>1, OutstandingType DEF KnownInv, TypeOK, Package
  <2> QED BY <2>1, <2>2 DEF KnownInv, NearDataAwaited, NearData
<1>2. \A q \in S : awaiting[q] \in Client /\ awaiting[q] \in package[q].clients
  BY <1>1
<1> HIDE DEF awaiting
<1>3. ASSUME NEW q \in S, NEW s \in S, awaiting[q] = awaiting[s] PROVE q = s
  <2> DEFINE c == awaiting[q]
             with == {t \in Request : c \in package[t].clients}
  <2>1. c \in Client /\ q \in with /\ s \in with
    BY <1>1, <1>2, <1>3
  <2>2. IF client[c] = "waiting" THEN \E t \in Outstanding : with = {t} ELSE with = {}
    BY <2>1 DEF KnownInv, TableInv, ClientsRegistered
  <2> HIDE DEF with
  <2> QED BY <2>1, <2>2
<1>4. awaiting \in Injection(S, Client)
  <2>1. awaiting \in [S -> Client]
    BY <1>2 DEF awaiting
  <2> QED BY <2>1, <1>3 DEF Injection, IsInjective
<1>5. IsFiniteSet(S) /\ Cardinality(S) <= Cardinality(Client) /\ Cardinality(Client) \in Nat
  <2>1. IsFiniteSet(Client)
    BY DEF HiveHasRoom
  <2> HIDE DEF S
  <2> QED BY <1>4, <2>1, FS_Injection, FS_CardinalityType
<1>6. IsFiniteSet(hive)
  BY <1>5, FS_Subset
<1>7. Cardinality(S) = Cardinality(hive) + 1 /\ Cardinality(hive) \in Nat
  BY <1>6, FS_AddElement, FS_CardinalityType
<1> QED BY <1>5, <1>7 DEF HiveHasRoom

\* One iteration of the walk.
LEMMA ClockKeepsKnown ==
  ASSUME KnownInv, HiveHasRoom, clock
  PROVE  NearDataAwaited' /\ NoneForgotten'
<1> DEFINE r == requests[i]
<1>0. /\ r \in Request /\ r \in Outstanding /\ Outstanding \subseteq Request
      /\ package \in [Request -> Package] /\ package[r] \in Package
  <2>1. i \in DOMAIN requests /\ r \in Request
    BY Reached DEF clock, KnownInv
  <2> QED BY <2>1, OutstandingType DEF Outstanding, TypeOK, KnownInv
<1>1. CASE finishRequest(r)
  <2>1. Outstanding' = Outstanding \ {r}
    BY <1>1, FinishEffect DEF KnownInv
  <2>2. \A q \in Request : q # r => package'[q] = package[q]
    BY <1>0, <1>1 DEF finishRequest
  <2>3. dram' = dram /\ vima' = vima /\ hive' = hive
    BY <1>1 DEF finishRequest
  <2> QED BY <1>0, <2>1, <2>2, <2>3 DEF KnownInv, NearDataAwaited, NoneForgotten
<1>2. ASSUME NEW k, package' = [package EXCEPT ![r] = k], requests' = requests,
             k.op = package[r].op, k.clients = package[r].clients,
             dram \subseteq dram', vima \subseteq vima', hive \subseteq hive',
             k.sent_to_ram => r \in dram' \cup vima' \cup hive' \/ k.status = "WAIT"
      PROVE  NearDataAwaited' /\ NoneForgotten'
  <2>1. /\ Outstanding' = Outstanding
        /\ \A q \in Request : package'[q] = IF q = r THEN k ELSE package[q]
    BY <1>0, <1>2 DEF Outstanding
  <2> QED BY <1>0, <1>2, <2>1 DEF KnownInv, NearDataAwaited, NoneForgotten
<1> HIDE DEF r
<1>3. ASSUME NEW outcome \in {"HIT", "MISS"}, cache_search(r, outcome)
      PROVE  NearDataAwaited' /\ NoneForgotten'
  <2> DEFINE k == [package[r] EXCEPT
           !.sent_to_cache_level = @ \cup {package[r].next_level},
           !.next_level = package[r].next_level + 1,
           !.due = FALSE,
           !.status = IF outcome = "HIT" THEN "WAIT" ELSE "UNTREATED"]
  <2>1. /\ package' = [package EXCEPT ![r] = k] /\ requests' = requests
        /\ dram' = dram /\ vima' = vima /\ hive' = hive /\ ~package[r].sent_to_ram
    BY <1>3 DEF cache_search, Searchable, Processable
  <2>2. k.op = package[r].op /\ k.clients = package[r].clients /\ ~k.sent_to_ram
    BY <1>0, <2>1 DEF Package
  <2> HIDE DEF k
  <2> QED BY <1>2, <2>1, <2>2
<1>4. ASSUME requestDRAM(r) \/ addRequestHive(r) PROVE NearDataAwaited' /\ NoneForgotten'
  <2> DEFINE k == [package[r] EXCEPT !.sent_to_ram = TRUE]
  <2>1. package' = [package EXCEPT ![r] = k] /\ requests' = requests /\ vima' = vima
    BY <1>4 DEF requestDRAM, addRequestHive
  <2>2. k.op = package[r].op /\ k.clients = package[r].clients
    BY <1>0 DEF Package
  <2>3. CASE requestDRAM(r)
    BY <1>2, <2>1, <2>2, <2>3 DEF requestDRAM
  <2>4. CASE addRequestHive(r)
    <3>1. r \notin hive /\ package[r].op = "HIVE"
      BY <2>4 DEF addRequestHive, Processable, KnownInv, TableInv, HeldByKind, Sent
    <3>2. hive' = hive \cup {r} /\ dram' = dram
      BY <1>0, <2>4, <3>1, BufferNotFull DEF addRequestHive
    <3> QED BY <1>2, <2>1, <2>2, <3>2
  <2> QED BY <1>4, <2>3, <2>4
<1>5. ASSUME addRequestVima(r) PROVE NearDataAwaited' /\ NoneForgotten'
  <2> DEFINE k == [package[r] EXCEPT !.sent_to_ram = TRUE, !.status = "VIMA"]
  <2>1. /\ package' = [package EXCEPT ![r] = k] /\ requests' = requests
        /\ dram' = dram /\ vima' = vima \cup {r} /\ hive' = hive
    BY <1>5 DEF addRequestVima
  <2>2. k.op = package[r].op /\ k.clients = package[r].clients
    BY <1>0 DEF Package
  <2> HIDE DEF k
  <2> QED BY <1>2, <2>1, <2>2
<1>6. ASSUME Pass(r) PROVE NearDataAwaited' /\ NoneForgotten'
  BY <1>6 DEF Pass, KnownInv, NearDataAwaited, NoneForgotten, Outstanding
<1> QED BY <1>1, <1>3, <1>4, <1>5, <1>6 DEF clock, r

LEMMA StepKnown == HiveHasRoom /\ KnownInv /\ [Next]_vars => KnownInv'
<1> SUFFICES ASSUME HiveHasRoom, KnownInv, [Next]_vars PROVE NearDataAwaited' /\ NoneForgotten'
  BY StepTypeOK, StepTableInv DEF KnownInv
<1>0. Outstanding \subseteq Request /\ package \in [Request -> Package]
  BY OutstandingType DEF KnownInv, TypeOK
<1> DEFINE Goal == NearDataAwaited' /\ NoneForgotten'
<1> HIDE DEF Goal
<1>1. ASSUME NEW p \in Processor, NEW op \in Op, NEW line \in Line \cup {NoLine},
             NEW T \in SUBSET Client, searchData(op, line, p, T), op \in NearData => T # {}
      PROVE  Goal
  <2>0. PICK r \in Request :
          \/ /\ r \in Outstanding /\ Outstanding' = Outstanding
             /\ package' = [package EXCEPT ![r] = [package[r] EXCEPT !.clients = @ \cup T]]
          \/ /\ r \notin Outstanding /\ Outstanding' = Outstanding \cup {r}
             /\ package' = [package EXCEPT ![r] = NewPackage(op, line, p, T)]
    BY <1>1, SubmissionEffect DEF KnownInv
  <2>1. dram' = dram /\ vima' = vima /\ hive' = hive /\ package[r] \in Package
    BY <1>0, <1>1 DEF searchData
  <2>2. CASE /\ r \in Outstanding /\ Outstanding' = Outstanding
             /\ package' = [package EXCEPT ![r] = [package[r] EXCEPT !.clients = @ \cup T]]
    <3>1. \A q \in Request :
            /\ package'[q].op = package[q].op /\ package'[q].status = package[q].status
            /\ package'[q].sent_to_ram = package[q].sent_to_ram
            /\ package[q].clients \subseteq package'[q].clients
      BY <1>0, <2>1, <2>2 DEF Package
    <3> QED BY <1>0, <2>1, <2>2, <3>1 DEF KnownInv, NearDataAwaited, NoneForgotten, Goal
  <2>3. CASE /\ r \notin Outstanding /\ Outstanding' = Outstanding \cup {r}
             /\ package' = [package EXCEPT ![r] = NewPackage(op, line, p, T)]
    <3>1. \A q \in Request : q # r => package'[q] = package[q]
      BY <1>0, <2>3
    <3>2. package'[r].op = op /\ package'[r].clients = T /\ ~package'[r].sent_to_ram
      BY <1>0, <2>3 DEF NewPackage
    <3> QED BY <1>0, <1>1, <2>1, <2>3, <3>1, <3>2 DEF KnownInv, NearDataAwaited, NoneForgotten, Goal
  <2> QED BY <2>0, <2>2, <2>3
<1>2. ASSUME NEW p \in Processor, NEW op \in Op, NEW line \in Line \cup {NoLine},
             NEW c \in Client, Ask(op, line, p, c)
      PROVE  Goal
  <2>1. searchData(op, line, p, {c}) /\ {c} \in SUBSET Client /\ {c} # {}
    BY <1>2 DEF Ask
  <2> QED BY <1>1, <2>1
<1>3. ASSUME NEW p \in Processor, NEW line \in Line, mob_write(p, line) PROVE Goal
  <2>1. searchData("WRITE", line, p, {}) /\ {} \in SUBSET Client
    BY <1>3 DEF mob_write
  <2>2. "WRITE" \in Op /\ "WRITE" \notin NearData /\ line \in Line \cup {NoLine}
    BY DEF Op, Plain, NearData
  <2> QED BY <1>1, <2>1, <2>2
<1>4. CASE Submit
  <2>1. {"INST", "READ", "VIMA", "HIVE"} \subseteq Op
    BY DEF Op, Plain, NearData
  <2> QED BY <1>2, <1>3, <1>4, <2>1 DEF Submit, fetch, mob_read, mob_vima, mob_hive, Goal
<1>5. ASSUME NEW c \in Client, Consume(c) PROVE Goal
  BY <1>5 DEF Consume, KnownInv, NearDataAwaited, NoneForgotten, Outstanding, Goal
<1>6. ASSUME NEW r \in Request, Elapse(r) \/ Answer(r) PROVE Goal
  <2>1. \A q \in Request : /\ package'[q].op = package[q].op
                           /\ package'[q].clients = package[q].clients
                           /\ package'[q].sent_to_ram = package[q].sent_to_ram
                           /\ package[q].status = "WAIT" => package'[q].status = "WAIT"
    BY <1>0, <1>6 DEF Elapse, Answer, Package
  <2>2. Outstanding' = Outstanding
    BY <1>6 DEF Elapse, Answer, Outstanding
  <2>3. /\ dram \ {r} \subseteq dram' /\ vima \ {r} \subseteq vima' /\ hive \ {r} \subseteq hive'
        /\ (dram' = dram /\ vima' = vima /\ hive' = hive) \/ package'[r].status = "WAIT"
    BY <1>0, <1>6 DEF Elapse, Answer, Package
  <2> QED BY <1>0, <2>1, <2>2, <2>3 DEF KnownInv, NearDataAwaited, NoneForgotten, Goal
<1>7. CASE UNCHANGED vars
  BY <1>7 DEF vars, KnownInv, NearDataAwaited, NoneForgotten, Outstanding
<1> QED BY <1>4, <1>5, <1>6, <1>7, ClockKeepsKnown DEF Next, Goal

\* Between two walks every request that is past the caches is held by a controller or
\* answered, provided that the HIVE buffer has room for one instruction of every
\* client, without which addRequest loses one (property NoneForgotten).
THEOREM NoRequestForgotten == HiveHasRoom /\ Spec => []NoneForgotten
<1> SUFFICES ASSUME HiveHasRoom PROVE Spec => []NoneForgotten
  OBVIOUS
<1>1. Init => KnownInv
  BY InitTypeOK, InitTableInv
     DEF KnownInv, Init, NearDataAwaited, NoneForgotten, Outstanding
<1>2. KnownInv /\ [Next]_vars => KnownInv'
  BY StepKnown
<1>3. KnownInv => NoneForgotten
  BY DEF KnownInv
<1> QED BY <1>1, <1>2, <1>3, PTL DEF Spec

-----------------------------------------------------------------------------
(* Above the memory controller                                             *)

\* The lines of plain requests are real ones: they have an address.
LinesKnown ==
  \A r \in Outstanding : package[r].op \in Plain => package[r].line \in Line

ManagerInv == TypeOK /\ TableInv /\ LinesKnown

-----------------------------------------------------------------------------
(* The manager                                                             *)

\* While a package is in the table, its operation and line do not change.
LEMMA RequestStays ==
  ASSUME TypeOK, TableInv, [Next]_vars, NEW q \in Outstanding, q \in Outstanding'
  PROVE  package'[q].op = package[q].op /\ package'[q].line = package[q].line
<1> DEFINE Goal == package'[q].op = package[q].op /\ package'[q].line = package[q].line
<1>0. /\ q \in Request /\ package \in [Request -> Package] /\ package[q] \in Package
      /\ package[q].status # "FREE"
  BY OutstandingType DEF TypeOK, TableInv, Table
<1>1. ASSUME NEW p \in Processor, NEW op \in Op, NEW line \in Line \cup {NoLine},
             NEW S \in SUBSET Client, searchData(op, line, p, S)
      PROVE  Goal
  <2>1. PICK r \in Request :
          \/ /\ r \in Outstanding
             /\ package' = [package EXCEPT ![r] = [package[r] EXCEPT !.clients = @ \cup S]]
          \/ /\ r \notin Outstanding
             /\ package' = [package EXCEPT ![r] = NewPackage(op, line, p, S)]
    BY <1>1, SubmissionEffect
  <2>2. CASE r \notin Outstanding
    BY <1>0, <2>1, <2>2
  <2>3. CASE r \in Outstanding
    BY <1>0, <2>1, <2>3 DEF Package
  <2> QED BY <2>2, <2>3
<1> HIDE DEF Goal
<1>a. ASSUME NEW p \in Processor, NEW op \in Op, NEW line \in Line \cup {NoLine},
             NEW c \in Client, Ask(op, line, p, c)
      PROVE  Goal
  <2>1. searchData(op, line, p, {c}) /\ {c} \in SUBSET Client
    BY <1>a DEF Ask
  <2> QED BY <1>1, <2>1
<1>b. ASSUME NEW p \in Processor, NEW line \in Line, mob_write(p, line) PROVE Goal
  <2>1. searchData("WRITE", line, p, {}) /\ {} \in SUBSET Client
    BY <1>b DEF mob_write
  <2>2. "WRITE" \in Op /\ line \in Line \cup {NoLine}
    BY DEF Op, Plain
  <2> QED BY <1>1, <2>1, <2>2
<1>2. ASSUME Submit PROVE Goal
  <2>1. {"INST", "READ", "VIMA", "HIVE"} \subseteq Op
    BY DEF Op, Plain, NearData
  <2> QED BY <1>a, <1>b, <1>2, <2>1 DEF Submit, fetch, mob_read, mob_vima, mob_hive
<1> USE DEF Goal
<1>3. CASE clock
  <2> DEFINE r == requests[i]
  <2>1. r \in Request
    BY <1>3, Reached DEF clock
  <2>2. CASE finishRequest(r)
    <3>1. q # r
      BY <1>3, <2>2, FinishEffect
    <3> QED BY <1>0, <2>2, <3>1 DEF finishRequest
  <2>3. ASSUME NEW outcome \in {"HIT", "MISS"}, cache_search(r, outcome) PROVE Goal
    BY <1>0, <2>3 DEF cache_search, Package
  <2>4. CASE requestDRAM(r) \/ addRequestVima(r) \/ addRequestHive(r)
    BY <1>0, <2>4 DEF requestDRAM, addRequestVima, addRequestHive, Package
  <2>5. CASE Pass(r)
    BY <2>5 DEF Pass
  <2> QED BY <1>3, <2>2, <2>3, <2>4, <2>5 DEF clock
<1>4. ASSUME NEW r \in Request, Elapse(r) \/ Answer(r) PROVE Goal
  BY <1>0, <1>4 DEF Elapse, Answer, Package
<1>5. ASSUME NEW c \in Client, Consume(c) PROVE Goal
  BY <1>5 DEF Consume
<1>6. CASE UNCHANGED vars
  BY <1>6 DEF vars
<1> QED BY <1>2, <1>3, <1>4, <1>5, <1>6 DEF Next

\* Only a package that missed in the last level is sent to the DRAM, once.
LEMMA ForwardEffect ==
  ASSUME TypeOK, TableInv, clock
  PROVE  /\ Outstanding' \subseteq Outstanding
         /\ \/ dram' = dram
            \/ \E r \in Outstanding :
                 /\ r \notin dram /\ dram' = dram \cup {r} /\ package[r].op \in Plain
                 /\ package'[r].op = package[r].op /\ package'[r].line = package[r].line
                 /\ Outstanding' = Outstanding
<1> DEFINE r == requests[i]
<1>0. /\ r \in Request /\ r \in Outstanding /\ package \in [Request -> Package]
      /\ package[r] \in Package
  BY Reached DEF clock, TypeOK, Outstanding
<1>1. CASE finishRequest(r)
  BY <1>1, FinishEffect DEF finishRequest
<1>2. CASE requestDRAM(r)
  <2>1. /\ ~package[r].sent_to_ram /\ package[r].op \in Plain /\ requests' = requests
        /\ package' = [package EXCEPT ![r].sent_to_ram = TRUE] /\ dram' = dram \cup {r}
    BY <1>2 DEF requestDRAM, Processable
  <2> HIDE DEF r
  <2>2. package'[r].op = package[r].op /\ package'[r].line = package[r].line
    BY <1>0, <2>1 DEF Package
  <2>3. r \notin dram
    BY <2>1 DEF TableInv, HeldByKind, Sent
  <2> QED BY <1>0, <2>1, <2>2, <2>3 DEF Outstanding
<1>3. ASSUME NEW outcome \in {"HIT", "MISS"}, cache_search(r, outcome)
      PROVE  dram' = dram /\ requests' = requests
  BY <1>3 DEF cache_search
<1>4. CASE addRequestVima(r) \/ addRequestHive(r) \/ Pass(r)
  BY <1>4 DEF addRequestVima, addRequestHive, Pass, Outstanding
<1> QED BY <1>1, <1>2, <1>3, <1>4 DEF clock, Outstanding

\* Every step keeps the lines known.
LEMMA StepLinesKnown == TypeOK /\ TableInv /\ LinesKnown /\ [Next]_vars => LinesKnown'
<1> SUFFICES ASSUME TypeOK, TableInv, LinesKnown, [Next]_vars, NEW q \in Outstanding',
                    package'[q].op \in Plain
             PROVE  package'[q].line \in Line
  BY DEF LinesKnown
<1>0. CASE q \in Outstanding
  BY <1>0, RequestStays DEF LinesKnown
<1> SUFFICES ASSUME q \notin Outstanding PROVE package'[q].line \in Line
  BY <1>0
<1>1. ASSUME NEW p \in Processor, NEW op \in Op, NEW line \in Line \cup {NoLine},
             NEW S \in SUBSET Client, searchData(op, line, p, S)
      PROVE  package'[q].op = op /\ package'[q].line = line
  <2>1. PICK r \in Request :
          \/ Outstanding' = Outstanding
          \/ /\ r \notin Outstanding /\ Outstanding' = Outstanding \cup {r}
             /\ package' = [package EXCEPT ![r] = NewPackage(op, line, p, S)]
    BY <1>1, SubmissionEffect
  <2>2. package' = [package EXCEPT ![q] = NewPackage(op, line, p, S)] /\ q \in Request
    BY <2>1
  <2>3. package'[q] = NewPackage(op, line, p, S)
    BY <2>2 DEF TypeOK
  <2> QED BY <2>3 DEF NewPackage
<1>2. ASSUME NEW p \in Processor, NEW op \in Op, NEW line \in Line \cup {NoLine},
             NEW c \in Client, Ask(op, line, p, c)
      PROVE  package'[q].op = op /\ package'[q].line = line
  <2>1. searchData(op, line, p, {c}) /\ {c} \in SUBSET Client
    BY <1>2 DEF Ask
  <2> QED BY <1>1, <2>1
<1>3. ASSUME NEW p \in Processor, NEW line \in Line, mob_write(p, line)
      PROVE  package'[q].line \in Line
  <2>1. searchData("WRITE", line, p, {}) /\ {} \in SUBSET Client
    BY <1>3 DEF mob_write
  <2>2. "WRITE" \in Op /\ line \in Line \cup {NoLine}
    BY DEF Op, Plain
  <2>3. package'[q].line = line
    BY <1>1, <2>1, <2>2
  <2> QED BY <2>3
<1>4. CASE Submit
  <2>1. /\ "INST" \in Op /\ "READ" \in Op /\ "VIMA" \in Op /\ "HIVE" \in Op
        /\ "VIMA" \notin Plain /\ "HIVE" \notin Plain
    BY DEF Op, Plain, NearData
  <2> QED BY <1>2, <1>3, <1>4, <2>1 DEF Submit, fetch, mob_read, mob_vima, mob_hive
<1>5. CASE clock
  BY <1>5, ForwardEffect
<1>6. ASSUME UNCHANGED requests PROVE FALSE
  BY <1>6 DEF Outstanding
<1> QED BY <1>4, <1>5, <1>6 DEF Next, Elapse, Answer, Consume, vars

\* Every step of the manager keeps its invariant.
LEMMA StepManager == ManagerInv /\ [Next]_vars => ManagerInv'
BY StepTypeOK, StepTableInv, StepLinesKnown DEF ManagerInv

-----------------------------------------------------------------------------
(* The controller                                                          *)

Field ==
  [op : {"READ", "WRITE"}, address : {ADDRESS[l] : l \in Line}, is_vectorial : {FALSE},
   due : BOOLEAN, status : {"UNTREATED", "DRAM_FETCH", "DRAM_READY", "WAIT"}]

\* The list has each package once, and the walk is inside it.
ListInv ==
  /\ working \in Seq(DramPackage) /\ NoDuplicates(working)
  /\ phase = "walk" => channel \in DOMAIN working
  /\ field = [r \in DramPackage |-> field[r]]
  /\ \A r \in Memory!Working : field[r] \in Field

\* What a clock of the controller does to the list and to the packages in it.
ListKept ==
  /\ ListInv'
  /\ Memory!Working' \subseteq Memory!Working
  /\ \A q, r \in Memory!Working \ Memory!Working' : q = r
  /\ \A r \in Memory!Working' :
       field'[r].op = field[r].op /\ field'[r].address = field[r].address

LEMMA MemoryErase == \A seq, j : Memory!Erase(seq, j) = Erase(seq, j)
BY DEF Memory!Erase, Erase

LEMMA WorkingIsEntries == Memory!Working = EntriesOf(working) /\ Memory!Working' = EntriesOf(working')
BY DEF Memory!Working, EntriesOf

LEMMA WorkingType == ListInv => Memory!Working \subseteq DramPackage
BY DEF ListInv, Memory!Working

\* A step that changes the state of one package of the controller, or of none.
LEMMA FieldChange ==
  ASSUME ListInv, working' = working, phase' = "walk" => channel' \in DOMAIN working,
         NEW r, NEW status \in {"UNTREATED", "DRAM_FETCH", "DRAM_READY", "WAIT"}, NEW due \in BOOLEAN,
         field' = field \/ field' = [field EXCEPT ![r].status = status, ![r].due = due]
  PROVE  ListKept
<1>0. Memory!Working' = Memory!Working /\ Memory!Working \subseteq DramPackage
  BY DEF ListInv, Memory!Working
<1>1. CASE field' = field
  BY <1>0, <1>1 DEF ListKept, ListInv
<1>2. CASE field' = [field EXCEPT ![r].status = status, ![r].due = due]
  <2>1. field' = [q \in DramPackage |-> field'[q]]
    BY <1>2 DEF ListInv
  <2>2. ASSUME NEW q \in Memory!Working
        PROVE  /\ field'[q] \in Field
               /\ field'[q].op = field[q].op /\ field'[q].address = field[q].address
    <3>0. field[q] \in Field /\ q \in DramPackage
      BY <1>0 DEF ListInv
    <3>1. CASE q # r
      <4>1. field'[q] = field[q]
        BY <1>2, <3>0, <3>1 DEF ListInv
      <4> QED BY <3>0, <4>1
    <3>2. CASE q = r
      <4>1. field'[q] = [field[q] EXCEPT !.status = status, !.due = due]
        BY <1>2, <3>0, <3>2 DEF ListInv
      <4> QED BY <3>0, <4>1 DEF Field
    <3> QED BY <3>1, <3>2
  <2> QED BY <1>0, <2>1, <2>2 DEF ListKept, ListInv
<1> QED BY <1>1, <1>2

LEMMA ChannelsKeepList ==
  ASSUME ListInv, NEW c \in Memory!Channel,
         \/ Memory!IssueHalf(c, Memory!rowAccess(c) \/ Memory!columnReady(c)
                                \/ Memory!precharge(c) \/ Memory!noCommand(c))
         \/ Memory!TransmitHalf(c, Memory!column(c) \/ Memory!noneReady(c))
  PROVE  ListKept
<1>1. working' = working
  BY DEF Memory!IssueHalf, Memory!TransmitHalf
<1>2. phase' = "walk" => channel' \in DOMAIN working
  <2>1. working \in Seq(DramPackage) /\ (working # <<>> => 1 \in DOMAIN working)
    BY DEF ListInv
  <2> QED BY <2>1 DEF Memory!IssueHalf, Memory!TransmitHalf
<1>3. \/ field' = field
      \/ \E r : field' = [field EXCEPT ![r].status = "DRAM_READY", ![r].due = FALSE]
  BY DEF Memory!IssueHalf, Memory!TransmitHalf, Memory!rowAccess, Memory!columnReady,
         Memory!precharge, Memory!noCommand, Memory!Issue, Memory!column,
         Memory!noneReady
<1> QED BY <1>1, <1>2, <1>3, FieldChange

\* The loop of the walk ends, or stays inside the list.
LEMMA MemoryAdvance ==
  ASSUME NEW n \in Nat, NEW j \in Nat \ {0}, Memory!Advance(j, n)
  PROVE  phase' = "walk" => channel' \in 1 .. n
BY DEF Memory!Advance

LEMMA WalkKeepsList == ListInv /\ Memory!walk => ListKept
<1> SUFFICES ASSUME ListInv, Memory!walk PROVE ListKept
  OBVIOUS
<1> DEFINE r == working[channel]
           n == Len(working)
<1>0. /\ channel \in DOMAIN working /\ channel \in Nat \ {0} /\ n \in Nat
      /\ DOMAIN working = 1 .. n /\ working \in Seq(DramPackage) /\ NoDuplicates(working)
      /\ channel + 1 \in Nat \ {0}
  BY DEF ListInv, Memory!walk
<1>1. ASSUME Memory!enter(r) PROVE ListKept
  <2>1. /\ working' = working
        /\ field' = [field EXCEPT ![r].status = "DRAM_FETCH", ![r].due = TRUE]
        /\ Memory!Advance(channel + 1, n)
    BY <1>1 DEF Memory!enter
  <2> HIDE DEF r
  <2>2. phase' = "walk" => channel' \in DOMAIN working
    BY <1>0, <2>1, MemoryAdvance
  <2> QED BY <2>1, <2>2, FieldChange
<1>2. ASSUME Memory!stay(r) PROVE ListKept
  <2>1. /\ working' = working /\ field' = field /\ Memory!Advance(channel + 1, n)
    BY <1>2 DEF Memory!stay
  <2>2. phase' = "walk" => channel' \in DOMAIN working
    BY <1>0, <2>1, MemoryAdvance
  <2> QED BY <2>1, <2>2, FieldChange
<1>3. ASSUME Memory!finish(r) PROVE ListKept
  <2>1. /\ field' = [field EXCEPT ![r] = Memory!Answered]
        /\ working' = Erase(working, channel)
        /\ Memory!Advance(channel + 1, n - 1)
    BY <1>3, MemoryErase DEF Memory!finish
  <2>2. /\ working' \in Seq(DramPackage) /\ Len(working') = n - 1 /\ NoDuplicates(working')
        /\ EntriesOf(working') = EntriesOf(working) \ {r}
    BY <1>0, <2>1, EraseType, EraseEntry
  <2>3. Memory!Working' = Memory!Working \ {r} /\ Memory!Working \subseteq DramPackage
    <3>1. Memory!Working' = Memory!Working \ {r}
      BY <2>2, WorkingIsEntries
    <3> QED BY <3>1, WorkingType
  <2>4. Len(working') \in Nat /\ DOMAIN working' = 1 .. Len(working')
    BY <2>2
  <2> HIDE DEF r
  <2>5. phase' = "walk" => channel' \in DOMAIN working'
    BY <1>0, <2>1, <2>2, <2>4, MemoryAdvance
  <2>6. /\ field' = [q \in DramPackage |-> field'[q]]
        /\ \A q \in Memory!Working' : field'[q] = field[q]
    BY <2>1, <2>3 DEF ListInv
  <2> QED BY <2>2, <2>3, <2>5, <2>6 DEF ListKept, ListInv
<1> QED BY <1>1, <1>2, <1>3 DEF Memory!walk

\* No part of the clock changes a request, except that finished ones leave the list.
LEMMA ClockKeepsList == ListInv /\ Memory!clock => ListKept
BY ChannelsKeepList, WalkKeepsList DEF Memory!clock

-----------------------------------------------------------------------------
(* Both                                                                    *)

\* What the two sides believe of each other.
Agreement ==
  /\ dram = Memory!Working \cap Request
  /\ \A r \in dram :
       /\ field[r].op = Operation(package[r])
       /\ field[r].address = ADDRESS[package[r].line]

SystemInv == ManagerInv /\ ListInv /\ Agreement

\* Every step of the system is one of the manager, or none.
LEMMA SystemStepsManager == [SystemNext]_systemVars => [Next]_vars
<1> SUFFICES ASSUME [SystemNext]_systemVars PROVE [Next]_vars
  OBVIOUS
<1>1. CASE MemoryClock
  BY <1>1 DEF MemoryClock, Together, Next
<1>2. CASE ManagerClock
  BY <1>2 DEF ManagerClock, Next
<1>3. CASE Alone(Submit) \/ \E c \in Client : Alone(Consume(c))
  BY <1>3 DEF Alone, Next
<1>4. CASE \/ \E r \in Request : NearDataAnswer(r) \/ Alone(Elapse(r))
           \/ \E r \in DramPackage : MemoryElapse(r)
  BY <1>4 DEF MemoryElapse, NearDataAnswer, Alone, Next
<1>5. CASE UNCHANGED systemVars
  BY <1>5 DEF systemVars
<1> QED BY <1>1, <1>2, <1>3, <1>4, <1>5 DEF SystemNext

\* A package that is given to the controller joins the list.
LEMMA JoinKeeps ==
  ASSUME ListInv, NEW r \in DramPackage, NEW op \in {"READ", "WRITE"}, NEW line \in Line,
         Memory!requestDRAM(r, op, ADDRESS[line], FALSE)
  PROVE  /\ ListInv'
         /\ r \notin Memory!Working /\ Memory!Working' = Memory!Working \cup {r}
         /\ field'[r].op = op /\ field'[r].address = ADDRESS[line]
         /\ \A q \in DramPackage : q # r => field'[q] = field[q]
<1> DEFINE f == [op |-> op, address |-> ADDRESS[line],
                 is_vectorial |-> FALSE, due |-> TRUE, status |-> "UNTREATED"]
<1>1. f \in Field /\ f.op = op /\ f.address = ADDRESS[line]
  BY DEF Field
<1>2. /\ field' = [field EXCEPT ![r] = f] /\ working' = Append(working, r)
      /\ phase' = "issue" /\ r \notin Memory!Working
  BY DEF Memory!requestDRAM, Memory!BetweenClocks, Memory!Idle
<1> HIDE DEF f
<1>3. working \in Seq(DramPackage) /\ NoDuplicates(working) /\ r \notin EntriesOf(working)
  BY <1>2, WorkingIsEntries DEF ListInv
<1>4. NoDuplicates(working') /\ Memory!Working' = Memory!Working \cup {r}
  BY <1>2, <1>3, AppendEntry, WorkingIsEntries
<1>5. working' \in Seq(DramPackage) /\ Memory!Working \subseteq DramPackage
  BY <1>2, <1>3, WorkingType
<1>6. /\ field' = [q \in DramPackage |-> field'[q]] /\ field'[r] = f
      /\ \A q \in DramPackage : q # r => field'[q] = field[q]
  BY <1>2 DEF ListInv
<1>7. ListInv'
  BY <1>1, <1>2, <1>4, <1>5, <1>6 DEF ListInv
<1> QED BY <1>1, <1>2, <1>4, <1>6, <1>7

\* A package that is sent enters the list, and so may a write-back when one is
\* finished.
LEMMA ForwardKeeps ==
  ASSUME SystemInv, ManagerInv', ManagerClock PROVE ListInv' /\ Agreement'
<1>0. TypeOK /\ TableInv /\ LinesKnown /\ ListInv /\ Agreement /\ clock /\ [Next]_vars
  BY DEF SystemInv, ManagerInv, ManagerClock, Next
<1>k. ASSUME NEW q \in dram, q \in dram'
      PROVE  package'[q].op = package[q].op /\ package'[q].line = package[q].line
  <2>1. q \in Outstanding
    BY <1>0 DEF TableInv, HeldByKind, Sent
  <2>2. q \in Outstanding'
    BY <1>k DEF ManagerInv, TableInv, HeldByKind, Sent
  <2> QED BY <1>0, <2>1, <2>2, RequestStays
<1>1. CASE dram' = dram /\ UNCHANGED memoryVars
  <2>1. ListInv'
    BY <1>0, <1>1 DEF memoryVars, ListInv, Memory!Working
  <2>2. Memory!Working' = Memory!Working /\ field' = field
    BY <1>1 DEF memoryVars, Memory!Working
  <2> QED BY <1>0, <1>1, <1>k, <2>1, <2>2 DEF Agreement, Operation
<1>2. ASSUME NEW r \in dram' \ dram,
             Memory!requestDRAM(r, Operation(package[r]), ADDRESS[package[r].line], FALSE)
      PROVE  ListInv' /\ Agreement'
  <2>1. /\ r \in Outstanding /\ dram' = dram \cup {r} /\ package[r].op \in Plain
        /\ package'[r].op = package[r].op /\ package'[r].line = package[r].line
    BY <1>0, <1>2, ForwardEffect
  <2>2. r \in Request /\ r \in DramPackage /\ package[r].line \in Line
    BY <1>0, <2>1, OutstandingType DEF LinesKnown, DramPackage
  <2>3. Operation(package[r]) \in {"READ", "WRITE"} /\ Operation(package'[r]) = Operation(package[r])
    BY <2>1 DEF Operation
  <2>4. /\ ListInv' /\ Memory!Working' = Memory!Working \cup {r}
        /\ field'[r].op = Operation(package[r]) /\ field'[r].address = ADDRESS[package[r].line]
        /\ \A q \in DramPackage : q # r => field'[q] = field[q]
    BY <1>0, <1>2, <2>2, <2>3, JoinKeeps
  <2>5. dram' = Memory!Working' \cap Request
    BY <1>0, <2>1, <2>2, <2>4 DEF Agreement
  <2>6. ASSUME NEW q \in dram'
        PROVE  field'[q].op = Operation(package'[q]) /\ field'[q].address = ADDRESS[package'[q].line]
    <3>1. CASE q = r
      BY <2>1, <2>3, <2>4, <3>1
    <3>2. CASE q # r
      <4>1. q \in dram /\ q \in DramPackage
        BY <1>0, <2>1, <2>5, <3>2 DEF DramPackage
      <4> QED BY <1>0, <1>k, <2>4, <3>2, <4>1 DEF Agreement, Operation
    <3> QED BY <3>1, <3>2
  <2> QED BY <2>4, <2>5, <2>6 DEF Agreement
<1>3. ASSUME NEW r \in Outstanding \ Outstanding', NEW w \in WriteBack, writeBack(r, w)
      PROVE  ListInv' /\ Agreement'
  <2>1. dram' = dram
    BY <1>0, <1>3, ForwardEffect
  <2>2. package[r].line \in Line /\ w \in DramPackage /\ w \notin Request
    BY <1>0, <1>3, WriteBackAssumption DEF writeBack, LinesKnown, DramPackage
  <2>3. /\ ListInv' /\ Memory!Working' = Memory!Working \cup {w}
        /\ \A q \in DramPackage : q # w => field'[q] = field[q]
    BY <1>0, <1>3, <2>2, JoinKeeps DEF writeBack
  <2>4. dram' = Memory!Working' \cap Request
    BY <1>0, <2>1, <2>2, <2>3 DEF Agreement
  <2>5. ASSUME NEW q \in dram'
        PROVE  field'[q].op = Operation(package'[q]) /\ field'[q].address = ADDRESS[package'[q].line]
    <3>1. q \in dram /\ q \in DramPackage /\ q # w
      BY <2>1, <2>2, <2>4 DEF DramPackage
    <3> QED BY <1>0, <1>k, <2>3, <3>1 DEF Agreement, Operation
  <2> QED BY <2>3, <2>4, <2>5 DEF Agreement
<1> QED BY <1>1, <1>2, <1>3 DEF ManagerClock

LEMMA StepSystemInv == SystemInv /\ [SystemNext]_systemVars => SystemInv'
<1> SUFFICES ASSUME SystemInv, [SystemNext]_systemVars PROVE SystemInv'
  OBVIOUS
<1>0. TypeOK /\ TableInv /\ ListInv /\ Agreement /\ [Next]_vars /\ ManagerInv'
  BY StepManager, SystemStepsManager DEF SystemInv, ManagerInv
<1>k. ASSUME NEW q \in dram, q \in dram'
      PROVE  package'[q].op = package[q].op /\ package'[q].line = package[q].line
  <2>1. q \in Outstanding
    BY <1>0 DEF TableInv, HeldByKind, Sent
  <2>2. q \in Outstanding'
    BY <1>0, <1>k DEF ManagerInv, TableInv, HeldByKind, Sent
  <2> QED BY <1>0, <2>1, <2>2, RequestStays
<1>g. ASSUME ListKept, dram' = Memory!Working' \cap Request PROVE ListInv' /\ Agreement'
  <2>1. ASSUME NEW q \in dram'
        PROVE  field'[q].op = Operation(package'[q]) /\ field'[q].address = ADDRESS[package'[q].line]
    <3>1. q \in dram /\ q \in dram' /\ q \in Memory!Working'
      BY <1>0, <1>g DEF ListKept, Agreement
    <3>2. field'[q].op = field[q].op /\ field'[q].address = field[q].address
      BY <1>g DEF ListKept
    <3> QED BY <1>0, <1>k, <3>1, <3>2 DEF Agreement, Operation
  <2> QED BY <1>g, <2>1 DEF ListKept, Agreement
<1>1. CASE ManagerClock
  BY <1>0, <1>1, ForwardKeeps DEF SystemInv
<1>2. CASE MemoryClock
  <2>1. ListKept
    BY <1>0, <1>2, ClockKeepsList DEF MemoryClock, Together
  <2> DEFINE gone == Memory!Working \ Memory!Working'
  <2>2. CASE gone \cap Request = {} /\ UNCHANGED vars
    <3>1. dram' = dram /\ Memory!Working' \cap Request = Memory!Working \cap Request
      BY <2>1, <2>2 DEF vars, ListKept
    <3> QED BY <1>0, <1>g, <2>1, <3>1 DEF Agreement, SystemInv
  <2>3. ASSUME NEW r \in gone \cap Request, Answer(r) PROVE SystemInv'
    <3>1. dram' = dram \ {r}
      BY <2>3 DEF Answer
    <3>2. Memory!Working' = Memory!Working \ {r}
      BY <2>1, <2>3 DEF ListKept
    <3>3. dram' = Memory!Working' \cap Request
      BY <1>0, <3>1, <3>2 DEF Agreement
    <3> QED BY <1>0, <1>g, <2>1, <3>3 DEF SystemInv
  <2> QED BY <1>2, <2>2, <2>3 DEF MemoryClock, Together
<1>3. ASSUME NEW r \in DramPackage, MemoryElapse(r) PROVE SystemInv'
  <2>1. /\ working' = working /\ phase' = phase /\ channel' = channel /\ dram' = dram
        /\ field' = [field EXCEPT ![r].due = TRUE] /\ field[r].status = "DRAM_READY"
    BY <1>3 DEF MemoryElapse, Memory!Elapse, vars
  <2>2. Memory!Working' = Memory!Working /\ Memory!Working \subseteq DramPackage
    BY <1>0, <2>1, WorkingType DEF Memory!Working
  <2>3. ASSUME NEW q \in Memory!Working
        PROVE  /\ field'[q] \in Field
               /\ field'[q].op = field[q].op /\ field'[q].address = field[q].address
    <3>0. field[q] \in Field /\ q \in DramPackage
      BY <1>0, <2>2 DEF ListInv
    <3>1. CASE q # r
      <4>1. field'[q] = field[q]
        BY <1>0, <2>1, <3>0, <3>1 DEF ListInv
      <4> QED BY <3>0, <4>1
    <3>2. CASE q = r
      <4>1. field'[q] = [field[q] EXCEPT !.due = TRUE]
        BY <1>0, <2>1, <3>0, <3>2 DEF ListInv
      <4> QED BY <3>0, <4>1 DEF Field
    <3> QED BY <3>1, <3>2
  <2>4. field' = [q \in DramPackage |-> field'[q]]
    BY <1>0, <2>1 DEF ListInv
  <2>5. ListKept
    BY <1>0, <2>1, <2>2, <2>3, <2>4 DEF ListKept, ListInv
  <2> QED BY <1>0, <1>g, <2>1, <2>2, <2>5 DEF Agreement, SystemInv
<1>4. ASSUME UNCHANGED memoryVars, dram' = dram PROVE SystemInv'
  <2>1. ListKept
    BY <1>0, <1>4 DEF ListKept, ListInv, memoryVars, Memory!Working
  <2>2. dram' = Memory!Working' \cap Request
    BY <1>0, <1>4 DEF Agreement, memoryVars, Memory!Working
  <2> QED BY <1>0, <1>g, <2>1, <2>2 DEF SystemInv
<1>5. CASE Alone(Submit)
  <2>1. dram' = dram
    BY <1>5 DEF Alone, Submit, fetch, mob_read, mob_vima, mob_hive, mob_write, Ask, searchData
  <2> QED BY <1>4, <1>5, <2>1 DEF Alone
<1>6. ASSUME NEW c \in Client, Alone(Consume(c)) PROVE SystemInv'
  BY <1>4, <1>6 DEF Alone, Consume
<1>7. ASSUME NEW r \in Request, Alone(Elapse(r)) PROVE SystemInv'
  BY <1>4, <1>7 DEF Alone, Elapse
<1>8. ASSUME NEW r \in Request, NearDataAnswer(r) PROVE SystemInv'
  <2>1. r \notin dram
    BY <1>0, <1>8 DEF NearDataAnswer, Alone, TableInv, HeldByKind, Plain
  <2>2. dram' = dram
    BY <1>8, <2>1 DEF NearDataAnswer, Alone, Answer
  <2> QED BY <1>4, <1>8, <2>2 DEF NearDataAnswer, Alone
<1>9. CASE UNCHANGED systemVars
  BY <1>4, <1>9 DEF systemVars, vars
<1> QED BY <1>1, <1>2, <1>3, <1>5, <1>6, <1>7, <1>8, <1>9 DEF SystemNext

LEMMA InitSystemInv == SystemInit => SystemInv
<1> SUFFICES ASSUME SystemInit PROVE SystemInv
  OBVIOUS
<1>1. Init /\ working = <<>> /\ phase = "issue" /\ dram = {} /\ requests = <<>>
  BY DEF SystemInit, Memory!Init, Init
<1>2. Memory!Working = {} /\ Outstanding = {}
  BY <1>1 DEF Memory!Working, Outstanding
<1>3. field = [r \in DramPackage |-> field[r]]
  BY DEF SystemInit, Memory!Init
<1>4. ManagerInv
  BY <1>1, <1>2, InitTypeOK, InitTableInv DEF ManagerInv, LinesKnown
<1>5. ListInv
  BY <1>1, <1>2, <1>3 DEF ListInv, NoDuplicates
<1> QED BY <1>1, <1>2, <1>4, <1>5 DEF SystemInv, Agreement

LEMMA SystemInvariant == SystemSpec => []SystemInv
BY InitSystemInv, StepSystemInv, PTL DEF SystemSpec

\* A package of the manager that the memory controller works on is still the one it
\* was given, whatever the manager and the controller do to it, and however many
\* write-backs share the list (property HandedOverIntact).
THEOREM PackagesHandedOverIntact == SystemSpec => []HandedOverIntact
<1>1. SystemInv => HandedOverIntact
  BY DEF SystemInv, ManagerInv, TableInv, HeldByKind, Sent, Agreement, HandedOverIntact
<1> QED BY <1>1, SystemInvariant, PTL

\* Above the real memory controller the manager still does what it does above the
\* free set: all its theorems hold in the composition.
THEOREM SystemRefinesManager == SystemSpec => Spec
<1>1. SystemInit => Init
  BY DEF SystemInit
<1>2. [SystemNext]_systemVars => [Next]_vars
  BY SystemStepsManager
<1> QED BY <1>1, <1>2, PTL DEF SystemSpec, Spec
=============================================================================
