---------------------------- MODULE CacheManager ----------------------------
(***************************************************************************)
(* cache/cache_manager.cpp: the table of outstanding memory requests.      *)
(* Processors submit requests for cache lines; a request to a line that is *)
(* already outstanding is merged into it.  Once per processor clock the    *)
(* manager walks the table: a request looks up one cache level after the   *)
(* other, holding one MSHR entry (cache_t::count) of each level it has     *)
(* reached, goes to the memory controller after the last miss, and when    *)
(* its data is there frees its entries and wakes its clients.              *)
(* Near-data instructions (VIMA, HIVE) skip the caches and go to their     *)
(* controllers.                                                            *)
(*                                                                         *)
(* Abstractions.  Whether a lookup hits is a free choice (the contents of  *)
(* the caches are not modelled here).  readyAt is reduced to `due`, that   *)
(* is readyAt <= global_cycle.  The DRAM and the two near-data controllers *)
(* are the sets of requests they hold and answer in any order.             *)
(*                                                                         *)
(* A definition with a capitalised suffix, such as Advance_NoEnd,          *)
(* is a faulty variant of the one it is named after, to show which property*)
(* notices the fault; the specification does not use it.                   *)
(***************************************************************************)
EXTENDS Integers, Sequences, FiniteSets

CONSTANTS
  NUMBER_OF_PROCESSORS,
  Request,             \* memory packages; a deleted package may be reused
  Client,              \* fetch buffer slots and memory order buffer entries
  Line,                \* the cache lines touched by loads, stores and fetches
  NoLine,              \* the line of an instruction that carries no address
  INSTRUCTION_LEVELS,  \* instruction cache levels of the configuration
  DATA_LEVELS,         \* data cache levels of the configuration
  DCACHE_AMOUNT,       \* number of caches of each level
  MSHR_SIZE,           \* MSHR entries of a cache of a kind and level
  VIMA_BUFFER,         \* VIMA instructions its controller can hold
  HIVE_BUFFER          \* HIVE instructions its controller can hold

Processor == 0 .. NUMBER_OF_PROCESSORS - 1
Level == 0 .. DATA_LEVELS - 1
Kind == {"INST", "DATA"}
Cache == Kind \X Level \X Processor

Plain == {"READ", "WRITE", "INST"}
NearData == {"VIMA", "HIVE"}
Op == Plain \cup NearData

ASSUME ProcessorsAssumption == NUMBER_OF_PROCESSORS \in Nat \ {0}
ASSUME LevelsAssumption ==
  /\ INSTRUCTION_LEVELS \in Nat \ {0} /\ DATA_LEVELS \in Nat
  /\ INSTRUCTION_LEVELS < DATA_LEVELS
ASSUME AmountAssumption == DCACHE_AMOUNT \in [Level -> 1 .. NUMBER_OF_PROCESSORS]
ASSUME MSHRAssumption == MSHR_SIZE \in [Kind \X Level -> Nat]
ASSUME RequestAssumption == IsFiniteSet(Request)

VARIABLES
  requests,  \* the table, oldest first
  package,   \* the fields of each package
  count,     \* MSHR entries in use, per cache
  dram, vima, hive,  \* the requests held by the three memory side controllers
  client,    \* what each client is doing
  i          \* the table index the walk of clock() has reached

vars == <<requests, package, count, dram, vima, hive, client, i>>

Package ==
  [op : Op, line : Line \cup {NoLine}, processor_id : Processor,
   status : {"FREE", "UNTREATED", "WAIT", "VIMA"}, due : BOOLEAN,
   next_level : 0 .. DATA_LEVELS, sent_to_cache_level : SUBSET Level,
   sent_to_ram : BOOLEAN, clients : SUBSET Client]

\* memory_package_t(), with the fields the submitting stage fills in.
NewPackage(op, line, p, clients) ==
  [op |-> op, line |-> line, processor_id |-> p,
   status |-> "UNTREATED", due |-> TRUE,
   next_level |-> 0, sent_to_cache_level |-> {},
   sent_to_ram |-> FALSE, clients |-> clients]

Deleted == [NewPackage("READ", NoLine, 0, {}) EXCEPT !.status = "FREE"]

Outstanding == {requests[j] : j \in DOMAIN requests}

\* requests.erase(remove(..., r)) for the request at index j
Erase(seq, j) == [k \in 1 .. Len(seq) - 1 |-> IF k < j THEN seq[k] ELSE seq[k + 1]]

\* The index of a processor's cache; the amounts are powers of two, so the
\* mask is the remainder.  The instruction caches use it as well.
generateIndexArray(p, level) == p % DCACHE_AMOUNT[level]

instruction_cache(p, level) == <<"INST", level, generateIndexArray(p, level)>>
data_cache(p, level) == <<"DATA", level, generateIndexArray(p, level)>>

\* The cache process() searches for a package at a level.
SearchedCache(k, level) ==
  IF k.op = "INST" /\ level = 0 THEN instruction_cache(k.processor_id, level)
                                ELSE data_cache(k.processor_id, level)

HasEntry_OneMore(c) == count[c] <= MSHR_SIZE[<<c[1], c[2]>>]

HasEntry(c) == count[c] < MSHR_SIZE[<<c[1], c[2]>>]

available(p, op) ==
  HasEntry(IF op = "INST" THEN instruction_cache(p, 0) ELSE data_cache(p, 0))

Init ==
  /\ requests = <<>> /\ i = 1
  /\ package = [r \in Request |-> Deleted]
  /\ count = [c \in Cache |-> 0]
  /\ dram = {} /\ vima = {} /\ hive = {}
  /\ client = [c \in Client |-> "idle"]

-----------------------------------------------------------------------------
(* Submission: the pipeline stages run between two walks of the table.     *)

Type(op) == IF op = "INST" THEN "INSTRUCTION" ELSE "DATA"

SameLine_SameOperation(op, line) ==
  {j \in DOMAIN requests :
     package[requests[j]].line = line /\ package[requests[j]].op = op}

\* The table entries a new package is merged into: same line and type,
\* whatever their operation.  isIn() takes the first.
SameLine(op, line) ==
  {j \in DOMAIN requests :
     /\ package[requests[j]].line = line
     /\ Type(package[requests[j]].op) = Type(op)}

isIn(op, line) == op \notin NearData /\ SameLine(op, line) # {}

Merge_DropsClients(op, line, clients) ==
  SameLine(op, line) # {} /\ UNCHANGED <<package, requests>>

Merge(op, line, clients) ==
  \E j \in SameLine(op, line) :
    /\ \A k \in SameLine(op, line) : j <= k
    /\ package' = [package EXCEPT ![requests[j]].clients = @ \cup clients]
    /\ UNCHANGED requests

Enter(op, line, p, clients) ==
  \E r \in Request :
    /\ package[r].status = "FREE"
    /\ package' = [package EXCEPT ![r] = NewPackage(op, line, p, clients)]
    /\ requests' = Append(requests, r)

searchData(op, line, p, clients) ==
  /\ i = 1
  /\ available(p, op)
  /\ \/ isIn(op, line) /\ Merge(op, line, clients)
     \/ ~isIn(op, line) /\ Enter(op, line, p, clients)
  /\ UNCHANGED <<count, dram, vima, hive, i>>

\* A client that is not waiting for an earlier request starts to wait.
Ask(op, line, p, c) ==
  /\ client[c] = "idle"
  /\ client' = [client EXCEPT ![c] = "waiting"]
  /\ searchData(op, line, p, {c})

fetch(p, c, line) == Ask("INST", line, p, c)
mob_read(p, c, line) == Ask("READ", line, p, c)
mob_vima(p, c) == Ask("VIMA", NoLine, p, c)
mob_hive(p, c, line) == Ask("HIVE", line, p, c)

\* A store leaves the write buffer when it is sent: it has no client.
mob_write(p, line) == searchData("WRITE", line, p, {}) /\ UNCHANGED client

\* A stage sees that its package is ready and reuses the buffer entry.
Consume(c) ==
  /\ i = 1
  /\ client[c] = "ready"
  /\ client' = [client EXCEPT ![c] = "idle"]
  /\ UNCHANGED <<requests, package, count, dram, vima, hive, i>>

-----------------------------------------------------------------------------
(* The walk of clock(), one table entry per step.                          *)

Advance_NoEnd(j, length) == j

\* The loop index after an entry: past the end, the walk is over.
Advance(j, length) == IF j > length THEN 1 ELSE j

Released_NotTheLast(k) ==
  {SearchedCache(k, l) : l \in {m \in k.sent_to_cache_level : m + 1 < k.next_level}}

\* The entries finishRequest() gives back, read off its three loops.
Released(k) ==
  IF k.op = "INST"
    THEN {instruction_cache(k.processor_id, l) :
            l \in {m \in k.sent_to_cache_level : m < INSTRUCTION_LEVELS}}
         \cup {data_cache(k.processor_id, l) :
                 l \in {m \in k.sent_to_cache_level :
                          INSTRUCTION_LEVELS <= m /\ m < k.next_level}}
    ELSE {data_cache(k.processor_id, l) :
            l \in {m \in k.sent_to_cache_level : m < k.next_level}}

finishRequest_AnyStatus(r) ==
  /\ package[r].due
  /\ count' = [c \in Cache |-> IF c \in Released(package[r]) THEN count[c] - 1 ELSE count[c]]
  /\ client' = [c \in Client |-> IF c \in package[r].clients THEN "ready" ELSE client[c]]
  /\ requests' = Erase(requests, i)
  /\ package' = [package EXCEPT ![r] = Deleted]
  /\ i' = Advance(i, Len(requests) - 1)
  /\ UNCHANGED <<dram, vima, hive>>

\* finishRequest: free the MSHR entries, wake the clients, delete the package.
\* The loop index stays: the next entry has moved down to it.
finishRequest(r) ==
  /\ package[r].due /\ package[r].status = "WAIT"
  /\ count' = [c \in Cache |-> IF c \in Released(package[r]) THEN count[c] - 1 ELSE count[c]]
  /\ client' = [c \in Client |-> IF c \in package[r].clients THEN "ready" ELSE client[c]]
  /\ requests' = Erase(requests, i)
  /\ package' = [package EXCEPT ![r] = Deleted]
  /\ i' = Advance(i, Len(requests) - 1)
  /\ UNCHANGED <<dram, vima, hive>>

\* What process() asks of a request before it does anything with it.
Processable(r) ==
  package[r].due /\ package[r].status # "WAIT" /\ ~package[r].sent_to_ram

Searchable(r) ==
  /\ Processable(r) /\ package[r].op \in Plain
  /\ package[r].next_level < DATA_LEVELS /\ package[r].status = "UNTREATED"

\* cache_search: take an MSHR entry of the level; a hit waits for the data, a
\* miss goes on to the next level.
cache_search(r, outcome) ==
  LET l == package[r].next_level
      c == SearchedCache(package[r], l)
  IN /\ Searchable(r) /\ HasEntry(c)
     /\ count' = [count EXCEPT ![c] = @ + 1]
     /\ package' = [package EXCEPT
          ![r].sent_to_cache_level = @ \cup {l},
          ![r].next_level = l + 1,
          ![r].due = FALSE,
          ![r].status = IF outcome = "HIT" THEN "WAIT" ELSE "UNTREATED"]
     /\ UNCHANGED <<requests, dram, vima, hive, client>>

\* The last level missed: requestDRAM.
requestDRAM(r) ==
  /\ Processable(r) /\ package[r].op \in Plain
  /\ package[r].next_level >= DATA_LEVELS
  /\ package' = [package EXCEPT ![r].sent_to_ram = TRUE]
  /\ dram' = dram \cup {r}
  /\ UNCHANGED <<requests, count, vima, hive, client>>

addRequestVima_MarksFirst(r) ==
  /\ Processable(r) /\ package[r].op = "VIMA"
  /\ package' = [package EXCEPT ![r].sent_to_ram = TRUE]
  /\ vima' = IF Cardinality(vima) < VIMA_BUFFER THEN vima \cup {r} ELSE vima
  /\ UNCHANGED <<requests, count, dram, hive, client>>

\* vima_controller_t::addRequest: a full buffer leaves the request as it is.
addRequestVima(r) ==
  /\ Processable(r) /\ package[r].op = "VIMA"
  /\ Cardinality(vima) < VIMA_BUFFER
  /\ package' = [package EXCEPT ![r].sent_to_ram = TRUE, ![r].status = "VIMA"]
  /\ vima' = vima \cup {r}
  /\ UNCHANGED <<requests, count, dram, hive, client>>

\* hive_controller_t::addRequest marks the request as sent before it looks at
\* the buffer, and the manager does not look at the result.
addRequestHive(r) ==
  /\ Processable(r) /\ package[r].op = "HIVE"
  /\ package' = [package EXCEPT ![r].sent_to_ram = TRUE]
  /\ hive' = IF Cardinality(hive) < HIVE_BUFFER THEN hive \cup {r} ELSE hive
  /\ UNCHANGED <<requests, count, dram, vima, client>>

\* Nothing to do for the request in this cycle.
Pass(r) ==
  /\ \/ ~package[r].due
     \/ package[r].status # "WAIT" /\ package[r].sent_to_ram
     \/ Searchable(r) /\ ~HasEntry(SearchedCache(package[r], package[r].next_level))
     \/ Processable(r) /\ package[r].op = "VIMA" /\ Cardinality(vima) >= VIMA_BUFFER
  /\ UNCHANGED <<requests, package, count, dram, vima, hive, client>>

clock ==
  /\ requests # <<>>
  /\ \/ finishRequest(requests[i])
     \/ /\ \/ \E outcome \in {"HIT", "MISS"} : cache_search(requests[i], outcome)
           \/ requestDRAM(requests[i])
           \/ addRequestVima(requests[i])
           \/ addRequestHive(requests[i])
           \/ Pass(requests[i])
        /\ i' = Advance(i + 1, Len(requests))

-----------------------------------------------------------------------------
(* Between two walks: the cycle counter and the memory side.               *)

Elapse(r) ==
  /\ i = 1
  /\ r \in Outstanding /\ ~package[r].due
  /\ package' = [package EXCEPT ![r].due = TRUE]
  /\ UNCHANGED <<requests, count, dram, vima, hive, client, i>>

\* updatePackageWait(1) by the controller that holds the request.
Answer(r) ==
  /\ i = 1
  /\ r \in dram \cup vima \cup hive
  /\ package' = [package EXCEPT ![r].status = "WAIT", ![r].due = FALSE]
  /\ dram' = dram \ {r} /\ vima' = vima \ {r} /\ hive' = hive \ {r}
  /\ UNCHANGED <<requests, count, client, i>>

Submit ==
  \E p \in Processor :
    \/ \E line \in Line : mob_write(p, line)
    \/ \E c \in Client :
         \/ \E line \in Line : fetch(p, c, line) \/ mob_read(p, c, line)
         \/ mob_vima(p, c)
         \/ \E line \in Line \cup {NoLine} : mob_hive(p, c, line)

Next ==
  \/ Submit
  \/ \E c \in Client : Consume(c)
  \/ clock
  \/ \E r \in Request : Elapse(r) \/ Answer(r)

Spec == Init /\ [][Next]_vars

-----------------------------------------------------------------------------
(* Properties                                                              *)

TypeOK ==
  /\ requests \in Seq(Request)
  /\ package \in [Request -> Package]
  /\ count \in [Cache -> Int]
  /\ dram \subseteq Request /\ vima \subseteq Request /\ hive \subseteq Request
  /\ client \in [Client -> {"idle", "waiting", "ready"}]
  /\ i = 1 \/ i \in DOMAIN requests

\* The MSHR entries a package has taken and not yet given back.
Held(k) == {SearchedCache(k, l) : l \in k.sent_to_cache_level}

Holders(packages, c) == {r \in Request : c \in Held(packages[r])}

\* The entries in use at a cache are exactly those of the outstanding requests
\* that searched it: finishRequest gives back what cache_search took, on the
\* same caches.  An entry that leaks makes the cache unusable in the end.
MSHRConservation == \A c \in Cache : count[c] = Cardinality(Holders(package, c))

\* The two assertions on the counter: read() finds an entry ("REQUEST # >
\* MSHR_SIZE"), finishRequest never takes it below zero ("VALUE BECOMES
\* NEGATIVE").
MSHRBounds == \A c \in Cache : 0 <= count[c] /\ count[c] <= MSHR_SIZE[<<c[1], c[2]>>]

\* A stage that waits is in the client list of exactly one outstanding
\* request, and no request holds a pointer to an entry that is not waiting
\* for it: no wake-up is lost by merging, none is delivered to a reused entry.
ClientsRegistered ==
  \A c \in Client :
    LET with == {r \in Request : c \in package[r].clients}
    IN IF client[c] = "waiting" THEN \E r \in Outstanding : with = {r}
                                ELSE with = {}

\* A package is deleted only when no controller holds it any more, and no
\* two controllers hold the same one.
HeldPackagesAlive ==
  /\ \A r \in dram \cup vima \cup hive :
       r \in Outstanding /\ package[r].sent_to_ram /\ package[r].status # "WAIT"
  /\ dram \cap vima = {} /\ dram \cap hive = {} /\ vima \cap hive = {}

\* At most one plain request is outstanding per line and type, so that DRAM is
\* not read twice for a line.
MergedByLine ==
  \A j, k \in DOMAIN requests :
    /\ package[requests[j]].op \in Plain /\ package[requests[k]].op \in Plain
    /\ package[requests[j]].line = package[requests[k]].line
    /\ Type(package[requests[j]].op) = Type(package[requests[k]].op)
    => j = k

\* Between two walks, a request that is past the last level is either held by
\* a controller or answered: none is forgotten on the way.
NoneForgotten ==
  \A r \in Outstanding :
    package[r].sent_to_ram => r \in dram \cup vima \cup hive \/ package[r].status = "WAIT"
=============================================================================
