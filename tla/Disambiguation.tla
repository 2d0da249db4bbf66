--------------------------- MODULE Disambiguation ---------------------------
(***************************************************************************)
(* processor/memory_disambiguation/disambiguation_hashed.cpp: the order    *)
(* between the memory operations of a processor.  Two hash tables remember *)
(* the youngest load and the youngest store of each bucket; an operation   *)
(* that is renamed waits for both of its bucket, and is woken when they    *)
(* are done.  ADDRESS_TO_ADDRESS hands the data of an operation that is    *)
(* done to the loads of the same address that waited only for it.          *)
(*                                                                         *)
(* The operators take and return an order d, a record of                   *)
(*   mob         the lines of the memory order buffers, by place           *)
(*   load_hash   the place of the youngest load of a bucket, or NULL       *)
(*   store_hash  likewise for stores                                       *)
(* where a place is a pair of an operation and a position in its buffer.   *)
(***************************************************************************)
EXTENDS Integers, Sequences, FiniteSets, SequencesExt

CONSTANTS
  ROB_SIZE,                   \* dependents a line can hold
  LOAD_HASH_SIZE,             \* buckets of the load table
  STORE_HASH_SIZE,            \* buckets of the store table
  DESAMBIGUATION_BLOCK_SIZE,  \* bytes in a block
  ADDRESS_TO_ADDRESS,         \* whether data is handed over
  NULL

ASSUME TableAssumption ==
  /\ ROB_SIZE \in Nat \ {0}
  /\ LOAD_HASH_SIZE \in Nat \ {0} /\ STORE_HASH_SIZE \in Nat \ {0}
  /\ DESAMBIGUATION_BLOCK_SIZE \in Nat \ {0}
  /\ ADDRESS_TO_ADDRESS \in BOOLEAN

LoadHash(address) == (address \div DESAMBIGUATION_BLOCK_SIZE) % LOAD_HASH_SIZE

\* allocate() shifts the store shift, which is 0, by the size of the block
\* (line 54), so it stays 0 and stores are hashed by byte.
StoreHash(address) == address % STORE_HASH_SIZE

\* `new` waits for `old`, unless old has no place left to remember it.
DependOn(mob, old, new) ==
  IF old = NULL \/ Len(mob[old].mem_deps_ptr_array) = ROB_SIZE
  THEN mob
  ELSE [mob EXCEPT ![old].mem_deps_ptr_array = Append(@, new),
                   ![new].wait_mem_deps_number = @ + 1]

make_memory_dependences(d, new) ==
  LET address == d.mob[new].access.address
      youngestLoad == d.load_hash[LoadHash(address)]
      youngestStore == d.store_hash[StoreHash(address)]
  IN [mob |-> DependOn(DependOn(d.mob, youngestLoad, new), youngestStore, new),
      load_hash |-> IF new[1] = "LOAD"
                    THEN [d.load_hash EXCEPT ![LoadHash(address)] = new]
                    ELSE d.load_hash,
      store_hash |-> IF new[1] = "STORE"
                     THEN [d.store_hash EXCEPT ![StoreHash(address)] = new]
                     ELSE d.store_hash]

\* How often an array of dependents points to x.
Times(x, dependents) == Cardinality({j \in DOMAIN dependents : dependents[j] = x})

\* What `waiting` still waits for once `done` has let it go.
StillWaits(mob, done, waiting) ==
  mob[waiting].wait_mem_deps_number - Times(waiting, mob[done].mem_deps_ptr_array)

\* The loads that take their data from `done` instead of the cache.
Forwarded(mob, done) ==
  {w \in ToSet(mob[done].mem_deps_ptr_array) :
     /\ ADDRESS_TO_ADDRESS
     /\ w[1] = "LOAD"
     /\ mob[w].uop_executed
     /\ StillWaits(mob, done, w) = 0
     /\ mob[w].access = mob[done].access}

Forget_Never(table, bucket, place) == table

Forget(table, bucket, place) ==
  IF table[bucket] = place THEN [table EXCEPT ![bucket] = NULL] ELSE table

solve_memory_dependences(d, done) ==
  LET address == d.mob[done].access.address
      forwarded == Forwarded(d.mob, done)
      Woken(p) ==
        [d.mob[p] EXCEPT
           !.wait_mem_deps_number = StillWaits(d.mob, done, p),
           !.mem_deps_ptr_array = IF p = done THEN <<>> ELSE @,
           !.status = IF p \in forwarded THEN "READY" ELSE @,
           !.sent = @ \/ p \in forwarded]
  IN [mob |-> [p \in DOMAIN d.mob |-> Woken(p)],
      load_hash |-> IF done[1] = "LOAD"
                    THEN Forget(d.load_hash, LoadHash(address), done)
                    ELSE d.load_hash,
      store_hash |-> IF done[1] = "LOAD"
                     THEN d.store_hash
                     ELSE Forget(d.store_hash, StoreHash(address), done)]
=============================================================================
