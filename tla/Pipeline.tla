------------------------------ MODULE Pipeline ------------------------------
(***************************************************************************)
(* processor/processor.cpp: the out-of-order part of a processor, from     *)
(* rename to commit.  A renamed uop takes the next line of the reorder     *)
(* buffer and waits in the reservation station for the uops that produce   *)
(* its registers; dispatched, it occupies a functional unit; executed, it  *)
(* is done, or, for a memory operation, may be sent to the cache manager   *)
(* from its lines of the memory order buffer of its kind.  Lines leave the *)
(* reorder buffer in order.                                                *)
(*                                                                         *)
(* Abstractions.  Every stage of the code is a loop that treats the uops   *)
(* that are due (readyAt <= global_cycle) up to a width; a step here is    *)
(* one pass through such a loop.  Latencies, widths and free slots of      *)
(* functional units only decide when a uop is due, so any uop the loop     *)
(* looks at may be.  The uops delivered by decode are any members of Uop,  *)
(* MAX_UOPS of them.  The cursors of the four buffers that are read as     *)
(* `end` are start + used, around the ring.  VIMA_EXCEPT is off, as every  *)
(* configuration has it.                                                   *)
(*                                                                         *)
(* A definition with a capitalised suffix, such as Sendable_Unordered, is a*)
(* faulty variant of the one it is named after, to show which property     *)
(* notices the fault; the specification does not use it.                   *)
(***************************************************************************)
EXTENDS Integers, Sequences, FiniteSets, Disambiguation

CONSTANTS
  Register,    \* the registers of the alias table
  Uop,         \* the uops decode may deliver
  MAX_UOPS,    \* length of the trace (a bound)
  UNIFIED_RS,  \* entries of the reservation station that dispatch looks at
  MOB_READ, MOB_WRITE, MOB_HIVE, MOB_VIMA  \* memory order buffer sizes

Memory == {"LOAD", "STORE", "HIVE", "VIMA"}
Slot == 0 .. ROB_SIZE - 1

MOB == [LOAD |-> MOB_READ, STORE |-> MOB_WRITE, HIVE |-> MOB_HIVE, VIMA |-> MOB_VIMA]
Position(op) == 0 .. MOB[op] - 1
Place == UNION {{op} \X Position(op) : op \in Memory}

ASSUME SizesAssumption ==
  /\ UNIFIED_RS \in Nat \ {0} /\ MAX_UOPS \in Nat
  /\ \A op \in Memory : MOB[op] \in Nat

\* A memory operation has an access per line it needs; a near-data uop has
\* one, of the address it carries, if any.
ASSUME UopAssumption ==
  \A u \in Uop :
    /\ u.op \in Memory \cup {"ALU"}
    /\ u.read_regs \in Seq(Register) /\ u.write_regs \in Seq(Register)
    /\ u.op \in Memory =>
         /\ u.accesses \in Seq([address : Nat, size : Nat])
         /\ Len(u.accesses) \in 1 .. MOB[u.op]
    /\ u.op \in {"HIVE", "VIMA"} => Len(u.accesses) = 1

ASSUME NullAssumption ==
  NULL \notin Nat /\ NULL \notin Place /\ NULL \notin Uop

VARIABLES
  rob, robStart, robUsed,       \* the reorder buffer
  register_alias_table,         \* the line that last renamed a register
  unified_reservation_station,  \* lines not dispatched yet, in order
  unified_functional_units,     \* lines being executed
  mob, mob_start, mob_used,     \* the memory order buffers
  load_hash, store_hash,        \* the tables of the disambiguator
  memory_executed,              \* memory_{read,write,hive,vima}_executed
  oldest_to_send,               \* oldest_{read,write,hive,vima}_to_send
  renameCounter

robVars == <<rob, robStart, robUsed>>
stationVars == <<unified_reservation_station, unified_functional_units>>
mobVars == <<mob, mob_start, mob_used, load_hash, store_hash>>
sendVars == <<memory_executed, oldest_to_send>>
vars == <<robVars, register_alias_table, stationVars, mobVars, sendVars, renameCounter>>

\* The line after package_clean, which leaves the dependents alone.
CleanLine(dependents) ==
  [uop |-> NULL, uop_number |-> 0, stage |-> "DECODE", wait_reg_deps_number |-> 0,
   reg_deps_ptr_array |-> dependents, pos_mob |-> NULL, waiting_mem_request |-> 0,
   sent |-> FALSE]

CleanEntry(dependents) ==
  [status |-> "FREE", rob_ptr |-> NULL, access |-> NULL, uop_executed |-> FALSE,
   processed |-> FALSE, sent |-> FALSE, wait_mem_deps_number |-> 0,
   mem_deps_ptr_array |-> dependents]

Init ==
  /\ rob = [s \in Slot |-> CleanLine(<<>>)]
  /\ robStart = 0 /\ robUsed = 0
  /\ register_alias_table = [r \in Register |-> NULL]
  /\ unified_reservation_station = <<>>
  /\ unified_functional_units = {}
  /\ mob = [p \in Place |-> CleanEntry(<<>>)]
  /\ mob_start = [op \in Memory |-> 0]
  /\ mob_used = [op \in Memory |-> 0]
  /\ load_hash = [b \in 0 .. LOAD_HASH_SIZE - 1 |-> NULL]
  /\ store_hash = [b \in 0 .. STORE_HASH_SIZE - 1 |-> NULL]
  /\ memory_executed = [op \in Memory |-> 0]
  /\ oldest_to_send = [op \in Memory |-> NULL]
  /\ renameCounter = 0

\* The lines in use, oldest first.
robEnd == (robStart + robUsed) % ROB_SIZE
Live == {(robStart + k) % ROB_SIZE : k \in 0 .. robUsed - 1}

mobEnd(op) == (mob_start[op] + mob_used[op]) % MOB[op]

\* The lines of a memory order buffer that a uop occupies.
PlaceOf(op, first, k) == <<op, (first + k) % MOB[op]>>
PlacesOf(s) ==
  LET u == rob[s].uop
  IN [k \in 1 .. Len(u.accesses) |-> PlaceOf(u.op, rob[s].pos_mob, k - 1)]

order(entries) == [mob |-> entries, load_hash |-> load_hash, store_hash |-> store_hash]

OrderBecomes(d) ==
  /\ mob' = d.mob
  /\ load_hash' = d.load_hash
  /\ store_hash' = d.store_hash

-----------------------------------------------------------------------------
(* Rename. *)

\* Line s waits for the line that produces the register, unless that one
\* has no place left to remember it.
ReadRegister(lines, s, r) ==
  LET producer == register_alias_table[r]
  IN IF producer = NULL \/ Len(lines[producer].reg_deps_ptr_array) = ROB_SIZE
     THEN lines
     ELSE [lines EXCEPT ![producer].reg_deps_ptr_array = Append(@, s),
                        ![s].wait_reg_deps_number = @ + 1]

\* The registers are read one after the other.
ReadRegisters(lines, s, registers) ==
  LET after[n \in 0 .. Len(registers)] ==
        IF n = 0 THEN lines ELSE ReadRegister(after[n - 1], s, registers[n])
  IN after[Len(registers)]

update_registers(lines, s, u) ==
  /\ rob' = ReadRegisters(lines, s, u.read_regs)
  /\ register_alias_table' =
       [r \in Register |->
          IF r \in ToSet(u.write_regs) THEN s ELSE register_alias_table[r]]

Entry(s, access) ==
  [CleanEntry(<<>>) EXCEPT !.status = "WAIT", !.rob_ptr = s, !.access = access]

\* The lines of the uop in the memory order buffer.
Filled(s, u, places) ==
  [p \in Place |->
     IF p \in ToSet(places)
     THEN [Entry(s, u.accesses[CHOOSE k \in DOMAIN places : places[k] = p])
             EXCEPT !.mem_deps_ptr_array = mob[p].mem_deps_ptr_array]
     ELSE mob[p]]

\* The disambiguator orders the places one after the other.
Ordered(d, places) ==
  LET after[n \in 0 .. Len(places)] ==
        IF n = 0 THEN d ELSE make_memory_dependences(after[n - 1], places[n])
  IN after[Len(places)]

\* The places that rename takes for a memory uop.
NewPlaces(u) ==
  [k \in 1 .. Len(u.accesses) |-> PlaceOf(u.op, mobEnd(u.op), k - 1)]

Remember(s, u) ==
  LET places == NewPlaces(u)
  IN OrderBecomes(Ordered(order(Filled(s, u, places)), places))

rename(u) ==
  LET s == robEnd
      isMemory == u.op \in Memory
      line == [CleanLine(rob[s].reg_deps_ptr_array) EXCEPT
                 !.uop = u, !.uop_number = renameCounter, !.stage = "RENAME",
                 !.pos_mob = IF isMemory THEN mobEnd(u.op) ELSE NULL,
                 !.waiting_mem_request =
                    IF u.op \in {"LOAD", "STORE"} THEN Len(u.accesses) ELSE 0]
  IN /\ renameCounter < MAX_UOPS
     /\ Len(unified_reservation_station) < ROB_SIZE
     /\ isMemory => mob_used[u.op] + Len(u.accesses) <= MOB[u.op]
     /\ robUsed < ROB_SIZE
     /\ robUsed' = robUsed + 1
     /\ renameCounter' = renameCounter + 1
     /\ update_registers([rob EXCEPT ![s] = line], s, u)
     /\ unified_reservation_station' = Append(unified_reservation_station, s)
     /\ IF isMemory
        THEN /\ mob_used' = [mob_used EXCEPT ![u.op] = @ + Len(u.accesses)]
             /\ Remember(s, u)
        ELSE UNCHANGED <<mob, mob_used, load_hash, store_hash>>
     /\ UNCHANGED <<robStart, unified_functional_units, mob_start, sendVars>>

-----------------------------------------------------------------------------
(* Dispatch and execute. *)

dispatch(k) ==
  LET s == unified_reservation_station[k]
  IN /\ k <= UNIFIED_RS
     /\ rob[s].wait_reg_deps_number = 0
     /\ rob' = [rob EXCEPT ![s].stage = "EXECUTION"]
     /\ unified_reservation_station' = RemoveAt(unified_reservation_station, k)
     /\ unified_functional_units' = unified_functional_units \cup {s}
     /\ UNCHANGED <<robStart, robUsed, register_alias_table, mobVars, sendVars, renameCounter>>

Solved_OneIsEnough(lines, s) ==
  LET dependents == lines[s].reg_deps_ptr_array
  IN [x \in Slot |->
        [lines[x] EXCEPT
           !.wait_reg_deps_number = IF x \in ToSet(dependents) THEN 0 ELSE @,
           !.reg_deps_ptr_array = IF x = s THEN <<>> ELSE @]]

\* The line lets its dependents go, and is no producer any more.
Solved(lines, s) ==
  LET dependents == lines[s].reg_deps_ptr_array
  IN [x \in Slot |->
        [lines[x] EXCEPT
           !.wait_reg_deps_number =
              @ - Times(x, dependents),
           !.reg_deps_ptr_array = IF x = s THEN <<>> ELSE @]]

Forgotten_AnyProducer(lines, s) ==
  [r \in Register |->
     IF r \in ToSet(lines[s].uop.write_regs) THEN NULL ELSE register_alias_table[r]]

\* The registers the line wrote have no producer, unless a younger one.
Forgotten(lines, s) ==
  [r \in Register |->
     LET alias == register_alias_table[r]
     IN IF r \in ToSet(lines[s].uop.write_regs) /\ alias /= NULL
             /\ lines[alias].uop_number = lines[s].uop_number
        THEN NULL ELSE alias]

solve_registers_dependency(lines, s) ==
  /\ rob' = Solved(lines, s)
  /\ register_alias_table' = Forgotten(lines, s)

Counted_Once(op, places) == [memory_executed EXCEPT ![op] = @ + 1]

Counted(op, places) == [memory_executed EXCEPT ![op] = @ + Cardinality(places)]

execute(s) ==
  LET op == rob[s].uop.op
      places == ToSet(PlacesOf(s))
  IN /\ unified_functional_units' = unified_functional_units \ {s}
     /\ IF op \in Memory
        THEN /\ mob' = [p \in Place |->
                          IF p \in places THEN [mob[p] EXCEPT !.uop_executed = TRUE]
                          ELSE mob[p]]
             /\ memory_executed' = Counted(op, places)
             /\ UNCHANGED <<rob, register_alias_table>>
        ELSE /\ solve_registers_dependency([rob EXCEPT ![s].stage = "COMMIT"], s)
             /\ UNCHANGED <<mob, memory_executed>>
     /\ UNCHANGED <<robStart, robUsed, unified_reservation_station, mob_start, mob_used,
                    load_hash, store_hash, oldest_to_send, renameCounter>>

-----------------------------------------------------------------------------
(* Memory operations. *)

\* The places of a buffer that are in use, oldest first.
InUse(op) == [k \in 1 .. mob_used[op] |-> PlaceOf(op, mob_start[op], k - 1)]

Sendable_Unordered(p) == mob[p].uop_executed /\ mob[p].status = "WAIT" /\ ~mob[p].sent

Sendable(p) ==
  /\ mob[p].uop_executed
  /\ mob[p].status = "WAIT"
  /\ ~mob[p].sent
  /\ mob[p].wait_mem_deps_number = 0

\* Loads, HIVE and VIMA instructions may overtake each other; only the
\* oldest store is looked at.
get_next_op(op) ==
  LET looked == 0 .. (IF op = "STORE" THEN 1 ELSE mob_used[op]) - 1
      Found(k) == Sendable(PlaceOf(op, mob_start[op], k))
  IN IF \E k \in looked : Found(k)
     THEN PlaceOf(op, mob_start[op],
                  CHOOSE k \in looked : Found(k) /\ \A j \in 0 .. k - 1 : ~Found(j))
     ELSE NULL

Candidate(op) ==
  IF oldest_to_send[op] = NULL THEN get_next_op(op) ELSE oldest_to_send[op]

Sending(op) ==
  /\ memory_executed[op] /= 0
  /\ \E p \in {Candidate(op)} : p /= NULL /\ ~mob[p].sent

Taken_Unmarked(lines, p) == lines

\* The cache manager has taken the request of the operation.
Taken(lines, p) == [lines EXCEPT ![p].sent = TRUE]

Dropped_Kept(op) == [oldest_to_send EXCEPT ![op] = Candidate(op)]

\* The next cycle looks for a candidate again.
Dropped(op) == [oldest_to_send EXCEPT ![op] = NULL]

\* One memory operation less to wait for; the last one completes the uop.
OneDone(lines, s) ==
  LET left == lines[s].waiting_mem_request - 1
  IN [lines EXCEPT ![s].waiting_mem_request = left,
                   ![s].stage = IF left = 0 THEN "COMMIT" ELSE @]

CompleteOne(lines, s) ==
  LET after == OneDone(lines, s)
  IN IF after[s].waiting_mem_request = 0
     THEN solve_registers_dependency(after, s)
     ELSE rob' = after /\ UNCHANGED register_alias_table

\* available() says no: the candidate is kept for the next cycle.
mob_unavailable(op) ==
  /\ Sending(op)
  /\ oldest_to_send' = [oldest_to_send EXCEPT ![op] = Candidate(op)]
  /\ UNCHANGED <<robVars, register_alias_table, stationVars, mobVars, memory_executed,
                 renameCounter>>

\* searchData() refuses the request: the next cycle looks again.
mob_refused(op) ==
  /\ Sending(op)
  /\ oldest_to_send' = Dropped(op)
  /\ UNCHANGED <<robVars, register_alias_table, stationVars, mobVars, memory_executed,
                 renameCounter>>

\* mob_read, mob_hive, mob_vima: the request is taken.
mob_send(op) ==
  /\ op /= "STORE"
  /\ Sending(op)
  /\ \E p \in {Candidate(op)} :
       /\ mob' = Taken(mob, p)
       /\ rob' = [rob EXCEPT ![mob[p].rob_ptr].sent = TRUE]
  /\ oldest_to_send' = Dropped(op)
  /\ UNCHANGED <<robStart, robUsed, register_alias_table, stationVars, mob_start, mob_used,
                 load_hash, store_hash, memory_executed, renameCounter>>

\* A freed line keeps its dependents (package_clean).
Freed(lines, places) ==
  [p \in Place |->
     IF p \in places THEN CleanEntry(lines[p].mem_deps_ptr_array) ELSE lines[p]]

\* The store at p is done.
StoreDone(p) ==
  LET s == mob[p].rob_ptr
      solved == solve_memory_dependences(
                  order([mob EXCEPT ![p].sent = TRUE, ![p].processed = TRUE]), p)
      front == PlaceOf("STORE", mob_start["STORE"], 0)
      receivers == {mob[w].rob_ptr : w \in Forwarded(mob, p)}
  IN /\ CompleteOne([x \in Slot |-> [rob[x] EXCEPT !.sent = @ \/ x \in {s} \cup receivers]], s)
     /\ OrderBecomes([solved EXCEPT !.mob = Freed(@, {front})])

\* The request of the oldest store is taken.
mob_write ==
  /\ Sending("STORE")
  /\ \E p \in {Candidate("STORE")} : StoreDone(p)
  /\ mob_used' = [mob_used EXCEPT !["STORE"] = @ - 1]
  /\ mob_start' = [mob_start EXCEPT !["STORE"] = (@ + 1) % MOB_WRITE]
  /\ memory_executed' = [memory_executed EXCEPT !["STORE"] = @ - 1]
  /\ oldest_to_send' = Dropped("STORE")
  /\ UNCHANGED <<robStart, robUsed, stationVars, renameCounter>>

\* The memory system answers a client it was sent.
Answer(p) ==
  /\ p[1] /= "STORE"
  /\ mob[p].sent /\ mob[p].status = "WAIT"
  /\ mob' = [mob EXCEPT ![p].status = "READY"]
  /\ UNCHANGED <<robVars, register_alias_table, stationVars, mob_start, mob_used, load_hash,
                 store_hash, sendVars, renameCounter>>

\* clean_mob_read, clean_mob_hive, clean_mob_vima: an answer is consumed.
clean_mob(p) ==
  LET s == mob[p].rob_ptr
      op == p[1]
      receivers == {mob[w].rob_ptr : w \in Forwarded(mob, p)}
      lines == [x \in Slot |-> [rob[x] EXCEPT !.sent = @ \/ x \in receivers]]
  IN /\ mob[p].status = "READY" /\ ~mob[p].processed
     /\ p \in ToSet(InUse(op))
     /\ IF op = "LOAD"
        THEN CompleteOne(lines, s)
        ELSE solve_registers_dependency([lines EXCEPT ![s].stage = "COMMIT"], s)
     /\ OrderBecomes(solve_memory_dependences(order([mob EXCEPT ![p].processed = TRUE]), p))
     /\ memory_executed' = [memory_executed EXCEPT ![op] = @ - 1]
     /\ UNCHANGED <<robStart, robUsed, stationVars, mob_start, mob_used, oldest_to_send,
                    renameCounter>>

-----------------------------------------------------------------------------
(* Commit. *)

Leaving_One(u) == IF rob[robStart].sent /\ u.op \in Memory \ {"STORE"} THEN 1 ELSE 0

\* The lines of the memory order buffer that leave with the head.
Leaving(u) ==
  IF rob[robStart].sent /\ u.op \in Memory \ {"STORE"} THEN Len(u.accesses) ELSE 0

\* The head leaves, with the front of the memory order buffer of its kind.
commit ==
  LET u == rob[robStart].uop
      leaving == Leaving(u)
      op == IF u.op \in Memory THEN u.op ELSE "LOAD"
      fronts == {PlaceOf(op, mob_start[op], k - 1) : k \in 1 .. leaving}
  IN /\ robUsed /= 0
     /\ rob[robStart].stage = "COMMIT"
     /\ rob' = [rob EXCEPT ![robStart] = CleanLine(@.reg_deps_ptr_array)]
     /\ robStart' = (robStart + 1) % ROB_SIZE
     /\ robUsed' = robUsed - 1
     /\ mob' = Freed(mob, fronts)
     /\ mob_used' = [mob_used EXCEPT ![op] = @ - leaving]
     /\ mob_start' = [mob_start EXCEPT ![op] = IF leaving = 0 THEN @ ELSE (@ + leaving) % MOB[op]]
     /\ UNCHANGED <<register_alias_table, stationVars, load_hash, store_hash, sendVars,
                    renameCounter>>

\* isBusy() is false: the trace is over and nothing is in flight.
Finished ==
  /\ renameCounter = MAX_UOPS
  /\ robUsed = 0
  /\ UNCHANGED vars

Next ==
  \/ \E u \in Uop : rename(u)
  \/ \E k \in DOMAIN unified_reservation_station : dispatch(k)
  \/ \E s \in unified_functional_units : execute(s)
  \/ \E op \in Memory : mob_unavailable(op) \/ mob_refused(op) \/ mob_send(op)
  \/ mob_write
  \/ \E p \in Place : Answer(p) \/ clean_mob(p)
  \/ commit
  \/ Finished

Spec == Init /\ [][Next]_vars

\* processor_t::clock() runs every stage in every cycle, and each stage
\* treats some uop that is due.  The memory system answers, and takes a
\* request that is offered again and again (CacheManager, NoneForgotten).
Fairness ==
  /\ WF_vars(\E u \in Uop : rename(u))
  /\ WF_vars(\E k \in DOMAIN unified_reservation_station : dispatch(k))
  /\ WF_vars(\E s \in unified_functional_units : execute(s))
  /\ \A op \in Memory \ {"STORE"} : SF_vars(mob_send(op))
  /\ SF_vars(mob_write)
  /\ WF_vars(\E p \in Place : Answer(p))
  /\ WF_vars(\E p \in Place : clean_mob(p))
  /\ WF_vars(commit)

FairSpec == Spec /\ Fairness

-----------------------------------------------------------------------------
(* Properties. *)

Line ==
  [uop : Uop \cup {NULL}, uop_number : 0 .. MAX_UOPS,
   stage : {"DECODE", "RENAME", "EXECUTION", "COMMIT"},
   wait_reg_deps_number : Nat, reg_deps_ptr_array : Seq(Slot),
   pos_mob : Nat \cup {NULL}, waiting_mem_request : Nat, sent : BOOLEAN]

Access == UNION {ToSet(u.accesses) : u \in {v \in Uop : v.op \in Memory}}

MobLine ==
  [status : {"FREE", "WAIT", "READY"}, rob_ptr : Slot \cup {NULL},
   access : Access \cup {NULL}, uop_executed : BOOLEAN, processed : BOOLEAN,
   sent : BOOLEAN, wait_mem_deps_number : Nat, mem_deps_ptr_array : Seq(Place)]

\* Types; the two numbers of dependencies are unsigned in the code, so that
\* they stay in Nat says that no dependency is taken back twice.
TypeOK ==
  /\ rob \in [Slot -> Line]
  /\ robStart \in Slot /\ robUsed \in 0 .. ROB_SIZE
  /\ register_alias_table \in [Register -> Slot \cup {NULL}]
  /\ unified_reservation_station \in Seq(Slot)
  /\ unified_functional_units \subseteq Slot
  /\ mob \in [Place -> MobLine]
  /\ \A op \in Memory :
       /\ mob_start[op] \in Position(op) \cup {0}
       /\ mob_used[op] \in 0 .. MOB[op]
       /\ memory_executed[op] \in 0 .. MOB[op]
       /\ oldest_to_send[op] \in ({op} \X Position(op)) \cup {NULL}
  /\ load_hash \in [0 .. LOAD_HASH_SIZE - 1 -> Place \cup {NULL}]
  /\ store_hash \in [0 .. STORE_HASH_SIZE - 1 -> Place \cup {NULL}]
  /\ renameCounter \in 0 .. MAX_UOPS

Pending(s) == rob[s].stage \in {"RENAME", "EXECUTION"}

Writes(s, r) == r \in ToSet(rob[s].uop.write_regs)
Reads(s, r) == r \in ToSet(rob[s].uop.read_regs)
Before(s, t) == rob[s].uop_number < rob[t].uop_number

\* s is the last uop before t to write r.
Produces(s, t, r) ==
  /\ Writes(s, r) /\ Before(s, t)
  /\ ~\E x \in Live : Writes(x, r) /\ Before(s, x) /\ Before(x, t)

\* A uop that has left the reservation station finds its operands: every
\* uop that produces a register it reads is done.  The dependencies are
\* built from the alias table at rename, and taken back one by one at
\* execute, clean_mob_read and mob_write.
OperandsReady ==
  \A s, t \in Live : \A r \in Register :
    Produces(s, t, r) /\ Reads(t, r) /\ Pending(s) => rob[t].stage = "RENAME"

\* The alias table names the youngest uop that writes a register as long as
\* that uop is pending, and never a line that is done or was reused.
AliasIsYoungestWriter ==
  \A r \in Register :
    LET writers == {s \in Live : Writes(s, r)}
        youngest == {s \in writers : \A x \in writers : ~Before(s, x)}
    IN register_alias_table[r] =
         (IF \E s \in youngest : Pending(s) THEN CHOOSE s \in youngest : TRUE ELSE NULL)

Pointers(lines, Array(_), x) ==
  Cardinality({y \in lines \X (1 .. ROB_SIZE) :
                 y[2] <= Len(Array(y[1])) /\ Array(y[1])[y[2]] = x})

\* What a line waits for is what will wake it: its count of dependencies is
\* the number of pointers to it, and pointers are held only by lines that
\* are still to be solved.  A lost pointer leaves a uop waiting for ever.
EveryWaitHasAWaker ==
  /\ \A s \in Slot :
       /\ rob[s].wait_reg_deps_number =
            Pointers(Slot, LAMBDA x : rob[x].reg_deps_ptr_array, s)
       /\ rob[s].reg_deps_ptr_array /= <<>> => s \in Live /\ Pending(s)
  /\ \A p \in Place :
       /\ mob[p].wait_mem_deps_number =
            Pointers(Place, LAMBDA x : mob[x].mem_deps_ptr_array, p)
       /\ mob[p].mem_deps_ptr_array /= <<>> =>
            mob[p].status /= "FREE" /\ ~mob[p].processed

\* How far a place is from the start of its buffer.
Distance(p) == (p[2] - mob_start[p[1]]) % MOB[p[1]]

\* The places of its buffer that a live uop still holds, in order.  A store
\* gives them back one by one, the others when they commit.
Held(s) ==
  LET places == PlacesOf(s)
      gone == IF rob[s].uop.op = "STORE"
              THEN Len(places) - rob[s].waiting_mem_request ELSE 0
  IN [k \in 1 .. Len(places) - gone |-> places[k + gone]]

\* The lines in use of a memory order buffer, from its start, are those of
\* the uops of that kind in the reorder buffer, in program order: so that
\* the lines commit and mob_write remove from the front are their own.
MobFollowsRob ==
  \A op \in Memory :
    /\ {p \in Place : p[1] = op /\ mob[p].status /= "FREE"} = ToSet(InUse(op))
    /\ \A k \in 1 .. mob_used[op] :
         LET p == InUse(op)[k]
         IN /\ mob[p].rob_ptr \in Live /\ rob[mob[p].rob_ptr].uop.op = op
            /\ p \in ToSet(Held(mob[p].rob_ptr))
            /\ k > 1 => ~Before(mob[p].rob_ptr, mob[InUse(op)[k - 1]].rob_ptr)
    /\ \A s \in {x \in Live : rob[x].uop.op = op} :
         LET held == Held(s)
         IN \A k \in DOMAIN held :
              /\ mob[held[k]].rob_ptr = s
              /\ Distance(held[k]) = Distance(held[1]) + k - 1
              /\ Distance(held[k]) < mob_used[op]

\* The counters that execute() tests before it looks for something to send
\* count the operations that are executed and not done.  One that is too
\* small would leave an operation in its buffer for ever.
ExecutedCountsUnprocessed ==
  \A op \in Memory :
    memory_executed[op] =
      Cardinality({p \in ToSet(InUse(op)) : mob[p].uop_executed /\ ~mob[p].processed})

\* The place p is of an older memory operation than q.
Older(p, q) ==
  LET s == mob[p].rob_ptr
      t == mob[q].rob_ptr
  IN \/ Before(s, t)
     \/ s = t /\ Distance(p) < Distance(q)

\* An operation does not reach the cache before an older one it was ordered
\* after: a load of its block that is not answered, or a store of its
\* bucket that is not sent.  Waiting for the youngest of each is enough.
MemoryOrder ==
  \A p \in {x \in Place : x[1] \in {"LOAD", "STORE"} /\ mob[x].status /= "FREE"} :
    \A q \in {x \in Place : mob[x].status /= "FREE" /\ mob[x].sent} :
      /\ Older(p, q) /\ ~mob[p].processed
      => IF p[1] = "LOAD"
         THEN LoadHash(mob[p].access.address) /= LoadHash(mob[q].access.address)
         ELSE StoreHash(mob[p].access.address) /= StoreHash(mob[q].access.address)

\* The pointer a stage keeps over cycles in which the cache is full points
\* to an operation that can still be sent.  Were it sent meanwhile, the
\* stage would never clear the pointer, and never send anything again.
KeptCandidateSendable ==
  \A op \in Memory : oldest_to_send[op] /= NULL => Sendable(oldest_to_send[op])

\* Every uop of the trace is renamed, and commits.
EveryUopCommits == <>[](renameCounter = MAX_UOPS /\ robUsed = 0)
=============================================================================
