------------------------------- MODULE FrontEnd -------------------------------
(***************************************************************************)
(* The stages of processor/processor.cpp ahead of rename, and the branch   *)
(* target buffer of branch_predictor/branch_predictor.cpp.  fetch() takes  *)
(* instructions of the trace, asks the cache for each, and resolves a      *)
(* branch when it fetches the instruction that follows; decode() turns an  *)
(* answered instruction into its uops.                                     *)
(*                                                                         *)
(* The weights of the piecewise predictor are left out: a prediction may   *)
(* be right or wrong.  The least recently used entry of a set is any of    *)
(* them.  Requests are one per cache line, here one per address.  A uop    *)
(* keeps its kind and the number of its instruction.                       *)
(*                                                                         *)
(* A definition with a capitalised suffix, such as Room_ForOne, is a       *)
(* faulty variant of the one it is named after; the specification does not *)
(* use it.                                                                 *)
(***************************************************************************)
EXTENDS Naturals, Sequences, FiniteSets

CONSTANTS
  FETCH_WIDTH, FETCH_BUFFER, DECODE_WIDTH, DECODE_BUFFER,
  BTB_SETS, BTB_WAYS,
  BTB_MISS_PENALITY, MISSPREDICTION_PENALITY,
  INSTRUCTION_MSHR,   \* instruction requests the cache takes at a time
  Instruction,        \* the instructions of the trace
  TRACE               \* bound: the length of the trace

\* uops: how many uops the instruction set gives it besides loads and stores.
opcode_t ==
  [address : Nat \ {0}, op : {"BRANCH", "LOAD", "STORE", "NEAR_DATA", "OTHER"},
   num_reads : Nat, num_writes : Nat, uops : Nat]

num_uops(i) ==
  IF i.op = "NEAR_DATA" THEN 1
  ELSE (IF i.num_reads <= 2 THEN i.num_reads ELSE 1) + (IF i.num_writes <= 1 THEN i.num_writes ELSE 1)
       + (IF i.op = "BRANCH" THEN 1 ELSE 0) + (IF i.op = "OTHER" THEN i.uops ELSE 0)

\* What an instruction needs is less than the whole decode buffer.
ASSUME FrontEndAssumption ==
  /\ {FETCH_WIDTH, FETCH_BUFFER, DECODE_WIDTH, DECODE_BUFFER, BTB_SETS, BTB_WAYS,
      INSTRUCTION_MSHR} \subseteq Nat \ {0}
  /\ {BTB_MISS_PENALITY, MISSPREDICTION_PENALITY, TRACE} \subseteq Nat
  /\ Instruction \subseteq opcode_t
  /\ \A i \in Instruction : num_uops(i) <= DECODE_BUFFER

VARIABLES
  fetchBuffer,       \* instructions with their numbers, oldest first
  decodeBuffer,      \* uops, oldest first
  fetchCounter,      \* the number of the next instruction fetched
  decodeCounter,     \* and of the next one decoded
  stall,             \* cycles until stall_wrong_branch
  previousBranch,    \* the branch the next instruction resolves, if hasBranch
  btb,               \* the tags of the branch target buffer, 0 when invalid
  consulted,         \* index and way of the entry of the branch resolved last
  traceIsOver,
  resolved           \* history: the branch resolved last

vars == <<fetchBuffer, decodeBuffer, fetchCounter, decodeCounter, stall, previousBranch,
          btb, consulted, traceIsOver, resolved>>

Set == 0 .. BTB_SETS - 1
Way == 1 .. BTB_WAYS

NoBranch == [address |-> 0, number |-> 0]

Init ==
  /\ fetchBuffer = <<>> /\ decodeBuffer = <<>>
  /\ fetchCounter = 1 /\ decodeCounter = 1
  /\ stall = 0 /\ previousBranch = NoBranch
  /\ btb = [s \in Set |-> [w \in Way |-> 0]]
  /\ consulted = [index |-> 0, way |-> 1]
  /\ traceIsOver = FALSE /\ resolved = NoBranch

-----------------------------------------------------------------------------
(* Branches.  A state of fetch() is a record f of what it changes.         *)

Index(address) == (address \div 4) % BTB_SETS

Hits_NotShifted(f, address) == {w \in Way : f.btb[address % BTB_SETS][w] = address}

Hits(f, address) == {w \in Way : f.btb[Index(address)][w] = address}

First(S) == CHOOSE w \in S : \A x \in S : w <= x

\* The way installLine() takes: the first invalid one, else the LRU.
Installed(f, address) ==
  LET invalid == {w \in Way : f.btb[Index(address)][w] = 0}
  IN IF invalid # {} THEN {First(invalid)} ELSE Way

At(f, address, w) ==
  [f EXCEPT !.consulted = [index |-> Index(address), way |-> w],
            !.btb[Index(address)][w] = address]

\* solveBranch for the branch before, with a prediction that is right or wrong.
solveBranch(f) ==
  LET address == f.previousBranch.address
      hits == Hits(f, address)
      missed == IF hits = {} THEN BTB_MISS_PENALITY ELSE 0
  IN {[At(f, address, w) EXCEPT !.stall = missed + wrong, !.resolved = f.previousBranch,
                                !.previousBranch = NoBranch] :
        w \in IF hits # {} THEN {First(hits)} ELSE Installed(f, address),
        wrong \in {0, MISSPREDICTION_PENALITY}}

Unsolved(f) == IF f.previousBranch = NoBranch THEN {f} ELSE solveBranch(f)

-----------------------------------------------------------------------------
(* fetch()                                                                 *)

\* The lines the cache has been asked for.
Outstanding(buffer) == {buffer[k].instruction.address : k \in {n \in DOMAIN buffer : ~buffer[n].ready}}

Entered(f, i) ==
  [f EXCEPT !.fetchBuffer = Append(@, [instruction |-> i, number |-> f.fetchCounter, ready |-> FALSE]),
            !.fetchCounter = @ + 1,
            !.previousBranch = IF i.op = "BRANCH" THEN [address |-> i.address, number |-> f.fetchCounter]
                               ELSE @]

Stalled_FullOnly(f) == Len(f.fetchBuffer) = FETCH_BUFFER

\* No slot of the cycle is used: the buffer is full or a branch was mispredicted.
Stalled(f) == Len(f.fetchBuffer) = FETCH_BUFFER \/ f.stall > 0

\* What one slot of the cycle may do.
Slot(f) ==
  IF Cardinality(Outstanding(f.fetchBuffer)) >= INSTRUCTION_MSHR \/ Stalled(f) THEN {f}
  ELSE IF f.fetchCounter > TRACE THEN {[f EXCEPT !.traceIsOver = TRUE]}
  ELSE {Entered(g, i) : g \in Unsolved(f), i \in Instruction}

Fetched(f) ==
  LET after[n \in 0 .. FETCH_WIDTH] == IF n = 0 THEN {f} ELSE UNION {Slot(g) : g \in after[n - 1]}
  IN IF f.traceIsOver THEN {f} ELSE after[FETCH_WIDTH]

-----------------------------------------------------------------------------
(* decode()                                                                *)

Times(n, kind) == [k \in 1 .. n |-> kind]

\* More than two loads are one gather, more than one store is one scatter.
Uops(i) ==
  IF i.op = "NEAR_DATA" THEN <<"NEAR_DATA">>
  ELSE Times(IF i.num_reads <= 2 THEN i.num_reads ELSE 1, "LOAD")
       \o (CASE i.op = "OTHER" -> Times(i.uops, "ALU")
             [] i.op = "BRANCH" -> <<"BRANCH">>
             [] OTHER -> <<>>)
       \o Times(IF i.num_writes > 0 THEN 1 ELSE 0, "STORE")

Room_ForOne(d) == Len(d.decodeBuffer) < DECODE_BUFFER

Room_OneMore(d) == DECODE_BUFFER - Len(d.decodeBuffer) > num_uops(Head(d.fetchBuffer).instruction)

Room(d) == DECODE_BUFFER - Len(d.decodeBuffer) >= num_uops(Head(d.fetchBuffer).instruction)

\* One slot; a near-data instruction ends the cycle.
Decode(d) ==
  IF d.ended \/ d.fetchBuffer = <<>> \/ ~Head(d.fetchBuffer).ready \/ ~Room(d) THEN d
  ELSE LET head == Head(d.fetchBuffer)
           uops == Uops(head.instruction)
       IN [d EXCEPT !.fetchBuffer = Tail(@), !.decodeCounter = @ + 1,
                    !.ended = head.instruction.op = "NEAR_DATA",
                    !.decodeBuffer = @ \o [k \in DOMAIN uops |->
                                            [kind |-> uops[k], opcode_number |-> head.number]]]

Decoded ==
  LET after[n \in 0 .. DECODE_WIDTH] ==
        IF n = 0 THEN {[fetchBuffer |-> fetchBuffer, decodeBuffer |-> decodeBuffer,
                        decodeCounter |-> decodeCounter, ended |-> FALSE]}
        ELSE {Decode(d) : d \in after[n - 1]}
  IN after[DECODE_WIDTH]

-----------------------------------------------------------------------------

\* A cycle: decode(), then fetch().
clock ==
  \E d \in Decoded :
  \E f \in Fetched([fetchBuffer |-> d.fetchBuffer, fetchCounter |-> fetchCounter,
                    stall |-> IF stall = 0 THEN 0 ELSE stall - 1,
                    previousBranch |-> previousBranch, btb |-> btb, consulted |-> consulted,
                    traceIsOver |-> traceIsOver, resolved |-> resolved]) :
    /\ decodeBuffer' = d.decodeBuffer /\ decodeCounter' = d.decodeCounter
    /\ fetchBuffer' = f.fetchBuffer /\ fetchCounter' = f.fetchCounter
    /\ stall' = f.stall /\ previousBranch' = f.previousBranch
    /\ btb' = f.btb /\ consulted' = f.consulted
    /\ traceIsOver' = f.traceIsOver /\ resolved' = f.resolved

\* finishRequest: the cache answers every instruction that waits for the line.
Answer(address) ==
  /\ address \in Outstanding(fetchBuffer)
  /\ fetchBuffer' = [k \in DOMAIN fetchBuffer |->
       IF fetchBuffer[k].instruction.address = address THEN [fetchBuffer[k] EXCEPT !.ready = TRUE]
       ELSE fetchBuffer[k]]
  /\ UNCHANGED <<decodeBuffer, fetchCounter, decodeCounter, stall, previousBranch, btb,
                 consulted, traceIsOver, resolved>>

\* The stage behind takes a uop.
rename ==
  /\ decodeBuffer # <<>>
  /\ decodeBuffer' = Tail(decodeBuffer)
  /\ UNCHANGED <<fetchBuffer, fetchCounter, decodeCounter, stall, previousBranch, btb,
                 consulted, traceIsOver, resolved>>

Addresses == {i.address : i \in Instruction}

Next == clock \/ rename \/ \E a \in Addresses : Answer(a)

\* The processor is clocked for ever, and the stages around these two go on.
Fairness ==
  /\ WF_vars(clock) /\ WF_vars(rename)
  /\ \A a \in Addresses : WF_vars(Answer(a))

Spec == Init /\ [][Next]_vars /\ Fairness

-----------------------------------------------------------------------------
(* Properties                                                              *)

TypeOK ==
  /\ fetchBuffer \in Seq([instruction : Instruction, number : 1 .. TRACE, ready : BOOLEAN])
  /\ Len(fetchBuffer) <= FETCH_BUFFER
  /\ decodeBuffer \in Seq([kind : {"LOAD", "ALU", "BRANCH", "STORE", "NEAR_DATA"},
                           opcode_number : 1 .. TRACE])
  /\ fetchCounter \in 1 .. TRACE + 1 /\ decodeCounter \in 1 .. TRACE + 1
  /\ stall \in 0 .. BTB_MISS_PENALITY + MISSPREDICTION_PENALITY
  /\ previousBranch \in [address : Addresses \cup {0}, number : 0 .. TRACE]
  /\ btb \in [Set -> [Way -> Addresses \cup {0}]]
  /\ consulted \in [index : Set, way : Way]
  /\ traceIsOver \in BOOLEAN /\ resolved \in [address : Addresses \cup {0}, number : 0 .. TRACE]

\* The assertions of decode(): it meets the instructions in the order of their
\* numbers, and the uops it makes of one have room, which it reserved by
\* another count than the one that makes them.
DecodeAsserted ==
  /\ \A k \in DOMAIN fetchBuffer : fetchBuffer[k].number = decodeCounter + k - 1
  /\ fetchCounter = decodeCounter + Len(fetchBuffer)
  /\ Len(decodeBuffer) <= DECODE_BUFFER

\* A branch has one entry in the target buffer, however often it was evicted and
\* installed again, and the entry whose target and type are consulted is its own.
BranchHasOneEntry ==
  /\ \A s, t \in Set : \A v, w \in Way :
       btb[s][v] = btb[t][w] /\ btb[s][v] # 0 => s = t /\ v = w
  /\ resolved # NoBranch => btb[consulted.index][consulted.way] = resolved.address

\* While the front end is stalled by a branch, the instruction that followed
\* the branch is the last one fetched, even when slots of that cycle were left.
NothingBeyondTarget == stall > 0 => fetchCounter = resolved.number + 2

\* Every instruction of the trace is fetched and decoded, and all of its uops
\* are renamed.
EveryInstructionDecoded ==
  <>(traceIsOver /\ fetchBuffer = <<>> /\ decodeBuffer = <<>> /\ decodeCounter = TRACE + 1)
=============================================================================
