--------------------------------- MODULE Vima ---------------------------------
(***************************************************************************)
(* vima/vima_controller.cpp and vima/vima_vector.cpp: vector instructions  *)
(* wait in vima_buffer and are executed one at a time over a small cache   *)
(* of vectors.  A vector is fetched or written back by one sub-request to  *)
(* the memory controller per memory line; the sub-requests are counted in  *)
(* order of place, whatever order they are answered in.                    *)
(*                                                                         *)
(* One step is one clock of the controller: every vector, then the head of *)
(* the buffer.  The cache is the fully associative one of every shipped    *)
(* configuration (VIMA_CACHE_ASSOCIATIVITY = 1, VIMA_UNBALANCED = 0), and  *)
(* LRU is a choice of any vector that is not taken.  Addresses are vector  *)
(* numbers; gathering and scattering change only the addresses of          *)
(* sub-requests, which are left out, and turn a hit into a miss.           *)
(*                                                                         *)
(* A definition with a capitalised suffix, such as Counted_AnyOrder, is a  *)
(* faulty variant of the one it is named after; the specification does not *)
(* use it.                                                                 *)
(***************************************************************************)
EXTENDS Naturals, Sequences, FiniteSets

CONSTANTS
  VIMA_BUFFER,          \* instructions the buffer holds
  vima_lines,           \* vectors the cache holds
  no_sub_requests,      \* memory lines of a vector
  VimaInstruction,      \* the instructions of the trace
  VIMA_TRACE,           \* bound: the length of the trace
  NULL

\* Address 0 is what a vector has before its first use and what an instruction
\* has for an operand it lacks.  The tracer records an operand to read for
\* every VIMA instruction.
ASSUME VimaAssumption ==
  /\ VIMA_BUFFER \in Nat \ {0} /\ vima_lines \in Nat \ {0} /\ no_sub_requests \in Nat \ {0}
  /\ VIMA_TRACE \in Nat /\ NULL \notin 1 .. vima_lines
  /\ VimaInstruction \subseteq
       [op : {"VIMA_ALU", "VIMA_GATHER", "VIMA_SCATTER"},
        vima_read1 : Nat \ {0}, vima_read2 : Nat, vima_write : Nat]
  /\ \A i \in VimaInstruction : i.op = "VIMA_SCATTER" => i.vima_write # 0

VARIABLES
  vima_buffer,  \* the instructions and their states, oldest first
  vima_cache,   \* the vectors
  operand,      \* read1, read2 and write: the vectors of the instruction executed
  vima_sent     \* how many instructions of the trace have been sent

vimaVars == <<vima_buffer, vima_cache, operand, vima_sent>>

Way == 1 .. vima_lines
Part == 1 .. no_sub_requests

vima_vector_t ==
  [address : Nat, next_address : Nat, status : {"FREE", "TRANSMIT", "WAIT", "READY"},
   dirty : BOOLEAN, taken : BOOLEAN, sub_ready : 0 .. no_sub_requests,
   sub_requests : [Part -> {"FREE", "DRAM", "WAIT"}]]

VimaInit ==
  /\ vima_buffer = <<>> /\ vima_sent = 0
  /\ vima_cache = [w \in Way |->
       [address |-> 0, next_address |-> 0, status |-> "FREE", dirty |-> FALSE,
        taken |-> FALSE, sub_ready |-> no_sub_requests,
        sub_requests |-> [k \in Part |-> "FREE"]]]
  /\ operand = [read1 |-> NULL, read2 |-> NULL, write |-> NULL]

addRequest_NoBound(instruction) ==
  /\ vima_sent < VIMA_TRACE
  /\ vima_buffer' = Append(vima_buffer, [instruction |-> instruction, status |-> "VIMA"])
  /\ vima_sent' = vima_sent + 1
  /\ UNCHANGED <<vima_cache, operand>>

addRequest(instruction) ==
  /\ vima_sent < VIMA_TRACE
  /\ Len(vima_buffer) < VIMA_BUFFER
  /\ vima_buffer' = Append(vima_buffer, [instruction |-> instruction, status |-> "VIMA"])
  /\ vima_sent' = vima_sent + 1
  /\ UNCHANGED <<vima_cache, operand>>

\* The memory controller answers a sub-request.
VectorAnswer(w, k) ==
  /\ vima_cache[w].sub_requests[k] = "DRAM"
  /\ vima_cache' = [vima_cache EXCEPT ![w].sub_requests[k] = "WAIT"]
  /\ UNCHANGED <<vima_buffer, operand, vima_sent>>

-----------------------------------------------------------------------------
(* vima_vector.cpp                                                         *)

Counted_AnyOrder(v) == [v EXCEPT !.sub_ready = Cardinality({k \in Part : v.sub_requests[k] = "WAIT"})]

\* From sub_ready on, those that are answered, up to the first that is not.
Counted(v) ==
  [v EXCEPT !.sub_ready = CHOOSE n \in @ .. no_sub_requests :
     /\ \A k \in @ + 1 .. n : v.sub_requests[k] = "WAIT"
     /\ n < no_sub_requests => v.sub_requests[n + 1] # "WAIT"]

\* All sub-requests are sent, or those sent before are counted.
Transferred(v) ==
  IF v.sub_ready = no_sub_requests
    THEN [v EXCEPT !.sub_ready = 0, !.sub_requests = [k \in Part |-> "DRAM"]]
    ELSE Counted(v)

\* The next address stays after the fetch.
fetch(v) ==
  IF v.next_address = 0 THEN [v EXCEPT !.dirty = FALSE, !.status = "READY"]
  ELSE LET sent == Transferred([v EXCEPT !.address = v.next_address])
       IN IF sent.sub_ready < no_sub_requests THEN sent
          ELSE [sent EXCEPT !.dirty = FALSE, !.status = "READY"]

writeback(v) ==
  IF ~v.dirty THEN [v EXCEPT !.status = "WAIT"]
  ELSE LET sent == Transferred(v)
       IN IF sent.sub_ready < no_sub_requests THEN sent ELSE [sent EXCEPT !.status = "WAIT"]

VectorClock(v) ==
  CASE v.status = "TRANSMIT" -> writeback(v)
    [] v.status = "WAIT"     -> fetch(v)
    [] OTHER                 -> v

-----------------------------------------------------------------------------
(* vima_controller.cpp                                                     *)

Head1 == Head(vima_buffer).instruction

Holders(c, address) == {w \in Way : c[w].address = address}

First(S) == CHOOSE w \in S : \A x \in S : w <= x

\* The vector with the address, or one to replace; the first when all are taken.
search_cache(c, address) ==
  LET free == {w \in Way : ~c[w].taken}
  IN IF Holders(c, address) # {} THEN {First(Holders(c, address))}
     ELSE IF free # {} THEN free ELSE {1}

Take(c, w) == IF w = NULL THEN c ELSE [c EXCEPT ![w].taken = TRUE]

Missed_CleanStays(v, address) ==
  [v EXCEPT !.status = IF @ # "READY" THEN "WAIT" ELSE IF v.dirty THEN "TRANSMIT" ELSE @,
            !.next_address = address]

\* A vector that does not hold what is to be read: write it back, or fetch.
Missed(v, address) ==
  [v EXCEPT !.status = IF @ = "READY" /\ v.dirty THEN "TRANSMIT" ELSE "WAIT",
            !.next_address = address]

\* A vector that does not hold what is to be written.
MissedWrite(v) == [v EXCEPT !.status = IF @ = "READY" /\ v.dirty THEN "TRANSMIT" ELSE @]

\* The vectors of the head's operands in the cache c, and what becomes of them.
check_cache(c) ==
  LET i == Head1
      two == i.vima_read2 \notin {0, i.vima_read1}
      hit1 == Holders(c, i.vima_read1) # {} /\ i.op # "VIMA_GATHER"
      hit2 == Holders(c, i.vima_read2) # {}
      hitW == Holders(c, i.vima_write) # {} /\ i.op # "VIMA_SCATTER"
  IN \E r1 \in search_cache(c, i.vima_read1) :
     \E r2 \in IF two THEN search_cache(Take(c, r1), i.vima_read2) ELSE {NULL} :
     \E w \in CASE i.vima_write = 0            -> {NULL}
                [] i.vima_write = i.vima_read1 -> {r1}
                [] i.vima_write = i.vima_read2 -> {r2}
                [] OTHER -> search_cache(Take(Take(c, r1), r2), i.vima_write) :
       LET taken == Take(Take(Take(c, r1), r2), w)
           first == IF hit1 THEN taken ELSE [taken EXCEPT ![r1] = Missed(@, i.vima_read1)]
           second == IF ~two \/ hit2 THEN first ELSE [first EXCEPT ![r2] = Missed(@, i.vima_read2)]
       IN /\ vima_cache' = IF w \in {NULL, r1, r2} \/ hitW THEN second
                           ELSE [second EXCEPT ![w] = MissedWrite(@)]
          /\ operand' = [read1 |-> r1, read2 |-> r2, write |-> w]

Reads_AndWrite == {operand.read1, operand.read2, operand.write} \ {NULL}

Reads == {operand.read1, operand.read2} \ {NULL}

\* The execution begins when the vectors to read are there; what is written to
\* need not be, and stays taken.
Complete(c) == \A w \in Reads : c[w].status = "READY"

check_completion(c) ==
  vima_cache' = [w \in Way |-> IF Complete(c) /\ w \in Reads THEN [c[w] EXCEPT !.taken = FALSE] ELSE c[w]]

write_to_cache(c) ==
  IF Head1.vima_write = 0 THEN c
  ELSE [c EXCEPT ![operand.write].address = Head1.vima_write,
                 ![operand.write].status = "READY", ![operand.write].dirty = TRUE]

\* clock(): first every vector, then the head.
Clocked == [w \in Way |-> VectorClock(vima_cache[w])]

noInstruction ==
  /\ vima_buffer = <<>>
  /\ vima_cache' = Clocked
  /\ UNCHANGED <<vima_buffer, operand>>

start ==
  /\ vima_buffer # <<>> /\ Head(vima_buffer).status = "VIMA"
  /\ check_cache(Clocked)
  /\ vima_buffer' = [vima_buffer EXCEPT ![1].status = "TRANSMIT"]

transmit ==
  /\ vima_buffer # <<>> /\ Head(vima_buffer).status = "TRANSMIT"
  /\ check_completion(Clocked)
  /\ vima_buffer' = IF Complete(Clocked) THEN [vima_buffer EXCEPT ![1].status = "WAIT"] ELSE vima_buffer
  /\ UNCHANGED operand

instruction_ready ==
  /\ vima_buffer # <<>> /\ Head(vima_buffer).status = "WAIT"
  /\ vima_cache' = write_to_cache(Clocked)
  /\ vima_buffer' = Tail(vima_buffer)
  /\ UNCHANGED operand

vima_clock ==
  /\ noInstruction \/ start \/ transmit \/ instruction_ready
  /\ UNCHANGED vima_sent

VimaNext ==
  \/ \E i \in VimaInstruction : addRequest(i)
  \/ \E w \in Way, k \in Part : VectorAnswer(w, k)
  \/ vima_clock

\* The controller is clocked for ever and the memory controller answers.
VimaFairness ==
  /\ WF_vimaVars(vima_clock)
  /\ \A w \in Way, k \in Part : WF_vimaVars(VectorAnswer(w, k))

-----------------------------------------------------------------------------
(* Properties                                                              *)

VimaTypeOK ==
  /\ Len(vima_buffer) <= VIMA_BUFFER
  /\ vima_buffer \in Seq([instruction : VimaInstruction, status : {"VIMA", "TRANSMIT", "WAIT"}])
  /\ vima_cache \in [Way -> vima_vector_t]
  /\ operand \in [read1 : Way \cup {NULL}, read2 : Way \cup {NULL}, write : Way \cup {NULL}]
  /\ vima_sent \in 0 .. VIMA_TRACE

\* The sub-requests a vector has counted are back from the memory controller.
\* When all are counted they are sent again, for another address or another
\* operation, and none of them is then still in the list of the controller.
CountedAreBack ==
  \A w \in Way : \A k \in 1 .. vima_cache[w].sub_ready : vima_cache[w].sub_requests[k] # "DRAM"

\* When an instruction is executed, the vectors it reads hold its operands, if
\* the search has given it two of them.
OperandsHeld ==
  (vima_buffer # <<>> /\ Head(vima_buffer).status = "WAIT" /\ operand.read1 # operand.read2) =>
    /\ vima_cache[operand.read1].address = Head1.vima_read1
    /\ operand.read2 # NULL => vima_cache[operand.read2].address = Head1.vima_read2

\* Every instruction that enters the buffer is executed and leaves it.
EveryVimaInstructionCompletes == vima_buffer # <<>> ~> vima_buffer = <<>>
=============================================================================
