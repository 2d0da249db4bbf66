--------------------------------- MODULE Hive ---------------------------------
(***************************************************************************)
(* hive/hive_controller.cpp: vector instructions over a file of registers, *)
(* between a LOCK and an UNLOCK.  The controller walks its buffer on every *)
(* clock and treats every instruction up to the next LOCK or UNLOCK, in    *)
(* any state of the older ones; an instruction completes at the head of    *)
(* the buffer only.  A register is loaded or stored by one sub-request to  *)
(* the memory controller per memory line.                                  *)
(*                                                                         *)
(* The module is a machine whose processors together have no more places   *)
(* for HIVE operations than the buffer has (MOB_HIVE is 36, HIVE_BUFFER    *)
(* 128: up to three processors), so that addRequest never finds the buffer *)
(* full.  In a larger machine the code drops such an instruction, marked   *)
(* as sent (lines 356-369): CacheManager!addRequestHive.  Instructions are *)
(* sent in the order of the trace, at any time; the processor may offer    *)
(* any executed operation that is not held back by an older one.           *)
(*                                                                         *)
(* The walk erases the head while it counts positions, and so skips the    *)
(* instruction behind it.  Addresses of sub-requests and the names of the  *)
(* six ALU operations are left out; operands are sets of registers.        *)
(*                                                                         *)
(* A definition with a capitalised suffix, such as Walk_PastUnlock, is a   *)
(* faulty variant of the one it is named after; the specification does not *)
(* use it.                                                                 *)
(***************************************************************************)
EXTENDS Naturals, Sequences, FiniteSets

CONSTANTS
  HIVE_BUFFER,           \* instructions the buffer holds
  HIVE_REGISTERS,        \* registers of the file
  nano_requests_number,  \* memory lines of a register
  hive_op_latency,       \* clocks an ALU instruction takes
  HiveTraces             \* the instruction sequences a trace may have

HiveRegister == 0 .. HIVE_REGISTERS - 1
Nano == 1 .. nano_requests_number

\* reads: hive_read1 and hive_read2 when they are there; writes: hive_write.
hive_instruction_t ==
  [op : {"LOCK", "UNLOCK", "ALU", "LOAD", "STORE"},
   reads : SUBSET HiveRegister, writes : SUBSET HiveRegister]

ASSUME HiveAssumption ==
  /\ HIVE_BUFFER \in Nat \ {0} /\ HIVE_REGISTERS \in Nat \ {0}
  /\ nano_requests_number \in Nat \ {0} /\ hive_op_latency \in Nat
  /\ \A t \in HiveTraces : t \in Seq(hive_instruction_t)

VARIABLES
  hive_trace,           \* the instructions that have not been sent
  hive_instructions,    \* the buffer: instructions, their states, clocks to go
  hive_lock,            \* TRUE between a LOCK and an UNLOCK
  hive_register_state,
  hive_sub_requests     \* per register: operation, states, which ones are sent

hiveVars == <<hive_trace, hive_instructions, hive_lock, hive_register_state, hive_sub_requests>>

\* reset_sub_requests
NoSubRequests == [op |-> "FREE", status |-> [k \in Nano |-> "FREE"], sent |-> {}, ready |-> 0]

HiveInit ==
  /\ hive_trace \in HiveTraces
  /\ hive_instructions = <<>> /\ hive_lock = FALSE
  /\ hive_register_state = [r \in HiveRegister |-> "FREE"]
  /\ hive_sub_requests = [r \in HiveRegister |-> NoSubRequests]

\* One place of MOB_HIVE is one of the buffer, so an instruction that is sent has room.
hive_addRequest ==
  /\ hive_trace # <<>>
  /\ Len(hive_instructions) < HIVE_BUFFER
  /\ hive_instructions' = Append(hive_instructions,
       [instruction |-> Head(hive_trace), status |-> "UNTREATED", left |-> 0])
  /\ hive_trace' = Tail(hive_trace)
  /\ UNCHANGED <<hive_lock, hive_register_state, hive_sub_requests>>

\* The memory controller answers a sub-request.
NanoAnswer(r, k) ==
  /\ k \in hive_sub_requests[r].sent /\ hive_sub_requests[r].status[k] = "TRANSMIT"
  /\ hive_sub_requests' = [hive_sub_requests EXCEPT ![r].status[k] = "WAIT"]
  /\ UNCHANGED <<hive_trace, hive_instructions, hive_lock, hive_register_state>>

-----------------------------------------------------------------------------
(* The state h of a clock: buf, lock, reg and sub.                         *)

Loaded_NotReset(h, r) == [h EXCEPT !.reg[r] = "READY"]

Loaded(h, r) == [h EXCEPT !.sub[r] = NoSubRequests, !.reg[r] = "READY"]

\* The sub-requests of register r: those answered are counted, those not sent
\* are sent, and when all are counted the register is ready.
check_sub_requests(h, r) ==
  LET s == h.sub[r]
      back == {k \in s.sent : s.status[k] = "WAIT"}
      sent == s.sent \cup {k \in Nano : s.status[k] = "TRANSMIT"}
      ready == s.ready + Cardinality(back)
  IN IF ready = nano_requests_number
       THEN Loaded(h, r)
       ELSE [h EXCEPT !.sub[r] = [s EXCEPT !.sent = sent, !.ready = ready,
               !.status = [k \in Nano |-> IF k \in back THEN "FREE" ELSE s.status[k]]]]

\* reset_sub_requests is what clears sent and ready.
set_sub_requests(h, r, op) ==
  [h EXCEPT !.sub[r].op = op, !.sub[r].status = [k \in Nano |-> "TRANSMIT"]]

At(h, i) == h.buf[i].instruction

\* Moves instruction i to the given state for a number of clocks.
Updated(h, i, status, latency) ==
  [h EXCEPT !.buf[i].status = status, !.buf[i].left = latency]

\* Only the head completes.
hive_ready(h, i) == IF i = 1 THEN [h EXCEPT !.buf = Tail(@)] ELSE h

Operand(S) == CHOOSE r \in S : TRUE

Busy_NotMarked(h, r) == h

\* The register is loaded or stored.
Busy(h, r) == [h EXCEPT !.reg[r] = "WAIT"]

\* An ALU instruction without operands to read makes its register ready.
hive_dispatch(h, i) ==
  LET n == At(h, i)
  IN CASE n.op \in {"LOCK", "UNLOCK"} -> Updated(h, i, "HIVE", 0)
       [] n.op = "ALU" /\ h.lock /\ n.reads = {} ->
            Updated([h EXCEPT !.reg[Operand(n.writes)] = "READY"], i, "HIVE", hive_op_latency)
       [] n.op = "ALU" /\ h.lock /\ n.reads # {} -> Updated(h, i, "TRANSMIT", 0)
       [] n.op = "LOAD" /\ h.lock /\ h.reg[Operand(n.writes)] = "FREE" ->
            set_sub_requests(Updated(Busy(h, Operand(n.writes)), i, "HIVE", 0), Operand(n.writes), "READ")
       [] n.op = "STORE" /\ h.lock /\ h.reg[Operand(n.reads)] = "READY" ->
            set_sub_requests(Updated(Busy(h, Operand(n.reads)), i, "HIVE", 0), Operand(n.reads), "WRITE")
       [] OTHER -> h

check_transmit(h, i) ==
  IF \A r \in At(h, i).reads : h.reg[r] \in {"READY", "FREE"}
    THEN Updated(h, i, "HIVE", hive_op_latency) ELSE h

check_wait(h, i) ==
  LET n == At(h, i)
  IN IF h.buf[i].left # 0 THEN h
     ELSE CASE n.op = "UNLOCK" ->
                 hive_ready([h EXCEPT !.lock = FALSE, !.reg = [r \in HiveRegister |-> "FREE"]], i)
            [] n.op = "LOCK" -> hive_ready([h EXCEPT !.lock = TRUE], i)
            [] n.op = "ALU" /\ n.reads = {} ->
                 hive_ready([h EXCEPT !.reg[Operand(n.writes)] = "READY"], i)
            [] n.op = "ALU" /\ n.reads # {} -> hive_ready(h, i)
            [] n.op = "LOAD" /\ h.reg[Operand(n.writes)] = "READY" -> hive_ready(h, i)
            [] n.op = "STORE" /\ h.reg[Operand(n.reads)] = "READY" -> hive_ready(h, i)
            [] OTHER -> h

process(h, i) ==
  CASE h.buf[i].status = "TRANSMIT"  -> check_transmit(h, i)
    [] h.buf[i].status = "HIVE"      -> check_wait(h, i)
    [] h.buf[i].status = "UNTREATED" -> hive_dispatch(h, i)

Walk_PastUnlock(h, i) == IF i > Len(h.buf) THEN h ELSE process(h, i)

\* Position i of the walk: past the end it does nothing, and a LOCK or UNLOCK
\* that is not the head ends it.
Walk(h, i) ==
  IF h.ended \/ i > Len(h.buf) THEN h
  ELSE IF i # 1 /\ At(h, i).op \in {"LOCK", "UNLOCK"} THEN [h EXCEPT !.ended = TRUE]
  ELSE process(h, i)

\* A clock later, instructions have a clock less to go.
Tick(buf) ==
  [i \in DOMAIN buf |-> [buf[i] EXCEPT !.left = IF @ = 0 THEN 0 ELSE @ - 1]]

\* clock() does one thing after another to the state h: the registers, then
\* the walk.  Each set of states has one element.
AfterRegisters(h) ==
  LET counted[r \in 0 .. HIVE_REGISTERS] ==
        IF r = 0 THEN {h} ELSE {check_sub_requests(g, r - 1) : g \in counted[r - 1]}
  IN counted[HIVE_REGISTERS]

AfterWalk(h) ==
  LET walked[i \in 0 .. Len(h.buf)] ==
        IF i = 0 THEN {h} ELSE {Walk(g, i) : g \in walked[i - 1]}
  IN walked[Len(h.buf)]

hive_clock ==
  /\ hive_instructions # <<>>
  /\ LET now == [buf |-> Tick(hive_instructions), lock |-> hive_lock, ended |-> FALSE,
                 reg |-> hive_register_state, sub |-> hive_sub_requests]
     IN \E counted \in AfterRegisters(now) : \E h \in AfterWalk(counted) :
        /\ hive_instructions' = h.buf
        /\ hive_lock' = h.lock
        /\ hive_register_state' = h.reg
        /\ hive_sub_requests' = h.sub
  /\ UNCHANGED hive_trace

HiveNext ==
  \/ hive_addRequest
  \/ \E r \in HiveRegister, k \in Nano : NanoAnswer(r, k)
  \/ hive_clock

\* The controller is clocked for ever, the memory controller answers, and the
\* processor sends its instructions.
HiveFairness ==
  /\ WF_hiveVars(hive_clock)
  /\ WF_hiveVars(hive_addRequest)
  /\ \A r \in HiveRegister, k \in Nano : WF_hiveVars(NanoAnswer(r, k))

-----------------------------------------------------------------------------
(* The traces the HIVE controller is for                                   *)

\* The registers that an instruction loads or stores.
Moved(n) == IF n.op = "LOAD" THEN n.writes ELSE IF n.op = "STORE" THEN n.reads ELSE {}

\* The registers that an ALU instruction sets without operands.
SetBy(n) == IF n.op = "ALU" /\ n.reads = {} THEN n.writes ELSE {}

\* A LOAD or an ALU instruction writes one register, and a STORE reads one.
Shaped(n) ==
  /\ n.op \in {"LOAD", "ALU"} => \E r \in HiveRegister : n.writes = {r}
  /\ n.op = "STORE" => \E r \in HiveRegister : n.reads = {r}

\* There is an UNLOCK between instructions i and j.
SectionEnds(s, i, j) == \E k \in DOMAIN s : i < k /\ k < j /\ s[k].op = "UNLOCK"

\* Instructions come between a LOCK and the next UNLOCK.  lock tells whether the
\* first ones are in a section that has begun.
InSections(s, lock) ==
  /\ ~lock /\ 1 \in DOMAIN s => s[1].op = "LOCK"
  /\ \A i \in DOMAIN s : s[i].op = "UNLOCK" /\ i + 1 \in DOMAIN s => s[i + 1].op = "LOCK"
  /\ \A j \in DOMAIN s : s[j].op = "LOCK" =>
       /\ lock => SectionEnds(s, 0, j)
       /\ \A i \in DOMAIN s : i < j /\ s[i].op = "LOCK" => SectionEnds(s, i, j)

\* A register is loaded once in a section, and one that is set without operands
\* is neither loaded nor stored in it.
RegistersApart(s) ==
  \A i, j \in DOMAIN s : i < j =>
    /\ s[i].op = "LOAD" /\ s[j].op = "LOAD" /\ s[i].writes = s[j].writes => SectionEnds(s, i, j)
    /\ \A r \in HiveRegister :
         \/ r \in SetBy(s[i]) /\ r \in Moved(s[j])
         \/ r \in Moved(s[i]) /\ r \in SetBy(s[j])
         => SectionEnds(s, i, j)

\* What there is, or what is left, of a trace.
WellFormed(s, lock) ==
  /\ \A i \in DOMAIN s : Shaped(s[i])
  /\ InSections(s, lock)
  /\ RegistersApart(s)

\* The controller is not locked when a trace begins.  The theorems about it are
\* about these traces; the README says what the controller does with others.
WellFormedTraces == \A t \in HiveTraces : WellFormed(t, FALSE)

-----------------------------------------------------------------------------
(* Properties                                                              *)

HiveTypeOK ==
  /\ Len(hive_instructions) <= HIVE_BUFFER
  /\ hive_instructions \in Seq([instruction : hive_instruction_t,
       status : {"UNTREATED", "TRANSMIT", "HIVE"}, left : 0 .. hive_op_latency])
  /\ hive_lock \in BOOLEAN
  /\ hive_register_state \in [HiveRegister -> {"FREE", "WAIT", "READY"}]
  /\ hive_sub_requests \in [HiveRegister ->
       [op : {"FREE", "READ", "WRITE"}, status : [Nano -> {"FREE", "TRANSMIT", "WAIT"}],
        sent : SUBSET Nano, ready : 0 .. nano_requests_number]]

\* An instruction that is executed or stored has the registers it reads: the
\* older LOADs of them are sent and their sub-requests are back, although the
\* walk may skip a LOAD and treats younger instructions before it completes.
LoadedBeforeUse ==
  \A i, j \in DOMAIN hive_instructions :
    LET older == hive_instructions[i]
        younger == hive_instructions[j]
    IN /\ i < j /\ younger.status = "HIVE" /\ younger.instruction.op \in {"ALU", "STORE"}
       /\ older.instruction.op = "LOAD"
       => \A r \in older.instruction.writes \cap younger.instruction.reads :
            older.status = "HIVE" /\ hive_sub_requests[r].op # "READ"

\* The assertions of hive_dispatch, kept until the instruction completes: a
\* LOCK is executed while the controller is unlocked and an UNLOCK while it is
\* locked, although both are in the buffer with instructions of two sections.
LockAsserted ==
  \A i \in DOMAIN hive_instructions : hive_instructions[i].status = "HIVE" =>
    /\ hive_instructions[i].instruction.op = "LOCK" => ~hive_lock
    /\ hive_instructions[i].instruction.op = "UNLOCK" => hive_lock

\* UNLOCK frees every register whatever its state: none of them then has
\* sub-requests in the memory controller, which would make it ready later.
UnlockedIsIdle ==
  ~hive_lock => \A r \in HiveRegister :
    hive_register_state[r] = "FREE" /\ hive_sub_requests[r] = NoSubRequests

\* Every instruction of the trace completes.
EveryHiveInstructionCompletes == <>(hive_trace = <<>> /\ hive_instructions = <<>>)
=============================================================================
