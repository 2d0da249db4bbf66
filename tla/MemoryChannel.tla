--------------------------- MODULE MemoryChannel ---------------------------
(***************************************************************************)
(* main_memory/memory_channel.cpp: the DRAM channels.  A channel has one   *)
(* queue of reads and one of writes per bank.  Each clock it first issues  *)
(* a row command to the next bank in turn, or marks the bank as ready,     *)
(* then lets the next bank that is ready transmit one request on the data  *)
(* bus.  Both halves ask findNext() which request they are about.          *)
(*                                                                         *)
(* Abstractions.  Whether a command's time has come (get_minimum_latency() *)
(* against the cycle counter) is a free choice.  The test of the data bus  *)
(* at lines 391-392 is not a choice of its own: a bank is made ready only  *)
(* when the bus is free as well (lines 343 and 355, by 495-497 and         *)
(* 502-504), and it is tested in the same call of clock(), before any      *)
(* other request can come.  An address is its channel, its bank and its    *)
(* row.  READ stands for READ and INST, which the channel treats alike.    *)
(* The statistics of row buffer hits are left out.                         *)
(*                                                                         *)
(* A definition with a capitalised suffix, such as Looked_DrainsWhenFull,  *)
(* is a faulty variant of the one it is named after, to show which property*)
(* notices the fault; the specification does not use it.                   *)
(***************************************************************************)
EXTENDS Integers, Sequences

CONSTANTS
  CHANNEL, BANK,     \* channels, and banks of a channel
  BANK_BUFFER_SIZE,  \* entries of a queue
  REQUEST_PRIORITY, WRITE_PRIORITY, CLOSED_ROW,
  ROW_MODULUS,       \* 2^32: clock() keeps the row in a uint32_t
  Address,           \* the addresses that are accessed
  Vectorial,         \* whether requests are parts of vectors: some, all or none
  Request, NULL

Channel == 0 .. CHANNEL - 1
Cell == Channel \X (0 .. BANK - 1)

Priority == {"FIRST_COME_FIRST_SERVE", "ROW_BUFFER_HITS_FIRST", "ROW_BUFFER_NORMAL_HITS_FIRST"}

ASSUME ShapeAssumption ==
  /\ CHANNEL \in Nat \ {0} /\ BANK \in Nat \ {0}
  /\ BANK_BUFFER_SIZE \in Nat \ {0} /\ ROW_MODULUS \in Nat \ {0}
ASSUME PolicyAssumption ==
  /\ REQUEST_PRIORITY \in Priority
  /\ WRITE_PRIORITY \in {"SERVICE_AT_NO_READ", "DRAIN_WHEN_FULL"}
  /\ CLOSED_ROW \in BOOLEAN
ASSUME AddressAssumption == Address # {} /\ Address \subseteq [cell : Cell, row : Nat]
ASSUME VectorialAssumption == Vectorial # {} /\ Vectorial \subseteq BOOLEAN
ASSUME NullAssumption == NULL \notin Request

VARIABLES
  package,                 \* the memory packages
  bank,                    \* the state of each bank
  last_bank_selected,      \* per channel, the bank last offered a command
  bank_last_transmission   \* per channel, the bank last offered the bus

channelVars == <<package, bank, last_bank_selected, bank_last_transmission>>

Op == {"READ", "WRITE"}

Package ==
  [op : Op, address : Address, is_vectorial : Vectorial, due : BOOLEAN,
   status : {"UNTREATED", "DRAM_FETCH", "DRAM_READY", "WAIT"}]

Command == {"PRECHARGE", "ROW_ACCESS", "COLUMN_READ", "COLUMN_WRITE"}

NoRow == -1  \* POSITION_FAIL

Truncate(row) == row % ROW_MODULUS

RowOf(r) == package[r].address.row

BankState ==
  [read_requests : Seq(Request), write_requests : Seq(Request),
   last_command : Command, last_row : Nat \cup {NoRow},
   is_ready : BOOLEAN, is_drain_write : BOOLEAN]

ChannelInit ==
  /\ bank = [c \in Cell |->
       [read_requests |-> <<>>, write_requests |-> <<>>,
        last_command |-> "PRECHARGE", last_row |-> 0,
        is_ready |-> FALSE, is_drain_write |-> FALSE]]
  /\ last_bank_selected = [c \in Channel |-> 0]
  /\ bank_last_transmission = [c \in Channel |-> 0]

-----------------------------------------------------------------------------
(* Which request a bank b is about to serve.                               *)

\* findNextRead and findNextWrite: the classes of requests in the order they
\* are preferred.  A hit compares the whole row with the truncated one.
Preferred(b, queue) ==
  LET hits == {j \in DOMAIN queue : b.last_row = RowOf(queue[j])}
      normal == {j \in DOMAIN queue : ~package[queue[j]].is_vectorial}
  IN CASE REQUEST_PRIORITY = "FIRST_COME_FIRST_SERVE" -> <<>>
       [] REQUEST_PRIORITY = "ROW_BUFFER_HITS_FIRST" -> <<hits>>
       [] REQUEST_PRIORITY = "ROW_BUFFER_NORMAL_HITS_FIRST" -> <<hits \cap normal, normal, hits>>

\* The oldest request of the first class that has one, else the oldest of all.
Chosen(b, queue) ==
  LET classes == Preferred(b, queue) \o <<DOMAIN queue>>
      first == CHOOSE n \in DOMAIN classes :
                 classes[n] # {} /\ \A m \in 1 .. n - 1 : classes[m] = {}
  IN queue[CHOOSE j \in classes[first] : \A k \in classes[first] : j <= k]

findNextRead(b) == IF b.read_requests = <<>> THEN NULL ELSE Chosen(b, b.read_requests)
findNextWrite(b) == IF b.write_requests = <<>> THEN NULL ELSE Chosen(b, b.write_requests)

WritesFull(b) == Len(b.write_requests) = BANK_BUFFER_SIZE

\* Whether the writes go first, which findNext() remembers as draining.
WritesFirst(b) ==
  IF b.is_drain_write THEN b.write_requests # <<>> ELSE b.read_requests = <<>>

findNext_OnlyFullWrites(b) ==
  IF ~WritesFirst(b) THEN findNextRead(b)
  ELSE IF b.is_drain_write \/ WritesFull(b) THEN findNextWrite(b) ELSE NULL

findNext(b) ==
  IF ~WritesFirst(b) THEN findNextRead(b)
  ELSE IF b.is_drain_write \/ WRITE_PRIORITY = "SERVICE_AT_NO_READ" \/ WritesFull(b)
    THEN findNextWrite(b) ELSE NULL

Looked_DrainsWhenFull(b) ==
  IF b.read_requests = <<>> /\ b.write_requests = <<>> THEN b
  ELSE [b EXCEPT !.is_drain_write = (@ /\ b.write_requests # <<>>) \/ WritesFull(b)]

\* The state findNext() leaves the bank in: draining starts when writes are
\* chosen and their queue is full, and ends when there is none left.
Looked(b) ==
  IF b.read_requests = <<>> /\ b.write_requests = <<>> THEN b
  ELSE [b EXCEPT !.is_drain_write = WritesFirst(b) /\ (@ \/ WritesFull(b))]

-----------------------------------------------------------------------------
(* addRequest.                                                             *)

HasRoom(b, op) ==
  Len(IF op = "READ" THEN b.read_requests ELSE b.write_requests) < BANK_BUFFER_SIZE

Queued(b, r) ==
  IF package[r].op = "READ" THEN [b EXCEPT !.read_requests = Append(@, r)]
                            ELSE [b EXCEPT !.write_requests = Append(@, r)]

addRequest(r) ==
  LET c == package[r].address.cell
  IN /\ HasRoom(bank[c], package[r].op)
     /\ bank' = [bank EXCEPT ![c] = Queued(@, r)]
     /\ UNCHANGED <<last_bank_selected, bank_last_transmission>>

-----------------------------------------------------------------------------
(* First half of clock(): a row command for the bank whose turn it is.     *)

Turn(c) == <<c, (last_bank_selected[c] + 1) % BANK>>

\* The turn passes, findNext() is called, and the bank becomes b.
Issue(c, b) ==
  /\ last_bank_selected' = [last_bank_selected EXCEPT ![c] = Turn(c)[2]]
  /\ bank' = [bank EXCEPT ![Turn(c)] = b]
  /\ UNCHANGED <<package, bank_last_transmission>>

WantsRowAccess(b) ==
  findNext(b) # NULL /\ ~b.is_ready /\ b.last_command = "PRECHARGE"

RowIsOpen_AnyRow(b, r) == b.last_command # "PRECHARGE"

RowIsOpen(b, r) == b.last_command # "PRECHARGE" /\ b.last_row = Truncate(RowOf(r))

WantsColumn(b) ==
  findNext(b) # NULL /\ ~b.is_ready /\ RowIsOpen(b, findNext(b))

rowAccess(c) ==
  LET b == bank[Turn(c)]
  IN /\ WantsRowAccess(b)
     /\ Issue(c, [Looked(b) EXCEPT !.last_row = Truncate(RowOf(findNext(b))),
                                   !.last_command = "ROW_ACCESS"])

columnReady(c) ==
  LET b == bank[Turn(c)]
  IN WantsColumn(b) /\ Issue(c, [Looked(b) EXCEPT !.is_ready = TRUE])

\* Another row is open: close it, with no look at the timing.
precharge(c) ==
  LET b == bank[Turn(c)]
  IN /\ findNext(b) # NULL /\ ~b.is_ready
     /\ ~WantsRowAccess(b) /\ ~WantsColumn(b)
     /\ Issue(c, [Looked(b) EXCEPT !.last_row = Truncate(RowOf(findNext(b))),
                                   !.last_command = "PRECHARGE"])

\* Nothing to do for this bank, or it is too early to do it.
noCommand(c) ==
  LET b == bank[Turn(c)]
  IN /\ findNext(b) = NULL \/ b.is_ready \/ WantsRowAccess(b) \/ WantsColumn(b)
     /\ Issue(c, Looked(b))

-----------------------------------------------------------------------------
(* Second half of clock(): one request on the data bus.                    *)

\* The next bank that is ready, or the same bank again when none is.
Transmitter(c) ==
  LET after(d) == (bank_last_transmission[c] + d) % BANK
      ready == {d \in 1 .. BANK : bank[<<c, after(d)>>].is_ready}
  IN IF ready = {} THEN <<c, bank_last_transmission[c]>>
     ELSE <<c, after(CHOOSE d \in ready : \A e \in ready : d <= e)>>

\* erase(remove(..., r)) for a request at index j that is there once.
Erase(seq, j) == [k \in 1 .. Len(seq) - 1 |-> IF k < j THEN seq[k] ELSE seq[k + 1]]

Without(queue, r) == Erase(queue, CHOOSE j \in DOMAIN queue : queue[j] = r)

\* The bank once r, which findNext() has just chosen, is on the bus.
Served(b, r) ==
  IF package[r].op = "READ"
    THEN [Looked(b) EXCEPT !.is_ready = FALSE, !.last_command = "COLUMN_READ",
                           !.read_requests = Without(@, r)]
    ELSE [Looked(b) EXCEPT !.is_ready = FALSE, !.last_command = "COLUMN_WRITE",
                           !.write_requests = Without(@, r)]

\* With a closed row policy the row is closed, unless the next request wants it.
Closed(b) ==
  LET next == findNext(b)
  IN IF ~CLOSED_ROW THEN b
     ELSE IF next = NULL THEN [Looked(b) EXCEPT !.last_command = "ROW_ACCESS",
                                                !.last_row = NoRow]
     ELSE IF b.last_row # Truncate(RowOf(next))
       THEN [Looked(b) EXCEPT !.last_command = "PRECHARGE",
                              !.last_row = Truncate(RowOf(next))]
     ELSE Looked(b)

Offer(c) ==
  /\ bank_last_transmission' = [bank_last_transmission EXCEPT ![c] = Transmitter(c)[2]]
  /\ UNCHANGED last_bank_selected

column(c) ==
  LET t == Transmitter(c)
      r == findNext(bank[t])
  IN /\ bank[t].is_ready
     /\ package' = [package EXCEPT ![r].status = "DRAM_READY", ![r].due = FALSE]
     /\ bank' = [bank EXCEPT ![t] = Closed(Served(@, r))]
     /\ Offer(c)

noneReady(c) ==
  /\ ~bank[Transmitter(c)].is_ready
  /\ UNCHANGED <<package, bank>>
  /\ Offer(c)
=============================================================================
