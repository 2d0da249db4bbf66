----------------------- MODULE MemoryControllerProofs -----------------------
(***************************************************************************)
(* main_memory/memory_controller.cpp and memory_channel.cpp: where each    *)
(* request is, that the request a bank transmits is the one it was made    *)
(* ready for, and that the controller implements DRAMService, for any      *)
(* number of channels, banks, requests and rows, any length of the queues  *)
(* and every policy.                                                       *)
(***************************************************************************)
EXTENDS MemoryController, FiniteSetTheorems, NaturalsInduction, WellFoundedInduction, TLAPS

-----------------------------------------------------------------------------
(* Numbers and sequences                                                   *)

\* A set of numbers that is not empty has a least one.
LEMMA LeastNumber ==
  ASSUME NEW S \in SUBSET Nat, S # {}
  PROVE  \E m \in S : \A k \in S : m <= k
<1> DEFINE Less == OpToRel(<, Nat)
<1>1. IsWellFoundedOn(Less, Nat)
  BY NatLessThanWellFounded
<1>2. \A x, y \in Nat : <<y, x>> \in Less <=> y < x
  BY DEF OpToRel
<1> HIDE DEF Less
<1>3. PICK m \in S : \A k \in S : <<k, m>> \notin Less
  BY <1>1, WFMin
<1>4. \A k \in S : ~ (k < m)
  BY <1>2, <1>3
<1> QED BY <1>4

NoDuplicates(seq) == \A j, k \in DOMAIN seq : seq[j] = seq[k] => j = k

EntriesOf(seq) == {seq[j] : j \in DOMAIN seq}

\* Erasing an entry takes one element off a sequence and leaves the others in order.
LEMMA EraseEntry ==
  ASSUME NEW S, NEW seq \in Seq(S), NEW j \in DOMAIN seq, NoDuplicates(seq)
  PROVE  /\ Erase(seq, j) \in Seq(S) /\ Len(Erase(seq, j)) = Len(seq) - 1
         /\ NoDuplicates(Erase(seq, j))
         /\ EntriesOf(Erase(seq, j)) = EntriesOf(seq) \ {seq[j]}
<1> DEFINE e == Erase(seq, j)
           n == Len(seq)
           from(k) == IF k < j THEN k ELSE k + 1
<1>1. /\ n \in Nat /\ DOMAIN seq = 1 .. n /\ j \in 1 .. n /\ n - 1 \in Nat
      /\ e \in [1 .. n - 1 -> S]
      /\ \A k \in 1 .. n - 1 : from(k) \in 1 .. n /\ from(k) # j /\ e[k] = seq[from(k)]
  BY DEF Erase
<1>2. \A k, m \in 1 .. n - 1 : from(k) = from(m) => k = m
  BY <1>1
<1>3. ASSUME NEW m \in 1 .. n, m # j PROVE \E k \in 1 .. n - 1 : from(k) = m
  <2>1. CASE m < j
    <3>1. m \in 1 .. n - 1 /\ from(m) = m
      BY <1>1, <2>1
    <3> QED BY <3>1
  <2>2. CASE m > j
    <3>1. m - 1 \in 1 .. n - 1 /\ from(m - 1) = m
      BY <1>1, <2>2
    <3> HIDE DEF from
    <3> QED BY <3>1
  <2> QED BY <1>1, <1>3, <2>1, <2>2
<1> HIDE DEF e, from, n
<1>4. e \in Seq(S) /\ Len(e) = n - 1 /\ DOMAIN e = 1 .. n - 1
  <2>1. \A k \in Nat : \A f \in [1 .. k -> S] : f \in Seq(S) /\ Len(f) = k
    OBVIOUS
  <2> QED BY <1>1, <2>1
<1>5. NoDuplicates(e)
  BY <1>1, <1>2, <1>4 DEF NoDuplicates
<1>6. \A k \in 1 .. n - 1 : seq[from(k)] # seq[j]
  BY <1>1 DEF NoDuplicates
<1>7. EntriesOf(e) = EntriesOf(seq) \ {seq[j]}
  <2>1. \A x \in EntriesOf(e) : x \in EntriesOf(seq) /\ x # seq[j]
    BY <1>1, <1>4, <1>6 DEF EntriesOf
  <2>2. ASSUME NEW x \in EntriesOf(seq), x # seq[j] PROVE x \in EntriesOf(e)
    <3>1. PICK m \in 1 .. n : x = seq[m]
      BY <1>1 DEF EntriesOf
    <3>2. PICK k \in 1 .. n - 1 : from(k) = m
      BY <1>3, <2>2, <3>1
    <3> QED BY <1>1, <1>4, <3>1, <3>2 DEF EntriesOf
  <2> QED BY <2>1, <2>2
<1> QED BY <1>4, <1>5, <1>7 DEF e, n

\* Appending an element that is not there adds it.
LEMMA AppendEntry ==
  ASSUME NEW S, NEW seq \in Seq(S), NEW r \in S, r \notin EntriesOf(seq), NoDuplicates(seq)
  PROVE  /\ Append(seq, r) \in Seq(S) /\ Len(Append(seq, r)) = Len(seq) + 1
         /\ NoDuplicates(Append(seq, r))
         /\ EntriesOf(Append(seq, r)) = EntriesOf(seq) \cup {r}
<1> DEFINE e == Append(seq, r)
           n == Len(seq)
<1>1. /\ n \in Nat /\ DOMAIN seq = 1 .. n /\ DOMAIN e = 1 .. n + 1
      /\ e[n + 1] = r /\ \A k \in 1 .. n : e[k] = seq[k]
      /\ e \in Seq(S) /\ Len(e) = n + 1
  OBVIOUS
<1> HIDE DEF e, n
<1>2. \A k \in 1 .. n + 1 : k = n + 1 \/ k \in 1 .. n
  BY <1>1
<1>3. n + 1 \in 1 .. n + 1 /\ \A k \in 1 .. n : k \in 1 .. n + 1 /\ seq[k] # r
  BY <1>1 DEF EntriesOf
<1>4. NoDuplicates(e)
  BY <1>1, <1>2, <1>3 DEF NoDuplicates
<1>5. EntriesOf(e) = EntriesOf(seq) \cup {r}
  BY <1>1, <1>2, <1>3 DEF EntriesOf
<1> QED BY <1>1, <1>4, <1>5 DEF e, n

\* A sequence without duplicates is as long as the set of its elements is large.
LEMMA EntriesCounted ==
  ASSUME NEW S, NEW seq \in Seq(S), NoDuplicates(seq)
  PROVE  IsFiniteSet(EntriesOf(seq)) /\ Cardinality(EntriesOf(seq)) = Len(seq)
<1> DEFINE n == Len(seq)
           T == EntriesOf(seq)
<1>1. n \in Nat /\ DOMAIN seq = 1 .. n /\ seq \in [1 .. n -> S]
  OBVIOUS
<1>2. IsFiniteSet(1 .. n) /\ Cardinality(1 .. n) = n
  BY <1>1, FS_Interval
<1>3. seq \in Bijection(1 .. n, T)
  <2>1. seq \in [1 .. n -> T]
    BY <1>1 DEF EntriesOf
  <2>2. \A j, k \in 1 .. n : seq[j] = seq[k] => j = k
    BY <1>1 DEF NoDuplicates
  <2>3. \A t \in T : \E j \in 1 .. n : seq[j] = t
    BY <1>1 DEF EntriesOf
  <2> QED BY <2>1, <2>2, <2>3 DEF Bijection, Injection, Surjection, IsInjective
<1>4. ExistsBijection(1 .. n, T)
  BY <1>3 DEF ExistsBijection
<1> HIDE DEF n, T
<1> QED BY <1>2, <1>4, FS_Bijection DEF n, T
-----------------------------------------------------------------------------
(* Which request a bank is about to serve                                  *)

\* The classes Chosen looks through, the whole queue being the last.
Classes(b, queue) == Preferred(b, queue) \o <<DOMAIN queue>>

\* findNextRead and findNextWrite return the oldest request of the first class that
\* is not empty, and there is one.
LEMMA ChosenIsFirst ==
  ASSUME NEW b, NEW queue \in Seq(Request), queue # <<>>
  PROVE  \E n \in DOMAIN Classes(b, queue) : \E j \in Classes(b, queue)[n] :
           /\ Chosen(b, queue) = queue[j] /\ j \in DOMAIN queue
           /\ \A m \in 1 .. n - 1 : Classes(b, queue)[m] = {}
           /\ \A k \in Classes(b, queue)[n] : j <= k
<1> DEFINE classes == Classes(b, queue)
           N == Len(Preferred(b, queue)) + 1
           IsFirst(n) == classes[n] # {} /\ \A m \in 1 .. n - 1 : classes[m] = {}
           first == CHOOSE n \in DOMAIN classes : IsFirst(n)
           IsOldest(j) == \A k \in classes[first] : j <= k
           oldest == CHOOSE j \in classes[first] : IsOldest(j)
<1>1. Preferred(b, queue) \in Seq(SUBSET DOMAIN queue)
  <2> DEFINE hits == {j \in DOMAIN queue : b.last_row = RowOf(queue[j])}
             normal == {j \in DOMAIN queue : ~package[queue[j]].is_vectorial}
             D == DOMAIN queue
  <2>1. hits \in SUBSET D /\ normal \in SUBSET D /\ hits \cap normal \in SUBSET D
    OBVIOUS
  <2>2. \/ Preferred(b, queue) = <<>> \/ Preferred(b, queue) = <<hits>>
        \/ Preferred(b, queue) = <<hits \cap normal, normal, hits>>
    BY PolicyAssumption DEF Preferred, Priority
  <2> HIDE DEF hits, normal, D
  <2>3. \A A1, A2, A3 \in SUBSET D :
          <<>> \in Seq(SUBSET D) /\ <<A1>> \in Seq(SUBSET D) /\ <<A1, A2, A3>> \in Seq(SUBSET D)
    OBVIOUS
  <2>4. Preferred(b, queue) \in Seq(SUBSET D)
    BY <2>1, <2>2, <2>3
  <2> QED BY <2>4 DEF D
<1>2. /\ N \in Nat \ {0} /\ DOMAIN classes = 1 .. N
      /\ classes[N] = DOMAIN queue /\ \A n \in 1 .. N : classes[n] \subseteq DOMAIN queue
  <2> DEFINE p == Preferred(b, queue)
             D == DOMAIN queue
  <2>1. p \in Seq(SUBSET D) /\ <<D>> \in Seq(SUBSET D) /\ classes = p \o <<D>>
    BY <1>1 DEF Classes
  <2> HIDE DEF p, D, classes
  <2>2. /\ Len(p) \in Nat /\ DOMAIN classes = 1 .. Len(p) + 1
        /\ \A n \in 1 .. Len(p) : classes[n] = p[n] /\ p[n] \in SUBSET D
        /\ classes[Len(p) + 1] = D
    BY <2>1
  <2> QED BY <2>2 DEF p, D
<1>3. DOMAIN queue \subseteq Nat /\ DOMAIN queue # {}
  <2>1. 1 \in DOMAIN queue /\ DOMAIN queue = 1 .. Len(queue)
    OBVIOUS
  <2> QED BY <2>1
<1>4. Chosen(b, queue) = queue[oldest]
  BY DEF Chosen, Classes
<1> HIDE DEF classes, N
<1>5. \E n \in DOMAIN classes : IsFirst(n)
  <2> DEFINE S == {n \in 1 .. N : classes[n] # {}}
  <2>1. S \subseteq Nat /\ N \in S
    BY <1>2, <1>3
  <2>2. PICK n \in S : \A m \in S : n <= m
    BY <2>1, LeastNumber
  <2>3. n \in 1 .. N /\ N \in Nat /\ \A m \in 1 .. n - 1 : m \in 1 .. N /\ ~ (n <= m)
    BY <1>2
  <2> QED BY <1>2, <2>2, <2>3
<1>6. first \in DOMAIN classes /\ IsFirst(first)
  BY <1>5, Zenon
<1> HIDE DEF first
<1>7. \E j \in classes[first] : IsOldest(j)
  BY <1>2, <1>3, <1>6, LeastNumber
<1>8. oldest \in classes[first] /\ IsOldest(oldest)
  BY <1>7, Zenon
<1> HIDE DEF oldest
<1>9. oldest \in DOMAIN queue
  BY <1>2, <1>6, <1>8
<1> QED BY <1>4, <1>6, <1>8, <1>9 DEF classes

\* findNext chooses a request of one of the two queues.
LEMMA NextIsQueued ==
  ASSUME NEW b \in BankState, findNext(b) # NULL
  PROVE  /\ findNext(b) \in EntriesOf(b.read_requests) \cup EntriesOf(b.write_requests)
         /\ findNext(b) \in Request
<1>1. b.read_requests \in Seq(Request) /\ b.write_requests \in Seq(Request)
  BY DEF BankState
<1>2. ASSUME NEW queue \in Seq(Request), queue # <<>>
      PROVE  Chosen(b, queue) \in EntriesOf(queue) /\ Chosen(b, queue) \in Request
  <2>1. PICK j \in DOMAIN queue : Chosen(b, queue) = queue[j]
    BY <1>2, ChosenIsFirst
  <2> QED BY <2>1 DEF EntriesOf
<1>3. findNextRead(b) # NULL =>
        findNextRead(b) \in EntriesOf(b.read_requests) /\ findNextRead(b) \in Request
  BY <1>1, <1>2 DEF findNextRead
<1>4. findNextWrite(b) # NULL =>
        findNextWrite(b) \in EntriesOf(b.write_requests) /\ findNextWrite(b) \in Request
  BY <1>1, <1>2 DEF findNextWrite
<1> QED BY <1>3, <1>4 DEF findNext

\* Looking for the next request changes nothing but whether writes are drained.
LEMMA LookedKeeps ==
  ASSUME NEW b \in BankState
  PROVE  /\ Looked(b) \in BankState
         /\ Looked(b).read_requests = b.read_requests
         /\ Looked(b).write_requests = b.write_requests
         /\ Looked(b).last_command = b.last_command /\ Looked(b).last_row = b.last_row
         /\ Looked(b).is_ready = b.is_ready
<1>1. (WritesFirst(b) /\ (b.is_drain_write \/ WritesFull(b))) \in BOOLEAN
  OBVIOUS
<1> QED BY <1>1 DEF Looked, BankState

\* findNext() gives the answer it gave before when it is asked again: the drain mode it
\* switches to is one that prefers the queue it has just chosen from.
LEMMA LookedAgain ==
  ASSUME NEW b \in BankState, NEW k,
         k.read_requests = b.read_requests, k.write_requests = b.write_requests,
         k.last_row = b.last_row, k.is_drain_write = Looked(b).is_drain_write
  PROVE  findNext(k) = findNext(b)
<1>1. \A queue : Chosen(k, queue) = Chosen(b, queue)
  BY DEF Chosen, Preferred
<1>2. findNextRead(k) = findNextRead(b) /\ findNextWrite(k) = findNextWrite(b)
  BY <1>1 DEF findNextRead, findNextWrite
<1>3. WritesFull(k) = WritesFull(b) /\ b.is_drain_write \in BOOLEAN
  BY DEF WritesFull, BankState
<1>4. CASE b.read_requests = <<>> /\ b.write_requests = <<>>
  <2>1. k.is_drain_write = b.is_drain_write
    BY <1>4 DEF Looked
  <2> QED BY <1>2, <1>3, <2>1 DEF findNext, WritesFirst
<1>5. CASE ~ (b.read_requests = <<>> /\ b.write_requests = <<>>)
  <2>1. k.is_drain_write = (WritesFirst(b) /\ (b.is_drain_write \/ WritesFull(b)))
    BY <1>5 DEF Looked, BankState
  <2>2. WritesFirst(k) <=> WritesFirst(b)
    BY <1>5, <2>1 DEF WritesFirst
  <2> QED BY <1>2, <1>3, <2>1, <2>2 DEF findNext
<1> QED BY <1>4, <1>5
-----------------------------------------------------------------------------
(* The invariant                                                           *)

QueueIn(b, op) == IF op = "READ" THEN b.read_requests ELSE b.write_requests

\* The package k is being fetched by the bank c for the operation op.
FetchedBy(k, c, op) == k.status = "DRAM_FETCH" /\ k.op = op /\ k.address.cell = c

\* A package is in the list, once, until it is answered.
ListOnce ==
  /\ NoDuplicates(working)
  /\ \A r \in Request : r \in Working <=> package[r].status # "WAIT"

\* The queues hold exactly the packages that are being fetched, once each.
QueuesMatch ==
  \A c \in Cell, op \in Op :
    /\ NoDuplicates(QueueIn(bank[c], op))
    /\ Len(QueueIn(bank[c], op)) <= BANK_BUFFER_SIZE
    /\ \A r \in Request : r \in EntriesOf(QueueIn(bank[c], op)) <=> FetchedBy(package[r], c, op)

\* The next request of the bank b is for the row that b has open.
Opened(b) == findNext(b) # NULL /\ RowIsOpen(b, findNext(b))

\* Only the bank that a channel has just offered a command is ready, until the other
\* half of the same clock(), and what it finds then is for its open row.
ReadyInv ==
  \A c \in Cell :
    bank[c].is_ready =>
      phase = "transmit" /\ c = <<i, last_bank_selected[i]>> /\ Opened(bank[c])

DataOK ==
  /\ package \in [Request -> Package]
  /\ bank \in [Cell -> BankState]
  /\ working \in Seq(Request)

DataInv == DataOK /\ ListOnce /\ QueuesMatch

ControllerInv == TypeOK /\ DataInv /\ ReadyInv

LEMMA WorkingIsEntries == Working = EntriesOf(working)
BY DEF Working, EntriesOf

LEMMA WorkingIsEntriesNext == Working' = EntriesOf(working')
BY DEF Working, EntriesOf

\* A queue and the packages in it, whatever the operation.
LEMMA QueueInType ==
  ASSUME NEW b \in BankState, NEW op \in Op
  PROVE  QueueIn(b, op) \in Seq(Request)
BY DEF QueueIn, BankState

\* The next request of a bank is one that the bank is fetching.
LEMMA NextIsFetched ==
  ASSUME DataInv, NEW c \in Cell, findNext(bank[c]) # NULL
  PROVE  LET r == findNext(bank[c])
         IN r \in Request /\ FetchedBy(package[r], c, package[r].op) /\ package[r].op \in Op
<1> DEFINE r == findNext(bank[c])
           b == bank[c]
<1>1. b \in BankState
  BY DEF DataInv, DataOK
<1>2. r \in Request /\ r \in EntriesOf(b.read_requests) \cup EntriesOf(b.write_requests)
  BY <1>1, NextIsQueued
<1>3. \E op \in Op : r \in EntriesOf(QueueIn(b, op))
  BY <1>2 DEF QueueIn, Op
<1>4. \E op \in Op : FetchedBy(package[r], c, op)
  BY <1>2, <1>3 DEF DataInv, QueuesMatch
<1> QED BY <1>2, <1>4 DEF FetchedBy

-----------------------------------------------------------------------------
(* What the steps do to the data                                           *)

\* A step of one bank that leaves its queues alone.
LEMMA BankChange ==
  ASSUME DataInv, NEW c \in Cell, NEW b \in BankState,
         b.read_requests = bank[c].read_requests, b.write_requests = bank[c].write_requests,
         bank' = [bank EXCEPT ![c] = b], UNCHANGED <<package, working>>
  PROVE  DataInv'
<1>1. bank' \in [Cell -> BankState] /\ \A d \in Cell : bank'[d] = IF d = c THEN b ELSE bank[d]
  BY DEF DataInv, DataOK
<1>2. \A d \in Cell, op \in Op : QueueIn(bank'[d], op) = QueueIn(bank[d], op)
  BY <1>1 DEF QueueIn
<1>3. DataOK' /\ ListOnce'
  BY <1>1 DEF DataInv, DataOK, ListOnce, Working
<1>4. QueuesMatch'
  BY <1>2 DEF DataInv, QueuesMatch
<1> QED BY <1>3, <1>4 DEF DataInv

\* The bank whose turn it is, and the one that is offered the bus, exist.
LEMMA TurnType ==
  ASSUME TypeOK, NEW c \in Channel
  PROVE  Turn(c) \in Cell /\ Turn(c)[2] \in 0 .. BANK - 1
<1>1. BANK \in Nat \ {0} /\ last_bank_selected[c] + 1 \in Nat
  BY ShapeAssumption DEF TypeOK
<1>2. (last_bank_selected[c] + 1) % BANK \in 0 .. BANK - 1
  BY <1>1
<1> QED BY <1>2 DEF Turn, Cell

LEMMA TransmitterType ==
  ASSUME TypeOK, NEW c \in Channel
  PROVE  Transmitter(c) \in Cell /\ Transmitter(c)[2] \in 0 .. BANK - 1
<1> DEFINE after(d) == (bank_last_transmission[c] + d) % BANK
           ready == {d \in 1 .. BANK : bank[<<c, after(d)>>].is_ready}
           Nearest(d) == \A e \in ready : d <= e
           nearest == CHOOSE d \in ready : Nearest(d)
<1>1. BANK \in Nat \ {0} /\ bank_last_transmission[c] \in 0 .. BANK - 1
  BY ShapeAssumption DEF TypeOK
<1>2. \A d \in Nat : after(d) \in 0 .. BANK - 1
  BY <1>1
<1>3. Transmitter(c) = IF ready = {} THEN <<c, bank_last_transmission[c]>>
                                     ELSE <<c, after(nearest)>>
  BY DEF Transmitter
<1>4. ready \subseteq Nat
  BY <1>1
<1> HIDE DEF after, ready
<1>5. CASE ready = {}
  BY <1>1, <1>3, <1>5 DEF Cell
<1>6. CASE ready # {}
  <2>1. \E d \in ready : Nearest(d)
    BY <1>4, <1>6, LeastNumber
  <2>2. nearest \in ready
    BY <2>1, Zenon
  <2> HIDE DEF nearest
  <2> QED BY <1>2, <1>3, <1>4, <1>6, <2>2 DEF Cell
<1> QED BY <1>5, <1>6

\* The first half of a channel's clock: a command for one bank.
LEMMA IssueKeepsData ==
  ASSUME TypeOK, DataInv, NEW c \in Channel, UNCHANGED working,
         rowAccess(c) \/ columnReady(c) \/ precharge(c) \/ noCommand(c)
  PROVE  DataInv'
<1> DEFINE t == Turn(c)
           b == bank[t]
           r == findNext(b)
<1>0. t \in Cell /\ b \in BankState /\ Looked(b) \in BankState
  BY TurnType, LookedKeeps DEF DataInv, DataOK
<1>1. /\ Looked(b).read_requests = b.read_requests /\ Looked(b).write_requests = b.write_requests
      /\ Looked(b).is_ready = b.is_ready
  BY <1>0, LookedKeeps
<1>2. r # NULL => Truncate(RowOf(r)) \in Nat
  <2> SUFFICES ASSUME r # NULL PROVE Truncate(RowOf(r)) \in Nat
    OBVIOUS
  <2>1. r \in Request
    BY <1>0, NextIsQueued
  <2>2. package[r].address.row \in Nat
    BY <2>1, AddressAssumption DEF DataInv, DataOK, Package
  <2> QED BY <2>2, ShapeAssumption DEF Truncate, RowOf
<1>3. ASSUME NEW row \in Nat, NEW command \in Command,
             Issue(c, [Looked(b) EXCEPT !.last_row = row, !.last_command = command])
      PROVE  DataInv'
  <2> DEFINE k == [Looked(b) EXCEPT !.last_row = row, !.last_command = command]
  <2>1. /\ k \in BankState
        /\ k.read_requests = b.read_requests /\ k.write_requests = b.write_requests
    BY <1>0, <1>1, <1>3 DEF BankState
  <2>2. bank' = [bank EXCEPT ![t] = k] /\ UNCHANGED <<package, working>>
    BY <1>3 DEF Issue
  <2> HIDE DEF k
  <2> QED BY <1>0, <2>1, <2>2, BankChange
<1> HIDE DEF r
<1>4. CASE rowAccess(c)
  BY <1>2, <1>3, <1>4 DEF rowAccess, WantsRowAccess, Command, r
<1>5. CASE columnReady(c)
  <2> DEFINE k == [Looked(b) EXCEPT !.is_ready = TRUE]
  <2>1. bank' = [bank EXCEPT ![t] = k] /\ UNCHANGED <<package, working>>
    BY <1>5 DEF columnReady, Issue
  <2>2. k \in BankState /\ k.read_requests = b.read_requests /\ k.write_requests = b.write_requests
    BY <1>0, <1>1 DEF BankState
  <2> HIDE DEF k
  <2> QED BY <1>0, <2>1, <2>2, BankChange
<1>6. CASE precharge(c)
  BY <1>2, <1>3, <1>6 DEF precharge, Command, r
<1>7. CASE noCommand(c)
  <2>1. bank' = [bank EXCEPT ![t] = Looked(b)] /\ UNCHANGED <<package, working>>
    BY <1>7 DEF noCommand, Issue
  <2> QED BY <1>0, <1>1, <2>1, BankChange
<1> QED BY <1>4, <1>5, <1>6, <1>7

\* Taking a request off a queue it is in.
LEMMA WithoutEntry ==
  ASSUME NEW queue \in Seq(Request), NoDuplicates(queue), NEW r \in EntriesOf(queue)
  PROVE  /\ Without(queue, r) \in Seq(Request) /\ Len(Without(queue, r)) = Len(queue) - 1
         /\ NoDuplicates(Without(queue, r))
         /\ EntriesOf(Without(queue, r)) = EntriesOf(queue) \ {r}
<1> DEFINE At(j) == queue[j] = r
           index == CHOOSE j \in DOMAIN queue : At(j)
<1>1. \E j \in DOMAIN queue : At(j)
  BY DEF EntriesOf
<1>2. index \in DOMAIN queue /\ At(index)
  BY <1>1, Zenon
<1>3. Without(queue, r) = Erase(queue, index)
  BY DEF Without
<1> HIDE DEF index
<1> QED BY <1>2, <1>3, EraseEntry

\* Serving a request takes it off its queue, and the bank is not ready any more.
LEMMA ServedBank ==
  ASSUME DataOK, NEW b \in BankState, NEW r \in Request,
         LET queue == QueueIn(b, package[r].op)
         IN r \in EntriesOf(queue) /\ NoDuplicates(queue)
  PROVE  /\ Served(b, r) \in BankState /\ ~Served(b, r).is_ready
         /\ Served(b, r).last_row = b.last_row /\ Served(b, r).last_command # "PRECHARGE"
         /\ \A op \in Op :
              QueueIn(Served(b, r), op) =
                IF op = package[r].op THEN Without(QueueIn(b, op), r) ELSE QueueIn(b, op)
<1> DEFINE k == Looked(b)
<1>1. k \in BankState /\ k.read_requests = b.read_requests /\ k.write_requests = b.write_requests
      /\ k.last_row = b.last_row
  BY LookedKeeps
<1>2. b.read_requests \in Seq(Request) /\ b.write_requests \in Seq(Request)
  BY DEF BankState
<1>3. package[r].op \in Op
  BY DEF DataOK, Package
<1> HIDE DEF k
<1>4. CASE package[r].op = "READ"
  <2> DEFINE w == Without(b.read_requests, r)
  <2>1. w \in Seq(Request)
    BY <1>2, <1>4, WithoutEntry DEF QueueIn
  <2>2. Served(b, r) = [k EXCEPT !.is_ready = FALSE, !.last_command = "COLUMN_READ", !.read_requests = w]
    BY <1>1, <1>4 DEF Served, k, BankState
  <2> HIDE DEF w
  <2>3. Served(b, r) \in BankState /\ ~Served(b, r).is_ready
        /\ Served(b, r).last_row = b.last_row /\ Served(b, r).last_command = "COLUMN_READ"
        /\ Served(b, r).read_requests = w /\ Served(b, r).write_requests = b.write_requests
    BY <1>1, <2>1, <2>2 DEF BankState, Command
  <2> QED BY <1>4, <2>3 DEF QueueIn, Op, w
<1>5. CASE package[r].op = "WRITE"
  <2> DEFINE w == Without(b.write_requests, r)
  <2>1. w \in Seq(Request)
    BY <1>2, <1>5, WithoutEntry DEF QueueIn
  <2>2. Served(b, r) = [k EXCEPT !.is_ready = FALSE, !.last_command = "COLUMN_WRITE", !.write_requests = w]
    BY <1>1, <1>5 DEF Served, k, BankState
  <2> HIDE DEF w
  <2>3. Served(b, r) \in BankState /\ ~Served(b, r).is_ready
        /\ Served(b, r).last_row = b.last_row /\ Served(b, r).last_command = "COLUMN_WRITE"
        /\ Served(b, r).write_requests = w /\ Served(b, r).read_requests = b.read_requests
    BY <1>1, <2>1, <2>2 DEF BankState, Command
  <2> QED BY <1>5, <2>3 DEF QueueIn, Op, w
<1> QED BY <1>3, <1>4, <1>5 DEF Op

\* The row that a package wants, as the bank keeps it.
LEMMA RowType ==
  ASSUME DataOK, NEW r \in Request
  PROVE  Truncate(RowOf(r)) \in Nat
<1>1. package[r].address.row \in Nat
  BY AddressAssumption DEF DataOK, Package
<1> QED BY <1>1, ShapeAssumption DEF Truncate, RowOf

\* Closing the row, or not, leaves the queues of the bank alone.
LEMMA ClosedBank ==
  ASSUME DataOK, NEW b \in BankState
  PROVE  /\ Closed(b) \in BankState /\ Closed(b).is_ready = b.is_ready
         /\ Closed(b).read_requests = b.read_requests
         /\ Closed(b).write_requests = b.write_requests
<1> DEFINE k == Looked(b)
           next == findNext(b)
<1>1. /\ k \in BankState /\ k.read_requests = b.read_requests
      /\ k.write_requests = b.write_requests /\ k.is_ready = b.is_ready
  BY LookedKeeps
<1>2. next # NULL => Truncate(RowOf(next)) \in Nat
  BY NextIsQueued, RowType
<1>3. \/ Closed(b) = b \/ Closed(b) = k
      \/ Closed(b) = [k EXCEPT !.last_command = "ROW_ACCESS", !.last_row = NoRow]
      \/ /\ next # NULL
         /\ Closed(b) = [k EXCEPT !.last_command = "PRECHARGE", !.last_row = Truncate(RowOf(next))]
  BY DEF Closed
<1> HIDE DEF k, next
<1>4. \A row \in Nat \cup {NoRow}, command \in Command :
        LET f == [k EXCEPT !.last_command = command, !.last_row = row]
        IN /\ f \in BankState /\ f.is_ready = k.is_ready
           /\ f.read_requests = k.read_requests /\ f.write_requests = k.write_requests
  BY <1>1 DEF BankState
<1>5. "ROW_ACCESS" \in Command /\ "PRECHARGE" \in Command
  BY DEF Command
<1> DEFINE Same(f) == /\ f \in BankState /\ f.is_ready = b.is_ready
                     /\ f.read_requests = b.read_requests /\ f.write_requests = b.write_requests
<1>6. Same(b) /\ Same(k)
  BY <1>1
<1>7. Same([k EXCEPT !.last_command = "ROW_ACCESS", !.last_row = NoRow])
  BY <1>1, <1>4, <1>5
<1>8. next # NULL =>
        Same([k EXCEPT !.last_command = "PRECHARGE", !.last_row = Truncate(RowOf(next))])
  BY <1>1, <1>2, <1>4, <1>5
<1> HIDE DEF Same
<1>9. Same(Closed(b))
  BY <1>3, <1>6, <1>7, <1>8
<1> QED BY <1>9 DEF Same

\* A request goes on the bus: it leaves its queue, and it is fetched.
LEMMA ColumnKeepsData ==
  ASSUME DataInv, NEW c \in Channel, Transmitter(c) \in Cell, column(c), UNCHANGED working,
         findNext(bank[Transmitter(c)]) # NULL
  PROVE  DataInv'
<1> DEFINE t == Transmitter(c)
           b == bank[t]
           r == findNext(b)
           s == Served(b, r)
           k == Closed(s)
<1>0. DataOK /\ b \in BankState
  BY DEF DataInv, DataOK
<1>1. r \in Request /\ FetchedBy(package[r], t, package[r].op) /\ package[r].op \in Op
  BY NextIsFetched
<1>2. LET queue == QueueIn(b, package[r].op)
      IN r \in EntriesOf(queue) /\ NoDuplicates(queue) /\ queue \in Seq(Request)
  BY <1>0, <1>1, QueueInType DEF DataInv, QueuesMatch
<1>3. /\ package' = [package EXCEPT ![r].status = "DRAM_READY", ![r].due = FALSE]
      /\ bank' = [bank EXCEPT ![t] = k]
  BY DEF column
<1> HIDE DEF r
<1>4. /\ s \in BankState /\ ~s.is_ready
      /\ \A op \in Op : QueueIn(s, op) =
           IF op = package[r].op THEN Without(QueueIn(b, op), r) ELSE QueueIn(b, op)
  BY <1>0, <1>1, <1>2, ServedBank
<1>5. k \in BankState /\ ~k.is_ready /\ \A op \in Op : QueueIn(k, op) = QueueIn(s, op)
  BY <1>0, <1>4, ClosedBank DEF QueueIn
<1> HIDE DEF k, s
<1>6. /\ \A d \in Cell : bank'[d] = IF d = t THEN k ELSE bank[d]
      /\ bank' \in [Cell -> BankState]
  BY <1>0, <1>3, <1>5 DEF DataOK
<1>7. /\ package' \in [Request -> Package]
      /\ \A x \in Request : x # r => package'[x] = package[x]
      /\ package'[r].status = "DRAM_READY"
  BY <1>0, <1>1, <1>3 DEF DataOK, Package
<1>8. DataOK'
  BY <1>0, <1>6, <1>7 DEF DataOK
<1>9. ListOnce'
  BY <1>1, <1>7 DEF DataInv, ListOnce, Working, FetchedBy
<1>11. ASSUME NEW d \in Cell, NEW op \in Op
       PROVE  /\ NoDuplicates(QueueIn(bank'[d], op))
              /\ Len(QueueIn(bank'[d], op)) <= BANK_BUFFER_SIZE
              /\ \A x \in Request :
                   x \in EntriesOf(QueueIn(bank'[d], op)) <=> FetchedBy(package'[x], d, op)
  <2> DEFINE old == QueueIn(bank[d], op)
  <2>0. /\ old \in Seq(Request) /\ NoDuplicates(old) /\ Len(old) <= BANK_BUFFER_SIZE
        /\ \A x \in Request : x \in EntriesOf(old) <=> FetchedBy(package[x], d, op)
    BY <1>0, QueueInType DEF DataInv, DataOK, QueuesMatch
  <2>1. CASE d = t /\ op = package[r].op
    <3>1. QueueIn(bank'[d], op) = Without(old, r)
      BY <1>4, <1>5, <1>6, <2>1
    <3>2. r \in EntriesOf(old)
      BY <1>2, <2>1
    <3> HIDE DEF old
    <3>3. /\ Len(Without(old, r)) = Len(old) - 1 /\ NoDuplicates(Without(old, r))
          /\ EntriesOf(Without(old, r)) = EntriesOf(old) \ {r}
      BY <2>0, <3>2, WithoutEntry
    <3>4. Len(old) \in Nat /\ Len(Without(old, r)) <= BANK_BUFFER_SIZE
      BY <2>0, <3>3, ShapeAssumption
    <3> QED BY <1>7, <2>0, <3>1, <3>3, <3>4 DEF FetchedBy
  <2>2. CASE ~ (d = t /\ op = package[r].op)
    <3>1. QueueIn(bank'[d], op) = old
      BY <1>4, <1>5, <1>6, <2>2
    <3>2. ~FetchedBy(package[r], d, op) /\ ~FetchedBy(package'[r], d, op)
      BY <1>1, <1>7, <2>2 DEF FetchedBy
    <3> HIDE DEF old
    <3> QED BY <1>7, <2>0, <3>1, <3>2
  <2> QED BY <2>1, <2>2
<1>12. QueuesMatch'
  BY <1>11 DEF QueuesMatch
<1> QED BY <1>8, <1>9, <1>12 DEF DataInv

\* The second half of a channel's clock.
LEMMA TransmitKeepsData ==
  ASSUME TypeOK, DataInv, ReadyInv, NEW c \in Channel, UNCHANGED working,
         column(c) \/ noneReady(c)
  PROVE  DataInv'
<1>0. Transmitter(c) \in Cell
  BY TransmitterType
<1>1. CASE column(c)
  <2>1. findNext(bank[Transmitter(c)]) # NULL
    BY <1>0, <1>1 DEF column, ReadyInv, Opened
  <2> QED BY <1>0, <1>1, <2>1, ColumnKeepsData
<1>2. CASE noneReady(c)
  <2>1. UNCHANGED <<package, bank, working>>
    BY <1>2 DEF noneReady
  <2> QED BY <2>1 DEF DataInv, DataOK, ListOnce, Working, QueuesMatch
<1> QED BY <1>1, <1>2

\* A step of one package that no queue holds before or after it.
LEMMA PackageChange ==
  ASSUME DataInv, UNCHANGED bank, NEW r \in Request, NEW k \in Package,
         package' = [package EXCEPT ![r] = k],
         package[r].status # "DRAM_FETCH", k.status # "DRAM_FETCH",
         working' \in Seq(Request), NoDuplicates(working'),
         EntriesOf(working') = IF k.status = "WAIT" THEN EntriesOf(working) \ {r}
                               ELSE EntriesOf(working) \cup {r}
  PROVE  DataInv'
<1>1. \A x \in Request : package'[x] = IF x = r THEN k ELSE package[x]
  BY DEF DataInv, DataOK
<1>2. DataOK'
  BY DEF DataInv, DataOK
<1>3. ListOnce'
  BY <1>1, WorkingIsEntries, WorkingIsEntriesNext DEF DataInv, ListOnce
<1>4. \A x \in Request, d \in Cell, op \in Op :
        FetchedBy(package'[x], d, op) <=> FetchedBy(package[x], d, op)
  BY <1>1 DEF FetchedBy
<1>5. QueuesMatch'
  BY <1>4 DEF DataInv, QueuesMatch
<1> QED BY <1>2, <1>3, <1>5 DEF DataInv

\* The package of an entry of the list, which is not waiting for nothing.
LEMMA EntryType ==
  ASSUME DataInv, NEW j \in DOMAIN working
  PROVE  /\ working[j] \in Request /\ working[j] \in EntriesOf(working)
         /\ package[working[j]] \in Package /\ package[working[j]].status # "WAIT"
BY WorkingIsEntries DEF DataInv, DataOK, ListOnce, EntriesOf

LEMMA AnsweredType == Answered \in Package /\ Answered.status = "WAIT"
<1> DEFINE IsWait(k) == k.status = "WAIT"
<1>1. PICK a \in Address, v \in Vectorial : TRUE
  BY AddressAssumption, VectorialAssumption
<1>2. [op |-> "READ", address |-> a, is_vectorial |-> v, due |-> TRUE, status |-> "WAIT"] \in Package
  BY DEF Package, Op
<1>3. \E k \in Package : IsWait(k)
  BY <1>2
<1>4. Answered \in Package /\ IsWait(Answered)
  BY <1>3, Zenon DEF Answered
<1> QED BY <1>4

LEMMA SubmitKeepsData ==
  ASSUME DataInv, Submit
  PROVE  DataInv'
<1>1. PICK r \in Request, op \in Op, address \in Address, is_vectorial \in Vectorial :
        requestDRAM(r, op, address, is_vectorial)
  BY DEF Submit
<1> DEFINE k == [op |-> op, address |-> address, is_vectorial |-> is_vectorial,
                 due |-> TRUE, status |-> "UNTREATED"]
<1>2. k \in Package /\ k.status = "UNTREATED"
  BY DEF Package
<1>3. /\ package' = [package EXCEPT ![r] = k] /\ working' = Append(working, r)
      /\ UNCHANGED bank /\ r \notin EntriesOf(working)
  BY <1>1, WorkingIsEntries DEF requestDRAM, Idle
<1>4. package[r].status = "WAIT"
  BY <1>3, WorkingIsEntries DEF DataInv, ListOnce
<1> HIDE DEF k
<1>5. /\ working' \in Seq(Request) /\ NoDuplicates(working')
      /\ EntriesOf(working') = EntriesOf(working) \cup {r}
  BY <1>3, AppendEntry DEF DataInv, DataOK, ListOnce
<1> QED BY <1>2, <1>3, <1>4, <1>5, PackageChange

LEMMA ElapseKeepsData ==
  ASSUME DataInv, NEW r \in Request, Elapse(r)
  PROVE  DataInv'
<1> DEFINE k == [package[r] EXCEPT !.due = TRUE]
<1>1. k \in Package /\ k.status = "DRAM_READY" /\ package[r].status = "DRAM_READY"
  BY DEF Elapse, DataInv, DataOK, Package
<1>2. package' = [package EXCEPT ![r] = k] /\ UNCHANGED <<bank, working>>
  BY DEF Elapse, DataInv, DataOK
<1> HIDE DEF k
<1>3. r \in EntriesOf(working)
  BY <1>1, WorkingIsEntries DEF DataInv, ListOnce
<1>4. /\ working' \in Seq(Request) /\ NoDuplicates(working')
      /\ EntriesOf(working') = EntriesOf(working) \cup {r}
  BY <1>2, <1>3 DEF DataInv, DataOK, ListOnce
<1> QED BY <1>1, <1>2, <1>4, PackageChange

LEMMA FinishKeepsData ==
  ASSUME DataInv, i \in DOMAIN working, finish(working[i])
  PROVE  DataInv'
<1> DEFINE r == working[i]
<1>1. r \in Request /\ package[r].status = "DRAM_READY"
  BY EntryType DEF finish, IsFinished
<1>2. package' = [package EXCEPT ![r] = Answered] /\ working' = Erase(working, i) /\ UNCHANGED bank
  BY DEF finish
<1>3. /\ working' \in Seq(Request) /\ NoDuplicates(working')
      /\ EntriesOf(working') = EntriesOf(working) \ {r}
  BY <1>2, EraseEntry DEF DataInv, DataOK, ListOnce
<1> HIDE DEF r
<1> QED BY <1>1, <1>2, <1>3, AnsweredType, PackageChange

\* The bank once a request has entered one of its queues.
LEMMA QueuedBank ==
  ASSUME DataOK, NEW b \in BankState, NEW r \in Request
  PROVE  /\ Queued(b, r) \in BankState /\ Queued(b, r).is_ready = b.is_ready
         /\ Queued(b, r).is_drain_write = b.is_drain_write
         /\ Queued(b, r).last_row = b.last_row /\ Queued(b, r).last_command = b.last_command
         /\ \A op \in Op : QueueIn(Queued(b, r), op) =
              IF op = package[r].op THEN Append(QueueIn(b, op), r) ELSE QueueIn(b, op)
<1>1. b.read_requests \in Seq(Request) /\ b.write_requests \in Seq(Request)
  BY DEF BankState
<1>2. package[r].op \in Op
  BY DEF DataOK, Package
<1>3. Append(b.read_requests, r) \in Seq(Request) /\ Append(b.write_requests, r) \in Seq(Request)
  BY <1>1
<1> QED BY <1>1, <1>2, <1>3 DEF Queued, QueueIn, BankState, Op

\* A request enters the queue of its bank.
LEMMA EnterKeepsData ==
  ASSUME DataInv, i \in DOMAIN working, enter(working[i])
  PROVE  DataInv'
<1> DEFINE r == working[i]
           c == package[r].address.cell
           b == bank[c]
           q == Queued(b, r)
<1>1. /\ r \in Request /\ package[r] \in Package
      /\ package[r].status \notin {"WAIT", "DRAM_FETCH", "DRAM_READY"}
  BY EntryType DEF enter, IsNew
<1>2. c \in Cell /\ package[r].op \in Op
  BY <1>1, AddressAssumption DEF Package
<1>3. /\ package' = [package EXCEPT ![r].status = "DRAM_FETCH", ![r].due = TRUE]
      /\ bank' = [bank EXCEPT ![c] = Queued(@, r)]
      /\ HasRoom(b, package[r].op) /\ UNCHANGED working
  BY DEF enter, addRequest
<1>4. DataOK /\ b \in BankState
  BY <1>2 DEF DataInv, DataOK
<1> HIDE DEF r
<1>5. q \in BankState /\ q.is_ready = b.is_ready
      /\ \A op \in Op : QueueIn(q, op) =
           IF op = package[r].op THEN Append(QueueIn(b, op), r) ELSE QueueIn(b, op)
  BY <1>1, <1>4, QueuedBank
<1>7. /\ bank' \in [Cell -> BankState]
      /\ \A d \in Cell : bank'[d] = IF d = c THEN q ELSE bank[d]
  BY <1>2, <1>3, <1>4, <1>5 DEF DataOK
<1>8. /\ package' \in [Request -> Package]
      /\ \A x \in Request : x # r => package'[x] = package[x]
      /\ package'[r].status = "DRAM_FETCH" /\ package'[r].op = package[r].op
      /\ package'[r].address = package[r].address
  BY <1>1, <1>3, <1>4 DEF DataOK, Package
<1> HIDE DEF q
<1>9. DataOK'
  BY <1>3, <1>4, <1>7, <1>8 DEF DataOK
<1>10. ListOnce'
  BY <1>1, <1>3, <1>8, WorkingIsEntries, WorkingIsEntriesNext DEF DataInv, ListOnce
<1>12. ASSUME NEW d \in Cell, NEW op \in Op
       PROVE  /\ NoDuplicates(QueueIn(bank'[d], op))
              /\ Len(QueueIn(bank'[d], op)) <= BANK_BUFFER_SIZE
              /\ \A x \in Request :
                   x \in EntriesOf(QueueIn(bank'[d], op)) <=> FetchedBy(package'[x], d, op)
  <2> DEFINE old == QueueIn(bank[d], op)
  <2>0. /\ old \in Seq(Request) /\ NoDuplicates(old) /\ Len(old) <= BANK_BUFFER_SIZE
        /\ \A x \in Request : x \in EntriesOf(old) <=> FetchedBy(package[x], d, op)
    BY <1>4, QueueInType DEF DataInv, DataOK, QueuesMatch
  <2>1. CASE d = c /\ op = package[r].op
    <3>1. QueueIn(bank'[d], op) = Append(old, r)
      BY <1>5, <1>7, <2>1
    <3>2. r \notin EntriesOf(old) /\ Len(old) < BANK_BUFFER_SIZE
      BY <1>1, <1>3, <2>0, <2>1 DEF FetchedBy, HasRoom, QueueIn
    <3>3. FetchedBy(package'[r], d, op)
      BY <1>8, <2>1 DEF FetchedBy
    <3> HIDE DEF old
    <3>4. /\ Len(Append(old, r)) = Len(old) + 1 /\ NoDuplicates(Append(old, r))
          /\ EntriesOf(Append(old, r)) = EntriesOf(old) \cup {r}
      BY <1>1, <2>0, <3>2, AppendEntry
    <3>5. Len(old) \in Nat /\ Len(Append(old, r)) <= BANK_BUFFER_SIZE
      BY <2>0, <3>2, <3>4, ShapeAssumption
    <3> QED BY <1>8, <2>0, <3>1, <3>3, <3>4, <3>5
  <2>2. CASE ~ (d = c /\ op = package[r].op)
    <3>1. QueueIn(bank'[d], op) = old
      BY <1>5, <1>7, <2>2
    <3>2. ~FetchedBy(package[r], d, op) /\ ~FetchedBy(package'[r], d, op)
      BY <1>1, <1>8, <2>2 DEF FetchedBy
    <3> HIDE DEF old
    <3> QED BY <1>8, <2>0, <3>1, <3>2
  <2> QED BY <2>1, <2>2
<1>13. QueuesMatch'
  BY <1>12 DEF QueuesMatch
<1> QED BY <1>9, <1>10, <1>13 DEF DataInv

-----------------------------------------------------------------------------
(* The bank that is ready                                                  *)

\* findNext() depends on the packages and the bank only.
LEMMA SameNext ==
  ASSUME UNCHANGED package, NEW b
  PROVE  findNext(b)' = findNext(b)
BY DEF findNext, findNextRead, findNextWrite, Chosen, Preferred, RowOf, WritesFirst, WritesFull

LEMMA StillOpened ==
  ASSUME UNCHANGED package, NEW c \in Cell, NEW b, bank'[c] = b, Opened(b)
  PROVE  Opened(bank[c])'
<1>1. findNext(b)' = findNext(b)
  BY SameNext
<1>2. Opened(b)'
  BY <1>1 DEF Opened, RowIsOpen, RowOf
<1> QED BY <1>2

\* The first half of clock() makes one bank ready at most, for a request that it finds
\* again.
LEMMA IssueKeepsReady ==
  ASSUME TypeOK, ReadyInv, NEW c \in Channel,
         IssueHalf(c, rowAccess(c) \/ columnReady(c) \/ precharge(c) \/ noCommand(c))
  PROVE  ReadyInv'
<1> DEFINE t == Turn(c)
           b == bank[t]
<1>0. /\ t \in Cell /\ b \in BankState /\ Looked(b) \in BankState
      /\ bank \in [Cell -> BankState] /\ last_bank_selected \in [Channel -> 0 .. BANK - 1]
  BY TurnType, LookedKeeps DEF TypeOK
<1>1. phase' = "transmit" /\ i' = c /\ \A d \in Cell : ~bank[d].is_ready
  BY DEF IssueHalf, ReadyInv
<1>2. ~Looked(b).is_ready
  BY <1>0, <1>1, LookedKeeps
<1>3. ASSUME NEW k, ~k.is_ready, bank' = [bank EXCEPT ![t] = k] PROVE ReadyInv'
  <2>1. \A d \in Cell : ~bank'[d].is_ready
    BY <1>0, <1>1, <1>3
  <2> QED BY <2>1 DEF ReadyInv
<1> DEFINE Commanded(row, command) ==
             [Looked(b) EXCEPT !.last_row = row, !.last_command = command]
<1>r. \A row, command : ~Commanded(row, command).is_ready
  BY <1>0, <1>2 DEF BankState
<1>a. CASE rowAccess(c)
  <2>1. bank' = [bank EXCEPT ![t] = Commanded(Truncate(RowOf(findNext(b))), "ROW_ACCESS")]
    BY <1>a DEF rowAccess, Issue
  <2> HIDE DEF Commanded
  <2> QED BY <1>3, <1>r, <2>1
<1>p. CASE precharge(c)
  <2>1. bank' = [bank EXCEPT ![t] = Commanded(Truncate(RowOf(findNext(b))), "PRECHARGE")]
    BY <1>p DEF precharge, Issue
  <2> HIDE DEF Commanded
  <2> QED BY <1>3, <1>r, <2>1
<1>n. CASE noCommand(c)
  <2>1. bank' = [bank EXCEPT ![t] = Looked(b)]
    BY <1>n DEF noCommand, Issue
  <2> QED BY <1>2, <1>3, <2>1
<1>4. CASE columnReady(c)
  <2> DEFINE k == [Looked(b) EXCEPT !.is_ready = TRUE]
  <2>1. /\ bank' = [bank EXCEPT ![t] = k] /\ UNCHANGED package /\ WantsColumn(b)
        /\ last_bank_selected' = [last_bank_selected EXCEPT ![c] = t[2]]
    BY <1>4 DEF columnReady, Issue
  <2>2. /\ k.read_requests = b.read_requests /\ k.write_requests = b.write_requests
        /\ k.last_row = b.last_row /\ k.last_command = b.last_command
        /\ k.is_drain_write = Looked(b).is_drain_write
    BY <1>0, LookedKeeps DEF BankState
  <2> HIDE DEF k
  <2>3. bank'[t] = k /\ \A d \in Cell : d # t => ~bank'[d].is_ready
    BY <1>0, <1>1, <2>1
  <2>4. findNext(k) = findNext(b)
    BY <1>0, <2>2, LookedAgain
  <2>5. Opened(k)
    BY <2>1, <2>2, <2>4 DEF WantsColumn, Opened, RowIsOpen
  <2>6. t = <<c, last_bank_selected'[c]>>
    BY <1>0, <2>1 DEF Turn
  <2>7. ASSUME NEW d \in Cell, bank'[d].is_ready
        PROVE  d = <<c, last_bank_selected'[c]>> /\ Opened(bank[d])'
    <3>1. d = t /\ bank'[d] = k
      BY <2>3, <2>7
    <3> QED BY <2>1, <2>5, <2>6, <3>1, StillOpened
  <2> QED BY <1>1, <2>7 DEF ReadyInv
<1> QED BY <1>4, <1>a, <1>p, <1>n DEF IssueHalf

\* A bank that is ready is found by the second half.
LEMMA ReadyIsFound ==
  ASSUME TypeOK, NEW c \in Channel, NEW x \in 0 .. BANK - 1, bank[<<c, x>>].is_ready
  PROVE  bank[Transmitter(c)].is_ready
<1> DEFINE l == bank_last_transmission[c]
           after(d) == (l + d) % BANK
           ready == {d \in 1 .. BANK : bank[<<c, after(d)>>].is_ready}
           Nearest(d) == \A e \in ready : d <= e
           nearest == CHOOSE d \in ready : Nearest(d)
<1>1. BANK \in Nat \ {0} /\ l \in 0 .. BANK - 1
  BY ShapeAssumption DEF TypeOK
<1> HIDE DEF l
<1>2. \E d \in 1 .. BANK : after(d) = x
  <2>1. x % BANK = x /\ (x + BANK) % BANK = x
    BY <1>1
  <2>2. CASE x > l
    <3>1. x - l \in 1 .. BANK /\ l + (x - l) = x
      BY <1>1, <2>2
    <3> QED BY <2>1, <3>1
  <2>3. CASE x <= l
    <3>1. x - l + BANK \in 1 .. BANK /\ l + (x - l + BANK) = x + BANK
      BY <1>1, <2>3
    <3> QED BY <2>1, <3>1
  <2> QED BY <1>1, <2>2, <2>3
<1>3. ready # {} /\ ready \subseteq Nat
  <2>1. PICK d \in 1 .. BANK : after(d) = x
    BY <1>2
  <2>2. d \in ready
    BY <2>1
  <2>3. ready \subseteq 1 .. BANK
    OBVIOUS
  <2> HIDE DEF ready
  <2>4. ready \subseteq Nat
    BY <2>3
  <2> QED BY <2>2, <2>4
<1>4. Transmitter(c) = IF ready = {} THEN <<c, l>> ELSE <<c, after(nearest)>>
  BY DEF Transmitter, l
<1>5. \E d \in ready : Nearest(d)
  BY <1>3, LeastNumber
<1>6. nearest \in ready
  BY <1>5, Zenon
<1> HIDE DEF nearest
<1>7. Transmitter(c) = <<c, after(nearest)>>
  BY <1>3, <1>4
<1> QED BY <1>6, <1>7

\* The second half leaves no bank ready: there is one at most, and it transmits.
LEMMA TransmitKeepsReady ==
  ASSUME TypeOK, DataInv, ReadyInv, NEW c \in Channel,
         TransmitHalf(c, column(c) \/ noneReady(c))
  PROVE  ReadyInv'
<1> DEFINE t == Transmitter(c)
           b == bank[t]
<1>0. /\ t \in Cell /\ b \in BankState /\ bank \in [Cell -> BankState]
      /\ i = c /\ last_bank_selected[c] \in 0 .. BANK - 1
  BY TransmitterType DEF TypeOK, TransmitHalf
<1>1. \A d \in Cell : bank[d].is_ready => d = <<c, last_bank_selected[c]>>
  BY <1>0 DEF ReadyInv
<1>2. CASE column(c)
  <2> DEFINE r == findNext(b)
             s == Served(b, r)
             k == Closed(s)
  <2>1. b.is_ready /\ bank' = [bank EXCEPT ![t] = k] /\ r # NULL
    BY <1>0, <1>2 DEF column, ReadyInv, Opened
  <2>2. r \in Request /\ FetchedBy(package[r], t, package[r].op) /\ package[r].op \in Op
    BY <1>0, <2>1, NextIsFetched
  <2>3. r \in EntriesOf(QueueIn(b, package[r].op)) /\ NoDuplicates(QueueIn(b, package[r].op))
    BY <1>0, <2>2 DEF DataInv, QueuesMatch
  <2> HIDE DEF r
  <2>4. s \in BankState /\ ~s.is_ready
    BY <1>0, <2>2, <2>3, ServedBank DEF DataInv
  <2> HIDE DEF s
  <2>5. ~k.is_ready
    BY <2>4, ClosedBank DEF DataInv
  <2> HIDE DEF k
  <2>6. \A d \in Cell : bank'[d] = IF d = t THEN k ELSE bank[d]
    BY <1>0, <2>1
  <2>7. \A d \in Cell : bank[d].is_ready => d = t
    BY <1>0, <1>1, <2>1
  <2>8. \A d \in Cell : ~bank'[d].is_ready
    BY <2>5, <2>6, <2>7
  <2> QED BY <2>8 DEF ReadyInv
<1>3. CASE noneReady(c)
  <2>1. ~bank[t].is_ready /\ UNCHANGED bank
    BY <1>3 DEF noneReady
  <2>2. \A d \in Cell : ~bank[d].is_ready
    BY <1>0, <1>1, <2>1, ReadyIsFound
  <2> QED BY <2>1, <2>2 DEF ReadyInv
<1> QED BY <1>2, <1>3 DEF TransmitHalf

\* No other step finds a bank ready, or makes one so.
LEMMA StepReady == TypeOK /\ DataInv /\ ReadyInv /\ [Next]_vars => ReadyInv'
<1> SUFFICES ASSUME TypeOK, DataInv, ReadyInv, [Next]_vars PROVE ReadyInv'
  OBVIOUS
<1>0. DataOK
  BY DEF DataInv
<1>1. ASSUME phase # "transmit", UNCHANGED bank PROVE ReadyInv'
  BY <1>1 DEF ReadyInv
<1>2. ASSUME NEW c \in Channel,
             IssueHalf(c, rowAccess(c) \/ columnReady(c) \/ precharge(c) \/ noCommand(c))
      PROVE  ReadyInv'
  BY <1>2, IssueKeepsReady
<1>3. ASSUME NEW c \in Channel, TransmitHalf(c, column(c) \/ noneReady(c))
      PROVE  ReadyInv'
  BY <1>3, TransmitKeepsReady
<1>4. ASSUME walk PROVE ReadyInv'
  <2>0. phase = "walk" /\ i \in DOMAIN working
    BY <1>4 DEF walk, TypeOK
  <2>1. CASE enter(working[i])
    <3> DEFINE r == working[i]
               c == package[r].address.cell
               q == Queued(bank[c], r)
    <3>1. r \in Request /\ package[r] \in Package
      BY <2>0, EntryType
    <3>2. c \in Cell /\ bank[c] \in BankState
      BY <1>0, <3>1, AddressAssumption DEF Package, DataOK
    <3>3. bank' = [bank EXCEPT ![c] = q]
      BY <1>0, <2>1, <3>2 DEF enter, addRequest, DataOK
    <3>4. q.is_ready = bank[c].is_ready
      BY <1>0, <3>1, <3>2, QueuedBank
    <3> HIDE DEF q
    <3>5. \A d \in Cell : bank'[d].is_ready = bank[d].is_ready
      BY <1>0, <3>3, <3>4 DEF DataOK
    <3> QED BY <2>0, <3>5 DEF ReadyInv
  <2>2. CASE finish(working[i])
    BY <1>1, <2>0, <2>2 DEF finish
  <2>3. CASE stay(working[i])
    BY <1>1, <2>0, <2>3 DEF stay
  <2> QED BY <1>4, <2>1, <2>2, <2>3 DEF walk
<1>5. ASSUME Submit PROVE ReadyInv'
  BY <1>1, <1>5 DEF Submit, requestDRAM, BetweenClocks
<1>6. ASSUME NEW r \in Request, Elapse(r) PROVE ReadyInv'
  BY <1>1, <1>6 DEF Elapse, BetweenClocks
<1>7. ASSUME UNCHANGED vars PROVE ReadyInv'
  <2>1. UNCHANGED <<package, bank, phase, i, last_bank_selected>>
    BY <1>7 DEF vars
  <2>2. \A c \in Cell : Opened(bank[c]) => Opened(bank[c])'
    BY <2>1, StillOpened
  <2> QED BY <2>1, <2>2 DEF ReadyInv
<1> QED BY <1>2, <1>3, <1>4, <1>5, <1>6, <1>7 DEF Next, clock

-----------------------------------------------------------------------------
(* Type correctness, and where each request is                             *)

\* Where the clock is: on a channel, or in the list.
PhaseOK ==
  \/ phase \in {"issue", "transmit"} /\ i \in Channel
  \/ phase = "walk" /\ i \in DOMAIN working

TurnsOK ==
  /\ last_bank_selected \in [Channel -> 0 .. BANK - 1]
  /\ bank_last_transmission \in [Channel -> 0 .. BANK - 1]

LEMMA TypeParts == TypeOK <=> DataOK /\ TurnsOK /\ PhaseOK
BY DEF TypeOK, DataOK, TurnsOK, PhaseOK

LEMMA FirstChannel == 0 \in Channel
BY ShapeAssumption DEF Channel

LEMMA InitController == Init => ControllerInv
<1> SUFFICES ASSUME Init PROVE ControllerInv
  OBVIOUS
<1> USE DEF Init, ChannelInit
<1>1. <<>> \in Seq(Request) /\ DOMAIN <<>> = {} /\ Working = {}
  BY DEF Working
<1>2. \A c \in Cell : bank[c] \in BankState
  BY <1>1 DEF BankState, Command
<1>3. DataOK
  BY <1>1, <1>2, AnsweredType DEF DataOK
<1>4. TurnsOK /\ PhaseOK
  BY FirstChannel, ShapeAssumption DEF TurnsOK, PhaseOK
<1>5. ListOnce
  BY <1>1, AnsweredType DEF ListOnce, NoDuplicates
<1>6. \A c \in Cell, op \in Op : QueueIn(bank[c], op) = <<>>
  BY DEF QueueIn
<1>7. QueuesMatch
  <2>1. ASSUME NEW r \in Request, NEW c \in Cell, NEW op \in Op
        PROVE  ~FetchedBy(package[r], c, op) /\ r \notin EntriesOf(QueueIn(bank[c], op))
    BY <1>6, AnsweredType DEF FetchedBy, EntriesOf
  <2>2. Len(<<>>) <= BANK_BUFFER_SIZE
    BY ShapeAssumption
  <2> QED BY <1>6, <2>1, <2>2 DEF QueuesMatch, NoDuplicates
<1>8. ReadyInv
  BY DEF ReadyInv
<1> QED BY <1>3, <1>4, <1>5, <1>7, <1>8, TypeParts DEF ControllerInv, DataInv

\* The walk goes on at an entry that is there.
LEMMA AdvanceType ==
  ASSUME NEW j \in Nat \ {0}, working' \in Seq(Request), phase = "walk",
         Advance(j, Len(working'))
  PROVE  PhaseOK'
<1>1. CASE j > Len(working')
  BY <1>1, FirstChannel DEF Advance, PhaseOK, Channel
<1>2. CASE ~ (j > Len(working'))
  <2>1. j \in DOMAIN working' /\ i' = j /\ phase' = "walk"
    BY <1>2 DEF Advance
  <2> QED BY <2>1 DEF PhaseOK
<1> QED BY <1>1, <1>2

LEMMA StepController == ControllerInv /\ [Next]_vars => ControllerInv'
<1> SUFFICES ASSUME ControllerInv, [Next]_vars PROVE ControllerInv'
  OBVIOUS
<1>0. TypeOK /\ DataInv /\ ReadyInv /\ DataOK /\ TurnsOK /\ PhaseOK
  BY TypeParts DEF ControllerInv
<1>r. ReadyInv'
  BY <1>0, StepReady
<1> SUFFICES DataInv' /\ TurnsOK' /\ PhaseOK'
  BY <1>r, TypeParts DEF ControllerInv, DataInv, TypeOK, DataOK, TurnsOK, PhaseOK
<1>1. ASSUME NEW c \in Channel,
             IssueHalf(c, rowAccess(c) \/ columnReady(c) \/ precharge(c) \/ noCommand(c))
      PROVE  DataInv' /\ TurnsOK' /\ PhaseOK'
  <2>1. /\ rowAccess(c) \/ columnReady(c) \/ precharge(c) \/ noCommand(c)
        /\ phase = "issue" /\ i = c /\ phase' = "transmit" /\ UNCHANGED <<working, i>>
    BY <1>1 DEF IssueHalf
  <2>2. /\ last_bank_selected' = [last_bank_selected EXCEPT ![c] = Turn(c)[2]]
        /\ UNCHANGED bank_last_transmission
    BY <2>1 DEF rowAccess, columnReady, precharge, noCommand, Issue
  <2>3. DataInv'
    BY <1>0, <2>1, IssueKeepsData
  <2> QED BY <1>0, <2>1, <2>2, <2>3, TurnType DEF TurnsOK, PhaseOK
<1>2. ASSUME NEW c \in Channel, TransmitHalf(c, column(c) \/ noneReady(c))
      PROVE  DataInv' /\ TurnsOK' /\ PhaseOK'
  <2>1. column(c) \/ noneReady(c)
    BY <1>2 DEF TransmitHalf
  <2>2. Offer(c)
    BY <2>1 DEF column, noneReady
  <2>3. UNCHANGED working
    BY <1>2 DEF TransmitHalf
  <2>4. DataInv'
    BY <1>0, <2>1, <2>3, TransmitKeepsData
  <2>5. TurnsOK'
    BY <1>0, <2>2, TransmitterType DEF TurnsOK, Offer
  <2>6. PhaseOK'
    <3>1. CASE c + 1 < CHANNEL
      <4>1. phase' = "issue" /\ i' = c + 1
        BY <1>2, <3>1 DEF TransmitHalf
      <4>2. c + 1 \in Channel
        BY <3>1, ShapeAssumption DEF Channel
      <4> QED BY <4>1, <4>2 DEF PhaseOK, Channel
    <3>2. CASE ~ (c + 1 < CHANNEL) /\ working = <<>>
      <4>1. phase' = "issue" /\ i' = 0
        BY <1>2, <3>2 DEF TransmitHalf
      <4> QED BY <4>1, FirstChannel DEF PhaseOK, Channel
    <3>3. CASE ~ (c + 1 < CHANNEL) /\ working # <<>>
      <4>1. phase' = "walk" /\ i' = 1
        BY <1>2, <3>3 DEF TransmitHalf
      <4>2. 1 \in DOMAIN working
        BY <1>0, <3>3 DEF DataOK
      <4> QED BY <2>3, <4>1, <4>2 DEF PhaseOK
    <3> QED BY <3>1, <3>2, <3>3
  <2> QED BY <2>4, <2>5, <2>6
<1>3. ASSUME walk PROVE DataInv' /\ TurnsOK' /\ PhaseOK'
  <2>0. phase = "walk" /\ i \in DOMAIN working /\ i + 1 \in Nat \ {0}
    BY <1>0, <1>3 DEF walk, PhaseOK, DataOK
  <2>1. CASE enter(working[i])
    <3>1. DataInv'
      BY <1>0, <2>0, <2>1, EnterKeepsData
    <3>2. Advance(i + 1, Len(working')) /\ UNCHANGED <<last_bank_selected, bank_last_transmission>>
      BY <2>1 DEF enter, addRequest
    <3>3. PhaseOK'
      BY <2>0, <3>1, <3>2, AdvanceType DEF DataInv, DataOK
    <3> QED BY <1>0, <3>1, <3>2, <3>3 DEF TurnsOK
  <2>2. CASE finish(working[i])
    <3>1. DataInv'
      BY <1>0, <2>0, <2>2, FinishKeepsData
    <3>2. Len(working') = Len(working) - 1
      BY <1>0, <2>0, <2>2, EraseEntry DEF finish, DataInv, DataOK, ListOnce
    <3>3. Advance(i + 1, Len(working')) /\ UNCHANGED <<last_bank_selected, bank_last_transmission>>
      BY <2>2, <3>2 DEF finish
    <3>4. PhaseOK'
      BY <2>0, <3>1, <3>3, AdvanceType DEF DataInv, DataOK
    <3> QED BY <1>0, <3>1, <3>3, <3>4 DEF TurnsOK
  <2>3. CASE stay(working[i])
    <3>1. /\ UNCHANGED <<package, bank, last_bank_selected, bank_last_transmission, working>>
          /\ Advance(i + 1, Len(working'))
      BY <2>3 DEF stay
    <3>2. DataInv'
      BY <1>0, <3>1 DEF DataInv, DataOK, ListOnce, Working, QueuesMatch
    <3>3. PhaseOK'
      BY <2>0, <3>1, <3>2, AdvanceType DEF DataInv, DataOK
    <3> QED BY <1>0, <3>1, <3>2, <3>3 DEF TurnsOK
  <2> QED BY <1>3, <2>1, <2>2, <2>3 DEF walk
<1>4. ASSUME Submit PROVE DataInv' /\ TurnsOK' /\ PhaseOK'
  <2>1. DataInv'
    BY <1>0, <1>4, SubmitKeepsData
  <2>2. BetweenClocks /\ UNCHANGED <<last_bank_selected, bank_last_transmission, phase, i>>
    BY <1>4 DEF Submit, requestDRAM
  <2> QED BY <1>0, <2>1, <2>2, FirstChannel DEF TurnsOK, PhaseOK, BetweenClocks
<1>5. ASSUME NEW r \in Request, Elapse(r) PROVE DataInv' /\ TurnsOK' /\ PhaseOK'
  <2>1. DataInv'
    BY <1>0, <1>5, ElapseKeepsData
  <2>2. UNCHANGED <<working, last_bank_selected, bank_last_transmission, phase, i>>
    BY <1>5 DEF Elapse
  <2> QED BY <1>0, <2>1, <2>2 DEF TurnsOK, PhaseOK
<1>6. ASSUME UNCHANGED vars PROVE DataInv' /\ TurnsOK' /\ PhaseOK'
  BY <1>0, <1>6 DEF vars, TurnsOK, PhaseOK, DataInv, DataOK, ListOnce, Working, QueuesMatch
<1> QED BY <1>1, <1>2, <1>3, <1>4, <1>5, <1>6 DEF Next, clock

THEOREM ControllerInvariant == Spec => []ControllerInv
<1>1. Init => ControllerInv
  BY InitController
<1>2. ControllerInv /\ [Next]_vars => ControllerInv'
  BY StepController
<1> QED BY <1>1, <1>2, PTL DEF Spec

\* The channels, the banks, the list and the packages keep their types, and the walk
\* stays inside the list, from which entries are erased while it goes on.
THEOREM TypeCorrect == Spec => []TypeOK
<1>1. ControllerInv => TypeOK
  BY DEF ControllerInv
<1> QED BY <1>1, ControllerInvariant, PTL

\* A package is in the list, and once, from requestDRAM() until it is answered.
THEOREM OnceInList == Spec => []AnsweredExactlyWhenGone
<1>1. ControllerInv => AnsweredExactlyWhenGone
  <2> SUFFICES ASSUME ControllerInv, NEW r \in Request
               PROVE  /\ r \in Working <=> package[r].status # "WAIT"
                      /\ Cardinality({j \in DOMAIN working : working[j] = r}) <= 1
    BY DEF AnsweredExactlyWhenGone
  <2>1. ListOnce
    BY DEF ControllerInv, DataInv
  <2> DEFINE places == {j \in DOMAIN working : working[j] = r}
  <2>2. places = {} \/ \E j \in places : places = {j}
    BY <2>1 DEF ListOnce, NoDuplicates
  <2> HIDE DEF places
  <2>3. Cardinality(places) <= 1
    BY <2>2, FS_EmptySet, FS_Singleton
  <2> QED BY <2>1, <2>3 DEF ListOnce, places
<1> QED BY <1>1, ControllerInvariant, PTL

\* The queues of the banks hold exactly the requests that are being fetched, once each
\* and in the queue of their own bank and operation, and never more than there is room.
THEOREM NothingLostInQueues == Spec => []FetchingExactlyQueued
<1>1. ControllerInv => FetchingExactlyQueued
  <2> SUFFICES ASSUME ControllerInv, NEW c \in Cell, NEW op \in Op
               PROVE  LET queue == QueueOf(c, op)
                          fetching == {r \in Working : /\ package[r].status = "DRAM_FETCH"
                                                       /\ package[r].op = op
                                                       /\ package[r].address.cell = c}
                      IN /\ {queue[j] : j \in DOMAIN queue} = fetching
                         /\ Len(queue) = Cardinality(fetching)
                         /\ Len(queue) <= BANK_BUFFER_SIZE
    BY DEF FetchingExactlyQueued
  <2> DEFINE queue == QueueOf(c, op)
             fetching == {r \in Working : /\ package[r].status = "DRAM_FETCH"
                                          /\ package[r].op = op
                                          /\ package[r].address.cell = c}
  <2>1. /\ queue \in Seq(Request) /\ NoDuplicates(queue) /\ Len(queue) <= BANK_BUFFER_SIZE
        /\ \A r \in Request : r \in EntriesOf(queue) <=> FetchedBy(package[r], c, op)
    BY DEF ControllerInv, DataInv, DataOK, QueuesMatch, QueueIn, QueueOf, BankState
  <2>2. /\ Working \subseteq Request
        /\ \A r \in Request : package[r].status = "DRAM_FETCH" => r \in Working
    BY DEF ControllerInv, DataInv, DataOK, ListOnce, Working
  <2> HIDE DEF queue
  <2>3. EntriesOf(queue) \subseteq Request
    BY <2>1 DEF EntriesOf
  <2>4. EntriesOf(queue) = fetching
    BY <2>1, <2>2, <2>3 DEF FetchedBy
  <2> HIDE DEF fetching
  <2>5. Cardinality(fetching) = Len(queue) /\ {queue[j] : j \in DOMAIN queue} = fetching
    BY <2>1, <2>4, EntriesCounted DEF EntriesOf
  <2> QED BY <2>1, <2>5 DEF queue, fetching
<1> QED BY <1>1, ControllerInvariant, PTL

-----------------------------------------------------------------------------
(* The row of a bank that is ready                                         *)

\* A bank that is ready to transmit has a request to transmit, so the pointer that
\* findNext() returns to the second half of clock() is not NULL, and has the row of that
\* request open, although the first half asked findNext() for its own choice.
RowReady ==
  \A c \in Cell :
    bank[c].is_ready => findNext(bank[c]) # NULL /\ RowIsOpen(bank[c], findNext(bank[c]))

\* Under every policy, and for any number of banks and any length of the queues, what a
\* bank transmits is for the row that was opened for it.
THEOREM ReadyRowIsOpen == Spec => []RowReady
<1>1. ControllerInv => RowReady
  BY DEF ControllerInv, ReadyInv, Opened, RowReady
<1> QED BY <1>1, ControllerInvariant, PTL

\* What closing the row does to it.
LEMMA ClosedRow ==
  ASSUME NEW b \in BankState
  PROVE  \/ Closed(b).last_command = "PRECHARGE" \/ Closed(b).last_row = NoRow
         \/ Closed(b).last_command = b.last_command /\ Closed(b).last_row = b.last_row
<1> DEFINE k == Looked(b)
           next == findNext(b)
<1>1. k \in BankState /\ k.last_command = b.last_command /\ k.last_row = b.last_row
  BY LookedKeeps
<1>2. \/ Closed(b) = b \/ Closed(b) = k
      \/ Closed(b) = [k EXCEPT !.last_command = "ROW_ACCESS", !.last_row = NoRow]
      \/ Closed(b) = [k EXCEPT !.last_command = "PRECHARGE", !.last_row = Truncate(RowOf(next))]
  BY DEF Closed
<1> HIDE DEF k, next
<1> QED BY <1>1, <1>2 DEF BankState

\* The bank and the request that go on the bus.
LEMMA ColumnServes ==
  ASSUME DataInv, ReadyInv, NEW c \in Channel, Transmitter(c) \in Cell, column(c)
  PROVE  LET t == Transmitter(c)
             r == findNext(bank[t])
         IN /\ r \in Request /\ FetchedBy(package[r], t, package[r].op)
            /\ Served(bank[t], r) \in BankState /\ ~Served(bank[t], r).is_ready
            /\ Served(bank[t], r).last_row = bank[t].last_row
            /\ Served(bank[t], r).last_command # "PRECHARGE"
            /\ \A x \in Request :
                 /\ package'[x].op = package[x].op /\ package'[x].address = package[x].address
                 /\ package'[x].status = IF x = r THEN "DRAM_READY" ELSE package[x].status
<1> DEFINE t == Transmitter(c)
           b == bank[t]
           r == findNext(b)
<1>0. DataOK /\ b \in BankState
  BY DEF DataInv, DataOK
<1>1. r \in Request /\ FetchedBy(package[r], t, package[r].op) /\ package[r].op \in Op
  <2>1. r # NULL
    BY DEF column, ReadyInv, Opened
  <2> QED BY <2>1, NextIsFetched
<1>2. r \in EntriesOf(QueueIn(b, package[r].op)) /\ NoDuplicates(QueueIn(b, package[r].op))
  BY <1>0, <1>1 DEF DataInv, QueuesMatch
<1>3. package' = [package EXCEPT ![r].status = "DRAM_READY", ![r].due = FALSE]
  BY DEF column
<1> HIDE DEF r
<1>4. /\ Served(b, r) \in BankState /\ ~Served(b, r).is_ready
      /\ Served(b, r).last_row = b.last_row /\ Served(b, r).last_command # "PRECHARGE"
  BY <1>0, <1>1, <1>2, ServedBank
<1>5. \A x \in Request :
        /\ package'[x].op = package[x].op /\ package'[x].address = package[x].address
        /\ package'[x].status = IF x = r THEN "DRAM_READY" ELSE package[x].status
  BY <1>0, <1>1, <1>3 DEF DataOK, Package
<1> QED BY <1>1, <1>4, <1>5 DEF r

-----------------------------------------------------------------------------
(* The controller implements the service                                   *)

\* What the service sees of a package and of a bank.
View(k) ==
  IF k.status = "WAIT" THEN Service!Idle
  ELSE Service!At(CASE k.status = "DRAM_FETCH" -> "QUEUED"
                    [] k.status = "DRAM_READY" -> "SERVED"
                    [] OTHER -> "SUBMITTED",
                  k.op, k.address.cell, Truncate(k.address.row))

OpenOf(b) == IF b.last_command = "PRECHARGE" THEN NoRow ELSE b.last_row

Requests == [r \in Request |-> Abstract(r)]
OpenRows == [c \in Cell |-> OpenRow(c)]

LEMMA Views ==
  ControllerInv => /\ Requests = [r \in Request |-> View(package[r])]
                   /\ OpenRows = [c \in Cell |-> OpenOf(bank[c])]
BY DEF ControllerInv, DataInv, ListOnce, Requests, OpenRows, Abstract, OpenRow, View, OpenOf,
       Service!Idle, Service!At, RowOf

LEMMA ViewsNext ==
  ControllerInv' => /\ Requests' = [r \in Request |-> View(package'[r])]
                    /\ OpenRows' = [c \in Cell |-> OpenOf(bank'[c])]
<1>1. (ControllerInv => /\ Requests = [r \in Request |-> View(package[r])]
                        /\ OpenRows = [c \in Cell |-> OpenOf(bank[c])])'
  BY Views, PTL
<1> QED BY <1>1

\* A step that changes nothing the service sees of the packages, or of the banks.
LEMMA SameRequests ==
  ASSUME ControllerInv, ControllerInv', \A r \in Request : View(package'[r]) = View(package[r])
  PROVE  Requests' = Requests
BY Views, ViewsNext

LEMMA SameRows ==
  ASSUME ControllerInv, ControllerInv', \A c \in Cell : OpenOf(bank'[c]) = OpenOf(bank[c])
  PROVE  OpenRows' = OpenRows
BY Views, ViewsNext

\* One request moves on, and the others stay where they are.
LEMMA OneRequest ==
  ASSUME ControllerInv, ControllerInv', NEW r \in Request,
         \A x \in Request : x # r => View(package'[x]) = View(package[x])
  PROVE  Requests' = [Requests EXCEPT ![r] = View(package'[r])]
BY Views, ViewsNext

\* The row of one bank is opened or closed.
LEMMA OneRow ==
  ASSUME ControllerInv, ControllerInv', NEW c \in Cell,
         \A d \in Cell : d # c => OpenOf(bank'[d]) = OpenOf(bank[d])
  PROVE  OpenRows' = [OpenRows EXCEPT ![c] = OpenOf(bank'[c])]
BY Views, ViewsNext

\* A step of the service, or none.
ServiceStep == Service!Next \/ UNCHANGED <<Requests, OpenRows>>

LEMMA ViewType ==
  ASSUME DataOK, NEW r \in Request, package[r].status # "WAIT"
  PROVE  \E op \in Op, c \in Cell, row \in {Truncate(a.row) : a \in Address} :
           /\ package[r].op = op /\ package[r].address.cell = c
           /\ Truncate(package[r].address.row) = row
BY AddressAssumption DEF DataOK, Package

LEMMA InitMaps == Init => Service!Init
<1> SUFFICES ASSUME Init PROVE Service!Init
  OBVIOUS
<1>1. Requests = [r \in Request |-> Service!Idle]
  BY InitController, Views, AnsweredType DEF Init, View
<1>2. OpenRows = [c \in Cell |-> NoRow]
  BY InitController, Views DEF Init, ChannelInit, OpenOf
<1> QED BY <1>1, <1>2 DEF Service!Init, Requests, OpenRows

LEMMA SubmitMaps ==
  ASSUME ControllerInv, ControllerInv', Submit
  PROVE  ServiceStep
<1>1. PICK r \in Request, op \in Op, address \in Address, is_vectorial \in Vectorial :
        requestDRAM(r, op, address, is_vectorial)
  BY DEF Submit
<1> DEFINE row == Truncate(address.row)
           k == [op |-> op, address |-> address, is_vectorial |-> is_vectorial,
                 due |-> TRUE, status |-> "UNTREATED"]
<1>2. package[r].status = "WAIT" /\ package \in [Request -> Package]
  BY <1>1 DEF requestDRAM, Idle, ControllerInv, DataInv, DataOK, ListOnce
<1>3. package' = [package EXCEPT ![r] = k] /\ UNCHANGED bank
  BY <1>1 DEF requestDRAM
<1>4. View(package[r]) = Service!Idle
  BY <1>2 DEF View
<1>5. package'[r] = k
  BY <1>2, <1>3
<1>6. View(package'[r]) = Service!At("SUBMITTED", op, address.cell, row)
  BY <1>5 DEF View
<1>7. Requests[r] = Service!Idle
  BY <1>4, Views
<1> HIDE DEF k
<1>8. Requests' = [Requests EXCEPT ![r] = Service!At("SUBMITTED", op, address.cell, row)]
  BY <1>2, <1>3, <1>6, OneRequest
<1>9. OpenRows' = OpenRows
  BY <1>3, SameRows
<1>10. Service!Submit(r, op, address.cell, row)
  BY <1>7, <1>8, <1>9 DEF Service!Submit, Requests, OpenRows
<1>11. op \in Service!Op /\ address.cell \in Cell /\ row \in {Truncate(a.row) : a \in Address}
  BY AddressAssumption DEF Op, Service!Op
<1> HIDE DEF row
<1> QED BY <1>10, <1>11 DEF ServiceStep, Service!Next

\* The service counts as the controller does.
LEMMA SameCardinality == \A S : Service!Cardinality(S) = Cardinality(S)
BY DEF Service!Cardinality, Cardinality

\* The requests that the service has queued for a bank are those in its queue.
LEMMA QueuedCounted ==
  ASSUME ControllerInv, NEW c \in Cell, NEW op \in Op
  PROVE  Cardinality(Service!Queued(op, c)) = Len(QueueIn(bank[c], op))
<1> DEFINE queue == QueueIn(bank[c], op)
<1>1. /\ DataOK /\ queue \in Seq(Request) /\ NoDuplicates(queue)
      /\ \A r \in Request : r \in EntriesOf(queue) <=> FetchedBy(package[r], c, op)
  BY QueueInType DEF ControllerInv, DataInv, DataOK, QueuesMatch
<1>2. \A r \in Request :
        FetchedBy(package[r], c, op) <=>
          \E row \in {Truncate(a.row) : a \in Address} :
            View(package[r]) = Service!At("QUEUED", op, c, row)
  <2> SUFFICES ASSUME NEW r \in Request
               PROVE  FetchedBy(package[r], c, op) <=>
                        \E row \in {Truncate(a.row) : a \in Address} :
                          View(package[r]) = Service!At("QUEUED", op, c, row)
    OBVIOUS
  <2>1. ASSUME FetchedBy(package[r], c, op)
        PROVE  \E row \in {Truncate(a.row) : a \in Address} :
                 View(package[r]) = Service!At("QUEUED", op, c, row)
    <3>1. package[r].status = "DRAM_FETCH"
      BY <2>1 DEF FetchedBy
    <3>2. PICK row \in {Truncate(a.row) : a \in Address} : Truncate(package[r].address.row) = row
      BY <1>1, <3>1, ViewType
    <3>3. View(package[r]) = Service!At("QUEUED", op, c, row)
      BY <2>1, <3>1, <3>2 DEF View, FetchedBy
    <3> QED BY <3>3
  <2>2. ASSUME NEW row, View(package[r]) = Service!At("QUEUED", op, c, row)
        PROVE  FetchedBy(package[r], c, op)
    BY <2>2 DEF View, FetchedBy, Service!At, Service!Idle
  <2> QED BY <2>1, <2>2
<1>3. Service!Queued(op, c) = {r \in Request : r \in EntriesOf(queue)}
  BY <1>1, <1>2, Views DEF Service!Queued, Requests
<1> HIDE DEF queue
<1>4. EntriesOf(queue) \subseteq Request
  BY <1>1 DEF EntriesOf
<1>5. Service!Queued(op, c) = EntriesOf(queue)
  BY <1>3, <1>4
<1> QED BY <1>1, <1>5, EntriesCounted DEF queue

LEMMA EnterMaps ==
  ASSUME ControllerInv, ControllerInv', i \in DOMAIN working, enter(working[i])
  PROVE  ServiceStep
<1> DEFINE r == working[i]
           c == package[r].address.cell
           op == package[r].op
           row == Truncate(package[r].address.row)
<1>0. DataInv /\ DataOK
  BY DEF ControllerInv, DataInv
<1>1. /\ r \in Request /\ package[r] \in Package
      /\ package[r].status \notin {"WAIT", "DRAM_FETCH", "DRAM_READY"}
  BY <1>0, EntryType DEF enter, IsNew
<1>2. c \in Cell /\ op \in Op
  BY <1>1, AddressAssumption DEF Package
<1>3. /\ package' = [package EXCEPT ![r].status = "DRAM_FETCH", ![r].due = TRUE]
      /\ bank' = [bank EXCEPT ![c] = Queued(bank[c], r)] /\ HasRoom(bank[c], op)
  BY <1>0, <1>2 DEF enter, addRequest, DataOK
<1> HIDE DEF r
<1>4. View(package[r]) = Service!At("SUBMITTED", op, c, row)
  BY <1>1 DEF View
<1>5. /\ package'[r].status = "DRAM_FETCH" /\ package'[r].op = op
      /\ package'[r].address = package[r].address
      /\ \A x \in Request : x # r => package'[x] = package[x]
  BY <1>0, <1>1, <1>3 DEF DataOK, Package
<1>6. View(package'[r]) = Service!At("QUEUED", op, c, row)
  BY <1>5 DEF View
<1>7. Requests' = [Requests EXCEPT ![r] = View(package'[r])]
  BY <1>1, <1>5, OneRequest
<1>8. Requests[r] = Service!At("SUBMITTED", op, c, row)
  BY <1>1, <1>4, Views
<1>9. Service!At("QUEUED", op, c, row) = [Service!At("SUBMITTED", op, c, row) EXCEPT !.stage = "QUEUED"]
  BY DEF Service!At
<1>10. /\ Requests[r].stage = "SUBMITTED" /\ Requests[r].op = op /\ Requests[r].cell = c
       /\ Requests' = [Requests EXCEPT ![r].stage = "QUEUED"]
  <2>1. /\ Requests[r].stage = "SUBMITTED" /\ Requests[r].op = op /\ Requests[r].cell = c
    BY <1>8 DEF Service!At
  <2>2. [Requests EXCEPT ![r].stage = "QUEUED"]
          = [Requests EXCEPT ![r] = [Requests[r] EXCEPT !.stage = "QUEUED"]]
    BY <1>1 DEF Requests
  <2> QED BY <1>6, <1>7, <1>8, <1>9, <2>1, <2>2
<1>11. OpenRows' = OpenRows
  <2> DEFINE k == Queued(bank[c], r)
  <2>1. k.last_row = bank[c].last_row /\ k.last_command = bank[c].last_command
    BY <1>0, <1>1, <1>2, QueuedBank DEF DataOK
  <2> HIDE DEF k
  <2>2. \A d \in Cell : bank'[d] = IF d = c THEN k ELSE bank[d]
    BY <1>0, <1>2, <1>3 DEF DataOK, k
  <2>3. \A d \in Cell : OpenOf(bank'[d]) = OpenOf(bank[d])
    BY <2>1, <2>2 DEF OpenOf
  <2> QED BY <2>3, SameRows
<1>12. Cardinality(Service!Queued(op, c)) < BANK_BUFFER_SIZE
  <2>1. Cardinality(Service!Queued(op, c)) = Len(QueueIn(bank[c], op))
    BY <1>2, QueuedCounted
  <2>2. Len(QueueIn(bank[c], op)) < BANK_BUFFER_SIZE
    BY <1>3 DEF HasRoom, QueueIn
  <2> QED BY <2>1, <2>2
<1>13. Service!Queue(r)
  <2>1. Service!Move(r, "SUBMITTED", "QUEUED")
    BY <1>10 DEF Service!Move, Requests
  <2>2. Cardinality(Service!Queued(Requests[r].op, Requests[r].cell)) < BANK_BUFFER_SIZE
    BY <1>10, <1>12
  <2>3. Cardinality(Service!Queued([s \in Request |-> Abstract(s)][r].op,
                                   [s \in Request |-> Abstract(s)][r].cell)) < BANK_BUFFER_SIZE
    BY <2>2, Zenon DEF Requests
  <2> QED BY <1>11, <2>1, <2>3, SameCardinality DEF Service!Queue, OpenRows
<1> QED BY <1>1, <1>13 DEF ServiceStep, Service!Next

LEMMA FinishMaps ==
  ASSUME ControllerInv, ControllerInv', i \in DOMAIN working, finish(working[i])
  PROVE  ServiceStep
<1> DEFINE r == working[i]
<1>0. DataInv /\ DataOK
  BY DEF ControllerInv, DataInv
<1>1. r \in Request /\ package[r].status = "DRAM_READY"
  BY <1>0, EntryType DEF finish, IsFinished
<1>2. package' = [package EXCEPT ![r] = Answered] /\ UNCHANGED bank
  BY DEF finish
<1> HIDE DEF r
<1>3. View(package'[r]) = Service!Idle /\ \A x \in Request : x # r => package'[x] = package[x]
  BY <1>0, <1>1, <1>2, AnsweredType DEF DataOK, View
<1>4. Requests[r].stage = "SERVED"
  BY <1>1, Views DEF View, Service!At
<1>5. Requests' = [Requests EXCEPT ![r] = Service!Idle]
  BY <1>1, <1>3, OneRequest
<1>6. OpenRows' = OpenRows
  BY <1>2, SameRows
<1>7. Service!Answer(r)
  BY <1>4, <1>5, <1>6 DEF Service!Answer, Requests, OpenRows
<1> QED BY <1>1, <1>7 DEF ServiceStep, Service!Next

\* Nothing to see: the bank only looks at its queues.
LEMMA LookedMaps ==
  ASSUME ControllerInv, ControllerInv', UNCHANGED package, NEW c \in Cell, NEW b,
         bank' = [bank EXCEPT ![c] = b],
         b.last_command = bank[c].last_command, b.last_row = bank[c].last_row
  PROVE  ServiceStep
<1>1. \A d \in Cell : OpenOf(bank'[d]) = OpenOf(bank[d])
  BY DEF ControllerInv, DataInv, DataOK, OpenOf
<1> QED BY <1>1, SameRows, SameRequests DEF ServiceStep

\* A row is opened, or closed.
LEMMA RowMaps ==
  ASSUME ControllerInv, ControllerInv', UNCHANGED package, NEW c \in Cell, NEW b,
         bank' = [bank EXCEPT ![c] = b],
         \/ OpenOf(b) = NoRow
         \/ /\ bank[c].last_command = "PRECHARGE" /\ b.last_command = "ROW_ACCESS"
            /\ b.last_row \in {Truncate(a.row) : a \in Address}
  PROVE  ServiceStep
<1>1. \A d \in Cell : bank'[d] = IF d = c THEN b ELSE bank[d]
  BY DEF ControllerInv, DataInv, DataOK
<1>2. OpenRows' = [OpenRows EXCEPT ![c] = OpenOf(b)] /\ Requests' = Requests
  BY <1>1, OneRow, SameRequests
<1>3. CASE OpenOf(b) = NoRow
  <2>1. Service!Close(c)
    BY <1>2, <1>3 DEF Service!Close, Requests, OpenRows
  <2> QED BY <2>1 DEF ServiceStep, Service!Next
<1>4. CASE /\ bank[c].last_command = "PRECHARGE" /\ b.last_command = "ROW_ACCESS"
           /\ b.last_row \in {Truncate(a.row) : a \in Address}
  <2>1. OpenRows[c] = NoRow /\ OpenOf(b) = b.last_row
    BY <1>4, Views DEF OpenOf
  <2>2. Service!Open(c, b.last_row)
    BY <1>2, <2>1 DEF Service!Open, Requests, OpenRows
  <2> QED BY <1>4, <2>2 DEF ServiceStep, Service!Next
<1> QED BY <1>3, <1>4

LEMMA IssueMaps ==
  ASSUME ControllerInv, ControllerInv', NEW c \in Channel,
         rowAccess(c) \/ columnReady(c) \/ precharge(c) \/ noCommand(c)
  PROVE  ServiceStep
<1> DEFINE t == Turn(c)
           b == bank[t]
           k == Looked(b)
           row == Truncate(RowOf(findNext(b)))
<1>0. DataOK /\ t \in Cell /\ b \in BankState
  BY TurnType DEF ControllerInv, DataInv, DataOK
<1>1. k \in BankState /\ k.last_row = b.last_row /\ k.last_command = b.last_command
  BY <1>0, LookedKeeps
<1>2. findNext(b) # NULL => row \in {Truncate(a.row) : a \in Address}
  <2> SUFFICES ASSUME findNext(b) # NULL PROVE row \in {Truncate(a.row) : a \in Address}
    OBVIOUS
  <2>1. findNext(b) \in Request
    BY <1>0, NextIsQueued
  <2>2. package[findNext(b)].address \in Address
    BY <1>0, <2>1 DEF DataOK, Package
  <2> QED BY <2>2 DEF RowOf
<1> HIDE DEF row
<1>3. CASE rowAccess(c)
  <2> DEFINE f == [k EXCEPT !.last_row = row, !.last_command = "ROW_ACCESS"]
  <2>1. bank' = [bank EXCEPT ![t] = f] /\ UNCHANGED package /\ WantsRowAccess(b)
    BY <1>3 DEF rowAccess, Issue, row
  <2>2. f.last_row = row /\ f.last_command = "ROW_ACCESS"
    BY <1>1 DEF BankState
  <2>3. b.last_command = "PRECHARGE" /\ row \in {Truncate(a.row) : a \in Address}
    BY <1>2, <2>1 DEF WantsRowAccess
  <2> HIDE DEF f
  <2> QED BY <1>0, <2>1, <2>2, <2>3, RowMaps
<1>4. CASE columnReady(c)
  <2> DEFINE f == [k EXCEPT !.is_ready = TRUE]
  <2>1. bank' = [bank EXCEPT ![t] = f] /\ UNCHANGED package
    BY <1>4 DEF columnReady, Issue
  <2>2. f.last_row = b.last_row /\ f.last_command = b.last_command
    BY <1>1 DEF BankState
  <2> HIDE DEF f
  <2> QED BY <1>0, <2>1, <2>2, LookedMaps
<1>5. CASE precharge(c)
  <2> DEFINE f == [k EXCEPT !.last_row = row, !.last_command = "PRECHARGE"]
  <2>1. bank' = [bank EXCEPT ![t] = f] /\ UNCHANGED package
    BY <1>5 DEF precharge, Issue, row
  <2>2. OpenOf(f) = NoRow
    BY <1>1 DEF BankState, OpenOf
  <2> HIDE DEF f
  <2> QED BY <1>0, <2>1, <2>2, RowMaps
<1>6. CASE noCommand(c)
  <2>1. bank' = [bank EXCEPT ![t] = k] /\ UNCHANGED package
    BY <1>6 DEF noCommand, Issue
  <2> HIDE DEF k
  <2> QED BY <1>0, <1>1, <2>1, LookedMaps
<1> QED BY <1>3, <1>4, <1>5, <1>6

\* The request goes on the bus while its own row is open.
LEMMA ColumnMaps ==
  ASSUME ControllerInv, ControllerInv', NEW c \in Channel, column(c)
  PROVE  ServiceStep
<1> DEFINE t == Transmitter(c)
           b == bank[t]
           r == findNext(b)
           s == Served(b, r)
           k == Closed(s)
           op == package[r].op
           row == Truncate(package[r].address.row)
<1>0. DataInv /\ DataOK /\ ReadyInv /\ t \in Cell /\ b \in BankState
  BY TransmitterType DEF ControllerInv, DataInv, DataOK
<1>1. /\ r \in Request /\ FetchedBy(package[r], t, op)
      /\ s \in BankState /\ s.last_row = b.last_row /\ s.last_command # "PRECHARGE"
      /\ \A x \in Request :
           /\ package'[x].op = package[x].op /\ package'[x].address = package[x].address
           /\ package'[x].status = IF x = r THEN "DRAM_READY" ELSE package[x].status
  BY <1>0, ColumnServes
<1>2. bank' = [bank EXCEPT ![t] = k] /\ b.is_ready
  BY DEF column
<1>3. b.last_command # "PRECHARGE" /\ b.last_row = row
  BY <1>0, <1>2 DEF ReadyInv, Opened, RowIsOpen, RowOf
<1> HIDE DEF r
<1>4. OpenOf(b) = row /\ OpenOf(k) \in {row, NoRow}
  <2> HIDE DEF s, row
  <2>2. \/ k.last_command = "PRECHARGE" \/ k.last_row = NoRow
        \/ k.last_command = s.last_command /\ k.last_row = s.last_row
    BY <1>1, ClosedRow
  <2> HIDE DEF k
  <2> QED BY <1>1, <1>3, <2>2 DEF OpenOf
<1> HIDE DEF k, s
<1>5. View(package[r]) = Service!At("QUEUED", op, t, row)
  BY <1>1 DEF View, FetchedBy
<1>6. /\ View(package'[r]) = Service!At("SERVED", op, t, row)
      /\ \A x \in Request : x # r => View(package'[x]) = View(package[x])
  BY <1>1 DEF View, FetchedBy
<1>7. Requests[r] = Service!At("QUEUED", op, t, row) /\ OpenRows[t] = row
  BY <1>0, <1>1, <1>4, <1>5, Views
<1>8. Requests' = [Requests EXCEPT ![r] = Service!At("SERVED", op, t, row)]
  BY <1>1, <1>6, OneRequest
<1>9. OpenRows' = [OpenRows EXCEPT ![t] = OpenOf(k)]
  <2>1. \A d \in Cell : bank'[d] = IF d = t THEN k ELSE bank[d]
    BY <1>0, <1>2 DEF DataOK
  <2> QED BY <1>0, <2>1, OneRow
<1> HIDE DEF t, op, row
<1>10. /\ Requests[r].stage = "QUEUED" /\ Requests[r].cell = t /\ Requests[r].row = row
       /\ Requests' = [Requests EXCEPT ![r].stage = "SERVED"]
  <2>1. Requests[r].stage = "QUEUED" /\ Requests[r].cell = t /\ Requests[r].row = row
    BY <1>7 DEF Service!At
  <2>2. Service!At("SERVED", op, t, row) = [Service!At("QUEUED", op, t, row) EXCEPT !.stage = "SERVED"]
    BY DEF Service!At
  <2>3. [Requests EXCEPT ![r].stage = "SERVED"]
          = [Requests EXCEPT ![r] = [Requests[r] EXCEPT !.stage = "SERVED"]]
    BY <1>1 DEF Requests
  <2> QED BY <1>7, <1>8, <2>1, <2>2, <2>3
<1>11. Service!Move(r, "QUEUED", "SERVED")
  BY <1>10 DEF Service!Move, Requests
<1>12. /\ OpenRows[Requests[r].cell] = Requests[r].row
       /\ \E after \in {Requests[r].row, NoRow} :
            OpenRows' = [OpenRows EXCEPT ![Requests[r].cell] = after]
  BY <1>4, <1>7, <1>9, <1>10
<1>13. Service!Serve(r)
  BY <1>11, <1>12 DEF Service!Serve, Requests, OpenRows
<1> QED BY <1>1, <1>13 DEF ServiceStep, Service!Next

LEMMA StepMaps ==
  ASSUME ControllerInv, ControllerInv', [Next]_vars
  PROVE  ServiceStep
<1>0. TypeOK /\ DataInv /\ DataOK /\ PhaseOK
  BY TypeParts DEF ControllerInv
<1>1. ASSUME UNCHANGED bank, \A r \in Request : View(package'[r]) = View(package[r])
      PROVE  ServiceStep
  BY <1>1, SameRequests, SameRows DEF ServiceStep
<1>2. ASSUME NEW c \in Channel,
             IssueHalf(c, rowAccess(c) \/ columnReady(c) \/ precharge(c) \/ noCommand(c))
      PROVE  ServiceStep
  BY <1>2, IssueMaps DEF IssueHalf
<1>3. ASSUME NEW c \in Channel, TransmitHalf(c, column(c) \/ noneReady(c))
      PROVE  ServiceStep
  <2>1. CASE column(c)
    BY <2>1, ColumnMaps
  <2>2. CASE noneReady(c)
    BY <1>1, <2>2 DEF noneReady
  <2> QED BY <1>3, <2>1, <2>2 DEF TransmitHalf
<1>4. ASSUME walk PROVE ServiceStep
  <2>0. i \in DOMAIN working
    BY <1>0, <1>4 DEF walk, PhaseOK
  <2>1. CASE enter(working[i])
    BY <2>0, <2>1, EnterMaps
  <2>2. CASE finish(working[i])
    BY <2>0, <2>2, FinishMaps
  <2>3. CASE stay(working[i])
    BY <1>1, <2>3 DEF stay
  <2> QED BY <1>4, <2>1, <2>2, <2>3 DEF walk
<1>5. ASSUME NEW r \in Request, Elapse(r) PROVE ServiceStep
  <2>1. UNCHANGED bank /\ package' = [package EXCEPT ![r].due = TRUE]
    BY <1>5 DEF Elapse
  <2>2. \A x \in Request :
          /\ package'[x].address = package[x].address /\ package'[x].op = package[x].op
          /\ package'[x].status = package[x].status
    BY <1>0, <2>1 DEF DataOK, Package
  <2>3. \A x \in Request : View(package'[x]) = View(package[x])
    BY <2>2 DEF View
  <2> QED BY <1>1, <2>1, <2>3
<1>6. ASSUME UNCHANGED vars PROVE ServiceStep
  BY <1>1, <1>6 DEF vars
<1> QED BY <1>2, <1>3, <1>4, <1>5, <1>6, SubmitMaps DEF Next, clock

\* The memory controller implements DRAMService under every policy: each request is
\* queued, served and answered once, and it goes on the bus only while its own row is open.
THEOREM RefinesService == Spec => ImplementsService
<1>1. Init => ControllerInv /\ Service!Init
  BY InitController, InitMaps
<1>2. ControllerInv /\ [Next]_vars => ControllerInv'
  BY StepController
<1>3. ControllerInv /\ ControllerInv' /\ [Next]_vars => [Service!Next]_(Service!vars)
  BY StepMaps DEF ServiceStep, Service!vars, Requests, OpenRows
<1> QED BY <1>1, <1>2, <1>3, PTL DEF Spec, ImplementsService, Service!Spec
=============================================================================
