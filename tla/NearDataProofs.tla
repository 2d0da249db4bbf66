---------------------------- MODULE NearDataProofs ----------------------------
(***************************************************************************)
(* The vectors of vima/vima_vector.cpp and the buffer of                   *)
(* vima/vima_controller.cpp, for any sizes of the buffer, the cache and a  *)
(* vector, and for traces of any length over any instructions; and the     *)
(* buffer, the lock and the registers of hive/hive_controller.cpp, for any *)
(* sizes of them and any traces that are well formed (WellFormedTraces).   *)
(*                                                                         *)
(* A clock of the HIVE controller does many things to one state, so its    *)
(* invariant, StateOK, is one of the states h that the model passes on     *)
(* from one to the next.  It is an invariant of the walk as well: Walking  *)
(* says what holds before each position of it.                             *)
(***************************************************************************)
EXTENDS NearData, WellFoundedInduction, FiniteSetTheorems, TLAPS

USE DEF Way, Part

\* A vector whose counted sub-requests are back.
SoundVector ==
  {v \in vima_vector_t : \A k \in 1 .. v.sub_ready : v.sub_requests[k] # "DRAM"}

Entry == [instruction : VimaInstruction, status : {"VIMA", "TRANSMIT", "WAIT"}]

-----------------------------------------------------------------------------
(* One vector                                                              *)

\* Nothing but the counter and the states of the sub-requests matters to
\* whether a vector is sound.
LEMMA OtherFields ==
  ASSUME NEW v \in SoundVector, NEW a \in Nat, NEW n \in Nat,
         NEW s \in {"FREE", "TRANSMIT", "WAIT", "READY"}, NEW b \in BOOLEAN
  PROVE  /\ [v EXCEPT !.address = a] \in SoundVector
         /\ [v EXCEPT !.next_address = n] \in SoundVector
         /\ [v EXCEPT !.status = s] \in SoundVector
         /\ [v EXCEPT !.dirty = b] \in SoundVector
         /\ [v EXCEPT !.taken = b] \in SoundVector
BY DEF SoundVector, vima_vector_t

\* A set of numbers has a least one.
LEMMA LeastNumber ==
  ASSUME NEW S \in SUBSET Nat, S # {}
  PROVE  \E m \in S : \A k \in S : m <= k
<1> DEFINE Less == OpToRel(<, Nat)
<1>1. IsWellFoundedOn(Less, Nat)
  BY NatLessThanWellFounded
<1>2. \A x, y \in Nat : <<y, x>> \in Less <=> y < x
  BY DEF OpToRel
<1> HIDE DEF Less
<1>3. PICK m \in S : \A k \in S : <<k, m>> \notin Less
  BY <1>1, WFMin
<1>4. \A k \in S : ~ (k < m)
  BY <1>2, <1>3
<1> QED BY <1>4

\* From any place on there is a last sub-request of those answered without a
\* gap: the one before the first that is not answered, or the last of all.
LEMMA AnsweredUpTo ==
  ASSUME NEW v \in vima_vector_t
  PROVE  \E n \in v.sub_ready .. no_sub_requests :
           /\ \A k \in v.sub_ready + 1 .. n : v.sub_requests[k] = "WAIT"
           /\ n < no_sub_requests => v.sub_requests[n + 1] # "WAIT"
<1> DEFINE Missing == {k \in v.sub_ready + 1 .. no_sub_requests : v.sub_requests[k] # "WAIT"}
<1>1. v.sub_ready \in 0 .. no_sub_requests /\ no_sub_requests \in Nat
  BY VimaAssumption DEF vima_vector_t
<1>2. CASE Missing = {}
  <2>1. no_sub_requests \in v.sub_ready .. no_sub_requests
    BY <1>1
  <2>2. \A k \in v.sub_ready + 1 .. no_sub_requests : v.sub_requests[k] = "WAIT"
    BY <1>2
  <2> QED BY <1>1, <2>1, <2>2
<1>3. CASE Missing # {}
  <2>1. Missing \in SUBSET Nat
    BY <1>1
  <2>2. PICK m \in Missing : \A k \in Missing : m <= k
    BY <1>3, <2>1, LeastNumber
  <2>3. m - 1 \in v.sub_ready .. no_sub_requests
    BY <1>1
  <2>4. \A k \in v.sub_ready + 1 .. m - 1 : v.sub_requests[k] = "WAIT"
    BY <1>1, <2>2
  <2>5. v.sub_requests[(m - 1) + 1] # "WAIT"
    BY <1>1
  <2> QED BY <2>3, <2>4, <2>5
<1> QED BY <1>2, <1>3

\* Counting adds only sub-requests that are answered.
LEMMA CountedSound ==
  ASSUME NEW v \in SoundVector
  PROVE  Counted(v) \in SoundVector
<1> DEFINE Last(n) == /\ \A k \in v.sub_ready + 1 .. n : v.sub_requests[k] = "WAIT"
                      /\ n < no_sub_requests => v.sub_requests[n + 1] # "WAIT"
<1> DEFINE last == CHOOSE n \in v.sub_ready .. no_sub_requests : Last(n)
<1>1. v \in vima_vector_t
  BY DEF SoundVector
<1>2. \E n \in v.sub_ready .. no_sub_requests : Last(n)
  BY <1>1, AnsweredUpTo
<1>3. last \in v.sub_ready .. no_sub_requests /\ Last(last)
  BY <1>2
<1>4. Counted(v) = [v EXCEPT !.sub_ready = last]
  BY DEF Counted
<1> HIDE DEF last
<1>5. last \in 0 .. no_sub_requests
  BY <1>1, <1>3, VimaAssumption DEF vima_vector_t
<1>6. \A k \in 1 .. last : v.sub_requests[k] # "DRAM"
  <2> TAKE k \in 1 .. last
  <2>1. CASE k <= v.sub_ready
    BY <1>1, <1>3, <2>1, VimaAssumption DEF SoundVector, vima_vector_t
  <2>2. CASE k > v.sub_ready
    BY <1>1, <1>3, <2>2, VimaAssumption DEF vima_vector_t
  <2> QED BY <1>1, <1>3, <2>1, <2>2, VimaAssumption DEF vima_vector_t
<1> QED BY <1>1, <1>4, <1>5, <1>6 DEF SoundVector, vima_vector_t

\* Sub-requests are sent again only when all are counted, and none is counted
\* then.
LEMMA TransferredSound ==
  ASSUME NEW v \in SoundVector
  PROVE  Transferred(v) \in SoundVector
<1>1. CASE v.sub_ready = no_sub_requests
  <2>1. Transferred(v) = [v EXCEPT !.sub_ready = 0, !.sub_requests = [k \in Part |-> "DRAM"]]
    BY <1>1 DEF Transferred
  <2> DEFINE w == Transferred(v)
  <2>2. w.sub_ready = 0
    BY <2>1 DEF SoundVector, vima_vector_t
  <2>3. w \in vima_vector_t
    <3>1. 0 \in 0 .. no_sub_requests
      BY VimaAssumption
    <3>2. [k \in Part |-> "DRAM"] \in [Part -> {"FREE", "DRAM", "WAIT"}]
      OBVIOUS
    <3> QED BY <2>1, <3>1, <3>2 DEF SoundVector, vima_vector_t
  <2> HIDE DEF w
  <2>4. \A k \in 1 .. w.sub_ready : w.sub_requests[k] # "DRAM"
    BY <2>2
  <2> QED BY <2>3, <2>4 DEF SoundVector, w
<1>2. CASE v.sub_ready # no_sub_requests
  BY <1>2, CountedSound DEF Transferred
<1> QED BY <1>1, <1>2

LEMMA FetchSound ==
  ASSUME NEW v \in SoundVector
  PROVE  fetch(v) \in SoundVector
<1>1. v.next_address \in Nat
  BY DEF SoundVector, vima_vector_t
<1>2. CASE v.next_address = 0
  <2>1. [v EXCEPT !.dirty = FALSE] \in SoundVector
    BY OtherFields
  <2>2. [[v EXCEPT !.dirty = FALSE] EXCEPT !.status = "READY"] \in SoundVector
    BY <2>1, OtherFields
  <2> QED BY <1>2, <2>2 DEF fetch
<1>3. CASE v.next_address # 0
  <2> DEFINE sent == Transferred([v EXCEPT !.address = v.next_address])
  <2>1. [v EXCEPT !.address = v.next_address] \in SoundVector
    BY <1>1, OtherFields
  <2>2. sent \in SoundVector
    BY <2>1, TransferredSound
  <2>3. [sent EXCEPT !.dirty = FALSE] \in SoundVector
    BY <2>2, OtherFields
  <2>4. [[sent EXCEPT !.dirty = FALSE] EXCEPT !.status = "READY"] \in SoundVector
    BY <2>3, OtherFields
  <2>5. fetch(v) \in {sent, [sent EXCEPT !.dirty = FALSE, !.status = "READY"]}
    BY <1>3 DEF fetch
  <2> HIDE DEF sent
  <2> QED BY <2>2, <2>4, <2>5
<1> QED BY <1>2, <1>3

LEMMA WritebackSound ==
  ASSUME NEW v \in SoundVector
  PROVE  writeback(v) \in SoundVector
<1> DEFINE sent == Transferred(v)
<1>1. sent \in SoundVector
  BY TransferredSound
<1>2. writeback(v) \in {[v EXCEPT !.status = "WAIT"], sent, [sent EXCEPT !.status = "WAIT"]}
  BY DEF writeback
<1> HIDE DEF sent
<1> QED BY <1>1, <1>2, OtherFields

\* The first step of every clock keeps all vectors sound.
LEMMA ClockedSound ==
  ASSUME vima_cache \in [Way -> SoundVector]
  PROVE  Clocked \in [Way -> SoundVector]
<1>1. \A v \in SoundVector : VectorClock(v) \in SoundVector
  BY FetchSound, WritebackSound DEF VectorClock
<1> QED BY <1>1 DEF Clocked

-----------------------------------------------------------------------------
(* The controller                                                          *)

\* Sound vectors, whatever vectors the search gives to the operands.
VimaInv ==
  /\ vima_buffer \in Seq(Entry) /\ Len(vima_buffer) <= VIMA_BUFFER
  /\ vima_cache \in [Way -> SoundVector]
  /\ operand \in [read1 : Way \cup {NULL}, read2 : Way \cup {NULL}, write : Way \cup {NULL}]
  /\ vima_sent \in 0 .. VIMA_TRACE

\* A vector nothing is being done to.
Settled(v) == v.status = "READY" \/ (v.status = "FREE" /\ v.address = 0)

\* A vector that holds address a or will hold it when it is ready.
Aimed(v, a) ==
  \/ v.status = "READY" /\ v.address = a
  \/ v.status \in {"TRANSMIT", "WAIT"} /\ v.next_address = a

\* A cache with one vector replaced.
LEMMA Replaced ==
  ASSUME NEW c \in [Way -> SoundVector], NEW w, NEW v, w \in Way => v \in SoundVector
  PROVE  [c EXCEPT ![w] = v] \in [Way -> SoundVector]
OBVIOUS

LEMMA TakeSound ==
  ASSUME NEW c \in [Way -> SoundVector], NEW w
  PROVE  /\ Take(c, w) \in [Way -> SoundVector]
         /\ \A x \in Way : Take(c, w)[x].status = c[x].status /\ Take(c, w)[x].address = c[x].address
<1> DEFINE d == [c EXCEPT ![w] = [c[w] EXCEPT !.taken = TRUE]]
<1>1. w \in Way => [c[w] EXCEPT !.taken = TRUE] \in SoundVector
  BY OtherFields
<1>2. d \in [Way -> SoundVector]
  BY <1>1, Replaced
<1>3. ASSUME NEW x \in Way PROVE d[x].status = c[x].status /\ d[x].address = c[x].address
  <2>1. c[x] \in SoundVector
    OBVIOUS
  <2>2. d[x] \in {c[x], [c[x] EXCEPT !.taken = TRUE]}
    OBVIOUS
  <2> HIDE DEF d
  <2> QED BY <2>1, <2>2 DEF SoundVector, vima_vector_t
<1>4. Take(c, w) \in {c, d}
  BY DEF Take
<1> HIDE DEF d
<1> QED BY <1>2, <1>3, <1>4

\* A vector that misses changes its state and its next address.
LEMMA MissedSound ==
  ASSUME NEW v \in SoundVector, NEW n \in Nat
  PROVE  Missed(v, n) \in SoundVector /\ MissedWrite(v) \in SoundVector
<1> DEFINE s == IF v.status = "READY" /\ v.dirty THEN "TRANSMIT" ELSE "WAIT"
<1>1. [v EXCEPT !.status = s] \in SoundVector
  BY OtherFields
<1>2. [[v EXCEPT !.status = s] EXCEPT !.next_address = n] \in SoundVector
  BY <1>1, OtherFields
<1>3. Missed(v, n) = [[v EXCEPT !.status = s] EXCEPT !.next_address = n]
  BY DEF Missed, SoundVector, vima_vector_t
<1>4. v.status \in {"FREE", "TRANSMIT", "WAIT", "READY"}
  BY DEF SoundVector, vima_vector_t
<1>5. MissedWrite(v) \in SoundVector
  BY <1>4, OtherFields DEF MissedWrite
<1> QED BY <1>2, <1>3, <1>5

\* The search names vectors of the cache.
LEMMA SearchNamesVectors ==
  ASSUME NEW c, NEW address
  PROVE  /\ search_cache(c, address) \subseteq Way
         /\ Holders(c, address) # {} => search_cache(c, address) \subseteq Holders(c, address)
<1>1. 1 \in Way
  BY VimaAssumption
<1>2. Holders(c, address) # {} => First(Holders(c, address)) \in Holders(c, address)
  <2> SUFFICES ASSUME Holders(c, address) # {} PROVE First(Holders(c, address)) \in Holders(c, address)
    OBVIOUS
  <2>1. Holders(c, address) \in SUBSET Way /\ Way \subseteq Nat
    BY VimaAssumption DEF Holders
  <2>2. \E m \in Holders(c, address) : \A k \in Holders(c, address) : m <= k
    BY <2>1, LeastNumber
  <2> QED BY <2>2 DEF First
<1>3. Holders(c, address) \subseteq Way
  BY DEF Holders
<1> QED BY <1>1, <1>2, <1>3 DEF search_cache

LEMMA HeadIsInstruction ==
  ASSUME vima_buffer \in Seq(Entry), vima_buffer # <<>>
  PROVE  Head1.vima_read1 \in Nat \ {0} /\ Head1.vima_read2 \in Nat /\ Head1.vima_write \in Nat
<1>1. Head(vima_buffer) \in Entry
  OBVIOUS
<1>2. Head1 \in VimaInstruction
  BY <1>1 DEF Head1, Entry
<1> QED BY <1>2, VimaAssumption

\* The search for the operands of the head keeps the vectors sound.  If nothing
\* was being done to any of them, those for the operands to read are aimed at
\* them, and nothing is being done to those that no operand names.
LEMMA CheckCacheSound ==
  ASSUME NEW c \in [Way -> SoundVector], vima_buffer \in Seq(Entry), vima_buffer # <<>>,
         check_cache(c)
  PROVE  /\ vima_cache' \in [Way -> SoundVector]
         /\ operand' \in [read1 : Way \cup {NULL}, read2 : Way \cup {NULL}, write : Way \cup {NULL}]
         /\ operand'.read1 \in Way
         /\ Head1.vima_write = 0 => operand'.write = NULL
         /\ operand'.read2 # NULL => Head1.vima_read2 # 0
         /\ (\A x \in Way : Settled(c[x])) =>
              /\ \A x \in Way : x \notin {operand'.read1, operand'.read2, operand'.write} =>
                   Settled(vima_cache'[x])
              /\ operand'.read1 # operand'.read2 =>
                   /\ Aimed(vima_cache'[operand'.read1], Head1.vima_read1)
                   /\ operand'.read2 # NULL => Aimed(vima_cache'[operand'.read2], Head1.vima_read2)
<1> DEFINE i == Head1
           two == i.vima_read2 \notin {0, i.vima_read1}
           hit1 == Holders(c, i.vima_read1) # {} /\ i.op # "VIMA_GATHER"
           hit2 == Holders(c, i.vima_read2) # {}
           hitW == Holders(c, i.vima_write) # {} /\ i.op # "VIMA_SCATTER"
           taken(r1, r2, w) == Take(Take(Take(c, r1), r2), w)
           first(r1, r2, w) == IF hit1 THEN taken(r1, r2, w)
                               ELSE [taken(r1, r2, w) EXCEPT ![r1] = Missed(@, i.vima_read1)]
           second(r1, r2, w) == IF ~two \/ hit2 THEN first(r1, r2, w)
                                ELSE [first(r1, r2, w) EXCEPT ![r2] = Missed(@, i.vima_read2)]
           third(r1, r2, w) == IF w \in {NULL, r1, r2} \/ hitW THEN second(r1, r2, w)
                               ELSE [second(r1, r2, w) EXCEPT ![w] = MissedWrite(@)]
<1>1. i.vima_read1 \in Nat \ {0} /\ i.vima_read2 \in Nat
  BY HeadIsInstruction
<1>2. PICK r1 \in search_cache(c, i.vima_read1) :
        \E r2 \in IF two THEN search_cache(Take(c, r1), i.vima_read2) ELSE {NULL} :
        \E w \in CASE i.vima_write = 0            -> {NULL}
                   [] i.vima_write = i.vima_read1 -> {r1}
                   [] i.vima_write = i.vima_read2 -> {r2}
                   [] OTHER -> search_cache(Take(Take(c, r1), r2), i.vima_write) :
          vima_cache' = third(r1, r2, w) /\ operand' = [read1 |-> r1, read2 |-> r2, write |-> w]
  BY DEF check_cache
<1>3. PICK r2 \in IF two THEN search_cache(Take(c, r1), i.vima_read2) ELSE {NULL} :
        \E w \in CASE i.vima_write = 0            -> {NULL}
                   [] i.vima_write = i.vima_read1 -> {r1}
                   [] i.vima_write = i.vima_read2 -> {r2}
                   [] OTHER -> search_cache(Take(Take(c, r1), r2), i.vima_write) :
          vima_cache' = third(r1, r2, w) /\ operand' = [read1 |-> r1, read2 |-> r2, write |-> w]
  BY <1>2
<1>hit1. hit1 => c[r1].address = i.vima_read1
  <2> SUFFICES ASSUME hit1 PROVE c[r1].address = i.vima_read1
    OBVIOUS
  <2>1. r1 \in search_cache(c, i.vima_read1) /\ Holders(c, i.vima_read1) # {}
    OBVIOUS
  <2> HIDE DEF i, hit1
  <2>2. r1 \in Holders(c, i.vima_read1)
    BY <2>1, SearchNamesVectors
  <2> QED BY <2>2 DEF Holders
<1>hit2. two /\ hit2 => r2 \in Way /\ c[r2].address = i.vima_read2
  <2> SUFFICES ASSUME two, hit2 PROVE r2 \in Way /\ c[r2].address = i.vima_read2
    OBVIOUS
  <2>1. r2 \in search_cache(Take(c, r1), i.vima_read2)
    OBVIOUS
  <2>2. Holders(Take(c, r1), i.vima_read2) = Holders(c, i.vima_read2)
    BY DEF Holders, Take, SoundVector, vima_vector_t
  <2> HIDE DEF i
  <2>3. r2 \in Holders(c, i.vima_read2)
    BY <2>1, <2>2, SearchNamesVectors
  <2> QED BY <2>3 DEF Holders
<1>two. r2 # NULL => two
  OBVIOUS
<1>4. PICK w \in CASE i.vima_write = 0            -> {NULL}
                   [] i.vima_write = i.vima_read1 -> {r1}
                   [] i.vima_write = i.vima_read2 -> {r2}
                   [] OTHER -> search_cache(Take(Take(c, r1), r2), i.vima_write) :
          vima_cache' = third(r1, r2, w) /\ operand' = [read1 |-> r1, read2 |-> r2, write |-> w]
  BY <1>3
<1>5. r1 \in Way
  BY SearchNamesVectors
<1>6. r2 \in Way \cup {NULL}
  BY SearchNamesVectors
<1>7. w \in Way \cup {NULL}
  <2>1. search_cache(Take(Take(c, r1), r2), i.vima_write) \subseteq Way
    BY SearchNamesVectors
  <2> HIDE DEF i
  <2> QED BY <1>5, <1>6, <2>1
<1>8. /\ taken(r1, r2, w) \in [Way -> SoundVector]
      /\ \A x \in Way : /\ taken(r1, r2, w)[x].status = c[x].status
                        /\ taken(r1, r2, w)[x].address = c[x].address
  <2> DEFINE c1 == Take(c, r1)
             c2 == Take(c1, r2)
             c3 == Take(c2, w)
  <2>1. /\ c1 \in [Way -> SoundVector]
        /\ \A x \in Way : c1[x].status = c[x].status /\ c1[x].address = c[x].address
    BY TakeSound
  <2> HIDE DEF c1
  <2>2. /\ c2 \in [Way -> SoundVector]
        /\ \A x \in Way : c2[x].status = c1[x].status /\ c2[x].address = c1[x].address
    BY <2>1, TakeSound
  <2> HIDE DEF c2
  <2>3. /\ c3 \in [Way -> SoundVector]
        /\ \A x \in Way : c3[x].status = c2[x].status /\ c3[x].address = c2[x].address
    BY <2>2, TakeSound
  <2>4. taken(r1, r2, w) = c3
    BY DEF c1, c2
  <2> HIDE DEF c3, taken
  <2> QED BY <2>1, <2>2, <2>3, <2>4
<1>w. i.vima_write = 0 => w = NULL
  <2> SUFFICES ASSUME i.vima_write = 0 PROVE w = NULL
    OBVIOUS
  <2>1. i.vima_write # i.vima_read1
    BY <1>1
  <2>2. i.vima_write = i.vima_read2 => r2 = NULL
    OBVIOUS
  <2> HIDE DEF i
  <2> QED BY <2>1, <2>2
<1> HIDE DEF i, two, hit1, hit2, hitW, taken
<1>9. /\ first(r1, r2, w) \in [Way -> SoundVector]
      /\ \A x \in Way : x # r1 \/ hit1 => first(r1, r2, w)[x] = taken(r1, r2, w)[x]
      /\ ~hit1 => first(r1, r2, w)[r1] = Missed(taken(r1, r2, w)[r1], i.vima_read1)
  BY <1>1, <1>5, <1>8, MissedSound
<1> HIDE DEF first
<1>10. /\ second(r1, r2, w) \in [Way -> SoundVector]
       /\ \A x \in Way : x # r2 \/ ~two \/ hit2 => second(r1, r2, w)[x] = first(r1, r2, w)[x]
       /\ two /\ ~hit2 /\ r2 \in Way => second(r1, r2, w)[r2] = Missed(first(r1, r2, w)[r2], i.vima_read2)
  BY <1>1, <1>9, MissedSound
<1> HIDE DEF second
<1>11. /\ third(r1, r2, w) \in [Way -> SoundVector]
       /\ \A x \in Way : x # w \/ x \in {r1, r2} => third(r1, r2, w)[x] = second(r1, r2, w)[x]
  BY <1>10, MissedSound
<1> HIDE DEF third
<1>12. ASSUME \A x \in Way : Settled(c[x]), NEW x \in Way, x \notin {r1, r2, w}
       PROVE  Settled(third(r1, r2, w)[x])
  BY <1>8, <1>9, <1>10, <1>11, <1>12 DEF Settled
<1>13. ASSUME NEW v \in SoundVector, NEW a \in Nat
       PROVE  Aimed(Missed(v, a), a)
  BY DEF Missed, Aimed, SoundVector, vima_vector_t
<1>14. ASSUME \A x \in Way : Settled(c[x]), r1 # r2
       PROVE  Aimed(third(r1, r2, w)[r1], i.vima_read1)
  <2>1. third(r1, r2, w)[r1] = first(r1, r2, w)[r1]
    BY <1>5, <1>10, <1>11, <1>14
  <2>2. CASE hit1
    BY <1>1, <1>5, <1>8, <1>9, <1>14, <1>hit1, <2>1, <2>2 DEF Settled, Aimed
  <2>3. CASE ~hit1
    BY <1>1, <1>5, <1>8, <1>9, <1>13, <2>1, <2>3
  <2> QED BY <2>2, <2>3
<1>15. ASSUME \A x \in Way : Settled(c[x]), r1 # r2, r2 # NULL
       PROVE  Aimed(third(r1, r2, w)[r2], i.vima_read2)
  <2>1. third(r1, r2, w)[r2] = second(r1, r2, w)[r2] /\ r2 \in Way /\ two
    BY <1>6, <1>11, <1>15, <1>two
  <2>2. first(r1, r2, w)[r2] = taken(r1, r2, w)[r2]
    BY <1>9, <1>15, <2>1
  <2>3. CASE hit2
    <3>1. second(r1, r2, w)[r2] = taken(r1, r2, w)[r2]
      BY <1>10, <2>1, <2>2, <2>3
    <3>2. i.vima_read2 # 0
      BY <2>1 DEF two
    <3> QED BY <1>8, <1>15, <1>hit2, <2>1, <2>3, <3>1, <3>2 DEF Settled, Aimed
  <2>4. CASE ~hit2
    BY <1>1, <1>9, <1>10, <1>13, <2>1, <2>4
  <2> QED BY <2>3, <2>4
<1>16. /\ vima_cache' = third(r1, r2, w)
       /\ operand'.read1 = r1 /\ operand'.read2 = r2 /\ operand'.write = w
       /\ operand' \in [read1 : Way \cup {NULL}, read2 : Way \cup {NULL}, write : Way \cup {NULL}]
  BY <1>4, <1>5, <1>6, <1>7
<1>17. r2 # NULL => i.vima_read2 # 0
  BY <1>two DEF two
<1> QED BY <1>5, <1>11, <1>12, <1>14, <1>15, <1>16, <1>17, <1>w DEF i

\* A clock of the controller.
LEMMA ClockInv ==
  ASSUME VimaInv, vima_clock
  PROVE  VimaInv'
<1>1. Clocked \in [Way -> SoundVector]
  BY ClockedSound DEF VimaInv
<1>2. vima_buffer \in Seq(Entry) /\ Len(vima_buffer) <= VIMA_BUFFER /\ vima_sent' = vima_sent
  BY DEF VimaInv, vima_clock
<1>3. CASE noInstruction
  BY <1>1, <1>2, <1>3 DEF VimaInv, noInstruction
<1>4. ASSUME NEW s \in {"TRANSMIT", "WAIT"}, vima_buffer # <<>>
      PROVE  /\ [vima_buffer EXCEPT ![1].status = s] \in Seq(Entry)
             /\ Len([vima_buffer EXCEPT ![1].status = s]) <= VIMA_BUFFER
  <2>1. 1 \in DOMAIN vima_buffer /\ vima_buffer[1] \in Entry
    BY <1>2, <1>4
  <2>2. [vima_buffer[1] EXCEPT !.status = s] \in Entry
    BY <2>1 DEF Entry
  <2> DEFINE e == [vima_buffer[1] EXCEPT !.status = s]
  <2>3. [vima_buffer EXCEPT ![1].status = s] = [vima_buffer EXCEPT ![1] = e]
    OBVIOUS
  <2> HIDE DEF e
  <2>4. e \in Entry
    BY <2>2 DEF e
  <2>5. /\ [vima_buffer EXCEPT ![1] = e] \in Seq(Entry)
        /\ Len([vima_buffer EXCEPT ![1] = e]) = Len(vima_buffer)
    BY <1>2, <2>1, <2>4
  <2> QED BY <1>2, <2>3, <2>5
<1>5. CASE start
  <2>1. vima_buffer # <<>> /\ check_cache(Clocked)
    BY <1>5 DEF start
  <2>2. vima_buffer' \in Seq(Entry) /\ Len(vima_buffer') <= VIMA_BUFFER
    BY <1>4, <1>5 DEF start
  <2> QED BY <1>1, <1>2, <2>1, <2>2, CheckCacheSound DEF VimaInv
<1>6. CASE transmit
  <2>1. vima_buffer' \in Seq(Entry) /\ Len(vima_buffer') <= VIMA_BUFFER
    BY <1>2, <1>4, <1>6 DEF transmit
  <2>2. vima_cache' \in [Way -> SoundVector]
    BY <1>1, <1>6, OtherFields DEF transmit, check_completion
  <2>3. operand' = operand
    BY <1>6 DEF transmit
  <2> QED BY <1>2, <2>1, <2>2, <2>3 DEF VimaInv
<1>7. CASE instruction_ready
  <2>1. vima_buffer # <<>> /\ vima_buffer' = Tail(vima_buffer) /\ operand' = operand
        /\ vima_cache' = write_to_cache(Clocked)
    BY <1>7 DEF instruction_ready
  <2>2. Tail(vima_buffer) \in Seq(Entry) /\ Len(Tail(vima_buffer)) <= VIMA_BUFFER
    BY <1>2, <2>1, VimaAssumption
  <2>3. Head1.vima_write \in Nat
    BY <1>2, <2>1, HeadIsInstruction
  <2>4. write_to_cache(Clocked) \in [Way -> SoundVector]
    <3> DEFINE w == operand.write
               n == Head1.vima_write
               c1 == [Clocked EXCEPT ![w] = [Clocked[w] EXCEPT !.address = n]]
               c2 == [c1 EXCEPT ![w] = [c1[w] EXCEPT !.status = "READY"]]
               c3 == [c2 EXCEPT ![w] = [c2[w] EXCEPT !.dirty = TRUE]]
    <3>1. c1 \in [Way -> SoundVector]
      BY <1>1, <2>3, OtherFields
    <3>2. ASSUME NEW c \in [Way -> SoundVector]
          PROVE  /\ [c EXCEPT ![w] = [c[w] EXCEPT !.status = "READY"]] \in [Way -> SoundVector]
                 /\ [c EXCEPT ![w] = [c[w] EXCEPT !.dirty = TRUE]] \in [Way -> SoundVector]
      BY OtherFields
    <3>3. write_to_cache(Clocked) \in {Clocked, c3}
      BY DEF write_to_cache
    <3> HIDE DEF c1
    <3>4. c2 \in [Way -> SoundVector]
      BY <3>1, <3>2
    <3> HIDE DEF c2
    <3>5. c3 \in [Way -> SoundVector]
      BY <3>2, <3>4
    <3> QED BY <1>1, <3>3, <3>5
  <2> QED BY <1>2, <2>1, <2>2, <2>4 DEF VimaInv
<1> QED BY <1>3, <1>5, <1>6, <1>7 DEF vima_clock

\* A step of the controller, of the processor or of the memory controller.
LEMMA VimaStep ==
  ASSUME VimaInv, VimaNext
  PROVE  VimaInv'
<1>1. ASSUME NEW n \in VimaInstruction, addRequest(n) PROVE VimaInv'
  <2>1. vima_buffer' \in Seq(Entry) /\ Len(vima_buffer') <= VIMA_BUFFER
    BY <1>1, VimaAssumption DEF addRequest, VimaInv, Entry
  <2>2. vima_sent' \in 0 .. VIMA_TRACE
    BY <1>1, VimaAssumption DEF addRequest, VimaInv
  <2> QED BY <1>1, <2>1, <2>2 DEF addRequest, VimaInv
<1>2. ASSUME NEW w \in Way, NEW k \in Part, VectorAnswer(w, k) PROVE VimaInv'
  <2> DEFINE v == [vima_cache[w] EXCEPT !.sub_requests[k] = "WAIT"]
  <2>1. vima_cache[w] \in SoundVector
    BY DEF VimaInv
  <2>2. v \in SoundVector
    <3> DEFINE parts == [vima_cache[w].sub_requests EXCEPT ![k] = "WAIT"]
    <3>1. v = [vima_cache[w] EXCEPT !.sub_requests = parts]
      BY <2>1 DEF SoundVector, vima_vector_t
    <3>2. /\ parts \in [Part -> {"FREE", "DRAM", "WAIT"}]
          /\ \A j \in 1 .. vima_cache[w].sub_ready : parts[j] # "DRAM"
      BY <2>1, VimaAssumption DEF SoundVector, vima_vector_t
    <3> HIDE DEF parts
    <3> QED BY <2>1, <3>1, <3>2 DEF SoundVector, vima_vector_t
  <2>3. vima_cache' = [vima_cache EXCEPT ![w] = v]
    BY <1>2 DEF VectorAnswer
  <2> HIDE DEF v
  <2> QED BY <1>2, <2>2, <2>3 DEF VectorAnswer, VimaInv
<1> QED BY <1>1, <1>2, ClockInv DEF VimaNext

LEMMA VimaInitially ==
  ASSUME VimaInit
  PROVE  VimaInv
<1>1. [address |-> 0, next_address |-> 0, status |-> "FREE", dirty |-> FALSE,
       taken |-> FALSE, sub_ready |-> no_sub_requests,
       sub_requests |-> [k \in Part |-> "FREE"]] \in SoundVector
  BY VimaAssumption DEF SoundVector, vima_vector_t
<1> QED BY <1>1, VimaAssumption DEF VimaInit, VimaInv

\* The controller keeps its types and its vectors stay sound.
LEMMA VimaSafe == Spec => []VimaInv
<1>1. Init => VimaInv
  BY VimaInitially DEF Init
<1>2. VimaInv /\ [Next]_vars => VimaInv'
  <2> SUFFICES ASSUME VimaInv, [Next]_vars PROVE VimaInv'
    OBVIOUS
  <2>1. CASE UNCHANGED vimaVars
    BY <2>1 DEF vimaVars, VimaInv
  <2>2. CASE VimaNext
    BY <2>2, VimaStep
  <2> QED BY <2>1, <2>2 DEF Next, vars
<1> QED BY <1>1, <1>2, PTL DEF Spec

\* The sub-requests that a vector has counted are not in the memory controller:
\* for every size of a vector, every cache and every order of the answers, none
\* is sent again before it is back (vima_vector_t::fetch and writeback).
THEOREM SentAgainOnlyWhenBack == Spec => []CountedAreBack
<1>1. VimaInv => CountedAreBack
  BY DEF VimaInv, SoundVector, CountedAreBack
<1> QED BY <1>1, VimaSafe, PTL

\* The VIMA controller keeps its types, whatever its sizes.
THEOREM VimaTypeCorrect == Spec => []VimaTypeOK
<1>1. VimaInv => VimaTypeOK
  BY DEF VimaInv, VimaTypeOK, SoundVector, Entry
<1> QED BY <1>1, VimaSafe, PTL

-----------------------------------------------------------------------------
(* The operands of the instruction executed                                *)

Executing == vima_buffer # <<>> /\ vima_buffer[1].status # "VIMA"

\* The vectors that operands name are on their way to the operands of the head.
HeadServed ==
  /\ \A w \in Way : w \notin {operand.read1, operand.read2, operand.write} => Settled(vima_cache[w])
  /\ operand.read1 \in Way
  /\ operand.read1 # operand.read2 =>
       /\ Aimed(vima_cache[operand.read1], vima_buffer[1].instruction.vima_read1)
       /\ operand.read2 # NULL =>
            Aimed(vima_cache[operand.read2], vima_buffer[1].instruction.vima_read2)
  /\ operand.read2 # NULL => vima_buffer[1].instruction.vima_read2 # 0
  /\ vima_buffer[1].instruction.vima_write = 0 => operand.write = NULL
  /\ vima_buffer[1].status = "WAIT" => Complete(vima_cache)

\* Nothing is being done to any vector between two instructions, so that a hit
\* is a vector that is ready.
OneAtATime ==
  /\ \A k \in DOMAIN vima_buffer : k # 1 => vima_buffer[k].status = "VIMA"
  /\ ~Executing => \A w \in Way : Settled(vima_cache[w])
  /\ Executing => HeadServed

\* A clock leaves a vector nothing is being done to alone, and brings the others
\* nearer to what they are to hold.
LEMMA ClockAims ==
  ASSUME NEW v \in SoundVector
  PROVE  /\ v.status \in {"READY", "FREE"} => VectorClock(v) = v
         /\ \A a \in Nat \ {0} : Aimed(v, a) => Aimed(VectorClock(v), a)
<1>1. ASSUME NEW u \in SoundVector
      PROVE  /\ Transferred(u) \in SoundVector
             /\ Transferred(u).address = u.address /\ Transferred(u).status = u.status
             /\ Transferred(u).next_address = u.next_address
  <2>1. Transferred(u) \in SoundVector
    BY TransferredSound
  <2>2. \/ Transferred(u) = [u EXCEPT !.sub_ready = 0, !.sub_requests = [k \in Part |-> "DRAM"]]
        \/ \E n : Transferred(u) = [u EXCEPT !.sub_ready = n]
    BY DEF Transferred, Counted
  <2> QED BY <2>1, <2>2 DEF SoundVector, vima_vector_t
<1>2. v.status \in {"READY", "FREE"} => VectorClock(v) = v
  BY DEF VectorClock
<1>3. ASSUME NEW a \in Nat \ {0}, v.status = "TRANSMIT", v.next_address = a
      PROVE  Aimed(VectorClock(v), a)
  <2> DEFINE t == Transferred(v)
  <2>1. VectorClock(v) \in {[v EXCEPT !.status = "WAIT"], t, [t EXCEPT !.status = "WAIT"]}
    BY <1>3 DEF VectorClock, writeback
  <2>2. t \in SoundVector /\ t.next_address = a /\ t.status = "TRANSMIT"
    BY <1>1, <1>3
  <2> HIDE DEF t
  <2> QED BY <1>3, <2>1, <2>2 DEF Aimed, SoundVector, vima_vector_t
<1>4. ASSUME NEW a \in Nat \ {0}, v.status = "WAIT", v.next_address = a
      PROVE  Aimed(VectorClock(v), a)
  <2> DEFINE u == [v EXCEPT !.address = v.next_address]
             t == Transferred(u)
  <2>1. VectorClock(v) \in {t, [t EXCEPT !.dirty = FALSE, !.status = "READY"]}
    BY <1>4 DEF VectorClock, fetch
  <2>2. u \in SoundVector /\ u.address = a /\ u.next_address = a /\ u.status = "WAIT"
    <3>1. u \in SoundVector
      BY <1>4, OtherFields
    <3>2. u.address = a /\ u.next_address = a /\ u.status = "WAIT"
      BY <1>4 DEF SoundVector, vima_vector_t
    <3> QED BY <3>1, <3>2
  <2> HIDE DEF u
  <2>3. t \in SoundVector /\ t.address = a /\ t.next_address = a /\ t.status = "WAIT"
    BY <1>1, <2>2
  <2> HIDE DEF t
  <2> QED BY <2>1, <2>3 DEF Aimed, SoundVector, vima_vector_t
<1> QED BY <1>2, <1>3, <1>4 DEF Aimed

\* A clock serves the instruction at the head, or begins the next one when all
\* that was done for the last one is done.
LEMMA ClockOneAtATime ==
  ASSUME VimaInv, OneAtATime, vima_clock
  PROVE  OneAtATime'
<1> DEFINE c == Clocked
<1>1. c \in [Way -> SoundVector] /\ vima_buffer \in Seq(Entry) /\ vima_cache \in [Way -> SoundVector]
  BY ClockedSound DEF VimaInv
<1>2. \A w \in Way : Settled(vima_cache[w]) => c[w] = vima_cache[w]
  BY <1>1, ClockAims DEF Clocked, Settled
<1>3. \A w \in Way, a \in Nat \ {0} : Aimed(vima_cache[w], a) => Aimed(c[w], a)
  BY <1>1, ClockAims DEF Clocked
<1>4. \A w \in Way : vima_cache[w].status = "READY" => c[w] = vima_cache[w]
  BY <1>1, ClockAims DEF Clocked
<1>5. vima_buffer # <<>> => Head(vima_buffer) = vima_buffer[1] /\ Head1 = vima_buffer[1].instruction
  BY <1>1 DEF Head1
<1> HIDE DEF c
<1>6. CASE noInstruction
  BY <1>1, <1>2, <1>6 DEF OneAtATime, Executing, noInstruction, c
<1>7. CASE start
  <2>1. vima_buffer # <<>> /\ ~Executing /\ check_cache(c)
    BY <1>5, <1>7 DEF start, Executing, c
  <2>2. \A w \in Way : Settled(c[w])
    BY <1>2, <2>1 DEF OneAtATime
  <2>3. /\ \A x \in Way : x \notin {operand'.read1, operand'.read2, operand'.write} =>
              Settled(vima_cache'[x])
        /\ operand'.read1 \in Way
        /\ operand'.read1 # operand'.read2 =>
             /\ Aimed(vima_cache'[operand'.read1], Head1.vima_read1)
             /\ operand'.read2 # NULL => Aimed(vima_cache'[operand'.read2], Head1.vima_read2)
        /\ Head1.vima_write = 0 => operand'.write = NULL
        /\ operand'.read2 # NULL => Head1.vima_read2 # 0
    BY <1>1, <2>1, <2>2, CheckCacheSound
  <2>4. /\ vima_buffer'[1].instruction = Head1 /\ vima_buffer'[1].status = "TRANSMIT"
        /\ DOMAIN vima_buffer' = DOMAIN vima_buffer
        /\ \A k \in DOMAIN vima_buffer : k # 1 => vima_buffer'[k] = vima_buffer[k]
        /\ vima_buffer' # <<>>
    BY <1>1, <1>5, <1>7, <2>1 DEF start, Entry
  <2> QED BY <2>3, <2>4 DEF OneAtATime, Executing, HeadServed
<1>8. CASE transmit
  <2>1. /\ vima_buffer # <<>> /\ Executing /\ vima_buffer[1].status = "TRANSMIT"
        /\ check_completion(c) /\ operand' = operand
    BY <1>5, <1>8 DEF transmit, Executing, c
  <2>2. \A w \in Way : /\ vima_cache'[w].status = c[w].status /\ vima_cache'[w].address = c[w].address
                      /\ vima_cache'[w].next_address = c[w].next_address
    BY <1>1, <2>1 DEF check_completion, SoundVector, vima_vector_t
  <2>3. /\ vima_buffer'[1].instruction = vima_buffer[1].instruction
        /\ vima_buffer'[1].status = IF Complete(c) THEN "WAIT" ELSE "TRANSMIT"
        /\ DOMAIN vima_buffer' = DOMAIN vima_buffer
        /\ \A k \in DOMAIN vima_buffer : k # 1 => vima_buffer'[k] = vima_buffer[k]
        /\ vima_buffer' # <<>>
    BY <1>1, <1>8, <2>1 DEF transmit, Entry, c
  <2>4. Head1.vima_read1 \in Nat \ {0} /\ Head1.vima_read2 \in Nat
    BY <1>1, <2>1, HeadIsInstruction
  <2>5. HeadServed /\ operand.read2 \in Way \cup {NULL}
    BY <2>1 DEF OneAtATime, VimaInv
  <2>6. \A w \in Way : w \notin {operand.read1, operand.read2, operand.write} => Settled(vima_cache'[w])
    BY <1>2, <2>2, <2>5 DEF HeadServed, Settled
  <2>7. ASSUME operand.read1 # operand.read2
        PROVE  /\ Aimed(vima_cache'[operand.read1], Head1.vima_read1)
               /\ operand.read2 # NULL => Aimed(vima_cache'[operand.read2], Head1.vima_read2)
    <3>1. Aimed(c[operand.read1], Head1.vima_read1)
      BY <1>3, <1>5, <2>1, <2>4, <2>5, <2>7 DEF HeadServed
    <3>2. operand.read2 # NULL => Aimed(c[operand.read2], Head1.vima_read2)
      BY <1>3, <1>5, <2>1, <2>4, <2>5, <2>7 DEF HeadServed
    <3> QED BY <2>2, <2>5, <3>1, <3>2 DEF HeadServed, Aimed
  <2>8. vima_buffer'[1].status = "WAIT" => Complete(vima_cache)'
    <3>1. \A w \in Reads : w \in Way
      BY <2>5 DEF Reads, HeadServed
    <3> QED BY <2>1, <2>2, <2>3, <3>1 DEF Complete, Reads
  <2>9. HeadServed'
    BY <1>5, <2>1, <2>3, <2>5, <2>6, <2>7, <2>8 DEF HeadServed
  <2>10. Executing'
    BY <2>3 DEF Executing
  <2> QED BY <2>3, <2>9, <2>10 DEF OneAtATime
<1>9. CASE instruction_ready
  <2>1. /\ vima_buffer # <<>> /\ Executing /\ vima_buffer[1].status = "WAIT"
        /\ vima_cache' = write_to_cache(c) /\ vima_buffer' = Tail(vima_buffer)
    BY <1>5, <1>9 DEF instruction_ready, Executing, c
  <2>2. HeadServed /\ Complete(vima_cache) /\ operand.read2 \in Way \cup {NULL}
    BY <2>1 DEF OneAtATime, VimaInv, HeadServed
  <2>3. ASSUME NEW w \in Way, w # operand.write PROVE Settled(c[w])
    <3>1. CASE w \in {operand.read1, operand.read2}
      <4>1. w \in Reads
        BY <3>1, VimaAssumption DEF Reads
      <4> QED BY <1>4, <2>2, <4>1 DEF Complete, Settled
    <3>2. CASE w \notin {operand.read1, operand.read2}
      BY <1>2, <2>2, <2>3, <3>2 DEF HeadServed
    <3> QED BY <3>1, <3>2
  <2>4. ASSUME NEW w \in Way PROVE Settled(vima_cache'[w])
    <3>1. CASE w = operand.write
      <4>1. Head1.vima_write # 0
        BY <1>5, <2>1, <2>2, <3>1, VimaAssumption DEF HeadServed
      <4>2. vima_cache'[w].status = "READY"
        BY <1>1, <2>1, <3>1, <4>1 DEF write_to_cache, SoundVector, vima_vector_t
      <4> QED BY <4>2 DEF Settled
    <3>2. CASE w # operand.write
      <4>1. vima_cache'[w] = c[w]
        BY <1>1, <2>1, <3>2 DEF write_to_cache
      <4> QED BY <2>3, <3>2, <4>1
    <3> QED BY <3>1, <3>2
  <2>5. \A k \in DOMAIN vima_buffer' : vima_buffer'[k].status = "VIMA"
    BY <1>1, <2>1 DEF OneAtATime
  <2>6. ~Executing'
    <3>1. vima_buffer' \in Seq(Entry)
      BY <1>1, <2>1
    <3>2. vima_buffer' # <<>> => 1 \in DOMAIN vima_buffer'
      BY <3>1
    <3> QED BY <2>5, <3>2 DEF Executing
  <2> QED BY <2>4, <2>5, <2>6 DEF OneAtATime
<1> QED BY <1>6, <1>7, <1>8, <1>9 DEF vima_clock

\* A request joins the buffer behind the others; an answer changes neither the
\* state nor the addresses of a vector.
LEMMA VimaOneAtATime ==
  ASSUME VimaInv, OneAtATime, VimaNext
  PROVE  OneAtATime'
<1>1. ASSUME NEW n \in VimaInstruction, addRequest(n) PROVE OneAtATime'
  <2>1. /\ vima_buffer \in Seq(Entry) /\ UNCHANGED <<vima_cache, operand>>
        /\ vima_buffer' = Append(vima_buffer, [instruction |-> n, status |-> "VIMA"])
    BY <1>1 DEF addRequest, VimaInv
  <2>2. /\ \A k \in DOMAIN vima_buffer : vima_buffer'[k] = vima_buffer[k]
        /\ \A k \in DOMAIN vima_buffer' : k \in DOMAIN vima_buffer \/ vima_buffer'[k].status = "VIMA"
        /\ vima_buffer # <<>> => 1 \in DOMAIN vima_buffer
        /\ vima_buffer' # <<>> /\ 1 \in DOMAIN vima_buffer'
    BY <2>1
  <2>3. Executing' <=> Executing
    BY <2>2 DEF Executing
  <2>4. Executing /\ HeadServed => HeadServed'
    BY <2>1, <2>2 DEF Executing, HeadServed, Complete, Reads
  <2> QED BY <2>1, <2>2, <2>3, <2>4 DEF OneAtATime
<1>2. ASSUME NEW w \in Way, NEW k \in Part, VectorAnswer(w, k) PROVE OneAtATime'
  <2>1. /\ \A x \in Way : /\ vima_cache'[x].status = vima_cache[x].status
                          /\ vima_cache'[x].address = vima_cache[x].address
                          /\ vima_cache'[x].next_address = vima_cache[x].next_address
        /\ UNCHANGED <<vima_buffer, operand>>
    BY <1>2 DEF VectorAnswer, VimaInv, SoundVector, vima_vector_t
  <2>2. \A w1 \in Way : Settled(vima_cache[w1]) => Settled(vima_cache'[w1])
    BY <2>1 DEF Settled
  <2>3. operand \in [read1 : Way \cup {NULL}, read2 : Way \cup {NULL}, write : Way \cup {NULL}]
    BY DEF VimaInv
  <2>4. HeadServed => HeadServed'
    <3> SUFFICES ASSUME HeadServed PROVE HeadServed'
      OBVIOUS
    <3>1. Complete(vima_cache) => Complete(vima_cache)'
      BY <2>1, <2>3 DEF Complete, Reads
    <3>2. \A x \in Way : \A a : Aimed(vima_cache[x], a) => Aimed(vima_cache'[x], a)
      BY <2>1 DEF Aimed
    <3> QED BY <2>1, <2>2, <2>3, <3>1, <3>2 DEF HeadServed
  <2> QED BY <2>1, <2>2, <2>4 DEF OneAtATime, Executing
<1> QED BY <1>1, <1>2, ClockOneAtATime DEF VimaNext

\* An instruction is executed with its operands: whatever the sizes, however the
\* vectors to replace are chosen and in whatever order sub-requests come back,
\* the vectors its operands name hold the addresses it reads, if they are two
\* (vima_controller_t::check_cache and check_completion).
THEOREM ExecutedWithOperands == Spec => []OperandsHeld
<1>1. Init => OneAtATime
  <2> SUFFICES ASSUME Init PROVE OneAtATime
    OBVIOUS
  <2>1. vima_buffer = <<>> /\ \A w \in Way : vima_cache[w].status = "FREE" /\ vima_cache[w].address = 0
    BY DEF Init, VimaInit
  <2> QED BY <2>1 DEF OneAtATime, Executing, Settled
<1>2. VimaInv /\ OneAtATime /\ [Next]_vars => OneAtATime'
  <2> SUFFICES ASSUME VimaInv, OneAtATime, [Next]_vars PROVE OneAtATime'
    OBVIOUS
  <2>1. CASE UNCHANGED vimaVars
    BY <2>1 DEF vimaVars, OneAtATime, Executing, HeadServed, Complete, Reads
  <2>2. CASE VimaNext
    BY <2>2, VimaOneAtATime
  <2> QED BY <2>1, <2>2 DEF Next, vars
<1>3. VimaInv /\ OneAtATime => OperandsHeld
  <2> SUFFICES ASSUME VimaInv, OneAtATime, vima_buffer # <<>>, Head(vima_buffer).status = "WAIT",
                      operand.read1 # operand.read2
               PROVE  /\ vima_cache[operand.read1].address = Head1.vima_read1
                      /\ operand.read2 # NULL => vima_cache[operand.read2].address = Head1.vima_read2
    BY DEF OperandsHeld
  <2>1. Head(vima_buffer) = vima_buffer[1] /\ Head1 = vima_buffer[1].instruction
    BY DEF VimaInv, Head1
  <2>2. HeadServed /\ Complete(vima_cache)
    BY <2>1 DEF OneAtATime, Executing, HeadServed
  <2>3. operand.read1 \in Reads /\ (operand.read2 # NULL => operand.read2 \in Reads)
    BY <2>2, VimaAssumption DEF HeadServed, Reads
  <2> QED BY <2>1, <2>2, <2>3 DEF HeadServed, Complete, Aimed
<1> QED BY <1>1, <1>2, <1>3, VimaSafe, PTL DEF Spec

-----------------------------------------------------------------------------
(* HIVE: the state of a clock                                              *)

HiveEntry ==
  [instruction : hive_instruction_t, status : {"UNTREATED", "TRANSMIT", "HIVE"},
   left : 0 .. hive_op_latency]

SubRequests ==
  [op : {"FREE", "READ", "WRITE"}, status : [Nano -> {"FREE", "TRANSMIT", "WAIT"}],
   sent : SUBSET Nano, ready : 0 .. nano_requests_number]

ClockState ==
  [buf : Seq(HiveEntry), lock : BOOLEAN, ended : BOOLEAN,
   reg : [HiveRegister -> {"FREE", "WAIT", "READY"}], sub : [HiveRegister -> SubRequests]]

Trace == Seq(hive_instruction_t)

\* The instructions that have not completed: those of the buffer and those to come.
Pending(h, t) ==
  [i \in 1 .. Len(h.buf) + Len(t) |-> IF i <= Len(h.buf) THEN At(h, i) ELSE t[i - Len(h.buf)]]

Started(h, i) == h.buf[i].status # "UNTREATED"
Runs(h, i) == h.buf[i].status = "HIVE"
IsA(h, i, op) == At(h, i).op = op

\* What is counted and what is still to come of the sub-requests are the lines
\* of a register at most.
Outstanding(s) == {k \in Nano : s.status[k] # "FREE"}

\* A register that is not being loaded or stored has no sub-requests; one that
\* is has the instruction that does it in the buffer.
RegistersOK(h) ==
  \A r \in HiveRegister :
    /\ h.sub[r].ready + Cardinality(Outstanding(h.sub[r])) <= nano_requests_number
    /\ ~h.lock => h.reg[r] = "FREE"
    /\ h.reg[r] # "WAIT" => h.sub[r] = NoSubRequests
    /\ h.reg[r] = "WAIT" => \E i \in 1 .. Len(h.buf) : Runs(h, i) /\ r \in Moved(At(h, i))

\* Only the head and the instructions of the section it is in have begun.
SectionOK(h) ==
  \A j \in 1 .. Len(h.buf) : j > 1 /\ Started(h, j) =>
    h.lock /\ \A i \in 1 .. j : ~IsA(h, i, "LOCK") /\ ~IsA(h, i, "UNLOCK")

\* A register that a LOAD of this section will load is free until then.
LoadsOK(h, t) ==
  LET s == Pending(h, t)
  IN \A j \in DOMAIN s, r \in HiveRegister :
       /\ s[j].op = "LOAD" /\ r \in s[j].writes
       /\ j <= Len(h.buf) => ~Started(h, j)
       /\ ~SectionEnds(s, 0, j)
       => h.reg[r] = "FREE"

\* LoadedBeforeUse, and ALU instructions only wait for registers.
UsesOK(h) ==
  /\ \A i, j \in 1 .. Len(h.buf) :
       i < j /\ Runs(h, j) /\ (IsA(h, j, "ALU") \/ IsA(h, j, "STORE")) /\ IsA(h, i, "LOAD")
         => \A r \in HiveRegister : r \in At(h, i).writes /\ r \in At(h, j).reads =>
              Runs(h, i) /\ h.sub[r].op # "READ"
  /\ \A i \in 1 .. Len(h.buf) : h.buf[i].status = "TRANSMIT" => IsA(h, i, "ALU")

StateOK(h, t) ==
  /\ h \in ClockState /\ Len(h.buf) <= HIVE_BUFFER
  /\ WellFormed(Pending(h, t), h.lock)
  /\ RegistersOK(h) /\ SectionOK(h) /\ LoadsOK(h, t) /\ UsesOK(h)

\* A LOAD that the walk has skipped is the head; the younger ones have begun.
SkippedIsHead(h) ==
  \A i, j \in 1 .. Len(h.buf) : i < j /\ Started(h, j) /\ IsA(h, i, "LOAD") => Runs(h, i) \/ i = 1

LEMMA PendingType ==
  ASSUME NEW h \in ClockState, NEW t \in Trace
  PROVE  /\ Len(h.buf) \in Nat /\ Len(t) \in Nat
         /\ DOMAIN Pending(h, t) = 1 .. Len(h.buf) + Len(t)
         /\ \A i \in 1 .. Len(h.buf) :
              /\ i \in DOMAIN Pending(h, t) /\ Pending(h, t)[i] = At(h, i)
              /\ h.buf[i] \in HiveEntry /\ At(h, i) \in hive_instruction_t
         /\ \A i \in DOMAIN Pending(h, t) : Pending(h, t)[i] \in hive_instruction_t
<1>1. Len(h.buf) \in Nat /\ Len(t) \in Nat /\ h.buf \in Seq(HiveEntry)
  BY DEF ClockState, Trace
<1>2. \A i \in 1 .. Len(h.buf) : h.buf[i] \in HiveEntry /\ At(h, i) \in hive_instruction_t
  <2>1. \A i \in 1 .. Len(h.buf) : h.buf[i] \in HiveEntry
    BY <1>1
  <2>2. \A e \in HiveEntry : e.instruction \in hive_instruction_t
    BY DEF HiveEntry
  <2> QED BY <2>1, <2>2 DEF At
<1>3. DOMAIN Pending(h, t) = 1 .. Len(h.buf) + Len(t)
  BY DEF Pending
<1>4. \A i \in 1 .. Len(h.buf) : i \in DOMAIN Pending(h, t) /\ Pending(h, t)[i] = At(h, i)
  BY <1>1 DEF Pending
<1>5. ASSUME NEW i \in DOMAIN Pending(h, t), ~(i <= Len(h.buf))
      PROVE  Pending(h, t)[i] \in hive_instruction_t
  <2>1. i - Len(h.buf) \in 1 .. Len(t)
    BY <1>1, <1>3, <1>5
  <2>2. Pending(h, t)[i] = t[i - Len(h.buf)]
    BY <1>3, <1>5 DEF Pending
  <2> QED BY <2>1, <2>2 DEF Trace
<1>6. \A i \in DOMAIN Pending(h, t) : i <= Len(h.buf) => i \in 1 .. Len(h.buf)
  BY <1>1, <1>3
<1> QED BY <1>1, <1>2, <1>3, <1>4, <1>5, <1>6

\* The instructions that have begun are in one section, the one of the head.
LEMMA OneSection ==
  ASSUME NEW t \in Trace, NEW h, StateOK(h, t), NEW j \in 1 .. Len(h.buf), j = 1 \/ Started(h, j)
  PROVE  /\ ~SectionEnds(Pending(h, t), 0, j)
         /\ \A i \in 1 .. j - 1 : ~SectionEnds(Pending(h, t), i, j)
         /\ Started(h, j) => \A i \in 1 .. j : i = 1 \/ (~IsA(h, i, "LOCK") /\ ~IsA(h, i, "UNLOCK"))
<1> DEFINE s == Pending(h, t)
<1>1. /\ Len(h.buf) \in Nat /\ DOMAIN s = 1 .. Len(h.buf) + Len(t) /\ Len(t) \in Nat
      /\ \A i \in 1 .. Len(h.buf) : s[i] = At(h, i)
  BY PendingType DEF StateOK
<1>2. j = 1 \/ \A i \in 1 .. j : ~IsA(h, i, "LOCK") /\ ~IsA(h, i, "UNLOCK")
  BY DEF StateOK, SectionOK
<1> HIDE DEF s
<1>3. ASSUME NEW k \in DOMAIN s, k < j PROVE s[k].op # "UNLOCK"
  BY <1>1, <1>2, <1>3 DEF IsA
<1> QED BY <1>1, <1>2, <1>3 DEF SectionEnds, s

-----------------------------------------------------------------------------
(* HIVE: what an instruction does to the state                             *)

\* The same instructions, and the same states but for that of instruction i.
SameBuffer(h, g, i) ==
  /\ g \in ClockState /\ Len(g.buf) = Len(h.buf) /\ g.lock = h.lock /\ g.ended = h.ended
  /\ \A j \in 1 .. Len(h.buf) :
       At(g, j) = At(h, j) /\ (j # i => g.buf[j].status = h.buf[j].status)

LEMMA SamePending ==
  ASSUME NEW h, NEW g, NEW t, NEW i, SameBuffer(h, g, i)
  PROVE  Pending(g, t) = Pending(h, t)
<1>1. Len(g.buf) = Len(h.buf) /\ \A j \in 1 .. Len(h.buf) : At(g, j) = At(h, j)
  BY DEF SameBuffer
<1>2. Len(h.buf) \in Nat
  <2>1. g.buf \in Seq(HiveEntry)
    BY DEF SameBuffer, ClockState
  <2> QED BY <1>1, <2>1
<1>3. \A j \in 1 .. Len(h.buf) + Len(t) :
        (IF j <= Len(g.buf) THEN At(g, j) ELSE t[j - Len(g.buf)])
          = (IF j <= Len(h.buf) THEN At(h, j) ELSE t[j - Len(h.buf)])
  <2> TAKE j \in 1 .. Len(h.buf) + Len(t)
  <2>1. CASE j \in 1 .. Len(h.buf)
    BY <1>1, <2>1
  <2>2. CASE j \notin 1 .. Len(h.buf)
    <3>1. ~(j <= Len(h.buf))
      BY <1>2, <2>2
    <3> QED BY <1>1, <3>1
  <2> QED BY <2>1, <2>2
<1> QED BY <1>1, <1>3 DEF Pending

\* The buffer with the state of instruction i set.
Marked(buf, i, status, latency) == [buf EXCEPT ![i] = [buf[i] EXCEPT !.status = status, !.left = latency]]

LEMMA UpdatedType ==
  ASSUME NEW h \in ClockState, NEW i \in 1 .. Len(h.buf), NEW status \in {"TRANSMIT", "HIVE"},
         NEW latency \in 0 .. hive_op_latency, NEW g, g = Updated(h, i, status, latency)
  PROVE  /\ SameBuffer(h, g, i) /\ g.buf[i].status = status /\ g.reg = h.reg /\ g.sub = h.sub
         /\ g.buf = Marked(h.buf, i, status, latency)
<1> DEFINE e == [h.buf[i] EXCEPT !.status = status, !.left = latency]
           b == [h.buf EXCEPT ![i] = e]
<1>1. h.buf \in Seq(HiveEntry) /\ h.buf[i] \in HiveEntry
  BY PendingType DEF ClockState
<1>2. e \in HiveEntry /\ e.status = status /\ e.instruction = At(h, i)
  BY <1>1 DEF HiveEntry, At
<1>3. g = [h EXCEPT !.buf = b]
  <2> DEFINE e1 == [h.buf[i] EXCEPT !.status = status]
             b1 == [h.buf EXCEPT ![i] = e1]
             g1 == [h EXCEPT !.buf = b1]
             e2 == [e1 EXCEPT !.left = latency]
             b2 == [b1 EXCEPT ![i] = e2]
  <2>1. g1.buf = b1
    BY DEF ClockState
  <2>2. b1[i] = e1
    BY <1>1
  <2>3. g = [g1 EXCEPT !.buf = [g1.buf EXCEPT ![i] = [g1.buf[i] EXCEPT !.left = latency]]]
    BY Zenon DEF Updated
  <2>4. g = [g1 EXCEPT !.buf = b2]
    <3> HIDE DEF e1, b1, g1
    <3> QED BY <2>1, <2>2, <2>3
  <2>5. e2 = e
    BY <1>1 DEF HiveEntry
  <2>6. b2 = b
    <3> HIDE DEF e1, e2, e
    <3> QED BY <1>1, <2>5
  <2>7. [g1 EXCEPT !.buf = b2] = [h EXCEPT !.buf = b2]
    <3> HIDE DEF b1, b2
    <3> QED BY DEF ClockState
  <2> HIDE DEF b2, b, g1
  <2> QED BY <2>4, <2>6, <2>7
<1>7a. b = Marked(h.buf, i, status, latency)
  BY DEF Marked
<1> HIDE DEF e
<1>4. /\ b \in Seq(HiveEntry) /\ Len(b) = Len(h.buf) /\ b[i] = e
      /\ \A j \in 1 .. Len(h.buf) : j # i => b[j] = h.buf[j]
  BY <1>1, <1>2
<1> HIDE DEF b
<1>5. /\ g \in ClockState /\ g.buf = b /\ g.lock = h.lock /\ g.ended = h.ended
      /\ g.reg = h.reg /\ g.sub = h.sub
  BY <1>3, <1>4 DEF ClockState
<1>6. \A j \in 1 .. Len(h.buf) : At(g, j) = At(h, j)
  <2> TAKE j \in 1 .. Len(h.buf)
  <2> QED BY <1>2, <1>4, <1>5 DEF At
<1>7. \A j \in 1 .. Len(h.buf) : j # i => g.buf[j].status = h.buf[j].status
  BY <1>4, <1>5
<1>8. SameBuffer(h, g, i)
  BY <1>4, <1>5, <1>6, <1>7 DEF SameBuffer
<1>9. g.buf[i].status = status
  BY <1>2, <1>4, <1>5
<1> QED BY <1>5, <1>7a, <1>8, <1>9

\* An instruction of the section that has begun goes on.
LEMMA GoesOn ==
  ASSUME NEW t \in Trace, NEW h, StateOK(h, t), NEW i \in 1 .. Len(h.buf), NEW g,
         SameBuffer(h, g, i), g.reg = h.reg, g.sub = h.sub, g.buf[i].status \in {"TRANSMIT", "HIVE"},
         i = 1 \/ (h.lock /\ \A j \in 1 .. i : ~IsA(h, j, "LOCK") /\ ~IsA(h, j, "UNLOCK")),
         Started(h, i) => Runs(g, i),
         g.buf[i].status = "TRANSMIT" => IsA(h, i, "ALU"),
         Runs(g, i) /\ (IsA(h, i, "ALU") \/ IsA(h, i, "STORE")) =>
           \A k \in 1 .. i - 1, r \in HiveRegister :
             IsA(h, k, "LOAD") /\ r \in At(h, k).writes /\ r \in At(h, i).reads =>
               Runs(h, k) /\ h.sub[r].op # "READ"
  PROVE  StateOK(g, t)
<1>1. /\ g \in ClockState /\ Len(g.buf) = Len(h.buf) /\ g.lock = h.lock
      /\ \A j \in 1 .. Len(h.buf) : At(g, j) = At(h, j) /\ (j # i => g.buf[j].status = h.buf[j].status)
  BY DEF SameBuffer
<1>2. Pending(g, t) = Pending(h, t) /\ h \in ClockState /\ Len(h.buf) \in Nat
  BY SamePending, PendingType DEF StateOK
<1>3. \A j \in 1 .. Len(h.buf) : /\ Runs(h, j) => Runs(g, j)
                                 /\ Started(h, j) => Started(g, j)
                                 /\ \A op : IsA(g, j, op) <=> IsA(h, j, op)
  BY <1>1 DEF Runs, Started, IsA
<1>4. RegistersOK(g)
  <2> SUFFICES ASSUME NEW r \in HiveRegister
               PROVE  /\ g.sub[r].ready + Cardinality(Outstanding(g.sub[r])) <= nano_requests_number
                      /\ ~g.lock => g.reg[r] = "FREE"
                      /\ g.reg[r] # "WAIT" => g.sub[r] = NoSubRequests
                      /\ g.reg[r] = "WAIT" => \E j \in 1 .. Len(g.buf) : Runs(g, j) /\ r \in Moved(At(g, j))
    BY DEF RegistersOK
  <2>1. /\ h.sub[r].ready + Cardinality(Outstanding(h.sub[r])) <= nano_requests_number
        /\ ~h.lock => h.reg[r] = "FREE"
        /\ h.reg[r] # "WAIT" => h.sub[r] = NoSubRequests
        /\ h.reg[r] = "WAIT" => \E j \in 1 .. Len(h.buf) : Runs(h, j) /\ r \in Moved(At(h, j))
    BY DEF StateOK, RegistersOK
  <2> QED BY <1>1, <1>3, <2>1
<1>5. SectionOK(g)
  <2> SUFFICES ASSUME NEW j \in 1 .. Len(g.buf), j > 1, Started(g, j)
               PROVE  g.lock /\ \A k \in 1 .. j : ~IsA(g, k, "LOCK") /\ ~IsA(g, k, "UNLOCK")
    BY DEF SectionOK
  <2>1. h.lock /\ \A k \in 1 .. j : ~IsA(h, k, "LOCK") /\ ~IsA(h, k, "UNLOCK")
    <3>1. CASE j = i
      BY <3>1
    <3>2. CASE j # i
      BY <1>1, <3>2 DEF StateOK, SectionOK, Started
    <3> QED BY <3>1, <3>2
  <2> QED BY <1>1, <1>2, <1>3, <2>1
<1>6. LoadsOK(g, t)
  <2>1. \A j : j <= Len(h.buf) /\ j \in DOMAIN Pending(h, t) => j \in 1 .. Len(h.buf)
    BY <1>2, PendingType
  <2> QED BY <1>1, <1>2, <1>3, <2>1 DEF StateOK, LoadsOK
<1>7. UsesOK(g)
  <2>1. ASSUME NEW j \in 1 .. Len(h.buf), NEW k \in 1 .. Len(h.buf), j < k, Runs(g, k),
               IsA(h, k, "ALU") \/ IsA(h, k, "STORE"), IsA(h, j, "LOAD"),
               NEW r \in HiveRegister, r \in At(h, j).writes, r \in At(h, k).reads
        PROVE  Runs(g, j) /\ g.sub[r].op # "READ"
    <3>1. CASE k = i
      <4>1. j \in 1 .. i - 1
        BY <1>2, <2>1, <3>1
      <4> QED BY <1>3, <2>1, <3>1, <4>1
    <3>2. CASE k # i
      <4>1. Runs(h, k)
        BY <1>1, <2>1, <3>2 DEF Runs
      <4> QED BY <1>3, <2>1, <4>1 DEF StateOK, UsesOK
    <3> QED BY <3>1, <3>2
  <2>2. \A j \in 1 .. Len(h.buf) : g.buf[j].status = "TRANSMIT" => IsA(h, j, "ALU")
    BY <1>1 DEF StateOK, UsesOK
  <2> QED BY <1>1, <1>3, <2>1, <2>2 DEF UsesOK
<1> QED BY <1>1, <1>2, <1>4, <1>5, <1>6, <1>7 DEF StateOK

\* Two instructions that have begun are not of two sections.
LEMMA NotApart ==
  ASSUME NEW t \in Trace, NEW h, StateOK(h, t), NEW i \in 1 .. Len(h.buf), NEW j \in 1 .. Len(h.buf),
         Started(h, i), Started(h, j), i # j
  PROVE  \A r \in HiveRegister : ~(r \in SetBy(At(h, i)) /\ r \in Moved(At(h, j)))
<1> DEFINE s == Pending(h, t)
<1>1. /\ Len(h.buf) \in Nat /\ i \in DOMAIN s /\ j \in DOMAIN s
      /\ s[i] = At(h, i) /\ s[j] = At(h, j) /\ RegistersApart(s)
  BY PendingType DEF StateOK, WellFormed
<1>2. (i < j => ~SectionEnds(s, i, j)) /\ (j < i => ~SectionEnds(s, j, i))
  <2>1. i < j => i \in 1 .. j - 1
    BY <1>1
  <2>2. j < i => j \in 1 .. i - 1
    BY <1>1
  <2> QED BY <2>1, <2>2, OneSection
<1>3. i < j \/ j < i
  BY <1>1
<1> HIDE DEF s
<1> QED BY <1>1, <1>2, <1>3 DEF RegistersApart

\* A LOAD of the section that has not begun, and one that has, are of two registers.
LEMMA LoadedOnce ==
  ASSUME NEW t \in Trace, NEW h, StateOK(h, t), NEW i \in 1 .. Len(h.buf), Started(h, i), IsA(h, i, "LOAD"),
         NEW j \in DOMAIN Pending(h, t), j # i, Pending(h, t)[j].op = "LOAD",
         ~SectionEnds(Pending(h, t), 0, j),
         NEW r \in HiveRegister, r \in At(h, i).writes, r \in Pending(h, t)[j].writes
  PROVE  FALSE
<1> DEFINE s == Pending(h, t)
<1>1. /\ Len(h.buf) \in Nat /\ i \in DOMAIN s /\ DOMAIN s \subseteq Nat \ {0}
      /\ s[i] = At(h, i) /\ RegistersApart(s) /\ Shaped(s[i]) /\ Shaped(s[j])
  <2>1. DOMAIN s = 1 .. Len(h.buf) + Len(t) /\ Len(h.buf) \in Nat /\ Len(t) \in Nat
    BY PendingType DEF StateOK
  <2>2. DOMAIN s \subseteq Nat \ {0}
    BY <2>1
  <2> QED BY <2>1, <2>2, PendingType DEF StateOK, WellFormed
<1>2. ~SectionEnds(s, 0, i)
  BY OneSection
<1> HIDE DEF s
<1>3. \A k, l \in DOMAIN s : SectionEnds(s, k, l) => SectionEnds(s, 0, l)
  BY <1>1 DEF SectionEnds
<1>4. s[i].writes = s[j].writes
  BY <1>1 DEF Shaped, IsA, s
<1>5. i < j \/ j < i
  BY <1>1 DEF s
<1> QED BY <1>1, <1>2, <1>3, <1>4, <1>5 DEF RegistersApart, IsA, s

\* The sub-requests of a register are sent.
LEMMA SentOnce ==
  ASSUME NEW op \in {"READ", "WRITE"}, NEW s,
         s = [NoSubRequests EXCEPT !.op = op, !.status = [k \in Nano |-> "TRANSMIT"]]
  PROVE  s \in SubRequests /\ s.op = op /\ s.ready + Cardinality(Outstanding(s)) <= nano_requests_number
<1>1. /\ s.op = op /\ s.ready = 0 /\ s.sent = {} /\ s.status = [k \in Nano |-> "TRANSMIT"]
      /\ s = [op |-> op, status |-> [k \in Nano |-> "TRANSMIT"], sent |-> {}, ready |-> 0]
  BY DEF NoSubRequests
<1>2. nano_requests_number \in Nat \ {0}
  BY HiveAssumption
<1>3. s \in SubRequests
  BY <1>1, <1>2 DEF SubRequests
<1>4. Outstanding(s) = 1 .. nano_requests_number
  BY <1>1 DEF Outstanding, Nano
<1>5. Cardinality(1 .. nano_requests_number) = nano_requests_number
  BY <1>2, FS_Interval
<1> QED BY <1>1, <1>2, <1>3, <1>4, <1>5

\* A register is loaded or stored.
LEMMA MoveBegins ==
  ASSUME NEW t \in Trace, NEW h, StateOK(h, t), h.lock, NEW i \in 1 .. Len(h.buf), Runs(h, i),
         NEW r \in HiveRegister, r \in Moved(At(h, i)),
         NEW op, IF IsA(h, i, "LOAD") THEN op = "READ" /\ h.reg[r] = "FREE"
                                       ELSE op = "WRITE" /\ h.reg[r] = "READY",
         IsA(h, i, "LOAD") => \A k \in 1 .. Len(h.buf) :
           i < k /\ Runs(h, k) /\ (IsA(h, k, "ALU") \/ IsA(h, k, "STORE")) => r \notin At(h, k).reads,
         NEW g, g \in ClockState, g.buf = h.buf, g.lock = h.lock,
         g.reg = [h.reg EXCEPT ![r] = "WAIT"],
         g.sub = [h.sub EXCEPT ![r].op = op, ![r].status = [k \in Nano |-> "TRANSMIT"]]
  PROVE  StateOK(g, t)
<1>1. /\ h \in ClockState /\ Len(h.buf) \in Nat /\ i \in DOMAIN Pending(h, t)
      /\ \A x \in HiveRegister : h.sub[x] \in SubRequests
  BY PendingType DEF StateOK, ClockState
<1>2. h.sub[r] = NoSubRequests
  BY DEF StateOK, RegistersOK
<1>3. /\ g.sub[r].op = op /\ g.sub[r] \in SubRequests
      /\ g.sub[r].ready + Cardinality(Outstanding(g.sub[r])) <= nano_requests_number
      /\ \A x \in HiveRegister : x # r => g.sub[x] = h.sub[x]
  <2> DEFINE s == [NoSubRequests EXCEPT !.op = op, !.status = [k \in Nano |-> "TRANSMIT"]]
  <2>1. g.sub[r] = s
    BY <1>1, <1>2 DEF ClockState
  <2>2. \A x \in HiveRegister : x # r => g.sub[x] = h.sub[x]
    BY <1>1 DEF ClockState
  <2> HIDE DEF s
  <2>3. s \in SubRequests /\ s.op = op /\ s.ready + Cardinality(Outstanding(s)) <= nano_requests_number
    BY SentOnce DEF s
  <2> QED BY <2>1, <2>2, <2>3
<1>4. g.reg[r] = "WAIT" /\ \A x \in HiveRegister : x # r => g.reg[x] = h.reg[x]
  BY <1>1 DEF ClockState
<1>5. /\ \A j : At(g, j) = At(h, j) /\ g.buf[j] = h.buf[j]
      /\ \A j : (Started(g, j) <=> Started(h, j)) /\ (Runs(g, j) <=> Runs(h, j))
      /\ \A j, o : IsA(g, j, o) <=> IsA(h, j, o)
      /\ Pending(g, t) = Pending(h, t)
  BY DEF At, Started, Runs, IsA, Pending
<1>6. RegistersOK(g)
  <2> SUFFICES ASSUME NEW x \in HiveRegister
               PROVE  /\ g.sub[x].ready + Cardinality(Outstanding(g.sub[x])) <= nano_requests_number
                      /\ ~g.lock => g.reg[x] = "FREE"
                      /\ g.reg[x] # "WAIT" => g.sub[x] = NoSubRequests
                      /\ g.reg[x] = "WAIT" => \E j \in 1 .. Len(g.buf) : Runs(g, j) /\ x \in Moved(At(g, j))
    BY DEF RegistersOK
  <2>1. /\ h.sub[x].ready + Cardinality(Outstanding(h.sub[x])) <= nano_requests_number
        /\ h.reg[x] # "WAIT" => h.sub[x] = NoSubRequests
        /\ h.reg[x] = "WAIT" => \E j \in 1 .. Len(h.buf) : Runs(h, j) /\ x \in Moved(At(h, j))
    BY DEF StateOK, RegistersOK
  <2>2. CASE x = r
    BY <1>3, <1>4, <1>5, <2>2
  <2>3. CASE x # r
    BY <1>3, <1>4, <1>5, <2>1, <2>3
  <2> QED BY <2>2, <2>3
<1>7. SectionOK(g)
  BY <1>5 DEF StateOK, SectionOK
<1>8. LoadsOK(g, t)
  <2> DEFINE s == Pending(h, t)
  <2> SUFFICES ASSUME NEW j \in DOMAIN s, NEW x \in HiveRegister,
                      s[j].op = "LOAD", x \in s[j].writes,
                      j <= Len(h.buf) => ~Started(h, j), ~SectionEnds(s, 0, j)
               PROVE  g.reg[x] = "FREE"
    BY <1>5 DEF LoadsOK
  <2>1. h.reg[x] = "FREE"
    BY DEF StateOK, LoadsOK
  <2>2. x # r
    <3> SUFFICES ASSUME x = r PROVE FALSE
      OBVIOUS
    <3>1. IsA(h, i, "LOAD") /\ Started(h, i)
      BY <2>1 DEF Runs, Started
    <3>2. i <= Len(h.buf)
      BY <1>1
    <3>3. j # i
      BY <3>1, <3>2
    <3>4. r \in At(h, i).writes
      BY <3>1 DEF Moved, IsA
    <3> QED BY <3>1, <3>3, <3>4, LoadedOnce
  <2> QED BY <1>4, <2>1, <2>2
<1>9. UsesOK(g)
  <2>1. ASSUME NEW j \in 1 .. Len(h.buf), NEW k \in 1 .. Len(h.buf), j < k, Runs(h, k),
               IsA(h, k, "ALU") \/ IsA(h, k, "STORE"), IsA(h, j, "LOAD"),
               NEW x \in HiveRegister, x \in At(h, j).writes, x \in At(h, k).reads
        PROVE  Runs(h, j) /\ g.sub[x].op # "READ"
    <3>1. Runs(h, j) /\ h.sub[x].op # "READ"
      BY <2>1 DEF StateOK, UsesOK
    <3>2. CASE x # r
      BY <1>3, <3>1, <3>2
    <3>3. CASE x = r /\ ~IsA(h, i, "LOAD")
      BY <1>3, <3>1, <3>3
    <3>4. CASE x = r /\ IsA(h, i, "LOAD")
      <4>1. j # i
        BY <2>1, <3>4
      <4>2. Started(h, j) /\ Started(h, i) /\ r \in At(h, i).writes
        BY <3>1, <3>4 DEF Started, Runs, Moved, IsA
      <4>3. /\ i \in DOMAIN Pending(h, t) /\ Pending(h, t)[i] = At(h, i)
            /\ ~SectionEnds(Pending(h, t), 0, i)
        BY <1>1, <4>2, PendingType, OneSection
      <4> QED BY <2>1, <3>4, <4>1, <4>2, <4>3, LoadedOnce DEF IsA
    <3> QED BY <3>2, <3>3, <3>4
  <2> QED BY <1>5, <2>1 DEF StateOK, UsesOK
<1> QED BY <1>5, <1>6, <1>7, <1>8, <1>9 DEF StateOK

\* An ALU instruction without operands sets its register.
LEMMA IsSet ==
  ASSUME NEW t \in Trace, NEW h, StateOK(h, t), h.lock, NEW i \in 1 .. Len(h.buf), Runs(h, i),
         NEW r \in HiveRegister, r \in SetBy(At(h, i)),
         NEW g, g \in ClockState, g.buf = h.buf, g.lock = h.lock, g.sub = h.sub,
         g.reg = [h.reg EXCEPT ![r] = "READY"]
  PROVE  StateOK(g, t)
<1>1. /\ h \in ClockState /\ Len(h.buf) \in Nat
      /\ i \in DOMAIN Pending(h, t) /\ Pending(h, t)[i] = At(h, i)
  BY PendingType DEF StateOK
<1>2. g.reg[r] = "READY" /\ \A x \in HiveRegister : x # r => g.reg[x] = h.reg[x]
  BY <1>1 DEF ClockState
<1>3. /\ \A j : At(g, j) = At(h, j) /\ g.buf[j] = h.buf[j]
      /\ \A j : (Started(g, j) <=> Started(h, j)) /\ (Runs(g, j) <=> Runs(h, j))
      /\ \A j, o : IsA(g, j, o) <=> IsA(h, j, o)
      /\ Pending(g, t) = Pending(h, t)
  BY DEF At, Started, Runs, IsA, Pending
<1>4. h.reg[r] # "WAIT"
  <2> SUFFICES ASSUME h.reg[r] = "WAIT" PROVE FALSE
    OBVIOUS
  <2>1. PICK j \in 1 .. Len(h.buf) : Runs(h, j) /\ r \in Moved(At(h, j))
    BY DEF StateOK, RegistersOK
  <2>2. i # j
    BY <2>1 DEF SetBy, Moved
  <2> QED BY <2>1, <2>2, NotApart DEF Runs, Started
<1>5. RegistersOK(g)
  <2> SUFFICES ASSUME NEW x \in HiveRegister
               PROVE  /\ g.sub[x].ready + Cardinality(Outstanding(g.sub[x])) <= nano_requests_number
                      /\ ~g.lock => g.reg[x] = "FREE"
                      /\ g.reg[x] # "WAIT" => g.sub[x] = NoSubRequests
                      /\ g.reg[x] = "WAIT" => \E j \in 1 .. Len(g.buf) : Runs(g, j) /\ x \in Moved(At(g, j))
    BY DEF RegistersOK
  <2>1. /\ h.sub[x].ready + Cardinality(Outstanding(h.sub[x])) <= nano_requests_number
        /\ h.reg[x] # "WAIT" => h.sub[x] = NoSubRequests
        /\ h.reg[x] = "WAIT" => \E j \in 1 .. Len(h.buf) : Runs(h, j) /\ x \in Moved(At(h, j))
    BY DEF StateOK, RegistersOK
  <2>2. CASE x = r
    BY <1>2, <1>4, <2>1, <2>2
  <2>3. CASE x # r
    BY <1>2, <1>3, <2>1, <2>3
  <2> QED BY <2>2, <2>3
<1>6. LoadsOK(g, t)
  <2> DEFINE s == Pending(h, t)
  <2> SUFFICES ASSUME NEW j \in DOMAIN s, NEW x \in HiveRegister,
                      s[j].op = "LOAD", x \in s[j].writes,
                      j <= Len(h.buf) => ~Started(h, j), ~SectionEnds(s, 0, j)
               PROVE  g.reg[x] = "FREE"
    BY <1>3 DEF LoadsOK
  <2>1. h.reg[x] = "FREE"
    BY DEF StateOK, LoadsOK
  <2>2. x # r
    <3> SUFFICES ASSUME x = r PROVE FALSE
      OBVIOUS
    <3>1. i # j
      BY <1>1 DEF SetBy
    <3>2. r \in Moved(s[j]) /\ RegistersApart(s)
      BY DEF Moved, StateOK, WellFormed
    <3>3. ~SectionEnds(s, i, j)
      <4>1. \A k \in DOMAIN s : i < k => 0 < k
        BY <1>1, PendingType
      <4> QED BY <4>1 DEF SectionEnds
    <3>4. ~SectionEnds(s, j, i)
      <4>1. ~SectionEnds(s, 0, i)
        BY OneSection DEF Runs, Started
      <4>2. \A k \in DOMAIN s : j < k => 0 < k
        BY <1>1, PendingType
      <4> QED BY <4>1, <4>2 DEF SectionEnds
    <3>5. i < j \/ j < i
      BY <1>1, <3>1, PendingType
    <3> HIDE DEF s
    <3> QED BY <1>1, <3>2, <3>3, <3>4, <3>5 DEF RegistersApart, s
  <2> QED BY <1>2, <2>1, <2>2
<1> QED BY <1>3, <1>5, <1>6 DEF StateOK, SectionOK, UsesOK

\* The head completes.  If it is a LOCK or an UNLOCK it changes the lock; what
\* frees the registers finds none that is being loaded or stored.
LEMMA HeadCompletes ==
  ASSUME NEW t \in Trace, NEW h, StateOK(h, t), h.buf # <<>>, Started(h, 1),
         \A r \in HiveRegister : r \in Moved(At(h, 1)) => h.reg[r] # "WAIT",
         NEW g, g \in ClockState, g.buf = Tail(h.buf), g.sub = h.sub,
         g.lock = IF IsA(h, 1, "LOCK") THEN TRUE ELSE IF IsA(h, 1, "UNLOCK") THEN FALSE ELSE h.lock,
         g.reg = IF IsA(h, 1, "UNLOCK") THEN [r \in HiveRegister |-> "FREE"] ELSE h.reg
  PROVE  /\ StateOK(g, t)
         /\ SkippedIsHead(h) => \A i, j \in 1 .. Len(g.buf) :
              i < j /\ Started(g, j) /\ IsA(g, i, "LOAD") => Runs(g, i)
<1> DEFINE n == Len(h.buf)
           s == Pending(h, t)
           u == Pending(g, t)
           m == Len(t)
<1>1. /\ n \in Nat \ {0} /\ Len(g.buf) = n - 1 /\ m \in Nat
      /\ \A j \in 1 .. n - 1 : j + 1 \in 1 .. n /\ g.buf[j] = h.buf[j + 1]
      /\ h \in ClockState /\ h.buf \in Seq(HiveEntry)
  BY PendingType DEF StateOK, ClockState
<1>2. /\ DOMAIN s = 1 .. n + m /\ DOMAIN u = 1 .. n - 1 + m
      /\ s[1] = At(h, 1) /\ 1 \in DOMAIN s
      /\ \A j \in DOMAIN u : j + 1 \in DOMAIN s /\ u[j] = s[j + 1]
  <2>1. DOMAIN s = 1 .. n + m /\ DOMAIN u = 1 .. n - 1 + m
    BY <1>1, PendingType
  <2>2. s[1] = At(h, 1) /\ 1 \in DOMAIN s
    BY <1>1, PendingType
  <2>3. ASSUME NEW j \in DOMAIN u PROVE j + 1 \in DOMAIN s /\ u[j] = s[j + 1]
    <3>1. j + 1 \in DOMAIN s
      BY <1>1, <2>1
    <3>2. CASE j <= n - 1
      <4>1. j \in 1 .. n - 1 /\ j + 1 \in 1 .. n
        BY <1>1, <2>1, <3>2
      <4>2. u[j] = At(g, j) /\ s[j + 1] = At(h, j + 1)
        BY <1>1, <4>1, PendingType
      <4> QED BY <1>1, <3>1, <4>1, <4>2 DEF At
    <3>3. CASE ~(j <= n - 1)
      <4>1. ~(j + 1 <= n) /\ j - (n - 1) = (j + 1) - n
        BY <1>1, <2>1, <3>3
      <4>2. u[j] = t[j - (n - 1)]
        BY <1>1, <2>1, <3>3 DEF Pending
      <4>3. s[j + 1] = t[(j + 1) - n]
        BY <2>1, <3>1, <4>1 DEF Pending
      <4> QED BY <3>1, <4>1, <4>2, <4>3
    <3> QED BY <3>2, <3>3
  <2> QED BY <2>1, <2>2, <2>3
<1>3. \A j \in 1 .. n - 1 :
        /\ At(g, j) = At(h, j + 1) /\ (Started(g, j) <=> Started(h, j + 1)) /\ (Runs(g, j) <=> Runs(h, j + 1))
        /\ \A op : IsA(g, j, op) <=> IsA(h, j + 1, op)
  BY <1>1 DEF At, Started, Runs, IsA
<1>4. ASSUME NEW i \in {0} \cup DOMAIN u, NEW j \in DOMAIN u, i > 0 \/ ~IsA(h, 1, "UNLOCK"),
             SectionEnds(s, IF i = 0 THEN 0 ELSE i + 1, j + 1)
      PROVE  SectionEnds(u, i, j)
  <2>1. PICK k \in DOMAIN s : (IF i = 0 THEN 0 ELSE i + 1) < k /\ k < j + 1 /\ s[k].op = "UNLOCK"
    BY <1>4 DEF SectionEnds
  <2>2. k # 1
    <3> SUFFICES ASSUME k = 1 PROVE FALSE
      OBVIOUS
    <3> QED BY <1>2, <1>4, <2>1 DEF IsA
  <2>3. k - 1 \in DOMAIN u /\ i < k - 1 /\ k - 1 < j /\ (k - 1) + 1 = k
    BY <1>1, <1>2, <2>1, <2>2
  <2>4. u[k - 1].op = "UNLOCK"
    BY <1>2, <2>1, <2>3
  <2> QED BY <2>3, <2>4 DEF SectionEnds
<1>5. ASSUME NEW j \in DOMAIN u, SectionEnds(s, 0, j + 1), ~IsA(h, 1, "UNLOCK")
      PROVE  SectionEnds(u, 0, j)
  BY <1>4, <1>5
<1>6. ASSUME NEW i \in DOMAIN u, NEW j \in DOMAIN u, SectionEnds(s, i + 1, j + 1)
      PROVE  SectionEnds(u, i, j)
  <2>1. i # 0 /\ i > 0
    BY <1>2
  <2> QED BY <1>4, <1>6, <2>1
<1> HIDE DEF s, u, n, m
<1>7. \A i \in DOMAIN s : Shaped(s[i])
  BY DEF StateOK, WellFormed, s
<1>8. WellFormed(u, g.lock)
  <2>1. \A i \in DOMAIN u : Shaped(u[i])
    BY <1>2, <1>7
  <2>2. RegistersApart(u)
    <3>1. RegistersApart(s)
      BY DEF StateOK, WellFormed, s
    <3> SUFFICES ASSUME NEW i \in DOMAIN u, NEW j \in DOMAIN u, i < j
                 PROVE  /\ u[i].op = "LOAD" /\ u[j].op = "LOAD" /\ u[i].writes = u[j].writes => SectionEnds(u, i, j)
                        /\ \A r \in HiveRegister :
                             \/ r \in SetBy(u[i]) /\ r \in Moved(u[j])
                             \/ r \in Moved(u[i]) /\ r \in SetBy(u[j])
                             => SectionEnds(u, i, j)
      BY DEF RegistersApart
    <3>2. i + 1 \in DOMAIN s /\ j + 1 \in DOMAIN s /\ i + 1 < j + 1 /\ u[i] = s[i + 1] /\ u[j] = s[j + 1]
      BY <1>1, <1>2
    <3> QED BY <1>6, <3>1, <3>2 DEF RegistersApart
  <2>3. InSections(u, g.lock)
    <3>0. InSections(s, h.lock)
      BY DEF StateOK, WellFormed, s
    <3>1. ~g.lock /\ 1 \in DOMAIN u => u[1].op = "LOCK"
      <4> SUFFICES ASSUME ~g.lock, 1 \in DOMAIN u PROVE u[1].op = "LOCK"
        OBVIOUS
      <4>1. 1 + 1 \in DOMAIN s /\ u[1] = s[1 + 1]
        BY <1>2
      <4>2. CASE IsA(h, 1, "UNLOCK")
        BY <1>2, <3>0, <4>1, <4>2 DEF InSections, IsA
      <4>3. CASE ~IsA(h, 1, "UNLOCK")
        <5>1. ~h.lock /\ ~IsA(h, 1, "LOCK")
          BY <4>3
        <5> QED BY <1>2, <3>0, <5>1 DEF InSections, IsA
      <4> QED BY <4>2, <4>3
    <3>2. \A i \in DOMAIN u : u[i].op = "UNLOCK" /\ i + 1 \in DOMAIN u => u[i + 1].op = "LOCK"
      <4> SUFFICES ASSUME NEW i \in DOMAIN u, u[i].op = "UNLOCK", i + 1 \in DOMAIN u PROVE u[i + 1].op = "LOCK"
        OBVIOUS
      <4>1. i + 1 \in DOMAIN s /\ (i + 1) + 1 \in DOMAIN s /\ u[i] = s[i + 1] /\ u[i + 1] = s[(i + 1) + 1]
        BY <1>2
      <4> QED BY <3>0, <4>1 DEF InSections
    <3>3. ASSUME NEW j \in DOMAIN u, u[j].op = "LOCK"
          PROVE  /\ g.lock => SectionEnds(u, 0, j)
                 /\ \A i \in DOMAIN u : i < j /\ u[i].op = "LOCK" => SectionEnds(u, i, j)
      <4>1. j + 1 \in DOMAIN s /\ s[j + 1].op = "LOCK" /\ 1 < j + 1
        BY <1>1, <1>2, <3>3
      <4>2. ASSUME g.lock PROVE SectionEnds(u, 0, j)
        <5>1. ~IsA(h, 1, "UNLOCK")
          BY <4>2 DEF IsA
        <5>2. SectionEnds(s, 0, j + 1)
          <6>1. CASE IsA(h, 1, "LOCK")
            <7>1. SectionEnds(s, 1, j + 1)
              BY <1>2, <3>0, <4>1, <6>1 DEF InSections, IsA
            <7>2. \A k \in DOMAIN s : 0 < k
              BY <1>1, <1>2
            <7> QED BY <7>1, <7>2 DEF SectionEnds
          <6>2. CASE ~IsA(h, 1, "LOCK")
            <7>1. h.lock
              BY <4>2, <5>1, <6>2
            <7> QED BY <3>0, <4>1, <7>1 DEF InSections
          <6> QED BY <6>1, <6>2
        <5> QED BY <1>5, <5>1, <5>2
      <4>3. ASSUME NEW i \in DOMAIN u, i < j, u[i].op = "LOCK" PROVE SectionEnds(u, i, j)
        <5>1. i + 1 \in DOMAIN s /\ s[i + 1].op = "LOCK" /\ i + 1 < j + 1
          BY <1>1, <1>2, <4>3
        <5>2. SectionEnds(s, i + 1, j + 1)
          BY <3>0, <4>1, <5>1 DEF InSections
        <5> QED BY <1>6, <5>2
      <4> QED BY <4>2, <4>3
    <3> QED BY <3>1, <3>2, <3>3 DEF InSections
  <2> QED BY <2>1, <2>2, <2>3 DEF WellFormed
\* Those that have begun are in the section of the head.
<1>9. ASSUME NEW j \in 1 .. n - 1, Started(h, j + 1) PROVE h.lock /\ ~IsA(h, 1, "LOCK") /\ ~IsA(h, 1, "UNLOCK")
  <2>1. j + 1 \in 1 .. n /\ j + 1 > 1 /\ 1 \in 1 .. j + 1
    BY <1>1
  <2> QED BY <1>9, <2>1 DEF StateOK, SectionOK, n
<1>10. RegistersOK(g)
  <2> SUFFICES ASSUME NEW r \in HiveRegister
               PROVE  /\ g.sub[r].ready + Cardinality(Outstanding(g.sub[r])) <= nano_requests_number
                      /\ ~g.lock => g.reg[r] = "FREE"
                      /\ g.reg[r] # "WAIT" => g.sub[r] = NoSubRequests
                      /\ g.reg[r] = "WAIT" => \E j \in 1 .. Len(g.buf) : Runs(g, j) /\ r \in Moved(At(g, j))
    BY DEF RegistersOK
  <2>1. /\ h.sub[r].ready + Cardinality(Outstanding(h.sub[r])) <= nano_requests_number
        /\ ~h.lock => h.reg[r] = "FREE"
        /\ h.reg[r] # "WAIT" => h.sub[r] = NoSubRequests
        /\ h.reg[r] = "WAIT" => \E j \in 1 .. Len(h.buf) : Runs(h, j) /\ r \in Moved(At(h, j))
    BY DEF StateOK, RegistersOK
  <2>2. ASSUME h.reg[r] = "WAIT"
        PROVE  ~IsA(h, 1, "UNLOCK") /\ \E j \in 1 .. Len(g.buf) : Runs(g, j) /\ r \in Moved(At(g, j))
    <3>1. PICK j \in 1 .. n : Runs(h, j) /\ r \in Moved(At(h, j))
      BY <2>1, <2>2 DEF n
    <3>2. j # 1
      BY <2>2, <3>1
    <3>3. j - 1 \in 1 .. n - 1 /\ (j - 1) + 1 = j
      BY <1>1, <3>2
    <3>4. Runs(g, j - 1) /\ r \in Moved(At(g, j - 1))
      BY <1>3, <3>1, <3>3
    <3>5. ~IsA(h, 1, "UNLOCK")
      BY <1>9, <3>1, <3>3 DEF Runs, Started
    <3> QED BY <1>1, <3>3, <3>4, <3>5
  <2>3. CASE IsA(h, 1, "UNLOCK")
    BY <2>1, <2>2, <2>3 DEF IsA
  <2>4. CASE ~IsA(h, 1, "UNLOCK")
    BY <2>1, <2>2, <2>4
  <2> QED BY <2>3, <2>4
<1>11. SectionOK(g)
  <2> SUFFICES ASSUME NEW j \in 1 .. Len(g.buf), j > 1, Started(g, j)
               PROVE  g.lock /\ \A k \in 1 .. j : ~IsA(g, k, "LOCK") /\ ~IsA(g, k, "UNLOCK")
    BY DEF SectionOK
  <2>1. j \in 1 .. n - 1 /\ Started(h, j + 1) /\ j + 1 \in 1 .. n /\ j + 1 > 1
    BY <1>1, <1>3
  <2>2. h.lock /\ \A k \in 1 .. j + 1 : ~IsA(h, k, "LOCK") /\ ~IsA(h, k, "UNLOCK")
    BY <2>1 DEF StateOK, SectionOK, n
  <2>3. g.lock
    BY <1>9, <2>1
  <2>4. \A k \in 1 .. j : k \in 1 .. n - 1 /\ k + 1 \in 1 .. j + 1
    BY <1>1, <2>1
  <2> QED BY <1>3, <2>2, <2>3, <2>4
<1>12. LoadsOK(g, t)
  <2> SUFFICES ASSUME NEW j \in DOMAIN u, NEW r \in HiveRegister,
                      u[j].op = "LOAD", r \in u[j].writes,
                      j <= Len(g.buf) => ~Started(g, j), ~SectionEnds(u, 0, j)
               PROVE  g.reg[r] = "FREE"
    BY DEF LoadsOK, u
  <2>1. CASE IsA(h, 1, "UNLOCK")
    BY <2>1
  <2>2. CASE ~IsA(h, 1, "UNLOCK")
    <3>1. j + 1 \in DOMAIN s /\ u[j] = s[j + 1] /\ ~SectionEnds(s, 0, j + 1)
      BY <1>2, <1>5, <2>2
    <3>2. j + 1 <= n => ~Started(h, j + 1)
      <4>1. j + 1 <= n => j \in 1 .. n - 1
        BY <1>1, <1>2
      <4> QED BY <1>1, <1>3, <4>1
    <3>3. h.reg[r] = "FREE"
      BY <3>1, <3>2 DEF StateOK, LoadsOK, s, n
    <3> QED BY <2>2, <3>3
  <2> QED BY <2>1, <2>2
<1>13. UsesOK(g)
  <2>1. ASSUME NEW i \in 1 .. n - 1, NEW j \in 1 .. n - 1, i < j, Runs(g, j),
               IsA(g, j, "ALU") \/ IsA(g, j, "STORE"), IsA(g, i, "LOAD"),
               NEW r \in HiveRegister, r \in At(g, i).writes, r \in At(g, j).reads
        PROVE  Runs(g, i) /\ g.sub[r].op # "READ"
    <3>1. i + 1 \in 1 .. n /\ j + 1 \in 1 .. n /\ i + 1 < j + 1
      BY <1>1, <2>1
    <3> QED BY <1>3, <2>1, <3>1 DEF StateOK, UsesOK, n
  <2>2. ASSUME NEW j \in 1 .. n - 1, g.buf[j].status = "TRANSMIT" PROVE IsA(g, j, "ALU")
    BY <1>1, <1>3, <2>2 DEF StateOK, UsesOK, n
  <2> QED BY <1>1, <2>1, <2>2 DEF UsesOK
<1>14. Len(g.buf) <= HIVE_BUFFER
  BY <1>1, HiveAssumption DEF StateOK, n
<1>15. ASSUME SkippedIsHead(h), NEW i \in 1 .. Len(g.buf), NEW j \in 1 .. Len(g.buf),
              i < j, Started(g, j), IsA(g, i, "LOAD")
       PROVE  Runs(g, i)
  <2>1. /\ i \in 1 .. n - 1 /\ j \in 1 .. n - 1
        /\ i + 1 \in 1 .. n /\ j + 1 \in 1 .. n /\ i + 1 < j + 1 /\ i + 1 # 1
    BY <1>1, <1>15
  <2> QED BY <1>3, <1>15, <2>1 DEF SkippedIsHead, n
<1> QED BY <1>8, <1>10, <1>11, <1>12, <1>13, <1>14, <1>15 DEF StateOK, u

-----------------------------------------------------------------------------
(* HIVE: the walk                                                          *)

\* Before position k of the walk: what the walk is still to meet began after
\* the LOADs older than it, and no LOCK or UNLOCK was passed.
Walking(h, t, k) ==
  /\ StateOK(h, t) /\ SkippedIsHead(h)
  /\ k > 1 => \A i, j \in 1 .. Len(h.buf) :
       i < j /\ k <= j /\ Started(h, j) /\ IsA(h, i, "LOAD") => Runs(h, i)
  /\ k > 1 /\ ~h.ended => \A i \in 1 .. Len(h.buf) : 1 < i /\ i < k =>
       ~IsA(h, i, "LOCK") /\ ~IsA(h, i, "UNLOCK") /\ (h.lock /\ IsA(h, i, "LOAD") => Runs(h, i))

\* The walk meets the instructions of the head's section.
LEMMA InHeadSection ==
  ASSUME NEW t \in Trace, NEW h, NEW k \in 1 .. Len(h.buf), Walking(h, t, k), ~h.ended, h.lock,
         k = 1 \/ (~IsA(h, k, "LOCK") /\ ~IsA(h, k, "UNLOCK"))
  PROVE  /\ k = 1 \/ \A j \in 1 .. k : ~IsA(h, j, "LOCK") /\ ~IsA(h, j, "UNLOCK")
         /\ \A j \in 1 .. k : ~SectionEnds(Pending(h, t), 0, j)
<1> DEFINE s == Pending(h, t)
<1>1. /\ Len(h.buf) \in Nat /\ DOMAIN s \subseteq Nat \ {0} /\ InSections(s, h.lock)
      /\ \A j \in 1 .. Len(h.buf) : j \in DOMAIN s /\ s[j] = At(h, j)
  <2>1. DOMAIN s = 1 .. Len(h.buf) + Len(t) /\ Len(h.buf) \in Nat /\ Len(t) \in Nat
    BY PendingType DEF Walking, StateOK
  <2> QED BY <2>1, PendingType DEF Walking, StateOK, WellFormed
<1> HIDE DEF s
<1>2. ASSUME k # 1, NEW j \in 1 .. k PROVE ~IsA(h, j, "LOCK") /\ ~IsA(h, j, "UNLOCK")
  <2>1. j \in 1 .. Len(h.buf) /\ k > 1
    BY <1>1, <1>2
  <2>2. CASE j > 1 /\ j < k
    BY <2>1, <2>2 DEF Walking
  <2>3. CASE j = k
    BY <1>2, <2>3
  <2>4. CASE j = 1
    <3>1. ~IsA(h, 1, "LOCK")
      <4>1. ~SectionEnds(s, 0, 1)
        BY <1>1 DEF SectionEnds
      <4> QED BY <1>1, <2>1, <2>4, <4>1 DEF InSections, IsA
    <3>2. ~IsA(h, 1, "UNLOCK")
      <4>1. 1 + 1 \in 1 .. Len(h.buf) /\ (1 + 1 = k \/ (1 + 1 > 1 /\ 1 + 1 < k))
        BY <1>1, <2>1
      <4>2. ~IsA(h, 1 + 1, "LOCK")
        BY <1>2, <2>1, <4>1 DEF Walking
      <4> QED BY <1>1, <2>1, <2>4, <4>1, <4>2 DEF InSections, IsA
    <3> QED BY <2>4, <3>1, <3>2
  <2> QED BY <1>1, <2>2, <2>3, <2>4
<1>3. ASSUME NEW j \in 1 .. k PROVE ~SectionEnds(s, 0, j)
  <2>1. CASE k = 1
    <3>1. j = 1
      BY <2>1
    <3> QED BY <1>1, <3>1 DEF SectionEnds
  <2>2. CASE k # 1
    <3> SUFFICES ASSUME NEW i \in DOMAIN s, 0 < i, i < j, s[i].op = "UNLOCK" PROVE FALSE
      BY DEF SectionEnds
    <3>1. i \in 1 .. k /\ i \in 1 .. Len(h.buf)
      BY <1>1
    <3> QED BY <1>1, <1>2, <2>2, <3>1 DEF IsA
  <2> QED BY <2>1, <2>2
<1> QED BY <1>2, <1>3 DEF s

\* The walk passes an instruction that stays.
LEMMA WalksOn ==
  ASSUME NEW t \in Trace, NEW h, NEW k \in 1 .. Len(h.buf), Walking(h, t, k), ~h.ended,
         k = 1 \/ (~IsA(h, k, "LOCK") /\ ~IsA(h, k, "UNLOCK")),
         NEW g, StateOK(g, t), SameBuffer(h, g, k),
         Started(h, k) => Started(g, k), Runs(h, k) => Runs(g, k),
         Started(g, k) /\ ~Started(h, k) => k = 1 \/ h.lock,
         h.lock /\ IsA(h, k, "LOAD") => Runs(g, k)
  PROVE  Walking(g, t, k + 1)
<1>1. /\ Len(g.buf) = Len(h.buf) /\ Len(h.buf) \in Nat /\ g.lock = h.lock /\ g.ended = h.ended
      /\ \A j \in 1 .. Len(h.buf) : j # k => (Started(g, j) <=> Started(h, j)) /\ (Runs(g, j) <=> Runs(h, j))
      /\ \A j \in 1 .. Len(h.buf) : \A op : IsA(g, j, op) <=> IsA(h, j, op)
  BY PendingType DEF SameBuffer, Started, Runs, IsA, Walking, StateOK
<1>2. \A j \in 1 .. Len(h.buf) : Runs(h, j) => Runs(g, j)
  BY <1>1
<1>3. ASSUME NEW i \in 1 .. Len(h.buf), NEW j \in 1 .. Len(h.buf), i < j, Started(h, j),
             IsA(h, i, "LOAD"), k = 1 \/ k <= j
      PROVE  Runs(g, i)
  <2>1. CASE k = 1
    <3>1. CASE Runs(h, i)
      BY <1>2, <3>1
    <3>2. CASE ~Runs(h, i)
      <4>1. i = 1
        BY <1>3, <3>2 DEF Walking, SkippedIsHead
      <4>2. h.lock
        <5>1. j > 1
          BY <1>3, <4>1
        <5> QED BY <1>3, <5>1 DEF Walking, StateOK, SectionOK
      <4> QED BY <1>3, <2>1, <4>1, <4>2
    <3> QED BY <3>1, <3>2
  <2>2. CASE k # 1
    <3>1. k > 1
      BY <2>2
    <3>2. Runs(h, i)
      BY <1>3, <2>2, <3>1 DEF Walking
    <3> QED BY <1>2, <3>2
  <2> QED BY <2>1, <2>2
<1>4. SkippedIsHead(g)
  <2> SUFFICES ASSUME NEW i \in 1 .. Len(h.buf), NEW j \in 1 .. Len(h.buf), i < j, Started(g, j), IsA(h, i, "LOAD"),
                      i # 1
               PROVE  Runs(g, i)
    BY <1>1 DEF SkippedIsHead
  <2>1. CASE Started(h, j)
    BY <1>2, <2>1 DEF Walking, SkippedIsHead
  <2>2. CASE ~Started(h, j)
    <3>1. j = k /\ k # 1 /\ h.lock /\ k > 1 /\ 1 < i /\ i < k
      BY <1>1, <2>2
    <3>2. Runs(h, i)
      BY <3>1 DEF Walking
    <3> QED BY <1>2, <3>2
  <2> QED BY <2>1, <2>2
<1>5. ASSUME NEW i \in 1 .. Len(h.buf), NEW j \in 1 .. Len(h.buf), i < j, k + 1 <= j, Started(g, j), IsA(h, i, "LOAD")
      PROVE  Runs(g, i)
  <2>1. j # k /\ k <= j
    BY <1>1, <1>5
  <2>2. Started(h, j)
    BY <1>1, <1>5, <2>1
  <2> QED BY <1>3, <1>5, <2>1, <2>2
<1>6. ASSUME NEW i \in 1 .. Len(h.buf), 1 < i, i < k + 1
      PROVE  ~IsA(h, i, "LOCK") /\ ~IsA(h, i, "UNLOCK") /\ (h.lock /\ IsA(h, i, "LOAD") => Runs(g, i))
  <2>1. CASE i = k
    BY <1>6, <2>1
  <2>2. CASE i # k
    <3>1. i < k /\ k > 1
      BY <1>6, <2>2
    <3> QED BY <1>2, <1>6, <3>1 DEF Walking
  <2> QED BY <2>1, <2>2
<1> QED BY <1>1, <1>4, <1>5, <1>6 DEF Walking

-----------------------------------------------------------------------------
(* HIVE: the walk treats an instruction                                    *)

\* The walk is at instruction k and treats it.
Treats(h, t, k) ==
  /\ Walking(h, t, k) /\ ~h.ended /\ k \in 1 .. Len(h.buf)
  /\ k = 1 \/ (~IsA(h, k, "LOCK") /\ ~IsA(h, k, "UNLOCK"))

LEMMA OneOperand ==
  ASSUME NEW r
  PROVE  Operand({r}) = r
BY DEF Operand

\* The sub-requests of register r are sent.
Sent(sub, r, op) == [sub EXCEPT ![r].op = op, ![r].status = [k \in Nano |-> "TRANSMIT"]]

LEMMA SetSubType ==
  ASSUME NEW h \in ClockState, NEW r \in HiveRegister, NEW op \in {"READ", "WRITE"},
         NEW g, g = set_sub_requests(h, r, op)
  PROVE  /\ g \in ClockState /\ g.buf = h.buf /\ g.lock = h.lock /\ g.ended = h.ended /\ g.reg = h.reg
         /\ g.sub = Sent(h.sub, r, op)
<1> DEFINE s == [k \in Nano |-> "TRANSMIT"]
           u1 == [h.sub EXCEPT ![r].op = op]
           u == [u1 EXCEPT ![r].status = s]
           g1 == [h EXCEPT !.sub = u1]
<1>1. h.sub \in [HiveRegister -> SubRequests] /\ s \in [Nano -> {"FREE", "TRANSMIT", "WAIT"}]
  BY DEF ClockState
<1>2. u1 \in [HiveRegister -> SubRequests]
  <2>1. [h.sub[r] EXCEPT !.op = op] \in SubRequests
    BY <1>1 DEF SubRequests
  <2> QED BY <1>1, <2>1
<1>3. u \in [HiveRegister -> SubRequests]
  <2>1. [u1[r] EXCEPT !.status = s] \in SubRequests
    <3> HIDE DEF u1, s
    <3> QED BY <1>1, <1>2 DEF SubRequests
  <2> HIDE DEF u1, s
  <2> QED BY <1>2, <2>1
<1>4. g1.sub = u1
  BY DEF ClockState
<1>5. g = [g1 EXCEPT !.sub = [g1.sub EXCEPT ![r].status = s]]
  BY Zenon DEF set_sub_requests
<1>6. g = [h EXCEPT !.sub = u]
  <2>1. g = [g1 EXCEPT !.sub = u]
    <3> HIDE DEF u1, g1
    <3> QED BY <1>4, <1>5
  <2>2. [g1 EXCEPT !.sub = u] = [h EXCEPT !.sub = u]
    <3> HIDE DEF u1, u
    <3> QED BY DEF ClockState
  <2> HIDE DEF u1, u, g1
  <2> QED BY <2>1, <2>2
<1>7. u = Sent(h.sub, r, op)
  BY Zenon DEF Sent
<1> HIDE DEF u, u1, g1
<1>8. /\ g \in ClockState /\ g.buf = h.buf /\ g.lock = h.lock /\ g.ended = h.ended
      /\ g.reg = h.reg /\ g.sub = u
  BY <1>3, <1>6 DEF ClockState
<1> QED BY <1>7, <1>8

LEMMA SetRegType ==
  ASSUME NEW h \in ClockState, NEW r \in HiveRegister, NEW state \in {"FREE", "WAIT", "READY"}
  PROVE  LET g == [h EXCEPT !.reg[r] = state]
         IN /\ g \in ClockState /\ g.buf = h.buf /\ g.lock = h.lock /\ g.ended = h.ended /\ g.sub = h.sub
            /\ g.reg = [h.reg EXCEPT ![r] = state]
<1> DEFINE x == [h.reg EXCEPT ![r] = state]
<1>1. x \in [HiveRegister -> {"FREE", "WAIT", "READY"}]
  BY DEF ClockState
<1> HIDE DEF x
<1>2. LET g == [h EXCEPT !.reg = x]
      IN /\ g \in ClockState /\ g.buf = h.buf /\ g.lock = h.lock /\ g.ended = h.ended /\ g.sub = h.sub
         /\ g.reg = x
  BY <1>1 DEF ClockState
<1> QED BY <1>2, Zenon DEF x

LEMMA SameUnchanged ==
  ASSUME NEW h \in ClockState, NEW g \in ClockState, g.buf = h.buf, g.lock = h.lock, g.ended = h.ended, NEW k
  PROVE  SameBuffer(h, g, k)
BY DEF SameBuffer, At

\* What is used of an instruction that the walk treats.
LEMMA TreatedFacts ==
  ASSUME NEW t \in Trace, NEW h, NEW k, Treats(h, t, k)
  PROVE  /\ StateOK(h, t) /\ h \in ClockState /\ Len(h.buf) \in Nat /\ k \in 1 .. Len(h.buf)
         /\ k \in DOMAIN Pending(h, t) /\ Pending(h, t)[k] = At(h, k)
         /\ h.buf[k] \in HiveEntry /\ At(h, k) \in hive_instruction_t /\ Shaped(At(h, k))
         /\ h.lock => k = 1 \/ \A j \in 1 .. k : ~IsA(h, j, "LOCK") /\ ~IsA(h, j, "UNLOCK")
         /\ h.lock => \A j \in 1 .. k : ~SectionEnds(Pending(h, t), 0, j)
         /\ Started(h, k) /\ ~IsA(h, k, "ALU") => Runs(h, k)
         /\ Started(h, k) => k = 1 \/ h.lock
         /\ k = 1 /\ ~h.lock => IsA(h, k, "LOCK")
         /\ k = 1 /\ h.lock => ~IsA(h, k, "LOCK")
<1>1. StateOK(h, t) /\ h \in ClockState /\ k \in 1 .. Len(h.buf) /\ Len(h.buf) \in Nat
  BY PendingType DEF Treats, Walking, StateOK
<1>2. /\ k \in DOMAIN Pending(h, t) /\ Pending(h, t)[k] = At(h, k)
      /\ h.buf[k] \in HiveEntry /\ At(h, k) \in hive_instruction_t
  BY <1>1, PendingType
<1>3. Shaped(At(h, k)) /\ InSections(Pending(h, t), h.lock)
  BY <1>1, <1>2 DEF StateOK, WellFormed
<1>4. /\ h.lock => k = 1 \/ \A j \in 1 .. k : ~IsA(h, j, "LOCK") /\ ~IsA(h, j, "UNLOCK")
      /\ h.lock => \A j \in 1 .. k : ~SectionEnds(Pending(h, t), 0, j)
  BY <1>1, InHeadSection DEF Treats
<1>5. Started(h, k) /\ ~IsA(h, k, "ALU") => Runs(h, k)
  BY <1>1, <1>2 DEF StateOK, UsesOK, Started, Runs, HiveEntry
<1>6. Started(h, k) => k = 1 \/ h.lock
  BY <1>1 DEF StateOK, SectionOK
<1>7. k = 1 /\ ~h.lock => IsA(h, k, "LOCK")
  BY <1>2, <1>3 DEF InSections, IsA
<1>8. k = 1 /\ h.lock => ~IsA(h, k, "LOCK")
  <2>1. ~SectionEnds(Pending(h, t), 0, 1)
    BY <1>1, OneSection
  <2> QED BY <1>2, <1>3, <2>1 DEF InSections, IsA
<1> QED BY <1>1, <1>2, <1>3, <1>4, <1>5, <1>6, <1>7, <1>8

\* The head completes while the walk is at it.
LEMMA HeadGoes ==
  ASSUME NEW t \in Trace, NEW h, StateOK(h, t), SkippedIsHead(h), h.buf # <<>>, Started(h, 1),
         \A r \in HiveRegister : r \in Moved(At(h, 1)) => h.reg[r] # "WAIT",
         NEW g, g \in ClockState, g.buf = Tail(h.buf), g.sub = h.sub,
         g.lock = IF IsA(h, 1, "LOCK") THEN TRUE ELSE IF IsA(h, 1, "UNLOCK") THEN FALSE ELSE h.lock,
         g.reg = IF IsA(h, 1, "UNLOCK") THEN [r \in HiveRegister |-> "FREE"] ELSE h.reg
  PROVE  Walking(g, t, 1 + 1)
<1>1. StateOK(g, t) /\ \A i, j \in 1 .. Len(g.buf) : i < j /\ Started(g, j) /\ IsA(g, i, "LOAD") => Runs(g, i)
  BY HeadCompletes
<1>2. \A i \in 1 .. Len(g.buf) : ~(1 < i /\ i < 1 + 1)
  <2>1. Len(g.buf) \in Nat
    BY PendingType DEF StateOK
  <2> QED BY <2>1
<1> QED BY <1>1, <1>2 DEF Walking, SkippedIsHead

\* An instruction that is treated without effect.
LEMMA StaysAsItIs ==
  ASSUME NEW t \in Trace, NEW h, NEW k, Treats(h, t, k), h.lock /\ IsA(h, k, "LOAD") => Runs(h, k)
  PROVE  Walking(h, t, k + 1)
<1>1. SameBuffer(h, h, k) /\ StateOK(h, t) /\ (Started(h, k) => k = 1 \/ h.lock)
  BY TreatedFacts, SameUnchanged
<1> QED BY <1>1, WalksOn DEF Treats

\* The operands of an ALU instruction are not being loaded or stored.
LEMMA TransmitWalks ==
  ASSUME NEW t \in Trace, NEW h, NEW k, Treats(h, t, k), h.buf[k].status = "TRANSMIT"
  PROVE  Walking(check_transmit(h, k), t, k + 1)
<1>1. /\ StateOK(h, t) /\ h \in ClockState /\ Len(h.buf) \in Nat /\ k \in 1 .. Len(h.buf)
      /\ IsA(h, k, "ALU") /\ Started(h, k) /\ ~IsA(h, k, "LOAD")
  BY TreatedFacts DEF StateOK, UsesOK, Started, IsA
<1>2. CASE ~ \A r \in At(h, k).reads : h.reg[r] \in {"READY", "FREE"}
  <2>1. check_transmit(h, k) = h
    BY <1>2 DEF check_transmit
  <2> QED BY <1>1, <2>1, StaysAsItIs
<1>3. CASE \A r \in At(h, k).reads : h.reg[r] \in {"READY", "FREE"}
  <2> DEFINE g == Updated(h, k, "HIVE", hive_op_latency)
  <2>1. check_transmit(h, k) = g
    BY <1>3 DEF check_transmit
  <2>2. /\ SameBuffer(h, g, k) /\ g.buf[k].status = "HIVE" /\ g.reg = h.reg /\ g.sub = h.sub
    <3>1. hive_op_latency \in 0 .. hive_op_latency
      BY HiveAssumption
    <3>2. g = Updated(h, k, "HIVE", hive_op_latency)
      OBVIOUS
    <3>3. "HIVE" \in {"TRANSMIT", "HIVE"}
      OBVIOUS
    <3> HIDE DEF g
    <3> QED BY <1>1, <3>1, <3>2, <3>3, UpdatedType
  <2> HIDE DEF g
  <2>3. ASSUME NEW j \in 1 .. k - 1, NEW r \in HiveRegister, IsA(h, j, "LOAD"),
               r \in At(h, j).writes, r \in At(h, k).reads
        PROVE  Runs(h, j) /\ h.sub[r].op # "READ"
    <3>1. j \in 1 .. Len(h.buf) /\ j < k /\ k > 1 /\ k <= k
      BY <1>1
    <3>2. Runs(h, j)
      BY <1>1, <2>3, <3>1 DEF Treats, Walking
    <3>3. h.sub[r] = NoSubRequests
      <4>1. h.reg[r] # "WAIT"
        BY <1>3, <2>3
      <4> QED BY <1>1, <4>1 DEF StateOK, RegistersOK
    <3> QED BY <3>2, <3>3 DEF NoSubRequests
  <2>4. Runs(g, k) /\ Started(g, k)
    BY <2>2 DEF Runs, Started
  <2>5. k = 1 \/ (h.lock /\ \A j \in 1 .. k : ~IsA(h, j, "LOCK") /\ ~IsA(h, j, "UNLOCK"))
    BY <1>1, TreatedFacts
  <2>6. StateOK(g, t)
    BY <1>1, <2>2, <2>3, <2>4, <2>5, GoesOn
  <2>7. k = 1 \/ (~IsA(h, k, "LOCK") /\ ~IsA(h, k, "UNLOCK"))
    BY DEF Treats
  <2> QED BY <1>1, <2>1, <2>2, <2>4, <2>6, <2>7, WalksOn DEF Treats
<1> QED BY <1>2, <1>3

\* An instruction completes at the head, and stays elsewhere.
LEMMA ReadyWalks ==
  ASSUME NEW t \in Trace, NEW h, NEW k, Treats(h, t, k), Runs(h, k),
         \A r \in HiveRegister : r \in Moved(At(h, k)) => h.reg[r] # "WAIT",
         ~IsA(h, k, "LOCK"), ~IsA(h, k, "UNLOCK")
  PROVE  Walking(hive_ready(h, k), t, k + 1)
<1>1. CASE k = 1
  <2> DEFINE g == [h EXCEPT !.buf = Tail(@)]
  <2>1. hive_ready(h, k) = g
    BY <1>1 DEF hive_ready
  <2>2. h \in ClockState /\ h.buf # <<>> /\ h.buf \in Seq(HiveEntry)
    BY TreatedFacts DEF ClockState
  <2>3. Tail(h.buf) \in Seq(HiveEntry)
    BY <2>2
  <2>4. g \in ClockState /\ g.buf = Tail(h.buf) /\ g.sub = h.sub /\ g.lock = h.lock /\ g.reg = h.reg
    BY <2>2, <2>3 DEF ClockState
  <2> HIDE DEF g
  <2>5. Started(h, 1) /\ SkippedIsHead(h) /\ StateOK(h, t)
    BY <1>1, TreatedFacts DEF Treats, Walking, Started, Runs
  <2> QED BY <1>1, <2>1, <2>2, <2>4, <2>5, HeadGoes
<1>2. CASE k # 1
  <2>1. hive_ready(h, k) = h
    BY <1>2 DEF hive_ready
  <2> QED BY <2>1, StaysAsItIs
<1> QED BY <1>1, <1>2

LEMMA TreatsSame ==
  ASSUME NEW t \in Trace, NEW h, NEW k, Treats(h, t, k),
         NEW g, StateOK(g, t), g.buf = h.buf, g.lock = h.lock, g.ended = h.ended
  PROVE  Treats(g, t, k) /\ (Runs(h, k) => Runs(g, k)) /\ At(g, k) = At(h, k)
<1>1. /\ \A j : At(g, j) = At(h, j)
      /\ \A j : (Started(g, j) <=> Started(h, j)) /\ (Runs(g, j) <=> Runs(h, j))
      /\ \A j, o : IsA(g, j, o) <=> IsA(h, j, o)
  BY DEF At, Started, Runs, IsA
<1>2. SkippedIsHead(g)
  BY <1>1 DEF Treats, Walking, SkippedIsHead
<1>3. /\ k > 1 => \A i, j \in 1 .. Len(g.buf) :
           i < j /\ k <= j /\ Started(g, j) /\ IsA(g, i, "LOAD") => Runs(g, i)
      /\ k > 1 /\ ~g.ended => \A i \in 1 .. Len(g.buf) : 1 < i /\ i < k =>
           ~IsA(g, i, "LOCK") /\ ~IsA(g, i, "UNLOCK") /\ (g.lock /\ IsA(g, i, "LOAD") => Runs(g, i))
  BY <1>1 DEF Treats, Walking
<1>4. Walking(g, t, k)
  BY <1>2, <1>3 DEF Walking
<1> QED BY <1>1, <1>4 DEF Treats

\* A LOCK or an UNLOCK completes.
LEMMA SectionWalks ==
  ASSUME NEW t \in Trace, NEW h, NEW k, Treats(h, t, k), Runs(h, k),
         NEW m, m \in ClockState, m.buf = h.buf, m.sub = h.sub,
         \/ IsA(h, k, "LOCK") /\ m.lock = TRUE /\ m.reg = h.reg
         \/ IsA(h, k, "UNLOCK") /\ m.lock = FALSE /\ m.reg = [r \in HiveRegister |-> "FREE"]
  PROVE  Walking(hive_ready(m, k), t, k + 1)
<1>1. k = 1
  BY DEF Treats
<1> DEFINE g == [m EXCEPT !.buf = Tail(@)]
<1>2. hive_ready(m, k) = g
  BY <1>1 DEF hive_ready
<1>3. h \in ClockState /\ h.buf # <<>> /\ h.buf \in Seq(HiveEntry)
  BY TreatedFacts DEF ClockState
<1>4. Tail(h.buf) \in Seq(HiveEntry)
  BY <1>3
<1>5. g \in ClockState /\ g.buf = Tail(h.buf) /\ g.sub = h.sub /\ g.lock = m.lock /\ g.reg = m.reg
  BY <1>3, <1>4 DEF ClockState
<1> HIDE DEF g
<1>6. Started(h, 1) /\ SkippedIsHead(h) /\ StateOK(h, t)
  BY <1>1, TreatedFacts DEF Treats, Walking, Started, Runs
<1>7. \A r \in HiveRegister : r \notin Moved(At(h, 1))
  BY <1>1 DEF Moved, IsA
<1>8. g.lock = IF IsA(h, 1, "LOCK") THEN TRUE ELSE IF IsA(h, 1, "UNLOCK") THEN FALSE ELSE h.lock
  BY <1>1, <1>5 DEF IsA
<1>9. g.reg = IF IsA(h, 1, "UNLOCK") THEN [r \in HiveRegister |-> "FREE"] ELSE h.reg
  BY <1>1, <1>5 DEF IsA
<1> QED BY <1>1, <1>2, <1>3, <1>5, <1>6, <1>7, <1>8, <1>9, HeadGoes

LEMMA WaitWalks ==
  ASSUME NEW t \in Trace, NEW h, NEW k, Treats(h, t, k), Runs(h, k)
  PROVE  Walking(check_wait(h, k), t, k + 1)
<1> DEFINE n == At(h, k)
<1>1. /\ StateOK(h, t) /\ h \in ClockState /\ k \in 1 .. Len(h.buf)
      /\ n \in hive_instruction_t /\ Shaped(n)
  BY TreatedFacts
<1>2. CASE h.buf[k].left # 0
  <2>1. check_wait(h, k) = h
    BY <1>2 DEF check_wait
  <2> QED BY <2>1, StaysAsItIs
<1>3. CASE h.buf[k].left = 0 /\ n.op = "UNLOCK"
  <2> DEFINE F == [r \in HiveRegister |-> "FREE"]
             m == [h EXCEPT !.lock = FALSE, !.reg = F]
  <2>1. check_wait(h, k) = hive_ready(m, k)
    BY <1>3 DEF check_wait
  <2>2. F \in [HiveRegister -> {"FREE", "WAIT", "READY"}]
    OBVIOUS
  <2>3. m \in ClockState /\ m.buf = h.buf /\ m.lock = FALSE /\ m.reg = F /\ m.sub = h.sub
    <3> HIDE DEF F
    <3> QED BY <1>1, <2>2 DEF ClockState
  <2>4. IsA(h, k, "UNLOCK")
    BY <1>3 DEF IsA
  <2> HIDE DEF m
  <2>5. m.reg = [r \in HiveRegister |-> "FREE"]
    BY <2>3
  <2> HIDE DEF F
  <2> QED BY <2>1, <2>3, <2>4, <2>5, SectionWalks
<1>4. CASE h.buf[k].left = 0 /\ n.op = "LOCK"
  <2> DEFINE m == [h EXCEPT !.lock = TRUE]
  <2>1. check_wait(h, k) = hive_ready(m, k)
    BY <1>4 DEF check_wait
  <2>2. /\ m \in ClockState /\ m.buf = h.buf /\ m.lock = TRUE /\ m.reg = h.reg /\ m.sub = h.sub
    BY <1>1 DEF ClockState
  <2>3. IsA(h, k, "LOCK")
    BY <1>4 DEF IsA
  <2> HIDE DEF m
  <2> QED BY <2>1, <2>2, <2>3, SectionWalks
<1>5. CASE h.buf[k].left = 0 /\ n.op = "ALU" /\ n.reads = {}
  <2>1. PICK w \in HiveRegister : n.writes = {w}
    BY <1>1, <1>5 DEF Shaped
  <2> DEFINE m == [h EXCEPT !.reg[w] = "READY"]
  <2>2. check_wait(h, k) = hive_ready(m, k)
    <3>1. Operand(n.writes) = w
      BY <2>1, OneOperand
    <3> QED BY <1>5, <3>1, Zenon DEF check_wait
  <2>3. /\ m \in ClockState /\ m.buf = h.buf /\ m.lock = h.lock /\ m.ended = h.ended /\ m.sub = h.sub
        /\ m.reg = [h.reg EXCEPT ![w] = "READY"]
    BY <1>1, SetRegType
  <2> HIDE DEF m
  <2>4. h.lock /\ w \in SetBy(n)
    BY <1>5, <2>1, TreatedFacts DEF SetBy, IsA, Started, Runs
  <2>5. StateOK(m, t)
    BY <1>1, <2>3, <2>4, IsSet
  <2>6. Treats(m, t, k) /\ Runs(m, k) /\ At(m, k) = n
    BY <2>3, <2>5, TreatsSame
  <2>7. Moved(At(m, k)) = {} /\ ~IsA(m, k, "LOCK") /\ ~IsA(m, k, "UNLOCK")
    BY <1>5, <2>6 DEF Moved, IsA
  <2> QED BY <2>2, <2>6, <2>7, ReadyWalks
<1>6. CASE h.buf[k].left = 0 /\ n.op = "ALU" /\ n.reads # {}
  <2>1. check_wait(h, k) = hive_ready(h, k)
    BY <1>6 DEF check_wait
  <2>2. Moved(n) = {} /\ ~IsA(h, k, "LOCK") /\ ~IsA(h, k, "UNLOCK")
    BY <1>6 DEF Moved, IsA
  <2> QED BY <2>1, <2>2, ReadyWalks
<1>7. CASE h.buf[k].left = 0 /\ (n.op = "LOAD" \/ n.op = "STORE")
  <2> DEFINE S == IF n.op = "LOAD" THEN n.writes ELSE n.reads
  <2>1. PICK w \in HiveRegister : S = {w}
    BY <1>1, <1>7 DEF Shaped
  <2>2. Operand(S) = w
    BY <2>1, OneOperand
  <2>3. CASE h.reg[w] = "READY"
    <3>1. check_wait(h, k) = hive_ready(h, k)
      BY <1>7, <2>2, <2>3 DEF check_wait
    <3>2. /\ \A r \in HiveRegister : r \in Moved(n) => r = w
          /\ ~IsA(h, k, "LOCK") /\ ~IsA(h, k, "UNLOCK")
      BY <1>7, <2>1 DEF Moved, IsA
    <3>3. \A r \in HiveRegister : r \in Moved(n) => h.reg[r] # "WAIT"
      BY <2>3, <3>2
    <3> QED BY <3>1, <3>2, <3>3, ReadyWalks
  <2>4. CASE h.reg[w] # "READY"
    <3>1. check_wait(h, k) = h
      BY <1>7, <2>2, <2>4 DEF check_wait
    <3> QED BY <3>1, StaysAsItIs
  <2> QED BY <2>3, <2>4
<1>8. n.op \in {"LOCK", "UNLOCK", "ALU", "LOAD", "STORE"}
  BY <1>1 DEF hive_instruction_t
<1> QED BY <1>2, <1>3, <1>4, <1>5, <1>6, <1>7, <1>8

\* Instruction k is dispatched: g is the state with nothing but its own changed.
LEMMA DispatchUpdates ==
  ASSUME NEW t \in Trace, NEW h, NEW k, Treats(h, t, k), ~Started(h, k), k = 1 \/ h.lock,
         NEW status \in {"TRANSMIT", "HIVE"}, NEW latency \in 0 .. hive_op_latency,
         status = "TRANSMIT" => IsA(h, k, "ALU"),
         status = "HIVE" /\ (IsA(h, k, "ALU") \/ IsA(h, k, "STORE")) =>
           \A j \in 1 .. k - 1, r \in HiveRegister :
             IsA(h, j, "LOAD") /\ r \in At(h, j).writes /\ r \in At(h, k).reads =>
               Runs(h, j) /\ h.sub[r].op # "READ",
         NEW g, g = Updated(h, k, status, latency)
  PROVE  /\ StateOK(g, t) /\ SameBuffer(h, g, k) /\ g.reg = h.reg /\ g.sub = h.sub
         /\ g.buf = Marked(h.buf, k, status, latency) /\ g.buf[k].status = status
<1>1. StateOK(h, t) /\ h \in ClockState /\ k \in 1 .. Len(h.buf)
  BY TreatedFacts
<1>2. /\ SameBuffer(h, g, k) /\ g.buf[k].status = status /\ g.reg = h.reg /\ g.sub = h.sub
      /\ g.buf = Marked(h.buf, k, status, latency)
  BY <1>1, UpdatedType
<1>3. k = 1 \/ (h.lock /\ \A j \in 1 .. k : ~IsA(h, j, "LOCK") /\ ~IsA(h, j, "UNLOCK"))
  BY TreatedFacts
<1>4. Runs(g, k) <=> status = "HIVE"
  BY <1>2 DEF Runs
<1>5. StateOK(g, t)
  BY <1>1, <1>2, <1>3, <1>4, GoesOn
<1> QED BY <1>2, <1>5

\* A dispatched instruction is passed.
LEMMA DispatchedWalks ==
  ASSUME NEW t \in Trace, NEW h, NEW k, Treats(h, t, k), ~Started(h, k), k = 1 \/ h.lock,
         NEW g, StateOK(g, t), SameBuffer(h, g, k), h.lock /\ IsA(h, k, "LOAD") => Runs(g, k)
  PROVE  Walking(g, t, k + 1)
<1>1. ~Runs(h, k)
  BY DEF Runs, Started
<1> QED BY <1>1, WalksOn DEF Treats

\* A LOAD or STORE marks its register and sends the sub-requests of it.
LEMMA DispatchedMoves ==
  ASSUME NEW t \in Trace, NEW h, NEW k, Treats(h, t, k), ~Started(h, k), h.lock,
         NEW r \in HiveRegister, r \in Moved(At(h, k)),
         NEW op, IF IsA(h, k, "LOAD") THEN op = "READ" /\ h.reg[r] = "FREE"
                                       ELSE op = "WRITE" /\ h.reg[r] = "READY",
         NEW m, StateOK(m, t), SameBuffer(h, m, k), m.reg = h.reg, m.sub = h.sub, Runs(m, k),
         m.buf = Marked(h.buf, k, "HIVE", 0)
  PROVE  Walking(set_sub_requests(Updated(Busy(h, r), k, "HIVE", 0), r, op), t, k + 1)
<1> DEFINE b == Busy(h, r)
           u == Updated(b, k, "HIVE", 0)
           g == set_sub_requests(u, r, op)
<1>1. h \in ClockState /\ StateOK(h, t) /\ Len(h.buf) \in Nat /\ k \in 1 .. Len(h.buf)
  BY TreatedFacts
<1>2. /\ b \in ClockState /\ b.buf = h.buf /\ b.lock = h.lock /\ b.ended = h.ended /\ b.sub = h.sub
      /\ b.reg = [h.reg EXCEPT ![r] = "WAIT"]
  BY <1>1, SetRegType DEF Busy
<1>3. /\ SameBuffer(b, u, k) /\ u.reg = b.reg /\ u.sub = b.sub
      /\ u.buf = Marked(b.buf, k, "HIVE", 0)
  <2>1. 0 \in 0 .. hive_op_latency /\ "HIVE" \in {"TRANSMIT", "HIVE"}
    BY HiveAssumption
  <2>2. b \in ClockState /\ k \in 1 .. Len(b.buf)
    BY <1>1, <1>2
  <2>3. u = Updated(b, k, "HIVE", 0)
    OBVIOUS
  <2> HIDE DEF b, u
  <2> QED BY <2>1, <2>2, <2>3, UpdatedType
<1> HIDE DEF b
<1>4. u \in ClockState /\ u.lock = h.lock /\ u.ended = h.ended /\ u.buf = m.buf
  BY <1>2, <1>3 DEF SameBuffer
<1>5. op \in {"READ", "WRITE"}
  OBVIOUS
<1> HIDE DEF u
<1>6. /\ g \in ClockState /\ g.buf = m.buf /\ g.lock = h.lock /\ g.ended = h.ended
      /\ g.reg = [m.reg EXCEPT ![r] = "WAIT"]
      /\ g.sub = [m.sub EXCEPT ![r].op = op, ![r].status = [n \in Nano |-> "TRANSMIT"]]
  <2>1. /\ g \in ClockState /\ g.buf = u.buf /\ g.lock = u.lock /\ g.ended = u.ended /\ g.reg = u.reg
        /\ g.sub = Sent(u.sub, r, op)
    <3>1. g = set_sub_requests(u, r, op)
      OBVIOUS
    <3>2. u \in ClockState /\ r \in HiveRegister /\ op \in {"READ", "WRITE"}
      BY <1>4, <1>5
    <3> HIDE DEF g
    <3>3. g \in ClockState
      BY <3>1, <3>2, SetSubType
    <3>4. g.buf = u.buf /\ g.lock = u.lock /\ g.ended = u.ended
      BY <3>1, <3>2, SetSubType
    <3>5. g.reg = u.reg
      BY <3>1, <3>2, SetSubType
    <3>6. g.sub = Sent(u.sub, r, op)
      BY <3>1, <3>2, SetSubType
    <3> QED BY <3>3, <3>4, <3>5, <3>6
  <2> HIDE DEF g
  <2>2. u.sub = m.sub
    BY <1>2, <1>3
  <2>3. g.sub = [m.sub EXCEPT ![r].op = op, ![r].status = [n \in Nano |-> "TRANSMIT"]]
    BY <2>1, <2>2, Zenon DEF Sent
  <2> QED BY <1>2, <1>3, <1>4, <2>1, <2>3
<1> HIDE DEF g
<1>7. /\ Len(m.buf) = Len(h.buf) /\ m.lock = h.lock
      /\ \A j \in 1 .. Len(h.buf) : At(m, j) = At(h, j) /\ (j # k => m.buf[j].status = h.buf[j].status)
  BY DEF SameBuffer
<1>8. StateOK(g, t)
  <2>1. \A o : IsA(m, k, o) <=> IsA(h, k, o)
    BY <1>1, <1>7 DEF IsA
  <2>2. r \in Moved(At(m, k)) /\ k \in 1 .. Len(m.buf)
    BY <1>1, <1>7
  <2>3. IF IsA(m, k, "LOAD") THEN op = "READ" /\ m.reg[r] = "FREE"
                             ELSE op = "WRITE" /\ m.reg[r] = "READY"
    BY <2>1
  <2>4. ASSUME IsA(m, k, "LOAD"), NEW j \in 1 .. Len(m.buf), k < j, Runs(m, j),
               IsA(m, j, "ALU") \/ IsA(m, j, "STORE")
        PROVE  r \notin At(m, j).reads
    <3>1. j \in 1 .. Len(h.buf) /\ j # k
      BY <1>1, <1>7, <2>4
    <3>2. Runs(h, j) /\ (IsA(h, j, "ALU") \/ IsA(h, j, "STORE")) /\ IsA(h, k, "LOAD") /\ r \in At(h, k).writes
      BY <1>7, <2>1, <2>4, <3>1 DEF Runs, IsA, Moved
    <3>3. ~Runs(h, k)
      BY DEF Runs, Started
    <3> QED BY <1>1, <1>7, <2>4, <3>1, <3>2, <3>3 DEF StateOK, UsesOK
  <2>5. /\ StateOK(m, t) /\ m.lock /\ g.lock = m.lock
        /\ g \in ClockState /\ g.buf = m.buf
    BY <1>6, <1>7
  <2> QED BY <1>6, <2>2, <2>3, <2>4, <2>5, MoveBegins
<1>9. SameBuffer(h, g, k) /\ Runs(g, k)
  <2>1. \A j : At(g, j) = At(m, j) /\ g.buf[j] = m.buf[j]
    BY <1>6 DEF At
  <2> QED BY <1>6, <1>7, <2>1 DEF SameBuffer, Runs
<1> QED BY <1>8, <1>9, DispatchedWalks DEF g, u, b

LEMMA DispatchWalks ==
  ASSUME NEW t \in Trace, NEW h, NEW k, Treats(h, t, k), ~Started(h, k)
  PROVE  Walking(hive_dispatch(h, k), t, k + 1)
<1> DEFINE n == At(h, k)
           s == Pending(h, t)
<1>1. /\ StateOK(h, t) /\ h \in ClockState /\ k \in 1 .. Len(h.buf) /\ Len(h.buf) \in Nat
      /\ n \in hive_instruction_t /\ Shaped(n) /\ k \in DOMAIN s /\ s[k] = n
      /\ h.lock => \A j \in 1 .. k : ~SectionEnds(s, 0, j)
  BY TreatedFacts
<1>2. /\ 0 \in 0 .. hive_op_latency /\ hive_op_latency \in 0 .. hive_op_latency
      /\ "HIVE" \in {"TRANSMIT", "HIVE"} /\ "TRANSMIT" \in {"TRANSMIT", "HIVE"}
  BY HiveAssumption
<1>3. CASE n.op \in {"LOCK", "UNLOCK"}
  <2>1. k = 1 /\ ~IsA(h, k, "ALU") /\ ~IsA(h, k, "STORE") /\ ~IsA(h, k, "LOAD")
    BY <1>3 DEF Treats, IsA
  <2> DEFINE g == Updated(h, k, "HIVE", 0)
  <2>2. hive_dispatch(h, k) = g
    BY <1>3 DEF hive_dispatch
  <2> HIDE DEF g
  <2>3. StateOK(g, t) /\ SameBuffer(h, g, k)
    BY <1>2, <2>1, DispatchUpdates DEF g
  <2> QED BY <2>1, <2>2, <2>3, DispatchedWalks
<1>4. CASE n.op = "ALU" /\ h.lock /\ n.reads = {}
  <2>1. PICK w \in HiveRegister : n.writes = {w}
    BY <1>1, <1>4 DEF Shaped
  <2> DEFINE b == [h EXCEPT !.reg[w] = "READY"]
             g == Updated(b, k, "HIVE", hive_op_latency)
             m == Updated(h, k, "HIVE", hive_op_latency)
  <2>2. hive_dispatch(h, k) = g
    <3>1. Operand(n.writes) = w
      BY <2>1, OneOperand
    <3> QED BY <1>4, <3>1, Zenon DEF hive_dispatch
  <2>3. /\ b \in ClockState /\ b.buf = h.buf /\ b.lock = h.lock /\ b.ended = h.ended /\ b.sub = h.sub
        /\ b.reg = [h.reg EXCEPT ![w] = "READY"]
    BY <1>1, SetRegType
  <2> HIDE DEF b
  <2>4. /\ SameBuffer(b, g, k) /\ g.reg = b.reg /\ g.sub = b.sub
        /\ g.buf = Marked(b.buf, k, "HIVE", hive_op_latency)
    <3>1. g = Updated(b, k, "HIVE", hive_op_latency) /\ k \in 1 .. Len(b.buf)
      BY <1>1, <2>3
    <3> HIDE DEF g
    <3> QED BY <1>2, <2>3, <3>1, UpdatedType
  <2> HIDE DEF g
  <2>5. /\ StateOK(m, t) /\ SameBuffer(h, m, k) /\ m.reg = h.reg /\ m.sub = h.sub
        /\ m.buf = Marked(h.buf, k, "HIVE", hive_op_latency) /\ m.buf[k].status = "HIVE"
    <3>1. m = Updated(h, k, "HIVE", hive_op_latency)
      OBVIOUS
    <3> HIDE DEF m
    <3> QED BY <1>2, <1>4, <3>1, DispatchUpdates
  <2> HIDE DEF m
  <2>6. /\ g \in ClockState /\ g.lock = h.lock /\ g.ended = h.ended /\ g.buf = m.buf
        /\ m.lock = h.lock /\ Len(m.buf) = Len(h.buf) /\ At(m, k) = n
    BY <1>1, <2>3, <2>4, <2>5 DEF SameBuffer
  <2>7. StateOK(g, t)
    <3>1. w \in SetBy(At(m, k)) /\ Runs(m, k) /\ k \in 1 .. Len(m.buf) /\ m.lock
      BY <1>1, <1>4, <2>1, <2>5, <2>6 DEF SetBy, Runs
    <3>2. g.sub = m.sub /\ g.reg = [m.reg EXCEPT ![w] = "READY"] /\ g.lock = m.lock
      BY <2>3, <2>4, <2>5, <2>6
    <3> QED BY <2>5, <2>6, <3>1, <3>2, IsSet
  <2>8. SameBuffer(h, g, k)
    <3>1. \A j : At(g, j) = At(m, j) /\ g.buf[j] = m.buf[j]
      BY <2>6 DEF At
    <3> QED BY <2>5, <2>6, <3>1 DEF SameBuffer
  <2>9. ~IsA(h, k, "LOAD")
    BY <1>4 DEF IsA
  <2> QED BY <1>4, <2>2, <2>7, <2>8, <2>9, DispatchedWalks
<1>5. CASE n.op = "ALU" /\ h.lock /\ n.reads # {}
  <2>1. IsA(h, k, "ALU") /\ ~IsA(h, k, "LOAD")
    BY <1>5 DEF IsA
  <2> DEFINE g == Updated(h, k, "TRANSMIT", 0)
  <2>2. hive_dispatch(h, k) = g
    BY <1>5 DEF hive_dispatch
  <2> HIDE DEF g
  <2>3. StateOK(g, t) /\ SameBuffer(h, g, k)
    BY <1>2, <1>5, <2>1, DispatchUpdates DEF g
  <2> QED BY <1>5, <2>1, <2>2, <2>3, DispatchedWalks
<1>6. CASE n.op = "LOAD" /\ h.lock
  <2>1. PICK w \in HiveRegister : n.writes = {w}
    BY <1>1, <1>6 DEF Shaped
  <2>2. Operand(n.writes) = w /\ IsA(h, k, "LOAD") /\ ~IsA(h, k, "ALU") /\ ~IsA(h, k, "STORE") /\ w \in Moved(n)
    BY <1>6, <2>1, OneOperand DEF IsA, Moved
  <2>3. h.reg[w] = "FREE"
    <3>1. ~SectionEnds(s, 0, k)
      BY <1>1, <1>6
    <3> HIDE DEF s
    <3> QED BY <1>1, <1>6, <2>1, <3>1 DEF StateOK, LoadsOK, s
  <2> DEFINE m == Updated(h, k, "HIVE", 0)
  <2>4. hive_dispatch(h, k) = set_sub_requests(Updated(Busy(h, w), k, "HIVE", 0), w, "READ")
    BY <1>6, <2>2, <2>3 DEF hive_dispatch
  <2>5. /\ StateOK(m, t) /\ SameBuffer(h, m, k) /\ m.reg = h.reg /\ m.sub = h.sub
        /\ m.buf = Marked(h.buf, k, "HIVE", 0) /\ m.buf[k].status = "HIVE"
    <3>1. m = Updated(h, k, "HIVE", 0)
      OBVIOUS
    <3> HIDE DEF m
    <3> QED BY <1>2, <1>6, <2>2, <3>1, DispatchUpdates
  <2> HIDE DEF m
  <2>6. Runs(m, k)
    BY <2>5 DEF Runs
  <2> QED BY <1>6, <2>2, <2>3, <2>4, <2>5, <2>6, DispatchedMoves
<1>7. CASE n.op = "STORE" /\ h.lock
  <2>1. PICK w \in HiveRegister : n.reads = {w}
    BY <1>1, <1>7 DEF Shaped
  <2>2. Operand(n.reads) = w /\ IsA(h, k, "STORE") /\ ~IsA(h, k, "ALU") /\ ~IsA(h, k, "LOAD") /\ w \in Moved(n)
    BY <1>7, <2>1, OneOperand DEF IsA, Moved
  <2>3. CASE h.reg[w] = "READY"
    <3> DEFINE m == Updated(h, k, "HIVE", 0)
    <3>1. hive_dispatch(h, k) = set_sub_requests(Updated(Busy(h, w), k, "HIVE", 0), w, "WRITE")
      BY <1>7, <2>2, <2>3 DEF hive_dispatch
    <3>2. ASSUME NEW j \in 1 .. k - 1, IsA(h, j, "LOAD"), w \in At(h, j).writes
          PROVE  Runs(h, j) /\ h.sub[w].op # "READ"
      <4>1. j \in 1 .. Len(h.buf) /\ j \in DOMAIN s /\ s[j] = At(h, j) /\ ~SectionEnds(s, 0, j) /\ h.buf[j] \in HiveEntry
        BY <1>1, <1>7, PendingType
      <4> HIDE DEF s
      <4>2. Started(h, j)
        BY <1>1, <2>3, <3>2, <4>1 DEF StateOK, LoadsOK, IsA, s
      <4>3. Runs(h, j)
        <5>1. h.buf[j].status # "TRANSMIT"
          BY <1>1, <3>2, <4>1 DEF StateOK, UsesOK, IsA
        <5> QED BY <4>1, <4>2, <5>1 DEF HiveEntry, Runs, Started
      <4>4. h.sub[w] = NoSubRequests
        BY <1>1, <2>3 DEF StateOK, RegistersOK
      <4> QED BY <4>3, <4>4 DEF NoSubRequests
    <3>3. \A j \in 1 .. k - 1, r \in HiveRegister :
             IsA(h, j, "LOAD") /\ r \in At(h, j).writes /\ r \in At(h, k).reads =>
               Runs(h, j) /\ h.sub[r].op # "READ"
      BY <2>1, <3>2
    <3>4. /\ StateOK(m, t) /\ SameBuffer(h, m, k) /\ m.reg = h.reg /\ m.sub = h.sub
          /\ m.buf = Marked(h.buf, k, "HIVE", 0) /\ m.buf[k].status = "HIVE"
      <4>1. m = Updated(h, k, "HIVE", 0)
        OBVIOUS
      <4> HIDE DEF m
      <4> QED BY <1>2, <1>7, <2>2, <3>3, <4>1, DispatchUpdates
    <3> HIDE DEF m
    <3>5. Runs(m, k)
      BY <3>4 DEF Runs
    <3> QED BY <1>7, <2>2, <2>3, <3>1, <3>4, <3>5, DispatchedMoves
  <2>4. CASE h.reg[w] # "READY"
    <3>1. hive_dispatch(h, k) = h
      BY <1>7, <2>2, <2>4 DEF hive_dispatch
    <3> QED BY <2>2, <3>1, StaysAsItIs
  <2> QED BY <2>3, <2>4
<1>8. CASE n.op \in {"ALU", "LOAD", "STORE"} /\ ~h.lock
  <2>1. hive_dispatch(h, k) = h
    BY <1>8 DEF hive_dispatch
  <2> QED BY <1>8, <2>1, StaysAsItIs
<1>9. n.op \in {"LOCK", "UNLOCK", "ALU", "LOAD", "STORE"} /\ h.lock \in BOOLEAN
  BY <1>1 DEF hive_instruction_t, ClockState
<1> QED BY <1>3, <1>4, <1>5, <1>6, <1>7, <1>8, <1>9

LEMMA ProcessWalks ==
  ASSUME NEW t \in Trace, NEW h, NEW k, Treats(h, t, k)
  PROVE  Walking(process(h, k), t, k + 1)
<1>1. h.buf[k].status \in {"UNTREATED", "TRANSMIT", "HIVE"}
  BY TreatedFacts DEF HiveEntry
<1>2. CASE h.buf[k].status = "UNTREATED"
  <2>1. process(h, k) = hive_dispatch(h, k) /\ ~Started(h, k)
    BY <1>2 DEF process, Started
  <2> QED BY <2>1, DispatchWalks
<1>3. CASE h.buf[k].status = "TRANSMIT"
  <2>1. process(h, k) = check_transmit(h, k)
    BY <1>3 DEF process
  <2> QED BY <1>3, <2>1, TransmitWalks
<1>4. CASE h.buf[k].status = "HIVE"
  <2>1. process(h, k) = check_wait(h, k) /\ Runs(h, k)
    BY <1>4 DEF process, Runs
  <2> QED BY <2>1, WaitWalks
<1> QED BY <1>1, <1>2, <1>3, <1>4

LEMMA StateSame ==
  ASSUME NEW t, NEW h, StateOK(h, t), NEW g \in ClockState,
         g.buf = h.buf, g.lock = h.lock, g.reg = h.reg, g.sub = h.sub
  PROVE  StateOK(g, t)
<1>1. /\ \A j : At(g, j) = At(h, j)
      /\ \A j : (Started(g, j) <=> Started(h, j)) /\ (Runs(g, j) <=> Runs(h, j))
      /\ \A j, o : IsA(g, j, o) <=> IsA(h, j, o)
      /\ Pending(g, t) = Pending(h, t)
  BY DEF At, Started, Runs, IsA, Pending
<1>2. RegistersOK(g)
  BY <1>1 DEF StateOK, RegistersOK
<1>3. SectionOK(g)
  BY <1>1 DEF StateOK, SectionOK
<1>4. LoadsOK(g, t)
  BY <1>1 DEF StateOK, LoadsOK
<1>5. UsesOK(g)
  BY <1>1 DEF StateOK, UsesOK
<1> QED BY <1>1, <1>2, <1>3, <1>4, <1>5 DEF StateOK

\* One position of the walk.
LEMMA WalkKeeps ==
  ASSUME NEW t \in Trace, NEW h, NEW k \in Nat \ {0}, Walking(h, t, k), k = 1 => ~h.ended
  PROVE  Walking(Walk(h, k), t, k + 1)
<1>1. StateOK(h, t) /\ h \in ClockState /\ Len(h.buf) \in Nat
  BY PendingType DEF Walking, StateOK
<1>2. CASE h.ended \/ k > Len(h.buf)
  <2>1. Walk(h, k) = h
    BY <1>2 DEF Walk
  <2>2. ASSUME NEW i \in 1 .. Len(h.buf), NEW j \in 1 .. Len(h.buf),
               i < j, k + 1 <= j, Started(h, j), IsA(h, i, "LOAD")
        PROVE  Runs(h, i)
    <3>1. k > 1 /\ k <= j
      BY <1>1, <1>2, <2>2
    <3> QED BY <2>2, <3>1 DEF Walking
  <2>3. ASSUME ~h.ended, NEW i \in 1 .. Len(h.buf), 1 < i, i < k + 1
        PROVE  ~IsA(h, i, "LOCK") /\ ~IsA(h, i, "UNLOCK") /\ (h.lock /\ IsA(h, i, "LOAD") => Runs(h, i))
    <3>1. k > 1 /\ i < k
      BY <1>1, <1>2, <2>3
    <3> QED BY <2>3, <3>1 DEF Walking
  <2>4. Walking(h, t, k + 1)
    BY <2>2, <2>3 DEF Walking
  <2> QED BY <2>1, <2>4
<1>3. CASE ~(h.ended \/ k > Len(h.buf)) /\ k # 1 /\ At(h, k).op \in {"LOCK", "UNLOCK"}
  <2> DEFINE g == [h EXCEPT !.ended = TRUE]
  <2>1. Walk(h, k) = g
    BY <1>3 DEF Walk
  <2>2. g \in ClockState /\ g.buf = h.buf /\ g.lock = h.lock /\ g.reg = h.reg /\ g.sub = h.sub /\ g.ended = TRUE
    BY <1>1 DEF ClockState
  <2> HIDE DEF g
  <2>3. StateOK(g, t)
    BY <1>1, <2>2, StateSame
  <2>4. \A j : /\ (Started(g, j) <=> Started(h, j)) /\ (Runs(g, j) <=> Runs(h, j))
               /\ \A o : IsA(g, j, o) <=> IsA(h, j, o)
    BY <2>2 DEF Started, Runs, IsA, At
  <2>5. SkippedIsHead(g)
    BY <2>2, <2>4 DEF Walking, SkippedIsHead
  <2>6. ASSUME NEW i \in 1 .. Len(h.buf), NEW j \in 1 .. Len(h.buf),
               i < j, k + 1 <= j, Started(h, j), IsA(h, i, "LOAD")
        PROVE  Runs(h, i)
    <3>1. k > 1 /\ k <= j
      BY <1>1, <1>3, <2>6
    <3> QED BY <2>6, <3>1 DEF Walking
  <2>7. Walking(g, t, k + 1)
    BY <2>2, <2>3, <2>4, <2>5, <2>6 DEF Walking
  <2> QED BY <2>1, <2>7
<1>4. CASE ~(h.ended \/ k > Len(h.buf)) /\ ~(k # 1 /\ At(h, k).op \in {"LOCK", "UNLOCK"})
  <2>1. Walk(h, k) = process(h, k)
    BY <1>4 DEF Walk
  <2>2. k \in 1 .. Len(h.buf)
    BY <1>1, <1>4
  <2>3. Treats(h, t, k)
    BY <1>4, <2>2 DEF Treats, IsA
  <2> QED BY <2>1, <2>3, ProcessWalks
<1> QED BY <1>2, <1>3, <1>4

-----------------------------------------------------------------------------
(* HIVE: the registers                                                     *)

\* The sub-requests that are answered and not counted.
Back(s) == {k \in s.sent : s.status[k] = "WAIT"}

LEMMA CountedOnce ==
  ASSUME NEW s \in SubRequests, s.ready + Cardinality(Outstanding(s)) <= nano_requests_number,
         NEW u, u = [s EXCEPT !.sent = s.sent \cup {k \in Nano : s.status[k] = "TRANSMIT"},
                              !.ready = s.ready + Cardinality(Back(s)),
                              !.status = [k \in Nano |-> IF k \in Back(s) THEN "FREE" ELSE s.status[k]]]
  PROVE  /\ u \in SubRequests /\ u.op = s.op
         /\ u.ready + Cardinality(Outstanding(u)) <= nano_requests_number
         /\ s = NoSubRequests => u = NoSubRequests /\ u.ready = 0
<1> DEFINE B == Back(s)
           O == Outstanding(s)
<1>1. nano_requests_number \in Nat \ {0} /\ s.ready \in Nat
      /\ s.status \in [Nano -> {"FREE", "TRANSMIT", "WAIT"}] /\ s.sent \subseteq Nano
  BY HiveAssumption DEF SubRequests
<1>2. O \subseteq Nano /\ B \subseteq O
  BY <1>1 DEF Outstanding, Back
<1>3. IsFiniteSet(Nano)
  <2>1. 1 \in Int /\ nano_requests_number \in Int /\ Nano = 1 .. nano_requests_number
    BY <1>1 DEF Nano
  <2>2. IsFiniteSet(1 .. nano_requests_number)
    BY <2>1, FS_Interval
  <2> QED BY <2>1, <2>2
<1>4. IsFiniteSet(O) /\ IsFiniteSet(B) /\ Cardinality(O) \in Nat /\ Cardinality(B) \in Nat
  BY <1>2, <1>3, FS_Subset, FS_CardinalityType
<1>5. Cardinality(O \ B) = Cardinality(O) - Cardinality(B)
  <2>1. O \cap B = B
    BY <1>2
  <2>2. Cardinality(O \ B) = Cardinality(O) - Cardinality(O \cap B)
    BY <1>4, FS_Difference
  <2> QED BY <2>1, <2>2
<1>6. Cardinality(B) <= Cardinality(O)
  BY <1>2, <1>4, FS_Subset
<1> DEFINE st == [k \in Nano |-> IF k \in B THEN "FREE" ELSE s.status[k]]
           se == s.sent \cup {k \in Nano : s.status[k] = "TRANSMIT"}
           re == s.ready + Cardinality(B)
<1>7. st \in [Nano -> {"FREE", "TRANSMIT", "WAIT"}] /\ se \subseteq Nano
  BY <1>1
<1>8. Outstanding([s EXCEPT !.status = st]) = O \ B
  <2>1. \A k \in Nano : st[k] # "FREE" <=> k \notin B /\ s.status[k] # "FREE"
    BY <1>1
  <2> HIDE DEF st, B
  <2>2. [s EXCEPT !.status = st].status = st
    BY DEF SubRequests
  <2> QED BY <2>1, <2>2 DEF Outstanding
<1>9. u = [s EXCEPT !.sent = se, !.ready = re, !.status = st]
  OBVIOUS
<1> HIDE DEF st, se, re
<1>10. re \in 0 .. nano_requests_number
  <2> HIDE DEF B, O
  <2> QED BY <1>1, <1>4, <1>6 DEF re, O, B
<1>11. u \in SubRequests /\ u.op = s.op /\ u.sent = se /\ u.ready = re /\ u.status = st
  BY <1>7, <1>9, <1>10 DEF SubRequests
<1>12. Outstanding(u) = O \ B
  <2>1. [s EXCEPT !.status = st].status = st
    BY DEF SubRequests
  <2> HIDE DEF O, B
  <2> QED BY <1>8, <1>11, <2>1 DEF Outstanding
<1>13. u.ready + Cardinality(Outstanding(u)) <= nano_requests_number
  <2>1. s.ready + Cardinality(O) <= nano_requests_number
    OBVIOUS
  <2>2. re = s.ready + Cardinality(B)
    BY DEF re
  <2>3. u.ready = re /\ Cardinality(Outstanding(u)) = Cardinality(O) - Cardinality(B)
    BY <1>5, <1>11, <1>12
  <2> HIDE DEF O, B
  <2> QED BY <1>1, <1>4, <2>1, <2>2, <2>3
<1>14. ASSUME s = NoSubRequests PROVE u = NoSubRequests /\ u.ready = 0
  <2>1. s.sent = {} /\ s.ready = 0 /\ s.op = "FREE" /\ s.status = [k \in Nano |-> "FREE"]
    BY <1>14 DEF NoSubRequests
  <2>2. B = {}
    BY <2>1 DEF Back
  <2>3. Cardinality(B) = 0
    BY <2>2, FS_EmptySet
  <2>4. se = {} /\ st = [k \in Nano |-> "FREE"]
    BY <2>1, <2>2 DEF se, st
  <2>5. re = 0
    BY <2>1, <2>3 DEF re
  <2> HIDE DEF B, O
  <2> QED BY <1>11, <2>1, <2>4, <2>5 DEF NoSubRequests, SubRequests
<1> QED BY <1>11, <1>13, <1>14

\* The register and the sub-requests of r change.
LEMMA CountKeeps ==
  ASSUME NEW t \in Trace, NEW h, StateOK(h, t), SkippedIsHead(h), NEW r \in HiveRegister
  PROVE  /\ StateOK(check_sub_requests(h, r), t) /\ SkippedIsHead(check_sub_requests(h, r))
         /\ check_sub_requests(h, r).ended = h.ended
<1> DEFINE s == h.sub[r]
           g == check_sub_requests(h, r)
           sent == s.sent \cup {k \in Nano : s.status[k] = "TRANSMIT"}
           ready == s.ready + Cardinality(Back(s))
           status == [k \in Nano |-> IF k \in Back(s) THEN "FREE" ELSE s.status[k]]
           u == [s EXCEPT !.sent = sent, !.ready = ready, !.status = status]
           all == ready = nano_requests_number
           v == IF all THEN NoSubRequests ELSE u
           reg == IF all THEN [h.reg EXCEPT ![r] = "READY"] ELSE h.reg
<1>1. /\ h \in ClockState /\ h.sub \in [HiveRegister -> SubRequests] /\ s \in SubRequests
      /\ h.reg \in [HiveRegister -> {"FREE", "WAIT", "READY"}]
      /\ s.ready + Cardinality(Outstanding(s)) <= nano_requests_number
      /\ nano_requests_number \in Nat \ {0}
  BY HiveAssumption DEF StateOK, RegistersOK, ClockState
<1>2. /\ u \in SubRequests /\ u.op = s.op
      /\ u.ready + Cardinality(Outstanding(u)) <= nano_requests_number
      /\ s = NoSubRequests => u = NoSubRequests /\ u.ready = 0
  <2>1. u = [s EXCEPT !.sent = s.sent \cup {k \in Nano : s.status[k] = "TRANSMIT"},
                              !.ready = s.ready + Cardinality(Back(s)),
                              !.status = [k \in Nano |-> IF k \in Back(s) THEN "FREE" ELSE s.status[k]]]
    OBVIOUS
  <2> HIDE DEF u, s
  <2>2. u \in SubRequests /\ u.op = s.op
    BY <1>1, <2>1, CountedOnce
  <2>3. u.ready + Cardinality(Outstanding(u)) <= nano_requests_number
    BY <1>1, <2>1, CountedOnce
  <2>4. s = NoSubRequests => u = NoSubRequests /\ u.ready = 0
    BY <1>1, <2>1, CountedOnce
  <2> QED BY <2>2, <2>3, <2>4
<1>3. all => h.reg[r] = "WAIT"
  <2>1. u.ready = ready
    <3> HIDE DEF ready, status, sent
    <3> QED BY <1>1 DEF SubRequests
  <2>2. h.reg[r] # "WAIT" => s = NoSubRequests
    BY DEF StateOK, RegistersOK
  <2> HIDE DEF u, s, ready
  <2> QED BY <1>1, <1>2, <2>1, <2>2
<1>4. /\ NoSubRequests \in SubRequests /\ NoSubRequests.op = "FREE"
      /\ NoSubRequests.ready + Cardinality(Outstanding(NoSubRequests)) <= nano_requests_number
  <2>1. NoSubRequests \in SubRequests /\ NoSubRequests.op = "FREE" /\ NoSubRequests.ready = 0
    BY <1>1 DEF NoSubRequests, SubRequests
  <2>2. Outstanding(NoSubRequests) = {}
    BY DEF NoSubRequests, Outstanding
  <2>3. Cardinality({}) = 0
    BY FS_EmptySet
  <2> HIDE DEF ready
  <2> QED BY <1>1, <2>1, <2>2, <2>3
<1>5. /\ g \in ClockState /\ g.buf = h.buf /\ g.lock = h.lock /\ g.ended = h.ended
      /\ g.reg = reg /\ g.sub = [h.sub EXCEPT ![r] = v]
  <2> DEFINE x == [h.sub EXCEPT ![r] = v]
  <2>1. v \in SubRequests
    BY <1>2, <1>4
  <2>2. x \in [HiveRegister -> SubRequests] /\ reg \in [HiveRegister -> {"FREE", "WAIT", "READY"}]
    <3> HIDE DEF v, all
    <3> QED BY <1>1, <2>1
  <2>3. CASE all
    <3>1. g = Loaded(h, r)
      BY <2>3 DEF check_sub_requests, Back
    <3>2. g = [[h EXCEPT !.sub = x] EXCEPT !.reg = reg]
      <4>1. x = [h.sub EXCEPT ![r] = NoSubRequests] /\ reg = [h.reg EXCEPT ![r] = "READY"]
        BY <2>3
      <4>2. [h EXCEPT !.sub = [h.sub EXCEPT ![r] = NoSubRequests]].reg = h.reg
        BY <1>1 DEF ClockState
      <4>3. Loaded(h, r) = [[h EXCEPT !.sub = [h.sub EXCEPT ![r] = NoSubRequests]] EXCEPT
                              !.reg = [[h EXCEPT !.sub = [h.sub EXCEPT ![r] = NoSubRequests]].reg EXCEPT ![r] = "READY"]]
        BY Zenon DEF Loaded
      <4> HIDE DEF x, reg, g
      <4> QED BY <3>1, <4>1, <4>2, <4>3
    <3> HIDE DEF g, x, reg
    <3>3. g \in ClockState
      BY <1>1, <2>2, <3>2 DEF ClockState
    <3>4. /\ g.buf = h.buf /\ g.lock = h.lock /\ g.ended = h.ended
          /\ g.reg = reg /\ g.sub = x
      BY <1>1, <3>2 DEF ClockState
    <3> QED BY <3>3, <3>4 DEF x
  <2>4. CASE ~all
    <3>1. g = [h EXCEPT !.sub[r] = u]
      BY <2>4 DEF check_sub_requests, Back
    <3>2. x = [h.sub EXCEPT ![r] = u] /\ reg = h.reg
      BY <2>4
    <3>3. g = [h EXCEPT !.sub = x]
      <4> HIDE DEF x, u, reg, g
      <4> QED BY <3>1, <3>2
    <3> HIDE DEF g, x, reg
    <3> QED BY <1>1, <2>2, <3>2, <3>3 DEF ClockState, x
  <2> QED BY <2>3, <2>4
<1> HIDE DEF g
<1>6. /\ g.sub[r] = v /\ \A x \in HiveRegister : x # r => g.sub[x] = h.sub[x] /\ g.reg[x] = h.reg[x]
      /\ g.reg[r] = IF all THEN "READY" ELSE h.reg[r]
  <2> HIDE DEF v, all
  <2> QED BY <1>1, <1>5
<1>7. /\ \A j : At(g, j) = At(h, j) /\ g.buf[j] = h.buf[j]
      /\ \A j : (Started(g, j) <=> Started(h, j)) /\ (Runs(g, j) <=> Runs(h, j))
      /\ \A j, o : IsA(g, j, o) <=> IsA(h, j, o)
      /\ Pending(g, t) = Pending(h, t)
  BY <1>5 DEF At, Started, Runs, IsA, Pending
<1> HIDE DEF all, u, s
<1>8. RegistersOK(g)
  <2> SUFFICES ASSUME NEW x \in HiveRegister
               PROVE  /\ g.sub[x].ready + Cardinality(Outstanding(g.sub[x])) <= nano_requests_number
                      /\ ~g.lock => g.reg[x] = "FREE"
                      /\ g.reg[x] # "WAIT" => g.sub[x] = NoSubRequests
                      /\ g.reg[x] = "WAIT" => \E j \in 1 .. Len(g.buf) : Runs(g, j) /\ x \in Moved(At(g, j))
    BY DEF RegistersOK
  <2>1. /\ h.sub[x].ready + Cardinality(Outstanding(h.sub[x])) <= nano_requests_number
        /\ ~h.lock => h.reg[x] = "FREE"
        /\ h.reg[x] # "WAIT" => h.sub[x] = NoSubRequests
        /\ h.reg[x] = "WAIT" => \E j \in 1 .. Len(h.buf) : Runs(h, j) /\ x \in Moved(At(h, j))
    BY DEF StateOK, RegistersOK
  <2>2. CASE x # r
    BY <1>5, <1>6, <1>7, <2>1, <2>2
  <2>3. CASE x = r /\ all
    BY <1>3, <1>4, <1>5, <1>6, <1>7, <2>1, <2>3
  <2>4. CASE x = r /\ ~all
    BY <1>2, <1>5, <1>6, <1>7, <2>1, <2>4 DEF s
  <2> QED BY <2>2, <2>3, <2>4
<1>9. SectionOK(g)
  BY <1>5, <1>7 DEF StateOK, SectionOK
<1>10. LoadsOK(g, t)
  <2> DEFINE p == Pending(h, t)
  <2> SUFFICES ASSUME NEW j \in DOMAIN p, NEW x \in HiveRegister,
                      p[j].op = "LOAD", x \in p[j].writes,
                      j <= Len(h.buf) => ~Started(h, j), ~SectionEnds(p, 0, j)
               PROVE  g.reg[x] = "FREE"
    BY <1>5, <1>7 DEF LoadsOK
  <2>1. h.reg[x] = "FREE"
    BY DEF StateOK, LoadsOK
  <2> QED BY <1>3, <1>6, <2>1
<1>11. UsesOK(g)
  <2>1. \A x \in HiveRegister : h.sub[x].op # "READ" => g.sub[x].op # "READ"
    BY <1>2, <1>4, <1>6 DEF s
  <2> QED BY <1>5, <1>7, <2>1 DEF StateOK, UsesOK
<1>12. SkippedIsHead(g)
  BY <1>5, <1>7 DEF SkippedIsHead
<1>13. StateOK(g, t)
  BY <1>5, <1>7, <1>8, <1>9, <1>10, <1>11 DEF StateOK
<1> QED BY <1>5, <1>12, <1>13 DEF g

-----------------------------------------------------------------------------
(* HIVE: the steps                                                         *)

Counts(S, n) == {check_sub_requests(g, n - 1) : g \in S}
Walks(S, n) == {Walk(g, n) : g \in S}
Treated(walk, S, n) == IF walk THEN Walks(S, n) ELSE Counts(S, n)

\* The chains of states that AfterRegisters and AfterWalk define.
IsCountChain(a, h, length) == a = [n \in 0 .. length |-> IF n = 0 THEN {h} ELSE Counts(a[n - 1], n)]
IsWalkChain(a, h, length) == a = [n \in 0 .. length |-> IF n = 0 THEN {h} ELSE Walks(a[n - 1], n)]
IsHiveChain(a, h, walk, length) ==
  a = [n \in 0 .. length |-> IF n = 0 THEN {h} ELSE Treated(walk, a[n - 1], n)]

LEMMA HiveChainExists ==
  ASSUME NEW h, NEW walk \in BOOLEAN, NEW length \in Nat
  PROVE  \E a : IsHiveChain(a, h, walk, length)
<1> DEFINE Missing == {n \in Nat : ~ \E a : IsHiveChain(a, h, walk, n)}
<1>1. SUFFICES ASSUME Missing # {} PROVE FALSE
  BY <1>1
<1>2. PICK m \in Missing : \A k \in Missing : m <= k
  BY <1>1, LeastNumber
<1>3. CASE m = 0
  <2> DEFINE b == [n \in 0 .. 0 |-> {h}]
  <2>1. IsHiveChain(b, h, walk, 0)
    BY DEF IsHiveChain
  <2> QED BY <1>3, <2>1
<1>4. CASE m # 0
  <2>1. m - 1 \in Nat /\ m - 1 \notin Missing
    BY <1>2, <1>4
  <2>2. PICK a : IsHiveChain(a, h, walk, m - 1)
    BY <2>1
  <2> DEFINE b == [n \in 0 .. m |-> IF n = m THEN Treated(walk, a[m - 1], m) ELSE a[n]]
  <2>3. \A n \in 0 .. m - 1 : a[n] = IF n = 0 THEN {h} ELSE Treated(walk, a[n - 1], n)
    BY <2>2 DEF IsHiveChain
  <2>4. \A n \in 0 .. m : b[n] = IF n = 0 THEN {h} ELSE Treated(walk, b[n - 1], n)
    <3> TAKE n \in 0 .. m
    <3>1. CASE n = m
      <4>1. m - 1 \in 0 .. m /\ m - 1 # m
        BY <2>1
      <4>2. b[m - 1] = a[m - 1] /\ b[m] = Treated(walk, a[m - 1], m)
        BY <4>1
      <4> HIDE DEF b
      <4> QED BY <1>4, <3>1, <4>2
    <3>2. CASE n # m
      <4>1. n \in 0 .. m - 1 /\ (n # 0 => n - 1 \in 0 .. m /\ n - 1 # m)
        BY <2>1, <3>2
      <4>2. b[n] = a[n] /\ (n # 0 => b[n - 1] = a[n - 1])
        BY <4>1, <3>2
      <4> HIDE DEF b
      <4> QED BY <2>3, <4>1, <4>2
    <3> QED BY <3>1, <3>2
  <2>5. b = [n \in 0 .. m |-> b[n]]
    OBVIOUS
  <2> HIDE DEF b
  <2>6. IsHiveChain(b, h, walk, m)
    BY <2>4, <2>5 DEF IsHiveChain
  <2> QED BY <2>6
<1> QED BY <1>3, <1>4

\* What holds of the states of a chain.
HiveKept(g, t, walk, n) ==
  IF walk THEN Walking(g, t, n + 1) /\ (n = 0 => ~g.ended)
          ELSE StateOK(g, t) /\ SkippedIsHead(g) /\ ~g.ended

LEMMA HiveChainKeeps ==
  ASSUME NEW t \in Trace, NEW h, NEW walk \in BOOLEAN, NEW length \in Nat, ~walk => length = HIVE_REGISTERS,
         NEW a, IsHiveChain(a, h, walk, length), HiveKept(h, t, walk, 0)
  PROVE  \A g \in a[length] : HiveKept(g, t, walk, length)
<1>1. \A n \in 0 .. length : a[n] = IF n = 0 THEN {h} ELSE Treated(walk, a[n - 1], n)
  BY DEF IsHiveChain
<1> DEFINE Wrong == {n \in 0 .. length : ~ \A g \in a[n] : HiveKept(g, t, walk, n)}
<1>2. Wrong = {}
  <2> SUFFICES ASSUME Wrong # {} PROVE FALSE
    OBVIOUS
  <2>1. Wrong \in SUBSET Nat
    OBVIOUS
  <2>2. PICK m \in Wrong : \A k \in Wrong : m <= k
    BY <2>1, LeastNumber
  <2>3. m # 0
    <3>1. 0 \in 0 .. length /\ a[0] = {h}
      BY <1>1
    <3> QED BY <3>1
  <2>4. m - 1 \in 0 .. length /\ m - 1 \notin Wrong /\ m \in Nat \ {0} /\ m \in 1 .. length
    BY <2>2, <2>3
  <2>5. ASSUME NEW g \in a[m] PROVE HiveKept(g, t, walk, m)
    <3>1. g \in Treated(walk, a[m - 1], m)
      BY <1>1, <2>3, <2>5
    <3>2. CASE walk
      <4>1. PICK e \in a[m - 1] : g = Walk(e, m)
        BY <3>1, <3>2 DEF Treated, Walks
      <4>2. Walking(e, t, m) /\ (m = 1 => ~e.ended)
        <5>1. HiveKept(e, t, walk, m - 1)
          BY <2>4
        <5>2. m - 1 + 1 = m /\ (m = 1 => m - 1 = 0)
          BY <2>4
        <5> QED BY <3>2, <5>1, <5>2 DEF HiveKept
      <4>3. Walking(g, t, m + 1)
        BY <2>4, <4>1, <4>2, WalkKeeps
      <4> QED BY <2>3, <3>2, <4>3 DEF HiveKept
    <3>3. CASE ~walk
      <4>1. PICK e \in a[m - 1] : g = check_sub_requests(e, m - 1)
        BY <3>1, <3>3 DEF Treated, Counts
      <4>2. StateOK(e, t) /\ SkippedIsHead(e) /\ ~e.ended
        BY <2>4, <3>3 DEF HiveKept
      <4>3. m - 1 \in HiveRegister
        BY <2>4, <3>3, HiveAssumption DEF HiveRegister
      <4>4. StateOK(g, t) /\ SkippedIsHead(g) /\ g.ended = e.ended
        BY <4>1, <4>2, <4>3, CountKeeps
      <4> QED BY <3>3, <4>2, <4>4 DEF HiveKept
    <3> QED BY <3>2, <3>3
  <2> QED BY <2>5
<1>3. length \in 0 .. length
  OBVIOUS
<1> QED BY <1>2, <1>3

LEMMA RegistersKeep ==
  ASSUME NEW t \in Trace, NEW h, StateOK(h, t), SkippedIsHead(h), ~h.ended, NEW g \in AfterRegisters(h)
  PROVE  StateOK(g, t) /\ SkippedIsHead(g) /\ ~g.ended
<1> DEFINE counted == CHOOSE a : IsCountChain(a, h, HIVE_REGISTERS)
<1>1. HIVE_REGISTERS \in Nat
  BY HiveAssumption
<1>2. \A a : IsHiveChain(a, h, FALSE, HIVE_REGISTERS) <=> IsCountChain(a, h, HIVE_REGISTERS)
  BY DEF IsHiveChain, IsCountChain, Treated
<1>3. IsCountChain(counted, h, HIVE_REGISTERS)
  <2>1. \E a : IsCountChain(a, h, HIVE_REGISTERS)
    BY <1>1, <1>2, HiveChainExists
  <2> QED BY <2>1, Zenon
<1>4. AfterRegisters(h) = counted[HIVE_REGISTERS]
  BY DEF AfterRegisters, IsCountChain, Counts
<1> HIDE DEF counted
<1>5. IsHiveChain(counted, h, FALSE, HIVE_REGISTERS)
  BY <1>2, <1>3
<1>6. HiveKept(h, t, FALSE, 0)
  BY DEF HiveKept
<1>7. HiveKept(g, t, FALSE, HIVE_REGISTERS)
  BY <1>1, <1>4, <1>5, <1>6, HiveChainKeeps
<1> QED BY <1>7 DEF HiveKept

LEMMA WalkKeepsAll ==
  ASSUME NEW t \in Trace, NEW h, StateOK(h, t), SkippedIsHead(h), ~h.ended, NEW g \in AfterWalk(h)
  PROVE  StateOK(g, t) /\ SkippedIsHead(g)
<1> DEFINE walked == CHOOSE a : IsWalkChain(a, h, Len(h.buf))
<1>1. Len(h.buf) \in Nat
  BY PendingType DEF StateOK
<1>2. \A a : IsHiveChain(a, h, TRUE, Len(h.buf)) <=> IsWalkChain(a, h, Len(h.buf))
  BY DEF IsHiveChain, IsWalkChain, Treated
<1>3. IsWalkChain(walked, h, Len(h.buf))
  <2>1. \E a : IsWalkChain(a, h, Len(h.buf))
    BY <1>1, <1>2, HiveChainExists
  <2> QED BY <2>1, Zenon
<1>4. AfterWalk(h) = walked[Len(h.buf)]
  BY DEF AfterWalk, IsWalkChain, Walks
<1> HIDE DEF walked
<1>5. IsHiveChain(walked, h, TRUE, Len(h.buf))
  BY <1>2, <1>3
<1>6. HiveKept(h, t, TRUE, 0)
  BY DEF HiveKept, Walking
<1>7. HiveKept(g, t, TRUE, Len(h.buf))
  BY <1>1, <1>4, <1>5, <1>6, HiveChainKeeps
<1> QED BY <1>7 DEF HiveKept, Walking

\* The same instructions in the same states, whatever their clocks to go.
LEMMA SameStates ==
  ASSUME NEW t \in Trace, NEW h, StateOK(h, t), SkippedIsHead(h),
         NEW g \in ClockState, Len(g.buf) = Len(h.buf), g.lock = h.lock,
         \A j \in 1 .. Len(h.buf) : At(g, j) = At(h, j) /\ g.buf[j].status = h.buf[j].status,
         g.reg = h.reg,
         \A r \in HiveRegister :
           /\ g.sub[r].op = h.sub[r].op
           /\ g.sub[r].ready + Cardinality(Outstanding(g.sub[r])) <= nano_requests_number
           /\ h.sub[r] = NoSubRequests => g.sub[r] = NoSubRequests
  PROVE  StateOK(g, t) /\ SkippedIsHead(g)
<1>1. \A j \in 1 .. Len(h.buf) : /\ Started(g, j) <=> Started(h, j)
                                 /\ Runs(g, j) <=> Runs(h, j)
                                 /\ \A o : IsA(g, j, o) <=> IsA(h, j, o)
  BY DEF Started, Runs, IsA
<1>2. Pending(g, t) = Pending(h, t) /\ Len(h.buf) \in Nat
  <2> DEFINE e == [g EXCEPT !.ended = h.ended]
  <2>1. Len(h.buf) \in Nat /\ h \in ClockState
    BY PendingType DEF StateOK
  <2>2. e \in ClockState /\ e.buf = g.buf /\ e.lock = g.lock /\ e.ended = h.ended
    BY <2>1 DEF ClockState
  <2>3. SameBuffer(h, e, 0)
    <3> HIDE DEF e
    <3> QED BY <2>2 DEF SameBuffer, At
  <2>4. Pending(e, t) = Pending(h, t)
    BY <2>3, SamePending
  <2>5. Pending(e, t) = Pending(g, t)
    <3> HIDE DEF e
    <3> QED BY <2>2 DEF Pending, At
  <2> QED BY <2>1, <2>4, <2>5
<1>3. RegistersOK(g)
  <2> SUFFICES ASSUME NEW r \in HiveRegister
               PROVE  /\ g.sub[r].ready + Cardinality(Outstanding(g.sub[r])) <= nano_requests_number
                      /\ ~g.lock => g.reg[r] = "FREE"
                      /\ g.reg[r] # "WAIT" => g.sub[r] = NoSubRequests
                      /\ g.reg[r] = "WAIT" => \E j \in 1 .. Len(g.buf) : Runs(g, j) /\ r \in Moved(At(g, j))
    BY DEF RegistersOK
  <2>1. /\ ~h.lock => h.reg[r] = "FREE"
        /\ h.reg[r] # "WAIT" => h.sub[r] = NoSubRequests
        /\ h.reg[r] = "WAIT" => \E j \in 1 .. Len(h.buf) : Runs(h, j) /\ r \in Moved(At(h, j))
    BY DEF StateOK, RegistersOK
  <2> QED BY <1>1, <2>1
<1>4. SectionOK(g)
  <2> SUFFICES ASSUME NEW j \in 1 .. Len(h.buf), j > 1, Started(g, j)
               PROVE  g.lock /\ \A i \in 1 .. j : ~IsA(g, i, "LOCK") /\ ~IsA(g, i, "UNLOCK")
    BY DEF SectionOK
  <2>1. h.lock /\ \A i \in 1 .. j : ~IsA(h, i, "LOCK") /\ ~IsA(h, i, "UNLOCK")
    BY <1>1 DEF StateOK, SectionOK
  <2>2. \A i \in 1 .. j : i \in 1 .. Len(h.buf)
    BY <1>2
  <2> QED BY <1>1, <2>1, <2>2
<1>5. LoadsOK(g, t)
  <2>1. \A j : j <= Len(h.buf) /\ j \in DOMAIN Pending(h, t) => j \in 1 .. Len(h.buf)
    BY <1>2, PendingType DEF StateOK
  <2> QED BY <1>1, <1>2, <2>1 DEF StateOK, LoadsOK
<1>6. UsesOK(g)
  BY <1>1 DEF StateOK, UsesOK
<1>7. SkippedIsHead(g)
  BY <1>1 DEF SkippedIsHead
<1> QED BY <1>2, <1>3, <1>4, <1>5, <1>6, <1>7 DEF StateOK

\* The controller between two clocks.
HiveState ==
  [buf |-> hive_instructions, lock |-> hive_lock, ended |-> FALSE,
   reg |-> hive_register_state, sub |-> hive_sub_requests]

HiveInv == hive_trace \in Trace /\ StateOK(HiveState, hive_trace) /\ SkippedIsHead(HiveState)

LEMMA HiveFields ==
  /\ HiveState.buf = hive_instructions /\ HiveState.lock = hive_lock /\ HiveState.ended = FALSE
  /\ HiveState.reg = hive_register_state /\ HiveState.sub = hive_sub_requests
BY DEF HiveState

\* An instruction of the trace comes into the buffer.
LEMMA AddKeeps ==
  ASSUME HiveInv, hive_addRequest
  PROVE  HiveInv'
<1> DEFINE h == HiveState
           g == HiveState'
           t == hive_trace
           u == hive_trace'
           e == [instruction |-> Head(t), status |-> "UNTREATED", left |-> 0]
           n == Len(h.buf)
<1>1. /\ t \in Seq(hive_instruction_t) /\ t # <<>> /\ h \in ClockState /\ n \in Nat
      /\ n < HIVE_BUFFER /\ StateOK(h, t) /\ u = Tail(t) /\ HIVE_BUFFER \in Nat
      /\ h.buf \in Seq(HiveEntry)
  BY HiveFields, PendingType, HiveAssumption DEF HiveInv, hive_addRequest, StateOK, Trace, ClockState
<1>2. /\ g.buf = Append(h.buf, e) /\ g.lock = h.lock /\ g.reg = h.reg /\ g.sub = h.sub /\ g.ended = h.ended
      /\ g = [buf |-> g.buf, lock |-> h.lock, ended |-> h.ended, reg |-> h.reg, sub |-> h.sub]
  BY DEF HiveState, hive_addRequest
<1>3. e \in HiveEntry /\ e.status = "UNTREATED" /\ e.instruction = t[1]
  BY <1>1, HiveAssumption DEF HiveEntry
<1>4. /\ u \in Trace /\ Len(u) = Len(t) - 1 /\ Len(t) \in Nat \ {0}
      /\ \A i \in 1 .. Len(u) : u[i] = t[i + 1]
  BY <1>1 DEF Trace
<1> HIDE DEF h, g, t, u, e
<1>5. /\ Len(g.buf) = n + 1 /\ g.buf \in Seq(HiveEntry) /\ g.buf[n + 1] = e
      /\ \A i \in 1 .. n : g.buf[i] = h.buf[i]
  BY <1>1, <1>2, <1>3
<1> HIDE DEF n
<1>6. g \in ClockState
  BY <1>1, <1>2, <1>5 DEF ClockState
<1>7. /\ \A i \in 1 .. n : /\ At(g, i) = At(h, i)
                           /\ (Started(g, i) <=> Started(h, i)) /\ (Runs(g, i) <=> Runs(h, i))
                           /\ \A o : IsA(g, i, o) <=> IsA(h, i, o)
      /\ ~Started(g, n + 1) /\ ~Runs(g, n + 1) /\ At(g, n + 1) = t[1] /\ g.buf[n + 1].status # "TRANSMIT"
  BY <1>3, <1>5 DEF At, Started, Runs, IsA
<1>8. Pending(g, u) = Pending(h, t)
  <2>1. Len(g.buf) + Len(u) = n + Len(t)
    BY <1>1, <1>4, <1>5
  <2>2. ASSUME NEW i \in 1 .. n + Len(t)
        PROVE  (IF i <= Len(g.buf) THEN At(g, i) ELSE u[i - Len(g.buf)])
                 = (IF i <= n THEN At(h, i) ELSE t[i - n])
    <3>1. CASE i <= n
      <4>1. i \in 1 .. n /\ i <= Len(g.buf)
        BY <1>1, <1>5, <3>1
      <4> QED BY <1>7, <3>1, <4>1
    <3>2. CASE i = n + 1
      <4>1. i <= Len(g.buf) /\ ~(i <= n) /\ i - n = 1
        BY <1>1, <1>5, <3>2
      <4> QED BY <1>7, <3>2, <4>1
    <3>3. CASE ~(i <= n) /\ i # n + 1
      <4>1. ~(i <= Len(g.buf)) /\ i - Len(g.buf) \in 1 .. Len(u) /\ i - Len(g.buf) + 1 = i - n
        BY <1>1, <1>4, <1>5, <3>3
      <4> QED BY <1>4, <3>3, <4>1
    <3> QED BY <3>1, <3>2, <3>3
  <2> QED BY <2>1, <2>2 DEF Pending, n
<1>9. RegistersOK(g)
  <2> SUFFICES ASSUME NEW r \in HiveRegister
               PROVE  /\ g.sub[r].ready + Cardinality(Outstanding(g.sub[r])) <= nano_requests_number
                      /\ ~g.lock => g.reg[r] = "FREE"
                      /\ g.reg[r] # "WAIT" => g.sub[r] = NoSubRequests
                      /\ g.reg[r] = "WAIT" => \E j \in 1 .. Len(g.buf) : Runs(g, j) /\ r \in Moved(At(g, j))
    BY DEF RegistersOK
  <2>1. /\ h.sub[r].ready + Cardinality(Outstanding(h.sub[r])) <= nano_requests_number
        /\ ~h.lock => h.reg[r] = "FREE"
        /\ h.reg[r] # "WAIT" => h.sub[r] = NoSubRequests
        /\ h.reg[r] = "WAIT" => \E j \in 1 .. n : Runs(h, j) /\ r \in Moved(At(h, j))
    BY <1>1 DEF StateOK, RegistersOK, n
  <2>2. h.reg[r] = "WAIT" => \E j \in 1 .. Len(g.buf) : Runs(g, j) /\ r \in Moved(At(g, j))
    <3> SUFFICES ASSUME h.reg[r] = "WAIT" PROVE \E j \in 1 .. Len(g.buf) : Runs(g, j) /\ r \in Moved(At(g, j))
      OBVIOUS
    <3>1. PICK j \in 1 .. n : Runs(h, j) /\ r \in Moved(At(h, j))
      BY <2>1
    <3>2. j \in 1 .. Len(g.buf)
      BY <1>1, <1>5
    <3> QED BY <1>7, <3>1, <3>2
  <2> QED BY <1>2, <2>1, <2>2
<1>10. SectionOK(g)
  <2> SUFFICES ASSUME NEW j \in 1 .. n + 1, j > 1, Started(g, j)
               PROVE  g.lock /\ \A i \in 1 .. j : ~IsA(g, i, "LOCK") /\ ~IsA(g, i, "UNLOCK")
    BY <1>5 DEF SectionOK
  <2>1. j \in 1 .. n /\ \A i \in 1 .. j : i \in 1 .. n
    BY <1>1, <1>7
  <2>2. h.lock /\ \A i \in 1 .. j : ~IsA(h, i, "LOCK") /\ ~IsA(h, i, "UNLOCK")
    BY <1>1, <1>7, <2>1 DEF StateOK, SectionOK, n
  <2> QED BY <1>2, <1>7, <2>1, <2>2
<1>11. LoadsOK(g, u)
  <2> DEFINE s == Pending(h, t)
  <2> SUFFICES ASSUME NEW j \in DOMAIN s, NEW r \in HiveRegister,
                      s[j].op = "LOAD", r \in s[j].writes,
                      j <= n + 1 => ~Started(g, j), ~SectionEnds(s, 0, j)
               PROVE  g.reg[r] = "FREE"
    BY <1>5, <1>8 DEF LoadsOK
  <2>1. j \in Nat \ {0}
    <3>1. DOMAIN s = 1 .. n + Len(t)
      BY DEF Pending, n
    <3> QED BY <1>1, <1>4, <3>1
  <2>2. j <= n => ~Started(h, j)
    <3> SUFFICES ASSUME j <= n PROVE ~Started(h, j)
      OBVIOUS
    <3>1. j \in 1 .. n /\ j <= n + 1
      BY <1>1, <2>1
    <3> QED BY <1>7, <3>1
  <2>3. h.reg[r] = "FREE"
    BY <1>1, <2>2 DEF StateOK, LoadsOK, n
  <2> QED BY <1>2, <2>3
<1>12. UsesOK(g)
  <2>1. ASSUME NEW i \in 1 .. n + 1, NEW j \in 1 .. n + 1, i < j, Runs(g, j),
               IsA(g, j, "ALU") \/ IsA(g, j, "STORE"), IsA(g, i, "LOAD"),
               NEW r \in HiveRegister, r \in At(g, i).writes, r \in At(g, j).reads
        PROVE  Runs(g, i) /\ g.sub[r].op # "READ"
    <3>1. i \in 1 .. n /\ j \in 1 .. n
      BY <1>1, <1>7, <2>1
    <3>2. Runs(h, i) /\ h.sub[r].op # "READ"
      BY <1>1, <1>7, <2>1, <3>1 DEF StateOK, UsesOK, n
    <3> QED BY <1>2, <1>7, <3>1, <3>2
  <2>2. ASSUME NEW i \in 1 .. n + 1, g.buf[i].status = "TRANSMIT" PROVE IsA(g, i, "ALU")
    <3>1. i \in 1 .. n
      BY <1>1, <1>7, <2>2
    <3> QED BY <1>1, <1>5, <1>7, <2>2, <3>1 DEF StateOK, UsesOK, n
  <2> QED BY <1>5, <2>1, <2>2 DEF UsesOK
<1>13. SkippedIsHead(g)
  <2> SUFFICES ASSUME NEW i \in 1 .. n + 1, NEW j \in 1 .. n + 1, i < j, Started(g, j), IsA(g, i, "LOAD")
               PROVE  Runs(g, i) \/ i = 1
    BY <1>5 DEF SkippedIsHead
  <2>1. i \in 1 .. n /\ j \in 1 .. n
    <3>1. j # n + 1
      BY <1>7
    <3> QED BY <1>1, <3>1
  <2>2. SkippedIsHead(h)
    BY DEF HiveInv, h
  <2> QED BY <1>7, <2>1, <2>2 DEF SkippedIsHead, n
<1>14. StateOK(g, u)
  <2>1. Len(g.buf) <= HIVE_BUFFER
    BY <1>1, <1>5
  <2>2. WellFormed(Pending(g, u), g.lock)
    BY <1>1, <1>2, <1>8 DEF StateOK
  <2> QED BY <1>6, <1>9, <1>10, <1>11, <1>12, <2>1, <2>2 DEF StateOK
<1> QED BY <1>4, <1>13, <1>14 DEF HiveInv, g, u

\* The memory controller answers sub-request k of register r.
LEMMA AnswerKeeps ==
  ASSUME HiveInv, NEW r \in HiveRegister, NEW k \in Nano, NanoAnswer(r, k)
  PROVE  HiveInv'
<1> DEFINE h == HiveState
           g == HiveState'
           s == h.sub[r]
           status == [s.status EXCEPT ![k] = "WAIT"]
           x == [s EXCEPT !.status = status]
           sub == [h.sub EXCEPT ![r] = x]
<1>1. /\ StateOK(h, hive_trace) /\ SkippedIsHead(h) /\ hive_trace \in Trace /\ h \in ClockState
      /\ h.sub \in [HiveRegister -> SubRequests] /\ s \in SubRequests /\ s.status[k] = "TRANSMIT"
  BY HiveFields DEF HiveInv, StateOK, ClockState, NanoAnswer
<1>2. hive_trace' = hive_trace /\ hive_sub_requests' = sub
  <2>1. hive_sub_requests' = [h.sub EXCEPT ![r] = [h.sub[r] EXCEPT !.status = [h.sub[r].status EXCEPT ![k] = "WAIT"]]]
    BY HiveFields, Zenon DEF NanoAnswer
  <2> QED BY <2>1 DEF NanoAnswer
<1>3. /\ g.buf = h.buf /\ g.lock = h.lock /\ g.reg = h.reg /\ g.sub = sub
      /\ g = [buf |-> h.buf, lock |-> h.lock, ended |-> FALSE, reg |-> h.reg, sub |-> sub]
  <2> HIDE DEF sub
  <2> QED BY <1>2 DEF HiveState, NanoAnswer
<1> HIDE DEF h, g
<1>4. status \in [Nano -> {"FREE", "TRANSMIT", "WAIT"}]
  BY <1>1 DEF SubRequests
<1>5. x \in SubRequests /\ x.op = s.op /\ x.ready = s.ready /\ x.status = status
  <2> HIDE DEF status
  <2> QED BY <1>1, <1>4 DEF SubRequests
<1>6. Outstanding(x) = Outstanding(s)
  <2>1. \A n \in Nano : status[n] # "FREE" <=> s.status[n] # "FREE"
    BY <1>1 DEF SubRequests
  <2> HIDE DEF status, x, s
  <2> QED BY <1>5, <2>1 DEF Outstanding
<1>7. s # NoSubRequests
  BY <1>1 DEF NoSubRequests
<1> HIDE DEF x, s
<1>8. /\ sub \in [HiveRegister -> SubRequests] /\ sub[r] = x
      /\ \A y \in HiveRegister : y # r => sub[y] = h.sub[y]
  BY <1>1, <1>5
<1> HIDE DEF sub
<1>9. g \in ClockState
  BY <1>1, <1>3, <1>8 DEF ClockState
<1>10. \A y \in HiveRegister :
         /\ g.sub[y].op = h.sub[y].op
         /\ g.sub[y].ready + Cardinality(Outstanding(g.sub[y])) <= nano_requests_number
         /\ h.sub[y] = NoSubRequests => g.sub[y] = NoSubRequests
  <2> TAKE y \in HiveRegister
  <2>1. h.sub[y].ready + Cardinality(Outstanding(h.sub[y])) <= nano_requests_number
    BY <1>1 DEF StateOK, RegistersOK
  <2>2. CASE y # r
    BY <1>3, <1>8, <2>1, <2>2
  <2>3. CASE y = r
    <3>1. g.sub[y] = x /\ h.sub[y] = s
      BY <1>3, <1>8, <2>3 DEF s
    <3> QED BY <1>5, <1>6, <1>7, <2>1, <3>1
  <2> QED BY <2>2, <2>3
<1>11. \A j \in 1 .. Len(h.buf) : At(g, j) = At(h, j) /\ g.buf[j].status = h.buf[j].status
  BY <1>3 DEF At
<1>12. StateOK(g, hive_trace) /\ SkippedIsHead(g)
  <2>1. Len(g.buf) = Len(h.buf) /\ g.lock = h.lock /\ g.reg = h.reg
    BY <1>3
  <2>2. StateOK(g, hive_trace)
    BY <1>1, <1>9, <1>10, <1>11, <2>1, SameStates
  <2>3. SkippedIsHead(g)
    BY <1>1, <1>9, <1>10, <1>11, <2>1, SameStates
  <2> QED BY <2>2, <2>3
<1> QED BY <1>1, <1>2, <1>12 DEF HiveInv, g

\* A clock goes by.
LEMMA TickKeeps ==
  ASSUME HiveInv, NEW g, g = [buf |-> Tick(hive_instructions), lock |-> hive_lock, ended |-> FALSE,
                              reg |-> hive_register_state, sub |-> hive_sub_requests]
  PROVE  StateOK(g, hive_trace) /\ SkippedIsHead(g) /\ ~g.ended
<1> DEFINE h == HiveState
           b == Tick(h.buf)
<1>1. /\ StateOK(h, hive_trace) /\ SkippedIsHead(h) /\ hive_trace \in Trace /\ h \in ClockState
      /\ h.buf \in Seq(HiveEntry) /\ hive_op_latency \in Nat
  BY HiveAssumption DEF HiveInv, StateOK, ClockState
<1>2. g = [buf |-> b, lock |-> h.lock, ended |-> FALSE, reg |-> h.reg, sub |-> h.sub]
  BY HiveFields
<1> HIDE DEF h
<1>3. \A i \in 1 .. Len(h.buf) : LET e == [h.buf[i] EXCEPT !.left = IF @ = 0 THEN 0 ELSE @ - 1]
                                 IN /\ b[i] = e /\ e \in HiveEntry
                                    /\ e.instruction = h.buf[i].instruction /\ e.status = h.buf[i].status
  <2> TAKE i \in 1 .. Len(h.buf)
  <2> DEFINE e == [h.buf[i] EXCEPT !.left = IF @ = 0 THEN 0 ELSE @ - 1]
  <2>1. h.buf[i] \in HiveEntry /\ i \in DOMAIN h.buf
    BY <1>1
  <2>2. e \in HiveEntry /\ e.instruction = h.buf[i].instruction /\ e.status = h.buf[i].status
    <3> DEFINE l == IF h.buf[i].left = 0 THEN 0 ELSE h.buf[i].left - 1
    <3>1. h.buf[i].left \in 0 .. hive_op_latency
      BY <2>1 DEF HiveEntry
    <3>2. l \in 0 .. hive_op_latency
      BY <1>1, <3>1
    <3>3. e = [h.buf[i] EXCEPT !.left = l]
      OBVIOUS
    <3> HIDE DEF l, e
    <3> QED BY <2>1, <3>2, <3>3 DEF HiveEntry
  <2>3. b[i] = e
    BY <2>1 DEF Tick
  <2> QED BY <2>2, <2>3
<1>4. b \in Seq(HiveEntry) /\ Len(b) = Len(h.buf)
  <2>1. DOMAIN b = 1 .. Len(h.buf) /\ b = [i \in 1 .. Len(h.buf) |-> b[i]] /\ Len(h.buf) \in Nat
    BY <1>1 DEF Tick
  <2>2. \A i \in 1 .. Len(h.buf) : b[i] \in HiveEntry
    BY <1>3
  <2> HIDE DEF b
  <2> QED BY <2>1, <2>2
<1> HIDE DEF b
<1>5. g \in ClockState /\ Len(g.buf) = Len(h.buf) /\ g.lock = h.lock /\ g.reg = h.reg /\ g.sub = h.sub /\ g.buf = b
  BY <1>1, <1>2, <1>4 DEF ClockState
<1>6. \A j \in 1 .. Len(h.buf) : At(g, j) = At(h, j) /\ g.buf[j].status = h.buf[j].status
  BY <1>3, <1>5 DEF At
<1>7. \A r \in HiveRegister : h.sub[r].ready + Cardinality(Outstanding(h.sub[r])) <= nano_requests_number
  BY <1>1 DEF StateOK, RegistersOK
<1>8. StateOK(g, hive_trace) /\ SkippedIsHead(g)
  BY <1>1, <1>5, <1>6, <1>7, SameStates
<1> QED BY <1>2, <1>8

LEMMA HiveClockKeeps ==
  ASSUME HiveInv, hive_clock
  PROVE  HiveInv'
<1> DEFINE now == [buf |-> Tick(hive_instructions), lock |-> hive_lock, ended |-> FALSE,
                   reg |-> hive_register_state, sub |-> hive_sub_requests]
           t == hive_trace
<1>1. StateOK(now, t) /\ SkippedIsHead(now) /\ ~now.ended /\ t \in Trace
  BY TickKeeps DEF HiveInv
<1>2. PICK counted \in AfterRegisters(now) : \E h \in AfterWalk(counted) :
        /\ hive_instructions' = h.buf
        /\ hive_lock' = h.lock
        /\ hive_register_state' = h.reg
        /\ hive_sub_requests' = h.sub
  BY DEF hive_clock
<1> HIDE DEF now
<1>3. PICK h \in AfterWalk(counted) :
        /\ hive_instructions' = h.buf
        /\ hive_lock' = h.lock
        /\ hive_register_state' = h.reg
        /\ hive_sub_requests' = h.sub
  BY <1>2
<1>4. StateOK(counted, t) /\ SkippedIsHead(counted) /\ ~counted.ended
  BY <1>1, RegistersKeep
<1>5. StateOK(h, t) /\ SkippedIsHead(h)
  BY <1>1, <1>4, WalkKeepsAll
<1>6. HiveState' = [buf |-> h.buf, lock |-> h.lock, ended |-> FALSE, reg |-> h.reg, sub |-> h.sub]
  BY <1>3 DEF HiveState
<1> DEFINE g == HiveState'
<1>7. g \in ClockState /\ g.buf = h.buf /\ g.lock = h.lock /\ g.reg = h.reg /\ g.sub = h.sub
  BY <1>5, <1>6 DEF StateOK, ClockState
<1> HIDE DEF g
<1>8. StateOK(g, t)
  BY <1>5, <1>7, StateSame
<1>9. SkippedIsHead(g)
  BY <1>5, <1>7 DEF SkippedIsHead, Started, Runs, IsA, At
<1>10. hive_trace' = t
  BY DEF hive_clock
<1> QED BY <1>1, <1>8, <1>9, <1>10 DEF HiveInv, g

LEMMA HiveInitially ==
  ASSUME WellFormedTraces, HiveInit
  PROVE  HiveInv
<1> DEFINE h == HiveState
           t == hive_trace
<1>1. t \in Seq(hive_instruction_t) /\ WellFormed(t, FALSE) /\ HIVE_BUFFER \in Nat
  BY HiveAssumption DEF WellFormedTraces, HiveInit
<1>2. /\ h.buf = <<>> /\ h.lock = FALSE /\ h.ended = FALSE
      /\ h.reg = [r \in HiveRegister |-> "FREE"] /\ h.sub = [r \in HiveRegister |-> NoSubRequests]
      /\ h = [buf |-> h.buf, lock |-> h.lock, ended |-> h.ended, reg |-> h.reg, sub |-> h.sub]
  BY DEF HiveState, HiveInit
<1> HIDE DEF h
<1>3. /\ NoSubRequests \in SubRequests
      /\ NoSubRequests.ready + Cardinality(Outstanding(NoSubRequests)) <= nano_requests_number
  <2>1. nano_requests_number \in Nat
    BY HiveAssumption
  <2>2. NoSubRequests \in SubRequests /\ NoSubRequests.ready = 0
    BY <2>1 DEF NoSubRequests, SubRequests
  <2>3. Outstanding(NoSubRequests) = {}
    BY DEF NoSubRequests, Outstanding
  <2>4. Cardinality({}) = 0
    BY FS_EmptySet
  <2> QED BY <2>1, <2>2, <2>3, <2>4
<1>4. h.buf \in Seq(HiveEntry) /\ Len(h.buf) = 0
  BY <1>2
<1>5. h \in ClockState
  BY <1>2, <1>3, <1>4 DEF ClockState
<1>6. Pending(h, t) = t
  <2>1. Len(t) \in Nat /\ t = [i \in 1 .. Len(t) |-> t[i]]
    BY <1>1
  <2>2. \A i \in 1 .. Len(t) : ~(i <= 0) /\ i - 0 = i
    BY <2>1
  <2>3. 0 + Len(t) = Len(t)
    BY <2>1
  <2> HIDE DEF t
  <2>4. Pending(h, t) = [i \in 1 .. Len(t) |-> t[i]]
    BY <1>4, <2>2, <2>3 DEF Pending
  <2> QED BY <2>1, <2>4
<1>7. RegistersOK(h)
  BY <1>2, <1>3 DEF RegistersOK
<1>8. SectionOK(h) /\ UsesOK(h) /\ SkippedIsHead(h)
  <2>1. \A i : i \notin 1 .. Len(h.buf)
    BY <1>4
  <2> QED BY <2>1 DEF SectionOK, UsesOK, SkippedIsHead
<1>9. LoadsOK(h, t)
  BY <1>2 DEF LoadsOK
<1>10. Len(h.buf) <= HIVE_BUFFER
  BY <1>1, <1>4
<1>11. WellFormed(Pending(h, t), h.lock)
  BY <1>1, <1>2, <1>6
<1>12. StateOK(h, t)
  BY <1>5, <1>7, <1>8, <1>9, <1>10, <1>11 DEF StateOK
<1> QED BY <1>1, <1>8, <1>12 DEF HiveInv, Trace, h

\* The HIVE controller, given traces it is for.
LEMMA HiveSafe == WellFormedTraces /\ Spec => []HiveInv
<1> SUFFICES ASSUME WellFormedTraces PROVE Spec => []HiveInv
  OBVIOUS
<1>1. Init => HiveInv
  BY HiveInitially DEF Init
<1>2. HiveInv /\ [Next]_vars => HiveInv'
  <2> SUFFICES ASSUME HiveInv, [Next]_vars PROVE HiveInv'
    OBVIOUS
  <2>1. CASE UNCHANGED hiveVars
    <3>1. HiveState' = HiveState /\ hive_trace' = hive_trace
      BY <2>1 DEF hiveVars, HiveState
    <3> QED BY <3>1 DEF HiveInv
  <2>2. CASE HiveNext
    BY <2>2, AddKeeps, AnswerKeeps, HiveClockKeeps DEF HiveNext
  <2> QED BY <2>1, <2>2 DEF Next, vars
<1> QED BY <1>1, <1>2, PTL DEF Spec

\* An instruction executes with the registers that it reads loaded, although
\* the walk may skip a LOAD: a skipped one is the head of the buffer, and the
\* younger ones have begun before it was skipped.  For every trace that loads a
\* register once in a section and does not mix it with one that is set without
\* operands, every size of the buffer and the registers, and any order of answers.
THEOREM ExecutedWithRegisters == WellFormedTraces /\ Spec => []LoadedBeforeUse
<1>1. HiveInv => LoadedBeforeUse
  <2> SUFFICES ASSUME HiveInv, NEW i \in DOMAIN hive_instructions, NEW j \in DOMAIN hive_instructions,
                      i < j, hive_instructions[j].status = "HIVE",
                      hive_instructions[j].instruction.op \in {"ALU", "STORE"},
                      hive_instructions[i].instruction.op = "LOAD",
                      NEW r \in hive_instructions[i].instruction.writes \cap hive_instructions[j].instruction.reads
               PROVE  hive_instructions[i].status = "HIVE" /\ hive_sub_requests[r].op # "READ"
    BY DEF LoadedBeforeUse
  <2> DEFINE h == HiveState
  <2>1. StateOK(h, hive_trace) /\ h.buf = hive_instructions /\ h.sub = hive_sub_requests
    BY HiveFields DEF HiveInv
  <2> HIDE DEF h
  <2>2. h \in ClockState /\ i \in 1 .. Len(h.buf) /\ j \in 1 .. Len(h.buf) /\ hive_trace \in Trace
    BY <2>1 DEF StateOK, ClockState, HiveInv
  <2>3. r \in HiveRegister
    <3>1. At(h, i) \in hive_instruction_t
      BY <2>2, PendingType
    <3> QED BY <2>1, <3>1 DEF hive_instruction_t, At
  <2> QED BY <2>1, <2>2, <2>3 DEF StateOK, UsesOK, Runs, IsA, At
<1> QED BY <1>1, HiveSafe, PTL

\* hive_dispatch asserts that a LOCK is executed while the controller is
\* unlocked and an UNLOCK while it is locked: nothing of another section begins.
THEOREM LocksAlternate == WellFormedTraces /\ Spec => []LockAsserted
<1>1. HiveInv => LockAsserted
  <2> SUFFICES ASSUME HiveInv, NEW i \in DOMAIN hive_instructions, hive_instructions[i].status = "HIVE"
               PROVE  /\ hive_instructions[i].instruction.op = "LOCK" => ~hive_lock
                      /\ hive_instructions[i].instruction.op = "UNLOCK" => hive_lock
    BY DEF LockAsserted
  <2> DEFINE h == HiveState
             s == Pending(h, hive_trace)
  <2>1. StateOK(h, hive_trace) /\ h.buf = hive_instructions /\ h.lock = hive_lock
    BY HiveFields DEF HiveInv
  <2> HIDE DEF h
  <2>2. h \in ClockState /\ i \in 1 .. Len(h.buf) /\ hive_trace \in Trace
    BY <2>1 DEF StateOK, ClockState, HiveInv
  <2>3. i > 1 => ~IsA(h, i, "LOCK") /\ ~IsA(h, i, "UNLOCK")
    BY <2>1, <2>2 DEF StateOK, SectionOK, Started
  <2>4. ASSUME i = 1
        PROVE  (IsA(h, i, "LOCK") => ~h.lock) /\ (IsA(h, i, "UNLOCK") => h.lock)
    <3>1. 1 \in DOMAIN s /\ s[1] = At(h, 1) /\ InSections(s, h.lock)
      BY <2>1, <2>2, <2>4, PendingType DEF StateOK, WellFormed
    <3>2. ~SectionEnds(s, 0, 1)
      BY <2>1, <2>2, <2>4, OneSection
    <3> HIDE DEF s
    <3> QED BY <2>4, <3>1, <3>2 DEF InSections, IsA
  <2> QED BY <2>1, <2>2, <2>3, <2>4 DEF IsA, At
<1> QED BY <1>1, HiveSafe, PTL

\* UNLOCK frees every register, and none of them then has sub-requests in the
\* memory controller that would come back to the next section: an instruction
\* that loads or stores a register is older than the UNLOCK and in the buffer.
THEOREM IdleWhenUnlocked == WellFormedTraces /\ Spec => []UnlockedIsIdle
<1>1. HiveInv => UnlockedIsIdle
  <2> SUFFICES ASSUME HiveInv, ~hive_lock, NEW r \in HiveRegister
               PROVE  hive_register_state[r] = "FREE" /\ hive_sub_requests[r] = NoSubRequests
    BY DEF UnlockedIsIdle
  <2>1. RegistersOK(HiveState)
    BY DEF HiveInv, StateOK
  <2> QED BY <2>1, HiveFields DEF RegistersOK
<1> QED BY <1>1, HiveSafe, PTL

\* Both controllers keep their types: the HIVE controller never counts more
\* sub-requests of a register than there are memory lines in it.
THEOREM NearDataTypeCorrect == WellFormedTraces /\ Spec => []TypeOK
<1> SUFFICES ASSUME WellFormedTraces PROVE Spec => []TypeOK
  OBVIOUS
<1>1. HiveInv => HiveTypeOK
  <2> SUFFICES ASSUME HiveInv PROVE HiveTypeOK
    OBVIOUS
  <2>1. HiveState \in ClockState /\ Len(HiveState.buf) <= HIVE_BUFFER
    BY DEF HiveInv, StateOK
  <2>2. /\ HiveState.buf \in Seq(HiveEntry) /\ HiveState.lock \in BOOLEAN
        /\ HiveState.reg \in [HiveRegister -> {"FREE", "WAIT", "READY"}]
        /\ HiveState.sub \in [HiveRegister -> SubRequests]
    BY <2>1 DEF ClockState
  <2> QED BY <2>1, <2>2, HiveFields DEF HiveTypeOK, HiveEntry, SubRequests
<1>2. Spec => []HiveInv
  BY HiveSafe
<1>3. Spec => [](device \in {"VIMA", "HIVE"})
  <2>1. Init => device \in {"VIMA", "HIVE"}
    BY DEF Init
  <2>2. device \in {"VIMA", "HIVE"} /\ [Next]_vars => (device \in {"VIMA", "HIVE"})'
    BY DEF Next, vars
  <2> QED BY <2>1, <2>2, PTL DEF Spec
<1>4. VimaTypeOK /\ HiveInv /\ device \in {"VIMA", "HIVE"} => TypeOK
  BY <1>1 DEF TypeOK
<1> QED BY <1>2, <1>3, <1>4, VimaTypeCorrect, PTL
=============================================================================
