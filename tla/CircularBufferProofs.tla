------------------------ MODULE CircularBufferProofs ------------------------
(***************************************************************************)
(* The ring of utils/circular_buffer.hpp, for every capacity and every set *)
(* of packages: its cursors agree, its unused slots are clean, and it      *)
(* implements the bounded double ended queue of module Deque.              *)
(***************************************************************************)
EXTENDS CircularBuffer, TLAPS

Inv == TypeOK /\ CursorsAgree /\ OccupiedExactlyLive

\* The initial ring satisfies the invariant: it is empty and every slot clean.
LEMMA InitInv == Init => Inv
BY CapacityAssumption, CleanAssumption
   DEF Init, Inv, TypeOK, CursorsAgree, OccupiedExactlyLive, Live, At, Slots, POSITION_FAIL

\* Every operation keeps the cursors in the ring and a slot for every package.
LEMMA StepTypeOK == TypeOK /\ CursorsAgree /\ [Next]_vars => TypeOK'
<1> SUFFICES ASSUME TypeOK, CursorsAgree, [Next]_vars PROVE TypeOK'
  OBVIOUS
<1> USE CapacityAssumption
    DEF TypeOK, Slots, Following, Preceding, is_full, POSITION_FAIL, CursorsAgree
<1>1. ASSUME NEW e \in Package, push_back(e) PROVE TypeOK'
  BY <1>1 DEF push_back
<1>2. ASSUME NEW e \in Package, push_front(e) PROVE TypeOK'
  BY <1>2 DEF push_front
<1>3. CASE pop_front
  BY <1>3 DEF pop_front
<1>4. CASE pop_back
  BY <1>4 DEF pop_back
<1>5. CASE pop_push
  BY <1>5 DEF pop_push
<1>6. CASE UNCHANGED vars
  BY <1>6 DEF vars
<1> QED
  BY <1>1, <1>2, <1>3, <1>4, <1>5, <1>6 DEF Next

\* No operation lets the cursors and the size drift apart.
LEMMA StepCursors == TypeOK /\ CursorsAgree /\ [Next]_vars => CursorsAgree'
<1> SUFFICES ASSUME TypeOK, CursorsAgree, [Next]_vars PROVE CursorsAgree'
  OBVIOUS
<1> USE CapacityAssumption
    DEF TypeOK, Slots, Following, Preceding, is_full, CursorsAgree
<1>1. ASSUME NEW e \in Package, push_back(e) PROVE CursorsAgree'
  BY <1>1 DEF push_back
<1>2. ASSUME NEW e \in Package, push_front(e) PROVE CursorsAgree'
  BY <1>2 DEF push_front
<1>3. CASE pop_front
  BY <1>3 DEF pop_front
<1>4. CASE pop_back
  BY <1>4 DEF pop_back
<1>5. CASE pop_push
  BY <1>5 DEF pop_push
<1>6. CASE UNCHANGED vars
  BY <1>6 DEF vars
<1> QED
  BY <1>1, <1>2, <1>3, <1>4, <1>5, <1>6 DEF Next

\* Membership in Live without its range of offsets: the slots from beg_index
\* on, and those before the wrapped end.
LiveIsInterval ==
  \A s \in Slots : s \in Live <=> \/ beg_index <= s /\ s < beg_index + size
                                 \/ s + capacity < beg_index + size

LEMMA LiveSlots == TypeOK => LiveIsInterval
<1> SUFFICES ASSUME TypeOK, NEW s \in Slots
             PROVE  s \in Live <=> \/ beg_index <= s /\ s < beg_index + size
                                  \/ s + capacity < beg_index + size
  BY DEF LiveIsInterval
<1> USE CapacityAssumption DEF TypeOK, Slots
<1>1. ASSUME s \in Live
      PROVE  (beg_index <= s /\ s < beg_index + size) \/ s + capacity < beg_index + size
  BY <1>1 DEF Live, At
<1>2. ASSUME beg_index <= s /\ s < beg_index + size
      PROVE  s \in Live
  <2>1. s - beg_index \in 0 .. size - 1 /\ At(s - beg_index) = s
    BY <1>2 DEF At
  <2> QED BY <2>1 DEF Live
<1>3. ASSUME s + capacity < beg_index + size
      PROVE  s \in Live
  <2>1. s + capacity - beg_index \in 0 .. size - 1 /\ At(s + capacity - beg_index) = s
    BY <1>3 DEF At
  <2> QED BY <2>1 DEF Live
<1> QED BY <1>1, <1>2, <1>3

\* The same after a step that keeps the types.
LEMMA LiveSlotsNext == TypeOK' => LiveIsInterval'
BY LiveSlots, PTL

\* No operation loses a package, leaves one behind or cleans the wrong slot.
LEMMA StepOccupied == Inv /\ TypeOK' /\ [Next]_vars => OccupiedExactlyLive'
<1> SUFFICES ASSUME Inv, TypeOK', [Next]_vars, NEW s \in Slots
             PROVE  data'[s] # Clean <=> s \in Live'
  BY DEF OccupiedExactlyLive
<1>l. data[s] # Clean <=> \/ beg_index <= s /\ s < beg_index + size
                          \/ s + capacity < beg_index + size
  BY LiveSlots DEF Inv, OccupiedExactlyLive, LiveIsInterval
<1>g. data[beg_index] # Clean <=> size > 0
  <2>1. beg_index \in Live <=> size > 0
    BY LiveSlots, CapacityAssumption DEF Inv, TypeOK, Slots, LiveIsInterval
  <2> QED BY <2>1 DEF Inv, OccupiedExactlyLive, TypeOK
<1> SUFFICES data'[s] # Clean <=> \/ beg_index' <= s /\ s < beg_index' + size'
                                  \/ s + capacity < beg_index' + size'
  BY LiveSlotsNext DEF LiveIsInterval
<1> USE CapacityAssumption, CleanAssumption, <1>l
    DEF Inv, TypeOK, Slots, Following, Preceding, is_full, CursorsAgree
<1>1. ASSUME NEW e \in Package, push_back(e)
      PROVE  data'[s] # Clean <=> \/ beg_index' <= s /\ s < beg_index' + size'
                                  \/ s + capacity < beg_index' + size'
  <2>1. CASE is_full
    BY <1>1, <2>1 DEF push_back
  <2>2. CASE ~is_full
    <3>1. /\ size' = size + 1 /\ beg_index' = beg_index
          /\ data'[s] = IF s = end_index THEN e ELSE data[s]
      BY <1>1, <2>2 DEF push_back
    <3>2. e # Clean
      OBVIOUS
    <3> QED BY <2>2, <3>1, <3>2
  <2> QED BY <2>1, <2>2
<1>2. ASSUME NEW e \in Package, push_front(e)
      PROVE  data'[s] # Clean <=> \/ beg_index' <= s /\ s < beg_index' + size'
                                  \/ s + capacity < beg_index' + size'
  <2>1. CASE is_full
    BY <1>2, <2>1 DEF push_front
  <2>2. CASE ~is_full
    <3>1. /\ size' = size + 1 /\ beg_index' = Preceding(beg_index)
          /\ data'[s] = IF s = Preceding(beg_index) THEN e ELSE data[s]
      BY <1>2, <2>2 DEF push_front
    <3>2. e # Clean
      OBVIOUS
    <3> QED BY <2>2, <3>1, <3>2
  <2> QED BY <2>1, <2>2
<1>3. ASSUME pop_front
      PROVE  data'[s] # Clean <=> \/ beg_index' <= s /\ s < beg_index' + size'
                                  \/ s + capacity < beg_index' + size'
  BY <1>3 DEF pop_front
<1>4. ASSUME pop_back
      PROVE  data'[s] # Clean <=> \/ beg_index' <= s /\ s < beg_index' + size'
                                  \/ s + capacity < beg_index' + size'
  BY <1>4 DEF pop_back
<1>5. ASSUME pop_push
      PROVE  data'[s] # Clean <=> \/ beg_index' <= s /\ s < beg_index' + size'
                                  \/ s + capacity < beg_index' + size'
  BY <1>5, <1>g DEF pop_push
<1>6. ASSUME UNCHANGED vars
      PROVE  data'[s] # Clean <=> \/ beg_index' <= s /\ s < beg_index' + size'
                                  \/ s + capacity < beg_index' + size'
  BY <1>6 DEF vars
<1> QED BY <1>1, <1>2, <1>3, <1>4, <1>5, <1>6 DEF Next

\* The ring's invariant: types, cursors that agree with the size, and packages
\* exactly in the slots between the cursors.
THEOREM RingInvariant == Spec => []Inv
<1>1. Inv /\ [Next]_vars => Inv'
  BY StepTypeOK, StepCursors, StepOccupied DEF Inv
<1> QED BY InitInv, <1>1, PTL DEF Spec

\* The cursors of the ring never drift apart (property CursorsAgree).
THEOREM CursorsAlwaysAgree == Spec => []CursorsAgree
<1>1. Inv => CursorsAgree  BY DEF Inv
<1> QED BY RingInvariant, <1>1, PTL

\* A slot holds a package exactly when it is between the cursors.
THEOREM NoPackageLost == Spec => []OccupiedExactlyLive
<1>1. Inv => OccupiedExactlyLive  BY DEF Inv
<1> QED BY RingInvariant, <1>1, PTL

\* The slot `k` places after slot `b`, as a function of both.
Slot(b, k) == IF b + k >= capacity THEN b + k - capacity ELSE b + k

\* The abstract value with the cursor as an explicit argument.
LEMMA ContentsBySlot == Contents = [k \in 1 .. size |-> data[Slot(beg_index, k - 1)]]
BY Zenon DEF Contents, At, Slot

\* The same after a step.
LEMMA ContentsBySlotNext ==
  Contents' = [k \in 1 .. size' |-> data'[Slot(beg_index', k - 1)]]
<1>1. (Contents = [k \in 1 .. size |-> data[Slot(beg_index, k - 1)]])'
  BY ContentsBySlot, PTL
<1> QED BY <1>1

\* The abstract value is a sequence of as many packages as the ring counts.
LEMMA ContentsSeq ==
  Inv => Contents \in Seq(Package) /\ Len(Contents) = size /\ size \in Nat
<1> SUFFICES ASSUME Inv PROVE Contents \in Seq(Package) /\ Len(Contents) = size /\ size \in Nat
  OBVIOUS
<1>1. ASSUME NEW k \in 1 .. size PROVE Contents[k] \in Package
  <2>1. At(k - 1) \in Live /\ At(k - 1) \in Slots
    <3>1. k - 1 \in 0 .. size - 1
      BY DEF Inv, TypeOK
    <3>2. At(k - 1) \in Slots
      BY CapacityAssumption DEF Inv, TypeOK, At, Slots
    <3> QED BY <3>1, <3>2 DEF Live
  <2>2. data[At(k - 1)] \in Package
    BY <2>1 DEF Inv, TypeOK, OccupiedExactlyLive
  <2> QED BY <2>2 DEF Contents
<1>2. size \in Nat
  BY CapacityAssumption DEF Inv, TypeOK
<1>3. Contents \in [1 .. size -> Package]
  BY <1>1 DEF Contents
<1> QED BY <1>2, <1>3

\* The empty ring stands for the empty queue.
LEMMA RefinesInit == Init => Abstract!Init
<1> SUFFICES ASSUME Init PROVE Abstract!Init
  OBVIOUS
<1>1. Contents = [k \in 1 .. 0 |-> data[At(k - 1)]]
  BY DEF Init, Contents
<1>2. Contents = <<>>
  BY <1>1
<1> QED BY <1>2 DEF Init, Abstract!Init, Abstract!POSITION_FAIL, POSITION_FAIL

\* A push or pop of the ring is the same push or pop of the queue.
LEMMA RefinesStep == Inv /\ Inv' /\ [Next]_vars => [Abstract!Next]_<<Contents, position>>
<1> SUFFICES ASSUME Inv, Inv', [Next]_vars
             PROVE  [Abstract!Next]_<<Contents, position>>
  OBVIOUS
<1>s. /\ Contents \in Seq(Package) /\ Len(Contents) = size
      /\ \A k \in 1 .. size : Contents[k] = data[Slot(beg_index, k - 1)]
  BY ContentsSeq, ContentsBySlot
<1>t. /\ Contents' \in Seq(Package) /\ Len(Contents') = size'
      /\ \A k \in 1 .. size' : Contents'[k] = data'[Slot(beg_index', k - 1)]
  <2>1. (Inv => Contents \in Seq(Package) /\ Len(Contents) = size /\ size \in Nat)'
    BY ContentsSeq, PTL
  <2> QED BY <2>1, ContentsBySlotNext
<1>u. /\ beg_index \in Nat /\ beg_index < capacity /\ size \in Nat /\ size <= capacity
      /\ capacity \in Nat /\ capacity > 0
      /\ end_index = Slot(beg_index, size)
      /\ DOMAIN data = Slots
  BY CapacityAssumption DEF Inv, TypeOK, Slots, CursorsAgree, Slot
<1> USE DEF Following, Preceding, is_full, Slot, Slots, Abstract!POSITION_FAIL, POSITION_FAIL
<1>1. ASSUME NEW e \in Package, push_back(e) PROVE Abstract!PushBack(e)
  <2>1. CASE is_full
    <3>1. Contents' = Contents
      BY <1>1, <2>1, ContentsBySlot, ContentsBySlotNext, <1>u DEF push_back
    <3> QED BY <1>1, <2>1, <3>1, <1>s, <1>u DEF push_back, Abstract!PushBack, Abstract!Reject
  <2>2. CASE ~is_full
    <3>1. /\ size' = size + 1 /\ beg_index' = beg_index /\ position' = size
          /\ data' = [data EXCEPT ![end_index] = e]
      BY <1>1, <2>2 DEF push_back
    <3>2. size < capacity
      BY <1>u, <2>2
    <3>3. ASSUME NEW k \in 1 .. size + 1
          PROVE  Contents'[k] = Append(Contents, e)[k]
      BY <3>1, <3>2, <1>s, <1>t, <1>u
    <3>4. Append(Contents, e) \in Seq(Package) /\ Len(Append(Contents, e)) = size + 1
      BY <1>s
    <3>5. Contents' = Append(Contents, e)
      BY <3>1, <3>3, <3>4, <1>t
    <3> QED BY <3>1, <3>2, <3>5, <1>s DEF Abstract!PushBack
  <2> QED BY <2>1, <2>2
<1>2. ASSUME NEW e \in Package, push_front(e) PROVE Abstract!PushFront(e)
  <2>1. CASE is_full
    <3>1. Contents' = Contents
      BY <1>2, <2>1, ContentsBySlot, ContentsBySlotNext, <1>u DEF push_front
    <3> QED BY <1>2, <2>1, <3>1, <1>s, <1>u DEF push_front, Abstract!PushFront, Abstract!Reject
  <2>2. CASE ~is_full
    <3>1. /\ size' = size + 1 /\ beg_index' = Preceding(beg_index) /\ position' = 0
          /\ data' = [data EXCEPT ![Preceding(beg_index)] = e]
      BY <1>2, <2>2 DEF push_front
    <3>2. size < capacity
      BY <1>u, <2>2
    <3>3. ASSUME NEW k \in 1 .. size + 1
          PROVE  Contents'[k] = (<<e>> \o Contents)[k]
      BY <3>1, <3>2, <1>s, <1>t, <1>u
    <3>4. <<e>> \o Contents \in Seq(Package) /\ Len(<<e>> \o Contents) = size + 1
      BY <1>s
    <3>5. Contents' = <<e>> \o Contents
      BY <3>1, <3>3, <3>4, <1>t
    <3> QED BY <3>1, <3>2, <3>5, <1>s DEF Abstract!PushFront
  <2> QED BY <2>1, <2>2
<1>3. CASE pop_front
  <2>1. /\ size > 0 /\ size' = size - 1 /\ beg_index' = Following(beg_index)
        /\ data' = [data EXCEPT ![beg_index] = Clean] /\ position' = position
    BY <1>3 DEF pop_front
  <2>2. ASSUME NEW k \in 1 .. size - 1
        PROVE  Contents'[k] = Tail(Contents)[k]
    BY <2>1, <1>s, <1>t, <1>u
  <2>3. Contents # <<>> /\ Tail(Contents) \in Seq(Package) /\ Len(Tail(Contents)) = size - 1
    BY <2>1, <1>s
  <2>4. Contents' = Tail(Contents)
    BY <2>1, <2>2, <2>3, <1>t
  <2> QED BY <2>1, <2>3, <2>4 DEF Abstract!Next, Abstract!PopFront
<1>4. CASE pop_back
  <2>1. /\ size > 0 /\ size' = size - 1 /\ beg_index' = beg_index
        /\ data' = [data EXCEPT ![Preceding(end_index)] = Clean] /\ position' = position
    BY <1>4 DEF pop_back
  <2>2. ASSUME NEW k \in 1 .. size - 1
        PROVE  Contents'[k] = SubSeq(Contents, 1, size - 1)[k]
    <3>1. SubSeq(Contents, 1, size - 1)[k] = Contents[k]
      BY <2>1, <1>s
    <3>2. Slot(beg_index, k - 1) \in Slots /\ Slot(beg_index, k - 1) # Preceding(end_index)
      BY <2>1, <1>u
    <3>3. Contents'[k] = data[Slot(beg_index, k - 1)]
      BY <2>1, <3>2, <1>t, <1>u
    <3> QED BY <3>1, <3>3, <1>s, <1>u
  <2>3. /\ Contents # <<>> /\ SubSeq(Contents, 1, size - 1) \in Seq(Package)
        /\ Len(SubSeq(Contents, 1, size - 1)) = size - 1
    BY <2>1, <1>s
  <2>4. Contents' = SubSeq(Contents, 1, size - 1)
    BY <2>1, <2>2, <2>3, <1>t
  <2> QED BY <2>1, <2>3, <2>4, <1>s DEF Abstract!Next, Abstract!PopBack
<1>5. CASE pop_push
  <2>1. /\ size' = size /\ beg_index' = Following(beg_index) /\ position' = position
        /\ data' = [[data EXCEPT ![beg_index] = Clean] EXCEPT ![end_index] = data[beg_index]]
    BY <1>5 DEF pop_push
  <2>2. CASE size = 0
    <3>1. Contents = <<>> /\ Contents' = <<>>
      BY <2>1, <2>2, <1>s, <1>t
    <3> QED BY <2>1, <3>1
  <2>3. CASE size > 0
    <3>1. /\ Contents # <<>> /\ Head(Contents) = Contents[1] /\ Head(Contents) \in Package
          /\ Tail(Contents) \in Seq(Package) /\ Len(Tail(Contents)) = size - 1
      BY <2>3, <1>s
    <3>2. ASSUME NEW k \in 1 .. size
          PROVE  Contents'[k] = Append(Tail(Contents), Head(Contents))[k]
      <4>1. Contents'[k] = data'[Slot(Following(beg_index), k - 1)]
        BY <2>1, <1>t
      <4>2. Contents[1] = data[beg_index]
        BY <2>3, <1>s, <1>u
      <4>3. CASE k = size
        <5>1. Slot(Following(beg_index), k - 1) = end_index
          BY <4>3, <2>3, <1>u
        <5>2. data'[end_index] = data[beg_index]
          BY <2>1, <1>u
        <5> QED BY <4>1, <4>2, <4>3, <5>1, <5>2, <3>1, <1>u
      <4>4. CASE k < size
        <5>1. /\ Slot(Following(beg_index), k - 1) = Slot(beg_index, k)
              /\ Slot(beg_index, k) \in Slots
              /\ Slot(beg_index, k) # beg_index /\ Slot(beg_index, k) # end_index
          BY <4>4, <2>3, <1>u
        <5>2. data'[Slot(beg_index, k)] = data[Slot(beg_index, k)]
          BY <2>1, <5>1, <1>u
        <5>3. Append(Tail(Contents), Head(Contents))[k] = Contents[k + 1]
          BY <4>4, <3>1, <1>s, <1>u
        <5> QED BY <4>1, <4>4, <5>1, <5>2, <5>3, <1>s, <1>u
      <4> QED BY <4>3, <4>4, <1>u
    <3>3. /\ Append(Tail(Contents), Head(Contents)) \in Seq(Package)
          /\ Len(Append(Tail(Contents), Head(Contents))) = size
      BY <3>1, <2>3, <1>u
    <3>4. Contents' = Append(Tail(Contents), Head(Contents))
      BY <2>1, <3>2, <3>3, <1>t
    <3> QED BY <2>1, <3>1, <3>4 DEF Abstract!Next, Abstract!PopPush
  <2> QED BY <2>2, <2>3, <1>u
<1>6. CASE UNCHANGED vars
  BY <1>6, ContentsBySlot, ContentsBySlotNext DEF vars
<1> QED BY <1>1, <1>2, <1>3, <1>4, <1>5, <1>6 DEF Next, Abstract!Next

\* The ring implements the bounded double ended queue, for every capacity
\* (property ImplementsDeque).
THEOREM RingIsDeque == Spec => ImplementsDeque
<1>1. Init => Abstract!Init
  BY RefinesInit
<1>2. Inv /\ Inv' /\ [Next]_vars => [Abstract!Next]_<<Contents, position>>
  BY RefinesStep
<1> QED BY <1>1, <1>2, RingInvariant, PTL DEF Spec, ImplementsDeque, Abstract!Spec
-----------------------------------------------------------------------------
\* The slot the end cursor names is live only in a full ring, where it is the oldest.
LEMMA EndIsFree ==
  ASSUME TypeOK, CursorsAgree, NEW s \in Live
  PROVE  s = end_index => s = beg_index /\ is_full
<1>1. s \in Slots
  <2>1. PICK k \in 0 .. size - 1 : s = At(k)
    BY DEF Live
  <2> QED BY <2>1, CapacityAssumption DEF TypeOK, Slots, At
<1>2. (beg_index <= s /\ s < beg_index + size) \/ s + capacity < beg_index + size
  BY <1>1, LiveSlots DEF LiveIsInterval
<1> QED BY <1>1, <1>2, CapacityAssumption DEF TypeOK, Slots, CursorsAgree, is_full

\* A slot that somebody points to keeps its package until it is removed or moved by
\* pop_front, pop_back or pop_push: no other operation writes it (property
\* PointersStayValid).
THEOREM PointersValid == Spec => PointersStayValid
<1> DEFINE Kept(s) == \/ data'[s] = data[s]
                      \/ pop_front /\ s = beg_index
                      \/ pop_back /\ s = Back
                      \/ pop_push /\ s = beg_index
<1>1. Inv /\ [Next]_vars => [\A s \in Live : Kept(s)]_vars
  <2> SUFFICES ASSUME Inv, [Next]_vars, NEW s \in Live PROVE Kept(s)
    OBVIOUS
  <2>0. /\ TypeOK /\ CursorsAgree
        /\ s \in Slots /\ size > 0
        /\ s = end_index => s = beg_index /\ is_full
    <3>1. PICK k \in 0 .. size - 1 : s = At(k)
      BY DEF Live
    <3>2. TypeOK /\ CursorsAgree
      BY DEF Inv
    <3> QED BY <3>1, <3>2, EndIsFree, CapacityAssumption DEF TypeOK, Slots, At
  <2>1. ASSUME NEW e \in Package, push_back(e) PROVE Kept(s)
    BY <2>0, <2>1, CapacityAssumption DEF push_back, is_full, TypeOK
  <2>2. ASSUME NEW e \in Package, push_front(e) PROVE Kept(s)
    <3>1. CASE is_full
      BY <2>2, <3>1 DEF push_front
    <3>2. CASE ~is_full
      <4>1. (beg_index <= s /\ s < beg_index + size) \/ s + capacity < beg_index + size
        BY <2>0, LiveSlots DEF LiveIsInterval
      <4>2. s # Preceding(beg_index)
        BY <2>0, <3>2, <4>1, CapacityAssumption DEF TypeOK, Slots, is_full, Preceding
      <4> QED BY <2>0, <2>2, <3>2, <4>2 DEF push_front, TypeOK
    <3> QED BY <3>1, <3>2
  <2>3. CASE pop_front
    BY <2>0, <2>3 DEF pop_front, TypeOK
  <2>4. CASE pop_back
    <3>1. Preceding(end_index) = Back
      BY <2>0, CapacityAssumption DEF TypeOK, Slots, CursorsAgree, Preceding, Back, At
    <3> QED BY <2>0, <2>4, <3>1 DEF pop_back, TypeOK
  <2>5. CASE pop_push
    BY <2>0, <2>5 DEF pop_push, TypeOK
  <2>6. CASE UNCHANGED vars
    BY <2>6 DEF vars
  <2> QED BY <2>1, <2>2, <2>3, <2>4, <2>5, <2>6 DEF Next
<1> QED BY <1>1, RingInvariant, PTL DEF Spec, PointersStayValid
=============================================================================
