--------------------------- MODULE CircularBuffer ---------------------------
(***************************************************************************)
(* utils/circular_buffer.hpp: the ring behind the processor's fetchBuffer  *)
(* and decodeBuffer.  The ring keeps both cursors and the size, so three   *)
(* fields have to stay consistent under five operations that each move     *)
(* some of them and wrap at capacity.  A package is an opaque value; Clean *)
(* is what package_clean() leaves behind.                                  *)
(*                                                                         *)
(* A definition with a capitalised suffix, such as is_full_OneLate,        *)
(* is a faulty variant of the one it is named after, to show which property*)
(* notices the fault; the specification does not use it.                   *)
(***************************************************************************)
EXTENDS Integers, Sequences

CONSTANTS capacity,  \* slots allocated by allocate()
          Package,   \* packages a stage can push
          Clean      \* the content of a cleaned slot

ASSUME CapacityAssumption == capacity \in Nat \ {0}
ASSUME CleanAssumption == Clean \notin Package

VARIABLES beg_index, end_index, size, data,
          position   \* the value the last push returned

vars == <<beg_index, end_index, size, data, position>>

POSITION_FAIL == -1

Slots == 0 .. capacity - 1

is_full_OneLate == size = capacity + 1

is_full == size = capacity
is_empty == size = 0

Following(index) == IF index + 1 >= capacity THEN 0 ELSE index + 1
Preceding(index) == IF index = 0 THEN capacity - 1 ELSE index - 1

\* operator[]: the slot of the k-th oldest element, counting from zero
At(k) == IF beg_index + k >= capacity THEN beg_index + k - capacity ELSE beg_index + k

\* back(): the slot of the newest element of a ring that is not empty
Back == At(size - 1)

Init ==
  /\ beg_index = 0 /\ end_index = 0 /\ size = 0
  /\ data = [s \in Slots |-> Clean]
  /\ position = POSITION_FAIL

push_back(e) ==
  \/ /\ ~is_full
     /\ position' = size
     /\ size' = size + 1
     /\ data' = [data EXCEPT ![end_index] = e]
     /\ end_index' = Following(end_index)
     /\ UNCHANGED beg_index
  \/ /\ is_full
     /\ position' = POSITION_FAIL
     /\ UNCHANGED <<beg_index, end_index, size, data>>

push_front_AnswersSize(e) ==
  /\ ~is_full
  /\ beg_index' = Preceding(beg_index)
  /\ size' = size + 1
  /\ data' = [data EXCEPT ![beg_index'] = e]
  /\ position' = size
  /\ UNCHANGED end_index

push_front(e) ==
  \/ /\ ~is_full
     /\ beg_index' = Preceding(beg_index)
     /\ size' = size + 1
     /\ data' = [data EXCEPT ![beg_index'] = e]
     /\ position' = 0
     /\ UNCHANGED end_index
  \/ /\ is_full
     /\ position' = POSITION_FAIL
     /\ UNCHANGED <<beg_index, end_index, size, data>>

pop_front_LeavesPackage ==
  /\ size > 0
  /\ size' = size - 1
  /\ beg_index' = Following(beg_index)
  /\ UNCHANGED <<end_index, data, position>>

pop_front ==
  /\ size > 0
  /\ size' = size - 1
  /\ data' = [data EXCEPT ![beg_index] = Clean]
  /\ beg_index' = Following(beg_index)
  /\ UNCHANGED <<end_index, position>>

pop_back_EndStays ==
  /\ size > 0
  /\ size' = size - 1
  /\ data' = [data EXCEPT ![Preceding(end_index)] = Clean]
  /\ UNCHANGED <<beg_index, end_index, position>>

pop_back ==
  /\ size > 0
  /\ size' = size - 1
  /\ end_index' = Preceding(end_index)
  /\ data' = [data EXCEPT ![end_index'] = Clean]
  /\ UNCHANGED <<beg_index, position>>

\* No emptiness check: on an empty ring it turns both cursors over a clean
\* slot, on a full one it takes the slot it has just cleaned.
pop_push ==
  /\ data' = [[data EXCEPT ![beg_index] = Clean] EXCEPT ![end_index] = data[beg_index]]
  /\ beg_index' = Following(beg_index)
  /\ end_index' = Following(end_index)
  /\ UNCHANGED <<size, position>>

Next ==
  \/ \E e \in Package : push_back(e) \/ push_front(e)
  \/ pop_front \/ pop_back \/ pop_push

Spec == Init /\ [][Next]_vars

-----------------------------------------------------------------------------
(* Properties                                                              *)

TypeOK ==
  /\ beg_index \in Slots /\ end_index \in Slots
  /\ size \in 0 .. capacity
  /\ data \in [Slots -> Package \cup {Clean}]
  /\ position \in Slots \cup {POSITION_FAIL}

\* The two cursors and the size, moved by different operations, never drift
\* apart: the end cursor is `size` slots after the begin cursor.
CursorsAgree ==
  end_index = IF beg_index + size >= capacity
                THEN beg_index + size - capacity ELSE beg_index + size

Live == {At(k) : k \in 0 .. size - 1}

\* A slot holds a package exactly when it lies between the cursors: no
\* operation loses a package, leaves one behind or cleans the wrong slot.
OccupiedExactlyLive == \A s \in Slots : data[s] # Clean <=> s \in Live

\* The packages in order of age, the abstract value of the ring.
Contents == [k \in 1 .. size |-> data[At(k - 1)]]

Abstract == INSTANCE Deque WITH Capacity <- capacity, Element <- Package,
                                contents <- Contents, result <- position

\* The ring behaves like the bounded double ended queue its users expect.
ImplementsDeque == Abstract!Spec

\* A memory request keeps the address of the slot back() returned (the fetch
\* stage puts fetchBuffer.back() in its client list).  Until that package is
\* removed or moved, no other push or pop overwrites it.
PointersStayValid ==
  [][\A s \in Live : \/ data'[s] = data[s]
                     \/ pop_front /\ s = beg_index
                     \/ pop_back /\ s = Back
                     \/ pop_push /\ s = beg_index]_vars
=============================================================================
