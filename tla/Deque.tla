------------------------------- MODULE Deque -------------------------------
(***************************************************************************)
(* What utils/circular_buffer.hpp promises its users: a bounded double     *)
(* ended queue.  The oldest element is the head of the sequence.  Pushing  *)
(* on a full queue changes nothing and answers POSITION_FAIL (-1), popping *)
(* an empty one changes nothing.                                           *)
(***************************************************************************)
EXTENDS Integers, Sequences

CONSTANTS Capacity,  \* number of slots the buffer was allocated with
          Element    \* the packages that can be stored

VARIABLES contents,  \* the stored packages, oldest first
          result     \* what the last push answered

POSITION_FAIL == -1

Init == contents = <<>> /\ result = POSITION_FAIL

Reject == UNCHANGED contents /\ result' = POSITION_FAIL

PushBack(e) ==
  \/ /\ Len(contents) < Capacity
     /\ contents' = Append(contents, e)
     /\ result' = Len(contents)
  \/ Len(contents) = Capacity /\ Reject

PushFront(e) ==
  \/ /\ Len(contents) < Capacity
     /\ contents' = <<e>> \o contents
     /\ result' = 0
  \/ Len(contents) = Capacity /\ Reject

PopFront ==
  /\ contents # <<>>
  /\ contents' = Tail(contents)
  /\ UNCHANGED result

PopBack ==
  /\ contents # <<>>
  /\ contents' = SubSeq(contents, 1, Len(contents) - 1)
  /\ UNCHANGED result

PopPush ==
  /\ contents # <<>>
  /\ contents' = Append(Tail(contents), Head(contents))
  /\ UNCHANGED result

Next ==
  \/ \E e \in Element : PushBack(e) \/ PushFront(e)
  \/ PopFront \/ PopBack \/ PopPush

Spec == Init /\ [][Next]_<<contents, result>>
=============================================================================
