---------------------------- MODULE DRAMService ----------------------------
(***************************************************************************)
(* What the memory controller promises: a request that is submitted waits  *)
(* for a place in the queue of its bank, is served once, and is answered.  *)
(* A bank serves a request only while the row of the request is the row it *)
(* has open, and a row is opened only when none is open.                   *)
(***************************************************************************)
EXTENDS Integers, FiniteSets

CONSTANTS
  Cell,      \* the banks
  Row,       \* rows of a bank
  NoRow,     \* no row is open
  Request,   \* packages, reusable once answered
  Capacity   \* requests of a kind that a bank can queue

VARIABLES
  request,   \* how far each request is, and what it asks for
  open       \* the row each bank has open

vars == <<request, open>>

Op == {"READ", "WRITE"}

Idle == [stage |-> "IDLE"]

At(stage, op, cell, row) == [stage |-> stage, op |-> op, cell |-> cell, row |-> row]

Init ==
  /\ request = [r \in Request |-> Idle]
  /\ open = [c \in Cell |-> NoRow]

Submit(r, op, cell, row) ==
  /\ request[r] = Idle
  /\ request' = [request EXCEPT ![r] = At("SUBMITTED", op, cell, row)]
  /\ UNCHANGED open

Move(r, from, to) ==
  /\ request[r].stage = from
  /\ request' = [request EXCEPT ![r].stage = to]

Queued(op, cell) ==
  {s \in Request : \E row \in Row : request[s] = At("QUEUED", op, cell, row)}

Queue(r) ==
  /\ Move(r, "SUBMITTED", "QUEUED")
  /\ Cardinality(Queued(request[r].op, request[r].cell)) < Capacity
  /\ UNCHANGED open

Open(c, row) ==
  /\ open[c] = NoRow
  /\ open' = [open EXCEPT ![c] = row]
  /\ UNCHANGED request

Close(c) == open' = [open EXCEPT ![c] = NoRow] /\ UNCHANGED request

\* Serving may close the row behind the request.
Serve(r) ==
  /\ Move(r, "QUEUED", "SERVED")
  /\ open[request[r].cell] = request[r].row
  /\ \E after \in {request[r].row, NoRow} :
       open' = [open EXCEPT ![request[r].cell] = after]

Answer(r) ==
  /\ request[r].stage = "SERVED"
  /\ request' = [request EXCEPT ![r] = Idle]
  /\ UNCHANGED open

Next ==
  \/ \E r \in Request :
       \/ \E op \in Op, c \in Cell, row \in Row : Submit(r, op, c, row)
       \/ Queue(r) \/ Serve(r) \/ Answer(r)
  \/ \E c \in Cell : Close(c) \/ \E row \in Row : Open(c, row)

Spec == Init /\ [][Next]_vars
=============================================================================
