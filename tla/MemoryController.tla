-------------------------- MODULE MemoryController --------------------------
(***************************************************************************)
(* main_memory/memory_controller.cpp: the list of requests the memory is   *)
(* working on.  Each clock the channels are clocked in turn, then the list *)
(* is walked: a request that is new enters its channel if the queue of its *)
(* bank has room, and a request whose data has arrived is answered.        *)
(*                                                                         *)
(* One step is half the clock of a channel or one entry of the list.       *)
(* Packages are submitted and time passes between two clocks.              *)
(*                                                                         *)
(* A definition with a capitalised suffix, such as enter_IgnoresResult,    *)
(* is a faulty variant of the one it is named after, to show which property*)
(* notices the fault; the specification does not use it.                   *)
(***************************************************************************)
EXTENDS MemoryChannel, FiniteSets

VARIABLES
  working,  \* the list, oldest first
  phase,    \* what clock() does next: "issue" or "transmit" on a channel, or "walk"
  i         \* the channel, or the index in the list, it does it to

vars == <<package, bank, last_bank_selected, bank_last_transmission, working, phase, i>>

Working == {working[j] : j \in DOMAIN working}

\* A package that has been answered belongs to its client again: of its fields
\* only the state matters here.
Answered == CHOOSE k \in Package : k.status = "WAIT"

Init ==
  /\ ChannelInit
  /\ package = [r \in Request |-> Answered]
  /\ working = <<>> /\ phase = "issue" /\ i = 0

BetweenClocks == phase = "issue" /\ i = 0

Idle(r) == r \notin Working

requestDRAM(r, op, address, is_vectorial) ==
  /\ BetweenClocks /\ Idle(r)
  /\ package' = [package EXCEPT ![r] =
       [op |-> op, address |-> address, is_vectorial |-> is_vectorial,
        due |-> TRUE, status |-> "UNTREATED"]]
  /\ working' = Append(working, r)
  /\ UNCHANGED <<bank, last_bank_selected, bank_last_transmission, phase, i>>

Elapse(r) ==
  /\ BetweenClocks
  /\ package[r].status = "DRAM_READY" /\ ~package[r].due
  /\ package' = [package EXCEPT ![r].due = TRUE]
  /\ UNCHANGED <<bank, last_bank_selected, bank_last_transmission, working, phase, i>>

-----------------------------------------------------------------------------
(* clock(): the channels.                                                  *)

IssueHalf(c, step) ==
  /\ phase = "issue" /\ i = c /\ step
  /\ phase' = "transmit"
  /\ UNCHANGED <<working, i>>

\* After the last channel comes the list, if there is anything in it.
TransmitHalf(c, step) ==
  /\ phase = "transmit" /\ i = c /\ step
  /\ IF c + 1 < CHANNEL THEN phase' = "issue" /\ i' = c + 1
     ELSE IF working = <<>> THEN phase' = "issue" /\ i' = 0
     ELSE phase' = "walk" /\ i' = 1
  /\ UNCHANGED working

-----------------------------------------------------------------------------
(* clock(): the list.                                                      *)

Advance(j, length) ==
  IF j > length THEN phase' = "issue" /\ i' = 0 ELSE i' = j /\ UNCHANGED phase

IsNew(r) == package[r].status \notin {"DRAM_FETCH", "DRAM_READY"}
IsFinished(r) == package[r].status = "DRAM_READY" /\ package[r].due

enter_IgnoresResult(r) ==
  /\ IsNew(r)
  /\ addRequest(r) \/ UNCHANGED <<bank, last_bank_selected, bank_last_transmission>>
  /\ package' = [package EXCEPT ![r].status = "DRAM_FETCH", ![r].due = TRUE]
  /\ Advance(i + 1, Len(working))
  /\ UNCHANGED working

enter(r) ==
  /\ IsNew(r)
  /\ addRequest(r)
  /\ package' = [package EXCEPT ![r].status = "DRAM_FETCH", ![r].due = TRUE]
  /\ Advance(i + 1, Len(working))
  /\ UNCHANGED working

finish_KeepsEntry(r) ==
  /\ IsFinished(r)
  /\ package' = [package EXCEPT ![r] = Answered]
  /\ Advance(i + 1, Len(working))
  /\ UNCHANGED <<working, bank, last_bank_selected, bank_last_transmission>>

\* updatePackageWait, and the entry is erased; the loop goes on with the entry
\* after the next one, because the next one has moved down to index i.
finish(r) ==
  /\ IsFinished(r)
  /\ package' = [package EXCEPT ![r] = Answered]
  /\ working' = Erase(working, i)
  /\ Advance(i + 1, Len(working) - 1)
  /\ UNCHANGED <<bank, last_bank_selected, bank_last_transmission>>

stay(r) ==
  /\ ~IsFinished(r)
  /\ IsNew(r) => ~HasRoom(bank[package[r].address.cell], package[r].op)
  /\ Advance(i + 1, Len(working))
  /\ UNCHANGED <<package, bank, last_bank_selected, bank_last_transmission, working>>

walk == phase = "walk" /\ (enter(working[i]) \/ finish(working[i]) \/ stay(working[i]))

clock ==
  \/ \E c \in Channel :
       \/ IssueHalf(c, rowAccess(c) \/ columnReady(c) \/ precharge(c) \/ noCommand(c))
       \/ TransmitHalf(c, column(c) \/ noneReady(c))
  \/ walk

Submit ==
  \E r \in Request, op \in Op, address \in Address, is_vectorial \in Vectorial :
    requestDRAM(r, op, address, is_vectorial)

Next == Submit \/ clock \/ \E r \in Request : Elapse(r)

\* The main loop clocks the controller for ever and time passes; a command
\* that waits for its time is not too early for ever.
Fairness ==
  /\ WF_vars(clock)
  /\ \A r \in Request : SF_vars(Elapse(r))
  /\ \A c \in Channel, b \in 0 .. BANK - 1 :
       SF_vars(IssueHalf(c, Turn(c)[2] = b /\ (rowAccess(c) \/ columnReady(c))))

Spec == Init /\ [][Next]_vars
FairSpec == Spec /\ Fairness

-----------------------------------------------------------------------------
(* Properties                                                              *)

TypeOK ==
  /\ package \in [Request -> Package]
  /\ bank \in [Cell -> BankState]
  /\ last_bank_selected \in [Channel -> 0 .. BANK - 1]
  /\ bank_last_transmission \in [Channel -> 0 .. BANK - 1]
  /\ working \in Seq(Request)
  /\ \/ phase \in {"issue", "transmit"} /\ i \in Channel
     \/ phase = "walk" /\ i \in DOMAIN working

QueueOf(c, op) ==
  IF op = "READ" THEN bank[c].read_requests ELSE bank[c].write_requests

\* The queues of a bank hold, once each and within their size, exactly the
\* requests for that bank that the list shows as being fetched: none is in two
\* queues, none in the queue of another bank, none is lost from both.
FetchingExactlyQueued ==
  \A c \in Cell, op \in Op :
    LET queue == QueueOf(c, op)
        fetching == {r \in Working : /\ package[r].status = "DRAM_FETCH"
                                     /\ package[r].op = op
                                     /\ package[r].address.cell = c}
    IN /\ {queue[j] : j \in DOMAIN queue} = fetching
       /\ Len(queue) = Cardinality(fetching)
       /\ Len(queue) <= BANK_BUFFER_SIZE

\* A request is in the list exactly from requestDRAM to its answer, so that
\* whoever sees WAIT may delete or reuse the package.
AnsweredExactlyWhenGone ==
  \A r \in Request :
    /\ r \in Working <=> package[r].status # "WAIT"
    /\ Cardinality({j \in DOMAIN working : working[j] = r}) <= 1

\* The controller's request as the service sees it.
Abstract(r) ==
  IF r \notin Working THEN [stage |-> "IDLE"]
  ELSE [stage |-> CASE package[r].status = "DRAM_FETCH" -> "QUEUED"
                    [] package[r].status = "DRAM_READY" -> "SERVED"
                    [] OTHER -> "SUBMITTED",
        op |-> package[r].op,
        cell |-> package[r].address.cell,
        row |-> Truncate(RowOf(r))]

OpenRow(c) == IF bank[c].last_command = "PRECHARGE" THEN NoRow ELSE bank[c].last_row

Service == INSTANCE DRAMService WITH
  Row <- {Truncate(a.row) : a \in Address}, Capacity <- BANK_BUFFER_SIZE,
  request <- [r \in Request |-> Abstract(r)],
  open <- [c \in Cell |-> OpenRow(c)]

\* The controller implements the service: a request is queued, served and
\* answered once, and it goes on the bus only when its own row is open.  The row
\* is that of the request findNext() chose for the command; the request on the
\* bus is the one it chooses when asked again, with the drain mode it has since
\* switched; and the row that is closed afterwards is that of a third choice.
ImplementsService == Service!Spec

\* When no more requests are submitted, every request is answered.  (While they
\* are, reads overtake writes and row hits overtake older requests.)
EveryRequestAnswered ==
  <>[][~Submit]_vars => \A r \in Request : r \in Working ~> r \notin Working
=============================================================================
