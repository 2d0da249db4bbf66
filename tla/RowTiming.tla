----------------------------- MODULE RowTiming -----------------------------
(***************************************************************************)
(* The timing of row commands on one channel of main_memory/               *)
(* memory_channel.cpp: what get_minimum_latency() computes for ROW_ACCESS  *)
(* and how clock() uses it, cycle by cycle.  MemoryChannel leaves the      *)
(* timing free; this module leaves the requests free instead: a bank whose *)
(* turn it is may have none, one that hits or one that conflicts.          *)
(***************************************************************************)
EXTENDS Integers, FiniteSets

CONSTANTS
  BANK,                        \* banks of the channel
  TIMING_FAW,                  \* Four (row) Activation Window
  TIMING_RP, TIMING_RC, TIMING_RRD,
  LastCycle                    \* bound on the cycle counter

Bank == 0 .. BANK - 1

\* What the property below takes for granted of the configuration: a bank is
\* activated at most once in a window.
TimingAssumption == TIMING_FAW <= TIMING_RC

VARIABLES
  now,                 \* the cycle counter
  last_bank_selected,  \* the bank that had the last turn
  precharged,          \* the banks whose last command is PRECHARGE
  row_access,          \* per bank, the cycle of its last ROW_ACCESS
  precharge,           \* and of its last PRECHARGE
  channel_row_access   \* the cycle of the last ROW_ACCESS of the channel

vars == <<now, last_bank_selected, precharged, row_access, precharge, channel_row_access>>

Init ==
  /\ now = 0 /\ last_bank_selected = 0 /\ channel_row_access = 0
  /\ precharged = Bank
  /\ row_access = [b \in Bank |-> 0]
  /\ precharge = [b \in Bank |-> 0]

-----------------------------------------------------------------------------
(* The insertion of a cycle into the four locals a, b, c, d, written in C  *)
(* as four chains (a < x) && (d = c) && (c = b) && (b = a) && (a = x): an  *)
(* assignment of zero is false and ends its chain.                         *)

\* The chain that starts at the n-th local: the locals above it move up from
\* the last one on, as far as no zero is moved, and then it becomes x.
Chain(local, n, x) ==
  LET reached(k) == \A m \in k .. 3 : local[m] # 0
      moved(k) == IF k < n \/ ~reached(k) THEN local[k]
                  ELSE IF k = n THEN x ELSE local[k - 1]
  IN <<moved(1), moved(2), moved(3), moved(4)>>

\* One of the four ifs: its chain runs if x is newer, and ends the iteration
\* (continue) if it runs to its end.
Try(state, n, x) ==
  IF state.done \/ state.local[n] >= x THEN state
  ELSE [local |-> Chain(state.local, n, x),
        done |-> \A m \in n .. 3 : state.local[m] # 0]

Insert(local, x) ==
  Try(Try(Try(Try([local |-> local, done |-> FALSE], 1, x), 2, x), 3, x), 4, x).local

\* The four locals after the loop has seen the first n banks.
Newest[n \in 0 .. BANK] ==
  IF n = 0 THEN <<0, 0, 0, 0>>
           ELSE Insert(Newest[n - 1], row_access[n - 1] + TIMING_FAW)

Largest(S) == CHOOSE x \in S : \A y \in S : y <= x

\* get_minimum_latency(b, ROW_ACCESS)
RowAccessTime(b) ==
  Largest({precharge[b] + TIMING_RP, row_access[b] + TIMING_RC,
           channel_row_access + TIMING_RRD, Newest[BANK][4] + TIMING_FAW})

-----------------------------------------------------------------------------
(* The row commands of clock(), one bank a cycle.                          *)

Turn == (last_bank_selected + 1) % BANK

Tick == now < LastCycle /\ now' = now + 1 /\ last_bank_selected' = Turn

RowAccess ==
  /\ Tick
  /\ Turn \in precharged
  /\ RowAccessTime(Turn) <= now
  /\ precharged' = precharged \ {Turn}
  /\ row_access' = [row_access EXCEPT ![Turn] = now]
  /\ channel_row_access' = now
  /\ UNCHANGED precharge

Precharge ==
  /\ Tick
  /\ Turn \notin precharged
  /\ precharged' = precharged \cup {Turn}
  /\ precharge' = [precharge EXCEPT ![Turn] = now]
  /\ UNCHANGED <<row_access, channel_row_access>>

\* No request for the bank, one for the open row, or too early.
NoRowCommand ==
  Tick /\ UNCHANGED <<precharged, row_access, precharge, channel_row_access>>

Next == RowAccess \/ Precharge \/ NoRowCommand

Spec == Init /\ [][Next]_vars

-----------------------------------------------------------------------------
(* Property                                                                *)

\* TIMING_FAW: no more than four rows are activated in a window of that length.
\* Each bank's last activation is enough to see it, by TimingAssumption.
FourActivationWindow ==
  Cardinality({b \in Bank : row_access[b] > 0
                            /\ channel_row_access - row_access[b] < TIMING_FAW}) <= 4
=============================================================================
