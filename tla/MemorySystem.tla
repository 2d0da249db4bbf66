---------------------------- MODULE MemorySystem ----------------------------
(***************************************************************************)
(* The cache manager and the memory controller together.  A package that   *)
(* missed in the last level is handed over by pointer: from requestDRAM    *)
(* until the answer both have it in a list and write to it.  The main loop *)
(* clocks the controller and then the processors, whose last call is the   *)
(* manager's walk, so that neither sees the other half way.                *)
(*                                                                         *)
(* CacheManager has the requests the DRAM holds as a set that answers at   *)
(* will; here that set is the part of the working list of MemoryController *)
(* that the manager sent.  The rest of the list is the write-backs of the  *)
(* last cache level: packages of their own that nobody waits for or        *)
(* deletes.  (The sub-requests of the near-data controllers, which share   *)
(* the list as well, are not here.)  The fields of a package only the      *)
(* controller uses are in `field`.                                         *)
(***************************************************************************)
EXTENDS CacheManager

CONSTANTS
  WriteBack,  \* packages of the last level's write-backs; each is used again once written
  CHANNEL, BANK, BANK_BUFFER_SIZE, REQUEST_PRIORITY, WRITE_PRIORITY,
  CLOSED_ROW, ROW_MODULUS, NULL,
  ADDRESS     \* the channel, the bank and the row of each line

VARIABLES
  field, bank, last_bank_selected, bank_last_transmission,
  working, phase, channel

ASSUME WriteBackAssumption == WriteBack \cap Request = {}

\* The packages the controller may be given.
DramPackage == Request \cup WriteBack

Memory == INSTANCE MemoryController WITH
  Request <- DramPackage, package <- field, i <- channel, Vectorial <- {FALSE},
  Address <- {ADDRESS[l] : l \in Line}

ASSUME PlacesAssumption == ADDRESS \in [Line -> [cell : Memory!Cell, row : Nat]]

memoryVars ==
  <<field, bank, last_bank_selected, bank_last_transmission, working, phase, channel>>
systemVars == <<vars, memoryVars>>

SystemInit == Init /\ Memory!Init

\* The channel queues instruction fetches with the reads.
Operation(k) == IF k.op = "WRITE" THEN "WRITE" ELSE "READ"

\* writeBack() of the last level, for the dirty line whose place r's line takes:
\* the package carries the address of r.
writeBack(r, w) ==
  /\ package[r].sent_to_ram /\ package[r].op \in Plain
  /\ Memory!requestDRAM(w, "WRITE", ADDRESS[package[r].line], FALSE)

\* The walk of the manager.  A package it sends to the DRAM joins the list; one
\* that comes from there is installed before it is finished, which may write back
\* what it takes the place of.
ManagerClock ==
  /\ Memory!BetweenClocks /\ clock
  /\ \/ dram' = dram /\ UNCHANGED memoryVars
     \/ \E r \in dram' \ dram :
          Memory!requestDRAM(r, Operation(package[r]), ADDRESS[package[r].line], FALSE)
     \/ \E r \in Outstanding \ Outstanding', w \in WriteBack : writeBack(r, w)

\* The clock of the controller; a package of the manager that leaves the list is
\* answered.
Together(step) ==
  /\ i = 1 /\ step
  /\ LET gone == Memory!Working \ Memory!Working'
     IN \/ gone \cap Request = {} /\ UNCHANGED vars
        \/ \E r \in gone \cap Request : Answer(r)

MemoryClock == Together(Memory!clock)

MemoryElapse(r) == Memory!Elapse(r) /\ i = 1 /\ UNCHANGED vars

\* Everything else that happens at the manager between two clocks.
Alone(step) == Memory!BetweenClocks /\ step /\ UNCHANGED memoryVars

NearDataAnswer(r) == Alone(r \in vima \cup hive /\ Answer(r))

SystemNext ==
  \/ ManagerClock
  \/ MemoryClock
  \/ Alone(Submit)
  \/ \E c \in Client : Alone(Consume(c))
  \/ \E r \in Request : NearDataAnswer(r) \/ Alone(Elapse(r))
  \/ \E r \in DramPackage : MemoryElapse(r)

\* Both are clocked for ever, time passes, the near-data controllers answer, and a
\* command is not too early for ever.
SystemFairness ==
  /\ SF_systemVars(ManagerClock) /\ SF_systemVars(MemoryClock)
  /\ SF_systemVars(\/ \E r \in Request : Alone(Elapse(r))
                   \/ \E r \in DramPackage : MemoryElapse(r))
  /\ SF_systemVars(\E r \in Request : NearDataAnswer(r))
  /\ \A c \in Memory!Channel, b \in 0 .. BANK - 1 :
       SF_systemVars(Together(Memory!IssueHalf(c,
         Memory!Turn(c)[2] = b /\ (Memory!rowAccess(c) \/ Memory!columnReady(c)))))

SystemSpec == SystemInit /\ [][SystemNext]_systemVars
FairSystemSpec == SystemSpec /\ SystemFairness

-----------------------------------------------------------------------------
(* Properties                                                              *)

\* A package of the manager the controller works on is still the one it was given:
\* the manager has not deleted it, and used it for another request, while a pointer
\* to it is in the list or in the queue of a bank, among the write-backs; and nothing
\* else is believed to be there.
HandedOverIntact ==
  /\ dram = Memory!Working \cap Request
  /\ \A r \in Memory!Working \cap Request :
       /\ r \in Outstanding
       /\ package[r].sent_to_ram /\ package[r].status # "WAIT"
       /\ field[r].op = Operation(package[r])
       /\ field[r].address = ADDRESS[package[r].line]

\* When no more requests are submitted, the simulation ends: both lists become
\* empty, of the write-backs the last answers cause as well, and nobody waits any
\* more.  (Nothing else makes the main loop stop.)
SimulationEnds ==
  <>[][~Submit]_systemVars =>
    <>[](requests = <<>> /\ working = <<>> /\ \A c \in Client : client[c] # "waiting")
=============================================================================
