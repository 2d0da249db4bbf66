------------------------------- MODULE NearData -------------------------------
(***************************************************************************)
(* The two near-data controllers.  A shipped configuration has one of them *)
(* or none (HAS_VIMA and HAS_HIVE of processor.cpp); processor_t::clock    *)
(* clocks it and the processor sends it the instructions of its trace.     *)
(***************************************************************************)
EXTENDS Vima, Hive

VARIABLE device   \* the controller of the machine

vars == <<device, vimaVars, hiveVars>>

Init == device \in {"VIMA", "HIVE"} /\ VimaInit /\ HiveInit

Next ==
  \/ device = "VIMA" /\ VimaNext /\ UNCHANGED <<device, hiveVars>>
  \/ device = "HIVE" /\ HiveNext /\ UNCHANGED <<device, vimaVars>>

Fairness == IF device = "VIMA" THEN VimaFairness ELSE HiveFairness

Spec == Init /\ [][Next]_vars /\ Fairness

-----------------------------------------------------------------------------

TypeOK == device \in {"VIMA", "HIVE"} /\ VimaTypeOK /\ HiveTypeOK

\* Every instruction sent to the controller is executed: a vector written back
\* for one instruction and fetched for the next, or a register loaded, stored
\* and loaded again, ends in the state that the instruction waits for.
EveryInstructionCompletes ==
  /\ device = "VIMA" => EveryVimaInstructionCompletes
  /\ device = "HIVE" => EveryHiveInstructionCompletes
=============================================================================
