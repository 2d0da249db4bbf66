------------------------------ MODULE MCFrontEnd ------------------------------
EXTENDS FrontEnd

Opcode(address, op, reads, writes, uops) ==
  [address |-> address, op |-> op, num_reads |-> reads, num_writes |-> writes, uops |-> uops]

\* Three branches that share the two ways of one set, one of which loads; a
\* computation with two loads and a store; a gather and scatter; an instruction
\* of a near-data controller.
MCInstruction ==
  {Opcode(4, "BRANCH", 0, 0, 0), Opcode(12, "BRANCH", 1, 0, 0), Opcode(20, "BRANCH", 0, 0, 0),
   Opcode(16, "OTHER", 2, 1, 1), Opcode(24, "OTHER", 3, 2, 0), Opcode(28, "NEAR_DATA", 1, 1, 0)}
=============================================================================
