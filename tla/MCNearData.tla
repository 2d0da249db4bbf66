------------------------------ MODULE MCNearData ------------------------------
EXTENDS NearData

Vector(op, r1, r2, w) == [op |-> op, vima_read1 |-> r1, vima_read2 |-> r2, vima_write |-> w]

\* Two operands, an operand that is also written, one operand twice, nothing
\* written, gather and scatter, over three vectors.
MCVimaInstruction ==
  {Vector("VIMA_ALU", 1, 2, 3), Vector("VIMA_ALU", 2, 3, 2), Vector("VIMA_ALU", 3, 0, 1),
   Vector("VIMA_ALU", 1, 1, 0), Vector("VIMA_GATHER", 2, 0, 1), Vector("VIMA_SCATTER", 3, 0, 1)}

Lock == [op |-> "LOCK", reads |-> {}, writes |-> {}]
Unlock == [op |-> "UNLOCK", reads |-> {}, writes |-> {}]
Load(r) == [op |-> "LOAD", reads |-> {}, writes |-> {r}]
Store(r) == [op |-> "STORE", reads |-> {r}, writes |-> {}]
Alu(R, w) == [op |-> "ALU", reads |-> R, writes |-> {w}]

\* Two lock sections each.  A register is loaded once in a section before it
\* is stored, and one that an ALU instruction sets without operands is not
\* stored: the README says what the other sequences do.
MCHiveTraces ==
  {<<Lock, Load(0), Load(1), Alu({0, 1}, 1), Store(1), Unlock,
     Lock, Load(0), Alu({0}, 0), Store(0), Unlock>>,
   <<Lock, Load(0), Load(1), Store(0), Alu({0}, 1), Store(1), Store(0), Unlock,
     Lock, Alu({}, 0), Load(1), Alu({1}, 1), Unlock>>}

\* The hypothesis of the theorems.
ASSUME MCTracesAreWellFormed == WellFormedTraces
=============================================================================
