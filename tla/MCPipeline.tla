----------------------------- MODULE MCPipeline -----------------------------
(***************************************************************************)
(* An instance of Pipeline.  Blocks have 2 bytes: addresses 0 and 1 are a  *)
(* block, and 0 and 2 share a bucket of the store table.                   *)
(***************************************************************************)
EXTENDS Pipeline

Byte(address) == [address |-> address, size |-> 1]

Alu(reads, writes) == [op |-> "ALU", read_regs |-> reads, write_regs |-> writes]

MemoryUop(op, reads, writes, accesses) ==
  [op |-> op, read_regs |-> reads, write_regs |-> writes, accesses |-> accesses]

Load(reads, writes, addresses) ==
  MemoryUop("LOAD", reads, writes, [k \in DOMAIN addresses |-> Byte(addresses[k])])

Store(reads, addresses) ==
  MemoryUop("STORE", reads, <<>>, [k \in DOMAIN addresses |-> Byte(addresses[k])])

Vima == MemoryUop("VIMA", <<>>, <<>>, <<Byte(0)>>)

\* Two registers, a chain through each of them, loads and stores that
\* conflict, one store with two lines.
Mixed ==
  {Alu(<<1, 2>>, <<2>>), Load(<<>>, <<1>>, <<0>>), Load(<<2>>, <<2>>, <<2, 0, 0>>),
   Store(<<2>>, <<0>>), Store(<<>>, <<0, 1>>), Vima}
=============================================================================
