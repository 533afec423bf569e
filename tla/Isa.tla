-------------------------------- MODULE Isa --------------------------------
(***************************************************************************)
(* The sequential machine the pipeline is meant to be: it executes one     *)
(* instruction per step, completely, with the same decoder rows, ALU,      *)
(* branch comparator, CSR file and memory lanes.  There is no overlap, so  *)
(* there is nothing to forward, stall or flush.                            *)
(***************************************************************************)
EXTENDS Machine

VARIABLES
  pc,    \* address of the next instruction
  regs,  \* register file
  mem,   \* memory words
  csr    \* machine-mode registers

isaVars == <<pc, regs, mem, csr>>

Init ==
  /\ pc = StartAddr
  /\ regs \in InitRegs
  /\ mem \in Images
  /\ csr = CsrReset(Mtvec0)

\* x0 reads as zero
ReadReg(r) == IF r = 0 THEN 0 ELSE regs[r]

WriteReg(r, v) == IF r = 0 THEN regs ELSE [regs EXCEPT ![r] = v]

NextPc(i, a, b) ==
  CASE Eret(i.op) -> csr.mtvec
    [] i.op \in Jumps -> JumpTarget(i, pc)
    [] Taken(i.op, a, b) -> AluOut(i.op, i, pc, a, b)
    [] OTHER -> Plus(pc, 4)

\* Execute the instruction at pc.
Step ==
  LET i   == Decode(mem[WordIndex(pc)])
      a   == ReadReg(i.rs1)
      b   == ReadReg(i.rs2)
      alu == AluOut(i.op, i, pc, a, b)
  IN /\ pc' = NextPc(i, a, b)
     /\ regs' = IF RfWen(i.op)
                THEN WriteReg(i.rd, WriteBack(i.op, pc, alu, mem[WordIndex(alu)]))
                ELSE regs
     /\ mem' = MemAfter(mem, i.op, alu, b)
     /\ csr' = CsrNext(csr, i.op, i.csr, pc, alu)

Spec == Init /\ [][Step]_isaVars

============================================================================
