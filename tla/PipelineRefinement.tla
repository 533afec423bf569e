------------------------- MODULE PipelineRefinement -------------------------
(***************************************************************************)
(* The pipeline executes programs as the sequential machine Isa does, as   *)
(* long as it meets none of the four situations named below in which the   *)
(* code does something else.                                               *)
(*                                                                         *)
(* An instruction takes effect when it leaves MEM_STAGE: its store and its *)
(* CSR command are done, and its register write is on the write port.      *)
(***************************************************************************)
EXTENDS Pipeline

(* --- the refinement mapping --- *)

\* The next instruction to leave MEM_STAGE is the oldest live one behind it.
AbsPc ==
  CASE exmem.live -> exmem.pc
    [] ~exmem.live /\ idex.live -> idex.pc
    [] ~exmem.live /\ ~idex.live /\ ifid.live -> ifid.pc
    [] OTHER -> pc_reg

\* The register file once WB_STAGE has done its write.
AbsRegs == RegWrite

Seq == INSTANCE Isa WITH pc <- AbsPc, regs <- AbsRegs

(* --- situations in which the two part --- *)

\* The registers an instruction reads; CSRR*I has an immediate there.
Uses1 == Loads \cup Stores \cup ImmOps \cup RegOps \cup Branches \cup CsrRegOps
Uses2 == Stores \cup RegOps \cup Branches

Sources(i) == (IF i.op \in Uses1 THEN {i.rs1} ELSE {})
                \cup (IF i.op \in Uses2 THEN {i.rs2} ELSE {})

Writes(e, r) == RfWen(e.op) /\ Decode(e.inst).rd = r /\ r # 0

\* An instruction reads a register whose number is in the destination bits
\* of an instruction in WB_STAGE that writes nothing: a store or a branch,
\* whose immediate is there, or a bubble that keeps its raw bits.  What it
\* reads is that instruction's ALU output.
SpuriousRead ==
  /\ ifid.live /\ ~Flush /\ ~Stall
  /\ \E r \in Sources(IdInst) \ {0} :
        /\ r = Waddr /\ ~RfWen(memwb.op)
        /\ ~Writes(exmem, r) /\ ~Writes(idex, r)
        /\ WbData # regfile[r]

\* The operand is the rd of the CSR instruction just before: MEM_STAGE
\* bypasses the ALU output, but the CSR instruction writes CsrRdata.
CsrBypass ==
  /\ idex.live /\ ~Trap
  /\ WbSel(exmem.op) = "CSR" /\ exmem.alu # CsrRdata
  /\ \E r \in Sources(Decode(idex.inst)) : FromMem(r)

\* What an entry can still change.
HasEffect(e) ==
  \/ RfWen(e.op) /\ Decode(e.inst).rd # 0
  \/ MemWr(e.op)
  \/ CsrCmd(e.op) \in {"W", "I"}

\* ECALL or EBREAK leaves MEM_STAGE and an instruction behind it survives:
\* the one in EXE_STAGE because its signals may be kept, the one in ID_STAGE
\* because a stall holds IFID_REGS.
TrapShadow == Trap /\ (HasEffect(idex) \/ (Stall /\ ifid.live))

\* A store writes a word that has been or is being fetched.
RedirectPc == Trap \/ BranchBool \/ IdJump
InFlight ==
  (IF idex.live THEN {idex.pc} ELSE {})
    \cup (IF ifid.live /\ ~BranchBool THEN {ifid.pc} ELSE {})
    \cup (IF RedirectPc THEN {} ELSE {pc_reg})

NextFetch ==
  CASE Trap -> csr.mtvec
    [] ~Trap /\ BranchBool -> ExAlu
    [] ~Flush /\ IdJump -> JumpTarget(IdInst, ifid.pc)
    [] ~Flush /\ ~IdJump /\ Stall -> pc_reg
    [] OTHER -> Plus(pc_reg, 4)

StaleFetch ==
  /\ MemWr(exmem.op)
  /\ WordIndex(exmem.alu) \in {WordIndex(a) : a \in InFlight \cup {NextFetch}}
  /\ MemAfter(mem, exmem.op, exmem.alu, exmem.rs2) # mem

Hazard == SpuriousRead \/ CsrBypass \/ TrapShadow \/ StaleFetch

(***************************************************************************)
(* The pipeline on a program that meets none of them; an execution that    *)
(* does stops there.                                                       *)
(***************************************************************************)
SafeNext == (~Hazard /\ Next) \/ (Hazard /\ UNCHANGED vars)

SafeSpec == Init /\ [][SafeNext]_vars

(***************************************************************************)
(* The program-visible registers, memory, CSRs and program counter change  *)
(* exactly as if the instructions ran one at a time: no operand is stale,  *)
(* no instruction is lost, executed twice, reordered or executed after a   *)
(* flush.                                                                  *)
(***************************************************************************)
Sequential == Seq!Spec

(***************************************************************************)
(* What must hold between the stages for that.                             *)
(***************************************************************************)

\* A live entry is the instruction its pc names, and still is in memory.
FetchOK ==
  /\ rdataI = mem[WordIndex(pc_reg)]
  /\ ifid.live  => ifid.inst  = mem[WordIndex(ifid.pc)]
  /\ idex.live  => idex.inst  = mem[WordIndex(idex.pc)]
  /\ exmem.live => exmem.inst = mem[WordIndex(exmem.pc)]

\* An entry of the program's path has the signals of its instruction, and
\* any other entry can neither write nor redirect.
LiveOK ==
  /\ ~ifid.live => ifid.inst \in {0, Bubble}
  /\ idex.live  => idex.op = Decode(idex.inst).op
  /\ ~idex.live => ~HasEffect(idex) /\ idex.op \notin Branches
  /\ exmem.live => exmem.op = Decode(exmem.inst).op
  /\ ~exmem.live => ~HasEffect(exmem)

\* Where the instruction after a live entry is fetched from, as known when
\* the entry has left ID_STAGE.
After(e) == IF e.op \in Jumps THEN JumpTarget(Decode(e.inst), e.pc) ELSE Plus(e.pc, 4)

\* The oldest address among those still to be executed behind EXE_STAGE
FrontPc == IF ifid.live THEN ifid.pc ELSE pc_reg

\* Live entries follow each other in program order, with none missing.  A
\* taken branch is checked when its target is fetched.
ChainOK ==
  /\ idex.live => FrontPc = After(idex)
  /\ exmem.live /\ idex.live => idex.pc = After(exmem)
  /\ ifid.live => pc_reg = Plus(ifid.pc, 4) \/ IdJump

\* The operand an instruction in EXE_STAGE computes with is the value the
\* older instructions give its register.
ArchReg(r) ==
  CASE r = 0 -> 0
    [] r # 0 /\ Writes(exmem, r) -> WriteBack(exmem.op, exmem.pc, exmem.alu,
                                              mem[WordIndex(exmem.alu)])
    [] OTHER -> AbsRegs[r]

OperandsOK ==
  LET i == Decode(idex.inst)
  IN idex.live /\ ~CsrBypass =>
       /\ i.op \in Uses1 => ExRs1 = ArchReg(i.rs1)
       /\ i.op \in Uses2 => ExRs2 = ArchReg(i.rs2)

=============================================================================
