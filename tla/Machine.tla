------------------------------ MODULE Machine ------------------------------
(***************************************************************************)
(* What the sequential machine (Isa) and the pipelined one (Pipeline)      *)
(* share: the parameters of the processor and the combinational functions  *)
(* of the stages, from the decoded instruction and its operands to the     *)
(* ALU result, the branch decision and the value written back.             *)
(*                                                                         *)
(* Data is abstract.  Words are 0 .. WordSize-1 (2^32 in the hardware);    *)
(* what the ALU and the byte lanes of the memory port compute, and which   *)
(* instruction a word encodes, are parameters, so that everything proved   *)
(* here holds for the functions the code computes.                         *)
(***************************************************************************)
EXTENDS Integers, Decoder, CSR

CONSTANTS
  WordSize,               \* number of words: 2^conf.xlen
  NumRegs,                \* number of registers: 32
  Decode(_),              \* the instruction a memory word encodes
  Alu(_, _, _),           \* ALU: function, op1, op2
  LoadExt(_, _, _),       \* read lanes: mask type, addr(1,0), memory word
  StoreMerge(_, _, _, _), \* write lanes: mask type, addr(1,0), old word, data
  StartAddr,              \* START_ADDR
  Mtvec0,                 \* MTVEC, the reset value of mtvec
  Bubble,                 \* BUBBLE, the encoding of XOR x0,x0,x0
  Images,                 \* initial contents of the memory
  InitRegs                \* power-up contents of the register file

Word    == 0 .. (WordSize - 1)
Reg     == 0 .. (NumRegs - 1)
Index   == 0 .. ((WordSize \div 4) - 1)
CsrAddr == {"mtvec", "other"}

(***************************************************************************)
(* A decoded word.  rd, rs1 and rs2 are the raw bit fields of the word:    *)
(* every instruction has all three, also where its format uses those bits  *)
(* for an immediate.  imm is the immediate of the instruction's format,    *)
(* immJ the same word read as a J-type immediate.                          *)
(***************************************************************************)
Inst == [op : Op, rd : Reg, rs1 : Reg, rs2 : Reg,
         imm : Word, immJ : Word, csr : CsrAddr]

ASSUME SizeAssumption ==
  /\ WordSize \in Nat /\ WordSize >= 16 /\ WordSize % 4 = 0
  /\ NumRegs \in Nat /\ NumRegs >= 1
  /\ StartAddr \in Word /\ Mtvec0 \in Word /\ Bubble \in Word

ASSUME DecodeAssumption ==
  /\ \A w \in Word : Decode(w) \in Inst
  \* 0 matches no BitPat; BUBBLE is XOR x0,x0,x0
  /\ LET z == Decode(0) IN z.op = "NONE" /\ z.rd = 0 /\ z.rs1 = 0 /\ z.rs2 = 0
  /\ LET b == Decode(Bubble) IN b.op = "XOR" /\ b.rd = 0 /\ b.rs1 = 0 /\ b.rs2 = 0

ASSUME DataAssumption ==
  /\ \A f \in AluFuns : \A a, b \in Word : Alu(f, a, b) \in Word
  /\ \A m \in MaskTypes : \A k \in 0 .. 3 : \A w \in Word : LoadExt(m, k, w) \in Word
  /\ \A m \in MaskTypes : \A k \in 0 .. 3 : \A w, d \in Word :
        StoreMerge(m, k, w, d) \in Word

\* ALU_COPYrs1 is op1 and ALU_COPYrs2 op2, whatever the other operand is.
ASSUME CopyAssumption ==
  \A a, b, c \in Word : /\ Alu("COPYrs1", a, b) = Alu("COPYrs1", a, c)
                        /\ Alu("COPYrs2", b, a) = Alu("COPYrs2", c, a)

ASSUME ImageAssumption ==
  /\ Images \subseteq [Index -> Word]
  /\ InitRegs \subseteq [Reg -> Word]

Plus(a, b) == (a + b) % WordSize

\* addr[31:2], the word index both memory ports use
WordIndex(a) == a \div 4
Lane(a)      == a % 4

Signed(a) == IF a < WordSize \div 2 THEN a ELSE a - WordSize

\* The BranchComp outputs and the choice EXE_STAGE makes among them.
Taken(op, a, b) ==
  \/ op = "BNE"  /\ a # b
  \/ op = "BEQ"  /\ a = b
  \/ op = "BGE"  /\ ~(Signed(a) < Signed(b))
  \/ op = "BGEU" /\ ~(a < b)
  \/ op = "BLT"  /\ Signed(a) < Signed(b)
  \/ op = "BLTU" /\ a < b

\* The ALU of EXE_STAGE with its operand multiplexers.
AluOut(op, i, pc, a, b) ==
  Alu(AluFun(op),
      IF OpSel1(op) = "RS1" THEN a ELSE pc,
      IF OpSel2(op) = "RS2" THEN b ELSE IF ImmSel(op) = "J" THEN i.immJ ELSE i.imm)

\* ID_STAGE resolves jumps: both targets are relative to the pc.
JumpTarget(i, pc) == Plus(pc, IF i.op = "JAL" THEN i.immJ ELSE i.imm)

\* rf_wdata of WB_STAGE; rdata is the word the memory port delivers.
WriteBack(op, pc, alu, rdata) ==
  CASE WbSel(op) = "CSR" -> CsrRdata
    [] WbSel(op) = "PC4" -> Plus(pc, 4)
    [] WbSel(op) = "MEM" -> LoadExt(MaskType(op), Lane(alu), rdata)
    [] OTHER -> alu

\* The memory after the store (if it is one) an instruction sends to dmem.
MemAfter(m, op, alu, data) ==
  IF MemWr(op)
  THEN [m EXCEPT ![WordIndex(alu)] = StoreMerge(MaskType(op), Lane(alu), @, data)]
  ELSE m

============================================================================
