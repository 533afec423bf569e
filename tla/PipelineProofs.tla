--------------------------- MODULE PipelineProofs ---------------------------
(***************************************************************************)
(* Theorems about the pipeline, without its reset input and with it, for   *)
(* every word size, register count, instruction encoding, ALU and memory   *)
(* lane function that satisfies the assumptions of Machine.                *)
(***************************************************************************)
EXTENDS PipelineReset, TLAPS

(***************************************************************************)
(* The combinational functions stay in range.                              *)
(***************************************************************************)
LEMMA ZeroWord == 0 \in Word /\ 0 \in Reg
  BY SizeAssumption DEF Word, Reg

LEMMA PlusWord ==
  ASSUME NEW a \in Word, NEW b \in Word
  PROVE  Plus(a, b) \in Word
  BY SizeAssumption DEF Word, Plus

LEMMA AddressIndex ==
  ASSUME NEW a \in Word
  PROVE  WordIndex(a) \in Index /\ Lane(a) \in 0 .. 3
  BY SizeAssumption DEF Word, Index, WordIndex, Lane

LEMMA DecodeInst ==
  ASSUME NEW w \in Word
  PROVE  Decode(w) \in Inst
  BY DecodeAssumption

LEMMA AluOutWord ==
  ASSUME NEW op \in Op, NEW i \in Inst,
         NEW pc \in Word, NEW a \in Word, NEW b \in Word
  PROVE  AluOut(op, i, pc, a, b) \in Word
<1>1. AluFun(op) \in AluFuns
  BY DEF Op, AluFun, AluFuns, ImmFun, RegOps, ImmOps, Loads, Stores, Upper,
         Jumps, Branches, CsrOps, CsrImmOps, CsrRegOps, System, Fences
<1>2. i.imm \in Word /\ i.immJ \in Word
  BY DEF Inst
<1> QED BY <1>1, <1>2, DataAssumption DEF AluOut

LEMMA JumpTargetWord ==
  ASSUME NEW i \in Inst, NEW pc \in Word
  PROVE  JumpTarget(i, pc) \in Word
  BY PlusWord DEF JumpTarget, Inst

LEMMA WriteBackWord ==
  ASSUME NEW op \in Op, NEW pc \in Word, NEW alu \in Word, NEW rdata \in Word
  PROVE  WriteBack(op, pc, alu, rdata) \in Word
<1>1. MaskType(op) \in MaskTypes
  BY DEF MaskType, MaskTypes
<1>2. LoadExt(MaskType(op), Lane(alu), rdata) \in Word
  BY <1>1, AddressIndex, DataAssumption
<1>3. Plus(pc, 4) \in Word
  BY SizeAssumption, PlusWord DEF Word
<1> QED BY <1>2, <1>3, ZeroWord DEF WriteBack, CsrRdata

LEMMA MemAfterTyped ==
  ASSUME NEW m \in [Index -> Word], NEW op \in Op,
         NEW alu \in Word, NEW data \in Word
  PROVE  MemAfter(m, op, alu, data) \in [Index -> Word]
<1>1. MaskType(op) \in MaskTypes
  BY DEF MaskType, MaskTypes
<1>2. WordIndex(alu) \in Index /\ Lane(alu) \in 0 .. 3
  BY AddressIndex
<1>3. StoreMerge(MaskType(op), Lane(alu), m[WordIndex(alu)], data) \in Word
  BY <1>1, <1>2, DataAssumption
<1> QED BY <1>2, <1>3 DEF MemAfter

LEMMA CsrNextTyped ==
  ASSUME NEW c \in CsrType, NEW op \in Op, NEW addr \in CsrAddr,
         NEW pc \in Word, NEW alu \in Word
  PROVE  CsrNext(c, op, addr, pc, alu) \in CsrType
<1>1. /\ c.now_prv \in 0 .. 1 /\ c.MPP \in 0 .. 1
      /\ c.MPIE \in 0 .. 1 /\ c.MIE \in 0 .. 1
      /\ c.mtvec \in Word /\ c.mcause \in {0, 3, 8, 9} /\ c.mepc \in Word
  BY DEF CsrType
<1>2. CsrWrite(c, addr, alu) \in CsrType
  BY <1>1 DEF CsrWrite, CsrType
<1>3. MretNext(c, pc) \in CsrType
  <2> DEFINE prv == NowPrv(c.MPP)
  <2>1. prv \in 0 .. 1 /\ 1 \in 0 .. 1 /\ 0 \in 0 .. 1
    BY <1>1 DEF NowPrv
  <2>2. MretNext(c, pc) = [c EXCEPT !.mepc = pc, !.now_prv = prv, !.MPIE = 1, !.MPP = 0]
    BY DEF MretNext, PRV_U
  <2> HIDE DEF prv
  <2> QED BY <2>1, <2>2 DEF CsrType
<1>4. TrapNext(c, op, pc) \in CsrType
  <2> DEFINE prv   == NowPrv(PRV_M)
             cause == IF op = "EBREAK" THEN 3 ELSE 8 + c.now_prv
  <2>1. prv \in 0 .. 1 /\ 0 \in 0 .. 1
    BY DEF NowPrv, PRV_M
  <2>2. cause \in {0, 3, 8, 9}
    BY <1>1
  <2>3. TrapNext(c, op, pc) =
          [c EXCEPT !.mepc = pc, !.mcause = cause, !.MPIE = c.MIE,
                    !.MIE = 0, !.MPP = c.now_prv, !.now_prv = prv]
    BY DEF TrapNext
  <2> HIDE DEF prv, cause
  <2> QED BY <1>1, <2>1, <2>2, <2>3 DEF CsrType
<1> QED BY <1>2, <1>3, <1>4 DEF CsrNext

(***************************************************************************)
(* Type correctness.                                                       *)
(***************************************************************************)
LEMMA InitTyped == Init => TypeOK
<1> SUFFICES ASSUME Init PROVE TypeOK
  OBVIOUS
<1>1. StartAddr \in Word /\ WordIndex(StartAddr) \in Index
  BY SizeAssumption, AddressIndex
<1>2. mem \in [Index -> Word] /\ regfile \in [Reg -> Word]
  BY ImageAssumption DEF Init
<1>3. rdataI \in Word
  BY <1>1, <1>2 DEF Init
<1>4. "NONE" \in Op /\ Mtvec0 \in Word
  BY SizeAssumption DEF Op
<1>5. csr \in CsrType
  BY <1>4, ZeroWord DEF Init, CsrReset, CsrType, BitOf, PRV_M, PRV_SZ
<1> QED BY <1>1, <1>2, <1>3, <1>4, <1>5, ZeroWord
        DEF Init, TypeOK, FetchType, Entry

\* The values on the wires between the stages
LEMMA WiresTyped ==
  ASSUME TypeOK
  PROVE  /\ IdInst \in Inst
         /\ \A a \in Reg : RegRead(a) \in Word
         /\ ExRs1 \in Word /\ ExRs2 \in Word /\ ExAlu \in Word
         /\ RegWrite \in [Reg -> Word]
<1>1. /\ IdInst \in Inst
      /\ Decode(idex.inst) \in Inst
      /\ Decode(memwb.inst) \in Inst
  BY DecodeInst DEF TypeOK, FetchType, IdInst
<1>2. WbData \in Word
  BY WriteBackWord DEF TypeOK, WbData
<1>3. \A a \in Reg : RegRead(a) \in Word
  BY <1>2, ZeroWord DEF TypeOK, RegRead
<1>4. \A a \in Reg : \A x \in Word : Forward(a, x) \in Word
  BY <1>2 DEF TypeOK, Forward
<1>5. ExRs1 \in Word /\ ExRs2 \in Word
  BY <1>1, <1>4 DEF TypeOK, ExRs1, ExRs2, Inst
<1>6. ExAlu \in Word
  BY <1>1, <1>5, AluOutWord DEF TypeOK, ExAlu
<1>7. RegWrite \in [Reg -> Word]
  BY <1>1, <1>2 DEF TypeOK, RegWrite, Waddr, Inst
<1> QED BY <1>1, <1>3, <1>5, <1>6, <1>7

\* One clock edge, whatever IF_STAGE chose, the CSR file apart
LEMMA LatchKeepsTypes ==
  ASSUME TypeOK, NEW npc \in Word, NEW out \in FetchType, Latch(npc, out), csr' \in CsrType
  PROVE  TypeOK'
<1> USE DEF TypeOK
<1>1. pc_reg' \in Word /\ rdataI' \in Word
  BY AddressIndex DEF Latch
<1>2. ifid' \in FetchType
  BY SizeAssumption DEF Latch, IfidNext, FetchType
<1>3. /\ idex' \in [pc : Word, inst : Word, op : Op, rs1 : Word, rs2 : Word,
                   live : BOOLEAN]
      /\ Entry(idex)'
  <2>1. RegRead(IdInst.rs1) \in Word /\ RegRead(IdInst.rs2) \in Word
    BY WiresTyped DEF Inst
  <2>2. IdOp \in Op /\ IdOp \in {"NONE", Decode(ifid.inst).op}
    BY WiresTyped DEF IdOp, IdInst, Inst, Op
  <2> QED BY <2>1, <2>2 DEF Latch, IdexNext, FetchType, Entry
<1>4. /\ exmem' \in [pc : Word, inst : Word, op : Op, alu : Word, rs2 : Word,
                    live : BOOLEAN]
      /\ Entry(exmem)'
  <2>1. PICK op \in ExOps : exmem' = ExmemNext(op)
    BY DEF Latch
  <2>2. op \in Op /\ op \in {"NONE", Decode(idex.inst).op}
    BY DEF ExOps, Entry, Op
  <2> QED BY <2>1, <2>2, WiresTyped DEF Entry, ExmemNext
<1>5. /\ memwb' \in [pc : Word, inst : Word, op : Op, alu : Word, live : BOOLEAN]
      /\ Entry(memwb)'
  BY DEF Latch, MemwbNext, Entry
<1>6. regfile' \in [Reg -> Word]
  BY WiresTyped DEF Latch
<1>7. mem' \in [Index -> Word] /\ rdataD' \in Word
  BY AddressIndex, MemAfterTyped DEF Latch, DataPort
<1> QED BY <1>1, <1>2, <1>3, <1>4, <1>5, <1>6, <1>7

LEMMA LatchTyped ==
  ASSUME TypeOK, NEW npc \in Word, NEW out \in FetchType, Latch(npc, out), CsrStep
  PROVE  TypeOK'
<1>1. csr' \in CsrType
  BY DecodeInst, CsrNextTyped DEF TypeOK, CsrStep, Inst
<1> QED BY <1>1, LatchKeepsTypes

LEMMA StepTyped == TypeOK /\ [Next]_vars => TypeOK'
<1> SUFFICES ASSUME TypeOK, [Next]_vars PROVE TypeOK'
  OBVIOUS
<1>1. Fetched \in FetchType /\ Flushed \in FetchType
  BY ZeroWord DEF TypeOK, FetchType, Fetched, Flushed
<1>2. CASE TakeTrap
  <2>1. csr.mtvec \in Word
    BY DEF TypeOK, CsrType
  <2> QED BY <1>1, <1>2, <2>1, LatchTyped DEF TakeTrap
<1>3. CASE TakeBranch
  BY <1>1, <1>3, WiresTyped, LatchTyped DEF TakeBranch
<1>4. CASE TakeJump
  <2>1. JumpTarget(IdInst, ifid.pc) \in Word
    BY WiresTyped, JumpTargetWord DEF TypeOK, FetchType
  <2> QED BY <1>1, <1>4, <2>1, LatchTyped DEF TakeJump
<1>5. CASE HoldFetch
  BY <1>1, <1>5, LatchTyped DEF HoldFetch, TypeOK
<1>6. CASE FetchNext
  <2>1. Plus(pc_reg, 4) \in Word
    BY SizeAssumption, PlusWord DEF TypeOK, Word
  <2> QED BY <1>1, <1>6, <2>1, LatchTyped DEF FetchNext
<1>7. CASE UNCHANGED vars
  BY <1>7 DEF vars, TypeOK, Entry
<1> QED BY <1>2, <1>3, <1>4, <1>5, <1>6, <1>7 DEF Next

(***************************************************************************)
(* Every register of the pipeline keeps its width, and the control signals *)
(* beside an instruction are its own or zero, in every state the clock     *)
(* reaches from reset.                                                     *)
(***************************************************************************)
THEOREM TypeCorrect == Spec => []TypeOK
  BY InitTyped, StepTyped, PTL DEF Spec

(***************************************************************************)
(* What MEM_STAGE bypasses.  A load is kept away from its reader by the    *)
(* stall; a jump is by the flush of the word fetched behind it, which      *)
(* JumpBubble records, so the two invariants are proved together.          *)
(***************************************************************************)
BypassInv == TypeOK /\ MemBypassReady /\ JumpBubble

LEMMA BubbleDecode == Decode(0).op = "NONE" /\ Decode(Bubble).op = "XOR"
  BY DecodeAssumption

\* A load signals are those HazardUnit looks for.
LEMMA LoadSignals ==
  ASSUME NEW op \in Op, WbSel(op) = "MEM"
  PROVE  MemEn(op) /\ ~MemWr(op)
  BY DEF WbSel, MemEn, MemWr, Loads, Stores, Jumps, CsrOps, CsrImmOps, CsrRegOps

LEMMA JumpSignals ==
  ASSUME NEW op \in Op, WbSel(op) = "PC4"
  PROVE  op \in Jumps
  BY DEF WbSel

LEMMA InitBypass == Init => MemBypassReady /\ JumpBubble
  BY DEF Init, MemBypassReady, JumpBubble, Jumps

\* The bypass is sound after any clock edge: the reader was in ID_STAGE
\* when the instruction now in MEM_STAGE was in EXE_STAGE.
LEMMA LatchBypass ==
  ASSUME TypeOK, JumpBubble, NEW npc, NEW out, Latch(npc, out)
  PROVE  MemBypassReady'
<1> SUFFICES ASSUME NEW a \in {IdInst.rs1, IdInst.rs2},
                    IdOp # "NONE", FromMem(a)',
                    WbSel(exmem'.op) \in {"MEM", "PC4"}
             PROVE  FALSE
  BY DEF MemBypassReady, Latch, IdexNext, IdInst
<1>1. exmem'.inst = idex.inst /\ exmem'.op \in {idex.op, "NONE"}
  BY DEF Latch, ExmemNext, ExOps
<1>2. WbSel("NONE") = "ALU"
  BY DEF WbSel, Loads, Jumps, CsrOps, CsrImmOps, CsrRegOps
<1>3. exmem'.op = idex.op /\ idex.op \in Op
  BY <1>1, <1>2 DEF TypeOK
<1>4. Decode(idex.inst).rd = a
  BY <1>1 DEF FromMem
<1>5. CASE WbSel(idex.op) = "MEM"
  <2>1. Stall
    BY <1>3, <1>4, <1>5, LoadSignals DEF Stall
  <2> QED BY <2>1 DEF IdOp
<1>6. CASE WbSel(idex.op) = "PC4"
  <2>1. ifid.inst = 0
    BY <1>3, <1>6, JumpSignals DEF JumpBubble
  <2> QED BY <2>1, BubbleDecode DEF IdOp, IdInst
<1> QED BY <1>3, <1>5, <1>6

\* A jump leaves ID_STAGE only by TakeJump, which flushes.
LEMMA StepJumpBubble == [Next]_vars /\ JumpBubble => JumpBubble'
<1> SUFFICES ASSUME [Next]_vars, JumpBubble PROVE JumpBubble'
  OBVIOUS
<1>1. CASE UNCHANGED vars
  BY <1>1 DEF vars, JumpBubble
<1>2. "NONE" \notin Jumps
  BY DEF Jumps
<1>3. CASE TakeTrap \/ TakeBranch
  <2>1. idex'.op = "NONE"
    BY <1>3 DEF TakeTrap, TakeBranch, Latch, IdexNext, IdOp, Flush
  <2> QED BY <1>2, <2>1 DEF JumpBubble
<1>4. CASE HoldFetch \/ FetchNext
  <2>1. idex'.op \notin Jumps
    BY <1>2, <1>4 DEF HoldFetch, FetchNext, Latch, IdexNext, IdOp, IdJump
  <2> QED BY <2>1 DEF JumpBubble
<1>5. CASE TakeJump
  <2>1. CASE Stall
    <3>1. idex'.op = "NONE"
      BY <1>5, <2>1 DEF TakeJump, Latch, IdexNext, IdOp
    <3> QED BY <1>2, <3>1 DEF JumpBubble
  <2>2. CASE ~Stall
    <3>1. ifid'.inst = 0
      BY <1>5, <2>2 DEF TakeJump, Latch, IfidNext, Flush, Flushed
    <3> QED BY <3>1 DEF JumpBubble
  <2> QED BY <2>1, <2>2
<1> QED BY <1>1, <1>3, <1>4, <1>5 DEF Next

LEMMA StepBypass == BypassInv /\ [Next]_vars => BypassInv'
<1> SUFFICES ASSUME BypassInv, [Next]_vars PROVE BypassInv'
  OBVIOUS
<1>1. TypeOK' /\ JumpBubble'
  BY StepTyped, StepJumpBubble DEF BypassInv
<1>2. MemBypassReady'
  <2>1. CASE UNCHANGED vars
    BY <2>1 DEF vars, BypassInv, MemBypassReady, FromMem
  <2>2. CASE Next
    <3>1. \E npc, out : Latch(npc, out)
      BY <2>2 DEF Next, TakeTrap, TakeBranch, TakeJump, HoldFetch, FetchNext
    <3> QED BY <3>1, LatchBypass DEF BypassInv
  <2> QED BY <2>1, <2>2
<1> QED BY <1>1, <1>2 DEF BypassInv

(***************************************************************************)
(* An instruction never computes with the ALU output of a load or of a     *)
(* jump in place of the value they write back.                             *)
(***************************************************************************)
THEOREM BypassReady == Spec => []MemBypassReady
<1>1. Init => BypassInv
  BY InitTyped, InitBypass DEF BypassInv
<1>2. BypassInv => MemBypassReady
  BY DEF BypassInv
<1> QED BY <1>1, <1>2, StepBypass, PTL DEF Spec

(***************************************************************************)
(* Behind a jump in EXE_STAGE there is always the flushed word.            *)
(***************************************************************************)
THEOREM JumpsFlush == Spec => []JumpBubble
<1>1. Init => BypassInv
  BY InitTyped, InitBypass DEF BypassInv
<1>2. BypassInv => JumpBubble
  BY DEF BypassInv
<1> QED BY <1>1, <1>2, StepBypass, PTL DEF Spec

----------------------------------------------------------------------------
(***************************************************************************)
(* Reset empties the pipeline register by register: Own are the words it   *)
(* leaves there. A stall may hold IFID_REGS for one edge, and never for    *)
(* two, since it puts a bubble in IDEX_REGS.                               *)
(***************************************************************************)
Own == started \cup {0, Bubble}

Draining ==
  /\ held \in 0 .. Drained
  /\ held >= 1 => rdataI \in Own
  /\ held = 2 => ifid.inst \in Own \/ idex.op = "NONE"
  /\ held >= 3 => ifid.inst \in Own
  /\ held >= 4 => idex.inst \in Own
  /\ held >= 5 => exmem.inst \in Own
  /\ held >= 6 => memwb.inst \in Own

ResetInv == BypassInv /\ Draining

LEMMA ResetInitInv == ResetInit => ResetInv
<1> SUFFICES ASSUME ResetInit PROVE ResetInv
  OBVIOUS
<1>1. BypassInv
  BY InitTyped, InitBypass DEF ResetInit, BypassInv
<1>2. Draining
  BY DEF ResetInit, Init, Draining, Drained, Own, StartWord
<1> QED BY <1>1, <1>2 DEF ResetInv

\* The CSR file keeps its widths under reset.
LEMMA ResetCsrTyped ==
  ASSUME TypeOK, ResetCsr
  PROVE  csr' \in CsrType
<1> DEFINE c == CsrNext(csr, exmem.op, Decode(exmem.inst).csr, exmem.pc, exmem.alu)
<1>1. Decode(exmem.inst).csr \in CsrAddr
  BY DecodeInst DEF TypeOK, Inst
<1>2. c \in CsrType
  BY <1>1, CsrNextTyped DEF TypeOK
<1>3. CsrReset(Mtvec0) \in CsrType
  BY SizeAssumption, ZeroWord DEF CsrReset, CsrType, BitOf, PRV_M, PRV_SZ
<1>4. csr' = [CsrReset(Mtvec0) EXCEPT !.mcause = c.mcause, !.mepc = c.mepc]
  BY DEF ResetCsr
<1> HIDE DEF c
<1> QED BY <1>2, <1>3, <1>4 DEF CsrType

\* A clock edge as LatchTyped has it, the CSR file apart.
LEMMA ResetTyped ==
  ASSUME TypeOK, ResetEdge
  PROVE  TypeOK'
<1>1. StartAddr \in Word /\ Offered \in FetchType
  BY SizeAssumption, ZeroWord DEF TypeOK, FetchType, Offered, Fetched, Flushed
<1>2. Latch(StartAddr, Offered)
  BY DEF ResetEdge
<1>3. csr' \in CsrType
  BY ResetCsrTyped DEF ResetEdge
<1> QED BY <1>1, <1>2, <1>3, LatchKeepsTypes DEF TypeOK

LEMMA ResetJumpBubble ==
  ASSUME TypeOK, ResetEdge
  PROVE  JumpBubble'
<1>1. Latch(StartAddr, Offered)
  BY DEF ResetEdge
<1>2. "NONE" \notin Jumps
  BY DEF Jumps
<1>3. idex'.op = IdOp /\ ifid' = IfidNext(Offered)
  BY <1>1 DEF Latch, IdexNext
<1>4. CASE Flush \/ Stall \/ ~IdJump
  BY <1>2, <1>3, <1>4 DEF JumpBubble, IdOp, IdJump
<1>5. CASE ~Flush /\ ~Stall /\ IdJump
  BY <1>3, <1>5 DEF JumpBubble, IfidNext, Flush, Offered, Flushed
<1> QED BY <1>4, <1>5

LEMMA ResetDraining ==
  ASSUME Draining, ResetEdge
  PROVE  Draining'
<1>1. Latch(StartAddr, Offered)
  BY DEF ResetEdge
<1>2. /\ held' = IF held < Drained THEN held + 1 ELSE held
      /\ held \in 0 .. 6
      /\ StartWord \in started'
      /\ held >= 1 => started \subseteq started'
  BY DEF ResetEdge, Draining, Drained
<1>3. /\ rdataI' = StartWord
      /\ ifid' = IfidNext(Offered)
      /\ idex'.inst = ifid.inst /\ idex'.op = IdOp
      /\ exmem'.inst = idex.inst
      /\ memwb'.inst = exmem.inst
  BY <1>1 DEF Latch, StartWord, IdexNext, ExmemNext, MemwbNext
<1>4. held >= 1 => \A w \in Own : w \in Own'
  BY <1>2 DEF Own
<1>5. held' \in 0 .. Drained /\ rdataI' \in Own'
  BY <1>2, <1>3 DEF Own, Drained
<1>6. Offered.inst \in {0, rdataI}
  BY DEF Offered, Flushed, Fetched
<1>7. ifid'.inst \in {Bubble, ifid.inst, 0, rdataI}
  BY <1>3, <1>6 DEF IfidNext
<1>8. ~Stall => ifid'.inst \in {Bubble, 0, rdataI}
  BY <1>3, <1>6 DEF IfidNext
<1>9. Stall => idex.op # "NONE" /\ IdOp = "NONE"
  BY DEF Stall, IdOp, MemEn, Loads, Stores
<1>10. held' = 2 => ifid'.inst \in Own' \/ idex'.op = "NONE"
  <2> SUFFICES ASSUME held' = 2, ~Stall PROVE ifid'.inst \in Own'
    BY <1>3, <1>9
  <2>1. held = 1 /\ rdataI \in Own
    BY <1>2 DEF Drained, Draining
  <2>2. ifid'.inst \in Own
    BY <1>8, <2>1 DEF Own
  <2> QED BY <1>4, <2>1, <2>2
<1>11. held' >= 3 => ifid'.inst \in Own'
  <2> SUFFICES ASSUME held' >= 3 PROVE ifid'.inst \in Own'
    OBVIOUS
  <2>1. held >= 2 /\ held >= 1 /\ rdataI \in Own
    BY <1>2 DEF Drained, Draining
  <2>2. Stall => ifid.inst \in Own
    BY <1>2, <1>9, <2>1 DEF Draining
  <2>3. ifid'.inst \in Own
    BY <1>7, <1>8, <2>1, <2>2 DEF Own
  <2> QED BY <1>4, <2>1, <2>3
<1>12. /\ held' >= 4 => idex'.inst \in Own'
       /\ held' >= 5 => exmem'.inst \in Own'
       /\ held' >= 6 => memwb'.inst \in Own'
  BY <1>2, <1>3, <1>4 DEF Draining, Drained
<1> QED BY <1>5, <1>10, <1>11, <1>12 DEF Draining

LEMMA ResetStep == ResetInv /\ [ResetNext]_rvars => ResetInv'
<1> SUFFICES ASSUME ResetInv, [ResetNext]_rvars PROVE ResetInv'
  OBVIOUS
<1> USE DEF ResetInv
<1>1. CASE ResetEdge
  <2>1. TypeOK' /\ JumpBubble' /\ Draining'
    BY <1>1, ResetTyped, ResetJumpBubble, ResetDraining DEF BypassInv
  <2>2. MemBypassReady'
    BY <1>1, LatchBypass DEF BypassInv, ResetEdge
  <2> QED BY <2>1, <2>2 DEF BypassInv
<1>2. CASE RunEdge
  <2>1. BypassInv'
    BY <1>2, StepBypass DEF RunEdge
  <2>2. Draining'
    BY <1>2 DEF RunEdge, Draining, Drained
  <2> QED BY <2>1, <2>2
<1>3. CASE UNCHANGED rvars
  <2>1. UNCHANGED vars
    BY <1>3 DEF rvars, vars
  <2>2. BypassInv'
    BY <2>1, StepBypass
  <2>3. Draining'
    BY <1>3 DEF rvars, Draining, Own
  <2> QED BY <2>2, <2>3
<1> QED BY <1>1, <1>2, <1>3 DEF ResetNext

(***************************************************************************)
(* Six clock edges of reset leave nothing in the pipeline of the program   *)
(* that ran before.                                                        *)
(***************************************************************************)
THEOREM ResetEmpties == ResetSpec => []ResetDrains
<1>1. ResetInv => ResetDrains
  BY DEF ResetInv, Draining, ResetDrains, Foreign, Own, Drained
<1> QED BY <1>1, ResetInitInv, ResetStep, PTL DEF ResetSpec

(***************************************************************************)
(* A reset at any moment, of any length, never lets an instruction compute *)
(* with a value that is not ready in MEM_STAGE.                            *)
(***************************************************************************)
THEOREM ResetKeepsBypass == ResetSpec => []MemBypassReady
<1>1. ResetInv => MemBypassReady
  BY DEF ResetInv, BypassInv
<1> QED BY <1>1, ResetInitInv, ResetStep, PTL DEF ResetSpec

(***************************************************************************)
(* Nor does it let a word through behind a jump.                           *)
(***************************************************************************)
THEOREM ResetKeepsFlush == ResetSpec => []JumpBubble
<1>1. ResetInv => JumpBubble
  BY DEF ResetInv, BypassInv
<1> QED BY <1>1, ResetInitInv, ResetStep, PTL DEF ResetSpec

(***************************************************************************)
(* What an entry with one of its own words can change is what the word at  *)
(* START_ADDR says: the zero word has no signals and BUBBLE writes x0.     *)
(***************************************************************************)
LEMMA OwnEntryActs ==
  ASSUME NEW e, Entry(e), e.inst \in Own
  PROVE  /\ RfWen(e.op) /\ Decode(e.inst).rd # 0 =>
              e.inst \in started /\ RfWen(Decode(e.inst).op)
         /\ MemWr(e.op) => e.inst \in started /\ MemWr(Decode(e.inst).op)
<1>1. ~RfWen("NONE") /\ ~MemWr("NONE") /\ ~MemWr("XOR")
  BY DEF RfWen, MemWr, Loads, ImmOps, RegOps, Upper, Jumps, CsrOps, CsrImmOps,
         CsrRegOps, Stores
<1>2. Decode(Bubble).rd = 0 /\ Decode(Bubble).op = "XOR" /\ Decode(0).op = "NONE"
  BY DecodeAssumption
<1> QED BY <1>1, <1>2 DEF Entry, Own

(***************************************************************************)
(* While reset is held on, the register file and the memory change only as *)
(* the instruction at START_ADDR changes them.                             *)
(***************************************************************************)
THEOREM ResetOnlyStartActs == ResetSpec => OnlyStartActs
<1> DEFINE Acts ==
      held = Drained /\ held' = Drained =>
        /\ \A r \in Reg : regfile'[r] # regfile[r] =>
             \E w \in started : RfWen(Decode(w).op) /\ Decode(w).rd = r
        /\ mem' # mem => \E w \in started : MemWr(Decode(w).op)
<1>1. ResetInv /\ [ResetNext]_rvars => [Acts]_rvars
  <2> SUFFICES ASSUME ResetInv, ResetEdge, held = Drained
               PROVE  /\ \A r \in Reg : regfile'[r] # regfile[r] =>
                          \E w \in started : RfWen(Decode(w).op) /\ Decode(w).rd = r
                      /\ mem' # mem => \E w \in started : MemWr(Decode(w).op)
    BY DEF ResetNext, RunEdge, Drained
  <2>1. /\ exmem.inst \in Own /\ memwb.inst \in Own
        /\ Entry(exmem) /\ Entry(memwb)
        /\ regfile \in [Reg -> Word]
    BY DEF ResetInv, BypassInv, TypeOK, Draining, Drained
  <2>2. /\ regfile' = RegWrite
        /\ mem' = MemAfter(mem, exmem.op, exmem.alu, exmem.rs2)
    BY DEF ResetEdge, Latch, DataPort
  <2>3. ASSUME NEW r \in Reg, regfile'[r] # regfile[r]
        PROVE  \E w \in started : RfWen(Decode(w).op) /\ Decode(w).rd = r
    <3>1. RfWen(memwb.op) /\ Waddr # 0 /\ Waddr = r
      BY <2>1, <2>2, <2>3 DEF RegWrite
    <3> QED BY <2>1, <3>1, OwnEntryActs DEF Waddr
  <2>4. ASSUME mem' # mem
        PROVE  \E w \in started : MemWr(Decode(w).op)
    BY <2>1, <2>2, <2>4, OwnEntryActs DEF MemAfter
  <2> QED BY <2>3, <2>4
<1> QED BY <1>1, ResetInitInv, ResetStep, PTL DEF ResetSpec, OnlyStartActs
=============================================================================
