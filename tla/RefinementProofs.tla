---------------------------- MODULE RefinementProofs ----------------------------
(***************************************************************************)
(* The pipeline implements the sequential machine, for every program, word *)
(* size, instruction encoding, ALU and memory lane function: the safety    *)
(* invariants of PipelineRefinement and the refinement itself, of SafeSpec.*)
(***************************************************************************)
EXTENDS PipelineRefinement, PipelineProofs

(***************************************************************************)
(* What else holds between the stages. Arch is what the sequential machine *)
(* reads; BehindPc is where it goes on after the instruction in MEM_STAGE. *)
(***************************************************************************)
Arch(r) == IF r = 0 THEN 0 ELSE AbsRegs[r]

BehindPc == IF idex.live THEN idex.pc ELSE FrontPc

\* Beside the program's own path there is nothing but bubbles in EXE_STAGE.
IdleOK == ~idex.live => idex.op \in {"NONE", "XOR"}

\* The rows whose ALU output is used.
Computes == Op \ (Jumps \cup System \cup Fences \cup {"NONE"})

\* The instruction in MEM_STAGE has computed what the sequential machine
\* computes for it.
Executed ==
  LET i == Decode(exmem.inst)
  IN exmem.live =>
       /\ exmem.op \in Computes =>
            exmem.alu = AluOut(exmem.op, i, exmem.pc, Arch(i.rs1), Arch(i.rs2))
       /\ exmem.op \in Stores => exmem.rs2 = Arch(i.rs2)

\* Behind it comes the instruction the sequential machine executes next.
Behind ==
  LET i == Decode(exmem.inst)
  IN exmem.live =>
       BehindPc =
         CASE exmem.op \in Jumps -> JumpTarget(i, exmem.pc)
           [] exmem.op \notin Jumps /\ Taken(exmem.op, Arch(i.rs1), Arch(i.rs2)) -> exmem.alu
           [] OTHER -> Plus(exmem.pc, 4)

RefInv ==
  /\ BypassInv
  /\ FetchOK /\ LiveOK /\ IdleOK /\ ChainOK
  /\ OperandsOK /\ Executed /\ Behind

(***************************************************************************)
(* Facts about rows of the control table.                                  *)
(***************************************************************************)
LEMMA InstParts ==
  ASSUME NEW w \in Word
  PROVE  /\ Decode(w).op \in Op
         /\ Decode(w).rd \in Reg /\ Decode(w).rs1 \in Reg /\ Decode(w).rs2 \in Reg
         /\ Decode(w).imm \in Word /\ Decode(w).immJ \in Word
         /\ Decode(w).csr \in CsrAddr
  BY DecodeInst DEF Inst

LEMMA Rows ==
  /\ "NONE" \notin Jumps /\ "NONE" \notin Branches /\ "NONE" \notin Stores
  /\ "XOR" \notin Jumps /\ "XOR" \notin Branches /\ "XOR" \notin Stores
  /\ ~RfWen("NONE")
  /\ ~MemEn("NONE") /\ ~MemEn("XOR") /\ ~MemWr("NONE") /\ ~MemWr("XOR")
  /\ CsrCmd("NONE") = "N" /\ CsrCmd("XOR") = "N"
  /\ ~Eret("NONE") /\ ~Eret("XOR")
  /\ \A a, b : ~Taken("NONE", a, b) /\ ~Taken("XOR", a, b)
  BY DEF Jumps, Branches, Stores, RfWen, Loads, ImmOps, RegOps, Upper, CsrOps, CsrImmOps,
         CsrRegOps, MemEn, MemWr, CsrCmd, System, Eret, Taken

LEMMA TakenBranch ==
  ASSUME NEW op, NEW a, NEW b, Taken(op, a, b)
  PROVE  op \in Branches /\ op \notin Jumps /\ ~Eret(op) /\ op # "NONE"
  BY DEF Taken, Branches, Jumps, Eret

\* A bubble has no effect.
LEMMA BubbleEffect ==
  ASSUME NEW e, e.inst \in {0, Bubble}, e.op \in {"NONE", Decode(e.inst).op}
  PROVE  e.op \in {"NONE", "XOR"} /\ ~HasEffect(e)
<1>1. e.op \in {"NONE", "XOR"} /\ Decode(e.inst).rd = 0
  BY DecodeAssumption
<1> QED BY <1>1, Rows DEF HasEffect

LEMMA ZeroedEffect ==
  ASSUME NEW e, e.op = "NONE"
  PROVE  ~HasEffect(e)
  BY Rows DEF HasEffect

(***************************************************************************)
(* One clock edge, whichever action takes it: FetchAction is the part of   *)
(* each that differs.                                                      *)
(***************************************************************************)
FetchAction(npc, out) ==
  \/ Trap /\ npc = csr.mtvec /\ out = Flushed
  \/ ~Trap /\ BranchBool /\ npc = ExAlu /\ out = Flushed
  \/ ~Flush /\ IdJump /\ npc = JumpTarget(IdInst, ifid.pc) /\ out = Flushed
  \/ ~Flush /\ ~IdJump /\ Stall /\ npc = pc_reg /\ out = Fetched
  \/ ~Flush /\ ~IdJump /\ ~Stall /\ npc = Plus(pc_reg, 4) /\ out = Fetched

LEMMA EdgeParts ==
  ASSUME Next
  PROVE  \E npc, out : FetchAction(npc, out) /\ Latch(npc, out) /\ CsrStep
<1>1. CASE TakeTrap
  BY <1>1 DEF TakeTrap, FetchAction
<1>2. CASE TakeBranch
  BY <1>2 DEF TakeBranch, FetchAction
<1>3. CASE TakeJump
  BY <1>3 DEF TakeJump, FetchAction
<1>4. CASE HoldFetch
  BY <1>4 DEF HoldFetch, FetchAction
<1>5. CASE FetchNext
  BY <1>5 DEF FetchNext, FetchAction
<1> QED BY <1>1, <1>2, <1>3, <1>4, <1>5 DEF Next

LEMMA FetchActionNext ==
  ASSUME NEW npc, NEW out, FetchAction(npc, out)
  PROVE  npc = NextFetch
  BY DEF FetchAction, NextFetch, Flush

\* A step of SafeNext that changes something is a clock edge without hazard.
LEMMA SafeEdge ==
  ASSUME [SafeNext]_vars
  PROVE  \/ UNCHANGED vars
         \/ ~Hazard /\ Next /\ \E npc, out : FetchAction(npc, out) /\ Latch(npc, out) /\ CsrStep
  BY EdgeParts DEF SafeNext

LEMMA SafeIsStep ==
  ASSUME [SafeNext]_vars
  PROVE  [Next]_vars
  BY DEF SafeNext

(***************************************************************************)
(* The register file as the program sees it. The instruction in MEM_STAGE  *)
(* writes it, and nothing else does: after the edge it holds for every     *)
(* register the value ArchReg names.                                       *)
(***************************************************************************)
LEMMA AbsRegsTyped ==
  ASSUME TypeOK
  PROVE  /\ AbsRegs \in [Reg -> Word]
         /\ \A r \in Reg : AbsRegs[r] =
              IF RfWen(memwb.op) /\ Waddr = r /\ r # 0 THEN WbData ELSE regfile[r]
<1>1. Waddr \in Reg
  BY InstParts DEF TypeOK, Waddr
<1> QED BY <1>1, WiresTyped DEF TypeOK, AbsRegs, RegWrite

\* What the data port delivers is what a load writes back.
LEMMA LoadedData ==
  ASSUME TypeOK, NEW npc, NEW out, Latch(npc, out)
  PROVE  WbData' = WriteBack(exmem.op, exmem.pc, exmem.alu, mem[WordIndex(exmem.alu)])
<1>1. memwb' = MemwbNext
  BY DEF Latch
<1>2. WbSel(exmem.op) = "MEM" => rdataD' = mem[WordIndex(exmem.alu)]
  BY LoadSignals DEF TypeOK, Latch, DataPort
<1>3. WbData' = WriteBack(exmem.op, exmem.pc, exmem.alu, rdataD')
  BY <1>1 DEF WbData, MemwbNext
<1>4. CASE WbSel(exmem.op) = "MEM"
  BY <1>2, <1>3, <1>4
<1>5. CASE WbSel(exmem.op) # "MEM"
  BY <1>3, <1>5 DEF WriteBack
<1> QED BY <1>4, <1>5

LEMMA AbsRegsStep ==
  ASSUME TypeOK, TypeOK', NEW npc, NEW out, Latch(npc, out)
  PROVE  /\ \A r \in Reg : Arch(r)' = ArchReg(r)
         /\ AbsRegs' = IF RfWen(exmem.op) /\ Decode(exmem.inst).rd # 0
                       THEN [AbsRegs EXCEPT ![Decode(exmem.inst).rd] =
                               WriteBack(exmem.op, exmem.pc, exmem.alu,
                                         mem[WordIndex(exmem.alu)])]
                       ELSE AbsRegs
<1> DEFINE data == WriteBack(exmem.op, exmem.pc, exmem.alu, mem[WordIndex(exmem.alu)])
<1>1. WbData' = data
  BY LoadedData
<1>2. /\ memwb'.op = exmem.op /\ Waddr' = Decode(exmem.inst).rd
      /\ regfile' = AbsRegs
  BY DEF Latch, MemwbNext, Waddr, AbsRegs
<1>3. AbsRegs' = IF RfWen(exmem.op) /\ Decode(exmem.inst).rd # 0
                 THEN [AbsRegs EXCEPT ![Decode(exmem.inst).rd] = data] ELSE AbsRegs
  <2>1. AbsRegs' = IF RfWen(memwb'.op) /\ Waddr' # 0
                   THEN [regfile' EXCEPT ![Waddr'] = WbData'] ELSE regfile'
    BY DEF AbsRegs, RegWrite
  <2> QED BY <1>1, <1>2, <2>1
<1>4. AbsRegs \in [Reg -> Word]
  BY AbsRegsTyped
<1> HIDE DEF data
<1>5. ASSUME NEW r \in Reg
      PROVE  Arch(r)' = ArchReg(r)
  <2>1. Arch(r)' = IF r = 0 THEN 0 ELSE AbsRegs'[r]
    BY DEF Arch
  <2>2. ArchReg(r) = CASE r = 0 -> 0
                       [] r # 0 /\ Writes(exmem, r) -> data
                       [] OTHER -> AbsRegs[r]
    BY DEF ArchReg, data
  <2>3. CASE r # 0 /\ Writes(exmem, r)
    <3>1. AbsRegs'[r] = data
      BY <1>3, <1>4, <2>3 DEF Writes
    <3> QED BY <2>1, <2>2, <2>3, <3>1
  <2>4. CASE r # 0 /\ ~Writes(exmem, r)
    <3>1. AbsRegs'[r] = AbsRegs[r]
      BY <1>3, <1>4, <2>4 DEF Writes
    <3> QED BY <2>1, <2>2, <2>4, <3>1
  <2>5. CASE r = 0
    BY <2>1, <2>2, <2>5
  <2> QED BY <2>3, <2>4, <2>5
<1> QED BY <1>3, <1>5 DEF data

(***************************************************************************)
(* Only live entries act. A stall meets a load, so the instruction in      *)
(* EXE_STAGE is live when there is one.                                    *)
(***************************************************************************)
LEMMA StallLive ==
  ASSUME IdleOK, Stall
  PROVE  idex.live /\ idex.op \notin Branches /\ idex.op \notin Jumps
<1>1. MemEn(idex.op) /\ ~MemWr(idex.op)
  BY DEF Stall
<1>2. idex.op \in Loads \cup {"FENCE"}
  BY <1>1 DEF MemEn, MemWr
<1>3. idex.op \notin Branches /\ idex.op \notin Jumps
  BY <1>2 DEF Loads, Branches, Jumps
<1> QED BY <1>1, <1>3, Rows DEF IdleOK

\* What is no instruction of the program's path neither traps nor branches.
LEMMA IdleSilent ==
  ASSUME LiveOK, IdleOK, TypeOK
  PROVE  /\ Trap => exmem.live
         /\ BranchBool => idex.live
         /\ IdJump => ifid.live
<1>1. Trap => exmem.live
  <2>1. Trap => CsrCmd(exmem.op) = "I"
    BY DEF Trap, Eret, CsrCmd, System
  <2> QED BY <2>1 DEF LiveOK, HasEffect
<1>2. BranchBool => idex.live
  BY Rows DEF IdleOK, BranchBool
<1>3. IdJump => ifid.live
  <2>1. ~ifid.live => IdInst.op \in {"NONE", "XOR"}
    BY DecodeAssumption DEF LiveOK, IdInst
  <2> QED BY <2>1, Rows DEF IdJump
<1> QED BY <1>1, <1>2, <1>3

\* The entry in MEM_STAGE after an edge was the one in EXE_STAGE.
LEMMA EdgeExmem ==
  ASSUME NEW npc, NEW out, Latch(npc, out)
  PROVE  /\ exmem'.pc = idex.pc /\ exmem'.inst = idex.inst
         /\ exmem'.op \in {idex.op, "NONE"} /\ (~Trap => exmem'.op = idex.op)
         /\ exmem'.alu = ExAlu /\ exmem'.rs2 = ExRs2
         /\ exmem'.live = (idex.live /\ ~Trap)
<1>1. PICK op \in ExOps : exmem' = ExmemNext(op)
  BY DEF Latch
<1> QED BY <1>1 DEF ExmemNext, ExOps

LEMMA EdgeLive ==
  ASSUME RefInv, ~Hazard, NEW npc, NEW out, FetchAction(npc, out), Latch(npc, out)
  PROVE  LiveOK' /\ IdleOK'
<1> USE DEF RefInv, BypassInv
<1>1. ~ifid'.live => ifid'.inst \in {0, Bubble}
  <2>1. ifid' = IfidNext(out) /\ out \in {Fetched, Flushed}
    BY DEF Latch, FetchAction
  <2>2. CASE BranchBool
    BY <2>1, <2>2 DEF IfidNext
  <2>3. CASE ~BranchBool /\ Stall
    <3>1. ifid' = [ifid EXCEPT !.live = @ /\ ~Trap]
      BY <2>1, <2>3 DEF IfidNext
    <3>2. Trap => ~ifid.live
      BY <2>3 DEF Hazard, TrapShadow
    <3>3. ifid \in FetchType
      BY DEF TypeOK
    <3>4. ifid'.live = (ifid.live /\ ~Trap) /\ ifid'.inst = ifid.inst
      BY <3>1, <3>3 DEF FetchType
    <3> QED BY <3>2, <3>4 DEF LiveOK
  <2>4. CASE ~BranchBool /\ ~Stall
    BY <2>1, <2>4 DEF IfidNext, Fetched, Flushed
  <2> QED BY <2>2, <2>3, <2>4
<1>2. /\ idex'.live = (ifid.live /\ ~Flush /\ ~Stall)
      /\ idex'.inst = ifid.inst /\ idex'.op = IdOp
  BY DEF Latch, IdexNext
<1>3. idex'.live => idex'.op = Decode(idex'.inst).op
  BY <1>2 DEF IdOp, IdInst
<1>4. ~idex'.live => ~HasEffect(idex') /\ idex'.op \in {"NONE", "XOR"}
  <2>1. CASE Flush \/ Stall
    BY <1>2, <2>1, ZeroedEffect DEF IdOp
  <2>2. CASE ~Flush /\ ~Stall /\ ~ifid.live
    BY <1>2, <2>2, BubbleEffect DEF IdOp, IdInst, LiveOK
  <2> QED BY <1>2, <2>1, <2>2
<1>5. /\ exmem'.live = (idex.live /\ ~Trap) /\ exmem'.inst = idex.inst
      /\ exmem'.op \in {idex.op, "NONE"} /\ (~Trap => exmem'.op = idex.op)
  BY EdgeExmem
<1>6. exmem'.live => exmem'.op = Decode(exmem'.inst).op
  BY <1>5 DEF LiveOK
<1>7. ~exmem'.live => ~HasEffect(exmem')
  <2>1. ~exmem'.live => ~HasEffect(idex)
    BY <1>5 DEF Hazard, TrapShadow, LiveOK
  <2>2. HasEffect(exmem') => HasEffect(idex)
    BY <1>5, ZeroedEffect DEF HasEffect
  <2> QED BY <2>1, <2>2
<1>8. ~idex'.live => idex'.op \notin Branches
  BY <1>4, Rows
<1> QED BY <1>1, <1>3, <1>4, <1>6, <1>7, <1>8 DEF LiveOK, IdleOK, HasEffect

(***************************************************************************)
(* Live entries are what memory holds at their addresses.                  *)
(***************************************************************************)
LEMMA FetchedKept ==
  ASSUME TypeOK, ~StaleFetch, NEW npc, NEW out, Latch(npc, out),
         NEW a \in InFlight \cup {NextFetch}
  PROVE  mem'[WordIndex(a)] = mem[WordIndex(a)]
<1>1. mem' = MemAfter(mem, exmem.op, exmem.alu, exmem.rs2)
  BY DEF Latch, DataPort
<1>2. CASE mem' = mem
  BY <1>2
<1>3. CASE mem' # mem
  <2>1. MemWr(exmem.op)
    BY <1>1, <1>3 DEF MemAfter
  <2>2. WordIndex(exmem.alu) # WordIndex(a)
    BY <1>1, <1>3, <2>1 DEF StaleFetch
  <2>3. mem \in [Index -> Word]
    BY DEF TypeOK
  <2> QED BY <1>1, <2>1, <2>2, <2>3 DEF MemAfter
<1> QED BY <1>2, <1>3

LEMMA EdgeFetch ==
  ASSUME RefInv, ~Hazard, NEW npc, NEW out, FetchAction(npc, out), Latch(npc, out)
  PROVE  FetchOK'
<1> USE DEF RefInv, BypassInv, FetchOK
<1>1. \A a \in InFlight \cup {NextFetch} : mem'[WordIndex(a)] = mem[WordIndex(a)]
  BY FetchedKept DEF Hazard
<1>2. rdataI' = mem'[WordIndex(pc_reg')]
  BY <1>1, FetchActionNext DEF Latch
<1>3. ASSUME ifid'.live PROVE ifid'.inst = mem'[WordIndex(ifid'.pc)]
  <2>1. ifid' = IfidNext(out)
    BY DEF Latch
  <2>2. ~BranchBool
    BY <1>3, <2>1 DEF IfidNext
  <2>3. CASE Stall
    <3>1. ifid' = [ifid EXCEPT !.live = @ /\ ~Trap] /\ ifid \in FetchType
      BY <2>1, <2>2, <2>3 DEF IfidNext, TypeOK
    <3>2. ifid'.live = (ifid.live /\ ~Trap) /\ ifid'.inst = ifid.inst /\ ifid'.pc = ifid.pc
      BY <3>1 DEF FetchType
    <3>3. ifid.live /\ ifid.pc \in InFlight
      BY <1>3, <2>2, <3>2 DEF InFlight
    <3> QED BY <1>1, <3>2, <3>3
  <2>4. CASE ~Stall
    <3>1. ifid' = out
      BY <2>1, <2>2, <2>4 DEF IfidNext
    <3>2. out = Fetched /\ ~Trap /\ ~IdJump
      BY <1>3, <3>1 DEF FetchAction, Flushed, Flush
    <3>3. pc_reg \in InFlight
      BY <2>2, <3>2 DEF InFlight, RedirectPc
    <3> QED BY <1>1, <3>1, <3>2, <3>3 DEF Fetched
  <2> QED BY <2>3, <2>4
<1>4. ASSUME idex'.live PROVE idex'.inst = mem'[WordIndex(idex'.pc)]
  <2>1. ifid.live /\ ~Flush /\ idex'.pc = ifid.pc /\ idex'.inst = ifid.inst
    BY <1>4 DEF Latch, IdexNext
  <2>2. ifid.pc \in InFlight
    BY <2>1 DEF InFlight, Flush
  <2> QED BY <1>1, <2>1, <2>2
<1>5. ASSUME exmem'.live PROVE exmem'.inst = mem'[WordIndex(exmem'.pc)]
  <2>1. idex.live /\ exmem'.pc = idex.pc /\ exmem'.inst = idex.inst
    BY <1>5, EdgeExmem
  <2>2. idex.pc \in InFlight
    BY <2>1 DEF InFlight
  <2> QED BY <1>1, <2>1, <2>2
<1> QED BY <1>2, <1>3, <1>4, <1>5

(***************************************************************************)
(* An operand in EXE_STAGE. The instruction was in ID_STAGE, where it read *)
(* the register file and the write port; what was then in EXE_STAGE and in *)
(* MEM_STAGE is bypassed to it.                                            *)
(***************************************************************************)
LEMMA SourceTyped ==
  ASSUME TypeOK, NEW r \in Sources(IdInst)
  PROVE  r \in Reg /\ IdInst.op # "NONE"
<1>1. IdInst.rs1 \in Reg /\ IdInst.rs2 \in Reg
  BY InstParts DEF TypeOK, FetchType, IdInst
<1> QED BY <1>1 DEF Sources, Uses1, Uses2, Loads, Stores, ImmOps, RegOps, Branches, CsrRegOps

LEMMA EdgeForward ==
  ASSUME RefInv, BypassInv', ~Hazard, NEW npc, NEW out, FetchAction(npc, out), Latch(npc, out),
         idex'.live, ~CsrBypass', NEW r \in Sources(IdInst), NEW x, x = RegRead(r)
  PROVE  Forward(r, x)' = ArchReg(r)'
<1> USE DEF RefInv, BypassInv
<1>1. /\ ifid.live /\ ~Flush /\ ~Stall
      /\ idex'.inst = ifid.inst /\ idex'.op = IdInst.op
  BY DEF Latch, IdexNext, IdOp
<1>2. r \in Reg /\ idex'.op # "NONE" /\ IdInst = Decode(idex'.inst)
  BY <1>1, SourceTyped DEF IdInst
<1>3. exmem'.inst = idex.inst /\ exmem'.op = idex.op
  BY <1>1, EdgeExmem DEF Flush
<1>4. FromMem(r)' = Writes(idex, r) /\ Writes(exmem, r)' = Writes(idex, r)
  BY <1>3 DEF FromMem, Writes
<1>5. /\ memwb'.op = exmem.op /\ Waddr' = Decode(exmem.inst).rd
      /\ regfile' = AbsRegs
  BY DEF Latch, MemwbNext, Waddr, AbsRegs
<1>6. FromWb(r)' = Writes(exmem, r)
  BY <1>5 DEF FromWb, Writes
<1>7. CASE Writes(idex, r)
  <2>1. FromMem(r)' /\ RfWen(exmem'.op) /\ r # 0
    BY <1>4, <1>7 DEF FromMem
  <2>2. Forward(r, x)' = exmem'.alu
    BY <2>1 DEF Forward
  <2>3. ArchReg(r)' = WriteBack(exmem.op, exmem.pc, exmem.alu, mem[WordIndex(exmem.alu)])'
    BY <1>4, <1>7, <2>1 DEF ArchReg
  <2>4. r \in {Decode(idex'.inst).rs1, Decode(idex'.inst).rs2}
    BY <1>2 DEF Sources
  <2>5. WbSel(exmem'.op) \notin {"MEM", "PC4"}
    BY <1>2, <2>1, <2>4 DEF MemBypassReady
  <2>6. WbSel(exmem'.op) = "CSR" => exmem'.alu = CsrRdata
    <3>1. WbSel(exmem'.op) = "CSR" => ~Trap'
      BY DEF WbSel, Trap, Eret, Loads, Jumps, CsrOps, CsrImmOps, CsrRegOps
    <3> QED BY <1>2, <2>1, <3>1 DEF CsrBypass
  <2> QED BY <2>2, <2>3, <2>5, <2>6 DEF WriteBack
<1>8. CASE ~Writes(idex, r) /\ Writes(exmem, r)
  <2>1. r # 0 /\ ArchReg(r)' = AbsRegs'[r]
    BY <1>4, <1>8 DEF ArchReg, Writes
  <2>2. Forward(r, x)' = WbData'
    BY <1>4, <1>6, <1>8 DEF Forward
  <2>3. AbsRegs'[r] = WbData'
    <3>1. Arch(r)' = ArchReg(r)
      BY <1>2, AbsRegsStep
    <3>2. ArchReg(r) = WbData'
      BY <1>8, <2>1, LoadedData DEF ArchReg
    <3> QED BY <2>1, <3>1, <3>2 DEF Arch
  <2> QED BY <2>1, <2>2, <2>3
<1>9. CASE ~Writes(idex, r) /\ ~Writes(exmem, r)
  <2>1. Forward(r, x)' = x
    BY <1>4, <1>6, <1>9 DEF Forward
  <2>2. CASE r = 0
    BY <2>1, <2>2 DEF RegRead, ArchReg
  <2>3. CASE r # 0
    <3>1. ArchReg(r)' = Arch(r)'
      BY <1>4, <1>9, <2>3 DEF ArchReg, Arch
    <3>2. Arch(r)' = AbsRegs[r]
      BY <1>2, <1>9, <2>3, AbsRegsStep DEF ArchReg
    <3>3. AbsRegs[r] = IF RfWen(memwb.op) /\ Waddr = r THEN WbData ELSE regfile[r]
      BY <1>2, <2>3, AbsRegsTyped
    <3>4. x = IF r = Waddr THEN WbData ELSE regfile[r]
      BY <2>3 DEF RegRead
    <3>5. r = Waddr /\ ~RfWen(memwb.op) => WbData = regfile[r]
      BY <1>1, <1>9, <2>3 DEF Hazard, SpuriousRead
    <3> QED BY <2>1, <3>1, <3>2, <3>3, <3>4, <3>5
  <2> QED BY <2>2, <2>3
<1> QED BY <1>7, <1>8, <1>9

LEMMA EdgeOperands ==
  ASSUME RefInv, BypassInv', ~Hazard, NEW npc, NEW out, FetchAction(npc, out), Latch(npc, out)
  PROVE  OperandsOK'
<1> USE DEF RefInv, BypassInv
<1> SUFFICES ASSUME idex'.live, ~CsrBypass'
             PROVE  LET i == Decode(idex.inst)
                    IN  /\ i'.op \in Uses1 => ExRs1' = ArchReg(i.rs1)'
                        /\ i'.op \in Uses2 => ExRs2' = ArchReg(i.rs2)'
  BY DEF OperandsOK
<1>1. Decode(idex'.inst) = IdInst /\ idex'.rs1 = RegRead(IdInst.rs1) /\ idex'.rs2 = RegRead(IdInst.rs2)
  BY DEF Latch, IdexNext, IdInst
<1>2. \A r \in Sources(IdInst) : \A x : x = RegRead(r) => Forward(r, x)' = ArchReg(r)'
  BY EdgeForward
<1>3. ASSUME IdInst.op \in Uses1
      PROVE  ExRs1' = ArchReg(Decode(idex.inst).rs1)'
  <2>1. PICK r : r = IdInst.rs1
    OBVIOUS
  <2>2. PICK x : x = RegRead(r)
    OBVIOUS
  <2>3. Forward(r, x)' = ArchReg(r)'
    BY <1>2, <1>3, <2>1, <2>2 DEF Sources
  <2>4. ExRs1' = Forward(r, x)' /\ ArchReg(Decode(idex.inst).rs1)' = ArchReg(r)'
    BY <1>1, <2>1, <2>2 DEF ExRs1, Forward, ArchReg, FromMem, FromWb, Writes
  <2> QED BY <2>3, <2>4
<1>4. ASSUME IdInst.op \in Uses2
      PROVE  ExRs2' = ArchReg(Decode(idex.inst).rs2)'
  <2>1. PICK r : r = IdInst.rs2
    OBVIOUS
  <2>2. PICK x : x = RegRead(r)
    OBVIOUS
  <2>3. Forward(r, x)' = ArchReg(r)'
    BY <1>2, <1>4, <2>1, <2>2 DEF Sources
  <2>4. ExRs2' = Forward(r, x)' /\ ArchReg(Decode(idex.inst).rs2)' = ArchReg(r)'
    BY <1>1, <2>1, <2>2 DEF ExRs2, Forward, ArchReg, FromMem, FromWb, Writes
  <2> QED BY <2>3, <2>4
<1> QED BY <1>1, <1>3, <1>4

(***************************************************************************)
(* The instruction that enters MEM_STAGE has computed with the registers   *)
(* as the sequential machine has them then.                                *)
(***************************************************************************)
LEMMA RowOperands ==
  ASSUME NEW op \in Computes
  PROVE  /\ AluFun(op) = "COPYrs1" =>
              OpSel1(op) = "PC" \/ op \in Uses1
         /\ AluFun(op) = "COPYrs2" => OpSel2(op) = "IMM"
         /\ AluFun(op) \notin {"COPYrs1", "COPYrs2"} =>
              /\ OpSel1(op) = "PC" \/ op \in Uses1
              /\ OpSel2(op) = "IMM" \/ op \in Uses2
  BY DEF Computes, Op, AluFun, OpSel1, OpSel2, Uses1, Uses2, ImmFun, Loads, Stores, ImmOps,
         RegOps, Upper, Jumps, Branches, CsrOps, CsrImmOps, CsrRegOps, System, Fences

\* An operand that is no source does not matter.
LEMMA AluSources ==
  ASSUME NEW op \in Computes, NEW i \in Inst, NEW pc \in Word,
         NEW a \in Word, NEW b \in Word, NEW c \in Word, NEW d \in Word,
         op \in Uses1 => a = c, op \in Uses2 => b = d
  PROVE  AluOut(op, i, pc, a, b) = AluOut(op, i, pc, c, d)
<1> DEFINE Op1(x) == IF OpSel1(op) = "RS1" THEN x ELSE pc
           Op2(y) == IF OpSel2(op) = "RS2" THEN y
                     ELSE IF ImmSel(op) = "J" THEN i.immJ ELSE i.imm
<1>1. /\ Op1(a) \in Word /\ Op1(c) \in Word /\ Op2(b) \in Word /\ Op2(d) \in Word
  BY DEF Inst
<1>2. \A x, y : AluOut(op, i, pc, x, y) = Alu(AluFun(op), Op1(x), Op2(y))
  BY DEF AluOut
<1>3. /\ OpSel1(op) = "PC" => Op1(a) = Op1(c)
      /\ OpSel2(op) = "IMM" => Op2(b) = Op2(d)
      /\ op \in Uses1 => Op1(a) = Op1(c)
      /\ op \in Uses2 => Op2(b) = Op2(d)
  OBVIOUS
<1> HIDE DEF Op1, Op2
<1>4. CASE AluFun(op) = "COPYrs1"
  <2>1. Op1(a) = Op1(c)
    BY <1>3, <1>4, RowOperands
  <2> QED BY <1>1, <1>2, <1>4, <2>1, CopyAssumption
<1>5. CASE AluFun(op) = "COPYrs2"
  <2>1. Op2(b) = Op2(d)
    BY <1>3, <1>5, RowOperands
  <2> QED BY <1>1, <1>2, <1>5, <2>1, CopyAssumption
<1>6. CASE AluFun(op) \notin {"COPYrs1", "COPYrs2"}
  BY <1>2, <1>3, <1>6, RowOperands
<1> QED BY <1>4, <1>5, <1>6

LEMMA ArchTyped ==
  ASSUME TypeOK, NEW r \in Reg
  PROVE  Arch(r) \in Word /\ ArchReg(r) \in Word
<1>1. AbsRegs[r] \in Word
  BY AbsRegsTyped
<1>2. mem[WordIndex(exmem.alu)] \in Word
  BY AddressIndex DEF TypeOK
<1>3. WriteBack(exmem.op, exmem.pc, exmem.alu, mem[WordIndex(exmem.alu)]) \in Word
  BY <1>2, WriteBackWord DEF TypeOK
<1> QED BY <1>1, <1>3, ZeroWord DEF Arch, ArchReg

\* What EXE_STAGE computes with is what Arch has after the edge.
LEMMA EdgeSources ==
  ASSUME RefInv, BypassInv', ~Hazard, NEW npc, NEW out, Latch(npc, out),
         idex.live, ~Trap
  PROVE  LET i == Decode(idex.inst)
             j == Decode(exmem.inst)
         IN  /\ idex.op = i.op /\ i \in Inst
             /\ j' = i /\ exmem'.op = idex.op /\ exmem'.pc = idex.pc
             /\ i.op \in Uses1 => ExRs1 = Arch(j.rs1)'
             /\ i.op \in Uses2 => ExRs2 = Arch(j.rs2)'
             /\ ExRs1 \in Word /\ Arch(j.rs1)' \in Word
             /\ ExRs2 \in Word /\ Arch(j.rs2)' \in Word
<1> USE DEF RefInv, BypassInv
<1> DEFINE i == Decode(idex.inst)
<1>1. PICK r1, r2 : r1 = i.rs1 /\ r2 = i.rs2
  OBVIOUS
<1>2. r1 \in Reg /\ r2 \in Reg /\ i \in Inst /\ idex.op = i.op
  BY <1>1, InstParts, DecodeInst DEF TypeOK, LiveOK
<1>3. Arch(r1)' = ArchReg(r1) /\ Arch(r2)' = ArchReg(r2)
  BY <1>2, AbsRegsStep
<1>4. ArchReg(r1) \in Word /\ ArchReg(r2) \in Word /\ ExRs1 \in Word /\ ExRs2 \in Word
  BY <1>2, ArchTyped, WiresTyped
<1>5. /\ i.op \in Uses1 => ExRs1 = ArchReg(r1)
      /\ i.op \in Uses2 => ExRs2 = ArchReg(r2)
  BY <1>1 DEF OperandsOK, Hazard
<1>6. exmem'.inst = idex.inst /\ exmem'.op = idex.op /\ exmem'.pc = idex.pc
  BY EdgeExmem
<1>7. /\ Arch(Decode(exmem.inst).rs1)' = Arch(r1)'
      /\ Arch(Decode(exmem.inst).rs2)' = Arch(r2)'
  BY <1>1, <1>6 DEF Arch
<1> QED BY <1>1, <1>2, <1>3, <1>4, <1>5, <1>6, <1>7

LEMMA EdgeExecuted ==
  ASSUME RefInv, BypassInv', ~Hazard, NEW npc, NEW out, Latch(npc, out)
  PROVE  Executed'
<1> USE DEF RefInv, BypassInv
<1> SUFFICES ASSUME exmem'.live
             PROVE  LET i == Decode(exmem.inst)
                    IN /\ exmem'.op \in Computes =>
                            exmem'.alu = AluOut(exmem.op, i, exmem.pc, Arch(i.rs1), Arch(i.rs2))'
                       /\ exmem'.op \in Stores => exmem'.rs2 = Arch(i.rs2)'
  BY DEF Executed
<1> DEFINE i == Decode(idex.inst)
           j == Decode(exmem.inst)
<1>1. idex.live /\ ~Trap /\ exmem'.alu = ExAlu /\ exmem'.rs2 = ExRs2
  BY EdgeExmem
<1>2. PICK a, b : a = Arch(j.rs1)' /\ b = Arch(j.rs2)'
  OBVIOUS
<1>3. /\ idex.op = i.op /\ i \in Inst
      /\ j' = i /\ exmem'.op = idex.op /\ exmem'.pc = idex.pc
      /\ i.op \in Uses1 => ExRs1 = a
      /\ i.op \in Uses2 => ExRs2 = b
      /\ ExRs1 \in Word /\ a \in Word /\ ExRs2 \in Word /\ b \in Word
  BY <1>1, <1>2, EdgeSources
<1>4. idex.pc \in Word
  BY DEF TypeOK
<1>5. ASSUME idex.op \in Computes
      PROVE  ExAlu = AluOut(idex.op, i, idex.pc, a, b)
  BY <1>3, <1>4, <1>5, AluSources DEF ExAlu
<1>6. AluOut(exmem.op, j, exmem.pc, Arch(j.rs1), Arch(j.rs2))' = AluOut(idex.op, i, idex.pc, a, b)
  BY <1>2, <1>3 DEF AluOut
<1>7. Stores \subseteq Uses2
  BY DEF Uses2
<1> QED BY <1>1, <1>2, <1>3, <1>5, <1>6, <1>7

(***************************************************************************)
(* Program order. What IF_STAGE fetches next is behind what it fetched     *)
(* before, unless a branch is taken.                                       *)
(***************************************************************************)
LEMMA EdgeChain ==
  ASSUME RefInv, ~Hazard, NEW npc, NEW out, FetchAction(npc, out), Latch(npc, out)
  PROVE  ChainOK'
<1> USE DEF RefInv, BypassInv
<1>1. /\ idex'.live = (ifid.live /\ ~Flush /\ ~Stall)
      /\ idex'.inst = ifid.inst /\ idex'.op = IdOp /\ idex'.pc = ifid.pc
      /\ ifid' = IfidNext(out) /\ pc_reg' = npc
  BY DEF Latch, IdexNext
<1>2. ifid \in FetchType
  BY DEF TypeOK
<1>3. ASSUME idex'.live PROVE FrontPc' = After(idex')
  <2>1. /\ ifid.live /\ ~Flush /\ ~Stall /\ ~Trap /\ ~BranchBool
        /\ ifid' = out /\ idex'.op = IdInst.op /\ Decode(idex'.inst) = IdInst
    BY <1>1, <1>3 DEF Flush, IfidNext, IdOp, IdInst
  <2>2. CASE IdJump
    <3>1. npc = JumpTarget(IdInst, ifid.pc) /\ ~out.live
      BY <2>1, <2>2 DEF FetchAction, Flushed
    <3>2. FrontPc' = npc
      BY <1>1, <2>1, <3>1 DEF FrontPc
    <3> QED BY <1>1, <2>1, <2>2, <3>1, <3>2 DEF After, IdJump
  <2>3. CASE ~IdJump
    <3>1. out = Fetched
      BY <2>1, <2>3 DEF FetchAction
    <3>2. FrontPc' = pc_reg
      BY <2>1, <3>1 DEF FrontPc, Fetched
    <3>3. pc_reg = Plus(ifid.pc, 4)
      BY <2>1, <2>3 DEF ChainOK
    <3> QED BY <1>1, <2>1, <2>3, <3>2, <3>3 DEF After, IdJump
  <2> QED BY <2>2, <2>3
<1>4. ASSUME exmem'.live, idex'.live PROVE idex'.pc = After(exmem')
  <2>1. /\ idex.live /\ ~Trap /\ exmem'.pc = idex.pc /\ exmem'.inst = idex.inst
        /\ exmem'.op = idex.op
    BY <1>4, EdgeExmem
  <2>2. idex'.pc = FrontPc
    BY <1>1, <1>4 DEF FrontPc
  <2> QED BY <2>1, <2>2 DEF ChainOK, After
<1>5. ASSUME ifid'.live PROVE pc_reg' = Plus(ifid'.pc, 4) \/ IdJump'
  <2>1. ~BranchBool
    BY <1>1, <1>5 DEF IfidNext
  <2>2. CASE Stall
    <3>1. ifid' = [ifid EXCEPT !.live = @ /\ ~Trap]
      BY <1>1, <2>1, <2>2 DEF IfidNext
    <3>2. /\ ifid'.live = (ifid.live /\ ~Trap)
          /\ ifid'.inst = ifid.inst /\ ifid'.pc = ifid.pc
      BY <1>2, <3>1 DEF FetchType
    <3>3. ~Trap /\ (IdJump \/ npc = pc_reg)
      BY <1>5, <2>1, <2>2, <3>2 DEF FetchAction, Flush
    <3>4. IdJump' = IdJump
      BY <3>2 DEF IdJump, IdInst
    <3>5. pc_reg = Plus(ifid.pc, 4) \/ IdJump
      BY <1>5, <3>2 DEF ChainOK
    <3> QED BY <1>1, <3>2, <3>3, <3>4, <3>5
  <2>3. CASE ~Stall
    <3>1. ifid' = out
      BY <1>1, <2>1, <2>3 DEF IfidNext
    <3>2. npc = Plus(pc_reg, 4) /\ out = Fetched
      BY <1>5, <2>1, <2>3, <3>1 DEF FetchAction, Flushed, Flush
    <3> QED BY <1>1, <3>1, <3>2 DEF Fetched
  <2> QED BY <2>2, <2>3
<1> QED BY <1>3, <1>4, <1>5 DEF ChainOK, After

(***************************************************************************)
(* Where the program goes on behind MEM_STAGE after an edge.               *)
(***************************************************************************)
LEMMA EdgeBehind ==
  ASSUME RefInv, NEW npc, NEW out, FetchAction(npc, out), Latch(npc, out), ~Trap
  PROVE  BehindPc' = IF BranchBool THEN ExAlu ELSE FrontPc
<1> USE DEF RefInv, BypassInv
<1>1. /\ idex'.live = (ifid.live /\ ~Flush /\ ~Stall) /\ idex'.pc = ifid.pc
      /\ ifid' = IfidNext(out) /\ pc_reg' = npc
  BY DEF Latch, IdexNext
<1>2. CASE BranchBool
  <2>1. npc = ExAlu /\ ~ifid'.live /\ ~idex'.live
    BY <1>1, <1>2 DEF FetchAction, IfidNext, Flush
  <2> QED BY <1>1, <1>2, <2>1 DEF BehindPc, FrontPc
<1>3. CASE ~BranchBool /\ Stall
  <2>1. ifid' = [ifid EXCEPT !.live = @ /\ ~Trap] /\ ifid \in FetchType
    BY <1>1, <1>3 DEF IfidNext, TypeOK
  <2>2. ifid'.live = ifid.live /\ ifid'.pc = ifid.pc /\ ~idex'.live
    BY <1>1, <1>3, <2>1 DEF FetchType
  <2>3. ~ifid.live => npc = pc_reg
    BY <1>3, IdleSilent DEF FetchAction, Flush
  <2> QED BY <1>1, <1>3, <2>2, <2>3 DEF BehindPc, FrontPc
<1>4. CASE ~BranchBool /\ ~Stall
  <2>1. ifid' = out /\ idex'.live = ifid.live
    BY <1>1, <1>4 DEF IfidNext, Flush, TypeOK, FetchType
  <2>2. ~ifid.live => out = Fetched
    BY <1>4, IdleSilent DEF FetchAction, Flush
  <2> QED BY <1>1, <1>4, <2>1, <2>2 DEF BehindPc, FrontPc, Fetched
<1> QED BY <1>2, <1>3, <1>4

LEMMA EdgeBehindOK ==
  ASSUME RefInv, BypassInv', ~Hazard, NEW npc, NEW out, FetchAction(npc, out), Latch(npc, out)
  PROVE  Behind'
<1> USE DEF RefInv, BypassInv
<1> DEFINE i == Decode(idex.inst)
           j == Decode(exmem.inst)
<1> SUFFICES ASSUME exmem'.live
             PROVE  BehindPc' =
                      CASE exmem'.op \in Jumps -> JumpTarget(j, exmem.pc)'
                        [] exmem'.op \notin Jumps /\ Taken(exmem.op, Arch(j.rs1), Arch(j.rs2))'
                             -> exmem'.alu
                        [] OTHER -> Plus(exmem'.pc, 4)
  BY DEF Behind, Plus
<1>1. idex.live /\ ~Trap /\ exmem'.alu = ExAlu
  BY EdgeExmem
<1>2. PICK a, b : a = Arch(j.rs1)' /\ b = Arch(j.rs2)'
  OBVIOUS
<1>3. /\ idex.op = i.op
      /\ j' = i /\ exmem'.op = idex.op /\ exmem'.pc = idex.pc
      /\ i.op \in Uses1 => ExRs1 = a
      /\ i.op \in Uses2 => ExRs2 = b
  BY <1>1, <1>2, EdgeSources
<1>4. Taken(exmem.op, Arch(j.rs1), Arch(j.rs2))' <=> Taken(idex.op, a, b)
  BY <1>2, <1>3 DEF Taken, Signed
<1>5. BranchBool <=> Taken(idex.op, a, b)
  <2>1. CASE idex.op \in Branches
    BY <1>3, <2>1 DEF BranchBool, Uses1, Uses2
  <2>2. CASE idex.op \notin Branches
    BY <2>2, TakenBranch DEF BranchBool
  <2> QED BY <2>1, <2>2
<1>6. BehindPc' = IF BranchBool THEN ExAlu ELSE FrontPc
  BY <1>1, EdgeBehind
<1>7. FrontPc = IF idex.op \in Jumps THEN JumpTarget(i, idex.pc) ELSE Plus(idex.pc, 4)
  BY <1>1 DEF ChainOK, After
<1>8. JumpTarget(j, exmem.pc)' = JumpTarget(i, idex.pc)
  BY <1>3 DEF JumpTarget, Plus
<1>9. idex.op \in Jumps => ~BranchBool
  BY TakenBranch DEF BranchBool
<1> QED BY <1>1, <1>3, <1>4, <1>5, <1>6, <1>7, <1>8, <1>9

(***************************************************************************)
(* The inductive invariant.                                                *)
(***************************************************************************)
LEMMA RefInit == Init => RefInv
<1> SUFFICES ASSUME Init PROVE RefInv
  OBVIOUS
<1>1. BypassInv
  BY InitTyped, InitBypass DEF BypassInv
<1>2. /\ ~ifid.live /\ ifid.inst = 0
      /\ ~idex.live /\ idex.op = "NONE"
      /\ ~exmem.live /\ exmem.op = "NONE"
      /\ rdataI = mem[WordIndex(pc_reg)]
  BY DEF Init
<1>3. ~HasEffect(idex) /\ ~HasEffect(exmem)
  BY <1>2, ZeroedEffect
<1>4. FetchOK /\ IdleOK /\ ChainOK /\ OperandsOK /\ Executed /\ Behind
  BY <1>2 DEF FetchOK, IdleOK, ChainOK, OperandsOK, Executed, Behind
<1>5. LiveOK
  BY <1>2, <1>3, Rows DEF LiveOK
<1> QED BY <1>1, <1>4, <1>5 DEF RefInv

LEMMA RefStutter == RefInv /\ UNCHANGED vars => RefInv'
<1> SUFFICES ASSUME RefInv, UNCHANGED vars PROVE RefInv'
  OBVIOUS
<1>1. BypassInv'
  BY StepBypass DEF RefInv
<1>2. /\ pc_reg' = pc_reg /\ rdataI' = rdataI /\ ifid' = ifid /\ idex' = idex
      /\ exmem' = exmem /\ memwb' = memwb /\ regfile' = regfile /\ mem' = mem
      /\ rdataD' = rdataD /\ csr' = csr
  BY DEF vars
<1>3. FetchOK' /\ LiveOK' /\ IdleOK' /\ ChainOK'
  BY <1>2 DEF RefInv, FetchOK, LiveOK, IdleOK, ChainOK, HasEffect, FrontPc, After, IdJump,
              IdInst, JumpTarget, Plus
<1>4. OperandsOK'
  BY <1>2 DEF RefInv, OperandsOK, CsrBypass, Trap, FromMem, FromWb, Waddr, WbData, ExRs1, ExRs2,
              Forward, ArchReg, AbsRegs, RegWrite, Writes
<1>5. Executed' /\ Behind'
  BY <1>2, SMTT(30) DEF RefInv, Executed, Behind, Arch, AbsRegs, RegWrite, Waddr, WbData, BehindPc,
              FrontPc, JumpTarget, Plus, Taken, Signed, AluOut
<1> QED BY <1>1, <1>3, <1>4, <1>5 DEF RefInv

LEMMA RefStep == RefInv /\ [SafeNext]_vars => RefInv'
<1> SUFFICES ASSUME RefInv, [SafeNext]_vars PROVE RefInv'
  OBVIOUS
<1>1. BypassInv'
  BY SafeIsStep, StepBypass DEF RefInv
<1>2. CASE UNCHANGED vars
  BY <1>2, RefStutter
<1>3. CASE ~Hazard /\ \E npc, out : FetchAction(npc, out) /\ Latch(npc, out)
  BY <1>1, <1>3, EdgeLive, EdgeFetch, EdgeChain, EdgeOperands, EdgeExecuted, EdgeBehindOK
     DEF RefInv
<1> QED BY <1>2, <1>3, SafeEdge

LEMMA SafeInvariant == SafeSpec => []RefInv
  BY RefInit, RefStep, PTL DEF SafeSpec

(***************************************************************************)
(* No operand is stale: an instruction in EXE_STAGE computes with what the *)
(* older instructions, those still in the pipeline included, give its      *)
(* source registers (ForwardingUnit, HazardUnit and the read of the write  *)
(* port in RegisterFile).                                                  *)
(***************************************************************************)
THEOREM OperandsCurrent == SafeSpec => []OperandsOK
<1>1. RefInv => OperandsOK
  BY DEF RefInv
<1> QED BY <1>1, SafeInvariant, PTL

(***************************************************************************)
(* Every live entry is the word memory has at its address, also when older *)
(* instructions store.                                                     *)
(***************************************************************************)
THEOREM FetchedCurrent == SafeSpec => []FetchOK
<1>1. RefInv => FetchOK
  BY DEF RefInv
<1> QED BY <1>1, SafeInvariant, PTL

(***************************************************************************)
(* Bubbles and what a flush discards can neither write nor redirect.       *)
(***************************************************************************)
THEOREM OnlyLiveActs == SafeSpec => []LiveOK
<1>1. RefInv => LiveOK
  BY DEF RefInv
<1> QED BY <1>1, SafeInvariant, PTL

(***************************************************************************)
(* The live entries are consecutive in program order.                      *)
(***************************************************************************)
THEOREM ProgramOrder == SafeSpec => []ChainOK
<1>1. RefInv => ChainOK
  BY DEF RefInv
<1> QED BY <1>1, SafeInvariant, PTL

(***************************************************************************)
(* The sequential machine is instantiated with the parameters of the       *)
(* pipeline: its rows and its functions are the same.                      *)
(***************************************************************************)
LEMMA SeqSets ==
  /\ Seq!Loads = Loads /\ Seq!Stores = Stores /\ Seq!ImmOps = ImmOps /\ Seq!RegOps = RegOps
  /\ Seq!Upper = Upper /\ Seq!Jumps = Jumps /\ Seq!Branches = Branches
  /\ Seq!CsrOps = CsrOps /\ Seq!CsrImmOps = CsrImmOps /\ Seq!ImmFun = ImmFun
  BY DEF Seq!Loads, Seq!Stores, Seq!ImmOps, Seq!RegOps, Seq!Upper, Seq!Jumps, Seq!Branches,
         Seq!CsrOps, Seq!CsrImmOps, Seq!CsrRegOps, Seq!ImmFun,
         Loads, Stores, ImmOps, RegOps, Upper, Jumps, Branches,
         CsrOps, CsrImmOps, CsrRegOps, ImmFun

LEMMA SeqRows ==
  ASSUME NEW op
  PROVE  /\ Seq!RfWen(op) <=> RfWen(op)
         /\ Seq!MemWr(op) <=> MemWr(op)
         /\ Seq!Eret(op) <=> Eret(op)
         /\ Seq!WbSel(op) = WbSel(op) /\ Seq!MaskType(op) = MaskType(op)
         /\ Seq!AluFun(op) = AluFun(op) /\ Seq!OpSel1(op) = OpSel1(op)
         /\ Seq!OpSel2(op) = OpSel2(op) /\ Seq!ImmSel(op) = ImmSel(op)
  BY SeqSets DEF Seq!RfWen, Seq!MemWr, Seq!Eret, Seq!WbSel, Seq!MaskType, Seq!AluFun, Seq!OpSel1,
                 Seq!OpSel2, Seq!ImmSel, RfWen, MemWr, Eret, WbSel, MaskType, AluFun, OpSel1,
                 OpSel2, ImmSel

LEMMA SeqFunctions ==
  ASSUME NEW op, NEW i, NEW p, NEW a, NEW b
  PROVE  /\ Seq!Plus(a, b) = Plus(a, b)
         /\ Seq!WordIndex(a) = WordIndex(a) /\ Seq!Lane(a) = Lane(a)
         /\ Seq!Taken(op, a, b) <=> Taken(op, a, b)
         /\ Seq!AluOut(op, i, p, a, b) = AluOut(op, i, p, a, b)
         /\ Seq!JumpTarget(i, p) = JumpTarget(i, p)
         /\ Seq!WriteBack(op, p, a, b) = WriteBack(op, p, a, b)
<1>1. \A x, y : Seq!Plus(x, y) = Plus(x, y)
  BY DEF Seq!Plus, Plus
<1>2. Seq!WordIndex(a) = WordIndex(a) /\ Seq!Lane(a) = Lane(a)
  BY DEF Seq!WordIndex, WordIndex, Seq!Lane, Lane
<1>3. Seq!Taken(op, a, b) <=> Taken(op, a, b)
  BY DEF Seq!Taken, Taken, Seq!Signed, Signed
<1>4. Seq!AluOut(op, i, p, a, b) = AluOut(op, i, p, a, b)
  BY SeqRows DEF Seq!AluOut, AluOut
<1>5. Seq!JumpTarget(i, p) = JumpTarget(i, p)
  BY <1>1 DEF Seq!JumpTarget, JumpTarget
<1>6. Seq!WriteBack(op, p, a, b) = WriteBack(op, p, a, b)
  BY <1>1, <1>2, SeqRows DEF Seq!WriteBack, WriteBack, Seq!CsrRdata, CsrRdata
<1> QED BY <1>1, <1>2, <1>3, <1>4, <1>5, <1>6

LEMMA SeqMemAfter ==
  ASSUME NEW m, NEW op, NEW alu, NEW data
  PROVE  Seq!MemAfter(m, op, alu, data) = MemAfter(m, op, alu, data)
  BY SeqRows, SeqFunctions DEF Seq!MemAfter, MemAfter

LEMMA SeqCsr ==
  ASSUME NEW c, NEW op, NEW addr, NEW p, NEW x
  PROVE  /\ Seq!CsrNext(c, op, addr, p, x) = CsrNext(c, op, addr, p, x)
         /\ Seq!CsrReset(x) = CsrReset(x)
  BY DEF Seq!CsrNext, Seq!CsrWrite, Seq!MretNext, Seq!TrapNext, Seq!NowPrv, Seq!PRV_U, Seq!PRV_M,
         Seq!PRV_SZ, Seq!BitOf, Seq!CsrReset,
         CsrNext, CsrWrite, MretNext, TrapNext, NowPrv, PRV_U, PRV_M, PRV_SZ, BitOf, CsrReset

(***************************************************************************)
(* The program counter of the mapping moves to the trap handler or to what *)
(* is behind MEM_STAGE.                                                    *)
(***************************************************************************)
LEMMA AbsPcStep ==
  ASSUME RefInv, ~Hazard, NEW npc, NEW out, FetchAction(npc, out), Latch(npc, out)
  PROVE  AbsPc' = IF Trap THEN csr.mtvec ELSE BehindPc
<1> USE DEF RefInv, BypassInv
<1>1. /\ idex'.live = (ifid.live /\ ~Flush /\ ~Stall)
      /\ ifid' = IfidNext(out) /\ pc_reg' = npc
  BY DEF Latch, IdexNext
<1>2. exmem'.live = (idex.live /\ ~Trap) /\ exmem'.pc = idex.pc
  BY EdgeExmem
<1>3. CASE Trap
  <2>1. ~exmem'.live /\ ~idex'.live
    <3>1. Flush
      BY <1>3 DEF Flush
    <3> QED BY <1>1, <1>2, <1>3, <3>1
  <2>2. npc = csr.mtvec /\ out = Flushed
    BY <1>3 DEF FetchAction, Flush
  <2>3. ~ifid'.live
    <3>1. ifid \in FetchType
      BY DEF TypeOK
    <3> QED BY <1>1, <1>3, <2>2, <3>1 DEF IfidNext, FetchType, Flushed
  <2> QED BY <1>1, <1>3, <2>1, <2>2, <2>3 DEF AbsPc
<1>4. CASE ~Trap /\ idex.live
  BY <1>2, <1>4 DEF AbsPc, BehindPc
<1>5. CASE ~Trap /\ ~idex.live
  <2>1. BehindPc' = BehindPc
    BY <1>5, EdgeBehind, IdleSilent DEF BehindPc
  <2>2. ~exmem'.live
    BY <1>2, <1>5
  <2>3. AbsPc' = BehindPc'
    BY <2>2 DEF AbsPc, BehindPc, FrontPc
  <2> QED BY <1>5, <2>1, <2>3
<1> QED BY <1>3, <1>4, <1>5

(***************************************************************************)
(* When nothing of the program leaves MEM_STAGE, nothing the program sees  *)
(* changes.                                                                *)
(***************************************************************************)
LEMMA IdleEdge ==
  ASSUME RefInv, BypassInv', ~Hazard, NEW npc, NEW out, FetchAction(npc, out), Latch(npc, out),
         CsrStep, ~exmem.live
  PROVE  UNCHANGED Seq!isaVars
<1> USE DEF RefInv, BypassInv
<1>1. ~HasEffect(exmem) /\ ~Trap
  BY IdleSilent DEF LiveOK
<1>2. AbsPc' = AbsPc
  BY <1>1, AbsPcStep DEF AbsPc, BehindPc, FrontPc
<1>3. AbsRegs' = AbsRegs
  BY <1>1, AbsRegsStep DEF HasEffect
<1>4. mem' = mem
  BY <1>1 DEF Latch, DataPort, MemAfter, HasEffect
<1>5. csr' = csr
  BY <1>1 DEF CsrStep, CsrNext, HasEffect, CsrCmd, System
<1> QED BY <1>2, <1>3, <1>4, <1>5 DEF Seq!isaVars

(***************************************************************************)
(* When a live instruction leaves MEM_STAGE the sequential machine         *)
(* executes it.                                                            *)
(***************************************************************************)
LEMMA ComputedRows ==
  ASSUME NEW op \in Op
  PROVE  /\ RfWen(op) => op \in Computes \/ WbSel(op) = "PC4"
         /\ MemWr(op) => op \in Computes /\ op \in Stores
         /\ op \in {"CSRRW", "CSRRWI"} => op \in Computes
         /\ op \in Branches => op \in Computes
         /\ Eret(op) => op \notin Jumps /\ op \notin Branches
  BY DEF Computes, Op, RfWen, WbSel, MemWr, Eret, Loads, Stores, ImmOps, RegOps, Upper, Jumps,
         Branches, CsrOps, CsrImmOps, CsrRegOps, System, Fences

LEMMA LiveEdge ==
  ASSUME RefInv, BypassInv', ~Hazard, NEW npc, NEW out, FetchAction(npc, out), Latch(npc, out),
         CsrStep, exmem.live
  PROVE  Seq!Step
<1> USE DEF RefInv, BypassInv
<1> DEFINE i   == Decode(exmem.inst)
           op  == exmem.op
           a   == Arch(i.rs1)
           b   == Arch(i.rs2)
           alu == AluOut(op, i, exmem.pc, a, b)
<1>1. /\ AbsPc = exmem.pc /\ Decode(mem[Seq!WordIndex(AbsPc)]) = i
      /\ op = i.op /\ op \in Op /\ i.rd \in Reg
  BY SeqFunctions, InstParts DEF AbsPc, FetchOK, LiveOK, TypeOK
<1>2. Seq!ReadReg(i.rs1) = a /\ Seq!ReadReg(i.rs2) = b
  BY DEF Seq!ReadReg, Arch
<1>3. Seq!AluOut(op, i, AbsPc, a, b) = alu
  BY <1>1, SeqFunctions
<1>4. op \in Computes => exmem.alu = alu
  BY DEF Executed
<1> HIDE DEF a, b, alu
<1>5. AbsPc' = Seq!NextPc(i, a, b)
  <2>1. AbsPc' = IF Trap THEN csr.mtvec ELSE BehindPc
    BY AbsPcStep
  <2>2. BehindPc = CASE op \in Jumps -> JumpTarget(i, exmem.pc)
                     [] op \notin Jumps /\ Taken(op, a, b) -> exmem.alu
                     [] OTHER -> Plus(exmem.pc, 4)
    BY DEF Behind, a, b
  <2>3. Seq!NextPc(i, a, b) = CASE Eret(op) -> csr.mtvec
                                [] op \in Jumps -> JumpTarget(i, exmem.pc)
                                [] Taken(op, a, b) -> alu
                                [] OTHER -> Plus(exmem.pc, 4)
    BY <1>1, <1>3, SeqRows, SeqFunctions, SeqSets DEF Seq!NextPc
  <2>4. Taken(op, a, b) => op \in Branches /\ op \notin Jumps /\ ~Eret(op) /\ exmem.alu = alu
    BY <1>1, <1>4, TakenBranch, ComputedRows
  <2>5. Eret(op) => op \notin Jumps /\ ~Taken(op, a, b)
    BY <1>1, <2>4, ComputedRows
  <2> QED BY <2>1, <2>2, <2>3, <2>4, <2>5 DEF Trap
<1>6. AbsRegs' = IF Seq!RfWen(op)
                 THEN Seq!WriteReg(i.rd, Seq!WriteBack(op, AbsPc, alu, mem[Seq!WordIndex(alu)]))
                 ELSE AbsRegs
  <2>1. AbsRegs' = IF RfWen(op) /\ i.rd # 0
                   THEN [AbsRegs EXCEPT ![i.rd] =
                           WriteBack(op, exmem.pc, exmem.alu, mem[WordIndex(exmem.alu)])]
                   ELSE AbsRegs
    BY AbsRegsStep
  <2>2. RfWen(op) => WriteBack(op, exmem.pc, exmem.alu, mem[WordIndex(exmem.alu)])
                       = WriteBack(op, exmem.pc, alu, mem[WordIndex(alu)])
    <3>1. CASE op \in Computes
      BY <1>4, <3>1
    <3>2. CASE WbSel(op) = "PC4"
      BY <3>2 DEF WriteBack
    <3> QED BY <1>1, <3>1, <3>2, ComputedRows
  <2>3. Seq!WriteBack(op, AbsPc, alu, mem[Seq!WordIndex(alu)])
          = WriteBack(op, exmem.pc, alu, mem[WordIndex(alu)])
    BY <1>1, SeqFunctions
  <2>4. Seq!RfWen(op) <=> RfWen(op)
    BY SeqRows
  <2> QED BY <2>1, <2>2, <2>3, <2>4 DEF Seq!WriteReg
<1>7. mem' = Seq!MemAfter(mem, op, alu, b)
  <2>1. mem' = MemAfter(mem, op, exmem.alu, exmem.rs2)
    BY DEF Latch, DataPort
  <2>2. MemWr(op) => exmem.alu = alu /\ exmem.rs2 = b
    BY <1>1, <1>4, ComputedRows DEF Executed, b
  <2>3. mem' = MemAfter(mem, op, alu, b)
    BY <2>1, <2>2 DEF MemAfter
  <2> QED BY <2>3, SeqMemAfter
<1>8. csr' = Seq!CsrNext(csr, op, i.csr, AbsPc, alu)
  <2>1. csr' = CsrNext(csr, op, i.csr, exmem.pc, exmem.alu)
    BY DEF CsrStep
  <2>2. op \in {"CSRRW", "CSRRWI"} => exmem.alu = alu
    BY <1>1, <1>4, ComputedRows
  <2>3. csr' = CsrNext(csr, op, i.csr, exmem.pc, alu)
    BY <2>1, <2>2 DEF CsrNext
  <2> QED BY <1>1, <2>3, SeqCsr
<1> QED BY <1>1, <1>2, <1>3, <1>5, <1>6, <1>7, <1>8 DEF Seq!Step

(***************************************************************************)
(* The pipeline implements the sequential machine: on every program that   *)
(* meets none of the four hazards, what the program sees of registers,     *)
(* memory, CSRs and program counter changes as if its instructions were    *)
(* executed one at a time.                                                 *)
(***************************************************************************)
THEOREM PipelineIsSequential == SafeSpec => Sequential
<1>1. Init => Seq!Init
  <2> SUFFICES ASSUME Init PROVE Seq!Init
    OBVIOUS
  <2>1. AbsPc = StartAddr /\ AbsRegs = regfile
    BY Rows DEF Init, AbsPc, AbsRegs, RegWrite
  <2> QED BY <2>1, SeqCsr DEF Init, Seq!Init
<1>2. RefInv /\ [SafeNext]_vars => [Seq!Step]_(Seq!isaVars)
  <2> SUFFICES ASSUME RefInv, [SafeNext]_vars
               PROVE  Seq!Step \/ UNCHANGED Seq!isaVars
    OBVIOUS
  <2>1. CASE UNCHANGED vars
    BY <2>1 DEF vars, Seq!isaVars, AbsPc, AbsRegs, RegWrite, Waddr, WbData
  <2>2. BypassInv'
    BY SafeIsStep, StepBypass DEF RefInv
  <2>3. CASE ~Hazard /\ \E npc, out : FetchAction(npc, out) /\ Latch(npc, out) /\ CsrStep
    BY <2>2, <2>3, IdleEdge, LiveEdge
  <2> QED BY <2>1, <2>3, SafeEdge
<1> QED BY <1>1, <1>2, SafeInvariant, PTL DEF SafeSpec, Sequential, Seq!Spec

===============================================================================
