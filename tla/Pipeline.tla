------------------------------ MODULE Pipeline ------------------------------
(***************************************************************************)
(* The five-stage datapath (rv32i_5stage/Dpath.scala) with the memory it   *)
(* shares between instructions and data.  One step is one clock edge: every *)
(* register below is loaded from the combinational outputs of the stages.  *)
(*                                                                         *)
(* A pipeline register holds the raw instruction and "op", the decoder row *)
(* whose control signals travel with it; op is "NONE" when ID_STAGE zeroed *)
(* them.  The register addresses, immediates and the CSR address latched   *)
(* beside them are functions of the raw instruction and are not repeated.  *)
(* "live" is an auxiliary flag no guard reads: the entry is an instruction *)
(* of the program's own path, not a bubble and not one a flush discarded.  *)
(***************************************************************************)
EXTENDS Machine

VARIABLES
  pc_reg,   \* IF_STAGE: address whose word is on the instruction port
  rdataI,   \* SyncMem: the word the instruction port delivers
  ifid,     \* IFID_REGS
  idex,     \* IDEX_REGS
  exmem,    \* EXMEM_REGS
  memwb,    \* MEMWB_REGS, with the lane and mask SyncMemScala delays
  regfile,  \* RegisterFile
  mem,      \* SyncMem
  rdataD,   \* SyncMem: the word the data port delivers
  csr       \* CSRFile

vars == <<pc_reg, rdataI, ifid, idex, exmem, memwb, regfile, mem, rdataD, csr>>

(***************************************************************************)
(* State after the power-up reset cycle: instruction 0 has been addressed  *)
(* and the pipeline registers, which have no reset, still hold zeros.      *)
(***************************************************************************)
Init ==
  /\ mem \in Images
  /\ regfile \in InitRegs
  /\ pc_reg = StartAddr
  /\ rdataI = mem[WordIndex(StartAddr)]
  /\ ifid  = [pc |-> 0, inst |-> 0, live |-> FALSE]
  /\ idex  = [pc |-> 0, inst |-> 0, op |-> "NONE", rs1 |-> 0, rs2 |-> 0, live |-> FALSE]
  /\ exmem = [pc |-> 0, inst |-> 0, op |-> "NONE", alu |-> 0, rs2 |-> 0, live |-> FALSE]
  /\ memwb = [pc |-> 0, inst |-> 0, op |-> "NONE", alu |-> 0, live |-> FALSE]
  /\ rdataD = 0
  /\ csr = CsrReset(Mtvec0)

(* --- WB_STAGE and RegisterFile --- *)

Waddr  == Decode(memwb.inst).rd
WbData == WriteBack(memwb.op, memwb.pc, memwb.alu, rdataD)

\* A read of the address on the write port returns the write data, whether
\* or not the write is enabled.
RegRead(a) ==
  CASE a = 0 -> 0
    [] a # 0 /\ a = Waddr -> WbData
    [] OTHER -> regfile[a]

\* mutant: the write enable is ignored
WriteAlways == IF Waddr # 0 THEN [regfile EXCEPT ![Waddr] = WbData] ELSE regfile

RegWrite ==
  IF RfWen(memwb.op) /\ Waddr # 0
  THEN [regfile EXCEPT ![Waddr] = WbData] ELSE regfile

(* --- MEM_STAGE --- *)

\* csrFile.io.eret
Trap == Eret(exmem.op)

(* --- ForwardingUnit and EXE_STAGE --- *)

FromMem(a) == LET rd == Decode(exmem.inst).rd
              IN rd = a /\ rd # 0 /\ RfWen(exmem.op)
FromWb(a)  == Waddr = a /\ Waddr # 0 /\ RfWen(memwb.op)

\* mutant: the older result wins
ForwardOlder(a, x) ==
  CASE FromWb(a) -> WbData
    [] ~FromWb(a) /\ FromMem(a) -> exmem.alu
    [] OTHER -> x

\* The operand of register a, x being the value latched in IDEX_REGS.
Forward(a, x) ==
  CASE FromMem(a) -> exmem.alu
    [] ~FromMem(a) /\ FromWb(a) -> WbData
    [] OTHER -> x

ExRs1 == Forward(Decode(idex.inst).rs1, idex.rs1)
ExRs2 == Forward(Decode(idex.inst).rs2, idex.rs2)
ExAlu == AluOut(idex.op, Decode(idex.inst), idex.pc, ExRs1, ExRs2)

BranchBool == Taken(idex.op, ExRs1, ExRs2)

\* Control signals EXE_STAGE passes on.  Under flush_in they are DontCare:
\* a compiler may keep them or put zeros there.
ExOps == IF Trap THEN {idex.op, "NONE"} ELSE {idex.op}

(* --- HazardUnit and ID_STAGE --- *)

IdInst == Decode(ifid.inst)

\* mutant: the second source is forgotten
StallOnRs1 ==
  MemEn(idex.op) /\ ~MemWr(idex.op) /\ Decode(idex.inst).rd = IdInst.rs1

\* mutant: the instruction in EXE_STAGE need not be a load
StallOnMatch == Decode(idex.inst).rd \in {IdInst.rs1, IdInst.rs2}

Stall ==
  /\ MemEn(idex.op) /\ ~MemWr(idex.op)
  /\ Decode(idex.inst).rd \in {IdInst.rs1, IdInst.rs2}

\* mutant: only the stall zeroes the control signals
OpUnlessStall == IF Stall THEN "NONE" ELSE IdInst.op

Flush  == BranchBool \/ Trap
IdOp   == IF Flush \/ Stall THEN "NONE" ELSE IdInst.op
IdJump == IdInst.op \in Jumps

(* --- what the pipeline registers load --- *)

\* out is what IF_STAGE offers.  The flush is the branch's alone.
IfidNext(out) ==
  CASE BranchBool -> [pc |-> Bubble, inst |-> Bubble, live |-> FALSE]
    [] ~BranchBool /\ Stall -> [ifid EXCEPT !.live = @ /\ ~Trap]
    [] OTHER -> out

IdexNext ==
  [pc   |-> ifid.pc,
   inst |-> ifid.inst,
   op   |-> IdOp,
   rs1  |-> RegRead(IdInst.rs1),
   rs2  |-> RegRead(IdInst.rs2),
   live |-> ifid.live /\ ~Flush /\ ~Stall]

ExmemNext(op) ==
  [pc   |-> idex.pc,
   inst |-> idex.inst,
   op   |-> op,
   alu  |-> ExAlu,
   rs2  |-> ExRs2,
   live |-> idex.live /\ ~Trap]

MemwbNext ==
  [pc   |-> exmem.pc,
   inst |-> exmem.inst,
   op   |-> exmem.op,
   alu  |-> exmem.alu,
   live |-> exmem.live]

\* The data port reads the word as it was before this edge's write, and
\* keeps its output when it is not read.
DataPort ==
  /\ mem' = MemAfter(mem, exmem.op, exmem.alu, exmem.rs2)
  /\ rdataD' = IF MemEn(exmem.op) /\ ~MemWr(exmem.op)
               THEN mem[WordIndex(exmem.alu)] ELSE rdataD

(***************************************************************************)
(* One clock edge, the CSR file apart.  npc is the next_pc IF_STAGE chose. *)
(***************************************************************************)
Latch(npc, out) ==
  /\ pc_reg' = npc
  /\ rdataI' = mem[WordIndex(npc)]
  /\ ifid' = IfidNext(out)
  /\ idex' = IdexNext
  /\ \E op \in ExOps : exmem' = ExmemNext(op)
  /\ memwb' = MemwbNext
  /\ regfile' = RegWrite
  /\ DataPort

CsrStep ==
  csr' = CsrNext(csr, exmem.op, Decode(exmem.inst).csr, exmem.pc, exmem.alu)

\* mutant: IFID_REGS is given pc + 4
FetchedPlus4 == [pc |-> Plus(pc_reg, 4), inst |-> rdataI, live |-> TRUE]

Fetched == [pc |-> pc_reg, inst |-> rdataI, live |-> TRUE]
Flushed == [pc |-> 0, inst |-> 0, live |-> FALSE]

(***************************************************************************)
(* IF_STAGE: what the next fetch address is, in order of priority.         *)
(***************************************************************************)
TakeTrap   == Trap /\ Latch(csr.mtvec, Flushed) /\ CsrStep

TakeBranch == ~Trap /\ BranchBool /\ Latch(ExAlu, Flushed) /\ CsrStep

\* mutant: the word fetched behind a jump is kept
TakeJumpUnflushed ==
  /\ ~Flush /\ IdJump
  /\ Latch(JumpTarget(IdInst, ifid.pc), Fetched)
  /\ CsrStep

TakeJump   == /\ ~Flush /\ IdJump
              /\ Latch(JumpTarget(IdInst, ifid.pc), Flushed)
              /\ CsrStep

\* mutant: the fetch goes on while IFID_REGS holds
HoldAdvance == /\ ~Flush /\ ~IdJump /\ Stall
               /\ Latch(Plus(pc_reg, 4), Fetched)
               /\ CsrStep

\* out is offered but IFID_REGS holds
HoldFetch  == ~Flush /\ ~IdJump /\ Stall /\ Latch(pc_reg, Fetched) /\ CsrStep

FetchNext  == /\ ~Flush /\ ~IdJump /\ ~Stall
              /\ Latch(Plus(pc_reg, 4), Fetched)
              /\ CsrStep

Next == TakeTrap \/ TakeBranch \/ TakeJump \/ HoldFetch \/ FetchNext

Spec == Init /\ [][Next]_vars

FairSpec == Spec /\ WF_vars(Next)

(***************************************************************************)
(* Invariants.                                                             *)
(***************************************************************************)

CsrType == [now_prv : 0 .. 1, MPP : 0 .. 1, MPIE : 0 .. 1, MIE : 0 .. 1,
            mtvec : Word, mcause : {0, 3, 8, 9}, mepc : Word]

FetchType == [pc : Word, inst : Word, live : BOOLEAN]

\* Each register keeps its width; the control signals of an entry are those
\* of its own instruction, or zero.
Entry(e) == e.op \in {"NONE", Decode(e.inst).op}

TypeOK ==
  /\ pc_reg \in Word
  /\ rdataI \in Word
  /\ ifid \in FetchType
  /\ idex \in [pc : Word, inst : Word, op : Op, rs1 : Word, rs2 : Word, live : BOOLEAN]
  /\ exmem \in [pc : Word, inst : Word, op : Op, alu : Word, rs2 : Word, live : BOOLEAN]
  /\ memwb \in [pc : Word, inst : Word, op : Op, alu : Word, live : BOOLEAN]
  /\ regfile \in [Reg -> Word]
  /\ mem \in [Index -> Word]
  /\ rdataD \in Word
  /\ csr \in CsrType
  /\ Entry(idex) /\ Entry(exmem) /\ Entry(memwb)

(***************************************************************************)
(* MEM_STAGE bypasses the ALU output, which is the value written back only *)
(* for some instructions.  An instruction about to execute takes an operand *)
(* from MEM_STAGE only when the instruction there is not a load (the stall *)
(* of HazardUnit put a bubble between them) and not a jump (the flush of   *)
(* the fetched word did).                                                  *)
(***************************************************************************)
MemBypassReady ==
  \A a \in {Decode(idex.inst).rs1, Decode(idex.inst).rs2} :
     idex.op # "NONE" /\ FromMem(a) => WbSel(exmem.op) \notin {"MEM", "PC4"}

\* Behind a jump in EXE_STAGE there is the zero word IF_STAGE put in place
\* of the word it had fetched.
JumpBubble == idex.op \in Jumps => ifid.inst = 0

(***************************************************************************)
(* The pipeline never stops retiring instructions: no combination of       *)
(* stalls, redirections and traps starves it.                              *)
(***************************************************************************)
Progress == []<>memwb.live

=============================================================================
