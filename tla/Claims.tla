------------------------------- MODULE Claims -------------------------------
(***************************************************************************)
(* What comments and tests of the repository say of the processor and the  *)
(* code does not do.  Each property below is violated by the pipeline.     *)
(***************************************************************************)
EXTENDS PipelineRefinement

(***************************************************************************)
(* EXE_STAGE's flush_in ("フラッシュ", flush) discards the instruction in   *)
(* EXE_STAGE when the one in MEM_STAGE traps: nothing it would have done   *)
(* reaches EXMEM_REGS.                                                     *)
(***************************************************************************)
TrapFlushesExecute == [][Trap => ~HasEffect(exmem')]_vars

(***************************************************************************)
(* On a trap IF_STAGE replaces what it fetched by zeros ("フラッシュ"), so  *)
(* that the next instruction in ID_STAGE is not one of the path left.      *)
(***************************************************************************)
TrapFlushesFetch == [][Trap => ifid'.inst \in {0, Bubble}]_vars

(***************************************************************************)
(* wen is the enable of the register file's write ("書き込み有効"): what is *)
(* on the write port is not read when it is off.                           *)
(***************************************************************************)
DisabledWriteUnread ==
  \A r \in Sources(IdInst) \ {0} :
     ifid.live /\ ~RfWen(memwb.op) => RegRead(r) = regfile[r]

(***************************************************************************)
(* BR_JR is "Jump Register", and the test suite runs rv32ui-p-jalr: JALR   *)
(* jumps to an address formed from its source register.  The register is   *)
(* settled when nothing older that is still in flight writes it.           *)
(***************************************************************************)
JumpRegister ==
  [][ /\ TakeJump
      /\ ifid.live /\ IdInst.op = "JALR" /\ ~Stall
      /\ \A e \in {[op |-> idex.op, inst |-> idex.inst],
                   [op |-> exmem.op, inst |-> exmem.inst],
                   [op |-> memwb.op, inst |-> memwb.inst]} : ~Writes(e, IdInst.rs1)
      => pc_reg' = Plus(IF IdInst.rs1 = 0 THEN 0 ELSE regfile[IdInst.rs1], IdInst.imm)
    ]_vars

=============================================================================
