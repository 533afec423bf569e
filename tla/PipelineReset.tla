----------------------------- MODULE PipelineReset -----------------------------
(***************************************************************************)
(* The pipeline with its reset input. IF_STAGE and CSRFile have reset      *)
(* values; the four pipeline registers, the register file and the memory   *)
(* have none. While reset is held the stages therefore go on: what was in  *)
(* flight completes, and the word at START_ADDR, which IF_STAGE fetches    *)
(* every cycle, enters the pipeline again and again and is executed.       *)
(***************************************************************************)
EXTENDS Pipeline

CONSTANTS
  Budget,       \* bound on the number of times reset is raised
  Interrupted   \* the initial memories of the programs that are reset

ASSUME BudgetAssumption == Budget \in Nat

VARIABLES
  held,      \* clock edges since reset was raised, 0 when it is not
  started,   \* history: the words fetched from START_ADDR since then
  left       \* how often reset may still be raised

rvars == <<pc_reg, rdataI, ifid, idex, exmem, memwb, regfile, mem, rdataD, csr,
           held, started, left>>

\* The number of edges after which the pipeline is drained: two for the fetch,
\* one for each further register, and one for a stall.
Drained == 6

StartWord == mem[WordIndex(StartAddr)]

\* The state after power-up, reset having been held for one edge.
ResetInit ==
  /\ Init
  /\ held = 1 /\ started = {StartWord}
  /\ left = IF mem \in Interrupted THEN Budget ELSE 0

\* What IF_STAGE offers to IFID_REGS: reset does not enter there.
Offered == IF Flush \/ IdJump THEN Flushed ELSE Fetched

\* mcause and mepc have no reset value and follow the command in MEM_STAGE.
ResetCsr ==
  LET c == CsrNext(csr, exmem.op, Decode(exmem.inst).csr, exmem.pc, exmem.alu)
  IN csr' = [CsrReset(Mtvec0) EXCEPT !.mcause = c.mcause, !.mepc = c.mepc]

\* mutant: a jump in ID_STAGE takes precedence over reset
ResetAfterJump ==
  /\ held = 0 => left > 0
  /\ Latch(IF IdJump /\ ~Flush THEN JumpTarget(IdInst, ifid.pc) ELSE StartAddr, Offered)
  /\ ResetCsr
  /\ held' = IF held < Drained THEN held + 1 ELSE held
  /\ started' = (IF held = 0 THEN {} ELSE started) \cup {StartWord}
  /\ left' = IF held = 0 THEN left - 1 ELSE left

\* A clock edge with reset raised. held stops at Drained.
ResetEdge ==
  /\ held = 0 => left > 0
  /\ Latch(StartAddr, Offered) /\ ResetCsr
  /\ held' = IF held < Drained THEN held + 1 ELSE held
  /\ started' = (IF held = 0 THEN {} ELSE started) \cup {StartWord}
  /\ left' = IF held = 0 THEN left - 1 ELSE left

\* A clock edge without.
RunEdge == Next /\ held' = 0 /\ started' = {} /\ UNCHANGED left

ResetNext == ResetEdge \/ RunEdge

ResetSpec == ResetInit /\ [][ResetNext]_rvars

\* Reset is released at last, and the clock goes on.
ResetFairSpec == ResetSpec /\ WF_rvars(RunEdge)

----------------------------------------------------------------------------
(* Properties *)

\* What is left of the program that ran before: words other than those of
\* START_ADDR and the ones a flush puts in place.
Foreign(e) == e.inst \notin started \cup {0, Bubble}

\* Reset held for six edges empties the pipeline of everything that was in
\* flight, whatever that was (IFID_REGS.scala:24: no register has a reset), so
\* that no branch, jump or trap of it redirects the new start.
ResetDrains ==
  held = Drained => ~Foreign(ifid) /\ ~Foreign(idex) /\ ~Foreign(exmem) /\ ~Foreign(memwb)

\* From then on until reset is released, the register file and the memory change
\* only as the instruction at START_ADDR changes them.
OnlyStartActs ==
  [][held = Drained /\ held' = Drained =>
       /\ \A r \in Reg : regfile'[r] # regfile[r] =>
            \E w \in started : RfWen(Decode(w).op) /\ Decode(w).rd = r
       /\ mem' # mem => \E w \in started : MemWr(Decode(w).op)]_rvars

===============================================================================
