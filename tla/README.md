# A verification project for KeRV32I_simple5stage

The repository is a RISC-V RV32I processor in Chisel: a classical five-stage
pipeline (IF, ID, EX, MEM, WB) with forwarding, a load-use stall, branches
resolved in EX, jumps resolved in ID, and a small machine-mode CSR file, on one
synchronous memory for instructions and data. It has no documentation; its
tests run programs of the `riscv-tests` tree, which the repository contains, for
1000 cycles and look at `a0`. The modules here model

* the processor, as a state machine whose step is one clock edge, with its reset,
  its byte lanes, its CSR file and its instruction patterns, and compare it with
  machines that execute one instruction, one memory request, at a time;
* the two parts of `riscv-tests` that are programs with state of their own and not
  straight-line tests: the multi-core kernels (`riscv-tests/mt`) and the
  virtual-memory environment (`riscv-tests/env/v`);

and prove most of what they check for every value of the constants.

Paths of Scala files below are relative to `src/main/scala/` of the repository, those
that begin with `riscv-tests/` to its root.

## Inventory

| Component | State | Operations | What makes it correct |
|---|---|---|---|
| `IF_STAGE` | `pc_reg` | choose the next fetch address: trap, branch, jump, stall, +4, in that priority | no instruction of the program's path is skipped or fetched twice; what is fetched from another path is flushed |
| `IFID_REGS`, `IDEX_REGS`, `EXMEM_REGS`, `MEMWB_REGS` | one entry each, no reset | latch every cycle; IFID flushes on a taken branch and holds on a stall | an entry carries one instruction's fields together |
| `Decoder`, `ID_STAGE`, `HazardUnit`, `ImmGen` | none | decode, stall, zero the control signals, resolve JAL/JALR | a bubble has no effect; a stall lasts one cycle and covers every load-use pair |
| `EXE_STAGE`, `ForwardingUnit`, `ALU`, `BranchComp` | none | select operands, compute, decide branches | the operands are those the older instructions produce |
| `MEM_STAGE`, `CSRFile` | `now_prv`, `mstatus` bits, `mtvec`, `mcause`, `mepc` | store, load, CSR write, trap, MRET | a trap happens once, records its cause and address, and nothing younger survives it |
| `WB_STAGE`, `RegisterFile` | 32 registers | write, read with write-through | x0 is 0; a read sees exactly the writes that were enabled |
| `SyncMemScala`, `SyncMem.v` | memory, two output registers, delayed lane and mask | synchronous instruction read, data read, masked write | the word on a port belongs to the address of the cycle before |
| `Dpath`, `Core`, `Tile` | none | wiring | the flush and stall wires reach the right stages |
| `Instructions` (bit patterns) | none | match a word | one row for each word, the one of the instruction the assembler meant |
| kernels of `riscv-tests/mt` | output matrix, copies of B, where each core is | load, add and store a tile, overwrite a tile, copy B, barrier | no lost update, no stale copy, every product once, every barrier met |
| `riscv-tests/env/v/vm.c` | page table, TLB, free list, page contents | page fault (map, set A or D), evict, terminate | a program runs as on plain memory and is not faulted for ever |
| `riscv-tests/env/v/riscv_test.h`, `vm_boot` | a shift register | fill the free list | all frames different |
| `Seg7LED`, `TileAndLED` | two counters | show `a0` on a display | (not modelled) |
| `Bram`, `ゴミ箱/*`, `Debug`, elaboration mains, tests | | | (not modelled: unused, output only, or generators) |

The components interact through wires within one cycle and registers between
cycles. What is hard is that five instructions are in progress at once: a value
is needed before it is written back, a later stage discovers that what earlier
stages hold should not be executed, several stages want to redirect or hold the
fetch in the same cycle, and the synchronous memory answers one cycle late. The
repository's tests cannot see most of this: each program exercises one instruction, and
a program that hangs with `a0 = 0` passes.

The kernels interact through one shared matrix, without a lock: what keeps the cores
apart is the arithmetic of their loop bounds, and barriers, some of them inside the
loops. The handler of `vm.c` interacts with the program through faults and with the
hart through the page table, of which the TLB may hold an outdated copy until it is
flushed.

`PROJECT.json` lists the hazards found, each at its line.

## Modules

```
Decoder   CSR --- CSRFile -- CSRFileProofs  control table; CSR function, and as a machine
   |  \   /
   |  Machine                             parameters, combinational functions of the stages
   |  /    \
   | Isa    Pipeline ------ PipelineReset   one instruction, one clock edge per step; with reset
   |   \    /      \               \
   | PipelineRefinement    PipelineProofs   invariants, and under reset
   |      |     \          /        |
   |      |   RefinementProofs      |      the pipeline implements Isa
   |    Claims                     |      what comments and tests say and the code does not do
   |      |                        |
   |   MCPipeline -- ALU           |      instances for TLC
   |      \------------ MCReset ---/
   |
   +-- ByteMemory <- Lanes -- MCLanes, LanesProofs       byte lanes refine a byte memory
   +-- Patterns -- MCPatterns, PatternsProofs            instruction words

Loops - RowKernels - {HalfKernels, CopyKernels, VectorKernels}     the kernels as task sequences
Multicore -- MulticoreProofs                            cores that run any such sequences
   \-- Kernels -- KernelsProofs                         all kernels on Multicore
          \-- MCKernels                                 their instances

FlatMemory <- VM -- VMProofs                            demand paging refines plain memory
Boot ----------\-- MCVM
```

(`A <- B`: B implements A, by `INSTANCE A WITH ...`.)

* **Decoder** – `common/Decoder.scala`. One operator per control signal over the
  mnemonics; `"NONE"` is the default row and the zeroed signals of a bubble, which
  have the same values. The encodings that coincide in `Constants.scala` (`OP1_X` and
  `OP1_RS1`, `M_X` and `M_XRD`, `OP2_IMZ` in the op1 column) are resolved: FENCE is
  a read for the hazard unit and CSRRWI writes its own pc.
* **CSR** – `common/CSR.scala`: what one command does to the registers. `now_prv`
  is one bit wide, as declared.
* **Machine** – constants and the functions both machines use. A word is a
  number below `WordSize`; which instruction a word encodes (`Decode`), the ALU
  (`Alu`) and the byte lanes (`LoadExt`, `StoreMerge`) are constant operators, so the
  proofs hold for the functions the code computes. A decoded instruction has all
  three raw register fields whatever its format, because the hazard unit, the
  forwarding unit and the register file look at the raw bits.
* **Isa** – the sequential machine: `pc`, `regs`, `mem`, `csr`, one action
  `Step`. It uses the code's decoder rows, jump targets and CSR function, so it says
  what the datapath would do without overlap, not what the RISC-V manual says.
* **Pipeline** – the datapath. Variables are the registers of the source
  (`pc_reg`, the two memory output registers, four pipeline registers, `regfile`,
  `mem`, `csr`). `Latch` is everything a clock edge does behind the fetch; the five
  actions `TakeTrap`, `TakeBranch`, `TakeJump`, `HoldFetch`, `FetchNext` are
  `IF_STAGE`'s `when` chain. They exclude each other, so the only choice is
  `ExOps`: `EXE_STAGE` assigns `DontCare` to control signals under `flush_in`, and
  a compiler may keep them (the Scala FIRRTL compiler does) or make them zero (the
  build asks for the latest release of Chisel, which does not fix the compiler).
  `live` is an auxiliary flag: no guard reads it.
* **PipelineRefinement** – the refinement mapping to `Isa`, the four
  situations in which the code diverges from it, and the invariants between the stages.
* **Claims** – four statements of the repository the pipeline does not keep.
* **ALU** – `common/ALU.scala` at a chosen width; gives `Alu` its value in the runs.
* **MCPipeline** – encodings, programs, constants.
* **PipelineReset** – the pipeline with its reset input. Only `IF_STAGE` and `CSRFile` have
  reset values; `ResetEdge` is therefore a full clock edge in which just the fetch address and the
  CSRs are overridden: what is in flight completes, and the word at `START_ADDR` enters the
  pipeline in every cycle and is executed again and again. `held`, `started` and `left`
  are history and bound; no register depends on them.
* **CSRFile** – `common/CSR.scala` as a machine of its own under any sequence of commands, with
  `mstatus`, the copy that is assembled one cycle late.
* **ByteMemory**, **Lanes** – what the data port promises, and `SyncMemScala.scala` with
  `SyncMem.v`: masks and data shifted to the lane of the address, a word read in one cycle,
  shifted back and extended in the next with the delayed lane and mask type.
* **Patterns** – the table of `Instructions.scala` and that of `riscv-tests/env/encoding.h`, each
  in its own notation. A pattern is the record of the fields it gives; a match word is a number,
  its mask the set of the fields it covers (`Fields707f` is the mask `0x707f`). A word is the record
  of its fields; a step changes one of them.
* **Loops**, **RowKernels**, **HalfKernels**, **CopyKernels**, **VectorKernels** – every kernel of
  `riscv-tests/mt` as a function from a core and the number of cores to the sequence of its
  tasks: load-add-store of a tile, overwriting of a tile, a copy of elements of B, a
  barrier. The kernels are grouped by how they divide the work. Values are left out: a tile holds the set
  of the products added to it.
* **Multicore** – cores that run such programs on shared memory. `Load` and `Store` of one
  task are two steps, between which other cores run; `Barrier` is all or nothing.
* **Kernels** – the kernels of the other modules on `Multicore`, by name; which sizes and numbers of cores
  a kernel is right for (`Supported`), and which kernels let the cores share every row (`Split`). The numbers
  and sizes of `Sized` kernels, the vvadd kernels and `ap`, are arbitrary here: `SizedJobs` only says that
  their jobs run their programs.
* **FlatMemory**, **VM** – what `env/v` promises a program, and `vm.c`: `Execute` and `Fault` are
  the hart's access through the TLB; `SetBit`, `TakeNode`, `FlushMap`, `CopyIn`, `Protect`,
  `FlushBit` are `handle_fault` in order, one step per assignment the TLB could see
  in between; `Evict`, `NextPage`, `End` the environment call; every `assert` is an outcome.
* **Boot** – the shift register and the free list `vm_boot` makes from it, as operators.
* **MCReset**, **MCLanes**, **MCPatterns**, **MCKernels**, **MCVM** – instances.
* **PipelineProofs**, **RefinementProofs**, **CSRFileProofs**, **LanesProofs**, **PatternsProofs**,
  **MulticoreProofs**, **KernelsProofs**, **VMProofs** – theorems.

Definitions whose comment begins with "mutant" are broken variants of the
definition that follows; they are used only to confirm that the properties notice.

### The refinement of the pipeline

An instruction takes effect when it leaves MEM: its store and CSR command are
done and its register write is on the write port. So `AbsRegs` is the register file
with the pending write of WB, memory and CSRs are as they are, and `AbsPc` is the
address of the oldest live instruction not yet there. A cycle in which a live
instruction leaves MEM is a step of `Isa`, any other a stutter.

The code departs from the sequential machine in four situations, each a state
predicate; `SafeSpec` is the pipeline that stops when it meets one, and
`Sequential` (`Isa!Spec`) is checked of it:

| Predicate | Situation |
|---|---|
| `SpuriousRead` | the register file passes on the write port's data although nothing is written |
| `CsrBypass` | the instruction after a CSR instruction reads its rd and gets the ALU output |
| `TrapShadow` | an instruction behind ECALL or EBREAK survives in EX (DontCare) or in ID (stall) |
| `StaleFetch` | a store writes a word that has been or is being fetched |

Each asks for a live reader, a real effect, or a different value, so that little more
than the divergences themselves is excluded: 14298 of the 32768 programs over
the data menu of `sequential` ever meet one, and at most 21296 of the 59049 over the control menu. Taking any
one of the four out of `Hazard` makes `Sequential` fail.

### What the other models assume

* **Kernels.** Within the load of a tile, and within its store, the elements are taken
  together; that widens the window between a core's load and its store and so
  keeps every lost update, but not a mixture of old and new within a tile. Memory
  is sequentially consistent; `RaceFree` is what makes that enough, since without
  races no weaker memory could be told apart. Loads of the inputs do not change anything and
  are not steps; software-pipelined loops that read beyond the end of B are not told
  from others.
* **Virtual memory.** The TLB may load or drop any entry at any time, and keeps
  "no entry" as well as an entry. When a bit is missing, the hart may set it or fault,
  at each access anew, so hardware of both kinds is included. `evict` copies the page's home over its
  frame, as the code does. What a page holds is one value. `FlatMemory` promises nothing of
  memory once the environment call is made. The kernel's own accesses, and the
  permission bits that let it make them, are not modelled apart from `CopyIn` and `Evict`.
* **Reset** is sampled at clock edges, and raised at most `Budget` times.
* **Lanes.** Of an access that runs beyond its word, `ByteMemory` promises the bytes in the word
  and nothing of the others: each mask type fills them differently.

## Runs

| Run | Instance | Shows |
|---|---|---|
| `sequential` | 8^5 programs: ADDI, ADD, LW, SW with all dependencies, BNE; 9^5 programs: BNE, JAL, JALR, LW, CSRRW mtvec, ECALL, MRET, ADDI | operands, forwarding, stall (`OperandsOK`), fetch (`FetchOK`), redirection, flush, traps (`LiveOK`, `ChainOK`); the pipeline implements `Isa` (`Sequential`) |
| `reset` | 24^3 programs over the whole table, divergences included; reset during 5^3 of them | `TypeOK`, `MemBypassReady`, `JumpBubble`, also through resets; `ResetDrains`, `OnlyStartActs`; `Progress` |
| `csr_nesting` | traps nested up to four deep, three addresses | `PrivilegeFollowsNesting`: privilege is right as long as no third trap is nested |
| `lanes` | two words of four one-bit bytes, two requests | `ServesBytes`: the lanes implement `ByteMemory` |
| `patterns` | 74880 words | `OneRow`, `DecodesAsAssembled` |
| `kernels` | 44 matmul kernels, five vvadd kernels | see below |
| `paging` | two pages, three frames, three free lists | `DirtyTracked`, `TlbHonest`, `FramesConserved`; `RunsOnFlatMemory` (refinement) and `Served` |
| `trap_flushes_execute`, `trap_flushes_fetch`, `disabled_write`, `jump_register` | 9^3 programs | one violated claim each |
| `wfi_pattern` | as `patterns` | the violated claim about WFI |

`kernels` checks of each kernel, in every interleaving: `RaceFree`, no two cores are at
conflicting tasks at once; `CopyReady`, what is read from a copy of B is there; `NothingLost`,
the output holds the products of all completed tasks; `Exact`, at the end each
element holds each of its products once; `NoneStuck`, no core is left waiting at a barrier;
`Terminates`, all cores return. `WorkDivided` is the static discipline from which these
safety properties are proved below: all cores of a kernel have the same number of barriers, and
the tasks of a kernel divide the work by its barriers, copy what is read before it is read, and
together make the result. It compares tasks without running them, and does so for four and eight cores too,
in both directions: the kernels that `Supported` names do so, and the others (`br` and `dr` on
four and eight, whose blocks of 16 rows run into the next core's share; `at` and `ce` on eight, with eights) do not.
Only `dm` is excepted there: all cores but the last fill the same part of its shared copy with the same values, so
with more than two cores several write it at once. Two kernels, `cf` and `cm`, let both cores add to every row with
no barrier in between, so that products are lost when the cores meet; `HalfSurvives` says
what is left: each element holds all the products of a core or none of them, and those of one
core at least. Of these two `WorkDivided` says that tiles of tasks are the same or apart, each
core with one task for a tile. The vvadd kernels are right for some sizes only, and `ap` for some
numbers of cores; `ExactlySupported`
states which (`vvadd0`: the leftover, which the code computes as `n % (n/ncores)`, is
less than a block; `vvadd1`, `vvadd2`: whole turns of all cores; `vvadd3`: the
number of cores divides the size; `vvadd4`: all; `ap`: the number of cores divides 32, since the
leftover rows are computed and not used) and that they fail for all others.

### Bounds

* **Processor.** Words have 5 bits and memory 8 words (`MCXLen`), registers are numbered 0
  to 31 as in the hardware, and instructions have their real bit fields with
  immediates cut to five bits. At most four instructions are in the pipeline behind
  the fetch, so sequences of five instructions contain every combination that
  can interact; loops (word 5 jumps to the start, the trap handler at 24 is two
  instructions and returns into the program) let them meet again with other register
  values. The programs start from zeroed registers and memory words that are themselves
  instruction codes, so loaded values are small and distinct. The state space is finite by
  itself. In these runs the lanes are whole words.
* **Reset.** `Budget = 2`: reset is raised again while what an earlier one left is still
  in flight. `held` stops counting at `Drained = 6`; with 5 `ResetDrains` fails, so
  the bound is sharp.
* **CSR file.** `MaxDepth = 4`: one more than the depth at which the privilege goes wrong.
* **Lanes.** One-bit bytes tell lanes, signs and zeros apart; the second word is the complement of
  the first, so that a lane taken from it is noticed. `MaxRequests = 2`: a store and the load after it.
* **Patterns.** All opcodes of the tables and one of neither, all `funct3`, and for the other
  fields each value of a pattern or match word and one that is none.
* **Kernels.** 32 x 32 matrices as in the code; one and two cores (the makefile runs them on two:
  `spike -p2`). `ad`, `an` and `cs`, with a barrier at each element, are the longest and run on two only; `ap` runs on three
  as well, which leaves rows over. Most kernels compute their bounds from the number of cores. Twelve of these
  (`FourNames`) run on four; the interleavings of four cores of the others are too many, or the programs too
  long. Of all 44, `WorkDivided` compares the tasks on four cores, and on eight of all but `ad`, `ae`, `ag`, `an`, `cg`,
  `cs`. vvadd on one to three cores with every size up to 25, which is beyond the largest unrolling (3 x 8).
* **Paging.** Two mappable pages and three frames: as in the code (63 of each, page 0 never mapped)
  the list is one longer than the pages, and goes down to the node at which the tail is null
  already. The lists are those of a register of two bits, from three seeds; `FramesFresh`, an
  assumption of `MCVM` that TLC evaluates in that run, shows for the real register of six bits and
  all 63 seeds that the frames are different and beyond the program.

Deadlock is checked except in `kernels` (the cores return), `paging` (the program ends) and
`lanes` (`MaxRequests`). In the pipeline some action is always enabled; `SafeNext` stutters
at a hazard rather than dead-ends. A core that waits at a barrier for ever is
found by `NoneStuck`.

### Fairness

* `Progress` in `reset`: `WF(RunEdge)`. The clock keeps ticking, every register is clocked
  unconditionally, and reset, which may come at any time, is not held for ever.
* `Terminates`: `WF_vars(Next)` of `Multicore`: while any core can do something, something is
  done. Cores are hardware threads nothing suspends; since programs are finite, no more is needed.
* `Served`: `WF_vars(Hart)`: the hart executes. The program may stop at any point between
  instructions or loop, and the TLB is under no obligation.

### Violated claims

1. **Trap and EX.** `EXE_STAGE.scala:79`: `flush_in` makes the control signals
   DontCare; kept, the instruction after ECALL takes effect.
2. **Trap and stall.** `IFID_REGS.scala:31`: the flush of a trap does not reach
   IFID_REGS when a load-use stall holds it, and an abandoned instruction executes. If it is
   a jump, the handler's first instruction is lost as well.
3. **Register file.** `RegisterFile.scala:29`: the write-through path ignores `wen`;
   `sw`/`beq` with immediate bits equal to a register number give a reader of that
   register, three instructions later, a wrong value.
4. **JALR** (`ID_STAGE.scala:83`) adds its immediate to the pc and ignores rs1.
5. **WFI** (`Instructions.scala:68`): the pattern is the word of SRET; WFI itself
   (`encoding.h:661`) matches no row. Neither row does anything today.

Divergences without a run of their own; the models do what the code does:

* `CSR.scala:29,85`: `now_prv` is one bit; machine mode is stored as 1, and a trap from it has mcause 9.
* `CSR.scala:69`: mepc, "the instruction that raised the exception", is overwritten by MRET.
* `ce_matmul.c:47` says the threads do not interfere on the B loads; both start with the same chunk.
* `vm.c:197`, an FP test on hardware without it "succeeds": the illegal instruction is not
  delegated (`vm.c:276`), so that branch is never reached and the program ends with 841.

## Proofs

Every theorem holds for all values of the constants that meet the assumptions named, which TLC
evaluates in the runs. The inductive invariants of the processor, the CSR
file and the paging hold as invariants of the TLC instances as well.

### Processor

The assumptions are those of `Machine`. `SizeAssumption`, `DecodeAssumption`, `DataAssumption`,
`ImageAssumption`: constants are in range, the word 0 decodes to nothing, BUBBLE decodes to
XOR x0,x0,x0, the data functions return words. `CopyAssumption`: the ALU's `COPYrs1` and `COPYrs2`
ignore the other operand (`ALU.scala:30-31`). The second operand of LUI or of a CSR instruction is
whatever the bypass gives, and the refinement needs that it does not matter. The instruction set,
its encoding, the ALU otherwise, the word size and the programs are arbitrary.

`PipelineProofs`:

* `TypeCorrect`: `Spec => []TypeOK`. `TypeOK` is inductive. The lemmas before it
  bound each combinational function; `LatchTyped` does the clock edge for any fetch
  choice, `StepTyped` the five choices.
* `BypassReady`: `Spec => []MemBypassReady` and `JumpsFlush`: `Spec => []JumpBubble`.
  `MemBypassReady` is not inductive: that a jump in MEM has no reader
  in EX depends on IFID_REGS having held the flushed word one cycle
  before, when the jump was in EX. `JumpBubble` records that; the inductive invariant is
  `BypassInv == TypeOK /\ MemBypassReady /\ JumpBubble`. Loads need no history: the stall is raised
  in the very cycle in which the pair would form.

`RefinementProofs`, of `SafeSpec`, the pipeline up to the first of the four hazards:

* `PipelineIsSequential`: `SafeSpec => Sequential`, the refinement itself. At a clock edge,
  either no live instruction is in MEM, and what `Isa` sees of registers, memory, CSRs and pc stays
  (`IdleEdge`), or one is, and the edge is the step of `Isa` on its word (`LiveEdge`).
* `OperandsCurrent`, `FetchedCurrent`, `OnlyLiveActs`, `ProgramOrder`: `SafeSpec => []` of `OperandsOK`,
  `FetchOK`, `LiveOK`, `ChainOK`.
* The inductive invariant is `RefInv`, which adds three things to these and to `BypassInv`. `Executed`: what the
  instruction in MEM carries is what `Isa` computes for it from the registers it sees; it is
  `OperandsOK` of one cycle before, and what the bypass to the next instruction rests on. `Behind`: the instruction
  behind it is at the address at which `Isa` goes on; without it `ChainOK` says nothing of a branch
  once it has left EX. `IdleOK`: an entry of EX off the program's path is a bubble; `LiveOK`
  would allow a load to x0 there, which writes nothing but may raise a stall.
* Each hazard is used where it was expected: `SpuriousRead` in the read of the register file,
  `CsrBypass` in forwarding, `TrapShadow` in `LiveOK`, `StaleFetch` in `FetchOK`.

`PipelineProofs` also, from the same assumptions and `BudgetAssumption`, of the pipeline with reset, hazards included:

* `ResetKeepsBypass`, `ResetKeepsFlush`: the two invariants above survive resets in any cycle.
* `ResetEmpties`: `ResetSpec => []ResetDrains`. The inductive invariant is
  `ResetInv == BypassInv /\ Draining`, where `Draining` says for each count of `held` which of
  the registers may still contain words of the old program: a stall can hold IFID_REGS for one edge,
  but not for two, because it puts a bubble where the load was.
* `ResetOnlyStartActs`: `ResetSpec => OnlyStartActs`, an action property, from the same invariant.

`CSRFileProofs`, from `CSRFileAssumption`:

* `PrivilegeNests`: `Spec => []PrivilegeFollowsNesting`, for any addresses and any depth of nesting. The
  property says nothing once a third trap is nested, so it is not inductive: the step that leaves such
  a nest must find the registers right again. `FirstHandler` in `NestInv` is what survives: with one
  trap open, MPP is user mode, because a trap from user mode or an MRET has written it.

`LanesProofs`, from `LanesAssumption`: `LanesServeBytes`, `Spec => ServesBytes`, the refinement
itself, for every number of words and width of a byte. One lemma does a store byte by byte,
one a load through the delayed lane and mask; besides these, only that requests are well typed is invariant.

### Instruction words

`PatternsProofs`, from no assumption: `OneRowForEveryWord`, `Spec => []OneRow`, and `EveryWordDecodes`,
`Spec => []DecodesAsAssembled`, whatever values the fields of the word take, so for all 2^32 words (and
`Fill` is arbitrary). No invariant is needed: both hold of every word. One lemma for each group of instructions
(`LoadWords`, `ImmediateWords`, ...) says by which field values its rows match and by which `encoding.h` names them,
mostly the same (`Both`); the rows of FENCE, FENCE.I and WFI, where the two differ, have lemmas of their own.
That no two of these conditions hold together then follows from the values.

### Kernels

`MulticoreProofs`, from `ProgramsAreSequences`, for any programs and any number of cores:

* `CoresTyped`: `Spec => []TypeOK`.
* `DividedIsRaceFree`: `Spec => [](PhasesApart(job) => RaceFree)`: if conflicting tasks of
  two cores are always on different sides of a barrier, no interleaving brings them together. The
  invariant is `SamePhase`: all cores have passed equally many barriers.
* `DividedLosesNothing`: `Spec => [](Disciplined(job) => NothingLost)`. The invariant `Kept` says
  that what a core has loaded is still what its tile holds: nobody touches the tile in between.
* `DividedIsExact`: `Spec => [](Disciplined(job) /\ WorkMakesResult => Exact)`: if moreover the tasks of
  all cores together hold each product once, so does the output at the return.
* `CopiesAreReady`: `Spec => [](CopiesComeFirst => CopyReady)`. The invariant `CopiesMade` says that a copy
  whose core is past it is in memory; `SamePhase` turns "before a barrier" into "past".
* `NoCoreStuck`: `Spec => [](BarriersAgree(job) => NoneStuck)`. A core at a barrier has passed fewer than its
  program has; if all have as many, a core that has returned has passed more, against `SamePhase`.
* `StepsLeadOn`: the measure `Left(c)`, what core c has left to do, is a natural number that no step
  raises and every step lowers for some core. With `NoCoreStuck` it is the argument
  for `Terminates`, up to the fairness itself.
* `SplitLosesWholeTasks`: `Spec => [](TilesMatch(job) /\ OneTaskPerTile(job) /\ WorkMakesResult /\ ... => HalfSurvives)`,
  the two kernels that do not divide the work. The invariant `Surviving` says that memory holds only completed tasks, and
  for each completed task some task of the same tile: whatever a store takes away, it puts its own in its place.

The hypotheses on the job are static: they are about the program of a job, not about a state. `WorkDivided`
(model-checked in the initial states of `kernels`) shows that the kernels which divide their work meet them, on all the
numbers of cores they run on, and on four and eight but for the exceptions above: so the theorems give
`RaceFree`, `NothingLost`, `Exact`, `CopyReady` and `NoneStuck` there too, without a run.

`KernelsProofs`, from `SizedJobs` (a vvadd kernel or `ap` has at least one core, no more cores than elements, and
its own program and goal): `SupportedIsExact`, `Spec => []ExactlySupported`, for every size, every number of cores and every
interleaving, in both directions.

* In one direction, the programs are shown to be disciplined, so that `DividedIsExact` applies (`SizedIsDisciplined`), and to make
  the whole result (`SizedWork`). In the other, at the return memory is exactly what the tasks make
  (`DividedLosesNothing`), and that is not the output: an element is missing, or one is written beyond the end.
* A kernel's loop is a recursive function over its trips, and induction is not available. Each loop is solved
  instead in closed form: `UnrollsOnce` says that a function that obeys the recursion of `For` agrees with any
  sequence of functions that obeys it too, because there would be a least trip at which they differ (`LeastNatural`, from
  the well-ordering of the naturals). `OneTaskUnrolls` and `TwoTasksUnroll` then give a loop's tasks by their index.
* `DealtIsOwn`, `DealtCovers` and `SinglesFit`, `PairsFit` are what the kernels that deal elements to the cores in turn need
  (`vvadd1`, `vvadd2`, `vvadd4`), `BlocksApart`, `BlocksMade`, `BlocksFit` those that give each core a block (`vvadd3`, `ap`);
  `vvadd0`, a block for each core and a leftover dealt in turn, needs both. The rest is arithmetic of quotient and remainder.

### Virtual memory

From `ConstantAssumption` and `ListAssumption` (each free list names every frame once; `FramesFresh` in `MCVM` evaluates it
for the real register and all its seeds, `riscv_test.h:52` states it), for any number of pages, any free lists and contents, and
hardware that sets A and D bits or faults for them.

`VMProofs`:

* `KernelTyped`: `Spec => []TypeOK`, and `TlbStaysHonest`: `Spec => []TlbHonest`. Neither is inductive:
  `Inv == Tables /\ Rest /\ FreeList /\ Serving /\ SameFrame /\ Honest` adds that the nodes are
  linked within the list, that while a fault is served the instruction is an access to a page
  that has the entry the step needs, that a cached entry has the frame of the page table, and
  that only the page about to be flushed may be cached with more permission than it has.

A second invariant, `Memory`, is inductive together with `Inv`:

* `ChangesAreDirty`: `Spec => []DirtyTracked`, the assertion of `evict`. It needs that the page being served has
  both bits while the kernel copies into it, and the copy equals the page's home when they are taken away (`Complete`, `Copied`).
* `VirtualMemoryIsFlat`: `Spec => RunsOnFlatMemory`, the refinement: an access that hits is a step of
  `FlatMemory`, all that the handler does is a stutter, and no assertion of `handle_fault` and `evict` fails but the
  one on stray addresses. For the assertions: a page without its accessed bit is the one the next access is to
  (`Accessed`), and no fault comes from the TLB alone (`FaultMisses`), which is what the flush at each
  change is for (`Current`).
* `FramesStayConserved`: `Spec => []FramesConserved`. `Linked` says that the free list is the
  tail of the boot list from some node on and the nodes before it are the pages' frames, `Separate` that no two pages
  share one. That the list is not used up (`vm.c:158`) is a counting argument: there is one frame more than
  pages, and frames are given to pages one to one. `TailLast`, an invariant of its own, says that the tail is the last
  node, or null once the list is down to it, so that `evict` never appends to a node a page has. From the environment call on
  nothing is conserved, in the code as in the model: `evict` zeroes the frame of a node before it appends it,
  leaves its `next`, and where the tail is null loses the last free node. `terminate` follows, so nothing sees it.

### Only model-checked

* `Progress`, `Terminates`, `Served`: liveness under fairness is beyond the prover.
* `WorkDivided`: that the programs of 44 kernels for 32 x 32 matrices are disciplined on one (41 of them), two,
  four and eight cores (38 of them), but for those `Supported` rules out. It is a property of finitely many concrete
  programs, which TLC enumerates; the vvadd kernels and `ap`, of which more can be said,
  are proved for every size.

## Not modelled

* How `ImmGen` cuts immediates from the word, and `ALU` against a definition of its own: both are
  data of the proofs and small tables in the runs.
* Memory beyond its last word (an address outside the memory has no word in the
  hardware and wraps here).
* The display (`Seg7LED`, counters nothing reads), `Debug`, `Bram` and the other unused memories,
  the elaboration mains, the test benches.
* Of `env/v`: page table levels above the last, the assembly of trap frames (`entry.S`, `pop_tf`),
  `string.c`, console output, the instruction cache; the branch of `handle_trap` that cannot be reached.
  Further harts run `coherence_torture`, whose addresses (`vm.c:215`) cover the home pages and the frames; it
  reads or adds 0 atomically, so no content depends on it, and what it is for, the hart's caches, is not here.
* Where programs are linked: `env/v/link.ld` starts at 0, `vm.c` takes `DRAM_BASE` (`encoding.h:167`, `0x80000000`)
  from physical addresses. Pages and frames are names here, and no property depends on addresses.
* `riscv-tests/isa` and `riscv-tests/benchmarks`: straight-line tests and single-core programs
  without state that outlives a call; most of `encoding.h`: constants nothing here uses.
* Values of matrix elements, and reads beyond the end of B whose result is not used.

## What is left

`ImmGen` and `ALU` against reference definitions, over all inputs of a small width by TLC and for
every width where arithmetic alone is enough. The division of work of the row kernels
other than `ap` for every number of cores, by the lemmas of `KernelsProofs`.
