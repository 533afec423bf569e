----------------------------- MODULE MCPipeline -----------------------------
(***************************************************************************)
(* Instances of the pipeline for TLC.  Words have five bits and the memory *)
(* has eight of them, so that a program counter, a memory word and a       *)
(* register hold the same small numbers; the register numbers and the bit  *)
(* fields of the instructions are those of real encodings, immediates      *)
(* being cut to five bits.                                                 *)
(*                                                                         *)
(* A memory word is the position of an instruction in Table; a word beyond *)
(* the table matches no pattern.  The first words of the memory take every *)
(* combination of the instructions of a menu, the others are fixed.        *)
(***************************************************************************)
EXTENDS Claims

MCXLen == 5
A == INSTANCE ALU WITH XLen <- MCXLen

MCWordSize == 2^MCXLen
MCNumRegs  == 32

(* --- encodings: every format fills the three register fields --- *)

RType(op, d, s1, s2) ==
  [op |-> op, rd |-> d, rs1 |-> s1, rs2 |-> s2, imm |-> 0, immJ |-> 0, csr |-> "other"]
\* inst[24:20], the rs2 field, is imm[4:0]
IType(op, d, s1, i) ==
  [RType(op, d, s1, i) EXCEPT !.imm = i, !.immJ = i - (i % 2)]
\* inst[11:7], the rd field, is imm[4:0]
SType(op, s1, s2, i) == [RType(op, i, s1, s2) EXCEPT !.imm = i]
\* inst[11:7] is imm[4:1|11]; imm is positive
BType(op, s1, s2, i) == [RType(op, i, s1, s2) EXCEPT !.imm = i]
\* inst[24:20] is imm[4:1|11] and inst[19:15] is imm[19:15]
JType(op, d, i) == [RType(op, d, 0, i) EXCEPT !.imm = i, !.immJ = i]
\* 0x305 has 5 in inst[24:20]
Mtvec(op, d, s1) == [RType(op, d, s1, 5) EXCEPT !.csr = "mtvec"]

Table == <<
  RType("XOR", 0, 0, 0),       \*  1 BUBBLE
  IType("ADDI", 4, 0, 4),      \*  2
  IType("ADDI", 8, 4, 8),      \*  3
  RType("ADD", 4, 8, 4),       \*  4
  IType("LW", 8, 0, 24),       \*  5
  IType("LW", 4, 8, 0),        \*  6
  SType("SW", 4, 8, 4),        \*  7
  BType("BNE", 8, 4, 8),       \*  8
  JType("JAL", 4, 8),          \*  9
  JType("JAL", 0, 12),         \* 10
  JType("JAL", 0, 0),          \* 11
  IType("JALR", 8, 4, 8),      \* 12
  Mtvec("CSRRW", 4, 8),        \* 13
  RType("ECALL", 0, 0, 0),     \* 14
  RType("MRET", 0, 0, 2),      \* 15
  RType("EBREAK", 0, 0, 1),    \* 16
  RType("FENCE", 0, 0, 16),    \* 17
  JType("JAL", 0, 16),         \* 18
  JType("JAL", 0, 20),         \* 19
  Mtvec("CSRRWI", 8, 8),       \* 20
  BType("BEQ", 4, 0, 24),      \* 21
  RType("SUB", 8, 8, 4),       \* 22
  SType("SW", 0, 4, 28),       \* 23
  IType("LW", 4, 0, 28) >>     \* 24

MCDecode(w) == IF w \in DOMAIN Table THEN Table[w] ELSE RType("NONE", 0, 0, 0)

MCAlu(f, a, b) == A!AluResult(f, a, b)

\* Only whole words are read and written here; an address that is not
\* aligned drops low bits, as the lanes do.
MCLoadExt(mask, k, word) == IF mask = "W" THEN word \div 2^k ELSE 0
MCStoreMerge(mask, k, old, data) ==
  IF mask = "W" THEN (data * 2^k) % MCWordSize ELSE old

MCBubble == 1
MCMtvec0 == 24

(* --- programs --- *)

\* One menu is used throughout a program.
Programs(free, menus, rest) ==
  {[k \in 0 .. 7 |-> IF k < free THEN p[k] ELSE rest[k]] :
     p \in UNION {[0 .. free - 1 -> menu] : menu \in menus}}

ZeroRegs == {[r \in 0 .. MCNumRegs - 1 |-> 0]}

\* Words 3 to 7 when they are not free: a store and a branch on what it
\* stored, a jump back to the start, and the handler at 24.
Rest == [k \in 0 .. 7 |-> CASE k = 3 -> 7 [] k = 4 -> 8 [] k = 6 -> 2 [] OTHER -> 10]

\* TLC keeps the value of a definition, and would build the set again at each
\* membership test if a constant were given Programs(...) itself.
DataMenu    == {3, 4, 5, 6, 7, 8, 23, 24}
ControlMenu == {3, 5, 8, 9, 12, 13, 14, 15, 19}

SequentialPrograms == Programs(5, {DataMenu, ControlMenu}, Rest)
AllPrograms        == Programs(3, {DOMAIN Table}, Rest)
ShortPrograms      == Programs(3, {{3, 5, 7, 8, 9, 12, 13, 14, 15}}, Rest)

SequentialImages == SequentialPrograms
AllImages        == AllPrograms
ShortImages      == ShortPrograms

=============================================================================
