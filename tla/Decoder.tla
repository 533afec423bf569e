------------------------------ MODULE Decoder ------------------------------
(***************************************************************************)
(* The control table of common/Decoder.scala: one row per instruction, one *)
(* operator per control signal.  A row is known by its mnemonic; "NONE" is *)
(* the default row of the ListLookup, whose signals are all zero.  It also *)
(* stands for the zeroed signals ID_STAGE sends when it stalls or flushes, *)
(* which are the same values.                                              *)
(***************************************************************************)

Loads     == {"LW", "LB", "LBU", "LH", "LHU"}
Stores    == {"SW", "SB", "SH"}
ImmOps    == {"ADDI", "ANDI", "ORI", "XORI", "SLTI", "SLTIU",
              "SLLI", "SRAI", "SRLI"}
RegOps    == {"SLL", "ADD", "SUB", "SLT", "SLTU", "AND", "OR", "XOR",
              "SRA", "SRL"}
Upper     == {"AUIPC", "LUI"}
Jumps     == {"JAL", "JALR"}
Branches  == {"BEQ", "BNE", "BGE", "BGEU", "BLT", "BLTU"}
CsrImmOps == {"CSRRWI", "CSRRSI", "CSRRCI"}
CsrRegOps == {"CSRRW", "CSRRS", "CSRRC"}
CsrOps    == CsrImmOps \cup CsrRegOps
System    == {"ECALL", "MRET", "EBREAK"}
Fences    == {"FENCE", "FENCE_I", "WFI"}

Op == Loads \cup Stores \cup ImmOps \cup RegOps \cup Upper \cup Jumps
        \cup Branches \cup CsrOps \cup System \cup Fences \cup {"NONE"}

(* --- execute stage signals --- *)

\* op1_sel.  OP1_X has the encoding of OP1_RS1, and the CSRR*I rows carry
\* OP2_IMZ in this column, which EXE_STAGE takes for "not rs1".
OpSel1(op) ==
  IF op \in {"AUIPC", "JAL"} \cup Branches \cup CsrImmOps THEN "PC" ELSE "RS1"

\* op2_sel.  OP2_X has the encoding of OP2_RS2.
OpSel2(op) ==
  IF op \in Loads \cup Stores \cup ImmOps \cup Upper \cup Jumps \cup Branches
  THEN "IMM" ELSE "RS2"

\* imm_sel: the JALR row says IMM_J although the instruction is I-type.
ImmSel(op) == IF op \in Jumps THEN "J" ELSE "FORMAT"

ImmFun == [ADDI |-> "ADD", ANDI |-> "AND",   ORI  |-> "OR",
           XORI |-> "XOR", SLTI |-> "SLT",   SLTIU |-> "SLTU",
           SLLI |-> "SLL", SRAI |-> "SRA",   SRLI |-> "SRL"]

AluFuns == RegOps \cup {"COPYrs1", "COPYrs2", "X"}

AluFun(op) ==
  CASE op \in RegOps -> op
    [] op \in ImmOps -> ImmFun[op]
    [] op \in Loads \cup Stores \cup Jumps \cup Branches \cup {"AUIPC"} -> "ADD"
    [] op = "LUI" -> "COPYrs2"
    [] op \in CsrOps -> "COPYrs1"
    [] OTHER -> "X"

(* --- memory stage signals --- *)

\* FENCE raises dmem_en with wr = M_X, the encoding of a read.
MemEn(op) == op \in Loads \cup Stores \cup {"FENCE"}
MemWr(op) == op \in Stores

MaskTypes == {"X", "B", "H", "W", "BU", "HU"}

MaskType(op) ==
  CASE op \in {"LW", "SW"} -> "W"
    [] op \in {"LB", "SB"} -> "B"
    [] op \in {"LH", "SH"} -> "H"
    [] op = "LBU" -> "BU"
    [] op = "LHU" -> "HU"
    [] OTHER -> "X"

CsrCmd(op) ==
  CASE op \in {"CSRRW", "CSRRWI"} -> "W"
    [] op \in {"CSRRS", "CSRRSI"} -> "S"
    [] op \in {"CSRRC", "CSRRCI"} -> "C"
    [] op \in System -> "I"
    [] OTHER -> "N"

(* --- write-back stage signals --- *)

WbSel(op) ==
  CASE op \in Loads -> "MEM"
    [] op \in Jumps -> "PC4"
    [] op \in CsrOps -> "CSR"
    [] OTHER -> "ALU"

RfWen(op) ==
  op \in Loads \cup ImmOps \cup RegOps \cup Upper \cup Jumps \cup CsrOps

============================================================================
