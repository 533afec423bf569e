---------------------------- MODULE PatternsProofs ----------------------------
(***************************************************************************)
(* What is proved of the instruction patterns: whatever the fields of a    *)
(* word hold, it matches one row of the decoder at most, and the row is    *)
(* the instruction encoding.h means by it.                                 *)
(***************************************************************************)
EXTENDS Patterns, FiniteSetTheorems, TLAPS

(* --- The two notations, field by field --- *)

Is(w, opcode, funct3) == w.opcode = opcode /\ w.funct3 = funct3
Is7(w, opcode, funct3, f28) ==
  Is(w, opcode, funct3) /\ w.f25 = 0 /\ w.f26 = 0 /\ w.f28 = f28
IsWhole(w, f26, f28, rs2) ==
  /\ Is(w, 115, 0) /\ w.f25 = 0 /\ w.f26 = f26 /\ w.f28 = f28
  /\ w.rs2 = rs2 /\ w.rs1 = 0 /\ w.rd = 0

\* A row of the decoder and a name of encoding.h that ask for the same.
Both(w, op, asked) == (op \in Rows(w) <=> asked) /\ (op \in Names(w) <=> asked)

LEMMA MatchesRow ==
  ASSUME NEW w, NEW o, NEW f
  PROVE  Matches(w, Row(o, f)) <=> Is(w, o, f)
BY SMT DEF Matches, Row, Is

LEMMA MatchesRow7 ==
  ASSUME NEW w, NEW o, NEW f
  PROVE  /\ Matches(w, Row7(o, f, 0)) <=> Is7(w, o, f, 0)
         /\ Matches(w, Row7(o, f, 32)) <=> Is7(w, o, f, 4)
BY SMT DEF Matches, Row7, Is7, Is

LEMMA RowMatches ==
  ASSUME NEW w, NEW op \in DOMAIN BitPats
  PROVE  op \in Rows(w) <=> Matches(w, BitPats[op])
BY DEF Rows

LEMMA AllFields == Field = {"opcode", "rd", "funct3", "rs1", "rs2", "f25", "f26", "f28"}
BY SMT DEF Field, Lo

(* --- The instructions by opcode --- *)

LEMMA LoadWords ==
  ASSUME NEW w
  PROVE  /\ Both(w, "LB", Is(w, 3, 0))
         /\ Both(w, "LH", Is(w, 3, 1))
         /\ Both(w, "LW", Is(w, 3, 2))
         /\ Both(w, "LBU", Is(w, 3, 4))
         /\ Both(w, "LHU", Is(w, 3, 5))
<1>1. /\ "LB" \in Rows(w) <=> Is(w, 3, 0)
      /\ "LH" \in Rows(w) <=> Is(w, 3, 1)
      /\ "LW" \in Rows(w) <=> Is(w, 3, 2)
      /\ "LBU" \in Rows(w) <=> Is(w, 3, 4)
      /\ "LHU" \in Rows(w) <=> Is(w, 3, 5)
  <2>1. /\ {"LB", "LH", "LW", "LBU", "LHU"} \subseteq DOMAIN BitPats
        /\ BitPats["LB"] = Row(3, 0)
        /\ BitPats["LH"] = Row(3, 1)
        /\ BitPats["LW"] = Row(3, 2)
        /\ BitPats["LBU"] = Row(3, 4)
        /\ BitPats["LHU"] = Row(3, 5)
    BY SMT DEF BitPats
  <2> QED
    BY <2>1, RowMatches, MatchesRow, SMT
<1>2. /\ "LB" \in Names(w) <=> Is(w, 3, 0)
      /\ "LH" \in Names(w) <=> Is(w, 3, 1)
      /\ "LW" \in Names(w) <=> Is(w, 3, 2)
      /\ "LBU" \in Names(w) <=> Is(w, 3, 4)
      /\ "LHU" \in Names(w) <=> Is(w, 3, 5)
  BY SMT DEF Names, Among, Mask7f, Mask707f, MaskFe00707f, MaskFfffffff,
             Named, Fields707f, Bits, Lo, Width, Is
<1> QED
  BY <1>1, <1>2 DEF Both

LEMMA StoreWords ==
  ASSUME NEW w
  PROVE  /\ Both(w, "SB", Is(w, 35, 0))
         /\ Both(w, "SH", Is(w, 35, 1))
         /\ Both(w, "SW", Is(w, 35, 2))
<1>1. /\ "SB" \in Rows(w) <=> Is(w, 35, 0)
      /\ "SH" \in Rows(w) <=> Is(w, 35, 1)
      /\ "SW" \in Rows(w) <=> Is(w, 35, 2)
  <2>1. /\ {"SB", "SH", "SW"} \subseteq DOMAIN BitPats
        /\ BitPats["SB"] = Row(35, 0)
        /\ BitPats["SH"] = Row(35, 1)
        /\ BitPats["SW"] = Row(35, 2)
    BY SMT DEF BitPats
  <2> QED
    BY <2>1, RowMatches, MatchesRow, SMT
<1>2. /\ "SB" \in Names(w) <=> Is(w, 35, 0)
      /\ "SH" \in Names(w) <=> Is(w, 35, 1)
      /\ "SW" \in Names(w) <=> Is(w, 35, 2)
  BY SMT DEF Names, Among, Mask7f, Mask707f, MaskFe00707f, MaskFfffffff,
             Named, Fields707f, Bits, Lo, Width, Is
<1> QED
  BY <1>1, <1>2 DEF Both

LEMMA PlainWords ==
  ASSUME NEW w
  PROVE  /\ Both(w, "ADDI", Is(w, 19, 0))
         /\ Both(w, "SLTI", Is(w, 19, 2))
         /\ Both(w, "SLTIU", Is(w, 19, 3))
         /\ Both(w, "XORI", Is(w, 19, 4))
         /\ Both(w, "ORI", Is(w, 19, 6))
         /\ Both(w, "ANDI", Is(w, 19, 7))
<1>1. /\ "ADDI" \in Rows(w) <=> Is(w, 19, 0)
      /\ "SLTI" \in Rows(w) <=> Is(w, 19, 2)
      /\ "SLTIU" \in Rows(w) <=> Is(w, 19, 3)
      /\ "XORI" \in Rows(w) <=> Is(w, 19, 4)
      /\ "ORI" \in Rows(w) <=> Is(w, 19, 6)
      /\ "ANDI" \in Rows(w) <=> Is(w, 19, 7)
  <2>1. /\ {"ADDI", "SLTI", "SLTIU", "XORI", "ORI", "ANDI"} \subseteq DOMAIN BitPats
        /\ BitPats["ADDI"] = Row(19, 0)
        /\ BitPats["SLTI"] = Row(19, 2)
        /\ BitPats["SLTIU"] = Row(19, 3)
        /\ BitPats["XORI"] = Row(19, 4)
        /\ BitPats["ORI"] = Row(19, 6)
        /\ BitPats["ANDI"] = Row(19, 7)
    BY SMT DEF BitPats
  <2> QED
    BY <2>1, RowMatches, MatchesRow, SMT
<1>2. /\ "ADDI" \in Names(w) <=> Is(w, 19, 0)
      /\ "SLTI" \in Names(w) <=> Is(w, 19, 2)
      /\ "SLTIU" \in Names(w) <=> Is(w, 19, 3)
      /\ "XORI" \in Names(w) <=> Is(w, 19, 4)
      /\ "ORI" \in Names(w) <=> Is(w, 19, 6)
      /\ "ANDI" \in Names(w) <=> Is(w, 19, 7)
  BY SMT DEF Names, Among, Mask7f, Mask707f, MaskFe00707f, MaskFfffffff,
             Named, Fields707f, Bits, Lo, Width, Is
<1> QED
  BY <1>1, <1>2 DEF Both

LEMMA ShiftWords ==
  ASSUME NEW w
  PROVE  /\ Both(w, "SLLI", Is7(w, 19, 1, 0))
         /\ Both(w, "SRLI", Is7(w, 19, 5, 0))
         /\ Both(w, "SRAI", Is7(w, 19, 5, 4))
<1>1. /\ "SLLI" \in Rows(w) <=> Is7(w, 19, 1, 0)
      /\ "SRLI" \in Rows(w) <=> Is7(w, 19, 5, 0)
      /\ "SRAI" \in Rows(w) <=> Is7(w, 19, 5, 4)
  <2>1. /\ {"SLLI", "SRLI", "SRAI"} \subseteq DOMAIN BitPats
        /\ BitPats["SLLI"] = Row7(19, 1, 0)
        /\ BitPats["SRLI"] = Row7(19, 5, 0)
        /\ BitPats["SRAI"] = Row7(19, 5, 32)
    BY SMT DEF BitPats
  <2> QED
    BY <2>1, RowMatches, MatchesRow7, SMT
<1>2. /\ "SLLI" \in Names(w) <=> Is7(w, 19, 1, 0)
      /\ "SRLI" \in Names(w) <=> Is7(w, 19, 5, 0)
      /\ "SRAI" \in Names(w) <=> Is7(w, 19, 5, 4)
  BY SMT DEF Names, Among, Mask7f, Mask707f, MaskFe00707f, MaskFfffffff,
             Named, FieldsFe00707f, Bits, Lo, Width, Is7, Is
<1> QED
  BY <1>1, <1>2 DEF Both

LEMMA RegisterWords ==
  ASSUME NEW w
  PROVE  /\ Both(w, "ADD", Is7(w, 51, 0, 0))
         /\ Both(w, "SUB", Is7(w, 51, 0, 4))
         /\ Both(w, "SLL", Is7(w, 51, 1, 0))
         /\ Both(w, "SLT", Is7(w, 51, 2, 0))
         /\ Both(w, "SLTU", Is7(w, 51, 3, 0))
         /\ Both(w, "XOR", Is7(w, 51, 4, 0))
         /\ Both(w, "SRL", Is7(w, 51, 5, 0))
         /\ Both(w, "SRA", Is7(w, 51, 5, 4))
         /\ Both(w, "OR", Is7(w, 51, 6, 0))
         /\ Both(w, "AND", Is7(w, 51, 7, 0))
<1>1. /\ "ADD" \in Rows(w) <=> Is7(w, 51, 0, 0)
      /\ "SUB" \in Rows(w) <=> Is7(w, 51, 0, 4)
      /\ "SLL" \in Rows(w) <=> Is7(w, 51, 1, 0)
      /\ "SLT" \in Rows(w) <=> Is7(w, 51, 2, 0)
      /\ "SLTU" \in Rows(w) <=> Is7(w, 51, 3, 0)
      /\ "XOR" \in Rows(w) <=> Is7(w, 51, 4, 0)
  <2>1. /\ {"ADD", "SUB", "SLL", "SLT", "SLTU", "XOR"} \subseteq DOMAIN BitPats
        /\ BitPats["ADD"] = Row7(51, 0, 0)
        /\ BitPats["SUB"] = Row7(51, 0, 32)
        /\ BitPats["SLL"] = Row7(51, 1, 0)
        /\ BitPats["SLT"] = Row7(51, 2, 0)
        /\ BitPats["SLTU"] = Row7(51, 3, 0)
        /\ BitPats["XOR"] = Row7(51, 4, 0)
    BY SMT DEF BitPats
  <2> QED
    BY <2>1, RowMatches, MatchesRow7, SMT
<1>2. /\ "SRL" \in Rows(w) <=> Is7(w, 51, 5, 0)
      /\ "SRA" \in Rows(w) <=> Is7(w, 51, 5, 4)
      /\ "OR" \in Rows(w) <=> Is7(w, 51, 6, 0)
      /\ "AND" \in Rows(w) <=> Is7(w, 51, 7, 0)
  <2>1. /\ {"SRL", "SRA", "OR", "AND"} \subseteq DOMAIN BitPats
        /\ BitPats["SRL"] = Row7(51, 5, 0)
        /\ BitPats["SRA"] = Row7(51, 5, 32)
        /\ BitPats["OR"] = Row7(51, 6, 0)
        /\ BitPats["AND"] = Row7(51, 7, 0)
    BY SMT DEF BitPats
  <2> QED
    BY <2>1, RowMatches, MatchesRow7, SMT
<1>3. /\ "ADD" \in Names(w) <=> Is7(w, 51, 0, 0)
      /\ "SUB" \in Names(w) <=> Is7(w, 51, 0, 4)
      /\ "SLL" \in Names(w) <=> Is7(w, 51, 1, 0)
      /\ "SLT" \in Names(w) <=> Is7(w, 51, 2, 0)
      /\ "SLTU" \in Names(w) <=> Is7(w, 51, 3, 0)
      /\ "XOR" \in Names(w) <=> Is7(w, 51, 4, 0)
  BY SMT DEF Names, Among, Mask7f, Mask707f, MaskFe00707f, MaskFfffffff,
             Named, FieldsFe00707f, Bits, Lo, Width, Is7, Is
<1>4. /\ "SRL" \in Names(w) <=> Is7(w, 51, 5, 0)
      /\ "SRA" \in Names(w) <=> Is7(w, 51, 5, 4)
      /\ "OR" \in Names(w) <=> Is7(w, 51, 6, 0)
      /\ "AND" \in Names(w) <=> Is7(w, 51, 7, 0)
  BY SMT DEF Names, Among, Mask7f, Mask707f, MaskFe00707f, MaskFfffffff,
             Named, FieldsFe00707f, Bits, Lo, Width, Is7, Is
<1> QED
  BY <1>1, <1>2, <1>3, <1>4 DEF Both

LEMMA BranchWords ==
  ASSUME NEW w
  PROVE  /\ Both(w, "BEQ", Is(w, 99, 0))
         /\ Both(w, "BNE", Is(w, 99, 1))
         /\ Both(w, "BLT", Is(w, 99, 4))
         /\ Both(w, "BGE", Is(w, 99, 5))
         /\ Both(w, "BLTU", Is(w, 99, 6))
         /\ Both(w, "BGEU", Is(w, 99, 7))
<1>1. /\ "BEQ" \in Rows(w) <=> Is(w, 99, 0)
      /\ "BNE" \in Rows(w) <=> Is(w, 99, 1)
      /\ "BLT" \in Rows(w) <=> Is(w, 99, 4)
      /\ "BGE" \in Rows(w) <=> Is(w, 99, 5)
      /\ "BLTU" \in Rows(w) <=> Is(w, 99, 6)
      /\ "BGEU" \in Rows(w) <=> Is(w, 99, 7)
  <2>1. /\ {"BEQ", "BNE", "BLT", "BGE", "BLTU", "BGEU"} \subseteq DOMAIN BitPats
        /\ BitPats["BEQ"] = Row(99, 0)
        /\ BitPats["BNE"] = Row(99, 1)
        /\ BitPats["BLT"] = Row(99, 4)
        /\ BitPats["BGE"] = Row(99, 5)
        /\ BitPats["BLTU"] = Row(99, 6)
        /\ BitPats["BGEU"] = Row(99, 7)
    BY SMT DEF BitPats
  <2> QED
    BY <2>1, RowMatches, MatchesRow, SMT
<1>2. /\ "BEQ" \in Names(w) <=> Is(w, 99, 0)
      /\ "BNE" \in Names(w) <=> Is(w, 99, 1)
      /\ "BLT" \in Names(w) <=> Is(w, 99, 4)
      /\ "BGE" \in Names(w) <=> Is(w, 99, 5)
      /\ "BLTU" \in Names(w) <=> Is(w, 99, 6)
      /\ "BGEU" \in Names(w) <=> Is(w, 99, 7)
  BY SMT DEF Names, Among, Mask7f, Mask707f, MaskFe00707f, MaskFfffffff,
             Named, Fields707f, Bits, Lo, Width, Is
<1> QED
  BY <1>1, <1>2 DEF Both

LEMMA CsrWords ==
  ASSUME NEW w
  PROVE  /\ Both(w, "CSRRW", Is(w, 115, 1))
         /\ Both(w, "CSRRS", Is(w, 115, 2))
         /\ Both(w, "CSRRC", Is(w, 115, 3))
         /\ Both(w, "CSRRWI", Is(w, 115, 5))
         /\ Both(w, "CSRRSI", Is(w, 115, 6))
         /\ Both(w, "CSRRCI", Is(w, 115, 7))
<1>1. /\ "CSRRW" \in Rows(w) <=> Is(w, 115, 1)
      /\ "CSRRS" \in Rows(w) <=> Is(w, 115, 2)
      /\ "CSRRC" \in Rows(w) <=> Is(w, 115, 3)
      /\ "CSRRWI" \in Rows(w) <=> Is(w, 115, 5)
      /\ "CSRRSI" \in Rows(w) <=> Is(w, 115, 6)
      /\ "CSRRCI" \in Rows(w) <=> Is(w, 115, 7)
  <2>1. /\ {"CSRRW", "CSRRS", "CSRRC", "CSRRWI", "CSRRSI", "CSRRCI"} \subseteq DOMAIN BitPats
        /\ BitPats["CSRRW"] = Row(115, 1)
        /\ BitPats["CSRRS"] = Row(115, 2)
        /\ BitPats["CSRRC"] = Row(115, 3)
        /\ BitPats["CSRRWI"] = Row(115, 5)
        /\ BitPats["CSRRSI"] = Row(115, 6)
        /\ BitPats["CSRRCI"] = Row(115, 7)
    BY SMT DEF BitPats
  <2> QED
    BY <2>1, RowMatches, MatchesRow, SMT
<1>2. /\ "CSRRW" \in Names(w) <=> Is(w, 115, 1)
      /\ "CSRRS" \in Names(w) <=> Is(w, 115, 2)
      /\ "CSRRC" \in Names(w) <=> Is(w, 115, 3)
      /\ "CSRRWI" \in Names(w) <=> Is(w, 115, 5)
      /\ "CSRRSI" \in Names(w) <=> Is(w, 115, 6)
      /\ "CSRRCI" \in Names(w) <=> Is(w, 115, 7)
  BY SMT DEF Names, Among, Mask7f, Mask707f, MaskFe00707f, MaskFfffffff,
             Named, Fields707f, Bits, Lo, Width, Is
<1> QED
  BY <1>1, <1>2 DEF Both

LEMMA UpperWords ==
  ASSUME NEW w
  PROVE  /\ Both(w, "LUI", w.opcode = 55)
         /\ Both(w, "AUIPC", w.opcode = 23)
         /\ Both(w, "JAL", w.opcode = 111)
         /\ Both(w, "JALR", Is(w, 103, 0))
<1>1. /\ "LUI" \in Rows(w) <=> w.opcode = 55
      /\ "AUIPC" \in Rows(w) <=> w.opcode = 23
      /\ "JAL" \in Rows(w) <=> w.opcode = 111
  <2>1. /\ {"LUI", "AUIPC", "JAL"} \subseteq DOMAIN BitPats
        /\ BitPats["LUI"] = Code(55)
        /\ BitPats["AUIPC"] = Code(23)
        /\ BitPats["JAL"] = Code(111)
    BY SMT DEF BitPats
  <2>2. \A o : Matches(w, Code(o)) <=> w.opcode = o
    BY SMT DEF Matches, Code
  <2> QED
    BY <2>1, <2>2, RowMatches, SMT
<1>2. "JALR" \in Rows(w) <=> Is(w, 103, 0)
  <2>1. /\ {"JALR"} \subseteq DOMAIN BitPats
        /\ BitPats["JALR"] = Row(103, 0)
    BY SMT DEF BitPats
  <2> QED
    BY <2>1, RowMatches, MatchesRow, SMT
<1>3. /\ "LUI" \in Names(w) <=> w.opcode = 55
      /\ "AUIPC" \in Names(w) <=> w.opcode = 23
      /\ "JAL" \in Names(w) <=> w.opcode = 111
      /\ "JALR" \in Names(w) <=> Is(w, 103, 0)
  BY SMT DEF Names, Among, Mask7f, Mask707f, MaskFe00707f, MaskFfffffff,
             Named, Fields7f, Fields707f, Bits, Lo, Width, Is
<1> QED
  BY <1>1, <1>2, <1>3 DEF Both

\* The decoder asks more of the fences than encoding.h does.
LEMMA FenceWords ==
  ASSUME NEW w
  PROVE  /\ "FENCE" \in Rows(w) => Is(w, 15, 0)
         /\ "FENCE_I" \in Rows(w) => Is(w, 15, 1)
         /\ "FENCE" \in Names(w) <=> Is(w, 15, 0)
         /\ "FENCE_I" \in Names(w) <=> Is(w, 15, 1)
<1>1. "FENCE" \in Rows(w) => Is(w, 15, 0)
  BY SMT DEF Rows, BitPats, Matches, FewZeros, Is
<1>2. "FENCE_I" \in Rows(w) => Is(w, 15, 1)
  BY SMT DEF Rows, BitPats, Matches, Whole, Is
<1>3. /\ "FENCE" \in Names(w) <=> Is(w, 15, 0)
      /\ "FENCE_I" \in Names(w) <=> Is(w, 15, 1)
  BY SMT DEF Names, Among, Mask7f, Mask707f, MaskFe00707f, MaskFfffffff,
             Named, Fields707f, Bits, Lo, Width, Is
<1> QED
  BY <1>1, <1>2, <1>3

\* The decoder's WFI is the word of SRET.
LEMMA SystemWords ==
  ASSUME NEW w
  PROVE  /\ Both(w, "ECALL", IsWhole(w, 0, 0, 0))
         /\ Both(w, "EBREAK", IsWhole(w, 0, 0, 1))
         /\ Both(w, "MRET", IsWhole(w, 0, 3, 2))
         /\ "WFI" \in Rows(w) <=> IsWhole(w, 0, 1, 2)
         /\ "WFI" \in Names(w) <=> IsWhole(w, 0, 1, 5)
<1>1. /\ "ECALL" \in Rows(w) <=> IsWhole(w, 0, 0, 0)
      /\ "EBREAK" \in Rows(w) <=> IsWhole(w, 0, 0, 1)
  BY SMT DEF Rows, BitPats, Matches, Whole, IsWhole, Is
<1>2. /\ "MRET" \in Rows(w) <=> IsWhole(w, 0, 3, 2)
      /\ "WFI" \in Rows(w) <=> IsWhole(w, 0, 1, 2)
  BY SMT DEF Rows, BitPats, Matches, Whole, IsWhole, Is
<1>3. /\ "ECALL" \in Names(w) <=> IsWhole(w, 0, 0, 0)
      /\ "EBREAK" \in Names(w) <=> IsWhole(w, 0, 0, 1)
      /\ "MRET" \in Names(w) <=> IsWhole(w, 0, 3, 2)
      /\ "WFI" \in Names(w) <=> IsWhole(w, 0, 1, 5)
  <2>1. \A m : Named(w, m, FieldsFfffffff)
               <=> \A f \in {"opcode", "rd", "funct3", "rs1", "rs2", "f25", "f26", "f28"} :
                     w[f] = Bits(m, f)
    BY AllFields DEF Named, FieldsFfffffff
  <2>2. /\ "ECALL" \in Names(w) <=> Named(w, \h73, FieldsFfffffff)
        /\ "EBREAK" \in Names(w) <=> Named(w, \h100073, FieldsFfffffff)
        /\ "MRET" \in Names(w) <=> Named(w, \h30200073, FieldsFfffffff)
        /\ "WFI" \in Names(w) <=> Named(w, \h10500073, FieldsFfffffff)
    BY SMT DEF Names, Among, Mask7f, Mask707f, MaskFe00707f, MaskFfffffff
  <2>3. /\ Named(w, \h73, FieldsFfffffff) <=> IsWhole(w, 0, 0, 0)
        /\ Named(w, \h100073, FieldsFfffffff) <=> IsWhole(w, 0, 0, 1)
        /\ Named(w, \h30200073, FieldsFfffffff) <=> IsWhole(w, 0, 3, 2)
        /\ Named(w, \h10500073, FieldsFfffffff) <=> IsWhole(w, 0, 1, 5)
    BY <2>1, SMT DEF Bits, Lo, Width, IsWhole, Is
  <2> QED
    BY <2>2, <2>3
<1> QED
  BY <1>1, <1>2, <1>3 DEF Both

LEMMA ForeignWords ==
  ASSUME NEW w, Foreign(w)
  PROVE  \/ w.opcode = 51 /\ w.f25 = 1
         \/ Is(w, 3, 3) \/ Is(w, 3, 6) \/ Is(w, 35, 3)
         \/ IsWhole(w, 0, 0, 2) \/ IsWhole(w, 0, 1, 2)
         \/ Is(w, 115, 0) /\ w.f25 = 1
<1>1. ASSUME NEW m \in {\h2000033, \h2001033, \h2002033, \h2003033, \h2004033, \h2005033,
                        \h2006033, \h2007033}, Named(w, m, FieldsFe00707f)
      PROVE  w.opcode = 51 /\ w.f25 = 1
  BY <1>1, SMT DEF Named, FieldsFe00707f, Bits, Lo, Width
<1>2. ASSUME NEW m \in {\h3003, \h6003, \h3023}, Named(w, m, Fields707f)
      PROVE  Is(w, 3, 3) \/ Is(w, 3, 6) \/ Is(w, 35, 3)
  BY <1>2, SMT DEF Named, Fields707f, Bits, Lo, Width, Is
<1>3. ASSUME NEW m \in {\h200073, \h10200073, \h7b200073}, Named(w, m, FieldsFfffffff)
      PROVE  \/ IsWhole(w, 0, 0, 2) \/ IsWhole(w, 0, 1, 2)
             \/ Is(w, 115, 0) /\ w.f25 = 1
  <2>1. \A f \in {"opcode", "rd", "funct3", "rs1", "rs2", "f25", "f26", "f28"} : w[f] = Bits(m, f)
    BY <1>3, AllFields DEF Named, FieldsFfffffff
  <2> QED
    BY <2>1, SMT DEF Bits, Lo, Width, IsWhole, Is
<1>4. ASSUME Named(w, \h12000073, FieldsFe007fff) PROVE Is(w, 115, 0) /\ w.f25 = 1
  <2>1. \A f \in {"opcode", "funct3", "f25"} : w[f] = Bits(\h12000073, f)
    BY <1>4, AllFields DEF Named, FieldsFe007fff
  <2> QED
    BY <2>1, SMT DEF Bits, Lo, Width, Is
<1> QED
  BY <1>1, <1>2, <1>3, <1>4 DEF Foreign

(* --- The groups of instructions --- *)

LoadRows == {"LB", "LH", "LW", "LBU", "LHU"}
StoreRows == {"SB", "SH", "SW"}
ImmediateRows == {"ADDI", "SLTI", "SLTIU", "XORI", "ORI", "ANDI", "SLLI", "SRLI", "SRAI"}
RegisterRows == {"ADD", "SUB", "SLL", "SLT", "SLTU", "XOR", "SRL", "SRA", "OR", "AND"}
UpperRows == {"LUI", "AUIPC", "JAL", "JALR"}
BranchRows == {"BEQ", "BNE", "BLT", "BGE", "BLTU", "BGEU"}
FenceRows == {"FENCE", "FENCE_I"}
SystemRows == {"CSRRW", "CSRRS", "CSRRC", "CSRRWI", "CSRRSI", "CSRRCI", "ECALL", "EBREAK", "MRET"}

LEMMA AllRows ==
  DOMAIN BitPats = LoadRows \cup StoreRows \cup ImmediateRows \cup RegisterRows \cup UpperRows
                     \cup BranchRows \cup FenceRows \cup SystemRows \cup {"WFI"}
BY SMT DEF BitPats, LoadRows, StoreRows, ImmediateRows, RegisterRows, UpperRows, BranchRows,
           FenceRows, SystemRows

\* The words of the group's instructions are apart, and none is foreign.
Apart(w, group, opcodes) ==
  \A a \in group :
    /\ a \in Rows(w) <=> a \in Names(w)
    /\ a \in Rows(w) => w.opcode \in opcodes /\ ~Foreign(w)
    /\ \A b \in group : a \in Rows(w) /\ b \in Rows(w) => a = b

LEMMA LoadsApart == ASSUME NEW w PROVE Apart(w, LoadRows, {3})
  BY LoadWords, ForeignWords, SMT DEF Apart, LoadRows, Both, Is, Is7, IsWhole

LEMMA StoresApart == ASSUME NEW w PROVE Apart(w, StoreRows, {35})
  BY StoreWords, ForeignWords, SMT DEF Apart, StoreRows, Both, Is, Is7, IsWhole

LEMMA ImmediatesApart == ASSUME NEW w PROVE Apart(w, ImmediateRows, {19})
  BY PlainWords, ShiftWords, ForeignWords, SMT DEF Apart, ImmediateRows, Both, Is, Is7, IsWhole

LEMMA RegistersApart == ASSUME NEW w PROVE Apart(w, RegisterRows, {51})
  BY RegisterWords, ForeignWords, SMT DEF Apart, RegisterRows, Both, Is, Is7, IsWhole

LEMMA UppersApart == ASSUME NEW w PROVE Apart(w, UpperRows, {55, 23, 111, 103})
  BY UpperWords, ForeignWords, SMT DEF Apart, UpperRows, Both, Is, Is7, IsWhole

LEMMA BranchesApart == ASSUME NEW w PROVE Apart(w, BranchRows, {99})
  BY BranchWords, ForeignWords, SMT DEF Apart, BranchRows, Both, Is, Is7, IsWhole

LEMMA SystemsApart == ASSUME NEW w PROVE Apart(w, SystemRows, {115})
  BY CsrWords, SystemWords, ForeignWords, SMT DEF Apart, SystemRows, Both, Is, Is7, IsWhole

LEMMA FencesApart ==
  ASSUME NEW w, NEW a \in FenceRows
  PROVE  /\ a \in Rows(w) => a \in Names(w)
         /\ a \in Names(w) => w.opcode = 15 /\ ~Foreign(w)
         /\ \A b \in FenceRows : a \in Names(w) /\ b \in Names(w) => a = b
BY FenceWords, ForeignWords, SMT DEF FenceRows, Is, IsWhole

LEMMA WfiOpcode ==
  ASSUME NEW w
  PROVE  /\ "WFI" \in Rows(w) => w.opcode = 115
         /\ "WFI" \in Names(w) => w.opcode = 115
<1>1. "WFI" \in Rows(w) => w.opcode = 115
  BY SystemWords DEF IsWhole, Is
<1>2. "WFI" \in Names(w) => w.opcode = 115
  BY SystemWords DEF IsWhole, Is
<1> QED
  BY <1>1, <1>2

LEMMA WfiApart ==
  ASSUME NEW w, NEW a \in SystemRows, a \in Rows(w)
  PROVE  "WFI" \notin Rows(w) /\ "WFI" \notin Names(w)
BY CsrWords, SystemWords, SMT DEF SystemRows, Both, Is, IsWhole

Ordinary == DOMAIN BitPats \ (FenceRows \cup {"WFI"})

LEMMA OrdinaryWords ==
  ASSUME NEW w, NEW a \in Ordinary
  PROVE  /\ a \in Rows(w) <=> a \in Names(w)
         /\ a \in Rows(w) => /\ ~Foreign(w) /\ w.opcode # 15
                            /\ "WFI" \notin Rows(w) /\ "WFI" \notin Names(w)
         /\ \A b \in Ordinary : a \in Rows(w) /\ b \in Rows(w) => a = b
<1>1. \A b \in Ordinary : \/ b \in LoadRows \/ b \in StoreRows \/ b \in ImmediateRows
                          \/ b \in RegisterRows \/ b \in UpperRows \/ b \in BranchRows
                          \/ b \in SystemRows
  BY AllRows DEF Ordinary
<1>2. /\ Apart(w, LoadRows, {3}) /\ Apart(w, StoreRows, {35}) /\ Apart(w, ImmediateRows, {19})
      /\ Apart(w, RegisterRows, {51}) /\ Apart(w, UpperRows, {55, 23, 111, 103})
      /\ Apart(w, BranchRows, {99}) /\ Apart(w, SystemRows, {115})
  BY LoadsApart, StoresApart, ImmediatesApart, RegistersApart, UppersApart, BranchesApart,
     SystemsApart
<1>3. (a \in Rows(w) <=> a \in Names(w)) /\ (a \in Rows(w) => ~Foreign(w) /\ w.opcode # 15)
  BY <1>1, <1>2 DEF Apart
<1>4. a \in Rows(w) => "WFI" \notin Rows(w) /\ "WFI" \notin Names(w)
  BY <1>1, <1>2, WfiOpcode, WfiApart DEF Apart
<1>5. ASSUME NEW b \in Ordinary, a \in Rows(w), b \in Rows(w) PROVE a = b
  BY <1>1, <1>2, <1>5 DEF Apart
<1> QED
  BY <1>3, <1>4, <1>5

LEMMA NamedRows == ASSUME NEW w PROVE Names(w) \subseteq DOMAIN BitPats
BY SMT DEF Names, Among, Mask7f, Mask707f, MaskFe00707f, MaskFfffffff, BitPats

\* Two rows, or two names, of one word are the same.
LEMMA RowsMeet ==
  ASSUME NEW w, NEW a \in Rows(w), NEW b \in Rows(w)
  PROVE  a = b
<1>1. a \in DOMAIN BitPats /\ b \in DOMAIN BitPats
  BY DEF Rows
<1> QED
  BY <1>1, WfiOpcode, OrdinaryWords, FencesApart, SMT DEF Ordinary

LEMMA NamesMeet ==
  ASSUME NEW w, NEW a \in Names(w), NEW b \in Names(w)
  PROVE  a = b
<1>1. a \in DOMAIN BitPats /\ b \in DOMAIN BitPats
  BY NamedRows
<1> QED
  BY <1>1, WfiOpcode, OrdinaryWords, FencesApart, SMT DEF Ordinary

\* No 32-bit word, whatever its fields hold, matches two rows of the decoder:
\* their order in Decoder.scala does not matter.
THEOREM OneRowForEveryWord == Spec => []OneRow
<1>1. OneRow
  <2>1. CASE Rows(word) = {}
    BY <2>1, FS_EmptySet DEF OneRow
  <2>2. ASSUME NEW a \in Rows(word) PROVE OneRow
    <3>1. Rows(word) = {a}
      BY RowsMeet
    <3>2. Cardinality(Rows(word)) = 1
      BY <3>1, FS_Singleton
    <3> QED
      BY <3>2 DEF OneRow
  <2> QED
    BY <2>1, <2>2
<1> QED
  BY <1>1, PTL

\* The decoder takes every 32-bit word for the instruction that encoding.h
\* gives it, and for none where encoding.h has none or a foreign one; apart
\* from the fences with fields that are not zero, SRET and WFI.
THEOREM EveryWordDecodes == Spec => []DecodesAsAssembled
<1>1. DecodesAsAssembled
  <2> DEFINE R == Rows(word)
             N == Names(word)
  <2>1. SUFFICES ASSUME DecodedRow(word) # "WFI", N # {"WFI"}
                 PROVE  \/ {DecodedRow(word)} = N /\ ~Foreign(word)
                        \/ DecodedRow(word) = "NONE" /\ N \subseteq {"FENCE", "FENCE_I"}
    BY DEF DecodesAsAssembled
  <2>2. "WFI" \notin N
    BY <2>1, NamesMeet
  <2>3. CASE R = {}
    <3>1. DecodedRow(word) = "NONE"
      BY <2>3 DEF DecodedRow
    <3>2. ASSUME NEW a \in N PROVE a \in FenceRows
      BY <2>2, <2>3, NamedRows, OrdinaryWords DEF Ordinary
    <3> QED
      BY <3>1, <3>2 DEF FenceRows
  <2>4. ASSUME NEW a \in R PROVE {DecodedRow(word)} = N /\ ~Foreign(word)
    <3>1. R = {a}
      BY <2>4, RowsMeet
    <3>2. DecodedRow(word) = a
      BY <3>1 DEF DecodedRow
    <3>3. a \in DOMAIN BitPats /\ a # "WFI"
      BY <2>1, <2>4, <3>2 DEF Rows
    <3>4. a \in N /\ ~Foreign(word)
      BY <2>4, <3>3, OrdinaryWords, FencesApart DEF Ordinary
    <3> QED
      BY <3>2, <3>4, NamesMeet
  <2> QED
    BY <2>3, <2>4
<1> QED
  BY <1>1, PTL
=============================================================================
