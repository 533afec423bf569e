------------------------------ MODULE Patterns ------------------------------
(***************************************************************************)
(* Which instruction a word is.  The decoder compares the word with the    *)
(* bit patterns of common/Instructions.scala; the programs it runs are     *)
(* assembled from the match and mask words of riscv-tests/env/encoding.h.  *)
(* Both tables are here, in the two notations they are written in, and     *)
(* every word over a choice of field values is decoded with both.          *)
(*                                                                         *)
(* A word is its bit fields: the widest ones no pattern or mask cuts.      *)
(***************************************************************************)
EXTENDS Integers, FiniteSets, Decoder

CONSTANT Fill   \* field -> the values it takes

VARIABLE word

\* The lowest bit of a field, and the number of its values.
Lo    == [opcode |-> 0, rd |-> 7, funct3 |-> 12, rs1 |-> 15, rs2 |-> 20,
          f25 |-> 25, f26 |-> 26, f28 |-> 28]
Width == [opcode |-> 7, rd |-> 5, funct3 |-> 3, rs1 |-> 5, rs2 |-> 5,
          f25 |-> 1, f26 |-> 2, f28 |-> 4]
Field == DOMAIN Lo

(* --- Instructions.scala: a pattern is the fields it gives and their values --- *)

Code(opcode) == [opcode |-> opcode]
Row(opcode, funct3) == [opcode |-> opcode, funct3 |-> funct3]
Row7(opcode, funct3, funct7) ==
  [opcode |-> opcode, funct3 |-> funct3,
   f25 |-> funct7 % 2, f26 |-> (funct7 \div 2) % 4, f28 |-> funct7 \div 8]
Whole(opcode, funct3, funct7, rs2) ==
  [opcode |-> opcode, rd |-> 0, funct3 |-> funct3, rs1 |-> 0, rs2 |-> rs2,
   f25 |-> funct7 % 2, f26 |-> (funct7 \div 2) % 4, f28 |-> funct7 \div 8]
FewZeros(opcode, funct3) == [opcode |-> opcode, rd |-> 0, funct3 |-> funct3, rs1 |-> 0, f28 |-> 0]

\* The patterns of the rows of Decoder.scala.
BitPats ==
  [ LB |-> Row(3, 0), LH |-> Row(3, 1), LW |-> Row(3, 2), LBU |-> Row(3, 4), LHU |-> Row(3, 5),
    SB |-> Row(35, 0), SH |-> Row(35, 1), SW |-> Row(35, 2),
    SLL |-> Row7(51, 1, 0), SRL |-> Row7(51, 5, 0), SRA |-> Row7(51, 5, 32),
    SLLI |-> Row7(19, 1, 0), SRLI |-> Row7(19, 5, 0), SRAI |-> Row7(19, 5, 32),
    ADD |-> Row7(51, 0, 0), SUB |-> Row7(51, 0, 32), ADDI |-> Row(19, 0),
    LUI |-> Code(55), AUIPC |-> Code(23),
    XOR |-> Row7(51, 4, 0), OR |-> Row7(51, 6, 0), AND |-> Row7(51, 7, 0),
    XORI |-> Row(19, 4), ORI |-> Row(19, 6), ANDI |-> Row(19, 7),
    SLT |-> Row7(51, 2, 0), SLTU |-> Row7(51, 3, 0), SLTI |-> Row(19, 2), SLTIU |-> Row(19, 3),
    BEQ |-> Row(99, 0), BNE |-> Row(99, 1), BLT |-> Row(99, 4), BGE |-> Row(99, 5),
    BLTU |-> Row(99, 6), BGEU |-> Row(99, 7),
    JAL |-> Code(111), JALR |-> Row(103, 0),
    FENCE |-> FewZeros(15, 0),
    FENCE_I |-> Whole(15, 1, 0, 0),
    CSRRW |-> Row(115, 1), CSRRS |-> Row(115, 2), CSRRC |-> Row(115, 3),
    CSRRWI |-> Row(115, 5), CSRRSI |-> Row(115, 6), CSRRCI |-> Row(115, 7),
    ECALL |-> Whole(115, 0, 0, 0), EBREAK |-> Whole(115, 0, 0, 1),
    MRET |-> Whole(115, 0, 24, 2), WFI |-> Whole(115, 0, 8, 2) ]

\* mutant: bit 30, which tells ADD from SUB, is not compared
MatchesNoF28(w, p) == \A f \in DOMAIN p \ {"f28"} : w[f] = p[f]

\* mutant: bit 25, which tells ADD from MUL, is not compared
MatchesNoF25(w, p) == \A f \in DOMAIN p \ {"f25"} : w[f] = p[f]

\* w === BitPat
Matches(w, p) == \A f \in DOMAIN p : w[f] = p[f]

Rows(w) == {op \in DOMAIN BitPats : Matches(w, BitPats[op])}

\* ListLookup of the decoder; its default is the row "NONE".
DecodedRow(w) == IF Rows(w) = {} THEN "NONE" ELSE CHOOSE op \in Rows(w) : TRUE

(* --- encoding.h: the fields a mask covers and the match word --- *)

Fields7f == {"opcode"}
Fields707f == {"opcode", "funct3"}
FieldsFe00707f == {"opcode", "funct3", "f25", "f26", "f28"}
FieldsFe007fff == Field \ {"rs1", "rs2"}
FieldsFfffffff == Field

Bits(n, f) == (n \div 2^Lo[f]) % 2^Width[f]

Named(w, match, fields) == \A f \in fields : w[f] = Bits(match, f)

\* The match words of the instructions of RV32I by their mask; the three
\* shifts are those of SLLI_RV32 and its fellows.
Mask7f == [JAL |-> \h6f, LUI |-> \h37, AUIPC |-> \h17]
Mask707f ==
  [ BEQ |-> \h63, BNE |-> \h1063, BLT |-> \h4063, BGE |-> \h5063, BLTU |-> \h6063, BGEU |-> \h7063,
    JALR |-> \h67, ADDI |-> \h13, SLTI |-> \h2013, SLTIU |-> \h3013, XORI |-> \h4013,
    ORI |-> \h6013, ANDI |-> \h7013,
    LB |-> \h3, LH |-> \h1003, LW |-> \h2003, LBU |-> \h4003, LHU |-> \h5003,
    SB |-> \h23, SH |-> \h1023, SW |-> \h2023, FENCE |-> \hf, FENCE_I |-> \h100f,
    CSRRW |-> \h1073, CSRRS |-> \h2073, CSRRC |-> \h3073,
    CSRRWI |-> \h5073, CSRRSI |-> \h6073, CSRRCI |-> \h7073 ]
MaskFe00707f ==
  [ SLLI |-> \h1013, SRLI |-> \h5013, SRAI |-> \h40005013, ADD |-> \h33, SUB |-> \h40000033,
    SLL |-> \h1033, SLT |-> \h2033, SLTU |-> \h3033, XOR |-> \h4033, SRL |-> \h5033,
    SRA |-> \h40005033, OR |-> \h6033, AND |-> \h7033 ]
MaskFfffffff ==
  [ECALL |-> \h73, EBREAK |-> \h100073, MRET |-> \h30200073, WFI |-> \h10500073]

Among(w, table, fields) == {op \in DOMAIN table : Named(w, table[op], fields)}

Names(w) == Among(w, Mask7f, Fields7f) \cup Among(w, Mask707f, Fields707f)
              \cup Among(w, MaskFe00707f, FieldsFe00707f) \cup Among(w, MaskFfffffff, FieldsFfffffff)

\* Instructions of encoding.h the processor does not have: they share
\* opcodes with those it has.
Foreign(w) ==
  \/ \E m \in {\h2000033, \h2001033, \h2002033, \h2003033, \h2004033, \h2005033,
               \h2006033, \h2007033} : Named(w, m, FieldsFe00707f)        \* MUL .. REMU
  \/ \E m \in {\h3003, \h6003, \h3023} : Named(w, m, Fields707f)          \* LD, LWU, SD
  \/ \E m \in {\h200073, \h10200073, \h7b200073} : Named(w, m, FieldsFfffffff) \* URET, SRET, DRET
  \/ Named(w, \h12000073, FieldsFe007fff)                                  \* SFENCE.VMA

(* --- every word --- *)

\* The word 0, which the memory output registers power up with.
Init == word = [f \in Field |-> 0]

\* Another value in one field.
Next == \E f \in Field : \E v \in Fill[f] : word' = [word EXCEPT ![f] = v]

Spec == Init /\ [][Next]_word

\* No word matches two rows of the decoder, whose order therefore does not
\* matter (Decoder.scala, Instructions.scala).
OneRow == Cardinality(Rows(word)) <= 1

\* The decoder's row for a word is the instruction encoding.h gives that
\* word, none for a word it gives no RV32I instruction or an instruction the
\* processor lacks.  Outside this: the fences, whose patterns ask for zeros
\* where encoding.h asks for nothing, and SRET and WFI (see WfiIsWfi).
DecodesAsAssembled ==
  DecodedRow(word) # "WFI" /\ Names(word) # {"WFI"} =>
    \/ {DecodedRow(word)} = Names(word) /\ ~Foreign(word)
    \/ DecodedRow(word) = "NONE" /\ Names(word) \subseteq {"FENCE", "FENCE_I"}

\* encoding.h:661: the word of WFI is the instruction the decoder's row WFI
\* is for.
WfiIsWfi == Names(word) = {"WFI"} => DecodedRow(word) = "WFI"

=============================================================================
