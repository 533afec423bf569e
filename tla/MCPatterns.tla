----------------------------- MODULE MCPatterns -----------------------------
(***************************************************************************)
(* Field values for Patterns: all opcodes of the tables and one of neither *)
(* table, all funct3, and for the others the values that occur in a        *)
(* pattern or a match word and one that does not.                          *)
(***************************************************************************)
EXTENDS Patterns

MCFill == [opcode |-> {0, 3, 15, 19, 23, 27, 35, 51, 55, 99, 103, 111, 115},
           funct3 |-> 0 .. 7,
           rd |-> {0, 9}, rs1 |-> {0, 9}, rs2 |-> {0, 1, 2, 5, 9, 18},
           f25 |-> {0, 1}, f26 |-> {0, 1, 2}, f28 |-> {0, 1, 3, 4, 7}]

=============================================================================
