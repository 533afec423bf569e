-------------------------------- MODULE ALU --------------------------------
(***************************************************************************)
(* The ALU (common/ALU.scala) at a chosen width: XLen bits a word, where   *)
(* the hardware has 32.                                                    *)
(***************************************************************************)
EXTENDS Integers, Bitwise

CONSTANT XLen

Size == 2^XLen

\* asSInt
AsSInt(a) == IF a < 2^(XLen - 1) THEN a ELSE a - Size

Flag(b) == IF b THEN 1 ELSE 0

\* alu_shamt: the low bits of op2 that can name a bit position
Shamt(b) == b % XLen

AluResult(fun, a, b) ==
  CASE fun = "ADD"  -> (a + b) % Size
    [] fun = "SUB"  -> (a - b) % Size
    [] fun = "AND"  -> a & b
    [] fun = "OR"   -> a | b
    [] fun = "XOR"  -> a ^^ b
    [] fun = "SLT"  -> Flag(AsSInt(a) < AsSInt(b))
    [] fun = "SLTU" -> Flag(a < b)
    [] fun = "SLL"  -> (a * 2^Shamt(b)) % Size
    [] fun = "SRA"  -> (AsSInt(a) \div 2^Shamt(b)) % Size
    [] fun = "SRL"  -> a \div 2^Shamt(b)
    [] fun = "COPYrs1" -> a
    [] fun = "COPYrs2" -> b
    [] OTHER -> 0

============================================================================
