-------------------------------- MODULE MCLanes --------------------------------
(***************************************************************************)
(* An instance of the byte lanes for TLC: bytes of one bit, which tell     *)
(* lanes, signs and zeros apart, and two words, the second the complement  *)
(* of the first, so that a lane taken beyond the word is noticed.          *)
(***************************************************************************)
EXTENDS Lanes

MCDatas == {[i \in Lane |-> IF i \in {0, 3} THEN 1 ELSE 0]}
MCContents ==
  {[j \in Index |-> [i \in Lane |-> IF j = 0 THEN w[i] ELSE 1 - w[i]]] : w \in [Lane -> Byte]}
===============================================================================
