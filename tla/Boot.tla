--------------------------------- MODULE Boot ---------------------------------
(***************************************************************************)
(* vm_boot's loop (env/v/vm.c): it fills the free list with frames that a  *)
(* linear feedback shift register names, from a seed taken from ENTROPY.   *)
(* Addresses are counted in pages from DRAM_BASE on, where the program has *)
(* the pages 0 .. pages - 1; bits is the width of the register.            *)
(***************************************************************************)
EXTENDS Integers, Sequences

\* (((x ^ (x >> 1)) & 1) << 5) | (x >> 1), of a number of that width.
LfsrNext(bits, x) == ((x + (x \div 2)) % 2) * 2^(bits - 1) + (x \div 2)

\* 1 + (random % MAX_TEST_PAGES)
Seeds(pages) == {1 + (entropy % pages) : entropy \in 0 .. pages - 1}

\* The frames in the list, in order.
FrameList(pages, bits, seed) ==
  LET random[i \in 1 .. pages] == IF i = 1 THEN seed ELSE LfsrNext(bits, random[i - 1])
  IN [i \in 1 .. pages |-> pages + random[i]]
===============================================================================
