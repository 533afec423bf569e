-------------------------------- MODULE MCVM --------------------------------
(***************************************************************************)
(* An instance of the virtual-memory environment for TLC: two pages that   *)
(* can be mapped and three frames, so that the free list goes down to the  *)
(* one node at which freelist_tail is already 0. The lists are the ones    *)
(* the boot loop makes with a register of two bits, which like that of six *)
(* in the code runs through all its values but zero.                       *)
(***************************************************************************)
EXTENDS VM, Boot

MCFreeListSet == {FrameList(3, 2, seed) : seed \in Seeds(3)}
MCFreeLists == MCFreeListSet

\* "this must be the period of the LFSR below" (riscv_test.h:52), at the sizes
\* of the code: whatever the seed, the 63 frames are different, none is a page
\* of the program and none beyond what coherence_torture takes for memory
\* (vm.c:210).
ASSUME FramesFresh ==
  \A seed \in Seeds(63) :
    LET frames == {FrameList(63, 6, seed)[k] : k \in 1 .. 63}
    IN Cardinality(frames) = 63 /\ frames \subseteq 63 .. 2 * (63 + 1) - 1
=============================================================================
