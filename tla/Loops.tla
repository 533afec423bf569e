------------------------------- MODULE Loops -------------------------------
(***************************************************************************)
(* The vocabulary in which the multi-core kernels of riscv-tests/mt are    *)
(* written down: loop nests, and the accesses a core makes to the memory   *)
(* it shares with the other cores.                                         *)
(*                                                                         *)
(* A kernel is, for each core, the sequence of its tasks in program order. *)
(* A task works on a tile: the rows x columns of C it updates, and the set *)
(* ks of the indices k whose products A[j][k] * B[k][i] it adds there.     *)
(* Values are left out: what a tile holds is the set of the products that  *)
(* were added to it.                                                       *)
(***************************************************************************)
EXTENDS Integers, Sequences

\* The matrices are 32 x 32: the kernels have 32, and 5 as its logarithm, as
\* literals next to the argument lda.
LDA == 32
Whole == 0 .. LDA - 1

\* The smaller of two numbers, as the MIN macro of the blocked kernels.
Least(a, b) == IF a < b THEN a ELSE b

\* for (x = lo; x < hi; x += step) Body(x), as the sequence of its tasks.
For(lo, hi, step, Body(_)) ==
  LET from[x \in Int] == IF x >= hi THEN <<>> ELSE Body(x) \o from[x + step]
  IN from[lo]

\* for (x = hi; x >= lo; x--) Body(x).
ForDown(hi, lo, Body(_)) ==
  LET from[x \in Int] == IF x < lo THEN <<>> ELSE Body(x) \o from[x - 1]
  IN from[hi]

\* The number of turns of  for (x = lo; x < hi; x += step).
Trips(lo, hi, step) == IF lo >= hi THEN 0 ELSE (hi - lo + step - 1) \div step

\* The indices that  for (x = lo; x < hi; x += step)  covers when its body is
\* unrolled step times: it runs past hi when step does not divide hi - lo.
Span(lo, hi, step) ==
  UNION {lo + t * step .. lo + (t + 1) * step - 1 : t \in 0 .. Trips(lo, hi, step) - 1}

----------------------------------------------------------------------------
\* Where a task finds the elements of B: the input itself, a static copy that
\* all cores share, or a copy of the core's own.
Sources == {"input", "shared", "own"}

Task(op, rows, cols, ks, src) ==
  <<[op |-> op, rows |-> rows, cols |-> cols, ks |-> ks, src |-> src]>>

\* C[tile] += sum over ks: the tile is loaded, then stored.
Acc(rows, cols, ks) == Task("acc", rows, cols, ks, "input")
AccFrom(src, rows, cols, ks) == Task("acc", rows, cols, ks, src)

\* C[tile] = sum over ks: the tile is overwritten.
Put(rows, cols, ks) == Task("put", rows, cols, ks, "input")
PutFrom(src, rows, cols, ks) == Task("put", rows, cols, ks, src)

\* The elements B[ks][cols] are copied to dst.
Copy(dst, cols, ks) == Task("copy", {}, cols, ks, dst)

\* barrier(ncores)
Bar == Task("bar", {}, {}, {}, "input")
=============================================================================
