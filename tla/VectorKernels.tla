---------------------------- MODULE VectorKernels ----------------------------
(***************************************************************************)
(* The vvadd kernels: z = x + y over size elements, split between n cores. *)
(* A task writes the elements cols of z (one row, one product).            *)
(***************************************************************************)
EXTENDS Loops

\* z[i] = x[i] + y[i] for the elements is.
Add(is) == Put({0}, is, {0})

\* A block of size/ncores per core, and what is left over dealt out in turn.
Vvadd0(c, n, size) ==
  LET leftover == size % (size \div n)
  IN For(c * (size \div n), (c + 1) * (size \div n), 1, LAMBDA i : Add({i}))
       \o For((size - leftover) + c, size, n, LAMBDA i : Add({i}))

\* Two groups of four per turn.
Vvadd1(c, n, size) ==
  For(c * 4, size, 8 * n, LAMBDA i : Add(i .. i + 3) \o Add(i + n * 4 .. i + n * 4 + 3))

\* Two elements per turn.
Vvadd2(c, n, size) ==
  For(c, size, 2 * n, LAMBDA i : Add({i}) \o Add({i + n}))

\* mutant: the turns are not rounded up
Vvadd3Down(c, n, size) ==
  LET count == size \div n
      first == IF count % 8 = 0 THEN 8 ELSE count % 8
  IN For(c * count, c * count + first + 8 * ((count \div 8) - 1), 1, LAMBDA i : Add({i}))

\* Duff's device: the switch enters the loop at count % 8, so that its first
\* turn writes that many elements (eight when it is zero), the others eight.
Vvadd3(c, n, size) ==
  LET count == size \div n
      turns == (count + 7) \div 8
      first == IF count % 8 = 0 THEN 8 ELSE count % 8
  IN For(c * count, c * count + first + 8 * (turns - 1), 1, LAMBDA i : Add({i}))

\* Every ncores-th element.
Vvadd4(c, n, size) == For(c, size, n, LAMBDA i : Add({i}))
=============================================================================
