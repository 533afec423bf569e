----------------------------- MODULE CopyKernels -----------------------------
(***************************************************************************)
(* The matmul kernels that work from a copy of B (transposed, or half of   *)
(* it): static, hence shared by the cores, or on the stack or __thread,    *)
(* hence each core's own.                                                  *)
(***************************************************************************)
EXTENDS RowKernels

\* mutants: the last k left out; only core 0 comes to the barrier
TransposeShort(c, n) ==
  For(0, LDA - 1, 1, LAMBDA k : Copy("shared", First(c, n) .. End(c, n) - 1, {k}) \o Bar)
TransposeBarOnce(c, n) ==
  For(0, LDA, 1, LAMBDA k : Copy("shared", First(c, n) .. End(c, n) - 1, {k})
                              \o (IF c = 0 THEN Bar ELSE <<>>))

\* Every core copies its own columns, one k after the other; barrier.
SharedTranspose(c, n) ==
  For(0, LDA, 1, LAMBDA k : Copy("shared", First(c, n) .. End(c, n) - 1, {k}) \o Bar)

AeMatmul(c, n) ==
  SharedTranspose(c, n)
    \o For(0, LDA, 4, LAMBDA i : For(First(c, n), End(c, n), 1, LAMBDA j :
         PutFrom("shared", {j}, i .. i + 3, Span(0, LDA, 8)) \o Bar))

\* One chunk of columns: eight at a time for the rows of the core.
CeChunk(c, n, x) ==
  LET start == x * (32 \div n)
      end == (x + 1) * (32 \div n)
  IN For(start, end, 8, LAMBDA i : For(First(c, n), End(c, n), 1, LAMBDA j :
       AccFrom("shared", {j}, i .. i + 7, Span(0, LDA, 8))))

\* The chunks come in the same order on every core; no barrier separates them.
CeMatmul(c, n) ==
  SharedTranspose(c, n) \o For(0, n, 1, LAMBDA x : CeChunk(c, n, x))

\* Every core transposes the whole of B onto its stack.
ArMatmul(c, n) ==
  Copy("own", Whole, Whole)
    \o For(First(c, n), Least(End(c, n), LDA), 1, LAMBDA i :
         AccFrom("own", {i}, Whole, Whole))

AtMatmul(c, n) ==
  Copy("own", Whole, Whole)
    \o For(0, LDA, 1, LAMBDA j :
         AccFrom("own", {j}, Span((c * LDA) \div n, ((c + 1) * LDA) \div n, 8),
                 Span(0, LDA, 16)))

\* Column i is copied when its turn comes. Core 0 has the rows 0 .. 15, core 1
\* (or a single core) 16 .. 31.
BoHalf(lo, hi) ==
  For(0, 32, 1, LAMBDA i :
    Copy("own", {i}, Whole) \o PutFrom("own", Span(lo, hi, 2), {i}, Span(0, 32, 8)))

BoMatmul(c, n) ==
  (IF c = 0 THEN BoHalf(0, 16) ELSE <<>>)
    \o (IF c = 1 \/ n = 1 THEN BoHalf(16, 32) ELSE <<>>)

\* tB is __thread: every core transposes the columns it works on, then takes
\* pairs of rows, width columns at a time; both loops have a barrier inside.
ThreadTranspose(c, n, width) ==
  For(0, LDA, 2, LAMBDA i :
      Copy("own", Span(First(c, n), End(c, n), 2), {i, i + 1}) \o Bar)
    \o For(First(c, n), End(c, n), 16, LAMBDA i2 : For(0, 32, 2, LAMBDA j :
         For(i2, i2 + 16, width, LAMBDA i :
           AccFrom("own", {j, j + 1}, i .. i + width - 1, Span(0, 32, 4)) \o Bar)))

BrMatmul(c, n) == ThreadTranspose(c, n, 4)
DrMatmul(c, n) == ThreadTranspose(c, n, 8)

\* B1 is static: the last core fills its first lda*lda/ncores elements, every
\* other core the rest; after the barrier the last core works from B1, the
\* others from B.
DmMatmul(c, n) ==
  LET space == LDA \div n
      max == space * c + space
  IN IF c = n - 1
     THEN Copy("shared", Whole, 0 .. LDA \div n - 1) \o Bar
            \o For(space * c, (LDA \div 4) * 4, 4, LAMBDA i :
                 AccFrom("shared", i .. i + 3, Span(0, (LDA \div 4) * 4, 4), Whole))
     ELSE Copy("shared", Whole, LDA \div n .. LDA - 1) \o Bar
            \o For(space * c, (max \div 4) * 4, 4, LAMBDA i :
                 Acc(i .. i + 3, Span(0, (LDA \div 4) * 4, 4), Whole))
=============================================================================
