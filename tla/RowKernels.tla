----------------------------- MODULE RowKernels -----------------------------
(***************************************************************************)
(* The matmul kernels that give each core a block of lda / ncores rows of  *)
(* C (or of its columns, or every ncores-th of them), without a copy of B. *)
(* Each operator is the task sequence of core c out of n. The loops a      *)
(* kernel runs over one tile with no barrier in between are one task.      *)
(***************************************************************************)
EXTENDS Loops

\* lda/ncores, and the bounds of core c's block.
Share(n) == LDA \div n
First(c, n) == c * Share(n)
End(c, n) == (c + 1) * Share(n)

\* for j of the core, for k by 2, row j += ...; barrier.
AdMatmul(c, n) ==
  For(First(c, n), End(c, n), 1, LAMBDA j :
    For(0, 32, 2, LAMBDA k : Acc({j}, Span(0, 32, 4), {k, k + 1}) \o Bar))

\* Two rows at a time into temporaries, stored whole.
AfMatmul(c, n) ==
  For((c * LDA) \div n, (LDA * (1 + c)) \div n, 2, LAMBDA l :
    Put({l, l + 1}, Whole, Span(0, LDA, 4)))

\* for i by 2, for k by 4, the rows of the core by 4; barrier.
AgMatmul(c, n) ==
  For(0, LDA, 2, LAMBDA i : For(0, LDA, 4, LAMBDA k :
    Acc(Span(First(c, n), End(c, n), 4), {i, i + 1}, k .. k + 3) \o Bar))

\* The same program as ag_matmul.c.
CgMatmul(c, n) == AgMatmul(c, n)

\* A barrier, then row j in groups of four columns.
AiMatmul(c, n) ==
  Bar \o For((c * LDA) \div n, (c * LDA) \div n + Share(n), 1, LAMBDA j :
    Put({j}, Span(0, LDA, 4), Whole))

\* mutant: the blocks are not dealt out
AkEveryBlock(c, n) ==
  For(16 * c, LDA, 16, LAMBDA jj : For(0, LDA, 16, LAMBDA ii :
    For(jj, Least(LDA, jj + 16), 1, LAMBDA j :
      Acc({j}, Span(ii, Least(LDA, ii + 16), 8), Span(0, LDA, 4)))))

\* Blocks of 16 rows dealt to the cores in turn, 16 columns at a time.
AkMatmul(c, n) ==
  For(16 * c, LDA, 16 * n, LAMBDA jj : For(0, LDA, 16, LAMBDA ii :
    For(jj, Least(LDA, jj + 16), 1, LAMBDA j :
      Acc({j}, Span(ii, Least(LDA, ii + 16), 8), Span(0, LDA, 4)))))

\* Two rows at a time into temporaries, with the literal 32 for the bounds.
AmMatmul(c, n) ==
  For((c * 32) \div n, (32 * (1 + c)) \div n, 2, LAMBDA l :
    Put({l, l + 1}, Whole, Span(0, LDA, 4)))

\* The same program as am_matmul.c.
DuMatmul(c, n) == AmMatmul(c, n)

\* for j of the core, for k, row j += ...; barrier.
AnMatmul(c, n) ==
  For(First(c, n), End(c, n), 1, LAMBDA j :
    For(0, LDA, 1, LAMBDA k : Acc({j}, Whole, {k}) \o Bar))

\* mutant: the last row included
ApInclusive(c, n) ==
  For((LDA \div n) * c, (LDA \div n) * (c + 1) + 1, 1, LAMBDA j : Acc({j}, Whole, Whole))

\* The plain triple loop over the rows start .. start + block - 1; leftover
\* is computed and not used.
ApMatmul(c, n) ==
  LET block == LDA \div n
      start == block * c
  IN For(start, start + block, 1, LAMBDA j : Acc({j}, Whole, Whole))

\* Columns i and i + ncores, for every 2 * ncores-th i.
AqMatmul(c, n) ==
  For(c, LDA, n * 2, LAMBDA i : Acc(Whole, {i, i + n}, Whole))

\* Two columns of four rows in registers.
BbMatmul(c, n) ==
  For(0, LDA, 2, LAMBDA i : For(First(c, n), End(c, n), 4, LAMBDA j :
    Put(j .. j + 3, {i, i + 1}, Whole)))

\* Naive multiplication by core 0 alone, for any other size or core count.
NaiveMatmul(c) ==
  IF c > 0 THEN <<>> ELSE For(0, LDA, 1, LAMBDA i : Acc(Whole, {i}, Whole))

\* The rows start .. end of one of the two cores, 16 values of k at a time
\* from kk on, in register blocks of 2 rows and 8 columns.
BlockedPass(c, kstart, kend) ==
  LET start == c * (32 \div 2)
      end == IF c = 2 - 1 THEN 32 ELSE (c + 1) * (32 \div 2)
  IN For(start, end, 16, LAMBDA jj : For(kstart, kend, 16, LAMBDA kk :
       For(jj, Least(end, jj + 16), 2, LAMBDA j :
         Acc({j, j + 1}, Span(0, 32, 8), kk .. Least(32, kk + 16) - 1))))

\* Blocked for two cores and 32 x 32, naive otherwise.
BcMatmul(c, n) == IF n = 2 THEN BlockedPass(c, 0, 32) ELSE NaiveMatmul(c)

\* As BcMatmul, but each core starts with its own half of k.
DcMatmul(c, n) ==
  IF n = 2
  THEN LET near == IF c = 0 THEN 0 ELSE 16
           far == IF c # 0 THEN 0 ELSE 16
       IN BlockedPass(c, near, near + 16) \o BlockedPass(c, far, far + 16)
  ELSE NaiveMatmul(c)

\* Four rows at a time; the last core takes the rows left over.
BmMatmul(c, n) ==
  LET space == LDA \div n
      max == space * c + space
      last == IF c # n - 1 THEN (max \div 4) * 4 ELSE (LDA \div 4) * 4
  IN For(space * c, last, 4, LAMBDA i : Acc(i .. i + 3, Span(0, LDA, 4), Whole))

\* Rows j, j + n, j + 2n, j + 3n.
BsMatmul(c, n) ==
  For(c, LDA, 4 * n, LAMBDA j :
    Acc({j, j + 1 * n, j + 2 * n, j + 3 * n}, Whole, Whole))

\* A barrier, then row j; cores other than 0 run k downwards, which adds the
\* same products.
CiMatmul(c, n) ==
  Bar \o For((c * LDA) \div n, (c * LDA) \div n + Share(n), 1, LAMBDA j :
    Put({j}, Span(0, LDA, 4), IF c = 0 THEN Whole ELSE {LDA - 1 - t : t \in Whole}))

\* Blocks of 16 rows; the column blocks are visited from the core's own on,
\* round to where it started.
CkMatmul(c, n) ==
  For(16 * c, LDA, 16 * n, LAMBDA jj : For(0, LDA \div 16, 1, LAMBDA t :
    LET ii == (16 * c + 16 * t) % LDA
    IN For(jj, Least(LDA, jj + 16), 4, LAMBDA j :
         Acc(j .. j + 3, Span(ii, Least(LDA, ii + 16), 2), Span(0, LDA, 8)))))

\* Rows j and j + ncores, one column at a time; barrier.
CsMatmul(c, n) ==
  For(c, LDA, 2 * n, LAMBDA j : For(0, LDA, 1, LAMBDA i :
    Put({j, j + n}, {i}, Whole) \o Bar))

\* Column i of the rows of the core, with the literal 32.
DoMatmul(c, n) ==
  For(0, 32, 1, LAMBDA i : Put(c * (32 \div n) .. (c + 1) * (32 \div n) - 1, {i}, Whole))

\* mutant: a row too many
DsFiveRows(c, n) ==
  For(c * 4, LDA, 4 * n, LAMBDA j : Acc(j .. j + 4, Whole, Span(0, LDA, 2)))

\* Four adjacent rows, dealt to the cores in turn.
DsMatmul(c, n) ==
  For(c * 4, LDA, 4 * n, LAMBDA j : Acc(j .. j + 3, Whole, Span(0, LDA, 2)))
=============================================================================
