----------------------------- MODULE HalfKernels -----------------------------
(***************************************************************************)
(* The matmul kernels written for two cores: one piece of code for core 0, *)
(* another for core 1, which core 0 runs too when it is alone. Further     *)
(* cores return at once.                                                   *)
(***************************************************************************)
EXTENDS Loops

\* The two pieces: core 0's, and the one of core 1 or of a single core.
IfZero(c, tasks) == IF c = 0 THEN tasks ELSE <<>>
\* mutant: a single core does its own piece only
IfOneOnly(c, n, tasks) == IF c = 1 THEN tasks ELSE <<>>

IfOne(c, n, tasks) == IF c = 1 \/ n = 1 THEN tasks ELSE <<>>

\* Columns 0 .. 15 to core 0, 16 .. 31 to core 1, starting from what C holds.
AlMatmul(c, n) ==
  IfZero(c, For(0, 32, 1, LAMBDA j : Acc({j}, 0 .. 15, 0 .. 31)))
    \o IfOne(c, n, For(0, 32, 1, LAMBDA j : Acc({j}, 16 .. 31, 0 .. 31)))

\* The same, overwriting C.
BfMatmul(c, n) ==
  IfZero(c, For(0, 32, 1, LAMBDA j : Put({j}, 0 .. 15, 0 .. 31)))
    \o IfOne(c, n, For(0, 32, 1, LAMBDA j : Put({j}, 16 .. 31, 0 .. 31)))

\* As AlMatmul; core 1 takes the lower rows first.
ClMatmul(c, n) ==
  IfZero(c, For(0, 32, 1, LAMBDA j : Acc({j}, 0 .. 15, 0 .. 31)))
    \o IfOne(c, n, For(16, 32, 1, LAMBDA j : Acc({j}, 16 .. 31, 0 .. 31))
                     \o For(0, 16, 1, LAMBDA j : Acc({j}, 16 .. 31, 0 .. 31)))

\* As ClMatmul, with core 0's loop in two halves as well.
DfMatmul(c, n) ==
  IfZero(c, For(0, 16, 1, LAMBDA j : Acc({j}, 0 .. 15, 0 .. 31))
              \o For(16, 32, 1, LAMBDA j : Acc({j}, 0 .. 15, 0 .. 31)))
    \o IfOne(c, n, For(16, 32, 1, LAMBDA j : Acc({j}, 16 .. 31, 0 .. 31))
                     \o For(0, 16, 1, LAMBDA j : Acc({j}, 16 .. 31, 0 .. 31)))

\* Rows lo .. hi - 1, eight values of k at a time.
OctetRows(lo, hi) ==
  For(lo, hi, 1, LAMBDA j : Acc({j}, Span(0, 32, 8), Span(0, 32, 8)))

\* The products of eight values of k are summed, then added to C.
AvMatmul(c, n) == IfOne(c, n, OctetRows(16, 32)) \o IfZero(c, OctetRows(0, 16))

\* The products are added to C one by one.
CvMatmul(c, n) == IfOne(c, n, OctetRows(16, 32)) \o IfZero(c, OctetRows(0, 16))

\* Rows lo .. hi - 1, the first 16 values of k for all of them, then the rest.
HalvesOfK(lo, hi) ==
  For(0, 32, 16, LAMBDA kk : For(lo, hi, 1, LAMBDA j :
    Acc({j}, Span(0, 32, 8), {k \in kk .. kk + 15 : k < 32})))

BkMatmul(c, n) == IfZero(c, HalvesOfK(0, 16)) \o IfOne(c, n, HalvesOfK(16, 32))

\* Core 0 has the lower rows here.
DvMatmul(c, n) ==
  IF c > 1 THEN <<>>
  ELSE (IF c # 0 \/ n = 1 THEN HalvesOfK(0, 16) ELSE <<>>) \o IfZero(c, HalvesOfK(16, 32))

\* Core 0 goes up the rows and the values of k, core 1 down.
UpAndDown(c, n) ==
  IF c > 1 THEN <<>>
  ELSE IfZero(c, For(0, 2, 1, LAMBDA m : For(0, LDA \div 2, 1, LAMBDA j :
         Acc({j}, Span(0, LDA, 8), Span((m * LDA) \div 2, ((m + 1) * LDA) \div 2, 2)))))
       \o IfOne(c, n, ForDown(2, 1, LAMBDA m : ForDown(LDA - 1, LDA \div 2, LAMBDA j :
            Acc({j}, Span(0, LDA, 8), ((m - 1) * LDA) \div 2 .. (m * LDA) \div 2 - 1))))

BhMatmul(c, n) == UpAndDown(c, n)
BjMatmul(c, n) == UpAndDown(c, n)

\* mutant: core 0 adds its half in two passes
SplitTwice(c, n) ==
  IfZero(c, For(0, 16, 8, LAMBDA k : For(0, 32, 2, LAMBDA i :
         Acc({i, i + 1}, 0 .. 31, Span(k, k + 8, 4)))))
    \o IfOne(c, n, For(0, 32, 2, LAMBDA i :
         Acc({31 - i, 31 - i - 1}, 0 .. 31, Span(16, 32, 4))))

\* Both cores update every row: core 0 adds the first half of k going up, core
\* 1 the second half going down. They meet, with no barrier, wherever the
\* scheduling has them meet.
SplitK(c, n) ==
  IfZero(c, For(0, 32, 2, LAMBDA i : Acc({i, i + 1}, 0 .. 31, Span(0, 16, 4))))
    \o IfOne(c, n, For(0, 32, 2, LAMBDA i :
         Acc({31 - i, 31 - i - 1}, 0 .. 31, Span(16, 32, 4))))

CfMatmul(c, n) == IF c > 1 THEN <<>> ELSE SplitK(c, n)
CmMatmul(c, n) == SplitK(c, n)

\* C as one array of 1024: core c has the 512 elements from c << 9 on, a single
\* core all of them; eight at a time.
Eighths(c, n, Body(_, _)) ==
  LET start == c * 512
      end == (IF n = 1 THEN 2 ELSE c + 1) * 512
  IN IF c > 1 THEN <<>>
     ELSE For(start, end, 8, LAMBDA j : Body({j \div 32}, (j % 32) .. (j % 32) + 7))

AyMatmul(c, n) == Eighths(c, n, LAMBDA rows, cols : Put(rows, cols, Span(0, LDA, 2)))
AzMatmul(c, n) == Eighths(c, n, LAMBDA rows, cols : Put(rows, cols, Span(0, LDA, 2)))

\* As AyMatmul; core 1 works from static copies it makes first.
CyMatmul(c, n) ==
  IF c = 0 \/ c > 1 THEN AyMatmul(c, n)
  ELSE Copy("shared", Whole, Whole)
         \o Eighths(c, n, LAMBDA rows, cols : PutFrom("shared", rows, cols, Span(0, LDA, 2)))
=============================================================================
