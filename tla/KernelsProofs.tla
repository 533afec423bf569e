---------------------------- MODULE KernelsProofs ----------------------------
(***************************************************************************)
(* What is proved of the kernels of riscv-tests/mt whose number of cores   *)
(* and size decide what they compute: the vvadd kernels and ap_matmul give *)
(* the whole output for the numbers and sizes that Supported names and for *)
(* no other, in every interleaving.                                        *)
(***************************************************************************)
EXTENDS Kernels, MulticoreProofs, SequenceTheorems

----------------------------------------------------------------------------
(* What a loop makes. *)

LEMMA DivMod ==
  ASSUME NEW a \in Nat, NEW s \in Nat \ {0}
  PROVE  /\ a \div s \in Nat /\ a % s \in Nat
         /\ a = s * (a \div s) + (a % s) /\ a % s < s
OBVIOUS

LEMMA ProductGrows ==
  ASSUME NEW a \in Int, NEW b \in Int, NEW s \in Nat, a <= b
  PROVE  s * a <= s * b
OBVIOUS

LEMMA QuotientUnique ==
  ASSUME NEW s \in Nat \ {0}, NEW q \in Int, NEW r \in Int, NEW p \in Int, NEW t \in Int,
         s * q + r = s * p + t, 0 <= r, r < s, 0 <= t, t < s
  PROVE  q = p /\ r = t
OBVIOUS

\* Where the size is M turns of all the cores, a group of the t-th turn fits.
LEMMA TurnFits ==
  ASSUME NEW w \in Nat \ {0}, NEW n \in Nat \ {0}, NEW M \in Nat, NEW c \in 0 .. n - 1,
         NEW i \in Nat, NEW t \in Nat, i <= 2 * t + 1,
         w * c + t * (2 * (w * n)) < (2 * (w * n)) * M
  PROVE  w * (c + i * n) + w - 1 < (2 * (w * n)) * M
<1>1. t < M
  <2> DEFINE all == 2 * (w * n)
  <2>1. all \in Nat \ {0} /\ w * c \in Nat
    OBVIOUS
  <2>2. w * c + t * all < all * M
    OBVIOUS
  <2> HIDE DEF all
  <2>3. SUFFICES ASSUME M <= t PROVE FALSE
    OBVIOUS
  <2>4. all * M <= all * t
    BY <2>1, <2>3, ProductGrows
  <2>5. all * t = t * all /\ all * M \in Int /\ all * t \in Int
    BY <2>1
  <2> DEFINE x == all * M
             y == all * t
             z == w * c
  <2>6. z + y < x /\ x <= y /\ x \in Int /\ y \in Int /\ z \in Nat
    BY <2>1, <2>2, <2>4, <2>5
  <2> HIDE DEF x, y, z
  <2> QED
    BY <2>6
<1>2. i <= 2 * M - 1 /\ 2 * M - 1 \in Int
  BY <1>1
<1>3. n * i <= n * (2 * M - 1)
  BY <1>2, ProductGrows
<1>4. c + i * n <= 2 * (n * M) - 1
  <2>1. n * (2 * M - 1) = 2 * (n * M) - n /\ n * i = i * n /\ n * i \in Int /\ n * M \in Int
    OBVIOUS
  <2> DEFINE x == n * M
             y == n * i
  <2>2. y <= 2 * x - n /\ x \in Int /\ y \in Int /\ i * n = y
    BY <1>3, <2>1
  <2> HIDE DEF x, y
  <2>3. c + y <= 2 * x - 1
    BY <2>2
  <2> QED
    BY <2>2, <2>3 DEF x
<1>5. w * (c + i * n) <= w * (2 * (n * M) - 1)
  <2>1. c + i * n \in Int /\ 2 * (n * M) - 1 \in Int
    OBVIOUS
  <2> QED
    BY <1>4, <2>1, ProductGrows
<1>6. w * (2 * (n * M) - 1) = (2 * (w * n)) * M - w
  OBVIOUS
<1> DEFINE x == w * (c + i * n)
           y == (2 * (w * n)) * M
<1>7. x <= y - w /\ x \in Int /\ y \in Int
  BY <1>5, <1>6
<1> HIDE DEF x, y
<1>8. x + w - 1 < y
  BY <1>7
<1> QED
  BY <1>8 DEF x, y

\* Of s elements in the last turn, some core begins below s and ends beyond it.
LEMMA SomeCoreOverruns ==
  ASSUME NEW w \in Nat \ {0}, NEW n \in Nat \ {0}, NEW s \in Nat \ {0}, s < 2 * (w * n)
  PROVE  \E c \in 0 .. n - 1 : w * c < s /\ s <= w * c + w * n + w - 1
<1> DEFINE d == (s - 1) \div w
           r == (s - 1) % w
<1>1. d \in Nat /\ r \in Nat /\ s - 1 = w * d + r /\ r < w
  <2>1. s - 1 \in Nat
    OBVIOUS
  <2> QED
    BY <2>1, DivMod
<1> HIDE DEF d, r
<1>2. w * d < s /\ s <= w * d + w * n + w - 1
  <2> DEFINE x == w * d
             y == w * n
  <2>1. x \in Nat /\ y \in Nat /\ y >= 1 /\ s - 1 = x + r
    BY <1>1
  <2> HIDE DEF x, y
  <2>2. x < s /\ s <= x + y + w - 1
    BY <1>1, <2>1
  <2> QED
    BY <2>2 DEF x, y
<1>3. CASE d <= n - 1
  BY <1>1, <1>2, <1>3
<1>4. CASE ~(d <= n - 1)
  <2>1. w * n <= w * d
    BY <1>1, <1>4, ProductGrows
  <2> DEFINE x == w * d
             y == w * n
  <2>2. x \in Nat /\ y \in Nat /\ y >= 1 /\ s - 1 = x + r /\ y <= x /\ s < 2 * y
    BY <1>1, <2>1
  <2>3. w * (n - 1) = y - w
    OBVIOUS
  <2> HIDE DEF x, y
  <2>4. y - w < s /\ s <= (y - w) + y + w - 1
    BY <1>1, <2>2
  <2>5. n - 1 \in 0 .. n - 1 /\ w * (n - 1) < s /\ s <= w * (n - 1) + w * n + w - 1
    BY <2>3, <2>4 DEF y
  <2> QED
    BY <2>5
<1> QED
  BY <1>3, <1>4
\* A loop makes a turn more than from its second index on, and its t-th turn
\* (from 0) is below the bound.
LEMMA TripsCount ==
  ASSUME NEW x \in Int, NEW hi \in Int, NEW s \in Nat \ {0}
  PROVE  /\ Trips(x, hi, s) \in Nat
         /\ x >= hi => Trips(x, hi, s) = 0
         /\ x < hi => Trips(x, hi, s) = Trips(x + s, hi, s) + 1
         /\ \A t \in Nat : t < Trips(x, hi, s) <=> x + t * s < hi
BY DEF Trips

LEMMA LeastNatural ==
  ASSUME NEW S, S \subseteq Nat, S # {}
  PROVE  \E x \in S : \A y \in S : ~(y < x)
<1> DEFINE R == OpToRel(<, Nat)
<1>1. IsWellFoundedOn(R, Nat)
  BY NatLessThanWellFounded, Zenon
<1>2. \A x, y \in Nat : y < x => <<y, x>> \in R
  BY DEF OpToRel
<1> HIDE DEF R
<1>3. \E x \in S : \A y \in S : ~(<<y, x>> \in R)
  BY <1>1, WFMin
<1> QED
  BY <1>2, <1>3

\* The tasks of a loop from x on, for every x: there is one such function.
Unrolls(F, hi, step, body) ==
  F = [x \in Int |-> IF x >= hi THEN <<>> ELSE body[x] \o F[x + step]]

LEMMA UnrollsOnce ==
  ASSUME NEW hi \in Int, NEW step \in Nat \ {0}, NEW body, NEW F, NEW G,
         Unrolls(F, hi, step, body), Unrolls(G, hi, step, body)
  PROVE  \A x \in Int : F[x] = G[x]
<1> DEFINE Turns(x) == Trips(x, hi, step)
           S == {Turns(x) : x \in {y \in Int : F[y] # G[y]}}
<1>1. \A x \in Int : /\ F[x] = IF x >= hi THEN <<>> ELSE body[x] \o F[x + step]
                     /\ G[x] = IF x >= hi THEN <<>> ELSE body[x] \o G[x + step]
  BY DEF Unrolls
<1>2. \A x \in Int : Turns(x) \in Nat /\ (x < hi => Turns(x) = Turns(x + step) + 1)
  BY TripsCount
<1> HIDE DEF Turns
<1>3. SUFFICES ASSUME S # {} PROVE FALSE
  OBVIOUS
<1>4. PICK k \in S : \A l \in S : ~(l < k)
  BY <1>2, <1>3, LeastNatural
<1>5. PICK x \in Int : F[x] # G[x] /\ Turns(x) = k
  BY <1>4
<1>6. x < hi /\ F[x + step] # G[x + step] /\ x + step \in Int
  BY <1>1, <1>5
<1>7. Turns(x + step) \in S /\ Turns(x + step) \in Nat /\ k = Turns(x + step) + 1
  BY <1>2, <1>5, <1>6
<1> QED
  BY <1>4, <1>7

LEMMA Joined ==
  ASSUME NEW V, NEW s \in Seq(V), NEW t \in Seq(V), NEW f,
         \A k \in 1 .. Len(s) : s[k] = f[k],
         \A k \in 1 .. Len(t) : t[k] = f[Len(s) + k]
  PROVE  s \o t = [k \in 1 .. Len(s) + Len(t) |-> f[k]]
<1>1. s \o t \in Seq(V) /\ Len(s \o t) = Len(s) + Len(t) /\ Len(s) \in Nat /\ Len(t) \in Nat
  BY ConcatProperties
<1>2. \A k \in 1 .. Len(s \o t) :
        (s \o t)[k] = IF k <= Len(s) THEN s[k] ELSE t[k - Len(s)]
  BY ConcatProperties
<1> DEFINE r == s \o t
<1>3. ASSUME NEW k \in 1 .. Len(s) + Len(t) PROVE r[k] = f[k]
  <2>1. CASE k <= Len(s)
    BY <1>1, <1>2, <2>1
  <2>2. CASE k > Len(s)
    <3>1. k - Len(s) \in 1 .. Len(t) /\ Len(s) + (k - Len(s)) = k
      BY <1>1, <2>2
    <3> QED
      BY <1>1, <1>2, <2>2, <3>1
  <2> QED
    BY <1>1, <2>1, <2>2
<1>0. r \in Seq(V) /\ Len(r) = Len(s) + Len(t)
  BY <1>1
<1> HIDE DEF r
<1>4. r = [k \in 1 .. Len(s) + Len(t) |-> r[k]]
  BY <1>0, LenProperties
<1>5. r = [k \in 1 .. Len(s) + Len(t) |-> f[k]]
  BY <1>3, <1>4
<1> QED
  BY <1>5 DEF r

LEMMA Pair ==
  ASSUME NEW a, NEW b
  PROVE  <<a>> \o <<b>> = <<a, b>>
<1> DEFINE s == <<a>>
           t == <<b>>
           f == <<a, b>>
<1>1. s \in Seq({a, b}) /\ t \in Seq({a, b}) /\ Len(s) = 1 /\ Len(t) = 1
  OBVIOUS
<1>2. s[1] = f[1] /\ t[1] = f[2] /\ f = [k \in 1 .. 2 |-> f[k]]
  OBVIOUS
<1> HIDE DEF s, t, f
<1>3. s \o t = [k \in 1 .. Len(s) + Len(t) |-> f[k]]
  BY <1>1, <1>2, Joined
<1>4. s \o t = f
  BY <1>1, <1>2, <1>3
<1> QED
  BY <1>4 DEF s, t, f

\* The tasks of a loop whose turns are one task each, and of one whose turns
\* are two tasks half a step apart.
Strided(x, stride, n, task) == [k \in 1 .. n |-> task[x + (k - 1) * stride]]

LEMMA OneTaskUnrolls ==
  ASSUME NEW hi \in Int, NEW step \in Nat \ {0}, NEW task
  PROVE  Unrolls([x \in Int |-> Strided(x, step, Trips(x, hi, step), task)],
                 hi, step, [x \in Int |-> <<task[x]>>])
<1> DEFINE Turns(x) == Trips(x, hi, step)
           F == [x \in Int |-> Strided(x, step, Turns(x), task)]
<1>1. ASSUME NEW x \in Int, x >= hi PROVE F[x] = <<>>
  <2>1. Turns(x) = 0
    BY <1>1, TripsCount
  <2> QED
    BY <2>1 DEF Strided
<1>2. ASSUME NEW x \in Int, x < hi PROVE F[x] = <<task[x]>> \o F[x + step]
  <2>1. Turns(x) = Turns(x + step) + 1 /\ Turns(x + step) \in Nat /\ x + step \in Int
    BY <1>2, TripsCount
  <2> DEFINE m == Turns(x + step)
             s == [k \in 1 .. m |-> task[x + step + (k - 1) * step]]
  <2> HIDE DEF m, Turns
  <2>2. F[x + step] = s /\ F[x] = [k \in 1 .. m + 1 |-> task[x + (k - 1) * step]]
    BY <2>1 DEF Strided, m
  <2>3. s \in Seq({task[y] : y \in Int}) /\ Len(s) = m
    BY <2>1 DEF m
  <2>4. <<task[x]>> \o s = [k \in 1 .. m + 1 |-> task[x + (k - 1) * step]]
    <3>1. \A k \in 1 .. m + 1 : (<<task[x]>> \o s)[k] = IF k = 1 THEN task[x] ELSE s[k - 1]
      BY <2>1, <2>3 DEF m
    <3> QED
      BY <2>1, <2>3, <3>1 DEF m
  <2> QED
    BY <2>2, <2>4
<1> QED
  BY <1>1, <1>2 DEF Unrolls

LEMMA TwoTasksUnroll ==
  ASSUME NEW hi \in Int, NEW half \in Nat \ {0}, NEW task
  PROVE  Unrolls([x \in Int |-> Strided(x, half, 2 * Trips(x, hi, 2 * half), task)],
                 hi, 2 * half, [x \in Int |-> <<task[x]>> \o <<task[x + half]>>])
<1> DEFINE step == 2 * half
           Turns(x) == Trips(x, hi, step)
           F == [x \in Int |-> Strided(x, half, 2 * Turns(x), task)]
<1>1. ASSUME NEW x \in Int, x >= hi PROVE F[x] = <<>>
  <2>1. Turns(x) = 0
    BY <1>1, TripsCount
  <2> QED
    BY <2>1 DEF Strided
<1>2. ASSUME NEW x \in Int, x < hi
      PROVE  F[x] = (<<task[x]>> \o <<task[x + half]>>) \o F[x + step]
  <2>1. Turns(x) = Turns(x + step) + 1 /\ Turns(x + step) \in Nat /\ x + step \in Int
    BY <1>2, TripsCount
  <2> DEFINE m == 2 * Turns(x + step)
             s == [k \in 1 .. m |-> task[x + step + (k - 1) * half]]
  <2>2. m \in Nat /\ 2 * Turns(x) = m + 2
    BY <2>1
  <2>3. F[x + step] = s /\ F[x] = [k \in 1 .. 2 * Turns(x) |-> task[x + (k - 1) * half]]
    BY <2>1 DEF Strided
  <2> HIDE DEF m, Turns
  <2>4. s \in Seq({task[y] : y \in Int}) /\ Len(s) = m
    BY <2>2
  <2> DEFINE two == <<task[x], task[x + half]>>
             all == [k \in 1 .. m + 2 |-> task[x + (k - 1) * half]]
  <2>5. two \in Seq({task[y] : y \in Int}) /\ Len(two) = 2
    OBVIOUS
  <2>6. \A k \in 1 .. Len(two) : two[k] = all[k]
    BY <2>2
  <2>7. ASSUME NEW k \in 1 .. Len(s) PROVE s[k] = all[Len(two) + k]
    <3>1. k \in 1 .. m /\ Len(two) + k \in 1 .. m + 2
      BY <2>2, <2>4, <2>5, <2>7
    <3>2. s[k] = task[x + step + (k - 1) * half]
      BY <3>1
    <3>3. all[Len(two) + k] = task[x + ((2 + k) - 1) * half]
      BY <2>5, <3>1
    <3>4. x + step + (k - 1) * half = x + ((2 + k) - 1) * half
      BY <2>2, <3>1
    <3> QED
      BY <3>2, <3>3, <3>4
  <2> HIDE DEF s
  <2>8. two \o s = [k \in 1 .. 2 + m |-> all[k]]
    BY <2>4, <2>5, <2>6, <2>7, Joined, SMTT(30)
  <2>9. two \o s = all
    <3>1. 1 .. 2 + m = 1 .. m + 2
      BY <2>2
    <3> QED
      BY <2>8, <3>1
  <2>10. <<task[x]>> \o <<task[x + half]>> = two
    BY Pair
  <2> QED
    BY <2>2, <2>3, <2>9, <2>10
<1> DEFINE body == [x \in Int |-> <<task[x]>> \o <<task[x + half]>>]
<1>3. ASSUME NEW x \in Int
      PROVE  F[x] = IF x >= hi THEN <<>> ELSE body[x] \o F[x + step]
  <2>1. body[x] = <<task[x]>> \o <<task[x + half]>>
    OBVIOUS
  <2> DEFINE next == F[x + step]
  <2>2. x >= hi => F[x] = <<>>
    BY <1>1
  <2>3. x < hi => F[x] = body[x] \o next
    BY <1>2, <2>1
  <2> HIDE DEF F, body
  <2>4. CASE x >= hi
    BY <2>2, <2>4
  <2>5. CASE ~(x >= hi)
    <3>1. x < hi
      BY <2>5
    <3> QED
      BY <2>3, <2>5, <3>1
  <2> QED
    BY <2>4, <2>5
<1>4. F = [x \in Int |-> F[x]]
  OBVIOUS
<1> HIDE DEF F, body
<1>5. F = [x \in Int |-> IF x >= hi THEN <<>> ELSE body[x] \o F[x + step]]
  BY <1>3, <1>4
<1> QED
  BY <1>5 DEF Unrolls, F, body

----------------------------------------------------------------------------
(* The programs, task by task. *)

Sum(cols) == [op |-> "put", rows |-> {0}, cols |-> cols, ks |-> {0}, src |-> "input"]
FullRow(row) == [op |-> "acc", rows |-> {row}, cols |-> Whole, ks |-> Whole, src |-> "input"]

LEMMA SingleAdds ==
  ASSUME NEW lo \in Int, NEW hi \in Int, NEW step \in Nat \ {0}
  PROVE  For(lo, hi, step, LAMBDA i : Add({i}))
           = Strided(lo, step, Trips(lo, hi, step), [i \in Int |-> Sum({i})])
<1> DEFINE task == [i \in Int |-> Sum({i})]
           body == [x \in Int |-> <<task[x]>>]
           F == [x \in Int |-> Strided(x, step, Trips(x, hi, step), task)]
<1>1. \A x \in Int : Add({x}) = body[x]
  BY DEF Add, Put, Task, Sum
<1>2. Unrolls(F, hi, step, body)
  BY OneTaskUnrolls
<1>3. F = [x \in Int |-> IF x >= hi THEN <<>> ELSE Add({x}) \o F[x + step]]
  BY <1>1, <1>2 DEF Unrolls
<1> HIDE DEF F, body
<1>4. PICK G : /\ G = [x \in Int |-> IF x >= hi THEN <<>> ELSE Add({x}) \o G[x + step]]
               /\ For(lo, hi, step, LAMBDA i : Add({i})) = G[lo]
  BY <1>3 DEF For
<1>5. Unrolls(G, hi, step, body)
  BY <1>1, <1>4 DEF Unrolls
<1>6. F[lo] = G[lo]
  BY <1>2, <1>5, UnrollsOnce
<1> QED
  BY <1>4, <1>6 DEF F

LEMMA PairAdds ==
  ASSUME NEW lo \in Int, NEW hi \in Int, NEW n \in Nat \ {0}
  PROVE  For(lo, hi, 2 * n, LAMBDA i : Add({i}) \o Add({i + n}))
           = Strided(lo, n, 2 * Trips(lo, hi, 2 * n), [i \in Int |-> Sum({i})])
<1> DEFINE task == [i \in Int |-> Sum({i})]
           body == [x \in Int |-> <<task[x]>> \o <<task[x + n]>>]
           F == [x \in Int |-> Strided(x, n, 2 * Trips(x, hi, 2 * n), task)]
<1>1. \A x \in Int : Add({x}) \o Add({x + n}) = body[x]
  BY DEF Add, Put, Task, Sum
<1>2. Unrolls(F, hi, 2 * n, body)
  BY TwoTasksUnroll
<1>3. F = [x \in Int |-> IF x >= hi THEN <<>> ELSE (Add({x}) \o Add({x + n})) \o F[x + 2 * n]]
  BY <1>1, <1>2 DEF Unrolls
<1> HIDE DEF F, body
<1>4. PICK G : /\ G = [x \in Int |-> IF x >= hi THEN <<>> ELSE (Add({x}) \o Add({x + n})) \o G[x + 2 * n]]
               /\ For(lo, hi, 2 * n, LAMBDA i : Add({i}) \o Add({i + n})) = G[lo]
  BY <1>3 DEF For
<1>5. Unrolls(G, hi, 2 * n, body)
  BY <1>1, <1>4 DEF Unrolls
<1>6. F[lo] = G[lo]
  BY <1>2, <1>5, UnrollsOnce
<1> QED
  BY <1>4, <1>6 DEF F

LEMMA QuadAdds ==
  ASSUME NEW lo \in Int, NEW hi \in Int, NEW n \in Nat \ {0}
  PROVE  For(lo, hi, 8 * n, LAMBDA i : Add(i .. i + 3) \o Add(i + n * 4 .. i + n * 4 + 3))
           = Strided(lo, (4 * n), 2 * Trips(lo, hi, 8 * n), [i \in Int |-> Sum(i .. i + 3)])
<1> DEFINE task == [i \in Int |-> Sum(i .. i + 3)]
           body == [x \in Int |-> <<task[x]>> \o <<task[x + 4 * n]>>]
           F == [x \in Int |-> Strided(x, (4 * n), 2 * Trips(x, hi, 8 * n), task)]
<1>1. \A x \in Int : Add(x .. x + 3) \o Add(x + n * 4 .. x + n * 4 + 3) = body[x]
  <2>1. ASSUME NEW x \in Int
        PROVE  Add(x .. x + 3) = <<task[x]>> /\ Add(x + n * 4 .. x + n * 4 + 3) = <<task[x + 4 * n]>>
    <3>1. x + n * 4 = x + 4 * n /\ x + 4 * n \in Int
      OBVIOUS
    <3> QED
      BY <3>1 DEF Add, Put, Task, Sum
  <2> QED
    BY <2>1
<1>2. Unrolls(F, hi, 8 * n, body)
  <2>1. 2 * (4 * n) = 8 * n /\ 4 * n \in Nat \ {0}
    OBVIOUS
  <2> QED
    BY <2>1, TwoTasksUnroll
<1>3. F = [x \in Int |-> IF x >= hi THEN <<>> ELSE (Add(x .. x + 3) \o Add(x + n * 4 .. x + n * 4 + 3)) \o F[x + 8 * n]]
  BY <1>1, <1>2 DEF Unrolls
<1> HIDE DEF F, body
<1>4. PICK G : /\ G = [x \in Int |-> IF x >= hi THEN <<>> ELSE (Add(x .. x + 3) \o Add(x + n * 4 .. x + n * 4 + 3)) \o G[x + 8 * n]]
               /\ For(lo, hi, 8 * n, LAMBDA i : Add(i .. i + 3) \o Add(i + n * 4 .. i + n * 4 + 3)) = G[lo]
  BY <1>3 DEF For
<1>5. Unrolls(G, hi, 8 * n, body)
  BY <1>1, <1>4 DEF Unrolls
<1>6. F[lo] = G[lo]
  BY <1>2, <1>5, UnrollsOnce
<1> QED
  BY <1>4, <1>6 DEF F

LEMMA RowTasks ==
  ASSUME NEW lo \in Int, NEW hi \in Int, NEW step \in Nat \ {0}
  PROVE  For(lo, hi, step, LAMBDA i : Acc({i}, Whole, Whole))
           = Strided(lo, step, Trips(lo, hi, step), [i \in Int |-> FullRow(i)])
<1> DEFINE task == [i \in Int |-> FullRow(i)]
           body == [x \in Int |-> <<task[x]>>]
           F == [x \in Int |-> Strided(x, step, Trips(x, hi, step), task)]
<1>1. \A x \in Int : Acc({x}, Whole, Whole) = body[x]
  BY DEF Acc, Task, FullRow
<1>2. Unrolls(F, hi, step, body)
  BY OneTaskUnrolls
<1>3. F = [x \in Int |-> IF x >= hi THEN <<>> ELSE Acc({x}, Whole, Whole) \o F[x + step]]
  BY <1>1, <1>2 DEF Unrolls
<1> HIDE DEF F, body
<1>4. PICK G : /\ G = [x \in Int |-> IF x >= hi THEN <<>> ELSE Acc({x}, Whole, Whole) \o G[x + step]]
               /\ For(lo, hi, step, LAMBDA i : Acc({i}, Whole, Whole)) = G[lo]
  BY <1>3 DEF For
<1>5. Unrolls(G, hi, step, body)
  BY <1>1, <1>4 DEF Unrolls
<1>6. F[lo] = G[lo]
  BY <1>2, <1>5, UnrollsOnce
<1> QED
  BY <1>4, <1>6 DEF F

----------------------------------------------------------------------------
(* A job whose tasks each do some elements of the output for themselves. *)

\* What a task of job j covers: elements of the vector, rows of the matrix.
Cells(j, t) == IF j.kernel = "ap" THEN t.rows ELSE t.cols
Wanted(j) == IF j.kernel = "ap" THEN Whole ELSE 0 .. j.size - 1
Made(j) == UNION {UNION {Cells(j, Program[j][c][p]) : p \in DOMAIN Program[j][c]} :
                  c \in DOMAIN Program[j]}

LEMMA InMade ==
  ASSUME NEW j, NEW e
  PROVE  e \in Made(j) <=>
           \E c \in DOMAIN Program[j] : \E p \in DOMAIN Program[j][c] :
             e \in Cells(j, Program[j][c][p])
BY DEF Made

OwnTask(j, t) ==
  /\ t.op \in {"acc", "put"}
  /\ j.kernel = "ap" => t.cols = Whole /\ t.ks = Whole
  /\ j.kernel # "ap" => t.rows = {0} /\ t.ks = {0}

LEMMA SumCells ==
  ASSUME NEW j, NEW cols, j.kernel # "ap"
  PROVE  Cells(j, Sum(cols)) = cols /\ OwnTask(j, Sum(cols))
BY DEF Cells, OwnTask, Sum

LEMMA RowCells ==
  ASSUME NEW j, NEW row, j.kernel = "ap"
  PROVE  Cells(j, FullRow(row)) = {row} /\ OwnTask(j, FullRow(row))
BY DEF Cells, OwnTask, FullRow

OwnElements(j) ==
  \A c \in DOMAIN Program[j] : \A p \in DOMAIN Program[j][c] : OwnTask(j, Program[j][c][p])

CellsApart(j) ==
  \A a, b \in DOMAIN Program[j] : \A p \in DOMAIN Program[j][a], q \in DOMAIN Program[j][b] :
    Cells(j, Program[j][a][p]) \cap Cells(j, Program[j][b][q]) # {} => a = b /\ p = q

LEMMA OwnIsDisciplined ==
  ASSUME NEW j, OwnElements(j), CellsApart(j)
  PROVE  Disciplined(j)
<1>1. ASSUME NEW a \in DOMAIN Program[j], NEW b \in DOMAIN Program[j],
             NEW p \in DOMAIN Program[j][a], NEW q \in DOMAIN Program[j][b],
             Touch(Program[j][a][p], Program[j][b][q])
      PROVE  a = b /\ p = q
  <2>1. Cells(j, Program[j][a][p]) \cap Cells(j, Program[j][b][q]) # {}
    BY <1>1 DEF Touch, Cells
  <2> QED
    BY <2>1 DEF CellsApart
<1>2. \A a \in DOMAIN Program[j] : \A p \in DOMAIN Program[j][a] :
        Program[j][a][p].op # "copy"
  BY DEF OwnElements, OwnTask
<1>3. PhasesApart(j)
  BY <1>1, <1>2 DEF PhasesApart, Conflict, SharesCopy
<1>4. PutsAlone(j)
  BY <1>1 DEF PutsAlone
<1> QED
  BY <1>3, <1>4 DEF Disciplined

\* Such a job makes the result when its tasks cover what is wanted, no more and
\* no less.
LEMMA OwnMakesResult ==
  ASSUME job \in Jobs, job.kernel \in Sized, OwnElements(job), CellsApart(job)
  PROVE  WorkMakesResult <=> Made(job) = Wanted(job)
<1> DEFINE All == AllTasks({"acc", "put"})
           Ap == job.kernel = "ap"
           Cover(x) == {id \in All : x \in Cells(job, TaskAt(id))}
<1>1. ASSUME NEW c \in Cores, NEW p \in DOMAIN Program[job][c]
      PROVE  <<c, p>> \in All /\ TaskAt(<<c, p>>) = Program[job][c][p]
  BY DEF OwnElements, OwnTask, Cores, AllTasks, TasksOf, TaskAt
<1>a. ASSUME NEW id \in All
      PROVE  /\ Ap => TaskAt(id).cols = Whole /\ TaskAt(id).ks = Whole
                      /\ Cells(job, TaskAt(id)) = TaskAt(id).rows
             /\ ~Ap => TaskAt(id).rows = {0} /\ TaskAt(id).ks = {0}
                      /\ Cells(job, TaskAt(id)) = TaskAt(id).cols
  <2>1. PICK c, p : c \in Cores /\ p \in DOMAIN Program[job][c] /\ id = <<c, p>>
    BY DEF AllTasks, TasksOf
  <2>2. OwnTask(job, TaskAt(id))
    BY <1>1, <2>1 DEF OwnElements, Cores
  <2> QED
    BY <2>2 DEF OwnTask, Cells
<1>2. ASSUME NEW id \in All
      PROVE  \E c, p : c \in Cores /\ p \in DOMAIN Program[job][c] /\ id = <<c, p>>
  BY DEF AllTasks, TasksOf
<1>3. \A x : x \in Made(job) <=> Cover(x) # {}
  <2>1. ASSUME NEW x, x \in Made(job) PROVE Cover(x) # {}
    <3>1. PICK c, p : c \in Cores /\ p \in DOMAIN Program[job][c] /\ x \in Cells(job, Program[job][c][p])
      BY <2>1 DEF Made, Cores
    <3> QED
      BY <1>1, <3>1
  <2>2. ASSUME NEW x, NEW id \in Cover(x) PROVE x \in Made(job)
    <3>1. PICK c, p : c \in Cores /\ p \in DOMAIN Program[job][c] /\ id = <<c, p>>
      BY <1>2
    <3> QED
      BY <1>1, <3>1 DEF Made, Cores
  <2> QED
    BY <2>1, <2>2
<1>4. ASSUME NEW x, NEW id \in Cover(x), NEW jd \in Cover(x) PROVE id = jd
  <2>1. PICK c, p : c \in Cores /\ p \in DOMAIN Program[job][c] /\ id = <<c, p>>
    BY <1>2
  <2>2. PICK d, q : d \in Cores /\ q \in DOMAIN Program[job][d] /\ jd = <<d, q>>
    BY <1>2
  <2>3. Cells(job, Program[job][c][p]) \cap Cells(job, Program[job][d][q]) # {}
    BY <1>1, <2>1, <2>2
  <2> QED
    BY <2>1, <2>2, <2>3 DEF CellsApart, Cores
<1>5. \A x : Cover(x) # {} <=> Cardinality(Cover(x)) = 1
  <2>1. ASSUME NEW x, NEW id \in Cover(x) PROVE Cardinality(Cover(x)) = 1
    <3>1. Cover(x) = {id}
      BY <1>4
    <3> QED
      BY <3>1, FS_Singleton
  <2>2. ASSUME NEW x, Cover(x) = {} PROVE Cardinality(Cover(x)) # 1
    BY <2>2, FS_EmptySet
  <2> QED
    BY <2>1, <2>2
<1>6. /\ Ap => Goal[job].rows = Whole /\ Goal[job].cols = Whole /\ Goal[job].ks = Whole
               /\ Wanted(job) = Whole
      /\ ~Ap => Goal[job].rows = {0} /\ Goal[job].cols = 0 .. job.size - 1
               /\ Goal[job].ks = {0} /\ Wanted(job) = 0 .. job.size - 1
      /\ 0 \in Whole
  <2>1. /\ Goal[job].rows = IF Ap THEN Whole ELSE {0}
        /\ Goal[job].cols = IF Ap THEN Whole ELSE 0 .. job.size - 1
        /\ Goal[job].ks = IF Ap THEN Whole ELSE {0}
    BY SizedJobs
  <2>2. 0 \in Whole
    BY DEF Whole, LDA
  <2> QED
    BY <2>1, <2>2 DEF Wanted
<1>7. InBounds(All) <=> Made(job) \subseteq Wanted(job)
  <2>1. InBounds(All) <=> \A id \in All : Cells(job, TaskAt(id)) \subseteq Wanted(job)
    <3>1. CASE Ap
      BY <1>6, <1>a, <3>1 DEF InBounds
    <3>2. CASE ~Ap
      BY <1>6, <1>a, <3>2 DEF InBounds
    <3> QED
      BY <3>1, <3>2
  <2>2. (\A id \in All : Cells(job, TaskAt(id)) \subseteq Wanted(job))
          <=> (\A x : Cover(x) # {} => x \in Wanted(job))
    OBVIOUS
  <2> QED
    BY <1>3, <2>1, <2>2
<1>8. ASSUME NEW row \in Goal[job].rows, NEW col \in Goal[job].cols, NEW k \in Goal[job].ks
      PROVE  /\ Ap => {id \in InColumn(InRow(All, row), col) : k \in TaskAt(id).ks} = Cover(row)
             /\ ~Ap => {id \in InColumn(InRow(All, row), col) : k \in TaskAt(id).ks} = Cover(col)
  BY <1>6, <1>a DEF InColumn, InRow
<1>9. (\A ids \in Contributors(All) : SumComplete(ids)) <=> Wanted(job) \subseteq Made(job)
  <2> DEFINE Adds(row, col, k) == {id \in InColumn(InRow(All, row), col) : k \in TaskAt(id).ks}
  <2>1. (\A ids \in Contributors(All) : SumComplete(ids))
          <=> \A row \in Goal[job].rows : \A col \in Goal[job].cols : \A k \in Goal[job].ks :
                Cardinality(Adds(row, col, k)) = 1
    <3>1. \A ids : ids \in Contributors(All)
            <=> \E row \in Goal[job].rows : \E col \in Goal[job].cols :
                  ids = InColumn(InRow(All, row), col)
      BY DEF Contributors
    <3> HIDE DEF All
    <3>2. (\A ids \in Contributors(All) : SumComplete(ids))
            <=> \A row \in Goal[job].rows : \A col \in Goal[job].cols :
                  SumComplete(InColumn(InRow(All, row), col))
      BY <3>1
    <3> QED
      BY <3>2 DEF SumComplete
  <2>2. (\A row \in Goal[job].rows : \A col \in Goal[job].cols : \A k \in Goal[job].ks :
           Cardinality(Adds(row, col, k)) = 1)
          <=> \A x \in Wanted(job) : Cover(x) # {}
    <3>0. \A row \in Goal[job].rows : \A col \in Goal[job].cols : \A k \in Goal[job].ks :
            /\ Ap => Adds(row, col, k) = Cover(row)
            /\ ~Ap => Adds(row, col, k) = Cover(col)
      BY <1>8
    <3> HIDE DEF Adds, Cover, All
    <3>1. CASE Ap
      <4>1. (\A row \in Whole : \A col \in Whole : \A k \in Whole :
               Cardinality(Adds(row, col, k)) = 1)
              <=> \A row \in Whole : \A col \in Whole : \A k \in Whole : Cover(row) # {}
        BY <1>5, <1>6, <3>0, <3>1
      <4> QED
        BY <1>6, <3>1, <4>1
    <3>2. CASE ~Ap
      <4>1. (\A row \in {0} : \A col \in 0 .. job.size - 1 : \A k \in {0} :
               Cardinality(Adds(row, col, k)) = 1)
              <=> \A col \in 0 .. job.size - 1 : Cover(col) # {}
        BY <1>5, <1>6, <3>0, <3>2
      <4> QED
        BY <1>6, <3>2, <4>1
    <3> QED
      BY <3>1, <3>2
  <2> QED
    BY <1>3, <2>1, <2>2
<1> QED
  BY <1>7, <1>9 DEF WorkMakesResult, Complete

----------------------------------------------------------------------------
(* Jobs whose tasks lie in turn, w elements each: vvadd1, vvadd2, vvadd4. *)

\* The program of core c when a turn of its loop makes m tasks.
Dealt(j, c, w, m) ==
  Strided(w * c, w * j.n, m * Trips(w * c, j.size, m * (w * j.n)),
          [i \in Int |-> Sum(i .. i + w - 1)])

DealtJob(j, w, m) ==
  /\ j.kernel # "ap"
  /\ j.n \in Nat \ {0} /\ j.size \in Nat /\ w \in Nat \ {0} /\ m \in {1, 2}
  /\ Program[j] = [c \in 0 .. j.n - 1 |-> Dealt(j, c, w, m)]

\* The groups of w elements are numbered; core c's p-th task has number
\* c + (p - 1) * n.
LEMMA DealtTask ==
  ASSUME NEW j, NEW w, NEW m, DealtJob(j, w, m), NEW c \in DOMAIN Program[j]
  PROVE  /\ c \in 0 .. j.n - 1
         /\ DOMAIN Program[j][c] = 1 .. m * Trips(w * c, j.size, m * (w * j.n))
         /\ Trips(w * c, j.size, m * (w * j.n)) \in Nat
         /\ \A p \in DOMAIN Program[j][c] :
              LET g == c + (p - 1) * j.n
              IN /\ p \in Nat /\ p - 1 \in Nat /\ g \in Nat
                 /\ Program[j][c][p] = Sum(w * g .. w * g + w - 1)
                 /\ Cells(j, Program[j][c][p]) = w * g .. w * g + w - 1
<1> DEFINE n == j.n
           last == m * Trips(w * c, j.size, m * (w * n))
<1>1. c \in 0 .. n - 1 /\ Program[j][c] = Dealt(j, c, w, m)
  BY DEF DealtJob
<1>2. n \in Nat \ {0} /\ w \in Nat \ {0} /\ m \in {1, 2} /\ j.size \in Int
  BY DEF DealtJob
<1>3. w * c \in Int /\ w * n \in Nat \ {0} /\ m * (w * n) \in Nat \ {0}
  BY <1>1, <1>2
<1>4. Trips(w * c, j.size, m * (w * n)) \in Nat
  BY <1>2, <1>3, TripsCount
<1>5. DOMAIN Program[j][c] = 1 .. last
  BY <1>1 DEF Dealt, Strided
<1>6. ASSUME NEW p \in 1 .. last
      PROVE  LET g == c + (p - 1) * n
             IN /\ p \in Nat /\ p - 1 \in Nat /\ g \in Nat
                /\ Program[j][c][p] = Sum(w * g .. w * g + w - 1)
                /\ Cells(j, Program[j][c][p]) = w * g .. w * g + w - 1
  <2> DEFINE g == c + (p - 1) * n
             x == w * c + (p - 1) * (w * n)
  <2>1. last \in Nat /\ p \in Nat /\ p - 1 \in Nat
    BY <1>2, <1>4
  <2>2. (p - 1) * n \in Nat /\ g \in Nat
    BY <1>1, <1>2, <2>1
  <2>3. x = w * g /\ x \in Int
    BY <1>1, <1>2, <2>1
  <2>4. Program[j][c][p] = Sum(x .. x + w - 1)
    <3>1. Program[j][c][p] = [i \in Int |-> Sum(i .. i + w - 1)][x]
      BY <1>1 DEF Dealt, Strided
    <3> HIDE DEF x
    <3> QED
      BY <2>3, <3>1
  <2> HIDE DEF x, g
  <2>5. Program[j][c][p] = Sum(w * g .. w * g + w - 1)
    BY <2>3, <2>4
  <2>6. Cells(j, Program[j][c][p]) = w * g .. w * g + w - 1
    BY <2>5 DEF Cells, Sum, DealtJob
  <2> QED
    BY <2>1, <2>2, <2>5, <2>6 DEF g
<1> QED
  BY <1>1, <1>4, <1>5, <1>6

LEMMA DealtIsOwn ==
  ASSUME NEW j, NEW w, NEW m, DealtJob(j, w, m)
  PROVE  OwnElements(j) /\ CellsApart(j)
<1>1. OwnElements(j)
  <2>1. ASSUME NEW c \in DOMAIN Program[j], NEW p \in DOMAIN Program[j][c]
        PROVE  OwnTask(j, Program[j][c][p])
    <3>1. \E cols : Program[j][c][p] = Sum(cols)
      BY DealtTask
    <3> QED
      BY <3>1 DEF OwnTask, Sum, DealtJob
  <2> QED
    BY <2>1 DEF OwnElements
<1>2. ASSUME NEW a \in DOMAIN Program[j], NEW b \in DOMAIN Program[j],
             NEW p \in DOMAIN Program[j][a], NEW q \in DOMAIN Program[j][b],
             NEW e \in Cells(j, Program[j][a][p]), e \in Cells(j, Program[j][b][q])
      PROVE  a = b /\ p = q
  <2> DEFINE g == a + (p - 1) * j.n
             h == b + (q - 1) * j.n
  <2>1. /\ j.n \in Nat \ {0} /\ w \in Nat \ {0} /\ a \in 0 .. j.n - 1 /\ b \in 0 .. j.n - 1
        /\ p - 1 \in Nat /\ q - 1 \in Nat /\ g \in Nat /\ h \in Nat
    BY DealtTask DEF DealtJob
  <2>2. /\ Cells(j, Program[j][a][p]) = w * g .. w * g + w - 1
        /\ Cells(j, Program[j][b][q]) = w * h .. w * h + w - 1
    BY DealtTask
  <2>3. g = h
    <3> HIDE DEF g, h
    <3>1. w * g \in Int /\ w * h \in Int
      BY <2>1
    <3>2. e \in w * g .. w * g + w - 1 /\ e \in w * h .. w * h + w - 1
      BY <1>2, <2>2
    <3>3. /\ w * g + (e - w * g) = w * h + (e - w * h)
          /\ e - w * g \in Int /\ 0 <= e - w * g /\ e - w * g < w
          /\ e - w * h \in Int /\ 0 <= e - w * h /\ e - w * h < w
      BY <2>1, <3>1, <3>2
    <3> QED
      BY <2>1, <3>3, QuotientUnique
  <2>4. j.n * (p - 1) + a = j.n * (q - 1) + b
    BY <2>1, <2>3
  <2>5. p - 1 = q - 1 /\ a = b
    BY <2>1, <2>4, QuotientUnique
  <2>6. p \in Nat /\ q \in Nat
    BY DealtTask
  <2> QED
    BY <2>5, <2>6
<1>3. CellsApart(j)
  BY <1>2 DEF CellsApart
<1> QED
  BY <1>1, <1>3

\* Everything is covered, whatever the size.
LEMMA DealtCovers ==
  ASSUME NEW j, NEW w, NEW m, DealtJob(j, w, m), NEW e \in 0 .. j.size - 1
  PROVE  e \in Made(j)
<1> DEFINE n == j.n
           g == e \div w
           c == g % n
           u == g \div n
           t == u \div m
<1>1. n \in Nat \ {0} /\ w \in Nat \ {0} /\ m \in {1, 2} /\ j.size \in Nat /\ e \in Nat
      /\ e < j.size
  BY DEF DealtJob
<1>2. g \in Nat /\ e % w \in Nat /\ e = w * g + (e % w) /\ e % w < w
  BY <1>1, DivMod
<1>3. g \in Nat
  BY <1>2
<1>4. u \in Nat /\ c \in Nat /\ g = n * u + c /\ c < n
  <2> HIDE DEF g, n
  <2>1. /\ g \div n \in Nat /\ g % n \in Nat
        /\ g = n * (g \div n) + (g % n) /\ g % n < n
    BY <1>1, <1>3, DivMod
  <2> QED
    BY <2>1
<1>5. u \in Nat
  BY <1>4
<1>6. t \in Nat /\ m * t <= u /\ u < m * (t + 1)
  <2> HIDE DEF u
  <2> QED
    BY <1>1, <1>5
<1> HIDE DEF g, c, u, t
<1> DEFINE turns == Trips(w * c, j.size, m * (w * n))
<1>7. t < turns /\ turns \in Nat
  <2>1. w * n \in Nat \ {0} /\ m * (w * n) \in Nat \ {0} /\ w * c \in Int
    BY <1>1, <1>4
  <2>2. (w * n) * (m * t) <= (w * n) * u
    <3>1. m * t \in Int
      BY <1>1, <1>6
    <3> QED
      BY <1>5, <1>6, <2>1, <3>1, ProductGrows
  <2>3. (w * n) * u + w * c = w * g
    BY <1>1, <1>4, <1>5
  <2>4. t * (m * (w * n)) = (w * n) * (m * t) /\ (w * n) * (m * t) \in Int
    BY <1>1, <1>6
  <2>5. (w * n) * u \in Int /\ w * g \in Int
    BY <1>1, <1>3, <1>5
  <2>6. w * c + t * (m * (w * n)) < j.size
    BY <1>1, <1>2, <2>1, <2>2, <2>3, <2>4, <2>5
  <2> DEFINE step == m * (w * n)
             lo == w * c
             size == j.size
  <2>7. step \in Nat \ {0} /\ lo \in Int /\ size \in Int /\ lo + t * step < size
    BY <1>1, <2>1, <2>6
  <2> HIDE DEF step, lo, size, turns
  <2>8. Trips(lo, size, step) \in Nat /\ (t < Trips(lo, size, step) <=> lo + t * step < size)
    BY <1>6, <2>7, TripsCount
  <2> QED
    BY <2>7, <2>8 DEF step, lo, size, turns
<1>8. m * (t + 1) <= m * turns
  BY <1>1, <1>6, <1>7, ProductGrows
<1>9. u + 1 \in 1 .. m * turns
  <2>1. m * (t + 1) \in Int /\ m * turns \in Int
    BY <1>1, <1>6, <1>7
  <2> QED
    BY <1>5, <1>6, <1>8, <2>1
<1>10. c \in DOMAIN Program[j]
  BY <1>1, <1>4 DEF DealtJob
<1>11. u + 1 \in DOMAIN Program[j][c]
  BY <1>9, <1>10, DealtTask
<1>12. Cells(j, Program[j][c][u + 1]) = w * g .. w * g + w - 1
  <2>1. c + ((u + 1) - 1) * n = g
    BY <1>1, <1>4, <1>5
  <2>2. LET k == c + ((u + 1) - 1) * n
        IN  Cells(j, Program[j][c][u + 1]) = w * k .. w * k + w - 1
    BY <1>10, <1>11, DealtTask
  <2> QED
    BY <2>1, <2>2
<1>13. e \in w * g .. w * g + w - 1
  <2>1. w * g \in Int
    BY <1>1, <1>3
  <2> QED
    BY <1>1, <1>2, <2>1
<1> QED
  BY <1>10, <1>11, <1>12, <1>13, InMade

\* With one element in a turn nothing beyond the size is written.
LEMMA SinglesFit ==
  ASSUME NEW j, DealtJob(j, 1, 1)
  PROVE  Made(j) = Wanted(j)
<1>1. Wanted(j) = 0 .. j.size - 1 /\ j.n \in Nat \ {0} /\ j.size \in Nat
  BY DEF Wanted, DealtJob
<1>2. ASSUME NEW e \in Made(j) PROVE e \in 0 .. j.size - 1
  <2>1. PICK c \in DOMAIN Program[j] : \E p \in DOMAIN Program[j][c] :
          e \in Cells(j, Program[j][c][p])
    BY InMade
  <2>2. PICK p \in DOMAIN Program[j][c] : e \in Cells(j, Program[j][c][p])
    BY <2>1
  <2> DEFINE g == c + (p - 1) * j.n
             size == j.size
             step == 1 * (1 * j.n)
             lo == 1 * c
  <2>3. /\ c \in 0 .. j.n - 1 /\ p \in Nat /\ p - 1 \in Nat /\ g \in Nat
        /\ Cells(j, Program[j][c][p]) = 1 * g .. 1 * g + 1 - 1
    BY DealtTask
  <2>4. e = g
    <3> HIDE DEF g
    <3> QED
      BY <2>2, <2>3
  <2>5. p \in 1 .. 1 * Trips(lo, size, step) /\ Trips(lo, size, step) \in Nat
    BY DealtTask
  <2>6. step \in Nat \ {0} /\ lo \in Int /\ size \in Int /\ lo + (p - 1) * step = g
    BY <1>1, <2>3
  <2> HIDE DEF g, step, lo, size
  <2>7. p - 1 < Trips(lo, size, step)
    BY <2>3, <2>5
  <2>8. lo + (p - 1) * step < size
    BY <2>3, <2>6, <2>7, TripsCount
  <2> QED
    BY <1>1, <2>3, <2>4, <2>6, <2>8 DEF size
<1> QED
  BY <1>1, <1>2, DealtCovers

\* With two groups in a turn the size has to be whole turns of all the cores:
\* in the last turn some core's second group is beyond it.
LEMMA PairsFit ==
  ASSUME NEW j, NEW w, DealtJob(j, w, 2)
  PROVE  Made(j) = Wanted(j) <=> j.size % (2 * (w * j.n)) = 0
<1> DEFINE n == j.n
           size == j.size
           all == 2 * (w * n)
           M == size \div all
           s == size % all
<1>1. Wanted(j) = 0 .. size - 1 /\ n \in Nat \ {0} /\ size \in Nat /\ w \in Nat \ {0}
  BY DEF Wanted, DealtJob
<1>2. w * n \in Nat \ {0} /\ all \in Nat \ {0}
  BY <1>1
<1>3. M \in Nat /\ s \in Nat /\ size = all * M + s /\ s < all
  <2> HIDE DEF all, size
  <2>1. /\ size \div all \in Nat /\ size % all \in Nat
        /\ size = all * (size \div all) + (size % all) /\ size % all < all
    BY <1>1, <1>2, DivMod
  <2> QED
    BY <2>1
<1> HIDE DEF M, s, size
<1>4. M \in Nat
  BY <1>3
<1>5. ASSUME NEW c \in 0 .. n - 1
      PROVE  /\ c \in DOMAIN Program[j]
             /\ DOMAIN Program[j][c] = 1 .. 2 * Trips(w * c, size, all)
             /\ Trips(w * c, size, all) \in Nat
             /\ \A t \in Nat : t < Trips(w * c, size, all) <=> w * c + t * all < size
  <2>1. c \in DOMAIN Program[j]
    BY DEF DealtJob
  <2>2. DOMAIN Program[j][c] = 1 .. 2 * Trips(w * c, size, all)
    BY <2>1, DealtTask DEF size
  <2> DEFINE lo == w * c
  <2>3. lo \in Int
    BY <1>1
  <2>a. size \in Int /\ all \in Nat \ {0}
    BY <1>1, <1>2
  <2> HIDE DEF lo, all, n
  <2>4. Trips(lo, size, all) \in Nat /\ \A t \in Nat : t < Trips(lo, size, all) <=> lo + t * all < size
    BY <2>3, <2>a, TripsCount
  <2> QED
    BY <2>1, <2>2, <2>4 DEF lo
<1>6. ASSUME s = 0, NEW e \in Made(j) PROVE e \in 0 .. size - 1
  <2>1. PICK c \in DOMAIN Program[j] : \E p \in DOMAIN Program[j][c] :
          e \in Cells(j, Program[j][c][p])
    BY InMade
  <2>2. PICK p \in DOMAIN Program[j][c] : e \in Cells(j, Program[j][c][p])
    BY <2>1
  <2> DEFINE g == c + (p - 1) * n
             T == Trips(w * c, size, all)
             t == (p - 1) \div 2
  <2>3. /\ c \in 0 .. n - 1 /\ p \in Nat /\ p - 1 \in Nat /\ g \in Nat
        /\ Cells(j, Program[j][c][p]) = w * g .. w * g + w - 1
    BY DealtTask
  <2>4. p \in 1 .. 2 * T /\ T \in Nat /\ \A i \in Nat : i < T <=> w * c + i * all < size
    BY <1>5, <2>3
  <2> HIDE DEF T
  <2>5. t \in Nat /\ p - 1 <= 2 * t + 1 /\ t < T
    BY <2>3, <2>4
  <2> HIDE DEF t
  <2>6. w * c + t * all < all * M
    <3>1. w * c + t * all < size
      BY <2>4, <2>5
    <3>2. size = all * M
      <4> HIDE DEF all
      <4> QED
        BY <1>2, <1>3, <1>6
    <3> QED
      BY <3>1, <3>2
  <2>7. w * g + w - 1 < all * M
    <3> DEFINE i == p - 1
    <3>1. i \in Nat /\ i <= 2 * t + 1
      BY <2>3, <2>5
    <3> HIDE DEF i, n
    <3>2. w * (c + i * n) + w - 1 < (2 * (w * n)) * M
      BY <1>1, <1>3, <2>3, <2>5, <2>6, <3>1, TurnFits
    <3> QED
      BY <3>2 DEF i
  <2>8. size = all * M /\ size \in Nat
    <3> HIDE DEF all
    <3> QED
      BY <1>1, <1>2, <1>3, <1>6
  <2> DEFINE x == w * g
  <2>a. e \in x .. x + w - 1
    BY <2>2, <2>3
  <2>b. x \in Nat
    BY <1>1, <2>3
  <2>c. x + w - 1 < all * M
    BY <2>7
  <2> HIDE DEF g
  <2>9. x \in Nat /\ e \in x .. x + w - 1 /\ x + w - 1 < size
    <3> HIDE DEF x, all
    <3> QED
      BY <2>8, <2>a, <2>b, <2>c
  <2> HIDE DEF x
  <2> QED
    BY <1>1, <2>8, <2>9
<1>7. ASSUME s # 0 PROVE \E e \in Made(j) : e \notin 0 .. size - 1
  <2>1. PICK c \in 0 .. n - 1 : w * c < s /\ s <= w * c + w * n + w - 1
    BY <1>1, <1>3, <1>7, SomeCoreOverruns
  <2> DEFINE p == 2 * M + 2
             g == c + (p - 1) * n
             e == w * g + w - 1
  <2>2. M < Trips(w * c, size, all)
    <3>1. w * c + M * all < size
      <4>1. M * all = all * M /\ all * M \in Int /\ w * c \in Int
        BY <1>1, <1>2, <1>4
      <4> HIDE DEF all
      <4> QED
        BY <1>3, <2>1, <4>1
    <3> QED
      BY <1>4, <1>5, <3>1
  <2>3. p \in DOMAIN Program[j][c]
    <3>1. Trips(w * c, size, all) \in Nat /\ DOMAIN Program[j][c] = 1 .. 2 * Trips(w * c, size, all)
      BY <1>5
    <3> QED
      BY <1>4, <2>2, <3>1
  <2>4. g \in Nat /\ Cells(j, Program[j][c][p]) = w * g .. w * g + w - 1
    <3>1. c \in DOMAIN Program[j]
      BY <1>5
    <3> HIDE DEF p
    <3> QED
      BY <2>3, <3>1, DealtTask
  <2>5. e \in Cells(j, Program[j][c][p])
    <3> HIDE DEF g, p
    <3>1. w * g \in Int
      BY <1>1, <2>4
    <3> QED
      BY <1>1, <2>4, <3>1
  <2>6. e = all * M + (w * c + w * n + w - 1)
    BY <1>1, <1>4
  <2>7. ~(e <= size - 1)
    <3> DEFINE x == all * M
               y == w * c + w * n + w - 1
    <3>a. s <= y /\ e = x + y
      BY <2>1, <2>6
    <3>b. y \in Int
      <4>1. w * c \in Int /\ w * n \in Int
        BY <1>1
      <4> QED
        BY <1>1, <4>1
    <3>c. x \in Int /\ size = x + s
      <4> HIDE DEF all
      <4> QED
        BY <1>2, <1>3
    <3>1. x \in Int /\ y \in Int /\ s <= y /\ e = x + y /\ size = x + s
      BY <3>a, <3>b, <3>c
    <3> HIDE DEF e, x, y
    <3> QED
      BY <1>3, <3>1
  <2>8. e \in Made(j)
    <3>1. c \in DOMAIN Program[j]
      BY <1>5
    <3> HIDE DEF e, p
    <3> QED
      BY <2>3, <2>5, <3>1, InMade
  <2> HIDE DEF e
  <2> QED
    BY <2>7, <2>8
<1>8. Wanted(j) \subseteq Made(j)
  BY <1>1, DealtCovers DEF size
<1>9. Made(j) = Wanted(j) <=> s = 0
  BY <1>1, <1>6, <1>7, <1>8
<1> QED
  BY <1>9 DEF s, size

----------------------------------------------------------------------------
(* Jobs whose cores take a block each: vvadd3 and ap_matmul. *)

LEMMA BlockOfOnes ==
  ASSUME NEW lo \in Int, NEW k \in Nat
  PROVE  Trips(lo, lo + k, 1) = k
BY DEF Trips

BlockJob(j, n, block) ==
  /\ n \in Nat \ {0} /\ block \in Nat
  /\ DOMAIN Program[j] = 0 .. n - 1
  /\ \A c \in 0 .. n - 1 :
       /\ DOMAIN Program[j][c] = 1 .. block
       /\ \A p \in 1 .. block : Cells(j, Program[j][c][p]) = {c * block + (p - 1)}

LEMMA BlocksApart ==
  ASSUME NEW j, NEW n, NEW block, BlockJob(j, n, block)
  PROVE  CellsApart(j)
<1> SUFFICES ASSUME NEW a \in DOMAIN Program[j], NEW b \in DOMAIN Program[j],
                    NEW p \in DOMAIN Program[j][a], NEW q \in DOMAIN Program[j][b],
                    Cells(j, Program[j][a][p]) \cap Cells(j, Program[j][b][q]) # {}
    PROVE  a = b /\ p = q
  BY DEF CellsApart
<1>0. /\ Cells(j, Program[j][a][p]) = {a * block + (p - 1)}
      /\ Cells(j, Program[j][b][q]) = {b * block + (q - 1)}
  BY DEF BlockJob
<1>1. a * block + (p - 1) = b * block + (q - 1)
  BY <1>0
<1>2. /\ a \in Int /\ b \in Int /\ p - 1 \in Nat /\ q - 1 \in Nat /\ block \in Nat \ {0}
      /\ p - 1 < block /\ q - 1 < block /\ p \in Int /\ q \in Int
  BY DEF BlockJob
<1>3. block * a + (p - 1) = block * b + (q - 1)
  BY <1>1, <1>2
<1>4. a = b /\ p - 1 = q - 1
  BY <1>2, <1>3, QuotientUnique
<1> QED
  BY <1>2, <1>4

\* The place of an element of n blocks, and that it is one of them.
LEMMA InBlocks ==
  ASSUME NEW n \in Nat \ {0}, NEW block \in Nat, NEW e \in Int
  PROVE  e \in 0 .. n * block - 1 <=>
           \E c \in 0 .. n - 1 : \E p \in 1 .. block : e = c * block + (p - 1)
<1>1. ASSUME e \in 0 .. n * block - 1
      PROVE  \E c \in 0 .. n - 1 : \E p \in 1 .. block : e = c * block + (p - 1)
  <2>1. block \in Nat \ {0} /\ e \in Nat
    <3>1. CASE block = 0
      BY <1>1, <3>1
    <3> QED
      BY <1>1, <3>1
  <2> DEFINE c == e \div block
             r == e % block
  <2>2. c \in Nat /\ r \in Nat /\ e = block * c + r /\ r < block
    BY <2>1, DivMod
  <2> HIDE DEF c, r
  <2>3. c < n
    <3>1. CASE n <= c
      <4>1. block * n <= block * c
        BY <2>2, <3>1, ProductGrows
      <4> DEFINE x == block * n
                 y == block * c
      <4>2. x \in Int /\ y \in Int /\ e = y + r /\ e < x /\ x <= y
        BY <1>1, <2>2, <4>1
      <4> HIDE DEF x, y
      <4> QED
        BY <2>2, <4>2
    <3> QED
      BY <2>2, <3>1
  <2>4. c \in 0 .. n - 1 /\ r + 1 \in 1 .. block /\ e = c * block + ((r + 1) - 1)
    BY <2>2, <2>3
  <2> QED
    BY <2>4
<1>2. ASSUME NEW c \in 0 .. n - 1, NEW p \in 1 .. block, e = c * block + (p - 1)
      PROVE  e \in 0 .. n * block - 1
  <2>1. block * (c + 1) <= block * n
    BY ProductGrows
  <2> DEFINE x == block * c
             y == n * block
  <2>2. x \in Nat /\ y \in Int /\ e = x + (p - 1) /\ x + block <= y
    BY <1>2, <2>1
  <2> HIDE DEF x, y
  <2>3. 0 <= e /\ e <= y - 1
    BY <2>2
  <2> QED
    BY <2>3 DEF y
<1> QED
  BY <1>1, <1>2

LEMMA BlocksMade ==
  ASSUME NEW j, NEW n, NEW block, BlockJob(j, n, block)
  PROVE  Made(j) = 0 .. n * block - 1
<1>1. n \in Nat \ {0} /\ block \in Nat
  BY DEF BlockJob
<1>2. ASSUME NEW e
      PROVE  e \in Made(j) <=>
               \E c \in 0 .. n - 1 : \E p \in 1 .. block : e = c * block + (p - 1)
  <2>1. ASSUME NEW c \in 0 .. n - 1
        PROVE  /\ c \in DOMAIN Program[j] /\ DOMAIN Program[j][c] = 1 .. block
               /\ \A p \in 1 .. block :
                    e \in Cells(j, Program[j][c][p]) <=> e = c * block + (p - 1)
    <3>1. /\ DOMAIN Program[j][c] = 1 .. block /\ DOMAIN Program[j] = 0 .. n - 1
          /\ \A p \in 1 .. block : Cells(j, Program[j][c][p]) = {c * block + (p - 1)}
      BY Zenon DEF BlockJob
    <3>2. ASSUME NEW p \in 1 .. block
          PROVE  e \in Cells(j, Program[j][c][p]) <=> e = c * block + (p - 1)
      BY <3>1, Zenon
    <3> QED
      BY <3>1, <3>2, Zenon
  <2>2. DOMAIN Program[j] = 0 .. n - 1
    BY DEF BlockJob
  <2>3. ASSUME e \in Made(j)
        PROVE  \E c \in 0 .. n - 1 : \E p \in 1 .. block : e = c * block + (p - 1)
    <3>1. PICK c \in 0 .. n - 1 : \E p \in DOMAIN Program[j][c] : e \in Cells(j, Program[j][c][p])
      BY <2>2, <2>3, InMade
    <3>2. PICK p \in 1 .. block : e \in Cells(j, Program[j][c][p])
      BY <2>1, <3>1
    <3>3. e = c * block + (p - 1)
      BY <2>1, <3>2
    <3> QED
      BY <3>3
  <2>4. ASSUME NEW c \in 0 .. n - 1, NEW p \in 1 .. block, e = c * block + (p - 1)
        PROVE  e \in Made(j)
    <3>1. c \in DOMAIN Program[j] /\ p \in DOMAIN Program[j][c] /\ e \in Cells(j, Program[j][c][p])
      BY <2>1, <2>4
    <3> QED
      BY <3>1, InMade
  <2> QED
    BY <2>3, <2>4
<1>3. ASSUME NEW e \in Made(j) PROVE e \in Int
  <2>1. PICK c \in 0 .. n - 1 : \E p \in 1 .. block : e = c * block + (p - 1)
    BY <1>2
  <2> QED
    BY <1>1, <2>1
<1>4. ASSUME NEW e \in Int PROVE e \in Made(j) <=> e \in 0 .. n * block - 1
  <2> DEFINE There == \E c \in 0 .. n - 1 : \E p \in 1 .. block : e = c * block + (p - 1)
             All == 0 .. n * block - 1
  <2>1. e \in Made(j) <=> There
    BY <1>2
  <2>2. e \in All <=> There
    BY <1>1, InBlocks
  <2> HIDE DEF There, All
  <2>3. e \in Made(j) <=> e \in All
    BY <2>1, <2>2
  <2> QED
    BY <2>3 DEF All
<1>5. \A e : e \in 0 .. n * block - 1 => e \in Int
  OBVIOUS
<1> QED
  BY <1>3, <1>4, <1>5

\* The blocks make up all the elements when none are left over.
LEMMA BlocksFit ==
  ASSUME NEW n \in Nat \ {0}, NEW size \in Nat
  PROVE  0 .. n * (size \div n) - 1 = 0 .. size - 1 <=> size % n = 0
<1> DEFINE b == size \div n
           r == size % n
           x == n * b
<1>1. b \in Nat /\ r \in Nat /\ size = n * b + r
  BY DivMod
<1>2. x \in Nat /\ size = x + r
  BY <1>1
<1> HIDE DEF b, r, x
<1>3. ASSUME r # 0 PROVE x \in 0 .. size - 1 /\ x \notin 0 .. x - 1
  BY <1>1, <1>2, <1>3
<1>4. 0 .. x - 1 = 0 .. size - 1 <=> r = 0
  BY <1>1, <1>2, <1>3
<1> QED
  BY <1>4 DEF b, r, x

----------------------------------------------------------------------------
(* Each kernel. *)

\* The number of cores and the size of a job, and its program.
LEMMA SizedJob ==
  ASSUME NEW j \in Jobs, j.kernel \in Sized
  PROVE  /\ j.n \in Nat \ {0} /\ j.size \in Nat \ {0} /\ j.n <= j.size
         /\ j.size \div j.n \in Nat \ {0}
         /\ DOMAIN Program[j] = 0 .. j.n - 1
<1>1. j.n \in Nat \ {0} /\ j.size \in Nat /\ j.n <= j.size /\ DOMAIN Program[j] = 0 .. j.n - 1
  BY SizedJobs
<1> DEFINE n == j.n
           size == j.size
           b == size \div n
           r == size % n
<1>2. n \in Nat \ {0} /\ size \in Nat /\ n <= size
  BY <1>1
<1> HIDE DEF n, size
<1>3. b \in Nat /\ size = n * b + r /\ r \in Nat /\ r < n
  BY <1>2, DivMod
<1>4. b \in Nat \ {0} /\ size \in Nat \ {0}
  BY <1>2, <1>3
<1> HIDE DEF b
<1>5. j.size \div j.n \in Nat \ {0} /\ j.size \in Nat \ {0}
  BY <1>4 DEF n, size, b
<1> QED
  BY <1>1, <1>5

LEMMA ProgramOf ==
  ASSUME NEW j \in Jobs, j.kernel \in Sized, NEW c \in 0 .. j.n - 1
  PROVE  /\ j.kernel = "ap" => Program[j][c] = ApMatmul(c, j.n)
         /\ j.kernel = "vvadd0" => Program[j][c] = Vvadd0(c, j.n, j.size)
         /\ j.kernel = "vvadd1" => Program[j][c] = Vvadd1(c, j.n, j.size)
         /\ j.kernel = "vvadd2" => Program[j][c] = Vvadd2(c, j.n, j.size)
         /\ j.kernel = "vvadd3" => Program[j][c] = Vvadd3(c, j.n, j.size)
         /\ j.kernel = "vvadd4" => Program[j][c] = Vvadd4(c, j.n, j.size)
<1>1. Program[j][c] = IF j.kernel = "ap" THEN ApMatmul(c, j.n)
                      ELSE VectorTasks(j.kernel, c, j.n, j.size)
  BY SizedJobs
<1> QED
  BY <1>1 DEF VectorTasks

LEMMA OneElement == [i \in Int |-> Sum({i})] = [i \in Int |-> Sum(i .. i + 1 - 1)]
<1>1. \A i \in Int : i .. i + 1 - 1 = {i}
  OBVIOUS
<1> QED
  BY <1>1

LEMMA Vvadd1Dealt ==
  ASSUME NEW j \in Jobs, j.kernel = "vvadd1"
  PROVE  DealtJob(j, 4, 2)
<1>1. j.kernel \in Sized
  BY DEF Sized, VectorNames
<1>2. j.n \in Nat \ {0} /\ j.size \in Nat /\ DOMAIN Program[j] = 0 .. j.n - 1
  BY <1>1, SizedJob
<1>3. ASSUME NEW c \in 0 .. j.n - 1 PROVE Program[j][c] = Dealt(j, c, 4, 2)
  <2> DEFINE n == j.n
             size == j.size
             lo == c * 4
  <2>1. Program[j][c] = Vvadd1(c, n, size)
    BY <1>1, ProgramOf
  <2>2. n \in Nat \ {0} /\ size \in Int /\ lo \in Int
    BY <1>2
  <2>3. Vvadd1(c, n, size)
          = For(lo, size, 8 * n, LAMBDA i : Add(i .. i + 3) \o Add(i + n * 4 .. i + n * 4 + 3))
    BY DEF Vvadd1
  <2> HIDE DEF n, size, lo
  <2>4. Vvadd1(c, n, size)
          = Strided(lo, 4 * n, 2 * Trips(lo, size, 8 * n), [i \in Int |-> Sum(i .. i + 3)])
    BY <2>2, <2>3, QuadAdds
  <2>5. lo = 4 * c /\ 8 * n = 2 * (4 * n)
    BY <2>2 DEF lo
  <2>6. [i \in Int |-> Sum(i .. i + 3)] = [i \in Int |-> Sum(i .. i + 4 - 1)]
    <3>1. \A i \in Int : i + 4 - 1 = i + 3
      OBVIOUS
    <3> QED
      BY <3>1
  <2> QED
    BY <2>1, <2>4, <2>5, <2>6 DEF Dealt, n, size
<1>4. Program[j] = [c \in 0 .. j.n - 1 |-> Dealt(j, c, 4, 2)]
  <2>1. Program[j] = [c \in 0 .. j.n - 1 |-> Program[j][c]]
    BY <1>1, SizedJobs
  <2> QED
    BY <1>3, <2>1
<1> QED
  BY <1>2, <1>4 DEF DealtJob

LEMMA Vvadd2Dealt ==
  ASSUME NEW j \in Jobs, j.kernel = "vvadd2"
  PROVE  DealtJob(j, 1, 2)
<1>1. j.kernel \in Sized
  BY DEF Sized, VectorNames
<1>2. j.n \in Nat \ {0} /\ j.size \in Nat /\ DOMAIN Program[j] = 0 .. j.n - 1
  BY <1>1, SizedJob
<1>3. ASSUME NEW c \in 0 .. j.n - 1 PROVE Program[j][c] = Dealt(j, c, 1, 2)
  <2> DEFINE n == j.n
             size == j.size
  <2>1. Program[j][c] = Vvadd2(c, n, size)
    BY <1>1, ProgramOf
  <2>2. n \in Nat \ {0} /\ size \in Int /\ c \in Int
    BY <1>2
  <2>3. Vvadd2(c, n, size) = For(c, size, 2 * n, LAMBDA i : Add({i}) \o Add({i + n}))
    BY DEF Vvadd2
  <2> HIDE DEF n, size
  <2>4. Vvadd2(c, n, size) = Strided(c, n, 2 * Trips(c, size, 2 * n), [i \in Int |-> Sum({i})])
    BY <2>2, <2>3, PairAdds
  <2>5. c = 1 * c /\ n = 1 * n
    BY <2>2
  <2> QED
    BY <2>1, <2>4, <2>5, OneElement DEF Dealt, n, size
<1>4. Program[j] = [c \in 0 .. j.n - 1 |-> Dealt(j, c, 1, 2)]
  <2>1. Program[j] = [c \in 0 .. j.n - 1 |-> Program[j][c]]
    BY <1>1, SizedJobs
  <2> QED
    BY <1>3, <2>1
<1> QED
  BY <1>2, <1>4 DEF DealtJob

LEMMA Vvadd4Dealt ==
  ASSUME NEW j \in Jobs, j.kernel = "vvadd4"
  PROVE  DealtJob(j, 1, 1)
<1>1. j.kernel \in Sized
  BY DEF Sized, VectorNames
<1>2. j.n \in Nat \ {0} /\ j.size \in Nat /\ DOMAIN Program[j] = 0 .. j.n - 1
  BY <1>1, SizedJob
<1>3. ASSUME NEW c \in 0 .. j.n - 1 PROVE Program[j][c] = Dealt(j, c, 1, 1)
  <2> DEFINE n == j.n
             size == j.size
  <2>1. Program[j][c] = Vvadd4(c, n, size)
    BY <1>1, ProgramOf
  <2>2. n \in Nat \ {0} /\ size \in Int /\ c \in Int
    BY <1>2
  <2>3. Vvadd4(c, n, size) = For(c, size, n, LAMBDA i : Add({i}))
    BY DEF Vvadd4
  <2> HIDE DEF n, size
  <2>4. Vvadd4(c, n, size) = Strided(c, n, Trips(c, size, n), [i \in Int |-> Sum({i})])
    BY <2>2, <2>3, SingleAdds
  <2>5. c = 1 * c /\ n = 1 * n
    BY <2>2
  <2>6. Trips(c, size, n) = 1 * Trips(1 * c, size, 1 * (1 * n))
    BY <2>2, <2>5, TripsCount
  <2> QED
    BY <2>1, <2>4, <2>5, <2>6, OneElement DEF Dealt, n, size
<1>4. Program[j] = [c \in 0 .. j.n - 1 |-> Dealt(j, c, 1, 1)]
  <2>1. Program[j] = [c \in 0 .. j.n - 1 |-> Program[j][c]]
    BY <1>1, SizedJobs
  <2> QED
    BY <1>3, <2>1
<1> QED
  BY <1>2, <1>4 DEF DealtJob

\* The rounding up to turns of eight and the shorter first one come to count
\* elements (vvadd3.c:9).
LEMMA DuffCounts ==
  ASSUME NEW count \in Nat \ {0}
  PROVE  (IF count % 8 = 0 THEN 8 ELSE count % 8) + 8 * (((count + 7) \div 8) - 1) = count
<1>1. CASE count % 8 = 0
  BY <1>1
<1>2. CASE count % 8 # 0
  BY <1>2
<1> QED
  BY <1>1, <1>2

LEMMA Vvadd3Blocks ==
  ASSUME NEW j \in Jobs, j.kernel = "vvadd3"
  PROVE  BlockJob(j, j.n, j.size \div j.n) /\ OwnElements(j)
<1> DEFINE count == j.size \div j.n
<1>1. j.kernel \in Sized
  BY DEF Sized, VectorNames
<1>2. j.n \in Nat \ {0} /\ count \in Nat \ {0} /\ DOMAIN Program[j] = 0 .. j.n - 1
  BY <1>1, SizedJob
<1>3. ASSUME NEW c \in 0 .. j.n - 1
      PROVE  Program[j][c] = Strided(c * count, 1, count, [i \in Int |-> Sum({i})])
  <2> DEFINE first == IF count % 8 = 0 THEN 8 ELSE count % 8
             turns == (count + 7) \div 8
             lo == c * count
  <2>1. Program[j][c] = Vvadd3(c, j.n, j.size)
    BY <1>1, ProgramOf
  <2>2. Vvadd3(c, j.n, j.size) = For(lo, lo + first + 8 * (turns - 1), 1, LAMBDA i : Add({i}))
    BY DEF Vvadd3
  <2> HIDE DEF count
  <2>3. first + 8 * (turns - 1) = count
    BY <1>2, DuffCounts
  <2>4. first \in Int /\ 8 * (turns - 1) \in Int /\ lo \in Int
    BY <1>2
  <2> HIDE DEF first, turns, lo
  <2>5. lo + first + 8 * (turns - 1) = lo + count
    BY <2>3, <2>4
  <2>6. lo + count \in Int /\ 1 \in Nat \ {0}
    BY <1>2, <2>4
  <2>7. For(lo, lo + count, 1, LAMBDA i : Add({i}))
          = Strided(lo, 1, Trips(lo, lo + count, 1), [i \in Int |-> Sum({i})])
    BY <2>4, <2>6, SingleAdds
  <2>8. Trips(lo, lo + count, 1) = count
    BY <1>2, <2>4, BlockOfOnes
  <2> QED
    BY <2>1, <2>2, <2>5, <2>7, <2>8 DEF lo
<1> HIDE DEF count
<1>4. ASSUME NEW c \in 0 .. j.n - 1
      PROVE  /\ DOMAIN Program[j][c] = 1 .. count
             /\ \A p \in 1 .. count : Program[j][c][p] = Sum({c * count + (p - 1)})
  <2>1. DOMAIN Program[j][c] = 1 .. count
    BY <1>3 DEF Strided
  <2>2. ASSUME NEW p \in 1 .. count PROVE Program[j][c][p] = Sum({c * count + (p - 1)})
    <3>1. c * count + (p - 1) * 1 = c * count + (p - 1) /\ c * count + (p - 1) \in Int
      BY <1>2
    <3>2. Program[j][c][p] = [i \in Int |-> Sum({i})][c * count + (p - 1) * 1]
      BY <1>3 DEF Strided
    <3> QED
      BY <3>1, <3>2
  <2> QED
    BY <2>1, <2>2
<1>5. ASSUME NEW c \in 0 .. j.n - 1, NEW p \in 1 .. count
      PROVE  /\ Cells(j, Program[j][c][p]) = {c * count + (p - 1)}
             /\ OwnTask(j, Program[j][c][p])
  <2>1. Program[j][c][p] = Sum({c * count + (p - 1)})
    BY <1>4
  <2> QED
    BY <2>1, SumCells
<1>6. BlockJob(j, j.n, count)
  BY <1>2, <1>4, <1>5 DEF BlockJob
<1>7. OwnElements(j)
  BY <1>2, <1>4, <1>5 DEF OwnElements
<1> QED
  BY <1>6, <1>7 DEF count

LEMMA ApBlocks ==
  ASSUME NEW j \in Jobs, j.kernel = "ap"
  PROVE  BlockJob(j, j.n, LDA \div j.n) /\ OwnElements(j)
<1> DEFINE block == LDA \div j.n
<1>1. j.kernel \in Sized
  BY DEF Sized
<1>2. j.n \in Nat \ {0} /\ block \in Nat /\ DOMAIN Program[j] = 0 .. j.n - 1
  <2>1. j.n \in Nat \ {0} /\ DOMAIN Program[j] = 0 .. j.n - 1 /\ LDA \in Nat
    BY <1>1, SizedJob DEF LDA
  <2> QED
    BY <2>1, DivMod
<1>3. ASSUME NEW c \in 0 .. j.n - 1
      PROVE  Program[j][c] = Strided(block * c, 1, block, [i \in Int |-> FullRow(i)])
  <2> DEFINE lo == block * c
  <2>1. Program[j][c] = ApMatmul(c, j.n)
    BY <1>1, ProgramOf
  <2>2. ApMatmul(c, j.n) = For(lo, lo + block, 1, LAMBDA i : Acc({i}, Whole, Whole))
    BY DEF ApMatmul
  <2> HIDE DEF block
  <2>3. lo \in Int /\ lo + block \in Int /\ 1 \in Nat \ {0}
    BY <1>2
  <2> HIDE DEF lo
  <2>4. For(lo, lo + block, 1, LAMBDA i : Acc({i}, Whole, Whole))
          = Strided(lo, 1, Trips(lo, lo + block, 1), [i \in Int |-> FullRow(i)])
    BY <2>3, RowTasks
  <2>5. Trips(lo, lo + block, 1) = block
    BY <1>2, <2>3, BlockOfOnes
  <2> QED
    BY <2>1, <2>2, <2>4, <2>5 DEF lo
<1> HIDE DEF block
<1>4. ASSUME NEW c \in 0 .. j.n - 1
      PROVE  /\ DOMAIN Program[j][c] = 1 .. block
             /\ \A p \in 1 .. block : Program[j][c][p] = FullRow(c * block + (p - 1))
  <2>1. DOMAIN Program[j][c] = 1 .. block
    BY <1>3 DEF Strided
  <2>2. ASSUME NEW p \in 1 .. block PROVE Program[j][c][p] = FullRow(c * block + (p - 1))
    <3>1. block * c + (p - 1) * 1 = c * block + (p - 1) /\ c * block + (p - 1) \in Int
      BY <1>2
    <3>2. Program[j][c][p] = [i \in Int |-> FullRow(i)][block * c + (p - 1) * 1]
      BY <1>3 DEF Strided
    <3> QED
      BY <3>1, <3>2
  <2> QED
    BY <2>1, <2>2
<1>5. ASSUME NEW c \in 0 .. j.n - 1, NEW p \in 1 .. block
      PROVE  /\ Cells(j, Program[j][c][p]) = {c * block + (p - 1)}
             /\ OwnTask(j, Program[j][c][p])
  <2>1. Program[j][c][p] = FullRow(c * block + (p - 1))
    BY <1>4
  <2> QED
    BY <2>1, RowCells
<1>6. BlockJob(j, j.n, block)
  BY <1>2, <1>4, <1>5 DEF BlockJob
<1>7. OwnElements(j)
  BY <1>2, <1>4, <1>5 DEF OwnElements
<1> QED
  BY <1>6, <1>7 DEF block

----------------------------------------------------------------------------
(* vvadd0: a block for each core, and what is left over dealt out. *)

\* The places of two joined loops.
LEMMA JoinedAt ==
  ASSUME NEW V, NEW l \in Seq(V), NEW r \in Seq(V)
  PROVE  /\ DOMAIN (l \o r) = 1 .. Len(l) + Len(r)
         /\ \A p \in 1 .. Len(l) : (l \o r)[p] = l[p]
         /\ \A p \in 1 .. Len(r) : (l \o r)[Len(l) + p] = r[p]
<1>1. Len(l) \in Nat /\ Len(r) \in Nat
  OBVIOUS
<1>2. l \o r \in Seq(V) /\ Len(l \o r) = Len(l) + Len(r)
  BY ConcatProperties
<1>3. \A k \in 1 .. Len(l \o r) :
        (l \o r)[k] = IF k <= Len(l) THEN l[k] ELSE r[k - Len(l)]
  BY ConcatProperties
<1> DEFINE s == l \o r
           a == Len(l)
           b == Len(r)
<1>4. /\ s \in Seq(V) /\ Len(s) = a + b /\ a \in Nat /\ b \in Nat
      /\ \A k \in 1 .. a + b : s[k] = IF k <= a THEN l[k] ELSE r[k - a]
  BY <1>1, <1>2, <1>3
<1> HIDE DEF s, a, b
<1>5. DOMAIN s = 1 .. a + b
  BY <1>4
<1>6. ASSUME NEW p \in 1 .. a PROVE s[p] = l[p]
  BY <1>4
<1>7. ASSUME NEW p \in 1 .. b PROVE s[a + p] = r[p]
  <2>1. a + p \in 1 .. a + b /\ ~(a + p <= a) /\ (a + p) - a = p
    BY <1>4
  <2> QED
    BY <1>4, <2>1
<1> QED
  BY <1>5, <1>6, <1>7 DEF s, a, b

LEMMA StridedLength ==
  ASSUME NEW x \in Int, NEW u \in Int, NEW k \in Nat, NEW V, NEW task,
         \A i \in Int : task[i] \in V
  PROVE  /\ Strided(x, u, k, task) \in Seq(V)
         /\ Len(Strided(x, u, k, task)) = k
         /\ \A p \in 1 .. k : Strided(x, u, k, task)[p] = task[x + (p - 1) * u]
BY DEF Strided

Rest(j) == j.size - (j.size % (j.size \div j.n))

\* The tasks of core c: p counts those of its block, then those left over.
LEMMA Vvadd0Tasks ==
  ASSUME NEW j \in Jobs, j.kernel = "vvadd0", NEW c \in DOMAIN Program[j]
  PROVE  LET n == j.n
             block == j.size \div j.n
             turns == Trips(Rest(j) + c, j.size, j.n)
         IN /\ c \in 0 .. n - 1 /\ turns \in Nat
            /\ DOMAIN Program[j][c] = 1 .. block + turns
            /\ \A p \in 1 .. block : Program[j][c][p] = Sum({c * block + (p - 1)})
            /\ \A p \in 1 .. turns : Program[j][c][block + p] = Sum({Rest(j) + c + (p - 1) * n})
<1> DEFINE n == j.n
           size == j.size
           block == size \div n
           left == size % block
           hi == (c + 1) * block
           lo == (size - left) + c
           turns == Trips(lo, size, n)
           task == [i \in Int |-> Sum({i})]
<1>1. j.kernel \in Sized
  BY DEF Sized, VectorNames
<1>2. n \in Nat \ {0} /\ size \in Nat /\ block \in Nat \ {0} /\ c \in 0 .. n - 1
  BY <1>1, SizedJob
<1>3. Program[j][c] = Vvadd0(c, n, size)
  BY <1>1, <1>2, ProgramOf
<1>4. Vvadd0(c, n, size) = For(c * block, hi, 1, LAMBDA i : Add({i}))
                             \o For(lo, size, n, LAMBDA i : Add({i}))
  BY DEF Vvadd0
<1>5. Rest(j) + c = lo
  BY DEF Rest
<1> HIDE DEF n, size, block
<1>6. left \in Nat
  BY <1>2, DivMod
<1> HIDE DEF left
<1>7. lo \in Int /\ hi = c * block + block /\ c * block \in Int /\ hi \in Int /\ size \in Int
  BY <1>2, <1>6
<1> HIDE DEF hi, lo
<1>8. Trips(c * block, hi, 1) = block
  BY <1>2, <1>7, BlockOfOnes
<1>9. turns \in Nat
  BY <1>2, <1>7, TripsCount
<1>10. For(c * block, hi, 1, LAMBDA i : Add({i})) = Strided(c * block, 1, block, task)
  <2> DEFINE x == c * block
  <2>1. x \in Int /\ hi \in Int /\ 1 \in Nat \ {0} /\ Trips(x, hi, 1) = block
    BY <1>7, <1>8
  <2> HIDE DEF x
  <2>2. For(x, hi, 1, LAMBDA i : Add({i})) = Strided(x, 1, Trips(x, hi, 1), task)
    BY <2>1, SingleAdds
  <2>3. For(x, hi, 1, LAMBDA i : Add({i})) = Strided(x, 1, block, task)
    BY <2>1, <2>2
  <2> QED
    BY <2>3 DEF x
<1>11. For(lo, size, n, LAMBDA i : Add({i})) = Strided(lo, n, turns, task)
  BY <1>2, <1>7, SingleAdds
<1>12. Program[j][c] = Strided(c * block, 1, block, task) \o Strided(lo, n, turns, task)
  BY <1>3, <1>4, <1>10, <1>11
<1> HIDE DEF turns, task
<1>13. /\ DOMAIN Program[j][c] = 1 .. block + turns
       /\ \A p \in 1 .. block : Program[j][c][p] = task[c * block + (p - 1) * 1]
       /\ \A p \in 1 .. turns : Program[j][c][block + p] = task[lo + (p - 1) * n]
  <2> DEFINE x == c * block
  <2>1. x \in Int /\ lo \in Int /\ 1 \in Int /\ n \in Int /\ block \in Nat /\ turns \in Nat
    BY <1>2, <1>7, <1>9
  <2> HIDE DEF x
  <2> DEFINE s == Program[j][c]
             V == {task[i] : i \in Int}
             l == Strided(x, 1, block, task)
             r == Strided(lo, n, turns, task)
  <2>2. s = l \o r
    BY <1>12 DEF x
  <2>a. \A i \in Int : task[i] \in V
    OBVIOUS
  <2> HIDE DEF V
  <2>3. /\ l \in Seq(V) /\ Len(l) = block
        /\ \A p \in 1 .. block : l[p] = task[x + (p - 1) * 1]
    <3>1. l = [p \in 1 .. block |-> task[x + (p - 1) * 1]]
      BY DEF Strided
    <3>2. \A p \in 1 .. block : x + (p - 1) * 1 \in Int
      BY <2>1
    <3> HIDE DEF l
    <3> QED
      BY <2>1, <2>a, <3>1, <3>2
  <2>4. /\ r \in Seq(V) /\ Len(r) = turns
        /\ \A p \in 1 .. turns : r[p] = task[lo + (p - 1) * n]
    BY <2>1, <2>a, StridedLength
  <2> HIDE DEF s, l, r
  <2>5. /\ DOMAIN s = 1 .. Len(l) + Len(r)
        /\ \A p \in 1 .. Len(l) : s[p] = l[p]
        /\ \A p \in 1 .. Len(r) : s[Len(l) + p] = r[p]
    BY <2>2, <2>3, <2>4, JoinedAt, SMTT(30)
  <2>6. /\ DOMAIN s = 1 .. block + turns
        /\ \A p \in 1 .. block : s[p] = task[x + (p - 1) * 1]
        /\ \A p \in 1 .. turns : s[block + p] = task[lo + (p - 1) * n]
    BY <2>3, <2>4, <2>5
  <2> QED
    BY <2>6 DEF x, s
<1>14. ASSUME NEW p \in 1 .. block PROVE Program[j][c][p] = Sum({c * block + (p - 1)})
  <2>1. c * block + (p - 1) * 1 = c * block + (p - 1) /\ c * block + (p - 1) \in Int
    BY <1>2, <1>7
  <2> QED
    BY <1>13, <2>1 DEF task
<1>15. ASSUME NEW p \in 1 .. turns PROVE Program[j][c][block + p] = Sum({lo + (p - 1) * n})
  <2>1. lo + (p - 1) * n \in Int
    BY <1>2, <1>7
  <2> QED
    BY <1>13, <2>1 DEF task
<1> QED
  BY <1>2, <1>5, <1>9, <1>13, <1>14, <1>15 DEF n, size, block, turns

\* What is left over begins at or after the end of the last core's block, and
\* at its end when less than a block is left over (vvadd0.c:7).
LEMMA Vvadd0Rest ==
  ASSUME NEW n \in Nat \ {0}, NEW size \in Nat, n <= size
  PROVE  LET block == size \div n
             rest == size - (size % block)
         IN /\ block \in Nat \ {0} /\ rest \in Nat /\ rest <= size
            /\ n * block <= rest
            /\ rest = n * block <=> size % n < block
<1> DEFINE block == size \div n
           r == size % n
           k == size \div block
           l == size % block
           x == n * block
           y == block * k
<1>1. block \in Nat /\ r \in Nat /\ size = n * block + r /\ r < n
  BY DivMod
<1> HIDE DEF block, r
<1>2. block \in Nat \ {0}
  BY <1>1
<1>3. k \in Nat /\ l \in Nat /\ size = block * k + l /\ l < block
  BY <1>2, DivMod
<1> HIDE DEF k, l
<1>4. x \in Nat /\ y \in Nat /\ size = x + r /\ size = y + l /\ x = block * n
  BY <1>1, <1>2, <1>3
<1>5. n <= k
  <2>1. SUFFICES ASSUME k + 1 <= n PROVE FALSE
    BY <1>3
  <2>2. block * (k + 1) <= block * n
    BY <1>2, <1>3, <2>1, ProductGrows
  <2>3. block * (k + 1) = y + block
    BY <1>2, <1>3
  <2> HIDE DEF x, y
  <2> QED
    BY <1>1, <1>2, <1>3, <1>4, <2>2, <2>3
<1>6. x <= y
  BY <1>2, <1>3, <1>4, <1>5, ProductGrows
<1>7. ASSUME r < block PROVE y = x
  <2>1. block * n + r = block * k + l
    BY <1>4
  <2>2. n = k
    BY <1>1, <1>2, <1>3, <1>7, <2>1, QuotientUnique
  <2> QED
    BY <1>4, <2>2
<1> HIDE DEF x, y
<1>8. ASSUME y = x PROVE r < block
  BY <1>1, <1>3, <1>4, <1>8
<1>9. size - l = y
  BY <1>3, <1>4
<1> QED
  BY <1>2, <1>4, <1>6, <1>7, <1>8, <1>9, <1>3 DEF block, r, l, x

LEMMA Vvadd0Sizes ==
  ASSUME NEW j \in Jobs, j.kernel = "vvadd0"
  PROVE  /\ j.n \in Nat \ {0} /\ j.size \in Nat /\ DOMAIN Program[j] = 0 .. j.n - 1
         /\ j.size \div j.n \in Nat \ {0} /\ Rest(j) \in Nat /\ Rest(j) <= j.size
         /\ j.n * (j.size \div j.n) <= Rest(j)
         /\ Rest(j) = j.n * (j.size \div j.n) <=> j.size % j.n < j.size \div j.n
<1>1. j.kernel \in Sized
  BY DEF Sized, VectorNames
<1> DEFINE n == j.n
           size == j.size
<1>2. n \in Nat \ {0} /\ size \in Nat /\ n <= size /\ DOMAIN Program[j] = 0 .. n - 1
  BY <1>1, SizedJob
<1>3. Rest(j) = size - (size % (size \div n))
  BY DEF Rest
<1> HIDE DEF n, size
<1>4. LET block == size \div n
          rest == size - (size % block)
      IN /\ block \in Nat \ {0} /\ rest \in Nat /\ rest <= size
         /\ n * block <= rest
         /\ rest = n * block <=> size % n < block
  BY <1>2, Vvadd0Rest
<1> DEFINE block == size \div n
           left == size % block
<1>5. /\ block \in Nat \ {0} /\ size - left \in Nat /\ size - left <= size
      /\ n * block <= size - left
      /\ size - left = n * block <=> size % n < block
  BY <1>4
<1>6. Rest(j) = size - left
  BY <1>3
<1> HIDE DEF left
<1>7. /\ block \in Nat \ {0} /\ Rest(j) \in Nat /\ Rest(j) <= size
      /\ n * block <= Rest(j)
      /\ Rest(j) = n * block <=> size % n < block
  BY <1>5, <1>6
<1> QED
  BY <1>2, <1>7 DEF n, size

\* A task of vvadd0: the p-th of the core's block, or the u-th (from 0) of the
\* left over elements that are the core's.
InBlock(j, c, p) ==
  /\ p \in 1 .. j.size \div j.n
  /\ Cells(j, Program[j][c][p]) = {c * (j.size \div j.n) + (p - 1)}

InRest(j, c, p) ==
  \E u \in Nat :
    /\ p = (j.size \div j.n) + (u + 1)
    /\ Cells(j, Program[j][c][p]) = {Rest(j) + c + u * j.n}
    /\ Rest(j) + c + u * j.n \in Rest(j) .. j.size - 1

LEMMA Vvadd0Task ==
  ASSUME NEW j \in Jobs, j.kernel = "vvadd0",
         NEW c \in DOMAIN Program[j], NEW p \in DOMAIN Program[j][c]
  PROVE  OwnTask(j, Program[j][c][p]) /\ (InBlock(j, c, p) \/ InRest(j, c, p))
<1> DEFINE n == j.n
           size == j.size
           rest == Rest(j)
           block == size \div n
           turns == Trips(rest + c, size, n)
<1>1. /\ c \in 0 .. n - 1 /\ turns \in Nat
      /\ DOMAIN Program[j][c] = 1 .. block + turns
      /\ \A q \in 1 .. block : Program[j][c][q] = Sum({c * block + (q - 1)})
      /\ \A q \in 1 .. turns : Program[j][c][block + q] = Sum({rest + c + (q - 1) * n})
  BY Vvadd0Tasks
<1>2. n \in Nat \ {0} /\ size \in Nat /\ block \in Nat \ {0} /\ rest \in Nat
  BY Vvadd0Sizes
<1> HIDE DEF rest, block
<1>3. CASE p \in 1 .. block
  <2>1. Program[j][c][p] = Sum({c * block + (p - 1)})
    BY <1>1, <1>3
  <2>2. OwnTask(j, Program[j][c][p]) /\ Cells(j, Program[j][c][p]) = {c * block + (p - 1)}
    BY <2>1, SumCells
  <2>3. InBlock(j, c, p)
    BY <1>3, <2>2 DEF InBlock, block
  <2> QED
    BY <2>2, <2>3
<1>4. CASE p \notin 1 .. block
  <2> DEFINE u == p - (block + 1)
  <2>1. u \in Nat /\ u < turns /\ p = block + (u + 1) /\ u + 1 \in 1 .. turns /\ (u + 1) - 1 = u
    <3>1. p \in 1 .. block + turns
      BY <1>1
    <3> HIDE DEF turns
    <3> QED
      BY <1>1, <1>2, <1>4, <3>1
  <2> HIDE DEF u
  <2>2. Program[j][c][p] = Sum({rest + c + u * n})
    BY <1>1, <2>1
  <2>3. /\ OwnTask(j, Program[j][c][p])
        /\ Cells(j, Program[j][c][p]) = {rest + c + u * n}
    BY <2>2, SumCells
  <2>4. rest + c + u * n \in rest .. size - 1
    <3> DEFINE lo == rest + c
    <3>1. lo \in Int /\ size \in Int /\ n \in Nat \ {0} /\ c \in Nat
      BY <1>1, <1>2
    <3> HIDE DEF n, size, lo
    <3>2. lo + u * n < size
      BY <2>1, <3>1, TripsCount DEF lo, turns
    <3>3. u * n \in Nat
      BY <2>1, <3>1
    <3> DEFINE x == u * n
    <3> HIDE DEF x
    <3>4. rest + c + x \in rest .. size - 1
      BY <1>2, <3>1, <3>2, <3>3 DEF lo, x
    <3> QED
      BY <3>4 DEF x
  <2>5. InRest(j, c, p)
    BY <2>1, <2>3, <2>4 DEF InRest, rest, block
  <2> QED
    BY <2>3, <2>5
<1> QED
  BY <1>3, <1>4

LEMMA Vvadd0Apart ==
  ASSUME NEW j \in Jobs, j.kernel = "vvadd0"
  PROVE  OwnElements(j) /\ CellsApart(j)
<1>1. OwnElements(j)
  BY Vvadd0Task DEF OwnElements
<1> DEFINE n == j.n
           block == j.size \div n
           rest == Rest(j)
<1>2. /\ n \in Nat \ {0} /\ block \in Nat \ {0} /\ rest \in Nat /\ n * block <= rest
      /\ j.size \in Nat /\ DOMAIN Program[j] = 0 .. n - 1
  BY Vvadd0Sizes
<1>3. \A c \in DOMAIN Program[j] : \A p \in DOMAIN Program[j][c] :
        InBlock(j, c, p) \/ InRest(j, c, p)
  BY Vvadd0Task
<1> HIDE DEF n, block, rest
<1> SUFFICES ASSUME NEW a \in DOMAIN Program[j], NEW b \in DOMAIN Program[j],
                    NEW p \in DOMAIN Program[j][a], NEW q \in DOMAIN Program[j][b],
                    NEW e, e \in Cells(j, Program[j][a][p]), e \in Cells(j, Program[j][b][q])
    PROVE  a = b /\ p = q
  BY <1>1 DEF CellsApart
<1>4. a \in 0 .. n - 1 /\ b \in 0 .. n - 1
  BY <1>2
<1>5. CASE InBlock(j, a, p) /\ InBlock(j, b, q)
  <2>1. /\ p \in 1 .. block /\ q \in 1 .. block
        /\ a * block + (p - 1) = b * block + (q - 1)
    BY <1>5 DEF InBlock, block, n
  <2>2. /\ block * a + (p - 1) = block * b + (q - 1)
        /\ p - 1 \in Nat /\ q - 1 \in Nat /\ p - 1 < block /\ q - 1 < block
    BY <1>2, <1>4, <2>1
  <2>3. a = b /\ p - 1 = q - 1
    BY <1>2, <1>4, <2>2, QuotientUnique, SMTT(30)
  <2> QED
    BY <2>1, <2>3
<1>6. CASE InRest(j, a, p) /\ InRest(j, b, q)
  <2>1. PICK u \in Nat : p = block + (u + 1) /\ e = rest + a + u * n
    BY <1>6 DEF InRest, block, rest, n
  <2>2. PICK v \in Nat : q = block + (v + 1) /\ e = rest + b + v * n
    BY <1>6 DEF InRest, block, rest, n
  <2>3. n * u + a = n * v + b
    <3>1. u * n \in Int /\ v * n \in Int /\ u * n = n * u /\ v * n = n * v
      BY <1>2
    <3> DEFINE x == u * n
               y == v * n
    <3>2. x \in Int /\ y \in Int /\ rest + a + x = rest + b + y
      BY <2>1, <2>2, <3>1
    <3>a. rest \in Int /\ a \in Int /\ b \in Int
      BY <1>2, <1>4
    <3> HIDE DEF x, y
    <3>3. x + a = y + b
      BY <3>a, <3>2
    <3> QED
      BY <3>1, <3>3 DEF x, y
  <2>4. u = v /\ a = b
    BY <1>2, <1>4, <2>3, QuotientUnique
  <2> QED
    BY <2>1, <2>2, <2>4
\* A block ends where the left over elements begin, or before.
<1>7. ASSUME NEW c \in 0 .. n - 1, NEW d \in 0 .. n - 1, NEW s, NEW t,
             InBlock(j, c, s), InRest(j, d, t),
             e \in Cells(j, Program[j][c][s]), e \in Cells(j, Program[j][d][t])
      PROVE  FALSE
  <2>1. s \in 1 .. block /\ e = c * block + (s - 1)
    BY <1>7 DEF InBlock, block, n
  <2>2. e \in rest .. j.size - 1
    BY <1>7 DEF InRest, rest
  <2>3. e \in Int
    BY <2>2, <1>2
  <2>4. e \in 0 .. n * block - 1
    BY <1>2, <2>1, <2>3, InBlocks
  <2> DEFINE x == n * block
  <2>5. x \in Int /\ x <= rest /\ e <= x - 1 /\ rest <= e
    BY <1>2, <2>2, <2>4
  <2> HIDE DEF x
  <2> QED
    BY <1>2, <2>3, <2>5
<1> QED
  BY <1>3, <1>4, <1>5, <1>6, <1>7

LEMMA Vvadd0Made ==
  ASSUME NEW j \in Jobs, j.kernel = "vvadd0"
  PROVE  Made(j) = (0 .. j.n * (j.size \div j.n) - 1) \cup (Rest(j) .. j.size - 1)
<1> DEFINE n == j.n
           size == j.size
           block == size \div n
           rest == Rest(j)
           Blocks == 0 .. n * block - 1
<1>1. /\ n \in Nat \ {0} /\ block \in Nat \ {0} /\ rest \in Nat /\ size \in Nat
      /\ DOMAIN Program[j] = 0 .. n - 1
  BY Vvadd0Sizes
<1>2. \A c \in DOMAIN Program[j] : \A p \in DOMAIN Program[j][c] :
        InBlock(j, c, p) \/ InRest(j, c, p)
  BY Vvadd0Task
<1>3. ASSUME NEW c \in 0 .. n - 1
      PROVE  /\ DOMAIN Program[j][c] = 1 .. block + Trips(rest + c, size, n)
             /\ Trips(rest + c, size, n) \in Nat
             /\ \A p \in 1 .. block : Program[j][c][p] = Sum({c * block + (p - 1)})
             /\ \A p \in 1 .. Trips(rest + c, size, n) :
                  Program[j][c][block + p] = Sum({rest + c + (p - 1) * n})
  BY <1>1, Vvadd0Tasks
<1> HIDE DEF n, size, block, rest
<1>4. ASSUME NEW e \in Made(j) PROVE e \in Blocks \/ e \in rest .. size - 1
  <2>1. PICK c \in DOMAIN Program[j] : \E p \in DOMAIN Program[j][c] : e \in Cells(j, Program[j][c][p])
    BY InMade
  <2>2. PICK p \in DOMAIN Program[j][c] : e \in Cells(j, Program[j][c][p])
    BY <2>1
  <2>3. CASE InBlock(j, c, p)
    <3>1. p \in 1 .. block /\ e = c * block + (p - 1)
      BY <2>2, <2>3 DEF InBlock, block, n, size
    <3>2. e \in Int /\ c \in 0 .. n - 1
      BY <1>1, <3>1
    <3> QED
      BY <1>1, <3>1, <3>2, InBlocks
  <2>4. CASE InRest(j, c, p)
    BY <2>2, <2>4 DEF InRest, rest, size
  <2> QED
    BY <1>2, <2>3, <2>4
<1>5. ASSUME NEW e \in Blocks PROVE e \in Made(j)
  <2>0. e \in Int
    OBVIOUS
  <2>1. \E c \in 0 .. n - 1 : \E p \in 1 .. block : e = c * block + (p - 1)
    BY <1>1, <2>0, InBlocks
  <2> HIDE DEF Blocks
  <2>2. PICK c \in 0 .. n - 1 : \E p \in 1 .. block : e = c * block + (p - 1)
    BY <2>1
  <2>3. PICK p \in 1 .. block : e = c * block + (p - 1)
    BY <2>2
  <2>4. Program[j][c][p] = Sum({e})
    BY <1>3, <2>3
  <2>5. e \in Cells(j, Program[j][c][p])
    BY <2>4, SumCells
  <2>6. c \in DOMAIN Program[j]
    BY <1>1
  <2>7. p \in DOMAIN Program[j][c]
    <3> DEFINE turns == Trips(rest + c, size, n)
    <3>1. DOMAIN Program[j][c] = 1 .. block + turns /\ turns \in Nat
      BY <1>3
    <3> HIDE DEF turns
    <3> QED
      BY <1>1, <3>1
  <2> QED
    BY <2>5, <2>6, <2>7, InMade
<1>6. ASSUME NEW e \in rest .. size - 1 PROVE e \in Made(j)
  <2> DEFINE d == e - rest
             c == d % n
             u == d \div n
             lo == rest + c
             turns == Trips(lo, size, n)
  <2>1. d \in Nat
    BY <1>1
  <2>2. u \in Nat /\ c \in Nat /\ d = n * u + c /\ c < n
    <3> HIDE DEF d
    <3> QED
      BY <1>1, <2>1, DivMod
  <2>3. e = rest + d /\ d \in Int
    BY <1>1
  <2> HIDE DEF d, c, u
  <2>4. c \in 0 .. n - 1
    BY <1>1, <2>2
  <2>5. e = rest + c + u * n /\ u * n \in Int
    <3>1. n * u = u * n /\ u * n \in Int
      BY <1>1, <2>2
    <3> DEFINE x == u * n
    <3>2. d = x + c /\ x \in Int
      BY <2>2, <3>1
    <3> HIDE DEF x
    <3>3. e = rest + c + x
      BY <1>1, <2>2, <2>3, <3>2
    <3> QED
      BY <3>1, <3>3 DEF x
  <2>6. u < turns /\ turns \in Nat
    <3>1. lo \in Int /\ size \in Int /\ lo + u * n < size
      BY <1>1, <2>2, <2>5
    <3> HIDE DEF lo
    <3> QED
      BY <1>1, <2>2, <3>1, TripsCount
  <2>7. DOMAIN Program[j][c] = 1 .. block + turns
    BY <1>3, <2>4
  <2>8. \A p \in 1 .. turns : Program[j][c][block + p] = Sum({rest + c + (p - 1) * n})
    BY <1>3, <2>4
  <2> HIDE DEF turns
  <2>9. u + 1 \in 1 .. turns /\ (u + 1) - 1 = u /\ block + (u + 1) \in 1 .. block + turns
    BY <1>1, <2>2, <2>6
  <2>10. Program[j][c][block + (u + 1)] = Sum({e})
    BY <2>5, <2>8, <2>9
  <2>11. e \in Cells(j, Program[j][c][block + (u + 1)])
    BY <2>10, SumCells
  <2> QED
    BY <1>1, <2>4, <2>7, <2>9, <2>11, InMade
<1> HIDE DEF Blocks
<1>7. Made(j) = Blocks \cup (rest .. size - 1)
  BY <1>4, <1>5, <1>6
<1> QED
  BY <1>7 DEF Blocks, n, size, block, rest

\* Where a block or more is left over, nobody does the element at its beginning.
LEMMA Vvadd0Fits ==
  ASSUME NEW j \in Jobs, j.kernel = "vvadd0"
  PROVE  Made(j) = Wanted(j) <=> j.size % j.n < j.size \div j.n
<1> DEFINE size == j.size
           x == j.n * (j.size \div j.n)
           rest == Rest(j)
<1>1. /\ size \in Nat /\ x \in Nat /\ rest \in Nat /\ x <= rest /\ rest <= size
      /\ rest = x <=> j.size % j.n < j.size \div j.n
  BY Vvadd0Sizes
<1>2. Made(j) = (0 .. x - 1) \cup (rest .. size - 1)
  BY Vvadd0Made
<1>3. Wanted(j) = 0 .. size - 1
  BY DEF Wanted
<1> HIDE DEF size, x, rest
<1>4. ASSUME rest = x PROVE Made(j) = Wanted(j)
  BY <1>1, <1>2, <1>3, <1>4
<1>5. ASSUME rest # x PROVE Made(j) # Wanted(j)
  <2>1. x \in 0 .. size - 1 /\ x \notin 0 .. x - 1 /\ x \notin rest .. size - 1
    BY <1>1, <1>5
  <2> QED
    BY <1>2, <1>3, <2>1
<1> QED
  BY <1>1, <1>4, <1>5

----------------------------------------------------------------------------
(* All of them. *)

\* The tasks of a sized job are apart, and make what is wanted in the jobs that
\* Supported names and in no other.
LEMMA SizedWork ==
  ASSUME NEW j \in Jobs, j.kernel \in Sized
  PROVE  /\ OwnElements(j) /\ CellsApart(j)
         /\ Made(j) = Wanted(j) <=> Supported(j)
<1>1. CASE j.kernel = "vvadd0"
  BY <1>1, Vvadd0Apart, Vvadd0Fits DEF Supported
<1>2. CASE j.kernel = "vvadd1"
  <2>1. DealtJob(j, 4, 2)
    BY <1>2, Vvadd1Dealt
  <2>2. Made(j) = Wanted(j) <=> j.size % (2 * (4 * j.n)) = 0
    BY <2>1, PairsFit
  <2>3. 2 * (4 * j.n) = 8 * j.n
    BY SizedJob
  <2>4. Supported(j) <=> j.size % (8 * j.n) = 0
    BY <1>2 DEF Supported
  <2> QED
    BY <2>1, <2>2, <2>3, <2>4, DealtIsOwn
<1>3. CASE j.kernel = "vvadd2"
  <2>1. DealtJob(j, 1, 2)
    BY <1>3, Vvadd2Dealt
  <2>2. Made(j) = Wanted(j) <=> j.size % (2 * (1 * j.n)) = 0
    BY <2>1, PairsFit
  <2>3. 2 * (1 * j.n) = 2 * j.n
    BY SizedJob
  <2>4. Supported(j) <=> j.size % (2 * j.n) = 0
    BY <1>3 DEF Supported
  <2> QED
    BY <2>1, <2>2, <2>3, <2>4, DealtIsOwn
<1>4. CASE j.kernel = "vvadd3"
  <2> DEFINE n == j.n
             size == j.size
             block == size \div n
  <2>1. BlockJob(j, n, block) /\ OwnElements(j)
    BY <1>4, Vvadd3Blocks
  <2>2. n \in Nat \ {0} /\ size \in Nat
    BY SizedJob
  <2>3. Wanted(j) = 0 .. size - 1 /\ (Supported(j) <=> size % n = 0)
    BY <1>4 DEF Wanted, Supported
  <2> HIDE DEF n, size
  <2>4. 0 .. n * block - 1 = 0 .. size - 1 <=> size % n = 0
    BY <2>2, BlocksFit
  <2> HIDE DEF block
  <2>5. Made(j) = 0 .. n * block - 1 /\ CellsApart(j)
    BY <2>1, BlocksMade, BlocksApart
  <2> QED
    BY <2>1, <2>3, <2>4, <2>5
<1>5. CASE j.kernel = "vvadd4"
  <2>1. DealtJob(j, 1, 1)
    BY <1>5, Vvadd4Dealt
  <2>2. Supported(j)
    BY <1>5 DEF Supported
  <2> QED
    BY <2>1, <2>2, DealtIsOwn, SinglesFit
<1>6. CASE j.kernel = "ap"
  <2> DEFINE n == j.n
             size == LDA
             block == size \div n
  <2>1. BlockJob(j, n, block) /\ OwnElements(j)
    BY <1>6, ApBlocks
  <2>2. n \in Nat \ {0} /\ size \in Nat
    BY SizedJob DEF LDA
  <2>3. Wanted(j) = 0 .. size - 1 /\ (Supported(j) <=> size % n = 0)
    BY <1>6 DEF Wanted, Supported, Whole
  <2> HIDE DEF n, size
  <2>4. 0 .. n * block - 1 = 0 .. size - 1 <=> size % n = 0
    BY <2>2, BlocksFit
  <2> HIDE DEF block
  <2>5. Made(j) = 0 .. n * block - 1 /\ CellsApart(j)
    BY <2>1, BlocksMade, BlocksApart
  <2> QED
    BY <2>1, <2>3, <2>4, <2>5
<1> QED
  BY <1>1, <1>2, <1>3, <1>4, <1>5, <1>6 DEF Sized, VectorNames

LEMMA SizedIsDisciplined ==
  ASSUME job \in Jobs, job.kernel \in Sized
  PROVE  Disciplined(job) /\ (WorkMakesResult <=> Supported(job))
BY SizedWork, OwnIsDisciplined, OwnMakesResult

\* For every number of cores, every size and every interleaving: at return the
\* output of a vvadd kernel or of ap_matmul is complete, each element computed
\* once and nothing written beyond it, exactly when the number and the size are
\* such as Supported says (vvadd0.c:7, vvadd1.c:7, vvadd2.c:7, vvadd3.c:9,
\* ap_matmul.c:16).
THEOREM SupportedIsExact == Spec => []ExactlySupported
<1> DEFINE Inv == Typed /\ SamePhase /\ (Disciplined(job) => Kept)
<1>1. Init => Inv
  BY InitTyped, InitSamePhase, InitKept
<1>2. Inv /\ [Next]_vars => Inv'
  <2>1. SUFFICES ASSUME Inv, [Next]_vars PROVE Inv'
    OBVIOUS
  <2>2. job' = job
    BY <2>1, JobStays
  <2>3. Disciplined(job)' => Disciplined(job)
    BY <2>2 DEF Disciplined, PhasesApart, PutsAlone, Phase, Conflict, SharesCopy, Touch
  <2> QED
    BY <2>1, <2>3, TypedStep, SamePhaseStep, KeptStep
<1>3. Inv => ExactlySupported
  <2>1. SUFFICES ASSUME Inv, Returned, job.kernel \in Sized
                 PROVE  Complete(C) <=> Supported(job)
    BY DEF ExactlySupported
  <2>2. job \in Jobs
    BY <2>1 DEF Typed
  <2>3. Disciplined(job) /\ (WorkMakesResult <=> Supported(job))
    BY <2>1, <2>2, SizedIsDisciplined
  <2>4. C = AllTasks({"acc", "put"})
    BY <2>1, <2>3, AllStored DEF Kept, AllThere
  <2> QED
    BY <2>3, <2>4 DEF WorkMakesResult
<1> QED
  BY <1>1, <1>2, <1>3, PTL DEF Spec
=============================================================================
