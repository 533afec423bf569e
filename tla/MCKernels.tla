------------------------------ MODULE MCKernels ------------------------------
(***************************************************************************)
(* The kernels of riscv-tests/mt as programs of Multicore, on instances    *)
(* for TLC: the Makefile there runs them on two cores (spike -p2). Those   *)
(* of FourNames also run on four; how all of them divide their work is     *)
(* compared task by task for four and eight cores too, without running     *)
(* them. The vvadd kernels run on one to three cores, with all the sizes   *)
(* from one element per core to MaxSize.                                   *)
(***************************************************************************)
EXTENDS Kernels, TLC

MaxSize == 25

Job(names, ns, sizes) == [kernel : names, n : ns, size : sizes]

\* No copy of B and no barrier; barriers; a barrier at every element, which makes
\* the longest programs; a copy of B; short enough to run on four cores.
DirectNames == {"af", "ak", "al", "am", "ap", "aq", "av", "ay", "az", "bb", "bc", "bf",
                "bh", "bj", "bk", "bm", "bs", "ck", "cl", "cv", "dc", "df", "do", "ds",
                "du", "dv"}
BarrierNames == {"ag", "ai", "cg", "ci"}
LongNames == {"ad", "an", "cs"}
CopyNames == {"ae", "ar", "at", "bo", "br", "ce", "cy", "dm", "dr"}
FourNames == {"ae", "af", "ai", "ak", "am", "aq", "bm", "bs", "ci", "ck", "ds", "du"}

MatmulNames == DirectNames \cup BarrierNames \cup LongNames \cup CopyNames \cup SplitNames
MatmulJobs ==
  Job(MatmulNames \ LongNames, {1, 2}, {LDA}) \cup Job(LongNames, {2}, {LDA})
    \cup Job({"ap"}, {3}, {LDA})
    \cup Job(FourNames, {4}, {LDA})

\* The numbers of cores on which a kernel's work is compared and not run.
ComparedJobs ==
  Job(MatmulNames, {4}, {LDA})
    \cup Job(MatmulNames \ (LongNames \cup {"ae", "ag", "cg"}), {8}, {LDA})
VectorJobs == {j \in Job(VectorNames, 1 .. 3, 1 .. MaxSize) : j.size >= j.n}
KernelJobs == MatmulJobs \cup VectorJobs

\* The function f itself. TLC would compute f[x] again at each application;
\* it keeps the values of a function that comes from @@.
Tabulated(f) == <<>> @@ f

Programs(jobs, Tasks(_, _)) ==
  Tabulated([j \in jobs |-> Tabulated([c \in 0 .. j.n - 1 |-> Tasks(j, c)])])
Goals(jobs, rows, Cols(_), ks) ==
  Tabulated([j \in jobs |-> [rows |-> rows, cols |-> Cols(j), ks |-> ks,
                             divided |-> Supported(j) /\ ~Split(j),
                             split |-> Split(j)]])

\* TLC keeps the value of a definition, and would compute a program again at
\* each use if a constant were given these themselves.
KernelTasks ==
  Programs(MatmulJobs \cup ComparedJobs, LAMBDA j, c : MatmulTasks(j.kernel, c, j.n))
    @@ Programs(VectorJobs, LAMBDA j, c : VectorTasks(j.kernel, c, j.n, j.size))
KernelProgram == KernelTasks

KernelGoals ==
  Goals(MatmulJobs \cup ComparedJobs, Whole, LAMBDA j : Whole, Whole)
    @@ Goals(VectorJobs, {0}, LAMBDA j : 0 .. j.size - 1, {0})
KernelGoal == KernelGoals

\* What Multicore says of another job than the present one.
On(j) == INSTANCE Multicore WITH job <- j

\* dm_matmul.c:24: all the cores but the last fill the same part of the static
\* B1, with the same values; with more than two cores several do so at once.
SameCopies == {"dm"}

\* All the cores of a kernel come to the same barriers. A kernel that means each
\* core to have work of its own divides it so that its loops alone, whatever the
\* interleaving, rule out races and lost updates, copy what is read before it
\* is read and make the whole result; one whose cores add to every row keeps to
\* whole tiles. On more than two cores that is so of the kernels Supported names,
\* and of no other: br_matmul.c:18, for one, has iBLOCK 16 where the share of one
\* of four cores is 8.
Starting == C = {} /\ \A c \in Cores : pc[c] = 1 /\ held[c] = <<>>
WorkDivided ==
  Starting =>
    /\ BarriersAgree(job)
    /\ Goal[job].divided => Disciplined(job) /\ CopiesComeFirst /\ WorkMakesResult
    /\ Goal[job].split => TilesMatch(job) /\ OneTaskPerTile(job) /\ WorkMakesResult
    /\ job.n = 2 => \A j \in {x \in ComparedJobs : x.kernel = job.kernel} :
         /\ BarriersAgree(j)
         /\ Supported(j) <=> On(j)!CopiesComeFirst /\ On(j)!WorkMakesResult
         /\ Goal[j].divided => PutsAlone(j)
         /\ Goal[j].divided /\ j.kernel \notin SameCopies => PhasesApart(j)
         /\ Goal[j].split => TilesMatch(j) /\ OneTaskPerTile(j)
=============================================================================
