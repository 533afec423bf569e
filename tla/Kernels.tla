------------------------------- MODULE Kernels -------------------------------
(***************************************************************************)
(* The kernels of riscv-tests/mt as programs of Multicore. A job is a      *)
(* kernel with a number n of cores and, for the vvadd kernels, the size    *)
(* of the arrays. Both are arbitrary here, within what the code divides by *)
(* them: vvadd0 divides by size/ncores.                                    *)
(***************************************************************************)
EXTENDS Multicore, HalfKernels, CopyKernels, VectorKernels

MatmulTasks(kernel, c, n) ==
  CASE kernel = "ad" -> AdMatmul(c, n) [] kernel = "ae" -> AeMatmul(c, n)
    [] kernel = "af" -> AfMatmul(c, n) [] kernel = "ag" -> AgMatmul(c, n)
    [] kernel = "ai" -> AiMatmul(c, n) [] kernel = "ak" -> AkMatmul(c, n)
    [] kernel = "al" -> AlMatmul(c, n) [] kernel = "am" -> AmMatmul(c, n)
    [] kernel = "an" -> AnMatmul(c, n) [] kernel = "ap" -> ApMatmul(c, n)
    [] kernel = "aq" -> AqMatmul(c, n) [] kernel = "ar" -> ArMatmul(c, n)
    [] kernel = "at" -> AtMatmul(c, n) [] kernel = "av" -> AvMatmul(c, n)
    [] kernel = "ay" -> AyMatmul(c, n) [] kernel = "az" -> AzMatmul(c, n)
    [] kernel = "bb" -> BbMatmul(c, n) [] kernel = "bc" -> BcMatmul(c, n)
    [] kernel = "bf" -> BfMatmul(c, n) [] kernel = "bh" -> BhMatmul(c, n)
    [] kernel = "bj" -> BjMatmul(c, n) [] kernel = "bk" -> BkMatmul(c, n)
    [] kernel = "bm" -> BmMatmul(c, n) [] kernel = "bo" -> BoMatmul(c, n)
    [] kernel = "br" -> BrMatmul(c, n) [] kernel = "bs" -> BsMatmul(c, n)
    [] kernel = "ce" -> CeMatmul(c, n) [] kernel = "cf" -> CfMatmul(c, n)
    [] kernel = "cg" -> CgMatmul(c, n) [] kernel = "ci" -> CiMatmul(c, n)
    [] kernel = "ck" -> CkMatmul(c, n) [] kernel = "cl" -> ClMatmul(c, n)
    [] kernel = "cm" -> CmMatmul(c, n) [] kernel = "cs" -> CsMatmul(c, n)
    [] kernel = "cv" -> CvMatmul(c, n) [] kernel = "cy" -> CyMatmul(c, n)
    [] kernel = "dc" -> DcMatmul(c, n) [] kernel = "df" -> DfMatmul(c, n)
    [] kernel = "dm" -> DmMatmul(c, n) [] kernel = "do" -> DoMatmul(c, n)
    [] kernel = "dr" -> DrMatmul(c, n) [] kernel = "ds" -> DsMatmul(c, n)
    [] kernel = "du" -> DuMatmul(c, n) [] kernel = "dv" -> DvMatmul(c, n)

VectorTasks(kernel, c, n, size) ==
  CASE kernel = "vvadd0" -> Vvadd0(c, n, size)
    [] kernel = "vvadd1" -> Vvadd1(c, n, size)
    [] kernel = "vvadd2" -> Vvadd2(c, n, size)
    [] kernel = "vvadd3" -> Vvadd3(c, n, size)
    [] kernel = "vvadd4" -> Vvadd4(c, n, size)

VectorNames == {"vvadd0", "vvadd1", "vvadd2", "vvadd3", "vvadd4"}
SplitNames == {"cf", "cm"}

\* The jobs whose number of cores or size the theorems leave open. For ap, as
\* for the vvadd kernels, it decides whether the whole output is computed.
Sized == VectorNames \cup {"ap"}

\* What a job is right for. ap leaves out the rows that are left over
\* (ap_matmul.c:16). at and ce take the columns of a core's share, or of a chunk
\* as long, in eights, br and dr in blocks of 16: where the share is not a
\* multiple of that, they go on into the next core's. Of the vvadd kernels vvadd0
\* asks that what is left over is less than one block, vvadd1 and vvadd2 for whole
\* turns of all the cores, vvadd3 for whole blocks, vvadd4 for nothing. What the
\* others ask for holds for 1, 2, 4 and 8 cores.
Supported(j) ==
  CASE j.kernel = "ap" -> LDA % j.n = 0
    [] j.kernel \in {"at", "ce"} -> Share(j.n) % 8 = 0
    [] j.kernel \in {"br", "dr"} -> Share(j.n) % 16 = 0
    [] j.kernel = "vvadd0" -> j.size % j.n < j.size \div j.n
    [] j.kernel = "vvadd1" -> j.size % (8 * j.n) = 0
    [] j.kernel = "vvadd2" -> j.size % (2 * j.n) = 0
    [] j.kernel = "vvadd3" -> j.size % j.n = 0
    [] OTHER -> TRUE

\* Both cores of a split kernel add to every row.
Split(j) == j.kernel \in SplitNames /\ j.n > 1

ASSUME SizedJobs ==
  \A j \in Jobs : j.kernel \in Sized =>
    /\ j.n \in Nat \ {0} /\ j.size \in Nat /\ j.n <= j.size
    /\ Program[j] = [c \in 0 .. j.n - 1 |->
         IF j.kernel = "ap" THEN ApMatmul(c, j.n) ELSE VectorTasks(j.kernel, c, j.n, j.size)]
    /\ Goal[j].rows = IF j.kernel = "ap" THEN Whole ELSE {0}
    /\ Goal[j].cols = IF j.kernel = "ap" THEN Whole ELSE 0 .. j.size - 1
    /\ Goal[j].ks = IF j.kernel = "ap" THEN Whole ELSE {0}

----------------------------------------------------------------------------
(* Properties *)

\* At return every element of the output has all its products, once, and
\* nothing is written beyond it, for the supported sizes and numbers of cores
\* and for no other (vvadd0.c:7, vvadd1.c:7, vvadd2.c:7, vvadd3.c:9,
\* ap_matmul.c:16).
ExactlySupported ==
  Returned /\ job.kernel \in Sized => (Complete(C) <=> Supported(job))
=============================================================================
