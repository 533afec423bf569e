------------------------------ MODULE Multicore ------------------------------
(***************************************************************************)
(* Cores that run one kernel of riscv-tests/mt on shared memory.           *)
(*                                                                         *)
(* Program[j][c] is the task sequence of core c in job j (see Loops), and  *)
(* Goal[j] the result the job is to compute: the rows and columns of the   *)
(* output, the products ks that each of its elements sums, whether the     *)
(* kernel means each core to have work of its own (divided), and whether   *)
(* every core adds to every element (split).                               *)
(*                                                                         *)
(* The load of a task's tile and the store that follows are two steps, so  *)
(* that other cores can come in between; within each of them the elements  *)
(* of the tile are taken together. What memory holds is the set of the     *)
(* tasks whose products it contains.                                       *)
(***************************************************************************)
EXTENDS Integers, Sequences, FiniteSets

CONSTANTS
  Jobs,      \* a kernel with a number of cores
  Program,   \* [Jobs -> [cores of the job -> task sequence]]
  Goal       \* [Jobs -> [rows, cols, ks, divided, split]]

ASSUME ProgramsAreSequences ==
  \A j \in Jobs : \A c \in DOMAIN Program[j] :
    /\ DOMAIN Program[j][c] = 1 .. Len(Program[j][c])
    /\ Len(Program[j][c]) \in Nat
    /\ \A p \in DOMAIN Program[j][c] :
         Program[j][c][p].op \in {"acc", "put", "copy", "bar"}

VARIABLES
  job,       \* the job that runs
  pc,        \* pc[c]: the task core c is at
  held,      \* held[c]: what core c loaded from its tile, as <<set>>, or <<>>
  C,         \* the tasks whose products the output holds
  copied     \* the copy tasks that are complete

vars == <<job, pc, held, C, copied>>

----------------------------------------------------------------------------
Cores == DOMAIN Program[job]

\* A task is named by its core and its place in the core's program.
TaskAt(id) == Program[job][id[1]][id[2]]
TaskIds == {id \in Cores \X Nat : id[2] \in DOMAIN Program[job][id[1]]}

Running(c) == c \in Cores /\ pc[c] <= Len(Program[job][c])
Returned == \A c \in Cores : ~Running(c)

\* The task core c is at.
Now(c) == Program[job][c][pc[c]]
At(c, op) == Running(c) /\ Now(c).op = op

Touch(t, u) == t.rows \cap u.rows # {} /\ t.cols \cap u.cols # {}

\* What the output holds on the tile of core c's task, and elsewhere.
Inside(c) == {id \in C : Touch(TaskAt(id), Now(c))}
Outside(c) == C \ Inside(c)

\* mutant: a task is skipped
AdvanceTwice(c) == pc' = [pc EXCEPT ![c] = @ + 2]

Advance(c) == pc' = [pc EXCEPT ![c] = @ + 1]

----------------------------------------------------------------------------
Init ==
  /\ job \in Jobs
  /\ pc = [c \in Cores |-> 1]
  /\ held = [c \in Cores |-> <<>>]
  /\ C = {}
  /\ copied = {}

\* c1 = C[i + j*lda]; ...
Load(c) ==
  /\ At(c, "acc") /\ held[c] = <<>>
  /\ held' = [held EXCEPT ![c] = <<Inside(c)>>]
  /\ UNCHANGED <<job, pc, C, copied>>

\* C[i + j*lda] = c1 after a load.
Store(c) ==
  /\ At(c, "acc") /\ held[c] # <<>>
  /\ C' = Outside(c) \cup held[c][1] \cup {<<c, pc[c]>>}
  /\ held' = [held EXCEPT ![c] = <<>>]
  /\ Advance(c)
  /\ UNCHANGED <<job, copied>>

\* C[i + j*lda] = c1 with a c1 that started from 0.
Overwrite(c) ==
  /\ At(c, "put")
  /\ C' = Outside(c) \cup {<<c, pc[c]>>}
  /\ Advance(c)
  /\ UNCHANGED <<job, held, copied>>

\* BB[i*lda + k] = B[k*lda + i];
CopyB(c) ==
  /\ At(c, "copy")
  /\ copied' = copied \cup {<<c, pc[c]>>}
  /\ Advance(c)
  /\ UNCHANGED <<job, held, C>>

Step(c) == Load(c) \/ Store(c) \/ Overwrite(c) \/ CopyB(c)

\* barrier(ncores): nobody leaves before all have come.
Barrier ==
  /\ \A c \in Cores : At(c, "bar")
  /\ pc' = [c \in Cores |-> pc[c] + 1]
  /\ UNCHANGED <<job, held, C, copied>>

Next == (\E c \in Cores : Step(c)) \/ Barrier

\* Every core is a hardware thread of its own that nothing suspends, and the
\* barrier is a loop its last arrival releases: while anything can be done,
\* something is.
Spec == Init /\ [][Next]_vars /\ WF_vars(Next)

----------------------------------------------------------------------------
(* Properties *)

\* Every core is at a task of its program or has returned, and memory holds
\* results of tasks of the job only.
TypeOK ==
  /\ job \in Jobs
  /\ \A c \in Cores : pc[c] \in 1 .. Len(Program[job][c]) + 1
  /\ C \subseteq TaskIds /\ copied \subseteq TaskIds
  /\ \A c \in Cores : held[c] # <<>> => held[c][1] \subseteq TaskIds

\* Two tasks that cannot run at the same time: they update elements in common,
\* or one fills the shared copy where the other reads or fills it. A reader
\* of the copy reads B[ks][cols] from it.
SharesCopy(t, u) ==
  /\ t.op = "copy" /\ t.src = "shared" /\ u.src = "shared"
  /\ t.cols \cap u.cols # {} /\ t.ks \cap u.ks # {}

Conflict(t, u) == Touch(t, u) \/ SharesCopy(t, u) \/ SharesCopy(u, t)

\* The barriers core c passes before its task p.
Phase(j, c, p) == Cardinality({q \in 1 .. p - 1 : Program[j][c][q].op = "bar"})

\* How a kernel divides its work, whatever the interleaving: conflicting tasks
\* of two cores are on different sides of a barrier, and a tile that is
\* overwritten is touched by no other task of the job.
PhasesApart(j) ==
  LET tasks == Program[j]
  IN \A a, b \in DOMAIN tasks : a # b =>
       \A p \in DOMAIN tasks[a], q \in DOMAIN tasks[b] :
         Conflict(tasks[a][p], tasks[b][q]) => Phase(j, a, p) # Phase(j, b, q)

PutsAlone(j) ==
  LET tasks == Program[j]
  IN \A a, b \in DOMAIN tasks : \A p \in DOMAIN tasks[a] : tasks[a][p].op = "put" =>
       \A q \in DOMAIN tasks[b] : Touch(tasks[b][q], tasks[a][p]) => a = b /\ p = q

Disciplined(j) == PhasesApart(j) /\ PutsAlone(j)

NoRace ==
  \A a, b \in Cores :
    a # b /\ Running(a) /\ Running(b) => ~Conflict(Now(a), Now(b))

\* No two cores are at conflicting tasks: the kernels split the work so that
\* they need no lock (for instance ad_matmul.c:23, each core its own rows).
RaceFree == Goal[job].divided => NoRace

\* What the cores have stored so far.
Completed ==
  UNION {{c} \X {p \in 1 .. pc[c] - 1 : Program[job][c][p].op \in {"acc", "put"}} :
         c \in Cores}

AllThere == C = Completed

\* No update is lost between a core's load of a tile and its store, in the
\* kernels whose cores have work of their own.
NothingLost == Goal[job].divided => AllThere

\* The copies of elements of column i of B that core c reads at src.
Serves(id, c, src, i) ==
  TaskAt(id).src = src /\ (src = "own" => id[1] = c) /\ i \in TaskAt(id).cols

\* A core that works from a copy of B finds there all the elements it reads,
\* its own copies and those other cores had to make before the barrier
\* (ae_matmul.c:38-43).
CopyReady ==
  \A c \in Cores : (At(c, "acc") \/ At(c, "put")) /\ Now(c).src # "input" =>
    \A i \in Now(c).cols :
      Now(c).ks \subseteq
        UNION {TaskAt(id).ks : id \in {x \in copied : Serves(x, c, Now(c).src, i)}}

\* Those of the tasks ids that contributed to a row, or a column.
InRow(ids, row) == {id \in ids : row \in TaskAt(id).rows}
InColumn(ids, col) == {id \in ids : col \in TaskAt(id).cols}

\* The products of an element are each there exactly once.
SumComplete(ids) ==
  \A k \in Goal[job].ks : Cardinality({id \in ids : k \in TaskAt(id).ks}) = 1

\* The tasks write nothing outside the output, and read no row beyond those of B.
InBounds(tasks) ==
  \A id \in tasks : /\ TaskAt(id).rows \subseteq Goal[job].rows
                     /\ TaskAt(id).cols \subseteq Goal[job].cols
                     /\ TaskAt(id).ks \subseteq Goal[job].ks

\* The sets of tasks that contribute to an element of the output.
Contributors(tasks) ==
  UNION {{InColumn(ids, col) : col \in Goal[job].cols} :
         ids \in {InRow(tasks, row) : row \in Goal[job].rows}}

Complete(tasks) ==
  InBounds(tasks) /\ \A ids \in Contributors(tasks) : SumComplete(ids)

\* What a kernel's loops are meant to do, whatever the interleaving: all the
\* tasks of the cores together make the result; and what a task reads from a
\* copy of B, its core copied before it, or some core before a barrier the
\* task comes after.
TasksOf(c, ops) == {p \in DOMAIN Program[job][c] : Program[job][c][p].op \in ops}
AllTasks(ops) == UNION {{c} \X TasksOf(c, ops) : c \in Cores}

WorkMakesResult == Complete(AllTasks({"acc", "put"}))

CopiedBefore(id, c, p) ==
  \/ id[1] = c /\ id[2] < p
  \/ Phase(job, id[1], id[2]) < Phase(job, c, p)

CopiesComeFirst ==
  \A c \in Cores : \A p \in TasksOf(c, {"acc", "put"}) :
    LET t == Program[job][c][p]
    IN t.src # "input" => \A i \in t.cols :
         t.ks \subseteq UNION {TaskAt(id).ks : id \in
           {x \in AllTasks({"copy"}) : Serves(x, c, t.src, i) /\ CopiedBefore(x, c, p)}}

\* When all the cores have returned, the output is the whole sum, whatever the
\* interleaving was: no product lost, none added twice, nothing out of bounds.
\* (Where both cores update one row, products may be lost: cf_matmul.c:23.)
Exact == Goal[job].divided /\ Returned => Complete(C)

\* How a kernel whose cores all add to all elements keeps to whole tiles: tiles
\* of tasks are the same or apart, and each core has one task for a tile.
TilesMatch(j) ==
  \A a, b \in DOMAIN Program[j] :
    \A p \in DOMAIN Program[j][a], q \in DOMAIN Program[j][b] :
      LET t == Program[j][a][p]
          u == Program[j][b][q]
      IN Touch(t, u) => t.rows = u.rows /\ t.cols = u.cols

OneTaskPerTile(j) ==
  \A c \in DOMAIN Program[j] : \A p, q \in DOMAIN Program[j][c] :
    Touch(Program[j][c][p], Program[j][c][q]) => p = q

\* Where all the cores update every element they may lose each other's
\* products: at return an element holds of each core all or none of them, and
\* those of one core at least (cf_matmul.c:23, :61).
HalfSurvives ==
  Goal[job].split /\ Returned => \A row \in Goal[job].rows :
    LET there == InRow(C, row)
        asked == InRow(AllTasks({"acc", "put"}), row)
        Of(c, ids) == {id \in ids : id[1] = c}
    IN \A col \in Goal[job].cols :
         /\ InColumn(there, col) # {}
         /\ \A c \in Cores :
              Of(c, InColumn(there, col)) \in {{}, Of(c, InColumn(asked, col))}

\* All the cores come to the same number of barriers.
BarriersAgree(j) ==
  \A a, b \in DOMAIN Program[j] :
    Phase(j, a, Len(Program[j][a]) + 1) = Phase(j, b, Len(Program[j][b]) + 1)

\* A core that has not returned can go on, or some other can, or all are at the
\* barrier and pass it: no core waits for one that does not come.
NoneStuck ==
  \/ Returned
  \/ \E c \in Cores : At(c, "acc") \/ At(c, "put") \/ At(c, "copy")
  \/ \A c \in Cores : At(c, "bar")

\* All the cores return.
Terminates == <>Returned
=============================================================================
