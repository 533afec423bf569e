--------------------------- MODULE MulticoreProofs ---------------------------
(***************************************************************************)
(* What is proved of every program of Multicore, for any number of cores:  *)
(* the types, that the cores pass the barriers together and none is left   *)
(* at one, that a kernel whose work is divided (Disciplined) has no race   *)
(* and loses no update in any interleaving, and what is left of one whose  *)
(* cores all add to all tiles. That the kernels of riscv-tests/mt are      *)
(* such programs is what TLC checks (WorkDivided).                         *)
(***************************************************************************)
EXTENDS Multicore, FiniteSetTheorems, TLAPS

Loaded == {<<>>} \cup {<<S>> : S \in SUBSET TaskIds}

\* TypeOK, with the domains of the functions.
Typed ==
  /\ job \in Jobs
  /\ pc \in [Cores -> Nat]
  /\ \A c \in Cores : pc[c] \in 1 .. Len(Program[job][c]) + 1
  /\ held \in [Cores -> Loaded]
  /\ C \subseteq TaskIds
  /\ copied \subseteq TaskIds

\* The places core c has passed are places of its program.
LEMMA PlaceInProgram ==
  ASSUME Typed, NEW c \in Cores, Running(c)
  PROVE  /\ pc[c] \in DOMAIN Program[job][c]
         /\ <<c, pc[c]>> \in TaskIds
         /\ pc[c] + 1 \in 1 .. Len(Program[job][c]) + 1
  BY ProgramsAreSequences DEF Typed, Running, Cores, TaskIds

LEMMA AdvanceTyped ==
  ASSUME Typed, NEW c \in Cores, Running(c), Advance(c)
  PROVE  /\ pc' \in [Cores -> Nat]
         /\ \A d \in Cores : pc'[d] \in 1 .. Len(Program[job][d]) + 1
<1>1. pc[c] + 1 \in 1 .. Len(Program[job][c]) + 1
  BY PlaceInProgram
<1>2. pc[c] + 1 \in Nat /\ pc \in [Cores -> Nat]
  BY DEF Typed
<1>3. pc' = [pc EXCEPT ![c] = pc[c] + 1]
  BY DEF Advance
<1>4. ASSUME NEW d \in Cores PROVE pc'[d] \in 1 .. Len(Program[job][d]) + 1
  <2>1. CASE d = c
    BY <1>1, <1>2, <1>3, <2>1
  <2>2. CASE d # c
    BY <1>2, <1>3, <2>2 DEF Typed
  <2> QED
    BY <2>1, <2>2
<1> QED
  BY <1>2, <1>3, <1>4

LEMMA TypedImpliesTypeOK == Typed => TypeOK
  <1> SUFFICES ASSUME Typed PROVE TypeOK
    OBVIOUS
  <1>1. ASSUME NEW c \in Cores, held[c] # <<>> PROVE held[c][1] \subseteq TaskIds
    <2>1. PICK S \in SUBSET TaskIds : held[c] = <<S>>
      BY <1>1 DEF Typed, Loaded
    <2> QED
      BY <2>1
  <1> QED
    BY <1>1 DEF Typed, TypeOK

\* What each step leaves typed.
LEMMA TypedStep ==
  ASSUME Typed, [Next]_vars
  PROVE  Typed'
<1>1. CASE UNCHANGED vars
  BY <1>1 DEF vars, Typed, Cores, TaskIds, Loaded
<1>2. ASSUME NEW c \in Cores, Load(c) PROVE Typed'
  <2>1. Inside(c) \subseteq TaskIds
    BY DEF Typed, Inside
  <2>2. <<Inside(c)>> \in Loaded
    BY <2>1 DEF Loaded
  <2>3. held' \in [Cores -> Loaded]
    BY <1>2, <2>2 DEF Load, Typed
  <2> QED
    BY <1>2, <2>3 DEF Load, Typed, Cores, TaskIds, Loaded
<1>3. ASSUME NEW c \in Cores, Store(c) PROVE Typed'
  <2>1. Running(c)
    BY <1>3 DEF Store, At
  <2>2. held[c][1] \subseteq TaskIds
    BY <1>3, TypedImpliesTypeOK DEF Store, TypeOK
  <2>3. C' \subseteq TaskIds
    BY <1>3, <2>1, <2>2, PlaceInProgram DEF Store, Outside, Typed
  <2>4. held' \in [Cores -> Loaded]
    BY <1>3 DEF Store, Typed, Loaded
  <2>5. /\ pc' \in [Cores -> Nat]
        /\ \A d \in Cores : pc'[d] \in 1 .. Len(Program[job][d]) + 1
    BY <1>3, <2>1, AdvanceTyped DEF Store
  <2> QED
    BY <1>3, <2>3, <2>4, <2>5 DEF Store, Typed, Cores, TaskIds, Loaded
<1>4. ASSUME NEW c \in Cores, Overwrite(c) PROVE Typed'
  <2>1. Running(c)
    BY <1>4 DEF Overwrite, At
  <2>2. C' \subseteq TaskIds
    BY <1>4, <2>1, PlaceInProgram DEF Overwrite, Outside, Typed
  <2>3. /\ pc' \in [Cores -> Nat]
        /\ \A d \in Cores : pc'[d] \in 1 .. Len(Program[job][d]) + 1
    BY <1>4, <2>1, AdvanceTyped DEF Overwrite
  <2> QED
    BY <1>4, <2>2, <2>3 DEF Overwrite, Typed, Cores, TaskIds, Loaded
<1>5. ASSUME NEW c \in Cores, CopyB(c) PROVE Typed'
  <2>1. Running(c)
    BY <1>5 DEF CopyB, At
  <2>2. copied' \subseteq TaskIds
    BY <1>5, <2>1, PlaceInProgram DEF CopyB, Typed
  <2>3. /\ pc' \in [Cores -> Nat]
        /\ \A d \in Cores : pc'[d] \in 1 .. Len(Program[job][d]) + 1
    BY <1>5, <2>1, AdvanceTyped DEF CopyB
  <2> QED
    BY <1>5, <2>2, <2>3 DEF CopyB, Typed, Cores, TaskIds, Loaded
<1>6. CASE Barrier
  <2>1. \A d \in Cores : Running(d)
    BY <1>6 DEF Barrier, At
  <2>2. pc' \in [Cores -> Nat]
    BY <1>6 DEF Barrier, Typed
  <2>3. ASSUME NEW d \in Cores PROVE pc'[d] \in 1 .. Len(Program[job][d]) + 1
    <3>1. pc'[d] = pc[d] + 1
      BY <1>6 DEF Barrier
    <3> QED
      BY <2>1, <3>1, PlaceInProgram
  <2> QED
    BY <1>6, <2>2, <2>3 DEF Barrier, Typed, Cores, TaskIds, Loaded
<1> QED
  BY <1>1, <1>2, <1>3, <1>4, <1>5, <1>6 DEF Next, Step

LEMMA InitTyped == Init => Typed
  <1> SUFFICES ASSUME Init PROVE Typed
    OBVIOUS
  <1>1. \A c \in Cores : Len(Program[job][c]) \in Nat
    BY ProgramsAreSequences DEF Init, Cores
  <1> QED
    BY <1>1 DEF Init, Typed, Loaded

\* Every core is always at a task of its program or has returned, and memory
\* holds results of tasks of the job only.
THEOREM CoresTyped == Spec => []TypeOK
<1>1. Init => Typed
  BY InitTyped
<1>2. Typed /\ [Next]_vars => Typed'
  BY TypedStep
<1>3. Typed => TypeOK
  BY TypedImpliesTypeOK
<1> QED
  BY <1>1, <1>2, <1>3, PTL DEF Spec

----------------------------------------------------------------------------
(* The barriers keep the cores in step. *)

Bars(j, c, p) == {q \in 1 .. p - 1 : Program[j][c][q].op = "bar"}

LEMMA PhaseIsCount ==
  ASSUME NEW j, NEW c, NEW p \in Nat
  PROVE  Phase(j, c, p) = Cardinality(Bars(j, c, p)) /\ IsFiniteSet(Bars(j, c, p))
         /\ Phase(j, c, p) \in Nat
<1>1. IsFiniteSet(1 .. p - 1)
  BY FS_Interval
<1>2. IsFiniteSet(Bars(j, c, p))
  BY <1>1, FS_Subset DEF Bars
<1> QED
  BY <1>2, FS_CardinalityType DEF Phase, Bars

\* The phase goes up by one at a barrier, and only there.
LEMMA PhaseNext ==
  ASSUME NEW j, NEW c, NEW p \in Nat \ {0}
  PROVE  Phase(j, c, p + 1) =
           IF Program[j][c][p].op = "bar" THEN Phase(j, c, p) + 1 ELSE Phase(j, c, p)
<1>1. /\ p + 1 \in Nat /\ p \notin Bars(j, c, p)
      /\ 1 .. (p + 1) - 1 = (1 .. p - 1) \cup {p}
  BY DEF Bars
<1> DEFINE now == Phase(j, c, p)
           next == Phase(j, c, p + 1)
<1>a. now = Cardinality(Bars(j, c, p)) /\ IsFiniteSet(Bars(j, c, p)) /\ now \in Nat
  BY PhaseIsCount
<1>b. next = Cardinality(Bars(j, c, p + 1))
  BY <1>1, PhaseIsCount
<1> HIDE DEF now, next
<1>2. CASE Program[j][c][p].op = "bar"
  <2>1. Bars(j, c, p + 1) = Bars(j, c, p) \cup {p}
    BY <1>1, <1>2 DEF Bars
  <2>2. Cardinality(Bars(j, c, p) \cup {p}) = Cardinality(Bars(j, c, p)) + 1
    BY <1>1, <1>a, FS_AddElement
  <2>3. next = now + 1
    BY <1>a, <1>b, <2>1, <2>2
  <2> QED
    BY <1>2, <2>3 DEF now, next
<1>3. CASE Program[j][c][p].op # "bar"
  <2>1. Bars(j, c, p + 1) = Bars(j, c, p)
    BY <1>1, <1>3 DEF Bars
  <2>2. next = now
    BY <1>a, <1>b, <2>1
  <2> QED
    BY <1>3, <2>2 DEF now, next
<1> QED
  BY <1>2, <1>3

\* All the cores have passed the same number of barriers.
SamePhase ==
  \A a, b \in Cores : Phase(job, a, pc[a]) = Phase(job, b, pc[b])

\* A core that steps stays in its phase; at a barrier all enter the next.
LEMMA SamePhaseStep ==
  ASSUME Typed, SamePhase, [Next]_vars
  PROVE  SamePhase'
<1> USE DEF SamePhase
<1>0. \A c \in Cores : pc[c] \in Nat \ {0}
  BY DEF Typed
<1>1. CASE UNCHANGED vars
  BY <1>1 DEF vars, Cores
<1>2. ASSUME NEW c \in Cores, Load(c) PROVE SamePhase'
  BY <1>2 DEF Load, Cores
<1>3. ASSUME NEW c \in Cores, At(c, "acc") \/ At(c, "put") \/ At(c, "copy"),
             Advance(c), UNCHANGED job
      PROVE  SamePhase'
  <2>1. Phase(job, c, pc[c] + 1) = Phase(job, c, pc[c])
    BY <1>0, <1>3, PhaseNext DEF At, Now
  <2>2. \A d \in Cores : Phase(job, d, pc'[d]) = Phase(job, d, pc[d])
    BY <1>3, <2>1 DEF Advance, Typed
  <2> QED
    BY <1>3, <2>2 DEF Cores
<1>4. CASE Barrier
  <2>1. \A d \in Cores : pc'[d] = pc[d] + 1 /\ Program[job][d][pc[d]].op = "bar"
    BY <1>4 DEF Barrier, At, Now
  <2>2. \A d \in Cores : Phase(job, d, pc'[d]) = Phase(job, d, pc[d]) + 1
    BY <1>0, <2>1, PhaseNext
  <2> QED
    BY <1>4, <2>2 DEF Barrier, Cores
<1> QED
  BY <1>1, <1>2, <1>3, <1>4 DEF Next, Step, Store, Overwrite, CopyB

LEMMA InitSamePhase == Init => SamePhase
  <1> SUFFICES ASSUME Init, NEW a \in Cores, NEW b \in Cores
      PROVE Phase(job, a, pc[a]) = Phase(job, b, pc[b])
    BY DEF SamePhase
  <1>1. pc[a] = 1 /\ pc[b] = 1
    BY DEF Init
  <1>2. Bars(job, a, 1) = {} /\ Bars(job, b, 1) = {}
    BY DEF Bars
  <1> QED
    BY <1>1, <1>2, PhaseIsCount

----------------------------------------------------------------------------
(* A kernel whose work is divided. *)

LEMMA ApartMeansNoRace ==
  ASSUME Typed, SamePhase, PhasesApart(job)
  PROVE  NoRace
<1> SUFFICES ASSUME NEW a \in Cores, NEW b \in Cores, a # b, Running(a), Running(b)
    PROVE ~Conflict(Now(a), Now(b))
  BY DEF NoRace
<1>1. pc[a] \in DOMAIN Program[job][a] /\ pc[b] \in DOMAIN Program[job][b]
  BY PlaceInProgram
<1>2. Phase(job, a, pc[a]) = Phase(job, b, pc[b])
  BY DEF SamePhase
<1> QED
  BY <1>1, <1>2 DEF PhasesApart, Cores, Now

\* Two cores are never at conflicting tasks, in a kernel that divides the work
\* by the barriers.
THEOREM DividedIsRaceFree == Spec => [](PhasesApart(job) => RaceFree)
<1>1. Init => Typed /\ SamePhase
  BY InitTyped, InitSamePhase
<1>2. Typed /\ SamePhase /\ [Next]_vars => Typed' /\ SamePhase'
  BY TypedStep, SamePhaseStep
<1>3. Typed /\ SamePhase => (PhasesApart(job) => RaceFree)
  BY ApartMeansNoRace DEF RaceFree
<1> QED
  BY <1>1, <1>2, <1>3, PTL DEF Spec

\* Memory holds what was stored, and what a core has loaded is still there.
Kept ==
  /\ AllThere
  /\ \A c \in Cores : held[c] # <<>> => At(c, "acc") /\ held[c] = <<Inside(c)>>

LEMMA InCompleted ==
  ASSUME NEW id
  PROVE  id \in Completed <=>
           \E d \in Cores : \E p \in 1 .. pc[d] - 1 :
             id = <<d, p>> /\ Program[job][d][p].op \in {"acc", "put"}
  BY DEF Completed

LEMMA CompletedAdvance ==
  ASSUME Typed, NEW c \in Cores, Running(c), Advance(c), UNCHANGED job
  PROVE  Completed' = IF Now(c).op \in {"acc", "put"}
                      THEN Completed \cup {<<c, pc[c]>>} ELSE Completed
<1>1. /\ \A d \in Cores : pc[d] \in Nat \ {0}
      /\ Cores' = Cores
      /\ pc'[c] = pc[c] + 1
      /\ \A d \in Cores : d # c => pc'[d] = pc[d]
  BY DEF Typed, Cores, Advance
<1>2. 1 .. pc'[c] - 1 = (1 .. pc[c] - 1) \cup {pc[c]}
  BY <1>1
<1>3. ASSUME NEW id
      PROVE  id \in Completed' <=>
               id \in Completed
                 \/ (Now(c).op \in {"acc", "put"} /\ id = <<c, pc[c]>>)
  <2>1. id \in Completed' <=>
          \E d \in Cores : \E p \in 1 .. pc'[d] - 1 :
            id = <<d, p>> /\ Program[job][d][p].op \in {"acc", "put"}
    BY <1>1 DEF Completed
  <2>2. (\E p \in 1 .. pc'[c] - 1 :
            id = <<c, p>> /\ Program[job][c][p].op \in {"acc", "put"})
        <=> \/ \E p \in 1 .. pc[c] - 1 :
                 id = <<c, p>> /\ Program[job][c][p].op \in {"acc", "put"}
            \/ Now(c).op \in {"acc", "put"} /\ id = <<c, pc[c]>>
    BY <1>2 DEF Now
  <2> QED
    BY <1>1, <2>1, <2>2, InCompleted
<1> QED
  BY <1>3

\* The barrier completes no task.
LEMMA BarrierCompletes ==
  ASSUME Typed, Barrier
  PROVE  Completed' = Completed
<1>1. Cores' = Cores /\ job' = job
  BY DEF Barrier, Cores
<1>2. \A d \in Cores : pc'[d] = pc[d] + 1 /\ Program[job][d][pc[d]].op = "bar"
  BY DEF Barrier, At, Now
<1>3. \A d \in Cores : 1 .. pc'[d] - 1 = (1 .. pc[d] - 1) \cup {pc[d]}
  BY <1>2 DEF Typed
<1>4. ASSUME NEW id PROVE id \in Completed' <=> id \in Completed
  <2>1. id \in Completed' <=>
          \E d \in Cores : \E p \in 1 .. pc'[d] - 1 :
            id = <<d, p>> /\ Program[job][d][p].op \in {"acc", "put"}
    BY <1>1 DEF Completed
  <2> QED
    BY <1>2, <1>3, <2>1, InCompleted
<1> QED
  BY <1>4

\* A store of core c that adds its task to C leaves what others hold in place.
LEMMA OthersKept ==
  ASSUME Typed, NoRace, Kept, NEW c \in Cores, Running(c), Advance(c), UNCHANGED job,
         C' = C \cup {<<c, pc[c]>>} \/ C' = C,
         NEW d \in Cores, d # c, held'[d] = held[d], held[d] # <<>>
  PROVE  At(d, "acc")' /\ held'[d] = <<Inside(d)'>>
<1>1. At(d, "acc") /\ held[d] = <<Inside(d)>>
  BY DEF Kept
<1>2. pc'[d] = pc[d] /\ Cores' = Cores
  BY DEF Advance, Typed, Cores
<1>3. Now(d)' = Now(d) /\ At(d, "acc")'
  BY <1>1, <1>2 DEF Now, At, Running
<1>4. ~Touch(Now(c), Now(d))
  BY <1>1 DEF NoRace, Conflict, At
<1>5. TaskAt(<<c, pc[c]>>) = Now(c)
  BY DEF TaskAt, Now
<1>6. Inside(d)' = {id \in C' : Touch(TaskAt(id), Now(d))}
  BY <1>3 DEF Inside, TaskAt, Touch
<1>7. Inside(d)' = Inside(d)
  BY <1>4, <1>5, <1>6 DEF Inside
<1> QED
  BY <1>1, <1>3, <1>7

LEMMA KeptStep ==
  ASSUME Typed, SamePhase, Disciplined(job), Kept, [Next]_vars
  PROVE  Kept'
<1>0. NoRace
  BY ApartMeansNoRace DEF Disciplined
<1>1. CASE UNCHANGED vars
  BY <1>1 DEF vars, Kept, AllThere, Completed, Cores, At, Running, Now, Inside, TaskAt
<1>2. ASSUME NEW c \in Cores, Load(c) PROVE Kept'
  <2>1. /\ Cores' = Cores /\ C' = C /\ Completed' = Completed
        /\ \A d \in Cores : At(d, "acc")' = At(d, "acc") /\ Inside(d)' = Inside(d)
    BY <1>2 DEF Load, Cores, Completed, At, Running, Now, Inside, TaskAt
  <2>2. held'[c] = <<Inside(c)>> /\ At(c, "acc")
    BY <1>2 DEF Load, Typed
  <2>3. \A d \in Cores : d # c => held'[d] = held[d]
    BY <1>2 DEF Load, Typed
  <2> QED
    BY <2>1, <2>2, <2>3 DEF Kept, AllThere
<1>3. ASSUME NEW c \in Cores, Store(c) PROVE Kept'
  <2>1. Running(c) /\ Now(c).op = "acc" /\ Advance(c) /\ job' = job /\ Cores' = Cores
    BY <1>3 DEF Store, At, Cores
  <2>2. held[c][1] = Inside(c)
    BY <1>3 DEF Store, Kept
  <2>3. C' = C \cup {<<c, pc[c]>>}
    BY <1>3, <2>2 DEF Store, Inside, Outside
  <2>4. Completed' = Completed \cup {<<c, pc[c]>>}
    BY <2>1, CompletedAdvance
  <2>5. held'[c] = <<>> /\ \A d \in Cores : d # c => held'[d] = held[d]
    BY <1>3 DEF Store, Typed
  <2>6. ASSUME NEW d \in Cores, held'[d] # <<>>
        PROVE  At(d, "acc")' /\ held'[d] = <<Inside(d)'>>
    BY <1>0, <2>1, <2>3, <2>5, <2>6, OthersKept
  <2> QED
    BY <2>1, <2>3, <2>4, <2>6 DEF Kept, AllThere
<1>4. ASSUME NEW c \in Cores, Overwrite(c) PROVE Kept'
  <2>1. /\ Running(c) /\ Now(c).op = "put" /\ Advance(c) /\ job' = job /\ Cores' = Cores
        /\ held' = held
    BY <1>4 DEF Overwrite, At, Cores
  <2>2. Inside(c) = {}
    <3>1. SUFFICES ASSUME NEW id \in C, Touch(TaskAt(id), Now(c)) PROVE FALSE
      BY DEF Inside
    <3>0. PICK d \in Cores : \E p \in 1 .. pc[d] - 1 : id = <<d, p>>
      BY InCompleted DEF Kept, AllThere
    <3>2. PICK p \in 1 .. pc[d] - 1 : id = <<d, p>>
      BY <3>0
    <3>3. p \in DOMAIN Program[job][d] /\ pc[c] \in DOMAIN Program[job][c] /\ p # pc[d]
      <4>1. pc[c] \in DOMAIN Program[job][c]
        BY <2>1, PlaceInProgram
      <4>2. /\ DOMAIN Program[job][d] = 1 .. Len(Program[job][d])
            /\ Len(Program[job][d]) \in Nat
        BY ProgramsAreSequences DEF Typed, Cores
      <4>3. pc[d] \in Nat /\ pc[d] <= Len(Program[job][d]) + 1
        BY <4>2 DEF Typed
      <4>4. p \in DOMAIN Program[job][d] /\ p # pc[d]
        BY <4>2, <4>3, <3>2
      <4> QED
        BY <4>1, <4>4
    <3>4. d = c /\ p = pc[c]
      BY <2>1, <3>1, <3>2, <3>3 DEF Disciplined, PutsAlone, TaskAt, Now, Cores
    <3> QED
      BY <3>3, <3>4
  <2>3. C' = C \cup {<<c, pc[c]>>}
    BY <1>4, <2>2 DEF Overwrite, Outside
  <2>4. Completed' = Completed \cup {<<c, pc[c]>>}
    BY <2>1, CompletedAdvance
  <2>5. held[c] = <<>>
    BY <2>1 DEF Kept, At
  <2>6. ASSUME NEW d \in Cores, held'[d] # <<>>
        PROVE  At(d, "acc")' /\ held'[d] = <<Inside(d)'>>
    BY <1>0, <2>1, <2>3, <2>5, <2>6, OthersKept
  <2> QED
    BY <2>1, <2>3, <2>4, <2>6 DEF Kept, AllThere
<1>5. ASSUME NEW c \in Cores, CopyB(c) PROVE Kept'
  <2>1. /\ Running(c) /\ Now(c).op = "copy" /\ Advance(c) /\ job' = job /\ Cores' = Cores
        /\ held' = held /\ C' = C
    BY <1>5 DEF CopyB, At, Cores
  <2>2. Completed' = Completed
    BY <2>1, CompletedAdvance
  <2>3. held[c] = <<>>
    BY <2>1 DEF Kept, At
  <2>4. ASSUME NEW d \in Cores, held'[d] # <<>>
        PROVE  At(d, "acc")' /\ held'[d] = <<Inside(d)'>>
    BY <1>0, <2>1, <2>3, <2>4, OthersKept
  <2> QED
    BY <2>1, <2>2, <2>4 DEF Kept, AllThere
<1>6. CASE Barrier
  <2>1. /\ Cores' = Cores /\ held' = held /\ C' = C /\ job' = job
        /\ \A d \in Cores : pc'[d] = pc[d] + 1 /\ Program[job][d][pc[d]].op = "bar"
    BY <1>6 DEF Barrier, Cores, At, Now
  <2>2. \A d \in Cores : held[d] = <<>>
    BY <2>1 DEF Kept, At, Now
  <2>3. Completed' = Completed
    BY <1>6, BarrierCompletes
  <2> QED
    BY <2>1, <2>2, <2>3 DEF Kept, AllThere
<1> QED
  BY <1>1, <1>2, <1>3, <1>4, <1>5, <1>6 DEF Next, Step

LEMMA InitKept == Init => Kept
  <1> SUFFICES ASSUME Init PROVE Kept
    OBVIOUS
  <1>1. \A c \in Cores : 1 .. pc[c] - 1 = {} /\ held[c] = <<>>
    BY DEF Init
  <1>2. Completed = {}
    BY <1>1, InCompleted
  <1> QED
    BY <1>1, <1>2 DEF Kept, AllThere, Init

\* A kernel whose work is divided loses no update: whatever the interleaving,
\* memory holds the products of all the tasks the cores are past.
THEOREM DividedLosesNothing == Spec => [](Disciplined(job) => NothingLost)
<1> DEFINE Inv == Typed /\ SamePhase /\ (Disciplined(job) => Kept)
<1>1. Init => Inv
  BY InitTyped, InitSamePhase, InitKept
<1>2. Inv /\ [Next]_vars => Inv'
  <2>1. SUFFICES ASSUME Inv, [Next]_vars PROVE Inv'
    OBVIOUS
  <2>2. job' = job
    BY <2>1 DEF Next, Step, Load, Store, Overwrite, CopyB, Barrier, vars
  <2>3. Disciplined(job)' => Disciplined(job)
    BY <2>2 DEF Disciplined, PhasesApart, PutsAlone, Phase, Conflict, SharesCopy, Touch
  <2> QED
    BY <2>1, <2>3, TypedStep, SamePhaseStep, KeptStep
<1>3. Inv => (Disciplined(job) => NothingLost)
  BY DEF Kept, NothingLost
<1> QED
  BY <1>1, <1>2, <1>3, PTL DEF Spec

----------------------------------------------------------------------------
(* What the loops of a kernel are meant to do is what it does. *)

\* The definitions that speak of the job alone do not change as it runs.
LEMMA JobStays == [Next]_vars => job' = job
  BY DEF Next, Step, Load, Store, Overwrite, CopyB, Barrier, vars

LEMMA AllStored ==
  ASSUME Typed, Returned
  PROVE  Completed = AllTasks({"acc", "put"})
<1>1. ASSUME NEW c \in Cores
      PROVE  {p \in 1 .. pc[c] - 1 : Program[job][c][p].op \in {"acc", "put"}}
             = TasksOf(c, {"acc", "put"})
  <2>1. /\ DOMAIN Program[job][c] = 1 .. Len(Program[job][c])
        /\ Len(Program[job][c]) \in Nat
    BY ProgramsAreSequences DEF Typed, Cores
  <2>2. pc[c] = Len(Program[job][c]) + 1
    BY <2>1 DEF Typed, Returned, Running
  <2>3. 1 .. pc[c] - 1 = DOMAIN Program[job][c]
    BY <2>1, <2>2
  <2> QED
    BY <2>3 DEF TasksOf
<1> QED
  BY <1>1 DEF Completed, AllTasks

\* When the tasks of a kernel together make the result, and its work is divided,
\* then the result is exact in every interleaving: no product is lost, none is
\* added twice and nothing is out of bounds.
THEOREM DividedIsExact == Spec => [](Disciplined(job) /\ WorkMakesResult => Exact)
<1>1. Spec => []Typed
  <2>1. Typed /\ [Next]_vars => Typed'
    BY TypedStep
  <2> QED
    BY <2>1, InitTyped, PTL DEF Spec
<1>2. Typed /\ (Disciplined(job) => NothingLost) =>
        (Disciplined(job) /\ WorkMakesResult => Exact)
  BY AllStored DEF NothingLost, AllThere, WorkMakesResult, Exact
<1> QED
  BY <1>1, <1>2, DividedLosesNothing, PTL

\* The copies a core is past are made.
CopiesMade ==
  \A c \in Cores : \A p \in TasksOf(c, {"copy"}) : p < pc[c] => <<c, p>> \in copied

LEMMA CopiesMadeStep ==
  ASSUME Typed, CopiesMade, [Next]_vars
  PROVE  CopiesMade'
<1>1. job' = job /\ Cores' = Cores /\ \A c, ops : TasksOf(c, ops)' = TasksOf(c, ops)
  BY JobStays DEF Cores, TasksOf
<1>2. copied \subseteq copied'
  BY DEF Next, Step, Load, Store, Overwrite, CopyB, Barrier, vars
<1>3. \A c \in Cores : pc[c] \in Nat
  BY DEF Typed
<1>4. \A c \in Cores : \A p \in TasksOf(c, {"copy"}) : p \in Nat
  BY ProgramsAreSequences DEF Typed, Cores, TasksOf
<1>5. SUFFICES ASSUME NEW c \in Cores, NEW p \in TasksOf(c, {"copy"}), p < pc'[c], ~(p < pc[c])
      PROVE  <<c, p>> \in copied'
  BY <1>1, <1>2 DEF CopiesMade
<1>6. Program[job][c][p].op = "copy"
  BY DEF TasksOf
<1>7. ASSUME NEW d \in Cores, Running(d), Advance(d)
      PROVE  c = d /\ p = pc[c]
  <2>1. \A e \in Cores : pc'[e] = IF e = d THEN pc[e] + 1 ELSE pc[e]
    BY <1>7 DEF Typed, Advance
  <2> QED
    BY <1>3, <1>4, <1>5, <2>1
<1>8. ASSUME NEW d \in Cores, Step(d) PROVE <<c, p>> \in copied'
  <2>1. CASE Load(d)
    BY <1>5, <2>1 DEF Load
  <2>2. CASE Store(d) \/ Overwrite(d)
    <3>1. Running(d) /\ Advance(d) /\ Now(d).op \in {"acc", "put"}
      BY <2>2 DEF Store, Overwrite, At
    <3> QED
      BY <1>6, <1>7, <3>1 DEF Now
  <2>3. CASE CopyB(d)
    <3>1. Running(d) /\ Advance(d) /\ copied' = copied \cup {<<d, pc[d]>>}
      BY <2>3 DEF CopyB, At
    <3> QED
      BY <1>7, <3>1
  <2> QED
    BY <1>8, <2>1, <2>2, <2>3 DEF Step
<1>9. CASE Barrier
  <2>1. pc'[c] = pc[c] + 1 /\ Program[job][c][pc[c]].op = "bar"
    BY <1>9 DEF Barrier, At, Now
  <2>2. p = pc[c]
    BY <1>3, <1>4, <1>5, <2>1
  <2> QED
    BY <1>6, <2>1, <2>2
<1>10. CASE UNCHANGED vars
  BY <1>5, <1>10 DEF vars
<1> QED
  BY <1>8, <1>9, <1>10 DEF Next

\* A core has passed no more barriers than it had at a place it is still before.
LEMMA PhaseGrows ==
  ASSUME NEW j, NEW c, NEW p \in Nat, NEW q \in Nat, p <= q
  PROVE  Phase(j, c, p) <= Phase(j, c, q)
<1>1. Bars(j, c, p) \in SUBSET Bars(j, c, q)
  BY DEF Bars
<1>2. IsFiniteSet(Bars(j, c, q))
  BY PhaseIsCount
<1>3. Cardinality(Bars(j, c, p)) <= Cardinality(Bars(j, c, q))
  BY <1>1, <1>2, FS_Subset
<1> QED
  BY <1>3, PhaseIsCount

LEMMA ReadyToRead ==
  ASSUME Typed, SamePhase, CopiesMade, CopiesComeFirst
  PROVE  CopyReady
<1> SUFFICES ASSUME NEW c \in Cores, At(c, "acc") \/ At(c, "put"), Now(c).src # "input",
                    NEW i \in Now(c).cols, NEW k \in Now(c).ks
    PROVE \E id \in copied : Serves(id, c, Now(c).src, i) /\ k \in TaskAt(id).ks
  BY DEF CopyReady
<1>1. Running(c) /\ pc[c] \in DOMAIN Program[job][c] /\ Program[job][c][pc[c]] = Now(c)
  BY PlaceInProgram DEF At, Now
<1>2. pc[c] \in TasksOf(c, {"acc", "put"})
  BY <1>1 DEF TasksOf, At
<1>3. PICK id \in AllTasks({"copy"}) :
        Serves(id, c, Now(c).src, i) /\ CopiedBefore(id, c, pc[c]) /\ k \in TaskAt(id).ks
  BY <1>1, <1>2 DEF CopiesComeFirst
<1>4. PICK d \in Cores : \E p \in TasksOf(d, {"copy"}) : id = <<d, p>>
  BY DEF AllTasks
<1>5. PICK p \in TasksOf(d, {"copy"}) : id = <<d, p>>
  BY <1>4
<1>6. p \in Nat /\ pc[d] \in Nat /\ pc[c] \in Nat
  BY ProgramsAreSequences DEF Typed, Cores, TasksOf
<1>7. p < pc[d]
  <2>1. CASE d = c /\ p < pc[c]
    BY <2>1
  <2>2. CASE Phase(job, d, p) < Phase(job, c, pc[c])
    <3>1. Phase(job, c, pc[c]) = Phase(job, d, pc[d])
      BY DEF SamePhase
    <3>2. Phase(job, d, p) \in Nat /\ Phase(job, d, pc[d]) \in Nat
      BY <1>6, PhaseIsCount
    <3>3. ~(pc[d] <= p)
      BY <1>6, <2>2, <3>1, <3>2, PhaseGrows
    <3> QED
      BY <1>6, <3>3
  <2> QED
    BY <1>3, <1>5, <2>1, <2>2 DEF CopiedBefore
<1>8. id \in copied
  BY <1>5, <1>7 DEF CopiesMade
<1> QED
  BY <1>3, <1>8

\* When what a task reads from a copy of B is copied before it, by its own core
\* or before a barrier, then it is there in every interleaving.
THEOREM CopiesAreReady == Spec => [](CopiesComeFirst => CopyReady)
<1> DEFINE Inv == Typed /\ SamePhase /\ CopiesMade
<1>1. Init => Inv
  <2>1. Init => CopiesMade
    <3> SUFFICES ASSUME Init PROVE CopiesMade
      OBVIOUS
    <3>1. \A c \in Cores : pc[c] = 1 /\ \A p \in TasksOf(c, {"copy"}) : p \in Nat \ {0}
      BY ProgramsAreSequences DEF Init, Cores, TasksOf
    <3> QED
      BY <3>1 DEF CopiesMade
  <2> QED
    BY <2>1, InitTyped, InitSamePhase
<1>2. Inv /\ [Next]_vars => Inv'
  BY TypedStep, SamePhaseStep, CopiesMadeStep
<1>3. Inv => (CopiesComeFirst => CopyReady)
  BY ReadyToRead
<1> QED
  BY <1>1, <1>2, <1>3, PTL DEF Spec

----------------------------------------------------------------------------
(* No core waits for ever. *)

\* Where a core stands: it has returned, or it is at a task.
LEMMA Standing ==
  ASSUME Typed, NEW c \in Cores
  PROVE  \/ pc[c] = Len(Program[job][c]) + 1
         \/ At(c, "acc") \/ At(c, "put") \/ At(c, "copy") \/ At(c, "bar")
<1>1. /\ DOMAIN Program[job][c] = 1 .. Len(Program[job][c])
      /\ Len(Program[job][c]) \in Nat
  BY ProgramsAreSequences DEF Typed, Cores
<1>2. CASE Running(c)
  <2>1. pc[c] \in DOMAIN Program[job][c]
    BY <1>2, PlaceInProgram
  <2>2. Now(c).op \in {"acc", "put", "copy", "bar"}
    BY <2>1, ProgramsAreSequences DEF Typed, Cores, Now
  <2> QED
    BY <1>2, <2>2 DEF At
<1>3. CASE ~Running(c)
  BY <1>1, <1>3 DEF Running, Typed
<1> QED
  BY <1>2, <1>3

\* A core at a barrier has passed fewer than there are in its program.
LEMMA BarrierAhead ==
  ASSUME Typed, NEW c \in Cores, At(c, "bar")
  PROVE  Phase(job, c, pc[c]) < Phase(job, c, Len(Program[job][c]) + 1)
<1> DEFINE last == Len(Program[job][c])
<1>1. last \in Nat /\ pc[c] \in Nat \ {0} /\ pc[c] <= last
  BY ProgramsAreSequences DEF Typed, Cores, At, Running
<1>2. Phase(job, c, pc[c] + 1) = Phase(job, c, pc[c]) + 1
  BY <1>1, PhaseNext DEF At, Now
<1>3. pc[c] + 1 \in Nat /\ last + 1 \in Nat /\ pc[c] + 1 <= last + 1 /\ pc[c] \in Nat
  BY <1>1
<1>4. Phase(job, c, pc[c] + 1) <= Phase(job, c, last + 1)
  BY <1>3, PhaseGrows
<1>5. Phase(job, c, pc[c]) \in Nat /\ Phase(job, c, last + 1) \in Nat
  BY <1>3, PhaseIsCount
<1> QED
  BY <1>2, <1>4, <1>5

\* If all the cores of a kernel have the same number of barriers in their
\* programs, then in every interleaving some core can go on until all have
\* returned: a core that waits at a barrier waits for cores that still come.
THEOREM NoCoreStuck == Spec => [](BarriersAgree(job) => NoneStuck)
<1>1. Typed /\ SamePhase => (BarriersAgree(job) => NoneStuck)
  <2> SUFFICES ASSUME Typed, SamePhase, BarriersAgree(job), ~NoneStuck
      PROVE  FALSE
    OBVIOUS
  <2>1. PICK a \in Cores : Running(a)
    BY DEF NoneStuck, Returned
  <2>2. ~(pc[a] = Len(Program[job][a]) + 1)
    BY <2>1, ProgramsAreSequences DEF Running, Typed, Cores
  <2>3. At(a, "bar")
    BY <2>2, Standing DEF NoneStuck
  <2>4. PICK b \in Cores : ~At(b, "bar")
    BY DEF NoneStuck
  <2>5. pc[b] = Len(Program[job][b]) + 1
    BY <2>4, Standing DEF NoneStuck
  <2>6. Phase(job, a, pc[a]) = Phase(job, b, Len(Program[job][b]) + 1)
    BY <2>5 DEF SamePhase
  <2>7. Phase(job, a, pc[a]) = Phase(job, a, Len(Program[job][a]) + 1)
    BY <2>6 DEF BarriersAgree, Cores
  <2>8. pc[a] \in Nat
    BY DEF Typed
  <2>9. Phase(job, a, pc[a]) \in Nat
    BY <2>8, PhaseIsCount
  <2> QED
    BY <2>3, <2>7, <2>9, BarrierAhead
<1>2. Typed /\ SamePhase /\ [Next]_vars => Typed' /\ SamePhase'
  BY TypedStep, SamePhaseStep
<1> QED
  BY <1>1, <1>2, InitTyped, InitSamePhase, PTL DEF Spec

\* What a core has left: two steps for each task to come, one less when it has
\* loaded the tile it is to store.
Half(h) == IF h = <<>> THEN 0 ELSE 1
Left(c) == 2 * (Len(Program[job][c]) + 1 - pc[c]) - Half(held[c])

\* Every step brings some core nearer to its return and none further from it,
\* so that together with NoCoreStuck a kernel can only go on to its end.
THEOREM StepsLeadOn ==
  Spec => [][/\ \A c \in Cores : Left(c) \in Nat /\ Left(c)' <= Left(c)
             /\ Cores # {} => \E c \in Cores : Left(c)' < Left(c)]_vars
<1> DEFINE LeadsOn == /\ \A c \in Cores : Left(c) \in Nat /\ Left(c)' <= Left(c)
                      /\ Cores # {} => \E c \in Cores : Left(c)' < Left(c)
           Holding == \A c \in Cores : held[c] # <<>> => At(c, "acc")
           Inv == Typed /\ Holding
<1>1. Init => Inv
  BY InitTyped DEF Init
<1>2. Inv /\ [Next]_vars => Inv'
  <2> SUFFICES ASSUME Inv, [Next]_vars PROVE Holding'
    BY TypedStep
  <2>1. CASE UNCHANGED vars
    BY <2>1 DEF vars, At, Running, Now, Cores
  <2>2. ASSUME NEW c \in Cores, Load(c) PROVE Holding'
    BY <2>2 DEF Load, At, Running, Now, Cores, Typed
  <2>3. ASSUME NEW c \in Cores, Store(c) \/ Overwrite(c) \/ CopyB(c) PROVE Holding'
    <3>1. held'[c] = <<>> /\ job' = job
      BY <2>3 DEF Store, Overwrite, CopyB, Typed, At
    <3>2. \A d \in Cores : d # c => held'[d] = held[d] /\ pc'[d] = pc[d]
      BY <2>3 DEF Store, Overwrite, CopyB, Typed, Advance
    <3> QED
      BY <3>1, <3>2 DEF At, Running, Now, Cores
  <2>4. CASE Barrier
    <3>1. \A d \in Cores : held[d] = <<>>
      BY <2>4 DEF Barrier, At
    <3> QED
      BY <2>4, <3>1 DEF Barrier, Cores
  <2> QED
    BY <2>1, <2>2, <2>3, <2>4 DEF Next, Step
<1>3. Inv /\ [Next]_vars => [LeadsOn]_vars
  <2> SUFFICES ASSUME Inv, Next PROVE LeadsOn
    OBVIOUS
  <2>1. job' = job /\ Cores' = Cores /\ \A c \in Cores : Len(Program[job][c]) \in Nat
    BY JobStays, ProgramsAreSequences DEF Cores, Typed
  <2>2. \A c \in Cores : pc[c] \in 1 .. Len(Program[job][c]) + 1
    BY DEF Typed
  <2>3. \A c \in Cores : held[c] # <<>> => pc[c] <= Len(Program[job][c])
    BY DEF At, Running
  <2>4. \A c \in Cores : Left(c) \in Nat
    BY <2>1, <2>2, <2>3 DEF Left, Half
  <2>5. ASSUME NEW c \in Cores, Step(c) PROVE LeadsOn
    <3>1. \A d \in Cores : d # c => pc'[d] = pc[d] /\ held'[d] = held[d]
      BY <2>5 DEF Step, Load, Store, Overwrite, CopyB, Advance, Typed
    <3>2. \/ held[c] = <<>> /\ held'[c] # <<>> /\ pc'[c] = pc[c]
          \/ pc'[c] = pc[c] + 1 /\ held'[c] = <<>>
      <4>1. CASE Load(c)
        BY <4>1 DEF Load, Typed
      <4>2. CASE Store(c)
        BY <4>2 DEF Store, Advance, Typed
      <4>3. CASE Overwrite(c)
        BY <4>3 DEF Overwrite, Advance, Typed, At
      <4>4. CASE CopyB(c)
        BY <4>4 DEF CopyB, Advance, Typed, At
      <4> QED
        BY <2>5, <4>1, <4>2, <4>3, <4>4 DEF Step
    <3>3. \A d \in Cores : d # c => Left(d)' = Left(d)
      BY <2>1, <3>1 DEF Left
    <3>a. /\ Left(c) = 2 * (Len(Program[job][c]) + 1 - pc[c]) - Half(held[c])
          /\ Left(c)' = 2 * (Len(Program[job][c]) + 1 - pc'[c]) - Half(held'[c])
      BY <2>1 DEF Left
    <3>b. /\ pc[c] \in Nat /\ pc'[c] \in Nat /\ Len(Program[job][c]) \in Nat
          /\ Half(held[c]) \in {0, 1} /\ Half(held'[c]) \in {0, 1}
      BY <2>1, <2>2, <3>2 DEF Half
    <3>c. \/ pc'[c] = pc[c] /\ Half(held[c]) = 0 /\ Half(held'[c]) = 1
          \/ pc'[c] = pc[c] + 1 /\ Half(held'[c]) = 0
      BY <3>2 DEF Half
    <3>4. Left(c)' < Left(c) /\ Left(c)' \in Int
      <4> DEFINE n == Len(Program[job][c])
                 p == pc[c]
                 q == pc'[c]
                 h == Half(held[c])
                 g == Half(held'[c])
      <4>0. /\ n \in Nat /\ p \in Nat /\ q \in Nat /\ h \in {0, 1} /\ g \in {0, 1}
            /\ (q = p /\ h = 0 /\ g = 1) \/ (q = p + 1 /\ g = 0)
        BY <3>b, <3>c
      <4> HIDE DEF n, p, q, h, g
      <4>1. 2 * (n + 1 - q) - g < 2 * (n + 1 - p) - h /\ 2 * (n + 1 - q) - g \in Int
        BY <4>0
      <4> USE DEF n, p, q, h, g
      <4> QED
        BY <3>a, <4>1
    <3>5. ASSUME NEW d \in Cores PROVE Left(d)' <= Left(d)
      <4>1. CASE d = c
        <5>1. Left(c) \in Nat
          BY <2>4
        <5>2. Left(c)' <= Left(c)
          BY <3>4, <5>1
        <5> QED
          BY <4>1, <5>2
      <4>2. CASE d # c
        <5>1. Left(d)' = Left(d)
          BY <3>3, <4>2
        <5>2. Left(d) \in Nat
          BY <2>4
        <5> HIDE DEF Left
        <5> QED
          BY <5>1, <5>2
      <4> QED
        BY <4>1, <4>2
    <3> QED
      BY <2>4, <3>4, <3>5
  <2>6. CASE Barrier
    <3>1. \A d \in Cores : pc'[d] = pc[d] + 1 /\ held'[d] = held[d] /\ held[d] = <<>>
      BY <2>6 DEF Barrier, At
    <3>2. ASSUME NEW d \in Cores PROVE Left(d)' < Left(d) /\ Left(d)' <= Left(d)
      <4>1. /\ Left(d) = 2 * (Len(Program[job][d]) + 1 - pc[d]) - Half(held[d])
            /\ Left(d)' = 2 * (Len(Program[job][d]) + 1 - pc'[d]) - Half(held'[d])
        BY <2>1 DEF Left
      <4>2. /\ pc[d] \in Nat /\ pc'[d] \in Nat /\ Len(Program[job][d]) \in Nat
            /\ pc'[d] = pc[d] + 1 /\ Half(held[d]) = 0 /\ Half(held'[d]) = 0
        BY <2>1, <2>2, <3>1 DEF Half
      <4>3. /\ 2 * (Len(Program[job][d]) + 1 - pc'[d]) - 0
                 < 2 * (Len(Program[job][d]) + 1 - pc[d]) - 0
            /\ 2 * (Len(Program[job][d]) + 1 - pc'[d]) - 0
                 <= 2 * (Len(Program[job][d]) + 1 - pc[d]) - 0
        BY <4>2, SMTT(30)
      <4> QED
        BY <4>1, <4>2, <4>3
    <3> QED
      BY <2>4, <3>2
  <2> QED
    BY <2>5, <2>6 DEF Next
<1> QED
  BY <1>1, <1>2, <1>3, PTL DEF Spec

----------------------------------------------------------------------------
(* A kernel whose cores all add to all tiles. *)

SameTile(t, u) == t.rows = u.rows /\ t.cols = u.cols
HasTile(t) == t.rows # {} /\ t.cols # {}

\* Memory holds results of tasks that are over, and on each tile of such a task
\* one at least; a core has loaded no others.
Surviving ==
  /\ C \subseteq Completed
  /\ \A id \in Completed : HasTile(TaskAt(id)) =>
       \E x \in C : SameTile(TaskAt(x), TaskAt(id))
  /\ \A c \in Cores : held[c] # <<>> => At(c, "acc") /\ held[c][1] \subseteq Completed

\* A tile that touches the tile of a task of the job is that tile.
LEMMA TouchedIsSame ==
  ASSUME Typed, TilesMatch(job), NEW x \in TaskIds, NEW c \in Cores, Running(c),
         Touch(TaskAt(x), Now(c))
  PROVE  SameTile(TaskAt(x), Now(c))
<1>1. PICK d \in Cores, p \in Nat : x = <<d, p>> /\ p \in DOMAIN Program[job][d]
  BY DEF TaskIds
<1>2. pc[c] \in DOMAIN Program[job][c]
  BY PlaceInProgram
<1> QED
  BY <1>1, <1>2 DEF TilesMatch, TaskAt, Now, Cores, SameTile

\* When core c stores its task, each tile keeps the result of some task.
LEMMA StoreSurvives ==
  ASSUME Typed, TilesMatch(job), Surviving, NEW c \in Cores, Running(c), Advance(c),
         UNCHANGED job, Now(c).op \in {"acc", "put"}, held'[c] = <<>>,
         \A d \in Cores : d # c => held'[d] = held[d],
         NEW S, S \subseteq Completed, C' = Outside(c) \cup S \cup {<<c, pc[c]>>}
  PROVE  Surviving'
<1> DEFINE id == <<c, pc[c]>>
<1>1. /\ Completed' = Completed \cup {id} /\ Cores' = Cores
      /\ \A x : TaskAt(x)' = TaskAt(x)
  BY CompletedAdvance DEF Cores, TaskAt
<1>2. TaskAt(id) = Now(c)
  BY DEF TaskAt, Now
<1>3. C' \subseteq Completed'
  BY <1>1 DEF Surviving, Outside
<1>4. ASSUME NEW y \in Completed', HasTile(TaskAt(y))
      PROVE  \E x \in C' : SameTile(TaskAt(x), TaskAt(y))
  <2>1. CASE y = id
    BY <2>1 DEF SameTile
  <2>2. CASE y \in Completed
    <3>1. PICK x \in C : SameTile(TaskAt(x), TaskAt(y))
      BY <1>4, <2>2 DEF Surviving
    <3>2. CASE x \in Outside(c)
      BY <3>1, <3>2
    <3>3. CASE x \notin Outside(c)
      <4>1. x \in TaskIds /\ Touch(TaskAt(x), Now(c))
        BY <3>3 DEF Outside, Inside, Typed
      <4>2. SameTile(TaskAt(x), Now(c))
        BY <4>1, TouchedIsSame
      <4> QED
        BY <1>2, <3>1, <4>2 DEF SameTile
    <3> QED
      BY <3>2, <3>3
  <2> QED
    BY <1>1, <2>1, <2>2
<1>5. ASSUME NEW d \in Cores, held'[d] # <<>>
      PROVE  At(d, "acc")' /\ held'[d][1] \subseteq Completed'
  <2>1. d # c /\ held'[d] = held[d]
    BY <1>5
  <2>2. At(d, "acc") /\ held[d][1] \subseteq Completed
    BY <1>5, <2>1 DEF Surviving
  <2>3. pc'[d] = pc[d]
    BY <2>1 DEF Advance, Typed
  <2>4. At(d, "acc")'
    BY <1>1, <2>2, <2>3 DEF At, Running, Now
  <2> QED
    BY <1>1, <2>1, <2>2, <2>4
<1> QED
  BY <1>1, <1>3, <1>4, <1>5 DEF Surviving

LEMMA SurvivingStep ==
  ASSUME Typed, TilesMatch(job), Surviving, [Next]_vars
  PROVE  Surviving'
<1>1. CASE UNCHANGED vars
  BY <1>1 DEF vars, Surviving, Completed, Cores, At, Running, Now, TaskAt
<1>2. ASSUME NEW c \in Cores, Load(c) PROVE Surviving'
  <2>1. /\ Cores' = Cores /\ C' = C /\ Completed' = Completed
        /\ \A d \in Cores : At(d, "acc")' = At(d, "acc")
        /\ \A x : TaskAt(x)' = TaskAt(x)
    BY <1>2 DEF Load, Cores, Completed, At, Running, Now, TaskAt
  <2>2. held'[c] = <<Inside(c)>> /\ At(c, "acc") /\ Inside(c) \subseteq Completed
    BY <1>2 DEF Load, Typed, Inside, Surviving
  <2>3. \A d \in Cores : d # c => held'[d] = held[d]
    BY <1>2 DEF Load, Typed
  <2>4. ASSUME NEW d \in Cores, held'[d] # <<>>
        PROVE  At(d, "acc") /\ held'[d][1] \subseteq Completed
    BY <2>2, <2>3, <2>4 DEF Surviving
  <2> QED
    BY <2>1, <2>4 DEF Surviving
<1>3. ASSUME NEW c \in Cores, Store(c) PROVE Surviving'
  <2>1. /\ Running(c) /\ Now(c).op \in {"acc", "put"} /\ Advance(c) /\ job' = job
        /\ held'[c] = <<>> /\ \A d \in Cores : d # c => held'[d] = held[d]
    BY <1>3 DEF Store, At, Typed
  <2>2. /\ held[c][1] \subseteq Completed
        /\ C' = Outside(c) \cup held[c][1] \cup {<<c, pc[c]>>}
    BY <1>3 DEF Store, Surviving
  <2> QED
    BY <2>1, <2>2, StoreSurvives
<1>4. ASSUME NEW c \in Cores, Overwrite(c) PROVE Surviving'
  <2>1. /\ Running(c) /\ Now(c).op \in {"acc", "put"} /\ Advance(c) /\ job' = job
        /\ held'[c] = <<>> /\ \A d \in Cores : d # c => held'[d] = held[d]
    BY <1>4 DEF Overwrite, At, Surviving
  <2>2. {} \subseteq Completed /\ C' = Outside(c) \cup {} \cup {<<c, pc[c]>>}
    BY <1>4 DEF Overwrite
  <2> QED
    BY <2>1, <2>2, StoreSurvives
<1>5. ASSUME NEW c \in Cores, CopyB(c) PROVE Surviving'
  <2>1. /\ Running(c) /\ Now(c).op = "copy" /\ Advance(c) /\ job' = job /\ Cores' = Cores
        /\ held' = held /\ C' = C /\ \A x : TaskAt(x)' = TaskAt(x)
    BY <1>5 DEF CopyB, At, Cores, TaskAt
  <2>2. Completed' = Completed
    BY <2>1, CompletedAdvance
  <2>3. ASSUME NEW d \in Cores, held[d] # <<>>
        PROVE  At(d, "acc")' /\ held[d][1] \subseteq Completed
    <3>1. At(d, "acc") /\ d # c
      BY <2>1, <2>3 DEF Surviving, At
    <3>2. pc'[d] = pc[d]
      BY <2>1, <3>1 DEF Advance, Typed
    <3>3. At(d, "acc")'
      BY <2>1, <3>1, <3>2 DEF At, Running, Now
    <3> QED
      BY <2>3, <3>3 DEF Surviving
  <2> QED
    BY <2>1, <2>2, <2>3 DEF Surviving
<1>6. CASE Barrier
  <2>1. /\ Cores' = Cores /\ held' = held /\ C' = C /\ job' = job
        /\ \A x : TaskAt(x)' = TaskAt(x)
        /\ \A d \in Cores : held[d] = <<>>
    BY <1>6 DEF Barrier, Cores, TaskAt, Surviving, At
  <2>2. Completed' = Completed
    BY <1>6, BarrierCompletes
  <2> QED
    BY <2>1, <2>2 DEF Surviving
<1> QED
  BY <1>1, <1>2, <1>3, <1>4, <1>5, <1>6 DEF Next, Step

\* Of each core at most one task of the job covers an element.
LEMMA SurvivingIsHalf ==
  ASSUME Typed, OneTaskPerTile(job), WorkMakesResult, Goal[job].ks # {}, Surviving
  PROVE  HalfSurvives
<1> DEFINE All == AllTasks({"acc", "put"})
<1> SUFFICES ASSUME Returned, NEW row \in Goal[job].rows, NEW col \in Goal[job].cols
    PROVE /\ InColumn(InRow(C, row), col) # {}
          /\ \A c \in Cores :
               {id \in InColumn(InRow(C, row), col) : id[1] = c}
                 \in {{}, {id \in InColumn(InRow(All, row), col) : id[1] = c}}
  BY DEF HalfSurvives
<1>1. Completed = All
  BY AllStored
<1>2. InColumn(InRow(C, row), col) # {}
  <2>1. PICK k : k \in Goal[job].ks
    OBVIOUS
  <2>2. SumComplete(InColumn(InRow(All, row), col))
    BY DEF WorkMakesResult, Complete, Contributors
  <2>3. {id \in InColumn(InRow(All, row), col) : k \in TaskAt(id).ks} # {}
    BY <2>1, <2>2, FS_EmptySet DEF SumComplete
  <2>4. PICK id \in All : row \in TaskAt(id).rows /\ col \in TaskAt(id).cols
    BY <2>3 DEF InColumn, InRow
  <2>5. PICK x \in C : SameTile(TaskAt(x), TaskAt(id))
    BY <1>1, <2>4 DEF Surviving, HasTile
  <2> QED
    BY <2>4, <2>5 DEF InColumn, InRow, SameTile
<1>3. ASSUME NEW c \in Cores
      PROVE  {id \in InColumn(InRow(C, row), col) : id[1] = c}
               \in {{}, {id \in InColumn(InRow(All, row), col) : id[1] = c}}
  <2>1. {id \in InColumn(InRow(C, row), col) : id[1] = c}
          \subseteq {id \in InColumn(InRow(All, row), col) : id[1] = c}
    BY <1>1 DEF Surviving, InColumn, InRow
  <2>2. ASSUME NEW x \in InColumn(InRow(All, row), col), x[1] = c,
               NEW y \in InColumn(InRow(All, row), col), y[1] = c
        PROVE  x = y
    <3>1. /\ x \in All /\ row \in TaskAt(x).rows /\ col \in TaskAt(x).cols
          /\ y \in All /\ row \in TaskAt(y).rows /\ col \in TaskAt(y).cols
      BY <2>2 DEF InColumn, InRow
    <3>2. PICK p \in TasksOf(c, {"acc", "put"}) : x = <<c, p>>
      BY <2>2, <3>1 DEF AllTasks
    <3>3. PICK q \in TasksOf(c, {"acc", "put"}) : y = <<c, q>>
      BY <2>2, <3>1 DEF AllTasks
    <3>4. /\ TaskAt(x) = Program[job][c][p] /\ p \in DOMAIN Program[job][c]
          /\ TaskAt(y) = Program[job][c][q] /\ q \in DOMAIN Program[job][c]
      BY <3>2, <3>3 DEF TaskAt, TasksOf
    <3>5. Touch(Program[job][c][p], Program[job][c][q])
      BY <3>1, <3>4 DEF Touch
    <3> QED
      BY <3>2, <3>3, <3>4, <3>5 DEF OneTaskPerTile, Cores
  <2> QED
    BY <2>1, <2>2
<1> QED
  BY <1>2, <1>3

\* Where the cores of a kernel all add to whole tiles, each in one task, they may
\* lose each other's products, but at return each element holds all or none of
\* a core's, and those of one core at least (cf_matmul.c:23, :61).
THEOREM SplitLosesWholeTasks ==
  Spec => [](TilesMatch(job) /\ OneTaskPerTile(job) /\ WorkMakesResult /\ Goal[job].ks # {}
               => HalfSurvives)
<1> DEFINE Inv == Typed /\ (TilesMatch(job) => Surviving)
<1>1. Init => Inv
  <2> SUFFICES ASSUME Init PROVE Surviving
    BY InitTyped
  <2>1. \A c \in Cores : 1 .. pc[c] - 1 = {} /\ held[c] = <<>>
    BY DEF Init
  <2>2. Completed = {} /\ C = {}
    BY <2>1, InCompleted DEF Init
  <2> QED
    BY <2>1, <2>2 DEF Surviving
<1>2. Inv /\ [Next]_vars => Inv'
  <2>1. [Next]_vars => (TilesMatch(job)' => TilesMatch(job))
    BY JobStays DEF TilesMatch, Touch
  <2> QED
    BY <2>1, TypedStep, SurvivingStep
<1>3. Inv => (TilesMatch(job) /\ OneTaskPerTile(job) /\ WorkMakesResult
                /\ Goal[job].ks # {} => HalfSurvives)
  BY SurvivingIsHalf
<1> QED
  BY <1>1, <1>2, <1>3, PTL DEF Spec
=============================================================================
