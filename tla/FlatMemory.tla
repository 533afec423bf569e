----------------------------- MODULE FlatMemory -----------------------------
(***************************************************************************)
(* What env/v promises a test program: it runs as if on plain memory. Its  *)
(* pages hold what it stored last, and it ends with the code it passes to  *)
(* the environment call.                                                   *)
(***************************************************************************)
EXTENDS Integers

CONSTANTS
  Pages,   \* the pages of the program
  Data,    \* contents of a page
  Codes    \* exit codes a program passes in a0 (RVTEST_PASS, RVTEST_FAIL)

VARIABLES
  mem,     \* contents of the pages
  out,     \* the last value loaded
  instr,   \* the instruction the program is at, or None
  exit     \* the exit code, or Running

fvars == <<mem, out, instr, exit>>

Running == 0
None == [op |-> "none"]

Fetches == [op : {"fetch"}, page : Pages]
Loads   == [op : {"load"}, page : Pages]
Stores  == [op : {"store"}, page : Pages, data : Data]
Calls   == [op : {"ecall"}, code : Codes]

\* A test may also touch page 0, which is never mapped, and execute the
\* floating-point instruction of RVTEST_FP_ENABLE on hardware without it.
Stray == [op : {"load"}, page : {0}]
FpTests == [op : {"fp"}]

Instructions == Fetches \cup Loads \cup Stores \cup Calls \cup Stray \cup FpTests

FlatInit ==
  mem \in [Pages -> Data] /\ out \in Data /\ instr = None /\ exit = Running

Issue ==
  /\ exit = Running /\ instr = None
  /\ instr' \in Instructions
  /\ UNCHANGED <<mem, out, exit>>

Done == instr' = None /\ UNCHANGED exit

Fetch == instr \in Fetches /\ Done /\ UNCHANGED <<mem, out>>
Load  == instr \in Loads /\ out' = mem[instr.page] /\ Done /\ UNCHANGED mem
Store ==
  /\ instr \in Stores
  /\ mem' = [mem EXCEPT ![instr.page] = instr.data]
  /\ Done /\ UNCHANGED out

\* The program ends; what is left in memory then, or on the way, nothing is
\* promised of.
Exit ==
  /\ \/ instr \in Calls /\ exit' \in {Running, instr.code}
     \/ instr \in Stray /\ exit' = 3
     \/ instr \in FpTests /\ exit' # Running
  /\ UNCHANGED <<out, instr>>

FlatNext == exit = Running /\ (Issue \/ Fetch \/ Load \/ Store \/ Exit)

FlatSpec == FlatInit /\ [][FlatNext]_fvars
=============================================================================
