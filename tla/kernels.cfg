CONSTANTS
  Jobs <- KernelJobs
  Program <- KernelProgram
  Goal <- KernelGoal

SPECIFICATION Spec

\* A job ends when its cores return.
CHECK_DEADLOCK FALSE

INVARIANT TypeOK
INVARIANT WorkDivided
INVARIANT RaceFree
INVARIANT CopyReady
INVARIANT NothingLost
INVARIANT Exact
INVARIANT HalfSurvives
INVARIANT NoneStuck
INVARIANT ExactlySupported
PROPERTY Terminates
