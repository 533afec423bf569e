----------------------------- MODULE CSRFileProofs -----------------------------
(***************************************************************************)
(* The privilege follows the nesting of traps in every sequence of         *)
(* commands, whatever addresses they carry and however deep traps nest     *)
(* before and after.                                                       *)
(***************************************************************************)
EXTENDS CSRFile, TLAPS

\* The registers keep their widths.
Registers ==
  [now_prv : 0 .. 1, MPP : 0 .. 1, MPIE : 0 .. 1, MIE : 0 .. 1,
   mtvec : Addrs, mcause : {0, 3, 8, 9}, mepc : Addrs]

Typed == csr \in Registers /\ depth \in Nat /\ deepest \in Nat

\* deepest is that of the nest now open.
Nested == depth <= deepest /\ (depth = 0 => deepest = 0)

\* The first handler of a nest is left to user mode, also when a third trap
\* has spoilt the privilege: MPP is what the trap out of user mode or the MRET
\* that came back to this handler put there.
FirstHandler == depth = 1 => csr.MPP = 0

NestInv == Typed /\ Nested /\ FirstHandler /\ PrivilegeFollowsNesting

LEMMA InitNest == Init => NestInv
<1> SUFFICES ASSUME Init PROVE NestInv
  OBVIOUS
<1>1. csr = [now_prv |-> 0, MPP |-> 0, MPIE |-> 0, MIE |-> 0,
             mtvec |-> Mtvec0, mcause |-> 0, mepc |-> 0]
  BY DEF Init, CsrReset, BitOf, PRV_M, PRV_SZ
<1>2. depth = 0 /\ deepest = 0
  BY DEF Init
<1>3. csr \in Registers
  BY <1>1, CSRFileAssumption DEF Registers
<1> QED BY <1>1, <1>2, <1>3
        DEF NestInv, Typed, Nested, FirstHandler, PrivilegeFollowsNesting

\* What each command does to the two privileges.
LEMMA CommandTyped ==
  ASSUME csr \in Registers, NEW op, NEW addr, NEW pc \in Addrs, NEW x \in Addrs,
         Command(op, addr, pc, x)
  PROVE  /\ csr' \in Registers
         /\ op \in {"ECALL", "EBREAK"} => csr'.now_prv = 1 /\ csr'.MPP = csr.now_prv
         /\ op = "MRET" => csr'.now_prv = csr.MPP /\ csr'.MPP = 0
         /\ op \notin {"ECALL", "EBREAK", "MRET"} =>
              csr'.now_prv = csr.now_prv /\ csr'.MPP = csr.MPP
<1>1. csr' = CsrNext(csr, op, addr, pc, x)
  BY DEF Command
<1> DEFINE bit == 0 .. 1
<1>2. /\ csr.now_prv \in bit /\ csr.MPP \in bit /\ csr.MPIE \in bit /\ csr.MIE \in bit
      /\ 0 \in bit /\ 1 \in bit
      /\ Registers = [now_prv : bit, MPP : bit, MPIE : bit, MIE : bit,
                      mtvec : Addrs, mcause : {0, 3, 8, 9}, mepc : Addrs]
  BY DEF Registers
<1>3. CASE op \in {"CSRRW", "CSRRWI"}
  BY <1>1, <1>3 DEF CsrNext, CsrWrite, Registers
<1>4. CASE op = "MRET"
  <2>1. csr' = [csr EXCEPT !.mepc = pc, !.now_prv = csr.MPP, !.MPIE = 1, !.MPP = 0]
    <3>1. NowPrv(csr.MPP) = csr.MPP
      BY DEF NowPrv, Registers
    <3> QED BY <1>1, <1>4, <3>1 DEF CsrNext, MretNext, PRV_U
  <2> HIDE DEF bit
  <2>2. csr' \in Registers
    BY <1>2, <2>1
  <2>3. csr'.now_prv = csr.MPP /\ csr'.MPP = 0
    BY <1>2, <2>1
  <2> QED BY <1>4, <2>2, <2>3
<1>5. CASE op \in {"ECALL", "EBREAK"}
  <2> DEFINE cause == IF op = "EBREAK" THEN 3 ELSE 8 + csr.now_prv
  <2>1. csr' = [csr EXCEPT !.mepc = pc, !.mcause = cause, !.MPIE = csr.MIE, !.MIE = 0,
                           !.MPP = csr.now_prv, !.now_prv = 1]
    <3>1. NowPrv(PRV_M) = 1
      BY DEF NowPrv, PRV_M
    <3> QED BY <1>1, <1>5, <3>1 DEF CsrNext, TrapNext
  <2>2. cause \in {0, 3, 8, 9}
    BY DEF Registers
  <2> HIDE DEF bit, cause
  <2>3. csr' \in Registers
    BY <1>2, <2>1, <2>2
  <2>4. csr'.now_prv = 1 /\ csr'.MPP = csr.now_prv
    BY <1>2, <2>1
  <2> QED BY <1>5, <2>3, <2>4
<1>6. CASE op \notin {"CSRRW", "CSRRWI", "MRET", "ECALL", "EBREAK"}
  BY <1>1, <1>6 DEF CsrNext
<1> QED BY <1>3, <1>4, <1>5, <1>6

LEMMA StepNest == NestInv /\ [Next]_vars => NestInv'
<1> SUFFICES ASSUME NestInv, [Next]_vars PROVE NestInv'
  OBVIOUS
<1> USE DEF NestInv, Typed, Nested, FirstHandler, PrivilegeFollowsNesting
<1>1. CASE Write \/ Other
  <2>1. csr' \in Registers /\ csr'.now_prv = csr.now_prv /\ csr'.MPP = csr.MPP
    <3>1. CASE Write
      BY <3>1, CommandTyped DEF Write
    <3>2. CASE Other
      BY <3>2, CommandTyped, CSRFileAssumption DEF Other
    <3> QED BY <1>1, <3>1, <3>2
  <2>2. depth' = depth /\ deepest' = deepest
    BY <1>1 DEF Write, Other
  <2> QED BY <2>1, <2>2
<1>2. CASE Trap
  <2>1. csr' \in Registers /\ csr'.now_prv = 1 /\ csr'.MPP = csr.now_prv
    BY <1>2, CommandTyped, CSRFileAssumption DEF Trap
  <2>2. depth' = depth + 1 /\ deepest' = IF depth' > deepest THEN depth' ELSE deepest
    BY <1>2 DEF Trap
  <2> QED BY <2>1, <2>2
<1>3. CASE Return
  <2>1. csr' \in Registers /\ csr'.now_prv = csr.MPP /\ csr'.MPP = 0
    BY <1>3, CommandTyped, CSRFileAssumption DEF Return
  <2>2. /\ depth' = IF depth = 0 THEN 0 ELSE depth - 1
        /\ deepest' = IF depth' = 0 THEN 0 ELSE deepest
    BY <1>3 DEF Return
  <2> QED BY <2>1, <2>2
<1>4. CASE UNCHANGED vars
  BY <1>4 DEF vars
<1> QED BY <1>1, <1>2, <1>3, <1>4 DEF Next

(***************************************************************************)
(* The privilege, with one bit for it and one for the interrupted one, is  *)
(* that of the nesting as long as no third trap is nested, and is right    *)
(* again in the first trap after such a nest has been left.                *)
(***************************************************************************)
THEOREM PrivilegeNests == Spec => []PrivilegeFollowsNesting
<1>1. NestInv => PrivilegeFollowsNesting
  BY DEF NestInv
<1> QED BY <1>1, InitNest, StepNest, PTL DEF Spec
===============================================================================
