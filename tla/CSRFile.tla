-------------------------------- MODULE CSRFile --------------------------------
(***************************************************************************)
(* The CSR file (common/CSR.scala) as a machine of its own: any sequence   *)
(* of commands, with the register mstatus that is assembled from its bits  *)
(* one cycle late. depth and deepest are history: how many traps have been *)
(* taken that no MRET has returned from, and the most of them at once      *)
(* since there was none.                                                   *)
(***************************************************************************)
EXTENDS CSR

CONSTANTS
  Addrs,     \* addresses the program uses
  Mtvec0,    \* MTVEC, the reset value of mtvec
  MaxDepth   \* bound on the nesting of traps

ASSUME CSRFileAssumption == Mtvec0 \in Addrs /\ 0 \in Addrs /\ MaxDepth \in Nat

VARIABLES csr, mstatus, depth, deepest

vars == <<csr, mstatus, depth, deepest>>

\* The bits of mstatus that can change; now_prv is not among them.
Assembled(c) == [MPP |-> c.MPP, MPIE |-> c.MPIE, MIE |-> c.MIE]

Init ==
  /\ csr = CsrReset(Mtvec0)
  /\ mstatus = Assembled(csr)
  /\ depth = 0 /\ deepest = 0

Command(op, addr, pc, rs1) ==
  /\ csr' = CsrNext(csr, op, addr, pc, rs1)
  /\ mstatus' = Assembled(csr)

Write ==
  /\ \E op \in {"CSRRW", "CSRRWI"}, addr \in {"mtvec", "other"}, pc, rs1 \in Addrs :
       Command(op, addr, pc, rs1)
  /\ UNCHANGED <<depth, deepest>>

\* Any instruction that is no command, and CSRRS and CSRRC.
Other ==
  /\ \E op \in {"NONE", "CSRRS", "CSRRC"} : Command(op, "mtvec", 0, 0)
  /\ UNCHANGED <<depth, deepest>>

Trap ==
  /\ depth < MaxDepth
  /\ \E op \in {"ECALL", "EBREAK"}, pc \in Addrs : Command(op, "other", pc, 0)
  /\ depth' = depth + 1
  /\ deepest' = IF depth' > deepest THEN depth' ELSE deepest

Return ==
  /\ \E pc \in Addrs : Command("MRET", "other", pc, 0)
  /\ depth' = IF depth = 0 THEN 0 ELSE depth - 1
  /\ deepest' = IF depth' = 0 THEN 0 ELSE deepest

Next == Write \/ Other \/ Trap \/ Return
Spec == Init /\ [][Next]_vars

----------------------------------------------------------------------------
(* Properties *)

\* The privilege goes back to that of the interrupted code at every MRET, as
\* long as no third trap is nested in the handlers of two others: MPP keeps one
\* privilege, no handler can save it (every CSR reads as zero), and MRET leaves
\* user mode behind in it (CSR.scala:72, :74).
PrivilegeFollowsNesting ==
  deepest <= 2 =>
    /\ csr.now_prv = IF depth > 0 THEN 1 ELSE 0
    /\ csr.MPP = IF depth = 2 THEN 1 ELSE 0
===============================================================================
