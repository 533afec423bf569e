-------------------------------- MODULE CSR --------------------------------
(***************************************************************************)
(* The next-state function of CSRFile (common/CSR.scala): what one clock   *)
(* does to the registers it keeps, given the command of the instruction in *)
(* MEM_STAGE.  The copies the module assembles every cycle (mstatus, mip,  *)
(* mie) and the constants mtval = mscratch = 0 are read by nothing and are *)
(* left out here.                                                          *)
(***************************************************************************)
EXTENDS Integers

PRV_U  == 0
PRV_M  == 3
PRV_SZ == 2

\* x(i) on a Chisel UInt: the i-th bit.
BitOf(x, i) == (x \div 2^i) % 2

\* mutant: now_prv is stored with both its bits
NowPrvWide(x) == x

\* now_prv is declared RegInit(PRV.M(PRV.SZ)).  PRV.SZ is the UInt 2, not a
\* Width, so PRV.M(PRV.SZ) selects bit 2 of 3: the register is one bit wide
\* and starts at 0.  Every assignment to it keeps the lowest bit only.
NowPrv(x) == x % 2

\* Registers after reset; mcause and mepc have no reset value (power-up 0).
CsrReset(mtvec0) ==
  [now_prv |-> BitOf(PRV_M, PRV_SZ), MPP |-> 0, MPIE |-> 0, MIE |-> 0,
   mtvec |-> mtvec0, mcause |-> 0, mepc |-> 0]

\* The values eret and outPC take in the cycle of the command.
Eret(op) == op \in {"ECALL", "EBREAK"}

\* CSRRW(I): mtvec is the only register that can be written, and the value
\* given to rd is 0 for every address; CSRRS and CSRRC do nothing.
CsrWrite(c, addr, rs1) == IF addr = "mtvec" THEN [c EXCEPT !.mtvec = rs1] ELSE c

CsrRdata == 0

\* mutant: MPP is left as it is
MretKeepsMPP(c, pc) == [c EXCEPT !.mepc = pc, !.now_prv = NowPrv(c.MPP), !.MPIE = 1]

MretNext(c, pc) ==
  [c EXCEPT !.mepc = pc, !.now_prv = NowPrv(c.MPP), !.MPIE = 1, !.MPP = PRV_U]

TrapNext(c, op, pc) ==
  [c EXCEPT !.mepc   = pc,
            !.mcause = IF op = "EBREAK" THEN 3 ELSE 8 + c.now_prv,
            !.MPIE   = c.MIE,
            !.MIE    = 0,
            !.MPP    = c.now_prv,
            !.now_prv = NowPrv(PRV_M)]

CsrNext(c, op, addr, pc, rs1) ==
  CASE op \in {"CSRRW", "CSRRWI"} -> CsrWrite(c, addr, rs1)
    [] op = "MRET" -> MretNext(c, pc)
    [] op \in {"ECALL", "EBREAK"} -> TrapNext(c, op, pc)
    [] OTHER -> c

============================================================================
