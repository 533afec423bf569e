--------------------------------- MODULE Lanes ---------------------------------
(***************************************************************************)
(* The data port of the shared memory: the byte lanes SyncMemScala.scala   *)
(* puts around the words of SyncMem.v. A store shifts its data and its     *)
(* mask to the lane of the address; the word a load reads appears one      *)
(* cycle later and is shifted back and extended with the lane and the mask *)
(* type of the request, which are delayed by a register each.              *)
(***************************************************************************)
EXTENDS Integers, Decoder

CONSTANTS
  Words,       \* number of words: MEM_SIZE
  ByteSize,    \* values of a byte: 256
  Datas,       \* the values of register rs2: four bytes each
  Contents,    \* what the memory holds at power-up
  MaxRequests  \* bound on the number of requests served

Lane == 0 .. 3
Byte == 0 .. ByteSize - 1
Index == 0 .. Words - 1

ASSUME LanesAssumption ==
  /\ Words \in Nat \ {0} /\ ByteSize \in Nat \ {0} /\ MaxRequests \in Nat
  /\ Datas \subseteq [Lane -> Byte]
  /\ Contents \subseteq [Index -> [Lane -> Byte]]

VARIABLES
  mem,         \* SyncMem.mem: words of four bytes
  rdataD,      \* the word read last
  reg_addrD,   \* addr(1,0), one cycle late
  reg_mask,    \* the mask type, one cycle late
  req,         \* what EXMEM_REGS puts on the port: op, addr, data
  served       \* the number of requests served

vars == <<mem, rdataD, reg_addrD, reg_mask, req, served>>

\* The lanes of a mask type at lane 0.
Size(mask) ==
  CASE mask \in {"B", "BU"} -> 1 [] mask \in {"H", "HU"} -> 2
    [] mask = "W" -> 4 [] mask = "X" -> 0

\* mutant: the mask is not shifted
UnshiftedMask(mask, k) == IF mask \in {"B", "H", "W"} THEN {i \in Lane : i < Size(mask)} ELSE {}

\* MaskD: "b1", "b11" or "b1111" << addr(1,0), cut to four bits.
WriteMask(mask, k) ==
  IF mask \in {"B", "H", "W"} THEN {i \in Lane : k <= i /\ i < k + Size(mask)} ELSE {}

\* wdataD << 8 * addr(1,0)
WriteData(data, k) == [i \in Lane |-> IF i < k THEN 0 ELSE data[i - k]]

\* The lanes of the word that a read of a mask type at lane k takes.
LanesRead(mask, k) == {i \in Lane : i < Size(mask) /\ k + i <= 3}

Sign(mask, k, word) ==
  \E i \in LanesRead(mask, k) :
    /\ mask \in {"B", "H"} /\ word[k + i] >= ByteSize \div 2
    /\ \A j \in LanesRead(mask, k) : j <= i

\* tmpans: the lanes from k on, extended by the sign of the highest one taken
\* (MT_B, MT_H) or by zeros.
Extended(mask, k, word) ==
  [i \in Lane |-> IF i \in LanesRead(mask, k) THEN word[k + i]
                  ELSE IF Sign(mask, k, word) THEN ByteSize - 1 ELSE 0]

Requests ==
  [op : Loads \cup Stores \cup {"FENCE", "NONE"}, addr : 0 .. 4 * Words - 1, data : Datas]

Init ==
  /\ mem \in Contents
  /\ rdataD = [i \in Lane |-> 0]
  /\ reg_addrD = 0 /\ reg_mask = "X"
  /\ req \in Requests
  /\ served = 0

\* One clock edge.
Edge ==
  /\ served < MaxRequests /\ served' = served + 1
  /\ LET k == req.addr % 4
         w == req.addr \div 4
         mask == MaskType(req.op)
     IN /\ mem' = IF ~(MemEn(req.op) /\ MemWr(req.op)) THEN mem
                  ELSE [mem EXCEPT ![w] = [i \in Lane |->
                         IF i \in WriteMask(mask, k) THEN WriteData(req.data, k)[i]
                         ELSE mem[w][i]]]
        /\ rdataD' = IF MemEn(req.op) /\ ~MemWr(req.op) THEN mem[w] ELSE rdataD
        /\ reg_addrD' = k
        /\ reg_mask' = mask
  /\ req' \in Requests

Spec == Init /\ [][Edge]_vars

----------------------------------------------------------------------------
(* Properties *)

\* The memory as bytes, and what the port delivers.
Resp == Extended(reg_mask, reg_addrD, rdataD)
Bytes == INSTANCE ByteMemory WITH
  bytes <- [a \in 0 .. 4 * Words - 1 |-> mem[a \div 4][a % 4]], resp <- Resp

\* The lanes are those of a little-endian byte memory: every load delivers the
\* bytes at its address, extended as its instruction says, and every store
\* changes the bytes at its address and no other, whatever lane it starts at;
\* what lies beyond the word is neither read nor written.
ServesBytes == Bytes!BytesSpec
===============================================================================
