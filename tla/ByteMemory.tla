------------------------------ MODULE ByteMemory ------------------------------
(***************************************************************************)
(* What the data port of the shared memory promises the processor: a       *)
(* memory addressed by bytes, least significant byte first. A load is      *)
(* answered in the cycle after its request. Of an access that runs beyond  *)
(* its word only the bytes in the word are read or written.                *)
(***************************************************************************)
EXTENDS Integers, Decoder

CONSTANTS
  Words,      \* number of words
  ByteSize,   \* values of a byte: 256
  Datas       \* the values of register rs2: four bytes each

VARIABLES
  bytes,      \* the memory
  resp,       \* four bytes: what the port delivers to the register file
  req         \* the request on the port: op, addr, data

Addr == 0 .. 4 * Words - 1
Requests == [op : Loads \cup Stores \cup {"FENCE", "NONE"}, addr : Addr, data : Datas]

\* Bytes an instruction reads or writes.
Width(op) ==
  CASE op \in {"LB", "LBU", "SB"} -> 1
    [] op \in {"LH", "LHU", "SH"} -> 2
    [] OTHER -> 4

\* The i-th byte of the access is in the word of its address.
InWord(r, i) == i < Width(r.op) /\ (r.addr + i) \div 4 = r.addr \div 4

Stored ==
  [a \in Addr |->
     IF req.op \in Stores /\ a >= req.addr /\ InWord(req, a - req.addr)
     THEN req.data[a - req.addr] ELSE bytes[a]]

\* The bytes above the loaded ones repeat the sign, or are zero.
Extension ==
  IF req.op \in {"LB", "LH"} /\ bytes[req.addr + Width(req.op) - 1] >= ByteSize \div 2
  THEN ByteSize - 1 ELSE 0

Answers(r) ==
  /\ \A i \in 0 .. 3 : InWord(req, i) => r[i] = bytes[req.addr + i]
  /\ InWord(req, Width(req.op) - 1) =>
       \A i \in 0 .. 3 : i >= Width(req.op) => r[i] = Extension

BytesInit == bytes \in [Addr -> 0 .. ByteSize - 1] /\ req \in Requests

\* One cycle: the request is served, and the next one appears.
BytesNext ==
  /\ bytes' = Stored
  /\ req.op \in Loads => Answers(resp')
  /\ req' \in Requests

BytesSpec == BytesInit /\ [][BytesNext]_<<bytes, resp, req>>
===============================================================================
