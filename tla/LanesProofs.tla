------------------------------ MODULE LanesProofs ------------------------------
(***************************************************************************)
(* The byte lanes implement the byte memory, for every number of words,    *)
(* every size of a byte and every sequence of requests.                    *)
(***************************************************************************)
EXTENDS Lanes, TLAPS

Typed == mem \in [Index -> [Lane -> Byte]] /\ req \in Requests

(***************************************************************************)
(* An address is four times its word plus its lane.                        *)
(***************************************************************************)
LEMMA Address ==
  ASSUME NEW a \in Nat
  PROVE  a \div 4 \in Nat /\ a % 4 \in Lane /\ a = 4 * (a \div 4) + (a % 4)
  BY DEF Lane

LEMMA AddressOf ==
  ASSUME NEW w \in Nat, NEW i \in Lane
  PROVE  (4 * w + i) \div 4 = w /\ (4 * w + i) % 4 = i
  BY DEF Lane

LEMMA AddressInMemory ==
  ASSUME NEW a \in Bytes!Addr
  PROVE  a \in Nat /\ a \div 4 \in Index /\ a % 4 \in Lane
  BY LanesAssumption DEF Bytes!Addr, Index, Lane

LEMMA StoredAt ==
  ASSUME NEW a \in Bytes!Addr
  PROVE  Bytes!Stored[a] =
           IF req.op \in Stores /\ a >= req.addr /\ Bytes!InWord(req, a - req.addr)
           THEN req.data[a - req.addr] ELSE mem[a \div 4][a % 4]
  BY DEF Bytes!Stored, Bytes!Stores, Stores, Bytes!Addr

LEMMA SameRequests == Bytes!Requests = Requests
  BY DEF Bytes!Requests, Requests, Bytes!Addr, Bytes!Loads, Loads, Bytes!Stores, Stores

\* The mask type of an access has as many lanes as the access has bytes.
LEMMA SizeIsWidth ==
  ASSUME NEW op \in Loads \cup Stores
  PROVE  /\ Size(MaskType(op)) = Bytes!Width(op)
         /\ Bytes!Width(op) \in 1 .. 4
  BY DEF Loads, Stores, MaskType, Size, Bytes!Width

LEMMA Signals ==
  ASSUME NEW op \in Loads \cup Stores \cup {"FENCE", "NONE"}
  PROVE  /\ MemEn(op) /\ MemWr(op) <=> op \in Stores
         /\ op \in Loads => MemEn(op) /\ ~MemWr(op)
         /\ op \in Stores => MaskType(op) \in {"B", "H", "W"}
         /\ op \in Loads => (MaskType(op) \in {"B", "H"} <=> op \in {"LB", "LH"})
  BY DEF MemEn, MemWr, MaskType, Loads, Stores

LEMMA EdgeTyped == Typed /\ Edge => Typed'
<1> SUFFICES ASSUME Typed, Edge PROVE Typed'
  OBVIOUS
<1> DEFINE k == req.addr % 4
           w == req.addr \div 4
           word == [i \in Lane |-> IF i \in WriteMask(MaskType(req.op), k)
                                   THEN WriteData(req.data, k)[i] ELSE mem[w][i]]
<1>1. req.addr \in Nat /\ w \in Index /\ k \in Lane /\ req.data \in [Lane -> Byte]
  BY LanesAssumption DEF Typed, Requests, Index, Lane
<1>2. word \in [Lane -> Byte]
  <2> SUFFICES ASSUME NEW i \in Lane
               PROVE  WriteData(req.data, k)[i] \in Byte /\ mem[w][i] \in Byte
    OBVIOUS
  <2>1. mem[w][i] \in Byte
    BY <1>1 DEF Typed
  <2>2. 0 \in Byte
    BY LanesAssumption DEF Byte
  <2>3. i >= k => i - k \in Lane
    BY <1>1 DEF Lane
  <2> HIDE DEF k
  <2> QED BY <1>1, <2>1, <2>2, <2>3 DEF WriteData, Lane
<1>3. mem' = mem \/ mem' = [mem EXCEPT ![w] = word]
  BY DEF Edge
<1>4. mem' \in [Index -> [Lane -> Byte]]
  <2> HIDE DEF word, w
  <2> QED BY <1>1, <1>2, <1>3 DEF Typed
<1> QED BY <1>4 DEF Typed, Edge

(***************************************************************************)
(* A store changes the bytes of its access that are in the word.           *)
(***************************************************************************)
LEMMA EdgeStores ==
  ASSUME Typed, Edge, NEW a \in Bytes!Addr
  PROVE  mem'[a \div 4][a % 4] = Bytes!Stored[a]
<1> DEFINE k == req.addr % 4
           w == req.addr \div 4
<1>1. /\ req.addr \in Nat /\ w \in Index /\ k \in Lane /\ req.addr = 4 * w + k
      /\ w \in Nat
      /\ req.op \in Loads \cup Stores \cup {"FENCE", "NONE"}
  BY LanesAssumption, SMTT(30) DEF Typed, Requests, Index, Lane
<1>2. /\ a \in Nat /\ a \div 4 \in Index /\ a % 4 \in Lane
      /\ a \div 4 \in Nat /\ a = 4 * (a \div 4) + (a % 4)
  BY AddressInMemory, Address
<1>3. CASE req.op \notin Stores
  <2>1. mem' = mem
    BY <1>1, <1>3, Signals DEF Edge
  <2> QED BY <1>3, <2>1, StoredAt
<1>4. CASE req.op \in Stores
  <2> DEFINE mask == MaskType(req.op)
             j == a % 4
  <2>1. mem' = [mem EXCEPT ![w] = [i \in Lane |->
                   IF i \in WriteMask(mask, k) THEN WriteData(req.data, k)[i] ELSE mem[w][i]]]
    BY <1>1, <1>4, Signals DEF Edge
  <2>2. Bytes!InWord(req, a - req.addr) <=>
          a - req.addr < Size(mask) /\ a \div 4 = w
    <3>1. req.addr + (a - req.addr) = a
      BY <1>1, <1>2
    <3>2. Size(mask) = Bytes!Width(req.op)
      BY <1>4, SizeIsWidth
    <3> QED BY <3>1, <3>2 DEF Bytes!InWord
  <2>3. CASE a \div 4 # w
    <3>1. mem'[a \div 4] = mem[a \div 4]
      BY <1>1, <1>2, <2>1, <2>3 DEF Typed
    <3> QED BY <2>2, <2>3, <3>1, StoredAt
  <2>4. CASE a \div 4 = w
    <3>1. mem'[w][j] = IF j \in WriteMask(mask, k) THEN WriteData(req.data, k)[j] ELSE mem[w][j]
      <4> HIDE DEF k, w, mask, j
      <4>1. j \in Lane
        BY <1>2 DEF j
      <4> QED BY <1>1, <2>1, <4>1 DEF Typed
    <3>2. a - req.addr = j - k /\ (a >= req.addr <=> k <= j)
      <4> HIDE DEF k, w, j
      <4> QED BY <1>1, <1>2, <2>4 DEF j, Lane
    <3>3. Size(mask) \in 1 .. 4
      BY <1>4, SizeIsWidth
    <3>4. j \in WriteMask(mask, k) <=> k <= j /\ j - k < Size(mask)
      <4>1. mask \in {"B", "H", "W"}
        BY <1>4, Signals
      <4> HIDE DEF k, mask, j
      <4>2. j \in Lane
        BY <1>2 DEF j
      <4> QED BY <1>1, <3>3, <4>1, <4>2 DEF WriteMask, Lane
    <3>5. CASE j \in WriteMask(mask, k)
      <4>1. WriteData(req.data, k)[j] = req.data[j - k]
        BY <1>1, <1>2, <3>4, <3>5 DEF WriteData, Lane
      <4>2. Bytes!Stored[a] = req.data[a - req.addr]
        BY <1>4, <2>2, <2>4, <3>2, <3>4, <3>5, StoredAt
      <4> QED BY <2>4, <3>1, <3>2, <3>5, <4>1, <4>2
    <3>6. CASE j \notin WriteMask(mask, k)
      <4>1. Bytes!Stored[a] = mem[a \div 4][a % 4]
        BY <2>2, <3>2, <3>4, <3>6, StoredAt
      <4> QED BY <2>4, <3>1, <3>6, <4>1
    <3> QED BY <3>5, <3>6
  <2> QED BY <2>3, <2>4
<1> QED BY <1>3, <1>4

(***************************************************************************)
(* A load delivers the bytes of its access that are in the word, and       *)
(* extends them when they all are.                                         *)
(***************************************************************************)
LEMMA EdgeLoads ==
  ASSUME Typed, Edge, req.op \in Loads
  PROVE  Bytes!Answers(Resp')
<1> DEFINE k == req.addr % 4
           w == req.addr \div 4
           mask == MaskType(req.op)
           n == Bytes!Width(req.op)
           bytes == [a \in 0 .. 4 * Words - 1 |-> mem[a \div 4][a % 4]]
<1>1. /\ req.addr \in Nat /\ w \in Index /\ k \in Lane /\ req.addr = 4 * w + k
  <2>1. req.addr \in 0 .. 4 * Words - 1
    BY DEF Typed, Requests
  <2>2. req.addr \in Nat
    BY <2>1, LanesAssumption
  <2>3. w \in Index /\ k \in Lane
    BY <2>1, LanesAssumption DEF Index, Lane
  <2> QED BY <2>2, <2>3, Address
<1>2. w \in Nat /\ w < Words
  <2> HIDE DEF w
  <2> QED BY <1>1, LanesAssumption DEF Index
<1>3. Resp' = Extended(mask, k, mem[w])
  BY Signals DEF Edge, Resp
<1>4. Size(mask) = n /\ n \in 1 .. 4
  BY SizeIsWidth
<1>5. ASSUME NEW i \in Nat, Bytes!InWord(req, i)
      PROVE  i < n /\ k + i \in Lane /\ bytes[req.addr + i] = mem[w][k + i]
  <2>1. i < n /\ (req.addr + i) \div 4 = w
    BY <1>5 DEF Bytes!InWord
  <2>2. k + i \in Lane
    <3> HIDE DEF k, w
    <3> QED BY <1>1, <1>2, <2>1 DEF Lane
  <2>3. (req.addr + i) % 4 = k + i
    <3> HIDE DEF k, w
    <3>1. req.addr + i = 4 * w + (k + i)
      BY <1>1, <1>2 DEF Lane
    <3> QED BY <1>2, <2>2, <3>1, AddressOf
  <2>4. req.addr + i \in 0 .. 4 * Words - 1
    <3> HIDE DEF k, w
    <3> QED BY <1>1, <1>2, <2>2, LanesAssumption DEF Lane
  <2> QED BY <2>1, <2>2, <2>3, <2>4
<1>6. ASSUME NEW i \in 0 .. 3, Bytes!InWord(req, i)
      PROVE  Resp'[i] = bytes[req.addr + i]
  <2>1. i < n /\ k + i \in Lane /\ bytes[req.addr + i] = mem[w][k + i]
    BY <1>5, <1>6
  <2>2. i \in LanesRead(mask, k)
    BY <1>4, <2>1 DEF LanesRead, Lane
  <2> QED BY <1>3, <2>1, <2>2 DEF Extended, Lane
<1>7. ASSUME Bytes!InWord(req, n - 1), NEW i \in 0 .. 3, i >= n
      PROVE  Resp'[i] = Bytes!Extension
  <2>1. k + (n - 1) \in Lane /\ bytes[req.addr + (n - 1)] = mem[w][k + (n - 1)]
    BY <1>4, <1>5, <1>7
  <2>2. LanesRead(mask, k) = 0 .. n - 1
    <3> HIDE DEF k, n, mask
    <3>1. k \in 0 .. 3 /\ n \in 1 .. 4 /\ k + (n - 1) \in 0 .. 3
      BY <1>1, <1>4, <2>1 DEF Lane
    <3>2. \A x \in 0 .. 3 : x < n => k + x <= 3
      BY <3>1
    <3>3. 0 .. n - 1 = {x \in 0 .. 3 : x < n}
      BY <3>1
    <3> QED BY <1>4, <3>2, <3>3 DEF LanesRead, Lane
  <2>3. Sign(mask, k, mem[w]) <=>
          mask \in {"B", "H"} /\ mem[w][k + (n - 1)] >= ByteSize \div 2
    <3>1. ASSUME NEW m \in 0 .. n - 1, \A j \in 0 .. n - 1 : j <= m
          PROVE  m = n - 1
      <4> HIDE DEF n
      <4> QED BY <1>4, <3>1
    <3>2. n - 1 \in 0 .. n - 1 /\ \A j \in 0 .. n - 1 : j <= n - 1
      <4> HIDE DEF n
      <4> QED BY <1>4
    <3> HIDE DEF k, n, mask, w
    <3> QED BY <2>2, <3>1, <3>2 DEF Sign
  <2>4. Bytes!Extension = IF Sign(mask, k, mem[w]) THEN ByteSize - 1 ELSE 0
    <3>1. mask \in {"B", "H"} <=> req.op \in {"LB", "LH"}
      BY Signals
    <3>2. req.addr + n - 1 = req.addr + (n - 1)
      BY <1>1, <1>4
    <3> QED BY <2>1, <2>3, <3>1, <3>2 DEF Bytes!Extension
  <2>5. i \notin LanesRead(mask, k)
    <3> HIDE DEF n
    <3> QED BY <1>4, <1>7, <2>2
  <2> QED BY <1>3, <2>4, <2>5 DEF Extended, Lane
<1> QED BY <1>6, <1>7 DEF Bytes!Answers

(***************************************************************************)
(* Every behaviour of the lanes is one of the byte memory.                 *)
(***************************************************************************)
THEOREM LanesServeBytes == Spec => ServesBytes
<1>1. Init => Typed /\ Bytes!BytesInit
  <2> SUFFICES ASSUME Init PROVE Typed /\ Bytes!BytesInit
    OBVIOUS
  <2>1. Typed
    BY LanesAssumption DEF Init, Typed
  <2>2. \A a \in Bytes!Addr : mem[a \div 4][a % 4] \in 0 .. ByteSize - 1
    BY <2>1, AddressInMemory DEF Typed, Byte
  <2> QED BY <2>1, <2>2, SameRequests DEF Typed, Bytes!BytesInit, Bytes!Addr
<1>2. Typed /\ [Edge]_vars => Typed'
  BY EdgeTyped DEF vars, Typed
<1>3. Typed /\ [Edge]_vars => [Bytes!BytesNext]_<<[a \in 0 .. 4 * Words - 1 |-> mem[a \div 4][a % 4]], Resp, req>>
  <2>1. ASSUME Typed, Edge PROVE Bytes!BytesNext
    <3>1. [a \in 0 .. 4 * Words - 1 |-> mem[a \div 4][a % 4]]' = Bytes!Stored
      BY <2>1, EdgeStores DEF Bytes!Stored, Bytes!Addr
    <3>2. req' \in Bytes!Requests
      BY <2>1, SameRequests DEF Edge
    <3>3. req.op \in Bytes!Loads => Bytes!Answers(Resp')
      BY <2>1, EdgeLoads DEF Bytes!Loads, Loads
    <3> QED BY <3>1, <3>2, <3>3 DEF Bytes!BytesNext
  <2>2. ASSUME UNCHANGED vars
        PROVE  UNCHANGED <<[a \in 0 .. 4 * Words - 1 |-> mem[a \div 4][a % 4]], Resp, req>>
    BY <2>2 DEF vars, Resp
  <2> QED BY <2>1, <2>2
<1> QED BY <1>1, <1>2, <1>3, PTL DEF Spec, ServesBytes, Bytes!BytesSpec
===============================================================================
