------------------------------- MODULE VMProofs -------------------------------
(***************************************************************************)
(* What is proved of the virtual-memory environment for any number of      *)
(* pages and any lists of frames: the types; that while the program runs   *)
(* the TLB allows nothing the page table does not; that no assertion of    *)
(* the kernel fails but the one on stray addresses, a changed page has its *)
(* dirty bit and no frame is lost or given twice; and that the program     *)
(* runs as on plain memory.                                                *)
(***************************************************************************)
EXTENDS VM, FiniteSetTheorems, TLAPS

Bound == Nodes \cup {Null}
Entry == [frame : FrameIds \cup {NoFrame}, a : BOOLEAN, d : BOOLEAN]

Tables == pte \in [Pages -> Ptes] /\ tlb \in [Pages -> Ptes \cup {Uncached}]

\* The types of the rest of the state.
Rest ==
  /\ cell \in [Nodes -> [addr : FrameIds \cup {NoFrame}, next : Bound]]
  /\ head \in Bound /\ tail \in Bound /\ node \in Bound
  /\ home \in [Pages -> Data] /\ frame \in [FrameIds -> Data] /\ out \in Data
  /\ at \in {"user", "fault", "flush_bit", "flush_map", "copy", "protect", "evict",
             "terminate", "stopped"}
  /\ instr \in Flat!Instructions \cup {None}
  /\ exit \in Codes \cup {Running, 3, 841}

\* Until the environment call the free list holds nodes that have a frame.
FreeList ==
  at \notin {"evict", "terminate", "stopped"} =>
    /\ head \in FreeNodes \cup {Null}
    /\ \A n \in FreeNodes : cell[n].addr \in FrameIds /\ cell[n].next \in FreeNodes \cup {Null}

\* The instruction a place of the kernel works for.
Serving ==
  /\ at \in {"flush_bit", "flush_map", "copy", "protect"} => instr.page \in Pages
  /\ at \in {"fault", "flush_bit", "flush_map", "copy", "protect"} => MemoryOp
  /\ at \in {"evict", "terminate"} => instr \in Flat!Calls
  /\ at = "evict" => \E p \in Pages : node = MapNode(p)
  /\ at = "flush_map" => node \in FreeNodes
  /\ at \in {"flush_map", "copy", "protect"} => pte[instr.page].frame \in FrameIds

LEMMA PteFacts ==
  /\ Ptes \subseteq Entry /\ NoPte \in Entry /\ Uncached \in Entry
  /\ NoPte \in Ptes
  /\ \A t \in Ptes : t # NoPte => t.frame \in FrameIds
  /\ \A f \in FrameIds, a \in BOOLEAN, d \in BOOLEAN :
       [frame |-> f, a |-> a, d |-> d] \in Ptes
  /\ NoFrame \notin FrameIds /\ FrameIds \subseteq Nat
<1>1. FrameIds \subseteq Nat \ {0}
  BY ConstantAssumption DEF FrameIds
<1>2. /\ Ptes \subseteq Entry /\ NoPte \in Entry /\ Uncached \in Entry
      /\ NoPte \in Ptes
  <2>1. FALSE \in BOOLEAN /\ TRUE \in BOOLEAN
    OBVIOUS
  <2>2. NoPte \in Entry
    BY <2>1 DEF Entry, NoPte
  <2>3. Uncached \in Entry
    BY <2>1 DEF Entry, Uncached
  <2>4. [frame : FrameIds, a : BOOLEAN, d : BOOLEAN] \subseteq Entry
    BY DEF Entry
  <2> QED
    BY <2>2, <2>3, <2>4 DEF Ptes
<1>3. \A t \in Ptes : t # NoPte => t.frame \in FrameIds
  BY DEF Ptes
<1>4. \A f \in FrameIds, a \in BOOLEAN, d \in BOOLEAN :
        [frame |-> f, a |-> a, d |-> d] \in Ptes
  BY DEF Ptes
<1> QED
  BY <1>1, <1>2, <1>3, <1>4 DEF NoFrame

\* A translation that is there is an entry, and keeps its frame when bits are set.
LEMMA HitFacts ==
  ASSUME Tables, NEW p \in Pages, Present(p)
  PROVE  /\ Translation(p) \in Ptes \ {NoPte}
         /\ Translation(p).frame \in FrameIds
<1>1. Translation(p) \in Ptes /\ Translation(p) # NoPte
  BY DEF Tables, Translation, Present
<1> QED
  BY <1>1, PteFacts

Valid(p) == tlb[p] \notin {Uncached, NoPte}

\* What the TLB holds of a page has the page's frame; its bits are no more than
\* the entry's, but for the page whose entry was just changed.
SameFrame == \A p \in Pages : Valid(p) => tlb[p].frame = pte[p].frame
HonestAt(p) == Valid(p) => (tlb[p].a => pte[p].a) /\ (tlb[p].d => pte[p].d)
Honest == \A p \in Pages : HonestAt(p) \/ (at = "flush_bit" /\ instr.page = p)

Inv == Tables /\ Rest /\ FreeList /\ Serving /\ SameFrame /\ Honest

LEMMA ValidFacts ==
  ASSUME Tables, SameFrame, NEW p \in Pages, Valid(p)
  PROVE  tlb[p] \in Ptes \ {NoPte} /\ pte[p] \in Ptes \ {NoPte}
<1>1. tlb[p] \in Ptes /\ tlb[p] # NoPte /\ tlb[p].frame \in FrameIds /\ pte[p] \in Ptes
  BY PteFacts DEF Tables, Valid
<1>2. pte[p].frame \in FrameIds
  BY <1>1 DEF SameFrame
<1>3. NoPte.frame = NoFrame
  BY DEF NoPte
<1> QED
  BY <1>1, <1>2, <1>3, PteFacts

\* An access leaves page table and TLB as they are, or sets bits in both.
LEMMA AccessTyped ==
  ASSUME Tables, SameFrame, Honest, NEW p \in Pages, NEW op, Access(p, op),
         at # "flush_bit"
  PROVE  /\ pte' \in [Pages -> Ptes] /\ tlb' \in [Pages -> Ptes \cup {Uncached}]
         /\ \A q \in Pages : tlb'[q] \notin {Uncached, NoPte} =>
              /\ tlb'[q].frame = pte'[q].frame
              /\ (tlb'[q].a => pte'[q].a) /\ (tlb'[q].d => pte'[q].d)
         /\ \A q \in Pages : pte'[q].frame = pte[q].frame
<1>1. CASE UNCHANGED <<pte, tlb>>
  BY <1>1 DEF Tables, SameFrame, Honest, HonestAt, Valid
<1>2. CASE pte' = [pte EXCEPT ![p] = Needs(@, op)] /\ tlb' = [tlb EXCEPT ![p] = pte'[p]]
  <2>1. Translation(p) \in Ptes /\ Translation(p) # NoPte
    BY HitFacts DEF Access
  <2>2. pte[p] \in Ptes \ {NoPte}
    BY <2>1, ValidFacts DEF Translation, Valid, Tables
  <2>3. pte[p] \in [frame : FrameIds, a : BOOLEAN, d : BOOLEAN]
    BY <2>2 DEF Ptes
  <2>4. (pte[p].d \/ op = "store") \in BOOLEAN
    OBVIOUS
  <2>5. Needs(pte[p], op) \in Ptes /\ Needs(pte[p], op).frame = pte[p].frame
    <3> DEFINE dirty == pte[p].d \/ op = "store"
    <3>1. Needs(pte[p], op) = [pte[p] EXCEPT !.a = TRUE, !.d = dirty]
      BY DEF Needs
    <3>2. dirty \in BOOLEAN
      BY <2>4
    <3> HIDE DEF dirty
    <3>3. [pte[p] EXCEPT !.a = TRUE, !.d = dirty] \in [frame : FrameIds, a : BOOLEAN, d : BOOLEAN]
          /\ [pte[p] EXCEPT !.a = TRUE, !.d = dirty].frame = pte[p].frame
      BY <2>3, <3>2
    <3> QED
      BY <3>1, <3>3 DEF Ptes
  <2>6. /\ pte' \in [Pages -> Ptes] /\ tlb'[p] = pte'[p]
        /\ \A q \in Pages : q # p => pte'[q] = pte[q] /\ tlb'[q] = tlb[q]
        /\ tlb' \in [Pages -> Ptes \cup {Uncached}]
        /\ pte'[p].frame = pte[p].frame
    BY <1>2, <2>5 DEF Tables
  <2> QED
    BY <2>6 DEF SameFrame, Honest, HonestAt, Valid
<1> QED
  BY <1>1, <1>2 DEF Access

LEMMA TlbSame ==
  ASSUME Tables, SameFrame, Honest, at # "flush_bit", UNCHANGED <<pte, tlb>>
  PROVE  Tables' /\ SameFrame' /\ Honest'
  BY DEF Tables, SameFrame, Honest, HonestAt, Valid

LEMMA InstrFacts ==
  ASSUME Rest
  PROVE  /\ instr.op = "store" => instr.data \in Data
         /\ instr.op = "ecall" => instr \in Flat!Calls
         /\ instr \in Flat!Calls => instr.code \in Codes
  BY DEF Rest, None, Flat!None, Flat!Instructions, Flat!Fetches, Flat!Loads, Flat!Stores,
         Flat!Calls, Flat!Stray, Flat!FpTests

LEMMA StepIssue ==
  ASSUME Inv, Issue PROVE Inv'
<1>1. Tables' /\ SameFrame' /\ Honest'
  BY TlbSame DEF Inv, Issue
<1>2. Rest' /\ FreeList'
  BY DEF Inv, Issue, Rest, FreeList, list, contents
<1>3. Serving'
  BY DEF Issue, Serving
<1> QED
  BY <1>1, <1>2, <1>3 DEF Inv

LEMMA StepExecute ==
  ASSUME Inv, Execute PROVE Inv'
<1>1. Tables' /\ SameFrame' /\ Honest'
  BY AccessTyped DEF Inv, Execute, Tables, SameFrame, Honest, HonestAt, Valid
<1>2. Rest'
  <2> DEFINE f == Translation(instr.page).frame
  <2>1. f \in FrameIds
    BY HitFacts DEF Inv, Execute, Access
  <2>2. Rest
    BY DEF Inv
  <2>3. frame' \in [FrameIds -> Data]
    BY <2>1, <2>2, InstrFacts DEF Execute, Rest
  <2>4. out' \in Data
    BY <2>1, <2>2 DEF Execute, Rest
  <2> QED
    BY <2>2, <2>3, <2>4 DEF Execute, Rest, list
<1>3. FreeList' /\ Serving'
  BY DEF Inv, Execute, FreeList, Serving, list
<1> QED
  BY <1>1, <1>2, <1>3 DEF Inv

\* The steps that leave page table, TLB and memory alone.
LEMMA StepQuiet ==
  ASSUME Inv, Wtf \/ Fault \/ Ecall \/ BadAddress \/ End PROVE Inv'
<1>1. UNCHANGED <<pte, tlb>> /\ at # "flush_bit"
  BY DEF Wtf, Fault, Ecall, BadAddress, End
<1>2. Rest
  BY DEF Inv
<1>3. MapNode(1) \in Bound /\ 1 \in Pages
  BY ConstantAssumption DEF Bound, Nodes, Pages
<1>4. Rest'
  <2>1. CASE Wtf
    BY <1>2, <2>1 DEF Wtf, Terminate, Rest, list, contents, program
  <2>2. CASE Fault
    BY <1>2, <2>2 DEF Fault, Rest, list, contents, program
  <2>3. CASE Ecall
    BY <1>2, <1>3, <2>3 DEF Ecall, Rest, list, contents, program
  <2>4. CASE BadAddress
    BY <1>2, <2>4 DEF BadAddress, AssertFails, Terminate, Rest, list, contents, program
  <2>5. CASE End
    <3>1. instr.code \in Codes
      BY <1>2, <2>5, InstrFacts DEF Inv, Serving, End
    <3> QED
      BY <1>2, <2>5, <3>1 DEF End, Terminate, Rest, list, contents, program
  <2> QED
    BY <2>1, <2>2, <2>3, <2>4, <2>5
<1>5. Serving' /\ FreeList'
  <2>1. CASE Wtf \/ BadAddress \/ End
    BY <2>1 DEF Wtf, BadAddress, End, AssertFails, Terminate, Serving, FreeList
  <2>2. CASE Fault
    BY <2>2 DEF Inv, Fault, Serving, FreeList, MemoryOp, program, list
  <2>3. CASE Ecall
    BY <1>2, <1>3, <2>3, InstrFacts DEF Ecall, Serving, FreeList, program
  <2> QED
    BY <2>1, <2>2, <2>3
<1> QED
  BY <1>1, <1>4, <1>5, TlbSame DEF Inv

LEMMA StepFailedAssertion ==
  ASSUME Inv, AssertFails, at # "flush_bit",
         UNCHANGED <<pte, tlb, list, contents, node, program>>
  PROVE  Inv'
<1>1. Rest'
  BY DEF Inv, AssertFails, Terminate, Rest, list, contents, program
<1>2. Serving' /\ FreeList'
  BY DEF AssertFails, Terminate, Serving, FreeList
<1> QED
  BY <1>1, <1>2, TlbSame DEF Inv

\* An entry gets other bits and keeps its frame, while its page is to be flushed.
LEMMA BitsTyped ==
  ASSUME Inv, NEW p \in Pages, pte[p] # NoPte, NEW a \in BOOLEAN, NEW d \in BOOLEAN,
         Bits(p, a, d), tlb' = tlb, at # "flush_bit", at' = "flush_bit", instr' = instr,
         instr.page = p
  PROVE  Tables' /\ SameFrame' /\ Honest'
<1> DEFINE new == [pte[p] EXCEPT !.a = a, !.d = d]
<1>1. pte[p] \in [frame : FrameIds, a : BOOLEAN, d : BOOLEAN]
  BY DEF Ptes, Inv, Tables
<1>2. new \in Ptes /\ new.frame = pte[p].frame
  BY <1>1 DEF Ptes
<1>3. pte' = [pte EXCEPT ![p] = new]
  BY DEF Bits
<1> HIDE DEF new
<1>4. /\ pte' \in [Pages -> Ptes] /\ pte'[p].frame = pte[p].frame
      /\ \A q \in Pages : q # p => pte'[q] = pte[q]
  BY <1>2, <1>3 DEF Inv, Tables
<1>5. SameFrame'
  BY <1>4 DEF Inv, SameFrame, Valid
<1>6. Honest'
  BY <1>4 DEF Inv, Honest, HonestAt, Valid
<1> QED
  BY <1>4, <1>5, <1>6 DEF Inv, Tables

LEMMA StepSetBit ==
  ASSUME Inv, SetBit PROVE Inv'
<1> DEFINE p == instr.page
           e == pte[p]
<1>1. CASE e.a /\ (e.d \/ instr.op # "store")
  BY <1>1, StepFailedAssertion DEF SetBit
<1>2. CASE ~(e.a /\ (e.d \/ instr.op # "store"))
  <2>1. /\ Bits(p, TRUE, e.a \/ e.d) /\ at' = "flush_bit" /\ UNCHANGED exit
        /\ p \in Pages /\ e # NoPte /\ at = "fault" /\ tlb' = tlb /\ instr' = instr
    BY <1>2 DEF SetBit, program
  <2>2. (e.a \/ e.d) \in BOOLEAN
    OBVIOUS
  <2>3. Tables' /\ SameFrame' /\ Honest'
    BY <2>1, <2>2, BitsTyped
  <2>4. Rest' /\ FreeList'
    BY <2>1 DEF Inv, SetBit, Rest, FreeList, list, contents, program
  <2>5. Serving'
    BY <2>1 DEF Inv, SetBit, Serving, MemoryOp, program
  <2> QED
    BY <2>3, <2>4, <2>5 DEF Inv
<1> QED
  BY <1>1, <1>2

LEMMA StepProtect ==
  ASSUME Inv, Protect PROVE Inv'
<1>1. /\ Bits(instr.page, FALSE, FALSE) /\ at' = "flush_bit" /\ UNCHANGED exit
      /\ instr.page \in Pages /\ at = "protect" /\ tlb' = tlb /\ instr' = instr
  BY DEF Inv, Serving, Protect, program
<1>2. NoPte.frame = NoFrame
  BY DEF NoPte
<1>3. pte[instr.page] # NoPte
  BY <1>1, <1>2, PteFacts DEF Inv, Serving
<1>4. Tables' /\ SameFrame' /\ Honest'
  BY <1>1, <1>3, BitsTyped
<1>5. Rest' /\ FreeList'
  BY <1>1 DEF Inv, Protect, Rest, FreeList, list, contents, program
<1>6. Serving'
  BY <1>1 DEF Inv, Protect, Serving, MemoryOp, program
<1> QED
  BY <1>4, <1>5, <1>6 DEF Inv

LEMMA StepFlushBit ==
  ASSUME Inv, FlushBit PROVE Inv'
<1>1. /\ instr.page \in Pages /\ tlb' = [tlb EXCEPT ![instr.page] = Uncached]
      /\ pte' = pte /\ at = "flush_bit" /\ at' = "user" /\ instr' = instr
  BY DEF Inv, Serving, FlushBit, Flushed, program
<1>2. Tables' /\ SameFrame' /\ Honest'
  BY <1>1 DEF Inv, Tables, SameFrame, Honest, HonestAt, Valid
<1>3. Rest' /\ FreeList'
  BY <1>1 DEF Inv, FlushBit, Rest, FreeList, list, contents, program
<1>4. Serving'
  BY <1>1 DEF Serving
<1> QED
  BY <1>2, <1>3, <1>4 DEF Inv

LEMMA StepTakeNode ==
  ASSUME Inv, TakeNode PROVE Inv'
<1> DEFINE p == instr.page
<1>1. CASE head = Null
  BY <1>1, StepFailedAssertion DEF TakeNode, list
<1>2. CASE head # Null
  <2> DEFINE new == [frame |-> cell[head].addr, a |-> TRUE, d |-> TRUE]
  <2>1. /\ head \in FreeNodes /\ cell[head].addr \in FrameIds
        /\ cell[head].next \in FreeNodes \cup {Null}
    BY <1>2 DEF Inv, TakeNode, FreeList
  <2>2. /\ p \in Pages /\ pte[p] = NoPte /\ at = "fault" /\ at' = "flush_map"
        /\ node' = head /\ head' = cell[head].next
        /\ tail' = IF head' = tail THEN Null ELSE tail
        /\ pte' = [pte EXCEPT ![p] = new] /\ instr' = instr /\ tlb' = tlb
    BY <1>2 DEF TakeNode, program
  <2>3. new \in Ptes /\ new.frame \in FrameIds
    BY <2>1, PteFacts
  <2> HIDE DEF new
  <2>4. /\ pte' \in [Pages -> Ptes] /\ pte'[p] = new
        /\ \A q \in Pages : q # p => pte'[q] = pte[q]
    BY <2>2, <2>3 DEF Inv, Tables
  <2>5. ~Valid(p)
    BY <2>2, ValidFacts DEF Inv
  <2>6. Tables' /\ SameFrame' /\ Honest'
    BY <2>2, <2>4, <2>5 DEF Inv, Tables, SameFrame, Honest, HonestAt, Valid
  <2>7. FreeNodes \subseteq Nodes
    BY DEF Nodes
  <2>8. Rest'
    BY <1>2, <2>1, <2>2, <2>7 DEF Inv, TakeNode, Rest, Bound, contents, program
  <2>9. FreeList' /\ Serving'
    BY <1>2, <2>1, <2>2, <2>3, <2>4 DEF Inv, TakeNode, FreeList, Serving, MemoryOp, program
  <2> QED
    BY <2>6, <2>8, <2>9 DEF Inv
<1> QED
  BY <1>1, <1>2

\* A node of the free list is not one of user_mapping.
LEMMA NodeFacts ==
  /\ FreeNodes \subseteq Nodes
  /\ \A p \in Pages : MapNode(p) \in Nodes /\ MapNode(p) \notin FreeNodes /\ MapNode(p)[2] = p
<1>1. \A p, i : MapNode(p) # FreeNode(i)
  BY DEF MapNode, FreeNode
<1> QED
  BY <1>1 DEF Nodes, FreeNodes, MapNode

LEMMA StepFlushMap ==
  ASSUME Inv, FlushMap PROVE Inv'
<1> DEFINE p == instr.page
<1>1. /\ p \in Pages /\ tlb' = [tlb EXCEPT ![p] = Uncached] /\ node \in FreeNodes
      /\ pte' = pte /\ at = "flush_map" /\ instr' = instr /\ node' = node
      /\ head' = head /\ tail' = tail /\ out' = out /\ contents' = contents
  BY DEF Inv, Serving, FlushMap, Flushed, program
<1>2. Tables' /\ SameFrame' /\ Honest'
  BY <1>1 DEF Inv, Tables, SameFrame, Honest, HonestAt, Valid
<1>3. CASE Mapped(p)
  <2>1. cell' = cell /\ at' = "stopped" /\ exit' = 3
    BY <1>3 DEF FlushMap, AssertFails, Terminate
  <2>2. Rest'
    BY <1>1, <2>1 DEF Inv, Rest, contents
  <2>3. FreeList' /\ Serving'
    BY <2>1 DEF FreeList, Serving
  <2> QED
    BY <1>2, <2>2, <2>3 DEF Inv
<1>4. CASE ~Mapped(p)
  <2>1. cell' = [cell EXCEPT ![MapNode(p)] = cell[node]] /\ at' = "copy" /\ exit' = exit
    BY <1>4 DEF FlushMap
  <2>2. /\ cell' \in [Nodes -> [addr : FrameIds \cup {NoFrame}, next : Bound]]
        /\ \A n \in FreeNodes : cell'[n] = cell[n]
    BY <1>1, <2>1, NodeFacts DEF Inv, Rest
  <2>3. Rest'
    BY <1>1, <2>1, <2>2 DEF Inv, Rest, contents
  <2>4. FreeList' /\ Serving'
    BY <1>1, <2>1, <2>2 DEF Inv, FreeList, Serving, MemoryOp
  <2> QED
    BY <1>2, <2>3, <2>4 DEF Inv
<1> QED
  BY <1>3, <1>4

LEMMA StepCopyIn ==
  ASSUME Inv, CopyIn PROVE Inv'
<1> DEFINE p == instr.page
<1>1. p \in Pages /\ at = "copy"
  BY DEF Inv, Serving, CopyIn
<1>2. CASE ~Hits(p, "store")
  BY <1>1, <1>2, StepFailedAssertion DEF CopyIn, contents
<1>3. CASE Hits(p, "store")
  <2> DEFINE f == Translation(p).frame
  <2>1. /\ Access(p, "store") /\ at' = "protect" /\ exit' = exit
        /\ frame' = [frame EXCEPT ![f] = home[p]]
    BY <1>3 DEF CopyIn
  <2>2. Tables' /\ SameFrame' /\ Honest' /\ pte'[p].frame = pte[p].frame
    BY <1>1, <2>1, AccessTyped DEF Inv, Tables, SameFrame, Honest, HonestAt, Valid
  <2>3. f \in FrameIds
    BY <1>1, <1>3, HitFacts DEF Inv, Hits
  <2>4. Rest'
    BY <1>1, <2>1, <2>3 DEF Inv, CopyIn, Rest, list, program
  <2>5. FreeList' /\ Serving'
    BY <1>1, <2>1, <2>2 DEF Inv, CopyIn, FreeList, Serving, MemoryOp, list, program
  <2> QED
    BY <2>2, <2>4, <2>5 DEF Inv
<1> QED
  BY <1>2, <1>3

LEMMA StepTlb ==
  ASSUME Inv, TlbStep PROVE Inv'
<1>1. /\ tlb' \in [Pages -> Ptes \cup {Uncached}]
      /\ \A q \in Pages : tlb'[q] \in {tlb[q], pte[q], Uncached}
  BY DEF Inv, Tables, TlbStep
<1>2. Tables' /\ SameFrame' /\ Honest'
  BY <1>1 DEF Inv, TlbStep, Tables, SameFrame, Honest, HonestAt, Valid, program
<1>3. Rest' /\ FreeList'
  BY DEF Inv, TlbStep, Rest, FreeList, list, contents, program
<1>4. Serving'
  BY DEF Inv, TlbStep, Serving, MemoryOp, program
<1> QED
  BY <1>2, <1>3, <1>4 DEF Inv

LEMMA StepNext ==
  ASSUME Inv, NEW p \in Pages, at = "evict", node = MapNode(p), NextPage
  PROVE  /\ at' \in {"evict", "terminate"} /\ node' \in Bound
         /\ at' = "evict" => \E q \in Pages : node' = MapNode(q)
<1>1. node[2] = p
  BY NodeFacts
<1>2. CASE p = MaxTestPages - 1
  BY <1>1, <1>2 DEF NextPage, Inv, Rest
<1>3. CASE p # MaxTestPages - 1
  <2>1. p + 1 \in Pages /\ node' = MapNode(p + 1) /\ at' = "evict"
    BY <1>1, <1>3, ConstantAssumption DEF NextPage, Pages
  <2> QED
    BY <2>1, NodeFacts DEF Bound
<1> QED
  BY <1>2, <1>3

LEMMA StepEvict ==
  ASSUME Inv, Evict PROVE Inv'
<1>1. PICK p \in Pages : node = MapNode(p)
  BY DEF Inv, Serving, Evict
<1>2. node[2] = p /\ at = "evict" /\ home' = home /\ instr' = instr /\ out' = out
  BY <1>1, NodeFacts DEF Evict, program
<1>3. CASE AssertFails /\ UNCHANGED <<pte, tlb, list, frame, node>>
  BY <1>2, <1>3, StepFailedAssertion DEF contents, program
<1>4. CASE NextPage /\ UNCHANGED <<pte, tlb, list, frame, exit>>
  <2>1. /\ at' \in {"evict", "terminate"} /\ node' \in Bound
        /\ at' = "evict" => \E q \in Pages : node' = MapNode(q)
    BY <1>1, <1>2, <1>4, StepNext
  <2>2. Rest'
    BY <1>2, <1>4, <2>1 DEF Inv, Rest, list
  <2>3. FreeList' /\ Serving'
    BY <1>2, <2>1 DEF Inv, FreeList, Serving
  <2> QED
    BY <1>2, <1>4, <2>2, <2>3, TlbSame DEF Inv
<1>5. CASE \E op : /\ Access(p, op)
                   /\ frame' = [frame EXCEPT ![Translation(p).frame] = home[p]]
                   /\ AppendNode(MapNode(p), [cell EXCEPT ![MapNode(p)].addr = NoFrame])
                   /\ NextPage /\ UNCHANGED exit
  <2> DEFINE Cells == [Nodes -> [addr : FrameIds \cup {NoFrame}, next : Bound]]
             c == [cell EXCEPT ![MapNode(p)].addr = NoFrame]
  <2>1. PICK op : Access(p, op)
    BY <1>5
  <2>2. Tables' /\ SameFrame' /\ Honest'
    BY <1>2, <2>1, AccessTyped DEF Inv, Tables, SameFrame, Honest, HonestAt, Valid
  <2>3. Translation(p).frame \in FrameIds
    BY <2>1, HitFacts DEF Inv, Access
  <2>4. frame' \in [FrameIds -> Data]
    BY <1>5, <2>3 DEF Inv, Rest
  <2>5. /\ at' \in {"evict", "terminate"} /\ node' \in Bound
        /\ at' = "evict" => \E q \in Pages : node' = MapNode(q)
    BY <1>1, <1>2, <1>5, StepNext
  <2>6. MapNode(p) \in Nodes /\ cell \in Cells /\ tail \in Bound /\ head \in Bound
    BY NodeFacts DEF Inv, Rest
  <2>7. c \in Cells
    BY <2>6
  <2>8. AppendNode(MapNode(p), c)
    BY <1>5
  <2> HIDE DEF c
  <2>9. cell' \in Cells /\ head' \in Bound /\ tail' \in Bound
    <3>1. CASE tail = Null
      BY <2>6, <2>7, <2>8, <3>1 DEF AppendNode, Bound
    <3>2. CASE tail # Null
      BY <2>6, <2>7, <2>8, <3>2 DEF AppendNode, Bound
    <3> QED
      BY <3>1, <3>2
  <2>10. Rest'
    BY <1>2, <1>5, <2>4, <2>5, <2>9 DEF Inv, Rest
  <2>11. FreeList' /\ Serving'
    BY <1>2, <2>5 DEF Inv, FreeList, Serving
  <2> QED
    BY <2>2, <2>10, <2>11 DEF Inv
<1> QED
  BY <1>2, <1>3, <1>4, <1>5 DEF Evict

LEMMA InitInv == Init => Inv
<1> SUFFICES ASSUME Init PROVE Inv
  OBVIOUS
<1>1. MaxTestPages \in Nat /\ MaxTestPages > 1
  BY ConstantAssumption
<1>2. \A i \in 1 .. MaxTestPages : FreeNode(i) \in FreeNodes /\ FreeNode(i)[2] = i
  BY DEF FreeNodes, FreeNode
<1>3. /\ cell \in [Nodes -> [addr : FrameIds \cup {NoFrame}, next : Bound]]
      /\ \A n \in FreeNodes : cell[n].addr \in FrameIds /\ cell[n].next \in FreeNodes \cup {Null}
  <2>0. PICK l \in FreeLists : cell = [n \in Nodes |->
          IF n \notin FreeNodes THEN [addr |-> NoFrame, next |-> Null]
          ELSE [addr |-> l[n[2]],
                next |-> IF n[2] = MaxTestPages THEN Null ELSE FreeNode(n[2] + 1)]]
    BY DEF Init
  <2> DEFINE Cell == [addr : FrameIds \cup {NoFrame}, next : Bound]
             value(n) == IF n \notin FreeNodes THEN [addr |-> NoFrame, next |-> Null]
                         ELSE [addr |-> l[n[2]],
                               next |-> IF n[2] = MaxTestPages THEN Null
                                        ELSE FreeNode(n[2] + 1)]
  <2>1. cell = [n \in Nodes |-> value(n)]
    BY <2>0
  <2>2. ASSUME NEW n \in FreeNodes
        PROVE  value(n) \in Cell /\ value(n).addr \in FrameIds
               /\ value(n).next \in FreeNodes \cup {Null}
    <3>1. PICK i \in 1 .. MaxTestPages : n = FreeNode(i)
      BY DEF FreeNodes
    <3>2. n[2] = i /\ l[i] \in FrameIds
      BY <1>2, <3>1 DEF FrameIds
    <3>3. i # MaxTestPages => FreeNode(i + 1) \in FreeNodes
      BY <1>1, <1>2
    <3>4. FreeNodes \cup {Null} \subseteq Bound
      BY DEF Bound, Nodes
    <3> QED
      BY <3>2, <3>3, <3>4
  <2>3. \A n : n \notin FreeNodes => value(n) \in Cell
    BY DEF Bound
  <2>4. \A n \in FreeNodes : n \in Nodes
    BY NodeFacts
  <2> HIDE DEF value, Cell
  <2>5. cell \in [Nodes -> Cell]
    BY <2>1, <2>2, <2>3
  <2> QED
    BY <2>1, <2>2, <2>4, <2>5 DEF Cell
<1>4. FreeNode(1) \in FreeNodes /\ FreeNode(MaxTestPages) \in FreeNodes
  BY <1>1, <1>2
<1>5. Tables
  BY PteFacts DEF Init, Tables
<1>6. Rest
  BY <1>3, <1>4, NodeFacts DEF Init, Rest, Bound
<1>7. FreeList
  BY <1>3, <1>4 DEF Init, FreeList
<1>8. Serving /\ SameFrame /\ Honest
  BY DEF Init, Serving, SameFrame, Honest, HonestAt, Valid
<1> QED
  BY <1>5, <1>6, <1>7, <1>8 DEF Inv

LEMMA StepInv == Inv /\ [Next]_vars => Inv'
<1> SUFFICES ASSUME Inv, [Next]_vars PROVE Inv'
  OBVIOUS
<1>1. CASE Issue
  BY <1>1, StepIssue
<1>2. CASE Execute
  BY <1>2, StepExecute
<1>3. CASE Wtf \/ Fault \/ Ecall \/ BadAddress \/ End
  BY <1>3, StepQuiet
<1>4. CASE SetBit
  BY <1>4, StepSetBit
<1>5. CASE FlushBit
  BY <1>5, StepFlushBit
<1>6. CASE TakeNode
  BY <1>6, StepTakeNode
<1>7. CASE FlushMap
  BY <1>7, StepFlushMap
<1>8. CASE CopyIn
  BY <1>8, StepCopyIn
<1>9. CASE Protect
  BY <1>9, StepProtect
<1>10. CASE Evict
  BY <1>10, StepEvict
<1>11. CASE TlbStep
  BY <1>11, StepTlb
<1>12. CASE UNCHANGED vars
  BY <1>12 DEF vars, list, contents, program, Inv, Tables, Rest, FreeList, Serving, SameFrame,
     Honest, HonestAt, Valid, MemoryOp
<1> QED
  BY <1>1, <1>2, <1>3, <1>4, <1>5, <1>6, <1>7, <1>8, <1>9, <1>10, <1>11, <1>12
     DEF Next, Hart, Kernel

LEMMA Invariance == Spec => []Inv
<1>1. Inv /\ [Next]_vars => Inv'
  BY StepInv
<1> QED
  BY <1>1, InitInv, PTL DEF Spec

\* The nodes, the tables and the kernel's variables keep their types, for any
\* number of pages: every frame handed to a page is one of the free list's.
THEOREM KernelTyped == Spec => []TypeOK
<1>1. Inv => TypeOK
  BY DEF Inv, Tables, Rest, Bound, TypeOK
<1> QED
  BY <1>1, Invariance, PTL

\* With any number of pages, and whenever the TLB loads or drops an entry, the
\* flushes of handle_fault leave the program no translation that allows more
\* than the page table.
THEOREM TlbStaysHonest == Spec => []TlbHonest
<1>1. Inv => TlbHonest
  BY DEF Inv, SameFrame, Honest, HonestAt, Valid, TlbHonest
<1> QED
  BY <1>1, Invariance, PTL

----------------------------------------------------------------------------
(* The kernel's data, and plain memory. *)

\* The kernel serves the program, and has not begun to end it.
Before == at \notin {"evict", "terminate", "stopped"}

Has(p) == pte[p].frame # NoFrame

\* The TLB lags behind the page table only where a flush is due.
Current == \A p \in Pages :
  tlb[p] \in {Uncached, pte[p]} \/ (at \in {"flush_bit", "flush_map"} /\ instr.page = p)

Separate == \A p, q \in Pages : Has(p) /\ pte[p].frame = pte[q].frame => p = q

MapsOwn == \A p \in Pages : Mapped(p) => cell[MapNode(p)].addr = pte[p].frame

\* Every entry is in user_mapping, but for the one being made.
MapsDone ==
  /\ Before => \A p \in Pages : Has(p) => Mapped(p) \/ (at = "flush_map" /\ instr.page = p)
  /\ at = "flush_map" => ~Mapped(instr.page)

\* The free list is the tail of the boot list from its h-th node on; the frames
\* before that are the pages'.
LinkedFrom(l, h) ==
  /\ head = FreeNode(h)
  /\ \A i \in 1 .. MaxTestPages :
       cell[FreeNode(i)] = [addr |-> l[i],
                            next |-> IF i = MaxTestPages THEN Null ELSE FreeNode(i + 1)]
  /\ \A p \in Pages : Has(p) => \E i \in 1 .. h - 1 : pte[p].frame = l[i]
  /\ \A i \in 1 .. h - 1 : \E p \in Pages : pte[p].frame = l[i]
Linked ==
  /\ Before => \E l \in FreeLists, h \in 1 .. MaxTestPages : LinkedFrom(l, h)
  /\ at = "flush_map" => cell[node].addr = pte[instr.page].frame

\* A fault has a reason in the page table, not in the TLB alone.
FaultMisses ==
  at = "fault" /\ instr.page \in Pages /\ Has(instr.page) =>
    Needs(pte[instr.page], instr.op) # pte[instr.page]

Complete == at \in {"flush_map", "copy", "protect"} => pte[instr.page].a /\ pte[instr.page].d
Copied == at = "protect" => frame[pte[instr.page].frame] = home[instr.page]

\* A page without its accessed bit is the one the next access is to.
Accessed == at # "stopped" => \A p \in Pages :
  Has(p) => pte[p].a \/ (Before /\ MemoryOp /\ instr.page = p)

Dirty == \A p \in Pages : Mapped(p) /\ frame[cell[MapNode(p)].addr] # home[p] => pte[p].d

Ending == at # "stopped" => exit = Running

Memory ==
  /\ Current /\ Separate /\ MapsOwn /\ MapsDone /\ Linked
  /\ FaultMisses /\ Complete /\ Copied /\ Accessed /\ Dirty /\ Ending

----------------------------------------------------------------------------
(* Entries and translations *)

LEMMA HasFacts ==
  ASSUME NEW t \in Ptes
  PROVE  /\ t.frame # NoFrame <=> t # NoPte
         /\ t.frame # NoFrame => t \in [frame : FrameIds, a : BOOLEAN, d : BOOLEAN]
         /\ t # Uncached
<1>1. NoPte.frame = NoFrame /\ NoPte.a = FALSE /\ Uncached.frame = NoFrame /\ Uncached.a = TRUE
  BY DEF NoPte, Uncached
<1>2. t # NoPte => t \in [frame : FrameIds, a : BOOLEAN, d : BOOLEAN] /\ t.frame # NoFrame
  BY PteFacts DEF Ptes
<1> QED
  BY <1>1, <1>2

LEMMA NeedsFacts ==
  ASSUME NEW t \in Ptes, t.frame # NoFrame, NEW op
  PROVE  /\ Needs(t, op).frame = t.frame
         /\ Needs(t, op).a
         /\ Needs(t, op).d <=> t.d \/ op = "store"
         /\ Needs(t, op) = t <=> t.a /\ (op = "store" => t.d)
<1> DEFINE dirty == t.d \/ op = "store"
<1>1. t \in [frame : FrameIds, a : BOOLEAN, d : BOOLEAN]
  BY HasFacts
<1>2. Needs(t, op) = [t EXCEPT !.a = TRUE, !.d = dirty]
  BY DEF Needs
<1>3. dirty \in BOOLEAN /\ (dirty <=> t.d \/ op = "store")
  OBVIOUS
<1> HIDE DEF dirty
<1> DEFINE r == [t EXCEPT !.a = TRUE, !.d = dirty]
           Full == [frame : FrameIds, a : BOOLEAN, d : BOOLEAN]
<1>4. r \in Full /\ r.frame = t.frame /\ r.a /\ (r.d <=> dirty)
  BY <1>1, <1>3
<1> HIDE DEF r
<1>5. \A x, y \in Full : x.frame = y.frame /\ (x.a <=> y.a) /\ (x.d <=> y.d) => x = y
  OBVIOUS
<1>6. r = t <=> t.a /\ (t.d <=> dirty)
  BY <1>1, <1>4, <1>5
<1> QED
  BY <1>2, <1>3, <1>4, <1>6 DEF r

\* Where no flush is due, a translation is the page's entry.
LEMMA Translates ==
  ASSUME Tables, Current, NEW p \in Pages, at \notin {"flush_bit", "flush_map"} \/ instr.page # p
  PROVE  /\ Translation(p) = pte[p]
         /\ Present(p) <=> Has(p)
         /\ \A op : Hits(p, op) <=> Has(p) /\ pte[p].a /\ (op = "store" => pte[p].d)
<1>1. Translation(p) = pte[p]
  BY DEF Current, Translation
<1>2. Present(p) <=> Has(p)
  BY <1>1, HasFacts DEF Present, Has, Tables
<1>3. pte[p] \in Ptes
  BY DEF Tables
<1>4. ASSUME NEW op PROVE Hits(p, op) <=> Has(p) /\ pte[p].a /\ (op = "store" => pte[p].d)
  <2>1. CASE Has(p)
    BY <1>1, <1>2, <1>3, <2>1, NeedsFacts DEF Hits, Has
  <2>2. CASE ~Has(p)
    BY <1>2, <2>2 DEF Hits
  <2> QED
    BY <2>1, <2>2
<1> QED
  BY <1>1, <1>2, <1>4

\* An access sets bits of its page's entry, and the TLB follows.
LEMMA Accesses ==
  ASSUME Tables, Current, NEW p \in Pages, NEW op, Access(p, op),
         at \notin {"flush_bit", "flush_map"}
  PROVE  /\ Has(p) /\ Translation(p) = pte[p]
         /\ pte'[p] = Needs(pte[p], op)
         /\ pte'[p].frame = pte[p].frame /\ pte'[p].a
         /\ pte'[p].d <=> pte[p].d \/ op = "store"
         /\ \A q \in Pages : q # p => pte'[q] = pte[q]
         /\ \A q \in Pages : tlb'[q] \in {Uncached, pte'[q]}
<1>1. Has(p) /\ Translation(p) = pte[p] /\ pte[p] \in Ptes
  BY Translates DEF Access, Tables
<1>2. /\ pte'[p] = Needs(pte[p], op)
      /\ \A q \in Pages : q # p => pte'[q] = pte[q]
      /\ \A q \in Pages : tlb'[q] \in {Uncached, pte'[q]}
  <2>1. CASE Translation(p) = Needs(Translation(p), op) /\ UNCHANGED <<pte, tlb>>
    BY <1>1, <2>1 DEF Current
  <2>2. CASE /\ pte' = [pte EXCEPT ![p] = Needs(@, op)]
             /\ tlb' = [tlb EXCEPT ![p] = pte'[p]]
    BY <2>2 DEF Current, Tables
  <2> QED
    BY <2>1, <2>2 DEF Access
<1> QED
  BY <1>1, <1>2, NeedsFacts DEF Has

----------------------------------------------------------------------------
(* The parts a step keeps because it leaves alone what they speak of *)

LEMMA MapsKept ==
  ASSUME Separate, MapsOwn,
         \A q \in Pages : pte'[q].frame = pte[q].frame,
         \A q \in Pages : cell'[MapNode(q)].addr \in {NoFrame, cell[MapNode(q)].addr}
  PROVE  Separate' /\ MapsOwn'
  BY DEF Separate, MapsOwn, Has, Mapped

LEMMA LinkedKept ==
  ASSUME Linked, Before' => Before, at' = "flush_map" => at = "flush_map" /\ instr' = instr,
         \A q \in Pages : pte'[q].frame = pte[q].frame,
         at' = "flush_map" => instr.page \in Pages,
         UNCHANGED <<cell, head, node>>
  PROVE  Linked'
<1>1. \A l, h : LinkedFrom(l, h) => LinkedFrom(l, h)'
  BY DEF LinkedFrom, Has
<1> QED
  BY <1>1 DEF Linked

\* What holds of the kernel's steps that change none of the tables, but only
\* where the kernel is and which instruction the program is at.
LEMMA TablesKept ==
  ASSUME Memory, Before' => Before,
         at' \in {"user", "fault", "evict", "terminate", "stopped"},
         at \notin {"flush_bit", "flush_map"},
         UNCHANGED <<pte, tlb, cell, head, tail, node, home, frame>>
  PROVE  /\ Current' /\ Separate' /\ MapsOwn' /\ MapsDone' /\ Linked'
         /\ Complete' /\ Copied' /\ Dirty'
<1>1. Separate' /\ MapsOwn'
  BY MapsKept DEF Memory
<1>2. Linked'
  BY LinkedKept DEF Memory
<1>3. Current' /\ MapsDone' /\ Complete' /\ Copied' /\ Dirty'
  BY DEF Memory, Current, MapsDone, Complete, Copied, Dirty, Has, Mapped
<1> QED
  BY <1>1, <1>2, <1>3

LEMMA MemoryIssue ==
  ASSUME Inv, Memory, Issue PROVE Memory'
<1>1. /\ at = "user" /\ at' = "user" /\ exit' = exit /\ instr = None
      /\ UNCHANGED <<pte, tlb, cell, head, tail, node, home, frame>>
  BY DEF Issue, list, contents
<1>2. ~MemoryOp
  BY <1>1 DEF MemoryOp, None, Flat!None
<1>3. FaultMisses' /\ Accessed' /\ Ending'
  BY <1>1, <1>2 DEF Memory, FaultMisses, Accessed, Ending, Before, Has
<1> QED
  BY <1>1, <1>3, TablesKept DEF Memory, Before

\* The steps to a place where nothing is served, or the end.
LEMMA MemoryQuiet ==
  ASSUME Inv, Memory, Wtf \/ Fault \/ Ecall \/ BadAddress \/ End PROVE Memory'
<1>1. /\ at \in {"user", "fault", "terminate"} /\ at' \in {"fault", "evict", "stopped"}
      /\ UNCHANGED <<pte, tlb, cell, head, tail, home, frame, instr>>
      /\ at' # "evict" => node' = node
      /\ Before' => Before
  BY DEF Wtf, Fault, Ecall, BadAddress, End, AssertFails, Terminate, list, contents, program,
         Before
<1>2. CASE Fault
  <2>1. at = "user" /\ at' = "fault" /\ exit' = exit
    BY <1>2 DEF Fault
  <2>2. ASSUME instr.page \in Pages, Has(instr.page)
        PROVE  Needs(pte[instr.page], instr.op) # pte[instr.page]
    <3>1. ~Hits(instr.page, instr.op)
      BY <1>2, <2>2 DEF Fault
    <3>2. pte[instr.page] \in Ptes
      BY <2>2 DEF Inv, Tables
    <3> QED
      BY <2>1, <2>2, <3>1, <3>2, Translates, NeedsFacts DEF Inv, Memory, Has
  <2>3. FaultMisses' /\ Accessed' /\ Ending'
    BY <1>1, <2>1, <2>2 DEF Memory, FaultMisses, Accessed, Ending, Before, MemoryOp, Has
  <2> QED
    BY <1>1, <2>1, <2>3, TablesKept DEF Memory
<1>3. CASE Ecall
  <2>1. at = "user" /\ at' = "evict" /\ exit' = exit /\ ~MemoryOp
    BY <1>3 DEF Ecall, MemoryOp
  <2>2. FaultMisses' /\ Accessed' /\ Ending'
    BY <1>1, <2>1 DEF Memory, FaultMisses, Accessed, Ending, Before, Has
  <2>3. /\ Current' /\ Separate' /\ MapsOwn' /\ MapsDone' /\ Linked'
        /\ Complete' /\ Copied' /\ Dirty'
    BY <1>1, <2>1 DEF Memory, Current, Separate, MapsOwn, MapsDone, Linked, Complete, Copied,
       Dirty, Has, Mapped, Before
  <2> QED
    BY <2>2, <2>3 DEF Memory
<1>4. CASE Wtf \/ BadAddress \/ End
  <2>1. at' = "stopped"
    BY <1>4 DEF Wtf, BadAddress, End, AssertFails, Terminate
  <2>2. FaultMisses' /\ Accessed' /\ Ending'
    BY <2>1 DEF FaultMisses, Accessed, Ending
  <2> QED
    BY <1>1, <2>1, <2>2, TablesKept DEF Memory
<1> QED
  BY <1>2, <1>3, <1>4

LEMMA MemoryTlb ==
  ASSUME Inv, Memory, TlbStep PROVE Memory'
<1>1. /\ UNCHANGED <<pte, cell, head, node, home, frame, at, instr, exit>>
      /\ \A q \in Pages : tlb'[q] \in {tlb[q], pte[q], Uncached}
  BY DEF Inv, Tables, TlbStep, list, contents, program
<1>2. Current'
  BY <1>1 DEF Memory, Current
<1>3. Separate' /\ MapsOwn'
  BY <1>1, MapsKept DEF Memory
<1>4. Linked'
  BY <1>1, LinkedKept DEF Memory, Before, Inv, Serving
<1>5. MapsDone' /\ FaultMisses' /\ Complete' /\ Copied' /\ Accessed' /\ Dirty' /\ Ending'
  BY <1>1 DEF Memory, MapsDone, FaultMisses, Complete, Copied, Accessed, Dirty, Ending, Has,
     Mapped, Before, MemoryOp
<1> QED
  BY <1>2, <1>3, <1>4, <1>5 DEF Memory

----------------------------------------------------------------------------
(* The steps that change the tables *)

\* A write to the frame of one page leaves those of the others alone.
LEMMA FrameWritten ==
  ASSUME Inv, Separate, MapsOwn, NEW p \in Pages, Has(p), NEW v,
         frame' = [frame EXCEPT ![pte[p].frame] = v]
  PROVE  /\ frame'[pte[p].frame] = v
         /\ Mapped(p) => cell[MapNode(p)].addr = pte[p].frame
         /\ \A q \in Pages : q # p /\ Mapped(q) =>
              frame'[cell[MapNode(q)].addr] = frame[cell[MapNode(q)].addr]
<1>1. \A q \in Pages : Has(q) => pte[q].frame \in FrameIds
  BY HasFacts DEF Inv, Tables, Has
<1>2. frame \in [FrameIds -> Data]
  BY DEF Inv, Rest
<1>3. ASSUME NEW q \in Pages, Mapped(q)
      PROVE  cell[MapNode(q)].addr = pte[q].frame /\ Has(q)
  BY <1>3 DEF MapsOwn, Mapped, Has
<1>4. \A q \in Pages : q # p /\ Mapped(q) => pte[q].frame # pte[p].frame /\ pte[q].frame \in FrameIds
  BY <1>1, <1>3 DEF Separate
<1> QED
  BY <1>1, <1>2, <1>3, <1>4

LEMMA MemoryExecute ==
  ASSUME Inv, Memory, Execute PROVE Memory'
<1> DEFINE p == instr.page
<1>1. /\ p \in Pages /\ at = "user" /\ at' = "user" /\ exit' = exit /\ instr' = None
      /\ UNCHANGED <<cell, head, node, home>> /\ Access(p, instr.op)
      /\ frame' = IF instr.op = "store"
                  THEN [frame EXCEPT ![Translation(p).frame] = instr.data] ELSE frame
  BY DEF Execute, list
<1>2. /\ Has(p) /\ Translation(p) = pte[p]
      /\ pte'[p].frame = pte[p].frame /\ pte'[p].a
      /\ pte'[p].d <=> pte[p].d \/ instr.op = "store"
      /\ \A q \in Pages : q # p => pte'[q] = pte[q]
      /\ \A q \in Pages : tlb'[q] \in {Uncached, pte'[q]}
  BY <1>1, Accesses DEF Inv, Memory
<1>3. \A q \in Pages : pte'[q].frame = pte[q].frame
  BY <1>2
<1>4. Current' /\ MapsDone' /\ FaultMisses' /\ Complete' /\ Copied' /\ Ending'
  BY <1>1, <1>2, <1>3 DEF Memory, Current, MapsDone, FaultMisses, Complete, Copied, Ending,
     Before, Has, Mapped
<1>5. Separate' /\ MapsOwn'
  BY <1>1, <1>3, MapsKept DEF Memory
<1>6. Linked'
  BY <1>1, <1>3, LinkedKept DEF Memory, Before
<1>7. Accessed'
  BY <1>1, <1>2 DEF Memory, Accessed, Before, Has
<1>8. Dirty'
  <2>1. CASE instr.op = "store"
    <3>1. frame' = [frame EXCEPT ![pte[p].frame] = instr.data]
      BY <1>1, <1>2, <2>1
    <3>2. p \in Pages /\ Has(p) /\ Separate /\ MapsOwn
      BY <1>1, <1>2 DEF Memory
    <3> HIDE DEF p
    <3>3. \A q \in Pages : q # p /\ Mapped(q) =>
            frame'[cell[MapNode(q)].addr] = frame[cell[MapNode(q)].addr]
      BY <3>1, <3>2, FrameWritten
    <3> USE DEF p
    <3> QED
      BY <1>1, <1>2, <2>1, <3>3 DEF Memory, Dirty, Mapped
  <2>2. CASE instr.op # "store"
    BY <1>1, <1>2, <2>2 DEF Memory, Dirty, Mapped
  <2> QED
    BY <2>1, <2>2
<1> QED
  BY <1>4, <1>5, <1>6, <1>7, <1>8 DEF Memory

\* The entry of the page served gets other bits.
LEMMA BitsSet ==
  ASSUME Inv, NEW p \in Pages, NEW a \in BOOLEAN, NEW d \in BOOLEAN, Has(p), Bits(p, a, d)
  PROVE  /\ pte'[p].frame = pte[p].frame /\ (pte'[p].a <=> a) /\ (pte'[p].d <=> d)
         /\ \A q \in Pages : q # p => pte'[q] = pte[q]
         /\ \A q \in Pages : pte'[q].frame = pte[q].frame
<1>1. pte \in [Pages -> Ptes] /\ pte[p] \in [frame : FrameIds, a : BOOLEAN, d : BOOLEAN]
  BY HasFacts DEF Inv, Tables, Has
<1>2. pte' = [pte EXCEPT ![p] = [pte[p] EXCEPT !.a = a, !.d = d]]
  BY DEF Bits
<1>3. /\ pte'[p] = [pte[p] EXCEPT !.a = a, !.d = d]
      /\ \A q \in Pages : q # p => pte'[q] = pte[q]
  BY <1>1, <1>2
<1>4. pte'[p].frame = pte[p].frame /\ (pte'[p].a <=> a) /\ (pte'[p].d <=> d)
  BY <1>1, <1>3
<1> QED
  BY <1>3, <1>4

\* The assertion on a page that is mapped does not fail: one of its bits is
\* missing.
LEMMA SetBitPasses ==
  ASSUME Inv, Memory, SetBit
  PROVE  /\ instr.page \in Pages /\ Has(instr.page) /\ at = "fault" /\ at' = "flush_bit"
         /\ exit' = exit /\ UNCHANGED <<tlb, cell, head, tail, home, frame, node, out, instr>>
         /\ Bits(instr.page, TRUE, pte[instr.page].a \/ pte[instr.page].d)
<1> DEFINE p == instr.page
<1>1. p \in Pages /\ pte[p] \in Ptes /\ Has(p) /\ at = "fault"
  BY HasFacts DEF SetBit, Inv, Tables, Has
<1>2. ~(pte[p].a /\ (pte[p].d \/ instr.op # "store"))
  BY <1>1, NeedsFacts DEF Memory, FaultMisses, Has
<1> QED
  BY <1>1, <1>2 DEF SetBit, list, contents, program

LEMMA MemorySetBit ==
  ASSUME Inv, Inv', Memory, SetBit PROVE Memory'
<1> DEFINE p == instr.page
<1>1. /\ p \in Pages /\ Has(p) /\ at = "fault" /\ at' = "flush_bit" /\ exit' = exit
      /\ UNCHANGED <<tlb, cell, head, home, frame, node, instr>>
      /\ Bits(p, TRUE, pte[p].a \/ pte[p].d)
  BY SetBitPasses
<1>2. (pte[p].a \/ pte[p].d) \in BOOLEAN
  OBVIOUS
<1>3. /\ pte'[p].frame = pte[p].frame /\ pte'[p].a /\ (pte'[p].d <=> pte[p].a \/ pte[p].d)
      /\ \A q \in Pages : q # p => pte'[q] = pte[q]
      /\ \A q \in Pages : pte'[q].frame = pte[q].frame
  BY <1>1, <1>2, BitsSet
<1>4. Current' /\ MapsDone' /\ FaultMisses' /\ Complete' /\ Copied' /\ Ending'
  BY <1>1, <1>3 DEF Memory, Current, MapsDone, FaultMisses, Complete, Copied, Ending, Before,
     Has, Mapped
<1>5. Separate' /\ MapsOwn'
  BY <1>1, <1>3, MapsKept DEF Memory
<1>6. Linked'
  BY <1>1, <1>3, LinkedKept DEF Memory, Before
<1>7. Accessed' /\ Dirty'
  BY <1>1, <1>3 DEF Memory, Accessed, Dirty, Before, Has, MemoryOp, Mapped
<1> QED
  BY <1>4, <1>5, <1>6, <1>7 DEF Memory

LEMMA MemoryProtect ==
  ASSUME Inv, Memory, Protect PROVE Memory'
<1> DEFINE p == instr.page
<1>1. /\ p \in Pages /\ Has(p) /\ MemoryOp /\ at = "protect" /\ at' = "flush_bit" /\ exit' = exit
      /\ UNCHANGED <<tlb, cell, head, home, frame, node, instr>>
      /\ Bits(p, FALSE, FALSE)
  BY PteFacts DEF Inv, Serving, Protect, Has, list, contents, program
<1>3. /\ pte'[p].frame = pte[p].frame
      /\ \A q \in Pages : q # p => pte'[q] = pte[q]
      /\ \A q \in Pages : pte'[q].frame = pte[q].frame
  BY <1>1, BitsSet
<1>4. Current' /\ MapsDone' /\ FaultMisses' /\ Complete' /\ Copied' /\ Ending'
  BY <1>1, <1>3 DEF Memory, Current, MapsDone, FaultMisses, Complete, Copied, Ending, Before,
     Has, Mapped
<1>5. Separate' /\ MapsOwn'
  BY <1>1, <1>3, MapsKept DEF Memory
<1>6. Linked'
  BY <1>1, <1>3, LinkedKept DEF Memory, Before
<1>7. Accessed'
  BY <1>1, <1>3 DEF Memory, Accessed, Before, Has, MemoryOp
<1>8. Dirty'
  BY <1>1, <1>3 DEF Memory, Dirty, Copied, MapsOwn, Mapped
<1> QED
  BY <1>4, <1>5, <1>6, <1>7, <1>8 DEF Memory

LEMMA MemoryFlushBit ==
  ASSUME Inv, Memory, FlushBit PROVE Memory'
<1>1. /\ instr.page \in Pages /\ tlb' = [tlb EXCEPT ![instr.page] = Uncached]
      /\ at = "flush_bit" /\ at' = "user" /\ exit' = exit
      /\ UNCHANGED <<pte, cell, head, home, frame, node, instr>>
  BY DEF Inv, Serving, FlushBit, Flushed, list, contents, program
<1>2. tlb \in [Pages -> Ptes \cup {Uncached}]
  BY DEF Inv, Tables
<1>3. /\ Current' /\ MapsDone' /\ FaultMisses' /\ Complete' /\ Copied' /\ Ending'
      /\ Accessed' /\ Dirty'
  BY <1>1, <1>2 DEF Memory, Current, MapsDone, FaultMisses, Complete, Copied, Ending, Before,
     Has, Mapped, Accessed, Dirty, MemoryOp
<1>4. Separate' /\ MapsOwn'
  BY <1>1, MapsKept DEF Memory
<1>5. Linked'
  BY <1>1, LinkedKept DEF Memory, Before
<1> QED
  BY <1>3, <1>4, <1>5 DEF Memory

\* As many pages have a frame as the free list has given up, and the page at
\* fault has none: the list is not at its end, and its last node is never taken.
LEMMA ListLasts ==
  ASSUME Tables, NEW l \in FreeLists, NEW h \in 1 .. MaxTestPages, LinkedFrom(l, h),
         NEW p \in Pages, ~Has(p)
  PROVE  h < MaxTestPages
<1> DEFINE others == Pages \ {p}
           owner == [i \in 1 .. h - 1 |-> CHOOSE q \in Pages : pte[q].frame = l[i]]
<1>1. MaxTestPages \in Nat /\ MaxTestPages > 1 /\ h \in Int
  BY ConstantAssumption
<1>2. \A i \in 1 .. h - 1 : i \in 1 .. MaxTestPages /\ l[i] \in FrameIds
  BY <1>1 DEF FrameIds
<1>3. ASSUME NEW i \in 1 .. h - 1
      PROVE  owner[i] \in others /\ pte[owner[i]].frame = l[i]
  <2>1. \E q \in Pages : pte[q].frame = l[i]
    BY DEF LinkedFrom
  <2>2. owner[i] \in Pages /\ pte[owner[i]].frame = l[i]
    BY <2>1
  <2>3. l[i] # NoFrame
    BY <1>2, PteFacts
  <2> HIDE DEF owner
  <2> QED
    BY <2>2, <2>3 DEF Has
<1>4. owner \in [1 .. h - 1 -> others]
  BY <1>3
<1>5. \A i, j \in 1 .. h - 1 : owner[i] = owner[j] => i = j
  BY <1>2, <1>3, ListAssumption
<1> HIDE DEF owner
<1>6. owner \in Injection(1 .. h - 1, others)
  BY <1>4, <1>5 DEF Injection, IsInjective
<1>7. IsFiniteSet(Pages) /\ Cardinality(Pages) = MaxTestPages - 1
  BY <1>1, FS_Interval DEF Pages
<1>8. IsFiniteSet(others) /\ Cardinality(others) = MaxTestPages - 2
  BY <1>1, <1>7, FS_RemoveElement
<1>9. Cardinality(1 .. h - 1) <= MaxTestPages - 2
  BY <1>6, <1>8, FS_Injection
<1>10. Cardinality(1 .. h - 1) = h - 1
  BY <1>1, FS_Interval
<1> QED
  BY <1>1, <1>9, <1>10

\* The assertion on freelist_head does not fail, and the first node is taken.
LEMMA TakeNodePasses ==
  ASSUME Inv, Memory, TakeNode
  PROVE  /\ instr.page \in Pages /\ ~Has(instr.page) /\ at = "fault" /\ at' = "flush_map"
         /\ \E l \in FreeLists, h \in 1 .. MaxTestPages :
              LinkedFrom(l, h) /\ h < MaxTestPages
         /\ node' = head /\ head' = cell[head].next
         /\ pte' = [pte EXCEPT
              ![instr.page] = [frame |-> cell[head].addr, a |-> TRUE, d |-> TRUE]]
         /\ exit' = exit /\ UNCHANGED <<tlb, cell, home, frame, out, instr>>
<1>1. instr.page \in Pages /\ pte[instr.page] = NoPte /\ at = "fault"
  BY DEF TakeNode
<1>2. ~Has(instr.page)
  BY <1>1 DEF Has, NoPte
<1>3. PICK l \in FreeLists, h \in 1 .. MaxTestPages : LinkedFrom(l, h)
  BY <1>1 DEF Memory, Linked, Before
<1>4. h < MaxTestPages
  BY <1>1, <1>2, <1>3, ListLasts DEF Inv
<1>5. head # Null
  BY <1>3 DEF LinkedFrom, FreeNode, Null
<1> QED
  BY <1>1, <1>2, <1>3, <1>4, <1>5 DEF TakeNode, contents, program

LEMMA MemoryTakeNode ==
  ASSUME Inv, Memory, TakeNode PROVE Memory'
<1> DEFINE p == instr.page
<1>1. /\ p \in Pages /\ ~Has(p) /\ at = "fault" /\ at' = "flush_map" /\ exit' = exit
      /\ node' = head /\ head' = cell[head].next
      /\ pte' = [pte EXCEPT ![p] = [frame |-> cell[head].addr, a |-> TRUE, d |-> TRUE]]
      /\ UNCHANGED <<tlb, cell, home, frame, instr>>
  BY TakeNodePasses
<1>2. PICK l \in FreeLists, h \in 1 .. MaxTestPages : LinkedFrom(l, h) /\ h < MaxTestPages
  BY TakeNodePasses
<1>3. MaxTestPages \in Nat /\ h \in Nat /\ h + 1 \in 1 .. MaxTestPages
  BY <1>2, ConstantAssumption
<1>4. cell[head].addr = l[h] /\ cell[head].next = FreeNode(h + 1) /\ l[h] \in FrameIds
  <2>1. cell[FreeNode(h)] = [addr |-> l[h], next |-> FreeNode(h + 1)] /\ head = FreeNode(h)
    BY <1>2, <1>3 DEF LinkedFrom
  <2> QED
    BY <2>1 DEF FrameIds
<1>5. /\ pte'[p].frame = l[h] /\ pte'[p].a /\ pte'[p].d
      /\ \A q \in Pages : q # p => pte'[q] = pte[q]
  BY <1>1, <1>4 DEF Inv, Tables
<1>6. \A q \in Pages : Has(q) => pte[q].frame # l[h]
  <2>1. SUFFICES ASSUME NEW q \in Pages, Has(q) PROVE pte[q].frame # l[h]
    OBVIOUS
  <2>2. PICK i \in 1 .. h - 1 : pte[q].frame = l[i]
    BY <1>2, <2>1 DEF LinkedFrom
  <2>3. i \in 1 .. MaxTestPages /\ h \in 1 .. MaxTestPages /\ i # h
    BY <1>3
  <2> QED
    BY <2>2, <2>3, ListAssumption
<1>7. LinkedFrom(l, h + 1)'
  <2>1. head' = FreeNode(h + 1) /\ cell' = cell
    BY <1>1, <1>4
  <2>2. \A i \in 1 .. h + 1 - 1 : i = h \/ i \in 1 .. h - 1
    BY <1>3
  <2>3. h \in 1 .. h + 1 - 1 /\ \A i \in 1 .. h - 1 : i \in 1 .. h + 1 - 1
    BY <1>3
  <2>4. ASSUME NEW q \in Pages, Has(q)'
        PROVE  \E i \in 1 .. h + 1 - 1 : pte'[q].frame = l[i]
    <3>1. CASE q = p
      BY <1>5, <2>3, <3>1
    <3>2. CASE q # p
      <4>1. Has(q) /\ pte'[q] = pte[q]
        BY <1>5, <2>4, <3>2 DEF Has
      <4>2. PICK i \in 1 .. h - 1 : pte[q].frame = l[i]
        BY <1>2, <4>1 DEF LinkedFrom
      <4> QED
        BY <2>3, <4>1, <4>2
    <3> QED
      BY <3>1, <3>2
  <2>5. ASSUME NEW i \in 1 .. h + 1 - 1
        PROVE  \E q \in Pages : pte'[q].frame = l[i]
    <3>1. CASE i = h
      BY <1>1, <1>5, <3>1
    <3>2. CASE i \in 1 .. h - 1
      <4>1. PICK q \in Pages : pte[q].frame = l[i]
        BY <1>2, <3>2 DEF LinkedFrom
      <4>2. l[i] \in FrameIds
        BY <1>3, <3>2 DEF FrameIds
      <4>3. q # p
        BY <1>1, <4>1, <4>2, PteFacts DEF Has
      <4> QED
        BY <1>5, <4>1, <4>3
    <3> QED
      BY <2>2, <3>1, <3>2
  <2> QED
    BY <1>2, <2>1, <2>4, <2>5 DEF LinkedFrom
<1>8. Linked'
  BY <1>1, <1>3, <1>4, <1>5, <1>7 DEF Linked
<1>9. ~Mapped(p)
  BY <1>1 DEF Memory, MapsOwn, Mapped, Has
<1>10. Separate'
  BY <1>5, <1>6 DEF Memory, Separate, Has
<1>11. MapsOwn' /\ Dirty'
  BY <1>1, <1>5, <1>9 DEF Memory, MapsOwn, Dirty, Mapped
<1>12. Current' /\ MapsDone' /\ Accessed'
  BY <1>1, <1>5, <1>9 DEF Memory, Current, MapsDone, Accessed, Mapped, Has, Before, MemoryOp
<1>13. FaultMisses' /\ Complete' /\ Copied' /\ Ending'
  BY <1>1, <1>5 DEF Memory, FaultMisses, Complete, Copied, Ending
<1> QED
  BY <1>8, <1>10, <1>11, <1>12, <1>13 DEF Memory

LEMMA MapNodes ==
  \A p, q \in Pages : MapNode(p) = MapNode(q) => p = q
  BY DEF MapNode

\* The assertion that the page is not mapped yet does not fail.
LEMMA MemoryFlushMap ==
  ASSUME Inv, Memory, FlushMap
  PROVE  /\ Memory' /\ exit' = exit /\ at' = "copy" /\ ~Mapped(instr.page)
         /\ cell'[MapNode(instr.page)].addr = pte[instr.page].frame
         /\ \A q \in Pages : q # instr.page => cell'[MapNode(q)] = cell[MapNode(q)]
<1> DEFINE p == instr.page
<1>1. /\ p \in Pages /\ tlb' = [tlb EXCEPT ![p] = Uncached] /\ at = "flush_map"
      /\ UNCHANGED <<pte, head, home, frame, node, instr>> /\ node \in FreeNodes
  BY DEF Inv, Serving, FlushMap, Flushed, contents, program
<1>2. ~Mapped(p)
  BY <1>1 DEF Memory, MapsDone
<1>3. cell' = [cell EXCEPT ![MapNode(p)] = cell[node]] /\ at' = "copy" /\ exit' = exit
  BY <1>2 DEF FlushMap
<1>4. /\ cell'[MapNode(p)] = cell[node]
      /\ \A q \in Pages : q # p => cell'[MapNode(q)] = cell[MapNode(q)]
      /\ \A n \in FreeNodes : cell'[n] = cell[n]
  BY <1>1, <1>3, NodeFacts, MapNodes DEF Inv, Rest
<1>5. cell[node].addr = pte[p].frame /\ Has(p)
  BY <1>1, PteFacts DEF Memory, Linked, Inv, Serving, Has
<1>6. tlb \in [Pages -> Ptes \cup {Uncached}]
  BY DEF Inv, Tables
<1>7. Current' /\ FaultMisses' /\ Complete' /\ Copied' /\ Ending' /\ Accessed'
  BY <1>1, <1>3, <1>6 DEF Memory, Current, FaultMisses, Complete, Copied, Ending, Accessed, Has,
     Before, MemoryOp
<1>8. Separate' /\ MapsOwn' /\ MapsDone'
  BY <1>1, <1>3, <1>4, <1>5 DEF Memory, Separate, MapsOwn, MapsDone, Mapped, Has, Before
<1>9. Dirty'
  BY <1>1, <1>4 DEF Memory, Dirty, Complete, Mapped
<1>10. Linked'
  <2>1. \A i \in 1 .. MaxTestPages : FreeNode(i) \in FreeNodes
    BY DEF FreeNodes
  <2>2. \A l, h : LinkedFrom(l, h) => LinkedFrom(l, h)'
    BY <1>1, <1>4, <2>1 DEF LinkedFrom, Has
  <2> QED
    BY <1>1, <1>3, <2>2 DEF Memory, Linked, Before
<1> QED
  BY <1>2, <1>3, <1>4, <1>5, <1>7, <1>8, <1>9, <1>10 DEF Memory

\* The copy meets no fault: the entry has both its bits.
LEMMA CopyInPasses ==
  ASSUME Inv, Memory, CopyIn
  PROVE  /\ instr.page \in Pages /\ Has(instr.page) /\ at = "copy" /\ at' = "protect"
         /\ frame' = [frame EXCEPT ![pte[instr.page].frame] = home[instr.page]]
         /\ \A q \in Pages : /\ pte'[q].frame = pte[q].frame
                             /\ pte[q].a => pte'[q].a
                             /\ pte[q].d => pte'[q].d
         /\ pte'[instr.page].a /\ pte'[instr.page].d
         /\ \A q \in Pages : tlb'[q] \in {Uncached, pte'[q]}
         /\ exit' = exit /\ UNCHANGED <<cell, head, tail, home, node, out, instr>>
<1> DEFINE p == instr.page
<1>1. p \in Pages /\ at = "copy" /\ Has(p)
  BY PteFacts DEF CopyIn, Inv, Serving, Has
<1>2. Hits(p, "store") /\ Translation(p) = pte[p]
  BY <1>1, Translates DEF Memory, Complete, Inv
<1>3. Access(p, "store")
  BY <1>2 DEF CopyIn
<1>4. /\ pte'[p].frame = pte[p].frame /\ pte'[p].a /\ pte'[p].d
      /\ \A q \in Pages : q # p => pte'[q] = pte[q]
      /\ \A q \in Pages : tlb'[q] \in {Uncached, pte'[q]}
  BY <1>1, <1>3, Accesses DEF Inv, Memory
<1>5. \A q \in Pages : /\ pte'[q].frame = pte[q].frame
                       /\ pte[q].a => pte'[q].a
                       /\ pte[q].d => pte'[q].d
  BY <1>4
<1> QED
  BY <1>1, <1>2, <1>4, <1>5 DEF CopyIn, list, program

LEMMA MemoryCopyIn ==
  ASSUME Inv, Memory, CopyIn PROVE Memory'
<1> DEFINE p == instr.page
<1>1. /\ p \in Pages /\ Has(p) /\ at = "copy" /\ at' = "protect" /\ exit' = exit
      /\ frame' = [frame EXCEPT ![pte[p].frame] = home[p]]
      /\ UNCHANGED <<cell, head, home, node, instr>>
  BY CopyInPasses
<1>2. \A q \in Pages : /\ pte'[q].frame = pte[q].frame
                       /\ pte[q].a => pte'[q].a
                       /\ pte[q].d => pte'[q].d
                       /\ tlb'[q] \in {Uncached, pte'[q]}
  BY CopyInPasses
<1>3. pte'[p].a /\ pte'[p].d
  BY CopyInPasses
<1>4. Separate' /\ MapsOwn'
  BY <1>1, <1>2, MapsKept DEF Memory
<1>5. Linked'
  BY <1>1, <1>2, LinkedKept DEF Memory, Before
<1>6. Current' /\ MapsDone' /\ FaultMisses' /\ Complete' /\ Ending' /\ Accessed'
  BY <1>1, <1>2, <1>3 DEF Memory, Current, MapsDone, FaultMisses, Complete, Ending, Accessed,
     Before, Has, Mapped, MemoryOp
<1>7. Separate /\ MapsOwn
  BY DEF Memory
<1> HIDE DEF p
<1>8. /\ frame'[pte[p].frame] = home[p]
      /\ Mapped(p) => cell[MapNode(p)].addr = pte[p].frame
      /\ \A q \in Pages : q # p /\ Mapped(q) =>
           frame'[cell[MapNode(q)].addr] = frame[cell[MapNode(q)].addr]
  BY <1>1, <1>7, FrameWritten
<1>9. Dirty'
  BY <1>1, <1>2, <1>8 DEF Memory, Dirty, Mapped
<1>10. Copied'
  BY <1>1, <1>2, <1>8 DEF Copied, p
<1> QED
  BY <1>4, <1>5, <1>6, <1>9, <1>10 DEF Memory

\* No assertion of evict fails: an evicted page has its accessed bit, and its
\* dirty bit when its frame is not what the page was.
LEMMA EvictPasses ==
  ASSUME Inv, Memory, Evict, NEW p \in Pages, node = MapNode(p)
  PROVE  /\ at = "evict" /\ exit' = exit /\ home' = home /\ out' = out /\ instr' = instr
         /\ NextPage
         /\ \/ UNCHANGED <<pte, tlb, cell, frame>>
            \/ /\ Has(p) /\ Mapped(p)
               /\ frame' = [frame EXCEPT ![pte[p].frame] = home[p]]
               /\ \E op : Access(p, op)
               /\ AppendNode(MapNode(p), [cell EXCEPT ![MapNode(p)].addr = NoFrame])
<1> DEFINE changed == frame[Translation(p).frame] # home[p]
<1>1. at = "evict" /\ node[2] = p /\ home' = home /\ out' = out /\ instr' = instr
  BY NodeFacts DEF Evict, program
<1>2. CASE ~Mapped(p)
  BY <1>1, <1>2 DEF Evict, list
<1>3. CASE Mapped(p)
  <2>1. Has(p) /\ cell[MapNode(p)].addr = pte[p].frame
    BY <1>3 DEF Memory, MapsOwn, Mapped, Has
  <2>2. pte[p].a
    BY <1>1, <2>1 DEF Memory, Accessed, Before
  <2>3. Translation(p) = pte[p] /\ Hits(p, "load")
    BY <1>1, <2>1, <2>2, Translates DEF Inv, Memory
  <2>4. changed => pte[p].d /\ Hits(p, "store")
    BY <1>1, <1>3, <2>1, <2>2, <2>3, Translates DEF Inv, Memory, Dirty
  <2>5. ~(~pte[p].a \/ ~Hits(p, "load") \/ (changed /\ (~pte[p].d \/ ~Hits(p, "store"))))
    BY <2>2, <2>3, <2>4
  <2>6. /\ Access(p, IF changed THEN "store" ELSE "load")
        /\ frame' = [frame EXCEPT ![Translation(p).frame] = home[p]]
        /\ AppendNode(MapNode(p), [cell EXCEPT ![MapNode(p)].addr = NoFrame])
        /\ NextPage /\ exit' = exit
    BY <1>1, <1>3, <2>5 DEF Evict
  <2>7. \E op : Access(p, op)
    BY <2>6
  <2> QED
    BY <1>1, <1>3, <2>1, <2>3, <2>6, <2>7
<1> QED
  BY <1>2, <1>3

LEMMA MemoryEvict ==
  ASSUME Inv, Memory, Evict PROVE Memory'
<1>1. PICK p \in Pages : node = MapNode(p)
  BY DEF Inv, Serving, Evict
<1>2. /\ at = "evict" /\ at' \in {"evict", "terminate"} /\ exit' = exit
      /\ home' = home /\ instr' = instr
  BY <1>1, EvictPasses, StepNext
<1>3. Linked' /\ FaultMisses' /\ Complete' /\ Copied' /\ Ending'
  BY <1>2 DEF Memory, Linked, FaultMisses, Complete, Copied, Ending, Before
<1>4. CASE UNCHANGED <<pte, tlb, cell, frame>>
  <2>1. Separate' /\ MapsOwn'
    BY <1>4, MapsKept DEF Memory
  <2>2. Current' /\ MapsDone' /\ Accessed' /\ Dirty'
    BY <1>2, <1>4 DEF Memory, Current, MapsDone, Accessed, Dirty, Before, Has, Mapped
  <2> QED
    BY <1>3, <2>1, <2>2 DEF Memory
<1>5. CASE /\ Has(p) /\ Mapped(p)
           /\ frame' = [frame EXCEPT ![pte[p].frame] = home[p]]
           /\ \E op : Access(p, op)
           /\ AppendNode(MapNode(p), [cell EXCEPT ![MapNode(p)].addr = NoFrame])
  <2> DEFINE c == [cell EXCEPT ![MapNode(p)].addr = NoFrame]
  <2>1. PICK op : Access(p, op)
    BY <1>5
  <2>2. /\ pte'[p].frame = pte[p].frame /\ pte'[p].a
        /\ \A q \in Pages : q # p => pte'[q] = pte[q]
        /\ \A q \in Pages : tlb'[q] \in {Uncached, pte'[q]}
    BY <1>2, <2>1, Accesses DEF Inv, Memory
  <2>3. \A q \in Pages : pte'[q].frame = pte[q].frame
    BY <2>2
  <2>4. /\ c[MapNode(p)].addr = NoFrame
        /\ \A q \in Pages : q # p => c[MapNode(q)].addr = cell[MapNode(q)].addr
        /\ c \in [Nodes -> [addr : FrameIds \cup {NoFrame}, next : Bound]]
    BY NodeFacts, MapNodes DEF Inv, Rest
  <2>5. AppendNode(MapNode(p), c)
    BY <1>5
  <2> HIDE DEF c
  <2>6. \A n \in Nodes : cell'[n].addr = c[n].addr
    BY <2>4, <2>5 DEF AppendNode
  <2>7. /\ cell'[MapNode(p)].addr = NoFrame
        /\ \A q \in Pages : q # p => cell'[MapNode(q)].addr = cell[MapNode(q)].addr
    BY <2>4, <2>6, NodeFacts
  <2>8. Separate' /\ MapsOwn'
    BY <2>3, <2>7, MapsKept DEF Memory
  <2>9. Current' /\ MapsDone' /\ Accessed'
    BY <1>2, <2>2 DEF Memory, Current, MapsDone, Accessed, Before, Has
  <2>10. \A q \in Pages : q # p /\ Mapped(q) =>
           frame'[cell[MapNode(q)].addr] = frame[cell[MapNode(q)].addr]
    BY <1>5, FrameWritten DEF Memory
  <2>11. Dirty'
    BY <1>2, <2>2, <2>7, <2>10 DEF Memory, Dirty, Mapped
  <2> QED
    BY <1>3, <2>8, <2>9, <2>11 DEF Memory
<1> QED
  BY <1>1, <1>4, <1>5, EvictPasses

LEMMA MemoryInit == Init => Memory
<1> SUFFICES ASSUME Init PROVE Memory
  OBVIOUS
<1>1. at = "user" /\ exit = Running /\ \A p \in Pages : ~Has(p) /\ pte[p] = NoPte
  BY DEF Init, Has, NoPte
<1>2. PICK l \in FreeLists : cell = [n \in Nodes |->
        IF n \notin FreeNodes THEN [addr |-> NoFrame, next |-> Null]
        ELSE [addr |-> l[n[2]],
              next |-> IF n[2] = MaxTestPages THEN Null ELSE FreeNode(n[2] + 1)]]
  BY DEF Init
<1>3. \A i \in 1 .. MaxTestPages :
        FreeNode(i) \in FreeNodes /\ FreeNode(i) \in Nodes /\ FreeNode(i)[2] = i
  BY DEF FreeNode, FreeNodes, Nodes
<1>4. \A p \in Pages : ~Mapped(p)
  BY <1>2, NodeFacts DEF Mapped
<1>5. 1 \in 1 .. MaxTestPages /\ 1 .. 1 - 1 = {}
  BY ConstantAssumption
<1>6. LinkedFrom(l, 1)
  BY <1>1, <1>2, <1>3, <1>5 DEF Init, LinkedFrom
<1>7. Linked
  BY <1>1, <1>5, <1>6 DEF Linked
<1>8. Current /\ Separate /\ MapsOwn /\ MapsDone
  BY <1>1, <1>4 DEF Init, Current, Separate, MapsOwn, MapsDone, Has
<1>9. FaultMisses /\ Complete /\ Copied /\ Accessed /\ Dirty /\ Ending
  BY <1>1, <1>4 DEF FaultMisses, Complete, Copied, Accessed, Dirty, Ending
<1> QED
  BY <1>7, <1>8, <1>9 DEF Memory

LEMMA MemoryStep == Inv /\ Inv' /\ Memory /\ [Next]_vars => Memory'
<1> SUFFICES ASSUME Inv, Inv', Memory, [Next]_vars PROVE Memory'
  OBVIOUS
<1>1. CASE Issue
  BY <1>1, MemoryIssue
<1>2. CASE Execute
  BY <1>2, MemoryExecute
<1>3. CASE Wtf \/ Fault \/ Ecall \/ BadAddress \/ End
  BY <1>3, MemoryQuiet
<1>4. CASE SetBit
  BY <1>4, MemorySetBit
<1>5. CASE FlushBit
  BY <1>5, MemoryFlushBit
<1>6. CASE TakeNode
  BY <1>6, MemoryTakeNode
<1>7. CASE FlushMap
  BY <1>7, MemoryFlushMap
<1>8. CASE CopyIn
  BY <1>8, MemoryCopyIn
<1>9. CASE Protect
  BY <1>9, MemoryProtect
<1>10. CASE Evict
  BY <1>10, MemoryEvict
<1>11. CASE TlbStep
  BY <1>11, MemoryTlb
<1>12. CASE UNCHANGED vars
  <2>1. UNCHANGED <<pte, tlb, cell, head, tail, home, frame, at, node, instr, exit>>
    BY <1>12 DEF vars, list, contents, program
  <2>2. Separate' /\ MapsOwn'
    BY <2>1, MapsKept DEF Memory
  <2>3. \A l, h : LinkedFrom(l, h) => LinkedFrom(l, h)'
    BY <2>1 DEF LinkedFrom, Has
  <2>4. Linked'
    BY <2>1, <2>3 DEF Memory, Linked, Before
  <2>5. Current' /\ MapsDone' /\ FaultMisses' /\ Complete' /\ Copied' /\ Accessed' /\ Dirty'
        /\ Ending'
    BY <2>1 DEF Memory, Current, MapsDone, FaultMisses, Complete, Copied, Accessed, Dirty,
       Ending, Before, Has, Mapped, MemoryOp
  <2> QED
    BY <2>2, <2>4, <2>5 DEF Memory
<1> QED
  BY <1>1, <1>2, <1>3, <1>4, <1>5, <1>6, <1>7, <1>8, <1>9, <1>10, <1>11, <1>12
     DEF Next, Hart, Kernel

LEMMA MemoryInvariance == Spec => [](Inv /\ Memory)
<1>1. Inv /\ Memory /\ [Next]_vars => Inv' /\ Memory'
  BY StepInv, MemoryStep
<1> QED
  BY <1>1, InitInv, MemoryInit, PTL DEF Spec

\* With any number of pages, a page the program changed has its dirty bit
\* whenever evict may look at it.
THEOREM ChangesAreDirty == Spec => []DirtyTracked
<1>1. Memory => DirtyTracked
  BY DEF Memory, Dirty, DirtyTracked
<1> QED
  BY <1>1, MemoryInvariance, PTL

----------------------------------------------------------------------------
(* The program runs as on plain memory. *)

LEMMA Instruction ==
  ASSUME instr \in Flat!Instructions \cup {None}
  PROVE  /\ instr.op = "store" /\ instr.page \in Pages => instr \in Flat!Stores
         /\ instr.op = "load" /\ instr.page \in Pages => instr \in Flat!Loads
         /\ instr.op = "fetch" /\ instr.page \in Pages => instr \in Flat!Fetches
         /\ MemoryOp /\ instr.page \notin Pages => instr \in Flat!Stray
         /\ instr # None /\ instr.op \notin Delegated => instr \in Flat!FpTests
<1>1. 0 \notin Pages
  BY DEF Pages
<1>2. CASE instr = None
  BY <1>2 DEF None, Flat!None, MemoryOp
<1>3. CASE instr \in Flat!Instructions
  BY <1>1, <1>3 DEF MemoryOp, Delegated, Flat!Instructions, Flat!Fetches, Flat!Loads,
     Flat!Stores, Flat!Calls, Flat!Stray, Flat!FpTests
<1> QED
  BY <1>2, <1>3

\* What the program sees does not depend on where the kernel is, except for the
\* page being copied.
LEMMA ViewKept ==
  ASSUME at # "copy", at' # "copy", UNCHANGED <<cell, home, frame>>
  PROVE  View' = View
  BY DEF View, Copying, Mapped

LEMMA FlatExecute ==
  ASSUME Inv, Memory, Execute PROVE Flat!FlatNext
<1> DEFINE p == instr.page
           x == instr.data
<1>1. /\ p \in Pages /\ at = "user" /\ at' = "user" /\ exit' = exit /\ instr' = None
      /\ UNCHANGED <<cell, home>> /\ Access(p, instr.op) /\ MemoryOp /\ exit = Running
      /\ frame' = IF instr.op = "store"
                  THEN [frame EXCEPT ![Translation(p).frame] = x] ELSE frame
      /\ out' = IF instr.op = "load" THEN frame[Translation(p).frame] ELSE out
  BY DEF Execute, list, Memory, Ending
<1>2. Has(p) /\ Translation(p) = pte[p] /\ Separate /\ MapsOwn
  BY <1>1, Accesses DEF Inv, Memory
<1>3. Mapped(p) /\ cell[MapNode(p)].addr = pte[p].frame
  BY <1>1, <1>2 DEF Memory, MapsDone, MapsOwn, Before
<1>4. View[p] = frame[pte[p].frame] /\ \A q \in Pages : ~Copying(q) /\ ~Copying(q)'
  BY <1>1, <1>3 DEF View, Copying
<1>5. CASE instr.op = "store"
  <2>1. frame' = [frame EXCEPT ![pte[p].frame] = x]
    BY <1>1, <1>2, <1>5
  <2> HIDE DEF p, x
  <2>2. /\ frame'[pte[p].frame] = x
        /\ \A q \in Pages : q # p /\ Mapped(q) =>
             frame'[cell[MapNode(q)].addr] = frame[cell[MapNode(q)].addr]
    BY <1>1, <1>2, <2>1, FrameWritten
  <2>3. View' = [View EXCEPT ![p] = x]
    BY <1>1, <1>3, <1>4, <2>2 DEF View, Mapped
  <2>4. instr \in Flat!Stores
    BY <1>1, <1>5, Instruction DEF Inv, Rest, p
  <2> QED
    BY <1>1, <1>5, <2>3, <2>4 DEF Flat!FlatNext, Flat!Store, Flat!Done, None, Running, p, x
<1>6. CASE instr.op # "store"
  <2>1. View' = View
    BY <1>1, <1>6, ViewKept
  <2>2. CASE instr.op = "load"
    <3>1. instr \in Flat!Loads
      BY <1>1, <2>2, Instruction DEF Inv, Rest
    <3> QED
      BY <1>1, <1>2, <1>4, <2>1, <2>2, <3>1 DEF Flat!FlatNext, Flat!Load, Flat!Done, None, Running
  <2>3. CASE instr.op = "fetch"
    <3>1. instr \in Flat!Fetches
      BY <1>1, <2>3, Instruction DEF Inv, Rest
    <3> QED
      BY <1>1, <2>1, <2>3, <3>1 DEF Flat!FlatNext, Flat!Fetch, Flat!Done, None, Running
  <2> QED
    BY <1>1, <1>6, <2>2, <2>3 DEF MemoryOp
<1> QED
  BY <1>5, <1>6

\* The page copied is seen at home before the copy, and with the same contents
\* in its frame after it.
LEMMA FlatCopyIn ==
  ASSUME Inv, Memory, CopyIn PROVE View' = View
<1> DEFINE p == instr.page
<1>1. /\ p \in Pages /\ Has(p) /\ at = "copy" /\ at' = "protect" /\ Separate /\ MapsOwn
      /\ frame' = [frame EXCEPT ![pte[p].frame] = home[p]]
      /\ UNCHANGED <<cell, home, instr>>
  BY CopyInPasses DEF Memory
<1>2. \A q \in Pages : ~Copying(q)' /\ (Copying(q) <=> q = p)
  BY <1>1 DEF Copying
<1> HIDE DEF p
<1>3. /\ frame'[pte[p].frame] = home[p]
      /\ Mapped(p) => cell[MapNode(p)].addr = pte[p].frame
      /\ \A q \in Pages : q # p /\ Mapped(q) =>
           frame'[cell[MapNode(q)].addr] = frame[cell[MapNode(q)].addr]
  BY <1>1, FrameWritten
<1>4. \A q \in Pages : Mapped(q)' <=> Mapped(q)
  BY <1>1 DEF Mapped
<1>5. ASSUME NEW q \in Pages
      PROVE  (IF Mapped(q) /\ ~Copying(q) THEN frame[cell[MapNode(q)].addr] ELSE home[q])'
             = (IF Mapped(q) /\ ~Copying(q) THEN frame[cell[MapNode(q)].addr] ELSE home[q])
  <2>1. CASE q = p
    BY <1>1, <1>2, <1>3, <1>4, <2>1
  <2>2. CASE q # p
    BY <1>1, <1>2, <1>3, <1>4, <2>2
  <2> QED
    BY <2>1, <2>2
<1> QED
  BY <1>5 DEF View

\* A page being mapped is still seen at home.
LEMMA FlatFlushMap ==
  ASSUME Inv, Memory, FlushMap PROVE View' = View
<1> DEFINE p == instr.page
<1>1. /\ at = "flush_map" /\ at' = "copy" /\ ~Mapped(p) /\ UNCHANGED <<home, frame, instr>>
      /\ \A q \in Pages : q # p => cell'[MapNode(q)] = cell[MapNode(q)]
  BY MemoryFlushMap DEF FlushMap, contents, program
<1>2. \A q \in Pages : ~Copying(q) /\ (Copying(q)' <=> q = p)
  BY <1>1 DEF Copying
<1>3. \A q \in Pages : q # p => (Mapped(q)' <=> Mapped(q))
  BY <1>1 DEF Mapped
<1>4. ASSUME NEW q \in Pages
      PROVE  (IF Mapped(q) /\ ~Copying(q) THEN frame[cell[MapNode(q)].addr] ELSE home[q])'
             = (IF Mapped(q) /\ ~Copying(q) THEN frame[cell[MapNode(q)].addr] ELSE home[q])
  <2>1. CASE q = p
    BY <1>1, <1>2, <2>1
  <2>2. CASE q # p
    BY <1>1, <1>2, <1>3, <2>2
  <2> QED
    BY <2>1, <2>2
<1> QED
  BY <1>4 DEF View

LEMMA FlatStep == Inv /\ Memory /\ [Next]_vars => [Flat!FlatNext]_Flat!fvars
<1> SUFFICES ASSUME Inv, Memory, [Next]_vars PROVE [Flat!FlatNext]_Flat!fvars
  OBVIOUS
<1>1. Ending /\ instr \in Flat!Instructions \cup {None}
  BY DEF Memory, Inv, Rest
<1>2. CASE Issue
  <2>1. View' = View /\ at = "user"
    BY <1>2, ViewKept DEF Issue, list, contents
  <2> QED
    BY <1>1, <1>2, <2>1 DEF Issue, Ending, Flat!FlatNext, Flat!Issue, None, Running
<1>3. CASE Execute
  BY <1>3, FlatExecute
<1>4. CASE Wtf
  <2>1. instr \in Flat!FpTests /\ at = "user" /\ exit' = 841 /\ UNCHANGED <<out, instr>>
    BY <1>1, <1>4, Instruction DEF Wtf, Terminate, program
  <2>2. exit' # Running
    BY <2>1 DEF Running, Flat!Running
  <2> QED
    BY <1>1, <2>1, <2>2 DEF Ending, Flat!FlatNext, Flat!Exit, Running
<1>5. CASE BadAddress
  <2>1. /\ instr \in Flat!Stray /\ at = "fault" /\ exit' = 3 /\ UNCHANGED <<out, instr>>
    BY <1>1, <1>5, Instruction DEF Inv, Serving, BadAddress, AssertFails, Terminate, program
  <2> QED
    BY <1>1, <2>1 DEF Ending, Flat!FlatNext, Flat!Exit, Running
<1>6. CASE Evict \/ End
  <2>1. /\ instr \in Flat!Calls /\ exit' \in {exit, instr.code} /\ UNCHANGED <<out, instr>>
        /\ exit = Running
    <3>1. CASE Evict
      <4>1. PICK p \in Pages : node = MapNode(p)
        BY <3>1 DEF Inv, Serving, Evict
      <4>2. at = "evict" /\ exit' = exit /\ out' = out /\ instr' = instr
        BY <3>1, <4>1, EvictPasses
      <4> QED
        BY <1>1, <4>2 DEF Inv, Serving, Ending
    <3>2. CASE End
      BY <1>1, <3>2 DEF Inv, Serving, Ending, End, Terminate, program
    <3> QED
      BY <1>6, <3>1, <3>2
  <2> QED
    BY <2>1 DEF Flat!FlatNext, Flat!Exit, Running
<1>7. CASE \/ Fault \/ Ecall \/ SetBit \/ FlushBit \/ TakeNode \/ FlushMap \/ CopyIn
           \/ Protect \/ TlbStep
  <2>1. UNCHANGED <<out, instr, exit>>
    <3>1. CASE Fault \/ Ecall \/ FlushBit \/ Protect \/ TlbStep
      BY <3>1 DEF Fault, Ecall, FlushBit, Protect, TlbStep, program
    <3>2. CASE SetBit
      BY <3>2, SetBitPasses
    <3>3. CASE TakeNode
      BY <3>3, TakeNodePasses
    <3>4. CASE FlushMap
      BY <3>4, MemoryFlushMap DEF FlushMap, program
    <3>5. CASE CopyIn
      BY <3>5, CopyInPasses
    <3> QED
      BY <1>7, <3>1, <3>2, <3>3, <3>4, <3>5
  <2>2. View' = View
    <3>1. CASE Fault \/ Ecall \/ SetBit \/ FlushBit \/ TakeNode \/ Protect
      <4>1. at # "copy" /\ at' # "copy" /\ UNCHANGED <<cell, home, frame>>
        BY <3>1 DEF Fault, Ecall, SetBit, FlushBit, TakeNode, Protect, AssertFails, Terminate,
           list, contents
      <4> QED
        BY <4>1, ViewKept
    <3>2. CASE FlushMap
      BY <3>2, FlatFlushMap
    <3>3. CASE CopyIn
      BY <3>3, FlatCopyIn
    <3>4. CASE TlbStep
      BY <3>4 DEF TlbStep, View, Copying, Mapped, list, contents, program
    <3> QED
      BY <1>7, <3>1, <3>2, <3>3, <3>4
  <2> QED
    BY <2>1, <2>2 DEF Flat!fvars
<1>8. CASE UNCHANGED vars
  BY <1>8 DEF vars, list, contents, program, Flat!fvars, View, Copying, Mapped
<1> QED
  BY <1>2, <1>3, <1>4, <1>5, <1>6, <1>7, <1>8 DEF Next, Hart, Kernel

LEMMA FlatStart == Init => Flat!FlatInit
<1> SUFFICES ASSUME Init PROVE Flat!FlatInit
  OBVIOUS
<1>1. \A p \in Pages : ~Mapped(p)
  BY NodeFacts DEF Init, Mapped
<1>2. View \in [Pages -> Data]
  BY <1>1 DEF Init, View
<1> QED
  BY <1>2 DEF Init, Flat!FlatInit, None, Running

\* With any number of pages, whatever the TLB does, a test program runs as on
\* plain memory: its loads give what it stored last, it ends with the code it
\* passes to the environment call, and no assertion of handle_fault or evict
\* fails but the one on addresses outside its pages.
THEOREM VirtualMemoryIsFlat == Spec => RunsOnFlatMemory
  BY FlatStart, FlatStep, MemoryInvariance, PTL DEF Spec, RunsOnFlatMemory, Flat!FlatSpec

----------------------------------------------------------------------------
(* The free list and the mapped pages share out the frames. *)

LEMMA LeastElement ==
  ASSUME NEW S \in SUBSET Nat, S # {}
  PROVE  \E x \in S : \A y \in S : ~(y < x)
<1> DEFINE R == OpToRel(<, Nat)
<1>1. IsWellFoundedOn(R, Nat)
  BY NatLessThanWellFounded, Zenon
<1>2. \A x, y \in Nat : y < x => <<y, x>> \in R
  BY DEF OpToRel
<1> HIDE DEF R
<1>3. \E x \in S : \A y \in S : ~(<<y, x>> \in R)
  BY <1>1, WFMin
<1> QED
  BY <1>2, <1>3

LEMMA ListedCell ==
  ASSUME NEW l \in FreeLists, NEW h \in 1 .. MaxTestPages, LinkedFrom(l, h),
         NEW i \in 1 .. MaxTestPages
  PROVE  /\ cell[FreeNode(i)].addr = l[i] /\ FreeNode(i) # Null
         /\ cell[FreeNode(i)].next = IF i = MaxTestPages THEN Null ELSE FreeNode(i + 1)
<1> DEFINE next == IF i = MaxTestPages THEN Null ELSE FreeNode(i + 1)
<1>1. cell[FreeNode(i)] = [addr |-> l[i], next |-> next]
  BY DEF LinkedFrom
<1>2. FreeNode(i) # Null
  BY DEF FreeNode, Null
<1> HIDE DEF next
<1>3. cell[FreeNode(i)].addr = l[i] /\ cell[FreeNode(i)].next = next
  BY <1>1
<1> QED
  BY <1>2, <1>3 DEF next

\* The k-th node of the chain, when the free list begins with its h-th node.
LEMMA ChainValue ==
  ASSUME NEW l \in FreeLists, NEW h \in 1 .. MaxTestPages, LinkedFrom(l, h),
         NEW k \in 0 .. MaxTestPages
  PROVE  Chain[k] = IF h + k <= MaxTestPages THEN FreeNode(h + k) ELSE Null
<1> DEFINE N == MaxTestPages
           places == 0 .. N
           node_(j) == IF h + j <= N THEN FreeNode(h + j) ELSE Null
           next_(f, j) == IF j = 0 THEN head
                          ELSE IF f[j - 1] = Null THEN Null ELSE cell[f[j - 1]].next
           g == [j \in places |-> node_(j)]
<1>1. N \in Nat /\ N > 1 /\ h \in Nat /\ h >= 1 /\ h <= N
  BY ConstantAssumption
<1>2. \A i \in Nat : FreeNode(i) # Null
  BY DEF FreeNode, Null
<1>3. node_(0) = head
  BY <1>1 DEF LinkedFrom
<1>4. ASSUME NEW j \in places, j # 0
      PROVE  node_(j) = IF node_(j - 1) = Null THEN Null ELSE cell[node_(j - 1)].next
  <2>1. j \in Nat /\ j - 1 \in Nat
    BY <1>1, <1>4
  <2>2. CASE h + j <= N + 1
    <3>1. PICK i \in 1 .. N : i = h + (j - 1)
      BY <1>1, <2>1, <2>2
    <3>2. node_(j - 1) = FreeNode(i) /\ node_(j - 1) # Null
      BY <1>2, <3>1
    <3>3. cell[FreeNode(i)].next = IF i = N THEN Null ELSE FreeNode(i + 1)
      BY ListedCell
    <3>4. i + 1 = h + j /\ (i = N <=> ~(h + j <= N))
      BY <1>1, <2>1, <2>2, <3>1
    <3> QED
      BY <3>2, <3>3, <3>4
  <2>3. CASE ~(h + j <= N + 1)
    BY <1>1, <2>1, <2>3
  <2> QED
    BY <2>2, <2>3
<1>5. g = [j \in places |-> next_(g, j)]
  <2>1. ASSUME NEW j \in places PROVE node_(j) = next_(g, j)
    <3>1. CASE j = 0
      BY <1>3, <3>1
    <3>2. CASE j # 0
      <4>1. j - 1 \in places
        BY <1>1, <3>2
      <4>2. g[j - 1] = node_(j - 1)
        BY <4>1
      <4> QED
        BY <1>4, <3>2, <4>2
    <3> QED
      BY <3>1, <3>2
  <2> QED
    BY <2>1
<1>6. Chain = [j \in places |-> next_(Chain, j)]
  <2>1. \E f : f = [j \in places |-> next_(f, j)]
    BY <1>5
  <2>2. Chain = CHOOSE f : f = [j \in places |-> next_(f, j)]
    BY DEF Chain
  <2> QED
    BY <2>1, <2>2
<1> DEFINE wrong == {j \in places : Chain[j] # node_(j)}
<1> HIDE DEF node_, g
<1>7. \A j \in places : Chain[j] = next_(Chain, j)
  BY <1>6
<1>8. SUFFICES ASSUME wrong # {} PROVE FALSE
  BY DEF node_
<1>9. wrong \subseteq Nat
  OBVIOUS
<1>10. PICK j \in wrong : \A i \in wrong : ~(i < j)
  BY <1>8, <1>9, LeastElement
<1>11. j # 0
  BY <1>3, <1>7, <1>10
<1>12. j - 1 \in places /\ j - 1 < j /\ j \in places
  BY <1>1, <1>10, <1>11
<1>13. Chain[j - 1] = node_(j - 1)
  BY <1>10, <1>12
<1>14. Chain[j] = IF node_(j - 1) = Null THEN Null ELSE cell[node_(j - 1)].next
  BY <1>7, <1>11, <1>12, <1>13
<1> QED
  BY <1>4, <1>10, <1>11, <1>12, <1>14

\* The tail is the last node, or null once the head is.
TailLast ==
  Before => tail = FreeNode(MaxTestPages) \/ (tail = Null /\ head = FreeNode(MaxTestPages))

LEMMA TailStaysLast ==
  ASSUME Inv, Memory, TailLast, [Next]_vars PROVE TailLast'
<1>1. CASE TakeNode
  <2>1. PICK l \in FreeLists, h \in 1 .. MaxTestPages : LinkedFrom(l, h) /\ h < MaxTestPages
    BY <1>1, TakeNodePasses
  <2>2. head = FreeNode(h) /\ head # FreeNode(MaxTestPages)
    BY <2>1, ConstantAssumption DEF LinkedFrom, FreeNode
  <2>3. tail = FreeNode(MaxTestPages) /\ head # Null
    BY <1>1, <2>2 DEF TailLast, Before, TakeNode, FreeNode, Null
  <2>4. tail' = IF head' = tail THEN Null ELSE tail
    BY <1>1, <2>3 DEF TakeNode
  <2> QED
    BY <2>3, <2>4 DEF TailLast
<1>2. CASE Evict \/ End \/ Wtf \/ Ecall
  BY <1>2 DEF Evict, End, Wtf, Ecall, TailLast, Before, NextPage, AssertFails, Terminate, list
<1>3. CASE UNCHANGED <<head, tail>> /\ Before
  BY <1>3 DEF TailLast
<1>4. CASE UNCHANGED vars
  BY <1>4 DEF vars, list, program, TailLast, Before
<1>5. CASE Issue \/ Execute \/ Fault \/ BadAddress \/ SetBit \/ FlushBit \/ FlushMap \/ CopyIn
             \/ Protect
  <2>1. Before /\ UNCHANGED <<head, tail>>
    BY <1>5 DEF Before, Issue, Execute, Fault, BadAddress, SetBit, FlushBit, FlushMap, CopyIn,
       Protect, list
  <2> QED
    BY <1>3, <2>1
<1>6. CASE TlbStep
  BY <1>6 DEF TlbStep, list, TailLast, Before
<1> QED
  BY <1>1, <1>2, <1>4, <1>5, <1>6 DEF Next, Hart, Kernel

LEMMA FramesShared ==
  ASSUME Inv, Memory, TailLast, at = "user" PROVE FramesConserved
<1> DEFINE N == MaxTestPages
           listed == {k \in 0 .. N : Chain[k] # Null}
           free == {cell[Chain[k]].addr : k \in listed}
           mapped == {p \in Pages : Mapped(p)}
           used == {cell[MapNode(p)].addr : p \in mapped}
<1>1. PICK l \in FreeLists, h \in 1 .. N : LinkedFrom(l, h)
  BY DEF Memory, Linked, Before
<1>2. N \in Nat /\ h \in Nat /\ h >= 1 /\ h <= N
  BY ConstantAssumption
<1>3. \A k \in 0 .. N : Chain[k] = IF h + k <= N THEN FreeNode(h + k) ELSE Null
  BY <1>1, ChainValue
<1>4. \A i \in 1 .. N : cell[FreeNode(i)].addr = l[i] /\ FreeNode(i) # Null
  BY <1>1, ListedCell
<1>5. Chain[N] = Null
  <2>1. N \in 0 .. N /\ ~(h + N <= N)
    BY <1>2
  <2> QED
    BY <1>3, <2>1
<1>6. \A f : f \in free <=> \E i \in h .. N : f = l[i]
  <2>1. ASSUME NEW k \in listed
        PROVE  h + k \in h .. N /\ cell[Chain[k]].addr = l[h + k]
    <3>1. k \in 0 .. N /\ h + k <= N /\ Chain[k] = FreeNode(h + k)
      BY <1>3
    <3>2. h + k \in 1 .. N /\ h + k \in h .. N
      BY <1>2, <3>1
    <3> QED
      BY <1>4, <3>1, <3>2
  <2>2. ASSUME NEW i \in h .. N
        PROVE  i - h \in listed /\ cell[Chain[i - h]].addr = l[i]
    <3>1. i - h \in 0 .. N /\ h + (i - h) = i /\ i <= N /\ i \in 1 .. N
      BY <1>2
    <3>2. Chain[i - h] = FreeNode(i)
      BY <1>3, <3>1
    <3> QED
      BY <1>4, <3>1, <3>2
  <2> HIDE DEF listed
  <2> QED
    BY <2>1, <2>2
<1>7. \A p \in Pages : /\ Mapped(p) <=> Has(p)
                       /\ Mapped(p) => cell[MapNode(p)].addr = pte[p].frame
  BY DEF Memory, MapsDone, MapsOwn, Before, Mapped, Has
<1>8. \A f : f \in used <=> \E i \in 1 .. h - 1 : f = l[i]
  <2>1. ASSUME NEW p \in mapped
        PROVE  \E i \in 1 .. h - 1 : cell[MapNode(p)].addr = l[i]
    BY <1>1, <1>7 DEF LinkedFrom
  <2>2. ASSUME NEW i \in 1 .. h - 1
        PROVE  \E p \in mapped : cell[MapNode(p)].addr = l[i]
    <3>1. PICK p \in Pages : pte[p].frame = l[i]
      BY <1>1 DEF LinkedFrom
    <3>2. i \in 1 .. N
      BY <1>2
    <3>3. l[i] \in FrameIds
      BY <3>2 DEF FrameIds
    <3> QED
      BY <1>7, <3>1, <3>3, PteFacts DEF Has
  <2> HIDE DEF mapped
  <2> QED
    BY <2>1, <2>2
<1>9. /\ \A i \in h .. N : i \in 1 .. N
      /\ \A i \in 1 .. h - 1 : i \in 1 .. N /\ i \notin h .. N
      /\ \A i \in 1 .. N : i \in h .. N \/ i \in 1 .. h - 1
  BY <1>2
<1>10. \A f : f \in FrameIds <=> \E i \in 1 .. N : f = l[i]
  BY ListAssumption
<1>11. mapped \in SUBSET Pages /\ IsFiniteSet(mapped)
  <2>1. IsFiniteSet(Pages)
    BY <1>2, FS_Interval DEF Pages
  <2>2. mapped \in SUBSET Pages
    OBVIOUS
  <2> HIDE DEF mapped
  <2> QED
    BY <2>1, <2>2, FS_Subset
<1>12. Cardinality(used) = Cardinality(mapped)
  <2> DEFINE place == [p \in mapped |-> cell[MapNode(p)].addr]
  <2>1. \A p, q \in mapped : place[p] = place[q] => p = q
    BY <1>7 DEF Memory, Separate
  <2>2. place \in [mapped -> used] /\ \A f \in used : \E p \in mapped : place[p] = f
    OBVIOUS
  <2> HIDE DEF place, mapped, used
  <2>3. place \in Bijection(mapped, used)
    BY <2>1, <2>2 DEF Bijection, Injection, Surjection, IsInjective
  <2> QED
    BY <1>11, <2>3, FS_Bijection DEF ExistsBijection
<1> HIDE DEF free, used
<1>13. free \cap used = {}
  <2>1. SUFFICES ASSUME NEW f \in free, f \in used PROVE FALSE
    OBVIOUS
  <2>2. PICK i \in h .. N : f = l[i]
    BY <1>6
  <2>3. PICK j \in 1 .. h - 1 : f = l[j]
    BY <1>8, <2>1
  <2> QED
    BY <1>9, <2>2, <2>3, ListAssumption
<1>14. free \cup used = FrameIds
  BY <1>6, <1>8, <1>9, <1>10
<1>15. IF tail = Null THEN Chain[1] = Null
       ELSE cell[tail].next = Null /\ \E k \in listed : Chain[k] = tail
  <2>1. CASE tail = Null
    <3>1. FreeNode(h) = FreeNode(N) /\ 1 \in 0 .. N /\ ~(N + 1 <= N) /\ FreeNode(N) # Null
      BY <1>1, <1>2, <2>1 DEF TailLast, Before, LinkedFrom, FreeNode, Null
    <3>2. h = N
      BY <3>1 DEF FreeNode
    <3> QED
      BY <1>3, <2>1, <3>1, <3>2
  <2>2. CASE tail # Null
    <3>1. tail = FreeNode(N) /\ N \in 1 .. N
      BY <1>2, <2>2 DEF TailLast, Before
    <3>2. cell[tail].next = Null
      <4>1. cell[FreeNode(N)] = [addr |-> l[N], next |-> Null]
        BY <1>1, <3>1 DEF LinkedFrom
      <4> QED
        BY <3>1, <4>1
    <3>3. N - h \in 0 .. N /\ h + (N - h) = N /\ N <= N
      BY <1>2
    <3>4. Chain[N - h] = tail
      BY <1>3, <3>1, <3>3
    <3> QED
      BY <2>2, <3>2, <3>3, <3>4
  <2> QED
    BY <2>1, <2>2
<1> USE DEF free, used
<1> QED
  BY <1>5, <1>12, <1>13, <1>14, <1>15 DEF FramesConserved

\* With any number of pages and of frames, no frame is lost, and none belongs to
\* two pages or to a page and the free list, which is linked up to its end; the
\* tail is no node that was taken.
THEOREM FramesStayConserved == Spec => []FramesConserved
<1>1. Init => TailLast
  BY DEF Init, TailLast
<1>2. Inv /\ Memory /\ TailLast => FramesConserved
  <2>1. CASE at = "user"
    BY <2>1, FramesShared
  <2>2. CASE at # "user"
    BY <2>2 DEF FramesConserved
  <2> QED
    BY <2>1, <2>2
<1>3. Inv /\ Memory /\ TailLast /\ [Next]_vars => TailLast'
  BY TailStaysLast
<1> QED
  BY <1>1, <1>2, <1>3, MemoryInvariance, PTL DEF Spec
=============================================================================
