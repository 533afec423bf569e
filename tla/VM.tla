--------------------------------- MODULE VM ---------------------------------
(***************************************************************************)
(* The virtual-memory environment of riscv-tests (env/v/vm.c): a test      *)
(* program runs in user mode on demand-mapped pages. The first access to a *)
(* page takes a frame from the free list and copies the page there; the    *)
(* accessed and dirty bits are set by faults of their own. The environment *)
(* call evicts all the pages, checking the bits, and ends the program.     *)
(*                                                                         *)
(* The TLB may keep a translation, a missing one included, until it is     *)
(* flushed, and may load or drop one at any time.                          *)
(***************************************************************************)
EXTENDS Integers, Sequences, FiniteSets

CONSTANTS
  MaxTestPages,  \* MAX_TEST_PAGES: pages 1 .. MaxTestPages - 1 can be mapped
  FreeLists,     \* the frames vm_boot can put in the free list, in order
  Data,          \* contents of a page
  Codes          \* exit codes of a program

ASSUME ConstantAssumption ==
  /\ MaxTestPages \in Nat /\ MaxTestPages > 1
  /\ \A l \in FreeLists : l \in Seq(Nat \ {0}) /\ Len(l) = MaxTestPages

Pages == 1 .. MaxTestPages - 1
FrameIds == UNION {{l[i] : i \in 1 .. MaxTestPages} : l \in FreeLists}
NoFrame == 0

\* Each list names every frame once: the boot loop runs a register through all
\* its values ("this must be the period of the LFSR below", riscv_test.h:52).
ASSUME ListAssumption == \A l \in FreeLists :
  /\ \A i, j \in 1 .. MaxTestPages : l[i] = l[j] => i = j
  /\ {l[i] : i \in 1 .. MaxTestPages} = FrameIds

\* The nodes of the free list: freelist_nodes[i], and user_mapping[p] once
\* page p is evicted.
FreeNode(i) == <<"free", i>>
MapNode(p) == <<"map", p>>
Null == <<"null", 0>>
FreeNodes == {FreeNode(i) : i \in 1 .. MaxTestPages}
Nodes == FreeNodes \cup {MapNode(p) : p \in Pages}

VARIABLES
  pte,     \* user_llpt[p]: 0 (NoPte), or a frame with its A and D bits
  tlb,     \* what the TLB holds of page p: Uncached, NoPte or an entry
  cell,    \* the nodes: addr and next
  head,    \* freelist_head
  tail,    \* freelist_tail
  home,    \* the contents of the pages where they were loaded
  frame,   \* the contents of the frames
  at,      \* where the kernel is, or "user"
  node,    \* handle_fault's node, or the page evict is at
  out,     \* the last value the program loaded
  instr,   \* the instruction the program is at, or None
  exit     \* the value written to tohost at the end, or Running

list == <<cell, head, tail>>
contents == <<home, frame>>
program == <<out, instr>>
vars == <<pte, tlb, list, contents, at, node, program, exit>>

NoPte == [frame |-> NoFrame, a |-> FALSE, d |-> FALSE]
Ptes == {NoPte} \cup [frame : FrameIds, a : BOOLEAN, d : BOOLEAN]
Uncached == [frame |-> NoFrame, a |-> TRUE, d |-> TRUE]

\* What the program sees: a page is where it is mapped, and still at home until
\* the copy into its frame is complete.
Mapped(p) == cell[MapNode(p)].addr # NoFrame
Copying(p) == at = "copy" /\ instr.page = p
View == [p \in Pages |->
  IF Mapped(p) /\ ~Copying(p) THEN frame[cell[MapNode(p)].addr] ELSE home[p]]

Flat == INSTANCE FlatMemory WITH mem <- View
Running == Flat!Running
None == Flat!None

----------------------------------------------------------------------------
(* Address translation *)

Translation(p) == IF tlb[p] = Uncached THEN pte[p] ELSE tlb[p]

Present(p) == Translation(p) # NoPte

\* The bits an access needs are there.
Needs(t, op) == [t EXCEPT !.a = TRUE, !.d = @ \/ op = "store"]
Hits(p, op) == Present(p) /\ Translation(p) = Needs(Translation(p), op)

\* An access to page p succeeds, in the frame the translation gives. When a bit
\* is missing, hardware of one kind sets it, and of the other faults (Fault):
\* here any access may meet either.
Access(p, op) ==
  /\ Present(p)
  /\ IF Translation(p) = Needs(Translation(p), op) THEN UNCHANGED <<pte, tlb>>
     ELSE /\ pte' = [pte EXCEPT ![p] = Needs(@, op)]
          /\ tlb' = [tlb EXCEPT ![p] = pte'[p]]

Bits(p, a, d) == pte' = [pte EXCEPT ![p] = [@ EXCEPT !.a = a, !.d = d]]
Flushed(p) == tlb' = [tlb EXCEPT ![p] = Uncached]

----------------------------------------------------------------------------
(* Initial state: vm_boot has linked the nodes and mapped nothing. *)

Init ==
  /\ pte = [p \in Pages |-> NoPte]
  /\ tlb \in [Pages -> {Uncached, NoPte}]
  /\ \E l \in FreeLists : cell = [n \in Nodes |->
       IF n \notin FreeNodes THEN [addr |-> NoFrame, next |-> Null]
       ELSE [addr |-> l[n[2]],
             next |-> IF n[2] = MaxTestPages THEN Null ELSE FreeNode(n[2] + 1)]]
  /\ head = FreeNode(1)
  /\ tail = FreeNode(MaxTestPages)
  /\ home \in [Pages -> Data]
  /\ frame \in [FrameIds -> Data]
  /\ at = "user"
  /\ node = Null
  /\ out \in Data
  /\ instr = None
  /\ exit = Running

\* do_tohost(code); while (1);
Terminate(code) == exit' = code /\ at' = "stopped"
AssertFails == Terminate(3)

----------------------------------------------------------------------------
(* The program *)

\* The program comes to its next instruction.
Issue ==
  /\ at = "user" /\ instr = None
  /\ instr' \in Flat!Instructions
  /\ UNCHANGED <<pte, tlb, list, contents, at, node, out, exit>>

MemoryOp == instr.op \in {"fetch", "load", "store"}

Execute ==
  /\ at = "user" /\ MemoryOp /\ instr.page \in Pages
  /\ Access(instr.page, instr.op)
  /\ LET f == Translation(instr.page).frame
     IN /\ frame' = IF instr.op = "store" THEN [frame EXCEPT ![f] = instr.data] ELSE frame
        /\ out' = IF instr.op = "load" THEN frame[f] ELSE out
  /\ instr' = None
  /\ UNCHANGED <<list, home, at, node, exit>>

\* The exceptions vm_boot delegates to supervisor mode.
Delegated == {"ecall", "fetch", "load", "store"}

\* Any other one enters trap_vector in machine mode, which jumps to wtf.
Wtf ==
  /\ at = "user" /\ instr # None /\ instr.op \notin Delegated
  /\ Terminate(841)
  /\ UNCHANGED <<pte, tlb, list, contents, node, program>>

\* A page fault traps; page 0 has no entry.
Fault ==
  /\ at = "user" /\ MemoryOp
  /\ instr.page \in Pages => ~Hits(instr.page, instr.op)
  /\ at' = "fault"
  /\ UNCHANGED <<pte, tlb, list, contents, node, program, exit>>

Ecall ==
  /\ at = "user" /\ instr.op = "ecall"
  /\ at' = "evict" /\ node' = MapNode(1)
  /\ UNCHANGED <<pte, tlb, list, contents, program, exit>>

----------------------------------------------------------------------------
(* handle_fault *)

\* assert(addr >= PGSIZE && addr < MAX_TEST_PAGES * PGSIZE)
BadAddress ==
  /\ at = "fault" /\ instr.page \notin Pages
  /\ AssertFails
  /\ UNCHANGED <<pte, tlb, list, contents, node, program>>

\* mutant: a missing A bit sets the D bit
SetDirty ==
  /\ at = "fault" /\ instr.page \in Pages /\ pte[instr.page] # NoPte
  /\ Bits(instr.page, pte[instr.page].a, TRUE)
  /\ at' = "flush_bit"
  /\ UNCHANGED <<tlb, list, contents, node, program, exit>>

\* The page is mapped: one of its bits is missing. With both there, or only D
\* missing at another access than a store, the assertion fails.
SetBit ==
  /\ at = "fault" /\ instr.page \in Pages /\ pte[instr.page] # NoPte
  /\ LET e == pte[instr.page]
     IN IF e.a /\ (e.d \/ instr.op # "store") THEN AssertFails /\ UNCHANGED pte
        ELSE /\ Bits(instr.page, TRUE, e.a \/ e.d)
             /\ at' = "flush_bit" /\ UNCHANGED exit
  /\ UNCHANGED <<tlb, list, contents, node, program>>

\* mutant: no flush_page at the end of handle_fault
LeaveBit ==
  /\ at = "flush_bit"
  /\ at' = "user"
  /\ UNCHANGED <<pte, tlb, list, contents, node, program, exit>>

FlushBit ==
  /\ at = "flush_bit"
  /\ Flushed(instr.page)
  /\ at' = "user"
  /\ UNCHANGED <<pte, list, contents, node, program, exit>>

\* mutant: the node stays in the list
ShareNode ==
  /\ at = "fault" /\ instr.page \in Pages /\ pte[instr.page] = NoPte /\ head # Null
  /\ node' = head
  /\ pte' = [pte EXCEPT ![instr.page] = [frame |-> cell[head].addr, a |-> TRUE, d |-> TRUE]]
  /\ at' = "flush_map"
  /\ UNCHANGED <<tlb, list, contents, program, exit>>

\* The page is not mapped: the first node of the free list is taken, and the
\* entry gets both bits for the copy.
TakeNode ==
  /\ at = "fault" /\ instr.page \in Pages /\ pte[instr.page] = NoPte
  /\ IF head = Null THEN AssertFails /\ UNCHANGED <<pte, head, tail, node>>
     ELSE /\ node' = head
          /\ head' = cell[head].next
          /\ tail' = IF head' = tail THEN Null ELSE tail
          /\ pte' = [pte EXCEPT
               ![instr.page] = [frame |-> cell[head].addr, a |-> TRUE, d |-> TRUE]]
          /\ at' = "flush_map" /\ UNCHANGED exit
  /\ UNCHANGED <<tlb, cell, contents, program>>

\* mutant: no flush_page after the entry is made
NoFlushMap ==
  /\ at = "flush_map" /\ ~Mapped(instr.page)
  /\ cell' = [cell EXCEPT ![MapNode(instr.page)] = cell[node]]
  /\ at' = "copy"
  /\ UNCHANGED <<pte, tlb, head, tail, contents, node, program, exit>>

\* flush_page, then the node is copied to user_mapping, which must be free.
FlushMap ==
  /\ at = "flush_map"
  /\ Flushed(instr.page)
  /\ IF Mapped(instr.page) THEN AssertFails /\ UNCHANGED cell
     ELSE /\ cell' = [cell EXCEPT ![MapNode(instr.page)] = cell[node]]
          /\ at' = "copy" /\ UNCHANGED exit
  /\ UNCHANGED <<pte, head, tail, contents, node, program>>

\* mutant: the page is not copied
NoCopyIn ==
  /\ at = "copy" /\ Hits(instr.page, "store")
  /\ Access(instr.page, "store")
  /\ at' = "protect"
  /\ UNCHANGED <<list, contents, node, program, exit>>

\* memcpy((void*)addr, uva2kva(addr), PGSIZE), through the new entry. A fault
\* in here is one handle_fault does not expect, the entry being complete.
CopyIn ==
  /\ at = "copy"
  /\ IF Hits(instr.page, "store")
     THEN /\ Access(instr.page, "store")
          /\ frame' = [frame EXCEPT ![Translation(instr.page).frame] = home[instr.page]]
          /\ at' = "protect" /\ UNCHANGED exit
     ELSE AssertFails /\ UNCHANGED <<pte, tlb, frame>>
  /\ UNCHANGED <<list, home, node, program>>

\* The entry loses both bits, so that the program's accesses set them.
Protect ==
  /\ at = "protect"
  /\ Bits(instr.page, FALSE, FALSE)
  /\ at' = "flush_bit"
  /\ UNCHANGED <<tlb, list, contents, node, program, exit>>

----------------------------------------------------------------------------
(* The environment call *)

\* Append a node to the free list, as evict does: its next is left as it is.
AppendNode(n, c) ==
  IF tail = Null
  THEN /\ head' = n /\ tail' = n /\ cell' = c
  ELSE /\ cell' = [c EXCEPT ![tail].next = n] /\ tail' = n /\ UNCHANGED head

\* mutant: one page too many
OnePageMore ==
  IF node[2] = MaxTestPages THEN at' = "terminate" /\ UNCHANGED node
  ELSE at' = "evict" /\ node' = MapNode(node[2] + 1)

\* The loop of handle_trap over the pages.
NextPage ==
  IF node[2] = MaxTestPages - 1 THEN at' = "terminate" /\ UNCHANGED node
  ELSE at' = "evict" /\ node' = MapNode(node[2] + 1)

\* evict(node): the bits are checked, what the program changed in the page is
\* overwritten with the page's home, and the node goes to the free list.
Evict ==
  /\ at = "evict"
  /\ LET p == node[2]
         t == Translation(p)
         changed == frame[t.frame] # home[p]
     IN IF ~Mapped(p) THEN NextPage /\ UNCHANGED <<pte, tlb, list, frame, exit>>
        ELSE IF ~pte[p].a \/ ~Hits(p, "load")
                \/ (changed /\ (~pte[p].d \/ ~Hits(p, "store")))
        THEN AssertFails /\ UNCHANGED <<pte, tlb, list, frame, node>>
        ELSE /\ Access(p, IF changed THEN "store" ELSE "load")
             /\ frame' = [frame EXCEPT ![t.frame] = home[p]]
             /\ AppendNode(MapNode(p), [cell EXCEPT ![MapNode(p)].addr = NoFrame])
             /\ NextPage
             /\ UNCHANGED exit
  /\ UNCHANGED <<home, program>>

End ==
  /\ at = "terminate"
  /\ Terminate(instr.code)
  /\ UNCHANGED <<pte, tlb, list, contents, node, program>>

----------------------------------------------------------------------------
(* The TLB loads an entry, or drops one. *)

TlbStep ==
  /\ at # "stopped"
  /\ \E p \in Pages : \/ tlb' = [tlb EXCEPT ![p] = pte[p]]
                      \/ tlb' = [tlb EXCEPT ![p] = Uncached]
  /\ UNCHANGED <<pte, list, contents, at, node, program, exit>>

Kernel ==
  BadAddress \/ SetBit \/ FlushBit \/ TakeNode \/ FlushMap \/ CopyIn \/ Protect
    \/ Evict \/ End
Hart == Execute \/ Wtf \/ Fault \/ Ecall \/ Kernel

Next == Issue \/ Hart \/ TlbStep

\* The hart runs; the program may loop, and the TLB is under no obligation.
Spec == Init /\ [][Next]_vars /\ WF_vars(Hart)

----------------------------------------------------------------------------
(* Properties *)

TypeOK ==
  /\ pte \in [Pages -> Ptes]
  /\ tlb \in [Pages -> Ptes \cup {Uncached}]
  /\ cell \in [Nodes -> [addr : FrameIds \cup {NoFrame}, next : Nodes \cup {Null}]]
  /\ head \in Nodes \cup {Null} /\ tail \in Nodes \cup {Null} /\ node \in Nodes \cup {Null}
  /\ home \in [Pages -> Data] /\ frame \in [FrameIds -> Data] /\ out \in Data
  /\ at \in {"user", "fault", "flush_bit", "flush_map", "copy", "protect", "evict",
             "terminate", "stopped"}
  /\ instr \in Flat!Instructions \cup {None}
  /\ exit \in Codes \cup {Running, 3, 841}

\* While the program runs, the TLB allows nothing the entry does not: the
\* flushes of handle_fault leave no stale permission behind (vm.c:151, :173).
TlbHonest ==
  at = "user" => \A p \in Pages : tlb[p] \notin {Uncached, NoPte} =>
    /\ tlb[p].frame = pte[p].frame
    /\ tlb[p].a => pte[p].a
    /\ tlb[p].d => pte[p].d

\* A page the program changed has its dirty bit, which evict asserts
\* (vm.c:121).
DirtyTracked ==
  at \in {"user", "fault", "evict"} => \A p \in Pages :
    Mapped(p) /\ frame[cell[MapNode(p)].addr] # home[p] => pte[p].d

\* The k-th node of the free list, Null beyond its end.
Chain ==
  LET f[k \in 0 .. MaxTestPages] ==
        IF k = 0 THEN head ELSE IF f[k - 1] = Null THEN Null ELSE cell[f[k - 1]].next
  IN f

\* Until the environment call, every frame is in the free list or mapped, by
\* one page only, and none is both; the list is linked up to its end; and what
\* evict would append to is its last node, never one given to a page: the tail,
\* null only when the list is down to that node (vm.c:155, :158, :166).
FramesConserved ==
  at = "user" =>
    LET listed == {k \in 0 .. MaxTestPages : Chain[k] # Null}
        free == {cell[Chain[k]].addr : k \in listed}
        mapped == {p \in Pages : Mapped(p)}
        used == {cell[MapNode(p)].addr : p \in mapped}
    IN /\ Chain[MaxTestPages] = Null
       /\ free \cap used = {} /\ free \cup used = FrameIds
       /\ Cardinality(used) = Cardinality(mapped)
       /\ IF tail = Null THEN Chain[1] = Null
          ELSE cell[tail].next = Null /\ \E k \in listed : Chain[k] = tail

\* The program runs as on plain memory, and no assertion of the kernel fails
\* but the one on stray addresses.
RunsOnFlatMemory == Flat!FlatSpec

\* Every instruction is carried out, after at most a few faults, or ends the
\* program: the kernel does not fault for ever.
Served == instr # None ~> instr = None \/ exit # Running
=============================================================================
