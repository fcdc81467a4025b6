------------------------------- MODULE Paging -------------------------------
(***************************************************************************)
(* Physical memory and paging of the kernel: the bump allocator kmalloc,   *)
(* the page frame allocator and its bitmap, init_paging, which maps all    *)
(* memory below free_addr while its own page tables push free_addr up, and *)
(* malloc, which is used once paging is on.                                *)
(*                                                                         *)
(* Physical and virtual addresses are numbers, pages and frames page       *)
(* numbers.  A page table entry is a pair <<page, frame>> of ptes; the     *)
(* entries that are not in ptes have their present bit clear.  Access      *)
(* rights are left out: all code runs in ring 0 with CR0.WP clear.         *)
(***************************************************************************)
EXTENDS Integers, FiniteSets, FiniteSetsExt

CONSTANTS
  PageSize,      \* PAGE_SIZE
  NFrames,       \* MEM_SIZE / PAGE_SIZE
  WordBits,      \* bits of a word of frames[] (32 in the code)
  TableEntries,  \* pages of one page table (1024 in the code)
  DirSize,       \* sizeof(page_dir_t), 8196 in the code
  FreeStarts,    \* where free_addr may start: the end of the boot module
  Garbage,       \* set bits that the part of frames[] nobody clears may hold
  Sizes,         \* the sizes callers ask malloc for
  Ops,           \* the calls made once paging is on
  MaxAddr        \* bound: callers stop calling malloc at this free_addr

Words == NFrames \div WordBits          \* INDEX_FROM_BIT(nframes)

\* init_paging asks for Words bytes, and clears as many, for Words words.
FramesSize  == Words
ClearedBits == 0 .. Words * (WordBits \div 4) - 1
Frames      == 0 .. Words * WordBits - 1

ASSUME SizesAssumption ==
  /\ PageSize \in Nat \ {0} /\ NFrames \in Nat /\ TableEntries \in Nat \ {0}
  /\ WordBits \in Nat \ {0} /\ WordBits % 4 = 0
  /\ DirSize \in Nat /\ FreeStarts \subseteq Nat /\ Sizes \subseteq Nat
  /\ MaxAddr \in Nat

ASSUME GarbageAssumption ==
  \A g \in Garbage : g \subseteq Frames \ ClearedBits

VARIABLES
  free_addr,  \* the first address kmalloc has not handed out
  frames,     \* the bits of frames[] that are set
  tables,     \* the indices of page_dir_t.tables that are set
  ptes,       \* the present page table entries
  pc,         \* what runs: the boot sequence, malloc, or nothing ("idle")
  at,         \* the page the running loop is at
  end,        \* the page at which malloc's loop ends
  garbage,    \* the bits set in the memory that frames[] will occupy uncleared
  heap,       \* history: the pages malloc has given a frame
  freed       \* history: pfa_free has been called

vars == <<free_addr, frames, tables, ptes, pc, at, end, garbage, heap, freed>>

\* abort(), page_fault(), or running on pages that are not where they were
Dead == {"aborted", "fault", "wild"}

-----------------------------------------------------------------------------
\* The number of pages that addresses below x touch.
PagesUpTo(x) == (x + PageSize - 1) \div PageSize

\* kmalloc(size, _, 1) returns AlignUp(free_addr).
AlignUp(x) == PagesUpTo(x) * PageSize

Present(p) == \E f \in Frames : <<p, f>> \in ptes

FaultyFirstFramePastEnd(b) ==
  LET clear == Frames \ b IN IF clear = {} THEN NFrames ELSE Min(clear)

\* first_frame(): the first clear bit, or (uint32_t)-1.
FirstFrame(b) ==
  LET clear == Frames \ b IN IF clear = {} THEN -1 ELSE Min(clear)

FaultySetFrame(b, f) == b

set_frame(b, f) == b \cup {f}

FaultyClearWord(b, addr) ==
  {f \in b : f \div WordBits # (addr \div PageSize) \div WordBits}

clear_frame(b, addr) == b \ {addr \div PageSize}

\* pfa_alloc on page p.
pfa_alloc(p) ==
  IF Present(p) THEN UNCHANGED <<frames, ptes>>
  ELSE /\ frames' = set_frame(frames, FirstFrame(frames))
       /\ ptes' = ptes \cup {<<p, FirstFrame(frames)>>}

\* pfa_alloc calls abort().
OutOfFrames(p) == ~Present(p) /\ FirstFrame(frames) = -1

-----------------------------------------------------------------------------
(* Boot.                                                                   *)

Init ==
  /\ free_addr \in FreeStarts
  /\ frames = {} /\ tables = {} /\ ptes = {}
  /\ pc = "boot" /\ at = 0 /\ end = 0
  /\ garbage \in Garbage /\ heap = {} /\ freed = FALSE

\* The bitmap and the page directory are taken from the end of the modules.
InitFrames ==
  /\ pc = "boot"
  /\ free_addr' = AlignUp(free_addr + FramesSize) + DirSize
  /\ frames' = garbage
  /\ pc' = "map" /\ at' = 0
  /\ UNCHANGED <<tables, ptes, end, garbage, heap, freed>>

FaultyMapLimitBeforeTables == PagesUpTo(free_addr) - Cardinality(tables)

\* The loop runs to free_addr, which it moves itself.
MapLimit == PagesUpTo(free_addr)

FaultyTablesForgotten(p) == {}

\* page_dir_t.tables once get_page(p, 1) has returned.
TablesWith(p) == tables \cup {p \div TableEntries}

\* One turn of the identity mapping loop: get_page, then pfa_alloc.
MapPage ==
  /\ pc = "map" /\ at < MapLimit
  /\ tables' = TablesWith(at)
  /\ free_addr' = IF at \div TableEntries \in tables THEN free_addr
                  ELSE AlignUp(free_addr) + PageSize
  /\ IF OutOfFrames(at)
     THEN pc' = "aborted" /\ UNCHANGED <<frames, ptes, at>>
     ELSE pfa_alloc(at) /\ at' = at + 1 /\ UNCHANGED pc
  /\ UNCHANGED <<end, garbage, heap, freed>>

\* From here on the kernel runs, and reaches its page tables, through ptes.
EnablePaging ==
  /\ pc = "map" /\ at >= MapLimit
  /\ pc' = IF \A e \in ptes : e[1] = e[2] THEN "idle" ELSE "wild"
  /\ at' = 0
  /\ UNCHANGED <<free_addr, frames, tables, ptes, end, garbage, heap, freed>>

-----------------------------------------------------------------------------
(* malloc and pfa_free once paging is on.                                  *)

Malloc(size) ==
  /\ pc = "idle" /\ "malloc" \in Ops
  /\ AlignUp(free_addr) + size <= MaxAddr   \* bound
  /\ free_addr' = AlignUp(free_addr) + size
  /\ pc' = "malloc" /\ at' = PagesUpTo(free_addr) /\ end' = PagesUpTo(free_addr')
  /\ UNCHANGED <<frames, tables, ptes, garbage, heap, freed>>

\* get_page finds the page's table, and the page is given a frame.
MallocPage ==
  /\ pc = "malloc" /\ at < end
  /\ at \div TableEntries \in tables
  /\ IF OutOfFrames(at)
     THEN pc' = "aborted" /\ UNCHANGED <<frames, ptes, at, heap>>
     ELSE /\ pfa_alloc(at)
          /\ at' = at + 1 /\ heap' = heap \cup {at} /\ UNCHANGED pc
  /\ UNCHANGED <<free_addr, tables, end, garbage, freed>>

\* get_page takes a new table from kmalloc and clears it with memset, through
\* a virtual address above free_addr, where nothing is mapped.
MallocTable ==
  /\ pc = "malloc" /\ at < end
  /\ at \div TableEntries \notin tables
  /\ tables' = TablesWith(at)
  /\ free_addr' = AlignUp(free_addr) + PageSize
  /\ pc' = IF Present(PagesUpTo(free_addr)) THEN pc ELSE "fault"
  /\ UNCHANGED <<frames, ptes, at, end, garbage, heap, freed>>

MallocReturn ==
  /\ pc = "malloc" /\ at >= end
  /\ pc' = "idle" /\ at' = 0 /\ end' = 0
  /\ UNCHANGED <<free_addr, frames, tables, ptes, garbage, heap, freed>>

\* pfa_free on a page that malloc returned.  It hands clear_frame a frame
\* number, where clear_frame wants an address.
Free(e) ==
  /\ pc = "idle" /\ "free" \in Ops /\ e[1] \in heap
  /\ ptes' = ptes \ {e}
  /\ frames' = clear_frame(frames, e[2])
  /\ heap' = heap \ {e[1]} /\ freed' = TRUE
  /\ UNCHANGED <<free_addr, tables, pc, at, end, garbage>>

Step == InitFrames \/ MapPage \/ EnablePaging
        \/ MallocPage \/ MallocTable \/ MallocReturn

Next == Step \/ (\E size \in Sizes : Malloc(size)) \/ (\E e \in ptes : Free(e))

\* Nothing stops the boot processor while it runs init_paging or malloc.
Spec == Init /\ [][Next]_vars /\ WF_vars(Step)

-----------------------------------------------------------------------------
(* Properties.                                                             *)

TypeOK ==
  /\ free_addr \in Nat
  /\ frames \subseteq Frames
  /\ tables \subseteq Nat
  /\ ptes \subseteq Nat \X Frames
  /\ pc \in Dead \cup {"boot", "map", "idle", "malloc"}
  /\ at \in Nat /\ end \in Nat /\ heap \subseteq Nat
  /\ garbage \in Garbage /\ freed \in BOOLEAN

\* "page frame allocator funcns", vmm.h:39: a frame that a page occupies is
\* marked in frames[] and belongs to no other page, so that no page allocated
\* later (vmm.c:69) shares memory with the kernel or the heap.
Exclusive ==
  /\ \A e \in ptes : e[2] \in frames
  /\ \A d, e \in ptes : d[2] = e[2] => d = e

\* So it is as long as nothing is freed, whatever frames[] held where
\* init_paging did not clear it (vmm.c:93).
FramesOwned == ~freed => Exclusive

\* Even when pages are freed, and frames marked free that are not, the damage
\* stays in frame 0: no other frame is ever mapped twice (vmm.c:82).
SharedOnlyFrameZero ==
  \A d, e \in ptes : d[2] = e[2] /\ d # e => d[2] = 0

\* As long as nothing is freed, and if memory was zero where frames[] is not
\* cleared: whenever paging is on and malloc does not run, everything kmalloc
\* and malloc ever handed out, page tables, directory and frames[] included, is
\* mapped, at its own address, and no other frame is in use.  get_page relies
\* on it when it follows the pointers of page_dir_t (vmm.c:121).
MappedTo(n) ==
  /\ ptes = {<<p, p>> : p \in 0 .. n - 1}
  /\ frames = 0 .. n - 1
KernelMapped ==
  garbage = {} /\ ~freed => (pc = "idle" => MappedTo(PagesUpTo(free_addr)))

\* "use only after paging is enabled", pmm.c:28: malloc works from then on.
MallocNeverFaults == pc # "fault"

\* The tables that map memory are themselves memory to be mapped, yet the loop
\* of init_paging (vmm.c:101) comes to an end, and with frames left, whenever
\* the module leaves room for bitmap, directory and tables for all memory.
RoomToBoot ==
  PagesUpTo(free_addr) + PagesUpTo(FramesSize) + PagesUpTo(DirSize)
    + NFrames \div TableEntries + 1 <= NFrames
BootReachesPaging == (garbage = {} /\ RoomToBoot) => <>(pc = "idle")
=============================================================================
