------------------------------- MODULE Paging -------------------------------
(***************************************************************************)
(* Physical frames and the mapping of the kernel's heap, src/paging.c:     *)
(* at start-up the frames are found in the BIOS's memory map; afterwards   *)
(* the heap's pages are mapped one by one, when they are first touched, by *)
(* the page fault handler.  All pages of the heap are in one page table,   *)
(* which is made for the first of them.  Nothing gives a page or a frame   *)
(* back: no process is ever started, so current_process is NULL.           *)
(*                                                                         *)
(* Addresses are bytes.  A frame or page is its number; an absent mapping  *)
(* is None.  The handler runs with interrupts off, and no interrupt        *)
(* handler uses the heap, so it is one action.                             *)
(***************************************************************************)
EXTENDS Integers, Sequences, FiniteSets, FiniteSetsExt

CONSTANTS page_size,
          MAX_PAGES,      \* frames of the 32 bit address space
          MemoryMaps,     \* the maps the BIOS may have left in memory_map_array
          framebuffer,    \* selected_video_mode->framebuffer
          fbuffer_pages,
          ScreenLine,     \* bpp*width+height
          LowMemory,      \* 0x400000: BIOS, kernel and its first tables
          Heap            \* the pages between heap_start and heap_end

Frames == 0..MAX_PAGES-1
None == -1

Regions == [base_address : Nat, mem_length : Nat, region_type : Nat]

\* The frames behind low memory, one for each page of the heap and one for its table.
Wanted == LowMemory \div page_size + 1 .. LowMemory \div page_size + 1 + Cardinality(Heap)

ASSUME PagingAssumption ==
  /\ page_size \in Nat \ {0} /\ MAX_PAGES \in Nat \ {0}
  /\ \A map \in MemoryMaps : \A i \in DOMAIN map : map[i] \in Regions
  /\ framebuffer \in Nat /\ fbuffer_pages \in Nat /\ ScreenLine \in Nat
  /\ LowMemory \in Nat
  /\ Heap \subseteq Nat /\ IsFiniteSet(Heap) /\ Wanted \subseteq Frames

VARIABLES memory_map,
          page_bitmap,              \* the frames whose bit is 1: free
          kernel_virt_page_bitmap,  \* the pages whose bit is 1: not mapped yet
          table,                    \* the heap's entry of the page directory
          entry,                    \* the entries of that table
          access,                   \* the page the kernel is touching, or None
          ready                     \* paging_setup is done

vars == <<memory_map, page_bitmap, kernel_virt_page_bitmap, table, entry, access, ready>>

-----------------------------------------------------------------------------
(* Start-up *)

Space == MAX_PAGES * page_size
Usable(map) == {i \in DOMAIN map : map[i].region_type = 1}

\* The 32 bit start, rounded up to a page.
Start(r) == LET start == r.base_address % Space
            IN  IF start % page_size = 0 THEN start
                ELSE ((start \div page_size + 1) * page_size) % Space

\* The last start+offset that the loop takes, in 64 bits.
Limit(r) == r.base_address + r.mem_length + page_size

\* The loop's passes.  At the end of the 32 bit space start+offset begins
\* anew, and only MAX_PAGES ends the loop.
Passes(r) == IF Limit(r) >= Space - page_size THEN MAX_PAGES
             ELSE (Limit(r) - Start(r)) \div page_size + 1

\* pagenum after the first i entries.
pagenum(map) ==
  LET num[i \in 0..Len(map)] ==
        IF i = 0 THEN 0
        ELSE IF i \in Usable(map) THEN Min({MAX_PAGES, num[i-1] + Passes(map[i])})
        ELSE num[i-1]
  IN  num

Marked(map, i) ==
  {(Start(map[i]) \div page_size + k) % MAX_PAGES : k \in 0..pagenum(map)[i] - pagenum(map)[i-1] - 1}

set_memory_bitmap(map) ==
  {f \in Frames : /\ \E i \in Usable(map) : f \in Marked(map, i)
                  /\ f \notin {framebuffer \div page_size + i : i \in 0..fbuffer_pages-1}}

\* The frames whose bit reserve_address clears.
reserve_address(start, end) == (start \div page_size)..(end \div page_size)

Reserved == reserve_address(0, LowMemory)
              \cup reserve_address(framebuffer, framebuffer + ScreenLine)

\* Writing to the first table's first entry as an address leaves the identity
\* mapping of low memory in place; the heap's entries are absent.
paging_setup ==
  /\ ~ready /\ ready' = TRUE
  /\ page_bitmap' = set_memory_bitmap(memory_map) \ Reserved
  /\ kernel_virt_page_bitmap' = Heap
  /\ UNCHANGED <<memory_map, table, entry, access>>

-----------------------------------------------------------------------------
(* Page faults *)

\* Mutant: the search starts at the top.
MutRawPage(bitmap) == IF bitmap = {} THEN 0 ELSE Max(bitmap)

\* The lowest free frame, or 0.
alloc_raw_page(bitmap) == IF bitmap = {} THEN 0 ELSE Min(bitmap)

\* Mutant: the frame's bit is not cleared.
MutTaken(bitmap) == bitmap

Taken(bitmap) == bitmap \ {alloc_raw_page(bitmap)}

NeedsTable == table = None

\* What memset leaves of the entries when it clears the frame.
Cleared(entries, frame, tableframe) ==
  IF frame = tableframe THEN [p \in Heap |-> None] ELSE entries

\* alloc_page finds the page's bit set: it takes a frame for the page, map_page
\* one for the table if there is none, and the page is cleared.
alloc_page(p, data, newtable) ==
  LET entries == IF NeedsTable THEN Cleared(entry, newtable, newtable) ELSE entry
  IN  /\ table' = newtable
      /\ entry' = Cleared([entries EXCEPT ![p] = data], data, newtable)

Mapped(p) == kernel_virt_page_bitmap \ {p}

\* If the page's bit is clear alloc_page returns 1, which nobody looks at: the
\* same access faults again, and so on.
page_fault_handler ==
  /\ access # None /\ entry[access] = None
  /\ access \in kernel_virt_page_bitmap
  /\ kernel_virt_page_bitmap' = Mapped(access)
  /\ LET data == alloc_raw_page(page_bitmap)
         rest == Taken(page_bitmap)
     IN  IF NeedsTable THEN /\ alloc_page(access, data, alloc_raw_page(rest))
                            /\ page_bitmap' = Taken(rest)
                       ELSE /\ alloc_page(access, data, table)
                            /\ page_bitmap' = rest
  /\ UNCHANGED <<memory_map, access, ready>>

\* The kernel reads or writes a page of its heap; the processor repeats that
\* until the page is there.
Touch(p) == /\ ready /\ access = None /\ access' = p
            /\ UNCHANGED <<memory_map, page_bitmap, kernel_virt_page_bitmap, table, entry, ready>>

Touched == /\ access # None /\ entry[access] # None
           /\ access' = None
           /\ UNCHANGED <<memory_map, page_bitmap, kernel_virt_page_bitmap, table, entry, ready>>

-----------------------------------------------------------------------------
Init ==
  /\ memory_map \in MemoryMaps
  /\ page_bitmap = {} /\ kernel_virt_page_bitmap = {}
  /\ table = None /\ entry = [p \in Heap |-> None]
  /\ access = None /\ ready = FALSE

Next == \/ paging_setup \/ page_fault_handler
        \/ (\E p \in Heap : Touch(p)) \/ Touched

\* The processor goes on with an access, and with its fault.
Spec == Init /\ [][Next]_vars /\ WF_vars(page_fault_handler) /\ WF_vars(Touched)

-----------------------------------------------------------------------------
(* Properties *)

\* The types of the state (paging.c:21-27).
TypeOK ==
  /\ page_bitmap \subseteq Frames
  /\ kernel_virt_page_bitmap \subseteq Heap
  /\ table \in Frames \cup {None}
  /\ entry \in [Heap -> Frames \cup {None}]
  /\ access \in Heap \cup {None}
  /\ ready \in BOOLEAN

InUse == ({entry[p] : p \in Heap} \cup {table}) \ {None}

\* The pages of the heap and its table have a frame each to themselves, which
\* is neither free nor reserved (alloc_raw_page, create_new_table): the heap's
\* bytes are memory of their own.  Only when no frame is left is frame 0
\* handed out, which is low memory, to one page after the other.
FramesApart ==
  /\ InUse \cap page_bitmap = {}
  /\ InUse \cap Reserved \subseteq {0}
  /\ 0 \in InUse => page_bitmap = {}
  /\ \A p, q \in Heap : p # q /\ entry[p] = entry[q] => entry[p] \in {0, None}
  /\ \A p \in Heap : entry[p] # None => entry[p] # table

\* A page's bit says whether it is mapped, so that no fault is refused, unless
\* the table itself is in frame 0 (alloc_page, paging.c:110-123).
BitmapAgrees ==
  ready /\ table # 0 => kernel_virt_page_bitmap = {p \in Heap : entry[p] = None}

\* Frame f, all of it, is in the region of entry i.
Within(f, i) == LET r == memory_map[i]
                IN  /\ r.base_address <= f * page_size
                    /\ (f + 1) * page_size <= r.base_address + r.mem_length
WithinUsable(f) == \E i \in Usable(memory_map) : Within(f, i)

\* The loop goes through all of entry i, which it does not once it has counted
\* MAX_PAGES.
GoneThrough(i) == pagenum(memory_map)[i] - pagenum(memory_map)[i-1] = Passes(memory_map[i])

\* There is memory for the heap and its table right behind low memory.
Roomy == /\ \A f \in Wanted : \E i \in Usable(memory_map) : Within(f, i) /\ GoneThrough(i)
         /\ Wanted \cap (Reserved \cup {framebuffer \div page_size + i : i \in 0..fbuffer_pages-1}) = {}

\* Then all of the heap is in usable memory - although set_memory_bitmap also
\* frees frames behind each region, and every frame there is once a region ends
\* beyond 4 GB (paging.c:74-94).
EnoughIsUsable == Roomy => \A f \in InUse : WithinUsable(f)

\* Every access to the heap ends, after at most one fault that maps the page,
\* unless the page table had to be put in frame 0: clearing the next page
\* clears it too, and the fault comes back for ever.
AccessEnds == access # None ~> access = None \/ table = 0
=============================================================================
