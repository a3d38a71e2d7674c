-------------------------------- MODULE Pmm ----------------------------------
(***************************************************************************)
(* Physical memory: src/memory/mmap.c and src/memory/pmm.c.                *)
(*                                                                         *)
(* The operators work on a record m that holds the machine's memory as the *)
(* kernel sees it; this module knows two of its fields, m.bitmap, the set  *)
(* of frames whose bit is set in pmm_bitmap, and m.panicked.  A frame is   *)
(* its number, so frame 0 stands for the address 0 that means failure.     *)
(* pmm_free_frame is left out: nothing calls it (unmap_page would, and has *)
(* no caller itself), so frames are only ever taken.                       *)
(***************************************************************************)
EXTENDS Integers, Sequences, FiniteSets, FiniteSetsExt, SequencesExt

CONSTANTS
  PAGE_SIZE,        \* bytes in a page
  ADDRESSES,        \* 2^32: the end of what 32 bits can address
  MAX_MEM_REGIONS,
  MemoryMap,        \* the multiboot memory map: entries of base, length, usable
  LOW,              \* 0x100000: the legacy area, never used
  Kernel,           \* start and end of the kernel's image (kpstart, kpend)
  Framebuffer,      \* addr and size of the linear framebuffer
  Module, Info      \* where the boot loader has put the initrd and its tables

ASSUME PmmAssumption ==
  /\ PAGE_SIZE \in Nat \ {0} /\ ADDRESSES \in Nat \ {0}
  /\ MemoryMap \in Seq([base : Nat, length : Nat, usable : BOOLEAN])
  /\ LOW \in Nat
  /\ Kernel \in [start : Nat, end : Nat] /\ Kernel.start <= Kernel.end
  /\ Framebuffer \in [addr : Nat, size : Nat]
  /\ {Module, Info} \subseteq [start : Nat, end : Nat]

-----------------------------------------------------------------------------
\* mmap_init: entries that start above 4 GiB are skipped, one that crosses the
\* end is cut.  Reserved entries count for total_memory too, which is the sum
\* of the lengths and wraps at 32 bits.
Entries   == {i \in DOMAIN MemoryMap : MemoryMap[i].base < ADDRESSES}
Length(e) == IF e.base + e.length > ADDRESSES THEN ADDRESSES - e.base ELSE e.length

total_memory ==
  LET sum[i \in 0 .. Len(MemoryMap)] ==
        IF i = 0 THEN 0
        ELSE IF i \in Entries THEN (sum[i - 1] + Length(MemoryMap[i])) % ADDRESSES
        ELSE sum[i - 1]
  IN  sum[Len(MemoryMap)]

\* The usable entries, as many as the table takes.
Usable == {i \in Entries : MemoryMap[i].usable}

usable_regions ==
  {MemoryMap[i] : i \in {j \in Usable :
                          Cardinality({k \in Usable : k < j}) < MAX_MEM_REGIONS}}

-----------------------------------------------------------------------------
PageUp(a)   == ((a + PAGE_SIZE - 1) \div PAGE_SIZE) * PAGE_SIZE
PageDown(a) == (a \div PAGE_SIZE) * PAGE_SIZE

total_pages == total_memory \div PAGE_SIZE
bitmap_phys == PageUp(Kernel.end)
bitmap_size == (total_pages + 7) \div 8

\* The bits that pmm_mark_used and pmm_mark_free go over: the number of pages
\* comes from the length alone, wherever in its page the address lies.
Marked(addr, len) ==
  LET page  == addr \div PAGE_SIZE
      count == (len + PAGE_SIZE - 1) \div PAGE_SIZE
  IN  page .. page + count - 1

pmm_mark_used(bitmap, addr, len) == bitmap \cup Marked(addr, len)

\* pmm_init: everything is used, then the usable regions are free
\* (pmm_mark_free), then what the kernel occupies is used.  Bits behind the
\* bitmap, of a framebuffer above all memory, are written to the memory behind
\* it, which the bitmap does not show: PmmWrites has those bytes.
pmm_init ==
  LET all   == 0 .. 8 * bitmap_size - 1
      free  == all \ UNION {Marked(r.base, Length(r)) : r \in usable_regions}
      low   == pmm_mark_used(free, 0, LOW)
      image == pmm_mark_used(low, PageDown(Kernel.start),
                             PageUp(Kernel.end) - PageDown(Kernel.start))
      map   == pmm_mark_used(image, bitmap_phys,
                             PageUp(bitmap_phys + bitmap_size) - bitmap_phys)
  IN  pmm_mark_used(map, Framebuffer.addr, Framebuffer.size) \cap all

Marks ==
  UNION {Marked(r.base, Length(r)) : r \in usable_regions}
    \cup Marked(0, LOW)
    \cup Marked(PageDown(Kernel.start), PageUp(Kernel.end) - PageDown(Kernel.start))
    \cup Marked(bitmap_phys, PageUp(bitmap_phys + bitmap_size) - bitmap_phys)
    \cup Marked(Framebuffer.addr, Framebuffer.size)

PmmWrites ==
  {bitmap_phys + b : b \in 0 .. bitmap_size - 1} \cup {bitmap_phys + f \div 8 : f \in Marks}

\* What pmm_init takes for granted: the boot loader's memory, which the code
\* reads until initrd_remap has copied the initrd, is not where it writes.
BootMemory == Module.start .. Module.end - 1 \cup Info.start .. Info.end - 1

ASSUME BootMemoryAssumption == PmmWrites \cap BootMemory = {}

\* pmm_alloc_frame: the lowest free frame, never frame 0; a panic when there
\* is none.
FreeFrames(m) == (1 .. total_pages - 1) \ m.bitmap

pmm_alloc_frame(m) ==
  IF FreeFrames(m) = {}
  THEN [m |-> [m EXCEPT !.panicked = TRUE], frame |-> 0]
  ELSE LET f == Min(FreeFrames(m)) IN
       [m |-> [m EXCEPT !.bitmap = @ \cup {f}], frame |-> f]

\* What follows a call that may have panicked, and so not have returned; and
\* what is done with a frame, unless there is none.
Then(m, Rest(_)) == IF m.panicked THEN m ELSE Rest(m)

WithFrame(m, Rest(_, _)) ==
  LET a == pmm_alloc_frame(m) IN IF a.m.panicked THEN a.m ELSE Rest(a.m, a.frame)

\* What pmm_init must keep out of circulation.  Of the boot loader's memory it
\* keeps nothing: see BootFramesAssumption.
KernelFrames ==
  Marked(0, LOW) \cup Marked(Kernel.start, Kernel.end - Kernel.start)
    \cup Marked(bitmap_phys, bitmap_size)
    \cup Marked(Framebuffer.addr, Framebuffer.size)

\* The frames that lie in usable memory from their first byte to their last.
Ram ==
  UNION {(PageUp(r.base) \div PAGE_SIZE) .. ((r.base + Length(r)) \div PAGE_SIZE) - 1 :
           r \in {e \in Range(MemoryMap) : e.usable /\ e.base < ADDRESSES}}

=============================================================================
