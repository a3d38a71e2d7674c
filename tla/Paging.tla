------------------------------- MODULE Paging --------------------------------
(***************************************************************************)
(* Page directories and tables (src/memory/paging.c) and the pages that    *)
(* the kernel maps for itself (src/memory/kheap.c, src/initrd/initrd.c,    *)
(* src/framebuffer/framebuffer.c, src/kernel.c).                           *)
(*                                                                         *)
(* A page of virtual memory is its number, so v \div ENTRIES is its slot   *)
(* in a directory and v % ENTRIES its entry in a table.  m.dir maps the    *)
(* frames that hold a directory to its slots, m.table the frames that hold *)
(* a table to its entries; 0 is "not present", and access flags are left   *)
(* out.  The recursive slot lets the kernel reach the tables of the loaded *)
(* directory, cr3, and of no other one.                                    *)
(***************************************************************************)
EXTENDS Pmm, Functions

CONSTANTS
  ENTRIES,             \* 1024: entries of a table
  SLOTS,               \* 1024: slots of a directory
  KERNEL_SLOT,         \* 768: the first slot of the kernel
  FB_START,            \* FRAMEBUFFER_OFFSET, as a page
  KHEAP_START,         \* KHEAP_VIRT_START, as a page
  KHEAP_INITIAL,       \* KHEAP_INITIAL_SIZE, in pages
  LARGE_START,         \* the first large_alloc_base, as a page
  RECURSIVE_SLOT,
  TEMP_PD_SLOT, TEMP_FRAME_SLOT, TEMP_PT_SLOT,
  kernel_pd,           \* the frame of page_directory, in the kernel's image
  page_table_low,      \* the frame of the table that boot.s fills
  InitrdPages,
  KSTACK_PAGES         \* KSTACK_SIZE in pages

Slot  == 0 .. SLOTS - 1
Index == 0 .. ENTRIES - 1
NoTable == [i \in Index |-> 0]

SlotOf(v)  == v \div ENTRIES
IndexOf(v) == v % ENTRIES

\* The frame that the directory pd maps page v to.
Mapped(m, pd, v) ==
  LET t == m.dir[pd][SlotOf(v)] IN IF t = 0 THEN 0 ELSE m.table[t][IndexOf(v)]

\* f, with the value x at i as well.
Added(f, i, x) == [j \in DOMAIN f \cup {i} |-> IF j = i THEN x ELSE f[j]]

\* The missing page table of v: a new frame, cleared, in the directory's slot.
WithTable(m, pd, v) ==
  IF m.dir[pd][SlotOf(v)] # 0 THEN m
  ELSE WithFrame(m, LAMBDA k, frame :
         [k EXCEPT !.dir[pd][SlotOf(v)] = frame,
                   !.table = Added(@, frame, NoTable)])

map_page(m, pd, phys, v) ==
  Then(WithTable(m, pd, v), LAMBDA k :
    [k EXCEPT !.table[k.dir[pd][SlotOf(v)]][IndexOf(v)] = phys])

\* A frame from pmm_alloc_frame mapped at page v.
MapNewFrame(m, pd, v) ==
  WithFrame(m, LAMBDA k, frame : map_page(k, pd, frame, v))

MapNewFrames(m, pd, first, n) ==
  LET after[i \in 0 .. n] ==
        IF i = 0 THEN m
        ELSE Then(after[i - 1], LAMBDA k : MapNewFrame(k, pd, first + i - 1))
  IN  after[n]

\* kalloc_pages: new frames at large_alloc_base, which moves on for good.
kalloc_pages(m, pd, n) ==
  Then(MapNewFrames(m, pd, m.large_alloc_base, n), LAMBDA k :
    [k EXCEPT !.large_alloc_base = @ + n])

\* A mutant of kheap_grow: kheap_end does not move.
kheap_grow_in_place(m, pd) == MapNewFrame(m, pd, m.kheap_end)

\* The part of kmalloc that makes the heap a page longer.
kheap_grow(m, pd) ==
  Then(MapNewFrame(m, pd, m.kheap_end), LAMBDA k : [k EXCEPT !.kheap_end = @ + 1])

-----------------------------------------------------------------------------
(***************************************************************************)
(* What kmain does to memory, in its order.                                *)
(***************************************************************************)
FbPages == (Framebuffer.size + PAGE_SIZE - 1) \div PAGE_SIZE

\* The layout of the kernel's part of virtual memory, in the order of its
\* addresses, and where the linker and boot.s put the first tables.
ASSUME PagingAssumption ==
  /\ ENTRIES \in Nat \ {0}
  /\ {KERNEL_SLOT, TEMP_PD_SLOT, TEMP_FRAME_SLOT, TEMP_PT_SLOT, RECURSIVE_SLOT, SLOTS} \subseteq Nat \ {0}
  /\ KERNEL_SLOT < TEMP_PD_SLOT /\ TEMP_PD_SLOT < TEMP_FRAME_SLOT
  /\ TEMP_FRAME_SLOT < TEMP_PT_SLOT /\ TEMP_PT_SLOT < RECURSIVE_SLOT /\ RECURSIVE_SLOT < SLOTS
  /\ {FB_START, KHEAP_START, KHEAP_INITIAL, LARGE_START, InitrdPages, KSTACK_PAGES} \subseteq Nat
  /\ (KERNEL_SLOT + 1) * ENTRIES <= FB_START /\ FB_START + FbPages <= KHEAP_START
  /\ KHEAP_START + KHEAP_INITIAL <= LARGE_START
  /\ 0 \notin Marked(Framebuffer.addr, Framebuffer.size)
  /\ kernel_pd # page_table_low
  /\ {kernel_pd, page_table_low} \subseteq
       Marked(Kernel.start, Kernel.end - Kernel.start)
         \ (Marked(Framebuffer.addr, Framebuffer.size) \cup {0})

\* boot.s: the first 4 MiB at address 0 and at the kernel's base;
\* paging_init: the recursive slot.
paging_init ==
  [bitmap   |-> pmm_init,
   panicked |-> FALSE,
   dir      |-> [d \in {kernel_pd} |->
                  [s \in Slot |-> CASE s \in {0, KERNEL_SLOT} -> page_table_low
                                    [] s = RECURSIVE_SLOT     -> kernel_pd
                                    [] OTHER                  -> 0]],
   table    |-> [t \in {page_table_low} |-> [i \in Index |-> i]],
   bytes    |-> <<>>,
   new      |-> <<>>,
   kheap_end        |-> KHEAP_START,
   large_alloc_base |-> LARGE_START]

kheap_init(m) ==
  [MapNewFrames(m, kernel_pd, KHEAP_START, KHEAP_INITIAL)
     EXCEPT !.kheap_end = KHEAP_START + KHEAP_INITIAL]

\* fb_init: the framebuffer itself and a back buffer of the same size.
MapFramebuffer(m) ==
  LET after[i \in 0 .. FbPages] ==
        IF i = 0 THEN m
        ELSE Then(after[i - 1], LAMBDA k :
               map_page(k, kernel_pd, Framebuffer.addr \div PAGE_SIZE + i - 1, FB_START + i - 1))
  IN  after[FbPages]

fb_init(m) ==
  Then(MapFramebuffer(m), LAMBDA k : kalloc_pages(k, kernel_pd, FbPages))

\* The copy of the initrd is left out: its content is the archive of Ustar.
initrd_remap(m) ==
  Then(m, LAMBDA k : kalloc_pages(k, kernel_pd, InitrdPages))

remove_identity_map(m) == [m EXCEPT !.dir[kernel_pd][0] = 0]

\* The stacks of the idle and the main thread.
kthread_create(m) ==
  Then(m, LAMBDA k : kalloc_pages(k, kernel_pd, KSTACK_PAGES))

\* Nothing reserves the frames of the boot loader's memory.  That none of them
\* is handed out before the initrd is copied is taken for granted.
ASSUME BootFramesAssumption ==
  LET taken == initrd_remap(fb_init(kheap_init(paging_init))).bitmap \ pmm_init
  IN  taken \cap {a \div PAGE_SIZE : a \in BootMemory} = {}

Booted ==
  kthread_create(kthread_create(
    remove_identity_map(initrd_remap(fb_init(kheap_init(paging_init))))))

=============================================================================
