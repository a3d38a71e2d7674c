---------------------------- MODULE AddressSpace -----------------------------
(***************************************************************************)
(* The address spaces of processes: uprocess_create_pagedir, the ELF       *)
(* loader uprocess_load and foreign_map_page of src/userspace/uprocess.c,  *)
(* driven by sys_spawn, by the growth of the kernel's heap in any system   *)
(* call, and by the load of cr3 in scheduler_switch.                       *)
(*                                                                         *)
(* System calls run with interrupts off, so each action is one step.       *)
(* Nothing is given back when a process ends: its directory, tables and    *)
(* frames stay as they are, and so does its place in proc.                 *)
(*                                                                         *)
(* A byte of a program's file is its offset in the file, from 1; a zeroed  *)
(* byte is 0.  m.bytes holds the content of the frames the loader fills.   *)
(***************************************************************************)
EXTENDS Paging

CONSTANTS
  USER_STACK_TOP,   \* as a page
  Program,          \* what can be spawned: a set of ELF images
  Init_program,     \* /bin/init/init
  MaxProc,          \* bound: processes ever made
  MaxHeap           \* bound: pages the heap may grow by

\* The fields of a segment are of 32 bits, and its part of the file is in memory
\* with the kernel.
InFile(seg) ==
  /\ seg.vaddr < ADDRESSES /\ seg.memsz < ADDRESSES
  /\ seg.filesz < ADDRESSES - KERNEL_SLOT * ENTRIES * PAGE_SIZE

ASSUME AddressSpaceAssumption ==
  /\ MaxProc \in Nat \ {0} /\ MaxHeap \in Nat
  /\ KHEAP_START + KHEAP_INITIAL + MaxHeap <= LARGE_START
  /\ LARGE_START + FbPages + InitrdPages + (2 + MaxProc) * KSTACK_PAGES <= TEMP_PD_SLOT * ENTRIES
  /\ USER_STACK_TOP \in Nat /\ 2 <= USER_STACK_TOP /\ USER_STACK_TOP <= KERNEL_SLOT * ENTRIES
  /\ Program \cup {Init_program} \subseteq
       [elf : BOOLEAN, segments : Seq([vaddr : Nat, filesz : Nat, memsz : Nat, offset : Nat])]
  /\ \A prog \in Program \cup {Init_program} : \A i \in DOMAIN prog.segments :
       InFile(prog.segments[i])

VARIABLES
  mem,     \* physical memory, page tables and the kernel's two break pointers
  proc,    \* the processes made so far: directory, program and kernel stack
  curr,    \* the process whose thread runs, 0 for a kernel thread
  cr3      \* the loaded directory

vars == <<mem, proc, curr, cr3>>

-----------------------------------------------------------------------------
\* foreign_map_page: as map_page, on a directory that is not loaded.  It is
\* reached through two slots of the loaded one, cleared on return.
foreign_map_page(m, cur, pd, phys, v) ==
  Then(map_page(m, pd, phys, v), LAMBDA k :
    [k EXCEPT !.dir[cur][TEMP_PD_SLOT] = 0, !.dir[cur][TEMP_PT_SLOT] = 0])

\* Mutants of NewDirectory: the recursive slot copied with the others; the
\* user's slots copied as well; the copy one slot short.
NewDirectorySharedSlot(from, pd) ==
  [s \in Slot |-> IF s < KERNEL_SLOT \/ s = TEMP_PD_SLOT THEN 0 ELSE from[s]]
NewDirectoryUncleared(from, pd) ==
  [s \in Slot |-> IF s = RECURSIVE_SLOT THEN pd ELSE IF s = TEMP_PD_SLOT THEN 0 ELSE from[s]]
NewDirectoryShort(from, pd) ==
  [s \in Slot |-> CASE s <= KERNEL_SLOT     -> 0
                    [] s = RECURSIVE_SLOT   -> pd
                    [] s = TEMP_PD_SLOT     -> 0
                    [] OTHER                -> from[s]]

\* uprocess_create_pagedir: no user pages, the kernel's slots as they are in
\* the loaded directory at this moment, and a recursive slot of its own.
NewDirectory(from, pd) ==
  [s \in Slot |-> CASE s < KERNEL_SLOT      -> 0
                    [] s = RECURSIVE_SLOT   -> pd
                    [] s = TEMP_PD_SLOT     -> 0
                    [] OTHER                -> from[s]]

uprocess_create_pagedir(m, cur) ==
  LET a    == pmm_alloc_frame(m)
      from == [m.dir[cur] EXCEPT ![TEMP_PD_SLOT] = a.frame]
  IN  IF a.m.panicked THEN a
      ELSE [a EXCEPT !.m.dir = Added([@ EXCEPT ![cur][TEMP_PD_SLOT] = 0],
                                     a.frame, NewDirectory(from, a.frame))]

-----------------------------------------------------------------------------
(***************************************************************************)
(* uprocess_load.                                                          *)
(***************************************************************************)
\* A sum of 32 bits.  A segment whose end wraps passes the check for the stack,
\* and has no pages, or the first one.
SegEnd(seg) == (seg.vaddr + seg.memsz) % ADDRESSES

\* The pages a segment is loaded to, in order.
SegPages(seg) ==
  LET first == seg.vaddr \div PAGE_SIZE
      last  == (SegEnd(seg) - 1) \div PAGE_SIZE
  IN  IF last < first THEN <<>> ELSE [i \in 1 .. last - first + 1 |-> first + i - 1]

\* A mutant of PageBytes: the copy not cut at the end of the file's part.
PageBytesUncut(seg, v) ==
  LET page_start == v * PAGE_SIZE
      copy_start == Max({page_start, seg.vaddr})
  IN  [b \in 0 .. PAGE_SIZE - 1 |->
         IF page_start + PAGE_SIZE <= seg.vaddr \/ page_start >= seg.vaddr + seg.filesz
              \/ b < copy_start - page_start
         THEN 0
         ELSE seg.offset + (copy_start - seg.vaddr) + (b - (copy_start - page_start))]

\* The bytes of one page: zeroed, then the file's part of it copied over.
PageBytes(seg, v) ==
  LET page_start == v * PAGE_SIZE
      page_end   == page_start + PAGE_SIZE
      file_start == seg.vaddr
      file_end   == seg.vaddr + seg.filesz
      copy_start == Max({page_start, file_start})
      copy_end   == Min({page_end, file_end})
      copied     == copy_start - page_start .. copy_end - page_start - 1
  IN  [b \in 0 .. PAGE_SIZE - 1 |->
         IF page_end <= file_start \/ page_start >= file_end \/ b \notin copied
         THEN 0
         ELSE seg.offset + (copy_start - file_start)
                + (b - (copy_start - page_start))]

\* One page of user memory: a new frame, mapped, with the given content.
UserPage(m, cur, pd, v, content) ==
  WithFrame(m, LAMBDA k, frame :
    Then(foreign_map_page(k, cur, pd, frame, v), LAMBDA j :
      [j EXCEPT !.bytes = Added(@, frame, content),
                !.dir[cur][TEMP_FRAME_SLOT] = 0]))

\* One page after the other of a segment.
LoadPages(m, cur, pd, seg) ==
  LET pages == SegPages(seg)
      after[i \in 0 .. Len(pages)] ==
        IF i = 0 THEN m
        ELSE Then(after[i - 1], LAMBDA k :
               UserPage(k, cur, pd, pages[i], PageBytes(seg, pages[i])))
  IN  after[Len(pages)]

LoadSegment(m, cur, pd, seg) ==
  IF seg.vaddr >= KERNEL_SLOT * ENTRIES * PAGE_SIZE
       \/ SegEnd(seg) > USER_STACK_TOP * PAGE_SIZE
  THEN [m EXCEPT !.panicked = TRUE]
  ELSE LoadPages(m, cur, pd, seg)

\* Two pages of stack.  Both frames are taken before either is mapped.  The
\* arguments in the upper page are left out.
ZeroPage == [b \in 0 .. PAGE_SIZE - 1 |-> 0]

LoadStack(m, cur, pd) ==
  WithFrame(m, LAMBDA k0, frame0 : WithFrame(k0, LAMBDA k1, frame1 :
    Then(foreign_map_page(k1, cur, pd, frame0, USER_STACK_TOP - 2), LAMBDA k2 :
      Then(foreign_map_page(k2, cur, pd, frame1, USER_STACK_TOP - 1), LAMBDA k3 :
        [k3 EXCEPT !.bytes = Added(Added(@, frame0, ZeroPage), frame1, ZeroPage)]))))

LoadSegments(m, cur, pd, segments) ==
  LET after[i \in 0 .. Len(segments)] ==
        IF i = 0 THEN m
        ELSE Then(after[i - 1], LAMBDA k : LoadSegment(k, cur, pd, segments[i]))
  IN  after[Len(segments)]

uprocess_load(m, cur, pd, prog) ==
  IF ~prog.elf THEN [m EXCEPT !.panicked = TRUE]
  ELSE Then(LoadSegments(m, cur, pd, prog.segments), LAMBDA k : LoadStack(k, cur, pd))

-----------------------------------------------------------------------------
\* kmalloc as far as memory goes: the heap may have to grow, by a page for a
\* request that fits into one.
kmalloc(m, cur, grows) == IF grows THEN kheap_grow(m, cur) ELSE m

\* The body that sys_spawn and kmain share: the buffer for the file, the
\* directory, the load, process_t and thread_t, and the kernel's stack, which
\* is mapped in the loaded directory, after the child's copy was made.  The new
\* process is in the field new; a panic on the way leaves it empty.
LoadedProcess(m, cur, pd, prog, grows) ==
  Then(uprocess_load(m, cur, pd, prog), LAMBDA k :
    Then(kmalloc(k, cur, grows), LAMBDA j :
      Then(kalloc_pages(j, cur, KSTACK_PAGES), LAMBDA i :
        [i EXCEPT !.new = <<[pd |-> pd, prog |-> prog, stack |-> j.large_alloc_base]>>])))

MakeProcess(m, cur, prog, buf_grows, p_grows) ==
  Then(kmalloc([m EXCEPT !.new = <<>>], cur, buf_grows), LAMBDA k :
    LET a == uprocess_create_pagedir(k, cur) IN
    Then(a.m, LAMBDA j : LoadedProcess(j, cur, a.frame, prog, p_grows)))

\* The state in which kmain leaves the machine: init made and main running.
Init ==
  /\ mem = MakeProcess(Booted, kernel_pd, Init_program, FALSE, FALSE)
  /\ proc = mem.new
  /\ curr = 0
  /\ cr3 = kernel_pd

sys_spawn(prog, buf_grows, p_grows) ==
  /\ ~mem.panicked
  /\ curr # 0
  /\ Len(proc) < MaxProc
  /\ mem.kheap_end < KHEAP_START + KHEAP_INITIAL + MaxHeap - 1
  /\ mem' = MakeProcess(mem, cr3, prog, buf_grows, p_grows)
  /\ proc' = proc \o mem'.new
  /\ UNCHANGED <<curr, cr3>>

\* A program whose file takes a buffer of over a page, which no block of the heap
\* has room for: kmalloc adds page after page, each a block of its own and too
\* small, until pmm_alloc_frame finds no frame and panics.  What has been mapped
\* until then is left out.
sys_spawn_unserved ==
  /\ ~mem.panicked
  /\ curr # 0
  /\ mem' = [mem EXCEPT !.panicked = TRUE]
  /\ UNCHANGED <<proc, curr, cr3>>

\* Any other system call that allocates: open, and the lookups under it.  The
\* walk over the heap's list reads the headers that lie in its pages; one in a
\* page that the loaded directory lacks is a page fault, and a panic.
HeapMissing(m, pd) ==
  \E v \in KHEAP_START .. m.kheap_end - 1 : Mapped(m, pd, v) = 0

sys_open ==
  /\ ~mem.panicked
  /\ curr # 0
  /\ \/ /\ mem.kheap_end < KHEAP_START + KHEAP_INITIAL + MaxHeap
        /\ mem' = kmalloc(mem, cr3, TRUE)
     \/ /\ HeapMissing(mem, cr3)
        /\ mem' = [mem EXCEPT !.panicked = TRUE]
  /\ UNCHANGED <<proc, curr, cr3>>

\* scheduler_switch from the current thread to next's.  A kernel thread has no
\* directory: it gets the kernel's if a process ran before.  The function then
\* returns on the old thread's kernel stack and the registers are popped from
\* the new one's; when either is not mapped in the directory that has just been
\* loaded the processor resets.  (The stacks of kernel threads are in all.)
StackMapped(m, p, pd) ==
  p = 0 \/ \A i \in 0 .. KSTACK_PAGES - 1 : Mapped(m, pd, proc[p].stack + i) # 0

scheduler_switch(next) ==
  /\ ~mem.panicked
  /\ next # curr
  /\ curr' = next
  /\ cr3' = IF next # 0 THEN proc[next].pd
            ELSE IF curr # 0 THEN kernel_pd
            ELSE cr3
  /\ mem' = [mem EXCEPT !.panicked = ~StackMapped(mem, curr, cr3') \/ ~StackMapped(mem, next, cr3')]
  /\ UNCHANGED proc

Next ==
  \/ \E prog \in Program, b, p \in BOOLEAN : sys_spawn(prog, b, p)
  \/ sys_spawn_unserved
  \/ sys_open
  \/ \E next \in {0} \cup DOMAIN proc : scheduler_switch(next)

Spec == Init /\ [][Next]_vars

-----------------------------------------------------------------------------
Frame == 0 .. total_pages - 1

\* Types of the state.  A directory's slots lead to tables, its recursive slot
\* to itself, and the temporary slots are empty between system calls.
TypeOK ==
  /\ mem.panicked \in BOOLEAN
  /\ mem.bitmap \subseteq 0 .. 8 * bitmap_size - 1
  /\ \A d \in DOMAIN mem.dir :
       /\ mem.dir[d][RECURSIVE_SLOT] = d
       /\ \A s \in {TEMP_PD_SLOT, TEMP_FRAME_SLOT, TEMP_PT_SLOT} : mem.dir[d][s] = 0
       /\ \A s \in Slot \ {RECURSIVE_SLOT} : mem.dir[d][s] \in {0} \cup DOMAIN mem.table
  /\ \A t \in DOMAIN mem.table : mem.table[t] \in [Index -> Nat]
  /\ \A f \in DOMAIN mem.bytes : f \in Frame
  /\ curr \in {0} \cup DOMAIN proc
  /\ cr3 = IF curr = 0 THEN kernel_pd ELSE proc[curr].pd

\* The entries of all tables that lead to a frame, the boot table's aside.
Leaf(x) == mem.table[x[1]][x[2]]
Leaves == {x \in (DOMAIN mem.table \ {page_table_low}) \X Index : Leaf(x) # 0}

\* Every frame that pmm_alloc_frame has handed out has one use: it is one
\* directory, or one table, or it backs one page.  It is RAM outside of what
\* the kernel occupies, and its bit stays set.  A table under the kernel's
\* base belongs to one directory: no process reaches the pages of another.
FramesHaveOneUse ==
  LET new_dirs   == DOMAIN mem.dir \ {kernel_pd}
      new_tables == DOMAIN mem.table \ {page_table_low}
      backed     == {Leaf(x) : x \in Leaves} \ Marked(Framebuffer.addr, Framebuffer.size)
      handed_out == new_dirs \cup new_tables \cup backed
  IN  /\ \A x, y \in Leaves : Leaf(x) = Leaf(y) => x = y
      /\ new_dirs \cap new_tables = {}
      /\ backed \cap (new_dirs \cup new_tables) = {}
      /\ handed_out \subseteq mem.bitmap \cap Ram
      /\ handed_out \cap KernelFrames = {}
      /\ \A d, e \in DOMAIN mem.dir : \A s \in 0 .. KERNEL_SLOT - 1, r \in Slot :
           mem.dir[d][s] # 0 /\ mem.dir[d][s] = mem.dir[e][r] => d = e /\ s = r

\* The kernel's part of virtual memory, and the directories that map a page.
KernelPages ==
  {v \in KERNEL_SLOT * ENTRIES .. SLOTS * ENTRIES - 1 :
     SlotOf(v) \notin {RECURSIVE_SLOT, TEMP_PD_SLOT, TEMP_FRAME_SLOT, TEMP_PT_SLOT}}
MappedIn(v) == {d \in DOMAIN mem.dir : Mapped(mem, d, v) # 0}

\* A page of the kernel never means two frames.  Directories are copies of one
\* another made at different times and tables are added to one of them alone,
\* so some processes may lack a page of the heap or of a stack; but all those
\* that have it have the same one, and each page below the two breaks has
\* been mapped.
KernelPagesAgree ==
  /\ \A v \in KernelPages : \A d, e \in MappedIn(v) : Mapped(mem, d, v) = Mapped(mem, e, v)
  /\ \A v \in (KHEAP_START .. mem.kheap_end - 1)
                \cup (LARGE_START .. mem.large_alloc_base - 1) : MappedIn(v) # {}

\* A page that the kernel maps in a slot that kmain had filled is there in
\* every process, however much later it was mapped and whoever mapped it: the
\* kernel's code, its heap and its stacks are reachable from all.
BootSlotsReachAll ==
  \A v \in KernelPages :
    mem.dir[kernel_pd][SlotOf(v)] # 0 => MappedIn(v) \in {{}, DOMAIN mem.dir}

\* The byte that a process finds at a user address.
ByteAt(pd, a) == mem.bytes[Mapped(mem, pd, a \div PAGE_SIZE)][a % PAGE_SIZE]

\* A process sees its program: in each segment the bytes of the file, then
\* zeros.  (A segment whose end wraps has no bytes: the loader lets it pass and
\* leaves it out.)  uprocess_load gives every segment frames of its own, so where two
\* segments meet in a page this holds for the later one.
ImageLoaded ==
  \A p \in DOMAIN proc :
    LET segs == proc[p].prog.segments IN
    \A i \in DOMAIN segs : \A a \in segs[i].vaddr .. SegEnd(segs[i]) - 1 :
      LET v == a \div PAGE_SIZE
          k == a - segs[i].vaddr
      IN  (\A j \in i + 1 .. Len(segs) : v \notin Range(SegPages(segs[j])))
            /\ v < USER_STACK_TOP - 2
          => ByteAt(proc[p].pd, a) = IF k < segs[i].filesz THEN segs[i].offset + k ELSE 0

=============================================================================
