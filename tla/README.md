# A TLA+ model of frog-kernel

frog-kernel is a 32-bit x86 kernel for one CPU: a multiboot image with paging,
a heap, a round-robin scheduler, processes loaded from an initrd, a small VFS
and drivers for the PIT, RTC, keyboard, mouse, framebuffer and serial line.
This directory holds TLA+ modules that model its parts, TLC configurations that
check them on small instances, and proofs that TLAPS checks.
All source paths below are relative to the repository's `src/` directory, the
kernel's C tree.

## 1. The system

### Components

| component | state | operations | what makes it correct |
|---|---|---|---|
| thread scheduler, `thread/kthread.c` | a circular list of `thread_t` with one entry per thread ever made, `curr_thread` | `scheduler_add`, `scheduler_next`, `scheduler_switch` | every READY thread gets the CPU again; the ring only holds live memory |
| interrupt path, `idt/` | `schedule_pending`, the handler table | `irq_common`, `isr_common`, `syscall` stubs | a switch happens only on the way out of an interrupt |
| processes, `userspace/uprocess.c` | `process_list`, `next_pid`, one `process_t` per process | `uprocess_create`, `uprocess_find`, `uprocess_remove` | the list holds each unreaped process once |
| system calls, `userspace/usyscall.c` | none of its own | `sys_spawn`, `sys_exit`, `sys_wait`, `sys_open`, ... | `wait` returns the exit code of a child that has exited, once; no wakeup is lost |
| kernel heap, `memory/kheap.c` | block list, `free_head`, `kheap_size` | `kmalloc`, `kfree`, growth by pages, `kalloc_pages` | allocations never overlap; freed space is found again |
| physical memory, `memory/pmm.c`, `mmap.c` | memory map, frame bitmap | mark, allocate, free (never called) | a frame has one owner |
| paging, `memory/paging.c` | page directories and tables | map, unmap (never called), copy of the kernel's part | a mapped page stays mapped to its frame in every address space |
| terminal, `devices/tty/tty.c` | ring of characters, `line_len` | `tty_input_push`, `tty_read`, `tty_write` | a reader gets whole lines, in order, and is woken when one ends |
| keyboard, `devices/keyboard/` | prefix and modifier flags, event buffer | interrupt handler | a key event reflects the keys that are down |
| mouse, `devices/mouse/` | packet cycle, position, buttons | interrupt handler | position inside the screen, one click per press |
| console, `framebuffer/` | cursor, colours, pixels | `console_putchar`, `console_toggle_cursor` | the cursor stays on the screen and never destroys text |
| clock, `devices/pit/`, `devices/rtc/` | tick count, calendar date | `pit_callback`, `rtc_read_time` | a valid date that advances a second at a time |
| VFS, `vfs/vfs.c` | mount table, one kernel descriptor table and one per process | `vfs_open`, `vfs_close`, `vfs_read`, `vfs_write`, `vfs_readdir`, `vfs_fstat` | a descriptor means one file until it is closed; paths lead to their names |
| devfs, initrdfs, null, zero, fb | device registry; the archive | lookup, listing, read, write | a member of the archive is found under its name, a directory lists what is in it, once |
| boot, `boot.s`, `kernel.c`, `gdt/` | how far `kmain` has come | `kmain` | each part is ready before an interrupt needs it; the main thread starts |
| printf, `misc/`, panic, serial, ksym | the buffers they are given | formatting, copying | texts are what the directives say; which of them stay inside the arrays; a copy leaves what was there before |
| user library and programs, `initrd/` of the repository | | the same formatting and copying, `_start`; any sequence of system calls | `main` gets its arguments; the programs are the environment of the models |

### Interaction

The only preemption is the PIT's: `pit_callback` sets `schedule_pending`, and
`irq_common` (`isr_stubs.s`) calls `scheduler_switch` before `iret`.
System calls enter through an interrupt gate and run with interrupts off, which
makes them atomic, with three exceptions: `sys_exit` and the blocking parts of
`sys_wait` and `tty_read` execute `sti; hlt`, and they return to their loop with
interrupts on.  Whatever those functions do after their loop (`sys_wait` removes
the child from `process_list` and frees it) can be preempted at any instruction,
and other processes' system calls run in between.  That is where the hard
behaviour of this kernel is:

- *interleavings* of a resumed `sys_wait` with spawns, exits and other waits on
  `process_list`, on the ring and inside `kfree`;
- *wakeups*: `sys_exit` sets the parent READY and RUNNING, `tty_input_push`
  the current thread if it is blocked; both race with the `hlt` loop of the one
  who waits;
- *reuse of memory*: nothing takes a thread out of the ring, but `sys_wait`
  frees it;
- *stale copies*: a process's page directory is a copy of its parent's, and page
  tables that the kernel adds later are added to one directory alone;
- *limits*: 256 descriptors, a ring of 256 characters, a keyboard buffer of 64
  events, a heap that grows a page at a time, frames that are never given back;
- *the boot*: `idt_init` enables interrupts with every line unmasked, and `kmain`
  sets up memory, screen, devices and threads while they come;
- *lost bytes*: the mouse's packets come a byte per interrupt;
- *partial failure*: an open that fails half-way, a lookup that finds nothing.

There are no crashes to recover from (nothing is persisted), no timeouts, polling
loops without a limit in drivers, and only one CPU.

The full list of hazards, with the line at which each one bites and the
properties about it, is `hazards` in `PROJECT.json`.

## 2. The modules

| module | models | how |
|---|---|---|
| `Kthread` | `thread/kthread.c`, the end of `irq_common`, `pit_callback`'s effect on scheduling | variables `tnext`, `tstate`, `curr`, `pending`; operators for one `scheduler_next` and the switch |
| `Uprocess` | `uprocess.c`, `sys_spawn`, `sys_exit`, `sys_wait` | extends `Kthread`; a `pc` per process for its place in the kernel |
| `ProcessApi` | what spawn, exit and wait promise a program | abstract: the state of each process and who may collect it |
| `Tty` | `tty_input_push`, `tty_read` and the keyboard's call of the former | extends `Kthread`; ring indices as in the code |
| `TtyLine` | what a terminal promises | abstract: a sequence of finished characters and the line being edited |
| `KHeap` | `kheap_init`, `kmalloc`, `kfree` | block headers as records in a function from addresses |
| `Allocator` | what an allocator promises | abstract: a set of disjoint ranges |
| `Ustar` | the scans of the archive in `initrd.c` and `initrdfs.c` | an image of blocks as tar writes it (external): headers with prefix, name, octal size and type, then data; `fullpath`, the step to the next header, the match, the children of a directory |
| `VfsPath` | `vfs_resolve`, the lookups and listings of initrdfs and devfs | over `Ustar`; paths as sequences of characters, over small alphabets |
| `Vfs` | descriptor tables, `sys_open`, `sys_close`, `sys_read`, `sys_write`, `sys_readdir` with its validation of the buffer, the part of `sys_spawn` that sets up descriptors | two tables as functions from descriptors to file blocks; addresses in units of 16 MiB |
| `FileApi` | what descriptors promise a program | abstract: one private table per process |
| `Pmm` | `mmap.c`, `pmm.c` | the bitmap as a set of frames; operators on a record `m` of the machine's memory |
| `Paging` | `paging.c`, `kalloc_pages`, growth of the heap, what `kmain` maps | extends `Pmm`; directories and tables as functions from frames |
| `AddressSpace` | `uprocess_create_pagedir`, `foreign_map_page`, `uprocess_load`, `cr3` in `scheduler_switch` | extends `Paging`; one action per system call and for the switch |
| `Clock` | `rtc_read_time`, the calendar of `pit_callback` | fields with their widths; the RTC's registers are external |
| `Console` | `console.c` | the screen as a grid of cells |
| `Keyboard` | `keyboard_callback`, `buf_push` | bytes on the way from the controller are external |
| `Mouse` | `mouse_callback` | packets and lost bytes are external |
| `Boot` | `kmain`, `mouse_init`'s handshake, `irq_handler`, what each handler needs, how a panic ends | the steps in their order against the three interrupt lines; the controller of keyboard and mouse is external |
| `Format` | `printf.c` and its copy in libc's `stdio.c` | one action per directive or character; fields and buffers as sequences of characters |
| `Bytes` | the functions of `mem.c`, `util.c` and libc's `string.c` that write memory | byte by byte over a memory of a few bytes, with every placement of source and target |
| `Arguments` | the strings of `sys_spawn`, the stack page of `uprocess_load`, `_start` of `crt0.c` | one page of bytes and words, with the offset that wraps |
| `MC*` | | constants for TLC; `MCDevices` composes the drivers, the boot and the libraries |
| `UprocessProofs`, `TtyProofs`, `KHeapProofs`, `VfsProofs`, `DriverProofs`, `BootProofs`, `LibraryProofs`, `AddressSpaceProofs` | | theorems about the module they extend; `DriverProofs` is about `Clock`, `Console`, `Keyboard` and `Mouse`, `LibraryProofs` about `Bytes`, `Arguments` and `Format` |

A definition whose comment calls it a slip is a mistake that the code could have
made; no specification uses it.  Each stands in front of the definition it is a
mistake of, and shows, put in that definition's place, which property fails.

### Conventions

- **Granularity.** Code that runs with interrupts off is one step.  Code that
  runs with interrupts on is one step per memory access that another thread can
  see; the registers between two accesses are variables (`reg`, `link`, `child`).
- **Compiler.** The default build is `DEBUG=1` with `-O0`, and the models read
  memory where the C source does.  At `-O2` the wait loop of `usyscall.c:286`
  has no memory clobber and the compiler may keep the state in a register; that
  build is not modelled.
- **Pointers.** A pid stands for the process, its `process_t` and its
  `thread_t`.  Freed blocks keep their content until `kmalloc` hands them out
  again (`tblock`, `pblock`).  The first use of a block that was handed out again
  sets `crashed` and ends the behaviour: what the machine does then is undefined.
- **Stacks.** `kfree(stack_base)` in `sys_wait` gets a pointer that is not a
  payload of the heap's list, and `kfree` returns without a change; stacks leak,
  and are left out.
- **Heap.** The field `addr` of a block is a function of its address and left out; `kheap_size` is the end of the last block.
  `Preemptible` says whether `kfree` may be interrupted (it may be when it runs
  in a resumed `sys_wait`); only then do headers that were merged away remain
  readable.
- **VFS.** Mount table, device registry and archive are constants: `kmain` fills
  them before the first process runs and nothing changes them later.  A panic
  sets `halted` and ends the behaviour.  Programs
  in the model use only descriptors they got from `open`; the two exceptions
  that the code allows (using a closed descriptor, and one of another process)
  are what the run `close` is about.
- **Memory.** A frame or page is its number, 0 means absent, access flags and the
  TLB are left out.  Addresses wrap where the code adds them (`SegEnd`).
  `pmm_mark_used` and `pmm_mark_free` have no bound: what they write behind the bitmap
  (`PmmWrites`) must not be the boot loader's module or tables
  (`BootMemoryAssumption`), and no frame of these may be handed out before the initrd
  has been copied (`BootFramesAssumption`); the code takes both for granted and
  reserves nothing.  A request for more than a page that no block has room for takes
  all frames and panics (`sys_spawn_unserved`); smaller ones need one page at most.  A panic ends a behaviour: `Then` and `WithFrame` of `Pmm`
  say what follows a call unless it panicked.  A page fault in the kernel, which
  `exception_handler` turns into a halt, sets `panicked` too.  The bytes of a
  program's file are their offsets, so that `ImageLoaded` can tell them apart.
- **Devices.** Each interrupt handler is one action.  What the hardware sends
  (RTC registers, scancodes, mouse packets) is marked external and is all that
  the hardware may send within the bounds, with interrupts as late as they like.
- **Archive.** What tar writes is external: a member's path split into prefix and
  name where it has to be, directories with a slash at the end, sizes in octal,
  data in whole blocks.  A name that fills its field has no NUL, and the code then
  reads on into the mode; the model has that.  The extension headers of GNU tar for
  names longer than both fields are left out.
- **Boot.** A step of `kmain` is one action, except where an interrupt in its
  middle finds something half done (`fb_init`, `mouse_init`, the hand-over to the
  main thread).  A fault in a handler ends in `panic`, and `fate` says what `panic`
  can do at that point.
- **Texts and memory.** A field, a buffer and a page are sequences or functions of
  characters and bytes, since the properties are about exactly these.  Numbers
  are 5 bits wide (`WORD`), and wrap, the buffer's size less 1 too.  `%f` gets multiples
  of 1/8.  The arrays in which `vsnprintf` builds numerals have `TMP` characters for
  integers (32 in the code), two more for pointers and `TMP_F` for doubles (64); the
  first access outside of them or of the buffer, and a conversion that is looked for
  behind the format's NUL, set `strayed` and end the text.  The kernel's
  functions and libc's are copies of one another; where they differ (`lib`),
  the model does.
- **Bounds.** `MaxPid`, `MaxPages`, `MaxOffset`, `File`, `MaxChildren`, `Sizes`,
  `Lens`, `Spelling`, `MaxProc`, `MaxHeap`, `MaxTicks`, `MaxWire`, `MaxHeld`, `MaxObuf`,
  `Directive`, `MaxChars`, `MaxDirectives`, `MemSize` and `Given` bound what the code leaves unbounded
  or large; each is a constant of its module.

## 3. The runs

| run | bounds | what it checks |
|---|---|---|
| `races` | 4 processes, 2 unreaped children each | `TypeOK`, `OffCpuIsReady`, `ListDescends`, `WaiterCanBeWoken`, `DeadStaysInExit`, `LosesOnlyTheChild` |
| `api` | 4 processes, 1 child at a time, with fairness | `OneCollector`, `WaitCollectsDead`, `RoundRobin`, `ImplementsApi` |
| `early` | 3 processes, 2 children | `WaitCollectsDead` is violated |
| `reuse` | 3 processes | `NeverCrashes` is violated |
| `tty` | 2 readers, ring of 3, 2 characters and newline | `TypeOK`, `LineLenExact`, `BlockedOnlyInHlt`, `ImplementsLine`, `LineIsDelivered` |
| `heap` | 2 pages of 6 units growing to 3, header of 2, requests 1, 3, 4, 6 | `ListTilesHeap`, `FreeHeadIsFirst`, `Coalesced`, `OnePageIsEnough`, `ImplementsAllocator` |
| `heap_race` | 1 page of 12, two threads, `kfree` preemptible | `ImplementsAllocator` is violated |
| `files` | 2 processes, 2 descriptors, 4 file blocks (symmetric), an archive of 10 members in blocks of 2 with names of 4, paths of 8 and sizes of 3 octal digits (`DIGITS`, 11 in the code), all paths of up to 5 characters | `TypeOK`, `HeldFilesArePrivate`, `PathsLeadToTheirNames`, `DirectoriesListTheirChildren`, `ImplementsFileApi` |
| `close` | as `files` | `EntriesAreHeld` is violated |
| `readdir` | as `files` | `ReaddirReturns` is violated |
| `memory` | pages of 3 bytes, tables of 8 entries, 62 frames, 4 processes, 3 pages of heap growth, a program with segments whose end wraps | `TypeOK`, `FramesHaveOneUse`, `KernelPagesAgree`, `BootSlotsReachAll`, `ImageLoaded` |
| `devices` | 36 boot times in 4 RTC modes, screen of 3 by 2, 3 keys down and 3 bytes on the way, pointer on 4 by 3; all of `kmain` with 3 bytes in the controller; texts of at most one directive and two characters in buffers of 0, 1, 5 and 12, numerals in arrays of 4 and 11, precisions up to 8; memory of 4 bytes; up to 3 arguments of up to 4 characters, with 2 and 3 allowed and a page of 14 | `KeepsTime`, `NothingBehindCursor`, `ModsAreHeld`, `FollowsPackets`, `PollsAreAnswered`, `FaultsOnlyOnEarlyKeys`, `EntryFrameLostOnlyAtHandover`, `FormatsAsSpecified`, `CopiesAsIfAtOnce`, `ArgumentsArrive` |

**races.** Four processes are the least with which a removal in progress, a
second removal next to it in the list and a spawn at its head can overlap.
The process list stays acyclic, a resumed `sys_wait` works on a child of its own
throughout, and nobody waits without a child that has still to exit.
`LosesOnlyTheChild` is about the processes in the list that no wait is done with:
a step takes none of them out but the child that the caller's `uprocess_remove` is
for, or a dead one, whatever spawns and other removals did between its loads and its
store.  There is one exception, `Overtaken`, and it is real: when the child was the
head, the store goes to `process_list` itself, and a process that was spawned after the
load is taken out with the child.  Inside the list nothing of the kind happens, because
the code walks with a pointer to the link and spawns only insert at the head.

**api.** For programs that have one child at a time the kernel's processes
implement `ProcessApi`, liveness included: a wait whose child has exited returns.
Parents may exit without waiting.  The restriction is needed: without it, `early`
shows that the exit of one child ends the wait for another and that `wait` then
frees a process that still runs.  `ProcessApi` does not promise that a wait for a
child that has been reaped fails, and the code does not keep that either: with one child
at a time, five processes and parents that exit before their children, two processes that
unlink neighbours of the list at once leave a freed process in it, and a
second `wait` for the same child delivers its code again (`Again`).  The run has four processes
and never takes that step; it was met while proving the refinement for all
numbers of processes.  `RoundRobin` says that no thread that may run is
passed over for ever, under the fairness below.

**reuse.** Even with the restrictions, a reaped thread stays in the ring and the
scheduler reads it after `kmalloc` has given its memory to someone else.  The
pass runs above are about the behaviour up to that point, `crashed` being a
state from which nothing more is claimed.

**tty.** A ring of three is the smallest in which head and tail wrap while a line
is open and in which backspace meets both the start of a line and the start of
the buffer.  Two readers compete for one line.

**heap.** With a header of 2 and pages of 6 the sizes reach each branch: exact
fit, a remainder too small to split, a remainder that splits, a request larger
than any block (growth), behind a free last block and behind an allocated one.

**heap_race.** `sys_wait` frees its child after it has blocked, with interrupts
on; another process's `kmalloc` in the middle of the merge gets a block that the
merge then swallows.

**files.** Two descriptors are the smallest table that can be full, partly full
and reused.  `PathsLeadToTheirNames` compares `vfs_resolve` and the file systems'
lookups with a reference definition (the longest mounted directory that contains
the path, then the rest of it) on all paths of the small alphabet that a program
can spell, in the initial state.  `DirectoriesListTheirChildren` does so for the
listings: by their index, each child of a directory comes once and nothing else
comes.  The archive has what makes a scan of it hard: sizes that fill no block, one,
or a part of the last one, a path that must be split between prefix and name, names
that fill their field, a file whose name begins with a directory's, and a directory
that a mount hides.

**readdir.** A program opens `/dev` and asks for its first entry, through libc.
The kernel takes the frame pointer for the size of the buffer, the check of the buffer
lets it pass, and the padding of the name reaches a page that is not mapped.
The other two runs of `MCVfs` allow this panic as an end of the behaviour.

**memory.** The machine is small enough for every spawn to need new tables, for the
heap and the kernel's stacks to cross into new directory slots, and for four
processes to exhaust the frames in the middle of any step.  Frames have one use,
processes see their own image and nobody else's pages, and no kernel page ever
means two frames.  What does *not* hold is that all processes see all kernel
pages; `BootSlotsReachAll` says how much does: pages in slots that were filled
before the first process was made.

**devices.** The parts that this run exercises share no state but the blinking
cursor and the echo, so a behaviour exercises one of them.  `KeepsTime` compares
the kernel's date with a day count
of the Gregorian calendar around each kind of month's and year's end.
`ModsAreHeld` and `FollowsPackets` compare what a driver believes with what was
really pressed or moved.  The boot is explored with every interrupt at every step:
a poll of `mouse_init` always has its answer, because no handler that would read it
is registered yet; no handler faults, except on a character key in one window; and the
frame that starts `main_entry` is lost in one window only.  `FormatsAsSpecified`
says for which sizes and directives `printf` leaves its arrays, and compares what it puts
out otherwise with the C standard's definition of a directive (sign, zeros, numeral, field),
with arrays that the longest numeral just fills and a precision can overrun;
`CopiesAsIfAtOnce` the loops over bytes with a copy in one step for every overlap, and
`ArgumentsArrive` what `main` gets with what the caller of `spawn` gave, and says when
the page is too small.  Three bytes in the controller let a key, an answer and a packet
queue up in any order; the page of 14 with words of 2 is full or overrun by the longest
arguments and not by the others.

### Findings

1. `usyscall.c:120`: `sys_exit` wakes its parent whichever child the parent waits
   for; the parent collects a running child (run `early`).
2. `usyscall.c:295`: `sys_wait` frees a thread that is still in the scheduler's
   ring (run `reuse`).
3. `kheap.c:138`: `kfree` is not safe against preemption, and `sys_wait` calls it
   with interrupts on (run `heap_race`).
4. `vfs.c:167`: `vfs_close` clears the kernel's table and not the process's
   (run `close`).
5. `usyscall.c:89`: `sys_readdir` takes the size of the buffer from `ebp`, and libc
   passes it in `esi` (run `readdir`).

Each is given with the line of the repository that says otherwise under `findings`.

Observations without a run of their own, because the models show them as states
that the properties allow for:

- The heap starts with exactly one page table's worth of pages
  (`KHEAP_INITIAL_SIZE` is 4 MiB), so its first growth adds a table to the current
  process's directory only.  Another process's next `kmalloc` may walk into the
  page and fault (`sys_open` of `AddressSpace`).  Likewise a child's kernel stack
  that needs a new table is mapped in its parent's directory after the child's
  copy was made, and the first switch to the child faults (`scheduler_switch`).
- A `uprocess_remove` whose child is the head stores to `process_list` what it has loaded
  before: a process spawned in between is lost from the list, and `wait` does not find
  it.  Two removals of neighbours at once can leave a collected process in the list
  (`uprocess.c:106`; `Overtaken` and `Removed` of `Uprocess`).
- A precision above about 30 overruns the array that `vsnprintf` builds a number in, one
  above about 50 that of a double (`printf.c:95,130,157,195`).  With size 0 the room
  `size - 1` wraps, and the text and its NUL go behind the buffer (`printf.c:5,217`).  A
  format that ends in `%` is read behind its NUL (`printf.c:66`).
- A segment whose `p_vaddr + p_memsz` wraps passes the checks of `uprocess_load` and loads
  nothing (`uprocess.c:155-174`).  Of two segments that share a page only the later
  one's bytes stay.
- Nothing reserves the memory in which the boot loader leaves the initrd before it is
  copied (`initrd.c:31`), nor keeps the marks of regions above `total_pages` inside the
  bitmap (`pmm.c:49,57`).
- `find_mount` takes `/devices` to devfs and `//dev/tty0` to the initrd (`vfs.c:43`); `Plain`
  rules such paths out.
- A request to `kmalloc` of more than a page for which no block has room maps page after
  page until the frames run out (`kheap.c:97`).
- A character that wraps on the last row is drawn below the screen, behind the
  back buffer, and is lost in the scroll (`console.c:71-82`); `cell` has a row for it.
- In 12-hour mode the RTC is misread at midnight and noon, and in BCD for all of
  the afternoon, since the p.m. bit is tested after the conversion
  (`rtc.c:35-45`); `RtcUnderstood` names the hours that are read correctly.
- Nothing reads the keyboard's event buffer: it fills after 63 events and stays so.
- A byte that arrives before `keyboard_init`, or before the mouse's handler is
  registered, stays in the controller, which raises no interrupt again until
  someone reads it: keyboard and mouse are silent from then on (`isr.c:137`,
  `IRQ1_12` of `Boot`).  Such a byte may also be taken for an answer to `mouse_init`.
- A panic before `fb_init` is silent, one in the middle of it clears a screen at
  address 0 and so writes over the kernel, and one between it and `console_init`
  faults in the first character it prints (`panic` of `Boot`).
- A tick between `curr_thread = main_thread` and the `iret` of `kmain` saves the boot stack
  in the main thread, whose entry frame is lost (`kernel.c:184`); a character key
  between `keyboard_init` and that assignment faults (`tty.c:37`).
- `printf` departs from the C standard in what `Departs` of `Format` lists: zeros in front of
  a sign, the zero flag with a precision, a zero with precision 0, a negative `*` width,
  decimals that are cut off, and a NUL by `%c` that ends the kernel's texts.
- `sys_spawn` lets arguments pass that need twice the page they are copied to, lets
  a string of `MAX_PATH` or more characters lose its NUL (`Arguments`), and keeps 8192
  bytes of strings in a kernel stack of 8192 bytes.
- The tick count has 32 bits.  When it wraps, after 49.7 days at 1000 Hz, the remainder
  by `PIT_HZ` starts anew and the clock gains 0.7 seconds; `Clock` stops before.
- `pmm_free_frame` panics unless the frame is free already (`pmm.c:90`); it has no
  caller.

### Fairness

Two assumptions, both about the machine.  The PIT interrupts for ever, and an
interrupt is taken as soon as interrupts are enabled: weak fairness of
`pit_callback`.  A thread that has the CPU executes instructions: strong fairness
of a thread's kernel steps, because a time slice is 10 ms and a thread that is
switched in again and again gets to execute between switches.  Nothing is assumed
of programs: a process may never make another system call, never wait and never
exit, and nobody has to press a key.

## 4. The proofs

Every theorem below is for all values of the constants that meet the named
assumptions of its module.  TLC evaluates these assumptions in the runs.  Some
theorems have hypotheses of their own:

- `MaxChildren = 1`, a program has one child at a time: without it the statement is
  false, as the run `early` shows.
- `~Preemptible`, nothing interrupts `kfree`.  All callers but a `sys_wait` that has
  blocked run with interrupts off; `heap_race` shows what the other one does.
- `RegionsAreWhole`, the usable regions of the memory map give `pmm_init` no frame that
  is only in part RAM: true if those above 1 MiB begin and end with a page, as firmware
  reports them.  Without it the allocator hands out such a frame.
- `~Booted.panicked`, `kmain` did not halt for want of memory: if it did, the heap's pages
  were not all mapped, and nothing runs.
- `InitStackInReach`, the kernel stack of init needs no page table of its own.  `kmain` maps
  it after init's directory was copied; on the machine whether it fits under the table
  of the pages before it depends on the sizes of framebuffer and initrd.  If it does
  not, the first switch to init faults.

**Processes** (`UprocessProofs`).  `Spec => []X` for `TypeOK`, `OffCpuIsReady`,
`ListDescends`, `LocalsOK`, `WaiterCanBeWoken` and `DeadStaysInExit`, for any number of
processes and children.  `LocalsOK`, what a resumed `sys_wait` holds in its registers,
is not checked by a run.  The
inductive invariant is the conjunction of these with `RingCloses`, and none is
inductive alone.  That the thread `scheduler_switch` picks is in the ring needs
`RingCloses` (the ring's successor function stays inside the set of created
threads).  That a resumed `sys_wait` writes to a link that exists needs
`LocalsOK`, and `LocalsOK` needs `ListDescends`: links only lead to older
processes, so a removal cannot bend the list back.  `WaiterCanBeWoken` needs
`DeadStaysInExit` (an exit is not repeated or undone) and `OffCpuIsReady` (the
waiter has blocked itself before anyone can exit).

`ListLosesOnlyTheChild` is the action property `LosesOnlyTheChild`, for any number of
children.  It needs `RemovalsOK` as well, which relates what a removal inside the list
has loaded to the list as it is now: its link still leads to its child, and behind the
`next` it holds come the same processes as behind the child's `next`, but for those that
other waits are done with.  With one child
at a time `Owned` adds who may free what: a process that is not dead has both its
blocks, a parent has at most one child that is not reaped, and from the moment a
wait has blocked its child is in nobody else's hands, and dead when the waiter
resumes.  From it follow `OneCollector` and `WaitCollectsDead`.
`ProcessesImplementApi` needs `Births` as well (a child that was created has had
its block, one that was not has no exit code): the initial states of `Uprocess` are
those of `ProcessApi`, and every action is a step of it or a stutter.  The process
list is not mapped; what the refinement needs of it is that what `uprocess_find`
returns is a child that was created, whatever the races have left in the list.

**Terminal** (`TtyProofs`).  `TypeOK`, `LineLenExact` and `BlockedOnlyInHlt`, for every
ring size of at least 1, any number of readers and any alphabet.  The invariant
adds that the ring of threads is the set of threads.  `LineLenExact` relates
`line_len` to the place of the last newline in a ring that wraps, and its proof is
about what one push, one erasure and one read do to that place.
`TtyImplementsLine` is the refinement: the mapping cuts the ring behind its last
newline, and the invariant says that this is `line_len` from the end.

**Heap** (`KHeapProofs`).  The list that `hdr` links from `head` is a recursive
function, and induction along it is beyond the prover.  `IsList` says the same of
the set of all headers instead: the heap starts with one, and each links to the one
that begins where its block ends, or to none at the end of the heap.  Each split,
merge and growth is then a lemma about one or two headers of the set.  `Inv` adds
that callers hold the blocks that are not free (`Holds`), where the first free block
is while a `kfree` is half-way (`HeadInv`), which neighbours it has still to merge
(`SeamInv`), and that what the search found is the first block with room
(`IsFirst`).  From it follow `ListTilesHeap`, `FreeHeadIsFirst`, `Coalesced`, the action
property `OnePageIsEnough` and the refinement of `Allocator`.

**Files** (`VfsProofs`).  `HeldFilesArePrivate` is inductive with the shape of the
tables and one more fact: a block is free exactly if its `ref_count` is 0, and the
count is never above 1.  A slot that `vfs_close` has left in a process's table is
never among the held ones; it may lead to a block that another process holds, and the
theorem does not say otherwise (run `close`).  `TypeOK` needs
besides that offsets and buffers stay in the file, that paths lead to nodes, and that
every node has a size, which the proofs below show.  `VfsImplementsFileApi` maps the
held slots of both tables to one private table for each process; a panic is a step
of the abstract machine.

**Paths and directories** (`VfsProofs`).  `PathsLeadToTheirNames` and
`DirectoriesListTheirChildren` are about constants, so an inductive invariant is not needed;
what is needed is induction over sequences, since paths, headers, archive and names are all
gone through from the front.  The library's induction theorems take a predicate, which no
backend can instantiate; `SequenceInduction` is the same for a set, and follows from
`Segment` (induction up to a number, for a set).  What a loop makes of a sequence is
`Result` of its step, and `ResultSteps` relates `Result` of a sequence and one element more to
`Result` of the sequence.  The argument then goes up in four parts:

- *names*: `NamesApart` (a slash between two paths divides their names) and
  `NamesOfJoined` (a path joined from names has these names), hence `JoinedInjective`:
  comparing paths as strings compares their names;
- *the archive*: `OctalIsRead` (a size that fits its field comes back), `FullPath` (the
  path put together from prefix and name is the one archived, but for a name that fills its
  field), `ImageIs` (where the headers are), and `ScanIs`: the scan reads every member, in
  order, and nothing else;
- *directories*: `ChildIs` (what begins with a directory's path and a slash, and has no other
  slash behind it, is in the directory) and `ChildrenAre`, for the listings, and `FindInArchive`
  for the lookup;
- *paths*: `MountIsFound` (for a plain path the comparison of characters in `find_mount` picks
  the mount that the names are under), `WalkInArchive` and `WalkInDevices` (name after name,
  a walk stays at what the names so far are the names of), and `PathResolves`.

They rest on two assumptions.  `FileSystemsAssumption` (`VfsPath`) says what `kmain` mounts, that names
are neither empty nor have slashes in them, that no two members go by one name, that every path is shorter than
its buffer of `MAX_NAME` bytes, and that tar could archive it: it refuses a path that cannot be split
between prefix and name, and a size with more than `DIGITS` octal digits.
`PathsAssumption` (`Vfs`) says that the paths that programs give are shorter than the buffers,
that those in `Path` are plain, and that what they name lies in directories that are archived
too: tar would take `b/p` without `b`, and the kernel, which looks each directory up, then
would not find it.  Both are evaluated in the runs of `MCVfs`.

**Drivers** (`DriverProofs`).  Keyboard: the invariant follows the keys that are down
from byte to byte along what is still in the controller (`ChainOK`), so that the
driver's prefix flag and modifiers agree with the byte it read last.  Mouse: the
bytes that are left of a packet and `mouse_cycle` add up to a packet, as long as
nothing is lost.  Console: everything behind the cursor is blank, row by row, the row
below the screen included.  Clock: `curr_time` is a date, and its day and second
are those of the boot plus the seconds counted since.  The lemmas are about the
calendar: a month is as long in the day count as `get_days_in_month` says, in every
year (`MonthLength`), the carries make the next second (`SecondPasses`) and the next
day (`DayCarries`), and `rtc_read_time` undoes what the RTC does to a time
(`RtcRound`).

**Boot** (`BootProofs`).  The invariant says which parts are ready from which step of
`kmain` on, and that a poll's answer is in the controller as long as its handler is
not registered.  From it the invariant `PollsAreAnswered` and the action properties
`FaultsOnlyOnEarlyKeys` and `EntryFrameLostOnlyAtHandover` follow, for any number of
bytes in the controller.

**Bytes** (`LibraryProofs`).  For each function, which bytes have been written so far
and, for `memmove`, that the bytes still to be read have not been: the direction it
chose keeps the two apart.

**Arguments** (`LibraryProofs`).  `ArgumentsArrive`, for any page of words, any limits on
the strings and any strings without a NUL of their own.  The inductive invariant
`ArgInv` says that, if no string is too long, each row of `kernel_strs` written so far holds its string, NUL
included, whatever lay there before (`Lies`), and that the page is the one that the
caller's strings make.  The two loops over the strings, which add up the bytes needed and
place the strings, go by a counter, so `Segment` (below) does the induction: the strings
lie one behind the other and apart from `argv`, and the bytes needed are within the page
exactly when `argv` has not run down to the first two words.

**Formatted output** (`LibraryProofs`).  `FormatsAsSpecified`, for integers of any width,
arrays that hold the numerals of that width, buffers of any size and any sequence of
directives and characters: an argument is of its
conversion's type (`IsDirective`), a double one that is counted in eighths and whose whole
part is an int.  The inductive invariant `FormatInv` says that only an item that `Strays`, or
size 0, leaves an array (`OnlyLongOnesStray`, from the length of each numeral, `NumeralFits`),
and that as long as no item departs
from the standard (`Departs`), the buffer holds the fields of the items, cut to its size.
An item adds one field: `FieldIs` says that what `vsnprintf` puts is the standard's field,
from one lemma per conversion (`SignedConverts`, `DoubleConverts` and so on) and one on the
padding (`Padded`); `CutPut` that a field put into a buffer which is full, or which it fills, is
the field cut.  Under the conversions are the numerals: `DigitsOf` finds the digits from
the last one on, by dividing the number itself, and `Numeral` defines each by its place.  That
they agree (`DigitsAre`) rests on how a numeral grows by a digit (`NumeralMore`), on quotients
of quotients (`NestedQuotient`) and powers, and on the least number at which the
recursion could differ; `FracDigits` does the same for decimals.

**Memory** (`AddressSpaceProofs`).  `TypeOK`, `FramesHaveOneUse`, `KernelPagesAgree`,
`BootSlotsReachAll` and `ImageLoaded`, for every memory map, every layout of the kernel's
part of virtual memory that `PagingAssumption` and `AddressSpaceAssumption` allow, and any
set of programs.  The inductive invariant `IInv` has five parts.  `MemOK` is about the
memory alone: what each frame that was handed out is for (`Good`: a directory, a table or
the frame of one page, with `Shape`, `DirsOK`, `TablesOK`, `LeavesOK`, `LeafOnce` and
`SlotOnce`), that two directories never have different frames for a page of the kernel
(`Agree`), that no page above the two breaks is mapped anywhere (`Laid`) and every page
below them is somewhere (`Filled`), and that the slots `kmain` filled are the same in
all directories (`BootShared`).  `Laid` is why `Agree` is kept: directories are copied at
different times and a table is added to one alone, so a page could get a second frame
in another directory, if the breaks did not only give out pages that none has.
`ProcOK`, `RunOK` and `BreaksOK` say that the processes have directories, that `cr3` is the
running one's, and how far the breaks can have come.  `Images` says that each process
still finds what it was loaded with, page by page; for it every lemma about an operation
also says which pages of users keep their frames and contents (`Keeps`).

The lemma on `map_page` (`MapPageMaps`) carries the argument, and the others are
sequences of it.  The loops over pages and segments are recursive functions with a
loop's counter as their argument; what holds after each turn follows by `Segment`,
induction over an initial segment of the naturals stated for a set instead of a
predicate, which is proved from the least element of a set.  The boot is such a
sequence too: `BootedUp` says what it leaves.

Every invariant and action property of the passing runs has a theorem, and so have the
refinements, as far as they speak of safety.

Only model-checked:

- liveness (`RoundRobin`, `LineIsDelivered`, the liveness part of `ImplementsApi`), which needs
  ENABLED and fairness, out of reach of the prover;
- what the runs with a violation show, which are counterexamples and not theorems.

## 5. Not modelled, and the plan

Left for later, in order:

1. `sys_exit` and `sys_wait` composed with the heap, so that `reuse` and
   `heap_race` are shown in one model;
2. the contents of the kernel's stacks, for what a spawn overwrites below its own;
3. `fstat`, `ioctl` and `time`, which copy what they read to the caller, and the
   validation of pointers in the other system calls.

`unmap_page`, `pmm_free_frame`, `vfs_unmount` and the functions that read the
keyboard's buffer have no caller and are left out.

Left out for good: drawing of pixels and glyphs, the functions that compare and search
strings, serial output, symbol lookup, the programming of PIC, GDT and gates, the
search for multiboot tags, and the tools that run at build
time; they keep no state that a property could be about, or are pure I/O.
