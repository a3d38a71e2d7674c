--------------------------------- MODULE Vfs ---------------------------------
(***************************************************************************)
(* The file descriptors of src/vfs/vfs.c: a table for each process and one *)
(* for the kernel, the file_t blocks behind them, and the system calls of  *)
(* src/userspace/usyscall.c that use them.                                 *)
(*                                                                         *)
(* Interrupts are off in all of them, so each is one step, except a read   *)
(* of the terminal that blocks: it keeps its file_t while others run       *)
(* (module Tty has what happens meanwhile).                                *)
(*                                                                         *)
(* Programs use the descriptors they hold, or numbers they were never      *)
(* given.  A descriptor that a program has closed it does not use again:   *)
(* the kernel would not refuse it, as EntriesAreHeld shows, but work on a  *)
(* file_t that is freed, or is another descriptor's by then.               *)
(***************************************************************************)
EXTENDS VfsPath

CONSTANTS
  Process,
  KERNEL,       \* stands for curr_process = NULL
  File,         \* bound: the blocks that file_t may be allocated from
  NULL,
  MAX_FDS,
  Path,         \* the paths programs open
  Spelling,     \* paths of every spelling, for PathsLeadToTheirNames
  Lens,         \* the lengths they read and write with
  MaxOffset,    \* bound: how far a program moves in a device without an end
  WORD,         \* addresses are counted modulo this
  KERNEL_VIRT_BASE,
  UserMapped,   \* the user addresses that are mapped
  FramePointer  \* what a program has in ebp

ASSUME VfsAssumption ==
  /\ KERNEL \notin Process /\ NULL \notin File
  /\ MAX_FDS \in Nat \ {0}
  /\ Lens \subseteq Nat
  /\ MaxOffset \in Nat
  /\ UserMapped \subseteq 1 .. KERNEL_VIRT_BASE - 1 /\ KERNEL_VIRT_BASE < WORD
  /\ FramePointer \in UserMapped

\* The paths are shorter than the buffers, those that programs open are plain,
\* and what a path names is in directories that are archived.
ASSUME PathsAssumption ==
  /\ \A path \in Path \cup Spelling :
       /\ path \in Seq(STRING) /\ Len(path) < MAX_NAME
       /\ \A m \in Archived : Shown(m) = Names(path) => Reached(Names(path))
  /\ \A path \in Path : Plain(path)

Owner == Process \cup {KERNEL}
Fd    == 0..MAX_FDS - 1

VARIABLES
  booted,     \* kmain has handed over to the processes
  fds,        \* process_t.fds, and kernel_fd_table
  file,       \* the content of the file_t blocks that are in use
  free,       \* the blocks kmalloc may hand out
  held,       \* the descriptors a program was given and has not closed
  blocked,    \* the file_t a process is reading in a blocked tty_read
  halted      \* the kernel has panicked

vars == <<booted, fds, file, free, held, blocked, halted>>

NoFile == [vnode |-> NoNode, offset |-> 0, ref_count |-> 0]

\* The vnodes of the paths.
Resolved == [path \in Path |-> vfs_resolve(path)]

get_file(p, fd) == IF fd \in Fd THEN fds[p][fd] ELSE NULL

\* What a process does, it does after boot and while it is not blocked.
Runs(p) == booted /\ blocked[p] = NULL /\ ~halted

------------------------------------------------------------------------------
(***************************************************************************)
(* vfs_open: a new file_t in the first empty slot, or none when the table  *)
(* is full.                                                                *)
(***************************************************************************)
Empty(p) == {fd \in Fd : fds[p][fd] = NULL}

\* A slip: one too far.
alloc_fd_next(p) == Min(Empty(p)) + 1

alloc_fd(p) == Min(Empty(p))

Opened(node) == [vnode |-> node, offset |-> 0, ref_count |-> 1]

\* A slip: the kfree for the case of a full table is always done.
TakenAndFreed(f) == free

Taken(f) == free \ {f}

vfs_open(p, path) ==
  /\ Resolved[path] # NoNode
  /\ Empty(p) # {}
  /\ \E f \in free :
       /\ file' = [file EXCEPT ![f] = Opened(Resolved[path])]
       /\ free' = Taken(f)
       /\ fds' = [fds EXCEPT ![p][alloc_fd(p)] = f]

sys_open(p) ==
  /\ Runs(p)
  /\ \E path \in Path : vfs_open(p, path)
  /\ held' = [held EXCEPT ![p] = @ \cup {alloc_fd(p)}]
  /\ UNCHANGED <<booted, blocked, halted>>

(***************************************************************************)
(* vfs_close: the file_t loses a reference and with the last one its       *)
(* block; the slot that is emptied is the one of the kernel's table.       *)
(***************************************************************************)
sys_close(p) ==
  /\ Runs(p)
  /\ \E fd \in held[p] :
       LET f == get_file(p, fd) IN
       /\ f # NULL
       /\ IF file[f].ref_count = 1
          THEN /\ free' = free \cup {f}
               /\ file' = [file EXCEPT ![f] = NoFile]
          ELSE /\ file' = [file EXCEPT ![f].ref_count = @ - 1]
               /\ UNCHANGED free
       /\ fds' = [fds EXCEPT ![KERNEL][fd] = NULL]
       /\ held' = [held EXCEPT ![p] = @ \ {fd}]
  /\ UNCHANGED <<booted, blocked, halted>>

(***************************************************************************)
(* vfs_read and vfs_write: what the driver's operation returns.  An        *)
(* operation that is missing returns -1 and moves nothing.                 *)
(***************************************************************************)
Room(node, offset, len) ==
  IF offset >= Entry(node).size THEN 0 ELSE Minimum(len, Entry(node).size - offset)

ReadBytes(node, offset, len) ==
  CASE Entry(node).kind \in {"file", "fb"} -> Room(node, offset, len)
    [] Entry(node).kind = "zero"           -> len
    [] OTHER                               -> 0

WriteBytes(node, offset, len) ==
  CASE Entry(node).kind = "fb"                     -> Room(node, offset, len)
    [] Entry(node).kind \in {"zero", "null", "tty"} -> len
    [] OTHER                                       -> 0

InBounds(node, offset, n) ==
  Entry(node).kind \in {"zero", "null", "tty"} => offset + n <= MaxOffset

\* A slip: the position is set, not moved.
MovesTo(f, n) == file' = [file EXCEPT ![f].offset = n]

Moves(f, n) == file' = [file EXCEPT ![f].offset = @ + n]

sys_read(p) ==
  /\ Runs(p)
  /\ \E fd \in held[p], len \in Lens :
       LET f == get_file(p, fd) IN
       /\ f # NULL
       /\ Entry(file[f].vnode).kind # "tty"
       /\ InBounds(file[f].vnode, file[f].offset, len)
       /\ Moves(f, ReadBytes(file[f].vnode, file[f].offset, len))
  /\ UNCHANGED <<booted, fds, free, held, blocked, halted>>

sys_write(p) ==
  /\ Runs(p)
  /\ \E fd \in held[p], len \in Lens :
       LET f == get_file(p, fd) IN
       /\ f # NULL
       /\ InBounds(file[f].vnode, file[f].offset, len)
       /\ Moves(f, WriteBytes(file[f].vnode, file[f].offset, len))
  /\ UNCHANGED <<booted, fds, free, held, blocked, halted>>

\* vfs_read of the terminal, up to tty_read's hlt and from its return on.
tty_read_block(p) ==
  /\ Runs(p)
  /\ \E fd \in held[p] :
       LET f == get_file(p, fd) IN
       /\ f # NULL
       /\ Entry(file[f].vnode).kind = "tty"
       /\ blocked' = [blocked EXCEPT ![p] = f]
  /\ UNCHANGED <<booted, fds, file, free, held, halted>>

tty_read_return(p) ==
  /\ blocked[p] # NULL /\ ~halted
  /\ \E n \in Lens : /\ InBounds(file[blocked[p]].vnode, file[blocked[p]].offset, n)
                     /\ Moves(blocked[p], n)
  /\ blocked' = [blocked EXCEPT ![p] = NULL]
  /\ UNCHANGED <<booted, fds, free, held, halted>>

(***************************************************************************)
(* sys_readdir, called through libc's readdir: syscall4 puts name_max in   *)
(* esi, and the kernel takes it from ebp, where a program has its frame    *)
(* pointer.  The driver pads the name to name_max: on a page that is not   *)
(* mapped this is a fault in the kernel, and panic.  Otherwise, and when   *)
(* val_ptr refuses the buffer or there is no such entry, nothing changes.  *)
(* A first entry and one past the last stand for the indices.              *)
(***************************************************************************)
val_ptr(addr, len) ==
  /\ addr < KERNEL_VIRT_BASE
  /\ (addr + len) % WORD < KERNEL_VIRT_BASE
  /\ addr # 0

sys_readdir(p) ==
  /\ Runs(p)
  /\ \E fd \in held[p], index \in {0, Len(registry)}, name_out \in UserMapped :
       LET f        == get_file(p, fd)
           name_max == FramePointer
       IN  /\ f # NULL
           /\ halted' = /\ val_ptr(name_out, name_max)
                        /\ vfs_readdir(file[f].vnode, index, MAX_NAME) # <<>>
                        /\ ~(name_out .. name_out + name_max - 1 \subseteq UserMapped)
  /\ UNCHANGED <<booted, fds, file, free, held, blocked>>

(***************************************************************************)
(* The file side of sys_spawn: open, stat, read all of it and close, in    *)
(* the table of the parent, which keeps the slot.  Only the archive's      *)
(* files have a stat; anything else is closed again at once.               *)
(***************************************************************************)
LoadFrom(p, path) ==
  LET node == Resolved[path] IN
  /\ node # NoNode
  /\ Empty(p) # {}
  /\ \E f \in free :
       fds' = [fds EXCEPT ![p][alloc_fd(p)] = f, ![KERNEL][alloc_fd(p)] = NULL]

sys_spawn(p) ==
  /\ Runs(p)
  /\ \E path \in Path : LoadFrom(p, path)
  /\ UNCHANGED <<booted, file, free, held, blocked, halted>>

\* kmain does the same for init, with the kernel's table.
kmain ==
  /\ ~booted
  /\ \E path \in Path : LoadFrom(KERNEL, path)
  /\ booted' = TRUE
  /\ UNCHANGED <<file, free, held, blocked, halted>>

------------------------------------------------------------------------------
Init ==
  /\ booted = FALSE
  /\ fds = [p \in Owner |-> [fd \in Fd |-> NULL]]
  /\ file = [f \in File |-> NoFile]
  /\ free = File
  /\ held = [p \in Process |-> {}]
  /\ blocked = [p \in Process |-> NULL]
  /\ halted = FALSE

Next ==
  \/ kmain
  \/ \E p \in Process :
       \/ sys_open(p)
       \/ sys_close(p)
       \/ sys_read(p)
       \/ sys_write(p)
       \/ sys_readdir(p)
       \/ tty_read_block(p)
       \/ tty_read_return(p)
       \/ sys_spawn(p)

Spec == Init /\ [][Next]_vars

------------------------------------------------------------------------------
(***************************************************************************)
(* Properties.                                                             *)
(***************************************************************************)

\* The type invariant: a table refers to blocks of File or to nothing, and a
\* block in use has one reference, a free one at most none.
TypeOK ==
  /\ booted \in BOOLEAN /\ halted \in BOOLEAN
  /\ fds \in [Owner -> [Fd -> File \cup {NULL}]]
  /\ \A f \in File : /\ file[f].vnode \in Node \cup {NoNode}
                     /\ file[f].offset \in Nat
                     /\ file[f].ref_count = (IF f \in free THEN 0 ELSE 1)
  /\ free \subseteq File
  /\ held \in [Process -> SUBSET Fd]
  /\ blocked \in [Process -> File \cup {NULL}]

\* A descriptor that a program holds leads to a file_t in use, and no other
\* descriptor that is held, of whatever process, leads to the same one: so no
\* program's read moves another program's position.  The slots that vfs_close
\* leaves in the tables of processes are why this is not obvious: a block they
\* lead to is soon another descriptor's.
HeldFilesArePrivate ==
  /\ \A p \in Process, fd \in Fd :
       fd \in held[p] =>
         /\ fds[p][fd] \in File \ free
         /\ \A q \in Process, gd \in Fd :
              gd \in held[q] /\ fds[q][gd] = fds[p][fd] => p = q /\ fd = gd
  /\ \A p \in Process : blocked[p] # NULL => \E fd \in held[p] : fds[p][fd] = blocked[p]

\* The slots that are not empty are the descriptors that are open: what a
\* process has closed, it can open again.
EntriesAreHeld ==
  \A p \in Process : held[p] = {fd \in Fd : fds[p][fd] # NULL}

\* A program that reads a directory through libc gets its names, and goes on:
\* dirent.h's readdir(fd, index, name_out, name_max) is one of the system calls
\* that programs are given.
ReaddirReturns == ~halted

\* The paths that programs open lead to what they name.
Denoted == [path \in Path |-> Denotes(path)]
PathsResolve == \A path \in Path : Resolved[path] = Denoted[path]

\* A path leads to what it names in the tree, through any number of slashes
\* between the names or after the last one ("/dev/tty0/" is the terminal), as
\* long as it begins with the characters of the mount it belongs to.  It is
\* looked at once, when the file systems are mounted and kmain opens init.
PathsLeadToTheirNames ==
  ~booted => /\ \A path \in Spelling : Plain(path) => vfs_resolve(path) = Denotes(path)
             /\ PathsResolve

\* What readdir of a directory lists are the names of what is in it, each one
\* once and in order, cut to the caller's buffer and then no more; and what it
\* lists whole, finddir finds, with the kind and the size it was archived with.
\* The scan steps over the data of every member, so it must agree with tar on
\* where the next header is.
DirectoriesListTheirChildren ==
  ~booted => \A node \in {n \in Node : IsDir(n)} :
    /\ \A max \in {2, MAX_NAME}, i \in 0 .. Len(NamesIn(node)) :
         vfs_readdir(node, i, max) =
           IF i < Len(NamesIn(node)) THEN Cut(NamesIn(node)[i + 1], max) ELSE <<>>
    /\ \A name \in ToSet(NamesIn(node)) : finddir(node, name) # NoNode
    /\ \A m \in Archived :
         Entry(MemberNode(m)) = [kind |-> IF m.dir THEN "dir" ELSE "file", size |-> m.size]

(***************************************************************************)
(* Vfs implements FileApi for programs that use what they hold.            *)
(***************************************************************************)
Transferable(node, pos) ==
  {0} \cup IF Entry(node).kind \in {"file", "fb"}
           THEN {Minimum(len, Entry(node).size - pos) : len \in Lens}
           ELSE Lens

descBar ==
  [p \in Process |->
     [fd \in Fd |->
        IF fd \in held[p]
        THEN [vnode |-> file[fds[p][fd]].vnode, pos |-> file[fds[p][fd]].offset]
        ELSE [vnode |-> NoNode, pos |-> 0]]]

Api == INSTANCE FileApi
         WITH NoFile <- NoNode,
              Transfers <- Transferable, desc <- descBar

ImplementsFileApi == Api!Spec

==============================================================================
