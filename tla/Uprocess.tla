------------------------------ MODULE Uprocess -------------------------------
(***************************************************************************)
(* User processes: src/userspace/uprocess.c and the spawn, exit and wait   *)
(* system calls of src/userspace/usyscall.c, on top of the scheduler of    *)
(* module Kthread and the interrupt return path of src/idt/isr_stubs.s.    *)
(*                                                                         *)
(* A system call enters through an interrupt gate, so it runs with         *)
(* interrupts off and is one step, up to the point where it executes sti:  *)
(* sys_exit for ever, sys_wait when the child is still alive.  From there  *)
(* every memory access that another process can observe is a step of its   *)
(* own, because a timer interrupt may switch threads between any two.      *)
(*                                                                         *)
(* A process stands for its pid, its process_t and its thread_t.  Freed    *)
(* blocks keep their content until kmalloc hands them out again; the model *)
(* follows the kernel up to the first use of a block that was handed out   *)
(* again (or of a NULL pointer) and stops there with "crashed" set: what   *)
(* the machine does from then on is undefined, a page fault and a panic in *)
(* most memory layouts.                                                    *)
(***************************************************************************)
EXTENDS Kthread, FiniteSets

CONSTANTS
  MaxChildren,    \* environment: unreaped children a process may have
  ReapBeforeExit, \* environment: TRUE when programs exit only after having
                  \* waited for each of their children
  ExitCodes       \* the arguments programs give to exit

ASSUME EnvironmentAssumption ==
  /\ MaxChildren \in Nat \ {0}
  /\ ReapBeforeExit \in BOOLEAN
  /\ ExitCodes \subseteq Int

VARIABLES
  next_pid,
  phead,      \* process_list
  pnext,      \* process_t.next
  pstate,     \* process_t.state
  parent,     \* process_t.parent
  exit_code,  \* process_t.exit_code
  tblock,     \* the heap block of the process's thread_t
  pblock,     \* the heap block of its process_t
  pc,         \* where the process's thread stands in the kernel
  child,      \* sys_wait's child
  link,       \* uprocess_remove's proc: NULL is &process_list, q is &q->next
  reg,        \* the register between a load and the next access
  status,     \* what sys_wait stored through its exit_code argument
  crashed

locals == <<child, link, reg, status>>
list   == <<phead, pnext>>
sched  == <<tnext, tstate, curr, pending>>
heap   == <<tblock, pblock>>
vars   == <<tnext, tstate, curr, pending, next_pid, phead, pnext, pstate,
            parent, exit_code, tblock, pblock, pc, child, link, reg, status,
            crashed>>

ProcessState == {"RUNNING", "WAITING", "DEAD"}
Block        == {"none", "used", "free", "reused"}

\* The steps of sys_wait after a blocked wait has been woken.
Removing == {"while", "compare", "load", "next", "store", "advance"}
Resumed     == {"collect", "free_thread", "free_process"} \cup Removing
Place    == {"user", "exit_hlt", "wait_hlt"} \cup Resumed

(***************************************************************************)
(* process_list.  Walk[i] is the i-th process from the head; new processes *)
(* go to the head, so pids descend along the list.                         *)
(***************************************************************************)
Walk[i \in 0..MaxPid - 1] ==
  IF i = 0 THEN phead
           ELSE IF Walk[i - 1] = NULL THEN NULL ELSE pnext[Walk[i - 1]]

Linked == {q \in Pid : \E i \in 0..MaxPid - 1 : q = Walk[i]}

\* The processes uprocess_find and uprocess_remove look at when asked for q.
Visited(q) == IF q \in Linked THEN {r \in Linked : q <= r} ELSE Linked

\* *proc, and what the list becomes when *proc is assigned.
Deref(l) == IF l = NULL THEN phead ELSE pnext[l]

Assign(l, v) ==
  IF l = NULL THEN phead' = v /\ UNCHANGED pnext
              ELSE pnext' = [pnext EXCEPT ![l] = v] /\ UNCHANGED phead

\* A slip: the two assignments swapped.
process_list_addSwapped(q) == phead' = q /\ pnext' = [pnext EXCEPT ![q] = q]

\* process_list_add: the new process goes to the head.
process_list_add(q) == pnext' = [pnext EXCEPT ![q] = phead] /\ phead' = q

\* The link the walk of uprocess_remove stops at when it finds q.
LinkOf(q) == IF \E l \in Linked : pnext[l] = q
             THEN CHOOSE l \in Linked : pnext[l] = q
             ELSE NULL

(***************************************************************************)
(* The heap, as far as processes can tell: a block is used, free, or free  *)
(* and then handed out to somebody else.                                   *)
(***************************************************************************)
kfree(block, q) == [block EXCEPT ![q] = IF @ = "used" THEN "free" ELSE @]

Free(block) == {q \in Pid : block[q] = "free"}

Reuse(block, S) == [q \in Pid |-> IF q \in S THEN "reused" ELSE block[q]]

Intact(procs, threads) ==
  /\ \A q \in procs \cap Pid   : pblock[q] # "reused"
  /\ \A t \in threads \cap Pid : tblock[t] # "reused"

Crash ==
  /\ crashed' = TRUE
  /\ UNCHANGED <<sched, next_pid, list, pstate, parent, exit_code, heap, pc,
                 locals>>

Runs(p, place) == ~crashed /\ curr = p /\ pc[p] = place

Goto(p, place) == pc' = [pc EXCEPT ![p] = place]

Unreaped(p) == {q \in Pid : q < next_pid /\ parent[q] = p /\ pblock[q] = "used"}

------------------------------------------------------------------------------
(***************************************************************************)
(* Interrupts.  The timer interrupt sets schedule_pending on every tenth   *)
(* tick; irq_common clears the flag and switches.  Any other interrupt     *)
(* switches when a system call has left the flag set.                      *)
(***************************************************************************)
irq_common ==
  /\ ~crashed
  /\ IF Intact({curr, scheduler_next(tstate)}, {curr} \cup Scanned(tstate))
     THEN /\ scheduler_switch(tstate)
          /\ pending' = FALSE
          /\ UNCHANGED <<tnext, next_pid, list, pstate, parent, exit_code,
                         heap, pc, locals, crashed>>
     ELSE Crash

pit_callback == irq_common

irq_other == pending /\ irq_common

(***************************************************************************)
(* uprocess_create: the new process and its thread; T and P are the freed  *)
(* blocks that the kmalloc calls of this system call have handed out.      *)
(***************************************************************************)
uprocess_create(q, T, P) ==
  /\ next_pid' = next_pid + 1
  /\ pstate' = [pstate EXCEPT ![q] = "RUNNING"]
  /\ exit_code' = [exit_code EXCEPT ![q] = 0]
  /\ tstate' = [tstate EXCEPT ![q] = "READY"]
  /\ process_list_add(q)
  /\ tblock' = [Reuse(tblock, T) EXCEPT ![q] = "used"]
  /\ pblock' = [Reuse(pblock, P) EXCEPT ![q] = "used"]

(***************************************************************************)
(* sys_spawn, with vfs_open, the kmalloc of the file's buffer and          *)
(* uprocess_create.  scheduler_add walks the whole ring.                   *)
(***************************************************************************)
sys_spawn(p) ==
  /\ Runs(p, "user")
  /\ next_pid <= MaxPid
  /\ Cardinality(Unreaped(p)) < MaxChildren
  /\ \E T \in SUBSET Free(tblock), P \in SUBSET Free(pblock) :
       IF \E t \in Ring \cap Pid : tblock[t] = "reused" \/ t \in T
       THEN Crash
       ELSE /\ uprocess_create(next_pid, T, P)
            /\ parent' = [parent EXCEPT ![next_pid] = p]
            /\ tnext' = scheduler_add(next_pid)
            /\ UNCHANGED <<curr, pending, pc, locals, crashed>>

(***************************************************************************)
(* Any other system call that allocates from the heap and keeps the block: *)
(* sys_open, and a sys_spawn that fails after its vfs_open.                *)
(***************************************************************************)
sys_open(p) ==
  /\ Runs(p, "user")
  /\ \E T \in SUBSET Free(tblock), P \in SUBSET Free(pblock) :
       /\ T \cup P # {}
       /\ tblock' = Reuse(tblock, T)
       /\ pblock' = Reuse(pblock, P)
  /\ UNCHANGED <<sched, next_pid, list, pstate, parent, exit_code, pc, locals,
                 crashed>>

(***************************************************************************)
(* sys_exit: mark the process and its thread dead and wake the parent if   *)
(* it waits, whichever child it waits for.  The thread halts for ever.     *)
(***************************************************************************)
\* A slip: the parent is woken without a look at its state.
WaitsAlways(q) == q # NULL

Waits(q) == q # NULL /\ pstate[q] = "WAITING"

\* A slip: the parent is not woken.
StatesAfterSilentExit(p) == [pstate EXCEPT ![p] = "DEAD"]

StatesAfterExit(p) ==
  [q \in Pid |-> IF q = p THEN "DEAD"
                 ELSE IF q = parent[p] /\ Waits(q) THEN "RUNNING"
                 ELSE pstate[q]]

ThreadsAfterExit(p) ==
  [t \in Thread |-> IF t = parent[p] /\ Waits(parent[p]) THEN "READY"
                    ELSE IF t = p THEN "DEAD"
                    ELSE tstate[t]]

sys_exit(p) ==
  /\ Runs(p, "user")
  /\ ReapBeforeExit => Unreaped(p) = {}
  /\ \E code \in ExitCodes :
       IF Intact({p, parent[p]}, {p} \cup {t \in {parent[p]} : Waits(t)})
       THEN /\ exit_code' = [exit_code EXCEPT ![p] = code]
            /\ pstate' = StatesAfterExit(p)
            /\ tstate' = ThreadsAfterExit(p)
            /\ pending' = TRUE
            /\ Goto(p, "exit_hlt")
            /\ UNCHANGED <<tnext, curr, next_pid, list, parent, heap, locals,
                           crashed>>
       ELSE Crash

(***************************************************************************)
(* sys_wait up to its sti.  uprocess_find and the comparison of the parent *)
(* guard it (a miss returns -1 and changes nothing); a child that is dead  *)
(* already is collected at once, with interrupts off.                      *)
(***************************************************************************)
\* A slip: the parent is not compared.
WaitableByAll(p, q) == q \in Linked

Waitable(p, q) == q \in Linked /\ parent[q] = p

WaitIntact(p, q) ==
  Intact({p, parent[q]} \cup Visited(q),
         IF Waitable(p, q) /\ pstate[q] = "DEAD" THEN {q} ELSE {p})

sys_wait_dead(p, q) ==
  /\ Runs(p, "user")
  /\ Waitable(p, q)
  /\ pstate[q] = "DEAD"
  /\ WaitIntact(p, q)
  /\ status' = [status EXCEPT ![p] = exit_code[q]]
  /\ Assign(LinkOf(q), pnext[q])
  /\ tblock' = kfree(tblock, q)
  /\ pblock' = kfree(pblock, q)
  /\ UNCHANGED <<sched, next_pid, pstate, parent, exit_code, pc, child, link,
                 reg, crashed>>

sys_wait_block(p, q) ==
  /\ Runs(p, "user")
  /\ Waitable(p, q)
  /\ pstate[q] # "DEAD"
  /\ WaitIntact(p, q)
  /\ child' = [child EXCEPT ![p] = q]
  /\ pstate' = [pstate EXCEPT ![p] = "WAITING"]
  /\ tstate' = [tstate EXCEPT ![p] = "BLOCKED"]
  /\ pending' = TRUE
  /\ Goto(p, "wait_hlt")
  /\ UNCHANGED <<tnext, curr, next_pid, list, parent, exit_code, heap, link,
                 reg, status, crashed>>

\* The walk of uprocess_find meets a reused block, or the parent pointer that
\* is compared names one (it may have become another process's block).
sys_wait_crash(p, q) ==
  /\ Runs(p, "user")
  /\ ~WaitIntact(p, q)
  /\ Crash

------------------------------------------------------------------------------
(***************************************************************************)
(* The rest of sys_wait, with interrupts on.  Deref(link[p]) is *proc.     *)
(***************************************************************************)
\* A slip: one hlt in place of the loop around it.
WokenByAnyInterrupt(p) == TRUE

Woken(p) == pstate[p] # "WAITING"

wait_woken(p) ==
  /\ Runs(p, "wait_hlt")
  /\ IF Intact({p}, {})
     THEN /\ Woken(p)
          /\ Goto(p, "collect")
          /\ UNCHANGED <<sched, next_pid, list, pstate, parent, exit_code,
                         heap, locals, crashed>>
     ELSE Crash

wait_collect(p) ==
  /\ Runs(p, "collect")
  /\ IF Intact({child[p]}, {})
     THEN /\ status' = [status EXCEPT ![p] = exit_code[child[p]]]
          /\ link' = [link EXCEPT ![p] = NULL]
          /\ Goto(p, "while")
          /\ UNCHANGED <<sched, next_pid, list, pstate, parent, exit_code,
                         heap, child, reg, crashed>>
     ELSE Crash

\* Leaving the walk: uprocess_remove returns.
Returned(p) == Goto(p, "free_thread") /\ UNCHANGED <<list, link, reg>>

remove_while(p) ==
  /\ Runs(p, "while")
  /\ IF Intact({link[p]}, {})
     THEN /\ IF Deref(link[p]) = NULL
             THEN Returned(p)
             ELSE Goto(p, "compare") /\ UNCHANGED <<list, link, reg>>
          /\ UNCHANGED <<sched, next_pid, pstate, parent, exit_code, heap,
                         child, status, crashed>>
     ELSE Crash

\* (*proc)->pid == pid; *proc is loaded again.
remove_compare(p) ==
  /\ Runs(p, "compare")
  /\ LET q == Deref(link[p]) IN
     IF q # NULL /\ Intact({link[p], q}, {})
     THEN /\ Goto(p, IF q = child[p] THEN "load" ELSE "advance")
          /\ UNCHANGED <<sched, next_pid, list, pstate, parent, exit_code,
                         heap, locals, crashed>>
     ELSE Crash

\* *proc = (*proc)->next: load *proc, load its next, store.
remove_load(p) ==
  /\ Runs(p, "load")
  /\ LET q == Deref(link[p]) IN
     IF q # NULL /\ Intact({link[p]}, {})
     THEN /\ reg' = [reg EXCEPT ![p] = q]
          /\ Goto(p, "next")
          /\ UNCHANGED <<sched, next_pid, list, pstate, parent, exit_code,
                         heap, child, link, status, crashed>>
     ELSE Crash

remove_next(p) ==
  /\ Runs(p, "next")
  /\ IF Intact({reg[p]}, {})
     THEN /\ reg' = [reg EXCEPT ![p] = pnext[reg[p]]]
          /\ Goto(p, "store")
          /\ UNCHANGED <<sched, next_pid, list, pstate, parent, exit_code,
                         heap, child, link, status, crashed>>
     ELSE Crash

\* A slip: the head is assigned, wherever in the list the process stands.
remove_storeToHead(p) ==
  /\ Runs(p, "store")
  /\ Intact({link[p]}, {})
  /\ Assign(NULL, reg[p])
  /\ Goto(p, "free_thread")
  /\ UNCHANGED <<sched, next_pid, pstate, parent, exit_code, heap, locals,
                 crashed>>

remove_store(p) ==
  /\ Runs(p, "store")
  /\ IF Intact({link[p]}, {})
     THEN /\ Assign(link[p], reg[p])
          /\ Goto(p, "free_thread")
          /\ UNCHANGED <<sched, next_pid, pstate, parent, exit_code, heap,
                         locals, crashed>>
     ELSE Crash

\* proc = &(*proc)->next
remove_advance(p) ==
  /\ Runs(p, "advance")
  /\ LET q == Deref(link[p]) IN
     IF q # NULL /\ Intact({link[p]}, {})
     THEN /\ link' = [link EXCEPT ![p] = q]
          /\ Goto(p, "while")
          /\ UNCHANGED <<sched, next_pid, list, pstate, parent, exit_code,
                         heap, child, reg, status, crashed>>
     ELSE Crash

wait_free_thread(p) ==
  /\ Runs(p, "free_thread")
  /\ IF Intact({child[p]}, {child[p]})
     THEN /\ tblock' = kfree(tblock, child[p])
          /\ Goto(p, "free_process")
          /\ UNCHANGED <<sched, next_pid, list, pstate, parent, exit_code,
                         pblock, locals, crashed>>
     ELSE Crash

wait_free_process(p) ==
  /\ Runs(p, "free_process")
  /\ IF Intact({child[p]}, {})
     THEN /\ pblock' = kfree(pblock, child[p])
          /\ Goto(p, "user")
          /\ UNCHANGED <<sched, next_pid, list, pstate, parent, exit_code,
                         tblock, locals, crashed>>
     ELSE Crash

------------------------------------------------------------------------------
\* kmain hands over to the main thread with process 1, init, in the ring.
Init ==
  /\ KthreadInit
  /\ next_pid = 2
  /\ phead = 1
  /\ pnext = [q \in Pid |-> NULL]
  /\ pstate = [q \in Pid |-> "RUNNING"]
  /\ parent = [q \in Pid |-> NULL]
  /\ exit_code = [q \in Pid |-> 0]
  /\ tblock = [q \in Pid |-> IF q = 1 THEN "used" ELSE "none"]
  /\ pblock = [q \in Pid |-> IF q = 1 THEN "used" ELSE "none"]
  /\ pc = [q \in Pid |-> "user"]
  /\ child = [q \in Pid |-> NULL]
  /\ link = [q \in Pid |-> NULL]
  /\ reg = [q \in Pid |-> NULL]
  /\ status = [q \in Pid |-> 0]
  /\ crashed = FALSE

UserCall(p) ==
  \/ sys_spawn(p)
  \/ sys_open(p)
  \/ sys_exit(p)
  \/ \E q \in Pid : \/ sys_wait_dead(p, q)
                    \/ sys_wait_block(p, q)
                    \/ sys_wait_crash(p, q)

KernelStep(p) ==
  \/ wait_woken(p)
  \/ wait_collect(p)
  \/ remove_while(p)
  \/ remove_compare(p)
  \/ remove_load(p)
  \/ remove_next(p)
  \/ remove_store(p)
  \/ remove_advance(p)
  \/ wait_free_thread(p)
  \/ wait_free_process(p)

Next ==
  \/ pit_callback
  \/ irq_other
  \/ \E p \in Pid : UserCall(p) \/ KernelStep(p)

Spec == Init /\ [][Next]_vars

------------------------------------------------------------------------------
(***************************************************************************)
(* Properties.                                                             *)
(***************************************************************************)

\* The type invariant of the scheduler's and the processes' state.
TypeOK ==
  /\ KthreadTypeOK
  /\ next_pid \in 2..MaxPid + 1
  /\ phead \in Pid \cup {NULL}
  /\ pnext \in [Pid -> Pid \cup {NULL}]
  /\ pstate \in [Pid -> ProcessState]
  /\ parent \in [Pid -> Pid \cup {NULL}]
  /\ exit_code \in [Pid -> Int]
  /\ tblock \in [Pid -> Block]
  /\ pblock \in [Pid -> Block]
  /\ pc \in [Pid -> Place]
  /\ child \in [Pid -> Pid \cup {NULL}]
  /\ link \in [Pid -> Pid \cup {NULL}]
  /\ reg \in [Pid -> Pid \cup {NULL}]
  /\ status \in [Pid -> Int]
  /\ crashed \in BOOLEAN

\* A thread that is off the CPU is always eligible: whatever state a system
\* call gave it, scheduler_switch left it READY.  This is why no wakeup that
\* comes while a thread is switched out can be lost.
OffCpuIsReady == \A t \in Ring \ {curr} : tstate[t] = "READY"

\* Links of process_list lead to older processes, whatever the removals and
\* insertions that interleave: the walks of uprocess_find, which run with
\* interrupts off, terminate.
ListDescends == \A q \in Pid : pnext[q] < q

\* What a preempted sys_wait keeps in its locals stays usable although other
\* processes change the list meanwhile: it has a child, and a register loaded
\* from a link still points further down the list than that link.  A process
\* not created yet has left no trace.
LocalsOK ==
  /\ phead < next_pid
  /\ \A p \in Pid :
       /\ child[p] < next_pid /\ link[p] < next_pid
       /\ pc[p] \in Resumed \cup {"wait_hlt"} => child[p] # NULL
       /\ pc[p] = "next" => reg[p] # NULL
       /\ pc[p] \in {"next", "store"} =>
            reg[p] < (IF link[p] = NULL THEN next_pid ELSE link[p])
       /\ next_pid <= p =>
            /\ pc[p] = "user" /\ tnext[p] = NULL
            /\ pnext[p] = NULL /\ parent[p] = NULL

\* No lost wakeup in sys_wait: a process that waits, waits for a child of its
\* own that has still to exit.
WaiterCanBeWoken ==
  \A p \in Pid : pstate[p] = "WAITING" =>
    /\ pc[p] = "wait_hlt"
    /\ parent[child[p]] = p
    /\ pstate[child[p]] # "DEAD"

\* A process that has exited never leaves sys_exit's halting loop, although
\* its thread is scheduled for ever; and DEAD and this loop go together.
DeadStaysInExit == \A p \in Pid : pstate[p] = "DEAD" <=> pc[p] = "exit_hlt"

\* The processes of process_list that no wait is done with: a waiter is
\* done with its child once its uprocess_remove has returned.
Removed(q) ==
  \/ pblock[q] # "used"
  \/ \E p \in Pid : child[p] = q /\ pc[p] \in {"free_thread", "free_process"}

Present == {q \in Linked : ~Removed(q)}

\* The store of a preempted uprocess_remove is about to go to process_list
\* itself, and since the two loads before it the head or the child's next has
\* changed: the store takes back what a spawn or a removal did meanwhile.
Overtaken(p) ==
  /\ pc[p] = "store" /\ link[p] = NULL
  /\ phead # child[p] \/ pnext[child[p]] # reg[p]

\* process_list loses nobody: a spawn adds the new process, and a wait takes
\* out the caller's own child and no other process that is still to be waited
\* for, although a removal is preempted between its loads and its store and
\* other removals change the links around it meanwhile.  The one exception is
\* a store to process_list that was overtaken: it can take out a process that
\* was spawned after the load.
LosesOnlyTheChild ==
  [][ \/ Present' = Present
      \/ next_pid \notin Present /\ Present' = Present \cup {next_pid}
      \/ \E q \in Pid : /\ parent[q] = curr
                        /\ (pstate[q] = "DEAD" \/ q = child[curr])
                        /\ Present' = Present \ {q}
      \/ curr \in Pid /\ Overtaken(curr) ]_vars

(***************************************************************************)
(* What holds when programs have one child at a time and wait for it       *)
(* before they spawn another; they may exit without having waited.         *)
(***************************************************************************)

\* Between its wakeup and its last kfree a waiter owns its child: the child
\* has exited, and its two blocks are freed once, by this waiter.
OneCollector ==
  \A p \in Pid : pc[p] \in Resumed =>
    /\ parent[child[p]] = p
    /\ pblock[child[p]] = "used"
    /\ tblock[child[p]] = "used" <=> pc[p] # "free_process"

\* wait returns only after the child it names has exited, and delivers the
\* code the child passed to exit: the loop of usyscall.c:286 is there for it.
WaitCollectsDead ==
  \A p \in Pid : pc[p] \in Resumed =>
    /\ pstate[child[p]] = "DEAD"
    /\ pc[p] # "collect" => status[p] = exit_code[child[p]]

\* The kernel never uses a freed block after its reuse, nor a NULL pointer.
NeverCrashes == ~crashed

(***************************************************************************)
(* Liveness.  The PIT interrupts for ever, and a thread that is switched   *)
(* to again and again executes instructions: a time slice is 10 ms.        *)
(* Programs owe nothing: they may run for ever without a system call.      *)
(***************************************************************************)
Fairness == WF_vars(pit_callback) /\ \A p \in Pid : SF_vars(KernelStep(p))

FairSpec == Spec /\ Fairness

\* No thread in the ring starves, whatever the others do.
RoundRobin == \A t \in Thread : t \in Ring ~> curr = t \/ crashed

(***************************************************************************)
(* Uprocess implements ProcessApi.  A child counts as reaped from the      *)
(* moment its parent has read the exit code.  ProcessApi is fair to waits: *)
(* a wait whose child has exited, blocked or in the middle of its removal, *)
(* returns to the program.                                                 *)
(***************************************************************************)
Collected(q) ==
  \/ pblock[q] \in {"free", "reused"}
  \/ \E p \in Pid : child[p] = q /\ pc[p] \in Resumed \ {"collect"}

lifeBar ==
  [q \in Pid |-> CASE q >= next_pid -> "unborn"
                   [] q < next_pid /\ Collected(q) -> "reaped"
                   [] q < next_pid /\ ~Collected(q) /\ pstate[q] = "DEAD" -> "zombie"
                   [] OTHER -> "running"]

waitsBar ==
  [p \in Pid |-> IF pc[p] \in Resumed \cup {"wait_hlt"} THEN child[p] ELSE NULL]

Api == INSTANCE ProcessApi
         WITH life <- lifeBar, code <- exit_code, waits <- waitsBar,
              got <- status, up <- ~crashed

ImplementsApi == Api!Spec

==============================================================================
