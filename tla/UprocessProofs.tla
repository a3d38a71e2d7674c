--------------------------- MODULE UprocessProofs ----------------------------
(***************************************************************************)
(* The invariants of Uprocess, for every number of processes and every     *)
(* behaviour of the programs.                                              *)
(***************************************************************************)
EXTENDS Uprocess, FiniteSetTheorems, WellFoundedInduction, TLAPS

\* The head is in the ring, and some thread leads back to it: scheduler_next
\* has a thread to fall back on and scheduler_add finds a tail.
RingCloses ==
  /\ thread_list_head \in Ring
  /\ \E t \in Thread : tnext[t] = thread_list_head

\* The inductive invariant.  OffCpuIsReady and RingCloses only need the types;
\* the others need each other: a stale register is harmless because links
\* descend, a waiter is woken because its locals are right.
Inv ==
  /\ TypeOK
  /\ RingCloses
  /\ OffCpuIsReady
  /\ ListDescends
  /\ LocalsOK
  /\ WaiterCanBeWoken
  /\ DeadStaysInExit

\* The constants, as every proof below uses them.
LEMMA Constants ==
  /\ MaxPid \in Nat /\ MaxPid > 0
  /\ ExitCodes \subseteq Int
  /\ Pid \subseteq Thread /\ Pid \subseteq Nat \ {NULL} /\ Thread \subseteq Nat \ {NULL}
  /\ Idle \in Thread /\ Main \in Thread /\ Idle # Main
  /\ Idle \notin Pid /\ Main \notin Pid /\ 1 \in Pid
BY MaxPidAssumption, EnvironmentAssumption
   DEF Pid, Thread, NULL, Idle, Main

\* kmain establishes the invariant.
LEMMA InitInv == Init => Inv
<1> SUFFICES ASSUME Init PROVE Inv
  OBVIOUS
<1> USE Constants DEF Init, KthreadInit, BootThread
<1>1. TypeOK
  <2>1. KthreadTypeOK
    <3>1. tnext \in [Thread -> Thread \cup {NULL}] /\ curr \in Ring
      BY DEF Ring, Thread, NULL, Idle, Main
    <3>2. tstate \in [Thread -> ThreadState]
      BY DEF ThreadState
    <3> QED
      BY <3>1, <3>2 DEF KthreadTypeOK
  <2>2. next_pid \in 2..MaxPid + 1 /\ phead \in Pid
    OBVIOUS
  <2>3. pc \in [Pid -> Place] /\ pstate \in [Pid -> ProcessState]
    BY DEF Place, ProcessState
  <2>4. tblock \in [Pid -> Block] /\ pblock \in [Pid -> Block]
    BY DEF Block
  <2>5. /\ pnext \in [Pid -> Pid \cup {NULL}] /\ parent \in [Pid -> Pid \cup {NULL}]
        /\ child \in [Pid -> Pid \cup {NULL}] /\ link \in [Pid -> Pid \cup {NULL}]
        /\ reg \in [Pid -> Pid \cup {NULL}]
    OBVIOUS
  <2>6. exit_code \in [Pid -> Int] /\ status \in [Pid -> Int]
    OBVIOUS
  <2>7. crashed \in BOOLEAN
    BY Zenon
  <2> QED
    BY <2>1, <2>2, <2>3, <2>4, <2>5, <2>6, <2>7 DEF TypeOK
<1>2. RingCloses
  BY DEF RingCloses, Ring, thread_list_head, Idle, Main, Thread, NULL
<1>3. OffCpuIsReady
  BY DEF OffCpuIsReady, Ring
<1>4. ListDescends
  BY DEF ListDescends, Pid, NULL
<1>5. LocalsOK
  <2>1. ASSUME NEW p \in Pid, next_pid <= p PROVE tnext[p] = NULL
    BY <2>1 DEF Pid, NULL, Thread, Idle, Main
  <2> QED
    BY <2>1 DEF LocalsOK, NULL, Resumed, Removing
<1>6. WaiterCanBeWoken
  BY DEF WaiterCanBeWoken
<1>7. DeadStaysInExit
  BY DEF DeadStaysInExit
<1> QED
  BY <1>1, <1>2, <1>3, <1>4, <1>5, <1>6, <1>7 DEF Inv

\* A state that differs in nothing the invariant reads.
LEMMA CrashInv == Inv /\ Crash => Inv'
BY DEF Inv, Crash, sched, list, heap, locals, TypeOK, KthreadTypeOK, Ring,
       RingCloses, OffCpuIsReady, ListDescends, LocalsOK, WaiterCanBeWoken,
       DeadStaysInExit

\* The scheduler always finds a thread of the ring.
LEMMA SchedulerNext == Inv => scheduler_next(tstate) \in Ring
<1> SUFFICES ASSUME Inv PROVE scheduler_next(tstate) \in Ring
  OBVIOUS
<1>1. Idle \in Ring
  BY DEF Inv, RingCloses, thread_list_head
<1> QED
  BY <1>1 DEF scheduler_next

\* An interrupt that switches threads.
LEMMA IrqInv == Inv /\ irq_common => Inv'
<1> SUFFICES ASSUME Inv, irq_common PROVE Inv'
  OBVIOUS
<1>1. CASE Crash
  BY <1>1, CrashInv
<1>2. CASE ~Crash
  <2> USE Constants, SchedulerNext
  <2>1. /\ scheduler_switch(tstate)
        /\ pending' = FALSE
        /\ UNCHANGED <<tnext, next_pid, list, pstate, parent, exit_code,
                       heap, pc, locals, crashed>>
    BY <1>2 DEF irq_common
  <2>2. \/ tstate' = tstate /\ curr' = curr
        \/ /\ scheduler_next(tstate) # curr
           /\ tstate' = [tstate EXCEPT ![curr] = "READY", ![scheduler_next(tstate)] = "RUNNING"]
           /\ curr' = scheduler_next(tstate)
    BY <2>1 DEF scheduler_switch, StateAfterSwitch
  <2>3. UNCHANGED <<tnext, next_pid, phead, pnext, pstate, parent, exit_code,
                    tblock, pblock, pc, child, link, reg, status, crashed>>
    BY <2>1 DEF list, heap, locals
  <2>4. TypeOK'
    <3>1. KthreadTypeOK'
      BY <2>1, <2>2, <2>3 DEF Inv, TypeOK, KthreadTypeOK, Ring, ThreadState
    <3> QED
      BY <2>3, <3>1 DEF Inv, TypeOK
  <2>5. RingCloses'
    BY <2>3 DEF Inv, RingCloses, Ring
  <2>6. OffCpuIsReady'
    BY <2>2, <2>3 DEF Inv, OffCpuIsReady, Ring, TypeOK, KthreadTypeOK
  <2>7. ListDescends' /\ LocalsOK' /\ WaiterCanBeWoken' /\ DeadStaysInExit'
    BY <2>3 DEF Inv, ListDescends, LocalsOK, WaiterCanBeWoken, DeadStaysInExit
  <2> QED
    BY <2>4, <2>5, <2>6, <2>7 DEF Inv
<1> QED
  BY <1>1, <1>2

\* sys_spawn: a new process at the head of process_list and a new thread at the
\* tail of the ring.
LEMMA SpawnInv == ASSUME NEW p \in Pid PROVE Inv /\ sys_spawn(p) => Inv'
<1> SUFFICES ASSUME Inv, sys_spawn(p) PROVE Inv'
  OBVIOUS
<1>1. CASE Crash
  BY <1>1, CrashInv
<1>2. CASE ~Crash
  <2> USE Constants
  <2> DEFINE q == next_pid
  <2>1. PICK T \in SUBSET Free(tblock), P \in SUBSET Free(pblock) :
          /\ next_pid' = next_pid + 1
          /\ pstate' = [pstate EXCEPT ![q] = "RUNNING"]
          /\ parent' = [parent EXCEPT ![q] = p]
          /\ exit_code' = [exit_code EXCEPT ![q] = 0]
          /\ process_list_add(q)
          /\ tnext' = scheduler_add(q)
          /\ tstate' = [tstate EXCEPT ![q] = "READY"]
          /\ tblock' = [Reuse(tblock, T) EXCEPT ![q] = "used"]
          /\ pblock' = [Reuse(pblock, P) EXCEPT ![q] = "used"]
          /\ UNCHANGED <<curr, pending, pc, locals, crashed>>
    BY <1>2 DEF sys_spawn, uprocess_create
  <2>2. /\ q \in Pid /\ q < next_pid' /\ next_pid' \in 2..MaxPid + 1
        /\ curr = p /\ pc[p] = "user"
    BY <2>1 DEF sys_spawn, Runs, Inv, TypeOK, Pid
  <2>3. /\ RingTail \in Ring
        /\ tnext' = [tnext EXCEPT ![RingTail] = q, ![q] = Idle]
    BY <2>1 DEF Inv, RingCloses, RingTail, Ring, scheduler_add, thread_list_head
  <2>4. Ring' = Ring \cup {q}
    <3>1. tnext \in [Thread -> Thread \cup {NULL}] /\ RingTail \in Thread
      BY <2>3 DEF Inv, TypeOK, KthreadTypeOK, Ring
    <3>2. q \in Thread /\ Idle # NULL /\ q # NULL
      BY <2>2 DEF Pid, Thread, Idle, NULL
    <3>3. ASSUME NEW t \in Thread
          PROVE  tnext'[t] # NULL <=> tnext[t] # NULL \/ t = q
      <4>1. tnext[RingTail] # NULL
        BY <2>3 DEF Ring
      <4>2. CASE t = q
        BY <2>3, <3>1, <3>2, <4>2
      <4>3. CASE t # q /\ t = RingTail
        BY <2>3, <3>1, <3>2, <4>1, <4>3
      <4>4. CASE t # q /\ t # RingTail
        BY <2>3, <3>1, <4>4
      <4> QED
        BY <4>2, <4>3, <4>4
    <3> QED
      BY <3>2, <3>3 DEF Ring
  <2>5. TypeOK'
    <3>1. KthreadTypeOK'
      BY <2>1, <2>2, <2>3, <2>4 DEF Inv, TypeOK, KthreadTypeOK, Ring, ThreadState
    <3>2. tblock' \in [Pid -> Block] /\ pblock' \in [Pid -> Block]
      BY <2>1, <2>2 DEF Inv, TypeOK, Block, Reuse
    <3>3. /\ phead' \in Pid \cup {NULL} /\ pnext' \in [Pid -> Pid \cup {NULL}]
          /\ parent' \in [Pid -> Pid \cup {NULL}] /\ exit_code' \in [Pid -> Int]
          /\ pstate' \in [Pid -> ProcessState]
      BY <2>1, <2>2 DEF Inv, TypeOK, process_list_add, ProcessState
    <3> QED
      BY <2>1, <2>2, <3>1, <3>2, <3>3 DEF Inv, TypeOK, locals
  <2>6. RingCloses'
    BY <2>2, <2>3, <2>4
    DEF Inv, RingCloses, TypeOK, KthreadTypeOK, thread_list_head
  <2>7. OffCpuIsReady'
    BY <2>1, <2>2, <2>4 DEF Inv, OffCpuIsReady, TypeOK, KthreadTypeOK
  <2>8. ListDescends'
    BY <2>1, <2>2 DEF Inv, ListDescends, LocalsOK, TypeOK, process_list_add
  <2>9. LocalsOK'
    <3>1. phead' < next_pid'
      BY <2>1, <2>2 DEF process_list_add
    <3>2. ASSUME NEW r \in Pid
          PROVE  /\ child'[r] < next_pid' /\ link'[r] < next_pid'
                 /\ pc'[r] \in Resumed \cup {"wait_hlt"} => child'[r] # NULL
                 /\ pc'[r] = "next" => reg'[r] # NULL
                 /\ pc'[r] \in {"next", "store"} =>
                      reg'[r] < (IF link'[r] = NULL THEN next_pid' ELSE link'[r])
      <4>1. /\ child'[r] = child[r] /\ reg'[r] = reg[r] /\ link'[r] = link[r]
            /\ pc'[r] = pc[r]
        BY <2>1 DEF locals
      <4>2. /\ child[r] \in Int /\ reg[r] \in Int /\ link[r] \in Int
            /\ next_pid \in Int
        BY <2>2 DEF Inv, TypeOK, NULL, Pid
      <4> QED
        BY <2>1, <4>1, <4>2 DEF Inv, LocalsOK
    <3>3. ASSUME NEW r \in Pid, next_pid' <= r
          PROVE  /\ pc'[r] = "user" /\ tnext'[r] = NULL
                 /\ pnext'[r] = NULL /\ parent'[r] = NULL
      <4>1. next_pid <= r /\ r # next_pid /\ r # RingTail
        BY <2>1, <2>2, <2>3, <3>3 DEF Inv, LocalsOK, Ring, Pid
      <4> QED
        BY <2>1, <2>2, <2>3, <4>1
        DEF Inv, LocalsOK, TypeOK, KthreadTypeOK, process_list_add, locals
    <3> QED
      BY <3>1, <3>2, <3>3 DEF LocalsOK
  <2>10. WaiterCanBeWoken'
    BY <2>1, <2>2
    DEF Inv, WaiterCanBeWoken, LocalsOK, TypeOK, locals, Resumed, Pid, NULL
  <2>11. DeadStaysInExit'
    BY <2>1, <2>2 DEF Inv, DeadStaysInExit, LocalsOK, TypeOK, Pid
  <2> QED
    BY <2>5, <2>6, <2>7, <2>8, <2>9, <2>10, <2>11 DEF Inv
<1> QED
  BY <1>1, <1>2

\* sys_open touches only the bookkeeping of reused blocks.
LEMMA OpenInv == ASSUME NEW p \in Pid PROVE Inv /\ sys_open(p) => Inv'
<1> SUFFICES ASSUME Inv, sys_open(p) PROVE Inv'
  OBVIOUS
<1>1. TypeOK'
  BY DEF Inv, TypeOK, KthreadTypeOK, Ring, sys_open, Reuse, Free, Block, sched,
         list, locals
<1>2. RingCloses' /\ OffCpuIsReady'
  BY DEF Inv, RingCloses, OffCpuIsReady, Ring, sys_open, sched
<1>3. ListDescends' /\ LocalsOK' /\ WaiterCanBeWoken' /\ DeadStaysInExit'
  BY DEF sched, Inv, ListDescends, LocalsOK, WaiterCanBeWoken, DeadStaysInExit,
         sys_open, list, locals
<1> QED
  BY <1>1, <1>2, <1>3 DEF Inv

\* sys_exit: the waiter of this child, if there is one, is its parent, so the
\* wakeup reaches it.
LEMMA ExitInv == ASSUME NEW p \in Pid PROVE Inv /\ sys_exit(p) => Inv'
<1> SUFFICES ASSUME Inv, sys_exit(p) PROVE Inv'
  OBVIOUS
<1>1. CASE Crash
  BY <1>1, CrashInv
<1>2. CASE ~Crash
  <2> USE Constants
  <2>1. PICK code \in ExitCodes :
          /\ exit_code' = [exit_code EXCEPT ![p] = code]
          /\ pstate' = StatesAfterExit(p)
          /\ tstate' = ThreadsAfterExit(p)
          /\ pending' = TRUE
          /\ Goto(p, "exit_hlt")
          /\ UNCHANGED <<tnext, curr, next_pid, list, parent, heap, locals,
                         crashed>>
    BY <1>2 DEF sys_exit
  <2>2. curr = p /\ pc[p] = "user"
    BY DEF sys_exit, Runs
  <2>3. pc' = [pc EXCEPT ![p] = "exit_hlt"]
    BY <2>1 DEF Goto
  <2>4. TypeOK'
    <3>1. KthreadTypeOK'
      BY <2>1 DEF Inv, TypeOK, KthreadTypeOK, Ring, ThreadsAfterExit, ThreadState
    <3>2. pstate' \in [Pid -> ProcessState]
      BY <2>1 DEF Inv, TypeOK, StatesAfterExit, ProcessState
    <3>3. exit_code' \in [Pid -> Int] /\ pc' \in [Pid -> Place]
      BY <2>1, <2>3 DEF Inv, TypeOK, Place
    <3> QED
      BY <2>1, <3>1, <3>2, <3>3 DEF Inv, TypeOK, list, heap, locals
  <2>5. RingCloses' /\ ListDescends'
    BY <2>1 DEF Inv, RingCloses, Ring, ListDescends, list
  <2>6. OffCpuIsReady'
    BY <2>1, <2>2
    DEF Inv, OffCpuIsReady, TypeOK, KthreadTypeOK, Ring, ThreadsAfterExit
  <2>7. LocalsOK'
    <3>1. ASSUME NEW r \in Pid
          PROVE  /\ pc'[r] \in Resumed \cup {"wait_hlt", "next", "store"} => pc'[r] = pc[r]
                 /\ next_pid <= r => r # p
      BY <2>2, <2>3
      DEF Inv, TypeOK, KthreadTypeOK, Ring, Resumed, Removing, LocalsOK
    <3> QED
      BY <2>1, <2>3, <3>1 DEF Inv, LocalsOK, TypeOK, list, locals
  <2>8. WaiterCanBeWoken'
    BY <2>1, <2>2, <2>3
    DEF Inv, WaiterCanBeWoken, LocalsOK, TypeOK, StatesAfterExit, Waits, locals,
        Pid, NULL
  <2>9. DeadStaysInExit'
    BY <2>1, <2>2, <2>3
    DEF Inv, DeadStaysInExit, WaiterCanBeWoken, TypeOK, StatesAfterExit, Waits
  <2> QED
    BY <2>4, <2>5, <2>6, <2>7, <2>8, <2>9 DEF Inv
<1> QED
  BY <1>1, <1>2

\* The steps of a preempted sys_wait change neither threads nor process states.
\* What is left to show is that the list and the locals stay in order.
LEMMA QuietInv ==
  ASSUME Inv, TypeOK', ListDescends', LocalsOK', DeadStaysInExit',
         UNCHANGED <<sched, next_pid, pstate, parent>>,
         \A p \in Pid : pstate[p] = "WAITING" =>
           pc'[p] = pc[p] /\ child'[p] = child[p]
  PROVE  Inv'
<1>1. RingCloses' /\ OffCpuIsReady'
  BY DEF Inv, RingCloses, OffCpuIsReady, Ring, sched
<1>2. WaiterCanBeWoken'
  BY DEF Inv, WaiterCanBeWoken
<1> QED
  BY <1>1, <1>2 DEF Inv

\* sys_wait for a child that is dead already.
LEMMA WaitDeadInv ==
  ASSUME NEW p \in Pid, NEW q \in Pid
  PROVE  Inv /\ sys_wait_dead(p, q) => Inv'
<1> SUFFICES ASSUME Inv, sys_wait_dead(p, q) PROVE Inv'
  OBVIOUS
<1> USE Constants
<1>1. /\ status' = [status EXCEPT ![p] = exit_code[q]]
      /\ tblock' = kfree(tblock, q) /\ pblock' = kfree(pblock, q)
      /\ UNCHANGED <<sched, next_pid, pstate, parent, exit_code, pc, child, link,
                     reg, crashed>>
  BY DEF sys_wait_dead
<1>2. /\ q < next_pid /\ pnext[q] < q /\ pnext[q] \in Pid \cup {NULL}
      /\ next_pid \in Int
  BY DEF sys_wait_dead, Waitable, Inv, LocalsOK, TypeOK, ListDescends, NULL, Pid
<1>3. LinkOf(q) # NULL => LinkOf(q) \in Pid /\ pnext[LinkOf(q)] = q
  BY DEF LinkOf, Linked
<1>4. \/ phead' = pnext[q] /\ pnext' = pnext
      \/ /\ LinkOf(q) \in Pid /\ pnext[LinkOf(q)] = q
         /\ pnext' = [pnext EXCEPT ![LinkOf(q)] = pnext[q]] /\ phead' = phead
  BY <1>3 DEF sys_wait_dead, Assign
<1>5. TypeOK'
  <2>1. KthreadTypeOK'
    BY <1>1 DEF Inv, TypeOK, KthreadTypeOK, Ring, sched
  <2>2. tblock' \in [Pid -> Block] /\ pblock' \in [Pid -> Block]
    BY <1>1 DEF Inv, TypeOK, kfree, Block
  <2>3. phead' \in Pid \cup {NULL} /\ pnext' \in [Pid -> Pid \cup {NULL}]
    BY <1>2, <1>4 DEF Inv, TypeOK
  <2> QED
    BY <1>1, <2>1, <2>2, <2>3 DEF Inv, TypeOK
<1>6. ListDescends'
  <2>1. \A r \in Pid : pnext[r] \in Int /\ r \in Int /\ pnext[r] < r
    BY DEF Inv, ListDescends, TypeOK, Pid, NULL
  <2>2. ASSUME NEW r \in Pid PROVE pnext'[r] \in {pnext[r], pnext[q]} /\
                                  (pnext'[r] = pnext[r] \/ pnext[r] = q)
    BY <1>4 DEF Inv, TypeOK
  <2> QED
    BY <1>2, <2>1, <2>2 DEF ListDescends
<1>7. LocalsOK'
  <2>1. phead' < next_pid'
    BY <1>1, <1>2, <1>4 DEF Inv, LocalsOK, TypeOK, Pid, NULL
  <2>2. ASSUME NEW r \in Pid, next_pid <= r PROVE pnext'[r] = NULL
    BY <1>2, <1>4, <2>2 DEF Inv, LocalsOK, TypeOK, Pid, NULL
  <2> QED
    BY <1>1, <2>1, <2>2 DEF Inv, LocalsOK, sched
<1>8. DeadStaysInExit'
  BY <1>1 DEF Inv, DeadStaysInExit
<1> QED
  BY <1>1, <1>5, <1>6, <1>7, <1>8, QuietInv

\* sys_wait for a child that runs: the caller becomes a waiter that can be woken.
LEMMA WaitBlockInv ==
  ASSUME NEW p \in Pid, NEW q \in Pid
  PROVE  Inv /\ sys_wait_block(p, q) => Inv'
<1> SUFFICES ASSUME Inv, sys_wait_block(p, q) PROVE Inv'
  OBVIOUS
<1> USE Constants
<1>1. /\ child' = [child EXCEPT ![p] = q]
      /\ pstate' = [pstate EXCEPT ![p] = "WAITING"]
      /\ tstate' = [tstate EXCEPT ![p] = "BLOCKED"]
      /\ pending' = TRUE
      /\ pc' = [pc EXCEPT ![p] = "wait_hlt"]
      /\ UNCHANGED <<tnext, curr, next_pid, list, parent, exit_code, heap, link,
                     reg, status, crashed>>
  BY DEF sys_wait_block, Goto
<1>2. /\ curr = p /\ pc[p] = "user" /\ parent[q] = p /\ pstate[q] # "DEAD"
      /\ q < next_pid /\ p < next_pid
  BY DEF sys_wait_block, Runs, Waitable, Inv, LocalsOK, TypeOK, KthreadTypeOK,
         Ring, NULL, Pid
<1>3. TypeOK'
  <2>1. KthreadTypeOK'
    BY <1>1 DEF Inv, TypeOK, KthreadTypeOK, Ring, ThreadState
  <2>2. pstate' \in [Pid -> ProcessState] /\ pc' \in [Pid -> Place]
    BY <1>1 DEF Inv, TypeOK, ProcessState, Place
  <2> QED
    BY <1>1, <2>1, <2>2 DEF Inv, TypeOK, list, heap
<1>4. RingCloses' /\ ListDescends'
  BY <1>1 DEF Inv, RingCloses, Ring, ListDescends, list
<1>5. OffCpuIsReady'
  BY <1>1, <1>2 DEF Inv, OffCpuIsReady, TypeOK, KthreadTypeOK, Ring
<1>6. LocalsOK'
  <2>1. \A r \in Pid : next_pid <= r => r # p
    BY <1>2 DEF Inv, TypeOK, Pid
  <2> QED
    BY <1>1, <1>2, <2>1 DEF Inv, LocalsOK, TypeOK, list
<1>7. WaiterCanBeWoken'
  BY <1>1, <1>2 DEF Inv, WaiterCanBeWoken, TypeOK
<1>8. DeadStaysInExit'
  BY <1>1, <1>2 DEF Inv, DeadStaysInExit, TypeOK
<1> QED
  BY <1>3, <1>4, <1>5, <1>6, <1>7, <1>8 DEF Inv

\* sys_wait's loop ends.
LEMMA WokenInv == ASSUME NEW p \in Pid PROVE Inv /\ wait_woken(p) => Inv'
<1> SUFFICES ASSUME Inv, wait_woken(p), ~Crash PROVE Inv'
  BY CrashInv
<1> USE Constants
<1>1. /\ pstate[p] # "WAITING" /\ pc[p] = "wait_hlt"
      /\ pc' = [pc EXCEPT ![p] = "collect"]
      /\ UNCHANGED <<sched, next_pid, list, pstate, parent, exit_code,
                     heap, locals, crashed>>
  BY DEF wait_woken, Woken, Runs, Goto
<1>2. TypeOK'
  BY <1>1 DEF Inv, TypeOK, KthreadTypeOK, Ring, sched, list, heap, locals,
              Place, Resumed
<1>3. ListDescends'
  BY <1>1 DEF Inv, ListDescends, list
<1>4. LocalsOK'
  BY <1>1 DEF Inv, LocalsOK, TypeOK, sched, list, locals, Resumed, Removing
<1>5. DeadStaysInExit'
  BY <1>1 DEF Inv, DeadStaysInExit, TypeOK
<1> QED
  BY <1>1, <1>2, <1>3, <1>4, <1>5, QuietInv DEF Inv, TypeOK, locals

\* sys_wait reads the exit code and enters uprocess_remove.
LEMMA CollectInv == ASSUME NEW p \in Pid PROVE Inv /\ wait_collect(p) => Inv'
<1> SUFFICES ASSUME Inv, wait_collect(p), ~Crash PROVE Inv'
  BY CrashInv
<1> USE Constants
<1>1. /\ pc[p] = "collect" /\ child[p] \in Pid
      /\ status' = [status EXCEPT ![p] = exit_code[child[p]]]
      /\ link' = [link EXCEPT ![p] = NULL]
      /\ pc' = [pc EXCEPT ![p] = "while"]
      /\ UNCHANGED <<sched, next_pid, list, pstate, parent, exit_code,
                     heap, child, reg, crashed>>
  BY DEF wait_collect, Runs, Goto, Inv, TypeOK, LocalsOK, Resumed
<1>2. TypeOK'
  BY <1>1 DEF Inv, TypeOK, KthreadTypeOK, Ring, sched, list, heap,
              Place, Resumed, Removing
<1>3. ListDescends'
  BY <1>1 DEF Inv, ListDescends, list
<1>4. LocalsOK'
  <2>1. pc[p] \in Resumed /\ NULL < next_pid /\ \A r \in Pid : next_pid <= r => r # p
    BY <1>1 DEF Resumed, Inv, LocalsOK, TypeOK, NULL
  <2> QED
    BY <1>1, <2>1 DEF Inv, LocalsOK, TypeOK, sched, list
<1>5. DeadStaysInExit'
  BY <1>1 DEF Inv, DeadStaysInExit, TypeOK
<1>6. \A r \in Pid : pstate[r] = "WAITING" => r # p
  BY <1>1 DEF Inv, WaiterCanBeWoken
<1> QED
  BY <1>1, <1>2, <1>3, <1>4, <1>5, <1>6, QuietInv DEF Inv, TypeOK

\* The steps of uprocess_remove that only move the walk: no link is written.
LEMMA WalkInv ==
  ASSUME NEW p \in Pid
  PROVE  Inv /\ (remove_while(p) \/ remove_compare(p) \/ remove_advance(p)) => Inv'
<1> SUFFICES ASSUME Inv, remove_while(p) \/ remove_compare(p) \/ remove_advance(p),
                    ~Crash
             PROVE  Inv'
  BY CrashInv
<1> USE Constants
<1>0. ASSUME Deref(link[p]) # NULL PROVE Deref(link[p]) \in Pid /\ Deref(link[p]) < next_pid
  <2>1. link[p] \in Pid => pnext[link[p]] < link[p] /\ link[p] < next_pid
    BY DEF Inv, ListDescends, LocalsOK
  <2>2. phead < next_pid /\ phead \in Pid \cup {NULL} /\ next_pid \in Int
    BY DEF Inv, LocalsOK, TypeOK
  <2>3. link[p] = NULL \/ (link[p] \in Pid /\ pnext[link[p]] \in Pid \cup {NULL})
    BY DEF Inv, TypeOK
  <2> QED
    BY <1>0, <2>1, <2>2, <2>3 DEF Deref, Pid, NULL
<1>1. /\ pc[p] \in {"while", "compare", "advance"}
      /\ \/ /\ link' = link
            /\ \E place \in {"while", "free_thread", "compare", "load", "advance"} :
                 pc' = [pc EXCEPT ![p] = place]
         \/ /\ \E l \in Pid : l < next_pid /\ link' = [link EXCEPT ![p] = l]
            /\ pc' = [pc EXCEPT ![p] = "while"]
      /\ UNCHANGED <<sched, next_pid, list, pstate, parent, exit_code, heap,
                     child, reg, status, crashed>>
  BY <1>0 DEF remove_while, remove_compare, remove_advance, Returned, Runs, Goto,
              locals
<1>2. TypeOK'
  BY <1>1 DEF Inv, TypeOK, KthreadTypeOK, Ring, sched, list, heap,
              Place, Resumed, Removing
<1>3. ListDescends'
  BY <1>1 DEF Inv, ListDescends, list
<1>4. LocalsOK'
  BY <1>1 DEF Inv, LocalsOK, TypeOK, sched, list, Resumed, Removing
<1>5. DeadStaysInExit'
  BY <1>1 DEF Inv, DeadStaysInExit, TypeOK
<1>6. \A r \in Pid : pstate[r] = "WAITING" => r # p
  BY <1>1 DEF Inv, WaiterCanBeWoken
<1> QED
  BY <1>1, <1>2, <1>3, <1>4, <1>5, <1>6, QuietInv DEF Inv, TypeOK

\* The loads of uprocess_remove: the register descends below the link.
LEMMA LoadInv ==
  ASSUME NEW p \in Pid PROVE Inv /\ (remove_load(p) \/ remove_next(p)) => Inv'
<1> SUFFICES ASSUME Inv, remove_load(p) \/ remove_next(p), ~Crash PROVE Inv'
  BY CrashInv
<1> USE Constants
<1>1. \/ /\ pc[p] = "load" /\ Deref(link[p]) \in Pid
         /\ reg' = [reg EXCEPT ![p] = Deref(link[p])]
         /\ pc' = [pc EXCEPT ![p] = "next"]
      \/ /\ pc[p] = "next" /\ reg[p] \in Pid
         /\ reg' = [reg EXCEPT ![p] = pnext[reg[p]]]
         /\ pc' = [pc EXCEPT ![p] = "store"]
  <2>1. CASE remove_load(p)
    <3>1. /\ pc[p] = "load" /\ Deref(link[p]) # NULL
          /\ reg' = [reg EXCEPT ![p] = Deref(link[p])]
          /\ pc' = [pc EXCEPT ![p] = "next"]
      BY <2>1 DEF remove_load, Runs, Goto
    <3>2. /\ phead \in Pid \cup {NULL} /\ link[p] \in Pid \cup {NULL}
          /\ link[p] \in Pid => pnext[link[p]] \in Pid \cup {NULL}
      BY DEF Inv, TypeOK
    <3>3. Deref(link[p]) \in Pid \cup {NULL}
      BY <3>2 DEF Deref
    <3> QED
      BY <3>1, <3>3
  <2>2. CASE remove_next(p)
    <3>1. /\ pc[p] = "next"
          /\ reg' = [reg EXCEPT ![p] = pnext[reg[p]]]
          /\ pc' = [pc EXCEPT ![p] = "store"]
      BY <2>2 DEF remove_next, Runs, Goto
    <3>2. reg[p] # NULL
      BY <3>1 DEF Inv, LocalsOK
    <3>3. reg[p] \in Pid \cup {NULL}
      BY DEF Inv, TypeOK
    <3> QED
      BY <3>1, <3>2, <3>3
  <2> QED
    BY <2>1, <2>2
<1>2. UNCHANGED <<sched, next_pid, list, pstate, parent, exit_code, heap,
                  child, link, status, crashed>>
  BY DEF remove_load, remove_next
<1>3. reg'[p] \in Pid \cup {NULL} /\ reg' = [reg EXCEPT ![p] = reg'[p]]
  <2>1. /\ reg \in [Pid -> Pid \cup {NULL}]
        /\ \A r \in Pid : pnext[r] \in Pid \cup {NULL}
    BY DEF Inv, TypeOK
  <2>2. PICK v \in Pid \cup {NULL} : reg' = [reg EXCEPT ![p] = v]
    BY <1>1, <2>1
  <2>3. reg'[p] = v
    BY <2>1, <2>2
  <2> QED
    BY <2>2, <2>3
<1>4. TypeOK'
  BY <1>1, <1>2, <1>3 DEF Inv, TypeOK, KthreadTypeOK, Ring, sched, list, heap,
              Place, Resumed, Removing
<1>5. ListDescends'
  BY <1>2 DEF Inv, ListDescends, list
<1>6. LocalsOK'
  <2>1. reg'[p] < (IF link[p] = NULL THEN next_pid ELSE link[p])
    <3>1. CASE pc[p] = "load"
      <4>1. reg'[p] = Deref(link[p])
        BY <1>1, <3>1 DEF Inv, TypeOK
      <4>2. phead < next_pid /\ link[p] \in Pid \cup {NULL}
        BY DEF Inv, LocalsOK, TypeOK
      <4>3. link[p] \in Pid => pnext[link[p]] < link[p]
        BY DEF Inv, ListDescends
      <4> QED
        BY <4>1, <4>2, <4>3 DEF Deref
    <3>2. CASE pc[p] = "next"
      <4>1. reg[p] < (IF link[p] = NULL THEN next_pid ELSE link[p])
        BY <3>2 DEF Inv, LocalsOK
      <4>2. reg'[p] = pnext[reg[p]] /\ pnext[reg[p]] < reg[p] /\ reg[p] \in Pid
        BY <1>1, <3>2 DEF Inv, ListDescends, TypeOK
      <4>3. /\ pnext[reg[p]] \in Int /\ reg[p] \in Int /\ link[p] \in Int
            /\ next_pid \in Int
        BY <4>2 DEF Inv, TypeOK, Pid, NULL
      <4> QED
        BY <4>1, <4>2, <4>3
    <3> QED
      BY <1>1, <3>1, <3>2
  <2>2. pc'[p] = "next" => reg'[p] # NULL
    BY <1>1 DEF Inv, TypeOK
  <2>3. pc[p] \in Resumed /\ \A r \in Pid : next_pid <= r => r # p
    BY <1>1 DEF Resumed, Removing, Inv, LocalsOK
  <2> QED
    BY <1>1, <1>2, <1>3, <2>1, <2>2, <2>3
    DEF Inv, LocalsOK, TypeOK, sched, list
<1>7. DeadStaysInExit'
  BY <1>1, <1>2 DEF Inv, DeadStaysInExit, TypeOK
<1>8. \A r \in Pid : pstate[r] = "WAITING" => r # p
  BY <1>1 DEF Inv, WaiterCanBeWoken
<1> QED
  BY <1>1, <1>2, <1>4, <1>5, <1>6, <1>7, <1>8, QuietInv DEF Inv, TypeOK

\* The store of uprocess_remove: whatever the list has become since the loads,
\* the link it overwrites leads further down afterwards.
LEMMA StoreInv == ASSUME NEW p \in Pid PROVE Inv /\ remove_store(p) => Inv'
<1> SUFFICES ASSUME Inv, remove_store(p), ~Crash PROVE Inv'
  BY CrashInv
<1> USE Constants
<1>1. /\ pc[p] = "store" /\ pc' = [pc EXCEPT ![p] = "free_thread"]
      /\ \/ link[p] = NULL /\ phead' = reg[p] /\ pnext' = pnext
         \/ /\ link[p] # NULL /\ phead' = phead
            /\ pnext' = [pnext EXCEPT ![link[p]] = reg[p]]
      /\ UNCHANGED <<sched, next_pid, pstate, parent, exit_code, heap,
                     locals, crashed>>
  BY DEF remove_store, Runs, Goto, Assign
<1>2. /\ reg[p] < (IF link[p] = NULL THEN next_pid ELSE link[p])
      /\ reg[p] \in Pid \cup {NULL} /\ link[p] \in Pid \cup {NULL}
  BY <1>1 DEF Inv, LocalsOK, TypeOK
<1>3. TypeOK'
  BY <1>1, <1>2 DEF Inv, TypeOK, KthreadTypeOK, Ring, sched, heap, locals,
              Place, Resumed, Removing
<1>4. ListDescends'
  BY <1>1, <1>2 DEF Inv, ListDescends, TypeOK
<1>5. LocalsOK'
  <2>1. phead' < next_pid'
    BY <1>1, <1>2 DEF Inv, LocalsOK
  <2>2. pc[p] \in Resumed /\ \A r \in Pid : next_pid <= r => r # p
    BY <1>1 DEF Resumed, Removing, Inv, LocalsOK
  <2>3. \A r \in Pid : next_pid <= r => pnext'[r] = NULL
    BY <1>1, <1>2 DEF Inv, LocalsOK, TypeOK, Pid, NULL
  <2> QED
    BY <1>1, <2>1, <2>2, <2>3 DEF Inv, LocalsOK, TypeOK, sched, locals
<1>6. DeadStaysInExit'
  BY <1>1 DEF Inv, DeadStaysInExit, TypeOK
<1>7. \A r \in Pid : pstate[r] = "WAITING" => r # p
  BY <1>1 DEF Inv, WaiterCanBeWoken
<1> QED
  BY <1>1, <1>3, <1>4, <1>5, <1>6, <1>7, QuietInv DEF Inv, TypeOK, locals

\* The two kfree calls on the child's blocks.
LEMMA FreeInv ==
  ASSUME NEW p \in Pid
  PROVE  Inv /\ (wait_free_thread(p) \/ wait_free_process(p)) => Inv'
<1> SUFFICES ASSUME Inv, wait_free_thread(p) \/ wait_free_process(p), ~Crash
             PROVE  Inv'
  BY CrashInv
<1> USE Constants
<1>1. /\ pc[p] \in {"free_thread", "free_process"}
      /\ \E place \in {"free_process", "user"} : pc' = [pc EXCEPT ![p] = place]
      /\ tblock' = tblock \/ tblock' = kfree(tblock, child[p])
      /\ pblock' = pblock \/ pblock' = kfree(pblock, child[p])
      /\ UNCHANGED <<sched, next_pid, list, pstate, parent, exit_code,
                     locals, crashed>>
  BY DEF wait_free_thread, wait_free_process, Runs, Goto
<1>2. TypeOK'
  <2>1. tblock' \in [Pid -> Block] /\ pblock' \in [Pid -> Block]
    BY <1>1 DEF Inv, TypeOK, kfree, Block
  <2> QED
    BY <1>1, <2>1 DEF Inv, TypeOK, KthreadTypeOK, Ring, sched, list, locals,
              Place, Resumed
<1>3. ListDescends'
  BY <1>1 DEF Inv, ListDescends, list
<1>4. LocalsOK'
  <2>1. pc[p] \in Resumed /\ \A r \in Pid : next_pid <= r => r # p
    BY <1>1 DEF Resumed, Removing, Inv, LocalsOK
  <2> QED
    BY <1>1, <2>1 DEF Inv, LocalsOK, TypeOK, sched, list, locals
<1>5. DeadStaysInExit'
  BY <1>1 DEF Inv, DeadStaysInExit, TypeOK
<1>6. \A r \in Pid : pstate[r] = "WAITING" => r # p
  BY <1>1 DEF Inv, WaiterCanBeWoken
<1> QED
  BY <1>1, <1>2, <1>3, <1>4, <1>5, <1>6, QuietInv DEF Inv, TypeOK, locals

\* Every step of the kernel and of the programs preserves the invariant.
LEMMA NextInv == Inv /\ [Next]_vars => Inv'
<1> SUFFICES ASSUME Inv, [Next]_vars PROVE Inv'
  OBVIOUS
<1>1. CASE pit_callback \/ irq_other
  BY <1>1, IrqInv DEF pit_callback, irq_other
<1>2. ASSUME NEW p \in Pid, UserCall(p) PROVE Inv'
  BY <1>2, SpawnInv, OpenInv, ExitInv, WaitDeadInv, WaitBlockInv, CrashInv
  DEF UserCall, sys_wait_crash
<1>3. ASSUME NEW p \in Pid, KernelStep(p) PROVE Inv'
  BY <1>3, WokenInv, CollectInv, WalkInv, LoadInv, StoreInv, FreeInv
  DEF KernelStep
<1>4. CASE UNCHANGED vars
  BY <1>4 DEF vars, Inv, TypeOK, KthreadTypeOK, Ring, RingCloses, OffCpuIsReady,
              ListDescends, LocalsOK, WaiterCanBeWoken, DeadStaysInExit
<1> QED
  BY <1>1, <1>2, <1>3, <1>4 DEF Next

\* The inductive invariant holds in every reachable state.
THEOREM Invariance == Spec => []Inv
BY InitInv, NextInv, PTL DEF Spec

\* The scheduler, the process table and the locals of every preempted system
\* call keep their types; curr_thread stays in the ring.
THEOREM TypeCorrect == Spec => []TypeOK
<1>1. Inv => TypeOK
  BY DEF Inv
<1> QED
  BY Invariance, <1>1, PTL

\* Whatever state a system call gives its thread, once it is off the CPU it is
\* eligible again.
THEOREM OffCpuThreadsAreReady == Spec => []OffCpuIsReady
<1>1. Inv => OffCpuIsReady
  BY DEF Inv
<1> QED
  BY Invariance, <1>1, PTL

\* process_list never becomes cyclic, under any interleaving of sys_spawn's
\* insertions with any number of preempted removals.
THEOREM ListNeverCyclic == Spec => []ListDescends
<1>1. Inv => ListDescends
  BY DEF Inv
<1> QED
  BY Invariance, <1>1, PTL

\* The locals of a preempted sys_wait and uprocess_remove stay usable.
THEOREM LocalsStayValid == Spec => []LocalsOK
<1>1. Inv => LocalsOK
  BY DEF Inv
<1> QED
  BY Invariance, <1>1, PTL

\* No lost wakeup in sys_wait.
THEOREM NoLostWakeup == Spec => []WaiterCanBeWoken
<1>1. Inv => WaiterCanBeWoken
  BY DEF Inv
<1> QED
  BY Invariance, <1>1, PTL

\* An exited process is in sys_exit's loop for good.
THEOREM ExitIsFinal == Spec => []DeadStaysInExit
<1>1. Inv => DeadStaysInExit
  BY DEF Inv
<1> QED
  BY Invariance, <1>1, PTL

------------------------------------------------------------------------------
(***************************************************************************)
(* Who collects a child, when programs have one child at a time.           *)
(***************************************************************************)
Waiting(p) == pc[p] \in Resumed \cup {"wait_hlt"}

\* A process that has not exited has its blocks.
AliveIsUsed ==
  \A q \in Pid : q < next_pid /\ pstate[q] # "DEAD" => pblock[q] = "used" /\ tblock[q] = "used"

OnlyChild ==
  \A q, r \in Pid :
    parent[q] # NULL /\ parent[q] = parent[r] /\ pblock[q] = "used" /\ pblock[r] = "used" => q = r

\* OneCollector, from the moment the wait blocks.
OwnsChild ==
  \A p \in Pid : Waiting(p) =>
    /\ parent[child[p]] = p
    /\ pblock[child[p]] = "used"
    /\ tblock[child[p]] = "used" <=> pc[p] # "free_process"

\* WaitCollectsDead, from the moment the waiter is woken: another child's exit
\* would wake it too, but there is none.
ChildIsDead ==
  \A p \in Pid : Waiting(p) /\ (pc[p] \in Resumed \/ pstate[p] # "WAITING") =>
    /\ pstate[child[p]] = "DEAD"
    /\ pc[p] \notin {"wait_hlt", "collect"} => status[p] = exit_code[child[p]]

Owned == AliveIsUsed /\ OnlyChild /\ OwnsChild /\ ChildIsDead

LEMMA OwnedInit == Init => Owned
<1> SUFFICES ASSUME Init PROVE Owned
  OBVIOUS
<1>1. \A q \in Pid : q < 2 => q = 1
  BY DEF Pid
<1>2. AliveIsUsed
  BY <1>1 DEF Init, AliveIsUsed
<1>3. \A p \in Pid : ~Waiting(p)
  BY DEF Init, Waiting, Resumed, Removing
<1>4. OnlyChild
  <2>1. \A q \in Pid : parent[q] = NULL
    BY DEF Init
  <2> QED
    BY <2>1 DEF OnlyChild
<1>5. OwnsChild
  BY <1>3 DEF OwnsChild
<1>6. ChildIsDead
  BY <1>3 DEF ChildIsDead
<1> QED
  BY <1>2, <1>4, <1>5, <1>6 DEF Owned

\* A waiter's child is a process.
LEMMA ChildIsPid ==
  ASSUME Inv, NEW p \in Pid, Waiting(p)
  PROVE  child[p] \in Pid /\ p < next_pid /\ p # NULL
<1>1. pc[p] # "user"
  BY DEF Waiting, Resumed, Removing
<1>2. p < next_pid
  BY <1>1 DEF Inv, LocalsOK, TypeOK, Pid
<1> QED
  BY <1>2, Constants DEF Inv, LocalsOK, TypeOK, Waiting, Resumed

\* A step that concerns the collection of no child.
LEMMA OwnedQuiet ==
  ASSUME Inv, Owned,
         UNCHANGED <<next_pid, pstate, parent, exit_code, tblock, pblock, child, status>>,
         \/ pc' = pc
         \/ \E p \in Pid : /\ pc[p] \in Removing
                           /\ \E place \in Removing \cup {"free_thread"} :
                                pc' = [pc EXCEPT ![p] = place]
  PROVE  Owned'
<1>1. \A p \in Pid : \/ pc'[p] = pc[p]
                     \/ pc[p] \in Removing /\ pc'[p] \in Removing \cup {"free_thread"}
  BY DEF Inv, TypeOK
<1>2. \A p \in Pid : /\ Waiting(p)' <=> Waiting(p)
                     /\ pc'[p] = "free_process" <=> pc[p] = "free_process"
                     /\ pc'[p] \in Resumed <=> pc[p] \in Resumed
                     /\ pc'[p] \in {"wait_hlt", "collect"} <=> pc[p] \in {"wait_hlt", "collect"}
  BY <1>1 DEF Waiting, Resumed, Removing
<1>3. AliveIsUsed' /\ OnlyChild'
  BY DEF Owned, AliveIsUsed, OnlyChild
<1>4. OwnsChild'
  BY <1>2 DEF Owned, OwnsChild
<1>5. ChildIsDead'
  BY <1>2 DEF Owned, ChildIsDead
<1> QED
  BY <1>3, <1>4, <1>5 DEF Owned

LEMMA OwnedCrash == Inv /\ Owned /\ Crash => Owned'
BY OwnedQuiet DEF Crash, heap, locals

LEMMA OwnedIrq == Inv /\ Owned /\ irq_common => Owned'
<1> SUFFICES ASSUME Inv, Owned, irq_common PROVE Owned'
  OBVIOUS
<1>1. UNCHANGED <<next_pid, pstate, parent, exit_code, tblock, pblock, child, status, pc>>
  BY DEF irq_common, Crash, heap, locals
<1> QED
  BY <1>1, OwnedQuiet

\* The walk of uprocess_remove.
LEMMA OwnedWalk ==
  ASSUME NEW p \in Pid, Inv, Owned,
         \/ remove_while(p) \/ remove_compare(p) \/ remove_load(p)
         \/ remove_next(p) \/ remove_store(p) \/ remove_advance(p)
  PROVE  Owned'
<1>1. CASE Crash
  BY <1>1, OwnedCrash
<1>2. CASE ~Crash
  <2>1. /\ UNCHANGED <<next_pid, pstate, parent, exit_code, tblock, pblock, child, status>>
        /\ pc[p] \in Removing
        /\ \E place \in Removing \cup {"free_thread"} : pc' = [pc EXCEPT ![p] = place]
    <3>1. CASE remove_while(p)
      BY <1>2, <3>1 DEF remove_while, Returned, Runs, Goto, heap, Removing
    <3>2. CASE remove_compare(p)
      BY <1>2, <3>2 DEF remove_compare, Runs, Goto, heap, locals, Removing
    <3>3. CASE remove_load(p)
      BY <1>2, <3>3 DEF remove_load, Runs, Goto, heap, Removing
    <3>4. CASE remove_next(p)
      BY <1>2, <3>4 DEF remove_next, Runs, Goto, heap, Removing
    <3>5. CASE remove_store(p)
      BY <1>2, <3>5 DEF remove_store, Runs, Goto, heap, locals, Removing
    <3>6. CASE remove_advance(p)
      BY <1>2, <3>6 DEF remove_advance, Runs, Goto, heap, Removing
    <3> QED
      BY <3>1, <3>2, <3>3, <3>4, <3>5, <3>6
  <2> QED
    BY <2>1, OwnedQuiet
<1> QED
  BY <1>1, <1>2

\* The waiter goes on once its child, the only one it has, has exited.
LEMMA OwnedWoken ==
  ASSUME NEW p \in Pid, Inv, Owned, wait_woken(p) \/ wait_collect(p)
  PROVE  Owned'
<1>1. CASE Crash
  BY <1>1, OwnedCrash
<1>2. CASE ~Crash /\ wait_woken(p)
  <2>1. /\ pc[p] = "wait_hlt" /\ pstate[p] # "WAITING" /\ pc' = [pc EXCEPT ![p] = "collect"]
        /\ UNCHANGED <<next_pid, pstate, parent, exit_code, tblock, pblock, child, status>>
    BY <1>2 DEF wait_woken, Woken, Runs, Goto, heap, locals
  <2>2. \A r \in Pid : pc'[r] = IF r = p THEN "collect" ELSE pc[r]
    BY <2>1 DEF Inv, TypeOK
  <2>3. \A r \in Pid : Waiting(r)' <=> Waiting(r)
    BY <2>1, <2>2 DEF Waiting, Resumed
  <2>4. AliveIsUsed' /\ OnlyChild'
    BY <2>1 DEF Owned, AliveIsUsed, OnlyChild
  <2>5. OwnsChild'
    BY <2>1, <2>2, <2>3 DEF Owned, OwnsChild
  <2>6. ChildIsDead'
    BY <2>1, <2>2, <2>3 DEF Owned, ChildIsDead
  <2> QED
    BY <2>4, <2>5, <2>6 DEF Owned
<1>3. CASE ~Crash /\ wait_collect(p)
  <2>1. /\ pc[p] = "collect" /\ pc' = [pc EXCEPT ![p] = "while"]
        /\ status' = [status EXCEPT ![p] = exit_code[child[p]]]
        /\ UNCHANGED <<next_pid, pstate, parent, exit_code, tblock, pblock, child>>
    BY <1>3 DEF wait_collect, Runs, Goto, heap
  <2>2. \A r \in Pid : /\ pc'[r] = IF r = p THEN "while" ELSE pc[r]
                       /\ status'[r] = IF r = p THEN exit_code[child[p]] ELSE status[r]
    BY <2>1 DEF Inv, TypeOK
  <2>3. \A r \in Pid : Waiting(r)' <=> Waiting(r)
    BY <2>1, <2>2 DEF Waiting, Resumed, Removing
  <2>4. pc[p] \in Resumed
    BY <2>1 DEF Resumed
  <2>5. AliveIsUsed' /\ OnlyChild'
    BY <2>1 DEF Owned, AliveIsUsed, OnlyChild
  <2>6. OwnsChild'
    BY <2>1, <2>2, <2>3 DEF Owned, OwnsChild
  <2>7. ASSUME NEW r \in Pid, Waiting(r)', (pc[r] \in Resumed)' \/ pstate'[r] # "WAITING"
        PROVE  /\ pstate'[child'[r]] = "DEAD"
               /\ pc'[r] \notin {"wait_hlt", "collect"} => status'[r] = exit_code'[child'[r]]
    <3>1. CASE r = p
      BY <2>1, <2>2, <2>3, <2>4, <2>7, <3>1 DEF Owned, ChildIsDead
    <3>2. CASE r # p
      BY <2>1, <2>2, <2>3, <2>7, <3>2 DEF Owned, ChildIsDead
    <3> QED
      BY <3>1, <3>2
  <2>8. ChildIsDead'
    BY <2>7 DEF ChildIsDead
  <2> QED
    BY <2>5, <2>6, <2>8 DEF Owned
<1> QED
  BY <1>1, <1>2, <1>3

\* A process that frees a dead child's blocks, or nothing.
Frees(p, q) ==
  /\ parent[q] = p /\ pstate[q] = "DEAD"
  /\ tblock' = tblock \/ tblock' = kfree(tblock, q)
  /\ pblock' = pblock \/ pblock' = kfree(pblock, q)

\* It is no other process's business.
LEMMA FreesOwn ==
  ASSUME NEW p \in Pid, NEW q \in Pid, Inv, Owned, Frees(p, q), parent' = parent,
         next_pid' = next_pid, pstate' = pstate
  PROVE  /\ AliveIsUsed' /\ OnlyChild'
         /\ \A r \in Pid : Waiting(r) /\ r # p =>
              pblock'[child[r]] = pblock[child[r]] /\ tblock'[child[r]] = tblock[child[r]]
<1> USE DEF Frees
<1>1. \A r \in Pid : /\ r # q => pblock'[r] = pblock[r] /\ tblock'[r] = tblock[r]
                     /\ pblock'[r] = "used" => pblock[r] = "used"
  BY DEF kfree, Inv, TypeOK
<1>2. AliveIsUsed'
  BY <1>1 DEF Owned, AliveIsUsed
<1>3. OnlyChild'
  BY <1>1 DEF Owned, OnlyChild
<1>4. ASSUME NEW r \in Pid, Waiting(r), r # p
      PROVE  pblock'[child[r]] = pblock[child[r]] /\ tblock'[child[r]] = tblock[child[r]]
  <2>1. parent[child[r]] = r
    BY <1>4 DEF Owned, OwnsChild
  <2>2. child[r] \in Pid
    BY <1>4, ChildIsPid
  <2> QED
    BY <1>1, <1>4, <2>1, <2>2
<1> QED
  BY <1>2, <1>3, <1>4

LEMMA OwnedFree ==
  ASSUME NEW p \in Pid, Inv, Owned, wait_free_thread(p) \/ wait_free_process(p)
  PROVE  Owned'
<1> DEFINE q == child[p]
<1>1. CASE Crash
  BY <1>1, OwnedCrash
<1>2. CASE ~Crash
  <2>1. /\ UNCHANGED <<next_pid, pstate, parent, exit_code, child, status>>
        /\ \/ /\ pc[p] = "free_thread" /\ pc' = [pc EXCEPT ![p] = "free_process"]
              /\ tblock' = kfree(tblock, q) /\ pblock' = pblock
           \/ /\ pc[p] = "free_process" /\ pc' = [pc EXCEPT ![p] = "user"]
              /\ tblock' = tblock /\ pblock' = kfree(pblock, q)
    BY <1>2 DEF wait_free_thread, wait_free_process, Runs, Goto, locals
  <2>2. Waiting(p) /\ pc[p] \in Resumed
    BY <2>1 DEF Waiting, Resumed
  <2>3. q \in Pid /\ parent[q] = p /\ pstate[q] = "DEAD" /\ pblock[q] = "used"
    BY <2>2, ChildIsPid DEF Owned, OwnsChild, ChildIsDead
  <2>4. Frees(p, q)
    BY <2>1, <2>3 DEF Frees
  <2>5. /\ AliveIsUsed' /\ OnlyChild'
        /\ \A r \in Pid : Waiting(r) /\ r # p =>
             pblock'[child[r]] = pblock[child[r]] /\ tblock'[child[r]] = tblock[child[r]]
    BY <2>1, <2>3, <2>4, FreesOwn
  <2>6. \A r \in Pid : r # p => pc'[r] = pc[r] /\ (Waiting(r)' <=> Waiting(r))
    BY <2>1 DEF Inv, TypeOK, Waiting
  <2>7. Waiting(p)' => /\ pc[p] = "free_thread" /\ pc'[p] = "free_process"
                       /\ tblock'[q] # "used" /\ pblock'[q] = "used"
    <3>1. CASE pc[p] = "free_process"
      BY <2>1, <3>1 DEF Inv, TypeOK, Waiting, Resumed, Removing
    <3>2. CASE pc[p] # "free_process"
      BY <2>1, <2>3, <3>2 DEF Inv, TypeOK, kfree
    <3> QED
      BY <3>1, <3>2
  <2>8. ASSUME NEW r \in Pid, Waiting(r)'
        PROVE  /\ parent'[child'[r]] = r
               /\ pblock'[child'[r]] = "used"
               /\ tblock'[child'[r]] = "used" <=> pc'[r] # "free_process"
    <3>1. CASE r = p
      BY <2>1, <2>3, <2>7, <2>8, <3>1
    <3>2. CASE r # p
      BY <2>1, <2>5, <2>6, <2>8, <3>2 DEF Owned, OwnsChild
    <3> QED
      BY <3>1, <3>2
  <2>9. ASSUME NEW r \in Pid, Waiting(r)', (pc[r] \in Resumed)' \/ pstate'[r] # "WAITING"
        PROVE  /\ pstate'[child'[r]] = "DEAD"
               /\ pc'[r] \notin {"wait_hlt", "collect"} => status'[r] = exit_code'[child'[r]]
    <3>1. CASE r = p
      BY <2>1, <2>2, <2>7, <2>9, <3>1 DEF Owned, ChildIsDead
    <3>2. CASE r # p
      BY <2>1, <2>6, <2>9, <3>2 DEF Owned, ChildIsDead
    <3> QED
      BY <3>1, <3>2
  <2> QED
    BY <2>5, <2>8, <2>9 DEF Owned, OwnsChild, ChildIsDead
<1> QED
  BY <1>1, <1>2

\* A wait for a child that is dead already frees its blocks at once.
LEMMA OwnedWaitDead ==
  ASSUME NEW p \in Pid, NEW q \in Pid, Inv, Owned, sys_wait_dead(p, q)
  PROVE  Owned'
<1>1. /\ pc[p] = "user" /\ parent[q] = p /\ pstate[q] = "DEAD"
      /\ status' = [status EXCEPT ![p] = exit_code[q]]
      /\ tblock' = kfree(tblock, q) /\ pblock' = kfree(pblock, q)
      /\ UNCHANGED <<next_pid, pstate, parent, exit_code, pc, child>>
  BY DEF sys_wait_dead, Runs, Waitable
<1>2. Frees(p, q)
  BY <1>1 DEF Frees
<1>3. /\ AliveIsUsed' /\ OnlyChild'
      /\ \A r \in Pid : Waiting(r) /\ r # p =>
           pblock'[child[r]] = pblock[child[r]] /\ tblock'[child[r]] = tblock[child[r]]
  BY <1>1, <1>2, FreesOwn
<1>4. ~Waiting(p) /\ \A r \in Pid : Waiting(r)' <=> Waiting(r)
  BY <1>1 DEF Waiting, Resumed, Removing
<1>5. \A r \in Pid : r # p => status'[r] = status[r]
  BY <1>1 DEF Inv, TypeOK
<1>6. OwnsChild'
  BY <1>1, <1>3, <1>4 DEF Owned, OwnsChild
<1>7. ChildIsDead'
  BY <1>1, <1>4, <1>5 DEF Owned, ChildIsDead
<1> QED
  BY <1>3, <1>6, <1>7 DEF Owned

LEMMA OwnedWaitBlock ==
  ASSUME NEW p \in Pid, NEW q \in Pid, Inv, Owned, sys_wait_block(p, q)
  PROVE  Owned'
<1>1. /\ pc[p] = "user" /\ parent[q] = p /\ pstate[q] # "DEAD"
      /\ child' = [child EXCEPT ![p] = q]
      /\ pstate' = [pstate EXCEPT ![p] = "WAITING"]
      /\ pc' = [pc EXCEPT ![p] = "wait_hlt"]
      /\ UNCHANGED <<next_pid, parent, exit_code, tblock, pblock, status>>
  BY DEF sys_wait_block, Runs, Waitable, Goto, heap
<1>2. \A r \in Pid : /\ child'[r] = IF r = p THEN q ELSE child[r]
                     /\ pstate'[r] = IF r = p THEN "WAITING" ELSE pstate[r]
                     /\ pc'[r] = IF r = p THEN "wait_hlt" ELSE pc[r]
  BY <1>1 DEF Inv, TypeOK
<1>3. pstate[p] # "DEAD" /\ ~Waiting(p) /\ \A r \in Pid : r # p => (Waiting(r)' <=> Waiting(r))
  BY <1>1, <1>2 DEF Inv, DeadStaysInExit, Waiting, Resumed, Removing
<1>4. q < next_pid
  BY <1>1, Constants DEF Inv, LocalsOK, TypeOK, Pid, NULL
<1>5. AliveIsUsed' /\ OnlyChild'
  BY <1>1, <1>2, <1>3 DEF Owned, AliveIsUsed, OnlyChild
<1>6. pblock[q] = "used" /\ tblock[q] = "used"
  BY <1>1, <1>4 DEF Owned, AliveIsUsed
<1>7. OwnsChild'
  BY <1>1, <1>2, <1>3, <1>6 DEF Owned, OwnsChild
<1>8. ASSUME NEW r \in Pid, Waiting(r)', (pc[r] \in Resumed)' \/ pstate'[r] # "WAITING"
      PROVE  /\ pstate'[child'[r]] = "DEAD"
             /\ pc'[r] \notin {"wait_hlt", "collect"} => status'[r] = exit_code'[child'[r]]
  <2>1. r # p
    BY <1>2, <1>8 DEF Resumed, Removing
  <2>2. pstate[child[r]] = "DEAD" /\ child[r] \in Pid
    BY <1>2, <1>3, <1>8, <2>1, ChildIsPid DEF Owned, ChildIsDead
  <2>3. child[r] # p
    BY <1>3, <2>2
  <2> QED
    BY <1>1, <1>2, <1>3, <1>8, <2>1, <2>2, <2>3 DEF Owned, ChildIsDead
<1> QED
  BY <1>5, <1>7, <1>8 DEF Owned, ChildIsDead

\* An exit wakes the parent; the child it waits for is the one that exits.
LEMMA OwnedExit ==
  ASSUME NEW p \in Pid, Inv, Owned, sys_exit(p)
  PROVE  Owned'
<1>1. CASE Crash
  BY <1>1, OwnedCrash
<1>2. CASE ~Crash
  <2>1. PICK code \in ExitCodes :
          /\ pc[p] = "user" /\ exit_code' = [exit_code EXCEPT ![p] = code]
          /\ pstate' = StatesAfterExit(p)
          /\ pc' = [pc EXCEPT ![p] = "exit_hlt"]
          /\ UNCHANGED <<next_pid, parent, tblock, pblock, child, status>>
    BY <1>2 DEF sys_exit, Runs, Goto, heap, locals
  <2>2. \A r \in Pid : pstate'[r] = IF r = p THEN "DEAD"
                                    ELSE IF r = parent[p] /\ pstate[r] = "WAITING" THEN "RUNNING"
                                    ELSE pstate[r]
    BY <2>1, Constants DEF StatesAfterExit, Waits
  <2>3. \A r \in Pid : /\ pc'[r] = IF r = p THEN "exit_hlt" ELSE pc[r]
                       /\ r # p => exit_code'[r] = exit_code[r]
    BY <2>1 DEF Inv, TypeOK
  <2>4. ~Waiting(p) /\ ~Waiting(p)' /\ \A r \in Pid : r # p => (Waiting(r)' <=> Waiting(r))
    BY <2>1, <2>3 DEF Waiting, Resumed, Removing
  <2>5. pstate[p] # "DEAD"
    BY <2>1 DEF Inv, DeadStaysInExit
  <2>6. AliveIsUsed' /\ OnlyChild'
    <3>1. \A r \in Pid : pstate'[r] # "DEAD" => pstate[r] # "DEAD"
      BY <2>2
    <3> QED
      BY <2>1, <3>1 DEF Owned, AliveIsUsed, OnlyChild
  <2>7. OwnsChild'
    BY <2>1, <2>3, <2>4 DEF Owned, OwnsChild
  <2>8. ASSUME NEW r \in Pid, Waiting(r)', (pc[r] \in Resumed)' \/ pstate'[r] # "WAITING"
        PROVE  /\ pstate'[child'[r]] = "DEAD"
               /\ pc'[r] \notin {"wait_hlt", "collect"} => status'[r] = exit_code'[child'[r]]
    <3>1. r # p /\ Waiting(r) /\ pc'[r] = pc[r] /\ child'[r] = child[r] /\ child[r] \in Pid
      BY <2>1, <2>3, <2>4, <2>8, ChildIsPid
    <3>2. CASE pc[r] \in Resumed \/ pstate[r] # "WAITING"
      <4>1. /\ pstate[child[r]] = "DEAD"
            /\ pc[r] \notin {"wait_hlt", "collect"} => status[r] = exit_code[child[r]]
        BY <3>1, <3>2 DEF Owned, ChildIsDead
      <4>2. child[r] # p
        BY <2>5, <4>1
      <4> QED
        BY <2>1, <2>2, <2>3, <3>1, <4>1, <4>2
    <3>3. CASE ~(pc[r] \in Resumed \/ pstate[r] # "WAITING")
      <4>1. parent[p] = r /\ pc[r] = "wait_hlt"
        BY <2>2, <2>8, <3>1, <3>3 DEF Inv, WaiterCanBeWoken
      <4>2. parent[child[r]] = r /\ pblock[child[r]] = "used"
        BY <3>1 DEF Owned, OwnsChild
      <4>3. p < next_pid
        BY <3>1, <4>1, Constants DEF Inv, LocalsOK, TypeOK, Pid, NULL
      <4>4. pblock[p] = "used"
        BY <2>5, <4>3 DEF Owned, AliveIsUsed
      <4>5. child[r] = p
        BY <3>1, <4>1, <4>2, <4>4, ChildIsPid DEF Owned, OnlyChild
      <4> QED
        BY <2>2, <3>1, <4>1, <4>5
    <3> QED
      BY <3>2, <3>3
  <2> QED
    BY <2>6, <2>7, <2>8 DEF Owned, ChildIsDead
<1> QED
  BY <1>1, <1>2

\* Blocks that are handed out again were free.
LEMMA ReuseKeepsUsed ==
  ASSUME Inv, NEW T, NEW P, T \subseteq Free(tblock), P \subseteq Free(pblock)
  PROVE  \A r \in Pid : /\ Reuse(tblock, T)[r] = "used" <=> tblock[r] = "used"
                        /\ Reuse(pblock, P)[r] = "used" <=> pblock[r] = "used"
BY DEF Free, Reuse

LEMMA OwnedOpen ==
  ASSUME NEW p \in Pid, Inv, Owned, sys_open(p)
  PROVE  Owned'
<1>1. PICK T \in SUBSET Free(tblock), P \in SUBSET Free(pblock) :
        tblock' = Reuse(tblock, T) /\ pblock' = Reuse(pblock, P)
  BY DEF sys_open
<1>2. UNCHANGED <<next_pid, pstate, parent, exit_code, pc, child, status>>
  BY DEF sys_open, locals
<1>3. \A r \in Pid : /\ tblock'[r] = "used" <=> tblock[r] = "used"
                     /\ pblock'[r] = "used" <=> pblock[r] = "used"
  BY <1>1, ReuseKeepsUsed
<1>4. \A r \in Pid : (Waiting(r)' <=> Waiting(r)) /\ (Waiting(r) => child[r] \in Pid)
  BY <1>2, ChildIsPid DEF Waiting
<1>5. AliveIsUsed' /\ OnlyChild'
  BY <1>2, <1>3 DEF Owned, AliveIsUsed, OnlyChild
<1>6. OwnsChild'
  BY <1>2, <1>3, <1>4 DEF Owned, OwnsChild
<1>7. ChildIsDead'
  BY <1>2, <1>4 DEF Owned, ChildIsDead
<1> QED
  BY <1>5, <1>6, <1>7 DEF Owned

\* A process spawns when it has no other child.
LEMMA OwnedSpawn ==
  ASSUME NEW p \in Pid, Inv, Owned, MaxChildren = 1, sys_spawn(p)
  PROVE  Owned'
<1>1. CASE Crash
  BY <1>1, OwnedCrash
<1>2. CASE ~Crash
  <2> DEFINE q == next_pid
  <2>1. PICK T \in SUBSET Free(tblock), P \in SUBSET Free(pblock) :
          /\ q <= MaxPid /\ Cardinality(Unreaped(p)) < 1
          /\ next_pid' = q + 1
          /\ pstate' = [pstate EXCEPT ![q] = "RUNNING"]
          /\ exit_code' = [exit_code EXCEPT ![q] = 0]
          /\ tblock' = [Reuse(tblock, T) EXCEPT ![q] = "used"]
          /\ pblock' = [Reuse(pblock, P) EXCEPT ![q] = "used"]
          /\ parent' = [parent EXCEPT ![q] = p]
          /\ UNCHANGED <<pc, child, status>>
    BY <1>2 DEF sys_spawn, uprocess_create, locals
  <2>2. q \in Pid /\ q \in Nat
    BY <2>1, Constants DEF Inv, TypeOK, Pid
  <2>3. /\ Reuse(tblock, T) = [r \in Pid |-> Reuse(tblock, T)[r]]
        /\ Reuse(pblock, P) = [r \in Pid |-> Reuse(pblock, P)[r]]
    BY DEF Reuse
  <2>4. \A r \in Pid : /\ tblock'[r] = "used" <=> r = q \/ tblock[r] = "used"
                       /\ pblock'[r] = "used" <=> r = q \/ pblock[r] = "used"
    <3>1. \A r \in Pid : /\ Reuse(tblock, T)[r] = "used" <=> tblock[r] = "used"
                         /\ Reuse(pblock, P)[r] = "used" <=> pblock[r] = "used"
      BY ReuseKeepsUsed
    <3> HIDE DEF q
    <3>2. \A r \in Pid : /\ tblock'[r] = IF r = q THEN "used" ELSE Reuse(tblock, T)[r]
                         /\ pblock'[r] = IF r = q THEN "used" ELSE Reuse(pblock, P)[r]
      BY <2>1, <2>2, <2>3
    <3> QED
      BY <3>1, <3>2
  <2>5. \A r \in Pid : /\ pstate'[r] = IF r = q THEN "RUNNING" ELSE pstate[r]
                       /\ parent'[r] = IF r = q THEN p ELSE parent[r]
                       /\ r # q => exit_code'[r] = exit_code[r]
    BY <2>1, <2>2 DEF Inv, TypeOK
  <2>6. \A r \in Pid : Waiting(r) => Waiting(r)' /\ child[r] \in Pid /\ child[r] # q /\ r # q
    <3>1. \A r \in Pid : child[r] < q
      BY DEF Inv, LocalsOK
    <3>2. \A r \in Pid : Waiting(r) => child[r] \in Pid /\ r < q
      BY ChildIsPid
    <3> QED
      BY <2>1, <2>2, <3>1, <3>2, Constants DEF Waiting
  <2>7. \A r \in Pid : Waiting(r)' => Waiting(r)
    BY <2>1 DEF Waiting
  <2>8. AliveIsUsed'
    <3>1. \A r \in Pid : r < next_pid' => r = q \/ r < q
      BY <2>1, <2>2, Constants
    <3> QED
      BY <2>4, <2>5, <3>1 DEF Owned, AliveIsUsed
  <2>9. \A r \in Pid : parent[r] = p => pblock[r] # "used"
    <3>1. Unreaped(p) = {}
      <4>1. IsFiniteSet(Unreaped(p))
        <5>1. IsFiniteSet(Pid)
          BY Constants, FS_Interval DEF Pid
        <5> QED
          BY <5>1, FS_Subset DEF Unreaped
      <4>2. Cardinality(Unreaped(p)) = 0
        BY <2>1, <4>1, FS_CardinalityType
      <4> QED
        BY <4>1, <4>2, FS_EmptySet
    <3>2. \A r \in Pid : parent[r] = p => r < next_pid
      <4>1. p # NULL
        BY Constants
      <4> QED
        BY <2>2, <4>1, Constants DEF Inv, LocalsOK
    <3> QED
      BY <3>1, <3>2 DEF Unreaped
  <2>10. OnlyChild'
    <3>1. ASSUME NEW r \in Pid, NEW s \in Pid, parent'[r] # NULL, parent'[r] = parent'[s],
                 pblock'[r] = "used", pblock'[s] = "used"
          PROVE  r = s
      <4>1. CASE r = q
        BY <2>4, <2>5, <2>9, <3>1, <4>1
      <4>2. CASE s = q
        BY <2>4, <2>5, <2>9, <3>1, <4>2
      <4>3. CASE r # q /\ s # q
        BY <2>4, <2>5, <3>1, <4>3 DEF Owned, OnlyChild
      <4> QED
        BY <4>1, <4>2, <4>3
    <3> QED
      BY <3>1 DEF OnlyChild
  <2> HIDE DEF q
  <2>11. OwnsChild'
    BY <2>1, <2>4, <2>5, <2>6, <2>7 DEF Owned, OwnsChild
  <2>12. ChildIsDead'
    BY <2>1, <2>5, <2>6, <2>7 DEF Owned, ChildIsDead
  <2> QED
    BY <2>8, <2>10, <2>11, <2>12 DEF Owned
<1> QED
  BY <1>1, <1>2

LEMMA OwnedNext == MaxChildren = 1 /\ Inv /\ Owned /\ [Next]_vars => Owned'
<1> SUFFICES ASSUME MaxChildren = 1, Inv, Owned, [Next]_vars PROVE Owned'
  OBVIOUS
<1>1. CASE pit_callback \/ irq_other
  BY <1>1, OwnedIrq DEF pit_callback, irq_other
<1>2. ASSUME NEW p \in Pid, UserCall(p) PROVE Owned'
  BY <1>2, OwnedSpawn, OwnedOpen, OwnedExit, OwnedWaitDead, OwnedWaitBlock, OwnedCrash
  DEF UserCall, sys_wait_crash
<1>3. ASSUME NEW p \in Pid, KernelStep(p) PROVE Owned'
  BY <1>3, OwnedWoken, OwnedWalk, OwnedFree DEF KernelStep
<1>4. CASE UNCHANGED vars
  BY <1>4, OwnedQuiet DEF vars
<1> QED
  BY <1>1, <1>2, <1>3, <1>4 DEF Next

LEMMA OwnedAlways == MaxChildren = 1 /\ Spec => [](Inv /\ Owned)
<1>1. ASSUME MaxChildren = 1
      PROVE  Inv /\ Owned /\ [Next]_vars => Inv' /\ Owned'
  BY <1>1, NextInv, OwnedNext
<1>2. ASSUME MaxChildren = 1 PROVE Spec => [](Inv /\ Owned)
  BY <1>1, <1>2, InitInv, OwnedInit, PTL DEF Spec
<1> QED
  BY <1>2

\* When programs have one child at a time, a waiter that has been woken is the
\* only one to free its child, whatever else is scheduled between its steps.
THEOREM ChildrenHaveOneCollector == MaxChildren = 1 /\ Spec => []OneCollector
<1>1. Owned => OneCollector
  <2> SUFFICES ASSUME Owned, NEW p \in Pid, pc[p] \in Resumed
               PROVE  /\ parent[child[p]] = p
                      /\ pblock[child[p]] = "used"
                      /\ tblock[child[p]] = "used" <=> pc[p] # "free_process"
    BY DEF OneCollector
  <2> QED
    BY DEF Owned, OwnsChild, Waiting
<1> QED
  BY <1>1, OwnedAlways, PTL

\* wait returns after the child it names has exited, with that child's code.
THEOREM WaitsCollectTheDead == MaxChildren = 1 /\ Spec => []WaitCollectsDead
<1>1. Owned => WaitCollectsDead
  <2> SUFFICES ASSUME Owned, NEW p \in Pid, pc[p] \in Resumed
               PROVE  /\ pstate[child[p]] = "DEAD"
                      /\ pc[p] # "collect" => status[p] = exit_code[child[p]]
    BY DEF WaitCollectsDead
  <2>1. pc[p] # "wait_hlt"
    BY DEF Resumed, Removing
  <2> QED
    BY <2>1 DEF Owned, ChildIsDead, Waiting
<1> QED
  BY <1>1, OwnedAlways, PTL

------------------------------------------------------------------------------
(***************************************************************************)
(* The processes that are on process_list.                                 *)
(***************************************************************************)
LEMMA LeastNat ==
  ASSUME NEW T, T \subseteq Nat, T # {}
  PROVE  \E x \in T : \A y \in T : x <= y
<1>1. PICK x \in T : \A y \in T : <<y, x>> \notin OpToRel(<, Nat)
  BY WFMin, NatLessThanWellFounded, Zenon
<1>2. \A y \in T : ~(y < x)
  BY <1>1 DEF OpToRel
<1> QED
  BY <1>2

LEMMA GreatestPid ==
  ASSUME NEW T, T \subseteq Pid, T # {}
  PROVE  \E x \in T : \A y \in T : y <= x
<1> DEFINE U == {MaxPid - x : x \in T}
<1>1. U \subseteq Nat /\ U # {}
  <2>1. \A x \in T : MaxPid - x \in Nat
    BY Constants DEF Pid
  <2>2. PICK x : x \in T
    OBVIOUS
  <2>3. MaxPid - x \in U
    BY <2>2
  <2> QED
    BY <2>1, <2>3
<1>2. PICK u \in U : \A v \in U : u <= v
  <2> HIDE DEF U
  <2> QED
    BY <1>1, LeastNat
<1>3. PICK x \in T : u = MaxPid - x
  OBVIOUS
<1>4. \A y \in T : y <= x
  <2> SUFFICES ASSUME NEW y \in T PROVE y <= x
    OBVIOUS
  <2>1. MaxPid - x <= MaxPid - y
    BY <1>2, <1>3
  <2> QED
    BY <2>1, Constants DEF Pid
<1> QED
  BY <1>4

\* The walk from h along nx.
Path(h, nx) ==
  CHOOSE c : c = [i \in 0..MaxPid - 1 |-> IF i = 0 THEN h
                                          ELSE IF c[i - 1] = NULL THEN NULL ELSE nx[c[i - 1]]]

On(h, nx) == {q \in Pid : \E i \in 0..MaxPid - 1 : q = Path(h, nx)[i]}

LEMMA LinkedIsOn == Linked = On(phead, pnext) /\ Linked' = On(phead', pnext')
<1>1. Walk = Path(phead, pnext)
  BY DEF Walk, Path
<1>2. Walk' = Path(phead', pnext')
  BY DEF Walk, Path
<1>3. Linked = On(phead, pnext)
  BY <1>1 DEF Linked, On
<1>4. Linked' = On(phead', pnext')
  BY <1>2 DEF Linked, On
<1> QED
  BY <1>3, <1>4

LEMMA PathDef ==
  ASSUME NEW h, NEW nx
  PROVE  Path(h, nx) = [i \in 0..MaxPid - 1 |->
           IF i = 0 THEN h ELSE IF Path(h, nx)[i - 1] = NULL THEN NULL ELSE nx[Path(h, nx)[i - 1]]]
<1> DEFINE Is(c, n) ==
             c = [i \in 0..n |-> IF i = 0 THEN h ELSE IF c[i - 1] = NULL THEN NULL ELSE nx[c[i - 1]]]
           Bad == {n \in Nat : ~ \E c : Is(c, n)}
<1>1. Bad = {}
  <2> SUFFICES ASSUME Bad # {} PROVE FALSE
    OBVIOUS
  <2>1. PICK n \in Bad : \A m \in Bad : n <= m
    <3>1. Bad \subseteq Nat
      OBVIOUS
    <3> HIDE DEF Bad
    <3> QED
      BY <3>1, LeastNat
  <2>2. CASE n = 0
    <3> DEFINE c == [i \in 0..0 |-> h]
    <3>1. Is(c, 0)
      OBVIOUS
    <3> QED
      BY <2>1, <2>2, <3>1
  <2>3. CASE n # 0
    <3>1. n - 1 \in Nat /\ n - 1 \notin Bad
      <4> HIDE DEF Is
      <4> QED
        BY <2>1, <2>3
    <3>2. PICK d : Is(d, n - 1)
      BY <3>1
    <3> DEFINE c == [i \in 0..n |-> IF i < n THEN d[i]
                                    ELSE IF d[n - 1] = NULL THEN NULL ELSE nx[d[n - 1]]]
    <3>3. \A i \in 0..n - 1 : c[i] = d[i]
      BY <2>1
    <3>4. \A i \in 0..n - 1 : d[i] = IF i = 0 THEN h ELSE IF d[i - 1] = NULL THEN NULL ELSE nx[d[i - 1]]
      BY <3>2
    <3>5. c[n] = IF d[n - 1] = NULL THEN NULL ELSE nx[d[n - 1]]
      BY <2>1
    <3>6. \A i \in 0..n : c[i] = IF i = 0 THEN h ELSE IF c[i - 1] = NULL THEN NULL ELSE nx[c[i - 1]]
      <4> HIDE DEF c
      <4> TAKE i \in 0..n
      <4>1. CASE i = n
        BY <2>1, <2>3, <3>1, <3>3, <3>5, <4>1
      <4>2. CASE i # n
        <5>1. i \in 0..n - 1 /\ (i # 0 => i - 1 \in 0..n - 1)
          BY <4>2, <2>1
        <5> QED
          BY <5>1, <3>3, <3>4
      <4> QED
        BY <4>1, <4>2
    <3>7. Is(c, n)
      <4>1. c = [i \in 0..n |-> c[i]]
        OBVIOUS
      <4> HIDE DEF c
      <4> QED
        BY <4>1, <3>6
    <3> QED
      BY <2>1, <3>7
  <2> QED
    BY <2>2, <2>3
<1>2. \E c : Is(c, MaxPid - 1)
  <2>1. MaxPid - 1 \in Nat
    BY Constants
  <2> HIDE DEF Is
  <2> QED
    BY <1>1, <2>1
<1>3. Path(h, nx) = CHOOSE c : Is(c, MaxPid - 1)
  BY DEF Path
<1> HIDE DEF Is
<1>4. Is(Path(h, nx), MaxPid - 1)
  BY <1>2, <1>3
<1> QED
  BY <1>4, Zenon DEF Is

LEMMA PathSteps ==
  ASSUME NEW h, NEW nx
  PROVE  /\ Path(h, nx)[0] = h
         /\ \A i \in 0..MaxPid - 1 : i > 0 =>
              Path(h, nx)[i] = IF Path(h, nx)[i - 1] = NULL THEN NULL ELSE nx[Path(h, nx)[i - 1]]
<1> DEFINE c == Path(h, nx)
<1>1. c = [i \in 0..MaxPid - 1 |-> IF i = 0 THEN h ELSE IF c[i - 1] = NULL THEN NULL ELSE nx[c[i - 1]]]
  BY PathDef
<1> HIDE DEF c
<1>2. \A i \in 0..MaxPid - 1 : c[i] = IF i = 0 THEN h ELSE IF c[i - 1] = NULL THEN NULL ELSE nx[c[i - 1]]
  BY <1>1, Zenon
<1>3. c[0] = h
  BY <1>2, Constants
<1>4. \A i \in 0..MaxPid - 1 : i > 0 => c[i] = IF c[i - 1] = NULL THEN NULL ELSE nx[c[i - 1]]
  BY <1>2
<1> QED
  BY <1>3, <1>4 DEF c

\* What process_list is: from h along nx, always to an older process.
Descends(h, nx) ==
  /\ h \in Pid \cup {NULL}
  /\ nx \in [Pid -> Pid \cup {NULL}]
  /\ \A q \in Pid : nx[q] < q

\* S is what the walk from h meets.
IsChain(S, h, nx) ==
  /\ S \subseteq Pid
  /\ h # NULL => h \in S
  /\ \A q \in S : nx[q] # NULL => nx[q] \in S
  /\ \A q \in S : q = h \/ \E l \in S : nx[l] = q

\* The walk goes down, by one at least with each step.
LEMMA PathDown ==
  ASSUME NEW h, NEW nx, Descends(h, nx)
  PROVE  \A i \in 0..MaxPid - 1 :
           LET c == Path(h, nx) IN
           /\ c[i] \in Pid \cup {NULL}
           /\ c[i] # NULL => c[i] + i <= MaxPid
           /\ \A j \in 0..i : c[i] # NULL => c[j] # NULL /\ c[i] <= c[j]
<1> DEFINE c == Path(h, nx)
           Good(i) == /\ c[i] \in Pid \cup {NULL}
                      /\ c[i] # NULL => c[i] + i <= MaxPid
                      /\ \A j \in 0..i : c[i] # NULL => c[j] # NULL /\ c[i] <= c[j]
           Bad == {i \in 0..MaxPid - 1 : ~Good(i)}
<1>1. c[0] = h /\ \A i \in 0..MaxPid - 1 : i > 0 => c[i] = IF c[i - 1] = NULL THEN NULL ELSE nx[c[i - 1]]
  BY PathSteps
<1> HIDE DEF c
<1>2. Bad = {}
  <2> SUFFICES ASSUME Bad # {} PROVE FALSE
    OBVIOUS
  <2>1. PICK n \in Bad : \A m \in Bad : n <= m
    <3>1. Bad \subseteq Nat
      OBVIOUS
    <3> HIDE DEF Bad
    <3> QED
      BY <3>1, LeastNat
  <2>2. n \in 0..MaxPid - 1 /\ ~Good(n)
    OBVIOUS
  <2>3. CASE n = 0
    <3>1. c[0] \in Pid \cup {NULL} /\ \A j \in 0..0 : j = 0
      BY <1>1 DEF Descends
    <3>2. c[0] # NULL => c[0] \in Nat /\ c[0] <= MaxPid
      BY <3>1, Constants DEF Pid
    <3>3. Good(0)
      BY <3>1, <3>2
    <3> QED
      BY <2>2, <2>3, <3>3
  <2>4. CASE n # 0
    <3>1. n - 1 \in 0..MaxPid - 1 /\ n - 1 < n /\ n \in Nat /\ MaxPid \in Nat
      BY <2>2, <2>4, Constants
    <3>2. Good(n - 1)
      <4> HIDE DEF Good
      <4> QED
        BY <2>1, <3>1
    <3>3. c[n] = IF c[n - 1] = NULL THEN NULL ELSE nx[c[n - 1]]
      BY <1>1, <2>2, <3>1
    <3>4. c[n] \in Pid \cup {NULL}
      BY <3>2, <3>3 DEF Descends
    <3>5. ASSUME c[n] # NULL PROVE Good(n)
      <4>1. c[n - 1] \in Pid /\ c[n] < c[n - 1] /\ c[n] \in Nat /\ c[n - 1] \in Nat
        BY <3>2, <3>3, <3>4, <3>5, Constants DEF Descends
      <4>2. c[n] + n <= MaxPid
        BY <3>1, <3>2, <4>1, Constants
      <4>3. ASSUME NEW j \in 0..n PROVE c[j] # NULL /\ c[n] <= c[j]
        <5>1. CASE j = n
          BY <3>5, <4>1, <5>1
        <5>2. CASE j # n
          <6>1. j \in 0..n - 1
            BY <3>1, <5>2
          <6>2. c[j] # NULL /\ c[n - 1] <= c[j]
            BY <3>2, <4>1, <6>1, Constants
          <6>3. j \in 0..MaxPid - 1 /\ j < n
            BY <3>1, <6>1
          <6>4. c[j] \in Pid \cup {NULL}
            <7>1. Good(j)
              <8> HIDE DEF Good
              <8> QED
                BY <2>1, <3>1, <6>3
            <7> QED
              BY <7>1
          <6>5. c[j] \in Nat
            BY <6>2, <6>4, Constants
          <6> QED
            BY <4>1, <6>2, <6>5
        <5> QED
          BY <5>1, <5>2
      <4> QED
        BY <3>4, <4>2, <4>3
    <3> QED
      BY <2>2, <3>4, <3>5
  <2> QED
    BY <2>3, <2>4
<1>3. \A i \in 0..MaxPid - 1 : Good(i)
  BY <1>2
<1> QED
  BY <1>3 DEF c

\* So it meets a chain, and no two links that lead to one process.
LEMMA OnIsChain ==
  ASSUME NEW h, NEW nx, Descends(h, nx)
  PROVE  /\ IsChain(On(h, nx), h, nx)
         /\ \A q, r \in On(h, nx) : nx[q] = nx[r] /\ nx[q] # NULL => q = r
         /\ \A q \in On(h, nx) : q <= h
<1> DEFINE c == Path(h, nx)
           S == On(h, nx)
<1>1. c[0] = h /\ \A i \in 0..MaxPid - 1 : i > 0 => c[i] = IF c[i - 1] = NULL THEN NULL ELSE nx[c[i - 1]]
  BY PathSteps
<1>2. \A i \in 0..MaxPid - 1 :
           /\ c[i] \in Pid \cup {NULL}
           /\ c[i] # NULL => c[i] + i <= MaxPid
           /\ \A j \in 0..i : c[i] # NULL => c[j] # NULL /\ c[i] <= c[j]
  BY PathDown
<1>3. S = {q \in Pid : \E i \in 0..MaxPid - 1 : q = c[i]}
  BY DEF On
<1> HIDE DEF c, S
<1>4. NULL \notin Pid /\ MaxPid \in Nat /\ MaxPid > 0 /\ 0 \in 0..MaxPid - 1 /\ Pid \subseteq Nat
  <2>1. NULL \notin Pid /\ Pid \subseteq Nat
    BY Constants
  <2>2. MaxPid \in Nat /\ MaxPid > 0
    BY Constants
  <2>3. 0 \in 0..MaxPid - 1
    BY <2>2
  <2> QED
    BY <2>1, <2>2, <2>3
<1>5. h # NULL => h \in S
  BY <1>1, <1>3, <1>4 DEF Descends
<1>6. ASSUME NEW q \in S
      PROVE  /\ nx[q] # NULL => nx[q] \in S
             /\ q = h \/ \E l \in S : nx[l] = q
             /\ q <= h
  <2>1. q \in Pid /\ q # NULL
    BY <1>3, <1>4, <1>6
  <2>2. PICK i \in 0..MaxPid - 1 : q = c[i]
    BY <1>3, <1>6
  <2>3. nx[q] # NULL => nx[q] \in S
    <3> SUFFICES ASSUME nx[q] # NULL PROVE nx[q] \in S
      OBVIOUS
    <3>1. nx[q] \in Pid /\ nx[q] < q
      BY <2>1 DEF Descends
    <3>2. nx[q] \in Nat /\ q \in Nat /\ nx[q] >= 1
      BY <2>1, <3>1, <1>4 DEF Pid
    <3>3. q + i <= MaxPid
      BY <1>2, <2>1, <2>2
    <3>4. i + 1 \in 0..MaxPid - 1 /\ i + 1 > 0 /\ (i + 1) - 1 = i
      BY <1>4, <3>1, <3>2, <3>3
    <3>5. c[i + 1] = nx[q]
      BY <1>1, <2>1, <2>2, <3>4
    <3> QED
      BY <1>3, <3>1, <3>4, <3>5
  <2>4. q = h \/ \E l \in S : nx[l] = q
    <3>1. CASE i = 0
      BY <1>1, <2>2, <3>1
    <3>2. CASE i # 0
      <4>1. i - 1 \in 0..MaxPid - 1 /\ i > 0
        BY <1>4, <3>2
      <4>2. c[i - 1] # NULL /\ q = nx[c[i - 1]]
        BY <1>1, <2>1, <2>2, <4>1
      <4>3. c[i - 1] \in S
        BY <1>2, <1>3, <4>1, <4>2
      <4> QED
        BY <4>2, <4>3
    <3> QED
      BY <3>1, <3>2
  <2>5. q <= h
    <3>1. 0 \in 0..i
      OBVIOUS
    <3> QED
      BY <1>1, <1>2, <2>1, <2>2, <3>1
  <2> QED
    BY <2>3, <2>4, <2>5
<1>7. ASSUME NEW q \in S, NEW r \in S, nx[q] = nx[r], nx[q] # NULL, q < r PROVE FALSE
  <2>1. q \in Pid /\ r \in Pid /\ q \in Nat /\ r \in Nat
    BY <1>3, <1>4
  <2>2. PICK i \in 0..MaxPid - 1 : q = c[i]
    BY <1>3
  <2>3. PICK j \in 0..MaxPid - 1 : r = c[j]
    BY <1>3
  <2>4. j < i
    <3>1. i \in 0..j => r <= q
      BY <1>2, <1>4, <2>1, <2>2, <2>3
    <3> QED
      BY <1>7, <2>1, <3>1
  <2>5. j + 1 \in 0..MaxPid - 1 /\ j + 1 > 0 /\ (j + 1) - 1 = j /\ j + 1 \in 0..i
    BY <1>4, <2>4
  <2>6. c[j + 1] = nx[r]
    BY <1>1, <1>4, <2>1, <2>3, <2>5
  <2>7. q <= nx[r]
    BY <1>2, <1>4, <2>1, <2>2, <2>5, <2>6
  <2>8. nx[q] < q /\ nx[q] \in Pid
    BY <1>7, <2>1 DEF Descends
  <2>9. nx[q] \in Nat
    BY <1>4, <2>8
  <2> QED
    BY <1>7, <2>1, <2>7, <2>8, <2>9
<1>8. ASSUME NEW q \in S, NEW r \in S, nx[q] = nx[r], nx[q] # NULL PROVE q = r
  <2>1. q \in Nat /\ r \in Nat
    BY <1>3, <1>4
  <2>2. ~(q < r) /\ ~(r < q)
    BY <1>7, <1>8
  <2> QED
    BY <2>1, <2>2
<1>9. IsChain(S, h, nx)
  BY <1>3, <1>5, <1>6 DEF IsChain
<1> QED
  BY <1>6, <1>8, <1>9 DEF S

\* There is one chain.
LEMMA ChainIsUnique ==
  ASSUME NEW h, NEW nx, NEW S, NEW T, Descends(h, nx), IsChain(S, h, nx), IsChain(T, h, nx)
  PROVE  S \subseteq T
<1> DEFINE D == S \ T
<1>1. CASE D # {}
  <2>1. D \subseteq Pid
    BY DEF IsChain
  <2>2. PICK q \in D : \A r \in D : r <= q
    <3> HIDE DEF D
    <3> QED
      BY <1>1, <2>1, GreatestPid
  <2>3. q \in S /\ q \notin T /\ q \in Pid /\ q # NULL
    BY <2>1, <2>2, Constants
  <2>4. q # h
    BY <2>3 DEF IsChain
  <2>5. PICK l \in S : nx[l] = q
    BY <2>3, <2>4 DEF IsChain
  <2>6. l \in Pid /\ q < l /\ l \in Nat /\ q \in Nat
    BY <2>3, <2>5, Constants DEF IsChain, Descends
  <2>7. l \in T
    BY <2>2, <2>6
  <2> QED
    BY <2>3, <2>5, <2>7 DEF IsChain
<1> QED
  BY <1>1

LEMMA ChainIsOn ==
  ASSUME NEW h, NEW nx, NEW S, Descends(h, nx), IsChain(S, h, nx)
  PROVE  S = On(h, nx)
BY OnIsChain, ChainIsUnique

\* A member is the head, or there is a link in the list that leads to it.
LEMMA LinkOfMember ==
  ASSUME Inv, NEW q \in Linked
  PROVE  /\ q = phead => LinkOf(q) = NULL
         /\ q # phead => LinkOf(q) \in Linked /\ pnext[LinkOf(q)] = q
<1>1. Descends(phead, pnext)
  BY DEF Inv, TypeOK, ListDescends, Descends
<1>2. /\ IsChain(Linked, phead, pnext)
      /\ \A r \in Linked : r <= phead
  BY <1>1, OnIsChain, LinkedIsOn
<1>3. CASE q = phead
  <2>1. ASSUME NEW l \in Linked, pnext[l] = q PROVE FALSE
    <3>1. l \in Pid /\ q \in Pid
      BY <1>2 DEF IsChain
    <3>2. q < l /\ l <= phead
      BY <1>1, <1>2, <2>1, <3>1 DEF Descends
    <3> QED
      BY <1>3, <3>1, <3>2, Constants
  <2> QED
    BY <1>3, <2>1 DEF LinkOf
<1>4. CASE q # phead
  <2>1. \E l \in Linked : pnext[l] = q
    BY <1>2, <1>4 DEF IsChain
  <2> QED
    BY <1>4, <2>1 DEF LinkOf
<1> QED
  BY <1>3, <1>4

\* uprocess_remove, uninterrupted, takes its process off the list.
LEMMA UnlinkOne ==
  ASSUME Inv, Inv', NEW q \in Linked, Assign(LinkOf(q), pnext[q])
  PROVE  Linked' = Linked \ {q}
<1> DEFINE S == Linked \ {q}
<1>1. Descends(phead, pnext) /\ Descends(phead', pnext')
  BY DEF Inv, TypeOK, ListDescends, Descends
<1>2. /\ IsChain(Linked, phead, pnext)
      /\ \A r, s \in Linked : pnext[r] = pnext[s] /\ pnext[r] # NULL => r = s
      /\ \A r \in Linked : r <= phead
  BY <1>1, OnIsChain, LinkedIsOn
<1>3. /\ Linked \subseteq Pid /\ q \in Pid /\ q # NULL
      /\ phead # NULL => phead \in Linked
      /\ \A r \in Linked : pnext[r] # NULL => pnext[r] \in Linked
      /\ \A r \in Linked : r = phead \/ \E l \in Linked : pnext[l] = r
  BY <1>2, Constants DEF IsChain
<1>4. \A r \in Pid : pnext[r] < r /\ pnext[r] \in Pid \cup {NULL} /\ r \in Nat /\ r # NULL
  BY <1>1, Constants DEF Descends
<1>5. pnext[q] # q
  BY <1>3, <1>4, Constants DEF NULL
<1>6. CASE q = phead
  <2>1. phead' = pnext[q] /\ pnext' = pnext
    BY <1>6, LinkOfMember DEF Assign
  <2>2. phead' # NULL => phead' \in S
    BY <1>3, <1>5, <2>1
  <2>3. ASSUME NEW r \in S
        PROVE  /\ pnext'[r] # NULL => pnext'[r] \in S
               /\ r = phead' \/ \E l \in S : pnext'[l] = r
    <3>1. r \in Linked /\ r # q /\ r \in Pid
      BY <1>3, <2>3
    <3>2. pnext[r] # q
      <4>1. r <= q /\ pnext[r] < r /\ r \in Nat /\ q \in Nat
        BY <1>2, <1>3, <1>4, <1>6, <3>1
      <4> QED
        BY <4>1
    <3>3. PICK l \in Linked : pnext[l] = r
      BY <1>3, <1>6, <3>1
    <3> QED
      BY <1>3, <2>1, <3>1, <3>2, <3>3
  <2>4. IsChain(S, phead', pnext')
    BY <1>3, <2>2, <2>3 DEF IsChain
  <2> QED
    BY <1>1, <2>4, ChainIsOn, LinkedIsOn
<1>7. CASE q # phead
  <2> DEFINE k == LinkOf(q)
  <2>1. k \in Linked /\ pnext[k] = q /\ k # NULL /\ k \in Pid
    BY <1>3, <1>7, LinkOfMember, Constants
  <2> HIDE DEF k
  <2>2. phead' = phead /\ pnext' = [pnext EXCEPT ![k] = pnext[q]]
    BY <2>1 DEF Assign, k
  <2>3. \A r \in Pid : pnext'[r] = IF r = k THEN pnext[q] ELSE pnext[r]
    BY <1>1, <2>2 DEF Descends
  <2>4. k # q
    BY <1>5, <2>1
  <2>5. phead' # NULL => phead' \in S
    BY <1>3, <1>7, <2>2
  <2>6. ASSUME NEW r \in S
        PROVE  /\ pnext'[r] # NULL => pnext'[r] \in S
               /\ r = phead' \/ \E l \in S : pnext'[l] = r
    <3>1. r \in Linked /\ r # q /\ r \in Pid
      BY <1>3, <2>6
    <3>2. pnext'[r] # NULL => pnext'[r] \in S
      <4>1. CASE r = k
        BY <1>3, <1>5, <2>3, <3>1, <4>1
      <4>2. CASE r # k
        <5>1. pnext[r] # q
          BY <1>2, <1>3, <2>1, <3>1, <4>2
        <5> QED
          BY <1>3, <2>3, <3>1, <4>2, <5>1
      <4> QED
        BY <4>1, <4>2
    <3>3. r = phead' \/ \E l \in S : pnext'[l] = r
      <4>1. CASE r = phead
        BY <2>2, <4>1
      <4>2. CASE r # phead
        <5>1. PICK l \in Linked : pnext[l] = r
          BY <1>3, <3>1, <4>2
        <5>2. l \in Pid
          BY <1>3
        <5>3. l # k
          BY <2>1, <3>1, <5>1
        <5>4. CASE l = q
          <6>1. k \in S /\ pnext'[k] = r
            BY <2>1, <2>3, <2>4, <5>1, <5>4
          <6> QED
            BY <6>1
        <5>5. CASE l # q
          <6>1. l \in S /\ pnext'[l] = r
            BY <2>3, <5>1, <5>2, <5>3, <5>5
          <6> QED
            BY <6>1
        <5> QED
          BY <5>4, <5>5
      <4> QED
        BY <4>1, <4>2
    <3> QED
      BY <3>2, <3>3
  <2>7. IsChain(S, phead', pnext')
    BY <1>3, <2>5, <2>6 DEF IsChain
  <2> QED
    BY <1>1, <2>7, ChainIsOn, LinkedIsOn
<1> QED
  BY <1>6, <1>7

\* process_list_add puts the new process on it.
LEMMA LinkOne ==
  ASSUME Inv, Inv', next_pid \in Pid, process_list_add(next_pid)
  PROVE  next_pid \notin Linked /\ Linked' = Linked \cup {next_pid}
<1> DEFINE n == next_pid
           S == Linked \cup {n}
<1>1. Descends(phead, pnext) /\ Descends(phead', pnext')
  BY DEF Inv, TypeOK, ListDescends, Descends
<1>2. /\ IsChain(Linked, phead, pnext)
      /\ \A r \in Linked : r <= phead
  BY <1>1, OnIsChain, LinkedIsOn
<1>3. /\ Linked \subseteq Pid
      /\ phead # NULL => phead \in Linked
      /\ \A r \in Linked : pnext[r] # NULL => pnext[r] \in Linked
      /\ \A r \in Linked : r = phead \/ \E l \in Linked : pnext[l] = r
  BY <1>2 DEF IsChain
<1>4. phead < n /\ phead \in Pid \cup {NULL}
  BY DEF Inv, LocalsOK, TypeOK
<1>5. n \notin Linked
  <2>1. n \in Linked => n <= phead
    BY <1>2
  <2>2. n \in Nat /\ phead \in Int
    BY <1>4, Constants DEF NULL, Pid
  <2> QED
    BY <1>4, <2>1, <2>2
<1>6. phead' = n /\ pnext' = [pnext EXCEPT ![n] = phead]
  BY DEF process_list_add
<1> HIDE DEF n
<1>7. \A r \in Pid : pnext'[r] = IF r = n THEN phead ELSE pnext[r]
  BY <1>1, <1>6 DEF Descends
<1>8. n \in Pid
  BY DEF n
<1>9. ASSUME NEW r \in S
      PROVE  /\ pnext'[r] # NULL => pnext'[r] \in S
             /\ r = phead' \/ \E l \in S : pnext'[l] = r
  <2>1. CASE r = n
    BY <1>3, <1>6, <1>7, <1>8, <2>1
  <2>2. CASE r # n
    <3>1. r \in Linked /\ r \in Pid /\ pnext'[r] = pnext[r]
      BY <1>3, <1>7, <1>9, <2>2
    <3>2. \E l \in S : pnext'[l] = r
      <4>1. CASE r = phead
        <5>1. n \in S /\ pnext'[n] = r
          BY <1>7, <1>8, <4>1
        <5> QED
          BY <5>1
      <4>2. CASE r # phead
        <5>1. PICK l \in Linked : pnext[l] = r
          BY <1>3, <3>1, <4>2
        <5>2. l \in S /\ pnext'[l] = r
          BY <1>3, <1>5, <1>7, <5>1
        <5> QED
          BY <5>2
      <4> QED
        BY <4>1, <4>2
    <3> QED
      BY <1>3, <3>1, <3>2
  <2> QED
    BY <2>1, <2>2
<1>10. IsChain(S, phead', pnext')
  BY <1>3, <1>6, <1>8, <1>9 DEF IsChain
<1>11. Linked' = S
  BY <1>1, <1>10, ChainIsOn, LinkedIsOn
<1> QED
  BY <1>5, <1>11 DEF n

\* The walk is linear: it passes whatever it meets below a process through that
\* process's link.
LEMMA OnLinear ==
  ASSUME NEW h, NEW nx, Descends(h, nx), NEW q \in On(h, nx), NEW s \in On(h, nx), s < q
  PROVE  nx[q] \in Pid /\ s <= nx[q]
<1> DEFINE c == Path(h, nx)
<1>1. \A i \in 0..MaxPid - 1 : i > 0 => c[i] = IF c[i - 1] = NULL THEN NULL ELSE nx[c[i - 1]]
  BY PathSteps
<1>2. \A i \in 0..MaxPid - 1 :
           /\ c[i] \in Pid \cup {NULL}
           /\ \A j \in 0..i : c[i] # NULL => c[j] # NULL /\ c[i] <= c[j]
  BY PathDown
<1>3. /\ q \in Pid /\ \E i \in 0..MaxPid - 1 : q = c[i]
      /\ s \in Pid /\ \E j \in 0..MaxPid - 1 : s = c[j]
  BY DEF On
<1> HIDE DEF c
<1>4. PICK i \in 0..MaxPid - 1 : q = c[i]
  BY <1>3
<1>5. PICK j \in 0..MaxPid - 1 : s = c[j]
  BY <1>3
<1>6. q \in Nat /\ s \in Nat /\ q # NULL /\ s # NULL /\ MaxPid \in Nat
  BY <1>3, Constants
<1>7. i < j
  <2>1. j \in 0..i => q <= s
    BY <1>2, <1>4, <1>5, <1>6
  <2> QED
    BY <1>6, <2>1
<1>8. i + 1 \in 0..MaxPid - 1 /\ i + 1 > 0 /\ (i + 1) - 1 = i /\ i + 1 \in 0..j
  BY <1>6, <1>7
<1>9. c[i + 1] = nx[q]
  BY <1>1, <1>4, <1>6, <1>8
<1>10. c[i + 1] # NULL /\ s <= c[i + 1] /\ c[i + 1] \in Pid \cup {NULL}
  BY <1>2, <1>5, <1>6, <1>8
<1> QED
  BY <1>9, <1>10

\* An assignment to the link of a process on the list leaves what stands above
\* it and replaces what stands below it.
LEMMA Splice ==
  ASSUME NEW h, NEW nx, Descends(h, nx), NEW s \in On(h, nx),
         NEW v \in Pid \cup {NULL}, v < s
  PROVE  On(h, [nx EXCEPT ![s] = v]) = {q \in On(h, nx) : q >= s} \cup On(v, nx)
<1> DEFINE nw == [nx EXCEPT ![s] = v]
           S == {q \in On(h, nx) : q >= s} \cup On(v, nx)
<1>1. s \in Pid /\ nx \in [Pid -> Pid \cup {NULL}] /\ Pid \subseteq Nat \ {NULL} /\ NULL = 0
  BY Constants DEF On, Descends, NULL
<1>2. \A q \in Pid : nw[q] = IF q = s THEN v ELSE nx[q]
  BY <1>1
<1>3. nw \in [Pid -> Pid \cup {NULL}]
  BY <1>1
<1> HIDE DEF nw
<1>4. Descends(h, nw) /\ Descends(v, nx)
  BY <1>2, <1>3 DEF Descends
<1>5. /\ IsChain(On(h, nx), h, nx) /\ IsChain(On(v, nx), v, nx)
      /\ \A q \in On(h, nx) : q <= h
      /\ \A q \in On(v, nx) : q <= v
  BY <1>4, OnIsChain
<1>6. /\ On(h, nx) \subseteq Pid /\ On(v, nx) \subseteq Pid
      /\ h # NULL => h \in On(h, nx)
      /\ v # NULL => v \in On(v, nx)
      /\ \A q \in On(h, nx) : q = h \/ \E l \in On(h, nx) : nx[l] = q
      /\ \A q \in On(v, nx) : nx[q] # NULL => nx[q] \in On(v, nx)
      /\ \A q \in On(v, nx) : q = v \/ \E l \in On(v, nx) : nx[l] = q
      /\ \A q \in On(h, nx) : nx[q] # NULL => nx[q] \in On(h, nx)
  BY <1>5 DEF IsChain
<1>7. s \notin On(v, nx)
  BY <1>1, <1>5
<1>8. \A q \in On(h, nx) : s < q => nx[q] \in Pid /\ s <= nx[q]
  BY OnLinear
<1>9. h \in S
  BY <1>1, <1>5, <1>6 DEF Descends
<1>10. ASSUME NEW q \in S PROVE nw[q] # NULL => nw[q] \in S
  <2>1. CASE q = s
    BY <1>1, <1>2, <1>6, <2>1
  <2>2. CASE q \in On(v, nx)
    BY <1>2, <1>6, <1>7, <2>2
  <2>3. CASE q \in On(h, nx) /\ q > s
    <3>1. q # s /\ q \in Pid /\ nw[q] = nx[q]
      BY <1>1, <1>2, <1>6, <2>3
    <3>2. nx[q] \in Pid /\ s <= nx[q]
      BY <1>8, <2>3, <3>1, <1>1
    <3>3. nx[q] \in On(h, nx) /\ nx[q] >= s
      BY <1>1, <1>6, <2>3, <3>2
    <3> QED
      BY <3>1, <3>3
  <2> QED
    BY <1>1, <1>6, <1>10, <2>1, <2>2, <2>3
<1>11. ASSUME NEW q \in S PROVE q = h \/ \E l \in S : nw[l] = q
  <2>1. CASE q \in On(v, nx)
    <3>1. CASE q = v
      BY <1>1, <1>2, <3>1
    <3>2. CASE q # v
      <4>1. PICK l \in On(v, nx) : nx[l] = q
        BY <1>6, <2>1, <3>2
      <4> QED
        BY <1>2, <1>6, <1>7, <4>1
    <3> QED
      BY <3>1, <3>2
  <2>2. CASE q \in On(h, nx) /\ q >= s /\ q # h
    <3>1. PICK l \in On(h, nx) : nx[l] = q
      BY <1>6, <2>2
    <3>2. l \in Pid /\ q \in Pid /\ q < l
      BY <1>6, <2>2, <3>1 DEF Descends
    <3>3. l # s /\ l >= s
      BY <1>1, <2>2, <3>2
    <3> QED
      BY <1>2, <3>1, <3>2, <3>3
  <2> QED
    BY <1>11, <2>1, <2>2
<1>12. IsChain(S, h, nw)
  BY <1>6, <1>9, <1>10, <1>11 DEF IsChain
<1>13. S = On(h, nw)
  <2> HIDE DEF S
  <2> QED
    BY <1>4, <1>12, ChainIsOn
<1> QED
  BY <1>13 DEF S, nw

\* An assignment to the link of a process that the walk does not meet changes
\* nothing for it, and no walk that begins below it meets it.
LEMMA Unseen ==
  ASSUME NEW h, NEW nx, Descends(h, nx), NEW s \in Pid \ On(h, nx),
         NEW v \in Pid \cup {NULL}, v < s
  PROVE  On(h, [nx EXCEPT ![s] = v]) = On(h, nx)
<1> DEFINE nw == [nx EXCEPT ![s] = v]
           S == On(h, nx)
<1>1. \A q \in Pid : nw[q] = IF q = s THEN v ELSE nx[q]
  BY DEF Descends
<1>2. nw \in [Pid -> Pid \cup {NULL}]
  BY DEF Descends
<1> HIDE DEF nw
<1>3. Descends(h, nw)
  BY <1>1, <1>2 DEF Descends
<1>4. IsChain(S, h, nx)
  BY OnIsChain
<1>5. S \subseteq Pid /\ s \notin S
  BY <1>4 DEF IsChain
<1>6. IsChain(S, h, nw)
  <2> HIDE DEF S
  <2> QED
    BY <1>1, <1>4, <1>5 DEF IsChain
<1>7. S = On(h, nw)
  <2> HIDE DEF S
  <2> QED
    BY <1>3, <1>6, ChainIsOn
<1> QED
  BY <1>7 DEF S, nw

LEMMA Below ==
  ASSUME NEW h, NEW nx, Descends(h, nx), NEW s \in Pid, h < s
  PROVE  s \notin On(h, nx)
<1>1. \A q \in On(h, nx) : q <= h
  BY OnIsChain
<1> QED
  BY <1>1, Constants DEF Descends, NULL

\* A walk that begins with a process goes on from its link.
LEMMA OnOwn ==
  ASSUME NEW nx, NEW h \in Pid, Descends(h, nx)
  PROVE  /\ On(h, nx) = {h} \cup On(nx[h], nx)
         /\ h \notin On(nx[h], nx)
<1> DEFINE v == nx[h]
<1>1. v \in Pid \cup {NULL} /\ v < h
  BY DEF Descends
<1>2. [nx EXCEPT ![h] = v] = nx
  BY DEF Descends
<1>3. h \in On(h, nx) /\ On(h, nx) \subseteq Pid /\ \A q \in On(h, nx) : q <= h
  BY OnIsChain, Constants DEF IsChain
<1>4. {q \in On(h, nx) : q >= h} = {h}
  <2>1. \A q \in On(h, nx) : q \in Nat /\ h \in Nat /\ q <= h
    BY <1>3, Constants
  <2>2. \A q \in On(h, nx) : q >= h <=> q = h
    BY <2>1
  <2> QED
    BY <1>3, <2>2, Zenon
<1>5. Descends(v, nx)
  BY <1>1 DEF Descends
<1> HIDE DEF v
<1>6. On(h, nx) = {h} \cup On(v, nx)
  <2>1. On(h, [nx EXCEPT ![h] = v]) = {q \in On(h, nx) : q >= h} \cup On(v, nx)
    BY <1>1, <1>3, Splice
  <2> QED
    BY <1>2, <1>4, <2>1
<1>7. h \notin On(v, nx)
  BY <1>1, <1>5, Below
<1> QED
  BY <1>6, <1>7 DEF v

\* A store of v to the link of s that goes past some processes on the list: as
\* far as U is concerned no walk notices it, for below the new link is what was
\* below the old one.
Past(nx, nw, s, v, U) ==
  /\ s \in Pid /\ v \in Pid \cup {NULL} /\ v < s
  /\ nw = [nx EXCEPT ![s] = v]
  /\ On(v, nx) \cap U = On(nx[s], nx) \cap U

LEMMA Bypass ==
  ASSUME NEW h, NEW nx, NEW nw, NEW s, NEW v, NEW U,
         Descends(h, nx), Past(nx, nw, s, v, U)
  PROVE  On(h, nw) \cap U = On(h, nx) \cap U
<1>1. /\ s \in Pid /\ v \in Pid \cup {NULL} /\ v < s
      /\ nw = [nx EXCEPT ![s] = v]
      /\ On(v, nx) \cap U = On(nx[s], nx) \cap U
  BY DEF Past
<1>2. CASE s \notin On(h, nx)
  <2>1. On(h, [nx EXCEPT ![s] = v]) = On(h, nx)
    BY <1>1, <1>2, Unseen
  <2> QED
    BY <1>1, <2>1
<1>3. CASE s \in On(h, nx)
  <2> DEFINE w == nx[s]
             Above == {q \in On(h, nx) : q >= s}
  <2>1. w \in Pid \cup {NULL} /\ w < s /\ [nx EXCEPT ![s] = w] = nx
    BY <1>1 DEF Descends
  <2>2. On(v, nx) \cap U = On(w, nx) \cap U
    BY <1>1
  <2> HIDE DEF w
  <2>3. On(h, [nx EXCEPT ![s] = w]) = Above \cup On(w, nx)
    BY <1>3, <2>1, Splice
  <2>4. On(h, [nx EXCEPT ![s] = v]) = Above \cup On(v, nx)
    <3>1. v \in Pid \cup {NULL} /\ v < s
      BY <1>1
    <3> QED
      BY ONLY Descends(h, nx), <1>3, <3>1, Splice DEF Above
  <2> HIDE DEF Above
  <2>5. On(h, nx) = Above \cup On(w, nx)
    BY <2>1, <2>3
  <2>6. On(h, nw) = Above \cup On(v, nx)
    BY <1>1, <2>4
  <2> QED
    BY <2>2, <2>5, <2>6
<1> QED
  BY <1>2, <1>3

LEMMA BypassBelow ==
  ASSUME NEW c \in Pid, NEW nx, NEW nw, NEW s, NEW v, NEW U,
         Descends(c, nx), Past(nx, nw, s, v, U)
  PROVE  On(nw[c], nw) \cap U = On(nx[c], nx) \cap U
<1> DEFINE w == nx[c]
<1>1. /\ v \in Pid \cup {NULL} /\ On(v, nx) \cap U = On(nx[s], nx) \cap U
      /\ w \in Pid \cup {NULL} /\ nw[c] = IF c = s THEN v ELSE w
  BY DEF Descends, Past
<1>2. Descends(v, nx) /\ Descends(w, nx)
  BY <1>1 DEF Descends
<1>3. c = s => On(v, nx) \cap U = On(w, nx) \cap U
  BY <1>1
<1> HIDE DEF w
<1>4. On(v, nw) \cap U = On(v, nx) \cap U
  BY <1>2, Bypass
<1>5. On(w, nw) \cap U = On(w, nx) \cap U
  BY <1>2, Bypass
<1>6. On(nw[c], nw) \cap U = On(w, nx) \cap U
  BY <1>1, <1>3, <1>4, <1>5
<1> QED
  BY <1>6 DEF w

(***************************************************************************)
(* A preempted uprocess_remove that stands at a process's link.  The link  *)
(* leads to the child until the store (the child has one parent, so nobody *)
(* else unlinks it, and what a spawn does to the list it does above); and  *)
(* what the register leads to is what the child's link leads to, but for   *)
(* processes that other waiters have collected meanwhile.                  *)
(***************************************************************************)
Alive == {q \in Pid : ~Removed(q)}

Rest(h, nx, U) == On(h, nx) \cap U

Inside(p) == link[p] # NULL /\ pc[p] \in {"load", "next", "store"}

Removes(p) ==
  /\ pc[p] \in Resumed \cup {"wait_hlt"} => parent[child[p]] = p
  /\ Inside(p) => pnext[link[p]] = child[p]
  /\ Inside(p) /\ pc[p] = "next" => reg[p] = child[p]
  /\ Inside(p) /\ pc[p] = "store" =>
       Rest(pnext[child[p]], pnext, Alive) = Rest(reg[p], pnext, Alive)

RemovalsOK == \A p \in Pid : Removes(p)

LEMMA Integers == \A x \in Pid \cup {NULL} : x \in Int
BY DEF Pid, NULL

LEMMA RemovalsInit == Init => RemovalsOK
BY DEF Init, RemovalsOK, Removes, Inside, Resumed, Removing

LEMMA PresentIs == Present = Linked \cap Alive /\ Present' = Linked' \cap Alive'
<1>1. Linked \subseteq Pid /\ Linked' \subseteq Pid
  BY DEF Linked
<1> QED
  BY <1>1 DEF Present, Alive

LEMMA Descending ==
  ASSUME Inv, NEW h \in Pid \cup {NULL}
  PROVE  Descends(h, pnext)
BY DEF Inv, TypeOK, ListDescends, Descends

\* The locals of a waiter.
LEMMA Locals ==
  ASSUME Inv, NEW p \in Pid, Inside(p)
  PROVE  /\ pc[p] \in Resumed /\ pc[p] # "user"
         /\ child[p] \in Pid /\ child[p] # NULL /\ child[p] < next_pid
         /\ link[p] \in Pid /\ link[p] < next_pid
         /\ pc[p] \in {"next", "store"} => reg[p] \in Pid \cup {NULL} /\ reg[p] < link[p]
<1>1. pc[p] \in Resumed /\ pc[p] # "user"
  BY DEF Inside, Resumed, Removing
<1>2. child[p] # NULL /\ child[p] < next_pid /\ link[p] < next_pid
  BY <1>1 DEF Inv, LocalsOK
<1>3. pc[p] \in {"next", "store"} => reg[p] < link[p]
  BY DEF Inv, LocalsOK, Inside
<1> QED
  BY <1>1, <1>2, <1>3 DEF Inv, TypeOK, Inside

Same(r) ==
  /\ pc'[r] = pc[r] /\ child'[r] = child[r] /\ link'[r] = link[r] /\ reg'[r] = reg[r]
  /\ pc[r] \in Resumed \cup {"wait_hlt"} => parent'[child[r]] = parent[child[r]]

\* A waiter's removal goes on while others do something that leaves its link
\* alone and, as far as the processes that are left are concerned, every walk
\* that starts below.
LEMMA RemovesOn ==
  ASSUME Inv, NEW r \in Pid, Removes(r), Same(r),
         Inside(r) => pnext'[link[r]] = pnext[link[r]],
         Inside(r) /\ pc[r] = "store" =>
           /\ Rest(pnext'[child[r]], pnext', Alive') = Rest(pnext[child[r]], pnext, Alive')
           /\ Rest(reg[r], pnext', Alive') = Rest(reg[r], pnext, Alive')
           /\ \A x \in Alive' \ Alive : /\ x \notin On(pnext[child[r]], pnext)
                                        /\ x \notin On(reg[r], pnext)
  PROVE  Removes(r)'
<1>1. Inside(r)' <=> Inside(r)
  BY DEF Inside, Same
<1>2. pc'[r] \in Resumed \cup {"wait_hlt"} => parent'[child'[r]] = r
  BY DEF Same, Removes
<1>3. Inside(r)' => pnext'[link'[r]] = child'[r]
  BY <1>1 DEF Same, Removes
<1>4. Inside(r)' /\ pc'[r] = "next" => reg'[r] = child'[r]
  BY <1>1 DEF Same, Removes
<1>5. ASSUME Inside(r)', pc'[r] = "store"
      PROVE  Rest(pnext'[child'[r]], pnext', Alive') = Rest(reg'[r], pnext', Alive')
  <2> DEFINE A == On(pnext[child[r]], pnext)
             B == On(reg[r], pnext)
  <2>1. Inside(r) /\ pc[r] = "store"
    BY <1>1, <1>5 DEF Same
  <2>2. A \cap Alive = B \cap Alive
    BY <2>1 DEF Removes, Rest
  <2>3. \A x \in Alive' \ Alive : x \notin A /\ x \notin B
    BY <2>1
  <2>4. Rest(pnext'[child[r]], pnext', Alive') = A \cap Alive'
    BY <2>1 DEF Rest
  <2>5. Rest(reg[r], pnext', Alive') = B \cap Alive'
    BY <2>1 DEF Rest
  <2> HIDE DEF A, B
  <2>6. A \cap Alive' = B \cap Alive'
    BY <2>2, <2>3
  <2>7. child'[r] = child[r] /\ reg'[r] = reg[r]
    BY DEF Same
  <2> QED
    BY <2>4, <2>5, <2>6, <2>7
<1> QED
  BY <1>2, <1>3, <1>4, <1>5 DEF Removes

\* While nobody writes to the list, collections do no harm.
LEMMA RemovesQuiet ==
  ASSUME Inv, NEW r \in Pid, Removes(r), Same(r), pnext' = pnext, Alive' \subseteq Alive
  PROVE  Removes(r)'
<1>1. Alive' \ Alive = {}
  OBVIOUS
<1> QED
  BY <1>1, RemovesOn

\* A store that goes past collected processes only.
LEMMA RemovesPast ==
  ASSUME Inv, NEW r \in Pid, Removes(r), Same(r), Alive' \subseteq Alive,
         NEW s, NEW v, Past(pnext, pnext', s, v, Alive'),
         Inside(r) => link[r] # s
  PROVE  Removes(r)'
<1>1. pnext \in [Pid -> Pid \cup {NULL}] /\ pnext' = [pnext EXCEPT ![s] = v]
  BY DEF Inv, TypeOK, Past
<1>2. Inside(r) => pnext'[link[r]] = pnext[link[r]]
  BY <1>1, Locals
<1>3. ASSUME Inside(r), pc[r] = "store"
      PROVE  /\ Rest(pnext'[child[r]], pnext', Alive') = Rest(pnext[child[r]], pnext, Alive')
             /\ Rest(reg[r], pnext', Alive') = Rest(reg[r], pnext, Alive')
  <2>1. child[r] \in Pid /\ reg[r] \in Pid \cup {NULL}
    BY <1>3, Locals
  <2>2. Descends(child[r], pnext) /\ Descends(reg[r], pnext)
    BY <2>1, Descending
  <2>3. On(pnext'[child[r]], pnext') \cap Alive' = On(pnext[child[r]], pnext) \cap Alive'
    BY <2>1, <2>2, BypassBelow
  <2>4. On(reg[r], pnext') \cap Alive' = On(reg[r], pnext) \cap Alive'
    BY <2>2, Bypass
  <2> QED
    BY <2>3, <2>4 DEF Rest
<1>4. Alive' \ Alive = {}
  OBVIOUS
<1> QED
  BY <1>2, <1>3, <1>4, RemovesOn

(***************************************************************************)
(* What a step does to the list: the action of LosesOnlyTheChild.          *)
(***************************************************************************)
Keeps ==
  \/ Present' = Present
  \/ next_pid \notin Present /\ Present' = Present \cup {next_pid}
  \/ \E q \in Pid : /\ parent[q] = curr
                    /\ (pstate[q] = "DEAD" \/ q = child[curr])
                    /\ Present' = Present \ {q}
  \/ curr \in Pid /\ Overtaken(curr)

Done(p) == pc[p] \in {"free_thread", "free_process"}

LEMMA AliveStays ==
  ASSUME \A q \in Pid : pblock'[q] = "used" <=> pblock[q] = "used",
         \A p \in Pid : /\ Done(p)' <=> Done(p)
                        /\ Done(p) => child'[p] = child[p]
  PROVE  Alive' = Alive
<1>1. \A q \in Pid : Removed(q)' <=> Removed(q)
  BY DEF Removed, Done
<1> QED
  BY <1>1 DEF Alive

LEMMA AliveLoses ==
  ASSUME NEW p \in Pid, pblock' = pblock, ~Done(p), Done(p)', child' = child,
         \A r \in Pid \ {p} : Done(r)' <=> Done(r)
  PROVE  Alive' = Alive \ {child[p]}
<1>1. \A q \in Pid : Removed(q)' <=> (Removed(q) \/ q = child[p])
  BY DEF Removed, Done
<1> QED
  BY <1>1 DEF Alive

\* A step that leaves the list and every waiter alone.
LEMMA StepAside ==
  ASSUME Inv, RemovalsOK, UNCHANGED <<list, pc, child, link, reg, parent>>,
         \A q \in Pid : pblock'[q] = "used" <=> pblock[q] = "used"
  PROVE  RemovalsOK' /\ Keeps
<1>1. Alive' = Alive
  BY AliveStays DEF Done
<1>2. Linked' = Linked
  BY LinkedIsOn DEF list
<1>3. \A r \in Pid : Removes(r) /\ Same(r)
  BY DEF RemovalsOK, Same
<1>4. \A r \in Pid : Removes(r)'
  BY <1>1, <1>3, RemovesQuiet DEF list
<1> QED
  BY <1>1, <1>2, <1>4, PresentIs DEF RemovalsOK, Keeps

LEMMA StepIdle ==
  ASSUME Inv, RemovalsOK, Crash \/ irq_common \/ UNCHANGED vars
  PROVE  RemovalsOK' /\ Keeps
<1>1. UNCHANGED <<list, pc, child, link, reg, parent, pblock>>
  BY DEF Crash, irq_common, vars, list, heap, locals
<1> QED
  BY <1>1, StepAside

\* A step of one process that leaves the list alone.
LEMMA StepAlone ==
  ASSUME Inv, RemovalsOK, NEW p \in Pid, curr = p, UNCHANGED <<list, parent>>,
         \A r \in Pid \ {p} : Same(r),
         Removes(p)',
         \/ Alive' = Alive
         \/ /\ child[p] \in Pid /\ parent[child[p]] = p
            /\ Alive' = Alive \ {child[p]}
  PROVE  RemovalsOK' /\ Keeps
<1>1. Linked' = Linked
  BY LinkedIsOn DEF list
<1>2. Alive' \subseteq Alive
  OBVIOUS
<1>3. ASSUME NEW r \in Pid PROVE Removes(r)'
  <2>1. CASE r # p
    BY <1>2, <2>1, RemovesQuiet DEF RemovalsOK, list
  <2> QED
    BY <2>1
<1>4. Keeps
  <2>1. CASE Alive' = Alive
    BY <1>1, <2>1, PresentIs DEF Keeps
  <2>2. CASE child[p] \in Pid /\ parent[child[p]] = p /\ Alive' = Alive \ {child[p]}
    <3>1. Present' = Present \ {child[p]}
      BY <1>1, <2>2, PresentIs
    <3> QED
      BY <2>2, <3>1 DEF Keeps
  <2> QED
    BY <2>1, <2>2
<1> QED
  BY <1>3, <1>4 DEF RemovalsOK

\* A step of p that changes, of all processes, the locals of p only.
Only(p) ==
  /\ curr = p
  /\ parent' = parent
  /\ \A r \in Pid \ {p} :
       pc'[r] = pc[r] /\ child'[r] = child[r] /\ link'[r] = link[r] /\ reg'[r] = reg[r]

LEMMA OnlySame ==
  ASSUME NEW p \in Pid, Only(p)
  PROVE  /\ UNCHANGED parent /\ curr = p
         /\ \A r \in Pid \ {p} : Same(r) /\ (Done(r)' <=> Done(r))
BY DEF Only, Same, Done

LEMMA StepExit ==
  ASSUME Inv, RemovalsOK, NEW p \in Pid, sys_exit(p)
  PROVE  RemovalsOK' /\ Keeps
<1>1. CASE Crash
  BY <1>1, StepIdle
<1>2. CASE ~Crash
  <2>1. /\ pc[p] = "user" /\ pc' = [pc EXCEPT ![p] = "exit_hlt"] /\ curr = p
        /\ UNCHANGED <<list, child, link, reg, parent, pblock>>
    BY <1>2 DEF sys_exit, Runs, Goto, heap, locals
  <2>2. pc'[p] = "exit_hlt" /\ \A r \in Pid \ {p} : pc'[r] = pc[r]
    BY <2>1 DEF Inv, TypeOK
  <2>3. Only(p) /\ Alive' = Alive
    BY <2>1, <2>2, AliveStays DEF Only, Done
  <2>4. Removes(p)'
    BY <2>2 DEF Removes, Inside, Resumed, Removing
  <2> QED
    BY <2>1, <2>3, <2>4, OnlySame, StepAlone
<1> QED
  BY <1>1, <1>2

LEMMA StepOpen ==
  ASSUME Inv, RemovalsOK, NEW p \in Pid, sys_open(p)
  PROVE  RemovalsOK' /\ Keeps
<1>1. PICK P \in SUBSET Free(pblock) : pblock' = Reuse(pblock, P)
  BY DEF sys_open
<1>2. \A q \in Pid : pblock'[q] = "used" <=> pblock[q] = "used"
  BY <1>1 DEF Reuse, Free
<1>3. UNCHANGED <<list, pc, child, link, reg, parent>>
  BY DEF sys_open, locals
<1> QED
  BY <1>2, <1>3, StepAside

LEMMA StepBlock ==
  ASSUME Inv, RemovalsOK, NEW p \in Pid, NEW q \in Pid, sys_wait_block(p, q)
  PROVE  RemovalsOK' /\ Keeps
<1>1. /\ pc[p] = "user" /\ pc' = [pc EXCEPT ![p] = "wait_hlt"] /\ curr = p
      /\ child' = [child EXCEPT ![p] = q] /\ parent[q] = p
      /\ UNCHANGED <<list, link, reg, parent, pblock>>
  BY DEF sys_wait_block, Runs, Goto, heap, Waitable
<1>2. /\ pc'[p] = "wait_hlt" /\ child'[p] = q
      /\ \A r \in Pid \ {p} : pc'[r] = pc[r] /\ child'[r] = child[r]
  BY <1>1 DEF Inv, TypeOK
<1>3. Only(p) /\ Alive' = Alive
  BY <1>1, <1>2, AliveStays DEF Only, Done
<1>4. Removes(p)'
  BY <1>1, <1>2 DEF Removes, Inside
<1> QED
  BY <1>1, <1>3, <1>4, OnlySame, StepAlone

\* The steps of a woken wait that only move on.
LEMMA StepWalk ==
  ASSUME Inv, RemovalsOK, NEW p \in Pid,
         \/ wait_woken(p) \/ wait_collect(p) \/ remove_while(p) \/ remove_compare(p)
         \/ remove_load(p) \/ remove_next(p) \/ remove_advance(p) \/ wait_free_thread(p)
  PROVE  RemovalsOK' /\ Keeps
<1>1. CASE Crash
  BY <1>1, StepIdle
<1>2. CASE ~Crash
  <2>1. /\ curr = p /\ pc[p] \in Resumed \cup {"wait_hlt"}
        /\ UNCHANGED <<list, child, parent, pblock>>
        /\ \E place \in Resumed : pc' = [pc EXCEPT ![p] = place]
        /\ \E x : link' = [link EXCEPT ![p] = x]
        /\ \E x : reg' = [reg EXCEPT ![p] = x]
    <3>1. link' = link => \E x : link' = [link EXCEPT ![p] = x]
      <4>1. link = [link EXCEPT ![p] = link[p]]
        BY DEF Inv, TypeOK
      <4> QED
        BY <4>1
    <3>2. reg' = reg => \E x : reg' = [reg EXCEPT ![p] = x]
      <4>1. reg = [reg EXCEPT ![p] = reg[p]]
        BY DEF Inv, TypeOK
      <4> QED
        BY <4>1
    <3> USE DEF Runs, Goto, heap, locals, list, Resumed, Removing
    <3>3. CASE wait_woken(p)
      BY <1>2, <3>1, <3>2, <3>3 DEF wait_woken
    <3>4. CASE wait_collect(p)
      BY <1>2, <3>1, <3>2, <3>4 DEF wait_collect
    <3>5. CASE remove_while(p)
      BY <1>2, <3>1, <3>2, <3>5 DEF remove_while, Returned
    <3>6. CASE remove_compare(p)
      BY <1>2, <3>1, <3>2, <3>6 DEF remove_compare
    <3>7. CASE remove_load(p)
      BY <1>2, <3>1, <3>2, <3>7 DEF remove_load
    <3>8. CASE remove_next(p)
      BY <1>2, <3>1, <3>2, <3>8 DEF remove_next
    <3>9. CASE remove_advance(p)
      BY <1>2, <3>1, <3>2, <3>9 DEF remove_advance
    <3>10. CASE wait_free_thread(p)
      BY <1>2, <3>1, <3>2, <3>10 DEF wait_free_thread
    <3> QED
      BY <3>3, <3>4, <3>5, <3>6, <3>7, <3>8, <3>9, <3>10
  <2>2. Only(p) /\ pc'[p] \in Resumed
    BY <2>1 DEF Only, Inv, TypeOK
  <2>3. parent[child[p]] = p /\ child[p] \in Pid
    <3>1. child[p] # NULL
      BY <2>1 DEF Inv, LocalsOK
    <3> QED
      BY <2>1, <3>1 DEF RemovalsOK, Removes, Inv, TypeOK
  <2>4. Alive' = Alive \/ Alive' = Alive \ {child[p]}
    <3>1. CASE Done(p)' <=> Done(p)
      BY <2>1, <2>2, <3>1, OnlySame, AliveStays
    <3>2. CASE ~Done(p) /\ Done(p)'
      BY <2>1, <2>2, <3>2, OnlySame, AliveLoses
    <3>3. Done(p) => Done(p)'
      <4>1. CASE pc[p] = "free_thread"
        <5>1. wait_free_thread(p)
          BY <4>1 DEF wait_woken, wait_collect, remove_while, remove_compare, remove_load,
                      remove_next, remove_advance, Runs
        <5> QED
          BY <1>2, <5>1 DEF wait_free_thread, Goto, Done, Inv, TypeOK
      <4>2. pc[p] # "free_process"
        BY DEF wait_woken, wait_collect, remove_while, remove_compare, remove_load,
               remove_next, remove_advance, wait_free_thread, Runs
      <4> QED
        BY <4>1, <4>2 DEF Done
    <3> QED
      BY <3>1, <3>2, <3>3
  <2>5. Removes(p)'
    <3>1. pc'[p] \in Resumed \cup {"wait_hlt"} => parent'[child'[p]] = p
      BY <2>1, <2>3
    <3>2. CASE ~Inside(p)'
      BY <3>1, <3>2 DEF Removes
    <3>3. CASE Inside(p)'
      <4>1. pc'[p] \in {"load", "next", "store"} /\ link'[p] # NULL
        BY <3>3 DEF Inside
      <4>2. remove_compare(p) \/ remove_load(p) \/ remove_next(p)
        <5>1. CASE wait_woken(p)
          BY <1>2, <4>1, <5>1 DEF wait_woken, Goto, Inv, TypeOK
        <5>2. CASE wait_collect(p)
          BY <1>2, <4>1, <5>2 DEF wait_collect, Goto, Inv, TypeOK
        <5>3. CASE remove_while(p)
          BY <1>2, <4>1, <5>3 DEF remove_while, Returned, Goto, Inv, TypeOK
        <5>4. CASE remove_advance(p)
          BY <1>2, <4>1, <5>4 DEF remove_advance, Goto, Inv, TypeOK
        <5>5. CASE wait_free_thread(p)
          BY <1>2, <4>1, <5>5 DEF wait_free_thread, Goto, Inv, TypeOK
        <5> QED
          BY <5>1, <5>2, <5>3, <5>4, <5>5
      <4>3. CASE remove_compare(p)
        <5>1. /\ link' = link /\ pnext' = pnext /\ child' = child
              /\ pc' = [pc EXCEPT ![p] = IF Deref(link[p]) = child[p] THEN "load" ELSE "advance"]
          BY <1>2, <4>3 DEF remove_compare, Goto, locals, list
        <5>2. pc'[p] = "load" /\ Deref(link[p]) = child[p]
          BY <4>1, <5>1 DEF Inv, TypeOK
        <5>3. pnext'[link'[p]] = child'[p]
          BY <4>1, <5>1, <5>2 DEF Deref
        <5> QED
          BY <3>1, <5>2, <5>3 DEF Removes
      <4>4. CASE remove_load(p)
        <5>1. /\ link' = link /\ pnext' = pnext /\ child' = child /\ pc[p] = "load"
              /\ pc' = [pc EXCEPT ![p] = "next"]
              /\ reg' = [reg EXCEPT ![p] = Deref(link[p])]
          BY <1>2, <4>4 DEF remove_load, Goto, list, Runs
        <5>2. pc'[p] = "next" /\ reg'[p] = Deref(link[p])
          BY <5>1 DEF Inv, TypeOK
        <5>3. pnext[link[p]] = child[p]
          BY <4>1, <5>1 DEF RemovalsOK, Removes, Inside
        <5>4. pnext'[link'[p]] = child'[p] /\ reg'[p] = child'[p]
          BY <4>1, <5>1, <5>2, <5>3 DEF Deref
        <5> QED
          BY <3>1, <5>2, <5>4 DEF Removes
      <4>5. CASE remove_next(p)
        <5>1. /\ link' = link /\ pnext' = pnext /\ child' = child /\ pc[p] = "next"
              /\ pc' = [pc EXCEPT ![p] = "store"]
              /\ reg' = [reg EXCEPT ![p] = pnext[reg[p]]]
          BY <1>2, <4>5 DEF remove_next, Goto, list, Runs
        <5>2. pc'[p] = "store" /\ reg'[p] = pnext[reg[p]]
          BY <5>1 DEF Inv, TypeOK
        <5>3. pnext[link[p]] = child[p] /\ reg[p] = child[p]
          BY <4>1, <5>1 DEF RemovalsOK, Removes, Inside
        <5>4. pnext'[link'[p]] = child'[p] /\ reg'[p] = pnext'[child'[p]]
          BY <5>1, <5>2, <5>3
        <5> QED
          BY <3>1, <5>2, <5>4 DEF Removes
      <4> QED
        BY <4>2, <4>3, <4>4, <4>5
    <3> QED
      BY <3>2, <3>3
  <2> QED
    BY <2>1, <2>2, <2>3, <2>4, <2>5, OnlySame, StepAlone
<1> QED
  BY <1>1, <1>2

LEMMA StepFreeProcess ==
  ASSUME Inv, RemovalsOK, NEW p \in Pid, wait_free_process(p)
  PROVE  RemovalsOK' /\ Keeps
<1>1. CASE Crash
  BY <1>1, StepIdle
<1>2. CASE ~Crash
  <2>1. /\ curr = p /\ pc[p] = "free_process" /\ pc' = [pc EXCEPT ![p] = "user"]
        /\ pblock' = kfree(pblock, child[p])
        /\ UNCHANGED <<list, child, link, reg, parent>>
    BY <1>2 DEF wait_free_process, Runs, Goto, locals
  <2>2. pc'[p] = "user" /\ \A r \in Pid \ {p} : pc'[r] = pc[r]
    BY <2>1 DEF Inv, TypeOK
  <2>3. \A q \in Pid : pblock'[q] = "used" <=> pblock[q] = "used" /\ q # child[p]
    BY <2>1 DEF kfree, Inv, TypeOK
  <2>4. \A q \in Pid : Removed(q)' <=> Removed(q)
    BY <2>1, <2>2, <2>3 DEF Removed
  <2>5. Alive' = Alive
    BY <2>4 DEF Alive
  <2>6. Only(p)
    BY <2>1, <2>2 DEF Only
  <2>7. Removes(p)'
    BY <2>2 DEF Removes, Inside, Resumed, Removing
  <2> QED
    BY <2>1, <2>5, <2>6, <2>7, OnlySame, StepAlone
<1> QED
  BY <1>1, <1>2

\* sys_wait for a dead child: the store and the kfree in one step.
LEMMA StepWaitDead ==
  ASSUME Inv, Inv', RemovalsOK, NEW p \in Pid, NEW q \in Pid, sys_wait_dead(p, q)
  PROVE  RemovalsOK' /\ Keeps
<1>1. /\ q \in Linked /\ parent[q] = p /\ pstate[q] = "DEAD" /\ curr = p /\ pc[p] = "user"
      /\ Assign(LinkOf(q), pnext[q])
      /\ pblock' = kfree(pblock, q)
      /\ UNCHANGED <<pc, child, link, reg, parent>>
  BY DEF sys_wait_dead, Waitable, Runs
<1>2. Alive' = Alive \ {q}
  <2>1. \A r \in Pid : pblock'[r] = "used" <=> pblock[r] = "used" /\ r # q
    BY <1>1 DEF kfree, Inv, TypeOK
  <2>2. \A r \in Pid : Removed(r)' <=> Removed(r) \/ r = q
    BY <1>1, <2>1 DEF Removed
  <2> QED
    BY <2>2 DEF Alive
<1>3. Keeps
  <2>1. Linked' = Linked \ {q}
    BY <1>1, UnlinkOne
  <2>2. Present' = Present \ {q}
    BY <1>2, <2>1, PresentIs
  <2> QED
    BY <1>1, <2>2 DEF Keeps
<1>4. ASSUME NEW r \in Pid PROVE Removes(r)'
  <2>1. Removes(r) /\ Same(r)
    BY <1>1 DEF RemovalsOK, Same
  <2>2. CASE LinkOf(q) = NULL
    <3>1. pnext' = pnext
      BY <1>1, <2>2 DEF Assign
    <3> QED
      BY <1>2, <2>1, <3>1, RemovesQuiet
  <2>3. CASE LinkOf(q) # NULL
    <3> DEFINE k == LinkOf(q)
               v == pnext[q]
    <3>1. k \in Linked /\ pnext[k] = q /\ k \in Pid
      BY <1>1, <2>3, LinkOfMember DEF Linked
    <3>2. pnext' = [pnext EXCEPT ![k] = v]
      BY <1>1, <2>3 DEF Assign
    <3>3. v \in Pid \cup {NULL} /\ v < q /\ q < k /\ v < k
      <4>1. v \in Pid \cup {NULL} /\ v < q /\ q < k
        BY <3>1 DEF Inv, TypeOK, ListDescends
      <4>2. v \in Int /\ q \in Int /\ k \in Int
        BY <3>1, <4>1, Integers
      <4> QED
        BY <4>1, <4>2
    <3>4. On(v, pnext) \cap Alive' = On(q, pnext) \cap Alive'
      <4>1. On(q, pnext) = {q} \cup On(v, pnext)
        BY Descending, OnOwn
      <4> QED
        BY <1>2, <4>1
    <3>5. Inside(r) => link[r] # k
      <4> SUFFICES ASSUME Inside(r), link[r] = k PROVE FALSE
        OBVIOUS
      <4>1. child[r] = q /\ pc[r] \in Resumed /\ pc[r] # "user"
        BY <2>1, <3>1, Locals DEF Removes
      <4>2. parent[q] = r
        BY <2>1, <4>1 DEF Removes
      <4> QED
        BY <1>1, <4>1, <4>2
    <3> HIDE DEF k, v
    <3>6. Past(pnext, pnext', k, v, Alive')
      BY <3>1, <3>2, <3>3, <3>4 DEF Past
    <3> QED
      BY <1>2, <2>1, <3>5, <3>6, RemovesPast
  <2> QED
    BY <2>2, <2>3
<1> QED
  BY <1>3, <1>4 DEF RemovalsOK

\* The store of a preempted uprocess_remove.
LEMMA StepStore ==
  ASSUME Inv, RemovalsOK, NEW p \in Pid, remove_store(p)
  PROVE  RemovalsOK' /\ Keeps
<1>1. CASE Crash
  BY <1>1, StepIdle
<1>2. CASE ~Crash
  <2> DEFINE c == child[p]
             v == reg[p]
             s == link[p]
  <2>1. /\ curr = p /\ pc[p] = "store" /\ pc' = [pc EXCEPT ![p] = "free_thread"]
        /\ Assign(s, v)
        /\ UNCHANGED <<child, link, reg, parent, pblock>>
    BY <1>2 DEF remove_store, Runs, Goto, heap, locals
  <2>2. pc'[p] = "free_thread" /\ \A r \in Pid \ {p} : pc'[r] = pc[r]
    BY <2>1 DEF Inv, TypeOK
  <2>3. Only(p)
    BY <2>1, <2>2 DEF Only
  <2>4. c \in Pid /\ parent[c] = p /\ Removes(p)
    <3>1. pc[p] \in Resumed /\ Removes(p)
      BY <2>1 DEF Resumed, Removing, RemovalsOK
    <3>2. c # NULL
      BY <3>1 DEF Inv, LocalsOK
    <3> QED
      BY <3>1, <3>2 DEF Removes, Inv, TypeOK
  <2>5. Alive' = Alive \ {c}
    BY <2>1, <2>2, <2>3, OnlySame, AliveLoses DEF Done
  <2>6. Removes(p)'
    BY <2>1, <2>2, <2>4 DEF Removes, Inside
  <2>7. \A r \in Pid \ {p} : Removes(r) /\ Same(r)
    BY <2>3, OnlySame DEF RemovalsOK
  <2>8. v \in Pid \cup {NULL}
    BY DEF Inv, TypeOK
  <2>9. On(c, pnext) = {c} \cup On(pnext[c], pnext) /\ c \notin On(pnext[c], pnext)
    BY <2>4, Descending, OnOwn
  <2>10. CASE s = NULL
    <3>1. phead' = v /\ pnext' = pnext
      BY <2>1, <2>10 DEF Assign
    <3>2. Keeps
      <4>1. CASE Overtaken(p)
        BY <2>1, <4>1 DEF Keeps
      <4>2. CASE ~Overtaken(p)
        <5>1. phead = c /\ pnext[c] = v
          BY <2>1, <2>10, <4>2 DEF Overtaken
        <5>2. Linked' = Linked \ {c}
          BY <2>9, <3>1, <5>1, LinkedIsOn
        <5>3. Present' = Present \ {c}
          BY <2>5, <5>2, PresentIs
        <5> QED
          BY <2>1, <2>4, <5>3 DEF Keeps
      <4> QED
        BY <4>1, <4>2
    <3>3. \A r \in Pid \ {p} : Removes(r)'
      BY <2>5, <2>7, <3>1, RemovesQuiet
    <3> QED
      BY <2>6, <3>2, <3>3 DEF RemovalsOK
  <2>11. CASE s # NULL
    <3>1. Inside(p)
      BY <2>1, <2>11 DEF Inside
    <3>2. phead' = phead /\ pnext' = [pnext EXCEPT ![s] = v]
      BY <2>1, <2>11 DEF Assign
    <3>3. s \in Pid /\ v < s /\ pnext[s] = c
      BY <2>1, <2>4, <3>1, Locals DEF Removes
    <3>4. On(pnext[c], pnext) \cap Alive = On(v, pnext) \cap Alive
      BY <2>1, <2>4, <3>1 DEF Removes, Rest
    <3>5. On(v, pnext) \cap Alive' = On(pnext[s], pnext) \cap Alive'
      <4> HIDE DEF c, v, s
      <4> QED
        BY <2>5, <2>9, <3>3, <3>4
    <3>6. \A r \in Pid \ {p} : Inside(r) => link[r] # s
      <4> SUFFICES ASSUME NEW r \in Pid \ {p}, Inside(r), link[r] = s PROVE FALSE
        OBVIOUS
      <4>1. child[r] = c /\ pc[r] \in Resumed
        BY <2>7, <3>3, Locals DEF Removes
      <4>2. parent[c] = r
        BY <2>7, <4>1 DEF Removes
      <4> QED
        BY <2>4, <4>2
    <3> HIDE DEF c, v, s
    <3>7. Past(pnext, pnext', s, v, Alive')
      BY <2>8, <3>2, <3>3, <3>5 DEF Past
    <3>8. \A r \in Pid \ {p} : Removes(r)'
      BY <2>5, <2>7, <3>6, <3>7, RemovesPast
    <3>9. Linked' \cap Alive' = Linked \cap Alive'
      <4>1. phead \in Pid \cup {NULL}
        BY DEF Inv, TypeOK
      <4>2. On(phead, pnext') \cap Alive' = On(phead, pnext) \cap Alive'
        BY <3>7, <4>1, Descending, Bypass
      <4> QED
        BY <3>2, <4>2, LinkedIsOn
    <3>10. Present' = Present \ {c}
      BY <2>5, <3>9, PresentIs
    <3>11. Keeps
      BY <2>1, <2>4, <3>10 DEF Keeps, c
    <3> QED
      BY <2>6, <3>8, <3>11 DEF RemovalsOK
  <2> QED
    BY <2>10, <2>11
<1> QED
  BY <1>1, <1>2

\* sys_spawn: the new process goes above everything that anybody holds.
LEMMA StepSpawn ==
  ASSUME Inv, Inv', RemovalsOK, NEW p \in Pid, sys_spawn(p)
  PROVE  RemovalsOK' /\ Keeps
<1>1. CASE Crash
  BY <1>1, StepIdle
<1>2. CASE ~Crash
  <2> DEFINE n == next_pid
  <2>1. PICK P \in SUBSET Free(pblock) : pblock' = [Reuse(pblock, P) EXCEPT ![n] = "used"]
    BY <1>2 DEF sys_spawn, uprocess_create
  <2>2. /\ n \in Pid /\ process_list_add(n)
        /\ parent' = [parent EXCEPT ![n] = p]
        /\ UNCHANGED <<pc, child, link, reg>>
    <3>1. next_pid <= MaxPid /\ next_pid \in 2..MaxPid + 1
      BY DEF sys_spawn, Inv, TypeOK
    <3>2. next_pid \in Pid
      BY <3>1, Constants DEF Pid
    <3> QED
      BY <1>2, <3>2 DEF sys_spawn, uprocess_create, locals
  <2>3. n \notin Linked /\ Linked' = Linked \cup {n}
    BY <2>2, LinkOne
  <2>4. \A r \in Pid : child[r] < n /\ child[r] # n
    <3>1. \A r \in Pid : child[r] < n /\ child[r] \in Pid \cup {NULL}
      BY DEF Inv, LocalsOK, TypeOK
    <3> QED
      BY <2>2, <3>1, Constants DEF NULL
  <2>5. pnext' = [pnext EXCEPT ![n] = phead] /\ phead < n /\ phead \in Pid \cup {NULL}
    BY <2>2 DEF process_list_add, Inv, LocalsOK, TypeOK
  <2> HIDE DEF n
  <2>6. Alive' = Alive \cup {n}
    <3>1. \A q \in Pid : pblock'[q] = "used" <=> pblock[q] = "used" \/ q = n
      BY <2>1, <2>2 DEF Reuse, Free
    <3>2. \A q \in Pid : Removed(q)' <=> Removed(q) /\ q # n
      BY <2>2, <2>4, <3>1 DEF Removed
    <3> QED
      BY <2>2, <3>2 DEF Alive
  <2>7. Present' = Present \cup {n} /\ n \notin Present
    BY <2>3, <2>6, PresentIs
  <2>8. Keeps
    BY <2>7 DEF Keeps, n
  <2>9. ASSUME NEW h \in Pid \cup {NULL}, h < n
        PROVE  On(h, pnext') = On(h, pnext) /\ n \notin On(h, pnext)
    <3>1. Descends(h, pnext)
      BY Descending
    <3>2. n \notin On(h, pnext)
      BY <2>2, <2>9, <3>1, Below
    <3>3. n \in Pid \ On(h, pnext)
      BY <2>2, <3>2
    <3>4. On(h, [pnext EXCEPT ![n] = phead]) = On(h, pnext)
      BY <2>5, <3>1, <3>3, Unseen
    <3> QED
      BY <2>5, <3>2, <3>4
  <2>10. ASSUME NEW r \in Pid PROVE Removes(r)'
    <3>1. Removes(r) /\ Same(r)
      BY <2>2, <2>4 DEF RemovalsOK, Same, Inv, TypeOK
    <3>2. ASSUME Inside(r)
          PROVE  /\ link[r] \in Pid /\ link[r] # n /\ child[r] \in Pid /\ child[r] # n
                 /\ pc[r] = "store" => reg[r] \in Pid \cup {NULL} /\ reg[r] < n
      <4>1. /\ link[r] \in Pid /\ link[r] < n /\ child[r] \in Pid
            /\ pc[r] = "store" => reg[r] \in Pid \cup {NULL} /\ reg[r] < link[r]
        BY <3>2, Locals DEF n
      <4>2. n \in Int /\ link[r] \in Int /\ \A x \in Pid \cup {NULL} : x \in Int
        BY <2>2, <4>1, Integers
      <4> QED
        BY <2>4, <4>1, <4>2
    <3>3. \A x \in Pid \ {n} : pnext'[x] = pnext[x]
      BY <2>2, <2>5 DEF Inv, TypeOK
    <3>4. ASSUME Inside(r), pc[r] = "store"
          PROVE  /\ Rest(pnext'[child[r]], pnext', Alive') = Rest(pnext[child[r]], pnext, Alive')
                 /\ Rest(reg[r], pnext', Alive') = Rest(reg[r], pnext, Alive')
                 /\ n \notin On(pnext[child[r]], pnext) /\ n \notin On(reg[r], pnext)
      <4>1. pnext[child[r]] \in Pid \cup {NULL} /\ pnext[child[r]] < n
        <5>1. pnext[child[r]] \in Pid \cup {NULL} /\ pnext[child[r]] < child[r]
          BY <3>2, <3>4 DEF Inv, TypeOK, ListDescends
        <5>2. n \in Int /\ child[r] \in Int /\ \A x \in Pid \cup {NULL} : x \in Int
          BY <2>2, <3>2, <3>4, Integers
        <5> QED
          BY <2>4, <5>1, <5>2
      <4>2. /\ On(pnext[child[r]], pnext') = On(pnext[child[r]], pnext)
            /\ n \notin On(pnext[child[r]], pnext)
        BY <2>9, <4>1
      <4>3. On(reg[r], pnext') = On(reg[r], pnext) /\ n \notin On(reg[r], pnext)
        BY <2>9, <3>2, <3>4
      <4>4. pnext'[child[r]] = pnext[child[r]]
        BY <3>2, <3>3, <3>4
      <4> QED
        BY <4>2, <4>3, <4>4 DEF Rest
    <3>5. Inside(r) => pnext'[link[r]] = pnext[link[r]]
      BY <3>2, <3>3
    <3>6. \A x \in Alive' \ Alive : x = n
      BY <2>6
    <3> QED
      BY <3>1, <3>4, <3>5, <3>6, RemovesOn
  <2> QED
    BY <2>8, <2>10 DEF RemovalsOK
<1> QED
  BY <1>1, <1>2

LEMMA StepKeeps == Inv /\ Inv' /\ RemovalsOK /\ [Next]_vars => RemovalsOK' /\ Keeps
<1> SUFFICES ASSUME Inv, Inv', RemovalsOK, [Next]_vars PROVE RemovalsOK' /\ Keeps
  OBVIOUS
<1>1. ASSUME pit_callback \/ irq_other \/ UNCHANGED vars PROVE RemovalsOK' /\ Keeps
  BY <1>1, StepIdle DEF pit_callback, irq_other
<1>2. ASSUME NEW p \in Pid, UserCall(p) PROVE RemovalsOK' /\ Keeps
  <2>1. ASSUME NEW q \in Pid, sys_wait_crash(p, q) PROVE RemovalsOK' /\ Keeps
    BY <2>1, StepIdle DEF sys_wait_crash
  <2> QED
    BY <1>2, <2>1, StepSpawn, StepOpen, StepExit, StepWaitDead, StepBlock DEF UserCall
<1>3. ASSUME NEW p \in Pid, KernelStep(p) PROVE RemovalsOK' /\ Keeps
  BY <1>3, StepWalk, StepStore, StepFreeProcess DEF KernelStep
<1> QED
  BY <1>1, <1>2, <1>3 DEF Next

\* The store of a preempted uprocess_remove takes its own child out of
\* process_list and nobody else who is still to be waited for, whatever other
\* waiters removed and programs spawned since its loads; but for a store to
\* process_list itself that was overtaken.  Other steps take out a dead child of
\* the caller, add the new process, or change nothing.
THEOREM ListLosesOnlyTheChild == Spec => LosesOnlyTheChild
<1>1. Init => RemovalsOK
  BY RemovalsInit
<1>2. Inv /\ Inv' /\ RemovalsOK /\ [Next]_vars => RemovalsOK'
  BY StepKeeps
<1>3. Inv /\ Inv' /\ RemovalsOK /\ [Next]_vars =>
        [ \/ Present' = Present
          \/ next_pid \notin Present /\ Present' = Present \cup {next_pid}
          \/ \E q \in Pid : /\ parent[q] = curr
                            /\ (pstate[q] = "DEAD" \/ q = child[curr])
                            /\ Present' = Present \ {q}
          \/ curr \in Pid /\ Overtaken(curr) ]_vars
  BY StepKeeps DEF Keeps
<1>4. Spec => [](Inv /\ RemovalsOK)
  BY <1>1, <1>2, Invariance, PTL DEF Spec
<1> QED
  BY <1>3, <1>4, PTL DEF Spec, LosesOnlyTheChild

------------------------------------------------------------------------------
(***************************************************************************)
(* The process API.                                                        *)
(***************************************************************************)
\* What is known of blocks and codes before and after a birth.
Births ==
  \A q \in Pid : /\ q < next_pid => pblock[q] # "none"
                 /\ next_pid <= q => exit_code[q] = 0

LEMMA BirthsInit == Init => Births
<1> SUFFICES ASSUME Init, NEW q \in Pid
             PROVE  (q < next_pid => pblock[q] # "none") /\ exit_code[q] = 0
  BY DEF Births
<1>1. q < 2 => q = 1
  BY DEF Pid
<1> QED
  BY <1>1 DEF Init

LEMMA BirthsNext == Inv /\ Births /\ [Next]_vars => Births'
<1> SUFFICES ASSUME Inv, Births, [Next]_vars PROVE Births'
  OBVIOUS
<1>1. ASSUME next_pid' = next_pid,
             \A q \in Pid : /\ pblock[q] # "none" => pblock'[q] # "none"
                            /\ next_pid <= q => exit_code'[q] = exit_code[q]
      PROVE  Births'
  BY <1>1 DEF Births
<1>2. ASSUME UNCHANGED <<next_pid, exit_code, pblock>> PROVE Births'
  BY <1>1, <1>2
<1>3. ASSUME Crash PROVE Births'
  BY <1>2, <1>3 DEF Crash, heap
<1>4. ASSUME pit_callback \/ irq_other PROVE Births'
  BY <1>2, <1>3, <1>4 DEF pit_callback, irq_other, irq_common, heap
<1>5. ASSUME NEW p \in Pid, UserCall(p) PROVE Births'
  <2>1. CASE sys_spawn(p) /\ ~Crash
    <3> DEFINE q == next_pid
    <3>1. PICK P \in SUBSET Free(pblock) :
            /\ q <= MaxPid /\ next_pid' = q + 1
            /\ exit_code' = [exit_code EXCEPT ![q] = 0]
            /\ pblock' = [Reuse(pblock, P) EXCEPT ![q] = "used"]
      BY <2>1 DEF sys_spawn, uprocess_create
    <3>2. q \in Pid /\ q \in Nat
      BY <3>1, Constants DEF Inv, TypeOK, Pid
    <3>3. \A r \in Pid : /\ r # q => Reuse(pblock, P)[r] \in {pblock[r], "reused"}
                         /\ pblock'[r] = IF r = q THEN "used" ELSE Reuse(pblock, P)[r]
                         /\ r # q => exit_code'[r] = exit_code[r]
      BY <3>1, <3>2 DEF Reuse, Inv, TypeOK
    <3>4. ASSUME NEW r \in Pid PROVE /\ r < q + 1 => pblock'[r] # "none"
                                     /\ q + 1 <= r => exit_code'[r] = 0
      <4>1. r \in Nat
        BY Constants
      <4>2. CASE r = q
        BY <3>2, <3>3, <4>2
      <4>3. CASE r # q
        <5>1. (r < q + 1 => r < q) /\ (q + 1 <= r => q <= r)
          BY <3>2, <4>1, <4>3
        <5> QED
          BY <3>3, <4>3, <5>1 DEF Births
      <4> QED
        BY <4>2, <4>3
    <3> QED
      BY <3>1, <3>4 DEF Births
  <2>2. CASE sys_open(p)
    <3>1. PICK P \in SUBSET Free(pblock) :
            pblock' = Reuse(pblock, P) /\ next_pid' = next_pid /\ exit_code' = exit_code
      BY <2>2 DEF sys_open
    <3> QED
      BY <1>1, <3>1 DEF Reuse
  <2>3. CASE sys_exit(p) /\ ~Crash
    <3>1. /\ curr = p /\ next_pid' = next_pid /\ pblock' = pblock
          /\ \E code \in ExitCodes : exit_code' = [exit_code EXCEPT ![p] = code]
      BY <2>3 DEF sys_exit, Runs, heap
    <3>2. ~(next_pid <= p)
      BY <3>1 DEF Inv, LocalsOK, TypeOK, KthreadTypeOK, Ring
    <3>3. \A q \in Pid : next_pid <= q => exit_code'[q] = exit_code[q]
      BY <3>1, <3>2 DEF Inv, TypeOK
    <3> QED
      BY <1>1, <3>1, <3>3
  <2>4. ASSUME NEW q \in Pid, sys_wait_dead(p, q) PROVE Births'
    <3>1. next_pid' = next_pid /\ exit_code' = exit_code /\ pblock' = kfree(pblock, q)
      BY <2>4 DEF sys_wait_dead
    <3>2. \A r \in Pid : pblock[r] # "none" => pblock'[r] # "none"
      BY <3>1 DEF kfree, Inv, TypeOK
    <3> QED
      BY <1>1, <3>1, <3>2
  <2>5. ASSUME NEW q \in Pid, sys_wait_block(p, q) PROVE Births'
    BY <1>2, <2>5 DEF sys_wait_block, heap
  <2> QED
    BY <1>3, <1>5, <2>1, <2>2, <2>3, <2>4, <2>5 DEF UserCall, sys_wait_crash
<1>6. ASSUME NEW p \in Pid, KernelStep(p) PROVE Births'
  <2>1. CASE wait_free_process(p) /\ ~Crash
    <3>1. next_pid' = next_pid /\ exit_code' = exit_code /\ pblock' = kfree(pblock, child[p])
      BY <2>1 DEF wait_free_process
    <3>2. \A r \in Pid : pblock[r] # "none" => pblock'[r] # "none"
      BY <3>1 DEF kfree, Inv, TypeOK
    <3> QED
      BY <1>1, <3>1, <3>2
  <2>2. CASE wait_free_thread(p) /\ ~Crash
    BY <1>2, <2>2 DEF wait_free_thread
  <2>3. CASE wait_woken(p) /\ ~Crash
    BY <1>2, <2>3 DEF wait_woken, heap
  <2>4. CASE wait_collect(p) /\ ~Crash
    BY <1>2, <2>4 DEF wait_collect, heap
  <2>5. CASE remove_while(p) /\ ~Crash
    BY <1>2, <2>5 DEF remove_while, heap
  <2>6. CASE remove_compare(p) /\ ~Crash
    BY <1>2, <2>6 DEF remove_compare, heap
  <2>7. CASE remove_load(p) /\ ~Crash
    BY <1>2, <2>7 DEF remove_load, heap
  <2>8. CASE remove_next(p) /\ ~Crash
    BY <1>2, <2>8 DEF remove_next, heap
  <2>9. CASE remove_store(p) /\ ~Crash
    BY <1>2, <2>9 DEF remove_store, heap
  <2>10. CASE remove_advance(p) /\ ~Crash
    BY <1>2, <2>10 DEF remove_advance, heap
  <2> QED
    BY <1>3, <1>6, <2>1, <2>2, <2>3, <2>4, <2>5, <2>6, <2>7, <2>8, <2>9, <2>10 DEF KernelStep
<1>7. CASE UNCHANGED vars
  BY <1>2, <1>7 DEF vars
<1> QED
  BY <1>4, <1>5, <1>6, <1>7 DEF Next

\* What a process's life is, before and after a step.
LEMMA LifeOf ==
  ASSUME NEW q \in Pid, Inv
  PROVE  /\ next_pid <= q => lifeBar[q] = "unborn"
         /\ q < next_pid /\ Collected(q) => lifeBar[q] = "reaped"
         /\ q < next_pid /\ ~Collected(q) /\ pstate[q] = "DEAD" => lifeBar[q] = "zombie"
         /\ q < next_pid /\ ~Collected(q) /\ pstate[q] # "DEAD" => lifeBar[q] = "running"
<1>1. q \in Nat /\ next_pid \in Nat
  BY Constants DEF Inv, TypeOK
<1> QED
  BY <1>1 DEF lifeBar

LEMMA LifeAfter ==
  ASSUME NEW q \in Pid, Inv'
  PROVE  /\ next_pid' <= q => lifeBar'[q] = "unborn"
         /\ q < next_pid' /\ Collected(q)' => lifeBar'[q] = "reaped"
         /\ q < next_pid' /\ ~Collected(q)' /\ pstate'[q] = "DEAD" => lifeBar'[q] = "zombie"
         /\ q < next_pid' /\ ~Collected(q)' /\ pstate'[q] # "DEAD" => lifeBar'[q] = "running"
<1>1. q \in Nat /\ next_pid' \in Nat
  BY Constants DEF Inv, TypeOK
<1> QED
  BY <1>1 DEF lifeBar

\* A life that goes on as it was.
LEMMA LifeStays ==
  ASSUME NEW q \in Pid, Inv, Inv', next_pid' = next_pid,
         Collected(q)' <=> Collected(q),
         pstate'[q] = "DEAD" <=> pstate[q] = "DEAD"
  PROVE  lifeBar'[q] = lifeBar[q]
<1>1. q \in Nat /\ next_pid \in Nat
  BY Constants DEF Inv, TypeOK
<1>2. next_pid <= q \/ q < next_pid
  BY <1>1
<1> QED
  BY <1>2, LifeOf, LifeAfter

LEMMA LivesStay ==
  ASSUME \A q \in Pid : lifeBar'[q] = lifeBar[q]
  PROVE  lifeBar' = lifeBar
<1>1. lifeBar = [q \in Pid |-> lifeBar[q]] /\ lifeBar' = [q \in Pid |-> lifeBar'[q]]
  BY DEF lifeBar
<1> QED
  BY <1>1

LEMMA OneLifeMoves ==
  ASSUME NEW q \in Pid, \A r \in Pid \ {q} : lifeBar'[r] = lifeBar[r]
  PROVE  lifeBar' = [lifeBar EXCEPT ![q] = lifeBar'[q]]
<1>1. lifeBar = [r \in Pid |-> lifeBar[r]] /\ lifeBar' = [r \in Pid |-> lifeBar'[r]]
  BY DEF lifeBar
<1> QED
  BY <1>1

LEMMA WaitsStay ==
  ASSUME \A p \in Pid : /\ Waiting(p)' <=> Waiting(p)
                        /\ Waiting(p) => child'[p] = child[p]
  PROVE  waitsBar' = waitsBar
BY DEF waitsBar, Waiting

LEMMA OneWaitMoves ==
  ASSUME NEW q \in Pid,
         \A p \in Pid \ {q} : /\ Waiting(p)' <=> Waiting(p)
                              /\ Waiting(p) => child'[p] = child[p]
  PROVE  waitsBar' = [waitsBar EXCEPT ![q] = IF Waiting(q)' THEN child'[q] ELSE NULL]
BY DEF waitsBar, Waiting

\* A process that has not exited runs, for its parent too.
LEMMA AliveRuns ==
  ASSUME NEW q \in Pid, Inv, Owned, q < next_pid, pstate[q] # "DEAD"
  PROVE  lifeBar[q] = "running" /\ ~Collected(q)
<1>1. pblock[q] = "used"
  BY DEF Owned, AliveIsUsed
<1>2. ASSUME NEW p \in Pid, child[p] = q, pc[p] \in Resumed PROVE FALSE
  BY <1>2 DEF Owned, ChildIsDead, Waiting
<1>3. ~Collected(q)
  BY <1>1, <1>2 DEF Collected
<1> QED
  BY <1>3, LifeOf

\* A process that makes a system call.
LEMMA CallerIsFree ==
  ASSUME NEW p \in Pid, Inv, Owned, Runs(p, "user")
  PROVE  /\ ~crashed /\ pc[p] = "user" /\ p < next_pid /\ p \in Nat /\ pstate[p] # "DEAD"
         /\ ~Waiting(p) /\ waitsBar[p] = NULL /\ lifeBar[p] = "running"
<1>1. ~crashed /\ curr = p /\ pc[p] = "user"
  BY DEF Runs
<1>2. p < next_pid /\ p \in Nat
  BY <1>1, Constants DEF Inv, LocalsOK, TypeOK, KthreadTypeOK, Ring
<1>3. pstate[p] # "DEAD"
  BY <1>1 DEF Inv, DeadStaysInExit
<1>4. ~Waiting(p)
  BY <1>1 DEF Waiting, Resumed, Removing
<1>5. waitsBar[p] = NULL
  BY <1>4 DEF waitsBar, Waiting
<1> QED
  BY <1>1, <1>2, <1>3, <1>4, <1>5, AliveRuns

\* What the steps of the API are checked from.
ApiState == Inv /\ Owned /\ Births

LEMMA ApiInit == Init => Api!Init
<1> SUFFICES ASSUME Init PROVE Api!Init
  OBVIOUS
<1>1. Inv
  BY InitInv
<1>2. \A p \in Pid : pc[p] = "user" /\ child[p] = NULL
  BY DEF Init
<1>3. \A p \in Pid : ~Waiting(p)
  BY <1>2 DEF Waiting, Resumed, Removing
<1>4. ASSUME NEW q \in Pid PROVE lifeBar[q] = IF q = 1 THEN "running" ELSE "unborn"
  <2>1. q \in Nat /\ q # 0 /\ next_pid = 2
    BY Constants DEF Init, NULL
  <2>2. CASE q = 1
    <3>1. ~Collected(q)
      BY <1>2, <2>2 DEF Init, Collected, Resumed, Removing
    <3>2. pstate[q] # "DEAD"
      BY DEF Init
    <3> QED
      BY <1>1, <2>1, <2>2, <3>1, <3>2, LifeOf
  <2>3. CASE q # 1
    <3>1. next_pid <= q
      BY <2>1, <2>3
    <3> QED
      BY <1>1, <2>3, <3>1, LifeOf
  <2> QED
    BY <2>2, <2>3
<1>5. lifeBar = [p \in Pid |-> IF p = 1 THEN "running" ELSE "unborn"]
  <2>1. lifeBar = [p \in Pid |-> lifeBar[p]]
    BY DEF lifeBar
  <2> QED
    BY <1>4, <2>1
<1>6. waitsBar = [p \in Pid |-> NULL]
  BY <1>3 DEF waitsBar, Waiting
<1> QED
  BY <1>5, <1>6 DEF Init, Api!Init, Api!Pid, Api!NULL, Pid, NULL

\* A step that leaves every life, wait and code as they are.
LEMMA ApiQuiet ==
  ASSUME Inv, Inv', UNCHANGED <<next_pid, parent, exit_code, status, crashed>>,
         \A q \in Pid : /\ pstate'[q] = "DEAD" <=> pstate[q] = "DEAD"
                        /\ pblock'[q] \in {"free", "reused"} <=> pblock[q] \in {"free", "reused"}
                        /\ Waiting(q)' <=> Waiting(q)
                        /\ Waiting(q) => child'[q] = child[q]
                        /\ pc'[q] \in Resumed \ {"collect"} <=> pc[q] \in Resumed \ {"collect"}
  PROVE  UNCHANGED Api!vars
<1>1. ASSUME NEW q \in Pid PROVE Collected(q)' <=> Collected(q)
  <2>1. \A p \in Pid : pc[p] \in Resumed \ {"collect"} => Waiting(p)
    BY DEF Waiting
  <2>2. \A p \in Pid : child'[p] = q /\ pc'[p] \in Resumed \ {"collect"} <=>
                       child[p] = q /\ pc[p] \in Resumed \ {"collect"}
    BY <2>1
  <2> QED
    BY <2>2 DEF Collected
<1>2. lifeBar' = lifeBar
  BY <1>1, LifeStays, LivesStay
<1>3. waitsBar' = waitsBar
  BY WaitsStay
<1> QED
  BY <1>2, <1>3 DEF Api!vars

LEMMA ApiCrash ==
  ASSUME Inv, Inv', ~crashed, Crash
  PROVE  Api!Stop
<1>1. /\ crashed' = TRUE
      /\ UNCHANGED <<next_pid, pstate, parent, exit_code, pblock, pc, child, status>>
  BY DEF Crash, heap, locals
<1>2. \A q \in Pid : (Collected(q)' <=> Collected(q)) /\ (Waiting(q)' <=> Waiting(q))
  BY <1>1 DEF Collected, Waiting
<1>3. lifeBar' = lifeBar
  BY <1>1, <1>2, LifeStays, LivesStay
<1>4. waitsBar' = waitsBar
  BY <1>1, <1>2, WaitsStay
<1> QED
  BY <1>1, <1>3, <1>4 DEF Api!Stop

\* The scheduler, and the kernel between its wakeup and its last kfree: nothing
\* that a program sees.
LEMMA ApiSilent ==
  ASSUME NEW p \in Pid, Inv, Inv', ~Crash,
         \/ irq_common \/ sys_open(p) \/ wait_woken(p) \/ wait_free_thread(p)
         \/ remove_while(p) \/ remove_compare(p) \/ remove_load(p)
         \/ remove_next(p) \/ remove_store(p) \/ remove_advance(p)
  PROVE  UNCHANGED Api!vars
<1> DEFINE Inner == Removing \cup {"free_thread", "free_process"}
<1>1. ASSUME UNCHANGED <<next_pid, pstate, parent, exit_code, pblock, child, status, crashed>>,
             \/ pc' = pc
             \/ pc[p] = "wait_hlt" /\ pc' = [pc EXCEPT ![p] = "collect"]
             \/ pc[p] \in Inner /\ \E place \in Inner : pc' = [pc EXCEPT ![p] = place]
      PROVE  UNCHANGED Api!vars
  <2>1. \A q \in Pid : \/ pc'[q] = pc[q]
                       \/ pc[q] = "wait_hlt" /\ pc'[q] = "collect"
                       \/ pc[q] \in Inner /\ pc'[q] \in Inner
    BY <1>1 DEF Inv, TypeOK
  <2>2. \A q \in Pid :
          /\ Waiting(q)' <=> Waiting(q)
          /\ pc'[q] \in Resumed \ {"collect"} <=> pc[q] \in Resumed \ {"collect"}
    BY <2>1 DEF Waiting, Resumed, Removing
  <2> QED
    BY <1>1, <2>2, ApiQuiet
<1>2. CASE irq_common
  BY <1>1, <1>2 DEF irq_common, heap, locals
<1>3. CASE sys_open(p)
  <2>1. /\ UNCHANGED <<next_pid, pstate, parent, exit_code, child, status, crashed, pc>>
        /\ \E P \in SUBSET Free(pblock) : pblock' = Reuse(pblock, P)
    BY <1>3 DEF sys_open, locals
  <2>2. \A q \in Pid : pblock'[q] \in {"free", "reused"} <=> pblock[q] \in {"free", "reused"}
    BY <2>1 DEF Reuse, Free
  <2>3. \A q \in Pid : Waiting(q)' <=> Waiting(q)
    BY <2>1 DEF Waiting
  <2> QED
    BY <2>1, <2>2, <2>3, ApiQuiet
<1>4. CASE wait_woken(p)
  BY <1>1, <1>4 DEF wait_woken, Runs, Goto, heap, locals
<1>5. CASE wait_free_thread(p)
  BY <1>1, <1>5 DEF wait_free_thread, Runs, Goto, locals
<1>6. CASE remove_while(p)
  BY <1>1, <1>6 DEF remove_while, Returned, Runs, Goto, heap, Removing
<1>7. CASE remove_compare(p)
  BY <1>1, <1>7 DEF remove_compare, Runs, Goto, heap, locals, Removing
<1>8. CASE remove_load(p)
  BY <1>1, <1>8 DEF remove_load, Runs, Goto, heap, Removing
<1>9. CASE remove_next(p)
  BY <1>1, <1>9 DEF remove_next, Runs, Goto, heap, Removing
<1>10. CASE remove_store(p)
  BY <1>1, <1>10 DEF remove_store, Runs, Goto, heap, locals, Removing
<1>11. CASE remove_advance(p)
  BY <1>1, <1>11 DEF remove_advance, Runs, Goto, heap, Removing
<1> QED
  BY <1>2, <1>3, <1>4, <1>5, <1>6, <1>7, <1>8, <1>9, <1>10, <1>11

LEMMA ApiSpawn ==
  ASSUME NEW p \in Pid, ApiState, Inv', sys_spawn(p), ~Crash
  PROVE  \E q \in Pid : Api!Spawn(p, q)
<1>0. PICK n : n = next_pid
  OBVIOUS
<1>1. PICK P \in SUBSET Free(pblock) :
        /\ Runs(p, "user") /\ n <= MaxPid /\ next_pid' = n + 1
        /\ pstate' = [pstate EXCEPT ![n] = "RUNNING"]
        /\ exit_code' = [exit_code EXCEPT ![n] = 0]
        /\ pblock' = [Reuse(pblock, P) EXCEPT ![n] = "used"]
        /\ parent' = [parent EXCEPT ![n] = p]
        /\ UNCHANGED <<pc, child, status, crashed>>
  BY <1>0 DEF sys_spawn, uprocess_create, locals
<1>2. n \in Pid /\ n \in Nat
  BY <1>0, <1>1, Constants DEF ApiState, Inv, TypeOK, Pid
<1>3. Api!Free(p)
  BY <1>1, CallerIsFree DEF ApiState, Api!Free, Api!NULL, NULL
<1>4. lifeBar[n] = "unborn"
  BY <1>0, <1>2, LifeOf DEF ApiState
<1>5. exit_code' = exit_code
  <2>1. exit_code[n] = 0
    BY <1>0, <1>2 DEF ApiState, Births
  <2> QED
    BY <1>1, <1>2, <2>1 DEF ApiState, Inv, TypeOK
<1>6. waitsBar' = waitsBar
  BY <1>1, WaitsStay DEF Waiting
<1>7. \A r \in Pid : pblock'[r] = IF r = n THEN "used"
                                  ELSE IF r \in P THEN "reused" ELSE pblock[r]
  BY <1>1 DEF Reuse
<1>8. \A r \in Pid : pstate'[r] = IF r = n THEN "RUNNING" ELSE pstate[r]
  BY <1>1 DEF ApiState, Inv, TypeOK
<1>9. lifeBar'[n] = "running"
  <2>1. \A r \in Pid : child[r] # n
    BY <1>0, <1>2, Constants DEF ApiState, Inv, LocalsOK, TypeOK, NULL
  <2>2. ~Collected(n)'
    BY <1>1, <1>2, <1>7, <2>1 DEF Collected
  <2>3. n < next_pid'
    BY <1>1, <1>2
  <2> QED
    BY <1>2, <1>8, <2>2, <2>3, LifeAfter
<1>10. ASSUME NEW r \in Pid \ {n} PROVE lifeBar'[r] = lifeBar[r]
  <2>1. Collected(r)' <=> Collected(r)
    BY <1>1, <1>7, <1>10 DEF Collected, Free
  <2>2. /\ next_pid <= r <=> next_pid' <= r
        /\ r < next_pid <=> r < next_pid'
        /\ next_pid <= r \/ r < next_pid
    BY <1>0, <1>1, <1>2, <1>10, Constants
  <2> QED
    BY <1>8, <1>10, <2>1, <2>2, LifeOf, LifeAfter DEF ApiState
<1>11. lifeBar' = [lifeBar EXCEPT ![n] = "running"]
  BY <1>2, <1>9, <1>10, OneLifeMoves
<1>12. Api!Spawn(p, n)
  BY <1>1, <1>3, <1>4, <1>5, <1>6, <1>11 DEF Api!Spawn
<1> QED
  BY <1>2, <1>12

LEMMA ApiExit ==
  ASSUME NEW p \in Pid, ApiState, Inv', sys_exit(p), ~Crash
  PROVE  Api!Exit(p)
<1>1. PICK code \in ExitCodes :
        /\ Runs(p, "user")
        /\ exit_code' = [exit_code EXCEPT ![p] = code]
        /\ pstate' = StatesAfterExit(p)
        /\ pc' = [pc EXCEPT ![p] = "exit_hlt"]
        /\ UNCHANGED <<next_pid, parent, pblock, child, status, crashed>>
  BY DEF sys_exit, Goto, heap, locals
<1>2. /\ Api!Free(p) /\ pc[p] = "user" /\ p < next_pid /\ ~Waiting(p) /\ ~Collected(p)
  BY <1>1, CallerIsFree, AliveRuns DEF ApiState, Api!Free, Api!NULL, NULL
<1>3. \A r \in Pid : pc'[r] = IF r = p THEN "exit_hlt" ELSE pc[r]
  BY <1>1 DEF ApiState, Inv, TypeOK
<1>4. \A r \in Pid : /\ Waiting(r)' <=> Waiting(r)
                     /\ pc'[r] \in Resumed \ {"collect"} <=> pc[r] \in Resumed \ {"collect"}
  BY <1>2, <1>3 DEF Waiting, Resumed, Removing
<1>5. waitsBar' = waitsBar
  BY <1>1, <1>4, WaitsStay
<1>6. \A r \in Pid : Collected(r)' <=> Collected(r)
  BY <1>1, <1>4 DEF Collected
<1>7. \A r \in Pid : pstate'[r] = "DEAD" <=> r = p \/ pstate[r] = "DEAD"
  BY <1>1 DEF StatesAfterExit, Waits
<1>8. lifeBar'[p] = "zombie"
  BY <1>1, <1>2, <1>6, <1>7, LifeAfter
<1>9. \A r \in Pid \ {p} : lifeBar'[r] = lifeBar[r]
  BY <1>1, <1>6, <1>7, LifeStays DEF ApiState
<1>10. lifeBar' = [lifeBar EXCEPT ![p] = "zombie"]
  BY <1>8, <1>9, OneLifeMoves
<1> QED
  BY <1>1, <1>2, <1>5, <1>10 DEF Api!Exit

LEMMA ApiWait ==
  ASSUME NEW p \in Pid, NEW q \in Pid, ApiState, Inv', sys_wait_block(p, q)
  PROVE  Api!Wait(p, q)
<1>1. /\ Runs(p, "user") /\ parent[q] = p /\ pstate[q] # "DEAD"
      /\ child' = [child EXCEPT ![p] = q]
      /\ pstate' = [pstate EXCEPT ![p] = "WAITING"]
      /\ pc' = [pc EXCEPT ![p] = "wait_hlt"]
      /\ UNCHANGED <<next_pid, parent, exit_code, pblock, status, crashed>>
  BY DEF sys_wait_block, Waitable, Goto, heap
<1>2. Api!Free(p) /\ pc[p] = "user" /\ pstate[p] # "DEAD"
  BY <1>1, CallerIsFree DEF ApiState, Api!Free, Api!NULL, NULL
<1>3. q < next_pid
  BY <1>1, Constants DEF ApiState, Inv, LocalsOK, TypeOK
<1>4. lifeBar[q] = "running"
  BY <1>1, <1>3, AliveRuns DEF ApiState
<1>5. \A r \in Pid : /\ pc'[r] = IF r = p THEN "wait_hlt" ELSE pc[r]
                     /\ child'[r] = IF r = p THEN q ELSE child[r]
                     /\ pstate'[r] = IF r = p THEN "WAITING" ELSE pstate[r]
  BY <1>1 DEF ApiState, Inv, TypeOK
<1>6. Waiting(p)' /\ child'[p] = q
  BY <1>5 DEF Waiting
<1>7. \A r \in Pid \ {p} : (Waiting(r)' <=> Waiting(r)) /\ child'[r] = child[r]
  BY <1>5 DEF Waiting
<1>8. waitsBar' = [waitsBar EXCEPT ![p] = q]
  BY <1>6, <1>7, OneWaitMoves
<1>9. ASSUME NEW r \in Pid PROVE Collected(r)' <=> Collected(r)
  <2>1. \A s \in Pid : child'[s] = r /\ pc'[s] \in Resumed \ {"collect"} <=>
                       child[s] = r /\ pc[s] \in Resumed \ {"collect"}
    BY <1>2, <1>5 DEF Resumed, Removing
  <2> QED
    BY <1>1, <2>1 DEF Collected
<1>10. \A r \in Pid : lifeBar'[r] = lifeBar[r]
  BY <1>1, <1>2, <1>5, <1>9, LifeStays DEF ApiState
<1> QED
  BY <1>1, <1>2, <1>4, <1>8, <1>10, LivesStay DEF Api!Wait

LEMMA ApiWaitDead ==
  ASSUME NEW p \in Pid, NEW q \in Pid, ApiState, Inv', sys_wait_dead(p, q)
  PROVE  Api!Reap(p, q) \/ Api!Again(p, q)
<1>1. /\ Runs(p, "user") /\ parent[q] = p /\ pstate[q] = "DEAD"
      /\ status' = [status EXCEPT ![p] = exit_code[q]]
      /\ pblock' = kfree(pblock, q)
      /\ UNCHANGED <<next_pid, pstate, parent, exit_code, pc, child, crashed>>
  BY DEF sys_wait_dead, Waitable
<1>2. /\ Api!Free(p) /\ ~crashed /\ lifeBar[p] = "running" /\ waitsBar[p] = Api!NULL
  BY <1>1, CallerIsFree DEF ApiState, Api!Free, Api!NULL, NULL
<1>3. q < next_pid
  BY <1>1, Constants DEF ApiState, Inv, LocalsOK, TypeOK
<1>4. waitsBar' = waitsBar
  BY <1>1, WaitsStay DEF Waiting
<1>5. \A r \in Pid : pblock'[r] = IF r = q /\ pblock[q] = "used" THEN "free" ELSE pblock[r]
  BY <1>1 DEF kfree, ApiState, Inv, TypeOK
<1>6. \A r \in Pid \ {q} : Collected(r)' <=> Collected(r)
  BY <1>1, <1>5 DEF Collected
<1>7. pblock[q] \in {"used", "free", "reused"}
  BY <1>3 DEF ApiState, Births, Inv, TypeOK, Block
<1>8. Collected(q)'
  BY <1>5, <1>7 DEF Collected
<1>9. \A r \in Pid \ {q} : lifeBar'[r] = lifeBar[r]
  BY <1>1, <1>6, LifeStays DEF ApiState
<1>10. lifeBar'[q] = "reaped"
  BY <1>1, <1>3, <1>8, LifeAfter
<1>11. lifeBar' = [lifeBar EXCEPT ![q] = "reaped"]
  BY <1>9, <1>10, OneLifeMoves
<1>12. CASE Collected(q)
  <2>1. lifeBar[q] = "reaped"
    BY <1>3, <1>12, LifeOf DEF ApiState
  <2>2. lifeBar' = lifeBar
    BY <1>9, <1>10, <2>1, LivesStay
  <2> QED
    BY <1>1, <1>2, <1>4, <2>1, <2>2 DEF Api!Again
<1>13. CASE ~Collected(q)
  <2>1. lifeBar[q] = "zombie"
    BY <1>1, <1>3, <1>13, LifeOf DEF ApiState
  <2> QED
    BY <1>1, <1>2, <1>4, <1>11, <2>1 DEF Api!Reap
<1> QED
  BY <1>12, <1>13

LEMMA ApiCollect ==
  ASSUME NEW p \in Pid, ApiState, Inv', wait_collect(p), ~Crash
  PROVE  Api!Reap(p, child[p])
<1>0. PICK q : q = child[p]
  OBVIOUS
<1>1. /\ ~crashed /\ pc[p] = "collect" /\ curr = p
      /\ status' = [status EXCEPT ![p] = exit_code[q]]
      /\ pc' = [pc EXCEPT ![p] = "while"]
      /\ UNCHANGED <<next_pid, pstate, parent, exit_code, pblock, child, crashed>>
  BY <1>0 DEF wait_collect, Runs, Goto, heap
<1>2. Waiting(p) /\ pc[p] \in Resumed /\ pc[p] # "free_process"
  BY <1>1 DEF Waiting, Resumed
<1>3. q \in Pid /\ p < next_pid
  BY <1>0, <1>2, ChildIsPid DEF ApiState
<1>4. parent[q] = p /\ pblock[q] = "used" /\ pstate[q] = "DEAD"
  BY <1>0, <1>2 DEF ApiState, Owned, OwnsChild, ChildIsDead
<1>5. q < next_pid
  BY <1>3, <1>4, Constants DEF ApiState, Inv, LocalsOK, TypeOK
<1>6. pstate[p] # "DEAD"
  BY <1>1 DEF ApiState, Inv, DeadStaysInExit
<1>7. lifeBar[p] = "running"
  BY <1>3, <1>6, AliveRuns DEF ApiState
<1>8. waitsBar[p] = q
  BY <1>0, <1>2 DEF waitsBar, Waiting
<1>9. \A r \in Pid : pc'[r] = IF r = p THEN "while" ELSE pc[r]
  BY <1>1 DEF ApiState, Inv, TypeOK
<1>10. lifeBar[q] = "zombie"
  <2>1. ASSUME NEW r \in Pid, child[r] = q, pc[r] \in Resumed \ {"collect"} PROVE FALSE
    <3>1. parent[q] = r
      BY <2>1 DEF ApiState, Owned, OwnsChild, Waiting
    <3> QED
      BY <1>1, <1>4, <2>1, <3>1
  <2>2. ~Collected(q)
    BY <1>4, <2>1 DEF Collected
  <2> QED
    BY <1>3, <1>4, <1>5, <2>2, LifeOf DEF ApiState
<1>11. lifeBar'[q] = "reaped"
  <2>1. child'[p] = q /\ pc'[p] \in Resumed \ {"collect"}
    BY <1>0, <1>1, <1>9 DEF Resumed, Removing
  <2>2. Collected(q)'
    BY <2>1 DEF Collected
  <2> QED
    BY <1>1, <1>3, <1>5, <2>2, LifeAfter
<1>12. ASSUME NEW r \in Pid \ {q} PROVE lifeBar'[r] = lifeBar[r]
  <2>1. Collected(r)' <=> Collected(r)
    BY <1>0, <1>1, <1>9, <1>12 DEF Collected
  <2> QED
    BY <1>1, <1>12, <2>1, LifeStays DEF ApiState
<1>13. lifeBar' = [lifeBar EXCEPT ![q] = "reaped"]
  BY <1>3, <1>11, <1>12, OneLifeMoves
<1>14. waitsBar' = waitsBar
  <2>1. \A r \in Pid : Waiting(r)' <=> Waiting(r)
    BY <1>2, <1>9 DEF Waiting, Resumed, Removing
  <2> QED
    BY <1>1, <2>1, WaitsStay
<1>15. Api!Reap(p, q)
  BY <1>1, <1>4, <1>7, <1>8, <1>10, <1>13, <1>14 DEF Api!Reap
<1> QED
  BY <1>0, <1>15

LEMMA ApiReturn ==
  ASSUME NEW p \in Pid, ApiState, Inv', wait_free_process(p), ~Crash
  PROVE  Api!Return(p)
<1>0. PICK q : q = child[p]
  OBVIOUS
<1>1. /\ ~crashed /\ pc[p] = "free_process"
      /\ pblock' = kfree(pblock, q)
      /\ pc' = [pc EXCEPT ![p] = "user"]
      /\ UNCHANGED <<next_pid, pstate, parent, exit_code, child, status, crashed>>
  BY <1>0 DEF wait_free_process, Runs, Goto, locals
<1>2. Waiting(p) /\ pc[p] \in Resumed \ {"collect"}
  BY <1>1 DEF Waiting, Resumed
<1>3. q \in Pid /\ p < next_pid /\ q # NULL
  BY <1>0, <1>2, ChildIsPid, Constants DEF ApiState
<1>4. parent[q] = p /\ pblock[q] = "used"
  BY <1>0, <1>2 DEF ApiState, Owned, OwnsChild
<1>5. q < next_pid
  BY <1>3, <1>4, Constants DEF ApiState, Inv, LocalsOK, TypeOK
<1>6. waitsBar[p] = q
  BY <1>0, <1>2 DEF waitsBar, Waiting
<1>7. \A r \in Pid : /\ pc'[r] = IF r = p THEN "user" ELSE pc[r]
                     /\ pblock'[r] = IF r = q THEN "free" ELSE pblock[r]
  BY <1>1, <1>4 DEF kfree, ApiState, Inv, TypeOK
<1>8. Collected(q)
  BY <1>0, <1>2 DEF Collected
<1>9. lifeBar[q] = "reaped"
  BY <1>3, <1>5, <1>8, LifeOf DEF ApiState
<1>10. ASSUME NEW r \in Pid PROVE Collected(r)' <=> Collected(r)
  <2>1. CASE r = q
    BY <1>7, <1>8, <2>1 DEF Collected
  <2>2. CASE r # q
    <3>1. \A s \in Pid : child'[s] = r /\ pc'[s] \in Resumed \ {"collect"} <=>
                         child[s] = r /\ pc[s] \in Resumed \ {"collect"}
      BY <1>0, <1>1, <1>7, <2>2
    <3> QED
      BY <1>7, <2>2, <3>1 DEF Collected
  <2> QED
    BY <2>1, <2>2
<1>11. \A r \in Pid : lifeBar'[r] = lifeBar[r]
  BY <1>1, <1>10, LifeStays DEF ApiState
<1>12. ~Waiting(p)'
  BY <1>7 DEF Waiting, Resumed, Removing
<1>13. \A r \in Pid \ {p} : (Waiting(r)' <=> Waiting(r)) /\ (Waiting(r) => child'[r] = child[r])
  BY <1>1, <1>7 DEF Waiting
<1>14. waitsBar' = [waitsBar EXCEPT ![p] = NULL]
  BY <1>12, <1>13, OneWaitMoves
<1> QED
  BY <1>1, <1>3, <1>6, <1>9, <1>11, <1>14, LivesStay DEF Api!Return, Api!NULL, NULL

LEMMA ApiNext == ApiState /\ Inv' /\ [Next]_vars => [Api!Next]_(Api!vars)
<1> SUFFICES ASSUME ApiState, Inv', [Next]_vars PROVE [Api!Next]_(Api!vars)
  OBVIOUS
<1>1. ASSUME ~crashed, Crash PROVE Api!Next
  BY <1>1, ApiCrash DEF ApiState, Api!Next
<1>2. CASE pit_callback \/ irq_other
  <2>1. irq_common /\ ~crashed
    BY <1>2 DEF pit_callback, irq_other, irq_common
  <2>2. 1 \in Pid
    BY Constants
  <2> QED
    BY <1>1, <2>1, <2>2, ApiSilent DEF ApiState
<1>3. ASSUME NEW p \in Pid, UserCall(p) PROVE [Api!Next]_(Api!vars)
  <2>1. ~crashed
    BY <1>3 DEF UserCall, sys_spawn, sys_open, sys_exit, sys_wait_dead, sys_wait_block,
                sys_wait_crash, Runs
  <2>2. CASE Crash
    BY <1>1, <2>1, <2>2
  <2>3. CASE sys_spawn(p) /\ ~Crash
    BY <2>3, ApiSpawn DEF Api!Next, Api!Pid, Pid
  <2>4. CASE sys_open(p) /\ ~Crash
    BY <2>4, ApiSilent DEF ApiState
  <2>5. CASE sys_exit(p) /\ ~Crash
    BY <2>5, ApiExit DEF Api!Next, Api!Pid, Pid
  <2>6. ASSUME NEW q \in Pid, sys_wait_dead(p, q) PROVE Api!Next
    BY <2>6, ApiWaitDead DEF Api!Next, Api!Pid, Pid
  <2>7. ASSUME NEW q \in Pid, sys_wait_block(p, q) PROVE Api!Next
    BY <2>7, ApiWait DEF Api!Next, Api!Pid, Pid
  <2> QED
    BY <1>3, <2>2, <2>3, <2>4, <2>5, <2>6, <2>7 DEF UserCall, sys_wait_crash
<1>4. ASSUME NEW p \in Pid, KernelStep(p) PROVE [Api!Next]_(Api!vars)
  <2>1. ~crashed /\ Waiting(p)
    BY <1>4 DEF KernelStep, wait_woken, wait_collect, remove_while, remove_compare,
                remove_load, remove_next, remove_store, remove_advance,
                wait_free_thread, wait_free_process, Runs, Waiting, Resumed, Removing
  <2>2. CASE Crash
    BY <1>1, <2>1, <2>2
  <2>3. CASE wait_collect(p) /\ ~Crash
    <3>1. child[p] \in Pid
      BY <2>1, ChildIsPid DEF ApiState
    <3> QED
      BY <2>3, <3>1, ApiCollect DEF Api!Next, Api!Pid, Pid
  <2>4. CASE wait_free_process(p) /\ ~Crash
    BY <2>4, ApiReturn DEF Api!Next, Api!Pid, Pid
  <2>5. CASE ~wait_collect(p) /\ ~wait_free_process(p) /\ ~Crash
    BY <1>4, <2>5, ApiSilent DEF ApiState, KernelStep
  <2> QED
    BY <2>2, <2>3, <2>4, <2>5
<1>5. CASE UNCHANGED vars
  <2>1. \A q \in Pid : Waiting(q)' <=> Waiting(q)
    BY <1>5 DEF vars, Waiting
  <2> QED
    BY <1>5, <2>1, ApiQuiet DEF ApiState, vars
<1> QED
  BY <1>2, <1>3, <1>4, <1>5 DEF Next

\* Programs that have one child at a time see what ProcessApi says, whatever is
\* scheduled between the steps of their waits; that the waits end is fairness.
THEOREM ProcessesImplementApi ==
  MaxChildren = 1 /\ Spec => Api!Init /\ [][Api!Next]_(Api!vars)
<1>1. Births /\ Inv /\ [Next]_vars => Births'
  BY BirthsNext
<1>2. MaxChildren = 1 /\ Spec => []ApiState
  BY <1>1, BirthsInit, OwnedAlways, PTL DEF ApiState, Spec
<1>3. ApiState /\ ApiState' /\ [Next]_vars => [Api!Next]_(Api!vars)
  BY ApiNext DEF ApiState
<1>4. MaxChildren = 1 /\ Spec => [][Api!Next]_(Api!vars)
  BY <1>2, <1>3, PTL DEF Spec
<1>5. Spec => Api!Init
  BY ApiInit, PTL DEF Spec
<1> QED
  BY <1>4, <1>5

==============================================================================
