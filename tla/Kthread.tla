------------------------------- MODULE Kthread -------------------------------
(***************************************************************************)
(* The thread scheduler of src/thread/kthread.c: a circular list of        *)
(* threads, the current thread and the schedule_pending flag that the      *)
(* interrupt return path of src/idt/isr_stubs.s tests.                     *)
(*                                                                         *)
(* A thread is a number.  1..MaxPid are the threads of the user processes, *)
(* each named by the pid of its process (uprocess_create makes exactly one *)
(* thread per process); the two kernel threads kmain creates follow them.  *)
(* The module has the state and the operations; module Uprocess composes   *)
(* them with the processes and says which steps happen.                    *)
(***************************************************************************)
EXTENDS Integers

CONSTANT MaxPid      \* bound: the number of processes ever created

ASSUME MaxPidAssumption == MaxPid \in Nat \ {0}

Pid    == 1..MaxPid
NULL   == 0
Idle   == MaxPid + 1
Main   == MaxPid + 2
Thread == 1..MaxPid + 2

ThreadState == {"READY", "RUNNING", "BLOCKED", "DEAD"}

VARIABLES
  tnext,      \* thread_t.next; NULL while the thread is not in the ring
  tstate,     \* thread_t.state
  curr,       \* curr_thread
  pending     \* schedule_pending

Ring == {t \in Thread : tnext[t] # NULL}

(***************************************************************************)
(* scheduler_add: link t between the tail of the ring and its head.  The   *)
(* head is the idle thread, the first one kmain adds; no thread is ever    *)
(* removed, so it stays the head.                                          *)
(***************************************************************************)
thread_list_head == Idle

RingTail == CHOOSE t \in Thread : tnext[t] = thread_list_head

\* A slip the properties must notice: the tail is not linked to t.
scheduler_addUnlinked(t) == [tnext EXCEPT ![t] = thread_list_head]

scheduler_add(t) ==
  [tnext EXCEPT ![RingTail] = t, ![t] = thread_list_head]

(***************************************************************************)
(* scheduler_next: the first thread from curr->next on that is ready or    *)
(* running, or the idle thread when the walk comes back to where it began. *)
(***************************************************************************)
Runnable(st, t) == st[t] \in {"READY", "RUNNING"}

Step[i \in 0..MaxPid + 1] == IF i = 0 THEN tnext[curr] ELSE tnext[Step[i - 1]]

\* The walk over the ring, the thread states being st, gets as far as t.
Reaches(st, t) ==
  \E i \in 0..MaxPid + 1 :
    t = Step[i] /\ \A j \in 0..i - 1 : ~Runnable(st, Step[j])

scheduler_next(st) ==
  LET first == {t \in Ring : Reaches(st, t) /\ Runnable(st, t)} IN
  IF first # {} THEN CHOOSE t \in first : TRUE ELSE Idle

\* The threads whose state the walk reads.
Scanned(st) == {t \in Ring : Reaches(st, t)}

(***************************************************************************)
(* scheduler_switch, the thread states being st (the handler that ran      *)
(* before it may have changed them): the old thread becomes ready whatever *)
(* it was, the next one runs.  When the walk returns the current thread    *)
(* nothing changes, so a blocked or dead thread would keep its state.      *)
(***************************************************************************)
\* A slip: a thread that blocked keeps its state, as if someone else were to
\* wake it.
StateKeepingBlocked(st, next) ==
  [st EXCEPT ![curr] = IF @ = "RUNNING" THEN "READY" ELSE @,
                 ![next] = "RUNNING"]

StateAfterSwitch(st, next) == [st EXCEPT ![curr] = "READY", ![next] = "RUNNING"]

scheduler_switch(st) ==
  LET next == scheduler_next(st) IN
  IF next = curr
  THEN tstate' = st /\ UNCHANGED curr
  ELSE tstate' = StateAfterSwitch(st, next) /\ curr' = next

(***************************************************************************)
(* The ring at kmain's last instruction: idle, main, and the thread of     *)
(* process 1; main is the current thread.                                  *)
(***************************************************************************)
\* A slip: kmain does not set curr_thread.
NoBootThread == NULL

BootThread == Main

KthreadInit ==
  /\ tnext = [t \in Thread |-> CASE t = Idle -> Main
                                 [] t = Main -> 1
                                 [] t = 1    -> Idle
                                 [] OTHER    -> NULL]
  /\ tstate = [t \in Thread |-> IF t = BootThread THEN "RUNNING" ELSE "READY"]
  /\ curr = BootThread
  /\ pending = FALSE

KthreadTypeOK ==
  /\ tnext \in [Thread -> Thread \cup {NULL}]
  /\ tstate \in [Thread -> ThreadState]
  /\ curr \in Ring
  /\ pending \in BOOLEAN

==============================================================================
