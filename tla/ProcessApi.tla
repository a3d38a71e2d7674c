----------------------------- MODULE ProcessApi ------------------------------
(***************************************************************************)
(* What the spawn, exit and wait system calls promise to a program: a      *)
(* process runs until it exits, stays behind as a zombie, and is reaped by *)
(* its parent, whose wait returns the code the child exited with.  wait    *)
(* never returns before the child it names has exited, and always returns  *)
(* after it has.  It does not promise that a wait for a child that has     *)
(* been reaped fails.                                                      *)
(***************************************************************************)
EXTENDS Integers

CONSTANTS MaxPid, ExitCodes

Pid  == 1..MaxPid
NULL == 0

VARIABLES
  life,     \* "unborn", "running", "zombie" or "reaped"
  parent,   \* who spawned it
  code,     \* the code it exited with
  waits,    \* the child p is waiting for, NULL while it is not waiting
  got,      \* the code p's last wait delivered
  up        \* FALSE once the kernel has stopped working

vars == <<life, parent, code, waits, got, up>>

Init ==
  /\ life = [p \in Pid |-> IF p = 1 THEN "running" ELSE "unborn"]
  /\ parent = [p \in Pid |-> NULL]
  /\ code = [p \in Pid |-> 0]
  /\ waits = [p \in Pid |-> NULL]
  /\ got = [p \in Pid |-> 0]
  /\ up = TRUE

Free(p) == up /\ waits[p] = NULL /\ life[p] = "running"

Spawn(p, q) ==
  /\ Free(p)
  /\ life[q] = "unborn"
  /\ life' = [life EXCEPT ![q] = "running"]
  /\ parent' = [parent EXCEPT ![q] = p]
  /\ UNCHANGED <<code, waits, got, up>>

Exit(p) ==
  /\ Free(p)
  /\ life' = [life EXCEPT ![p] = "zombie"]
  /\ \E c \in ExitCodes : code' = [code EXCEPT ![p] = c]
  /\ UNCHANGED <<parent, waits, got, up>>

Wait(p, q) ==
  /\ parent[q] = p
  /\ Free(p)
  /\ life[q] = "running"
  /\ waits' = [waits EXCEPT ![p] = q]
  /\ UNCHANGED <<life, parent, code, got, up>>

\* The parent takes the code; a wait for a zombie does so at once.
Reap(p, q) ==
  /\ up
  /\ parent[q] = p
  /\ waits[p] \in {NULL, q}
  /\ life[p] = "running"
  /\ life[q] = "zombie"
  /\ life' = [life EXCEPT ![q] = "reaped"]
  /\ got' = [got EXCEPT ![p] = code[q]]
  /\ UNCHANGED <<parent, code, waits, up>>

\* The same code a second time: when two processes unlink neighbours of the
\* process list at once, the entry of one may stay in it.
Again(p, q) ==
  /\ parent[q] = p
  /\ Free(p)
  /\ life[q] = "reaped"
  /\ got' = [got EXCEPT ![p] = code[q]]
  /\ UNCHANGED <<life, parent, code, waits, up>>

Return(p) ==
  /\ up
  /\ waits[p] # NULL
  /\ life[waits[p]] = "reaped"
  /\ waits' = [waits EXCEPT ![p] = NULL]
  /\ UNCHANGED <<life, parent, code, got, up>>

Stop == up /\ up' = FALSE /\ UNCHANGED <<life, parent, code, waits, got>>

FinishWait(p) == Return(p) \/ (waits[p] # NULL /\ Reap(p, waits[p]))

Next ==
  \/ \E p, q \in Pid : Spawn(p, q) \/ Wait(p, q) \/ Reap(p, q) \/ Again(p, q)
  \/ \E p \in Pid : Exit(p) \/ Return(p)
  \/ Stop

Spec == Init /\ [][Next]_vars /\ \A p \in Pid : WF_vars(FinishWait(p))

==============================================================================
