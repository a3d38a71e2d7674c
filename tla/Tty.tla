--------------------------------- MODULE Tty ---------------------------------
(***************************************************************************)
(* The terminal of src/devices/tty/tty.c: a ring buffer of characters that *)
(* the keyboard interrupt fills and the read system calls of the processes *)
(* drain a line at a time, with the scheduler of module Kthread under it.  *)
(*                                                                         *)
(* tty_read runs with interrupts off except for its "sti; hlt; cli": from  *)
(* one hlt to the next it is one step.  Echoing to the console is left     *)
(* out; module Console has the console.                                    *)
(***************************************************************************)
EXTENDS Kthread, Sequences

CONSTANTS
  TTY_RING_SIZE,
  Char,           \* the characters that are typed, without backspace
  NL,             \* the one that ends a line
  Lens            \* the lengths programs read with

ASSUME TtyAssumption ==
  /\ TTY_RING_SIZE \in Nat \ {0}
  /\ NL \in Char
  /\ Lens \subseteq Nat \ {0}

VARIABLES
  ring, ring_read, ring_write, ring_count, line_len,
  at,     \* where the thread of a process stands: "user", in "hlt", or "awake"
          \* once an interrupt has ended the hlt
  len,    \* the length its tty_read was called with
  buf     \* what its last tty_read returned

buffer == <<ring, ring_read, ring_write, ring_count, line_len>>
vars   == <<tnext, tstate, curr, pending, ring, ring_read, ring_write,
            ring_count, line_len, at, len, buf>>

Index == 0..TTY_RING_SIZE - 1
NUL   == "nul"     \* what the ring holds before anything is typed

------------------------------------------------------------------------------
(***************************************************************************)
(* Interrupts.  Every interrupt ends the hlt of the current thread; the    *)
(* return path switches threads when schedule_pending is set, which every  *)
(* tenth timer tick does.                                                  *)
(***************************************************************************)
Awake == [at EXCEPT ![curr] = IF @ = "hlt" THEN "awake" ELSE @]

EndHlt == at' = IF curr \in Pid THEN Awake ELSE at

irq_common(st, set) ==
  /\ IF set THEN scheduler_switch(st) ELSE tstate' = st /\ UNCHANGED curr
  /\ pending' = FALSE
  /\ EndHlt
  /\ UNCHANGED tnext

\* irq 0, the tenth tick; irq 0 and 12 when they do not set the flag.
pit_callback == irq_common(tstate, TRUE) /\ UNCHANGED <<buffer, len, buf>>

irq_other == irq_common(tstate, pending) /\ UNCHANGED <<buffer, len, buf>>

(***************************************************************************)
(* tty_input_push, called by the keyboard interrupt (irq 1), for a         *)
(* backspace and for any other character.  It wakes the current thread     *)
(* only; a character that finds the ring full is dropped.                  *)
(***************************************************************************)
\* A slip: backspace looks at the ring only.
CanEraseAny == ring_count # 0

CanErase == line_len # 0

PushErase ==
  IF CanErase /\ ring_count > 0
  THEN /\ ring_write' = (ring_write + TTY_RING_SIZE - 1) % TTY_RING_SIZE
       /\ ring_count' = ring_count - 1
       /\ line_len' = line_len - 1
       /\ UNCHANGED <<ring, ring_read>>
  ELSE UNCHANGED buffer

\* A slip: off by one.
FullTooLate == ring_count > TTY_RING_SIZE

Full == ring_count >= TTY_RING_SIZE

\* A slip: a newline does not start a new line.
LineLenNoReset(c) == line_len + 1

LineLenAfter(c) == IF c = NL THEN 0 ELSE line_len + 1

PushChar(c) ==
  /\ ring' = [ring EXCEPT ![ring_write] = c]
  /\ ring_write' = (ring_write + 1) % TTY_RING_SIZE
  /\ ring_count' = ring_count + 1
  /\ line_len' = LineLenAfter(c)
  /\ UNCHANGED ring_read

BlockedNow == tstate[curr] = "BLOCKED"

tty_input_erase ==
  /\ PushErase
  /\ irq_common(tstate, pending)
  /\ UNCHANGED <<len, buf>>

tty_input_push(c) ==
  /\ IF Full
     THEN UNCHANGED buffer /\ irq_common(tstate, pending)
     ELSE /\ PushChar(c)
          /\ irq_common(IF BlockedNow THEN [tstate EXCEPT ![curr] = "READY"]
                                      ELSE tstate,
                        pending \/ BlockedNow)
  /\ UNCHANGED <<len, buf>>

------------------------------------------------------------------------------
(***************************************************************************)
(* tty_read.  The buffer holds Slot(1), ..., Slot(ring_count).             *)
(***************************************************************************)
Slot(i) == ring[(ring_read + i - 1) % TTY_RING_SIZE]

has_newline == \E i \in 1..ring_count : Slot(i) = NL

\* How many characters the last loop of tty_read takes.
Take(n) ==
  CHOOSE k \in 1..n :
    /\ k <= ring_count
    /\ \A i \in 1..k - 1 : Slot(i) # NL
    /\ k = n \/ k = ring_count \/ Slot(k) = NL

Drain(p, n) ==
  LET k == Take(n) IN
  /\ buf' = [buf EXCEPT ![p] = [i \in 1..k |-> Slot(i)]]
  /\ ring_read' = (ring_read + k) % TTY_RING_SIZE
  /\ ring_count' = ring_count - k
  /\ UNCHANGED <<ring, ring_write, line_len>>

\* The loop of tty_read from its head, the thread states being st: drain a
\* line of at most n characters, or block and halt.
ReadLoop(p, n, st) ==
  IF has_newline
  THEN /\ Drain(p, n)
       /\ at' = [at EXCEPT ![p] = "user"]
       /\ tstate' = st
       /\ UNCHANGED pending
  ELSE /\ UNCHANGED <<buffer, buf>>
       /\ at' = [at EXCEPT ![p] = "hlt"]
       /\ tstate' = [st EXCEPT ![p] = "BLOCKED"]
       /\ pending' = TRUE

tty_read(p) ==
  /\ curr = p
  /\ at[p] = "user"
  /\ \E n \in Lens : /\ len' = [len EXCEPT ![p] = n]
                     /\ ReadLoop(p, n, tstate)
  /\ UNCHANGED <<tnext, curr>>

tty_read_awake(p) ==
  /\ curr = p
  /\ at[p] = "awake"
  /\ ReadLoop(p, len[p], [tstate EXCEPT ![p] = "RUNNING"])
  /\ UNCHANGED <<len, tnext, curr>>

------------------------------------------------------------------------------
\* Every process has been spawned; the terminal is empty.
TtyRing == [t \in Thread |-> IF t = Main THEN 1
                             ELSE IF t = MaxPid THEN Idle ELSE t + 1]

Init ==
  /\ tnext = TtyRing
  /\ tstate = [t \in Thread |-> IF t = BootThread THEN "RUNNING" ELSE "READY"]
  /\ curr = BootThread
  /\ pending = FALSE
  /\ ring = [i \in Index |-> NUL]
  /\ ring_read = 0
  /\ ring_write = 0
  /\ ring_count = 0
  /\ line_len = 0
  /\ at = [p \in Pid |-> "user"]
  /\ len = [p \in Pid |-> 0]
  /\ buf = [p \in Pid |-> <<>>]

Next ==
  \/ pit_callback
  \/ irq_other
  \/ tty_input_erase
  \/ \E c \in Char : tty_input_push(c)
  \/ \E p \in Pid : tty_read(p) \/ tty_read_awake(p)

Spec == Init /\ [][Next]_vars

------------------------------------------------------------------------------
(***************************************************************************)
(* Properties.                                                             *)
(***************************************************************************)

\* The type invariant, with the fact that ring_read, ring_write and ring_count
\* describe one stretch of the ring.
TypeOK ==
  /\ KthreadTypeOK
  /\ ring \in [Index -> Char \cup {NUL}]
  /\ ring_read \in Index
  /\ ring_count \in 0..TTY_RING_SIZE
  /\ ring_write = (ring_read + ring_count) % TTY_RING_SIZE
  /\ line_len \in 0..TTY_RING_SIZE
  /\ at \in [Pid -> {"user", "hlt", "awake"}]
  /\ len \in [Pid -> Nat]
  /\ \A p \in Pid : at[p] # "user" => len[p] \in Lens

\* line_len, which push and backspace keep up to date but the draining loop of
\* tty_read never touches, is the number of characters behind the last newline
\* in the ring: a backspace can neither reach into a line that has ended nor be
\* refused inside the one being typed.
LineLenExact ==
  /\ line_len <= ring_count
  /\ \A i \in ring_count - line_len + 1..ring_count : Slot(i) # NL
  /\ line_len = ring_count \/ Slot(ring_count - line_len) = NL

\* A process in tty_read is not in user code with a thread that is blocked, and
\* off the CPU its thread is always eligible: the wakeup that tty_input_push
\* gives to the current thread alone is enough.
BlockedOnlyInHlt ==
  /\ \A t \in Ring \ {curr} : tstate[t] = "READY"
  /\ tstate[curr] = "BLOCKED" => curr \in Pid /\ at[curr] = "hlt" /\ pending

\* The terminal implements TtyLine: the text is what the ring holds, and a
\* process asks for characters while it is in tty_read.
textBar  == [i \in 1..ring_count |-> Slot(i)]
wantsBar == [p \in Pid |-> IF at[p] = "user" THEN 0 ELSE len[p]]

Line == INSTANCE TtyLine
          WITH Reader <- Pid, Size <- TTY_RING_SIZE,
               text <- textBar, wants <- wantsBar, out <- buf

ImplementsLine == Line!Spec

\* The PIT interrupts for ever and a thread that gets the CPU again and again
\* leaves its hlt and runs the loop.
FairSpec ==
  Spec /\ WF_vars(pit_callback) /\ \A p \in Pid : SF_vars(tty_read_awake(p))

\* When a line has ended and a process is waiting for one, that process gets a
\* line or another process takes it.
LineIsDelivered ==
  \A p \in Pid : at[p] # "user" /\ has_newline
                   ~> at[p] = "user" \/ ~has_newline

==============================================================================
