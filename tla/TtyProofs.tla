------------------------------ MODULE TtyProofs ------------------------------
(***************************************************************************)
(* The invariants of the terminal, for every size of the ring, every set   *)
(* of characters and every number of readers.                              *)
(***************************************************************************)
EXTENDS Tty, WellFoundedInduction, SequenceTheorems, TLAPS

N == TTY_RING_SIZE

\* The constants, as every proof below uses them.
LEMMA Constants ==
  /\ MaxPid \in Nat /\ MaxPid > 0
  /\ N \in Nat /\ N > 0 /\ Index = 0..N - 1
  /\ NL \in Char /\ Lens \subseteq Nat
  /\ Pid \subseteq Thread /\ Idle \in Thread /\ Main \in Thread /\ 1 \in Pid
  /\ Idle \notin Pid /\ Main \notin Pid
BY MaxPidAssumption, TtyAssumption DEF N, Index, Pid, Thread, Idle, Main

\* Arithmetic around the ring: less than one turn, and less than two.
LEMMA Wrap ==
  ASSUME NEW x \in 0..2 * N - 1
  PROVE  x % N = IF x < N THEN x ELSE x - N
<1> USE Constants
<1>1. CASE x < N
  BY <1>1
<1>2. CASE N <= x
  <2>1. x - N \in 0..N - 1 /\ x = (x - N) + 1 * N
    BY <1>2
  <2> QED
    BY <1>2, <2>1
<1> QED
  BY <1>1, <1>2

\* The least element of a set of naturals.
LEMMA LeastNat ==
  ASSUME NEW T, T \subseteq Nat, T # {}
  PROVE  \E x \in T : \A y \in T : x <= y
<1>1. PICK x \in T : \A y \in T : <<y, x>> \notin OpToRel(<, Nat)
  BY WFMin, NatLessThanWellFounded, Zenon
<1>2. \A y \in T : ~(y < x)
  BY <1>1 DEF OpToRel
<1> QED
  BY <1>2

------------------------------------------------------------------------------
(***************************************************************************)
(* The inductive invariant: what the runs check, and the ring of threads,  *)
(* which no step of this module changes.                                   *)
(***************************************************************************)
Inv == /\ TypeOK
       /\ Ring = Thread
       /\ LineLenExact
       /\ BlockedOnlyInHlt

LEMMA InitInv == Init => Inv
<1> SUFFICES ASSUME Init PROVE Inv
  OBVIOUS
<1> USE Constants DEF Init, BootThread
<1>1. tnext \in [Thread -> Thread] /\ Ring = Thread
  <2>1. ASSUME NEW t \in Thread
        PROVE  tnext[t] \in Thread /\ tnext[t] # NULL
    BY MaxPidAssumption DEF TtyRing, Thread, Idle, Main, NULL
  <2>2. tnext = [t \in Thread |-> tnext[t]]
    BY DEF TtyRing
  <2> QED
    BY <2>1, <2>2 DEF Ring
<1>2. TypeOK
  <2>1. KthreadTypeOK
    BY <1>1 DEF KthreadTypeOK, ThreadState
  <2>2. ring_write = (ring_read + ring_count) % N
    BY Wrap
  <2> QED
    BY <2>1, <2>2 DEF TypeOK, N
<1>3. LineLenExact
  BY DEF LineLenExact
<1>4. BlockedOnlyInHlt
  BY <1>1 DEF BlockedOnlyInHlt
<1> QED
  BY <1>1, <1>2, <1>3, <1>4 DEF Inv

\* What the ring buffer needs, apart from the scheduler.
RingOK ==
  /\ ring \in [Index -> Char \cup {NUL}]
  /\ ring_read \in Index
  /\ ring_count \in 0..N
  /\ ring_write = (ring_read + ring_count) % N
  /\ line_len \in 0..N
  /\ LineLenExact

\* What the scheduler needs, apart from the ring buffer.
SchedOK ==
  /\ KthreadTypeOK
  /\ at \in [Pid -> {"user", "hlt", "awake"}]
  /\ len \in [Pid -> Nat]
  /\ \A p \in Pid : at[p] # "user" => len[p] \in Lens
  /\ Ring = Thread
  /\ BlockedOnlyInHlt

LEMMA InvSplits ==
  /\ Inv <=> RingOK /\ SchedOK
  /\ Inv' <=> RingOK' /\ SchedOK'
BY DEF Inv, RingOK, SchedOK, TypeOK, N

\* Nothing of the buffer changes.
LEMMA BufferSame == RingOK /\ UNCHANGED buffer => RingOK'
BY DEF RingOK, buffer, LineLenExact, Slot

\* The thread states that an interrupt handler may hand to the return path:
\* what BlockedOnlyInHlt says, with the flag it passes.
Handed(st, set) ==
  /\ st \in [Thread -> ThreadState]
  /\ set \in BOOLEAN
  /\ \A t \in Thread \ {curr} : st[t] = "READY"
  /\ st[curr] = "BLOCKED" => curr \in Pid /\ at[curr] = "hlt" /\ set

\* The return path of an interrupt, whichever handler ran.
LEMMA IrqInv ==
  ASSUME NEW st, NEW set, SchedOK, Handed(st, set), irq_common(st, set),
         UNCHANGED len
  PROVE  SchedOK'
<1> USE Constants
<1> DEFINE next == scheduler_next(st)
<1>1. curr \in Thread /\ tnext' = tnext /\ pending' = FALSE /\ len' = len
  BY DEF irq_common, SchedOK, KthreadTypeOK
<1>2. next \in Thread
  BY DEF scheduler_next, SchedOK
<1>3. st[next] # "BLOCKED" \/ next = Idle
  BY DEF scheduler_next, Runnable
<1>4. \/ /\ tstate' = st /\ curr' = curr
         /\ st[curr] # "BLOCKED"
      \/ /\ next # curr
         /\ tstate' = [st EXCEPT ![curr] = "READY", ![next] = "RUNNING"]
         /\ curr' = next
  BY <1>3 DEF irq_common, scheduler_switch, StateAfterSwitch, Handed
<1>5. /\ at' \in [Pid -> {"user", "hlt", "awake"}]
      /\ \A p \in Pid : at'[p] # "user" => at[p] # "user"
  BY DEF irq_common, EndHlt, Awake, SchedOK
<1>6. tstate' \in [Thread -> ThreadState] /\ curr' \in Thread
  BY <1>1, <1>2, <1>4 DEF Handed, ThreadState
<1>7. Ring' = Thread
  BY <1>1 DEF SchedOK, Ring
<1>8. BlockedOnlyInHlt'
  <2>1. \A t \in Thread \ {curr'} : tstate'[t] = "READY"
    BY <1>1, <1>2, <1>4 DEF Handed
  <2>2. tstate'[curr'] # "BLOCKED"
    BY <1>1, <1>2, <1>4 DEF Handed
  <2> QED
    BY <1>7, <2>1, <2>2 DEF BlockedOnlyInHlt
<1> QED
  BY <1>1, <1>5, <1>6, <1>7, <1>8 DEF SchedOK, KthreadTypeOK

\* In a state of the invariant the thread states themselves may be handed on,
\* and so may those with the current thread woken.
LEMMA HandedNow == SchedOK => Handed(tstate, pending) /\ Handed(tstate, TRUE)
BY DEF SchedOK, KthreadTypeOK, Handed, BlockedOnlyInHlt

LEMMA HandedAwake ==
  SchedOK => Handed(IF BlockedNow THEN [tstate EXCEPT ![curr] = "READY"] ELSE tstate,
                    pending \/ BlockedNow)
<1> SUFFICES ASSUME SchedOK
             PROVE  Handed(IF BlockedNow THEN [tstate EXCEPT ![curr] = "READY"] ELSE tstate,
                           pending \/ BlockedNow)
  OBVIOUS
<1> USE Constants DEF SchedOK, KthreadTypeOK, Handed, BlockedOnlyInHlt, BlockedNow,
                      ThreadState
<1>1. (pending \/ BlockedNow) \in BOOLEAN
  BY Zenon
<1>2. CASE BlockedNow
  BY <1>1, <1>2
<1>3. CASE ~BlockedNow
  BY <1>1, <1>3
<1> QED
  BY <1>2, <1>3

------------------------------------------------------------------------------
\* A backspace takes the last character of the line being typed.
LEMMA EraseInv == RingOK /\ PushErase => RingOK'
<1> SUFFICES ASSUME RingOK, PushErase PROVE RingOK'
  OBVIOUS
<1> USE Constants DEF RingOK
<1>1. CASE UNCHANGED buffer
  BY <1>1, BufferSame
<1>2. CASE ~UNCHANGED buffer
  <2>1. /\ line_len # 0 /\ ring_count > 0
        /\ ring_write' = (ring_write + N - 1) % N
        /\ ring_count' = ring_count - 1
        /\ line_len' = line_len - 1
        /\ ring' = ring /\ ring_read' = ring_read
    BY <1>2 DEF PushErase, CanErase, N
  <2>2. ring_write' = (ring_read' + ring_count') % N
    <3>1. ring_read + ring_count \in 0..2 * N - 1 /\ ring_read + ring_count - 1 \in 0..2 * N - 1
      BY <2>1
    <3>2. ring_write = IF ring_read + ring_count < N THEN ring_read + ring_count
                       ELSE ring_read + ring_count - N
      BY <3>1, Wrap
    <3>3. ring_write + N - 1 \in 0..2 * N - 1
      BY <3>1, <3>2
    <3>4. (ring_write + N - 1) % N = IF ring_write = 0 THEN N - 1 ELSE ring_write - 1
      BY <3>1, <3>2, <3>3, Wrap
    <3>5. (ring_read + ring_count - 1) % N
            = IF ring_read + ring_count - 1 < N THEN ring_read + ring_count - 1
              ELSE ring_read + ring_count - 1 - N
      BY <3>1, Wrap
    <3> QED
      BY <2>1, <3>1, <3>2, <3>4, <3>5
  <2>3. LineLenExact'
    <3>1. \A i \in Int : Slot(i)' = Slot(i)
      BY <2>1 DEF Slot
    <3>2. line_len' <= ring_count' /\ ring_count' - line_len' = ring_count - line_len
      BY <2>1 DEF LineLenExact
    <3> QED
      BY <2>1, <3>1, <3>2 DEF LineLenExact
  <2> QED
    BY <2>1, <2>2, <2>3 DEF LineLenExact
<1> QED
  BY <1>1, <1>2

\* A character goes behind all that the ring holds.
LEMMA PushInv == ASSUME NEW c \in Char PROVE RingOK /\ ~Full /\ PushChar(c) => RingOK'
<1> SUFFICES ASSUME RingOK, ~Full, PushChar(c) PROVE RingOK'
  OBVIOUS
<1> USE Constants DEF RingOK
<1>1. /\ ring_count < N
      /\ ring' = [ring EXCEPT ![ring_write] = c]
      /\ ring_write' = (ring_write + 1) % N
      /\ ring_count' = ring_count + 1
      /\ line_len' = IF c = NL THEN 0 ELSE line_len + 1
      /\ ring_read' = ring_read
  BY DEF Full, PushChar, LineLenAfter, N
<1> DEFINE w == ring_read + ring_count
<1>2. w \in 0..2 * N - 1 /\ w + 1 \in 0..2 * N - 1
  BY <1>1
<1>3. ring_write = IF w < N THEN w ELSE w - N
  BY <1>2, Wrap
<1>4. ring_write' = (ring_read' + ring_count') % N
  <2>1. ring_write + 1 \in 0..2 * N - 1
    BY <1>2, <1>3
  <2>2. (ring_write + 1) % N = IF ring_write + 1 < N THEN ring_write + 1 ELSE ring_write + 1 - N
    BY <2>1, Wrap
  <2>3. (w + 1) % N = IF w + 1 < N THEN w + 1 ELSE w + 1 - N
    BY <1>2, Wrap
  <2>4. (ring_write + 1) % N = (w + 1) % N
    BY <1>2, <1>3, <2>2, <2>3
  <2> QED
    BY <1>1, <2>4
<1>5. ASSUME NEW i \in 1..ring_count PROVE Slot(i)' = Slot(i)
  <2>1. ring_read + i - 1 \in 0..2 * N - 1
    BY <1>1
  <2>2. (ring_read + i - 1) % N # ring_write
    BY <1>1, <1>2, <1>3, <2>1, Wrap
  <2>3. (ring_read + i - 1) % N \in Index
    BY <2>1, Wrap
  <2> QED
    BY <1>1, <2>2, <2>3 DEF Slot, N
<1>6. ASSUME NEW i \in {ring_count + 1} PROVE Slot(i)' = c
  <2>1. ring_write \in Index
    BY <1>2, <1>3
  <2>2. (ring_read + i - 1) % N = ring_write
    BY <1>1
  <2> QED
    BY <1>1, <2>1, <2>2 DEF Slot, N
<1>7. LineLenExact'
  <2>1. CASE c = NL
    BY <1>1, <1>6, <2>1 DEF LineLenExact
  <2>2. CASE c # NL
    <3>1. line_len' = line_len + 1 /\ line_len + 1 <= ring_count + 1
      BY <1>1, <2>2 DEF LineLenExact
    <3>2. ASSUME NEW i \in ring_count' - line_len' + 1..ring_count' PROVE Slot(i)' # NL
      <4>1. CASE i = ring_count + 1
        BY <1>6, <2>2, <4>1
      <4>2. CASE i # ring_count + 1
        <5>1. i \in 1..ring_count /\ i \in ring_count - line_len + 1..ring_count
          BY <1>1, <3>1, <4>2 DEF LineLenExact
        <5> QED
          BY <1>5, <5>1 DEF LineLenExact
      <4> QED
        BY <4>1, <4>2
    <3>3. ASSUME NEW i \in Int, i = ring_count' - line_len', line_len' # ring_count'
          PROVE  Slot(i)' = NL
      <4>1. i = ring_count - line_len /\ line_len # ring_count
        BY <1>1, <3>1, <3>3
      <4>2. i \in 1..ring_count /\ Slot(i) = NL
        BY <4>1 DEF LineLenExact
      <4> QED
        BY <1>5, <4>2
    <3>4. line_len' <= ring_count' /\ ring_count' - line_len' \in Int
      BY <1>1, <3>1
    <3> QED
      BY <3>2, <3>3, <3>4 DEF LineLenExact
  <2> QED
    BY <2>1, <2>2
<1>8. ring' \in [Index -> Char \cup {NUL}]
  BY <1>1
<1> QED
  BY <1>1, <1>4, <1>7, <1>8 DEF LineLenExact

\* Take is defined whenever the ring holds a newline: the position of the first
\* newline, or the length asked for when that is shorter.
LEMMA TakeIsDefined ==
  ASSUME RingOK, has_newline, NEW n \in Nat \ {0}
  PROVE  /\ Take(n) \in 1..n
         /\ Take(n) <= ring_count
         /\ \A i \in 1..Take(n) - 1 : Slot(i) # NL
         /\ Take(n) = n \/ Take(n) = ring_count \/ Slot(Take(n)) = NL
<1> USE Constants DEF RingOK
<1> DEFINE Ends == {i \in 1..ring_count : Slot(i) = NL}
<1>1. Ends \subseteq Nat /\ Ends # {}
  BY DEF has_newline
<1>2. PICK j \in Ends : \A y \in Ends : j <= y
  BY <1>1, LeastNat
<1>3. j \in 1..ring_count /\ Slot(j) = NL /\ \A i \in 1..j - 1 : Slot(i) # NL
  BY <1>2
<1> DEFINE k == IF n < j THEN n ELSE j
<1>4. /\ k \in 1..n
      /\ k <= ring_count
      /\ \A i \in 1..k - 1 : Slot(i) # NL
      /\ k = n \/ k = ring_count \/ Slot(k) = NL
  BY <1>3
<1> QED
  BY <1>4 DEF Take

\* Moving ring_read over k of the c characters from r on leaves the other ones
\* where they are.
LEMMA Shift ==
  ASSUME NEW r \in 0..N - 1, NEW c \in 0..N, NEW k \in 1..c, NEW s, s = (r + k) % N
  PROVE  /\ s \in 0..N - 1
         /\ (s + (c - k)) % N = (r + c) % N
         /\ \A i \in 1..c - k : (s + i - 1) % N = (r + (i + k) - 1) % N
<1> USE Constants
<1>1. s = IF r + k < N THEN r + k ELSE r + k - N
  BY Wrap
<1>2. ASSUME NEW i \in 0..c - k PROVE (s + i) % N = (r + k + i) % N
  <2>1. s + i \in 0..2 * N - 1 /\ r + k + i \in 0..2 * N - 1
    BY <1>1
  <2>2. (s + i) % N = IF s + i < N THEN s + i ELSE s + i - N
    BY <2>1, Wrap
  <2>3. (r + k + i) % N = IF r + k + i < N THEN r + k + i ELSE r + k + i - N
    BY <2>1, Wrap
  <2> QED
    BY <1>1, <2>2, <2>3
<1>3. s \in 0..N - 1
  BY <1>1
<1>4. (s + (c - k)) % N = (r + c) % N
  <2>1. c - k \in 0..c - k /\ r + k + (c - k) = r + c
    OBVIOUS
  <2> QED
    BY <1>2, <2>1
<1>5. ASSUME NEW i \in 1..c - k PROVE (s + i - 1) % N = (r + (i + k) - 1) % N
  <2>1. i - 1 \in 0..c - k /\ s + (i - 1) = s + i - 1 /\ r + k + (i - 1) = r + (i + k) - 1
    BY <1>3
  <2> QED
    BY <1>2, <2>1
<1> QED
  BY <1>3, <1>4, <1>5

\* Draining takes no character of the line being typed: its newlines, if the
\* ring has any, stand before it.
LEMMA DrainInv ==
  ASSUME NEW p \in Pid, NEW n \in Nat \ {0}, RingOK, has_newline, Drain(p, n)
  PROVE  RingOK'
<1> USE Constants DEF RingOK
<1>1. PICK k \in 1..ring_count : k = Take(n) /\ \A i \in 1..k - 1 : Slot(i) # NL
  BY TakeIsDefined
<1>2. /\ ring_read' = (ring_read + k) % N /\ ring_count' = ring_count - k
      /\ ring' = ring /\ ring_write' = ring_write /\ line_len' = line_len
  BY <1>1 DEF Drain, N
<1>3. /\ ring_read' \in 0..N - 1
      /\ (ring_read' + (ring_count - k)) % N = (ring_read + ring_count) % N
      /\ \A i \in 1..ring_count - k :
           (ring_read' + i - 1) % N = (ring_read + (i + k) - 1) % N
  BY <1>2, Shift
<1>4. k \in Nat /\ k > 0 /\ k <= ring_count - line_len
  <2>1. PICK j \in 1..ring_count : Slot(j) = NL
    BY DEF has_newline
  <2>2. line_len # ring_count /\ line_len <= ring_count
    BY <2>1 DEF LineLenExact
  <2>3. Slot(ring_count - line_len) = NL
    BY <2>2 DEF LineLenExact
  <2>4. ~(ring_count - line_len \in 1..k - 1)
    BY <1>1, <2>3
  <2>5. k \in Nat /\ k > 0
    OBVIOUS
  <2> QED
    BY <2>2, <2>4, <2>5
<1>5. ASSUME NEW i \in 1..ring_count - k PROVE Slot(i)' = Slot(i + k)
  BY <1>2, <1>3 DEF Slot, N
<1>6. LineLenExact'
  <2>1. line_len' <= ring_count'
    BY <1>2, <1>4
  <2>2. ASSUME NEW i \in ring_count' - line_len' + 1..ring_count' PROVE Slot(i)' # NL
    <3>1. i \in 1..ring_count - k /\ i + k \in ring_count - line_len + 1..ring_count
      BY <1>2, <1>4
    <3> QED
      BY <1>5, <3>1 DEF LineLenExact
  <2>3. ASSUME NEW i \in Int, i = ring_count' - line_len', line_len' # ring_count'
        PROVE  Slot(i)' = NL
    <3>1. i \in 1..ring_count - k /\ i + k = ring_count - line_len /\ line_len # ring_count
      BY <1>2, <1>4, <2>3 DEF LineLenExact
    <3> QED
      BY <1>5, <3>1 DEF LineLenExact
  <2>4. ring_count' - line_len' \in Int
    BY <1>2, <1>4
  <2> QED
    BY <2>1, <2>2, <2>3, <2>4 DEF LineLenExact
<1> QED
  BY <1>2, <1>3, <1>4, <1>6

\* The loop of tty_read, entered by the current thread.
LEMMA ReadLoopInv ==
  ASSUME NEW p \in Pid, NEW n \in Lens, NEW st, curr = p, Inv,
         st \in [Thread -> ThreadState],
         \A t \in Thread \ {p} : st[t] = "READY", st[p] # "BLOCKED",
         ReadLoop(p, n, st), UNCHANGED <<tnext, curr>>, len' = [len EXCEPT ![p] = n]
  PROVE  Inv'
<1> USE Constants, InvSplits, TtyAssumption
<1>1. RingOK'
  <2>1. CASE has_newline
    BY <2>1, DrainInv DEF ReadLoop
  <2>2. CASE ~has_newline
    BY <2>2, BufferSame DEF ReadLoop
  <2> QED
    BY <2>1, <2>2
<1>2. Ring' = Thread /\ KthreadTypeOK'
  BY DEF SchedOK, Ring, KthreadTypeOK, ThreadState, ReadLoop
<1>3. /\ at' \in [Pid -> {"user", "hlt", "awake"}]
      /\ len' \in [Pid -> Nat]
      /\ \A q \in Pid : at'[q] # "user" => len'[q] \in Lens
  BY DEF SchedOK, ReadLoop
<1>4. BlockedOnlyInHlt'
  BY <1>2 DEF BlockedOnlyInHlt, ReadLoop, SchedOK
<1> QED
  BY <1>1, <1>2, <1>3, <1>4 DEF SchedOK

LEMMA ReadInv ==
  ASSUME NEW p \in Pid PROVE Inv /\ (tty_read(p) \/ tty_read_awake(p)) => Inv'
<1> SUFFICES ASSUME Inv, tty_read(p) \/ tty_read_awake(p) PROVE Inv'
  OBVIOUS
<1> USE Constants
<1>1. /\ tstate \in [Thread -> ThreadState] /\ len \in [Pid -> Nat] /\ Ring = Thread
      /\ \A t \in Thread \ {curr} : tstate[t] = "READY"
      /\ tstate[curr] = "BLOCKED" => at[curr] = "hlt"
      /\ at[p] # "user" => len[p] \in Lens
  BY DEF Inv, TypeOK, KthreadTypeOK, BlockedOnlyInHlt
<1>2. CASE tty_read(p)
  <2>1. curr = p /\ tstate[p] # "BLOCKED"
    BY <1>1, <1>2 DEF tty_read
  <2>2. PICK n \in Lens : len' = [len EXCEPT ![p] = n] /\ ReadLoop(p, n, tstate)
    BY <1>2 DEF tty_read
  <2>3. UNCHANGED <<tnext, curr>>
    BY <1>2 DEF tty_read
  <2> QED
    BY <1>1, <2>1, <2>2, <2>3, ReadLoopInv
<1>3. CASE tty_read_awake(p)
  <2> DEFINE st == [tstate EXCEPT ![p] = "RUNNING"]
  <2>1. /\ curr = p /\ ReadLoop(p, len[p], st) /\ len' = [len EXCEPT ![p] = len[p]]
        /\ UNCHANGED <<tnext, curr>>
    BY <1>1, <1>3 DEF tty_read_awake
  <2>2. /\ st \in [Thread -> ThreadState] /\ st[p] # "BLOCKED"
        /\ \A t \in Thread \ {p} : st[t] = "READY"
    BY <1>1, <2>1 DEF ThreadState
  <2>3. len[p] \in Lens
    BY <1>1, <1>3 DEF tty_read_awake
  <2> HIDE DEF st
  <2> QED
    BY <2>1, <2>2, <2>3, ReadLoopInv
<1> QED
  BY <1>2, <1>3

LEMMA PushStepInv ==
  Inv /\ (tty_input_erase \/ \E c \in Char : tty_input_push(c)) => Inv'
<1> SUFFICES ASSUME Inv PROVE tty_input_erase \/ (\E c \in Char : tty_input_push(c)) => Inv'
  OBVIOUS
<1> USE InvSplits
<1>1. ASSUME tty_input_erase PROVE Inv'
  <2>1. PushErase /\ irq_common(tstate, pending) /\ len' = len
    BY <1>1 DEF tty_input_erase
  <2> QED
    BY <2>1, EraseInv, HandedNow, IrqInv
<1>2. ASSUME NEW c \in Char, tty_input_push(c) PROVE Inv'
  <2>1. CASE Full
    <3>1. UNCHANGED buffer /\ irq_common(tstate, pending) /\ len' = len
      BY <1>2, <2>1 DEF tty_input_push
    <3> QED
      BY <3>1, BufferSame, HandedNow, IrqInv
  <2>2. CASE ~Full
    <3> DEFINE st == IF BlockedNow THEN [tstate EXCEPT ![curr] = "READY"] ELSE tstate
               set == pending \/ BlockedNow
    <3>1. PushChar(c) /\ irq_common(st, set) /\ len' = len
      BY <1>2, <2>2 DEF tty_input_push
    <3>2. Handed(st, set)
      BY HandedAwake
    <3> HIDE DEF st, set
    <3> QED
      BY <2>2, <3>1, <3>2, PushInv, IrqInv
  <2> QED
    BY <2>1, <2>2
<1> QED
  BY <1>1, <1>2

LEMMA NextInv == Inv /\ [Next]_vars => Inv'
<1> SUFFICES ASSUME Inv, [Next]_vars PROVE Inv'
  OBVIOUS
<1> USE InvSplits
<1>1. CASE pit_callback
  BY <1>1, BufferSame, HandedNow, IrqInv DEF pit_callback
<1>2. CASE irq_other
  BY <1>2, BufferSame, HandedNow, IrqInv DEF irq_other
<1>3. CASE tty_input_erase \/ \E c \in Char : tty_input_push(c)
  BY <1>3, PushStepInv
<1>4. CASE \E p \in Pid : tty_read(p) \/ tty_read_awake(p)
  BY <1>4, ReadInv
<1>5. CASE UNCHANGED vars
  <2>1. RingOK'
    BY <1>5, BufferSame DEF vars, buffer
  <2>2. SchedOK'
    BY <1>5 DEF vars, SchedOK, KthreadTypeOK, Ring, BlockedOnlyInHlt
  <2> QED
    BY <2>1, <2>2
<1> QED
  BY <1>1, <1>2, <1>3, <1>4, <1>5 DEF Next

------------------------------------------------------------------------------
\* The inductive invariant holds in every reachable state.
THEOREM Invariance == Spec => []Inv
<1> QED
  BY InitInv, NextInv, PTL DEF Spec

\* Type correctness: the three indices of tty_t stay inside the ring and agree
\* with each other through every push, backspace and drain of tty.c.
THEOREM TypeCorrect == Spec => []TypeOK
<1>1. Inv => TypeOK
  BY DEF Inv
<1> QED
  BY Invariance, <1>1, PTL

\* tty_t.line_len counts the unfinished line, although the draining loop of
\* tty_read leaves it alone.
THEOREM LineLenIsExact == Spec => []LineLenExact
<1>1. Inv => LineLenExact
  BY DEF Inv
<1> QED
  BY Invariance, <1>1, PTL

\* No reader sleeps off the CPU: the wakeup of tty_input_push, which only knows
\* curr_thread, misses nobody.
THEOREM ReadersStayEligible == Spec => []BlockedOnlyInHlt
<1>1. Inv => BlockedOnlyInHlt
  BY DEF Inv
<1> QED
  BY Invariance, <1>1, PTL

------------------------------------------------------------------------------
(***************************************************************************)
(* The refinement of TtyLine.  textBar is a sequence of ring_count         *)
(* characters; a push appends to it, an erasure drops its last one, a      *)
(* drain its first ones, and nothing else touches it.                      *)
(***************************************************************************)
LEMMA TextIsSeq ==
  ASSUME RingOK
  PROVE  /\ textBar \in Seq(Char \cup {NUL}) /\ Len(textBar) = ring_count
         /\ \A i \in 1..ring_count : textBar[i] = Slot(i)
<1> USE Constants DEF RingOK
<1>1. ASSUME NEW i \in 1..ring_count PROVE Slot(i) \in Char \cup {NUL}
  <2>1. (ring_read + i - 1) \in 0..2 * N - 1
    OBVIOUS
  <2>2. (ring_read + i - 1) % N \in Index
    BY <2>1, Wrap
  <2> QED
    BY <2>2 DEF Slot, N
<1>2. textBar \in [1..ring_count -> Char \cup {NUL}]
  BY <1>1 DEF textBar
<1> QED
  BY <1>2 DEF textBar

LEMMA TextSame == UNCHANGED buffer => textBar' = textBar
BY DEF buffer, textBar, Slot

\* The slot behind the last character is the one that a push writes, and
\* another one than those in use.
LEMMA PushText ==
  ASSUME NEW c \in Char, RingOK, RingOK', ~Full, PushChar(c)
  PROVE  textBar' = Append(textBar, c)
<1> USE Constants DEF RingOK
<1>1. /\ ring' = [ring EXCEPT ![ring_write] = c] /\ ring_count' = ring_count + 1
      /\ ring_read' = ring_read /\ ring_count < N
  BY DEF PushChar, Full, N
<1>2. ASSUME NEW i \in 1..ring_count' PROVE Slot(i)' = IF i = ring_count + 1 THEN c ELSE Slot(i)
  <2> DEFINE a == (ring_read + i - 1) % N
  <2>1. a = IF ring_read + i - 1 < N THEN ring_read + i - 1 ELSE ring_read + i - 1 - N
    BY <1>1, Wrap
  <2>2. ring_write = IF ring_read + ring_count < N THEN ring_read + ring_count
                     ELSE ring_read + ring_count - N
    BY <1>1, Wrap
  <2>3. a \in Index /\ (a = ring_write <=> i = ring_count + 1)
    BY <1>1, <2>1, <2>2
  <2>4. Slot(i)' = ring'[a] /\ Slot(i) = ring[a]
    BY <1>1 DEF Slot, N
  <2> HIDE DEF a
  <2> QED
    BY <1>1, <2>3, <2>4
<1>3. /\ textBar \in Seq(Char \cup {NUL}) /\ Len(textBar) = ring_count
      /\ \A i \in 1..ring_count : textBar[i] = Slot(i)
  BY TextIsSeq
<1>4. textBar' = [i \in 1..ring_count + 1 |-> IF i = ring_count + 1 THEN c ELSE Slot(i)]
  BY <1>1, <1>2 DEF textBar
<1>5. /\ Append(textBar, c) \in Seq(Char \cup {NUL})
      /\ Len(Append(textBar, c)) = ring_count + 1
      /\ \A i \in 1..ring_count + 1 : Append(textBar, c)[i] = textBar'[i]
  BY <1>1, <1>3, <1>4
<1>6. textBar' \in [1..ring_count + 1 -> Char \cup {NUL}]
  BY <1>3, <1>4
<1>7. textBar' \in Seq(Char \cup {NUL}) /\ Len(textBar') = ring_count + 1
  BY <1>6
<1> QED
  BY <1>5, <1>7, SeqEqual

LEMMA EraseText ==
  ASSUME RingOK, PushErase
  PROVE  \/ textBar' = textBar
         \/ /\ textBar # <<>> /\ textBar[Len(textBar)] # NL
            /\ textBar' = SubSeq(textBar, 1, Len(textBar) - 1)
<1> USE Constants DEF RingOK
<1>1. CASE ~(CanErase /\ ring_count > 0)
  BY <1>1, TextSame DEF PushErase
<1>2. CASE CanErase /\ ring_count > 0
  <2>1. ring' = ring /\ ring_read' = ring_read /\ ring_count' = ring_count - 1
    BY <1>2 DEF PushErase
  <2>2. Slot(ring_count) # NL
    BY <1>2 DEF CanErase, LineLenExact
  <2>3. /\ textBar \in Seq(Char \cup {NUL}) /\ Len(textBar) = ring_count
        /\ \A i \in 1..ring_count : textBar[i] = Slot(i)
    BY TextIsSeq
  <2>4. textBar' = [i \in 1..ring_count - 1 |-> textBar[i]]
    BY <2>1, <2>3 DEF textBar, Slot
  <2>5. SubSeq(textBar, 1, Len(textBar) - 1) = [i \in 1..ring_count - 1 |-> textBar[i]]
    BY <2>3
  <2> QED
    BY <1>2, <2>2, <2>3, <2>4, <2>5
<1> QED
  BY <1>1, <1>2

\* What Take takes is the whole first line or as much of it as was asked for.
LEMMA DrainText ==
  ASSUME NEW p \in Pid, NEW n \in Nat \ {0}, RingOK, has_newline, Drain(p, n)
  PROVE  \E k \in 1..Len(textBar) :
           /\ k <= n
           /\ \A i \in 1..k - 1 : textBar[i] # NL
           /\ textBar[k] = NL \/ k = n
           /\ \E i \in k..Len(textBar) : textBar[i] = NL
           /\ buf' = [buf EXCEPT ![p] = SubSeq(textBar, 1, k)]
           /\ textBar' = SubSeq(textBar, k + 1, Len(textBar))
<1> USE Constants DEF RingOK
<1> DEFINE k == Take(n)
<1>1. /\ k \in 1..ring_count /\ k <= n
      /\ \A i \in 1..k - 1 : Slot(i) # NL
      /\ k = n \/ k = ring_count \/ Slot(k) = NL
  BY TakeIsDefined
<1>2. /\ ring_read' = (ring_read + k) % N /\ ring_count' = ring_count - k
      /\ ring' = ring /\ buf' = [buf EXCEPT ![p] = [i \in 1..k |-> Slot(i)]]
  BY DEF Drain, N
<1> HIDE DEF k
<1>3. PICK j \in 1..ring_count : Slot(j) = NL
  BY DEF has_newline
<1>4. j \in k..ring_count /\ (Slot(k) = NL \/ k = n)
  BY <1>1, <1>3
<1>5. /\ textBar \in Seq(Char \cup {NUL}) /\ Len(textBar) = ring_count
      /\ \A i \in 1..ring_count : textBar[i] = Slot(i)
  BY TextIsSeq
<1>6. \A i \in 1..ring_count - k :
        (ring_read' + i - 1) % N = (ring_read + (i + k) - 1) % N
  BY <1>1, <1>2, Shift
<1>7. textBar' = [i \in 1..ring_count - k |-> textBar[i + k]]
  <2>1. ASSUME NEW i \in 1..ring_count - k PROVE Slot(i)' = textBar[i + k]
    <3>1. i + k \in 1..ring_count
      BY <1>1
    <3>2. textBar[i + k] = ring[(ring_read + (i + k) - 1) % N]
      BY <1>5, <3>1 DEF Slot, N
    <3>3. Slot(i)' = ring[(ring_read' + i - 1) % N]
      BY <1>2 DEF Slot, N
    <3> QED
      BY <1>6, <3>2, <3>3
  <2> QED
    BY <1>2, <2>1 DEF textBar
<1>8. SubSeq(textBar, k + 1, Len(textBar)) = [i \in 1..ring_count - k |-> textBar[i + k]]
  BY <1>1, <1>5
<1>9. SubSeq(textBar, 1, k) = [i \in 1..k |-> Slot(i)]
  BY <1>1, <1>5
<1>10. /\ k \in 1..Len(textBar) /\ k <= n
       /\ \A i \in 1..k - 1 : textBar[i] # NL
       /\ textBar[k] = NL \/ k = n
       /\ j \in k..Len(textBar) /\ textBar[j] = NL
  BY <1>1, <1>3, <1>4, <1>5
<1>11. /\ buf' = [buf EXCEPT ![p] = SubSeq(textBar, 1, k)]
       /\ textBar' = SubSeq(textBar, k + 1, Len(textBar))
  BY <1>2, <1>7, <1>8, <1>9
<1> QED
  BY <1>10, <1>11

\* Interrupts wake a halted reader, which goes on asking for what it asked for.
LEMMA WantsSame ==
  ASSUME SchedOK, EndHlt, UNCHANGED len
  PROVE  wantsBar' = wantsBar
<1>1. \A p \in Pid : at'[p] = "user" <=> at[p] = "user"
  BY DEF EndHlt, Awake, SchedOK
<1> QED
  BY <1>1 DEF wantsBar

\* The loop of tty_read answers the reader or leaves it asking.
LEMMA ReadLoopLine ==
  ASSUME NEW p \in Pid, NEW n \in Lens, NEW st, Inv, ReadLoop(p, n, st),
         len' = [len EXCEPT ![p] = n], wantsBar[p] \in {0, n}
  PROVE  \/ Line!Answer(p, n)
         \/ UNCHANGED <<textBar, buf>> /\ wantsBar' = [wantsBar EXCEPT ![p] = n]
<1> USE Constants, InvSplits, TtyAssumption
<1>1. at \in [Pid -> {"user", "hlt", "awake"}] /\ len \in [Pid -> Nat]
  BY DEF SchedOK
<1>2. CASE has_newline
  <2>1. Drain(p, n) /\ at' = [at EXCEPT ![p] = "user"]
    BY <1>2 DEF ReadLoop
  <2>2. wantsBar' = [wantsBar EXCEPT ![p] = 0]
    BY <1>1, <2>1 DEF wantsBar
  <2>3. PICK k \in 1..Len(textBar) :
           /\ k <= n
           /\ \A i \in 1..k - 1 : textBar[i] # NL
           /\ textBar[k] = NL \/ k = n
           /\ \E i \in k..Len(textBar) : textBar[i] = NL
           /\ buf' = [buf EXCEPT ![p] = SubSeq(textBar, 1, k)]
           /\ textBar' = SubSeq(textBar, k + 1, Len(textBar))
    BY <1>2, <2>1, DrainText
  <2> QED
    BY <2>2, <2>3, Zenon DEF Line!Answer
<1>3. CASE ~has_newline
  <2>1. UNCHANGED buffer /\ buf' = buf /\ at' = [at EXCEPT ![p] = "hlt"]
    BY <1>3 DEF ReadLoop
  <2>2. wantsBar' = [wantsBar EXCEPT ![p] = n]
    BY <1>1, <2>1 DEF wantsBar
  <2> QED
    BY <2>1, <2>2, TextSame
<1> QED
  BY <1>2, <1>3

LEMMA ReadLine ==
  ASSUME NEW p \in Pid, Inv, tty_read(p) \/ tty_read_awake(p)
  PROVE  Line!Next \/ UNCHANGED <<textBar, wantsBar, buf>>
<1> USE Constants, InvSplits, TtyAssumption
<1>1. /\ at \in [Pid -> {"user", "hlt", "awake"}] /\ len \in [Pid -> Nat]
      /\ at[p] # "user" => len[p] \in Lens
  BY DEF SchedOK
<1>2. CASE tty_read(p)
  <2>1. PICK n \in Lens : len' = [len EXCEPT ![p] = n] /\ ReadLoop(p, n, tstate)
    BY <1>2 DEF tty_read
  <2>2. wantsBar[p] = 0
    BY <1>2 DEF tty_read, wantsBar
  <2>3. \/ Line!Answer(p, n)
        \/ UNCHANGED <<textBar, buf>> /\ wantsBar' = [wantsBar EXCEPT ![p] = n]
    BY <2>1, <2>2, ReadLoopLine
  <2> QED
    BY <2>2, <2>3, Zenon DEF Line!Next, Line!Ask
<1>3. CASE tty_read_awake(p)
  <2> DEFINE n  == len[p]
             st == [tstate EXCEPT ![p] = "RUNNING"]
  <2>1. n \in Lens /\ wantsBar[p] = n
    BY <1>1, <1>3 DEF tty_read_awake, wantsBar
  <2>2. ReadLoop(p, n, st) /\ len' = [len EXCEPT ![p] = n]
    BY <1>1, <1>3 DEF tty_read_awake
  <2> HIDE DEF n, st
  <2>3. \/ Line!Answer(p, n)
        \/ UNCHANGED <<textBar, buf>> /\ wantsBar' = [wantsBar EXCEPT ![p] = n]
    BY <2>1, <2>2, ReadLoopLine
  <2>4. [wantsBar EXCEPT ![p] = n] = wantsBar
    BY <2>1 DEF wantsBar
  <2> QED
    BY <2>1, <2>3, <2>4, Zenon DEF Line!Next
<1> QED
  BY <1>2, <1>3

LEMMA PushLine ==
  ASSUME NEW c \in Char, Inv, Inv', tty_input_push(c)
  PROVE  Line!Next \/ UNCHANGED <<textBar, wantsBar, buf>>
<1> USE InvSplits
<1>1. EndHlt /\ len' = len /\ buf' = buf
  BY DEF tty_input_push, irq_common
<1>2. wantsBar' = wantsBar
  BY <1>1, WantsSame
<1>3. CASE Full
  BY <1>1, <1>2, <1>3, TextSame DEF tty_input_push
<1>4. CASE ~Full
  <2>1. textBar' = Append(textBar, c)
    BY <1>4, PushText DEF tty_input_push
  <2>2. Len(textBar) < TTY_RING_SIZE
    BY <1>4, TextIsSeq, Constants DEF Full, RingOK, N
  <2> QED
    BY <1>1, <1>2, <2>1, <2>2, Zenon DEF Line!Next, Line!Type
<1> QED
  BY <1>3, <1>4

LEMMA EraseLine ==
  ASSUME Inv, tty_input_erase
  PROVE  Line!Next \/ UNCHANGED <<textBar, wantsBar, buf>>
<1> USE InvSplits
<1>1. EndHlt /\ len' = len /\ buf' = buf /\ PushErase
  BY DEF tty_input_erase, irq_common
<1>2. wantsBar' = wantsBar
  BY <1>1, WantsSame
<1> QED
  BY <1>1, <1>2, EraseText, Zenon DEF Line!Next, Line!Erase

LEMMA StepLine == Inv /\ Inv' /\ [Next]_vars => [Line!Next]_<<textBar, wantsBar, buf>>
<1> SUFFICES ASSUME Inv, Inv', [Next]_vars
             PROVE  Line!Next \/ UNCHANGED <<textBar, wantsBar, buf>>
  OBVIOUS
<1> USE InvSplits
<1>1. ASSUME pit_callback \/ irq_other PROVE UNCHANGED <<textBar, wantsBar, buf>>
  <2>1. EndHlt /\ len' = len /\ buf' = buf /\ UNCHANGED buffer
    BY <1>1 DEF pit_callback, irq_other, irq_common
  <2> QED
    BY <2>1, WantsSame, TextSame
<1>2. CASE UNCHANGED vars
  BY <1>2, TextSame DEF vars, buffer, wantsBar
<1> QED
  BY <1>1, <1>2, EraseLine, PushLine, ReadLine DEF Next

LEMMA InitLine == Init => Line!Init
<1> SUFFICES ASSUME Init PROVE Line!Init
  OBVIOUS
<1>1. textBar = <<>>
  BY DEF Init, textBar
<1>2. wantsBar = [p \in Pid |-> 0] /\ buf = [p \in Pid |-> <<>>]
  BY DEF Init, wantsBar
<1> QED
  BY <1>1, <1>2 DEF Line!Init

\* The terminal of tty.c implements the abstract one: a reader gets characters
\* of one finished line, in the order they were typed and each once, however
\* pushes, backspaces, wrap-arounds, wakeups and other readers interleave.
THEOREM TtyImplementsLine == Spec => ImplementsLine
<1>1. Init => Line!Init
  BY InitLine
<1>2. Inv /\ Inv' /\ [Next]_vars => [Line!Next]_(Line!vars)
  BY StepLine DEF Line!vars
<1> QED
  BY <1>1, <1>2, Invariance, PTL DEF Spec, ImplementsLine, Line!Spec

==============================================================================
