----------------------------- MODULE BootProofs ------------------------------
(***************************************************************************)
(* The order of the steps of kmain, against interrupts at every point.     *)
(***************************************************************************)
EXTENDS Boot, TLAPS

LEMMA TheSteps ==
  /\ Len(Kmain) = 36
  /\ Kmain[1] = "gdt_init"
  /\ Kmain[2] = "idt_init"
  /\ Kmain[3] = "rtc_init"
  /\ Kmain[4] = "pit_init"
  /\ Kmain[5] = "mmap_init"
  /\ Kmain[6] = "initrd_init"
  /\ Kmain[7] = "fb_parse_tag"
  /\ Kmain[8] = "pmm_init"
  /\ Kmain[9] = "paging_init"
  /\ Kmain[10] = "ksym_init"
  /\ Kmain[11] = "kheap_init"
  /\ Kmain[12] = "fb_size"
  /\ Kmain[13] = "fb_addr"
  /\ Kmain[14] = "initrd_remap"
  /\ Kmain[15] = "remove_identity_map"
  /\ Kmain[16] = "vfs_mount"
  /\ Kmain[17] = "null_init"
  /\ Kmain[18] = "zero_init"
  /\ Kmain[19] = "ask_config"
  /\ Kmain[20] = "config"
  /\ Kmain[21] = "set_defaults"
  /\ Kmain[22] = "ack"
  /\ Kmain[23] = "enable"
  /\ Kmain[24] = "ack"
  /\ Kmain[25] = "mouse_handler"
  /\ Kmain[26] = "keyboard_init"
  /\ Kmain[27] = "userspace_init"
  /\ Kmain[28] = "fb_register"
  /\ Kmain[29] = "console_init"
  /\ Kmain[30] = "tty_register"
  /\ Kmain[31] = "kthread_create"
  /\ Kmain[32] = "load_init"
  /\ Kmain[33] = "scheduler_add"
  /\ Kmain[34] = "curr_thread"
  /\ Kmain[35] = "tss"
  /\ Kmain[36] = "load_esp"
BY DEF Kmain, Early, Screen0, Unmap, Mounts, MouseInit, Rest, Hand

\* Where the steps are that change what interrupts find.
LEMMA Positions ==
  ASSUME NEW i \in 1 .. 36
  PROVE  /\ Kmain[i] = "pit_init" => i = 4
         /\ Kmain[i] = "fb_size" => i = 12
         /\ Kmain[i] = "fb_addr" => i = 13
         /\ Kmain[i] = "remove_identity_map" => i = 15
         /\ Kmain[i] = "ask_config" => i = 19
         /\ Kmain[i] = "config" => i = 20
         /\ Kmain[i] = "set_defaults" => i = 21
         /\ Kmain[i] = "ack" => i = 22 \/ i = 24
         /\ Kmain[i] = "enable" => i = 23
         /\ Kmain[i] = "mouse_handler" => i = 25
         /\ Kmain[i] = "keyboard_init" => i = 26
         /\ Kmain[i] = "console_init" => i = 29
         /\ Kmain[i] = "kthread_create" => i = 31
         /\ Kmain[i] = "curr_thread" => i = 34
         /\ Kmain[i] = "load_esp" => i = 36
<1>1. \/ i = 1 \/ i = 2 \/ i = 3 \/ i = 4 \/ i = 5 \/ i = 6 \/ i = 7 \/ i = 8 \/ i = 9
      \/ i = 10 \/ i = 11 \/ i = 12 \/ i = 13 \/ i = 14 \/ i = 15 \/ i = 16 \/ i = 17 \/ i = 18
      \/ i = 19 \/ i = 20 \/ i = 21 \/ i = 22 \/ i = 23 \/ i = 24 \/ i = 25 \/ i = 26 \/ i = 27
      \/ i = 28 \/ i = 29 \/ i = 30 \/ i = 31 \/ i = 32 \/ i = 33 \/ i = 34 \/ i = 35 \/ i = 36
  OBVIOUS
<1> QED
  BY <1>1, TheSteps

Sendable == {"char", "scancode", "packet", "config", "ack"}

\* The inductive invariant: what each step has done is done from then on, no
\* handler reads the controller before the last poll is over, and what a poll
\* waits for is there.
BootInv ==
  /\ step \in Nat \ {0} /\ identity \in BOOLEAN /\ rows \in BOOLEAN
  /\ obuf \in Seq(Sendable)
  /\ 12 \in irq_handlers => step > 25
  /\ 1 \in irq_handlers => step > 26
  /\ step > 13 => fbuf = "ready"
  /\ ~identity => step > 15
  /\ step > 29 => rows
  /\ curr_thread # NULL => step > 34
  /\ step \in {20, 22, 24} => obuf # <<>>
  /\ raised => obuf # <<>>

LEMMA AtStep ==
  ASSUME BootInv, NEW s, At(s)
  PROVE  step \in 1 .. 36 /\ Kmain[step] = s
BY TheSteps DEF BootInv, At, Entered

LEMMA BootInitInv == BootInit => BootInv
<1> SUFFICES ASSUME BootInit PROVE BootInv
  OBVIOUS
<1>1. identity = TRUE /\ rows = FALSE /\ raised = FALSE
  BY DEF BootInit
<1>2. identity \in BOOLEAN /\ rows \in BOOLEAN /\ ~raised /\ identity
  BY <1>1, Zenon
<1> QED
  BY <1>2 DEF BootInit, BootInv

\* Bytes that are sent are at the end, and only those that are read are gone.
LEMMA SendsBuf ==
  ASSUME obuf \in Seq(Sendable), NEW b \in Sendable, Sends(b)
  PROVE  obuf' \in Seq(Sendable) /\ obuf' # <<>>
BY DEF Sends

LEMMA ReadsBuf ==
  ASSUME obuf \in Seq(Sendable), obuf # <<>>, Reads
  PROVE  obuf' \in Seq(Sendable) /\ (raised' => obuf' # <<>>)
<1>1. obuf' = Tail(obuf) /\ (raised' => Raises(Tail(obuf)))
  BY Zenon DEF Reads
<1>2. Raises(Tail(obuf)) => Tail(obuf) # <<>>
  BY Zenon DEF Raises
<1> QED
  BY <1>1, <1>2

LEMMA OrdinaryInv == BootInv /\ Ordinary => BootInv'
<1> SUFFICES ASSUME BootInv, Ordinary PROVE BootInv'
  OBVIOUS
<1>1. PICK s \in { "gdt_init", "mmap_init", "initrd_init", "fb_parse_tag", "pmm_init",
                   "paging_init", "ksym_init", "kheap_init", "initrd_remap", "vfs_mount",
                   "null_init", "zero_init", "userspace_init", "fb_register",
                   "tty_register", "load_init", "scheduler_add", "tss" } : At(s)
  BY DEF Ordinary
<1>2. step \in 1 .. 36 /\ Kmain[step] = s
  BY <1>1, AtStep
<1>3. step \notin {13, 15, 19, 21, 23, 25, 26, 29, 34}
  BY <1>2, TheSteps
<1> QED
  BY <1>2, <1>3 DEF BootInv, Ordinary, Advance, ps2

LEMMA KmainInv == BootInv /\ kmainStep => BootInv'
<1> SUFFICES ASSUME BootInv, kmainStep PROVE BootInv'
  OBVIOUS
<1>1. CASE StepPanics
  BY <1>1 DEF BootInv, StepPanics, panic, ps2
<1>2. CASE idt_init \/ rtc_init
  <2>1. step \in 1 .. 36 /\ Kmain[step] \in {"idt_init", "rtc_init"}
    BY <1>2, AtStep DEF idt_init, rtc_init
  <2>2. step \notin {13, 15, 19, 21, 23, 25, 26, 29, 34}
    BY <2>1, TheSteps
  <2> QED
    BY <1>2, <2>1, <2>2 DEF BootInv, idt_init, rtc_init, Advance, ps2
<1>3. CASE irq_register
  <2>1. \/ step = 4 /\ irq_handlers' = irq_handlers \cup {0}
        \/ step = 25 /\ irq_handlers' = irq_handlers \cup {12}
        \/ step = 26 /\ irq_handlers' = irq_handlers \cup {1}
    BY <1>3, AtStep, Positions DEF irq_register
  <2> QED
    BY <1>3, <2>1 DEF BootInv, irq_register, Advance, ps2
<1>4. CASE Mapping
  <2>1. \/ step = 12 /\ UNCHANGED <<identity, rows>>
        \/ step = 13 /\ fbuf' = "ready" /\ UNCHANGED <<identity, rows>>
        \/ step = 15 /\ identity' = FALSE /\ UNCHANGED <<fbuf, rows>>
        \/ step = 29 /\ rows' = TRUE /\ UNCHANGED <<fbuf, identity>>
    BY <1>4, AtStep, Positions DEF Mapping
  <2> QED
    <3>1. step' = step + 1 /\ UNCHANGED <<irq_handlers, curr_thread, obuf, raised>>
      BY <1>4 DEF Mapping, Advance, ps2
    <3>2. CASE step \in {12, 13}
      BY <2>1, <3>1, <3>2 DEF BootInv
    <3>3. CASE step = 15
      <4>1. identity' = FALSE /\ UNCHANGED <<fbuf, rows>>
        BY <2>1, <3>3
      <4>2. identity' \in BOOLEAN
        BY <4>1, Zenon
      <4> QED
        BY <3>1, <3>3, <4>1, <4>2 DEF BootInv
    <3>4. CASE step = 29
      <4>1. rows' = TRUE /\ UNCHANGED <<fbuf, identity>>
        BY <2>1, <3>4
      <4>2. rows' \in BOOLEAN /\ rows'
        BY <4>1, Zenon
      <4> QED
        BY <3>1, <3>4, <4>1, <4>2 DEF BootInv
    <3> QED
      BY <2>1, <3>2, <3>3, <3>4
<1>5. CASE mouse_command
  <2>1. step \in {19, 21, 23} /\ \E b \in Sendable : Sends(b)
    BY <1>5, AtStep, Positions DEF mouse_command, Sendable
  <2>2. obuf' \in Seq(Sendable) /\ obuf' # <<>>
    BY <2>1, SendsBuf DEF BootInv
  <2> QED
    BY <1>5, <2>1, <2>2 DEF BootInv, mouse_command, Advance
<1>6. CASE mouse_read
  <2>1. step \in {20, 22, 24}
    BY <1>6, AtStep, Positions DEF mouse_read, Polls
  <2>2. obuf' \in Seq(Sendable) /\ (raised' => obuf' # <<>>)
    BY <1>6, ReadsBuf DEF BootInv, mouse_read
  <2> QED
    BY <1>6, <2>1, <2>2 DEF BootInv, mouse_read, Advance
<1>7. CASE threads
  <2>1. (step = 31 /\ UNCHANGED curr_thread) \/ step = 34
    BY <1>7, AtStep, Positions DEF threads
  <2> QED
    BY <1>7, <2>1 DEF BootInv, threads, Advance, ps2
<1>8. CASE load_esp
  <2>1. step = 36 /\ (step' = step + 1 \/ step' = step)
    BY <1>8, AtStep, Positions DEF load_esp, Advance
  <2> QED
    BY <1>8, <2>1 DEF BootInv, load_esp, ps2
<1> QED
  BY <1>1, <1>2, <1>3, <1>4, <1>5, <1>6, <1>7, <1>8, OrdinaryInv DEF kmainStep

LEMMA IrqInv == BootInv /\ (IRQ0 \/ IRQ1_12 \/ UserInput) => BootInv'
<1> SUFFICES ASSUME BootInv, IRQ0 \/ IRQ1_12 \/ UserInput PROVE BootInv'
  OBVIOUS
<1>1. ASSUME exception_handler PROVE BootInv'
  BY <1>1 DEF BootInv, exception_handler, panic, ps2
<1>2. CASE IRQ0
  BY <1>1, <1>2 DEF BootInv, IRQ0, scheduler_switch_boot, bootVars, ps2
<1>3. CASE IRQ1_12
  <2>1. CASE exception_handler
    BY <1>1, <2>1
  <2>2. CASE UNCHANGED obuf
    BY <1>1, <1>3, <2>2 DEF BootInv, IRQ1_12
  <2>3. CASE obuf # <<>> /\ Reads /\ Line(Head(obuf)) \in irq_handlers /\ ~exception_handler
    <3>1. obuf' \in Seq(Sendable) /\ (raised' => obuf' # <<>>)
      BY <2>3, ReadsBuf DEF BootInv
    <3>2. 1 \in irq_handlers \/ 12 \in irq_handlers
      BY <2>3 DEF Line
    <3> QED
      BY <1>1, <1>3, <2>3, <3>1, <3>2 DEF BootInv, IRQ1_12
  <2> QED
    BY <1>3, <2>1, <2>2, <2>3 DEF IRQ1_12, BootInv
<1>4. CASE UserInput
  <2>1. \E b \in Sendable : Sends(b)
    BY <1>4 DEF UserInput, Sendable
  <2>2. obuf' \in Seq(Sendable) /\ obuf' # <<>>
    BY <2>1, SendsBuf DEF BootInv
  <2> QED
    BY <1>4, <2>2 DEF BootInv, UserInput
<1> QED
  BY <1>2, <1>3, <1>4

LEMMA BootStep == BootInv /\ [BootNext]_bootVars => BootInv'
<1>1. BootInv /\ UNCHANGED bootVars => BootInv'
  BY DEF BootInv, bootVars
<1> QED
  BY <1>1, KmainInv, IrqInv DEF BootNext

LEMMA BootInvariance == BootSpec => []BootInv
BY BootInitInv, BootStep, PTL DEF BootSpec

\* mouse_init never polls for a byte that an interrupt handler has taken.
THEOREM PollsEnd == BootSpec => []PollsAreAnswered
<1>1. BootInv => PollsAreAnswered
  <2> SUFFICES ASSUME BootInv, NEW s \in Polls, At(s) PROVE obuf # <<>>
    BY DEF PollsAreAnswered
  <2>1. step \in {20, 22, 24}
    BY AtStep, Positions DEF Polls
  <2> QED
    BY <2>1 DEF BootInv
<1> QED
  BY <1>1, BootInvariance, PTL

\* Of all interrupts that can come while kmain runs only the key that types
\* before there is a current thread ends in a fault.
THEOREM OnlyEarlyKeysFault == BootSpec => FaultsOnlyOnEarlyKeys
<1>1. BootInv /\ [BootNext]_bootVars =>
        [culprit # "irq" /\ culprit' = "irq" =>
           curr_thread = NULL /\ raised /\ Head(obuf) = "char" /\ 1 \in irq_handlers]_bootVars
  <2> SUFFICES ASSUME BootInv, BootNext, culprit # "irq", culprit' = "irq"
               PROVE  curr_thread = NULL /\ raised /\ Head(obuf) = "char" /\ 1 \in irq_handlers
    BY DEF bootVars
  <2>1. ~DrawFaults
    BY DEF BootInv, DrawFaults
  <2>2. ~kmainStep
    BY BootAssumption DEF kmainStep, Ordinary, StepPanics, panic, idt_init, rtc_init, irq_register,
                          Mapping, mouse_command, mouse_read, threads, load_esp
  <2>3. ~IRQ0 /\ ~UserInput
    BY <2>1 DEF IRQ0, UserInput, scheduler_switch_boot, bootVars
  <2>4. raised /\ Line(Head(obuf)) \in irq_handlers /\ Head(obuf) = "char" /\ tty_input_push_faults
    BY <2>2, <2>3 DEF BootNext, IRQ1_12
  <2>5. curr_thread = NULL
    BY <2>1, <2>4 DEF BootInv, tty_input_push_faults
  <2> QED
    BY <2>4, <2>5 DEF Line
<1> QED
  BY <1>1, BootInvariance, PTL DEF BootSpec, FaultsOnlyOnEarlyKeys

\* The frame that starts main_entry is lost to a tick at the handover only.
THEOREM FrameLostOnlyAtHandover == BootSpec => EntryFrameLostOnlyAtHandover
<1>1. BootInv /\ [BootNext]_bootVars =>
        [main_esp = "entry" /\ main_esp' # "entry" =>
           Kmain[step] \in {"tss", "load_esp"} /\ curr_thread = "main"]_bootVars
  <2> SUFFICES ASSUME BootInv, BootNext, main_esp = "entry", main_esp' # "entry"
               PROVE  Kmain[step] \in {"tss", "load_esp"} /\ curr_thread = "main"
    BY DEF bootVars
  <2>1. ~kmainStep
    BY DEF kmainStep, Ordinary, StepPanics, panic, idt_init, rtc_init, irq_register,
           Mapping, mouse_command, mouse_read, threads, load_esp
  <2>2. ~IRQ1_12 /\ ~UserInput
    BY DEF IRQ1_12, UserInput, exception_handler, panic
  <2>3. curr_thread = "main" /\ ~Entered
    BY <2>1, <2>2 DEF BootNext, IRQ0, scheduler_switch_boot, exception_handler, panic, bootVars
  <2>4. step \in {35, 36}
    BY <2>3, BootAssumption, TheSteps DEF BootInv, Entered
  <2> QED
    BY <2>3, <2>4, TheSteps
<1> QED
  BY <1>1, BootInvariance, PTL DEF BootSpec, EntryFrameLostOnlyAtHandover

==============================================================================
