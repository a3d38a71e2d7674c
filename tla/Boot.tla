-------------------------------- MODULE Boot ---------------------------------
(***************************************************************************)
(* kmain of src/kernel.c against the interrupts that come while it runs.   *)
(*                                                                         *)
(* idt_init ends with sti and pic_remap has unmasked every line, so from   *)
(* the second step on the timer, the keyboard and the mouse interrupt      *)
(* kmain anywhere.  irq_handler (src/idt/isr.c) calls the handler that is  *)
(* registered by then and acknowledges the interrupt in any case; a byte   *)
(* that no handler reads stays in the controller's output buffer, which    *)
(* raises no further interrupt until someone has read it.  At the end      *)
(* kmain makes the main thread current while it is still on the boot stack *)
(* and only then loads the thread's own stack.                             *)
(*                                                                         *)
(* The controller (an 8042 that delivers its bytes one at a time, in       *)
(* order) is external.                                                     *)
(***************************************************************************)
EXTENDS Integers, Sequences

CONSTANTS
  NULL,
  MaxObuf     \* bound: the bytes on their way from the controller

ASSUME BootAssumption ==
  MaxObuf \in Nat \ {0} /\ NULL \notin {"main", "other", "entry", "boot", "step", "irq"}

VARIABLES
  step,          \* the step of kmain that comes next
  ints,          \* the interrupt flag, where kmain is
  irq_handlers,  \* the lines with a handler
  fbuf,          \* fb: "none", "sized" (all but the back buffer), "ready"
  identity,      \* low memory is mapped at its own addresses
  rows,          \* console_rows is not 0 any more
  curr_thread,   \* NULL, "main" or "other"
  main_esp,      \* where main_thread->esp points: NULL, "entry" (the frame that
                 \* kthread_create made), "boot" (a frame on the boot stack)
  obuf,          \* bytes that the controller has to deliver, the first one first
  raised,        \* the interrupt for the first one is pending
  kirq,          \* the controller's configuration has keyboard interrupts on
  culprit,       \* what panicked: NULL, "step" (of kmain) or "irq" (a handler)
  fate           \* "up", "halted" (in panic's hlt), "faulting" (panic itself
                 \* faults, again and again), "undefined"

bootVars == <<step, ints, irq_handlers, fbuf, identity, rows, curr_thread,
              main_esp, obuf, raised, kirq, culprit, fate>>

ps2 == <<obuf, raised, kirq>>

(***************************************************************************)
(* The steps, in their order.  mouse_init is six: three commands, each     *)
(* with the answer it polls for.                                           *)
(***************************************************************************)
MouseInit == << "ask_config", "config", "set_defaults", "ack", "enable", "ack",
                "mouse_handler" >>

Early  == << "gdt_init", "idt_init", "rtc_init", "pit_init", "mmap_init",
             "initrd_init", "fb_parse_tag", "pmm_init", "paging_init", "ksym_init",
             "kheap_init" >>
Screen0 == << "fb_size", "fb_addr", "initrd_remap" >>
Unmap  == << "remove_identity_map" >>
Mounts == << "vfs_mount", "null_init", "zero_init" >>
Rest   == << "userspace_init", "fb_register", "console_init", "tty_register",
             "kthread_create", "load_init", "scheduler_add" >>
Hand   == << "curr_thread", "tss", "load_esp" >>

\* Slips in the order: the keyboard's handler before the mouse's handshake, low
\* memory unmapped before the screen is there, the current thread set early.
KmainKeyboardFirst ==
  Early \o Screen0 \o Unmap \o Mounts \o <<"keyboard_init">> \o MouseInit \o Rest \o Hand

KmainUnmapFirst ==
  Early \o Unmap \o Screen0 \o Mounts \o MouseInit \o <<"keyboard_init">> \o Rest \o Hand

KmainCurrentFirst ==
  Early \o Screen0 \o Unmap \o Mounts \o MouseInit
    \o << "keyboard_init", "kthread_create", "curr_thread" >> \o Rest \o << "tss", "load_esp" >>

Kmain ==
  Early \o Screen0 \o Unmap \o Mounts \o MouseInit \o <<"keyboard_init">> \o Rest \o Hand

Entered == step > Len(Kmain)      \* main_entry runs

\* Steps that panic when something is missing or memory runs out.
MayPanic == { "mmap_init", "initrd_init", "fb_parse_tag", "kheap_init", "fb_size",
              "fb_addr", "initrd_remap", "vfs_mount", "kthread_create", "load_init" }

Polls == {"config", "ack"}

\* kmain is about to take step s.
At(s) == fate = "up" /\ ~Entered /\ curr_thread \in {NULL, "main"} /\ Kmain[step] = s

Advance == step' = step + 1

------------------------------------------------------------------------------
(***************************************************************************)
(* The keyboard controller: a byte raises its interrupt when it becomes    *)
(* the first one; reading it makes the next one the first.                 *)
(***************************************************************************)
Line(b) == IF b \in {"ack", "packet"} THEN 12 ELSE 1

Raises(buf) == buf # <<>> /\ (Line(Head(buf)) = 12 \/ kirq)

Sends(b) ==
  /\ obuf' = Append(obuf, b)
  /\ raised' = IF obuf = <<>> THEN Raises(<<b>>) ELSE raised
  /\ UNCHANGED kirq

Reads ==
  /\ obuf' = Tail(obuf)
  /\ raised' = Raises(Tail(obuf))

\* A key goes down that makes a character, or any other scancode comes; the
\* mouse, once it was enabled, moves.
UserInput ==
  /\ fate = "up" /\ Len(obuf) < MaxObuf
  /\ \/ \E b \in {"char", "scancode"} : Sends(b)
     \/ (\E i \in 1 .. step - 1 : i <= Len(Kmain) /\ Kmain[i] = "enable") /\ Sends("packet")
  /\ UNCHANGED <<step, ints, irq_handlers, fbuf, identity, rows, curr_thread,
                 main_esp, culprit, fate>>

------------------------------------------------------------------------------
(***************************************************************************)
(* panic: clears the screen and prints, and halts with interrupts off.     *)
(* The screen is cleared through fb.addr, 0 in the middle of fb_init, when *)
(* its size is known: that writes over the kernel.  A character printed    *)
(* while console_rows is 0 puts the cursor on row -1, in front of the back *)
(* buffer, where nothing is mapped: panic faults.  Before fb_init all of   *)
(* it goes to address 0 and does no harm.                                  *)
(***************************************************************************)
panic(by) ==
  /\ ints' = FALSE
  /\ culprit' = by
  /\ fate' = CASE rows \/ fbuf = "none"   -> "halted"
               [] ~rows /\ fbuf = "sized" -> "undefined"
               [] OTHER                   -> "faulting"
  /\ UNCHANGED <<step, irq_handlers, fbuf, identity, rows, curr_thread, main_esp, ps2>>

\* A page fault in the kernel: exception_handler prints and calls panic.
exception_handler == panic("irq")

(***************************************************************************)
(* The steps of kmain.                                                     *)
(***************************************************************************)
\* Those that have no effect on what interrupts find.
Ordinary ==
  /\ \E s \in { "gdt_init", "mmap_init", "initrd_init", "fb_parse_tag", "pmm_init",
                "paging_init", "ksym_init", "kheap_init", "initrd_remap", "vfs_mount",
                "null_init", "zero_init", "userspace_init", "fb_register",
                "tty_register", "load_init", "scheduler_add", "tss" } : At(s)
  /\ Advance
  /\ UNCHANGED <<ints, irq_handlers, fbuf, identity, rows, curr_thread, main_esp,
                 ps2, culprit, fate>>

StepPanics == (\E s \in MayPanic : At(s)) /\ panic("step")

\* pic_remap forgets the interrupts that came before it; sti.
idt_init ==
  /\ At("idt_init") /\ Advance
  /\ ints' = TRUE
  /\ raised' = FALSE
  /\ UNCHANGED <<irq_handlers, fbuf, identity, rows, curr_thread, main_esp, obuf,
                 kirq, culprit, fate>>

\* rtc_read_time: cli, wait for the chip and read it, sti.
rtc_init ==
  /\ At("rtc_init") /\ Advance
  /\ ints' = TRUE
  /\ UNCHANGED <<irq_handlers, fbuf, identity, rows, curr_thread, main_esp, ps2, culprit, fate>>

irq_register ==
  /\ \/ At("pit_init") /\ irq_handlers' = irq_handlers \cup {0}
     \/ At("mouse_handler") /\ irq_handlers' = irq_handlers \cup {12}
     \/ At("keyboard_init") /\ irq_handlers' = irq_handlers \cup {1}
  /\ Advance
  /\ UNCHANGED <<ints, fbuf, identity, rows, curr_thread, main_esp, ps2, culprit, fate>>

\* The geometry is stored first, the address of the back buffer after it was
\* allocated; remove_identity_map; console_init.
Mapping ==
  /\ \/ /\ At("fb_size") /\ fbuf' = "sized" /\ UNCHANGED <<identity, rows>>
     \/ /\ At("fb_addr") /\ fbuf' = "ready" /\ UNCHANGED <<identity, rows>>
     \/ /\ At("remove_identity_map") /\ identity' = FALSE /\ UNCHANGED <<fbuf, rows>>
     \/ /\ At("console_init") /\ rows' = TRUE /\ UNCHANGED <<fbuf, identity>>
  /\ Advance
  /\ UNCHANGED <<ints, irq_handlers, curr_thread, main_esp, ps2, culprit, fate>>

\* mouse_init: a command that is answered, or a poll that takes the first byte
\* for the answer.  What is read for the configuration is written back, so any
\* other byte may turn the keyboard's interrupt off.
mouse_command ==
  /\ \/ At("ask_config") /\ Sends("config")
     \/ (At("set_defaults") \/ At("enable")) /\ Sends("ack")
  /\ Advance
  /\ UNCHANGED <<ints, irq_handlers, fbuf, identity, rows, curr_thread, main_esp, culprit, fate>>

mouse_read ==
  /\ \E s \in Polls : At(s)
  /\ obuf # <<>>
  /\ Reads
  /\ IF At("config") /\ Head(obuf) # "config" THEN kirq' \in BOOLEAN ELSE UNCHANGED kirq
  /\ Advance
  /\ UNCHANGED <<ints, irq_handlers, fbuf, identity, rows, curr_thread, main_esp, culprit, fate>>

\* The two threads are made; the main one becomes current.
threads ==
  /\ \/ At("kthread_create") /\ main_esp' = "entry" /\ UNCHANGED curr_thread
     \/ At("curr_thread") /\ curr_thread' = "main" /\ UNCHANGED main_esp
  /\ Advance
  /\ UNCHANGED <<ints, irq_handlers, fbuf, identity, rows, ps2, culprit, fate>>

\* Load curr_thread->esp, pop the frame there, iret.  A frame on the boot stack
\* is one that an interrupt has popped before: it leads back into kmain, or is
\* overwritten by now.
load_esp ==
  /\ At("load_esp")
  /\ \/ main_esp = "entry" /\ Advance /\ UNCHANGED fate
     \/ main_esp = "boot" /\ UNCHANGED <<step, fate>>
     \/ main_esp = "boot" /\ fate' = "undefined" /\ UNCHANGED step
  /\ UNCHANGED <<ints, irq_handlers, fbuf, identity, rows, curr_thread, main_esp, ps2,
                 culprit>>

kmainStep ==
  \/ Ordinary \/ StepPanics \/ idt_init \/ rtc_init \/ irq_register \/ Mapping
  \/ mouse_command \/ mouse_read \/ threads \/ load_esp

------------------------------------------------------------------------------
(***************************************************************************)
(* Interrupts.                                                             *)
(***************************************************************************)
Interruptible == ints /\ fate = "up"

\* scheduler_switch: the interrupted thread's frame is on the stack that was in
\* use, which for kmain is the boot stack; another thread is always READY.
scheduler_switch_boot ==
  /\ IF curr_thread = "main"
     THEN /\ curr_thread' = "other"
          /\ main_esp' = IF Entered THEN main_esp ELSE "boot"
     ELSE curr_thread' = "main" /\ UNCHANGED main_esp
  /\ UNCHANGED <<step, ints, irq_handlers, fbuf, identity, rows, ps2, culprit, fate>>

\* A write through fb.addr, which is 0 until fb_init has set it.
DrawFaults == fbuf # "ready" /\ ~identity

\* pit_callback: every 500 ticks the cursor blinks, every 10 the scheduler is
\* asked for, unless there is no current thread; fb_swap waits for fb_init.
IRQ0 ==
  /\ Interruptible
  /\ 0 \in irq_handlers
  /\ \E blinks, asks \in BOOLEAN :
       IF blinks /\ DrawFaults THEN exception_handler
       ELSE IF asks /\ curr_thread # NULL THEN scheduler_switch_boot
       ELSE UNCHANGED bootVars

\* tty_input_push echoes the character and looks at the current thread.
tty_input_push_faults == ~rows \/ DrawFaults \/ (curr_thread = NULL /\ ~identity)

\* IRQ 1 and 12: irq_handler without a handler sends the end of interrupt and
\* leaves the byte where it is.
IRQ1_12 ==
  /\ Interruptible
  /\ raised
  /\ IF Line(Head(obuf)) \notin irq_handlers
     THEN /\ raised' = FALSE
          /\ UNCHANGED <<step, ints, irq_handlers, fbuf, identity, rows,
                         curr_thread, main_esp, obuf, kirq, culprit, fate>>
     ELSE IF Head(obuf) = "char" /\ tty_input_push_faults THEN exception_handler
     ELSE /\ Reads
          /\ UNCHANGED <<step, ints, irq_handlers, fbuf, identity, rows,
                         curr_thread, main_esp, kirq, culprit, fate>>

------------------------------------------------------------------------------
BootInit ==
  /\ step = 1
  /\ ints = FALSE
  /\ irq_handlers = {}
  /\ fbuf = "none"
  /\ identity = TRUE
  /\ rows = FALSE
  /\ curr_thread = NULL
  /\ main_esp = NULL
  /\ obuf = <<>>
  /\ raised = FALSE
  /\ kirq = TRUE
  /\ culprit = NULL
  /\ fate = "up"

BootNext == kmainStep \/ IRQ0 \/ IRQ1_12 \/ UserInput

BootSpec == BootInit /\ [][BootNext]_bootVars

------------------------------------------------------------------------------
(***************************************************************************)
(* Properties.                                                             *)
(***************************************************************************)

\* When mouse_init polls (mouse.c:27, mouse.c:44), a byte is there or it would
\* spin for ever: no interrupt handler has read the answer.  The controller's
\* answer to a command raises the keyboard's interrupt, the mouse's its own, so
\* this is about the order in which kmain registers the handlers.
PollsAreAnswered == (\E s \in Polls : At(s)) => obuf # <<>>

\* No interrupt at any point of kmain faults, except a character key between
\* keyboard_init and curr_thread = main_thread: tty_input_push (tty.c:37) takes
\* curr_thread for granted, and before console_init the echo faults already.
\* The timer's handler runs before memory, screen and threads exist and does not.
FaultsOnlyOnEarlyKeys ==
  [][ culprit # "irq" /\ culprit' = "irq" =>
        curr_thread = NULL /\ raised /\ Head(obuf) = "char" /\ 1 \in irq_handlers ]_bootVars

\* The frame that starts main_entry is lost only to a tick that comes after kmain
\* has set curr_thread (kernel.c:184) and before it has loaded that frame: a
\* switch then saves the boot stack in its place, and main_entry never runs.
EntryFrameLostOnlyAtHandover ==
  [][ main_esp = "entry" /\ main_esp' # "entry" =>
        Kmain[step] \in {"tss", "load_esp"} /\ curr_thread = "main" ]_bootVars

==============================================================================
