------------------------------ MODULE MCDevices ------------------------------
(***************************************************************************)
(* The drivers of clock, console, keyboard and mouse, the boot, the        *)
(* functions for texts and memory and a program's arguments, together.     *)
(* They share no state, but for the timer that makes the console's cursor  *)
(* blink and the keyboard whose characters the terminal echoes, so a       *)
(* behaviour exercises one of them: device says which.                     *)
(***************************************************************************)
EXTENDS Clock, Console, Keyboard, Mouse, Boot, Format, Bytes, Arguments

VARIABLE device

vars == <<clockVars, consoleVars, keyboardVars, mouseVars, bootVars,
          formatVars, bytesVars, argVars, device>>

libraryVars == <<formatVars, bytesVars, argVars>>

Time(y, mo, d, h, mi, s) ==
  [seconds |-> s, minutes |-> mi, hours |-> h, day |-> d, month |-> mo, year |-> y]

\* The last seconds of days at the ends of months and years, in leap years and
\* in others, and of every hour of one day.
MCBootDays ==
  {<<2000, 2, 28>>, <<2000, 2, 29>>, <<2023, 2, 28>>, <<2024, 2, 28>>, <<2024, 2, 29>>,
   <<2023, 4, 29>>, <<2023, 4, 30>>, <<2024, 7, 31>>, <<2023, 11, 30>>,
   <<2023, 12, 31>>, <<2024, 12, 31>>, <<2099, 12, 31>>}
MCBootTimes ==
  {Time(d[1], d[2], d[3], 23, 59, 58) : d \in MCBootDays}
    \cup {Time(2024, 5, 17, h, 59, 59) : h \in 0 .. 23}

MCPacket == {<<8, 1, 1>>, <<9, 0, 0>>, <<9, 2, 0>>, <<8 + 16, 255, 0>>, <<8 + 32, 9, 254>>}

\* Directives with every flag, with widths and precisions below and above the
\* lengths of what they convert, at the ends of the numbers' ranges.  Precision 3
\* is one too many behind a sign, 8 for every integer and for a negative double.
MCArgs ==
  ({"d"} \X {-16, -5, 0, 15}) \cup ({"u", "x"} \X {0, 10, 31}) \cup ({"p"} \X {26})
    \cup ({"f"} \X {-12, 5, 20}) \cup ({"c"} \X {"a", "NUL"})
    \cup ({"s"} \X {<<>>, <<"a", "b", "c">>, NoString}) \cup ({"%", "l", "end"} \X {0})

MCDirective ==
  {[left |-> l, zero |-> z, width |-> w, prec |-> p, conv |-> a[1], arg |-> a[2]] :
     l \in BOOLEAN, z \in BOOLEAN, w \in {-2, 0, 5}, p \in {-1, 0, 2, 3, 8}, a \in MCArgs}

\* Up to one argument too many, of lengths up to one too long.
MCGiven ==
  UNION {[1 .. n -> {<<>>, <<"a">>, <<"a", "b">>, <<"a", "b", "c">>, <<"a", "b", "c", "d">>}] :
           n \in 0 .. 3}

Init ==
  /\ device \in {"clock", "console", "keyboard", "mouse", "boot", "text", "memory", "arguments"}
  /\ ClockInit /\ (device # "clock" =>
       rtc.time = Time(2024, 5, 17, 0, 59, 59) /\ rtc.registers.binary /\ rtc.registers.mode24)
  /\ console_init
  /\ keyboard_init
  /\ mouse_init
  /\ BootInit
  /\ FormatInit /\ (device # "text" => lib = "libc" /\ size = 1)
  /\ BytesInit /\ (device # "memory" => memory = [a \in Address |-> NUL])
  /\ ArgInit /\ (device # "arguments" => args = <<>> /\ kernel_strs[0] = "NUL")

\* The timer: the clock, and the cursor when it blinks.
Timer ==
  /\ device = "clock"
  /\ pit_callback
  /\ IF Blinks THEN console_toggle_cursor ELSE UNCHANGED consoleVars
  /\ UNCHANGED <<keyboardVars, mouseVars, bootVars, libraryVars, device>>

Screen ==
  /\ device = "console"
  /\ ConsoleNext
  /\ UNCHANGED <<clockVars, keyboardVars, mouseVars, bootVars, libraryVars, device>>

Keys ==
  /\ device = "keyboard"
  /\ KeyboardNext
  /\ UNCHANGED <<clockVars, consoleVars, mouseVars, bootVars, libraryVars, device>>

Pointer ==
  /\ device = "mouse"
  /\ MouseNext
  /\ UNCHANGED <<clockVars, consoleVars, keyboardVars, bootVars, libraryVars, device>>

\* kmain and the interrupts that come in its way.
Booting ==
  /\ device = "boot"
  /\ BootNext
  /\ UNCHANGED <<clockVars, consoleVars, keyboardVars, mouseVars, libraryVars, device>>

Formatting ==
  /\ device = "text"
  /\ FormatNext
  /\ UNCHANGED <<clockVars, consoleVars, keyboardVars, mouseVars, bootVars, bytesVars,
                 argVars, device>>

Copying ==
  /\ device = "memory"
  /\ BytesNext
  /\ UNCHANGED <<clockVars, consoleVars, keyboardVars, mouseVars, bootVars, formatVars,
                 argVars, device>>

Spawning ==
  /\ device = "arguments"
  /\ ArgNext
  /\ UNCHANGED <<clockVars, consoleVars, keyboardVars, mouseVars, bootVars, formatVars,
                 bytesVars, device>>

Next == Timer \/ Screen \/ Keys \/ Pointer \/ Booting \/ Formatting \/ Copying
          \/ Spawning

Spec == Init /\ [][Next]_vars

=============================================================================
