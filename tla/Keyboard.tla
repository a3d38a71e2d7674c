------------------------------ MODULE Keyboard -------------------------------
(***************************************************************************)
(* The keyboard driver, src/devices/keyboard/keyboard.c: modifiers, the    *)
(* 0xe0 prefix and the event buffer.                                       *)
(*                                                                         *)
(* A byte from the controller is the prefix or a scancode with its release *)
(* bit.  Each raises an interrupt of its own and the handler may be late:  *)
(* wire holds the bytes on the way (external: the controller).  A byte     *)
(* also carries, as history, the keys that were down once it was sent.     *)
(***************************************************************************)
EXTENDS Integers, Sequences, FiniteSets

CONSTANTS
  KEYBOARD_BUF_SIZE,
  CharKey,       \* keys with a character in scancode_map
  DeadKey,       \* keys without one (a 0 in the map, or beyond it)
  MaxWire,       \* bound: bytes on the way
  MaxHeld        \* bound: keys down at a time

ASSUME KeyboardAssumption ==
  /\ KEYBOARD_BUF_SIZE \in Nat \ {0} /\ MaxWire \in Nat /\ MaxHeld \in Nat
  /\ (CharKey \cup DeadKey) \cap
       {"L_SHIFT", "R_SHIFT", "L_CTRL", "R_CTRL", "L_ALT", "R_ALT", "ARROW", "e0", "none"} = {}

VARIABLES
  mods,          \* keyboard.mods: the modifiers taken to be down
  extended,
  kbuf,          \* keyboard_buf.buf, by index
  khead,         \* keyboard_buf.head; nothing moves the tail from 0
  typed,         \* what the last interrupt gave to tty_input_push, or NoChar
  wire,
  held,          \* the keys that are down
  seen           \* history: the keys that were down at the byte read last

keyboardVars == <<mods, extended, kbuf, khead, typed, wire, held, seen>>

NoChar == [key |-> "none", shifted |-> FALSE]

\* Keys by scancode.  The right control and alt keys send the prefix and the
\* scancode of the left ones; so do the arrows, with codes of the keypad.
Modifier  == {"L_SHIFT", "R_SHIFT", "L_CTRL", "R_CTRL", "L_ALT", "R_ALT"}
Prefixed  == {"R_CTRL", "R_ALT", "ARROW"}
Key       == Modifier \cup {"ARROW"} \cup CharKey \cup DeadKey
Scancode(k) == CASE k = "R_CTRL" -> "L_CTRL"
                 [] k = "R_ALT"  -> "L_ALT"
                 [] OTHER        -> k

keyboard_init ==
  /\ mods = {} /\ extended = FALSE
  /\ kbuf = [i \in 0 .. KEYBOARD_BUF_SIZE - 1 |-> [char |-> NoChar, released |-> FALSE]] /\ khead = 0
  /\ typed = NoChar
  /\ wire = <<>> /\ held = {} /\ seen = {}

\* The bytes that a key sends when it goes down, repeats or goes up.
Sent(k, released, down) ==
  (IF k \in Prefixed THEN <<[code |-> "e0", released |-> FALSE, down |-> held]>> ELSE <<>>)
     \o <<[code |-> Scancode(k), released |-> released, down |-> down]>>

Send(k, released) ==
  LET down  == IF released THEN held \ {k} ELSE held \cup {k}
      bytes == Sent(k, released, down)
  IN  /\ Len(wire) + Len(bytes) <= MaxWire
      /\ Cardinality(down) <= MaxHeld
      /\ wire' = wire \o bytes
      /\ held' = down
      /\ typed' = NoChar
      /\ UNCHANGED <<mods, extended, kbuf, khead, seen>>

PressOrRepeat(k) == Send(k, FALSE)
Release(k)       == k \in held /\ Send(k, TRUE)

-----------------------------------------------------------------------------
\* buf_push: dropped when the buffer is full, which leaves one slot empty.
buf_push(c, released) ==
  LET next == (khead + 1) % KEYBOARD_BUF_SIZE IN
  IF next = 0 THEN UNCHANGED <<kbuf, khead>>
  ELSE /\ kbuf' = [kbuf EXCEPT ![khead] = [char |-> c, released |-> released]]
       /\ khead' = next

WithMod(mod, released) == IF released THEN mods \ {mod} ELSE mods \cup {mod}

\* A character of scancode_map or scancode_map_shift.
Char(k) == [key |-> k, shifted |-> mods \cap {"L_SHIFT", "R_SHIFT"} # {}]

\* A mutant of keyboard_callback_extended: the prefix is not reset by keys that
\* it does not know.
keyboard_callback_stuck(e) ==
  /\ e.code # "e0" /\ extended
  /\ mods' = CASE e.code = "L_CTRL" -> WithMod("R_CTRL", e.released)
               [] e.code = "L_ALT"  -> WithMod("R_ALT", e.released)
               [] OTHER             -> mods
  /\ extended' = (e.code \notin {"L_CTRL", "L_ALT"})
  /\ typed' = NoChar
  /\ UNCHANGED <<kbuf, khead>>

\* keyboard_callback, case by case: the prefix; a scancode after it; a
\* modifier; any other key.
keyboard_callback_prefix(e) ==
  /\ e.code = "e0"
  /\ extended' = TRUE
  /\ typed' = NoChar
  /\ UNCHANGED <<mods, kbuf, khead>>

keyboard_callback_extended(e) ==
  /\ e.code # "e0" /\ extended
  /\ extended' = FALSE
  /\ mods' = CASE e.code = "L_CTRL" -> WithMod("R_CTRL", e.released)
               [] e.code = "L_ALT"  -> WithMod("R_ALT", e.released)
               [] OTHER             -> mods
  /\ typed' = NoChar
  /\ UNCHANGED <<kbuf, khead>>

keyboard_callback_modifier(e) ==
  /\ e.code \in {"L_SHIFT", "R_SHIFT", "L_CTRL", "L_ALT"} /\ ~extended
  /\ mods' = WithMod(e.code, e.released)
  /\ typed' = NoChar
  /\ UNCHANGED <<extended, kbuf, khead>>

keyboard_callback_key(e) ==
  /\ e.code \in CharKey \cup DeadKey \cup {"ARROW"} /\ ~extended
  /\ IF e.code \in CharKey
     THEN /\ buf_push(Char(e.code), e.released)
          /\ typed' = IF e.released THEN NoChar ELSE Char(e.code)
     ELSE /\ typed' = NoChar
          /\ UNCHANGED <<kbuf, khead>>
  /\ UNCHANGED <<mods, extended>>

keyboard_callback ==
  /\ wire # <<>>
  /\ wire' = Tail(wire)
  /\ LET e == Head(wire) IN
       \/ keyboard_callback_prefix(e)
       \/ keyboard_callback_extended(e)
       \/ keyboard_callback_modifier(e)
       \/ keyboard_callback_key(e)
  /\ seen' = Head(wire).down
  /\ UNCHANGED held

KeyboardNext ==
  \/ \E k \in Key : PressOrRepeat(k) \/ Release(k)
  \/ keyboard_callback

KeyboardSpec == keyboard_init /\ [][KeyboardNext]_keyboardVars

-----------------------------------------------------------------------------
\* The driver's modifiers are the keys that are down, as of the byte it has
\* read last: left and right are told apart by the prefix alone, keys that
\* repeat and prefixed keys that are ignored come in between.  So what
\* reaches the terminal has the case that the shift keys said when the key was
\* pressed, however late the interrupt.
ModsAreHeld ==
  /\ mods = seen \cap Modifier
  /\ typed # NoChar => typed.shifted = (seen \cap {"L_SHIFT", "R_SHIFT"} # {})

=============================================================================
