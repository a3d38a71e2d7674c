-------------------------------- MODULE Mouse --------------------------------
(***************************************************************************)
(* The mouse driver, src/devices/mouse/mouse.c.  A movement or a click is  *)
(* a packet of three bytes, each with an interrupt of its own.  The byte   *)
(* that starts a packet has bit 3 set; bits 0 to 2 are the buttons, bits 4 *)
(* and 5 the signs of the two bytes that follow.                           *)
(*                                                                         *)
(* The controller may drop a byte (its buffer is one byte deep): lost says *)
(* that it has.                                                            *)
(***************************************************************************)
EXTENDS Integers, Sequences, FiniteSetsExt

CONSTANTS
  WIDTH, HEIGHT,   \* fb.width, fb.height
  Packet           \* the packets that the mouse can send

ASSUME MouseAssumption ==
  /\ WIDTH \in Nat \ {0} /\ HEIGHT \in Nat \ {0}
  /\ Packet \subseteq {p \in Seq(0 .. 255) : Len(p) = 3 /\ (p[1] \div 8) % 2 = 1}

VARIABLES
  mouse_x, mouse_y,
  mouse_packet,
  mouse_cycle,
  mouse,           \* what others read
  bytes,           \* the rest of the packet that is being sent
  real,            \* history: what the packets sent so far amount to
  lost             \* history: a byte was dropped

mouseVars == <<mouse_x, mouse_y, mouse_packet, mouse_cycle, mouse, bytes, real, lost>>

\* A bit by its mask.
Bit(b, mask) == (b \div mask) % 2 = 1

Clamp(v, size) == IF v < 0 THEN 0 ELSE IF v >= size THEN size - 1 ELSE v

mouse_init ==
  /\ mouse_x = WIDTH \div 2 /\ mouse_y = HEIGHT \div 2
  /\ mouse_packet = <<0, 0, 0>> /\ mouse_cycle = 0
  /\ mouse = [x |-> 0, y |-> 0, left |-> FALSE, left_clicked |-> FALSE]
  /\ bytes = <<>>
  /\ real = [x |-> WIDTH \div 2, y |-> HEIGHT \div 2, left |-> FALSE, clicked |-> FALSE]
  /\ lost = FALSE

\* Reference: a packet as the movement and the button that it stands for.
Signed(b, negative) == IF negative THEN b - 256 ELSE b

SendPacket(p) ==
  /\ bytes = <<>>
  /\ bytes' = p
  /\ real' = [x       |-> Clamp(real.x + Signed(p[2], Bit(p[1], 16)), WIDTH),
              y       |-> Clamp(real.y - Signed(p[3], Bit(p[1], 32)), HEIGHT),
              left    |-> Bit(p[1], 1),
              clicked |-> Bit(p[1], 1) /\ ~real.left]
  /\ UNCHANGED <<mouse_x, mouse_y, mouse_packet, mouse_cycle, mouse, lost>>

LoseByte ==
  /\ bytes # <<>>
  /\ bytes' = Tail(bytes)
  /\ lost' = TRUE
  /\ UNCHANGED <<mouse_x, mouse_y, mouse_packet, mouse_cycle, mouse, real>>

-----------------------------------------------------------------------------
\* Where a complete packet moves to.  (b << 4) & 0x100 is bit 4 of b as 256.
NewX(p) == Clamp(mouse_x + (p[2] - 256 * ((p[1] \div 16) % 2)), WIDTH)
\* A mutant of NewY: the screen's y grows downwards, the mouse's upwards.
NewYUpward(p) == Clamp(mouse_y + (p[3] - 256 * ((p[1] \div 32) % 2)), HEIGHT)
NewY(p) == Clamp(mouse_y - (p[3] - 256 * ((p[1] \div 32) % 2)), HEIGHT)

\* mouse_callback, by cycle.  The middle and right buttons go as the left one.
mouse_callback ==
  /\ bytes # <<>>
  /\ bytes' = Tail(bytes)
  /\ LET data == Head(bytes)
         p    == [mouse_packet EXCEPT ![mouse_cycle + 1] = data]
         left == Bit(p[1], 1)
     IN  /\ mouse_packet' = p
         /\ \/ /\ mouse_cycle = 0
               /\ mouse_cycle' = IF Bit(data, 8) THEN 1 ELSE 0
               /\ UNCHANGED <<mouse_x, mouse_y, mouse>>
            \/ /\ mouse_cycle = 1
               /\ mouse_cycle' = 2
               /\ UNCHANGED <<mouse_x, mouse_y, mouse>>
            \/ /\ mouse_cycle = 2
               /\ mouse_cycle' = 0
               /\ mouse_x' = NewX(p)
               /\ mouse_y' = NewY(p)
               /\ mouse' = [x |-> NewX(p), y |-> NewY(p), left |-> left,
                            left_clicked |-> left /\ ~mouse.left]
  /\ UNCHANGED <<real, lost>>

MouseNext ==
  \/ \E p \in Packet : SendPacket(p)
  \/ LoseByte
  \/ mouse_callback

MouseSpec == mouse_init /\ [][MouseNext]_mouseVars

-----------------------------------------------------------------------------
\* As long as no byte is lost, what the driver publishes after each packet is
\* what the packets amount to: the position, kept on the screen, the button,
\* and a click exactly in the packet in which it went down.  The driver is then
\* in step with the packets.  Whatever bytes it takes for a packet later, the
\* pointer stays on the screen.
FollowsPackets ==
  /\ ~lost /\ bytes = <<>> =>
       /\ mouse_cycle = 0
       /\ <<mouse_x, mouse_y>> = <<real.x, real.y>>
       /\ mouse.left = real.left /\ mouse.left_clicked = real.clicked
  /\ mouse_x \in 0 .. WIDTH - 1 /\ mouse_y \in 0 .. HEIGHT - 1

=============================================================================
