----------------------------- MODULE DriverProofs ----------------------------
(***************************************************************************)
(* The drivers of the clock, the keyboard, the mouse and the console, for  *)
(* every time of boot, every number of bytes on the way, every packet and  *)
(* every size of the screen.                                               *)
(***************************************************************************)
EXTENDS Clock, Console, Keyboard, Mouse, SequenceTheorems, TLAPS

(***************************************************************************)
(* The keyboard.  The invariant follows the keys that are down from byte   *)
(* to byte, from the last one read to the last one sent.                   *)
(***************************************************************************)
KeyByte == [code : Key \cup {"e0"}, released : BOOLEAN, down : SUBSET Key]

\* The keys that were down before the i-th byte of w was sent, when down were at
\* the first, and the code before it, which is code for the first.
DownAt(w, down, i) == IF i = 1 THEN down ELSE w[i - 1].down
CodeAt(w, code, i) == IF i = 1 THEN code ELSE w[i - 1].code

\* A byte by what comes before it: a prefix, or the scancode of a key.
KeyByteOK(e, down, code) ==
  \/ e.code = "e0" /\ e.down = down
  \/ \E k \in Key :
       /\ e.code = Scancode(k) /\ (k \in Prefixed <=> code = "e0")
       /\ e.down = IF e.released THEN down \ {k} ELSE down \cup {k}

ChainOK(w, down, code) ==
  \A i \in 1 .. Len(w) : KeyByteOK(w[i], DownAt(w, down, i), CodeAt(w, code, i))

LastCode == IF extended THEN "e0" ELSE "none"

WireOK ==
  /\ wire \in Seq(KeyByte)
  /\ ChainOK(wire, seen, LastCode)
  /\ held = DownAt(wire, seen, Len(wire) + 1)
  /\ CodeAt(wire, LastCode, Len(wire) + 1) # "e0"

KeyboardInv ==
  /\ extended \in BOOLEAN /\ seen \in SUBSET Key /\ held \in SUBSET Key
  /\ WireOK
  /\ ModsAreHeld

LEMMA Keys ==
  /\ Modifier \subseteq Key /\ "ARROW" \in Key
  /\ \A k \in Key : Scancode(k) \in Key /\ Scancode(k) # "e0"
  /\ \A k \in Prefixed : Scancode(k) \in {"L_CTRL", "L_ALT", "ARROW"}
  /\ \A k \in Key : Scancode(k) = "L_CTRL" => k \in {"L_CTRL", "R_CTRL"}
  /\ \A k \in Key : Scancode(k) = "L_ALT" => k \in {"L_ALT", "R_ALT"}
  /\ \A k \in Key : Scancode(k) \notin {"L_CTRL", "L_ALT"} => k = Scancode(k)
BY KeyboardAssumption DEF Key, Modifier, Scancode, Prefixed

LEMMA KeyboardInitInv == keyboard_init => KeyboardInv
<1> SUFFICES ASSUME keyboard_init PROVE KeyboardInv
  OBVIOUS
<1>1. WireOK
  BY DEF keyboard_init, WireOK, ChainOK, DownAt, CodeAt, LastCode
<1> QED
  BY <1>1 DEF keyboard_init, KeyboardInv, ModsAreHeld

\* A byte that fits may follow, and one that was read may go.
LEMMA ChainGrows ==
  ASSUME NEW w \in Seq(KeyByte), NEW down, NEW code, NEW b \in KeyByte, ChainOK(w, down, code),
         KeyByteOK(b, DownAt(w, down, Len(w) + 1), CodeAt(w, code, Len(w) + 1))
  PROVE  LET v == Append(w, b) IN
         /\ v \in Seq(KeyByte) /\ ChainOK(v, down, code)
         /\ DownAt(v, down, Len(v) + 1) = b.down /\ CodeAt(v, code, Len(v) + 1) = b.code
<1> DEFINE v == Append(w, b)
           L == Len(w)
<1>1. /\ L \in Nat /\ v \in Seq(KeyByte) /\ Len(v) = L + 1 /\ v[L + 1] = b
      /\ \A i \in 1 .. L : v[i] = w[i]
  OBVIOUS
<1> HIDE DEF v, L
<1>2. DownAt(v, down, Len(v) + 1) = b.down /\ CodeAt(v, code, Len(v) + 1) = b.code
  BY <1>1 DEF DownAt, CodeAt
<1>3. \A i \in 1 .. L + 1 : DownAt(v, down, i) = DownAt(w, down, i) /\ CodeAt(v, code, i) = CodeAt(w, code, i)
  BY <1>1 DEF DownAt, CodeAt
<1>4. ASSUME NEW i \in 1 .. L PROVE KeyByteOK(v[i], DownAt(v, down, i), CodeAt(v, code, i))
  <2>1. KeyByteOK(w[i], DownAt(w, down, i), CodeAt(w, code, i))
    BY DEF ChainOK, L
  <2> QED
    BY <1>1, <1>3, <2>1
<1>5. KeyByteOK(v[L + 1], DownAt(v, down, L + 1), CodeAt(v, code, L + 1))
  BY <1>1, <1>3 DEF L
<1>6. ChainOK(v, down, code)
  <2>1. \A i \in 1 .. Len(v) : i \in 1 .. L \/ i = L + 1
    BY <1>1
  <2> QED
    BY <1>4, <1>5, <2>1 DEF ChainOK
<1> QED
  BY <1>1, <1>2, <1>6 DEF v

LEMMA ChainShrinks ==
  ASSUME NEW w \in Seq(KeyByte), NEW down, NEW code, w # <<>>, ChainOK(w, down, code)
  PROVE  LET v == Tail(w) IN
         /\ v \in Seq(KeyByte) /\ ChainOK(v, w[1].down, w[1].code)
         /\ DownAt(v, w[1].down, Len(v) + 1) = DownAt(w, down, Len(w) + 1)
         /\ CodeAt(v, w[1].code, Len(v) + 1) = CodeAt(w, code, Len(w) + 1)
<1> DEFINE v == Tail(w)
           L == Len(w)
<1>1. /\ L \in Nat \ {0} /\ v \in Seq(KeyByte) /\ Len(v) = L - 1
      /\ \A i \in 1 .. L - 1 : v[i] = w[i + 1]
  OBVIOUS
<1> HIDE DEF v, L
<1>2. \A i \in 1 .. L : /\ DownAt(v, w[1].down, i) = DownAt(w, down, i + 1)
                        /\ CodeAt(v, w[1].code, i) = CodeAt(w, code, i + 1)
  BY <1>1 DEF DownAt, CodeAt
<1>3. ASSUME NEW i \in 1 .. Len(v)
      PROVE  KeyByteOK(v[i], DownAt(v, w[1].down, i), CodeAt(v, w[1].code, i))
  <2>1. i + 1 \in 1 .. Len(w) /\ i \in 1 .. L
    BY <1>1 DEF L
  <2>2. KeyByteOK(w[i + 1], DownAt(w, down, i + 1), CodeAt(w, code, i + 1))
    BY <2>1 DEF ChainOK
  <2> QED
    BY <1>1, <1>2, <2>1, <2>2
<1>4. /\ DownAt(v, w[1].down, Len(v) + 1) = DownAt(w, down, Len(w) + 1)
      /\ CodeAt(v, w[1].code, Len(v) + 1) = CodeAt(w, code, Len(w) + 1)
  BY <1>1, <1>2 DEF L
<1> QED
  BY <1>1, <1>3, <1>4 DEF v, ChainOK

\* What a key sends continues what was sent before it.
LEMMA SendInv ==
  ASSUME KeyboardInv, NEW k \in Key, NEW released \in BOOLEAN, Send(k, released)
  PROVE  KeyboardInv'
<1> USE DEF KeyboardInv
<1> DEFINE down == IF released THEN held \ {k} ELSE held \cup {k}
           a    == [code |-> "e0", released |-> FALSE, down |-> held]
           b    == [code |-> Scancode(k), released |-> released, down |-> down]
<1>1. /\ wire' = wire \o Sent(k, released, down) /\ held' = down /\ typed' = NoChar
      /\ UNCHANGED <<mods, extended, kbuf, khead, seen>>
  BY DEF Send
<1>2. a \in KeyByte /\ b \in KeyByte /\ down \in SUBSET Key
  BY Keys DEF KeyByte
<1>3. wire \in Seq(KeyByte) /\ ChainOK(wire, seen, LastCode)
  BY DEF WireOK
<1>4. a.code = "e0" /\ a.down = held /\ b.code # "e0" /\ b.down = down
  BY Keys
<1>5. /\ \A c : KeyByteOK(a, held, c)
      /\ \A c : (k \in Prefixed <=> c = "e0") => KeyByteOK(b, held, c)
  BY DEF KeyByteOK
<1>6. /\ DownAt(wire, seen, Len(wire) + 1) = held
      /\ CodeAt(wire, LastCode, Len(wire) + 1) # "e0"
  BY DEF WireOK
<1>7. LastCode' = LastCode
  BY <1>1 DEF LastCode
<1>8. WireOK'
  <2>1. CASE k \notin Prefixed
    <3>1. wire' = Append(wire, b)
      BY <1>1, <1>2, <1>3, <2>1 DEF Sent
    <3> HIDE DEF a, b, down
    <3>2. KeyByteOK(b, DownAt(wire, seen, Len(wire) + 1), CodeAt(wire, LastCode, Len(wire) + 1))
      BY <1>5, <1>6, <2>1
    <3> QED
      BY <1>1, <1>2, <1>3, <1>4, <1>7, <3>1, <3>2, ChainGrows DEF WireOK
  <2>2. CASE k \in Prefixed
    <3> DEFINE v == Append(wire, a)
    <3>1. wire' = wire \o (<<a>> \o <<b>>)
      BY <1>1, <2>2 DEF Sent
    <3> HIDE DEF a, b, down
    <3>5. wire' = Append(v, b)
      BY <1>2, <1>3, <3>1
    <3>2. KeyByteOK(a, DownAt(wire, seen, Len(wire) + 1), CodeAt(wire, LastCode, Len(wire) + 1))
      BY <1>5, <1>6
    <3>3. /\ v \in Seq(KeyByte) /\ ChainOK(v, seen, LastCode)
          /\ DownAt(v, seen, Len(v) + 1) = held /\ CodeAt(v, LastCode, Len(v) + 1) = "e0"
      BY <1>2, <1>3, <1>4, <3>2, ChainGrows, SMTT(20)
    <3> HIDE DEF v
    <3>4. KeyByteOK(b, DownAt(v, seen, Len(v) + 1), CodeAt(v, LastCode, Len(v) + 1))
      BY <1>5, <2>2, <3>3
    <3> QED
      BY <1>1, <1>2, <1>4, <1>7, <3>3, <3>4, <3>5, ChainGrows DEF WireOK
  <2> QED
    BY <2>1, <2>2
<1> QED
  BY <1>1, <1>2, <1>8 DEF ModsAreHeld

\* The handler takes the first byte.
LEMMA CallbackInv == KeyboardInv /\ keyboard_callback => KeyboardInv'
<1> SUFFICES ASSUME KeyboardInv, keyboard_callback PROVE KeyboardInv'
  OBVIOUS
<1> USE DEF KeyboardInv
<1> DEFINE e == Head(wire)
<1>1. wire # <<>> /\ wire' = Tail(wire) /\ seen' = e.down /\ held' = held
  BY DEF keyboard_callback
<1>2. /\ wire \in Seq(KeyByte) /\ Len(wire) \in Nat \ {0} /\ e = wire[1] /\ e \in KeyByte
      /\ ChainOK(wire, seen, LastCode)
  BY <1>1 DEF WireOK
<1>3. KeyByteOK(e, seen, LastCode)
  <2>1. KeyByteOK(wire[1], DownAt(wire, seen, 1), CodeAt(wire, LastCode, 1))
    BY <1>2 DEF ChainOK
  <2>2. DownAt(wire, seen, 1) = seen /\ CodeAt(wire, LastCode, 1) = LastCode
    BY DEF DownAt, CodeAt
  <2> QED
    BY <1>2, <2>1, <2>2
<1>4. \/ keyboard_callback_prefix(e) \/ keyboard_callback_extended(e)
      \/ keyboard_callback_modifier(e) \/ keyboard_callback_key(e)
  BY DEF keyboard_callback
<1>5. e.code \in Key \cup {"e0"} /\ e.released \in BOOLEAN /\ e.down \in SUBSET Key
  BY <1>2 DEF KeyByte
<1> HIDE DEF e
<1>6. extended' \in BOOLEAN /\ (extended' <=> e.code = "e0")
  <2> USE KeyboardAssumption
  <2>1. CASE keyboard_callback_prefix(e)
    BY <2>1 DEF keyboard_callback_prefix
  <2>2. CASE keyboard_callback_extended(e)
    BY <2>2 DEF keyboard_callback_extended
  <2>3. CASE keyboard_callback_modifier(e)
    BY <2>3 DEF keyboard_callback_modifier
  <2>4. CASE keyboard_callback_key(e)
    <3>1. e.code # "e0" /\ ~extended
      BY <2>4 DEF keyboard_callback_key
    <3> QED
      BY <2>4, <3>1 DEF keyboard_callback_key
  <2> QED
    BY <1>4, <2>1, <2>2, <2>3, <2>4
<1>7. WireOK'
  <2>1. LastCode' # e.code => LastCode' # "e0" /\ e.code # "e0"
    BY <1>6 DEF LastCode
  <2>2. /\ wire' \in Seq(KeyByte) /\ ChainOK(wire', seen', e.code)
        /\ DownAt(wire', seen', Len(wire') + 1) = held'
        /\ CodeAt(wire', e.code, Len(wire') + 1) # "e0"
    BY <1>1, <1>2, ChainShrinks DEF WireOK
  <2>3. \A c, d : ChainOK(wire', seen', c) /\ c # "e0" /\ d # "e0" => ChainOK(wire', seen', d)
    BY <2>2 DEF ChainOK, KeyByteOK, CodeAt
  <2>4. CodeAt(wire', LastCode', Len(wire') + 1) # "e0"
    BY <2>1, <2>2 DEF CodeAt
  <2> QED
    BY <2>1, <2>2, <2>3, <2>4 DEF WireOK
<1>8. ModsAreHeld'
  <2>1. CASE e.code = "e0"
    BY <1>1, <1>3, <1>4, <2>1, Keys, KeyboardAssumption
       DEF KeyByteOK, ModsAreHeld, keyboard_callback_prefix, keyboard_callback_extended,
           keyboard_callback_modifier, keyboard_callback_key, Key
  <2>2. CASE e.code # "e0"
    <3>1. PICK k \in Key :
            /\ e.code = Scancode(k) /\ (k \in Prefixed <=> extended)
            /\ e.down = IF e.released THEN seen \ {k} ELSE seen \cup {k}
      BY <1>3, <2>2 DEF KeyByteOK, LastCode
    <3>2. CASE extended
      BY <1>1, <1>4, <1>5, <2>2, <3>1, <3>2, Keys
         DEF ModsAreHeld, keyboard_callback_extended, keyboard_callback_prefix,
             keyboard_callback_modifier, keyboard_callback_key, WithMod, Modifier, Prefixed
    <3>3. CASE ~extended /\ k \in Modifier
      BY <1>1, <1>4, <1>5, <2>2, <3>1, <3>3, Keys, KeyboardAssumption
         DEF ModsAreHeld, keyboard_callback_extended, keyboard_callback_prefix,
             keyboard_callback_modifier, keyboard_callback_key, WithMod, Modifier, Prefixed
    <3>4. CASE ~extended /\ k \notin Modifier
      BY <1>1, <1>4, <1>5, <2>2, <3>1, <3>4, Keys, KeyboardAssumption
         DEF ModsAreHeld, keyboard_callback_extended, keyboard_callback_prefix,
             keyboard_callback_modifier, keyboard_callback_key, Char, Modifier, Prefixed, Key
    <3> QED
      BY <3>2, <3>3, <3>4
  <2> QED
    BY <2>1, <2>2
<1> QED
  BY <1>1, <1>5, <1>6, <1>7, <1>8

LEMMA KeyboardStep == KeyboardInv /\ [KeyboardNext]_keyboardVars => KeyboardInv'
<1> SUFFICES ASSUME KeyboardInv, [KeyboardNext]_keyboardVars PROVE KeyboardInv'
  OBVIOUS
<1>1. CASE UNCHANGED keyboardVars
  BY <1>1 DEF keyboardVars, KeyboardInv, WireOK, LastCode, ModsAreHeld
<1> QED
  BY <1>1, SendInv, CallbackInv DEF KeyboardNext, PressOrRepeat, Release

\* The modifiers that the driver believes to be down are those that were down
\* when the byte it has read last was sent, and the case of what it types is the
\* one of that moment, for any number of keys and any delay of the interrupts.
THEOREM ModifiersAreHeld == KeyboardSpec => []ModsAreHeld
<1>1. KeyboardInv => ModsAreHeld
  BY DEF KeyboardInv
<1> QED
  BY <1>1, KeyboardInitInv, KeyboardStep, PTL DEF KeyboardSpec

------------------------------------------------------------------------------
(***************************************************************************)
(* The mouse.  While nothing is lost the bytes that are stored and those   *)
(* still to come make one packet, and real is what this packet makes of    *)
(* what the driver published last.                                         *)
(***************************************************************************)
MouseTypes ==
  /\ mouse_x \in 0 .. WIDTH - 1 /\ mouse_y \in 0 .. HEIGHT - 1
  /\ mouse_packet \in [1 .. 3 -> 0 .. 255] /\ mouse_cycle \in 0 .. 2
  /\ bytes \in Seq(0 .. 255)
  /\ mouse.left \in BOOLEAN /\ lost \in BOOLEAN

\* real is what p makes of the driver's state.
Announces(p) ==
  /\ real.x = Clamp(mouse_x + Signed(p[2], Bit(p[1], 16)), WIDTH)
  /\ real.y = Clamp(mouse_y - Signed(p[3], Bit(p[1], 32)), HEIGHT)
  /\ real.left = Bit(p[1], 1)
  /\ real.clicked = (Bit(p[1], 1) /\ ~mouse.left)

InStep ==
  \/ /\ bytes = <<>> /\ mouse_cycle = 0
     /\ real.x = mouse_x /\ real.y = mouse_y
     /\ mouse.left = real.left /\ mouse.left_clicked = real.clicked
  \/ \E p \in Packet :
       /\ Len(bytes) = 3 - mouse_cycle
       /\ \A i \in 1 .. 3 : p[i] = IF i <= mouse_cycle THEN mouse_packet[i] ELSE bytes[i - mouse_cycle]
       /\ Announces(p)

MouseInv == MouseTypes /\ (~lost => InStep)

LEMMA PacketBytes ==
  ASSUME NEW p \in Packet
  PROVE  /\ p \in Seq(0 .. 255) /\ Len(p) = 3 /\ Bit(p[1], 8)
         /\ p[1] \in 0 .. 255 /\ p[2] \in 0 .. 255 /\ p[3] \in 0 .. 255
<1>1. p \in Seq(0 .. 255) /\ Len(p) = 3 /\ (p[1] \div 8) % 2 = 1
  BY MouseAssumption
<1>2. \A i \in 1 .. 3 : p[i] \in 0 .. 255
  BY <1>1, ElementOfSeq
<1> QED
  BY <1>1, <1>2 DEF Bit

LEMMA ClampStays ==
  ASSUME NEW v \in Int, NEW size \in Nat \ {0}
  PROVE  Clamp(v, size) \in 0 .. size - 1
BY DEF Clamp

\* The driver's arithmetic is that of a signed number of nine bits.
Delta(b, sign, mask) == b - 256 * ((sign \div mask) % 2)

LEMMA NineBits ==
  ASSUME NEW b \in 0 .. 255, NEW sign \in 0 .. 255
  PROVE  /\ Signed(b, Bit(sign, 16)) = Delta(b, sign, 16) /\ Delta(b, sign, 16) \in Int
         /\ Signed(b, Bit(sign, 32)) = Delta(b, sign, 32) /\ Delta(b, sign, 32) \in Int
BY DEF Signed, Bit, Delta

LEMMA MouseInitInv == mouse_init => MouseInv
<1> SUFFICES ASSUME mouse_init PROVE MouseInv
  OBVIOUS
<1>1. WIDTH \div 2 \in 0 .. WIDTH - 1 /\ HEIGHT \div 2 \in 0 .. HEIGHT - 1
  BY MouseAssumption
<1>2. mouse_packet \in [1 .. 3 -> 0 .. 255] /\ bytes \in Seq(0 .. 255)
  <2>1. \A i \in 1 .. 3 : <<0, 0, 0>>[i] = 0
    OBVIOUS
  <2>2. DOMAIN <<0, 0, 0>> = 1 .. 3
    OBVIOUS
  <2> QED
    BY <2>1, <2>2, EmptySeq DEF mouse_init
<1>3. MouseTypes
  <2>1. mouse.left = FALSE /\ lost = FALSE
    BY DEF mouse_init
  <2>2. mouse.left \in BOOLEAN /\ lost \in BOOLEAN
    BY <2>1, Zenon
  <2> QED
    BY <1>1, <1>2, <2>2 DEF mouse_init, MouseTypes
<1>4. InStep
  BY DEF mouse_init, InStep
<1> QED
  BY <1>3, <1>4 DEF MouseInv

LEMMA SendPacketInv == ASSUME NEW p \in Packet, MouseInv, SendPacket(p) PROVE MouseInv'
<1> USE PacketBytes DEF MouseInv, MouseTypes
<1>1. /\ bytes = <<>> /\ bytes' = p
      /\ UNCHANGED <<mouse_x, mouse_y, mouse_packet, mouse_cycle, mouse, lost>>
  BY DEF SendPacket
<1>2. ASSUME ~lost PROVE InStep'
  <2>1. /\ mouse_cycle = 0 /\ real.x = mouse_x /\ real.y = mouse_y /\ mouse.left = real.left
    BY <1>1, <1>2 DEF InStep
  <2>2. Announces(p)'
    BY <1>1, <2>1 DEF SendPacket, Announces
  <2>3. Len(bytes') = 3 - mouse_cycle' /\ \A i \in 1 .. 3 :
          p[i] = IF i <= mouse_cycle' THEN mouse_packet'[i] ELSE bytes'[i - mouse_cycle']
    BY <1>1, <2>1
  <2> QED
    BY <2>2, <2>3, Zenon DEF InStep
<1> QED
  BY <1>1, <1>2

LEMMA LoseByteInv == MouseInv /\ LoseByte => MouseInv'
BY DEF MouseInv, MouseTypes, LoseByte

LEMMA TailOfBytes ==
  ASSUME bytes \in Seq(0 .. 255), bytes # <<>>
  PROVE  /\ Tail(bytes) \in Seq(0 .. 255) /\ Head(bytes) \in 0 .. 255
         /\ Len(Tail(bytes)) = Len(bytes) - 1
         /\ \A i \in 1 .. Len(Tail(bytes)) : Tail(bytes)[i] = bytes[i + 1]
<1> DEFINE B == 0 .. 255
<1> HIDE DEF B
<1>1. bytes \in Seq(B)
  BY DEF B
<1>2. /\ Tail(bytes) \in Seq(B) /\ Head(bytes) \in B
      /\ Len(Tail(bytes)) = Len(bytes) - 1
      /\ \A i \in 1 .. Len(Tail(bytes)) : Tail(bytes)[i] = bytes[i + 1]
  BY <1>1, HeadTailProperties, Zenon
<1> QED
  BY <1>2 DEF B

LEMMA MouseCallbackInv == MouseInv /\ mouse_callback => MouseInv'
<1> SUFFICES ASSUME MouseInv, mouse_callback PROVE MouseInv'
  OBVIOUS
<1> USE DEF MouseInv, MouseTypes
<1> DEFINE data == Head(bytes)
           p    == [mouse_packet EXCEPT ![mouse_cycle + 1] = data]
<1>1. /\ bytes # <<>> /\ bytes' = Tail(bytes) /\ mouse_packet' = p
      /\ UNCHANGED <<real, lost>>
  BY DEF mouse_callback
<1>2. /\ data = bytes[1] /\ data \in 0 .. 255 /\ bytes' \in Seq(0 .. 255)
      /\ Len(bytes) \in Nat \ {0} /\ Len(bytes') = Len(bytes) - 1
      /\ \A i \in 1 .. Len(bytes) - 1 : bytes'[i] = bytes[i + 1]
  <2>1. bytes \in Seq(0 .. 255) /\ Len(bytes) \in Nat \ {0} /\ data = bytes[1]
    BY <1>1, EmptySeq
  <2>2. data \in 0 .. 255 /\ Tail(bytes) \in Seq(0 .. 255) /\ Len(Tail(bytes)) = Len(bytes) - 1
        /\ \A i \in 1 .. Len(Tail(bytes)) : Tail(bytes)[i] = bytes[i + 1]
    BY <1>1, <2>1, TailOfBytes
  <2> QED
    BY <1>1, <2>1, <2>2
<1>3. /\ p \in [1 .. 3 -> 0 .. 255] /\ p[mouse_cycle + 1] = data
      /\ \A i \in 1 .. 3 : i # mouse_cycle + 1 => p[i] = mouse_packet[i]
  <2>1. mouse_cycle + 1 \in 1 .. 3 /\ data \in 0 .. 255 /\ mouse_packet \in [1 .. 3 -> 0 .. 255]
    BY <1>2
  <2> HIDE DEF data
  <2> QED
    BY <2>1
<1>4. \/ /\ mouse_cycle = 0
         /\ mouse_cycle' = IF Bit(data, 8) THEN 1 ELSE 0
         /\ UNCHANGED <<mouse_x, mouse_y, mouse>>
      \/ /\ mouse_cycle = 1
         /\ mouse_cycle' = 2
         /\ UNCHANGED <<mouse_x, mouse_y, mouse>>
      \/ /\ mouse_cycle = 2
         /\ mouse_cycle' = 0
         /\ mouse_x' = NewX(p)
         /\ mouse_y' = NewY(p)
         /\ mouse' = [x |-> NewX(p), y |-> NewY(p), left |-> Bit(p[1], 1),
                      left_clicked |-> Bit(p[1], 1) /\ ~mouse.left]
  BY DEF mouse_callback
<1> HIDE DEF data, p
<1>5. p[1] \in 0 .. 255 /\ p[2] \in 0 .. 255 /\ p[3] \in 0 .. 255
  BY <1>3
<1>6. /\ NewX(p) = Clamp(mouse_x + Signed(p[2], Bit(p[1], 16)), WIDTH)
      /\ NewY(p) = Clamp(mouse_y - Signed(p[3], Bit(p[1], 32)), HEIGHT)
      /\ NewX(p) \in 0 .. WIDTH - 1 /\ NewY(p) \in 0 .. HEIGHT - 1
  <2> DEFINE dx == Delta(p[2], p[1], 16)
             dy == Delta(p[3], p[1], 32)
  <2>1. /\ Signed(p[2], Bit(p[1], 16)) = dx /\ dx \in Int
        /\ Signed(p[3], Bit(p[1], 32)) = dy /\ dy \in Int
    BY <1>5, NineBits, Zenon
  <2>2. NewX(p) = Clamp(mouse_x + dx, WIDTH) /\ NewY(p) = Clamp(mouse_y - dy, HEIGHT)
    BY DEF NewX, NewY, Delta
  <2> HIDE DEF dx, dy
  <2>3. mouse_x + dx \in Int /\ mouse_y - dy \in Int
    BY <2>1, MouseAssumption
  <2>4. Clamp(mouse_x + dx, WIDTH) \in 0 .. WIDTH - 1 /\ Clamp(mouse_y - dy, HEIGHT) \in 0 .. HEIGHT - 1
    BY <2>3, ClampStays, MouseAssumption
  <2> QED
    BY <2>1, <2>2, <2>4, Zenon
<1>7. MouseTypes'
  <2>1. CASE mouse_cycle \in {0, 1}
    BY <1>1, <1>2, <1>3, <1>4, <2>1
  <2>2. CASE mouse_cycle = 2
    <3>1. mouse'.left \in BOOLEAN
      <4>1. mouse'.left = Bit(p[1], 1)
        BY <1>4, <2>2
      <4> QED
        BY <4>1, Zenon DEF Bit
    <3> QED
      BY <1>1, <1>2, <1>3, <1>4, <1>6, <2>2, <3>1
  <2> QED
    BY <2>1, <2>2
<1>8. ASSUME ~lost PROVE InStep'
  <2>1. PICK P \in Packet :
          /\ Len(bytes) = 3 - mouse_cycle
          /\ \A i \in 1 .. 3 : P[i] = IF i <= mouse_cycle THEN mouse_packet[i] ELSE bytes[i - mouse_cycle]
          /\ Announces(P)
    BY <1>1, <1>8 DEF InStep
  <2>2. /\ P[mouse_cycle + 1] = data
        /\ \A i \in 1 .. 3 : P[i] = IF i <= mouse_cycle + 1 THEN p[i] ELSE bytes[i - mouse_cycle]
    BY <1>2, <1>3, <2>1
  <2>3. CASE mouse_cycle \in {0, 1}
    <3>1. mouse_cycle' = mouse_cycle + 1
      BY <1>4, <2>2, <2>3, PacketBytes
    <3>2. /\ Len(bytes') = 3 - mouse_cycle'
          /\ \A i \in 1 .. 3 : P[i] = IF i <= mouse_cycle' THEN mouse_packet'[i] ELSE bytes'[i - mouse_cycle']
      BY <1>1, <1>2, <2>1, <2>2, <2>3, <3>1
    <3>3. Announces(P)'
      BY <1>1, <1>4, <2>1, <2>3 DEF Announces
    <3> QED
      BY <3>2, <3>3, Zenon DEF InStep
  <2>4. CASE mouse_cycle = 2
    <3>1. bytes' = <<>> /\ mouse_cycle' = 0
      BY <1>2, <1>4, <2>1, <2>4
    <3>2. P[1] = p[1] /\ P[2] = p[2] /\ P[3] = p[3]
      BY <2>2, <2>4
    <3>3. real'.x = mouse_x' /\ real'.y = mouse_y'
      BY <1>1, <1>4, <1>6, <2>1, <2>4, <3>2 DEF Announces
    <3>4. mouse'.left = real'.left /\ mouse'.left_clicked = real'.clicked
      BY <1>1, <1>4, <2>1, <2>4, <3>2 DEF Announces
    <3> QED
      BY <3>1, <3>3, <3>4 DEF InStep
  <2> QED
    BY <2>3, <2>4
<1> QED
  BY <1>1, <1>7, <1>8

LEMMA MouseStep == MouseInv /\ [MouseNext]_mouseVars => MouseInv'
<1> SUFFICES ASSUME MouseInv, [MouseNext]_mouseVars PROVE MouseInv'
  OBVIOUS
<1>1. CASE UNCHANGED mouseVars
  BY <1>1 DEF mouseVars, MouseInv, MouseTypes, InStep, Announces
<1> QED
  BY <1>1, SendPacketInv, LoseByteInv, MouseCallbackInv DEF MouseNext

\* The pointer follows the packets as long as no byte is lost, and stays on the
\* screen whatever is taken for a packet, for every packet the mouse can send
\* and every screen.
THEOREM PointerFollowsPackets == MouseSpec => []FollowsPackets
<1>1. MouseInv => FollowsPackets
  <2> SUFFICES ASSUME MouseInv PROVE FollowsPackets
    OBVIOUS
  <2>1. ASSUME ~lost, bytes = <<>>
        PROVE  /\ mouse_cycle = 0
               /\ <<mouse_x, mouse_y>> = <<real.x, real.y>>
               /\ mouse.left = real.left /\ mouse.left_clicked = real.clicked
    BY <2>1 DEF MouseInv, MouseTypes, InStep
  <2> QED
    BY <2>1 DEF MouseInv, MouseTypes, FollowsPackets
<1> QED
  BY <1>1, MouseInitInv, MouseStep, PTL DEF MouseSpec

------------------------------------------------------------------------------
(***************************************************************************)
(* The console.                                                            *)
(***************************************************************************)
Line  == Row \cup {console_rows}
Shown == Glyph \cup {Blank, Cursor}
Grid  == [Line -> [Col -> Shown]]

ConsoleInv ==
  /\ cursor_x \in Col /\ cursor_y \in Row /\ cursor_visible \in BOOLEAN /\ returned \in BOOLEAN
  /\ cell \in Grid
  /\ NothingBehindCursor

\* Not before the cell in column x of row y.
FromOn(i, j, x, y) == j > y \/ (j = y /\ i >= x)

LEMMA Screen ==
  /\ console_cols \in Nat /\ console_cols > 1 /\ console_rows \in Nat /\ console_rows > 0
  /\ Row \subseteq Line /\ console_rows \in Line /\ Line \subseteq Nat /\ Col \subseteq Nat
  /\ Line = 0 .. console_rows
  /\ Glyph \subseteq Shown /\ Blank \in Shown /\ Cursor \in Shown
  /\ "NL" \notin Glyph /\ "CR" \notin Glyph /\ "BS" \notin Glyph
BY ConsoleAssumption DEF Row, Col, Line, Shown

\* d shows what c shows, but for one cell.
Draws(d, c, x, y, glyph) ==
  /\ d \in Grid
  /\ \A j \in Line, i \in Col : d[j][i] = IF i = x /\ j = y THEN glyph ELSE c[j][i]

LEMMA DrawnCell ==
  ASSUME NEW c \in Grid, NEW x \in Col, NEW y \in Line, NEW glyph \in Shown
  PROVE  Draws(Drawn(c, x, y, glyph), c, x, y, glyph)
BY DEF Drawn, Grid, Draws

LEMMA Scrolled ==
  ASSUME NEW c \in Grid
  PROVE  /\ console_scroll(c) \in Grid
         /\ \A i \in Col : console_scroll(c)[console_rows - 1][i] = Blank
<1> USE Screen
<1>1. \A j \in Line : j < console_rows - 1 => j + 1 \in Line
  BY DEF Row, Line
<1>2. DOMAIN c = Line
  BY DEF Grid
<1>3. console_scroll(c) \in Grid
  BY <1>1, <1>2 DEF console_scroll, Grid
<1>4. console_rows - 1 \in Line /\ ~(console_rows - 1 < console_rows - 1)
  BY DEF Row, Line
<1>5. console_scroll(c)[console_rows - 1] = [x \in Col |-> Blank]
  BY <1>2, <1>4 DEF console_scroll
<1> QED
  BY <1>3, <1>5

\* Where a character leaves the cursor.
LEMMA MovedTo ==
  ASSUME ConsoleInv, NEW c \in Glyph \cup {"NL", "CR", "BS"}
  PROVE  /\ Moved(c) = [x |-> Moved(c).x, y |-> Moved(c).y]
         /\ Moved(c).x \in Col /\ Moved(c).y \in Line
         /\ c = "NL" => Moved(c).x = 0 /\ Moved(c).y = cursor_y + 1
         /\ c = "BS" => \/ Moved(c).x = cursor_x - 1 /\ Moved(c).y = cursor_y
                        \/ cursor_x = 0 /\ Moved(c).y = cursor_y - 1 /\ Moved(c).x = console_cols - 1
                        \/ cursor_x = 0 /\ cursor_y = 0 /\ Moved(c).x = 0 /\ Moved(c).y = 0
         /\ c \in Glyph => \/ Moved(c).x = cursor_x + 1 /\ Moved(c).y = cursor_y
                           \/ Moved(c).x = 1 /\ Moved(c).y = cursor_y + 1
<1> USE Screen DEF ConsoleInv, Row, Col, Line
<1>1. CASE c = "NL"
  BY <1>1 DEF Moved
<1>2. CASE c = "CR"
  BY <1>2 DEF Moved
<1>3. CASE c = "BS"
  <2>1. CASE cursor_x > 0
    BY <1>3, <2>1 DEF Moved
  <2>2. CASE cursor_x = 0 /\ cursor_y > 0
    BY <1>3, <2>2 DEF Moved
  <2>3. CASE cursor_x = 0 /\ cursor_y = 0
    BY <1>3, <2>3 DEF Moved
  <2> QED
    BY <2>1, <2>2, <2>3
<1>4. CASE c \in Glyph
  <2>1. CASE cursor_x < console_cols - 1
    BY <1>4, <2>1 DEF Moved
  <2>2. CASE cursor_x >= console_cols - 1
    BY <1>4, <2>2 DEF Moved
  <2> QED
    BY <2>1, <2>2
<1> QED
  BY <1>1, <1>2, <1>3, <1>4

\* From there on the screen is blank once the character is drawn.
LEMMA WrittenBlank ==
  ASSUME ConsoleInv, NEW c \in Glyph \cup {"NL", "CR", "BS"}
  PROVE  LET to == Moved(c)
             w  == Written(Drawn(cell, cursor_x, cursor_y, Blank), c, to)
         IN  /\ w \in Grid
             /\ ~returned /\ c # "CR" =>
                  \A j \in Row, i \in Col : FromOn(i, j, to.x, to.y) => w[j][i] = Blank
<1> USE Screen
<1> DEFINE to == Moved(c)
           k  == Drawn(cell, cursor_x, cursor_y, Blank)
           w  == Written(k, c, to)
<1> SUFFICES /\ w \in Grid
             /\ ~returned /\ c # "CR" =>
                  \A j \in Row, i \in Col : FromOn(i, j, to.x, to.y) => w[j][i] = Blank
  OBVIOUS
<1>1. /\ cursor_x \in Col /\ cursor_y \in Row /\ cursor_y \in Line /\ cell \in Grid
      /\ cursor_visible \in BOOLEAN
  BY DEF ConsoleInv
<1>2. Draws(k, cell, cursor_x, cursor_y, Blank) /\ k \in Grid
  <2>1. Draws(k, cell, cursor_x, cursor_y, Blank)
    <3> HIDE DEF k
    <3>1. Blank \in Shown
      OBVIOUS
    <3> QED
      BY <1>1, <3>1, DrawnCell, Zenon DEF k
  <2> QED
    BY <2>1 DEF Draws
<1> HIDE DEF k
<1>3. ~returned => \A j \in Row, i \in Col : FromOn(i, j, cursor_x, cursor_y) => k[j][i] = Blank
  BY <1>1, <1>2 DEF ConsoleInv, NothingBehindCursor, FromOn, Draws
<1>4. to.x \in Col /\ to.y \in Line
  BY MovedTo
<1>5. CASE c = "NL" \/ c = "CR"
  <2>1. w = k
    BY <1>5 DEF Written
  <2>2. c # "CR" => to.x = 0 /\ to.y = cursor_y + 1
    BY <1>5, MovedTo
  <2> HIDE DEF to, w
  <2>3. c # "CR" => \A j \in Row, i \in Col : FromOn(i, j, to.x, to.y) => FromOn(i, j, cursor_x, cursor_y)
    BY <1>1, <2>2 DEF FromOn, Row, Col
  <2> QED
    BY <1>2, <1>3, <2>1, <2>3
<1>6. CASE c = "BS"
  <2>1. w = Drawn(k, to.x, to.y, Blank)
    BY <1>6 DEF Written
  <2>2. \/ to.x = cursor_x - 1 /\ to.y = cursor_y
        \/ cursor_x = 0 /\ to.y = cursor_y - 1 /\ to.x = console_cols - 1
        \/ cursor_x = 0 /\ cursor_y = 0 /\ to.x = 0 /\ to.y = 0
    BY <1>6, MovedTo
  <2> HIDE DEF to, w
  <2>3. Draws(w, k, to.x, to.y, Blank)
    BY <1>2, <1>4, <2>1, DrawnCell
  <2>4. \A j \in Row, i \in Col : FromOn(i, j, to.x, to.y) =>
          FromOn(i, j, cursor_x, cursor_y) \/ (i = to.x /\ j = to.y)
    BY <1>1, <2>2 DEF FromOn, Row, Col
  <2> QED
    BY <1>3, <2>3, <2>4 DEF Draws
<1>7. CASE c \in Glyph
  <2>1. w = Drawn(k, to.x - 1, to.y, c)
    BY <1>7 DEF Written
  <2>2. \/ to.x = cursor_x + 1 /\ to.y = cursor_y
        \/ to.x = 1 /\ to.y = cursor_y + 1
    BY <1>7, MovedTo
  <2> HIDE DEF to, w
  <2>3. to.x - 1 \in Col /\ c \in Shown
    BY <1>1, <1>4, <1>7, <2>2 DEF Col
  <2>4. Draws(w, k, to.x - 1, to.y, c)
    BY <1>2, <1>4, <2>1, <2>3, DrawnCell
  <2>5. \A j \in Row, i \in Col : FromOn(i, j, to.x, to.y) =>
          FromOn(i, j, cursor_x, cursor_y) /\ ~(i = to.x - 1 /\ j = to.y)
    BY <1>1, <1>4, <2>2 DEF FromOn, Row, Col, Line
  <2> QED
    BY <1>3, <2>4, <2>5 DEF Draws
<1> QED
  BY <1>5, <1>6, <1>7

LEMMA PutcharInv ==
  ASSUME ConsoleInv, NEW c \in Glyph \cup {"NL", "CR", "BS"}, console_putchar(c)
  PROVE  ConsoleInv'
<1> USE Screen
<1> DEFINE to      == Moved(c)
           w       == Written(Drawn(cell, cursor_x, cursor_y, Blank), c, to)
           scrolls == to.y >= console_rows
           y       == IF scrolls THEN console_rows - 1 ELSE to.y
           k       == IF scrolls THEN console_scroll(w) ELSE w
<1>1. /\ cursor_x' = to.x /\ cursor_y' = y /\ cell' = Drawn(k, to.x, y, Cursor)
      /\ cursor_visible' = TRUE /\ returned' = (returned \/ c = "CR")
  BY DEF console_putchar
<1>2. /\ w \in Grid
      /\ ~returned /\ c # "CR" =>
           \A j \in Row, i \in Col : FromOn(i, j, to.x, to.y) => w[j][i] = Blank
  BY WrittenBlank
<1>3. to.x \in Col /\ to.y \in Line
  BY MovedTo
<1> HIDE DEF w, to
<1>4. y \in Row
  BY <1>3 DEF Row, Line
<1>5. k \in Grid
  BY <1>2, Scrolled
<1>6. ~returned /\ c # "CR" => \A j \in Row, i \in Col : FromOn(i, j, to.x, y) => k[j][i] = Blank
  <2>1. CASE scrolls
    <3>1. \A j \in Row, i \in Col : FromOn(i, j, to.x, y) => j = console_rows - 1
      BY <2>1 DEF FromOn, Row
    <3> QED
      <4>1. k = console_scroll(w)
        BY <2>1
      <4> HIDE DEF k, y
      <4> QED
        BY <1>2, <3>1, <4>1, Scrolled, Zenon
  <2>2. CASE ~scrolls
    BY <1>2, <2>2
  <2> QED
    BY <2>1, <2>2
<1> HIDE DEF k, y
<1>7. Draws(cell', k, to.x, y, Cursor)
  BY <1>1, <1>3, <1>4, <1>5, DrawnCell
<1>8. ~returned' => ~returned /\ c # "CR"
  BY <1>1
<1>9. NothingBehindCursor'
  BY <1>1, <1>6, <1>7, <1>8 DEF NothingBehindCursor, FromOn, Draws
<1> QED
  BY <1>1, <1>3, <1>4, <1>7, <1>9 DEF ConsoleInv, Draws

LEMMA ToggleInv == ConsoleInv /\ console_toggle_cursor => ConsoleInv'
<1> SUFFICES ASSUME ConsoleInv, console_toggle_cursor PROVE ConsoleInv'
  OBVIOUS
<1> USE Screen
<1> DEFINE g == IF cursor_visible THEN Blank ELSE Cursor
<1>1. /\ cursor_visible' = ~cursor_visible /\ cell' = Drawn(cell, cursor_x, cursor_y, g)
      /\ UNCHANGED <<cursor_x, cursor_y, returned>>
  BY DEF console_toggle_cursor
<1>2. cursor_x \in Col /\ cursor_y \in Row /\ cell \in Grid /\ g \in Shown
  BY DEF ConsoleInv
<1>3. Draws(cell', cell, cursor_x, cursor_y, g)
  BY <1>1, <1>2, DrawnCell
<1>4. NothingBehindCursor'
  <2>1. cursor_visible' => g = Cursor
    BY <1>1 DEF ConsoleInv
  <2>2. ~cursor_visible' => g = Blank
    BY <1>1 DEF ConsoleInv
  <2> HIDE DEF g
  <2>3. ~returned => \A j \in Row, i \in Col :
          FromOn(i, j, cursor_x, cursor_y) =>
            cell'[j][i] = IF i = cursor_x /\ j = cursor_y THEN g ELSE Blank
    BY <1>3 DEF ConsoleInv, NothingBehindCursor, FromOn, Draws
  <2> QED
    BY <1>1, <2>1, <2>2, <2>3 DEF NothingBehindCursor, FromOn
<1> QED
  BY <1>1, <1>2, <1>3, <1>4 DEF ConsoleInv, Draws

LEMMA ConsoleStep == ConsoleInv /\ [ConsoleNext]_consoleVars => ConsoleInv'
<1> SUFFICES ASSUME ConsoleInv, [ConsoleNext]_consoleVars PROVE ConsoleInv'
  OBVIOUS
<1>1. CASE UNCHANGED consoleVars
  BY <1>1 DEF consoleVars, ConsoleInv, NothingBehindCursor
<1> QED
  BY <1>1, PutcharInv, ToggleInv DEF ConsoleNext

LEMMA ConsoleInitInv == console_init => ConsoleInv
<1> SUFFICES ASSUME console_init PROVE ConsoleInv
  OBVIOUS
<1> USE Screen
<1>1. cursor_x \in Col /\ cursor_y \in Row
  BY DEF console_init, Col, Row
<1>2. cell \in Grid /\ \A j \in Row, i \in Col : cell[j][i] = Blank
  BY DEF console_init, Grid, Line
<1> QED
  BY <1>1, <1>2 DEF console_init, ConsoleInv, NothingBehindCursor

\* The cursor's block never covers text, through wraps, scrolls and erasing, on
\* a screen of any size and for any text without a carriage return.
THEOREM CursorCoversNothing == ConsoleSpec => []NothingBehindCursor
<1>1. ConsoleInv => NothingBehindCursor
  BY DEF ConsoleInv
<1> QED
  BY <1>1, ConsoleInitInv, ConsoleStep, PTL DEF ConsoleSpec

------------------------------------------------------------------------------
(***************************************************************************)
(* The clock.  What pit_callback does to a date is compared with the day   *)
(* count month by month; the year matters through leap years only.         *)
(***************************************************************************)
Date == [seconds : 0 .. 59, minutes : 0 .. 59, hours : 0 .. 23,
         day : Nat \ {0}, month : 1 .. 12, year : Nat]

IsDate(t) == t \in Date /\ t.day <= get_days_in_month(t.month, t.year)

\* The leap days before March of the year y.
LeapDays(y) == (y \div 4) - (y \div 100) + (y \div 400)

LEMMA LeapDay ==
  ASSUME NEW y \in Nat
  PROVE  LeapDays(y) - LeapDays(y - 1) = IF leap_year(y) THEN 1 ELSE 0
<1>1. (y \div 4) - ((y - 1) \div 4) = IF y % 4 = 0 THEN 1 ELSE 0
  OBVIOUS
<1>2. (y \div 100) - ((y - 1) \div 100) = IF y % 100 = 0 THEN 1 ELSE 0
  OBVIOUS
<1>3. (y \div 400) - ((y - 1) \div 400) = IF y % 400 = 0 THEN 1 ELSE 0
  OBVIOUS
<1>4. (y % 100 = 0 => y % 4 = 0) /\ (y % 400 = 0 => y % 100 = 0)
  OBVIOUS
<1>5. /\ y \div 4 \in Int /\ y \div 100 \in Int /\ y \div 400 \in Int
      /\ (y - 1) \div 4 \in Int /\ (y - 1) \div 100 \in Int /\ (y - 1) \div 400 \in Int
  OBVIOUS
<1> QED
  BY <1>1, <1>2, <1>3, <1>4, <1>5 DEF LeapDays, leap_year

\* The days before each month: of the year y from March on, of y - 1 before.
DaysBefore == <<306, 337, 0, 31, 61, 92, 122, 153, 184, 214, 245, 275>>

LEMMA DayNumberIs ==
  ASSUME NEW t, t.month \in 1 .. 12, t.year \in Int, t.day \in Int
  PROVE  LET y == IF t.month <= 2 THEN t.year - 1 ELSE t.year IN
         DayNumber(t) = 365 * y + LeapDays(y) + DaysBefore[t.month] + t.day
<1> DEFINE y == IF t.month <= 2 THEN t.year - 1 ELSE t.year
           k == (t.month + 9) % 12
<1>1. (153 * k + 2) \div 5 = DaysBefore[t.month]
  <2>1. t.month \in {1, 2, 3, 4, 5, 6, 7, 8, 9, 10, 11, 12}
    OBVIOUS
  <2> QED
    BY <2>1 DEF DaysBefore
<1>2. y \in Int /\ DaysBefore[t.month] \in Int
  <2>1. t.month \in {1, 2, 3, 4, 5, 6, 7, 8, 9, 10, 11, 12}
    OBVIOUS
  <2> QED
    BY <2>1 DEF DaysBefore
<1>3. y \div 4 \in Int /\ y \div 100 \in Int /\ y \div 400 \in Int
  BY <1>2
<1>4. DayNumber(t) = 365 * y + (y \div 4) - (y \div 100) + (y \div 400)
                       + ((153 * k + 2) \div 5) + t.day
  BY DEF DayNumber
<1> HIDE DEF y, k
<1>5. DayNumber(t) = 365 * y + LeapDays(y) + DaysBefore[t.month] + t.day
  BY <1>1, <1>2, <1>3, <1>4 DEF LeapDays
<1> QED
  BY <1>5 DEF y

\* A month is as long as get_days_in_month says.
LEMMA MonthLength ==
  ASSUME NEW t, t \in Date
  PROVE  /\ DayNumber(FirstOfNextMonth(t))
              = DayNumber(t) - t.day + get_days_in_month(t.month, t.year) + 1
         /\ get_days_in_month(t.month, t.year) \in 28 .. 31
<1> DEFINE u == FirstOfNextMonth(t)
           y == t.year
<1>1. /\ t.month \in 1 .. 12 /\ y \in Nat /\ t.day \in Nat
      /\ t = [seconds |-> t.seconds, minutes |-> t.minutes, hours |-> t.hours,
              day |-> t.day, month |-> t.month, year |-> t.year]
  BY DEF Date
<1>2. /\ u.day = 1
      /\ u.month = IF t.month = 12 THEN 1 ELSE t.month + 1
      /\ u.year = IF t.month = 12 THEN y + 1 ELSE y
  BY <1>1 DEF FirstOfNextMonth
<1>3. u.month \in 1 .. 12 /\ u.year \in Int
  BY <1>1, <1>2
<1>4. LeapDays(y) \in Int /\ LeapDays(y - 1) \in Int
  BY <1>1 DEF LeapDays
<1>5. LeapDays(y) - LeapDays(y - 1) = IF leap_year(y) THEN 1 ELSE 0
  BY <1>1, LeapDay
<1> HIDE DEF u, y
<1>6. DayNumber(u) = 365 * (IF u.month <= 2 THEN u.year - 1 ELSE u.year)
                       + LeapDays(IF u.month <= 2 THEN u.year - 1 ELSE u.year)
                       + DaysBefore[u.month] + 1
  BY <1>2, <1>3, DayNumberIs
<1>7. DayNumber(t) = 365 * (IF t.month <= 2 THEN y - 1 ELSE y)
                       + LeapDays(IF t.month <= 2 THEN y - 1 ELSE y)
                       + DaysBefore[t.month] + t.day
  BY <1>1, DayNumberIs DEF y
<1>8. CASE t.month = 2
  <2>1. /\ DayNumber(u) = 365 * y + LeapDays(y) + 1
        /\ DayNumber(t) = 365 * (y - 1) + LeapDays(y - 1) + 337 + t.day
    BY <1>1, <1>2, <1>4, <1>6, <1>7, <1>8 DEF DaysBefore
  <2>2. get_days_in_month(t.month, y) = IF leap_year(y) THEN 29 ELSE 28
    BY <1>8 DEF get_days_in_month, days_in_month, leap_year
  <2> QED
    BY <1>1, <1>4, <1>5, <2>1, <2>2 DEF u, y
<1>9. CASE t.month = 12
  <2>1. y + 1 - 1 = y
    BY <1>1
  <2>2. /\ DayNumber(u) = 365 * y + LeapDays(y) + 306 + 1
        /\ DayNumber(t) = 365 * y + LeapDays(y) + 275 + t.day
        /\ get_days_in_month(t.month, y) = 31
    BY <1>1, <1>2, <1>6, <1>7, <1>9, <2>1 DEF DaysBefore, get_days_in_month, days_in_month
  <2> QED
    BY <1>1, <1>4, <2>2 DEF u, y
<1>10. CASE t.month = 1
  <2>1. /\ DayNumber(u) = 365 * (y - 1) + LeapDays(y - 1) + 337 + 1
        /\ DayNumber(t) = 365 * (y - 1) + LeapDays(y - 1) + 306 + t.day
        /\ get_days_in_month(t.month, y) = 31
    BY <1>1, <1>2, <1>6, <1>7, <1>10 DEF DaysBefore, get_days_in_month, days_in_month
  <2> QED
    BY <1>1, <1>4, <2>1 DEF u, y
<1>11. CASE t.month \in {3, 4, 5, 6, 7, 8, 9, 10, 11}
  <2>1. /\ DayNumber(u) = 365 * y + LeapDays(y) + DaysBefore[t.month + 1] + 1
        /\ DayNumber(t) = 365 * y + LeapDays(y) + DaysBefore[t.month] + t.day
        /\ get_days_in_month(t.month, y) = days_in_month[t.month]
    BY <1>1, <1>2, <1>6, <1>7, <1>11 DEF get_days_in_month
  <2>2. /\ DaysBefore[t.month + 1] = DaysBefore[t.month] + days_in_month[t.month]
        /\ DaysBefore[t.month] \in Int /\ days_in_month[t.month] \in 28 .. 31
    BY <1>11 DEF DaysBefore, days_in_month
  <2> QED
    BY <1>1, <1>4, <2>1, <2>2 DEF u, y
<1>12. t.month \in {1, 2, 12} \cup {3, 4, 5, 6, 7, 8, 9, 10, 11}
  BY <1>1
<1> QED
  BY <1>8, <1>9, <1>10, <1>11, <1>12

LEMMA MonthDays ==
  ASSUME NEW m \in 1 .. 12, NEW y \in Nat
  PROVE  get_days_in_month(m, y) \in 28 .. 31
<1>1. m \in {1, 2, 3, 4, 5, 6, 7, 8, 9, 10, 11, 12}
  OBVIOUS
<1>2. days_in_month[m] \in 28 .. 31
  BY <1>1 DEF days_in_month
<1> QED
  BY <1>2 DEF get_days_in_month

\* A date is its fields, and the day count looks at three of them.
At6(s, mi, h, d, mo, y) ==
  [seconds |-> s, minutes |-> mi, hours |-> h, day |-> d, month |-> mo, year |-> y]

LEMMA DateFields ==
  ASSUME NEW t, t \in Date
  PROVE  /\ t.seconds \in 0 .. 59 /\ t.minutes \in 0 .. 59 /\ t.hours \in 0 .. 23
         /\ t.day \in Nat \ {0} /\ t.month \in 1 .. 12 /\ t.year \in Nat
         /\ t = At6(t.seconds, t.minutes, t.hours, t.day, t.month, t.year)
BY DEF Date, At6

LEMMA FieldsOf ==
  ASSUME NEW s, NEW mi, NEW h, NEW d, NEW mo, NEW y
  PROVE  /\ At6(s, mi, h, d, mo, y).seconds = s
         /\ At6(s, mi, h, d, mo, y).minutes = mi
         /\ At6(s, mi, h, d, mo, y).hours = h
         /\ At6(s, mi, h, d, mo, y).day = d
         /\ At6(s, mi, h, d, mo, y).month = mo
         /\ At6(s, mi, h, d, mo, y).year = y
BY DEF At6

InRange(s, mi, h, d, mo, y) ==
  /\ s \in 0 .. 59 /\ mi \in 0 .. 59 /\ h \in 0 .. 23
  /\ d \in Nat \ {0} /\ mo \in 1 .. 12 /\ y \in Nat

LEMMA FieldsMake ==
  ASSUME NEW s, NEW mi, NEW h, NEW d, NEW mo, NEW y, InRange(s, mi, h, d, mo, y)
  PROVE  At6(s, mi, h, d, mo, y) \in Date
BY DEF At6, Date, InRange

LEMMA SameDay ==
  ASSUME NEW t, NEW u, u.day = t.day, u.month = t.month, u.year = t.year
  PROVE  DayNumber(u) = DayNumber(t)
BY DEF DayNumber

\* What the carries do, field by field.
LEMMA SecondsAre ==
  ASSUME NEW s, NEW mi, NEW h, NEW d, NEW mo, NEW y
  PROVE  [At6(s, mi, h, d, mo, y) EXCEPT !.seconds = uint8(@ + 1)]
           = At6(uint8(s + 1), mi, h, d, mo, y)
BY DEF At6

LEMMA CarrySecondsIs ==
  ASSUME NEW s, NEW mi, NEW h, NEW d, NEW mo, NEW y
  PROVE  CarrySeconds(At6(s, mi, h, d, mo, y)) =
           IF s >= 60 THEN At6(0, uint8(mi + 1), h, d, mo, y) ELSE At6(s, mi, h, d, mo, y)
<1> DEFINE t == At6(s, mi, h, d, mo, y)
<1>1. ASSUME NEW x PROVE [t EXCEPT !.minutes = x, !.seconds = 0] = At6(0, x, h, d, mo, y)
  <2>1. [t EXCEPT !.minutes = x] = At6(s, x, h, d, mo, y)
    BY DEF At6
  <2>2. [At6(s, x, h, d, mo, y) EXCEPT !.seconds = 0] = At6(0, x, h, d, mo, y)
    BY DEF At6
  <2> QED
    BY <2>1, <2>2
<1>2. t.seconds = s /\ t.minutes = mi
  BY DEF At6
<1> HIDE DEF t
<1>3. CarrySeconds(t) = IF s >= 60 THEN At6(0, uint8(mi + 1), h, d, mo, y) ELSE t
  BY <1>1, <1>2 DEF CarrySeconds
<1> QED
  BY <1>3 DEF t

LEMMA CarryMinutesIs ==
  ASSUME NEW s, NEW mi, NEW h, NEW d, NEW mo, NEW y
  PROVE  CarryMinutes(At6(s, mi, h, d, mo, y)) =
           IF mi >= 60 THEN At6(s, 0, uint8(h + 1), d, mo, y) ELSE At6(s, mi, h, d, mo, y)
<1> DEFINE t == At6(s, mi, h, d, mo, y)
<1>1. ASSUME NEW x PROVE [t EXCEPT !.hours = x, !.minutes = 0] = At6(s, 0, x, d, mo, y)
  <2>1. [t EXCEPT !.hours = x] = At6(s, mi, x, d, mo, y)
    BY DEF At6
  <2>2. [At6(s, mi, x, d, mo, y) EXCEPT !.minutes = 0] = At6(s, 0, x, d, mo, y)
    BY DEF At6
  <2> QED
    BY <2>1, <2>2
<1>2. t.minutes = mi /\ t.hours = h
  BY DEF At6
<1> HIDE DEF t
<1>3. CarryMinutes(t) = IF mi >= 60 THEN At6(s, 0, uint8(h + 1), d, mo, y) ELSE t
  BY <1>1, <1>2 DEF CarryMinutes
<1> QED
  BY <1>3 DEF t

LEMMA CarryHoursIs ==
  ASSUME NEW s, NEW mi, NEW h, NEW d, NEW mo, NEW y
  PROVE  CarryHours(At6(s, mi, h, d, mo, y)) =
           IF h >= 24 THEN At6(s, mi, 0, uint8(d + 1), mo, y) ELSE At6(s, mi, h, d, mo, y)
<1> DEFINE t == At6(s, mi, h, d, mo, y)
<1>1. ASSUME NEW x PROVE [t EXCEPT !.day = x, !.hours = 0] = At6(s, mi, 0, x, mo, y)
  <2>1. [t EXCEPT !.day = x] = At6(s, mi, h, x, mo, y)
    BY DEF At6
  <2>2. [At6(s, mi, h, x, mo, y) EXCEPT !.hours = 0] = At6(s, mi, 0, x, mo, y)
    BY DEF At6
  <2> QED
    BY <2>1, <2>2
<1>2. t.hours = h /\ t.day = d
  BY DEF At6
<1> HIDE DEF t
<1>3. CarryHours(t) = IF h >= 24 THEN At6(s, mi, 0, uint8(d + 1), mo, y) ELSE t
  BY <1>1, <1>2 DEF CarryHours
<1> QED
  BY <1>3 DEF t

LEMMA CarryDayIs ==
  ASSUME NEW t, t \in Date
  PROVE  CarryDay(t) =
           IF t.day <= get_days_in_month(t.month, t.year) THEN t
           ELSE IF t.month + 1 > 12
           THEN At6(t.seconds, t.minutes, t.hours, 1, 1, uint16(t.year + 1))
           ELSE At6(t.seconds, t.minutes, t.hours, 1, t.month + 1, t.year)
<1>1. [t EXCEPT !.day = 1] = At6(t.seconds, t.minutes, t.hours, 1, t.month, t.year)
  BY DEF Date, At6
<1>2. [t EXCEPT !.day = 1, !.month = @ + 1]
        = At6(t.seconds, t.minutes, t.hours, 1, t.month + 1, t.year)
  <2>1. [At6(t.seconds, t.minutes, t.hours, 1, t.month, t.year) EXCEPT !.month = t.month + 1]
          = At6(t.seconds, t.minutes, t.hours, 1, t.month + 1, t.year)
    BY DEF At6
  <2> QED
    BY <1>1, <2>1
<1>3. [t EXCEPT !.day = 1, !.month = 1, !.year = uint16(@ + 1)]
        = At6(t.seconds, t.minutes, t.hours, 1, 1, uint16(t.year + 1))
  <2>1. [At6(t.seconds, t.minutes, t.hours, 1, t.month, t.year) EXCEPT !.month = 1]
          = At6(t.seconds, t.minutes, t.hours, 1, 1, t.year)
    BY DEF At6
  <2>2. [At6(t.seconds, t.minutes, t.hours, 1, 1, t.year) EXCEPT !.year = uint16(t.year + 1)]
          = At6(t.seconds, t.minutes, t.hours, 1, 1, uint16(t.year + 1))
    BY DEF At6
  <2> QED
    BY <1>1, <2>1, <2>2
<1> QED
  BY <1>2, <1>3 DEF CarryDay

LEMMA NextMonthIs ==
  ASSUME NEW s, NEW mi, NEW h, NEW d, NEW mo, NEW y
  PROVE  FirstOfNextMonth(At6(s, mi, h, d, mo, y)) =
           IF mo = 12 THEN At6(s, mi, h, 1, 1, y + 1) ELSE At6(s, mi, h, 1, mo + 1, y)
<1> DEFINE t == At6(s, mi, h, d, mo, y)
<1>1. [t EXCEPT !.month = mo + 1, !.day = 1] = At6(s, mi, h, 1, mo + 1, y)
  <2>1. [t EXCEPT !.month = mo + 1] = At6(s, mi, h, d, mo + 1, y)
    BY DEF At6
  <2>2. [At6(s, mi, h, d, mo + 1, y) EXCEPT !.day = 1] = At6(s, mi, h, 1, mo + 1, y)
    BY DEF At6
  <2> QED
    BY <2>1, <2>2
<1>2. [t EXCEPT !.year = y + 1, !.month = 1, !.day = 1] = At6(s, mi, h, 1, 1, y + 1)
  <2>1. [t EXCEPT !.year = y + 1] = At6(s, mi, h, d, mo, y + 1)
    BY DEF At6
  <2>2. [At6(s, mi, h, d, mo, y + 1) EXCEPT !.month = 1] = At6(s, mi, h, d, 1, y + 1)
    BY DEF At6
  <2>3. [At6(s, mi, h, d, 1, y + 1) EXCEPT !.day = 1] = At6(s, mi, h, 1, 1, y + 1)
    BY DEF At6
  <2> QED
    BY <2>1, <2>2, <2>3
<1>3. t.month = mo /\ t.year = y
  BY DEF At6
<1> HIDE DEF t
<1>4. FirstOfNextMonth(t) = IF mo = 12 THEN At6(s, mi, h, 1, 1, y + 1)
                                       ELSE At6(s, mi, h, 1, mo + 1, y)
  BY <1>1, <1>2, <1>3 DEF FirstOfNextMonth
<1> QED
  BY <1>4 DEF t

\* The hours, minutes and seconds after the first three carries, s seconds,
\* mi minutes and h hours before them.
CarryTime(t) == CarryHours(CarryMinutes(CarrySeconds([t EXCEPT !.seconds = uint8(@ + 1)])))

AtNextSecond(s, mi, h, d, mo, y) ==
  IF s # 59 THEN At6(s + 1, mi, h, d, mo, y)
  ELSE IF mi # 59 THEN At6(0, mi + 1, h, d, mo, y)
  ELSE IF h # 23 THEN At6(0, 0, h + 1, d, mo, y)
  ELSE At6(0, 0, 0, d + 1, mo, y)

LEMMA CarryTimeIs ==
  ASSUME NEW s, NEW mi, NEW h, NEW d, NEW mo, NEW y,
         InRange(s, mi, h, d, mo, y), d <= 31
  PROVE  CarryTime(At6(s, mi, h, d, mo, y)) = AtNextSecond(s, mi, h, d, mo, y)
<1>1. /\ uint8(s + 1) = s + 1 /\ uint8(mi + 1) = mi + 1
      /\ uint8(h + 1) = h + 1 /\ uint8(d + 1) = d + 1
  BY DEF uint8, InRange
<1>2. /\ s + 1 >= 60 <=> s = 59
      /\ mi + 1 >= 60 <=> mi = 59
      /\ h + 1 >= 24 <=> h = 23
      /\ ~(mi >= 60) /\ ~(h >= 24) /\ ~(0 >= 60)
  BY DEF InRange
<1> DEFINE t1 == [At6(s, mi, h, d, mo, y) EXCEPT !.seconds = uint8(@ + 1)]
           t2 == CarrySeconds(t1)
           t3 == CarryMinutes(t2)
<1>3. t1 = At6(s + 1, mi, h, d, mo, y)
  BY <1>1, SecondsAre
<1> HIDE DEF t1
<1>4. t2 = IF s = 59 THEN At6(0, mi + 1, h, d, mo, y) ELSE At6(s + 1, mi, h, d, mo, y)
  BY <1>1, <1>2, <1>3, CarrySecondsIs
<1> HIDE DEF t2
<1>5. CASE s # 59
  <2>1. t3 = At6(s + 1, mi, h, d, mo, y)
    BY <1>2, <1>4, <1>5, CarryMinutesIs
  <2> HIDE DEF t3
  <2>2. CarryHours(t3) = At6(s + 1, mi, h, d, mo, y)
    BY <1>2, <2>1, CarryHoursIs
  <2> QED
    BY <1>5, <2>2 DEF t1, t2, t3, CarryTime, AtNextSecond
<1>6. CASE s = 59
  <2>1. t2 = At6(0, mi + 1, h, d, mo, y)
    BY <1>4, <1>6
  <2>2. t3 = IF mi = 59 THEN At6(0, 0, h + 1, d, mo, y) ELSE At6(0, mi + 1, h, d, mo, y)
    BY <1>1, <1>2, <2>1, CarryMinutesIs
  <2> HIDE DEF t3
  <2>3. CASE mi # 59
    <3>1. CarryHours(t3) = At6(0, mi + 1, h, d, mo, y)
      BY <1>2, <2>2, <2>3, CarryHoursIs
    <3> QED
      BY <1>6, <2>3, <3>1 DEF t1, t2, t3, CarryTime, AtNextSecond
  <2>4. CASE mi = 59
    <3>1. t3 = At6(0, 0, h + 1, d, mo, y)
      BY <2>2, <2>4
    <3>2. CarryHours(t3) = IF h = 23 THEN At6(0, 0, 0, d + 1, mo, y)
                                     ELSE At6(0, 0, h + 1, d, mo, y)
      BY <1>1, <1>2, <3>1, CarryHoursIs
    <3> QED
      BY <1>6, <2>4, <3>2 DEF t1, t2, t3, CarryTime, AtNextSecond
  <2> QED
    BY <2>3, <2>4
<1> QED
  BY <1>5, <1>6

\* One second more, before the carry of the day.
OneSecondOn(v, s, mi, h, d, mo, y) ==
  LET n == (h * 60 + mi) * 60 + s IN
  /\ v \in Date /\ v.month = mo /\ v.year = y
  /\ v.day = IF n = 86399 THEN d + 1 ELSE d
  /\ SecondOfDay(v) = IF n = 86399 THEN 0 ELSE n + 1

TimeIs(v, s, mi, h, d, mo, y) ==
  /\ v \in Date /\ v.month = mo /\ v.year = y /\ v.day = d
  /\ SecondOfDay(v) = (h * 60 + mi) * 60 + s

LEMMA AtTime ==
  ASSUME NEW s, NEW mi, NEW h, NEW d, NEW mo, NEW y, InRange(s, mi, h, d, mo, y)
  PROVE  TimeIs(At6(s, mi, h, d, mo, y), s, mi, h, d, mo, y)
BY FieldsOf, FieldsMake DEF SecondOfDay, TimeIs

LEMMA SecondPassesAt ==
  ASSUME NEW s \in 0 .. 59, NEW mi \in 0 .. 59, NEW h \in 0 .. 23, NEW d \in 1 .. 31,
         NEW mo \in 1 .. 12, NEW y \in Nat
  PROVE  OneSecondOn(CarryTime(At6(s, mi, h, d, mo, y)), s, mi, h, d, mo, y)
<1> DEFINE v == CarryTime(At6(s, mi, h, d, mo, y))
<1>1. InRange(s, mi, h, d, mo, y) /\ d <= 31
  BY DEF InRange
<1>2. v = AtNextSecond(s, mi, h, d, mo, y)
  BY <1>1, CarryTimeIs
<1> HIDE DEF v
<1>3. CASE s # 59
  <2>1. v = At6(s + 1, mi, h, d, mo, y)
    BY <1>2, <1>3 DEF AtNextSecond
  <2>2. InRange(s + 1, mi, h, d, mo, y)
    BY <1>3 DEF InRange
  <2>3. TimeIs(v, s + 1, mi, h, d, mo, y)
    BY <2>1, <2>2, AtTime
  <2>4. (h * 60 + mi) * 60 + s # 86399
    BY <1>3
  <2> QED
    BY <1>3, <2>3, <2>4 DEF v, OneSecondOn, TimeIs
<1>4. CASE s = 59 /\ mi # 59
  <2>1. v = At6(0, mi + 1, h, d, mo, y)
    BY <1>2, <1>4 DEF AtNextSecond
  <2>2. InRange(0, mi + 1, h, d, mo, y)
    BY <1>4 DEF InRange
  <2>3. TimeIs(v, 0, mi + 1, h, d, mo, y)
    BY <2>1, <2>2, AtTime
  <2>4. (h * 60 + mi) * 60 + s # 86399
    BY <1>4
  <2> QED
    BY <1>4, <2>3, <2>4 DEF v, OneSecondOn, TimeIs
<1>5. CASE s = 59 /\ mi = 59 /\ h # 23
  <2>1. v = At6(0, 0, h + 1, d, mo, y)
    BY <1>2, <1>5 DEF AtNextSecond
  <2>2. InRange(0, 0, h + 1, d, mo, y)
    BY <1>5 DEF InRange
  <2>3. TimeIs(v, 0, 0, h + 1, d, mo, y)
    BY <2>1, <2>2, AtTime
  <2>4. (h * 60 + mi) * 60 + s # 86399
    BY <1>5
  <2> QED
    BY <1>5, <2>3, <2>4 DEF v, OneSecondOn, TimeIs
<1>6. CASE s = 59 /\ mi = 59 /\ h = 23
  <2>1. v = At6(0, 0, 0, d + 1, mo, y)
    BY <1>2, <1>6 DEF AtNextSecond
  <2>2. InRange(0, 0, 0, d + 1, mo, y)
    BY <1>6 DEF InRange
  <2>3. TimeIs(v, 0, 0, 0, d + 1, mo, y)
    BY <2>1, <2>2, AtTime
  <2>4. (h * 60 + mi) * 60 + s = 86399
    BY <1>6
  <2> QED
    BY <1>6, <2>3, <2>4 DEF v, OneSecondOn, TimeIs
<1> QED
  BY <1>3, <1>4, <1>5, <1>6

LEMMA SecondPasses ==
  ASSUME NEW t, IsDate(t)
  PROVE  /\ CarryTime(t) \in Date
         /\ CarryTime(t).month = t.month /\ CarryTime(t).year = t.year
         /\ CarryTime(t).day = IF SecondOfDay(t) = 86399 THEN t.day + 1 ELSE t.day
         /\ SecondOfDay(CarryTime(t)) = IF SecondOfDay(t) = 86399 THEN 0 ELSE SecondOfDay(t) + 1
<1>1. /\ t.seconds \in 0 .. 59 /\ t.minutes \in 0 .. 59 /\ t.hours \in 0 .. 23
      /\ t.day \in Nat \ {0} /\ t.month \in 1 .. 12 /\ t.year \in Nat
  BY DateFields DEF IsDate
<1>2. t = At6(t.seconds, t.minutes, t.hours, t.day, t.month, t.year)
  BY DateFields DEF IsDate
<1>3. t.day \in 1 .. 31
  <2>1. t.month \in 1 .. 12 /\ t.year \in Nat
    BY <1>1
  <2>2. get_days_in_month(t.month, t.year) \in 28 .. 31
    BY <2>1, MonthDays
  <2>3. t.day <= get_days_in_month(t.month, t.year)
    BY Zenon DEF IsDate
  <2> QED
    BY <1>1, <2>2, <2>3
<1>4. OneSecondOn(CarryTime(At6(t.seconds, t.minutes, t.hours, t.day, t.month, t.year)),
                  t.seconds, t.minutes, t.hours, t.day, t.month, t.year)
  BY <1>1, <1>3, SecondPassesAt, Zenon
<1> DEFINE v == CarryTime(t)
           n == SecondOfDay(t)
<1>5. OneSecondOn(v, t.seconds, t.minutes, t.hours, t.day, t.month, t.year)
  BY <1>2, <1>4
<1>6. n = (t.hours * 60 + t.minutes) * 60 + t.seconds
  BY DEF SecondOfDay
<1> HIDE DEF v, n
<1>7. /\ v \in Date /\ v.month = t.month /\ v.year = t.year
      /\ v.day = IF n = 86399 THEN t.day + 1 ELSE t.day
      /\ SecondOfDay(v) = IF n = 86399 THEN 0 ELSE n + 1
  BY <1>5, <1>6 DEF OneSecondOn
<1> QED
  BY <1>7 DEF v, n

\* The carry of the day, into the next month and the next year, keeps the day
\* count and makes a date again.
LEMMA DayCarries ==
  ASSUME NEW v, v \in Date, v.year < 65535,
         v.day <= get_days_in_month(v.month, v.year) + 1
  PROVE  /\ IsDate(CarryDay(v))
         /\ DayNumber(CarryDay(v)) = DayNumber(v)
         /\ SecondOfDay(CarryDay(v)) = SecondOfDay(v)
<1> DEFINE g == get_days_in_month(v.month, v.year)
<1>1. /\ v.seconds \in 0 .. 59 /\ v.minutes \in 0 .. 59 /\ v.hours \in 0 .. 23
      /\ v.day \in Nat \ {0} /\ v.month \in 1 .. 12 /\ v.year \in Nat
  BY DateFields
<1>2. g \in 28 .. 31
  BY <1>1, MonthDays
<1>3. CASE v.day <= g
  <2>1. CarryDay(v) = v
    BY <1>3, CarryDayIs
  <2> QED
    BY <1>3, <2>1 DEF IsDate
<1>4. CASE ~(v.day <= g)
  <2> DEFINE last == At6(v.seconds, v.minutes, v.hours, g, v.month, v.year)
             w    == CarryDay(v)
  <2>1. v.day = g + 1
    BY <1>1, <1>2, <1>4
  <2>2. uint16(v.year + 1) = v.year + 1
    BY <1>1 DEF uint16
  <2>3. last \in Date
    <3>1. InRange(v.seconds, v.minutes, v.hours, g, v.month, v.year)
      BY <1>1, <1>2 DEF InRange
    <3> QED
      BY <3>1, FieldsMake
  <2>4. /\ last.day = g /\ last.month = v.month /\ last.year = v.year
    BY FieldsOf
  <2>5. w = IF v.month = 12 THEN At6(v.seconds, v.minutes, v.hours, 1, 1, v.year + 1)
            ELSE At6(v.seconds, v.minutes, v.hours, 1, v.month + 1, v.year)
    <3>1. v.month + 1 > 12 <=> v.month = 12
      BY <1>1
    <3> QED
      BY <1>4, <2>2, <3>1, CarryDayIs
  <2>6. w = FirstOfNextMonth(last)
    BY <2>5, NextMonthIs
  <2>7. DayNumber(w) = DayNumber(last) + 1
    <3>1. DayNumber(w) = DayNumber(last) - g + g + 1
      BY <2>3, <2>4, <2>6, MonthLength
    <3>2. DayNumber(last) \in Int
      <4>1. last.month \in 1 .. 12 /\ last.year \in Int /\ last.day \in Int
        BY <1>1, <1>2, <2>4
      <4> HIDE DEF last
      <4> QED
        BY <4>1 DEF DayNumber
    <3> HIDE DEF last, w
    <3> QED
      BY <1>2, <3>1, <3>2
  <2>8. DayNumber(v) = DayNumber(last) + 1
    <3> DEFINE yy == IF v.month <= 2 THEN v.year - 1 ELSE v.year
    <3>1. DayNumber(v) = 365 * yy + LeapDays(yy) + DaysBefore[v.month] + v.day
      BY <1>1, DayNumberIs
    <3>2. DayNumber(last) = 365 * yy + LeapDays(yy) + DaysBefore[v.month] + g
      <4>1. last.month \in 1 .. 12 /\ last.year \in Int /\ last.day \in Int
        BY <1>1, <1>2, <2>4
      <4> HIDE DEF last
      <4> QED
        BY <2>4, <4>1, DayNumberIs
    <3>3. yy \in Int /\ DaysBefore[v.month] \in Int
      <4>1. v.month \in {1, 2, 3, 4, 5, 6, 7, 8, 9, 10, 11, 12}
        BY <1>1
      <4> QED
        BY <1>1, <4>1 DEF DaysBefore
    <3>4. LeapDays(yy) \in Int
      BY <3>3 DEF LeapDays
    <3> HIDE DEF yy, last
    <3> QED
      BY <1>2, <2>1, <3>1, <3>2, <3>3, <3>4
  <2>9. SecondOfDay(w) = SecondOfDay(v)
    BY <2>5, FieldsOf DEF SecondOfDay
  <2>10. IsDate(w)
    <3>1. /\ w.day = 1
          /\ w.month = IF v.month = 12 THEN 1 ELSE v.month + 1
          /\ w.year = IF v.month = 12 THEN v.year + 1 ELSE v.year
      BY <2>5, FieldsOf
    <3>2. w.month \in 1 .. 12 /\ w.year \in Nat
      BY <1>1, <3>1
    <3>3. w = At6(v.seconds, v.minutes, v.hours, 1, w.month, w.year)
      BY <2>5, <3>1
    <3> HIDE DEF w
    <3>4. w \in Date
      <4>1. InRange(v.seconds, v.minutes, v.hours, 1, w.month, w.year)
        BY <1>1, <3>2 DEF InRange
      <4> QED
        BY <3>3, <4>1, FieldsMake
    <3>5. get_days_in_month(w.month, w.year) \in 28 .. 31
      BY <3>2, MonthDays
    <3> QED
      BY <3>1, <3>4, <3>5 DEF IsDate
  <2> QED
    BY <2>7, <2>8, <2>9, <2>10
<1> QED
  BY <1>3, <1>4

\* A tick that is no second leaves a date as it is.
LEMMA NothingCarries ==
  ASSUME NEW t, IsDate(t)
  PROVE  Carried(t) = t
<1>1. ~(t.seconds >= 60) /\ ~(t.minutes >= 60) /\ ~(t.hours >= 24)
  BY DateFields DEF IsDate
<1>2. CarryHours(CarryMinutes(CarrySeconds(t))) = t
  BY <1>1 DEF CarrySeconds, CarryMinutes, CarryHours
<1> QED
  BY <1>2 DEF Carried, CarryDay, IsDate

\* One second more: the next second of the day, or the first of the next day.
LEMMA SecondCounts ==
  ASSUME NEW t, IsDate(t), t.year < 65535
  PROVE  LET u == Carried([t EXCEPT !.seconds = uint8(@ + 1)]) IN
         /\ IsDate(u)
         /\ DayNumber(u) = IF SecondOfDay(t) = 86399 THEN DayNumber(t) + 1 ELSE DayNumber(t)
         /\ SecondOfDay(u) = IF SecondOfDay(t) = 86399 THEN 0 ELSE SecondOfDay(t) + 1
<1> DEFINE v == CarryTime(t)
           u == Carried([t EXCEPT !.seconds = uint8(@ + 1)])
<1>1. u = CarryDay(v)
  BY DEF Carried, CarryTime
<1>2. /\ v \in Date /\ v.month = t.month /\ v.year = t.year
      /\ v.day = IF SecondOfDay(t) = 86399 THEN t.day + 1 ELSE t.day
      /\ SecondOfDay(v) = IF SecondOfDay(t) = 86399 THEN 0 ELSE SecondOfDay(t) + 1
  BY SecondPasses
<1>3. /\ t \in Date /\ t.day <= get_days_in_month(t.month, t.year)
      /\ t.day \in Nat \ {0} /\ t.month \in 1 .. 12 /\ t.year \in Nat
      /\ get_days_in_month(t.month, t.year) \in 28 .. 31
  BY DateFields, MonthDays DEF IsDate
<1> HIDE DEF u, v
<1>4. v.day <= get_days_in_month(v.month, v.year) + 1 /\ v.year < 65535
  BY <1>2, <1>3
<1>5. IsDate(u) /\ DayNumber(u) = DayNumber(v) /\ SecondOfDay(u) = SecondOfDay(v)
  BY <1>1, <1>2, <1>4, DayCarries
<1>6. DayNumber(v) = IF SecondOfDay(t) = 86399 THEN DayNumber(t) + 1 ELSE DayNumber(t)
  <2> DEFINE yy == IF t.month <= 2 THEN t.year - 1 ELSE t.year
  <2>1. DayNumber(t) = 365 * yy + LeapDays(yy) + DaysBefore[t.month] + t.day
    BY <1>3, DayNumberIs
  <2>2. v.day \in Nat
    BY <1>2, <1>3
  <2>3. DayNumber(v) = 365 * yy + LeapDays(yy) + DaysBefore[t.month] + v.day
    BY <1>2, <1>3, <2>2, DayNumberIs
  <2>4. yy \in Int /\ DaysBefore[t.month] \in Int
    <3>1. t.month \in {1, 2, 3, 4, 5, 6, 7, 8, 9, 10, 11, 12}
      BY <1>3
    <3> QED
      BY <1>3, <3>1 DEF DaysBefore
  <2>5. LeapDays(yy) \in Int
    BY <2>4 DEF LeapDays
  <2> HIDE DEF yy
  <2> QED
    BY <1>2, <1>3, <2>1, <2>3, <2>4, <2>5
<1> QED
  BY <1>2, <1>5, <1>6 DEF u

\* Where the day count of a date lies, by its year.
LEMMA LeapDaysBound ==
  ASSUME NEW y \in Int, y >= -1
  PROVE  LeapDays(y) \in Int /\ LeapDays(y) >= -1 /\ (y <= 2099 => LeapDays(y) <= 600)
<1>1. y \div 4 \in Int /\ y \div 100 \in Int /\ y \div 400 \in Int
  OBVIOUS
<1>2. y < 0 => (y \div 4 >= -1 /\ y \div 100 <= -1 /\ y \div 100 >= -1 /\ y \div 400 >= -1)
  OBVIOUS
<1>3. y >= 0 => (y \div 4 >= y \div 100 /\ y \div 100 >= 0 /\ y \div 400 >= 0)
  OBVIOUS
<1>4. y <= 2099 => (y \div 4 <= 524 /\ y \div 400 <= 5)
  OBVIOUS
<1> QED
  BY <1>1, <1>2, <1>3, <1>4 DEF LeapDays

LEMMA DayNumberBound ==
  ASSUME NEW t, IsDate(t)
  PROVE  /\ DayNumber(t) \in Int
         /\ DayNumber(t) >= 365 * (t.year - 1)
         /\ t.year <= 2099 => DayNumber(t) <= 800000
<1> DEFINE yy == IF t.month <= 2 THEN t.year - 1 ELSE t.year
<1>1. t.month \in 1 .. 12 /\ t.year \in Nat /\ t.day \in Nat \ {0}
  BY DateFields DEF IsDate
<1>2. t.day <= 31
  BY <1>1, MonthDays DEF IsDate
<1>3. DayNumber(t) = 365 * yy + LeapDays(yy) + DaysBefore[t.month] + t.day
  BY <1>1, DayNumberIs
<1>4. DaysBefore[t.month] \in 0 .. 337
  <2>1. t.month \in {1, 2, 3, 4, 5, 6, 7, 8, 9, 10, 11, 12}
    BY <1>1
  <2> QED
    BY <2>1 DEF DaysBefore
<1>5. yy \in Int /\ yy >= -1 /\ yy >= t.year - 1 /\ yy <= t.year
  BY <1>1
<1> HIDE DEF yy
<1>6. LeapDays(yy) \in Int /\ LeapDays(yy) >= -1 /\ (yy <= 2099 => LeapDays(yy) <= 600)
  BY <1>5, LeapDaysBound
<1> DEFINE m == DaysBefore[t.month]
           l == LeapDays(yy)
<1>7. /\ DayNumber(t) = 365 * yy + l + m + t.day /\ t.day \in 1 .. 31
      /\ m \in 0 .. 337 /\ l \in Int /\ l >= -1 /\ (yy <= 2099 => l <= 600)
  BY <1>1, <1>2, <1>3, <1>4, <1>6
<1> HIDE DEF l, m
<1>8. DayNumber(t) \in Int /\ DayNumber(t) >= 365 * (t.year - 1)
  BY <1>1, <1>5, <1>7
<1>9. t.year <= 2099 => DayNumber(t) <= 800000
  BY <1>1, <1>5, <1>7
<1> QED
  BY <1>8, <1>9

\* What the RTC shows and rtc_read_time makes of it.
LEMMA BcdRound ==
  ASSUME NEW n \in 0 .. 99
  PROVE  bcd_to_binary(Bcd(n)) = n
<1>1. PICK q \in 0 .. 9, r \in 0 .. 9 : q = n \div 10 /\ r = n % 10 /\ n = 10 * q + r
  <2>1. n \div 10 \in 0 .. 9 /\ n % 10 \in 0 .. 9 /\ n = 10 * (n \div 10) + (n % 10)
    OBVIOUS
  <2> QED
    BY <2>1
<1>2. Bcd(n) = q * 16 + r
  BY <1>1 DEF Bcd
<1>3. (q * 16 + r) \div 16 = q /\ (q * 16 + r) % 16 = r
  OBVIOUS
<1>4. bcd_to_binary(Bcd(n)) = (q * 10 + r) % 256
  BY <1>2, <1>3 DEF bcd_to_binary
<1> QED
  BY <1>1, <1>4

LEMMA HoursRound ==
  ASSUME NEW h \in 0 .. 23, NEW binary \in BOOLEAN, NEW mode24 \in BOOLEAN,
         mode24 \/ h \in 1 .. 11 \/ (binary /\ h \in 13 .. 23)
  PROVE  LET x == IF binary THEN RtcHours(h, binary, mode24)
                  ELSE bcd_to_binary(RtcHours(h, binary, mode24))
         IN  (IF ~mode24 /\ x >= 128 THEN ((x % 128) + 12) % 24 ELSE x) = h
<1> DEFINE x == IF binary THEN RtcHours(h, binary, mode24)
                ELSE bcd_to_binary(RtcHours(h, binary, mode24))
<1>1. CASE mode24
  <2>1. RtcHours(h, binary, mode24) = IF binary THEN h ELSE Bcd(h)
    <3>1. Bcd(h) \in Int
      BY DEF Bcd
    <3> QED
      BY <1>1, <3>1 DEF RtcHours
  <2>2. bcd_to_binary(Bcd(h)) = h
    BY BcdRound
  <2>3. x = h
    BY <2>1, <2>2
  <2> HIDE DEF x
  <2>4. (IF ~mode24 /\ x >= 128 THEN ((x % 128) + 12) % 24 ELSE x) = h
    BY <1>1, <2>3
  <2> QED
    BY <2>4 DEF x
<1>2. CASE ~mode24 /\ h \in 1 .. 11
  <2>1. h % 12 = h
    BY <1>2
  <2>2. RtcHours(h, binary, mode24) = IF binary THEN h ELSE Bcd(h)
    <3>1. Bcd(h) \in Int
      BY DEF Bcd
    <3> QED
      BY <1>2, <2>1, <3>1 DEF RtcHours
  <2>3. bcd_to_binary(Bcd(h)) = h
    BY BcdRound
  <2>4. x = h
    BY <2>2, <2>3
  <2> HIDE DEF x
  <2>5. ~(x >= 128)
    BY <2>4
  <2>6. (IF ~mode24 /\ x >= 128 THEN ((x % 128) + 12) % 24 ELSE x) = h
    BY <2>4, <2>5
  <2> QED
    BY <2>6 DEF x
<1>3. CASE ~mode24 /\ binary /\ h \in 13 .. 23
  <2>1. h % 12 = h - 12
    BY <1>3
  <2>2. RtcHours(h, binary, mode24) = h + 116
    BY <1>3, <2>1 DEF RtcHours
  <2>3. h + 116 >= 128 /\ (((h + 116) % 128) + 12) % 24 = h
    BY <1>3
  <2>4. x = h + 116
    BY <1>3, <2>2
  <2> HIDE DEF x
  <2>5. (IF ~mode24 /\ x >= 128 THEN ((x % 128) + 12) % 24 ELSE x) = h
    BY <1>3, <2>3, <2>4
  <2> QED
    BY <2>5 DEF x
<1> QED
  BY <1>1, <1>2, <1>3

LEMMA RtcRound ==
  ASSUME NEW t, t \in RtcTime, NEW binary \in BOOLEAN, NEW mode24 \in BOOLEAN,
         mode24 \/ t.hours \in 1 .. 11 \/ (binary /\ t.hours \in 13 .. 23)
  PROVE  rtc_read_time(RtcRegisters(t, binary, mode24)) = t
<1> DEFINE r == RtcRegisters(t, binary, mode24)
           from(b) == IF binary THEN b ELSE bcd_to_binary(b)
           code(n) == IF binary THEN n ELSE Bcd(n)
           x == from(RtcHours(t.hours, binary, mode24))
<1>1. /\ t.seconds \in 0 .. 59 /\ t.minutes \in 0 .. 59 /\ t.hours \in 0 .. 23
      /\ t.day \in 1 .. 31 /\ t.month \in 1 .. 12 /\ t.year \in 2000 .. 2099
      /\ t = At6(t.seconds, t.minutes, t.hours, t.day, t.month, t.year)
  BY DEF RtcTime, At6
<1>2. /\ r.seconds = code(t.seconds) /\ r.minutes = code(t.minutes)
      /\ r.hours = RtcHours(t.hours, binary, mode24)
      /\ r.day = code(t.day) /\ r.month = code(t.month) /\ r.year = code(t.year % 100)
      /\ r.binary = binary /\ r.mode24 = mode24
  BY DEF RtcRegisters
<1>3. ASSUME NEW n \in 0 .. 99 PROVE from(code(n)) = n
  BY BcdRound
<1>4. (IF ~mode24 /\ x >= 128 THEN ((x % 128) + 12) % 24 ELSE x) = t.hours
  BY <1>1, HoursRound
<1>5. /\ t.seconds \in 0 .. 99 /\ t.minutes \in 0 .. 99 /\ t.day \in 0 .. 99
      /\ t.month \in 0 .. 99 /\ t.year % 100 \in 0 .. 99
      /\ (t.year % 100) + 2000 = t.year
  BY <1>1
<1> HIDE DEF r
<1>6. rtc_read_time(r) = At6(from(r.seconds), from(r.minutes),
        IF ~mode24 /\ from(r.hours) >= 128 THEN ((from(r.hours) % 128) + 12) % 24
        ELSE from(r.hours),
        from(r.day), from(r.month), from(r.year) + 2000)
  BY <1>2 DEF rtc_read_time, At6
<1> HIDE DEF code, from
<1>7. rtc_read_time(r) = At6(t.seconds, t.minutes, t.hours, t.day, t.month, t.year)
  BY <1>2, <1>3, <1>4, <1>5, <1>6
<1> QED
  BY <1>1, <1>7 DEF r

LEMMA BootTimeIsDate ==
  ASSUME NEW t \in BootTimes
  PROVE  t \in RtcTime /\ IsDate(t) /\ t.year <= 2099
<1>1. t \in RtcTime /\ DayNumber(t) < DayNumber(FirstOfNextMonth(t))
  BY BootTimesAssumption
<1>2. /\ t \in Date /\ t.year <= 2099 /\ t.month \in 1 .. 12 /\ t.year \in Int /\ t.day \in Int
  BY <1>1 DEF RtcTime, Date
<1>3. /\ DayNumber(FirstOfNextMonth(t))
            = DayNumber(t) - t.day + get_days_in_month(t.month, t.year) + 1
      /\ get_days_in_month(t.month, t.year) \in 28 .. 31
  BY <1>2, MonthLength
<1>4. DayNumber(t) \in Int
  BY <1>2 DEF DayNumber
<1>5. t.day <= get_days_in_month(t.month, t.year)
  BY <1>1, <1>2, <1>3, <1>4
<1> QED
  BY <1>1, <1>2, <1>5 DEF IsDate

\* A second passes with every tick that PIT_HZ divides.
LEMMA OneFold ==
  ASSUME NEW k \in Nat \ {0}, NEW d \in Int, k * d >= 1, k * d <= k
  PROVE  d = 1
<1>1. CASE d <= 0
  <2>1. k * d <= 0
    BY <1>1
  <2> QED
    BY <2>1
<1>2. CASE d >= 2
  <2>1. k * d >= k * 2
    BY <1>2
  <2> QED
    BY <2>1
<1> QED
  BY <1>1, <1>2

LEMMA NoFold ==
  ASSUME NEW k \in Nat \ {0}, NEW d \in Int, k * d >= 1 - k, k * d <= k - 1
  PROVE  d = 0
<1>1. CASE d <= -1
  <2>1. k * d <= k * (-1)
    BY <1>1
  <2> QED
    BY <2>1
<1>2. CASE d >= 1
  <2>1. k * d >= k * 1
    BY <1>2
  <2> QED
    BY <2>1
<1> QED
  BY <1>1, <1>2

LEMMA Divided ==
  ASSUME NEW k \in Nat \ {0}, NEW n \in Nat
  PROVE  /\ n \div k \in Nat /\ n % k \in 0 .. (k - 1)
         /\ n = k * (n \div k) + (n % k) /\ n \div k <= n
OBVIOUS

LEMMA SecondsPassed ==
  ASSUME NEW k \in Nat \ {0}, NEW n \in Nat
  PROVE  (n + 1) \div k = IF (n + 1) % k = 0 THEN (n \div k) + 1 ELSE n \div k
<1> DEFINE q == n \div k
           r == n % k
           q1 == (n + 1) \div k
           r1 == (n + 1) % k
<1>1. q \in Int /\ r \in 0 .. (k - 1) /\ n = k * q + r
  BY Divided
<1>2. q1 \in Int /\ r1 \in 0 .. (k - 1) /\ n + 1 = k * q1 + r1
  BY Divided
<1> HIDE DEF q, r, q1, r1
<1>3. k * q \in Int /\ k * q1 \in Int /\ q1 - q \in Int
  BY <1>1, <1>2
<1>4. k * (q1 - q) = k * q1 - k * q
  BY <1>1, <1>2
<1>5. k * (q1 - q) = 1 + r - r1
  BY <1>1, <1>2, <1>3, <1>4
<1>6. CASE r1 = 0
  <2>1. k * (q1 - q) >= 1 /\ k * (q1 - q) <= k
    BY <1>1, <1>5, <1>6
  <2>2. q1 - q = 1
    BY <1>3, <2>1, OneFold
  <2> QED
    BY <1>1, <1>2, <1>6, <2>2 DEF q, q1, r1
<1>7. CASE r1 # 0
  <2>1. k * (q1 - q) >= 1 - k /\ k * (q1 - q) <= k - 1
    BY <1>1, <1>2, <1>5, <1>7
  <2>2. q1 - q = 0
    BY <1>3, <2>1, NoFold
  <2> QED
    BY <1>1, <1>2, <1>7, <2>2 DEF q, q1, r1
<1> QED
  BY <1>6, <1>7

\* The seconds since the midnight before the boot, and the kernel's time as the
\* day and the second they make: the invariant.
SecondsNow == SecondOfDay(rtc.time) + (ticks \div PIT_HZ)

OnTime(t, n) ==
  /\ IsDate(t)
  /\ DayNumber(t) = DayNumber(rtc.time) + (n \div 86400)
  /\ SecondOfDay(t) = n % 86400

ClockInv ==
  /\ ticks \in 0 .. MaxTicks
  /\ rtc.time \in BootTimes
  /\ RtcUnderstood(rtc) => OnTime(curr_time, SecondsNow)

LEMMA SecondOfDayIs ==
  ASSUME NEW t, IsDate(t)
  PROVE  SecondOfDay(t) \in Nat /\ SecondOfDay(t) < 86400
<1>1. t.seconds \in 0 .. 59 /\ t.minutes \in 0 .. 59 /\ t.hours \in 0 .. 23
  BY DateFields DEF IsDate
<1> DEFINE m == t.hours * 60 + t.minutes
           s == t.seconds
<1>2. m \in Nat /\ m < 1440 /\ s \in Nat /\ s < 60
  <2>1. ASSUME NEW mi \in 0 .. 59, NEW h \in 0 .. 23
        PROVE  h * 60 + mi \in Nat /\ h * 60 + mi < 1440
    OBVIOUS
  <2>2. m \in Nat /\ m < 1440
    <3>1. PICK mi \in 0 .. 59, h \in 0 .. 23 : m = h * 60 + mi
      BY <1>1
    <3> HIDE DEF m
    <3> QED
      BY <2>1, <3>1
  <2>3. s \in Nat /\ s < 60
    BY <1>1
  <2> QED
    BY <2>2, <2>3
<1>3. SecondOfDay(t) = m * 60 + s
  BY DEF SecondOfDay
<1> HIDE DEF m, s
<1> QED
  BY <1>2, <1>3

\* MaxTicks has 32 bits, so there is no year 65535 to count to.
LEMMA YearIsSmall ==
  ASSUME ClockInv, RtcUnderstood(rtc)
  PROVE  curr_time.year < 65535
<1> DEFINE b == rtc.time
           q == ticks \div PIT_HZ
           n == SecondsNow
<1>1. /\ IsDate(b) /\ b.year <= 2099 /\ IsDate(curr_time)
      /\ DayNumber(curr_time) = DayNumber(b) + (n \div 86400)
  BY BootTimeIsDate DEF ClockInv, OnTime
<1>2. DayNumber(b) \in Int /\ DayNumber(b) <= 800000
  BY <1>1, DayNumberBound
<1>3. DayNumber(curr_time) \in Int /\ DayNumber(curr_time) >= 365 * (curr_time.year - 1)
  BY <1>1, DayNumberBound
<1>4. SecondOfDay(b) \in Nat /\ SecondOfDay(b) < 86400
  BY <1>1, SecondOfDayIs
<1>5. q \in Nat /\ q <= MaxTicks
  <2>1. ticks \in Nat /\ ticks <= MaxTicks /\ MaxTicks \in Nat /\ PIT_HZ \in Nat \ {0}
    BY ClockAssumption DEF ClockInv
  <2>2. q \in Nat /\ q <= ticks
    BY <2>1, Divided
  <2> HIDE DEF q
  <2> QED
    BY <2>1, <2>2
<1>6. n \div 86400 <= 100000
  <2>1. n = SecondOfDay(b) + q
    BY DEF SecondsNow
  <2>2. MaxTicks \in Nat /\ MaxTicks < 4294967296
    BY ClockAssumption
  <2> HIDE DEF n, q, b
  <2> QED
    BY <1>4, <1>5, <2>1, <2>2
<1>7. n \div 86400 \in Int
  <2>1. n = SecondOfDay(b) + q
    BY DEF SecondsNow
  <2> HIDE DEF n, q, b
  <2> QED
    BY <1>4, <1>5, <2>1
<1>8. curr_time.year \in Nat
  BY <1>1, DateFields DEF IsDate
<1> HIDE DEF n, q, b
<1> QED
  BY <1>1, <1>2, <1>3, <1>6, <1>7, <1>8

\* One second more on both sides.
LEMMA OnTimeNext ==
  ASSUME NEW t, NEW u, NEW n \in Nat, OnTime(t, n), DayNumber(rtc.time) \in Int,
         IsDate(u),
         DayNumber(u) = IF SecondOfDay(t) = 86399 THEN DayNumber(t) + 1 ELSE DayNumber(t),
         SecondOfDay(u) = IF SecondOfDay(t) = 86399 THEN 0 ELSE SecondOfDay(t) + 1
  PROVE  OnTime(u, n + 1)
<1>1. /\ DayNumber(t) = DayNumber(rtc.time) + (n \div 86400)
      /\ SecondOfDay(t) = n % 86400
  BY DEF OnTime
<1>2. /\ n \div 86400 \in Int /\ n % 86400 \in Int
      /\ (n + 1) \div 86400 = IF n % 86400 = 86399 THEN (n \div 86400) + 1 ELSE n \div 86400
      /\ (n + 1) % 86400 = IF n % 86400 = 86399 THEN 0 ELSE (n % 86400) + 1
  OBVIOUS
<1> QED
  BY <1>1, <1>2 DEF OnTime

LEMMA ClockInitInv == ClockInit => ClockInv
<1> SUFFICES ASSUME ClockInit PROVE ClockInv
  OBVIOUS
<1>1. PICK t \in BootTimes, binary \in BOOLEAN, mode24 \in BOOLEAN :
        rtc = [time |-> t, registers |-> RtcRegisters(t, binary, mode24)]
  BY DEF ClockInit
<1>2. /\ rtc.time = t /\ rtc.registers = RtcRegisters(t, binary, mode24)
      /\ rtc.registers.mode24 = mode24 /\ rtc.registers.binary = binary
  BY <1>1 DEF RtcRegisters
<1>3. t \in RtcTime /\ IsDate(t)
  BY BootTimeIsDate
<1>4. ticks \in 0 .. MaxTicks
  BY ClockAssumption DEF ClockInit
<1>5. ASSUME RtcUnderstood(rtc) PROVE OnTime(curr_time, SecondsNow)
  <2>1. mode24 \/ t.hours \in 1 .. 11 \/ (binary /\ t.hours \in 13 .. 23)
    BY <1>2, <1>5 DEF RtcUnderstood
  <2>2. curr_time = t
    BY <1>2, <1>3, <2>1, RtcRound DEF ClockInit
  <2>3. SecondOfDay(t) \in Nat /\ SecondOfDay(t) < 86400
    BY <1>3, SecondOfDayIs
  <2>4. SecondsNow = SecondOfDay(t)
    <3>1. ticks = 0 /\ 0 \div PIT_HZ = 0
      <4>1. ticks = 0 /\ PIT_HZ \in Nat \ {0}
        BY ClockAssumption DEF ClockInit
      <4> QED
        BY <4>1
    <3> QED
      BY <1>2, <2>3, <3>1 DEF SecondsNow
  <2>5. DayNumber(t) \in Int
    BY <1>3, DayNumberBound
  <2>6. (SecondOfDay(t) \div 86400) = 0 /\ SecondOfDay(t) % 86400 = SecondOfDay(t)
    BY <2>3
  <2> QED
    BY <1>2, <1>3, <2>2, <2>4, <2>5, <2>6 DEF OnTime
<1> QED
  BY <1>2, <1>4, <1>5 DEF ClockInv

LEMMA TickInv == ClockInv /\ pit_callback => ClockInv'
<1> SUFFICES ASSUME ClockInv, pit_callback PROVE ClockInv'
  OBVIOUS
<1>1. ticks' \in 0 .. MaxTicks /\ rtc' = rtc /\ ticks' = ticks + 1 /\ ticks \in Nat
  BY ClockAssumption DEF ClockInv, pit_callback
<1>2. ASSUME RtcUnderstood(rtc) PROVE OnTime(curr_time', SecondsNow')
  <2> DEFINE t == curr_time
             n == SecondsNow
             n1 == SecondOfDay(rtc.time) + ((ticks + 1) \div PIT_HZ)
             q == ticks \div PIT_HZ
  <2>1. OnTime(t, n) /\ IsDate(t) /\ t.year < 65535
    BY <1>2, YearIsSmall DEF ClockInv, OnTime
  <2>2. IsDate(rtc.time)
    BY BootTimeIsDate DEF ClockInv
  <2>3. DayNumber(rtc.time) \in Int /\ SecondOfDay(rtc.time) \in Nat
    BY <2>2, DayNumberBound, SecondOfDayIs
  <2>4. q \in Nat /\ (ticks + 1) \div PIT_HZ = IF (ticks + 1) % PIT_HZ = 0 THEN q + 1 ELSE q
    <3>1. PIT_HZ \in Nat \ {0} /\ ticks \in Nat
      BY <1>1, ClockAssumption
    <3>2. q \in Nat
      BY <3>1, Divided
    <3>3. (ticks + 1) \div PIT_HZ = IF (ticks + 1) % PIT_HZ = 0 THEN q + 1 ELSE q
      BY <3>1, SecondsPassed
    <3> HIDE DEF q
    <3> QED
      BY <3>2, <3>3
  <2>5. n = SecondOfDay(rtc.time) + q
    BY DEF SecondsNow
  <2>6. SecondsNow' = n1
    BY <1>1 DEF SecondsNow
  <2>7. curr_time' = Tick(t, ticks + 1)
    BY DEF pit_callback
  <2> HIDE DEF t, n, q
  <2>8. n \in Nat
    BY <2>3, <2>4, <2>5
  <2>9. CASE (ticks + 1) % PIT_HZ = 0
    <3> DEFINE u == Carried([t EXCEPT !.seconds = uint8(@ + 1)])
    <3>1. n1 = n + 1
      BY <2>3, <2>4, <2>5, <2>9
    <3>2. curr_time' = u
      BY <2>7, <2>9 DEF Tick
    <3>3. /\ IsDate(u)
          /\ DayNumber(u) = IF SecondOfDay(t) = 86399 THEN DayNumber(t) + 1 ELSE DayNumber(t)
          /\ SecondOfDay(u) = IF SecondOfDay(t) = 86399 THEN 0 ELSE SecondOfDay(t) + 1
      BY <2>1, SecondCounts
    <3> HIDE DEF u
    <3>4. OnTime(u, n + 1)
      BY <2>1, <2>3, <2>8, <3>3, OnTimeNext
    <3> QED
      BY <1>1, <2>6, <3>1, <3>2, <3>4 DEF OnTime
  <2>10. CASE (ticks + 1) % PIT_HZ # 0
    <3>1. n1 = n
      BY <2>4, <2>5, <2>10
    <3>2. curr_time' = t
      BY <2>1, <2>7, <2>10, NothingCarries DEF Tick
    <3> QED
      BY <1>1, <2>1, <2>6, <3>1, <3>2 DEF OnTime
  <2> QED
    BY <2>9, <2>10
<1>3. RtcUnderstood(rtc)' <=> RtcUnderstood(rtc)
  BY <1>1 DEF RtcUnderstood
<1> QED
  BY <1>1, <1>2, <1>3 DEF ClockInv, OnTime

LEMMA ClockInvKeeps == ClockInv => KeepsTime
<1> SUFFICES ASSUME ClockInv, RtcUnderstood(rtc)
             PROVE  LET s == SecondOfDay(rtc.time) + (ticks \div PIT_HZ) IN
                    /\ DayNumber(curr_time) = DayNumber(rtc.time) + (s \div 86400)
                    /\ SecondOfDay(curr_time) = s % 86400
                    /\ curr_time.month \in 1 .. 12 /\ curr_time.day >= 1
                    /\ DayNumber(curr_time) < DayNumber(FirstOfNextMonth(curr_time))
  BY DEF KeepsTime
<1> DEFINE t == curr_time
<1>1. IsDate(t) /\ OnTime(t, SecondsNow)
  BY DEF ClockInv, OnTime
<1>2. t.month \in 1 .. 12 /\ t.day \in Nat \ {0} /\ t.year \in Nat
  BY <1>1, DateFields DEF IsDate
<1>3. /\ DayNumber(FirstOfNextMonth(t))
            = DayNumber(t) - t.day + get_days_in_month(t.month, t.year) + 1
      /\ get_days_in_month(t.month, t.year) \in 28 .. 31
      /\ t.day <= get_days_in_month(t.month, t.year)
  BY <1>1, MonthLength DEF IsDate
<1>4. DayNumber(t) \in Int
  BY <1>1, DayNumberBound
<1>5. DayNumber(t) < DayNumber(FirstOfNextMonth(t))
  BY <1>2, <1>3, <1>4
<1>6. t.day >= 1
  BY <1>2
<1> QED
  BY <1>1, <1>2, <1>5, <1>6 DEF OnTime, SecondsNow

\* The kernel's time is the RTC's time at boot plus the seconds of the timer, by
\* the calendar, for every time of boot, tick rate and number of ticks.
THEOREM ClockKeepsTime == ClockSpec => []KeepsTime
<1>1. ClockInv /\ [pit_callback]_clockVars => ClockInv'
  <2> SUFFICES ASSUME ClockInv, UNCHANGED clockVars PROVE ClockInv'
    BY TickInv
  <2> QED
    BY DEF ClockInv, clockVars, OnTime, SecondsNow, RtcUnderstood
<1> QED
  BY <1>1, ClockInitInv, ClockInvKeeps, PTL DEF ClockSpec

==============================================================================
