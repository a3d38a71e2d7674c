------------------------------- MODULE Bytes ---------------------------------
(***************************************************************************)
(* The functions of src/misc/mem.c and src/misc/util.c that write memory,  *)
(* and their copies in libc's string.c, byte by byte: a copy may read what *)
(* it has written before.  A call is at d and s with n bytes to go; for    *)
(* strcpy, n only says whether the NUL is still to come.                   *)
(***************************************************************************)
EXTENDS Integers

CONSTANTS
  MemSize,    \* bound: the bytes of the memory
  Byte,
  NUL

ASSUME BytesAssumption == MemSize \in Nat \ {0} /\ NUL \in Byte

VARIABLES
  memory,
  before,     \* the memory at the call
  call        \* the function, its arguments and where it is; fn "none" before

bytesVars == <<memory, before, call>>

Address == 0 .. MemSize - 1

BytesInit ==
  /\ memory \in [Address -> Byte] /\ before = memory
  /\ call = [fn |-> "none", dst |-> 0, src |-> 0, len |-> 0, d |-> 0, s |-> 0, n |-> 0]

------------------------------------------------------------------------------
(***************************************************************************)
(* The calls.  Callers pass blocks that are in memory, strings with an     *)
(* end, and, except to memmove, blocks that do not overlap.                *)
(***************************************************************************)
Ends(src) == {i \in Address : i >= src /\ before[i] = NUL}

strlen(src) == (CHOOSE i \in Ends(src) : \A j \in Ends(src) : i <= j) - src

Within(dst, src, len, read) ==
  dst + len <= MemSize /\ src + read <= MemSize

Apart(dst, src, len, read) == dst + len <= src \/ src + read <= dst

\* How many bytes of its source strncpy looks at.
Read(src, len) ==
  IF Ends(src) # {} /\ strlen(src) < len THEN strlen(src) + 1 ELSE len

Enter(fn, dst, src, len, start, n) ==
  /\ call.fn = "none"
  /\ call' = [fn |-> fn, dst |-> dst, src |-> src, len |-> len,
              d |-> dst + start, s |-> src + start, n |-> n]
  /\ UNCHANGED <<memory, before>>

memset(dst, len) ==
  dst + len <= MemSize /\ Enter("memset", dst, dst, len, 0, len)

memcpy(dst, src, len) ==
  /\ Within(dst, src, len, len) /\ Apart(dst, src, len, len)
  /\ Enter("memcpy", dst, src, len, 0, len)

\* A slip: the direction for the other case.
memmove_down(dst, src) == dst >= src

memmove_up(dst, src) == dst < src

memmove(dst, src, len) ==
  /\ Within(dst, src, len, len)
  /\ Enter("memmove", dst, src, len, IF memmove_up(dst, src) THEN 0 ELSE len, len)

strncpy(dst, src, len) ==
  /\ Within(dst, src, len, Read(src, len)) /\ Apart(dst, src, len, Read(src, len))
  /\ Enter("strncpy", dst, src, len, 0, len)

strcpy(dst, src) ==
  /\ Ends(src) # {}
  /\ LET len == strlen(src) + 1 IN
     /\ Within(dst, src, len, len) /\ Apart(dst, src, len, len)
     /\ Enter("strcpy", dst, src, len, 0, 1)

(***************************************************************************)
(* One byte of the call.                                                   *)
(***************************************************************************)
Goes == call.fn # "none" /\ call.n > 0

memset_byte ==
  /\ Goes /\ call.fn = "memset"
  /\ memory' = [memory EXCEPT ![call.d] = NUL]
  /\ call' = [call EXCEPT !.d = @ + 1, !.n = @ - 1]

\* *d++ = *s++, or *--d = *--s.
copy_byte ==
  /\ Goes /\ call.fn \in {"memcpy", "memmove"}
  /\ IF call.fn = "memcpy" \/ memmove_up(call.dst, call.src)
     THEN /\ memory' = [memory EXCEPT ![call.d] = memory[call.s]]
          /\ call' = [call EXCEPT !.d = @ + 1, !.s = @ + 1, !.n = @ - 1]
     ELSE /\ memory' = [memory EXCEPT ![call.d - 1] = memory[call.s - 1]]
          /\ call' = [call EXCEPT !.d = @ - 1, !.s = @ - 1, !.n = @ - 1]

\* Characters up to the NUL, and then NULs.
strncpy_byte ==
  /\ Goes /\ call.fn = "strncpy"
  /\ memory' = [memory EXCEPT ![call.d] = memory[call.s]]
  /\ call' = [call EXCEPT !.d = @ + 1, !.n = @ - 1,
                          !.s = IF memory[@] = NUL THEN @ ELSE @ + 1]

strcpy_byte ==
  /\ Goes /\ call.fn = "strcpy"
  /\ memory' = [memory EXCEPT ![call.d] = memory[call.s]]
  /\ call' = [call EXCEPT !.d = @ + 1, !.s = @ + 1,
                          !.n = IF memory[call.s] = NUL THEN 0 ELSE 1]

BytesNext ==
  \/ \E dst \in Address, len \in 0 .. MemSize :
       \/ memset(dst, len)
       \/ \E src \in Address :
            memcpy(dst, src, len) \/ memmove(dst, src, len) \/ strncpy(dst, src, len)
  \/ \E dst, src \in Address : strcpy(dst, src)
  \/ (memset_byte \/ copy_byte \/ strncpy_byte \/ strcpy_byte) /\ UNCHANGED before

BytesSpec == BytesInit /\ [][BytesNext]_bytesVars

------------------------------------------------------------------------------
\* What the call promises of byte i of its destination.
Promised(i) ==
  CASE call.fn = "memset" -> NUL
    [] call.fn \in {"memcpy", "memmove", "strcpy"} -> before[call.src + i]
    [] call.fn = "strncpy" -> IF i < Read(call.src, call.len) THEN before[call.src + i] ELSE NUL

\* A call that has returned has put in its destination what was in its source
\* when it began, however the two overlap for memmove (the console scrolls with
\* it), with NULs behind a short string for strncpy, and has touched no byte
\* beside it.
CopiesAsIfAtOnce ==
  call.fn # "none" /\ call.n = 0 =>
    memory = [a \in Address |-> IF a \in call.dst .. call.dst + call.len - 1
                                THEN Promised(a - call.dst) ELSE before[a]]

==============================================================================
