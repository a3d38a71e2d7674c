------------------------------- MODULE Format --------------------------------
(***************************************************************************)
(* Formatted output: vsnprintf of src/misc/printf.c over the conversions   *)
(* of src/misc/util.c, and the copy of both in libc.                       *)
(*                                                                         *)
(* The format is taken item by item, as the loop does: a character, or a   *)
(* directive, which is a record of its flags, its width, its precision     *)
(* (-1 when it has none), its conversion and its argument.  The conversion *)
(* "char" is an item that is no directive, "end" is the format's end where *)
(* a conversion should be.  Integers have the width of WORD; doubles are   *)
(* counted in eighths, which doubles are exact for.                        *)
(*                                                                         *)
(* Numerals are built in arrays on the stack, whatever the precision asks  *)
(* for, and the buffer's size less 1 is unsigned.  strayed is set by the   *)
(* first access outside an array; what follows it is undefined and is left *)
(* out.                                                                    *)
(***************************************************************************)
EXTENDS Integers, Sequences, FiniteSets

CONSTANTS
  WORD,        \* unsigned ints are counted modulo this
  TMP,         \* size of the array for an integer, 32,
  TMP_F,       \* and for a double, 64
  Directive,
  Chars,       \* the characters between directives
  Sizes,       \* sizes of the buffer
  MaxChars,    \* bounds on the characters of a format
  MaxDirectives  \* and on its directives

\* An int, an unsigned int, a double whose whole part is an int, a character or
\* a string, by the conversion.
IsDirective(d) ==
  /\ d.left \in BOOLEAN /\ d.zero \in BOOLEAN /\ d.width \in Int /\ d.prec \in Int
  /\ d.conv \in {"d", "u", "x", "p", "f", "c", "s", "%", "l", "end"}
  /\ d.conv = "d" => d.arg \in -(WORD \div 2) .. WORD \div 2 - 1
  /\ d.conv \in {"u", "x", "p"} => d.arg \in 0 .. WORD - 1
  /\ d.conv = "f" => d.arg \in -4 * WORD + 1 .. 4 * WORD - 1
  /\ d.conv = "c" => d.arg \in STRING
  /\ d.conv = "s" => d.arg \in Seq(STRING \ {"NUL"})

Power(base, n) ==
  LET p[k \in 0 .. n] == IF k = 0 THEN 1 ELSE base * p[k - 1] IN p[n]

\* The arrays hold every number that no precision lengthens.
ASSUME FormatAssumption ==
  /\ WORD \in Nat \ {0} /\ Sizes \subseteq 0 .. WORD - 1
  /\ TMP \in Nat \ {0, 1, 2} /\ TMP_F \in Nat /\ TMP_F > TMP + 6
  /\ WORD <= Power(10, TMP - 2) /\ WORD <= Power(16, TMP - 2)
  /\ MaxChars \in Nat /\ MaxDirectives \in Nat
  /\ \A d \in Directive : IsDirective(d)
  /\ Chars \subseteq STRING \ {"NUL"}

VARIABLES
  lib,         \* whose printf it is
  size,
  text,        \* what is in the buffer
  items,       \* the items of the format so far
  strayed,     \* an access has missed its array
  done,
  out          \* what has arrived at the device then

formatVars == <<lib, size, text, items, strayed, done, out>>

Digit == <<"0", "1", "2", "3", "4", "5", "6", "7", "8", "9", "a", "b", "c", "d", "e", "f">>

Repeat(c, n) == [i \in 1 .. n |-> c]
Abs(v)       == IF v < 0 THEN -v ELSE v

------------------------------------------------------------------------------
(***************************************************************************)
(* util.c: the digits are found from the last one on.                      *)
(***************************************************************************)
DigitsOf(value, base) ==
  LET tmp[v \in 0 .. WORD - 1] ==
        IF v = 0 THEN <<>> ELSE Append(tmp[v \div base], Digit[(v % base) + 1])
  IN  tmp[value]

utoa(value, base) == IF value = 0 THEN <<"0">> ELSE DigitsOf(value, base)

\* For values that have an opposite: ftoa passes no negative one at all.
itoa(value, base) ==
  CASE value = 0                -> <<"0">>
    [] value > 0                -> DigitsOf(value, base)
    [] value < 0 /\ base = 10   -> <<"-">> \o DigitsOf(-value, base)
    [] value < 0 /\ base # 10   -> <<>>

\* The decimals are cut off, not rounded.
ftoa(value, decimals) ==
  LET frac[k \in 0 .. decimals] ==
        IF k = 0 THEN Abs(value) % 8 ELSE (frac[k - 1] * 10) % 8
  IN  (IF value < 0 THEN <<"-">> ELSE <<>>)
        \o itoa(Abs(value) \div 8, 10)
        \o (IF decimals <= 0 THEN <<>>
            ELSE <<".">> \o [k \in 1 .. decimals |-> Digit[(frac[k - 1] * 10) \div 8 + 1]])

(***************************************************************************)
(* printf.c.                                                               *)
(***************************************************************************)
\* Zeros up to the precision, behind the sign if there is one (neg is 1).
Precise(tmp, neg, precision) ==
  SubSeq(tmp, 1, neg) \o Repeat("0", precision - (Len(tmp) - neg))
    \o SubSeq(tmp, neg + 1, Len(tmp))

\* The least int is its own opposite, and is the right unsigned number then.
Decimal(val) ==
  IF val < 0 THEN <<"-">> \o utoa((-val) % WORD, 10) ELSE utoa(val, 10)

NoString == <<"NULL">>     \* the null pointer
Null     == <<"(", "n", "u", "l", "l", ")">>

Converted(d) ==
  CASE d.conv = "c" -> <<d.arg>>
    [] d.conv = "s" -> LET s == IF d.arg = NoString THEN Null ELSE d.arg IN
                       IF d.prec >= 0 /\ d.prec < Len(s) THEN SubSeq(s, 1, d.prec) ELSE s
    [] d.conv = "d" -> Precise(Decimal(d.arg), IF d.arg < 0 THEN 1 ELSE 0, d.prec)
    [] d.conv = "u" -> Precise(utoa(d.arg, 10), 0, d.prec)
    [] d.conv = "x" -> Precise(utoa(d.arg, 16), 0, d.prec)
    [] d.conv = "p" -> <<"0", "x">> \o utoa(d.arg, 16)
    [] d.conv = "f" -> ftoa(d.arg, IF d.prec >= 0 THEN d.prec ELSE 6)

\* What tmp holds, with its NUL; a character and a string need no array.
Number == {"d", "u", "x"}
Temporary(d) == CASE d.conv \in Number -> TMP
                  [] d.conv = "p" -> TMP + 2
                  [] d.conv = "f" -> TMP_F
Fits(d) == d.conv \in Number \cup {"p", "f"} => Len(Converted(d)) < Temporary(d)

zero_pad(d) == d.zero /\ ~d.left

\* A slip: the minus flag does not switch the zero flag off.
PAD_zeros(d, tmp) ==
  LET pad == Repeat(IF d.zero THEN "0" ELSE " ", d.width - Len(tmp)) IN
  IF d.left THEN tmp \o pad ELSE pad \o tmp

PAD_AND_PUT(d, tmp) ==
  LET pad == Repeat(IF zero_pad(d) THEN "0" ELSE " ", d.width - Len(tmp)) IN
  IF d.left THEN tmp \o pad ELSE pad \o tmp

\* What one item puts.  An unknown conversion puts nothing.
vsnprintf(d) ==
  CASE d.conv = "char" -> <<d.arg>>
    [] d.conv = "%"    -> <<"%">>
    [] d.conv \in {"c", "s", "d", "u", "x", "p", "f"} -> PAD_AND_PUT(d, Converted(d))
    [] OTHER -> <<>>

\* libc's stdio.c and stdlib.c hold the same functions again.
libc_vsnprintf(d) == vsnprintf(d)

\* size is a size_t: 0 less 1 is the largest one.
PUT(s) == LET room == ((size - 1) % WORD) - Len(text) IN
          text \o (IF Len(s) <= room THEN s ELSE SubSeq(s, 1, room))

(***************************************************************************)
(* A text: its items, and then what the wrappers do with the buffer.  The  *)
(* kernel's pass it on up to the first NUL, libc's write all its length.   *)
(***************************************************************************)
Directives == {i \in DOMAIN items : items[i].conv # "char"}

\* A directive without a conversion is left behind the format's NUL.
Item(d) ==
  /\ ~done /\ ~strayed
  /\ IF d.conv = "char" THEN Len(items) < MaxChars ELSE Cardinality(Directives) < MaxDirectives
  /\ text' = PUT(IF lib = "libc" THEN libc_vsnprintf(d) ELSE vsnprintf(d))
  /\ items' = Append(items, d)
  /\ strayed' = (~Fits(d) \/ d.conv = "end" \/ Len(text') > size)
  /\ UNCHANGED <<lib, size, done, out>>

\* The NUL of the text, outside the buffer when that has no byte.
Terminate ==
  /\ ~done /\ ~strayed
  /\ strayed' = (Len(text) >= size)
  /\ done' = ~strayed'
  /\ UNCHANGED <<lib, size, text, items>>

console_printf ==
  /\ lib = "kernel"
  /\ Terminate
  /\ LET nul == {i \in DOMAIN text : text[i] = "NUL"} IN
     out' = IF nul = {} THEN text
            ELSE SubSeq(text, 1, (CHOOSE i \in nul : \A j \in nul : i <= j) - 1)

libc_printf ==
  /\ lib = "libc"
  /\ Terminate
  /\ out' = text

Literal(c) == [left |-> FALSE, zero |-> FALSE, width |-> 0, prec |-> -1, conv |-> "char", arg |-> c]

FormatInit ==
  /\ lib \in {"kernel", "libc"} /\ size \in Sizes
  /\ text = <<>> /\ items = <<>> /\ out = <<>> /\ done = FALSE /\ strayed = FALSE

FormatNext ==
  \/ \E c \in Chars : Item(Literal(c))
  \/ \E d \in Directive : Item(d)
  \/ console_printf
  \/ libc_printf

------------------------------------------------------------------------------
(***************************************************************************)
(* What the C standard says of fprintf: a sign, zeros and the numeral, in  *)
(* a field of the width.  Of a numeral, the digit at a place is known by   *)
(* division.                                                               *)
(***************************************************************************)
Places(v, base) ==
  CHOOSE n \in 1 .. WORD : Power(base, n) > v /\ (n = 1 \/ Power(base, n - 1) <= v)

Numeral(v, base) ==
  LET n == Places(v, base) IN
  [i \in 1 .. n |-> Digit[((v \div Power(base, n - i)) % base) + 1]]

CSign(d) == IF d.conv \in {"d", "f"} /\ d.arg < 0 THEN <<"-">> ELSE <<>>

CDigits(d) ==
  LET s        == Numeral(Abs(d.arg), IF d.conv = "x" THEN 16 ELSE 10)
      decimals == IF d.prec < 0 THEN 6 ELSE d.prec
  IN  CASE d.conv \in Number -> Repeat("0", d.prec - Len(s)) \o s
        [] d.conv = "p" -> <<"0", "x">> \o Numeral(d.arg, 16)
        [] d.conv = "f" ->
             Numeral(Abs(d.arg) \div 8, 10)
               \o (IF decimals = 0 THEN <<>>
                   ELSE <<".">> \o [k \in 1 .. decimals |->
                          Digit[((((Abs(d.arg) % 8) * Power(10, k)) \div 8) % 10) + 1]])

CBody(d) ==
  CASE d.conv = "s" -> IF d.prec < 0 \/ Len(d.arg) < d.prec THEN d.arg
                       ELSE SubSeq(d.arg, 1, d.prec)
    [] d.conv \in {"c", "char"} -> <<d.arg>>
    [] d.conv = "%" -> <<"%">>
    [] OTHER -> CDigits(d)

CField(d) ==
  LET n == d.width - Len(CSign(d) \o CBody(d)) IN
  CASE d.left -> CSign(d) \o CBody(d) \o Repeat(" ", n)
    [] ~d.left /\ d.zero -> CSign(d) \o Repeat("0", n) \o CBody(d)
    [] ~d.left /\ ~d.zero -> Repeat(" ", n) \o CSign(d) \o CBody(d)

\* Where this printf is not the standard's, or the standard says nothing: zeros
\* are put in front of a sign and a precision does not rule them out, zero with
\* precision 0 is not empty, a negative width (from *) does not mean left,
\* decimals are cut off, a null pointer is a string, %% has no width, there is
\* no %l, and a NUL that %c puts ends the kernel's texts.
Departs(d) ==
  \/ zero_pad(d) /\ (d.conv \in {"c", "s", "p"} \/ CSign(d) # <<>>)
  \/ zero_pad(d) /\ d.conv \in Number /\ d.prec >= 0
  \/ d.conv \in Number /\ d.prec = 0 /\ d.arg = 0
  \/ d.width < 0
  \/ d.conv = "f" /\ (Abs(d.arg) * Power(10, IF d.prec < 0 THEN 6 ELSE d.prec)) % 8 # 0
  \/ d.conv = "s" /\ d.arg = NoString
  \/ d.conv = "l" \/ (d.conv = "%" /\ d.width > 0)
  \/ lib = "kernel" /\ d.conv = "c" /\ d.arg = "NUL"

Whole ==
  LET w[i \in 0 .. Len(items)] == IF i = 0 THEN <<>> ELSE w[i - 1] \o CField(items[i])
  IN  w[Len(items)]

\* What the standard has printf write but an array of its own does not hold,
\* and a format that the standard rules out.
Strays(d) ==
  \/ d.conv = "end"
  \/ d.conv \in Number /\ d.prec + Len(CSign(d)) >= TMP
  \/ d.conv = "f" /\ d.prec >= 0 /\ Len(CSign(d) \o CBody(d)) >= TMP_F

\* printf leaves its arrays only if the buffer has no byte, if a precision asks
\* for a numeral that the array for it does not hold, or if the format ends in a
\* directive.  Otherwise what it puts out is what the C standard says, cut to the
\* buffer less its NUL: also for the least int, which has no opposite, for a
\* precision that makes room behind a sign, and for a text that fills the buffer
\* in the middle of a field.
FormatsAsSpecified ==
  /\ strayed => size = 0 \/ \E i \in DOMAIN items : Strays(items[i])
  /\ done /\ (\A i \in DOMAIN items : ~Departs(items[i])) =>
       out = SubSeq(Whole, 1, IF Len(Whole) < size THEN Len(Whole) ELSE size - 1)

==============================================================================
