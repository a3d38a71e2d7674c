------------------------------- MODULE TtyLine -------------------------------
(***************************************************************************)
(* What a line-buffered terminal promises.  Characters are kept in the     *)
(* order they are typed; the erase key takes back the last one, but never  *)
(* one of a line that has been ended; a reader gets nothing before a line  *)
(* has ended, and then characters of that line only, in order.  At most    *)
(* Size characters are kept: what is typed beyond that is lost.            *)
(***************************************************************************)
EXTENDS Integers, Sequences

CONSTANTS Reader, Char, NL, Size, Lens

VARIABLES
  text,     \* what has been typed and not read
  wants,    \* how many characters a reader asks for, 0 when it does not read
  out       \* what its last read returned

vars == <<text, wants, out>>

Init ==
  /\ text = <<>>
  /\ wants = [r \in Reader |-> 0]
  /\ out = [r \in Reader |-> <<>>]

Type(c) == /\ Len(text) < Size
           /\ text' = Append(text, c)
           /\ UNCHANGED <<wants, out>>

Erase == /\ text # <<>>
         /\ text[Len(text)] # NL
         /\ text' = SubSeq(text, 1, Len(text) - 1)
         /\ UNCHANGED <<wants, out>>

Ask(r) == /\ wants[r] = 0
          /\ \E len \in Lens : wants' = [wants EXCEPT ![r] = len]
          /\ UNCHANGED <<text, out>>

\* The whole first line, or as much of it as the reader asks for, to a reader
\* that has been waiting or that asks now.
Answer(r, len) ==
  /\ wants[r] \in {0, len}
  /\ \E n \in 1..Len(text) :
       /\ n <= len
       /\ \A i \in 1..n - 1 : text[i] # NL
       /\ text[n] = NL \/ n = len
       /\ \E i \in n..Len(text) : text[i] = NL
       /\ out' = [out EXCEPT ![r] = SubSeq(text, 1, n)]
       /\ text' = SubSeq(text, n + 1, Len(text))
  /\ wants' = [wants EXCEPT ![r] = 0]

Next ==
  \/ \E c \in Char : Type(c)
  \/ Erase
  \/ \E r \in Reader : Ask(r) \/ \E len \in Lens : Answer(r, len)

Spec == Init /\ [][Next]_vars

==============================================================================
