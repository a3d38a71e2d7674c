------------------------------ MODULE VfsProofs ------------------------------
(***************************************************************************)
(* The paths, the directories and the descriptors of module Vfs, for every *)
(* archive, registry and set of paths, and for every number of processes,  *)
(* of descriptors and of file_t blocks.                                    *)
(*                                                                         *)
(* Paths are sequences that the code goes through character by character   *)
(* and name by name.  What such a loop makes of a sequence is Result of    *)
(* its step; Result of a sequence and one element more is the step from    *)
(* Result of the sequence (ResultSteps), and so what holds of every        *)
(* sequence is proved by SequenceInduction.                                *)
(***************************************************************************)
EXTENDS Vfs, SequenceTheorems, WellFoundedInduction, TLAPS

\* The least element of a set of naturals.
LEMMA MinIsLeast ==
  ASSUME NEW T, T \subseteq Nat, T # {}
  PROVE  Min(T) \in T /\ \A y \in T : Min(T) <= y
<1>1. PICK x \in T : \A y \in T : <<y, x>> \notin OpToRel(<, Nat)
  BY WFMin, NatLessThanWellFounded, Zenon
<1>2. \A y \in T : ~(y < x)
  BY <1>1 DEF OpToRel
<1>3. \E z \in T : \A y \in T : z =< y
  BY <1>2
<1> QED
  BY <1>3, Zenon DEF Min

------------------------------------------------------------------------------
(***************************************************************************)
(* Sequences that are gone through from the front.                         *)
(***************************************************************************)
\* Induction over an initial segment of the naturals, for a set.
LEMMA Segment ==
  ASSUME NEW n \in Nat, NEW S, 0 \in S, \A i \in 1 .. n : i - 1 \in S => i \in S
  PROVE  n \in S
<1> DEFINE Missing == {i \in 0 .. n : i \notin S}
<1>1. SUFFICES ASSUME Missing # {} PROVE FALSE
  OBVIOUS
<1>2. Min(Missing) \in Missing /\ \A j \in Missing : Min(Missing) <= j
  BY <1>1, MinIsLeast, Missing \subseteq Nat, Zenon
<1>3. Min(Missing) \in 1 .. n /\ Min(Missing) - 1 \notin Missing
  BY <1>2
<1> QED
  BY <1>2, <1>3

\* Induction over sequences, for a set.
LEMMA SequenceInduction ==
  ASSUME NEW S, NEW P, <<>> \in P,
         \A s \in Seq(S), e \in S : s \in P => s \o <<e>> \in P
  PROVE  Seq(S) \subseteq P
<1> SUFFICES ASSUME NEW s \in Seq(S) PROVE s \in P
  OBVIOUS
<1> DEFINE Q == {i \in 0 .. Len(s) : SubSeq(s, 1, i) \in P}
<1>1. Len(s) \in Nat
  OBVIOUS
<1>2. 0 \in Q
  <2>1. SubSeq(s, 1, 0) = <<>>
    BY SubSeqEmpty
  <2>2. SubSeq(s, 1, 0) \in P
    BY <2>1, Zenon
  <2>3. 0 \in 0 .. Len(s)
    BY <1>1
  <2> QED
    BY <2>2, <2>3, Zenon
<1>3. ASSUME NEW i \in 1 .. Len(s), i - 1 \in Q PROVE i \in Q
  <2>1. SubSeq(s, 1, i) = SubSeq(s, 1, i - 1) \o <<s[i]>>
    BY <1>1, SubSeqRecursiveSecond
  <2>2. SubSeq(s, 1, i - 1) \in Seq(S) /\ s[i] \in S
    BY <1>1
  <2>3. SubSeq(s, 1, i - 1) \in P
    BY <1>3
  <2>4. SubSeq(s, 1, i - 1) \o <<s[i]>> \in P
    BY <2>2, <2>3
  <2>5. SubSeq(s, 1, i) \in P
    BY <2>1, <2>4, Zenon
  <2>6. i \in 0 .. Len(s)
    BY <1>1
  <2> QED
    BY <2>5, <2>6, Zenon
<1> HIDE DEF Q
<1>4. Len(s) \in Q
  BY <1>1, <1>2, <1>3, Segment
<1>5. SubSeq(s, 1, Len(s)) = s
  BY SubSeqFull
<1> QED
  BY <1>4, <1>5 DEF Q

LEMMA Assoc ==
  ASSUME NEW S
  PROVE  \A s, t, u \in Seq(S) : (s \o t) \o u = s \o (t \o u)
BY ConcatAssociative

\* f[i] is what the first i elements of s make of base.
Steps(step, base, s, f) ==
  f[0] = base /\ \A i \in 1 .. Len(s) : f[i] = step[<<f[i - 1], s[i]>>]

IsStep(V, C, base, step) == base \in V /\ step \in [V \X C -> V]

Result(step, base, s) == (CHOOSE f : Steps(step, base, s, f))[Len(s)]

LEMMA StepsAgree ==
  ASSUME NEW step, NEW base, NEW s, NEW t, NEW n \in Nat, NEW f, NEW g,
         Len(s) \in Nat, Len(t) \in Nat, n <= Len(s), n <= Len(t),
         \A i \in 1 .. n : s[i] = t[i],
         Steps(step, base, s, f), Steps(step, base, t, g)
  PROVE  f[n] = g[n]
<1> DEFINE S == {i \in 0 .. n : f[i] = g[i]}
<1>1. 0 \in S
  BY DEF Steps
<1>2. ASSUME NEW i \in 1 .. n, i - 1 \in S PROVE i \in S
  <2>1. i \in 1 .. Len(s) /\ i \in 1 .. Len(t) /\ s[i] = t[i] /\ f[i - 1] = g[i - 1] /\ i \in 0 .. n
    BY <1>2
  <2> HIDE DEF S
  <2>2. f[i] = g[i]
    BY <2>1, Zenon DEF Steps
  <2> QED
    BY <2>1, <2>2 DEF S
<1> HIDE DEF S
<1>3. n \in S
  BY <1>1, <1>2, Segment
<1> QED
  BY <1>3 DEF S

LEMMA StepsExist ==
  ASSUME NEW V, NEW C, NEW base, NEW step, IsStep(V, C, base, step), NEW s \in Seq(C)
  PROVE  \E f \in [0 .. Len(s) -> V] : Steps(step, base, s, f)
<1> DEFINE n == Len(s)
           Upto(j, f) == /\ f \in [0 .. j -> V] /\ f[0] = base
                         /\ \A i \in 1 .. j : f[i] = step[<<f[i - 1], s[i]>>]
           S == {j \in 0 .. n : \E f : Upto(j, f)}
<1>1. n \in Nat /\ \A i \in 1 .. n : s[i] \in C
  OBVIOUS
<1> base \in V /\ step \in [V \X C -> V]
  BY DEF IsStep
<1> HIDE DEF n
<1>2. 0 \in S
  <2>1. Upto(0, [i \in 0 .. 0 |-> base])
    OBVIOUS
  <2> HIDE DEF Upto
  <2> QED
    BY <1>1, <2>1
<1>3. ASSUME NEW j \in 1 .. n, j - 1 \in S PROVE j \in S
  <2>1. PICK f : Upto(j - 1, f)
    BY <1>3
  <2> DEFINE v == step[<<f[j - 1], s[j]>>]
             g == [i \in 0 .. j |-> IF i = j THEN v ELSE f[i]]
  <2>2. f[j - 1] \in V /\ s[j] \in C
    BY <1>1, <2>1
  <2>3. v \in V
    BY <2>2
  <2>4. g[0] = base /\ \A i \in 0 .. j - 1 : g[i] = f[i]
    BY <2>1
  <2>5. ASSUME NEW i \in 1 .. j PROVE g[i] = step[<<g[i - 1], s[i]>>]
    <3>1. g[i - 1] = f[i - 1]
      BY <2>4
    <3>2. CASE i = j
      BY <3>1, <3>2
    <3>3. CASE i # j
      <4>1. g[i] = f[i] /\ i \in 1 .. j - 1
        BY <2>4, <3>3
      <4> QED
        BY <2>1, <3>1, <4>1
    <3> QED
      BY <3>2, <3>3
  <2>6. g \in [0 .. j -> V]
    <3> HIDE DEF v
    <3>1. \A i \in 0 .. j : i # j => f[i] \in V
      BY <2>1
    <3> QED
      BY <2>3, <3>1
  <2>7. Upto(j, g)
    <3> HIDE DEF g
    <3> QED
      BY <2>4, <2>5, <2>6
  <2> HIDE DEF Upto, g
  <2> QED
    BY <2>7
<1>4. n \in S
  <2> HIDE DEF S
  <2> QED
    BY <1>1, <1>2, <1>3, Segment
<1>5. PICK f : Upto(n, f)
  BY <1>4
<1> QED
  BY <1>5 DEF Steps, n

\* What a recursive function of these steps computes is Result.
LEMMA ResultIs ==
  ASSUME NEW step, NEW base, NEW s, Len(s) \in Nat, NEW f, Steps(step, base, s, f)
  PROVE  Result(step, base, s) = f[Len(s)]
<1> DEFINE g == CHOOSE g : Steps(step, base, s, g)
<1>1. Steps(step, base, s, g)
  BY Zenon
<1> HIDE DEF g
<1>2. g[Len(s)] = f[Len(s)]
  BY <1>1, StepsAgree
<1> QED
  BY <1>2 DEF Result, g

\* Result goes on from the elements before the last one.
LEMMA ResultSteps ==
  ASSUME NEW V, NEW C, NEW base, NEW step, IsStep(V, C, base, step)
  PROVE  /\ Result(step, base, <<>>) = base
         /\ \A s \in Seq(C) : Result(step, base, s) \in V
         /\ \A s \in Seq(C), c \in C :
              Result(step, base, s \o <<c>>) = step[<<Result(step, base, s), c>>]
<1>1. Result(step, base, <<>>) = base
  <2>1. <<>> \in Seq(C) /\ Len(<<>>) = 0
    OBVIOUS
  <2>2. PICK f \in [0 .. Len(<<>>) -> V] : Steps(step, base, <<>>, f)
    BY <2>1, StepsExist, Zenon
  <2>3. Result(step, base, <<>>) = f[0]
    BY <2>1, <2>2, ResultIs
  <2> QED
    BY <2>2, <2>3 DEF Steps
<1>2. ASSUME NEW s \in Seq(C) PROVE Result(step, base, s) \in V
  <2>1. PICK f \in [0 .. Len(s) -> V] : Steps(step, base, s, f)
    BY StepsExist, Zenon
  <2>2. Result(step, base, s) = f[Len(s)]
    BY <2>1, ResultIs, Len(s) \in Nat
  <2> QED
    BY <2>1, <2>2
<1>3. ASSUME NEW s \in Seq(C), NEW c \in C
      PROVE  Result(step, base, s \o <<c>>) = step[<<Result(step, base, s), c>>]
  <2> DEFINE t == s \o <<c>>
             n == Len(s)
  <2>1. t \in Seq(C) /\ n \in Nat /\ Len(t) = n + 1 /\ t[n + 1] = c /\ \A i \in 1 .. n : s[i] = t[i]
    OBVIOUS
  <2> HIDE DEF t
  <2>2. PICK f \in [0 .. Len(s) -> V] : Steps(step, base, s, f)
    BY StepsExist, Zenon
  <2>3. PICK g \in [0 .. Len(t) -> V] : Steps(step, base, t, g)
    BY <2>1, StepsExist, Zenon
  <2>4. n <= Len(s) /\ n <= Len(t) /\ Len(t) \in Nat /\ n + 1 \in 1 .. Len(t)
    BY <2>1
  <2>5. f[n] = g[n]
    BY <2>1, <2>2, <2>3, <2>4, StepsAgree
  <2>6. Result(step, base, s) = f[n] /\ Result(step, base, t) = g[n + 1]
    BY <2>1, <2>2, <2>3, <2>4, ResultIs
  <2>7. g[n + 1] = step[<<g[(n + 1) - 1], t[n + 1]>>]
    BY <2>3, <2>4 DEF Steps
  <2>8. (n + 1) - 1 = n
    BY <2>1
  <2>9. Result(step, base, t) = step[<<Result(step, base, s), c>>]
    BY <2>1, <2>5, <2>6, <2>7, <2>8
  <2> QED
    BY <2>9 DEF t
<1> QED
  BY <1>1, <1>2, <1>3

\* A recursive function that takes these steps.
LEMMA Recursive ==
  ASSUME NEW V, NEW C, NEW base, NEW step, IsStep(V, C, base, step),
         NEW s \in Seq(C), NEW w,
         w[0] = base,
         \A i \in 1 .. Len(s) : w[i - 1] \in V => w[i] = step[<<w[i - 1], s[i]>>]
  PROVE  /\ Steps(step, base, s, w)
         /\ Result(step, base, s) = w[Len(s)]
         /\ \A i \in 0 .. Len(s) : w[i] \in V
<1> DEFINE n == Len(s)
           S == {i \in 0 .. n : w[i] \in V}
<1>1. n \in Nat /\ \A i \in 1 .. n : s[i] \in C
  OBVIOUS
<1> base \in V /\ step \in [V \X C -> V]
  BY DEF IsStep
<1>2. ASSUME NEW m \in 0 .. n PROVE w[m] \in V
  <2>1. m \in Nat /\ 0 \in S
    BY <1>1
  <2>2. ASSUME NEW i \in 1 .. m, i - 1 \in S PROVE i \in S
    <3>1. i \in 1 .. n /\ w[i - 1] \in V /\ i \in 0 .. n
      BY <1>1, <2>2
    <3>2. w[i] = step[<<w[i - 1], s[i]>>] /\ s[i] \in C
      BY <1>1, <3>1
    <3>3. w[i] \in V
      BY <3>1, <3>2
    <3> QED
      BY <3>1, <3>3
  <2> HIDE DEF S
  <2>3. m \in S
    BY <2>1, <2>2, Segment
  <2> QED
    BY <2>3 DEF S
<1>3. Steps(step, base, s, w)
  <2>1. \A i \in 1 .. n : i - 1 \in 0 .. n
    BY <1>1
  <2> QED
    BY <1>2, <2>1 DEF Steps
<1> QED
  BY <1>1, <1>2, <1>3, ResultIs

------------------------------------------------------------------------------
(***************************************************************************)
(* The names in a path.                                                    *)
(***************************************************************************)
\* The characters of paths, with the digits of Mode; words are what is between
\* slashes.
Chr  == STRING \cup {"/", "6", "7"}
Ltr  == Chr \ {"/"}
Word == Seq(Ltr) \ {<<>>}

NameState == [names : Seq(Word), name : Seq(Ltr)]
NoNames   == [names |-> <<>>, name |-> <<>>]

NameStep ==
  [x \in NameState \X Chr |->
     IF x[2] = "/" THEN EndName(x[1])
     ELSE [names |-> x[1].names, name |-> x[1].name \o <<x[2]>>]]

State(path) == Result(NameStep, NoNames, path)

LEMMA Characters ==
  /\ Ltr \subseteq Chr /\ "/" \in Chr /\ "/" \notin Ltr /\ "6" \in Ltr /\ "7" \in Ltr
  /\ \A c \in Chr : c # "/" => c \in Ltr
  /\ SLASH \in Seq(Chr) /\ Len(SLASH) = 1 /\ SLASH[1] = "/"
  /\ Seq(Ltr) \subseteq Seq(Chr) /\ Word \subseteq Seq(Ltr)
  /\ Seq(STRING) \subseteq Seq(Chr) /\ Name \subseteq Word
  /\ \A m : Mode(m) \in Word
<1>1. /\ Ltr \subseteq Chr /\ "/" \in Chr /\ "/" \notin Ltr /\ "6" \in Ltr /\ "7" \in Ltr
      /\ \A c \in Chr : c # "/" => c \in Ltr
  BY DEF Ltr, Chr
<1>2. SLASH \in Seq(Chr) /\ Len(SLASH) = 1 /\ SLASH[1] = "/"
  BY <1>1 DEF SLASH
<1>3. Seq(Ltr) \subseteq Seq(Chr)
  BY <1>1, SeqMonotonic
<1>4. STRING \subseteq Chr /\ STRING \ {"/"} \subseteq Ltr
  BY DEF Chr, Ltr
<1>5. Seq(STRING) \subseteq Seq(Chr) /\ Seq(STRING \ {"/"}) \subseteq Seq(Ltr)
  BY <1>4, SeqMonotonic
<1>6. \A m : Mode(m) \in Word
  BY <1>1 DEF Mode, Word
<1> QED
  BY <1>1, <1>2, <1>3, <1>5, <1>6 DEF Word, Name

LEMMA EndNameIs ==
  ASSUME NEW w \in NameState
  PROVE  /\ EndName(w) \in NameState /\ EndName(w).name = <<>>
         /\ EndName(w).names = IF w.name = <<>> THEN w.names ELSE w.names \o <<w.name>>
<1>1. w.names \in Seq(Word) /\ w.name \in Seq(Ltr)
      /\ w = [names |-> w.names, name |-> w.name]
  BY DEF NameState
<1>2. CASE w.name = <<>>
  BY <1>2 DEF EndName
<1>3. CASE w.name # <<>>
  <2>1. w.name \in Word
    BY <1>1, <1>3 DEF Word
  <2>2. /\ Append(w.names, w.name) \in Seq(Word) /\ <<>> \in Seq(Ltr)
        /\ Append(w.names, w.name) = w.names \o <<w.name>>
    BY <1>1, <2>1, AppendProperties, AppendIsConcat
  <2>3. EndName(w) = [names |-> Append(w.names, w.name), name |-> <<>>]
    BY <1>3 DEF EndName
  <2> QED
    BY <1>3, <2>2, <2>3 DEF NameState
<1> QED
  BY <1>2, <1>3

\* One letter more.
Longer(w, c) == [names |-> w.names, name |-> w.name \o <<c>>]

LEMMA LongerIs ==
  ASSUME NEW w \in NameState, NEW c \in Ltr
  PROVE  Longer(w, c) \in NameState /\ Longer(w, c) = [w EXCEPT !.name = Append(@, c)]
<1>1. w.names \in Seq(Word) /\ w.name \in Seq(Ltr)
  BY DEF NameState
<1>2. w.name \o <<c>> \in Seq(Ltr) /\ Append(w.name, c) = w.name \o <<c>>
  BY <1>1, AppendIsConcat
<1> DEFINE n == Append(w.name, c)
           u == [w EXCEPT !.name = n]
<1>3. n \in Seq(Ltr)
  BY <1>2
<1> HIDE DEF n
<1>4. u \in NameState /\ u.names = w.names /\ u.name = n
  BY <1>3 DEF NameState
<1>5. u = [names |-> u.names, name |-> u.name]
  BY <1>4 DEF NameState
<1> QED
  BY <1>2, <1>4, <1>5 DEF Longer, n

LEMMA NameStepIs ==
  /\ IsStep(NameState, Chr, NoNames, NameStep)
  /\ \A w \in NameState, c \in Chr :
       NameStep[<<w, c>>] = IF c = "/" THEN EndName(w) ELSE Longer(w, c)
<1>1. \A w \in NameState, c \in Chr : (IF c = "/" THEN EndName(w) ELSE Longer(w, c)) \in NameState
  BY LongerIs, EndNameIs, Characters
<1>2. NoNames \in NameState
  BY DEF NoNames, NameState
<1>3. NameStep = [x \in NameState \X Chr |->
                    IF x[2] = "/" THEN EndName(x[1]) ELSE Longer(x[1], x[2])]
  BY DEF NameStep, Longer
<1> QED
  BY <1>1, <1>2, <1>3 DEF IsStep

LEMMA StateSteps ==
  /\ State(<<>>) = NoNames
  /\ \A p \in Seq(Chr) : State(p) \in NameState
  /\ \A p \in Seq(Chr), c \in Chr :
       State(p \o <<c>>) = IF c = "/" THEN EndName(State(p)) ELSE Longer(State(p), c)
<1>1. IsStep(NameState, Chr, NoNames, NameStep)
  BY NameStepIs
<1>2. /\ Result(NameStep, NoNames, <<>>) = NoNames
      /\ \A p \in Seq(Chr) : Result(NameStep, NoNames, p) \in NameState
      /\ \A p \in Seq(Chr), c \in Chr :
           Result(NameStep, NoNames, p \o <<c>>) = NameStep[<<Result(NameStep, NoNames, p), c>>]
  BY <1>1, ResultSteps
<1> QED
  BY ONLY <1>2, NameStepIs DEF State

\* The names of a path are what its last state holds.
LEMMA NamesIs ==
  ASSUME NEW p \in Seq(Chr)
  PROVE  Names(p) = EndName(State(p)).names /\ Names(p) \in Seq(Word)
<1> DEFINE Move(v, c) == IF c = "/" THEN EndName(v) ELSE [v EXCEPT !.name = Append(@, c)]
           n == Len(p)
           IsW(w) == w = [i \in 0 .. n |->
                            IF i = 0 THEN [names |-> <<>>, name |-> <<>>] ELSE Move(w[i - 1], p[i])]
           w == CHOOSE w : IsW(w)
<1>1. n \in Nat /\ \A i \in 1 .. n : p[i] \in Chr /\ i - 1 \in 0 .. n
  OBVIOUS
<1>2. PICK f \in [0 .. n -> NameState] : Steps(NameStep, NoNames, p, f)
  BY NameStepIs, StepsExist
<1>3. \A v \in NameState, c \in Chr : NameStep[<<v, c>>] = Move(v, c)
  BY NameStepIs, LongerIs, Characters
<1>4. f[0] = [names |-> <<>>, name |-> <<>>]
  BY <1>2 DEF Steps, NoNames
<1>5. \A i \in 1 .. n : f[i] = NameStep[<<f[i - 1], p[i]>>]
  BY <1>2 DEF Steps
<1> HIDE DEF Move, n
<1>6. IsW(f)
  <2>1. ASSUME NEW i \in 1 .. n PROVE f[i] = Move(f[i - 1], p[i])
    <3>1. f[i - 1] \in NameState /\ p[i] \in Chr
      BY <1>1, <1>2
    <3> QED
      BY <1>3, <1>5, <3>1
  <2>2. \A i \in 0 .. n :
          f[i] = IF i = 0 THEN [names |-> <<>>, name |-> <<>>] ELSE Move(f[i - 1], p[i])
    BY <1>1, <1>4, <2>1
  <2> QED
    BY <1>2, <2>2
<1>7. IsW(w)
  <2> HIDE DEF IsW
  <2> QED
    BY <1>6, Zenon
<1>8. Names(p) = EndName(w[n]).names
  BY DEF Names, Move, n
<1> HIDE DEF w
<1>9. w[0] = NoNames /\ \A i \in 1 .. n : w[i] = Move(w[i - 1], p[i])
  BY <1>1, <1>7 DEF NoNames
<1>10. \A i \in 1 .. n : w[i - 1] \in NameState => w[i] = NameStep[<<w[i - 1], p[i]>>]
  BY <1>1, <1>3, <1>9
<1>11. Result(NameStep, NoNames, p) = w[Len(p)]
  <2>1. \A i \in 1 .. Len(p) : w[i - 1] \in NameState => w[i] = NameStep[<<w[i - 1], p[i]>>]
    BY <1>10 DEF n
  <2>2. IsStep(NameState, Chr, NoNames, NameStep)
    BY NameStepIs
  <2>3. w[0] = NoNames
    BY <1>9
  <2> QED
    BY ONLY p \in Seq(Chr), <2>1, <2>2, <2>3, Recursive
<1>12. State(p) = w[n]
  BY <1>11 DEF State, n
<1>13. EndName(State(p)) \in NameState
  BY StateSteps, EndNameIs
<1> QED
  BY <1>8, <1>12, <1>13 DEF NameState

\* A slash between two paths.
LEMMA NamesApart ==
  ASSUME NEW p \in Seq(Chr), NEW q \in Seq(Chr)
  PROVE  /\ p \o SLASH \o q \in Seq(Chr)
         /\ Names(p \o SLASH \o q) = Names(p) \o Names(q)
<1> DEFINE ps == p \o SLASH
           ns == Names(p)
           Then(w) == [names |-> ns \o w.names, name |-> w.name]
           P == {r \in Seq(Chr) : State(ps \o r) = Then(State(r))}
<1>1. ps \in Seq(Chr) /\ ps = p \o <<"/">>
  BY Characters, ConcatProperties DEF SLASH
<1>2. \A r \in Seq(Chr) : State(r) \in NameState /\ ps \o r \in Seq(Chr)
  BY <1>1, StateSteps, ConcatProperties
<1>3. ns \in Seq(Word)
  BY NamesIs
<1>4. \A w \in NameState : w.names \in Seq(Word) /\ w.name \in Seq(Ltr)
                          /\ w = [names |-> w.names, name |-> w.name]
  BY DEF NameState
<1>5. ASSUME NEW w \in NameState, NEW u \in NameState, u = Then(w)
      PROVE  EndName(u) = Then(EndName(w)) /\ EndName(u).names = ns \o EndName(w).names
  <2>1. u.name = w.name /\ u.names = ns \o w.names
    BY <1>5
  <2>2. /\ EndName(u) \in NameState /\ EndName(w) \in NameState
        /\ EndName(u).name = <<>> /\ EndName(w).name = <<>>
        /\ EndName(u).names = IF u.name = <<>> THEN u.names ELSE u.names \o <<u.name>>
        /\ EndName(w).names = IF w.name = <<>> THEN w.names ELSE w.names \o <<w.name>>
    BY EndNameIs
  <2>3. EndName(u).names = ns \o EndName(w).names
    <3>1. CASE w.name = <<>>
      BY <2>1, <2>2, <3>1
    <3>2. CASE w.name # <<>>
      <4>1. w.name \in Word
        BY <1>4, <3>2 DEF Word
      <4>2. ns \in Seq(Word) /\ w.names \in Seq(Word) /\ <<w.name>> \in Seq(Word)
        BY <1>3, <1>4, <4>1
      <4> DEFINE a == w.names
                 b == <<w.name>>
      <4>3. (ns \o a) \o b = ns \o (a \o b)
        <5>1. a \in Seq(Word) /\ b \in Seq(Word)
          BY <4>2
        <5> HIDE DEF a, b
        <5> QED
          BY ONLY <4>2, <5>1, Assoc
      <4> QED
        BY <2>1, <2>2, <3>2, <4>3, Zenon
    <3> QED
      BY <3>1, <3>2
  <2>4. EndName(u) = [names |-> EndName(u).names, name |-> EndName(u).name]
    BY <1>4, <2>2
  <2> HIDE DEF ns
  <2> QED
    BY <2>2, <2>3, <2>4
<1> HIDE DEF ns, ps
<1>6. <<>> \in P
  <2>1. State(ps) = EndName(State(p))
    BY <1>1, Characters, StateSteps
  <2>2. EndName(State(p)) = [names |-> ns, name |-> <<>>]
    <3>1. EndName(State(p)) \in NameState /\ EndName(State(p)).name = <<>>
      BY <1>2, EndNameIs
    <3>2. EndName(State(p)).names = ns
      BY NamesIs DEF ns
    <3> QED
      BY <1>4, <3>1, <3>2
  <2>3. ps \o <<>> = ps /\ ns \o <<>> = ns
    BY <1>1, <1>3, ConcatEmptySeq
  <2>4. Then(NoNames) = [names |-> ns, name |-> <<>>]
    BY <2>3 DEF NoNames
  <2> HIDE DEF Then
  <2>5. State(ps \o <<>>) = Then(State(<<>>))
    BY <2>1, <2>2, <2>3, <2>4, StateSteps
  <2> QED
    BY <2>5
<1>7. ASSUME NEW r \in Seq(Chr), NEW c \in Chr, r \in P PROVE r \o <<c>> \in P
  <2> DEFINE w == State(r)
             u == State(ps \o r)
  <2>1. u = Then(w) /\ w \in NameState /\ u \in NameState
    BY <1>2, <1>7
  <2>2. ps \o (r \o <<c>>) = (ps \o r) \o <<c>> /\ r \o <<c>> \in Seq(Chr)
    <3>1. <<c>> \in Seq(Chr) /\ r \o <<c>> \in Seq(Chr)
      OBVIOUS
    <3> QED
      BY <1>1, <3>1, Assoc
  <2>3. State(ps \o (r \o <<c>>)) = Then(State(r \o <<c>>))
    <3>1. CASE c = "/"
      <4>1. State(r \o <<c>>) = EndName(w) /\ State((ps \o r) \o <<c>>) = EndName(u)
        BY <1>2, <3>1, StateSteps
      <4> HIDE DEF w, u, Then
      <4> QED
        BY <1>5, <2>1, <2>2, <4>1
    <3>2. CASE c # "/"
      <4>1. State(r \o <<c>>) = Longer(w, c) /\ State((ps \o r) \o <<c>>) = Longer(u, c)
        BY <1>2, <3>2, StateSteps
      <4> HIDE DEF w, u
      <4>2. u.names = ns \o w.names /\ u.name = w.name
        BY <2>1
      <4>3. Longer(u, c) = Then(Longer(w, c))
        BY <4>2 DEF Longer
      <4> QED
        BY <2>2, <4>1, <4>3
    <3> QED
      BY <3>1, <3>2
  <2> QED
    BY <2>2, <2>3
<1>8. State(ps \o q) = Then(State(q))
  <2>1. Seq(Chr) \subseteq P
    <3> HIDE DEF P
    <3> QED
      BY <1>6, <1>7, SequenceInduction
  <2> QED
    BY <2>1
<1>9. EndName(State(ps \o q)).names = ns \o EndName(State(q)).names
  BY <1>2, <1>5, <1>8
<1>10. Names(ps \o q) = ns \o Names(q)
  BY <1>2, <1>9, NamesIs
<1> QED
  BY <1>2, <1>10 DEF ps, ns

------------------------------------------------------------------------------
(***************************************************************************)
(* Sequences put one behind the other.                                     *)
(***************************************************************************)
Concat(T) == [x \in Seq(T) \X Seq(T) |-> x[1] \o x[2]]

\* Concatenation as a step, and what it makes of parts.
LEMMA ConcatIs ==
  ASSUME NEW T
  PROVE  /\ IsStep(Seq(T), Seq(T), <<>>, Concat(T))
         /\ \A s, t \in Seq(T) : Concat(T)[<<s, t>>] = s \o t
<1>1. \A s, t \in Seq(T) : s \o t \in Seq(T)
  BY ConcatProperties
<1>2. <<>> \in Seq(T)
  OBVIOUS
<1> QED
  BY <1>1, <1>2 DEF Concat, IsStep

LEMMA FlattenIs ==
  ASSUME NEW T, NEW s \in Seq(Seq(T))
  PROVE  FlattenSeq(s) = Result(Concat(T), <<>>, s)
<1> DEFINE n == Len(s)
           Plus(v, c) == v \o c
           IsW(w) == w = [i \in 1 .. n |-> IF i = 1 THEN s[i] ELSE Plus(w[i - 1], s[i])]
           w == CHOOSE w : IsW(w)
           r == Result(Concat(T), <<>>, s)
<1>1. n \in Nat /\ \A i \in 1 .. n : s[i] \in Seq(T)
  OBVIOUS
<1>2. IsStep(Seq(T), Seq(T), <<>>, Concat(T))
  BY ConcatIs
<1>3. PICK f \in [0 .. n -> Seq(T)] : Steps(Concat(T), <<>>, s, f)
  BY <1>2, StepsExist
<1>4. r = f[n]
  BY <1>1, <1>3, ResultIs
<1>5. \A v, c \in Seq(T) : Concat(T)[<<v, c>>] = Plus(v, c)
  BY ConcatIs
<1>6. f[0] = <<>> /\ \A i \in 1 .. n : f[i] = Concat(T)[<<f[i - 1], s[i]>>]
  BY <1>3 DEF Steps
<1>7. \A c \in Seq(T) : Plus(<<>>, c) = c
  BY ConcatEmptySeq
<1> HIDE DEF Plus, n, r
<1>8. ASSUME NEW i \in 1 .. n PROVE f[i] = Plus(f[i - 1], s[i]) /\ f[i - 1] \in Seq(T)
  <2>1. i - 1 \in 0 .. n /\ s[i] \in Seq(T)
    BY <1>1
  <2>2. f[i - 1] \in Seq(T)
    BY <1>3, <2>1
  <2> QED
    BY <1>5, <1>6, <2>1, <2>2
<1>9. IsW([i \in 1 .. n |-> f[i]])
  <2> DEFINE g == [i \in 1 .. n |-> f[i]]
  <2>1. ASSUME NEW i \in 1 .. n PROVE g[i] = IF i = 1 THEN s[i] ELSE Plus(g[i - 1], s[i])
    <3>1. CASE i = 1
      <4>1. f[i] = Plus(<<>>, s[i])
        BY <1>6, <1>8, <3>1
      <4> QED
        BY <1>1, <1>7, <3>1, <4>1
    <3>2. CASE i # 1
      BY <1>1, <1>8, <3>2
    <3> QED
      BY <3>1, <3>2
  <2> QED
    BY <2>1
<1>10. IsW(w)
  <2> HIDE DEF IsW
  <2> QED
    BY <1>9, Zenon
<1>11. FlattenSeq(s) = IF n = 0 THEN s ELSE w[n]
  BY DEF FlattenSeq, Plus, n
<1> HIDE DEF w
<1>12. CASE n = 0
  <2>1. s = <<>>
    BY <1>12 DEF n
  <2> QED
    BY <1>4, <1>6, <1>11, <1>12, <2>1 DEF r
<1>13. CASE n # 0
  <2> DEFINE S == {i \in 0 .. n : i = 0 \/ w[i] = f[i]}
  <2>1. 0 \in S
    BY <1>1
  <2>2. ASSUME NEW i \in 1 .. n, i - 1 \in S PROVE i \in S
    <3>1. w[i] = IF i = 1 THEN s[i] ELSE Plus(w[i - 1], s[i])
      BY <1>10
    <3>2. f[i] = Plus(f[i - 1], s[i]) /\ s[i] \in Seq(T)
      BY <1>1, <1>8
    <3>3. w[i] = f[i]
      <4>1. CASE i = 1
        BY <1>6, <1>7, <3>1, <3>2, <4>1
      <4>2. CASE i # 1
        BY <2>2, <3>1, <3>2, <4>2
      <4> QED
        BY <4>1, <4>2
    <3> QED
      BY <1>1, <3>3
  <2> HIDE DEF S
  <2>3. n \in S
    BY <1>1, <2>1, <2>2, Segment
  <2> QED
    BY <1>4, <1>11, <1>13, <2>3 DEF S, r
<1> QED
  BY <1>12, <1>13

LEMMA FlattenSteps ==
  ASSUME NEW T
  PROVE  /\ FlattenSeq(<<>>) = <<>>
         /\ \A s \in Seq(Seq(T)) : FlattenSeq(s) \in Seq(T)
         /\ \A s \in Seq(Seq(T)), c \in Seq(T) : FlattenSeq(s \o <<c>>) = FlattenSeq(s) \o c
<1> DEFINE r(s) == Result(Concat(T), <<>>, s)
<1>1. IsStep(Seq(T), Seq(T), <<>>, Concat(T))
  BY ConcatIs
<1>2. /\ r(<<>>) = <<>>
      /\ \A s \in Seq(Seq(T)) : r(s) \in Seq(T)
      /\ \A s \in Seq(Seq(T)), c \in Seq(T) : r(s \o <<c>>) = Concat(T)[<<r(s), c>>]
  BY <1>1, ResultSteps
<1>3. \A s \in Seq(Seq(T)) : FlattenSeq(s) = r(s)
  BY FlattenIs
<1>4. <<>> \in Seq(Seq(T)) /\ \A s \in Seq(Seq(T)), c \in Seq(T) : s \o <<c>> \in Seq(Seq(T))
  OBVIOUS
<1> HIDE DEF r
<1>5. FlattenSeq(<<>>) = <<>> /\ \A s \in Seq(Seq(T)) : FlattenSeq(s) \in Seq(T)
  BY <1>2, <1>3, <1>4
<1>6. ASSUME NEW s \in Seq(Seq(T)), NEW c \in Seq(T) PROVE FlattenSeq(s \o <<c>>) = FlattenSeq(s) \o c
  <2>1. s \o <<c>> \in Seq(Seq(T)) /\ r(s) \in Seq(T) /\ r(s \o <<c>>) = Concat(T)[<<r(s), c>>]
    BY <1>2, <1>4
  <2>2. Concat(T)[<<r(s), c>>] = r(s) \o c
    BY <2>1, ConcatIs
  <2> QED
    BY <1>3, <2>1, <2>2
<1> QED
  BY <1>5, <1>6

\* The parts, each behind a slash.
Slashed(ns) == [i \in DOMAIN ns |-> SLASH \o ns[i]]

LEMMA SlashedIs ==
  /\ Slashed(<<>>) = <<>>
  /\ \A ns \in Seq(Word) : Slashed(ns) \in Seq(Seq(Chr))
  /\ \A ns \in Seq(Word), n \in Word :
       Slashed(ns \o <<n>>) = Slashed(ns) \o <<SLASH \o n>> /\ SLASH \o n \in Seq(Chr)
<1>1. Slashed(<<>>) = <<>>
  BY DEF Slashed
<1>2. \A n \in Word : SLASH \o n \in Seq(Chr)
  BY Characters, ConcatProperties
<1>3. ASSUME NEW ns \in Seq(Word)
      PROVE  /\ Slashed(ns) \in Seq(Seq(Chr)) /\ Len(Slashed(ns)) = Len(ns)
             /\ \A i \in 1 .. Len(ns) : Slashed(ns)[i] = SLASH \o ns[i]
  <2>1. DOMAIN ns = 1 .. Len(ns) /\ Len(ns) \in Nat /\ \A i \in 1 .. Len(ns) : ns[i] \in Word
    OBVIOUS
  <2>2. \A i \in 1 .. Len(ns) : SLASH \o ns[i] \in Seq(Chr)
    BY <1>2, <2>1
  <2>3. Slashed(ns) = [i \in 1 .. Len(ns) |-> SLASH \o ns[i]]
    BY <2>1 DEF Slashed
  <2> QED
    BY <2>1, <2>2, <2>3
<1>4. ASSUME NEW ns \in Seq(Word), NEW n \in Word
      PROVE  Slashed(ns \o <<n>>) = Slashed(ns) \o <<SLASH \o n>>
  <2> DEFINE a == Slashed(ns \o <<n>>)
             b == Slashed(ns) \o <<SLASH \o n>>
             m == Len(ns)
             ms == ns \o <<n>>
  <2>1. m \in Nat /\ ms \in Seq(Word) /\ Len(ms) = m + 1 /\ ms[m + 1] = n
        /\ \A i \in 1 .. m : ms[i] = ns[i]
    OBVIOUS
  <2>2. /\ \A i \in 1 .. m : Slashed(ns)[i] = SLASH \o ns[i]
        /\ Len(Slashed(ns)) = m /\ Slashed(ns) \in Seq(Seq(Chr))
    BY <1>3
  <2>3. Slashed(ms) \in Seq(Seq(Chr)) /\ Len(Slashed(ms)) = m + 1
        /\ \A i \in 1 .. m + 1 : Slashed(ms)[i] = SLASH \o ms[i]
    <3> HIDE DEF ms
    <3> QED
      BY <1>3, <2>1
  <2> DEFINE x == SLASH \o n
  <2>4. x \in Seq(Chr)
    BY <1>2
  <2> HIDE DEF x
  <2> DEFINE bb == Slashed(ns) \o <<x>>
  <2>5. bb \in Seq(Seq(Chr)) /\ Len(bb) = m + 1 /\ bb[m + 1] = x
        /\ \A i \in 1 .. m : bb[i] = Slashed(ns)[i]
    BY <2>2, <2>4
  <2> HIDE DEF bb, ms
  <2>6. ASSUME NEW i \in 1 .. m + 1 PROVE Slashed(ms)[i] = bb[i]
    <3>1. CASE i = m + 1
      BY <2>1, <2>3, <2>5, <3>1 DEF x
    <3>2. CASE i # m + 1
      <4>1. i \in 1 .. m
        BY <2>1, <3>2
      <4>2. Slashed(ms)[i] = SLASH \o ms[i] /\ bb[i] = Slashed(ns)[i] /\ ms[i] = ns[i]
            /\ Slashed(ns)[i] = SLASH \o ns[i]
        BY <2>1, <2>2, <2>3, <2>5, <4>1
      <4> QED
        BY <4>2, Zenon
    <3> QED
      BY <3>1, <3>2
  <2>7. Slashed(ms) = bb
    BY <2>1, <2>3, <2>5, <2>6, SeqEqual
  <2> QED
    BY <2>7 DEF ms, bb, x
<1> QED
  BY <1>1, <1>2, <1>3, <1>4

LEMMA TailOfSlash ==
  ASSUME NEW y \in Seq(Chr)
  PROVE  Tail(SLASH \o y) = y
<1> DEFINE z == SLASH \o y
<1>1. /\ z \in Seq(Chr) /\ Len(z) = 1 + Len(y) /\ Len(y) \in Nat
      /\ \A i \in 1 .. 1 + Len(y) : z[i] = IF i <= 1 THEN SLASH[i] ELSE y[i - 1]
  <2>1. SLASH \in Seq(Chr) /\ Len(SLASH) = 1 /\ y \in Seq(Chr) /\ Len(y) \in Nat
    BY Characters
  <2>2. /\ z \in Seq(Chr) /\ Len(z) = Len(SLASH) + Len(y)
        /\ \A i \in 1 .. Len(SLASH) + Len(y) :
             z[i] = IF i <= Len(SLASH) THEN SLASH[i] ELSE y[i - Len(SLASH)]
    BY ONLY <2>1, ConcatProperties
  <2> HIDE DEF z
  <2> QED
    BY <2>1, <2>2
<1> HIDE DEF z
<1>2. z # <<>> /\ \A i \in 1 .. Len(y) : z[i + 1] = y[i]
  BY <1>1
<1>3. Tail(z) \in Seq(Chr) /\ Len(Tail(z)) = Len(y) /\ \A i \in 1 .. Len(y) : Tail(z)[i] = y[i]
  BY <1>1, <1>2, HeadTailProperties
<1>4. Tail(z) = y
  BY <1>3, SeqEqual
<1> QED
  BY <1>4 DEF z

\* The names of a path with slashes between them.
LEMMA JoinedIs ==
  /\ Joined(<<>>) = <<>>
  /\ \A ns \in Seq(Word) : Joined(ns) \in Seq(Chr)
  /\ \A n \in Word : Joined(<<n>>) = n
  /\ \A ns \in Seq(Word), n \in Word :
       ns # <<>> => Joined(ns \o <<n>>) = Joined(ns) \o SLASH \o n
<1> DEFINE F(ns) == FlattenSeq(Slashed(ns))
           Good(ns) == ns # <<>> => Joined(ns) \in Seq(Chr) /\ F(ns) = SLASH \o Joined(ns)
<1>1. Joined(<<>>) = <<>>
  BY DEF Joined
<1>2. \A ns : ns # <<>> => Joined(ns) = Tail(F(ns))
  BY DEF Joined, Slashed
<1>3. F(<<>>) = <<>> /\ \A ns \in Seq(Word), n \in Word : F(ns \o <<n>>) = F(ns) \o (SLASH \o n)
  BY SlashedIs, FlattenSteps
<1> HIDE DEF F
<1>4. ASSUME NEW ns \in Seq(Word), NEW n \in Word, Good(ns)
      PROVE  /\ Joined(ns \o <<n>>) = IF ns = <<>> THEN n ELSE Joined(ns) \o SLASH \o n
             /\ Good(ns \o <<n>>)
  <2> DEFINE ms == ns \o <<n>>
             j == Joined(ns)
             y == IF ns = <<>> THEN n ELSE j \o SLASH \o n
  <2>1. ms # <<>> /\ n \in Seq(Chr) /\ SLASH \in Seq(Chr)
    BY Characters
  <2>2. y \in Seq(Chr) /\ F(ms) = SLASH \o y
    <3>1. CASE ns = <<>>
      <4>1. SLASH \o n \in Seq(Chr)
        BY <2>1, ConcatProperties
      <4>2. F(ms) = <<>> \o (SLASH \o n)
        BY <1>3, <3>1
      <4>3. <<>> \o (SLASH \o n) = SLASH \o n
        BY <4>1, ConcatEmptySeq
      <4> QED
        BY <2>1, <3>1, <4>2, <4>3
    <3>2. CASE ns # <<>>
      <4>1. j \in Seq(Chr) /\ F(ms) = (SLASH \o j) \o (SLASH \o n)
        BY <1>3, <1>4, <3>2
      <4> HIDE DEF j
      <4>2. SLASH \o n \in Seq(Chr) /\ j \o SLASH \in Seq(Chr)
        BY <2>1, <4>1, ConcatProperties
      <4>3. (SLASH \o j) \o (SLASH \o n) = SLASH \o (j \o (SLASH \o n))
            /\ j \o (SLASH \o n) = (j \o SLASH) \o n
        <5> DEFINE x == SLASH \o n
        <5>1. j \o (SLASH \o n) = (j \o SLASH) \o n
          BY ONLY <2>1, <4>1, <4>2, Assoc
        <5>2. x \in Seq(Chr)
          BY <4>2
        <5> HIDE DEF x
        <5>3. (SLASH \o j) \o x = SLASH \o (j \o x)
          BY ONLY <2>1, <4>1, <5>2, Assoc
        <5> QED
          BY <5>1, <5>3 DEF x
      <4>4. (j \o SLASH) \o n \in Seq(Chr)
        BY <2>1, <4>2, ConcatProperties
      <4> QED
        BY <3>2, <4>1, <4>3, <4>4
    <3> QED
      BY <3>1, <3>2
  <2> HIDE DEF ms, y
  <2>3. Joined(ms) = y
    BY <1>2, <2>1, <2>2, TailOfSlash
  <2> QED
    BY <2>2, <2>3 DEF ms, y
<1>5. \A ns \in Seq(Word) : Good(ns)
  <2> DEFINE P == {ns \in Seq(Word) : Good(ns)}
  <2>1. <<>> \in P
    OBVIOUS
  <2>2. \A ns \in Seq(Word), n \in Word : ns \in P => ns \o <<n>> \in P
    <3> HIDE DEF Good
    <3>1. \A ns \in Seq(Word), n \in Word : ns \o <<n>> \in Seq(Word)
      OBVIOUS
    <3> QED
      BY <1>4, <3>1
  <2>3. Seq(Word) \subseteq P
    <3> HIDE DEF P
    <3> QED
      BY <2>1, <2>2, SequenceInduction
  <2> QED
    BY <2>3
<1>6. \A ns \in Seq(Word) : Joined(ns) \in Seq(Chr)
  BY <1>1, <1>5
<1>7. ASSUME NEW n \in Word PROVE Joined(<<n>>) = n
  <2>1. <<>> \in Seq(Word) /\ Good(<<>>) /\ <<>> \o <<n>> = <<n>>
    OBVIOUS
  <2> HIDE DEF Good
  <2>2. Joined(<<>> \o <<n>>) = n
    BY <1>4, <2>1
  <2> QED
    BY <2>1, <2>2
<1> HIDE DEF Good
<1>8. \A ns \in Seq(Word), n \in Word : ns # <<>> => Joined(ns \o <<n>>) = Joined(ns) \o SLASH \o n
  BY <1>4, <1>5
<1> QED
  BY <1>1, <1>6, <1>7, <1>8

\* A word is one name, and a path of words has these names.
LEMMA NamesOfWord ==
  /\ Names(<<>>) = <<>>
  /\ \A n \in Word : Names(n) = <<n>>
  /\ \A n \in Word : State(n) = [names |-> <<>>, name |-> n]
<1> DEFINE P == {n \in Seq(Ltr) : State(n) = [names |-> <<>>, name |-> n]}
<1>1. <<>> \in P
  BY StateSteps DEF NoNames
<1>2. ASSUME NEW n \in Seq(Ltr), NEW c \in Ltr, n \in P PROVE n \o <<c>> \in P
  <2>1. n \in Seq(Chr) /\ c \in Chr /\ c # "/" /\ n \o <<c>> \in Seq(Ltr)
    BY Characters
  <2>2. State(n \o <<c>>) = Longer(State(n), c)
    BY <2>1, StateSteps
  <2> QED
    BY <1>2, <2>1, <2>2 DEF Longer
<1>3. Seq(Ltr) \subseteq P
  <2> HIDE DEF P
  <2> QED
    BY <1>1, <1>2, SequenceInduction
<1>4. \A n \in Seq(Ltr) : /\ State(n) = [names |-> <<>>, name |-> n] /\ State(n) \in NameState
                         /\ Names(n) = EndName(State(n)).names
  <2>1. \A n \in Seq(Ltr) : n \in Seq(Chr)
    BY Characters
  <2> QED
    BY <1>3, <2>1, StateSteps, NamesIs
<1>5. ASSUME NEW n \in Seq(Ltr)
      PROVE  Names(n) = IF n = <<>> THEN <<>> ELSE <<>> \o <<n>>
  <2> DEFINE w == State(n)
  <2>1. w = [names |-> <<>>, name |-> n] /\ w \in NameState /\ Names(n) = EndName(w).names
    BY <1>4
  <2> HIDE DEF w
  <2>2. EndName(w).names = IF w.name = <<>> THEN w.names ELSE w.names \o <<w.name>>
    BY <2>1, EndNameIs
  <2> QED
    BY <2>1, <2>2
<1>6. <<>> \in Seq(Ltr) /\ \A n \in Word : n \in Seq(Ltr) /\ n # <<>> /\ <<>> \o <<n>> = <<n>>
  BY DEF Word
<1>7. \A n \in Word : State(n) = [names |-> <<>>, name |-> n]
  BY <1>4, <1>6
<1>8. Names(<<>>) = <<>> /\ \A n \in Word : Names(n) = <<n>>
  BY <1>5, <1>6
<1> QED
  BY ONLY <1>7, <1>8

\* Slashes around a path.
LEMMA NamesOfSlashes ==
  ASSUME NEW p \in Seq(Chr)
  PROVE  /\ SLASH \o p \in Seq(Chr) /\ Names(SLASH \o p) = Names(p)
         /\ p \o SLASH \in Seq(Chr) /\ Names(p \o SLASH) = Names(p)
<1>1. <<>> \in Seq(Chr) /\ Names(p) \in Seq(Word) /\ Names(<<>>) = <<>> /\ SLASH \in Seq(Chr)
  BY NamesIs, NamesOfWord, Characters
<1>2. <<>> \o SLASH = SLASH /\ p \o SLASH \in Seq(Chr) /\ SLASH \o p \in Seq(Chr)
  BY <1>1, ConcatEmptySeq, ConcatProperties
<1>3. Names(<<>> \o SLASH \o p) = <<>> \o Names(p)
  <2>1. PICK e \in Seq(Chr) : e = <<>>
    BY <1>1
  <2>2. Names(e \o SLASH \o p) = Names(e) \o Names(p)
    BY NamesApart
  <2> QED
    BY <1>1, <2>1, <2>2, Zenon
<1>4. Names(p \o SLASH \o <<>>) = Names(p) \o Names(<<>>)
  BY <1>1, NamesApart
<1>5. (p \o SLASH) \o <<>> = p \o SLASH /\ <<>> \o Names(p) = Names(p) /\ Names(p) \o <<>> = Names(p)
  BY <1>1, <1>2, ConcatEmptySeq
<1> QED
  BY <1>1, <1>2, <1>3, <1>4, <1>5

LEMMA NamesOfJoined == \A ns \in Seq(Word) : Names(Joined(ns)) = ns
<1> DEFINE P == {ns \in Seq(Word) : Names(Joined(ns)) = ns}
<1>1. <<>> \in P
  BY JoinedIs, NamesOfWord
<1>2. ASSUME NEW ns \in Seq(Word), NEW n \in Word, ns \in P PROVE ns \o <<n>> \in P
  <2>1. ns \o <<n>> \in Seq(Word) /\ Joined(ns) \in Seq(Chr) /\ n \in Seq(Chr) /\ Names(n) = <<n>>
    BY JoinedIs, NamesOfWord, Characters
  <2>2. Names(Joined(ns \o <<n>>)) = ns \o <<n>>
    <3>1. CASE ns = <<>>
      <4>1. ns \o <<n>> = <<n>>
        BY <3>1
      <4> QED
        BY <2>1, <4>1, JoinedIs
    <3>2. CASE ns # <<>>
      <4>1. Joined(ns \o <<n>>) = Joined(ns) \o SLASH \o n
        BY <3>2, JoinedIs
      <4>2. Names(Joined(ns) \o SLASH \o n) = Names(Joined(ns)) \o Names(n)
        BY <2>1, NamesApart
      <4> QED
        BY <1>2, <2>1, <4>1, <4>2
    <3> QED
      BY <3>1, <3>2
  <2> QED
    BY <2>1, <2>2
<1>3. Seq(Word) \subseteq P
  <2> HIDE DEF P
  <2> QED
    BY <1>1, <1>2, SequenceInduction
<1> QED
  BY <1>3

LEMMA JoinedInjective ==
  ASSUME NEW ns \in Seq(Word), NEW ms \in Seq(Word), Joined(ns) = Joined(ms)
  PROVE  ns = ms
BY NamesOfJoined

\* The last of the names.
LEMMA FrontAndLast ==
  ASSUME NEW S, NEW ns \in Seq(S), ns # <<>>
  PROVE  /\ Front(ns) \in Seq(S) /\ Last(ns) \in S /\ ns = Front(ns) \o <<Last(ns)>>
         /\ Len(ns) \in Nat \ {0} /\ Len(Front(ns)) = Len(ns) - 1
<1>1. Len(ns) \in Nat \ {0} /\ ns[Len(ns)] \in S
  OBVIOUS
<1>2. SubSeq(ns, 1, Len(ns)) = SubSeq(ns, 1, Len(ns) - 1) \o <<ns[Len(ns)]>>
  BY <1>1, SubSeqRecursiveSecond
<1>3. SubSeq(ns, 1, Len(ns)) = ns
  BY SubSeqFull
<1>4. Front(ns) \in Seq(S) /\ Len(Front(ns)) = Len(ns) - 1
  <2> DEFINE m == Len(ns) - 1
  <2>1. m \in Nat /\ \A i \in 1 .. m : ns[i] \in S
    BY <1>1
  <2> HIDE DEF m
  <2>2. SubSeq(ns, 1, m) \in Seq(S) /\ Len(SubSeq(ns, 1, m)) = m
    BY <2>1
  <2> QED
    BY <2>2 DEF Front, m
<1> QED
  BY <1>1, <1>2, <1>3, <1>4 DEF Front, Last

LEMMA FrontOfLonger ==
  ASSUME NEW S, NEW ns \in Seq(S), NEW n \in S
  PROVE  Front(ns \o <<n>>) = ns /\ Last(ns \o <<n>>) = n /\ ns \o <<n>> # <<>>
<1> DEFINE m == Len(ns)
           ms == ns \o <<n>>
<1>1. m \in Nat /\ ms \in Seq(S) /\ Len(ms) = m + 1 /\ ms[m + 1] = n /\ \A i \in 1 .. m : ms[i] = ns[i]
  OBVIOUS
<1> HIDE DEF ms
<1>2. SubSeq(ms, 1, m) \in Seq(S) /\ Len(SubSeq(ms, 1, m)) = m
      /\ \A i \in 1 .. m : SubSeq(ms, 1, m)[i] = ns[i]
  BY <1>1
<1>3. SubSeq(ms, 1, m) = ns
  BY <1>2, SeqEqual
<1>4. Len(ms) - 1 = m /\ ms # <<>>
  BY <1>1
<1> QED
  BY <1>1, <1>3, <1>4 DEF Front, Last, ms

\* No path of words ends with a slash.
LEMMA JoinedEnds ==
  ASSUME NEW ns \in Seq(Word), ns # <<>>
  PROVE  Joined(ns) \in Seq(Chr) /\ Joined(ns) # <<>> /\ Last(Joined(ns)) # "/"
<1> DEFINE a == Front(ns)
           n == Last(ns)
<1>1. a \in Seq(Word) /\ n \in Word /\ ns = a \o <<n>>
  BY FrontAndLast
<1> HIDE DEF a, n
<1>2. n \in Seq(Chr) /\ Len(n) \in Nat \ {0} /\ n[Len(n)] \in Ltr /\ n[Len(n)] # "/"
  BY <1>1, Characters DEF Word
<1>3. PICK x \in Seq(Chr) : Joined(ns) = x \o n
  <2>1. CASE a = <<>>
    <3>1. ns = <<n>> /\ <<>> \in Seq(Chr) /\ <<>> \o n = n
      BY <1>1, <1>2, <2>1
    <3>2. Joined(ns) = <<>> \o n
      BY <1>1, <3>1, JoinedIs
    <3> QED
      BY <3>1, <3>2
  <2>2. CASE a # <<>>
    <3>1. Joined(ns) = (Joined(a) \o SLASH) \o n
      BY <1>1, <2>2, JoinedIs
    <3>2. Joined(a) \o SLASH \in Seq(Chr)
      BY <1>1, JoinedIs, NamesOfSlashes
    <3> QED
      BY <3>1, <3>2
  <2> QED
    BY <2>1, <2>2
<1> DEFINE y == x \o n
<1>4. y \in Seq(Chr) /\ Len(y) = Len(x) + Len(n) /\ y[Len(x) + Len(n)] = n[Len(n)] /\ Len(x) \in Nat
  BY <1>2
<1> HIDE DEF y
<1>5. y # <<>> /\ Last(y) # "/"
  BY <1>2, <1>4 DEF Last
<1> QED
  BY <1>3, <1>4, <1>5 DEF y

\* Joined names are no longer than the path they are from.
LEMMA JoinedIsShorter ==
  ASSUME NEW p \in Seq(Chr)
  PROVE  Len(Joined(Names(p))) <= Len(p)
<1> DEFINE J(ns) == Len(Joined(ns))
           One(ns) == IF ns = <<>> THEN 0 ELSE 1
           P == {q \in Seq(Chr) :
                   J(State(q).names) + One(State(q).names) + Len(State(q).name) <= Len(q)}
<1>1. \A ns \in Seq(Word) : J(ns) \in Nat /\ One(ns) \in Nat
  BY JoinedIs
<1>2. J(<<>>) = 0 /\ One(<<>>) = 0
  BY JoinedIs
<1>3. ASSUME NEW ns \in Seq(Word), NEW n \in Word
      PROVE  J(ns \o <<n>>) = J(ns) + One(ns) + Len(n) /\ One(ns \o <<n>>) = 1
  <2>1. n \in Seq(Chr) /\ Joined(ns) \in Seq(Chr) /\ ns \o <<n>> # <<>>
    BY Characters, JoinedIs
  <2>2. CASE ns = <<>>
    <3>1. ns \o <<n>> = <<n>> /\ Joined(<<n>>) = n
      BY <2>2, JoinedIs
    <3> QED
      BY <1>2, <2>1, <2>2, <3>1
  <2>3. CASE ns # <<>>
    <3> DEFINE j == Joined(ns)
    <3>1. Joined(ns \o <<n>>) = (j \o SLASH) \o n
      BY <2>3, JoinedIs
    <3>2. j \in Seq(Chr) /\ SLASH \in Seq(Chr) /\ Len(SLASH) = 1
      BY <2>1, Characters
    <3> HIDE DEF j
    <3>3. j \o SLASH \in Seq(Chr) /\ Len(j \o SLASH) = Len(j) + 1
      <4>1. j \o SLASH \in Seq(Chr) /\ Len(j \o SLASH) = Len(j) + Len(SLASH)
        BY ONLY <3>2, ConcatProperties
      <4> QED
        BY <3>2, <4>1
    <3>4. Len((j \o SLASH) \o n) = Len(j) + 1 + Len(n)
      BY <2>1, <3>3, ConcatProperties
    <3> QED
      BY <2>1, <2>3, <3>1, <3>4 DEF j
  <2> QED
    BY <2>2, <2>3
<1> HIDE DEF J, One
<1>4. ASSUME NEW w \in NameState
      PROVE  /\ w.names \in Seq(Word) /\ w.name \in Seq(Ltr) /\ Len(w.name) \in Nat
             /\ J(EndName(w).names) <= J(w.names) + One(w.names) + Len(w.name)
             /\ J(EndName(w).names) + One(EndName(w).names) + Len(EndName(w).name)
                  <= J(w.names) + One(w.names) + Len(w.name) + 1
  <2>1. w.names \in Seq(Word) /\ w.name \in Seq(Ltr) /\ Len(w.name) \in Nat
    BY DEF NameState
  <2>2. /\ EndName(w).name = <<>>
        /\ EndName(w).names = IF w.name = <<>> THEN w.names ELSE w.names \o <<w.name>>
    BY EndNameIs
  <2>3. CASE w.name = <<>>
    BY <1>1, <2>1, <2>2, <2>3
  <2>4. CASE w.name # <<>>
    <3>1. w.name \in Word
      BY <2>1, <2>4 DEF Word
    <3>2. J(w.names \o <<w.name>>) = J(w.names) + One(w.names) + Len(w.name)
          /\ One(w.names \o <<w.name>>) = 1
      BY <1>3, <2>1, <3>1
    <3>3. EndName(w).names = w.names \o <<w.name>> /\ Len(EndName(w).name) = 0
      BY <2>2, <2>4
    <3>4. J(w.names) \in Nat /\ One(w.names) \in Nat
      BY <1>1, <2>1
    <3> QED
      BY <2>1, <3>2, <3>3, <3>4
  <2> QED
    BY <2>3, <2>4
<1>5. <<>> \in P
  BY <1>2, StateSteps DEF NoNames
<1>6. ASSUME NEW q \in Seq(Chr), NEW c \in Chr, q \in P PROVE q \o <<c>> \in P
  <2> DEFINE w == State(q)
             v == State(q \o <<c>>)
  <2>1. w \in NameState /\ J(w.names) + One(w.names) + Len(w.name) <= Len(q)
    BY <1>6, StateSteps
  <2>2. q \o <<c>> \in Seq(Chr) /\ Len(q \o <<c>>) = Len(q) + 1 /\ Len(q) \in Nat
    OBVIOUS
  <2>3. v = IF c = "/" THEN EndName(w) ELSE Longer(w, c)
    BY StateSteps
  <2> HIDE DEF w, v
  <2>4. w.names \in Seq(Word) /\ w.name \in Seq(Ltr) /\ J(w.names) \in Nat /\ One(w.names) \in Nat
    BY <1>1, <1>4, <2>1
  <2>5. J(v.names) + One(v.names) + Len(v.name) <= Len(q) + 1
    <3>1. CASE c = "/"
      <4>1. J(EndName(w).names) + One(EndName(w).names) + Len(EndName(w).name)
              <= J(w.names) + One(w.names) + Len(w.name) + 1
        <5>1. w \in NameState
          BY <2>1
        <5> QED
          BY ONLY <1>4, <5>1
      <4>2. v = EndName(w) /\ EndName(w) \in NameState /\ Len(w.name) \in Nat
        <5>1. v = EndName(w)
          BY ONLY <2>3, <3>1
        <5>2. w \in NameState
          BY <2>1
        <5>3. EndName(w) \in NameState /\ Len(w.name) \in Nat
          BY ONLY <1>4, <5>2, EndNameIs
        <5> QED
          BY <5>1, <5>3
      <4>3. J(v.names) \in Nat /\ One(v.names) \in Nat /\ Len(v.name) \in Nat
        BY <1>1, <1>4, <4>2
      <4> QED
        BY <2>1, <2>2, <2>4, <4>1, <4>2, <4>3
    <3>2. CASE c # "/"
      <4>1. v.names = w.names /\ v.name = w.name \o <<c>>
        BY <2>3, <3>2 DEF Longer
      <4>2. Len(w.name \o <<c>>) = Len(w.name) + 1 /\ Len(w.name) \in Nat
        <5>1. c \in Ltr
          BY <3>2, Characters
        <5> QED
          BY <2>4, <5>1
      <4> QED
        BY <2>1, <2>2, <2>4, <4>1, <4>2
    <3> QED
      BY <3>1, <3>2
  <2> QED
    BY <2>2, <2>5 DEF v
<1>7. Seq(Chr) \subseteq P
  <2> HIDE DEF P
  <2> QED
    BY <1>5, <1>6, SequenceInduction
<1>8. State(p) \in NameState /\ Names(p) = EndName(State(p)).names /\ Names(p) \in Seq(Word)
  BY StateSteps, NamesIs
<1>9. J(Names(p)) <= Len(p)
  <2> DEFINE w == State(p)
  <2>1. J(w.names) + One(w.names) + Len(w.name) <= Len(p)
    BY <1>7
  <2>2. J(Names(p)) <= J(w.names) + One(w.names) + Len(w.name)
    BY <1>4, <1>8
  <2>3. J(w.names) \in Nat /\ One(w.names) \in Nat /\ Len(w.name) \in Nat /\ J(Names(p)) \in Nat
        /\ Len(p) \in Nat
    BY <1>1, <1>4, <1>8
  <2> HIDE DEF w
  <2> QED
    BY <2>1, <2>2, <2>3
<1> QED
  BY <1>9 DEF J

------------------------------------------------------------------------------
(***************************************************************************)
(* The headers: what tar writes is what the scan reads.                    *)
(***************************************************************************)
LEMMA ArchiveConstants ==
  /\ BLOCK \in Nat \ {0} /\ NAME_SIZE \in Nat \ {0} /\ DIGITS \in Nat \ {0}
  /\ MAX_NAME \in Nat \ {0, 1}
BY UstarAssumption

LEMMA WithoutIs ==
  ASSUME NEW n \in Nat
  PROVE  /\ Without(n)[0] = n
         /\ \A k \in 1 .. DIGITS : Without(n)[k] = Without(n)[k - 1] \div 8
         /\ \A k \in 0 .. DIGITS : Without(n)[k] \in Nat
<1> DEFINE IsW(w) == w = [k \in 0 .. DIGITS |-> IF k = 0 THEN n ELSE w[k - 1] \div 8]
           w == CHOOSE w : IsW(w)
           s == [k \in 1 .. DIGITS |-> 0]
           step == [x \in Nat \X {0} |-> x[1] \div 8]
<1>1. DIGITS \in Nat
  BY ArchiveConstants
<1>2. s \in Seq({0}) /\ Len(s) = DIGITS /\ \A k \in 1 .. DIGITS : s[k] = 0
  BY <1>1
<1>3. IsStep(Nat, {0}, n, step) /\ \A v \in Nat : step[<<v, 0>>] = v \div 8
  <2>1. \A v \in Nat : v \div 8 \in Nat
    OBVIOUS
  <2> QED
    BY <2>1 DEF IsStep
<1> HIDE DEF s, step
<1>4. PICK f \in [0 .. DIGITS -> Nat] : Steps(step, n, s, f)
  <2>1. \E f \in [0 .. Len(s) -> Nat] : Steps(step, n, s, f)
    BY <1>2, <1>3, StepsExist
  <2> QED
    BY <1>2, <2>1
<1>5. IsW(f)
  <2>1. f[0] = n /\ \A k \in 1 .. DIGITS : f[k] = step[<<f[k - 1], s[k]>>]
    BY <1>2, <1>4 DEF Steps
  <2>2. ASSUME NEW k \in 1 .. DIGITS PROVE f[k] = f[k - 1] \div 8
    <3>1. f[k - 1] \in Nat /\ s[k] = 0
      BY <1>1, <1>2, <1>4
    <3> QED
      BY <1>3, <2>1, <3>1
  <2> QED
    BY <1>1, <1>4, <2>1, <2>2
<1>6. IsW(w)
  <2> HIDE DEF IsW
  <2> QED
    BY <1>5, Zenon
<1>7. Without(n) = w
  BY DEF Without
<1> HIDE DEF w
<1>8. w[0] = n /\ \A k \in 1 .. DIGITS : w[k] = w[k - 1] \div 8
  BY <1>1, <1>6
<1>9. \A k \in 0 .. DIGITS : w[k] \in Nat
  <2> SUFFICES ASSUME NEW k \in 0 .. DIGITS PROVE w[k] \in Nat
    OBVIOUS
  <2> DEFINE S == {i \in 0 .. k : w[i] \in Nat}
  <2>1. k \in Nat /\ 0 \in S
    BY <1>1, <1>8
  <2>2. \A i \in 1 .. k : i - 1 \in S => i \in S
    BY <1>1, <1>8
  <2> HIDE DEF S
  <2>3. k \in S
    BY <2>1, <2>2, Segment
  <2> QED
    BY <2>3 DEF S
<1> QED
  BY <1>7, <1>8, <1>9

\* A size that fits its field is read as it was written.
LEMMA OctalIsRead ==
  ASSUME NEW n \in Nat, Without(n)[DIGITS] = 0
  PROVE  oct2int(Octal(n)) = n
<1> DEFINE D == DIGITS
           w == Without(n)
           field == Octal(n)
           More(v, i) == IF \E j \in 1 .. i : field[j] \notin 0 .. 7 THEN v ELSE v * 8 + field[i]
           IsVal(v) == v = [i \in 0 .. Len(field) |-> IF i = 0 THEN 0 ELSE More(v[i - 1], i)]
           val == CHOOSE v : IsVal(v)
           f == [i \in 0 .. D + 1 |-> IF i = D + 1 THEN n ELSE w[D - i]]
<1>1. D \in Nat \ {0}
  BY ArchiveConstants
<1>2. w[0] = n /\ w[D] = 0 /\ (\A k \in 1 .. D : w[k] = w[k - 1] \div 8)
      /\ (\A k \in 0 .. D : w[k] \in Nat)
  BY WithoutIs
<1> HIDE DEF w, D
<1>3. Len(field) = D + 1 /\ field[D + 1] = -1 /\ \A i \in 1 .. D : field[i] = w[D - i] % 8
  BY <1>1 DEF Octal, w, D
<1>4. \A i \in 1 .. D : field[i] \in 0 .. 7
  <2> SUFFICES ASSUME NEW i \in 1 .. D PROVE field[i] \in 0 .. 7
    OBVIOUS
  <2>1. w[D - i] \in Nat
    BY <1>1, <1>2
  <2> QED
    BY <1>3, <2>1
<1> HIDE DEF field
<1>5. \A v : \A i \in 1 .. D : More(v, i) = v * 8 + field[i]
  BY <1>1, <1>4
<1>6. \A v : More(v, D + 1) = v
  <2>1. D + 1 \in 1 .. D + 1 /\ field[D + 1] \notin 0 .. 7
    BY <1>1, <1>3
  <2> QED
    BY <2>1
<1> HIDE DEF More
<1>7. \A i \in 1 .. D : w[D - i] = w[D - (i - 1)] * 8 + field[i]
  <2> SUFFICES ASSUME NEW i \in 1 .. D PROVE w[D - i] = w[D - (i - 1)] * 8 + field[i]
    OBVIOUS
  <2> DEFINE k == D - (i - 1)
  <2>1. k \in 1 .. D /\ k - 1 = D - i /\ k - 1 \in 0 .. D
    BY <1>1
  <2>2. w[k] = w[k - 1] \div 8 /\ w[k - 1] \in Nat /\ field[i] = w[k - 1] % 8
    BY <1>2, <1>3, <2>1
  <2> HIDE DEF k
  <2>3. w[k - 1] = w[k] * 8 + field[i]
    BY <2>2
  <2> QED
    BY <2>1, <2>3 DEF k
<1>8. IsVal(f)
  <2>1. f[0] = 0
    BY <1>1, <1>2
  <2>2. ASSUME NEW i \in 1 .. D + 1 PROVE f[i] = More(f[i - 1], i)
    <3>1. CASE i = D + 1
      <4>1. f[i - 1] = n /\ f[i] = n
        BY <1>1, <1>2, <3>1
      <4> QED
        BY <1>6, <3>1, <4>1
    <3>2. CASE i # D + 1
      <4>1. i \in 1 .. D /\ f[i] = w[D - i] /\ f[i - 1] = w[D - (i - 1)]
        BY <1>1, <3>2
      <4> QED
        BY <1>5, <1>7, <4>1
    <3> QED
      BY <3>1, <3>2
  <2>3. f = [i \in 0 .. D + 1 |-> f[i]]
    OBVIOUS
  <2> HIDE DEF f
  <2>4. \A i \in 0 .. D + 1 : f[i] = IF i = 0 THEN 0 ELSE More(f[i - 1], i)
    BY <1>1, <2>1, <2>2
  <2> QED
    BY <1>3, <2>3, <2>4
<1>9. IsVal(val)
  <2> HIDE DEF IsVal, f
  <2> QED
    BY <1>8, Zenon
<1>10. oct2int(field) = val[Len(field)]
  BY DEF oct2int, More
<1> HIDE DEF val
<1>11. val[0] = 0 /\ \A i \in 1 .. D + 1 : val[i] = More(val[i - 1], i)
  BY <1>1, <1>3, <1>9
<1>12. val[D] = w[0]
  <2> DEFINE S == {i \in 0 .. D : val[i] = w[D - i]}
  <2>1. 0 \in S
    BY <1>1, <1>2, <1>11
  <2>2. ASSUME NEW i \in 1 .. D, i - 1 \in S PROVE i \in S
    <3>1. val[i] = val[i - 1] * 8 + field[i] /\ val[i - 1] = w[D - (i - 1)]
      BY <1>1, <1>5, <1>11, <2>2
    <3> QED
      BY <1>1, <1>7, <3>1
  <2> HIDE DEF S
  <2>3. D \in S
    BY <1>1, <2>1, <2>2, Segment
  <2> QED
    BY <1>1, <2>3 DEF S
<1>13. val[D + 1] = val[D]
  BY <1>1, <1>6, <1>11
<1> QED
  BY <1>2, <1>3, <1>10, <1>12, <1>13 DEF field

\* A directory's slash is taken off, and nothing else.
LEMMA Stripped ==
  ASSUME NEW m, m.names \in Seq(Word), m.names # <<>>
  PROVE  /\ PathOf(m) \in Seq(Chr) /\ StripSlash(PathOf(m)) = Joined(m.names)
         /\ PathOf(m) = IF m.dir THEN Joined(m.names) \o SLASH ELSE Joined(m.names)
<1> DEFINE j == Joined(m.names)
           p == PathOf(m)
<1>1. j \in Seq(Chr) /\ j # <<>> /\ Last(j) # "/"
  BY JoinedEnds
<1> HIDE DEF j
<1>2. CASE m.dir
  <2>1. p = j \o <<"/">>
    BY <1>2 DEF PathOf, SLASH, j
  <2>2. "/" \in Chr
    BY Characters
  <2>3. Front(j \o <<"/">>) = j /\ Last(j \o <<"/">>) = "/" /\ j \o <<"/">> \in Seq(Chr)
    BY <1>1, <2>2, FrontOfLonger
  <2>4. Len(j \o <<"/">>) > 1
    BY <1>1, <2>2
  <2> QED
    BY <1>2, <2>1, <2>3, <2>4 DEF StripSlash, SLASH, j
<1>3. CASE ~m.dir
  <2>1. p = j \o <<>>
    BY <1>3 DEF PathOf, j
  <2>2. p = j
    BY <1>1, <2>1, ConcatEmptySeq
  <2> QED
    BY <1>1, <1>3, <2>2 DEF StripSlash, j
<1> QED
  BY <1>2, <1>3

\* A name that fills its field goes by one that ends with a digit of the mode.
LEMMA ModeIsName ==
  ASSUME NEW m, m.names \in Seq(Word), m.names # <<>>
  PROVE  LET q == PathOf(m) \o Mode(m) IN
         /\ q \in Seq(Chr) /\ StripSlash(q) = q
         /\ Names(q) # <<>> /\ Joined(Names(q)) = q
<1> DEFINE j == Joined(m.names)
           p == PathOf(m)
           d == Mode(m)
           q == p \o d
           c == IF m.dir THEN "7" ELSE "6"
<1>1. j \in Seq(Chr) /\ p \in Seq(Chr) /\ p = IF m.dir THEN j \o SLASH ELSE j
  BY JoinedIs, Stripped
<1>2. d = <<c>> /\ c \in Ltr /\ c \in Chr /\ c # "/" /\ d \in Word /\ d \in Seq(Chr)
  BY Characters DEF Mode
<1> HIDE DEF d, c
<1>3. q \in Seq(Chr) /\ StripSlash(q) = q
  <2>1. p \in Seq(Chr) /\ c \in Chr
    BY <1>1, <1>2
  <2> HIDE DEF p
  <2>2. Last(p \o <<c>>) = c /\ p \o <<c>> \in Seq(Chr)
    BY <2>1, FrontOfLonger
  <2> QED
    BY <1>2, <2>2 DEF StripSlash
<1>4. PICK ns \in Seq(Word) : ns # <<>> /\ q = Joined(ns)
  <2>1. CASE m.dir
    <3> DEFINE ns == m.names \o <<d>>
    <3>1. ns \in Seq(Word) /\ ns # <<>>
      BY <1>2
    <3>2. Joined(ns) = Joined(m.names) \o SLASH \o d
      BY <1>2, JoinedIs
    <3> HIDE DEF ns
    <3>3. q = Joined(ns)
      BY <1>1, <2>1, <3>2
    <3> QED
      BY <3>1, <3>3
  <2>2. CASE ~m.dir
    <3> DEFINE a == Front(m.names)
               l == Last(m.names)
               e == l \o <<c>>
               ns == a \o <<e>>
    <3>1. a \in Seq(Word) /\ l \in Word /\ m.names = a \o <<l>>
      BY FrontAndLast
    <3>2. l \in Seq(Ltr) /\ l \in Seq(Chr)
      BY <3>1, Characters
    <3> HIDE DEF a, l
    <3>3. e \in Word
      <4>1. e \in Seq(Ltr) /\ e # <<>>
        BY <1>2, <3>2
      <4> QED
        BY <4>1 DEF Word
    <3>4. ns \in Seq(Word) /\ ns # <<>>
      <4> HIDE DEF e
      <4> QED
        BY <3>1, <3>3
    <3>5. q = Joined(ns)
      <4>1. q = j \o <<c>>
        BY <1>1, <1>2, <2>2
      <4>2. CASE a = <<>>
        <5>1. m.names = <<l>> /\ ns = <<e>>
          BY <3>1, <4>2
        <5>2. Joined(<<l>>) = l /\ Joined(<<e>>) = e
          BY <3>1, <3>3, JoinedIs
        <5> QED
          BY <4>1, <5>1, <5>2
      <4>3. CASE a # <<>>
        <5> DEFINE b == Joined(a) \o SLASH
        <5>1. Joined(a \o <<l>>) = Joined(a) \o SLASH \o l /\ Joined(ns) = Joined(a) \o SLASH \o e
          <6> HIDE DEF e
          <6> QED
            BY <3>1, <3>3, <4>3, JoinedIs
        <5>2. b \in Seq(Chr) /\ <<c>> \in Seq(Chr)
          BY <1>2, <3>1, JoinedIs, NamesOfSlashes
        <5> HIDE DEF b
        <5>3. (b \o l) \o <<c>> = b \o (l \o <<c>>)
          BY ONLY <3>2, <5>2, Assoc
        <5> QED
          BY <3>1, <4>1, <5>1, <5>3 DEF b
      <4> QED
        BY <4>2, <4>3
    <3> HIDE DEF ns
    <3> QED
      BY <3>4, <3>5
  <2> QED
    BY <2>1, <2>2
<1>5. Names(q) = ns
  BY <1>4, NamesOfJoined
<1> QED
  BY <1>3, <1>4, <1>5 DEF d

\* The path that is put together from a header is the one that is shown.
LEMMA FullPath ==
  ASSUME NEW m, m.names \in Seq(Word), m.names # <<>>,
         Len(PathOf(m)) > NAME_SIZE => Splits(PathOf(m)) # {}
  PROVE  /\ Shown(m) \in Seq(Word) /\ Shown(m) # <<>>
         /\ fullpath(HeaderOf(m)) = Joined(Shown(m))
<1> DEFINE p == PathOf(m)
           s == SplitAt(p)
           h == HeaderOf(m)
           q == p \o Mode(m)
<1>1. p \in Seq(Chr) /\ StripSlash(p) = Joined(m.names) /\ Len(p) \in Nat
  BY Stripped
<1>2. NAME_SIZE \in Nat
  BY ArchiveConstants
<1>3. /\ h.prefix = SubSeq(p, 1, s - 1) /\ h.name = SubSeq(p, s + 1, Len(p)) /\ h.mode = Mode(m)
  BY DEF HeaderOf, Header
<1>4. Shown(m) = IF Len(p) = NAME_SIZE THEN Names(q) ELSE m.names
  BY DEF Shown
<1>5. q \in Seq(Chr) /\ StripSlash(q) = q /\ Names(q) # <<>> /\ Joined(Names(q)) = q
      /\ Names(q) \in Seq(Word)
  BY ModeIsName, NamesIs
<1> DEFINE full == IF h.prefix # <<>> THEN h.prefix \o SLASH \o h.name
                   ELSE IF Len(h.name) < NAME_SIZE THEN h.name
                   ELSE h.name \o h.mode
<1>6. fullpath(h) = StripSlash(full)
  BY DEF fullpath
<1> HIDE DEF h, q
<1>7. CASE Len(p) <= NAME_SIZE
  <2>1. s = 0
    BY <1>7 DEF SplitAt
  <2>2. SubSeq(p, 1, s - 1) = <<>> /\ SubSeq(p, s + 1, Len(p)) = p
    <3>1. SubSeq(p, 1, -1) = <<>>
      BY SubSeqEmpty
    <3>2. SubSeq(p, 1, Len(p)) = p
      BY <1>1, SubSeqFull
    <3>3. s - 1 = -1 /\ s + 1 = 1
      BY <2>1
    <3> HIDE DEF s, p
    <3> QED
      BY <3>1, <3>2, <3>3
  <2>3. full = IF Len(p) < NAME_SIZE THEN p ELSE q
    BY <1>3, <2>2 DEF q
  <2> HIDE DEF full, p
  <2> QED
    BY <1>1, <1>2, <1>4, <1>5, <1>6, <1>7, <2>3 DEF h
<1>8. CASE Len(p) > NAME_SIZE
  <2>1. s \in Splits(p)
    <3>1. Splits(p) \subseteq Nat /\ Splits(p) # {}
      BY <1>1, <1>8 DEF Splits
    <3>2. s = Min(Splits(p))
      BY <1>1, <1>2, <1>8 DEF SplitAt
    <3> QED
      BY <3>1, <3>2, MinIsLeast, Zenon
  <2>2. s \in 2 .. Len(p) - 1 /\ p[s] = "/" /\ s \in Nat
    BY <1>1, <2>1 DEF Splits
  <2> HIDE DEF s, p
  <2> DEFINE a == SubSeq(p, 1, s - 1)
             b == SubSeq(p, s + 1, Len(p))
  <2>3. a \in Seq(Chr) /\ a # <<>> /\ a \o SLASH \o b = p
    <3>1. SubSeq(p, 1, s) \o SubSeq(p, s + 1, Len(p)) = SubSeq(p, 1, Len(p))
      BY <1>1, <2>2, ConcatAdjacentSubSeq
    <3>2. SubSeq(p, 1, s) = SubSeq(p, 1, s - 1) \o <<p[s]>>
      BY <1>1, <2>2, SubSeqRecursiveSecond
    <3>3. SubSeq(p, 1, Len(p)) = p
      BY <1>1, SubSeqFull
    <3>4. a \in Seq(Chr) /\ Len(a) = s - 1
      <4> DEFINE t == s - 1
      <4>1. t \in 1 .. Len(p)
        BY <1>1, <2>2
      <4> HIDE DEF t
      <4>2. SubSeq(p, 1, t) \in Seq(Chr) /\ Len(SubSeq(p, 1, t)) = t
        BY <1>1, <4>1
      <4> QED
        BY <4>2 DEF t
    <3>5. a # <<>>
      BY <2>2, <3>4
    <3> QED
      BY <2>2, <3>1, <3>2, <3>3, <3>4, <3>5 DEF SLASH
  <2>4. full = p
    BY <1>3, <2>3
  <2>5. Shown(m) = m.names
    BY <1>1, <1>2, <1>4, <1>8
  <2> QED
    BY <1>1, <1>6, <2>4, <2>5 DEF h
<1> QED
  BY <1>1, <1>2, <1>7, <1>8

------------------------------------------------------------------------------
(***************************************************************************)
(* The scan finds every member, in order.                                  *)
(***************************************************************************)
LEMMA Members ==
  /\ Len(Member) \in Nat /\ DOMAIN Member = 1 .. Len(Member)
  /\ ToSet(Member) = {Member[i] : i \in 1 .. Len(Member)}
  /\ \A i \in 1 .. Len(Member) :
       /\ Member[i].names \in Seq(Word) /\ Member[i].names # <<>>
       /\ Member[i].dir \in BOOLEAN /\ Member[i].size \in Nat
       /\ Without(Member[i].size)[DIGITS] = 0
       /\ Len(PathOf(Member[i])) > NAME_SIZE => Splits(PathOf(Member[i])) # {}
       /\ Len(Joined(Shown(Member[i]))) < MAX_NAME
       /\ \A j \in 1 .. Len(Member) : Shown(Member[i]) = Shown(Member[j]) => i = j
<1> DEFINE R == [names : Seq(Name) \ {<<>>}, dir : BOOLEAN, size : Nat]
<1>1. Member \in Seq(R)
  BY FileSystemsAssumption
<1>2. Len(Member) \in Nat /\ DOMAIN Member = 1 .. Len(Member) /\ \A i \in 1 .. Len(Member) : Member[i] \in R
  <2> HIDE DEF R
  <2> QED
    BY <1>1
<1>3. ASSUME NEW i \in 1 .. Len(Member)
      PROVE  /\ Member[i].names \in Seq(Word) /\ Member[i].names # <<>>
             /\ Member[i].dir \in BOOLEAN /\ Member[i].size \in Nat
  <2>1. Member[i].names \in Seq(Name) /\ Member[i].names # <<>>
        /\ Member[i].dir \in BOOLEAN /\ Member[i].size \in Nat
    BY <1>2
  <2>2. Name \subseteq Word
    BY Characters
  <2> DEFINE ns == Member[i].names
  <2>3. ns \in Seq(Name)
    BY <2>1
  <2> HIDE DEF ns
  <2>4. ns \in Seq(Word)
    BY <2>2, <2>3, SeqMonotonic
  <2> QED
    BY <2>1, <2>4 DEF ns
<1>4. \A i \in DOMAIN Member :
        /\ Without(Member[i].size)[DIGITS] = 0
        /\ Len(PathOf(Member[i])) > NAME_SIZE => Splits(PathOf(Member[i])) # {}
        /\ Len(Joined(Shown(Member[i]))) < MAX_NAME
        /\ \A j \in DOMAIN Member : Shown(Member[i]) = Shown(Member[j]) => i = j
  BY FileSystemsAssumption, Zenon
<1>5. ToSet(Member) = {Member[i] : i \in 1 .. Len(Member)}
  BY <1>2 DEF ToSet
<1> QED
  BY ONLY <1>2, <1>3, <1>4, <1>5

\* What the scan makes of a header.
Read(b) == [path |-> fullpath(b), size |-> oct2int(b.size), dir |-> b.typeflag = 5]

Listed(m) == [path |-> Joined(Shown(m)), size |-> m.size, dir |-> m.dir]

\* What the scan reads in the header of a member.
LEMMA HeaderIsRead ==
  ASSUME NEW i \in 1 .. Len(Member)
  PROVE  LET m == Member[i] IN
         /\ Shown(m) \in Seq(Word) /\ Shown(m) # <<>>
         /\ HeaderOf(m).is = "header" /\ oct2int(HeaderOf(m).size) = m.size
         /\ Read(HeaderOf(m)) = Listed(m)
<1> DEFINE m == Member[i]
           h == HeaderOf(m)
<1>1. /\ m.names \in Seq(Word) /\ m.names # <<>> /\ m.dir \in BOOLEAN /\ m.size \in Nat
      /\ Without(m.size)[DIGITS] = 0
      /\ Len(PathOf(m)) > NAME_SIZE => Splits(PathOf(m)) # {}
  BY Members
<1> HIDE DEF m
<1>2. Shown(m) \in Seq(Word) /\ Shown(m) # <<>> /\ fullpath(h) = Joined(Shown(m))
  BY <1>1, FullPath
<1>3. /\ h.is = "header" /\ h.size = Octal(m.size) /\ h.typeflag = IF m.dir THEN 5 ELSE 0
  BY DEF HeaderOf, Header
<1>4. oct2int(h.size) = m.size
  BY <1>1, <1>3, OctalIsRead
<1>5. (h.typeflag = 5) = m.dir
  BY <1>1, <1>3
<1> HIDE DEF h
<1>6. Read(h) = Listed(m)
  BY <1>2, <1>4, <1>5 DEF Read, Listed
<1> QED
  BY <1>2, <1>3, <1>4, <1>6 DEF m, h

\* The blocks of the archive, and where the header of each member is.
Block  == {HeaderOf(Member[i]) : i \in 1 .. Len(Member)} \cup {[is |-> "data"], [is |-> "zeros"]}
Extents == [i \in DOMAIN Member |-> <<HeaderOf(Member[i])>> \o Filler("data", Rounded(Member[i].size))]
Upto(i) == FlattenSeq(SubSeq(Extents, 1, i))
Start(i) == Len(Upto(i - 1)) + 1

LEMMA RoundedIsNat == \A n \in Nat : Rounded(n) \in Nat
<1> SUFFICES ASSUME NEW n \in Nat PROVE Rounded(n) \in Nat
  OBVIOUS
<1> DEFINE a == n + BLOCK - 1
<1>1. a \in Nat /\ BLOCK \in Nat \ {0}
  BY ArchiveConstants
<1> HIDE DEF a
<1>2. a \div BLOCK \in Nat
  BY <1>1
<1> QED
  BY <1>2 DEF Rounded, a

LEMMA FillerIs ==
  ASSUME NEW is, NEW n \in Nat
  PROVE  /\ Filler(is, n) \in Seq({[is |-> is]}) /\ Len(Filler(is, n)) = n
         /\ \A i \in 1 .. n : Filler(is, n)[i] = [is |-> is]
<1> DEFINE b == [is |-> is]
<1>1. Filler(is, n) = [i \in 1 .. n |-> b]
  BY DEF Filler
<1> HIDE DEF b
<1>2. [i \in 1 .. n |-> b] \in Seq({b}) /\ Len([i \in 1 .. n |-> b]) = n
  OBVIOUS
<1> QED
  BY <1>1, <1>2 DEF b

LEMMA ExtentsAre ==
  /\ Extents \in Seq(Seq(Block)) /\ Len(Extents) = Len(Member)
  /\ \A i \in 1 .. Len(Member) :
       /\ Extents[i] \in Seq(Block) /\ Len(Extents[i]) = 1 + Rounded(Member[i].size)
       /\ Extents[i][1] = HeaderOf(Member[i])
<1>1. ASSUME NEW i \in 1 .. Len(Member)
      PROVE  /\ Extents[i] \in Seq(Block) /\ Len(Extents[i]) = 1 + Rounded(Member[i].size)
             /\ Extents[i][1] = HeaderOf(Member[i])
  <2> DEFINE h == HeaderOf(Member[i])
             n == Rounded(Member[i].size)
             d == Filler("data", n)
             b == [is |-> "data"]
  <2>1. h \in Block /\ b \in Block
    BY DEF Block
  <2>2. n \in Nat
    BY Members, RoundedIsNat
  <2> HIDE DEF n
  <2>3. d \in Seq({b}) /\ Len(d) = n
    BY <2>2, FillerIs
  <2>4. Extents[i] = <<h>> \o d
    BY Members DEF Extents, n
  <2> HIDE DEF h, d, b
  <2>5. d \in Seq(Block)
    <3>1. {b} \subseteq Block
      BY <2>1
    <3> QED
      BY <2>3, <3>1, SeqMonotonic
  <2>6. <<h>> \o d \in Seq(Block) /\ Len(<<h>> \o d) = 1 + n /\ (<<h>> \o d)[1] = h
    BY <2>1, <2>2, <2>3, <2>5
  <2> QED
    BY <2>4, <2>6 DEF h, n
<1>2. Extents = [i \in 1 .. Len(Member) |-> Extents[i]]
  BY Members DEF Extents
<1>3. Len(Member) \in Nat
  BY Members
<1> QED
  BY <1>1, <1>2, <1>3

LEMMA UptoIs ==
  /\ Upto(0) = <<>>
  /\ \A i \in 0 .. Len(Member) : Upto(i) \in Seq(Block)
  /\ \A i \in 1 .. Len(Member) : Upto(i) = Upto(i - 1) \o Extents[i]
<1> DEFINE N == Len(Member)
<1>1. N \in Nat /\ Extents \in Seq(Seq(Block)) /\ Len(Extents) = N
  BY Members, ExtentsAre
<1> HIDE DEF N
<1>2. \A i \in 0 .. N : SubSeq(Extents, 1, i) \in Seq(Seq(Block))
  BY <1>1
<1>3. Upto(0) = <<>>
  <2>1. SubSeq(Extents, 1, 0) = <<>>
    BY SubSeqEmpty
  <2> QED
    BY <2>1, FlattenSteps DEF Upto
<1>4. ASSUME NEW i \in 0 .. N PROVE Upto(i) \in Seq(Block)
  BY <1>2, FlattenSteps DEF Upto
<1>5. ASSUME NEW i \in 1 .. N PROVE Upto(i) = Upto(i - 1) \o Extents[i]
  <2> DEFINE s == SubSeq(Extents, 1, i - 1)
             b == Extents[i]
  <2>1. SubSeq(Extents, 1, i) = s \o <<b>>
    BY <1>1, SubSeqRecursiveSecond
  <2>2. s \in Seq(Seq(Block)) /\ b \in Seq(Block)
    BY <1>1, <1>2, ExtentsAre
  <2> HIDE DEF s, b
  <2>3. FlattenSeq(s \o <<b>>) = FlattenSeq(s) \o b
    BY <2>2, FlattenSteps
  <2> QED
    BY <2>1, <2>3 DEF Upto, s, b
<1> QED
  BY <1>3, <1>4, <1>5 DEF N

\* Where the header of a member is.
LEMMA StartIs ==
  /\ Start(1) = 1
  /\ \A i \in 1 .. Len(Member) + 1 : Start(i) \in Nat \ {0}
  /\ \A i \in 1 .. Len(Member) : Start(i + 1) = Start(i) + 1 + Rounded(Member[i].size)
<1> DEFINE N == Len(Member)
<1>1. N \in Nat
  BY Members
<1>2. Start(1) = 1
  BY UptoIs DEF Start
<1>3. ASSUME NEW i \in 1 .. N + 1 PROVE Start(i) \in Nat \ {0}
  <2>1. Upto(i - 1) \in Seq(Block)
    BY <1>1, UptoIs
  <2> QED
    BY <2>1 DEF Start
<1>4. ASSUME NEW i \in 1 .. N PROVE Start(i + 1) = Start(i) + 1 + Rounded(Member[i].size)
  <2> DEFINE u == Upto(i - 1)
             b == Extents[i]
             r == Rounded(Member[i].size)
  <2>1. u \in Seq(Block) /\ b \in Seq(Block) /\ Len(b) = 1 + r /\ Upto(i) = u \o b /\ r \in Nat
    <3>1. i - 1 \in 0 .. N /\ i \in 1 .. N
      BY <1>1
    <3>2. r \in Nat
      BY RoundedIsNat, Members
    <3> QED
      BY <3>1, <3>2, UptoIs, ExtentsAre
  <2>2. Start(i) = Len(u) + 1 /\ Start(i + 1) = Len(Upto(i)) + 1
    BY DEF Start
  <2> HIDE DEF u, b, r
  <2>3. Len(u \o b) = Len(u) + Len(b)
    BY <2>1, ConcatProperties
  <2> QED
    BY <2>1, <2>2, <2>3 DEF r
<1> QED
  BY <1>2, <1>3, <1>4

LEMMA Behind ==
  ASSUME NEW T, NEW u \in Seq(T), NEW b \in Seq(T)
  PROVE  /\ u \o b \in Seq(T) /\ Len(u) \in Nat /\ Len(b) \in Nat
         /\ Len(u \o b) = Len(u) + Len(b)
         /\ \A k \in 1 .. Len(u) : (u \o b)[k] = u[k]
         /\ \A k \in 1 .. Len(b) : (u \o b)[Len(u) + k] = b[k]
OBVIOUS

\* The header of each member is where Start says; zeros follow the last one.
LEMMA ImageIs ==
  /\ Image \in Seq(Block)
  /\ \A i \in 1 .. Len(Member) :
       Start(i) \in 1 .. Len(Image) /\ Image[Start(i)] = HeaderOf(Member[i])
  /\ Start(Len(Member) + 1) \in 1 .. Len(Image)
  /\ Image[Start(Len(Member) + 1)].is = "zeros"
<1> DEFINE N == Len(Member)
           z == Filler("zeros", 2)
           x == [is |-> "zeros"]
<1>1. N \in Nat /\ DOMAIN Member = 1 .. N
  BY Members
<1>2. Image = Upto(N) \o z
  <2>1. Extents \in Seq(Seq(Block)) /\ Len(Extents) = N
    BY ExtentsAre
  <2>2. SubSeq(Extents, 1, N) = Extents
    BY <2>1, SubSeqFull
  <2>3. Image = FlattenSeq(Extents) \o z
    BY DEF Image, Extents, Rounded
  <2> QED
    BY <2>2, <2>3 DEF Upto
<1>3. z \in Seq(Block) /\ Len(z) = 2 /\ z[1].is = "zeros"
  <2>1. x \in Block /\ x.is = "zeros"
    BY DEF Block
  <2>2. z \in Seq({x}) /\ Len(z) = 2 /\ z[1] = x
    <3>1. 2 \in Nat /\ 1 \in 1 .. 2
      OBVIOUS
    <3> QED
      BY <3>1, FillerIs
  <2> HIDE DEF z, x
  <2>3. {x} \subseteq Block
    BY <2>1
  <2>4. z \in Seq(Block)
    BY <2>2, <2>3, SeqMonotonic
  <2> QED
    BY <2>1, <2>2, <2>4
<1> DEFINE S == {i \in 0 .. N : \A j \in 1 .. i : Start(j) <= Len(Upto(i)) /\ Upto(i)[Start(j)] = HeaderOf(Member[j])}
<1>4. 0 \in S
  BY <1>1
<1>5. ASSUME NEW i \in 1 .. N, i - 1 \in S PROVE i \in S
  <2> DEFINE u == Upto(i - 1)
             b == Extents[i]
  <2>1. /\ u \in Seq(Block) /\ b \in Seq(Block) /\ Upto(i) = u \o b
        /\ Len(b) = 1 + Rounded(Member[i].size) /\ b[1] = HeaderOf(Member[i])
    <3>1. i - 1 \in 0 .. N /\ i \in 1 .. N
      BY <1>1
    <3> QED
      BY <3>1, UptoIs, ExtentsAre
  <2>2. \A j \in 1 .. i - 1 : Start(j) <= Len(u) /\ u[Start(j)] = HeaderOf(Member[j])
    BY <1>5
  <2>3. Start(i) = Len(u) + 1
    BY DEF Start
  <2>4. Len(b) \in Nat \ {0}
    <3>1. Rounded(Member[i].size) \in Nat
      BY RoundedIsNat, Members
    <3> HIDE DEF b
    <3> QED
      BY <2>1, <3>1
  <2>5. \A j \in 1 .. i : Start(j) \in Nat \ {0}
    <3>1. \A j \in 1 .. i : j \in 1 .. Len(Member) + 1
      BY <1>1
    <3> QED
      BY <3>1, StartIs
  <2> HIDE DEF u, b, S
  <2> DEFINE v == u \o b
  <2>6. /\ Len(v) = Len(u) + Len(b) /\ Len(u) \in Nat
        /\ \A k \in 1 .. Len(u) : v[k] = u[k]
        /\ \A k \in 1 .. Len(b) : v[Len(u) + k] = b[k]
    <3>1. u \in Seq(Block) /\ b \in Seq(Block)
      BY <2>1
    <3> QED
      BY ONLY <3>1, Behind
  <2> HIDE DEF v
  <2>7. ASSUME NEW j \in 1 .. i PROVE Start(j) <= Len(v) /\ v[Start(j)] = HeaderOf(Member[j])
    <3>1. CASE j = i
      <4>1. 1 \in 1 .. Len(b) /\ Start(j) = Len(u) + 1
        BY <2>3, <2>4, <3>1
      <4> QED
        BY <2>1, <2>4, <2>6, <3>1, <4>1
    <3>2. CASE j # i
      <4>1. j \in 1 .. i - 1
        BY <3>2
      <4>2. Start(j) \in 1 .. Len(u)
        BY <2>2, <2>5, <2>6, <4>1
      <4> QED
        BY <2>2, <2>4, <2>6, <4>1, <4>2
    <3> QED
      BY <3>1, <3>2
  <2>8. i \in 0 .. N
    BY <1>1
  <2> QED
    BY <2>1, <2>7, <2>8 DEF S, v
<1>6. N \in S
  <2> HIDE DEF S
  <2> QED
    BY <1>1, <1>4, <1>5, Segment
<1> DEFINE u == Upto(N)
<1>7. \A i \in 1 .. N : Start(i) <= Len(u) /\ u[Start(i)] = HeaderOf(Member[i])
  BY <1>6
<1>8. Start(N + 1) = Len(u) + 1 /\ u \in Seq(Block) /\ \A i \in 1 .. N : Start(i) \in Nat \ {0}
  <2>1. (N + 1) - 1 = N /\ N \in 0 .. N /\ \A i \in 1 .. N : i \in 1 .. N + 1
    BY <1>1
  <2>2. Start(N + 1) = Len(u) + 1
    BY <2>1 DEF Start
  <2> QED
    BY <2>1, <2>2, UptoIs, StartIs
<1> HIDE DEF N, S, u, z
<1> DEFINE v == u \o z
<1>9. /\ v \in Seq(Block) /\ Len(v) = Len(u) + Len(z) /\ Len(u) \in Nat
      /\ \A k \in 1 .. Len(u) : v[k] = u[k]
      /\ \A k \in 1 .. Len(z) : v[Len(u) + k] = z[k]
  <2>1. u \in Seq(Block) /\ z \in Seq(Block)
    BY <1>3, <1>8
  <2> QED
    BY ONLY <2>1, Behind
<1> HIDE DEF v
<1>10. \A i \in 1 .. N : Start(i) \in 1 .. Len(v) /\ v[Start(i)] = HeaderOf(Member[i])
  <2>1. \A i \in 1 .. N : Start(i) \in 1 .. Len(u)
    BY <1>7, <1>8, <1>9
  <2>2. \A i \in 1 .. N : Start(i) \in 1 .. Len(v)
    BY <1>3, <1>9, <2>1
  <2> QED
    BY <1>7, <1>9, <2>1, <2>2
<1>11. Start(N + 1) \in 1 .. Len(v) /\ v[Start(N + 1)] = z[1]
  BY <1>3, <1>8, <1>9
<1> QED
  BY <1>2, <1>3, <1>9, <1>10, <1>11 DEF u, v, N

\* From header to header, the scan reads what was archived.
LEMMA ScanIs == Scan = [i \in 1 .. Len(Member) |-> Listed(Member[i])]
<1> DEFINE n == Len(Image)
           N == Len(Member)
           Next1(i) == i + 1 + Rounded(oct2int(Image[i].size))
           Move(w, i) == IF i > n THEN <<>>
                         ELSE IF Image[i].is # "header" THEN <<>>
                         ELSE <<Read(Image[i])>> \o w[Next1(i)]
           IsW(w) == w = [i \in Nat \ {0} |-> Move(w, i)]
           from == CHOOSE w : IsW(w)
<1>1. n \in Nat /\ N \in Nat /\ \A i \in 1 .. n : Image[i] \in Block
  BY ImageIs, Members
<1>2. Scan = from[1]
  BY DEF Scan, ScanOf, Read
<1> HIDE DEF from
<1>3. ASSUME NEW i \in 1 .. n, Image[i].is = "header" PROVE Next1(i) \in Nat /\ Next1(i) > i
  <2>1. PICK k \in 1 .. N : Image[i] = HeaderOf(Member[k])
    BY <1>1, <1>3 DEF Block
  <2>2. oct2int(Image[i].size) \in Nat
    BY <2>1, HeaderIsRead, Members
  <2> DEFINE r == Rounded(oct2int(Image[i].size))
  <2>3. r \in Nat
    BY <2>2, RoundedIsNat
  <2> HIDE DEF r
  <2> QED
    BY <1>1, <2>3 DEF r
<1> HIDE DEF Next1, n
\* From the last block to the first, such a function is put together.
<1> DEFINE Good(w, k) == w = [i \in Nat \ {0} |-> IF i > n - k THEN Move(w, i) ELSE <<>>]
           S == {k \in 0 .. n : \E w : Good(w, k)}
<1>4. 0 \in S
  <2> DEFINE w == [i \in Nat \ {0} |-> <<>>]
  <2>1. \A i \in Nat \ {0} : (IF i > n - 0 THEN Move(w, i) ELSE <<>>) = <<>>
    BY <1>1
  <2>2. Good(w, 0)
    <3> HIDE DEF Move
    <3> QED
      BY <2>1
  <2> HIDE DEF Good
  <2> QED
    BY <1>1, <2>2
<1>5. ASSUME NEW k \in 1 .. n, k - 1 \in S PROVE k \in S
  <2>1. PICK w : Good(w, k - 1)
    BY <1>5
  <2> DEFINE p == n - k + 1
             v == [i \in Nat \ {0} |-> IF i = p THEN Move(w, p) ELSE w[i]]
  <2>2. p \in 1 .. n /\ n - (k - 1) = p /\ p \in Nat \ {0}
    BY <1>1
  <2>3. ASSUME NEW i \in Nat \ {0}, i > n - k PROVE Move(v, i) = Move(w, i)
    <3>1. CASE i > n
      BY <3>1
    <3>2. CASE i <= n /\ Image[i].is = "header"
      <4>1. Next1(i) \in Nat \ {0} /\ Next1(i) # p
        BY <1>1, <1>3, <2>2, <2>3, <3>2
      <4>2. v[Next1(i)] = w[Next1(i)]
        BY <4>1
      <4> HIDE DEF v
      <4> QED
        BY <4>2
    <3>3. CASE i <= n /\ Image[i].is # "header"
      BY <3>3
    <3> HIDE DEF Move
    <3> QED
      BY <1>1, <3>1, <3>2, <3>3
  <2> HIDE DEF Move
  <2>4. \A i \in Nat \ {0} : w[i] = IF i > p THEN Move(w, i) ELSE <<>>
    BY <2>1, <2>2, Zenon
  <2>5. ASSUME NEW i \in Nat \ {0} PROVE v[i] = IF i > n - k THEN Move(v, i) ELSE <<>>
    <3>1. CASE i = p
      <4>1. v[i] = Move(w, p) /\ i > n - k
        BY <1>1, <3>1
      <4> QED
        BY <2>3, <3>1, <4>1
    <3>2. CASE i # p
      <4>1. v[i] = w[i] /\ (i > n - k <=> i > p)
        BY <1>1, <3>2
      <4>2. CASE i > p
        BY <2>3, <2>4, <4>1, <4>2
      <4>3. CASE ~(i > p)
        BY <2>4, <4>1, <4>3
      <4> QED
        BY <4>2, <4>3
    <3> QED
      BY <3>1, <3>2
  <2>6. v = [i \in Nat \ {0} |-> v[i]]
    OBVIOUS
  <2> HIDE DEF v
  <2>7. Good(v, k)
    BY <2>5, <2>6
  <2> HIDE DEF Good
  <2> QED
    BY <1>1, <2>7
<1>6. n \in S
  <2> HIDE DEF S
  <2> QED
    BY <1>1, <1>4, <1>5, Segment
<1>7. IsW(from)
  <2>1. PICK w : Good(w, n)
    BY <1>6
  <2>2. \A i \in Nat \ {0} : i > n - n
    BY <1>1
  <2>3. IsW(w)
    <3> HIDE DEF Move
    <3> QED
      BY <2>1, <2>2
  <2> HIDE DEF IsW
  <2> QED
    BY <2>3, Zenon DEF from
<1> HIDE DEF Good, S
<1>8. ASSUME NEW i \in Nat \ {0} PROVE from[i] = Move(from, i)
  <2> HIDE DEF Move
  <2> QED
    BY <1>7
<1> DEFINE E == [i \in 1 .. N |-> Listed(Member[i])]
           T == {Listed(Member[i]) : i \in 1 .. N}
<1>9. E \in Seq(T) /\ Len(E) = N /\ \A i \in 1 .. N : E[i] = Listed(Member[i])
  BY <1>1
<1> HIDE DEF E, T
<1>10. from[Start(N + 1)] = <<>>
  <2> DEFINE a == Start(N + 1)
  <2>1. a \in 1 .. n /\ Image[a].is = "zeros"
    BY ImageIs DEF n
  <2> HIDE DEF a
  <2>2. a \in Nat \ {0} /\ ~(a > n)
    BY <1>1, <2>1
  <2> QED
    BY <1>8, <2>1, <2>2 DEF a
<1>11. ASSUME NEW i \in 1 .. N PROVE from[Start(i)] = <<E[i]>> \o from[Start(i + 1)]
  <2> DEFINE a == Start(i)
  <2>1. a \in 1 .. n /\ Image[a] = HeaderOf(Member[i])
    BY ImageIs DEF n
  <2>2. Start(i + 1) = a + 1 + Rounded(Member[i].size)
    BY StartIs
  <2>3. Image[a].is = "header" /\ oct2int(Image[a].size) = Member[i].size /\ Read(Image[a]) = Listed(Member[i])
    BY <2>1, HeaderIsRead
  <2>4. Next1(a) = Start(i + 1)
    BY <2>2, <2>3 DEF Next1
  <2> HIDE DEF a
  <2>5. a \in Nat \ {0} /\ ~(a > n)
    BY <1>1, <2>1
  <2>6. from[a] = <<Read(Image[a])>> \o from[Next1(a)]
    BY <1>8, <2>3, <2>5
  <2> QED
    BY <1>9, <2>3, <2>4, <2>6 DEF a
<1> HIDE DEF Move, IsW
<1> DEFINE Q == {k \in 0 .. N : from[Start(N + 1 - k)] = SubSeq(E, N + 1 - k, N)}
<1>12. 0 \in Q
  <2>1. SubSeq(E, N + 1, N) = <<>>
    BY <1>1, SubSeqEmpty
  <2>2. N + 1 - 0 = N + 1 /\ 0 \in 0 .. N
    BY <1>1
  <2> QED
    BY <1>10, <2>1, <2>2
<1>13. ASSUME NEW k \in 1 .. N, k - 1 \in Q PROVE k \in Q
  <2> DEFINE i == N + 1 - k
  <2>1. i \in 1 .. N /\ N + 1 - (k - 1) = i + 1 /\ k \in 0 .. N /\ N \in i .. N
    BY <1>1
  <2>2. from[Start(i + 1)] = SubSeq(E, i + 1, N)
    BY <1>13, <2>1
  <2>3. from[Start(i)] = <<E[i]>> \o SubSeq(E, i + 1, N)
    BY <1>11, <2>1, <2>2
  <2>4. SubSeq(E, i, N) = <<E[i]>> \o SubSeq(E, i + 1, N)
    <3> HIDE DEF i
    <3> QED
      BY <1>9, <2>1, SubSeqRecursiveFirst
  <2> QED
    BY <2>1, <2>3, <2>4
<1>14. N \in Q
  <2> HIDE DEF Q
  <2> QED
    BY <1>1, <1>12, <1>13, Segment
<1>15. N + 1 - N = 1
  BY <1>1
<1>16. from[1] = SubSeq(E, 1, N)
  BY <1>14, <1>15, StartIs
<1>17. SubSeq(E, 1, N) = E
  BY <1>9, SubSeqFull
<1> QED
  BY <1>2, <1>16, <1>17 DEF E
------------------------------------------------------------------------------
(***************************************************************************)
(* What is found in a directory.                                           *)
(***************************************************************************)
FoundStep ==
  [x \in Seq(Word) \X (Word \cup {<<>>}) |-> IF x[2] = <<>> THEN x[1] ELSE x[1] \o <<x[2]>>]

LEMMA FoundStepIs ==
  /\ IsStep(Seq(Word), Word \cup {<<>>}, <<>>, FoundStep)
  /\ \A s \in Seq(Word), e \in Word \cup {<<>>} :
       FoundStep[<<s, e>>] = IF e = <<>> THEN s ELSE s \o <<e>>
<1>1. \A s \in Seq(Word), e \in Word : s \o <<e>> \in Seq(Word)
  OBVIOUS
<1>2. <<>> \in Seq(Word)
  OBVIOUS
<1>3. \A s \in Seq(Word), e \in Word \cup {<<>>} : (IF e = <<>> THEN s ELSE s \o <<e>>) \in Seq(Word)
  BY <1>1
<1> QED
  BY <1>2, <1>3 DEF FoundStep, IsStep

LEMMA FoundIsResult ==
  ASSUME NEW s \in Seq(Word \cup {<<>>})
  PROVE  Found(s) = Result(FoundStep, <<>>, s)
<1> DEFINE n == Len(s)
           Move(v, e) == IF e = <<>> THEN v ELSE Append(v, e)
           IsW(w) == w = [i \in 0 .. n |-> IF i = 0 THEN <<>> ELSE Move(w[i - 1], s[i])]
           w == CHOOSE w : IsW(w)
<1>1. n \in Nat /\ \A i \in 1 .. n : s[i] \in Word \cup {<<>>} /\ i - 1 \in 0 .. n
  OBVIOUS
<1>2. PICK f \in [0 .. n -> Seq(Word)] : Steps(FoundStep, <<>>, s, f)
  BY FoundStepIs, StepsExist
<1>3. \A v \in Seq(Word), e \in Word \cup {<<>>} : FoundStep[<<v, e>>] = Move(v, e)
  <2> SUFFICES ASSUME NEW v \in Seq(Word), NEW e \in Word \cup {<<>>}
               PROVE  FoundStep[<<v, e>>] = Move(v, e)
    OBVIOUS
  <2> DEFINE a == Append(v, e)
             b == v \o <<e>>
  <2>1. FoundStep[<<v, e>>] = IF e = <<>> THEN v ELSE b
    BY FoundStepIs
  <2>2. e # <<>> => a = b
    <3> SUFFICES ASSUME e # <<>> PROVE a = b
      OBVIOUS
    <3>1. v \in Seq(Word) /\ e \in Word
      OBVIOUS
    <3> QED
      BY ONLY <3>1, AppendIsConcat
  <2> HIDE DEF a, b
  <2>3. Move(v, e) = IF e = <<>> THEN v ELSE a
    BY DEF a
  <2> HIDE DEF Move
  <2> QED
    BY <2>1, <2>2, <2>3
<1>4. f[0] = <<>> /\ \A i \in 1 .. n : f[i] = FoundStep[<<f[i - 1], s[i]>>]
  BY <1>2 DEF Steps
<1> HIDE DEF Move, n
<1>5. IsW(f)
  <2>1. ASSUME NEW i \in 1 .. n PROVE f[i] = Move(f[i - 1], s[i])
    <3>1. f[i - 1] \in Seq(Word) /\ s[i] \in Word \cup {<<>>}
      BY <1>1, <1>2
    <3> QED
      BY <1>3, <1>4, <3>1
  <2>2. \A i \in 0 .. n : f[i] = IF i = 0 THEN <<>> ELSE Move(f[i - 1], s[i])
    BY <1>1, <1>4, <2>1
  <2> QED
    BY <1>2, <2>2
<1>6. IsW(w)
  <2> HIDE DEF IsW
  <2> QED
    BY <1>5, Zenon
<1>7. Found(s) = w[n]
  <2>1. \A v, i : Move(v, s[i]) = IF s[i] = <<>> THEN v ELSE Append(v, s[i])
    BY DEF Move
  <2> QED
    BY DEF Found, Move, n
<1> HIDE DEF w
<1>8. w[0] = <<>> /\ \A i \in 1 .. n : w[i] = Move(w[i - 1], s[i])
  BY <1>1, <1>6
<1>9. \A i \in 1 .. n : w[i - 1] \in Seq(Word) => w[i] = FoundStep[<<w[i - 1], s[i]>>]
  BY <1>1, <1>3, <1>8
<1>10. Result(FoundStep, <<>>, s) = w[Len(s)]
  <2>1. \A i \in 1 .. Len(s) : w[i - 1] \in Seq(Word) => w[i] = FoundStep[<<w[i - 1], s[i]>>]
    BY <1>9 DEF n
  <2>2. IsStep(Seq(Word), Word \cup {<<>>}, <<>>, FoundStep)
    BY FoundStepIs
  <2> QED
    BY <1>8, <2>1, <2>2, Recursive
<1> QED
  BY <1>7, <1>10 DEF n

\* Nothing but what is found, and all of it.
LEMMA FoundIs ==
  ASSUME NEW s \in Seq(Word \cup {<<>>})
  PROVE  /\ Found(s) \in Seq(Word)
         /\ \A e \in ToSet(Found(s)) : e \in Word /\ \E i \in 1 .. Len(s) : s[i] = e
<1> DEFINE C == Word \cup {<<>>}
           F(t) == Result(FoundStep, <<>>, t)
           P == {t \in Seq(C) : \A i \in 1 .. Len(F(t)) : \E j \in 1 .. Len(t) : t[j] = F(t)[i]}
<1>1. /\ F(<<>>) = <<>>
      /\ \A t \in Seq(C) : F(t) \in Seq(Word)
      /\ \A t \in Seq(C), e \in C : F(t \o <<e>>) = FoundStep[<<F(t), e>>]
  BY FoundStepIs, ResultSteps
<1>2. \A t \in Seq(C), e \in C : F(t \o <<e>>) = IF e = <<>> THEN F(t) ELSE F(t) \o <<e>>
  BY <1>1, FoundStepIs
<1>3. \A e \in C : e # <<>> => e \in Word
  OBVIOUS
<1> HIDE DEF F, C
<1>4. <<>> \in P
  <2>1. <<>> \in Seq(C) /\ Len(F(<<>>)) = 0
    BY <1>1
  <2>2. \A i \in 1 .. Len(F(<<>>)) : FALSE
    BY <2>1
  <2> QED
    BY <2>1, <2>2
<1>5. ASSUME NEW t \in Seq(C), NEW e \in C, t \in P PROVE t \o <<e>> \in P
  <2> DEFINE u == t \o <<e>>
             g == F(t)
  <2>1. /\ u \in Seq(C) /\ Len(u) = Len(t) + 1 /\ u[Len(t) + 1] = e /\ Len(t) \in Nat
        /\ \A j \in 1 .. Len(t) : u[j] = t[j]
    OBVIOUS
  <2>2. \A i \in 1 .. Len(g) : \E j \in 1 .. Len(t) : t[j] = g[i]
    BY <1>5
  <2>3. g \in Seq(Word) /\ F(u) = IF e = <<>> THEN g ELSE g \o <<e>>
    BY <1>1, <1>2
  <2> HIDE DEF u, g
  <2>4. \A i \in 1 .. Len(g) : \E j \in 1 .. Len(u) : u[j] = g[i]
    BY <2>1, <2>2
  <2>5. CASE e = <<>>
    <3>1. F(u) = g
      BY <2>3, <2>5
    <3>2. u \in P
      BY <2>1, <2>4, <3>1
    <3> QED
      BY <3>2 DEF u
  <2>6. CASE e # <<>>
    <3> DEFINE h == g \o <<e>>
    <3>1. e \in Word
      BY <1>3, <2>6
    <3>2. /\ Len(h) = Len(g) + 1 /\ h[Len(g) + 1] = e /\ Len(g) \in Nat
          /\ \A i \in 1 .. Len(g) : h[i] = g[i]
      BY <2>3, <3>1
    <3>3. F(u) = h
      BY <2>3, <2>6
    <3> HIDE DEF h
    <3>4. ASSUME NEW i \in 1 .. Len(h) PROVE \E j \in 1 .. Len(u) : u[j] = h[i]
      <4>1. CASE i = Len(g) + 1
        BY <2>1, <3>2, <4>1
      <4>2. CASE i # Len(g) + 1
        BY <2>4, <3>2, <4>2
      <4> QED
        BY <4>1, <4>2
    <3> QED
      BY <2>1, <3>3, <3>4 DEF u
  <2> QED
    BY <2>5, <2>6
<1>6. Seq(C) \subseteq P
  <2> HIDE DEF P
  <2> QED
    BY <1>4, <1>5, SequenceInduction
<1>7. s \in Seq(C) /\ Found(s) = F(s)
  BY FoundIsResult DEF C, F
<1> DEFINE g == F(s)
<1>8. g \in Seq(Word) /\ \A i \in 1 .. Len(g) : \E j \in 1 .. Len(s) : s[j] = g[i]
  BY <1>1, <1>6, <1>7
<1> HIDE DEF g, P
<1>9. ASSUME NEW e \in ToSet(g) PROVE e \in Word /\ \E j \in 1 .. Len(s) : s[j] = e
  <2>1. PICK i \in 1 .. Len(g) : e = g[i]
    BY <1>8 DEF ToSet
  <2> QED
    BY <1>8, <2>1
<1> QED
  BY <1>7, <1>8, <1>9 DEF g

\* What a sequence begins with, and what is behind it.
LEMMA PrefixIs ==
  ASSUME NEW T, NEW a \in Seq(T), NEW p \in Seq(T)
  PROVE  /\ IsPrefix(a, p) => /\ SubSeq(p, Len(a) + 1, Len(p)) \in Seq(T)
                              /\ p = a \o SubSeq(p, Len(a) + 1, Len(p))
         /\ \A r \in Seq(T) : p = a \o r => /\ IsPrefix(a, p)
                                            /\ SubSeq(p, Len(a) + 1, Len(p)) = r
<1> DEFINE n == Len(a)
<1>1. n \in Nat /\ Len(p) \in Nat /\ SubSeq(a, 1, n) = a
  BY SubSeqFull
<1> HIDE DEF n
<1>2. ASSUME IsPrefix(a, p)
      PROVE  /\ SubSeq(p, n + 1, Len(p)) \in Seq(T)
             /\ p = a \o SubSeq(p, n + 1, Len(p))
  <2>1. n <= Len(p) /\ SubSeq(p, 1, n) = a
    BY <1>1, <1>2 DEF IsPrefix, n
  <2>2. SubSeq(p, n + 1, Len(p)) \in Seq(T)
    BY <1>1, <2>1
  <2>3. SubSeq(p, 1, Len(p)) = p
    BY SubSeqFull
  <2>4. SubSeq(p, 1, n) \o SubSeq(p, n + 1, Len(p)) = SubSeq(p, 1, Len(p))
    <3>1. 1 \in 1 .. Len(p) + 1 /\ n \in 1 - 1 .. Len(p) /\ Len(p) \in n .. Len(p)
      BY <1>1, <2>1
    <3> QED
      BY <1>1, <3>1, ConcatAdjacentSubSeq
  <2> QED
    BY <2>1, <2>2, <2>3, <2>4
<1>3. ASSUME NEW r \in Seq(T), p = a \o r
      PROVE  IsPrefix(a, p) /\ SubSeq(p, n + 1, Len(p)) = r
  <2>1. /\ Len(p) = n + Len(r) /\ Len(r) \in Nat
        /\ \A k \in 1 .. n : p[k] = a[k]
        /\ \A k \in 1 .. Len(r) : p[n + k] = r[k]
    <3>1. a \in Seq(T) /\ r \in Seq(T)
      OBVIOUS
    <3>2. /\ Len(a \o r) = Len(a) + Len(r) /\ Len(r) \in Nat
          /\ \A k \in 1 .. Len(a) : (a \o r)[k] = a[k]
          /\ \A k \in 1 .. Len(r) : (a \o r)[Len(a) + k] = r[k]
      BY ONLY <3>1, Behind
    <3> QED
      BY ONLY <1>3, <3>2 DEF n
  <2> DEFINE b == SubSeq(p, 1, n)
             c == SubSeq(p, n + 1, Len(p))
  <2>2. b \in Seq(T) /\ Len(b) = n /\ \A k \in 1 .. n : b[k] = p[k]
    BY ONLY <1>1, <2>1, p \in Seq(T)
  <2>3. c \in Seq(T) /\ Len(c) = Len(r) /\ \A k \in 1 .. Len(r) : c[k] = p[n + k]
    BY ONLY <1>1, <2>1, p \in Seq(T)
  <2> HIDE DEF b, c
  <2>4. Len(b) = Len(a) /\ \A k \in 1 .. Len(b) : b[k] = a[k]
    BY <2>1, <2>2 DEF n
  <2>5. Len(c) = Len(r) /\ \A k \in 1 .. Len(c) : c[k] = r[k]
    BY <2>1, <2>3
  <2>6. b = a
    BY ONLY <2>2, <2>4, SeqEqual, a \in Seq(T)
  <2>7. c = r
    BY ONLY <2>3, <2>5, SeqEqual, r \in Seq(T)
  <2>8. n <= Len(p)
    BY <1>1, <2>1
  <2> QED
    BY <1>1, <2>6, <2>7, <2>8 DEF IsPrefix, n, b, c
<1> QED
  BY <1>2, <1>3 DEF n

\* A word is what has no slash in it.
LEMMA WordIs ==
  /\ \A r \in Seq(Chr) : r # <<>> /\ "/" \notin ToSet(r) => r \in Word
  /\ \A n \in Word : n # <<>> /\ "/" \notin ToSet(n)
<1>1. ASSUME NEW r \in Seq(Chr), r # <<>>, "/" \notin ToSet(r) PROVE r \in Word
  <2>1. Len(r) \in Nat /\ r \in [1 .. Len(r) -> Chr] /\ \A i \in 1 .. Len(r) : r[i] # "/"
    BY <1>1 DEF ToSet
  <2>2. \A i \in 1 .. Len(r) : r[i] \in Ltr
    BY <2>1, Characters
  <2>3. r \in Seq(Ltr)
    BY <2>1, <2>2
  <2> QED
    BY <1>1, <2>3 DEF Word
<1>2. ASSUME NEW n \in Word PROVE n # <<>> /\ "/" \notin ToSet(n)
  <2>1. n \in Seq(Ltr) /\ n # <<>>
    BY DEF Word
  <2>2. \A i \in DOMAIN n : n[i] # "/"
    BY <2>1, Characters
  <2> QED
    BY <2>1, <2>2 DEF ToSet
<1> QED
  BY <1>1, <1>2

LEMMA JoinedOfNone ==
  ASSUME NEW ns \in Seq(Word)
  PROVE  Joined(ns) = <<>> <=> ns = <<>>
BY JoinedIs, JoinedEnds

\* The path of a directory, a slash and a name behind it.
LEMMA JoinedTo ==
  ASSUME NEW ns \in Seq(Word), NEW n \in Word
  PROVE  /\ ns \o <<n>> \in Seq(Word)
         /\ Joined(ns \o <<n>>) = IF Joined(ns) = <<>> THEN n ELSE Joined(ns) \o SLASH \o n
<1>1. ns \o <<n>> \in Seq(Word)
  OBVIOUS
<1>2. CASE ns = <<>>
  <2>1. ns \o <<n>> = <<n>>
    BY <1>2
  <2>2. Joined(<<n>>) = n /\ Joined(ns) = <<>>
    BY <1>2, JoinedIs
  <2>3. Joined(ns \o <<n>>) = n
    BY <2>1, <2>2
  <2> DEFINE a == ns \o <<n>>
             b == Joined(ns) \o SLASH \o n
  <2>4. Joined(a) = n
    BY <2>3
  <2> HIDE DEF a, b
  <2> QED
    BY <1>1, <2>2, <2>4 DEF a, b
<1>3. CASE ns # <<>>
  <2> DEFINE a == ns \o <<n>>
             b == Joined(ns) \o SLASH \o n
  <2>1. Joined(a) = b
    BY <1>3, JoinedIs
  <2>2. Joined(ns) # <<>>
    BY <1>3, JoinedOfNone
  <2> HIDE DEF a, b
  <2> QED
    BY <1>1, <2>1, <2>2 DEF a, b
<1> QED
  BY <1>2, <1>3

\* What begins with a directory's path and a slash and has no other is in it.
LEMMA ChildIs ==
  ASSUME NEW ns \in Seq(Word), NEW s \in Seq(Word), s # <<>>
  PROVE  /\ IsChild(Joined(ns), Joined(s)) <=> Front(s) = ns
         /\ Front(s) = ns => Rest(Joined(ns), Joined(s)) = Last(s)
<1> DEFINE d == Joined(ns)
           p == Joined(s)
           l == Last(s)
           b == d \o SLASH
<1>1. d \in Seq(Chr) /\ p \in Seq(Chr) /\ (d = <<>> <=> ns = <<>>)
  BY JoinedIs, JoinedOfNone
<1>2. Front(s) \in Seq(Word) /\ l \in Word /\ s = Front(s) \o <<l>>
  BY FrontAndLast
<1>3. l \in Seq(Chr) /\ l # <<>> /\ "/" \notin ToSet(l)
  BY <1>2, WordIs, Characters
<1>4. b \in Seq(Chr) /\ Len(b) + 1 = Len(d) + 2
  <2>1. d \in Seq(Chr) /\ SLASH \in Seq(Chr) /\ Len(SLASH) = 1
    BY <1>1, Characters
  <2>2. d \o SLASH \in Seq(Chr) /\ Len(d \o SLASH) = Len(d) + Len(SLASH) /\ Len(d) \in Nat
    BY ONLY <2>1, Behind
  <2> QED
    BY <2>1, <2>2
<1>5. \A n \in Word : Joined(ns \o <<n>>) = IF d = <<>> THEN n ELSE b \o n
  BY JoinedTo
<1>6. Rest(d, p) = IF d = <<>> THEN p
                   ELSE IF IsPrefix(b, p) THEN SubSeq(p, Len(b) + 1, Len(p)) ELSE <<>>
  BY <1>4 DEF Rest
<1>7. /\ IsPrefix(b, p) => /\ SubSeq(p, Len(b) + 1, Len(p)) \in Seq(Chr)
                           /\ p = b \o SubSeq(p, Len(b) + 1, Len(p))
      /\ \A r \in Seq(Chr) : p = b \o r => /\ IsPrefix(b, p)
                                           /\ SubSeq(p, Len(b) + 1, Len(p)) = r
  <2> HIDE DEF b, p
  <2> QED
    BY <1>1, <1>4, PrefixIs
<1> HIDE DEF b, l
<1>8. ASSUME Front(s) = ns PROVE Rest(d, p) = l
  <2>1. p = IF d = <<>> THEN l ELSE b \o l
    BY <1>2, <1>5, <1>8
  <2> HIDE DEF d, p
  <2>2. CASE d = <<>>
    BY <1>6, <2>1, <2>2
  <2>3. CASE d # <<>>
    <3>1. p = b \o l
      BY <2>1, <2>3
    <3>2. IsPrefix(b, p) /\ SubSeq(p, Len(b) + 1, Len(p)) = l
      BY <1>3, <1>7, <3>1
    <3> QED
      BY <1>6, <2>3, <3>2
  <2> QED
    BY <2>2, <2>3
<1>9. ASSUME IsChild(d, p) PROVE Front(s) = ns
  <2> DEFINE r == Rest(d, p)
  <2>1. r # <<>> /\ "/" \notin ToSet(r)
    BY <1>9 DEF IsChild
  <2>2. r \in Seq(Chr) /\ p = IF d = <<>> THEN r ELSE b \o r
    <3> HIDE DEF d, p
    <3>1. CASE d = <<>>
      BY <1>1, <1>6, <3>1
    <3>2. CASE d # <<>>
      <4>1. IsPrefix(b, p)
        BY <1>6, <2>1, <3>2
      <4>2. r = SubSeq(p, Len(b) + 1, Len(p))
        BY <1>6, <3>2, <4>1
      <4> HIDE DEF r
      <4>3. r \in Seq(Chr) /\ p = b \o r
        BY <1>7, <4>1, <4>2
      <4> QED
        BY <3>2, <4>3
    <3> QED
      BY <3>1, <3>2
  <2> HIDE DEF r
  <2>3. r \in Word
    BY <2>1, <2>2, WordIs
  <2> DEFINE t == ns \o <<r>>
  <2>4. t \in Seq(Word) /\ Joined(t) = Joined(s)
    <3>1. t \in Seq(Word)
      BY <2>3, JoinedTo
    <3>2. Joined(t) = IF d = <<>> THEN r ELSE b \o r
      BY <1>5, <2>3
    <3> QED
      BY <2>2, <3>1, <3>2
  <2>5. Front(t) = ns
    BY <2>3, FrontOfLonger
  <2> HIDE DEF t
  <2>6. t = s
    BY <2>4, JoinedInjective
  <2> QED
    BY <2>5, <2>6
<1>10. ASSUME Front(s) = ns PROVE IsChild(d, p)
  BY <1>3, <1>8, <1>10 DEF IsChild
<1> QED
  BY <1>8, <1>9, <1>10 DEF l

\* The members of a directory, in the archive and in the scan.
LEMMA ScanHas ==
  /\ DOMAIN Scan = 1 .. Len(Member) /\ Len(Scan) = Len(Member)
  /\ \A i \in 1 .. Len(Member) :
       /\ Scan[i].path = Joined(Shown(Member[i])) /\ Scan[i].size = Member[i].size
       /\ Scan[i].dir = Member[i].dir
       /\ Shown(Member[i]) \in Seq(Word) /\ Shown(Member[i]) # <<>>
<1>1. Len(Member) \in Nat
  BY Members
<1> DEFINE E == [i \in 1 .. Len(Member) |-> Listed(Member[i])]
<1>2. DOMAIN E = 1 .. Len(Member) /\ Len(E) = Len(Member)
      /\ \A i \in 1 .. Len(Member) : E[i] = Listed(Member[i])
  BY <1>1
<1>3. \A i \in 1 .. Len(Member) :
        /\ Listed(Member[i]).path = Joined(Shown(Member[i]))
        /\ Listed(Member[i]).size = Member[i].size
        /\ Listed(Member[i]).dir = Member[i].dir
  BY DEF Listed
<1>4. Scan = E
  BY ScanIs
<1> HIDE DEF E
<1> QED
  BY <1>2, <1>3, <1>4, HeaderIsRead

\* What initrd_dir_readdir counts are the members in the directory, in order.
LEMMA ChildrenAre ==
  ASSUME NEW ns \in Seq(Word)
  PROVE  LET in == [i \in DOMAIN Member |->
                      IF Front(Shown(Member[i])) = ns THEN Last(Shown(Member[i])) ELSE <<>>]
         IN  /\ Children(Joined(ns)) = Found(in)
             /\ Len(in) = Len(Member) /\ in \in Seq(Word \cup {<<>>})
<1> DEFINE N == Len(Member)
           s(i) == Shown(Member[i])
           e(i) == IF Front(s(i)) = ns THEN Last(s(i)) ELSE <<>>
           c(i) == IF IsChild(Joined(ns), Scan[i].path) THEN Rest(Joined(ns), Scan[i].path) ELSE <<>>
<1>1. N \in Nat /\ DOMAIN Member = 1 .. N /\ DOMAIN Scan = 1 .. N
  BY Members, ScanHas
<1>2. ASSUME NEW i \in 1 .. N PROVE c(i) = e(i) /\ e(i) \in Word \cup {<<>>}
  <2> DEFINE t == s(i)
  <2>1. t \in Seq(Word) /\ t # <<>> /\ Scan[i].path = Joined(t)
    BY ScanHas
  <2> HIDE DEF t
  <2>2. /\ IsChild(Joined(ns), Joined(t)) <=> Front(t) = ns
        /\ Front(t) = ns => Rest(Joined(ns), Joined(t)) = Last(t)
    BY <2>1, ChildIs
  <2>3. Last(t) \in Word
    BY <2>1, FrontAndLast
  <2> QED
    BY <2>1, <2>2, <2>3 DEF t
<1> HIDE DEF s
<1>3. [i \in DOMAIN Scan |-> c(i)] = [i \in DOMAIN Member |-> e(i)]
  BY <1>1, <1>2
<1>4. Children(Joined(ns)) = Found([i \in DOMAIN Scan |-> c(i)])
  BY DEF Children
<1>5. Len([i \in 1 .. N |-> e(i)]) = N /\ [i \in 1 .. N |-> e(i)] \in Seq(Word \cup {<<>>})
  <2> HIDE DEF e, N
  <2>1. \A i \in 1 .. N : e(i) \in Word \cup {<<>>}
    BY <1>2
  <2> QED
    BY <1>1, <2>1
<1> QED
  BY <1>1, <1>3, <1>4, <1>5 DEF s

------------------------------------------------------------------------------
(***************************************************************************)
(* The two file systems and their nodes.                                   *)
(***************************************************************************)
\* The name that the devices are mounted at.
DevName == Tail(Mount[2].path)

LEMMA MountsAre ==
  /\ DOMAIN Mount = {1, 2}
  /\ Mount[1].path = SLASH /\ Mount[1].fs = "initrd"
  /\ DevName \in Word /\ Mount[2].path = SLASH \o DevName /\ Mount[2].fs = "devfs"
  /\ MountNames(1) = <<>> /\ MountNames(2) = <<DevName>>
<1>1. DOMAIN Mount = {1, 2}
  <2>1. Mount \in Seq([path : Seq(STRING), fs : {"initrd", "devfs"}]) /\ Len(Mount) = 2
    BY FileSystemsAssumption, Zenon
  <2> QED
    BY <2>1
<1>2. Mount[1].path = SLASH /\ Mount[1].fs = "initrd"
  BY FileSystemsAssumption
<1>3. DevName \in Word
  <2>1. Tail(Mount[2].path) \in Name
    BY FileSystemsAssumption, Zenon
  <2> QED
    BY <2>1, Characters DEF DevName
<1>4. Mount[2].path = SLASH \o DevName /\ Mount[2].fs = "devfs"
  <2> DEFINE x == SLASH \o DevName
  <2>1. Mount[2] = [path |-> x, fs |-> "devfs"]
    BY FileSystemsAssumption, Zenon DEF DevName
  <2> HIDE DEF x
  <2>2. Mount[2].path = x /\ Mount[2].fs = "devfs"
    BY <2>1
  <2> QED
    BY <2>2 DEF x
<1>5. MountNames(1) = <<>>
  <2>1. PICK e \in Seq(Chr) : e = <<>>
    <3>1. <<>> \in Seq(Chr)
      OBVIOUS
    <3> QED
      BY <3>1
  <2>2. Names(SLASH \o e) = Names(e)
    BY NamesOfSlashes
  <2>3. SLASH \o e = SLASH
    BY <2>1, Characters, ConcatEmptySeq
  <2> QED
    BY <1>2, <2>1, <2>2, <2>3, NamesOfWord DEF MountNames
<1>6. MountNames(2) = <<DevName>>
  <2>1. DevName \in Seq(Chr)
    BY <1>3, Characters
  <2>2. Names(SLASH \o DevName) = <<DevName>>
    BY <1>3, <2>1, NamesOfSlashes, NamesOfWord
  <2> QED
    BY <1>4, <2>2 DEF MountNames
<1> QED
  BY <1>1, <1>2, <1>3, <1>4, <1>5, <1>6

\* To begin with one element.
LEMMA OneIsPrefix ==
  ASSUME NEW D, NEW T, NEW t \in Seq(T)
  PROVE  IsPrefix(<<D>>, t) <=> t # <<>> /\ t[1] = D
<1> DEFINE z == <<D>>
<1>1. z \in Seq({D}) /\ Len(z) = 1 /\ z[1] = D
  OBVIOUS
<1>2. SubSeq(z, 1, 1) = <<D>>
  <2>1. SubSeq(z, 1, Len(z)) = z
    <3> HIDE DEF z
    <3> QED
      BY <1>1, SubSeqFull
  <2> QED
    BY <1>1, <2>1
<1>3. IsPrefix(z, t) <=> 1 <= Len(t) /\ <<D>> = SubSeq(t, 1, 1)
  <2> HIDE DEF z
  <2> QED
    BY <1>1, <1>2 DEF IsPrefix
<1> HIDE DEF z
<1>4. CASE t = <<>>
  <2>1. ~(1 <= Len(t))
    BY <1>4
  <2> QED
    BY <1>3, <1>4, <2>1 DEF z
<1>5. CASE t # <<>>
  <2> DEFINE a == SubSeq(t, 1, 1)
             b == <<t[1]>>
  <2>1. 1 <= Len(t)
    BY <1>5
  <2>2. a \in Seq(T) /\ Len(a) = 1 /\ a[1] = t[1]
    BY <2>1
  <2>3. t[1] \in T /\ b \in Seq(T) /\ Len(b) = 1 /\ b[1] = t[1]
    BY <2>1
  <2> HIDE DEF a, b
  <2>4. \A k \in 1 .. Len(a) : a[k] = b[k]
    BY <2>2, <2>3
  <2>5. a = b
    BY ONLY <2>2, <2>3, <2>4, SeqEqual
  <2>6. IsPrefix(z, t) <=> <<D>> = a
    BY <1>3, <2>1 DEF a
  <2>7. <<D>> = b <=> t[1] = D
    BY DEF b
  <2> QED
    BY <1>5, <2>5, <2>6, <2>7 DEF z
<1> QED
  BY <1>4, <1>5

LEMMA HiddenIs ==
  ASSUME NEW t \in Seq(Word)
  PROVE  /\ IsPrefix(<<DevName>>, t) <=> t # <<>> /\ t[1] = DevName
         /\ Hidden(t) <=> t # <<>> /\ t[1] = DevName
<1>1. IsPrefix(<<DevName>>, t) <=> t # <<>> /\ t[1] = DevName
  BY OneIsPrefix
<1>2. Hidden(t) <=> IsPrefix(MountNames(2), t)
  BY MountsAre DEF Hidden
<1> QED
  BY <1>1, <1>2, MountsAre

LEMMA RegistryIs ==
  /\ Len(registry) \in Nat /\ DOMAIN registry = 1 .. Len(registry)
  /\ \A i \in 1 .. Len(registry) :
       /\ registry[i].name \in Word /\ registry[i].name # <<>>
       /\ registry[i].kind \in Kind \ {"dir"} /\ registry[i].size \in Nat
<1>1. registry \in Seq([name : Name, kind : Kind \ {"dir"}, size : Nat])
  BY FileSystemsAssumption, Zenon
<1>2. Name \subseteq Word
  BY Characters
<1>3. \A i \in 1 .. Len(registry) : registry[i] \in [name : Name, kind : Kind \ {"dir"}, size : Nat]
  BY <1>1, ElementOfSeq
<1>4. ASSUME NEW i \in 1 .. Len(registry)
      PROVE  /\ registry[i].name \in Word /\ registry[i].name # <<>>
             /\ registry[i].kind \in Kind \ {"dir"} /\ registry[i].size \in Nat
  <2>1. /\ registry[i].name \in Name /\ registry[i].kind \in Kind \ {"dir"} /\ registry[i].size \in Nat
    BY <1>3
  <2> QED
    BY <1>2, <2>1, WordIs
<1>5. Len(registry) \in Nat /\ DOMAIN registry = 1 .. Len(registry)
  BY <1>1, LenProperties
<1> QED
  BY <1>4, <1>5

\* The nodes: the roots, the devices and the members.
InArchive(t) == [fs |-> "initrd", path |-> Joined(t)]
Device(n)    == [fs |-> "devfs", path |-> n]

\* The nodes: the roots, the devices and the members that are not hidden.
LEMMA NodesAre ==
  /\ Root("initrd") \in Node /\ Root("initrd") = InArchive(<<>>) /\ Root("devfs") \in Node
  /\ \A i \in 1 .. Len(registry) : Device(registry[i].name) \in Node
  /\ \A i \in 1 .. Len(Member) : ~Hidden(Shown(Member[i])) => InArchive(Shown(Member[i])) \in Node
  /\ \A node \in Node :
       \/ node = Root("initrd")
       \/ node = Root("devfs")
       \/ \E i \in 1 .. Len(registry) : node = Device(registry[i].name)
       \/ \E i \in 1 .. Len(Member) :
            ~Hidden(Shown(Member[i])) /\ node = InArchive(Shown(Member[i]))
<1>1. {Root(Mount[i].fs) : i \in DOMAIN Mount} = {Root("initrd"), Root("devfs")}
  BY MountsAre
<1>2. Root("initrd") = InArchive(<<>>)
  BY JoinedIs DEF Root, InArchive
<1>3. ToSet(registry) = {registry[i] : i \in 1 .. Len(registry)}
  BY RegistryIs DEF ToSet
<1>4. \A m : MemberNode(m) = InArchive(Shown(m))
  BY DEF MemberNode, InArchive
<1>5. Archived = {m \in {Member[i] : i \in 1 .. Len(Member)} : ~Hidden(Shown(m))}
  BY Members DEF Archived
<1>6. Node = {Root("initrd"), Root("devfs")}
               \cup {Device(d.name) : d \in {registry[i] : i \in 1 .. Len(registry)}}
               \cup {InArchive(Shown(m)) :
                       m \in {n \in {Member[i] : i \in 1 .. Len(Member)} : ~Hidden(Shown(n))}}
  <2> HIDE DEF InArchive
  <2> QED
    BY <1>1, <1>3, <1>4, <1>5 DEF Node, Device
<1> HIDE DEF InArchive, Device, Root
<1> QED
  BY <1>2, <1>6

\* What matches a path is the one member of that name, if there is one.
LEMMA MatchesAre ==
  ASSUME NEW t \in Seq(Word)
  PROVE  /\ Matches(Joined(t)) = {i \in 1 .. Len(Member) : Shown(Member[i]) = t}
         /\ \A i \in 1 .. Len(Member) : Shown(Member[i]) = t => Min(Matches(Joined(t))) = i
<1>1. ASSUME NEW i \in 1 .. Len(Member)
      PROVE  Scan[i].path = Joined(t) <=> Shown(Member[i]) = t
  BY ScanHas, JoinedInjective
<1>2. Matches(Joined(t)) = {i \in 1 .. Len(Member) : Shown(Member[i]) = t}
  BY <1>1, ScanHas DEF Matches
<1>3. ASSUME NEW i \in 1 .. Len(Member), Shown(Member[i]) = t PROVE Min(Matches(Joined(t))) = i
  <2>1. Matches(Joined(t)) = {i}
    BY <1>2, <1>3, Members
  <2> DEFINE T == Matches(Joined(t))
  <2>2. T \subseteq Nat /\ T # {} /\ T = {i}
    BY <2>1
  <2> HIDE DEF T
  <2>3. Min(T) \in T
    BY <2>2, MinIsLeast, Zenon
  <2> QED
    BY <2>2, <2>3 DEF T
<1> QED
  BY <1>2, <1>3

\* With their kinds and sizes.
LEMMA EntriesAre ==
  /\ \A fs : Entry(Root(fs)) = [kind |-> "dir", size |-> 0]
  /\ \A n \in Word : Registered(n) # {} =>
       Entry(Device(n)).kind \in Kind \ {"dir"} /\ Entry(Device(n)).size \in Nat
  /\ \A i \in 1 .. Len(Member) :
       LET m == Member[i] IN
       Entry(InArchive(Shown(m))) = [kind |-> IF m.dir THEN "dir" ELSE "file", size |-> m.size]
<1>1. \A fs : Entry(Root(fs)) = [kind |-> "dir", size |-> 0]
  BY DEF Entry, Root
<1>2. ASSUME NEW n \in Word, Registered(n) # {}
      PROVE  Entry(Device(n)).kind \in Kind \ {"dir"} /\ Entry(Device(n)).size \in Nat
  <2> DEFINE d == registry[Min(Registered(n))]
  <2>1. Registered(n) \subseteq Nat /\ Registered(n) \subseteq 1 .. Len(registry)
    BY RegistryIs DEF Registered
  <2>2. Min(Registered(n)) \in Registered(n)
    BY <1>2, <2>1, MinIsLeast, Zenon
  <2>3. d.kind \in Kind \ {"dir"} /\ d.size \in Nat
    BY <2>1, <2>2, RegistryIs
  <2>4. n # <<>>
    BY WordIs
  <2>5. Entry(Device(n)) = [kind |-> d.kind, size |-> d.size]
    BY <2>4 DEF Entry, Device
  <2> HIDE DEF d
  <2> QED
    BY <2>3, <2>5
<1>3. ASSUME NEW i \in 1 .. Len(Member)
      PROVE  Entry(InArchive(Shown(Member[i])))
               = [kind |-> IF Member[i].dir THEN "dir" ELSE "file", size |-> Member[i].size]
  <2> DEFINE t == Shown(Member[i])
             j == Joined(t)
  <2>1. t \in Seq(Word) /\ t # <<>>
    BY ScanHas
  <2>2. j # <<>> /\ Min(Matches(j)) = i
    <3> HIDE DEF t
    <3>1. j # <<>>
      BY <2>1, JoinedOfNone
    <3> QED
      BY <2>1, <3>1, MatchesAre DEF t
  <2>3. initrd_lookup(j) = Scan[i]
    BY <2>2 DEF initrd_lookup
  <2>4. Entry(InArchive(t)) = [kind |-> IF initrd_lookup(j).dir THEN "dir" ELSE "file",
                               size |-> initrd_lookup(j).size]
    <3> HIDE DEF t
    <3> QED
      BY <2>2 DEF Entry, InArchive
  <2> QED
    BY <2>3, <2>4, ScanHas
<1> QED
  BY <1>1, <1>2, <1>3

\* Which of them are directories.
LEMMA DirectoriesAre ==
  /\ IsDir(Root("initrd")) /\ IsDir(Root("devfs")) /\ ~IsDir(NoNode)
  /\ \A n \in Word : Registered(n) # {} => ~IsDir(Device(n))
  /\ \A i \in 1 .. Len(Member) : IsDir(InArchive(Shown(Member[i]))) <=> Member[i].dir
<1>1. \A fs : fs # "none" => Root(fs) # NoNode
  BY DEF Root, NoNode
<1>2. \A t : InArchive(t) # NoNode
  BY DEF InArchive, NoNode
<1>3. IsDir(Root("initrd")) /\ IsDir(Root("devfs")) /\ ~IsDir(NoNode)
  <2>1. \A fs : Entry(Root(fs)).kind = "dir"
    BY EntriesAre
  <2> QED
    BY <1>1, <2>1 DEF IsDir
<1>4. \A n \in Word : Registered(n) # {} => ~IsDir(Device(n))
  BY EntriesAre DEF IsDir
<1>5. ASSUME NEW i \in 1 .. Len(Member) PROVE IsDir(InArchive(Shown(Member[i]))) <=> Member[i].dir
  <2> DEFINE e == Entry(InArchive(Shown(Member[i])))
  <2>1. e.kind = IF Member[i].dir THEN "dir" ELSE "file"
    <3>1. e = [kind |-> IF Member[i].dir THEN "dir" ELSE "file", size |-> Member[i].size]
      BY EntriesAre
    <3> HIDE DEF e
    <3> QED
      BY <3>1
  <2>2. IsDir(InArchive(Shown(Member[i]))) <=> e.kind = "dir"
    BY <1>2 DEF IsDir
  <2> HIDE DEF e
  <2> QED
    BY <2>1, <2>2, Members
<1> QED
  BY <1>3, <1>4, <1>5

\* The path of a child fits its buffer.
LEMMA ChildPathIs ==
  ASSUME NEW ns \in Seq(Word), NEW n \in Word, Len(Joined(ns \o <<n>>)) < MAX_NAME
  PROVE  child_path(InArchive(ns), n) = Joined(ns \o <<n>>)
<1> DEFINE t == ns \o <<n>>
           j == Joined(t)
<1>1. t \in Seq(Word) /\ j = IF Joined(ns) = <<>> THEN n ELSE Joined(ns) \o SLASH \o n
  BY JoinedTo
<1>2. j \in Seq(Chr) /\ Len(j) < MAX_NAME
  <2> HIDE DEF t
  <2>1. j \in Seq(Chr)
    BY <1>1, JoinedIs
  <2> QED
    BY <2>1 DEF t
<1>3. child_path(InArchive(ns), n) = Cut(j, MAX_NAME)
  <2> DEFINE a == Joined(ns)
             b == a \o SLASH \o n
  <2> HIDE DEF b, j, a
  <2>1. j = IF a = <<>> THEN n ELSE b
    BY <1>1 DEF a, b
  <2>2. InArchive(ns).path = a
    BY DEF InArchive, a
  <2>3. child_path(InArchive(ns), n) = Cut(IF a = <<>> THEN n ELSE b, MAX_NAME)
    BY <2>2 DEF child_path, b
  <2> QED
    BY <2>1, <2>3
<1> HIDE DEF t, j
<1>4. Minimum(Len(j), MAX_NAME - 1) = Len(j)
  BY <1>2, ArchiveConstants DEF Minimum
<1>5. SubSeq(j, 1, Len(j)) = j
  BY <1>2, SubSeqFull
<1> QED
  BY <1>3, <1>4, <1>5 DEF Cut, j, t

\* What finddir finds in a directory of the archive.
LEMMA FindInArchive ==
  ASSUME NEW ns \in Seq(Word), NEW n \in Word, Len(Joined(ns \o <<n>>)) < MAX_NAME,
         IsDir(InArchive(ns))
  PROVE  finddir(InArchive(ns), n) =
           IF \E i \in 1 .. Len(Member) : Shown(Member[i]) = ns \o <<n>>
           THEN InArchive(ns \o <<n>>) ELSE NoNode
<1> DEFINE t == ns \o <<n>>
           node == InArchive(ns)
           c == child_path(node, n)
<1>1. c = Joined(t) /\ t \in Seq(Word)
  BY ChildPathIs, JoinedTo
<1>2. node.fs = "initrd" /\ \A p : [node EXCEPT !.path = p] = [fs |-> "initrd", path |-> p]
  BY DEF InArchive
<1>3. IsDir(node)
  OBVIOUS
<1> HIDE DEF t, node
<1>4. Matches(c) = {i \in 1 .. Len(Member) : Shown(Member[i]) = t}
  BY <1>1, MatchesAre
<1>5. finddir(node, n) = IF Matches(c) # {} THEN [node EXCEPT !.path = c] ELSE NoNode
  BY <1>2, <1>3 DEF finddir, initrd_dir_finddir
<1>6. [node EXCEPT !.path = c] = InArchive(t)
  BY <1>1, <1>2 DEF InArchive
<1> HIDE DEF c
<1>7. finddir(node, n) = IF \E i \in 1 .. Len(Member) : Shown(Member[i]) = t THEN InArchive(t) ELSE NoNode
  BY <1>4, <1>5, <1>6
<1> QED
  BY <1>7 DEF t, node

------------------------------------------------------------------------------
(***************************************************************************)
(* Directories list their children.                                        *)
(***************************************************************************)
LEMMA ArchiveLists ==
  ASSUME NEW t \in Seq(Word), IsDir(InArchive(t))
  PROVE  LET node == InArchive(t) IN
         /\ \A max, i : vfs_readdir(node, i, max) =
              IF i < Len(NamesIn(node)) THEN Cut(NamesIn(node)[i + 1], max) ELSE <<>>
         /\ \A name \in ToSet(NamesIn(node)) : finddir(node, name) # NoNode
<1> DEFINE node == InArchive(t)
           in == [i \in DOMAIN Member |->
                    IF Front(Shown(Member[i])) = t THEN Last(Shown(Member[i])) ELSE <<>>]
<1>1. node.fs = "initrd" /\ node.path = Joined(t) /\ IsDir(node)
  BY DEF InArchive
<1>2. Names(node.path) = t
  BY <1>1, NamesOfJoined
<1>3. NamesIn(node) = Found(in)
  <2> HIDE DEF node
  <2> QED
    BY <1>1, <1>2 DEF NamesIn
<1>4. /\ Children(node.path) = Found(in) /\ Len(in) = Len(Member)
      /\ in \in Seq(Word \cup {<<>>})
  BY <1>1, ChildrenAre
<1>5. \A i \in 1 .. Len(Member) :
        in[i] = IF Front(Shown(Member[i])) = t THEN Last(Shown(Member[i])) ELSE <<>>
  BY Members
<1> HIDE DEF in
<1>6. \A max, i : vfs_readdir(node, i, max) =
        IF i < Len(NamesIn(node)) THEN Cut(NamesIn(node)[i + 1], max) ELSE <<>>
  <2>1. \A max, i : vfs_readdir(node, i, max) = initrd_dir_readdir(node.path, i, max)
    <3> HIDE DEF node
    <3> QED
      BY <1>1 DEF vfs_readdir
  <2>2. Children(node.path) = NamesIn(node)
    BY <1>3, <1>4
  <2> HIDE DEF node
  <2> QED
    BY <2>1, <2>2 DEF initrd_dir_readdir
<1>7. ASSUME NEW name \in ToSet(NamesIn(node)) PROVE finddir(node, name) # NoNode
  <2>1. name \in Word /\ \E i \in 1 .. Len(in) : in[i] = name
    BY <1>3, <1>4, FoundIs
  <2>2. PICK i \in 1 .. Len(Member) : in[i] = name
    BY <1>4, <2>1
  <2> DEFINE s == Shown(Member[i])
             u == t \o <<name>>
  <2>3. Front(s) = t /\ Last(s) = name
    <3>1. name # <<>>
      BY <2>1, WordIs
    <3> QED
      BY <1>5, <2>2, <3>1
  <2>4. s \in Seq(Word) /\ s # <<>> /\ Len(Joined(s)) < MAX_NAME
    BY ScanHas, Members
  <2>5. s = u
    <3> HIDE DEF s
    <3>1. s = Front(s) \o <<Last(s)>>
      BY <2>4, FrontAndLast
    <3> QED
      BY <2>3, <3>1
  <2> HIDE DEF u
  <2>6. Len(Joined(u)) < MAX_NAME /\ \E k \in 1 .. Len(Member) : Shown(Member[k]) = u
    BY <2>4, <2>5
  <2>7. finddir(node, name) = InArchive(u)
    BY <1>1, <2>1, <2>6, FindInArchive DEF u
  <2>8. InArchive(u) # NoNode
    BY DEF InArchive, NoNode
  <2> QED
    BY <2>7, <2>8
<1> HIDE DEF node
<1> QED
  BY <1>6, <1>7 DEF node

LEMMA DevicesList ==
  LET node == Root("devfs") IN
  /\ \A max : \A i \in Nat : vfs_readdir(node, i, max) =
       IF i < Len(NamesIn(node)) THEN Cut(NamesIn(node)[i + 1], max) ELSE <<>>
  /\ \A name \in ToSet(NamesIn(node)) : finddir(node, name) # NoNode
<1> DEFINE node == Root("devfs")
           ns == [i \in DOMAIN registry |-> registry[i].name]
<1>1. node.fs = "devfs" /\ IsDir(node)
  BY DirectoriesAre DEF Root
<1>2. NamesIn(node) = ns
  <2> HIDE DEF node
  <2> QED
    BY <1>1 DEF NamesIn
<1>3. Len(ns) = Len(registry) /\ DOMAIN ns = 1 .. Len(registry)
      /\ \A i \in 1 .. Len(registry) : ns[i] = registry[i].name
  BY RegistryIs
<1> HIDE DEF ns
<1>4. ASSUME NEW max, NEW i \in Nat
      PROVE  vfs_readdir(node, i, max) =
               IF i < Len(NamesIn(node)) THEN Cut(NamesIn(node)[i + 1], max) ELSE <<>>
  <2>1. vfs_readdir(node, i, max) = devfs_root_readdir(i, max)
    <3> HIDE DEF node
    <3> QED
      BY <1>1 DEF vfs_readdir
  <2> HIDE DEF node
  <2>2. i < Len(registry) => ns[i + 1] = registry[i + 1].name
    BY <1>3, RegistryIs
  <2> QED
    BY <1>2, <1>3, <2>1, <2>2 DEF devfs_root_readdir
<1>5. ASSUME NEW name \in ToSet(NamesIn(node)) PROVE finddir(node, name) # NoNode
  <2>1. PICK i \in 1 .. Len(registry) : name = registry[i].name
    BY <1>2, <1>3 DEF ToSet
  <2>2. Registered(name) # {}
    BY <2>1, RegistryIs DEF Registered
  <2>3. finddir(node, name) = [node EXCEPT !.path = name]
    <3> HIDE DEF node
    <3> QED
      BY <1>1, <2>2 DEF finddir, devfs_root_finddir
  <2> QED
    BY <2>3 DEF Root, NoNode
<1> HIDE DEF node
<1> QED
  BY <1>4, <1>5 DEF node

\* In both file systems.
LEMMA DirectoriesListed == DirectoriesListTheirChildren
<1>1. ASSUME NEW node \in Node, IsDir(node)
      PROVE  /\ \A max : \A i \in Nat : vfs_readdir(node, i, max) =
                  IF i < Len(NamesIn(node)) THEN Cut(NamesIn(node)[i + 1], max) ELSE <<>>
             /\ \A name \in ToSet(NamesIn(node)) : finddir(node, name) # NoNode
  <2>1. CASE node = Root("initrd")
    <3>1. <<>> \in Seq(Word) /\ node = InArchive(<<>>)
      BY <2>1, NodesAre
    <3> QED
      BY <1>1, <3>1, ArchiveLists
  <2>2. CASE node = Root("devfs")
    BY <2>2, DevicesList
  <2>3. CASE \E i \in 1 .. Len(registry) : node = Device(registry[i].name)
    <3>1. PICK i \in 1 .. Len(registry) : node = Device(registry[i].name)
      BY <2>3
    <3>2. registry[i].name \in Word /\ Registered(registry[i].name) # {}
      BY RegistryIs DEF Registered
    <3> QED
      BY <1>1, <3>1, <3>2, DirectoriesAre
  <2>4. CASE \E i \in 1 .. Len(Member) : node = InArchive(Shown(Member[i]))
    <3>1. PICK i \in 1 .. Len(Member) : node = InArchive(Shown(Member[i]))
      BY <2>4
    <3>2. Shown(Member[i]) \in Seq(Word)
      BY ScanHas
    <3> QED
      BY <1>1, <3>1, <3>2, ArchiveLists
  <2> QED
    BY <2>1, <2>2, <2>3, <2>4, NodesAre
<1>2. ASSUME NEW m \in Archived
      PROVE  Entry(MemberNode(m)) = [kind |-> IF m.dir THEN "dir" ELSE "file", size |-> m.size]
  <2>1. PICK i \in 1 .. Len(Member) : m = Member[i]
    BY Members DEF Archived
  <2>2. MemberNode(m) = InArchive(Shown(Member[i]))
    BY <2>1 DEF MemberNode, InArchive
  <2> QED
    BY <2>1, <2>2, EntriesAre
<1> SUFFICES ASSUME NEW node \in Node, IsDir(node)
             PROVE  /\ \A max \in {2, MAX_NAME}, i \in 0 .. Len(NamesIn(node)) :
                         vfs_readdir(node, i, max) =
                           IF i < Len(NamesIn(node)) THEN Cut(NamesIn(node)[i + 1], max) ELSE <<>>
                    /\ \A name \in ToSet(NamesIn(node)) : finddir(node, name) # NoNode
  BY <1>2 DEF DirectoriesListTheirChildren
<1> QED
  BY <1>1

------------------------------------------------------------------------------
(***************************************************************************)
(* Where names lead.                                                       *)
(***************************************************************************)
Vnode == {NoNode} \cup [fs : {"initrd", "devfs"}, path : Seq(Chr)]

WalkStep == [x \in Vnode \X Word |-> finddir(x[1], x[2])]

LEMMA FindIsVnode == \A v \in Vnode, n \in Word : finddir(v, n) \in Vnode
<1> SUFFICES ASSUME NEW v \in Vnode, NEW n \in Word PROVE finddir(v, n) \in Vnode
  OBVIOUS
<1>1. CASE ~IsDir(v)
  BY <1>1 DEF finddir, Vnode
<1>2. CASE IsDir(v)
  <2>1. v \in [fs : {"initrd", "devfs"}, path : Seq(Chr)]
    BY <1>2 DEF IsDir, Vnode
  <2>2. n \in Seq(Chr) /\ v.path \in Seq(Chr)
    BY <2>1, Characters
  <2>3. child_path(v, n) \in Seq(Chr)
    <3> DEFINE a == v.path
               j == IF a = <<>> THEN n ELSE a \o SLASH \o n
    <3>1. j \in Seq(Chr)
      <4>1. a \in Seq(Chr)
        BY <2>2
      <4> HIDE DEF a
      <4>2. a \o SLASH \in Seq(Chr)
        BY <4>1, NamesOfSlashes
      <4>3. (a \o SLASH) \o n \in Seq(Chr)
        BY <2>2, <4>2, ConcatProperties
      <4> QED
        BY <2>2, <4>3
    <3>2. child_path(v, n) = SubSeq(j, 1, Minimum(Len(j), MAX_NAME - 1))
      BY DEF child_path, Cut
    <3> HIDE DEF j
    <3>3. Minimum(Len(j), MAX_NAME - 1) \in 0 .. Len(j)
      BY <3>1, ArchiveConstants DEF Minimum
    <3> QED
      BY <3>1, <3>2, <3>3
  <2>4. \A p \in Seq(Chr) : [v EXCEPT !.path = p] \in Vnode
    BY <2>1 DEF Vnode
  <2>5. NoNode \in Vnode
    BY DEF Vnode
  <2> QED
    BY <2>2, <2>3, <2>4, <2>5 DEF finddir, devfs_root_finddir, initrd_dir_finddir
<1> QED
  BY <1>1, <1>2

\* Name after name.
LEMMA WalkSteps ==
  ASSUME NEW root \in Vnode
  PROVE  /\ Walk(root, <<>>) = root
         /\ \A t \in Seq(Word), n \in Word : Walk(root, t \o <<n>>) = finddir(Walk(root, t), n)
<1>1. IsStep(Vnode, Word, root, WalkStep)
      /\ \A v \in Vnode, n \in Word : WalkStep[<<v, n>>] = finddir(v, n)
  BY FindIsVnode DEF IsStep, WalkStep
<1>2. ASSUME NEW t \in Seq(Word) PROVE Walk(root, t) = Result(WalkStep, root, t)
  <2> DEFINE n == Len(t)
             IsW(w) == w = [i \in 0 .. n |-> IF i = 0 THEN root ELSE finddir(w[i - 1], t[i])]
             w == CHOOSE w : IsW(w)
  <2>1. n \in Nat /\ \A i \in 1 .. n : t[i] \in Word /\ i - 1 \in 0 .. n
    OBVIOUS
  <2>2. PICK f \in [0 .. n -> Vnode] : Steps(WalkStep, root, t, f)
    BY <1>1, StepsExist
  <2>3. f[0] = root /\ \A i \in 1 .. n : f[i] = WalkStep[<<f[i - 1], t[i]>>]
    BY <2>2 DEF Steps
  <2>4. IsW(f)
    <3>1. ASSUME NEW i \in 1 .. n PROVE f[i] = finddir(f[i - 1], t[i])
      <4>1. f[i - 1] \in Vnode /\ t[i] \in Word
        BY <2>1, <2>2
      <4> QED
        BY <1>1, <2>3, <4>1
    <3> HIDE DEF n
    <3>2. \A i \in 0 .. n : f[i] = IF i = 0 THEN root ELSE finddir(f[i - 1], t[i])
      BY <2>1, <2>3, <3>1
    <3> QED
      BY <2>2, <3>2
  <2>5. IsW(w)
    <3> HIDE DEF IsW
    <3> QED
      BY <2>4, Zenon
  <2>6. Walk(root, t) = w[n]
    BY DEF Walk
  <2> HIDE DEF w
  <2>7. w[0] = root /\ \A i \in 1 .. n : w[i] = finddir(w[i - 1], t[i])
    BY <2>1, <2>5
  <2>8. \A i \in 1 .. n : w[i - 1] \in Vnode => w[i] = WalkStep[<<w[i - 1], t[i]>>]
    BY <1>1, <2>1, <2>7
  <2>9. Result(WalkStep, root, t) = w[Len(t)]
    BY <1>1, <2>7, <2>8, Recursive
  <2> QED
    BY <2>6, <2>9
<1>3. /\ Result(WalkStep, root, <<>>) = root
      /\ \A t \in Seq(Word) : Result(WalkStep, root, t) \in Vnode
      /\ \A t \in Seq(Word), n \in Word :
           Result(WalkStep, root, t \o <<n>>) = WalkStep[<<Result(WalkStep, root, t), n>>]
  BY <1>1, ResultSteps
<1>4. <<>> \in Seq(Word) /\ \A t \in Seq(Word), n \in Word : t \o <<n>> \in Seq(Word)
  OBVIOUS
<1>5. Walk(root, <<>>) = root
  BY <1>2, <1>3, <1>4
<1>6. ASSUME NEW t \in Seq(Word), NEW n \in Word
      PROVE  Walk(root, t \o <<n>>) = finddir(Walk(root, t), n)
  <2> DEFINE u == t \o <<n>>
  <2>1. u \in Seq(Word) /\ Result(WalkStep, root, u) = WalkStep[<<Result(WalkStep, root, t), n>>]
    BY <1>3, <1>4
  <2> HIDE DEF u
  <2>2. Walk(root, u) = WalkStep[<<Walk(root, t), n>>] /\ Walk(root, t) \in Vnode
    BY <1>2, <1>3, <2>1
  <2> QED
    BY <1>1, <2>2 DEF u
<1> QED
  BY <1>5, <1>6

\* The directories that a file is in.
Shows(i, t)   == i \in 1 .. Len(Member) /\ Shown(Member[i]) = t
InDirectory(t) == t = <<>> \/ \E i \in 1 .. Len(Member) : Shows(i, t) /\ Member[i].dir
Exists(t)      == t = <<>> \/ \E i \in 1 .. Len(Member) : Shows(i, t)

\* What is reached is in a directory that is reached.
LEMMA ReachedStep ==
  ASSUME NEW t \in Seq(Word), NEW n \in Word
  PROVE  /\ Reached(<<>>)
         /\ Reached(t \o <<n>>) <=> Reached(t) /\ InDirectory(t)
<1> DEFINE u == t \o <<n>>
           L == Len(t)
           Has(s) == \E i \in 1 .. Len(Member) : Member[i].dir /\ Shown(Member[i]) = s
<1>1. \A s : (\E m \in ToSet(Member) : m.dir /\ Shown(m) = s) <=> Has(s)
  BY Members
<1> HIDE DEF Has
<1>2. \A s : Reached(s) <=> \A k \in 1 .. Len(s) - 1 : Has(SubSeq(s, 1, k))
  BY <1>1 DEF Reached
<1>3. Reached(<<>>)
  <2>1. Len(<<>>) = 0
    OBVIOUS
  <2> QED
    BY <1>2, <2>1
<1>4. L \in Nat /\ u \in Seq(Word) /\ Len(u) = L + 1
  OBVIOUS
<1>5. ASSUME NEW k \in 1 .. L PROVE SubSeq(u, 1, k) = SubSeq(t, 1, k)
  <2> DEFINE a == SubSeq(u, 1, k)
             b == SubSeq(t, 1, k)
  <2>1. a \in Seq(Word) /\ b \in Seq(Word) /\ Len(a) = k /\ Len(b) = k
        /\ \A i \in 1 .. k : a[i] = t[i] /\ b[i] = t[i]
    BY <1>4
  <2> HIDE DEF a, b
  <2> QED
    BY <2>1, SeqEqual DEF a, b
<1>6. SubSeq(t, 1, L) = t
  BY SubSeqFull
<1> HIDE DEF u, L
<1>7. Reached(u) <=> \A k \in 1 .. L : Has(SubSeq(t, 1, k))
  <2>1. Len(u) - 1 = L
    BY <1>4
  <2>2. Reached(u) <=> \A k \in 1 .. L : Has(SubSeq(u, 1, k))
    BY <1>2, <2>1
  <2>3. ASSUME NEW k \in 1 .. L PROVE Has(SubSeq(u, 1, k)) <=> Has(SubSeq(t, 1, k))
    BY <1>5, Zenon
  <2> QED
    BY <2>2, <2>3, Zenon
<1>8. Reached(t) <=> \A k \in 1 .. L - 1 : Has(SubSeq(t, 1, k))
  BY <1>2 DEF L
<1>9. InDirectory(t) <=> (L = 0 \/ Has(t))
  <2>1. L = 0 <=> t = <<>>
    BY DEF L
  <2> QED
    BY <2>1 DEF InDirectory, Shows, Has
<1>10. Reached(u) <=> Reached(t) /\ InDirectory(t)
  <2>1. CASE L = 0
    BY <1>7, <1>8, <1>9, <2>1
  <2>2. CASE L # 0
    <3>1. 1 .. L = (1 .. L - 1) \cup {L}
      BY <1>4, <2>2
    <3>2. (\A k \in 1 .. L : Has(SubSeq(t, 1, k)))
            <=> (\A k \in 1 .. L - 1 : Has(SubSeq(t, 1, k))) /\ Has(SubSeq(t, 1, L))
      BY <3>1, Zenon
    <3> QED
      BY <1>6, <1>7, <1>8, <1>9, <2>2, <3>2
  <2> QED
    BY <2>1, <2>2
<1> QED
  BY <1>3, <1>10 DEF u

\* In the archive, names lead to what they are the names of, through
\* directories that are archived, or to nothing.
LEMMA WalkInArchive ==
  ASSUME NEW t \in Seq(Word), Len(Joined(t)) < MAX_NAME
  PROVE  Walk(Root("initrd"), t) =
           IF Reached(t) /\ Exists(t) THEN InArchive(t) ELSE NoNode
<1> DEFINE root == Root("initrd")
           W(s) == Walk(root, s)
           Good(s) == Len(Joined(s)) < MAX_NAME =>
                        W(s) = IF Reached(s) /\ Exists(s) THEN InArchive(s) ELSE NoNode
           P == {s \in Seq(Word) : Good(s)}
<1>1. root = InArchive(<<>>) /\ root \in Vnode
  <2>1. <<>> \in Seq(Chr)
    OBVIOUS
  <2> QED
    BY <2>1, NodesAre DEF Root, Vnode
<1>2. W(<<>>) = root /\ \A s \in Seq(Word), n \in Word : W(s \o <<n>>) = finddir(W(s), n)
  BY <1>1, WalkSteps
<1>3. ASSUME NEW s \in Seq(Word) PROVE IsDir(InArchive(s)) /\ Exists(s) <=> InDirectory(s)
  <2>1. CASE s = <<>>
    BY <1>1, <2>1, DirectoriesAre DEF Exists, InDirectory
  <2>2. CASE s # <<>>
    <3>1. \A i \in 1 .. Len(Member) : Shown(Member[i]) = s => (IsDir(InArchive(s)) <=> Member[i].dir)
      BY DirectoriesAre
    <3> QED
      BY <2>2, <3>1 DEF Exists, InDirectory, Shows
  <2> QED
    BY <2>1, <2>2
<1> HIDE DEF root, W
<1>4. <<>> \in P
  <2>1. <<>> \in Seq(Word) /\ Exists(<<>>) /\ Reached(<<>>)
    <3>1. <<>> \in Seq(Word)
      OBVIOUS
    <3>2. PICK n \in Word : TRUE
      BY Characters
    <3> QED
      BY <3>1, <3>2, ReachedStep DEF Exists
  <2> QED
    BY <1>1, <1>2, <2>1
<1>5. ASSUME NEW s \in Seq(Word), NEW n \in Word, s \in P PROVE s \o <<n>> \in P
  <2> DEFINE u == s \o <<n>>
  <2>1. u \in Seq(Word) /\ u # <<>>
    BY FrontOfLonger, JoinedTo
  <2> SUFFICES ASSUME Len(Joined(u)) < MAX_NAME
               PROVE  W(u) = IF Reached(u) /\ Exists(u) THEN InArchive(u) ELSE NoNode
    BY <2>1
  <2>2. Len(Joined(s)) < MAX_NAME
    <3> DEFINE j == Joined(s)
    <3>1. j \in Seq(Chr) /\ n \in Seq(Chr) /\ Joined(u) \in Seq(Chr)
      BY <2>1, JoinedIs, Characters
    <3>2. CASE j = <<>>
      <4>1. Len(j) = 0
        BY <3>2
      <4> HIDE DEF j, u
      <4> QED
        BY <3>1, <4>1, ArchiveConstants DEF j
    <3>3. CASE j # <<>>
      <4>1. Joined(u) = (j \o SLASH) \o n
        BY <3>3, JoinedTo
      <4> HIDE DEF j
      <4>2. j \o SLASH \in Seq(Chr) /\ SLASH \in Seq(Chr)
        BY <3>1, NamesOfSlashes, Characters
      <4>3. Len(j \o SLASH) = Len(j) + Len(SLASH) /\ Len(j) \in Nat /\ Len(SLASH) \in Nat
        BY ONLY <3>1, <4>2, Behind
      <4> DEFINE b == j \o SLASH
      <4>4. b \in Seq(Chr) /\ Len(b) = Len(j) + Len(SLASH)
        BY <4>2, <4>3
      <4> HIDE DEF b
      <4>5. Len(b \o n) = Len(b) + Len(n) /\ Len(n) \in Nat
        BY ONLY <3>1, <4>4, Behind
      <4>6. Len(Joined(u)) >= Len(j)
        BY <4>1, <4>3, <4>4, <4>5 DEF b
      <4> HIDE DEF u
      <4> QED
        BY <3>1, <4>3, <4>6, ArchiveConstants DEF j
    <3> QED
      BY <3>2, <3>3
  <2>3. W(s) = IF Reached(s) /\ Exists(s) THEN InArchive(s) ELSE NoNode
    BY <1>5, <2>2
  <2>4. W(u) = finddir(W(s), n)
    BY <1>2
  <2>5. Reached(u) <=> Reached(s) /\ InDirectory(s)
    BY ReachedStep
  <2>6. CASE ~(Reached(s) /\ InDirectory(s))
    <3>1. ~IsDir(W(s))
      BY <1>3, <2>3, <2>6, DirectoriesAre
    <3> HIDE DEF u
    <3>2. W(u) = NoNode
      BY <2>4, <3>1 DEF finddir
    <3> QED
      BY <2>5, <2>6, <3>2
  <2>7. CASE Reached(s) /\ InDirectory(s)
    <3>1. W(s) = InArchive(s) /\ IsDir(InArchive(s))
      BY <1>3, <2>3, <2>7
    <3>2. finddir(InArchive(s), n) =
            IF \E i \in 1 .. Len(Member) : Shown(Member[i]) = u THEN InArchive(u) ELSE NoNode
      BY <3>1, FindInArchive
    <3> HIDE DEF u
    <3>3. Exists(u) <=> \E i \in 1 .. Len(Member) : Shown(Member[i]) = u
      BY <2>1 DEF Exists, Shows
    <3> QED
      BY <2>4, <2>5, <2>7, <3>1, <3>2, <3>3
  <2> QED
    BY <2>6, <2>7
<1>6. Seq(Word) \subseteq P
  <2> HIDE DEF P
  <2> QED
    BY <1>4, <1>5, SequenceInduction
<1> QED
  BY <1>6 DEF W, root

\* What follows a word does not shorten it: the first name is at least as long.
LEMMA FirstName ==
  ASSUME NEW n \in Word, NEW s \in Seq(Chr)
  PROVE  LET ns == Names(n \o s) IN
         ns \in Seq(Word) /\ ns # <<>> /\ Len(ns[1]) \in Nat /\ Len(n) \in Nat /\ Len(ns[1]) >= Len(n)
<1> DEFINE First(w) == IF w.names = <<>> THEN w.name ELSE w.names[1]
           P == {t \in Seq(Chr) : Len(First(State(n \o t))) >= Len(n)}
<1>1. n \in Seq(Chr) /\ n # <<>> /\ Len(n) \in Nat \ {0}
  BY Characters DEF Word
<1>2. \A w \in NameState : w.names \in Seq(Word) /\ w.name \in Seq(Ltr)
  BY DEF NameState
<1>3. \A t \in Seq(Chr) : n \o t \in Seq(Chr) /\ State(n \o t) \in NameState
  BY <1>1, ConcatProperties, StateSteps
\* A name that is ended or made longer is no shorter.
<1>4. ASSUME NEW w \in NameState, Len(First(w)) >= Len(n)
      PROVE  /\ EndName(w).names \in Seq(Word) /\ EndName(w).names # <<>>
             /\ EndName(w).names[1] = First(w) /\ First(EndName(w)) = First(w)
             /\ \A c \in Ltr : Len(First(Longer(w, c))) >= Len(n)
             /\ Len(First(w)) \in Nat
  <2> DEFINE ns == w.names
             a == w.name
             v == EndName(w)
  <2>1. ns \in Seq(Word) /\ a \in Seq(Ltr) /\ First(w) = IF ns = <<>> THEN a ELSE ns[1]
    BY <1>2
  <2>2. v \in NameState /\ v.names = (IF a = <<>> THEN ns ELSE ns \o <<a>>) /\ v.names \in Seq(Word)
    BY <1>2, EndNameIs
  <2>3. \A c : Longer(w, c).names = ns /\ Longer(w, c).name = a \o <<c>>
    BY DEF Longer
  <2> HIDE DEF ns, a
  <2>4. CASE ns = <<>>
    <3>1. a # <<>>
      <4>1. Len(a) >= Len(n)
        BY <1>4, <2>1, <2>4
      <4> QED
        BY <1>1, <2>1, <4>1
    <3>2. v.names # <<>> /\ v.names[1] = a
      <4>1. v.names = ns \o <<a>>
        BY <2>2, <3>1
      <4>2. ns \o <<a>> = <<a>>
        BY <2>4
      <4>3. v.names = <<a>>
        BY <4>1, <4>2
      <4> HIDE DEF v
      <4> QED
        BY <4>3
    <3>3. \A c \in Ltr : Len(a \o <<c>>) >= Len(n)
      <4>1. \A c \in Ltr : Len(a \o <<c>>) = Len(a) + 1 /\ Len(a) \in Nat
        BY <2>1
      <4>2. Len(a) >= Len(n)
        BY <1>4, <2>1, <2>4
      <4> QED
        BY <1>1, <4>1, <4>2
    <3>4. Len(First(w)) \in Nat
      <4>1. First(w) = a
        BY <2>1, <2>4
      <4> QED
        BY <2>1, <4>1
    <3>5. \A c \in Ltr : First(Longer(w, c)) = a \o <<c>>
      BY <2>3, <2>4
    <3>6. First(w) = a /\ First(v) = v.names[1]
      BY <2>1, <2>4, <3>2
    <3> HIDE DEF First, v
    <3>7. \A c \in Ltr : Len(First(Longer(w, c))) >= Len(n)
      BY <3>3, <3>5
    <3> QED
      BY <2>2, <3>2, <3>4, <3>6, <3>7 DEF v
  <2>5. CASE ns # <<>>
    <3>1. v.names # <<>> /\ v.names[1] = ns[1]
      <4> DEFINE b == ns \o <<a>>
      <4>1. a # <<>> => a \in Word
        BY <2>1 DEF Word
      <4>2. a # <<>> => b \in Seq(Word) /\ b # <<>> /\ b[1] = ns[1]
        BY <2>1, <2>5, <4>1
      <4> HIDE DEF b, v
      <4>3. v.names = IF a = <<>> THEN ns ELSE b
        BY <2>2 DEF b
      <4> QED
        BY <2>5, <4>2, <4>3
    <3>2. First(w) = ns[1] /\ \A c \in Ltr : First(Longer(w, c)) = ns[1]
      BY <2>1, <2>3, <2>5
    <3>3. First(v) = v.names[1]
      BY <3>1
    <3>4. ns[1] \in Seq(Ltr)
      <4>1. ns[1] \in Word
        BY <2>1, <2>5
      <4> QED
        BY <4>1, Characters
    <3> HIDE DEF First, v
    <3> QED
      BY <1>4, <2>2, <3>1, <3>2, <3>3, <3>4 DEF v
  <2> QED
    BY <2>4, <2>5
<1>5. <<>> \in P
  <2> DEFINE w == State(n)
  <2>1. n \o <<>> = n
    BY <1>1, ConcatEmptySeq
  <2>2. w = [names |-> <<>>, name |-> n]
    BY NamesOfWord
  <2> HIDE DEF w
  <2>3. First(w) = n
    BY <2>2
  <2>4. Len(First(w)) >= Len(n)
    BY <1>1, <2>3
  <2>5. <<>> \in Seq(Chr)
    OBVIOUS
  <2> HIDE DEF First
  <2> QED
    BY <2>1, <2>4, <2>5 DEF w
<1>6. ASSUME NEW t \in Seq(Chr), NEW c \in Chr, t \in P PROVE t \o <<c>> \in P
  <2> DEFINE w == State(n \o t)
             u == t \o <<c>>
  <2>1. w \in NameState /\ Len(First(w)) >= Len(n)
    BY <1>3, <1>6
  <2>2. n \o u = (n \o t) \o <<c>>
    <3>1. <<c>> \in Seq(Chr)
      OBVIOUS
    <3> QED
      BY ONLY <1>1, <3>1, Assoc, t \in Seq(Chr)
  <2>3. State(n \o u) = IF c = "/" THEN EndName(w) ELSE Longer(w, c)
    <3> DEFINE b == n \o t
    <3>1. b \in Seq(Chr)
      BY <1>3
    <3> HIDE DEF b, u
    <3>2. n \o u = b \o <<c>>
      BY <2>2 DEF b
    <3>3. State(b \o <<c>>) = IF c = "/" THEN EndName(State(b)) ELSE Longer(State(b), c)
      BY <3>1, StateSteps
    <3> QED
      BY <3>2, <3>3 DEF b
  <2>4. u \in Seq(Chr)
    OBVIOUS
  <2> HIDE DEF w, u, First
  <2>5. Len(First(State(n \o u))) >= Len(n)
    <3>1. CASE c = "/"
      <4>1. First(EndName(w)) = First(w)
        BY ONLY <1>4, <2>1
      <4> QED
        BY <2>1, <2>3, <3>1, <4>1
    <3>2. CASE c # "/"
      <4>1. c \in Ltr
        BY <3>2, Characters
      <4>2. Len(First(Longer(w, c))) >= Len(n)
        BY ONLY <1>4, <2>1, <4>1
      <4> QED
        BY <2>3, <3>2, <4>2
    <3> QED
      BY <3>1, <3>2
  <2> QED
    BY <2>4, <2>5 DEF u
<1>7. Seq(Chr) \subseteq P
  <2> HIDE DEF P
  <2> QED
    BY <1>5, <1>6, SequenceInduction
<1> DEFINE w == State(n \o s)
<1>8. w \in NameState /\ Len(First(w)) >= Len(n)
  BY <1>3, <1>7
<1>9. Names(n \o s) = EndName(w).names
  BY <1>3, NamesIs
<1> HIDE DEF w, First, P
<1>10. EndName(w).names \in Seq(Word) /\ EndName(w).names # <<>>
       /\ EndName(w).names[1] = First(w) /\ Len(First(w)) \in Nat
  BY ONLY <1>4, <1>8
<1> QED
  BY <1>1, <1>8, <1>9, <1>10

\* The devices are in one directory.
LEMMA WalkInDevices ==
  ASSUME NEW t \in Seq(Word)
  PROVE  Walk(Root("devfs"), t) =
           IF t = <<>> THEN Root("devfs")
           ELSE IF Len(t) = 1 /\ Registered(t[1]) # {} THEN Device(t[1])
           ELSE NoNode
<1> DEFINE root == Root("devfs")
           W(s) == Walk(root, s)
           V(s) == IF s = <<>> THEN root
                   ELSE IF Len(s) = 1 /\ Registered(s[1]) # {} THEN Device(s[1])
                   ELSE NoNode
           P == {s \in Seq(Word) : W(s) = V(s)}
<1>1. root \in Vnode /\ root.fs = "devfs" /\ IsDir(root)
      /\ \A n : [root EXCEPT !.path = n] = Device(n)
  <2>1. <<>> \in Seq(Chr)
    OBVIOUS
  <2> QED
    BY <2>1, DirectoriesAre DEF Root, Vnode, Device
<1>2. W(<<>>) = root /\ \A s \in Seq(Word), n \in Word : W(s \o <<n>>) = finddir(W(s), n)
  BY <1>1, WalkSteps
<1> HIDE DEF root, W
<1>3. <<>> \in P
  <2>1. <<>> \in Seq(Word)
    OBVIOUS
  <2> QED
    BY <1>2, <2>1
<1>4. ASSUME NEW s \in Seq(Word), NEW n \in Word, s \in P PROVE s \o <<n>> \in P
  <2> DEFINE u == s \o <<n>>
  <2>1. u \in Seq(Word) /\ u # <<>> /\ Len(u) = Len(s) + 1 /\ Len(s) \in Nat
    OBVIOUS
  <2>2. W(u) = finddir(W(s), n)
    BY <1>2
  <2>3. CASE s = <<>>
    <3>1. u = <<n>>
      BY <2>3
    <3>2. finddir(root, n) = IF Registered(n) # {} THEN [root EXCEPT !.path = n] ELSE NoNode
      BY <1>1 DEF finddir, devfs_root_finddir
    <3>3. W(s) = root
      BY <1>2, <2>3
    <3>4. W(u) = IF Registered(n) # {} THEN Device(n) ELSE NoNode
      BY <1>1, <2>2, <3>2, <3>3
    <3> HIDE DEF u
    <3>5. Len(u) = 1 /\ u[1] = n
      BY <3>1
    <3>6. W(u) = V(u)
      BY <2>1, <3>4, <3>5
    <3> QED
      BY <2>1, <3>6 DEF u
  <2>4. CASE s # <<>>
    <3>1. W(s) = V(s) /\ s[1] \in Word
      BY <1>4, <2>4
    <3>2. ~IsDir(W(s))
      BY <2>4, <3>1, DirectoriesAre
    <3>3. W(u) = NoNode
      BY <2>2, <3>2 DEF finddir
    <3> HIDE DEF u
    <3>4. Len(u) # 1
      BY <2>1, <2>4
    <3>5. W(u) = V(u)
      BY <2>1, <3>3, <3>4
    <3> QED
      BY <2>1, <3>5 DEF u
  <2> QED
    BY <2>3, <2>4
<1>5. Seq(Word) \subseteq P
  <2> HIDE DEF P
  <2> QED
    BY <1>3, <1>4, SequenceInduction
<1> QED
  BY <1>5 DEF W, root

------------------------------------------------------------------------------
(***************************************************************************)
(* Paths.                                                                  *)
(***************************************************************************)
LEMMA FullNamesAre ==
  /\ \A t \in Seq(Word) : FullName(InArchive(t)) = t
  /\ FullName(Root("devfs")) = <<DevName>>
  /\ \A n \in Word : FullName(Device(n)) = <<DevName>> \o <<n>>
<1>1. (CHOOSE i \in DOMAIN Mount : Mount[i].fs = "initrd") = 1
      /\ (CHOOSE i \in DOMAIN Mount : Mount[i].fs = "devfs") = 2
  BY MountsAre
<1>2. ASSUME NEW t \in Seq(Word) PROVE FullName(InArchive(t)) = t
  <2> DEFINE node == InArchive(t)
  <2>1. node.fs = "initrd" /\ node.path = Joined(t)
    BY DEF InArchive
  <2> HIDE DEF node
  <2>2. FullName(node) = MountNames(1) \o Names(Joined(t))
    BY <1>1, <2>1 DEF FullName
  <2>3. MountNames(1) = <<>> /\ Names(Joined(t)) = t
    BY MountsAre, NamesOfJoined
  <2>4. <<>> \o t = t
    BY ConcatEmptySeq
  <2> QED
    BY <2>2, <2>3, <2>4 DEF node
<1>3. FullName(Root("devfs")) = <<DevName>>
  <2> DEFINE node == Root("devfs")
  <2>1. node.fs = "devfs" /\ node.path = <<>>
    BY DEF Root
  <2> HIDE DEF node
  <2>2. FullName(node) = MountNames(2) \o Names(<<>>)
    BY <1>1, <2>1 DEF FullName
  <2>3. MountNames(2) = <<DevName>> /\ Names(<<>>) = <<>>
    BY MountsAre, NamesOfWord
  <2>4. <<DevName>> \o <<>> = <<DevName>>
    <3>1. <<DevName>> \in Seq({DevName})
      OBVIOUS
    <3> QED
      BY <3>1, ConcatEmptySeq
  <2> QED
    BY <2>2, <2>3, <2>4 DEF node
<1>4. ASSUME NEW n \in Word PROVE FullName(Device(n)) = <<DevName>> \o <<n>>
  <2> DEFINE node == Device(n)
  <2>1. node.fs = "devfs" /\ node.path = n
    BY DEF Device
  <2> HIDE DEF node
  <2>2. FullName(node) = MountNames(2) \o Names(n)
    BY <1>1, <2>1 DEF FullName
  <2>3. MountNames(2) = <<DevName>> /\ Names(n) = <<n>>
    BY MountsAre, NamesOfWord
  <2> QED
    BY <2>2, <2>3 DEF node
<1> QED
  BY <1>2, <1>3, <1>4

\* A path names what alone has these names.
LEMMA DenotesIs ==
  ASSUME NEW path, NEW R, Absolute(path),
         \A node \in Node : FullName(node) = Names(path) => node = R,
         R # NoNode => R \in Node /\ FullName(R) = Names(path)
  PROVE  Denotes(path) = R
<1>1. NoNode \notin Node
  <2>1. \A fs : Root(fs).fs = fs
    BY DEF Root
  <2>2. \A n : Device(n) # NoNode
    BY DEF Device, NoNode
  <2>3. \A t : InArchive(t) # NoNode
    BY DEF InArchive, NoNode
  <2>4. NoNode.fs = "none"
    BY DEF NoNode
  <2>5. Root("initrd") # NoNode /\ Root("devfs") # NoNode
    BY <2>1, <2>4
  <2> QED
    BY <2>2, <2>3, <2>5, NodesAre
<1>2. Named(path) = {node \in Node : FullName(node) = Names(path)}
  BY DEF Named
<1>3. CASE R = NoNode
  <2>1. Named(path) = {}
    BY <1>1, <1>2, <1>3
  <2> QED
    BY <1>3, <2>1 DEF Denotes
<1>4. CASE R # NoNode
  <2>1. Named(path) = {R}
    BY <1>2, <1>4
  <2>2. (CHOOSE node \in {R} : TRUE) = R
    OBVIOUS
  <2> QED
    BY <2>1, <2>2 DEF Denotes
<1> QED
  BY <1>3, <1>4

\* Below which mount a path is.
InDevices(path) == Names(path) # <<>> /\ Names(path)[1] = DevName

\* find_mount decides for a plain path as its names do.
LEMMA MountIsFound ==
  ASSUME NEW path \in Seq(Chr), Plain(path)
  PROVE  /\ IsPrefix(SLASH, path) <=> Absolute(path)
         /\ Absolute(path) => (IsPrefix(SLASH \o DevName, path) <=> InDevices(path))
         /\ find_mount(path) = IF ~Absolute(path) THEN 0 ELSE IF InDevices(path) THEN 2 ELSE 1
<1> DEFINE a == SLASH
           b == SLASH \o DevName
           match == {i \in DOMAIN Mount : Mount[i].path # <<>> /\ IsPrefix(Mount[i].path, path)}
           best == {i \in match : \A j \in match : Len(Mount[j].path) <= Len(Mount[i].path)}
<1>1. IsPrefix(SLASH, path) <=> Absolute(path)
  BY OneIsPrefix DEF SLASH, Absolute
<1>2. IsPrefix(SLASH \o DevName, path) <=> Absolute(path) /\ InDevices(path)
  <2>1. 2 \in DOMAIN Mount /\ Mount[2].path = SLASH \o DevName /\ MountNames(2) = <<DevName>>
    BY MountsAre
  <2>2. IsPrefix(Mount[2].path, path)
          <=> Absolute(path) /\ IsPrefix(MountNames(2), Names(path))
    BY <2>1 DEF Plain
  <2>3. Names(path) \in Seq(Word)
    BY NamesIs
  <2>4. IsPrefix(<<DevName>>, Names(path)) <=> InDevices(path)
    BY <2>3, HiddenIs DEF InDevices
  <2> QED
    BY <2>1, <2>2, <2>4
<1>3. a # <<>> /\ b # <<>> /\ Len(a) < Len(b) /\ Len(a) \in Nat /\ Len(b) \in Nat
  <2>1. SLASH \in Seq(Chr) /\ DevName \in Seq(Chr) /\ Len(SLASH) = 1
    BY MountsAre, Characters
  <2>2. Len(SLASH \o DevName) = Len(SLASH) + Len(DevName) /\ SLASH \o DevName \in Seq(Chr)
    BY ONLY <2>1, Behind
  <2>3. Len(DevName) \in Nat \ {0}
    BY MountsAre DEF Word
  <2> QED
    BY <2>1, <2>2, <2>3
<1>4. DOMAIN Mount = {1, 2} /\ Mount[1].path = a /\ Mount[2].path = b
  BY MountsAre
<1>5. find_mount(path) = IF match = {} THEN 0 ELSE Min(best)
  BY DEF find_mount
<1> HIDE DEF a, b
<1>6. 1 \in match <=> Absolute(path)
  BY <1>1, <1>3, <1>4 DEF a
<1>7. 2 \in match <=> Absolute(path) /\ InDevices(path)
  BY <1>2, <1>3, <1>4 DEF b
<1>8. match \subseteq {1, 2}
  BY <1>4
<1> HIDE DEF match
<1>9. CASE ~Absolute(path)
  <2>1. match = {}
    BY <1>6, <1>7, <1>8, <1>9
  <2> HIDE DEF best
  <2> QED
    BY <1>1, <1>2, <1>5, <1>9, <2>1
<1>10. ASSUME Absolute(path), NEW i \in {1, 2}, i = IF InDevices(path) THEN 2 ELSE 1
       PROVE  find_mount(path) = i
  <2>1. best = {i}
    <3>1. CASE InDevices(path)
      <4>1. match = {1, 2} /\ i = 2
        BY <1>6, <1>7, <1>8, <1>10, <3>1
      <4> QED
        BY <1>3, <1>4, <4>1
    <3>2. CASE ~InDevices(path)
      <4>1. match = {1} /\ i = 1
        BY <1>6, <1>7, <1>8, <1>10, <3>2
      <4> QED
        BY <1>3, <1>4, <4>1
    <3> QED
      BY <3>1, <3>2
  <2>2. match # {}
    BY <1>6, <1>10
  <2> HIDE DEF best
  <2>3. best \subseteq Nat /\ best # {}
    BY <2>1
  <2>4. Min(best) \in best
    BY <2>3, MinIsLeast, Zenon
  <2> QED
    BY <1>5, <2>1, <2>2, <2>4
<1> QED
  BY <1>1, <1>2, <1>9, <1>10

\* Behind the mount of the devices is the path from their root.
LEMMA NamesBelow ==
  ASSUME NEW r \in Seq(Chr), NEW path, path = (SLASH \o DevName) \o r, InDevices(path)
  PROVE  Names(path) = <<DevName>> \o Names(r)
<1> DEFINE D == DevName
           b == SLASH \o D
<1>1. SLASH \in Seq(Chr) /\ D \in Seq(Chr) /\ D \in Word /\ Names(D) = <<D>>
  BY MountsAre, Characters, NamesOfWord
<1>2. b \in Seq(Chr) /\ Names(b) = <<D>>
  BY <1>1, NamesOfSlashes
<1>3. CASE r = <<>>
  <2>1. path = b
    BY <1>2, <1>3, ConcatEmptySeq
  <2>2. Names(r) = <<>>
    BY <1>3, NamesOfWord
  <2>3. <<D>> \o <<>> = <<D>>
    <3>1. <<D>> \in Seq({D})
      OBVIOUS
    <3> QED
      BY <3>1, ConcatEmptySeq
  <2> QED
    BY <1>2, <2>1, <2>2, <2>3
<1>4. CASE r # <<>>
  <2> DEFINE c == r[1]
             e == SubSeq(r, 2, Len(r))
  <2>1. 1 \in 1 .. Len(r) /\ Len(r) \in 1 .. Len(r) /\ c \in Chr
    BY <1>4
  <2>2. e \in Seq(Chr)
    BY <2>1
  <2>3. r = <<c>> \o e
    <3>1. SubSeq(r, 1, Len(r)) = <<r[1]>> \o SubSeq(r, 1 + 1, Len(r))
      BY <2>1, SubSeqRecursiveFirst
    <3>2. SubSeq(r, 1, Len(r)) = r
      BY SubSeqFull
    <3>3. 1 + 1 = 2
      OBVIOUS
    <3> HIDE DEF c
    <3> QED
      BY ONLY <3>1, <3>2, <3>3 DEF c
  <2> HIDE DEF c, e
  <2>4. <<c>> \in Seq(Chr)
    BY <2>1
  <2>5. CASE c = "/"
    <3>1. r = SLASH \o e
      BY <2>3, <2>5 DEF SLASH
    <3>2. path = (b \o SLASH) \o e
      <4> HIDE DEF b
      <4>1. (b \o SLASH) \o e = b \o (SLASH \o e)
        BY ONLY <1>1, <1>2, <2>2, Assoc
      <4> QED
        BY <3>1, <4>1 DEF b
    <3> HIDE DEF b
    <3>3. Names(b \o SLASH \o e) = Names(b) \o Names(e)
      BY <1>2, <2>2, NamesApart
    <3>4. Names(SLASH \o e) = Names(e)
      BY <2>2, NamesOfSlashes
    <3> QED
      BY <1>2, <3>1, <3>2, <3>3, <3>4
  <2>6. CASE c # "/"
    <3> DEFINE n == D \o <<c>>
               p == n \o e
    <3>1. n \in Word /\ Len(n) = Len(D) + 1 /\ Len(D) \in Nat
      <4>1. c \in Ltr /\ D \in Seq(Ltr)
        BY <1>1, <2>1, <2>6, Characters
      <4> HIDE DEF D
      <4>2. n \in Seq(Ltr) /\ Len(n) = Len(D) + 1 /\ Len(D) \in Nat
        BY <4>1
      <4> HIDE DEF n
      <4>3. n # <<>>
        BY <4>2
      <4> QED
        BY <4>2, <4>3 DEF Word
    <3>2. n \in Seq(Chr)
      BY <3>1, Characters
    <3>3. path = SLASH \o p
      <4> DEFINE x == <<c>>
      <4>1. x \in Seq(Chr)
        BY <2>4
      <4> HIDE DEF x, D
      <4>2. (SLASH \o D) \o (x \o e) = SLASH \o (D \o (x \o e))
        <5> DEFINE y == x \o e
        <5>1. y \in Seq(Chr)
          BY <2>2, <4>1, ConcatProperties
        <5> HIDE DEF y
        <5>2. (SLASH \o D) \o y = SLASH \o (D \o y)
          BY ONLY <1>1, <5>1, Assoc
        <5> QED
          BY <5>2 DEF y
      <4>3. (D \o x) \o e = D \o (x \o e)
        <5>1. \A s, u, v \in Seq(Chr) : (s \o u) \o v = s \o (u \o v)
          BY ONLY Assoc
        <5>2. D \in Seq(Chr)
          BY <1>1
        <5> HIDE DEF b, n, p
        <5> QED
          BY ONLY <2>2, <4>1, <5>1, <5>2
      <4>4. path = (SLASH \o D) \o (x \o e)
        BY ONLY <2>3, path = (SLASH \o DevName) \o r DEF x, D
      <4> QED
        BY ONLY <4>2, <4>3, <4>4 DEF x
    <3>4. p \in Seq(Chr)
      BY <2>2, <3>2, ConcatProperties
    <3>5. Names(p) # <<>> /\ Len(Names(p)[1]) \in Nat /\ Len(Names(p)[1]) >= Len(n)
      <4> HIDE DEF n
      <4> QED
        BY <2>2, <3>1, FirstName
    <3> HIDE DEF n, p
    <3>6. Names(path) = Names(p)
      BY <3>3, <3>4, NamesOfSlashes
    <3>7. Names(path)[1] = D
      BY DEF InDevices
    <3> HIDE DEF D
    <3> QED
      BY <3>1, <3>5, <3>6, <3>7
  <2> QED
    BY <2>5, <2>6
<1> QED
  BY <1>3, <1>4

\* In the archive's part of the tree.
LEMMA ArchiveResolves ==
  ASSUME NEW path \in Seq(Chr), Len(path) < MAX_NAME, Plain(path), Absolute(path), ~InDevices(path),
         \A m \in Archived : Shown(m) = Names(path) => Reached(Names(path))
  PROVE  vfs_resolve(path) = Denotes(path)
<1> DEFINE q == Names(path)
           R == IF Exists(q) THEN InArchive(q) ELSE NoNode
           r == SubSeq(path, Len(SLASH) + 1, Len(path))
<1>1. q \in Seq(Word) /\ find_mount(path) = 1 /\ IsPrefix(SLASH, path)
  BY NamesIs, MountIsFound
<1>2. r \in Seq(Chr) /\ path = SLASH \o r
  BY <1>1, Characters, PrefixIs
<1>3. Names(r) = q
  <2> HIDE DEF r
  <2>1. Names(SLASH \o r) = Names(r)
    BY <1>2, NamesOfSlashes
  <2> QED
    BY <1>2, <2>1
<1>4. vfs_resolve(path) = Walk(Root("initrd"), q)
  <2>1. Mount[1].fs = "initrd" /\ Mount[1].path = SLASH
    BY MountsAre
  <2>2. vfs_resolve(path)
          = Walk(Root(Mount[1].fs), Names(SubSeq(path, Len(Mount[1].path) + 1, Len(path))))
    BY <1>1 DEF vfs_resolve
  <2> QED
    BY <1>3, <2>1, <2>2
<1> HIDE DEF r
<1>5. Len(Joined(q)) < MAX_NAME
  <2>1. Len(Joined(q)) <= Len(path) /\ Joined(q) \in Seq(Chr)
    BY <1>1, JoinedIsShorter, JoinedIs
  <2> DEFINE j == Joined(q)
  <2>2. Len(j) \in Nat /\ Len(j) <= Len(path)
    BY <2>1
  <2> HIDE DEF j
  <2> QED
    BY <2>2, ArchiveConstants DEF j
<1>6. ~Hidden(q) /\ (q # <<>> => q[1] # DevName)
  BY <1>1, HiddenIs DEF InDevices
<1> HIDE DEF q
<1>7. Exists(q) => Reached(q)
  <2>1. CASE q = <<>>
    <3>1. PICK n \in Word : TRUE
      BY MountsAre
    <3>2. Reached(<<>>)
      BY <1>1, <3>1, ReachedStep
    <3> QED
      BY <2>1, <3>2
  <2>2. CASE q # <<>>
    <3> SUFFICES ASSUME Exists(q) PROVE Reached(q)
      OBVIOUS
    <3>1. PICK i \in 1 .. Len(Member) : Shown(Member[i]) = q
      BY <2>2 DEF Exists, Shows
    <3>2. Member[i] \in Archived
      BY <1>6, <3>1, Members DEF Archived
    <3> QED
      BY <3>1, <3>2 DEF q
  <2> QED
    BY <2>1, <2>2
<1>8. vfs_resolve(path) = R
  BY <1>1, <1>4, <1>5, <1>7, WalkInArchive
<1>9. ASSUME NEW node \in Node, FullName(node) = q PROVE node = R
  <2>1. \A t \in Seq(Word) : node = InArchive(t) /\ Exists(t) => node = R
    <3> SUFFICES ASSUME NEW t \in Seq(Word), node = InArchive(t), Exists(t) PROVE node = R
      OBVIOUS
    <3>1. t = q
      BY <1>9, FullNamesAre
    <3> QED
      BY <3>1
  <2> HIDE DEF R
  <2>2. CASE node = Root("initrd")
    <3>1. node = InArchive(<<>>) /\ <<>> \in Seq(Word) /\ Exists(<<>>)
      BY <2>2, NodesAre DEF Exists
    <3> QED
      BY <2>1, <3>1
  <2>3. CASE node = Root("devfs")
    <3>1. q = <<DevName>>
      BY <1>9, <2>3, FullNamesAre
    <3> QED
      BY <1>6, <3>1
  <2>4. CASE \E i \in 1 .. Len(registry) : node = Device(registry[i].name)
    <3>1. PICK n \in Word : node = Device(n)
      BY <2>4, RegistryIs
    <3>2. q = <<DevName>> \o <<n>>
      BY <1>9, <3>1, FullNamesAre
    <3>3. q[1] = DevName /\ q # <<>>
      <4> DEFINE d == <<DevName>>
                 e == <<n>>
                 x == d \o e
      <4>1. d \in Seq(Word) /\ e \in Seq(Word) /\ Len(d) = 1 /\ Len(e) = 1 /\ d[1] = DevName
        BY MountsAre
      <4>2. q = x
        BY <3>2
      <4> HIDE DEF d, e
      <4>3. Len(x) = Len(d) + Len(e) /\ \A k \in 1 .. Len(d) : x[k] = d[k]
        BY ONLY <4>1, Behind
      <4> HIDE DEF x
      <4>4. x[1] = DevName /\ Len(x) = 2
        BY <4>1, <4>3
      <4>5. x # <<>>
        BY <4>4
      <4> QED
        BY <4>2, <4>4, <4>5
    <3> QED
      BY <1>6, <3>3
  <2>5. CASE \E i \in 1 .. Len(Member) : node = InArchive(Shown(Member[i]))
    <3>1. PICK i \in 1 .. Len(Member) : node = InArchive(Shown(Member[i]))
      BY <2>5
    <3>2. Shown(Member[i]) \in Seq(Word) /\ Exists(Shown(Member[i]))
      BY ScanHas DEF Exists, Shows
    <3> QED
      BY <2>1, <3>1, <3>2
  <2> QED
    BY <2>2, <2>3, <2>4, <2>5, NodesAre
<1>10. ASSUME R # NoNode PROVE R \in Node /\ FullName(R) = q
  <2>1. Exists(q) /\ R = InArchive(q)
    BY <1>10
  <2>2. FullName(R) = q
    BY <1>1, <2>1, FullNamesAre
  <2>3. CASE q = <<>>
    BY <2>1, <2>2, <2>3, NodesAre
  <2>4. CASE q # <<>>
    <3>1. PICK i \in 1 .. Len(Member) : Shown(Member[i]) = q
      BY <2>1, <2>4 DEF Exists, Shows
    <3>2. InArchive(Shown(Member[i])) \in Node
      BY <1>6, <3>1, NodesAre
    <3> QED
      BY <2>1, <2>2, <3>1, <3>2
  <2> QED
    BY <2>3, <2>4
<1> HIDE DEF R
<1>11. Denotes(path) = R
  BY <1>9, <1>10, DenotesIs DEF q
<1> QED
  BY <1>8, <1>11

\* In the devices' part of the tree.
LEMMA DevicesResolve ==
  ASSUME NEW path \in Seq(Chr), Plain(path), Absolute(path), InDevices(path)
  PROVE  vfs_resolve(path) = Denotes(path)
<1> DEFINE q == Names(path)
           b == SLASH \o DevName
           r == SubSeq(path, Len(b) + 1, Len(path))
           t == Names(r)
           R == IF t = <<>> THEN Root("devfs")
                ELSE IF Len(t) = 1 /\ Registered(t[1]) # {} THEN Device(t[1])
                ELSE NoNode
<1>1. find_mount(path) = 2 /\ IsPrefix(b, path) /\ q \in Seq(Word)
  BY MountIsFound, NamesIs
<1>2. b \in Seq(Chr)
  <2>1. DevName \in Seq(Chr)
    BY MountsAre, Characters
  <2> QED
    BY <2>1, NamesOfSlashes
<1>3. r \in Seq(Chr) /\ path = b \o r
  <2> HIDE DEF b
  <2> QED
    BY <1>1, <1>2, PrefixIs
<1>4. vfs_resolve(path) = Walk(Root("devfs"), t)
  <2>1. Mount[2].fs = "devfs" /\ Mount[2].path = b
    BY MountsAre
  <2>2. vfs_resolve(path)
          = Walk(Root(Mount[2].fs), Names(SubSeq(path, Len(Mount[2].path) + 1, Len(path))))
    BY <1>1 DEF vfs_resolve
  <2> HIDE DEF b
  <2> QED
    BY <2>1, <2>2
<1> HIDE DEF r
<1>5. q = <<DevName>> \o t
  BY <1>3, NamesBelow
<1>6. t \in Seq(Word)
  BY <1>3, NamesIs
<1> HIDE DEF t, b, q
<1>7. vfs_resolve(path) = R
  BY <1>4, <1>6, WalkInDevices
<1>8. Hidden(q)
  BY <1>1, HiddenIs DEF InDevices, q
<1>9. DevName \in Word
  BY MountsAre
\* Two sequences that begin with the same element.
<1>10. \A s \in Seq(Word) : <<DevName>> \o s = <<DevName>> \o t => s = t
  <2> DEFINE d == <<DevName>>
  <2>1. d \in Seq(Word)
    BY <1>9
  <2> HIDE DEF d
  <2>2. \A s, u, v \in Seq(Word) : u \o s = u \o v => s = v
    BY ConcatSimplifications, Zenon
  <2>3. \A s \in Seq(Word) : d \o s = d \o t => s = t
    BY <1>6, <2>1, <2>2, Zenon
  <2> QED
    BY <2>3, Zenon DEF d
<1>11. ASSUME NEW node \in Node, FullName(node) = q PROVE node = R
  <2>1. \A s \in Seq(Word) : node = InArchive(s) => s = q
    BY <1>11, FullNamesAre
  <2>2. CASE node = Root("initrd")
    <3>1. node = InArchive(<<>>) /\ <<>> \in Seq(Word)
      BY <2>2, NodesAre
    <3>2. q = <<>>
      BY <2>1, <3>1
    <3> QED
      BY <3>2 DEF InDevices, q
  <2>3. CASE node = Root("devfs")
    <3>1. q = <<DevName>> /\ <<>> \in Seq(Word)
      BY <1>11, <2>3, FullNamesAre
    <3>2. <<DevName>> \o <<>> = <<DevName>>
      <4> DEFINE d == <<DevName>>
      <4>1. d \in Seq(Word)
        BY <1>9
      <4> HIDE DEF d
      <4>2. d \o <<>> = d
        BY <4>1, ConcatEmptySeq
      <4> QED
        BY <4>2 DEF d
    <3>3. t = <<>>
      <4> DEFINE x == <<DevName>> \o t
                 y == <<DevName>> \o <<>>
      <4>1. x = y
        BY <1>5, <3>1, <3>2
      <4> QED
        BY ONLY <1>10, <3>1, <4>1
    <3> QED
      BY <2>3, <3>3
  <2>4. CASE \E i \in 1 .. Len(registry) : node = Device(registry[i].name)
    <3>1. PICK i \in 1 .. Len(registry) : node = Device(registry[i].name)
      BY <2>4
    <3> DEFINE n == registry[i].name
               s == <<n>>
    <3>2. n \in Word /\ Registered(n) # {}
      BY RegistryIs DEF Registered
    <3>3. FullName(node) = <<DevName>> \o s
      BY <3>1, <3>2, FullNamesAre
    <3> HIDE DEF n
    <3>4. s \in Seq(Word) /\ Len(s) = 1 /\ s[1] = n /\ s # <<>>
      BY <3>2
    <3> HIDE DEF s
    <3>5. s = t
      <4>1. <<DevName>> \o s = <<DevName>> \o t
        BY <1>5, <1>11, <3>3
      <4> QED
        BY ONLY <1>10, <3>4, <4>1
    <3> QED
      BY <3>1, <3>2, <3>4, <3>5 DEF n
  <2>5. CASE \E i \in 1 .. Len(Member) :
               ~Hidden(Shown(Member[i])) /\ node = InArchive(Shown(Member[i]))
    <3>1. PICK i \in 1 .. Len(Member) :
            ~Hidden(Shown(Member[i])) /\ node = InArchive(Shown(Member[i]))
      BY <2>5
    <3>2. Shown(Member[i]) \in Seq(Word)
      BY ScanHas
    <3>3. Shown(Member[i]) = q
      BY <2>1, <3>1, <3>2
    <3> QED
      BY <1>8, <3>1, <3>3
  <2> HIDE DEF R
  <2> QED
    BY <2>2, <2>3, <2>4, <2>5, NodesAre
<1>12. ASSUME R # NoNode PROVE R \in Node /\ FullName(R) = q
  <2>1. CASE t = <<>>
    <3>1. R = Root("devfs")
      BY <2>1
    <3>2. <<DevName>> \o t = <<DevName>>
      <4> DEFINE d == <<DevName>>
      <4>1. d \in Seq(Word)
        BY <1>9
      <4> HIDE DEF d
      <4>2. d \o <<>> = d
        BY <4>1, ConcatEmptySeq
      <4> QED
        BY <2>1, <4>2 DEF d
    <3> HIDE DEF R
    <3> QED
      BY <1>5, <3>1, <3>2, NodesAre, FullNamesAre
  <2>2. CASE t # <<>>
    <3> DEFINE n == t[1]
    <3>1. Len(t) = 1 /\ Registered(n) # {} /\ R = Device(n)
      BY <1>12, <2>2
    <3>2. PICK i \in 1 .. Len(registry) : registry[i].name = n
      BY <3>1, RegistryIs DEF Registered
    <3>3. n \in Word /\ R \in Node
      BY <3>1, <3>2, RegistryIs, NodesAre
    <3>4. t = <<n>>
      <4> DEFINE s == <<n>>
      <4>1. s \in Seq(Word) /\ Len(s) = 1 /\ s[1] = t[1]
        <5> HIDE DEF n
        <5>1. s \in Seq(Word) /\ Len(s) = 1 /\ s[1] = n
          BY <3>3
        <5> QED
          BY <5>1 DEF n
      <4> HIDE DEF s
      <4>2. \A k \in 1 .. Len(t) : t[k] = s[k]
        BY <3>1, <4>1
      <4>3. t = s
        BY <1>6, <3>1, <4>1, <4>2, SeqEqual
      <4> QED
        BY <4>3 DEF s
    <3>5. FullName(Device(n)) = <<DevName>> \o <<n>>
      BY <3>3, FullNamesAre
    <3> HIDE DEF n, R
    <3> QED
      BY <1>5, <3>1, <3>3, <3>4, <3>5
  <2> QED
    BY <2>1, <2>2
<1> HIDE DEF R
<1>13. Denotes(path) = R
  BY <1>11, <1>12, DenotesIs DEF q
<1> QED
  BY <1>7, <1>13

\* vfs_resolve finds what the path names, or nothing.
LEMMA PathResolves ==
  ASSUME NEW path \in Path \cup Spelling, Plain(path)
  PROVE  vfs_resolve(path) = Denotes(path)
<1>1. /\ path \in Seq(STRING) /\ Len(path) < MAX_NAME
      /\ \A m \in Archived : Shown(m) = Names(path) => Reached(Names(path))
  BY PathsAssumption, Zenon
<1>2. path \in Seq(Chr)
  BY <1>1, Characters
<1>3. CASE ~Absolute(path)
  <2>1. vfs_resolve(path) = NoNode
    <3>1. find_mount(path) = 0
      BY <1>2, <1>3, MountIsFound
    <3> QED
      BY <3>1 DEF vfs_resolve
  <2>2. Denotes(path) = NoNode
    BY <1>3 DEF Denotes, Named
  <2> QED
    BY <2>1, <2>2
<1>4. CASE Absolute(path) /\ ~InDevices(path)
  BY <1>1, <1>2, <1>4, ArchiveResolves
<1>5. CASE Absolute(path) /\ InDevices(path)
  BY <1>2, <1>5, DevicesResolve
<1> QED
  BY <1>3, <1>4, <1>5

LEMMA PathsDoResolve == PathsResolve
<1> SUFFICES ASSUME NEW path \in Path PROVE Resolved[path] = Denoted[path]
  BY DEF PathsResolve
<1>1. Plain(path)
  BY PathsAssumption, Zenon
<1>2. vfs_resolve(path) = Denotes(path)
  BY <1>1, PathResolves
<1> QED
  BY <1>2 DEF Resolved, Denoted

LEMMA PathsLed == PathsLeadToTheirNames
<1>1. ASSUME NEW path \in Spelling, Plain(path) PROVE vfs_resolve(path) = Denotes(path)
  BY <1>1, PathResolves
<1> QED
  BY <1>1, PathsDoResolve DEF PathsLeadToTheirNames

\* vfs_resolve of a plain path leads to the node that the path names in the tree
\* of the mounts, or to none if it names none.
THEOREM PathsLead == Spec => []PathsLeadToTheirNames
BY PathsLed, PTL

\* vfs_readdir lists the names of what is in a directory, each one once, and
\* finddir finds them with the kind and the size they were archived with.
THEOREM DirectoriesList == Spec => []DirectoriesListTheirChildren
BY DirectoriesListed, PTL
------------------------------------------------------------------------------
(***************************************************************************)
(* The descriptors: what is in the state.                                  *)
(***************************************************************************)

Fields == {"vnode", "offset", "ref_count"}

\* Every block of File has the fields of a file_t.
Blocks ==
  /\ file = [f \in File |-> file[f]]
  /\ \A f \in File : file[f] = [k \in Fields |-> file[f][k]]

\* The shape of the state, without what is in a file_t except its references.
Shape ==
  /\ booted \in BOOLEAN /\ halted \in BOOLEAN
  /\ fds \in [Owner -> [Fd -> File \cup {NULL}]]
  /\ Blocks
  /\ \A f \in File : file[f].ref_count = (IF f \in free THEN 0 ELSE 1)
  /\ free \subseteq File
  /\ held \in [Process -> SUBSET Fd]
  /\ blocked \in [Process -> File \cup {NULL}]

Inv == Shape /\ HeldFilesArePrivate

LEMMA Constants ==
  /\ Process \subseteq Owner /\ KERNEL \in Owner /\ KERNEL \notin Process
  /\ NULL \notin File /\ Fd \subseteq Nat /\ Lens \subseteq Nat
BY VfsAssumption DEF Owner, Fd

\* alloc_fd finds an empty slot.
LEMMA AllocIsEmpty ==
  ASSUME NEW p \in Owner, Empty(p) # {}
  PROVE  alloc_fd(p) \in Fd /\ fds[p][alloc_fd(p)] = NULL
<1>1. Empty(p) \subseteq Nat
  BY Constants DEF Empty
<1>2. alloc_fd(p) \in Empty(p)
  BY <1>1, MinIsLeast, Zenon DEF alloc_fd
<1> QED
  BY <1>2, Zenon DEF Empty

\* What an assignment of a position changes.
LEMMA MovesOne ==
  ASSUME Blocks, NEW f \in File, NEW n, Moves(f, n)
  PROVE  /\ Blocks'
         /\ \A g \in File : /\ file'[g].vnode = file[g].vnode
                            /\ file'[g].ref_count = file[g].ref_count
                            /\ g # f => file'[g].offset = file[g].offset
         /\ file'[f].offset = file[f].offset + n
<1>1. file'[f] = [file[f] EXCEPT !.offset = @ + n] /\ \A g \in File : g # f => file'[g] = file[g]
  BY DEF Blocks, Moves
<1>2. file' = [g \in File |-> file'[g]]
  BY DEF Blocks, Moves
<1>3. /\ file'[f] = [k \in Fields |-> file'[f][k]]
      /\ file'[f].vnode = file[f].vnode
      /\ file'[f].ref_count = file[f].ref_count
      /\ file'[f].offset = file[f].offset + n
  BY <1>1 DEF Blocks, Fields
<1>4. \A g \in File : file'[g] = [k \in Fields |-> file'[g][k]]
  BY <1>1, <1>3 DEF Blocks
<1>5. Blocks'
  BY <1>2, <1>4 DEF Blocks
<1> QED
  BY <1>1, <1>3, <1>5

------------------------------------------------------------------------------
(***************************************************************************)
(* The invariant: the descriptors are private.                             *)
(***************************************************************************)
LEMMA InitInv == Init => Inv
<1> SUFFICES ASSUME Init PROVE Inv
  OBVIOUS
<1>1. \A f \in File : file[f] = NoFile /\ NoFile.ref_count = 0
  BY DEF Init, NoFile
<1>2. Blocks
  BY <1>1 DEF Init, Blocks, Fields, NoFile
<1>3. Shape
  BY <1>1, <1>2, Constants DEF Init, Shape
<1> QED
  BY <1>3 DEF Inv, Init, HeldFilesArePrivate

LEMMA OpenInv == ASSUME NEW p \in Process, Inv, sys_open(p) PROVE Inv'
<1> USE Constants DEF Inv, Shape
<1>1. PICK path \in Path : vfs_open(p, path)
  BY DEF sys_open
<1>2. PICK f \in free : /\ file' = [file EXCEPT ![f] = Opened(Resolved[path])]
                        /\ free' = Taken(f)
                        /\ fds' = [fds EXCEPT ![p][alloc_fd(p)] = f]
  BY <1>1 DEF vfs_open
<1> DEFINE fd == alloc_fd(p)
<1>3. fd \in Fd /\ fds[p][fd] = NULL
  BY <1>1, AllocIsEmpty DEF vfs_open
<1>4. held' = [held EXCEPT ![p] = @ \cup {fd}] /\ UNCHANGED <<booted, blocked, halted>>
  BY DEF sys_open
<1>5. fds' = [fds EXCEPT ![p][fd] = f]
  BY <1>2
<1> HIDE DEF fd
<1>6. fd \notin held[p]
  BY <1>3 DEF HeldFilesArePrivate
<1>7. Blocks'
  BY <1>2 DEF Blocks, Opened, Fields
<1>8. \A g \in File : file'[g].ref_count = (IF g \in free' THEN 0 ELSE 1)
  <2>1. Opened(Resolved[path]).ref_count = 1
    BY DEF Opened
  <2> QED
    BY <1>2, <2>1 DEF Blocks, Taken
<1>9. Shape'
  <2>1. fds' \in [Owner -> [Fd -> File \cup {NULL}]]
    BY <1>3, <1>5, f \in File
  <2>2. held' \in [Process -> SUBSET Fd]
    BY <1>3, <1>4
  <2> QED
    BY <1>2, <1>4, <1>7, <1>8, <2>1, <2>2 DEF Taken
<1>10. \A q \in Process, gd \in Fd :
         gd \in held'[q] => \/ q = p /\ gd = fd /\ fds'[q][gd] = f
                            \/ gd \in held[q] /\ fds'[q][gd] = fds[q][gd] /\ <<q, gd>> # <<p, fd>>
  BY <1>3, <1>4, <1>5, <1>6
<1>11. f \in free /\ f \in File \ free'
  BY <1>2 DEF Taken
<1>12. \A q \in Process, gd \in Fd : gd \in held[q] => gd \in held'[q] /\ fds'[q][gd] = fds[q][gd]
  BY <1>3, <1>4, <1>5, <1>6
<1>13. HeldFilesArePrivate'
  BY <1>2, <1>4, <1>10, <1>11, <1>12 DEF HeldFilesArePrivate, Taken
<1> QED
  BY <1>9, <1>13

LEMMA CloseInv == ASSUME NEW p \in Process, Inv, sys_close(p) PROVE Inv'
<1> USE Constants DEF Inv, Shape
<1>1. PICK fd \in held[p] :
        /\ IF file[fds[p][fd]].ref_count = 1
           THEN /\ free' = free \cup {fds[p][fd]}
                /\ file' = [file EXCEPT ![fds[p][fd]] = NoFile]
           ELSE /\ file' = [file EXCEPT ![fds[p][fd]].ref_count = @ - 1]
                /\ UNCHANGED free
        /\ fds' = [fds EXCEPT ![KERNEL][fd] = NULL]
        /\ held' = [held EXCEPT ![p] = @ \ {fd}]
  BY DEF sys_close, get_file
<1> DEFINE f == fds[p][fd]
<1>2. fd \in Fd /\ f \in File /\ f \notin free
  BY DEF HeldFilesArePrivate
<1>3. free' = free \cup {f} /\ file' = [file EXCEPT ![f] = NoFile]
  BY <1>1, <1>2
<1>4. UNCHANGED <<booted, blocked, halted>> /\ blocked[p] = NULL
  BY DEF sys_close, Runs
<1>5. \A q \in Process, gd \in Fd :
        gd \in held[q] /\ <<q, gd>> # <<p, fd>> => fds[q][gd] # f
  BY <1>2 DEF HeldFilesArePrivate
<1> HIDE DEF f
<1>6. Shape'
  <2>1. fds' \in [Owner -> [Fd -> File \cup {NULL}]]
    BY <1>1, <1>2
  <2>2. held' \in [Process -> SUBSET Fd]
    BY <1>1, <1>2
  <2>3. Blocks'
    BY <1>2, <1>3 DEF Blocks, NoFile, Fields
  <2>4. \A g \in File : file'[g].ref_count = (IF g \in free' THEN 0 ELSE 1)
    <3>1. NoFile.ref_count = 0
      BY DEF NoFile
    <3> QED
      BY <1>2, <1>3, <3>1 DEF Blocks
  <2> QED
    BY <1>2, <1>3, <1>4, <2>1, <2>2, <2>3, <2>4
<1>7. \A q \in Process, gd \in Fd :
         gd \in held'[q] <=> gd \in held[q] /\ <<q, gd>> # <<p, fd>>
  BY <1>1, <1>2
<1>8. \A q \in Process, gd \in Fd : fds'[q][gd] = fds[q][gd]
  BY <1>1, <1>2
<1>9. HeldFilesArePrivate'
  <2>1. \A q \in Process, gd \in Fd : gd \in held'[q] => fds'[q][gd] \in File \ free'
    BY <1>3, <1>5, <1>7, <1>8 DEF HeldFilesArePrivate
  <2>2. \A q, r \in Process, gd, hd \in Fd :
          gd \in held'[q] /\ hd \in held'[r] /\ fds'[r][hd] = fds'[q][gd] => q = r /\ gd = hd
    BY <1>7, <1>8 DEF HeldFilesArePrivate
  <2>3. ASSUME NEW q \in Process, blocked'[q] # NULL
        PROVE  \E gd \in held'[q] : fds'[q][gd] = blocked'[q]
    <3>1. q # p /\ blocked'[q] = blocked[q]
      BY <1>4, <2>3
    <3>2. PICK gd \in held[q] : fds[q][gd] = blocked[q]
      BY <2>3, <3>1 DEF HeldFilesArePrivate
    <3> QED
      BY <1>7, <1>8, <3>1, <3>2
  <2> QED
    BY <2>1, <2>2, <2>3 DEF HeldFilesArePrivate
<1> QED
  BY <1>6, <1>9

\* A read or a write moves the position of one file_t in use.
LEMMA MoveInv ==
  ASSUME Inv, NEW f \in File, NEW n, Moves(f, n),
         UNCHANGED <<booted, fds, free, held, halted>>,
         \/ UNCHANGED blocked
         \/ \E p \in Process : blocked' = [blocked EXCEPT ![p] = NULL]
  PROVE  Inv'
<1> USE Constants DEF Inv
<1>1. Blocks' /\ \A g \in File : file'[g].ref_count = file[g].ref_count
  BY MovesOne DEF Shape
<1>2. blocked' \in [Process -> File \cup {NULL}]
  BY DEF Shape
<1>3. \A q \in Process : blocked'[q] # NULL => blocked'[q] = blocked[q]
  BY DEF Shape
<1>4. HeldFilesArePrivate'
  <2>1. ASSUME NEW p \in Process, NEW fd \in Fd, fd \in held'[p]
        PROVE  /\ fds'[p][fd] \in File \ free'
               /\ \A q \in Process, gd \in Fd :
                    gd \in held'[q] /\ fds'[q][gd] = fds'[p][fd] => p = q /\ fd = gd
    <3>1. HeldFilesArePrivate /\ fds' = fds /\ held' = held /\ free' = free /\ fd \in held[p]
      BY <2>1
    <3>2. /\ fds[p][fd] \in File \ free
          /\ \A q \in Process, gd \in Fd :
               gd \in held[q] /\ fds[q][gd] = fds[p][fd] => p = q /\ fd = gd
      BY <3>1, Zenon DEF HeldFilesArePrivate
    <3> QED
      BY <3>1, <3>2
  <2>2. ASSUME NEW p \in Process, blocked'[p] # NULL
        PROVE  \E fd \in held'[p] : fds'[p][fd] = blocked'[p]
    BY <1>3, <2>2 DEF HeldFilesArePrivate
  <2> QED
    BY <2>1, <2>2 DEF HeldFilesArePrivate
<1>5. Shape'
  BY <1>1, <1>2 DEF Shape
<1> QED
  BY <1>4, <1>5

\* The descriptors of a program lead to blocks in use.
LEMMA HeldIsUsed ==
  ASSUME Inv, NEW p \in Process, NEW fd \in held[p]
  PROVE  fd \in Fd /\ get_file(p, fd) = fds[p][fd] /\ get_file(p, fd) \in File \ free
BY DEF Inv, Shape, HeldFilesArePrivate, get_file

LEMMA TransferInv ==
  ASSUME NEW p \in Process, Inv, sys_read(p) \/ sys_write(p) \/ tty_read_return(p)
  PROVE  Inv'
<1>1. CASE sys_read(p)
  BY <1>1, HeldIsUsed, MoveInv DEF sys_read
<1>2. CASE sys_write(p)
  BY <1>2, HeldIsUsed, MoveInv DEF sys_write
<1>3. CASE tty_read_return(p)
  <2>1. blocked[p] \in File
    BY <1>3 DEF tty_read_return, Inv, Shape
  <2> QED
    BY <1>3, <2>1, MoveInv DEF tty_read_return
<1> QED
  BY <1>1, <1>2, <1>3

LEMMA BlockInv == ASSUME NEW p \in Process, Inv, tty_read_block(p) PROVE Inv'
<1> USE Constants DEF Inv, Shape
<1>1. PICK fd \in held[p] : blocked' = [blocked EXCEPT ![p] = get_file(p, fd)]
  BY DEF tty_read_block
<1>2. fd \in Fd /\ get_file(p, fd) = fds[p][fd] /\ fds[p][fd] \in File
  BY HeldIsUsed
<1>3. UNCHANGED <<booted, fds, file, free, held, halted>>
  BY DEF tty_read_block
<1>4. Blocks'
  BY <1>3 DEF Blocks
<1> QED
  BY <1>1, <1>2, <1>3, <1>4 DEF HeldFilesArePrivate

\* A load leaves a slot behind, in the table of the parent or of the kernel,
\* that was empty before and is nobody's descriptor.
LEMMA LoadInv ==
  ASSUME NEW o \in Owner, NEW path, Inv, LoadFrom(o, path),
         UNCHANGED <<file, free, held, blocked, halted>>, booted' \in BOOLEAN
  PROVE  Inv'
<1> USE Constants DEF Inv, Shape
<1> DEFINE fd == alloc_fd(o)
<1>1. fd \in Fd /\ fds[o][fd] = NULL
  BY AllocIsEmpty DEF LoadFrom
<1>2. PICK f \in free : fds' = [fds EXCEPT ![o][fd] = f, ![KERNEL][fd] = NULL]
  BY DEF LoadFrom
<1> HIDE DEF fd
<1>3. fds' \in [Owner -> [Fd -> File \cup {NULL}]]
  BY <1>1, <1>2, f \in File
<1>4. \A q \in Process, gd \in Fd : gd \in held[q] => fds'[q][gd] = fds[q][gd]
  <2>1. \A q \in Process, gd \in Fd : <<q, gd>> # <<o, fd>> => fds'[q][gd] = fds[q][gd]
    BY <1>1, <1>2
  <2> QED
    BY <1>1, <2>1 DEF HeldFilesArePrivate
<1>5. Blocks'
  BY DEF Blocks
<1>6. HeldFilesArePrivate'
  <2>1. \A q \in Process : held[q] \subseteq Fd
    OBVIOUS
  <2> QED
    BY <1>4, <2>1 DEF HeldFilesArePrivate
<1> QED
  BY <1>3, <1>5, <1>6

LEMMA StutterInv == Inv /\ UNCHANGED vars => Inv'
BY DEF Inv, Shape, Blocks, HeldFilesArePrivate, vars

LEMMA ReaddirInv == ASSUME NEW p \in Process, Inv, sys_readdir(p) PROVE Inv'
<1>1. halted' \in BOOLEAN /\ UNCHANGED <<booted, fds, file, free, held, blocked>>
  BY DEF sys_readdir
<1> QED
  BY <1>1 DEF Inv, Shape, Blocks, HeldFilesArePrivate

LEMMA StepInv == Inv /\ [Next]_vars => Inv'
<1> SUFFICES ASSUME Inv, [Next]_vars PROVE Inv'
  OBVIOUS
<1> USE Constants
<1>1. CASE kmain
  BY <1>1, LoadInv DEF kmain
<1>2. ASSUME NEW p \in Process, sys_spawn(p) PROVE Inv'
  BY <1>2, LoadInv DEF sys_spawn, Inv, Shape
<1> QED
  BY <1>1, <1>2, OpenInv, CloseInv, TransferInv, BlockInv, ReaddirInv, StutterInv DEF Next

LEMMA Invariance == Spec => []Inv
BY InitInv, StepInv, PTL DEF Spec

\* The descriptors that programs hold lead to file_t blocks in use, each to one
\* of its own, through every order of opens, closes, blocked reads and spawns,
\* although vfs_close empties a slot of another table than vfs_open filled.
THEOREM DescriptorsArePrivate == Spec => []HeldFilesArePrivate
BY Invariance, PTL DEF Inv

------------------------------------------------------------------------------
(***************************************************************************)
(* What is in the file_t blocks.                                           *)
(***************************************************************************)
\* A block in use is open for something, and a process that is blocked reads a
\* terminal.
OpenOK ==
  /\ \A f \in File \ free : file[f].vnode # NoNode
  /\ \A p \in Process : blocked[p] # NULL => Entry(file[blocked[p]].vnode).kind = "tty"

\* A process is blocked on a block in use.
LEMMA BlockedIsUsed ==
  ASSUME Inv, NEW p \in Process, blocked[p] # NULL
  PROVE  \E fd \in held[p] : /\ fd \in Fd /\ fds[p][fd] = blocked[p]
                             /\ get_file(p, fd) = blocked[p] /\ blocked[p] \in File \ free
<1>1. PICK fd \in held[p] : fds[p][fd] = blocked[p]
  BY DEF Inv, HeldFilesArePrivate
<1> QED
  BY <1>1, HeldIsUsed

LEMMA OpenOKMoves ==
  ASSUME Inv, OpenOK, NEW f \in File, NEW n, Moves(f, n), UNCHANGED free,
         \A p \in Process : blocked'[p] # NULL => blocked'[p] = blocked[p]
  PROVE  OpenOK'
<1>1. \A g \in File : file'[g].vnode = file[g].vnode
  BY MovesOne DEF Inv, Shape
<1>2. \A p \in Process : blocked[p] # NULL => blocked[p] \in File
  BY DEF Inv, Shape
<1> QED
  BY <1>1, <1>2 DEF OpenOK

LEMMA OpenOKOpens == ASSUME NEW p \in Process, Inv, OpenOK, sys_open(p) PROVE OpenOK'
<1> USE DEF Inv, Shape
<1>1. PICK path \in Path : vfs_open(p, path)
  BY DEF sys_open
<1>2. PICK f \in free : /\ file' = [file EXCEPT ![f] = Opened(Resolved[path])]
                        /\ free' = Taken(f)
  BY <1>1 DEF vfs_open
<1>3. Resolved[path] # NoNode /\ Opened(Resolved[path]).vnode = Resolved[path]
  BY <1>1 DEF vfs_open, Opened
<1>4. \A g \in File : g # f => file'[g] = file[g]
  BY <1>2 DEF Blocks
<1>5. file'[f] = Opened(Resolved[path])
  BY <1>2 DEF Blocks
<1>6. \A g \in File \ free' : file'[g].vnode # NoNode
  BY <1>2, <1>3, <1>4, <1>5 DEF OpenOK, Taken
<1>7. UNCHANGED blocked
  BY DEF sys_open
<1>8. \A q \in Process : blocked[q] # NULL => blocked[q] \in File /\ blocked[q] # f
  BY <1>2, BlockedIsUsed
<1> QED
  BY <1>4, <1>6, <1>7, <1>8 DEF OpenOK

LEMMA OpenOKCloses == ASSUME NEW p \in Process, Inv, OpenOK, sys_close(p) PROVE OpenOK'
<1> USE DEF Inv, Shape
<1>1. PICK fd \in held[p] :
        IF file[get_file(p, fd)].ref_count = 1
        THEN /\ free' = free \cup {get_file(p, fd)}
             /\ file' = [file EXCEPT ![get_file(p, fd)] = NoFile]
        ELSE /\ file' = [file EXCEPT ![get_file(p, fd)].ref_count = @ - 1]
             /\ UNCHANGED free
  BY DEF sys_close
<1> DEFINE f == get_file(p, fd)
<1>2. fd \in Fd /\ f = fds[p][fd] /\ f \in File \ free
  BY HeldIsUsed
<1>3. free' = free \cup {f} /\ \A g \in File : g # f => file'[g] = file[g]
  BY <1>1, <1>2 DEF Blocks
<1>4. UNCHANGED blocked /\ blocked[p] = NULL
  BY DEF sys_close, Runs
<1>5. ASSUME NEW q \in Process, blocked[q] # NULL PROVE blocked[q] \in File /\ blocked[q] # f
  <2>1. q # p
    BY <1>4, <1>5
  <2>2. PICK gd \in held[q] : gd \in Fd /\ fds[q][gd] = blocked[q] /\ blocked[q] \in File
    BY <1>5, BlockedIsUsed
  <2> QED
    BY <1>2, <2>1, <2>2 DEF HeldFilesArePrivate
<1> HIDE DEF f
<1> QED
  BY <1>3, <1>4, <1>5 DEF OpenOK

LEMMA StepOpenOK == Inv /\ OpenOK /\ [Next]_vars => OpenOK'
<1> SUFFICES ASSUME Inv, OpenOK, [Next]_vars PROVE OpenOK'
  OBVIOUS
<1>1. CASE UNCHANGED <<file, free, blocked>>
  BY <1>1 DEF OpenOK
<1>2. ASSUME NEW p \in Process, sys_read(p) \/ sys_write(p) PROVE OpenOK'
  BY <1>2, HeldIsUsed, OpenOKMoves DEF sys_read, sys_write
<1>3. ASSUME NEW p \in Process, tty_read_return(p) PROVE OpenOK'
  <2>1. blocked[p] \in File
    BY <1>3 DEF tty_read_return, Inv, Shape
  <2>2. \A q \in Process : blocked'[q] # NULL => blocked'[q] = blocked[q]
    BY <1>3 DEF tty_read_return, Inv, Shape
  <2> QED
    BY <1>3, <2>1, <2>2, OpenOKMoves DEF tty_read_return
<1>4. ASSUME NEW p \in Process, tty_read_block(p) PROVE OpenOK'
  <2>1. PICK fd \in held[p] : /\ blocked' = [blocked EXCEPT ![p] = get_file(p, fd)]
                              /\ Entry(file[get_file(p, fd)].vnode).kind = "tty"
    BY <1>4 DEF tty_read_block
  <2>2. UNCHANGED <<file, free>>
    BY <1>4 DEF tty_read_block
  <2>3. blocked \in [Process -> File \cup {NULL}]
    BY DEF Inv, Shape
  <2> QED
    BY <2>1, <2>2, <2>3 DEF OpenOK
<1>5. ASSUME kmain \/ (\E p \in Process : sys_readdir(p) \/ sys_spawn(p)) \/ UNCHANGED vars
      PROVE  UNCHANGED <<file, free, blocked>>
  BY <1>5 DEF kmain, sys_readdir, sys_spawn, vars
<1> QED
  BY <1>1, <1>2, <1>3, <1>4, <1>5, OpenOKOpens, OpenOKCloses DEF Next

LEMMA OpenInvariance == Spec => []OpenOK
<1>1. Init => OpenOK
  BY DEF Init, OpenOK
<1> QED
  BY <1>1, StepOpenOK, Invariance, PTL DEF Spec

------------------------------------------------------------------------------
(***************************************************************************)
(* The types of what is in the blocks.                                     *)
(***************************************************************************)
ContentOK ==
  \A f \in File : file[f].vnode \in Node \cup {NoNode} /\ file[f].offset \in Nat

LEMMA TypeFromContent == Inv /\ ContentOK => TypeOK
BY DEF Inv, Shape, ContentOK, TypeOK

LEMMA ResolvedIsNode ==
  ASSUME NEW path \in Path
  PROVE  Resolved[path] \in Node \cup {NoNode}
<1>1. Resolved[path] = Denotes(path)
  BY PathsDoResolve DEF PathsResolve, Denoted
<1>2. CASE Named(path) = {}
  BY <1>1, <1>2 DEF Denotes
<1>3. CASE Named(path) # {}
  <2>1. \E node \in Named(path) : TRUE
    BY <1>3
  <2>2. Denotes(path) \in Named(path)
    BY <1>3, <2>1, Zenon DEF Denotes
  <2> QED
    BY <1>1, <2>2, Zenon DEF Named
<1> QED
  BY <1>2, <1>3

LEMMA SizesAreNat == \A node \in Node : Entry(node).size \in Nat
<1> SUFFICES ASSUME NEW node \in Node PROVE Entry(node).size \in Nat
  OBVIOUS
<1>1. CASE node = Root("initrd") \/ node = Root("devfs")
  <2>1. \A fs : Entry(Root(fs)).size = 0
    BY EntriesAre
  <2> QED
    BY <1>1, <2>1
<1>2. CASE \E i \in 1 .. Len(registry) : node = Device(registry[i].name)
  <2>1. PICK i \in 1 .. Len(registry) : node = Device(registry[i].name)
    BY <1>2
  <2>2. registry[i].name \in Word /\ Registered(registry[i].name) # {}
    BY RegistryIs DEF Registered
  <2> QED
    BY <2>1, <2>2, EntriesAre
<1>3. CASE \E i \in 1 .. Len(Member) : node = InArchive(Shown(Member[i]))
  <2>1. PICK i \in 1 .. Len(Member) : node = InArchive(Shown(Member[i]))
    BY <1>3
  <2> DEFINE e == Entry(node)
  <2>2. e = [kind |-> IF Member[i].dir THEN "dir" ELSE "file", size |-> Member[i].size]
    BY <2>1, EntriesAre
  <2> HIDE DEF e
  <2>3. e.size \in Nat
    BY <2>2, Members
  <2> QED
    BY <2>3 DEF e
<1> QED
  BY <1>1, <1>2, <1>3, NodesAre

\* A transfer moves forward.
LEMMA BytesAreNat ==
  ASSUME NEW node \in Node, NEW offset \in Nat, NEW len \in Lens
  PROVE  ReadBytes(node, offset, len) \in Nat /\ WriteBytes(node, offset, len) \in Nat
<1>1. Entry(node).size \in Nat /\ len \in Nat
  BY Constants, SizesAreNat
<1>2. Room(node, offset, len) \in Nat
  BY <1>1 DEF Room, Minimum
<1> QED
  BY <1>1, <1>2 DEF ReadBytes, WriteBytes

LEMMA ContentMoves ==
  ASSUME Inv, ContentOK, NEW f \in File, NEW n \in Nat, Moves(f, n)
  PROVE  ContentOK'
<1>1. /\ \A g \in File : /\ file'[g].vnode = file[g].vnode
                         /\ g # f => file'[g].offset = file[g].offset
      /\ file'[f].offset = file[f].offset + n
  BY MovesOne DEF Inv, Shape
<1> QED
  BY <1>1 DEF ContentOK

LEMMA ContentCloses == ASSUME NEW p \in Process, Inv, ContentOK, sys_close(p) PROVE ContentOK'
<1> USE DEF Inv, Shape
<1>1. PICK fd \in held[p] :
        IF file[get_file(p, fd)].ref_count = 1
        THEN file' = [file EXCEPT ![get_file(p, fd)] = NoFile]
        ELSE file' = [file EXCEPT ![get_file(p, fd)].ref_count = @ - 1]
  BY DEF sys_close
<1>2. get_file(p, fd) \in File \ free
  BY HeldIsUsed
<1>3. NoFile.vnode = NoNode /\ NoFile.offset = 0
  BY DEF NoFile
<1> QED
  BY <1>1, <1>2, <1>3 DEF Blocks, ContentOK

LEMMA StepContent ==
  Inv /\ OpenOK /\ ContentOK /\ [Next]_vars => ContentOK'
<1> SUFFICES ASSUME Inv, OpenOK, ContentOK, [Next]_vars
             PROVE  ContentOK'
  OBVIOUS
<1> USE Constants
<1>1. CASE UNCHANGED file
  BY <1>1 DEF ContentOK
<1>2. ASSUME NEW p \in Process, sys_open(p) PROVE ContentOK'
  <2>1. PICK path \in Path : vfs_open(p, path)
    BY <1>2 DEF sys_open
  <2>2. PICK f \in free : file' = [file EXCEPT ![f] = Opened(Resolved[path])]
    BY <2>1 DEF vfs_open
  <2>3. Opened(Resolved[path]).vnode \in Node \cup {NoNode} /\ Opened(Resolved[path]).offset = 0
    BY ResolvedIsNode DEF Opened
  <2>4. f \in File /\ \A g \in File : file'[g] = IF g = f THEN Opened(Resolved[path]) ELSE file[g]
    BY <2>2 DEF Inv, Shape, Blocks
  <2> QED
    BY <2>3, <2>4 DEF ContentOK
<1>3. ASSUME NEW p \in Process, sys_read(p) \/ sys_write(p) PROVE ContentOK'
  <2>1. PICK fd \in held[p], len \in Lens :
          LET f == get_file(p, fd) IN
          \/ Moves(f, ReadBytes(file[f].vnode, file[f].offset, len))
          \/ Moves(f, WriteBytes(file[f].vnode, file[f].offset, len))
    BY <1>3 DEF sys_read, sys_write
  <2> DEFINE f == get_file(p, fd)
  <2>2. f \in File \ free
    BY HeldIsUsed
  <2>3. file[f].vnode \in Node /\ file[f].offset \in Nat
    BY <2>2 DEF ContentOK, OpenOK
  <2> QED
    BY <2>1, <2>2, <2>3, BytesAreNat, ContentMoves
<1>4. ASSUME NEW p \in Process, tty_read_return(p) PROVE ContentOK'
  <2>1. PICK n \in Lens : Moves(blocked[p], n)
    BY <1>4 DEF tty_read_return
  <2>2. blocked[p] \in File /\ n \in Nat
    BY <1>4 DEF tty_read_return, Inv, Shape
  <2> QED
    BY <2>1, <2>2, ContentMoves
<1>5. ASSUME \/ kmain \/ UNCHANGED vars
             \/ \E p \in Process : sys_readdir(p) \/ sys_spawn(p) \/ tty_read_block(p)
      PROVE  UNCHANGED file
  BY <1>5 DEF kmain, sys_readdir, sys_spawn, tty_read_block, vars
<1> QED
  BY <1>1, <1>2, <1>3, <1>4, <1>5, ContentCloses DEF Next

\* The type invariant: every file_t has one reference while it is in use and
\* none while it is free, so vfs_close always frees, and never twice.
THEOREM VfsTypes == Spec => []TypeOK
<1>1. Init => ContentOK
  <2>1. NoFile.vnode = NoNode /\ NoFile.offset = 0
    BY DEF NoFile
  <2> QED
    BY <2>1 DEF Init, ContentOK
<1>2. Spec => []ContentOK
  BY <1>1, StepContent, Invariance, OpenInvariance, PTL DEF Spec
<1> QED
  BY <1>2, TypeFromContent, Invariance, PTL

------------------------------------------------------------------------------
(***************************************************************************)
(* The refinement of FileApi.                                              *)
(***************************************************************************)
\* Where the descriptors lead.
LEMMA DescBar ==
  ASSUME NEW p \in Process, NEW fd \in Fd
  PROVE  /\ fd \in held[p] => descBar[p][fd] = [vnode |-> file[fds[p][fd]].vnode,
                                                pos |-> file[fds[p][fd]].offset]
         /\ fd \notin held[p] => descBar[p][fd] = [vnode |-> NoNode, pos |-> 0]
         /\ fd \in held'[p] => descBar'[p][fd] = [vnode |-> file'[fds'[p][fd]].vnode,
                                                  pos |-> file'[fds'[p][fd]].offset]
         /\ fd \notin held'[p] => descBar'[p][fd] = [vnode |-> NoNode, pos |-> 0]
BY DEF descBar

LEMMA DescIsFunction ==
  /\ descBar = [p \in Process |-> [fd \in Fd |-> descBar[p][fd]]]
  /\ descBar' = [p \in Process |-> [fd \in Fd |-> descBar'[p][fd]]]
BY DEF descBar

\* A step that changes one descriptor only, by what it becomes.
LEMMA OneChanges ==
  ASSUME NEW p \in Process, NEW fd \in Fd, NEW d, descBar'[p][fd] = d,
         \A q \in Process, gd \in Fd : <<q, gd>> # <<p, fd>> => descBar'[q][gd] = descBar[q][gd]
  PROVE  descBar' = [descBar EXCEPT ![p][fd] = d]
BY DescIsFunction

\* So does a step that moves the file_t of one descriptor.
LEMMA TransferApi ==
  ASSUME Inv, OpenOK, NEW p \in Process, NEW fd \in held[p], NEW n,
         n \in Transferable(file[fds[p][fd]].vnode, file[fds[p][fd]].offset),
         Moves(fds[p][fd], n), UNCHANGED <<fds, held>>
  PROVE  Api!Transfer(p, fd)
<1> DEFINE f == fds[p][fd]
<1>1. fd \in Fd /\ f \in File \ free
  BY HeldIsUsed
<1>2. /\ \A g \in File : /\ file'[g].vnode = file[g].vnode
                         /\ g # f => file'[g].offset = file[g].offset
      /\ file'[f].offset = file[f].offset + n
  BY <1>1, MovesOne DEF Inv, Shape
<1>3. descBar[p][fd] = [vnode |-> file[f].vnode, pos |-> file[f].offset]
  BY <1>1, DescBar
<1>4. descBar'[p][fd] = [vnode |-> file[f].vnode, pos |-> file[f].offset + n]
  <2>1. fd \in held'[p] /\ fds'[p][fd] = f
    OBVIOUS
  <2>2. descBar'[p][fd] = [vnode |-> file'[f].vnode, pos |-> file'[f].offset]
    BY <1>1, <2>1, DescBar, Zenon
  <2> QED
    BY <1>1, <1>2, <2>2
<1>5. ASSUME NEW q \in Process, NEW gd \in Fd, <<q, gd>> # <<p, fd>>
      PROVE  descBar'[q][gd] = descBar[q][gd]
  <2>1. CASE gd \notin held[q]
    BY <2>1, DescBar
  <2>2. CASE gd \in held[q]
    <3>1. fds[q][gd] \in File /\ fds[q][gd] # f
      BY <1>1, <1>5, <2>2 DEF Inv, HeldFilesArePrivate
    <3> DEFINE g == fds[q][gd]
    <3>2. file'[g].vnode = file[g].vnode /\ file'[g].offset = file[g].offset /\ fds'[q][gd] = g
      BY <1>2, <3>1
    <3>3. gd \in held'[q]
      BY <2>2
    <3>4. descBar[q][gd] = [vnode |-> file[g].vnode, pos |-> file[g].offset]
      BY <2>2, DescBar, Zenon
    <3>5. descBar'[q][gd] = [vnode |-> file'[fds'[q][gd]].vnode, pos |-> file'[fds'[q][gd]].offset]
      BY <3>3, DescBar, Zenon
    <3> HIDE DEF g
    <3> QED
      BY <3>2, <3>4, <3>5, Zenon
  <2> QED
    BY <2>1, <2>2
<1>6. descBar[p][fd].vnode # NoNode /\ descBar[p][fd] # [vnode |-> NoNode, pos |-> 0]
  BY <1>1, <1>3 DEF OpenOK
<1>7. descBar' = [descBar EXCEPT ![p][fd] = [vnode |-> file[f].vnode, pos |-> file[f].offset + n]]
  BY <1>1, <1>4, <1>5, OneChanges
<1>8. descBar' = [descBar EXCEPT ![p][fd].pos = @ + n]
  <2>1. [descBar[p][fd] EXCEPT !.pos = @ + n]
          = [vnode |-> file[f].vnode, pos |-> file[f].offset + n]
    BY <1>3
  <2> QED
    BY <1>7, <2>1, Zenon
<1>9. n \in Transferable(descBar[p][fd].vnode, descBar[p][fd].pos)
  BY <1>3
<1> HIDE DEF f
<1> QED
  BY <1>6, <1>8, <1>9, Zenon DEF Api!Transfer, Api!Closed

LEMMA OpenApi ==
  ASSUME NEW p \in Process, Inv, sys_open(p)
  PROVE  \E path \in Path : Api!Open(p, path)
<1> USE Constants DEF Inv, Shape
<1>1. PICK path \in Path : vfs_open(p, path)
  BY DEF sys_open
<1>2. PICK f \in free : /\ file' = [file EXCEPT ![f] = Opened(Resolved[path])]
                        /\ fds' = [fds EXCEPT ![p][alloc_fd(p)] = f]
  BY <1>1 DEF vfs_open
<1> DEFINE fd == alloc_fd(p)
           node == Denoted[path]
<1>3. fd \in Fd /\ fds[p][fd] = NULL
  BY <1>1, AllocIsEmpty DEF vfs_open
<1>4. held' = [held EXCEPT ![p] = @ \cup {fd}] /\ fds' = [fds EXCEPT ![p][fd] = f]
  BY <1>2 DEF sys_open
<1>5. node = Resolved[path] /\ node # NoNode
  BY <1>1, PathsDoResolve DEF PathsResolve, vfs_open
<1> HIDE DEF fd, node
<1>6. fd \notin held[p] /\ fd \in held'[p] /\ fds'[p][fd] = f
  BY <1>3, <1>4 DEF HeldFilesArePrivate
<1>7. descBar[p][fd] = [vnode |-> NoNode, pos |-> 0]
  BY <1>3, <1>6, DescBar
<1>8. file'[f].vnode = node /\ file'[f].offset = 0
  BY <1>2, <1>5 DEF Blocks, Opened
<1>9. descBar'[p][fd] = [vnode |-> node, pos |-> 0]
  BY <1>3, <1>6, <1>8, DescBar
<1>10. ASSUME NEW q \in Process, NEW gd \in Fd, <<q, gd>> # <<p, fd>>
       PROVE  descBar'[q][gd] = descBar[q][gd]
  <2>1. (gd \in held'[q] <=> gd \in held[q]) /\ fds'[q][gd] = fds[q][gd]
    BY <1>3, <1>4, <1>10
  <2>2. CASE gd \notin held[q]
    <3>1. gd \notin held'[q]
      BY <2>1, <2>2
    <3>2. descBar[q][gd] = [vnode |-> NoNode, pos |-> 0]
      BY <2>2, DescBar, Zenon
    <3>3. descBar'[q][gd] = [vnode |-> NoNode, pos |-> 0]
      BY <3>1, DescBar, Zenon
    <3> QED
      BY <3>2, <3>3, Zenon
  <2>3. CASE gd \in held[q]
    <3>1. fds[q][gd] # f
      BY <2>3 DEF HeldFilesArePrivate
    <3>2. file'[fds[q][gd]] = file[fds[q][gd]]
      BY <1>2, <2>3, <3>1 DEF Blocks, HeldFilesArePrivate
    <3>3. descBar[q][gd] = [vnode |-> file[fds[q][gd]].vnode, pos |-> file[fds[q][gd]].offset]
      BY <2>3, DescBar, Zenon
    <3>4. descBar'[q][gd] = [vnode |-> file'[fds'[q][gd]].vnode, pos |-> file'[fds'[q][gd]].offset]
      BY <2>1, <2>3, DescBar, Zenon
    <3> QED
      BY <2>1, <3>2, <3>3, <3>4, Zenon
  <2> QED
    BY <2>2, <2>3
<1>11. descBar' = [descBar EXCEPT ![p][fd] = [vnode |-> node, pos |-> 0]]
  BY <1>3, <1>9, <1>10, OneChanges
<1> QED
  BY <1>3, <1>5, <1>7, <1>11, Zenon DEF Api!Open, Api!Closed, node

LEMMA CloseApi ==
  ASSUME NEW p \in Process, Inv, OpenOK, sys_close(p)
  PROVE  \E fd \in Fd : Api!Close(p, fd)
<1> USE Constants DEF Inv, Shape
<1>1. PICK fd \in held[p] :
        /\ IF file[get_file(p, fd)].ref_count = 1
           THEN file' = [file EXCEPT ![get_file(p, fd)] = NoFile]
           ELSE file' = [file EXCEPT ![get_file(p, fd)].ref_count = @ - 1]
        /\ fds' = [fds EXCEPT ![KERNEL][fd] = NULL]
        /\ held' = [held EXCEPT ![p] = @ \ {fd}]
  BY DEF sys_close
<1> DEFINE f == fds[p][fd]
<1>2. fd \in Fd /\ get_file(p, fd) = f /\ f \in File \ free
  BY HeldIsUsed
<1>3. \A g \in File : g # f => file'[g] = file[g]
  BY <1>1, <1>2 DEF Blocks
<1>4. descBar[p][fd] # [vnode |-> NoNode, pos |-> 0]
  <2>1. descBar[p][fd] = [vnode |-> file[f].vnode, pos |-> file[f].offset]
    BY <1>2, DescBar
  <2> QED
    BY <1>2, <2>1 DEF OpenOK
<1>5. descBar'[p][fd] = [vnode |-> NoNode, pos |-> 0]
  <2>1. fd \notin held'[p]
    BY <1>1
  <2> QED
    BY <1>2, <2>1, DescBar
<1>6. ASSUME NEW q \in Process, NEW gd \in Fd, <<q, gd>> # <<p, fd>>
      PROVE  descBar'[q][gd] = descBar[q][gd]
  <2>1. (gd \in held'[q] <=> gd \in held[q]) /\ fds'[q][gd] = fds[q][gd]
    BY <1>1, <1>2, <1>6
  <2>2. CASE gd \notin held[q]
    <3>1. gd \notin held'[q]
      BY <2>1, <2>2
    <3>2. descBar[q][gd] = [vnode |-> NoNode, pos |-> 0]
      BY <2>2, DescBar, Zenon
    <3>3. descBar'[q][gd] = [vnode |-> NoNode, pos |-> 0]
      BY <3>1, DescBar, Zenon
    <3> QED
      BY <3>2, <3>3, Zenon
  <2>3. CASE gd \in held[q]
    <3>1. fds[q][gd] \in File /\ fds[q][gd] # f
      <4>1. HeldFilesArePrivate
        OBVIOUS
      <4>2. p # q \/ fd # gd
        BY <1>6
      <4>3. \A r \in Process, hd \in Fd : hd \in held[r] =>
              /\ fds[r][hd] \in File \ free
              /\ \A o \in Process, jd \in Fd : jd \in held[o] /\ fds[o][jd] = fds[r][hd] => r = o /\ hd = jd
        BY <4>1, Zenon DEF HeldFilesArePrivate
      <4>4. fds[q][gd] \in File /\ (fds[q][gd] = fds[p][fd] => p = q /\ fd = gd)
        BY <2>3, <4>3
      <4> QED
        BY <4>2, <4>4
    <3>2. file'[fds[q][gd]] = file[fds[q][gd]]
      BY <1>3, <3>1
    <3>3. descBar[q][gd] = [vnode |-> file[fds[q][gd]].vnode, pos |-> file[fds[q][gd]].offset]
      BY <2>3, DescBar, Zenon
    <3>4. descBar'[q][gd] = [vnode |-> file'[fds'[q][gd]].vnode, pos |-> file'[fds'[q][gd]].offset]
      BY <2>1, <2>3, DescBar, Zenon
    <3> QED
      BY <2>1, <3>2, <3>3, <3>4, Zenon
  <2> QED
    BY <2>2, <2>3
<1>7. descBar' = [descBar EXCEPT ![p][fd] = [vnode |-> NoNode, pos |-> 0]]
  BY <1>2, <1>5, <1>6, OneChanges
<1> QED
  BY <1>2, <1>4, <1>7, Zenon DEF Api!Close, Api!Closed

\* What the drivers return is what a transfer may move.
LEMMA BytesAreTransferable ==
  ASSUME NEW node, NEW offset, NEW len \in Lens
  PROVE  /\ ReadBytes(node, offset, len) \in Transferable(node, offset)
         /\ WriteBytes(node, offset, len) \in Transferable(node, offset)
<1>1. 0 \in Transferable(node, offset)
  BY DEF Transferable
<1>2. CASE Entry(node).kind \in {"file", "fb"}
  <2>1. Room(node, offset, len) \in Transferable(node, offset)
    BY <1>1, <1>2, Zenon DEF Room, Transferable
  <2> QED
    BY <1>1, <1>2, <2>1 DEF ReadBytes, WriteBytes
<1>3. CASE Entry(node).kind \notin {"file", "fb"}
  <2>1. len \in Transferable(node, offset)
    BY <1>3 DEF Transferable
  <2> QED
    BY <1>1, <1>3, <2>1 DEF ReadBytes, WriteBytes
<1> QED
  BY <1>2, <1>3

LEMMA MoveApi ==
  ASSUME NEW p \in Process, Inv, OpenOK, sys_read(p) \/ sys_write(p) \/ tty_read_return(p)
  PROVE  \E fd \in Fd : Api!Transfer(p, fd)
<1>1. CASE sys_read(p) \/ sys_write(p)
  <2>1. PICK fd \in held[p], len \in Lens :
          LET f == get_file(p, fd) IN
          \/ Moves(f, ReadBytes(file[f].vnode, file[f].offset, len))
          \/ Moves(f, WriteBytes(file[f].vnode, file[f].offset, len))
    BY <1>1 DEF sys_read, sys_write
  <2> DEFINE f == fds[p][fd]
  <2>2. fd \in Fd /\ get_file(p, fd) = f
    BY HeldIsUsed
  <2>3. UNCHANGED <<fds, held>>
    BY <1>1 DEF sys_read, sys_write
  <2>4. PICK n \in Transferable(file[f].vnode, file[f].offset) : Moves(f, n)
    BY <2>1, <2>2, BytesAreTransferable
  <2>5. Api!Transfer(p, fd)
    BY <2>3, <2>4, TransferApi
  <2> QED
    BY <2>2, <2>5
<1>2. CASE tty_read_return(p)
  <2>1. PICK n \in Lens : Moves(blocked[p], n)
    BY <1>2 DEF tty_read_return
  <2>2. blocked[p] # NULL /\ UNCHANGED <<fds, held>>
    BY <1>2 DEF tty_read_return
  <2>3. PICK fd \in held[p] : fd \in Fd /\ fds[p][fd] = blocked[p]
    BY <2>2, BlockedIsUsed
  <2>4. n \in Transferable(file[fds[p][fd]].vnode, file[fds[p][fd]].offset)
    BY <2>2, <2>3 DEF Transferable, OpenOK
  <2>5. Api!Transfer(p, fd)
    BY <2>1, <2>2, <2>3, <2>4, TransferApi
  <2> QED
    BY <2>3, <2>5
<1> QED
  BY <1>1, <1>2

LEMMA LoadApi ==
  ASSUME Inv, NEW o \in Owner, NEW path, LoadFrom(o, path), UNCHANGED <<file, held>>
  PROVE  UNCHANGED descBar
<1> USE Constants DEF Inv, Shape
<1> DEFINE fd == alloc_fd(o)
<1>1. fd \in Fd /\ fds[o][fd] = NULL
  BY AllocIsEmpty DEF LoadFrom
<1>2. PICK f \in free : fds' = [fds EXCEPT ![o][fd] = f, ![KERNEL][fd] = NULL]
  BY DEF LoadFrom
<1> HIDE DEF fd
<1>3. \A q \in Process, gd \in Fd : gd \in held[q] => fds'[q][gd] = fds[q][gd]
  <2>1. \A q \in Process, gd \in Fd : <<q, gd>> # <<o, fd>> => fds'[q][gd] = fds[q][gd]
    BY <1>1, <1>2
  <2> QED
    BY <1>1, <2>1 DEF HeldFilesArePrivate
<1> QED
  BY <1>3 DEF descBar

LEMMA StepApi == Inv /\ OpenOK /\ [Next]_vars => [Api!Next]_descBar
<1> SUFFICES ASSUME Inv, OpenOK, [Next]_vars PROVE Api!Next \/ UNCHANGED descBar
  OBVIOUS
<1>1. ASSUME kmain \/ \E p \in Process : sys_spawn(p) PROVE UNCHANGED descBar
  BY <1>1, Constants, LoadApi DEF kmain, sys_spawn
<1>2. ASSUME \/ UNCHANGED vars
             \/ \E p \in Process : sys_readdir(p) \/ tty_read_block(p)
      PROVE  UNCHANGED descBar
  BY <1>2 DEF vars, sys_readdir, tty_read_block, descBar
<1>3. ASSUME NEW p \in Process, \/ sys_open(p) \/ sys_close(p) \/ sys_read(p)
                                \/ sys_write(p) \/ tty_read_return(p)
      PROVE  Api!Next
  BY <1>3, OpenApi, CloseApi, MoveApi, Zenon DEF Api!Next
<1> QED
  BY <1>1, <1>2, <1>3 DEF Next

LEMMA InitApi == Init => Api!Init
BY DEF Init, descBar, Api!Init, Api!Closed

\* Vfs implements FileApi: a descriptor has a position of its own that only
\* its program's transfers move, by what the driver returned, whatever other
\* programs do while a read of the terminal is blocked.
THEOREM VfsImplementsFileApi == Spec => ImplementsFileApi
BY StepApi, InitApi, Invariance, OpenInvariance, PTL DEF Spec, ImplementsFileApi, Api!Spec

==============================================================================
