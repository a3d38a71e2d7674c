---------------------------- MODULE LibraryProofs ----------------------------
(***************************************************************************)
(* The functions that write memory, for every size of the memory, every    *)
(* content and every call that a caller may make; the arguments of a       *)
(* program, for every page size, every table of rows and all strings that  *)
(* programs may give; and formatted output, for every width of integers,   *)
(* every size of the buffer and every sequence of directives.              *)
(***************************************************************************)
EXTENDS Bytes, Arguments, Format, SequenceTheorems, WellFoundedInduction, TLAPS

(***************************************************************************)
(* Bytes: what a call has written, and where it stands.                    *)
(***************************************************************************)
Functions == {"memset", "memcpy", "memmove", "strncpy", "strcpy"}

\* m is the memory before the call with what is promised from lo to hi.
Written(m, lo, hi) ==
  m = [a \in Address |-> IF a >= lo /\ a < hi THEN Promised(a - call.dst) ELSE before[a]]

Down == call.fn = "memmove" /\ ~memmove_up(call.dst, call.src)

\* What a call has written: from its destination to d, or from d to the end.
Lo == IF Down THEN call.d ELSE call.dst
Hi == IF Down THEN call.dst + call.len ELSE call.d

Done == call.d - call.dst

\* Where a call that has written Done bytes stands.
Position ==
  /\ call.fn = "memset" => call.n = call.len - Done
  /\ call.fn = "memcpy" =>
       /\ call.n = call.len - Done /\ call.s = call.src + Done
       /\ Within(call.dst, call.src, call.len, call.len)
       /\ Apart(call.dst, call.src, call.len, call.len)
  /\ call.fn = "memmove" =>
       /\ call.n = IF Down THEN Done ELSE call.len - Done
       /\ call.s = call.src + Done
       /\ Within(call.dst, call.src, call.len, call.len)
  /\ call.fn = "strncpy" =>
       /\ call.n = call.len - Done
       /\ call.s = call.src + (IF Ends(call.src) # {} /\ strlen(call.src) < Done
                               THEN strlen(call.src) ELSE Done)
       /\ Within(call.dst, call.src, call.len, Read(call.src, call.len))
       /\ Apart(call.dst, call.src, call.len, Read(call.src, call.len))
  /\ call.fn = "strcpy" =>
       /\ Ends(call.src) # {} /\ call.len = strlen(call.src) + 1
       /\ call.n = IF Done < call.len THEN 1 ELSE 0
       /\ call.s = call.src + Done
       /\ Within(call.dst, call.src, call.len, call.len)
       /\ Apart(call.dst, call.src, call.len, call.len)

CallType == [fn : Functions \cup {"none"}, dst : Address, src : Address, len : Nat,
             d : Int, s : Int, n : Nat]

Types == before \in [Address -> Byte] /\ call \in CallType

Inv ==
  /\ Types
  /\ call.fn = "none" => memory = before
  /\ call.fn # "none" =>
       /\ call.dst + call.len <= MemSize
       /\ Done \in 0..call.len
       /\ Position
       /\ Written(memory, Lo, Hi)

------------------------------------------------------------------------------
(***************************************************************************)
(* Strings.                                                                *)
(***************************************************************************)
LEMMA LeastNat ==
  ASSUME NEW T, T \subseteq Nat, T # {}
  PROVE  \E x \in T : \A y \in T : x <= y
<1>1. PICK x \in T : \A y \in T : <<y, x>> \notin OpToRel(<, Nat)
  BY WFMin, NatLessThanWellFounded, Zenon
<1>2. \A y \in T : ~(y < x)
  BY <1>1 DEF OpToRel
<1> QED
  BY <1>2

LEMMA Memory == MemSize \in Nat /\ MemSize > 0 /\ \A a : a \in Address <=> a \in Nat /\ a < MemSize
BY BytesAssumption DEF Address

\* The first NUL of a string that has one.
LEMMA StringEnd ==
  ASSUME NEW src \in Address, Ends(src) # {}
  PROVE  /\ strlen(src) \in Nat /\ src + strlen(src) \in Address
         /\ before[src + strlen(src)] = NUL
         /\ \A i \in Nat : i < strlen(src) /\ src + i \in Address => before[src + i] # NUL
<1> DEFINE S == Ends(src)
           e == CHOOSE i \in S : \A j \in S : i <= j
<1>1. S \subseteq Nat /\ \A i : i \in S <=> i \in Address /\ i >= src /\ before[i] = NUL
  BY Memory DEF Ends
<1>2. e \in S /\ \A j \in S : e <= j
  <2>1. \E i \in S : \A j \in S : i <= j
    <3>1. S # {}
      OBVIOUS
    <3> HIDE DEF S
    <3> QED
      BY <1>1, <3>1, LeastNat
  <2> HIDE DEF S
  <2> QED
    BY <2>1, Zenon
<1>3. strlen(src) = e - src
  BY DEF strlen
<1> HIDE DEF S, e
<1>4. e \in Address /\ e >= src /\ before[e] = NUL /\ e \in Nat /\ src \in Nat
  BY <1>1, <1>2, Memory
<1>5. strlen(src) \in Nat /\ src + strlen(src) = e
  BY <1>3, <1>4
<1>6. ASSUME NEW i \in Nat, i < strlen(src), src + i \in Address, before[src + i] = NUL PROVE FALSE
  <2>1. src + i \in S
    BY <1>1, <1>4, <1>6
  <2>2. e <= src + i
    BY <1>2, <2>1
  <2> QED
    BY <1>4, <1>5, <1>6, <2>2
<1> QED
  BY <1>4, <1>5, <1>6

\* What is promised does not change while the call runs.
Same == /\ before' = before /\ call'.fn = call.fn /\ call'.dst = call.dst
        /\ call'.src = call.src /\ call'.len = call.len

LEMMA PromiseStays ==
  ASSUME Same
  PROVE  /\ Ends(call.src)' = Ends(call.src) /\ strlen(call.src)' = strlen(call.src)
         /\ Read(call.src, call.len)' = Read(call.src, call.len)
         /\ \A i : Promised(i)' = Promised(i)
         /\ \A m, lo, hi : Written(m, lo, hi) => Written(m, lo, hi)'
<1> DEFINE First(S) == CHOOSE i \in S : \A j \in S : i <= j
<1>1. Ends(call.src)' = Ends(call.src)
  BY DEF Ends, Same
<1>2. strlen(call.src)' = strlen(call.src)
  <2>1. strlen(call.src) = First(Ends(call.src)) - call.src
    BY DEF strlen
  <2>2. strlen(call.src)' = First(Ends(call.src)') - call.src'
    BY DEF strlen
  <2> HIDE DEF First
  <2> QED
    BY <1>1, <2>1, <2>2 DEF Same
<1>3. Read(call.src, call.len)' = Read(call.src, call.len)
  BY <1>1, <1>2 DEF Read, Same
<1>4. \A i : Promised(i)' = Promised(i)
  BY <1>3 DEF Promised, Same
<1>5. ASSUME NEW m, NEW lo, NEW hi, Written(m, lo, hi) PROVE Written(m, lo, hi)'
  BY <1>4, <1>5 DEF Written, Same
<1> QED
  BY <1>1, <1>2, <1>3, <1>4, <1>5

------------------------------------------------------------------------------
(***************************************************************************)
(* One byte.                                                               *)
(***************************************************************************)
\* The byte behind or before what is written extends it.
LEMMA WriteOne ==
  ASSUME NEW lo \in Int, NEW hi \in Int, NEW lo2 \in Int, NEW hi2 \in Int, NEW w \in Address,
         lo <= hi, Written(memory, lo, hi),
         \/ w = hi /\ lo2 = lo /\ hi2 = hi + 1
         \/ w = lo - 1 /\ lo2 = lo - 1 /\ hi2 = hi,
         memory' = [memory EXCEPT ![w] = Promised(w - call.dst)]
  PROVE  Written(memory', lo2, hi2)
<1> DEFINE P(a) == Promised(a - call.dst)
<1>1. memory = [a \in Address |-> IF a >= lo /\ a < hi THEN P(a) ELSE before[a]]
  BY DEF Written
<1>2. memory' = [memory EXCEPT ![w] = P(w)]
  OBVIOUS
<1>3. \A a \in Address : a \in Int
  BY Memory
<1>4. memory' = [a \in Address |-> IF a >= lo2 /\ a < hi2 THEN P(a) ELSE before[a]]
  <2> DEFINE g == [a \in Address |-> IF a >= lo2 /\ a < hi2 THEN P(a) ELSE before[a]]
  <2> HIDE DEF P
  <2>1. memory' \in [Address -> {memory'[a] : a \in Address}]
    BY <1>1, <1>2
  <2>2. ASSUME NEW a \in Address PROVE memory'[a] = IF a >= lo2 /\ a < hi2 THEN P(a) ELSE before[a]
    <3>1. CASE a = w
      BY <1>1, <1>2, <1>3, <3>1
    <3>2. CASE a # w
      <4>1. memory'[a] = IF a >= lo /\ a < hi THEN P(a) ELSE before[a]
        BY <1>1, <1>2, <3>2
      <4>2. (a >= lo2 /\ a < hi2) <=> (a >= lo /\ a < hi)
        BY <1>3, <3>2
      <4> QED
        BY <4>1, <4>2
    <3> QED
      BY <3>1, <3>2
  <2> QED
    BY <2>1, <2>2
<1> QED
  BY <1>4 DEF Written

\* Beside what is written the memory is as it was.
LEMMA ReadOne ==
  ASSUME NEW lo \in Int, NEW hi \in Int, NEW a \in Address, Written(memory, lo, hi),
         ~(a >= lo /\ a < hi)
  PROVE  memory[a] = before[a]
<1> DEFINE P(b) == Promised(b - call.dst)
<1>1. memory = [b \in Address |-> IF b >= lo /\ b < hi THEN P(b) ELSE before[b]]
  BY DEF Written
<1> HIDE DEF P
<1> QED
  BY <1>1

LEMMA WrittenType ==
  ASSUME NEW lo, NEW hi, Written(memory, lo, hi)
  PROVE  DOMAIN memory = Address
BY DEF Written

LEMMA WrittenNext ==
  ASSUME Same, Written(memory', Lo', Hi')
  PROVE  Written(memory, Lo, Hi)'
<1>1. memory' = [a \in Address |-> IF a >= Lo' /\ a < Hi' THEN Promised(a - call.dst) ELSE before[a]]
  BY DEF Written
<1>2. \A i : Promised(i)' = Promised(i)
  BY PromiseStays
<1>3. before' = before /\ call'.dst = call.dst
  BY DEF Same
<1> QED
  BY <1>1, <1>2, <1>3 DEF Written

\* Where a running call may be.
LEMMA Inside ==
  ASSUME Types, Goes, call.dst + call.len <= MemSize, Done \in 0..call.len, Position
  PROVE  /\ call.fn \in Functions
         /\ call.dst \in Nat /\ call.src \in Nat /\ call.len \in Nat
         /\ call.d \in Int /\ call.s \in Int /\ call.n \in Nat /\ call.n > 0
         /\ call.d = call.dst + Done
         /\ ~Down => Done < call.len /\ call.d \in Address
         /\ Down => Done > 0 /\ call.d - 1 \in Address
<1>1. /\ call.fn \in Functions
      /\ call.dst \in Nat /\ call.src \in Nat /\ call.len \in Nat
      /\ call.d \in Int /\ call.s \in Int /\ call.n \in Nat /\ call.n > 0
      /\ call.dst \in Address
  BY Memory DEF Types, CallType, Goes
<1>2. call.d = call.dst + Done
  BY <1>1 DEF Done
<1>3. ASSUME ~Down PROVE Done < call.len
  <2>1. CASE call.fn = "strcpy"
    BY <1>1, <1>3, <2>1 DEF Position
  <2>2. CASE call.fn # "strcpy"
    BY <1>1, <1>3, <2>2 DEF Position, Functions
  <2> QED
    BY <2>1, <2>2
<1>4. ASSUME Down PROVE Done > 0
  BY <1>1, <1>4 DEF Position, Down
<1>5. ASSUME ~Down PROVE call.d \in Address
  BY <1>1, <1>2, <1>3, <1>5, Memory
<1>6. ASSUME Down PROVE call.d - 1 \in Address
  BY <1>1, <1>2, <1>4, <1>6, Memory
<1> QED
  BY <1>1, <1>2, <1>3, <1>4, <1>5, <1>6

\* A step upwards, and one downwards.
Next(w) == memory' = [memory EXCEPT ![w] = Promised(w - call.dst)]

LEMMA StepUp ==
  ASSUME Inv, Goes, ~Down, Same, Next(call.d), call'.d = call.d + 1
  PROVE  Written(memory, Lo, Hi)' /\ Done' = Done + 1 /\ Done' \in 0..call.len
<1>1. Types /\ Done \in 0..call.len /\ Position /\ Written(memory, call.dst, call.d)
      /\ call.dst + call.len <= MemSize
  BY DEF Inv, Goes, Lo, Hi
<1>2. /\ call.dst \in Nat /\ call.len \in Nat /\ call.d \in Int /\ call.d = call.dst + Done
      /\ Done < call.len /\ call.d \in Address /\ Done \in Nat
  BY <1>1, Inside
<1>3. Written(memory', call.dst, call.d + 1)
  <2>1. /\ call.dst \in Int /\ call.d \in Int /\ call.d + 1 \in Int /\ call.dst <= call.d
    BY <1>2
  <2>2. memory' = [memory EXCEPT ![call.d] = Promised(call.d - call.dst)]
    BY DEF Next
  <2> QED
    BY <1>1, <1>2, <2>1, <2>2, WriteOne
<1>4. ~Down' /\ Lo' = call.dst /\ Hi' = call.d + 1
  <2>1. ~Down'
    BY DEF Down, memmove_up, Same
  <2> QED
    BY <2>1 DEF Same, Lo, Hi
<1>5. Done' = Done + 1
  BY <1>2 DEF Done, Same
<1> QED
  BY <1>2, <1>3, <1>4, <1>5, WrittenNext

LEMMA StepDown ==
  ASSUME Inv, Goes, Down, Same, Next(call.d - 1), call'.d = call.d - 1
  PROVE  Written(memory, Lo, Hi)' /\ Done' = Done - 1 /\ Done' \in 0..call.len
<1>1. Types /\ Done \in 0..call.len /\ Position /\ Written(memory, call.d, call.dst + call.len)
      /\ call.dst + call.len <= MemSize
  BY DEF Inv, Goes, Lo, Hi
<1>2. /\ call.dst \in Nat /\ call.len \in Nat /\ call.d \in Int /\ call.d = call.dst + Done
      /\ Done > 0 /\ call.d - 1 \in Address /\ Done \in Nat /\ Done <= call.len
  BY <1>1, Inside
<1>3. Written(memory', call.d - 1, call.dst + call.len)
  <2>1. /\ call.d \in Int /\ call.d - 1 \in Int /\ call.dst + call.len \in Int
        /\ call.d <= call.dst + call.len
    BY <1>2
  <2>2. memory' = [memory EXCEPT ![call.d - 1] = Promised((call.d - 1) - call.dst)]
    BY DEF Next
  <2> QED
    BY <1>1, <1>2, <2>1, <2>2, WriteOne
<1>4. Down' /\ Lo' = call.d - 1 /\ Hi' = call.dst + call.len
  <2>1. Down'
    BY DEF Down, memmove_up, Same
  <2> QED
    BY <2>1 DEF Same, Lo, Hi
<1>5. Done' = Done - 1
  BY <1>2 DEF Done, Same
<1> QED
  BY <1>2, <1>3, <1>4, <1>5, WrittenNext

------------------------------------------------------------------------------
(***************************************************************************)
(* The steps.                                                              *)
(***************************************************************************)
\* What a step must show besides its byte.
LEMMA Rest ==
  ASSUME Inv, Goes, Same, call' \in CallType, Position',
         Written(memory, Lo, Hi)', Done' \in 0..call.len
  PROVE  Inv'
<1>1. Types' /\ call'.fn # "none" /\ call'.dst + call'.len <= MemSize /\ Done' \in 0..call'.len
  BY DEF Inv, Types, Goes, Same
<1> QED
  BY <1>1 DEF Inv

LEMMA memset_byteStep ==
  ASSUME Inv, memset_byte, before' = before
  PROVE  Inv'
<1>1. Types /\ Done \in 0..call.len /\ Position /\ Goes /\ call.dst + call.len <= MemSize
  BY DEF Inv, memset_byte, Goes
<1>2. call.fn = "memset" /\ ~Down /\ call' = [call EXCEPT !.d = @ + 1, !.n = @ - 1]
  BY DEF memset_byte, Down
<1>3. call \in CallType /\ call.d \in Int /\ call.n \in Nat /\ call.n > 0 /\ Done \in Int
      /\ call.dst \in Int /\ call.len \in Int
  BY <1>1, Inside DEF Types
<1>4. call' \in CallType /\ call'.d = call.d + 1 /\ call'.n = call.n - 1
  <2>1. call.d + 1 \in Int /\ call.n - 1 \in Nat
    BY <1>3
  <2> QED
    BY <1>2, <1>3, <2>1 DEF CallType
<1>5. Same
  BY <1>2, <1>3 DEF Same, CallType
<1>6. Next(call.d)
  BY <1>2 DEF Next, Promised, memset_byte
<1>7. Written(memory, Lo, Hi)' /\ Done' = Done + 1 /\ Done' \in 0..call.len
  BY <1>1, <1>2, <1>4, <1>5, <1>6, StepUp
<1>8. call'.n = call'.len - Done'
  BY <1>1, <1>2, <1>3, <1>4, <1>5, <1>7 DEF Position, Same
<1>9. Position'
  BY <1>2, <1>5, <1>8 DEF Position, Same
<1> QED
  BY <1>1, <1>4, <1>5, <1>7, <1>9, Rest

\* The byte that a copy reads is the one it promised.
LEMMA copy_upStep ==
  ASSUME Inv, copy_byte, ~Down, before' = before
  PROVE  Inv'
<1>1. Types /\ Done \in 0..call.len /\ Position /\ Goes /\ call.dst + call.len <= MemSize
      /\ Written(memory, call.dst, call.d)
  BY DEF Inv, copy_byte, Goes, Lo, Hi
<1>2. /\ call.fn \in {"memcpy", "memmove"}
      /\ call' = [call EXCEPT !.d = @ + 1, !.s = @ + 1, !.n = @ - 1]
      /\ memory' = [memory EXCEPT ![call.d] = memory[call.s]]
  BY DEF copy_byte, Down
<1>3. /\ call \in CallType /\ call.d \in Int /\ call.s \in Int /\ call.n \in Nat /\ call.n > 0
      /\ Done \in Nat /\ Done < call.len /\ call.d = call.dst + Done
      /\ call.dst \in Nat /\ call.src \in Nat /\ call.len \in Nat
  BY <1>1, Inside DEF Types
<1>4. call' \in CallType /\ call'.d = call.d + 1 /\ call'.s = call.s + 1 /\ call'.n = call.n - 1
  <2>1. call.d + 1 \in Int /\ call.s + 1 \in Int /\ call.n - 1 \in Nat
    BY <1>3
  <2> QED
    BY <1>2, <1>3, <2>1 DEF CallType
<1>5. Same
  BY <1>2, <1>3 DEF Same, CallType
<1>6. /\ call.n = call.len - Done /\ call.s = call.src + Done
      /\ Within(call.dst, call.src, call.len, call.len)
      /\ call.fn = "memcpy" => Apart(call.dst, call.src, call.len, call.len)
      /\ call.fn = "memmove" => call.dst < call.src
  BY <1>1, <1>2 DEF Position, Down, memmove_up
<1>7. memory[call.s] = Promised(call.d - call.dst)
  <2>1. call.s \in Address /\ call.d - call.dst = Done
    BY <1>3, <1>6, Memory DEF Within
  <2>2. ~(call.s >= call.dst /\ call.s < call.d)
    <3>1. CASE call.fn = "memcpy"
      BY <1>3, <1>6, <3>1 DEF Apart
    <3>2. CASE call.fn = "memmove"
      BY <1>3, <1>6, <3>2
    <3> QED
      BY <1>2, <3>1, <3>2
  <2>3. memory[call.s] = before[call.s]
    <3>1. Written(memory, call.dst, call.d) /\ call.s \in Address
          /\ ~(call.s >= call.dst /\ call.s < call.d)
          /\ call.dst \in Int /\ call.d \in Int
      BY <1>1, <1>3, <2>1, <2>2
    <3> QED
      BY ONLY <3>1, ReadOne
  <2>4. Promised(Done) = before[call.src + Done]
    BY <1>2 DEF Promised
  <2>5. call.s = call.src + Done
    BY <1>6
  <2> QED
    BY <2>1, <2>3, <2>4, <2>5, Zenon
<1>8. Next(call.d)
  BY <1>2, <1>7 DEF Next
<1>9. Written(memory, Lo, Hi)' /\ Done' = Done + 1 /\ Done' \in 0..call.len
  BY <1>1, <1>4, <1>5, <1>8, StepUp
<1>10. call'.n = call'.len - Done' /\ call'.s = call'.src + Done' /\ ~Down'
  <2>1. ~Down'
    BY <1>5 DEF Down, memmove_up, Same
  <2>2. call'.len = call.len /\ call'.src = call.src
    BY <1>5 DEF Same
  <2> QED
    BY <1>3, <1>4, <1>6, <1>9, <2>1, <2>2
<1>11. Position'
  <2>1. call'.fn = call.fn /\ call'.dst = call.dst /\ call'.src = call.src /\ call'.len = call.len
    BY <1>5 DEF Same
  <2>2. Within(call'.dst, call'.src, call'.len, call'.len)
        /\ (call'.fn = "memcpy" => Apart(call'.dst, call'.src, call'.len, call'.len))
    BY <1>6, <2>1
  <2> QED
    BY <1>2, <1>10, <2>1, <2>2 DEF Position, Within, Apart
<1> QED
  BY <1>1, <1>4, <1>5, <1>9, <1>11, Rest

LEMMA copy_downStep ==
  ASSUME Inv, copy_byte, Down, before' = before
  PROVE  Inv'
<1>1. Types /\ Done \in 0..call.len /\ Position /\ Goes /\ call.dst + call.len <= MemSize
      /\ Written(memory, call.d, call.dst + call.len)
  BY DEF Inv, copy_byte, Goes, Lo, Hi
<1>2. /\ call.fn = "memmove" /\ ~(call.dst < call.src)
      /\ call' = [call EXCEPT !.d = @ - 1, !.s = @ - 1, !.n = @ - 1]
      /\ memory' = [memory EXCEPT ![call.d - 1] = memory[call.s - 1]]
  BY DEF copy_byte, Down, memmove_up
<1>3. /\ call \in CallType /\ call.d \in Int /\ call.s \in Int /\ call.n \in Nat /\ call.n > 0
      /\ Done \in Nat /\ Done > 0 /\ Done <= call.len /\ call.d = call.dst + Done
      /\ call.dst \in Nat /\ call.src \in Nat /\ call.len \in Nat
  BY <1>1, Inside DEF Types
<1>4. call' \in CallType /\ call'.d = call.d - 1 /\ call'.s = call.s - 1 /\ call'.n = call.n - 1
  <2>1. call.d - 1 \in Int /\ call.s - 1 \in Int /\ call.n - 1 \in Nat
    BY <1>3
  <2> QED
    BY <1>2, <1>3, <2>1 DEF CallType
<1>5. Same
  BY <1>2, <1>3 DEF Same, CallType
<1>6. /\ call.n = Done /\ call.s = call.src + Done
      /\ Within(call.dst, call.src, call.len, call.len)
  BY <1>1, <1>2 DEF Position
<1>7. memory[call.s - 1] = Promised((call.d - 1) - call.dst)
  <2>1. call.s - 1 \in Address /\ (call.d - 1) - call.dst = Done - 1
        /\ call.s - 1 = call.src + (Done - 1)
    BY <1>3, <1>6, Memory DEF Within
  <2>2. ~(call.s - 1 >= call.d /\ call.s - 1 < call.dst + call.len)
    BY <1>2, <1>3, <1>6
  <2>3. memory[call.s - 1] = before[call.s - 1]
    <3>1. call.dst + call.len \in Int
      BY <1>3
    <3> QED
      BY <1>1, <1>3, <2>1, <2>2, <3>1, ReadOne
  <2> QED
    BY <1>2, <1>6, <2>1, <2>3 DEF Promised
<1>8. Next(call.d - 1)
  BY <1>2, <1>7 DEF Next
<1>9. Written(memory, Lo, Hi)' /\ Done' = Done - 1 /\ Done' \in 0..call.len
  BY <1>1, <1>4, <1>5, <1>8, StepDown
<1>10. call'.n = Done' /\ call'.s = call'.src + Done' /\ Down'
  <2>1. Down'
    BY <1>5 DEF Down, memmove_up, Same
  <2>2. call'.src = call.src
    BY <1>5 DEF Same
  <2> QED
    BY <1>3, <1>4, <1>6, <1>9, <2>1, <2>2
<1>11. Position'
  <2>1. call'.fn = call.fn /\ call'.dst = call.dst /\ call'.src = call.src /\ call'.len = call.len
    BY <1>5 DEF Same
  <2> QED
    BY <1>2, <1>6, <1>10, <2>1 DEF Position, Within
<1> QED
  BY <1>1, <1>4, <1>5, <1>9, <1>11, Rest

\* Within its string strncpy reads what it has read up to the NUL, and then the
\* NUL again.
LEMMA strncpy_byteStep ==
  ASSUME Inv, strncpy_byte, before' = before
  PROVE  Inv'
<1> DEFINE L == strlen(call.src)
           HasNul == Ends(call.src) # {}
           R == Read(call.src, call.len)
<1>1. Types /\ Done \in 0..call.len /\ Position /\ Goes /\ call.dst + call.len <= MemSize
  BY DEF Inv, strncpy_byte, Goes
<1>2. /\ call.fn = "strncpy" /\ ~Down
      /\ call' = [call EXCEPT !.d = @ + 1, !.n = @ - 1, !.s = IF memory[@] = NUL THEN @ ELSE @ + 1]
      /\ memory' = [memory EXCEPT ![call.d] = memory[call.s]]
  BY DEF strncpy_byte, Down
<1>3. /\ call \in CallType /\ call.d \in Int /\ call.s \in Int /\ call.n \in Nat /\ call.n > 0
      /\ Done \in Nat /\ Done < call.len /\ call.d = call.dst + Done
      /\ call.dst \in Nat /\ call.src \in Nat /\ call.len \in Nat /\ call.src \in Address
  BY <1>1, <1>2, Inside DEF Types, CallType
<1>4. Written(memory, call.dst, call.d)
  BY <1>2 DEF Inv, Lo, Hi
<1>5. /\ call' \in CallType /\ call'.d = call.d + 1 /\ call'.n = call.n - 1
      /\ call'.s = IF memory[call.s] = NUL THEN call.s ELSE call.s + 1
  <2>1. call.d + 1 \in Int /\ call.s + 1 \in Int /\ call.n - 1 \in Nat
    BY <1>3
  <2> QED
    BY <1>2, <1>3, <2>1 DEF CallType
<1>6. Same
  BY <1>2, <1>3 DEF Same, CallType
<1>7. /\ call.n = call.len - Done
      /\ call.s = call.src + (IF HasNul /\ L < Done THEN L ELSE Done)
      /\ call.dst + call.len <= MemSize /\ call.src + R <= MemSize
      /\ call.dst + call.len <= call.src \/ call.src + R <= call.dst
  BY <1>1, <1>2 DEF Position, Within, Apart
<1>8. /\ R = IF HasNul /\ L < call.len THEN L + 1 ELSE call.len
      /\ HasNul => L \in Nat /\ call.src + L \in Address /\ before[call.src + L] = NUL
      /\ \A i \in Nat : HasNul /\ i < L /\ call.src + i \in Address => before[call.src + i] # NUL
      /\ \A i \in Nat : ~HasNul /\ call.src + i \in Address => before[call.src + i] # NUL
  <2>1. ASSUME NEW i \in Nat, ~HasNul, call.src + i \in Address PROVE before[call.src + i] # NUL
    <3>1. call.src + i >= call.src
      BY <1>3
    <3> QED
      BY <2>1, <3>1 DEF Ends
  <2> QED
    BY <1>3, <2>1, StringEnd DEF Read
<1> HIDE DEF L, HasNul, R
<1>9. /\ call.s \in Address /\ ~(call.s >= call.dst /\ call.s < call.d)
      /\ call.s < call.src + R /\ call.s >= call.src
  <2>1. call.s < call.src + R /\ call.s >= call.src
    BY <1>3, <1>7, <1>8
  <2>2. R \in Nat
    BY <1>3, <1>8
  <2>3. ~(call.s >= call.dst /\ call.s < call.d)
    BY <1>3, <1>7, <2>1, <2>2
  <2> QED
    BY <1>3, <1>7, <2>1, <2>2, <2>3, Memory
<1>10. memory[call.s] = before[call.s]
  <2>1. call.dst \in Int /\ call.d \in Int
    BY <1>3
  <2> QED
    BY <1>4, <1>9, <2>1, ReadOne
<1>11. memory[call.s] = Promised(call.d - call.dst)
  <2>1. call.d - call.dst = Done
    BY <1>3
  <2>2. Promised(Done) = IF Done < R THEN before[call.src + Done] ELSE NUL
    BY <1>2 DEF Promised, R
  <2>3. CASE HasNul /\ L < Done
    <3>1. ~(Done < R) /\ call.s = call.src + L
      BY <1>3, <1>7, <1>8, <2>3
    <3> QED
      BY <1>8, <1>10, <2>1, <2>2, <2>3, <3>1
  <2>4. CASE ~(HasNul /\ L < Done)
    <3>1. Done < R /\ call.s = call.src + Done
      BY <1>3, <1>7, <1>8, <2>4
    <3> QED
      BY <1>10, <2>1, <2>2, <3>1
  <2> QED
    BY <2>3, <2>4
<1>12. Next(call.d)
  BY <1>2, <1>11 DEF Next
<1>13. Written(memory, Lo, Hi)' /\ Done' = Done + 1 /\ Done' \in 0..call.len
  BY <1>1, <1>2, <1>5, <1>6, <1>12, StepUp
<1>14. call'.s = call.src + (IF HasNul /\ L < Done + 1 THEN L ELSE Done + 1)
  <2>1. CASE HasNul /\ L <= Done
    <3>1. call.s = call.src + L /\ L < Done + 1
      BY <1>3, <1>7, <1>8, <2>1
    <3> QED
      BY <1>5, <1>8, <1>10, <2>1, <3>1
  <2>2. CASE ~(HasNul /\ L <= Done)
    <3>1. call.s = call.src + Done /\ (HasNul => Done < L) /\ ~(HasNul /\ L < Done + 1)
      BY <1>3, <1>7, <1>8, <2>2
    <3>2. memory[call.s] # NUL
      BY <1>3, <1>8, <1>9, <1>10, <3>1
    <3>3. call.s + 1 = call.src + (Done + 1)
      BY <1>3, <3>1
    <3> QED
      BY <1>5, <3>1, <3>2, <3>3
  <2> QED
    BY <2>1, <2>2
<1>15. Position'
  <2>1. /\ call'.fn = "strncpy" /\ call'.dst = call.dst /\ call'.src = call.src /\ call'.len = call.len
    BY <1>2, <1>6 DEF Same
  <2>2. Ends(call.src)' = Ends(call.src) /\ strlen(call.src)' = strlen(call.src)
        /\ Read(call.src, call.len)' = Read(call.src, call.len)
    BY <1>6, PromiseStays
  <2>3. call'.n = call'.len - Done'
    BY <1>3, <1>5, <1>7, <1>13, <2>1
  <2>4. Within(call.dst, call.src, call.len, Read(call.src, call.len))
        /\ Apart(call.dst, call.src, call.len, Read(call.src, call.len))
    BY <1>1, <1>2 DEF Position
  <2>5. Within(call.dst, call.src, call.len, Read(call.src, call.len))'
        /\ Apart(call.dst, call.src, call.len, Read(call.src, call.len))'
    BY <2>1, <2>2, <2>4 DEF Within, Apart
  <2> QED
    BY <1>13, <1>14, <2>1, <2>2, <2>3, <2>5 DEF Position, L, HasNul
<1> QED
  BY <1>1, <1>5, <1>6, <1>13, <1>15, Rest

LEMMA strcpy_byteStep ==
  ASSUME Inv, strcpy_byte, before' = before
  PROVE  Inv'
<1> DEFINE L == strlen(call.src)
<1>1. Types /\ Done \in 0..call.len /\ Position /\ Goes /\ call.dst + call.len <= MemSize
  BY DEF Inv, strcpy_byte, Goes
<1>2. /\ call.fn = "strcpy" /\ ~Down
      /\ call' = [call EXCEPT !.d = @ + 1, !.s = @ + 1, !.n = IF memory[call.s] = NUL THEN 0 ELSE 1]
      /\ memory' = [memory EXCEPT ![call.d] = memory[call.s]]
  BY DEF strcpy_byte, Down
<1>3. /\ call \in CallType /\ call.d \in Int /\ call.s \in Int /\ call.n \in Nat /\ call.n > 0
      /\ Done \in Nat /\ Done < call.len /\ call.d = call.dst + Done
      /\ call.dst \in Nat /\ call.src \in Nat /\ call.len \in Nat /\ call.src \in Address
  BY <1>1, <1>2, Inside DEF Types, CallType
<1>4. Written(memory, call.dst, call.d)
  BY <1>2 DEF Inv, Lo, Hi
<1>5. /\ call' \in CallType /\ call'.d = call.d + 1 /\ call'.s = call.s + 1
      /\ call'.n = IF memory[call.s] = NUL THEN 0 ELSE 1
  <2>1. call.d + 1 \in Int /\ call.s + 1 \in Int
    BY <1>3
  <2> QED
    BY <1>2, <1>3, <2>1 DEF CallType
<1>6. Same
  BY <1>2, <1>3 DEF Same, CallType
<1>7. /\ Ends(call.src) # {} /\ call.len = L + 1 /\ call.s = call.src + Done
      /\ call.dst + call.len <= MemSize /\ call.src + call.len <= MemSize
      /\ call.dst + call.len <= call.src \/ call.src + call.len <= call.dst
  BY <1>1, <1>2 DEF Position, Within, Apart
<1>8. /\ L \in Nat /\ before[call.src + L] = NUL
      /\ \A i \in Nat : i < L /\ call.src + i \in Address => before[call.src + i] # NUL
  BY <1>3, <1>7, StringEnd
<1> HIDE DEF L
<1>9. call.s \in Address /\ ~(call.s >= call.dst /\ call.s < call.d)
  <2>1. call.s \in Address
    BY <1>3, <1>7, Memory
  <2>2. ~(call.s >= call.dst /\ call.s < call.d)
    BY <1>3, <1>7
  <2> QED
    BY <2>1, <2>2
<1>10. memory[call.s] = before[call.src + Done]
  BY <1>3, <1>4, <1>7, <1>9, ReadOne
<1>11. Next(call.d)
  <2>1. call.d - call.dst = Done
    BY <1>3
  <2>2. Promised(Done) = before[call.src + Done]
    BY <1>2 DEF Promised
  <2> QED
    BY <1>2, <1>10, <2>1, <2>2 DEF Next
<1>12. Written(memory, Lo, Hi)' /\ Done' = Done + 1 /\ Done' \in 0..call.len
  BY <1>1, <1>2, <1>5, <1>6, <1>11, StepUp
<1>13. call'.n = IF Done' < call.len THEN 1 ELSE 0
  <2>1. CASE Done = L
    BY <1>5, <1>7, <1>8, <1>10, <1>12, <2>1
  <2>2. CASE Done # L
    <3>1. Done < L
      BY <1>3, <1>7, <1>8, <2>2
    <3>2. memory[call.s] # NUL
      BY <1>3, <1>7, <1>8, <1>9, <1>10, <3>1
    <3> QED
      BY <1>3, <1>5, <1>7, <1>8, <1>12, <3>1, <3>2
  <2> QED
    BY <2>1, <2>2
<1>14. Position'
  <2>1. /\ call'.fn = "strcpy" /\ call'.dst = call.dst /\ call'.src = call.src /\ call'.len = call.len
    BY <1>2, <1>6 DEF Same
  <2>2. Ends(call.src)' = Ends(call.src) /\ strlen(call.src)' = strlen(call.src)
    BY <1>6, PromiseStays
  <2>3. call'.s = call'.src + Done'
    BY <1>3, <1>5, <1>7, <1>12, <2>1
  <2> QED
    BY <1>7, <1>13, <2>1, <2>2, <2>3 DEF Position, Within, Apart, L
<1> QED
  BY <1>1, <1>5, <1>6, <1>12, <1>14, Rest

------------------------------------------------------------------------------
(***************************************************************************)
(* The calls.                                                              *)
(***************************************************************************)
LEMMA Begins ==
  ASSUME Inv,
         NEW fn \in Functions, NEW dst \in Address, NEW src \in Address,
         NEW len \in Nat, NEW start \in {0, len}, NEW n \in Nat,
         Enter(fn, dst, src, len, start, n), dst + len <= MemSize,
         Position', start = IF Down' THEN len ELSE 0
  PROVE  Inv'
<1>1. Types /\ call.fn = "none" /\ memory = before
  BY DEF Inv, Enter
<1>2. /\ call' = [fn |-> fn, dst |-> dst, src |-> src, len |-> len,
                  d |-> dst + start, s |-> src + start, n |-> n]
      /\ memory' = memory /\ before' = before
  BY DEF Enter
<1>3. call' \in CallType /\ call'.fn = fn /\ call'.dst = dst /\ call'.src = src
      /\ call'.len = len /\ call'.d = dst + start /\ call'.fn # "none"
  <2>1. dst + start \in Int /\ src + start \in Int
    BY Memory
  <2> QED
    BY <1>2, <2>1 DEF CallType, Functions
<1>4. Types'
  BY <1>1, <1>2, <1>3 DEF Types
<1>5. Done' \in 0..len
  BY <1>3, Memory DEF Done
<1>6. \A a \in Address : ~(a >= Lo' /\ a < Hi')
  <2>1. CASE Down'
    <3>1. Lo' = dst + start /\ Hi' = dst + len /\ start = len
      BY <1>3, <2>1 DEF Lo, Hi
    <3> QED
      BY <3>1, Memory
  <2>2. CASE ~Down'
    <3>1. Lo' = dst /\ Hi' = dst + start /\ start = 0
      BY <1>3, <2>2 DEF Lo, Hi
    <3> QED
      BY <3>1, Memory
  <2> QED
    BY <2>1, <2>2
<1>7. Written(memory, Lo, Hi)'
  <2> DEFINE P(a) == Promised(a - call.dst)'
  <2>1. before = [a \in Address |-> IF a >= Lo' /\ a < Hi' THEN P(a) ELSE before[a]]
    <3> HIDE DEF P
    <3> QED
      BY <1>1, <1>6 DEF Types
  <2>2. memory' = [a \in Address |-> IF a >= Lo' /\ a < Hi' THEN P(a) ELSE before'[a]]
    <3> HIDE DEF P
    <3> QED
      BY <1>1, <1>2, <2>1
  <2> QED
    BY <2>2 DEF Written
<1> QED
  BY <1>3, <1>4, <1>5, <1>7 DEF Inv

\* The string that a call is given is the one it finds.
LEMMA StringNext ==
  ASSUME NEW src \in Address, NEW len, before' = before, call'.src = src, call'.len = len
  PROVE  /\ Ends(call.src)' = Ends(src) /\ strlen(call.src)' = strlen(src)
         /\ Read(call.src, call.len)' = Read(src, len)
<1> DEFINE First(S) == CHOOSE i \in S : \A j \in S : i <= j
<1>1. Ends(call.src)' = Ends(src)
  BY DEF Ends
<1>2. strlen(call.src)' = strlen(src)
  <2>1. strlen(src) = First(Ends(src)) - src
    BY DEF strlen
  <2>2. strlen(call.src)' = First(Ends(call.src)') - call.src'
    BY DEF strlen
  <2> HIDE DEF First
  <2> QED
    BY <1>1, <2>1, <2>2
<1>3. Read(call.src, call.len)' = Read(src, len)
  BY <1>1, <1>2 DEF Read
<1> QED
  BY <1>1, <1>2, <1>3

\* Each function enters with its arguments where Position wants them.
LEMMA EnterStep ==
  ASSUME Inv,
         \/ \E dst \in Address, len \in 0 .. MemSize :
              \/ memset(dst, len)
              \/ \E src \in Address :
                   memcpy(dst, src, len) \/ memmove(dst, src, len) \/ strncpy(dst, src, len)
         \/ \E dst, src \in Address : strcpy(dst, src)
  PROVE  Inv'
<1> \A a \in Address : a \in Nat
  BY Memory
<1> MemSize \in Nat
  BY Memory
<1>1. ASSUME NEW dst \in Address, NEW len \in 0..MemSize, memset(dst, len) PROVE Inv'
  <2>1. Enter("memset", dst, dst, len, 0, len) /\ dst + len <= MemSize
    BY <1>1 DEF memset
  <2>2. call'.fn = "memset" /\ call'.dst = dst /\ call'.len = len /\ call'.d = dst + 0 /\ call'.n = len
    BY <2>1 DEF Enter
  <2>3. Done' = 0
    BY <2>2 DEF Done
  <2>4. Position' /\ ~Down'
    BY <2>2, <2>3 DEF Position, Down
  <2> QED
    BY <2>1, <2>4, Begins DEF Functions
<1>2. ASSUME NEW dst \in Address, NEW src \in Address, NEW len \in 0..MemSize, memcpy(dst, src, len)
      PROVE  Inv'
  <2>1. Enter("memcpy", dst, src, len, 0, len) /\ dst + len <= MemSize
        /\ Within(dst, src, len, len) /\ Apart(dst, src, len, len)
    BY <1>2 DEF memcpy, Within
  <2>2. call'.fn = "memcpy" /\ call'.dst = dst /\ call'.src = src /\ call'.len = len
        /\ call'.d = dst + 0 /\ call'.s = src + 0 /\ call'.n = len
    BY <2>1 DEF Enter
  <2>3. Done' = 0
    BY <2>2 DEF Done
  <2>4. Position' /\ ~Down'
    BY <2>1, <2>2, <2>3 DEF Position, Down, Within, Apart
  <2> QED
    BY <2>1, <2>4, Begins DEF Functions
<1>3. ASSUME NEW dst \in Address, NEW src \in Address, NEW len \in 0..MemSize, memmove(dst, src, len)
      PROVE  Inv'
  <2> DEFINE start == IF memmove_up(dst, src) THEN 0 ELSE len
  <2>1. Enter("memmove", dst, src, len, start, len) /\ dst + len <= MemSize
        /\ Within(dst, src, len, len)
    BY <1>3 DEF memmove, Within
  <2>2. call'.fn = "memmove" /\ call'.dst = dst /\ call'.src = src /\ call'.len = len
        /\ call'.d = dst + start /\ call'.s = src + start /\ call'.n = len
    BY <2>1 DEF Enter
  <2>3. start = (IF Down' THEN len ELSE 0) /\ start \in {0, len} /\ start \in Nat
    BY <2>2 DEF Down, memmove_up
  <2> HIDE DEF start
  <2>4. Done' = start
    BY <2>2, <2>3 DEF Done
  <2>5. call'.n = (IF Down' THEN Done' ELSE call'.len - Done') /\ call'.s = call'.src + Done'
    BY <2>2, <2>3, <2>4
  <2>6. Position'
    BY <2>1, <2>2, <2>5 DEF Position, Within
  <2> QED
    BY <2>1, <2>3, <2>6, Begins DEF Functions
<1>4. ASSUME NEW dst \in Address, NEW src \in Address, NEW len \in 0..MemSize, strncpy(dst, src, len)
      PROVE  Inv'
  <2>1. Enter("strncpy", dst, src, len, 0, len) /\ dst + len <= MemSize
        /\ Within(dst, src, len, Read(src, len)) /\ Apart(dst, src, len, Read(src, len))
    BY <1>4 DEF strncpy, Within
  <2>2. call'.fn = "strncpy" /\ call'.dst = dst /\ call'.src = src /\ call'.len = len
        /\ call'.d = dst + 0 /\ call'.s = src + 0 /\ call'.n = len /\ before' = before
    BY <2>1 DEF Enter
  <2>3. Done' = 0
    BY <2>2 DEF Done
  <2>4. Ends(call.src)' = Ends(src) /\ strlen(call.src)' = strlen(src)
        /\ Read(call.src, call.len)' = Read(src, len)
    BY <2>1, <2>2, StringNext
  <2>5. call'.s = call'.src + (IF Ends(call.src)' # {} /\ strlen(call.src)' < Done'
                               THEN strlen(call.src)' ELSE Done')
    <3>1. CASE Ends(src) # {}
      <4>1. strlen(src) \in Nat
        BY <3>1, StringEnd
      <4> QED
        BY <2>2, <2>3, <2>4, <4>1
    <3>2. CASE Ends(src) = {}
      BY <2>2, <2>3, <2>4, <3>2
    <3> QED
      BY <3>1, <3>2
  <2>6. Within(call.dst, call.src, call.len, Read(call.src, call.len))'
        /\ Apart(call.dst, call.src, call.len, Read(call.src, call.len))'
    BY <2>1, <2>2, <2>4 DEF Within, Apart
  <2>7. call'.n = call'.len - Done'
    BY <2>2, <2>3
  <2>8. Position' /\ ~Down'
    BY <2>2, <2>5, <2>6, <2>7 DEF Position, Down
  <2> QED
    BY <2>1, <2>8, Begins DEF Functions
<1>5. ASSUME NEW dst \in Address, NEW src \in Address, strcpy(dst, src) PROVE Inv'
  <2> DEFINE len == strlen(src) + 1
  <2>1. Enter("strcpy", dst, src, len, 0, 1) /\ dst + len <= MemSize /\ Ends(src) # {}
        /\ Within(dst, src, len, len) /\ Apart(dst, src, len, len)
    BY <1>5 DEF strcpy, Within
  <2>2. call'.fn = "strcpy" /\ call'.dst = dst /\ call'.src = src /\ call'.len = len
        /\ call'.d = dst + 0 /\ call'.s = src + 0 /\ call'.n = 1 /\ before' = before
    BY <2>1 DEF Enter
  <2>3. Done' = 0
    BY <2>2 DEF Done
  <2>4. Ends(call.src)' = Ends(src) /\ strlen(call.src)' = strlen(src)
    BY <2>1, <2>2, StringNext
  <2>5. strlen(src) \in Nat /\ len \in Nat /\ len > 0
    BY <2>1, StringEnd
  <2>6. call'.len = strlen(call.src)' + 1 /\ Ends(call.src)' # {}
    BY <2>1, <2>2, <2>4
  <2> HIDE DEF len
  <2>7. call'.n = (IF Done' < call'.len THEN 1 ELSE 0) /\ call'.s = call'.src + Done'
    BY <2>2, <2>3, <2>5
  <2>8. Position' /\ ~Down'
    BY <2>1, <2>2, <2>6, <2>7 DEF Position, Down, Within, Apart
  <2> QED
    BY <2>1, <2>5, <2>8, Begins DEF Functions
<1> QED
  BY <1>1, <1>2, <1>3, <1>4, <1>5

------------------------------------------------------------------------------
(***************************************************************************)
(* The theorem.                                                            *)
(***************************************************************************)
LEMMA BytesInitInv == BytesInit => Inv
<1> SUFFICES ASSUME BytesInit PROVE Inv
  OBVIOUS
<1>1. 0 \in Address
  BY Memory
<1> QED
  BY <1>1 DEF BytesInit, Inv, Types, CallType

LEMMA BytesNextInv == Inv /\ [BytesNext]_bytesVars => Inv'
<1> SUFFICES ASSUME Inv, [BytesNext]_bytesVars PROVE Inv'
  OBVIOUS
<1>1. CASE UNCHANGED bytesVars
  <2>1. memory' = memory /\ Same /\ call' = call
    BY <1>1 DEF bytesVars, Same
  <2>2. Written(memory, Lo, Hi) => Written(memory, Lo, Hi)'
    <3>1. Lo' = Lo /\ Hi' = Hi
      BY <2>1 DEF Lo, Hi, Down, memmove_up
    <3> QED
      BY <2>1, <3>1, WrittenNext
  <2>3. Position => Position'
    <3>1. Ends(call.src)' = Ends(call.src) /\ strlen(call.src)' = strlen(call.src)
          /\ Read(call.src, call.len)' = Read(call.src, call.len)
      BY <2>1, PromiseStays
    <3>2. Done' = Done /\ Down' = Down
      BY <2>1 DEF Done, Down, memmove_up
    <3> QED
      BY <2>1, <3>1, <3>2 DEF Position, Within, Apart
  <2>4. Done' = Done /\ before' = before
    BY <2>1 DEF Done, Same
  <2> QED
    BY <2>1, <2>2, <2>3, <2>4 DEF Inv, Types
<1>2. CASE \/ \E dst \in Address, len \in 0 .. MemSize :
                \/ memset(dst, len)
                \/ \E src \in Address :
                     memcpy(dst, src, len) \/ memmove(dst, src, len) \/ strncpy(dst, src, len)
           \/ \E dst, src \in Address : strcpy(dst, src)
  BY <1>2, EnterStep
<1>3. CASE memset_byte /\ UNCHANGED before
  BY <1>3, memset_byteStep
<1>4. CASE copy_byte /\ UNCHANGED before
  BY <1>4, copy_upStep, copy_downStep
<1>5. CASE strncpy_byte /\ UNCHANGED before
  BY <1>5, strncpy_byteStep
<1>6. CASE strcpy_byte /\ UNCHANGED before
  BY <1>6, strcpy_byteStep
<1> QED
  BY <1>1, <1>2, <1>3, <1>4, <1>5, <1>6 DEF BytesNext

\* A call that has nothing left has written its whole destination.
LEMMA InvCopies == Inv => CopiesAsIfAtOnce
<1> SUFFICES ASSUME Inv, call.fn # "none", call.n = 0
             PROVE  memory = [a \in Address |-> IF a \in call.dst .. call.dst + call.len - 1
                                                THEN Promised(a - call.dst) ELSE before[a]]
  BY DEF CopiesAsIfAtOnce
<1>1. /\ Types /\ Done \in 0..call.len /\ Position /\ Written(memory, Lo, Hi)
      /\ call.fn \in Functions /\ call.dst \in Nat /\ call.len \in Nat /\ call.d \in Int
  BY Memory DEF Inv, Types, CallType
<1>2. Lo = call.dst /\ Hi = call.dst + call.len
  <2>1. call.d = call.dst + Done
    BY <1>1 DEF Done
  <2>2. CASE Down
    <3>1. Done = 0
      BY <1>1, <2>2 DEF Position, Down
    <3> QED
      BY <1>1, <2>1, <2>2, <3>1 DEF Lo, Hi
  <2>3. CASE ~Down
    <3>1. Done = call.len
      <4>1. CASE call.fn = "strcpy"
        BY <1>1, <4>1 DEF Position
      <4>2. CASE call.fn # "strcpy"
        BY <1>1, <2>3, <4>2 DEF Position, Functions
      <4> QED
        BY <4>1, <4>2
    <3> QED
      BY <1>1, <2>1, <2>3, <3>1 DEF Lo, Hi
  <2> QED
    BY <2>2, <2>3
<1>3. \A a \in Address : (a >= Lo /\ a < Hi) <=> a \in call.dst .. call.dst + call.len - 1
  BY <1>1, <1>2, Memory
<1> DEFINE P(a) == Promised(a - call.dst)
<1>4. memory = [a \in Address |-> IF a >= Lo /\ a < Hi THEN P(a) ELSE before[a]]
  BY <1>1 DEF Written
<1>5. memory = [a \in Address |-> IF a \in call.dst .. call.dst + call.len - 1
                                  THEN P(a) ELSE before[a]]
  <2> HIDE DEF P
  <2> QED
    BY <1>3, <1>4
<1> QED
  BY <1>5

\* memset, memcpy, memmove, strncpy and strcpy do to the memory what their
\* callers want, whatever the memory holds and however memmove's blocks overlap.
THEOREM CopiesAreExact == BytesSpec => []CopiesAsIfAtOnce
<1>1. BytesInit => Inv
  BY BytesInitInv
<1>2. Inv /\ [BytesNext]_bytesVars => Inv'
  BY BytesNextInv
<1>3. Inv => CopiesAsIfAtOnce
  BY InvCopies
<1> QED
  BY <1>1, <1>2, <1>3, PTL DEF BytesSpec

------------------------------------------------------------------------------
(***************************************************************************)
(* Arguments.                                                              *)
(***************************************************************************)
String == Seq(STRING \ {"NUL"})

\* Induction over an initial segment of the naturals, for a set.
LEMMA Segment ==
  ASSUME NEW n \in Nat, NEW S, 0 \in S, \A i \in 1 .. n : i - 1 \in S => i \in S
  PROVE  n \in S
<1> DEFINE Missing == {i \in 0 .. n : i \notin S}
<1>1. SUFFICES ASSUME Missing # {} PROVE FALSE
  OBVIOUS
<1>2. PICK i \in Missing : \A j \in Missing : i <= j
  BY <1>1, LeastNat, Missing \subseteq Nat, Zenon
<1>3. i \in 1 .. n /\ i - 1 \notin Missing
  BY <1>2
<1> QED
  BY <1>2, <1>3

LEMMA Numbers ==
  /\ MAX_ARGS \in Nat \ {0} /\ MAX_PATH \in Nat \ {0} /\ STACK_PAGE \in Nat \ {0}
  /\ WORD_SIZE \in Nat \ {0} /\ STACK_BASE \in Nat \ {0}
  /\ STACK_PAGE % WORD_SIZE = 0
BY ArgumentsAssumption

\* A multiple of the word's size is a whole number of words.
LEMMA WholeWords ==
  ASSUME NEW w \in Int
  PROVE  w * WORD_SIZE \in Int /\ (w * WORD_SIZE) % WORD_SIZE = 0
         /\ (w * WORD_SIZE) \div WORD_SIZE = w
<1> DEFINE W == WORD_SIZE
           a == w * W
           q == a \div W
           r == a % W
<1>1. W \in Nat \ {0}
  BY Numbers
<1> HIDE DEF W
<1>2. a \in Int
  BY <1>1
<1> HIDE DEF a
<1>3. q \in Int /\ r \in 0 .. W - 1 /\ a = W * q + r
  BY <1>1, <1>2
<1> HIDE DEF q, r
<1>4. W * (w - q) = r
  BY <1>1, <1>3 DEF a
<1>5. w = q
  <2> DEFINE d == w - q
  <2>1. d \in Int /\ W * d = r
    BY <1>3, <1>4
  <2> HIDE DEF d
  <2>2. CASE d >= 1
    <3>1. W * d >= W
      BY <1>1, <2>1, <2>2
    <3> QED
      BY <1>1, <1>3, <2>1, <3>1
  <2>3. CASE d <= -1
    <3>1. W * d <= -W
      BY <1>1, <2>1, <2>3
    <3> QED
      BY <1>1, <1>3, <2>1, <3>1
  <2>4. CASE d = 0
    BY <1>3, <2>4 DEF d
  <2> QED
    BY <2>1, <2>2, <2>3, <2>4
<1>6. r = 0
  BY <1>1, <1>3, <1>4, <1>5
<1>7. a \div W = w /\ a % W = 0
  BY <1>5, <1>6 DEF q, r
<1> QED
  BY <1>2, <1>7 DEF a, W

\* The last word boundary below a page of whole words less s bytes.
LEMMA Boundary ==
  ASSUME NEW s \in Int
  PROVE  /\ Null_at(STACK_PAGE - s) \in Int
         /\ (-s) % WORD_SIZE \in 0 .. WORD_SIZE - 1
         /\ Null_at(STACK_PAGE - s) = STACK_PAGE - s - ((-s) % WORD_SIZE) - WORD_SIZE
<1> DEFINE W == WORD_SIZE
           P == STACK_PAGE
           p == P \div W
           q == (P - s) \div W
           r == (P - s) % W
           x == (-s) \div W
           y == (-s) % W
<1>1. W \in Nat \ {0} /\ P \in Nat /\ P % W = 0
  BY Numbers
<1> HIDE DEF W, P
<1>2. p \in Int /\ P = W * p
  BY <1>1
<1>3. q \in Int /\ r \in 0 .. W - 1 /\ P - s = W * q + r
  BY <1>1
<1>4. x \in Int /\ y \in 0 .. W - 1 /\ -s = W * x + y
  BY <1>1
<1> HIDE DEF p, q, r, x, y
<1> DEFINE d == p + x - q
<1>5. d \in Int /\ W * d = r - y
  BY <1>1, <1>2, <1>3, <1>4
<1> HIDE DEF d
<1>6. d = 0
  <2>1. CASE d >= 1
    <3>1. W * d >= W
      BY <1>1, <1>5, <2>1
    <3> QED
      BY <1>1, <1>3, <1>4, <1>5, <3>1
  <2>2. CASE d <= -1
    <3>1. W * d <= -W
      BY <1>1, <1>5, <2>2
    <3> QED
      BY <1>1, <1>3, <1>4, <1>5, <3>1
  <2> QED
    BY <1>5, <2>1, <2>2
<1>7. r = y
  BY <1>1, <1>3, <1>4, <1>5, <1>6
<1>8. Null_at(P - s) = q * W - W
  BY DEF Null_at, q, W
<1>9. q * W = P - s - y /\ q * W \in Int
  BY <1>1, <1>3, <1>7
<1> QED
  BY <1>1, <1>4, <1>8, <1>9 DEF y, W, P

------------------------------------------------------------------------------
(***************************************************************************)
(* The tables that the loop of uprocess_load fills.                        *)
(***************************************************************************)
\* The bytes of the first strings, with their NULs.
Sums(strs, sum) ==
  /\ sum = [i \in 0 .. Len(strs) |-> IF i = 0 THEN 0 ELSE sum[i - 1] + Len(strs[i]) + 1]
  /\ \A i \in 0 .. Len(strs) : sum[i] \in Nat

\* Where the strings begin.
Table(strs, off) ==
  /\ off[Len(strs) + 1] = STACK_PAGE
  /\ \A i \in 1 .. Len(strs) + 1 : off[i] \in Int
  /\ \A i \in 1 .. Len(strs) : off[i] = off[i + 1] - (Len(strs[i]) + 1)

LEMMA Lengths ==
  ASSUME NEW strs \in Seq(String)
  PROVE  /\ Len(strs) \in Nat
         /\ \A i \in 1 .. Len(strs) : strs[i] \in String /\ Len(strs[i]) \in Nat
<1>1. \A i \in 1 .. Len(strs) : strs[i] \in String
  <2> HIDE DEF String
  <2> QED
    OBVIOUS
<1> QED
  BY <1>1 DEF String

LEMMA SumsExist ==
  ASSUME NEW strs \in Seq(String)
  PROVE  \E sum : Sums(strs, sum)
<1> DEFINE n == Len(strs)
           Add(i, s) == s + Len(strs[i]) + 1
           IsSum(j, f) == /\ f = [i \in 0 .. j |-> IF i = 0 THEN 0 ELSE Add(i, f[i - 1])]
                          /\ \A i \in 0 .. j : f[i] \in Nat
           S == {j \in 0 .. n : \E f : IsSum(j, f)}
<1>1. n \in Nat /\ \A i \in 1 .. n, s \in Nat : Add(i, s) \in Nat
  BY Lengths
<1> HIDE DEF Add, n
<1>2. 0 \in S
  <2>1. IsSum(0, [i \in 0 .. 0 |-> 0])
    OBVIOUS
  <2> HIDE DEF IsSum
  <2> QED
    BY <1>1, <2>1
<1>3. ASSUME NEW j \in 1 .. n, j - 1 \in S PROVE j \in S
  <2>1. PICK f : IsSum(j - 1, f)
    BY <1>3
  <2> DEFINE g == [i \in 0 .. j |-> IF i = j THEN Add(j, f[j - 1]) ELSE f[i]]
  <2>2. \A i \in 0 .. j - 1 : f[i] = IF i = 0 THEN 0 ELSE Add(i, f[i - 1])
    BY <2>1
  <2>3. \A i \in 0 .. j - 1 : f[i] \in Nat
    BY <2>1
  <2>4. \A i \in 0 .. j : g[i] = IF i = 0 THEN 0 ELSE Add(i, g[i - 1])
    BY <2>2
  <2>5. \A i \in 0 .. j : g[i] \in Nat
    <3>1. f[j - 1] \in Nat
      BY <1>3, <2>3
    <3>2. Add(j, f[j - 1]) \in Nat
      BY <1>1, <3>1
    <3> QED
      BY <1>3, <2>3, <3>2
  <2>6. IsSum(j, g)
    BY <2>4, <2>5
  <2> HIDE DEF IsSum, g
  <2> QED
    BY <2>6
<1>4. \E f : IsSum(n, f)
  <2> HIDE DEF IsSum
  <2> QED
    BY <1>1, <1>2, <1>3, Segment
<1> QED
  BY <1>4 DEF Sums, Add, n

LEMMA SumsUnique ==
  ASSUME NEW strs \in Seq(String), NEW f, NEW g, Sums(strs, f),
         g = [i \in 0 .. Len(strs) |-> IF i = 0 THEN 0 ELSE g[i - 1] + Len(strs[i]) + 1]
  PROVE  g[Len(strs)] = f[Len(strs)]
<1> DEFINE n == Len(strs)
           S == {j \in 0 .. n : g[j] = f[j]}
<1>1. n \in Nat
  BY Lengths
<1>2. f = [i \in 0 .. n |-> IF i = 0 THEN 0 ELSE f[i - 1] + Len(strs[i]) + 1]
  BY DEF Sums
<1>3. g = [i \in 0 .. n |-> IF i = 0 THEN 0 ELSE g[i - 1] + Len(strs[i]) + 1]
  OBVIOUS
<1> HIDE DEF n
<1>4. g[0] = 0 /\ \A i \in 1 .. n : g[i] = g[i - 1] + Len(strs[i]) + 1
  BY <1>1, <1>3
<1>5. f[0] = 0 /\ \A i \in 1 .. n : f[i] = f[i - 1] + Len(strs[i]) + 1
  BY <1>1, <1>2
<1>6. 0 \in S
  BY <1>1, <1>4, <1>5
<1>7. ASSUME NEW i \in 1 .. n, i - 1 \in S PROVE i \in S
  <2>1. i \in 0 .. n
    BY <1>1
  <2>2. g[i] = g[i - 1] + Len(strs[i]) + 1 /\ f[i] = f[i - 1] + Len(strs[i]) + 1
    BY <1>4, <1>5
  <2>3. g[i - 1] = f[i - 1]
    BY <1>7
  <2>4. g[i] = f[i]
    BY <2>2, <2>3, Zenon
  <2> QED
    BY <2>1, <2>4
<1>8. n \in S
  <2> HIDE DEF S
  <2> QED
    BY <1>1, <1>6, <1>7, Segment
<1> QED
  BY <1>8 DEF n

\* The loop runs from the last string on: by the sums, and what they leave.
LEMMA OffsetsTable ==
  ASSUME NEW strs \in Seq(String), NEW sum, Sums(strs, sum)
  PROVE  /\ Table(strs, Offsets(strs))
         /\ Offsets(strs)[1] = STACK_PAGE - sum[Len(strs)]
<1> DEFINE n == Len(strs)
           L(i) == Len(strs[i]) + 1
           IsOff(f) == f = [i \in 1 .. n + 1 |-> IF i = n + 1 THEN STACK_PAGE
                                                 ELSE f[i + 1] - L(i)]
           off == CHOOSE f : IsOff(f)
           g == [i \in 1 .. n + 1 |-> STACK_PAGE - (sum[n] - sum[i - 1])]
<1>1. n \in Nat /\ STACK_PAGE \in Nat /\ \A i \in 1 .. n : L(i) \in Nat
  BY Lengths, Numbers
<1>2. sum = [i \in 0 .. n |-> IF i = 0 THEN 0 ELSE sum[i - 1] + Len(strs[i]) + 1]
  BY DEF Sums
<1>3. \A i \in 0 .. n : sum[i] \in Nat
  BY DEF Sums
<1>4. Offsets(strs) = off
  BY DEF Offsets, LenWithNul
<1>5. \A i \in 1 .. n : sum[i] = sum[i - 1] + L(i)
  <2> SUFFICES ASSUME NEW i \in 1 .. n PROVE sum[i] = sum[i - 1] + L(i)
    OBVIOUS
  <2> HIDE DEF n
  <2>1. i \in 0 .. n /\ i # 0
    BY <1>1
  <2>2. sum[i] = sum[i - 1] + Len(strs[i]) + 1
    BY <1>2, <2>1
  <2>3. sum[i - 1] \in Nat /\ Len(strs[i]) \in Nat
    BY <1>1, <1>3, Lengths DEF n
  <2> QED
    BY <2>2, <2>3
<1> HIDE DEF n, L
<1>6. IsOff(g)
  <2>1. ASSUME NEW i \in 1 .. n + 1
        PROVE  g[i] = IF i = n + 1 THEN STACK_PAGE ELSE g[i + 1] - L(i)
    <3>1. CASE i = n + 1
      <4>1. (n + 1) - 1 = n /\ sum[n] \in Nat
        BY <1>1, <1>3
      <4>2. g[i] = STACK_PAGE - (sum[n] - sum[n])
        BY <3>1, <4>1
      <4> HIDE DEF g
      <4> QED
        BY <1>1, <3>1, <4>1, <4>2
    <3>2. CASE i # n + 1
      <4>1. i \in 1 .. n /\ i \in 0 .. n /\ i - 1 \in 0 .. n /\ n \in 0 .. n
            /\ i + 1 \in 1 .. n + 1 /\ (i + 1) - 1 = i
        BY <1>1, <3>2
      <4>2. g[i] = STACK_PAGE - (sum[n] - sum[i - 1]) /\ g[i + 1] = STACK_PAGE - (sum[n] - sum[i])
        BY <4>1
      <4> HIDE DEF g
      <4>3. sum[i] = sum[i - 1] + L(i) /\ sum[i] \in Nat /\ sum[i - 1] \in Nat
            /\ sum[n] \in Nat /\ L(i) \in Nat
        BY <1>1, <1>3, <1>5, <4>1
      <4>4. g[i] = g[i + 1] - L(i)
        <5> DEFINE a == sum[i - 1]
                   b == sum[i]
                   c == sum[n]
                   x == L(i)
        <5>1. STACK_PAGE \in Nat /\ a \in Nat /\ b \in Nat /\ c \in Nat /\ x \in Nat
          BY <1>1, <4>3
        <5>2. b = a + x /\ g[i] = STACK_PAGE - (c - a) /\ g[i + 1] = STACK_PAGE - (c - b)
          BY <4>2, <4>3
        <5> HIDE DEF a, b, c, x
        <5>3. g[i] = g[i + 1] - x
          BY ONLY <5>1, <5>2
        <5> QED
          BY <5>3 DEF x
      <4> QED
        BY <3>2, <4>4
    <3> QED
      BY <3>1, <3>2
  <2> QED
    BY <2>1
<1>7. IsOff(off)
  <2> HIDE DEF IsOff, g
  <2> QED
    BY <1>6
<1>8. \A i \in 1 .. n + 1 : off[i] = IF i = n + 1 THEN STACK_PAGE ELSE off[i + 1] - L(i)
  <2> HIDE DEF off
  <2> QED
    BY <1>7
<1> HIDE DEF off, IsOff, g
<1> DEFINE S == {j \in 0 .. n : off[n + 1 - j] = STACK_PAGE - (sum[n] - sum[n - j])}
<1>9. 0 \in S
  BY <1>1, <1>3, <1>8
<1>10. ASSUME NEW j \in 1 .. n, j - 1 \in S PROVE j \in S
  <2> DEFINE i == n + 1 - j
  <2>1. i \in 1 .. n /\ i - 1 = n - j /\ n + 1 - (j - 1) = i + 1 /\ n - (j - 1) = i
    BY <1>1
  <2> HIDE DEF i
  <2>2. off[i + 1] = STACK_PAGE - (sum[n] - sum[i])
    BY <1>10, <2>1
  <2>3. off[i] = off[i + 1] - L(i)
    BY <1>1, <1>8, <2>1
  <2>4. sum[i] = sum[i - 1] + L(i) /\ sum[i] \in Nat /\ sum[i - 1] \in Nat /\ sum[n] \in Nat
    BY <1>1, <1>3, <1>5, <2>1
  <2>5. off[i] = STACK_PAGE - (sum[n] - sum[i - 1])
    <3>1. STACK_PAGE \in Nat /\ L(i) \in Nat
      BY <1>1, <2>1
    <3> QED
      BY ONLY <2>2, <2>3, <2>4, <3>1
  <2>6. off[n + 1 - j] = STACK_PAGE - (sum[n] - sum[n - j])
    BY <2>1, <2>5 DEF i
  <2> QED
    BY <1>1, <2>6
<1>11. ASSUME NEW m \in 0 .. n PROVE m \in S
  <2>1. \A j \in 1 .. m : j - 1 \in S => j \in S
    <3> HIDE DEF S
    <3> QED
      BY <1>1, <1>10
  <2> HIDE DEF S
  <2> QED
    BY <1>1, <1>9, <2>1, Segment
<1>12. \A i \in 1 .. n + 1 : off[i] = STACK_PAGE - (sum[n] - sum[i - 1])
  <2> SUFFICES ASSUME NEW i \in 1 .. n + 1
               PROVE  off[i] = STACK_PAGE - (sum[n] - sum[i - 1])
    OBVIOUS
  <2>1. n + 1 - i \in 0 .. n /\ n + 1 - (n + 1 - i) = i /\ n - (n + 1 - i) = i - 1
    BY <1>1
  <2>2. n + 1 - i \in S
    <3> HIDE DEF S
    <3> QED
      BY <1>11, <2>1
  <2> QED
    BY <2>1, <2>2
<1>13. \A i \in 1 .. n + 1 : off[i] \in Int
  BY <1>1, <1>3, <1>12
<1>14. sum[0] = 0 /\ sum[n] \in Nat
  BY <1>1, <1>2, <1>3
<1>15. off[1] = STACK_PAGE - sum[n]
  BY <1>1, <1>12, <1>14
<1>16. \A i \in 1 .. n : off[i] = off[i + 1] - L(i)
  BY <1>1, <1>8
<1>17. off[n + 1] = STACK_PAGE
  BY <1>1, <1>8
<1> QED
  BY <1>4, <1>13, <1>15, <1>16, <1>17 DEF Table, n, L

LEMMA TableOrder ==
  ASSUME NEW strs \in Seq(String), NEW off, Table(strs, off),
         NEW i \in 1 .. Len(strs) + 1, NEW j \in 1 .. Len(strs) + 1, i <= j
  PROVE  off[i] <= off[j]
<1> DEFINE n == Len(strs)
           S == {d \in 0 .. j - i : off[i] <= off[i + d]}
<1>1. n \in Nat /\ \A k \in 1 .. n : Len(strs[k]) \in Nat
  BY Lengths
<1>2. /\ \A k \in 1 .. n + 1 : off[k] \in Int
      /\ \A k \in 1 .. n : off[k] = off[k + 1] - (Len(strs[k]) + 1)
  BY DEF Table
<1> HIDE DEF n
<1>3. i \in 1 .. n + 1 /\ j \in 1 .. n + 1 /\ j - i \in Nat
  BY <1>1 DEF n
<1>4. 0 \in S
  <2>1. i + 0 = i
    BY <1>1, <1>3
  <2>2. off[i] \in Int
    BY <1>2, <1>3
  <2>3. off[i] <= off[i + 0]
    BY <2>1, <2>2
  <2>4. 0 \in 0 .. j - i
    BY <1>3
  <2> HIDE DEF n
  <2> QED
    BY <2>3, <2>4
<1>5. ASSUME NEW d \in 1 .. j - i, d - 1 \in S PROVE d \in S
  <2>1. i + (d - 1) \in 1 .. n /\ i + (d - 1) + 1 = i + d
    BY <1>1, <1>3
  <2>2. off[i + (d - 1)] <= off[i + d]
    <3> DEFINE k == i + (d - 1)
    <3>1. k \in 1 .. n /\ k \in 1 .. n + 1 /\ k + 1 \in 1 .. n + 1
      BY <1>1, <2>1
    <3>2. k + 1 = i + d
      BY <2>1
    <3> HIDE DEF k
    <3>3. off[k] = off[k + 1] - (Len(strs[k]) + 1) /\ Len(strs[k]) \in Nat
          /\ off[k] \in Int /\ off[k + 1] \in Int
      BY <1>1, <1>2, <3>1
    <3>4. off[k] <= off[k + 1]
      BY <3>3
    <3> QED
      BY <3>2, <3>4 DEF k
  <2>3. off[i] <= off[i + (d - 1)]
    BY <1>5
  <2>4. off[i] \in Int /\ off[i + (d - 1)] \in Int /\ off[i + d] \in Int
    BY <1>1, <1>2, <1>3, <2>1
  <2> QED
    BY <2>2, <2>3, <2>4
<1>6. j - i \in S
  <2> HIDE DEF S
  <2> QED
    BY <1>3, <1>4, <1>5, Segment
<1>7. i + (j - i) = j
  BY <1>1, <1>3
<1> QED
  BY <1>6, <1>7

\* The strings lie one behind the other and end with the page.
LEMMA StringsApart ==
  ASSUME NEW strs \in Seq(String), NEW off, Table(strs, off), NEW i \in 1 .. Len(strs)
  PROVE  /\ off[i] \in Int /\ off[1] \in Int
         /\ off[1] <= off[i] /\ off[i] + Len(strs[i]) + 1 <= STACK_PAGE
         /\ \A j \in 1 .. Len(strs) :
              j # i => \/ off[i] + Len(strs[i]) + 1 <= off[j]
                       \/ off[j] + Len(strs[j]) + 1 <= off[i]
<1> DEFINE n == Len(strs)
<1>1. n \in Nat /\ \A k \in 1 .. n : Len(strs[k]) \in Nat
  BY Lengths
<1>2. /\ \A k \in 1 .. n + 1 : off[k] \in Int
      /\ \A k \in 1 .. n : off[k] = off[k + 1] - (Len(strs[k]) + 1)
      /\ off[n + 1] = STACK_PAGE
  BY DEF Table
<1>3. \A k, j \in 1 .. n + 1 : k <= j => off[k] <= off[j]
  BY TableOrder
<1>4. i \in 1 .. n
  OBVIOUS
<1> HIDE DEF n
<1>5. ASSUME NEW k \in 1 .. n PROVE off[k] + Len(strs[k]) + 1 = off[k + 1]
  <2>1. k + 1 \in 1 .. n + 1
    BY <1>1
  <2>2. off[k + 1] \in Int /\ Len(strs[k]) \in Nat /\ off[k] = off[k + 1] - (Len(strs[k]) + 1)
    BY <1>1, <1>2, <2>1
  <2> QED
    BY <2>2
<1>6. off[1] <= off[i]
  BY <1>1, <1>3, <1>4
<1>7. off[i] + Len(strs[i]) + 1 <= STACK_PAGE
  BY <1>1, <1>2, <1>3, <1>4, <1>5
<1>8. ASSUME NEW j \in 1 .. n, j # i
      PROVE  \/ off[i] + Len(strs[i]) + 1 <= off[j]
             \/ off[j] + Len(strs[j]) + 1 <= off[i]
  <2>1. CASE i < j
    <3>1. i + 1 \in 1 .. n + 1 /\ j \in 1 .. n + 1 /\ i + 1 <= j
      BY <1>1, <1>4, <2>1
    <3> QED
      BY <1>3, <1>4, <1>5, <3>1
  <2>2. CASE j < i
    <3>1. j + 1 \in 1 .. n + 1 /\ i \in 1 .. n + 1 /\ j + 1 <= i
      BY <1>1, <1>4, <2>2
    <3> QED
      BY <1>3, <1>5, <3>1
  <2> QED
    BY <1>1, <1>4, <1>8, <2>1, <2>2
<1>9. off[i] \in Int /\ off[1] \in Int
  BY <1>1, <1>2, <1>4
<1> QED
  BY <1>6, <1>7, <1>8, <1>9 DEF n

------------------------------------------------------------------------------
(***************************************************************************)
(* Strings in memory.                                                      *)
(***************************************************************************)
\* s lies at a, with its NUL.
Lies(bytes, a, s) ==
  \A k \in 0 .. Len(s) : a + k \in DOMAIN bytes /\ bytes[a + k] = ByteOf(s, k)

LEMMA StringBytes ==
  ASSUME NEW s \in String
  PROVE  /\ Len(s) \in Nat /\ ByteOf(s, Len(s)) = "NUL"
         /\ \A k \in 0 .. Len(s) - 1 : ByteOf(s, k) = s[k + 1] /\ ByteOf(s, k) # "NUL"
<1>1. Len(s) \in Nat
  BY DEF String
<1>2. \A i \in 1 .. Len(s) : s[i] \in STRING \ {"NUL"}
  BY DEF String
<1>3. \A k \in 0 .. Len(s) - 1 : k + 1 \in 1 .. Len(s) /\ k < Len(s)
  BY <1>1
<1> QED
  BY <1>1, <1>2, <1>3 DEF ByteOf

LEMMA StringFound ==
  ASSUME NEW bytes, DOMAIN bytes \subseteq Nat, NEW a \in Int, NEW s \in String,
         Lies(bytes, a, s)
  PROVE  EndOf(bytes, a) # {} /\ StringAt(bytes, a) = s
<1> DEFINE E == EndOf(bytes, a)
           top == a + Len(s)
           e == CHOOSE e \in E : \A f \in E : e <= f
<1>1. /\ Len(s) \in Nat /\ ByteOf(s, Len(s)) = "NUL"
      /\ \A k \in 0 .. Len(s) - 1 : ByteOf(s, k) = s[k + 1] /\ ByteOf(s, k) # "NUL"
  BY StringBytes
<1>2. \A k \in 0 .. Len(s) : a + k \in DOMAIN bytes /\ bytes[a + k] = ByteOf(s, k)
  BY DEF Lies
<1>3. \A f : f \in E <=> f \in DOMAIN bytes /\ f >= a /\ bytes[f] = "NUL"
  BY DEF EndOf
<1> HIDE DEF E
<1>4. top \in E /\ top \in Int
  BY <1>1, <1>2, <1>3
<1>5. ASSUME NEW f \in E PROVE f \in Int /\ top <= f
  <2>1. f \in Nat /\ f >= a /\ bytes[f] = "NUL"
    BY <1>3
  <2>2. ASSUME f < top PROVE FALSE
    <3>1. f - a \in 0 .. Len(s) - 1 /\ a + (f - a) = f /\ f - a \in 0 .. Len(s)
      BY <1>1, <2>1, <2>2
    <3> QED
      BY <1>1, <1>2, <2>1, <3>1
  <2> QED
    BY <1>4, <2>1, <2>2
<1>6. e = top
  <2>1. \E x \in E : \A f \in E : x <= f
    BY <1>4, <1>5, Zenon
  <2>2. e \in E /\ \A f \in E : e <= f
    <3> HIDE DEF top
    <3> QED
      BY <2>1, Zenon
  <2> HIDE DEF e
  <2> QED
    BY <1>4, <1>5, <2>2
<1>7. StringAt(bytes, a) = [k \in 1 .. e - a |-> bytes[a + k - 1]]
  BY <1>4 DEF StringAt, E
<1> HIDE DEF e
<1>8. e - a = Len(s)
  BY <1>1, <1>6
<1>9. ASSUME NEW k \in 1 .. Len(s) PROVE bytes[a + k - 1] = s[k]
  <2>1. k - 1 \in 0 .. Len(s) - 1 /\ k - 1 \in 0 .. Len(s) /\ a + (k - 1) = a + k - 1
        /\ k - 1 + 1 = k
    BY <1>1
  <2> QED
    BY <1>1, <1>2, <2>1
<1>10. s = [k \in 1 .. Len(s) |-> s[k]]
  BY DEF String
<1>11. StringAt(bytes, a) = s
  BY <1>7, <1>8, <1>9, <1>10
<1> QED
  BY <1>4, <1>11 DEF E

------------------------------------------------------------------------------
(***************************************************************************)
(* The page.                                                               *)
(***************************************************************************)
\* The table of words lies in the page, below the strings.
Laid(strs, off, argv) ==
  /\ Table(strs, off)
  /\ argv \in Int /\ argv >= 2 * WORD_SIZE
  /\ argv + (Len(strs) + 1) * WORD_SIZE <= off[1]

LEMMA LaidSizes ==
  ASSUME NEW strs \in Seq(String), NEW off, NEW argv, Laid(strs, off, argv)
  PROVE  /\ Len(strs) \in Nat /\ argv \in Int /\ off[1] \in Int
         /\ argv - 2 * WORD_SIZE \in Nat
         /\ argv + (Len(strs) + 1) * WORD_SIZE \in Int
         /\ argv + (Len(strs) + 1) * WORD_SIZE <= off[1]
         /\ off[1] <= STACK_PAGE
<1> DEFINE n == Len(strs)
<1>1. n \in Nat /\ WORD_SIZE \in Nat \ {0} /\ STACK_PAGE \in Nat \ {0}
  BY Lengths, Numbers
<1>2. /\ \A k \in 1 .. n + 1 : off[k] \in Int
      /\ off[n + 1] = STACK_PAGE
  BY DEF Table, Laid
<1>3. \A k, j \in 1 .. n + 1 : k <= j => off[k] <= off[j]
  BY TableOrder DEF Laid
<1>4. argv \in Int /\ argv >= 2 * WORD_SIZE /\ argv + (n + 1) * WORD_SIZE <= off[1]
  BY DEF Laid
<1> HIDE DEF n
<1>5. off[1] \in Int /\ off[1] <= STACK_PAGE
  BY <1>1, <1>2, <1>3
<1>6. (n + 1) * WORD_SIZE \in Int
  BY <1>1
<1>7. argv - 2 * WORD_SIZE \in Nat
  BY <1>1, <1>4
<1> QED
  BY <1>1, <1>4, <1>5, <1>6, <1>7 DEF n

\* Every word of the table is in its place.
LEMMA PageWords ==
  ASSUME NEW strs \in Seq(String), NEW off, NEW argv, Laid(strs, off, argv),
         NEW w \in -2 .. Len(strs)
  PROVE  Page(strs, off, argv)[argv + w * WORD_SIZE] = Word(strs, off, argv, w)
<1> DEFINE n == Len(strs)
           W == WORD_SIZE
           o == argv + w * W
<1>1. /\ n \in Nat /\ argv \in Int /\ off[1] \in Int /\ argv - 2 * W \in Nat
      /\ argv + (n + 1) * W \in Int /\ argv + (n + 1) * W <= off[1] /\ off[1] <= STACK_PAGE
  BY LaidSizes
<1>2. W \in Nat \ {0} /\ STACK_PAGE \in Nat \ {0}
  BY Numbers
<1>3. w * W \in Int /\ (w * W) % W = 0 /\ (w * W) \div W = w
  BY WholeWords
<1>4. w \in Int /\ w >= -2 /\ w <= n
  BY <1>1
<1> HIDE DEF n, W
<1>5. -2 * W <= w * W /\ w * W + W <= (n + 1) * W
  <2> DEFINE p == w + 2
             q == n - w
  <2>1. p \in Nat /\ q \in Nat
    BY <1>1, <1>4
  <2>2. p * W >= 0 /\ q * W >= 0
    BY <1>2, <2>1
  <2>3. p * W = w * W + 2 * W
    BY <1>2, <1>4
  <2>4. q * W + w * W + W = (n + 1) * W
    BY <1>1, <1>2, <1>4
  <2> HIDE DEF p, q
  <2>5. (n + 1) * W \in Int /\ p * W \in Int /\ q * W \in Int
    BY <1>1, <1>2, <2>1
  <2> QED
    BY <1>2, <1>3, <2>2, <2>3, <2>4, <2>5
<1>6. (n + 1) * W \in Int
  BY <1>1, <1>2
<1>7. o - argv = w * W /\ o \in Int
  BY <1>1, <1>3
<1>8. o >= argv - 2 * W /\ o <= argv + (n + 1) * W - 1
  BY <1>1, <1>2, <1>3, <1>5, <1>6
<1> HIDE DEF o
<1>9. o \in argv - 2 * W .. argv + (n + 1) * W - 1 /\ o \in 0 .. STACK_PAGE - 1
  BY <1>1, <1>2, <1>7, <1>8
<1>10. Page(strs, off, argv)[o] = Word(strs, off, argv, (o - argv) \div W)
  BY <1>3, <1>7, <1>9 DEF Page, n, W
<1> QED
  BY <1>3, <1>7, <1>10 DEF o, W

\* So is every byte of the strings.
LEMMA PageStrings ==
  ASSUME NEW strs \in Seq(String), NEW off, NEW argv, Laid(strs, off, argv),
         NEW i \in 1 .. Len(strs)
  PROVE  Lies(Page(strs, off, argv), off[i], strs[i])
<1> DEFINE n == Len(strs)
           s == strs[i]
<1>1. /\ n \in Nat /\ argv \in Int /\ off[1] \in Int /\ argv - 2 * WORD_SIZE \in Nat
      /\ argv + (n + 1) * WORD_SIZE \in Int
      /\ argv + (n + 1) * WORD_SIZE <= off[1] /\ off[1] <= STACK_PAGE
  BY LaidSizes
<1>2. STACK_PAGE \in Nat \ {0} /\ WORD_SIZE \in Nat \ {0}
  BY Numbers
<1>3. /\ off[i] \in Int /\ off[1] <= off[i] /\ off[i] + Len(s) + 1 <= STACK_PAGE
      /\ \A j \in 1 .. n : j # i => \/ off[i] + Len(s) + 1 <= off[j]
                                   \/ off[j] + Len(strs[j]) + 1 <= off[i]
  BY StringsApart DEF Laid
<1>4. \A j \in 1 .. n : off[j] \in Int /\ Len(strs[j]) \in Nat
  BY StringsApart, Lengths DEF Laid
<1>5. i \in 1 .. n
  OBVIOUS
<1> HIDE DEF n
<1> SUFFICES ASSUME NEW k \in 0 .. Len(s)
             PROVE  /\ off[i] + k \in DOMAIN Page(strs, off, argv)
                    /\ Page(strs, off, argv)[off[i] + k] = ByteOf(s, k)
  BY DEF Lies
<1> DEFINE o == off[i] + k
<1>6. Len(s) \in Nat /\ o \in Int /\ o >= off[i] /\ o <= off[i] + Len(s) /\ o - off[i] = k
  <2>1. Len(s) \in Nat
    BY <1>4, <1>5
  <2> HIDE DEF s
  <2>2. k \in Int /\ k >= 0 /\ k <= Len(s)
    BY <2>1
  <2> QED
    BY <1>3, <2>1, <2>2
<1> HIDE DEF o, s
<1>7. o \in 0 .. STACK_PAGE - 1
  <2>1. off[1] >= 0
    <3>1. (n + 1) * WORD_SIZE >= 0
      <4> DEFINE p == n + 1
      <4>1. p \in Nat
        BY <1>1
      <4> HIDE DEF p
      <4>2. p * WORD_SIZE >= 0
        BY <1>2, <4>1
      <4> QED
        BY <4>2 DEF p
    <3>2. argv >= 0
      BY <1>1, <1>2
    <3>3. (n + 1) * WORD_SIZE \in Int
      BY <1>1, <1>2
    <3> QED
      BY <1>1, <3>1, <3>2, <3>3
  <2> QED
    BY <1>1, <1>2, <1>3, <1>6, <2>1
<1>8. o \notin argv - 2 * WORD_SIZE .. argv + (n + 1) * WORD_SIZE - 1
  <2> DEFINE lo == argv - 2 * WORD_SIZE
             hi == argv + (n + 1) * WORD_SIZE
  <2>1. lo \in Int /\ hi \in Int /\ hi <= off[1]
    BY <1>1
  <2> HIDE DEF lo, hi
  <2>2. o \notin lo .. hi - 1
    BY <1>1, <1>3, <1>6, <2>1
  <2>3. argv + (n + 1) * WORD_SIZE - 1 = hi - 1
    <3> DEFINE p == (n + 1) * WORD_SIZE
    <3>1. p \in Int
      BY <1>1, <1>2
    <3>2. hi = argv + p
      BY DEF hi
    <3> HIDE DEF p
    <3>3. argv + p - 1 = hi - 1
      BY <1>1, <3>1, <3>2
    <3> QED
      BY <3>3 DEF p
  <2> QED
    BY <2>2, <2>3, Zenon DEF lo
<1>9. StringsOver(strs, off, o) = {i}
  <2>1. ASSUME NEW j \in 1 .. n, o \in off[j] .. off[j] + LenWithNul(strs[j]) - 1, j # i
        PROVE  FALSE
    <3>1. o >= off[j] /\ o <= off[j] + (Len(strs[j]) + 1) - 1
      BY <2>1 DEF LenWithNul
    <3>2. off[j] \in Int /\ Len(strs[j]) \in Nat
      BY <1>4
    <3>3. off[i] + Len(s) + 1 <= off[j] \/ off[j] + Len(strs[j]) + 1 <= off[i]
      BY <1>3, <2>1
    <3> DEFINE a == off[i]
               b == off[j]
               x == Len(s)
               y == Len(strs[j])
    <3>4. a \in Int /\ b \in Int /\ x \in Nat /\ y \in Nat /\ o \in Int
          /\ o >= a /\ o <= a + x
      BY <1>3, <1>6, <3>2
    <3>5. o >= b /\ o <= b + (y + 1) - 1 /\ (a + x + 1 <= b \/ b + y + 1 <= a)
      BY <3>1, <3>3
    <3> HIDE DEF a, b, x, y
    <3> QED
      BY <3>4, <3>5
  <2>2. o \in off[i] .. off[i] + LenWithNul(s) - 1
    BY <1>3, <1>6 DEF LenWithNul
  <2> QED
    BY <1>5, <2>1, <2>2 DEF StringsOver, n, s
<1>10. (CHOOSE j \in StringsOver(strs, off, o) : TRUE) = i
  BY <1>9
<1>11. Page(strs, off, argv)[o] = ByteOf(strs[i], o - off[i])
  <2>1. Page(strs, off, argv)[o] =
          LET j == CHOOSE j \in StringsOver(strs, off, o) : TRUE
          IN  ByteOf(strs[j], o - off[j])
    BY <1>7, <1>8, <1>9 DEF Page, n
  <2> QED
    BY <1>10, <2>1
<1>12. DOMAIN Page(strs, off, argv) = 0 .. STACK_PAGE - 1
  BY DEF Page
<1> QED
  BY <1>6, <1>7, <1>11, <1>12 DEF o, s

------------------------------------------------------------------------------
(***************************************************************************)
(* The room that arguments need, and whether the page has it.              *)
(***************************************************************************)
\* Where argv comes to lie for what the caller gave.
Argv == ArgvAt(Len(args), Null_at(Offsets(args)[1]))

LEMMA ArgvInPage ==
  ASSUME args \in Seq(String)
  PROVE  /\ Argv \in Int
         /\ Argv >= 2 * WORD_SIZE => Laid(args, Offsets(args), Argv)
         /\ Bytes_needed \in Int
         /\ Bytes_needed <= STACK_PAGE <=> Argv >= 2 * WORD_SIZE
<1> DEFINE n == Len(args)
           W == WORD_SIZE
           off == Offsets(args)
           g == CHOOSE g : g = [i \in 0 .. n |-> IF i = 0 THEN 0 ELSE g[i - 1] + Len(args[i]) + 1]
<1>1. PICK sum : Sums(args, sum)
  BY SumsExist
<1>2. Table(args, off) /\ off[1] = STACK_PAGE - sum[n]
  BY <1>1, OffsetsTable
<1>3. n \in Nat /\ sum[n] \in Nat /\ W \in Nat \ {0} /\ STACK_PAGE \in Nat \ {0}
  <2>1. n \in Nat
    BY Lengths
  <2>2. \A i \in 0 .. n : sum[i] \in Nat
    BY <1>1 DEF Sums
  <2>3. n \in 0 .. n
    BY <2>1
  <2> QED
    BY <2>1, <2>2, <2>3, Numbers
<1>4. g[n] = sum[n]
  <2>1. g = [i \in 0 .. n |-> IF i = 0 THEN 0 ELSE g[i - 1] + Len(args[i]) + 1]
    <3> DEFINE Is(f) == f = [i \in 0 .. n |-> IF i = 0 THEN 0 ELSE f[i - 1] + Len(args[i]) + 1]
    <3>1. Is(sum)
      BY <1>1 DEF Sums
    <3>2. g = CHOOSE f : Is(f)
      OBVIOUS
    <3> HIDE DEF Is, g
    <3>3. Is(g)
      BY <3>1, <3>2
    <3> QED
      BY <3>3 DEF Is
  <2> HIDE DEF g
  <2> QED
    BY <1>1, <2>1, SumsUnique
<1> DEFINE s == sum[n]
           y == (-s) % W
<1>5. Bytes_needed = s + y + (n + 3) * W
  <2>1. Bytes_needed = g[n] + ((-g[n]) % W) + (n + 3) * W
    BY DEF Bytes_needed
  <2> HIDE DEF g
  <2> QED
    BY <1>4, <2>1
<1>6. /\ Null_at(off[1]) \in Int /\ y \in 0 .. W - 1
      /\ Null_at(off[1]) = STACK_PAGE - s - y - W
  <2> HIDE DEF off, g
  <2>1. s \in Int
    BY <1>3
  <2> HIDE DEF s
  <2>2. /\ Null_at(STACK_PAGE - s) \in Int /\ y \in 0 .. W - 1
        /\ Null_at(STACK_PAGE - s) = STACK_PAGE - s - y - W
    BY <2>1, Boundary
  <2>3. Null_at(off[1]) = Null_at(STACK_PAGE - s)
    BY <1>2, Zenon DEF s
  <2> QED
    BY <2>2, <2>3
<1>7. Argv = Null_at(off[1]) - n * W
  BY DEF Argv, ArgvAt
<1> HIDE DEF n, W, off, s, y, g
<1> DEFINE p == n * W
           N == Null_at(off[1])
<1>8. p \in Int /\ (n + 3) * W = p + 3 * W /\ (n + 1) * W = p + W /\ s \in Nat /\ y \in Int
  BY <1>3, <1>6 DEF s
<1>9. N \in Int /\ N = STACK_PAGE - s - y - W /\ Argv = N - p /\ off[1] = STACK_PAGE - s
  BY <1>2, <1>6, <1>7 DEF s
<1> HIDE DEF p, N
<1>10. Argv \in Int
  BY <1>8, <1>9
<1>11. Argv + (n + 1) * W <= off[1]
  BY <1>3, <1>6, <1>8, <1>9
<1>12. Bytes_needed <= STACK_PAGE <=> Argv >= 2 * W
  BY <1>3, <1>5, <1>8, <1>9
<1>13. Bytes_needed \in Int
  BY <1>3, <1>5, <1>8
<1> QED
  BY <1>2, <1>10, <1>11, <1>12, <1>13 DEF Laid, n, W, off

------------------------------------------------------------------------------
(***************************************************************************)
(* The invariant: the rows that are written hold their strings, and the    *)
(* page is the one that the caller's strings make.                         *)
(***************************************************************************)
Row(i) == (i - 1) * MAX_PATH

ArgInv ==
  /\ args \in Given /\ copied \in 0 .. Len(args)
  /\ copied > 0 => Len(args) <= MAX_ARGS
  /\ DOMAIN kernel_strs = 0 .. MAX_ARGS * MAX_PATH
  /\ Short => \A i \in 1 .. copied : Lies(kernel_strs, Row(i), args[i])
  /\ Short /\ at \in {"loaded", "main"} =>
       /\ page = Page(args, Offsets(args), Argv)
       /\ Argv >= 2 * WORD_SIZE
       /\ esp = STACK_BASE + Argv - 2 * WORD_SIZE
  /\ Short /\ at = "overrun" => ~(Argv >= 2 * WORD_SIZE)
  /\ Short /\ at = "main" => main = [argc |-> Len(args), argv |-> args, last |-> 0]

LEMMA GivenStrings ==
  ASSUME args \in Given
  PROVE  args \in Seq(String) /\ Len(args) \in Nat
         /\ \A i \in 1 .. Len(args) : args[i] \in String /\ Len(args[i]) \in Nat
<1>1. args \in Seq(String)
  BY ArgumentsAssumption DEF String
<1> QED
  BY <1>1, Lengths

\* The rows follow each other, and the last of them ends with the memory.
LEMMA RowsApart ==
  ASSUME NEW i \in Nat \ {0}
  PROVE  /\ Row(i) \in Nat /\ Row(i + 1) = Row(i) + MAX_PATH
         /\ \A j \in Nat \ {0} : i <= j => Row(i) <= Row(j)
<1>1. MAX_PATH \in Nat \ {0}
  BY Numbers
<1> DEFINE M == MAX_PATH
<1> HIDE DEF M
<1>2. M \in Nat \ {0}
  BY <1>1 DEF M
<1>3. \A k \in Nat : k * M \in Nat
  BY <1>2
<1>4. \A k \in Nat : (k + 1) * M = k * M + M
  BY <1>2
<1>5. ASSUME NEW j \in Nat \ {0}, i <= j PROVE (i - 1) * M <= (j - 1) * M
  <2> DEFINE d == j - i
  <2>1. d \in Nat /\ i - 1 \in Nat /\ j - 1 = (i - 1) + d
    BY <1>5
  <2> HIDE DEF d
  <2>2. d * M \in Nat /\ (i - 1) * M \in Nat
    BY <1>3, <2>1
  <2>3. ((i - 1) + d) * M = (i - 1) * M + d * M
    BY <1>2, <2>1
  <2> QED
    BY <2>1, <2>2, <2>3
<1>6. i - 1 \in Nat /\ i + 1 - 1 = (i - 1) + 1
  OBVIOUS
<1>7. (i - 1) * M \in Nat /\ (i + 1 - 1) * M = (i - 1) * M + M
  BY <1>3, <1>4, <1>6
<1> QED
  BY <1>5, <1>7 DEF Row, M

LEMMA InvInit == ArgInit => ArgInv
<1> SUFFICES ASSUME ArgInit PROVE ArgInv
  OBVIOUS
<1>1. args \in Given /\ copied = 0 /\ at = "copy"
  BY DEF ArgInit
<1>2. DOMAIN kernel_strs = 0 .. MAX_ARGS * MAX_PATH
  BY DEF ArgInit
<1>3. copied \in 0 .. Len(args)
  BY <1>1, GivenStrings
<1>4. ~(copied > 0) /\ 1 .. copied = {}
  BY <1>1
<1>5. at \notin {"loaded", "main"} /\ at # "overrun" /\ at # "main"
  BY <1>1
<1> QED
  BY <1>1, <1>2, <1>3, <1>4, <1>5 DEF ArgInv

\* A short string goes to its row and leaves the other rows alone.
LEMMA CopyKeeps ==
  ASSUME ArgInv, spawn_copy
  PROVE  ArgInv'
<1> DEFINE c == copied + 1
           s == args[c]
           row == copied * MAX_PATH
           len == IF Len(s) < MAX_PATH THEN Len(s) ELSE MAX_PATH
<1>1. /\ args \in Seq(String) /\ Len(args) \in Nat
      /\ \A i \in 1 .. Len(args) : args[i] \in String /\ Len(args[i]) \in Nat
  BY GivenStrings DEF ArgInv
<1>2. /\ copied \in 0 .. Len(args) /\ Len(args) <= MAX_ARGS /\ copied < Len(args)
      /\ copied' = c /\ at = "copy" /\ at' = "copy" /\ args' = args
  BY DEF ArgInv, spawn_copy
<1>3. kernel_strs' = [a \in DOMAIN kernel_strs |->
                        IF a \in row .. row + len THEN ByteOf(s, a - row) ELSE kernel_strs[a]]
  BY DEF spawn_copy
<1>4. MAX_PATH \in Nat \ {0} /\ MAX_ARGS \in Nat \ {0}
  BY Numbers
<1>5. c \in 1 .. Len(args) /\ c \in Nat \ {0} /\ c <= MAX_ARGS /\ c - 1 = copied
  BY <1>1, <1>2, <1>4
<1>6. row = Row(c) /\ row \in Nat /\ Row(c + 1) = row + MAX_PATH
      /\ Row(c + 1) <= MAX_ARGS * MAX_PATH
  <2>1. row = Row(c)
    BY <1>5 DEF Row
  <2>2. Row(MAX_ARGS + 1) = MAX_ARGS * MAX_PATH
    <3>1. (MAX_ARGS + 1) - 1 = MAX_ARGS
      BY <1>4
    <3> QED
      BY <3>1 DEF Row
  <2>3. c + 1 \in Nat \ {0} /\ MAX_ARGS + 1 \in Nat \ {0} /\ c + 1 <= MAX_ARGS + 1
    BY <1>4, <1>5
  <2>4. Row(c) \in Nat /\ Row(c + 1) = Row(c) + MAX_PATH
    BY <1>5, RowsApart
  <2>5. Row(c + 1) <= Row(MAX_ARGS + 1)
    BY <2>3, RowsApart
  <2> QED
    BY <2>1, <2>2, <2>4, <2>5
<1> DEFINE top == MAX_ARGS * MAX_PATH
<1>7. top \in Nat /\ DOMAIN kernel_strs = 0 .. top
  BY <1>4 DEF ArgInv
<1> HIDE DEF row
<1>8. row + MAX_PATH <= top
  BY <1>6
<1>9. DOMAIN kernel_strs' = 0 .. top
  BY <1>3, <1>7
<1> HIDE DEF top, c, s
<1>10. ASSUME Short, NEW i \in 1 .. c PROVE Lies(kernel_strs', Row(i), args[i])
  <2>1. i \in 1 .. Len(args) /\ i \in Nat \ {0} /\ Len(args[i]) \in Nat
    BY <1>1, <1>5
  <2>2. Len(args[i]) < MAX_PATH
    BY <1>1, <1>10, <2>1 DEF Short
  <2>3. Row(i) \in Nat /\ Row(i + 1) = Row(i) + MAX_PATH
    BY <2>1, RowsApart
  <2>4. CASE i = c
    <3>1. s = args[i] /\ Row(i) = row
      BY <1>6, <2>4 DEF s
    <3>2. len = Len(s) /\ Len(s) \in Nat /\ Len(s) < MAX_PATH
      BY <2>1, <2>2, <3>1
    <3> HIDE DEF len
    <3>3. ASSUME NEW k \in 0 .. Len(s)
          PROVE  row + k \in 0 .. top /\ kernel_strs'[row + k] = ByteOf(s, k)
      <4>1. row + k \in 0 .. top
        BY <1>4, <1>6, <1>7, <1>8, <3>2
      <4>2. row + k \in row .. row + len /\ row + k - row = k
        BY <1>6, <3>2
      <4> QED
        BY <1>3, <1>7, <4>1, <4>2
    <3> QED
      BY <1>9, <3>1, <3>3 DEF Lies
  <2>5. CASE i # c
    <3>1. i \in 1 .. copied /\ i + 1 \in Nat \ {0} /\ i + 1 <= c
      BY <1>2, <1>5, <2>1, <2>5 DEF c
    <3>2. Lies(kernel_strs, Row(i), args[i])
      BY <1>10, <3>1 DEF ArgInv
    <3>3. Row(i + 1) <= row
      BY <1>5, <1>6, <3>1, RowsApart
    <3>4. ASSUME NEW k \in 0 .. Len(args[i])
          PROVE  /\ Row(i) + k \in DOMAIN kernel_strs'
                 /\ kernel_strs'[Row(i) + k] = ByteOf(args[i], k)
      <4>1. Row(i) + k \in DOMAIN kernel_strs /\ kernel_strs[Row(i) + k] = ByteOf(args[i], k)
        BY <3>2 DEF Lies
      <4>2. Row(i) + k < row
        BY <1>4, <1>6, <2>1, <2>2, <2>3, <3>3
      <4>3. Row(i) + k \notin row .. row + len
        <5>1. Row(i) + k \in Int
          BY <2>1, <2>3
        <5> HIDE DEF len
        <5> QED
          BY <1>6, <4>2, <5>1
      <4> QED
        BY <1>3, <1>7, <1>9, <4>1, <4>3
    <3> QED
      BY <3>4 DEF Lies
  <2> QED
    BY <2>4, <2>5
<1>11. Short' <=> Short
  BY <1>2 DEF Short
<1>12. Short' => \A i \in 1 .. copied' : Lies(kernel_strs', Row(i), args'[i])
  BY <1>2, <1>10, <1>11
<1>13. args' \in Given /\ copied' \in 0 .. Len(args') /\ Len(args') <= MAX_ARGS
  BY <1>1, <1>2, <1>5 DEF ArgInv
<1>14. DOMAIN kernel_strs' = 0 .. MAX_ARGS * MAX_PATH
  BY <1>9 DEF top
<1>15. at' \notin {"loaded", "main"} /\ at' # "overrun" /\ at' # "main"
  BY <1>2
<1> QED
  BY <1>12, <1>13, <1>14, <1>15 DEF ArgInv, Row

\* What the rows hold is what the caller gave.
LEMMA RowsHold ==
  ASSUME ArgInv, Short, copied = Len(args)
  PROVE  /\ Rows = args
         /\ \A i \in 1 .. Len(args) : EndOf(kernel_strs, (i - 1) * MAX_PATH) # {}
<1>1. /\ args \in Seq(String) /\ Len(args) \in Nat
      /\ \A i \in 1 .. Len(args) : args[i] \in String /\ Len(args[i]) \in Nat
  BY GivenStrings DEF ArgInv
<1>2. DOMAIN kernel_strs \subseteq Nat
  <2> DEFINE top == MAX_ARGS * MAX_PATH
  <2>1. DOMAIN kernel_strs = 0 .. top
    BY DEF ArgInv
  <2> HIDE DEF top
  <2> QED
    BY <2>1
<1>3. ASSUME NEW i \in 1 .. Len(args)
      PROVE  /\ EndOf(kernel_strs, (i - 1) * MAX_PATH) # {}
             /\ StringAt(kernel_strs, (i - 1) * MAX_PATH) = args[i]
  <2>1. Lies(kernel_strs, Row(i), args[i])
    BY DEF ArgInv
  <2>2. Row(i) \in Int
    BY <1>1, RowsApart
  <2>3. EndOf(kernel_strs, Row(i)) # {} /\ StringAt(kernel_strs, Row(i)) = args[i]
    BY <1>1, <1>2, <2>1, <2>2, StringFound
  <2> QED
    BY <2>3 DEF Row
<1>4. Rows = [i \in 1 .. Len(args) |-> args[i]]
  BY <1>3 DEF Rows
<1>5. args = [i \in 1 .. Len(args) |-> args[i]]
  <2> HIDE DEF String
  <2> QED
    BY <1>1
<1> QED
  BY <1>3, <1>4, <1>5

LEMMA LoadKeeps ==
  ASSUME ArgInv, uprocess_load_args
  PROVE  ArgInv'
<1>1. /\ at = "copy" /\ Len(args) <= MAX_ARGS /\ copied = Len(args)
      /\ args' = args /\ kernel_strs' = kernel_strs /\ copied' = copied /\ main' = main
      /\ at' \in {"loaded", "overrun"}
  BY DEF uprocess_load_args, load_from, load_args
<1>2. Short' = Short /\ Argv' = Argv /\ Offsets(args)' = Offsets(args)
      /\ Page(args, Offsets(args), Argv)' = Page(args, Offsets(args), Argv)
  BY <1>1 DEF Short, Argv, Offsets, Page, Word, StringsOver, ArgvAt, Null_at, ByteOf, LenWithNul
<1>3. ASSUME Short
      PROVE  /\ at' = "loaded" => /\ page' = Page(args, Offsets(args), Argv)
                                  /\ Argv >= 2 * WORD_SIZE
                                  /\ esp' = STACK_BASE + Argv - 2 * WORD_SIZE
             /\ at' = "overrun" => ~(Argv >= 2 * WORD_SIZE)
  <2>1. /\ Rows = args
        /\ \A i \in 1 .. Len(args) : EndOf(kernel_strs, (i - 1) * MAX_PATH) # {}
    BY <1>1, <1>3, RowsHold
  <2>2. load_args(args, Offsets(args), Argv)
    BY <2>1 DEF uprocess_load_args, load_from, Argv
  <2>3. Argv \in Int /\ 2 * WORD_SIZE \in Int
    BY ArgvInPage, GivenStrings, Numbers DEF ArgInv
  <2>4. Argv < 2 * WORD_SIZE <=> ~(Argv >= 2 * WORD_SIZE)
    BY <2>3
  <2> QED
    BY <2>2, <2>4 DEF load_args
<1>4. at' # "main" /\ (at' \in {"loaded", "main"} => at' = "loaded")
  BY <1>1
<1> QED
  BY <1>1, <1>2, <1>3, <1>4 DEF ArgInv, Lies, ByteOf, Row

LEMMA StartKeeps ==
  ASSUME ArgInv, _start
  PROVE  ArgInv'
<1> DEFINE n == Len(args)
           off == Offsets(args)
           B == STACK_BASE
           W == WORD_SIZE
<1>1. /\ at = "loaded" /\ at' = "main" /\ args' = args /\ kernel_strs' = kernel_strs
      /\ copied' = copied /\ page' = page /\ esp' = esp
  BY DEF _start
<1>2. Short' = Short /\ Argv' = Argv /\ Offsets(args)' = Offsets(args)
      /\ Page(args, Offsets(args), Argv)' = Page(args, Offsets(args), Argv)
  BY <1>1 DEF Short, Argv, Offsets, Page, Word, StringsOver, ArgvAt, Null_at, ByteOf, LenWithNul
<1>3. ASSUME Short PROVE main' = [argc |-> n, argv |-> args, last |-> 0]
  <2>1. /\ args \in Seq(String) /\ n \in Nat
        /\ \A i \in 1 .. n : args[i] \in String /\ Len(args[i]) \in Nat
    BY GivenStrings DEF ArgInv
  <2>2. page = Page(args, off, Argv) /\ Argv >= 2 * W /\ esp = B + Argv - 2 * W
    BY <1>1, <1>3 DEF ArgInv
  <2>3. Argv \in Int /\ Laid(args, off, Argv)
    BY <2>1, <2>2, ArgvInPage
  <2>4. \A w \in -2 .. n : page[Argv + w * W] = Word(args, off, Argv, w)
    BY <2>1, <2>2, <2>3, PageWords
  <2>5. B \in Nat /\ W \in Nat \ {0}
    BY Numbers
  <2>6. \A i \in 1 .. n : StringAt(page, off[i]) = args[i] /\ off[i] \in Int
    <3> SUFFICES ASSUME NEW i \in 1 .. n PROVE StringAt(page, off[i]) = args[i] /\ off[i] \in Int
      OBVIOUS
    <3>1. Lies(page, off[i], args[i])
      BY <2>1, <2>2, <2>3, PageStrings
    <3>2. off[i] \in Int
      BY <2>1, <2>3 DEF Laid, Table
    <3>3. DOMAIN page \subseteq Nat
      BY <2>2 DEF Page
    <3> HIDE DEF off
    <3> QED
      BY <2>1, <3>1, <3>2, <3>3, StringFound
  <2> HIDE DEF n, off, B, W
  <2>7. Word(args, off, Argv, -2) = n
    BY <2>1 DEF Word, n
  <2>8. Word(args, off, Argv, -1) = B + Argv
    BY <2>1 DEF Word, n, B
  <2>9. \A i \in 1 .. n : Word(args, off, Argv, i - 1) = B + off[i]
    BY <2>1 DEF Word, n, B
  <2>10. Word(args, off, Argv, n) = 0
    BY <2>1 DEF Word, n
  <2>11. WordAt(esp) = n
    <3>1. esp - B = Argv + (-2) * W /\ -2 \in -2 .. n
      BY <2>1, <2>2, <2>3, <2>5
    <3> QED
      BY <2>4, <2>7, <3>1 DEF WordAt, B
  <2>12. WordAt(esp + W) = B + Argv
    <3>1. (esp + W) - B = Argv + (-1) * W /\ -1 \in -2 .. n
      BY <2>1, <2>2, <2>3, <2>5
    <3> QED
      BY <2>4, <2>8, <3>1 DEF WordAt, B
  <2>13. \A i \in 1 .. n : WordAt(B + Argv + (i - 1) * W) = B + off[i]
    <3> SUFFICES ASSUME NEW i \in 1 .. n PROVE WordAt(B + Argv + (i - 1) * W) = B + off[i]
      OBVIOUS
    <3> DEFINE w == i - 1
    <3>1. w \in -2 .. n /\ w \in Int
      BY <2>1
    <3> HIDE DEF w
    <3>2. w * W \in Int
      BY <2>5, <3>1
    <3>3. (B + Argv + w * W) - B = Argv + w * W
      BY <2>3, <2>5, <3>2
    <3>4. page[Argv + w * W] = B + off[i]
      BY <2>4, <2>9, <3>1 DEF w
    <3> QED
      BY <3>3, <3>4 DEF WordAt, B, w
  <2>14. WordAt(B + Argv + n * W) = 0
    <3>1. n * W \in Int /\ n \in -2 .. n
      BY <2>1, <2>5
    <3>2. (B + Argv + n * W) - B = Argv + n * W
      BY <2>3, <2>5, <3>1
    <3>3. page[Argv + n * W] = 0
      BY <2>4, <2>10, <3>1
    <3> QED
      BY <3>2, <3>3 DEF WordAt, B
  <2>15. main' = [argc |-> n,
                  argv |-> [i \in 1 .. n |-> StringAt(page, WordAt(B + Argv + (i - 1) * W) - B)],
                  last |-> 0]
    BY <2>11, <2>12, <2>14 DEF _start, B, W
  <2>16. \A i \in 1 .. n : StringAt(page, WordAt(B + Argv + (i - 1) * W) - B) = args[i]
    <3> SUFFICES ASSUME NEW i \in 1 .. n
                 PROVE  StringAt(page, WordAt(B + Argv + (i - 1) * W) - B) = args[i]
      OBVIOUS
    <3>1. (B + off[i]) - B = off[i]
      BY <2>5, <2>6
    <3> QED
      BY <2>6, <2>13, <3>1
  <2>17. args = [i \in 1 .. n |-> args[i]]
    <3> HIDE DEF String
    <3> QED
      BY <2>1 DEF n
  <2> QED
    BY <2>15, <2>16, <2>17
<1> QED
  BY <1>1, <1>2, <1>3 DEF ArgInv, Lies, ByteOf, Row

LEMMA InvStep == ArgInv /\ [ArgNext]_argVars => ArgInv'
<1> SUFFICES ASSUME ArgInv, [ArgNext]_argVars PROVE ArgInv'
  OBVIOUS
<1>1. CASE spawn_refuse
  <2>1. /\ at = "copy" /\ at' = "refused" /\ args' = args /\ kernel_strs' = kernel_strs
        /\ copied' = copied
    BY <1>1 DEF spawn_refuse
  <2>2. at' \notin {"loaded", "main"} /\ at' # "overrun" /\ at' # "main"
    BY <2>1
  <2> QED
    BY <2>1, <2>2 DEF ArgInv, Short, Lies, ByteOf, Row
<1>2. CASE spawn_copy
  BY <1>2, CopyKeeps
<1>3. CASE uprocess_load_args
  BY <1>3, LoadKeeps
<1>4. CASE _start
  BY <1>4, StartKeeps
<1>5. CASE UNCHANGED argVars
  <2>1. /\ at' = at /\ args' = args /\ kernel_strs' = kernel_strs
        /\ copied' = copied /\ page' = page /\ esp' = esp /\ main' = main
    BY <1>5 DEF argVars
  <2>2. Short' = Short /\ Argv' = Argv /\ Offsets(args)' = Offsets(args)
        /\ Page(args, Offsets(args), Argv)' = Page(args, Offsets(args), Argv)
    BY <2>1 DEF Short, Argv, Offsets, Page, Word, StringsOver, ArgvAt, Null_at, ByteOf, LenWithNul
  <2> QED
    BY <2>1, <2>2 DEF ArgInv, Lies, ByteOf, Row
<1> QED
  BY <1>1, <1>2, <1>3, <1>4, <1>5 DEF ArgNext

LEMMA InvArrive == ArgInv => ArgumentsArrive
<1> SUFFICES ASSUME ArgInv, Short
             PROVE  /\ at = "main" => main = [argc |-> Len(args), argv |-> args, last |-> 0]
                    /\ at \in {"loaded", "main"} => Bytes_needed <= STACK_PAGE
                    /\ at = "overrun" => Bytes_needed > STACK_PAGE
  BY DEF ArgumentsArrive
<1>1. Bytes_needed <= STACK_PAGE <=> Argv >= 2 * WORD_SIZE
  BY ArgvInPage, GivenStrings DEF ArgInv
<1>2. Bytes_needed > STACK_PAGE <=> ~(Bytes_needed <= STACK_PAGE)
  BY ArgvInPage, GivenStrings, Numbers DEF ArgInv
<1> QED
  BY <1>1, <1>2 DEF ArgInv

------------------------------------------------------------------------------
(***************************************************************************)
(* Whatever the program that calls spawn gives, as long as each string is  *)
(* shorter than a row: main gets the same strings in the same order, with  *)
(* their number and a null pointer behind them, if they fit the page with  *)
(* their pointers; and only if they do not, uprocess_load writes outside   *)
(* of it.                                                                  *)
(***************************************************************************)
THEOREM ArgumentsReachMain == ArgInit /\ [][ArgNext]_argVars => []ArgumentsArrive
<1> QED
  BY InvInit, InvStep, InvArrive, PTL

------------------------------------------------------------------------------
(***************************************************************************)
(* Format: powers and quotients.                                           *)
(***************************************************************************)
\* Powers, by a table of them.
Powers(base, n, p) == p = [k \in 0 .. n |-> IF k = 0 THEN 1 ELSE base * p[k - 1]]

LEMMA PowersExist ==
  ASSUME NEW base \in Nat, NEW n \in Nat
  PROVE  \E p : Powers(base, n, p)
<1> DEFINE S == {j \in 0 .. n : \E p : Powers(base, j, p)}
<1>1. 0 \in S
  <2>1. Powers(base, 0, [k \in 0 .. 0 |-> 1])
    BY DEF Powers
  <2> QED
    BY <2>1
<1>2. ASSUME NEW j \in 1 .. n, j - 1 \in S PROVE j \in S
  <2>1. PICK f : Powers(base, j - 1, f)
    BY <1>2
  <2> DEFINE g == [k \in 0 .. j |-> IF k = j THEN base * f[j - 1] ELSE f[k]]
  <2>2. \A k \in 0 .. j - 1 : f[k] = IF k = 0 THEN 1 ELSE base * f[k - 1]
    BY <2>1 DEF Powers
  <2>3. \A k \in 0 .. j : g[k] = IF k = 0 THEN 1 ELSE base * g[k - 1]
    BY <2>2
  <2>4. Powers(base, j, g)
    BY <2>3 DEF Powers
  <2> HIDE DEF g
  <2> QED
    BY <2>4
<1> HIDE DEF S
<1>3. n \in S
  BY <1>1, <1>2, Segment
<1> QED
  BY <1>3 DEF S

LEMMA PowersAgree ==
  ASSUME NEW base \in Nat, NEW m \in Nat, NEW n \in Nat, NEW f, NEW g,
         Powers(base, m, f), Powers(base, n, g), m <= n
  PROVE  f[m] = g[m]
<1> DEFINE S == {j \in 0 .. m : f[j] = g[j]}
<1>1. /\ \A k \in 0 .. m : f[k] = IF k = 0 THEN 1 ELSE base * f[k - 1]
      /\ \A k \in 0 .. n : g[k] = IF k = 0 THEN 1 ELSE base * g[k - 1]
  BY DEF Powers
<1>2. 0 \in S
  BY <1>1
<1>3. ASSUME NEW j \in 1 .. m, j - 1 \in S PROVE j \in S
  <2>1. f[j] = base * f[j - 1]
    BY <1>1
  <2>2. g[j] = base * g[j - 1]
    BY <1>1
  <2> QED
    BY <1>3, <2>1, <2>2
<1> HIDE DEF S
<1>4. m \in S
  BY <1>2, <1>3, Segment
<1> QED
  BY <1>4 DEF S

LEMMA PowerIs ==
  ASSUME NEW base \in Nat, NEW n \in Nat
  PROVE  \E p : Powers(base, n, p) /\ Power(base, n) = p[n]
<1> DEFINE p == CHOOSE p : Powers(base, n, p)
<1>1. Powers(base, n, p)
  <2> HIDE DEF Powers
  <2> QED
    BY PowersExist
<1>2. Power(base, n) = p[n]
  BY DEF Power, Powers
<1> QED
  BY <1>1, <1>2

LEMMA PowerSteps ==
  ASSUME NEW base \in Nat, NEW n \in Nat
  PROVE  Power(base, 0) = 1 /\ Power(base, n + 1) = base * Power(base, n)
<1>1. PICK z : Powers(base, 0, z) /\ Power(base, 0) = z[0]
  BY PowerIs
<1>2. PICK f : Powers(base, n, f) /\ Power(base, n) = f[n]
  BY PowerIs
<1>3. PICK g : Powers(base, n + 1, g) /\ Power(base, n + 1) = g[n + 1]
  BY PowerIs
<1>4. f[n] = g[n]
  BY <1>2, <1>3, PowersAgree
<1>5. g[n + 1] = base * g[n]
  BY <1>3 DEF Powers
<1>6. z[0] = 1
  BY <1>1 DEF Powers
<1> QED
  BY <1>1, <1>2, <1>3, <1>4, <1>5, <1>6

LEMMA PowerGrows ==
  ASSUME NEW base \in Nat, base > 1, NEW n \in Nat
  PROVE  Power(base, n) \in Nat /\ Power(base, n) > n
<1> DEFINE S == {j \in 0 .. n : Power(base, j) \in Nat /\ Power(base, j) > j}
<1>1. 0 \in S
  BY PowerSteps
<1>2. ASSUME NEW j \in 1 .. n, j - 1 \in S PROVE j \in S
  <2> DEFINE p == Power(base, j - 1)
  <2>1. p \in Nat /\ p > j - 1
    BY <1>2
  <2>2. Power(base, j) = base * p
    <3>1. j - 1 \in Nat /\ (j - 1) + 1 = j
      OBVIOUS
    <3> QED
      BY <3>1, PowerSteps
  <2> HIDE DEF p
  <2>3. base * p \in Nat /\ base * p >= 2 * p
    BY <2>1
  <2>4. 2 * p > j
    BY <2>1
  <2> QED
    BY <2>1, <2>2, <2>3, <2>4
<1> HIDE DEF S
<1>3. n \in S
  BY <1>1, <1>2, Segment
<1> QED
  BY <1>3 DEF S

LEMMA PowerOrder ==
  ASSUME NEW base \in Nat, base > 1, NEW m \in Nat, NEW n \in Nat, m <= n
  PROVE  Power(base, m) <= Power(base, n)
<1> DEFINE S == {d \in 0 .. n - m : Power(base, m) <= Power(base, m + d)}
<1>1. \A k \in Nat : Power(base, k) \in Nat /\ Power(base, k + 1) = base * Power(base, k)
  BY PowerGrows, PowerSteps
<1>2. 0 \in S
  <2>1. m + 0 = m /\ Power(base, m) \in Nat
    BY <1>1
  <2>2. Power(base, m) <= Power(base, m + 0)
    BY <2>1
  <2> QED
    BY <2>2
<1>3. ASSUME NEW d \in 1 .. n - m, d - 1 \in S PROVE d \in S
  <2> DEFINE a == Power(base, m)
             b == Power(base, m + (d - 1))
             c == Power(base, m + d)
  <2>1. m + (d - 1) \in Nat /\ (m + (d - 1)) + 1 = m + d
    OBVIOUS
  <2>2. a \in Nat /\ b \in Nat /\ c = base * b
    BY <1>1, <2>1
  <2>3. a <= b
    BY <1>3
  <2> HIDE DEF a, b, c
  <2>4. base * b \in Nat /\ base * b >= b
    BY <2>2
  <2>5. a <= c
    BY <2>2, <2>3, <2>4
  <2> QED
    BY <2>5 DEF a, c
<1> HIDE DEF S
<1>4. n - m \in S
  BY <1>2, <1>3, Segment
<1>5. m + (n - m) = n
  OBVIOUS
<1> QED
  BY <1>4, <1>5 DEF S

\* Quotient and remainder.
LEMMA Division ==
  ASSUME NEW a \in Nat, NEW b \in Nat \ {0}
  PROVE  /\ a \div b \in Nat /\ a % b \in 0 .. b - 1
         /\ a = b * (a \div b) + (a % b)
<1>1. a \div b \in Nat
  OBVIOUS
<1>2. a = b * (a \div b) + (a % b)
  OBVIOUS
<1>3. a % b \in 0 .. b - 1
  OBVIOUS
<1> QED
  BY <1>1, <1>2, <1>3

LEMMA QuotientIs ==
  ASSUME NEW a \in Nat, NEW b \in Nat \ {0}, NEW t \in Int, NEW r \in 0 .. b - 1, a = b * t + r
  PROVE  a \div b = t /\ a % b = r
<1> DEFINE q == a \div b
           u == a % b
<1>1. q \in Nat /\ u \in 0 .. b - 1 /\ a = b * q + u
  BY Division
<1> HIDE DEF q, u
<1> DEFINE d == t - q
<1>2. d \in Int /\ b * d = u - r
  BY <1>1
<1> HIDE DEF d
<1>3. d = 0
  <2>1. CASE d >= 1
    <3>1. b * d >= b
      BY <1>2, <2>1
    <3> QED
      BY <1>1, <1>2, <3>1
  <2>2. CASE d <= -1
    <3>1. b * d <= -b
      BY <1>2, <2>2
    <3> QED
      BY <1>1, <1>2, <3>1
  <2> QED
    BY <1>2, <2>1, <2>2
<1>4. t = q
  BY <1>1, <1>3 DEF d
<1>5. b * d = 0
  BY <1>3
<1>6. u = r
  BY <1>1, <1>2, <1>5
<1> QED
  BY <1>4, <1>6 DEF q, u

LEMMA NestedQuotient ==
  ASSUME NEW a \in Nat, NEW b \in Nat \ {0}, NEW c \in Nat \ {0}
  PROVE  b * c \in Nat \ {0} /\ a \div (b * c) = (a \div b) \div c
<1> DEFINE q == a \div b
           r == a % b
           t == q \div c
           u == q % c
           m == b * c
           w == b * u + r
<1>1. q \in Nat /\ r \in 0 .. b - 1 /\ a = b * q + r
  BY Division
<1>2. t \in Nat /\ u \in 0 .. c - 1 /\ q = c * t + u
  BY <1>1, Division
<1> HIDE DEF q, r, t, u
<1>3. m \in Nat \ {0}
  OBVIOUS
<1>4. w \in 0 .. m - 1
  <2> DEFINE x == c - 1 - u
  <2>1. x \in Nat /\ c = u + x + 1
    BY <1>2
  <2> HIDE DEF x
  <2>2. b * u \in Nat /\ b * x \in Nat
    BY <1>2, <2>1
  <2>3. m = b * u + b * x + b
    <3>1. b * (u + x + 1) = b * u + b * x + b
      BY <1>2, <2>1
    <3> QED
      BY <2>1, <3>1
  <2>4. w \in Nat /\ w = b * u + r
    BY <1>1, <2>2
  <2> HIDE DEF m, w
  <2> QED
    BY <1>1, <1>3, <2>2, <2>3, <2>4
<1>5. a = m * t + w
  <2>1. b * q = b * (c * t) + b * u
    BY <1>2
  <2>2. b * (c * t) = (b * c) * t
    BY <1>2
  <2>3. (b * c) * t \in Nat /\ b * u \in Nat
    BY <1>2
  <2> DEFINE x == (b * c) * t
             y == b * u
             z == b * q
  <2>4. x \in Nat /\ y \in Nat /\ z = x + y /\ a = z + r
    BY <1>1, <2>1, <2>2, <2>3
  <2> HIDE DEF x, y, z
  <2>5. a = x + (y + r)
    BY <1>1, <2>4
  <2> QED
    BY <2>5 DEF x, y
<1> HIDE DEF m, w
<1>6. a \div m = t
  BY <1>2, <1>3, <1>4, <1>5, QuotientIs
<1> QED
  BY <1>3, <1>6 DEF m, t, q

LEMMA NestedQuotients ==
  \A a \in Nat : \A b \in Nat \ {0} : \A c \in Nat \ {0} : a \div (b * c) = (a \div b) \div c
BY NestedQuotient

------------------------------------------------------------------------------
(***************************************************************************)
(* Format: numerals, whose digits are found by one division after another. *)
(***************************************************************************)
IsPlaces(v, base, n) == Power(base, n) > v /\ (n = 1 \/ Power(base, n - 1) <= v)

LEMMA OnePlaces ==
  ASSUME NEW base \in Nat, base > 1, NEW v \in Nat, NEW m \in Nat \ {0}, NEW n \in Nat \ {0},
         IsPlaces(v, base, m), IsPlaces(v, base, n)
  PROVE  m <= n
<1> SUFFICES ASSUME n < m PROVE FALSE
  OBVIOUS
<1>1. n \in Nat /\ m - 1 \in Nat /\ n <= m - 1 /\ m # 1
  OBVIOUS
<1>2. Power(base, m - 1) <= v /\ Power(base, n) > v
  BY <1>1 DEF IsPlaces
<1>3. Power(base, n) <= Power(base, m - 1) /\ Power(base, n) \in Nat /\ Power(base, m - 1) \in Nat
  BY <1>1, PowerOrder, PowerGrows
<1> QED
  BY <1>2, <1>3

LEMMA PlacesAre ==
  ASSUME NEW base \in Nat, base > 1, NEW v \in 0 .. WORD - 1
  PROVE  /\ Places(v, base) \in 1 .. WORD
         /\ IsPlaces(v, base, Places(v, base))
         /\ \A n \in Nat \ {0} : IsPlaces(v, base, n) => n = Places(v, base)
<1> DEFINE T == {n \in Nat \ {0} : Power(base, n) > v}
           P == Places(v, base)
<1>1. WORD \in Nat \ {0} /\ v \in Nat /\ v < WORD
  BY FormatAssumption
<1>2. WORD \in T
  <2>1. Power(base, WORD) \in Nat /\ Power(base, WORD) > WORD
    BY <1>1, PowerGrows
  <2> QED
    BY <1>1, <2>1
<1>3. PICK n \in T : \A m \in T : n <= m
  BY <1>2, LeastNat, T \subseteq Nat, Zenon
<1>4. n \in 1 .. WORD /\ Power(base, n) > v
  BY <1>1, <1>2, <1>3
<1>5. n = 1 \/ Power(base, n - 1) <= v
  <2> SUFFICES ASSUME n # 1 PROVE Power(base, n - 1) <= v
    OBVIOUS
  <2>1. n - 1 \in Nat \ {0} /\ ~(n <= n - 1)
    BY <1>4
  <2>2. n - 1 \notin T
    <3> HIDE DEF T
    <3> QED
      BY <1>3, <2>1
  <2>3. Power(base, n - 1) \in Nat
    BY <2>1, PowerGrows
  <2> QED
    BY <1>1, <2>1, <2>2, <2>3
<1>6. \E k \in 1 .. WORD : IsPlaces(v, base, k)
  BY <1>4, <1>5 DEF IsPlaces
<1>7. P = CHOOSE k \in 1 .. WORD : IsPlaces(v, base, k)
  BY DEF Places, IsPlaces
<1> HIDE DEF P
<1>8. P \in 1 .. WORD /\ IsPlaces(v, base, P)
  <2> HIDE DEF IsPlaces
  <2> QED
    BY <1>6, <1>7, Zenon
<1>9. ASSUME NEW k \in Nat \ {0}, IsPlaces(v, base, k) PROVE k = P
  <2>1. P \in Nat \ {0}
    BY <1>1, <1>8
  <2>2. k <= P /\ P <= k
    BY <1>1, <1>8, <1>9, <2>1, OnePlaces
  <2> QED
    BY <2>1, <2>2
<1> QED
  BY <1>8, <1>9 DEF P

\* The characters that texts are made of, the NUL aside.
Char ==
  (STRING \cup {"0", "1", "2", "3", "4", "5", "6", "7", "8", "9", "a", "b", "c", "d", "e", "f"}
          \cup {"-", ".", "x", "%", " ", "(", "n", "u", "l", ")"}) \ {"NUL"}

LEMMA DigitChar ==
  ASSUME NEW k \in 1 .. 16
  PROVE  Digit[k] \in Char
<1>1. /\ Digit[1] = "0" /\ Digit[2] = "1" /\ Digit[3] = "2" /\ Digit[4] = "3"
      /\ Digit[5] = "4" /\ Digit[6] = "5" /\ Digit[7] = "6" /\ Digit[8] = "7"
      /\ Digit[9] = "8" /\ Digit[10] = "9" /\ Digit[11] = "a" /\ Digit[12] = "b"
      /\ Digit[13] = "c" /\ Digit[14] = "d" /\ Digit[15] = "e" /\ Digit[16] = "f"
  BY DEF Digit
<1>2. \/ k = 1 \/ k = 2 \/ k = 3 \/ k = 4 \/ k = 5 \/ k = 6 \/ k = 7 \/ k = 8
      \/ k = 9 \/ k = 10 \/ k = 11 \/ k = 12 \/ k = 13 \/ k = 14 \/ k = 15 \/ k = 16
  OBVIOUS
<1>3. /\ "0" \in Char /\ "1" \in Char /\ "2" \in Char /\ "3" \in Char
      /\ "4" \in Char /\ "5" \in Char /\ "6" \in Char /\ "7" \in Char
      /\ "8" \in Char /\ "9" \in Char /\ "a" \in Char /\ "b" \in Char
      /\ "c" \in Char /\ "d" \in Char /\ "e" \in Char /\ "f" \in Char
  BY DEF Char
<1> QED
  BY <1>1, <1>2, <1>3

LEMMA NumeralOf ==
  ASSUME NEW base \in 2 .. 16, NEW v \in 0 .. WORD - 1
  PROVE  LET n == Places(v, base) IN
         /\ n \in Nat \ {0}
         /\ Numeral(v, base) \in Seq(Char) /\ Len(Numeral(v, base)) = n
         /\ \A i \in 1 .. n : /\ Power(base, n - i) \in Nat \ {0}
                              /\ Numeral(v, base)[i] =
                                   Digit[((v \div Power(base, n - i)) % base) + 1]
<1> DEFINE n == Places(v, base)
<1> DEFINE D(i) == Digit[((v \div Power(base, n - i)) % base) + 1]
<1>1. n \in Nat \ {0} /\ WORD \in Nat \ {0} /\ v \in Nat
  BY PlacesAre, FormatAssumption
<1>2. Numeral(v, base) = [i \in 1 .. n |-> D(i)]
  BY DEF Numeral
<1> HIDE DEF n
<1>3. ASSUME NEW i \in 1 .. n PROVE Power(base, n - i) \in Nat \ {0} /\ D(i) \in Char
  <2>1. n - i \in Nat
    BY <1>1
  <2>2. Power(base, n - i) \in Nat \ {0}
    BY <2>1, PowerGrows
  <2> DEFINE q == v \div Power(base, n - i)
  <2>3. q \in Nat
    BY <1>1, <2>2, Division
  <2> HIDE DEF q
  <2>4. q % base \in 0 .. base - 1
    <3>1. base \in Nat \ {0}
      OBVIOUS
    <3> QED
      BY <2>3, <3>1, Division
  <2>5. (q % base) + 1 \in 1 .. 16
    BY <2>4
  <2>6. Digit[(q % base) + 1] \in Char
    BY <2>5, DigitChar
  <2> QED
    BY <2>2, <2>6 DEF q
<1> HIDE DEF D
<1>4. Numeral(v, base) \in Seq(Char) /\ Len(Numeral(v, base)) = n
  BY <1>1, <1>2, <1>3
<1>5. \A i \in 1 .. n : Numeral(v, base)[i] = D(i)
  BY <1>2
<1> QED
  BY <1>1, <1>3, <1>4, <1>5 DEF D, n

\* Every integer is shorter than the array for it.
LEMMA NumeralFits ==
  ASSUME NEW base \in {10, 16}, NEW v \in 0 .. WORD - 1
  PROVE  Len(Numeral(v, base)) \in 1 .. TMP - 2
<1> DEFINE n == Places(v, base)
           m == TMP - 2
<1>1. /\ base \in 2 .. 16 /\ base \in Nat /\ base > 1
      /\ WORD \in Nat \ {0} /\ m \in Nat \ {0} /\ WORD <= Power(base, m)
      /\ v \in Nat /\ v < WORD
  BY FormatAssumption
<1>2. n \in Nat \ {0} /\ Len(Numeral(v, base)) = n /\ IsPlaces(v, base, n)
  BY <1>1, PlacesAre, NumeralOf
<1> HIDE DEF n, m
<1>3. n <= m
  <2> SUFFICES ASSUME ~(n <= m) PROVE FALSE
    OBVIOUS
  <2>1. n # 1 /\ n - 1 \in Nat /\ m <= n - 1
    BY <1>1, <1>2
  <2>2. Power(base, n - 1) <= v
    BY <1>2, <2>1 DEF IsPlaces
  <2>3. Power(base, m) <= Power(base, n - 1)
    BY <1>1, <2>1, PowerOrder
  <2>4. Power(base, m) \in Nat /\ Power(base, n - 1) \in Nat
    BY <1>1, <2>1, PowerGrows
  <2> QED
    BY <1>1, <2>2, <2>3, <2>4
<1> QED
  BY <1>1, <1>2, <1>3 DEF m

LEMMA NumeralOne ==
  ASSUME NEW base \in 2 .. 16, NEW v \in 0 .. WORD - 1, v < base
  PROVE  Numeral(v, base) = <<Digit[v + 1]>> /\ v % base = v
<1>1. v \in Nat /\ base \in Nat /\ base > 1
  BY FormatAssumption
<1>2. Power(base, 0) = 1 /\ Power(base, 1) = base
  <2>1. Power(base, 0) = 1 /\ Power(base, 0 + 1) = base * Power(base, 0)
    BY PowerSteps
  <2> QED
    BY <1>1, <2>1
<1>3. IsPlaces(v, base, 1)
  BY <1>2 DEF IsPlaces
<1>4. Places(v, base) = 1
  BY <1>1, <1>3, PlacesAre
<1>5. v \div 1 = v /\ v % base = v
  <2>1. v = 1 * v + 0 /\ 0 \in 0 .. 1 - 1 /\ 1 \in Nat \ {0} /\ v \in Int
    BY <1>1
  <2>2. v \div 1 = v
    BY <1>1, <2>1, QuotientIs
  <2>3. v = base * 0 + v /\ v \in 0 .. base - 1 /\ base \in Nat \ {0}
    BY <1>1
  <2>4. v % base = v
    BY <1>1, <2>3, QuotientIs
  <2> QED
    BY <2>2, <2>4
<1> DEFINE N == Numeral(v, base)
<1>6. N \in Seq(Char) /\ Len(N) = 1 /\ N[1] = Digit[((v \div Power(base, 0)) % base) + 1]
  <2> DEFINE n == Places(v, base)
  <2>0. base \in 2 .. 16 /\ v \in 0 .. WORD - 1
    OBVIOUS
  <2>1. /\ N \in Seq(Char) /\ Len(N) = n
        /\ \A i \in 1 .. n : N[i] = Digit[((v \div Power(base, n - i)) % base) + 1]
    BY ONLY <2>0, NumeralOf
  <2>2. n = 1
    BY <1>4
  <2> HIDE DEF n, N
  <2>3. 1 \in 1 .. n /\ n - 1 = 0
    BY <2>2
  <2>4. N[1] = Digit[((v \div Power(base, n - 1)) % base) + 1]
    BY <2>1, <2>3
  <2> QED
    BY <2>1, <2>2, <2>3, <2>4
<1>7. N[1] = Digit[v + 1]
  BY <1>2, <1>5, <1>6
<1> HIDE DEF N
<1> QED
  BY <1>5, <1>6, <1>7 DEF N

LEMMA NumeralMore ==
  ASSUME NEW base \in 2 .. 16, NEW v \in 0 .. WORD - 1, base <= v
  PROVE  /\ v \div base \in 1 .. v - 1
         /\ Numeral(v, base) = Append(Numeral(v \div base, base), Digit[(v % base) + 1])
<1> DEFINE q == v \div base
           r == v % base
           n == Places(q, base)
<1>1. v \in Nat /\ WORD \in Nat /\ v < WORD /\ base \in Nat \ {0} /\ base > 1
  BY FormatAssumption
<1>2. q \in Nat /\ r \in 0 .. base - 1 /\ v = base * q + r
  BY <1>1, Division
<1> HIDE DEF q, r
<1>3. q >= 1 /\ q < v /\ q \in 0 .. WORD - 1
  <2>1. q # 0
    BY <1>1, <1>2
  <2>2. base * q >= 2 * q
    BY <1>1, <1>2
  <2> DEFINE z == base * q
  <2>3. z \in Nat /\ z >= 2 * q /\ v = z + r
    BY <1>1, <1>2, <2>2
  <2> HIDE DEF z
  <2>4. q \in Nat /\ r \in Nat /\ q >= 1 /\ v \in Nat
    BY <1>1, <1>2, <2>1
  <2>5. v >= 2 * q
    BY ONLY <2>3, <2>4
  <2>6. q < v
    BY ONLY <2>4, <2>5
  <2> QED
    BY <1>1, <2>4, <2>6
<1>4. n \in Nat \ {0} /\ IsPlaces(q, base, n)
  BY <1>1, <1>3, PlacesAre, FormatAssumption
<1> HIDE DEF n
<1>5. \A k \in Nat : Power(base, k) \in Nat /\ Power(base, k + 1) = base * Power(base, k)
  BY <1>1, PowerGrows, PowerSteps
<1>6. Power(base, n + 1) > v
  <2> DEFINE p == Power(base, n)
  <2>1. p \in Nat /\ p >= q + 1 /\ Power(base, n + 1) = base * p
    BY <1>2, <1>4, <1>5 DEF IsPlaces
  <2> HIDE DEF p
  <2>2. base * p >= base * (q + 1)
    BY <1>1, <1>2, <2>1
  <2>3. base * (q + 1) = base * q + base /\ base * q \in Nat /\ base * p \in Nat
    BY <1>1, <1>2, <2>1
  <2> QED
    BY <1>1, <1>2, <2>1, <2>2, <2>3
<1>7. Power(base, n) <= v
  <2>1. PICK m \in Nat : n = m + 1
    BY <1>4
  <2> DEFINE p == Power(base, m)
  <2>2. p \in Nat /\ Power(base, n) = base * p
    BY <1>5, <2>1
  <2>3. p <= q
    <3>1. CASE m = 0
      BY <1>1, <1>3, <3>1, PowerSteps
    <3>2. CASE m # 0
      <4>1. n # 1 /\ n - 1 = m
        BY <2>1, <3>2
      <4> QED
        BY <1>4, <4>1 DEF IsPlaces
    <3> QED
      BY <3>1, <3>2
  <2> HIDE DEF p
  <2>4. base * p <= base * q /\ base * p \in Nat /\ base * q \in Nat
    BY <1>1, <1>2, <2>2, <2>3
  <2> QED
    BY <1>1, <1>2, <2>2, <2>4
<1>8. Places(v, base) = n + 1
  <2>1. n + 1 \in Nat \ {0} /\ (n + 1) - 1 = n
    BY <1>4
  <2>2. IsPlaces(v, base, n + 1)
    BY <1>6, <1>7, <2>1 DEF IsPlaces
  <2> QED
    BY <1>1, <2>1, <2>2, PlacesAre
<1> DEFINE s == Numeral(q, base)
           t == Numeral(v, base)
           c == Digit[r + 1]
<1>9. /\ s \in Seq(Char) /\ Len(s) = n
      /\ \A i \in 1 .. n : /\ Power(base, n - i) \in Nat \ {0}
                           /\ s[i] = Digit[((q \div Power(base, n - i)) % base) + 1]
  <2>1. base \in 2 .. 16 /\ q \in 0 .. WORD - 1 /\ n = Places(q, base)
    BY <1>3 DEF n
  <2> QED
    BY ONLY <2>1, NumeralOf
<1>10. /\ t \in Seq(Char) /\ Len(t) = n + 1
       /\ \A i \in 1 .. n + 1 : t[i] = Digit[((v \div Power(base, (n + 1) - i)) % base) + 1]
  <2>1. base \in 2 .. 16 /\ v \in 0 .. WORD - 1 /\ n + 1 = Places(v, base)
    BY <1>8
  <2> QED
    BY ONLY <2>1, NumeralOf
<1>11. c \in Char
  <2>1. r + 1 \in 1 .. 16
    BY <1>2
  <2> QED
    BY <2>1, DigitChar
<1> HIDE DEF s, t, c
<1>12. ASSUME NEW i \in 1 .. n PROVE t[i] = s[i]
  <2> DEFINE p == Power(base, n - i)
  <2>1. n - i \in Nat /\ (n + 1) - i = (n - i) + 1 /\ i \in 1 .. n + 1
    BY <1>4
  <2>2. p \in Nat \ {0} /\ Power(base, (n + 1) - i) = base * p
    BY <1>5, <1>9, <2>1
  <2>3. s[i] = Digit[((q \div p) % base) + 1]
    BY <1>9
  <2> HIDE DEF p
  <2>4. v \div (base * p) = q \div p
    <3>1. v \div (base * p) = (v \div base) \div p
      <4>1. v \in Nat /\ base \in Nat \ {0} /\ p \in Nat \ {0}
        BY <1>1, <2>2
      <4> QED
        BY ONLY <4>1, NestedQuotients
    <3> QED
      BY <3>1 DEF q
  <2> QED
    BY <1>10, <2>1, <2>2, <2>3, <2>4
<1>13. t[n + 1] = c
  <2>1. (n + 1) - (n + 1) = 0 /\ n + 1 \in 1 .. n + 1
    BY <1>4
  <2>2. Power(base, 0) = 1
    BY <1>1, PowerSteps
  <2>3. v \div 1 = v
    <3>1. v = 1 * v + 0 /\ 0 \in 0 .. 1 - 1 /\ 1 \in Nat \ {0} /\ v \in Int
      BY <1>1
    <3> QED
      BY <1>1, <3>1, QuotientIs
  <2> QED
    BY <1>10, <2>1, <2>2, <2>3 DEF c, r
<1>14. t = Append(s, c)
  <2>1. /\ Append(s, c) \in Seq(Char) /\ Len(Append(s, c)) = n + 1
        /\ \A i \in 1 .. n : Append(s, c)[i] = s[i]
        /\ Append(s, c)[n + 1] = c
    BY <1>9, <1>11, AppendProperties
  <2>2. \A i \in 1 .. n + 1 : t[i] = Append(s, c)[i]
    BY <1>4, <1>12, <1>13, <2>1
  <2> QED
    BY <1>10, <2>1, <2>2, SeqEqual
<1> QED
  BY <1>1, <1>2, <1>3, <1>14 DEF q, r, s, t, c

\* The digits as util.c finds them, by a table of them.
DigitTable(base, f) ==
  f = [v \in 0 .. WORD - 1 |->
         IF v = 0 THEN <<>> ELSE Append(f[v \div base], Digit[(v % base) + 1])]

LEMMA OneTable ==
  ASSUME NEW base \in 2 .. 16, NEW f, NEW g, DigitTable(base, f), DigitTable(base, g), NEW v \in 0 .. WORD - 1
  PROVE  f[v] = g[v]
<1> DEFINE T == {u \in 0 .. WORD - 1 : f[u] # g[u]}
<1>1. SUFFICES ASSUME T # {} PROVE FALSE
  OBVIOUS
<1>2. WORD \in Nat \ {0} /\ base \in Nat \ {0}
  BY FormatAssumption
<1>3. PICK u \in T : \A w \in T : u <= w
  BY <1>1, <1>2, LeastNat, T \subseteq Nat, Zenon
<1>4. u \in 0 .. WORD - 1 /\ f[u] # g[u]
  BY <1>3
<1> DEFINE q == u \div base
           c == Digit[(u % base) + 1]
<1>5. /\ f[u] = IF u = 0 THEN <<>> ELSE Append(f[q], c)
      /\ g[u] = IF u = 0 THEN <<>> ELSE Append(g[q], c)
  BY <1>4 DEF DigitTable
<1>6. u # 0 /\ f[q] # g[q]
  BY <1>4, <1>5
<1>7. q \in 0 .. u - 1
  <2>1. u \in Nat /\ WORD \in Nat
    BY <1>2, <1>4
  <2>2. q \in Nat /\ u % base \in 0 .. base - 1 /\ u = base * q + (u % base)
    BY <1>2, <2>1, Division
  <2> DEFINE r == u % base
             z == base * q
  <2> HIDE DEF q, r
  <2>3. z \in Nat /\ z >= 2 * q
    BY <1>2, <2>2
  <2>4. u = z + r /\ r \in Nat /\ q \in Nat /\ u # 0 /\ u \in Nat
    BY <1>6, <2>1, <2>2 DEF r
  <2> HIDE DEF z
  <2>5. u >= 2 * q
    BY ONLY <2>3, <2>4
  <2> QED
    BY ONLY <2>4, <2>5
<1> HIDE DEF q
<1>8. q \in 0 .. WORD - 1 /\ ~(u <= q)
  BY <1>2, <1>4, <1>7
<1>9. q \in T
  BY <1>6, <1>8
<1> HIDE DEF T
<1> QED
  BY <1>3, <1>8, <1>9

LEMMA NumeralTable ==
  ASSUME NEW base \in 2 .. 16
  PROVE  DigitTable(base, [v \in 0 .. WORD - 1 |-> IF v = 0 THEN <<>> ELSE Numeral(v, base)])
<1> DEFINE g == [v \in 0 .. WORD - 1 |-> IF v = 0 THEN <<>> ELSE Numeral(v, base)]
<1>1. ASSUME NEW v \in 0 .. WORD - 1, v # 0
      PROVE  g[v] = Append(g[v \div base], Digit[(v % base) + 1])
  <2>0. WORD \in Nat \ {0} /\ base \in Nat \ {0} /\ v \in Nat
    BY FormatAssumption
  <2>1. g[v] = Numeral(v, base)
    BY <1>1
  <2>2. CASE v < base
    <3>1. v = base * 0 + v /\ v \in 0 .. base - 1
      BY <2>0, <2>2
    <3>2. v \div base = 0
      BY <2>0, <3>1, QuotientIs
    <3>3. g[0] = <<>>
      BY <2>0
    <3>4. Numeral(v, base) = <<Digit[v + 1]>> /\ v % base = v
      BY <2>2, NumeralOne
    <3>5. Append(<<>>, Digit[v + 1]) = <<Digit[v + 1]>>
      OBVIOUS
    <3> QED
      BY <2>1, <3>2, <3>3, <3>4, <3>5
  <2>3. CASE base <= v
    <3>1. /\ v \div base \in 1 .. v - 1
          /\ Numeral(v, base) = Append(Numeral(v \div base, base), Digit[(v % base) + 1])
      BY <2>3, NumeralMore
    <3> DEFINE q == v \div base
    <3>2. q \in 1 .. v - 1
      BY <3>1
    <3> HIDE DEF q
    <3>3. q \in 0 .. WORD - 1 /\ q # 0
      BY <2>0, <3>2
    <3>4. g[q] = Numeral(q, base)
      BY <3>3
    <3> DEFINE c == Digit[(v % base) + 1]
    <3> HIDE DEF g
    <3>5. g[v \div base] = Numeral(v \div base, base)
      BY <3>4 DEF q
    <3>6. Numeral(v, base) = Append(Numeral(v \div base, base), c)
      BY <3>1
    <3> HIDE DEF c
    <3>7. g[v] = Append(g[v \div base], c)
      BY ONLY <2>1, <3>5, <3>6
    <3> QED
      BY <3>7 DEF c
  <2>4. v < base \/ base <= v
    BY <2>0
  <2> QED
    BY <2>2, <2>3, <2>4, Zenon
<1>2. \A v \in 0 .. WORD - 1 :
        g[v] = IF v = 0 THEN <<>> ELSE Append(g[v \div base], Digit[(v % base) + 1])
  <2>1. \A v \in 0 .. WORD - 1 : v = 0 => g[v] = <<>>
    OBVIOUS
  <2> HIDE DEF g
  <2> QED
    BY <1>1, <2>1
<1>3. g = [v \in 0 .. WORD - 1 |->
             IF v = 0 THEN <<>> ELSE Append(g[v \div base], Digit[(v % base) + 1])]
  <2> DEFINE h == [v \in 0 .. WORD - 1 |->
                     IF v = 0 THEN <<>> ELSE Append(g[v \div base], Digit[(v % base) + 1])]
  <2>1. \A v \in 0 .. WORD - 1 : g[v] = h[v]
    BY <1>2
  <2> QED
    BY <2>1
<1> QED
  BY <1>3 DEF DigitTable

LEMMA DigitsAre ==
  ASSUME NEW base \in 2 .. 16, NEW v \in 0 .. WORD - 1, v # 0
  PROVE  DigitsOf(v, base) = Numeral(v, base)
<1> DEFINE g == [u \in 0 .. WORD - 1 |-> IF u = 0 THEN <<>> ELSE Numeral(u, base)]
           f == CHOOSE h : DigitTable(base, h)
<1>1. DigitTable(base, g)
  BY NumeralTable
<1>2. g[v] = Numeral(v, base)
  OBVIOUS
<1>3. DigitsOf(v, base) = f[v]
  BY DEF DigitsOf, DigitTable
<1> HIDE DEF g
<1>4. DigitTable(base, f)
  <2> HIDE DEF DigitTable
  <2> QED
    BY <1>1
<1> HIDE DEF f
<1>5. f[v] = g[v]
  BY <1>1, <1>4, OneTable
<1> QED
  BY <1>2, <1>3, <1>5

LEMMA utoaIs ==
  ASSUME NEW base \in 2 .. 16, NEW v \in 0 .. WORD - 1
  PROVE  /\ utoa(v, base) = Numeral(v, base)
         /\ Numeral(v, base) \in Seq(Char) /\ Len(Numeral(v, base)) \in Nat
<1>1. CASE v = 0
  <2>1. Numeral(v, base) = <<Digit[v + 1]>>
    BY <1>1, NumeralOne
  <2>2. Digit[v + 1] = "0"
    BY <1>1 DEF Digit
  <2> QED
    BY <1>1, <2>1, <2>2, NumeralOf DEF utoa
<1>2. CASE v # 0
  <2>1. utoa(v, base) = DigitsOf(v, base)
    BY <1>2 DEF utoa
  <2> QED
    BY <1>2, <2>1, DigitsAre, NumeralOf
<1> QED
  BY <1>1, <1>2

LEMMA itoaIs ==
  ASSUME NEW v \in 0 .. WORD - 1
  PROVE  itoa(v, 10) = Numeral(v, 10)
<1>0. v \in Int /\ 10 \in 2 .. 16
  BY FormatAssumption
<1>1. CASE v = 0
  <2>1. Numeral(v, 10) = <<Digit[v + 1]>>
    BY <1>0, <1>1, NumeralOne
  <2>2. Digit[v + 1] = "0"
    BY <1>1 DEF Digit
  <2> QED
    BY <1>1, <2>1, <2>2 DEF itoa
<1>2. CASE v # 0
  <2>1. v > 0 /\ ~(v < 0)
    BY <1>0, <1>2
  <2>2. itoa(v, 10) = DigitsOf(v, 10)
    BY <1>2, <2>1 DEF itoa
  <2> QED
    BY <1>0, <1>2, <2>2, DigitsAre
<1> QED
  BY <1>1, <1>2

------------------------------------------------------------------------------
(***************************************************************************)
(* Format: decimals.                                                       *)
(***************************************************************************)
\* One more decimal, as ftoa finds it and as the numeral has it.
LEMMA Decimal10 ==
  ASSUME NEW z \in Nat
  PROVE  /\ (z * 10) % 8 = ((z % 8) * 10) % 8
         /\ ((z * 10) \div 8) % 10 = ((z % 8) * 10) \div 8
         /\ ((z % 8) * 10) \div 8 \in 0 .. 9
<1> DEFINE q == z \div 8
           r == z % 8
           s == (r * 10) \div 8
           t == (r * 10) % 8
<1>1. q \in Nat /\ r \in 0 .. 7 /\ z = 8 * q + r
  BY Division
<1> HIDE DEF q, r
<1>2. s \in Nat /\ t \in 0 .. 7 /\ r * 10 = 8 * s + t
  BY <1>1, Division
<1> HIDE DEF s, t
<1>3. s \in 0 .. 9
  BY <1>1, <1>2
<1>4. (z * 10) \div 8 = 10 * q + s /\ (z * 10) % 8 = t
  <2>1. z * 10 = 8 * (10 * q + s) + t /\ z * 10 \in Nat /\ 10 * q + s \in Int /\ 8 \in Nat \ {0}
    BY <1>1, <1>2
  <2>2. t \in 0 .. 8 - 1
    BY <1>2
  <2> QED
    BY <2>1, <2>2, QuotientIs
<1>5. (10 * q + s) % 10 = s
  <2>1. 10 * q + s \in Nat /\ q \in Int /\ s \in 0 .. 10 - 1 /\ 10 \in Nat \ {0}
    BY <1>1, <1>3
  <2> QED
    BY <2>1, QuotientIs
<1> QED
  BY <1>3, <1>4, <1>5 DEF s, t, r

FracTable(a, n, f) ==
  f = [k \in 0 .. n |-> IF k = 0 THEN a % 8 ELSE (f[k - 1] * 10) % 8]

LEMMA PowerOfTen ==
  ASSUME NEW k \in Nat
  PROVE  Power(10, k) \in Nat /\ Power(10, k + 1) = 10 * Power(10, k)
BY PowerGrows, PowerSteps

LEMMA FracStep ==
  ASSUME NEW y \in Nat, NEW k \in Nat
  PROVE  LET z == y * Power(10, k) IN z \in Nat /\ y * Power(10, k + 1) = z * 10
<1> DEFINE p == Power(10, k)
<1>1. p \in Nat /\ Power(10, k + 1) = 10 * p
  BY PowerOfTen
<1> HIDE DEF p
<1>2. y * p \in Nat /\ y * (10 * p) = (y * p) * 10
  BY <1>1
<1> QED
  BY <1>1, <1>2 DEF p

LEMMA FracTableExists ==
  ASSUME NEW a \in Nat, NEW n \in Nat
  PROVE  FracTable(a, n, [k \in 0 .. n |-> ((a % 8) * Power(10, k)) % 8])
<1> DEFINE y == a % 8
           g == [k \in 0 .. n |-> (y * Power(10, k)) % 8]
<1>1. y \in 0 .. 7
  BY Division
<1> HIDE DEF y
<1>2. y % 8 = y
  <2>1. y = 8 * 0 + y /\ y \in 0 .. 8 - 1 /\ y \in Nat /\ 8 \in Nat \ {0}
    BY <1>1
  <2> QED
    BY <2>1, QuotientIs
<1>3. g[0] = y
  <2>1. Power(10, 0) = 1
    BY PowerSteps
  <2>2. y * 1 = y
    BY <1>1
  <2>3. g[0] = (y * Power(10, 0)) % 8
    OBVIOUS
  <2> HIDE DEF g
  <2> QED
    BY <1>2, <2>1, <2>2, <2>3
<1>4. ASSUME NEW k \in 1 .. n PROVE g[k] = (g[k - 1] * 10) % 8
  <2> DEFINE z == y * Power(10, k - 1)
  <2>1. k - 1 \in Nat /\ (k - 1) + 1 = k /\ y \in Nat
    BY <1>1
  <2>2. z \in Nat /\ y * Power(10, k) = z * 10
    BY <2>1, FracStep
  <2>3. g[k] = (y * Power(10, k)) % 8 /\ g[k - 1] = z % 8
    BY <2>1
  <2> HIDE DEF z, g
  <2>4. (z * 10) % 8 = ((z % 8) * 10) % 8
    BY <2>2, Decimal10
  <2> QED
    BY <2>2, <2>3, <2>4
<1>5. \A k \in 0 .. n : g[k] = IF k = 0 THEN y ELSE (g[k - 1] * 10) % 8
  <2> HIDE DEF g
  <2> QED
    BY <1>3, <1>4
<1>6. g = [k \in 0 .. n |-> IF k = 0 THEN y ELSE (g[k - 1] * 10) % 8]
  <2> DEFINE h == [k \in 0 .. n |-> IF k = 0 THEN y ELSE (g[k - 1] * 10) % 8]
  <2>1. \A k \in 0 .. n : g[k] = h[k]
    BY <1>5
  <2> QED
    BY <2>1
<1> QED
  BY <1>6 DEF FracTable, y

LEMMA OneFracTable ==
  ASSUME NEW a \in Nat, NEW n \in Nat, NEW f, NEW g, FracTable(a, n, f), FracTable(a, n, g),
         NEW m \in 0 .. n
  PROVE  f[m] = g[m]
<1> DEFINE S == {k \in 0 .. m : f[k] = g[k]}
<1>1. /\ \A k \in 0 .. n : f[k] = IF k = 0 THEN a % 8 ELSE (f[k - 1] * 10) % 8
      /\ \A k \in 0 .. n : g[k] = IF k = 0 THEN a % 8 ELSE (g[k - 1] * 10) % 8
  BY DEF FracTable
<1>2. 0 \in S
  BY <1>1
<1>3. ASSUME NEW j \in 1 .. m, j - 1 \in S PROVE j \in S
  <2>1. f[j] = (f[j - 1] * 10) % 8 /\ g[j] = (g[j - 1] * 10) % 8
    BY <1>1
  <2> QED
    BY <1>3, <2>1
<1> HIDE DEF S
<1>4. m \in S
  BY <1>2, <1>3, Segment
<1> QED
  BY <1>4 DEF S

\* The decimals of CDigits.
Decimals(a, n) ==
  [k \in 1 .. n |-> Digit[((((a % 8) * Power(10, k)) \div 8) % 10) + 1]]

LEMMA FracDigits ==
  ASSUME NEW a \in Nat, NEW n \in Nat, NEW f, FracTable(a, n, f)
  PROVE  /\ [k \in 1 .. n |-> Digit[(f[k - 1] * 10) \div 8 + 1]] = Decimals(a, n)
         /\ Decimals(a, n) \in Seq(Char) /\ Len(Decimals(a, n)) = n
<1> DEFINE g == [k \in 0 .. n |-> ((a % 8) * Power(10, k)) % 8]
           y == a % 8
<1>1. FracTable(a, n, g)
  BY FracTableExists
<1>2. y \in Nat
  BY Division
<1> HIDE DEF y
<1>3. ASSUME NEW k \in 1 .. n
      PROVE  LET z == ((y * Power(10, k)) \div 8) % 10 IN
             (f[k - 1] * 10) \div 8 = z /\ z \in 0 .. 9
  <2> DEFINE z == y * Power(10, k - 1)
  <2>1. k - 1 \in Nat /\ (k - 1) + 1 = k /\ k - 1 \in 0 .. n
    OBVIOUS
  <2>2. z \in Nat /\ y * Power(10, k) = z * 10
    BY <1>2, <2>1, FracStep
  <2>3. f[k - 1] = g[k - 1]
    <3> HIDE DEF g
    <3> QED
      BY <1>1, <2>1, OneFracTable
  <2>4. g[k - 1] = z % 8
    BY <2>1 DEF y
  <2> HIDE DEF z, g
  <2>5. ((z * 10) \div 8) % 10 = ((z % 8) * 10) \div 8 /\ ((z % 8) * 10) \div 8 \in 0 .. 9
    BY <2>2, Decimal10
  <2> QED
    BY <2>2, <2>3, <2>4, <2>5
<1>4. ASSUME NEW k \in 1 .. n
      PROVE  LET c == Digit[(((y * Power(10, k)) \div 8) % 10) + 1] IN
             Digit[(f[k - 1] * 10) \div 8 + 1] = c /\ c \in Char
  <2> DEFINE z == ((y * Power(10, k)) \div 8) % 10
             w == (f[k - 1] * 10) \div 8
  <2>1. w = z /\ z \in 0 .. 9
    BY <1>3
  <2> HIDE DEF z, w
  <2>2. z + 1 \in 1 .. 16
    BY <2>1
  <2>3. Digit[z + 1] \in Char /\ Digit[w + 1] = Digit[z + 1]
    BY <2>1, <2>2, DigitChar
  <2> QED
    BY <2>3 DEF z, w
<1> QED
  BY <1>4 DEF Decimals, y

------------------------------------------------------------------------------
(***************************************************************************)
(* Format: what a directive converts to.                                   *)
(***************************************************************************)
AnyChar == Char \cup {"NUL"}

Sign(v) == IF v < 0 THEN <<"-">> ELSE <<>>

LEMMA CharsAre ==
  /\ {"0", "x", ".", "%", " ", "-"} \subseteq Char
  /\ \A c \in Char : <<c>> \in Seq(Char) /\ Len(<<c>>) = 1
  /\ <<>> \in Seq(Char)
  /\ <<"0", "x">> \in Seq(Char)
  /\ \A v \in Int : Sign(v) \in Seq(Char)
<1>1. {"0", "x", ".", "%", " ", "-"} \subseteq Char
  BY DEF Char
<1>2. \A c \in Char : <<c>> \in Seq(Char) /\ Len(<<c>>) = 1
  OBVIOUS
<1>3. <<>> \in Seq(Char)
  OBVIOUS
<1>4. <<"0", "x">> \in Seq(Char)
  <2>1. "0" \in Char /\ "x" \in Char
    BY <1>1
  <2>2. \A a, b \in Char : <<a, b>> \in Seq(Char)
    OBVIOUS
  <2> QED
    BY ONLY <2>1, <2>2
<1>5. \A v \in Int : Sign(v) \in Seq(Char)
  BY <1>1, <1>2, <1>3 DEF Sign
<1> QED
  BY <1>1, <1>2, <1>3, <1>4, <1>5

LEMMA Assoc ==
  ASSUME NEW S
  PROVE  \A s, t, u \in Seq(S) : (s \o t) \o u = s \o (t \o u)
BY ConcatAssociative

LEMMA RepeatIs ==
  ASSUME NEW c \in Char, NEW n \in Int
  PROVE  /\ Repeat(c, n) \in Seq(Char)
         /\ n <= 0 => Repeat(c, n) = <<>>
         /\ Len(Repeat(c, n)) = IF n > 0 THEN n ELSE 0
<1>1. CASE n <= 0
  <2>1. 1 .. n = {}
    BY <1>1
  <2>2. Repeat(c, n) = <<>>
    BY <2>1 DEF Repeat
  <2> QED
    BY <1>1, <2>2
<1>2. CASE n > 0
  <2>1. n \in Nat
    BY <1>2
  <2>2. Repeat(c, n) \in [1 .. n -> Char]
    BY DEF Repeat
  <2>3. Len(Repeat(c, n)) = n
    BY <2>1 DEF Repeat
  <2> QED
    BY <1>2, <2>1, <2>2, <2>3, SeqDef
<1> QED
  BY <1>1, <1>2

LEMMA PreciseIs ==
  ASSUME NEW t \in Seq(Char), NEW precision \in Int
  PROVE  LET b == Repeat("0", precision - Len(t)) \o t IN
         /\ b \in Seq(Char)
         /\ Len(b) = IF precision > Len(t) THEN precision ELSE Len(t)
         /\ Precise(t, 0, precision) = b
         /\ Precise(<<"-">> \o t, 1, precision) = <<"-">> \o b
<1> DEFINE m == <<"-">>
           z == Repeat("0", precision - Len(t))
           u == m \o t
<1>1. m \in Seq(Char) /\ Len(m) = 1 /\ "0" \in Char /\ Len(t) \in Nat
  <2>1. "-" \in Char /\ "0" \in Char
    BY CharsAre
  <2>2. m \in Seq(Char) /\ Len(m) = 1
    BY <2>1
  <2> QED
    BY <2>1, <2>2
<1>2. z \in Seq(Char)
  BY <1>1, RepeatIs
<1>3. u \in Seq(Char) /\ Len(u) = 1 + Len(t)
  BY <1>1, ConcatProperties
<1>4. SubSeq(t, 1, 0) = <<>> /\ SubSeq(t, 1, Len(t)) = t
  BY SubSeqEmpty, SubSeqFull
<1>5. Precise(t, 0, precision) = z \o t
  <2>0. Len(t) - 0 = Len(t) /\ 0 + 1 = 1
    BY <1>1
  <2>1. Precise(t, 0, precision) = <<>> \o z \o t
    BY <1>4, <2>0 DEF Precise
  <2>2. <<>> \o z = z
    BY <1>2, ConcatEmptySeq
  <2> QED
    BY <2>1, <2>2
<1>6. SubSeq(u, 1, 1) = m
  <2>1. 1 \in 1 .. Len(m)
    BY <1>1
  <2>2. SubSeq(u, 1, 1) = SubSeq(m, 1, 1)
    BY <1>1, <2>1, SubSeqOfConcat1
  <2> QED
    BY <1>1, <2>2, SubSeqFull
<1>7. SubSeq(u, 2, Len(u)) = t
  <2>1. CASE Len(t) = 0
    <3>1. t = <<>>
      BY <2>1
    <3>2. SubSeq(u, 2, Len(u)) = <<>>
      BY <1>3, <2>1, SubSeqEmpty
    <3> QED
      BY <3>1, <3>2
  <2>2. CASE Len(t) > 0
    <3>1. 2 \in Len(m) + 1 .. Len(m) + Len(t) /\ Len(u) \in Len(m) + 1 .. Len(m) + Len(t)
      BY <1>1, <1>3, <2>2
    <3>2. SubSeq(u, 2, Len(u)) = SubSeq(t, 2 - Len(m), Len(u) - Len(m))
      BY <1>1, <3>1, SubSeqOfConcat2
    <3>3. 2 - Len(m) = 1 /\ Len(u) - Len(m) = Len(t)
      BY <1>1, <1>3
    <3> QED
      BY <1>4, <3>2, <3>3
  <2> QED
    BY <1>1, <2>1, <2>2
<1>8. Precise(u, 1, precision) = m \o (z \o t)
  <2>1. Len(u) - 1 = Len(t) /\ 1 + 1 = 2
    BY <1>1, <1>3
  <2>2. Precise(u, 1, precision) = SubSeq(u, 1, 1) \o z \o SubSeq(u, 2, Len(u))
    <3> HIDE DEF u
    <3> QED
      BY <2>1 DEF Precise
  <2> HIDE DEF u, m, z
  <2>3. Precise(u, 1, precision) = (m \o z) \o t
    BY <1>6, <1>7, <2>2
  <2>4. m \in Seq(Char) /\ z \in Seq(Char) /\ t \in Seq(Char)
    BY <1>1, <1>2
  <2>5. (m \o z) \o t = m \o (z \o t)
    BY ONLY <2>4, Assoc
  <2> QED
    BY <2>3, <2>5
<1>9. z \o t \in Seq(Char) /\ Len(z \o t) = Len(z) + Len(t)
  BY <1>2, ConcatProperties
<1>10. Len(z) = IF precision - Len(t) > 0 THEN precision - Len(t) ELSE 0
  <2> DEFINE n == precision - Len(t)
  <2>1. n \in Int
    BY <1>1
  <2> HIDE DEF n
  <2>2. Len(Repeat("0", n)) = IF n > 0 THEN n ELSE 0
    BY <1>1, <2>1, RepeatIs
  <2> QED
    BY <2>2 DEF n
<1> HIDE DEF z
<1>11. Len(z \o t) = IF precision > Len(t) THEN precision ELSE Len(t)
  BY <1>1, <1>9, <1>10
<1> QED
  BY <1>5, <1>8, <1>9, <1>11 DEF z

LEMMA ftoaIs ==
  ASSUME NEW x \in -4 * WORD + 1 .. 4 * WORD - 1, NEW n \in Nat
  PROVE  LET b == Numeral(Abs(x) \div 8, 10)
                    \o (IF n = 0 THEN <<>> ELSE <<".">> \o Decimals(Abs(x), n))
         IN  /\ b \in Seq(Char) /\ ftoa(x, n) = Sign(x) \o b
             /\ Len(b) <= TMP - 2 + 1 + n
<1> DEFINE a == Abs(x)
           w == a \div 8
           f == CHOOSE h : FracTable(a, n, h)
           N == Numeral(w, 10)
           e == IF n = 0 THEN <<>> ELSE <<".">> \o Decimals(a, n)
<1>1. x \in Int /\ a \in Nat /\ w \in 0 .. WORD - 1
  <2>1. WORD \in Nat /\ x \in Int /\ a \in 0 .. 4 * WORD - 1
    BY FormatAssumption DEF Abs
  <2>2. a \in Nat
    BY <2>1
  <2> DEFINE r == a % 8
  <2> HIDE DEF a
  <2>3. w \in Nat /\ r \in 0 .. 7 /\ a = 8 * w + r
    BY <2>2, Division
  <2> HIDE DEF w, r
  <2> QED
    BY <2>1, <2>2, <2>3
<1>2. FracTable(a, n, f)
  <2> HIDE DEF FracTable, a
  <2> QED
    BY <1>1, FracTableExists
<1>3. itoa(w, 10) = N /\ N \in Seq(Char) /\ Len(N) \in 1 .. TMP - 2
  <2> HIDE DEF w
  <2> QED
    BY <1>1, itoaIs, utoaIs, NumeralFits
<1>4. /\ [k \in 1 .. n |-> Digit[(f[k - 1] * 10) \div 8 + 1]] = Decimals(a, n)
      /\ Decimals(a, n) \in Seq(Char) /\ Len(Decimals(a, n)) = n
  <2> HIDE DEF a, f
  <2> QED
    BY <1>1, <1>2, FracDigits
<1>5. ftoa(x, n) = Sign(x) \o itoa(w, 10)
                     \o (IF n <= 0 THEN <<>>
                         ELSE <<".">> \o [k \in 1 .. n |-> Digit[(f[k - 1] * 10) \div 8 + 1]])
  BY DEF ftoa, FracTable, Sign
<1>6. e \in Seq(Char) /\ Len(e) <= 1 + n
  <2> DEFINE dot == <<".">>
  <2>1. dot \in Seq(Char) /\ Len(dot) = 1 /\ <<>> \in Seq(Char)
    <3>1. "." \in Char
      BY CharsAre
    <3> QED
      BY <3>1
  <2> HIDE DEF a
  <2>2. dot \o Decimals(a, n) \in Seq(Char) /\ Len(dot \o Decimals(a, n)) = 1 + n
    <3> HIDE DEF dot
    <3> QED
      BY <1>4, <2>1, ConcatProperties
  <2> QED
    BY <2>1, <2>2
<1>7. ftoa(x, n) = Sign(x) \o N \o e
  <2> HIDE DEF a, f, w, N
  <2>1. n <= 0 <=> n = 0
    OBVIOUS
  <2> QED
    BY <1>3, <1>4, <1>5, <2>1
<1>8. Sign(x) \in Seq(Char)
  BY <1>1, CharsAre
<1> HIDE DEF N, e
<1>9. N \o e \in Seq(Char) /\ Len(N \o e) <= TMP - 2 + 1 + n
  <2>1. N \o e \in Seq(Char) /\ Len(N \o e) = Len(N) + Len(e)
    BY <1>3, <1>6, ConcatProperties
  <2>2. TMP \in Nat /\ Len(N) \in Nat /\ Len(e) \in Nat
    BY <1>3, <1>6, FormatAssumption
  <2> QED
    BY <1>3, <1>6, <2>1, <2>2
<1>10. (Sign(x) \o N) \o e = Sign(x) \o (N \o e)
  <2>1. N \in Seq(Char)
    BY <1>3
  <2> QED
    BY ONLY <1>6, <1>8, <2>1, Assoc
<1> QED
  BY <1>7, <1>9, <1>10 DEF N, e, w, a

\* What a field may hold: a NUL only where it does not end the text.
Plain(s) == s \in Seq(AnyChar) /\ (lib = "kernel" => s \in Seq(Char))

LEMMA PlainTexts ==
  /\ \A s \in Seq(Char) : Plain(s)
  /\ \A s, t : Plain(s) /\ Plain(t) => Plain(s \o t)
<1>1. Char \subseteq AnyChar
  BY DEF AnyChar
<1>2. ASSUME NEW s \in Seq(Char) PROVE Plain(s)
  <2>1. s \in Seq(AnyChar)
    BY <1>1, SeqMonotonic, Zenon
  <2> QED
    BY <2>1 DEF Plain
<1>3. ASSUME NEW s, NEW t, Plain(s), Plain(t) PROVE Plain(s \o t)
  <2>1. s \o t \in Seq(AnyChar)
    BY <1>3, ConcatProperties DEF Plain
  <2>2. ASSUME lib = "kernel" PROVE s \o t \in Seq(Char)
    <3>1. s \in Seq(Char) /\ t \in Seq(Char)
      BY <1>3, <2>2 DEF Plain
    <3> QED
      BY <3>1, ConcatProperties
  <2> QED
    BY <2>1, <2>2 DEF Plain
<1> QED
  BY <1>2, <1>3

\* A directive's field is what it converts to, behind a sign if there is one.
Converts(d) ==
  /\ CSign(d) \in Seq(Char) /\ Plain(CBody(d))
  /\ Converted(d) = CSign(d) \o CBody(d)

\* How long a number becomes.
Lengthens(d) ==
  /\ Len(CSign(d)) \in 0 .. 1
  /\ d.conv \in Number =>
       \E k \in 1 .. TMP - 2 : Len(CBody(d)) = IF d.prec > k THEN d.prec ELSE k
  /\ d.conv = "p" => Len(CSign(d)) = 0 /\ Len(CBody(d)) <= TMP
  /\ d.conv = "f" /\ d.prec < 0 => Len(CBody(d)) <= TMP - 2 + 1 + 6

LEMMA SignLength == \A v \in Int : Len(Sign(v)) \in 0 .. 1
BY DEF Sign

LEMMA NoSign ==
  ASSUME NEW s, s \in Seq(AnyChar)
  PROVE  s = <<>> \o s
BY ConcatEmptySeq

LEMMA CharacterConverts ==
  ASSUME NEW d, IsDirective(d), ~Departs(d), d.conv = "c"
  PROVE  Converts(d)
<1> DEFINE c == d.arg
<1>1. c \in STRING /\ (lib = "kernel" => c # "NUL")
  BY DEF IsDirective, Departs
<1>2. CSign(d) = <<>> /\ CBody(d) = <<c>> /\ Converted(d) = <<c>>
  BY DEF CSign, CBody, Converted
<1> HIDE DEF c
<1>3. c \in AnyChar /\ (lib = "kernel" => c \in Char)
  BY <1>1 DEF AnyChar, Char
<1>4. Plain(<<c>>)
  BY <1>3 DEF Plain
<1>5. <<c>> = <<>> \o <<c>>
  BY <1>4, NoSign DEF Plain
<1> QED
  BY <1>2, <1>4, <1>5, CharsAre DEF Converts

LEMMA StringConverts ==
  ASSUME NEW d, IsDirective(d), ~Departs(d), d.conv = "s"
  PROVE  Converts(d)
<1> DEFINE s == d.arg
           p == d.prec
           b == IF p < 0 \/ Len(s) < p THEN s ELSE SubSeq(s, 1, p)
<1>1. s \in Seq(STRING \ {"NUL"}) /\ s # NoString /\ p \in Int
  BY DEF IsDirective, Departs
<1>2. CSign(d) = <<>> /\ CBody(d) = b
  BY DEF CSign, CBody
<1>3. Converted(d) = IF p >= 0 /\ p < Len(s) THEN SubSeq(s, 1, p) ELSE s
  BY <1>1 DEF Converted
<1> HIDE DEF s, p
<1>4. s \in Seq(Char) /\ Len(s) \in Nat
  <2>1. STRING \ {"NUL"} \subseteq Char
    BY DEF Char
  <2>2. s \in Seq(Char)
    BY <1>1, <2>1, SeqMonotonic, Zenon
  <2> QED
    BY <2>2
<1>5. Converted(d) = b
  <2>1. CASE p = Len(s)
    <3>1. b = SubSeq(s, 1, Len(s))
      BY <1>4, <2>1
    <3>2. Converted(d) = s
      BY <1>3, <1>4, <2>1
    <3> QED
      BY <1>4, <3>1, <3>2, SubSeqFull
  <2>2. CASE p # Len(s)
    BY <1>1, <1>3, <1>4, <2>2
  <2> QED
    BY <2>1, <2>2
<1>6. b \in Seq(Char)
  <2>1. CASE p < 0 \/ Len(s) < p
    BY <1>4, <2>1
  <2>2. CASE ~(p < 0 \/ Len(s) < p)
    <3>1. p \in Int /\ \A i \in 1 .. p : s[i] \in Char
      BY <1>1, <1>4, <2>2
    <3>2. SubSeq(s, 1, p) \in Seq(Char)
      BY <3>1, SubSeqProperties
    <3> QED
      BY <2>2, <3>2
  <2> QED
    BY <2>1, <2>2
<1> HIDE DEF b
<1>7. Plain(b)
  BY <1>6, PlainTexts
<1>8. b = <<>> \o b
  BY <1>7, NoSign DEF Plain
<1> QED
  BY <1>2, <1>5, <1>7, <1>8, CharsAre DEF Converts

LEMMA UnsignedConverts ==
  ASSUME NEW d, IsDirective(d), d.conv \in {"u", "x"}
  PROVE  Converts(d) /\ Lengthens(d)
<1> DEFINE v    == d.arg
           base == IF d.conv = "x" THEN 16 ELSE 10
           N    == Numeral(v, base)
           b    == Repeat("0", d.prec - Len(N)) \o N
<1>1. /\ v \in 0 .. WORD - 1 /\ d.prec \in Int /\ base \in 2 .. 16 /\ base \in {10, 16}
      /\ Abs(v) = v
  BY FormatAssumption DEF IsDirective, Abs
<1>2. CSign(d) = <<>>
  BY DEF CSign
<1>3. CBody(d) = b
  <2>1. CBody(d) = CDigits(d)
    BY DEF CBody
  <2>2. CDigits(d) = b
    BY <1>1 DEF CDigits, Number
  <2> QED
    BY <2>1, <2>2
<1>4. Converted(d) = Precise(utoa(v, base), 0, d.prec)
  BY DEF Converted
<1> HIDE DEF v, base
<1>5. utoa(v, base) = N /\ N \in Seq(Char) /\ Len(N) \in 1 .. TMP - 2
  BY <1>1, utoaIs, NumeralFits
<1> HIDE DEF N
<1>6. /\ b \in Seq(Char) /\ Precise(N, 0, d.prec) = b
      /\ Len(b) = IF d.prec > Len(N) THEN d.prec ELSE Len(N)
  BY <1>1, <1>5, PreciseIs
<1> HIDE DEF b
<1>7. Plain(b)
  BY <1>6, PlainTexts
<1>8. b = <<>> \o b
  BY <1>7, NoSign DEF Plain
<1>9. Lengthens(d)
  <2>1. Len(CSign(d)) = 0
    BY <1>2
  <2> QED
    BY <1>3, <1>5, <1>6, <2>1 DEF Lengthens
<1> QED
  BY <1>2, <1>3, <1>4, <1>5, <1>6, <1>7, <1>8, <1>9, CharsAre DEF Converts

LEMMA SignedConverts ==
  ASSUME NEW d, IsDirective(d), d.conv = "d"
  PROVE  Converts(d) /\ Lengthens(d)
<1> DEFINE v == d.arg
           a == Abs(v)
           N == Numeral(a, 10)
           b == Repeat("0", d.prec - Len(N)) \o N
<1>1. v \in Int /\ v >= -(WORD \div 2) /\ v <= WORD \div 2 - 1 /\ d.prec \in Int
  BY FormatAssumption DEF IsDirective
<1>2. CSign(d) = Sign(v)
  BY DEF CSign, Sign
<1>3. CBody(d) = b
  <2>1. CBody(d) = CDigits(d)
    BY DEF CBody
  <2>2. CDigits(d) = b
    BY DEF CDigits, Number
  <2> QED
    BY <2>1, <2>2
<1>4. Converted(d) = Precise(Decimal(v), IF v < 0 THEN 1 ELSE 0, d.prec)
  BY DEF Converted
<1> HIDE DEF v
<1>5. a \in 0 .. WORD - 1 /\ (v < 0 => (-v) % WORD = a) /\ (v >= 0 => v = a)
  <2> DEFINE h == WORD \div 2
             r == WORD % 2
  <2>1. WORD \in Nat \ {0} /\ h \in Nat /\ r \in 0 .. 1 /\ WORD = 2 * h + r
    BY FormatAssumption, Division
  <2>2. v >= -h /\ v <= h - 1
    BY <1>1
  <2> HIDE DEF h, r
  <2>3. a \in 0 .. WORD - 1 /\ (v < 0 => -v = a) /\ (v >= 0 => v = a)
    BY <1>1, <2>1, <2>2 DEF Abs
  <2> HIDE DEF a
  <2>4. a % WORD = a
    <3>1. a = WORD * 0 + a /\ a \in Nat
      BY <2>1, <2>3
    <3> QED
      BY <2>1, <2>3, <3>1, QuotientIs
  <2> QED
    BY <2>3, <2>4
<1> HIDE DEF a
<1>6. utoa(a, 10) = N /\ N \in Seq(Char) /\ Len(N) \in 1 .. TMP - 2
  BY <1>5, utoaIs, NumeralFits
<1> HIDE DEF N
<1>7. /\ b \in Seq(Char) /\ Precise(N, 0, d.prec) = b
      /\ Len(b) = IF d.prec > Len(N) THEN d.prec ELSE Len(N)
      /\ Precise(<<"-">> \o N, 1, d.prec) = <<"-">> \o b
  BY <1>1, <1>6, PreciseIs
<1> HIDE DEF b
<1>8. Plain(b)
  BY <1>7, PlainTexts
<1>9. b = <<>> \o b
  BY <1>8, NoSign DEF Plain
<1>10. Sign(v) \in Seq(Char)
  BY <1>1, CharsAre
<1>11. Converted(d) = Sign(v) \o b
  <2>1. CASE v < 0
    <3>1. Decimal(v) = <<"-">> \o N
      BY <1>5, <1>6, <2>1 DEF Decimal
    <3>2. Sign(v) = <<"-">>
      BY <2>1 DEF Sign
    <3> QED
      BY <1>4, <1>7, <2>1, <3>1, <3>2
  <2>2. CASE ~(v < 0)
    <3>1. Decimal(v) = N
      BY <1>1, <1>5, <1>6, <2>2 DEF Decimal
    <3>2. Sign(v) = <<>>
      BY <2>2 DEF Sign
    <3> QED
      BY <1>4, <1>7, <1>9, <2>2, <3>1, <3>2
  <2> QED
    BY <2>1, <2>2
<1>12. Lengthens(d)
  <2>1. Len(CSign(d)) \in 0 .. 1
    BY <1>1, <1>2, SignLength
  <2> QED
    BY <1>3, <1>6, <1>7, <2>1 DEF Lengthens
<1> QED
  BY <1>2, <1>3, <1>8, <1>10, <1>11, <1>12 DEF Converts

LEMMA PointerConverts ==
  ASSUME NEW d, IsDirective(d), d.conv = "p"
  PROVE  Converts(d) /\ Lengthens(d)
<1> DEFINE v == d.arg
           N == Numeral(v, 16)
           b == <<"0", "x">> \o N
<1>1. v \in 0 .. WORD - 1
  BY DEF IsDirective
<1>2. CSign(d) = <<>>
  BY DEF CSign
<1>3. CBody(d) = b
  <2>1. CBody(d) = CDigits(d)
    BY DEF CBody
  <2>2. CDigits(d) = b
    BY DEF CDigits, Number
  <2> QED
    BY <2>1, <2>2
<1>4. Converted(d) = <<"0", "x">> \o utoa(v, 16)
  BY DEF Converted
<1> HIDE DEF v
<1>5. utoa(v, 16) = N /\ N \in Seq(Char) /\ Len(N) \in 1 .. TMP - 2
  BY <1>1, utoaIs, NumeralFits
<1> HIDE DEF N
<1>6. b \in Seq(Char) /\ Len(b) = 2 + Len(N)
  <2> DEFINE t == <<"0", "x">>
  <2>1. t \in Seq(Char) /\ Len(t) = 2
    BY CharsAre
  <2> HIDE DEF t
  <2>2. t \o N \in Seq(Char) /\ Len(t \o N) = 2 + Len(N)
    <3>1. N \in Seq(Char)
      BY <1>5
    <3>2. t \o N \in Seq(Char) /\ Len(t \o N) = Len(t) + Len(N)
      BY ONLY <2>1, <3>1, ConcatProperties
    <3> QED
      BY <2>1, <3>2
  <2> QED
    BY <2>2 DEF t
<1>7. Converted(d) = b
  BY <1>4, <1>5
<1> HIDE DEF b
<1>8. Plain(b)
  BY <1>6, PlainTexts
<1>9. b = <<>> \o b
  BY <1>8, NoSign DEF Plain
<1>10. Lengthens(d)
  <2>1. Len(CSign(d)) = 0
    BY <1>2
  <2>2. Len(b) <= TMP
    BY <1>5, <1>6, FormatAssumption
  <2> QED
    BY <1>3, <2>1, <2>2 DEF Lengthens, Number
<1> QED
  BY <1>2, <1>3, <1>7, <1>8, <1>9, <1>10, CharsAre DEF Converts

LEMMA DoubleConverts ==
  ASSUME NEW d, IsDirective(d), d.conv = "f"
  PROVE  Converts(d) /\ Lengthens(d)
<1> DEFINE x == d.arg
           n == IF d.prec < 0 THEN 6 ELSE d.prec
           b == Numeral(Abs(x) \div 8, 10)
                  \o (IF n = 0 THEN <<>> ELSE <<".">> \o Decimals(Abs(x), n))
<1>1. x \in -4 * WORD + 1 .. 4 * WORD - 1 /\ x \in Int /\ n \in Nat
  BY FormatAssumption DEF IsDirective
<1>2. CSign(d) = Sign(x)
  BY DEF CSign, Sign
<1>3. CBody(d) = b
  <2>1. CBody(d) = CDigits(d)
    BY DEF CBody
  <2>2. CDigits(d) = b
    BY DEF CDigits, Number, Decimals
  <2> QED
    BY <2>1, <2>2
<1>4. Converted(d) = ftoa(x, n)
  <2>1. d.prec \in Int
    BY DEF IsDirective
  <2>2. (IF d.prec >= 0 THEN d.prec ELSE 6) = n
    BY <2>1
  <2>3. Converted(d) = ftoa(x, IF d.prec >= 0 THEN d.prec ELSE 6)
    BY DEF Converted
  <2> QED
    BY <2>2, <2>3
<1>5. d.prec < 0 => n = 6
  OBVIOUS
<1> HIDE DEF x, n
<1>6. b \in Seq(Char) /\ ftoa(x, n) = Sign(x) \o b /\ Len(b) <= TMP - 2 + 1 + n
  BY <1>1, ftoaIs
<1> HIDE DEF b
<1>7. Plain(b) /\ Sign(x) \in Seq(Char)
  BY <1>1, <1>6, PlainTexts, CharsAre
<1>8. Lengthens(d)
  <2>1. Len(CSign(d)) \in 0 .. 1
    BY <1>1, <1>2, SignLength
  <2> QED
    BY <1>3, <1>5, <1>6, <2>1 DEF Lengthens, Number
<1> QED
  BY <1>2, <1>3, <1>4, <1>6, <1>7, <1>8 DEF Converts

------------------------------------------------------------------------------
(***************************************************************************)
(* Format: fields.                                                         *)
(***************************************************************************)
LEMMA ConversionConverts ==
  ASSUME NEW d, IsDirective(d), d.conv \in {"c", "s", "d", "u", "x", "p", "f"},
         d.conv \in {"c", "s"} => ~Departs(d)
  PROVE  Converts(d)
BY CharacterConverts, StringConverts, UnsignedConverts, SignedConverts, PointerConverts,
   DoubleConverts

\* Padding, in any of the three places, where the two agree on the place.
LEMMA Padded ==
  ASSUME NEW d, Converts(d), d.left \in BOOLEAN, d.zero \in BOOLEAN, d.width \in Int,
         ~(d.zero /\ ~d.left /\ CSign(d) # <<>>)
  PROVE  PAD_AND_PUT(d, Converted(d)) = CField(d) /\ Plain(CField(d))
<1> DEFINE S == CSign(d)
           B == CBody(d)
           t == S \o B
           n == d.width - Len(t)
           z == Repeat("0", n)
           e == Repeat(" ", n)
<1>1. S \in Seq(Char) /\ Plain(S) /\ Plain(B) /\ Converted(d) = t
  BY PlainTexts DEF Converts
<1>2. CField(d) = CASE d.left -> S \o B \o e
                    [] ~d.left /\ d.zero -> S \o z \o B
                    [] ~d.left /\ ~d.zero -> e \o S \o B
  BY DEF CField
<1>3. PAD_AND_PUT(d, t) =
        LET pad == Repeat(IF d.zero /\ ~d.left THEN "0" ELSE " ", n) IN
        IF d.left THEN t \o pad ELSE pad \o t
  BY DEF PAD_AND_PUT, zero_pad
<1> HIDE DEF S, B
<1>4. Plain(t)
  BY <1>1, PlainTexts
<1>5. n \in Int
  BY <1>4 DEF Plain
<1> HIDE DEF n
<1>6. Plain(z) /\ Plain(e)
  <2>1. "0" \in Char /\ " " \in Char
    BY CharsAre
  <2>2. z \in Seq(Char) /\ e \in Seq(Char)
    BY <1>5, <2>1, RepeatIs
  <2> QED
    BY <2>2, PlainTexts
<1> DEFINE C == AnyChar
<1>7. S \in Seq(C) /\ B \in Seq(C) /\ z \in Seq(C) /\ e \in Seq(C)
  BY <1>1, <1>6 DEF Plain
<1> HIDE DEF C, z, e
<1>8. CASE d.left
  <2>1. CField(d) = t \o e /\ PAD_AND_PUT(d, t) = t \o e
    BY <1>2, <1>3, <1>8 DEF e
  <2> HIDE DEF t
  <2> QED
    BY <1>1, <1>4, <1>6, <2>1, PlainTexts
<1>9. CASE ~d.left /\ d.zero
  <2>1. S = <<>>
    BY <1>9 DEF S
  <2>2. CField(d) = (S \o z) \o B /\ PAD_AND_PUT(d, t) = z \o (S \o B)
    BY <1>2, <1>3, <1>9 DEF z
  <2>3. S \o z = z /\ S \o B = B
    BY <1>7, <2>1, ConcatEmptySeq
  <2> HIDE DEF t
  <2> QED
    BY <1>1, <1>6, <2>2, <2>3, PlainTexts
<1>10. CASE ~d.left /\ ~d.zero
  <2>1. CField(d) = (e \o S) \o B /\ PAD_AND_PUT(d, t) = e \o (S \o B)
    BY <1>2, <1>3, <1>10 DEF e
  <2>2. (e \o S) \o B = e \o (S \o B)
    BY ONLY <1>7, Assoc
  <2>3. Plain(e \o S)
    BY <1>1, <1>6, PlainTexts
  <2> HIDE DEF t
  <2> QED
    BY <1>1, <2>1, <2>2, <2>3, PlainTexts
<1> QED
  BY <1>8, <1>9, <1>10

\* A character is its own field.
LEMMA Unpadded ==
  ASSUME NEW d, NEW c \in Char, d.left \in BOOLEAN, d.zero \in BOOLEAN, d.width = 0,
         CSign(d) = <<>>, CBody(d) = <<c>>
  PROVE  CField(d) = <<c>> /\ Plain(CField(d))
<1> DEFINE b == <<c>>
           s == <<>>
<1>1. b \in Seq(Char) /\ s \in Seq(Char) /\ Len(b) = 1
  BY CharsAre
<1>2. /\ CSign(d) = s /\ CBody(d) = b
      /\ s \o b = b /\ b \o s = b /\ s \o s = s
  BY <1>1, ConcatEmptySeq
<1>3. Repeat(" ", -1) = s /\ Repeat("0", -1) = s
  <2>1. 1 .. -1 = {}
    OBVIOUS
  <2> QED
    BY <2>1 DEF Repeat
<1> HIDE DEF b, s
<1>4. d.width - Len(CSign(d) \o CBody(d)) = -1
  BY <1>1, <1>2
<1>5. CField(d) = CASE d.left -> s \o b \o s
                    [] ~d.left /\ d.zero -> s \o s \o b
                    [] ~d.left /\ ~d.zero -> s \o s \o b
  BY <1>2, <1>3, <1>4 DEF CField
<1>6. CField(d) = b
  BY <1>2, <1>5
<1> QED
  BY <1>1, <1>6, PlainTexts DEF b

IsItem(d) == IsDirective(d) \/ \E c \in Chars : d = Literal(c)

LEMMA FieldIs ==
  ASSUME NEW d, IsItem(d), ~Departs(d), d.conv # "end"
  PROVE  vsnprintf(d) = CField(d) /\ Plain(CField(d))
<1>1. CASE IsDirective(d)
  <2>1. d.left \in BOOLEAN /\ d.zero \in BOOLEAN /\ d.width \in Int
    BY <1>1 DEF IsDirective
  <2>2. CASE d.conv \in {"c", "s", "d", "u", "x", "p", "f"}
    <3>1. Converts(d)
      BY <1>1, <2>2, ConversionConverts
    <3>2. ~(d.zero /\ ~d.left /\ CSign(d) # <<>>)
      BY DEF Departs, zero_pad
    <3>3. vsnprintf(d) = PAD_AND_PUT(d, Converted(d))
      BY <2>2 DEF vsnprintf
    <3> QED
      BY <2>1, <3>1, <3>2, <3>3, Padded
  <2>3. CASE d.conv = "%"
    <3>1. d.width = 0
      BY <2>1, <2>3 DEF Departs
    <3>2. CSign(d) = <<>> /\ CBody(d) = <<"%">> /\ vsnprintf(d) = <<"%">>
      BY <2>3 DEF CSign, CBody, vsnprintf
    <3>3. "%" \in Char
      BY CharsAre
    <3> QED
      BY <2>1, <3>1, <3>2, <3>3, Unpadded
  <2>4. d.conv # "l"
    BY DEF Departs
  <2> QED
    BY <1>1, <2>2, <2>3, <2>4 DEF IsDirective
<1>2. ASSUME NEW c \in Chars, d = Literal(c) PROVE vsnprintf(d) = CField(d) /\ Plain(CField(d))
  <2>1. d.left = FALSE /\ d.zero = FALSE /\ d.width = 0 /\ d.conv = "char" /\ d.arg = c
    BY <1>2 DEF Literal
  <2>2. CSign(d) = <<>> /\ CBody(d) = <<c>> /\ vsnprintf(d) = <<c>>
    BY <2>1 DEF CSign, CBody, vsnprintf
  <2>3. c \in Char
    BY FormatAssumption DEF Char
  <2> QED
    BY <2>1, <2>2, <2>3, Unpadded
<1> QED
  BY <1>1, <1>2 DEF IsItem

\* A conversion only leaves its array where the specification says so.
LEMMA OnlyLongOnesStray ==
  ASSUME NEW d, IsItem(d), ~Fits(d)
  PROVE  Strays(d)
<1> DEFINE L == Len(CSign(d))
           B == Len(CBody(d))
<1>1. d.conv \in Number \cup {"p", "f"} /\ ~(Len(Converted(d)) < Temporary(d))
  BY DEF Fits
<1>2. IsDirective(d)
  BY <1>1 DEF IsItem, Literal, Number
<1>3. Converts(d) /\ Lengthens(d) /\ d.prec \in Int
  BY <1>1, <1>2, UnsignedConverts, SignedConverts, PointerConverts, DoubleConverts
     DEF Number, IsDirective
<1>4. L \in Nat /\ B \in Nat /\ Len(Converted(d)) = L + B /\ Len(CSign(d) \o CBody(d)) = L + B
  <2> DEFINE c == CSign(d)
             b == CBody(d)
  <2>1. c \in Seq(AnyChar) /\ b \in Seq(AnyChar) /\ Converted(d) = c \o b
    BY <1>3, PlainTexts DEF Converts, Plain
  <2> HIDE DEF c, b
  <2>2. Len(c \o b) = Len(c) + Len(b) /\ Len(c) \in Nat /\ Len(b) \in Nat
    BY <2>1, ConcatProperties
  <2> QED
    BY <2>1, <2>2 DEF c, b
<1>5. /\ L \in 0 .. 1
      /\ d.conv \in Number => \E k \in 1 .. TMP - 2 : B = IF d.prec > k THEN d.prec ELSE k
      /\ d.conv = "p" => L = 0 /\ B <= TMP
      /\ d.conv = "f" /\ d.prec < 0 => B <= TMP - 2 + 1 + 6
  BY <1>3 DEF Lengthens
<1>6. /\ d.conv \in Number => ~(L + B < TMP)
      /\ d.conv = "p" => ~(L + B < TMP + 2)
      /\ d.conv = "f" => ~(L + B < TMP_F)
  BY <1>1, <1>4 DEF Temporary, Number
<1>7. \/ d.conv \in Number /\ d.prec + L >= TMP
      \/ d.conv = "f" /\ d.prec >= 0 /\ L + B >= TMP_F
  <2> HIDE DEF L, B
  <2>0. TMP \in Nat /\ TMP_F \in Nat /\ TMP_F > TMP + 6
    BY FormatAssumption
  <2>1. CASE d.conv \in Number
    BY <1>3, <1>4, <1>5, <1>6, <2>0, <2>1
  <2>2. CASE d.conv = "p"
    BY <1>4, <1>5, <1>6, <2>0, <2>2
  <2>3. CASE d.conv = "f"
    BY <1>3, <1>4, <1>5, <1>6, <2>0, <2>3
  <2> QED
    BY <1>1, <2>1, <2>2, <2>3
<1> QED
  BY <1>4, <1>7 DEF Strays

LEMMA PaddedText ==
  ASSUME NEW d, NEW t \in Seq(AnyChar), d.width \in Int
  PROVE  PAD_AND_PUT(d, t) \in Seq(AnyChar)
<1> DEFINE n == d.width - Len(t)
           e == Repeat(IF zero_pad(d) THEN "0" ELSE " ", n)
<1>1. n \in Int
  OBVIOUS
<1>2. e \in Seq(AnyChar)
  <2>1. "0" \in Char /\ " " \in Char
    BY CharsAre
  <2> HIDE DEF n
  <2>2. Repeat("0", n) \in Seq(Char) /\ Repeat(" ", n) \in Seq(Char)
    BY <1>1, <2>1, RepeatIs
  <2>3. e \in Seq(Char)
    BY <2>2
  <2> QED
    BY <2>3, PlainTexts DEF Plain
<1> HIDE DEF e
<1>3. t \o e \in Seq(AnyChar) /\ e \o t \in Seq(AnyChar)
  BY <1>2, ConcatProperties
<1>4. PAD_AND_PUT(d, t) = IF d.left THEN t \o e ELSE e \o t
  BY DEF PAD_AND_PUT, e, n
<1> QED
  BY <1>3, <1>4

LEMMA ItemText ==
  ASSUME NEW d, IsItem(d)
  PROVE  vsnprintf(d) \in Seq(AnyChar)
<1> DEFINE t == Converted(d)
<1>1. Char \subseteq AnyChar /\ STRING \subseteq AnyChar /\ "%" \in AnyChar
  BY CharsAre DEF Char, AnyChar
<1>2. \A c \in AnyChar : <<c>> \in Seq(AnyChar)
  OBVIOUS
<1>3. CASE IsDirective(d) /\ d.conv \in {"c", "s", "d", "u", "x", "p", "f"}
  <2>1. d.width \in Int /\ vsnprintf(d) = PAD_AND_PUT(d, t)
    BY <1>3 DEF IsDirective, vsnprintf
  <2>2. CASE d.conv = "c"
    <3>1. t = <<d.arg>> /\ d.arg \in AnyChar
      BY <1>1, <1>3, <2>2 DEF Converted, IsDirective
    <3> QED
      BY <1>2, <2>1, <3>1, PaddedText
  <2>3. CASE d.conv = "s"
    <3> DEFINE s == IF d.arg = NoString THEN Null ELSE d.arg
               p == d.prec
    <3>1. t = IF p >= 0 /\ p < Len(s) THEN SubSeq(s, 1, p) ELSE s
      BY <2>3 DEF Converted
    <3>2. s \in Seq(Char) /\ Len(s) \in Nat /\ p \in Int
      <4>1. Null \in Seq(Char)
        <5>1. "(" \in Char /\ "n" \in Char /\ "u" \in Char /\ "l" \in Char /\ ")" \in Char
          BY DEF Char
        <5>2. \A e, f, g, h, j, k \in Char : <<e, f, g, h, j, k>> \in Seq(Char)
          OBVIOUS
        <5> QED
          BY <5>1, <5>2 DEF Null
      <4>2. STRING \ {"NUL"} \subseteq Char
        BY DEF Char
      <4>3. d.arg \in Seq(STRING \ {"NUL"}) /\ d.prec \in Int
        BY <1>3, <2>3 DEF IsDirective
      <4>4. d.arg \in Seq(Char)
        BY <4>2, <4>3, SeqMonotonic, Zenon
      <4> QED
        BY <4>1, <4>3, <4>4
    <3> HIDE DEF s, p
    <3>3. t \in Seq(Char)
      <4>1. CASE p >= 0 /\ p < Len(s)
        <5>1. p \in Int /\ \A i \in 1 .. p : s[i] \in Char
          BY <3>2, <4>1
        <5>2. SubSeq(s, 1, p) \in Seq(Char)
          BY <5>1, SubSeqProperties
        <5> QED
          BY <3>1, <4>1, <5>2
      <4>2. CASE ~(p >= 0 /\ p < Len(s))
        BY <3>1, <3>2, <4>2
      <4> QED
        BY <4>1, <4>2
    <3> HIDE DEF t
    <3>4. t \in Seq(AnyChar)
      BY <3>3, PlainTexts DEF Plain
    <3> QED
      BY <2>1, <3>4, PaddedText
  <2>4. CASE d.conv \notin {"c", "s"}
    <3> DEFINE c == CSign(d)
               b == CBody(d)
    <3>1. c \in Seq(AnyChar) /\ b \in Seq(AnyChar) /\ t = c \o b
      BY <1>3, <2>4, ConversionConverts, PlainTexts DEF Converts, Plain
    <3> HIDE DEF c, b, t
    <3>2. t \in Seq(AnyChar)
      BY <3>1, ConcatProperties
    <3> QED
      BY <2>1, <3>2, PaddedText
  <2> QED
    BY <2>2, <2>3, <2>4
<1>4. CASE IsDirective(d) /\ d.conv \notin {"c", "s", "d", "u", "x", "p", "f"}
  <2>1. vsnprintf(d) = <<"%">> \/ vsnprintf(d) = <<>>
    BY <1>4 DEF vsnprintf, IsDirective
  <2>2. <<>> \in Seq(AnyChar) /\ <<"%">> \in Seq(AnyChar)
    BY <1>1, <1>2
  <2> QED
    BY <2>1, <2>2, Zenon
<1>5. ASSUME NEW c \in Chars, d = Literal(c) PROVE vsnprintf(d) \in Seq(AnyChar)
  <2>1. vsnprintf(d) = <<c>>
    BY <1>5 DEF vsnprintf, Literal
  <2>2. c \in AnyChar
    BY <1>1, FormatAssumption
  <2> QED
    BY <1>2, <2>1, <2>2
<1> QED
  BY <1>3, <1>4, <1>5 DEF IsItem

------------------------------------------------------------------------------
(***************************************************************************)
(* Format: the text, item by item.                                         *)
(***************************************************************************)
FieldTable(its, n, w) == w = [i \in 0 .. n |-> IF i = 0 THEN <<>> ELSE w[i - 1] \o CField(its[i])]

\* Whole, of any sequence of items.
Joined(its) ==
  LET w[i \in 0 .. Len(its)] == IF i = 0 THEN <<>> ELSE w[i - 1] \o CField(its[i])
  IN  w[Len(its)]

LEMMA FieldTableExists ==
  ASSUME NEW its, NEW n \in Nat
  PROVE  \E w : FieldTable(its, n, w)
<1> DEFINE S == {j \in 0 .. n : \E w : FieldTable(its, j, w)}
<1>1. 0 \in S
  <2>1. FieldTable(its, 0, [i \in 0 .. 0 |-> <<>>])
    BY DEF FieldTable
  <2> QED
    BY <2>1
<1>2. ASSUME NEW j \in 1 .. n, j - 1 \in S PROVE j \in S
  <2>1. PICK f : FieldTable(its, j - 1, f)
    BY <1>2
  <2> DEFINE g == [i \in 0 .. j |-> IF i = j THEN f[j - 1] \o CField(its[j]) ELSE f[i]]
  <2>2. \A i \in 0 .. j - 1 : f[i] = IF i = 0 THEN <<>> ELSE f[i - 1] \o CField(its[i])
    BY <2>1 DEF FieldTable
  <2>3. \A i \in 0 .. j : g[i] = IF i = 0 THEN <<>> ELSE g[i - 1] \o CField(its[i])
    BY <2>2
  <2>4. FieldTable(its, j, g)
    BY <2>3 DEF FieldTable
  <2> HIDE DEF g
  <2> QED
    BY <2>4
<1> HIDE DEF S
<1>3. n \in S
  BY <1>1, <1>2, Segment
<1> QED
  BY <1>3 DEF S

LEMMA FieldTablesAgree ==
  ASSUME NEW its, NEW more, NEW m \in Nat, NEW n \in Nat, m <= n, NEW f, NEW g,
         FieldTable(its, m, f), FieldTable(more, n, g), \A i \in 1 .. m : more[i] = its[i]
  PROVE  f[m] = g[m]
<1> DEFINE S == {j \in 0 .. m : f[j] = g[j]}
<1>1. /\ \A i \in 0 .. m : f[i] = IF i = 0 THEN <<>> ELSE f[i - 1] \o CField(its[i])
      /\ \A i \in 0 .. n : g[i] = IF i = 0 THEN <<>> ELSE g[i - 1] \o CField(more[i])
  BY DEF FieldTable
<1>2. 0 \in S
  BY <1>1
<1>3. ASSUME NEW j \in 1 .. m, j - 1 \in S PROVE j \in S
  <2>1. j \in 0 .. m /\ j \in 0 .. n /\ j # 0 /\ f[j - 1] = g[j - 1] /\ more[j] = its[j]
    BY <1>3
  <2> HIDE DEF S
  <2>2. f[j] = f[j - 1] \o CField(its[j])
    BY ONLY <1>1, <2>1, Zenon
  <2>3. g[j] = g[j - 1] \o CField(more[j])
    BY ONLY <1>1, <2>1, Zenon
  <2>4. f[j] = g[j]
    BY ONLY <2>1, <2>2, <2>3, Zenon
  <2> QED
    BY <2>1, <2>4 DEF S
<1> HIDE DEF S
<1>4. m \in S
  BY <1>2, <1>3, Segment
<1> QED
  BY <1>4 DEF S

LEMMA JoinedIs ==
  ASSUME NEW its, Len(its) \in Nat
  PROVE  \E w : FieldTable(its, Len(its), w) /\ Joined(its) = w[Len(its)]
<1> DEFINE w == CHOOSE w : FieldTable(its, Len(its), w)
<1>1. FieldTable(its, Len(its), w)
  <2> HIDE DEF FieldTable
  <2> QED
    BY FieldTableExists
<1>2. Joined(its) = w[Len(its)]
  BY DEF Joined, FieldTable
<1> QED
  BY <1>1, <1>2

LEMMA JoinedNone == Joined(<<>>) = <<>>
<1>1. Len(<<>>) = 0
  OBVIOUS
<1>2. PICK w : FieldTable(<<>>, 0, w) /\ Joined(<<>>) = w[0]
  BY <1>1, JoinedIs
<1> QED
  BY <1>2 DEF FieldTable

LEMMA JoinedAppend ==
  ASSUME NEW S, NEW its \in Seq(S), NEW d \in S
  PROVE  Joined(Append(its, d)) = Joined(its) \o CField(d)
<1> DEFINE n == Len(its)
           more == Append(its, d)
<1>1. /\ n \in Nat /\ Len(more) = n + 1
      /\ \A i \in 1 .. n : more[i] = its[i]
      /\ more[n + 1] = d
  BY AppendProperties
<1> HIDE DEF more
<1>2. PICK f : FieldTable(its, n, f) /\ Joined(its) = f[n]
  BY <1>1, JoinedIs
<1>3. PICK g : FieldTable(more, n + 1, g) /\ Joined(more) = g[n + 1]
  <2>1. Len(more) \in Nat
    BY <1>1
  <2> QED
    BY <1>1, <2>1, JoinedIs
<1> HIDE DEF n
<1>4. n + 1 \in Nat /\ n <= n + 1 /\ n + 1 \in 0 .. n + 1 /\ n + 1 # 0 /\ (n + 1) - 1 = n
  BY <1>1
<1>5. f[n] = g[n]
  BY <1>1, <1>2, <1>3, <1>4, FieldTablesAgree
<1>6. g[n + 1] = g[n] \o CField(more[n + 1])
  BY <1>3, <1>4 DEF FieldTable
<1> QED
  BY <1>1, <1>2, <1>3, <1>5, <1>6 DEF more

\* What fits into the buffer, and what one more field adds to it.
Cut(s, n) == SubSeq(s, 1, IF Len(s) < n THEN Len(s) ELSE n - 1)

LEMMA CutIs ==
  ASSUME NEW S, NEW s \in Seq(S), NEW n \in Nat \ {0}
  PROVE  LET m == IF Len(s) < n THEN Len(s) ELSE n - 1 IN
         /\ Cut(s, n) \in Seq(S) /\ Len(Cut(s, n)) = m
         /\ \A i \in 1 .. m : Cut(s, n)[i] = s[i]
<1> DEFINE m == IF Len(s) < n THEN Len(s) ELSE n - 1
<1>1. m \in Nat /\ m <= Len(s) /\ Cut(s, n) = SubSeq(s, 1, m)
  BY DEF Cut
<1> HIDE DEF m
<1>2. m \in Int /\ 1 \in Int /\ \A i \in 1 .. m : s[i] \in S
  BY <1>1
<1>3. /\ SubSeq(s, 1, m) \in Seq(S)
      /\ Len(SubSeq(s, 1, m)) = IF 1 <= m THEN (m - 1) + 1 ELSE 0
      /\ \A i \in 1 .. (m - 1) + 1 : SubSeq(s, 1, m)[i] = s[(1 + i) - 1]
  BY <1>2, SubSeqProperties
<1>4. Len(SubSeq(s, 1, m)) = m /\ \A i \in 1 .. m : SubSeq(s, 1, m)[i] = s[i]
  BY <1>1, <1>3
<1> QED
  BY <1>1, <1>3, <1>4 DEF m

LEMMA CutSizes ==
  \A a, b \in Nat : \A n \in Nat \ {0} :
    LET m    == IF a < n THEN a ELSE n - 1
        room == n - 1 - m
        r    == IF b <= room THEN b ELSE room
    IN  /\ (IF a + b < n THEN a + b ELSE n - 1) = m + r
        /\ r > 0 => m = a
        /\ m <= a
OBVIOUS

LEMMA Room == size \in 1 .. WORD - 1 => (size - 1) % WORD = size - 1
<1> SUFFICES ASSUME size \in 1 .. WORD - 1 PROVE (size - 1) % WORD = size - 1
  OBVIOUS
<1>1. WORD \in Nat \ {0} /\ size - 1 \in 0 .. WORD - 1 /\ size - 1 = WORD * 0 + (size - 1)
  BY FormatAssumption
<1> QED
  BY <1>1, QuotientIs

\* What an item adds leaves a byte of the buffer for the NUL.
LEMMA PutText ==
  ASSUME NEW t \in Seq(AnyChar), text \in Seq(AnyChar), size \in 0 .. WORD - 1
  PROVE  /\ PUT(t) \in Seq(AnyChar)
         /\ size # 0 /\ Len(text) < size => Len(PUT(t)) < size
<1> DEFINE room == ((size - 1) % WORD) - Len(text)
           p    == IF Len(t) <= room THEN t ELSE SubSeq(t, 1, room)
<1>1. room \in Int /\ (size # 0 => room = size - 1 - Len(text)) /\ size \in Nat
  <2> DEFINE r == (size - 1) % WORD
  <2>1. WORD \in Nat \ {0} /\ size - 1 \in Int /\ size \in Nat /\ Len(text) \in Nat
    BY FormatAssumption
  <2>2. r \in Int
    BY <2>1
  <2>3. size # 0 => r = size - 1
    BY Room
  <2> HIDE DEF r
  <2> QED
    BY <2>1, <2>2, <2>3
<1>2. PUT(t) = text \o p
  BY DEF PUT
<1> HIDE DEF room
<1>3. p \in Seq(AnyChar) /\ (room >= 0 => Len(p) <= room)
  <2>1. CASE Len(t) <= room
    BY <2>1
  <2>2. CASE ~(Len(t) <= room)
    <3>1. \A i \in 1 .. room : t[i] \in AnyChar
      BY <1>1, <2>2
    <3>2. /\ SubSeq(t, 1, room) \in Seq(AnyChar)
          /\ Len(SubSeq(t, 1, room)) = IF 1 <= room THEN (room - 1) + 1 ELSE 0
      BY <1>1, <3>1, SubSeqProperties
    <3>3. p = SubSeq(t, 1, room)
      BY <2>2
    <3> HIDE DEF p
    <3> QED
      BY <1>1, <3>2, <3>3
  <2> QED
    BY <2>1, <2>2
<1> HIDE DEF p
<1>4. text \o p \in Seq(AnyChar) /\ Len(text \o p) = Len(text) + Len(p)
  BY <1>3, ConcatProperties
<1>5. Len(text) \in Nat /\ Len(p) \in Nat
  BY <1>3
<1> QED
  BY <1>1, <1>2, <1>3, <1>4, <1>5

LEMMA CutPut ==
  ASSUME NEW S, NEW s \in Seq(S), NEW t \in Seq(S), size \in 1 .. WORD - 1,
         text = Cut(s, size)
  PROVE  PUT(t) = Cut(s \o t, size)
<1> DEFINE u    == s \o t
           m    == IF Len(s) < size THEN Len(s) ELSE size - 1
           k    == IF Len(u) < size THEN Len(u) ELSE size - 1
           room == size - 1 - Len(text)
           r    == IF Len(t) <= room THEN Len(t) ELSE room
           p    == IF Len(t) <= room THEN t ELSE SubSeq(t, 1, room)
<1>1. /\ u \in Seq(S) /\ Len(u) = Len(s) + Len(t)
      /\ \A i \in 1 .. Len(s) + Len(t) : u[i] = IF i <= Len(s) THEN s[i] ELSE t[i - Len(s)]
  BY ConcatProperties
<1>2. Len(s) \in Nat /\ Len(t) \in Nat
  OBVIOUS
<1>3. text \in Seq(S) /\ Len(text) = m /\ \A i \in 1 .. m : text[i] = s[i]
  BY CutIs
<1> HIDE DEF u
<1>4. Cut(u, size) \in Seq(S) /\ Len(Cut(u, size)) = k /\ \A i \in 1 .. k : Cut(u, size)[i] = u[i]
  BY <1>1, CutIs
<1>5. room \in Nat /\ room = size - 1 - m /\ r \in Nat /\ r <= Len(t)
  BY <1>2, <1>3
<1>6. k = m + r /\ (r > 0 => m = Len(s)) /\ m <= Len(s)
  <2>1. size \in Nat \ {0} /\ Len(u) = Len(s) + Len(t)
    BY <1>1
  <2>2. room = size - 1 - m
    BY <1>5
  <2> DEFINE room_ == size - 1 - m
             r_    == IF Len(t) <= room_ THEN Len(t) ELSE room_
  <2>3. /\ (IF Len(s) + Len(t) < size THEN Len(s) + Len(t) ELSE size - 1) = m + r_
        /\ r_ > 0 => m = Len(s)
        /\ m <= Len(s)
    BY ONLY <1>2, <2>1, CutSizes, Zenon
  <2>4. r = r_
    <3> HIDE DEF room, m
    <3> QED
      BY <2>2
  <2>5. k = m + r_
    <3> HIDE DEF m, r_
    <3> QED
      BY <2>1, <2>3
  <2> HIDE DEF k, r, r_, m
  <2> QED
    BY <2>3, <2>4, <2>5
<1>7. p \in Seq(S) /\ Len(p) = r /\ \A i \in 1 .. r : p[i] = t[i]
  <2>1. CASE Len(t) <= room
    BY <2>1
  <2>2. CASE ~(Len(t) <= room)
    <3> HIDE DEF room
    <3>1. room \in Int /\ \A i \in 1 .. room : t[i] \in S
      BY <1>2, <1>5, <2>2
    <3>2. /\ SubSeq(t, 1, room) \in Seq(S)
          /\ Len(SubSeq(t, 1, room)) = IF 1 <= room THEN (room - 1) + 1 ELSE 0
          /\ \A i \in 1 .. (room - 1) + 1 : SubSeq(t, 1, room)[i] = t[(1 + i) - 1]
      BY <3>1, SubSeqProperties
    <3>3. p = SubSeq(t, 1, room) /\ r = room
      BY <2>2
    <3> HIDE DEF p, r
    <3>4. room \in Nat
      BY <1>5
    <3>5. (room - 1) + 1 = room /\ \A i \in 1 .. room : (1 + i) - 1 = i
      BY <3>4
    <3>6. Len(SubSeq(t, 1, room)) = room
      BY <3>2, <3>4
    <3>7. \A i \in 1 .. room : SubSeq(t, 1, room)[i] = t[i]
      BY <3>2, <3>5
    <3> QED
      BY <3>2, <3>3, <3>6, <3>7
  <2> QED
    BY <2>1, <2>2
<1>8. PUT(t) = text \o p
  <2>1. PUT(t) = text \o (IF Len(t) <= ((size - 1) % WORD) - Len(text) THEN t
                          ELSE SubSeq(t, 1, ((size - 1) % WORD) - Len(text)))
    BY DEF PUT
  <2>2. (size - 1) % WORD = size - 1
    BY Room
  <2> QED
    BY <2>1, <2>2
<1> HIDE DEF m, k, room, r, p
<1>9. /\ text \o p \in Seq(S) /\ Len(text \o p) = m + r
      /\ \A i \in 1 .. m + r : (text \o p)[i] = IF i <= m THEN text[i] ELSE p[i - m]
  <2>1. text \in Seq(S) /\ p \in Seq(S)
    BY <1>3, <1>7
  <2>2. /\ text \o p \in Seq(S) /\ Len(text \o p) = Len(text) + Len(p)
        /\ \A i \in 1 .. Len(text) + Len(p) :
             (text \o p)[i] = IF i <= Len(text) THEN text[i] ELSE p[i - Len(text)]
    BY ONLY <2>1, ConcatProperties
  <2>3. Len(text) = m /\ Len(p) = r
    BY <1>3, <1>7
  <2> QED
    BY <2>2, <2>3
<1>10. m \in Nat /\ r \in Nat
  BY <1>3, <1>7
<1>11. ASSUME NEW i \in 1 .. m + r PROVE (text \o p)[i] = Cut(u, size)[i]
  <2>1. Cut(u, size)[i] = IF i <= Len(s) THEN s[i] ELSE t[i - Len(s)]
    BY <1>1, <1>2, <1>4, <1>5, <1>6, <1>10
  <2>2. CASE i <= m
    BY <1>2, <1>3, <1>6, <1>9, <1>10, <2>1, <2>2
  <2>3. CASE ~(i <= m)
    <3>1. r > 0 /\ m = Len(s) /\ i - m \in 1 .. r
      BY <1>6, <1>10, <2>3
    <3>2. (text \o p)[i] = p[i - m] /\ p[i - m] = t[i - m]
      BY <1>7, <1>9, <2>3, <3>1
    <3> QED
      BY <1>10, <2>1, <2>3, <3>1, <3>2
  <2> QED
    BY <2>2, <2>3
<1>12. text \o p = Cut(u, size)
  BY <1>4, <1>6, <1>9, <1>11, SeqEqual
<1> QED
  BY <1>8, <1>12 DEF u

------------------------------------------------------------------------------
(***************************************************************************)
(* Format: the invariant.                                                  *)
(***************************************************************************)
FormatItem == Directive \cup {Literal(c) : c \in Chars}

\* Nothing so far has departed from the standard.
Standard == \A i \in DOMAIN items : ~Departs(items[i])

FormatInv ==
  /\ size \in 0 .. WORD - 1 /\ items \in Seq(FormatItem)
  /\ done \in BOOLEAN /\ strayed \in BOOLEAN
  /\ text \in Seq(AnyChar) /\ (size # 0 => Len(text) < size)
  /\ done => size # 0 /\ ~strayed
  /\ strayed => size = 0 \/ \E i \in DOMAIN items : Strays(items[i])
  /\ size # 0 /\ ~strayed /\ Standard =>
       /\ Plain(Joined(items))
       /\ text = Cut(Joined(items), size)
       /\ done => out = text

LEMMA FormatInvInit == FormatInit => FormatInv
<1> SUFFICES ASSUME FormatInit PROVE FormatInv
  OBVIOUS
<1>1. /\ size \in 0 .. WORD - 1 /\ text = <<>> /\ items = <<>>
      /\ done = FALSE /\ strayed = FALSE
  BY FormatAssumption DEF FormatInit
<1>2. Joined(items) = <<>>
  BY <1>1, JoinedNone
<1>3. <<>> \in Seq(Char) /\ Plain(<<>>)
  BY PlainTexts, CharsAre
<1>4. size # 0 => Cut(<<>>, size) = <<>>
  <2>1. Len(<<>>) = 0 /\ (size # 0 => 0 < size)
    BY <1>1
  <2>2. size # 0 => Cut(<<>>, size) = SubSeq(<<>>, 1, 0)
    BY <2>1 DEF Cut
  <2> QED
    BY <2>2, SubSeqEmpty
<1>5. items \in Seq(FormatItem) /\ text \in Seq(AnyChar) /\ (size # 0 => Len(text) < size)
  BY <1>1
<1> QED
  BY <1>1, <1>2, <1>3, <1>4, <1>5 DEF FormatInv

LEMMA ItemKeeps ==
  ASSUME FormatInv, NEW d \in FormatItem, Item(d)
  PROVE  FormatInv'
<1> DEFINE J == Joined(items)
           f == CField(d)
<1>1. /\ size \in 0 .. WORD - 1 /\ items \in Seq(FormatItem)
      /\ text \in Seq(AnyChar) /\ (size # 0 => Len(text) < size)
      /\ size # 0 /\ ~strayed /\ Standard => Plain(J) /\ text = Cut(J, size)
  BY DEF FormatInv
<1>2. /\ done = FALSE /\ done' = done /\ size' = size /\ lib' = lib /\ strayed = FALSE
      /\ items' = Append(items, d) /\ text' = PUT(vsnprintf(d))
      /\ strayed' = (~Fits(d) \/ d.conv = "end" \/ Len(text') > size)
  BY DEF Item, libc_vsnprintf, FormatInv
<1>3. /\ items' \in Seq(FormatItem) /\ Len(items') = Len(items) + 1
      /\ \A i \in 1 .. Len(items) : items'[i] = items[i]
      /\ items'[Len(items) + 1] = d
  BY <1>1, <1>2, AppendProperties
<1>4. Joined(items') = J \o f
  BY <1>1, <1>2, JoinedAppend
<1> HIDE DEF J, f
<1>5. /\ Len(items) \in Nat /\ DOMAIN items = 1 .. Len(items) /\ IsItem(d)
      /\ DOMAIN items' = 1 .. Len(items')
  <2>1. IsItem(d)
    BY FormatAssumption DEF IsItem, FormatItem
  <2> QED
    BY <1>1, <1>3, <2>1
<1>6. text' \in Seq(AnyChar) /\ (size # 0 => Len(text') < size)
  <2>1. vsnprintf(d) \in Seq(AnyChar)
    BY <1>5, ItemText
  <2> QED
    BY <1>1, <1>2, <2>1, PutText
<1>7. ASSUME strayed', size # 0 PROVE \E i \in DOMAIN items' : Strays(items'[i])
  <2>1. ~(Len(text') > size)
    <3>1. Len(text') \in Nat /\ size \in Nat
      BY <1>1, <1>6
    <3> QED
      BY <1>6, <1>7, <3>1
  <2>2. Strays(d)
    <3>1. ~Fits(d) \/ d.conv = "end"
      BY <1>2, <1>7, <2>1
    <3> QED
      BY <1>5, <3>1, OnlyLongOnesStray DEF Strays
  <2>3. Len(items) + 1 \in DOMAIN items'
    BY <1>3, <1>5
  <2> QED
    BY <1>3, <2>2, <2>3
<1>8. ASSUME Standard', size # 0, ~strayed' PROVE Plain(J \o f) /\ text' = Cut(J \o f, size)
  <2>1. \A i \in 1 .. Len(items') : ~Departs(items'[i])
    BY <1>2, <1>3, <1>8 DEF Standard, Departs
  <2>2. Standard
    BY <1>3, <1>5, <2>1 DEF Standard
  <2>3. ~Departs(d) /\ d.conv # "end"
    <3>1. Len(items) + 1 \in 1 .. Len(items')
      BY <1>3, <1>5
    <3> QED
      BY <1>2, <1>3, <1>8, <2>1, <3>1
  <2>4. vsnprintf(d) = f /\ Plain(f)
    BY <1>5, <2>3, FieldIs DEF f
  <2>5. J \in Seq(AnyChar) /\ f \in Seq(AnyChar) /\ text = Cut(J, size)
    BY <1>1, <1>2, <1>8, <2>2, <2>4 DEF Plain
  <2>6. size \in 1 .. WORD - 1
    BY <1>1, <1>8
  <2>7. PUT(f) = Cut(J \o f, size)
    BY <2>5, <2>6, CutPut
  <2>8. Plain(J \o f)
    BY <1>1, <1>2, <1>8, <2>2, <2>4, PlainTexts
  <2> QED
    BY <1>2, <2>4, <2>7, <2>8
<1>9. ASSUME Standard', size # 0, ~strayed'
      PROVE  Plain(Joined(items))' /\ text' = Cut(Joined(items'), size')
  BY <1>2, <1>4, <1>8, <1>9 DEF Plain
<1> QED
  BY <1>1, <1>2, <1>3, <1>6, <1>7, <1>9 DEF FormatInv

\* A text of the kernel's has no NUL to end it early.
LEMMA WholeTextPasses ==
  ASSUME FormatInv, console_printf, Standard, size # 0
  PROVE  out' = text
<1>1. Joined(items) \in Seq(Char) /\ size \in Nat \ {0} /\ text = Cut(Joined(items), size)
  BY DEF FormatInv, Plain, console_printf, Terminate
<1>2. text \in Seq(Char)
  BY <1>1, CutIs
<1>3. {i \in DOMAIN text : text[i] = "NUL"} = {}
  <2>1. "NUL" \notin Char
    BY DEF Char
  <2>2. \A i \in DOMAIN text : text[i] \in Char
    BY <1>2
  <2> QED
    BY <2>1, <2>2
<1> QED
  BY <1>3 DEF console_printf

LEMMA TerminateKeeps ==
  ASSUME FormatInv, Terminate, Standard /\ size # 0 => out' = text
  PROVE  FormatInv'
<1>1. /\ lib' = lib /\ size' = size /\ text' = text /\ items' = items
      /\ ~strayed /\ strayed' = (Len(text) >= size) /\ done' = ~strayed'
  BY DEF Terminate
<1>2. /\ size \in 0 .. WORD - 1 /\ items \in Seq(FormatItem)
      /\ text \in Seq(AnyChar) /\ (size # 0 => Len(text) < size)
  BY DEF FormatInv
<1>3. ASSUME size # 0, Standard PROVE Plain(Joined(items)) /\ text = Cut(Joined(items), size)
  BY <1>1, <1>3 DEF FormatInv
<1>4. Len(text) \in Nat /\ size \in Nat
  BY <1>2
<1>5. strayed' <=> size = 0
  <2>1. Len(text) >= size <=> size = 0
    BY <1>2, <1>4
  <2> QED
    BY <1>1, <2>1, Zenon
<1>6. Standard' <=> Standard
  BY <1>1 DEF Standard, Departs
<1>7. Plain(Joined(items))' <=> Plain(Joined(items))
  BY <1>1 DEF Plain
<1>8. ASSUME size # 0, Standard
      PROVE  Plain(Joined(items))' /\ text' = Cut(Joined(items), size)' /\ out' = text'
  BY <1>1, <1>3, <1>7, <1>8
<1> QED
  BY <1>1, <1>2, <1>5, <1>6, <1>8 DEF FormatInv

LEMMA FormatStep == FormatInv /\ [FormatNext]_formatVars => FormatInv'
<1> SUFFICES ASSUME FormatInv, [FormatNext]_formatVars PROVE FormatInv'
  OBVIOUS
<1>1. CASE \E c \in Chars : Item(Literal(c))
  BY <1>1, ItemKeeps DEF FormatItem
<1>2. CASE \E d \in Directive : Item(d)
  BY <1>2, ItemKeeps DEF FormatItem
<1>3. CASE console_printf
  <2>1. Standard /\ size # 0 => out' = text
    BY <1>3, WholeTextPasses
  <2>2. Terminate
    BY <1>3 DEF console_printf
  <2> QED
    BY <2>1, <2>2, TerminateKeeps
<1>4. CASE libc_printf
  BY <1>4, TerminateKeeps DEF libc_printf
<1>5. CASE UNCHANGED formatVars
  <2>1. Standard' <=> Standard
    BY <1>5 DEF Standard, Departs, formatVars
  <2>2. Plain(Joined(items))' <=> Plain(Joined(items))
    BY <1>5 DEF Plain, formatVars
  <2> QED
    BY <1>5, <2>1, <2>2 DEF FormatInv, formatVars
<1> QED
  BY <1>1, <1>2, <1>3, <1>4, <1>5 DEF FormatNext

LEMMA FormatInvHolds == FormatInv => FormatsAsSpecified
<1>1. Whole = Joined(items)
  BY DEF Whole, Joined
<1> QED
  BY <1>1 DEF FormatInv, FormatsAsSpecified, Standard, Cut

\* printf leaves its arrays only where the buffer has no byte, a precision asks
\* for a longer numeral than the array holds, or the format ends in a directive;
\* otherwise it puts out what the C standard says of its format, cut to the
\* buffer, in the kernel and in libc.
THEOREM PrintsAsSpecified == FormatInit /\ [][FormatNext]_formatVars => []FormatsAsSpecified
<1>1. FormatInit => FormatInv
  BY FormatInvInit
<1>2. FormatInv /\ [FormatNext]_formatVars => FormatInv'
  BY FormatStep
<1>3. FormatInv => FormatsAsSpecified
  BY FormatInvHolds
<1> QED
  BY <1>1, <1>2, <1>3, PTL

==============================================================================
