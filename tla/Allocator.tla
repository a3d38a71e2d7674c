------------------------------ MODULE Allocator ------------------------------
(***************************************************************************)
(* What a heap promises: every allocation gets a stretch of memory that    *)
(* shares no byte with any other allocation until it is freed.             *)
(***************************************************************************)
EXTENDS Integers

CONSTANTS First, Last, Sizes     \* the heap's first and last byte

VARIABLE live     \* what has been allocated: the address and size of each

Bytes(r) == r.addr..r.addr + r.size - 1

Init == live = {}

Alloc == \E a \in First..Last, n \in Sizes :
           LET r == [addr |-> a, size |-> n] IN
           /\ a + n - 1 <= Last
           /\ \A s \in live : Bytes(r) \cap Bytes(s) = {}
           /\ live' = live \cup {r}

Free == \E r \in live : live' = live \ {r}

Spec == Init /\ [][Alloc \/ Free]_live

==============================================================================
