----------------------------- MODULE KHeapProofs -----------------------------
(***************************************************************************)
(* The heap, for every number of threads, size of a header, of a page and  *)
(* of the heap, and for every set of sizes, as long as nothing preempts    *)
(* kfree: all callers but a sys_wait that has blocked run that way.        *)
(***************************************************************************)
EXTENDS KHeap, FiniteSetTheorems, WellFoundedInduction, TLAPS

HeaderType == [size : 0..PageEnd(MaxPages), free : BOOLEAN,
               prev : Addr \cup {NULL}, next : Addr \cup {NULL}]

Seams == {PageEnd(n) : n \in InitialPages..MaxPages}

\* The headers h link the blocks B in order of their addresses, up to e.
IsList(h, B, e) ==
  /\ head \in B /\ B \subseteq Addr
  /\ h[head].prev = NULL
  /\ \A b \in B :
       /\ h[b].size > 0
       /\ h[b].next \in B \cup {NULL}
       /\ b + HDR + h[b].size <= (IF h[b].next = NULL THEN e ELSE h[b].next)
       /\ h[b].next # NULL => h[h[b].next].prev = b
       /\ b # head => h[b].prev \in B /\ h[h[b].prev].next = b

\* r is the first block from b on that is free and has room for n bytes.
IsFirst(h, B, b, n, r) ==
  /\ r \in B \cup {NULL}
  /\ r # NULL => b <= r /\ h[r].free /\ h[r].size >= n
  /\ \A x \in B : b # NULL /\ b <= x /\ (r = NULL \/ x < r) =>
                    ~(h[x].free /\ h[x].size >= n)

\* What callers hold are the blocks that are not free.
Holds(h, B, l) ==
  {[addr |-> b + HDR, size |-> h[b].size] : b \in {c \in B : ~h[c].free}} = l

\* f is the first free block.
Leads(h, B, f) ==
  /\ f \in B \cup {NULL}
  /\ f # NULL => h[f].free
  /\ \A x \in B : h[x].free => f # NULL /\ f <= x

\* The first free block while a thread frees the block b: free_head is behind.
FirstWith(f, b) == IF f = NULL \/ b < f THEN b ELSE f

Freeing == {"next", "prev", "head"}

HeadInv(h, B, f, a, bl) ==
  /\ (\A t \in Thread : a[t] \notin Freeing) => Leads(h, B, f)
  /\ \A t \in Thread : a[t] \in Freeing =>
       bl[t] \in B /\ h[bl[t]].free /\ Leads(h, B, FirstWith(f, bl[t]))

\* The neighbours that a kfree has still to look at.
Pending(x, y, a, bl) ==
  \E t \in Thread : \/ a[t] = "next" /\ (x = bl[t] \/ y = bl[t])
                    \/ a[t] = "prev" /\ y = bl[t]

SeamInv(h, B, a, bl) ==
  \A x \in B : h[x].free /\ h[x].next # NULL /\ h[h[x].next].free =>
                 h[x].next \in Seams \/ Pending(x, h[x].next, a, bl)

\* After a growth there is a block of a page.
GrowInv(h, B, a) ==
  \A t \in Thread : a[t] = "grow" =>
    \E x \in B : h[x].free /\ h[x].size = PAGE_SIZE - HDR

Types ==
  /\ hdr \in [Addr -> HeaderType]
  /\ kheap_end \in Seams
  /\ at \in [Thread -> {"idle", "grow"} \cup Freeing]
  /\ block \in [Thread -> Addr \cup {NULL}]
  /\ want \in [Thread -> Sizes \cup {0}]
  /\ panicked \in BOOLEAN
  /\ \A t, u \in Thread : at[t] # "idle" /\ at[u] # "idle" => t = u

InvOn(B) ==
  /\ IsList(hdr, B, kheap_end)
  /\ Holds(hdr, B, live)
  /\ HeadInv(hdr, B, free_head, at, block)
  /\ SeamInv(hdr, B, at, block)
  /\ GrowInv(hdr, B, at)

Inv == Types /\ InvOn(Blocks)

------------------------------------------------------------------------------
(***************************************************************************)
(* Numbers.                                                                *)
(***************************************************************************)

\* The least element of a set of naturals.
LEMMA LeastNat ==
  ASSUME NEW T, T \subseteq Nat, T # {}
  PROVE  \E x \in T : \A y \in T : x <= y
<1>1. PICK x \in T : \A y \in T : <<y, x>> \notin OpToRel(<, Nat)
  BY WFMin, NatLessThanWellFounded, Zenon
<1>2. \A y \in T : ~(y < x)
  BY <1>1 DEF OpToRel
<1> QED
  BY <1>2

LEMMA MinIsLeast ==
  ASSUME NEW T, T \subseteq Nat, T # {}
  PROVE  Min(T) \in T /\ \A y \in T : Min(T) <= y
BY LeastNat, Zenon DEF Min

LEMMA Product ==
  ASSUME NEW a \in Nat, NEW b \in Nat
  PROVE  a * b \in Nat
OBVIOUS

LEMMA Constants ==
  /\ HDR \in Nat /\ HDR > 0 /\ PAGE_SIZE \in Nat /\ HDR < PAGE_SIZE
  /\ InitialPages \in Nat /\ InitialPages > 0 /\ MaxPages \in Nat /\ InitialPages <= MaxPages
  /\ Sizes \subseteq Nat /\ 0 \notin Sizes
BY KHeapAssumption

LEMMA PageEnds ==
  /\ \A n \in Nat : PageEnd(n) \in Nat /\ PageEnd(n) + PAGE_SIZE = PageEnd(n + 1)
  /\ \A n, m \in Nat : n <= m => PageEnd(n) <= PageEnd(m)
<1> USE Constants DEF PageEnd, kheap_start
<1>1. ASSUME NEW n \in Nat PROVE PageEnd(n) \in Nat /\ PageEnd(n) + PAGE_SIZE = PageEnd(n + 1)
  <2>1. n * PAGE_SIZE \in Nat /\ (n + 1) * PAGE_SIZE = n * PAGE_SIZE + PAGE_SIZE
    BY Product
  <2> QED
    BY <2>1
<1>2. ASSUME NEW n \in Nat, NEW m \in Nat, n <= m PROVE PageEnd(n) <= PageEnd(m)
  <2>1. (m - n) * PAGE_SIZE \in Nat
    BY <1>2, Product
  <2>2. m * PAGE_SIZE = n * PAGE_SIZE + (m - n) * PAGE_SIZE
    OBVIOUS
  <2> QED
    BY <2>1, <2>2, Product
<1> QED
  BY <1>1, <1>2

LEMMA Addresses ==
  /\ PageEnd(MaxPages) \in Nat /\ PageEnd(InitialPages) \in Nat
  /\ PageEnd(InitialPages) <= PageEnd(MaxPages)
  /\ head \in Nat /\ NULL \notin Addr /\ NULL = 0 /\ Addr \subseteq Nat
  /\ \A x : x \in Addr <=> x \in Nat /\ head <= x /\ x < PageEnd(MaxPages)
  /\ Seams \subseteq Nat /\ \A e \in Seams : e <= PageEnd(MaxPages)
  /\ head + PAGE_SIZE <= PageEnd(InitialPages)
<1> USE Constants
<1>1. PageEnd(MaxPages) \in Nat /\ PageEnd(InitialPages) <= PageEnd(MaxPages) /\ PageEnd(InitialPages) \in Nat
  BY PageEnds
<1>2. Seams \subseteq Nat /\ \A e \in Seams : e <= PageEnd(MaxPages)
  <2> SUFFICES ASSUME NEW n \in InitialPages..MaxPages
               PROVE  PageEnd(n) \in Nat /\ PageEnd(n) <= PageEnd(MaxPages)
    BY DEF Seams
  <2>1. n \in Nat /\ n <= MaxPages
    OBVIOUS
  <2> QED
    BY <2>1, PageEnds
<1>3. PageEnd(1) <= PageEnd(InitialPages) /\ PageEnd(1) = head + PAGE_SIZE
  <2>1. PageEnd(1) <= PageEnd(InitialPages)
    BY PageEnds
  <2>2. 1 * PAGE_SIZE = PAGE_SIZE
    OBVIOUS
  <2> QED
    BY <2>1, <2>2 DEF PageEnd, head
<1> QED
  BY <1>1, <1>2, <1>3 DEF Addr, NULL, head, kheap_start

\* The walks are long enough: so many blocks do not fit in the heap.
LEMMA WalkBound ==
  /\ MaxBlocks \in Nat
  /\ head + (MaxBlocks + 1) * (HDR + 1) > PageEnd(MaxPages) 
<1> USE Constants
<1>1. Cardinality(Addr) = PageEnd(MaxPages) - head /\ Cardinality(Addr) \in Nat
  <2> DEFINE b == PageEnd(MaxPages) - 1
  <2>1. kheap_start \in Int /\ b \in Int /\ kheap_start = head /\ kheap_start <= b
    BY Addresses DEF head
  <2> HIDE DEF b
  <2>2. Cardinality(kheap_start..b) = b - kheap_start + 1
    BY <2>1, FS_Interval
  <2>3. Addr = kheap_start..b
    BY DEF Addr, b
  <2>4. Cardinality(Addr) = PageEnd(MaxPages) - head
    BY <2>1, <2>2, <2>3, Addresses DEF b
  <2> QED
    BY <2>1, <2>4, Addresses DEF b
<1> DEFINE n == Cardinality(Addr)
           d == HDR + 1
<1>2. n \in Nat /\ d \in Nat /\ d > 0
  BY <1>1
<1>3. n \div d \in Nat /\ n < (n \div d + 1) * d
  <2> HIDE DEF n, d
  <2>1. n = d * (n \div d) + (n % d) /\ n % d \in 0..d - 1
    BY <1>2
  <2> QED
    BY <1>2, <2>1
<1>4. MaxBlocks = n \div d
  BY DEF MaxBlocks
<1> HIDE DEF n
<1>5. head \in Nat /\ PageEnd(MaxPages) \in Nat /\ n = PageEnd(MaxPages) - head
  BY <1>1, Addresses DEF n
<1> QED
  BY <1>3, <1>4, <1>5

------------------------------------------------------------------------------
(***************************************************************************)
(* Lists and walks.                                                        *)
(***************************************************************************)

\* Chain(h, b) is the walk it is meant to be: such a function exists.
LEMMA ChainDef ==
  ASSUME NEW h, NEW b
  PROVE  Chain(h, b) =
           [i \in 0..MaxBlocks |-> IF i = 0 THEN b
              ELSE IF Chain(h, b)[i - 1] = NULL THEN NULL ELSE h[Chain(h, b)[i - 1]].next]
<1> DEFINE Is(c, n) ==
      c = [i \in 0..n |-> IF i = 0 THEN b ELSE IF c[i - 1] = NULL THEN NULL ELSE h[c[i - 1]].next]
    Bad == {n \in Nat : ~ \E c : Is(c, n)}
<1>1. Bad = {}
  <2> SUFFICES ASSUME Bad # {} PROVE FALSE
    OBVIOUS
  <2>1. PICK n \in Bad : \A m \in Bad : n <= m
    <3>1. Bad \subseteq Nat
      OBVIOUS
    <3> HIDE DEF Bad
    <3> QED
      BY <3>1, LeastNat
  <2>2. CASE n = 0
    <3> DEFINE c == [i \in 0..0 |-> b]
    <3>1. Is(c, 0)
      OBVIOUS
    <3> QED
      BY <2>1, <2>2, <3>1
  <2>3. CASE n # 0
    <3>1. n - 1 \in Nat /\ n - 1 \notin Bad
      <4> HIDE DEF Is
      <4> QED
        BY <2>1, <2>3
    <3>2. PICK d : Is(d, n - 1)
      BY <3>1
    <3> DEFINE c == [i \in 0..n |-> IF i < n THEN d[i]
                       ELSE IF d[n - 1] = NULL THEN NULL ELSE h[d[n - 1]].next]
    <3>3. \A i \in 0..n - 1 : c[i] = d[i]
      BY <2>1
    <3>4. \A i \in 0..n - 1 : d[i] = IF i = 0 THEN b ELSE IF d[i - 1] = NULL THEN NULL ELSE h[d[i - 1]].next
      BY <3>2
    <3>5. c[n] = IF d[n - 1] = NULL THEN NULL ELSE h[d[n - 1]].next
      BY <2>1
    <3>6. \A i \in 0..n : c[i] = IF i = 0 THEN b ELSE IF c[i - 1] = NULL THEN NULL ELSE h[c[i - 1]].next
      <4> HIDE DEF c
      <4> TAKE i \in 0..n
      <4>1. CASE i = n
        BY <2>1, <2>3, <3>1, <3>3, <3>5, <4>1
      <4>2. CASE i # n
        <5>1. i \in 0..n - 1 /\ (i # 0 => i - 1 \in 0..n - 1)
          BY <4>2, <2>1
        <5> QED
          BY <5>1, <3>3, <3>4
      <4> QED
        BY <4>1, <4>2
    <3>7. Is(c, n)
      <4>1. c = [i \in 0..n |-> c[i]]
        OBVIOUS
      <4> HIDE DEF c
      <4> QED
        BY <4>1, <3>6
    <3> QED
      BY <2>1, <3>7
  <2> QED
    BY <2>2, <2>3
<1>2. \E c : Is(c, MaxBlocks)
  BY <1>1, WalkBound
<1>3. Chain(h, b) = CHOOSE c : Is(c, MaxBlocks)
  BY DEF Chain
<1> HIDE DEF Is
<1>4. Is(Chain(h, b), MaxBlocks)
  BY <1>2, <1>3
<1> QED
  BY <1>4, Zenon DEF Is

LEMMA ChainSteps ==
  ASSUME NEW h, NEW b
  PROVE  /\ Chain(h, b)[0] = b
         /\ \A i \in 0..MaxBlocks : i + 1 <= MaxBlocks =>
              Chain(h, b)[i + 1] = IF Chain(h, b)[i] = NULL THEN NULL ELSE h[Chain(h, b)[i]].next
<1> DEFINE c == Chain(h, b)
<1>1. c = [i \in 0..MaxBlocks |-> IF i = 0 THEN b ELSE IF c[i - 1] = NULL THEN NULL ELSE h[c[i - 1]].next]
  BY ChainDef
<1> HIDE DEF c
<1>2. \A i \in 0..MaxBlocks : c[i] = IF i = 0 THEN b ELSE IF c[i - 1] = NULL THEN NULL ELSE h[c[i - 1]].next
  BY <1>1, Zenon
<1>3. c[0] = b
  BY <1>2, WalkBound
<1>4. ASSUME NEW i \in 0..MaxBlocks, i + 1 <= MaxBlocks
      PROVE  c[i + 1] = IF c[i] = NULL THEN NULL ELSE h[c[i]].next
  <2>1. i + 1 \in 0..MaxBlocks /\ i + 1 # 0 /\ (i + 1) - 1 = i
    BY <1>4, WalkBound
  <2> QED
    BY <1>2, <2>1, Zenon
<1> QED
  BY <1>3, <1>4, Zenon DEF c

\* A list, with the types that its headers have.
List(h, B, e) ==
  h \in [Addr -> HeaderType] /\ e \in Nat /\ e <= PageEnd(MaxPages) /\ IsList(h, B, e)

LEMMA ListFacts ==
  ASSUME NEW h, NEW B, NEW e, List(h, B, e), NEW b \in B
  PROVE  /\ b \in Nat /\ b \in Addr /\ b # NULL /\ head <= b
         /\ h[b] \in HeaderType
         /\ h[b].size \in Nat /\ h[b].size > 0 /\ h[b].size <= PageEnd(MaxPages)
         /\ h[b].free \in BOOLEAN
         /\ h[b].next \in Nat /\ h[b].prev \in Nat
         /\ h[b].next = NULL => b + HDR + h[b].size <= e
         /\ h[b].next # NULL => /\ h[b].next \in B /\ b + HDR + h[b].size <= h[b].next
                                /\ b < h[b].next /\ h[h[b].next].prev = b
         /\ b = head => h[b].prev = NULL
         /\ b # head => /\ h[b].prev \in B /\ h[b].prev < b /\ h[h[b].prev].next = b
                        /\ h[b].prev # NULL
<1> USE Constants, Addresses
<1>0. /\ h[head].prev = NULL /\ B \subseteq Addr
      /\ h \in [Addr -> HeaderType]
      /\ \A x \in B :
            /\ h[x].size > 0
            /\ h[x].next \in B \cup {NULL}
            /\ x + HDR + h[x].size <= (IF h[x].next = NULL THEN e ELSE h[x].next)
            /\ h[x].next # NULL => h[h[x].next].prev = x
            /\ x # head => h[x].prev \in B /\ h[h[x].prev].next = x
  BY Zenon DEF List, IsList
<1>1. ASSUME NEW x \in B
      PROVE  /\ x \in Nat /\ x \in Addr /\ x # NULL /\ head <= x
             /\ h[x] \in HeaderType
             /\ h[x].size \in 0..PageEnd(MaxPages) /\ h[x].free \in BOOLEAN
             /\ h[x].next \in Addr \cup {NULL} /\ h[x].prev \in Addr \cup {NULL}
  BY <1>0 DEF HeaderType
<1>2. ASSUME NEW x \in B, h[x].next # NULL
      PROVE  h[x].next \in B /\ x < h[x].next /\ x + HDR + h[x].size <= h[x].next
  <2>1. h[x].next \in B /\ x + HDR + h[x].size <= h[x].next
    BY <1>0, <1>2
  <2> QED
    BY <2>1, <1>1
<1>3. b # head => h[b].prev \in B /\ h[b].prev < b /\ h[h[b].prev].next = b
  <2> SUFFICES ASSUME b # head PROVE h[b].prev \in B /\ h[b].prev < b /\ h[h[b].prev].next = b
    OBVIOUS
  <2>1. h[b].prev \in B /\ h[h[b].prev].next = b
    BY <1>0
  <2> QED
    BY <2>1, <1>1, <1>2
<1>4. h[b].next = NULL => b + HDR + h[b].size <= e
  BY <1>0
<1>5. b = head => h[b].prev = NULL
  BY <1>0
<1>6. h[b].size > 0 /\ (h[b].next # NULL => h[h[b].next].prev = b)
  BY <1>0
<1>7. h[b].next \in Nat /\ h[b].prev \in Nat
  BY <1>1
<1> QED
  BY <1>1, <1>2, <1>3, <1>4, <1>5, <1>6, <1>7

\* Between a block and the next one there is no other.
LEMMA Ordered ==
  ASSUME NEW h, NEW B, NEW e, List(h, B, e)
  PROVE  \A x, y \in B : x < y => h[x].next # NULL /\ h[x].next <= y
<1> DEFINE P(x, y) == x < y => h[x].next # NULL /\ h[x].next <= y
    Bad == {y \in B : \E x \in B : ~P(x, y)}
<1> SUFFICES ASSUME Bad # {} PROVE FALSE
  OBVIOUS
<1>1. PICK y \in Bad : \A z \in Bad : y <= z
  <2>1. Bad \subseteq Nat
    BY ListFacts
  <2> HIDE DEF Bad
  <2> QED
    BY <2>1, LeastNat
<1>2. PICK x \in B : ~P(x, y)
  OBVIOUS
<1>3. y \in B /\ y \in Nat /\ y # NULL /\ x \in Nat /\ head <= x /\ x < y /\ head \in Nat
  BY <1>2, ListFacts, Addresses
<1>4. y # head
  BY <1>3
<1> DEFINE p == h[y].prev
<1>5. p \in B /\ p < y /\ h[p].next = y /\ p \in Nat
  BY <1>3, <1>4, ListFacts
<1>6. \A z \in B : z < y => \A w \in B : P(w, z)
  <2> SUFFICES ASSUME NEW z \in B, z < y, z \in Bad PROVE FALSE
    OBVIOUS
  <2>1. z \in Nat
    BY ListFacts
  <2> HIDE DEF Bad
  <2> QED
    BY <2>1, <1>1, <1>3
<1>7. h[x].next \in Nat
  BY ListFacts
<1> HIDE DEF p, Bad
<1>8. CASE p = x
  BY <1>2, <1>3, <1>5, <1>8
<1>9. CASE x < p
  BY <1>2, <1>3, <1>5, <1>6, <1>7, <1>9
<1>10. CASE p < x
  BY <1>2, <1>3, <1>5, <1>6, <1>10, Addresses
<1> QED
  BY <1>3, <1>5, <1>8, <1>9, <1>10

\* Two blocks do not overlap, and only the last has no next one.
LEMMA Apart ==
  ASSUME NEW h, NEW B, NEW e, List(h, B, e), NEW x \in B, NEW y \in B, x < y
  PROVE  x + HDR + h[x].size <= y
<1>1. h[x].next # NULL /\ h[x].next <= y
  BY Ordered
<1>2. x + HDR + h[x].size <= h[x].next
  BY <1>1, ListFacts
<1>3. x \in Nat /\ y \in Nat /\ h[x].size \in Nat /\ h[x].next \in Nat
  BY ListFacts
<1> QED
  BY <1>1, <1>2, <1>3, Constants

\* The list has a last block.
LEMMA LastBlock ==
  ASSUME NEW h, NEW B, NEW e, List(h, B, e), NEW x \in B
  PROVE  \E y \in B : x <= y /\ h[y].next = NULL
<1> DEFINE Bad == {y \in B : x <= y}
           Top == {k \in Nat : \E y \in Bad : k = PageEnd(MaxPages) - y}
<1>0. \A y \in B : y \in Nat
  BY ListFacts
<1>1. Top \subseteq Nat /\ Top # {}
  <2>1. PageEnd(MaxPages) - x \in Nat
    BY ListFacts, Addresses
  <2>2. x \in Bad
    BY <1>0
  <2>3. PageEnd(MaxPages) - x \in Top
    BY <2>1, <2>2
  <2> QED
    BY <2>3
<1>2. PICK k \in Top : \A j \in Top : k <= j
  <2> HIDE DEF Top
  <2> QED
    BY <1>1, LeastNat
<1>3. PICK y \in Bad : k = PageEnd(MaxPages) - y
  OBVIOUS
<1>4. h[y].next = NULL
  <2> SUFFICES ASSUME h[y].next # NULL PROVE FALSE
    OBVIOUS
  <2> DEFINE z == h[y].next
  <2>1. z \in B /\ y < z /\ z \in Nat /\ y \in Nat /\ x <= y
    BY ListFacts
  <2>2. z \in Addr
    BY <2>1, ListFacts
  <2> HIDE DEF z
  <2>3. z \in Bad
    BY <2>1, <1>0
  <2>4. PageEnd(MaxPages) - z \in Nat
    BY <2>2, Addresses
  <2>5. PageEnd(MaxPages) - z \in Top
    BY <2>3, <2>4
  <2> HIDE DEF Top, Bad
  <2> QED
    BY <2>5, <1>2, <1>3, <2>1, <2>4, Addresses
<1> QED
  BY <1>4

\* A block lies in the heap.
LEMMA InHeap ==
  ASSUME NEW h, NEW B, NEW e, List(h, B, e), NEW x \in B
  PROVE  x + HDR + h[x].size <= e
<1>0. /\ \A y \in B : y \in Nat /\ h[y].size \in Nat
      /\ e \in Nat /\ HDR \in Nat
  BY ListFacts, Constants DEF List
<1>1. PICK y \in B : x <= y /\ h[y].next = NULL
  BY LastBlock
<1>2. y + HDR + h[y].size <= e
  BY <1>1, ListFacts
<1>3. CASE x = y
  BY <1>2, <1>3
<1>4. CASE x < y
  <2>1. x + HDR + h[x].size <= y
    BY <1>4, Apart
  <2> QED
    BY <2>1, <1>0, <1>2
<1> QED
  BY <1>0, <1>1, <1>3, <1>4

------------------------------------------------------------------------------
(***************************************************************************)
(* Walks over a list.                                                      *)
(***************************************************************************)
\* A walk from a block on stays in the list, at least a header and a byte a step.
LEMMA WalkStays ==
  ASSUME NEW h, NEW B, NEW e, List(h, B, e), NEW b \in B
  PROVE  \A i \in 0..MaxBlocks :
           LET x == Chain(h, b)[i] IN
           x = NULL \/ (x \in B /\ b + i * (HDR + 1) <= x)
<1> DEFINE c == Chain(h, b)
           P(i) == c[i] = NULL \/ (c[i] \in B /\ b + i * (HDR + 1) <= c[i])
           Bad == {i \in 0..MaxBlocks : ~P(i)}
<1>0. /\ c[0] = b
      /\ \A i \in 0..MaxBlocks : i + 1 <= MaxBlocks =>
           c[i + 1] = IF c[i] = NULL THEN NULL ELSE h[c[i]].next
  BY ChainSteps
<1> HIDE DEF c
<1> SUFFICES ASSUME Bad # {} PROVE FALSE
  BY DEF c
<1>1. PICK i \in Bad : \A j \in Bad : i <= j
  <2>1. Bad \subseteq Nat
    BY WalkBound
  <2> HIDE DEF Bad
  <2> QED
    BY <2>1, LeastNat
<1>2. i \in Nat /\ i <= MaxBlocks /\ ~P(i) /\ b \in Nat /\ MaxBlocks \in Nat
  BY WalkBound, ListFacts
<1>3. i # 0
  BY <1>0, <1>2, Constants
<1> DEFINE j == i - 1
<1>4. j \in Nat /\ j \in 0..MaxBlocks /\ j + 1 = i /\ j < i
  BY <1>2, <1>3
<1> HIDE DEF j
<1>5. P(j)
  <2> SUFFICES ASSUME j \in Bad PROVE FALSE
    BY <1>4
  <2> HIDE DEF Bad
  <2> QED
    BY <1>1, <1>2, <1>4
<1>6. c[i] = IF c[j] = NULL THEN NULL ELSE h[c[j]].next
  BY <1>0, <1>2, <1>4
<1>7. c[j] # NULL /\ c[i] # NULL
  BY <1>2, <1>6
<1>8. c[j] \in B /\ b + j * (HDR + 1) <= c[j] /\ c[i] = h[c[j]].next
  BY <1>5, <1>6, <1>7
<1>9. c[i] \in B /\ c[j] + HDR + h[c[j]].size <= c[i] /\ h[c[j]].size > 0
  BY <1>7, <1>8, ListFacts
<1>10. c[j] \in Nat /\ c[i] \in Nat /\ h[c[j]].size \in Nat
  BY <1>8, <1>9, ListFacts
<1>11. i * (HDR + 1) = j * (HDR + 1) + (HDR + 1) /\ j * (HDR + 1) \in Nat
  BY <1>4, Constants, Product
<1>12. b + i * (HDR + 1) <= c[i]
  <2> DEFINE ii == i * (HDR + 1)
             jj == j * (HDR + 1)
  <2>1. ii = jj + HDR + 1 /\ jj \in Nat /\ b + jj <= c[j]
    BY <1>8, <1>11, Constants
  <2> HIDE DEF ii, jj
  <2>2. b + ii <= c[i]
    BY <2>1, <1>2, <1>9, <1>10, Constants
  <2> QED
    BY <2>2 DEF ii
<1> QED
  BY <1>2, <1>9, <1>12

\* It visits every block from there on.
LEMMA WalkVisits ==
  ASSUME NEW h, NEW B, NEW e, List(h, B, e), NEW b \in B, NEW x \in B, b <= x
  PROVE  \E i \in 0..MaxBlocks : Chain(h, b)[i] = x
<1> DEFINE c == Chain(h, b)
           Bad == {y \in B : b <= y /\ ~ \E i \in 0..MaxBlocks : c[i] = y}
<1>0. /\ c[0] = b
      /\ \A i \in 0..MaxBlocks : i + 1 <= MaxBlocks =>
           c[i + 1] = IF c[i] = NULL THEN NULL ELSE h[c[i]].next
  BY ChainSteps
<1>00. \A i \in 0..MaxBlocks : c[i] = NULL \/ (c[i] \in B /\ b + i * (HDR + 1) <= c[i])
  BY WalkStays
<1> HIDE DEF c
<1> SUFFICES ASSUME Bad # {} PROVE FALSE
  BY DEF c
<1>1. PICK y \in Bad : \A z \in Bad : y <= z
  <2>1. Bad \subseteq Nat
    BY ListFacts
  <2> HIDE DEF Bad
  <2> QED
    BY <2>1, LeastNat
<1>2. y \in B /\ b <= y /\ y \in Nat /\ b \in Nat /\ y # NULL /\ head <= b /\ head \in Nat /\ y \in Addr
  BY ListFacts, Addresses
<1>3. \A i \in 0..MaxBlocks : c[i] # y
  OBVIOUS
<1>4. b < y
  BY <1>0, <1>2, <1>3, WalkBound
<1> DEFINE p == h[y].prev
<1>5. p \in B /\ p < y /\ h[p].next = y /\ p \in Nat /\ p # NULL
  BY <1>2, <1>4, ListFacts
<1> HIDE DEF p
<1>6. b <= p
  <2> SUFFICES ASSUME p < b PROVE FALSE
    BY <1>2, <1>5
  <2>1. h[p].next <= b
    BY <1>5, Ordered
  <2> QED
    BY <2>1, <1>2, <1>4, <1>5
<1>7. p \notin Bad
  <2> HIDE DEF Bad
  <2> QED
    BY <1>1, <1>2, <1>5
<1>8. PICK i \in 0..MaxBlocks : c[i] = p
  BY <1>5, <1>6, <1>7
<1>9. ~(i + 1 <= MaxBlocks)
  <2> SUFFICES ASSUME i + 1 <= MaxBlocks PROVE FALSE
    OBVIOUS
  <2>1. c[i + 1] = y
    BY <1>0, <1>5, <1>8
  <2>2. i + 1 \in 0..MaxBlocks
    BY WalkBound
  <2> QED
    BY <2>1, <2>2, <1>3
<1>10. i = MaxBlocks /\ MaxBlocks \in Nat
  BY <1>9, WalkBound
<1>11. b + MaxBlocks * (HDR + 1) <= p
  BY <1>00, <1>5, <1>8, <1>10
<1>12. p + HDR + h[p].size <= y /\ h[p].size \in Nat /\ h[p].size > 0
  BY <1>5, ListFacts
<1> DEFINE m == MaxBlocks * (HDR + 1)
<1>13. /\ m \in Nat /\ head + m + HDR + 1 > PageEnd(MaxPages) /\ y < PageEnd(MaxPages)
       /\ PageEnd(MaxPages) \in Nat
  <2>1. (MaxBlocks + 1) * (HDR + 1) = m + (HDR + 1) /\ m \in Nat
    BY <1>10, Constants, Product
  <2> HIDE DEF m
  <2> QED
    BY <2>1, <1>2, WalkBound, Addresses, Constants
<1>14. b + m <= p
  BY <1>11
<1> HIDE DEF m
<1> QED
  BY <1>2, <1>5, <1>12, <1>13, <1>14, Constants

\* A walk goes up.
LEMMA WalkUp ==
  ASSUME NEW h, NEW B, NEW e, List(h, B, e), NEW b \in B,
         NEW i \in 0..MaxBlocks, NEW j \in 0..MaxBlocks, i <= j, Chain(h, b)[j] # NULL
  PROVE  Chain(h, b)[i] \in B /\ Chain(h, b)[j] \in B /\ Chain(h, b)[i] <= Chain(h, b)[j]
<1> DEFINE c == Chain(h, b)
           P(k) == c[k] # NULL => c[i] \in B /\ c[k] \in B /\ c[i] <= c[k]
           Bad == {k \in i..MaxBlocks : ~P(k)}
<1>0. \A k \in 0..MaxBlocks : k + 1 <= MaxBlocks =>
        c[k + 1] = IF c[k] = NULL THEN NULL ELSE h[c[k]].next
  BY ChainSteps
<1>00. \A k \in 0..MaxBlocks : c[k] = NULL \/ c[k] \in B
  BY WalkStays
<1> HIDE DEF c
<1>000. \A x \in B : x \in Nat /\ x # NULL
  BY ListFacts
<1> SUFFICES ASSUME Bad # {} PROVE FALSE
  <2>1. P(j)
    BY WalkBound
  <2> QED
    BY <2>1 DEF c
<1>1. PICK k \in Bad : \A l \in Bad : k <= l
  <2>1. Bad \subseteq Nat
    BY WalkBound
  <2> HIDE DEF Bad
  <2> QED
    BY <2>1, LeastNat
<1>2. k \in Nat /\ i \in Nat /\ i <= k /\ k <= MaxBlocks /\ ~P(k) /\ MaxBlocks \in Nat
  BY WalkBound
<1>3. k # i
  BY <1>2, <1>00, <1>000
<1> DEFINE l == k - 1
<1>4. l \in i..MaxBlocks /\ l \in 0..MaxBlocks /\ l + 1 = k /\ l < k /\ l \in Nat
  BY <1>2, <1>3
<1> HIDE DEF l
<1>5. P(l)
  <2> SUFFICES ASSUME l \in Bad PROVE FALSE
    BY <1>4
  <2> HIDE DEF Bad
  <2> QED
    BY <1>1, <1>2, <1>4
<1>6. c[k] = IF c[l] = NULL THEN NULL ELSE h[c[l]].next
  BY <1>0, <1>2, <1>4
<1>7. c[l] # NULL /\ c[k] # NULL
  BY <1>2, <1>6
<1>8. c[i] \in B /\ c[l] \in B /\ c[i] <= c[l] /\ c[k] = h[c[l]].next
  BY <1>5, <1>6, <1>7
<1>9. c[k] \in B /\ c[l] < c[k]
  BY <1>7, <1>8, ListFacts
<1> QED
  BY <1>2, <1>8, <1>9, <1>000

\* So Blocks are the blocks.
LEMMA BlocksAre ==
  ASSUME NEW h, NEW B, NEW e, List(h, B, e)
  PROVE  (LET c == Chain(h, head) IN {c[i] : i \in 0..MaxBlocks} \ {NULL}) = B
<1>1. head \in B
  BY DEF List, IsList
<1>2. \A i \in 0..MaxBlocks : Chain(h, head)[i] = NULL \/ Chain(h, head)[i] \in B
  BY <1>1, WalkStays
<1>3. ASSUME NEW x \in B PROVE x # NULL /\ \E i \in 0..MaxBlocks : Chain(h, head)[i] = x
  BY <1>1, ListFacts, WalkVisits
<1> QED
  BY <1>2, <1>3

\* What the search finds.
LEMMA FirstFromIs ==
  ASSUME NEW h, NEW B, NEW e, List(h, B, e), NEW b \in B \cup {NULL}, NEW n \in Nat
  PROVE  IsFirst(h, B, b, n, FirstFrom(h, b, n))
<1> DEFINE c == Chain(h, b)
           Fits(x) == h[x].free /\ h[x].size >= n
           fits == {i \in 0..MaxBlocks : c[i] # NULL /\ Fits(c[i])}
           r == FirstFrom(h, b, n)
<1>0. \A x \in B : x # NULL
  BY ListFacts
<1>1. r = IF fits = {} THEN NULL ELSE c[Min(fits)]
  BY DEF FirstFrom
<1>2. CASE b = NULL
  <2> DEFINE Bad == {i \in 0..MaxBlocks : c[i] # NULL}
  <2>0. /\ c[0] = b
        /\ \A i \in 0..MaxBlocks : i + 1 <= MaxBlocks =>
             c[i + 1] = IF c[i] = NULL THEN NULL ELSE h[c[i]].next
    BY ChainSteps
  <2>1. Bad = {}
    <3> HIDE DEF c
    <3> SUFFICES ASSUME Bad # {} PROVE FALSE
      OBVIOUS
    <3>1. PICK i \in Bad : \A j \in Bad : i <= j
      <4>1. Bad \subseteq Nat
        BY WalkBound
      <4> HIDE DEF Bad
      <4> QED
        BY <4>1, LeastNat
    <3>2. i \in Nat /\ i # 0 /\ i <= MaxBlocks /\ c[i] # NULL
      BY <2>0, <1>2, WalkBound
    <3>3. i - 1 \in 0..MaxBlocks /\ (i - 1) + 1 = i /\ i - 1 < i
      BY <3>2, WalkBound
    <3>4. i - 1 \in Bad
      BY <2>0, <3>2, <3>3
    <3> HIDE DEF Bad
    <3> QED
      BY <3>1, <3>2, <3>3, <3>4
  <2>2. fits = {}
    BY <2>1
  <2>3. r = NULL
    BY <1>1, <2>2
  <2> QED
    BY <1>2, <2>3 DEF IsFirst
<1>3. CASE b # NULL /\ fits = {}
  <2>1. r = NULL
    BY <1>1, <1>3
  <2>2. ASSUME NEW x \in B, b <= x PROVE ~Fits(x)
    <3>1. PICK i \in 0..MaxBlocks : c[i] = x
      BY <1>3, <2>2, WalkVisits
    <3>2. x # NULL
      BY <1>0
    <3>3. i \notin fits
      BY <1>3
    <3> HIDE DEF c, Fits
    <3> QED
      BY <3>1, <3>2, <3>3
  <2> QED
    BY <2>1, <2>2 DEF IsFirst
<1>4. CASE b # NULL /\ fits # {}
  <2>0. b \in B
    BY <1>4
  <2> DEFINE m == Min(fits)
  <2>1. m \in fits /\ \A j \in fits : m <= j
    <3>1. fits \subseteq Nat
      BY WalkBound
    <3> HIDE DEF fits
    <3> QED
      BY <1>4, <3>1, MinIsLeast
  <2>2. r = c[m]
    BY <1>1, <1>4
  <2> HIDE DEF m, r
  <2>3. m \in 0..MaxBlocks /\ c[m] # NULL /\ Fits(r)
    BY <2>1, <2>2
  <2>4. 0 \in 0..MaxBlocks /\ 0 <= m /\ c[0] = b
    BY <2>3, WalkBound, ChainSteps
  <2>5. r \in B /\ b <= r
    <3>1. c[0] \in B /\ c[m] \in B /\ c[0] <= c[m]
      BY <2>0, <2>3, <2>4, WalkUp
    <3> QED
      BY <3>1, <2>2, <2>4
  <2>6. ASSUME NEW x \in B, b <= x, x < r PROVE ~Fits(x)
    <3> SUFFICES ASSUME Fits(x) PROVE FALSE
      OBVIOUS
    <3>1. PICK i \in 0..MaxBlocks : c[i] = x
      BY <2>0, <2>6, WalkVisits
    <3>2. x # NULL /\ x \in Nat /\ r \in Nat
      BY <2>5, ListFacts
    <3>3. i \in fits
      BY <3>1, <3>2
    <3>4. m <= i
      BY <2>1, <3>3
    <3>5. c[m] <= c[i]
      BY <2>0, <2>3, <3>1, <3>2, <3>4, WalkUp
    <3> QED
      BY <2>2, <2>6, <3>1, <3>2, <3>5
  <2>7. r # NULL
    BY <2>5, ListFacts
  <2> QED
    BY <2>3, <2>5, <2>6, <2>7 DEF IsFirst, r
<1> QED
  BY <1>2, <1>3, <1>4

\* There is only one such block.
LEMMA FirstIsUnique ==
  ASSUME NEW h, NEW B, NEW e, List(h, B, e), NEW b \in B, NEW n,
         NEW r, NEW s, IsFirst(h, B, b, n, r), IsFirst(h, B, b, n, s)
  PROVE  r = s
<1>0. b # NULL
  BY ListFacts
<1>1. \A x \in B : x \in Nat /\ x # NULL
  BY ListFacts
<1>2. ASSUME NEW y, NEW z, IsFirst(h, B, b, n, y), IsFirst(h, B, b, n, z), y # NULL
      PROVE  z # NULL /\ z <= y
  <2>1. y \in B /\ b <= y /\ h[y].free /\ h[y].size >= n
    BY <1>2 DEF IsFirst
  <2>2. ~(z = NULL \/ y < z)
    BY <1>0, <1>2, <2>1 DEF IsFirst
  <2>3. z \in B
    BY <1>2, <2>2 DEF IsFirst
  <2> QED
    BY <1>1, <2>1, <2>2, <2>3
<1>3. r \in B \cup {NULL} /\ s \in B \cup {NULL}
  BY DEF IsFirst
<1>4. CASE r = NULL
  BY <1>2, <1>4
<1>5. CASE r # NULL
  <2>1. s # NULL /\ s <= r
    BY <1>2, <1>5
  <2>2. r <= s
    BY <1>2, <2>1
  <2> QED
    BY <1>1, <1>3, <1>5, <2>1, <2>2
<1> QED
  BY <1>4, <1>5

------------------------------------------------------------------------------
(***************************************************************************)
(* What the code does to a list: it puts a block behind another one (a     *)
(* split, a new page), changes a block, or takes one out (a merge).        *)
(***************************************************************************)
Inserted(g, B, h, b, new) ==
  /\ h[new].prev = b /\ h[new].next = g[b].next
  /\ h[b].next = new
  /\ \A x \in B : /\ h[x].prev = IF x = g[b].next THEN new ELSE g[x].prev
                  /\ x # b => h[x].next = g[x].next /\ h[x].size = g[x].size
                              /\ h[x].free = g[x].free

Removed(g, B, h, b, old) ==
  \A x \in B : x # old =>
    /\ h[x].next = IF x = b THEN g[old].next ELSE g[x].next
    /\ h[x].prev = IF x = g[old].next THEN b ELSE g[x].prev
    /\ h[x].size = IF x = b THEN g[b].size + HDR + g[old].size ELSE g[x].size
    /\ h[x].free = g[x].free

Changed(g, B, h, b) ==
  /\ \A x \in B : h[x].next = g[x].next /\ h[x].prev = g[x].prev
  /\ \A x \in B : x # b => h[x].size = g[x].size /\ h[x].free = g[x].free
  /\ h[b].size > 0 /\ h[b].size <= g[b].size

LEMMA InsertList ==
  ASSUME NEW g, NEW B, NEW e, List(g, B, e), NEW b \in B, NEW new \in Addr, new \notin B,
         NEW h \in [Addr -> HeaderType], NEW e2 \in Nat, e <= e2, e2 <= PageEnd(MaxPages),
         Inserted(g, B, h, b, new), b < new,
         h[b].size > 0, b + HDR + h[b].size <= new, h[new].size > 0,
         new + HDR + h[new].size <= (IF g[b].next = NULL THEN e2 ELSE g[b].next)
  PROVE  List(h, B \cup {new}, e2)
<1>0. /\ head \in B /\ B \subseteq Addr /\ e \in Nat /\ NULL \notin Addr /\ HDR \in Nat
      /\ new \in Nat /\ h[new].size \in Nat
      /\ \A x \in Addr : x \in Nat
  BY Addresses, Constants DEF List, IsList, HeaderType
<1>1. \A x \in B :
         /\ x \in Nat /\ g[x].size \in Nat /\ g[x].size > 0 /\ g[x].next \in Nat
         /\ g[x].next = NULL => x + HDR + g[x].size <= e
         /\ g[x].next # NULL => g[x].next \in B /\ x + HDR + g[x].size <= g[x].next /\ g[g[x].next].prev = x
         /\ x = head => g[x].prev = NULL
         /\ x # head => g[x].prev \in B /\ g[g[x].prev].next = x
  BY ListFacts
<1>2. /\ h[new].prev = b /\ h[new].next = g[b].next /\ h[b].next = new
      /\ \A x \in B : /\ h[x].prev = IF x = g[b].next THEN new ELSE g[x].prev
                      /\ x # b => h[x].next = g[x].next /\ h[x].size = g[x].size
  BY DEF Inserted
<1>3. new # NULL /\ new # head /\ head # NULL
  BY <1>0
<1>4. h[head].prev = NULL
  <2>1. g[b].next # head
    <3> SUFFICES ASSUME g[b].next = head PROVE FALSE
      OBVIOUS
    <3> QED
      BY <1>0, <1>1
  <2> QED
    BY <1>0, <1>1, <1>2, <2>1
<1>5. ASSUME NEW x \in B, x # b
      PROVE  /\ h[x].size > 0
             /\ h[x].next \in B \cup {new} \cup {NULL}
             /\ x + HDR + h[x].size <= (IF h[x].next = NULL THEN e2 ELSE h[x].next)
             /\ h[x].next # NULL => h[h[x].next].prev = x
  <2>1. h[x].next = g[x].next /\ h[x].size = g[x].size
    BY <1>2, <1>5
  <2>2. h[x].next # NULL => h[h[x].next].prev = x
    <3> SUFFICES ASSUME g[x].next # NULL PROVE h[g[x].next].prev = x
      BY <2>1
    <3>1. g[x].next \in B /\ g[g[x].next].prev = x
      BY <1>1
    <3>2. g[x].next # g[b].next
      BY <1>1, <1>5, <3>1
    <3> QED
      BY <1>2, <3>1, <3>2
  <2> QED
    BY <1>0, <1>1, <2>1, <2>2
<1>6. /\ h[b].next \in B \cup {new} \cup {NULL}
      /\ b + HDR + h[b].size <= (IF h[b].next = NULL THEN e2 ELSE h[b].next)
      /\ h[b].next # NULL => h[h[b].next].prev = b
  BY <1>2, <1>3
<1>7. /\ h[new].next \in B \cup {new} \cup {NULL}
      /\ new + HDR + h[new].size <= (IF h[new].next = NULL THEN e2 ELSE h[new].next)
      /\ h[new].next # NULL => h[h[new].next].prev = new
  BY <1>1, <1>2
<1>8. h[new].prev \in B \cup {new} /\ h[h[new].prev].next = new
  BY <1>2
<1>9. ASSUME NEW x \in B, x # head
      PROVE  h[x].prev \in B \cup {new} /\ h[h[x].prev].next = x
  <2>1. CASE x = g[b].next
    BY <1>2, <2>1
  <2>2. CASE x # g[b].next
    <3>1. h[x].prev = g[x].prev /\ g[x].prev \in B /\ g[g[x].prev].next = x
      BY <1>1, <1>2, <1>9, <2>2
    <3>2. g[x].prev # b
      BY <2>2, <3>1
    <3> QED
      BY <1>2, <3>1, <3>2
  <2> QED
    BY <2>1, <2>2
<1>10. ASSUME NEW x \in B \cup {new}
       PROVE  /\ h[x].size > 0
              /\ h[x].next \in B \cup {new} \cup {NULL}
              /\ x + HDR + h[x].size <= (IF h[x].next = NULL THEN e2 ELSE h[x].next)
              /\ h[x].next # NULL => h[h[x].next].prev = x
              /\ x # head => h[x].prev \in B \cup {new} /\ h[h[x].prev].next = x
  <2>1. CASE x = new
    BY <1>7, <1>8, <2>1
  <2>2. CASE x = b
    BY <1>6, <1>9, <2>2
  <2>3. CASE x \in B /\ x # b
    BY <1>5, <1>9, <2>3
  <2> QED
    BY <2>1, <2>2, <2>3
<1>11. IsList(h, B \cup {new}, e2)
  BY <1>0, <1>4, <1>10 DEF IsList
<1> QED
  BY <1>11 DEF List

LEMMA RemoveList ==
  ASSUME NEW g, NEW B, NEW e, List(g, B, e), NEW b \in B, NEW old, old = g[b].next, old # NULL,
         NEW h \in [Addr -> HeaderType], Removed(g, B, h, b, old)
  PROVE  List(h, B \ {old}, e)
<1>0. /\ head \in B /\ B \subseteq Addr /\ e \in Nat /\ NULL \notin Addr /\ HDR \in Nat
      /\ e <= PageEnd(MaxPages)
      /\ \A x \in Addr : x \in Nat
  BY Addresses, Constants DEF List, IsList
<1>1. \A x \in B :
         /\ x \in Nat /\ g[x].size \in Nat /\ g[x].size > 0 /\ g[x].next \in Nat
         /\ head <= x
         /\ g[x].next = NULL => x + HDR + g[x].size <= e
         /\ g[x].next # NULL => g[x].next \in B /\ x + HDR + g[x].size <= g[x].next /\ g[g[x].next].prev = x
         /\ x = head => g[x].prev = NULL
         /\ x # head => g[x].prev \in B /\ g[g[x].prev].next = x
  BY ListFacts
<1> DEFINE nn == g[old].next
<1>2. \A x \in B : x # old =>
         /\ h[x].next = IF x = b THEN nn ELSE g[x].next
         /\ h[x].prev = IF x = nn THEN b ELSE g[x].prev
         /\ h[x].size = IF x = b THEN g[b].size + HDR + g[old].size ELSE g[x].size
  BY DEF Removed
<1>3. /\ old \in B /\ old # b /\ b < old /\ g[old].prev = b /\ old # head
      /\ nn \in Nat /\ nn # old
      /\ nn # NULL => nn \in B /\ old + HDR + g[old].size <= nn /\ g[nn].prev = old /\ nn # head
      /\ nn = NULL => old + HDR + g[old].size <= e
      /\ b + HDR + g[b].size <= old
  <2>1. old \in B /\ b + HDR + g[b].size <= old /\ g[old].prev = b
    BY <1>1
  <2>2. b < old /\ old # b /\ old # head
    BY <1>0, <1>1, <2>1
  <2>3. nn # NULL => nn \in B /\ old + HDR + g[old].size <= nn /\ g[nn].prev = old
    BY <1>1, <2>1
  <2>4. nn # old /\ (nn # NULL => nn # head)
    BY <1>0, <1>1, <2>1, <2>2, <2>3
  <2> QED
    BY <1>1, <2>1, <2>2, <2>3, <2>4
<1> HIDE DEF nn
<1>4. h[head].prev = NULL
  BY <1>0, <1>1, <1>2, <1>3
<1>5. ASSUME NEW x \in B \ {old}, x # b
      PROVE  /\ h[x].size > 0
             /\ h[x].next \in (B \ {old}) \cup {NULL}
             /\ x + HDR + h[x].size <= (IF h[x].next = NULL THEN e ELSE h[x].next)
             /\ h[x].next # NULL => h[h[x].next].prev = x
  <2>1. h[x].next = g[x].next /\ h[x].size = g[x].size
    BY <1>2, <1>5
  <2>2. g[x].next # old
    BY <1>1, <1>3, <1>5
  <2>3. ASSUME g[x].next # NULL PROVE h[g[x].next].prev = x
    <3>1. g[x].next \in B /\ g[g[x].next].prev = x
      BY <1>1, <2>3
    <3>2. g[x].next # nn
      BY <1>3, <1>5, <2>3, <3>1
    <3> QED
      BY <1>2, <2>2, <3>1, <3>2
  <2>4. g[x].next \in (B \ {old}) \cup {NULL} /\ g[x].size > 0
    BY <1>1, <1>5, <2>2
  <2>5. x + HDR + g[x].size <= (IF g[x].next = NULL THEN e ELSE g[x].next)
    BY <1>1, <1>5
  <2> QED
    BY <2>1, <2>3, <2>4, <2>5
<1>6. /\ h[b].size > 0
      /\ h[b].next \in (B \ {old}) \cup {NULL}
      /\ b + HDR + h[b].size <= (IF h[b].next = NULL THEN e ELSE h[b].next)
      /\ h[b].next # NULL => h[h[b].next].prev = b
  <2>1. h[b].next = nn /\ h[b].size = g[b].size + HDR + g[old].size
    BY <1>2, <1>3
  <2>2. g[b].size \in Nat /\ g[b].size > 0 /\ g[old].size \in Nat /\ b \in Nat
    BY <1>1, <1>3
  <2>3. nn # NULL => h[nn].prev = b
    BY <1>2, <1>3
  <2>4. b + HDR + h[b].size <= (IF nn = NULL THEN e ELSE nn)
    BY <1>0, <1>1, <1>3, <2>1, <2>2
  <2>5. nn \in (B \ {old}) \cup {NULL}
    BY <1>3
  <2>6. h[b].size > 0
    BY <1>0, <2>1, <2>2
  <2> QED
    BY <2>1, <2>3, <2>4, <2>5, <2>6
<1>7. ASSUME NEW x \in B \ {old}, x # head
      PROVE  h[x].prev \in B \ {old} /\ h[h[x].prev].next = x
  <2>1. CASE x = nn
    BY <1>2, <1>3, <2>1
  <2>2. CASE x # nn
    <3>1. h[x].prev = g[x].prev /\ g[x].prev \in B /\ g[g[x].prev].next = x
      BY <1>1, <1>2, <1>7, <2>2
    <3>2. g[x].prev # old /\ g[x].prev # b
      BY <1>7, <2>2, <3>1 DEF nn
    <3> QED
      BY <1>2, <3>1, <3>2
  <2> QED
    BY <2>1, <2>2
<1>8. ASSUME NEW x \in B \ {old}
      PROVE  /\ h[x].size > 0
             /\ h[x].next \in (B \ {old}) \cup {NULL}
             /\ x + HDR + h[x].size <= (IF h[x].next = NULL THEN e ELSE h[x].next)
             /\ h[x].next # NULL => h[h[x].next].prev = x
             /\ x # head => h[x].prev \in B \ {old} /\ h[h[x].prev].next = x
  <2>1. CASE x = b
    BY <1>6, <1>7, <2>1
  <2>2. CASE x # b
    BY <1>5, <1>7, <2>2
  <2> QED
    BY <2>1, <2>2
<1>9. IsList(h, B \ {old}, e)
  BY <1>0, <1>3, <1>4, <1>8 DEF IsList
<1> QED
  BY <1>0, <1>9 DEF List

LEMMA ChangeList ==
  ASSUME NEW g, NEW B, NEW e, List(g, B, e), NEW b \in B,
         NEW h \in [Addr -> HeaderType], Changed(g, B, h, b)
  PROVE  List(h, B, e)
<1>0. /\ head \in B /\ B \subseteq Addr /\ e \in Nat /\ e <= PageEnd(MaxPages) /\ HDR \in Nat
  BY Constants DEF List, IsList
<1>1. \A x \in B :
         /\ x \in Nat /\ g[x].size \in Nat /\ g[x].size > 0 /\ g[x].next \in Nat
         /\ g[x].next = NULL => x + HDR + g[x].size <= e
         /\ g[x].next # NULL => g[x].next \in B /\ x + HDR + g[x].size <= g[x].next /\ g[g[x].next].prev = x
         /\ x = head => g[x].prev = NULL
         /\ x # head => g[x].prev \in B /\ g[g[x].prev].next = x
  BY ListFacts
<1>2. \A x \in B : h[x].next = g[x].next /\ h[x].prev = g[x].prev
  BY DEF Changed
<1>3. \A x \in B : h[x].size > 0 /\ h[x].size <= g[x].size /\ h[x].size \in Nat
  BY <1>0, <1>1 DEF Changed, HeaderType
<1>4. ASSUME NEW x \in B
      PROVE  /\ h[x].size > 0
             /\ h[x].next \in B \cup {NULL}
             /\ x + HDR + h[x].size <= (IF h[x].next = NULL THEN e ELSE h[x].next)
             /\ h[x].next # NULL => h[h[x].next].prev = x
             /\ x # head => h[x].prev \in B /\ h[h[x].prev].next = x
  BY <1>0, <1>1, <1>2, <1>3
<1>5. IsList(h, B, e)
  BY <1>0, <1>1, <1>2, <1>4 DEF IsList
<1> QED
  BY <1>0, <1>5 DEF List

------------------------------------------------------------------------------
(***************************************************************************)
(* The code that does it.                                                  *)
(***************************************************************************)
Headers == [Addr -> HeaderType]

WithSize(g, a, v) == [g EXCEPT ![a].size = v]
WithPrev(g, a, v) == [g EXCEPT ![a].prev = v]
WithNext(g, a, v) == [g EXCEPT ![a].next = v]
AsUsed(g, a) == [g EXCEPT ![a].free = FALSE]
AsFree(g, a) == [g EXCEPT ![a].free = TRUE]
WithHeader(g, a, v) == [g EXCEPT ![a] = v]

LEMMA SetSize ==
  ASSUME NEW g \in Headers, NEW a \in Addr, NEW v \in 0..PageEnd(MaxPages)
  PROVE  /\ WithSize(g, a, v) \in Headers
         /\ \A x \in Addr : /\ WithSize(g, a, v)[x].size = IF x = a THEN v ELSE g[x].size
                            /\ WithSize(g, a, v)[x].free = g[x].free /\ WithSize(g, a, v)[x].prev = g[x].prev
                            /\ WithSize(g, a, v)[x].next = g[x].next
BY DEF Headers, HeaderType, WithSize

LEMMA SetPrev ==
  ASSUME NEW g \in Headers, NEW a \in Addr, NEW v \in Addr \cup {NULL}
  PROVE  /\ WithPrev(g, a, v) \in Headers
         /\ \A x \in Addr : /\ WithPrev(g, a, v)[x].prev = IF x = a THEN v ELSE g[x].prev
                            /\ WithPrev(g, a, v)[x].free = g[x].free /\ WithPrev(g, a, v)[x].size = g[x].size
                            /\ WithPrev(g, a, v)[x].next = g[x].next
BY DEF Headers, HeaderType, WithPrev

LEMMA SetNext ==
  ASSUME NEW g \in Headers, NEW a \in Addr, NEW v \in Addr \cup {NULL}
  PROVE  /\ WithNext(g, a, v) \in Headers
         /\ \A x \in Addr : /\ WithNext(g, a, v)[x].next = IF x = a THEN v ELSE g[x].next
                            /\ WithNext(g, a, v)[x].free = g[x].free /\ WithNext(g, a, v)[x].size = g[x].size
                            /\ WithNext(g, a, v)[x].prev = g[x].prev
BY DEF Headers, HeaderType, WithNext

LEMMA SetUsed ==
  ASSUME NEW g \in Headers, NEW a \in Addr
  PROVE  /\ AsUsed(g, a) \in Headers
         /\ AsUsed(g, a)[a].free = FALSE
         /\ \A x \in Addr : /\ x # a => AsUsed(g, a)[x].free = g[x].free
                            /\ AsUsed(g, a)[x].next = g[x].next
                            /\ AsUsed(g, a)[x].size = g[x].size
                            /\ AsUsed(g, a)[x].prev = g[x].prev
BY DEF Headers, HeaderType, AsUsed

LEMMA SetFree ==
  ASSUME NEW g \in Headers, NEW a \in Addr
  PROVE  /\ AsFree(g, a) \in Headers
         /\ AsFree(g, a)[a].free = TRUE
         /\ \A x \in Addr : /\ x # a => AsFree(g, a)[x].free = g[x].free
                            /\ AsFree(g, a)[x].next = g[x].next
                            /\ AsFree(g, a)[x].size = g[x].size
                            /\ AsFree(g, a)[x].prev = g[x].prev
BY DEF Headers, HeaderType, AsFree

LEMMA SetHeader ==
  ASSUME NEW g \in Headers, NEW a \in Addr, NEW v \in HeaderType
  PROVE  /\ WithHeader(g, a, v) \in Headers
         /\ WithHeader(g, a, v)[a] = v
         /\ \A x \in Addr : x # a => WithHeader(g, a, v)[x] = g[x]
BY DEF Headers, WithHeader

LEMMA MergedIs ==
  ASSUME ~Preemptible, NEW B, NEW e, List(hdr, B, e), NEW b \in B,
         NEW old, old = hdr[b].next, old # NULL, NEW h, h = Merged(b, old)
  PROVE  h \in Headers /\ Removed(hdr, B, h, b, old)
<1> DEFINE sum == hdr[b].size + HDR + hdr[old].size
           g1 == WithSize(hdr, b, sum)
           nn == hdr[old].next
           g2 == WithNext(g1, b, nn)
           g3 == WithHeader(g2, old, NoHeader)
           g4 == WithPrev(g3, nn, b)
<1>1. /\ hdr \in Headers /\ b \in Addr /\ old \in B /\ old \in Addr /\ B \subseteq Addr
      /\ nn \in Addr \cup {NULL} /\ b # old /\ nn # b /\ nn # old
      /\ sum \in 0..PageEnd(MaxPages)
  <2>0. hdr \in Headers /\ B \subseteq Addr
    BY DEF List, IsList, Headers
  <2>1. /\ hdr \in Headers /\ b \in Addr /\ old \in B /\ B \subseteq Addr
        /\ b + HDR + hdr[b].size <= old /\ b < old
    BY <2>0, ListFacts
  <2>2. old \in Addr /\ nn \in Nat /\ (nn # NULL => nn \in B /\ old < nn /\ nn \in Addr)
    BY <2>1, ListFacts
  <2>3. old + HDR + hdr[old].size <= e /\ e <= PageEnd(MaxPages) /\ e \in Nat
    BY <2>1, InHeap DEF List
  <2>4. b \in Nat /\ old \in Nat /\ hdr[b].size \in Nat /\ hdr[old].size \in Nat
    BY <2>1, ListFacts
  <2>5. sum \in 0..PageEnd(MaxPages)
    BY <2>1, <2>3, <2>4, Constants, Addresses
  <2>6. b # old /\ nn # b /\ nn # old
    BY <2>1, <2>2, <2>4, Addresses
  <2> QED
    BY <2>1, <2>2, <2>5, <2>6
<1>2. h = IF nn = NULL THEN g3 ELSE g4
  <2>1. g2 = [hdr EXCEPT ![b].size = @ + HDR + hdr[old].size, ![b].next = hdr[old].next]
    BY <1>1 DEF Headers, HeaderType, WithSize, WithNext
  <2>2. Drop(g2, old) = g3
    BY DEF Drop, WithHeader
  <2>3. g3[b].next = nn
    BY <1>1 DEF Headers, HeaderType, WithSize, WithNext, WithHeader
  <2> DEFINE m == Drop([hdr EXCEPT ![b].size = @ + HDR + hdr[old].size, ![b].next = hdr[old].next], old)
  <2>4. h = IF m[b].next = NULL THEN m ELSE [m EXCEPT ![m[b].next].prev = b]
    BY Zenon DEF Merged
  <2>5. m = g3
    <3> HIDE DEF g2, g3
    <3> QED
      BY <2>1, <2>2, Zenon
  <2> HIDE DEF m, g3, nn
  <2> QED
    BY <2>3, <2>4, <2>5, Zenon DEF WithPrev
<1>3. /\ g1 \in Headers
      /\ \A x \in Addr : /\ g1[x].size = IF x = b THEN sum ELSE hdr[x].size
                         /\ g1[x].free = hdr[x].free /\ g1[x].prev = hdr[x].prev
                         /\ g1[x].next = hdr[x].next
  <2> HIDE DEF sum
  <2> QED
    BY <1>1, SetSize
<1> HIDE DEF g1, nn, sum
<1>4. /\ g2 \in Headers
      /\ \A x \in Addr : /\ g2[x].next = IF x = b THEN nn ELSE g1[x].next
                         /\ g2[x].free = g1[x].free /\ g2[x].size = g1[x].size
                         /\ g2[x].prev = g1[x].prev
  BY <1>1, <1>3, SetNext
<1> HIDE DEF g2
<1>5. NoHeader \in HeaderType
  BY Addresses DEF NoHeader, HeaderType
<1>6. g3 \in Headers /\ \A x \in Addr : x # old => g3[x] = g2[x]
  BY <1>1, <1>4, <1>5, SetHeader
<1> HIDE DEF g3
<1>7. CASE nn = NULL
  <2>1. \A x \in B : x # nn
    BY <1>1, <1>7, Addresses
  <2> QED
    BY <1>1, <1>2, <1>3, <1>4, <1>6, <1>7, <2>1 DEF Removed, nn, sum
<1>8. CASE nn # NULL
  <2>1. /\ g4 \in Headers
        /\ \A x \in Addr : /\ g4[x].prev = IF x = nn THEN b ELSE g3[x].prev
                           /\ g4[x].free = g3[x].free /\ g4[x].size = g3[x].size
                           /\ g4[x].next = g3[x].next
    BY <1>1, <1>6, <1>8, SetPrev
  <2> HIDE DEF g4
  <2> QED
    BY <1>1, <1>2, <1>3, <1>4, <1>6, <1>8, <2>1 DEF Removed, nn, sum
<1> QED
  BY <1>7, <1>8

\* What Carve makes of block b; new is the rest that it splits off.
Carved(B, e, h, b, n, new) ==
  /\ h \in Headers /\ h[b].size = n /\ ~h[b].free
  /\ ~Splits(b, n) => Changed(hdr, B, h, b) /\ List(h, B, e)
  /\ Splits(b, n) => /\ Inserted(hdr, B, h, b, new) /\ List(h, B \cup {new}, e)
                     /\ h[new].free /\ new \notin B /\ b < new

LEMMA CarveIs ==
  ASSUME NEW B, NEW e, List(hdr, B, e), NEW b \in B, NEW n \in Nat, n > 0,
         hdr[b].size >= n, NEW h, h = Carve(b, n), NEW new, new = b + HDR + n
  PROVE  Carved(B, e, h, b, n, new)
<1>1. /\ hdr \in Headers /\ b \in Addr /\ B \subseteq Addr /\ FALSE \in BOOLEAN
      /\ n \in 0..PageEnd(MaxPages) /\ b \in Nat /\ hdr[b].size \in Nat /\ HDR \in Nat
  <2>1. hdr \in Headers /\ B \subseteq Addr
    BY DEF List, IsList, Headers
  <2>2. b \in Addr /\ b \in Nat /\ hdr[b].size \in Nat /\ hdr[b].size <= PageEnd(MaxPages)
    BY ListFacts
  <2> QED
    BY <2>1, <2>2, Addresses, Constants
<1> DEFINE s == IF Splits(b, n) THEN Split(b, n) ELSE hdr
           s1 == WithSize(s, b, n)
           s2 == AsUsed(s1, b)
\* The last two assignments, to a block of any headers.
<1>2. ASSUME s \in Headers
      PROVE  /\ h \in Headers /\ h[b].size = n /\ h[b].free = FALSE
             /\ \A x \in Addr : /\ h[x].prev = s[x].prev /\ h[x].next = s[x].next
                                /\ x # b => h[x].size = s[x].size /\ h[x].free = s[x].free
  <2>1. h = [s EXCEPT ![b].size = n, ![b].free = FALSE]
    BY Zenon DEF Carve
  <2> HIDE DEF s
  <2>2. h = s2
    BY <1>1, <1>2, <2>1 DEF Headers, HeaderType, WithSize, AsUsed
  <2>3. /\ s1 \in Headers
        /\ \A x \in Addr : /\ s1[x].size = IF x = b THEN n ELSE s[x].size
                           /\ s1[x].free = s[x].free /\ s1[x].prev = s[x].prev
                           /\ s1[x].next = s[x].next
    BY <1>1, <1>2, SetSize
  <2> HIDE DEF s1
  <2>4. /\ s2 \in Headers
        /\ s2[b].free = FALSE
        /\ \A x \in Addr : /\ x # b => s2[x].free = s1[x].free
                           /\ s2[x].next = s1[x].next /\ s2[x].size = s1[x].size
                           /\ s2[x].prev = s1[x].prev
    BY <1>1, <2>3, SetUsed
  <2> HIDE DEF s2
  <2> QED
    BY <1>1, <2>2, <2>3, <2>4
<1>3. CASE ~Splits(b, n)
  <2>1. s = hdr
    BY <1>3
  <2> HIDE DEF s
  <2>2. Changed(hdr, B, h, b) /\ h \in Headers /\ h[b].size = n /\ h[b].free = FALSE
    BY <1>1, <1>2, <2>1 DEF Changed
  <2>3. List(h, B, e)
    BY <2>2, ChangeList DEF Headers
  <2> QED
    BY <1>3, <2>2, <2>3 DEF Carved
<1>4. CASE Splits(b, n)
  <2> DEFINE nn == hdr[b].next
             rest == Header(hdr[b].size - n - HDR, b, nn)
             r1 == WithHeader(hdr, new, rest)
             r2 == WithNext(r1, b, new)
             r3 == WithPrev(r2, nn, new)
  <2>1. hdr[b].size >= n + HDR + 1
    BY <1>4 DEF Splits
  <2>2. b + HDR + hdr[b].size <= e /\ e <= PageEnd(MaxPages) /\ e \in Nat
    BY InHeap DEF List
  <2>3. /\ nn \in Addr \cup {NULL} /\ nn \in Nat /\ nn # b
        /\ nn # NULL => b + HDR + hdr[b].size <= nn /\ nn \in B /\ nn \in Addr
    <3>1. nn # NULL => b + HDR + hdr[b].size <= nn /\ b < nn /\ nn \in B
      BY ListFacts
    <3>2. b # NULL /\ nn \in Nat
      BY ListFacts
    <3> QED
      BY <1>1, <3>1, <3>2
  <2>4. new \in Nat /\ b < new /\ new < PageEnd(MaxPages) /\ (nn # NULL => new < nn)
    BY <1>1, <2>1, <2>2, <2>3, Addresses
  <2>5. new \in Addr
    <3>1. head <= b
      BY ListFacts
    <3> QED
      BY <1>1, <2>4, <3>1, Addresses
  <2>6. new \notin B
    <3> SUFFICES ASSUME new \in B PROVE FALSE
      OBVIOUS
    <3>1. nn # NULL /\ nn <= new
      BY <2>4, Ordered
    <3> QED
      BY <2>3, <2>4, <3>1
  <2>7. /\ rest \in HeaderType /\ rest.size = hdr[b].size - n - HDR /\ rest.free = TRUE
        /\ rest.prev = b /\ rest.next = nn
    <3>1. hdr[b].size - n - HDR \in 0..PageEnd(MaxPages)
      BY <1>1, <2>1, <2>2, Addresses
    <3> HIDE DEF nn
    <3> QED
      BY <1>1, <2>3, <3>1 DEF Header, HeaderType
  <2>8. s = IF nn = NULL THEN r2 ELSE r3
    <3>1. r2 = [hdr EXCEPT ![new] = rest, ![b].next = new]
      BY <1>1, <2>5 DEF Headers, HeaderType, WithHeader, WithNext
    <3> HIDE DEF r2
    <3> QED
      BY <1>4, <3>1, Zenon DEF Split, WithPrev
  <2> HIDE DEF nn, rest, s
  <2>9. r1 \in Headers /\ r1[new] = rest /\ \A x \in Addr : x # new => r1[x] = hdr[x]
    BY <1>1, <2>5, <2>7, SetHeader
  <2> HIDE DEF r1
  <2>10. /\ r2 \in Headers
         /\ \A x \in Addr : /\ r2[x].next = IF x = b THEN new ELSE r1[x].next
                            /\ r2[x].free = r1[x].free /\ r2[x].size = r1[x].size
                            /\ r2[x].prev = r1[x].prev
    BY <1>1, <2>5, <2>9, SetNext
  <2> HIDE DEF r2
  <2>11. /\ s \in Headers
         /\ \A x \in Addr : /\ s[x].prev = IF x = nn THEN new ELSE r2[x].prev
                            /\ s[x].free = r2[x].free /\ s[x].size = r2[x].size
                            /\ s[x].next = r2[x].next
    <3>1. CASE nn = NULL
      <4>1. \A x \in Addr : x # nn
        BY <3>1, Addresses
      <4> QED
        BY <2>8, <2>10, <3>1, <4>1
    <3>2. CASE nn # NULL
      <4>1. nn \in Addr /\ new \in Addr \cup {NULL} /\ s = WithPrev(r2, nn, new)
        BY <2>3, <2>5, <2>8, <3>2
      <4> HIDE DEF r3
      <4>2. ASSUME NEW v \in Addr \cup {NULL}
            PROVE  /\ WithPrev(r2, nn, v) \in Headers
                   /\ \A x \in Addr : /\ WithPrev(r2, nn, v)[x].prev = IF x = nn THEN v ELSE r2[x].prev
                                      /\ WithPrev(r2, nn, v)[x].free = r2[x].free
                                      /\ WithPrev(r2, nn, v)[x].size = r2[x].size
                                      /\ WithPrev(r2, nn, v)[x].next = r2[x].next
        <5>1. r2 \in Headers /\ nn \in Addr
          BY <2>10, <4>1
        <5> QED
          BY <5>1, SetPrev
      <4> QED
        BY <4>1, <4>2
    <3> QED
      BY <3>1, <3>2
  <2>12. /\ h \in Headers /\ h[b].size = n /\ h[b].free = FALSE
         /\ \A x \in Addr : /\ h[x].prev = s[x].prev /\ h[x].next = s[x].next
                            /\ x # b => h[x].size = s[x].size /\ h[x].free = s[x].free
    BY <1>2, <2>11
  <2>13. new # b /\ new # nn
    BY <1>1, <2>3, <2>4, <2>5, Addresses
  <2>14. /\ h[new].prev = b /\ h[new].next = nn /\ h[new].free = TRUE
         /\ h[new].size = hdr[b].size - n - HDR
    BY <2>5, <2>7, <2>9, <2>10, <2>11, <2>12, <2>13
  <2>15. ASSUME NEW x \in B
         PROVE  /\ h[x].prev = IF x = nn THEN new ELSE hdr[x].prev
                /\ x # b => h[x].next = hdr[x].next /\ h[x].size = hdr[x].size
                            /\ h[x].free = hdr[x].free
    BY <1>1, <2>6, <2>9, <2>10, <2>11, <2>12
  <2>16. h[b].next = new
    BY <1>1, <2>10, <2>11, <2>12
  <2>17. Inserted(hdr, B, h, b, new)
    BY <2>14, <2>15, <2>16 DEF Inserted, nn
  <2>18. new + HDR + h[new].size <= (IF hdr[b].next = NULL THEN e ELSE hdr[b].next)
    BY <1>1, <2>1, <2>2, <2>3, <2>14 DEF nn
  <2>19. h[b].size > 0 /\ b + HDR + h[b].size <= new /\ h[new].size > 0
    BY <1>1, <2>1, <2>4, <2>12, <2>14
  <2>20. List(h, B \cup {new}, e)
    BY <2>2, <2>4, <2>5, <2>6, <2>12, <2>17, <2>18, <2>19, InsertList DEF Headers
  <2> QED
    BY <1>4, <2>4, <2>6, <2>12, <2>14, <2>17, <2>20 DEF Carved
<1> QED
  BY <1>3, <1>4

LEMMA SeamsGrow ==
  ASSUME kheap_end \in Seams, kheap_end # PageEnd(MaxPages)
  PROVE  /\ kheap_end \in Nat /\ kheap_end + PAGE_SIZE \in Seams
         /\ kheap_end + PAGE_SIZE <= PageEnd(MaxPages)
         /\ kheap_end < PageEnd(MaxPages) /\ head <= kheap_end
<1>1. PICK n \in InitialPages..MaxPages : kheap_end = PageEnd(n)
  BY DEF Seams
<1>2. n \in Nat /\ n # MaxPages /\ n < MaxPages /\ InitialPages <= n
  BY <1>1, Constants
<1>3. PageEnd(n) \in Nat /\ PageEnd(n) + PAGE_SIZE = PageEnd(n + 1)
  BY <1>2, PageEnds
<1>4. n + 1 \in InitialPages..MaxPages
  BY <1>2, Constants
<1>5. kheap_end + PAGE_SIZE \in Seams
  BY <1>1, <1>3, <1>4 DEF Seams
<1>6. PageEnd(InitialPages) <= PageEnd(n)
  BY <1>2, PageEnds, Constants
<1>7. kheap_end + PAGE_SIZE <= PageEnd(MaxPages)
  BY <1>5, Addresses
<1> QED
  BY <1>1, <1>3, <1>5, <1>6, <1>7, Addresses, Constants

LEMMA LinkTailIs ==
  ASSUME List(hdr, Blocks, kheap_end), kheap_end \in Seams, kheap_end # PageEnd(MaxPages),
         NEW h, h = LinkTail(kheap_end)
  PROVE  /\ Tail \in Blocks /\ hdr[Tail].next = NULL
         /\ h \in Headers /\ Inserted(hdr, Blocks, h, Tail, kheap_end)
         /\ List(h, Blocks \cup {kheap_end}, kheap_end + PAGE_SIZE)
         /\ h[Tail].free = hdr[Tail].free /\ h[Tail].size = hdr[Tail].size
         /\ h[kheap_end].free = TRUE /\ h[kheap_end].size = PAGE_SIZE - HDR
         /\ kheap_end \notin Blocks /\ \A x \in Blocks : x < kheap_end
<1> DEFINE new == kheap_end
           last == Tail
           rest == Header(PAGE_SIZE - HDR, last, NULL)
           r1 == WithHeader(hdr, new, rest)
           r2 == WithNext(r1, last, new)
<1>1. /\ hdr \in Headers /\ Blocks \subseteq Addr /\ head \in Blocks
  BY DEF List, IsList, Headers
<1>2. last \in Blocks /\ hdr[last].next = NULL
  <2>1. \E y \in Blocks : hdr[y].next = NULL
    BY <1>1, LastBlock
  <2> QED
    BY <2>1, Zenon DEF Tail
<1>3. /\ new \in Nat /\ new + PAGE_SIZE <= PageEnd(MaxPages) /\ new \in Addr
  BY SeamsGrow, Addresses
<1>4. \A x \in Blocks : x < new /\ x \in Nat /\ x \in Addr
  <2> TAKE x \in Blocks
  <2>1. x + HDR + hdr[x].size <= new /\ x \in Nat /\ x \in Addr /\ hdr[x].size \in Nat
    BY InHeap, ListFacts
  <2> QED
    BY <2>1, <1>3, Constants
<1>5. new \notin Blocks /\ new # last /\ last \in Addr /\ last < new /\ last \in Nat
  BY <1>2, <1>3, <1>4
<1>6. PAGE_SIZE - HDR \in 0..PageEnd(MaxPages) /\ PAGE_SIZE - HDR > 0
  BY <1>3, Constants, Addresses
<1> HIDE DEF last
<1>7. /\ rest \in HeaderType /\ rest.size = PAGE_SIZE - HDR /\ rest.free = TRUE
      /\ rest.prev = last /\ rest.next = NULL
  BY <1>5, <1>6 DEF Header, HeaderType
<1>8. h = r2
  <2>1. h = [hdr EXCEPT ![new] = rest, ![last].next = new]
    BY DEF LinkTail, last
  <2> HIDE DEF rest, new
  <2> QED
    BY <1>1, <1>3, <1>5, <1>7, <2>1 DEF Headers, HeaderType, WithHeader, WithNext
<1> HIDE DEF rest
<1>9. r1 \in Headers /\ r1[new] = rest /\ \A x \in Addr : x # new => r1[x] = hdr[x]
  BY <1>1, <1>3, <1>7, SetHeader
<1> HIDE DEF r1
<1>10. /\ r2 \in Headers
       /\ \A x \in Addr : /\ r2[x].next = IF x = last THEN new ELSE r1[x].next
                          /\ r2[x].free = r1[x].free /\ r2[x].size = r1[x].size
                          /\ r2[x].prev = r1[x].prev
  BY <1>3, <1>5, <1>9, SetNext
<1> HIDE DEF r2
<1>11. /\ h[new].prev = last /\ h[new].next = NULL /\ h[new].free = TRUE
       /\ h[new].size = PAGE_SIZE - HDR /\ h[last].next = new
  BY <1>3, <1>5, <1>7, <1>8, <1>9, <1>10
<1>12. \A x \in Blocks : /\ h[x].prev = hdr[x].prev /\ h[x].free = hdr[x].free
                         /\ h[x].size = hdr[x].size
                         /\ x # last => h[x].next = hdr[x].next
  BY <1>4, <1>5, <1>8, <1>9, <1>10
<1>13. \A x \in Blocks : x # NULL
  BY <1>4, Addresses
<1>14. Inserted(hdr, Blocks, h, last, new)
  BY <1>2, <1>11, <1>12, <1>13 DEF Inserted
<1>15. last + HDR + hdr[last].size <= new /\ hdr[last].size > 0
  BY <1>2, ListFacts
<1>16. List(h, Blocks \cup {new}, new + PAGE_SIZE)
  <2>1. h \in [Addr -> HeaderType] /\ new + PAGE_SIZE \in Nat /\ new <= new + PAGE_SIZE
    BY <1>3, <1>8, <1>10, Constants DEF Headers
  <2>2. new + HDR + h[new].size <= new + PAGE_SIZE /\ h[new].size > 0
    BY <1>3, <1>6, <1>11, Constants
  <2>3. h[last].size > 0 /\ last + HDR + h[last].size <= new
    BY <1>2, <1>12, <1>15
  <2> QED
    BY <1>2, <1>3, <1>5, <1>14, <2>1, <2>2, <2>3, InsertList
<1> QED
  BY <1>2, <1>4, <1>5, <1>8, <1>10, <1>11, <1>12, <1>14, <1>16 DEF last

------------------------------------------------------------------------------
(***************************************************************************)
(* What the rest of the invariant needs to know of such changes.           *)
(***************************************************************************)
LEMMA LeadsIsFirst ==
  ASSUME NEW h, NEW B, NEW e, List(h, B, e), NEW f
  PROVE  IsFirst(h, B, head, 0, f) <=> Leads(h, B, f)
<1>1. \A x \in B : x \in Nat /\ x # NULL /\ head <= x /\ h[x].size \in Nat
  BY ListFacts
<1>2. head \in B /\ head # NULL
  BY <1>1 DEF List, IsList
<1>3. \A x \in B : h[x].size >= 0
  BY <1>1
<1>4. ASSUME IsFirst(h, B, head, 0, f) PROVE Leads(h, B, f)
  <2>1. f \in B \cup {NULL} /\ (f # NULL => h[f].free)
    BY <1>4 DEF IsFirst
  <2>2. ASSUME NEW x \in B, h[x].free PROVE f # NULL /\ f <= x
    <3>1. ~(f = NULL \/ x < f)
      BY <1>1, <1>2, <1>3, <1>4, <2>2 DEF IsFirst
    <3> QED
      BY <1>1, <2>1, <3>1
  <2> QED
    BY <2>1, <2>2 DEF Leads
<1>5. ASSUME Leads(h, B, f) PROVE IsFirst(h, B, head, 0, f)
  <2>1. f \in B \cup {NULL} /\ (f # NULL => h[f].free /\ head <= f /\ h[f].size >= 0)
    BY <1>1, <1>3, <1>5 DEF Leads
  <2>2. ASSUME NEW x \in B, f = NULL \/ x < f PROVE ~h[x].free
    <3> SUFFICES ASSUME h[x].free PROVE FALSE
      OBVIOUS
    <3>1. f # NULL /\ f <= x
      BY <1>5 DEF Leads
    <3> QED
      BY <1>1, <2>1, <2>2, <3>1
  <2> QED
    BY <2>1, <2>2 DEF IsFirst
<1> QED
  BY <1>4, <1>5

LEMMA HoldsSame ==
  ASSUME NEW g, NEW B, NEW h, NEW C, NEW l, Holds(g, B, l),
         \A x \in B : ~g[x].free => x \in C /\ ~h[x].free /\ h[x].size = g[x].size,
         \A x \in C : ~h[x].free => x \in B /\ ~g[x].free
  PROVE  Holds(h, C, l)
<1>1. {c \in B : ~g[c].free} = {c \in C : ~h[c].free}
  OBVIOUS
<1>2. \A b \in {c \in B : ~g[c].free} : h[b].size = g[b].size
  OBVIOUS
<1> QED
  BY <1>1, <1>2 DEF Holds

LEMMA HoldsMore ==
  ASSUME NEW g, NEW B, NEW h, NEW C, NEW l, Holds(g, B, l), NEW b \in C, NEW n,
         ~h[b].free, h[b].size = n,
         \A x \in B : ~g[x].free => x \in C /\ x # b /\ ~h[x].free /\ h[x].size = g[x].size,
         \A x \in C : ~h[x].free /\ x # b => x \in B /\ ~g[x].free
  PROVE  Holds(h, C, l \cup {[addr |-> b + HDR, size |-> n]})
<1>1. {c \in C : ~h[c].free} = {c \in B : ~g[c].free} \cup {b}
  OBVIOUS
<1>2. \A x \in {c \in B : ~g[c].free} : h[x].size = g[x].size
  OBVIOUS
<1> QED
  BY <1>1, <1>2 DEF Holds

LEMMA HoldsLess ==
  ASSUME NEW g, NEW B, NEW e, List(g, B, e), NEW h, NEW l, Holds(g, B, l), NEW b \in B,
         ~g[b].free, h[b].free,
         \A x \in B : h[x].size = g[x].size /\ (x # b => (h[x].free <=> g[x].free))
  PROVE  Holds(h, B, l \ {[addr |-> b + HDR, size |-> g[b].size]})
<1>1. {c \in B : ~h[c].free} = {c \in B : ~g[c].free} \ {b}
  OBVIOUS
<1>2. \A x \in B : x \in Nat
  BY ListFacts
<1>3. \A x \in B : x # b => x + HDR # b + HDR
  BY <1>2, Constants
<1> DEFINE R(x) == [addr |-> x + HDR, size |-> g[x].size]
<1>4. \A x \in B : x # b => R(x) # R(b)
  <2> TAKE x \in B
  <2>1. R(x).addr = x + HDR /\ R(b).addr = b + HDR
    OBVIOUS
  <2> QED
    BY <1>3, <2>1
<1>5. \A x \in B : [addr |-> x + HDR, size |-> h[x].size] = R(x)
  OBVIOUS
<1>6. l = {R(x) : x \in {c \in B : ~g[c].free}}
  BY DEF Holds
<1>7. {[addr |-> x + HDR, size |-> h[x].size] : x \in {c \in B : ~h[c].free}} = l \ {R(b)}
  <2> HIDE DEF R
  <2> QED
    BY <1>1, <1>4, <1>5, <1>6
<1> QED
  BY <1>7 DEF Holds

\* A thread that may run is alone.
LEMMA Moved ==
  ASSUME ~Preemptible, Types, NEW t \in Thread, MayRun(t),
         NEW s \in {"idle", "grow"} \cup Freeing, at' = [at EXCEPT ![t] = s]
  PROVE  /\ at' \in [Thread -> {"idle", "grow"} \cup Freeing] /\ at'[t] = s
         /\ \A u \in Thread : u # t => at[u] = "idle" /\ at'[u] = "idle"
         /\ \A u, v \in Thread : at'[u] # "idle" /\ at'[v] # "idle" => u = v
BY DEF Types, MayRun

LEMMA InvList ==
  ASSUME Inv
  PROVE  List(hdr, Blocks, kheap_end) /\ hdr \in Headers
BY Addresses DEF Inv, Types, InvOn, List, Headers

LEMMA BlocksNext ==
  ASSUME NEW B, NEW e, List(hdr', B, e)
  PROVE  Blocks' = B
<1>1. (LET c == Chain(hdr', head) IN {c[i] : i \in 0..MaxBlocks} \ {NULL}) = B
  BY BlocksAre
<1> QED
  BY <1>1, Zenon DEF Blocks

LEMMA InvNext ==
  ASSUME NEW B, Types', List(hdr', B, kheap_end'), Holds(hdr', B, live'),
         HeadInv(hdr', B, free_head', at', block'), SeamInv(hdr', B, at', block'),
         GrowInv(hdr', B, at')
  PROVE  Inv'
<1>1. Blocks' = B
  BY BlocksNext
<1>2. IsList(hdr', B, kheap_end')
  BY DEF List
<1> QED
  BY <1>1, <1>2, Zenon DEF Inv, InvOn

------------------------------------------------------------------------------
(***************************************************************************)
(* The invariant, step by step.                                            *)
(***************************************************************************)
LEMMA FreeStep ==
  ASSUME Inv, ~Preemptible, NEW t \in Thread, NEW r \in live, kfree(t, r)
  PROVE  Inv'
<1> DEFINE B == Blocks
<1>1. /\ List(hdr, B, kheap_end) /\ hdr \in Headers /\ B \subseteq Addr
      /\ Types /\ MayRun(t) /\ at[t] = "idle"
  BY InvList DEF Inv, kfree, List, IsList
<1>2. PICK b \in B : ~hdr[b].free /\ r = [addr |-> b + HDR, size |-> hdr[b].size]
  BY DEF Inv, InvOn, Holds
<1>3. r.addr - HDR = b /\ b \in Addr /\ b # NULL /\ \A x \in B : x \in Nat
  <2>1. \A x \in B : x \in Nat /\ x \in Addr /\ x # NULL
    BY <1>1, ListFacts
  <2> QED
    BY <1>2, <2>1, Constants
<1>4. /\ hdr' = AsFree(hdr, b) /\ at' = [at EXCEPT ![t] = "next"]
      /\ block' = [block EXCEPT ![t] = b] /\ live' = live \ {r}
      /\ UNCHANGED <<free_head, kheap_end, want, panicked>>
  BY <1>2, <1>3, Zenon DEF kfree, AsFree
<1>5. /\ hdr' \in Headers /\ hdr'[b].free = TRUE
      /\ \A x \in Addr : /\ x # b => hdr'[x].free = hdr[x].free
                         /\ hdr'[x].next = hdr[x].next /\ hdr'[x].size = hdr[x].size
                         /\ hdr'[x].prev = hdr[x].prev
  <2>1. hdr \in Headers /\ b \in Addr
    BY <1>1, <1>3
  <2>2. /\ AsFree(hdr, b) \in Headers /\ AsFree(hdr, b)[b].free = TRUE
        /\ \A x \in Addr : /\ x # b => AsFree(hdr, b)[x].free = hdr[x].free
                           /\ AsFree(hdr, b)[x].next = hdr[x].next
                           /\ AsFree(hdr, b)[x].size = hdr[x].size
                           /\ AsFree(hdr, b)[x].prev = hdr[x].prev
    BY <2>1, SetFree
  <2> QED
    BY <1>4, <2>2
<1>6. /\ at' \in [Thread -> {"idle", "grow"} \cup Freeing] /\ at'[t] = "next"
      /\ \A u \in Thread : u # t => at[u] = "idle" /\ at'[u] = "idle"
      /\ \A u, v \in Thread : at'[u] # "idle" /\ at'[v] # "idle" => u = v
  BY <1>1, <1>4, Moved DEF Freeing
<1>7. block' \in [Thread -> Addr \cup {NULL}] /\ block'[t] = b
  BY <1>1, <1>3, <1>4 DEF Types
<1>8. Types'
  BY <1>1, <1>4, <1>5, <1>6, <1>7 DEF Types, Headers
<1> HIDE DEF B
<1>9. List(hdr', B, kheap_end')
  <2>1. hdr[b].size > 0 /\ hdr[b].size \in Nat
    BY <1>1, ListFacts
  <2>2. Changed(hdr, B, hdr', b)
    BY <1>1, <1>3, <1>5, <2>1 DEF Changed
  <2> QED
    BY <1>1, <1>4, <1>5, <2>2, ChangeList DEF Headers
<1>10. Holds(hdr', B, live')
  <2>1. Holds(hdr, B, live)
    BY DEF Inv, InvOn, B
  <2>2. \A x \in B : hdr'[x].size = hdr[x].size /\ (x # b => (hdr'[x].free <=> hdr[x].free))
    BY <1>1, <1>5
  <2>3. Holds(hdr', B, live \ {[addr |-> b + HDR, size |-> hdr[b].size]})
    BY <1>1, <1>2, <1>5, <2>1, <2>2, HoldsLess
  <2> QED
    BY <1>2, <1>4, <2>3
<1>11. HeadInv(hdr', B, free_head', at', block')
  <2>1. Leads(hdr, B, free_head)
    BY <1>1, <1>6 DEF Inv, InvOn, HeadInv, Freeing, B
  <2>2. Leads(hdr', B, FirstWith(free_head, b))
    <3>1. FirstWith(free_head, b) \in B /\ hdr'[FirstWith(free_head, b)].free
      BY <1>1, <1>5, <2>1 DEF Leads, FirstWith
    <3>2. FirstWith(free_head, b) # NULL
      BY <1>1, <3>1, Addresses
    <3>3. ASSUME NEW x \in B, hdr'[x].free PROVE FirstWith(free_head, b) <= x
      <4>1. x = b \/ hdr[x].free
        BY <1>1, <1>5, <3>3
      <4>2. hdr[x].free => free_head # NULL /\ free_head <= x
        BY <2>1 DEF Leads
      <4>3. free_head \in B \cup {NULL}
        BY <2>1 DEF Leads
      <4> QED
        BY <1>3, <4>1, <4>2, <4>3, Addresses DEF FirstWith
    <3> QED
      BY <3>1, <3>2, <3>3 DEF Leads
  <2> QED
    BY <1>4, <1>5, <1>6, <1>7, <2>2 DEF HeadInv, Freeing
<1>12. SeamInv(hdr', B, at', block')
  <2> SUFFICES ASSUME NEW x \in B, hdr'[x].free, hdr'[x].next # NULL, hdr'[hdr'[x].next].free
               PROVE  hdr'[x].next \in Seams \/ Pending(x, hdr'[x].next, at', block')
    BY DEF SeamInv
  <2> DEFINE y == hdr[x].next
  <2>1. y = hdr'[x].next /\ y # NULL /\ y \in B
    <3>1. y = hdr'[x].next
      BY <1>1, <1>5
    <3> QED
      BY <1>1, <3>1, ListFacts
  <2> HIDE DEF y
  <2>2. CASE x = b \/ y = b
    BY <1>6, <1>7, <2>1, <2>2 DEF Pending
  <2>3. CASE x # b /\ y # b
    <3>1. hdr[x].free /\ hdr[y].free
      BY <1>1, <1>5, <2>1, <2>3
    <3>2. ~Pending(x, y, at, block)
      BY <1>1, <1>6 DEF Pending
    <3>3. SeamInv(hdr, B, at, block)
      BY DEF Inv, InvOn, B
    <3>4. y \in Seams
      BY <2>1, <3>1, <3>2, <3>3 DEF SeamInv, y
    <3> QED
      BY <2>1, <3>4
  <2> QED
    BY <2>2, <2>3
<1>13. GrowInv(hdr', B, at')
  BY <1>6 DEF GrowInv
<1> QED
  BY <1>8, <1>9, <1>10, <1>11, <1>12, <1>13, InvNext

\* What holds between the steps of a kfree.
LEMMA FreeingFacts ==
  ASSUME Inv, ~Preemptible, NEW t \in Thread, MayRun(t), at[t] \in Freeing
  PROVE  /\ List(hdr, Blocks, kheap_end) /\ hdr \in Headers /\ Blocks \subseteq Addr
         /\ Types /\ block[t] \in Blocks /\ hdr[block[t]].free
         /\ Leads(hdr, Blocks, FirstWith(free_head, block[t]))
         /\ \A u \in Thread : u # t => at[u] = "idle"
BY InvList DEF Inv, InvOn, HeadInv, MayRun, Types, List, IsList

LEMMA NextStep ==
  ASSUME Inv, ~Preemptible, NEW t \in Thread, kfree_next(t)
  PROVE  Inv'
<1> DEFINE B == Blocks
           b == block[t]
           old == hdr[b].next
           nn == hdr[old].next
<1>1. /\ MayRun(t) /\ at[t] = "next" /\ at[t] \in Freeing
      /\ hdr' = (IF Free(old) THEN Merged(b, old) ELSE hdr)
      /\ at' = [at EXCEPT ![t] = "prev"]
      /\ UNCHANGED <<free_head, kheap_end, live, block, want, panicked>>
  BY DEF kfree_next, Freeing
<1>2. /\ List(hdr, B, kheap_end) /\ hdr \in Headers /\ B \subseteq Addr
      /\ Types /\ b \in B /\ hdr[b].free /\ Leads(hdr, B, FirstWith(free_head, b))
  BY <1>1, FreeingFacts
<1>3. /\ at' \in [Thread -> {"idle", "grow"} \cup Freeing] /\ at'[t] = "prev"
      /\ \A u \in Thread : u # t => at[u] = "idle" /\ at'[u] = "idle"
      /\ \A u, v \in Thread : at'[u] # "idle" /\ at'[v] # "idle" => u = v
  BY <1>1, <1>2, Moved DEF Freeing
<1>4. ASSUME hdr' \in Headers PROVE Types'
  BY <1>1, <1>2, <1>3, <1>4 DEF Types, Headers
<1>5. Holds(hdr, B, live) /\ SeamInv(hdr, B, at, block)
  BY DEF Inv, InvOn
<1>6. \A x, y : Pending(x, y, at, block) => x = b \/ y = b
  BY <1>1, <1>3 DEF Pending
<1>7. \A x : Pending(x, b, at', block')
  BY <1>1, <1>3 DEF Pending
<1>8. \A C : GrowInv(hdr', C, at')
  BY <1>3 DEF GrowInv
<1>9. \A x \in B : x \in Nat /\ x # NULL
  BY <1>2, ListFacts
<1>10. CASE ~Free(old)
  <2>1. hdr' = hdr
    BY <1>1, <1>10
  <2>2. HeadInv(hdr', B, free_head', at', block')
    BY <1>1, <1>2, <1>3, <2>1 DEF HeadInv, Freeing
  <2>3. SeamInv(hdr', B, at', block')
    <3> SUFFICES ASSUME NEW x \in B, hdr[x].free, hdr[x].next # NULL, hdr[hdr[x].next].free
                 PROVE  hdr[x].next \in Seams \/ Pending(x, hdr[x].next, at', block')
      BY <2>1 DEF SeamInv
    <3>1. x # b
      BY <1>10 DEF Free
    <3>2. hdr[x].next \in Seams \/ Pending(x, hdr[x].next, at, block)
      BY <1>5 DEF SeamInv
    <3> HIDE DEF b
    <3> QED
      BY <1>6, <1>7, <3>1, <3>2
  <2>4. List(hdr', B, kheap_end') /\ Holds(hdr', B, live')
    BY <1>1, <1>2, <1>5, <2>1
  <2> QED
    BY <1>2, <1>4, <1>8, <2>1, <2>2, <2>3, <2>4, InvNext
<1>11. CASE Free(old)
  <2> DEFINE C == B \ {old}
  <2>1. old # NULL /\ hdr[old].free /\ hdr' = Merged(b, old)
    BY <1>1, <1>11 DEF Free
  <2>2. old \in B /\ b < old /\ b # old /\ b \in C
    <3>1. old \in B /\ b < old
      BY <1>2, <2>1, ListFacts
    <3> QED
      BY <1>2, <1>9, <3>1
  <2>3. hdr' \in Headers /\ Removed(hdr, B, hdr', b, old)
    BY <1>2, <2>1, MergedIs
  <2> HIDE DEF B, b, old
  <2>4. List(hdr', C, kheap_end')
    <3>1. List(hdr', C, kheap_end)
      BY <1>2, <2>1, <2>3, RemoveList DEF Headers, old
    <3> QED
      BY <1>1, <3>1
  <2>5. \A x \in C : /\ hdr'[x].next = IF x = b THEN nn ELSE hdr[x].next
                     /\ x # b => hdr'[x].size = hdr[x].size
                     /\ hdr'[x].free = hdr[x].free
    BY <2>3 DEF Removed
  <2>6. Holds(hdr', C, live')
    <3>1. Holds(hdr', C, live)
      <4>1. \A x \in B : ~hdr[x].free => x \in C /\ ~hdr'[x].free /\ hdr'[x].size = hdr[x].size
        BY <1>2, <2>1, <2>5
      <4>2. \A x \in C : ~hdr'[x].free => x \in B /\ ~hdr[x].free
        BY <2>5
      <4> HIDE DEF C
      <4> QED
        BY <1>5, <4>1, <4>2, HoldsSame
    <3> QED
      BY <1>1, <3>1
  <2>7. HeadInv(hdr', C, free_head', at', block')
    <3> DEFINE f == FirstWith(free_head, b)
    <3>1. f \in B \cup {NULL} /\ (f # NULL => hdr[f].free)
          /\ \A x \in B : hdr[x].free => f # NULL /\ f <= x
      BY <1>2 DEF Leads
    <3> HIDE DEF f
    <3>2. f # NULL /\ f <= b /\ f \in B /\ f # old
      BY <1>2, <1>9, <2>2, <3>1
    <3>3. Leads(hdr', C, f)
      BY <2>5, <3>1, <3>2 DEF Leads
    <3>4. hdr'[b].free /\ block'[t] = b
      BY <1>1, <1>2, <2>2, <2>5 DEF b
    <3> QED
      BY <1>1, <1>3, <2>2, <3>3, <3>4 DEF HeadInv, Freeing, f
  <2>8. SeamInv(hdr', C, at', block')
    <3> SUFFICES ASSUME NEW x \in C, hdr'[x].free, hdr'[x].next # NULL, hdr'[hdr'[x].next].free
                 PROVE  hdr'[x].next \in Seams \/ Pending(x, hdr'[x].next, at', block')
      BY DEF SeamInv
    <3> DEFINE y == hdr'[x].next
    <3>1. y \in C /\ y # NULL
      BY <2>4, ListFacts
    <3>2. y = b => Pending(x, y, at', block')
      BY <1>7
    <3>3. hdr[x].free /\ hdr[y].free /\ y \in B
      BY <2>5, <3>1
    <3>4. CASE x = b
      <4>1. y = nn /\ hdr[old].next = y
        BY <2>5, <3>4
      <4>2. y \in Seams \/ Pending(old, y, at, block)
        BY <1>5, <2>1, <2>2, <3>1, <3>3, <4>1 DEF SeamInv
      <4> HIDE DEF y
      <4>3. y \in Seams \/ y = b
        BY <1>6, <2>2, <4>2
      <4> QED
        BY <3>2, <4>3 DEF y
    <3>5. CASE x # b
      <4>1. hdr[x].next = y
        BY <2>5, <3>5
      <4>2. y \in Seams \/ Pending(x, y, at, block)
        BY <1>5, <3>1, <3>3, <4>1 DEF SeamInv
      <4> HIDE DEF y
      <4>3. y \in Seams \/ y = b
        BY <1>6, <3>5, <4>2
      <4> QED
        BY <3>2, <4>3 DEF y
    <3> QED
      BY <3>4, <3>5
  <2>9. Types'
    BY <1>4, <2>3
  <2> HIDE DEF C
  <2> QED
    BY <1>8, <2>4, <2>6, <2>7, <2>8, <2>9, InvNext
<1> QED
  BY <1>10, <1>11

LEMMA PrevStep ==
  ASSUME Inv, ~Preemptible, NEW t \in Thread, kfree_prev(t)
  PROVE  Inv'
<1> DEFINE B == Blocks
           b == block[t]
           p == hdr[b].prev
           nn == hdr[b].next
<1>1. /\ MayRun(t) /\ at[t] = "prev" /\ at[t] \in Freeing
      /\ IF Free(p) THEN hdr' = Merged(p, b) /\ block' = [block EXCEPT ![t] = p]
                    ELSE hdr' = hdr /\ block' = block
      /\ at' = [at EXCEPT ![t] = "head"]
      /\ UNCHANGED <<free_head, kheap_end, live, want, panicked>>
  BY DEF kfree_prev, Freeing, MergesBack
<1>2. /\ List(hdr, B, kheap_end) /\ hdr \in Headers /\ B \subseteq Addr
      /\ Types /\ b \in B /\ hdr[b].free /\ Leads(hdr, B, FirstWith(free_head, b))
  BY <1>1, FreeingFacts
<1>3. /\ at' \in [Thread -> {"idle", "grow"} \cup Freeing] /\ at'[t] = "head"
      /\ \A u \in Thread : u # t => at[u] = "idle" /\ at'[u] = "idle"
      /\ \A u, v \in Thread : at'[u] # "idle" /\ at'[v] # "idle" => u = v
  BY <1>1, <1>2, Moved DEF Freeing
<1>4. ASSUME hdr' \in Headers, block' \in [Thread -> Addr \cup {NULL}] PROVE Types'
  BY <1>1, <1>2, <1>3, <1>4 DEF Types, Headers
<1>5. Holds(hdr, B, live) /\ SeamInv(hdr, B, at, block)
  BY DEF Inv, InvOn
<1>6. \A x, y : Pending(x, y, at, block) => y = b
  BY <1>1, <1>3 DEF Pending
<1>7. \A C : GrowInv(hdr', C, at')
  BY <1>3 DEF GrowInv
<1>8. \A x \in B : x \in Nat /\ x # NULL
  BY <1>2, ListFacts
<1>9. CASE ~Free(p)
  <2>1. hdr' = hdr /\ block' = block
    BY <1>1, <1>9
  <2>2. HeadInv(hdr', B, free_head', at', block')
    BY <1>1, <1>2, <1>3, <2>1 DEF HeadInv, Freeing
  <2>3. SeamInv(hdr', B, at', block')
    <3> SUFFICES ASSUME NEW x \in B, hdr[x].free, hdr[x].next # NULL, hdr[hdr[x].next].free
                 PROVE  hdr[x].next \in Seams
      BY <2>1 DEF SeamInv
    <3>1. hdr[x].next # b
      <4> SUFFICES ASSUME hdr[x].next = b PROVE FALSE
        OBVIOUS
      <4>1. p = x
        BY <1>2, ListFacts
      <4> QED
        BY <1>8, <1>9, <4>1 DEF Free
    <3>2. hdr[x].next \in Seams \/ Pending(x, hdr[x].next, at, block)
      BY <1>5 DEF SeamInv
    <3> HIDE DEF b
    <3> QED
      BY <1>6, <3>1, <3>2
  <2>4. List(hdr', B, kheap_end') /\ Holds(hdr', B, live')
    BY <1>1, <1>2, <1>5, <2>1
  <2>5. Types'
    BY <1>2, <1>4, <2>1 DEF Types
  <2> QED
    BY <1>7, <2>2, <2>3, <2>4, <2>5, InvNext
<1>10. CASE Free(p)
  <2> DEFINE C == B \ {b}
  <2>1. /\ p # NULL /\ hdr[p].free /\ hdr' = Merged(p, b) /\ block' = [block EXCEPT ![t] = p]
    BY <1>1, <1>10 DEF Free
  <2>2. p \in B /\ p < b /\ p # b /\ p \in C /\ b = hdr[p].next /\ b # NULL
    <3>1. b # head
      BY <1>2, <2>1, ListFacts
    <3>2. p \in B /\ p < b /\ hdr[p].next = b
      BY <1>2, <3>1, ListFacts
    <3> QED
      BY <1>2, <1>8, <3>2
  <2>3. hdr' \in Headers /\ Removed(hdr, B, hdr', p, b)
    BY <1>2, <2>1, <2>2, MergedIs
  <2>4. block' \in [Thread -> Addr \cup {NULL}] /\ block'[t] = p
    BY <1>2, <2>1, <2>2 DEF Types
  <2> HIDE DEF B, b, p
  <2>5. List(hdr', C, kheap_end')
    <3>1. List(hdr', C, kheap_end)
      BY <1>2, <2>2, <2>3, RemoveList DEF Headers
    <3> QED
      BY <1>1, <3>1
  <2>6. \A x \in C : /\ hdr'[x].next = IF x = p THEN nn ELSE hdr[x].next
                     /\ x # p => hdr'[x].size = hdr[x].size
                     /\ hdr'[x].free = hdr[x].free
    BY <2>3 DEF Removed
  <2>7. Holds(hdr', C, live')
    <3>1. Holds(hdr', C, live)
      <4>1. \A x \in B : ~hdr[x].free => x \in C /\ ~hdr'[x].free /\ hdr'[x].size = hdr[x].size
        BY <1>2, <2>1, <2>6
      <4>2. \A x \in C : ~hdr'[x].free => x \in B /\ ~hdr[x].free
        BY <2>6
      <4> HIDE DEF C
      <4> QED
        BY <1>5, <4>1, <4>2, HoldsSame
    <3> QED
      BY <1>1, <3>1
  <2>8. HeadInv(hdr', C, free_head', at', block')
    <3> DEFINE f == free_head
    <3>1. /\ FirstWith(f, b) \in B \cup {NULL}
          /\ FirstWith(f, b) # NULL => hdr[FirstWith(f, b)].free
          /\ \A x \in B : hdr[x].free => FirstWith(f, b) # NULL /\ FirstWith(f, b) <= x
      BY <1>2 DEF Leads
    <3>2. FirstWith(f, b) # NULL /\ FirstWith(f, b) <= p
      BY <2>1, <2>2, <3>1
    <3>3. FirstWith(f, b) = f
      BY <1>8, <2>2, <3>2, <1>2 DEF FirstWith
    <3>4. f # NULL /\ f <= p /\ f \in B /\ f # b
      BY <1>8, <2>2, <3>1, <3>2, <3>3
    <3>5. FirstWith(f, p) = f
      BY <1>8, <2>2, <3>4 DEF FirstWith
    <3>6. Leads(hdr', C, FirstWith(f, p))
      BY <2>6, <3>1, <3>3, <3>4, <3>5 DEF Leads
    <3>7. hdr'[p].free
      BY <2>1, <2>2, <2>6
    <3> QED
      BY <1>1, <1>3, <2>2, <2>4, <3>6, <3>7 DEF HeadInv, Freeing
  <2>9. SeamInv(hdr', C, at', block')
    <3> SUFFICES ASSUME NEW x \in C, hdr'[x].free, hdr'[x].next # NULL, hdr'[hdr'[x].next].free
                 PROVE  hdr'[x].next \in Seams
      BY DEF SeamInv
    <3> DEFINE y == hdr'[x].next
    <3>1. y \in C /\ y # NULL /\ y # b
      BY <2>5, ListFacts
    <3>2. hdr[x].free /\ hdr[y].free /\ y \in B
      BY <2>6, <3>1
    <3>3. CASE x = p
      <4>1. hdr[b].next = y
        BY <2>6, <3>3
      <4>2. y \in Seams \/ Pending(b, y, at, block)
        BY <1>2, <1>5, <3>1, <3>2, <4>1 DEF SeamInv
      <4> HIDE DEF y
      <4> QED
        BY <1>6, <3>1, <4>2 DEF y
    <3>4. CASE x # p
      <4>1. hdr[x].next = y
        BY <2>6, <3>4
      <4>2. y \in Seams \/ Pending(x, y, at, block)
        BY <1>5, <3>1, <3>2, <4>1 DEF SeamInv
      <4> HIDE DEF y
      <4> QED
        BY <1>6, <3>1, <4>2 DEF y
    <3> QED
      BY <3>3, <3>4
  <2>10. Types'
    BY <1>4, <2>3, <2>4
  <2> HIDE DEF C
  <2> QED
    BY <1>7, <2>5, <2>7, <2>8, <2>9, <2>10, InvNext
<1> QED
  BY <1>9, <1>10

LEMMA HeadStep ==
  ASSUME Inv, ~Preemptible, NEW t \in Thread, kfree_head(t)
  PROVE  Inv'
<1> DEFINE B == Blocks
           b == block[t]
<1>1. /\ MayRun(t) /\ at[t] = "head" /\ at[t] \in Freeing
      /\ free_head' = FirstWith(free_head, b)
      /\ at' = [at EXCEPT ![t] = "idle"]
      /\ UNCHANGED <<hdr, kheap_end, live, block, want, panicked>>
  BY DEF kfree_head, Freeing, BeforeHead, FirstWith
<1>2. /\ List(hdr, B, kheap_end) /\ Types /\ Leads(hdr, B, FirstWith(free_head, b))
  BY <1>1, FreeingFacts
<1>3. /\ at' \in [Thread -> {"idle", "grow"} \cup Freeing] /\ at'[t] = "idle"
      /\ \A u \in Thread : u # t => at[u] = "idle" /\ at'[u] = "idle"
      /\ \A u, v \in Thread : at'[u] # "idle" /\ at'[v] # "idle" => u = v
  BY <1>1, <1>2, Moved DEF Freeing
<1>4. Types'
  BY <1>1, <1>2, <1>3 DEF Types
<1>5. HeadInv(hdr', B, free_head', at', block')
  BY <1>1, <1>2, <1>3 DEF HeadInv, Freeing
<1>6. SeamInv(hdr', B, at', block')
  <2>1. SeamInv(hdr, B, at, block)
    BY DEF Inv, InvOn
  <2>2. \A x, y : ~Pending(x, y, at, block)
    BY <1>1, <1>3 DEF Pending
  <2> QED
    BY <1>1, <2>1, <2>2 DEF SeamInv
<1>7. GrowInv(hdr', B, at')
  BY <1>3 DEF GrowInv
<1>8. List(hdr', B, kheap_end') /\ Holds(hdr', B, live')
  BY <1>1, <1>2 DEF Inv, InvOn
<1> QED
  BY <1>4, <1>5, <1>6, <1>7, <1>8, InvNext

\* What holds when a thread calls kmalloc.
LEMMA CallFacts ==
  ASSUME Inv, ~Preemptible, NEW t \in Thread, MayRun(t), at[t] \in {"idle", "grow"}
  PROVE  /\ List(hdr, Blocks, kheap_end) /\ hdr \in Headers /\ Blocks \subseteq Addr
         /\ Types /\ Leads(hdr, Blocks, free_head)
         /\ \A x, y : ~Pending(x, y, at, block)
         /\ \A u \in Thread : u # t => at[u] = "idle"
<1>1. \A u \in Thread : at[u] \in {"idle", "grow"}
  BY DEF MayRun
<1>2. Leads(hdr, Blocks, free_head)
  BY <1>1 DEF Inv, InvOn, HeadInv, Freeing
<1>3. \A x, y : ~Pending(x, y, at, block)
  BY <1>1 DEF Pending
<1> QED
  BY <1>2, <1>3, InvList DEF Inv, MayRun, List, IsList

\* The search of kmalloc: the first block from free_head on is the first one.
LEMMA FitIs ==
  ASSUME NEW B, NEW e, List(hdr, B, e), Leads(hdr, B, free_head), NEW n \in Nat
  PROVE  IsFirst(hdr, B, free_head, n, FirstFit(n))
BY FirstFromIs DEF Leads, FirstFit

LEMMA FoundStep ==
  ASSUME Inv, ~Preemptible, NEW t \in Thread, NEW n \in Sizes, MayRun(t),
         at[t] \in {"idle", "grow"}, FirstFit(n) # NULL, kmalloc_found(t, FirstFit(n), n)
  PROVE  Inv'
<1> DEFINE B == Blocks
           b == FirstFit(n)
           new == b + HDR + n
           nn == hdr[b].next
           C == IF Splits(b, n) THEN B \cup {new} ELSE B
<1>1. /\ List(hdr, B, kheap_end) /\ hdr \in Headers /\ B \subseteq Addr
      /\ Types /\ Leads(hdr, B, free_head) /\ \A x, y : ~Pending(x, y, at, block)
  BY CallFacts
<1>2. n \in Nat /\ n > 0
  BY KHeapAssumption
<1>3. b \in B /\ free_head # NULL /\ free_head <= b /\ hdr[b].free /\ hdr[b].size >= n
  <2>1. IsFirst(hdr, B, free_head, n, b)
    BY <1>1, <1>2, FitIs
  <2>2. b \in B /\ hdr[b].free /\ hdr[b].size >= n
    BY <2>1 DEF IsFirst
  <2>3. free_head # NULL /\ free_head <= b
    BY <1>1, <2>2 DEF Leads
  <2> QED
    BY <2>2, <2>3
<1>4. /\ hdr' = Carve(b, n)
      /\ free_head' = IF b = free_head THEN FirstFrom(hdr', hdr'[b].next, 0) ELSE free_head
      /\ live' = live \cup {[addr |-> b + HDR, size |-> n]}
      /\ at' = [at EXCEPT ![t] = "idle"]
      /\ UNCHANGED <<kheap_end, block, want, panicked>>
  BY DEF kmalloc_found
<1>5. /\ at' \in [Thread -> {"idle", "grow"} \cup Freeing] /\ at'[t] = "idle"
      /\ \A u \in Thread : u # t => at[u] = "idle" /\ at'[u] = "idle"
      /\ \A u, v \in Thread : at'[u] # "idle" /\ at'[v] # "idle" => u = v
  BY <1>1, <1>4, Moved
<1>6. /\ Holds(hdr, B, live) /\ SeamInv(hdr, B, at, block)
      /\ \A D : GrowInv(hdr', D, at')
  BY <1>5 DEF Inv, InvOn, GrowInv
<1> HIDE DEF B, b
<1>7. /\ hdr' \in Headers /\ hdr'[b].size = n /\ ~hdr'[b].free
      /\ ~Splits(b, n) => Changed(hdr, B, hdr', b) /\ List(hdr', B, kheap_end)
      /\ Splits(b, n) => /\ Inserted(hdr, B, hdr', b, new) /\ List(hdr', B \cup {new}, kheap_end)
                         /\ hdr'[new].free /\ new \notin B /\ b < new
  <2>1. new = b + HDR + n
    OBVIOUS
  <2>2. List(hdr, B, kheap_end) /\ b \in B /\ hdr[b].size >= n /\ hdr' = Carve(b, n)
    BY <1>1, <1>3, <1>4
  <2> HIDE DEF new
  <2>3. Carved(B, kheap_end, hdr', b, n, new)
    BY <1>2, <2>1, <2>2, CarveIs
  <2> QED
    BY <2>3 DEF Carved
<1>8. Types'
  BY <1>1, <1>4, <1>5, <1>7 DEF Types, Headers
<1>9. List(hdr', C, kheap_end')
  BY <1>4, <1>7
<1>10. /\ B \subseteq C /\ b \in C
       /\ \A x \in B : x # b => /\ hdr'[x].free = hdr[x].free /\ hdr'[x].size = hdr[x].size
                                /\ hdr'[x].next = hdr[x].next
       /\ \A x \in C : x \notin B => x = new /\ hdr'[x].free /\ b < x /\ hdr'[x].next = nn
                                     /\ hdr'[b].next = x
       /\ C = B => hdr'[b].next = nn
  <2>1. CASE Splits(b, n)
    BY <1>3, <1>7, <2>1 DEF Inserted
  <2>2. CASE ~Splits(b, n)
    BY <1>3, <1>7, <2>2 DEF Changed
  <2> QED
    BY <2>1, <2>2
<1> HIDE DEF C
<1>11. Holds(hdr', C, live')
  <2>1. \A x \in B : ~hdr[x].free => x \in C /\ x # b /\ ~hdr'[x].free /\ hdr'[x].size = hdr[x].size
    BY <1>3, <1>10
  <2>2. \A x \in C : ~hdr'[x].free /\ x # b => x \in B /\ ~hdr[x].free
    BY <1>10
  <2>3. ~hdr'[b].free /\ hdr'[b].size = n
    BY <1>7
  <2>4. Holds(hdr', C, live \cup {[addr |-> b + HDR, size |-> n]})
    BY <1>6, <1>10, <2>1, <2>2, <2>3, HoldsMore
  <2> QED
    BY <1>4, <2>4
<1>12. \A x \in C : x \in Nat /\ x # NULL
  BY <1>9, ListFacts
<1>13. HeadInv(hdr', C, free_head', at', block')
  <2> SUFFICES Leads(hdr', C, free_head')
    BY <1>5 DEF HeadInv, Freeing
  <2>1. /\ free_head \in B /\ hdr[free_head].free
        /\ \A x \in B : hdr[x].free => free_head <= x
    BY <1>1, <1>3 DEF Leads
  <2>2. CASE b # free_head
    <3>1. free_head' = free_head /\ hdr'[free_head].free
      BY <1>4, <1>10, <2>1, <2>2
    <3>2. ASSUME NEW x \in C, hdr'[x].free PROVE free_head <= x
      <4>1. CASE x \in B
        <5>1. x # b
          BY <1>7, <3>2
        <5> QED
          BY <1>10, <2>1, <3>2, <4>1, <5>1
      <4>2. CASE x \notin B
        BY <1>3, <1>10, <1>12, <2>1, <4>2
      <4> QED
        BY <4>1, <4>2
    <3> QED
      BY <1>3, <1>10, <2>1, <3>1, <3>2 DEF Leads
  <2>3. CASE b = free_head
    <3> DEFINE s == hdr'[b].next
               f == FirstFrom(hdr', s, 0)
    <3>1. s \in C \cup {NULL} /\ (s # NULL => b < s) /\ s \in Nat
      BY <1>9, <1>10, ListFacts
    <3>2. IsFirst(hdr', C, s, 0, f)
      <4> HIDE DEF s
      <4> QED
        BY <1>9, <3>1, FirstFromIs
    <3>3. free_head' = f
      BY <1>4, <2>3
    <3> HIDE DEF f
    <3>4. f \in C \cup {NULL} /\ (f # NULL => hdr'[f].free)
      BY <3>2 DEF IsFirst
    <3>5. ASSUME NEW x \in C, hdr'[x].free PROVE f # NULL /\ f <= x
      <4>1. x # b
        BY <1>7, <3>5
      <4>2. b < x
        <5>1. CASE x \in B
          <6>1. b <= x
            BY <1>10, <2>1, <2>3, <3>5, <4>1, <5>1
          <6> QED
            BY <1>10, <1>12, <4>1, <6>1
        <5>2. CASE x \notin B
          BY <1>10, <5>2
        <5> QED
          BY <5>1, <5>2
      <4>3. s # NULL /\ s <= x
        BY <1>9, <1>10, <4>2, Ordered
      <4>4. hdr'[x].size >= 0
        BY <1>9, ListFacts
      <4>5. ~(f = NULL \/ x < f)
        BY <3>2, <3>5, <4>3, <4>4 DEF IsFirst
      <4> QED
        BY <1>12, <3>4, <4>5
    <3> QED
      BY <3>3, <3>4, <3>5 DEF Leads
  <2> QED
    BY <2>2, <2>3
<1>14. SeamInv(hdr', C, at', block')
  <2> SUFFICES ASSUME NEW x \in C, hdr'[x].free, hdr'[x].next # NULL, hdr'[hdr'[x].next].free
               PROVE  hdr'[x].next \in Seams
    BY DEF SeamInv
  <2> DEFINE y == hdr'[x].next
  <2>1. x # b /\ y # b /\ y \in C
    BY <1>7, <1>9, ListFacts
  <2>2. \A z \in B : hdr[z].free /\ hdr[z].next # NULL /\ hdr[hdr[z].next].free => hdr[z].next \in Seams
    BY <1>1, <1>6 DEF SeamInv
  <2>3. \A z \in B : hdr[z].next # NULL => hdr[z].next \in B
    BY <1>1, ListFacts
  <2>4. CASE x \in B
    <3>1. hdr[x].free /\ hdr[x].next = y
      BY <1>10, <2>1, <2>4
    <3>2. y \in B
      BY <2>3, <2>4, <3>1
    <3>3. hdr[y].free
      BY <1>10, <2>1, <3>2
    <3> QED
      BY <2>2, <2>4, <3>1, <3>3
  <2>5. CASE x \notin B
    <3>1. nn = y
      BY <1>10, <2>5
    <3>2. y \in B
      BY <1>3, <2>3, <3>1
    <3>3. hdr[y].free
      BY <1>10, <2>1, <3>2
    <3> QED
      BY <1>3, <2>2, <3>1, <3>3
  <2> QED
    BY <2>4, <2>5
<1> QED
  BY <1>6, <1>8, <1>9, <1>11, <1>13, <1>14, InvNext

LEMMA GrowStep ==
  ASSUME Inv, ~Preemptible, NEW t \in Thread, NEW n \in Sizes, MayRun(t),
         at[t] \in {"idle", "grow"}, kmalloc_grow(t, n)
  PROVE  Inv'
<1> DEFINE B == Blocks
           new == kheap_end
           last == Tail
           C == B \cup {new}
<1>1. /\ List(hdr, B, kheap_end) /\ hdr \in Headers /\ B \subseteq Addr
      /\ Types /\ Leads(hdr, B, free_head) /\ \A x, y : ~Pending(x, y, at, block)
  BY CallFacts
<1>2. /\ Holds(hdr, B, live) /\ SeamInv(hdr, B, at, block) /\ kheap_end \in Seams
      /\ HeadInv(hdr, B, free_head, at, block) /\ GrowInv(hdr, B, at)
  BY <1>1 DEF Inv, InvOn, Types
<1>3. CASE kheap_end = PageEnd(MaxPages)
  <2>1. panicked' = TRUE /\ UNCHANGED <<hdr, free_head, kheap_end, live, at, block, want>>
    BY <1>3 DEF kmalloc_grow
  <2>2. Types'
    BY <1>1, <2>1 DEF Types
  <2>3. /\ List(hdr', B, kheap_end') /\ Holds(hdr', B, live')
        /\ HeadInv(hdr', B, free_head', at', block') /\ SeamInv(hdr', B, at', block')
        /\ GrowInv(hdr', B, at')
    BY <1>1, <1>2, <2>1
  <2> QED
    BY <2>2, <2>3, InvNext
<1>4. CASE kheap_end # PageEnd(MaxPages)
  <2>1. /\ hdr' = LinkTail(new) /\ kheap_end' = kheap_end + PAGE_SIZE
        /\ free_head' = IF free_head = NULL THEN new ELSE free_head
        /\ at' = [at EXCEPT ![t] = "grow"] /\ want' = [want EXCEPT ![t] = n]
        /\ UNCHANGED <<live, block, panicked>>
    BY <1>4 DEF kmalloc_grow
  <2>2. /\ at' \in [Thread -> {"idle", "grow"} \cup Freeing] /\ at'[t] = "grow"
        /\ \A u \in Thread : u # t => at[u] = "idle" /\ at'[u] = "idle"
        /\ \A u, v \in Thread : at'[u] # "idle" /\ at'[v] # "idle" => u = v
    BY <1>1, <2>1, Moved
  <2>3. /\ last \in B /\ hdr[last].next = NULL
        /\ hdr' \in Headers /\ Inserted(hdr, B, hdr', last, new)
        /\ List(hdr', C, kheap_end')
        /\ hdr'[last].free = hdr[last].free /\ hdr'[last].size = hdr[last].size
        /\ hdr'[new].free = TRUE /\ hdr'[new].size = PAGE_SIZE - HDR
        /\ new \notin B /\ \A x \in B : x < new
    BY <1>1, <1>2, <1>4, <2>1, LinkTailIs
  <2>4. kheap_end' \in Seams
    BY <1>2, <1>4, <2>1, SeamsGrow
  <2>5. Types'
    <3>1. want' \in [Thread -> Sizes \cup {0}]
      BY <1>1, <2>1 DEF Types
    <3> QED
      BY <1>1, <2>1, <2>2, <2>3, <2>4, <3>1 DEF Types, Headers
  <2> HIDE DEF B, last
  <2>6. /\ \A x \in B : /\ hdr'[x].free = hdr[x].free /\ hdr'[x].size = hdr[x].size
                        /\ x # last => hdr'[x].next = hdr[x].next
        /\ hdr'[last].next = new /\ hdr'[new].next = NULL
    BY <2>3 DEF Inserted
  <2>7. \A x \in C : x \in Nat /\ x # NULL
    BY <2>3, ListFacts
  <2>8. Holds(hdr', C, live')
    <3>1. \A x \in B : ~hdr[x].free => x \in C /\ ~hdr'[x].free /\ hdr'[x].size = hdr[x].size
      BY <2>6
    <3>2. \A x \in C : ~hdr'[x].free => x \in B /\ ~hdr[x].free
      BY <2>3, <2>6
    <3> HIDE DEF C
    <3>3. Holds(hdr', C, live)
      BY <1>2, <3>1, <3>2, HoldsSame
    <3> QED
      BY <2>1, <3>3
  <2>9. HeadInv(hdr', C, free_head', at', block')
    <3>1. /\ free_head \in B \cup {NULL} /\ (free_head # NULL => hdr[free_head].free)
          /\ \A x \in B : hdr[x].free => free_head # NULL /\ free_head <= x
      BY <1>1 DEF Leads
    <3>2. CASE free_head = NULL
      <4>1. free_head' = new /\ new # NULL
        BY <2>1, <2>7, <3>2
      <4>2. \A x \in C : hdr'[x].free => x = new
        BY <2>6, <3>1, <3>2
      <4>3. new <= new
        BY <2>7
      <4>4. Leads(hdr', C, new)
        BY <2>3, <4>1, <4>2, <4>3 DEF Leads
      <4> QED
        BY <2>2, <4>1, <4>4 DEF HeadInv, Freeing
    <3>3. CASE free_head # NULL
      <4>1. free_head' = free_head /\ free_head \in B
        BY <2>1, <3>1, <3>3
      <4>2. \A x \in C : hdr'[x].free => free_head <= x
        BY <2>3, <2>6, <2>7, <3>1, <4>1
      <4>3. Leads(hdr', C, free_head)
        BY <2>6, <3>1, <3>3, <4>1, <4>2 DEF Leads
      <4> QED
        BY <2>2, <4>1, <4>3 DEF HeadInv, Freeing
    <3> QED
      BY <3>2, <3>3
  <2>10. SeamInv(hdr', C, at', block')
    <3> SUFFICES ASSUME NEW x \in C, hdr'[x].free, hdr'[x].next # NULL, hdr'[hdr'[x].next].free
                 PROVE  hdr'[x].next \in Seams
      BY DEF SeamInv
    <3>1. x # new /\ x \in B
      BY <2>6
    <3>2. CASE x = last
      BY <1>2, <2>6, <3>2
    <3>3. CASE x # last
      <4> DEFINE y == hdr[x].next
      <4>1. hdr'[x].next = y /\ hdr[x].free /\ y # NULL
        BY <2>6, <3>1, <3>3
      <4>2. y \in B
        BY <1>1, <3>1, <4>1, ListFacts
      <4>3. hdr[y].free
        BY <2>6, <4>1, <4>2
      <4> QED
        BY <1>1, <1>2, <3>1, <4>1, <4>3 DEF SeamInv
    <3> QED
      BY <3>2, <3>3
  <2>11. GrowInv(hdr', C, at')
    BY <2>3 DEF GrowInv
  <2> QED
    BY <2>3, <2>5, <2>8, <2>9, <2>10, <2>11, InvNext
<1> QED
  BY <1>3, <1>4

LEMMA InitInv == Init => Inv
<1> SUFFICES ASSUME Init PROVE Inv
  OBVIOUS
<1> DEFINE B == {head}
           s == InitialPages * PAGE_SIZE - HDR
<1>1. /\ \A a \in Addr : hdr[a] = IF a = head THEN Header(s, NULL, NULL) ELSE NoHeader
      /\ hdr = [a \in Addr |-> IF a = head THEN Header(s, NULL, NULL) ELSE NoHeader]
      /\ free_head = head /\ kheap_end = PageEnd(InitialPages) /\ live = {}
      /\ at = [t \in Thread |-> "idle"] /\ block = [t \in Thread |-> NULL]
      /\ want = [t \in Thread |-> 0] /\ panicked = FALSE
  BY DEF Init
<1>2. /\ head \in Addr /\ head \in Nat /\ head # NULL /\ NULL \notin Addr /\ head < PageEnd(MaxPages)
      /\ PageEnd(InitialPages) <= PageEnd(MaxPages) /\ PageEnd(InitialPages) \in Nat
  BY Addresses, Constants
<1>3. s \in 0..PageEnd(MaxPages) /\ s > 0 /\ head + HDR + s = PageEnd(InitialPages)
  <2> DEFINE m == InitialPages * PAGE_SIZE
  <2>1. PageEnd(InitialPages) = head + m /\ s = m - HDR /\ m \in Nat
    BY Product, Constants DEF PageEnd, head
  <2> HIDE DEF m, s
  <2> QED
    BY <1>2, <2>1, Addresses, Constants
<1> HIDE DEF s
<1>4. /\ Header(s, NULL, NULL) \in HeaderType /\ NoHeader \in HeaderType
      /\ Header(s, NULL, NULL).size = s /\ Header(s, NULL, NULL).free
      /\ Header(s, NULL, NULL).prev = NULL /\ Header(s, NULL, NULL).next = NULL
  BY <1>2, <1>3, Addresses DEF Header, NoHeader, HeaderType
<1>5. hdr \in [Addr -> HeaderType]
  BY <1>1, <1>4
<1>6. hdr[head].size = s /\ hdr[head].free /\ hdr[head].prev = NULL /\ hdr[head].next = NULL
  BY <1>1, <1>2, <1>4
<1>7. Types
  <2>1. kheap_end \in Seams
    BY <1>1, Constants DEF Seams
  <2> QED
    BY <1>1, <1>5, <2>1 DEF Types
<1>8. List(hdr, B, kheap_end)
  BY <1>1, <1>2, <1>3, <1>5, <1>6 DEF List, IsList
<1>9. Blocks = B
  <2>1. (LET c == Chain(hdr, head) IN {c[i] : i \in 0..MaxBlocks} \ {NULL}) = B
    BY <1>8, BlocksAre
  <2> QED
    BY <2>1, Zenon DEF Blocks
<1>10. InvOn(B)
  <2>1. Holds(hdr, B, live)
    BY <1>1, <1>6 DEF Holds
  <2>2. HeadInv(hdr, B, free_head, at, block)
    BY <1>1, <1>2, <1>6 DEF HeadInv, Leads, Freeing
  <2>3. SeamInv(hdr, B, at, block)
    BY <1>6 DEF SeamInv
  <2>4. GrowInv(hdr, B, at)
    BY <1>1 DEF GrowInv
  <2> QED
    BY <1>8, <2>1, <2>2, <2>3, <2>4 DEF InvOn, List
<1> QED
  BY <1>7, <1>9, <1>10 DEF Inv

LEMMA KmallocStep ==
  ASSUME Inv, ~Preemptible, NEW t \in Thread, NEW n \in Sizes, kmalloc(t, n)
  PROVE  Inv'
<1>1. MayRun(t) /\ at[t] \in {"idle", "grow"}
  BY DEF kmalloc
<1>2. CASE FirstFit(n) # NULL
  BY <1>1, <1>2, FoundStep DEF kmalloc
<1>3. CASE FirstFit(n) = NULL
  BY <1>1, <1>3, GrowStep DEF kmalloc
<1> QED
  BY <1>2, <1>3

LEMMA NextInv == ~Preemptible /\ Inv /\ [Next]_vars => Inv'
<1> SUFFICES ASSUME ~Preemptible, Inv, [Next]_vars PROVE Inv'
  OBVIOUS
<1>1. CASE Next
  <2>1. PICK t \in Thread :
          \/ \E n \in Sizes : kmalloc(t, n)
          \/ \E r \in live : kfree(t, r)
          \/ kfree_next(t)
          \/ kfree_prev(t)
          \/ kfree_head(t)
    BY <1>1 DEF Next
  <2>2. CASE \E n \in Sizes : kmalloc(t, n)
    BY <2>2, KmallocStep
  <2>3. CASE \E r \in live : kfree(t, r)
    BY <2>3, FreeStep
  <2>4. CASE kfree_next(t)
    BY <2>4, NextStep
  <2>5. CASE kfree_prev(t)
    BY <2>5, PrevStep
  <2>6. CASE kfree_head(t)
    BY <2>6, HeadStep
  <2> QED
    BY <2>1, <2>2, <2>3, <2>4, <2>5, <2>6
<1>2. CASE UNCHANGED vars
  <2>1. Types'
    BY <1>2 DEF vars, Inv, Types
  <2>2. /\ List(hdr', Blocks, kheap_end') /\ Holds(hdr', Blocks, live')
        /\ HeadInv(hdr', Blocks, free_head', at', block') /\ SeamInv(hdr', Blocks, at', block')
        /\ GrowInv(hdr', Blocks, at')
    BY <1>2, InvList DEF vars, Inv, InvOn
  <2> QED
    BY <2>1, <2>2, InvNext
<1> QED
  BY <1>1, <1>2

LEMMA Invariant == ~Preemptible /\ Spec => []Inv
<1>1. ASSUME ~Preemptible PROVE Inv /\ [Next]_vars => Inv'
  BY <1>1, NextInv
<1>2. ASSUME ~Preemptible PROVE Spec => []Inv
  BY <1>1, <1>2, InitInv, PTL DEF Spec
<1> QED
  BY <1>2

------------------------------------------------------------------------------
(***************************************************************************)
(* The theorems.                                                           *)
(***************************************************************************)

\* The list of blocks is sorted, the blocks do not overlap, the links back are
\* those forward reversed, and the allocations are the blocks that are not
\* free, whatever kmalloc splits and kfree merges.
THEOREM BlocksTileHeap == ~Preemptible /\ Spec => []ListTilesHeap
<1>1. Inv => ListTilesHeap
  <2> SUFFICES ASSUME Inv PROVE ListTilesHeap
    OBVIOUS
  <2>1. List(hdr, Blocks, kheap_end)
    BY InvList
  <2>2. ASSUME NEW b \in Blocks
        PROVE  /\ b + HDR + hdr[b].size <= (IF hdr[b].next = NULL THEN kheap_end ELSE hdr[b].next)
               /\ hdr[b].next # NULL => hdr[hdr[b].next].prev = b
    BY <2>1, ListFacts
  <2>3. Holds(hdr, Blocks, live)
    BY DEF Inv, InvOn
  <2> QED
    BY <2>2, <2>3, Zenon DEF ListTilesHeap, Holds
<1> QED
  BY <1>1, Invariant, PTL

\* free_head, which kmalloc and kfree keep as a cache, is the first free block
\* whenever no call is under way.
THEOREM FreeHeadIsKept == ~Preemptible /\ Spec => []FreeHeadIsFirst
<1>1. Inv => FreeHeadIsFirst
  <2> SUFFICES ASSUME Inv, Quiet PROVE free_head = FirstFrom(hdr, head, 0)
    BY DEF FreeHeadIsFirst
  <2>1. List(hdr, Blocks, kheap_end) /\ head \in Blocks
    BY InvList DEF List, IsList
  <2>2. Leads(hdr, Blocks, free_head)
    BY DEF Inv, InvOn, HeadInv, Quiet, Freeing
  <2>3. IsFirst(hdr, Blocks, head, 0, free_head)
    BY <2>1, <2>2, LeadsIsFirst
  <2>4. IsFirst(hdr, Blocks, head, 0, FirstFrom(hdr, head, 0))
    BY <2>1, FirstFromIs
  <2> QED
    BY <2>1, <2>3, <2>4, FirstIsUnique
<1> QED
  BY <1>1, Invariant, PTL

\* The two merges of kfree leave no free neighbours but those that meet where
\* a page was appended.
THEOREM FreeBlocksAreMerged == ~Preemptible /\ Spec => []Coalesced
<1>1. Inv => Coalesced
  <2> SUFFICES ASSUME Inv, Quiet, NEW b \in Blocks, Free(b), Free(hdr[b].next)
               PROVE  hdr[b].next \in {PageEnd(n) : n \in InitialPages..MaxPages}
    BY Zenon DEF Coalesced
  <2>1. hdr[b].free /\ hdr[b].next # NULL /\ hdr[hdr[b].next].free
    BY DEF Free
  <2>2. ~Pending(b, hdr[b].next, at, block)
    BY DEF Pending, Quiet
  <2>3. hdr[b].next \in Seams
    BY <2>1, <2>2 DEF Inv, InvOn, SeamInv
  <2> QED
    BY <2>3 DEF Seams
<1> QED
  BY <1>1, Invariant, PTL

\* When kmalloc has grown the heap for a request that fits a page, the call of
\* itself finds a block.
THEOREM OneGrowthServes == ~Preemptible /\ Spec => OnePageIsEnough
<1>1. ASSUME ~Preemptible
      PROVE  Inv /\ [Next]_vars =>
               [\A t \in Thread : at[t] = "grow" /\ want[t] <= PAGE_SIZE - HDR => at'[t] = "idle"]_vars
  <2> SUFFICES ASSUME Inv, Next, NEW t \in Thread, at[t] = "grow", want[t] <= PAGE_SIZE - HDR
               PROVE  at'[t] = "idle"
    OBVIOUS
  <2>1. PICK u \in Thread :
          \/ \E n \in Sizes : kmalloc(u, n)
          \/ \E r \in live : kfree(u, r)
          \/ kfree_next(u)
          \/ kfree_prev(u)
          \/ kfree_head(u)
    BY DEF Next
  <2>2. MayRun(u)
    BY <2>1 DEF kmalloc, kfree, kfree_next, kfree_prev, kfree_head
  <2>3. u = t
    BY <1>1, <2>2 DEF MayRun
  <2>4. PICK n \in Sizes : kmalloc(t, n)
    BY <2>1, <2>3 DEF kfree, kfree_next, kfree_prev, kfree_head
  <2>5. n = want[t] /\ n \in Nat /\ at[t] \in {"idle", "grow"}
    BY <2>4, Constants DEF kmalloc
  <2>6. FirstFit(n) # NULL
    <3>1. List(hdr, Blocks, kheap_end) /\ Leads(hdr, Blocks, free_head)
      BY <1>1, <2>2, <2>3, <2>5, CallFacts
    <3>2. PICK x \in Blocks : hdr[x].free /\ hdr[x].size = PAGE_SIZE - HDR
      BY DEF Inv, InvOn, GrowInv
    <3>3. IsFirst(hdr, Blocks, free_head, n, FirstFit(n))
      BY <2>5, <3>1, FitIs
    <3>4. free_head # NULL /\ free_head <= x
      BY <3>1, <3>2 DEF Leads
    <3>5. hdr[x].size >= n
      BY <2>5, <3>2, Constants
    <3> QED
      BY <3>2, <3>3, <3>4, <3>5 DEF IsFirst
  <2>7. at' = [at EXCEPT ![t] = "idle"]
    BY <2>4, <2>6 DEF kmalloc, kmalloc_found
  <2> QED
    BY <2>7 DEF Inv, Types
<1>2. ASSUME ~Preemptible PROVE Spec => OnePageIsEnough
  <2>1. Spec => []Inv
    BY <1>2, Invariant
  <2>2. Inv /\ [Next]_vars =>
          [\A t \in Thread : at[t] = "grow" /\ want[t] <= PAGE_SIZE - HDR => at'[t] = "idle"]_vars
    BY <1>1, <1>2
  <2> QED
    BY <2>1, <2>2, PTL DEF Spec, OnePageIsEnough
<1> QED
  BY <1>2

\* An allocation is a stretch of the heap that no other one shares.
LEMMA AllocIsNew ==
  ASSUME Inv, ~Preemptible, NEW t \in Thread, NEW n \in Sizes, MayRun(t),
         at[t] \in {"idle", "grow"}, FirstFit(n) # NULL, kmalloc_found(t, FirstFit(n), n)
  PROVE  Heap!Alloc
<1> DEFINE b == FirstFit(n)
           r == [addr |-> b + HDR, size |-> n]
<1>1. List(hdr, Blocks, kheap_end) /\ Leads(hdr, Blocks, free_head)
  BY CallFacts
<1>2. n \in Nat /\ n > 0
  BY KHeapAssumption
<1>3. b \in Blocks /\ hdr[b].free /\ hdr[b].size >= n
  <2>1. IsFirst(hdr, Blocks, free_head, n, b)
    BY <1>1, <1>2, FitIs
  <2> QED
    BY <2>1 DEF IsFirst
<1>4. live' = live \cup {r}
  BY DEF kmalloc_found
<1> HIDE DEF b
<1>5. /\ \A x \in Blocks : x \in Nat /\ head <= x /\ hdr[x].size \in Nat
      /\ b + HDR + hdr[b].size <= kheap_end /\ kheap_end <= PageEnd(MaxPages) /\ kheap_end \in Nat
  BY <1>1, <1>3, ListFacts, InHeap DEF List
<1>6. b + HDR \in kheap_start..PageEnd(MaxPages) - 1 /\ b + HDR + n - 1 <= PageEnd(MaxPages) - 1
  BY <1>2, <1>3, <1>5, Constants, Addresses DEF head
<1>7. ASSUME NEW s \in live PROVE Heap!Bytes(r) \cap Heap!Bytes(s) = {}
  <2>1. PICK x \in Blocks : ~hdr[x].free /\ s = [addr |-> x + HDR, size |-> hdr[x].size]
    BY DEF Inv, InvOn, Holds
  <2>2. x # b /\ x \in Nat /\ b \in Nat
    BY <1>3, <1>5, <2>1
  <2>3. x < b => x + HDR + hdr[x].size <= b
    BY <1>1, <1>3, Apart
  <2>4. b < x => b + HDR + hdr[b].size <= x
    BY <1>1, <1>3, Apart
  <2>5. /\ Heap!Bytes(r) = b + HDR..b + HDR + n - 1
        /\ Heap!Bytes(s) = x + HDR..x + HDR + hdr[x].size - 1
    BY <2>1 DEF Heap!Bytes
  <2>6. hdr[x].size \in Nat /\ hdr[b].size \in Nat /\ HDR \in Nat
    BY <1>3, <1>5, Constants
  <2> HIDE DEF r
  <2>7. CASE x < b
    <3>1. x + HDR + hdr[x].size <= b
      BY <2>3, <2>7
    <3> QED
      BY <1>2, <2>2, <2>5, <2>6, <3>1
  <2>8. CASE b < x
    <3>1. b + HDR + n <= x
      BY <1>2, <1>3, <2>2, <2>4, <2>6, <2>8
    <3> QED
      BY <1>2, <2>2, <2>5, <2>6, <3>1
  <2> QED
    BY <2>2, <2>7, <2>8
<1> QED
  BY <1>4, <1>6, <1>7 DEF Heap!Alloc

\* The heap does what Allocator promises: no two allocations share a byte.
THEOREM HeapImplementsAllocator == ~Preemptible /\ Spec => ImplementsAllocator
<1>1. Init => Heap!Init
  BY DEF Init, Heap!Init
<1>2. ASSUME ~Preemptible PROVE Inv /\ [Next]_vars => [Heap!Alloc \/ Heap!Free]_live
  <2> SUFFICES ASSUME Inv, Next PROVE Heap!Alloc \/ Heap!Free \/ live' = live
    BY DEF vars
  <2>1. PICK t \in Thread :
          \/ \E n \in Sizes : kmalloc(t, n)
          \/ \E r \in live : kfree(t, r)
          \/ kfree_next(t)
          \/ kfree_prev(t)
          \/ kfree_head(t)
    BY DEF Next
  <2>2. ASSUME NEW n \in Sizes, kmalloc(t, n) PROVE Heap!Alloc \/ live' = live
    <3>1. MayRun(t) /\ at[t] \in {"idle", "grow"}
      BY <2>2 DEF kmalloc
    <3>2. CASE FirstFit(n) # NULL
      BY <1>2, <2>2, <3>1, <3>2, AllocIsNew DEF kmalloc
    <3>3. CASE FirstFit(n) = NULL
      BY <2>2, <3>3 DEF kmalloc, kmalloc_grow
    <3> QED
      BY <3>2, <3>3
  <2>3. ASSUME NEW r \in live, kfree(t, r) PROVE Heap!Free
    BY <2>3 DEF kfree, Heap!Free
  <2>4. CASE kfree_next(t) \/ kfree_prev(t) \/ kfree_head(t)
    BY <2>4 DEF kfree_next, kfree_prev, kfree_head
  <2> QED
    BY <2>1, <2>2, <2>3, <2>4
<1>3. ASSUME ~Preemptible PROVE Spec => ImplementsAllocator
  <2>1. Spec => []Inv
    BY <1>3, Invariant
  <2>2. Inv /\ [Next]_vars => [Heap!Alloc \/ Heap!Free]_live
    BY <1>2, <1>3
  <2> QED
    BY <1>1, <2>1, <2>2, PTL DEF Spec, ImplementsAllocator, Heap!Spec
<1> QED
  BY <1>3

==============================================================================
