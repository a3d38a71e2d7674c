-------------------------- MODULE AddressSpaceProofs --------------------------
(***************************************************************************)
(* What AddressSpace keeps, for every memory map, layout of the kernel's   *)
(* part of virtual memory, set of programs and number of processes: types  *)
(* (TypeCorrect), one use for each frame (OneUse), the same kernel pages   *)
(* in every directory that maps them (PagesAgree), the boot's slots in     *)
(* every directory (SlotsReachAll), and in each process the bytes of its   *)
(* program (ImagesLoad).                                                   *)
(*                                                                         *)
(* Three theorems name what they need beyond the assumptions on constants. *)
(* RegionsAreWhole: the memory map's usable regions give pmm_init no frame *)
(* that is only partly RAM.  ~Booted.panicked: the boot did not halt for   *)
(* want of memory.  InitStackInReach: the kernel stack of init, which is   *)
(* mapped after init's directory is copied, needs no table of its own.     *)
(*                                                                         *)
(* The invariant IInv is that of one kernel that runs on several           *)
(* directories.  Good says of the memory alone what the frames are for;    *)
(* Agree and Laid say where two directories may differ: above the break at *)
(* which the newer was copied, and nowhere among the slots the boot        *)
(* filled; Images says what a process finds in its pages.  Every operation *)
(* on memory has a lemma that it keeps these parts; the lemma on map_page  *)
(* carries the argument and the others are sequences of it.                *)
(***************************************************************************)
EXTENDS AddressSpace, SequenceTheorems, NaturalsInduction, WellFoundedInduction, TLAPS

-----------------------------------------------------------------------------
(***************************************************************************)
(* Numbers.                                                                *)
(***************************************************************************)
\* The least element of a set of naturals that is not empty.
LEMMA MinIsLeast ==
  ASSUME NEW T, T \subseteq Nat, T # {}
  PROVE  Min(T) \in T /\ \A y \in T : Min(T) <= y
<1>1. PICK x \in T : \A y \in T : <<y, x>> \notin OpToRel(<, Nat)
  BY WFMin, NatLessThanWellFounded, Zenon
<1>2. \A y \in T : ~(y < x)
  BY <1>1 DEF OpToRel
<1>3. \E z \in T : \A y \in T : z =< y
  BY <1>2
<1> QED
  BY <1>3, Zenon DEF Min

LEMMA MaxOfTwo ==
  ASSUME NEW x \in Nat, NEW y \in Nat
  PROVE  Max({x, y}) \in {x, y} /\ x <= Max({x, y}) /\ y <= Max({x, y})
<1>1. \E z \in {x, y} : \A w \in {x, y} : z >= w
  OBVIOUS
<1>2. Max({x, y}) \in {x, y} /\ \A w \in {x, y} : Max({x, y}) >= w
  BY <1>1, Zenon DEF Max
<1> QED
  BY <1>2

\* Induction over an initial segment of the naturals, for a set.
LEMMA Segment ==
  ASSUME NEW n \in Nat, NEW S, 0 \in S, \A i \in 1 .. n : i - 1 \in S => i \in S
  PROVE  n \in S
<1> DEFINE Missing == {i \in 0 .. n : i \notin S}
<1>1. SUFFICES ASSUME Missing # {} PROVE FALSE
  OBVIOUS
<1>2. PICK i \in Missing : \A j \in Missing : i <= j
  BY <1>1, MinIsLeast, Missing \subseteq Nat, Zenon
<1>3. i \in 1 .. n /\ i - 1 \notin Missing
  BY <1>2
<1> QED
  BY <1>2, <1>3

\* Quotient and remainder.
LEMMA Division ==
  ASSUME NEW a \in Nat, NEW b \in Nat \ {0}
  PROVE  /\ a \div b \in Nat
         /\ b * (a \div b) <= a
         /\ a < b * ((a \div b) + 1)
         /\ a % b \in Nat /\ a % b < b
         /\ a = b * (a \div b) + (a % b)
<1>1. a \div b \in Nat
  OBVIOUS
<1>2. a = b * (a \div b) + (a % b)
  OBVIOUS
<1>3. a % b \in Nat
  OBVIOUS
<1>4. a % b < b
  OBVIOUS
<1>5. b * (a \div b) <= a
  BY Z3
<1>6. a < b * ((a \div b) + 1)
  BY Z3
<1> QED
  BY <1>1, <1>2, <1>3, <1>4, <1>5, <1>6

LEMMA DivisionOrder ==
  ASSUME NEW a \in Nat, NEW b \in Nat \ {0}, NEW q \in Int
  PROVE  /\ a < b * q <=> a \div b < q
         /\ b * q <= a <=> q <= a \div b
<1> DEFINE d == a \div b
<1>1. d \in Nat /\ b * d <= a /\ a < b * (d + 1)
  BY Division
<1> HIDE DEF d
<1>2. ASSUME d < q PROVE a < b * q
  <2>1. b * (d + 1) <= b * q
    BY <1>1, <1>2
  <2> QED
    BY <1>1, <2>1
<1>3. ASSUME q <= d PROVE b * q <= a
  <2>1. b * q <= b * d
    BY <1>1, <1>3
  <2> QED
    BY <1>1, <2>1
<1>4. d < q \/ q <= d
  BY <1>1
<1>5. b * q \in Int
  OBVIOUS
<1> QED
  BY <1>1, <1>2, <1>3, <1>4, <1>5 DEF d

-----------------------------------------------------------------------------
(***************************************************************************)
(* Memory.                                                                 *)
(***************************************************************************)
\* The sum of the lengths is there, however many entries there are.
LEMMA TotalMemory == total_memory \in Nat
<1> DEFINE n == Len(MemoryMap)
           Add(i, s) == IF i \in Entries THEN (s + Length(MemoryMap[i])) % ADDRESSES ELSE s
           IsSum(j, f) == f = [i \in 0 .. j |-> IF i = 0 THEN 0 ELSE Add(i, f[i - 1])]
           S == {j \in 0 .. n : \E f : IsSum(j, f)}
<1>1. n \in Nat /\ \A i \in 1 .. n : MemoryMap[i] \in [base : Nat, length : Nat, usable : BOOLEAN]
  <2> DEFINE R == [base : Nat, length : Nat, usable : BOOLEAN]
  <2>1. MemoryMap \in Seq(R)
    BY PmmAssumption
  <2> HIDE DEF R
  <2>2. Len(MemoryMap) \in Nat /\ \A i \in 1 .. Len(MemoryMap) : MemoryMap[i] \in R
    BY <2>1
  <2> QED
    BY <2>2 DEF R
<1>2. \A i \in Entries : i \in 1 .. n /\ MemoryMap[i].base < ADDRESSES
  BY PmmAssumption DEF Entries
<1>3. \A i \in Entries : Length(MemoryMap[i]) \in Nat
  BY <1>1, <1>2, PmmAssumption DEF Length
<1>4. \A i \in 1 .. n, s \in Nat : Add(i, s) \in Nat
  <2>1. ADDRESSES \in Nat \ {0}
    BY PmmAssumption
  <2>2. \A i \in Entries, s \in Nat : (s + Length(MemoryMap[i])) % ADDRESSES \in Nat
    <3> SUFFICES ASSUME NEW i \in Entries, NEW s \in Nat
                 PROVE  (s + Length(MemoryMap[i])) % ADDRESSES \in Nat
      OBVIOUS
    <3>1. s + Length(MemoryMap[i]) \in Nat
      BY <1>3
    <3> QED
      BY ONLY <2>1, <3>1, Division
  <2> QED
    BY <2>2
<1> HIDE DEF n, Add
<1>5. 0 \in S
  <2>1. IsSum(0, [i \in 0 .. 0 |-> 0])
    OBVIOUS
  <2> HIDE DEF IsSum
  <2> QED
    BY <1>1, <2>1
<1>6. ASSUME NEW j \in 1 .. n, j - 1 \in S PROVE j \in S
  <2>1. PICK f : IsSum(j - 1, f)
    BY <1>6
  <2> DEFINE g == [i \in 0 .. j |-> IF i = j THEN Add(j, f[j - 1]) ELSE f[i]]
  <2>2. \A i \in 0 .. j - 1 : f[i] = IF i = 0 THEN 0 ELSE Add(i, f[i - 1])
    BY <2>1
  <2>3. \A i \in 0 .. j : g[i] = IF i = 0 THEN 0 ELSE Add(i, g[i - 1])
    BY <1>1, <2>2
  <2>4. IsSum(j, g)
    BY <2>3
  <2> HIDE DEF IsSum, g
  <2> QED
    BY <2>4
<1>7. \E f : IsSum(n, f)
  BY <1>1, <1>5, <1>6, Segment
<1> DEFINE sum == CHOOSE f : IsSum(n, f)
<1>8. IsSum(n, sum)
  BY <1>7
<1>9. total_memory = sum[n]
  BY DEF total_memory, Add, n
<1> HIDE DEF sum
<1>10. sum[0] = 0 /\ \A i \in 1 .. n : sum[i] = Add(i, sum[i - 1])
  BY <1>1, <1>8
<1> DEFINE Q == {i \in 0 .. n : sum[i] \in Nat}
<1>11. 0 \in Q /\ \A i \in 1 .. n : i - 1 \in Q => i \in Q
  BY <1>1, <1>4, <1>10
<1>12. n \in Q
  <2> HIDE DEF Q
  <2> QED
    BY <1>1, <1>11, Segment
<1> QED
  BY <1>9, <1>12

LEMMA MemorySizes ==
  /\ PAGE_SIZE \in Nat \ {0} /\ total_pages \in Nat /\ bitmap_size \in Nat
  /\ total_pages <= 8 * bitmap_size
  /\ FbPages \in Nat
<1>1. PAGE_SIZE \in Nat \ {0} /\ total_pages \in Nat
  BY PmmAssumption, TotalMemory, Division DEF total_pages
<1>2. bitmap_size \in Nat /\ total_pages <= 8 * bitmap_size
  BY <1>1 DEF bitmap_size
<1>3. Framebuffer.size + PAGE_SIZE - 1 \in Nat
  BY <1>1, PmmAssumption
<1>4. FbPages \in Nat
  BY <1>1, <1>3, Division DEF FbPages
<1> QED
  BY <1>1, <1>2, <1>4

\* More bytes from the same page on are more pages.
LEMMA MarkedMore ==
  ASSUME NEW a \in Nat, NEW b \in Nat, NEW l \in Nat, NEW n \in Nat,
         a \div PAGE_SIZE = b \div PAGE_SIZE, l <= n
  PROVE  Marked(a, l) \subseteq Marked(b, n)
<1> DEFINE p == a \div PAGE_SIZE
           c == (l + PAGE_SIZE - 1) \div PAGE_SIZE
           d == (n + PAGE_SIZE - 1) \div PAGE_SIZE
<1>1. PAGE_SIZE \in Nat \ {0} /\ l + PAGE_SIZE - 1 \in Nat /\ n + PAGE_SIZE - 1 \in Nat
  BY MemorySizes
<1>2. p \in Nat /\ c \in Nat /\ d \in Nat
  BY <1>1, Division
<1>3. PAGE_SIZE * c <= l + PAGE_SIZE - 1
  BY <1>1, Division
<1>4. c <= d
  <2>1. PAGE_SIZE * c <= n + PAGE_SIZE - 1
    BY <1>1, <1>2, <1>3
  <2> HIDE DEF c
  <2> QED
    BY <1>1, <1>2, <2>1, DivisionOrder
<1>5. Marked(a, l) = p .. p + c - 1 /\ Marked(b, n) = p .. p + d - 1
  BY DEF Marked
<1> HIDE DEF p, c, d
<1> QED
  BY <1>2, <1>4, <1>5

LEMMA PageBounds ==
  ASSUME NEW a \in Nat
  PROVE  /\ PageDown(a) \in Nat /\ PageDown(a) <= a
         /\ PageDown(a) \div PAGE_SIZE = a \div PAGE_SIZE
         /\ PageUp(a) \in Nat /\ a <= PageUp(a)
<1> DEFINE q == a \div PAGE_SIZE
           r == (a + PAGE_SIZE - 1) \div PAGE_SIZE
<1>1. PAGE_SIZE \in Nat \ {0} /\ a + PAGE_SIZE - 1 \in Nat
  BY MemorySizes
<1>2. q \in Nat /\ PAGE_SIZE * q <= a /\ r \in Nat
  BY <1>1, Division
<1>3. a + PAGE_SIZE - 1 < PAGE_SIZE * (r + 1)
  BY <1>1, Division
<1>4. PageDown(a) = q * PAGE_SIZE /\ PageUp(a) = r * PAGE_SIZE
  BY DEF PageDown, PageUp
<1> HIDE DEF q, r
<1>5. PageDown(a) = PAGE_SIZE * q /\ PageUp(a) = PAGE_SIZE * r
  BY <1>1, <1>2, <1>4
<1>6. PAGE_SIZE * q \in Nat /\ PAGE_SIZE * r \in Nat
  BY <1>1, <1>2
<1>7. PAGE_SIZE * (r + 1) = PAGE_SIZE * r + PAGE_SIZE /\ PAGE_SIZE * (q + 1) = PAGE_SIZE * q + PAGE_SIZE
  BY <1>1, <1>2
<1>8. a <= PageUp(a)
  BY <1>1, <1>3, <1>5, <1>6, <1>7
<1>9. (PAGE_SIZE * q) \div PAGE_SIZE = q
  <2> DEFINE x == PAGE_SIZE * q
  <2>1. q <= x \div PAGE_SIZE /\ x \div PAGE_SIZE < q + 1
    <3>1. PAGE_SIZE * q <= x /\ x < PAGE_SIZE * (q + 1) /\ x \in Nat
      BY <1>1, <1>6, <1>7
    <3> HIDE DEF x
    <3> QED
      BY <1>1, <1>2, <3>1, DivisionOrder
  <2>2. x \div PAGE_SIZE \in Nat
    BY <1>1, <1>6, Division
  <2> QED
    BY <1>2, <2>1, <2>2
<1> QED
  BY <1>2, <1>5, <1>6, <1>8, <1>9 DEF q

\* The frames that pmm_alloc_frame can ever hand out.
Pool == (1 .. total_pages - 1) \ pmm_init

LEMMA PoolIsFrames ==
  Pool \subseteq Nat \ {0} /\ \A f \in Pool : f < total_pages /\ f < 8 * bitmap_size
BY MemorySizes DEF Pool

\* They lie outside of what the kernel occupies.
LEMMA PoolApart == Pool \cap KernelFrames = {}
<1> SUFFICES ASSUME NEW f \in Pool, f \in KernelFrames PROVE FALSE
  OBVIOUS
<1>1. f \in 0 .. 8 * bitmap_size - 1 /\ f \notin pmm_init
  BY PoolIsFrames, MemorySizes DEF Pool
<1>2. /\ f \notin Marked(0, LOW)
      /\ f \notin Marked(PageDown(Kernel.start), PageUp(Kernel.end) - PageDown(Kernel.start))
      /\ f \notin Marked(bitmap_phys, PageUp(bitmap_phys + bitmap_size) - bitmap_phys)
      /\ f \notin Marked(Framebuffer.addr, Framebuffer.size)
  BY <1>1 DEF pmm_init, pmm_mark_used
<1>3. Kernel.start \in Nat /\ Kernel.end \in Nat /\ Kernel.start <= Kernel.end
  BY PmmAssumption
<1>4. bitmap_phys \in Nat
  BY <1>3, PageBounds DEF bitmap_phys
<1>5. f \notin Marked(Kernel.start, Kernel.end - Kernel.start)
  <2>1. PageUp(Kernel.end) - PageDown(Kernel.start) \in Nat
        /\ Kernel.end - Kernel.start <= PageUp(Kernel.end) - PageDown(Kernel.start)
        /\ Kernel.end - Kernel.start \in Nat
    BY <1>3, PageBounds
  <2>2. PageDown(Kernel.start) \in Nat
        /\ Kernel.start \div PAGE_SIZE = PageDown(Kernel.start) \div PAGE_SIZE
    BY <1>3, PageBounds
  <2> DEFINE s == Kernel.start
             e == Kernel.end
  <2>3. Marked(s, e - s) \subseteq Marked(PageDown(s), PageUp(e) - PageDown(s))
    <3> HIDE DEF s, e
    <3> QED
      BY <1>3, <2>1, <2>2, MarkedMore DEF s, e
  <2> QED
    BY <1>2, <2>3
<1>6. f \notin Marked(bitmap_phys, bitmap_size)
  <2>1. PageUp(bitmap_phys + bitmap_size) - bitmap_phys \in Nat
        /\ bitmap_size <= PageUp(bitmap_phys + bitmap_size) - bitmap_phys
    BY <1>4, MemorySizes, PageBounds
  <2> QED
    BY <1>2, <1>4, <2>1, MemorySizes, MarkedMore
<1> QED
  BY <1>2, <1>5, <1>6 DEF KernelFrames

\* On every machine whose usable regions above the first megabyte begin and end
\* with a page, they are memory.
RegionsAreWhole ==
  \A i \in Usable : Marked(MemoryMap[i].base, Length(MemoryMap[i])) \subseteq Ram \cup KernelFrames

LEMMA PoolIsRam == RegionsAreWhole => Pool \subseteq Ram
<1> SUFFICES ASSUME RegionsAreWhole, NEW f \in Pool PROVE f \in Ram
  OBVIOUS
<1>1. f \in 0 .. 8 * bitmap_size - 1 /\ f \notin pmm_init
  BY PoolIsFrames, MemorySizes DEF Pool
<1>2. PICK r \in usable_regions : f \in Marked(r.base, Length(r))
  BY <1>1 DEF pmm_init, pmm_mark_used
<1>3. PICK i \in Usable : r = MemoryMap[i]
  BY DEF usable_regions
<1> QED
  BY <1>2, <1>3, PoolApart DEF RegionsAreWhole

-----------------------------------------------------------------------------
(***************************************************************************)
(* The machine: what holds of directories and tables at every moment.      *)
(***************************************************************************)
Fields == {"bitmap", "panicked", "dir", "table", "bytes", "new", "kheap_end", "large_alloc_base"}

Special  == {TEMP_PD_SLOT, TEMP_FRAME_SLOT, TEMP_PT_SLOT, RECURSIVE_SLOT}
Ordinary == Slot \ Special

Fb == Marked(Framebuffer.addr, Framebuffer.size)

LEMMA Layout ==
  /\ ENTRIES \in Nat \ {0} /\ SLOTS \in Nat /\ KERNEL_SLOT \in Nat \ {0}
  /\ Special \subseteq Slot /\ \A s \in Special : KERNEL_SLOT < s /\ TEMP_PD_SLOT <= s
  /\ TEMP_PD_SLOT \in Nat /\ TEMP_FRAME_SLOT # RECURSIVE_SLOT
  /\ TEMP_PT_SLOT # RECURSIVE_SLOT /\ TEMP_PD_SLOT # RECURSIVE_SLOT
  /\ RECURSIVE_SLOT \in Slot
  /\ 0 \in Ordinary /\ KERNEL_SLOT \in Ordinary
BY PagingAssumption DEF Special, Ordinary, Slot

LEMMA BootFrames ==
  /\ kernel_pd \notin Pool \cup Fb \cup {0} /\ page_table_low \notin Pool \cup Fb \cup {0}
  /\ kernel_pd # page_table_low
  /\ Pool \cap Fb = {}
<1>1. /\ kernel_pd \in KernelFrames /\ page_table_low \in KernelFrames
      /\ Fb \subseteq KernelFrames
  BY PagingAssumption DEF KernelFrames, Fb
<1> QED
  BY <1>1, PagingAssumption, PoolApart DEF Fb

\* The frames that pmm_alloc_frame has handed out.
Given(m) == Pool \cap m.bitmap

Shape(m) ==
  /\ DOMAIN m = Fields /\ m.panicked \in BOOLEAN
  /\ pmm_init \subseteq m.bitmap /\ m.bitmap \subseteq 0 .. 8 * bitmap_size - 1
  /\ DOMAIN m.dir \subseteq {kernel_pd} \cup Given(m) /\ kernel_pd \in DOMAIN m.dir
  /\ DOMAIN m.table \subseteq {page_table_low} \cup Given(m) /\ page_table_low \in DOMAIN m.table
  /\ DOMAIN m.bytes \subseteq Given(m)
  /\ DOMAIN m.dir \cap DOMAIN m.table = {}

DirsOK(m) ==
  \A d \in DOMAIN m.dir :
    /\ m.dir[d] \in [Slot -> Nat]
    /\ m.dir[d][RECURSIVE_SLOT] = d
    /\ \A s \in Special \ {RECURSIVE_SLOT} : m.dir[d][s] = 0
    /\ \A s \in Ordinary : m.dir[d][s] \in {0} \cup DOMAIN m.table

TablesOK(m) == \A t \in DOMAIN m.table : m.table[t] \in [Index -> Nat]

\* The tables with the pages that frames were handed out for.
NewTables(m) == DOMAIN m.table \ {page_table_low}

LeavesOK(m) ==
  \A t \in NewTables(m), i \in Index :
    m.table[t][i] \in {0} \cup Fb \cup (Given(m) \ (DOMAIN m.dir \cup DOMAIN m.table))

LeafOnce(m) ==
  \A t, u \in NewTables(m), i, j \in Index :
    m.table[t][i] # 0 /\ m.table[t][i] = m.table[u][j] => t = u /\ i = j

\* A table is in one slot, though in that slot of several directories, and under
\* the kernel's base of one.  (Slot 0 of the kernel's directory is boot.s's.)
Counts(d, s) == d # kernel_pd \/ s # 0

SlotOnce(m) ==
  \A d, e \in DOMAIN m.dir, s, r \in Ordinary :
    Counts(d, s) /\ Counts(e, r) /\ m.dir[d][s] # 0 /\ m.dir[d][s] = m.dir[e][r]
      => s = r /\ (s < KERNEL_SLOT => d = e)

Good(m) == Shape(m) /\ DirsOK(m) /\ TablesOK(m) /\ LeavesOK(m) /\ LeafOnce(m) /\ SlotOnce(m)

\* A frame in hand: handed out, and not in use yet.
NoLeaf(m, f) == \A t \in NewTables(m), i \in Index : m.table[t][i] # f

Fresh(m, f) ==
  /\ f \in Given(m) \ (DOMAIN m.dir \cup DOMAIN m.table \cup DOMAIN m.bytes)
  /\ NoLeaf(m, f)

\* pmm_alloc_frame panics or hands out a frame.
Panicked(m)  == [m EXCEPT !.panicked = TRUE]
Taking(m, f) == [m EXCEPT !.bitmap = @ \cup {f}]

LEMMA AllocIs ==
  ASSUME NEW m, Shape(m)
  PROVE  \/ pmm_alloc_frame(m) = [m |-> Panicked(m), frame |-> 0]
         \/ \E f \in Pool \ m.bitmap : pmm_alloc_frame(m) = [m |-> Taking(m, f), frame |-> f]
<1>1. CASE FreeFrames(m) = {}
  BY <1>1 DEF pmm_alloc_frame, Panicked
<1>2. CASE FreeFrames(m) # {}
  <2> DEFINE f == Min(FreeFrames(m))
  <2>1. FreeFrames(m) \subseteq Nat
    BY MemorySizes DEF FreeFrames
  <2>2. f \in FreeFrames(m)
    BY <1>2, <2>1, MinIsLeast
  <2>3. f \in Pool \ m.bitmap
    BY <2>2 DEF FreeFrames, Pool, Shape
  <2>4. pmm_alloc_frame(m) = [m |-> Taking(m, f), frame |-> f]
    BY <1>2 DEF pmm_alloc_frame, Taking
  <2> HIDE DEF f
  <2> QED
    BY <2>3, <2>4
<1> QED
  BY <1>1, <1>2

LEMMA PanickedGood ==
  ASSUME NEW m, Good(m)
  PROVE  /\ Good(Panicked(m)) /\ Panicked(m).panicked
         /\ \A x \in Fields \ {"panicked"} : Panicked(m)[x] = m[x]
<1> DEFINE k == Panicked(m)
<1>1. DOMAIN m = Fields
  BY DEF Good, Shape
<1>2. DOMAIN k = Fields /\ k.panicked /\ \A x \in Fields \ {"panicked"} : k[x] = m[x]
  BY <1>1 DEF Fields, Panicked
<1>3. /\ k.bitmap = m.bitmap /\ k.dir = m.dir /\ k.table = m.table /\ k.bytes = m.bytes
      /\ k.panicked \in BOOLEAN
  BY <1>1 DEF Fields, Panicked
<1> HIDE DEF k
<1>4. Good(k)
  BY <1>2, <1>3 DEF Good, Shape, DirsOK, TablesOK, LeavesOK, LeafOnce, SlotOnce, NewTables, Given
<1> QED
  BY <1>2, <1>4 DEF k

LEMMA TakingGood ==
  ASSUME NEW m, NEW f, Good(m), f \in Pool \ m.bitmap
  PROVE  /\ Good(Taking(m, f)) /\ Fresh(Taking(m, f), f)
         /\ \A h : Fresh(m, h) => Fresh(Taking(m, f), h) /\ h # f
         /\ \A x \in Fields \ {"bitmap"} : Taking(m, f)[x] = m[x]
<1> DEFINE k == Taking(m, f)
<1>1. DOMAIN m = Fields
  BY DEF Good, Shape
<1>2. DOMAIN k = Fields /\ k.bitmap = m.bitmap \cup {f}
      /\ \A x \in Fields \ {"bitmap"} : k[x] = m[x]
  BY <1>1 DEF Fields, Taking
<1>3. k.dir = m.dir /\ k.table = m.table /\ k.bytes = m.bytes /\ k.panicked = m.panicked
  BY <1>1 DEF Fields, Taking
<1> HIDE DEF k
<1>4. f \in Nat /\ f < 8 * bitmap_size /\ 8 * bitmap_size \in Nat
  <2>1. f \in Nat /\ f < 8 * bitmap_size
    BY ONLY PoolIsFrames, f \in Pool
  <2> QED
    BY <2>1, MemorySizes
<1>5. Given(m) \subseteq Given(k) /\ f \in Given(k) /\ f \notin Given(m)
  BY <1>2 DEF Given
<1>6. Shape(k)
  BY <1>2, <1>3, <1>4, <1>5 DEF Good, Shape
<1>7. LeavesOK(k)
  BY <1>3, <1>5 DEF Good, LeavesOK, NewTables
<1>8. Good(k)
  BY <1>3, <1>6, <1>7 DEF Good, DirsOK, TablesOK, LeafOnce, SlotOnce, NewTables
<1>9. Fresh(k, f)
  <2>1. f \notin DOMAIN m.dir \cup DOMAIN m.table \cup DOMAIN m.bytes
    BY <1>5, BootFrames DEF Good, Shape
  <2>2. NoLeaf(m, f)
    BY <1>5, BootFrames, PoolIsFrames DEF Good, LeavesOK, NoLeaf
  <2> QED
    BY <1>3, <1>5, <2>1, <2>2 DEF Fresh, NoLeaf, NewTables
<1>10. \A h : Fresh(m, h) => Fresh(k, h) /\ h # f
  BY <1>3, <1>5 DEF Fresh, NoLeaf, NewTables
<1> QED
  BY <1>2, <1>8, <1>9, <1>10 DEF k

\* A new table, and a new entry in a table.
Tabled(m, pd, s, f)  == [m EXCEPT !.dir[pd][s] = f, !.table = Added(@, f, NoTable)]
Entered(m, t, i, f)  == [m EXCEPT !.table[t][i] = f]

IsTabled(m, k, pd, s, f) ==
  /\ DOMAIN k = Fields /\ \A x \in Fields \ {"dir", "table"} : k[x] = m[x]
  /\ DOMAIN k.dir = DOMAIN m.dir /\ DOMAIN k.table = DOMAIN m.table \cup {f}
  /\ k.dir[pd] = [m.dir[pd] EXCEPT ![s] = f]
  /\ \A d \in DOMAIN m.dir : d # pd => k.dir[d] = m.dir[d]
  /\ \A d \in DOMAIN m.dir, r \in Slot :
       k.dir[d][r] = IF d = pd /\ r = s THEN f ELSE m.dir[d][r]
  /\ k.table[f] = NoTable /\ \A t \in DOMAIN m.table : k.table[t] = m.table[t]

LEMMA TabledIs ==
  ASSUME NEW m, NEW pd, NEW s, NEW f, Good(m), pd \in DOMAIN m.dir, s \in Slot,
         f \notin DOMAIN m.table
  PROVE  IsTabled(m, Tabled(m, pd, s, f), pd, s, f)
<1> DEFINE k == Tabled(m, pd, s, f)
<1>1. DOMAIN m = Fields /\ \A d \in DOMAIN m.dir : DOMAIN m.dir[d] = Slot
  BY DEF Good, Shape, DirsOK
<1>2. /\ DOMAIN k = Fields /\ \A x \in Fields \ {"dir", "table"} : k[x] = m[x]
      /\ k.dir = [m.dir EXCEPT ![pd] = [m.dir[pd] EXCEPT ![s] = f]]
      /\ k.table = Added(m.table, f, NoTable)
  BY <1>1 DEF Fields, Tabled
<1> HIDE DEF k
<1>3. /\ DOMAIN k.table = DOMAIN m.table \cup {f}
      /\ k.table[f] = NoTable /\ \A t \in DOMAIN m.table : k.table[t] = m.table[t]
  BY <1>2 DEF Added
<1>4. /\ DOMAIN k.dir = DOMAIN m.dir /\ k.dir[pd] = [m.dir[pd] EXCEPT ![s] = f]
      /\ \A d \in DOMAIN m.dir : d # pd => k.dir[d] = m.dir[d]
  BY <1>2
<1>5. \A d \in DOMAIN m.dir, r \in Slot :
        k.dir[d][r] = IF d = pd /\ r = s THEN f ELSE m.dir[d][r]
  BY <1>1, <1>4
<1> QED
  BY <1>2, <1>3, <1>4, <1>5 DEF k, IsTabled

LEMMA TabledGood ==
  ASSUME NEW m, NEW k, NEW pd, NEW s, NEW f, IsTabled(m, k, pd, s, f), Good(m),
         pd \in DOMAIN m.dir, s \in Ordinary, Counts(pd, s), m.dir[pd][s] = 0, Fresh(m, f)
  PROVE  Good(k) /\ \A h : Fresh(m, h) /\ h # f => Fresh(k, h)
<1>1. /\ k.bitmap = m.bitmap /\ k.bytes = m.bytes /\ k.panicked = m.panicked
      /\ Given(k) = Given(m)
  BY DEF IsTabled, Fields, Given
<1>2. /\ f \in Given(m) /\ f \notin DOMAIN m.dir /\ f \notin DOMAIN m.table /\ f \in Nat \ {0}
      /\ f # page_table_low
  BY PoolIsFrames, BootFrames DEF Fresh, Given
<1>3. Shape(k)
  BY <1>1, <1>2 DEF IsTabled, Good, Shape
<1>4. NewTables(k) = NewTables(m) \cup {f}
  BY <1>2 DEF IsTabled, NewTables
<1>5. \A i \in Index : k.table[f][i] = 0
  BY DEF IsTabled, NoTable
<1>6. TablesOK(k)
  BY <1>2 DEF IsTabled, Good, TablesOK, NoTable
<1>7. \A t \in NewTables(m), i \in Index : k.table[t][i] = m.table[t][i]
  BY DEF IsTabled, NewTables
<1>8. LeavesOK(k)
  BY <1>1, <1>4, <1>5, <1>7 DEF IsTabled, Good, LeavesOK, Fresh, NoLeaf
<1>9. LeafOnce(k)
  BY <1>4, <1>5, <1>7 DEF Good, LeafOnce
<1>10. DirsOK(k)
  <2> SUFFICES ASSUME NEW d \in DOMAIN m.dir
               PROVE  /\ k.dir[d] \in [Slot -> Nat]
                      /\ k.dir[d][RECURSIVE_SLOT] = d
                      /\ \A r \in Special \ {RECURSIVE_SLOT} : k.dir[d][r] = 0
                      /\ \A r \in Ordinary : k.dir[d][r] \in {0} \cup DOMAIN k.table
    BY DEF IsTabled, DirsOK
  <2>1. /\ m.dir[d] \in [Slot -> Nat] /\ m.dir[d][RECURSIVE_SLOT] = d
        /\ \A r \in Special \ {RECURSIVE_SLOT} : m.dir[d][r] = 0
        /\ \A r \in Ordinary : m.dir[d][r] \in {0} \cup DOMAIN m.table
    BY DEF Good, DirsOK
  <2>2. s \in Slot /\ s \notin Special /\ Special \subseteq Slot /\ RECURSIVE_SLOT \in Special
    BY Layout DEF Ordinary, Special
  <2>3. k.dir[d] \in [Slot -> Nat]
    BY <1>2, <2>1, <2>2 DEF IsTabled
  <2>4. \A r \in Special : k.dir[d][r] = m.dir[d][r]
    BY <2>2 DEF IsTabled
  <2>5. \A r \in Ordinary : k.dir[d][r] \in {0} \cup DOMAIN k.table
    BY <2>1 DEF IsTabled, Ordinary
  <2> QED
    BY <2>1, <2>2, <2>3, <2>4, <2>5
<1>11. SlotOnce(k)
  <2> SUFFICES ASSUME NEW d \in DOMAIN m.dir, NEW e \in DOMAIN m.dir,
                      NEW q \in Ordinary, NEW r \in Ordinary, Counts(d, q), Counts(e, r),
                      k.dir[d][q] # 0, k.dir[d][q] = k.dir[e][r]
               PROVE  q = r /\ (q < KERNEL_SLOT => d = e)
    BY DEF IsTabled, SlotOnce
  <2>1. /\ k.dir[d][q] = IF d = pd /\ q = s THEN f ELSE m.dir[d][q]
        /\ k.dir[e][r] = IF e = pd /\ r = s THEN f ELSE m.dir[e][r]
    BY DEF IsTabled, Ordinary
  <2>2. m.dir[d][q] # f /\ m.dir[e][r] # f
    BY <1>2 DEF Good, DirsOK
  <2> QED
    BY <2>1, <2>2 DEF Good, SlotOnce
<1>12. \A h : Fresh(m, h) /\ h # f => Fresh(k, h)
  <2> SUFFICES ASSUME NEW h, Fresh(m, h), h # f PROVE Fresh(k, h)
    OBVIOUS
  <2>1. h # 0 /\ NoLeaf(k, h)
    BY <1>4, <1>5, <1>7, PoolIsFrames DEF Fresh, Given, NoLeaf
  <2> QED
    BY <1>1, <2>1 DEF IsTabled, Fresh
<1> QED
  BY <1>3, <1>6, <1>8, <1>9, <1>10, <1>11, <1>12 DEF Good

IsEntered(m, k, t, i, f) ==
  /\ DOMAIN k = Fields /\ \A x \in Fields \ {"table"} : k[x] = m[x]
  /\ DOMAIN k.table = DOMAIN m.table
  /\ k.table[t] = [m.table[t] EXCEPT ![i] = f]
  /\ \A u \in DOMAIN m.table : u # t => k.table[u] = m.table[u]
  /\ \A u \in DOMAIN m.table, j \in Index :
       k.table[u][j] = IF u = t /\ j = i THEN f ELSE m.table[u][j]

LEMMA EnteredIs ==
  ASSUME NEW m, NEW t, NEW i, NEW f, Good(m), t \in DOMAIN m.table, i \in Index
  PROVE  IsEntered(m, Entered(m, t, i, f), t, i, f)
<1> DEFINE k == Entered(m, t, i, f)
<1>1. DOMAIN m = Fields /\ \A u \in DOMAIN m.table : DOMAIN m.table[u] = Index
  BY DEF Good, Shape, TablesOK
<1>2. /\ DOMAIN k = Fields /\ \A x \in Fields \ {"table"} : k[x] = m[x]
      /\ k.table = [m.table EXCEPT ![t] = [m.table[t] EXCEPT ![i] = f]]
  BY <1>1 DEF Fields, Entered
<1> HIDE DEF k
<1>3. /\ DOMAIN k.table = DOMAIN m.table /\ k.table[t] = [m.table[t] EXCEPT ![i] = f]
      /\ \A u \in DOMAIN m.table : u # t => k.table[u] = m.table[u]
  BY <1>2
<1>4. \A u \in DOMAIN m.table, j \in Index :
        k.table[u][j] = IF u = t /\ j = i THEN f ELSE m.table[u][j]
  BY <1>1, <1>3
<1> QED
  BY <1>2, <1>3, <1>4 DEF k, IsEntered

\* What a page may be mapped to: a frame in hand, or one of the framebuffer.
Backing(m, f) == Fresh(m, f) \/ (f \in Fb /\ f \in Nat /\ NoLeaf(m, f))

LEMMA EnteredGood ==
  ASSUME NEW m, NEW k, NEW t, NEW i, NEW f, IsEntered(m, k, t, i, f), Good(m),
         t \in DOMAIN m.table, i \in Index, Backing(m, f)
  PROVE  Good(k) /\ \A h : Fresh(m, h) /\ h # f => Fresh(k, h)
<1>1. /\ k.bitmap = m.bitmap /\ k.bytes = m.bytes /\ k.panicked = m.panicked /\ k.dir = m.dir
      /\ Given(k) = Given(m) /\ NewTables(k) = NewTables(m)
  BY DEF IsEntered, Fields, Given, NewTables
<1>2. f \in Nat /\ f \in Fb \cup (Given(m) \ (DOMAIN m.dir \cup DOMAIN m.table)) /\ NoLeaf(m, f)
  BY PoolIsFrames DEF Backing, Fresh, Given
<1>3. Shape(k)
  BY <1>1 DEF IsEntered, Good, Shape
<1>4. DirsOK(k) /\ SlotOnce(k)
  BY <1>1 DEF IsEntered, Good, DirsOK, SlotOnce
<1>5. TablesOK(k)
  BY <1>2 DEF IsEntered, Good, TablesOK
<1>6. \A u \in NewTables(m), j \in Index :
        k.table[u][j] = IF u = t /\ j = i THEN f ELSE m.table[u][j]
  BY DEF IsEntered, NewTables
<1>7. LeavesOK(k)
  BY <1>1, <1>2, <1>6 DEF IsEntered, Good, LeavesOK
<1>8. LeafOnce(k)
  <2> SUFFICES ASSUME NEW u \in NewTables(m), NEW v \in NewTables(m),
                      NEW j \in Index, NEW l \in Index,
                      k.table[u][j] # 0, k.table[u][j] = k.table[v][l]
               PROVE  u = v /\ j = l
    BY <1>1 DEF LeafOnce
  <2>1. m.table[u][j] # f /\ m.table[v][l] # f
    BY <1>2 DEF NoLeaf
  <2> QED
    BY <1>6, <2>1 DEF Good, LeafOnce
<1>9. \A h : Fresh(m, h) /\ h # f => Fresh(k, h)
  BY <1>1, <1>6 DEF IsEntered, Fresh, NoLeaf
<1> QED
  BY <1>3, <1>4, <1>5, <1>7, <1>8, <1>9 DEF Good

\* A new directory.
IsDirectoried(m, k, cur, f) ==
  /\ DOMAIN k = Fields /\ \A x \in Fields \ {"dir"} : k[x] = m[x]
  /\ DOMAIN k.dir = DOMAIN m.dir \cup {f}
  /\ \A d \in DOMAIN m.dir : k.dir[d] = m.dir[d]
  /\ k.dir[f] = NewDirectory(m.dir[cur], f)

\* What uprocess_create_pagedir does besides taking the frame.
LEMMA ClearedAnyway ==
  ASSUME NEW m, Good(m), NEW d \in DOMAIN m.dir, NEW s \in Special \ {RECURSIVE_SLOT}
  PROVE  [m.dir EXCEPT ![d] = [m.dir[d] EXCEPT ![s] = 0]]
           = [e \in DOMAIN m.dir |-> m.dir[e]]
<1>1. m.dir[d] \in [Slot -> Nat] /\ m.dir[d][s] = 0
  BY DEF Good, DirsOK
<1>2. [m.dir[d] EXCEPT ![s] = 0] = m.dir[d]
  BY <1>1
<1> QED
  BY <1>2

LEMMA PagedirIs ==
  ASSUME NEW m, NEW cur, Good(m), ~m.panicked, cur \in DOMAIN m.dir
  PROVE  \/ uprocess_create_pagedir(m, cur) = [m |-> Panicked(m), frame |-> 0]
         \/ \E f \in Pool \ m.bitmap :
              /\ uprocess_create_pagedir(m, cur).frame = f
              /\ IsDirectoried(Taking(m, f), uprocess_create_pagedir(m, cur).m, cur, f)
<1> DEFINE a == pmm_alloc_frame(m)
<1>1. Shape(m)
  BY DEF Good
<1>2. CASE a = [m |-> Panicked(m), frame |-> 0]
  <2>1. a.m.panicked
    BY <1>2, PanickedGood
  <2> QED
    BY <1>2, <2>1 DEF uprocess_create_pagedir
<1>3. ASSUME NEW f \in Pool \ m.bitmap, a = [m |-> Taking(m, f), frame |-> f]
      PROVE  /\ uprocess_create_pagedir(m, cur).frame = f
             /\ IsDirectoried(Taking(m, f), uprocess_create_pagedir(m, cur).m, cur, f)
  <2> DEFINE k == Taking(m, f)
             from == [m.dir[cur] EXCEPT ![TEMP_PD_SLOT] = f]
             u == uprocess_create_pagedir(m, cur)
  <2>1. Good(k) /\ k.dir = m.dir /\ ~k.panicked /\ DOMAIN k = Fields
    BY TakingGood DEF Fields, Good, Shape
  <2>2. u = [a EXCEPT !.m = [k EXCEPT !.dir =
               Added([k.dir EXCEPT ![cur] = [k.dir[cur] EXCEPT ![TEMP_PD_SLOT] = 0]],
                     f, NewDirectory(from, f))]]
    BY <1>3, <2>1 DEF uprocess_create_pagedir
  <2>3. NewDirectory(from, f) = NewDirectory(m.dir[cur], f)
    <3>1. DOMAIN m.dir[cur] = Slot
      BY DEF Good, DirsOK
    <3>2. \A s \in Slot : s # TEMP_PD_SLOT => from[s] = m.dir[cur][s]
      BY <3>1
    <3> HIDE DEF from
    <3> QED
      BY <3>2 DEF NewDirectory
  <2>4. [k.dir EXCEPT ![cur] = [k.dir[cur] EXCEPT ![TEMP_PD_SLOT] = 0]]
          = [e \in DOMAIN m.dir |-> m.dir[e]]
    BY <2>1, ClearedAnyway, Layout DEF Special
  <2> DEFINE D == Added([e \in DOMAIN m.dir |-> m.dir[e]], f, NewDirectory(m.dir[cur], f))
  <2> HIDE DEF k, from
  <2>5. u.m = [k EXCEPT !.dir = D] /\ u.frame = f
    BY <1>3, <2>2, <2>3, <2>4
  <2>6. /\ DOMAIN D = DOMAIN m.dir \cup {f} /\ D[f] = NewDirectory(m.dir[cur], f)
        /\ \A d \in DOMAIN m.dir : d # f => D[d] = m.dir[d]
    BY DEF Added
  <2> HIDE DEF D, u
  <2>7. f \notin DOMAIN m.dir
    BY <1>3, <1>1, BootFrames DEF Shape, Given
  <2>8. DOMAIN u.m = Fields /\ (\A x \in Fields \ {"dir"} : u.m[x] = k[x]) /\ u.m.dir = D
    BY <2>1, <2>5 DEF Fields
  <2> QED
    BY <2>1, <2>5, <2>6, <2>7, <2>8 DEF IsDirectoried, k, u
<1> QED
  BY <1>1, <1>2, <1>3, AllocIs

LEMMA NewDirectoryIs ==
  ASSUME NEW m, Good(m), NEW cur \in DOMAIN m.dir, NEW f \in Nat
  PROVE  /\ NewDirectory(m.dir[cur], f) \in [Slot -> Nat]
         /\ NewDirectory(m.dir[cur], f)[RECURSIVE_SLOT] = f
         /\ \A s \in Special \ {RECURSIVE_SLOT} : NewDirectory(m.dir[cur], f)[s] = 0
         /\ \A s \in Ordinary :
              NewDirectory(m.dir[cur], f)[s] = IF s < KERNEL_SLOT THEN 0 ELSE m.dir[cur][s]
<1> DEFINE D == NewDirectory(m.dir[cur], f)
<1>1. /\ m.dir[cur] \in [Slot -> Nat]
      /\ \A s \in Special \ {RECURSIVE_SLOT} : m.dir[cur][s] = 0
  BY DEF Good, DirsOK
<1>2. \A s \in Slot : /\ s < KERNEL_SLOT => D[s] = 0
                      /\ s >= KERNEL_SLOT /\ s = RECURSIVE_SLOT => D[s] = f
                      /\ s >= KERNEL_SLOT /\ s = TEMP_PD_SLOT => D[s] = 0
                      /\ s >= KERNEL_SLOT /\ s \notin {RECURSIVE_SLOT, TEMP_PD_SLOT}
                           => D[s] = m.dir[cur][s]
  <2> SUFFICES ASSUME NEW s \in Slot
               PROVE  /\ s < KERNEL_SLOT => D[s] = 0
                      /\ s >= KERNEL_SLOT /\ s = RECURSIVE_SLOT => D[s] = f
                      /\ s >= KERNEL_SLOT /\ s = TEMP_PD_SLOT => D[s] = 0
                      /\ s >= KERNEL_SLOT /\ s \notin {RECURSIVE_SLOT, TEMP_PD_SLOT}
                           => D[s] = m.dir[cur][s]
    OBVIOUS
  <2>1. D[s] = CASE s < KERNEL_SLOT    -> 0
                 [] s = RECURSIVE_SLOT -> f
                 [] s = TEMP_PD_SLOT   -> 0
                 [] OTHER              -> m.dir[cur][s]
    BY DEF NewDirectory
  <2>2. s \in Nat /\ KERNEL_SLOT \in Nat /\ RECURSIVE_SLOT # TEMP_PD_SLOT
    BY Layout DEF Slot
  <2>3. KERNEL_SLOT < RECURSIVE_SLOT /\ KERNEL_SLOT < TEMP_PD_SLOT
    BY Layout DEF Special
  <2> HIDE DEF D
  <2> QED
    BY <2>1, <2>2, <2>3
<1>3. D \in [Slot -> Nat]
  <2>1. \A s \in Slot : m.dir[cur][s] \in Nat
    BY <1>1
  <2> QED
    BY <2>1 DEF NewDirectory
<1> HIDE DEF D
<1>4. \A s \in Slot : s < KERNEL_SLOT \/ s >= KERNEL_SLOT
  BY Layout DEF Slot
<1>6. \A s \in Special : s \in Slot /\ s >= KERNEL_SLOT /\ ~(s < KERNEL_SLOT)
  BY Layout DEF Slot
<1>7. D[RECURSIVE_SLOT] = f
  BY <1>2, <1>6, Layout DEF Special
<1>8. \A s \in Special \ {RECURSIVE_SLOT} : D[s] = 0
  BY <1>1, <1>2, <1>6
<1>9. \A s \in Ordinary : D[s] = IF s < KERNEL_SLOT THEN 0 ELSE m.dir[cur][s]
  BY <1>2, <1>4 DEF Ordinary, Special
<1> QED
  BY <1>3, <1>7, <1>8, <1>9 DEF D

LEMMA DirectoriedGood ==
  ASSUME NEW m, NEW k, NEW cur \in DOMAIN m.dir, NEW f, IsDirectoried(m, k, cur, f), Good(m),
         Fresh(m, f)
  PROVE  /\ Good(k) /\ \A h : Fresh(m, h) /\ h # f => Fresh(k, h)
         /\ \A s \in Ordinary : k.dir[f][s] = IF s < KERNEL_SLOT THEN 0 ELSE m.dir[cur][s]
<1>1. /\ k.bitmap = m.bitmap /\ k.bytes = m.bytes /\ k.panicked = m.panicked /\ k.table = m.table
      /\ Given(k) = Given(m) /\ NewTables(k) = NewTables(m)
  BY DEF IsDirectoried, Fields, Given, NewTables
<1>2. /\ f \in Given(m) /\ f \notin DOMAIN m.dir /\ f \notin DOMAIN m.table /\ f \in Nat
      /\ NoLeaf(m, f)
  BY PoolIsFrames DEF Fresh, Given
<1>3. /\ k.dir[f] \in [Slot -> Nat] /\ k.dir[f][RECURSIVE_SLOT] = f
      /\ \A s \in Special \ {RECURSIVE_SLOT} : k.dir[f][s] = 0
      /\ \A s \in Ordinary : k.dir[f][s] = IF s < KERNEL_SLOT THEN 0 ELSE m.dir[cur][s]
  BY <1>2, NewDirectoryIs DEF IsDirectoried
<1>4. Shape(k)
  BY <1>1, <1>2 DEF IsDirectoried, Good, Shape
<1>5. TablesOK(k) /\ LeafOnce(k)
  BY <1>1 DEF IsDirectoried, Good, TablesOK, LeafOnce
<1>6. LeavesOK(k)
  BY <1>1, <1>2 DEF IsDirectoried, Good, LeavesOK, NoLeaf
<1>7. DirsOK(k)
  <2> SUFFICES ASSUME NEW d \in DOMAIN m.dir \cup {f}
               PROVE  /\ k.dir[d] \in [Slot -> Nat]
                      /\ k.dir[d][RECURSIVE_SLOT] = d
                      /\ \A r \in Special \ {RECURSIVE_SLOT} : k.dir[d][r] = 0
                      /\ \A r \in Ordinary : k.dir[d][r] \in {0} \cup DOMAIN m.table
    BY <1>1 DEF IsDirectoried, DirsOK
  <2>1. CASE d = f
    BY <1>3, <2>1 DEF Good, DirsOK
  <2>2. CASE d # f
    BY <2>2 DEF IsDirectoried, Good, DirsOK
  <2> QED
    BY <2>1, <2>2
<1>8. SlotOnce(k)
  <2> SUFFICES ASSUME NEW d \in DOMAIN k.dir, NEW e \in DOMAIN k.dir,
                      NEW q \in Ordinary, NEW r \in Ordinary, Counts(d, q), Counts(e, r),
                      k.dir[d][q] # 0, k.dir[d][q] = k.dir[e][r]
               PROVE  q = r /\ (q < KERNEL_SLOT => d = e)
    BY DEF SlotOnce
  <2> DEFINE of(x) == IF x = f THEN cur ELSE x
  <2>1. \A x \in DOMAIN k.dir, s \in Ordinary : k.dir[x][s] # 0 =>
          /\ of(x) \in DOMAIN m.dir /\ k.dir[x][s] = m.dir[of(x)][s]
          /\ x = f => ~(s < KERNEL_SLOT)
    BY <1>2, <1>3 DEF IsDirectoried
  <2>2. \A x \in DOMAIN k.dir, s \in Ordinary :
          k.dir[x][s] # 0 /\ Counts(x, s) => Counts(of(x), s)
    BY <2>1, Layout DEF Counts
  <2>3. q = r /\ (q < KERNEL_SLOT => of(d) = of(e))
    <3> HIDE DEF of
    <3>1. m.dir[of(d)][q] # 0 /\ m.dir[of(d)][q] = m.dir[of(e)][r]
      BY <2>1
    <3>2. of(d) \in DOMAIN m.dir /\ of(e) \in DOMAIN m.dir /\ Counts(of(d), q) /\ Counts(of(e), r)
      BY <2>1, <2>2
    <3> QED
      BY <3>1, <3>2 DEF Good, SlotOnce
  <2> QED
    BY <2>1, <2>3
<1>9. \A h : Fresh(m, h) /\ h # f => Fresh(k, h)
  BY <1>1 DEF IsDirectoried, Fresh, NoLeaf
<1> QED
  BY <1>3, <1>4, <1>5, <1>6, <1>7, <1>8, <1>9 DEF Good

-----------------------------------------------------------------------------
(***************************************************************************)
(* Pages and where they are mapped.                                        *)
(***************************************************************************)
Pages == {v \in 0 .. SLOTS * ENTRIES - 1 : SlotOf(v) \notin Special}

LEMMA PageIs ==
  /\ \A v \in Pages : v \in Nat /\ SlotOf(v) \in Ordinary /\ IndexOf(v) \in Index
  /\ \A v, w \in Pages : SlotOf(v) = SlotOf(w) /\ IndexOf(v) = IndexOf(w) => v = w
<1>1. ENTRIES \in Nat \ {0} /\ SLOTS \in Nat
  BY Layout
<1>2. ASSUME NEW v \in Pages
      PROVE  /\ v \in Nat /\ SlotOf(v) \in Ordinary /\ IndexOf(v) \in Index
             /\ v = ENTRIES * SlotOf(v) + IndexOf(v)
  <2>1. v \in Nat /\ v < SLOTS * ENTRIES /\ SLOTS * ENTRIES = ENTRIES * SLOTS
    BY <1>1 DEF Pages
  <2>2. /\ SlotOf(v) \in Nat /\ IndexOf(v) \in Nat /\ IndexOf(v) < ENTRIES
        /\ v = ENTRIES * SlotOf(v) + IndexOf(v)
    BY <1>1, <2>1, Division DEF SlotOf, IndexOf
  <2>3. SlotOf(v) < SLOTS
    BY <1>1, <2>1, DivisionOrder DEF SlotOf
  <2> QED
    BY <1>1, <2>1, <2>2, <2>3 DEF Pages, Ordinary, Slot, Index
<1> QED
  BY <1>2

LEMMA KernelPageIs ==
  \A v \in KernelPages : v \in Pages /\ SlotOf(v) >= KERNEL_SLOT /\ SlotOf(v) # 0
<1> SUFFICES ASSUME NEW v \in KernelPages
             PROVE  v \in Pages /\ SlotOf(v) >= KERNEL_SLOT /\ SlotOf(v) # 0
  OBVIOUS
<1>1. ENTRIES \in Nat \ {0} /\ SLOTS \in Nat /\ KERNEL_SLOT \in Nat \ {0}
  BY Layout
<1>2. KERNEL_SLOT * ENTRIES \in Nat /\ KERNEL_SLOT * ENTRIES = ENTRIES * KERNEL_SLOT
  BY <1>1
<1>3. v \in Nat /\ v <= SLOTS * ENTRIES - 1 /\ ENTRIES * KERNEL_SLOT <= v
  BY <1>1, <1>2 DEF KernelPages
<1>4. v \in Pages
  BY <1>1, <1>3 DEF KernelPages, Pages, Special
<1>5. KERNEL_SLOT <= SlotOf(v) /\ SlotOf(v) \in Nat
  BY <1>1, <1>3, DivisionOrder, Division DEF SlotOf
<1> QED
  BY <1>1, <1>4, <1>5

\* The pages of users, and those between the boot table and the temporary slots.
LEMMA UserPageIs ==
  ASSUME NEW v \in Nat, v < KERNEL_SLOT * ENTRIES
  PROVE  v \in Pages /\ SlotOf(v) < KERNEL_SLOT
<1>1. ENTRIES \in Nat \ {0} /\ SLOTS \in Nat /\ KERNEL_SLOT \in Nat \ {0}
  BY Layout
<1>2. KERNEL_SLOT * ENTRIES = ENTRIES * KERNEL_SLOT /\ SLOTS * ENTRIES \in Nat
  BY <1>1
<1>3. SlotOf(v) < KERNEL_SLOT /\ SlotOf(v) \in Nat
  BY <1>1, <1>2, DivisionOrder, Division DEF SlotOf
<1>4. KERNEL_SLOT * ENTRIES <= SLOTS * ENTRIES
  <2>1. KERNEL_SLOT <= SLOTS
    BY <1>1, Layout DEF Slot, Ordinary
  <2> QED
    BY <1>1, <2>1
<1>5. SlotOf(v) \notin Special
  BY <1>1, <1>3, Layout DEF Slot
<1> QED
  BY <1>1, <1>2, <1>3, <1>4, <1>5 DEF Pages

LEMMA MiddlePageIs ==
  ASSUME NEW v \in Nat, (KERNEL_SLOT + 1) * ENTRIES <= v, v < TEMP_PD_SLOT * ENTRIES
  PROVE  v \in KernelPages /\ SlotOf(v) # KERNEL_SLOT
<1>1. ENTRIES \in Nat \ {0} /\ SLOTS \in Nat /\ KERNEL_SLOT \in Nat \ {0} /\ TEMP_PD_SLOT \in Nat
  BY Layout
<1>2. /\ TEMP_PD_SLOT * ENTRIES = ENTRIES * TEMP_PD_SLOT /\ SLOTS * ENTRIES \in Nat
      /\ KERNEL_SLOT * ENTRIES \in Nat
      /\ (KERNEL_SLOT + 1) * ENTRIES = ENTRIES * (KERNEL_SLOT + 1)
      /\ KERNEL_SLOT * ENTRIES <= (KERNEL_SLOT + 1) * ENTRIES
  BY <1>1
<1>3. SlotOf(v) < TEMP_PD_SLOT /\ SlotOf(v) \in Nat /\ KERNEL_SLOT + 1 <= SlotOf(v)
  BY <1>1, <1>2, DivisionOrder, Division DEF SlotOf
<1>4. TEMP_PD_SLOT * ENTRIES <= SLOTS * ENTRIES
  <2>1. TEMP_PD_SLOT <= SLOTS
    BY <1>1, Layout DEF Slot, Special
  <2> QED
    BY <1>1, <2>1
<1>5. SlotOf(v) \notin Special
  BY <1>1, <1>3, Layout DEF Slot
<1> QED
  BY <1>1, <1>2, <1>3, <1>4, <1>5 DEF KernelPages, Special

LEMMA TabledMaps ==
  ASSUME NEW m, NEW k, NEW pd, NEW s, NEW f, IsTabled(m, k, pd, s, f), Good(m),
         m.dir[pd][s] = 0, f \notin DOMAIN m.table,
         NEW d \in DOMAIN m.dir, NEW w \in Pages
  PROVE  Mapped(k, d, w) = Mapped(m, d, w)
<1> DEFINE r == SlotOf(w)
           t == m.dir[d][r]
<1>1. r \in Ordinary /\ r \in Slot /\ IndexOf(w) \in Index
  BY PageIs DEF Ordinary
<1>2. t \in {0} \cup DOMAIN m.table
  BY <1>1 DEF Good, DirsOK
<1>3. k.dir[d][r] = IF d = pd /\ r = s THEN f ELSE t
  BY <1>1 DEF IsTabled
<1>4. CASE d = pd /\ r = s
  <2>1. k.table[f][IndexOf(w)] = 0
    BY <1>1 DEF IsTabled, NoTable
  <2> QED
    BY <1>3, <1>4, <2>1 DEF Mapped
<1>5. CASE ~(d = pd /\ r = s)
  <2>1. k.dir[d][r] = t /\ (t # 0 => k.table[t] = m.table[t])
    BY <1>2, <1>3, <1>5 DEF IsTabled
  <2> QED
    BY <2>1 DEF Mapped
<1> QED
  BY <1>4, <1>5

\* The page that an entry f of the table t at v changes.
OnlyThisPage(m, k, v, t, f) ==
  \A d \in DOMAIN m.dir, w \in Pages :
    Counts(d, SlotOf(w)) =>
      Mapped(k, d, w) = IF w = v /\ m.dir[d][SlotOf(v)] = t THEN f ELSE Mapped(m, d, w)

LEMMA EnteredMaps ==
  ASSUME NEW m, NEW k, NEW t, NEW f, Good(m), NEW pd \in DOMAIN m.dir, NEW v \in Pages,
         IsEntered(m, k, t, IndexOf(v), f), Counts(pd, SlotOf(v)),
         t = m.dir[pd][SlotOf(v)], t # 0
  PROVE  OnlyThisPage(m, k, v, t, f)
<1> SUFFICES ASSUME NEW d \in DOMAIN m.dir, NEW w \in Pages, Counts(d, SlotOf(w))
             PROVE  Mapped(k, d, w) =
                      IF w = v /\ m.dir[d][SlotOf(v)] = t THEN f ELSE Mapped(m, d, w)
  BY DEF OnlyThisPage
<1> DEFINE r == SlotOf(w)
           u == m.dir[d][r]
<1>1. /\ r \in Ordinary /\ IndexOf(w) \in Index /\ SlotOf(v) \in Ordinary
      /\ SlotOf(v) = r /\ IndexOf(w) = IndexOf(v) => w = v
  BY PageIs
<1>2. u \in {0} \cup DOMAIN m.table /\ k.dir = m.dir
  BY <1>1 DEF Good, DirsOK, IsEntered, Fields
<1>3. u # 0 => k.table[u][IndexOf(w)] =
                 IF u = t /\ IndexOf(w) = IndexOf(v) THEN f ELSE m.table[u][IndexOf(w)]
  BY <1>1, <1>2 DEF IsEntered
<1>4. u = t => SlotOf(v) = r
  BY <1>1 DEF Good, SlotOnce
<1>5. Mapped(k, d, w) = IF u = 0 THEN 0 ELSE k.table[u][IndexOf(w)]
  BY <1>2 DEF Mapped
<1>6. Mapped(m, d, w) = IF u = 0 THEN 0 ELSE m.table[u][IndexOf(w)]
  BY DEF Mapped
<1> QED
  BY <1>1, <1>3, <1>4, <1>5, <1>6

\* The steps map_page is made of.
LEMMA MapPageIs ==
  ASSUME NEW m, Good(m), ~m.panicked, NEW pd \in DOMAIN m.dir, NEW v \in Pages, NEW phys,
         Counts(pd, SlotOf(v)), NEW k, k = map_page(m, pd, phys, v), NEW s, s = SlotOf(v)
  PROVE  \/ k = Panicked(m)
         \/ m.dir[pd][s] # 0 /\ IsEntered(m, k, m.dir[pd][s], IndexOf(v), phys)
         \/ m.dir[pd][s] = 0 /\ \E f \in Pool \ m.bitmap : \E j :
              IsTabled(Taking(m, f), j, pd, s, f) /\ IsEntered(j, k, f, IndexOf(v), phys)
<1>1. s \in Ordinary /\ s \in Slot /\ IndexOf(v) \in Index
  BY PageIs DEF Ordinary
<1>2. CASE m.dir[pd][s] # 0
  <2>1. k = Entered(m, m.dir[pd][s], IndexOf(v), phys)
    BY <1>2 DEF map_page, Then, WithTable, Entered
  <2>2. m.dir[pd][s] \in DOMAIN m.table
    BY <1>1, <1>2 DEF Good, DirsOK
  <2> QED
    BY <1>1, <1>2, <2>1, <2>2, EnteredIs
<1>3. CASE m.dir[pd][s] = 0 /\ pmm_alloc_frame(m) = [m |-> Panicked(m), frame |-> 0]
  <2>1. WithTable(m, pd, v) = Panicked(m)
    BY <1>3, PanickedGood DEF WithTable, WithFrame
  <2> QED
    BY <2>1, PanickedGood DEF map_page, Then
<1>4. ASSUME m.dir[pd][s] = 0, NEW f \in Pool \ m.bitmap,
             pmm_alloc_frame(m) = [m |-> Taking(m, f), frame |-> f]
      PROVE  \E j : IsTabled(Taking(m, f), j, pd, s, f) /\ IsEntered(j, k, f, IndexOf(v), phys)
  <2> DEFINE i == Taking(m, f)
             j == Tabled(i, pd, s, f)
  <2>1. Good(i) /\ i.dir = m.dir /\ i.table = m.table /\ ~i.panicked /\ Fresh(i, f)
    BY TakingGood DEF Fields
  <2>2. WithTable(m, pd, v) = j
    <3>0. pmm_alloc_frame(m).m = i /\ pmm_alloc_frame(m).frame = f
      BY <1>4
    <3> HIDE DEF i
    <3>1. WithTable(m, pd, v) =
            [i EXCEPT !.dir[pd][s] = f, !.table = Added(@, f, NoTable)]
      BY <1>4, <2>1, <3>0 DEF WithTable, WithFrame
    <3> QED
      BY <3>1 DEF Tabled
  <2>3. IsTabled(i, j, pd, s, f)
    BY <1>1, <2>1, TabledIs DEF Fresh
  <2>4. Good(j)
    BY <1>1, <1>4, <2>1, <2>3, TabledGood
  <2>5. j.dir[pd][s] = f /\ f \in DOMAIN j.table /\ ~j.panicked
    BY <1>1, <2>1, <2>3 DEF IsTabled, Fields
  <2> HIDE DEF j
  <2>6. k = Entered(j, f, IndexOf(v), phys)
    BY <2>2, <2>5 DEF map_page, Then, Entered
  <2> QED
    BY <1>1, <2>3, <2>4, <2>5, <2>6, EnteredIs
<1> QED
  BY <1>2, <1>3, <1>4, AllocIs DEF Good

-----------------------------------------------------------------------------
(***************************************************************************)
(* Steps that map pages.                                                   *)
(***************************************************************************)
\* The frames that the directories of m map page v to.
Frames(m, v) == {Mapped(m, d, v) : d \in DOMAIN m.dir} \ {0}

One(S) == \A x, y \in S : x = y

Slots(V) == {SlotOf(v) : v \in V}

\* The pages of users.
UserPages == 0 .. KERNEL_SLOT * ENTRIES - 1

LEMMA UserPagesApart ==
  /\ UserPages \cap KernelPages = {} /\ KERNEL_SLOT * ENTRIES \in Nat
  /\ \A v \in UserPages : v \in Pages /\ SlotOf(v) < KERNEL_SLOT
<1>1. KERNEL_SLOT * ENTRIES \in Nat
  BY Layout
<1>2. \A v \in UserPages : v \in Nat /\ v < KERNEL_SLOT * ENTRIES
  BY <1>1 DEF UserPages
<1>3. \A v \in KernelPages : v \in Int /\ KERNEL_SLOT * ENTRIES <= v
  <2>1. SLOTS * ENTRIES \in Nat
    BY Layout
  <2> QED
    BY <1>1, <2>1 DEF KernelPages
<1>4. UserPages \cap KernelPages = {}
  BY <1>1, <1>2, <1>3
<1> QED
  BY <1>1, <1>2, <1>4, UserPageIs

\* k follows from m by steps that leave alone what users find in their pages,
\* those in V aside in the directory pd.
Keeps(m, k, pd, V) ==
  /\ DOMAIN m.dir \subseteq DOMAIN k.dir /\ DOMAIN m.bytes \subseteq DOMAIN k.bytes
  /\ \A f \in DOMAIN m.bytes : k.bytes[f] = m.bytes[f]
  /\ \A d \in DOMAIN m.dir \ {kernel_pd}, v \in UserPages :
       d # pd \/ v \notin V => Mapped(k, d, v) = Mapped(m, d, v)

LEMMA KeepsSelf == ASSUME NEW m, NEW pd, NEW V PROVE Keeps(m, m, pd, V)
BY DEF Keeps

LEMMA KeepsWider ==
  ASSUME NEW m, NEW k, NEW pd, NEW V, NEW W, Keeps(m, k, pd, V), V \subseteq W
  PROVE  Keeps(m, k, pd, W)
BY DEF Keeps

LEMMA KeepsOn ==
  ASSUME NEW m, NEW k, NEW j, NEW pd, NEW V, Keeps(m, k, pd, V), Keeps(k, j, pd, V)
  PROVE  Keeps(m, j, pd, V)
<1>1. /\ DOMAIN m.dir \subseteq DOMAIN j.dir /\ DOMAIN m.bytes \subseteq DOMAIN j.bytes
      /\ \A f \in DOMAIN m.bytes : j.bytes[f] = m.bytes[f]
  BY DEF Keeps
<1>2. ASSUME NEW d \in DOMAIN m.dir \ {kernel_pd}, NEW v \in UserPages, d # pd \/ v \notin V
      PROVE  Mapped(j, d, v) = Mapped(m, d, v)
  <2>1. Mapped(k, d, v) = Mapped(m, d, v) /\ d \in DOMAIN k.dir \ {kernel_pd}
    BY <1>2 DEF Keeps
  <2> QED
    BY <1>2, <2>1 DEF Keeps
<1> QED
  BY <1>1, <1>2 DEF Keeps

\* What users find stays as it is altogether when only pages of the kernel are
\* mapped, or only pages in a directory that is new.
LEMMA KeepsAll ==
  ASSUME NEW m, NEW k, NEW pd, NEW V, NEW q, NEW W, Keeps(m, k, pd, V),
         V \cap UserPages = {} \/ pd \notin DOMAIN m.dir
  PROVE  Keeps(m, k, q, W)
BY DEF Keeps

\* Bytes may be added.
MoreBytes(m, k) ==
  /\ DOMAIN m.bytes \subseteq DOMAIN k.bytes
  /\ \A f \in DOMAIN m.bytes : k.bytes[f] = m.bytes[f]

LEMMA SameKeeps ==
  ASSUME NEW m, NEW k, NEW pd, NEW V, DOMAIN m.dir \subseteq DOMAIN k.dir,
         \A d \in DOMAIN m.dir : k.dir[d] = m.dir[d], k.table = m.table, MoreBytes(m, k)
  PROVE  Keeps(m, k, pd, V)
BY DEF Keeps, MoreBytes, Mapped

\* k follows from m by mapping the pages V in the directory pd, none of which a
\* directory had if it is the kernel's; a panic may have come before the end.
Maps(m, k, pd, V) ==
  /\ Keeps(m, k, pd, V)
  /\ Good(k) /\ DOMAIN k.dir = DOMAIN m.dir
  /\ m.panicked => k.panicked
  /\ k.new = m.new /\ k.kheap_end = m.kheap_end /\ k.large_alloc_base = m.large_alloc_base
  /\ \A d \in DOMAIN m.dir, s \in Ordinary :
       m.dir[d][s] # 0 \/ d # pd \/ s \notin Slots(V) => k.dir[d][s] = m.dir[d][s]
  /\ \A v \in KernelPages \cap V : One(Frames(k, v)) /\ (~k.panicked => Frames(k, v) # {})
  /\ \A v \in KernelPages \ V : Frames(k, v) = Frames(m, v)

\* The frames of the framebuffer that no page leads to yet, and the others in
\* hand, stay so.
Spares(m, k, f) ==
  /\ \A h : Fresh(m, h) /\ h # f => Fresh(k, h)
  /\ \A h \in Fb : NoLeaf(m, h) /\ h # f => NoLeaf(k, h)

LEMMA FramesAlike ==
  ASSUME NEW m, NEW k, NEW v, DOMAIN k.dir = DOMAIN m.dir,
         \A d \in DOMAIN m.dir : Mapped(k, d, v) = Mapped(m, d, v)
  PROVE  Frames(k, v) = Frames(m, v)
BY DEF Frames

LEMMA FbIsNotZero == Fb \subseteq Nat \ {0}
<1>1. Framebuffer.addr \in Nat /\ FbPages \in Nat /\ PAGE_SIZE \in Nat \ {0} /\ 0 \notin Fb
  BY PmmAssumption, MemorySizes, PagingAssumption DEF Fb
<1> DEFINE p == Framebuffer.addr \div PAGE_SIZE
<1>2. p \in Nat
  BY <1>1, Division
<1>3. Fb = p .. p + FbPages - 1
  BY DEF Fb, Marked, FbPages
<1> HIDE DEF p
<1> QED
  BY <1>1, <1>2, <1>3

LEMMA MapsSelf ==
  ASSUME NEW m, Good(m), NEW pd PROVE Maps(m, m, pd, {})
BY KeepsSelf DEF Maps

LEMMA MapsOn ==
  ASSUME NEW m, NEW k, NEW j, NEW pd, NEW V, NEW W, Maps(m, k, pd, V), Maps(k, j, pd, W)
  PROVE  Maps(m, j, pd, V \cup W)
<1>1. /\ Good(j) /\ DOMAIN j.dir = DOMAIN m.dir /\ DOMAIN k.dir = DOMAIN m.dir
      /\ m.panicked => j.panicked
      /\ k.panicked => j.panicked
      /\ j.new = m.new /\ j.kheap_end = m.kheap_end /\ j.large_alloc_base = m.large_alloc_base
  BY DEF Maps
<1>2. \A d \in DOMAIN m.dir, s \in Ordinary :
        m.dir[d][s] # 0 \/ d # pd \/ s \notin Slots(V \cup W) => j.dir[d][s] = m.dir[d][s]
  <2> SUFFICES ASSUME NEW d \in DOMAIN m.dir, NEW s \in Ordinary,
                      m.dir[d][s] # 0 \/ d # pd \/ s \notin Slots(V \cup W)
               PROVE  j.dir[d][s] = m.dir[d][s]
    OBVIOUS
  <2>1. s \notin Slots(V \cup W) => s \notin Slots(V) /\ s \notin Slots(W)
    BY DEF Slots
  <2>2. k.dir[d][s] = m.dir[d][s]
    BY <2>1 DEF Maps
  <2> QED
    BY <1>1, <2>1, <2>2 DEF Maps
<1>3. \A v \in KernelPages \cap (V \cup W) :
        One(Frames(j, v)) /\ (~j.panicked => Frames(j, v) # {})
  <2> SUFFICES ASSUME NEW v \in KernelPages, v \in V \cup W
               PROVE  One(Frames(j, v)) /\ (~j.panicked => Frames(j, v) # {})
    OBVIOUS
  <2>1. CASE v \in W
    BY <2>1 DEF Maps
  <2>2. CASE v \notin W
    <3>1. Frames(j, v) = Frames(k, v)
      BY <2>2 DEF Maps
    <3>2. One(Frames(k, v)) /\ (~k.panicked => Frames(k, v) # {})
      BY <2>2 DEF Maps
    <3> QED
      BY <1>1, <3>1, <3>2
  <2> QED
    BY <2>1, <2>2
<1>4. \A v \in KernelPages \ (V \cup W) : Frames(j, v) = Frames(m, v)
  BY DEF Maps
<1>5. Keeps(m, j, pd, V \cup W)
  <2>1. Keeps(m, k, pd, V) /\ Keeps(k, j, pd, W) /\ V \subseteq V \cup W /\ W \subseteq V \cup W
    BY DEF Maps
  <2> DEFINE U == V \cup W
  <2> HIDE DEF U
  <2>2. Keeps(m, k, pd, U) /\ Keeps(k, j, pd, U)
    BY <2>1, KeepsWider DEF U
  <2> QED
    BY <2>2, KeepsOn DEF U
<1> QED
  BY <1>1, <1>2, <1>3, <1>4, <1>5, Zenon DEF Maps

\* Pages of users may be counted in.
LEMMA MapsWider ==
  ASSUME NEW m, NEW k, NEW pd, NEW V, NEW W, Maps(m, k, pd, V), V \subseteq W,
         W \cap KernelPages \subseteq V
  PROVE  Maps(m, k, pd, W)
<1>1. Slots(V) \subseteq Slots(W) /\ KernelPages \cap W = KernelPages \cap V
      /\ KernelPages \ W = KernelPages \ V
  BY DEF Slots
<1>2. Keeps(m, k, pd, W)
  BY KeepsWider DEF Maps
<1> QED
  BY <1>1, <1>2 DEF Maps

\* Steps that touch nothing of it: a frame is taken, bytes are written, slots
\* that were empty are cleared.
Alike(m, k) ==
  /\ DOMAIN k.dir = DOMAIN m.dir
  /\ \A d \in DOMAIN m.dir : k.dir[d] = m.dir[d]
  /\ k.table = m.table /\ k.panicked = m.panicked /\ MoreBytes(m, k)
  /\ k.new = m.new /\ k.kheap_end = m.kheap_end /\ k.large_alloc_base = m.large_alloc_base

LEMMA AlikeMaps ==
  ASSUME NEW m, NEW k, NEW j, NEW pd, NEW V, Good(j)
  PROVE  /\ Alike(m, k) /\ Maps(k, j, pd, V) => Maps(m, j, pd, V)
         /\ Maps(m, k, pd, V) /\ Alike(k, j) => Maps(m, j, pd, V)
<1>1. ASSUME NEW a, NEW b, Alike(a, b)
      PROVE  \A v : Frames(b, v) = Frames(a, v)
  BY <1>1 DEF Alike, Frames, Mapped
<1>2. ASSUME Alike(m, k), Maps(k, j, pd, V) PROVE Maps(m, j, pd, V)
  <2>1. \A v : Frames(k, v) = Frames(m, v)
    BY <1>1, <1>2
  <2>2. Keeps(m, j, pd, V)
    <3>1. Keeps(m, k, pd, V)
      BY <1>2, SameKeeps DEF Alike
    <3> QED
      BY <1>2, <3>1, KeepsOn DEF Maps
  <2> QED
    BY <1>2, <2>1, <2>2 DEF Maps, Alike
<1>3. ASSUME Maps(m, k, pd, V), Alike(k, j) PROVE Maps(m, j, pd, V)
  <2>1. \A v : Frames(j, v) = Frames(k, v)
    BY <1>1, <1>3
  <2>2. Keeps(m, j, pd, V)
    <3>1. Keeps(k, j, pd, V)
      BY <1>3, SameKeeps DEF Alike
    <3> QED
      BY <1>3, <3>1, KeepsOn DEF Maps
  <2> QED
    BY <1>3, <2>1, <2>2 DEF Maps, Alike
<1> QED
  BY <1>2, <1>3

LEMMA PanickedMaps ==
  ASSUME NEW m, Good(m), NEW pd, NEW V, \A v \in V \cap KernelPages : One(Frames(m, v))
  PROVE  Maps(m, Panicked(m), pd, V) /\ \A f : Spares(m, Panicked(m), f)
<1> DEFINE k == Panicked(m)
<1>1. Good(k) /\ k.panicked /\ \A x \in Fields \ {"panicked"} : k[x] = m[x]
  BY PanickedGood
<1>2. /\ k.dir = m.dir /\ k.table = m.table /\ k.bytes = m.bytes /\ k.bitmap = m.bitmap
      /\ k.new = m.new /\ k.kheap_end = m.kheap_end /\ k.large_alloc_base = m.large_alloc_base
  BY <1>1 DEF Fields
<1> HIDE DEF k
<1>3. \A v : Frames(k, v) = Frames(m, v)
  BY <1>2 DEF Frames, Mapped
<1>4. Maps(m, k, pd, V)
  <2>1. Keeps(m, k, pd, V)
    BY <1>2, SameKeeps DEF MoreBytes
  <2> QED
    BY <1>1, <1>2, <1>3, <2>1 DEF Maps
<1>5. \A f : Spares(m, k, f)
  BY <1>2 DEF Spares, Fresh, NoLeaf, NewTables, Given
<1> QED
  BY <1>4, <1>5 DEF k

LEMMA TakingAlike ==
  ASSUME NEW m, Good(m), NEW f \in Pool \ m.bitmap
  PROVE  Alike(m, Taking(m, f)) /\ Spares(m, Taking(m, f), f)
<1> DEFINE k == Taking(m, f)
<1>1. /\ \A h : Fresh(m, h) => Fresh(k, h)
      /\ \A x \in Fields \ {"bitmap"} : k[x] = m[x]
  BY TakingGood
<1> HIDE DEF k
<1>2. /\ k.dir = m.dir /\ k.table = m.table /\ k.panicked = m.panicked
      /\ k.new = m.new /\ k.kheap_end = m.kheap_end /\ k.large_alloc_base = m.large_alloc_base
      /\ k.bytes = m.bytes
  BY <1>1 DEF Fields
<1>3. Alike(m, k)
  BY <1>2 DEF Alike, MoreBytes
<1> QED
  BY <1>1, <1>2, <1>3 DEF k, Spares, NoLeaf, NewTables

\* One entry.
LEMMA EnteredMaps1 ==
  ASSUME NEW m, NEW k, NEW t, NEW f, Good(m), NEW pd \in DOMAIN m.dir, NEW v \in Pages,
         IsEntered(m, k, t, IndexOf(v), f), Counts(pd, SlotOf(v)),
         t = m.dir[pd][SlotOf(v)], t # 0, Backing(m, f),
         v \in KernelPages => Frames(m, v) = {}
  PROVE  Maps(m, k, pd, {v}) /\ Spares(m, k, f) /\ Mapped(k, pd, v) = f
<1>1. SlotOf(v) \in Ordinary /\ IndexOf(v) \in Index
  BY PageIs
<1>2. t \in DOMAIN m.table
  BY <1>1 DEF Good, DirsOK
<1>3. Good(k) /\ \A h : Fresh(m, h) /\ h # f => Fresh(k, h)
  BY <1>1, <1>2, EnteredGood
<1>4. f # 0
  BY PoolIsFrames, FbIsNotZero DEF Backing, Fresh, Given
<1>5. /\ k.dir = m.dir /\ k.panicked = m.panicked
      /\ k.new = m.new /\ k.kheap_end = m.kheap_end /\ k.large_alloc_base = m.large_alloc_base
  BY DEF IsEntered, Fields
<1>6. \A d \in DOMAIN m.dir, w \in KernelPages :
        Mapped(k, d, w) = IF w = v /\ m.dir[d][SlotOf(v)] = t THEN f ELSE Mapped(m, d, w)
  <2>1. OnlyThisPage(m, k, v, t, f)
    BY EnteredMaps
  <2>2. \A d, w : w \in KernelPages => w \in Pages /\ Counts(d, SlotOf(w))
    BY KernelPageIs DEF Counts
  <2> QED
    BY <2>1, <2>2 DEF OnlyThisPage
<1>7. \A w \in KernelPages \ {v} : Frames(k, w) = Frames(m, w)
  <2> SUFFICES ASSUME NEW w \in KernelPages, w # v PROVE Frames(k, w) = Frames(m, w)
    OBVIOUS
  <2> QED
    BY <1>5, <1>6, FramesAlike
<1>8. ASSUME v \in KernelPages PROVE One(Frames(k, v)) /\ Frames(k, v) # {}
  <2>1. \A d \in DOMAIN m.dir : Mapped(m, d, v) = 0
    BY <1>8 DEF Frames
  <2>2. \A d \in DOMAIN m.dir : Mapped(k, d, v) \in {0, f}
    BY <1>6, <1>8, <2>1
  <2>3. Mapped(k, pd, v) = f
    BY <1>6, <1>8
  <2> QED
    BY <1>4, <1>5, <2>2, <2>3 DEF Frames, One
<1>9. OnlyThisPage(m, k, v, t, f)
  BY EnteredMaps
<1>10. \A h \in Fb : NoLeaf(m, h) /\ h # f => NoLeaf(k, h)
  BY DEF NoLeaf, IsEntered, NewTables
<1>11. Mapped(k, pd, v) = f
  BY <1>9 DEF OnlyThisPage
<1>12. Keeps(m, k, pd, {v})
  <2>1. ASSUME NEW d \in DOMAIN m.dir \ {kernel_pd}, NEW w \in UserPages, d # pd \/ w # v
        PROVE  Mapped(k, d, w) = Mapped(m, d, w)
    <3>1. w \in Pages /\ SlotOf(w) < KERNEL_SLOT /\ SlotOf(w) \in Ordinary /\ Counts(d, SlotOf(w))
      BY <2>1, UserPagesApart, PageIs DEF Counts
    <3>2. w = v => m.dir[d][SlotOf(v)] # t
      BY <2>1, <3>1 DEF Good, SlotOnce
    <3> QED
      BY <1>9, <2>1, <3>1, <3>2 DEF OnlyThisPage
  <2>2. k.bytes = m.bytes
    BY DEF IsEntered, Fields
  <2> QED
    BY <1>5, <2>1, <2>2 DEF Keeps
<1>13. Maps(m, k, pd, {v})
  BY <1>3, <1>5, <1>7, <1>8, <1>12 DEF Maps
<1> QED
  BY <1>3, <1>10, <1>11, <1>13 DEF Spares

\* map_page on one page.
LEMMA MapPageMaps ==
  ASSUME NEW m, Good(m), ~m.panicked, NEW pd \in DOMAIN m.dir, NEW v \in Pages, NEW f,
         Counts(pd, SlotOf(v)), Backing(m, f), v \in KernelPages => Frames(m, v) = {}
  PROVE  /\ Maps(m, map_page(m, pd, f, v), pd, {v}) /\ Spares(m, map_page(m, pd, f, v), f)
         /\ ~map_page(m, pd, f, v).panicked => Mapped(map_page(m, pd, f, v), pd, v) = f
<1> DEFINE s == SlotOf(v)
           k == map_page(m, pd, f, v)
           IsMapped(j) == /\ Maps(m, j, pd, {v}) /\ Spares(m, j, f)
                          /\ ~j.panicked => Mapped(j, pd, v) = f
<1>1. s \in Ordinary /\ s \in Slot
  BY PageIs DEF Ordinary
<1>2. ASSUME k = Panicked(m) PROVE IsMapped(k)
  <2>1. \A w \in {v} \cap KernelPages : One(Frames(m, w))
    BY DEF One
  <2>2. Maps(m, Panicked(m), pd, {v}) /\ Spares(m, Panicked(m), f) /\ Panicked(m).panicked
    BY <2>1, PanickedMaps, PanickedGood
  <2> HIDE DEF k
  <2> QED
    BY <1>2, <2>2
<1>3. ASSUME m.dir[pd][s] # 0, IsEntered(m, k, m.dir[pd][s], IndexOf(v), f)
      PROVE  IsMapped(k)
  <2> HIDE DEF k
  <2> QED
    BY <1>3, EnteredMaps1
<1>4. ASSUME m.dir[pd][s] = 0, NEW g \in Pool \ m.bitmap, NEW j,
             IsTabled(Taking(m, g), j, pd, s, g), IsEntered(j, k, g, IndexOf(v), f)
      PROVE  IsMapped(k)
  <2> DEFINE i == Taking(m, g)
  <2>1. Good(i) /\ Fresh(i, g) /\ \A h : Fresh(m, h) => Fresh(i, h) /\ h # g
    BY TakingGood
  <2>2. Alike(m, i) /\ Spares(m, i, g)
    BY TakingAlike
  <2>3. g \in Pool
    OBVIOUS
  <2> HIDE DEF i, k
  <2>4. IsTabled(i, j, pd, s, g)
    BY <1>4 DEF i
  <2>5. i.dir[pd][s] = 0 /\ pd \in DOMAIN i.dir
    BY <1>4, <2>2 DEF Alike
  <2>6. Good(j) /\ \A h : Fresh(i, h) /\ h # g => Fresh(j, h)
    BY <1>1, <2>1, <2>4, <2>5, TabledGood
  <2>7. g # 0 /\ g \notin Fb /\ g \notin DOMAIN i.table
    BY <2>1, <2>3, PoolIsFrames, BootFrames DEF Fresh
  <2>8. \A h : NoLeaf(i, h) /\ h # 0 => NoLeaf(j, h)
    BY <2>4 DEF NoLeaf, IsTabled, NewTables, NoTable
  <2>9. \A h \in Fb : NoLeaf(m, h) => NoLeaf(j, h)
    BY <2>2, <2>7, <2>8, FbIsNotZero DEF Spares
  <2>10. \A h : Fresh(m, h) => Fresh(j, h)
    BY <2>1, <2>6
  <2>11. Backing(j, f)
    BY <2>9, <2>10 DEF Backing
  <2>12. \A w \in KernelPages : Frames(j, w) = Frames(m, w)
    <3> SUFFICES ASSUME NEW w \in KernelPages PROVE Frames(j, w) = Frames(m, w)
      OBVIOUS
    <3>1. \A d \in DOMAIN i.dir : Mapped(j, d, w) = Mapped(i, d, w)
      BY <2>1, <2>4, <2>5, <2>7, KernelPageIs, TabledMaps
    <3>2. Frames(j, w) = Frames(i, w)
      BY <2>4, <3>1, FramesAlike DEF IsTabled
    <3>3. Frames(i, w) = Frames(m, w)
      BY <2>2 DEF Alike, Frames, Mapped
    <3> QED
      BY <3>2, <3>3
  <2>13. j.dir[pd][s] = g /\ DOMAIN j.dir = DOMAIN m.dir
    BY <1>1, <2>2, <2>4, <2>5 DEF IsTabled, Alike
  <2>14. Maps(j, k, pd, {v}) /\ Spares(j, k, f) /\ Mapped(k, pd, v) = f
    BY <1>4, <2>6, <2>7, <2>11, <2>12, <2>13, EnteredMaps1
  <2>15. j.panicked = m.panicked /\ j.new = m.new /\ j.kheap_end = m.kheap_end
         /\ j.large_alloc_base = m.large_alloc_base
    BY <2>2, <2>4 DEF IsTabled, Alike, Fields
  <2>16. \A d \in DOMAIN m.dir, r \in Ordinary :
           m.dir[d][r] # 0 \/ d # pd \/ r # s => j.dir[d][r] = m.dir[d][r]
    BY <1>4, <2>2, <2>4 DEF IsTabled, Alike, Ordinary
  <2>17. Slots({v}) = {s}
    BY DEF Slots
  <2>18. Maps(m, k, pd, {v})
    <3>1. /\ Good(k) /\ DOMAIN k.dir = DOMAIN m.dir /\ (m.panicked => k.panicked)
          /\ k.new = m.new /\ k.kheap_end = m.kheap_end /\ k.large_alloc_base = m.large_alloc_base
      BY ONLY <2>13, <2>14, <2>15 DEF Maps
    <3>2. \A d \in DOMAIN j.dir, r \in Ordinary :
            j.dir[d][r] # 0 \/ d # pd \/ r \notin Slots({v}) => k.dir[d][r] = j.dir[d][r]
      BY ONLY <2>14 DEF Maps
    <3>3. ASSUME NEW d \in DOMAIN m.dir, NEW r \in Ordinary,
                 m.dir[d][r] # 0 \/ d # pd \/ r \notin Slots({v})
          PROVE  k.dir[d][r] = m.dir[d][r]
      <4>1. d \in DOMAIN j.dir
        BY ONLY <2>13, Zenon
      <4>2. r \notin Slots({v}) => r # s
        BY ONLY <2>17
      <4>3. j.dir[d][r] = m.dir[d][r]
        BY ONLY <2>16, <3>3, <4>2, Zenon
      <4>4. j.dir[d][r] # 0 \/ d # pd \/ r \notin Slots({v})
        BY ONLY <3>3, <4>3, Zenon
      <4> QED
        BY ONLY <3>2, <4>1, <4>3, <4>4, Zenon
    <3>4. \A w \in KernelPages \cap {v} : One(Frames(k, w)) /\ (~k.panicked => Frames(k, w) # {})
      BY ONLY <2>14 DEF Maps
    <3>5. \A w \in KernelPages \ {v} : Frames(k, w) = Frames(j, w)
      BY ONLY <2>14 DEF Maps
    <3>6. \A w \in KernelPages \ {v} : Frames(k, w) = Frames(m, w)
      BY ONLY <2>12, <3>5
    <3>7. Keeps(m, k, pd, {v})
      <4>1. Keeps(m, j, pd, {v})
        <5>1. ASSUME NEW d \in DOMAIN m.dir, NEW w \in UserPages
              PROVE  Mapped(j, d, w) = Mapped(m, d, w)
          <6>1. Mapped(j, d, w) = Mapped(i, d, w)
            BY <2>1, <2>2, <2>4, <2>5, <2>7, UserPagesApart, TabledMaps DEF Alike
          <6>2. Mapped(i, d, w) = Mapped(m, d, w)
            BY <2>2 DEF Alike, Mapped
          <6> QED
            BY <6>1, <6>2
        <5>2. j.bytes = i.bytes /\ MoreBytes(m, i)
          BY <2>2, <2>4 DEF IsTabled, Alike, Fields
        <5> QED
          BY <2>13, <5>1, <5>2 DEF Keeps, MoreBytes
      <4>2. Keeps(j, k, pd, {v})
        BY <2>14 DEF Maps
      <4> DEFINE V == {v}
      <4> HIDE DEF V
      <4>3. Keeps(m, j, pd, V) /\ Keeps(j, k, pd, V)
        BY <4>1, <4>2 DEF V
      <4> QED
        BY <4>3, KeepsOn DEF V
    <3> QED
      BY ONLY <3>1, <3>3, <3>4, <3>6, <3>7 DEF Maps
  <2>19. Spares(m, k, f)
    BY <2>9, <2>10, <2>14 DEF Spares
  <2> QED
    BY <2>14, <2>18, <2>19
<1>5. \/ k = Panicked(m)
      \/ m.dir[pd][s] # 0 /\ IsEntered(m, k, m.dir[pd][s], IndexOf(v), f)
      \/ m.dir[pd][s] = 0 /\ \E g \in Pool \ m.bitmap : \E j :
           IsTabled(Taking(m, g), j, pd, s, g) /\ IsEntered(j, k, g, IndexOf(v), f)
  BY MapPageIs
<1> HIDE DEF k, s
<1>6. IsMapped(k)
  BY <1>2, <1>3, <1>4, <1>5
<1> QED
  BY <1>6 DEF k

\* A new frame, mapped.
LEMMA MapNewFrameMaps ==
  ASSUME NEW m, Good(m), ~m.panicked, NEW pd \in DOMAIN m.dir, NEW v \in KernelPages,
         Frames(m, v) = {}
  PROVE  /\ Maps(m, MapNewFrame(m, pd, v), pd, {v})
         /\ \A h \in Fb : NoLeaf(m, h) => NoLeaf(MapNewFrame(m, pd, v), h)
<1> DEFINE k == MapNewFrame(m, pd, v)
           a == pmm_alloc_frame(m)
<1>1. ASSUME a = [m |-> Panicked(m), frame |-> 0]
      PROVE  Maps(m, k, pd, {v}) /\ \A h \in Fb : NoLeaf(m, h) => NoLeaf(k, h)
  <2>1. k = Panicked(m)
    BY <1>1, PanickedGood DEF MapNewFrame, WithFrame
  <2>2. \A w \in {v} \cap KernelPages : One(Frames(m, w))
    BY DEF One
  <2>3. Maps(m, Panicked(m), pd, {v}) /\ Spares(m, Panicked(m), kernel_pd)
    BY <2>2, PanickedMaps
  <2> QED
    BY <2>1, <2>3, BootFrames DEF Spares
<1>2. ASSUME NEW f \in Pool \ m.bitmap, a = [m |-> Taking(m, f), frame |-> f]
      PROVE  Maps(m, k, pd, {v}) /\ \A h \in Fb : NoLeaf(m, h) => NoLeaf(k, h)
  <2> DEFINE i == Taking(m, f)
  <2>1. Good(i) /\ Fresh(i, f)
    BY TakingGood
  <2>2. Alike(m, i) /\ Spares(m, i, f)
    BY TakingAlike
  <2>3. a.m = i /\ a.frame = f
    BY <1>2
  <2>4. f \notin Fb
    BY BootFrames
  <2> HIDE DEF i, a
  <2>5. ~i.panicked /\ pd \in DOMAIN i.dir /\ Frames(i, v) = {}
    BY <2>2 DEF Alike, Frames, Mapped
  <2>6. k = map_page(i, pd, f, v)
    BY <2>3, <2>5 DEF MapNewFrame, WithFrame, a
  <2>7. Maps(i, k, pd, {v}) /\ Spares(i, k, f)
    <3>1. Backing(i, f) /\ v \in Pages /\ Counts(pd, SlotOf(v))
      BY <2>1, KernelPageIs DEF Backing, Counts
    <3>2. Maps(i, map_page(i, pd, f, v), pd, {v}) /\ Spares(i, map_page(i, pd, f, v), f)
      BY <2>1, <2>5, <3>1, MapPageMaps
    <3> QED
      BY <2>6, <3>2
  <2> HIDE DEF k
  <2>8. Maps(m, k, pd, {v})
    <3>1. Good(k)
      BY <2>7 DEF Maps
    <3> QED
      BY <2>2, <2>7, <3>1, AlikeMaps
  <2> QED
    BY <2>2, <2>4, <2>7, <2>8 DEF Spares
<1>0. Shape(m)
  BY DEF Good
<1>3. a = [m |-> Panicked(m), frame |-> 0]
        \/ \E f \in Pool \ m.bitmap : a = [m |-> Taking(m, f), frame |-> f]
  BY <1>0, AllocIs
<1> HIDE DEF k, a
<1>4. Maps(m, k, pd, {v}) /\ \A h \in Fb : NoLeaf(m, h) => NoLeaf(k, h)
  BY <1>1, <1>2, <1>3, Zenon
<1> QED
  BY <1>4 DEF k

-----------------------------------------------------------------------------
(***************************************************************************)
(* Loops.                                                                  *)
(***************************************************************************)
\* MapNewFrames, whose loop is a recursive function, step by step.
LEMMA MapNewFramesIs ==
  ASSUME NEW m, NEW pd, NEW first, NEW n \in Nat
  PROVE  \E after : /\ MapNewFrames(m, pd, first, n) = after[n] /\ after[0] = m
                    /\ \A i \in 1 .. n : after[i] =
                         IF after[i - 1].panicked THEN after[i - 1]
                         ELSE MapNewFrame(after[i - 1], pd, first + i - 1)
<1> DEFINE Turn(i, a) == Then(a, LAMBDA k : MapNewFrame(k, pd, first + i - 1))
           IsLoop(j, f) == f = [i \in 0 .. j |-> IF i = 0 THEN m ELSE Turn(i, f[i - 1])]
           S == {j \in 0 .. n : \E f : IsLoop(j, f)}
           loop == CHOOSE f : IsLoop(n, f)
<1>1. MapNewFrames(m, pd, first, n) = loop[n]
  BY DEF MapNewFrames
<1>2. \A i, a : Turn(i, a) = IF a.panicked THEN a ELSE MapNewFrame(a, pd, first + i - 1)
  BY DEF Then
<1> HIDE DEF Turn
<1>3. 0 \in S
  <2>1. IsLoop(0, [i \in 0 .. 0 |-> m])
    OBVIOUS
  <2> HIDE DEF IsLoop
  <2> QED
    BY <2>1
<1>4. ASSUME NEW j \in 1 .. n, j - 1 \in S PROVE j \in S
  <2>1. PICK f : IsLoop(j - 1, f)
    BY <1>4
  <2> DEFINE g == [i \in 0 .. j |-> IF i = j THEN Turn(j, f[j - 1]) ELSE f[i]]
  <2>2. \A i \in 0 .. j - 1 : f[i] = IF i = 0 THEN m ELSE Turn(i, f[i - 1])
    BY <2>1
  <2>3. \A i \in 0 .. j : g[i] = IF i = 0 THEN m ELSE Turn(i, g[i - 1])
    BY <2>2
  <2>4. IsLoop(j, g)
    BY <2>3
  <2> HIDE DEF IsLoop, g
  <2> QED
    BY <2>4
<1>5. \E f : IsLoop(n, f)
  <2> HIDE DEF IsLoop
  <2> QED
    BY <1>3, <1>4, Segment
<1>6. IsLoop(n, loop)
  BY <1>5
<1> HIDE DEF loop
<1>7. loop[0] = m /\ \A i \in 1 .. n : loop[i] = Turn(i, loop[i - 1])
  BY <1>6
<1>8. \A i \in 1 .. n : loop[i] = IF loop[i - 1].panicked THEN loop[i - 1]
                                ELSE MapNewFrame(loop[i - 1], pd, first + i - 1)
  BY <1>2, <1>7
<1> QED
  BY <1>1, <1>7, <1>8

LEMMA MapNewFramesMaps ==
  ASSUME NEW m, Good(m), NEW pd \in DOMAIN m.dir, NEW first \in Nat, NEW n \in Nat,
         \A v \in first .. first + n - 1 : v \in KernelPages /\ Frames(m, v) = {}
  PROVE  /\ Maps(m, MapNewFrames(m, pd, first, n), pd, first .. first + n - 1)
         /\ \A h \in Fb : NoLeaf(m, h) => NoLeaf(MapNewFrames(m, pd, first, n), h)
<1> DEFINE K == MapNewFrames(m, pd, first, n)
           Rest(k) == \A h \in Fb : NoLeaf(m, h) => NoLeaf(k, h)
<1>1. PICK after : /\ K = after[n] /\ after[0] = m
                   /\ \A i \in 1 .. n : after[i] =
                        IF after[i - 1].panicked THEN after[i - 1]
                        ELSE MapNewFrame(after[i - 1], pd, first + i - 1)
  BY MapNewFramesIs
<1> HIDE DEF K
<1> DEFINE S == {i \in 0 .. n : Maps(m, after[i], pd, first .. first + i - 1) /\ Rest(after[i])}
<1>2. 0 \in S
  <2>1. first .. first + 0 - 1 = {}
    OBVIOUS
  <2> QED
    BY <1>1, <2>1, MapsSelf
<1>3. ASSUME NEW i \in 1 .. n, i - 1 \in S PROVE i \in S
  <2> DEFINE k == after[i - 1]
             v == first + i - 1
             j == MapNewFrame(k, pd, v)
  <2>1. Maps(m, k, pd, first .. first + i - 2) /\ Rest(k)
    <3>1. first + (i - 1) - 1 = first + i - 2
      OBVIOUS
    <3> QED
      BY <1>3, <3>1
  <2>2. after[i] = IF k.panicked THEN k ELSE j
    BY <1>1
  <2>3. v \in first .. first + n - 1 /\ v \notin first .. first + i - 2
        /\ first .. first + i - 1 = (first .. first + i - 2) \cup {v}
    OBVIOUS
  <2> HIDE DEF k, v
  <2>4. v \in KernelPages /\ Frames(k, v) = {} /\ Good(k) /\ pd \in DOMAIN k.dir
    BY <2>1, <2>3 DEF Maps
  <2>5. CASE k.panicked
    <3>1. Slots(first .. first + i - 2) \subseteq Slots(first .. first + i - 1)
      BY <2>3 DEF Slots
    <3>2. \A w \in KernelPages \cap (first .. first + i - 1) :
            One(Frames(k, w))
      BY <2>1, <2>3, <2>4 DEF Maps, One
    <3>3. \A w \in KernelPages \ (first .. first + i - 1) : Frames(k, w) = Frames(m, w)
      BY <2>1, <2>3 DEF Maps
    <3>4. Keeps(m, k, pd, first .. first + i - 1)
      <4>1. Keeps(m, k, pd, first .. first + i - 2)
        BY <2>1 DEF Maps
      <4>2. first .. first + i - 2 \subseteq first .. first + i - 1
        BY <2>3
      <4> QED
        BY ONLY <4>1, <4>2, KeepsWider
    <3>5. Maps(m, k, pd, first .. first + i - 1)
      BY <2>1, <2>5, <3>1, <3>2, <3>3, <3>4 DEF Maps
    <3> QED
      BY <2>1, <2>2, <2>5, <3>5
  <2>6. CASE ~k.panicked
    <3>1. Maps(k, j, pd, {v}) /\ \A h \in Fb : NoLeaf(k, h) => NoLeaf(j, h)
      BY <2>4, <2>6, MapNewFrameMaps
    <3> HIDE DEF j
    <3>2. Maps(m, j, pd, first .. first + i - 1)
      BY <2>1, <2>3, <3>1, MapsOn
    <3> QED
      BY <2>1, <2>2, <2>6, <3>1, <3>2
  <2> QED
    BY <2>5, <2>6
<1>4. n \in S
  <2> HIDE DEF S
  <2> QED
    BY <1>2, <1>3, Segment
<1>5. Maps(m, K, pd, first .. first + n - 1) /\ Rest(K)
  BY <1>1, <1>4
<1> QED
  BY <1>5 DEF K

-----------------------------------------------------------------------------
(***************************************************************************)
(* The kernel's pages: the two breaks and what lies between them.          *)
(***************************************************************************)
Agree(m) == \A v \in KernelPages : One(Frames(m, v))

LargeEnd == TEMP_PD_SLOT * ENTRIES

\* The pages below the two breaks, and those that are still to be given.
Below(m) == (KHEAP_START .. m.kheap_end - 1) \cup (LARGE_START .. m.large_alloc_base - 1)
Above(m) == (m.kheap_end .. LARGE_START - 1) \cup (m.large_alloc_base .. LargeEnd - 1)

Laid(m) ==
  /\ m.kheap_end \in Nat /\ KHEAP_START <= m.kheap_end /\ m.kheap_end <= LARGE_START
  /\ m.large_alloc_base \in Nat /\ LARGE_START <= m.large_alloc_base
  /\ m.large_alloc_base <= LargeEnd
  /\ ~m.panicked => \A v \in Above(m) : Frames(m, v) = {}

Filled(m) == \A v \in Below(m) : Frames(m, v) # {}

Sound(m) == Good(m) /\ Agree(m) /\ Laid(m)

\* The slots that the kernel's directory has, all directories have.
BootShared(m) ==
  \A d \in DOMAIN m.dir, s \in Ordinary :
    s >= KERNEL_SLOT /\ m.dir[kernel_pd][s] # 0 => m.dir[d][s] = m.dir[kernel_pd][s]

LEMMA AreasAreKernelPages ==
  /\ LargeEnd \in Nat /\ KHEAP_START \in Nat /\ LARGE_START \in Nat
  /\ \A v \in KHEAP_START .. LargeEnd - 1 : v \in KernelPages /\ SlotOf(v) # KERNEL_SLOT
  /\ \A v \in FB_START .. FB_START + FbPages - 1 : v \in KernelPages /\ SlotOf(v) # KERNEL_SLOT
  /\ FB_START + FbPages <= KHEAP_START /\ KHEAP_START + KHEAP_INITIAL <= LARGE_START
  /\ FB_START \in Nat /\ KHEAP_INITIAL \in Nat
  /\ LARGE_START <= LargeEnd
<1>1. /\ ENTRIES \in Nat \ {0} /\ KERNEL_SLOT \in Nat \ {0} /\ TEMP_PD_SLOT \in Nat
      /\ KHEAP_START \in Nat /\ LARGE_START \in Nat /\ FB_START \in Nat /\ KHEAP_INITIAL \in Nat
      /\ InitrdPages \in Nat /\ KSTACK_PAGES \in Nat /\ FbPages \in Nat /\ MaxProc \in Nat
      /\ FB_START + FbPages <= KHEAP_START /\ KHEAP_START + KHEAP_INITIAL <= LARGE_START
  BY Layout, PagingAssumption, AddressSpaceAssumption, MemorySizes
<1> DEFINE L == (KERNEL_SLOT + 1) * ENTRIES
           T == LargeEnd
           S == (2 + MaxProc) * KSTACK_PAGES
<1>2. L \in Nat /\ T \in Nat /\ L <= FB_START /\ S \in Nat /\ LARGE_START + FbPages + InitrdPages + S <= T
  <2>1. L \in Nat
    BY <1>1
  <2>2. T \in Nat
    BY <1>1 DEF LargeEnd
  <2>3. L <= FB_START
    BY PagingAssumption
  <2>4. S \in Nat
    <3>1. 2 + MaxProc \in Nat
      BY <1>1
    <3> QED
      BY <1>1, <3>1
  <2>5. LARGE_START + FbPages + InitrdPages + S <= T
    BY AddressSpaceAssumption DEF LargeEnd
  <2> QED
    BY <2>1, <2>2, <2>3, <2>4, <2>5
<1>3. ASSUME NEW v \in Nat, L <= v, v < T PROVE v \in KernelPages /\ SlotOf(v) # KERNEL_SLOT
  BY <1>3, MiddlePageIs DEF LargeEnd
<1> HIDE DEF L, T, S
<1>4. LARGE_START <= T
  BY <1>1, <1>2
<1>5. \A v \in KHEAP_START .. T - 1 : v \in Nat /\ L <= v /\ v < T
  BY <1>1, <1>2
<1>6. \A v \in FB_START .. FB_START + FbPages - 1 : v \in Nat /\ L <= v /\ v < T
  BY <1>1, <1>2, <1>4
<1> QED
  BY <1>1, <1>2, <1>3, <1>4, <1>5, <1>6 DEF T

LEMMA MapsAgree ==
  ASSUME NEW m, NEW k, NEW pd, NEW V, Maps(m, k, pd, V), Agree(m)
  PROVE  Agree(k)
BY DEF Maps, Agree

\* Who shares the kernel's slots goes on to share them, if what was mapped was
\* mapped in another directory, or in a slot that was there.
LEMMA MapsShared ==
  ASSUME NEW m, NEW k, NEW pd, NEW V, Maps(m, k, pd, V), BootShared(m), kernel_pd \in DOMAIN m.dir,
         pd = kernel_pd =>
           \A v \in V : SlotOf(v) \in Ordinary /\ SlotOf(v) >= KERNEL_SLOT =>
             m.dir[kernel_pd][SlotOf(v)] # 0
  PROVE  BootShared(k)
<1> SUFFICES ASSUME NEW d \in DOMAIN m.dir, NEW s \in Ordinary, s >= KERNEL_SLOT,
                    k.dir[kernel_pd][s] # 0
             PROVE  k.dir[d][s] = k.dir[kernel_pd][s]
  BY DEF Maps, BootShared
<1>1. k.dir[kernel_pd][s] = m.dir[kernel_pd][s]
  BY DEF Maps, Slots
<1>2. m.dir[d][s] = m.dir[kernel_pd][s] /\ m.dir[d][s] # 0
  BY <1>1 DEF BootShared
<1> QED
  BY <1>1, <1>2 DEF Maps

\* What a system call does to memory as a whole.
Runs(m, k) ==
  /\ Sound(k) /\ DOMAIN m.dir \subseteq DOMAIN k.dir
  /\ m.panicked => k.panicked
  /\ k.dir[kernel_pd][0] = m.dir[kernel_pd][0]
  /\ \A s \in Ordinary : m.dir[kernel_pd][s] # 0 => k.dir[kernel_pd][s] # 0
  /\ Filled(m) => Filled(k)
  /\ m.kheap_end <= k.kheap_end

LEMMA RunsSelf == ASSUME NEW m, Sound(m) PROVE Runs(m, m)
BY DEF Runs, Sound, Laid

LEMMA RunsOn ==
  ASSUME NEW m, NEW k, NEW j, Sound(m), Runs(m, k), Runs(k, j) PROVE Runs(m, j)
<1>1. m.kheap_end \in Nat /\ k.kheap_end \in Nat /\ j.kheap_end \in Nat
  BY DEF Runs, Sound, Laid
<1> QED
  BY <1>1 DEF Runs

\* Pages below the breaks are not touched by a step that maps none of the
\* kernel's.
LEMMA MapsRuns ==
  ASSUME NEW m, NEW k, NEW pd, NEW V, Maps(m, k, pd, V), Sound(m), 0 \notin Slots(V) \/ pd # kernel_pd,
         V \cap KernelPages = {}
  PROVE  Runs(m, k)
<1>1. Good(k) /\ DOMAIN k.dir = DOMAIN m.dir /\ k.kheap_end = m.kheap_end
      /\ k.large_alloc_base = m.large_alloc_base /\ kernel_pd \in DOMAIN m.dir
  BY DEF Maps, Sound, Good, Shape
<1>2. \A v \in KernelPages : Frames(k, v) = Frames(m, v)
  BY DEF Maps
<1>3. Below(k) = Below(m) /\ Above(k) = Above(m)
  BY <1>1 DEF Below, Above
<1>4. Below(m) \subseteq KernelPages /\ Above(m) \subseteq KernelPages
  <2>1. /\ m.kheap_end \in Nat /\ KHEAP_START <= m.kheap_end /\ m.kheap_end <= LARGE_START
        /\ m.large_alloc_base \in Nat /\ LARGE_START <= m.large_alloc_base
        /\ m.large_alloc_base <= LargeEnd
    BY DEF Sound, Laid
  <2> QED
    BY <2>1, AreasAreKernelPages DEF Below, Above
<1>5. Laid(k) /\ (Filled(m) => Filled(k))
  BY <1>1, <1>2, <1>3, <1>4 DEF Maps, Sound, Laid, Filled
<1>6. Agree(k)
  BY MapsAgree DEF Sound
<1>7. k.dir[kernel_pd][0] = m.dir[kernel_pd][0]
  BY <1>1, Layout DEF Maps
<1>8. \A s \in Ordinary : m.dir[kernel_pd][s] # 0 => k.dir[kernel_pd][s] # 0
  BY <1>1 DEF Maps
<1>9. m.kheap_end <= k.kheap_end
  BY <1>1 DEF Sound, Laid
<1> QED
  BY <1>1, <1>5, <1>6, <1>7, <1>8, <1>9 DEF Runs, Sound, Maps

\* What users find in their pages stays.
Untouched(m, k) == Keeps(m, k, kernel_pd, {})

LEMMA UntouchedOn ==
  ASSUME NEW m, NEW k, NEW j, Untouched(m, k), Untouched(k, j) PROVE Untouched(m, j)
BY KeepsOn DEF Untouched

LEMMA UntouchedSame ==
  ASSUME NEW m, NEW k, k.dir = m.dir, k.table = m.table, k.bytes = m.bytes PROVE Untouched(m, k)
BY SameKeeps DEF Untouched, MoreBytes

LEMMA KernelUntouched ==
  ASSUME NEW m, NEW j, NEW k, NEW pd, NEW V, Maps(m, j, pd, V), V \subseteq KernelPages,
         k.dir = j.dir, k.table = j.table, k.bytes = j.bytes
  PROVE  Untouched(m, k)
<1>1. V \cap UserPages = {}
  BY UserPagesApart
<1>2. Untouched(m, j)
  BY <1>1, KeepsAll DEF Maps, Untouched
<1> QED
  BY <1>2, UntouchedSame, UntouchedOn

LEMMA SameMemory ==
  ASSUME NEW j, NEW k, Good(j), DOMAIN k = Fields, k.bitmap = j.bitmap, k.panicked = j.panicked,
         k.dir = j.dir, k.table = j.table, k.bytes = j.bytes
  PROVE  Good(k) /\ \A v : Frames(k, v) = Frames(j, v)
BY DEF Good, Shape, DirsOK, TablesOK, LeavesOK, LeafOnce, SlotOnce, NewTables, Given, Frames, Mapped

\* A break moves over the pages that were mapped, unless there was a panic.
LEMMA Advance ==
  ASSUME NEW m, NEW j, NEW k, NEW pd, NEW V, Sound(m), Maps(m, j, pd, V), V \subseteq Above(m),
         V \cap Below(m) = {}, V \subseteq KernelPages,
         DOMAIN k = Fields, k.bitmap = j.bitmap, k.panicked = j.panicked,
         k.dir = j.dir, k.table = j.table, k.bytes = j.bytes,
         k.kheap_end \in Nat, m.kheap_end <= k.kheap_end, k.kheap_end <= LARGE_START,
         k.large_alloc_base \in Nat, m.large_alloc_base <= k.large_alloc_base,
         k.large_alloc_base <= LargeEnd,
         k.panicked => Below(k) \subseteq Below(m),
         ~k.panicked => Below(k) \subseteq Below(m) \cup V /\ Above(k) \subseteq Above(m) \ V
  PROVE  Runs(m, k)
<1>1. Good(j)
  BY DEF Maps
<1>2. Good(k) /\ \A v : Frames(k, v) = Frames(j, v)
  BY <1>1, SameMemory
<1>3. Agree(k)
  BY <1>2, MapsAgree DEF Sound, Agree
<1>4. \A v \in KernelPages \ V : Frames(k, v) = Frames(m, v)
  BY <1>2 DEF Maps
<1>5. /\ m.kheap_end \in Nat /\ KHEAP_START <= m.kheap_end /\ m.kheap_end <= LARGE_START
      /\ m.large_alloc_base \in Nat /\ LARGE_START <= m.large_alloc_base
      /\ m.large_alloc_base <= LargeEnd
  BY DEF Sound, Laid
<1>6. Below(m) \subseteq KernelPages /\ Above(m) \subseteq KernelPages
  BY <1>5, AreasAreKernelPages DEF Below, Above
<1>7. m.panicked => k.panicked
  BY DEF Maps
<1>8. Laid(k)
  <2>1. ASSUME ~k.panicked, NEW v \in Above(k) PROVE Frames(k, v) = {}
    <3>1. v \in Above(m) \ V
      BY <2>1
    <3>2. Frames(m, v) = {}
      BY <1>7, <2>1, <3>1 DEF Sound, Laid
    <3> QED
      BY <1>4, <1>6, <3>1, <3>2
  <2>2. KHEAP_START <= k.kheap_end /\ LARGE_START <= k.large_alloc_base
    BY <1>5, AreasAreKernelPages
  <2> QED
    BY <2>1, <2>2 DEF Laid
<1>9. ASSUME Filled(m) PROVE Filled(k)
  <2> SUFFICES ASSUME NEW v \in Below(k) PROVE Frames(k, v) # {}
    BY DEF Filled
  <2>1. CASE v \in Below(m)
    <3>1. Frames(m, v) # {}
      BY <1>9, <2>1 DEF Filled
    <3> QED
      BY <1>4, <1>6, <2>1, <3>1
  <2>2. CASE v \notin Below(m)
    <3>1. ~k.panicked /\ v \in V
      BY <2>2
    <3> QED
      BY <1>2, <3>1 DEF Maps
  <2> QED
    BY <2>1, <2>2
<1>10. kernel_pd \in DOMAIN m.dir /\ 0 \in Ordinary
  BY Layout DEF Sound, Good, Shape
<1>11. k.dir[kernel_pd][0] = m.dir[kernel_pd][0]
  <2>1. 0 \notin Slots(V)
    BY KernelPageIs DEF Slots
  <2> QED
    BY <1>10, <2>1 DEF Maps
<1>12. \A s \in Ordinary : m.dir[kernel_pd][s] # 0 => k.dir[kernel_pd][s] # 0
  BY <1>10 DEF Maps
<1> QED
  BY <1>2, <1>3, <1>7, <1>8, <1>9, <1>11, <1>12 DEF Runs, Sound, Maps

LEMMA GrowRuns ==
  ASSUME NEW m, Sound(m), ~m.panicked, NEW pd \in DOMAIN m.dir, m.kheap_end < LARGE_START,
         NEW k, k = kheap_grow(m, pd)
  PROVE  /\ Runs(m, k) /\ Untouched(m, k) /\ DOMAIN k.dir = DOMAIN m.dir
         /\ k.new = m.new /\ k.large_alloc_base = m.large_alloc_base
         /\ k.kheap_end <= m.kheap_end + 1
         /\ BootShared(m) /\ pd # kernel_pd => BootShared(k)
<1> DEFINE v == m.kheap_end
           j == MapNewFrame(m, pd, v)
<1>1. /\ v \in Nat /\ KHEAP_START <= v /\ v < LARGE_START
      /\ m.large_alloc_base \in Nat /\ LARGE_START <= m.large_alloc_base
      /\ m.large_alloc_base <= LargeEnd
  BY DEF Sound, Laid
<1>2. v \in Above(m) /\ v \notin Below(m)
  BY <1>1, AreasAreKernelPages DEF Above, Below
<1>3. v \in KernelPages /\ Frames(m, v) = {}
  <2>1. v \in KHEAP_START .. LargeEnd - 1
    BY <1>1, AreasAreKernelPages
  <2> QED
    BY <1>2, <2>1, AreasAreKernelPages DEF Sound, Laid
<1> HIDE DEF v
<1>4. Maps(m, j, pd, {v})
  BY <1>3, MapNewFrameMaps DEF Sound
<1>5. k = IF j.panicked THEN j ELSE [j EXCEPT !.kheap_end = @ + 1]
  BY DEF kheap_grow, Then, v
<1> HIDE DEF j
<1>6. DOMAIN j = Fields /\ j.kheap_end = v /\ j.large_alloc_base = m.large_alloc_base /\ j.new = m.new
      /\ DOMAIN j.dir = DOMAIN m.dir
  BY <1>4 DEF Maps, Good, Shape, v
<1>7. /\ DOMAIN k = Fields /\ k.bitmap = j.bitmap /\ k.panicked = j.panicked /\ k.dir = j.dir
      /\ k.table = j.table /\ k.bytes = j.bytes /\ k.new = m.new
      /\ k.large_alloc_base = m.large_alloc_base
      /\ k.kheap_end = IF k.panicked THEN v ELSE v + 1
  BY <1>5, <1>6 DEF Fields
<1>8. k.panicked => Below(k) \subseteq Below(m)
  BY <1>7 DEF Below, v
<1>9. ~k.panicked => Below(k) \subseteq Below(m) \cup {v} /\ Above(k) \subseteq Above(m) \ {v}
  <2> SUFFICES ASSUME ~k.panicked
               PROVE  Below(k) \subseteq Below(m) \cup {v} /\ Above(k) \subseteq Above(m) \ {v}
    OBVIOUS
  <2>1. k.kheap_end = v + 1 /\ m.kheap_end = v
    BY <1>7 DEF v
  <2> QED
    BY <1>1, <1>7, <2>1, AreasAreKernelPages DEF Below, Above
<1>10. Runs(m, k)
  <2>1. k.kheap_end \in Nat /\ m.kheap_end <= k.kheap_end /\ k.kheap_end <= LARGE_START
    BY <1>1, <1>7, AreasAreKernelPages DEF v
  <2>2. k.large_alloc_base \in Nat /\ m.large_alloc_base <= k.large_alloc_base
        /\ k.large_alloc_base <= LargeEnd
    BY <1>1, <1>7
  <2> QED
    BY <1>2, <1>3, <1>4, <1>7, <1>8, <1>9, <2>1, <2>2, Advance
<1>11. BootShared(m) /\ pd # kernel_pd => BootShared(k)
  <2>1. BootShared(m) /\ pd # kernel_pd => BootShared(j)
    BY <1>4, MapsShared DEF Sound, Good, Shape
  <2> QED
    BY <1>7, <2>1 DEF BootShared
<1>12. k.kheap_end <= m.kheap_end + 1
  BY <1>1, <1>7 DEF v
<1>13. Untouched(m, k)
  <2> DEFINE V == {v}
  <2>1. V \subseteq KernelPages /\ Maps(m, j, pd, V)
    BY <1>3, <1>4
  <2> HIDE DEF V
  <2> QED
    BY <1>7, <2>1, KernelUntouched
<1> QED
  BY <1>6, <1>7, <1>10, <1>11, <1>12, <1>13

LEMMA KallocRuns ==
  ASSUME NEW m, Sound(m), ~m.panicked, NEW pd \in DOMAIN m.dir, NEW n \in Nat,
         NEW b, b = m.large_alloc_base, b + n <= LargeEnd,
         NEW k, k = kalloc_pages(m, pd, n)
  PROVE  /\ Runs(m, k) /\ Untouched(m, k) /\ DOMAIN k.dir = DOMAIN m.dir
         /\ k.new = m.new /\ k.kheap_end = m.kheap_end
         /\ ~k.panicked => k.large_alloc_base = b + n
         /\ BootShared(m) /\ (pd = kernel_pd => \A v \in b .. b + n - 1 :
                                m.dir[kernel_pd][SlotOf(v)] # 0)
              => BootShared(k)
         /\ \A h \in Fb : NoLeaf(m, h) => NoLeaf(k, h)
<1> DEFINE V == b .. b + n - 1
           j == MapNewFrames(m, pd, b, n)
<1>1. /\ b \in Nat /\ LARGE_START <= b /\ b + n <= LargeEnd
      /\ m.kheap_end \in Nat /\ KHEAP_START <= m.kheap_end /\ m.kheap_end <= LARGE_START
  BY DEF Sound, Laid
<1>2. V \subseteq Above(m) /\ V \cap Below(m) = {}
  BY <1>1, AreasAreKernelPages DEF Above, Below
<1>3. \A v \in V : v \in KernelPages /\ Frames(m, v) = {}
  <2>1. V \subseteq KHEAP_START .. LargeEnd - 1
    BY <1>1, AreasAreKernelPages
  <2> QED
    BY <1>2, <2>1, AreasAreKernelPages DEF Sound, Laid
<1>4. Maps(m, j, pd, V) /\ \A h \in Fb : NoLeaf(m, h) => NoLeaf(j, h)
  BY <1>1, <1>3, MapNewFramesMaps DEF Sound
<1>5. k = IF j.panicked THEN j ELSE [j EXCEPT !.large_alloc_base = @ + n]
  BY DEF kalloc_pages, Then
<1> HIDE DEF j
<1>6. DOMAIN j = Fields /\ j.large_alloc_base = b /\ j.kheap_end = m.kheap_end /\ j.new = m.new
      /\ DOMAIN j.dir = DOMAIN m.dir
  BY <1>4 DEF Maps, Good, Shape
<1>7. /\ DOMAIN k = Fields /\ k.bitmap = j.bitmap /\ k.panicked = j.panicked /\ k.dir = j.dir
      /\ k.table = j.table /\ k.bytes = j.bytes /\ k.new = m.new
      /\ k.kheap_end = m.kheap_end
      /\ k.large_alloc_base = IF k.panicked THEN b ELSE b + n
  BY <1>5, <1>6 DEF Fields
<1>8. k.panicked => Below(k) \subseteq Below(m)
  BY <1>7 DEF Below
<1>9. ~k.panicked => Below(k) \subseteq Below(m) \cup V /\ Above(k) \subseteq Above(m) \ V
  <2> SUFFICES ASSUME ~k.panicked
               PROVE  Below(k) \subseteq Below(m) \cup V /\ Above(k) \subseteq Above(m) \ V
    OBVIOUS
  <2>1. k.large_alloc_base = b + n /\ m.large_alloc_base = b
    BY <1>7
  <2> QED
    BY <1>1, <1>7, <2>1, AreasAreKernelPages DEF Below, Above
<1>10. Runs(m, k)
  <2>1. k.large_alloc_base \in Nat /\ m.large_alloc_base <= k.large_alloc_base
        /\ k.large_alloc_base <= LargeEnd
    BY <1>1, <1>7, AreasAreKernelPages
  <2>2. k.kheap_end \in Nat /\ m.kheap_end <= k.kheap_end /\ k.kheap_end <= LARGE_START
    BY <1>1, <1>7
  <2>3. V \subseteq KernelPages
    BY <1>3
  <2> HIDE DEF V
  <2> QED
    BY <1>2, <1>4, <1>7, <1>8, <1>9, <2>1, <2>2, <2>3, Advance
<1>11. BootShared(m) /\ (pd = kernel_pd => \A v \in V : m.dir[kernel_pd][SlotOf(v)] # 0)
         => BootShared(k)
  <2>1. BootShared(m) /\ (pd = kernel_pd => \A v \in V : m.dir[kernel_pd][SlotOf(v)] # 0)
          => BootShared(j)
    <3> HIDE DEF V
    <3> QED
      BY <1>4, MapsShared DEF Sound, Good, Shape
  <2> QED
    BY <1>7, <2>1 DEF BootShared
<1>12. \A h \in Fb : NoLeaf(m, h) => NoLeaf(k, h)
  BY <1>4, <1>7 DEF NoLeaf, NewTables
<1>13. Untouched(m, k)
  <2>1. V \subseteq KernelPages
    BY <1>3
  <2> HIDE DEF V
  <2> QED
    BY <1>4, <1>7, <2>1, KernelUntouched
<1> QED
  BY <1>6, <1>7, <1>10, <1>11, <1>12, <1>13

-----------------------------------------------------------------------------
(***************************************************************************)
(* The pages of users.                                                     *)
(***************************************************************************)
LEMMA AlikeGood ==
  ASSUME NEW m, NEW k, Good(m), Alike(m, k), DOMAIN k = Fields, k.bitmap = m.bitmap,
         DOMAIN k.bytes \subseteq Given(m)
  PROVE  /\ Good(k) /\ \A h : NoLeaf(m, h) => NoLeaf(k, h)
         /\ \A h : Fresh(m, h) /\ h \notin DOMAIN k.bytes => Fresh(k, h)
<1>1. /\ Given(k) = Given(m) /\ NewTables(k) = NewTables(m) /\ k.table = m.table
      /\ k.panicked = m.panicked /\ DOMAIN k.dir = DOMAIN m.dir
      /\ \A d \in DOMAIN m.dir : k.dir[d] = m.dir[d]
  BY DEF Alike, Given, NewTables
<1>2. Shape(k)
  BY <1>1 DEF Good, Shape
<1>3. DirsOK(k) /\ TablesOK(k) /\ LeavesOK(k) /\ LeafOnce(k)
  BY <1>1 DEF Good, DirsOK, TablesOK, LeavesOK, LeafOnce
<1>4. SlotOnce(k)
  BY <1>1 DEF Good, SlotOnce
<1> QED
  BY <1>1, <1>2, <1>3, <1>4 DEF Good, NoLeaf, Fresh

\* What foreign_map_page does.
IsForeign(m, k, pd, v, f) ==
  /\ Maps(m, k, pd, {v}) /\ Spares(m, k, f) /\ Given(m) \subseteq Given(k)
  /\ k.bytes = m.bytes /\ (~k.panicked => Mapped(k, pd, v) = f)

LEMMA ForeignMaps ==
  ASSUME NEW m, Good(m), ~m.panicked, NEW cur \in DOMAIN m.dir,
         NEW pd \in DOMAIN m.dir \ {kernel_pd}, NEW v \in UserPages, NEW f, Fresh(m, f),
         NEW k, k = foreign_map_page(m, cur, pd, f, v)
  PROVE  IsForeign(m, k, pd, v, f)
<1> SUFFICES /\ Maps(m, k, pd, {v}) /\ Spares(m, k, f) /\ Given(m) \subseteq Given(k)
             /\ k.bytes = m.bytes /\ (~k.panicked => Mapped(k, pd, v) = f)
  BY DEF IsForeign
<1> DEFINE j == map_page(m, pd, f, v)
<1>1. v \in Pages /\ v \notin KernelPages /\ Counts(pd, SlotOf(v)) /\ Backing(m, f)
  BY UserPagesApart DEF Counts, Backing
<1>2. Maps(m, j, pd, {v}) /\ Spares(m, j, f) /\ (~j.panicked => Mapped(j, pd, v) = f)
  BY <1>1, MapPageMaps
<1>3. Given(m) \subseteq Given(j) /\ j.bytes = m.bytes
  <2>1. \/ j = Panicked(m)
        \/ IsEntered(m, j, m.dir[pd][SlotOf(v)], IndexOf(v), f)
        \/ \E g \in Pool \ m.bitmap : \E i :
             IsTabled(Taking(m, g), i, pd, SlotOf(v), g) /\ IsEntered(i, j, g, IndexOf(v), f)
    BY <1>1, MapPageIs
  <2> HIDE DEF j
  <2>2. CASE j = Panicked(m)
    BY <2>2, PanickedGood DEF Fields, Given
  <2>3. CASE IsEntered(m, j, m.dir[pd][SlotOf(v)], IndexOf(v), f)
    BY <2>3 DEF IsEntered, Fields, Given
  <2>4. ASSUME NEW g \in Pool \ m.bitmap, NEW i,
               IsTabled(Taking(m, g), i, pd, SlotOf(v), g), IsEntered(i, j, g, IndexOf(v), f)
        PROVE  Given(m) \subseteq Given(j) /\ j.bytes = m.bytes
    <3> DEFINE t == Taking(m, g)
    <3>1. DOMAIN m = Fields
      BY DEF Good, Shape
    <3>2. t.bitmap = m.bitmap \cup {g} /\ t.bytes = m.bytes
      BY <3>1 DEF Taking, Fields
    <3> HIDE DEF t
    <3>3. j.bitmap = t.bitmap /\ j.bytes = t.bytes
      BY <2>4 DEF IsTabled, IsEntered, Fields, t
    <3> QED
      BY <3>2, <3>3 DEF Given
  <2> QED
    BY <2>1, <2>2, <2>3, <2>4
<1>4. k = IF j.panicked THEN j
          ELSE [j EXCEPT !.dir[cur][TEMP_PD_SLOT] = 0, !.dir[cur][TEMP_PT_SLOT] = 0]
  BY DEF foreign_map_page, Then
<1> HIDE DEF j
<1>5. f \in Given(m) /\ Good(j) /\ DOMAIN j = Fields /\ cur \in DOMAIN j.dir /\ DOMAIN j.bytes \subseteq Given(j)
  BY <1>2 DEF Fresh, Maps, Good, Shape
<1>6. CASE j.panicked
  BY <1>2, <1>3, <1>4, <1>5, <1>6
<1>7. CASE ~j.panicked
  <2> DEFINE D == [j.dir EXCEPT ![cur] = [j.dir[cur] EXCEPT ![TEMP_PD_SLOT] = 0]]
             E == [D EXCEPT ![cur] = [D[cur] EXCEPT ![TEMP_PT_SLOT] = 0]]
  <2>1. DOMAIN k = Fields /\ (\A x \in Fields \ {"dir"} : k[x] = j[x]) /\ k.dir = E
    BY <1>4, <1>5, <1>7 DEF Fields
  <2>2. D = [e \in DOMAIN j.dir |-> j.dir[e]]
    BY <1>5, ClearedAnyway, Layout DEF Special
  <2>3. [j.dir EXCEPT ![cur] = [j.dir[cur] EXCEPT ![TEMP_PT_SLOT] = 0]]
          = [e \in DOMAIN j.dir |-> j.dir[e]]
    BY <1>5, ClearedAnyway, Layout DEF Special
  <2> HIDE DEF D
  <2>4. D[cur] = j.dir[cur] /\ DOMAIN D = DOMAIN j.dir
    BY <1>5, <2>2
  <2>5. j.dir[cur] = [j.dir[cur] EXCEPT ![TEMP_PT_SLOT] = 0]
    <3>1. j.dir[cur] \in [Slot -> Nat] /\ j.dir[cur][TEMP_PT_SLOT] = 0
      <4>1. TEMP_PT_SLOT \in Special \ {RECURSIVE_SLOT}
        BY Layout DEF Special
      <4>2. DirsOK(j) /\ cur \in DOMAIN j.dir
        BY <1>5 DEF Good
      <4> QED
        BY ONLY <4>1, <4>2 DEF DirsOK
    <3> QED
      BY <3>1
  <2>6. DOMAIN E = DOMAIN j.dir /\ \A d \in DOMAIN j.dir : E[d] = j.dir[d]
    BY <1>5, <2>2, <2>4, <2>5
  <2> HIDE DEF E
  <2>7. Alike(j, k) /\ k.bitmap = j.bitmap /\ k.bytes = j.bytes
    BY <2>1, <2>6 DEF Alike, MoreBytes, Fields
  <2>8. Good(k) /\ (\A h : NoLeaf(j, h) => NoLeaf(k, h))
        /\ \A h : Fresh(j, h) /\ h \notin DOMAIN k.bytes => Fresh(k, h)
    BY <1>5, <2>1, <2>7, AlikeGood
  <2>9. Maps(m, k, pd, {v})
    BY <1>2, <2>7, <2>8, AlikeMaps
  <2>10. Spares(m, k, f)
    BY <1>2, <2>7, <2>8 DEF Spares, Fresh
  <2>11. Given(k) = Given(j)
    BY <2>7 DEF Given
  <2>12. ~k.panicked => Mapped(k, pd, v) = f
    <3>1. pd \in DOMAIN j.dir
      BY <1>2 DEF Maps
    <3> QED
      BY <1>2, <1>7, <2>7, <3>1 DEF Alike, Mapped
  <2> QED
    BY <1>3, <1>5, <2>7, <2>9, <2>10, <2>11, <2>12
<1> QED
  BY <1>6, <1>7

LEMMA ForeignIs ==
  ASSUME NEW m, NEW cur, NEW pd, NEW v, NEW f, Good(m), ~m.panicked, cur \in DOMAIN m.dir,
         pd \in DOMAIN m.dir, pd # kernel_pd, v \in UserPages, Fresh(m, f)
  PROVE  IsForeign(m, foreign_map_page(m, cur, pd, f, v), pd, v, f)
<1>1. \A k : k = foreign_map_page(m, cur, pd, f, v) => IsForeign(m, k, pd, v, f)
  <2> SUFFICES ASSUME NEW k, k = foreign_map_page(m, cur, pd, f, v)
               PROVE  IsForeign(m, k, pd, v, f)
    OBVIOUS
  <2> QED
    BY ForeignMaps
<1> QED
  BY <1>1

\* Page v of the directory pd has the content c.
Holds(m, pd, v, c) ==
  /\ v \in UserPages /\ Mapped(m, pd, v) \in DOMAIN m.bytes
  /\ m.bytes[Mapped(m, pd, v)] = c

LEMMA KeepsHolds ==
  ASSUME NEW m, NEW k, NEW pd, NEW V, NEW d, NEW v, NEW c, Keeps(m, k, pd, V), Holds(m, d, v, c),
         d \in DOMAIN m.dir, d # kernel_pd, d # pd \/ v \notin V
  PROVE  Holds(k, d, v, c)
BY DEF Keeps, Holds

\* A page with its frame and content.
LEMMA UserPageMaps ==
  ASSUME NEW m, Good(m), ~m.panicked, NEW cur \in DOMAIN m.dir,
         NEW pd \in DOMAIN m.dir \ {kernel_pd}, NEW v \in UserPages, NEW content,
         NEW k, k = UserPage(m, cur, pd, v, content)
  PROVE  Maps(m, k, pd, {v}) /\ (~k.panicked => Holds(k, pd, v, content))
<1> DEFINE a == pmm_alloc_frame(m)
<1>0. Shape(m)
  BY DEF Good
<1>1. ASSUME a = [m |-> Panicked(m), frame |-> 0] PROVE Maps(m, k, pd, {v}) /\ k.panicked
  <2>1. k = Panicked(m)
    BY <1>1, PanickedGood DEF UserPage, WithFrame
  <2>2. \A w \in {v} \cap KernelPages : One(Frames(m, w))
    BY UserPagesApart
  <2>3. Maps(m, Panicked(m), pd, {v})
    <3> DEFINE V == {v}
    <3>1. \A w \in V \cap KernelPages : One(Frames(m, w))
      BY <2>2
    <3> HIDE DEF V
    <3>2. Maps(m, Panicked(m), pd, V)
      BY <3>1, PanickedMaps
    <3> QED
      BY <3>2 DEF V
  <2> QED
    BY <2>1, <2>3, PanickedGood
<1>2. ASSUME NEW f \in Pool \ m.bitmap, a = [m |-> Taking(m, f), frame |-> f]
      PROVE  Maps(m, k, pd, {v}) /\ (~k.panicked => Holds(k, pd, v, content))
  <2> DEFINE i == Taking(m, f)
             j == foreign_map_page(i, cur, pd, f, v)
  <2>1. Good(i) /\ Fresh(i, f) /\ Alike(m, i)
    BY TakingGood, TakingAlike
  <2>2. a.m = i /\ a.frame = f
    BY <1>2
  <2> HIDE DEF i, a
  <2>3. ~i.panicked /\ pd \in DOMAIN i.dir \ {kernel_pd} /\ cur \in DOMAIN i.dir
    BY <2>1 DEF Alike
  <2>4. Maps(i, j, pd, {v}) /\ f \in Given(j) /\ f \notin DOMAIN j.bytes
        /\ (~j.panicked => Mapped(j, pd, v) = f)
    <3>1. IsForeign(i, j, pd, v, f)
      BY <2>1, <2>3, ForeignIs
    <3> QED
      BY <2>1, <3>1 DEF IsForeign, Fresh
  <2>5. k = IF j.panicked THEN j
            ELSE [j EXCEPT !.bytes = Added(@, f, content), !.dir[cur][TEMP_FRAME_SLOT] = 0]
    BY <2>2, <2>3 DEF UserPage, WithFrame, Then, a
  <2> HIDE DEF j
  <2>6. Good(j) /\ DOMAIN j = Fields /\ cur \in DOMAIN j.dir /\ DOMAIN j.bytes \subseteq Given(j)
    BY <2>3, <2>4 DEF Maps, Good, Shape
  <2>7. Maps(m, j, pd, {v})
    BY <2>1, <2>4, <2>6, AlikeMaps
  <2>8. CASE ~j.panicked
    <3> DEFINE D == [j.dir EXCEPT ![cur] = [j.dir[cur] EXCEPT ![TEMP_FRAME_SLOT] = 0]]
    <3>1. /\ DOMAIN k = Fields /\ \A x \in Fields \ {"dir", "bytes"} : k[x] = j[x]
          /\ k.dir = D /\ k.bytes = Added(j.bytes, f, content)
      BY <2>5, <2>6, <2>8 DEF Fields
    <3>2. D = [e \in DOMAIN j.dir |-> j.dir[e]]
      BY <2>6, ClearedAnyway, Layout DEF Special
    <3> HIDE DEF D
    <3>3. Alike(j, k) /\ k.bitmap = j.bitmap
      <4>1. MoreBytes(j, k)
        BY <2>4, <3>1 DEF MoreBytes, Added
      <4> QED
        BY <3>1, <3>2, <4>1 DEF Alike, Fields
    <3>4. DOMAIN k.bytes \subseteq Given(j)
      BY <2>4, <2>6, <3>1 DEF Added
    <3>5. Good(k)
      BY <2>6, <3>1, <3>3, <3>4, AlikeGood
    <3>6. Holds(k, pd, v, content)
      <4>1. pd \in DOMAIN j.dir
        BY <2>3, <2>4 DEF Maps
      <4>2. Mapped(k, pd, v) = f
        BY <2>4, <2>8, <3>3, <4>1 DEF Alike, Mapped
      <4>3. f \in DOMAIN k.bytes /\ k.bytes[f] = content
        BY <3>1 DEF Added
      <4> QED
        BY <4>2, <4>3 DEF Holds
    <3> QED
      BY <2>7, <3>3, <3>5, <3>6, AlikeMaps
  <2> QED
    BY <2>5, <2>7, <2>8
<1>3. a = [m |-> Panicked(m), frame |-> 0]
        \/ \E f \in Pool \ m.bitmap : a = [m |-> Taking(m, f), frame |-> f]
  BY <1>0, AllocIs
<1> QED
  BY <1>1, <1>2, <1>3, Zenon

-----------------------------------------------------------------------------
\* k follows from m by loading some of the pages V of a user in the directory pd.
Loads(m, k, pd, V) == Maps(m, k, pd, V)

LEMMA LoadsSteps ==
  ASSUME NEW m, Good(m), NEW pd, NEW V, V \subseteq UserPages
  PROVE  /\ Loads(m, m, pd, V) /\ Loads(m, Panicked(m), pd, V)
         /\ \A k : \A v \in V : Maps(m, k, pd, {v}) => Loads(m, k, pd, V)
         /\ \A k, j : Loads(m, k, pd, V) /\ Loads(k, j, pd, V) => Loads(m, j, pd, V)
<1>1. V \cap KernelPages = {}
  BY UserPagesApart
<1>2. Loads(m, m, pd, V)
  <2>1. Maps(m, m, pd, {}) /\ {} \subseteq V /\ V \cap KernelPages \subseteq {}
    BY <1>1, MapsSelf
  <2> QED
    BY <2>1, MapsWider DEF Loads
<1>3. Loads(m, Panicked(m), pd, V)
  <2>1. \A v \in V \cap KernelPages : One(Frames(m, v))
    BY <1>1
  <2> QED
    BY <2>1, PanickedMaps DEF Loads
<1>4. ASSUME NEW k, NEW v \in V, Maps(m, k, pd, {v}) PROVE Loads(m, k, pd, V)
  <2> DEFINE U == {v}
  <2>1. Maps(m, k, pd, U) /\ U \subseteq V /\ V \cap KernelPages \subseteq U
    BY <1>1, <1>4
  <2> HIDE DEF U
  <2> QED
    BY <2>1, MapsWider DEF Loads
<1>5. ASSUME NEW k, NEW j, Loads(m, k, pd, V), Loads(k, j, pd, V) PROVE Loads(m, j, pd, V)
  <2>1. Maps(m, j, pd, V \cup V)
    BY <1>5, MapsOn DEF Loads
  <2>2. V \cup V = V
    OBVIOUS
  <2> QED
    BY <2>1, <2>2 DEF Loads
<1> QED
  BY <1>2, <1>3, <1>4, <1>5

LEMMA LoadsWider ==
  ASSUME NEW m, NEW k, NEW pd, NEW V, Loads(m, k, pd, V), V \subseteq UserPages
  PROVE  Loads(m, k, pd, UserPages)
<1>1. UserPages \cap KernelPages \subseteq V
  BY UserPagesApart
<1> QED
  BY <1>1, MapsWider DEF Loads

LEMMA LoadsHolds ==
  ASSUME NEW m, NEW k, NEW pd, NEW V, NEW v, NEW c, Loads(m, k, pd, V), Holds(m, pd, v, c),
         pd \in DOMAIN m.dir, pd # kernel_pd, v \notin V
  PROVE  Holds(k, pd, v, c)
BY KeepsHolds DEF Loads, Maps

LEMMA UserPageLoads ==
  ASSUME NEW m, NEW cur, NEW pd, NEW v, NEW content, Good(m), ~m.panicked, cur \in DOMAIN m.dir,
         pd \in DOMAIN m.dir, pd # kernel_pd, v \in UserPages
  PROVE  /\ Loads(m, UserPage(m, cur, pd, v, content), pd, {v})
         /\ ~UserPage(m, cur, pd, v, content).panicked
              => Holds(UserPage(m, cur, pd, v, content), pd, v, content)
<1>1. \A k : k = UserPage(m, cur, pd, v, content) =>
             Maps(m, k, pd, {v}) /\ (~k.panicked => Holds(k, pd, v, content))
  <2> SUFFICES ASSUME NEW k, k = UserPage(m, cur, pd, v, content)
               PROVE  Maps(m, k, pd, {v}) /\ (~k.panicked => Holds(k, pd, v, content))
    OBVIOUS
  <2> QED
    BY UserPageMaps
<1> QED
  BY <1>1 DEF Loads

\* What a loading step needs of the directories stays.
LEMMA LoadsStays ==
  ASSUME NEW m, NEW k, NEW pd, NEW V, Loads(m, k, pd, V)
  PROVE  Good(k) /\ DOMAIN k.dir = DOMAIN m.dir
BY DEF Loads, Maps

\* The pages of a segment that LoadSegment lets through.
PagesOf(seg) == Range(SegPages(seg))

LEMMA SegEndNat ==
  ASSUME NEW seg \in [vaddr : Nat, filesz : Nat, memsz : Nat, offset : Nat]
  PROVE  SegEnd(seg) \in Nat
<1> DEFINE x == seg.vaddr + seg.memsz
<1>1. x \in Nat /\ ADDRESSES \in Nat \ {0}
  BY PmmAssumption
<1> HIDE DEF x
<1>2. x % ADDRESSES \in Nat
  BY <1>1
<1> QED
  BY <1>2 DEF SegEnd, x

LEMMA SegPagesAre ==
  ASSUME NEW seg \in [vaddr : Nat, filesz : Nat, memsz : Nat, offset : Nat],
         SegEnd(seg) <= USER_STACK_TOP * PAGE_SIZE
  PROVE  /\ Len(SegPages(seg)) \in Nat
         /\ \A i \in 1 .. Len(SegPages(seg)) : SegPages(seg)[i] \in UserPages
         /\ \A i, j \in 1 .. Len(SegPages(seg)) : SegPages(seg)[i] = SegPages(seg)[j] => i = j
         /\ PagesOf(seg) = {SegPages(seg)[i] : i \in 1 .. Len(SegPages(seg))}
<1> DEFINE E == SegEnd(seg)
           first == seg.vaddr \div PAGE_SIZE
           last == (E - 1) \div PAGE_SIZE
           c == last - first + 1
           n == IF c \in Nat THEN c ELSE 0
           pages == SegPages(seg)
<1>1. PAGE_SIZE \in Nat \ {0} /\ USER_STACK_TOP \in Nat /\ USER_STACK_TOP <= KERNEL_SLOT * ENTRIES
  BY MemorySizes, AddressSpaceAssumption
<1>2. E \in Nat /\ E <= PAGE_SIZE * USER_STACK_TOP
  BY <1>1, SegEndNat
<1>3. first \in Nat
  BY <1>1, Division
<1> HIDE DEF E
<1>4. last \in Int /\ (last < USER_STACK_TOP \/ last = -1)
  <2>1. CASE E = 0
    <3>1. (0 - 1) \div PAGE_SIZE = -1
      BY <1>1, Z3
    <3> QED
      BY <2>1, <3>1
  <2>2. CASE E # 0
    <3>1. E - 1 \in Nat /\ E - 1 < PAGE_SIZE * USER_STACK_TOP
      BY <1>1, <1>2, <2>2
    <3> QED
      BY <1>1, <3>1, Division, DivisionOrder
  <2> QED
    BY <2>1, <2>2
<1>5. pages = IF last < first THEN <<>> ELSE [i \in 1 .. c |-> first + i - 1]
  BY DEF SegPages, E
<1> HIDE DEF first, last, pages
<1>6. c \in Int /\ (c \in Nat => n = c) /\ (c \notin Nat => n = 0 /\ 1 .. c = {}) /\ n \in Nat
  BY <1>3, <1>4
<1> HIDE DEF n
<1>7. 1 .. c = 1 .. n
  BY <1>6
<1>8. pages = [i \in 1 .. n |-> first + i - 1]
  <2>1. CASE last < first
    <3>1. 1 .. n = {} /\ pages = <<>>
      BY <1>3, <1>4, <1>5, <1>6, <2>1
    <3>2. [i \in 1 .. n |-> first + i - 1] = <<>>
      BY <3>1
    <3> QED
      BY <3>1, <3>2
  <2>2. CASE ~(last < first)
    BY <1>5, <1>7, <2>2
  <2> QED
    BY <2>1, <2>2
<1> HIDE DEF c
<1>9. Len(pages) = n
  BY <1>6, <1>8
<1>10. ASSUME NEW i \in 1 .. n PROVE pages[i] \in UserPages
  <2>1. pages[i] = first + i - 1 /\ i \in 1 .. c
    BY <1>7, <1>8, <1>10
  <2>2. first + i - 1 <= last
    BY <1>3, <1>4, <2>1 DEF c
  <2>3. first + i - 1 \in Nat
    BY <1>3, <1>6, <1>10
  <2> QED
    BY <1>1, <1>4, <2>1, <2>2, <2>3, UserPagesApart DEF UserPages
<1>11. \A i, j \in 1 .. n : pages[i] = pages[j] => i = j
  BY <1>3, <1>6, <1>8
<1>12. Range(pages) = {pages[i] : i \in 1 .. n}
  BY <1>8 DEF Range
<1> QED
  BY <1>6, <1>9, <1>10, <1>11, <1>12 DEF pages, PagesOf

\* The loops of the loader, step by step.
LEMMA LoadPagesIs ==
  ASSUME NEW m, NEW cur, NEW pd, NEW seg, NEW n \in Nat, n = Len(SegPages(seg))
  PROVE  \E after : /\ LoadPages(m, cur, pd, seg) = after[n] /\ after[0] = m
                    /\ \A i \in 1 .. n : after[i] =
                         IF after[i - 1].panicked THEN after[i - 1]
                         ELSE UserPage(after[i - 1], cur, pd, SegPages(seg)[i], PageBytes(seg, SegPages(seg)[i]))
<1> DEFINE Turn(i, a) == Then(a, LAMBDA k : UserPage(k, cur, pd, SegPages(seg)[i], PageBytes(seg, SegPages(seg)[i])))
           IsLoop(j, f) == f = [i \in 0 .. j |-> IF i = 0 THEN m ELSE Turn(i, f[i - 1])]
           S == {j \in 0 .. n : \E f : IsLoop(j, f)}
           loop == CHOOSE f : IsLoop(n, f)
<1>1. LoadPages(m, cur, pd, seg) = loop[n]
  BY DEF LoadPages
<1>2. \A i, a : Turn(i, a) = IF a.panicked THEN a ELSE UserPage(a, cur, pd, SegPages(seg)[i], PageBytes(seg, SegPages(seg)[i]))
  BY DEF Then
<1> HIDE DEF Turn
<1>3. 0 \in S
  <2>1. IsLoop(0, [i \in 0 .. 0 |-> m])
    OBVIOUS
  <2> HIDE DEF IsLoop
  <2> QED
    BY <2>1
<1>4. ASSUME NEW j \in 1 .. n, j - 1 \in S PROVE j \in S
  <2>1. PICK f : IsLoop(j - 1, f)
    BY <1>4
  <2> DEFINE g == [i \in 0 .. j |-> IF i = j THEN Turn(j, f[j - 1]) ELSE f[i]]
  <2>2. \A i \in 0 .. j - 1 : f[i] = IF i = 0 THEN m ELSE Turn(i, f[i - 1])
    BY <2>1
  <2>3. \A i \in 0 .. j : g[i] = IF i = 0 THEN m ELSE Turn(i, g[i - 1])
    BY <2>2
  <2>4. IsLoop(j, g)
    BY <2>3
  <2> HIDE DEF IsLoop, g
  <2> QED
    BY <2>4
<1>5. \E f : IsLoop(n, f)
  <2> HIDE DEF IsLoop
  <2> QED
    BY <1>3, <1>4, Segment
<1>6. IsLoop(n, loop)
  BY <1>5
<1> HIDE DEF loop
<1>7. loop[0] = m /\ \A i \in 1 .. n : loop[i] = Turn(i, loop[i - 1])
  BY <1>6
<1>8. \A i \in 1 .. n : loop[i] = IF loop[i - 1].panicked THEN loop[i - 1]
                                ELSE UserPage(loop[i - 1], cur, pd, SegPages(seg)[i], PageBytes(seg, SegPages(seg)[i]))
  BY <1>2, <1>7
<1> QED
  BY <1>1, <1>7, <1>8

LEMMA LoadSegmentsIs ==
  ASSUME NEW m, NEW cur, NEW pd, NEW segments, NEW n \in Nat, n = Len(segments)
  PROVE  \E after : /\ LoadSegments(m, cur, pd, segments) = after[n] /\ after[0] = m
                    /\ \A i \in 1 .. n : after[i] =
                         IF after[i - 1].panicked THEN after[i - 1]
                         ELSE LoadSegment(after[i - 1], cur, pd, segments[i])
<1> DEFINE Turn(i, a) == Then(a, LAMBDA k : LoadSegment(k, cur, pd, segments[i]))
           IsLoop(j, f) == f = [i \in 0 .. j |-> IF i = 0 THEN m ELSE Turn(i, f[i - 1])]
           S == {j \in 0 .. n : \E f : IsLoop(j, f)}
           loop == CHOOSE f : IsLoop(n, f)
<1>1. LoadSegments(m, cur, pd, segments) = loop[n]
  BY DEF LoadSegments
<1>2. \A i, a : Turn(i, a) = IF a.panicked THEN a ELSE LoadSegment(a, cur, pd, segments[i])
  BY DEF Then
<1> HIDE DEF Turn
<1>3. 0 \in S
  <2>1. IsLoop(0, [i \in 0 .. 0 |-> m])
    OBVIOUS
  <2> HIDE DEF IsLoop
  <2> QED
    BY <2>1
<1>4. ASSUME NEW j \in 1 .. n, j - 1 \in S PROVE j \in S
  <2>1. PICK f : IsLoop(j - 1, f)
    BY <1>4
  <2> DEFINE g == [i \in 0 .. j |-> IF i = j THEN Turn(j, f[j - 1]) ELSE f[i]]
  <2>2. \A i \in 0 .. j - 1 : f[i] = IF i = 0 THEN m ELSE Turn(i, f[i - 1])
    BY <2>1
  <2>3. \A i \in 0 .. j : g[i] = IF i = 0 THEN m ELSE Turn(i, g[i - 1])
    BY <2>2
  <2>4. IsLoop(j, g)
    BY <2>3
  <2> HIDE DEF IsLoop, g
  <2> QED
    BY <2>4
<1>5. \E f : IsLoop(n, f)
  <2> HIDE DEF IsLoop
  <2> QED
    BY <1>3, <1>4, Segment
<1>6. IsLoop(n, loop)
  BY <1>5
<1> HIDE DEF loop
<1>7. loop[0] = m /\ \A i \in 1 .. n : loop[i] = Turn(i, loop[i - 1])
  BY <1>6
<1>8. \A i \in 1 .. n : loop[i] = IF loop[i - 1].panicked THEN loop[i - 1]
                                ELSE LoadSegment(loop[i - 1], cur, pd, segments[i])
  BY <1>2, <1>7
<1> QED
  BY <1>1, <1>7, <1>8


\* The pages of a segment, with its bytes.
Filling(m, pd, seg) == \A v \in PagesOf(seg) : Holds(m, pd, v, PageBytes(seg, v))

LEMMA LoadPagesLoads ==
  ASSUME NEW m, NEW cur, NEW pd, NEW seg, Good(m), cur \in DOMAIN m.dir,
         pd \in DOMAIN m.dir, pd # kernel_pd,
         seg \in [vaddr : Nat, filesz : Nat, memsz : Nat, offset : Nat],
         SegEnd(seg) <= USER_STACK_TOP * PAGE_SIZE
  PROVE  /\ PagesOf(seg) \subseteq UserPages
         /\ Loads(m, LoadPages(m, cur, pd, seg), pd, PagesOf(seg))
         /\ ~LoadPages(m, cur, pd, seg).panicked => Filling(LoadPages(m, cur, pd, seg), pd, seg)
<1> DEFINE pages == SegPages(seg)
           n == Len(pages)
           K == LoadPages(m, cur, pd, seg)
           V == PagesOf(seg)
           C(v) == PageBytes(seg, v)
<1>1. /\ n \in Nat /\ (\A i \in 1 .. n : pages[i] \in UserPages)
      /\ \A i, j \in 1 .. n : pages[i] = pages[j] => i = j
      /\ V = {pages[i] : i \in 1 .. n}
  BY SegPagesAre
<1>2. PICK after : /\ K = after[n] /\ after[0] = m
                   /\ \A i \in 1 .. n : after[i] =
                        IF after[i - 1].panicked THEN after[i - 1]
                        ELSE UserPage(after[i - 1], cur, pd, pages[i], C(pages[i]))
  BY <1>1, LoadPagesIs
<1>3. Filling(K, pd, seg) <=> \A v \in V : Holds(K, pd, v, C(v))
  BY DEF Filling
<1> HIDE DEF K, pages, n, V, C
<1>4. V \subseteq UserPages
  BY <1>1
<1> DEFINE Held(k, i) == ~k.panicked => \A x \in 1 .. i : Holds(k, pd, pages[x], C(pages[x]))
           S == {i \in 0 .. n : Loads(m, after[i], pd, V) /\ Held(after[i], i)}
<1>5. 0 \in S
  <2>1. Loads(m, after[0], pd, V)
    BY <1>2, <1>4, LoadsSteps
  <2> QED
    BY <1>1, <2>1
<1>6. ASSUME NEW i \in 1 .. n, i - 1 \in S PROVE i \in S
  <2> DEFINE k == after[i - 1]
             v == pages[i]
             j == UserPage(k, cur, pd, v, C(v))
  <2>1. Loads(m, k, pd, V) /\ Held(k, i - 1) /\ after[i] = IF k.panicked THEN k ELSE j
    BY <1>2, <1>6
  <2>2. Good(k) /\ cur \in DOMAIN k.dir /\ pd \in DOMAIN k.dir /\ v \in UserPages /\ v \in V
    BY <1>1, <2>1, LoadsStays
  <2>3. \A x \in 1 .. i : x \in 1 .. n /\ (x = i \/ (x \in 1 .. i - 1 /\ pages[x] # v))
    <3>1. \A x \in 1 .. i : x \in 1 .. n /\ (x = i \/ x \in 1 .. i - 1)
      BY <1>1
    <3>2. \A x \in 1 .. n : pages[x] = pages[i] => x = i
      BY <1>1
    <3>3. \A x \in 1 .. i - 1 : x # i
      OBVIOUS
    <3> QED
      BY <3>1, <3>2, <3>3
  <2> HIDE DEF k, v
  <2>4. CASE k.panicked
    BY <2>1, <2>4
  <2>5. CASE ~k.panicked
    <3>1. Loads(k, j, pd, {v}) /\ (~j.panicked => Holds(j, pd, v, C(v)))
      BY <2>2, <2>5, UserPageLoads
    <3> HIDE DEF j
    <3>2. Loads(m, j, pd, V)
      <4>1. Loads(k, j, pd, V)
        BY <1>4, <2>2, <3>1, LoadsSteps DEF Loads
      <4> QED
        BY <1>4, <2>1, <4>1, LoadsSteps
    <3>3. ASSUME ~j.panicked, NEW x \in 1 .. i PROVE Holds(j, pd, pages[x], C(pages[x]))
      <4>1. CASE x = i
        BY <3>1, <3>3, <4>1 DEF v
      <4>2. CASE x # i
        <5>1. Holds(k, pd, pages[x], C(pages[x])) /\ pages[x] \notin {v}
          BY <2>1, <2>3, <2>5, <4>2
        <5> QED
          BY <2>2, <3>1, <5>1, LoadsHolds
      <4> QED
        BY <4>1, <4>2
    <3> QED
      BY <2>1, <2>5, <3>2, <3>3
  <2> QED
    BY <2>4, <2>5
<1>7. n \in S
  <2> HIDE DEF S
  <2> QED
    BY <1>1, <1>5, <1>6, Segment
<1>8. Loads(m, K, pd, V) /\ Held(K, n)
  BY <1>2, <1>7
<1>9. ~K.panicked => \A v \in V : Holds(K, pd, v, C(v))
  BY <1>1, <1>8
<1> QED
  BY <1>3, <1>4, <1>8, <1>9 DEF K, V

\* What is in memory of the first n segments of a program: their bytes, where
\* no later one of them is loaded to the same page.  (The pages of the stack
\* come later than all.)
Imaged(m, pd, segs, n) ==
  \A i \in 1 .. n : \A v \in UserPages :
    (/\ v \in PagesOf(segs[i])
     /\ v < USER_STACK_TOP - 2
     /\ \A j \in i + 1 .. n : v \notin PagesOf(segs[j]))
    => Holds(m, pd, v, PageBytes(segs[i], v))

LEMMA LoadSegmentsLoads ==
  ASSUME NEW m, NEW cur, NEW pd, NEW segments, Good(m), cur \in DOMAIN m.dir,
         pd \in DOMAIN m.dir, pd # kernel_pd,
         segments \in Seq([vaddr : Nat, filesz : Nat, memsz : Nat, offset : Nat])
  PROVE  /\ Loads(m, LoadSegments(m, cur, pd, segments), pd, UserPages)
         /\ ~LoadSegments(m, cur, pd, segments).panicked
              => Imaged(LoadSegments(m, cur, pd, segments), pd, segments, Len(segments))
<1> DEFINE n == Len(segments)
           K == LoadSegments(m, cur, pd, segments)
           T == [vaddr : Nat, filesz : Nat, memsz : Nat, offset : Nat]
<1>0. n \in Nat
  OBVIOUS
<1>1. n \in Nat /\ \A i \in 1 .. n : segments[i] \in T
  <2>1. segments \in Seq(T)
    OBVIOUS
  <2> HIDE DEF T
  <2> QED
    BY <2>1
<1>2. n = Len(segments) /\ K = LoadSegments(m, cur, pd, segments)
  OBVIOUS
<1> HIDE DEF n, K
<1>3. PICK after : /\ K = after[n] /\ after[0] = m
                   /\ \A i \in 1 .. n : after[i] =
                        IF after[i - 1].panicked THEN after[i - 1]
                        ELSE LoadSegment(after[i - 1], cur, pd, segments[i])
  BY ONLY <1>0, <1>2, LoadSegmentsIs
<1>4. \A v \in Nat, w \in Nat : v > w \/ v <= w
  OBVIOUS
<1>5. ASSUME NEW k, NEW seg \in T, Good(k), cur \in DOMAIN k.dir, pd \in DOMAIN k.dir
      PROVE  /\ Loads(k, LoadSegment(k, cur, pd, seg), pd, UserPages)
             /\ ~LoadSegment(k, cur, pd, seg).panicked
                  => /\ Loads(k, LoadSegment(k, cur, pd, seg), pd, PagesOf(seg))
                     /\ Filling(LoadSegment(k, cur, pd, seg), pd, seg)
  <2>1. SegEnd(seg) \in Nat /\ USER_STACK_TOP * PAGE_SIZE \in Nat
    BY MemorySizes, AddressSpaceAssumption, SegEndNat
  <2> DEFINE j == LoadSegment(k, cur, pd, seg)
  <2>2. \/ j = Panicked(k)
        \/ /\ SegEnd(seg) <= USER_STACK_TOP * PAGE_SIZE
           /\ j = LoadPages(k, cur, pd, seg)
    BY <1>4, <2>1 DEF LoadSegment, Panicked
  <2> HIDE DEF j
  <2>3. CASE j = Panicked(k)
    <3>1. Loads(k, Panicked(k), pd, UserPages) /\ Panicked(k).panicked
      BY <1>5, LoadsSteps, PanickedGood
    <3> QED
      BY <2>3, <3>1 DEF j
  <2>4. CASE SegEnd(seg) <= USER_STACK_TOP * PAGE_SIZE /\ j = LoadPages(k, cur, pd, seg)
    <3>1. /\ PagesOf(seg) \subseteq UserPages /\ Loads(k, j, pd, PagesOf(seg))
          /\ ~j.panicked => Filling(j, pd, seg)
      BY <1>5, <2>4, LoadPagesLoads
    <3>2. Loads(k, j, pd, UserPages)
      BY <3>1, LoadsWider
    <3> QED
      BY <3>1, <3>2 DEF j
  <2> QED
    BY <2>2, <2>3, <2>4
<1> HIDE DEF T
<1> DEFINE Held(k, i) == ~k.panicked => Imaged(k, pd, segments, i)
           S == {i \in 0 .. n : Loads(m, after[i], pd, UserPages) /\ Held(after[i], i)}
<1>6. 0 \in S
  <2>1. Loads(m, after[0], pd, UserPages)
    BY <1>3, LoadsSteps
  <2> QED
    BY <1>1, <2>1 DEF Imaged
<1>7. ASSUME NEW i \in 1 .. n, i - 1 \in S PROVE i \in S
  <2> DEFINE k == after[i - 1]
             seg == segments[i]
             j == LoadSegment(k, cur, pd, seg)
  <2>1. Loads(m, k, pd, UserPages) /\ Held(k, i - 1) /\ after[i] = IF k.panicked THEN k ELSE j
    BY <1>3, <1>7
  <2>2. Good(k) /\ cur \in DOMAIN k.dir /\ pd \in DOMAIN k.dir /\ seg \in T
    BY <1>1, <2>1, LoadsStays
  <2> HIDE DEF k
  <2>3. /\ Loads(k, j, pd, UserPages)
        /\ ~j.panicked => Loads(k, j, pd, PagesOf(seg)) /\ Filling(j, pd, seg)
    BY <1>5, <2>2
  <2> HIDE DEF j
  <2>4. Loads(m, j, pd, UserPages)
    BY <2>1, <2>3, LoadsSteps
  <2>5. CASE k.panicked
    BY <2>1, <2>5
  <2>6. ASSUME ~k.panicked, ~j.panicked PROVE Imaged(j, pd, segments, i)
    <3> SUFFICES ASSUME NEW x \in 1 .. i, NEW v \in UserPages,
                        v \in PagesOf(segments[x]), v < USER_STACK_TOP - 2,
                        \A y \in x + 1 .. i : v \notin PagesOf(segments[y])
                 PROVE  Holds(j, pd, v, PageBytes(segments[x], v))
      BY DEF Imaged
    <3>1. CASE x = i
      BY <2>3, <2>6, <3>1 DEF Filling
    <3>2. CASE x # i
      <4>1. x \in 1 .. i - 1 /\ i \in x + 1 .. i /\ x + 1 .. i - 1 \subseteq x + 1 .. i
        BY <3>2
      <4>2. v \notin PagesOf(seg) /\ \A y \in x + 1 .. i - 1 : v \notin PagesOf(segments[y])
        BY <4>1
      <4>3. Holds(k, pd, v, PageBytes(segments[x], v))
        BY <2>1, <2>6, <4>1, <4>2 DEF Imaged
      <4> QED
        BY <2>2, <2>3, <2>6, <4>2, <4>3, LoadsHolds
    <3> QED
      BY <3>1, <3>2
  <2> QED
    BY <2>1, <2>4, <2>5, <2>6
<1>8. n \in S
  <2> HIDE DEF S
  <2> QED
    BY <1>1, <1>6, <1>7, Segment
<1> QED
  BY <1>2, <1>3, <1>8

\* The stack: two frames in hand, of which the second one waits while the first
\* is mapped.
StackPages == {USER_STACK_TOP - 2, USER_STACK_TOP - 1}

LEMMA StackPagesAre ==
  /\ USER_STACK_TOP - 2 \in UserPages /\ USER_STACK_TOP - 1 \in UserPages
  /\ StackPages \subseteq UserPages
  /\ USER_STACK_TOP - 2 \in StackPages /\ USER_STACK_TOP - 1 \in StackPages
BY UserPagesApart, AddressSpaceAssumption DEF UserPages, StackPages

LEMMA LoadStackLoads ==
  ASSUME NEW m, NEW cur, NEW pd, Good(m), ~m.panicked, cur \in DOMAIN m.dir,
         pd \in DOMAIN m.dir, pd # kernel_pd
  PROVE  Loads(m, LoadStack(m, cur, pd), pd, StackPages)
<1> DEFINE a == pmm_alloc_frame(m)
           K == LoadStack(m, cur, pd)
<1>0. Shape(m)
  BY DEF Good
<1>1. ASSUME a = [m |-> Panicked(m), frame |-> 0] PROVE Loads(m, K, pd, StackPages)
  <2>1. K = Panicked(m)
    BY <1>1, PanickedGood DEF LoadStack, WithFrame
  <2> HIDE DEF K
  <2> QED
    BY <2>1, LoadsSteps, StackPagesAre
<1>2. ASSUME NEW f \in Pool \ m.bitmap, a = [m |-> Taking(m, f), frame |-> f]
      PROVE  Loads(m, K, pd, StackPages)
  <2> DEFINE i == Taking(m, f)
             b == pmm_alloc_frame(i)
  <2>1. Good(i) /\ Fresh(i, f) /\ Alike(m, i) /\ Shape(i)
    BY TakingGood, TakingAlike DEF Good
  <2>2. a.m = i /\ a.frame = f
    BY <1>2
  <2> HIDE DEF i, a
  <2>3. ~i.panicked /\ pd \in DOMAIN i.dir /\ cur \in DOMAIN i.dir
    BY <2>1 DEF Alike
  <2>4. ASSUME b = [m |-> Panicked(i), frame |-> 0] PROVE Loads(m, K, pd, StackPages)
    <3>1. Panicked(i).panicked
      BY <2>1, PanickedGood
    <3>2. K = Panicked(i)
      BY <2>2, <2>3, <2>4, <3>1 DEF LoadStack, WithFrame, a
    <3> HIDE DEF K
    <3>3. Loads(i, K, pd, StackPages)
      BY <2>1, <3>2, LoadsSteps, StackPagesAre
    <3> QED
      BY <2>1, <3>3, LoadsStays, AlikeMaps DEF Loads
  <2>5. ASSUME NEW g \in Pool \ i.bitmap, b = [m |-> Taking(i, g), frame |-> g]
        PROVE  Loads(m, K, pd, StackPages)
    <3> DEFINE h == Taking(i, g)
               j == foreign_map_page(h, cur, pd, f, USER_STACK_TOP - 2)
               k == foreign_map_page(j, cur, pd, g, USER_STACK_TOP - 1)
    <3>1. Good(h) /\ Fresh(h, g) /\ Fresh(h, f) /\ f # g /\ Alike(i, h)
      BY <2>1, TakingGood, TakingAlike
    <3>2. b.m = h /\ b.frame = g
      BY <2>5
    <3> HIDE DEF h, b
    <3>3. ~h.panicked /\ pd \in DOMAIN h.dir /\ cur \in DOMAIN h.dir
      BY <2>3, <3>1 DEF Alike
    <3>4. IsForeign(h, j, pd, USER_STACK_TOP - 2, f)
      BY <3>1, <3>3, ForeignIs, StackPagesAre
    <3>5. K = IF j.panicked THEN j ELSE IF k.panicked THEN k
              ELSE [k EXCEPT !.bytes = Added(Added(@, f, ZeroPage), g, ZeroPage)]
      BY <2>2, <2>3, <3>2, <3>3 DEF LoadStack, WithFrame, Then, a, b
    <3> HIDE DEF j
    <3>6. Good(j) /\ Fresh(j, g) /\ pd \in DOMAIN j.dir /\ cur \in DOMAIN j.dir
          /\ Loads(h, j, pd, StackPages) /\ f \in Given(j) /\ f \notin DOMAIN j.bytes
      <4>1. Maps(h, j, pd, {USER_STACK_TOP - 2}) /\ Spares(h, j, f) /\ Given(h) \subseteq Given(j)
        BY <3>4 DEF IsForeign
      <4>2. Loads(h, j, pd, StackPages)
        BY <3>1, <4>1, LoadsSteps, StackPagesAre
      <4>3. Fresh(j, g)
        BY <3>1, <4>1 DEF Spares
      <4>4. f \in Given(j) /\ f \notin DOMAIN j.bytes
        BY <3>1, <3>4, <4>1 DEF Fresh, IsForeign
      <4> QED
        BY <3>3, <4>2, <4>3, <4>4, LoadsStays
    <3>7. Loads(m, j, pd, StackPages)
      <4>1. Loads(i, j, pd, StackPages)
        BY <3>1, <3>6, AlikeMaps DEF Loads
      <4> QED
        BY <2>1, <3>6, <4>1, AlikeMaps DEF Loads
    <3>8. ASSUME ~j.panicked PROVE Loads(m, K, pd, StackPages)
      <4>1. IsForeign(j, k, pd, USER_STACK_TOP - 1, g)
        BY <3>6, <3>8, ForeignIs, StackPagesAre
      <4> HIDE DEF k
      <4>2. Maps(j, k, pd, {USER_STACK_TOP - 1}) /\ Given(j) \subseteq Given(k)
            /\ f \notin DOMAIN k.bytes /\ g \notin DOMAIN k.bytes
        BY <3>6, <4>1 DEF IsForeign, Fresh
      <4>3. Loads(j, k, pd, StackPages)
        BY <3>6, <4>2, LoadsSteps, StackPagesAre
      <4>4. Loads(m, k, pd, StackPages) /\ Good(k)
        BY <3>7, <4>3, LoadsSteps, LoadsStays, StackPagesAre
      <4>5. ASSUME ~k.panicked PROVE Loads(m, K, pd, StackPages)
        <5>1. DOMAIN k = Fields /\ DOMAIN k.bytes \subseteq Given(k) /\ f \in Given(k) /\ g \in Given(k)
          BY <3>6, <4>2, <4>4 DEF Good, Shape, Fresh
        <5>2. K = [k EXCEPT !.bytes = Added(Added(@, f, ZeroPage), g, ZeroPage)]
          BY <3>5, <3>8, <4>5
        <5> HIDE DEF K
        <5>3. /\ DOMAIN K = Fields /\ \A x \in Fields \ {"bytes"} : K[x] = k[x]
              /\ K.bytes = Added(Added(k.bytes, f, ZeroPage), g, ZeroPage)
          BY <5>1, <5>2 DEF Fields
        <5>4. DOMAIN K.bytes \subseteq Given(k)
          BY <5>1, <5>3 DEF Added
        <5>5. Alike(k, K) /\ K.bitmap = k.bitmap
          <6>1. MoreBytes(k, K)
            BY <4>2, <5>3 DEF MoreBytes, Added
          <6> QED
            BY <5>3, <6>1 DEF Alike, Fields
        <5>6. Good(K)
          BY <4>4, <5>3, <5>4, <5>5, AlikeGood
        <5> QED
          BY <4>4, <5>5, <5>6, AlikeMaps DEF Loads
      <4> QED
        BY <3>5, <3>8, <4>4, <4>5
    <3> HIDE DEF k, K
    <3> QED
      BY <3>5, <3>7, <3>8
  <2>6. b = [m |-> Panicked(i), frame |-> 0]
          \/ \E g \in Pool \ i.bitmap : b = [m |-> Taking(i, g), frame |-> g]
    BY <2>1, AllocIs
  <2> HIDE DEF K, b
  <2> QED
    BY <2>4, <2>5, <2>6, Zenon
<1>3. a = [m |-> Panicked(m), frame |-> 0]
        \/ \E f \in Pool \ m.bitmap : a = [m |-> Taking(m, f), frame |-> f]
  BY <1>0, AllocIs
<1> QED
  BY <1>1, <1>2, <1>3, Zenon

LEMMA LoadLoads ==
  ASSUME NEW m, NEW cur, NEW pd, NEW prog \in Program \cup {Init_program}, Good(m),
         cur \in DOMAIN m.dir, pd \in DOMAIN m.dir, pd # kernel_pd
  PROVE  /\ Loads(m, uprocess_load(m, cur, pd, prog), pd, UserPages)
         /\ ~uprocess_load(m, cur, pd, prog).panicked
              => Imaged(uprocess_load(m, cur, pd, prog), pd, prog.segments, Len(prog.segments))
<1> DEFINE k == LoadSegments(m, cur, pd, prog.segments)
           j == LoadStack(k, cur, pd)
           K == uprocess_load(m, cur, pd, prog)
           I(x) == Imaged(x, pd, prog.segments, Len(prog.segments))
<1>1. prog.segments \in Seq([vaddr : Nat, filesz : Nat, memsz : Nat, offset : Nat])
  BY AddressSpaceAssumption
<1>2. Loads(m, k, pd, UserPages) /\ (~k.panicked => I(k))
  BY ONLY <1>1, LoadSegmentsLoads, Good(m), cur \in DOMAIN m.dir, pd \in DOMAIN m.dir, pd # kernel_pd
<1>3. K = IF ~prog.elf THEN Panicked(m) ELSE IF k.panicked THEN k ELSE j
  BY DEF uprocess_load, Then, Panicked
<1> HIDE DEF k
<1>4. ~k.panicked => Loads(k, j, pd, StackPages)
  BY <1>2, LoadsStays, LoadStackLoads
<1> HIDE DEF j, K
<1>5. Loads(m, Panicked(m), pd, UserPages) /\ Panicked(m).panicked
  BY LoadsSteps, PanickedGood
<1>6. ASSUME ~k.panicked PROVE Loads(m, j, pd, UserPages) /\ I(j)
  <2>1. Loads(k, j, pd, StackPages) /\ Loads(k, j, pd, UserPages)
    BY <1>4, <1>6, LoadsWider, StackPagesAre
  <2>2. Loads(m, j, pd, UserPages)
    BY <1>2, <2>1, LoadsSteps
  <2>3. \A v \in UserPages : v < USER_STACK_TOP - 2 => v \notin StackPages
    BY UserPagesApart, AddressSpaceAssumption DEF StackPages, UserPages
  <2>4. pd \in DOMAIN k.dir
    BY <1>2, LoadsStays
  <2>5. \A v, c : v \notin StackPages /\ Holds(k, pd, v, c) => Holds(j, pd, v, c)
    BY <2>1, <2>4, LoadsHolds
  <2>6. I(j)
    BY <1>2, <1>6, <2>3, <2>5 DEF Imaged
  <2> QED
    BY <2>2, <2>6
<1>7. Loads(m, K, pd, UserPages) /\ (~K.panicked => I(K))
  BY <1>2, <1>3, <1>5, <1>6
<1> QED
  BY <1>7 DEF K

-----------------------------------------------------------------------------
(***************************************************************************)
(* A new process.                                                          *)
(***************************************************************************)
\* A step that leaves the frames of the kernel's pages and the breaks alone.
LEMMA SameFramesRuns ==
  ASSUME NEW m, NEW k, Sound(m), Good(k), DOMAIN m.dir \subseteq DOMAIN k.dir,
         k.kheap_end = m.kheap_end, k.large_alloc_base = m.large_alloc_base,
         m.panicked => k.panicked, \A v \in KernelPages : Frames(k, v) = Frames(m, v),
         k.dir[kernel_pd] = m.dir[kernel_pd]
  PROVE  Runs(m, k)
<1>1. Below(k) = Below(m) /\ Above(k) = Above(m)
  BY DEF Below, Above
<1>2. Below(m) \subseteq KernelPages /\ Above(m) \subseteq KernelPages
  <2>1. /\ m.kheap_end \in Nat /\ KHEAP_START <= m.kheap_end /\ m.kheap_end <= LARGE_START
        /\ m.large_alloc_base \in Nat /\ LARGE_START <= m.large_alloc_base
        /\ m.large_alloc_base <= LargeEnd
    BY DEF Sound, Laid
  <2> QED
    BY <2>1, AreasAreKernelPages DEF Below, Above
<1>3. Laid(k) /\ (Filled(m) => Filled(k))
  BY <1>1, <1>2 DEF Sound, Laid, Filled
<1>4. Agree(k)
  BY DEF Sound, Agree
<1>5. m.kheap_end <= k.kheap_end
  BY DEF Sound, Laid
<1> QED
  BY <1>3, <1>4, <1>5 DEF Runs, Sound

\* What uprocess_create_pagedir does: k is the memory and f the frame.
IsPagedir(m, k, f) ==
  /\ Runs(m, k) /\ Untouched(m, k) /\ (~k.panicked => f \notin DOMAIN m.dir)
  /\ k.new = m.new /\ k.kheap_end = m.kheap_end /\ k.large_alloc_base = m.large_alloc_base
  /\ ~k.panicked => f \in DOMAIN k.dir /\ f # kernel_pd
  /\ BootShared(m) => BootShared(k)

LEMMA PagedirRuns ==
  ASSUME NEW m, NEW cur, Sound(m), ~m.panicked, cur \in DOMAIN m.dir
  PROVE  IsPagedir(m, uprocess_create_pagedir(m, cur).m, uprocess_create_pagedir(m, cur).frame)
<1> DEFINE a == uprocess_create_pagedir(m, cur)
<1>0. Good(m) /\ DOMAIN m = Fields /\ kernel_pd \in DOMAIN m.dir /\ kernel_pd \notin Pool
  BY BootFrames DEF Sound, Good, Shape
<1>1. \/ a = [m |-> Panicked(m), frame |-> 0]
      \/ \E f \in Pool \ m.bitmap : a.frame = f /\ IsDirectoried(Taking(m, f), a.m, cur, f)
  BY <1>0, PagedirIs
<1> HIDE DEF a
<1>2. ASSUME a = [m |-> Panicked(m), frame |-> 0] PROVE IsPagedir(m, a.m, a.frame)
  <2> DEFINE k == a.m
  <2>1. k = Panicked(m)
    BY <1>2
  <2> HIDE DEF k
  <2>2. Good(k) /\ k.panicked /\ \A x \in Fields \ {"panicked"} : k[x] = m[x]
    BY <1>0, <2>1, PanickedGood
  <2>3. k.dir = m.dir /\ k.table = m.table /\ k.new = m.new /\ k.kheap_end = m.kheap_end
        /\ k.large_alloc_base = m.large_alloc_base
    BY <2>2 DEF Fields
  <2>4. \A v : Frames(k, v) = Frames(m, v)
    BY <2>3 DEF Frames, Mapped
  <2>5. Runs(m, k)
    BY <2>2, <2>3, <2>4, SameFramesRuns
  <2>6. BootShared(m) => BootShared(k)
    BY <2>3 DEF BootShared
  <2>7. Untouched(m, k)
    <3>1. k.bytes = m.bytes
      BY <2>2 DEF Fields
    <3> QED
      BY <2>3, <3>1, UntouchedSame
  <2>8. IsPagedir(m, k, a.frame)
    BY <2>2, <2>3, <2>5, <2>6, <2>7 DEF IsPagedir
  <2> QED
    BY <2>8 DEF k
<1>3. ASSUME NEW f \in Pool \ m.bitmap, a.frame = f, IsDirectoried(Taking(m, f), a.m, cur, f)
      PROVE  IsPagedir(m, a.m, a.frame)
  <2> DEFINE k == a.m
             i == Taking(m, f)
  <2>1. Good(i) /\ Fresh(i, f) /\ Alike(m, i)
    BY <1>0, TakingGood, TakingAlike
  <2>2. IsDirectoried(i, k, cur, f)
    BY <1>3
  <2> HIDE DEF k, i
  <2>3. cur \in DOMAIN i.dir
    BY <2>1 DEF Alike
  <2>4. Good(k) /\ \A s \in Ordinary : k.dir[f][s] = IF s < KERNEL_SLOT THEN 0 ELSE i.dir[cur][s]
    BY ONLY <2>1, <2>2, <2>3, DirectoriedGood
  <2>5. /\ DOMAIN k.dir = DOMAIN m.dir \cup {f} /\ \A d \in DOMAIN m.dir : k.dir[d] = m.dir[d]
        /\ k.table = m.table /\ k.new = m.new /\ k.kheap_end = m.kheap_end
        /\ k.large_alloc_base = m.large_alloc_base /\ k.panicked = m.panicked
    BY <2>1, <2>2 DEF IsDirectoried, Alike, Fields
  <2>6. \A s \in Ordinary : s >= KERNEL_SLOT => k.dir[f][s] = m.dir[cur][s]
    <3>1. \A s \in Ordinary : s >= KERNEL_SLOT => ~(s < KERNEL_SLOT)
      BY Layout DEF Ordinary, Slot
    <3> QED
      BY <2>1, <2>3, <2>4, <3>1 DEF Alike
  <2>7. ASSUME NEW v \in KernelPages PROVE Frames(k, v) = Frames(m, v)
    <3>1. SlotOf(v) \in Ordinary /\ SlotOf(v) >= KERNEL_SLOT
      BY KernelPageIs, PageIs
    <3>2. Mapped(k, f, v) = Mapped(m, cur, v)
      BY <2>5, <2>6, <3>1 DEF Mapped
    <3>3. \A d \in DOMAIN m.dir : Mapped(k, d, v) = Mapped(m, d, v)
      BY <2>5 DEF Mapped
    <3> QED
      BY <2>5, <3>2, <3>3 DEF Frames
  <2>8. f # kernel_pd /\ f \in DOMAIN k.dir
    BY <1>0, <2>5
  <2>9. Runs(m, k)
    BY <1>0, <2>4, <2>5, <2>7, SameFramesRuns
  <2>10. BootShared(m) => BootShared(k)
    <3> SUFFICES ASSUME BootShared(m) PROVE BootShared(k)
      OBVIOUS
    <3> SUFFICES ASSUME NEW d \in DOMAIN k.dir, NEW s \in Ordinary,
                        s >= KERNEL_SLOT, k.dir[kernel_pd][s] # 0
                 PROVE  k.dir[d][s] = k.dir[kernel_pd][s]
      BY DEF BootShared
    <3>1. k.dir[kernel_pd] = m.dir[kernel_pd]
      BY <1>0, <2>5
    <3>2. \A e \in DOMAIN m.dir : m.dir[e][s] = m.dir[kernel_pd][s]
      BY <3>1 DEF BootShared
    <3>3. CASE d \in DOMAIN m.dir
      BY <2>5, <3>1, <3>2, <3>3
    <3>4. CASE d = f
      BY <2>6, <3>1, <3>2, <3>4
    <3> QED
      BY <2>5, <3>3, <3>4
  <2>11. Untouched(m, k) /\ f \notin DOMAIN m.dir
    <3>1. MoreBytes(m, k)
      <4>1. MoreBytes(m, i)
        BY <2>1 DEF Alike
      <4>2. k.bytes = i.bytes
        BY <2>2 DEF IsDirectoried, Fields
      <4> QED
        BY <4>1, <4>2 DEF MoreBytes
    <3>2. Untouched(m, k)
      BY <2>5, <3>1, SameKeeps DEF Untouched
    <3>3. f \notin DOMAIN i.dir /\ DOMAIN i.dir = DOMAIN m.dir
      BY <2>1 DEF Alike, Fresh
    <3> QED
      BY <3>2, <3>3
  <2>12. IsPagedir(m, k, f)
    BY <2>5, <2>8, <2>9, <2>10, <2>11 DEF IsPagedir
  <2> QED
    BY <1>3, <2>12 DEF k
<1>4. IsPagedir(m, a.m, a.frame)
  BY <1>1, <1>2, <1>3
<1> QED
  BY <1>4 DEF a

\* kmalloc, as a relation: the heap grew by a page at most.
IsGrown(m, k, pd, grows) ==
  /\ Runs(m, k) /\ Untouched(m, k) /\ DOMAIN k.dir = DOMAIN m.dir
  /\ k.new = m.new /\ k.large_alloc_base = m.large_alloc_base
  /\ k.kheap_end <= m.kheap_end + 1 /\ (~grows => k.kheap_end = m.kheap_end)
  /\ BootShared(m) /\ (grows => pd # kernel_pd) => BootShared(k)

LEMMA KmallocRuns ==
  ASSUME NEW m, NEW pd, NEW grows \in BOOLEAN, Sound(m), ~m.panicked, pd \in DOMAIN m.dir,
         grows => m.kheap_end < LARGE_START
  PROVE  IsGrown(m, kmalloc(m, pd, grows), pd, grows)
<1>1. m.kheap_end \in Nat
  BY DEF Sound, Laid
<1>2. CASE ~grows
  <2>1. Untouched(m, m)
    BY KeepsSelf DEF Untouched
  <2> QED
    BY <1>1, <1>2, <2>1, RunsSelf DEF kmalloc, IsGrown
<1>3. ASSUME grows, NEW k, k = kheap_grow(m, pd) PROVE IsGrown(m, k, pd, grows)
  BY <1>3, GrowRuns DEF IsGrown
<1>4. CASE grows
  <2>1. kmalloc(m, pd, grows) = kheap_grow(m, pd)
    BY <1>4 DEF kmalloc
  <2> QED
    BY <1>3, <1>4, <2>1
<1> QED
  BY <1>2, <1>4

\* kalloc_pages for a kernel's stack.
StackSlots(m, cur) ==
  cur = kernel_pd =>
    \A v \in m.large_alloc_base .. m.large_alloc_base + KSTACK_PAGES - 1 :
      m.dir[kernel_pd][SlotOf(v)] # 0

IsStack(m, k, cur) ==
  /\ Runs(m, k) /\ Untouched(m, k) /\ DOMAIN k.dir = DOMAIN m.dir
  /\ k.new = m.new /\ k.kheap_end = m.kheap_end
  /\ ~k.panicked => k.large_alloc_base = m.large_alloc_base + KSTACK_PAGES
  /\ BootShared(m) /\ StackSlots(m, cur) => BootShared(k)

LEMMA StackRuns ==
  ASSUME NEW m, NEW cur, Sound(m), ~m.panicked, cur \in DOMAIN m.dir,
         m.large_alloc_base + KSTACK_PAGES <= LargeEnd
  PROVE  IsStack(m, kalloc_pages(m, cur, KSTACK_PAGES), cur)
<1>1. KSTACK_PAGES \in Nat
  BY PagingAssumption
<1>2. ASSUME NEW n \in Nat, n = KSTACK_PAGES, NEW b, b = m.large_alloc_base,
             NEW k, k = kalloc_pages(m, cur, n)
      PROVE  IsStack(m, k, cur)
  <2>1. b + n <= LargeEnd
    BY <1>2
  <2>2. /\ Runs(m, k) /\ Untouched(m, k) /\ DOMAIN k.dir = DOMAIN m.dir
        /\ k.new = m.new /\ k.kheap_end = m.kheap_end
        /\ ~k.panicked => k.large_alloc_base = b + n
        /\ BootShared(m) /\ (cur = kernel_pd => \A v \in b .. b + n - 1 :
                               m.dir[kernel_pd][SlotOf(v)] # 0)
             => BootShared(k)
    BY <1>2, <2>1, KallocRuns
  <2> QED
    BY <1>2, <2>2 DEF IsStack, StackSlots
<1> QED
  BY <1>1, <1>2

\* A field that no property of memory looks at.
LEMMA SameRuns ==
  ASSUME NEW m, NEW k, Sound(m), DOMAIN k = Fields, \A x \in Fields \ {"new"} : k[x] = m[x]
  PROVE  Runs(m, k) /\ Untouched(m, k) /\ (BootShared(m) => BootShared(k))
<1>1. k.bitmap = m.bitmap /\ k.panicked = m.panicked /\ k.dir = m.dir /\ k.table = m.table
      /\ k.bytes = m.bytes /\ k.kheap_end = m.kheap_end /\ k.large_alloc_base = m.large_alloc_base
  BY DEF Fields
<1>2. Good(k) /\ \A v : Frames(k, v) = Frames(m, v)
  BY <1>1, SameMemory DEF Sound
<1> QED
  BY <1>1, <1>2, SameFramesRuns, UntouchedSame DEF BootShared

\* uprocess_load among the kernel's pages.
LEMMA LoadRuns ==
  ASSUME NEW m, NEW k, NEW pd, Sound(m), Loads(m, k, pd, UserPages), pd # kernel_pd
  PROVE  /\ Runs(m, k) /\ DOMAIN k.dir = DOMAIN m.dir /\ k.new = m.new
         /\ k.kheap_end = m.kheap_end /\ k.large_alloc_base = m.large_alloc_base
         /\ BootShared(m) => BootShared(k)
<1>1. Maps(m, k, pd, UserPages) /\ UserPages \cap KernelPages = {} /\ kernel_pd \in DOMAIN m.dir
  BY UserPagesApart DEF Loads, Sound, Good, Shape
<1>2. Runs(m, k)
  BY <1>1, MapsRuns
<1>3. BootShared(m) => BootShared(k)
  BY <1>1, MapsShared
<1> QED
  BY <1>1, <1>2, <1>3 DEF Maps

\* Directories that were made are not given back, nor is a slot of the kernel's.
LEMMA RunsKeeps ==
  ASSUME NEW m, NEW k, Sound(m), Runs(m, k), m.large_alloc_base = k.large_alloc_base, NEW cur,
         m.large_alloc_base + KSTACK_PAGES <= LargeEnd
  PROVE  StackSlots(m, cur) => StackSlots(k, cur)
<1> SUFFICES ASSUME StackSlots(m, cur), cur = kernel_pd,
                    NEW v \in m.large_alloc_base .. m.large_alloc_base + KSTACK_PAGES - 1
             PROVE  k.dir[kernel_pd][SlotOf(v)] # 0
  BY DEF StackSlots
<1>1. KSTACK_PAGES \in Nat /\ m.large_alloc_base \in Nat /\ LARGE_START <= m.large_alloc_base
  BY PagingAssumption DEF Sound, Laid
<1>2. KHEAP_START \in Nat /\ KHEAP_START <= LARGE_START /\ LARGE_START \in Nat /\ LargeEnd \in Nat
  BY AreasAreKernelPages
<1>3. v \in KHEAP_START .. LargeEnd - 1
  BY <1>1, <1>2
<1>4. SlotOf(v) \in Ordinary
  BY <1>3, AreasAreKernelPages, KernelPageIs, PageIs
<1>5. m.dir[kernel_pd][SlotOf(v)] # 0
  BY DEF StackSlots
<1> QED
  BY <1>4, <1>5 DEF Runs

\* An image stays where users' pages do.
LEMMA ImagedStays ==
  ASSUME NEW m, NEW k, NEW pd, NEW segs, NEW n, Untouched(m, k), Imaged(m, pd, segs, n),
         pd \in DOMAIN m.dir, pd # kernel_pd
  PROVE  Imaged(k, pd, segs, n)
<1>1. \A v, c : Holds(m, pd, v, c) => Holds(k, pd, v, c)
  BY KeepsHolds DEF Untouched
<1> QED
  BY <1>1 DEF Imaged

\* The process that a successful load leaves in the field new.
NewProcess(k) ==
  \E pd \in DOMAIN k.dir \ {kernel_pd}, prog \in Program \cup {Init_program}, stack \in Nat :
    /\ k.new = <<[pd |-> pd, prog |-> prog, stack |-> stack]>>
    /\ Imaged(k, pd, prog.segments, Len(prog.segments))

IsMade(m, k, cur, grows, n) ==
  /\ Runs(m, k) /\ k.kheap_end <= m.kheap_end + n
  /\ ~grows => k.kheap_end = m.kheap_end
  /\ k.panicked => k.new = <<>>
  /\ ~k.panicked => NewProcess(k) /\ k.large_alloc_base = m.large_alloc_base + KSTACK_PAGES
  /\ BootShared(m) /\ StackSlots(m, cur) /\ (grows => cur # kernel_pd) => BootShared(k)

LEMMA LoadedRuns ==
  ASSUME NEW m, NEW cur, NEW pd, NEW prog \in Program \cup {Init_program}, NEW grows \in BOOLEAN,
         Sound(m), ~m.panicked, m.new = <<>>, cur \in DOMAIN m.dir, pd \in DOMAIN m.dir,
         pd # kernel_pd, grows => m.kheap_end < LARGE_START,
         m.large_alloc_base + KSTACK_PAGES <= LargeEnd
  PROVE  /\ IsMade(m, LoadedProcess(m, cur, pd, prog, grows), cur, grows, 1)
         /\ Keeps(m, LoadedProcess(m, cur, pd, prog, grows), pd, UserPages)
<1> DEFINE k == uprocess_load(m, cur, pd, prog)
           j == kmalloc(k, cur, grows)
           i == kalloc_pages(j, cur, KSTACK_PAGES)
           K == LoadedProcess(m, cur, pd, prog, grows)
           b == m.large_alloc_base
           U(x) == Keeps(m, x, pd, UserPages)
           I(x) == Imaged(x, pd, prog.segments, Len(prog.segments))
<1>0. m.kheap_end \in Nat
  BY DEF Sound, Laid
<1>1. K = IF k.panicked THEN k ELSE IF j.panicked THEN j ELSE IF i.panicked THEN i
          ELSE [i EXCEPT !.new = <<[pd |-> pd, prog |-> prog, stack |-> j.large_alloc_base]>>]
  BY DEF LoadedProcess, Then
<1>2. Loads(m, k, pd, UserPages) /\ U(k) /\ (~k.panicked => I(k))
  BY LoadLoads DEF Sound, Loads, Maps
<1> HIDE DEF k, K
<1>3. /\ Runs(m, k) /\ DOMAIN k.dir = DOMAIN m.dir /\ k.new = <<>>
      /\ k.kheap_end = m.kheap_end /\ k.large_alloc_base = b
      /\ BootShared(m) => BootShared(k)
  BY <1>2, LoadRuns
<1> HIDE DEF I, U
<1>4. ASSUME k.panicked PROVE IsMade(m, k, cur, grows, 1) /\ U(k)
  BY <1>0, <1>2, <1>3, <1>4 DEF IsMade
<1>02. ASSUME NEW x, NEW y, U(x), Untouched(x, y), DOMAIN m.dir \subseteq DOMAIN x.dir PROVE U(y)
  <2>1. Keeps(x, y, pd, UserPages)
    BY <1>02, KeepsAll DEF Untouched
  <2> QED
    BY <1>02, <2>1, KeepsOn DEF U
<1>03. ASSUME NEW x, NEW y, I(x), Untouched(x, y), DOMAIN m.dir \subseteq DOMAIN x.dir PROVE I(y)
  BY <1>03, ImagedStays DEF I
<1>5. ASSUME ~k.panicked PROVE IsMade(m, K, cur, grows, 1) /\ U(K)
  <2>1. Sound(k) /\ cur \in DOMAIN k.dir /\ (grows => k.kheap_end < LARGE_START)
    BY <1>3 DEF Runs
  <2>2. IsGrown(k, j, cur, grows)
    BY ONLY <1>5, <2>1, KmallocRuns, grows \in BOOLEAN
  <2> HIDE DEF j
  <2>3. Runs(m, j) /\ Sound(j)
    BY <1>3, <2>2, RunsOn DEF IsGrown, Runs
  <2>4. DOMAIN j.dir = DOMAIN m.dir /\ j.new = <<>> /\ j.large_alloc_base = b
        /\ j.kheap_end <= m.kheap_end + 1 /\ (~grows => j.kheap_end = m.kheap_end)
        /\ (BootShared(m) /\ (grows => cur # kernel_pd) => BootShared(j))
        /\ U(j) /\ I(j)
    BY <1>2, <1>02, <1>03, <1>3, <1>5, <2>2 DEF IsGrown
  <2>5. ASSUME j.panicked PROVE IsMade(m, K, cur, grows, 1) /\ U(K)
    <3>1. K = j
      BY <1>1, <1>5, <2>5
    <3> QED
      BY <2>3, <2>4, <2>5, <3>1 DEF IsMade
  <2>6. ASSUME ~j.panicked PROVE IsMade(m, K, cur, grows, 1) /\ U(K)
    <3>1. IsStack(j, i, cur)
      BY <2>3, <2>4, <2>6, StackRuns
    <3> HIDE DEF i
    <3>2. Runs(m, i) /\ Sound(i)
      BY <2>3, <3>1, RunsOn DEF IsStack, Runs
    <3>3. DOMAIN i.dir = DOMAIN m.dir /\ i.new = <<>> /\ i.kheap_end <= m.kheap_end + 1
          /\ (~grows => i.kheap_end = m.kheap_end)
          /\ (~i.panicked => i.large_alloc_base = b + KSTACK_PAGES)
          /\ U(i) /\ I(i)
      BY <1>02, <1>03, <2>4, <3>1 DEF IsStack
    <3>4. StackSlots(m, cur) => StackSlots(j, cur)
      BY <2>3, <2>4, RunsKeeps
    <3>5. BootShared(m) /\ StackSlots(m, cur) /\ (grows => cur # kernel_pd) => BootShared(i)
      BY <2>4, <3>1, <3>4 DEF IsStack
    <3>6. ASSUME i.panicked PROVE IsMade(m, K, cur, grows, 1) /\ U(K)
      <4>1. K = i
        BY <1>1, <1>5, <2>6, <3>6
      <4> QED
        BY <3>2, <3>3, <3>5, <3>6, <4>1 DEF IsMade
    <3>7. ASSUME ~i.panicked PROVE IsMade(m, K, cur, grows, 1) /\ U(K)
      <4>1. K = [i EXCEPT !.new = <<[pd |-> pd, prog |-> prog, stack |-> j.large_alloc_base]>>]
        BY <1>1, <1>5, <2>6, <3>7
      <4>2. DOMAIN i = Fields
        BY <3>2 DEF Sound, Good, Shape
      <4>3. DOMAIN K = Fields /\ (\A x \in Fields \ {"new"} : K[x] = i[x])
            /\ K.new = <<[pd |-> pd, prog |-> prog, stack |-> j.large_alloc_base]>>
        BY <4>1, <4>2 DEF Fields
      <4>4. Runs(i, K) /\ Untouched(i, K) /\ (BootShared(i) => BootShared(K))
        BY <3>2, <4>3, SameRuns
      <4>5. K.panicked = i.panicked /\ K.dir = i.dir /\ K.kheap_end = i.kheap_end
            /\ K.large_alloc_base = i.large_alloc_base
        BY <4>3 DEF Fields
      <4>6. Runs(m, K)
        BY <3>2, <4>4, RunsOn
      <4>7. NewProcess(K)
        <5>1. j.large_alloc_base \in Nat
          BY <2>3 DEF Sound, Laid
        <5>2. I(K)
          BY <1>03, <3>3, <4>4
        <5>3. Imaged(K, pd, prog.segments, Len(prog.segments))
          BY <5>2 DEF I
        <5> QED
          BY <3>3, <4>3, <4>5, <5>1, <5>3 DEF NewProcess
      <4>8. U(K)
        BY <1>02, <3>3, <4>4
      <4> QED
        BY <3>3, <3>5, <3>7, <4>4, <4>5, <4>6, <4>7, <4>8 DEF IsMade
    <3> QED
      BY <3>6, <3>7
  <2> QED
    BY <2>5, <2>6
<1>6. IsMade(m, K, cur, grows, 1) /\ U(K)
  BY <1>1, <1>4, <1>5
<1> QED
  BY <1>6 DEF K, U

LEMMA MadeRuns ==
  ASSUME NEW m, NEW cur, NEW prog \in Program \cup {Init_program},
         NEW b_grows \in BOOLEAN, NEW p_grows \in BOOLEAN,
         Sound(m), ~m.panicked, cur \in DOMAIN m.dir,
         b_grows \/ p_grows => m.kheap_end + 2 <= LARGE_START,
         m.large_alloc_base + KSTACK_PAGES <= LargeEnd
  PROVE  /\ IsMade(m, MakeProcess(m, cur, prog, b_grows, p_grows), cur, b_grows \/ p_grows, 2)
         /\ Untouched(m, MakeProcess(m, cur, prog, b_grows, p_grows))
<1> DEFINE i == [m EXCEPT !.new = <<>>]
           k == kmalloc(i, cur, b_grows)
           a == uprocess_create_pagedir(k, cur)
           j == LoadedProcess(a.m, cur, a.frame, prog, p_grows)
           K == MakeProcess(m, cur, prog, b_grows, p_grows)
           G == b_grows \/ p_grows
<1>0. m.kheap_end \in Nat /\ LARGE_START \in Nat /\ DOMAIN m = Fields
  BY AreasAreKernelPages DEF Sound, Laid, Good, Shape
<1>1. K = IF k.panicked THEN k ELSE IF a.m.panicked THEN a.m ELSE j
  BY DEF MakeProcess, Then
<1>2. DOMAIN i = Fields /\ (\A x \in Fields \ {"new"} : i[x] = m[x]) /\ i.new = <<>>
  BY <1>0 DEF Fields
<1> HIDE DEF i, K
<1>3. Runs(m, i) /\ Untouched(m, i) /\ Sound(i) /\ (BootShared(m) => BootShared(i))
  <2>1. Runs(m, i) /\ Untouched(m, i) /\ (BootShared(m) => BootShared(i))
    BY ONLY <1>2, SameRuns, Sound(m)
  <2> QED
    BY <2>1 DEF Runs
<1>4. i.panicked = m.panicked /\ i.dir = m.dir /\ i.kheap_end = m.kheap_end
      /\ i.large_alloc_base = m.large_alloc_base
  BY <1>2 DEF Fields
<1>5. IsGrown(i, k, cur, b_grows)
  <2>1. ~i.panicked /\ cur \in DOMAIN i.dir /\ (b_grows => i.kheap_end < LARGE_START)
    BY <1>0, <1>4
  <2> QED
    BY ONLY <1>3, <2>1, KmallocRuns, b_grows \in BOOLEAN
<1> HIDE DEF k
<1>6. Runs(m, k) /\ Untouched(m, k) /\ Sound(k)
  BY <1>3, <1>5, RunsOn, UntouchedOn DEF IsGrown, Runs
<1>7. /\ DOMAIN k.dir = DOMAIN m.dir /\ k.new = <<>>
      /\ k.large_alloc_base = m.large_alloc_base
      /\ k.kheap_end <= m.kheap_end + 1 /\ (~b_grows => k.kheap_end = m.kheap_end)
      /\ BootShared(m) /\ (b_grows => cur # kernel_pd) => BootShared(k)
  BY <1>2, <1>3, <1>4, <1>5 DEF IsGrown
<1>8. k.kheap_end \in Nat
  BY <1>6 DEF Sound, Laid
<1>9. ASSUME k.panicked PROVE IsMade(m, K, cur, G, 2) /\ Untouched(m, K)
  <2>1. K = k
    BY <1>1, <1>9
  <2> QED
    BY <1>0, <1>6, <1>7, <1>8, <1>9, <2>1 DEF IsMade
<1>10. ASSUME ~k.panicked PROVE IsMade(m, K, cur, G, 2) /\ Untouched(m, K)
  <2> DEFINE h == a.m
             f == a.frame
  <2>1. IsPagedir(k, h, f)
    BY <1>6, <1>7, <1>10, PagedirRuns
  <2>2. j = LoadedProcess(h, cur, f, prog, p_grows)
    OBVIOUS
  <2>3. K = IF h.panicked THEN h ELSE j
    BY <1>1, <1>10
  <2> HIDE DEF h, f, j
  <2>4. Runs(m, h) /\ Untouched(m, h) /\ Sound(h) /\ DOMAIN m.dir \subseteq DOMAIN h.dir
    BY <1>6, <2>1, RunsOn, UntouchedOn DEF IsPagedir, Runs
  <2>5. /\ h.new = <<>> /\ h.large_alloc_base = m.large_alloc_base
        /\ h.kheap_end <= m.kheap_end + 1 /\ h.kheap_end \in Nat
        /\ (~b_grows => h.kheap_end = m.kheap_end)
        /\ ~h.panicked => f \in DOMAIN h.dir /\ f # kernel_pd /\ f \notin DOMAIN m.dir
        /\ BootShared(m) /\ (b_grows => cur # kernel_pd) => BootShared(h)
    BY <1>7, <1>8, <2>1 DEF IsPagedir
  <2>6. ASSUME h.panicked PROVE IsMade(m, K, cur, G, 2) /\ Untouched(m, K)
    <3>1. K = h
      BY <2>3, <2>6
    <3> QED
      BY <1>0, <2>4, <2>5, <2>6, <3>1 DEF IsMade
  <2>7. ASSUME ~h.panicked PROVE IsMade(m, K, cur, G, 2) /\ Untouched(m, K)
    <3>1. K = j
      BY <2>3, <2>7
    <3>2. p_grows => h.kheap_end < LARGE_START
      BY <1>0, <2>5
    <3>3. cur \in DOMAIN h.dir /\ h.large_alloc_base + KSTACK_PAGES <= LargeEnd
      BY <2>4, <2>5
    <3>4. IsMade(h, j, cur, p_grows, 1) /\ Keeps(h, j, f, UserPages)
      BY ONLY <2>2, <2>4, <2>5, <2>7, <3>2, <3>3, LoadedRuns, p_grows \in BOOLEAN,
              prog \in Program \cup {Init_program}
    <3>5. StackSlots(m, cur) => StackSlots(h, cur)
      BY <2>4, <2>5, RunsKeeps
    <3>6. Runs(m, j)
      BY <2>4, <3>4, RunsOn DEF IsMade
    <3>7. j.kheap_end <= m.kheap_end + 2
      <4>1. j.kheap_end \in Nat
        BY <3>6 DEF Runs, Sound, Laid
      <4>2. j.kheap_end <= h.kheap_end + 1
        BY <3>4 DEF IsMade
      <4> QED
        BY <1>0, <2>5, <4>1, <4>2
    <3>8. BootShared(m) /\ StackSlots(m, cur) /\ (G => cur # kernel_pd) => BootShared(j)
      BY <2>5, <3>4, <3>5 DEF IsMade
    <3>9. ~G => j.kheap_end = m.kheap_end
      BY <2>5, <3>4 DEF IsMade
    <3>10. Untouched(m, j)
      <4>1. Keeps(m, h, f, UserPages)
        BY <2>4, KeepsAll DEF Untouched
      <4>2. Keeps(m, j, f, UserPages)
        BY <3>4, <4>1, KeepsOn
      <4> QED
        BY <2>5, <2>7, <4>2, KeepsAll DEF Untouched
    <3> QED
      BY <2>5, <3>1, <3>4, <3>6, <3>7, <3>8, <3>9, <3>10 DEF IsMade
  <2> QED
    BY <2>6, <2>7
<1>11. IsMade(m, K, cur, G, 2) /\ Untouched(m, K)
  BY <1>9, <1>10
<1> QED
  BY <1>11 DEF K

-----------------------------------------------------------------------------
(***************************************************************************)
(* Boot.                                                                   *)
(***************************************************************************)
\* While kmain runs there is one directory, and the pages below the two breaks
\* are mapped, unless there was a panic.
Up(m, b) ==
  /\ Sound(m) /\ DOMAIN m.dir = {kernel_pd} /\ m.new = <<>>
  /\ m.kheap_end <= KHEAP_START + KHEAP_INITIAL
  /\ ~m.panicked => Filled(m) /\ m.large_alloc_base = b

PagingInitIs(m) ==
  /\ DOMAIN m = Fields /\ m.bitmap = pmm_init /\ m.panicked = FALSE
  /\ DOMAIN m.dir = {kernel_pd} /\ m.dir[kernel_pd] \in [Slot -> Nat]
  /\ m.dir[kernel_pd][RECURSIVE_SLOT] = kernel_pd
  /\ \A s \in Slot : m.dir[kernel_pd][s] =
       CASE s \in {0, KERNEL_SLOT} -> page_table_low
         [] s = RECURSIVE_SLOT     -> kernel_pd
         [] OTHER                  -> 0
  /\ DOMAIN m.table = {page_table_low} /\ m.table[page_table_low] \in [Index -> Nat]
  /\ DOMAIN m.bytes = {} /\ m.new = <<>>
  /\ m.kheap_end = KHEAP_START /\ m.large_alloc_base = LARGE_START

LEMMA PagingInit == PagingInitIs(paging_init)
<1>1. kernel_pd \in Nat /\ page_table_low \in Nat
  <2>1. kernel_pd \in Marked(Kernel.start, Kernel.end - Kernel.start)
        /\ page_table_low \in Marked(Kernel.start, Kernel.end - Kernel.start)
    BY PagingAssumption
  <2>2. Kernel.start \in Nat /\ Kernel.end \in Nat /\ Kernel.start <= Kernel.end
    BY PmmAssumption
  <2>3. Kernel.end - Kernel.start \in Nat
    BY <2>2
  <2>4. Kernel.start \div PAGE_SIZE \in Nat
    BY <2>2, MemorySizes, Division
  <2> QED
    BY <2>1, <2>4 DEF Marked
<1>2. RECURSIVE_SLOT \in Slot /\ RECURSIVE_SLOT \notin {0, KERNEL_SLOT}
  BY Layout DEF Special
<1>3. Index \subseteq Nat
  BY Layout DEF Index
<1>4. DOMAIN <<>> = {}
  OBVIOUS
<1> QED
  BY <1>1, <1>2, <1>3, <1>4 DEF paging_init, PagingInitIs, Fields

LEMMA PagingInitGood ==
  ASSUME NEW m, PagingInitIs(m)
  PROVE  Good(m) /\ \A f : NoLeaf(m, f)
<1>0. NewTables(m) = {} /\ Given(m) = {}
  BY DEF PagingInitIs, NewTables, Given, Pool
<1>1. Shape(m)
  <2>1. pmm_init \subseteq 0 .. 8 * bitmap_size - 1
    BY DEF pmm_init
  <2> QED
    <3>1. DOMAIN m.dir \cap DOMAIN m.table = {}
      BY BootFrames DEF PagingInitIs
    <3>2. pmm_init \subseteq m.bitmap /\ m.bitmap \subseteq 0 .. 8 * bitmap_size - 1
      BY <2>1 DEF PagingInitIs
    <3> QED
      BY <3>1, <3>2 DEF PagingInitIs, Shape
<1>2. \A s \in Ordinary : s # RECURSIVE_SLOT /\ s \in Slot
  BY DEF Ordinary, Special
<1>3. \A s \in Ordinary : m.dir[kernel_pd][s] = IF s \in {0, KERNEL_SLOT} THEN page_table_low ELSE 0
  BY <1>2 DEF PagingInitIs
<1>4. DirsOK(m)
  <2>1. \A s \in Special \ {RECURSIVE_SLOT} : m.dir[kernel_pd][s] = 0
    <3>1. \A s \in Special : s \in Slot /\ s \notin {0, KERNEL_SLOT}
      BY Layout
    <3> QED
      BY <3>1 DEF PagingInitIs
  <2> QED
    BY <1>3, <2>1 DEF PagingInitIs, DirsOK
<1>5. TablesOK(m)
  BY DEF PagingInitIs, TablesOK
<1>6. SlotOnce(m)
  BY <1>3, Layout DEF SlotOnce, PagingInitIs, Counts
<1> QED
  BY <1>0, <1>1, <1>4, <1>5, <1>6 DEF Good, LeavesOK, LeafOnce, NoLeaf

LEMMA PagingInitUp ==
  ASSUME NEW m, PagingInitIs(m)
  PROVE  /\ Up(m, LARGE_START) /\ m.kheap_end = KHEAP_START /\ ~m.panicked
         /\ \A v \in KernelPages : SlotOf(v) # KERNEL_SLOT => Frames(m, v) = {}
<1>1. DOMAIN m.dir = {kernel_pd} /\ m.kheap_end = KHEAP_START /\ m.large_alloc_base = LARGE_START
      /\ ~m.panicked /\ m.new = <<>>
  BY DEF PagingInitIs
<1>2. Good(m)
  BY PagingInitGood
<1>3. ASSUME NEW v \in KernelPages, SlotOf(v) # KERNEL_SLOT PROVE Frames(m, v) = {}
  <2>1. SlotOf(v) \in Ordinary /\ SlotOf(v) # 0
    BY KernelPageIs, PageIs
  <2>2. m.dir[kernel_pd][SlotOf(v)] = 0
    BY <1>3, <2>1 DEF PagingInitIs, Ordinary, Special
  <2>3. Mapped(m, kernel_pd, v) = 0
    BY <2>2 DEF Mapped
  <2> QED
    BY <1>1, <2>3 DEF Frames
<1>4. Agree(m)
  BY <1>1 DEF Agree, One, Frames
<1>5. /\ LARGE_START \in Nat /\ KHEAP_START \in Nat /\ KHEAP_START <= LARGE_START
      /\ LARGE_START <= LargeEnd /\ LargeEnd \in Nat /\ KHEAP_INITIAL \in Nat
  BY AreasAreKernelPages
<1>6. Laid(m)
  <2>1. Above(m) \subseteq KHEAP_START .. LargeEnd - 1
    BY <1>1, <1>5 DEF Above
  <2>2. \A v \in Above(m) : Frames(m, v) = {}
    BY <1>3, <2>1, AreasAreKernelPages
  <2> QED
    BY <1>1, <1>5, <2>2 DEF Laid
<1>7. Filled(m)
  <2>1. Below(m) = {}
    BY <1>1, <1>5 DEF Below
  <2> QED
    BY <2>1 DEF Filled
<1>8. KHEAP_START <= KHEAP_START + KHEAP_INITIAL
  BY <1>5
<1> QED
  BY <1>1, <1>2, <1>3, <1>4, <1>6, <1>7, <1>8 DEF Up, Sound

\* The step of kmain that makes the heap moves its end even when it panics.
FbArea == FB_START .. FB_START + FbPages - 1

FbFree(m) == (\A v \in FbArea : Frames(m, v) = {}) /\ \A h \in Fb : NoLeaf(m, h)

LEMMA KheapInitUp ==
  ASSUME NEW m, PagingInitIs(m)
  PROVE  Up(kheap_init(m), LARGE_START) /\ FbFree(kheap_init(m))
<1> DEFINE V == KHEAP_START .. KHEAP_START + KHEAP_INITIAL - 1
           j == MapNewFrames(m, kernel_pd, KHEAP_START, KHEAP_INITIAL)
           k == kheap_init(m)
<1>1. /\ LARGE_START \in Nat /\ KHEAP_START \in Nat /\ KHEAP_INITIAL \in Nat
      /\ KHEAP_START + KHEAP_INITIAL <= LARGE_START /\ LARGE_START <= LargeEnd /\ LargeEnd \in Nat
      /\ FB_START \in Nat /\ FB_START + FbPages <= KHEAP_START /\ FbPages \in Nat
  BY AreasAreKernelPages, MemorySizes
<1>2. /\ Up(m, LARGE_START) /\ m.kheap_end = KHEAP_START /\ ~m.panicked
      /\ \A v \in KernelPages : SlotOf(v) # KERNEL_SLOT => Frames(m, v) = {}
  BY PagingInitUp
<1>3. Sound(m) /\ Good(m) /\ Agree(m) /\ DOMAIN m.dir = {kernel_pd} /\ kernel_pd \in DOMAIN m.dir
      /\ m.new = <<>> /\ m.large_alloc_base = LARGE_START /\ Filled(m)
  BY <1>2 DEF Up, Sound
<1>4. V \subseteq KHEAP_START .. LargeEnd - 1
  BY <1>1
<1>5. \A v \in V : v \in KernelPages /\ Frames(m, v) = {}
  BY <1>2, <1>4, AreasAreKernelPages
<1>6. Maps(m, j, kernel_pd, V) /\ \A h \in Fb : NoLeaf(m, h) => NoLeaf(j, h)
  BY <1>1, <1>3, <1>5, MapNewFramesMaps
<1>7. k = [j EXCEPT !.kheap_end = KHEAP_START + KHEAP_INITIAL]
  BY DEF kheap_init
<1> HIDE DEF j, k
<1>8. Good(j) /\ DOMAIN j = Fields /\ DOMAIN j.dir = {kernel_pd} /\ j.new = <<>>
      /\ j.large_alloc_base = LARGE_START /\ j.panicked \in BOOLEAN
  BY <1>3, <1>6 DEF Maps, Good, Shape
<1>9. /\ DOMAIN k = Fields /\ k.bitmap = j.bitmap /\ k.panicked = j.panicked
      /\ k.dir = j.dir /\ k.table = j.table /\ k.bytes = j.bytes /\ k.new = <<>>
      /\ k.kheap_end = KHEAP_START + KHEAP_INITIAL /\ k.large_alloc_base = LARGE_START
  BY <1>7, <1>8 DEF Fields
<1>10. Good(k) /\ \A v : Frames(k, v) = Frames(j, v)
  BY ONLY <1>8, <1>9, SameMemory
<1>11. Agree(k)
  <2>1. Agree(j)
    BY <1>3, <1>6, MapsAgree
  <2> QED
    BY <1>10, <2>1 DEF Agree
<1>12. FbFree(k)
  <2>1. ASSUME NEW v \in FbArea PROVE Frames(k, v) = {}
    <3>1. v \in KernelPages /\ SlotOf(v) # KERNEL_SLOT
      BY AreasAreKernelPages DEF FbArea
    <3>2. v \notin V
      BY <1>1 DEF FbArea
    <3>3. Frames(j, v) = Frames(m, v)
      BY <1>6, <3>1, <3>2 DEF Maps
    <3> QED
      BY <1>2, <1>10, <3>1, <3>3
  <2>2. \A h \in Fb : NoLeaf(k, h)
    <3>1. \A h \in Fb : NoLeaf(j, h)
      BY <1>6, PagingInitGood
    <3> QED
      BY <1>9, <3>1 DEF NoLeaf, NewTables
  <2> QED
    BY <2>1, <2>2 DEF FbFree
<1>13. k.kheap_end \in Nat /\ KHEAP_START <= k.kheap_end /\ k.kheap_end <= LARGE_START
       /\ k.kheap_end <= KHEAP_START + KHEAP_INITIAL
       /\ k.large_alloc_base \in Nat /\ LARGE_START <= k.large_alloc_base
       /\ k.large_alloc_base <= LargeEnd
  BY <1>1, <1>9
<1>14. ASSUME k.panicked PROVE Up(k, LARGE_START)
  <2>1. Laid(k)
    BY <1>13, <1>14 DEF Laid
  <2> QED
    BY <1>8, <1>9, <1>10, <1>11, <1>13, <1>14, <2>1 DEF Up, Sound
<1>15. ASSUME ~k.panicked PROVE Up(k, LARGE_START)
  <2>1. V \subseteq Above(m) /\ V \cap Below(m) = {} /\ V \subseteq KernelPages
    <3>1. V \subseteq KHEAP_START .. LARGE_START - 1
      BY <1>1
    <3>2. V \subseteq Above(m)
      BY <1>2, <3>1 DEF Above
    <3>3. V \cap Below(m) = {}
      BY <1>1, <1>2, <1>3, <3>1 DEF Below
    <3> QED
      BY <1>5, <3>2, <3>3
  <2>2. Below(k) \subseteq Below(m) \cup V /\ Above(k) \subseteq Above(m) \ V
    BY <1>1, <1>2, <1>3, <1>9 DEF Below, Above
  <2>3. m.kheap_end <= k.kheap_end /\ m.large_alloc_base <= k.large_alloc_base
    BY <1>1, <1>2, <1>3, <1>9
  <2> HIDE DEF V
  <2>4. Runs(m, k)
    BY ONLY <1>3, <1>6, <1>9, <1>13, <1>15, <2>1, <2>2, <2>3, Advance
  <2>5. Filled(k) /\ Sound(k)
    BY <1>3, <2>4 DEF Runs
  <2> QED
    BY <1>8, <1>9, <1>13, <2>5 DEF Up
<1>16. Up(k, LARGE_START) /\ FbFree(k)
  BY <1>12, <1>14, <1>15
<1> QED
  BY <1>16 DEF k

\* The framebuffer: its frames are where the card is, so each is mapped once.
LEMMA MapFramebufferIs ==
  ASSUME NEW m, NEW n \in Nat, n = FbPages
  PROVE  \E after : /\ MapFramebuffer(m) = after[n] /\ after[0] = m
                    /\ \A i \in 1 .. n : after[i] =
                         IF after[i - 1].panicked THEN after[i - 1]
                         ELSE map_page(after[i - 1], kernel_pd, Framebuffer.addr \div PAGE_SIZE + i - 1, FB_START + i - 1)
<1> DEFINE Turn(i, a) == Then(a, LAMBDA k : map_page(k, kernel_pd, Framebuffer.addr \div PAGE_SIZE + i - 1, FB_START + i - 1))
           IsLoop(j, f) == f = [i \in 0 .. j |-> IF i = 0 THEN m ELSE Turn(i, f[i - 1])]
           S == {j \in 0 .. n : \E f : IsLoop(j, f)}
           loop == CHOOSE f : IsLoop(n, f)
<1>1. MapFramebuffer(m) = loop[n]
  BY DEF MapFramebuffer
<1>2. \A i, a : Turn(i, a) = IF a.panicked THEN a ELSE map_page(a, kernel_pd, Framebuffer.addr \div PAGE_SIZE + i - 1, FB_START + i - 1)
  BY DEF Then
<1> HIDE DEF Turn
<1>3. 0 \in S
  <2>1. IsLoop(0, [i \in 0 .. 0 |-> m])
    OBVIOUS
  <2> HIDE DEF IsLoop
  <2> QED
    BY <2>1
<1>4. ASSUME NEW j \in 1 .. n, j - 1 \in S PROVE j \in S
  <2>1. PICK f : IsLoop(j - 1, f)
    BY <1>4
  <2> DEFINE g == [i \in 0 .. j |-> IF i = j THEN Turn(j, f[j - 1]) ELSE f[i]]
  <2>2. \A i \in 0 .. j - 1 : f[i] = IF i = 0 THEN m ELSE Turn(i, f[i - 1])
    BY <2>1
  <2>3. \A i \in 0 .. j : g[i] = IF i = 0 THEN m ELSE Turn(i, g[i - 1])
    BY <2>2
  <2>4. IsLoop(j, g)
    BY <2>3
  <2> HIDE DEF IsLoop, g
  <2> QED
    BY <2>4
<1>5. \E f : IsLoop(n, f)
  <2> HIDE DEF IsLoop
  <2> QED
    BY <1>3, <1>4, Segment
<1>6. IsLoop(n, loop)
  BY <1>5
<1> HIDE DEF loop
<1>7. loop[0] = m /\ \A i \in 1 .. n : loop[i] = Turn(i, loop[i - 1])
  BY <1>6
<1>8. \A i \in 1 .. n : loop[i] = IF loop[i - 1].panicked THEN loop[i - 1]
                                ELSE map_page(loop[i - 1], kernel_pd, Framebuffer.addr \div PAGE_SIZE + i - 1, FB_START + i - 1)
  BY <1>2, <1>7
<1> QED
  BY <1>1, <1>7, <1>8

LEMMA MapFramebufferMaps ==
  ASSUME NEW m, Good(m), kernel_pd \in DOMAIN m.dir, FbFree(m)
  PROVE  Maps(m, MapFramebuffer(m), kernel_pd, FbArea)
<1> DEFINE n == FbPages
           K == MapFramebuffer(m)
           base == Framebuffer.addr \div PAGE_SIZE
           Area(i) == FB_START .. FB_START + i - 1
           Rest(k, i) == \A h \in Fb : h >= base + i => NoLeaf(k, h)
<1>1. n \in Nat /\ base \in Nat /\ FB_START \in Nat
  BY MemorySizes, AreasAreKernelPages, Division, PmmAssumption
<1>2. n = FbPages /\ K = MapFramebuffer(m) /\ Fb = base .. base + n - 1
  BY DEF Fb, Marked, FbPages
<1> HIDE DEF n, K
<1>3. PICK after : /\ K = after[n] /\ after[0] = m
                   /\ \A i \in 1 .. n : after[i] =
                        IF after[i - 1].panicked THEN after[i - 1]
                        ELSE map_page(after[i - 1], kernel_pd, base + i - 1, FB_START + i - 1)
  BY ONLY <1>1, <1>2, MapFramebufferIs
<1> HIDE DEF base
<1> DEFINE S == {i \in 0 .. n : Maps(m, after[i], kernel_pd, Area(i)) /\ Rest(after[i], i)}
<1>4. 0 \in S
  <2>1. Area(0) = {} /\ Rest(m, 0)
    BY <1>1 DEF FbFree
  <2>2. Maps(m, m, kernel_pd, {})
    BY MapsSelf
  <2> QED
    BY <1>1, <1>3, <2>1, <2>2
<1>5. ASSUME NEW i \in 1 .. n, i - 1 \in S PROVE i \in S
  <2> DEFINE k == after[i - 1]
             v == FB_START + i - 1
             f == base + i - 1
             j == map_page(k, kernel_pd, f, v)
             A == Area(i - 1)
  <2>1. Maps(m, k, kernel_pd, A) /\ Rest(k, i - 1)
    BY <1>5
  <2>2. after[i] = IF k.panicked THEN k ELSE j
    BY <1>3
  <2>3. v \in FbArea /\ v \notin A /\ Area(i) = A \cup {v}
    BY <1>1, <1>2 DEF FbArea
  <2>4. /\ f \in Fb /\ f >= base + (i - 1) /\ f \in Nat
        /\ \A h \in Fb : h >= base + i => h >= base + (i - 1) /\ h # f
    BY <1>1, <1>2
  <2>5. i \in 0 .. n
    OBVIOUS
  <2>6. \A h \in Fb : h >= base + i => h >= base + (i - 1) /\ h # f
    BY <2>4
  <2> DEFINE B == Area(i)
  <2> SUFFICES Maps(m, after[i], kernel_pd, B) /\ Rest(after[i], i)
    BY <2>5
  <2> HIDE DEF k, v, A, B, f
  <2>7. B = A \cup {v}
    BY <2>3 DEF B
  <2>8. v \in KernelPages /\ v \in Pages /\ Counts(kernel_pd, SlotOf(v))
    BY <2>3, AreasAreKernelPages, KernelPageIs DEF FbArea, Counts
  <2>9. Frames(m, v) = {}
    BY <2>3 DEF FbFree
  <2>10. Frames(k, v) = {} /\ Good(k) /\ kernel_pd \in DOMAIN k.dir
    BY <2>1, <2>3, <2>8, <2>9 DEF Maps
  <2>11. ASSUME k.panicked PROVE Maps(m, k, kernel_pd, B) /\ Rest(k, i)
    <3>1. Slots(A) \subseteq Slots(B)
      BY <2>7 DEF Slots
    <3>2. \A w \in KernelPages \cap B : One(Frames(k, w))
      BY <2>1, <2>7, <2>10 DEF Maps, One
    <3>3. \A w \in KernelPages \ B : Frames(k, w) = Frames(m, w)
      BY <2>1, <2>7 DEF Maps
    <3>4. Keeps(m, k, kernel_pd, B)
      BY <2>1, <2>7, KeepsWider DEF Maps
    <3>5. Maps(m, k, kernel_pd, B)
      BY <2>1, <2>11, <3>1, <3>2, <3>3, <3>4 DEF Maps
    <3> QED
      BY <2>1, <2>6, <3>5
  <2>12. ASSUME ~k.panicked PROVE Maps(m, j, kernel_pd, B) /\ Rest(j, i)
    <3>1. NoLeaf(k, f)
      BY <2>1, <2>4
    <3>2. Backing(k, f)
      BY <2>4, <3>1 DEF Backing
    <3>3. Maps(k, j, kernel_pd, {v}) /\ Spares(k, j, f)
      BY <2>8, <2>10, <2>12, <3>2, MapPageMaps
    <3> HIDE DEF j
    <3>4. Maps(m, j, kernel_pd, B)
      BY <2>1, <2>7, <3>3, MapsOn
    <3>5. Rest(j, i)
      BY <2>1, <2>6, <3>3 DEF Spares
    <3> QED
      BY <3>4, <3>5
  <2> QED
    BY <2>2, <2>11, <2>12
<1>6. n \in S
  <2> HIDE DEF S
  <2> QED
    BY <1>1, <1>4, <1>5, Segment
<1>7. Area(n) = FbArea
  BY <1>2 DEF FbArea
<1>8. Maps(m, K, kernel_pd, FbArea)
  BY <1>3, <1>6, <1>7
<1> QED
  BY <1>8 DEF K

LEMMA FramebufferUp ==
  ASSUME NEW m, Up(m, LARGE_START), FbFree(m)
  PROVE  Up(MapFramebuffer(m), LARGE_START)
<1> DEFINE k == MapFramebuffer(m)
<1>1. Sound(m) /\ Good(m) /\ Agree(m) /\ Laid(m) /\ DOMAIN m.dir = {kernel_pd}
      /\ kernel_pd \in DOMAIN m.dir
  BY DEF Up, Sound
<1>2. Maps(m, k, kernel_pd, FbArea)
  BY <1>1, MapFramebufferMaps
<1> HIDE DEF k
<1>3. /\ Good(k) /\ DOMAIN k.dir = {kernel_pd} /\ (m.panicked => k.panicked)
      /\ k.new = m.new /\ k.kheap_end = m.kheap_end /\ k.large_alloc_base = m.large_alloc_base
  BY <1>1, <1>2 DEF Maps
<1>4. /\ m.kheap_end \in Nat /\ KHEAP_START <= m.kheap_end /\ m.kheap_end <= LARGE_START
      /\ m.large_alloc_base \in Nat /\ LARGE_START <= m.large_alloc_base
      /\ m.large_alloc_base <= LargeEnd
  BY <1>1 DEF Laid
<1>5. /\ LARGE_START \in Nat /\ KHEAP_START \in Nat /\ FB_START \in Nat /\ FbPages \in Nat
      /\ FB_START + FbPages <= KHEAP_START /\ KHEAP_START <= LARGE_START
  BY AreasAreKernelPages, MemorySizes
<1>6. \A v \in Below(m) \cup Above(m) : v \in KernelPages \ FbArea
  BY <1>4, <1>5, AreasAreKernelPages DEF Below, Above, FbArea
<1>7. \A v \in Below(m) \cup Above(m) : Frames(k, v) = Frames(m, v)
  BY <1>2, <1>6 DEF Maps
<1>8. Below(k) = Below(m) /\ Above(k) = Above(m)
  BY <1>3 DEF Below, Above
<1>9. Laid(k) /\ (Filled(m) => Filled(k))
  BY <1>1, <1>3, <1>4, <1>7, <1>8 DEF Laid, Filled
<1>10. Agree(k)
  BY <1>1, <1>2, MapsAgree
<1>11. Up(k, LARGE_START)
  BY <1>3, <1>9, <1>10 DEF Up, Sound
<1> QED
  BY <1>11 DEF k

\* A step of kmain that takes pages, unless there was a panic.
Kalloced(m, n) == IF m.panicked THEN m ELSE kalloc_pages(m, kernel_pd, n)

LEMMA KallocUp ==
  ASSUME NEW m, NEW b \in Nat, NEW n \in Nat, Up(m, b), b + n <= LargeEnd
  PROVE  Up(Kalloced(m, n), b + n)
         /\ Kalloced(m, n).dir[kernel_pd][0] = m.dir[kernel_pd][0]
<1>1. CASE m.panicked
  BY <1>1 DEF Kalloced, Up
<1>2. ASSUME ~m.panicked, NEW k, k = kalloc_pages(m, kernel_pd, n)
      PROVE  Up(k, b + n) /\ k.dir[kernel_pd][0] = m.dir[kernel_pd][0]
  <2>1. Sound(m) /\ m.large_alloc_base = b /\ kernel_pd \in DOMAIN m.dir /\ Filled(m)
        /\ DOMAIN m.dir = {kernel_pd}
    BY <1>2 DEF Up
  <2>2. /\ Runs(m, k) /\ Untouched(m, k) /\ DOMAIN k.dir = DOMAIN m.dir
        /\ k.new = m.new /\ k.kheap_end = m.kheap_end
        /\ ~k.panicked => k.large_alloc_base = b + n
    BY <1>2, <2>1, KallocRuns
  <2> QED
    BY <2>1, <2>2 DEF Up, Runs
<1>3. CASE ~m.panicked
  <2>1. Kalloced(m, n) = kalloc_pages(m, kernel_pd, n)
    BY <1>3 DEF Kalloced
  <2> QED
    BY <1>2, <1>3, <2>1
<1> QED
  BY <1>1, <1>3

LEMMA RemoveUp ==
  ASSUME NEW m, NEW b, Up(m, b)
  PROVE  Up(remove_identity_map(m), b) /\ remove_identity_map(m).dir[kernel_pd][0] = 0
<1> DEFINE k == remove_identity_map(m)
<1>1. /\ Good(m) /\ Agree(m) /\ Laid(m) /\ DOMAIN m.dir = {kernel_pd} /\ DOMAIN m = Fields
      /\ m.dir[kernel_pd] \in [Slot -> Nat] /\ 0 \in Slot
  BY Layout DEF Up, Sound, Good, Shape, DirsOK, Ordinary
<1>2. k = [m EXCEPT !.dir = [m.dir EXCEPT ![kernel_pd] = [m.dir[kernel_pd] EXCEPT ![0] = 0]]]
  BY <1>1 DEF remove_identity_map
<1> HIDE DEF k
<1>3. /\ DOMAIN k = Fields /\ \A x \in Fields \ {"dir"} : k[x] = m[x]
      /\ DOMAIN k.dir = {kernel_pd} /\ k.dir[kernel_pd] \in [Slot -> Nat]
      /\ k.dir[kernel_pd][0] = 0
      /\ \A s \in Slot : s # 0 => k.dir[kernel_pd][s] = m.dir[kernel_pd][s]
  BY <1>1, <1>2 DEF Fields
<1>4. /\ k.bitmap = m.bitmap /\ k.panicked = m.panicked /\ k.table = m.table /\ k.bytes = m.bytes
      /\ k.new = m.new /\ k.kheap_end = m.kheap_end /\ k.large_alloc_base = m.large_alloc_base
  BY <1>3 DEF Fields
<1>5. Good(k)
  <2>1. Shape(k)
    BY <1>1, <1>3, <1>4 DEF Good, Shape, Given
  <2>2. \A s \in Special : s \in Slot /\ s # 0
    BY Layout
  <2>3. DirsOK(k)
    <3>1. k.dir[kernel_pd][RECURSIVE_SLOT] = kernel_pd
      BY <1>1, <1>3, <2>2 DEF Good, DirsOK, Special
    <3>2. \A s \in Special \ {RECURSIVE_SLOT} : k.dir[kernel_pd][s] = 0
      BY <1>1, <1>3, <2>2 DEF Good, DirsOK
    <3>3. \A s \in Ordinary : k.dir[kernel_pd][s] \in {0} \cup DOMAIN k.table
      BY <1>1, <1>3, <1>4 DEF Good, DirsOK, Ordinary
    <3> QED
      BY <1>3, <3>1, <3>2, <3>3 DEF DirsOK
  <2>4. SlotOnce(k)
    <3>1. \A s \in Ordinary : k.dir[kernel_pd][s] # 0 =>
            s # 0 /\ k.dir[kernel_pd][s] = m.dir[kernel_pd][s]
      BY <1>3 DEF Ordinary
    <3>2. SlotOnce(m)
      BY <1>1 DEF Good
    <3> QED
      BY <1>1, <1>3, <3>1, <3>2 DEF SlotOnce
  <2> QED
    <3>1. TablesOK(k)
      BY <1>1, <1>4 DEF Good, TablesOK
    <3>2. DOMAIN k.dir = DOMAIN m.dir /\ Given(k) = Given(m) /\ NewTables(k) = NewTables(m)
      BY <1>1, <1>3, <1>4 DEF Given, NewTables
    <3>3. LeavesOK(k)
      BY <1>1, <1>4, <3>2 DEF Good, LeavesOK
    <3>4. LeafOnce(k)
      BY <1>1, <1>4, <3>2 DEF Good, LeafOnce
    <3> QED
      BY <2>1, <2>3, <2>4, <3>1, <3>3, <3>4 DEF Good
<1>6. ASSUME NEW v \in KernelPages PROVE Frames(k, v) = Frames(m, v)
  <2>1. SlotOf(v) \in Slot /\ SlotOf(v) # 0
    BY KernelPageIs, PageIs DEF Ordinary
  <2>2. Mapped(k, kernel_pd, v) = Mapped(m, kernel_pd, v)
    BY <1>3, <1>4, <2>1 DEF Mapped
  <2> QED
    BY <1>1, <1>3, <2>2 DEF Frames
<1>7. Below(k) = Below(m) /\ Above(k) = Above(m)
  BY <1>4 DEF Below, Above
<1>8. Below(m) \subseteq KernelPages /\ Above(m) \subseteq KernelPages
  <2>1. /\ m.kheap_end \in Nat /\ KHEAP_START <= m.kheap_end /\ m.kheap_end <= LARGE_START
        /\ m.large_alloc_base \in Nat /\ LARGE_START <= m.large_alloc_base
        /\ m.large_alloc_base <= LargeEnd
    BY <1>1 DEF Laid
  <2> QED
    BY <2>1, AreasAreKernelPages DEF Below, Above
<1>9. Laid(k) /\ (Filled(m) => Filled(k)) /\ Agree(k)
  BY <1>1, <1>4, <1>6, <1>7, <1>8 DEF Laid, Filled, Agree
<1>10. Up(k, b)
  BY <1>3, <1>4, <1>5, <1>9 DEF Up, Sound
<1> QED
  BY <1>3, <1>10 DEF k

\* Where large_alloc_base is when kmain has made its two threads.
BootBase == LARGE_START + FbPages + InitrdPages + 2 * KSTACK_PAGES

LEMMA BootBaseFits ==
  /\ BootBase \in Nat /\ LARGE_START \in Nat /\ FbPages \in Nat /\ InitrdPages \in Nat
  /\ KSTACK_PAGES \in Nat /\ LargeEnd \in Nat
  /\ LARGE_START + FbPages <= LargeEnd /\ LARGE_START + FbPages + InitrdPages <= LargeEnd
  /\ LARGE_START + FbPages + InitrdPages + KSTACK_PAGES <= LargeEnd /\ BootBase <= LargeEnd
  /\ \A n \in 0 .. MaxProc - 1 :
       BootBase + n * KSTACK_PAGES + KSTACK_PAGES <= LargeEnd
       /\ BootBase + n * KSTACK_PAGES + KSTACK_PAGES = BootBase + (n + 1) * KSTACK_PAGES
<1>1. /\ LARGE_START \in Nat /\ FbPages \in Nat /\ InitrdPages \in Nat /\ KSTACK_PAGES \in Nat
      /\ LargeEnd \in Nat /\ MaxProc \in Nat \ {0}
  BY AreasAreKernelPages, MemorySizes, PagingAssumption, AddressSpaceAssumption
<1>2. LARGE_START + FbPages + InitrdPages + (2 + MaxProc) * KSTACK_PAGES <= LargeEnd
  BY AddressSpaceAssumption DEF LargeEnd
<1>3. (2 + MaxProc) * KSTACK_PAGES = 2 * KSTACK_PAGES + MaxProc * KSTACK_PAGES
  BY <1>1
<1>4. MaxProc * KSTACK_PAGES \in Nat /\ 2 * KSTACK_PAGES = KSTACK_PAGES + KSTACK_PAGES
  BY <1>1
<1>5. ASSUME NEW n \in 0 .. MaxProc - 1
      PROVE  /\ n * KSTACK_PAGES \in Nat
             /\ (n + 1) * KSTACK_PAGES = n * KSTACK_PAGES + KSTACK_PAGES
             /\ (n + 1) * KSTACK_PAGES <= MaxProc * KSTACK_PAGES
  <2>1. n \in Nat /\ n + 1 <= MaxProc /\ n + 1 \in Nat
    BY <1>1
  <2>2. (n + 1) * KSTACK_PAGES <= MaxProc * KSTACK_PAGES
    BY <1>1, <2>1, Z3
  <2>3. n * KSTACK_PAGES \in Nat
    BY <1>1, <2>1
  <2>4. (n + 1) * KSTACK_PAGES = n * KSTACK_PAGES + KSTACK_PAGES
    BY <1>1, <2>1
  <2> QED
    BY <2>2, <2>3, <2>4
<1> DEFINE p == MaxProc * KSTACK_PAGES
<1>6. ASSUME NEW n \in 0 .. MaxProc - 1
      PROVE  BootBase + n * KSTACK_PAGES + KSTACK_PAGES <= LargeEnd
             /\ BootBase + n * KSTACK_PAGES + KSTACK_PAGES = BootBase + (n + 1) * KSTACK_PAGES
  <2> DEFINE q == n * KSTACK_PAGES
             r == (n + 1) * KSTACK_PAGES
  <2>1. q \in Nat /\ r = q + KSTACK_PAGES /\ r <= p /\ p \in Nat
        /\ LARGE_START + FbPages + InitrdPages + (2 * KSTACK_PAGES + p) <= LargeEnd
    BY <1>2, <1>3, <1>4, <1>5
  <2> HIDE DEF p, q, r
  <2>2. BootBase + q + KSTACK_PAGES <= LargeEnd /\ BootBase + q + KSTACK_PAGES = BootBase + r
    BY <1>1, <2>1 DEF BootBase
  <2> QED
    BY <2>2 DEF q, r
<1>7. p \in Nat /\ LARGE_START + FbPages + InitrdPages + (2 * KSTACK_PAGES + p) <= LargeEnd
  BY <1>2, <1>3, <1>4
<1> HIDE DEF p
<1>8. BootBase <= LargeEnd /\ BootBase \in Nat
  BY <1>1, <1>7 DEF BootBase
<1> QED
  BY <1>1, <1>4, <1>6, <1>8 DEF BootBase

LEMMA BootedUp == Up(Booted, BootBase) /\ Booted.dir[kernel_pd][0] = 0
<1> DEFINE F == LARGE_START + FbPages
           I == LARGE_START + FbPages + InitrdPages
           T == LARGE_START + FbPages + InitrdPages + KSTACK_PAGES
           m0 == kheap_init(paging_init)
           m1 == MapFramebuffer(m0)
           m2 == Kalloced(m1, FbPages)
           m3 == Kalloced(m2, InitrdPages)
           m4 == remove_identity_map(m3)
           m5 == Kalloced(m4, KSTACK_PAGES)
           m6 == Kalloced(m5, KSTACK_PAGES)
<1>1. Up(m0, LARGE_START) /\ FbFree(m0)
  BY PagingInit, KheapInitUp
<1>2. \A m : fb_init(m) = Kalloced(MapFramebuffer(m), FbPages)
  BY DEF fb_init, Then, Kalloced
<1>3. \A m : initrd_remap(m) = Kalloced(m, InitrdPages) /\ kthread_create(m) = Kalloced(m, KSTACK_PAGES)
  BY DEF initrd_remap, kthread_create, Then, Kalloced
<1>4. Booted = m6
  BY <1>2, <1>3 DEF Booted
<1>5. /\ LARGE_START \in Nat /\ F \in Nat /\ I \in Nat /\ T \in Nat
      /\ I = F + InitrdPages /\ T = I + KSTACK_PAGES /\ BootBase = T + KSTACK_PAGES
      /\ F <= LargeEnd /\ I <= LargeEnd /\ T <= LargeEnd /\ BootBase <= LargeEnd
      /\ FbPages \in Nat /\ InitrdPages \in Nat /\ KSTACK_PAGES \in Nat
  BY BootBaseFits DEF BootBase
<1> HIDE DEF m0, m1, m2, m3, m4, m5, m6
<1>6. Up(m1, LARGE_START)
  BY <1>1, FramebufferUp DEF m1
<1>7. Up(m2, F)
  BY <1>5, <1>6, KallocUp DEF m2
<1> HIDE DEF F, I, T
<1>8. Up(m3, I)
  BY <1>5, <1>7, KallocUp DEF m3
<1>9. Up(m4, I) /\ m4.dir[kernel_pd][0] = 0
  BY <1>8, RemoveUp DEF m4
<1>10. Up(m5, T) /\ m5.dir[kernel_pd][0] = 0
  BY <1>5, <1>9, KallocUp DEF m5
<1>11. Up(m6, BootBase) /\ m6.dir[kernel_pd][0] = 0
  BY <1>5, <1>10, KallocUp DEF m6
<1> QED
  BY <1>4, <1>11

-----------------------------------------------------------------------------
(***************************************************************************)
(* The invariant.                                                          *)
(***************************************************************************)
\* The stack of init's thread lies under the page table that the stack of the
\* main thread, the last page kmain mapped before it, needed.
InitStackInReach == SlotOf(BootBase - 1) = SlotOf(BootBase + KSTACK_PAGES - 1)

Process == [pd : Nat, prog : Program \cup {Init_program}, stack : Nat]

ProcOK ==
  /\ proc \in Seq(Process) /\ Len(proc) <= MaxProc
  /\ \A p \in DOMAIN proc : proc[p].pd \in DOMAIN mem.dir \ {kernel_pd}

RunOK ==
  /\ curr \in {0} \cup DOMAIN proc
  /\ cr3 = IF curr = 0 THEN kernel_pd ELSE proc[curr].pd

BreaksOK ==
  /\ mem.kheap_end <= KHEAP_START + KHEAP_INITIAL + MaxHeap
  /\ ~mem.panicked => mem.large_alloc_base = BootBase + Len(proc) * KSTACK_PAGES

MemOK ==
  /\ Sound(mem) /\ mem.dir[kernel_pd][0] = 0
  /\ Booted.panicked \/ Filled(mem)
  /\ InitStackInReach => BootShared(mem)

\* What a process was loaded with is still in its pages.
Image(m, e) == Imaged(m, e.pd, e.prog.segments, Len(e.prog.segments))

Images == \A p \in DOMAIN proc : Image(mem, proc[p])

IInv == MemOK /\ ProcOK /\ RunOK /\ BreaksOK /\ Images

LEMMA SlotOrder ==
  ASSUME NEW v \in Nat, NEW w \in Nat, v <= w
  PROVE  SlotOf(v) <= SlotOf(w) /\ SlotOf(v) \in Nat /\ SlotOf(w) \in Nat
<1>1. ENTRIES \in Nat \ {0}
  BY Layout
<1>2. SlotOf(v) \in Nat /\ SlotOf(w) \in Nat /\ ENTRIES * SlotOf(v) <= v /\ ENTRIES * SlotOf(v) \in Nat
  BY <1>1, Division DEF SlotOf
<1>3. ENTRIES * SlotOf(v) <= w
  BY <1>2
<1> QED
  BY <1>1, <1>2, <1>3, DivisionOrder DEF SlotOf

LEMMA StackReached ==
  ASSUME NEW m, Up(m, BootBase), ~m.panicked, InitStackInReach
  PROVE  StackSlots(m, kernel_pd)
<1>1. /\ BootBase \in Nat /\ KSTACK_PAGES \in Nat /\ LARGE_START \in Nat
      /\ BootBase = LARGE_START + FbPages + InitrdPages + 2 * KSTACK_PAGES
      /\ FbPages \in Nat /\ InitrdPages \in Nat
  BY BootBaseFits DEF BootBase
<1>2. m.large_alloc_base = BootBase /\ Filled(m) /\ DOMAIN m.dir = {kernel_pd}
  BY DEF Up
<1> SUFFICES ASSUME NEW v \in BootBase .. BootBase + KSTACK_PAGES - 1
             PROVE  m.dir[kernel_pd][SlotOf(v)] # 0
  BY <1>2 DEF StackSlots
<1> DEFINE w == BootBase - 1
           u == BootBase + KSTACK_PAGES - 1
<1>3. w \in Nat /\ LARGE_START <= w /\ u \in Nat /\ v \in Nat /\ w <= v /\ v <= u
  BY <1>1
<1>4. SlotOf(w) = SlotOf(u)
  BY DEF InitStackInReach
<1> HIDE DEF w, u
<1>5. SlotOf(v) = SlotOf(w)
  <2>1. SlotOf(w) <= SlotOf(v) /\ SlotOf(v) <= SlotOf(u) /\ SlotOf(v) \in Nat /\ SlotOf(w) \in Nat
    BY <1>3, SlotOrder
  <2> QED
    BY <1>4, <2>1
<1>6. w \in Below(m)
  BY <1>1, <1>2, <1>3 DEF Below, w
<1>7. Frames(m, w) # {}
  BY <1>2, <1>6 DEF Filled
<1>8. Mapped(m, kernel_pd, w) # 0
  BY <1>2, <1>7 DEF Frames
<1>9. m.dir[kernel_pd][SlotOf(w)] # 0
  BY <1>8 DEF Mapped
<1> QED
  BY <1>5, <1>9

\* Frames are numbers.
LEMMA DirsAreNumbers ==
  ASSUME NEW m, Good(m)
  PROVE  DOMAIN m.dir \ {kernel_pd} \subseteq Nat
BY PoolIsFrames DEF Good, Shape, Given

LEMMA InitIInv == Init => IInv
<1> SUFFICES ASSUME Init PROVE IInv
  OBVIOUS
<1> DEFINE m == Booted
           k == MakeProcess(m, kernel_pd, Init_program, FALSE, FALSE)
<1>1. mem = k /\ proc = mem.new /\ curr = 0 /\ cr3 = kernel_pd
  BY DEF Init
<1>2. Up(m, BootBase) /\ m.dir[kernel_pd][0] = 0
  BY BootedUp
<1>3. k = IF m.panicked THEN [m EXCEPT !.new = <<>>] ELSE k
  <2>1. Up(m, BootBase)
    BY <1>2
  <2>2. DOMAIN m = Fields
    BY <2>1 DEF Up, Sound, Good, Shape
  <2> HIDE DEF m
  <2>3. [m EXCEPT !.new = <<>>].panicked = m.panicked
    BY <2>2 DEF Fields
  <2> QED
    BY <2>3 DEF MakeProcess, kmalloc, Then
<1> HIDE DEF m, k
<1>4. /\ Sound(m) /\ DOMAIN m.dir = {kernel_pd} /\ m.kheap_end <= KHEAP_START + KHEAP_INITIAL
      /\ ~m.panicked => Filled(m) /\ m.large_alloc_base = BootBase
  BY <1>2 DEF Up
<1>5. /\ KHEAP_START \in Nat /\ KHEAP_INITIAL \in Nat /\ MaxHeap \in Nat /\ MaxProc \in Nat \ {0}
      /\ m.kheap_end \in Nat
  BY <1>4, AreasAreKernelPages, AddressSpaceAssumption DEF Sound, Laid
<1>6. curr \in {0} \cup DOMAIN proc /\ cr3 = IF curr = 0 THEN kernel_pd ELSE proc[curr].pd
  BY <1>1
<1>7. ASSUME m.panicked PROVE IInv
  <2>1. DOMAIN m = Fields
    BY <1>4 DEF Sound, Good, Shape
  <2>2. DOMAIN mem = Fields /\ (\A x \in Fields \ {"new"} : mem[x] = m[x]) /\ mem.new = <<>>
    BY <1>1, <1>3, <1>7, <2>1 DEF Fields
  <2>3. mem.panicked = m.panicked /\ mem.dir = m.dir /\ mem.kheap_end = m.kheap_end
    BY <2>2 DEF Fields
  <2>4. Runs(m, mem) /\ Sound(mem)
    <3>1. Runs(m, mem)
      BY ONLY <1>4, <2>2, SameRuns
    <3> QED
      BY <3>1 DEF Runs
  <2>5. BootShared(mem)
    BY <1>4, <2>3 DEF BootShared
  <2>6. proc = <<>>
    BY <1>1, <2>2
  <2>7. ProcOK
    BY <1>5, <2>6 DEF ProcOK
  <2>8. BreaksOK /\ Images
    BY <1>4, <1>5, <1>7, <2>3, <2>6 DEF BreaksOK, Images
  <2>9. MemOK
    BY <1>2, <1>7, <2>3, <2>4, <2>5 DEF MemOK, m
  <2> QED
    BY <1>6, <2>7, <2>8, <2>9 DEF IInv, RunOK
<1>8. ASSUME ~m.panicked PROVE IInv
  <2>1. IsMade(m, k, kernel_pd, FALSE, 2)
    <3>1. kernel_pd \in DOMAIN m.dir /\ m.large_alloc_base + KSTACK_PAGES <= LargeEnd
      <4>1. 0 \in 0 .. MaxProc - 1
        BY <1>5
      <4>2. BootBase + 0 * KSTACK_PAGES + KSTACK_PAGES <= LargeEnd
        BY <4>1, BootBaseFits
      <4>3. BootBase + 0 * KSTACK_PAGES = BootBase
        BY BootBaseFits
      <4> QED
        BY <1>4, <1>8, <4>2, <4>3
    <3>2. k = MakeProcess(m, kernel_pd, Init_program, FALSE, FALSE)
      BY DEF k
    <3>3. Init_program \in Program \cup {Init_program} /\ FALSE \in BOOLEAN /\ ~(FALSE \/ FALSE)
          /\ (FALSE \/ FALSE) = FALSE
      OBVIOUS
    <3>4. IsMade(m, MakeProcess(m, kernel_pd, Init_program, FALSE, FALSE), kernel_pd, FALSE \/ FALSE, 2)
      BY ONLY <1>4, <1>8, <3>1, <3>3, MadeRuns
    <3> QED
      BY <3>2, <3>3, <3>4
  <2>2. Runs(m, mem) /\ Sound(mem) /\ mem.dir[kernel_pd][0] = 0 /\ Filled(mem)
    BY <1>1, <1>2, <1>4, <1>8, <2>1 DEF IsMade, Runs
  <2>3. StackSlots(m, kernel_pd) => BootShared(mem)
    <3>1. BootShared(m)
      BY <1>4 DEF BootShared
    <3> QED
      BY <1>1, <2>1, <3>1 DEF IsMade
  <2>4. MemOK
    BY <1>2, <1>8, <2>2, <2>3, StackReached DEF MemOK
  <2>5. ProcOK /\ Images /\ (~mem.panicked => Len(proc) = 1)
    <3>1. CASE mem.panicked
      <4>1. proc = <<>>
        BY <1>1, <2>1, <3>1 DEF IsMade
      <4> QED
        BY <1>5, <3>1, <4>1 DEF ProcOK, Images
    <3>2. CASE ~mem.panicked
      <4>1. NewProcess(mem)
        BY <1>1, <2>1, <3>2 DEF IsMade
      <4>2. PICK pd \in DOMAIN mem.dir \ {kernel_pd}, prog \in Program \cup {Init_program}, stack \in Nat :
              /\ proc = <<[pd |-> pd, prog |-> prog, stack |-> stack]>>
              /\ Imaged(mem, pd, prog.segments, Len(prog.segments))
        BY <1>1, <4>1 DEF NewProcess
      <4>3. pd \in Nat
        BY <2>2, DirsAreNumbers DEF Sound
      <4> DEFINE e == [pd |-> pd, prog |-> prog, stack |-> stack]
      <4>4. e \in Process /\ e.pd = pd /\ Image(mem, e)
        BY <4>2, <4>3 DEF Process, Image
      <4> HIDE DEF e
      <4>5. proc = <<e>>
        BY <4>2 DEF e
      <4>6. DOMAIN proc = {1} /\ proc[1] = e /\ Len(proc) = 1 /\ proc \in Seq(Process)
        BY <4>4, <4>5
      <4> QED
        BY <1>5, <4>4, <4>6 DEF ProcOK, Images
    <3> QED
      BY <3>1, <3>2
  <2>6. BreaksOK
    <3>1. mem.kheap_end <= KHEAP_START + KHEAP_INITIAL + MaxHeap
      <4>1. mem.kheap_end = m.kheap_end
        BY <1>1, <2>1 DEF IsMade
      <4> QED
        BY <1>4, <1>5, <4>1
    <3>2. ~mem.panicked => mem.large_alloc_base = BootBase + Len(proc) * KSTACK_PAGES
      <4>1. ~mem.panicked => mem.large_alloc_base = BootBase + KSTACK_PAGES /\ Len(proc) = 1
        BY <1>1, <1>4, <1>8, <2>1, <2>5 DEF IsMade
      <4>2. 1 * KSTACK_PAGES = KSTACK_PAGES
        BY BootBaseFits
      <4> QED
        BY <4>1, <4>2
    <3> QED
      BY <3>1, <3>2 DEF BreaksOK
  <2> QED
    BY <1>6, <2>4, <2>5, <2>6 DEF IInv, RunOK
<1> QED
  BY <1>7, <1>8

LEMMA ImagesStay ==
  ASSUME IInv, Untouched(mem, mem')
  PROVE  \A p \in DOMAIN proc : Image(mem', proc[p])
BY ImagedStays DEF IInv, Images, Image, ProcOK

\* A step on memory that leaves the processes as they are.
LEMMA QuietIInv ==
  ASSUME IInv, ~mem.panicked, Runs(mem, mem'), Untouched(mem, mem'),
         InitStackInReach /\ BootShared(mem) => BootShared(mem'),
         ~mem'.panicked => mem'.large_alloc_base = mem.large_alloc_base,
         mem'.kheap_end <= KHEAP_START + KHEAP_INITIAL + MaxHeap,
         UNCHANGED proc, RunOK'
  PROVE  IInv'
<1>1. MemOK'
  BY DEF IInv, MemOK, Runs
<1>2. ProcOK'
  BY DEF IInv, ProcOK, Runs
<1>3. BreaksOK'
  BY DEF IInv, BreaksOK
<1>4. Images'
  BY ImagesStay DEF Images
<1> QED
  BY <1>1, <1>2, <1>3, <1>4 DEF IInv

\* A panic, or none.
LEMMA PanicRuns ==
  ASSUME NEW m, NEW x \in BOOLEAN, NEW k, k = [m EXCEPT !.panicked = x], Sound(m), ~m.panicked
  PROVE  /\ Runs(m, k) /\ Untouched(m, k) /\ (BootShared(m) => BootShared(k))
         /\ k.large_alloc_base = m.large_alloc_base /\ k.kheap_end = m.kheap_end
<1>1. DOMAIN m = Fields /\ m.panicked \in BOOLEAN /\ Good(m)
  BY DEF Sound, Good, Shape
<1>2. DOMAIN k = Fields /\ k.panicked = x /\ \A y \in Fields \ {"panicked"} : k[y] = m[y]
  BY <1>1 DEF Fields
<1>3. k.bitmap = m.bitmap /\ k.dir = m.dir /\ k.table = m.table /\ k.bytes = m.bytes
      /\ k.kheap_end = m.kheap_end /\ k.large_alloc_base = m.large_alloc_base
  BY <1>2 DEF Fields
<1>4. Good(k)
  BY <1>1, <1>2, <1>3
     DEF Good, Shape, DirsOK, TablesOK, LeavesOK, LeafOnce, SlotOnce, NewTables, Given
<1>5. \A v : Frames(k, v) = Frames(m, v)
  BY <1>3 DEF Frames, Mapped
<1>6. Runs(m, k)
  BY <1>3, <1>4, <1>5, SameFramesRuns
<1>7. Untouched(m, k)
  BY <1>3, UntouchedSame
<1>8. BootShared(m) => BootShared(k)
  BY <1>3 DEF BootShared
<1> QED
  BY <1>3, <1>6, <1>7, <1>8

LEMMA RunningProcess ==
  ASSUME IInv, curr # 0
  PROVE  cr3 \in DOMAIN mem.dir /\ cr3 # kernel_pd
BY DEF IInv, RunOK, ProcOK

LEMMA HeapRoom ==
  ASSUME IInv
  PROVE  /\ mem.kheap_end \in Nat /\ KHEAP_START \in Nat /\ KHEAP_INITIAL \in Nat /\ MaxHeap \in Nat
         /\ LARGE_START \in Nat /\ KHEAP_START + KHEAP_INITIAL + MaxHeap <= LARGE_START
BY AreasAreKernelPages, AddressSpaceAssumption DEF IInv, MemOK, Sound, Laid

LEMMA UnservedIInv == IInv /\ sys_spawn_unserved => IInv'
<1> SUFFICES ASSUME IInv, sys_spawn_unserved PROVE IInv'
  OBVIOUS
<1>1. /\ Sound(mem) /\ ~mem.panicked /\ cr3 \in DOMAIN mem.dir /\ cr3 # kernel_pd
      /\ UNCHANGED <<proc, curr, cr3>> /\ mem' = [mem EXCEPT !.panicked = TRUE]
  BY RunningProcess DEF sys_spawn_unserved, IInv, MemOK
<1>2. RunOK'
  BY <1>1 DEF IInv, RunOK
<1>3. /\ Runs(mem, mem') /\ Untouched(mem, mem') /\ (BootShared(mem) => BootShared(mem'))
      /\ mem'.large_alloc_base = mem.large_alloc_base /\ mem'.kheap_end = mem.kheap_end
  BY <1>1, PanicRuns
<1> QED
  BY <1>1, <1>2, <1>3, QuietIInv DEF IInv, BreaksOK

LEMMA OpenIInv == IInv /\ sys_open => IInv'
<1> SUFFICES ASSUME IInv, sys_open PROVE IInv'
  OBVIOUS
<1>1. Sound(mem) /\ ~mem.panicked /\ cr3 \in DOMAIN mem.dir /\ cr3 # kernel_pd
      /\ UNCHANGED <<proc, curr, cr3>>
  BY RunningProcess DEF sys_open, IInv, MemOK
<1>2. RunOK'
  BY <1>1 DEF IInv, RunOK
<1>3. ASSUME mem.kheap_end < KHEAP_START + KHEAP_INITIAL + MaxHeap, mem' = kmalloc(mem, cr3, TRUE)
      PROVE  IInv'
  <2>1. mem.kheap_end < LARGE_START
    BY <1>3, HeapRoom
  <2>2. IsGrown(mem, mem', cr3, TRUE)
    BY <1>1, <1>3, <2>1, KmallocRuns
  <2>3. mem'.kheap_end \in Nat
    BY <2>2 DEF IsGrown, Runs, Sound, Laid
  <2>4. mem'.kheap_end <= KHEAP_START + KHEAP_INITIAL + MaxHeap
    <3>1. mem'.kheap_end <= mem.kheap_end + 1
      BY <2>2 DEF IsGrown
    <3>2. mem.kheap_end \in Nat /\ KHEAP_START + KHEAP_INITIAL + MaxHeap \in Nat
      BY HeapRoom
    <3>3. mem.kheap_end < KHEAP_START + KHEAP_INITIAL + MaxHeap
      BY <1>3
    <3> QED
      BY ONLY <2>3, <3>1, <3>2, <3>3
  <2> QED
    BY <1>1, <1>2, <2>2, <2>4, QuietIInv DEF IsGrown
<1>4. ASSUME mem' = [mem EXCEPT !.panicked = TRUE] PROVE IInv'
  <2>1. /\ Runs(mem, mem') /\ Untouched(mem, mem') /\ (BootShared(mem) => BootShared(mem'))
        /\ mem'.large_alloc_base = mem.large_alloc_base /\ mem'.kheap_end = mem.kheap_end
    BY <1>1, <1>4, PanicRuns
  <2> QED
    BY <1>1, <1>2, <2>1, QuietIInv DEF IInv, BreaksOK
<1> QED
  BY <1>3, <1>4 DEF sys_open

LEMMA SwitchIInv ==
  ASSUME IInv, NEW next \in {0} \cup DOMAIN proc, scheduler_switch(next)
  PROVE  IInv'
<1>1. Sound(mem) /\ ~mem.panicked /\ UNCHANGED proc /\ curr' = next /\ next # curr
  BY DEF scheduler_switch, IInv, MemOK
<1>2. RunOK'
  <2>1. cr3' = IF next # 0 THEN proc[next].pd ELSE IF curr # 0 THEN kernel_pd ELSE cr3
    BY DEF scheduler_switch
  <2> QED
    BY <1>1, <2>1 DEF RunOK
<1>3. \E x \in BOOLEAN : mem' = [mem EXCEPT !.panicked = x]
  <2>1. mem' = [mem EXCEPT !.panicked = ~StackMapped(mem, curr, cr3') \/ ~StackMapped(mem, next, cr3')]
    BY DEF scheduler_switch
  <2>2. (~StackMapped(mem, curr, cr3') \/ ~StackMapped(mem, next, cr3')) \in BOOLEAN
    OBVIOUS
  <2> QED
    BY <2>1, <2>2
<1>4. /\ Runs(mem, mem') /\ Untouched(mem, mem') /\ (BootShared(mem) => BootShared(mem'))
      /\ mem'.large_alloc_base = mem.large_alloc_base /\ mem'.kheap_end = mem.kheap_end
  BY <1>1, <1>3, PanicRuns
<1> QED
  BY <1>1, <1>2, <1>4, QuietIInv DEF IInv, BreaksOK

LEMMA SpawnIInv ==
  ASSUME IInv, NEW prog \in Program, NEW b \in BOOLEAN, NEW p \in BOOLEAN, sys_spawn(prog, b, p)
  PROVE  IInv'
<1>1. /\ Sound(mem) /\ ~mem.panicked /\ cr3 \in DOMAIN mem.dir /\ cr3 # kernel_pd
      /\ Len(proc) < MaxProc /\ proc \in Seq(Process)
      /\ mem.kheap_end < KHEAP_START + KHEAP_INITIAL + MaxHeap - 1
      /\ mem' = MakeProcess(mem, cr3, prog, b, p)
      /\ proc' = proc \o mem'.new /\ UNCHANGED <<curr, cr3>>
  BY RunningProcess DEF sys_spawn, IInv, MemOK, ProcOK
<1>2. Len(proc) \in 0 .. MaxProc - 1 /\ Len(proc) \in Nat
  BY <1>1, AddressSpaceAssumption
<1>3. mem.kheap_end + 2 <= LARGE_START /\ mem.kheap_end + 2 <= KHEAP_START + KHEAP_INITIAL + MaxHeap
  BY <1>1, HeapRoom
<1>4. mem.large_alloc_base = BootBase + Len(proc) * KSTACK_PAGES
      /\ mem.large_alloc_base + KSTACK_PAGES <= LargeEnd
      /\ mem.large_alloc_base + KSTACK_PAGES = BootBase + (Len(proc) + 1) * KSTACK_PAGES
  BY <1>1, <1>2, BootBaseFits DEF IInv, BreaksOK
<1>5. IsMade(mem, mem', cr3, b \/ p, 2) /\ Untouched(mem, mem')
  <2>1. prog \in Program \cup {Init_program}
    OBVIOUS
  <2> QED
    BY ONLY <1>1, <1>3, <1>4, <2>1, MadeRuns, b \in BOOLEAN, p \in BOOLEAN
<1>6. Runs(mem, mem') /\ Sound(mem') /\ mem'.kheap_end \in Nat
  BY <1>5 DEF IsMade, Runs, Sound, Laid
<1>7. MemOK'
  <2>1. BootShared(mem) => BootShared(mem')
    BY <1>1, <1>5 DEF IsMade, StackSlots
  <2> QED
    BY <1>6, <2>1 DEF IInv, MemOK, Runs
<1>8. /\ ProcOK' /\ Images' /\ DOMAIN proc \subseteq DOMAIN proc'
      /\ \A q \in DOMAIN proc : proc'[q] = proc[q]
      /\ ~mem'.panicked => Len(proc') = Len(proc) + 1
  <2>0. /\ DOMAIN mem.dir \subseteq DOMAIN mem'.dir
        /\ \A q \in DOMAIN proc : proc[q].pd \in DOMAIN mem.dir \ {kernel_pd}
        /\ \A q \in DOMAIN proc : Image(mem', proc[q])
    BY <1>5, <1>6, ImagesStay DEF Runs, IInv, ProcOK
  <2>1. CASE mem'.panicked
    <3>1. mem'.new = <<>>
      BY <1>5, <2>1 DEF IsMade
    <3>2. proc' = proc
      BY <1>1, <3>1
    <3> QED
      BY <2>0, <2>1, <3>2 DEF IInv, ProcOK, Images
  <2>2. CASE ~mem'.panicked
    <3>1. NewProcess(mem')
      BY <1>5, <2>2 DEF IsMade
    <3>2. PICK pd \in DOMAIN mem'.dir \ {kernel_pd}, prg \in Program \cup {Init_program}, stack \in Nat :
            /\ mem'.new = <<[pd |-> pd, prog |-> prg, stack |-> stack]>>
            /\ Imaged(mem', pd, prg.segments, Len(prg.segments))
      BY <3>1 DEF NewProcess
    <3>3. pd \in Nat
      BY <1>6, DirsAreNumbers DEF Sound
    <3> DEFINE e == [pd |-> pd, prog |-> prg, stack |-> stack]
               n == Len(proc)
    <3>4. e \in Process /\ e.pd = pd /\ Image(mem', e)
      BY <3>2, <3>3 DEF Process, Image
    <3>5. proc' = proc \o <<e>>
      BY <1>1, <3>2
    <3> HIDE DEF e
    <3>6. /\ proc' \in Seq(Process) /\ Len(proc') = n + 1 /\ DOMAIN proc = 1 .. n
          /\ DOMAIN proc' = 1 .. n + 1
          /\ \A q \in 1 .. n : proc'[q] = proc[q]
          /\ proc'[n + 1] = e
      BY <1>1, <3>4, <3>5
    <3>7. \A q \in DOMAIN proc' : proc'[q].pd \in DOMAIN mem'.dir \ {kernel_pd} /\ Image(mem', proc'[q])
      <4>1. \A q \in 1 .. n + 1 : q \in 1 .. n \/ q = n + 1
        BY <1>2
      <4> HIDE DEF n
      <4> QED
        BY <2>0, <3>4, <3>6, <4>1
    <3> QED
      BY <1>2, <3>6, <3>7, AddressSpaceAssumption DEF ProcOK, Images
  <2> QED
    BY <2>1, <2>2
<1>9. RunOK'
  BY <1>1, <1>8 DEF IInv, RunOK
<1>10. BreaksOK'
  <2>1. mem'.kheap_end <= KHEAP_START + KHEAP_INITIAL + MaxHeap
    <3>1. mem'.kheap_end <= mem.kheap_end + 2
      BY <1>5 DEF IsMade
    <3> QED
      BY <1>3, <1>6, <3>1, HeapRoom
  <2>2. ~mem'.panicked => mem'.large_alloc_base = BootBase + Len(proc') * KSTACK_PAGES
    BY <1>4, <1>5, <1>8 DEF IsMade
  <2> QED
    BY <2>1, <2>2 DEF BreaksOK
<1> QED
  BY <1>7, <1>8, <1>9, <1>10 DEF IInv

\* The inductive invariant holds.
LEMMA NextIInv == IInv /\ [Next]_vars => IInv'
<1> SUFFICES ASSUME IInv, [Next]_vars PROVE IInv'
  OBVIOUS
<1>1. CASE UNCHANGED vars
  BY <1>1 DEF vars, IInv, MemOK, ProcOK, RunOK, BreaksOK, Images
<1>2. ASSUME NEW prog \in Program, NEW b \in BOOLEAN, NEW p \in BOOLEAN, sys_spawn(prog, b, p)
      PROVE  IInv'
  BY <1>2, SpawnIInv
<1>3. CASE sys_open
  BY <1>3, OpenIInv
<1>4. ASSUME NEW next \in {0} \cup DOMAIN proc, scheduler_switch(next)
      PROVE  IInv'
  BY <1>4, SwitchIInv
<1>5. CASE sys_spawn_unserved
  BY <1>5, UnservedIInv
<1> QED
  BY <1>1, <1>2, <1>3, <1>4, <1>5 DEF Next

LEMMA IInvHolds == Spec => []IInv
BY InitIInv, NextIInv, PTL DEF Spec

-----------------------------------------------------------------------------
(***************************************************************************)
(* The theorems.                                                           *)
(***************************************************************************)
LEMMA SlotIs ==
  ASSUME NEW v \in KernelPages
  PROVE  SlotOf(v) \in Ordinary /\ SlotOf(v) >= KERNEL_SLOT
BY KernelPageIs, PageIs

\* paging.c, pmm.c and uprocess.c leave memory well formed: directories and
\* tables where they belong, the temporary slots empty between system calls.
THEOREM TypeCorrect == Spec => []TypeOK
<1>1. IInv => TypeOK
  <2> SUFFICES ASSUME IInv PROVE TypeOK
    OBVIOUS
  <2>1. Good(mem) /\ Shape(mem) /\ DirsOK(mem) /\ TablesOK(mem)
    BY DEF IInv, MemOK, Sound, Good
  <2>2. mem.panicked \in BOOLEAN /\ mem.bitmap \subseteq 0 .. 8 * bitmap_size - 1
    BY <2>1 DEF Shape
  <2>3. ASSUME NEW d \in DOMAIN mem.dir
        PROVE  /\ mem.dir[d][RECURSIVE_SLOT] = d
               /\ \A s \in {TEMP_PD_SLOT, TEMP_FRAME_SLOT, TEMP_PT_SLOT} : mem.dir[d][s] = 0
               /\ \A s \in Slot \ {RECURSIVE_SLOT} : mem.dir[d][s] \in {0} \cup DOMAIN mem.table
    BY <2>1, Layout DEF DirsOK, Special, Ordinary
  <2>4. \A t \in DOMAIN mem.table : mem.table[t] \in [Index -> Nat]
    BY <2>1 DEF TablesOK
  <2>5. \A f \in DOMAIN mem.bytes : f \in Frame
    BY <2>1, PoolIsFrames, MemorySizes DEF Shape, Given, Frame
  <2>6. curr \in {0} \cup DOMAIN proc /\ cr3 = IF curr = 0 THEN kernel_pd ELSE proc[curr].pd
    BY DEF IInv, RunOK
  <2> QED
    BY <2>2, <2>3, <2>4, <2>5, <2>6 DEF TypeOK
<1> QED
  BY <1>1, IInvHolds, PTL

\* pmm_alloc_frame never hands out a frame twice, nor one of the kernel's, and
\* no process reaches the tables of another.  That the frames are RAM is for a
\* memory map whose usable entries end where a page does (RegionsAreWhole).
THEOREM OneUse == RegionsAreWhole => (Spec => []FramesHaveOneUse)
<1> SUFFICES ASSUME RegionsAreWhole PROVE Spec => []FramesHaveOneUse
  OBVIOUS
<1>1. IInv => FramesHaveOneUse
  <2> SUFFICES ASSUME IInv PROVE FramesHaveOneUse
    OBVIOUS
  <2> DEFINE new_dirs   == DOMAIN mem.dir \ {kernel_pd}
             new_tables == DOMAIN mem.table \ {page_table_low}
             backed     == {Leaf(x) : x \in Leaves} \ Marked(Framebuffer.addr, Framebuffer.size)
             handed_out == new_dirs \cup new_tables \cup backed
  <2>1. Shape(mem) /\ DirsOK(mem) /\ LeavesOK(mem) /\ LeafOnce(mem) /\ SlotOnce(mem)
        /\ mem.dir[kernel_pd][0] = 0
    BY DEF IInv, MemOK, Sound, Good
  <2>2. \A x \in Leaves : /\ x = <<x[1], x[2]>> /\ x[1] \in NewTables(mem) /\ x[2] \in Index
                          /\ Leaf(x) = mem.table[x[1]][x[2]] /\ Leaf(x) # 0
    BY DEF Leaves, Leaf, NewTables
  <2>3. \A x, y \in Leaves : Leaf(x) = Leaf(y) => x = y
    BY <2>1, <2>2 DEF LeafOnce
  <2>4. new_dirs \subseteq Given(mem) /\ new_tables \subseteq Given(mem)
        /\ new_dirs \cap new_tables = {}
    BY <2>1 DEF Shape
  <2>5. backed \subseteq Given(mem) \ (DOMAIN mem.dir \cup DOMAIN mem.table)
    <3> SUFFICES ASSUME NEW x \in Leaves, Leaf(x) \notin Fb
                 PROVE  Leaf(x) \in Given(mem) \ (DOMAIN mem.dir \cup DOMAIN mem.table)
      BY DEF Fb
    <3> QED
      BY <2>1, <2>2 DEF LeavesOK
  <2> HIDE DEF backed, new_dirs, new_tables
  <2>6. backed \cap (new_dirs \cup new_tables) = {}
    BY <2>5 DEF new_dirs, new_tables
  <2>7. handed_out \subseteq Given(mem)
    BY <2>4, <2>5
  <2> HIDE DEF handed_out
  <2>8. handed_out \subseteq mem.bitmap \cap Ram /\ handed_out \cap KernelFrames = {}
    BY <2>7, PoolApart, PoolIsRam DEF Given
  <2>9. ASSUME NEW d \in DOMAIN mem.dir, NEW e \in DOMAIN mem.dir,
               NEW s \in 0 .. KERNEL_SLOT - 1, NEW r \in Slot,
               mem.dir[d][s] # 0, mem.dir[d][s] = mem.dir[e][r]
        PROVE  d = e /\ s = r
    <3>1. s \in Ordinary /\ s < KERNEL_SLOT
      BY Layout DEF Ordinary, Slot
    <3>2. mem.dir[d][s] \in DOMAIN mem.table
      BY <2>1, <2>9, <3>1 DEF DirsOK
    <3>3. r \in Ordinary
      <4>1. r # RECURSIVE_SLOT
        BY <2>1, <2>9, <3>2 DEF DirsOK, Shape
      <4>2. r \notin Special \ {RECURSIVE_SLOT}
        BY <2>1, <2>9 DEF DirsOK
      <4> QED
        BY <4>1, <4>2 DEF Ordinary
    <3>4. Counts(d, s) /\ Counts(e, r)
      BY <2>1, <2>9 DEF Counts
    <3> QED
      BY <2>1, <2>9, <3>1, <3>3, <3>4 DEF SlotOnce
  <2> QED
    BY <2>3, <2>4, <2>6, <2>8, <2>9
       DEF FramesHaveOneUse, backed, new_dirs, new_tables, handed_out
<1> QED
  BY <1>1, IInvHolds, PTL

LEMMA FramesAreMapped ==
  ASSUME NEW v
  PROVE  /\ \A d \in MappedIn(v) : Mapped(mem, d, v) \in Frames(mem, v)
         /\ Frames(mem, v) # {} => MappedIn(v) # {}
BY DEF MappedIn, Frames

\* Directories are copies made at different times (uprocess_create_pagedir), and
\* map_page changes one of them alone; a page of the kernel is still never two
\* frames, and all below the two breaks is there, once kmain has come to its end.
THEOREM PagesAgree == ~Booted.panicked => (Spec => []KernelPagesAgree)
<1> SUFFICES ASSUME ~Booted.panicked PROVE Spec => []KernelPagesAgree
  OBVIOUS
<1>1. IInv => KernelPagesAgree
  <2> SUFFICES ASSUME IInv PROVE KernelPagesAgree
    OBVIOUS
  <2>1. Agree(mem) /\ Filled(mem)
    BY DEF IInv, MemOK, Sound
  <2>2. \A v \in KernelPages : \A d, e \in MappedIn(v) : Mapped(mem, d, v) = Mapped(mem, e, v)
    BY <2>1, FramesAreMapped DEF Agree, One
  <2>3. \A v \in Below(mem) : MappedIn(v) # {}
    BY <2>1, FramesAreMapped DEF Filled
  <2> QED
    BY <2>2, <2>3 DEF KernelPagesAgree, Below
<1> QED
  BY <1>1, IInvHolds, PTL

\* What lies under the tables that kmain made is reachable from every process,
\* if the stack of init's thread is the last page under one of them: init's
\* directory is made before that stack is mapped, and a table that the stack
\* needed would be missing in it.
THEOREM SlotsReachAll == InitStackInReach => (Spec => []BootSlotsReachAll)
<1> SUFFICES ASSUME InitStackInReach PROVE Spec => []BootSlotsReachAll
  OBVIOUS
<1>1. IInv => BootSlotsReachAll
  <2> SUFFICES ASSUME IInv, NEW v \in KernelPages, mem.dir[kernel_pd][SlotOf(v)] # 0
               PROVE  MappedIn(v) \in {{}, DOMAIN mem.dir}
    BY DEF BootSlotsReachAll
  <2>1. BootShared(mem) /\ kernel_pd \in DOMAIN mem.dir
    BY DEF IInv, MemOK, Sound, Good, Shape
  <2>2. \A d \in DOMAIN mem.dir : mem.dir[d][SlotOf(v)] = mem.dir[kernel_pd][SlotOf(v)]
    BY <2>1, SlotIs DEF BootShared
  <2>3. \A d \in DOMAIN mem.dir : Mapped(mem, d, v) = Mapped(mem, kernel_pd, v)
    BY <2>2 DEF Mapped
  <2> QED
    BY <2>3 DEF MappedIn
<1> QED
  BY <1>1, IInvHolds, PTL

\* The page of a segment's byte is one that the segment is loaded to.
LEMMA BytesPage ==
  ASSUME NEW seg \in [vaddr : Nat, filesz : Nat, memsz : Nat, offset : Nat],
         NEW a \in seg.vaddr .. SegEnd(seg) - 1
  PROVE  a \in Nat /\ a \div PAGE_SIZE \in Nat /\ a \div PAGE_SIZE \in PagesOf(seg)
<1> DEFINE E == SegEnd(seg)
           v == a \div PAGE_SIZE
           first == seg.vaddr \div PAGE_SIZE
           last == (E - 1) \div PAGE_SIZE
           c == last - first + 1
           pages == SegPages(seg)
           x == v - first + 1
<1>1. PAGE_SIZE \in Nat \ {0}
  BY MemorySizes
<1>2. seg.vaddr \in Nat /\ E \in Nat
  BY SegEndNat
<1>3. a \in Nat /\ seg.vaddr <= a /\ a <= E - 1 /\ E - 1 \in Nat
  BY <1>2
<1>4. pages = IF last < first THEN <<>> ELSE [i \in 1 .. c |-> first + i - 1]
  BY DEF SegPages
<1> HIDE DEF E
<1>5. \A y \in Nat : /\ y \div PAGE_SIZE \in Nat
                     /\ \A q \in Nat : PAGE_SIZE * q <= y <=> q <= y \div PAGE_SIZE
                     /\ PAGE_SIZE * (y \div PAGE_SIZE) <= y
  BY <1>1, Division, DivisionOrder
<1>6. v \in Nat /\ PAGE_SIZE * v \in Nat /\ PAGE_SIZE * v <= a
  <2>1. v \in Nat /\ PAGE_SIZE * v <= a
    BY ONLY <1>3, <1>5
  <2> HIDE DEF v
  <2> QED
    BY <1>1, <2>1
<1>7. first \in Nat /\ PAGE_SIZE * first \in Nat /\ PAGE_SIZE * first <= seg.vaddr
  <2>1. first \in Nat /\ PAGE_SIZE * first <= seg.vaddr
    BY ONLY <1>2, <1>5
  <2> HIDE DEF first
  <2> QED
    BY <1>1, <2>1
<1>8. last \in Nat
  BY ONLY <1>3, <1>5, Zenon
<1>9. first <= v
  <2>1. PAGE_SIZE * first <= a
    BY ONLY <1>2, <1>3, <1>7
  <2> QED
    BY ONLY <1>3, <1>5, <1>7, <2>1
<1>10. v <= last
  <2>1. PAGE_SIZE * v <= E - 1
    BY ONLY <1>3, <1>6
  <2> QED
    BY ONLY <1>3, <1>5, <1>6, <2>1, Zenon
<1> HIDE DEF v, first, last, pages
<1>11. x \in 1 .. c /\ first + x - 1 = v
  BY <1>6, <1>7, <1>8, <1>9, <1>10
<1>12. x \in DOMAIN pages /\ pages[x] = v
  <2>1. ~(last < first)
    BY <1>6, <1>7, <1>8, <1>9, <1>10
  <2> HIDE DEF c, x
  <2> QED
    BY <1>4, <1>11, <2>1
<1>13. v \in Range(pages)
  BY <1>12 DEF Range
<1> QED
  BY <1>3, <1>6, <1>13 DEF PagesOf, pages, v

\* What uprocess_load puts there is the file's byte, or zero after its end.
LEMMA BytesByte ==
  ASSUME NEW seg \in [vaddr : Nat, filesz : Nat, memsz : Nat, offset : Nat], NEW a \in Nat,
         seg.vaddr <= a
  PROVE  PageBytes(seg, a \div PAGE_SIZE)[a % PAGE_SIZE]
           = IF a - seg.vaddr < seg.filesz THEN seg.offset + (a - seg.vaddr) ELSE 0
<1> DEFINE v == a \div PAGE_SIZE
           b == a % PAGE_SIZE
           start == v * PAGE_SIZE
           end == start + PAGE_SIZE
           eof == seg.vaddr + seg.filesz
           from == Max({start, seg.vaddr})
           to == Min({end, eof})
<1>1. PAGE_SIZE \in Nat \ {0} /\ seg.vaddr \in Nat /\ seg.filesz \in Nat /\ seg.offset \in Nat
  BY MemorySizes
<1>2. v \in Nat /\ b \in Nat /\ b < PAGE_SIZE /\ a = PAGE_SIZE * v + b /\ PAGE_SIZE * v = v * PAGE_SIZE
  BY <1>1, Division
<1>3. PageBytes(seg, v)[b] =
        IF end <= seg.vaddr \/ start >= eof \/ b \notin from - start .. to - start - 1 THEN 0
        ELSE seg.offset + (from - seg.vaddr) + (b - (from - start))
  BY <1>1, <1>2 DEF PageBytes
<1>4. start \in Nat
  BY <1>1, <1>2
<1> HIDE DEF v, b, start
<1>5. a = start + b
  BY <1>2 DEF start
<1>6. end \in Nat /\ eof \in Nat /\ a < end
  BY <1>1, <1>2, <1>4, <1>5
<1>7. from \in {start, seg.vaddr} /\ start <= from /\ seg.vaddr <= from
  BY <1>1, <1>4, MaxOfTwo
<1>8. to \in {end, eof} /\ to <= end /\ to <= eof
  <2> DEFINE T == {end, eof}
  <2>1. T \subseteq Nat /\ T # {} /\ end \in T /\ eof \in T
    BY <1>6
  <2> HIDE DEF T, end, eof
  <2>2. Min(T) \in T /\ \A y \in T : Min(T) <= y
    BY <2>1, MinIsLeast
  <2> QED
    BY <2>1, <2>2 DEF T
<1> HIDE DEF from, to
<1>9. from \in Nat /\ to \in Nat /\ from <= a
  BY <1>1, <1>2, <1>4, <1>5, <1>6, <1>7, <1>8
<1>10. CASE a < eof
  <2>1. a < to
    BY <1>6, <1>8, <1>10
  <2>2. b \in from - start .. to - start - 1
    BY <1>2, <1>4, <1>5, <1>9, <2>1
  <2>3. ~(end <= seg.vaddr) /\ ~(start >= eof)
    BY <1>1, <1>2, <1>4, <1>5, <1>6, <1>10
  <2>4. PageBytes(seg, v)[b] = seg.offset + (from - seg.vaddr) + (b - (from - start))
    BY <1>3, <2>2, <2>3
  <2>5. seg.offset + (from - seg.vaddr) + (b - (from - start)) = seg.offset + (a - seg.vaddr)
    BY <1>1, <1>2, <1>4, <1>5, <1>9
  <2>6. a - seg.vaddr < seg.filesz
    BY <1>1, <1>10
  <2> QED
    BY <2>4, <2>5, <2>6 DEF v, b
<1>11. CASE ~(a < eof)
  <2>1. b \notin from - start .. to - start - 1
    BY <1>2, <1>4, <1>5, <1>6, <1>8, <1>9, <1>11
  <2>2. ~(a - seg.vaddr < seg.filesz)
    BY <1>1, <1>11
  <2>3. PageBytes(seg, v)[b] = 0
    BY <1>3, <2>1
  <2> QED
    BY <2>2, <2>3 DEF v, b
<1> QED
  BY <1>10, <1>11

\* A process finds its program in memory: the file's bytes, then zeros, at every
\* address of every segment that no later segment and not the stack is loaded
\* over (uprocess_load), whatever has been spawned, mapped or copied since.
THEOREM ImagesLoad == Spec => []ImageLoaded
<1>1. IInv => ImageLoaded
  <2> SUFFICES ASSUME IInv, NEW p \in DOMAIN proc, NEW segs, segs = proc[p].prog.segments,
                      NEW i \in DOMAIN segs, NEW a \in segs[i].vaddr .. SegEnd(segs[i]) - 1,
                      \A j \in i + 1 .. Len(segs) : a \div PAGE_SIZE \notin Range(SegPages(segs[j])),
                      a \div PAGE_SIZE < USER_STACK_TOP - 2
               PROVE  ByteAt(proc[p].pd, a) = IF a - segs[i].vaddr < segs[i].filesz
                                              THEN segs[i].offset + (a - segs[i].vaddr) ELSE 0
    BY DEF ImageLoaded
  <2> DEFINE T == [vaddr : Nat, filesz : Nat, memsz : Nat, offset : Nat]
             v == a \div PAGE_SIZE
             pd == proc[p].pd
  <2>1. Image(mem, proc[p]) /\ proc[p].prog \in Program \cup {Init_program}
    <3>1. Image(mem, proc[p])
      BY DEF IInv, Images
    <3>2. proc \in Seq(Process)
      BY DEF IInv, ProcOK
    <3>3. proc[p] \in Process
      BY <3>2
    <3> QED
      BY <3>1, <3>3 DEF Process
  <2>2. segs \in Seq(T)
    BY <2>1, AddressSpaceAssumption
  <2> HIDE DEF T
  <2>3. i \in 1 .. Len(segs) /\ segs[i] \in T
    BY <2>2
  <2>4. a \in Nat /\ v \in Nat /\ v \in PagesOf(segs[i]) /\ segs[i].vaddr <= a
    BY <2>3, BytesPage DEF T
  <2>5. v \in UserPages
    BY <2>4, UserPagesApart, AddressSpaceAssumption DEF UserPages
  <2>6. Holds(mem, pd, v, PageBytes(segs[i], v))
    <3>1. Imaged(mem, pd, segs, Len(segs))
      BY <2>1 DEF Image
    <3>2. \A j \in i + 1 .. Len(segs) : v \notin PagesOf(segs[j])
      BY DEF PagesOf
    <3> QED
      BY ONLY <2>3, <2>4, <2>5, <3>1, <3>2, a \div PAGE_SIZE < USER_STACK_TOP - 2 DEF Imaged
  <2>7. ByteAt(pd, a) = PageBytes(segs[i], v)[a % PAGE_SIZE]
    BY <2>6 DEF ByteAt, Holds
  <2> QED
    BY <2>3, <2>4, <2>7, BytesByte DEF T
<1> QED
  BY <1>1, IInvHolds, PTL
===============================================================================
