-------------------------------- MODULE KHeap --------------------------------
(***************************************************************************)
(* The kernel heap of src/memory/kheap.c: a doubly linked list of blocks,  *)
(* a header in front of each, first fit from free_head on, growth by one   *)
(* page at the end.                                                        *)
(*                                                                         *)
(* kmalloc is only called by kmain and by system calls that have not       *)
(* enabled interrupts: nothing runs between its steps, which here are the  *)
(* search and each growth.  kfree is called the same way, except by a      *)
(* sys_wait that has blocked: it runs with interrupts on, and the timer    *)
(* may switch to a thread that allocates or frees in the middle of it.     *)
(* kfree(NULL) returns at once and is left out.                            *)
(***************************************************************************)
EXTENDS Integers, FiniteSetsExt

CONSTANTS
  Thread,
  HDR,             \* sizeof(k_heap_block_t)
  PAGE_SIZE,
  InitialPages,    \* KHEAP_INITIAL_SIZE / PAGE_SIZE
  MaxPages,        \* bound: after that many pmm_alloc_frame panics
  Sizes,           \* the sizes callers ask for
  Preemptible      \* whether kfree may run with interrupts on

ASSUME KHeapAssumption ==
  /\ HDR \in Nat \ {0} /\ PAGE_SIZE \in Nat /\ HDR < PAGE_SIZE
  /\ InitialPages \in Nat \ {0} /\ MaxPages \in Nat /\ InitialPages <= MaxPages
  /\ Sizes \subseteq Nat \ {0}
  /\ Preemptible \in BOOLEAN

VARIABLES
  hdr,          \* the headers in memory, by address
  free_head,
  kheap_end,
  live,         \* what callers hold: the address and size of each allocation
  at,           \* where a thread stands in kmalloc or kfree
  block,        \* kfree's block
  want,         \* kmalloc's size
  panicked

vars == <<hdr, free_head, kheap_end, live, at, block, want, panicked>>

NULL        == 0
kheap_start == PAGE_SIZE
PageEnd(n)  == kheap_start + n * PAGE_SIZE
Addr        == kheap_start..PageEnd(MaxPages) - 1
MaxBlocks   == Cardinality(Addr) \div (HDR + 1)
head        == kheap_start

Header(size, prev, next) ==
  [size |-> size, free |-> TRUE, prev |-> prev, next |-> next]

NoHeader == [size |-> 0, free |-> FALSE, prev |-> NULL, next |-> NULL]

\* A block that was merged away keeps its header in memory, which matters to a
\* preempted kfree only: without preemption nobody reads it, and it is dropped.
Drop(h, b) == IF Preemptible THEN h ELSE [h EXCEPT ![b] = NoHeader]

(***************************************************************************)
(* Walks along next.  Chain(h, b)[i] is the i-th block from b on.          *)
(***************************************************************************)
Chain(h, b) ==
  LET c[i \in 0..MaxBlocks] ==
        IF i = 0 THEN b ELSE IF c[i - 1] = NULL THEN NULL ELSE h[c[i - 1]].next
  IN  c

Blocks == LET c == Chain(hdr, head) IN {c[i] : i \in 0..MaxBlocks} \ {NULL}

\* The first block from b on that is free and has room for n bytes, or NULL.
FirstFrom(h, b, n) ==
  LET c == Chain(h, b)
      fits == {i \in 0..MaxBlocks : c[i] # NULL /\ h[c[i]].free /\ h[c[i]].size >= n}
  IN  IF fits = {} THEN NULL ELSE c[Min(fits)]

\* A slip: the walk looks at sizes only and may find a block in use.
FirstFitAny(n) ==
  LET c == Chain(hdr, free_head)
      fits == {i \in 0..MaxBlocks : c[i] # NULL /\ hdr[c[i]].size >= n}
  IN  IF fits = {} THEN NULL ELSE c[Min(fits)]

FirstFit(n) == FirstFrom(hdr, free_head, n)

Tail == CHOOSE b \in Blocks : hdr[b].next = NULL

\* Interrupts are off except in a preemptible kfree.
MayRun(t) ==
  /\ ~panicked
  /\ \A u \in Thread \ {t} :
       at[u] = "idle" \/ (Preemptible /\ at[u] \in {"next", "prev", "head"})

------------------------------------------------------------------------------
(***************************************************************************)
(* kmalloc.  A block with room for another header and a byte is split; a   *)
(* smaller rest stays behind the block, where no list knows of it.         *)
(***************************************************************************)
Split(b, n) ==
  LET new  == b + HDR + n
      rest == Header(hdr[b].size - n - HDR, b, hdr[b].next)
      h    == [hdr EXCEPT ![new] = rest, ![b].next = new]
  IN  IF hdr[b].next = NULL THEN h ELSE [h EXCEPT ![hdr[b].next].prev = new]

Splits(b, n) == hdr[b].size >= n + HDR + 1

Carve(b, n) ==
  [(IF Splits(b, n) THEN Split(b, n) ELSE hdr) EXCEPT ![b].size = n, ![b].free = FALSE]

kmalloc_found(t, b, n) ==
  LET h == Carve(b, n) IN
  /\ hdr' = h
  /\ free_head' = IF b = free_head THEN FirstFrom(h, h[b].next, 0) ELSE free_head
  /\ live' = live \cup {[addr |-> b + HDR, size |-> n]}
  /\ at' = [at EXCEPT ![t] = "idle"]
  /\ UNCHANGED <<kheap_end, block, want, panicked>>

\* No block fits: map one more page, link it as a block, and call kmalloc anew.
\* A slip: the tail is not linked to the new block.
LinkTailForgotten(new) == [hdr EXCEPT ![new] = Header(PAGE_SIZE - HDR, Tail, NULL)]

LinkTail(new) ==
  [hdr EXCEPT ![new] = Header(PAGE_SIZE - HDR, Tail, NULL), ![Tail].next = new]

kmalloc_grow(t, n) ==
  IF kheap_end = PageEnd(MaxPages)
  THEN panicked' = TRUE /\ UNCHANGED <<hdr, free_head, kheap_end, live, at, block, want>>
  ELSE /\ hdr' = LinkTail(kheap_end)
       /\ kheap_end' = kheap_end + PAGE_SIZE
       /\ free_head' = IF free_head = NULL THEN kheap_end ELSE free_head
       /\ at' = [at EXCEPT ![t] = "grow"]
       /\ want' = [want EXCEPT ![t] = n]
       /\ UNCHANGED <<live, block, panicked>>

kmalloc(t, n) ==
  /\ MayRun(t)
  /\ at[t] = "idle" \/ (at[t] = "grow" /\ want[t] = n)
  /\ IF FirstFit(n) # NULL THEN kmalloc_found(t, FirstFit(n), n)
                           ELSE kmalloc_grow(t, n)

------------------------------------------------------------------------------
(***************************************************************************)
(* kfree: mark the block free, merge it with the block behind it and then  *)
(* with the one before it, and move free_head back.                        *)
(***************************************************************************)
Free(b) == b # NULL /\ hdr[b].free

kfree(t, r) ==
  LET b == r.addr - HDR IN
  /\ MayRun(t)
  /\ at[t] = "idle"
  /\ live' = live \ {r}
  /\ IF hdr[b].free
     THEN UNCHANGED <<hdr, at, block>>
     ELSE /\ hdr' = [hdr EXCEPT ![b].free = TRUE]
          /\ at' = [at EXCEPT ![t] = "next"]
          /\ block' = [block EXCEPT ![t] = b]
  /\ UNCHANGED <<free_head, kheap_end, want, panicked>>

\* b takes in the block next, which lies behind it.
\* A slip: the back link of the block after that is left alone.
MergedOneWay(b, next) ==
  Drop([hdr EXCEPT ![b].size = @ + HDR + hdr[next].size, ![b].next = hdr[next].next], next)

Merged(b, next) ==
  LET h == Drop([hdr EXCEPT ![b].size = @ + HDR + hdr[next].size,
                            ![b].next = hdr[next].next], next)
  IN  IF h[b].next = NULL THEN h ELSE [h EXCEPT ![h[b].next].prev = b]

kfree_next(t) ==
  /\ MayRun(t)
  /\ at[t] = "next"
  /\ LET b == block[t] IN
     hdr' = IF Free(hdr[b].next) THEN Merged(b, hdr[b].next) ELSE hdr
  /\ at' = [at EXCEPT ![t] = "prev"]
  /\ UNCHANGED <<free_head, kheap_end, live, block, want, panicked>>

\* A slip: no look at the block before.
PrevNever(b) == FALSE

MergesBack(b) == Free(hdr[b].prev)

kfree_prev(t) ==
  LET b == block[t]
      prev == hdr[b].prev
  IN
  /\ MayRun(t)
  /\ at[t] = "prev"
  /\ IF MergesBack(b)
     THEN /\ hdr' = Merged(prev, b)
          /\ block' = [block EXCEPT ![t] = prev]
     ELSE UNCHANGED <<hdr, block>>
  /\ at' = [at EXCEPT ![t] = "head"]
  /\ UNCHANGED <<free_head, kheap_end, live, want, panicked>>

\* A slip: free_head moves back only when there is none.
BeforeHeadNever(b) == free_head = NULL

BeforeHead(b) == free_head = NULL \/ b < free_head

kfree_head(t) ==
  /\ MayRun(t)
  /\ at[t] = "head"
  /\ free_head' = IF BeforeHead(block[t]) THEN block[t] ELSE free_head
  /\ at' = [at EXCEPT ![t] = "idle"]
  /\ UNCHANGED <<hdr, kheap_end, live, block, want, panicked>>

------------------------------------------------------------------------------
\* kheap_init: one free block.
Init ==
  /\ hdr = [a \in Addr |->
              IF a = head THEN Header(InitialPages * PAGE_SIZE - HDR, NULL, NULL)
              ELSE NoHeader]
  /\ free_head = head
  /\ kheap_end = PageEnd(InitialPages)
  /\ live = {}
  /\ at = [t \in Thread |-> "idle"]
  /\ block = [t \in Thread |-> NULL]
  /\ want = [t \in Thread |-> 0]
  /\ panicked = FALSE

Next ==
  \E t \in Thread :
    \/ \E n \in Sizes : kmalloc(t, n)
    \/ \E r \in live : kfree(t, r)
    \/ kfree_next(t)
    \/ kfree_prev(t)
    \/ kfree_head(t)

Spec == Init /\ [][Next]_vars

------------------------------------------------------------------------------
(***************************************************************************)
(* Properties.                                                             *)
(***************************************************************************)

\* The type invariant: pointers are NULL or point into the heap's pages.
TypeOK ==
  /\ \A b \in Addr : /\ hdr[b].size \in 0..PageEnd(MaxPages)
                     /\ hdr[b].free \in BOOLEAN
                     /\ {hdr[b].prev, hdr[b].next} \subseteq Addr \cup {NULL}
  /\ free_head \in Addr \cup {NULL}
  /\ kheap_end \in {PageEnd(n) : n \in InitialPages..MaxPages}
  /\ at \in [Thread -> {"idle", "grow", "next", "prev", "head"}]
  /\ block \in [Thread -> Addr \cup {NULL}]
  /\ want \in [Thread -> Sizes \cup {0}]
  /\ panicked \in BOOLEAN

Quiet == \A t \in Thread : at[t] = "idle"

\* The list of blocks is sorted by address, each block ends before the next one
\* begins and points back to it, and the allocations are just the blocks that
\* are not free: the invariant that the splits and merges keep.
ListTilesHeap ==
  /\ \A b \in Blocks :
       LET next == hdr[b].next IN
       /\ b + HDR + hdr[b].size <= (IF next = NULL THEN kheap_end ELSE next)
       /\ next # NULL => hdr[next].prev = b
  /\ {[addr |-> b + HDR, size |-> hdr[b].size] : b \in {c \in Blocks : ~hdr[c].free}} = live

\* free_head is the first free block: the search that starts there misses none.
FreeHeadIsFirst == Quiet => free_head = FirstFrom(hdr, head, 0)

\* Neighbouring free blocks have been merged, except where one of the pages
\* that kmalloc appended begins: it is never merged with a free block that
\* ends before it until one of the two is used and freed again.
Coalesced ==
  Quiet => \A b \in Blocks :
             Free(b) /\ Free(hdr[b].next) =>
               hdr[b].next \in {PageEnd(n) : n \in InitialPages..MaxPages}

\* A request that fits a page is served after one growth at most: the recursion
\* of kmalloc ends.  (A larger one maps page after page until memory is used
\* up, because the new pages are not merged.)
OnePageIsEnough ==
  [][ \A t \in Thread : at[t] = "grow" /\ want[t] <= PAGE_SIZE - HDR => at'[t] = "idle" ]_vars

\* The heap implements Allocator: no two allocations share a byte.
Heap == INSTANCE Allocator WITH First <- kheap_start, Last <- PageEnd(MaxPages) - 1

ImplementsAllocator == Heap!Spec

==============================================================================
