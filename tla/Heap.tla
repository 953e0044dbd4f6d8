-------------------------------- MODULE Heap --------------------------------
(***************************************************************************)
(* The kernel heap of malloc.c: blocks with a header in front of the data, *)
(* first fit, split on malloc, merge of neighbours on free.                *)
(*                                                                         *)
(* heap maps the address of every header on the list to its size and free  *)
(* fields.  The list is in address order and next is the following address *)
(* of the map: a split inserts the new header behind the old one, a merge  *)
(* unlinks the following one.  Addresses count from HEAP_START.  magic is  *)
(* left out: only malloc.c writes headers, and callers stay inside what    *)
(* they were given.                                                        *)
(***************************************************************************)
EXTENDS Integers, FiniteSetsExt

CONSTANTS HEAP_SIZE,   \* 0x400000
          HEADER_SIZE, \* sizeof(Block), 16
          MIN_SPLIT,   \* 32
          ALIGN,       \* 8
          WORD,        \* 2^32, the range of size_t
          Requests,    \* the sizes callers ask for
          Counts,      \* the counts they pass to calloc
          CmdSizes     \* the four sizes of cmd_heap: 1024, 256, 512, 128

ASSUME HeapAssumption ==
  /\ HEAP_SIZE \in Nat /\ MIN_SPLIT \in Nat
  /\ HEADER_SIZE \in Nat \ {0} /\ ALIGN \in Nat \ {0}
  /\ HEADER_SIZE =< HEAP_SIZE
  /\ HEAP_SIZE + HEADER_SIZE + MIN_SPLIT < WORD /\ WORD \in Nat
  /\ HEAP_SIZE % ALIGN = 0 /\ HEADER_SIZE % ALIGN = 0 /\ WORD % ALIGN = 0
  /\ Requests \subseteq 0..(WORD - 1)
  /\ Counts \subseteq Nat
  /\ CmdSizes \in [1..4 -> 0..(WORD - 1)]

VARIABLES heap_ready, heap,
          asked   \* history: what the caller asked for, per pointer in use

heapvars == <<heap_ready, heap, asked>>

Null == 0
Limit == WORD - ALIGN

NoBlocks == [a \in {} |-> [size |-> 0, free |-> TRUE]]

Addresses == 0..(HEAP_SIZE - HEADER_SIZE)
Block == [size : 0..(HEAP_SIZE - HEADER_SIZE), free : BOOLEAN]

End(h, a) == a + HEADER_SIZE + h[a].size

\* (size + 7) & ~7 on 32 bits.
align(n) == ((n + ALIGN - 1) % WORD) - (((n + ALIGN - 1) % WORD) % ALIGN)

-----------------------------------------------------------------------------
(* The algorithms.                                                          *)

\* Mutant of FitsIn: blocks in use count as well.
FitsIn_InUse(h, n) == {a \in DOMAIN h : h[a].size >= n}

FitsIn(h, n) == {a \in DOMAIN h : h[a].free /\ h[a].size >= n}

\* malloc once it has found block a for n bytes: split or take it whole.
TakeBlock(h, a, n) ==
  LET rest == a + HEADER_SIZE + n IN
  IF h[a].size >= n + HEADER_SIZE + MIN_SPLIT
  THEN [x \in DOMAIN h \cup {rest} |->
          IF x = a THEN [size |-> n, free |-> FALSE]
          ELSE IF x = rest
          THEN [size |-> h[a].size - n - HEADER_SIZE, free |-> TRUE]
          ELSE h[x]]
  ELSE [h EXCEPT ![a] = [size |-> h[a].size, free |-> FALSE]]

malloc(h, n) ==
  IF n = 0 \/ FitsIn(h, align(n)) = {}
  THEN [heap |-> h, ptr |-> Null]
  ELSE LET a == Min(FitsIn(h, align(n)))
       IN  [heap |-> TakeBlock(h, a, align(n)), ptr |-> a + HEADER_SIZE]

\* merge_free walks the list and lets a free block absorb the free blocks
\* behind it: what stays on the list is what has no free block in front.
Absorbed(h) ==
  {b \in DOMAIN h : h[b].free /\ \E a \in DOMAIN h : h[a].free /\ End(h, a) = b}

Kept(h) == DOMAIN h \ Absorbed(h)

NextKept(h, a) == Min({b \in Kept(h) \cup {HEAP_SIZE} : b > a})

\* Mutant of merge_free: the walk moves on after every merge.
merge_free_Once(h) ==
  LET stays == {b \in DOMAIN h :
                  \/ b \notin Absorbed(h)
                  \/ \E a \in Absorbed(h) : End(h, a) = b}
      next(a) == Min({b \in stays \cup {HEAP_SIZE} : b > a})
  IN [a \in stays |->
        IF h[a].free
        THEN [size |-> next(a) - a - HEADER_SIZE, free |-> TRUE]
        ELSE h[a]]

merge_free(h) ==
  [a \in Kept(h) |->
     IF h[a].free
     THEN [size |-> NextKept(h, a) - a - HEADER_SIZE, free |-> TRUE]
     ELSE h[a]]

\* Mutant of free: no merge.
free_NoMerge(h, p) ==
  IF p = Null THEN h
  ELSE [h EXCEPT ![p - HEADER_SIZE] =
          [size |-> h[p - HEADER_SIZE].size, free |-> TRUE]]

free(h, p) ==
  IF p = Null THEN h
  ELSE merge_free([h EXCEPT ![p - HEADER_SIZE] =
                     [size |-> h[p - HEADER_SIZE].size, free |-> TRUE]])

\* The heap command: three blocks, the second freed, a fourth taken, the rest
\* freed.
cmd_heap(h) ==
  LET a == malloc(h, CmdSizes[1])
      b == malloc(a.heap, CmdSizes[2])
      c == malloc(b.heap, CmdSizes[3])
      d == malloc(free(c.heap, b.ptr), CmdSizes[4])
  IN free(free(free(d.heap, a.ptr), c.ptr), d.ptr)

Live(h) == {a \in DOMAIN h : ~h[a].free}

Pointers == {a + HEADER_SIZE : a \in Live(heap)}

-----------------------------------------------------------------------------
(* The calls.                                                               *)

HeapInit == heap_ready = FALSE /\ heap = NoBlocks /\ asked = [p \in {} |-> 0]

heap_init ==
  /\ ~heap_ready
  /\ heap_ready' = TRUE
  /\ heap' = [a \in {0} |-> [size |-> HEAP_SIZE - HEADER_SIZE, free |-> TRUE]]
  /\ UNCHANGED asked

\* malloc(n) on behalf of a caller that wants w bytes.
Get(n, w) ==
  /\ heap_ready
  /\ LET m == malloc(heap, n) IN
       /\ heap' = m.heap
       /\ asked' = IF m.ptr = Null THEN asked
                   ELSE [p \in DOMAIN asked \cup {m.ptr} |->
                           IF p = m.ptr THEN w ELSE asked[p]]
  /\ UNCHANGED heap_ready

Malloc(n) == Get(n, n)

\* count * size wraps before malloc sees it.
Calloc(count, n) == Get((count * n) % WORD, count * n)

Free(p) ==
  /\ heap' = free(heap, p)
  /\ asked' = [q \in DOMAIN asked \ {p} |-> asked[q]]
  /\ UNCHANGED heap_ready

\* realloc of a pointer in use to n > 0 bytes that fit where they are.
ReallocInPlace(p, n) ==
  /\ n > 0 /\ heap[p - HEADER_SIZE].size >= n
  /\ asked' = [asked EXCEPT ![p] = n]
  /\ UNCHANGED <<heap_ready, heap>>

\* realloc that moves the block; when its malloc fails nothing changes.
\* Requests that wrap are left out: memcpy would then write past the block.
ReallocMove(p, n) ==
  /\ n =< Limit /\ n > heap[p - HEADER_SIZE].size
  /\ LET m == malloc(heap, n) IN
       /\ m.ptr # Null
       /\ heap' = free(m.heap, p)
       /\ asked' = [q \in (DOMAIN asked \ {p}) \cup {m.ptr} |->
                      IF q = m.ptr THEN n ELSE asked[q]]
  /\ UNCHANGED heap_ready

CmdHeap ==
  /\ heap_ready
  /\ heap' = cmd_heap(heap)
  /\ UNCHANGED <<heap_ready, asked>>

HeapNext ==
  \/ heap_init
  \/ \E n \in Requests : Malloc(n)
  \/ \E c \in Counts, n \in Requests : Calloc(c, n)
  \/ \E p \in Pointers : Free(p)
  \/ \E p \in Pointers, n \in Requests : ReallocInPlace(p, n)
  \/ \E p \in Pointers, n \in Requests : ReallocMove(p, n)
  \/ CmdHeap

HeapSpec == HeapInit /\ [][HeapNext]_heapvars

-----------------------------------------------------------------------------
(* Properties.                                                              *)

\* Block addresses and sizes stay inside the arena.
HeapTypeOK ==
  /\ heap_ready \in BOOLEAN
  /\ DOMAIN heap \subseteq Addresses
  /\ heap \in [DOMAIN heap -> Block]
  /\ asked \in [Pointers -> Nat]

\* The blocks tile the arena: the first header is at HEAP_START, every block
\* ends where the next header is or at the end of the arena, every header but
\* the first is the end of a block, and no header lies inside a block.  So
\* the list of malloc.c never loses a byte, however it is split and merged.
Tiles(h) ==
  /\ 0 \in DOMAIN h
  /\ \A a \in DOMAIN h : End(h, a) \in DOMAIN h \cup {HEAP_SIZE}
  /\ \A b \in DOMAIN h \ {0} : \E a \in DOMAIN h : End(h, a) = b
  /\ \A a, b \in DOMAIN h : a < b => End(h, a) =< b

Tiling == heap_ready => Tiles(heap)

\* free leaves no two free neighbours, in whatever order blocks are freed.
NoFreePair(h) ==
  \A a, b \in DOMAIN h : h[a].free /\ h[b].free => End(h, a) # b

NoFreeNeighbours == NoFreePair(heap)

\* When everything has been freed the heap is one free block again.
FreedMeansWhole ==
  heap_ready /\ Live(heap) = {} =>
    heap = [a \in {0} |-> [size |-> HEAP_SIZE - HEADER_SIZE, free |-> TRUE]]

\* The heap command leaves the heap as it found it, also when the blocks do
\* not fit and when others hold memory ("should be back to 1 block" is the
\* case where nobody does).
CmdHeapRestores == heap_ready => cmd_heap(heap) = heap

\* The block list after any sequence of calls: no byte of the arena is lost,
\* what has been freed is as large as it can be, and the heap command does not
\* disturb it.
HeapWhole == Tiling /\ NoFreeNeighbours /\ FreedMeansWhole /\ CmdHeapRestores

\* malloc, calloc, realloc and free implement Allocator: blocks handed out are
\* disjoint regions of the arena, hold what their caller asked for (unless
\* that wraps in the rounding of malloc or in the product of calloc), and keep
\* place and length until they are given back or moved.
Regions == [p \in Pointers |-> [len |-> heap[p - HEADER_SIZE].size,
                                asked |-> asked[p]]]

A == INSTANCE Allocator WITH Arena <- HEAP_SIZE, live <- Regions

IsAllocator == A!Spec

=============================================================================
