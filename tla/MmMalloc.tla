------------------------------ MODULE MmMalloc ------------------------------
(***************************************************************************)
(* The heap of a user program (src/410user/libmalloc): an implicit list of *)
(* blocks with boundary tags, grown with new_pages.  The thread-safe       *)
(* wrappers of user/libthread/malloc.c hold a mutex from start to end, so  *)
(* a call is one step.                                                     *)
(*                                                                         *)
(* The unit is the word (WSIZE).  A word is a number: a size with the      *)
(* allocated bit, or what the program stored there.                        *)
(***************************************************************************)
EXTENDS Integers, Sequences, SequencesExt, FiniteSetsExt

CONSTANTS ChunkWords,   \* CHUNKSIZE, which is also PAGE_SIZE
          HeapWords,    \* bound on the address space of the heap
          UserRequest,  \* sizes asked for
          Datum         \* what programs store

ASSUME MmAssumption ==
    /\ ChunkWords \in Nat \ {0} /\ ChunkWords % 2 = 0 /\ HeapWords % ChunkWords = 0
    /\ UserRequest \subseteq Nat \ {0} /\ Datum \subseteq Nat

VARIABLES heap,    \* memory, mem_brkp, mem_alloctop and heap_listp
          inited,
          owned    \* the blocks the program holds, with what it stored in them

mmVars == <<heap, inited, owned>>

DSIZE == 2
OVERHEAD == 2

PACK(size, alloc) == size + alloc
GET_SIZE(h, p) == h.mem[p] - (h.mem[p] % 2)
GET_ALLOC(h, p) == h.mem[p] % 2
HDRP(bp) == bp - 1
FTRP(h, bp) == bp + GET_SIZE(h, HDRP(bp)) - DSIZE
NEXT_BLKP(h, bp) == bp + GET_SIZE(h, HDRP(bp))
PREV_BLKP(h, bp) == bp - GET_SIZE(h, bp - DSIZE)

(* The header and the footer of a block.                                   *)
tag(h, bp, size, alloc) ==
    [h EXCEPT !.mem[HDRP(bp)] = PACK(size, alloc), !.mem[bp + size - DSIZE] = PACK(size, alloc)]

MmInit ==
    /\ heap = [mem |-> [p \in 0..HeapWords - 1 |-> 0], brk |-> 0, top |-> 0, listp |-> 0]
    /\ inited = FALSE
    /\ owned = {}
-----------------------------------------------------------------------------
(* mem_sbrk; new_pages succeeds up to the address limit.                   *)
mem_fits(h, incr, limit) ==
    LET more == h.brk + incr - h.top
        pages == (more + ChunkWords - 1) \div ChunkWords
    IN  more <= 0 \/ h.top + pages * ChunkWords <= limit

mem_sbrk(h, incr) ==
    LET more == h.brk + incr - h.top
        pages == IF more > 0 THEN (more + ChunkWords - 1) \div ChunkWords ELSE 0
    IN  [h EXCEPT !.brk = @ + incr, !.top = @ + pages * ChunkWords]

(* coalesce: the block joins the free blocks on either side of it.         *)
coalesce_next(h, bp) ==   \* fault: the block before is not looked at
    LET next_alloc == GET_ALLOC(h, HDRP(NEXT_BLKP(h, bp))) = 1
        size == GET_SIZE(h, HDRP(bp))
                  + IF next_alloc THEN 0 ELSE GET_SIZE(h, HDRP(NEXT_BLKP(h, bp)))
    IN  [heap |-> tag(h, bp, size, 0), bp |-> bp]

coalesce(h, bp) ==
    LET prev_alloc == GET_ALLOC(h, FTRP(h, PREV_BLKP(h, bp))) = 1
        next == NEXT_BLKP(h, bp)
        next_alloc == GET_ALLOC(h, HDRP(next)) = 1
        first == IF prev_alloc THEN bp ELSE PREV_BLKP(h, bp)
        size == GET_SIZE(h, HDRP(bp))
                  + (IF prev_alloc THEN 0 ELSE GET_SIZE(h, HDRP(first)))
                  + (IF next_alloc THEN 0
                     ELSE IF prev_alloc THEN GET_SIZE(h, HDRP(next)) ELSE GET_SIZE(h, FTRP(h, next)))
    IN  [heap |-> tag(h, first, size, 0), bp |-> first]

extend_heap(h, size) ==
    LET grown == mem_sbrk(h, size)
        free == tag(grown, h.brk, size, 0)
    IN  coalesce([free EXCEPT !.mem[h.brk + size - 1] = PACK(0, 1)], h.brk)

(* find_fit: the first free block from heap_listp on that is large enough. *)
blocks(h) ==
    LET from[p \in 0..HeapWords] ==
            IF GET_SIZE(h, HDRP(p)) = 0 THEN <<>> ELSE <<p>> \o from[NEXT_BLKP(h, p)]
    IN  from[h.listp]

find_fit(h, asize) ==
    SelectInSeq(blocks(h), LAMBDA p : GET_ALLOC(h, HDRP(p)) = 0 /\ asize <= GET_SIZE(h, HDRP(p)))

place(h, bp, asize) ==
    LET csize == GET_SIZE(h, HDRP(bp))
    IN  IF csize - asize >= DSIZE + OVERHEAD
        THEN tag(tag(h, bp, asize, 1), bp + asize, csize - asize, 0)
        ELSE tag(h, bp, csize, 1)
-----------------------------------------------------------------------------
(* mm_init, called by the first malloc.  mem_init has found a free page at *)
(* start.                                                                  *)
mm_init(start) ==
    LET empty == mem_sbrk([heap EXCEPT !.brk = start, !.top = start + ChunkWords], 4)
    IN  [empty EXCEPT !.mem[start] = 0, !.mem[start + 1] = PACK(OVERHEAD, 1),
                      !.mem[start + 2] = PACK(OVERHEAD, 1), !.mem[start + 3] = PACK(0, 1),
                      !.listp = start + DSIZE]

malloc_init ==
    \E page \in 0..(HeapWords \div ChunkWords) - 2, limit \in {HeapWords, heap.top} :
        LET start == page * ChunkWords
            empty == mm_init(start)
        IN  /\ ~inited /\ start >= heap.top
            /\ inited' = mem_fits(empty, ChunkWords, limit)
            /\ heap' = IF inited' THEN extend_heap(empty, ChunkWords).heap ELSE empty
            /\ UNCHANGED owned

(* mm_malloc: the block that serves a request, and the heap with it, when  *)
(* there is one.                                                           *)
asize(n) == IF n <= DSIZE THEN DSIZE + OVERHEAD ELSE DSIZE * ((n + OVERHEAD + DSIZE - 1) \div DSIZE)

mm_malloc_fits(h, n, limit) ==
    find_fit(h, asize(n)) # 0 \/ mem_fits(h, Max({asize(n), ChunkWords}), limit)

mm_malloc(h, n) ==
    LET fit == find_fit(h, asize(n))
        got == IF fit # 0 THEN [heap |-> h, bp |-> blocks(h)[fit]]
               ELSE extend_heap(h, Max({asize(n), ChunkWords}))
    IN  [heap |-> place(got.heap, got.bp, asize(n)), bp |-> got.bp]

mm_free(h, bp) == coalesce(tag(h, bp, GET_SIZE(h, HDRP(bp)), 0), bp).heap

(* The program fills the n words it was given.                             *)
filled(h, bp, n, d) ==
    [h EXCEPT !.mem = [p \in DOMAIN h.mem |-> IF p \in bp..bp + n - 1 THEN d ELSE h.mem[p]]]

malloc_user(n, d) ==
    \E limit \in {HeapWords, heap.top} :
        LET got == mm_malloc(heap, n)
        IN  /\ inited /\ mm_malloc_fits(heap, n, limit)
            /\ heap' = filled(got.heap, got.bp, n, d)
            /\ owned' = owned \cup {[bp |-> got.bp, n |-> n, d |-> d]}
            /\ UNCHANGED inited

(* mm_realloc copies as many words as the new block was asked for and the  *)
(* old block has, tags included.                                           *)
realloc_user(b, n) ==
    \E limit \in {HeapWords, heap.top} :
        LET got == mm_malloc(heap, n)
            copied == Min({GET_SIZE(got.heap, HDRP(b.bp)), n})
            copy == [got.heap EXCEPT !.mem =
                        [p \in DOMAIN heap.mem |->
                            IF p \in got.bp..got.bp + copied - 1
                            THEN got.heap.mem[b.bp + (p - got.bp)] ELSE got.heap.mem[p]]]
        IN  /\ inited /\ mm_malloc_fits(heap, n, limit)
            /\ heap' = filled(mm_free(copy, b.bp), got.bp + b.n, n - b.n, b.d)
            /\ owned' = (owned \ {b}) \cup {[bp |-> got.bp, n |-> n, d |-> b.d]}
            /\ UNCHANGED inited

free_user(b) ==
    /\ heap' = mm_free(heap, b.bp)
    /\ owned' = owned \ {b}
    /\ UNCHANGED inited

MmNext ==
    \/ malloc_init
    \/ \E n \in UserRequest, d \in Datum : malloc_user(n, d)
    \/ \E b \in owned : free_user(b) \/ \E n \in UserRequest : realloc_user(b, n)
-----------------------------------------------------------------------------
(* The memory a program holds has what the program stored there.           *)
PayloadKept ==
    \A b \in owned : \A i \in 0..b.n - 1 : heap.mem[b.bp + i] = b.d

(* The blocks tile the heap from the prologue to the epilogue at mem_brkp: *)
(* header and footer of each agree, the blocks marked allocated are the    *)
(* prologue and those the program holds, and no two free blocks are        *)
(* neighbours, however often blocks were split, joined and resized.  No    *)
(* call for another block writes into a block, also when its contents look *)
(* like tags, and realloc takes them along.                                *)
HeapTiled ==
    /\ PayloadKept
    /\ inited =>
          LET bs == blocks(heap)
              SizeOf(i) == GET_SIZE(heap, HDRP(bs[i]))
              AllocOf(i) == GET_ALLOC(heap, HDRP(bs[i]))
          IN  /\ bs[1] + SizeOf(1) = heap.listp + DSIZE
              /\ bs[Len(bs)] + SizeOf(Len(bs)) = heap.brk
              /\ heap.brk <= heap.top
              /\ \A i \in 1..Len(bs) : heap.mem[FTRP(heap, bs[i])] = heap.mem[HDRP(bs[i])]
              /\ {bs[i] : i \in {j \in 2..Len(bs) : AllocOf(j) = 1}} = {b.bp : b \in owned}
              /\ \A i \in 1..Len(bs) - 1 : AllocOf(i) = 1 \/ AllocOf(i + 1) = 1
=============================================================================
