-------------------------------- MODULE Lmm --------------------------------
(***************************************************************************)
(* The kernel heap: the list memory manager (src/410kern/lmm), its set-up  *)
(* at boot (src/410kern/boot/util_lmm.c, entry.c) and the calls of the     *)
(* kernel (src/410kern/malloc, src/kern/common/malloc_wrappers.c).         *)
(*                                                                         *)
(* The unit of memory is one word, the size of the header malloc writes.   *)
(* The nodes of a free list, which the code links through the free memory  *)
(* itself, are a sequence.  The wrappers hold their mutex from start to    *)
(* end, so a call is one step.                                             *)
(***************************************************************************)
EXTENDS Integers, Sequences, SequencesExt, FiniteSetsExt

CONSTANTS Align,         \* ALIGN_SIZE
          PageBits,      \* log2 of PAGE_SIZE
          Bios,          \* end of the BIOS data area, 0x500
          Low, Mid, Top, \* 1 MB, 16 MB (also USER_MEM_START) and the last address
          Layout,        \* boot information: sequences of areas in use
          Request        \* sizes asked for

ASSUME LmmAssumption ==
    /\ {Align, PageBits, Bios, Low, Mid, Top} \subseteq Nat \ {0}
    /\ Bios < Low /\ Low < Mid /\ Mid < Top
    /\ \A m \in {2^PageBits, Low, Mid, Top + 1} : m % Align = 0
    /\ Request \subseteq Nat \ {0}

VARIABLES lmm,      \* the regions, in the order of the list
          boot,     \* what the boot code is doing
          min,      \* how far it has got
          holes,    \* the areas it has to avoid
          block     \* the chunks in use

lmmVars == <<lmm, boot, min, holes, block>>

NULL == 0
align_down(n) == n - (n % Align)
align_up(n) == align_down(n + Align - 1)
-----------------------------------------------------------------------------
(* lmm_free: the chunk joins the region it lies in, at its place in the    *)
(* list, and is merged with the nodes it touches.                          *)
freed(nodes, addr, size) ==
    LET found == SelectInSeq(nodes, LAMBDA n : n.addr >= addr)
        next == IF found = 0 THEN Len(nodes) + 1 ELSE found
        joinsPrev == next > 1 /\ nodes[next - 1].addr + nodes[next - 1].size >= addr
        joinsNext == next <= Len(nodes) /\ addr + size >= nodes[next].addr
        first == IF joinsPrev THEN next - 1 ELSE next
        last == IF joinsNext THEN next ELSE next - 1
        joined == SubSeq(nodes, first, last)
    IN  SubSeq(nodes, 1, first - 1)
          \o << [addr |-> IF joinsPrev THEN joined[1].addr ELSE addr,
                 size |-> FoldLeft(LAMBDA s, n : s + n.size, size, joined)] >>
          \o SubSeq(nodes, last + 1, Len(nodes))

lmm_free(regions, addr, size) ==
    LET node == align_down(addr)
        whole == align_up((addr % Align) + size)
        r == SelectInSeq(regions, LAMBDA g : g.min <= node /\ node < g.max)
    IN  [regions EXCEPT ![r].free = @ + whole, ![r].nodes = freed(@, node, whole)]

(* lmm_add_region: descending priority, then descending size.              *)
lmm_add_region(regions, lo, size, flags, pri) ==
    LET reg == [min |-> align_up(lo), max |-> align_down(lo + size), flags |-> flags,
                pri |-> pri, free |-> 0, nodes |-> <<>>]
        Before(g) == \/ g.pri > pri
                     \/ g.pri = pri /\ g.max - g.min > reg.max - reg.min
        r == SelectInSeq(regions, LAMBDA g : ~Before(g))
    IN  IF reg.max <= reg.min THEN regions
        ELSE InsertAt(regions, IF r = 0 THEN Len(regions) + 1 ELSE r, reg)

(* lmm_add_free: what lies in a region, without the ends that are not      *)
(* aligned, becomes free there.                                            *)
lmm_add_free(regions, lo, size) ==
    LET start == align_up(lo)
        end == align_down(lo + size)
        AddPart(regs, r) ==
            LET s == Max({start, regs[r].min})
                e == Min({end, regs[r].max})
            IN  IF s < e THEN lmm_free(regs, s, e - s) ELSE regs
    IN  FoldLeft(AddPart, regions, [r \in 1..Len(regions) |-> r])
-----------------------------------------------------------------------------
(* lmm_alloc_gen.  The loop over the bits raises an address until its low  *)
(* bits are those of align_ofs.                                            *)
raised(addr, align_bits, align_ofs) ==
    LET Bit(n, i) == (n \div 2^i) % 2
    IN  FoldLeft(LAMBDA a, i : IF Bit(a, i) # Bit(align_ofs, i) THEN a + 2^i ELSE a,
                 addr, [i \in 1..align_bits |-> i - 1])

(* The part of a node from addr on is cut out; what is left before it and  *)
(* after it stays free.                                                    *)
cut_front_lost(node, addr, size) ==   \* fault: the part before the chunk is dropped
    LET start == align_down(addr)
        used == align_up((addr % Align) + size)
        left == node.addr + node.size - (start + used)
    IN  IF left > 0 THEN << [addr |-> start + used, size |-> left] >> ELSE <<>>

cut(node, addr, size) ==
    LET start == align_down(addr)
        used == align_up((addr % Align) + size)
        left == node.addr + node.size - (start + used)
    IN  (IF start > node.addr THEN << [addr |-> node.addr, size |-> start - node.addr] >> ELSE <<>>)
          \o (IF left > 0 THEN << [addr |-> start + used, size |-> left] >> ELSE <<>>)

taken_from(regions, r, n, addr, size) ==
    LET nodes == regions[r].nodes
    IN  [regions EXCEPT
            ![r].free = @ - align_up((addr % Align) + size),
            ![r].nodes = SubSeq(nodes, 1, n - 1) \o cut(nodes[n], addr, size)
                           \o SubSeq(nodes, n + 1, Len(nodes))]

lmm_alloc_gen(regions, size, flags, align_bits, align_ofs, in_min, in_max) ==
    LET Start(n) == raised(Max({n.addr, in_min}), align_bits, align_ofs)
        Fits(n) == n.size >= size /\ Start(n) - n.addr + size <= n.size
        Fitting(g) == SelectInSeq(g.nodes, Fits)
        r == SelectInSeq(regions, LAMBDA g :
                 /\ flags \subseteq g.flags /\ g.min < in_max /\ g.max > in_min
                 /\ Fitting(g) # 0 /\ Start(g.nodes[Fitting(g)]) + size <= in_max)
        n == Fitting(regions[r])
        addr == Start(regions[r].nodes[n])
    IN  IF r = 0 THEN [lmm |-> regions, addr |-> NULL]
        ELSE [lmm |-> taken_from(regions, r, n, addr, size), addr |-> addr]

lmm_alloc_aligned(regions, size, align_bits, align_ofs) ==
    lmm_alloc_gen(regions, size, {}, align_bits, align_ofs, 0, Top)

(* lmm_alloc: first fit.                                                   *)
lmm_alloc(regions, asked) ==
    LET size == align_up(asked)
        Fitting(g) == SelectInSeq(g.nodes, LAMBDA n : n.size >= size)
        r == SelectInSeq(regions, LAMBDA g : Fitting(g) # 0)
        addr == regions[r].nodes[Fitting(regions[r])].addr
    IN  IF r = 0 THEN [lmm |-> regions, addr |-> NULL]
        ELSE [lmm |-> taken_from(regions, r, Fitting(regions[r]), addr, size), addr |-> addr]

(* lmm_find_free: the lowest free memory at or above an address.           *)
lmm_find_free(regions, from) ==
    LET start == align_up(from)
        Free == {[addr |-> Max({g.nodes[i].addr, start}), end |-> g.nodes[i].addr + g.nodes[i].size,
                  flags |-> g.flags] : <<g, i>> \in
                    UNION {{g} \X (1..Len(g.nodes)) : g \in ToSet(regions)}}
        Found == {f \in Free : f.end > start}
    IN  IF Found = {} THEN [addr |-> Top, end |-> Top, flags |-> {}]
        ELSE CHOOSE f \in Found : \A h \in Found : f.addr <= h.addr
-----------------------------------------------------------------------------
(* Boot.  Priorities are unsigned: the negative ones are the highest.      *)
Word == 2^16
unsigned(n) == n % Word

lmm_regions ==
    LET low == lmm_add_region(<<>>, 0, Low, {"1MB", "16MB"}, unsigned(-2))
        mid == lmm_add_region(low, Low, Mid - Low, {"16MB"}, unsigned(-1))
    IN  lmm_add_region(mid, Mid, Top - Mid, {}, unsigned(0))

LmmInit ==
    /\ lmm = lmm_regions
    /\ boot = "scan" /\ min = Bios
    /\ holes \in Layout
    /\ block = {}

(* skip(): the piece of memory that starts at min ends before the next     *)
(* area in use, or the search goes on after that area.                     *)
skip(piece, hole) ==
    IF piece.retry \/ ~(piece.max > hole.lo /\ piece.min < hole.hi) THEN piece
    ELSE IF piece.min < hole.lo THEN [piece EXCEPT !.max = hole.lo]
    ELSE [piece EXCEPT !.min = hole.hi, !.retry = TRUE]

mb_util_lmm ==
    LET piece == FoldLeft(skip, [min |-> min, max |-> Top, retry |-> FALSE], holes)
    IN  /\ boot = "scan" /\ min < Top
        /\ min' = IF piece.retry THEN piece.min ELSE piece.max
        /\ lmm' = IF piece.retry THEN lmm ELSE lmm_add_free(lmm, min, piece.max - min)
        /\ UNCHANGED <<boot, holes, block>>

mb_util_done ==
    /\ boot = "scan" /\ min >= Top
    /\ boot' = "low" /\ min' = 0
    /\ UNCHANGED <<lmm, holes, block>>

(* lmm_remove_free, for the memory under 1 MB and then for that of users.  *)
removed_end == IF boot = "low" THEN Low ELSE Top + 1 - Align

lmm_remove_free ==
    LET free == lmm_find_free(lmm, min)
        size == Min({free.end, removed_end}) - free.addr
        got == lmm_alloc_gen(lmm, size, free.flags, 0, 0, free.addr, free.addr + size)
        found == min < removed_end /\ free.end # free.addr /\ free.addr < removed_end
    IN  /\ boot \in {"low", "user"}
        /\ IF found
           THEN lmm' = got.lmm /\ min' = free.addr /\ UNCHANGED boot
           ELSE /\ boot' = IF boot = "low" THEN "user" ELSE "run"
                /\ min' = IF boot = "low" THEN Mid ELSE 0
                /\ UNCHANGED lmm
        /\ UNCHANGED <<holes, block>>
-----------------------------------------------------------------------------
(* The calls.  A chunk remembers the size that the caller (s...) or the    *)
(* word before the memory (the others) keeps for it.                       *)
Header == 1

chunk(got, size, how, bits) == [addr |-> got.addr, size |-> size, how |-> how, bits |-> bits]

given(got, size, how, bits) ==
    /\ lmm' = got.lmm
    /\ block' = IF got.addr = NULL THEN block ELSE block \cup {chunk(got, size, how, bits)}

smalloc(n) == given(lmm_alloc(lmm, n), n, "s", 0)

(* malloc, and calloc, which fills with zeros what _malloc gives it.       *)
malloc(n) == given(lmm_alloc(lmm, n + Header), n + Header, "malloc", 0)

smemalign(bits, n) == given(lmm_alloc_aligned(lmm, n, bits, 0), n, "s", bits)

memalign(bits, n) ==
    given(lmm_alloc_aligned(lmm, n + Header, bits, 2^bits - Header), n + Header, "malloc", bits)

realloc(b, n) ==
    LET got == lmm_alloc(lmm, n + Header)
    IN  /\ b.how = "malloc"
        /\ IF got.addr = NULL
           THEN UNCHANGED <<lmm, block>>
           ELSE /\ lmm' = lmm_free(got.lmm, b.addr, b.size)
                /\ block' = (block \ {b}) \cup {chunk(got, n + Header, "malloc", 0)}

(* free and sfree.                                                         *)
release(b) ==
    /\ lmm' = lmm_free(lmm, b.addr, b.size)
    /\ block' = block \ {b}

call ==
    /\ boot = "run"
    /\ \/ \E n \in Request : smalloc(n) \/ malloc(n) \/ smemalign(PageBits, n) \/ memalign(PageBits, n)
       \/ \E b \in block : release(b) \/ \E n \in Request : realloc(b, n)
    /\ UNCHANGED <<boot, min, holes>>

LmmNext == mb_util_lmm \/ mb_util_done \/ lmm_remove_free \/ call
-----------------------------------------------------------------------------
cells(lo, size) == lo..lo + size - 1
free_cells == UNION {cells(n.addr, n.size) : n \in UNION {ToSet(g.nodes) : g \in ToSet(lmm)}}
whole(b) == cells(align_down(b.addr), align_up((b.addr % Align) + b.size))

(* What the boot code should leave: the memory between 1 MB and            *)
(* USER_MEM_START without every aligned piece that an area in use touches. *)
BootMemory ==
    {x \in Low..Mid - 1 :
        \A y \in cells(align_down(x), Align) : \A i \in 1..Len(holes) :
            ~(holes[i].lo <= y /\ y < holes[i].hi)}

(* The free list of a region is in address order with a gap between any    *)
(* two nodes, so that free memory is never kept in pieces that a request   *)
(* could not use, and reg->free is the sum of the nodes.                   *)
FreeListWhole(reg) ==
    LET nodes == reg.nodes
    IN  /\ \A i \in 1..Len(nodes) : nodes[i].addr >= reg.min /\ nodes[i].size > 0
        /\ \A i \in 1..Len(nodes) - 1 : nodes[i].addr + nodes[i].size < nodes[i + 1].addr
        /\ nodes # <<>> => Last(nodes).addr + Last(nodes).size <= reg.max
        /\ reg.free = FoldLeft(LAMBDA s, n : s + n.size, 0, nodes)

(* Memory of the kernel heap is neither lost nor given out twice: after    *)
(* boot, whatever was allocated, resized and freed in whatever order, the  *)
(* free lists are whole, the free lists and the chunks in use are          *)
(* disjoint, the chunks also from each other, and together they are what   *)
(* the boot code found; memory asked for at an alignment, counted after    *)
(* the header, is aligned.                                                 *)
HeapPartition ==
    /\ \A r \in 1..Len(lmm) : FreeListWhole(lmm[r])
    /\ boot = "run" =>
          /\ free_cells \cup UNION {whole(b) : b \in block} = BootMemory
          /\ \A b \in block : whole(b) \cap free_cells = {}
          /\ \A b, c \in block : b # c => whole(b) \cap whole(c) = {}
          /\ \A b \in block : (b.addr + IF b.how = "s" THEN 0 ELSE Header) % 2^b.bits = 0
=============================================================================
