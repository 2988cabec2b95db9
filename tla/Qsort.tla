------------------------------- MODULE Qsort --------------------------------
(***************************************************************************)
(* qsort of the C library (stdlib/qsort.c): Bentley and McIlroy's three    *)
(* way partition.  An array is a sequence of keys; a part of it starts at  *)
(* b and has n elements.  SMALL and LARGE are the code's 7 and 40.         *)
(***************************************************************************)
EXTENDS Integers, Sequences, SequencesExt

CONSTANTS SMALL, LARGE

swap(a, i, j) == [a EXCEPT ![i] = a[j], ![j] = a[i]]

vecswap(a, i, j, r) ==
    [k \in 1..Len(a) |-> IF k \in i .. i + r - 1 THEN a[k - i + j]
                         ELSE IF k \in j .. j + r - 1 THEN a[k - j + i]
                         ELSE a[k]]

smaller(i, j) == IF i < j THEN i ELSE j

med3(a, i, j, k) ==
    IF a[i] < a[j] THEN (IF a[j] < a[k] THEN j ELSE IF a[i] < a[k] THEN k ELSE i)
    ELSE (IF a[j] > a[k] THEN j ELSE IF a[i] < a[k] THEN i ELSE k)

RECURSIVE sink(_, _, _)
sink(a, b, pl) ==
    IF pl > b /\ a[pl - 1] > a[pl] THEN sink(swap(a, pl, pl - 1), b, pl - 1) ELSE a

RECURSIVE insertion_sort(_, _, _)
insertion_sort(a, b, n) ==
    IF n <= 1 THEN a ELSE sink(insertion_sort(a, b, n - 1), b, b + n - 1)

(* The index of the element to partition by.                               *)
pivot(a, b, n) ==
    LET d == n \div 8
        pm == b + n \div 2
        pn == b + n - 1
    IN  IF n <= SMALL THEN pm
        ELSE IF n <= LARGE THEN med3(a, b, pm, pn)
        ELSE med3(a, med3(a, b, b + d, b + 2 * d), med3(a, pm - d, pm, pm + d),
                     med3(a, pn - 2 * d, pn - d, pn))

(* The two inner loops: elements equal to the pivot go to the ends.        *)
RECURSIVE upward(_, _)
upward(s, b) ==
    IF s.pb > s.pc \/ s.a[s.pb] > s.a[b] THEN s
    ELSE IF s.a[s.pb] < s.a[b] THEN upward([s EXCEPT !.pb = @ + 1], b)
    ELSE upward([s EXCEPT !.a = swap(s.a, s.pa, s.pb), !.pa = @ + 1, !.pb = @ + 1,
                          !.swap_cnt = 1], b)

RECURSIVE downward(_, _)
downward(s, b) ==
    IF s.pb > s.pc \/ s.a[s.pc] < s.a[b] THEN s
    ELSE IF s.a[s.pc] > s.a[b] THEN downward([s EXCEPT !.pc = @ - 1], b)
    ELSE downward([s EXCEPT !.a = swap(s.a, s.pc, s.pd), !.pc = @ - 1, !.pd = @ - 1,
                            !.swap_cnt = 1], b)

RECURSIVE partition(_, _)
partition(s, b) ==
    LET s1 == downward(upward(s, b), b)
    IN  IF s1.pb > s1.pc THEN s1
        ELSE partition([s1 EXCEPT !.a = swap(s1.a, s1.pb, s1.pc), !.pb = @ + 1, !.pc = @ - 1,
                                  !.swap_cnt = 1], b)

(* The equal elements come back from the ends to the middle.               *)
to_the_middle_left(s, b, pn) ==   \* fault: not from the right end
    LET r == smaller(s.pa - b, s.pb - s.pa) IN vecswap(s.a, b, s.pb - r, r)

to_the_middle(s, b, pn) ==
    LET left == smaller(s.pa - b, s.pb - s.pa)
        right == smaller(s.pd - s.pc, pn - s.pd - 1)
    IN  vecswap(vecswap(s.a, b, s.pb - left, left), s.pb, pn - right, right)

RECURSIVE qsort(_, _, _)
qsort(a, b, n) ==
    LET s == partition([a |-> swap(a, b, pivot(a, b, n)), pa |-> b + 1, pb |-> b + 1,
                        pc |-> b + n - 1, pd |-> b + n - 1, swap_cnt |-> 0], b)
        a1 == to_the_middle(s, b, b + n)
        a2 == IF s.pb - s.pa > 1 THEN qsort(a1, b, s.pb - s.pa) ELSE a1
        r == s.pd - s.pc
    IN  IF n < SMALL THEN insertion_sort(a, b, n)
        ELSE IF s.swap_cnt = 0 THEN insertion_sort(s.a, b, n)
        ELSE IF r > 1 THEN qsort(a2, b + n - r, r) ELSE a2
-----------------------------------------------------------------------------
VARIABLE sorted   \* the last array given to qsort, and the array it left

SortInit == sorted = <<<<>>, <<>>>>

sort(a) == sorted' = <<a, qsort(a, 1, Len(a))>>

occurrences(a, k) == Len(SelectSeq(a, LAMBDA x : x = k))

(* qsort leaves the keys it was given, each as often as before, in order,  *)
(* also when many are equal or none is swapped by the partition.           *)
SortExact ==
    /\ \A i \in 2..Len(sorted[2]) : sorted[2][i - 1] <= sorted[2][i]
    /\ \A k \in Range(sorted[1]) \union Range(sorted[2]) :
           occurrences(sorted[1], k) = occurrences(sorted[2], k)
=============================================================================
