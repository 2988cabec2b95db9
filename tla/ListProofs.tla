----------------------------- MODULE ListProofs -----------------------------
(***************************************************************************)
(* What kern/list/list.c computes, for any set of nodes: proofs that the   *)
(* store-by-store operators of List keep the two lists of ListUse equal to *)
(* the sequences they stand for.                                           *)
(***************************************************************************)
EXTENDS ListUse, SequenceTheorems, TLAPS

Links(C) == [next : [C -> C], prev : [C -> C]]

\* The nodes of s are distinct and differ from the head.
Distinct(head, s) ==
  /\ \A i, j \in 1..Len(s) : s[i] = s[j] => i = j
  /\ \A i \in 1..Len(s) : s[i] # head

-----------------------------------------------------------------------------
(* A store changes one field of one node. *)

\* p->next = q.
LEMMA SetNext ==
  ASSUME NEW C, NEW l \in Links(C), NEW p \in C, NEW q \in C
  PROVE  /\ set_next(l, p, q) \in Links(C)
         /\ set_next(l, p, q).prev = l.prev
         /\ set_next(l, p, q).next = [l.next EXCEPT ![p] = q]
  BY DEF set_next, Links

\* p->prev = q.
LEMMA SetPrev ==
  ASSUME NEW C, NEW l \in Links(C), NEW p \in C, NEW q \in C
  PROVE  /\ set_prev(l, p, q) \in Links(C)
         /\ set_prev(l, p, q).next = l.next
         /\ set_prev(l, p, q).prev = [l.prev EXCEPT ![p] = q]
  BY DEF set_prev, Links

\* k is l with n put between p and q.
Added(C, l, k, n, p, q) ==
  /\ k \in Links(C)
  /\ \A c \in C : k.next[c] = IF c = p THEN n ELSE IF c = n THEN q ELSE l.next[c]
  /\ \A c \in C : k.prev[c] = IF c = q THEN n ELSE IF c = n THEN p ELSE l.prev[c]

\* add_to_list makes its four stores.
LEMMA AddToList ==
  ASSUME NEW C, NEW l \in Links(C), NEW n \in C, NEW p \in C, NEW q \in C
  PROVE  Added(C, l, add_to_list(l, n, p, q), n, p, q)
<1> DEFINE a == set_next(l, n, q)
           b == set_prev(a, n, p)
           c == set_next(b, p, n)
<1>1. a \in Links(C) /\ a.prev = l.prev /\ a.next = [l.next EXCEPT ![n] = q]
  BY SetNext
<1>2. b \in Links(C) /\ b.next = a.next /\ b.prev = [a.prev EXCEPT ![n] = p]
  <2> HIDE DEF a
  <2> QED BY <1>1, SetPrev
<1>3. c \in Links(C) /\ c.prev = b.prev /\ c.next = [b.next EXCEPT ![p] = n]
  <2> HIDE DEF b
  <2> QED BY <1>2, SetNext
<1>4. /\ set_prev(c, q, n) \in Links(C)
      /\ set_prev(c, q, n).next = c.next
      /\ set_prev(c, q, n).prev = [c.prev EXCEPT ![q] = n]
  <2> HIDE DEF c
  <2> QED BY <1>3, SetPrev
<1>5. add_to_list(l, n, p, q) = set_prev(c, q, n)
  BY DEF add_to_list
<1>6. l.next \in [C -> C] /\ l.prev \in [C -> C]
  BY DEF Links
<1> HIDE DEF a, b, c
<1> QED BY <1>1, <1>2, <1>3, <1>4, <1>5, <1>6 DEF Added

-----------------------------------------------------------------------------
(* Rings. *)

\* The head and the nodes of a list are cells, each met once on the ring.
LEMMA Ring ==
  ASSUME NEW C, NEW h \in C, NEW s \in Seq(C), Distinct(h, s)
  PROVE  /\ Len(s) \in Nat
         /\ \A i \in Int : At(h, s, i) \in C
         /\ \A i, j \in 0..Len(s) : At(h, s, i) = At(h, s, j) => i = j
         /\ \A i, j \in 1..(Len(s) + 1) : At(h, s, i) = At(h, s, j) => i = j
         /\ At(h, s, 0) = h /\ At(h, s, Len(s) + 1) = h
  BY DEF At, Distinct

\* A list that another call does not touch still spells its sequence.
LEMMA Frame ==
  ASSUME NEW l, NEW k, NEW h, NEW s, Len(s) \in Nat, Spells(l, h, s),
         \A i \in 0..Len(s) : /\ k.next[At(h, s, i)] = l.next[At(h, s, i)]
                              /\ k.prev[At(h, s, i)] = l.prev[At(h, s, i)]
  PROVE  Spells(k, h, s)
<1>1. At(h, s, Len(s) + 1) = At(h, s, 0)
  BY DEF At
<1> SUFFICES ASSUME NEW i \in 0..Len(s)
             PROVE  /\ k.next[At(h, s, i)] = At(h, s, i + 1)
                    /\ k.prev[At(h, s, i + 1)] = At(h, s, i)
  BY DEF Spells
<1>2. /\ l.next[At(h, s, i)] = At(h, s, i + 1)
      /\ l.prev[At(h, s, i + 1)] = At(h, s, i)
  BY DEF Spells
<1>3. CASE i < Len(s)
  <2>1. i + 1 \in 0..Len(s)
    BY <1>3
  <2> QED BY <1>2, <2>1
<1>4. CASE i = Len(s)
  <2>1. 0 \in 0..Len(s)
    OBVIOUS
  <2> QED BY <1>1, <1>2, <1>4, <2>1
<1> QED BY <1>3, <1>4

\* k differs from l only in n and the cells of the ring of s.
Untouched(C, l, k, h, s, n) ==
  \A c \in C : c # n /\ (\A j \in 0..Len(s) : At(h, s, j) # c) =>
    k.next[c] = l.next[c] /\ k.prev[c] = l.prev[c]

-----------------------------------------------------------------------------
(* Insertion after the i-th cell of the ring: add_to_tail and add_to_head. *)

Inserted(s, i, n) ==
  [j \in 1..(Len(s) + 1) |->
     IF j <= i THEN s[j] ELSE IF j = i + 1 THEN n ELSE s[j - 1]]

\* Where the cells of the old ring are on the new one.
LEMMA InsertedRing ==
  ASSUME NEW C, NEW h \in C, NEW s \in Seq(C), NEW n \in C, NEW i \in 0..Len(s)
  PROVE  /\ Inserted(s, i, n) \in Seq(C) /\ Len(Inserted(s, i, n)) = Len(s) + 1
         /\ \A j \in 0..i : At(h, Inserted(s, i, n), j) = At(h, s, j)
         /\ At(h, Inserted(s, i, n), i + 1) = n
         /\ \A j \in (i + 2)..(Len(s) + 2) :
              At(h, Inserted(s, i, n), j) = At(h, s, j - 1)
<1> DEFINE r == Inserted(s, i, n)
<1>1. Len(s) \in Nat /\ \A j \in 1..Len(s) : s[j] \in C
  OBVIOUS
<1>2. r \in [1..(Len(s) + 1) -> C]
  BY <1>1 DEF Inserted
<1>3. r \in Seq(C) /\ Len(r) = Len(s) + 1
  BY <1>1, <1>2
<1>4. \A j \in 1..(Len(s) + 1) :
        r[j] = IF j <= i THEN s[j] ELSE IF j = i + 1 THEN n ELSE s[j - 1]
  BY DEF Inserted
<1> HIDE DEF r
<1>5. ASSUME NEW j \in 0..i PROVE At(h, r, j) = At(h, s, j)
  BY <1>1, <1>3, <1>4 DEF At
<1>6. At(h, r, i + 1) = n
  BY <1>1, <1>3, <1>4 DEF At
<1>7. ASSUME NEW j \in (i + 2)..(Len(s) + 2) PROVE At(h, r, j) = At(h, s, j - 1)
  BY <1>1, <1>3, <1>4 DEF At
<1> QED BY <1>3, <1>5, <1>6, <1>7 DEF r

\* add_to_list between two neighbours of the ring inserts the node there and
\* touches no other list.
LEMMA AddBetween ==
  ASSUME NEW C, NEW l \in Links(C), NEW h \in C, NEW s \in Seq(C), NEW n \in C,
         NEW i \in 0..Len(s), Distinct(h, s), Spells(l, h, s),
         n # h, \A j \in 1..Len(s) : s[j] # n
  PROVE  /\ add_to_list(l, n, At(h, s, i), At(h, s, i + 1)) \in Links(C)
         /\ Spells(add_to_list(l, n, At(h, s, i), At(h, s, i + 1)), h, Inserted(s, i, n))
         /\ Untouched(C, l, add_to_list(l, n, At(h, s, i), At(h, s, i + 1)), h, s, n)
<1> DEFINE p == At(h, s, i)
           q == At(h, s, i + 1)
           k == add_to_list(l, n, p, q)
           r == Inserted(s, i, n)
<1>1. Len(s) \in Nat /\ p \in C /\ q \in C /\ \A j \in Int : At(h, s, j) \in C
  <2>1. Len(s) \in Nat /\ \A j \in Int : At(h, s, j) \in C
    BY Ring
  <2>2. i \in Int /\ i + 1 \in Int
    BY <2>1
  <2> QED BY <2>1, <2>2
<1>2. /\ k \in Links(C)
      /\ \A c \in C : k.next[c] = IF c = p THEN n ELSE IF c = n THEN q ELSE l.next[c]
      /\ \A c \in C : k.prev[c] = IF c = q THEN n ELSE IF c = n THEN p ELSE l.prev[c]
  <2> HIDE DEF p, q
  <2>1. l \in Links(C) /\ n \in C /\ p \in C /\ q \in C
    BY <1>1
  <2>2. Added(C, l, k, n, p, q)
    BY <2>1, AddToList
  <2> HIDE DEF k
  <2> QED BY <2>2 DEF Added
<1>3. \A j \in Int : At(h, s, j) # n
  BY DEF At
<1>4. l.next \in [C -> C] /\ l.prev \in [C -> C]
  BY DEF Links
<1>5. \E j \in 0..Len(s) : q = At(h, s, j)
  <2>1. CASE i = Len(s)
    BY <2>1, <1>1, Ring
  <2>2. CASE i # Len(s)
    BY <2>2, <1>1
  <2> QED BY <2>1, <2>2
<1> HIDE DEF k
<1>6. /\ k.next[p] = n /\ k.next[n] = q /\ k.prev[q] = n /\ k.prev[n] = p
      /\ \A c \in C : c # n /\ c # p => k.next[c] = l.next[c]
      /\ \A c \in C : c # n /\ c # q => k.prev[c] = l.prev[c]
  <2>1. p # n /\ q # n
    BY <1>3
  <2> HIDE DEF p, q
  <2> QED BY <1>1, <1>2, <1>4, <2>1
<1>7. ASSUME NEW c \in C, c # n, \A j \in 0..Len(s) : At(h, s, j) # c
      PROVE  k.next[c] = l.next[c] /\ k.prev[c] = l.prev[c]
  <2>1. c # p /\ c # q
    BY <1>7, <1>5
  <2> QED BY <1>6, <1>7, <2>1
<1>8. ASSUME NEW j \in 0..Len(r)
      PROVE  k.next[At(h, r, j)] = At(h, r, j + 1) /\ k.prev[At(h, r, j + 1)] = At(h, r, j)
  <2>1. Len(r) = Len(s) + 1
    BY InsertedRing
  <2>2. \A m \in 0..Len(s) : /\ l.next[At(h, s, m)] = At(h, s, m + 1)
                             /\ l.prev[At(h, s, m + 1)] = At(h, s, m)
    BY DEF Spells
  <2>3. CASE j < i
    <3>1. At(h, r, j) = At(h, s, j) /\ At(h, r, j + 1) = At(h, s, j + 1)
      BY <2>3, InsertedRing
    <3>2. At(h, s, j) # p /\ At(h, s, j + 1) # q
      BY <2>3, <1>1, Ring
    <3>3. j \in 0..Len(s)
      BY <2>3, <1>1
    <3> HIDE DEF p, q, r
    <3> QED BY SMTT(30), <1>1, <1>3, <1>6, <2>2, <3>1, <3>2, <3>3
  <2>4. CASE j = i
    <3>1. At(h, r, j) = p /\ At(h, r, j + 1) = n
      BY <2>4, <1>1, InsertedRing
    <3> QED BY <3>1, <1>6
  <2>5. CASE j = i + 1
    <3>1. At(h, r, j) = n /\ At(h, r, j + 1) = q
      <4>1. At(h, r, i + 1) = n /\ \A m \in (i + 2)..(Len(s) + 2) : At(h, r, m) = At(h, s, m - 1)
        BY InsertedRing
      <4>2. i + 2 \in (i + 2)..(Len(s) + 2) /\ j + 1 = i + 2 /\ (i + 2) - 1 = i + 1
        BY <2>5, <1>1
      <4> HIDE DEF r
      <4> QED BY <2>5, <4>1, <4>2
    <3> QED BY <3>1, <1>6
  <2>6. CASE j > i + 1
    <3>1. At(h, r, j) = At(h, s, j - 1) /\ At(h, r, j + 1) = At(h, s, j)
      <4>1. /\ j \in (i + 2)..(Len(s) + 2) /\ j + 1 \in (i + 2)..(Len(s) + 2)
            /\ (j + 1) - 1 = j
        BY <2>6, <2>1, <1>1
      <4>2. \A m \in (i + 2)..(Len(s) + 2) : At(h, r, m) = At(h, s, m - 1)
        BY InsertedRing
      <4> HIDE DEF r
      <4> QED BY <4>1, <4>2
    <3>2. At(h, s, j - 1) # p /\ At(h, s, j) # q
      <4>1. /\ j - 1 \in 0..Len(s) /\ j - 1 # i
            /\ j \in 1..(Len(s) + 1) /\ i + 1 \in 1..(Len(s) + 1) /\ j # i + 1
        BY <2>6, <2>1, <1>1
      <4>2. At(h, s, j - 1) # At(h, s, i)
        BY <4>1, Ring
      <4>3. At(h, s, j) # At(h, s, i + 1)
        BY <4>1, Ring
      <4> QED BY <4>2, <4>3
    <3>3. j - 1 \in 0..Len(s) /\ j \in 0..(Len(s) + 1) /\ (j - 1) + 1 = j /\ j - 1 \in Int /\ j \in Int
      BY <2>6, <2>1, <1>1
    <3> DEFINE a == At(h, s, j - 1)
               b == At(h, s, j)
    <3>4. a \in C /\ b \in C /\ a # n /\ b # n
      BY <1>1, <1>3, <3>3
    <3>5. l.next[a] = b /\ l.prev[b] = a
      BY <2>2, <3>3
    <3>6. a # p /\ b # q
      BY <3>2
    <3>7. At(h, r, j) = a /\ At(h, r, j + 1) = b
      BY <3>1
    <3> HIDE DEF a, b, p, q, r
    <3> QED BY <1>6, <3>4, <3>5, <3>6, <3>7
  <2> QED BY <1>1, <2>1, <2>3, <2>4, <2>5, <2>6
<1>9. Spells(k, h, r)
  BY SMTT(30), <1>8 DEF Spells
<1>10. Untouched(C, l, k, h, s, n)
  BY <1>7 DEF Untouched
<1> QED BY <1>2, <1>9, <1>10 DEF k

-----------------------------------------------------------------------------
(* Removal of the m-th node: del_entry. *)

\* k is l with p and q made neighbours.
Bypassed(C, l, k, p, q) ==
  /\ k \in Links(C)
  /\ \A c \in C : k.next[c] = IF c = p THEN q ELSE l.next[c]
  /\ \A c \in C : k.prev[c] = IF c = q THEN p ELSE l.prev[c]

\* del_entry makes its two stores.
LEMMA DelEntry ==
  ASSUME NEW C, NEW l \in Links(C), NEW n \in C, l.prev[n] # n
  PROVE  Bypassed(C, l, del_entry(l, n), l.prev[n], l.next[n])
<1> DEFINE p == l.prev[n]
           q == l.next[n]
           a == set_next(l, p, q)
           d == set_prev(a, q, p)
<1>1. l.next \in [C -> C] /\ l.prev \in [C -> C] /\ p \in C /\ q \in C
  BY DEF Links
<1>2. a \in Links(C) /\ a.prev = l.prev /\ a.next = [l.next EXCEPT ![p] = q]
  <2> HIDE DEF p, q
  <2> QED BY <1>1, SetNext
<1>3. del_entry(l, n) = set_prev(a, a.next[n], a.prev[n])
  BY DEF del_entry
<1> HIDE DEF a
<1>4. a.next[n] = q /\ a.prev[n] = p
  BY <1>1, <1>2
<1>5. d \in Links(C) /\ d.next = a.next /\ d.prev = [a.prev EXCEPT ![q] = p]
  <2> HIDE DEF p, q
  <2> QED BY <1>1, <1>2, SetPrev
<1> HIDE DEF d
<1>6. Bypassed(C, l, d, p, q)
  <2> HIDE DEF p, q
  <2> QED BY <1>1, <1>2, <1>5 DEF Bypassed
<1> QED BY <1>3, <1>4, <1>6 DEF d

\* Where the cells of the old ring are on the new one.
LEMMA WithoutRing ==
  ASSUME NEW C, NEW h \in C, NEW s \in Seq(C), NEW m \in 1..Len(s)
  PROVE  /\ Without(s, m) \in Seq(C) /\ Len(Without(s, m)) = Len(s) - 1
         /\ \A j \in 0..(m - 1) : At(h, Without(s, m), j) = At(h, s, j)
         /\ \A j \in m..Len(s) : At(h, Without(s, m), j) = At(h, s, j + 1)
<1> DEFINE r == Without(s, m)
<1>1. Len(s) \in Nat /\ Len(s) - 1 \in Nat /\ \A j \in 1..Len(s) : s[j] \in C
  OBVIOUS
<1>2. r \in [1..(Len(s) - 1) -> C]
  <2>1. ASSUME NEW j \in 1..(Len(s) - 1) PROVE s[IF j < m THEN j ELSE j + 1] \in C
    BY <1>1
  <2> QED BY <2>1 DEF Without
<1>3. r \in Seq(C) /\ Len(r) = Len(s) - 1
  BY <1>1, <1>2
<1>4. \A j \in 1..(Len(s) - 1) : r[j] = s[IF j < m THEN j ELSE j + 1]
  BY DEF Without
<1> HIDE DEF r
<1>5. ASSUME NEW j \in 0..(m - 1) PROVE At(h, r, j) = At(h, s, j)
  <2>1. CASE j = 0
    BY <2>1 DEF At
  <2>2. CASE j # 0
    <3>1. j \in 1..(Len(s) - 1) /\ j \in 1..Len(s) /\ j < m
      BY <1>1, <2>2
    <3>2. r[j] = s[j]
      BY <1>4, <3>1
    <3> QED BY <1>3, <3>1, <3>2 DEF At
  <2> QED BY <2>1, <2>2
<1>6. ASSUME NEW j \in m..Len(s) PROVE At(h, r, j) = At(h, s, j + 1)
  <2>1. CASE j = Len(s)
    <3>1. j \notin 1..(Len(s) - 1) /\ j + 1 \notin 1..Len(s)
      BY <1>1, <2>1
    <3> QED BY <1>3, <3>1 DEF At
  <2>2. CASE j # Len(s)
    <3>1. j \in 1..(Len(s) - 1) /\ j + 1 \in 1..Len(s) /\ ~(j < m)
      BY <1>1, <2>2
    <3>2. r[j] = s[j + 1]
      BY <1>4, <3>1
    <3> QED BY <1>3, <3>1, <3>2 DEF At
  <2> QED BY <2>1, <2>2
<1> QED BY <1>3, <1>5, <1>6 DEF r

\* del_entry takes the node out of its list and touches no other list.
LEMMA DelAt ==
  ASSUME NEW C, NEW l \in Links(C), NEW h \in C, NEW s \in Seq(C),
         NEW m \in 1..Len(s), Distinct(h, s), Spells(l, h, s)
  PROVE  /\ del_entry(l, s[m]) \in Links(C)
         /\ Spells(del_entry(l, s[m]), h, Without(s, m))
         /\ Untouched(C, l, del_entry(l, s[m]), h, s, h)
<1> DEFINE p == At(h, s, m - 1)
           q == At(h, s, m + 1)
           k == del_entry(l, s[m])
           r == Without(s, m)
<1>1. Len(s) \in Nat /\ m \in Int /\ m - 1 \in 0..Len(s) /\ m \in 0..Len(s)
      /\ (m - 1) + 1 = m /\ m - 1 # m
  OBVIOUS
<1>2. s[m] = At(h, s, m) /\ s[m] \in C
  BY DEF At
<1>3. /\ \A j \in Int : At(h, s, j) \in C
      /\ \A i, j \in 0..Len(s) : At(h, s, i) = At(h, s, j) => i = j
      /\ \A i, j \in 1..(Len(s) + 1) : At(h, s, i) = At(h, s, j) => i = j
      /\ At(h, s, 0) = h /\ At(h, s, Len(s) + 1) = h
  BY Ring
<1>4. \A j \in 0..Len(s) : /\ l.next[At(h, s, j)] = At(h, s, j + 1)
                           /\ l.prev[At(h, s, j + 1)] = At(h, s, j)
  BY DEF Spells
<1>5. l.prev[s[m]] = p /\ l.next[s[m]] = q
  BY <1>1, <1>2, <1>4
<1>6. p # s[m]
  BY <1>1, <1>2, <1>3
<1>7. Bypassed(C, l, k, p, q)
  <2> HIDE DEF p, q
  <2> QED BY <1>2, <1>5, <1>6, DelEntry
<1> HIDE DEF k
<1>8. /\ k \in Links(C) /\ p \in C /\ q \in C
      /\ k.next[p] = q /\ k.prev[q] = p
      /\ \A c \in C : c # p => k.next[c] = l.next[c]
      /\ \A c \in C : c # q => k.prev[c] = l.prev[c]
  <2>1. p \in C /\ q \in C
    BY <1>1, <1>3
  <2> HIDE DEF p, q
  <2> QED BY <1>7, <2>1 DEF Bypassed
<1>9. \E j \in 0..Len(s) : q = At(h, s, j)
  <2>1. CASE m = Len(s)
    BY <2>1, <1>1, <1>3
  <2>2. CASE m # Len(s)
    BY <2>2, <1>1
  <2> QED BY <2>1, <2>2
<1>10. ASSUME NEW c \in C, \A j \in 0..Len(s) : At(h, s, j) # c
       PROVE  k.next[c] = l.next[c] /\ k.prev[c] = l.prev[c]
  <2>1. c # p /\ c # q
    BY <1>1, <1>9, <1>10
  <2> QED BY <1>8, <2>1
<1>11. Len(r) = Len(s) - 1
  BY WithoutRing
<1>12. ASSUME NEW j \in 0..Len(r)
       PROVE  k.next[At(h, r, j)] = At(h, r, j + 1) /\ k.prev[At(h, r, j + 1)] = At(h, r, j)
  <2>1. CASE j < m - 1
    <3>1. At(h, r, j) = At(h, s, j) /\ At(h, r, j + 1) = At(h, s, j + 1)
      BY <2>1, WithoutRing
    <3>2. j \in 0..Len(s) /\ j # m - 1 /\ j + 1 \in 1..(Len(s) + 1)
          /\ m + 1 \in 1..(Len(s) + 1) /\ j + 1 # m + 1
      BY <2>1, <1>1
    <3>3. At(h, s, j) # p /\ At(h, s, j + 1) # q
      BY <1>1, <1>3, <3>2
    <3> HIDE DEF p, q, r
    <3> QED BY <1>3, <1>4, <1>8, <3>1, <3>2, <3>3
  <2>2. CASE j = m - 1
    <3>1. At(h, r, j) = p /\ At(h, r, j + 1) = q
      BY <2>2, <1>1, WithoutRing
    <3> QED BY <3>1, <1>8
  <2>3. CASE j >= m
    <3>1. /\ j \in m..Len(s) /\ j + 1 \in m..Len(s) /\ j + 1 \in 0..Len(s) /\ j + 1 # m - 1
          /\ (j + 1) + 1 \in 1..(Len(s) + 1) /\ m + 1 \in 1..(Len(s) + 1) /\ (j + 1) + 1 # m + 1
      BY <2>3, <1>1, <1>11
    <3>2. At(h, r, j) = At(h, s, j + 1) /\ At(h, r, j + 1) = At(h, s, (j + 1) + 1)
      BY <3>1, WithoutRing
    <3>3. At(h, s, j + 1) # p
      BY <1>1, <1>3, <3>1
    <3>4. At(h, s, (j + 1) + 1) # q
      BY <1>1, <1>3, <3>1
    <3> HIDE DEF p, q, r
    <3> QED BY <1>3, <1>4, <1>8, <3>1, <3>2, <3>3, <3>4
  <2> QED BY <1>1, <1>11, <2>1, <2>2, <2>3
<1>13. Spells(k, h, r)
  BY <1>12 DEF Spells
<1>14. Untouched(C, l, k, h, s, h)
  BY <1>10 DEF Untouched
<1> QED BY <1>8, <1>13, <1>14 DEF k

-----------------------------------------------------------------------------
(* concat_lists. *)

\* k is l with g made an empty list.
Emptied(C, l, k, g) ==
  /\ k \in Links(C)
  /\ \A c \in C : k.next[c] = IF c = g THEN g ELSE l.next[c]
  /\ \A c \in C : k.prev[c] = IF c = g THEN g ELSE l.prev[c]

\* init_head makes its two stores.
LEMMA InitHead ==
  ASSUME NEW C, NEW l \in Links(C), NEW g \in C
  PROVE  Emptied(C, l, init_head(l, g), g)
<1> DEFINE a == set_next(l, g, g)
           k == set_prev(a, g, g)
<1>1. l.next \in [C -> C] /\ l.prev \in [C -> C]
  BY DEF Links
<1>2. a \in Links(C) /\ a.prev = l.prev /\ a.next = [l.next EXCEPT ![g] = g]
  BY SetNext
<1> HIDE DEF a
<1>3. k \in Links(C) /\ k.next = a.next /\ k.prev = [a.prev EXCEPT ![g] = g]
  BY <1>2, SetPrev
<1>4. init_head(l, g) = k
  BY DEF init_head, a
<1> HIDE DEF k
<1> QED BY <1>1, <1>2, <1>3, <1>4 DEF Emptied

\* k is l with the nodes from b to t put between p and f.
Joined(C, l, k, p, f, b, t) ==
  /\ k \in Links(C)
  /\ \A c \in C : k.next[c] = IF c = t THEN f ELSE IF c = p THEN b ELSE l.next[c]
  /\ \A c \in C : k.prev[c] = IF c = f THEN t ELSE IF c = b THEN p ELSE l.prev[c]

\* The four stores of concat_lists.
LEMMA Join ==
  ASSUME NEW C, NEW l \in Links(C), NEW p \in C, NEW f \in C, NEW b \in C, NEW t \in C
  PROVE  Joined(C, l, join(l, p, f, b, t), p, f, b, t)
<1> DEFINE a1 == set_next(l, p, b)
           a2 == set_prev(a1, b, p)
           a3 == set_next(a2, t, f)
           k  == set_prev(a3, f, t)
<1>1. l.next \in [C -> C] /\ l.prev \in [C -> C]
  BY DEF Links
<1>2. a1 \in Links(C) /\ a1.prev = l.prev /\ a1.next = [l.next EXCEPT ![p] = b]
  BY SetNext
<1>3. a2 \in Links(C) /\ a2.next = a1.next /\ a2.prev = [a1.prev EXCEPT ![b] = p]
  <2> HIDE DEF a1
  <2> QED BY <1>2, SetPrev
<1>4. a3 \in Links(C) /\ a3.prev = a2.prev /\ a3.next = [a2.next EXCEPT ![t] = f]
  <2> HIDE DEF a2
  <2> QED BY <1>3, SetNext
<1>5. k \in Links(C) /\ k.next = a3.next /\ k.prev = [a3.prev EXCEPT ![f] = t]
  <2> HIDE DEF a3
  <2> QED BY <1>4, SetPrev
<1>6. join(l, p, f, b, t) = k
  BY DEF join
<1> HIDE DEF a1, a2, a3, k
<1> QED BY <1>1, <1>2, <1>3, <1>4, <1>5, <1>6 DEF Joined
=============================================================================
