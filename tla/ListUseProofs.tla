--------------------------- MODULE ListUseProofs ---------------------------
(***************************************************************************)
(* Whatever list.c calls are made on the two lists of ListUse, and however *)
(* many nodes there are, the lists spell their sequences.                  *)
(***************************************************************************)
EXTENDS ListProofs

\* Where the cells of the two rings are on the joined one.
LEMMA ConcatRing ==
  ASSUME NEW C, NEW f \in C, NEW g \in C, NEW s \in Seq(C), NEW r \in Seq(C)
  PROVE  /\ s \o r \in Seq(C) /\ Len(s \o r) = Len(s) + Len(r)
         /\ \A j \in 0..Len(s) : At(f, s \o r, j) = At(f, s, j)
         /\ \A j \in 1..Len(r) : At(f, s \o r, Len(s) + j) = At(g, r, j)
         /\ At(f, s \o r, Len(s) + Len(r) + 1) = f
<1>1. Len(s) \in Nat /\ Len(r) \in Nat
  OBVIOUS
<1>2. /\ s \o r \in Seq(C) /\ Len(s \o r) = Len(s) + Len(r)
      /\ \A j \in 1..(Len(s) + Len(r)) :
           (s \o r)[j] = IF j <= Len(s) THEN s[j] ELSE r[j - Len(s)]
  BY ConcatProperties
<1> DEFINE w == s \o r
<1> HIDE DEF w
<1>3. ASSUME NEW j \in 0..Len(s) PROVE At(f, w, j) = At(f, s, j)
  BY <1>1, <1>2 DEF At, w
<1>4. ASSUME NEW j \in 1..Len(r) PROVE At(f, w, Len(s) + j) = At(g, r, j)
  <2>1. /\ Len(s) + j \in 1..(Len(s) + Len(r)) /\ ~(Len(s) + j <= Len(s))
        /\ (Len(s) + j) - Len(s) = j
    BY <1>1
  <2>2. w[Len(s) + j] = r[j]
    BY <1>2, <2>1 DEF w
  <2> QED BY <1>2, <2>1, <2>2 DEF At, w
<1>5. At(f, w, Len(s) + Len(r) + 1) = f
  BY <1>1, <1>2 DEF At, w
<1> QED BY <1>2, <1>3, <1>4, <1>5 DEF w

\* No cell is on both rings.
Apart(f, s, g, r) == \A i, j \in Int : At(f, s, i) # At(g, r, j)

\* Apart from the head g, k is l with the ring of g behind the tail of f.
Rejoined(C, l, k, f, g) ==
  \A c \in C : c # g =>
    /\ k.next[c] = IF c = l.prev[g] THEN f
                   ELSE IF c = l.prev[f] THEN l.next[g] ELSE l.next[c]
    /\ k.prev[c] = IF c = f THEN l.prev[g]
                   ELSE IF c = l.next[g] THEN l.prev[f] ELSE l.prev[c]

\* Joining the rings of f and g at the tail of f gives the joined list,
\* whatever becomes of the head g.
LEMMA JoinSpells ==
  ASSUME NEW C, NEW l \in Links(C), NEW k, NEW f \in C, NEW g \in C,
         NEW s \in Seq(C), NEW r \in Seq(C), Distinct(f, s), Distinct(g, r),
         Spells(l, f, s), Spells(l, g, r), Apart(f, s, g, r), Len(r) # 0,
         Rejoined(C, l, k, f, g)
  PROVE  Spells(k, f, s \o r)
<1> DEFINE m == Len(s)
           n == Len(r)
           w == s \o r
           F(i) == At(f, s, i)
           G(i) == At(g, r, i)
<1>1. m \in Nat /\ n \in Nat /\ n >= 1 /\ Len(w) = m + n
  BY ConcatRing
<1>2. /\ \A j \in 0..m : At(f, w, j) = F(j)
      /\ \A j \in 1..n : At(f, w, m + j) = G(j)
      /\ At(f, w, m + n + 1) = f
  BY ConcatRing
<1>3. /\ \A i \in Int : F(i) \in C
      /\ \A i, j \in 0..m : F(i) = F(j) => i = j
      /\ \A i, j \in 1..(m + 1) : F(i) = F(j) => i = j
      /\ F(0) = f /\ F(m + 1) = f
  BY Ring
<1>4. /\ \A i \in Int : G(i) \in C
      /\ \A i, j \in 0..n : G(i) = G(j) => i = j
      /\ \A i, j \in 1..(n + 1) : G(i) = G(j) => i = j
      /\ G(0) = g /\ G(n + 1) = g
  BY Ring
<1>5. /\ \A i \in 0..m : l.next[F(i)] = F(i + 1) /\ l.prev[F(i + 1)] = F(i)
      /\ \A i \in 0..n : l.next[G(i)] = G(i + 1) /\ l.prev[G(i + 1)] = G(i)
  BY DEF Spells
<1>6. \A i, j \in Int : F(i) # G(j)
  BY DEF Apart
<1> HIDE DEF m, n, w, F, G
<1>7. l.prev[f] = F(m) /\ l.prev[g] = G(n) /\ l.next[g] = G(1)
  <2>1. m \in 0..m /\ n \in 0..n /\ 0 \in 0..n /\ 0 + 1 = 1
    BY <1>1
  <2> QED BY <1>3, <1>4, <1>5, <2>1
<1>8. \A c \in C : c # g =>
        /\ k.next[c] = IF c = G(n) THEN f ELSE IF c = F(m) THEN G(1) ELSE l.next[c]
        /\ k.prev[c] = IF c = f THEN G(n) ELSE IF c = G(1) THEN F(m) ELSE l.prev[c]
  BY <1>7 DEF Rejoined
<1>9. SUFFICES ASSUME NEW j \in 0..(m + n)
               PROVE  /\ k.next[At(f, w, j)] = At(f, w, j + 1)
                      /\ k.prev[At(f, w, j + 1)] = At(f, w, j)
  BY <1>1 DEF Spells, w
<1>10. CASE j < m
  <2>1. j \in 0..m /\ j + 1 \in 0..m /\ j + 1 \in 1..(m + 1) /\ m + 1 \in 1..(m + 1)
        /\ j # m /\ j + 1 # m + 1 /\ m \in 0..m /\ j \in Int /\ j + 1 \in Int
        /\ n \in Int /\ 1 \in Int /\ 0 \in Int
    BY <1>1, <1>10
  <2>2. At(f, w, j) = F(j) /\ At(f, w, j + 1) = F(j + 1)
    BY <1>2, <2>1
  <2>3. F(j) # F(m) /\ F(j + 1) # f
    BY <1>3, <2>1
  <2>4. F(j) # G(n) /\ F(j + 1) # G(1) /\ F(j) # g /\ F(j + 1) # g
    BY <1>4, <1>6, <2>1
  <2>5. F(j) \in C /\ F(j + 1) \in C
    BY <1>3, <2>1
  <2>6. l.next[F(j)] = F(j + 1) /\ l.prev[F(j + 1)] = F(j)
    BY <1>5, <2>1
  <2> QED BY <1>8, <2>2, <2>3, <2>4, <2>5, <2>6
<1>11. CASE j = m
  <2>1. m \in 0..m /\ 1 \in 1..n /\ m \in Int /\ n \in Int /\ 1 \in Int /\ 0 \in Int
        /\ 1 \in 0..n /\ 0 \in 0..n /\ 0 # 1
    BY <1>1
  <2>2. At(f, w, j) = F(m) /\ At(f, w, j + 1) = G(1)
    BY <1>2, <1>11, <2>1
  <2>3. F(m) # G(n) /\ F(m) # g /\ G(1) # f /\ G(1) # g
    BY <1>3, <1>4, <1>6, <2>1
  <2>4. F(m) \in C /\ G(1) \in C
    BY <1>3, <1>4, <2>1
  <2> QED BY <1>8, <2>2, <2>3, <2>4
<1>12. CASE m < j /\ j < m + n
  <2> DEFINE i == j - m
  <2>1. /\ i \in 1..n /\ i + 1 \in 1..n /\ i \in 0..n /\ i # n /\ n \in 0..n /\ i # 0
        /\ i + 1 \in 1..(n + 1) /\ 1 \in 1..(n + 1) /\ i + 1 # 1 /\ 0 \in 0..n
        /\ i + 1 \in 0..n /\ i + 1 # 0
        /\ i \in Int /\ i + 1 \in Int /\ m \in Int /\ 0 \in Int /\ j = m + i /\ j + 1 = m + (i + 1)
    BY <1>1, <1>12
  <2> HIDE DEF i
  <2>2. At(f, w, j) = G(i) /\ At(f, w, j + 1) = G(i + 1)
    BY <1>2, <2>1
  <2>3. G(i) # G(n) /\ G(i + 1) # G(1) /\ G(i) # g /\ G(i + 1) # g
    BY <1>4, <2>1
  <2>4. G(i) # F(m) /\ G(i + 1) # f
    BY <1>3, <1>6, <2>1
  <2>5. G(i) \in C /\ G(i + 1) \in C
    BY <1>4, <2>1
  <2>6. l.next[G(i)] = G(i + 1) /\ l.prev[G(i + 1)] = G(i)
    BY <1>5, <2>1
  <2> QED BY <1>8, <2>2, <2>3, <2>4, <2>5, <2>6
<1>13. CASE j = m + n
  <2>1. n \in 1..n /\ n \in 0..n /\ 0 \in 0..n /\ n # 0 /\ n \in Int /\ 0 \in Int
    BY <1>1
  <2>2. At(f, w, j) = G(n) /\ At(f, w, j + 1) = f
    BY <1>1, <1>2, <1>13, <2>1
  <2>3. G(n) # g /\ f # g
    BY <1>3, <1>4, <1>6, <2>1
  <2>4. G(n) \in C
    BY <1>4, <2>1
  <2> QED BY <1>8, <2>2, <2>3, <2>4
<1> QED BY <1>1, <1>10, <1>11, <1>12, <1>13

\* A head that init_head was called for is an empty list.
LEMMA EmptiedSpells ==
  ASSUME NEW C, NEW l, NEW k, NEW g \in C, Emptied(C, l, k, g)
  PROVE  k \in Links(C) /\ Spells(k, g, <<>>)
<1>1. k \in Links(C) /\ k.next[g] = g /\ k.prev[g] = g
  BY DEF Emptied
<1>2. At(g, <<>>, 0) = g /\ At(g, <<>>, 0 + 1) = g /\ Len(<<>>) = 0
  BY DEF At
<1> QED BY <1>1, <1>2 DEF Spells

\* concat_lists appends the second list to the first.  The second list is
\* empty then, if one of them was before.
LEMMA ConcatLists ==
  ASSUME NEW C, NEW l \in Links(C), NEW f \in C, NEW g \in C, NoNode \notin C,
         NEW s \in Seq(C), NEW r \in Seq(C), Distinct(f, s), Distinct(g, r),
         Spells(l, f, s), Spells(l, g, r), Apart(f, s, g, r)
  PROVE  LET k == concat_lists(l, f, g)
         IN  /\ k \in Links(C) /\ Spells(k, f, s \o r)
             /\ Len(s) = 0 \/ Len(r) = 0 => Spells(k, g, <<>>)
<1> DEFINE k == concat_lists(l, f, g)
           j(p) == join(l, p, f, l.next[g], l.prev[g])
<1>1. /\ l.next \in [C -> C] /\ l.prev \in [C -> C]
      /\ l.next[g] \in C /\ l.prev[g] \in C /\ l.prev[f] \in C
  BY DEF Links
<1>2. ASSUME NEW x, Emptied(C, x, k, g)
      PROVE  k \in Links(C) /\ Spells(k, g, <<>>)
  BY <1>2, EmptiedSpells
<1>3. At(f, s, 0) = f /\ At(f, s, 1) = l.next[f] /\ At(f, s, Len(s)) = l.prev[f]
      /\ At(g, r, 0) = g /\ At(g, r, 1) = l.next[g] /\ At(g, r, Len(r)) = l.prev[g]
  <2>0. Len(s) \in Nat /\ Len(r) \in Nat
    BY SMTT(60), LenProperties
  <2>1. 0 \in 0..Len(s) /\ Len(s) \in 0..Len(s) /\ 0 \in 0..Len(r) /\ Len(r) \in 0..Len(r)
        /\ 0 + 1 = 1
    BY <2>0
  <2>2. At(f, s, 0) = f /\ At(f, s, Len(s) + 1) = f /\ At(g, r, 0) = g /\ At(g, r, Len(r) + 1) = g
    BY Ring
  <2> QED BY <2>1, <2>2 DEF Spells
<1>4. CASE Len(r) = 0
  <2>1. l.next[g] = g
    <3>1. At(g, r, 1) = g
      BY <1>4 DEF At
    <3> QED BY <1>3, <3>1
  <2>2. concat_lists(l, f, g) = l
    BY <2>1 DEF concat_lists, get_first
  <2>3. r = <<>> /\ s \o r = s
    <3>1. r = <<>>
      BY <1>4
    <3> QED BY <3>1
  <2> QED BY <2>2, <2>3
<1>5. CASE Len(r) # 0
  <2>1. l.next[g] # g /\ l.prev[g] # g
    <3>1. 0 \in 0..Len(r) /\ 1 \in 0..Len(r) /\ Len(r) \in 0..Len(r) /\ 0 # 1
      BY <1>5
    <3> QED BY <1>3, <1>5, <3>1, Ring
  <2>2. ASSUME Rejoined(C, l, k, f, g) PROVE Spells(k, f, s \o r)
    <3> HIDE DEF k
    <3> QED BY <1>5, <2>2, JoinSpells
  <2>3. \A p \in C : Joined(C, l, j(p), p, f, l.next[g], l.prev[g])
    BY <1>1, Join
  <2>4. CASE l.next[f] = f
    <3>1. l.prev[f] = f
      <4>1. CASE Len(s) = 0
        BY <1>3, <4>1
      <4>2. CASE Len(s) # 0
        <5>1. 0 \in 0..Len(s) /\ 1 \in 0..Len(s) /\ 0 # 1
          BY <4>2
        <5> QED BY <1>3, <2>4, <5>1, Ring
      <4> QED BY <4>1, <4>2
    <3>2. k = init_head(j(f), g)
      BY <1>1, <2>1, <2>4 DEF concat_lists, get_first, get_last
    <3>3. Joined(C, l, j(f), f, f, l.next[g], l.prev[g])
      BY <2>3
    <3>4. j(f) \in Links(C)
      BY <3>3 DEF Joined
    <3> HIDE DEF j, k
    <3>5. Emptied(C, j(f), k, g)
      BY <3>2, <3>4, InitHead
    <3>6. Rejoined(C, l, k, f, g)
      BY <3>1, <3>3, <3>5 DEF Joined, Emptied, Rejoined
    <3> QED BY <1>2, <2>2, <3>5, <3>6 DEF k
  <2>5. CASE l.next[f] # f
    <3>1. l.prev[f] # f
      <4>1. CASE Len(s) = 0
        <5>1. At(f, s, 1) = f
          BY <4>1 DEF At
        <5> QED BY <1>3, <2>5, <5>1
      <4>2. CASE Len(s) # 0
        <5>1. 0 \in 0..Len(s) /\ Len(s) \in 0..Len(s)
          OBVIOUS
        <5> QED BY <1>3, <4>2, <5>1, Ring
      <4> QED BY <4>1, <4>2
    <3>2. k = j(l.prev[f])
      BY <1>1, <2>1, <2>5, <3>1 DEF concat_lists, get_first, get_last
    <3>3. Joined(C, l, k, l.prev[f], f, l.next[g], l.prev[g])
      BY <1>1, <2>3, <3>2
    <3>4. Len(s) # 0
      <4>1. SUFFICES ASSUME Len(s) = 0 PROVE FALSE
        OBVIOUS
      <4>2. At(f, s, 1) = f
        BY <4>1 DEF At
      <4> QED BY <1>3, <2>5, <4>2
    <3> HIDE DEF k
    <3>5. k \in Links(C) /\ Rejoined(C, l, k, f, g)
      BY <3>3 DEF Joined, Rejoined
    <3> QED BY <1>5, <2>2, <3>4, <3>5 DEF k
  <2> QED BY <2>4, <2>5
<1> QED BY <1>4, <1>5

-----------------------------------------------------------------------------
(* The invariant. *)

ListTypeOK ==
  links \in Links(Cell) /\ holds \in [Heads -> Seq(Node)] /\ live \in SUBSET Heads

\* Only the second head is ever out of use, and nothing is behind it then.
LiveHeads == First \in live /\ (Second \notin live => holds[Second] = <<>>)

ListInv == ListTypeOK /\ LiveHeads /\ ListsSpell

\* What the invariant says of one list and of the other.
LEMMA ListFacts ==
  ASSUME ListInv, NEW h \in Heads
  PROVE  /\ h \in Cell /\ holds[h] \in Seq(Cell) /\ holds[h] \in Seq(Node)
         /\ Distinct(h, holds[h]) /\ (h \in live => Spells(links, h, holds[h]))
         /\ \A g \in Heads : g # h => Apart(h, holds[h], g, holds[g])
<1>1. holds[h] \in Seq(Node)
  BY DEF ListInv, ListTypeOK
<1>2. \A i \in 1..Len(holds[h]) : holds[h][i] \in Node
  BY <1>1
<1>3. h \in Cell /\ h \notin Node
  BY ListAssumption DEF Cell, Heads
<1>4. holds[h] \in Seq(Cell)
  <2>1. Node \subseteq Cell
    BY DEF Cell
  <2> QED BY <1>1, <2>1
<1>5. Distinct(h, holds[h])
  <2>1. \A i, j \in 1..Len(holds[h]) : holds[h][i] = holds[h][j] => i = j
    BY DEF ListInv, ListsSpell
  <2> QED BY <1>2, <1>3, <2>1 DEF Distinct
<1>6. ASSUME NEW g \in Heads, g # h PROVE Apart(h, holds[h], g, holds[g])
  <2>1. holds[g] \in Seq(Node)
    BY DEF ListInv, ListTypeOK
  <2>2. \A i \in 1..Len(holds[g]) : holds[g][i] \in Node
    BY <2>1
  <2>3. g \notin Node
    BY ListAssumption DEF Heads
  <2>4. \A i \in 1..Len(holds[h]), j \in 1..Len(holds[g]) : holds[h][i] # holds[g][j]
    BY <1>6 DEF ListInv, ListsSpell
  <2> QED BY <1>2, <1>3, <1>6, <2>2, <2>3, <2>4 DEF Apart, At
<1>7. h \in live => Spells(links, h, holds[h])
  BY DEF ListInv, ListsSpell
<1> QED BY <1>1, <1>3, <1>4, <1>5, <1>6, <1>7

\* A call that changes one list and leaves the cells of the other alone
\* keeps the invariant.
LEMMA OneListChanges ==
  ASSUME ListInv, NEW h \in Heads, h \in live, NEW t \in Seq(Node), live' = live,
         holds' = [holds EXCEPT ![h] = t], links' \in Links(Cell), Spells(links', h, t),
         \A i, j \in 1..Len(t) : t[i] = t[j] => i = j,
         \A g \in Heads : g # h => \A i \in 1..Len(t), j \in 1..Len(holds[g]) : t[i] # holds[g][j],
         \A g \in Heads : g # h => \A i \in 0..Len(holds[g]) :
            /\ links'.next[At(g, holds[g], i)] = links.next[At(g, holds[g], i)]
            /\ links'.prev[At(g, holds[g], i)] = links.prev[At(g, holds[g], i)]
  PROVE  ListInv'
<1>1. holds \in [Heads -> Seq(Node)] /\ live \in SUBSET Heads
  BY DEF ListInv, ListTypeOK
<1>2. holds' \in [Heads -> Seq(Node)] /\ holds'[h] = t /\ \A g \in Heads : g # h => holds'[g] = holds[g]
  BY <1>1
<1>3. ASSUME NEW g \in live PROVE Spells(links', g, holds'[g])
  <2>1. CASE g = h
    BY <1>2, <2>1
  <2>2. CASE g # h
    <3>0. g \in Heads
      BY <1>1
    <3>1. Spells(links, g, holds[g]) /\ Len(holds[g]) \in Nat
      BY <3>0, ListFacts
    <3>2. Spells(links', g, holds[g])
      BY <2>2, <3>0, <3>1, Frame
    <3> QED BY <1>2, <2>2, <3>0, <3>2
  <2> QED BY <2>1, <2>2
<1>4. ASSUME NEW a \in Heads, NEW b \in Heads,
             NEW i \in 1..Len(holds'[a]), NEW j \in 1..Len(holds'[b]),
             holds'[a][i] = holds'[b][j]
      PROVE  a = b /\ i = j
  <2>0. \A x, y \in Heads : \A m \in 1..Len(holds[x]), n \in 1..Len(holds[y]) :
          holds[x][m] = holds[y][n] => x = y /\ m = n
    BY DEF ListInv, ListsSpell
  <2>1. CASE a = h /\ b = h
    BY <1>2, <1>4, <2>1
  <2>2. CASE a = h /\ b # h
    BY <1>2, <1>4, <2>2
  <2>3. CASE a # h /\ b = h
    BY <1>2, <1>4, <2>3
  <2>4. CASE a # h /\ b # h
    BY <1>2, <1>4, <2>0, <2>4
  <2> QED BY <2>1, <2>2, <2>3, <2>4
<1>5. LiveHeads'
  <2>1. Second \in Heads
    BY SMTT(30) DEF Heads
  <2> QED BY <1>2, <2>1 DEF ListInv, LiveHeads
<1> QED BY <1>1, <1>2, <1>3, <1>4, <1>5 DEF ListInv, ListTypeOK, ListsSpell

\* A node put anywhere into one list.
LEMMA InsertStep ==
  ASSUME ListInv, NEW n \in Node, n \notin Linked, NEW h \in Heads, h \in live, live' = live,
         NEW i \in 0..Len(holds[h]),
         links' = add_to_list(links, n, At(h, holds[h], i), At(h, holds[h], i + 1)),
         holds' = [holds EXCEPT ![h] = Inserted(holds[h], i, n)]
  PROVE  ListInv'
<1> DEFINE s == holds[h]
           t == Inserted(s, i, n)
<1>1. /\ h \in Cell /\ s \in Seq(Cell) /\ s \in Seq(Node) /\ Distinct(h, s) /\ Spells(links, h, s)
      /\ \A g \in Heads : g # h => Apart(h, s, g, holds[g])
  BY ListFacts
<1>2. n \in Cell /\ n \notin Heads /\ links \in Links(Cell)
  BY ListAssumption DEF Cell, Heads, ListInv, ListTypeOK
<1>3. \A g \in Heads : \A j \in 1..Len(holds[g]) : holds[g][j] # n
  BY DEF Linked
<1>4. n # h /\ \A j \in 1..Len(s) : s[j] # n
  BY <1>2, <1>3
<1>5. links' \in Links(Cell) /\ Spells(links', h, t) /\ Untouched(Cell, links, links', h, s, n)
  <2>1. i \in 0..Len(s) /\ links' = add_to_list(links, n, At(h, s, i), At(h, s, i + 1))
    OBVIOUS
  <2> HIDE DEF s
  <2> QED BY <1>1, <1>2, <1>4, <2>1, AddBetween
<1>6. t \in Seq(Node) /\ Len(t) = Len(s) + 1 /\ Len(s) \in Nat
  <2>1. t \in Seq(Node) /\ Len(t) = Len(s) + 1
    BY SMTT(30), <1>1, InsertedRing
  <2> QED BY <1>1, <2>1
<1>7. \A j \in 1..(Len(s) + 1) :
        t[j] = IF j <= i THEN s[j] ELSE IF j = i + 1 THEN n ELSE s[j - 1]
  BY DEF Inserted
<1>8. \A j, m \in 1..Len(s) : s[j] = s[m] => j = m
  BY SMTT(30), <1>1 DEF Distinct
<1>9. ASSUME NEW g \in Heads, g # h, NEW j \in 0..Len(holds[g])
      PROVE  LET c == At(g, holds[g], j)
             IN  links'.next[c] = links.next[c] /\ links'.prev[c] = links.prev[c]
  <2>1. /\ g \in Cell /\ holds[g] \in Seq(Cell) /\ Distinct(g, holds[g])
    BY ListFacts
  <2>2. At(g, holds[g], j) \in Cell
    <3>1. j \in Int
      OBVIOUS
    <3> QED BY <2>1, <3>1, Ring
  <2>3. At(g, holds[g], j) # n
    BY <1>2, <1>3 DEF At
  <2>4. \A m \in 0..Len(s) : At(h, s, m) # At(g, holds[g], j)
    BY <1>1, <1>9 DEF Apart
  <2> HIDE DEF s, t
  <2> QED BY <1>5, <2>2, <2>3, <2>4 DEF Untouched
<1>0. i \in 0..Len(s)
  OBVIOUS
<1> HIDE DEF s, t
<1> DEFINE o(j) == IF j <= i THEN j ELSE j - 1
<1>13. t[i + 1] = n
  BY <1>0, <1>6, <1>7
<1>14. ASSUME NEW j \in 1..Len(t), j # i + 1
       PROVE  o(j) \in 1..Len(s) /\ t[j] = s[o(j)]
  BY <1>0, <1>6, <1>7, <1>14
<1>15. \A j, m \in 1..Len(t) : j # i + 1 /\ m # i + 1 /\ o(j) = o(m) => j = m
  BY <1>0, <1>6
<1> HIDE DEF o
<1>10. \A j, m \in 1..Len(t) : t[j] = t[m] => j = m
  <2>4. SUFFICES ASSUME NEW j \in 1..Len(t), NEW m \in 1..Len(t), t[j] = t[m]
                 PROVE  j = m
    OBVIOUS
  <2>5. CASE j # i + 1 /\ m # i + 1
    <3>1. s[o(j)] = s[o(m)] /\ o(j) \in 1..Len(s) /\ o(m) \in 1..Len(s)
      BY <1>14, <2>4, <2>5
    <3>2. o(j) = o(m)
      BY <1>8, <3>1
    <3> QED BY <1>15, <2>5, <3>2
  <2>6. CASE j = i + 1 \/ m = i + 1
    BY SMTT(30), <1>4, <1>13, <1>14, <2>4, <2>6
  <2> QED BY <2>5, <2>6
<1>11. ASSUME NEW g \in Heads, g # h, NEW j \in 1..Len(t), NEW m \in 1..Len(holds[g])
       PROVE  t[j] # holds[g][m]
  <2>1. t[j] = n \/ \E x \in 1..Len(s) : t[j] = s[x]
    BY <1>13, <1>14
  <2>2. \A x \in 1..Len(s) : s[x] # holds[g][m]
    BY <1>11 DEF ListInv, ListsSpell, s
  <2> QED BY <1>3, <2>1, <2>2
<1>12. holds' = [holds EXCEPT ![h] = t]
  BY DEF s, t
<1> QED BY <1>5, <1>6, <1>9, <1>10, <1>11, <1>12, OneListChanges

\* Nodes can be added at either end.
LEMMA AddSteps ==
  ASSUME ListInv, NEW n \in Node, NEW h \in Heads, h \in live,
         use_add_to_tail(n, h) \/ use_add_to_head(n, h)
  PROVE  ListInv'
<1> DEFINE s == holds[h]
<1>1. s \in Seq(Node) /\ Len(s) \in Nat /\ Spells(links, h, s)
      /\ At(h, s, 0) = h /\ At(h, s, Len(s) + 1) = h
  <2>1. s \in Seq(Node) /\ s \in Seq(Cell) /\ h \in Cell /\ Distinct(h, s) /\ Spells(links, h, s)
    BY ListFacts
  <2> QED BY <2>1, Ring
<1>2. CASE use_add_to_tail(n, h)
  <2>1. links.prev[h] = At(h, s, Len(s))
    <3>1. Len(s) \in 0..Len(s)
      BY <1>1
    <3> QED BY <1>1, <3>1 DEF Spells
  <2>2. Append(s, n) = Inserted(s, Len(s), n)
    <3>1. Append(s, n) = [j \in 1..(Len(s) + 1) |-> IF j = Len(s) + 1 THEN n ELSE s[j]]
      BY SMTT(60), <1>1, AppendIsConcat, ConcatProperties
    <3>2. ASSUME NEW j \in 1..(Len(s) + 1)
          PROVE  (IF j = Len(s) + 1 THEN n ELSE s[j])
                   = IF j <= Len(s) THEN s[j] ELSE IF j = Len(s) + 1 THEN n ELSE s[j - 1]
      BY SMTT(30), <1>1
    <3> QED BY <3>1, <3>2 DEF Inserted
  <2>3. Len(s) \in 0..Len(s)
    BY <1>1
  <2> QED BY <1>1, <1>2, <2>1, <2>2, <2>3, InsertStep DEF use_add_to_tail, add_to_tail
<1>3. CASE use_add_to_head(n, h)
  <2>1. links.next[h] = At(h, s, 0 + 1)
    <3>1. 0 \in 0..Len(s)
      BY <1>1
    <3> QED BY <1>1, <3>1 DEF Spells
  <2>2. <<n>> \o s = Inserted(s, 0, n)
    <3>1. <<n>> \in Seq(Node) /\ Len(<<n>>) = 1 /\ <<n>>[1] = n
      OBVIOUS
    <3>2. <<n>> \o s = [j \in 1..(Len(s) + 1) |-> IF j <= 1 THEN n ELSE s[j - 1]]
      BY SMTT(60), <1>1, <3>1, ConcatProperties
    <3>3. ASSUME NEW j \in 1..(Len(s) + 1)
          PROVE  (IF j <= 1 THEN n ELSE s[j - 1])
                   = IF j <= 0 THEN s[j] ELSE IF j = 0 + 1 THEN n ELSE s[j - 1]
      BY <1>1
    <3> QED BY <3>2, <3>3 DEF Inserted
  <2>3. 0 \in 0..Len(s)
    BY <1>1
  <2> QED BY ZenonT(30), <1>1, <1>3, <2>1, <2>2, <2>3, InsertStep DEF use_add_to_head, add_to_head
<1> QED BY <1>2, <1>3

\* Any node of a list can be taken out.
LEMMA DelStep ==
  ASSUME ListInv, NEW h \in Heads, h \in live, NEW m \in 1..Len(holds[h]), use_del_entry(h, m)
  PROVE  ListInv'
<1> DEFINE s == holds[h]
           t == Without(s, m)
<1>1. /\ h \in Cell /\ s \in Seq(Cell) /\ s \in Seq(Node) /\ Distinct(h, s) /\ Spells(links, h, s)
      /\ \A g \in Heads : g # h => Apart(h, s, g, holds[g])
  BY ListFacts
<1>2. links \in Links(Cell) /\ Len(s) \in Nat
  BY <1>1 DEF ListInv, ListTypeOK
<1>3. links' \in Links(Cell) /\ Spells(links', h, t) /\ Untouched(Cell, links, links', h, s, h)
  <2>1. m \in 1..Len(s) /\ links' = del_entry(links, s[m])
    BY DEF use_del_entry
  <2> HIDE DEF s
  <2> QED BY <1>1, <1>2, <2>1, DelAt
<1>4. t \in Seq(Node) /\ Len(t) = Len(s) - 1
  BY <1>1, WithoutRing
<1>5. \A j \in 1..(Len(s) - 1) : t[j] = s[IF j < m THEN j ELSE j + 1]
  BY SMTT(30) DEF Without
<1>6. \A i, j \in 1..Len(s) : s[i] = s[j] => i = j
  BY <1>1 DEF Distinct
<1>7. holds' = [holds EXCEPT ![h] = t] /\ m \in 1..Len(s) /\ live' = live
  BY DEF use_del_entry
<1>8. ASSUME NEW g \in Heads, g # h, NEW j \in 0..Len(holds[g])
      PROVE  LET c == At(g, holds[g], j)
             IN  links'.next[c] = links.next[c] /\ links'.prev[c] = links.prev[c]
  <2>1. /\ g \in Cell /\ holds[g] \in Seq(Cell) /\ Distinct(g, holds[g])
    BY ListFacts
  <2>2. j \in Int /\ 0 \in Int /\ 0 \in 0..Len(s) /\ At(h, s, 0) = h
    BY <1>1, <1>2, Ring
  <2>3. At(g, holds[g], j) \in Cell
    BY <2>1, <2>2, Ring
  <2>4. \A i \in 0..Len(s) : At(h, s, i) # At(g, holds[g], j)
    BY <1>1, <1>8 DEF Apart
  <2>5. At(g, holds[g], j) # h
    BY <2>2, <2>4
  <2> HIDE DEF s, t
  <2> QED BY <1>3, <2>3, <2>4, <2>5 DEF Untouched
<1> HIDE DEF s, t
<1> DEFINE o(j) == IF j < m THEN j ELSE j + 1
<1>9. ASSUME NEW j \in 1..Len(t) PROVE o(j) \in 1..Len(s) /\ t[j] = s[o(j)]
  BY <1>2, <1>4, <1>5, <1>7
<1>10. \A i, j \in 1..Len(t) : o(i) = o(j) => i = j
  BY <1>2, <1>4, <1>7
<1> HIDE DEF o
<1>11. \A i, j \in 1..Len(t) : t[i] = t[j] => i = j
  BY <1>6, <1>9, <1>10
<1>12. ASSUME NEW g \in Heads, g # h, NEW i \in 1..Len(t), NEW j \in 1..Len(holds[g])
       PROVE  t[i] # holds[g][j]
  <2>1. \A x \in 1..Len(s) : s[x] # holds[g][j]
    BY <1>12 DEF ListInv, ListsSpell, s
  <2> QED BY <1>9, <2>1
<1> QED BY <1>3, <1>4, <1>7, <1>8, <1>11, <1>12, OneListChanges

\* The second list can be appended to the first.
LEMMA ConcatStep == ListInv /\ use_concat_lists => ListInv'
<1> SUFFICES ASSUME ListInv, use_concat_lists PROVE ListInv'
  OBVIOUS
<1> DEFINE s == holds[First]
           r == holds[Second]
<1>1. First \in Heads /\ Second \in Heads /\ First # Second /\ NoNode \notin Cell
      /\ \A g \in Heads : g = First \/ g = Second
  BY ListAssumption DEF Heads, Cell
<1>0. First \in live /\ Second \in live /\ live \in SUBSET Heads
  BY DEF ListInv, ListTypeOK, LiveHeads, use_concat_lists
<1>2. /\ First \in Cell /\ s \in Seq(Cell) /\ s \in Seq(Node) /\ Distinct(First, s)
      /\ Spells(links, First, s) /\ Apart(First, s, Second, r)
  BY <1>0, <1>1, ListFacts
<1>3. /\ Second \in Cell /\ r \in Seq(Cell) /\ r \in Seq(Node) /\ Distinct(Second, r)
      /\ Spells(links, Second, r)
  BY <1>0, <1>1, ListFacts
<1>4. links \in Links(Cell) /\ holds \in [Heads -> Seq(Node)]
  BY DEF ListInv, ListTypeOK
<1>5. /\ links' = concat_lists(links, First, Second)
      /\ holds' = [holds EXCEPT ![First] = s \o r, ![Second] = <<>>]
      /\ live' = IF s # <<>> /\ r # <<>> THEN live \ {Second} ELSE live
  BY DEF use_concat_lists
<1>6. /\ links' \in Links(Cell) /\ Spells(links', First, s \o r)
      /\ Len(s) = 0 \/ Len(r) = 0 => Spells(links', Second, <<>>)
  <2> HIDE DEF s, r
  <2> QED BY <1>1, <1>2, <1>3, <1>4, <1>5, ConcatLists
<1>7. s \o r \in Seq(Node) /\ <<>> \in Seq(Node) /\ Len(<<>>) = 0
  BY <1>2, <1>3
<1>8. holds' \in [Heads -> Seq(Node)] /\ holds'[First] = s \o r /\ holds'[Second] = <<>>
  <2> HIDE DEF s, r
  <2> QED BY <1>1, <1>4, <1>5, <1>7
<1>9. \A i, j \in 1..Len(s \o r) : (s \o r)[i] = (s \o r)[j] => i = j
  <2> DEFINE w == s \o r
             m == Len(s)
             n == Len(r)
  <2>1. /\ m \in Nat /\ n \in Nat /\ Len(w) = m + n
        /\ \A j \in 1..(m + n) : w[j] = IF j <= m THEN s[j] ELSE r[j - m]
    <3> HIDE DEF s, r
    <3>1. Len(s) \in Nat /\ Len(r) \in Nat
      BY <1>2, <1>3
    <3> QED BY <1>2, <1>3, <3>1, ConcatProperties
  <2>2. /\ \A i, j \in 1..m : s[i] = s[j] => i = j
        /\ \A i, j \in 1..n : r[i] = r[j] => i = j
    BY <1>2, <1>3 DEF Distinct
  <2>3. \A i \in 1..m, j \in 1..n : s[i] # r[j]
    BY <1>1 DEF ListInv, ListsSpell
  <2> HIDE DEF s, r, w, m, n
  <2>4. /\ \A j \in 1..m : w[j] = s[j]
        /\ \A j \in (m + 1)..(m + n) : j - m \in 1..n /\ w[j] = r[j - m]
    BY SMTT(30), <2>1
  <2>5. ASSUME NEW i \in 1..Len(w), NEW j \in 1..Len(w), w[i] = w[j] PROVE i = j
    <3>1. CASE i \in 1..m /\ j \in 1..m
      BY <2>2, <2>4, <2>5, <3>1
    <3>2. CASE i \in 1..m /\ j \in (m + 1)..(m + n)
      BY <2>3, <2>4, <2>5, <3>2
    <3>3. CASE i \in (m + 1)..(m + n) /\ j \in 1..m
      BY <2>3, <2>4, <2>5, <3>3
    <3>4. CASE i \in (m + 1)..(m + n) /\ j \in (m + 1)..(m + n)
      <4>1. i - m \in 1..n /\ j - m \in 1..n /\ r[i - m] = r[j - m]
        BY <2>4, <2>5, <3>4
      <4>2. i - m = j - m
        BY <2>2, <4>1
      <4> QED BY <2>1, <3>4, <4>2
    <3> QED BY <2>1, <3>1, <3>2, <3>3, <3>4
  <2> QED BY <2>5 DEF w
<1>10. ASSUME NEW a \in Heads, NEW b \in Heads,
             NEW i \in 1..Len(holds'[a]), NEW j \in 1..Len(holds'[b]),
             holds'[a][i] = holds'[b][j]
       PROVE  a = b /\ i = j
  <2> HIDE DEF s, r
  <2>1. 1..Len(holds'[Second]) = {}
    BY <1>8
  <2>2. a # Second /\ b # Second
    BY ONLY <1>10, <2>1
  <2>3. a = First /\ b = First
    BY ONLY <1>1, <1>10, <2>2
  <2> QED BY <1>8, <1>9, <1>10, <2>3
<1>11. live' \in SUBSET Heads /\ First \in live'
  BY <1>0, <1>1, <1>5
<1>12. ASSUME NEW g \in live' PROVE Spells(links', g, holds'[g])
  <2> HIDE DEF s, r
  <2>1. CASE g = First
    BY <1>6, <1>8, <2>1
  <2>2. CASE g # First
    <3>1. g = Second
      BY <1>1, <1>11, <1>12, <2>2
    <3>2. s = <<>> \/ r = <<>>
      BY <1>5, <1>12, <3>1
    <3>3. Len(s) = 0 \/ Len(r) = 0
      BY <3>2
    <3> QED BY <1>6, <1>8, <3>1, <3>3
  <2> QED BY <2>1, <2>2
<1>13. LiveHeads'
  BY <1>8, <1>11 DEF LiveHeads
<1> QED BY SMTT(30), <1>6, <1>8, <1>10, <1>11, <1>12, <1>13 DEF ListInv, ListTypeOK, ListsSpell

\* A head out of use can be initialised again.
LEMMA InitStep ==
  ASSUME ListInv, NEW h \in Heads, h \notin live, use_init_head(h)
  PROVE  ListInv'
<1>1. h = Second /\ holds[h] = <<>> /\ First \in live /\ live \in SUBSET Heads
      /\ links \in Links(Cell)
  BY DEF ListInv, ListTypeOK, LiveHeads, Heads
<1>2. links' = init_head(links, h) /\ live' = live \cup {h} /\ holds' = holds
  BY DEF use_init_head
<1>3. h \in Cell
  BY DEF Cell
<1>4. Emptied(Cell, links, links', h)
  BY <1>1, <1>2, <1>3, InitHead
<1>5. links' \in Links(Cell) /\ Spells(links', h, <<>>)
  BY SMTT(30), <1>3, <1>4, EmptiedSpells
<1>6. ASSUME NEW g \in live PROVE Spells(links', g, holds[g])
  <2>1. g \in Heads /\ g # h
    BY <1>1, <1>6
  <2>2. /\ g \in Cell /\ holds[g] \in Seq(Cell) /\ Distinct(g, holds[g])
        /\ Spells(links, g, holds[g]) /\ Apart(g, holds[g], h, holds[h])
    BY <2>1, ListFacts
  <2>3. Len(holds[g]) \in Nat
    BY <2>2
  <2>4. ASSUME NEW i \in 0..Len(holds[g])
        PROVE  LET c == At(g, holds[g], i)
               IN  links'.next[c] = links.next[c] /\ links'.prev[c] = links.prev[c]
    <3>1. i \in Int /\ 0 \in Int /\ At(h, holds[h], 0) = h
      BY <1>1 DEF At
    <3>2. At(g, holds[g], i) # h
      BY <2>2, <3>1 DEF Apart
    <3>3. At(g, holds[g], i) \in Cell
      BY <2>2, <3>1, Ring
    <3> QED BY <1>4, <3>2, <3>3 DEF Emptied
  <2> QED BY <2>2, <2>3, <2>4, Frame
<1>7. LiveHeads' /\ live' \in SUBSET Heads
  BY <1>1, <1>2 DEF LiveHeads
<1>8. \A g \in live' : Spells(links', g, holds'[g])
  BY <1>1, <1>2, <1>5, <1>6
<1> QED BY <1>2, <1>5, <1>7, <1>8 DEF ListInv, ListTypeOK, ListsSpell

(***************************************************************************)
(* For any set of nodes: after any calls of list.c the lists hold exactly  *)
(* the nodes they should, in order and in both directions.                 *)
(***************************************************************************)
THEOREM ListsSpellTheorem == ListSpec => []ListsSpell
<1>1. ListInit => ListInv
  <2> SUFFICES ASSUME ListInit PROVE ListInv
    OBVIOUS
  <2>1. links \in Links(Cell) /\ \A c \in Cell : links.next[c] = c /\ links.prev[c] = c
    BY DEF ListInit, Links
  <2>2. \A h \in Heads : holds[h] = <<>> /\ h \in Cell
    BY DEF ListInit, Cell
  <2>3. holds \in [Heads -> Seq(Node)] /\ live = Heads /\ LiveHeads
    BY DEF ListInit, LiveHeads, Heads
  <2>4. ASSUME NEW h \in Heads PROVE Spells(links, h, holds[h])
    <3>1. Len(holds[h]) = 0 /\ At(h, holds[h], 0) = h /\ At(h, holds[h], 0 + 1) = h
      BY <2>2 DEF At
    <3> QED BY <2>1, <2>2, <3>1 DEF Spells
  <2>5. \A h \in Heads : Len(holds[h]) = 0
    BY <2>2
  <2> QED BY <2>1, <2>3, <2>4, <2>5 DEF ListInv, ListTypeOK, ListsSpell
<1>2. ListInv /\ [ListNext]_listVars => ListInv'
  <2> SUFFICES ASSUME ListInv, [ListNext]_listVars PROVE ListInv'
    OBVIOUS
  <2>0. live \in SUBSET Heads
    BY DEF ListInv, ListTypeOK
  <2>1. CASE UNCHANGED listVars
    BY <2>1 DEF listVars, ListInv, ListTypeOK, LiveHeads, ListsSpell
  <2>2. ASSUME NEW n \in Node, NEW h \in live, use_add_to_tail(n, h) \/ use_add_to_head(n, h)
        PROVE  ListInv'
    BY <2>0, <2>2, AddSteps
  <2>3. ASSUME NEW h \in live, NEW k \in 1..Len(holds[h]), use_del_entry(h, k)
        PROVE  ListInv'
    BY <2>0, <2>3, DelStep
  <2>4. CASE use_concat_lists
    BY <2>4, ConcatStep
  <2>5. ASSUME NEW h \in Heads \ live, use_init_head(h) PROVE ListInv'
    BY <2>5, InitStep
  <2> QED BY <2>1, <2>2, <2>3, <2>4, <2>5 DEF ListNext
<1>3. ListInv => ListsSpell
  BY DEF ListInv
<1> QED BY <1>1, <1>2, <1>3, PTL DEF ListSpec
=============================================================================
