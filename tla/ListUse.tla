------------------------------ MODULE ListUse ------------------------------
(***************************************************************************)
(* Two lists of kern/list/list.c used the way the kernel uses a task's     *)
(* child lists: nodes are added at either end of either list, taken out of *)
(* the middle, and the second list is appended to the first when its owner *)
(* vanishes (wait_vanish.c:116-117).  concat_lists then leaves the second  *)
(* head as it is, unless the first list was empty, and it is of no use     *)
(* until it is initialised again, when its memory becomes part of another  *)
(* task (task.c:79-85).  holds is what the lists are meant to hold, as     *)
(* plain sequences.                                                        *)
(***************************************************************************)
EXTENDS List

CONSTANTS Node, First, Second

ASSUME ListAssumption == /\ First # Second
                         /\ First \notin Node /\ Second \notin Node
                         /\ NoNode \notin Node \cup {First, Second}

VARIABLES links,   \* the heap of list_heads
          holds,   \* [head -> the nodes its list should hold, in order]
          live     \* the heads that are heads of lists

listVars == <<links, holds, live>>

Heads == {First, Second}
Cell == Node \cup Heads
Linked == UNION {{holds[h][i] : i \in 1..Len(holds[h])} : h \in Heads}

ListInit ==
  /\ links = [next |-> [c \in Cell |-> c], prev |-> [c \in Cell |-> c]]
  /\ holds = [h \in Heads |-> <<>>]
  /\ live = Heads

use_add_to_tail(n, h) ==
  /\ n \notin Linked
  /\ links' = add_to_tail(links, n, h)
  /\ holds' = [holds EXCEPT ![h] = Append(@, n)]
  /\ UNCHANGED live

use_add_to_head(n, h) ==
  /\ n \notin Linked
  /\ links' = add_to_head(links, n, h)
  /\ holds' = [holds EXCEPT ![h] = <<n>> \o @]
  /\ UNCHANGED live

Without(s, k) == [i \in 1..(Len(s) - 1) |-> s[IF i < k THEN i ELSE i + 1]]

use_del_entry(h, k) ==
  /\ links' = del_entry(links, holds[h][k])
  /\ holds' = [holds EXCEPT ![h] = Without(@, k)]
  /\ UNCHANGED live

\* do_vanish hands the family over.
use_concat_lists ==
  /\ Second \in live
  /\ links' = concat_lists(links, First, Second)
  /\ holds' = [holds EXCEPT ![First] = @ \o holds[Second], ![Second] = <<>>]
  /\ live' = IF holds[First] # <<>> /\ holds[Second] # <<>> THEN live \ {Second} ELSE live

\* The next task to use that memory runs init_head on it.
use_init_head(h) ==
  /\ links' = init_head(links, h)
  /\ live' = live \cup {h}
  /\ UNCHANGED holds

ListNext ==
  \/ \E n \in Node, h \in live : use_add_to_tail(n, h) \/ use_add_to_head(n, h)
  \/ \E h \in live : \E k \in 1..Len(holds[h]) : use_del_entry(h, k)
  \/ use_concat_lists
  \/ \E h \in Heads \ live : use_init_head(h)

ListSpec == ListInit /\ [][ListNext]_listVars

-----------------------------------------------------------------------------
(***************************************************************************)
(* After any sequence of list.c calls the lists hold exactly the nodes     *)
(* they should, in order, forwards and backwards, and no node is in two    *)
(* places.                                                                 *)
(***************************************************************************)
ListsSpell == /\ \A h \in live : Spells(links, h, holds[h])
              /\ \A h, g \in Heads : \A i \in 1..Len(holds[h]), j \in 1..Len(holds[g]) :
                   holds[h][i] = holds[g][j] => h = g /\ i = j
=============================================================================
