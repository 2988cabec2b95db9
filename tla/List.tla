-------------------------------- MODULE List --------------------------------
(***************************************************************************)
(* kern/list/list.c: the circular doubly linked list with a dummy head     *)
(* that every queue, hash bucket and family list of the kernel is made of. *)
(*                                                                         *)
(* A heap of list_heads is a record of two functions, next and prev, over  *)
(* the addresses of the nodes and heads.  Every operator below returns the *)
(* heap the C function leaves behind, store by store: del_entry does not   *)
(* reset the node, and concat_lists re-initialises the second head only    *)
(* when the first list was empty.                                          *)
(***************************************************************************)
EXTENDS Integers, Sequences

CONSTANT NoNode   \* NULL as a list_head *

\* The two kinds of store list.c makes: p->next = q and p->prev = q.
set_next(l, p, q) == [next |-> [l.next EXCEPT ![p] = q], prev |-> l.prev]
set_prev(l, p, q) == [next |-> l.next, prev |-> [l.prev EXCEPT ![p] = q]]

init_head(l, head) == set_prev(set_next(l, head, head), head, head)

add_to_list(l, node, prev, next) ==
  LET own == set_prev(set_next(l, node, next), node, prev)
  IN  set_prev(set_next(own, prev, node), next, node)

add_to_tail(l, node, head) == add_to_list(l, node, l.prev[head], head)

add_to_head(l, node, head) == add_to_list(l, node, head, l.next[head])

\* fault: only the forward link is repaired.
del_forward(l, node) == set_next(l, l.prev[node], l.next[node])

del_entry(l, node) ==
  LET bypassed == set_next(l, l.prev[node], l.next[node])
  IN  set_prev(bypassed, bypassed.next[node], bypassed.prev[node])

get_first(l, head) == IF l.next[head] = head THEN NoNode ELSE l.next[head]

get_last(l, head) == IF l.prev[head] = head THEN NoNode ELSE l.prev[head]

\* The nodes from head_two to tail_two follow the node at, and first again
\* follows them.
join(l, at, first, head_two, tail_two) ==
  set_prev(set_next(set_prev(set_next(l, at, head_two), head_two, at),
                    tail_two, first), first, tail_two)

concat_lists(l, first, second) ==
  LET tail_one == get_last(l, first)
      head_two == get_first(l, second)
      tail_two == get_last(l, second)
  IN  IF head_two = NoNode THEN l
      ELSE IF get_first(l, first) = NoNode
      THEN init_head(join(l, first, first, head_two, tail_two), second)
      ELSE join(l, tail_one, first, head_two, tail_two)

-----------------------------------------------------------------------------
\* The i-th node of the ring of head and the nodes of s; the ring starts and
\* ends at the head.
At(head, s, i) == IF i \in 1..Len(s) THEN s[i] ELSE head

\* The list at head holds the nodes of s, in that order, in both directions.
Spells(l, head, s) ==
  \A i \in 0..Len(s) : /\ l.next[At(head, s, i)] = At(head, s, i + 1)
                       /\ l.prev[At(head, s, i + 1)] = At(head, s, i)
=============================================================================
