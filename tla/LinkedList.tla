----------------------------- MODULE LinkedList -----------------------------
(***************************************************************************)
(* The doubly linked lists of the gateway, pointer by pointer.  A list is  *)
(* a record of its head and tail, the links of every node and the nodes    *)
(* that are allocated.  Nil is nullptr.                                    *)
(***************************************************************************)
EXTENDS Integers, Sequences, FiniteSets

CONSTANT Nil

EmptyList(nodes) ==
    [head |-> Nil, tail |-> Nil, live |-> {},
     prev |-> [n \in nodes |-> Nil], next |-> [n \in nodes |-> Nil]]

\* The nodes a walk along _next meets, at most as many as there are nodes.
Walk(l) ==
    LET nodes == DOMAIN l.next
        after(n) == IF n = Nil THEN Nil ELSE l.next[n]
        at[k \in 1..Cardinality(nodes)] ==
            IF k = 1 THEN l.head ELSE after(at[k - 1])
    IN  SelectSeq([k \in 1..Cardinality(nodes) |-> at[k]], LAMBDA n : n # Nil)

\* A new node at the tail.
Linked(l, n) ==
    LET fresh == [l EXCEPT !.live = @ \cup {n}, !.tail = n, !.next[n] = Nil]
    IN  IF l.head = Nil THEN [fresh EXCEPT !.head = n, !.prev[n] = Nil]
        ELSE [fresh EXCEPT !.prev[n] = l.tail, !.next[l.tail] = n]

\* MessageIdTable::clear
Unlinked(l, n) ==
    LET p == l.prev[n]
        s == l.next[n]
        freed == [l EXCEPT !.live = @ \ {n}, !.prev[n] = Nil, !.next[n] = Nil]
    IN  IF p = Nil
        THEN IF s = Nil THEN [freed EXCEPT !.head = Nil, !.tail = Nil]
             ELSE [freed EXCEPT !.head = s, !.prev[s] = Nil]
        ELSE IF s = Nil THEN [freed EXCEPT !.next[p] = Nil, !.tail = p]
        ELSE [freed EXCEPT !.next[p] = s, !.prev[s] = p]

\* Variant: a head that is the only node stays the tail.
CutKeepTail(l, n) ==
    LET p == l.prev[n]
        s == l.next[n]
        freed == [l EXCEPT !.live = @ \ {n}]
    IN  IF p = Nil
        THEN IF s = Nil THEN [freed EXCEPT !.head = Nil]
             ELSE [freed EXCEPT !.head = s]
        ELSE IF s # Nil THEN [freed EXCEPT !.next[p] = s]
        ELSE [freed EXCEPT !.next[p] = Nil, !.tail = p]

\* AggregateTopicElement::eraseClient and AggregateTopicTable::erase: the
\* node after one in the middle keeps its _prev, and the deleted node its
\* links, as freed memory usually does.
Cut(l, n) ==
    LET p == l.prev[n]
        s == l.next[n]
        freed == [l EXCEPT !.live = @ \ {n}]
    IN  IF p = Nil
        THEN IF s = Nil THEN [freed EXCEPT !.head = Nil, !.tail = Nil]
             ELSE [freed EXCEPT !.head = s, !.prev[s] = Nil]
        ELSE IF s # Nil THEN [freed EXCEPT !.next[p] = s]
        ELSE [freed EXCEPT !.next[p] = Nil, !.tail = p]
=============================================================================
