---------------------------- MODULE DeviceLists ----------------------------
(***************************************************************************)
(* The lists of LPublishManager and LRegisterManager, pointer by pointer:  *)
(* add() and remove() are the same code in both.  order is what the list   *)
(* stands for: the elements in flight, oldest first.                       *)
(***************************************************************************)
EXTENDS LinkedList

CONSTANTS Elements,   \* the memory for elements
          InFlight    \* bound on elements at a time

DeviceListsAssumption ==
    InFlight \in 1..Cardinality(Elements) /\ Nil \notin Elements

VARIABLES list, order

vars == <<list, order>>

Init == list = EmptyList(Elements) /\ order = <<>>

\* add: calloc clears the links.
Added(l, n) ==
    LET new == [l EXCEPT !.live = @ \cup {n}, !.next[n] = Nil,
                         !.prev[n] = l.tail, !.tail = n]
    IN  IF l.tail = Nil THEN [new EXCEPT !.head = n]
        ELSE [new EXCEPT !.next[l.tail] = n]

\* remove: the element after the head becomes the tail; the one after an
\* element in the middle keeps its prev.
Removed(l, n) ==
    LET p == l.prev[n]
        s == l.next[n]
        freed == [l EXCEPT !.live = @ \ {n}]
    IN  IF p = Nil
        THEN IF s = Nil THEN [freed EXCEPT !.head = Nil, !.tail = Nil]
             ELSE [freed EXCEPT !.head = s, !.prev[s] = Nil, !.tail = s]
        ELSE [freed EXCEPT !.next[p] = s, !.tail = IF s = Nil THEN p ELSE @]

\* A publication or a registration begins.
Begin(n) == /\ n \notin list.live /\ Len(order) < InFlight
            /\ list' = Added(list, n) /\ order' = Append(order, n)

\* getElement finds the one that the answer is about.
Answered(n) == /\ \E i \in DOMAIN Walk(list) : Walk(list)[i] = n
               /\ list' = Removed(list, n)
               /\ order' = SelectSeq(order, LAMBDA e : e # n)

Next == \E n \in Elements : Begin(n) \/ Answered(n)

Spec == Init /\ [][Next]_vars

-----------------------------------------------------------------------------
(* What is in flight is in the list, in order: its answer finds it and its *)
(* time-out repeats it.                                                    *)
Listed == Walk(list) = order
=============================================================================
