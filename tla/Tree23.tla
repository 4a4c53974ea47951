------------------------------- MODULE Tree23 -------------------------------
(***************************************************************************)
(* The 2-3 tree of MQTTSNGWProcess.h as a map from keys to values.  The    *)
(* nodes are values: the code changes them in place and shares none.       *)
(***************************************************************************)
EXTENDS Integers

CONSTANTS Keys, Vals, Null
VARIABLES root,  \* _root
          map    \* what was added and not removed since: a function of the keys
vars == <<root, map>>

\* The constructors: of a node with one element, with two, of the node that an
\* insertion or a removal hands up to its parent.
BiNode(e, l, r) == [type |-> 2, e0 |-> e, e1 |-> Null, left |-> l, midle |-> Null, right |-> r]
TriNode(e0, e1, l, m, r) ==
    [type |-> 3, e0 |-> e0, e1 |-> e1, left |-> l, midle |-> m, right |-> r]
InsertActive(e, l, r) == [BiNode(e, l, r) EXCEPT !.type = -2]
DeleteActive(m) == [TriNode(Null, Null, Null, m, Null) EXCEPT !.type = -1]

Is(n, type) == n # Null /\ n.type = type

-----------------------------------------------------------------------------
(* add                                                                     *)

AddLeft(n) ==
    LET l == n.left
    IN  CASE ~Is(l, -2) -> n
          [] Is(l, -2) /\ n.type = 2 -> TriNode(l.e0, n.e0, l.left, l.right, n.right)
          [] Is(l, -2) /\ n.type = 3 ->
             InsertActive(n.e0, [l EXCEPT !.type = 2], BiNode(n.e1, n.midle, n.right))

AddRight(n) ==
    LET r == n.right
    IN  CASE ~Is(r, -2) -> n
          [] Is(r, -2) /\ n.type = 2 -> TriNode(n.e0, r.e0, n.left, r.left, r.right)
          [] Is(r, -2) /\ n.type = 3 ->
             InsertActive(n.e1, BiNode(n.e0, n.left, n.midle), [r EXCEPT !.type = 2])

\* Variant: the outer subtrees change sides.
AddMidleSwapped(n) ==
    LET m == n.midle
    IN  IF Is(m, -2)
        THEN InsertActive(m.e0, BiNode(n.e0, m.left, n.left), BiNode(n.e1, m.right, n.right))
        ELSE n

AddMidle(n) ==
    LET m == n.midle
    IN  IF Is(m, -2)
        THEN InsertActive(m.e0, BiNode(n.e0, n.left, m.left), BiNode(n.e1, m.right, n.right))
        ELSE n

RECURSIVE Insert(_, _)
Insert(n, e) ==
    IF n = Null THEN InsertActive(e, Null, Null)
    ELSE CASE e.key < n.e0.key -> AddLeft([n EXCEPT !.left = Insert(@, e)])
           [] e.key = n.e0.key -> [n EXCEPT !.e0 = e]
           [] e.key > n.e0.key /\ n.type = 3 /\ e.key < n.e1.key ->
              AddMidle([n EXCEPT !.midle = Insert(@, e)])
           [] e.key > n.e0.key /\ n.type = 3 /\ e.key = n.e1.key -> [n EXCEPT !.e1 = e]
           [] OTHER -> AddRight([n EXCEPT !.right = Insert(@, e)])

Added(key, val) ==
    LET n == Insert(root, [key |-> key, val |-> val])
    IN  [n EXCEPT !.type = IF @ = -2 THEN 2 ELSE @]

-----------------------------------------------------------------------------
(* remove: a subtree that has become lower is taken from its neighbour     *)

RemoveLeft2(n) ==
    LET l == n.left  r == n.right
    IN  CASE ~Is(l, -1) -> n
          [] Is(l, -1) /\ r.type = 2 ->
             DeleteActive(TriNode(n.e0, r.e0, l.midle, r.left, r.right))
          [] Is(l, -1) /\ r.type = 3 ->
             BiNode(r.e0, BiNode(n.e0, l.midle, r.left), BiNode(r.e1, r.midle, r.right))

RemoveRight2(n) ==
    LET l == n.left  r == n.right
    IN  CASE ~Is(r, -1) -> n
          [] Is(r, -1) /\ l.type = 2 ->
             DeleteActive(TriNode(l.e0, n.e0, l.left, l.right, r.midle))
          [] Is(r, -1) /\ l.type = 3 ->
             BiNode(l.e1, BiNode(l.e0, l.left, l.midle), BiNode(n.e0, l.right, r.midle))

RemoveLeft3(n) ==
    LET l == n.left  m == n.midle
    IN  CASE ~Is(l, -1) -> n
          [] Is(l, -1) /\ m.type = 2 ->
             BiNode(n.e1, TriNode(n.e0, m.e0, l.midle, m.left, m.right), n.right)
          [] Is(l, -1) /\ m.type = 3 ->
             TriNode(m.e0, n.e1, BiNode(n.e0, l.midle, m.left),
                     BiNode(m.e1, m.midle, m.right), n.right)

RemoveMidle3(n) ==
    LET m == n.midle  r == n.right
    IN  CASE ~Is(m, -1) -> n
          [] Is(m, -1) /\ r.type = 2 ->
             BiNode(n.e0, n.left, TriNode(n.e1, r.e0, m.midle, r.left, r.right))
          [] Is(m, -1) /\ r.type = 3 ->
             TriNode(n.e0, r.e0, n.left, BiNode(n.e1, m.midle, r.left),
                     BiNode(r.e1, r.midle, r.right))

RemoveRight3(n) ==
    LET m == n.midle  r == n.right
    IN  CASE ~Is(r, -1) -> n
          [] Is(r, -1) /\ m.type = 2 ->
             BiNode(n.e0, n.left, TriNode(m.e0, n.e1, m.left, m.right, r.midle))
          [] Is(r, -1) /\ m.type = 3 ->
             TriNode(n.e0, m.e1, n.left, BiNode(m.e0, m.left, m.midle),
                     BiNode(n.e1, m.right, r.midle))

RemoveRight(n) == IF n.type = 2 THEN RemoveRight2(n) ELSE RemoveRight3(n)

\* removeMax: the largest element and the subtree without it
RECURSIVE RemoveMax(_)
RemoveMax(n) ==
    IF n.right = Null
    THEN IF n.type = 2 THEN [elm |-> n.e0, node |-> DeleteActive(Null)]
                       ELSE [elm |-> n.e1, node |-> BiNode(n.e0, Null, Null)]
    ELSE LET max == RemoveMax(n.right)
         IN  [max EXCEPT !.node = RemoveRight([n EXCEPT !.right = max.node])]

RemoveFirst(n) ==
    LET max == RemoveMax(n.left)
        new == [n EXCEPT !.left = max.node, !.e0 = max.elm]
    IN  CASE n.left = Null /\ n.type = 2 -> DeleteActive(Null)
          [] n.left = Null /\ n.type = 3 -> BiNode(n.e1, Null, Null)
          [] n.left # Null -> IF n.type = 2 THEN RemoveLeft2(new) ELSE RemoveLeft3(new)

RemoveSecond(n) ==
    LET max == RemoveMax(n.midle)
    IN  IF n.midle = Null THEN BiNode(n.e0, Null, Null)
        ELSE RemoveMidle3([n EXCEPT !.midle = max.node, !.e1 = max.elm])

RECURSIVE Delete(_, _)
Delete(n, key) ==
    IF n = Null THEN Null
    ELSE CASE key < n.e0.key -> LET new == [n EXCEPT !.left = Delete(@, key)]
                                IN  IF n.type = 2 THEN RemoveLeft2(new) ELSE RemoveLeft3(new)
           [] key = n.e0.key -> RemoveFirst(n)
           [] key > n.e0.key /\ n.type = 3 /\ key < n.e1.key ->
              RemoveMidle3([n EXCEPT !.midle = Delete(@, key)])
           [] key > n.e0.key /\ n.type = 3 /\ key = n.e1.key -> RemoveSecond(n)
           [] OTHER -> RemoveRight([n EXCEPT !.right = Delete(@, key)])

Removed(key) ==
    LET n == Delete(root, key) IN IF Is(n, -1) THEN n.midle ELSE n

-----------------------------------------------------------------------------
(* find and getVal                                                         *)

RECURSIVE Search(_, _)
Search(n, key) ==
    IF n = Null THEN Null
    ELSE CASE key < n.e0.key -> Search(n.left, key)
           [] key = n.e0.key -> n.e0
           [] key > n.e0.key /\ n.type = 3 /\ key < n.e1.key -> Search(n.midle, key)
           [] key > n.e0.key /\ n.type = 3 /\ key = n.e1.key -> n.e1
           [] OTHER -> Search(n.right, key)

find(key) == Search(root, key) # Null
getVal(key) == IF find(key) THEN Search(root, key).val ELSE Null

-----------------------------------------------------------------------------
Init == root = Null /\ map = [k \in Keys |-> Null]

add(key, val) == root' = Added(key, val) /\ map' = [map EXCEPT ![key] = val]

remove(key) == root' = Removed(key) /\ map' = [map EXCEPT ![key] = Null]

Next == \E key \in Keys : remove(key) \/ \E val \in Vals : add(key, val)

Spec == Init /\ [][Next]_vars

-----------------------------------------------------------------------------
(* Every key that was added and not removed is found with the value it was *)
(* added with last, and no other key is found, whatever came between.      *)
Finds == \A k \in Keys : (find(k) <=> map[k] # Null) /\ getVal(k) = map[k]

RECURSIVE Depth(_)
Depth(n) == IF n = Null THEN 0 ELSE 1 + Depth(n.left)

RECURSIVE Even(_)
Even(n) ==
    \/ n = Null
    \/ /\ n.type \in {2, 3} /\ (n.type = 2 <=> n.e1 = Null)
       /\ \A s \in {n.left, n.right} \cup (IF n.type = 3 THEN {n.midle} ELSE {}) :
              Even(s) /\ Depth(s) = Depth(n.left)

(* All leaves are at the same depth, and no node stays in the state that   *)
(* add and remove leave it in on the way up: find ends.                    *)
Balanced == Even(root)
=============================================================================
