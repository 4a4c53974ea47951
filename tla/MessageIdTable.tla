--------------------------- MODULE MessageIdTable ---------------------------
(***************************************************************************)
(* Class MessageIdTable over its linked list.  An element is known by its  *)
(* client and the client's message id: add() never makes a second one.     *)
(* All callers are handlers of PacketHandleTask: an operation is a step.   *)
(***************************************************************************)
EXTENDS AggregateTables, LinkedList

CONSTANTS Clients, ClientMsgIds

Elements == Clients \X ClientMsgIds

VARIABLES list,      \* _head, _tail and the links of the elements
          msgId,     \* _msgId of each element
          cnt,       \* _cnt
          packetId,  \* _packetId of the aggregater's secure client
          result     \* what the last call returned

vars == <<list, msgId, cnt, packetId, result>>

\* What a call returns: a client or Nil, and an id.
Returned(c, id) == [client |-> c, id |-> id]

Init ==
    /\ list = EmptyList(Elements)
    /\ msgId = [e \in Elements |-> 0]
    /\ cnt = 0
    /\ packetId = 0
    /\ result = Returned(Nil, 0)

\* find(client, clientMsgId) meets the element on its walk.
Found(c, m) == Contains(Walk(list), <<c, m>>)

\* find(msgId): the first element with the id, Nil if there is none.
Find(id) ==
    LET i == SelectInSeq(Walk(list), LAMBDA e : msgId[e] = id)
    IN  IF i = 0 THEN Nil ELSE Walk(list)[i]

Add(c, m) ==
    \/ /\ cnt > MaxEntries \/ Found(c, m)
       /\ result' = Returned(Nil, 0)
       /\ UNCHANGED <<list, msgId, cnt, packetId>>
    \/ /\ cnt <= MaxEntries /\ ~Found(c, m)
       /\ packetId' = NextPacketId(packetId)
       /\ list' = Linked(list, <<c, m>>)
       /\ msgId' = [msgId EXCEPT ![<<c, m>>] = packetId']
       /\ cnt' = cnt + 1
       /\ result' = Returned(Nil, packetId')

GetClientMsgId(id) ==
    LET e == Find(id)
    IN  /\ result' = IF e = Nil THEN Returned(Nil, 0) ELSE Returned(e[1], e[2])
        /\ IF e = Nil THEN UNCHANGED <<list, msgId, cnt>>
           ELSE /\ list' = Unlinked(list, e)
                /\ msgId' = [msgId EXCEPT ![e] = 0]
                /\ cnt' = cnt - 1
        /\ UNCHANGED packetId

GetMsgId(c, m) ==
    /\ result' = Returned(Nil, IF Found(c, m) THEN msgId[<<c, m>>] ELSE 0)
    /\ UNCHANGED <<list, msgId, cnt, packetId>>

Next == \/ \E c \in Clients, m \in ClientMsgIds : Add(c, m) \/ GetMsgId(c, m)
        \/ \E id \in 1..MaxPacketId : GetClientMsgId(id)

Spec == Init /\ [][Next]_vars

-----------------------------------------------------------------------------
Entries == [i \in 1..Len(Walk(list)) |->
              LET e == Walk(list)[i]
              IN  [msgId |-> msgId[e], client |-> e[1], clientMsgId |-> e[2]]]

(* The linked list with its counter is the list of entries that            *)
(* AggregateTables describes, through every add(), getClientMsgId() and getMsgId(): no     *)
(* element is lost or comes back when one in the middle is deleted, and    *)
(* the id an answer is turned into is that of the oldest entry.            *)
ImplementsEntries ==
    /\ Entries = NoEntries
    /\ [][\/ \E c \in Clients, m \in ClientMsgIds :
               \/ /\ Entries' = WithEntry(Entries, packetId, c, m)
                  /\ packetId' = PacketIdAfter(Entries, packetId, c, m)
                  /\ result' = Returned(Nil, GivenId(Entries, packetId, c, m))
               \/ /\ result' = Returned(Nil, IdFor(Entries, c, m))
                  /\ UNCHANGED <<Entries, packetId>>
          \/ \E id \in 1..MaxPacketId :
               LET i == EntryOf(Entries, id)
               IN  /\ Entries' = WithoutEntry(Entries, id)
                   /\ result' = IF i = 0 THEN Returned(Nil, 0)
                                ELSE Returned(Entries[i].client, Entries[i].clientMsgId)
                   /\ UNCHANGED packetId]_<<Entries, packetId, result>>

(* Every allocated element is on the list once, linked both ways, and      *)
(* counted.                                                                *)
WellLinked ==
    LET w == Walk(list)
    IN  /\ ToSet(w) = list.live
        /\ Len(w) = Cardinality(list.live) /\ cnt = Len(w)
        /\ list.tail = IF w = <<>> THEN Nil ELSE Last(w)
        /\ \A i \in 1..Len(w) : list.prev[w[i]] = IF i = 1 THEN Nil ELSE w[i - 1]
=============================================================================
