------------------------ MODULE AggregateTopicTable -------------------------
(***************************************************************************)
(* Classes AggregateTopicTable and AggregateTopicElement over their linked *)
(* lists: the topics of the table and, for each, the clients.  An element  *)
(* of a topic is known by its topic, an element of a client by the client. *)
(***************************************************************************)
EXTENDS AggregateTables, LinkedList

CONSTANTS Topics, Clients,
          MaxCalls   \* bound: calls of add() and erase()

VARIABLES tab,       \* _head and _tail of the table with the elements' links
          clients,   \* the client list of each element
          crashed,   \* a null pointer was used
          calls

vars == <<tab, clients, crashed, calls>>

Init ==
    /\ tab = EmptyList(Topics)
    /\ clients = [t \in Topics |-> EmptyList(Clients)]
    /\ crashed = FALSE
    /\ calls = 0

\* getAggregateTopicElement: the first element that matches, or Nil.
GetElement(topic) ==
    LET i == SelectInSeq(Walk(tab), LAMBDA t : Matched(t, topic))
    IN  IF i = 0 THEN Nil ELSE Walk(tab)[i]

Call == ~crashed /\ calls < MaxCalls /\ calls' = calls + 1

Add(topic, c) ==
    /\ Call
    /\ LET e == GetElement(topic)
       IN  IF e = Nil
           THEN /\ tab' = Linked(tab, topic)
                /\ clients' = [clients EXCEPT ![topic] = Linked(EmptyList(Clients), c)]
           ELSE /\ clients' = IF Contains(Walk(clients[e]), c) THEN clients
                              ELSE [clients EXCEPT ![e] = Linked(@, c)]
                /\ UNCHANGED tab
    /\ UNCHANGED crashed

\* eraseClient(client): a client that is not there is left alone.
ErasedClient(e, c) ==
    IF Contains(Walk(clients[e]), c)
    THEN [clients EXCEPT ![e] = Cut(@, c)] ELSE clients

Erase(topic, c) ==
    /\ Call
    /\ LET e == GetElement(topic)
       IN  IF e = Nil
           THEN crashed' = TRUE /\ UNCHANGED <<tab, clients>>
           ELSE /\ clients' = ErasedClient(e, c)
                /\ tab' = IF clients'[e].head = Nil THEN Cut(tab, e) ELSE tab
                /\ UNCHANGED crashed

Next == \E t \in Topics, c \in Clients : Add(t, c) \/ Erase(t, c)

Spec == Init /\ [][Next]_vars

-----------------------------------------------------------------------------
Table == [i \in 1..Len(Walk(tab)) |->
            [topic |-> Walk(tab)[i], clients |-> Walk(clients[Walk(tab)[i]])]]

(* The two levels of linked lists are the table that AggregateTables       *)
(* describes, through every add() and erase().                             *)
ImplementsTable ==
    /\ Table = NoSubscribers
    /\ [][\E t \in Topics, c \in Clients :
            \/ Table' = WithSubscriber(Table, t, c)
            \/ ElementOf(Table, t) # 0 /\ Table' = WithoutSubscriber(Table, t, c)
         ]_Table

(* A client found on the list of a topic has an element of its own there:  *)
(* what eraseClient() deleted is not met again.                            *)
OnlySubscribers ==
    \A t \in tab.live : ToSet(Walk(clients[t])) \subseteq clients[t].live
=============================================================================
