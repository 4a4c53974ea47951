-------------------------- MODULE AggregateTables ---------------------------
(***************************************************************************)
(* What the aggregater's two tables promise it.                            *)
(*                                                                         *)
(* MessageIdTable: a list of the ids it has given to the requests of its   *)
(* clients, which turns an id of the broker's answer back into the client  *)
(* and the id the client used.                                             *)
(*                                                                         *)
(* AggregateTopicTable: a list of topics, each with the clients that       *)
(* subscribed to it.  A topic is looked up by the first element that       *)
(* matches its name, with the element's topic as the filter.               *)
(***************************************************************************)
EXTENDS Integers, Sequences, SequencesExt

CONSTANTS MaxEntries,    \* MAX_MESSAGEID_TABLE_SIZE
          MaxPacketId,   \* the largest packet id, 0xfffe
          Matched(_, _)  \* Matched(filter, name): Topic::isMatch

MessageIdsAssumption == MaxEntries \in Nat /\ MaxPacketId \in Nat \ {0}

NoEntries == <<>>

\* Client::getNextPacketId: 0xffff is left out.
NextPacketId(id) == IF id = MaxPacketId THEN 1 ELSE id + 1

EntryOf(entries, msgId) == SelectInSeq(entries, LAMBDA e : e.msgId = msgId)

EntryFor(entries, c, m) ==
    SelectInSeq(entries, LAMBDA e : e.client = c /\ e.clientMsgId = m)

\* The size is compared before the insertion: one more than the maximum.
Admitted(entries, c, m) ==
    Len(entries) <= MaxEntries /\ EntryFor(entries, c, m) = 0

\* add(client, clientMsgId) with the counter at packetId.
WithEntry(entries, packetId, c, m) ==
    IF Admitted(entries, c, m)
    THEN Append(entries, [msgId |-> NextPacketId(packetId), client |-> c,
                          clientMsgId |-> m])
    ELSE entries

\* Variant: the counter stays.
PacketIdAfterStill(entries, packetId, c, m) == packetId

PacketIdAfter(entries, packetId, c, m) ==
    IF Admitted(entries, c, m) THEN NextPacketId(packetId) ELSE packetId

\* What addMessageIdTable() returns: 0 for a request that is not admitted.
GivenId(entries, packetId, c, m) ==
    IF Admitted(entries, c, m) THEN NextPacketId(packetId) ELSE 0

\* getMsgId(client, clientMsgId)
IdFor(entries, c, m) ==
    LET i == EntryFor(entries, c, m) IN IF i = 0 THEN 0 ELSE entries[i].msgId

WithoutEntry(entries, msgId) ==
    LET i == EntryOf(entries, msgId)
    IN  IF i = 0 THEN entries ELSE RemoveAt(entries, i)

-----------------------------------------------------------------------------
(* The topics and their subscribers                                        *)

NoSubscribers == <<>>

\* The position of the element of a topic, 0 if there is none.
ElementOf(table, topic) ==
    SelectInSeq(table, LAMBDA e : Matched(e.topic, topic))

SubscribersOf(table, topic) ==
    LET i == ElementOf(table, topic)
    IN  IF i = 0 THEN <<>> ELSE table[i].clients

\* Variant: a client is appended again.
WithSubscriberTwice(table, topic, client) ==
    LET i == ElementOf(table, topic)
    IN  IF i = 0 THEN Append(table, [topic |-> topic, clients |-> <<client>>])
        ELSE [table EXCEPT ![i].clients = Append(@, client)]

WithSubscriber(table, topic, client) ==
    LET i == ElementOf(table, topic)
    IN  IF i = 0 THEN Append(table, [topic |-> topic, clients |-> <<client>>])
        ELSE IF Contains(table[i].clients, client) THEN table
        ELSE [table EXCEPT ![i].clients = Append(@, client)]

\* erase(topic, client) of a topic that has an element.
WithoutSubscriber(table, topic, client) ==
    LET i == ElementOf(table, topic)
        rest == RemoveFirst(table[i].clients, client)
    IN  IF rest = <<>> THEN RemoveAt(table, i)
        ELSE [table EXCEPT ![i].clients = rest]
=============================================================================
