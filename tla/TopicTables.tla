---------------------------- MODULE TopicTables -----------------------------
(***************************************************************************)
(* The two tables of topics that a Client has (MQTTSNGWTopic.cpp), as      *)
(* values with the results of their operations.                            *)
(*                                                                         *)
(* Class Topics: a pointer to a Topic is its position in the list, 0 for   *)
(* nullptr; _cnt is the length of the list.                                *)
(***************************************************************************)
EXTENDS Integers, Sequences, SequencesExt

CONSTANTS TopicNames,   \* names of topics, filters included
          MaxTopics,    \* MAX_TOPIC_PAR_CLIENT, 50
          MaxTid,       \* the largest id given by the gateway, 0xfffe
          MaxInflight   \* MAX_INFLIGHTMESSAGES, 10

ListAssumption == /\ MaxTopics \in Nat
                  /\ MaxTid \in Nat
                  /\ MaxTopics < MaxTid

Topic == [name : TopicNames, type : {"normal", "predef"}, id : 1..(MaxTid + 1)]

NoTopics == [list |-> <<>>, nextId |-> 0]

\* Variant: the counter does not count.
NextTopicIdStill(id) == 1

\* ++_nextTopicId == 0xffff ? _nextTopicId += 2: 0xffff and 0 are left out.
NextTopicId(id) == IF id + 1 = MaxTid + 1 THEN 1 ELSE id + 1

TopicByName(topics, name) ==
    SelectInSeq(topics.list, LAMBDA t : t.name = name)

TopicById(topics, type, id) ==
    SelectInSeq(topics.list, LAMBDA t : t.type = type /\ t.id = id)

\* Variant: no limit.
NeverFull(topics) == FALSE

Full(topics) == Len(topics.list) >= MaxTopics

\* add(name, id): id 0 asks for an id of the gateway.
Added(topics, name, id) ==
    IF Full(topics) \/ TopicByName(topics, name) # 0 THEN topics
    ELSE IF id = 0
    THEN LET next == NextTopicId(topics.nextId)
         IN  [list |-> Append(topics.list,
                         [name |-> name, type |-> "normal", id |-> next]),
              nextId |-> next]
    ELSE [topics EXCEPT !.list =
             Append(@, [name |-> name, type |-> "predef", id |-> id])]

\* What add(name, id) returns: null from a full table, even if it has the name.
AddedTopic(topics, name, id) ==
    IF Full(topics) THEN 0 ELSE TopicByName(Added(topics, name, id), name)

\* add(topicid) looks the name up before the table's limit matters.
RegisteredTopic(topics, name) ==
    IF TopicByName(topics, name) # 0 THEN TopicByName(topics, name)
    ELSE AddedTopic(topics, name, 0)

\* What eraseNormal leaves of the first i topics.
WithoutNormal(topics) ==
    LET Left[i \in 0..Len(topics.list)] ==
            IF i = 0 THEN <<>>
            ELSE IF topics.list[i].type = "normal" THEN Left[i - 1]
                 ELSE Append(Left[i - 1], topics.list[i])
    IN  [topics EXCEPT !.list = Left[Len(topics.list)]]
-----------------------------------------------------------------------------
(* Class TopicIdMap: which topic id an unanswered PUBLISH or SUBSCRIBE of  *)
(* the client has, by its message id.                                      *)

MapAssumption == MaxInflight \in Nat

NoElements == [list |-> <<>>, cnt |-> 0]

\* getElement: a position, 0 for none.
ElementOf(map, msgId) == SelectInSeq(map.list, LAMBDA e : e.msgId = msgId)

\* The first such element goes; _cnt is decremented even if there is none.
Erased(map, msgId) ==
    [list |-> RemoveAt(map.list, ElementOf(map, msgId)), cnt |-> map.cnt - 1]

\* Variant: one request at a time.
AddedElementOne(map, e) ==
    IF map.cnt > 0 THEN map
    ELSE [list |-> Append(map.list, e), cnt |-> map.cnt + 1]

\* The limit is tested before the element that e replaces is erased.
AddedElement(map, e) ==
    IF map.cnt > MaxInflight * 2 \/ (e.topicId = 0 /\ e.type # "short")
    THEN map
    ELSE LET rest == IF ElementOf(map, e.msgId) = 0 THEN map
                     ELSE Erased(map, e.msgId)
         IN  [list |-> Append(rest.list, e), cnt |-> rest.cnt + 1]

\* Variant: a filter has an id too.
AnswerIdOfFilter(map, i) == map.list[i].topicId

\* getTopicId of the element: none for a filter.
AnswerId(map, i) == IF map.list[i].wildcard THEN 0 ELSE map.list[i].topicId
=============================================================================
