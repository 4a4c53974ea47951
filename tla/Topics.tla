------------------------------- MODULE Topics -------------------------------
(***************************************************************************)
(* The life of a client's topic table: topics registered by the device or  *)
(* for it, predefined topics loaded from the file or copied from the       *)
(* gateway's table, and CONNECTs with a clean session.  Ids wrap.          *)
(***************************************************************************)
EXTENDS TopicTables

CONSTANT PredefIds      \* ids in the file of predefined topics

PredefAssumption == PredefIds \subseteq 1..(MaxTid + 1)

VARIABLES topics,       \* _topics of a Client
          given         \* the topics given out since they were last erased

vars == <<topics, given>>

Init == topics = NoTopics /\ given = {}

GiveOut(i, list) == given' = IF i = 0 THEN given ELSE given \cup {list[i]}

\* REGISTER, SUBSCRIBE with a name, PUBLISH from the broker: add(topicid).
Register(name) ==
    /\ topics' = Added(topics, name, 0)
    /\ GiveOut(RegisteredTopic(topics, name), topics'.list)

\* The predefined topics file, and the copies of the gateway's topics.
Predefine(name, id) ==
    /\ topics' = Added(topics, name, id)
    /\ GiveOut(AddedTopic(topics, name, id), topics'.list)

EraseNormal ==
    /\ topics' = WithoutNormal(topics)
    /\ given' = {t \in given : t.type = "predef"}

Next == \/ \E name \in TopicNames : \/ Register(name)
                                    \/ \E id \in PredefIds : Predefine(name, id)
        \/ EraseNormal

Spec == Init /\ [][Next]_vars

-----------------------------------------------------------------------------
TypeOK == /\ topics \in [list : Seq(Topic), nextId : 0..MaxTid]
          /\ given \subseteq Topic

(* No two topics of the table share a normal id, although the counter      *)
(* wraps and is not reset when the table is emptied.                       *)
IdsUnique ==
    \A i, j \in 1..Len(topics.list) :
        /\ topics.list[i].type = "normal"
        /\ topics.list[j].type = "normal"
        /\ topics.list[i].id = topics.list[j].id
        => i = j

(* What was given out, in a REGACK, a SUBACK or a REGISTER, stays in the   *)
(* table until it is erased, and its id stands for the same name as long:  *)
(* getTopicById finds that topic.                                          *)
GivenHolds ==
    \A t \in given :
        /\ \E i \in 1..Len(topics.list) : topics.list[i] = t
        /\ t.type = "normal" =>
              LET i == TopicById(topics, "normal", t.id)
              IN  i # 0 /\ topics.list[i].name = t.name

(* A name has one id, and what was given out holds.                        *)
TopicIdsHold == IdsUnique /\ GivenHolds

(* No step changes or removes a predefined topic, and none changes order.  *)
PredefinedStays ==
    [][LET Predef(s) == SelectSeq(s, LAMBDA t : t.type = "predef")
       IN  IsPrefix(Predef(topics.list), Predef(topics'.list))]_vars
=============================================================================
