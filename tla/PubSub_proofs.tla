--------------------------- MODULE PubSub_proofs ---------------------------
(***************************************************************************)
(* For any topic names, publications and bounds that are Sound: each       *)
(* answer of the transparent gateway carries the id of what the device     *)
(* asked, what the device holds as the id of a name is that id in the      *)
(* gateway, every PUBLISH to the broker has its topic, the maps of         *)
(* unanswered requests keep to their limit, and a publication of QoS 2 is  *)
(* delivered once, to the broker's subscribers and to the device.          *)
(*                                                                         *)
(* A packet of the device that may be handled once more is the request     *)
(* that waits; an element of a map, and an answer on its way, is of the    *)
(* request with its message id or of none; topics are forgotten only       *)
(* between a clean CONNECT and its CONNACK, when no request waits, the     *)
(* device holds no id and no request is behind the CONNECT.                *)
(*                                                                         *)
(* From the device to the broker packets keep their order: behind the      *)
(* PUBREL of a message id, or behind a clean CONNECT, no PUBLISH of QoS 2  *)
(* that was sent before comes any more (Ordered), so that one the broker   *)
(* has delivered and released does not come again.  A publication of the   *)
(* broker is in one place (DownOnce): it waits in the broker, is in one of *)
(* the queues or among the saved packets, or the device has got it.        *)
(***************************************************************************)
EXTENDS PubSub, TLAPS, WellFoundedInduction, NaturalsInduction, SequenceTheorems,
        FiniteSetTheorems

Names == Registrable \cup {Predefined[i] : i \in DOMAIN Predefined}

(* The table has room for every name that can come into it, the device     *)
(* does not register the gateway's names, and message ids do not come      *)
(* round.                                                                  *)
Sound ==
    /\ PubSubAssumption /\ ListAssumption /\ MapAssumption
    /\ MaxRequests <= MaxMsgId
    /\ "" \notin TopicNames
    /\ DOMAIN Predefined \subseteq 1..(MaxTid + 1)
    /\ \A i \in DOMAIN Predefined : Predefined[i] \in TopicNames \ Registrable
    /\ \A i, j \in DOMAIN Predefined : Predefined[i] = Predefined[j] => i = j
    /\ IsFiniteSet(Names) /\ Cardinality(Names) <= MaxTopics
-----------------------------------------------------------------------------
(* Queues                                                                  *)

Queue(q) == q \in Seq(ToSet(q))

(* A sequence is a queue of its elements.                                  *)
LEMMA QueueOfSeq ==
    ASSUME NEW S, NEW q \in Seq(S)
    PROVE  /\ Queue(q) /\ Len(q) \in Nat /\ ToSet(q) \subseteq S
           /\ \A x : x \in ToSet(q) <=> \E i \in 1..Len(q) : x = q[i]
<1>1. Len(q) \in Nat /\ DOMAIN q = 1..Len(q) /\ q \in [1..Len(q) -> S]
  BY LenProperties
<1>2. \A i \in 1..Len(q) : q[i] \in S
  BY ElementOfSeq
<1>3. \A x : x \in ToSet(q) <=> \E i \in 1..Len(q) : x = q[i]
  BY <1>1 DEF ToSet
<1>4. q \in [1..Len(q) -> ToSet(q)]
  BY <1>1, <1>3
<1>5. q \in Seq(ToSet(q))
  BY <1>1, <1>4
<1> QED
  BY <1>1, <1>2, <1>3, <1>5 DEF Queue

(* Elements of a queue have positions.                                     *)
LEMMA QueueElements ==
    ASSUME NEW q, Queue(q)
    PROVE  /\ Len(q) \in Nat
           /\ \A i \in 1..Len(q) : q[i] \in ToSet(q)
           /\ \A x \in ToSet(q) : \E i \in 1..Len(q) : x = q[i]
  BY QueueOfSeq DEF Queue

(* The empty queue.                                                        *)
LEMMA QueueEmpty ==
    Queue(<<>>) /\ ToSet(<<>>) = {} /\ Len(<<>>) = 0
<1>1. PICK S : S = {}
  OBVIOUS
<1>2. <<>> \in Seq(S) /\ Len(<<>>) = 0
  BY EmptySeq
<1>3. Queue(<<>>) /\ ToSet(<<>>) \subseteq S
  BY <1>2, QueueOfSeq
<1> QED
  BY <1>1, <1>2, <1>3

(* Taking the first element leaves the others in their order.              *)
LEMMA QueueTail ==
    ASSUME NEW q, Queue(q), q # <<>>
    PROVE  /\ Queue(Tail(q)) /\ ToSet(Tail(q)) \subseteq ToSet(q)
           /\ Head(q) \in ToSet(q) /\ Head(q) = q[1] /\ 1 \in 1..Len(q)
           /\ Len(Tail(q)) = Len(q) - 1
           /\ \A i \in 1..Len(Tail(q)) : Tail(q)[i] = q[i + 1]
<1>1. /\ Head(q) \in ToSet(q) /\ Tail(q) \in Seq(ToSet(q)) /\ Len(Tail(q)) = Len(q) - 1
      /\ \A i \in 1..Len(Tail(q)) : Tail(q)[i] = q[i + 1]
  BY HeadTailProperties DEF Queue
<1>2. Queue(Tail(q)) /\ ToSet(Tail(q)) \subseteq ToSet(q) /\ Len(Tail(q)) \in Nat
  BY <1>1, QueueOfSeq
<1>3. Len(q) \in Nat
  BY QueueElements
<1>4. Head(q) = q[1]
  BY DEF Queue
<1> QED
  BY <1>1, <1>2, <1>3, <1>4

(* Adding at the end.                                                      *)
LEMMA QueueAppend ==
    ASSUME NEW q, NEW e, Queue(q)
    PROVE  /\ Queue(Append(q, e)) /\ ToSet(Append(q, e)) = ToSet(q) \cup {e}
           /\ Len(Append(q, e)) = Len(q) + 1
           /\ \A i \in 1..Len(q) : Append(q, e)[i] = q[i]
           /\ Append(q, e)[Len(q) + 1] = e
<1> DEFINE S == ToSet(q) \cup {e}
<1>1. Len(q) \in Nat /\ q \in [1..Len(q) -> ToSet(q)]
  BY LenProperties DEF Queue
<1>2. q \in [1..Len(q) -> S]
  BY <1>1
<1>3. q \in Seq(S) /\ e \in S
  BY <1>1, <1>2
<1> HIDE DEF S
<1>4. /\ Append(q, e) \in Seq(S) /\ Len(Append(q, e)) = Len(q) + 1
      /\ \A i \in 1..Len(q) : Append(q, e)[i] = q[i]
      /\ Append(q, e)[Len(q) + 1] = e
  BY <1>3, AppendProperties
<1>5. /\ Queue(Append(q, e)) /\ ToSet(Append(q, e)) \subseteq S
      /\ \A x : x \in ToSet(Append(q, e)) <=> \E i \in 1..Len(Append(q, e)) : x = Append(q, e)[i]
  BY <1>4, QueueOfSeq
<1>6. \A x \in ToSet(q) : x \in ToSet(Append(q, e))
  <2>1. ASSUME NEW x \in ToSet(q) PROVE x \in ToSet(Append(q, e))
    <3>1. PICK i \in 1..Len(q) : x = q[i]
      BY QueueElements
    <3>2. i \in 1..Len(Append(q, e)) /\ Append(q, e)[i] = x
      BY <1>1, <1>4, <3>1
    <3> QED
      BY <1>5, <3>2
  <2> QED
    BY <2>1
<1>7. e \in ToSet(Append(q, e))
  <2>1. Len(q) + 1 \in 1..Len(Append(q, e))
    BY <1>1, <1>4
  <2> QED
    BY <1>4, <1>5, <2>1
<1> QED
  BY <1>4, <1>5, <1>6, <1>7 DEF S

(* One queue after another.                                                *)
LEMMA QueueConcat ==
    ASSUME NEW q, NEW r, Queue(q), Queue(r)
    PROVE  /\ Queue(q \o r) /\ ToSet(q \o r) \subseteq ToSet(q) \cup ToSet(r)
           /\ Len(q) \in Nat /\ Len(r) \in Nat /\ Len(q \o r) = Len(q) + Len(r)
           /\ \A i \in 1..Len(q) + Len(r) :
                 (q \o r)[i] = IF i <= Len(q) THEN q[i] ELSE r[i - Len(q)]
<1> DEFINE S == ToSet(q) \cup ToSet(r)
<1>1. /\ Len(q) \in Nat /\ q \in [1..Len(q) -> ToSet(q)]
      /\ Len(r) \in Nat /\ r \in [1..Len(r) -> ToSet(r)]
  BY LenProperties DEF Queue
<1>2. q \in [1..Len(q) -> S] /\ r \in [1..Len(r) -> S]
  BY <1>1
<1>3. q \in Seq(S) /\ r \in Seq(S)
  BY <1>1, <1>2
<1> HIDE DEF S
<1>4. /\ q \o r \in Seq(S) /\ Len(q \o r) = Len(q) + Len(r)
      /\ \A i \in 1..Len(q) + Len(r) :
            (q \o r)[i] = IF i <= Len(q) THEN q[i] ELSE r[i - Len(q)]
  BY <1>3, ConcatProperties
<1>5. Queue(q \o r) /\ ToSet(q \o r) \subseteq S
  BY <1>4, QueueOfSeq
<1> QED
  BY <1>1, <1>4, <1>5 DEF S

(* Losing the last element.                                                *)
LEMMA QueueFront ==
    ASSUME NEW q, Queue(q), q # <<>>
    PROVE  /\ Queue(Front(q)) /\ ToSet(Front(q)) \subseteq ToSet(q)
           /\ Len(q) \in Nat /\ Len(Front(q)) = Len(q) - 1
           /\ \A i \in 1..Len(q) - 1 : Front(q)[i] = q[i]
<1>1. Len(q) \in Nat /\ Len(q) > 0
  BY QueueTail, QueueElements
<1>2. \A i \in 1..Len(q) : q[i] \in ToSet(q)
  BY QueueElements
<1>3. \A i \in 1..Len(q) - 1 : q[i] \in ToSet(q)
  BY <1>1, <1>2
<1>4. /\ SubSeq(q, 1, Len(q) - 1) \in Seq(ToSet(q))
      /\ Len(SubSeq(q, 1, Len(q) - 1)) = Len(q) - 1
      /\ \A i \in 1..Len(q) - 1 : SubSeq(q, 1, Len(q) - 1)[i] = q[i]
  <2>1. 1 \in Int /\ Len(q) - 1 \in Int
    BY <1>1
  <2> HIDE <1>1
  <2>2. /\ SubSeq(q, 1, Len(q) - 1) \in Seq(ToSet(q))
        /\ Len(SubSeq(q, 1, Len(q) - 1)) = IF 1 <= Len(q) - 1 THEN Len(q) - 1 - 1 + 1 ELSE 0
        /\ \A i \in 1..Len(q) - 1 - 1 + 1 : SubSeq(q, 1, Len(q) - 1)[i] = q[1 + i - 1]
    BY <1>3, <2>1, SubSeqProperties
  <2>3. \A i \in 1..Len(q) - 1 : 1 + i - 1 = i
    BY <1>1
  <2>4. Len(q) - 1 - 1 + 1 = Len(q) - 1
    BY <1>1
  <2>5. Len(SubSeq(q, 1, Len(q) - 1)) = Len(q) - 1
    BY <1>1, <2>2, <2>4
  <2>6. \A i \in 1..Len(q) - 1 : SubSeq(q, 1, Len(q) - 1)[i] = q[i]
    BY <2>2, <2>3, <2>4
  <2> QED
    BY <2>2, <2>5, <2>6
<1>5. Queue(Front(q)) /\ ToSet(Front(q)) \subseteq ToSet(q)
  BY <1>4, QueueOfSeq DEF Front
<1> QED
  BY <1>1, <1>4, <1>5 DEF Front

-----------------------------------------------------------------------------
(* The table of topics                                                     *)

\* How many ids were given since that of the i-th topic.
Age(table, i) ==
    IF table.list[i].id <= table.nextId THEN table.nextId - table.list[i].id
    ELSE table.nextId + MaxTid - table.list[i].id

(* The normal topics have the last ids that were given, in their order.    *)
TableSound(table) ==
    /\ table \in [list : Seq(Topic), nextId : 0..MaxTid]
    /\ \A i, j \in 1..Len(table.list) : table.list[i].name = table.list[j].name => i = j
    /\ \A i \in 1..Len(table.list) :
           table.list[i].type = "predef" =>
               /\ table.list[i].id \in DOMAIN Predefined
               /\ table.list[i].name = Predefined[table.list[i].id]
    /\ \A i \in 1..Len(table.list) :
           table.list[i].type = "normal" =>
               /\ table.list[i].name \in Registrable
               /\ table.list[i].id <= MaxTid
               /\ Age(table, i) <= Len(table.list) - i
    /\ \A i, j \in 1..Len(table.list) :
           /\ table.list[i].type = "normal" /\ table.list[j].type = "normal"
           /\ i < j
           => Age(table, j) < Age(table, i)

\* The table has the name with the id.
HasId(table, name, id) ==
    [name |-> name, type |-> "normal", id |-> id] \in ToSet(table.list)

(* A set of natural numbers has its Min.                                   *)
LEMMA LeastIndex ==
    ASSUME NEW I \in SUBSET Nat, I # {}
    PROVE  Min(I) \in I /\ \A i \in I : Min(I) <= i
<1>1. \E i \in I : \A j \in I : <<j, i>> \notin OpToRel(<, Nat)
  BY NatLessThanWellFounded, WFMin
<1>2. OpToRel(<, Nat) = { p \in Nat \X Nat : p[1] < p[2] }
  BY Zenon DEF OpToRel
<1> DEFINE Less == { p \in Nat \X Nat : p[1] < p[2] }
<1>3. PICK i \in I : \A j \in I : <<j, i>> \notin Less
  BY <1>1, <1>2
<1>4. ASSUME NEW j \in I PROVE i <= j
  <2>1. <<j, i>> \in Nat \X Nat /\ (j < i => <<j, i>> \in Less)
    OBVIOUS
  <2> QED
    BY <1>3, <2>1
<1> QED
  BY <1>4 DEF Min

(* What is in a sound table.                                               *)
LEMMA TableElements ==
    ASSUME ListAssumption, NEW table, TableSound(table)
    PROVE  /\ table.list \in Seq(Topic) /\ Queue(table.list) /\ Len(table.list) \in Nat
           /\ table.nextId \in 0..MaxTid
           /\ \A i \in 1..Len(table.list) :
                 /\ table.list[i] \in Topic /\ table.list[i] \in ToSet(table.list)
                 /\ table.list[i].name \in TopicNames
                 /\ table.list[i].type \in {"normal", "predef"}
                 /\ table.list[i].id \in 1..(MaxTid + 1)
           /\ \A t \in ToSet(table.list) : \E i \in 1..Len(table.list) : t = table.list[i]
<1>1. table.list \in Seq(Topic) /\ table.nextId \in 0..MaxTid
  BY DEF TableSound
<1>2. Queue(table.list) /\ Len(table.list) \in Nat
  BY <1>1, QueueOfSeq
<1>3. \A i \in 1..Len(table.list) : table.list[i] \in Topic
  BY <1>1, ElementOfSeq
<1>4. \A t \in Topic : t.name \in TopicNames /\ t.type \in {"normal", "predef"} /\ t.id \in 1..(MaxTid + 1)
  BY DEF Topic
<1> QED
  BY <1>1, <1>2, <1>3, <1>4, QueueElements

(* The ids of normal topics are different.                                 *)
LEMMA IdsDiffer ==
    ASSUME ListAssumption, NEW table, TableSound(table),
           NEW i \in 1..Len(table.list), NEW j \in 1..Len(table.list),
           table.list[i].type = "normal", table.list[j].type = "normal",
           table.list[i].id = table.list[j].id
    PROVE  i = j
<1>1. Age(table, i) = Age(table, j)
  BY DEF Age
<1>2. Age(table, i) \in Int
  BY TableElements DEF Age, ListAssumption
<1>3. ~(i < j) /\ ~(j < i)
  BY <1>1, <1>2 DEF TableSound
<1> QED
  BY <1>3, TableElements

(* getTopicByName.                                                         *)
LEMMA ByName ==
    ASSUME ListAssumption, NEW table, TableSound(table), NEW name
    PROVE  /\ TopicByName(table, name) # 0 =>
                 /\ TopicByName(table, name) \in 1..Len(table.list)
                 /\ table.list[TopicByName(table, name)].name = name
           /\ \A i \in 1..Len(table.list) :
                 table.list[i].name = name => TopicByName(table, name) = i
           /\ TopicByName(table, name) = 0 =>
                 \A i \in 1..Len(table.list) : table.list[i].name # name
<1> DEFINE I == {i \in 1..Len(table.list) : table.list[i].name = name}
<1>1. TopicByName(table, name) = IF I # {} THEN Min(I) ELSE 0
  BY DEF TopicByName, SelectInSeq
<1>2. CASE I = {}
  <2>1. TopicByName(table, name) = 0
    BY <1>1, <1>2
  <2> QED
    BY <1>2, <2>1
<1>3. CASE I # {}
  <2>1. I \in SUBSET Nat
    OBVIOUS
  <2>2. Min(I) \in I
    <3> HIDE DEF I
    <3> QED
      BY <1>3, <2>1, LeastIndex
  <2>3. TopicByName(table, name) \in I
    BY <1>1, <1>3, <2>2
  <2>4. \A i, j \in 1..Len(table.list) : table.list[i].name = table.list[j].name => i = j
    BY DEF TableSound
  <2> QED
    BY <2>3, <2>4
<1> QED
  BY <1>2, <1>3

(* getTopicById: of a normal topic, the topic with the id.                 *)
LEMMA ByIdFound ==
    ASSUME ListAssumption, NEW table, TableSound(table), NEW type, NEW id
    PROVE  /\ TopicById(table, type, id) # 0 =>
                 /\ TopicById(table, type, id) \in 1..Len(table.list)
                 /\ table.list[TopicById(table, type, id)].type = type
                 /\ table.list[TopicById(table, type, id)].id = id
           /\ TopicById(table, type, id) = 0 =>
                 \A i \in 1..Len(table.list) :
                    ~(table.list[i].type = type /\ table.list[i].id = id)
<1> DEFINE I == {i \in 1..Len(table.list) : table.list[i].type = type /\ table.list[i].id = id}
<1>1. TopicById(table, type, id) = IF I # {} THEN Min(I) ELSE 0
  BY DEF TopicById, SelectInSeq
<1>2. CASE I = {}
  <2>1. TopicById(table, type, id) = 0
    BY <1>1, <1>2
  <2> QED
    BY <1>2, <2>1
<1>3. CASE I # {}
  <2>1. I \in SUBSET Nat
    OBVIOUS
  <2>2. Min(I) \in I
    <3> HIDE DEF I
    <3> QED
      BY <1>3, <2>1, LeastIndex
  <2>3. TopicById(table, type, id) \in I
    BY <1>1, <1>3, <2>2
  <2> QED
    BY <2>3
<1> QED
  BY <1>2, <1>3

(* What the table has is found, by its id and by its name.                 *)
LEMMA HasIdFound ==
    ASSUME ListAssumption, NEW table, TableSound(table), NEW name, NEW id,
           HasId(table, name, id)
    PROVE  /\ TopicById(table, "normal", id) \in 1..Len(table.list)
           /\ TopicById(table, "normal", id) # 0
           /\ table.list[TopicById(table, "normal", id)]
                 = [name |-> name, type |-> "normal", id |-> id]
           /\ TopicByName(table, name) = TopicById(table, "normal", id)
           /\ name \in Registrable /\ name \in TopicNames /\ id \in 1..MaxTid
<1>1. PICK i \in 1..Len(table.list) :
           table.list[i] = [name |-> name, type |-> "normal", id |-> id]
  BY TableElements DEF HasId
<1>2. /\ table.list[i].name = name /\ table.list[i].type = "normal" /\ table.list[i].id = id
      /\ Len(table.list) \in Nat
  BY <1>1, TableElements
<1>3. TopicById(table, "normal", id) # 0
  BY <1>2, ByIdFound
<1>4. TopicById(table, "normal", id) = i
  BY <1>2, <1>3, ByIdFound, IdsDiffer
<1>5. TopicByName(table, name) = i
  BY <1>2, ByName
<1>6. name \in Registrable /\ id <= MaxTid
  BY <1>2 DEF TableSound
<1>7. name \in TopicNames /\ id \in 1..(MaxTid + 1)
  BY <1>2, TableElements
<1>8. MaxTid \in Nat
  BY DEF ListAssumption
<1> QED
  BY <1>1, <1>3, <1>4, <1>5, <1>6, <1>7, <1>8

(* The parts of Sound.                                                     *)
LEMMA SoundParts ==
    ASSUME Sound
    PROVE  /\ PubSubAssumption /\ ListAssumption /\ MapAssumption
           /\ MaxRequests \in Nat /\ MaxMsgId \in Nat /\ MaxRequests <= MaxMsgId
           /\ MaxTopics \in Nat /\ MaxTid \in Nat /\ MaxInflight \in Nat
           /\ Registrable \subseteq TopicNames /\ Short \subseteq TopicNames
           /\ "" \notin TopicNames
           /\ \A i \in DOMAIN Predefined :
                 /\ i \in 1..(MaxTid + 1) /\ i # 0
                 /\ Predefined[i] \in TopicNames /\ Predefined[i] \notin Registrable
           /\ \A i, j \in DOMAIN Predefined : Predefined[i] = Predefined[j] => i = j
<1>0. MaxTid \in Nat
  BY DEF Sound, ListAssumption
<1>1. \A i \in 1..(MaxTid + 1) : i # 0
  BY <1>0
<1>2. /\ PubSubAssumption /\ ListAssumption /\ MapAssumption
      /\ MaxRequests \in Nat /\ MaxMsgId \in Nat /\ MaxRequests <= MaxMsgId
      /\ MaxTopics \in Nat /\ MaxTid \in Nat /\ MaxInflight \in Nat
      /\ Registrable \subseteq TopicNames /\ Short \subseteq TopicNames
      /\ "" \notin TopicNames
  BY DEF Sound, PubSubAssumption, ListAssumption, MapAssumption, Short
<1>3. \A i \in DOMAIN Predefined : Predefined[i] \in TopicNames \ Registrable
  BY DEF Sound
<1>4. \A i, j \in DOMAIN Predefined : Predefined[i] = Predefined[j] => i = j
  BY DEF Sound
<1>5. \A i \in DOMAIN Predefined : i \in 1..(MaxTid + 1)
  BY DEF Sound
<1>6. \A i \in DOMAIN Predefined :
           /\ i \in 1..(MaxTid + 1) /\ i # 0
           /\ Predefined[i] \in TopicNames /\ Predefined[i] \notin Registrable
  BY <1>1, <1>3, <1>5
<1> QED
  BY <1>2, <1>4, <1>6

(* A name that may come into the table and is not there has room.          *)
LEMMA Roomy ==
    ASSUME Sound, NEW table, TableSound(table), NEW name \in Names,
           TopicByName(table, name) = 0
    PROVE  ~Full(table)
<1>0. ListAssumption /\ IsFiniteSet(Names) /\ Cardinality(Names) <= MaxTopics /\ MaxTopics \in Nat
  BY DEF Sound, ListAssumption
<1>1. Len(table.list) \in Nat
  BY <1>0, TableElements
<1>2. ASSUME NEW i \in 1..Len(table.list) PROVE table.list[i].name \in Names \ {name}
  <2>1. table.list[i].name # name
    BY <1>0, ByName
  <2>2. table.list[i].type \in {"normal", "predef"}
    BY <1>0, TableElements
  <2>3. CASE table.list[i].type = "normal"
    BY <2>1, <2>3 DEF TableSound, Names
  <2>4. CASE table.list[i].type = "predef"
    BY <2>1, <2>4 DEF TableSound, Names
  <2> QED
    BY <2>2, <2>3, <2>4
<1> DEFINE f == [i \in 1..Len(table.list) |-> table.list[i].name]
           Rest == Names \ {name}
<1>3. f \in [1..Len(table.list) -> Rest]
  BY <1>2
<1>4. \A i, j \in 1..Len(table.list) : f[i] = f[j] => i = j
  BY DEF TableSound
<1> HIDE DEF f
<1>5. f \in Injection(1..Len(table.list), Rest)
  BY <1>3, <1>4 DEF Injection, IsInjective
<1>6. IsFiniteSet(Rest) /\ Cardinality(Rest) = Cardinality(Names) - 1
  BY <1>0, FS_RemoveElement
<1> HIDE DEF Rest
<1>7. Cardinality(1..Len(table.list)) <= Cardinality(Rest)
  BY <1>5, <1>6, FS_Injection
<1>8. Cardinality(1..Len(table.list)) = Len(table.list)
  BY <1>1, FS_Interval
<1>9. Cardinality(Names) \in Nat
  BY <1>0, FS_CardinalityType
<1> QED
  BY <1>0, <1>1, <1>6, <1>7, <1>8, <1>9 DEF Full

(* The oldest id is not given again while its topic is in the table.       *)
LEMMA AgeGrows ==
    ASSUME ListAssumption, NEW table, TableSound(table), ~Full(table), NEW new,
           new.nextId = NextTopicId(table.nextId),
           NEW i \in 1..Len(table.list), new.list[i] = table.list[i],
           table.list[i].type = "normal"
    PROVE  Age(new, i) = Age(table, i) + 1
<1>1. /\ table.nextId \in 0..MaxTid /\ Len(table.list) \in Nat
      /\ table.list[i].id \in 1..(MaxTid + 1)
  BY TableElements
<1>2. table.list[i].id <= MaxTid /\ Age(table, i) <= Len(table.list) - i
  BY DEF TableSound
<1>3. MaxTopics \in Nat /\ MaxTid \in Nat /\ MaxTopics < MaxTid /\ Len(table.list) < MaxTopics
  BY <1>1 DEF ListAssumption, Full
<1> DEFINE id == table.list[i].id
           n == table.nextId
           k == Len(table.list)
<1>4. /\ Age(table, i) = IF id <= n THEN n - id ELSE n + MaxTid - id
      /\ Age(new, i) = IF id <= new.nextId THEN new.nextId - id ELSE new.nextId + MaxTid - id
  BY DEF Age
<1>5. new.nextId = IF n + 1 = MaxTid + 1 THEN 1 ELSE n + 1
  BY DEF NextTopicId
<1>6. /\ id \in Nat /\ 1 <= id /\ id <= MaxTid /\ n \in Nat /\ n <= MaxTid
      /\ k \in Nat /\ k < MaxTopics /\ i \in Nat /\ 1 <= i /\ Age(table, i) <= k - i
  BY <1>1, <1>2, <1>3
<1> HIDE DEF id, n, k
<1>7. CASE n = MaxTid
  <2>1. new.nextId = 1 /\ Age(table, i) = MaxTid - id
    BY <1>3, <1>4, <1>5, <1>6, <1>7
  <2>2. id # 1
    BY <1>3, <1>6, <2>1
  <2>3. Age(new, i) = 1 + MaxTid - id
    BY <1>3, <1>4, <1>6, <2>1, <2>2
  <2> QED
    BY <1>3, <1>6, <2>1, <2>3
<1>8. CASE n # MaxTid
  <2>1. new.nextId = n + 1
    BY <1>3, <1>5, <1>6, <1>8
  <2>2. CASE id <= n
    BY <1>3, <1>4, <1>6, <2>1, <2>2
  <2>3. CASE ~(id <= n)
    <3>1. Age(table, i) = n + MaxTid - id
      BY <1>4, <2>3
    <3>2. id # n + 1
      BY <1>3, <1>6, <3>1
    <3>3. Age(new, i) = (n + 1) + MaxTid - id
      BY <1>3, <1>4, <1>6, <2>1, <2>3, <3>2
    <3> QED
      BY <1>3, <1>6, <3>1, <3>3
  <2> QED
    BY <2>2, <2>3
<1> QED
  BY <1>7, <1>8

(* A table stays sound when a topic with a new name comes last.            *)
LEMMA AddedLast ==
    ASSUME ListAssumption, NEW table, TableSound(table), ~Full(table), NEW t \in Topic, NEW new,
           TopicByName(table, t.name) = 0,
           t.type = "normal" => /\ t.name \in Registrable
                                /\ t.id = NextTopicId(table.nextId) /\ new.nextId = t.id,
           t.type = "predef" => /\ t.id \in DOMAIN Predefined /\ t.name = Predefined[t.id]
                                /\ new.nextId = table.nextId,
           new = [list |-> new.list, nextId |-> new.nextId],
           new.list = Append(table.list, t)
    PROVE  /\ TableSound(new) /\ Len(new.list) = Len(table.list) + 1
           /\ \A i \in 1..Len(table.list) : new.list[i] = table.list[i]
           /\ new.list[Len(new.list)] = t
           /\ ToSet(table.list) \subseteq ToSet(new.list)
<1>1. /\ table.list \in Seq(Topic) /\ Queue(table.list) /\ Len(table.list) \in Nat
      /\ table.nextId \in 0..MaxTid
  BY TableElements
<1> DEFINE next == new.nextId
<1>2. /\ new.list = Append(table.list, t) /\ new.nextId = next
      /\ t.type = "normal" => next = NextTopicId(table.nextId) /\ t.id = next
      /\ t.type = "predef" => next = table.nextId
  OBVIOUS
<1>3. /\ new.list \in Seq(Topic) /\ Len(new.list) = Len(table.list) + 1
      /\ \A i \in 1..Len(table.list) : new.list[i] = table.list[i]
      /\ new.list[Len(table.list) + 1] = t
  BY <1>1, <1>2, AppendProperties
<1>4. ToSet(new.list) = ToSet(table.list) \cup {t}
  BY <1>1, <1>2, QueueAppend
<1>5. next \in 0..MaxTid /\ t.type \in {"normal", "predef"}
  BY <1>1, <1>2 DEF ListAssumption, NextTopicId, Topic
<1>6. new \in [list : Seq(Topic), nextId : 0..MaxTid]
  BY <1>2, <1>3, <1>5
<1> DEFINE n == Len(table.list)
<1>7. n \in Nat /\ 1..Len(new.list) = 1..n \cup {n + 1} /\ Len(new.list) = n + 1 /\ new.list[n + 1] = t
  BY <1>1, <1>3
<1> HIDE DEF n
<1>8. \A i \in 1..n : new.list[i] = table.list[i] /\ table.list[i].name # t.name
  BY <1>3, ByName DEF n
<1>9. \A i, j \in 1..Len(new.list) : new.list[i].name = new.list[j].name => i = j
  <2>1. \A i, j \in 1..n : table.list[i].name = table.list[j].name => i = j
    BY DEF TableSound, n
  <2> QED
    BY <1>7, <1>8, <2>1
<1>10. \A i \in 1..Len(new.list) : new.list[i].type = "predef" =>
           new.list[i].id \in DOMAIN Predefined /\ new.list[i].name = Predefined[new.list[i].id]
  <2>1. \A i \in 1..n : table.list[i].type = "predef" =>
           table.list[i].id \in DOMAIN Predefined /\ table.list[i].name = Predefined[table.list[i].id]
    BY DEF TableSound, n
  <2> QED
    BY <1>7, <1>8, <2>1
<1>11. \A i \in 1..n : table.list[i].type = "normal" =>
           /\ Age(new, i) = IF t.type = "normal" THEN Age(table, i) + 1 ELSE Age(table, i)
           /\ Age(table, i) \in Int
  <2>1. ASSUME NEW i \in 1..n, table.list[i].type = "normal"
        PROVE  /\ Age(new, i) = IF t.type = "normal" THEN Age(table, i) + 1 ELSE Age(table, i)
               /\ Age(table, i) \in Int
    <3>1. Age(table, i) \in Int
      BY TableElements DEF Age, n, ListAssumption
    <3>2. CASE t.type = "normal"
      BY <1>2, <1>8, <2>1, <3>1, <3>2, AgeGrows DEF n
    <3>3. CASE t.type = "predef"
      <4>1. new.nextId = table.nextId /\ new.list[i] = table.list[i] /\ t.type # "normal"
        BY <1>2, <1>8, <3>3
      <4> QED
        BY <3>1, <4>1 DEF Age
    <3> QED
      BY <1>5, <3>2, <3>3
  <2> QED
    BY <2>1
<1>12. t.type = "normal" => Age(new, n + 1) = 0 /\ t.id <= MaxTid
  BY <1>2, <1>5, <1>7 DEF Age
<1>13. \A i \in 1..n : table.list[i].type = "normal" =>
           /\ table.list[i].name \in Registrable
           /\ table.list[i].id <= MaxTid
           /\ Age(table, i) <= n - i /\ Age(table, i) >= 0
  <2>1. ASSUME NEW i \in 1..n, table.list[i].type = "normal" PROVE Age(table, i) >= 0
    <3>1. table.list[i].id <= MaxTid
      BY <2>1 DEF TableSound, n
    <3> QED
      BY <3>1, TableElements DEF Age, n, ListAssumption
  <2> QED
    BY <2>1 DEF TableSound, n
<1>14. \A i \in 1..Len(new.list) : new.list[i].type = "normal" =>
           /\ new.list[i].name \in Registrable
           /\ new.list[i].id <= MaxTid
           /\ Age(new, i) <= Len(new.list) - i
  <2>1. ASSUME NEW i \in 1..n, new.list[i].type = "normal"
        PROVE  /\ new.list[i].name \in Registrable
               /\ new.list[i].id <= MaxTid
               /\ Age(new, i) <= Len(new.list) - i
    <3>1. table.list[i].type = "normal" /\ new.list[i] = table.list[i]
      BY <1>8, <2>1
    <3>2. /\ Age(new, i) = IF t.type = "normal" THEN Age(table, i) + 1 ELSE Age(table, i)
          /\ Age(table, i) \in Int /\ Age(table, i) <= n - i
          /\ table.list[i].name \in Registrable /\ table.list[i].id <= MaxTid
      BY <1>11, <1>13, <3>1
    <3>3. Age(new, i) <= (n + 1) - i
      BY <1>7, <3>2
    <3> QED
      BY <1>7, <3>1, <3>2, <3>3
  <2>2. ASSUME t.type = "normal"
        PROVE  t.name \in Registrable /\ t.id <= MaxTid /\ Age(new, n + 1) <= Len(new.list) - (n + 1)
    BY <1>7, <1>12, <2>2
  <2> QED
    BY <1>7, <2>1, <2>2
<1>15. \A i, j \in 1..Len(new.list) :
           new.list[i].type = "normal" /\ new.list[j].type = "normal" /\ i < j
           => Age(new, j) < Age(new, i)
  <2>1. \A i, j \in 1..n :
           table.list[i].type = "normal" /\ table.list[j].type = "normal" /\ i < j
           => Age(table, j) < Age(table, i)
    BY DEF TableSound, n
  <2>2. ASSUME NEW i \in 1..n, NEW j \in 1..n,
               new.list[i].type = "normal", new.list[j].type = "normal", i < j
        PROVE  Age(new, j) < Age(new, i)
    <3>1. table.list[i].type = "normal" /\ table.list[j].type = "normal"
      BY <1>8, <2>2
    <3>2. Age(table, j) < Age(table, i)
      BY <2>1, <2>2, <3>1
    <3>3. /\ Age(new, i) = IF t.type = "normal" THEN Age(table, i) + 1 ELSE Age(table, i)
          /\ Age(new, j) = IF t.type = "normal" THEN Age(table, j) + 1 ELSE Age(table, j)
          /\ Age(table, i) \in Int /\ Age(table, j) \in Int
      BY <1>11, <3>1
    <3> QED
      BY <3>2, <3>3
  <2>3. ASSUME NEW i \in 1..n, t.type = "normal", new.list[i].type = "normal"
        PROVE  Age(new, n + 1) < Age(new, i)
    <3>1. table.list[i].type = "normal"
      BY <1>8, <2>3
    <3>2. Age(new, i) = Age(table, i) + 1 /\ Age(table, i) \in Int /\ Age(table, i) >= 0
      BY <1>11, <1>13, <2>3, <3>1
    <3> QED
      BY <1>12, <2>3, <3>2
  <2>4. SUFFICES ASSUME NEW i \in 1..n \cup {n + 1}, NEW j \in 1..n \cup {n + 1},
                        new.list[i].type = "normal", new.list[j].type = "normal", i < j
                 PROVE  Age(new, j) < Age(new, i)
    BY <1>7
  <2>5. i \in 1..n /\ (j \in 1..n \/ j = n + 1)
    BY <1>7, <2>4
  <2>6. j = n + 1 => t.type = "normal"
    BY <1>7, <2>4
  <2> QED
    BY <2>2, <2>3, <2>4, <2>5, <2>6
<1>16. TableSound(new)
  BY <1>6, <1>9, <1>10, <1>14, <1>15 DEF TableSound
<1> QED
  BY <1>3, <1>4, <1>16

(* add(topicid) of a name the device may register: the topic is there.     *)
LEMMA Registering ==
    ASSUME Sound, NEW table, TableSound(table), NEW name \in Registrable
    PROVE  /\ TableSound(Added(table, name, 0))
           /\ ToSet(table.list) \subseteq ToSet(Added(table, name, 0).list)
           /\ RegisteredTopic(table, name) \in 1..Len(Added(table, name, 0).list)
           /\ RegisteredTopic(table, name) # 0
           /\ LET t == Added(table, name, 0).list[RegisteredTopic(table, name)]
              IN  /\ t = [name |-> name, type |-> "normal", id |-> t.id]
                  /\ HasId(Added(table, name, 0), name, t.id)
<1>0. ListAssumption /\ name \in TopicNames /\ name \in Names
  BY SoundParts DEF Names
<1> DEFINE new == Added(table, name, 0)
           i == RegisteredTopic(table, name)
<1>1. SUFFICES /\ TableSound(new) /\ ToSet(table.list) \subseteq ToSet(new.list)
               /\ i \in 1..Len(new.list)
               /\ new.list[i].name = name /\ new.list[i].type = "normal"
  <2> HIDE DEF new, i
  <2>1. new.list[i] \in Topic /\ new.list[i] \in ToSet(new.list) /\ i # 0
    BY <1>0, <1>1, TableElements
  <2>2. new.list[i] = [name |-> name, type |-> "normal", id |-> new.list[i].id]
    BY <1>1, <2>1 DEF Topic
  <2> QED
    BY <1>1, <2>1, <2>2 DEF HasId, new, i
<1>2. CASE TopicByName(table, name) # 0
  <2>1. new = table /\ i = TopicByName(table, name)
    BY <1>2 DEF Added, RegisteredTopic
  <2>2. i \in 1..Len(table.list) /\ table.list[i].name = name
    BY <1>0, <1>2, <2>1, ByName
  <2>3. table.list[i].type \in {"normal", "predef"}
    BY <1>0, <2>2, TableElements
  <2>4. table.list[i].type # "predef"
    <3>1. table.list[i].type = "predef" =>
             table.list[i].id \in DOMAIN Predefined /\ name = Predefined[table.list[i].id]
      BY <2>2 DEF TableSound
    <3> QED
      BY <3>1, SoundParts
  <2> QED
    BY <2>1, <2>2, <2>3, <2>4
<1>3. CASE TopicByName(table, name) = 0
  <2>1. ~Full(table)
    BY <1>0, <1>3, Roomy
  <2> DEFINE next == NextTopicId(table.nextId)
             t == [name |-> name, type |-> "normal", id |-> next]
  <2>2. table.nextId \in 0..MaxTid /\ MaxTid \in Nat /\ MaxTid > 0
    BY <1>0, TableElements DEF ListAssumption
  <2>3. next \in 1..(MaxTid + 1)
    BY <2>2 DEF NextTopicId
  <2> HIDE DEF next
  <2>4. t \in Topic /\ t.name = name /\ t.type = "normal" /\ t.id = next
    BY <1>0, <2>3 DEF Topic
  <2>5. /\ new = [list |-> new.list, nextId |-> new.nextId]
        /\ new.list = Append(table.list, t) /\ new.nextId = next
    BY <1>3, <2>1 DEF Added, next
  <2> HIDE DEF t, new
  <2>6. /\ TableSound(new) /\ Len(new.list) = Len(table.list) + 1
        /\ new.list[Len(new.list)] = t
        /\ ToSet(table.list) \subseteq ToSet(new.list)
    <3>1. next = NextTopicId(table.nextId)
      BY DEF next
    <3>2. TopicByName(table, t.name) = 0
      BY <1>3, <2>4
    <3>3. /\ t.type = "normal" => /\ t.name \in Registrable
                                  /\ t.id = NextTopicId(table.nextId) /\ new.nextId = t.id
          /\ t.type # "predef"
      BY <2>4, <2>5, <3>1
    <3>4. t \in Topic
      BY <2>4
    <3>5. TableSound(new) /\ Len(new.list) = Len(table.list) + 1
      BY <1>0, <2>1, <2>5, <3>2, <3>3, <3>4, AddedLast
    <3>6. new.list[Len(new.list)] = t
      BY <1>0, <2>1, <2>5, <3>2, <3>3, <3>4, AddedLast
    <3>7. ToSet(table.list) \subseteq ToSet(new.list)
      BY <1>0, <2>1, <2>5, <3>2, <3>3, <3>4, AddedLast
    <3> QED
      BY <3>5, <3>6, <3>7
  <2>7. i = TopicByName(new, name)
    BY <1>3, <2>1 DEF RegisteredTopic, AddedTopic, new
  <2>8. Len(new.list) \in 1..Len(new.list)
    BY <1>0, <2>6, TableElements
  <2>9. i = Len(new.list)
    BY <1>0, <2>4, <2>6, <2>7, <2>8, ByName
  <2> QED
    BY <2>4, <2>6, <2>8, <2>9
<1> QED
  BY <1>2, <1>3

(* The copy of a predefined topic of the gateway: the client has it.       *)
LEMMA Copying ==
    ASSUME Sound, TableSound(topics), NEW ref, ref.type = "predef", ref.id \in DOMAIN Predefined
    PROVE  /\ TableSound(WithCopy(ref))
           /\ ToSet(topics.list) \subseteq ToSet(WithCopy(ref).list)
           /\ Resolved(ref) \in 1..Len(WithCopy(ref).list) /\ Resolved(ref) # 0
           /\ WithCopy(ref).list[Resolved(ref)].id = ref.id
           /\ WithCopy(ref).list[Resolved(ref)].name \in TopicNames
<1>0. ListAssumption
  BY DEF Sound
<1> DEFINE own == TopicById(topics, "predef", ref.id)
           name == Predefined[ref.id]
           new == WithCopy(ref)
           i == Resolved(ref)
<1>1. CASE own # 0
  <2>1. new = topics /\ i = own
    BY <1>1 DEF WithCopy, Resolved
  <2>2. own \in 1..Len(topics.list) /\ topics.list[own].id = ref.id
    BY <1>0, <1>1, ByIdFound
  <2>3. topics.list[own].name \in TopicNames
    BY <1>0, <2>2, TableElements
  <2> QED
    BY <1>1, <2>1, <2>2, <2>3
<1>2. CASE own = 0
  <2>1. new = Added(topics, name, ref.id) /\ i = AddedTopic(topics, name, ref.id)
    BY <1>2 DEF WithCopy, Resolved
  <2>2. name \in Names /\ name \in TopicNames /\ name \notin Registrable
    BY DEF Sound, Names
  <2>3. TopicByName(topics, name) = 0
    <3>1. SUFFICES ASSUME TopicByName(topics, name) # 0 PROVE FALSE
      OBVIOUS
    <3>2. PICK k \in 1..Len(topics.list) : topics.list[k].name = name
      BY <1>0, <3>1, ByName
    <3>3. topics.list[k].type \in {"normal", "predef"}
      BY <1>0, TableElements
    <3>4. topics.list[k].type = "predef"
      BY <2>2, <3>2, <3>3 DEF TableSound
    <3>5. topics.list[k].id = ref.id
      <4>1. topics.list[k].id \in DOMAIN Predefined /\ name = Predefined[topics.list[k].id]
        BY <3>2, <3>4 DEF TableSound
      <4> QED
        BY <4>1, SoundParts
    <3> QED
      BY <1>0, <1>2, <3>4, <3>5, ByIdFound
  <2>4. ~Full(topics)
    BY <2>2, <2>3, Roomy
  <2> DEFINE t == [name |-> name, type |-> "predef", id |-> ref.id]
  <2>5. ref.id \in 1..(MaxTid + 1) /\ ref.id # 0
    BY SoundParts
  <2>6. t \in Topic /\ t.name = name /\ t.type = "predef" /\ t.id = ref.id
    BY <2>2, <2>5 DEF Topic
  <2>7. topics = [list |-> topics.list, nextId |-> topics.nextId]
    BY DEF TableSound
  <2>8. new = [topics EXCEPT !.list = Append(@, t)]
    BY <2>1, <2>3, <2>4, <2>5 DEF Added
  <2> HIDE DEF t, new
  <2>9. /\ new = [list |-> new.list, nextId |-> new.nextId]
        /\ new.list = Append(topics.list, t) /\ new.nextId = topics.nextId
    BY <2>7, <2>8
  <2>10. /\ TableSound(new) /\ Len(new.list) = Len(topics.list) + 1
         /\ new.list[Len(new.list)] = t
         /\ ToSet(topics.list) \subseteq ToSet(new.list)
    <3>1. TopicByName(topics, t.name) = 0
      BY <2>3, <2>6
    <3>2. /\ t.type # "normal"
          /\ t.type = "predef" => t.id \in DOMAIN Predefined /\ t.name = Predefined[t.id]
      BY <2>6
    <3>3. t \in Topic
      BY <2>6
    <3>5. TableSound(new) /\ Len(new.list) = Len(topics.list) + 1
      BY <1>0, <2>4, <2>9, <3>1, <3>2, <3>3, AddedLast
    <3>6. new.list[Len(new.list)] = t
      BY <1>0, <2>4, <2>9, <3>1, <3>2, <3>3, AddedLast
    <3>7. ToSet(topics.list) \subseteq ToSet(new.list)
      BY <1>0, <2>4, <2>9, <3>1, <3>2, <3>3, AddedLast
    <3> QED
      BY <3>5, <3>6, <3>7
  <2>11. i = TopicByName(new, name)
    BY <2>1, <2>4 DEF AddedTopic
  <2>12. Len(new.list) \in 1..Len(new.list)
    BY <1>0, <2>10, TableElements
  <2>13. i = Len(new.list)
    BY <1>0, <2>6, <2>10, <2>11, <2>12, ByName
  <2> QED
    BY <2>2, <2>6, <2>10, <2>12, <2>13 DEF new
<1> QED
  BY <1>1, <1>2

(* The loop of eraseNormal, as a function.                                 *)
LEMMA Erasure ==
    ASSUME NEW s \in Seq(Topic), NEW n \in 0..Len(s)
    PROVE  \E f : f = [i \in 0..n |->
              IF i = 0 THEN <<>>
              ELSE IF s[i].type = "normal" THEN f[i - 1] ELSE Append(f[i - 1], s[i])]
<1> DEFINE Step(f, i) == IF i = 0 THEN <<>>
              ELSE IF s[i].type = "normal" THEN f[i - 1] ELSE Append(f[i - 1], s[i])
           Bad == {k \in 0..Len(s) : ~ \E f : f = [i \in 0..k |-> Step(f, i)]}
<1>0. Len(s) \in Nat
  BY LenProperties
<1>1. SUFFICES ASSUME Bad # {} PROVE FALSE
  OBVIOUS
<1>2. PICK k \in Bad : \A j \in Bad : k <= j
  <2>1. Bad \in SUBSET Nat
    BY <1>0
  <2> HIDE DEF Bad
  <2> QED
    BY <1>1, <2>1, LeastIndex
<1>3. k \in 0..Len(s) /\ ~ \E f : f = [i \in 0..k |-> Step(f, i)]
  OBVIOUS
<1>4. k # 0
  <2>1. [i \in 0..0 |-> <<>>] = [i \in 0..0 |-> Step([j \in 0..0 |-> <<>>], i)]
    OBVIOUS
  <2> QED
    BY <1>3, <2>1
<1>5. k - 1 \in 0..Len(s) /\ k - 1 \notin Bad /\ k \in Nat \ {0}
  <2>1. k - 1 \in 0..Len(s) /\ k \in Nat \ {0}
    BY <1>0, <1>3, <1>4
  <2> HIDE DEF Bad
  <2> QED
    BY <1>2, <2>1
<1>6. PICK f : f = [i \in 0..k - 1 |-> Step(f, i)]
  BY <1>5
<1> DEFINE g == [i \in 0..k |-> IF i = k THEN Step(f, k) ELSE f[i]]
<1>7. g = [i \in 0..k |-> Step(g, i)]
  <2>1. ASSUME NEW i \in 0..k PROVE g[i] = Step(g, i)
    <3>1. CASE i = k
      <4>1. k - 1 \in 0..k /\ k - 1 # k
        BY <1>5
      <4>2. g[k - 1] = f[k - 1] /\ g[k] = Step(f, k)
        BY <4>1, <1>5
      <4> HIDE DEF g
      <4> QED
        BY <3>1, <4>2
    <3>2. CASE i # k
      <4>1. i \in 0..k - 1 /\ (i # 0 => i - 1 \in 0..k /\ i - 1 # k)
        BY <1>5, <3>2
      <4>2. g[i] = f[i] /\ (i # 0 => g[i - 1] = f[i - 1])
        BY <3>2, <4>1
      <4>3. f[i] = Step(f, i)
        BY <1>6, <4>1
      <4> HIDE DEF g
      <4> QED
        BY <4>2, <4>3
    <3> QED
      BY <3>1, <3>2
  <2>2. g = [i \in 0..k |-> g[i]]
    OBVIOUS
  <2> HIDE DEF g
  <2> QED
    BY <2>1, <2>2, Zenon
<1> QED
  BY <1>3, <1>7

(* eraseNormal.                                                            *)
LEMMA WithoutNormalList ==
    ASSUME NEW table, table \in [list : Seq(Topic), nextId : Nat]
    PROVE  \E f : /\ f = [i \in 0..Len(table.list) |->
                      IF i = 0 THEN <<>>
                      ELSE IF table.list[i].type = "normal" THEN f[i - 1]
                           ELSE Append(f[i - 1], table.list[i])]
                  /\ WithoutNormal(table) = [table EXCEPT !.list = f[Len(table.list)]]
<1> DEFINE F == CHOOSE f : f = [i \in 0..Len(table.list) |->
                      IF i = 0 THEN <<>>
                      ELSE IF table.list[i].type = "normal" THEN f[i - 1]
                           ELSE Append(f[i - 1], table.list[i])]
<1>1. table.list \in Seq(Topic)
  OBVIOUS
<1>2. Len(table.list) \in 0..Len(table.list)
  BY <1>1, LenProperties
<1>3. F = [i \in 0..Len(table.list) |->
                      IF i = 0 THEN <<>>
                      ELSE IF table.list[i].type = "normal" THEN F[i - 1]
                           ELSE Append(F[i - 1], table.list[i])]
  BY <1>1, <1>2, Erasure
<1>4. WithoutNormal(table) = [table EXCEPT !.list = F[Len(table.list)]]
  BY DEF WithoutNormal
<1> QED
  BY <1>3, <1>4

(* A sound table stays sound when its normal topics are erased.            *)
LEMMA Forgetting ==
    ASSUME ListAssumption, NEW table, TableSound(table)
    PROVE  TableSound(WithoutNormal(table))
<1> DEFINE s == table.list
<1>0. s \in Seq(Topic) /\ Len(s) \in Nat /\ table \in [list : Seq(Topic), nextId : Nat]
  BY TableElements DEF TableSound, ListAssumption
<1>1. PICK f : /\ f = [i \in 0..Len(s) |->
                      IF i = 0 THEN <<>>
                      ELSE IF s[i].type = "normal" THEN f[i - 1] ELSE Append(f[i - 1], s[i])]
               /\ WithoutNormal(table) = [table EXCEPT !.list = f[Len(s)]]
  BY <1>0, WithoutNormalList
<1> DEFINE Good(k) ==
              /\ f[k] \in Seq(Topic)
              /\ \A j \in 1..Len(f[k]) :
                    f[k][j].type # "normal" /\ \E i \in 1..k : f[k][j] = s[i]
              /\ \A i, j \in 1..Len(f[k]) : f[k][i].name = f[k][j].name => i = j
           Bad == {k \in 0..Len(s) : ~Good(k)}
<1>2. ASSUME Bad # {} PROVE FALSE
  <2>1. PICK k \in Bad : \A j \in Bad : k <= j
    <3>1. Bad \in SUBSET Nat
      BY <1>0
    <3> HIDE DEF Bad
    <3> QED
      BY <1>2, <3>1, LeastIndex
  <2>2. k \in 0..Len(s) /\ ~Good(k) /\ k \in Nat
    BY <1>0
  <2>3. k # 0
    <3>1. ASSUME k = 0 PROVE Good(k)
      <4>0. 0 \in 0..Len(s)
        BY <1>0
      <4>1. f[0] = <<>>
        <5> HIDE DEF s, Good, Bad
        <5> QED
          BY <1>1, <4>0, Zenon
      <4>2. f[k] = <<>> /\ f[k] \in Seq(Topic) /\ Len(f[k]) = 0
        BY <3>1, <4>1, EmptySeq
      <4> QED
        BY <4>2
    <3> QED
      BY <2>2, <3>1
  <2>4. k - 1 \in 0..Len(s) /\ k - 1 \in Nat /\ k \in 1..Len(s)
    BY <1>0, <2>2, <2>3
  <2>5. Good(k - 1)
    <3>1. k - 1 \notin Bad
      <4> HIDE DEF Bad
      <4> QED
        BY <2>1, <2>2, <2>4
    <3> HIDE DEF Good
    <3> QED
      BY <2>4, <3>1
  <2>6. f[k] = IF s[k].type = "normal" THEN f[k - 1] ELSE Append(f[k - 1], s[k])
    <3> HIDE DEF s
    <3> QED
      BY <1>1, <2>2, <2>3, Zenon
  <2>7. \A j \in 1..Len(f[k - 1]) : \E i \in 1..k - 1 : f[k - 1][j] = s[i]
    BY <2>5
  <2>8. \A i \in 1..k - 1 : i \in 1..k /\ i \in 1..Len(s) /\ i # k
    BY <1>0, <2>4
  <2>9. CASE s[k].type = "normal"
    <3>1. f[k] = f[k - 1]
      BY <2>6, <2>9
    <3>2. \A j \in 1..Len(f[k]) : f[k][j].type # "normal" /\ \E i \in 1..k : f[k][j] = s[i]
      BY <2>5, <2>8, <3>1
    <3>3. Good(k)
      BY <2>5, <3>1, <3>2
    <3> QED
      BY <2>2, <3>3
  <2>10. CASE s[k].type # "normal"
    <3> DEFINE r == f[k - 1]
               n == Len(r)
    <3>1. f[k] = Append(r, s[k]) /\ r \in Seq(Topic) /\ s[k] \in Topic
      BY <1>0, <2>4, <2>5, <2>6, <2>10, ElementOfSeq
    <3> HIDE DEF r
    <3>2. /\ f[k] \in Seq(Topic) /\ Len(f[k]) = n + 1 /\ n \in Nat
          /\ \A i \in 1..n : f[k][i] = r[i]
          /\ f[k][n + 1] = s[k]
      BY <3>1, AppendProperties, LenProperties
    <3> HIDE DEF n
    <3>3. 1..Len(f[k]) = 1..n \cup {n + 1}
      BY <3>2
    <3>4. \A j \in 1..n : r[j].type # "normal" /\ \E i \in 1..k - 1 : r[j] = s[i]
      BY <2>5, <2>7 DEF r, n
    <3>5. \A j \in 1..n : r[j].name # s[k].name
      <4>1. ASSUME NEW j \in 1..n PROVE r[j].name # s[k].name
        <5>1. PICK i \in 1..k - 1 : r[j] = s[i]
          BY <3>4
        <5>2. i \in 1..Len(s) /\ i # k
          BY <2>8
        <5> QED
          BY <2>4, <5>1, <5>2 DEF TableSound
      <4> QED
        BY <4>1
    <3>6. \A i, j \in 1..n : r[i].name = r[j].name => i = j
      BY <2>5 DEF r, n
    <3>7. \A j \in 1..Len(f[k]) : f[k][j].type # "normal" /\ \E i \in 1..k : f[k][j] = s[i]
      <4>1. ASSUME NEW j \in 1..n
            PROVE  f[k][j].type # "normal" /\ \E i \in 1..k : f[k][j] = s[i]
        BY <2>8, <3>2, <3>4
      <4>2. f[k][n + 1].type # "normal" /\ \E i \in 1..k : f[k][n + 1] = s[i]
        BY <2>4, <2>10, <3>2
      <4> QED
        BY <3>3, <4>1, <4>2
    <3>8. \A i, j \in 1..Len(f[k]) : f[k][i].name = f[k][j].name => i = j
      BY <3>2, <3>3, <3>5, <3>6
    <3>9. Good(k)
      BY <3>2, <3>7, <3>8
    <3> QED
      BY <2>2, <3>9
  <2> QED
    BY <2>9, <2>10
<1>3. Good(Len(s))
  <2>1. Len(s) \in 0..Len(s) /\ Bad = {}
    BY <1>0, <1>2
  <2> HIDE DEF Good
  <2> QED
    BY <2>1
<1> DEFINE new == WithoutNormal(table)
           r == f[Len(s)]
<1>4. new.list = r /\ new.nextId = table.nextId /\ new \in [list : Seq(Topic), nextId : 0..MaxTid]
  BY <1>0, <1>1, <1>3 DEF TableSound
<1>5. /\ \A j \in 1..Len(r) : r[j].type # "normal" /\ \E i \in 1..Len(s) : r[j] = s[i]
      /\ \A i, j \in 1..Len(r) : r[i].name = r[j].name => i = j
  BY <1>3
<1> HIDE DEF new, r, Good
<1>6. \A j \in 1..Len(new.list) : new.list[j].type = "predef" =>
          new.list[j].id \in DOMAIN Predefined /\ new.list[j].name = Predefined[new.list[j].id]
  BY <1>4, <1>5 DEF TableSound
<1> QED
  BY <1>4, <1>5, <1>6 DEF TableSound, new
-----------------------------------------------------------------------------
(* The maps of unanswered requests                                         *)

MapSound(map) ==
    /\ map = [list |-> map.list, cnt |-> map.cnt]
    /\ Queue(map.list)
    /\ map.cnt = Len(map.list) /\ map.cnt <= 2 * MaxInflight + 1

(* getElement: the element with the message id, if there is one.           *)
LEMMA ElementFound ==
    ASSUME NEW map, MapSound(map), NEW m
    PROVE  /\ ElementOf(map, m) # 0 =>
                 /\ ElementOf(map, m) \in 1..Len(map.list)
                 /\ map.list[ElementOf(map, m)].msgId = m
           /\ ElementOf(map, m) = 0 => \A i \in 1..Len(map.list) : map.list[i].msgId # m
<1> DEFINE I == {i \in 1..Len(map.list) : map.list[i].msgId = m}
<1>1. ElementOf(map, m) = IF I # {} THEN Min(I) ELSE 0
  BY DEF ElementOf, SelectInSeq
<1>2. CASE I = {}
  <2>1. ElementOf(map, m) = 0
    BY <1>1, <1>2
  <2> QED
    BY <1>2, <2>1
<1>3. CASE I # {}
  <2>1. I \in SUBSET Nat
    OBVIOUS
  <2>2. Min(I) \in I
    <3> HIDE DEF I
    <3> QED
      BY <1>3, <2>1, LeastIndex
  <2>3. ElementOf(map, m) \in I
    BY <1>1, <1>3, <2>2
  <2>4. ElementOf(map, m) # 0
    BY <2>3
  <2> QED
    BY <2>3, <2>4
<1> QED
  BY <1>2, <1>3

(* What RemoveAt leaves: the elements before the place, and those behind   *)
(* it one place further to the front.                                      *)
LEMMA RemovedAt ==
    ASSUME NEW s, Queue(s), NEW k \in 1..Len(s)
    PROVE  /\ Queue(RemoveAt(s, k)) /\ ToSet(RemoveAt(s, k)) \subseteq ToSet(s)
           /\ Len(RemoveAt(s, k)) = Len(s) - 1
           /\ \A i \in 1..Len(s) - 1 : RemoveAt(s, k)[i] = IF i < k THEN s[i] ELSE s[i + 1]
<1>1. Len(s) \in Nat
  BY QueueElements
<1>2. \A i \in 1..Len(s) : s[i] \in ToSet(s)
  BY QueueElements
<1> DEFINE left_ == SubSeq(s, 1, k - 1)
           right == SubSeq(s, k + 1, Len(s))
<1>3. /\ left_ \in Seq(ToSet(s)) /\ Len(left_) = k - 1
      /\ \A i \in 1..k - 1 : left_[i] = s[i]
  BY <1>1, <1>2, SubSeqProperties DEF Queue
<1>4. /\ right \in Seq(ToSet(s)) /\ Len(right) = Len(s) - k
      /\ \A i \in 1..Len(s) - k : right[i] = s[k + i]
  BY <1>1, <1>2, SubSeqProperties DEF Queue
<1> HIDE DEF left_, right
<1>5. /\ left_ \o right \in Seq(ToSet(s)) /\ Len(left_ \o right) = Len(left_) + Len(right)
      /\ \A i \in 1..Len(left_) + Len(right) :
            (left_ \o right)[i] = IF i <= Len(left_) THEN left_[i] ELSE right[i - Len(left_)]
  BY <1>3, <1>4, ConcatProperties
<1>6. ASSUME NEW i \in 1..Len(s) - 1
      PROVE  (left_ \o right)[i] = IF i < k THEN s[i] ELSE s[i + 1]
  <2>1. CASE i < k
    BY <1>1, <1>3, <1>4, <1>5, <2>1
  <2>2. CASE ~(i < k)
    <3>1. i - (k - 1) \in 1..Len(s) - k /\ k + (i - (k - 1)) = i + 1
      BY <1>1, <2>2
    <3>2. right[i - (k - 1)] = s[i + 1]
      BY <1>4, <3>1
    <3> QED
      BY <1>1, <1>3, <1>4, <1>5, <2>2, <3>2
  <2> QED
    BY <2>1, <2>2
<1>7. RemoveAt(s, k) = left_ \o right
  BY DEF RemoveAt, left_, right
<1>8. Len(left_) + Len(right) = Len(s) - 1
  BY <1>1, <1>3, <1>4
<1>9. Queue(RemoveAt(s, k)) /\ ToSet(RemoveAt(s, k)) \subseteq ToSet(s)
  BY <1>5, <1>7, QueueOfSeq
<1> QED
  BY <1>5, <1>6, <1>7, <1>8, <1>9

(* No element.                                                             *)
LEMMA EmptyMap ==
    ASSUME MapAssumption
    PROVE  MapSound(NoElements) /\ ToSet(NoElements.list) = {}
<1>1. NoElements.list = <<>> /\ NoElements.cnt = 0
  BY DEF NoElements
<1>2. 0 <= 2 * MaxInflight + 1
  BY DEF MapAssumption
<1>3. NoElements = [list |-> NoElements.list, cnt |-> NoElements.cnt]
  BY DEF NoElements
<1> QED
  BY <1>1, <1>2, <1>3, QueueEmpty DEF MapSound

(* erase of an element that is there.                                      *)
LEMMA Erasing ==
    ASSUME MapAssumption, NEW map, MapSound(map), NEW m, ElementOf(map, m) # 0
    PROVE  /\ MapSound(Erased(map, m)) /\ ToSet(Erased(map, m).list) \subseteq ToSet(map.list)
           /\ Erased(map, m).cnt = map.cnt - 1
<1> DEFINE i == ElementOf(map, m)
           new == Erased(map, m)
<1>1. i \in 1..Len(map.list) /\ Queue(map.list)
  BY ElementFound DEF MapSound
<1>2. new.list = RemoveAt(map.list, i) /\ new.cnt = map.cnt - 1
      /\ new = [list |-> new.list, cnt |-> new.cnt]
  BY DEF Erased
<1> HIDE DEF i, new
<1>3. Queue(new.list) /\ ToSet(new.list) \subseteq ToSet(map.list) /\ Len(new.list) = Len(map.list) - 1
  BY <1>1, <1>2, RemovedAt
<1>4. map.cnt = Len(map.list) /\ map.cnt <= 2 * MaxInflight + 1 /\ Len(map.list) \in Nat
  BY <1>1, QueueElements DEF MapSound
<1>5. new.cnt = Len(new.list) /\ new.cnt <= 2 * MaxInflight + 1
  BY <1>2, <1>3, <1>4 DEF MapAssumption
<1>6. MapSound(new)
  BY <1>2, <1>3, <1>5 DEF MapSound
<1> QED
  BY <1>2, <1>3, <1>6 DEF new

(* add: the limit holds, and only e is new.                                *)
LEMMA Adding ==
    ASSUME MapAssumption, NEW map, MapSound(map), NEW e
    PROVE  /\ MapSound(AddedElement(map, e))
           /\ ToSet(AddedElement(map, e).list) \subseteq ToSet(map.list) \cup {e}
<1>1. CASE map.cnt > MaxInflight * 2 \/ (e.topicId = 0 /\ e.type # "short")
  BY <1>1 DEF AddedElement
<1>2. CASE ~(map.cnt > MaxInflight * 2 \/ (e.topicId = 0 /\ e.type # "short"))
  <2> DEFINE rest == IF ElementOf(map, e.msgId) = 0 THEN map ELSE Erased(map, e.msgId)
             new == AddedElement(map, e)
  <2>1. map.cnt \in Nat /\ map.cnt <= MaxInflight * 2
    BY <1>2, QueueElements DEF MapSound, MapAssumption
  <2>2. MapSound(rest) /\ ToSet(rest.list) \subseteq ToSet(map.list) /\ rest.cnt <= map.cnt
    BY <2>1, Erasing
  <2>3. new = [list |-> Append(rest.list, e), cnt |-> rest.cnt + 1]
    BY <1>2 DEF AddedElement
  <2> HIDE DEF rest, new
  <2>4. new.list = Append(rest.list, e) /\ new.cnt = rest.cnt + 1
        /\ new = [list |-> new.list, cnt |-> new.cnt]
    BY <2>3
  <2>5. Queue(rest.list) /\ rest.cnt = Len(rest.list) /\ Len(rest.list) \in Nat
    BY <2>2, QueueElements DEF MapSound
  <2>6. Queue(new.list) /\ Len(new.list) = Len(rest.list) + 1
    BY <2>4, <2>5, QueueAppend
  <2>7. ToSet(new.list) \subseteq ToSet(rest.list) \cup {e}
    BY <2>4, <2>5, QueueAppend
  <2>8. new.cnt = Len(new.list) /\ new.cnt <= 2 * MaxInflight + 1
    BY <2>1, <2>2, <2>4, <2>5, <2>6 DEF MapAssumption
  <2>9. MapSound(new)
    BY <2>4, <2>6, <2>8 DEF MapSound
  <2>10. ToSet(new.list) \subseteq ToSet(map.list) \cup {e}
    BY <2>2, <2>7
  <2> QED
    BY <2>9, <2>10 DEF new
<1> QED
  BY <1>1, <1>2
-----------------------------------------------------------------------------
(* Requests, packets and answers                                           *)

Asked == {"PUBLISH", "REGISTER", "SUBSCRIBE", "UNSUBSCRIBE"}

\* A topic of which the device may know the id.
KnownId(table, id) == \E n \in TopicNames \ Filters : HasId(table, n, id)

RefSound(ref) ==
    /\ ref.type \in {"short", "predef", "normal"}
    /\ ref.type = "short" => ref.name \in Short
    /\ ref.type = "predef" => ref.id \in DOMAIN Predefined

\* The device may ask this of a gateway with these topics.
AskedRight(r, table) ==
    /\ r.type = "PUBLISH" =>
          /\ r.qos \in 0..3 /\ RefSound(r.ref)
          /\ r.ref.type = "normal" => r.qos = 3 \/ KnownId(table, r.ref.id)
    /\ r.type = "REGISTER" => r.name \in Registrable \ Filters
    /\ r.type \in {"SUBSCRIBE", "UNSUBSCRIBE"} =>
          RefSound(r.ref) /\ (r.ref.type = "normal" => r.ref.name \in Registrable /\ r.ref.id = 0)

\* The requests that wait; `used' is the last message id.
RequestsRight(requests, table, used) ==
    /\ \A r \in requests :
          r.type \in Asked \cup {"PUBREL"} /\ r.msgId \in 1..used /\ AskedRight(r, table)
    /\ \A r, s \in requests : r.msgId = s.msgId => r = s

\* A packet of the device is the request that waits with its message id.
PacketRight(e, requests, table, used) ==
    e.from = "device" /\ e.packet.type \in Asked =>
        /\ AskedRight(e.packet, table) /\ e.packet.msgId \in 0..used
        /\ \A r \in requests : r.type # "PUBREL" /\ r.msgId = e.packet.msgId => e.packet = r

PacketsRight(q, requests, table, used) ==
    \A e \in ToSet(q) : PacketRight(e, requests, table, used)

\* An element of _waitedPubTopicIdMap, of a PUBLISH that waits or of none.
PubElementRight(e, requests, used) ==
    /\ e.msgId \in 0..used
    /\ \A r \in requests : r.type = "PUBLISH" /\ r.msgId = e.msgId =>
           e.topicId = ReadId(r.ref) /\ ~e.wildcard

PubMapRight(map, requests, used) ==
    \A e \in ToSet(map.list) : PubElementRight(e, requests, used)

\* The id by which the gateway will send what was subscribed to.
SubscribedId(r, table, id, wildcard) ==
    IF r.ref.type = "normal"
    THEN HasId(table, r.ref.name, id) /\ (wildcard <=> r.ref.name \in Filters)
    ELSE id = r.ref.id /\ ~wildcard

SubElementRight(e, requests, table, used) ==
    /\ e.msgId \in 0..used
    /\ \A r \in requests : r.type = "SUBSCRIBE" /\ r.msgId = e.msgId =>
           SubscribedId(r, table, e.topicId, e.wildcard)

SubMapRight(map, requests, table, used) ==
    \A e \in ToSet(map.list) : SubElementRight(e, requests, table, used)

\* What a SUBACK says to the request r.
SubackRight(p, r, table) ==
    IF p.rc # "accepted" THEN p.id = r.ref.id
    ELSE IF r.ref.type = "normal" /\ r.ref.name \in Filters THEN p.id = 0
    ELSE SubscribedId(r, table, p.id, FALSE)

AnswerRight(p, requests, table, used) ==
    /\ p.type \in {"PUBACK", "SUBACK", "REGACK"} => p.msgId \in 0..used
    /\ p.type = "PUBACK" =>
          \A r \in requests : r.type = "PUBLISH" /\ r.msgId = p.msgId => p.id = ReadId(r.ref)
    /\ p.type = "SUBACK" =>
          \A r \in requests : r.type = "SUBSCRIBE" /\ r.msgId = p.msgId => SubackRight(p, r, table)
    /\ p.type = "REGACK" =>
          \A r \in requests : r.type = "REGISTER" /\ r.msgId = p.msgId => HasId(table, r.name, p.id)

AnswersAllRight(q, requests, table, used) ==
    \A p \in ToSet(q) : AnswerRight(p, requests, table, used)

\* What the device holds as the id of a name is that id in the gateway.
Held(ids, table) ==
    \A n \in Long : ids[n] # 0 => HasId(table, n, ids[n]) /\ n \notin Filters

\* The topics only grew, and the requests are the ones before, up to those
\* that were answered and those that are new.
Later(requests, table, used, requests2, table2, used2) ==
    /\ ToSet(table.list) \subseteq ToSet(table2.list)
    /\ used \in Nat /\ used2 \in Nat /\ used <= used2
    /\ \A r \in requests2 : r \in requests \/ r.type = "PUBREL" \/ r.msgId = used + 1

(* What is right stays right later.                                        *)
LEMMA StaysRight ==
    ASSUME NEW requests, NEW table, NEW used, NEW requests2, NEW table2, NEW used2,
           Later(requests, table, used, requests2, table2, used2)
    PROVE  /\ \A name, id : HasId(table, name, id) => HasId(table2, name, id)
           /\ \A r : AskedRight(r, table) => AskedRight(r, table2)
           /\ \A e : PacketRight(e, requests, table, used)
                        => PacketRight(e, requests2, table2, used2)
           /\ \A e : PubElementRight(e, requests, used) => PubElementRight(e, requests2, used2)
           /\ \A e : SubElementRight(e, requests, table, used)
                        => SubElementRight(e, requests2, table2, used2)
           /\ \A p : AnswerRight(p, requests, table, used)
                        => AnswerRight(p, requests2, table2, used2)
           /\ \A ids : Held(ids, table) => Held(ids, table2)
<1>0. used \in Nat /\ used2 \in Nat /\ used <= used2
  BY DEF Later
<1>1. \A name, id : HasId(table, name, id) => HasId(table2, name, id)
  BY DEF Later, HasId
<1>2. ASSUME NEW r, AskedRight(r, table) PROVE AskedRight(r, table2)
  BY <1>1, <1>2 DEF AskedRight, KnownId
<1>3. \A m \in 0..used : m \in 0..used2 /\ m # used + 1
  BY <1>0
<1>4. \A r \in requests2 : r.type # "PUBREL" /\ r.msgId \in 0..used => r \in requests
  BY <1>3 DEF Later
<1>5. ASSUME NEW e, PacketRight(e, requests, table, used)
      PROVE  PacketRight(e, requests2, table2, used2)
  BY <1>2, <1>3, <1>4, <1>5 DEF PacketRight
<1>6. ASSUME NEW e, PubElementRight(e, requests, used)
      PROVE  PubElementRight(e, requests2, used2)
  BY <1>3, <1>4, <1>6 DEF PubElementRight
<1>7. ASSUME NEW r, NEW id, NEW wildcard, SubscribedId(r, table, id, wildcard)
      PROVE  SubscribedId(r, table2, id, wildcard)
  BY <1>1, <1>7 DEF SubscribedId
<1>8. ASSUME NEW e, SubElementRight(e, requests, table, used)
      PROVE  SubElementRight(e, requests2, table2, used2)
  BY <1>3, <1>4, <1>7, <1>8 DEF SubElementRight
<1>9. ASSUME NEW p, AnswerRight(p, requests, table, used)
      PROVE  AnswerRight(p, requests2, table2, used2)
  <2>1. ASSUME p.type = "PUBACK", NEW r \in requests2, r.type = "PUBLISH", r.msgId = p.msgId
        PROVE  p.id = ReadId(r.ref)
    BY <1>4, <1>9, <2>1 DEF AnswerRight
  <2>2. ASSUME p.type = "SUBACK", NEW r \in requests2, r.type = "SUBSCRIBE", r.msgId = p.msgId
        PROVE  SubackRight(p, r, table2)
    <3>1. SubackRight(p, r, table)
      BY <1>4, <1>9, <2>2 DEF AnswerRight
    <3> QED
      BY <1>7, <3>1 DEF SubackRight
  <2>3. ASSUME p.type = "REGACK", NEW r \in requests2, r.type = "REGISTER", r.msgId = p.msgId
        PROVE  HasId(table2, r.name, p.id)
    BY <1>1, <1>4, <1>9, <2>3 DEF AnswerRight
  <2>4. p.type \in {"PUBACK", "SUBACK", "REGACK"} => p.msgId \in 0..used2
    BY <1>3, <1>9 DEF AnswerRight
  <2> QED
    BY <2>1, <2>2, <2>3, <2>4 DEF AnswerRight
<1>10. ASSUME NEW ids, Held(ids, table) PROVE Held(ids, table2)
  BY <1>1, <1>10 DEF Held
<1> QED
  BY <1>1, <1>2, <1>5, <1>6, <1>8, <1>9, <1>10

-----------------------------------------------------------------------------
(* Sessions                                                                *)

SessionTypes == {"CONNECT", "CONNACK", "DISCONNECT"}

PacketsOnce(q) ==
    \A i, j \in 1..Len(q) :
        q[i].packet.type \in SessionTypes /\ q[j].packet.type \in SessionTypes => i = j

MessagesOnce(q) ==
    \A i, j \in 1..Len(q) : q[i].type \in SessionTypes /\ q[j].type \in SessionTypes => i = j

\* No request of the device is behind its CONNECT.
NothingBehind(q) ==
    \A i, j \in 1..Len(q) :
        i < j /\ q[i].packet.type = "CONNECT" /\ q[j].from = "device" => q[j].packet.type \notin Asked

\* A session message tells what the device is doing.
Fits(type, state) ==
    /\ type \in {"CONNECT", "CONNACK"} => state = "connecting"
    /\ type = "DISCONNECT" => state = "resting"

\* One session message is on its way, or none.
SessionsApart(packets, up, down, state) ==
    /\ PacketsOnce(packets) /\ MessagesOnce(up) /\ MessagesOnce(down) /\ NothingBehind(packets)
    /\ \A e \in ToSet(packets) : e.packet.type \in SessionTypes =>
          /\ \A p \in ToSet(up) : p.type \notin SessionTypes
          /\ \A p \in ToSet(down) : p.type \notin SessionTypes
    /\ \A p \in ToSet(up) : p.type \in SessionTypes =>
          \A r \in ToSet(down) : r.type \notin SessionTypes
    /\ \A e \in ToSet(packets) : Fits(e.packet.type, state)
    /\ \A p \in ToSet(up) : Fits(p.type, state)
    /\ \A p \in ToSet(down) : Fits(p.type, state)

(* The packet queue without its first packet.                              *)
LEMMA PacketsTail ==
    ASSUME NEW q, Queue(q), q # <<>>, PacketsOnce(q), NothingBehind(q)
    PROVE  /\ PacketsOnce(Tail(q)) /\ NothingBehind(Tail(q))
           /\ Head(q).packet.type \in SessionTypes =>
                 \A e \in ToSet(Tail(q)) : e.packet.type \notin SessionTypes
           /\ Head(q).packet.type = "CONNECT" =>
                 \A e \in ToSet(Tail(q)) : e.from = "device" => e.packet.type \notin Asked
<1>1. /\ Queue(Tail(q)) /\ Head(q) = q[1] /\ Len(Tail(q)) = Len(q) - 1
      /\ \A i \in 1..Len(Tail(q)) : Tail(q)[i] = q[i + 1]
  BY QueueTail
<1>2. Len(q) \in Nat /\ 1 \in 1..Len(q)
  BY QueueElements, QueueTail
<1>3. \A i \in 1..Len(Tail(q)) : i + 1 \in 1..Len(q) /\ 1 < i + 1 /\ 1 # i + 1
  BY <1>1, <1>2
<1>4. PacketsOnce(Tail(q))
  <2>1. ASSUME NEW i \in 1..Len(Tail(q)), NEW j \in 1..Len(Tail(q)),
               Tail(q)[i].packet.type \in SessionTypes, Tail(q)[j].packet.type \in SessionTypes
        PROVE  i = j
    <3>1. i + 1 = j + 1
      BY <1>1, <1>3, <2>1 DEF PacketsOnce
    <3> QED
      BY <3>1, <1>1, <1>2
  <2> QED
    BY <2>1 DEF PacketsOnce
<1>5. NothingBehind(Tail(q))
  <2>1. ASSUME NEW i \in 1..Len(Tail(q)), NEW j \in 1..Len(Tail(q)), i < j,
               Tail(q)[i].packet.type = "CONNECT", Tail(q)[j].from = "device"
        PROVE  Tail(q)[j].packet.type \notin Asked
    <3>1. i + 1 < j + 1
      BY <2>1, <1>1, <1>2
    <3> QED
      BY <1>1, <1>3, <2>1, <3>1 DEF NothingBehind
  <2> QED
    BY <2>1 DEF NothingBehind
<1>6. ASSUME NEW e \in ToSet(Tail(q))
      PROVE  /\ Head(q).packet.type \in SessionTypes => e.packet.type \notin SessionTypes
             /\ Head(q).packet.type = "CONNECT" /\ e.from = "device" => e.packet.type \notin Asked
  <2>1. PICK i \in 1..Len(Tail(q)) : e = Tail(q)[i]
    BY <1>1, QueueElements
  <2>2. e = q[i + 1] /\ Head(q) = q[1]
    BY <1>1, <2>1
  <2>3. Head(q).packet.type \in SessionTypes => e.packet.type \notin SessionTypes
    BY <1>2, <1>3, <2>2 DEF PacketsOnce
  <2>4. Head(q).packet.type = "CONNECT" /\ e.from = "device" => e.packet.type \notin Asked
    BY <1>2, <1>3, <2>2 DEF NothingBehind
  <2> QED
    BY <2>3, <2>4
<1> QED
  BY <1>4, <1>5, <1>6

(* The packet queue with one more packet.                                  *)
LEMMA PacketsAppend ==
    ASSUME NEW q, Queue(q), PacketsOnce(q), NothingBehind(q), NEW e,
           e.packet.type \in SessionTypes =>
               \A x \in ToSet(q) : x.packet.type \notin SessionTypes,
           e.from = "device" /\ e.packet.type \in Asked =>
               \A x \in ToSet(q) : x.packet.type # "CONNECT"
    PROVE  PacketsOnce(Append(q, e)) /\ NothingBehind(Append(q, e))
<1> DEFINE r == Append(q, e)
<1>1. /\ Len(q) \in Nat /\ Len(r) = Len(q) + 1 /\ r[Len(q) + 1] = e
      /\ \A i \in 1..Len(q) : r[i] = q[i]
  BY QueueAppend, QueueElements
<1> HIDE DEF r
<1>2. \A i \in 1..Len(r) : i \in 1..Len(q) \/ i = Len(q) + 1
  BY <1>1
<1>3. \A i \in 1..Len(q) : q[i] \in ToSet(q)
  BY QueueElements
<1>4. PacketsOnce(r)
  BY <1>1, <1>2, <1>3 DEF PacketsOnce
<1>5. NothingBehind(r)
  <2>1. ASSUME NEW i \in 1..Len(r), NEW j \in 1..Len(r), i < j,
               r[i].packet.type = "CONNECT", r[j].from = "device"
        PROVE  r[j].packet.type \notin Asked
    <3>1. i \in 1..Len(q)
      BY <1>1, <2>1
    <3>2. CASE j = Len(q) + 1
      BY <1>1, <1>3, <2>1, <3>1, <3>2
    <3>3. CASE j \in 1..Len(q)
      BY <1>1, <2>1, <3>1, <3>3 DEF NothingBehind
    <3> QED
      BY <1>2, <3>2, <3>3
  <2> QED
    BY <2>1 DEF NothingBehind
<1> QED
  BY <1>4, <1>5 DEF r

(* The packet queue with packets of the broker behind it.                  *)
LEMMA PacketsConcat ==
    ASSUME NEW q, Queue(q), PacketsOnce(q), NothingBehind(q), NEW s, Queue(s),
           \A x \in ToSet(s) : x.from = "broker" /\ x.packet.type \notin SessionTypes
    PROVE  PacketsOnce(q \o s) /\ NothingBehind(q \o s)
<1> DEFINE r == q \o s
<1>1. /\ Len(q) \in Nat /\ Len(s) \in Nat /\ Len(r) = Len(q) + Len(s)
      /\ \A i \in 1..Len(r) : r[i] = IF i <= Len(q) THEN q[i] ELSE s[i - Len(q)]
  BY QueueConcat
<1> HIDE DEF r
<1>2. ASSUME NEW i \in 1..Len(r)
      PROVE  \/ i \in 1..Len(q) /\ r[i] = q[i]
             \/ r[i].from = "broker" /\ r[i].packet.type \notin SessionTypes
  <2>1. CASE i <= Len(q)
    BY <1>1, <2>1
  <2>2. CASE ~(i <= Len(q))
    <3>1. i - Len(q) \in 1..Len(s)
      BY <1>1, <2>2
    <3>2. s[i - Len(q)] \in ToSet(s)
      BY <3>1, QueueElements
    <3> QED
      BY <1>1, <2>2, <3>2
  <2> QED
    BY <2>1, <2>2
<1>3. "broker" # "device" /\ "CONNECT" \in SessionTypes
  BY DEF SessionTypes
<1>4. PacketsOnce(r)
  BY <1>2 DEF PacketsOnce
<1>5. NothingBehind(r)
  BY <1>2, <1>3 DEF NothingBehind
<1> QED
  BY <1>4, <1>5 DEF r

(* The packet queue without its last packet.                               *)
LEMMA PacketsFront ==
    ASSUME NEW q, Queue(q), q # <<>>, PacketsOnce(q), NothingBehind(q)
    PROVE  PacketsOnce(Front(q)) /\ NothingBehind(Front(q))
<1>1. /\ Len(q) \in Nat /\ Len(Front(q)) = Len(q) - 1
      /\ \A i \in 1..Len(q) - 1 : Front(q)[i] = q[i]
  BY QueueFront
<1>2. \A i \in 1..Len(Front(q)) : i \in 1..Len(q) /\ Front(q)[i] = q[i]
  BY <1>1
<1> QED
  BY <1>2 DEF PacketsOnce, NothingBehind

(* Messages on their way to the broker or to the device: the first taken.  *)
LEMMA MessagesTail ==
    ASSUME NEW q, Queue(q), q # <<>>, MessagesOnce(q)
    PROVE  /\ MessagesOnce(Tail(q))
           /\ Head(q).type \in SessionTypes =>
                 \A p \in ToSet(Tail(q)) : p.type \notin SessionTypes
<1>1. /\ Queue(Tail(q)) /\ Head(q) = q[1] /\ Len(Tail(q)) = Len(q) - 1
      /\ \A i \in 1..Len(Tail(q)) : Tail(q)[i] = q[i + 1]
  BY QueueTail
<1>2. Len(q) \in Nat /\ 1 \in 1..Len(q)
  BY QueueElements, QueueTail
<1>3. \A i \in 1..Len(Tail(q)) : i + 1 \in 1..Len(q) /\ 1 # i + 1
  BY <1>1, <1>2
<1>4. MessagesOnce(Tail(q))
  <2>1. ASSUME NEW i \in 1..Len(Tail(q)), NEW j \in 1..Len(Tail(q)),
               Tail(q)[i].type \in SessionTypes, Tail(q)[j].type \in SessionTypes
        PROVE  i = j
    <3>1. i + 1 = j + 1
      BY <1>1, <1>3, <2>1 DEF MessagesOnce
    <3> QED
      BY <3>1, <1>1, <1>2
  <2> QED
    BY <2>1 DEF MessagesOnce
<1>5. ASSUME NEW p \in ToSet(Tail(q)), Head(q).type \in SessionTypes
      PROVE  p.type \notin SessionTypes
  <2>1. PICK i \in 1..Len(Tail(q)) : p = Tail(q)[i]
    BY <1>1, QueueElements
  <2> QED
    BY <1>1, <1>2, <1>3, <1>5, <2>1 DEF MessagesOnce
<1> QED
  BY <1>4, <1>5

(* Messages on their way: one more.                                        *)
LEMMA MessagesAppend ==
    ASSUME NEW q, Queue(q), MessagesOnce(q), NEW p,
           p.type \in SessionTypes => \A x \in ToSet(q) : x.type \notin SessionTypes
    PROVE  MessagesOnce(Append(q, p))
<1>1. /\ Len(q) \in Nat /\ Len(Append(q, p)) = Len(q) + 1 /\ Append(q, p)[Len(q) + 1] = p
      /\ \A i \in 1..Len(q) : Append(q, p)[i] = q[i]
  BY QueueAppend, QueueElements
<1>2. \A i \in 1..Len(Append(q, p)) : i \in 1..Len(q) \/ i = Len(q) + 1
  BY <1>1
<1>3. \A i \in 1..Len(q) : q[i] \in ToSet(q)
  BY QueueElements
<1> QED
  BY <1>1, <1>2, <1>3 DEF MessagesOnce

-----------------------------------------------------------------------------
(* The invariant                                                           *)

\* The last message id the device took.
Used == MaxRequests - left.requests

\* What goes to the broker.
UpRight(p) ==
    /\ p.type \in {"PUBLISH", "PUBACK", "PUBREC", "PUBREL", "PUBCOMP", "SUBSCRIBE",
                   "UNSUBSCRIBE", "CONNECT", "PINGREQ"}
    /\ p.type = "PUBLISH" => p.qos \in 0..2 /\ p.topic \in TopicNames

\* What goes to the device.
DownRight(p) ==
    p.type \in {"PUBLISH", "PUBACK", "PUBREC", "PUBREL", "PUBCOMP", "REGACK", "SUBACK",
                "UNSUBACK", "CONNACK", "DISCONNECT", "PINGRESP"}

Shapes ==
    /\ Queue(packetQ) /\ Queue(brokerQ) /\ Queue(clientQ) /\ Queue(saved)
    /\ \A p \in ToSet(saved) : p.type = "PUBLISH"
    /\ \A p \in ToSet(brokerQ) : UpRight(p)
    /\ \A p \in ToSet(clientQ) : DownRight(p)
    /\ dev = [state |-> dev.state, ids |-> dev.ids, requests |-> dev.requests,
              got |-> dev.got, receiving |-> dev.receiving]
    /\ left = [requests |-> left.requests, faults |-> left.faults, rests |-> left.rests]
    /\ left.requests \in 0..MaxRequests

Tables == TableSound(topics) /\ MapSound(pubMap) /\ MapSound(subMap)

Waiting ==
    /\ RequestsRight(dev.requests, topics, Used)
    /\ PacketsRight(packetQ, dev.requests, topics, Used)
    /\ PubMapRight(pubMap, dev.requests, Used)
    /\ SubMapRight(subMap, dev.requests, topics, Used)
    /\ AnswersAllRight(clientQ, dev.requests, topics, Used)
    /\ Held(dev.ids, topics)

\* A CONNECT that begins a clean session.
Clean(p) == p.type = "CONNECT" /\ p.clean

\* The device has forgotten its session.
Fresh(device) == device.requests = {} /\ \A n \in Long : device.ids[n] = 0

Sessions ==
    /\ SessionsApart(packetQ, brokerQ, clientQ, dev.state)
    /\ \A e \in ToSet(packetQ) : Clean(e.packet) => Fresh(dev)

IInv == Shapes /\ Tables /\ Waiting /\ Sessions

(* Requests, packets, maps and answers after a step, from what is new.     *)
LEMMA WaitingStep ==
    ASSUME Waiting, Later(dev.requests, topics, Used, dev'.requests, topics', Used'),
           RequestsRight(dev'.requests, topics', Used'), Held(dev'.ids, topics'),
           \A e \in ToSet(packetQ') : \/ e \in ToSet(packetQ)
                                      \/ PacketRight(e, dev'.requests, topics', Used'),
           \A e \in ToSet(pubMap'.list) : \/ e \in ToSet(pubMap.list)
                                          \/ PubElementRight(e, dev'.requests, Used'),
           \A e \in ToSet(subMap'.list) : \/ e \in ToSet(subMap.list)
                                          \/ SubElementRight(e, dev'.requests, topics', Used'),
           \A p \in ToSet(clientQ') : \/ p \in ToSet(clientQ)
                                      \/ AnswerRight(p, dev'.requests, topics', Used')
    PROVE  Waiting'
<1>1. PacketsRight(packetQ', dev'.requests, topics', Used')
  BY StaysRight DEF Waiting, PacketsRight
<1>2. PubMapRight(pubMap', dev'.requests, Used')
  BY StaysRight DEF Waiting, PubMapRight
<1>3. SubMapRight(subMap', dev'.requests, topics', Used')
  BY StaysRight DEF Waiting, SubMapRight
<1>4. AnswersAllRight(clientQ', dev'.requests, topics', Used')
  BY StaysRight DEF Waiting, AnswersAllRight
<1> QED
  BY <1>1, <1>2, <1>3, <1>4 DEF Waiting

(* A step in which no session message is sent, and the device goes on.     *)
LEMMA SessionsStep ==
    ASSUME Sessions, dev'.state = dev.state,
           dev.state = "connecting" /\ Fresh(dev) => Fresh(dev'),
           PacketsOnce(packetQ'), NothingBehind(packetQ'),
           MessagesOnce(brokerQ'), MessagesOnce(clientQ'),
           \A e \in ToSet(packetQ') : e \in ToSet(packetQ) \/ e.packet.type \notin SessionTypes,
           \A p \in ToSet(brokerQ') : p \in ToSet(brokerQ) \/ p.type \notin SessionTypes,
           \A p \in ToSet(clientQ') : p \in ToSet(clientQ) \/ p.type \notin SessionTypes
    PROVE  Sessions'
<1>1. \A type : type \notin SessionTypes => Fits(type, dev'.state)
  BY DEF SessionTypes, Fits
<1>2. /\ \A e \in ToSet(packetQ') : Fits(e.packet.type, dev'.state)
      /\ \A p \in ToSet(brokerQ') : Fits(p.type, dev'.state)
      /\ \A p \in ToSet(clientQ') : Fits(p.type, dev'.state)
  BY <1>1 DEF Sessions, SessionsApart
<1>3. SessionsApart(packetQ', brokerQ', clientQ', dev'.state)
  BY <1>2 DEF Sessions, SessionsApart
<1>4. ASSUME NEW e \in ToSet(packetQ'), Clean(e.packet) PROVE Fresh(dev')
  <2>1. e.packet.type = "CONNECT" /\ e \in ToSet(packetQ)
    BY <1>4 DEF Clean, SessionTypes
  <2>2. dev.state = "connecting" /\ Fresh(dev)
    BY <1>4, <2>1 DEF Sessions, SessionsApart, Fits
  <2> QED
    BY <2>2
<1> QED
  BY <1>3, <1>4 DEF Sessions

\* A queue goes on: something may be sent that is no session message.
UpSent(q, q2) ==
    q2 = q \/ \E p : q2 = Append(q, p) /\ UpRight(p) /\ p.type \notin SessionTypes

DownSent(q, q2, requests, table, used) ==
    q2 = q \/ \E p : /\ q2 = Append(q, p) /\ DownRight(p) /\ p.type \notin SessionTypes
                     /\ AnswerRight(p, requests, table, used)

(* A packet is sent to the broker.                                         *)
LEMMA SendingUp ==
    ASSUME NEW q, NEW q2, Queue(q), MessagesOnce(q), \A p \in ToSet(q) : UpRight(p), UpSent(q, q2)
    PROVE  /\ Queue(q2) /\ MessagesOnce(q2)
           /\ \A p \in ToSet(q2) : UpRight(p)
           /\ \A p \in ToSet(q2) : p \in ToSet(q) \/ p.type \notin SessionTypes
<1>1. CASE q2 = q
  BY <1>1
<1>2. CASE q2 # q
  <2>1. PICK p : q2 = Append(q, p) /\ UpRight(p) /\ p.type \notin SessionTypes
    BY <1>2 DEF UpSent
  <2>2. Queue(q2) /\ ToSet(q2) = ToSet(q) \cup {p}
    BY <2>1, QueueAppend
  <2>3. MessagesOnce(q2)
    BY <2>1, MessagesAppend
  <2> QED
    BY <2>1, <2>2, <2>3
<1> QED
  BY <1>1, <1>2

(* A packet is sent to the device.                                         *)
LEMMA SendingDown ==
    ASSUME NEW q, NEW q2, NEW requests, NEW table, NEW used, Queue(q), MessagesOnce(q),
           \A p \in ToSet(q) : DownRight(p), DownSent(q, q2, requests, table, used)
    PROVE  /\ Queue(q2) /\ MessagesOnce(q2)
           /\ \A p \in ToSet(q2) : DownRight(p)
           /\ \A p \in ToSet(q2) : p \in ToSet(q) \/ p.type \notin SessionTypes
           /\ \A p \in ToSet(q2) : p \in ToSet(q) \/ AnswerRight(p, requests, table, used)
<1>1. CASE q2 = q
  BY <1>1
<1>2. CASE q2 # q
  <2>1. PICK p : /\ q2 = Append(q, p) /\ DownRight(p) /\ p.type \notin SessionTypes
                 /\ AnswerRight(p, requests, table, used)
    BY <1>2 DEF DownSent
  <2>2. Queue(q2) /\ ToSet(q2) = ToSet(q) \cup {p}
    BY <2>1, QueueAppend
  <2>3. MessagesOnce(q2)
    BY <2>1, MessagesAppend
  <2> QED
    BY <2>1, <2>2, <2>3
<1> QED
  BY <1>1, <1>2

\* Packets are taken from the packet queue, and the broker's may be added.
PacketsTaken(q, q2) ==
    /\ Queue(q2) /\ PacketsOnce(q2) /\ NothingBehind(q2)
    /\ \A e \in ToSet(q2) :
          e \in ToSet(q) \/ (e.from = "broker" /\ e.packet.type \notin SessionTypes)

(* Message ids were used up to a number.                                   *)
LEMMA UsedNumber ==
    ASSUME Sound, IInv
    PROVE  Used \in Nat /\ Used <= MaxRequests /\ Used + left.requests = MaxRequests
<1>1. MaxRequests \in Nat
  BY SoundParts
<1>2. left.requests \in 0..MaxRequests
  BY DEF IInv, Shapes
<1> QED
  BY <1>1, <1>2 DEF Used

(* The step of a handler that neither begins nor ends a session.           *)
LEMMA Handling ==
    ASSUME Sound, IInv, PacketsTaken(packetQ, packetQ'), UpSent(brokerQ, brokerQ'),
           DownSent(clientQ, clientQ', dev.requests, topics', Used),
           TableSound(topics'), ToSet(topics.list) \subseteq ToSet(topics'.list),
           MapSound(pubMap'), MapSound(subMap'),
           \A e \in ToSet(pubMap'.list) : \/ e \in ToSet(pubMap.list)
                                          \/ PubElementRight(e, dev.requests, Used),
           \A e \in ToSet(subMap'.list) : \/ e \in ToSet(subMap.list)
                                          \/ SubElementRight(e, dev.requests, topics', Used),
           Queue(saved'), \A p \in ToSet(saved') : p.type = "PUBLISH",
           UNCHANGED <<dev, left>>
    PROVE  IInv'
<1>1. Used' = Used /\ dev' = dev /\ left' = left
  BY DEF Used
<1>2. Used \in Nat
  BY UsedNumber
<1>3. Later(dev.requests, topics, Used, dev'.requests, topics', Used')
  BY <1>1, <1>2 DEF Later
<1>4. /\ Queue(brokerQ') /\ MessagesOnce(brokerQ') /\ \A p \in ToSet(brokerQ') : UpRight(p)
      /\ \A p \in ToSet(brokerQ') : p \in ToSet(brokerQ) \/ p.type \notin SessionTypes
  BY SendingUp DEF IInv, Shapes, Sessions, SessionsApart
<1>5. /\ Queue(clientQ') /\ MessagesOnce(clientQ') /\ \A p \in ToSet(clientQ') : DownRight(p)
      /\ \A p \in ToSet(clientQ') : p \in ToSet(clientQ) \/ p.type \notin SessionTypes
      /\ \A p \in ToSet(clientQ') :
            p \in ToSet(clientQ) \/ AnswerRight(p, dev.requests, topics', Used)
  BY SendingDown DEF IInv, Shapes, Sessions, SessionsApart
<1>6. Shapes'
  BY <1>1, <1>4, <1>5 DEF IInv, Shapes, PacketsTaken
<1>7. RequestsRight(dev'.requests, topics', Used')
  BY <1>1, <1>3, StaysRight DEF IInv, Waiting, RequestsRight
<1>8. Held(dev'.ids, topics')
  BY <1>1, <1>3, StaysRight DEF IInv, Waiting
<1>9. \A e \in ToSet(packetQ') : e \in ToSet(packetQ) \/ PacketRight(e, dev'.requests, topics', Used')
  BY DEF PacketsTaken, PacketRight
<1>10. Waiting'
  BY <1>1, <1>3, <1>5, <1>7, <1>8, <1>9, WaitingStep DEF IInv
<1>11. Sessions'
  BY <1>1, <1>4, <1>5, SessionsStep DEF IInv, PacketsTaken, Sessions
<1>12. Tables'
  BY DEF Tables
<1> QED
  BY <1>6, <1>10, <1>11, <1>12 DEF IInv

(* One packet is taken.                                                    *)
LEMMA Taking ==
    ASSUME IInv, packetQ # <<>>, packetQ' = Tail(packetQ)
    PROVE  PacketsTaken(packetQ, packetQ') /\ Head(packetQ) \in ToSet(packetQ)
<1>1. Queue(packetQ) /\ PacketsOnce(packetQ) /\ NothingBehind(packetQ)
  BY DEF IInv, Shapes, Sessions, SessionsApart
<1>2. /\ Queue(packetQ') /\ ToSet(packetQ') \subseteq ToSet(packetQ)
      /\ Head(packetQ) \in ToSet(packetQ)
  BY <1>1, QueueTail
<1>3. PacketsOnce(packetQ') /\ NothingBehind(packetQ')
  BY <1>1, PacketsTail
<1> QED
  BY <1>2, <1>3 DEF PacketsTaken

-----------------------------------------------------------------------------
(* The handlers of the device's packets                                    *)

(* What the first packet of the device asks is right.                      *)
LEMMA AskedPacket ==
    ASSUME IInv, packetQ # <<>>, Head(packetQ).from = "device", Packet.type \in Asked
    PROVE  /\ AskedRight(Packet, topics) /\ Packet.msgId \in 0..Used
           /\ \A r \in dev.requests : r.type # "PUBREL" /\ r.msgId = Packet.msgId => Packet = r
<1>1. Head(packetQ) \in ToSet(packetQ)
  BY QueueTail DEF IInv, Shapes
<1> QED
  BY <1>1 DEF IInv, Waiting, PacketsRight, PacketRight, Packet

(* The topic of a PUBLISH is found, and it is no filter; with QoS -1 and a *)
(* name it may be any topic, or none.                                      *)
LEMMA PublishTopic ==
    ASSUME Sound, TableSound(topics), NEW p, p.qos \in 0..3, RefSound(p.ref),
           p.ref.type # "short",
           p.ref.type = "normal" => p.qos = 3 \/ KnownId(topics, p.ref.id),
           NEW i \in FoundTopics(p)
    PROVE  /\ TableSound(WithCopy(p.ref))
           /\ ToSet(topics.list) \subseteq ToSet(WithCopy(p.ref).list)
           /\ p.qos # 3 => i # 0
           /\ i # 0 => WithCopy(p.ref).list[i].name \in TopicNames
           /\ p.qos # 3 /\ p.ref.type = "normal" => WithCopy(p.ref).list[i].name \notin Filters
<1>0. ListAssumption
  BY SoundParts
<1>1. CASE p.ref.type = "predef"
  <2>1. p.ref.id \in DOMAIN Predefined
    BY <1>1 DEF RefSound
  <2>2. TableSound(WithCopy(p.ref)) /\ ToSet(topics.list) \subseteq ToSet(WithCopy(p.ref).list)
    BY <1>1, <2>1, Copying
  <2>3. Resolved(p.ref) # 0 /\ WithCopy(p.ref).list[Resolved(p.ref)].name \in TopicNames
    BY <1>1, <2>1, Copying
  <2>4. i = Resolved(p.ref)
    BY <1>1 DEF FoundTopics
  <2> QED
    BY <1>1, <2>2, <2>3, <2>4
<1>2. CASE p.ref.type = "normal" /\ p.qos = 3
  <2>1. WithCopy(p.ref) = topics
    BY <1>2 DEF WithCopy
  <2>2. i = 0 \/ i \in 1..Len(topics.list)
    BY <1>2 DEF FoundTopics
  <2>3. ASSUME i # 0 PROVE topics.list[i].name \in TopicNames
    <3>1. i \in 1..Len(topics.list)
      BY <2>2, <2>3
    <3> QED
      BY <1>0, <3>1, TableElements
  <2> QED
    BY <1>2, <2>1, <2>3
<1>3. CASE p.ref.type = "normal" /\ p.qos # 3
  <2>1. PICK n \in TopicNames \ Filters : HasId(topics, n, p.ref.id)
    BY <1>3 DEF KnownId
  <2>2. /\ TopicById(topics, "normal", p.ref.id) # 0
        /\ topics.list[TopicById(topics, "normal", p.ref.id)]
              = [name |-> n, type |-> "normal", id |-> p.ref.id]
    BY <1>0, <2>1, HasIdFound
  <2>3. WithCopy(p.ref) = topics /\ i = TopicById(topics, "normal", p.ref.id)
    BY <1>3 DEF WithCopy, Resolved, FoundTopics
  <2> QED
    BY <2>1, <2>2, <2>3
<1> QED
  BY <1>1, <1>2, <1>3 DEF RefSound

(* MQTTSNPublishHandler::handlePublish.                                    *)
LEMMA DevicePublishStep ==
    ASSUME Sound, IInv, DevicePublish
    PROVE  IInv'
<1> DEFINE p == Packet
           Name(i) == IF p.ref.type = "short" THEN p.ref.name ELSE topics'.list[i].name
           E(i) == [msgId |-> p.msgId, topicId |-> ReadId(p.ref), type |-> p.ref.type,
                    wildcard |-> p.ref.type = "normal" /\ Name(i) \in Filters]
           M(i) == [type |-> "PUBLISH", topic |-> Name(i), qos |-> IF p.qos = 3 THEN 0 ELSE p.qos,
                    msgId |-> p.msgId, n |-> p.n]
<1>1. /\ packetQ # <<>> /\ packetQ' = Tail(packetQ) /\ Head(packetQ).from = "device"
      /\ p.type = "PUBLISH"
  BY DEF DevicePublish, Takes, Packet
<1>2. /\ AskedRight(p, topics) /\ p.msgId \in 0..Used
      /\ \A r \in dev.requests : r.type # "PUBREL" /\ r.msgId = p.msgId => p = r
  BY <1>1, AskedPacket DEF Asked
<1>3. /\ p.qos \in 0..3 /\ RefSound(p.ref)
      /\ p.ref.type = "normal" => p.qos = 3 \/ KnownId(topics, p.ref.id)
  BY <1>1, <1>2 DEF AskedRight
<1>4. PICK i \in FoundTopics(p) :
        /\ topics' = IF p.ref.type = "short" THEN topics ELSE WithCopy(p.ref)
        /\ \/ /\ p.ref.type # "short" /\ i = 0
              /\ IF p.qos \in {1, 2} THEN SendClient(PubackTo(p.ref.id, p.msgId, "invalid id"))
                 ELSE UNCHANGED clientQ
              /\ IF p.qos = 0
                 THEN SendBroker([type |-> "PUBLISH", topic |-> "", qos |-> 0,
                                  msgId |-> 0, n |-> p.n])
                 ELSE UNCHANGED brokerQ
              /\ UNCHANGED pubMap
           \/ /\ p.ref.type = "short" \/ i # 0
              /\ pubMap' = IF p.qos \in {1, 2} THEN AddedElement(pubMap, E(i)) ELSE pubMap
              /\ SendBroker(M(i)) /\ UNCHANGED clientQ
  BY DEF DevicePublish
<1>5. TableSound(topics) /\ UNCHANGED <<subMap, saved, dev, left>>
  BY DEF DevicePublish, IInv, Tables
<1>6. /\ TableSound(topics') /\ ToSet(topics.list) \subseteq ToSet(topics'.list)
      /\ p.ref.type # "short" /\ i = 0 => p.qos = 3
      /\ p.ref.type = "short" \/ i # 0 => Name(i) \in TopicNames
      /\ p.ref.type = "normal" /\ p.qos # 3 => Name(i) \notin Filters
  <2>1. CASE p.ref.type = "short"
    <3>1. p.ref.name \in TopicNames
      BY <1>3, <2>1, SoundParts DEF RefSound
    <3> QED
      BY <1>4, <1>5, <2>1, <3>1
  <2>2. CASE p.ref.type # "short"
    <3>1. topics' = WithCopy(p.ref) /\ Name(i) = topics'.list[i].name
      BY <1>4, <2>2
    <3>2. TableSound(topics') /\ ToSet(topics.list) \subseteq ToSet(topics'.list)
      BY <1>3, <1>5, <2>2, <3>1, PublishTopic
    <3>3. /\ p.qos # 3 => i # 0
          /\ i # 0 => Name(i) \in TopicNames
          /\ p.qos # 3 /\ p.ref.type = "normal" => Name(i) \notin Filters
      BY <1>3, <1>5, <2>2, <3>1, PublishTopic
    <3> QED
      BY <2>2, <3>2, <3>3
  <2> QED
    BY <2>1, <2>2
<1>7. /\ clientQ' = clientQ
      /\ \/ brokerQ' = brokerQ /\ pubMap' = pubMap
         \/ /\ pubMap' = IF p.qos \in {1, 2} THEN AddedElement(pubMap, E(i)) ELSE pubMap
            /\ brokerQ' = Append(brokerQ, M(i)) /\ Name(i) \in TopicNames
  <2> HIDE DEF E, M, Name
  <2>1. CASE p.ref.type # "short" /\ i = 0
    <3>1. p.qos \notin {1, 2} /\ p.qos # 0
      BY <1>6, <2>1
    <3> QED
      BY <1>4, <2>1, <3>1
  <2>2. CASE p.ref.type = "short" \/ i # 0
    BY <1>4, <1>6, <2>2 DEF SendBroker
  <2> QED
    BY <2>1, <2>2
<1>8. p.qos \in {1, 2} => PubElementRight(E(i), dev.requests, Used)
  <2> DEFINE e == E(i)
             filter == p.ref.type = "normal" /\ Name(i) \in Filters
  <2>0. p.qos \in {1, 2} => ~filter
    BY <1>6
  <2> HIDE DEF filter
  <2>1. /\ e.msgId = p.msgId /\ e.topicId = ReadId(p.ref)
        /\ p.qos \in {1, 2} => ~e.wildcard
    BY <2>0 DEF filter
  <2> HIDE DEF e
  <2>2. p.qos \in {1, 2} => PubElementRight(e, dev.requests, Used)
    BY <1>2, <2>1 DEF PubElementRight
  <2> QED
    BY <2>2 DEF e
<1>9. Name(i) \in TopicNames => UpRight(M(i)) /\ M(i).type \notin SessionTypes
  <2> DEFINE m == M(i)
  <2>1. m.type = "PUBLISH" /\ m.topic = Name(i) /\ m.qos \in 0..2
    BY <1>3
  <2> HIDE DEF m
  <2>2. Name(i) \in TopicNames => UpRight(m) /\ m.type \notin SessionTypes
    BY <2>1 DEF UpRight, SessionTypes
  <2> QED
    BY <2>2 DEF m
<1> HIDE DEF p, Name, E, M
<1>10. MapSound(pubMap) /\ MapSound(subMap) /\ MapAssumption
  BY SoundParts DEF IInv, Tables
<1>11. /\ MapSound(pubMap')
       /\ \A x \in ToSet(pubMap'.list) : \/ x \in ToSet(pubMap.list)
                                         \/ PubElementRight(x, dev.requests, Used)
  BY <1>7, <1>8, <1>10, Adding
<1>12. UpSent(brokerQ, brokerQ')
  BY <1>7, <1>9 DEF UpSent
<1>13. DownSent(clientQ, clientQ', dev.requests, topics', Used)
  BY <1>7 DEF DownSent
<1>14. PacketsTaken(packetQ, packetQ')
  BY <1>1, Taking
<1>15. Queue(saved') /\ \A x \in ToSet(saved') : x.type = "PUBLISH"
  BY <1>5 DEF IInv, Shapes
<1> QED
  BY <1>5, <1>6, <1>10, <1>11, <1>12, <1>13, <1>14, <1>15, Handling

(* A packet is taken, something may be sent to the broker.                 *)
LEMMA Standing ==
    ASSUME Sound, IInv, packetQ # <<>>, packetQ' = Tail(packetQ), UpSent(brokerQ, brokerQ'),
           UNCHANGED <<topics, pubMap, subMap, saved, clientQ, dev, left>>
    PROVE  IInv'
<1>1. DownSent(clientQ, clientQ', dev.requests, topics', Used)
  BY DEF DownSent
<1>2. /\ TableSound(topics') /\ ToSet(topics.list) \subseteq ToSet(topics'.list)
      /\ MapSound(pubMap') /\ MapSound(subMap')
      /\ Queue(saved') /\ \A x \in ToSet(saved') : x.type = "PUBLISH"
  BY DEF IInv, Shapes, Tables
<1>3. PacketsTaken(packetQ, packetQ')
  BY Taking
<1> QED
  BY <1>1, <1>2, <1>3, Handling

(* handlePuback and handleAck.                                             *)
LEMMA DeviceAckStep ==
    ASSUME Sound, IInv, NEW type \in {"PUBACK", "PUBREC", "PUBREL", "PUBCOMP"}, DeviceAck(type)
    PROVE  IInv'
<1> DEFINE m == [type |-> type, msgId |-> Packet.msgId]
<1>1. /\ packetQ # <<>> /\ packetQ' = Tail(packetQ)
      /\ brokerQ' = Append(brokerQ, m) \/ brokerQ' = brokerQ
      /\ UNCHANGED <<client, clientQ, dev, left>>
  BY DEF DeviceAck, Takes, SendBroker
<1>2. UpRight(m) /\ m.type \notin SessionTypes
  BY DEF UpRight, SessionTypes
<1> HIDE DEF m
<1>3. UpSent(brokerQ, brokerQ')
  BY <1>1, <1>2 DEF UpSent
<1> QED
  BY <1>1, <1>3, Standing DEF client

(* handleRegister.                                                         *)
LEMMA DeviceRegisterStep ==
    ASSUME Sound, IInv, DeviceRegister
    PROVE  IInv'
<1> DEFINE i == RegisteredTopic(topics, Packet.name)
           t == Added(topics, Packet.name, 0).list[i]
           m == [type |-> "REGACK", msgId |-> Packet.msgId, id |-> t.id]
<1>1. /\ packetQ # <<>> /\ packetQ' = Tail(packetQ) /\ Head(packetQ).from = "device"
      /\ Packet.type = "REGISTER"
      /\ UNCHANGED <<pubMap, subMap, saved, brokerQ, dev, left>>
  BY DEF DeviceRegister, Takes, Packet
<1>2. CASE status \in {"active", "awake"}
  <2>1. topics' = Added(topics, Packet.name, 0) /\ clientQ' = Append(clientQ, m)
    BY <1>2 DEF DeviceRegister, SendClient
  <2>2. /\ AskedRight(Packet, topics) /\ Packet.msgId \in 0..Used
        /\ \A r \in dev.requests : r.type # "PUBREL" /\ r.msgId = Packet.msgId => Packet = r
    BY <1>1, AskedPacket DEF Asked
  <2>3. Packet.name \in Registrable
    BY <1>1, <2>2 DEF AskedRight
  <2>4. TableSound(topics)
    BY DEF IInv, Tables
  <2>5. TableSound(topics') /\ ToSet(topics.list) \subseteq ToSet(topics'.list)
    BY <2>1, <2>3, <2>4, Registering
  <2>6. HasId(topics', Packet.name, t.id)
    BY <2>1, <2>3, <2>4, Registering
  <2>7. m.type = "REGACK" /\ m.msgId = Packet.msgId /\ m.id = t.id
    OBVIOUS
  <2> HIDE DEF m, t, i
  <2>8. DownRight(m) /\ m.type \notin SessionTypes
    BY <2>7 DEF DownRight, SessionTypes
  <2>9. AnswerRight(m, dev.requests, topics', Used)
    BY <2>2, <2>6, <2>7 DEF AnswerRight
  <2>10. DownSent(clientQ, clientQ', dev.requests, topics', Used)
    BY <2>1, <2>8, <2>9 DEF DownSent
  <2>11. UpSent(brokerQ, brokerQ')
    BY <1>1 DEF UpSent
  <2>12. PacketsTaken(packetQ, packetQ')
    BY <1>1, Taking
  <2>13. /\ MapSound(pubMap') /\ MapSound(subMap')
         /\ Queue(saved') /\ \A x \in ToSet(saved') : x.type = "PUBLISH"
    BY <1>1 DEF IInv, Shapes, Tables
  <2> QED
    BY <1>1, <2>5, <2>10, <2>11, <2>12, <2>13, Handling
<1>3. CASE status \notin {"active", "awake"}
  <2>1. UNCHANGED <<topics, clientQ>>
    BY <1>3 DEF DeviceRegister
  <2>3. UpSent(brokerQ, brokerQ')
    BY <1>1 DEF UpSent
  <2> QED
    BY <1>1, <2>1, <2>3, Standing
<1> QED
  BY <1>2, <1>3

(* The topic of a SUBSCRIBE is found or added, with its id.                *)
LEMMA SubscribeTopicFound ==
    ASSUME Sound, TableSound(topics), NEW ref, RefSound(ref), ref.type # "short",
           ref.type = "normal" => ref.name \in Registrable
    PROVE  /\ TableSound(SubscribeTopics(ref))
           /\ ToSet(topics.list) \subseteq ToSet(SubscribeTopics(ref).list)
           /\ SubscribeTopic(ref) # 0
           /\ ref.type = "predef" => SubscribeTopics(ref).list[SubscribeTopic(ref)].id = ref.id
           /\ ref.type = "normal" =>
                 /\ SubscribeTopics(ref).list[SubscribeTopic(ref)].name = ref.name
                 /\ HasId(SubscribeTopics(ref), ref.name,
                          SubscribeTopics(ref).list[SubscribeTopic(ref)].id)
<1>1. CASE ref.type = "predef"
  <2>1. ref.id \in DOMAIN Predefined
    BY <1>1 DEF RefSound
  <2>2. SubscribeTopics(ref) = WithCopy(ref) /\ SubscribeTopic(ref) = Resolved(ref)
    BY <1>1 DEF SubscribeTopics, SubscribeTopic
  <2>3. TableSound(WithCopy(ref)) /\ ToSet(topics.list) \subseteq ToSet(WithCopy(ref).list)
    BY <1>1, <2>1, Copying
  <2>4. Resolved(ref) # 0 /\ WithCopy(ref).list[Resolved(ref)].id = ref.id
    BY <1>1, <2>1, Copying
  <2> QED
    BY <1>1, <2>2, <2>3, <2>4
<1>2. CASE ref.type = "normal"
  <2> DEFINE new == Added(topics, ref.name, 0)
             i == RegisteredTopic(topics, ref.name)
  <2>1. SubscribeTopics(ref) = new /\ SubscribeTopic(ref) = i
    BY <1>2 DEF SubscribeTopics, SubscribeTopic
  <2>2. TableSound(new) /\ ToSet(topics.list) \subseteq ToSet(new.list) /\ i # 0
    BY <1>2, Registering
  <2>3. /\ new.list[i] = [name |-> ref.name, type |-> "normal", id |-> new.list[i].id]
        /\ HasId(new, ref.name, new.list[i].id)
    BY <1>2, Registering
  <2> HIDE DEF new, i
  <2>4. new.list[i].name = ref.name
    BY <2>3
  <2> QED
    BY <1>2, <2>1, <2>2, <2>3, <2>4
<1> QED
  BY <1>1, <1>2 DEF RefSound

(* handleSubscribe.                                                        *)
LEMMA DeviceSubscribeStep ==
    ASSUME Sound, IInv, DeviceSubscribe
    PROVE  IInv'
<1> DEFINE p == Packet
           i == SubscribeTopic(p.ref)
           name == IF p.ref.type = "short" THEN p.ref.name ELSE topics'.list[i].name
           id == IF p.ref.type = "short" THEN p.ref.id ELSE topics'.list[i].id
           e == [msgId |-> p.msgId, topicId |-> id, type |-> p.ref.type,
                 wildcard |-> p.ref.type = "normal" /\ name \in Filters]
           m == [type |-> "SUBSCRIBE", topic |-> name, msgId |-> p.msgId]
<1>1. /\ packetQ # <<>> /\ packetQ' = Tail(packetQ) /\ Head(packetQ).from = "device"
      /\ p.type = "SUBSCRIBE"
  BY DEF DeviceSubscribe, Takes, Packet
<1>2. /\ AskedRight(p, topics) /\ p.msgId \in 0..Used
      /\ \A r \in dev.requests : r.type # "PUBREL" /\ r.msgId = p.msgId => p = r
  BY <1>1, AskedPacket DEF Asked
<1>3. RefSound(p.ref) /\ (p.ref.type = "normal" => p.ref.name \in Registrable)
  BY <1>1, <1>2 DEF AskedRight
<1>4. topics' = SubscribeTopics(p.ref)
  BY DEF DeviceSubscribe
<1>5. TableSound(topics)
  BY DEF IInv, Tables
<1>6. /\ TableSound(topics') /\ ToSet(topics.list) \subseteq ToSet(topics'.list)
      /\ p.ref.type = "short" \/ i # 0
      /\ p.ref.type = "normal" => name = p.ref.name /\ HasId(topics', p.ref.name, id)
      /\ p.ref.type # "normal" => id = p.ref.id
  <2>1. CASE p.ref.type = "short"
    <3>1. topics' = topics
      BY <1>4, <2>1 DEF SubscribeTopics
    <3> QED
      BY <1>5, <2>1, <3>1
  <2>2. CASE p.ref.type # "short"
    <3>1. name = topics'.list[i].name /\ id = topics'.list[i].id
      BY <2>2
    <3>2. TableSound(topics') /\ ToSet(topics.list) \subseteq ToSet(topics'.list)
      BY <1>3, <1>4, <1>5, <2>2, SubscribeTopicFound
    <3>3. i # 0
      BY <1>3, <1>5, <2>2, SubscribeTopicFound
    <3>4. p.ref.type = "normal" => name = p.ref.name /\ HasId(topics', p.ref.name, id)
      BY <1>3, <1>4, <1>5, <2>2, <3>1, SubscribeTopicFound
    <3>5. p.ref.type # "normal" => id = p.ref.id
      <4>1. p.ref.type \in {"short", "predef", "normal"}
        BY <1>3 DEF RefSound
      <4> QED
        BY <1>3, <1>4, <1>5, <2>2, <3>1, <4>1, SubscribeTopicFound
    <3> QED
      BY <3>2, <3>3, <3>4, <3>5
  <2> QED
    BY <2>1, <2>2
<1>7. /\ subMap' = AddedElement(subMap, e)
      /\ brokerQ' = Append(brokerQ, m) /\ clientQ' = clientQ
      /\ UNCHANGED <<pubMap, saved, dev, left>>
  <2>1. ~(p.ref.type # "short" /\ i = 0)
    BY <1>6
  <2> QED
    BY <2>1 DEF DeviceSubscribe, SendBroker
<1>8. SubElementRight(e, dev.requests, topics', Used)
  <2>1. /\ e.msgId = p.msgId /\ e.topicId = id
        /\ e.wildcard <=> p.ref.type = "normal" /\ name \in Filters
    OBVIOUS
  <2>2. SubscribedId(p, topics', e.topicId, e.wildcard)
    <3> HIDE DEF e, name, id
    <3> QED
      BY <1>6, <2>1 DEF SubscribedId
  <2> HIDE DEF e
  <2>3. \A r \in dev.requests : r.type = "SUBSCRIBE" /\ r.msgId = e.msgId => p = r
    BY <1>2, <2>1
  <2> QED
    BY <1>2, <2>1, <2>2, <2>3 DEF SubElementRight
<1>9. UpRight(m) /\ m.type \notin SessionTypes
  BY DEF UpRight, SessionTypes
<1> HIDE DEF p, i, name, id, e, m
<1>10. MapSound(pubMap) /\ MapSound(subMap) /\ MapAssumption
  BY SoundParts DEF IInv, Tables
<1>11. MapSound(subMap') /\ ToSet(subMap'.list) \subseteq ToSet(subMap.list) \cup {e}
  BY <1>7, <1>10, Adding
<1>12. UpSent(brokerQ, brokerQ')
  BY <1>7, <1>9 DEF UpSent
<1>13. DownSent(clientQ, clientQ', dev.requests, topics', Used)
  BY <1>7 DEF DownSent
<1>14. PacketsTaken(packetQ, packetQ')
  BY <1>1, Taking
<1>15. Queue(saved') /\ \A x \in ToSet(saved') : x.type = "PUBLISH"
  BY <1>7 DEF IInv, Shapes
<1> QED
  BY <1>6, <1>7, <1>8, <1>10, <1>11, <1>12, <1>13, <1>14, <1>15, Handling

(* A packet is taken, something may be sent.                               *)
LEMMA Passing ==
    ASSUME Sound, IInv, packetQ # <<>>, packetQ' = Tail(packetQ), UpSent(brokerQ, brokerQ'),
           DownSent(clientQ, clientQ', dev.requests, topics, Used),
           Queue(saved'), \A p \in ToSet(saved') : p.type = "PUBLISH",
           UNCHANGED <<topics, pubMap, subMap, dev, left>>
    PROVE  IInv'
<1>1. /\ TableSound(topics') /\ ToSet(topics.list) \subseteq ToSet(topics'.list)
      /\ MapSound(pubMap') /\ MapSound(subMap')
      /\ DownSent(clientQ, clientQ', dev.requests, topics', Used)
  BY DEF IInv, Tables
<1>2. PacketsTaken(packetQ, packetQ')
  BY Taking
<1> QED
  BY <1>1, <1>2, Handling

(* What is no PUBACK, SUBACK or REGACK answers with no id.                 *)
LEMMA SendingPlain ==
    ASSUME NEW m, clientQ' = Append(clientQ, m), NEW requests, NEW table, NEW used,
           m.type \in {"PUBLISH", "PUBREC", "PUBREL", "PUBCOMP", "UNSUBACK", "PINGRESP"}
    PROVE  DownSent(clientQ, clientQ', requests, table, used)
<1>1. DownRight(m) /\ m.type \notin SessionTypes
  BY DEF DownRight, SessionTypes
<1>2. AnswerRight(m, requests, table, used)
  BY DEF AnswerRight
<1> QED
  BY <1>1, <1>2 DEF DownSent

(* handleUnsubscribe.                                                      *)
LEMMA DeviceUnsubscribeStep ==
    ASSUME Sound, IInv, DeviceUnsubscribe
    PROVE  IInv'
<1>1. /\ packetQ # <<>> /\ packetQ' = Tail(packetQ)
      /\ UNCHANGED <<topics, pubMap, subMap, saved, dev, left>>
      /\ Queue(saved') /\ \A x \in ToSet(saved') : x.type = "PUBLISH"
  BY DEF DeviceUnsubscribe, Takes, client, IInv, Shapes
<1>2. CASE \E m : clientQ' = Append(clientQ, m) /\ m.type = "UNSUBACK" /\ brokerQ' = brokerQ
  <2>1. DownSent(clientQ, clientQ', dev.requests, topics, Used)
    BY <1>2, SendingPlain
  <2>2. UpSent(brokerQ, brokerQ')
    BY <1>2 DEF UpSent
  <2> QED
    BY <1>1, <2>1, <2>2, Passing
<1>3. CASE \E m : brokerQ' = Append(brokerQ, m) /\ m.type = "UNSUBSCRIBE" /\ clientQ' = clientQ
  <2>1. UpSent(brokerQ, brokerQ')
    BY <1>3 DEF UpSent, UpRight, SessionTypes
  <2> QED
    BY <1>1, <1>3, <2>1, Standing
<1>4. \/ \E m : clientQ' = Append(clientQ, m) /\ m.type = "UNSUBACK" /\ brokerQ' = brokerQ
      \/ \E m : brokerQ' = Append(brokerQ, m) /\ m.type = "UNSUBSCRIBE" /\ clientQ' = clientQ
  <2> DEFINE p == Packet
             i == CASE p.ref.type = "predef" -> TopicById(topics, "predef", p.ref.id)
                    [] p.ref.type = "normal" -> TopicByName(topics, p.ref.name)
                    [] p.ref.type = "short" -> 0
             down == [type |-> "UNSUBACK", msgId |-> p.msgId]
             up == [type |-> "UNSUBSCRIBE", msgId |-> p.msgId,
                    topic |-> IF p.ref.type = "short" THEN p.ref.name ELSE topics.list[i].name]
  <2>1. down.type = "UNSUBACK" /\ up.type = "UNSUBSCRIBE"
    OBVIOUS
  <2>2. \/ clientQ' = Append(clientQ, down) /\ brokerQ' = brokerQ
        \/ brokerQ' = Append(brokerQ, up) /\ clientQ' = clientQ
    BY DEF DeviceUnsubscribe, SendClient, SendBroker
  <2> HIDE DEF down, up
  <2> QED
    BY <2>1, <2>2
<1> QED
  BY <1>2, <1>3, <1>4
-----------------------------------------------------------------------------
(* The handlers of the broker's packets                                    *)

(* MQTTGWPublishHandler::handlePublish.                                    *)
LEMMA BrokerPublishStep ==
    ASSUME Sound, IInv, BrokerPublish
    PROVE  IInv'
<1> DEFINE p == Packet
           i == TopicByName(topics, p.topic)
           m == [type |-> "PUBLISH", qos |-> p.qos, msgId |-> p.msgId, n |-> p.n,
                 topic |-> p.topic,
                 ref |-> IF p.topic \in Short
                         THEN TopicRef("short", p.topic, ShortIds[p.topic])
                         ELSE TopicRef(topics.list[i].type, "", topics.list[i].id)]
           a == [type |-> IF p.qos = 1 THEN "PUBACK" ELSE "PUBREC", msgId |-> p.msgId]
<1>1. /\ packetQ # <<>> /\ packetQ' = Tail(packetQ) /\ p.type = "PUBLISH"
      /\ UNCHANGED <<topics, pubMap, subMap, dev, left>>
  BY DEF BrokerPublish, Takes, Packet
<1>2. /\ brokerQ' = brokerQ \/ brokerQ' = Append(brokerQ, a)
      /\ clientQ' = clientQ \/ clientQ' = Append(clientQ, m)
      /\ saved' = saved \/ saved' = Append(saved, p)
  BY DEF BrokerPublish, Reply, SendBroker, SendClient
<1>3. m.type = "PUBLISH" /\ a.type \in {"PUBACK", "PUBREC"}
  OBVIOUS
<1> HIDE DEF p, i, m, a
<1>4. UpSent(brokerQ, brokerQ')
  <2>1. UpRight(a) /\ a.type \notin SessionTypes
    BY <1>3 DEF UpRight, SessionTypes
  <2> QED
    BY <1>2, <2>1 DEF UpSent
<1>5. DownSent(clientQ, clientQ', dev.requests, topics, Used)
  <2>1. CASE clientQ' = clientQ
    BY <2>1 DEF DownSent
  <2>2. CASE clientQ' = Append(clientQ, m)
    BY <1>3, <2>2, SendingPlain
  <2> QED
    BY <1>2, <2>1, <2>2
<1>6. Queue(saved') /\ \A x \in ToSet(saved') : x.type = "PUBLISH"
  <2>1. Queue(saved) /\ \A x \in ToSet(saved) : x.type = "PUBLISH"
    BY DEF IInv, Shapes
  <2>2. CASE saved' = saved
    BY <2>1, <2>2
  <2>3. CASE saved' = Append(saved, p)
    <3>1. Queue(saved') /\ ToSet(saved') = ToSet(saved) \cup {p}
      BY <2>1, <2>3, QueueAppend
    <3> QED
      BY <1>1, <2>1, <3>1
  <2> QED
    BY <1>2, <2>2, <2>3
<1> QED
  BY <1>1, <1>4, <1>5, <1>6, Passing

(* MQTTGWPublishHandler::handlePuback.                                     *)
LEMMA BrokerPubackStep ==
    ASSUME Sound, IInv, BrokerPuback
    PROVE  IInv'
<1> DEFINE i == ElementOf(pubMap, Packet.msgId)
           m == PubackTo(AnswerId(pubMap, i), Packet.msgId, "accepted")
<1>1. /\ packetQ # <<>> /\ packetQ' = Tail(packetQ)
      /\ UNCHANGED <<topics, subMap, saved, brokerQ, dev, left>>
  BY DEF BrokerPuback, Takes
<1>2. UpSent(brokerQ, brokerQ')
  BY <1>1 DEF UpSent
<1>3. CASE i = 0
  <2>1. UNCHANGED <<pubMap, clientQ>>
    BY <1>3 DEF BrokerPuback
  <2> QED
    BY <1>1, <1>2, <2>1, Standing
<1>4. CASE i # 0
  <2>1. clientQ' = Append(clientQ, m) /\ pubMap' = Erased(pubMap, Packet.msgId)
    BY <1>4 DEF BrokerPuback, SendClient
  <2>2. MapSound(pubMap) /\ MapAssumption
    BY SoundParts DEF IInv, Tables
  <2>3. i \in 1..Len(pubMap.list) /\ pubMap.list[i].msgId = Packet.msgId
    BY <1>4, <2>2, ElementFound
  <2>4. pubMap.list[i] \in ToSet(pubMap.list)
    BY <2>2, <2>3, QueueElements DEF MapSound
  <2>5. PubElementRight(pubMap.list[i], dev.requests, Used)
    BY <2>4 DEF IInv, Waiting, PubMapRight
  <2>6. /\ m.type = "PUBACK" /\ m.msgId = Packet.msgId /\ m.rc = "accepted"
        /\ m.id = IF pubMap.list[i].wildcard THEN 0 ELSE pubMap.list[i].topicId
    BY DEF PubackTo, AnswerId
  <2>7. MapSound(pubMap') /\ ToSet(pubMap'.list) \subseteq ToSet(pubMap.list)
    BY <1>4, <2>1, <2>2, Erasing
  <2> HIDE DEF m, i
  <2>8. AnswerRight(m, dev.requests, topics, Used)
    BY <2>3, <2>5, <2>6 DEF AnswerRight, PubElementRight
  <2>9. DownRight(m) /\ m.type \notin SessionTypes
    BY <2>6 DEF DownRight, SessionTypes
  <2>10. DownSent(clientQ, clientQ', dev.requests, topics', Used)
    BY <1>1, <2>1, <2>8, <2>9 DEF DownSent
  <2>11. PacketsTaken(packetQ, packetQ')
    BY <1>1, Taking
  <2>12. /\ TableSound(topics') /\ ToSet(topics.list) \subseteq ToSet(topics'.list)
         /\ MapSound(subMap')
         /\ Queue(saved') /\ \A x \in ToSet(saved') : x.type = "PUBLISH"
    BY <1>1 DEF IInv, Shapes, Tables
  <2> QED
    BY <1>1, <1>2, <2>7, <2>10, <2>11, <2>12, Handling
<1> QED
  BY <1>3, <1>4

(* handleSuback.                                                           *)
LEMMA BrokerSubackStep ==
    ASSUME Sound, IInv, BrokerSuback
    PROVE  IInv'
<1> DEFINE i == ElementOf(subMap, Packet.msgId)
           m == [type |-> "SUBACK", msgId |-> Packet.msgId,
                 id |-> AnswerId(subMap, i), rc |-> "accepted"]
<1>1. /\ packetQ # <<>> /\ packetQ' = Tail(packetQ)
      /\ UNCHANGED <<topics, pubMap, saved, brokerQ, dev, left>>
  BY DEF BrokerSuback, Takes
<1>2. UpSent(brokerQ, brokerQ')
  BY <1>1 DEF UpSent
<1>3. CASE i = 0
  <2>1. UNCHANGED <<subMap, clientQ>>
    BY <1>3 DEF BrokerSuback
  <2> QED
    BY <1>1, <1>2, <2>1, Standing
<1>4. CASE i # 0
  <2>1. clientQ' = Append(clientQ, m) /\ subMap' = Erased(subMap, Packet.msgId)
    BY <1>4 DEF BrokerSuback, SendClient
  <2>2. MapSound(subMap) /\ MapAssumption
    BY SoundParts DEF IInv, Tables
  <2>3. i \in 1..Len(subMap.list) /\ subMap.list[i].msgId = Packet.msgId
    BY <1>4, <2>2, ElementFound
  <2> DEFINE e == subMap.list[i]
  <2>4. e \in ToSet(subMap.list)
    BY <2>2, <2>3, QueueElements DEF MapSound
  <2>5. SubElementRight(e, dev.requests, topics, Used) /\ e.msgId = Packet.msgId
    BY <2>3, <2>4 DEF IInv, Waiting, SubMapRight
  <2>6. /\ m.type = "SUBACK" /\ m.msgId = Packet.msgId /\ m.rc = "accepted"
        /\ m.id = IF e.wildcard THEN 0 ELSE e.topicId
    BY DEF AnswerId
  <2>7. MapSound(subMap') /\ ToSet(subMap'.list) \subseteq ToSet(subMap.list)
    BY <1>4, <2>1, <2>2, Erasing
  <2> HIDE DEF m, i, e
  <2>8. ASSUME NEW r \in dev.requests, r.type = "SUBSCRIBE", r.msgId = m.msgId
        PROVE  SubackRight(m, r, topics)
    <3>1. SubscribedId(r, topics, e.topicId, e.wildcard)
      BY <2>5, <2>6, <2>8 DEF SubElementRight
    <3>2. CASE e.wildcard
      BY <2>6, <3>1, <3>2 DEF SubscribedId, SubackRight
    <3>3. CASE ~e.wildcard
      BY <2>6, <3>1, <3>3 DEF SubscribedId, SubackRight
    <3> QED
      BY <3>2, <3>3
  <2>9. AnswerRight(m, dev.requests, topics, Used)
    <3>1. m.msgId \in 0..Used
      BY <2>5, <2>6 DEF SubElementRight
    <3> QED
      BY <2>6, <2>8, <3>1 DEF AnswerRight
  <2>10. DownRight(m) /\ m.type \notin SessionTypes
    BY <2>6 DEF DownRight, SessionTypes
  <2>11. DownSent(clientQ, clientQ', dev.requests, topics', Used)
    BY <1>1, <2>1, <2>9, <2>10 DEF DownSent
  <2>12. PacketsTaken(packetQ, packetQ')
    BY <1>1, Taking
  <2>13. /\ TableSound(topics') /\ ToSet(topics.list) \subseteq ToSet(topics'.list)
         /\ MapSound(pubMap')
         /\ Queue(saved') /\ \A x \in ToSet(saved') : x.type = "PUBLISH"
    BY <1>1 DEF IInv, Shapes, Tables
  <2> QED
    BY <1>1, <1>2, <2>7, <2>11, <2>12, <2>13, Handling
<1> QED
  BY <1>3, <1>4

(* MQTTGWPublishHandler::handleAck.                                        *)
LEMMA BrokerAckStep ==
    ASSUME Sound, IInv, NEW type \in {"PUBREC", "PUBREL", "PUBCOMP"}, BrokerAck(type)
    PROVE  IInv'
<1> DEFINE m == [type |-> type, msgId |-> Packet.msgId]
           a == [type |-> "PUBCOMP", msgId |-> Packet.msgId]
<1>1. /\ packetQ # <<>> /\ packetQ' = Tail(packetQ)
      /\ UNCHANGED <<topics, pubMap, subMap, saved, dev, left>>
      /\ Queue(saved') /\ \A x \in ToSet(saved') : x.type = "PUBLISH"
  BY DEF BrokerAck, Takes, client, IInv, Shapes
<1>2. /\ clientQ' = clientQ \/ clientQ' = Append(clientQ, m)
      /\ brokerQ' = brokerQ \/ brokerQ' = Append(brokerQ, a)
  BY DEF BrokerAck, SendBroker, SendClient
<1>3. m.type = type /\ a.type = "PUBCOMP"
  OBVIOUS
<1> HIDE DEF m, a
<1>4. UpSent(brokerQ, brokerQ')
  <2>1. UpRight(a) /\ a.type \notin SessionTypes
    BY <1>3 DEF UpRight, SessionTypes
  <2> QED
    BY <1>2, <2>1 DEF UpSent
<1>5. DownSent(clientQ, clientQ', dev.requests, topics, Used)
  <2>1. CASE clientQ' = clientQ
    BY <2>1 DEF DownSent
  <2>2. CASE clientQ' = Append(clientQ, m)
    BY <1>3, <2>2, SendingPlain
  <2> QED
    BY <1>2, <2>1, <2>2
<1> QED
  BY <1>1, <1>4, <1>5, Passing

(* handleUnsuback.                                                         *)
LEMMA BrokerUnsubackStep ==
    ASSUME Sound, IInv, BrokerUnsuback
    PROVE  IInv'
<1> DEFINE m == [type |-> "UNSUBACK", msgId |-> Packet.msgId]
<1>1. /\ packetQ # <<>> /\ packetQ' = Tail(packetQ) /\ clientQ' = Append(clientQ, m)
      /\ UNCHANGED <<topics, pubMap, subMap, saved, brokerQ, dev, left>>
      /\ Queue(saved') /\ \A x \in ToSet(saved') : x.type = "PUBLISH"
  BY DEF BrokerUnsuback, Takes, client, IInv, Shapes, SendClient
<1>2. m.type = "UNSUBACK"
  OBVIOUS
<1> HIDE DEF m
<1>3. UpSent(brokerQ, brokerQ')
  BY <1>1 DEF UpSent
<1>4. DownSent(clientQ, clientQ', dev.requests, topics, Used)
  BY <1>1, <1>2, SendingPlain
<1> QED
  BY <1>1, <1>3, <1>4, Passing

-----------------------------------------------------------------------------
(* The handlers of a session                                               *)

(* sendStoredPublish: the saved packets come behind those in the queue.    *)
LEMMA StoredPackets ==
    ASSUME IInv, packetQ # <<>>
    PROVE  /\ PacketsTaken(packetQ, StoredSent)
           /\ \A e \in ToSet(StoredSent) :
                 e \in ToSet(Tail(packetQ)) \/ e.packet.type \notin SessionTypes
<1> DEFINE t == Tail(packetQ)
           s == [i \in 1..Len(saved) |-> FromBroker(saved[i])]
           S == {FromBroker(p) : p \in ToSet(saved)}
<1>1. /\ Queue(packetQ) /\ PacketsOnce(packetQ) /\ NothingBehind(packetQ)
      /\ Queue(saved) /\ \A p \in ToSet(saved) : p.type = "PUBLISH"
  BY DEF IInv, Shapes, Sessions, SessionsApart
<1>2. Queue(t) /\ ToSet(t) \subseteq ToSet(packetQ) /\ PacketsOnce(t) /\ NothingBehind(t)
  BY <1>1, QueueTail, PacketsTail
<1>3. Len(saved) \in Nat /\ \A i \in 1..Len(saved) : saved[i] \in ToSet(saved)
  BY <1>1, QueueElements
<1>4. s \in [1..Len(saved) -> S]
  BY <1>3
<1>5. s \in Seq(S)
  BY <1>3, <1>4
<1>6. \A x \in S : x.from = "broker" /\ x.packet.type \notin SessionTypes
  BY <1>1 DEF FromBroker, SessionTypes
<1>7. StoredSent = t \o s
  BY DEF StoredSent
<1> HIDE DEF t, s, S
<1>8. Queue(s) /\ ToSet(s) \subseteq S
  BY <1>5, QueueOfSeq
<1>9. Queue(t \o s) /\ ToSet(t \o s) \subseteq ToSet(t) \cup ToSet(s)
  BY <1>2, <1>8, QueueConcat
<1>10. \A x \in ToSet(s) : x.from = "broker" /\ x.packet.type \notin SessionTypes
  BY <1>6, <1>8
<1>11. PacketsOnce(t \o s) /\ NothingBehind(t \o s)
  BY <1>2, <1>8, <1>10, PacketsConcat
<1>12. \A e \in ToSet(t \o s) : e \in ToSet(t) \/ (e.from = "broker" /\ e.packet.type \notin SessionTypes)
  BY <1>9, <1>10
<1>13. PacketsTaken(packetQ, t \o s)
  BY <1>2, <1>9, <1>11, <1>12 DEF PacketsTaken
<1> QED
  BY <1>7, <1>12, <1>13 DEF t

(* handlePingreq.                                                          *)
LEMMA PingreqStep ==
    ASSUME Sound, IInv, Pingreq
    PROVE  IInv'
<1> DEFINE m == [type |-> "PINGREQ"]
<1>1. /\ packetQ # <<>>
      /\ UNCHANGED <<topics, pubMap, subMap, clientQ, dev, left>>
  BY DEF Pingreq
<1>2. \/ packetQ' = StoredSent /\ saved' = <<>> /\ brokerQ' = brokerQ
      \/ packetQ' = Tail(packetQ) /\ saved' = saved /\ brokerQ' = Append(brokerQ, m)
  BY DEF Pingreq, SendBroker
<1>3. UpSent(brokerQ, brokerQ')
  <2>1. UpRight(m) /\ m.type \notin SessionTypes
    BY DEF UpRight, SessionTypes
  <2> HIDE DEF m
  <2> QED
    BY <1>2, <2>1 DEF UpSent
<1>4. PacketsTaken(packetQ, packetQ')
  BY <1>1, <1>2, StoredPackets, Taking
<1>5. Queue(saved') /\ \A p \in ToSet(saved') : p.type = "PUBLISH"
  BY <1>2, QueueEmpty DEF IInv, Shapes
<1>6. /\ TableSound(topics') /\ ToSet(topics.list) \subseteq ToSet(topics'.list)
      /\ MapSound(pubMap') /\ MapSound(subMap')
      /\ DownSent(clientQ, clientQ', dev.requests, topics', Used)
  BY <1>1 DEF IInv, Tables, DownSent
<1> QED
  BY <1>1, <1>3, <1>4, <1>5, <1>6, Handling

(* handlePingresp.                                                         *)
LEMMA PingrespStep ==
    ASSUME Sound, IInv, Pingresp
    PROVE  IInv'
<1> DEFINE m == [type |-> "PINGRESP"]
<1>1. /\ packetQ # <<>> /\ packetQ' = Tail(packetQ) /\ clientQ' = Append(clientQ, m)
      /\ UNCHANGED <<topics, pubMap, subMap, saved, brokerQ, dev, left>>
      /\ Queue(saved') /\ \A x \in ToSet(saved') : x.type = "PUBLISH"
  BY DEF Pingresp, Takes, IInv, Shapes, SendClient
<1>2. m.type = "PINGRESP"
  OBVIOUS
<1> HIDE DEF m
<1>3. UpSent(brokerQ, brokerQ')
  BY <1>1 DEF UpSent
<1>4. DownSent(clientQ, clientQ', dev.requests, topics, Used)
  BY <1>1, <1>2, SendingPlain
<1> QED
  BY <1>1, <1>3, <1>4, Passing

(* A step that may move a session message: the topics and the maps stay.   *)
LEMMA Moving ==
    ASSUME Sound, IInv, Sessions',
           Queue(packetQ'),
           \A e \in ToSet(packetQ') : \/ e \in ToSet(packetQ)
                                      \/ e.packet.type \notin Asked \/ e.from = "broker",
           Queue(brokerQ'), \A p \in ToSet(brokerQ') : UpRight(p),
           Queue(clientQ'), \A p \in ToSet(clientQ') : DownRight(p),
           \A p \in ToSet(clientQ') :
               p \in ToSet(clientQ) \/ p.type \notin {"PUBACK", "SUBACK", "REGACK"},
           Queue(saved'), \A p \in ToSet(saved') : p.type = "PUBLISH",
           dev' = [state |-> dev'.state, ids |-> dev'.ids, requests |-> dev'.requests,
                   got |-> dev'.got, receiving |-> dev'.receiving],
           left' = [requests |-> left'.requests, faults |-> left'.faults, rests |-> left'.rests],
           left'.requests = left.requests,
           \A r \in dev'.requests : r \in dev.requests, Held(dev'.ids, topics),
           UNCHANGED <<topics, pubMap, subMap>>
    PROVE  IInv'
<1>1. Used' = Used /\ Used \in Nat
  BY UsedNumber DEF Used
<1>2. Later(dev.requests, topics, Used, dev'.requests, topics', Used')
  BY <1>1 DEF Later
<1>3. RequestsRight(dev'.requests, topics', Used')
  BY <1>1 DEF IInv, Waiting, RequestsRight
<1>4. \A p \in ToSet(clientQ') : p \in ToSet(clientQ) \/ AnswerRight(p, dev'.requests, topics', Used')
  BY DEF AnswerRight
<1>5. \A e \in ToSet(packetQ') : e \in ToSet(packetQ) \/ PacketRight(e, dev'.requests, topics', Used')
  BY DEF PacketRight
<1>6. Waiting'
  BY <1>2, <1>3, <1>4, <1>5, WaitingStep DEF IInv
<1>7. Shapes'
  BY DEF IInv, Shapes
<1>8. Tables'
  BY DEF IInv, Tables
<1> QED
  BY <1>6, <1>7, <1>8 DEF IInv

(* The session message of the packet queue goes on to the device.          *)
LEMMA ToDevice ==
    ASSUME NEW packets, NEW up, NEW down, NEW state, SessionsApart(packets, up, down, state),
           Queue(packets), Queue(down), packets # <<>>, Head(packets).packet.type \in SessionTypes,
           NEW m, Fits(m.type, state), NEW packets2,
           PacketsOnce(packets2), NothingBehind(packets2),
           \A e \in ToSet(packets2) :
               e \in ToSet(Tail(packets)) \/ e.packet.type \notin SessionTypes
    PROVE  SessionsApart(packets2, up, Append(down, m), state)
<1>1. \A e \in ToSet(packets2) : e.packet.type \notin SessionTypes
  BY PacketsTail DEF SessionsApart
<1>2. \A type : type \notin SessionTypes => Fits(type, state)
  BY DEF SessionTypes, Fits
<1>3. Head(packets) \in ToSet(packets)
  BY QueueTail
<1>4. /\ \A p \in ToSet(up) : p.type \notin SessionTypes
      /\ \A p \in ToSet(down) : p.type \notin SessionTypes
  BY <1>3 DEF SessionsApart
<1>5. MessagesOnce(Append(down, m)) /\ ToSet(Append(down, m)) = ToSet(down) \cup {m}
  BY <1>4, MessagesAppend, QueueAppend DEF SessionsApart
<1> QED
  BY <1>1, <1>2, <1>4, <1>5 DEF SessionsApart

(* The session message of the packet queue goes on to the broker.          *)
LEMMA ToBroker ==
    ASSUME NEW packets, NEW up, NEW down, NEW state, SessionsApart(packets, up, down, state),
           Queue(packets), Queue(up), packets # <<>>, Head(packets).packet.type \in SessionTypes,
           NEW m, Fits(m.type, state)
    PROVE  SessionsApart(Tail(packets), Append(up, m), down, state)
<1>1. \A e \in ToSet(Tail(packets)) : e.packet.type \notin SessionTypes
  BY PacketsTail DEF SessionsApart
<1>2. \A type : type \notin SessionTypes => Fits(type, state)
  BY DEF SessionTypes, Fits
<1>3. Head(packets) \in ToSet(packets)
  BY QueueTail
<1>4. /\ \A p \in ToSet(up) : p.type \notin SessionTypes
      /\ \A p \in ToSet(down) : p.type \notin SessionTypes
  BY <1>3 DEF SessionsApart
<1>5. MessagesOnce(Append(up, m)) /\ ToSet(Append(up, m)) = ToSet(up) \cup {m}
  BY <1>4, MessagesAppend, QueueAppend DEF SessionsApart
<1>6. PacketsOnce(Tail(packets)) /\ NothingBehind(Tail(packets))
  BY PacketsTail DEF SessionsApart
<1> QED
  BY <1>1, <1>2, <1>4, <1>5, <1>6 DEF SessionsApart

(* A session message is handled and answered to the device.                *)
LEMMA Answering ==
    ASSUME Sound, IInv, packetQ # <<>>, Packet.type \in SessionTypes,
           NEW m, m.type \in {"CONNACK", "DISCONNECT"}, Fits(m.type, dev.state),
           clientQ' = Append(clientQ, m), PacketsTaken(packetQ, packetQ'),
           \A e \in ToSet(packetQ') :
               e \in ToSet(Tail(packetQ)) \/ e.packet.type \notin SessionTypes,
           Queue(saved'), \A p \in ToSet(saved') : p.type = "PUBLISH",
           UNCHANGED <<topics, pubMap, subMap, brokerQ, dev, left>>
    PROVE  IInv'
<1>1. Queue(packetQ) /\ Queue(clientQ) /\ Queue(brokerQ)
  BY DEF IInv, Shapes
<1>2. SessionsApart(packetQ', brokerQ, clientQ', dev.state)
  BY <1>1, ToDevice DEF IInv, Sessions, PacketsTaken, Packet
<1>3. Sessions'
  <2>1. \A e \in ToSet(packetQ') : Clean(e.packet) => e \in ToSet(packetQ)
    BY DEF PacketsTaken, Clean, SessionTypes
  <2> QED
    BY <1>2, <2>1 DEF IInv, Sessions
<1>4. Queue(clientQ') /\ ToSet(clientQ') = ToSet(clientQ) \cup {m}
  BY <1>1, QueueAppend
<1>5. DownRight(m) /\ m.type \notin {"PUBACK", "SUBACK", "REGACK"}
  BY DEF DownRight
<1>6. Queue(packetQ') /\ \A e \in ToSet(packetQ') : e \in ToSet(packetQ) \/ e.from = "broker"
  BY DEF PacketsTaken
<1>7. \A p \in ToSet(clientQ) : DownRight(p)
  BY DEF IInv, Shapes
<1>8. /\ dev' = [state |-> dev'.state, ids |-> dev'.ids, requests |-> dev'.requests,
                 got |-> dev'.got, receiving |-> dev'.receiving]
      /\ left' = [requests |-> left'.requests, faults |-> left'.faults, rests |-> left'.rests]
      /\ left'.requests = left.requests /\ dev'.requests = dev.requests
  BY DEF IInv, Shapes
<1>9. Held(dev'.ids, topics) /\ Queue(brokerQ') /\ \A p \in ToSet(brokerQ') : UpRight(p)
  BY DEF IInv, Waiting, Shapes
<1> QED
  BY <1>3, <1>4, <1>5, <1>6, <1>7, <1>8, <1>9, Moving

(* A session message in the packet queue tells what the device is doing.   *)
LEMMA HeadFits ==
    ASSUME IInv, packetQ # <<>>
    PROVE  Fits(Packet.type, dev.state)
<1>1. Head(packetQ) \in ToSet(packetQ)
  BY QueueTail DEF IInv, Shapes
<1> QED
  BY <1>1 DEF IInv, Sessions, SessionsApart, Packet


(* handleConnack.                                                          *)
LEMMA ConnackStep ==
    ASSUME Sound, IInv, Connack
    PROVE  IInv'
<1>1. /\ packetQ # <<>> /\ packetQ' = Tail(packetQ) /\ Packet.type = "CONNACK"
      /\ UNCHANGED <<topics, pubMap, subMap, saved, brokerQ, dev, left>>
      /\ Queue(saved') /\ \A x \in ToSet(saved') : x.type = "PUBLISH"
  BY DEF Connack, Takes, IInv, Shapes, Packet
<1>2. PICK m : m = [type |-> "CONNACK"]
  OBVIOUS
<1>3. clientQ' = Append(clientQ, m) /\ m.type = "CONNACK"
  BY <1>2 DEF Connack, SendClient
<1>4. Fits(m.type, dev.state) /\ Packet.type \in SessionTypes
  BY <1>1, <1>3, HeadFits DEF SessionTypes
<1>5. PacketsTaken(packetQ, packetQ')
  BY <1>1, Taking
<1>6. \A e \in ToSet(packetQ') : e \in ToSet(Tail(packetQ)) \/ e.packet.type \notin SessionTypes
  BY <1>1
<1> QED
  BY <1>1, <1>3, <1>4, <1>5, <1>6, Answering

(* handleDisconnect with a duration.                                       *)
LEMMA SleepStep ==
    ASSUME Sound, IInv, Sleep
    PROVE  IInv'
<1>1. /\ packetQ # <<>> /\ packetQ' = Tail(packetQ) /\ Packet.type = "DISCONNECT"
      /\ UNCHANGED <<topics, pubMap, subMap, saved, brokerQ, dev, left>>
      /\ Queue(saved') /\ \A x \in ToSet(saved') : x.type = "PUBLISH"
  BY DEF Sleep, Takes, IInv, Shapes, Packet
<1>2. PICK m : m = [type |-> "DISCONNECT"]
  OBVIOUS
<1>3. clientQ' = Append(clientQ, m) /\ m.type = "DISCONNECT"
  BY <1>2 DEF Sleep, SendClient
<1>4. Fits(m.type, dev.state) /\ Packet.type \in SessionTypes
  BY <1>1, <1>3, HeadFits DEF SessionTypes
<1>5. PacketsTaken(packetQ, packetQ')
  BY <1>1, Taking
<1>6. \A e \in ToSet(packetQ') : e \in ToSet(Tail(packetQ)) \/ e.packet.type \notin SessionTypes
  BY <1>1
<1> QED
  BY <1>1, <1>3, <1>4, <1>5, <1>6, Answering

(* handleConnect of a device that sleeps.                                  *)
LEMMA WakingStep ==
    ASSUME Sound, IInv, Connect, status \in {"asleep", "awake"}
    PROVE  IInv'
<1>1. /\ packetQ # <<>> /\ packetQ' = StoredSent /\ saved' = <<>>
      /\ UNCHANGED <<topics, pubMap, subMap, brokerQ, dev, left>>
  BY DEF Connect
<1>2. Packet.type = "CONNECT"
  BY DEF Connect
<1>3. PICK m : m = [type |-> "CONNACK"]
  OBVIOUS
<1>4. clientQ' = Append(clientQ, m) /\ m.type = "CONNACK"
  BY <1>3 DEF Connect, SendClient
<1>5. Fits(m.type, dev.state) /\ Packet.type \in SessionTypes
  BY <1>1, <1>2, <1>4, HeadFits DEF SessionTypes, Fits
<1>6. PacketsTaken(packetQ, packetQ')
  BY <1>1, StoredPackets
<1>7. \A e \in ToSet(packetQ') : e \in ToSet(Tail(packetQ)) \/ e.packet.type \notin SessionTypes
  BY <1>1, StoredPackets
<1>8. Queue(saved') /\ \A p \in ToSet(saved') : p.type = "PUBLISH"
  BY <1>1, QueueEmpty
<1> QED
  BY <1>1, <1>4, <1>5, <1>6, <1>7, <1>8, Answering

(* handleConnect otherwise: the CONNECT goes on to the broker.             *)
LEMMA ConnectSent ==
    ASSUME Sound, IInv, Connect, status \notin {"asleep", "awake"}
    PROVE  /\ dev.state = "connecting" /\ Sessions' /\ Shapes'
           /\ ToSet(packetQ') \subseteq ToSet(packetQ)
           /\ \A e \in ToSet(packetQ') : e.from = "device" => e.packet.type \notin Asked
<1>1. /\ packetQ # <<>> /\ packetQ' = Tail(packetQ)
      /\ UNCHANGED <<saved, clientQ, dev, left>>
  BY DEF Connect
<1>2. Packet.type = "CONNECT"
  BY DEF Connect
<1>3. PICK m : m = [type |-> "CONNECT", clean |-> Packet.clean]
  OBVIOUS
<1>4. brokerQ' = Append(brokerQ, m) /\ m.type = "CONNECT"
  BY <1>3 DEF Connect, SendBroker
<1>5. dev.state = "connecting"
  BY <1>1, <1>2, HeadFits DEF Fits
<1>6. Queue(packetQ) /\ Queue(clientQ) /\ Queue(brokerQ) /\ Queue(saved)
  BY DEF IInv, Shapes
<1>7. Packet.type \in SessionTypes /\ Fits(m.type, dev.state)
  BY <1>2, <1>4, <1>5 DEF SessionTypes, Fits
<1>8. SessionsApart(packetQ', brokerQ', clientQ, dev.state)
  BY <1>1, <1>4, <1>6, <1>7, ToBroker DEF IInv, Sessions, Packet
<1>9. Queue(packetQ') /\ ToSet(packetQ') \subseteq ToSet(packetQ)
  BY <1>1, <1>6, QueueTail
<1>10. Sessions'
  BY <1>1, <1>8, <1>9 DEF IInv, Sessions
<1>11. \A e \in ToSet(packetQ') : e.from = "device" => e.packet.type \notin Asked
  BY <1>1, <1>2, <1>6, PacketsTail DEF IInv, Sessions, SessionsApart, Packet
<1>12. Shapes'
  <2>1. Queue(brokerQ') /\ ToSet(brokerQ') = ToSet(brokerQ) \cup {m}
    BY <1>4, <1>6, QueueAppend
  <2>2. UpRight(m)
    BY <1>4 DEF UpRight
  <2>3. \A p \in ToSet(brokerQ') : UpRight(p)
    BY <2>1, <2>2 DEF IInv, Shapes
  <2> QED
    BY <1>1, <1>9, <2>1, <2>3 DEF IInv, Shapes
<1> QED
  BY <1>5, <1>9, <1>10, <1>11, <1>12

(* In a clean session topics and maps are cleared, and no request of the   *)
(* device and no id it holds is left that would need them.                 *)
LEMMA NewSessionStep ==
    ASSUME Sound, IInv, Connect, status \notin {"asleep", "awake"}, Packet.clean
    PROVE  IInv'
<1>1. /\ packetQ # <<>> /\ topics' = WithoutNormal(topics)
      /\ pubMap' = NoElements /\ subMap' = NoElements
      /\ Used' = Used /\ UNCHANGED <<dev, clientQ>> /\ Packet.type = "CONNECT"
  BY DEF Connect, Used
<1>2. Fresh(dev)
  <2>1. Head(packetQ) \in ToSet(packetQ) /\ Clean(Head(packetQ).packet)
    BY <1>1, QueueTail DEF IInv, Shapes, Packet, Clean
  <2> QED
    BY <2>1 DEF IInv, Sessions
<1>3. /\ Sessions' /\ Shapes'
      /\ \A e \in ToSet(packetQ') : e.from = "device" => e.packet.type \notin Asked
  BY ConnectSent
<1>4. TableSound(topics') /\ MapSound(pubMap') /\ MapSound(subMap')
  BY <1>1, Forgetting, EmptyMap, SoundParts DEF IInv, Tables
<1>5. Waiting'
  <2>1. RequestsRight(dev'.requests, topics', Used') /\ Held(dev'.ids, topics')
    BY <1>1, <1>2 DEF RequestsRight, Held, Fresh
  <2>2. PacketsRight(packetQ', dev'.requests, topics', Used')
    BY <1>3 DEF PacketsRight, PacketRight
  <2>3. PubMapRight(pubMap', dev'.requests, Used') /\ SubMapRight(subMap', dev'.requests, topics', Used')
    BY <1>1, EmptyMap, SoundParts DEF PubMapRight, SubMapRight
  <2>4. AnswersAllRight(clientQ', dev'.requests, topics', Used')
    BY <1>1, <1>2 DEF AnswersAllRight, AnswerRight, IInv, Waiting, Fresh
  <2> QED
    BY <2>1, <2>2, <2>3, <2>4 DEF Waiting
<1> QED
  BY <1>3, <1>4, <1>5 DEF IInv, Tables

(* Otherwise they stay.                                                    *)
LEMMA SameSessionStep ==
    ASSUME Sound, IInv, Connect, status \notin {"asleep", "awake"}, ~Packet.clean
    PROVE  IInv'
<1>1. UNCHANGED <<topics, pubMap, subMap, saved, clientQ, dev, left>>
  BY DEF Connect
<1>2. Sessions' /\ Shapes' /\ ToSet(packetQ') \subseteq ToSet(packetQ)
  BY ConnectSent
<1>3. Held(dev'.ids, topics) /\ dev'.requests = dev.requests
  BY <1>1 DEF IInv, Waiting
<1> QED
  BY <1>1, <1>2, <1>3, Moving DEF Shapes

-----------------------------------------------------------------------------
(* The broker                                                              *)

(* One packet is added to the packet queue by the broker, or none.         *)
LEMMA AnswerOne ==
    ASSUME Queue(packetQ), NEW m, Answers(<<m>>)
    PROVE  packetQ' = Append(packetQ, FromBroker(m))
<1> DEFINE s == [i \in 1..Len(<<m>>) |-> FromBroker(<<m>>[i])]
           e == FromBroker(m)
           S == ToSet(packetQ) \cup {e}
<1>1. s = <<e>>
  OBVIOUS
<1>2. packetQ' = packetQ \o <<e>>
  BY <1>1 DEF Answers
<1>3. Len(packetQ) \in Nat /\ packetQ \in [1..Len(packetQ) -> ToSet(packetQ)]
  BY LenProperties DEF Queue
<1>4. packetQ \in [1..Len(packetQ) -> S]
  BY <1>3
<1>5. packetQ \in Seq(S) /\ e \in S
  BY <1>3, <1>4
<1> HIDE DEF s, e, S
<1>6. packetQ' = Append(packetQ, e)
  BY <1>2, <1>5, AppendIsConcat
<1> QED
  BY <1>6 DEF e

(* No packet is added.                                                     *)
LEMMA AnswerNone ==
    ASSUME Queue(packetQ), Answers(<<>>)
    PROVE  packetQ' = packetQ
<1> DEFINE s == [i \in 1..Len(<<>>) |-> FromBroker(<<>>[i])]
<1>1. s = <<>>
  OBVIOUS
<1>2. packetQ' = packetQ \o <<>>
  BY <1>1 DEF Answers
<1> HIDE DEF s
<1>3. packetQ \in Seq(ToSet(packetQ))
  BY DEF Queue
<1> QED
  BY <1>2, <1>3, ConcatEmptySeq

(* What the broker adds to the packet queue when it takes a packet.        *)
LEMMA ServerAnswers ==
    ASSUME IInv, ServerTakes
    PROVE  \/ packetQ' = packetQ
           \/ \E m : /\ packetQ' = Append(packetQ, FromBroker(m))
                     /\ IF Head(brokerQ).type = "CONNECT" THEN m.type = "CONNACK"
                        ELSE m.type \notin SessionTypes
<1> DEFINE p == Head(brokerQ)
           ack(type) == [type |-> type, msgId |-> p.msgId]
<1>1. Queue(packetQ) /\ Queue(brokerQ) /\ brokerQ # <<>> /\ UpRight(p)
  BY QueueTail DEF IInv, Shapes, ServerTakes
<1>2. \A type : Ack(type, p) = <<ack(type)>> /\ ack(type).type = type
  BY DEF Ack
<1>3. CASE p.type = "CONNECT"
  <2>1. PICK m : m = [type |-> "CONNACK"]
    OBVIOUS
  <2>2. Answers(<<m>>) /\ m.type = "CONNACK"
    BY <1>3, <2>1 DEF ServerTakes
  <2>3. packetQ' = Append(packetQ, FromBroker(m))
    BY <1>1, <2>2, AnswerOne
  <2> QED
    BY <1>3, <2>2, <2>3
<1>4. CASE p.type = "PINGREQ"
  <2>1. PICK m : m = [type |-> "PINGRESP"]
    OBVIOUS
  <2>2. Answers(<<m>>) /\ m.type = "PINGRESP"
    BY <1>4, <2>1 DEF ServerTakes
  <2>3. packetQ' = Append(packetQ, FromBroker(m))
    BY <1>1, <2>2, AnswerOne
  <2> QED
    BY <1>4, <2>2, <2>3 DEF SessionTypes
<1>5. CASE p.type \notin {"CONNECT", "PINGREQ"}
  <2> HIDE DEF ack
  <2>1. \/ Answers(<<>>)
        \/ \E type \in {"PUBACK", "PUBREC", "PUBREL", "PUBCOMP", "SUBACK", "UNSUBACK"} :
               Answers(Ack(type, p))
    <3>1. CASE p.type = "PUBLISH"
      <4>1. ServerPublish(p) /\ p.qos \in 0..2
        BY <1>1, <3>1 DEF ServerTakes, UpRight
      <4>2. p.qos = 0 \/ p.qos = 1 \/ p.qos = 2
        BY <4>1
      <4>3. Answers(CASE p.qos = 0 -> <<>>
                      [] p.qos = 1 -> Ack("PUBACK", p)
                      [] p.qos = 2 -> Ack("PUBREC", p))
        BY <4>1 DEF ServerPublish
      <4> HIDE DEF p
      <4>4. CASE p.qos = 0
        BY <4>3, <4>4
      <4>5. CASE p.qos = 1
        BY <4>3, <4>5
      <4>6. CASE p.qos = 2
        BY <4>3, <4>6
      <4> QED
        BY <4>2, <4>4, <4>5, <4>6
    <3>2. CASE p.type = "PUBREL"
      <4>1. Answers(Ack("PUBCOMP", p))
        BY <3>2 DEF ServerTakes
      <4> QED
        BY <4>1
    <3>3. CASE p.type \in {"PUBACK", "PUBREC"}
      <4>1. Answers(IF p.type = "PUBREC" THEN Ack("PUBREL", p) ELSE <<>>)
        BY <3>3 DEF ServerTakes
      <4> QED
        BY <4>1
    <3>4. CASE p.type = "PUBCOMP"
      <4>1. Answers(<<>>)
        BY <3>4 DEF ServerTakes
      <4> QED
        BY <4>1
    <3>5. CASE p.type = "SUBSCRIBE"
      <4>1. Answers(Ack("SUBACK", p))
        BY <3>5 DEF ServerTakes
      <4> QED
        BY <4>1
    <3>6. CASE p.type = "UNSUBSCRIBE"
      <4>1. Answers(Ack("UNSUBACK", p))
        BY <3>6 DEF ServerTakes
      <4> QED
        BY <4>1
    <3> QED
      BY <1>1, <1>5, <3>1, <3>2, <3>3, <3>4, <3>5, <3>6 DEF UpRight
  <2>2. CASE Answers(<<>>)
    BY <1>1, <2>2, AnswerNone
  <2>3. CASE \E type \in {"PUBACK", "PUBREC", "PUBREL", "PUBCOMP", "SUBACK", "UNSUBACK"} :
                 Answers(Ack(type, p))
    <3>1. PICK type \in {"PUBACK", "PUBREC", "PUBREL", "PUBCOMP", "SUBACK", "UNSUBACK"} :
               Answers(Ack(type, p))
      BY <2>3
    <3>2. PICK m : m = ack(type)
      OBVIOUS
    <3>3. Answers(<<m>>) /\ m.type = type
      BY <1>2, <3>1, <3>2
    <3>4. packetQ' = Append(packetQ, FromBroker(m))
      BY <1>1, <3>3, AnswerOne
    <3> QED
      BY <1>5, <3>3, <3>4 DEF SessionTypes
  <2> QED
    BY <2>1, <2>2, <2>3
<1> QED
  BY <1>3, <1>4, <1>5

(* A step of the broker, of the network or of the device in which no       *)
(* session message is taken or sent.                                       *)
LEMMA Going ==
    ASSUME Sound, IInv,
           Queue(packetQ'), PacketsOnce(packetQ'), NothingBehind(packetQ'),
           \A e \in ToSet(packetQ') :
               \/ e \in ToSet(packetQ)
               \/ /\ e.packet.type \notin SessionTypes
                  /\ PacketRight(e, dev'.requests, topics, Used'),
           Queue(brokerQ'), MessagesOnce(brokerQ'), ToSet(brokerQ') \subseteq ToSet(brokerQ),
           Queue(clientQ'), MessagesOnce(clientQ'), ToSet(clientQ') \subseteq ToSet(clientQ),
           Later(dev.requests, topics, Used, dev'.requests, topics, Used'),
           RequestsRight(dev'.requests, topics, Used'), Held(dev'.ids, topics),
           dev'.state = dev.state,
           dev.state = "connecting" /\ Fresh(dev) => Fresh(dev'),
           dev' = [state |-> dev'.state, ids |-> dev'.ids, requests |-> dev'.requests,
                   got |-> dev'.got, receiving |-> dev'.receiving],
           left' = [requests |-> left'.requests, faults |-> left'.faults, rests |-> left'.rests],
           left'.requests \in 0..MaxRequests,
           UNCHANGED client
    PROVE  IInv'
<1>1. UNCHANGED <<topics, pubMap, subMap, saved>>
  BY DEF client
<1>2. Waiting'
  BY <1>1, WaitingStep DEF IInv
<1>3. Sessions'
  BY SessionsStep DEF IInv
<1>4. Shapes'
  BY <1>1 DEF IInv, Shapes
<1>5. Tables'
  BY <1>1 DEF IInv, Tables
<1> QED
  BY <1>2, <1>3, <1>4, <1>5 DEF IInv

(* The device is not concerned.                                            *)
LEMMA DeviceStays ==
    ASSUME Sound, IInv, dev' = dev, left'.requests = left.requests
    PROVE  /\ Used' = Used /\ dev'.requests = dev.requests
           /\ Later(dev.requests, topics, Used, dev'.requests, topics, Used')
           /\ RequestsRight(dev'.requests, topics, Used') /\ Held(dev'.ids, topics)
           /\ dev'.state = dev.state
           /\ dev.state = "connecting" /\ Fresh(dev) => Fresh(dev')
           /\ dev' = [state |-> dev'.state, ids |-> dev'.ids, requests |-> dev'.requests,
                      got |-> dev'.got, receiving |-> dev'.receiving]
           /\ left'.requests \in 0..MaxRequests
<1>1. Used' = Used /\ Used \in Nat
  BY UsedNumber DEF Used
<1>2. Later(dev.requests, topics, Used, dev'.requests, topics, Used')
  BY <1>1 DEF Later
<1> QED
  BY <1>1, <1>2 DEF IInv, Waiting, Sessions, Shapes

(* The broker sends a packet that does not end a session.                  *)
LEMMA BrokerSends ==
    ASSUME Sound, IInv, NEW m, m.type \notin SessionTypes,
           packetQ' = packetQ \/ packetQ' = Append(packetQ, FromBroker(m)),
           Queue(brokerQ'), MessagesOnce(brokerQ'), ToSet(brokerQ') \subseteq ToSet(brokerQ),
           UNCHANGED <<client, clientQ, dev, left>>
    PROVE  IInv'
<1>1. FromBroker(m).from = "broker" /\ FromBroker(m).packet = m
  BY DEF FromBroker
<1>2. Queue(packetQ) /\ PacketsOnce(packetQ) /\ NothingBehind(packetQ)
  BY DEF IInv, Shapes, Sessions, SessionsApart
<1>3. Queue(packetQ') /\ \A e \in ToSet(packetQ') : e \in ToSet(packetQ) \/ e = FromBroker(m)
  <2>1. CASE packetQ' = packetQ
    BY <1>2, <2>1
  <2>2. CASE packetQ' = Append(packetQ, FromBroker(m))
    BY <1>2, <2>2, QueueAppend
  <2> QED
    BY <2>1, <2>2
<1>4. PacketsOnce(packetQ') /\ NothingBehind(packetQ')
  <2>1. CASE packetQ' = packetQ
    BY <1>2, <2>1
  <2>2. CASE packetQ' = Append(packetQ, FromBroker(m))
    BY <1>1, <1>2, <2>2, PacketsAppend
  <2> QED
    BY <2>1, <2>2
<1>5. \A e \in ToSet(packetQ') :
          \/ e \in ToSet(packetQ)
          \/ /\ e.packet.type \notin SessionTypes
             /\ PacketRight(e, dev'.requests, topics, Used')
  BY <1>1, <1>3 DEF PacketRight
<1>6. Queue(clientQ') /\ MessagesOnce(clientQ') /\ ToSet(clientQ') \subseteq ToSet(clientQ)
  BY DEF IInv, Shapes, Sessions, SessionsApart
<1>7. dev' = dev /\ left'.requests = left.requests
      /\ left' = [requests |-> left'.requests, faults |-> left'.faults, rests |-> left'.rests]
  BY DEF IInv, Shapes
<1>8. UNCHANGED client
  OBVIOUS
<1> QED
  BY <1>3, <1>4, <1>5, <1>6, <1>7, <1>8, DeviceStays, Going

(* The broker takes a packet.                                              *)
LEMMA ServerTakesStep ==
    ASSUME Sound, IInv, ServerTakes
    PROVE  IInv'
<1>1. /\ brokerQ # <<>> /\ brokerQ' = Tail(brokerQ)
      /\ UNCHANGED <<client, clientQ, dev, left>>
  BY DEF ServerTakes
<1>2. Queue(packetQ) /\ Queue(brokerQ) /\ Queue(clientQ) /\ MessagesOnce(brokerQ)
  BY DEF IInv, Shapes, Sessions, SessionsApart
<1>3. /\ Queue(brokerQ') /\ ToSet(brokerQ') \subseteq ToSet(brokerQ) /\ Head(brokerQ) \in ToSet(brokerQ)
  BY <1>1, <1>2, QueueTail
<1>4. MessagesOnce(brokerQ')
  BY <1>1, <1>2, MessagesTail
<1>5. CASE packetQ' = packetQ
  <2>1. PICK m : m = [type |-> "PINGRESP"]
    OBVIOUS
  <2>2. m.type \notin SessionTypes
    BY <2>1 DEF SessionTypes
  <2> QED
    BY <1>1, <1>3, <1>4, <1>5, <2>2, BrokerSends
<1>6. CASE packetQ' # packetQ /\ Head(brokerQ).type # "CONNECT"
  <2>1. PICK m : packetQ' = Append(packetQ, FromBroker(m)) /\ m.type \notin SessionTypes
    BY <1>6, ServerAnswers
  <2> QED
    BY <1>1, <1>3, <1>4, <2>1, BrokerSends
<1>7. CASE packetQ' # packetQ /\ Head(brokerQ).type = "CONNECT"
  <2>1. PICK m : packetQ' = Append(packetQ, FromBroker(m)) /\ m.type = "CONNACK"
    BY <1>7, ServerAnswers
  <2>2. PICK e : e = FromBroker(m)
    OBVIOUS
  <2>3. packetQ' = Append(packetQ, e) /\ e.from = "broker" /\ e.packet = m
    BY <2>1, <2>2 DEF FromBroker
  <2>4. Queue(packetQ') /\ ToSet(packetQ') = ToSet(packetQ) \cup {e}
    BY <1>2, <2>3, QueueAppend
  <2>5. SessionsApart(packetQ, brokerQ, clientQ, dev.state)
    BY DEF IInv, Sessions
  <2>6. Head(brokerQ).type \in SessionTypes /\ dev.state = "connecting"
    BY <1>3, <1>7, <2>5 DEF SessionTypes, SessionsApart, Fits
  <2>7. /\ \A x \in ToSet(packetQ) : x.packet.type \notin SessionTypes
        /\ \A p \in ToSet(clientQ) : p.type \notin SessionTypes
    BY <1>3, <2>5, <2>6 DEF SessionsApart
  <2>8. \A p \in ToSet(brokerQ') : p.type \notin SessionTypes
    BY <1>1, <1>2, <2>6, MessagesTail
  <2>9. PacketsOnce(packetQ') /\ NothingBehind(packetQ')
    BY <1>2, <2>3, <2>5, <2>7, PacketsAppend DEF SessionsApart
  <2>10. Fits(e.packet.type, dev.state)
    BY <2>1, <2>3, <2>6 DEF Fits
  <2>11. SessionsApart(packetQ', brokerQ', clientQ, dev.state)
    BY <1>3, <1>4, <2>4, <2>5, <2>7, <2>8, <2>9, <2>10 DEF SessionsApart
  <2>12. Sessions'
    BY <1>1, <2>1, <2>3, <2>4, <2>11 DEF IInv, Sessions, Clean
  <2>13. /\ Queue(saved') /\ (\A p \in ToSet(saved') : p.type = "PUBLISH")
         /\ UNCHANGED <<topics, pubMap, subMap>>
    BY <1>1 DEF IInv, Shapes, client
  <2>14. /\ Queue(clientQ') /\ (\A p \in ToSet(clientQ') : DownRight(p))
         /\ (\A p \in ToSet(clientQ') : p \in ToSet(clientQ))
         /\ (\A p \in ToSet(brokerQ') : UpRight(p))
    BY <1>1, <1>3 DEF IInv, Shapes
  <2>15. /\ dev' = [state |-> dev'.state, ids |-> dev'.ids, requests |-> dev'.requests,
                    got |-> dev'.got, receiving |-> dev'.receiving]
         /\ left' = [requests |-> left'.requests, faults |-> left'.faults, rests |-> left'.rests]
         /\ left'.requests = left.requests /\ dev'.requests = dev.requests
         /\ Held(dev'.ids, topics)
    BY <1>1 DEF IInv, Shapes, Waiting
  <2>16. \A x \in ToSet(packetQ') : x \in ToSet(packetQ) \/ x.from = "broker"
    BY <2>3, <2>4
  <2> QED
    BY <1>3, <2>4, <2>12, <2>13, <2>14, <2>15, <2>16, Moving
<1> QED
  BY <1>5, <1>6, <1>7

(* The broker publishes.                                                   *)
LEMMA ServerPublishesStep ==
    ASSUME Sound, IInv, NEW pub, ServerPublishes(pub)
    PROVE  IInv'
<1>1. UNCHANGED <<client, brokerQ, clientQ, dev, left>>
  BY DEF ServerPublishes
<1>2. PICK k : Answers(<<[type |-> "PUBLISH", topic |-> pub.topic, qos |-> pub.qos,
                          msgId |-> k, n |-> pub]>>)
  BY DEF ServerPublishes
<1>3. PICK m : m = [type |-> "PUBLISH", topic |-> pub.topic, qos |-> pub.qos,
                    msgId |-> k, n |-> pub]
  OBVIOUS
<1>4. Answers(<<m>>) /\ m.type \notin SessionTypes
  BY <1>2, <1>3 DEF SessionTypes
<1>5. packetQ' = Append(packetQ, FromBroker(m))
  BY <1>4, AnswerOne DEF IInv, Shapes
<1>6. Queue(brokerQ') /\ MessagesOnce(brokerQ') /\ ToSet(brokerQ') \subseteq ToSet(brokerQ)
  BY <1>1 DEF IInv, Shapes, Sessions, SessionsApart
<1> QED
  BY <1>1, <1>4, <1>5, <1>6, BrokerSends

-----------------------------------------------------------------------------
(* The device and the network                                              *)

(* The device sends a packet that neither begins nor ends a session.       *)
LEMMA DevicePacket ==
    ASSUME IInv, NEW p, p.type \notin SessionTypes,
           p.type \in Asked => dev.state = "active",
           packetQ' = Append(packetQ, FromDevice(p))
    PROVE  /\ Queue(packetQ') /\ PacketsOnce(packetQ') /\ NothingBehind(packetQ')
           /\ \A e \in ToSet(packetQ') : e \in ToSet(packetQ) \/ e = FromDevice(p)
           /\ FromDevice(p).packet = p
<1>1. FromDevice(p).from = "device" /\ FromDevice(p).packet = p
  BY DEF FromDevice
<1>2. Queue(packetQ) /\ PacketsOnce(packetQ) /\ NothingBehind(packetQ)
  BY DEF IInv, Shapes, Sessions, SessionsApart
<1>3. p.type \in Asked => \A e \in ToSet(packetQ) : e.packet.type # "CONNECT"
  BY DEF IInv, Sessions, SessionsApart, Fits
<1>4. PacketsOnce(packetQ') /\ NothingBehind(packetQ')
  BY <1>1, <1>2, <1>3, PacketsAppend
<1>5. Queue(packetQ') /\ ToSet(packetQ') = ToSet(packetQ) \cup {FromDevice(p)}
  BY <1>2, QueueAppend
<1> QED
  BY <1>1, <1>4, <1>5

(* The other queues stay.                                                  *)
LEMMA QueuesStay ==
    ASSUME IInv, UNCHANGED <<brokerQ, clientQ>>
    PROVE  /\ Queue(brokerQ') /\ MessagesOnce(brokerQ') /\ ToSet(brokerQ') \subseteq ToSet(brokerQ)
           /\ Queue(clientQ') /\ MessagesOnce(clientQ') /\ ToSet(clientQ') \subseteq ToSet(clientQ)
  BY DEF IInv, Shapes, Sessions, SessionsApart

(* What the device may ask for, with a message id or with 0.               *)
LEMMA RequestRight ==
    ASSUME Sound, IInv, NEW m, NEW r \in Requests(m)
    PROVE  /\ r.type \in Asked /\ (r.msgId = m \/ r.msgId = 0)
           /\ AskedRight(r, topics)
<1>0. ASSUME NEW ref \in FixedRefs PROVE RefSound(ref) /\ ref.type # "normal"
  <2>1. CASE ref \in {TopicRef("short", n, ShortIds[n]) : n \in Short}
    BY <2>1 DEF TopicRef, RefSound
  <2>2. CASE ref \in {TopicRef("predef", "", i) : i \in DOMAIN Predefined}
    <3>1. PICK i \in DOMAIN Predefined : ref = TopicRef("predef", "", i)
      BY <2>2
    <3>2. ref.type = "predef" /\ ref.id = i
      BY <3>1 DEF TopicRef
    <3> QED
      BY <3>2 DEF RefSound
  <2> QED
    BY <2>1, <2>2 DEF FixedRefs
<1>1. ASSUME NEW ref \in PublishRefs
      PROVE  RefSound(ref) /\ (ref.type = "normal" => KnownId(topics, ref.id))
  <2>1. CASE ref \in FixedRefs
    BY <1>0, <2>1
  <2>2. CASE ref \in {TopicRef("normal", "", dev.ids[n]) : n \in {k \in Long : dev.ids[k] # 0}}
    <3>1. PICK n \in Long : dev.ids[n] # 0 /\ ref = TopicRef("normal", "", dev.ids[n])
      BY <2>2
    <3>2. HasId(topics, n, dev.ids[n]) /\ n \in TopicNames \ Filters
      BY <3>1 DEF IInv, Waiting, Held, Long
    <3>3. ref.type = "normal" /\ ref.id = dev.ids[n]
      BY <3>1 DEF TopicRef
    <3> QED
      BY <3>2, <3>3 DEF RefSound, KnownId
  <2> QED
    BY <2>1, <2>2 DEF PublishRefs
<1>2. ASSUME NEW ref \in SubscribeRefs
      PROVE  RefSound(ref) /\ (ref.type = "normal" => ref.name \in Registrable /\ ref.id = 0)
  <2>1. CASE ref \in FixedRefs
    BY <1>0, <2>1
  <2>2. CASE ref \in {TopicRef("normal", n, 0) : n \in Registrable}
    BY <2>2 DEF TopicRef, RefSound
  <2> QED
    BY <2>1, <2>2 DEF SubscribeRefs
<1>3. ASSUME NEW ref \in NamedRefs PROVE RefSound(ref)
  <2>1. CASE ref \in FixedRefs
    BY <1>0, <2>1
  <2>2. CASE ref \in {TopicRef("normal", n, 0) : n \in Registrable \ Filters}
    BY <2>2 DEF TopicRef, RefSound
  <2> QED
    BY <2>1, <2>2 DEF NamedRefs
<1> HIDE DEF PublishRefs, SubscribeRefs, NamedRefs
<1> DEFINE confirmed == [type : {"PUBLISH"}, msgId : {m}, qos : DeviceQos \cap {1, 2},
                         n : {left.requests}, ref : PublishRefs]
           unconfirmed == [type : {"PUBLISH"}, msgId : {0}, qos : DeviceQos \cap {0},
                           n : {left.requests}, ref : PublishRefs]
           named == [type : {"PUBLISH"}, msgId : {0}, qos : DeviceQos \cap {3},
                     n : {left.requests}, ref : NamedRefs]
           registers == [type : {"REGISTER"}, msgId : {m}, name : Registrable \ Filters]
           filters == [type : {"SUBSCRIBE", "UNSUBSCRIBE"}, msgId : {m}, ref : SubscribeRefs]
<1>4. ASSUME r \in confirmed \/ r \in unconfirmed
      PROVE  /\ r.type = "PUBLISH" /\ r.ref \in PublishRefs /\ (r.msgId = m \/ r.msgId = 0)
             /\ r.qos \in 0..3
  BY <1>4
<1>5. ASSUME r \in named
      PROVE  r.type = "PUBLISH" /\ r.ref \in NamedRefs /\ r.msgId = 0 /\ r.qos = 3
  BY <1>5
<1>6. ASSUME r \in registers
      PROVE  r.type = "REGISTER" /\ r.name \in Registrable \ Filters /\ r.msgId = m
  BY <1>6
<1>7. ASSUME r \in filters
      PROVE  /\ r.type \in {"SUBSCRIBE", "UNSUBSCRIBE"} /\ r.ref \in SubscribeRefs
             /\ r.msgId = m
  BY <1>7
<1>8. r \in confirmed \/ r \in unconfirmed \/ r \in named \/ r \in registers \/ r \in filters
  BY DEF Requests
<1> HIDE DEF confirmed, unconfirmed, named, registers, filters
<1>9. CASE r \in confirmed \/ r \in unconfirmed
  BY <1>1, <1>4, <1>9 DEF AskedRight, Asked
<1>10. CASE r \in named
  BY <1>3, <1>5, <1>10 DEF AskedRight, Asked
<1>11. CASE r \in registers
  BY <1>6, <1>11 DEF AskedRight, Asked
<1>12. CASE r \in filters
  BY <1>2, <1>7, <1>12 DEF AskedRight, Asked
<1> QED
  BY <1>8, <1>9, <1>10, <1>11, <1>12

(* The device asks, with a message id it did not use before.               *)
LEMMA DeviceAsksStep ==
    ASSUME Sound, IInv, DeviceAsks
    PROVE  IInv'
<1>1. PICK r \in Requests(NextMsgId) :
           /\ packetQ' = Append(packetQ, FromDevice(r))
           /\ dev' = [dev EXCEPT !.requests = IF r.msgId = 0 THEN @ ELSE @ \cup {r}]
  BY DEF DeviceAsks, DeviceSends
<1>2. /\ dev.state = "active" /\ left.requests > 0
      /\ left' = [left EXCEPT !.requests = @ - 1]
      /\ UNCHANGED <<client, brokerQ, clientQ>>
  BY DEF DeviceAsks
<1>3. /\ left.requests \in 0..MaxRequests /\ MaxRequests \in Nat /\ MaxMsgId \in Nat
      /\ MaxRequests <= MaxMsgId
      /\ left = [requests |-> left.requests, faults |-> left.faults, rests |-> left.rests]
  BY SoundParts DEF IInv, Shapes
<1>4. /\ left'.requests = left.requests - 1 /\ left'.requests \in 0..MaxRequests
      /\ left' = [requests |-> left'.requests, faults |-> left'.faults, rests |-> left'.rests]
  BY <1>2, <1>3
<1>5. Used \in Nat /\ Used' = Used + 1 /\ NextMsgId = Used + 1
  <2>1. Used \in Nat /\ Used < MaxMsgId
    BY <1>2, <1>3 DEF Used
  <2>2. Used' = Used + 1
    BY <1>3, <1>4 DEF Used
  <2>3. NextMsgId = (Used % MaxMsgId) + 1
    BY DEF NextMsgId, Used
  <2>4. Used % MaxMsgId = Used
    <3> HIDE DEF Used
    <3> QED
      BY <2>1, <1>3
  <2> QED
    BY <2>1, <2>2, <2>3, <2>4
<1>6. /\ r.type \in Asked /\ (r.msgId = Used + 1 \/ r.msgId = 0)
      /\ AskedRight(r, topics)
  BY <1>5, RequestRight
<1> DEFINE new == dev'.requests
<1>7. /\ new = IF r.msgId = 0 THEN dev.requests ELSE dev.requests \cup {r}
      /\ dev'.state = dev.state /\ dev'.ids = dev.ids
      /\ dev' = [state |-> dev'.state, ids |-> dev'.ids, requests |-> dev'.requests,
                 got |-> dev'.got, receiving |-> dev'.receiving]
  BY <1>1 DEF IInv, Shapes
<1>8. RequestsRight(dev.requests, topics, Used) /\ Held(dev.ids, topics)
  BY DEF IInv, Waiting
<1>9. \A s \in dev.requests : s.msgId \in 1..Used /\ s.msgId # Used + 1 /\ s.msgId # 0
  BY <1>5, <1>8 DEF RequestsRight
<1>10. RequestsRight(new, topics, Used')
  <2>1. \A s \in dev.requests : s.msgId \in 1..Used'
    BY <1>5, <1>9
  <2>2. r.msgId # 0 => r.msgId \in 1..Used'
    BY <1>5, <1>6
  <2>3. \A s \in new : s \in dev.requests \/ (s = r /\ r.msgId = Used + 1)
    BY <1>6, <1>7
  <2> HIDE DEF new
  <2>4. ASSUME NEW s \in new
        PROVE  s.type \in Asked \cup {"PUBREL"} /\ s.msgId \in 1..Used' /\ AskedRight(s, topics)
    <3>1. CASE s \in dev.requests
      BY <1>8, <2>1, <3>1 DEF RequestsRight
    <3>2. CASE s = r /\ r.msgId = Used + 1
      BY <1>5, <1>6, <2>2, <3>2
    <3> QED
      BY <2>3, <3>1, <3>2
  <2>5. ASSUME NEW s \in new, NEW t \in new, s.msgId = t.msgId PROVE s = t
    BY <1>8, <1>9, <2>3, <2>5 DEF RequestsRight
  <2> QED
    BY <2>4, <2>5 DEF RequestsRight
<1>11. PacketRight(FromDevice(r), new, topics, Used')
  <2>1. r.msgId \in 0..Used'
    BY <1>5, <1>6
  <2>2. \A s \in new : s.msgId = r.msgId => r = s
    BY <1>6, <1>7, <1>9
  <2> QED
    BY <1>6, <2>1, <2>2 DEF PacketRight, FromDevice
<1>12. Later(dev.requests, topics, Used, new, topics, Used')
  <2>1. \A s \in new : s \in dev.requests \/ s.msgId = Used + 1
    BY <1>6, <1>7
  <2> QED
    BY <1>5, <2>1 DEF Later
<1>13. r.type \notin SessionTypes
  BY <1>6 DEF Asked, SessionTypes
<1>14. /\ Queue(packetQ') /\ PacketsOnce(packetQ') /\ NothingBehind(packetQ')
       /\ \A e \in ToSet(packetQ') : e \in ToSet(packetQ) \/ e = FromDevice(r)
       /\ FromDevice(r).packet = r
  BY <1>1, <1>2, <1>13, DevicePacket
<1>15. \A e \in ToSet(packetQ') :
           \/ e \in ToSet(packetQ)
           \/ e.packet.type \notin SessionTypes /\ PacketRight(e, new, topics, Used')
  BY <1>11, <1>13, <1>14
<1>16. /\ Queue(brokerQ') /\ MessagesOnce(brokerQ') /\ ToSet(brokerQ') \subseteq ToSet(brokerQ)
       /\ Queue(clientQ') /\ MessagesOnce(clientQ') /\ ToSet(clientQ') \subseteq ToSet(clientQ)
  BY <1>2, QueuesStay
<1>17. Held(dev'.ids, topics) /\ dev.state # "connecting" /\ UNCHANGED client
  BY <1>2, <1>7, <1>8
<1> QED
  BY <1>4, <1>7, <1>10, <1>12, <1>14, <1>15, <1>16, <1>17, Going

(* The retry timer.                                                        *)
LEMMA DeviceRetriesStep ==
    ASSUME Sound, IInv, DeviceRetries
    PROVE  IInv'
<1>1. PICK r \in dev.requests : packetQ' = Append(packetQ, FromDevice(r))
  BY DEF DeviceRetries, DeviceSends
<1>2. /\ dev.state = "active" /\ left' = [left EXCEPT !.faults = @ - 1]
      /\ UNCHANGED <<client, brokerQ, clientQ, dev>>
  BY DEF DeviceRetries
<1>3. /\ left'.requests = left.requests
      /\ left' = [requests |-> left'.requests, faults |-> left'.faults, rests |-> left'.rests]
  BY <1>2 DEF IInv, Shapes
<1>4. RequestsRight(dev.requests, topics, Used) /\ Used' = Used /\ Used \in Nat
  BY <1>2, <1>3, UsedNumber DEF IInv, Waiting, Used
<1>5. r.type \in Asked \cup {"PUBREL"} /\ r.msgId \in 0..Used /\ AskedRight(r, topics)
  BY <1>4 DEF RequestsRight
<1>6. PacketRight(FromDevice(r), dev'.requests, topics, Used')
  BY <1>2, <1>4, <1>5 DEF PacketRight, FromDevice, RequestsRight
<1>7. r.type \notin SessionTypes
  BY <1>5 DEF Asked, SessionTypes
<1>8. /\ Queue(packetQ') /\ PacketsOnce(packetQ') /\ NothingBehind(packetQ')
      /\ \A e \in ToSet(packetQ') : e \in ToSet(packetQ) \/ e = FromDevice(r)
      /\ FromDevice(r).packet = r
  BY <1>1, <1>2, <1>7, DevicePacket
<1>9. \A e \in ToSet(packetQ') :
          \/ e \in ToSet(packetQ)
          \/ e.packet.type \notin SessionTypes /\ PacketRight(e, dev'.requests, topics, Used')
  BY <1>6, <1>7, <1>8
<1>10. /\ Queue(brokerQ') /\ MessagesOnce(brokerQ') /\ ToSet(brokerQ') \subseteq ToSet(brokerQ)
       /\ Queue(clientQ') /\ MessagesOnce(clientQ') /\ ToSet(clientQ') \subseteq ToSet(clientQ)
  BY <1>2, QueuesStay
<1> QED
  BY <1>2, <1>3, <1>8, <1>9, <1>10, DeviceStays, Going

(* A packet is lost on the way to or from the device.                      *)
LEMMA LostStep ==
    ASSUME Sound, IInv, Lost
    PROVE  IInv'
<1>1. left' = [left EXCEPT !.faults = @ - 1] /\ UNCHANGED <<client, brokerQ, dev>>
  BY DEF Lost
<1>2. /\ left'.requests = left.requests
      /\ left' = [requests |-> left'.requests, faults |-> left'.faults, rests |-> left'.rests]
  BY <1>1 DEF IInv, Shapes
<1>3. /\ Queue(packetQ) /\ PacketsOnce(packetQ) /\ NothingBehind(packetQ)
      /\ Queue(clientQ) /\ MessagesOnce(clientQ)
      /\ Queue(brokerQ) /\ MessagesOnce(brokerQ)
  BY DEF IInv, Shapes, Sessions, SessionsApart
<1>4. /\ Queue(packetQ') /\ ToSet(packetQ') \subseteq ToSet(packetQ)
      /\ PacketsOnce(packetQ') /\ NothingBehind(packetQ')
  <2>1. CASE packetQ' = packetQ
    BY <1>3, <2>1
  <2>2. CASE packetQ # <<>> /\ packetQ' = Front(packetQ)
    BY <1>3, <2>2, QueueFront, PacketsFront
  <2> QED
    BY <2>1, <2>2 DEF Lost
<1>5. Queue(clientQ') /\ ToSet(clientQ') \subseteq ToSet(clientQ) /\ MessagesOnce(clientQ')
  <2>1. CASE clientQ' = clientQ
    BY <1>3, <2>1
  <2>2. CASE clientQ # <<>> /\ clientQ' = Tail(clientQ)
    BY <1>3, <2>2, QueueTail, MessagesTail
  <2> QED
    BY <2>1, <2>2 DEF Lost
<1>6. \A e \in ToSet(packetQ') :
          \/ e \in ToSet(packetQ)
          \/ e.packet.type \notin SessionTypes /\ PacketRight(e, dev'.requests, topics, Used')
  BY <1>4
<1>7. Queue(brokerQ') /\ MessagesOnce(brokerQ') /\ ToSet(brokerQ') \subseteq ToSet(brokerQ)
  BY <1>1, <1>3
<1> QED
  BY <1>1, <1>2, <1>4, <1>5, <1>6, <1>7, DeviceStays, Going

(* The device takes a packet that neither begins nor ends a session.       *)
LEMMA DeviceGoes ==
    ASSUME Sound, IInv, clientQ # <<>>, clientQ' = Tail(clientQ),
           UNCHANGED <<client, brokerQ, left>>, NEW m, m.type \notin SessionTypes \cup Asked,
           packetQ' = packetQ \/ packetQ' = Append(packetQ, FromDevice(m)),
           \A r \in dev'.requests : r \in dev.requests \/ r.type = "PUBREL",
           RequestsRight(dev'.requests, topics, Used), Held(dev'.ids, topics),
           dev'.state = dev.state,
           dev.state = "connecting" /\ Fresh(dev) => Fresh(dev'),
           dev' = [state |-> dev'.state, ids |-> dev'.ids, requests |-> dev'.requests,
                   got |-> dev'.got, receiving |-> dev'.receiving]
    PROVE  IInv'
<1>1. /\ Queue(packetQ) /\ PacketsOnce(packetQ) /\ NothingBehind(packetQ)
      /\ Queue(clientQ) /\ MessagesOnce(clientQ)
      /\ Queue(brokerQ) /\ MessagesOnce(brokerQ)
  BY DEF IInv, Shapes, Sessions, SessionsApart
<1>2. Used' = Used /\ Used \in Nat
  BY UsedNumber DEF Used
<1>3. /\ Queue(packetQ') /\ PacketsOnce(packetQ') /\ NothingBehind(packetQ')
      /\ \A e \in ToSet(packetQ') : e \in ToSet(packetQ) \/ e = FromDevice(m)
  <2>1. CASE packetQ' = packetQ
    BY <1>1, <2>1
  <2>2. CASE packetQ' = Append(packetQ, FromDevice(m))
    BY <2>2, DevicePacket
  <2> QED
    BY <2>1, <2>2
<1>4. FromDevice(m).packet.type \notin SessionTypes \cup Asked
  BY DEF FromDevice
<1>5. \A e \in ToSet(packetQ') :
          \/ e \in ToSet(packetQ)
          \/ e.packet.type \notin SessionTypes /\ PacketRight(e, dev'.requests, topics, Used')
  BY <1>3, <1>4 DEF PacketRight
<1>6. Queue(clientQ') /\ ToSet(clientQ') \subseteq ToSet(clientQ) /\ MessagesOnce(clientQ')
  BY <1>1, QueueTail, MessagesTail
<1>7. Later(dev.requests, topics, Used, dev'.requests, topics, Used')
  BY <1>2 DEF Later
<1>8. RequestsRight(dev'.requests, topics, Used')
  BY <1>2
<1>9. /\ left' = [requests |-> left'.requests, faults |-> left'.faults, rests |-> left'.rests]
      /\ left'.requests \in 0..MaxRequests
  BY DEF IInv, Shapes
<1>10. /\ Queue(brokerQ') /\ MessagesOnce(brokerQ') /\ ToSet(brokerQ') \subseteq ToSet(brokerQ)
       /\ UNCHANGED client
  BY <1>1
<1> QED
  BY <1>3, <1>5, <1>6, <1>7, <1>8, <1>9, <1>10, Going

(* Fewer requests are right too, and none is left of none.                 *)
LEMMA FewerRequests ==
    ASSUME IInv, NEW new, \A r \in new : r \in dev.requests
    PROVE  /\ RequestsRight(new, topics, Used)
           /\ dev.requests = {} => new = {}
  BY DEF IInv, Waiting, RequestsRight

(* The device takes a packet that answers nothing with an id.              *)
LEMMA DeviceTakesPlain ==
    ASSUME Sound, IInv, DeviceTakes,
           Head(clientQ).type \in {"PUBLISH", "PUBREL", "PUBACK", "PUBCOMP", "UNSUBACK"}
    PROVE  IInv'
<1> DEFINE p == Head(clientQ)
           m1 == [type |-> IF p.qos = 2 /\ Known(p.ref) THEN "PUBREC" ELSE "PUBACK",
                  msgId |-> p.msgId,
                  rc |-> IF Known(p.ref) THEN "accepted" ELSE "invalid id"]
           m2 == [type |-> "PUBCOMP", msgId |-> p.msgId]
<1>1. clientQ # <<>> /\ clientQ' = Tail(clientQ) /\ UNCHANGED <<client, brokerQ, left>>
  BY DEF DeviceTakes
<1>2. m1.type \notin SessionTypes \cup Asked /\ m2.type \notin SessionTypes \cup Asked
  BY DEF SessionTypes, Asked
<1>3. dev = [state |-> dev.state, ids |-> dev.ids, requests |-> dev.requests,
             got |-> dev.got, receiving |-> dev.receiving]
  BY DEF IInv, Shapes
<1>4. \E m : /\ m.type \notin SessionTypes \cup Asked
             /\ packetQ' = packetQ \/ packetQ' = Append(packetQ, FromDevice(m))
  <2>1. CASE p.type = "PUBLISH"
    <3>1. packetQ' = packetQ \/ packetQ' = Append(packetQ, FromDevice(m1))
      BY <2>1 DEF DeviceTakes, DeviceSends
    <3> HIDE DEF m1
    <3> QED
      BY <1>2, <3>1
  <2>2. CASE p.type = "PUBREL"
    <3>1. packetQ' = Append(packetQ, FromDevice(m2))
      BY <2>2 DEF DeviceTakes, DeviceSends
    <3> HIDE DEF m2
    <3> QED
      BY <1>2, <3>1
  <2>3. CASE p.type \in {"PUBACK", "PUBCOMP"}
    <3>1. packetQ' = packetQ
      BY <2>3 DEF DeviceTakes
    <3> HIDE DEF m2
    <3> QED
      BY <1>2, <3>1
  <2>4. CASE p.type = "UNSUBACK"
    <3>1. packetQ' = packetQ
      BY <2>4 DEF DeviceTakes
    <3> HIDE DEF m2
    <3> QED
      BY <1>2, <3>1
  <2> QED
    BY <2>1, <2>2, <2>3, <2>4
<1>5. /\ dev'.state = dev.state /\ dev'.ids = dev.ids
      /\ \A r \in dev'.requests : r \in dev.requests
      /\ dev' = [state |-> dev'.state, ids |-> dev'.ids, requests |-> dev'.requests,
                 got |-> dev'.got, receiving |-> dev'.receiving]
  <2>1. CASE p.type = "PUBLISH"
    <3>1. \/ dev' = dev
          \/ dev' = [dev EXCEPT
                       !.got = IF p.qos = 2 /\ p.msgId \in dev.receiving THEN @
                               ELSE Append(@, p.n),
                       !.receiving = IF p.qos = 2 THEN @ \cup {p.msgId} ELSE @]
      BY <2>1 DEF DeviceTakes
    <3> QED
      BY <1>3, <3>1
  <2>2. CASE p.type = "PUBREL"
    <3>1. dev' = [dev EXCEPT !.receiving = @ \ {p.msgId}]
      BY <2>2 DEF DeviceTakes
    <3> QED
      BY <1>3, <3>1
  <2>3. CASE p.type \in {"PUBACK", "PUBCOMP"}
    <3>1. dev' = [dev EXCEPT !.requests = @ \ Answered({"PUBLISH", "PUBREL"}, p.msgId)]
      BY <2>3 DEF DeviceTakes
    <3> QED
      BY <1>3, <3>1
  <2>4. CASE p.type = "UNSUBACK"
    <3>1. dev' = [dev EXCEPT !.requests = @ \ Answered({"UNSUBSCRIBE"}, p.msgId)]
      BY <2>4 DEF DeviceTakes
    <3> QED
      BY <1>3, <3>1
  <2> QED
    BY <2>1, <2>2, <2>3, <2>4
<1> HIDE DEF p, m1, m2
<1>6. RequestsRight(dev'.requests, topics, Used) /\ (Fresh(dev) => Fresh(dev'))
  BY <1>5, FewerRequests DEF Fresh
<1>7. Held(dev'.ids, topics)
  BY <1>5 DEF IInv, Waiting
<1>8. PICK m : /\ m.type \notin SessionTypes \cup Asked
               /\ packetQ' = packetQ \/ packetQ' = Append(packetQ, FromDevice(m))
  BY <1>4
<1> QED
  BY <1>1, <1>5, <1>6, <1>7, <1>8, DeviceGoes

(* From PUBREC on, the device repeats PUBREL.                              *)
LEMMA DeviceTakesPubrec ==
    ASSUME Sound, IInv, DeviceTakes, Head(clientQ).type = "PUBREC"
    PROVE  IInv'
<1> DEFINE p == Head(clientQ)
           release == [type |-> "PUBREL", msgId |-> p.msgId]
           next(r) == IF r \in Answered({"PUBLISH"}, p.msgId) THEN release ELSE r
<1>1. clientQ # <<>> /\ clientQ' = Tail(clientQ) /\ UNCHANGED <<client, brokerQ, left>>
  BY DEF DeviceTakes
<1>2. packetQ' = Append(packetQ, FromDevice(release))
  BY DEF DeviceTakes, DeviceSends
<1>3. dev' = [dev EXCEPT !.requests =
                 {IF r \in Answered({"PUBLISH"}, p.msgId) THEN release ELSE r : r \in @}]
  BY DEF DeviceTakes
<1>4. dev = [state |-> dev.state, ids |-> dev.ids, requests |-> dev.requests,
             got |-> dev.got, receiving |-> dev.receiving]
  BY DEF IInv, Shapes
<1>5. /\ dev'.state = dev.state /\ dev'.ids = dev.ids
      /\ dev'.requests = {next(r) : r \in dev.requests}
      /\ dev' = [state |-> dev'.state, ids |-> dev'.ids, requests |-> dev'.requests,
                 got |-> dev'.got, receiving |-> dev'.receiving]
  BY <1>3, <1>4
<1>6. \A r \in dev.requests : next(r).msgId = r.msgId /\ (next(r) = r \/ next(r).type = "PUBREL")
  BY DEF Answered
<1>7. RequestsRight(dev.requests, topics, Used) /\ Held(dev.ids, topics)
  BY DEF IInv, Waiting
<1>8. release.type = "PUBREL" /\ release.type \notin SessionTypes \cup Asked
  BY DEF SessionTypes, Asked
<1> HIDE DEF next, release, p
<1>9. \A s \in dev'.requests : \E r \in dev.requests : s = next(r)
  BY <1>5
<1>10. \A s \in dev'.requests : s \in dev.requests \/ s.type = "PUBREL"
  BY <1>6, <1>9
<1>11. RequestsRight(dev'.requests, topics, Used)
  <2>1. ASSUME NEW s \in dev'.requests
        PROVE  s.type \in Asked \cup {"PUBREL"} /\ s.msgId \in 1..Used /\ AskedRight(s, topics)
    <3>1. PICK r \in dev.requests : s = next(r)
      BY <1>9
    <3>2. r.type \in Asked \cup {"PUBREL"} /\ r.msgId \in 1..Used /\ AskedRight(r, topics)
      BY <1>7 DEF RequestsRight
    <3>3. CASE s = r
      BY <3>2, <3>3
    <3>4. CASE s.type = "PUBREL"
      BY <1>6, <3>1, <3>2, <3>4 DEF AskedRight
    <3> QED
      BY <1>6, <3>1, <3>3, <3>4
  <2>2. ASSUME NEW s \in dev'.requests, NEW t \in dev'.requests, s.msgId = t.msgId
        PROVE  s = t
    <3>1. PICK r \in dev.requests : s = next(r)
      BY <1>9
    <3>2. PICK q \in dev.requests : t = next(q)
      BY <1>9
    <3>3. r.msgId = q.msgId
      BY <1>6, <2>2, <3>1, <3>2
    <3>4. r = q
      BY <1>7, <3>3 DEF RequestsRight
    <3> QED
      BY <3>1, <3>2, <3>4
  <2> QED
    BY <2>1, <2>2 DEF RequestsRight
<1>12. Fresh(dev) => Fresh(dev')
  BY <1>5, <1>9 DEF Fresh
<1> QED
  BY <1>1, <1>2, <1>5, <1>7, <1>8, <1>10, <1>11, <1>12, DeviceGoes

(* The first packet on its way to the device is right.                     *)
LEMMA AnswerTaken ==
    ASSUME IInv, clientQ # <<>>
    PROVE  /\ AnswerRight(Head(clientQ), dev.requests, topics, Used)
           /\ DownRight(Head(clientQ)) /\ Fits(Head(clientQ).type, dev.state)
<1>1. Head(clientQ) \in ToSet(clientQ)
  BY QueueTail DEF IInv, Shapes
<1> QED
  BY <1>1 DEF IInv, Shapes, Waiting, AnswersAllRight, Sessions, SessionsApart

(* The device takes a REGACK: it holds the id the gateway gave the name.   *)
LEMMA DeviceTakesRegack ==
    ASSUME Sound, IInv, DeviceTakes, Head(clientQ).type = "REGACK"
    PROVE  IInv'
<1> DEFINE p == Head(clientQ)
           answered == Answered({"REGISTER"}, p.msgId)
           new == [n \in Long |-> IF \E r \in answered : r.name = n THEN p.id ELSE dev.ids[n]]
<1>1. /\ clientQ # <<>> /\ clientQ' = Tail(clientQ) /\ packetQ' = packetQ
      /\ UNCHANGED <<client, brokerQ, left>>
  BY DEF DeviceTakes
<1>2. dev' = [dev EXCEPT !.requests = @ \ answered,
                         !.ids = [n \in Long |-> IF \E r \in answered : r.name = n
                                                 THEN p.id ELSE @[n]]]
  BY DEF DeviceTakes
<1>3. dev = [state |-> dev.state, ids |-> dev.ids, requests |-> dev.requests,
             got |-> dev.got, receiving |-> dev.receiving]
  BY DEF IInv, Shapes
<1>4. /\ dev'.state = dev.state /\ dev'.ids = new /\ dev'.requests = dev.requests \ answered
      /\ dev' = [state |-> dev'.state, ids |-> dev'.ids, requests |-> dev'.requests,
                 got |-> dev'.got, receiving |-> dev'.receiving]
  BY <1>2, <1>3
<1>5. \A r \in answered : /\ HasId(topics, r.name, p.id) /\ r.name \notin Filters
                          /\ r \in dev.requests
  <2>1. ASSUME NEW r \in answered
        PROVE  HasId(topics, r.name, p.id) /\ r.name \notin Filters /\ r \in dev.requests
    <3>1. r \in dev.requests /\ r.type = "REGISTER" /\ r.msgId = p.msgId
      BY DEF Answered
    <3>2. AskedRight(r, topics)
      BY <3>1 DEF IInv, Waiting, RequestsRight
    <3>3. HasId(topics, r.name, p.id)
      BY <1>1, <3>1, AnswerTaken DEF AnswerRight
    <3> QED
      BY <3>1, <3>2, <3>3 DEF AskedRight
  <2> QED
    BY <2>1
<1>6. ASSUME NEW n \in Long
      PROVE  \/ new[n] = p.id /\ \E r \in answered : r.name = n
             \/ new[n] = dev.ids[n]
  <2>1. CASE \E r \in answered : r.name = n
    BY <2>1
  <2>2. CASE ~ \E r \in answered : r.name = n
    BY <2>2
  <2> QED
    BY <2>1, <2>2
<1> HIDE DEF new, answered, p
<1>7. Held(dev.ids, topics)
  BY DEF IInv, Waiting
<1>8. Held(dev'.ids, topics)
  <2>1. ASSUME NEW n \in Long, new[n] # 0 PROVE HasId(topics, n, new[n]) /\ n \notin Filters
    <3>1. CASE new[n] = dev.ids[n]
      BY <1>7, <2>1, <3>1 DEF Held
    <3>2. CASE new[n] = p.id /\ \E r \in answered : r.name = n
      BY <1>5, <3>2
    <3> QED
      BY <1>6, <3>1, <3>2
  <2> QED
    BY <1>4, <2>1 DEF Held
<1>9. \A r \in dev'.requests : r \in dev.requests
  BY <1>4
<1>10. RequestsRight(dev'.requests, topics, Used) /\ (dev.requests = {} => dev'.requests = {})
  BY <1>9, FewerRequests
<1>11. Fresh(dev) => Fresh(dev')
  BY <1>4, <1>5, <1>6, <1>10 DEF Fresh
<1>12. PICK m : m = [type |-> "PUBREL"]
  OBVIOUS
<1>13. m.type \notin SessionTypes \cup Asked
  BY <1>12 DEF SessionTypes, Asked
<1> QED
  BY <1>1, <1>4, <1>8, <1>9, <1>10, <1>11, <1>13, DeviceGoes

(* The device takes a SUBACK: an accepted one has the id of the name.      *)
LEMMA DeviceTakesSuback ==
    ASSUME Sound, IInv, DeviceTakes, Head(clientQ).type = "SUBACK"
    PROVE  IInv'
<1> DEFINE p == Head(clientQ)
           answered == Answered({"SUBSCRIBE"}, p.msgId)
           names == {n \in Long : p.id # 0 /\ \E r \in answered :
                                      r.ref.type = "normal" /\ r.ref.name = n}
           new == [n \in Long |-> IF p.id # 0 /\ \E r \in answered :
                                          r.ref.type = "normal" /\ r.ref.name = n
                                  THEN p.id ELSE dev.ids[n]]
<1>1. /\ clientQ # <<>> /\ clientQ' = Tail(clientQ) /\ packetQ' = packetQ
      /\ UNCHANGED <<client, brokerQ, left>>
  BY DEF DeviceTakes
<1>2. dev' = [dev EXCEPT !.requests = @ \ answered,
                         !.ids = [n \in Long |-> IF p.id # 0 /\ \E r \in answered :
                                                        r.ref.type = "normal" /\ r.ref.name = n
                                                 THEN p.id ELSE @[n]]]
  BY DEF DeviceTakes
<1>3. dev = [state |-> dev.state, ids |-> dev.ids, requests |-> dev.requests,
             got |-> dev.got, receiving |-> dev.receiving]
  BY DEF IInv, Shapes
<1>4. /\ dev'.state = dev.state /\ dev'.ids = new /\ dev'.requests = dev.requests \ answered
      /\ dev' = [state |-> dev'.state, ids |-> dev'.ids, requests |-> dev'.requests,
                 got |-> dev'.got, receiving |-> dev'.receiving]
  BY <1>2, <1>3
<1>5. \A n \in Long : new[n] = IF n \in names THEN p.id ELSE dev.ids[n]
  OBVIOUS
<1>6. ASSUME NEW n \in names
      PROVE  HasId(topics, n, p.id) /\ n \notin Filters /\ dev.requests # {}
  <2>1. PICK r \in answered : p.id # 0 /\ r.ref.type = "normal" /\ r.ref.name = n
    OBVIOUS
  <2>2. r \in dev.requests /\ r.type = "SUBSCRIBE" /\ r.msgId = p.msgId
    BY DEF Answered
  <2>3. SubackRight(p, r, topics)
    BY <1>1, <2>2, AnswerTaken DEF AnswerRight
  <2>4. AskedRight(r, topics)
    BY <2>2 DEF IInv, Waiting, RequestsRight
  <2>5. r.ref.id = 0
    BY <2>1, <2>2, <2>4 DEF AskedRight
  <2> HIDE DEF p
  <2> QED
    BY <2>1, <2>2, <2>3, <2>5 DEF SubackRight, SubscribedId
<1> HIDE DEF new, answered, names, p
<1>7. Held(dev.ids, topics)
  BY DEF IInv, Waiting
<1>8. Held(dev'.ids, topics)
  BY <1>4, <1>5, <1>6, <1>7 DEF Held
<1>9. \A r \in dev'.requests : r \in dev.requests
  BY <1>4
<1>10. RequestsRight(dev'.requests, topics, Used) /\ (dev.requests = {} => dev'.requests = {})
  BY <1>9, FewerRequests
<1>11. Fresh(dev) => Fresh(dev')
  BY <1>4, <1>5, <1>6, <1>10 DEF Fresh
<1>12. PICK m : m = [type |-> "PUBREL"]
  OBVIOUS
<1>13. m.type \notin SessionTypes \cup Asked
  BY <1>12 DEF SessionTypes, Asked
<1> QED
  BY <1>1, <1>4, <1>8, <1>9, <1>10, <1>11, <1>13, DeviceGoes

(* A device that is settled waits for no session message.                  *)
LEMMA Settled ==
    ASSUME IInv, dev.state \notin {"connecting", "resting"}
    PROVE  /\ \A e \in ToSet(packetQ) : e.packet.type \notin SessionTypes
           /\ \A p \in ToSet(brokerQ) : p.type \notin SessionTypes
           /\ \A p \in ToSet(clientQ) : p.type \notin SessionTypes
  BY DEF IInv, Sessions, SessionsApart, Fits, SessionTypes

(* The device takes the answer to its CONNECT or DISCONNECT.               *)
LEMMA DeviceTakesSession ==
    ASSUME Sound, IInv, DeviceTakes, Head(clientQ).type \in {"CONNACK", "DISCONNECT", "PINGRESP"}
    PROVE  IInv'
<1> DEFINE p == Head(clientQ)
<1>1. /\ clientQ # <<>> /\ clientQ' = Tail(clientQ) /\ packetQ' = packetQ
      /\ UNCHANGED <<client, brokerQ, left>>
  BY DEF DeviceTakes
<1>2. dev = [state |-> dev.state, ids |-> dev.ids, requests |-> dev.requests,
             got |-> dev.got, receiving |-> dev.receiving]
  BY DEF IInv, Shapes
<1>3. /\ dev'.ids = dev.ids /\ dev'.requests = dev.requests
      /\ dev' = [state |-> dev'.state, ids |-> dev'.ids, requests |-> dev'.requests,
                 got |-> dev'.got, receiving |-> dev'.receiving]
      /\ p.type = "CONNACK" => dev'.state = "active"
      /\ p.type = "DISCONNECT" => dev'.state = "asleep"
      /\ p.type = "PINGRESP" => dev'.state = IF dev.state = "awake" THEN "asleep" ELSE dev.state
  <2>1. CASE p.type = "CONNACK"
    <3>1. dev' = [dev EXCEPT !.state = "active"]
      BY <2>1 DEF DeviceTakes
    <3> QED
      BY <1>2, <2>1, <3>1
  <2>2. CASE p.type = "DISCONNECT"
    <3>1. dev' = [dev EXCEPT !.state = "asleep"]
      BY <2>2 DEF DeviceTakes
    <3> QED
      BY <1>2, <2>2, <3>1
  <2>3. CASE p.type = "PINGRESP"
    <3>1. dev' = [dev EXCEPT !.state = IF @ = "awake" THEN "asleep" ELSE @]
      BY <2>3 DEF DeviceTakes
    <3> QED
      BY <1>2, <2>3, <3>1
  <2> QED
    BY <2>1, <2>2, <2>3
<1>4. /\ Queue(packetQ) /\ Queue(brokerQ) /\ Queue(clientQ)
      /\ SessionsApart(packetQ, brokerQ, clientQ, dev.state)
  BY DEF IInv, Shapes, Sessions
<1>5. /\ Queue(clientQ') /\ ToSet(clientQ') \subseteq ToSet(clientQ) /\ p \in ToSet(clientQ)
      /\ MessagesOnce(clientQ')
  BY <1>1, <1>4, QueueTail, MessagesTail DEF SessionsApart
<1>6. dev'.state # dev.state =>
          /\ \A e \in ToSet(packetQ) : e.packet.type \notin SessionTypes
          /\ \A x \in ToSet(brokerQ) : x.type \notin SessionTypes
          /\ \A x \in ToSet(clientQ') : x.type \notin SessionTypes
  <2>1. CASE p.type = "PINGRESP"
    <3>1. dev'.state # dev.state => dev.state \notin {"connecting", "resting"}
      BY <1>3, <2>1
    <3> QED
      BY <1>5, <3>1, Settled
  <2>2. CASE p.type \in {"CONNACK", "DISCONNECT"}
    <3>1. p.type \in SessionTypes
      BY <2>2 DEF SessionTypes
    <3>2. \A x \in ToSet(clientQ') : x.type \notin SessionTypes
      BY <1>1, <1>4, <3>1, MessagesTail DEF SessionsApart
    <3>3. /\ \A e \in ToSet(packetQ) : e.packet.type \notin SessionTypes
          /\ \A x \in ToSet(brokerQ) : x.type \notin SessionTypes
      BY <1>4, <1>5, <3>1 DEF SessionsApart
    <3> QED
      BY <3>2, <3>3
  <2> QED
    BY <2>1, <2>2
<1> HIDE DEF p
<1>7. \A type : type \notin SessionTypes => Fits(type, dev'.state)
  BY DEF SessionTypes, Fits
<1>8. SessionsApart(packetQ, brokerQ, clientQ', dev'.state)
  <2>1. CASE dev'.state = dev.state
    BY <1>4, <1>5, <2>1 DEF SessionsApart
  <2>2. CASE dev'.state # dev.state
    BY <1>4, <1>5, <1>6, <1>7, <2>2 DEF SessionsApart
  <2> QED
    BY <2>1, <2>2
<1>9. Sessions'
  BY <1>1, <1>3, <1>8 DEF IInv, Sessions, Fresh
<1>10. /\ Queue(saved') /\ (\A x \in ToSet(saved') : x.type = "PUBLISH")
       /\ (\A x \in ToSet(clientQ') : DownRight(x))
       /\ (\A x \in ToSet(brokerQ') : UpRight(x))
       /\ left' = [requests |-> left'.requests, faults |-> left'.faults, rests |-> left'.rests]
       /\ left'.requests = left.requests /\ Held(dev'.ids, topics)
       /\ UNCHANGED <<topics, pubMap, subMap>>
  BY <1>1, <1>3, <1>5 DEF IInv, Shapes, Waiting, client
<1> QED
  BY <1>1, <1>3, <1>4, <1>5, <1>9, <1>10, Moving

(* The device takes a packet.                                              *)
LEMMA DeviceTakesStep ==
    ASSUME Sound, IInv, DeviceTakes
    PROVE  IInv'
<1>1. DownRight(Head(clientQ))
  BY AnswerTaken DEF DeviceTakes
<1> QED
  BY <1>1, DeviceTakesPlain, DeviceTakesPubrec, DeviceTakesRegack, DeviceTakesSuback,
     DeviceTakesSession DEF DownRight

(* The device sleeps, wakes up for its packets or begins a new session.    *)
LEMMA DeviceRestsStep ==
    ASSUME Sound, IInv, DeviceRests
    PROVE  IInv'
<1>1. /\ left' = [left EXCEPT !.rests = @ - 1] /\ UNCHANGED <<client, brokerQ, clientQ>>
      /\ dev.state \in {"active", "asleep", "awake"}
  BY SoundParts DEF DeviceRests, PubSubAssumption
<1>2. /\ dev = [state |-> dev.state, ids |-> dev.ids, requests |-> dev.requests,
                got |-> dev.got, receiving |-> dev.receiving]
      /\ left = [requests |-> left.requests, faults |-> left.faults, rests |-> left.rests]
  BY DEF IInv, Shapes
<1>3. PICK p : /\ packetQ' = Append(packetQ, FromDevice(p))
               /\ p.type \in {"DISCONNECT", "PINGREQ", "CONNECT"}
               /\ Fits(p.type, dev'.state)
               /\ dev' = [state |-> dev'.state, ids |-> dev'.ids, requests |-> dev'.requests,
                          got |-> dev'.got, receiving |-> dev'.receiving]
               /\ \A r \in dev'.requests : r \in dev.requests
               /\ \A n \in Long : dev'.ids[n] = dev.ids[n] \/ dev'.ids[n] = 0
               /\ Clean(p) => Fresh(dev')
  <2>1. CASE packetQ' = Append(packetQ, FromDevice([type |-> "DISCONNECT"]))
             /\ dev' = [dev EXCEPT !.state = "resting"]
    <3>1. PICK p : p = [type |-> "DISCONNECT"]
      OBVIOUS
    <3>2. packetQ' = Append(packetQ, FromDevice(p)) /\ p.type = "DISCONNECT"
      BY <2>1, <3>1
    <3>3. /\ dev'.state = "resting" /\ dev'.ids = dev.ids /\ dev'.requests = dev.requests
          /\ dev' = [state |-> dev'.state, ids |-> dev'.ids, requests |-> dev'.requests,
                     got |-> dev'.got, receiving |-> dev'.receiving]
      BY <1>2, <2>1
    <3>4. Fits(p.type, dev'.state) /\ ~Clean(p)
      BY <3>2, <3>3 DEF Fits, Clean
    <3> QED
      BY <3>2, <3>3, <3>4
  <2>2. CASE packetQ' = Append(packetQ, FromDevice([type |-> "PINGREQ"]))
             /\ dev' = [dev EXCEPT !.state = "awake"]
    <3>1. PICK p : p = [type |-> "PINGREQ"]
      OBVIOUS
    <3>2. packetQ' = Append(packetQ, FromDevice(p)) /\ p.type = "PINGREQ"
      BY <2>2, <3>1
    <3>3. /\ dev'.state = "awake" /\ dev'.ids = dev.ids /\ dev'.requests = dev.requests
          /\ dev' = [state |-> dev'.state, ids |-> dev'.ids, requests |-> dev'.requests,
                     got |-> dev'.got, receiving |-> dev'.receiving]
      BY <1>2, <2>2
    <3>4. Fits(p.type, dev'.state) /\ ~Clean(p)
      BY <3>2, <3>3 DEF Fits, Clean
    <3> QED
      BY <3>2, <3>3, <3>4
  <2>3. CASE packetQ' = Append(packetQ, FromDevice([type |-> "CONNECT", clean |-> TRUE]))
             /\ dev' = [dev EXCEPT !.state = "connecting", !.requests = {},
                                   !.receiving = {}, !.ids = [n \in Long |-> 0]]
    <3>1. PICK p : p = [type |-> "CONNECT", clean |-> TRUE]
      OBVIOUS
    <3>2. packetQ' = Append(packetQ, FromDevice(p)) /\ p.type = "CONNECT"
      BY <2>3, <3>1
    <3>3. /\ dev'.state = "connecting" /\ dev'.ids = [n \in Long |-> 0] /\ dev'.requests = {}
          /\ dev' = [state |-> dev'.state, ids |-> dev'.ids, requests |-> dev'.requests,
                     got |-> dev'.got, receiving |-> dev'.receiving]
      BY <1>2, <2>3
    <3>4. Fits(p.type, dev'.state) /\ Fresh(dev')
      BY <3>2, <3>3 DEF Fits, Fresh
    <3> QED
      BY <3>2, <3>3, <3>4
  <2>4. CASE packetQ' = Append(packetQ, FromDevice([type |-> "CONNECT", clean |-> FALSE]))
             /\ dev' = [dev EXCEPT !.state = "connecting"]
    <3>1. PICK p : p = [type |-> "CONNECT", clean |-> FALSE]
      OBVIOUS
    <3>2. packetQ' = Append(packetQ, FromDevice(p)) /\ p.type = "CONNECT" /\ ~p.clean
      BY <2>4, <3>1
    <3>3. /\ dev'.state = "connecting" /\ dev'.ids = dev.ids /\ dev'.requests = dev.requests
          /\ dev' = [state |-> dev'.state, ids |-> dev'.ids, requests |-> dev'.requests,
                     got |-> dev'.got, receiving |-> dev'.receiving]
      BY <1>2, <2>4
    <3>4. Fits(p.type, dev'.state) /\ ~Clean(p)
      BY <3>2, <3>3 DEF Fits, Clean
    <3> QED
      BY <3>2, <3>3, <3>4
  <2> QED
    BY <2>1, <2>2, <2>3, <2>4 DEF DeviceRests, DeviceSends
<1>4. /\ \A e \in ToSet(packetQ) : e.packet.type \notin SessionTypes
      /\ \A x \in ToSet(brokerQ) : x.type \notin SessionTypes
      /\ \A x \in ToSet(clientQ) : x.type \notin SessionTypes
  BY <1>1, Settled
<1>5. PICK e : e = FromDevice(p)
  OBVIOUS
<1>6. packetQ' = Append(packetQ, e) /\ e.packet = p /\ p.type \notin Asked
  BY <1>3, <1>5 DEF FromDevice, Asked
<1>7. /\ Queue(packetQ) /\ Queue(brokerQ) /\ Queue(clientQ)
      /\ SessionsApart(packetQ, brokerQ, clientQ, dev.state)
  BY DEF IInv, Shapes, Sessions
<1>8. Queue(packetQ') /\ ToSet(packetQ') = ToSet(packetQ) \cup {e}
  BY <1>6, <1>7, QueueAppend
<1>9. PacketsOnce(packetQ') /\ NothingBehind(packetQ')
  BY <1>4, <1>6, <1>7, PacketsAppend DEF SessionsApart
<1>10. \A type : type \notin SessionTypes => Fits(type, dev'.state)
  BY DEF SessionTypes, Fits
<1>11. Fits(e.packet.type, dev'.state)
  BY <1>3, <1>6
<1>12. SessionsApart(packetQ', brokerQ, clientQ, dev'.state)
  BY <1>4, <1>7, <1>8, <1>9, <1>10, <1>11 DEF SessionsApart
<1>13. Sessions'
  <2>1. \A x \in ToSet(packetQ') : Clean(x.packet) => x = e
    BY <1>4, <1>8 DEF Clean, SessionTypes
  <2> QED
    BY <1>1, <1>3, <1>6, <1>12, <2>1 DEF Sessions
<1>14. Held(dev'.ids, topics)
  BY <1>3 DEF IInv, Waiting, Held
<1>15. /\ Queue(saved') /\ (\A x \in ToSet(saved') : x.type = "PUBLISH")
       /\ Queue(clientQ') /\ (\A x \in ToSet(clientQ') : DownRight(x))
       /\ (\A x \in ToSet(clientQ') : x \in ToSet(clientQ))
       /\ Queue(brokerQ') /\ (\A x \in ToSet(brokerQ') : UpRight(x))
       /\ UNCHANGED <<topics, pubMap, subMap>>
  BY <1>1 DEF IInv, Shapes, client
<1>16. /\ left' = [requests |-> left'.requests, faults |-> left'.faults, rests |-> left'.rests]
       /\ left'.requests = left.requests
  BY <1>1, <1>2
<1>17. \A x \in ToSet(packetQ') : x \in ToSet(packetQ) \/ x.packet.type \notin Asked
  BY <1>6, <1>8
<1> QED
  BY <1>3, <1>8, <1>13, <1>14, <1>15, <1>16, <1>17, Moving
-----------------------------------------------------------------------------
(* The invariant                                                           *)

(* The invariant holds at the start.                                       *)
LEMMA InitInv ==
    ASSUME Sound, Init
    PROVE  IInv
<1>1. /\ topics = NoTopics /\ pubMap = NoElements /\ subMap = NoElements
      /\ saved = <<>> /\ packetQ = <<>> /\ brokerQ = <<>> /\ clientQ = <<>>
      /\ dev = [state |-> "active", ids |-> [n \in Long |-> 0],
                requests |-> {}, got |-> <<>>, receiving |-> {}]
      /\ left = [requests |-> MaxRequests, faults |-> MaxFaults, rests |-> MaxRests]
  BY DEF Init
<1>2. /\ dev.state = "active" /\ dev.requests = {} /\ (\A n \in Long : dev.ids[n] = 0)
      /\ dev = [state |-> dev.state, ids |-> dev.ids, requests |-> dev.requests,
                got |-> dev.got, receiving |-> dev.receiving]
      /\ left = [requests |-> left.requests, faults |-> left.faults, rests |-> left.rests]
      /\ left.requests = MaxRequests /\ MaxRequests \in 0..MaxRequests
  <2>1. MaxRequests \in Nat
    BY SoundParts
  <2> QED
    BY <1>1, <2>1
<1>3. Queue(<<>>) /\ ToSet(<<>>) = {} /\ Len(<<>>) = 0
  BY QueueEmpty
<1>4. Shapes
  BY <1>1, <1>2, <1>3 DEF Shapes
<1>5. TableSound(topics)
  <2>1. NoTopics.list = <<>> /\ NoTopics.nextId = 0 /\ NoTopics = [list |-> <<>>, nextId |-> 0]
    BY DEF NoTopics
  <2>2. MaxTid \in Nat
    BY SoundParts
  <2>3. <<>> \in Seq(Topic)
    BY EmptySeq
  <2> QED
    BY <1>1, <1>3, <2>1, <2>2, <2>3 DEF TableSound
<1>6. MapSound(NoElements) /\ ToSet(NoElements.list) = {}
  BY EmptyMap, SoundParts
<1>7. Waiting
  BY <1>1, <1>2, <1>3, <1>6
     DEF Waiting, RequestsRight, PacketsRight, PubMapRight, SubMapRight, AnswersAllRight, Held
<1>8. Sessions
  BY <1>1, <1>3 DEF Sessions, SessionsApart, PacketsOnce, MessagesOnce, NothingBehind
<1> QED
  BY <1>1, <1>4, <1>5, <1>6, <1>7, <1>8 DEF IInv, Tables

(* Every step keeps the invariant.                                         *)
LEMMA StepInv ==
    ASSUME Sound, IInv, [Next]_vars
    PROVE  IInv'
<1>1. CASE UNCHANGED vars
  <2>1. UNCHANGED <<status, topics, pubMap, subMap, saved, packetQ, brokerQ, clientQ, dev, srv, left>>
    BY <1>1 DEF vars, client, queues
  <2> QED
    BY <2>1 DEF IInv, Shapes, Tables, Waiting, Sessions, Used
<1>2. CASE PacketHandle
  <2>1. CASE DevicePublish \/ DeviceRegister \/ DeviceSubscribe \/ DeviceUnsubscribe
    BY <2>1, DevicePublishStep, DeviceRegisterStep, DeviceSubscribeStep, DeviceUnsubscribeStep
  <2>2. CASE \E type \in {"PUBACK", "PUBREC", "PUBREL", "PUBCOMP"} : DeviceAck(type)
    BY <2>2, DeviceAckStep
  <2>3. CASE BrokerPublish \/ BrokerPuback \/ BrokerSuback \/ BrokerUnsuback
    BY <2>3, BrokerPublishStep, BrokerPubackStep, BrokerSubackStep, BrokerUnsubackStep
  <2>4. CASE \E type \in {"PUBREC", "PUBREL", "PUBCOMP"} : BrokerAck(type)
    BY <2>4, BrokerAckStep
  <2>5. CASE Connect
    BY <2>5, WakingStep, NewSessionStep, SameSessionStep
  <2>6. CASE Connack \/ Sleep \/ Pingreq \/ Pingresp
    BY <2>6, ConnackStep, SleepStep, PingreqStep, PingrespStep
  <2> QED
    BY <1>2, <2>1, <2>2, <2>3, <2>4, <2>5, <2>6 DEF PacketHandle
<1>3. CASE ServerTakes
  BY <1>3, ServerTakesStep
<1>4. CASE \E pub \in Publications : ServerPublishes(pub)
  BY <1>4, ServerPublishesStep
<1>5. CASE DeviceAsks \/ DeviceRetries \/ Lost \/ DeviceTakes \/ DeviceRests
  BY <1>5, DeviceAsksStep, DeviceRetriesStep, LostStep, DeviceTakesStep, DeviceRestsStep
<1> QED
  BY <1>1, <1>2, <1>3, <1>4, <1>5 DEF Next

(* The invariant always holds.                                             *)
LEMMA Always ==
    ASSUME Sound
    PROVE  Spec => []IInv
<1>1. Init => IInv
  BY InitInv
<1>2. IInv /\ [Next]_vars => IInv'
  BY StepInv
<1> QED
  BY <1>1, <1>2, PTL DEF Spec

(* The answers on their way carry the id of what the device asked.         *)
LEMMA AnswersFollow ==
    ASSUME Sound, IInv
    PROVE  AnswersRight
<1>1. ListAssumption /\ TableSound(topics) /\ Queue(clientQ)
  BY SoundParts DEF IInv, Tables, Shapes
<1> SUFFICES ASSUME NEW i \in 1..Len(clientQ)
             PROVE  LET p == clientQ[i]
                    IN  /\ p.type = "PUBACK" =>
                             \A r \in Requested("PUBLISH", p.msgId) : p.id = ReadId(r.ref)
                        /\ p.type = "SUBACK" /\ p.rc = "accepted" =>
                             \A r \in Requested("SUBSCRIBE", p.msgId) :
                                 CASE r.ref.type # "normal" -> p.id = r.ref.id
                                   [] r.ref.type = "normal" /\ r.ref.name \in Filters -> p.id = 0
                                   [] OTHER -> p.id = topics.list[TopicByName(topics, r.ref.name)].id
                        /\ p.type = "REGACK" =>
                             \A r \in Requested("REGISTER", p.msgId) :
                                 /\ TopicById(topics, "normal", p.id) # 0
                                 /\ topics.list[TopicById(topics, "normal", p.id)].name = r.name
  BY DEF AnswersRight
<1> DEFINE p == clientQ[i]
<1>2. AnswerRight(p, dev.requests, topics, Used)
  BY <1>1, QueueElements DEF IInv, Waiting, AnswersAllRight
<1> HIDE DEF p
<1>3. ASSUME p.type = "PUBACK", NEW r \in Requested("PUBLISH", p.msgId)
      PROVE  p.id = ReadId(r.ref)
  BY <1>2, <1>3 DEF AnswerRight, Requested
<1>4. ASSUME p.type = "SUBACK", p.rc = "accepted", NEW r \in Requested("SUBSCRIBE", p.msgId)
      PROVE  CASE r.ref.type # "normal" -> p.id = r.ref.id
               [] r.ref.type = "normal" /\ r.ref.name \in Filters -> p.id = 0
               [] OTHER -> p.id = topics.list[TopicByName(topics, r.ref.name)].id
  <2>1. SubackRight(p, r, topics)
    BY <1>2, <1>4 DEF AnswerRight, Requested
  <2>2. CASE r.ref.type # "normal"
    <3>1. p.id = r.ref.id
      BY <1>4, <2>1, <2>2 DEF SubackRight, SubscribedId
    <3> QED
      BY <2>2, <3>1
  <2>3. CASE r.ref.type = "normal" /\ r.ref.name \in Filters
    BY <1>4, <2>1, <2>3 DEF SubackRight
  <2>4. CASE r.ref.type = "normal" /\ r.ref.name \notin Filters
    <3>1. HasId(topics, r.ref.name, p.id)
      BY <1>4, <2>1, <2>4 DEF SubackRight, SubscribedId
    <3>2. topics.list[TopicByName(topics, r.ref.name)]
             = [name |-> r.ref.name, type |-> "normal", id |-> p.id]
      BY <1>1, <3>1, HasIdFound
    <3> QED
      BY <2>4, <3>2
  <2> QED
    BY <2>2, <2>3, <2>4
<1>5. ASSUME p.type = "REGACK", NEW r \in Requested("REGISTER", p.msgId)
      PROVE  /\ TopicById(topics, "normal", p.id) # 0
             /\ topics.list[TopicById(topics, "normal", p.id)].name = r.name
  <2>1. HasId(topics, r.name, p.id)
    BY <1>2, <1>5 DEF AnswerRight, Requested
  <2>2. /\ TopicById(topics, "normal", p.id) # 0
        /\ topics.list[TopicById(topics, "normal", p.id)]
              = [name |-> r.name, type |-> "normal", id |-> p.id]
    BY <1>1, <2>1, HasIdFound
  <2> QED
    BY <2>2
<1> QED
  BY <1>3, <1>4, <1>5 DEF p

(* What the device holds is in the gateway's table.                        *)
LEMMA RegistrationFollows ==
    ASSUME Sound, IInv
    PROVE  RegistrationHolds
<1>1. ListAssumption /\ TableSound(topics) /\ Held(dev.ids, topics)
  BY SoundParts DEF IInv, Tables, Waiting
<1>2. ASSUME NEW n \in Long, dev.ids[n] # 0
      PROVE  /\ TopicById(topics, "normal", dev.ids[n]) # 0
             /\ topics.list[TopicById(topics, "normal", dev.ids[n])].name = n
  <2>1. HasId(topics, n, dev.ids[n])
    BY <1>1, <1>2 DEF Held
  <2>2. /\ TopicById(topics, "normal", dev.ids[n]) # 0
        /\ topics.list[TopicById(topics, "normal", dev.ids[n])]
              = [name |-> n, type |-> "normal", id |-> dev.ids[n]]
    BY <1>1, <2>1, HasIdFound
  <2> QED
    BY <2>2
<1> QED
  BY <1>2 DEF RegistrationHolds

(* What goes to the broker has its topic.                                  *)
LEMMA TopicFollows ==
    ASSUME Sound, IInv
    PROVE  TopicNamed
<1>1. Queue(brokerQ) /\ "" \notin TopicNames
  BY SoundParts DEF IInv, Shapes
<1>2. \A i \in 1..Len(brokerQ) : UpRight(brokerQ[i])
  BY <1>1, QueueElements DEF IInv, Shapes
<1> QED
  BY <1>1, <1>2 DEF TopicNamed, UpRight

(* The maps keep to their limit.                                           *)
LEMMA BoundsFollow ==
    ASSUME IInv
    PROVE  MapsBounded
  BY DEF IInv, Tables, MapSound, MapsBounded

-----------------------------------------------------------------------------
(* Publications of the device: what is ahead of them                       *)

Second(p) == p.type = "PUBLISH" /\ p.qos = 2

\* Behind p no PUBLISH x may come: its PUBREL was sent, or a clean session is asked for.
Bars(p, x) == Second(x) /\ (Clean(p) \/ (p.type = "PUBREL" /\ p.msgId = x.msgId))

DevicePackets(q) == {e.packet : e \in {d \in ToSet(q) : d.from = "device"}}

\* From the broker to the device: its queue, the packets before it, the requests.
Line(up, packets, requests) == ToSet(up) \cup DevicePackets(packets) \cup requests

Ordered(up, packets, requests) ==
    /\ \A i, j \in 1..Len(up) : i < j => ~Bars(up[i], up[j])
    /\ \A i, j \in 1..Len(packets) :
           i < j /\ packets[i].from = "device" /\ packets[j].from = "device"
           => ~Bars(packets[i].packet, packets[j].packet)
    /\ \A p \in ToSet(up) : \A x \in DevicePackets(packets) \cup requests : ~Bars(p, x)
    /\ \A p \in DevicePackets(packets) : \A x \in requests : ~Bars(p, x)

\* Neither a PUBLISH nor what bars one.
Plain(p) == p.type \notin {"PUBLISH", "PUBREL"} /\ ~Clean(p)

\* The same packet, as it is sent to the broker.
Like(y, x) ==
    \/ y = x
    \/ /\ y.type = "PUBLISH" /\ x.type = "PUBLISH" /\ y.n = x.n
       /\ (y.qos = 2) <=> (x.qos = 2)
       /\ y.qos = 2 => y.msgId = x.msgId
    \/ y.type = "PUBREL" /\ x.type = "PUBREL" /\ y.msgId = x.msgId
    \/ y.type = "CONNECT" /\ x.type = "CONNECT" /\ (y.clean <=> x.clean)

(* What is alike bars alike.                                               *)
LEMMA Alike ==
    ASSUME NEW x, NEW y, Like(y, x)
    PROVE  /\ \A p : Bars(p, y) => Bars(p, x)
           /\ \A p : Bars(y, p) => Bars(x, p)
           /\ y.type = x.type /\ (Second(y) => Second(x) /\ y.msgId = x.msgId)
  BY DEF Like, Bars, Second, Clean

(* What is plain bars nothing and is not barred.                           *)
LEMMA Plainly ==
    ASSUME NEW x, Plain(x)
    PROVE  /\ \A p : ~Bars(p, x) /\ ~Bars(x, p)
           /\ ~Second(x)
  BY DEF Plain, Bars, Second

(* The device's packets of a queue that lost its first.                    *)
LEMMA PacketsOfTail ==
    ASSUME NEW q, Queue(q), q # <<>>
    PROVE  /\ DevicePackets(Tail(q)) \subseteq DevicePackets(q)
           /\ Head(q).from = "device" => Head(q).packet \in DevicePackets(q)
  BY QueueTail DEF DevicePackets

(* The device's packets of a queue that got one.                           *)
LEMMA PacketsOfAppend ==
    ASSUME NEW q, Queue(q), NEW p
    PROVE  /\ DevicePackets(Append(q, FromDevice(p))) = DevicePackets(q) \cup {p}
           /\ DevicePackets(Append(q, FromBroker(p))) = DevicePackets(q)
<1>1. /\ ToSet(Append(q, FromDevice(p))) = ToSet(q) \cup {FromDevice(p)}
      /\ ToSet(Append(q, FromBroker(p))) = ToSet(q) \cup {FromBroker(p)}
  BY QueueAppend
<1>2. /\ FromDevice(p).from = "device" /\ FromDevice(p).packet = p
      /\ FromBroker(p).from = "broker"
  BY DEF FromDevice, FromBroker
<1> QED
  BY <1>1, <1>2 DEF DevicePackets

(* A handler takes the first packet, and sends it on, a plain one or none. *)
LEMMA OrderedMoves ==
    ASSUME NEW up, NEW packets, NEW requests, Ordered(up, packets, requests),
           Queue(up), Queue(packets), packets # <<>>,
           NEW up2,
           \/ up2 = up
           \/ \E y : /\ up2 = Append(up, y)
                     /\ \/ Plain(y)
                        \/ Head(packets).from = "device" /\ Like(y, Head(packets).packet)
    PROVE  Ordered(up2, Tail(packets), requests)
<1> DEFINE t == Tail(packets)
           h == Head(packets)
<1>1. /\ Queue(t) /\ ToSet(t) \subseteq ToSet(packets) /\ h \in ToSet(packets) /\ h = packets[1]
      /\ 1 \in 1..Len(packets) /\ Len(t) = Len(packets) - 1
      /\ \A i \in 1..Len(t) : t[i] = packets[i + 1]
      /\ Len(packets) \in Nat /\ Len(up) \in Nat /\ Len(t) \in Nat
  BY QueueTail, QueueElements
<1>2. DevicePackets(t) \subseteq DevicePackets(packets)
  BY PacketsOfTail
<1>3. h.from = "device" => h.packet \in DevicePackets(packets)
  BY <1>1 DEF DevicePackets
<1>4. h.from = "device" => \A x \in DevicePackets(t) : ~Bars(h.packet, x)
  <2>1. ASSUME h.from = "device", NEW x \in DevicePackets(t) PROVE ~Bars(h.packet, x)
    <3>1. PICK e \in ToSet(t) : e.from = "device" /\ x = e.packet
      BY <2>1 DEF DevicePackets
    <3>2. PICK i \in 1..Len(t) : e = t[i]
      BY <1>1, <3>1, QueueElements
    <3>3. i + 1 \in 1..Len(packets) /\ 1 < i + 1 /\ packets[i + 1] = e
      BY <1>1, <3>2
    <3> QED
      BY <1>1, <2>1, <3>1, <3>3 DEF Ordered
  <2> QED
    BY <2>1
<1>5. \A i, j \in 1..Len(t) :
          i < j /\ t[i].from = "device" /\ t[j].from = "device" => ~Bars(t[i].packet, t[j].packet)
  <2>1. ASSUME NEW i \in 1..Len(t), NEW j \in 1..Len(t), i < j,
               t[i].from = "device", t[j].from = "device"
        PROVE  ~Bars(t[i].packet, t[j].packet)
    <3>1. i + 1 \in 1..Len(packets) /\ j + 1 \in 1..Len(packets) /\ i + 1 < j + 1
      BY <1>1, <2>1
    <3>2. t[i] = packets[i + 1] /\ t[j] = packets[j + 1]
      BY <1>1
    <3> QED
      BY <2>1, <3>1, <3>2 DEF Ordered
  <2> QED
    BY <2>1
<1> HIDE DEF t, h
<1>6. CASE up2 = up
  BY <1>2, <1>5, <1>6 DEF Ordered, t
<1>7. CASE up2 # up
  <2>1. PICK y : up2 = Append(up, y) /\ (Plain(y) \/ (h.from = "device" /\ Like(y, h.packet)))
    BY <1>7 DEF h
  <2>2. /\ ToSet(up2) = ToSet(up) \cup {y} /\ Len(up2) = Len(up) + 1
        /\ \A i \in 1..Len(up) : up2[i] = up[i]
        /\ up2[Len(up) + 1] = y
    BY <2>1, QueueAppend
  <2>3. \A x \in ToSet(up) : ~Bars(x, y)
    <3>1. CASE Plain(y)
      BY <3>1, Plainly
    <3>2. CASE h.from = "device" /\ Like(y, h.packet)
      BY <1>3, <3>2, Alike DEF Ordered
    <3> QED
      BY <2>1, <3>1, <3>2
  <2>4. \A x \in DevicePackets(t) \cup requests : ~Bars(y, x)
    <3>1. CASE Plain(y)
      BY <3>1, Plainly
    <3>2. CASE h.from = "device" /\ Like(y, h.packet)
      BY <1>3, <1>4, <3>2, Alike DEF Ordered
    <3> QED
      BY <2>1, <3>1, <3>2
  <2>5. \A i, j \in 1..Len(up2) : i < j => ~Bars(up2[i], up2[j])
    <3>1. ASSUME NEW i \in 1..Len(up2), NEW j \in 1..Len(up2), i < j
          PROVE  ~Bars(up2[i], up2[j])
      <4>1. i \in 1..Len(up) /\ up2[i] = up[i] /\ up[i] \in ToSet(up)
        BY <1>1, <2>2, <3>1, QueueElements
      <4>2. CASE j \in 1..Len(up)
        BY <2>2, <3>1, <4>1, <4>2 DEF Ordered
      <4>3. CASE j = Len(up) + 1
        BY <2>2, <2>3, <4>1, <4>3
      <4> QED
        BY <1>1, <2>2, <4>2, <4>3
    <3> QED
      BY <3>1
  <2> QED
    BY <1>2, <1>5, <2>2, <2>4, <2>5 DEF Ordered, t
<1> QED
  BY <1>6, <1>7

(* Packets of the broker come into the packet queue.                       *)
LEMMA OrderedAnswers ==
    ASSUME NEW up, NEW packets, NEW requests, Ordered(up, packets, requests),
           Queue(packets), NEW r, Queue(r), \A e \in ToSet(r) : e.from = "broker"
    PROVE  /\ Ordered(up, packets \o r, requests)
           /\ DevicePackets(packets \o r) \subseteq DevicePackets(packets)
<1> DEFINE q == packets \o r
<1>1. /\ ToSet(q) \subseteq ToSet(packets) \cup ToSet(r)
      /\ Len(packets) \in Nat /\ Len(r) \in Nat /\ Len(q) = Len(packets) + Len(r)
      /\ \A i \in 1..Len(packets) + Len(r) :
            q[i] = IF i <= Len(packets) THEN packets[i] ELSE r[i - Len(packets)]
  BY QueueConcat
<1> HIDE DEF q
<1>2. DevicePackets(q) \subseteq DevicePackets(packets)
  BY <1>1 DEF DevicePackets
<1>3. \A i \in 1..Len(q) : q[i].from = "device" => i \in 1..Len(packets) /\ q[i] = packets[i]
  <2>1. ASSUME NEW i \in 1..Len(q), q[i].from = "device", ~(i <= Len(packets)) PROVE FALSE
    <3>1. i - Len(packets) \in 1..Len(r) /\ q[i] = r[i - Len(packets)]
      BY <1>1, <2>1
    <3> QED
      BY <2>1, <3>1, QueueElements
  <2> QED
    BY <1>1, <2>1
<1>4. \A i, j \in 1..Len(q) :
          i < j /\ q[i].from = "device" /\ q[j].from = "device" => ~Bars(q[i].packet, q[j].packet)
  BY <1>3 DEF Ordered
<1> QED
  BY <1>2, <1>4 DEF Ordered, q

(* The broker sends one packet.                                            *)
LEMMA OrderedAnswer ==
    ASSUME NEW up, NEW packets, NEW requests, Ordered(up, packets, requests),
           Queue(packets), NEW m
    PROVE  Ordered(up, Append(packets, FromBroker(m)), requests)
<1> DEFINE q == Append(packets, FromBroker(m))
<1>1. /\ Len(q) = Len(packets) + 1 /\ Len(packets) \in Nat
      /\ \A i \in 1..Len(packets) : q[i] = packets[i]
      /\ q[Len(packets) + 1] = FromBroker(m) /\ FromBroker(m).from = "broker"
  BY QueueAppend, QueueElements DEF FromBroker
<1>2. DevicePackets(q) = DevicePackets(packets)
  BY PacketsOfAppend
<1> HIDE DEF q
<1>3. \A i \in 1..Len(q) : q[i].from = "device" => i \in 1..Len(packets) /\ q[i] = packets[i]
  BY <1>1
<1>4. \A i, j \in 1..Len(q) :
          i < j /\ q[i].from = "device" /\ q[j].from = "device" => ~Bars(q[i].packet, q[j].packet)
  BY <1>3 DEF Ordered
<1> QED
  BY <1>2, <1>4 DEF Ordered, q

(* The broker takes a packet: what it barred is not behind it.             *)
LEMMA OrderedServed ==
    ASSUME NEW up, NEW packets, NEW requests, Ordered(up, packets, requests),
           Queue(up), up # <<>>
    PROVE  /\ Ordered(Tail(up), packets, requests)
           /\ \A x \in Line(Tail(up), packets, requests) : ~Bars(Head(up), x)
<1> DEFINE t == Tail(up)
           h == Head(up)
<1>1. /\ Queue(t) /\ ToSet(t) \subseteq ToSet(up) /\ h \in ToSet(up) /\ h = up[1]
      /\ 1 \in 1..Len(up) /\ Len(t) = Len(up) - 1
      /\ \A i \in 1..Len(t) : t[i] = up[i + 1]
      /\ Len(up) \in Nat /\ Len(t) \in Nat
  BY QueueTail, QueueElements
<1> HIDE DEF t, h
<1>2. \A i, j \in 1..Len(t) : i < j => ~Bars(t[i], t[j])
  <2>1. ASSUME NEW i \in 1..Len(t), NEW j \in 1..Len(t), i < j PROVE ~Bars(t[i], t[j])
    <3>1. i + 1 \in 1..Len(up) /\ j + 1 \in 1..Len(up) /\ i + 1 < j + 1
      BY <1>1, <2>1
    <3> QED
      BY <1>1, <3>1 DEF Ordered
  <2> QED
    BY <2>1
<1>3. \A x \in ToSet(t) : ~Bars(h, x)
  <2>1. ASSUME NEW x \in ToSet(t) PROVE ~Bars(h, x)
    <3>1. PICK i \in 1..Len(t) : x = t[i]
      BY <1>1, QueueElements
    <3>2. i + 1 \in 1..Len(up) /\ 1 < i + 1 /\ up[i + 1] = x
      BY <1>1, <3>1
    <3> QED
      BY <1>1, <3>2 DEF Ordered
  <2> QED
    BY <2>1
<1> QED
  BY <1>1, <1>2, <1>3 DEF Ordered, Line, t, h

(* The device sends a packet, and its requests may change.                 *)
LEMMA OrderedSends ==
    ASSUME NEW up, NEW packets, NEW requests, Ordered(up, packets, requests),
           Queue(packets), NEW p, NEW requests2,
           \A y \in ToSet(up) \cup DevicePackets(packets) : ~Bars(y, p),
           \A x \in requests2 : ~Bars(p, x),
           \A x \in requests2 :
               x \in requests \/ \A y \in ToSet(up) \cup DevicePackets(packets) : ~Bars(y, x)
    PROVE  Ordered(up, Append(packets, FromDevice(p)), requests2)
<1> DEFINE q == Append(packets, FromDevice(p))
<1>1. /\ Len(q) = Len(packets) + 1 /\ Len(packets) \in Nat
      /\ \A i \in 1..Len(packets) : q[i] = packets[i] /\ packets[i] \in ToSet(packets)
      /\ q[Len(packets) + 1] = FromDevice(p) /\ FromDevice(p).packet = p
  BY QueueAppend, QueueElements DEF FromDevice
<1>2. DevicePackets(q) = DevicePackets(packets) \cup {p}
  BY PacketsOfAppend
<1> HIDE DEF q
<1>3. ASSUME NEW i \in 1..Len(q), NEW j \in 1..Len(q), i < j,
             q[i].from = "device", q[j].from = "device"
      PROVE  ~Bars(q[i].packet, q[j].packet)
  <2>1. i \in 1..Len(packets) /\ q[i] = packets[i]
    BY <1>1, <1>3
  <2>2. q[i].packet \in DevicePackets(packets)
    BY <1>1, <1>3, <2>1 DEF DevicePackets
  <2>3. CASE j \in 1..Len(packets)
    BY <1>1, <1>3, <2>1, <2>3 DEF Ordered
  <2>4. CASE j = Len(packets) + 1
    BY <1>1, <2>2, <2>4
  <2> QED
    BY <1>1, <2>3, <2>4
<1> QED
  BY <1>2, <1>3 DEF Ordered, q

(* The last packet is lost, and requests may be over.                      *)
LEMMA OrderedLost ==
    ASSUME NEW up, NEW packets, NEW requests, Ordered(up, packets, requests),
           Queue(packets), packets # <<>>
    PROVE  /\ Ordered(up, Front(packets), requests)
           /\ DevicePackets(Front(packets)) \subseteq DevicePackets(packets)
<1> DEFINE q == Front(packets)
<1>1. /\ ToSet(q) \subseteq ToSet(packets) /\ Len(packets) \in Nat /\ Len(q) = Len(packets) - 1
      /\ \A i \in 1..Len(packets) - 1 : q[i] = packets[i]
  BY QueueFront
<1> HIDE DEF q
<1>2. DevicePackets(q) \subseteq DevicePackets(packets)
  BY <1>1 DEF DevicePackets
<1>3. \A i \in 1..Len(q) : i \in 1..Len(packets) /\ q[i] = packets[i]
  BY <1>1
<1>4. \A i, j \in 1..Len(q) :
          i < j /\ q[i].from = "device" /\ q[j].from = "device" => ~Bars(q[i].packet, q[j].packet)
  BY <1>3 DEF Ordered
<1> QED
  BY <1>2, <1>4 DEF Ordered, q

-----------------------------------------------------------------------------
(* Publications of the broker: in one place each                           *)

\* A publication of the broker, among the packets to the device.
Copy(p) == p.type = "PUBLISH"

\* The same in the packet queue.
PacketCopy(e) == e.from = "broker" /\ e.packet.type = "PUBLISH"

\* The publications of a queue.
Copies(q) == {p.n : p \in {m \in ToSet(q) : Copy(m)}}

PacketCopies(q) == {e.packet.n : e \in {d \in ToSet(q) : PacketCopy(d)}}

CopiesOnce(q) ==
    \A i, j \in 1..Len(q) : Copy(q[i]) /\ Copy(q[j]) /\ q[i].n = q[j].n => i = j

PacketCopiesOnce(q) ==
    \A i, j \in 1..Len(q) :
        PacketCopy(q[i]) /\ PacketCopy(q[j]) /\ q[i].packet.n = q[j].packet.n => i = j

GotOnce(got) == \A i, j \in 1..Len(got) : got[i] = got[j] => i = j

\* No publication is in two of them.
Apart(A, B, C, D, E) ==
    /\ \A n \in A : n \notin B /\ n \notin C /\ n \notin D /\ n \notin E
    /\ \A n \in B : n \notin C /\ n \notin D /\ n \notin E
    /\ \A n \in C : n \notin D /\ n \notin E
    /\ \A n \in D : n \notin E

\* A publication waits in the broker, is in one of the queues, or the device has it.
DownOnce ==
    /\ PacketCopiesOnce(packetQ) /\ CopiesOnce(saved) /\ CopiesOnce(clientQ)
    /\ Queue(dev.got) /\ GotOnce(dev.got)
    /\ Apart(PacketCopies(packetQ), Copies(saved), Copies(clientQ), ToSet(dev.got), srv.topublish)

(* The first of a queue is taken, and it is not there once more.           *)
LEMMA CopiesTail ==
    ASSUME NEW q, Queue(q), q # <<>>, CopiesOnce(q)
    PROVE  /\ CopiesOnce(Tail(q)) /\ Copies(Tail(q)) \subseteq Copies(q)
           /\ Copy(Head(q)) => Head(q).n \in Copies(q) /\ Head(q).n \notin Copies(Tail(q))
<1> DEFINE t == Tail(q)
<1>1. /\ Queue(t) /\ ToSet(t) \subseteq ToSet(q) /\ Head(q) \in ToSet(q) /\ Head(q) = q[1]
      /\ 1 \in 1..Len(q) /\ Len(t) = Len(q) - 1
      /\ \A i \in 1..Len(t) : t[i] = q[i + 1]
      /\ Len(q) \in Nat /\ Len(t) \in Nat
  BY QueueTail, QueueElements
<1> HIDE DEF t
<1>2. CopiesOnce(t)
  <2>1. ASSUME NEW i \in 1..Len(t), NEW j \in 1..Len(t), Copy(t[i]), Copy(t[j]), t[i].n = t[j].n
        PROVE  i = j
    <3>1. i + 1 \in 1..Len(q) /\ j + 1 \in 1..Len(q) /\ t[i] = q[i + 1] /\ t[j] = q[j + 1]
      BY <1>1
    <3>2. i + 1 = j + 1
      BY <2>1, <3>1 DEF CopiesOnce
    <3> QED
      BY <1>1, <3>2
  <2> QED
    BY <2>1 DEF CopiesOnce
<1>3. ASSUME Copy(Head(q)), Head(q).n \in Copies(t) PROVE FALSE
  <2>1. PICK p \in ToSet(t) : Copy(p) /\ p.n = Head(q).n
    BY <1>3 DEF Copies
  <2>2. PICK i \in 1..Len(t) : p = t[i]
    BY <1>1, QueueElements
  <2>3. i + 1 \in 1..Len(q) /\ q[i + 1] = p /\ i + 1 # 1
    BY <1>1, <2>2
  <2> QED
    BY <1>1, <1>3, <2>1, <2>3 DEF CopiesOnce
<1> QED
  BY <1>1, <1>2, <1>3 DEF Copies, t

(* One that is not in the queue is added.                                  *)
LEMMA CopiesAppend ==
    ASSUME NEW q, Queue(q), CopiesOnce(q), NEW m, Copy(m) => m.n \notin Copies(q)
    PROVE  /\ CopiesOnce(Append(q, m))
           /\ Copies(Append(q, m)) = Copies(q) \cup (IF Copy(m) THEN {m.n} ELSE {})
<1> DEFINE a == Append(q, m)
<1>1. /\ ToSet(a) = ToSet(q) \cup {m} /\ Len(a) = Len(q) + 1 /\ Len(q) \in Nat
      /\ \A i \in 1..Len(q) : a[i] = q[i] /\ q[i] \in ToSet(q)
      /\ a[Len(q) + 1] = m
  BY QueueAppend, QueueElements
<1> HIDE DEF a
<1>2. ASSUME NEW i \in 1..Len(a), NEW j \in 1..Len(a), Copy(a[i]), Copy(a[j]), a[i].n = a[j].n
      PROVE  i = j
  <2>1. \A k \in 1..Len(q) : Copy(q[k]) /\ Copy(m) => q[k].n # m.n
    BY <1>1 DEF Copies
  <2>2. CASE i \in 1..Len(q) /\ j \in 1..Len(q)
    BY <1>1, <1>2, <2>2 DEF CopiesOnce
  <2>3. CASE i \in 1..Len(q) /\ j = Len(q) + 1
    BY <1>1, <1>2, <2>1, <2>3
  <2>4. CASE i = Len(q) + 1 /\ j \in 1..Len(q)
    BY <1>1, <1>2, <2>1, <2>4
  <2> QED
    BY <1>1, <2>2, <2>3, <2>4
<1>3. Copies(a) = Copies(q) \cup (IF Copy(m) THEN {m.n} ELSE {})
  BY <1>1 DEF Copies
<1> QED
  BY <1>2, <1>3 DEF CopiesOnce, a

(* The same of the packet queue.                                           *)
LEMMA PacketCopiesTail ==
    ASSUME NEW q, Queue(q), q # <<>>, PacketCopiesOnce(q)
    PROVE  /\ PacketCopiesOnce(Tail(q)) /\ PacketCopies(Tail(q)) \subseteq PacketCopies(q)
           /\ PacketCopy(Head(q)) => /\ Head(q).packet.n \in PacketCopies(q)
                                     /\ Head(q).packet.n \notin PacketCopies(Tail(q))
<1> DEFINE t == Tail(q)
<1>1. /\ Queue(t) /\ ToSet(t) \subseteq ToSet(q) /\ Head(q) \in ToSet(q) /\ Head(q) = q[1]
      /\ 1 \in 1..Len(q) /\ Len(t) = Len(q) - 1
      /\ \A i \in 1..Len(t) : t[i] = q[i + 1]
      /\ Len(q) \in Nat /\ Len(t) \in Nat
  BY QueueTail, QueueElements
<1> HIDE DEF t
<1>2. PacketCopiesOnce(t)
  <2>1. ASSUME NEW i \in 1..Len(t), NEW j \in 1..Len(t), PacketCopy(t[i]), PacketCopy(t[j]),
               t[i].packet.n = t[j].packet.n
        PROVE  i = j
    <3>1. i + 1 \in 1..Len(q) /\ j + 1 \in 1..Len(q) /\ t[i] = q[i + 1] /\ t[j] = q[j + 1]
      BY <1>1
    <3>2. i + 1 = j + 1
      BY <2>1, <3>1 DEF PacketCopiesOnce
    <3> QED
      BY <1>1, <3>2
  <2> QED
    BY <2>1 DEF PacketCopiesOnce
<1>3. ASSUME PacketCopy(Head(q)), Head(q).packet.n \in PacketCopies(t) PROVE FALSE
  <2>1. PICK e \in ToSet(t) : PacketCopy(e) /\ e.packet.n = Head(q).packet.n
    BY <1>3 DEF PacketCopies
  <2>2. PICK i \in 1..Len(t) : e = t[i]
    BY <1>1, QueueElements
  <2>3. i + 1 \in 1..Len(q) /\ q[i + 1] = e /\ i + 1 # 1
    BY <1>1, <2>2
  <2> QED
    BY <1>1, <1>3, <2>1, <2>3 DEF PacketCopiesOnce
<1> QED
  BY <1>1, <1>2, <1>3 DEF PacketCopies, t

(* The same of the packet queue.                                           *)
LEMMA PacketCopiesAppend ==
    ASSUME NEW q, Queue(q), PacketCopiesOnce(q), NEW e,
           PacketCopy(e) => e.packet.n \notin PacketCopies(q)
    PROVE  /\ PacketCopiesOnce(Append(q, e))
           /\ PacketCopies(Append(q, e))
                 = PacketCopies(q) \cup (IF PacketCopy(e) THEN {e.packet.n} ELSE {})
<1> DEFINE a == Append(q, e)
<1>1. /\ ToSet(a) = ToSet(q) \cup {e} /\ Len(a) = Len(q) + 1 /\ Len(q) \in Nat
      /\ \A i \in 1..Len(q) : a[i] = q[i] /\ q[i] \in ToSet(q)
      /\ a[Len(q) + 1] = e
  BY QueueAppend, QueueElements
<1> HIDE DEF a
<1>2. ASSUME NEW i \in 1..Len(a), NEW j \in 1..Len(a), PacketCopy(a[i]), PacketCopy(a[j]),
             a[i].packet.n = a[j].packet.n
      PROVE  i = j
  <2>1. \A k \in 1..Len(q) : PacketCopy(q[k]) /\ PacketCopy(e) => q[k].packet.n # e.packet.n
    BY <1>1 DEF PacketCopies
  <2>2. CASE i \in 1..Len(q) /\ j \in 1..Len(q)
    BY <1>1, <1>2, <2>2 DEF PacketCopiesOnce
  <2>3. CASE i \in 1..Len(q) /\ j = Len(q) + 1
    BY <1>1, <1>2, <2>1, <2>3
  <2>4. CASE i = Len(q) + 1 /\ j \in 1..Len(q)
    BY <1>1, <1>2, <2>1, <2>4
  <2> QED
    BY <1>1, <2>2, <2>3, <2>4
<1>3. PacketCopies(a) = PacketCopies(q) \cup (IF PacketCopy(e) THEN {e.packet.n} ELSE {})
  BY <1>1 DEF PacketCopies
<1> QED
  BY <1>2, <1>3 DEF PacketCopiesOnce, a

(* A packet is lost.                                                       *)
LEMMA PacketCopiesFront ==
    ASSUME NEW q, Queue(q), q # <<>>, PacketCopiesOnce(q)
    PROVE  PacketCopiesOnce(Front(q)) /\ PacketCopies(Front(q)) \subseteq PacketCopies(q)
<1>1. /\ ToSet(Front(q)) \subseteq ToSet(q) /\ Len(q) \in Nat /\ Len(Front(q)) = Len(q) - 1
      /\ \A i \in 1..Len(q) - 1 : Front(q)[i] = q[i]
  BY QueueFront
<1>2. \A i \in 1..Len(Front(q)) : i \in 1..Len(q) /\ Front(q)[i] = q[i]
  BY <1>1
<1> QED
  BY <1>1, <1>2 DEF PacketCopiesOnce, PacketCopies

(* The saved packets come behind those of the packet queue.                *)
LEMMA PacketCopiesConcat ==
    ASSUME NEW q, Queue(q), PacketCopiesOnce(q), NEW r, Queue(r), PacketCopiesOnce(r),
           \A n \in PacketCopies(r) : n \notin PacketCopies(q)
    PROVE  /\ PacketCopiesOnce(q \o r)
           /\ PacketCopies(q \o r) \subseteq PacketCopies(q) \cup PacketCopies(r)
<1> DEFINE c == q \o r
<1>1. /\ ToSet(c) \subseteq ToSet(q) \cup ToSet(r)
      /\ Len(q) \in Nat /\ Len(r) \in Nat /\ Len(c) = Len(q) + Len(r)
      /\ \A i \in 1..Len(q) + Len(r) : c[i] = IF i <= Len(q) THEN q[i] ELSE r[i - Len(q)]
  BY QueueConcat
<1>2. /\ \A i \in 1..Len(q) : q[i] \in ToSet(q)
      /\ \A i \in 1..Len(r) : r[i] \in ToSet(r)
  BY QueueElements
<1> HIDE DEF c
<1>3. \A i \in 1..Len(c) : \/ i \in 1..Len(q) /\ c[i] = q[i]
                           \/ i - Len(q) \in 1..Len(r) /\ c[i] = r[i - Len(q)]
  BY <1>1
<1>4. \A i \in 1..Len(q) : \A k \in 1..Len(r) :
          PacketCopy(q[i]) /\ PacketCopy(r[k]) => q[i].packet.n # r[k].packet.n
  BY <1>2 DEF PacketCopies
<1>5. ASSUME NEW i \in 1..Len(c), NEW j \in 1..Len(c), PacketCopy(c[i]), PacketCopy(c[j]),
             c[i].packet.n = c[j].packet.n
      PROVE  i = j
  <2>1. CASE i \in 1..Len(q) /\ c[i] = q[i] /\ j \in 1..Len(q) /\ c[j] = q[j]
    BY <1>5, <2>1 DEF PacketCopiesOnce
  <2>2. CASE /\ i - Len(q) \in 1..Len(r) /\ c[i] = r[i - Len(q)]
             /\ j - Len(q) \in 1..Len(r) /\ c[j] = r[j - Len(q)]
    <3>1. i - Len(q) = j - Len(q)
      BY <1>5, <2>2 DEF PacketCopiesOnce
    <3> QED
      BY <1>1, <3>1
  <2>3. CASE /\ i \in 1..Len(q) /\ c[i] = q[i]
             /\ j - Len(q) \in 1..Len(r) /\ c[j] = r[j - Len(q)]
    BY <1>4, <1>5, <2>3
  <2>4. CASE /\ j \in 1..Len(q) /\ c[j] = q[j]
             /\ i - Len(q) \in 1..Len(r) /\ c[i] = r[i - Len(q)]
    BY <1>4, <1>5, <2>4
  <2> QED
    BY <1>3, <2>1, <2>2, <2>3, <2>4
<1>6. PacketCopies(c) \subseteq PacketCopies(q) \cup PacketCopies(r)
  BY <1>1 DEF PacketCopies
<1> QED
  BY <1>5, <1>6 DEF PacketCopiesOnce, c

(* Copies get fewer, and stay where they are.                              *)
LEMMA DownQuiet ==
    ASSUME DownOnce, UNCHANGED <<saved>>, dev'.got = dev.got, srv'.topublish = srv.topublish,
           PacketCopiesOnce(packetQ'), PacketCopies(packetQ') \subseteq PacketCopies(packetQ),
           CopiesOnce(clientQ'), Copies(clientQ') \subseteq Copies(clientQ)
    PROVE  DownOnce'
  BY DEF DownOnce, Apart

-----------------------------------------------------------------------------
(* Exactly once                                                            *)

\* A message id is of one request, and the requests are counted down.
Numbered(p, used) ==
    /\ p.type = "PUBLISH" =>
          /\ p.n \in Nat /\ p.n + used > MaxRequests
          /\ p.qos = 2 => p.msgId \in 1..used /\ p.n + p.msgId = MaxRequests + 1
    /\ p.type = "PUBREL" => p.msgId \in 0..used

\* So are those of the PUBRECs.
RecsNumbered(packets, down, used) ==
    /\ \A e \in ToSet(packets) :
           e.from = "broker" /\ e.packet.type = "PUBREC" => e.packet.msgId \in 0..used
    /\ \A p \in ToSet(down) : p.type = "PUBREC" => p.msgId \in 0..used

\* What the device repeats it repeats with the same QoS.
SameKind(packets) ==
    \A x, y \in packets :
        x.type = "PUBLISH" /\ y.type = "PUBLISH" /\ x.n = y.n => (x.qos = 2 <=> y.qos = 2)

\* What was delivered and released does not come again.
Released(delivered, receiving, line) ==
    \A d \in ToSet(delivered) : Second(d) /\ d.msgId \notin receiving =>
        \A x \in line : Second(x) => x.msgId # d.msgId

\* A message id is delivered once with QoS 2.
DeliveredOnce(delivered) ==
    \A i, j \in 1..Len(delivered) :
        Second(delivered[i]) /\ Second(delivered[j]) /\ delivered[i].msgId = delivered[j].msgId
        => i = j

\* The broker, and what it delivered.
ServerShape ==
    /\ srv = [subs |-> srv.subs, inflight |-> srv.inflight, receiving |-> srv.receiving,
              delivered |-> srv.delivered, acked |-> srv.acked, topublish |-> srv.topublish]
    /\ Queue(srv.delivered) /\ \A d \in ToSet(srv.delivered) : d.type = "PUBLISH"

\* What the device publishes with QoS 2 is delivered once.
UpOnce ==
    /\ ServerShape
    /\ Ordered(brokerQ, packetQ, dev.requests)
    /\ \A p \in Line(brokerQ, packetQ, dev.requests) \cup ToSet(srv.delivered) : Numbered(p, Used)
    /\ RecsNumbered(packetQ, clientQ, Used)
    /\ SameKind(Line(brokerQ, packetQ, dev.requests) \cup ToSet(srv.delivered))
    /\ Released(srv.delivered, srv.receiving, Line(brokerQ, packetQ, dev.requests))
    /\ DeliveredOnce(srv.delivered)

(* Nothing new is published, and the broker keeps what it delivered.       *)
LEMMA LineGoes ==
    ASSUME Sound, IInv, UpOnce, Used' = Used, UNCHANGED <<srv>>,
           Ordered(brokerQ', packetQ', dev'.requests),
           \A y \in Line(brokerQ', packetQ', dev'.requests) :
               \/ y.type # "PUBLISH" /\ Numbered(y, Used)
               \/ \E x \in Line(brokerQ, packetQ, dev.requests) : Like(y, x),
           RecsNumbered(packetQ', clientQ', Used)
    PROVE  UpOnce'
<1> DEFINE L == Line(brokerQ, packetQ, dev.requests)
           M == Line(brokerQ', packetQ', dev'.requests)
           D == ToSet(srv.delivered)
<1>1. /\ \A p \in L \cup D : Numbered(p, Used)
      /\ SameKind(L \cup D) /\ Released(srv.delivered, srv.receiving, L)
      /\ DeliveredOnce(srv.delivered) /\ ServerShape
  BY DEF UpOnce
<1>2. srv' = srv
  OBVIOUS
<1>3. \A y \in M : (y.type # "PUBLISH" /\ Numbered(y, Used)) \/ \E x \in L : Like(y, x)
  OBVIOUS
<1> HIDE DEF L, M, D
<1>4. \A y \in M : Numbered(y, Used)
  <2>1. ASSUME NEW y \in M, NEW x \in L, Like(y, x) PROVE Numbered(y, Used)
    BY <1>1, <2>1 DEF Like, Numbered
  <2> QED
    BY <1>3, <2>1
<1>5. \A y \in M \cup D : Numbered(y, Used)
  BY <1>1, <1>4
<1>6. \A y \in M \cup D : y.type = "PUBLISH" =>
          \E x \in L \cup D : x.type = "PUBLISH" /\ x.n = y.n /\ (x.qos = 2 <=> y.qos = 2)
  <2>1. ASSUME NEW y \in M, y.type = "PUBLISH"
        PROVE  \E x \in L : x.type = "PUBLISH" /\ x.n = y.n /\ (x.qos = 2 <=> y.qos = 2)
    BY <1>3, <2>1 DEF Like
  <2> QED
    BY <2>1
<1>7. SameKind(M \cup D)
  BY <1>1, <1>6 DEF SameKind
<1>8. Released(srv.delivered, srv.receiving, M)
  <2>1. \A y \in M : Second(y) => \E x \in L : Second(x) /\ x.msgId = y.msgId
    BY <1>3, Alike DEF Second
  <2> QED
    BY <1>1, <2>1 DEF Released
<1>9. ServerShape'
  BY <1>1, <1>2 DEF ServerShape
<1> QED
  BY <1>1, <1>2, <1>5, <1>7, <1>8, <1>9 DEF UpOnce, M, D

(* A handler takes the first packet, sends at most one on to the broker    *)
(* and one to the device.                                                  *)
LEMMA HandlerGoes ==
    ASSUME Sound, IInv, UpOnce, packetQ # <<>>, packetQ' = Tail(packetQ),
           UNCHANGED <<dev, srv, left>>,
           \/ brokerQ' = brokerQ
           \/ \E y : /\ brokerQ' = Append(brokerQ, y)
                     /\ \/ Plain(y)
                        \/ Head(packetQ).from = "device" /\ Like(y, Packet),
           \/ clientQ' = clientQ
           \/ \E p : /\ clientQ' = Append(clientQ, p)
                     /\ p.type = "PUBREC" => p.msgId \in 0..Used
    PROVE  UpOnce'
<1>1. Queue(packetQ) /\ Queue(brokerQ) /\ Queue(clientQ)
  BY DEF IInv, Shapes
<1>2. Used' = Used /\ dev'.requests = dev.requests
  BY DEF Used
<1>3. Ordered(brokerQ', packetQ', dev'.requests)
  BY <1>1, <1>2, OrderedMoves DEF UpOnce, Packet
<1>4. /\ DevicePackets(packetQ') \subseteq DevicePackets(packetQ)
      /\ Head(packetQ).from = "device" => Packet \in DevicePackets(packetQ)
      /\ ToSet(packetQ') \subseteq ToSet(packetQ)
  BY <1>1, PacketsOfTail, QueueTail DEF Packet
<1>5. \A x \in Line(brokerQ, packetQ, dev.requests) : Like(x, x)
  BY DEF Like
<1>6. \A y \in Line(brokerQ', packetQ', dev'.requests) :
          \/ y.type # "PUBLISH" /\ Numbered(y, Used)
          \/ \E x \in Line(brokerQ, packetQ, dev.requests) : Like(y, x)
  <2>1. CASE brokerQ' = brokerQ
    BY <1>2, <1>4, <1>5, <2>1 DEF Line
  <2>2. CASE brokerQ' # brokerQ
    <3>1. PICK y : /\ brokerQ' = Append(brokerQ, y)
                   /\ Plain(y) \/ (Head(packetQ).from = "device" /\ Like(y, Packet))
      BY <2>2
    <3>2. ToSet(brokerQ') = ToSet(brokerQ) \cup {y}
      BY <1>1, <3>1, QueueAppend
    <3>3. \/ y.type # "PUBLISH" /\ Numbered(y, Used)
          \/ \E x \in Line(brokerQ, packetQ, dev.requests) : Like(y, x)
      BY <1>4, <3>1 DEF Plain, Numbered, Line
    <3> QED
      BY <1>2, <1>4, <1>5, <3>2, <3>3 DEF Line
  <2> QED
    BY <2>1, <2>2
<1>7. RecsNumbered(packetQ', clientQ', Used)
  <2>1. RecsNumbered(packetQ, clientQ, Used)
    BY DEF UpOnce
  <2>2. CASE clientQ' = clientQ
    BY <1>4, <2>1, <2>2 DEF RecsNumbered
  <2>3. CASE clientQ' # clientQ
    <3>1. PICK p : /\ clientQ' = Append(clientQ, p)
                   /\ p.type = "PUBREC" => p.msgId \in 0..Used
      BY <2>3
    <3>2. ToSet(clientQ') = ToSet(clientQ) \cup {p}
      BY <1>1, <3>1, QueueAppend
    <3> QED
      BY <1>4, <2>1, <3>1, <3>2 DEF RecsNumbered
  <2> QED
    BY <2>2, <2>3
<1> QED
  BY <1>2, <1>3, <1>6, <1>7, LineGoes

\* In both directions.
Once == UpOnce /\ DownOnce

(* A handler takes the first packet, and sends no publication to the       *)
(* device.                                                                 *)
LEMMA HandlerOnce ==
    ASSUME Sound, IInv, Once, packetQ # <<>>, packetQ' = Tail(packetQ),
           UNCHANGED <<saved, dev, srv, left>>,
           \/ brokerQ' = brokerQ
           \/ \E y : /\ brokerQ' = Append(brokerQ, y)
                     /\ \/ Plain(y)
                        \/ Head(packetQ).from = "device" /\ Like(y, Packet),
           \/ clientQ' = clientQ
           \/ \E p : /\ clientQ' = Append(clientQ, p) /\ p.type # "PUBLISH"
                     /\ p.type = "PUBREC" => p.msgId \in 0..Used
    PROVE  Once'
<1>1. UpOnce'
  BY HandlerGoes DEF Once
<1>2. Queue(packetQ) /\ Queue(clientQ) /\ DownOnce
  BY DEF IInv, Shapes, Once
<1>3. PacketCopiesOnce(packetQ') /\ PacketCopies(packetQ') \subseteq PacketCopies(packetQ)
  BY <1>2, PacketCopiesTail DEF DownOnce
<1>4. CopiesOnce(clientQ') /\ Copies(clientQ') \subseteq Copies(clientQ)
  <2>1. CASE clientQ' = clientQ
    BY <1>2, <2>1 DEF DownOnce
  <2>2. CASE clientQ' # clientQ
    <3>1. PICK p : clientQ' = Append(clientQ, p) /\ ~Copy(p)
      BY <2>2 DEF Copy
    <3> QED
      BY <1>2, <3>1, CopiesAppend DEF DownOnce
  <2> QED
    BY <2>1, <2>2
<1>5. DownOnce'
  BY <1>2, <1>3, <1>4, DownQuiet
<1> QED
  BY <1>1, <1>5 DEF Once

(* MQTTSNPublishHandler::handlePublish sends the PUBLISH on, or drops it.  *)
LEMMA DevicePublishOnce ==
    ASSUME Sound, IInv, Once, DevicePublish
    PROVE  Once'
<1> DEFINE p == Packet
           Name(i) == IF p.ref.type = "short" THEN p.ref.name ELSE topics'.list[i].name
<1>1. /\ packetQ # <<>> /\ packetQ' = Tail(packetQ) /\ Head(packetQ).from = "device"
      /\ p.type = "PUBLISH" /\ UNCHANGED <<saved, dev, srv, left>>
  BY DEF DevicePublish, Takes, Packet
<1>2. PICK y1 : y1 = [type |-> "PUBLISH", topic |-> "", qos |-> 0, msgId |-> 0, n |-> p.n]
  OBVIOUS
<1>3. PICK i \in FoundTopics(p) :
        /\ UNCHANGED clientQ \/ SendClient(PubackTo(p.ref.id, p.msgId, "invalid id"))
        /\ \/ UNCHANGED brokerQ
           \/ p.qos = 0 /\ SendBroker([type |-> "PUBLISH", topic |-> "", qos |-> 0,
                                       msgId |-> 0, n |-> p.n])
           \/ SendBroker([type |-> "PUBLISH", topic |-> Name(i),
                           qos |-> IF p.qos = 3 THEN 0 ELSE p.qos,
                           msgId |-> p.msgId, n |-> p.n])
  BY DEF DevicePublish
<1>4. PICK y2 : y2 = [type |-> "PUBLISH", topic |-> Name(i), qos |-> IF p.qos = 3 THEN 0 ELSE p.qos,
                      msgId |-> p.msgId, n |-> p.n]
  OBVIOUS
<1>5. PICK z : z = PubackTo(p.ref.id, p.msgId, "invalid id")
  OBVIOUS
<1>6. \/ brokerQ' = brokerQ
      \/ p.qos = 0 /\ brokerQ' = Append(brokerQ, y1)
      \/ brokerQ' = Append(brokerQ, y2)
  BY <1>3, <1>2, <1>4 DEF SendBroker
<1>7. clientQ' = clientQ \/ clientQ' = Append(clientQ, z)
  BY <1>3, <1>5 DEF SendClient
<1>8. z.type = "PUBACK"
  BY <1>5 DEF PubackTo
<1>9. p.qos = 0 => Like(y1, p)
  <2>1. y1.type = "PUBLISH" /\ y1.n = p.n /\ y1.qos = 0
    BY <1>2
  <2>2. y1.qos # 2
    BY <2>1
  <2> QED
    BY <1>1, <2>1, <2>2 DEF Like
<1>10. Like(y2, p)
  BY <1>1, <1>4 DEF Like
<1>11. \/ brokerQ' = brokerQ
       \/ \E y : brokerQ' = Append(brokerQ, y) /\ Like(y, Packet)
  BY <1>6, <1>9, <1>10
<1>12. \/ clientQ' = clientQ
       \/ \E x : clientQ' = Append(clientQ, x) /\ x.type = "PUBACK"
  BY <1>7, <1>8
<1> QED
  BY <1>1, <1>11, <1>12, HandlerOnce

(* handlePuback and handleAck of the device's packets.                     *)
LEMMA DeviceAckOnce ==
    ASSUME Sound, IInv, Once, NEW type \in {"PUBACK", "PUBREC", "PUBREL", "PUBCOMP"},
           DeviceAck(type)
    PROVE  Once'
<1>1. /\ packetQ # <<>> /\ packetQ' = Tail(packetQ) /\ Head(packetQ).from = "device"
      /\ Packet.type = type /\ UNCHANGED <<saved, clientQ, dev, srv, left>>
  BY DEF DeviceAck, Takes, Packet, client
<1>2. PICK y : y = [type |-> type, msgId |-> Packet.msgId]
  OBVIOUS
<1>3. brokerQ' = brokerQ \/ brokerQ' = Append(brokerQ, y)
  BY <1>2 DEF DeviceAck, SendBroker
<1>4. Plain(y) \/ Like(y, Packet)
  BY <1>1, <1>2 DEF Plain, Like, Clean
<1>5. \/ brokerQ' = brokerQ
      \/ \E x : brokerQ' = Append(brokerQ, x) /\ (Plain(x) \/ Like(x, Packet))
  BY <1>3, <1>4
<1> QED
  BY <1>1, <1>5, HandlerOnce

(* The other requests of the device.                                       *)
LEMMA DeviceRequestOnce ==
    ASSUME Sound, IInv, Once, DeviceRegister \/ DeviceSubscribe \/ DeviceUnsubscribe
    PROVE  Once'
<1>1. packetQ # <<>> /\ packetQ' = Tail(packetQ) /\ UNCHANGED <<saved, dev, srv, left>>
  BY DEF DeviceRegister, DeviceSubscribe, DeviceUnsubscribe, Takes, client
<1>2. \/ brokerQ' = brokerQ
      \/ \E y : brokerQ' = Append(brokerQ, y) /\ y.type \in {"SUBSCRIBE", "UNSUBSCRIBE"}
  <2>1. CASE DeviceRegister
    BY <2>1 DEF DeviceRegister
  <2>2. CASE DeviceSubscribe
    <3>1. \/ brokerQ' = brokerQ
          \/ \E topic : brokerQ' = Append(brokerQ,
                 [type |-> "SUBSCRIBE", topic |-> topic, msgId |-> Packet.msgId])
      BY <2>2 DEF DeviceSubscribe, SendBroker
    <3>2. ASSUME NEW topic, brokerQ' = Append(brokerQ,
                 [type |-> "SUBSCRIBE", topic |-> topic, msgId |-> Packet.msgId])
          PROVE  \E x : brokerQ' = Append(brokerQ, x) /\ x.type = "SUBSCRIBE"
      <4>1. PICK x : x = [type |-> "SUBSCRIBE", topic |-> topic, msgId |-> Packet.msgId]
        OBVIOUS
      <4> QED
        BY <3>2, <4>1
    <3> QED
      BY <3>1, <3>2
  <2>3. CASE DeviceUnsubscribe
    <3>1. \/ brokerQ' = brokerQ
          \/ \E topic : brokerQ' = Append(brokerQ,
                 [type |-> "UNSUBSCRIBE", msgId |-> Packet.msgId, topic |-> topic])
      BY <2>3 DEF DeviceUnsubscribe, SendBroker
    <3>2. ASSUME NEW topic, brokerQ' = Append(brokerQ,
                 [type |-> "UNSUBSCRIBE", msgId |-> Packet.msgId, topic |-> topic])
          PROVE  \E x : brokerQ' = Append(brokerQ, x) /\ x.type = "UNSUBSCRIBE"
      <4>1. PICK x : x = [type |-> "UNSUBSCRIBE", msgId |-> Packet.msgId, topic |-> topic]
        OBVIOUS
      <4> QED
        BY <3>2, <4>1
    <3> QED
      BY <3>1, <3>2
  <2> QED
    BY <2>1, <2>2, <2>3
<1>3. \/ clientQ' = clientQ
      \/ \E p : clientQ' = Append(clientQ, p) /\ p.type \in {"REGACK", "SUBACK", "UNSUBACK"}
  <2>1. CASE DeviceRegister
    <3>1. \/ clientQ' = clientQ
          \/ \E id : clientQ' = Append(clientQ,
                 [type |-> "REGACK", msgId |-> Packet.msgId, id |-> id])
      BY <2>1 DEF DeviceRegister, SendClient
    <3>2. ASSUME NEW id, clientQ' = Append(clientQ,
                 [type |-> "REGACK", msgId |-> Packet.msgId, id |-> id])
          PROVE  \E x : clientQ' = Append(clientQ, x) /\ x.type = "REGACK"
      <4>1. PICK x : x = [type |-> "REGACK", msgId |-> Packet.msgId, id |-> id]
        OBVIOUS
      <4> QED
        BY <3>2, <4>1
    <3> QED
      BY <3>1, <3>2
  <2>2. CASE DeviceSubscribe
    <3>1. \/ clientQ' = clientQ
          \/ \E id : clientQ' = Append(clientQ,
                 [type |-> "SUBACK", msgId |-> Packet.msgId, id |-> id, rc |-> "invalid id"])
      BY <2>2 DEF DeviceSubscribe, SendClient
    <3>2. ASSUME NEW id, clientQ' = Append(clientQ,
                 [type |-> "SUBACK", msgId |-> Packet.msgId, id |-> id, rc |-> "invalid id"])
          PROVE  \E x : clientQ' = Append(clientQ, x) /\ x.type = "SUBACK"
      <4>1. PICK x : x = [type |-> "SUBACK", msgId |-> Packet.msgId, id |-> id, rc |-> "invalid id"]
        OBVIOUS
      <4>2. clientQ' = Append(clientQ, x)
        BY <3>2, <4>1
      <4>3. x.type = "SUBACK"
        BY <4>1
      <4> QED
        BY <4>2, <4>3
    <3> QED
      BY <3>1, <3>2
  <2>3. CASE DeviceUnsubscribe
    <3>1. \/ clientQ' = clientQ
          \/ clientQ' = Append(clientQ, [type |-> "UNSUBACK", msgId |-> Packet.msgId])
      BY <2>3 DEF DeviceUnsubscribe, SendClient
    <3> QED
      BY <3>1
  <2> QED
    BY <2>1, <2>2, <2>3
<1>4. \A y : y.type \in {"SUBSCRIBE", "UNSUBSCRIBE"} => Plain(y)
  BY DEF Plain, Clean
<1>5. \A p : p.type \in {"REGACK", "SUBACK", "UNSUBACK"} => p.type \notin {"PUBREC", "PUBLISH"}
  OBVIOUS
<1> QED
  BY <1>1, <1>2, <1>3, <1>4, <1>5, HandlerOnce

(* MQTTGWPublishHandler::handlePublish sends the publication on, saves it  *)
(* or drops it.                                                            *)
LEMMA BrokerPublishOnce ==
    ASSUME Sound, IInv, Once, BrokerPublish
    PROVE  Once'
<1> DEFINE h == Packet
<1>1. /\ packetQ # <<>> /\ packetQ' = Tail(packetQ) /\ UNCHANGED <<dev, srv, left>>
      /\ Head(packetQ).from = "broker" /\ h.type = "PUBLISH"
  BY DEF BrokerPublish, Takes, Packet
<1>2. Queue(packetQ) /\ Queue(clientQ) /\ Queue(saved) /\ UpOnce /\ DownOnce
  BY DEF IInv, Shapes, Once
<1>3. PICK y : y = [type |-> IF h.qos = 1 THEN "PUBACK" ELSE "PUBREC", msgId |-> h.msgId]
  OBVIOUS
<1>4. Plain(y)
  BY <1>3 DEF Plain, Clean
<1>5. brokerQ' = brokerQ \/ brokerQ' = Append(brokerQ, y)
  BY <1>3 DEF BrokerPublish, Reply, SendBroker
<1>6. PICK p : /\ p.type = "PUBLISH" /\ p.n = h.n
               /\ \/ clientQ' = clientQ /\ saved' = saved
                  \/ clientQ' = clientQ /\ saved' = Append(saved, h)
                  \/ clientQ' = Append(clientQ, p) /\ saved' = saved
  <2>1. \/ clientQ' = clientQ /\ saved' = saved
        \/ clientQ' = clientQ /\ saved' = Append(saved, h)
        \/ /\ saved' = saved
           /\ \E ref : clientQ' = Append(clientQ,
                 [type |-> "PUBLISH", qos |-> h.qos, msgId |-> h.msgId, n |-> h.n,
                  topic |-> h.topic, ref |-> ref])
    BY DEF BrokerPublish, SendClient
  <2>2. CASE clientQ' = clientQ
    BY <1>1, <2>1, <2>2
  <2>3. CASE clientQ' # clientQ
    <3>1. PICK ref : clientQ' = Append(clientQ,
                        [type |-> "PUBLISH", qos |-> h.qos, msgId |-> h.msgId, n |-> h.n,
                         topic |-> h.topic, ref |-> ref])
      BY <2>1, <2>3
    <3>2. PICK p : p = [type |-> "PUBLISH", qos |-> h.qos, msgId |-> h.msgId, n |-> h.n,
                        topic |-> h.topic, ref |-> ref]
      OBVIOUS
    <3>3. p.type = "PUBLISH" /\ p.n = h.n /\ clientQ' = Append(clientQ, p)
      BY <3>1, <3>2
    <3> QED
      BY <2>1, <2>3, <3>3
  <2> QED
    BY <2>2, <2>3
<1>7. UpOnce'
  BY <1>1, <1>2, <1>4, <1>5, <1>6, HandlerGoes
<1>8. PacketCopy(Head(packetQ)) /\ h = Head(packetQ).packet
  BY <1>1 DEF PacketCopy, Packet
<1> HIDE DEF h
<1>9. /\ PacketCopiesOnce(packetQ') /\ PacketCopies(packetQ') \subseteq PacketCopies(packetQ)
      /\ h.n \in PacketCopies(packetQ) /\ h.n \notin PacketCopies(packetQ')
  BY <1>1, <1>2, <1>8, PacketCopiesTail DEF DownOnce
<1>10. /\ h.n \notin Copies(saved) /\ h.n \notin Copies(clientQ)
       /\ h.n \notin ToSet(dev.got) /\ h.n \notin srv.topublish
       /\ CopiesOnce(saved) /\ CopiesOnce(clientQ) /\ Queue(dev.got) /\ GotOnce(dev.got)
       /\ Apart(PacketCopies(packetQ), Copies(saved), Copies(clientQ), ToSet(dev.got), srv.topublish)
  BY <1>2, <1>9 DEF DownOnce, Apart
<1>11. DownOnce'
  <2>1. CASE clientQ' = clientQ /\ saved' = saved
    BY <1>1, <1>9, <1>10, <2>1 DEF DownOnce, Apart
  <2>2. CASE clientQ' = clientQ /\ saved' = Append(saved, h)
    <3>1. CopiesOnce(saved') /\ Copies(saved') = Copies(saved) \cup {h.n}
      BY <1>1, <1>2, <1>10, <2>2, CopiesAppend DEF Copy
    <3> QED
      BY <1>1, <1>9, <1>10, <2>2, <3>1 DEF DownOnce, Apart
  <2>3. CASE clientQ' = Append(clientQ, p) /\ saved' = saved
    <3>1. CopiesOnce(clientQ') /\ Copies(clientQ') = Copies(clientQ) \cup {h.n}
      BY <1>2, <1>6, <1>10, <2>3, CopiesAppend DEF Copy
    <3> QED
      BY <1>1, <1>9, <1>10, <2>3, <3>1 DEF DownOnce, Apart
  <2> QED
    BY <1>6, <2>1, <2>2, <2>3
<1> QED
  BY <1>7, <1>11 DEF Once

(* The handlers of the broker's packets.                                   *)
LEMMA BrokerPacketOnce ==
    ASSUME Sound, IInv, Once,
           \/ BrokerPuback \/ BrokerSuback \/ BrokerUnsuback \/ Connack \/ Pingresp
    PROVE  Once'
<1>1. packetQ # <<>> /\ packetQ' = Tail(packetQ) /\ UNCHANGED <<saved, dev, srv, left>>
  BY DEF BrokerPuback, BrokerSuback, BrokerUnsuback, Connack, Pingresp, Takes, client
<1>2. brokerQ' = brokerQ
  BY DEF BrokerPuback, BrokerSuback, BrokerUnsuback, Connack, Pingresp
<1>3. \/ clientQ' = clientQ
      \/ \E p : clientQ' = Append(clientQ, p) /\ p.type \notin {"PUBREC", "PUBLISH"}
  <2>1. CASE BrokerPuback
    <3>1. \/ clientQ' = clientQ
          \/ \E id : clientQ' = Append(clientQ,
                 [type |-> "PUBACK", id |-> id, msgId |-> Packet.msgId, rc |-> "accepted"])
      BY <2>1 DEF BrokerPuback, SendClient, PubackTo
    <3>2. ASSUME NEW id, clientQ' = Append(clientQ,
                 [type |-> "PUBACK", id |-> id, msgId |-> Packet.msgId, rc |-> "accepted"])
          PROVE  \E x : clientQ' = Append(clientQ, x) /\ x.type = "PUBACK"
      <4>1. PICK x : x = [type |-> "PUBACK", id |-> id, msgId |-> Packet.msgId, rc |-> "accepted"]
        OBVIOUS
      <4> QED
        BY <3>2, <4>1
    <3> QED
      BY <3>1, <3>2
  <2>2. CASE BrokerSuback
    <3>1. \/ clientQ' = clientQ
          \/ \E id : clientQ' = Append(clientQ,
                 [type |-> "SUBACK", msgId |-> Packet.msgId, id |-> id, rc |-> "accepted"])
      BY <2>2 DEF BrokerSuback, SendClient
    <3>2. ASSUME NEW id, clientQ' = Append(clientQ,
                 [type |-> "SUBACK", msgId |-> Packet.msgId, id |-> id, rc |-> "accepted"])
          PROVE  \E x : clientQ' = Append(clientQ, x) /\ x.type = "SUBACK"
      <4>1. PICK x : x = [type |-> "SUBACK", msgId |-> Packet.msgId, id |-> id, rc |-> "accepted"]
        OBVIOUS
      <4> QED
        BY <3>2, <4>1
    <3> QED
      BY <3>1, <3>2
  <2>3. CASE BrokerUnsuback
    <3>1. clientQ' = Append(clientQ, [type |-> "UNSUBACK", msgId |-> Packet.msgId])
      BY <2>3 DEF BrokerUnsuback, SendClient
    <3> QED
      BY <3>1
  <2>4. CASE Connack
    <3>1. clientQ' = Append(clientQ, [type |-> "CONNACK"])
      BY <2>4 DEF Connack, SendClient
    <3> QED
      BY <3>1
  <2>5. CASE Pingresp
    <3>1. clientQ' = Append(clientQ, [type |-> "PINGRESP"])
      BY <2>5 DEF Pingresp, SendClient
    <3> QED
      BY <3>1
  <2> QED
    BY <2>1, <2>2, <2>3, <2>4, <2>5
<1> QED
  BY <1>1, <1>2, <1>3, HandlerOnce

(* MQTTGWPublishHandler::handleAck.                                        *)
LEMMA BrokerAckOnce ==
    ASSUME Sound, IInv, Once, NEW type \in {"PUBREC", "PUBREL", "PUBCOMP"}, BrokerAck(type)
    PROVE  Once'
<1>1. /\ packetQ # <<>> /\ packetQ' = Tail(packetQ) /\ Head(packetQ).from = "broker"
      /\ Packet.type = type /\ UNCHANGED <<saved, dev, srv, left>>
  BY DEF BrokerAck, Takes, Packet, client
<1>2. PICK y : y = [type |-> "PUBCOMP", msgId |-> Packet.msgId]
  OBVIOUS
<1>3. PICK p : p = [type |-> type, msgId |-> Packet.msgId]
  OBVIOUS
<1>4. brokerQ' = brokerQ \/ brokerQ' = Append(brokerQ, y)
  BY <1>2 DEF BrokerAck, SendBroker
<1>5. clientQ' = clientQ \/ clientQ' = Append(clientQ, p)
  BY <1>3 DEF BrokerAck, SendClient
<1>6. Plain(y)
  BY <1>2 DEF Plain, Clean
<1>7. Head(packetQ) \in ToSet(packetQ)
  BY <1>1, QueueTail DEF IInv, Shapes
<1>8. p.type # "PUBLISH" /\ (p.type = "PUBREC" => p.msgId \in 0..Used)
  BY <1>1, <1>3, <1>7 DEF Once, UpOnce, RecsNumbered, Packet
<1> QED
  BY <1>1, <1>4, <1>5, <1>6, <1>8, HandlerOnce

(* handleDisconnect.                                                       *)
LEMMA SleepOnce ==
    ASSUME Sound, IInv, Once, Sleep
    PROVE  Once'
<1>1. packetQ # <<>> /\ packetQ' = Tail(packetQ) /\ UNCHANGED <<saved, brokerQ, dev, srv, left>>
  BY DEF Sleep, Takes
<1>2. clientQ' = Append(clientQ, [type |-> "DISCONNECT"])
  BY DEF Sleep, SendClient
<1>3. PICK p : p = [type |-> "DISCONNECT"]
  OBVIOUS
<1>4. clientQ' = Append(clientQ, p) /\ p.type = "DISCONNECT"
  BY <1>2, <1>3
<1> QED
  BY <1>1, <1>4, HandlerOnce

(* sendStoredPublish moves the saved packets behind the others.            *)
LEMMA StoredOnce ==
    ASSUME IInv, Once, packetQ # <<>>
    PROVE  /\ Ordered(brokerQ, StoredSent, dev.requests)
           /\ DevicePackets(StoredSent) \subseteq DevicePackets(packetQ)
           /\ RecsNumbered(StoredSent, clientQ, Used)
           /\ PacketCopiesOnce(StoredSent)
           /\ PacketCopies(StoredSent) \subseteq PacketCopies(packetQ) \cup Copies(saved)
<1> DEFINE t == Tail(packetQ)
           s == [i \in 1..Len(saved) |-> FromBroker(saved[i])]
           S == {FromBroker(p) : p \in ToSet(saved)}
<1>1. /\ Queue(packetQ) /\ Queue(brokerQ) /\ Queue(saved)
      /\ \A p \in ToSet(saved) : p.type = "PUBLISH"
      /\ UpOnce /\ DownOnce
  BY DEF IInv, Shapes, Once
<1>2. Queue(t) /\ ToSet(t) \subseteq ToSet(packetQ)
  BY <1>1, QueueTail
<1>3. Len(saved) \in Nat /\ \A i \in 1..Len(saved) : saved[i] \in ToSet(saved)
  BY <1>1, QueueElements
<1>4. s \in [1..Len(saved) -> S]
  BY <1>3
<1>5. s \in Seq(S) /\ Len(s) = Len(saved) /\ \A i \in 1..Len(saved) : s[i].packet = saved[i]
  BY <1>3, <1>4 DEF FromBroker
<1>6. \A x \in S : x.from = "broker" /\ x.packet.type = "PUBLISH" /\ x.packet \in ToSet(saved)
  BY <1>1 DEF FromBroker
<1>7. StoredSent = t \o s
  BY DEF StoredSent
<1>8. Ordered(brokerQ, t, dev.requests) /\ DevicePackets(t) \subseteq DevicePackets(packetQ)
  BY <1>1, OrderedMoves, PacketsOfTail DEF UpOnce
<1>9. PacketCopiesOnce(t) /\ PacketCopies(t) \subseteq PacketCopies(packetQ)
  BY <1>1, PacketCopiesTail DEF DownOnce
<1> HIDE DEF t, s, S
<1>10. Queue(s) /\ ToSet(s) \subseteq S
  BY <1>5, QueueOfSeq
<1>11. \A x \in ToSet(s) : /\ x.from = "broker" /\ x.packet.type = "PUBLISH"
                           /\ x.packet \in ToSet(saved)
  BY <1>6, <1>10
<1>12. Ordered(brokerQ, t \o s, dev.requests) /\ DevicePackets(t \o s) \subseteq DevicePackets(t)
  BY <1>2, <1>8, <1>10, <1>11, OrderedAnswers
<1>13. ToSet(t \o s) \subseteq ToSet(t) \cup ToSet(s)
  BY <1>2, <1>10, QueueConcat
<1>14. RecsNumbered(t \o s, clientQ, Used)
  BY <1>1, <1>2, <1>11, <1>13 DEF UpOnce, RecsNumbered
<1>15. PacketCopies(s) \subseteq Copies(saved)
  BY <1>11 DEF PacketCopies, Copies, Copy
<1>16. PacketCopiesOnce(s)
  BY <1>1, <1>3, <1>5 DEF PacketCopiesOnce, DownOnce, CopiesOnce, Copy
<1>17. \A n \in PacketCopies(s) : n \notin PacketCopies(t)
  BY <1>1, <1>9, <1>15 DEF DownOnce, Apart
<1>18. /\ PacketCopiesOnce(t \o s)
       /\ PacketCopies(t \o s) \subseteq PacketCopies(t) \cup PacketCopies(s)
  BY <1>2, <1>9, <1>10, <1>16, <1>17, PacketCopiesConcat
<1> QED
  BY <1>7, <1>8, <1>9, <1>12, <1>14, <1>15, <1>18

(* handleConnect of a device that sleeps, and handlePingreq.               *)
LEMMA ReplayOnce ==
    ASSUME Sound, IInv, Once, packetQ # <<>>, packetQ' = StoredSent, saved' = <<>>,
           UNCHANGED <<brokerQ, dev, srv, left>>,
           \/ clientQ' = clientQ
           \/ \E p : clientQ' = Append(clientQ, p) /\ p.type = "CONNACK"
    PROVE  Once'
<1>1. Used' = Used /\ dev'.requests = dev.requests
  BY DEF Used
<1>2. /\ Ordered(brokerQ', packetQ', dev'.requests)
      /\ DevicePackets(packetQ') \subseteq DevicePackets(packetQ)
      /\ RecsNumbered(packetQ', clientQ, Used)
      /\ PacketCopiesOnce(packetQ')
      /\ PacketCopies(packetQ') \subseteq PacketCopies(packetQ) \cup Copies(saved)
  BY <1>1, StoredOnce
<1>3. \A y \in Line(brokerQ', packetQ', dev'.requests) :
          \E x \in Line(brokerQ, packetQ, dev.requests) : Like(y, x)
  BY <1>1, <1>2 DEF Line, Like
<1>4. /\ RecsNumbered(packetQ', clientQ', Used)
      /\ CopiesOnce(clientQ') /\ Copies(clientQ') = Copies(clientQ)
  <2>1. Queue(clientQ) /\ CopiesOnce(clientQ)
    BY DEF IInv, Shapes, Once, DownOnce
  <2>2. CASE clientQ' = clientQ
    BY <1>2, <2>1, <2>2
  <2>3. CASE clientQ' # clientQ
    <3>1. PICK p : clientQ' = Append(clientQ, p) /\ p.type = "CONNACK"
      BY <2>3
    <3>2. ToSet(clientQ') = ToSet(clientQ) \cup {p} /\ ~Copy(p)
      BY <2>1, <3>1, QueueAppend DEF Copy
    <3>3. CopiesOnce(clientQ') /\ Copies(clientQ') = Copies(clientQ)
      BY <2>1, <3>1, <3>2, CopiesAppend
    <3> QED
      BY <1>2, <3>1, <3>2, <3>3 DEF RecsNumbered
  <2> QED
    BY <2>2, <2>3
<1>5. UpOnce'
  BY <1>1, <1>2, <1>3, <1>4, LineGoes DEF Once
<1>6. CopiesOnce(saved') /\ Copies(saved') = {}
  BY QueueEmpty DEF CopiesOnce, Copies
<1>7. DownOnce'
  BY <1>2, <1>4, <1>6 DEF Once, DownOnce, Apart
<1> QED
  BY <1>5, <1>7 DEF Once

(* handleConnect.                                                          *)
LEMMA ConnectOnce ==
    ASSUME Sound, IInv, Once, Connect
    PROVE  Once'
<1>1. /\ packetQ # <<>> /\ Head(packetQ).from = "device" /\ Packet.type = "CONNECT"
      /\ UNCHANGED <<dev, srv, left>>
  BY DEF Connect
<1>2. CASE status \in {"asleep", "awake"}
  <2>1. PICK p : p = [type |-> "CONNACK"]
    OBVIOUS
  <2>2. /\ packetQ' = StoredSent /\ saved' = <<>>
        /\ clientQ' = Append(clientQ, p) /\ brokerQ' = brokerQ
    BY <1>2, <2>1 DEF Connect, SendClient
  <2> QED
    BY <1>1, <2>1, <2>2, ReplayOnce
<1>3. CASE status \notin {"asleep", "awake"}
  <2>1. PICK y : y = [type |-> "CONNECT", clean |-> Packet.clean]
    OBVIOUS
  <2>2. /\ packetQ' = Tail(packetQ) /\ saved' = saved
        /\ clientQ' = clientQ /\ brokerQ' = Append(brokerQ, y)
    BY <1>3, <2>1 DEF Connect, SendBroker
  <2>3. Like(y, Packet)
    BY <1>1, <2>1 DEF Like
  <2> QED
    BY <1>1, <2>2, <2>3, HandlerOnce
<1> QED
  BY <1>2, <1>3

(* handlePingreq.                                                          *)
LEMMA PingreqOnce ==
    ASSUME Sound, IInv, Once, Pingreq
    PROVE  Once'
<1>1. packetQ # <<>> /\ UNCHANGED <<clientQ, dev, srv, left>>
  BY DEF Pingreq
<1>2. CASE status \in {"asleep", "awake"} /\ saved # <<>>
  <2>1. packetQ' = StoredSent /\ saved' = <<>> /\ brokerQ' = brokerQ
    BY <1>2 DEF Pingreq
  <2> QED
    BY <1>1, <2>1, ReplayOnce
<1>3. CASE ~(status \in {"asleep", "awake"} /\ saved # <<>>)
  <2>1. PICK y : y = [type |-> "PINGREQ"]
    OBVIOUS
  <2>2. packetQ' = Tail(packetQ) /\ saved' = saved /\ brokerQ' = Append(brokerQ, y)
    BY <1>3, <2>1 DEF Pingreq, SendBroker
  <2>3. Plain(y)
    BY <2>1 DEF Plain, Clean
  <2> QED
    BY <1>1, <2>2, <2>3, HandlerOnce
<1> QED
  BY <1>2, <1>3

-----------------------------------------------------------------------------
(* The broker delivers                                                     *)

\* One packet of the broker may come into the packet queue.
Answer(q, q2, used) ==
    \/ q2 = q
    \/ \E m : /\ q2 = Append(q, FromBroker(m)) /\ m.type # "PUBLISH"
              /\ m.type = "PUBREC" => m.msgId \in 0..used

(* An answer of the broker is behind what goes to it, and no publication.  *)
LEMMA AnswerGoes ==
    ASSUME NEW up, NEW packets, NEW requests, NEW down, NEW used,
           Ordered(up, packets, requests), Queue(packets), PacketCopiesOnce(packets),
           RecsNumbered(packets, down, used), NEW packets2, Answer(packets, packets2, used)
    PROVE  /\ Ordered(up, packets2, requests) /\ DevicePackets(packets2) = DevicePackets(packets)
           /\ RecsNumbered(packets2, down, used)
           /\ PacketCopiesOnce(packets2) /\ PacketCopies(packets2) = PacketCopies(packets)
<1>1. CASE packets2 = packets
  BY <1>1
<1>2. CASE packets2 # packets
  <2>1. PICK m : /\ packets2 = Append(packets, FromBroker(m)) /\ m.type # "PUBLISH"
                 /\ m.type = "PUBREC" => m.msgId \in 0..used
    BY <1>2 DEF Answer
  <2>2. Ordered(up, packets2, requests) /\ DevicePackets(packets2) = DevicePackets(packets)
    BY <2>1, OrderedAnswer, PacketsOfAppend
  <2>3. ToSet(packets2) = ToSet(packets) \cup {FromBroker(m)} /\ FromBroker(m).packet = m
    BY <2>1, QueueAppend DEF FromBroker
  <2>4. ~PacketCopy(FromBroker(m))
    BY <2>1, <2>3 DEF PacketCopy
  <2>5. PacketCopiesOnce(packets2) /\ PacketCopies(packets2) = PacketCopies(packets)
    BY <2>1, <2>4, PacketCopiesAppend
  <2> QED
    BY <2>1, <2>2, <2>3, <2>5 DEF RecsNumbered
<1> QED
  BY <1>1, <1>2

(* The broker publishes.                                                   *)
LEMMA ServerPublishesOnce ==
    ASSUME Sound, IInv, Once, NEW pub, ServerPublishes(pub)
    PROVE  Once'
<1>1. /\ UNCHANGED <<saved, brokerQ, clientQ, dev, left>> /\ Used' = Used
      /\ pub \in srv.topublish
  BY DEF ServerPublishes, Used, client
<1>2. PICK k : /\ Answers(<<[type |-> "PUBLISH", topic |-> pub.topic, qos |-> pub.qos,
                             msgId |-> k, n |-> pub]>>)
               /\ \E f : srv' = [srv EXCEPT !.topublish = @ \ {pub}, !.inflight = f]
  BY DEF ServerPublishes
<1>3. PICK m : m = [type |-> "PUBLISH", topic |-> pub.topic, qos |-> pub.qos,
                    msgId |-> k, n |-> pub]
  OBVIOUS
<1>4. Queue(packetQ) /\ UpOnce /\ DownOnce
  BY DEF IInv, Shapes, Once
<1>5. packetQ' = Append(packetQ, FromBroker(m))
  BY <1>2, <1>3, <1>4, AnswerOne
<1>6. /\ FromBroker(m).from = "broker" /\ FromBroker(m).packet = m
      /\ m.type = "PUBLISH" /\ m.n = pub
  BY <1>3 DEF FromBroker
<1>7. /\ Ordered(brokerQ', packetQ', dev'.requests)
      /\ DevicePackets(packetQ') = DevicePackets(packetQ)
      /\ ToSet(packetQ') = ToSet(packetQ) \cup {FromBroker(m)}
  BY <1>1, <1>4, <1>5, OrderedAnswer, PacketsOfAppend, QueueAppend DEF UpOnce
<1>8. RecsNumbered(packetQ', clientQ', Used)
  BY <1>1, <1>4, <1>6, <1>7 DEF UpOnce, RecsNumbered
<1>9. Line(brokerQ', packetQ', dev'.requests) = Line(brokerQ, packetQ, dev.requests)
  BY <1>1, <1>7 DEF Line
<1>10. /\ srv'.delivered = srv.delivered /\ srv'.receiving = srv.receiving
       /\ srv' = [subs |-> srv'.subs, inflight |-> srv'.inflight, receiving |-> srv'.receiving,
                  delivered |-> srv'.delivered, acked |-> srv'.acked, topublish |-> srv'.topublish]
       /\ srv'.topublish = srv.topublish \ {pub}
  BY <1>2, <1>4 DEF UpOnce, ServerShape
<1>11. UpOnce'
  BY <1>1, <1>4, <1>7, <1>8, <1>9, <1>10 DEF UpOnce, ServerShape
<1>12. PacketCopiesOnce(packetQ') /\ PacketCopies(packetQ') = PacketCopies(packetQ) \cup {pub}
  <2>1. PacketCopy(FromBroker(m)) /\ FromBroker(m).packet.n \notin PacketCopies(packetQ)
    BY <1>1, <1>4, <1>6 DEF PacketCopy, DownOnce, Apart
  <2> QED
    BY <1>4, <1>5, <1>6, <2>1, PacketCopiesAppend DEF DownOnce
<1>13. DownOnce'
  BY <1>1, <1>4, <1>10, <1>12 DEF DownOnce, Apart
<1> QED
  BY <1>11, <1>13 DEF Once

(* The broker takes a packet: a publication that is delivered was not      *)
(* delivered before, and nothing that was released is on its way.          *)
LEMMA ServedGoes ==
    ASSUME Sound, IInv, Once, brokerQ # <<>>, brokerQ' = Tail(brokerQ),
           UNCHANGED <<saved, clientQ, dev, left>>, Answer(packetQ, packetQ', Used),
           srv' = [subs |-> srv'.subs, inflight |-> srv'.inflight, receiving |-> srv'.receiving,
                   delivered |-> srv'.delivered, acked |-> srv'.acked, topublish |-> srv'.topublish],
           srv'.topublish = srv.topublish,
           \/ srv'.delivered = srv.delivered
           \/ /\ srv'.delivered = Append(srv.delivered, Head(brokerQ))
              /\ Head(brokerQ).type = "PUBLISH"
              /\ Second(Head(brokerQ)) => Head(brokerQ).msgId \notin srv.receiving,
           Second(Head(brokerQ)) => Head(brokerQ).msgId \in srv'.receiving,
           \A m \in srv.receiving : m \notin srv'.receiving =>
               \A x \in Line(Tail(brokerQ), packetQ, dev.requests) : Second(x) => x.msgId # m
    PROVE  Once'
<1> DEFINE h == Head(brokerQ)
           L == Line(brokerQ, packetQ, dev.requests)
           M == Line(brokerQ', packetQ', dev'.requests)
           D == srv.delivered
           E == srv'.delivered
<1>1. /\ Queue(packetQ) /\ Queue(brokerQ) /\ Used' = Used /\ dev'.requests = dev.requests
      /\ UpOnce /\ DownOnce
  BY DEF IInv, Shapes, Used, Once
<1>2. Ordered(brokerQ', packetQ, dev.requests) /\ h \in ToSet(brokerQ) /\ ToSet(brokerQ') \subseteq ToSet(brokerQ)
  BY <1>1, OrderedServed, QueueTail DEF UpOnce
<1>3. /\ Ordered(brokerQ', packetQ', dev'.requests)
      /\ DevicePackets(packetQ') = DevicePackets(packetQ)
      /\ RecsNumbered(packetQ', clientQ', Used)
      /\ PacketCopiesOnce(packetQ') /\ PacketCopies(packetQ') = PacketCopies(packetQ)
  BY <1>1, <1>2, AnswerGoes DEF UpOnce, DownOnce
<1>4. M \subseteq L /\ h \in L /\ M = Line(Tail(brokerQ), packetQ, dev.requests)
  BY <1>1, <1>2, <1>3 DEF Line
<1>5. /\ \A p \in L \cup ToSet(D) : Numbered(p, Used)
      /\ SameKind(L \cup ToSet(D)) /\ Released(D, srv.receiving, L)
      /\ DeliveredOnce(D) /\ Queue(D) /\ \A d \in ToSet(D) : d.type = "PUBLISH"
  BY <1>1 DEF UpOnce, ServerShape
<1>6. E = D \/ (E = Append(D, h) /\ h.type = "PUBLISH" /\ (Second(h) => h.msgId \notin srv.receiving))
  OBVIOUS
<1>7. /\ Second(h) => h.msgId \in srv'.receiving
      /\ \A m \in srv.receiving : m \notin srv'.receiving => \A x \in M : Second(x) => x.msgId # m
  BY <1>4
<1> HIDE DEF h, L, M, D, E
<1>8. Len(D) \in Nat /\ \A i \in 1..Len(D) : D[i] \in ToSet(D)
  BY <1>5, QueueElements
<1>9. \/ E = D
      \/ /\ h.type = "PUBLISH" /\ (Second(h) => h.msgId \notin srv.receiving)
         /\ Queue(E) /\ ToSet(E) = ToSet(D) \cup {h} /\ Len(E) = Len(D) + 1
         /\ \A i \in 1..Len(D) : E[i] = D[i]
         /\ E[Len(D) + 1] = h
  <2>1. /\ Queue(Append(D, h)) /\ ToSet(Append(D, h)) = ToSet(D) \cup {h}
        /\ Len(Append(D, h)) = Len(D) + 1
        /\ \A i \in 1..Len(D) : Append(D, h)[i] = D[i]
        /\ Append(D, h)[Len(D) + 1] = h
    BY <1>5, QueueAppend
  <2> QED
    BY <1>6, <2>1
<1>10. /\ Queue(E) /\ \A d \in ToSet(E) : d.type = "PUBLISH"
       /\ ToSet(E) \subseteq ToSet(D) \cup {h}
  BY <1>5, <1>9
<1>11. M \cup ToSet(E) \subseteq L \cup ToSet(D)
  BY <1>4, <1>10
<1>12. /\ \A p \in M \cup ToSet(E) : Numbered(p, Used)
       /\ SameKind(M \cup ToSet(E))
  BY <1>5, <1>11 DEF SameKind
<1>13. Released(E, srv'.receiving, M)
  <2>1. ASSUME NEW d \in ToSet(E), Second(d), d.msgId \notin srv'.receiving,
               NEW x \in M, Second(x)
        PROVE  x.msgId # d.msgId
    <3>1. d # h /\ d \in ToSet(D)
      BY <1>7, <1>10, <2>1
    <3>2. CASE d.msgId \in srv.receiving
      BY <1>7, <2>1, <3>2
    <3>3. CASE d.msgId \notin srv.receiving
      BY <1>4, <1>5, <2>1, <3>1, <3>3 DEF Released
    <3> QED
      BY <3>2, <3>3
  <2> QED
    BY <2>1 DEF Released
<1>14. DeliveredOnce(E)
  <2>1. CASE E = D
    BY <1>5, <2>1
  <2>2. CASE E # D
    <3>1. \A i \in 1..Len(D) : Second(D[i]) /\ Second(h) => D[i].msgId # h.msgId
      <4>1. ASSUME NEW i \in 1..Len(D), Second(D[i]), Second(h), D[i].msgId = h.msgId PROVE FALSE
        <5>1. D[i] \in ToSet(D) /\ D[i].msgId \notin srv.receiving
          BY <1>8, <1>9, <2>2, <4>1
        <5> QED
          BY <1>4, <1>5, <4>1, <5>1 DEF Released
      <4> QED
        BY <4>1
    <3>2. ASSUME NEW i \in 1..Len(E), NEW j \in 1..Len(E), Second(E[i]), Second(E[j]),
                 E[i].msgId = E[j].msgId
          PROVE  i = j
      <4>1. Len(E) = Len(D) + 1 /\ E[Len(D) + 1] = h /\ \A k \in 1..Len(D) : E[k] = D[k]
        BY <1>9, <2>2
      <4>2. CASE i \in 1..Len(D) /\ j \in 1..Len(D)
        BY <1>5, <3>2, <4>1, <4>2 DEF DeliveredOnce
      <4>3. CASE i \in 1..Len(D) /\ j = Len(D) + 1
        BY <3>1, <3>2, <4>1, <4>3
      <4>4. CASE i = Len(D) + 1 /\ j \in 1..Len(D)
        BY <3>1, <3>2, <4>1, <4>4
      <4> QED
        BY <1>8, <4>1, <4>2, <4>3, <4>4
    <3> QED
      BY <3>2 DEF DeliveredOnce
  <2> QED
    BY <2>1, <2>2
<1>15. ServerShape'
  BY <1>10 DEF ServerShape, E
<1>16. UpOnce'
  BY <1>1, <1>3, <1>12, <1>13, <1>14, <1>15 DEF UpOnce, M, E
<1>17. DownOnce'
  BY <1>1, <1>3, DownQuiet DEF DownOnce
<1> QED
  BY <1>16, <1>17 DEF Once

(* The broker takes a packet.                                              *)
LEMMA ServerTakesOnce ==
    ASSUME Sound, IInv, Once, ServerTakes
    PROVE  Once'
<1> DEFINE h == Head(brokerQ)
           next == [subs |-> srv'.subs, inflight |-> srv'.inflight, receiving |-> srv'.receiving,
                    delivered |-> srv'.delivered, acked |-> srv'.acked,
                    topublish |-> srv'.topublish]
<1>1. brokerQ # <<>> /\ brokerQ' = Tail(brokerQ) /\ UNCHANGED <<saved, clientQ, dev, left>>
  BY DEF ServerTakes, client
<1>2. Queue(packetQ) /\ Queue(brokerQ) /\ h \in ToSet(brokerQ) /\ UpRight(h) /\ Numbered(h, Used)
  BY <1>1, QueueTail DEF IInv, Shapes, Once, UpOnce, Line
<1>3. srv = [subs |-> srv.subs, inflight |-> srv.inflight, receiving |-> srv.receiving,
             delivered |-> srv.delivered, acked |-> srv.acked, topublish |-> srv.topublish]
  BY DEF Once, UpOnce, ServerShape
<1>4. \A x \in Line(Tail(brokerQ), packetQ, dev.requests) : ~Bars(h, x)
  BY <1>1, <1>2, OrderedServed DEF Once, UpOnce
<1>5. ASSUME NEW type, NEW id, Answers(<<[type |-> type, msgId |-> id]>>),
             type # "PUBLISH", type = "PUBREC" => id \in 0..Used
      PROVE  Answer(packetQ, packetQ', Used)
  <2>1. PICK m : m = [type |-> type, msgId |-> id]
    OBVIOUS
  <2>2. packetQ' = Append(packetQ, FromBroker(m))
    BY <1>2, <1>5, <2>1, AnswerOne
  <2> QED
    BY <1>5, <2>1, <2>2 DEF Answer
<1>6. Answers(<<>>) => Answer(packetQ, packetQ', Used)
  BY <1>2, AnswerNone DEF Answer
<1>7. CASE h.type = "PUBLISH"
  <2>1. ServerPublish(h)
    BY <1>7 DEF ServerTakes
  <2>2. srv' = [srv EXCEPT
                  !.delivered = IF h.qos = 2 /\ h.msgId \in srv.receiving THEN @
                                ELSE Append(@, h),
                  !.receiving = IF h.qos = 2 THEN @ \cup {h.msgId} ELSE @]
    BY <2>1 DEF ServerPublish
  <2>3. /\ srv' = next /\ srv'.topublish = srv.topublish
        /\ srv'.delivered = IF h.qos = 2 /\ h.msgId \in srv.receiving THEN srv.delivered
                            ELSE Append(srv.delivered, h)
        /\ srv'.receiving = IF h.qos = 2 THEN srv.receiving \cup {h.msgId} ELSE srv.receiving
    BY <1>3, <2>2
  <2>4. h.qos \in {0, 1, 2} /\ (h.qos = 2 => h.msgId \in 0..Used)
    BY <1>2, <1>7 DEF UpRight, Numbered
  <2>5. Answer(packetQ, packetQ', Used)
    <3>1. CASE h.qos = 0
      BY <1>6, <2>1, <3>1 DEF ServerPublish
    <3>2. CASE h.qos = 1
      BY <1>5, <2>1, <3>2 DEF ServerPublish, Ack
    <3>3. CASE h.qos = 2
      BY <1>5, <2>1, <2>4, <3>3 DEF ServerPublish, Ack
    <3> QED
      BY <2>4, <3>1, <3>2, <3>3
  <2>6. Second(h) <=> h.qos = 2
    BY <1>7 DEF Second
  <2> HIDE DEF h, next
  <2>7. \/ srv'.delivered = srv.delivered
        \/ /\ srv'.delivered = Append(srv.delivered, h)
           /\ Second(h) => h.msgId \notin srv.receiving
    BY <2>3, <2>6
  <2>8. /\ Second(h) => h.msgId \in srv'.receiving
        /\ \A m \in srv.receiving : m \in srv'.receiving
    BY <2>3, <2>6
  <2> QED
    BY <1>1, <1>7, <2>3, <2>5, <2>7, <2>8, ServedGoes DEF h, next
<1>8. CASE h.type = "PUBREL"
  <2>1. srv' = [srv EXCEPT !.receiving = @ \ {h.msgId}] /\ Answers(Ack("PUBCOMP", h))
    BY <1>8 DEF ServerTakes
  <2>2. /\ srv' = next /\ srv'.delivered = srv.delivered
        /\ srv'.topublish = srv.topublish
        /\ srv'.receiving = srv.receiving \ {h.msgId}
    BY <1>3, <2>1
  <2>3. Answer(packetQ, packetQ', Used)
    BY <1>5, <2>1 DEF Ack
  <2>4. \A x \in Line(Tail(brokerQ), packetQ, dev.requests) : Second(x) => x.msgId # h.msgId
    BY <1>4, <1>8 DEF Bars
  <2>5. ~Second(h)
    BY <1>8 DEF Second
  <2> HIDE DEF h, next
  <2> QED
    BY <1>1, <2>2, <2>3, <2>4, <2>5, ServedGoes DEF h, next
<1>9. CASE h.type = "CONNECT"
  <2>1. /\ \/ srv' = srv
           \/ h.clean /\ \E f : srv' = [srv EXCEPT !.subs = {}, !.receiving = {}, !.inflight = f]
        /\ Answers(<<[type |-> "CONNACK"]>>)
    BY <1>9 DEF ServerTakes
  <2>2. /\ srv' = next /\ srv'.delivered = srv.delivered /\ srv'.topublish = srv.topublish
        /\ srv'.receiving = srv.receiving \/ h.clean
    BY <1>3, <2>1
  <2>3. Answer(packetQ, packetQ', Used)
    <3>1. PICK m : m = [type |-> "CONNACK"]
      OBVIOUS
    <3>2. packetQ' = Append(packetQ, FromBroker(m))
      BY <1>2, <2>1, <3>1, AnswerOne
    <3> QED
      BY <3>1, <3>2 DEF Answer
  <2>4. h.clean => \A x \in Line(Tail(brokerQ), packetQ, dev.requests) : ~Second(x)
    BY <1>4, <1>9 DEF Bars, Clean
  <2>5. ~Second(h)
    BY <1>9 DEF Second
  <2> HIDE DEF h, next
  <2> QED
    BY <1>1, <2>2, <2>3, <2>4, <2>5, ServedGoes DEF h, next
<1>10. CASE h.type \notin {"PUBLISH", "PUBREL", "CONNECT"}
  <2>1. /\ srv' = next /\ srv'.delivered = srv.delivered /\ srv'.receiving = srv.receiving
        /\ srv'.topublish = srv.topublish
    <3>1. CASE h.type \in {"PUBACK", "PUBREC"}
      <4>1. \E a, f : srv' = [srv EXCEPT !.acked = a, !.inflight = f]
        BY <3>1, <1>3 DEF ServerTakes
      <4> QED
        BY <1>3, <4>1
    <3>2. CASE h.type = "PUBCOMP"
      <4>1. \E f : srv' = [srv EXCEPT !.inflight = f]
        BY <3>2, <1>3 DEF ServerTakes
      <4> QED
        BY <1>3, <4>1
    <3>3. CASE h.type \in {"SUBSCRIBE", "UNSUBSCRIBE"}
      <4>1. \E s : srv' = [srv EXCEPT !.subs = s]
        BY <3>3, <1>3 DEF ServerTakes
      <4> QED
        BY <1>3, <4>1
    <3>4. CASE h.type = "PINGREQ"
      <4>1. srv' = srv
        BY <3>4 DEF ServerTakes
      <4> QED
        BY <1>3, <4>1
    <3> QED
      BY <1>2, <1>10, <3>1, <3>2, <3>3, <3>4 DEF UpRight
  <2>2. Answer(packetQ, packetQ', Used)
    <3>1. CASE h.type \in {"PUBACK", "PUBCOMP"}
      <4>1. Answers(<<>>)
        BY <3>1 DEF ServerTakes
      <4> QED
        BY <1>6, <4>1
    <3>2. CASE h.type = "PUBREC"
      <4>1. Answers(Ack("PUBREL", h))
        BY <3>2 DEF ServerTakes
      <4> QED
        BY <1>5, <4>1 DEF Ack
    <3>3. CASE h.type \in {"SUBSCRIBE", "UNSUBSCRIBE"}
      <4>1. Answers(Ack("SUBACK", h)) \/ Answers(Ack("UNSUBACK", h))
        BY <3>3 DEF ServerTakes
      <4> QED
        BY <1>5, <4>1 DEF Ack
    <3>4. CASE h.type = "PINGREQ"
      <4>1. PICK m : m = [type |-> "PINGRESP"]
        OBVIOUS
      <4>2. packetQ' = Append(packetQ, FromBroker(m))
        BY <1>2, <3>4, <4>1, AnswerOne DEF ServerTakes
      <4> QED
        BY <4>1, <4>2 DEF Answer
    <3> QED
      BY <1>2, <1>10, <3>1, <3>2, <3>3, <3>4 DEF UpRight
  <2>3. ~Second(h)
    BY <1>10 DEF Second
  <2> HIDE DEF h, next
  <2> QED
    BY <1>1, <2>1, <2>2, <2>3, ServedGoes DEF h, next
<1> QED
  BY <1>7, <1>8, <1>9, <1>10

-----------------------------------------------------------------------------
(* The device publishes                                                    *)

(* The device sends a packet that is no new publication.                   *)
LEMMA SentOnce ==
    ASSUME Sound, IInv, UpOnce, UNCHANGED <<brokerQ, srv>>, Used' = Used,
           ToSet(clientQ') \subseteq ToSet(clientQ),
           NEW p, packetQ' = Append(packetQ, FromDevice(p)),
           p \in dev.requests \/ (p.type # "PUBLISH" /\ Numbered(p, Used)),
           \A x \in dev'.requests : x \in dev.requests \/ (x.type # "PUBLISH" /\ Numbered(x, Used)),
           \A x \in dev'.requests : ~Bars(p, x)
    PROVE  UpOnce'
<1>1. Queue(packetQ)
  BY DEF IInv, Shapes
<1>2. \A x : x.type # "PUBLISH" => \A y : ~Bars(y, x)
  BY DEF Bars, Second
<1>3. \A x \in dev.requests : \A y \in ToSet(brokerQ) \cup DevicePackets(packetQ) : ~Bars(y, x)
  BY DEF UpOnce, Ordered
<1>4. Ordered(brokerQ, packetQ', dev'.requests)
  <2>1. \A y \in ToSet(brokerQ) \cup DevicePackets(packetQ) : ~Bars(y, p)
    BY <1>2, <1>3
  <2>2. \A x \in dev'.requests :
            x \in dev.requests \/ \A y \in ToSet(brokerQ) \cup DevicePackets(packetQ) : ~Bars(y, x)
    BY <1>2
  <2> QED
    BY <1>1, <2>1, <2>2, OrderedSends DEF UpOnce
<1>5. /\ DevicePackets(packetQ') = DevicePackets(packetQ) \cup {p}
      /\ ToSet(packetQ') = ToSet(packetQ) \cup {FromDevice(p)} /\ FromDevice(p).from = "device"
  BY <1>1, PacketsOfAppend, QueueAppend DEF FromDevice
<1>6. \A y \in Line(brokerQ', packetQ', dev'.requests) :
          \/ y.type # "PUBLISH" /\ Numbered(y, Used)
          \/ \E x \in Line(brokerQ, packetQ, dev.requests) : Like(y, x)
  <2>1. \A y \in Line(brokerQ', packetQ', dev'.requests) :
            \/ y.type # "PUBLISH" /\ Numbered(y, Used)
            \/ y \in Line(brokerQ, packetQ, dev.requests)
    BY <1>5 DEF Line
  <2> QED
    BY <2>1 DEF Like
<1>7. RecsNumbered(packetQ', clientQ', Used)
  BY <1>5 DEF UpOnce, RecsNumbered
<1> QED
  BY <1>4, <1>6, <1>7, LineGoes

(* The device sends nothing, and requests may be over.                     *)
LEMMA SilentOnce ==
    ASSUME Sound, IInv, UpOnce, UNCHANGED <<brokerQ, srv>>, Used' = Used,
           ToSet(clientQ') \subseteq ToSet(clientQ),
           packetQ' = packetQ \/ (packetQ # <<>> /\ packetQ' = Front(packetQ)),
           \A x \in dev'.requests : x \in dev.requests
    PROVE  UpOnce'
<1>1. Queue(packetQ)
  BY DEF IInv, Shapes
<1>2. /\ Ordered(brokerQ, packetQ', dev.requests) /\ ToSet(packetQ') \subseteq ToSet(packetQ)
      /\ DevicePackets(packetQ') \subseteq DevicePackets(packetQ)
  <2>1. CASE packetQ' = packetQ
    BY <2>1 DEF UpOnce
  <2>2. CASE packetQ # <<>> /\ packetQ' = Front(packetQ)
    BY <1>1, <2>2, OrderedLost, QueueFront DEF UpOnce
  <2> QED
    BY <2>1, <2>2
<1>3. Ordered(brokerQ', packetQ', dev'.requests)
  BY <1>2 DEF Ordered
<1>4. \A y \in Line(brokerQ', packetQ', dev'.requests) :
          \E x \in Line(brokerQ, packetQ, dev.requests) : Like(y, x)
  BY <1>2 DEF Line, Like
<1>5. RecsNumbered(packetQ', clientQ', Used)
  BY <1>2 DEF UpOnce, RecsNumbered
<1> QED
  BY <1>3, <1>4, <1>5, LineGoes

(* A publication of QoS 2 has the message id that is asked for.            *)
LEMMA RequestNumbered ==
    ASSUME NEW m, NEW r \in Requests(m), r.type = "PUBLISH"
    PROVE  r.n = left.requests /\ (r.qos = 2 => r.msgId = m)
<1> DEFINE confirmed == [type : {"PUBLISH"}, msgId : {m}, qos : DeviceQos \cap {1, 2},
                         n : {left.requests}, ref : PublishRefs]
           unconfirmed == [type : {"PUBLISH"}, msgId : {0}, qos : DeviceQos \cap {0},
                           n : {left.requests}, ref : PublishRefs]
           named == [type : {"PUBLISH"}, msgId : {0}, qos : DeviceQos \cap {3},
                     n : {left.requests}, ref : NamedRefs]
           registers == [type : {"REGISTER"}, msgId : {m}, name : Registrable \ Filters]
           filters == [type : {"SUBSCRIBE", "UNSUBSCRIBE"}, msgId : {m}, ref : SubscribeRefs]
<1>1. r \in confirmed => r.n = left.requests /\ r.msgId = m
  OBVIOUS
<1>2. r \in unconfirmed \/ r \in named => r.n = left.requests /\ r.qos # 2
  OBVIOUS
<1>3. r \notin registers /\ r \notin filters
  OBVIOUS
<1>4. \/ r \in confirmed \/ r \in unconfirmed \/ r \in named
      \/ r \in registers \/ r \in filters
  BY DEF Requests
<1> QED
  BY <1>1, <1>2, <1>3, <1>4

(* The device asks.                                                        *)
LEMMA DeviceAsksOnce ==
    ASSUME Sound, IInv, UpOnce, DeviceAsks
    PROVE  UpOnce'
<1> DEFINE L == Line(brokerQ, packetQ, dev.requests)
           D == ToSet(srv.delivered)
           M == Line(brokerQ', packetQ', dev'.requests)
<1>1. PICK r \in Requests(NextMsgId) :
           /\ packetQ' = Append(packetQ, FromDevice(r))
           /\ dev' = [dev EXCEPT !.requests = IF r.msgId = 0 THEN @ ELSE @ \cup {r}]
  BY DEF DeviceAsks, DeviceSends
<1>2. /\ dev.state = "active" /\ left.requests > 0
      /\ left' = [left EXCEPT !.requests = @ - 1]
      /\ UNCHANGED <<brokerQ, clientQ, srv>>
  BY DEF DeviceAsks
<1>3. /\ left.requests \in 0..MaxRequests /\ MaxRequests \in Nat /\ MaxMsgId \in Nat
      /\ MaxRequests <= MaxMsgId
      /\ left = [requests |-> left.requests, faults |-> left.faults, rests |-> left.rests]
      /\ dev = [state |-> dev.state, ids |-> dev.ids, requests |-> dev.requests,
                got |-> dev.got, receiving |-> dev.receiving]
      /\ Queue(packetQ)
  BY SoundParts DEF IInv, Shapes
<1>4. Used \in Nat /\ Used' = Used + 1 /\ NextMsgId = Used + 1 /\ left.requests + Used = MaxRequests
  <2>1. Used \in Nat /\ Used < MaxMsgId /\ left.requests + Used = MaxRequests
    BY <1>2, <1>3 DEF Used
  <2>2. Used' = Used + 1
    BY <1>2, <1>3 DEF Used
  <2>3. NextMsgId = (Used % MaxMsgId) + 1
    BY DEF NextMsgId, Used
  <2>4. Used % MaxMsgId = Used
    <3> HIDE DEF Used
    <3> QED
      BY <2>1, <1>3
  <2> QED
    BY <2>1, <2>2, <2>3, <2>4
<1>5. r.type = "PUBLISH" => r.n = left.requests /\ (r.qos = 2 => r.msgId = Used + 1)
  BY <1>4, RequestNumbered
<1>6. r.type \notin {"PUBREL", "CONNECT"}
  BY RequestRight DEF Asked
<1>7. dev'.requests = IF r.msgId = 0 THEN dev.requests ELSE dev.requests \cup {r}
  BY <1>1, <1>3
<1>8. /\ \A p \in L \cup D : Numbered(p, Used)
      /\ SameKind(L \cup D) /\ Released(srv.delivered, srv.receiving, L)
      /\ DeliveredOnce(srv.delivered) /\ ServerShape
  BY DEF UpOnce
<1>9. \A y \in ToSet(brokerQ) \cup DevicePackets(packetQ) : ~Clean(y)
  BY <1>2, Settled DEF SessionTypes, DevicePackets, Clean
<1>10. \A y \in ToSet(brokerQ) \cup DevicePackets(packetQ) : ~Bars(y, r)
  <2>1. \A y \in ToSet(brokerQ) \cup DevicePackets(packetQ) :
            y.type = "PUBREL" => y.msgId \in 0..Used /\ y.msgId # Used + 1
    BY <1>4, <1>8 DEF Line, Numbered
  <2> QED
    BY <1>5, <1>9, <2>1 DEF Bars, Second
<1>11. Ordered(brokerQ', packetQ', dev'.requests)
  <2>1. \A x : ~Bars(r, x)
    BY <1>6 DEF Bars, Clean
  <2> QED
    BY <1>1, <1>2, <1>3, <1>7, <1>10, <2>1, OrderedSends DEF UpOnce
<1>12. /\ DevicePackets(packetQ') = DevicePackets(packetQ) \cup {r}
       /\ ToSet(packetQ') = ToSet(packetQ) \cup {FromDevice(r)} /\ FromDevice(r).from = "device"
  BY <1>1, <1>3, PacketsOfAppend, QueueAppend DEF FromDevice
<1>13. M \subseteq L \cup {r}
  BY <1>2, <1>7, <1>12 DEF Line
<1> HIDE DEF L, M, D, Used
<1>14. Numbered(r, Used + 1)
  BY <1>2, <1>3, <1>4, <1>5, <1>6 DEF Numbered
<1>15. \A p \in L \cup D : Numbered(p, Used + 1)
  BY <1>3, <1>4, <1>8 DEF Numbered
<1>16. \A p \in L \cup D : p.type = "PUBLISH" /\ r.type = "PUBLISH" => p.n # r.n
  BY <1>3, <1>4, <1>5, <1>8 DEF Numbered
<1>17. SameKind(M \cup D)
  BY <1>8, <1>13, <1>16 DEF SameKind
<1>18. Released(srv.delivered, srv.receiving, M)
  <2>1. \A d \in D : Second(d) /\ Second(r) => d.msgId # r.msgId
    BY <1>4, <1>5, <1>8 DEF Second, Numbered
  <2> QED
    BY <1>8, <1>13, <2>1 DEF Released, D
<1>19. RecsNumbered(packetQ', clientQ', Used + 1)
  <2>1. \A k \in 0..Used : k \in 0..(Used + 1)
    BY <1>4
  <2> QED
    BY <1>2, <1>12, <2>1 DEF UpOnce, RecsNumbered
<1>20. \A p \in M \cup D : Numbered(p, Used')
  BY <1>4, <1>13, <1>14, <1>15
<1>21. ServerShape' /\ srv' = srv
  BY <1>2, <1>8 DEF ServerShape
<1> QED
  BY <1>4, <1>8, <1>11, <1>17, <1>18, <1>19, <1>20, <1>21 DEF UpOnce, M, D

(* The retry timer: what waits may be sent once more.                      *)
LEMMA DeviceRetriesOnce ==
    ASSUME Sound, IInv, UpOnce, DeviceRetries
    PROVE  UpOnce'
<1>1. PICK r \in dev.requests : packetQ' = Append(packetQ, FromDevice(r))
  BY DEF DeviceRetries, DeviceSends
<1>2. left' = [left EXCEPT !.faults = @ - 1] /\ UNCHANGED <<brokerQ, clientQ, dev, srv>>
  BY DEF DeviceRetries
<1>3. Used' = Used
  BY <1>2 DEF IInv, Shapes, Used
<1>4. RequestsRight(dev.requests, topics, Used)
  BY DEF IInv, Waiting
<1>5. \A x \in dev.requests : ~Bars(r, x)
  BY <1>4 DEF RequestsRight, Bars, Second, Asked, Clean
<1> QED
  BY <1>1, <1>2, <1>3, <1>5, SentOnce

(* A packet is lost.                                                       *)
LEMMA LostOnce ==
    ASSUME Sound, IInv, UpOnce, Lost
    PROVE  UpOnce'
<1>1. left' = [left EXCEPT !.faults = @ - 1] /\ UNCHANGED <<brokerQ, dev, srv>>
  BY DEF Lost
<1>2. Used' = Used
  BY <1>1 DEF IInv, Shapes, Used
<1>3. packetQ' = packetQ \/ (packetQ # <<>> /\ packetQ' = Front(packetQ))
  BY DEF Lost
<1>4. ToSet(clientQ') \subseteq ToSet(clientQ)
  <2>1. CASE clientQ' = clientQ
    BY <2>1
  <2>2. CASE clientQ # <<>> /\ clientQ' = Tail(clientQ)
    BY <2>2, QueueTail DEF IInv, Shapes
  <2> QED
    BY <2>1, <2>2 DEF Lost
<1> QED
  BY <1>1, <1>2, <1>3, <1>4, SilentOnce

(* From PUBREC on, the device repeats PUBREL.                              *)
LEMMA PubrecOnce ==
    ASSUME Sound, IInv, UpOnce, DeviceTakes, Head(clientQ).type = "PUBREC"
    PROVE  UpOnce'
<1> DEFINE h == Head(clientQ)
           release == [type |-> "PUBREL", msgId |-> h.msgId]
<1>1. /\ clientQ # <<>> /\ clientQ' = Tail(clientQ) /\ UNCHANGED <<brokerQ, left, srv>>
      /\ packetQ' = Append(packetQ, FromDevice(release))
      /\ dev' = [dev EXCEPT !.requests =
                    {IF r \in Answered({"PUBLISH"}, h.msgId) THEN release ELSE r : r \in @}]
  BY DEF DeviceTakes, DeviceSends
<1>2. dev'.requests = {IF r \in Answered({"PUBLISH"}, h.msgId) THEN release ELSE r : r \in dev.requests}
  BY <1>1 DEF IInv, Shapes
<1>3. ToSet(clientQ') \subseteq ToSet(clientQ) /\ h \in ToSet(clientQ)
  BY <1>1, QueueTail DEF IInv, Shapes
<1>4. h.msgId \in 0..Used /\ Used' = Used
  BY <1>1, <1>3 DEF UpOnce, RecsNumbered, Used
<1>5. release.type = "PUBREL" /\ release.msgId = h.msgId
  OBVIOUS
<1>6. \A x \in dev'.requests :
          x = release \/ (x \in dev.requests /\ ~(x.type = "PUBLISH" /\ x.msgId = h.msgId))
  BY <1>2 DEF Answered
<1> HIDE DEF h, release
<1>7. release.type # "PUBLISH" /\ Numbered(release, Used)
  BY <1>4, <1>5 DEF Numbered
<1>8. \A x \in dev'.requests : ~Bars(release, x)
  BY <1>5, <1>6 DEF Bars, Second, Clean
<1> QED
  BY <1>1, <1>3, <1>4, <1>6, <1>7, <1>8, SentOnce

(* The device takes a packet.                                              *)
LEMMA DeviceTakesOnce ==
    ASSUME Sound, IInv, UpOnce, DeviceTakes
    PROVE  UpOnce'
<1> DEFINE h == Head(clientQ)
<1>1. /\ clientQ # <<>> /\ clientQ' = Tail(clientQ) /\ UNCHANGED <<brokerQ, left, srv>>
  BY DEF DeviceTakes
<1>2. ToSet(clientQ') \subseteq ToSet(clientQ) /\ Used' = Used /\ DownRight(h)
  BY <1>1, QueueTail, AnswerTaken DEF IInv, Shapes, Used
<1>3. dev = [state |-> dev.state, ids |-> dev.ids, requests |-> dev.requests,
             got |-> dev.got, receiving |-> dev.receiving]
  BY DEF IInv, Shapes
<1>4. CASE h.type = "PUBREC"
  BY <1>4, PubrecOnce
<1>5. ASSUME NEW m, Plain(m), packetQ' = Append(packetQ, FromDevice(m)),
             dev'.requests = dev.requests
      PROVE  UpOnce'
  <2>1. m.type # "PUBLISH" /\ Numbered(m, Used) /\ \A x \in dev'.requests : ~Bars(m, x)
    BY <1>5 DEF Plain, Numbered, Bars
  <2> QED
    BY <1>1, <1>2, <1>5, <2>1, SentOnce
<1>6. ASSUME packetQ' = packetQ, \A x \in dev'.requests : x \in dev.requests
      PROVE  UpOnce'
  BY <1>1, <1>2, <1>6, SilentOnce
<1>7. CASE h.type = "PUBLISH"
  <2>1. PICK m : m = [type |-> IF h.qos = 2 /\ Known(h.ref) THEN "PUBREC" ELSE "PUBACK",
                      msgId |-> h.msgId,
                      rc |-> IF Known(h.ref) THEN "accepted" ELSE "invalid id"]
    OBVIOUS
  <2>2. /\ \/ dev' = dev
           \/ \E got, receiving : dev' = [dev EXCEPT !.got = got, !.receiving = receiving]
        /\ packetQ' = packetQ \/ packetQ' = Append(packetQ, FromDevice(m))
    BY <1>7, <2>1 DEF DeviceTakes, DeviceSends
  <2>3. dev'.requests = dev.requests
    BY <1>3, <2>2
  <2>4. Plain(m)
    BY <2>1 DEF Plain, Clean
  <2> QED
    BY <1>5, <1>6, <2>2, <2>3, <2>4
<1>8. CASE h.type = "PUBREL"
  <2>1. PICK m : m = [type |-> "PUBCOMP", msgId |-> h.msgId]
    OBVIOUS
  <2>2. /\ dev' = [dev EXCEPT !.receiving = @ \ {h.msgId}]
        /\ packetQ' = Append(packetQ, FromDevice(m))
    BY <1>8, <2>1 DEF DeviceTakes, DeviceSends
  <2>3. dev'.requests = dev.requests
    BY <1>3, <2>2
  <2>4. Plain(m)
    BY <2>1 DEF Plain, Clean
  <2> QED
    BY <1>5, <2>2, <2>3, <2>4
<1>9. CASE h.type \in {"PUBACK", "PUBCOMP", "UNSUBACK", "REGACK", "SUBACK"}
  <2>1. /\ \E types, ids : dev' = [dev EXCEPT !.requests = @ \ Answered(types, h.msgId),
                                              !.ids = ids]
        /\ packetQ' = packetQ
    <3>1. CASE h.type \in {"PUBACK", "PUBCOMP", "UNSUBACK"}
      <4>1. \E types : dev' = [dev EXCEPT !.requests = @ \ Answered(types, h.msgId)]
        BY <3>1 DEF DeviceTakes
      <4>2. PICK types : dev' = [dev EXCEPT !.requests = @ \ Answered(types, h.msgId)]
        BY <4>1
      <4>3. dev' = [dev EXCEPT !.requests = @ \ Answered(types, h.msgId), !.ids = dev.ids]
        BY <1>3, <4>2
      <4> QED
        BY <3>1, <4>3 DEF DeviceTakes
    <3>2. CASE h.type \in {"REGACK", "SUBACK"}
      BY <3>2 DEF DeviceTakes
    <3> QED
      BY <1>9, <3>1, <3>2
  <2>2. \A x \in dev'.requests : x \in dev.requests
    BY <1>3, <2>1
  <2> QED
    BY <1>6, <2>1, <2>2
<1>10. CASE h.type \in {"CONNACK", "DISCONNECT", "PINGRESP"}
  <2>1. (\E state : dev' = [dev EXCEPT !.state = state]) /\ packetQ' = packetQ
    BY <1>10 DEF DeviceTakes
  <2>2. dev'.requests = dev.requests
    BY <1>3, <2>1
  <2> QED
    BY <1>6, <2>1, <2>2
<1> QED
  BY <1>2, <1>4, <1>7, <1>8, <1>9, <1>10 DEF DownRight

(* The device sleeps, wakes up or begins a new session.                    *)
LEMMA DeviceRestsOnce ==
    ASSUME Sound, IInv, UpOnce, DeviceRests
    PROVE  UpOnce'
<1>1. /\ left' = [left EXCEPT !.rests = @ - 1] /\ UNCHANGED <<brokerQ, clientQ, srv>>
      /\ dev = [state |-> dev.state, ids |-> dev.ids, requests |-> dev.requests,
                got |-> dev.got, receiving |-> dev.receiving]
      /\ left = [requests |-> left.requests, faults |-> left.faults, rests |-> left.rests]
  BY DEF DeviceRests, IInv, Shapes
<1>2. Used' = Used
  BY <1>1 DEF Used
<1>3. ASSUME NEW p, p.type \in {"DISCONNECT", "PINGREQ"}, packetQ' = Append(packetQ, FromDevice(p)),
             dev'.requests = dev.requests
      PROVE  UpOnce'
  <2>1. p.type # "PUBLISH" /\ Numbered(p, Used) /\ \A x \in dev'.requests : ~Bars(p, x)
    BY <1>3 DEF Numbered, Bars, Clean
  <2> QED
    BY <1>1, <1>2, <1>3, <2>1, SentOnce
<1>4. ASSUME NEW p, p.type = "CONNECT", packetQ' = Append(packetQ, FromDevice(p)),
             dev'.requests = {}
      PROVE  UpOnce'
  <2>1. p.type # "PUBLISH" /\ Numbered(p, Used)
    BY <1>4 DEF Numbered
  <2> QED
    BY <1>1, <1>2, <1>4, <2>1, SentOnce
<1>5. CASE packetQ' = Append(packetQ, FromDevice([type |-> "DISCONNECT"]))
           /\ dev' = [dev EXCEPT !.state = "resting"]
  <2>1. PICK p : p = [type |-> "DISCONNECT"]
    OBVIOUS
  <2>2. packetQ' = Append(packetQ, FromDevice(p)) /\ dev'.requests = dev.requests
    BY <1>1, <1>5, <2>1
  <2> QED
    BY <1>3, <2>1, <2>2
<1>6. CASE packetQ' = Append(packetQ, FromDevice([type |-> "PINGREQ"]))
           /\ dev' = [dev EXCEPT !.state = "awake"]
  <2>1. PICK p : p = [type |-> "PINGREQ"]
    OBVIOUS
  <2>2. packetQ' = Append(packetQ, FromDevice(p)) /\ dev'.requests = dev.requests
    BY <1>1, <1>6, <2>1
  <2> QED
    BY <1>3, <2>1, <2>2
<1>7. CASE packetQ' = Append(packetQ, FromDevice([type |-> "CONNECT", clean |-> TRUE]))
           /\ dev' = [dev EXCEPT !.state = "connecting", !.requests = {},
                                 !.receiving = {}, !.ids = [n \in Long |-> 0]]
  <2>1. PICK p : p = [type |-> "CONNECT", clean |-> TRUE]
    OBVIOUS
  <2>2. packetQ' = Append(packetQ, FromDevice(p)) /\ dev'.requests = {}
    BY <1>1, <1>7, <2>1
  <2> QED
    BY <1>4, <2>1, <2>2
<1>8. CASE packetQ' = Append(packetQ, FromDevice([type |-> "CONNECT", clean |-> FALSE]))
           /\ dev' = [dev EXCEPT !.state = "connecting"]
  <2>1. PICK p : p = [type |-> "CONNECT", clean |-> FALSE]
    OBVIOUS
  <2>2. packetQ' = Append(packetQ, FromDevice(p)) /\ dev'.requests = dev.requests
    BY <1>1, <1>8, <2>1
  <2>3. p.type # "PUBLISH" /\ Numbered(p, Used) /\ \A x \in dev'.requests : ~Bars(p, x)
    BY <2>1 DEF Numbered, Bars, Clean
  <2> QED
    BY <1>1, <1>2, <2>2, <2>3, SentOnce
<1> QED
  BY <1>5, <1>6, <1>7, <1>8 DEF DeviceRests, DeviceSends

-----------------------------------------------------------------------------
(* The device's steps and the broker's publications                        *)

(* The device takes a publication of the broker: it was in its queue only. *)
LEMMA GotOne ==
    ASSUME IInv, DownOnce, clientQ # <<>>, clientQ' = Tail(clientQ), UNCHANGED <<saved, srv>>,
           PacketCopiesOnce(packetQ'), PacketCopies(packetQ') \subseteq PacketCopies(packetQ),
           dev'.got = dev.got \/ (Copy(Head(clientQ)) /\ dev'.got = Append(dev.got, Head(clientQ).n))
    PROVE  DownOnce'
<1> DEFINE h == Head(clientQ)
<1>1. Queue(clientQ)
  BY DEF IInv, Shapes
<1>2. /\ CopiesOnce(clientQ') /\ Copies(clientQ') \subseteq Copies(clientQ)
      /\ Copy(h) => h.n \in Copies(clientQ) /\ h.n \notin Copies(clientQ')
  BY <1>1, CopiesTail DEF DownOnce
<1>3. CASE dev'.got = dev.got
  BY <1>2, <1>3, DownQuiet
<1>4. CASE Copy(h) /\ dev'.got = Append(dev.got, h.n)
  <2>1. /\ Queue(dev'.got) /\ ToSet(dev'.got) = ToSet(dev.got) \cup {h.n}
        /\ Len(dev'.got) = Len(dev.got) + 1 /\ Len(dev.got) \in Nat
        /\ \A i \in 1..Len(dev.got) : dev'.got[i] = dev.got[i] /\ dev.got[i] \in ToSet(dev.got)
        /\ dev'.got[Len(dev.got) + 1] = h.n
    BY <1>4, QueueAppend, QueueElements DEF DownOnce
  <2>2. /\ h.n \notin ToSet(dev.got) /\ h.n \notin PacketCopies(packetQ)
        /\ h.n \notin Copies(saved) /\ h.n \notin srv.topublish
    BY <1>2, <1>4 DEF DownOnce, Apart
  <2>3. GotOnce(dev.got) /\ CopiesOnce(saved)
        /\ Apart(PacketCopies(packetQ), Copies(saved), Copies(clientQ), ToSet(dev.got), srv.topublish)
    BY DEF DownOnce
  <2> HIDE DEF h
  <2>4. GotOnce(dev'.got)
    <3>1. ASSUME NEW i \in 1..Len(dev'.got), NEW j \in 1..Len(dev'.got), dev'.got[i] = dev'.got[j]
          PROVE  i = j
      <4>1. CASE i \in 1..Len(dev.got) /\ j \in 1..Len(dev.got)
        BY <2>1, <2>3, <3>1, <4>1 DEF GotOnce
      <4>2. CASE i \in 1..Len(dev.got) /\ j = Len(dev.got) + 1
        BY <2>1, <2>2, <3>1, <4>2
      <4>3. CASE i = Len(dev.got) + 1 /\ j \in 1..Len(dev.got)
        BY <2>1, <2>2, <3>1, <4>3
      <4> QED
        BY <2>1, <4>1, <4>2, <4>3
    <3> QED
      BY <3>1 DEF GotOnce
  <2>5. Apart(PacketCopies(packetQ'), Copies(saved'), Copies(clientQ'), ToSet(dev'.got),
              srv'.topublish)
    BY <1>2, <1>4, <2>1, <2>2, <2>3 DEF Apart
  <2> QED
    BY <1>2, <2>1, <2>3, <2>4, <2>5 DEF DownOnce
<1> QED
  BY <1>3, <1>4

(* The device's own packets are no publications of the broker.             *)
LEMMA SentCopies ==
    ASSUME IInv, DownOnce, NEW p, packetQ' = Append(packetQ, FromDevice(p))
    PROVE  PacketCopiesOnce(packetQ') /\ PacketCopies(packetQ') \subseteq PacketCopies(packetQ)
<1>1. Queue(packetQ) /\ PacketCopiesOnce(packetQ)
  BY DEF IInv, Shapes, DownOnce
<1>2. ~PacketCopy(FromDevice(p))
  BY DEF PacketCopy, FromDevice
<1> QED
  BY <1>1, <1>2, PacketCopiesAppend

(* The device asks, repeats, rests, or a packet is lost.                   *)
LEMMA DeviceDown ==
    ASSUME IInv, DownOnce, DeviceAsks \/ DeviceRetries \/ Lost \/ DeviceRests
    PROVE  DownOnce'
<1>1. /\ dev = [state |-> dev.state, ids |-> dev.ids, requests |-> dev.requests,
                got |-> dev.got, receiving |-> dev.receiving]
      /\ Queue(clientQ) /\ Queue(packetQ) /\ PacketCopiesOnce(packetQ) /\ CopiesOnce(clientQ)
  BY DEF IInv, Shapes, DownOnce
<1>2. UNCHANGED <<saved, srv>>
  BY DEF DeviceAsks, DeviceRetries, Lost, DeviceRests, client
<1>3. dev'.got = dev.got
  <2>1. CASE DeviceRetries \/ Lost
    BY <2>1 DEF DeviceRetries, Lost
  <2>2. CASE DeviceAsks
    <3>1. \E requests : dev' = [dev EXCEPT !.requests = requests]
      BY <2>2 DEF DeviceAsks
    <3> QED
      BY <1>1, <3>1
  <2>3. CASE DeviceRests
    <3>1. \E state, requests, receiving, ids :
              dev' = [dev EXCEPT !.state = state, !.requests = requests,
                                 !.receiving = receiving, !.ids = ids]
      <4>1. CASE \E state : dev' = [dev EXCEPT !.state = state]
        <5>1. PICK state : dev' = [dev EXCEPT !.state = state]
          BY <4>1
        <5>2. dev' = [dev EXCEPT !.state = state, !.requests = dev.requests,
                                 !.receiving = dev.receiving, !.ids = dev.ids]
          BY <1>1, <5>1
        <5> QED
          BY <5>2
      <4>2. CASE dev' = [dev EXCEPT !.state = "connecting", !.requests = {},
                                    !.receiving = {}, !.ids = [n \in Long |-> 0]]
        BY <4>2
      <4> QED
        BY <2>3, <4>1, <4>2 DEF DeviceRests
    <3> QED
      BY <1>1, <3>1
  <2> QED
    BY <2>1, <2>2, <2>3
<1>4. PacketCopiesOnce(packetQ') /\ PacketCopies(packetQ') \subseteq PacketCopies(packetQ)
  <2>1. CASE packetQ' = packetQ
    BY <1>1, <2>1
  <2>2. CASE \E p : packetQ' = Append(packetQ, FromDevice(p))
    BY <2>2, SentCopies
  <2>3. CASE packetQ # <<>> /\ packetQ' = Front(packetQ)
    BY <1>1, <2>3, PacketCopiesFront
  <2>4. Lost => packetQ' = packetQ \/ (packetQ # <<>> /\ packetQ' = Front(packetQ))
    BY DEF Lost
  <2>5. DeviceAsks \/ DeviceRetries \/ DeviceRests => \E p : packetQ' = Append(packetQ, FromDevice(p))
    BY DEF DeviceAsks, DeviceRetries, DeviceRests, DeviceSends
  <2> QED
    BY <2>1, <2>2, <2>3, <2>4, <2>5
<1>5. CopiesOnce(clientQ') /\ Copies(clientQ') \subseteq Copies(clientQ)
  <2>1. CASE clientQ' = clientQ
    BY <1>1, <2>1
  <2>2. CASE clientQ # <<>> /\ clientQ' = Tail(clientQ)
    BY <1>1, <2>2, CopiesTail
  <2> QED
    BY <2>1, <2>2 DEF DeviceAsks, DeviceRetries, Lost, DeviceRests
<1> QED
  BY <1>2, <1>3, <1>4, <1>5, DownQuiet

(* The device takes a packet.                                              *)
LEMMA DeviceTakesDown ==
    ASSUME IInv, DownOnce, DeviceTakes
    PROVE  DownOnce'
<1> DEFINE h == Head(clientQ)
<1>1. /\ clientQ # <<>> /\ clientQ' = Tail(clientQ) /\ UNCHANGED <<saved, srv>>
  BY DEF DeviceTakes, client
<1>2. /\ dev = [state |-> dev.state, ids |-> dev.ids, requests |-> dev.requests,
                got |-> dev.got, receiving |-> dev.receiving]
      /\ DownRight(h) /\ PacketCopiesOnce(packetQ)
  BY <1>1, AnswerTaken DEF IInv, Shapes, DownOnce
<1>3. packetQ' = packetQ \/ \E p : packetQ' = Append(packetQ, FromDevice(p))
  BY <1>2 DEF DeviceTakes, DeviceSends, DownRight
<1>4. PacketCopiesOnce(packetQ') /\ PacketCopies(packetQ') \subseteq PacketCopies(packetQ)
  BY <1>2, <1>3, SentCopies
<1>5. dev'.got = dev.got \/ (Copy(h) /\ dev'.got = Append(dev.got, h.n))
  <2>1. CASE h.type = "PUBLISH"
    <3>1. \/ dev' = dev
          \/ \E receiving :
              dev' = [dev EXCEPT !.got = IF h.qos = 2 /\ h.msgId \in dev.receiving THEN @
                                         ELSE Append(@, h.n),
                                 !.receiving = receiving]
      BY <2>1 DEF DeviceTakes
    <3> QED
      BY <1>2, <2>1, <3>1 DEF Copy
  <2>2. CASE h.type = "PUBREL"
    <3>1. \E receiving : dev' = [dev EXCEPT !.receiving = receiving]
      BY <2>2 DEF DeviceTakes
    <3> QED
      BY <1>2, <3>1
  <2>3. CASE h.type \in {"PUBREC", "PUBACK", "PUBCOMP", "UNSUBACK"}
    <3>1. \E requests : dev' = [dev EXCEPT !.requests = requests]
      BY <2>3 DEF DeviceTakes
    <3> QED
      BY <1>2, <3>1
  <2>4. CASE h.type \in {"REGACK", "SUBACK"}
    <3>1. \E requests, ids : dev' = [dev EXCEPT !.requests = requests, !.ids = ids]
      BY <2>4 DEF DeviceTakes
    <3> QED
      BY <1>2, <3>1
  <2>5. CASE h.type \in {"CONNACK", "DISCONNECT", "PINGRESP"}
    <3>1. \E state : dev' = [dev EXCEPT !.state = state]
      BY <2>5 DEF DeviceTakes
    <3> QED
      BY <1>2, <3>1
  <2> QED
    BY <1>2, <2>1, <2>2, <2>3, <2>4, <2>5 DEF DownRight
<1> QED
  BY <1>1, <1>4, <1>5, GotOne

(* At the start nothing is on its way and nothing was delivered.           *)
LEMMA InitOnce ==
    ASSUME Sound, Init
    PROVE  Once
<1>1. /\ saved = <<>> /\ packetQ = <<>> /\ brokerQ = <<>> /\ clientQ = <<>>
      /\ dev.requests = {} /\ dev.got = <<>>
      /\ srv = [subs |-> {}, inflight |-> [m \in MsgIds |-> <<>>],
                receiving |-> {}, delivered |-> <<>>, acked |-> {},
                topublish |-> Publications]
  BY DEF Init
<1>2. srv.delivered = <<>> /\ srv = [subs |-> srv.subs, inflight |-> srv.inflight,
              receiving |-> srv.receiving, delivered |-> srv.delivered,
              acked |-> srv.acked, topublish |-> srv.topublish]
  BY <1>1
<1>3. Queue(<<>>) /\ ToSet(<<>>) = {} /\ Len(<<>>) = 0
  BY QueueEmpty
<1>4. UpOnce
  <2>1. ServerShape
    BY <1>2, <1>3 DEF ServerShape
  <2>2. DevicePackets(packetQ) = {} /\ Line(brokerQ, packetQ, dev.requests) = {}
    BY <1>1, <1>3 DEF DevicePackets, Line
  <2>3. Ordered(brokerQ, packetQ, dev.requests)
    BY <1>1, <1>3, <2>2 DEF Ordered
  <2>4. /\ RecsNumbered(packetQ, clientQ, Used) /\ DeliveredOnce(srv.delivered)
        /\ Released(srv.delivered, srv.receiving, Line(brokerQ, packetQ, dev.requests))
    BY <1>1, <1>2, <1>3 DEF RecsNumbered, DeliveredOnce, Released
  <2>5. Line(brokerQ, packetQ, dev.requests) \cup ToSet(srv.delivered) = {}
    BY <1>2, <1>3, <2>2
  <2>6. SameKind(Line(brokerQ, packetQ, dev.requests) \cup ToSet(srv.delivered))
    BY <2>5 DEF SameKind
  <2> QED
    BY <2>1, <2>3, <2>4, <2>5, <2>6 DEF UpOnce
<1>5. DownOnce
  BY <1>1, <1>3
     DEF DownOnce, PacketCopiesOnce, CopiesOnce, GotOnce, Apart, PacketCopies, Copies
<1> QED
  BY <1>4, <1>5 DEF Once

(* Every step keeps it.                                                    *)
LEMMA StepOnce ==
    ASSUME Sound, IInv, Once, [Next]_vars
    PROVE  Once'
<1>1. CASE UNCHANGED vars
  <2>1. UNCHANGED <<saved, packetQ, brokerQ, clientQ, dev, srv, left>>
    BY <1>1 DEF vars, client, queues
  <2> QED
    BY <2>1 DEF Once, UpOnce, DownOnce, ServerShape, Used
<1>2. CASE PacketHandle
  <2>1. CASE DevicePublish \/ DeviceRegister \/ DeviceSubscribe \/ DeviceUnsubscribe
    BY <2>1, DevicePublishOnce, DeviceRequestOnce
  <2>2. CASE \E type \in {"PUBACK", "PUBREC", "PUBREL", "PUBCOMP"} : DeviceAck(type)
    BY <2>2, DeviceAckOnce
  <2>3. CASE BrokerPublish \/ BrokerPuback \/ BrokerSuback \/ BrokerUnsuback
    BY <2>3, BrokerPublishOnce, BrokerPacketOnce
  <2>4. CASE \E type \in {"PUBREC", "PUBREL", "PUBCOMP"} : BrokerAck(type)
    BY <2>4, BrokerAckOnce
  <2>5. CASE Connect \/ Connack \/ Sleep \/ Pingreq \/ Pingresp
    BY <2>5, ConnectOnce, BrokerPacketOnce, SleepOnce, PingreqOnce
  <2> QED
    BY <1>2, <2>1, <2>2, <2>3, <2>4, <2>5 DEF PacketHandle
<1>3. CASE ServerTakes
  BY <1>3, ServerTakesOnce
<1>4. CASE \E pub \in Publications : ServerPublishes(pub)
  BY <1>4, ServerPublishesOnce
<1>5. CASE DeviceAsks \/ DeviceRetries \/ Lost \/ DeviceTakes \/ DeviceRests
  <2>1. UpOnce'
    BY <1>5, DeviceAsksOnce, DeviceRetriesOnce, LostOnce, DeviceTakesOnce, DeviceRestsOnce DEF Once
  <2>2. DownOnce'
    BY <1>5, DeviceDown, DeviceTakesDown DEF Once
  <2> QED
    BY <2>1, <2>2 DEF Once
<1> QED
  BY <1>1, <1>2, <1>3, <1>4, <1>5 DEF Next

(* What was delivered once stays so.                                       *)
LEMMA AlwaysOnce ==
    ASSUME Sound
    PROVE  Spec => []Once
<1>1. Init => Once
  BY InitOnce
<1>2. IInv /\ Once /\ [Next]_vars => Once'
  BY StepOnce
<1>3. Spec => []IInv
  BY Always
<1> QED
  BY <1>1, <1>2, <1>3, PTL DEF Spec

(* Two publications of one request have one message id.                    *)
LEMMA OnceFollows ==
    ASSUME Sound, IInv, Once
    PROVE  ExactlyOnce
<1>1. MaxRequests \in Nat /\ Used \in Nat
  BY SoundParts, UsedNumber DEF IInv, Shapes
<1>2. ASSUME NEW i \in 1..Len(srv.delivered), NEW j \in 1..Len(srv.delivered),
             srv.delivered[i].qos = 2, srv.delivered[i].n = srv.delivered[j].n
      PROVE  i = j
  <2> DEFINE d == srv.delivered[i]
             e == srv.delivered[j]
  <2>1. /\ d \in ToSet(srv.delivered) /\ e \in ToSet(srv.delivered)
        /\ d.type = "PUBLISH" /\ e.type = "PUBLISH"
    BY QueueElements DEF Once, UpOnce, ServerShape
  <2>2. Numbered(d, Used) /\ Numbered(e, Used)
    BY <2>1 DEF Once, UpOnce
  <2>3. e.qos = 2
    BY <1>2, <2>1 DEF Once, UpOnce, SameKind
  <2>4. d.msgId = e.msgId
    <3> HIDE DEF Used
    <3> QED
      BY <1>1, <1>2, <2>1, <2>2, <2>3 DEF Numbered
  <2>5. Second(d) /\ Second(e)
    BY <1>2, <2>1, <2>3 DEF Second
  <2> QED
    BY <2>4, <2>5 DEF Once, UpOnce, DeliveredOnce
<1>3. GotOnce(dev.got)
  BY DEF Once, DownOnce
<1> QED
  BY <1>2, <1>3 DEF ExactlyOnce, GotOnce

-----------------------------------------------------------------------------
(* The theorems                                                            *)

(* The answers on their way to the device (of MQTTGWPublishHandler,        *)
(* MQTTGWSubscribeHandler and MQTTSNSubscribeHandler) carry the id of what *)
(* it asked, every PUBLISH that MQTTSNPublishHandler::handlePublish sends  *)
(* to the broker has a topic, the maps of unanswered requests (TopicIdMap) *)
(* keep to their limit, and a publication of QoS 2 is delivered once in    *)
(* each direction, whatever is lost, repeated and handled late.            *)
THEOREM RequestsAreServed ==
    Sound => (Spec => []RequestsServed)
<1> SUFFICES ASSUME Sound PROVE Spec => []RequestsServed
  OBVIOUS
<1>1. IInv /\ Once => RequestsServed
  BY AnswersFollow, TopicFollows, BoundsFollow, OnceFollows DEF RequestsServed
<1>2. Spec => []IInv
  BY Always
<1>3. Spec => []Once
  BY AlwaysOnce
<1> QED
  BY <1>1, <1>2, <1>3, PTL

(* What the device holds as the id of a name is that id in the gateway's   *)
(* Topics, through sleeps, new sessions (eraseNormal) and repetitions.     *)
THEOREM RegistrationsHold ==
    Sound => (Spec => []RegistrationHolds)
<1> SUFFICES ASSUME Sound PROVE Spec => []RegistrationHolds
  OBVIOUS
<1>1. IInv => RegistrationHolds
  BY RegistrationFollows
<1>2. Spec => []IInv
  BY Always
<1> QED
  BY <1>1, <1>2, PTL
=============================================================================
