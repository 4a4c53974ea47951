---------------------------- MODULE Topics_proofs ----------------------------
(***************************************************************************)
(* For any names, any sizes of the table and any number of ids greater     *)
(* than it: two topics of a client have different ids, although the        *)
(* counter of ids wraps and is not reset when the table is emptied, and    *)
(* what was given out stays in the table and is found by its id until it   *)
(* is erased.                                                              *)
(*                                                                         *)
(* An id is given again after MaxTid others.  A normal topic is younger,   *)
(* counted in ids, than the topics behind it are many (Age), because an id *)
(* is given with a topic only, and topics go all at once; the table being  *)
(* smaller than MaxTid, the next id is no topic's.                         *)
(***************************************************************************)
EXTENDS Topics, TLAPS, WellFoundedInduction, NaturalsInduction, SequenceTheorems

(* A set of natural numbers has its Min.                                   *)
LEMMA LeastIndex ==
    ASSUME NEW I \in SUBSET Nat, I # {}
    PROVE  Min(I) \in I /\ \A i \in I : Min(I) <= i
<1>1. \E i \in I : \A j \in I : <<j, i>> \notin OpToRel(<, Nat)
  BY NatLessThanWellFounded, WFMin
<1>2. OpToRel(<, Nat) = { p \in Nat \X Nat : p[1] < p[2] }
  BY Zenon DEF OpToRel
<1> DEFINE Less == { p \in Nat \X Nat : p[1] < p[2] }
<1>3. PICK i \in I : \A j \in I : <<j, i>> \notin Less
  BY <1>1, <1>2
<1>4. ASSUME NEW j \in I PROVE i <= j
  <2>1. <<j, i>> \in Nat \X Nat /\ (j < i => <<j, i>> \in Less)
    OBVIOUS
  <2> QED
    BY <1>3, <2>1
<1> QED
  BY <1>4 DEF Min

\* How many ids were given since that of the i-th topic.
Age(table, i) ==
    IF table.list[i].id <= table.nextId THEN table.nextId - table.list[i].id
    ELSE table.nextId + MaxTid - table.list[i].id

\* The normal topics have the last ids that were given, in their order.
TableSound(table) ==
    /\ table \in [list : Seq(Topic), nextId : 0..MaxTid]
    /\ \A i \in 1..Len(table.list) :
           table.list[i].type = "normal" =>
               table.list[i].id <= MaxTid /\ Age(table, i) <= Len(table.list) - i
    /\ \A i, j \in 1..Len(table.list) :
           table.list[i].type = "normal" /\ table.list[j].type = "normal" /\ i < j
           => Age(table, j) < Age(table, i)

\* What was given out is in the table.
Kept(topicsGiven, table) ==
    /\ topicsGiven \subseteq Topic
    /\ \A t \in topicsGiven : \E i \in 1..Len(table.list) : table.list[i] = t

IInv == TableSound(topics) /\ Kept(given, topics)

(* What is in a sound table.                                               *)
LEMMA TableElements ==
    ASSUME NEW table, TableSound(table)
    PROVE  /\ table.list \in Seq(Topic) /\ Len(table.list) \in Nat
           /\ table.nextId \in 0..MaxTid
           /\ \A i \in 1..Len(table.list) :
                 /\ table.list[i] \in Topic
                 /\ table.list[i].type \in {"normal", "predef"}
                 /\ table.list[i].id \in 1..(MaxTid + 1)
<1>1. table.list \in Seq(Topic) /\ table.nextId \in 0..MaxTid
  BY DEF TableSound
<1>2. Len(table.list) \in Nat
  BY <1>1, LenProperties
<1>3. \A i \in 1..Len(table.list) : table.list[i] \in Topic
  BY <1>1, ElementOfSeq
<1>4. \A t \in Topic : t.type \in {"normal", "predef"} /\ t.id \in 1..(MaxTid + 1)
  BY DEF Topic
<1> QED
  BY <1>1, <1>2, <1>3, <1>4

(* The ids of normal topics are different.                                 *)
LEMMA IdsDiffer ==
    ASSUME ListAssumption, NEW table, TableSound(table),
           NEW i \in 1..Len(table.list), NEW j \in 1..Len(table.list),
           table.list[i].type = "normal", table.list[j].type = "normal",
           table.list[i].id = table.list[j].id
    PROVE  i = j
<1>1. Age(table, i) = Age(table, j)
  BY DEF Age
<1>2. Age(table, i) \in Int
  BY TableElements DEF Age, ListAssumption
<1>3. ~(i < j) /\ ~(j < i)
  BY <1>1, <1>2 DEF TableSound
<1> QED
  BY <1>3, TableElements

(* getTopicById: of a normal topic, the topic with the id.                 *)
LEMMA ByIdFound ==
    ASSUME ListAssumption, NEW table, TableSound(table), NEW type, NEW id
    PROVE  /\ TopicById(table, type, id) # 0 =>
                 /\ TopicById(table, type, id) \in 1..Len(table.list)
                 /\ table.list[TopicById(table, type, id)].type = type
                 /\ table.list[TopicById(table, type, id)].id = id
           /\ TopicById(table, type, id) = 0 =>
                 \A i \in 1..Len(table.list) :
                    ~(table.list[i].type = type /\ table.list[i].id = id)
<1> DEFINE I == {i \in 1..Len(table.list) : table.list[i].type = type /\ table.list[i].id = id}
<1>1. TopicById(table, type, id) = IF I # {} THEN Min(I) ELSE 0
  BY DEF TopicById, SelectInSeq
<1>2. CASE I = {}
  <2>1. TopicById(table, type, id) = 0
    BY <1>1, <1>2
  <2> QED
    BY <1>2, <2>1
<1>3. CASE I # {}
  <2>1. I \in SUBSET Nat
    OBVIOUS
  <2>2. Min(I) \in I
    <3> HIDE DEF I
    <3> QED
      BY <1>3, <2>1, LeastIndex
  <2>3. TopicById(table, type, id) \in I
    BY <1>1, <1>3, <2>2
  <2> QED
    BY <2>3
<1> QED
  BY <1>2, <1>3

(* The oldest id is not given again while its topic is in the table.       *)
LEMMA AgeGrows ==
    ASSUME ListAssumption, NEW table, TableSound(table), ~Full(table), NEW new,
           new.nextId = NextTopicId(table.nextId),
           NEW i \in 1..Len(table.list), new.list[i] = table.list[i],
           table.list[i].type = "normal"
    PROVE  Age(new, i) = Age(table, i) + 1
<1>1. /\ table.nextId \in 0..MaxTid /\ Len(table.list) \in Nat
      /\ table.list[i].id \in 1..(MaxTid + 1)
  BY TableElements
<1>2. table.list[i].id <= MaxTid /\ Age(table, i) <= Len(table.list) - i
  BY DEF TableSound
<1>3. MaxTopics \in Nat /\ MaxTid \in Nat /\ MaxTopics < MaxTid /\ Len(table.list) < MaxTopics
  BY <1>1 DEF ListAssumption, Full
<1> DEFINE id == table.list[i].id
           n == table.nextId
           k == Len(table.list)
<1>4. /\ Age(table, i) = IF id <= n THEN n - id ELSE n + MaxTid - id
      /\ Age(new, i) = IF id <= new.nextId THEN new.nextId - id ELSE new.nextId + MaxTid - id
  BY DEF Age
<1>5. new.nextId = IF n + 1 = MaxTid + 1 THEN 1 ELSE n + 1
  BY DEF NextTopicId
<1>6. /\ id \in Nat /\ 1 <= id /\ id <= MaxTid /\ n \in Nat /\ n <= MaxTid
      /\ k \in Nat /\ k < MaxTopics /\ i \in Nat /\ 1 <= i /\ Age(table, i) <= k - i
  BY <1>1, <1>2, <1>3
<1> HIDE DEF id, n, k
<1>7. CASE n = MaxTid
  <2>1. new.nextId = 1 /\ Age(table, i) = MaxTid - id
    BY <1>3, <1>4, <1>5, <1>6, <1>7
  <2>2. id # 1
    BY <1>3, <1>6, <2>1
  <2>3. Age(new, i) = 1 + MaxTid - id
    BY <1>3, <1>4, <1>6, <2>1, <2>2
  <2> QED
    BY <1>3, <1>6, <2>1, <2>3
<1>8. CASE n # MaxTid
  <2>1. new.nextId = n + 1
    BY <1>3, <1>5, <1>6, <1>8
  <2>2. CASE id <= n
    BY <1>3, <1>4, <1>6, <2>1, <2>2
  <2>3. CASE ~(id <= n)
    <3>1. Age(table, i) = n + MaxTid - id
      BY <1>4, <2>3
    <3>2. id # n + 1
      BY <1>3, <1>6, <3>1
    <3>3. Age(new, i) = (n + 1) + MaxTid - id
      BY <1>3, <1>4, <1>6, <2>1, <2>3, <3>2
    <3> QED
      BY <1>3, <1>6, <3>1, <3>3
  <2> QED
    BY <2>2, <2>3
<1> QED
  BY <1>7, <1>8

(* A table stays sound when a topic comes last.                            *)
LEMMA AddedLast ==
    ASSUME ListAssumption, NEW table, TableSound(table), ~Full(table), NEW t \in Topic, NEW new,
           t.type = "normal" => t.id = NextTopicId(table.nextId) /\ new.nextId = t.id,
           t.type = "predef" => new.nextId = table.nextId,
           new = [list |-> new.list, nextId |-> new.nextId],
           new.list = Append(table.list, t)
    PROVE  /\ TableSound(new) /\ Len(new.list) = Len(table.list) + 1
           /\ \A i \in 1..Len(table.list) : new.list[i] = table.list[i]
           /\ new.list[Len(new.list)] = t
<1>1. /\ table.list \in Seq(Topic) /\ Len(table.list) \in Nat
      /\ table.nextId \in 0..MaxTid
  BY TableElements
<1> DEFINE next == new.nextId
<1>2. /\ new.list = Append(table.list, t) /\ new.nextId = next
      /\ t.type = "normal" => next = NextTopicId(table.nextId) /\ t.id = next
      /\ t.type = "predef" => next = table.nextId
  OBVIOUS
<1>3. /\ new.list \in Seq(Topic) /\ Len(new.list) = Len(table.list) + 1
      /\ \A i \in 1..Len(table.list) : new.list[i] = table.list[i]
      /\ new.list[Len(table.list) + 1] = t
  BY <1>1, <1>2, AppendProperties
<1>4. next \in 0..MaxTid /\ t.type \in {"normal", "predef"}
  BY <1>1, <1>2 DEF ListAssumption, NextTopicId, Topic
<1>5. new \in [list : Seq(Topic), nextId : 0..MaxTid]
  BY <1>2, <1>3, <1>4
<1> DEFINE n == Len(table.list)
<1>6. n \in Nat /\ 1..Len(new.list) = 1..n \cup {n + 1} /\ Len(new.list) = n + 1 /\ new.list[n + 1] = t
  BY <1>1, <1>3
<1> HIDE DEF n
<1>7. \A i \in 1..n : new.list[i] = table.list[i]
  BY <1>3 DEF n
<1>8. \A i \in 1..n : table.list[i].type = "normal" =>
           /\ Age(new, i) = IF t.type = "normal" THEN Age(table, i) + 1 ELSE Age(table, i)
           /\ Age(table, i) \in Int
  <2>1. ASSUME NEW i \in 1..n, table.list[i].type = "normal"
        PROVE  /\ Age(new, i) = IF t.type = "normal" THEN Age(table, i) + 1 ELSE Age(table, i)
               /\ Age(table, i) \in Int
    <3>1. Age(table, i) \in Int
      BY TableElements DEF Age, n, ListAssumption
    <3>2. CASE t.type = "normal"
      BY <1>2, <1>7, <2>1, <3>1, <3>2, AgeGrows DEF n
    <3>3. CASE t.type = "predef"
      <4>1. new.nextId = table.nextId /\ new.list[i] = table.list[i] /\ t.type # "normal"
        BY <1>2, <1>7, <3>3
      <4> QED
        BY <3>1, <4>1 DEF Age
    <3> QED
      BY <1>4, <3>2, <3>3
  <2> QED
    BY <2>1
<1>9. t.type = "normal" => Age(new, n + 1) = 0 /\ t.id <= MaxTid
  BY <1>2, <1>4, <1>6 DEF Age
<1>10. \A i \in 1..n : table.list[i].type = "normal" =>
           /\ table.list[i].id <= MaxTid
           /\ Age(table, i) <= n - i /\ Age(table, i) >= 0
  <2>1. ASSUME NEW i \in 1..n, table.list[i].type = "normal" PROVE Age(table, i) >= 0
    <3>1. table.list[i].id <= MaxTid
      BY <2>1 DEF TableSound, n
    <3> QED
      BY <3>1, TableElements DEF Age, n, ListAssumption
  <2> QED
    BY <2>1 DEF TableSound, n
<1>11. \A i \in 1..Len(new.list) : new.list[i].type = "normal" =>
           /\ new.list[i].id <= MaxTid
           /\ Age(new, i) <= Len(new.list) - i
  <2>1. ASSUME NEW i \in 1..n, new.list[i].type = "normal"
        PROVE  /\ new.list[i].id <= MaxTid
               /\ Age(new, i) <= Len(new.list) - i
    <3>1. table.list[i].type = "normal" /\ new.list[i] = table.list[i]
      BY <1>7, <2>1
    <3>2. /\ Age(new, i) = IF t.type = "normal" THEN Age(table, i) + 1 ELSE Age(table, i)
          /\ Age(table, i) \in Int /\ Age(table, i) <= n - i
          /\ table.list[i].id <= MaxTid
      BY <1>8, <1>10, <3>1
    <3>3. Age(new, i) <= (n + 1) - i
      BY <1>6, <3>2
    <3> QED
      BY <1>6, <3>1, <3>2, <3>3
  <2>2. ASSUME t.type = "normal"
        PROVE  t.id <= MaxTid /\ Age(new, n + 1) <= Len(new.list) - (n + 1)
    BY <1>6, <1>9, <2>2
  <2> QED
    BY <1>6, <2>1, <2>2
<1>12. \A i, j \in 1..Len(new.list) :
           new.list[i].type = "normal" /\ new.list[j].type = "normal" /\ i < j
           => Age(new, j) < Age(new, i)
  <2>1. \A i, j \in 1..n :
           table.list[i].type = "normal" /\ table.list[j].type = "normal" /\ i < j
           => Age(table, j) < Age(table, i)
    BY DEF TableSound, n
  <2>2. ASSUME NEW i \in 1..n, NEW j \in 1..n,
               new.list[i].type = "normal", new.list[j].type = "normal", i < j
        PROVE  Age(new, j) < Age(new, i)
    <3>1. table.list[i].type = "normal" /\ table.list[j].type = "normal"
      BY <1>7, <2>2
    <3>2. Age(table, j) < Age(table, i)
      BY <2>1, <2>2, <3>1
    <3>3. /\ Age(new, i) = IF t.type = "normal" THEN Age(table, i) + 1 ELSE Age(table, i)
          /\ Age(new, j) = IF t.type = "normal" THEN Age(table, j) + 1 ELSE Age(table, j)
          /\ Age(table, i) \in Int /\ Age(table, j) \in Int
      BY <1>8, <3>1
    <3> QED
      BY <3>2, <3>3
  <2>3. ASSUME NEW i \in 1..n, t.type = "normal", new.list[i].type = "normal"
        PROVE  Age(new, n + 1) < Age(new, i)
    <3>1. table.list[i].type = "normal"
      BY <1>7, <2>3
    <3>2. Age(new, i) = Age(table, i) + 1 /\ Age(table, i) \in Int /\ Age(table, i) >= 0
      BY <1>8, <1>10, <2>3, <3>1
    <3> QED
      BY <1>9, <2>3, <3>2
  <2>4. SUFFICES ASSUME NEW i \in 1..n \cup {n + 1}, NEW j \in 1..n \cup {n + 1},
                        new.list[i].type = "normal", new.list[j].type = "normal", i < j
                 PROVE  Age(new, j) < Age(new, i)
    BY <1>6
  <2>5. i \in 1..n /\ (j \in 1..n \/ j = n + 1)
    BY <1>6, <2>4
  <2>6. j = n + 1 => t.type = "normal"
    BY <1>6, <2>4
  <2> QED
    BY <2>2, <2>3, <2>4, <2>5, <2>6
<1>13. TableSound(new)
  BY <1>5, <1>11, <1>12 DEF TableSound
<1> QED
  BY <1>3, <1>13

(* The loop of eraseNormal, as a function.                                 *)
LEMMA Erasure ==
    ASSUME NEW s \in Seq(Topic), NEW n \in 0..Len(s)
    PROVE  \E f : f = [i \in 0..n |->
              IF i = 0 THEN <<>>
              ELSE IF s[i].type = "normal" THEN f[i - 1] ELSE Append(f[i - 1], s[i])]
<1> DEFINE Step(f, i) == IF i = 0 THEN <<>>
              ELSE IF s[i].type = "normal" THEN f[i - 1] ELSE Append(f[i - 1], s[i])
           Bad == {k \in 0..Len(s) : ~ \E f : f = [i \in 0..k |-> Step(f, i)]}
<1>0. Len(s) \in Nat
  BY LenProperties
<1>1. SUFFICES ASSUME Bad # {} PROVE FALSE
  OBVIOUS
<1>2. PICK k \in Bad : \A j \in Bad : k <= j
  <2>1. Bad \in SUBSET Nat
    BY <1>0
  <2> HIDE DEF Bad
  <2> QED
    BY <1>1, <2>1, LeastIndex
<1>3. k \in 0..Len(s) /\ ~ \E f : f = [i \in 0..k |-> Step(f, i)]
  OBVIOUS
<1>4. k # 0
  <2>1. [i \in 0..0 |-> <<>>] = [i \in 0..0 |-> Step([j \in 0..0 |-> <<>>], i)]
    OBVIOUS
  <2> QED
    BY <1>3, <2>1
<1>5. k - 1 \in 0..Len(s) /\ k - 1 \notin Bad /\ k \in Nat \ {0}
  <2>1. k - 1 \in 0..Len(s) /\ k \in Nat \ {0}
    BY <1>0, <1>3, <1>4
  <2> HIDE DEF Bad
  <2> QED
    BY <1>2, <2>1
<1>6. PICK f : f = [i \in 0..k - 1 |-> Step(f, i)]
  BY <1>5
<1> DEFINE g == [i \in 0..k |-> IF i = k THEN Step(f, k) ELSE f[i]]
<1>7. g = [i \in 0..k |-> Step(g, i)]
  <2>1. ASSUME NEW i \in 0..k PROVE g[i] = Step(g, i)
    <3>1. CASE i = k
      <4>1. k - 1 \in 0..k /\ k - 1 # k
        BY <1>5
      <4>2. g[k - 1] = f[k - 1] /\ g[k] = Step(f, k)
        BY <4>1, <1>5
      <4> HIDE DEF g
      <4> QED
        BY <3>1, <4>2
    <3>2. CASE i # k
      <4>1. i \in 0..k - 1 /\ (i # 0 => i - 1 \in 0..k /\ i - 1 # k)
        BY <1>5, <3>2
      <4>2. g[i] = f[i] /\ (i # 0 => g[i - 1] = f[i - 1])
        BY <3>2, <4>1
      <4>3. f[i] = Step(f, i)
        BY <1>6, <4>1
      <4> HIDE DEF g
      <4> QED
        BY <4>2, <4>3
    <3> QED
      BY <3>1, <3>2
  <2>2. g = [i \in 0..k |-> g[i]]
    OBVIOUS
  <2> HIDE DEF g
  <2> QED
    BY <2>1, <2>2, Zenon
<1> QED
  BY <1>3, <1>7

(* eraseNormal.                                                            *)
LEMMA WithoutNormalList ==
    ASSUME NEW table, table \in [list : Seq(Topic), nextId : Nat]
    PROVE  \E f : /\ f = [i \in 0..Len(table.list) |->
                      IF i = 0 THEN <<>>
                      ELSE IF table.list[i].type = "normal" THEN f[i - 1]
                           ELSE Append(f[i - 1], table.list[i])]
                  /\ WithoutNormal(table) = [table EXCEPT !.list = f[Len(table.list)]]
<1> DEFINE F == CHOOSE f : f = [i \in 0..Len(table.list) |->
                      IF i = 0 THEN <<>>
                      ELSE IF table.list[i].type = "normal" THEN f[i - 1]
                           ELSE Append(f[i - 1], table.list[i])]
<1>1. table.list \in Seq(Topic)
  OBVIOUS
<1>2. Len(table.list) \in 0..Len(table.list)
  BY <1>1, LenProperties
<1>3. F = [i \in 0..Len(table.list) |->
                      IF i = 0 THEN <<>>
                      ELSE IF table.list[i].type = "normal" THEN F[i - 1]
                           ELSE Append(F[i - 1], table.list[i])]
  BY <1>1, <1>2, Erasure
<1>4. WithoutNormal(table) = [table EXCEPT !.list = F[Len(table.list)]]
  BY DEF WithoutNormal
<1> QED
  BY <1>3, <1>4

(* A table stays sound when its normal topics are erased, and the others   *)
(* stay in it.                                                             *)
LEMMA Forgetting ==
    ASSUME ListAssumption, NEW table, TableSound(table)
    PROVE  /\ TableSound(WithoutNormal(table))
           /\ \A i \in 1..Len(table.list) : table.list[i].type # "normal" =>
                 \E j \in 1..Len(WithoutNormal(table).list) :
                    WithoutNormal(table).list[j] = table.list[i]
<1> DEFINE s == table.list
<1>0. s \in Seq(Topic) /\ Len(s) \in Nat /\ table \in [list : Seq(Topic), nextId : Nat]
  BY TableElements DEF TableSound, ListAssumption
<1>1. PICK f : /\ f = [i \in 0..Len(s) |->
                      IF i = 0 THEN <<>>
                      ELSE IF s[i].type = "normal" THEN f[i - 1] ELSE Append(f[i - 1], s[i])]
               /\ WithoutNormal(table) = [table EXCEPT !.list = f[Len(s)]]
  BY <1>0, WithoutNormalList
<1> DEFINE Good(k) ==
              /\ f[k] \in Seq(Topic)
              /\ \A j \in 1..Len(f[k]) : f[k][j].type # "normal"
              /\ \A i \in 1..k : s[i].type # "normal" => \E j \in 1..Len(f[k]) : f[k][j] = s[i]
           Bad == {k \in 0..Len(s) : ~Good(k)}
<1>2. ASSUME Bad # {} PROVE FALSE
  <2>1. PICK k \in Bad : \A j \in Bad : k <= j
    <3>1. Bad \in SUBSET Nat
      BY <1>0
    <3> HIDE DEF Bad
    <3> QED
      BY <1>2, <3>1, LeastIndex
  <2>2. k \in 0..Len(s) /\ ~Good(k) /\ k \in Nat
    BY <1>0
  <2>3. k # 0
    <3>1. ASSUME k = 0 PROVE Good(k)
      <4>0. 0 \in 0..Len(s)
        BY <1>0
      <4>1. f[0] = <<>>
        <5> HIDE DEF s, Good, Bad
        <5> QED
          BY <1>1, <4>0, Zenon
      <4>2. f[k] = <<>> /\ f[k] \in Seq(Topic) /\ Len(f[k]) = 0
        BY <3>1, <4>1, EmptySeq
      <4> QED
        BY <3>1, <4>2
    <3> QED
      BY <2>2, <3>1
  <2>4. k - 1 \in 0..Len(s) /\ k - 1 \in Nat /\ k \in 1..Len(s)
    BY <1>0, <2>2, <2>3
  <2>5. Good(k - 1)
    <3>1. k - 1 \notin Bad
      <4> HIDE DEF Bad
      <4> QED
        BY <2>1, <2>2, <2>4
    <3> HIDE DEF Good
    <3> QED
      BY <2>4, <3>1
  <2>6. f[k] = IF s[k].type = "normal" THEN f[k - 1] ELSE Append(f[k - 1], s[k])
    <3> HIDE DEF s
    <3> QED
      BY <1>1, <2>2, <2>3, Zenon
  <2>7. \A i \in 1..k : i \in 1..k - 1 \/ i = k
    BY <2>4
  <2>8. CASE s[k].type = "normal"
    <3>1. f[k] = f[k - 1]
      BY <2>6, <2>8
    <3>2. \A i \in 1..k : s[i].type # "normal" => i \in 1..k - 1
      BY <2>7, <2>8
    <3>3. Good(k)
      BY <2>5, <3>1, <3>2
    <3> QED
      BY <2>2, <3>3
  <2>9. CASE s[k].type # "normal"
    <3> DEFINE r == f[k - 1]
               n == Len(r)
    <3>1. f[k] = Append(r, s[k]) /\ r \in Seq(Topic) /\ s[k] \in Topic
      BY <1>0, <2>4, <2>5, <2>6, <2>9, ElementOfSeq
    <3> HIDE DEF r
    <3>2. /\ f[k] \in Seq(Topic) /\ Len(f[k]) = n + 1 /\ n \in Nat
          /\ \A i \in 1..n : f[k][i] = r[i]
          /\ f[k][n + 1] = s[k]
      BY <3>1, AppendProperties, LenProperties
    <3> HIDE DEF n
    <3>3. 1..Len(f[k]) = 1..n \cup {n + 1}
      BY <3>2
    <3>4. /\ \A j \in 1..n : r[j].type # "normal"
          /\ \A i \in 1..k - 1 : s[i].type # "normal" => \E j \in 1..n : r[j] = s[i]
      BY <2>5 DEF r, n
    <3>5. \A j \in 1..Len(f[k]) : f[k][j].type # "normal"
      BY <2>9, <3>2, <3>3, <3>4
    <3>6. \A i \in 1..k - 1 : s[i].type # "normal" => \E j \in 1..Len(f[k]) : f[k][j] = s[i]
      BY <3>2, <3>3, <3>4
    <3>7. \E j \in 1..Len(f[k]) : f[k][j] = s[k]
      BY <3>2, <3>3
    <3>8. Good(k)
      BY <2>7, <3>2, <3>5, <3>6, <3>7
    <3> QED
      BY <2>2, <3>8
  <2> QED
    BY <2>8, <2>9
<1>3. Good(Len(s))
  <2>1. Len(s) \in 0..Len(s) /\ Bad = {}
    BY <1>0, <1>2
  <2> HIDE DEF Good
  <2> QED
    BY <2>1
<1> DEFINE new == WithoutNormal(table)
<1>4. /\ new.list = f[Len(s)] /\ new.nextId = table.nextId
      /\ new \in [list : Seq(Topic), nextId : 0..MaxTid]
  BY <1>0, <1>1, <1>3 DEF TableSound
<1>5. \A j \in 1..Len(new.list) : new.list[j].type # "normal"
  BY <1>3, <1>4
<1>6. \A i \in 1..Len(s) : s[i].type # "normal" => \E j \in 1..Len(new.list) : new.list[j] = s[i]
  BY <1>3, <1>4
<1> HIDE DEF new
<1>7. TableSound(new)
  BY <1>4, <1>5 DEF TableSound
<1> QED
  BY <1>6, <1>7 DEF new

(* add(): the table is as it was, or has one topic more; what add()        *)
(* returns is in it.                                                       *)
LEMMA Adding ==
    ASSUME ListAssumption, NEW table, TableSound(table), NEW name \in TopicNames,
           NEW id \in 0..(MaxTid + 1)
    PROVE  /\ TableSound(Added(table, name, id))
           /\ \A i \in 1..Len(table.list) :
                 /\ i \in 1..Len(Added(table, name, id).list)
                 /\ Added(table, name, id).list[i] = table.list[i]
<1> DEFINE new == Added(table, name, id)
           next == NextTopicId(table.nextId)
           t == IF id = 0 THEN [name |-> name, type |-> "normal", id |-> next]
                ELSE [name |-> name, type |-> "predef", id |-> id]
<1>1. Len(table.list) \in Nat /\ table.nextId \in 0..MaxTid /\ MaxTid \in Nat /\ MaxTid > 0
  BY TableElements DEF ListAssumption
<1>2. CASE Full(table) \/ TopicByName(table, name) # 0
  BY <1>2 DEF Added
<1>3. CASE ~Full(table) /\ TopicByName(table, name) = 0
  <2>1. next \in 1..(MaxTid + 1)
    BY <1>1 DEF NextTopicId
  <2>2. table = [list |-> table.list, nextId |-> table.nextId]
    BY DEF TableSound
  <2>3. /\ new = [list |-> new.list, nextId |-> new.nextId]
        /\ new.list = Append(table.list, t)
        /\ new.nextId = IF id = 0 THEN next ELSE table.nextId
    BY <1>3, <2>2 DEF Added
  <2> HIDE DEF new, next
  <2>4. /\ t \in Topic /\ t.type = IF id = 0 THEN "normal" ELSE "predef"
        /\ id = 0 => t.id = next
    BY <1>1, <2>1 DEF Topic
  <2> HIDE DEF t
  <2>5. /\ t.type = "normal" => t.id = NextTopicId(table.nextId) /\ new.nextId = t.id
        /\ t.type = "predef" => new.nextId = table.nextId
    BY <2>3, <2>4 DEF next
  <2>6. /\ TableSound(new) /\ Len(new.list) = Len(table.list) + 1
        /\ \A i \in 1..Len(table.list) : new.list[i] = table.list[i]
    BY <1>3, <2>3, <2>4, <2>5, AddedLast
  <2> QED
    BY <1>1, <2>6 DEF new
<1> QED
  BY <1>2, <1>3

(* What getTopicByName returns is in the table.                            *)
LEMMA ByName ==
    ASSUME NEW table, TableSound(table), NEW name, TopicByName(table, name) # 0
    PROVE  TopicByName(table, name) \in 1..Len(table.list)
<1> DEFINE I == {i \in 1..Len(table.list) : table.list[i].name = name}
<1>1. TopicByName(table, name) = IF I # {} THEN Min(I) ELSE 0
  BY DEF TopicByName, SelectInSeq
<1>2. I # {} /\ I \in SUBSET Nat
  BY <1>1
<1>3. Min(I) \in I
  <2> HIDE DEF I
  <2> QED
    BY <1>2, LeastIndex
<1> QED
  BY <1>1, <1>2, <1>3

(* A topic is given out, of a table that has grown.                        *)
LEMMA Giving ==
    ASSUME IInv, TableSound(topics'), NEW i,
           \A k \in 1..Len(topics.list) :
               k \in 1..Len(topics'.list) /\ topics'.list[k] = topics.list[k],
           i # 0 => i \in 1..Len(topics'.list),
           GiveOut(i, topics'.list)
    PROVE  IInv'
<1>1. Kept(given, topics')
  BY DEF IInv, Kept
<1>2. i # 0 => topics'.list[i] \in Topic
  <2>1. \A k \in 1..Len(topics'.list) : topics'.list[k] \in Topic
    BY TableElements
  <2> QED
    BY <2>1
<1>3. Kept(given', topics')
  BY <1>1, <1>2 DEF Kept, GiveOut
<1> QED
  BY <1>3 DEF IInv

(* REGISTER, SUBSCRIBE, PUBLISH from the broker.                           *)
LEMMA RegisterStep ==
    ASSUME ListAssumption, IInv, NEW name \in TopicNames, Register(name)
    PROVE  IInv'
<1>1. topics' = Added(topics, name, 0) /\ GiveOut(RegisteredTopic(topics, name), topics'.list)
  BY DEF Register
<1>2. TableSound(topics) /\ 0 \in 0..(MaxTid + 1)
  BY DEF IInv, ListAssumption
<1>3. /\ TableSound(topics')
      /\ \A k \in 1..Len(topics.list) :
            k \in 1..Len(topics'.list) /\ topics'.list[k] = topics.list[k]
  BY <1>1, <1>2, Adding
<1>4. RegisteredTopic(topics, name) # 0 => RegisteredTopic(topics, name) \in 1..Len(topics'.list)
  <2>1. \/ RegisteredTopic(topics, name) = 0
        \/ RegisteredTopic(topics, name) = TopicByName(topics, name)
        \/ RegisteredTopic(topics, name) = TopicByName(topics', name)
    BY <1>1 DEF RegisteredTopic, AddedTopic
  <2> QED
    BY <1>2, <1>3, <2>1, ByName
<1> QED
  BY <1>1, <1>3, <1>4, Giving

(* The predefined topics.                                                  *)
LEMMA PredefineStep ==
    ASSUME ListAssumption, PredefAssumption, IInv, NEW name \in TopicNames, NEW id \in PredefIds,
           Predefine(name, id)
    PROVE  IInv'
<1>1. topics' = Added(topics, name, id) /\ GiveOut(AddedTopic(topics, name, id), topics'.list)
  BY DEF Predefine
<1>2. TableSound(topics) /\ id \in 0..(MaxTid + 1)
  BY DEF IInv, PredefAssumption, ListAssumption
<1>3. /\ TableSound(topics')
      /\ \A k \in 1..Len(topics.list) :
            k \in 1..Len(topics'.list) /\ topics'.list[k] = topics.list[k]
  BY <1>1, <1>2, Adding
<1>4. AddedTopic(topics, name, id) # 0 => AddedTopic(topics, name, id) \in 1..Len(topics'.list)
  <2>1. AddedTopic(topics, name, id) = 0 \/ AddedTopic(topics, name, id) = TopicByName(topics', name)
    BY <1>1 DEF AddedTopic
  <2> QED
    BY <1>3, <2>1, ByName
<1> QED
  BY <1>1, <1>3, <1>4, Giving

(* A CONNECT with a clean session.                                         *)
LEMMA EraseNormalStep ==
    ASSUME ListAssumption, IInv, EraseNormal
    PROVE  IInv'
<1>1. topics' = WithoutNormal(topics) /\ given' = {t \in given : t.type = "predef"}
  BY DEF EraseNormal
<1>2. /\ TableSound(topics')
      /\ \A i \in 1..Len(topics.list) : topics.list[i].type # "normal" =>
            \E j \in 1..Len(topics'.list) : topics'.list[j] = topics.list[i]
  BY <1>1, Forgetting DEF IInv
<1>3. ASSUME NEW t \in given' PROVE \E j \in 1..Len(topics'.list) : topics'.list[j] = t
  <2>1. t \in given /\ t.type # "normal"
    BY <1>1, <1>3
  <2>2. PICK i \in 1..Len(topics.list) : topics.list[i] = t
    BY <2>1 DEF IInv, Kept
  <2> QED
    BY <1>2, <2>1, <2>2
<1>4. given' \subseteq Topic
  BY <1>1 DEF IInv, Kept
<1> QED
  BY <1>2, <1>3, <1>4 DEF IInv, Kept

(* At the start there is no topic.                                         *)
LEMMA InitInv ==
    ASSUME ListAssumption, Init
    PROVE  IInv
<1>1. topics.list = <<>> /\ topics.nextId = 0 /\ topics = [list |-> <<>>, nextId |-> 0] /\ given = {}
  BY DEF Init, NoTopics
<1>2. <<>> \in Seq(Topic) /\ Len(<<>>) = 0 /\ MaxTid \in Nat
  BY EmptySeq DEF ListAssumption
<1> QED
  BY <1>1, <1>2 DEF IInv, TableSound, Kept

(* Every step keeps the invariant.                                         *)
LEMMA StepInv ==
    ASSUME ListAssumption, PredefAssumption, IInv, [Next]_vars
    PROVE  IInv'
<1>1. CASE UNCHANGED vars
  BY <1>1 DEF vars, IInv
<1>2. CASE \E name \in TopicNames : Register(name)
  BY <1>2, RegisterStep
<1>3. CASE \E name \in TopicNames : \E id \in PredefIds : Predefine(name, id)
  BY <1>3, PredefineStep
<1>4. CASE EraseNormal
  BY <1>4, EraseNormalStep
<1> QED
  BY <1>1, <1>2, <1>3, <1>4 DEF Next

(* Different ids, and what was given out is found.                         *)
LEMMA IdsFollow ==
    ASSUME ListAssumption, IInv
    PROVE  TopicIdsHold
<1>1. TableSound(topics)
  BY DEF IInv
<1>2. IdsUnique
  BY <1>1, IdsDiffer DEF IdsUnique
<1>3. ASSUME NEW t \in given
      PROVE  /\ \E i \in 1..Len(topics.list) : topics.list[i] = t
             /\ t.type = "normal" =>
                   /\ TopicById(topics, "normal", t.id) # 0
                   /\ topics.list[TopicById(topics, "normal", t.id)].name = t.name
  <2>1. PICK i \in 1..Len(topics.list) : topics.list[i] = t
    BY DEF IInv, Kept
  <2>2. ASSUME t.type = "normal"
        PROVE  TopicById(topics, "normal", t.id) # 0 /\ TopicById(topics, "normal", t.id) = i
    <3>1. TopicById(topics, "normal", t.id) # 0
      BY <1>1, <2>1, <2>2, ByIdFound
    <3> QED
      BY <1>1, <2>1, <2>2, <3>1, ByIdFound, IdsDiffer
  <2> QED
    BY <2>1, <2>2
<1> QED
  BY <1>2, <1>3 DEF GivenHolds, TopicIdsHold

(* Ids that wrap (Topics::getNextTopicId) do not meet one in use, and what *)
(* Topics::add returned stays in the table, under its id, until            *)
(* eraseNormal, for any table that is smaller than the number of ids.      *)
THEOREM GivenIdsHold ==
    ListAssumption /\ PredefAssumption => (Spec => []TopicIdsHold)
<1> SUFFICES ASSUME ListAssumption, PredefAssumption PROVE Spec => []TopicIdsHold
  OBVIOUS
<1>1. Init => IInv
  BY InitInv
<1>2. IInv /\ [Next]_vars => IInv'
  BY StepInv
<1>3. IInv => TopicIdsHold
  BY IdsFollow
<1> QED
  BY <1>1, <1>2, <1>3, PTL DEF Spec
=============================================================================
