-------------------------- MODULE Aggregate_proofs --------------------------
(***************************************************************************)
(* For any devices, topics, filters and bounds: while fewer packets were   *)
(* handled than there are message ids, the answers of the broker reach the *)
(* devices that asked, under the ids they used, and an entry of the table  *)
(* of message ids is there because its answer is still to come.            *)
(*                                                                         *)
(* An id that was given and is in the table names one request.  The packet *)
(* of the request, the broker's answer and the event with the answer carry *)
(* the id of an entry with their device, or an id that is free again; ids  *)
(* are not given twice before the counter comes round.                     *)
(***************************************************************************)
EXTENDS Aggregate, TLAPS, WellFoundedInduction, SequenceTheorems, FiniteSetTheorems, NaturalsInduction

-----------------------------------------------------------------------------
(* Sequences                                                               *)

(* SelectInSeq looks for the least index.                                  *)
LEMMA LeastIndex ==
    ASSUME NEW I \in SUBSET Nat, I # {}
    PROVE  Min(I) \in I /\ \A i \in I : Min(I) <= i
<1>1. \E i \in I : \A j \in I : <<j, i>> \notin OpToRel(<, Nat)
  BY NatLessThanWellFounded, WFMin
<1>2. OpToRel(<, Nat) = { p \in Nat \X Nat : p[1] < p[2] }
  BY Zenon DEF OpToRel
<1> DEFINE Less == { p \in Nat \X Nat : p[1] < p[2] }
<1>3. PICK i \in I : \A j \in I : <<j, i>> \notin Less
  BY <1>1, <1>2
<1>4. ASSUME NEW j \in I PROVE i <= j
  <2>1. <<j, i>> \in Nat \X Nat /\ (j < i => <<j, i>> \in Less)
    OBVIOUS
  <2> QED
    BY <1>3, <2>1
<1> QED
  BY <1>4 DEF Min

(* What RemoveAt leaves: the elements before the place, and those behind   *)
(* it one place further to the front.                                      *)
LEMMA RemoveAtSeq ==
    ASSUME NEW S, NEW s \in Seq(S), NEW k \in 1..Len(s)
    PROVE  /\ RemoveAt(s, k) \in Seq(S)
           /\ Len(RemoveAt(s, k)) = Len(s) - 1
           /\ \A i \in 1..Len(s) - 1 : RemoveAt(s, k)[i] = IF i < k THEN s[i] ELSE s[i + 1]
<1>1. Len(s) \in Nat
  BY LenProperties
<1>2. \A i \in 1..Len(s) : s[i] \in S
  BY ElementOfSeq
<1> DEFINE left_ == SubSeq(s, 1, k - 1)
           right == SubSeq(s, k + 1, Len(s))
<1>3. /\ left_ \in Seq(S) /\ Len(left_) = k - 1
      /\ \A i \in 1..k - 1 : left_[i] = s[i]
  BY <1>1, <1>2, SubSeqProperties
<1>4. /\ right \in Seq(S) /\ Len(right) = Len(s) - k
      /\ \A i \in 1..Len(s) - k : right[i] = s[k + i]
  BY <1>1, <1>2, SubSeqProperties
<1> HIDE DEF left_, right
<1>5. /\ left_ \o right \in Seq(S) /\ Len(left_ \o right) = Len(left_) + Len(right)
      /\ \A i \in 1..Len(left_) + Len(right) :
            (left_ \o right)[i] = IF i <= Len(left_) THEN left_[i] ELSE right[i - Len(left_)]
  BY <1>3, <1>4, ConcatProperties
<1>6. ASSUME NEW i \in 1..Len(s) - 1
      PROVE  (left_ \o right)[i] = IF i < k THEN s[i] ELSE s[i + 1]
  <2>1. CASE i < k
    BY <1>1, <1>3, <1>4, <1>5, <2>1
  <2>2. CASE ~(i < k)
    <3>1. i - (k - 1) \in 1..Len(s) - k /\ k + (i - (k - 1)) = i + 1
      BY <1>1, <2>2
    <3>2. right[i - (k - 1)] = s[i + 1]
      BY <1>4, <3>1
    <3> QED
      BY <1>1, <1>3, <1>4, <1>5, <2>2, <3>2
  <2> QED
    BY <2>1, <2>2
<1>7. RemoveAt(s, k) = left_ \o right
  BY DEF RemoveAt, left_, right
<1>8. Len(left_) + Len(right) = Len(s) - 1
  BY <1>1, <1>3, <1>4
<1> QED
  BY <1>5, <1>6, <1>7, <1>8

(* No element is at position 0.                                            *)
LEMMA RemoveAtZero ==
    ASSUME NEW S, NEW s \in Seq(S)
    PROVE  RemoveAt(s, 0) = s
<1>1. Len(s) \in Nat
  BY LenProperties
<1>2. SubSeq(s, 1, 0 - 1) = <<>>
  BY SubSeqEmpty
<1>3. SubSeq(s, 0 + 1, Len(s)) = s
  BY SubSeqFull
<1> QED
  BY <1>2, <1>3, ConcatEmptySeq DEF RemoveAt

(* RemoveFirst keeps the type.                                             *)
LEMMA RemoveFirstSeq ==
    ASSUME NEW S, NEW s \in Seq(S), NEW e
    PROVE  RemoveFirst(s, e) \in Seq(S)
<1> DEFINE I == {i \in 1..Len(s) : s[i] = e}
<1>1. SelectInSeq(s, LAMBDA v : v = e) = IF I # {} THEN Min(I) ELSE 0
  BY DEF SelectInSeq
<1>2. CASE I = {}
  BY <1>2 DEF RemoveFirst
<1>3. CASE I # {}
  <2>1. Min(I) \in 1..Len(s)
    BY <1>3, LeastIndex, I \in SUBSET Nat
  <2> QED
    BY <1>1, <1>3, <2>1, RemoveAtSeq DEF RemoveFirst
<1> QED
  BY <1>2, <1>3

-----------------------------------------------------------------------------
(* The table of topics                                                     *)

(* An element of the table of topics.                                      *)
Element == [topic : Topics, clients : Seq(Clients)]

(* AggregateTopicTable::add keeps the type of the table.                   *)
LEMMA WithSubscriberTyped ==
    ASSUME NEW tab \in Seq(Element), NEW t \in Topics, NEW c \in Clients
    PROVE  WithSubscriber(tab, t, c) \in Seq(Element)
<1> DEFINE I == {i \in 1..Len(tab) : Matched(tab[i].topic, t)}
           k == ElementOf(tab, t)
<1>1. k = IF I # {} THEN Min(I) ELSE 0
  BY DEF ElementOf, SelectInSeq
<1>2. k = 0 \/ k \in 1..Len(tab)
  BY <1>1, LeastIndex, I \in SUBSET Nat
<1> HIDE DEF k
<1>3. <<c>> \in Seq(Clients)
  OBVIOUS
<1>4. CASE k = 0
  <2>1. [topic |-> t, clients |-> <<c>>] \in Element
    BY <1>3 DEF Element
  <2> QED
    BY <1>4, <2>1, AppendProperties DEF WithSubscriber, k
<1>5. CASE k # 0
  <2>1. tab[k] \in Element
    BY <1>2, <1>5, ElementOfSeq
  <2>2. [tab[k] EXCEPT !.clients = Append(@, c)] \in Element
    BY <2>1, AppendProperties DEF Element
  <2>3. [tab EXCEPT ![k] = [tab[k] EXCEPT !.clients = Append(@, c)]] \in Seq(Element)
    BY <1>2, <1>5, <2>2, ExceptSeq
  <2>4. [tab EXCEPT ![k].clients = Append(@, c)]
          = [tab EXCEPT ![k] = [tab[k] EXCEPT !.clients = Append(@, c)]]
    OBVIOUS
  <2> QED
    BY <1>5, <2>3, <2>4 DEF WithSubscriber, k
<1> QED
  BY <1>4, <1>5

(* AggregateTopicTable::erase keeps the type of the table.                 *)
LEMMA WithoutSubscriberTyped ==
    ASSUME NEW tab \in Seq(Element), NEW t, NEW c
    PROVE  WithoutSubscriber(tab, t, c) \in Seq(Element)
<1> DEFINE I == {i \in 1..Len(tab) : Matched(tab[i].topic, t)}
           k == ElementOf(tab, t)
           rest == RemoveFirst(tab[k].clients, c)
<1>1. k = IF I # {} THEN Min(I) ELSE 0
  BY DEF ElementOf, SelectInSeq
<1>2. k = 0 \/ k \in 1..Len(tab)
  BY <1>1, LeastIndex, I \in SUBSET Nat
<1>3. WithoutSubscriber(tab, t, c)
        = IF rest = <<>> THEN RemoveAt(tab, k) ELSE [tab EXCEPT ![k].clients = rest]
  BY DEF WithoutSubscriber
<1> HIDE DEF k
<1>4. CASE rest = <<>>
  BY <1>2, <1>3, <1>4, RemoveAtSeq, RemoveAtZero
<1>5. CASE rest # <<>> /\ k = 0
  <2>1. tab \in [1..Len(tab) -> Element]
    BY LenProperties
  <2>2. [tab EXCEPT ![0].clients = rest] = tab
    BY <2>1
  <2> QED
    BY <1>3, <1>5, <2>2
<1>6. CASE rest # <<>> /\ k # 0
  <2>1. tab[k] \in Element
    BY <1>2, <1>6, ElementOfSeq
  <2>2. rest \in Seq(Clients)
    BY <2>1, RemoveFirstSeq DEF Element
  <2> HIDE DEF rest
  <2>3. [tab[k] EXCEPT !.clients = rest] \in Element
    BY <2>1, <2>2 DEF Element
  <2>4. [tab EXCEPT ![k] = [tab[k] EXCEPT !.clients = rest]] \in Seq(Element)
    BY <1>2, <1>6, <2>3, ExceptSeq
  <2>5. [tab EXCEPT ![k].clients = rest] = [tab EXCEPT ![k] = [tab[k] EXCEPT !.clients = rest]]
    OBVIOUS
  <2> QED
    BY <1>3, <1>6, <2>4, <2>5
<1> QED
  BY <1>4, <1>5, <1>6

(* A clean session takes its topics out one after the other.  The function *)
(* that does so is defined by recursion on their number; that it exists is *)
(* shown with one that is right for the sets of n topics at most, for a    *)
(* least n that would have none.                                           *)
One(s) == CHOOSE x \in s : TRUE

Step(f, tab, c, names) ==
    [s \in SUBSET names |-> IF s = {} THEN tab
                            ELSE WithoutSubscriber(f[s \ {One(s)}], One(s), c)]

(* f takes the topics out of tab for the sets of n topics at most.         *)
Upto(f, tab, c, names, n) ==
    /\ DOMAIN f = SUBSET names
    /\ \A s \in SUBSET names : Cardinality(s) <= n => f[s] = Step(f, tab, c, names)[s]

(* There is a function that takes out one topic after the other.           *)
LEMMA StepExists ==
    ASSUME NEW tab, NEW c, NEW names, IsFiniteSet(names)
    PROVE  \E f : f = Step(f, tab, c, names)
<1> DEFINE None_ == {n \in Nat : ~ \E f : Upto(f, tab, c, names, n)}
<1>0. \A s \in SUBSET names : IsFiniteSet(s) /\ Cardinality(s) \in Nat
  BY FS_Subset, FS_CardinalityType
<1>1. None_ = {}
  <2> SUFFICES ASSUME None_ # {} PROVE FALSE
    OBVIOUS
  <2>1. PICK n \in None_ : \A m \in None_ : ~(m < n)
    <3>1. None_ \in SUBSET Nat
      OBVIOUS
    <3> HIDE DEF None_
    <3>2. Min(None_) \in None_ /\ \A m \in None_ : Min(None_) <= m
      BY <3>1, LeastIndex
    <3>3. PICK k \in None_ : \A m \in None_ : k <= m
      BY <3>2
    <3>4. \A m \in None_ : m \in Nat
      BY <3>1
    <3> QED
      BY <3>3, <3>4
  <2>2. CASE n = 0
    <3> DEFINE g == [s \in SUBSET names |-> tab]
    <3>1. \A s \in SUBSET names : Cardinality(s) <= 0 => s = {}
      BY <1>0, FS_EmptySet
    <3>2. Upto(g, tab, c, names, 0)
      BY <3>1 DEF Upto, Step
    <3> QED
      BY <2>1, <2>2, <3>2
  <2>3. CASE n # 0
    <3>1. n - 1 \in Nat /\ n - 1 \notin None_
      BY <2>1, <2>3
    <3>2. PICK f : Upto(f, tab, c, names, n - 1)
      BY <3>1
    <3> DEFINE g == Step(f, tab, c, names)
    <3>3. DOMAIN g = SUBSET names
      BY DEF Step
    <3>4. ASSUME NEW s \in SUBSET names, Cardinality(s) <= n
          PROVE  g[s] = Step(g, tab, c, names)[s]
      <4>1. CASE s = {}
        BY <4>1 DEF Step
      <4>2. CASE s # {}
        <5>1. One(s) \in s
          BY <4>2 DEF One
        <5>2. s \ {One(s)} \in SUBSET names /\ Cardinality(s \ {One(s)}) <= n - 1
          BY <1>0, <2>1, <3>4, <5>1, FS_RemoveElement
        <5>3. f[s \ {One(s)}] = g[s \ {One(s)}]
          BY <3>2, <5>2 DEF Upto
        <5>4. g[s] = WithoutSubscriber(f[s \ {One(s)}], One(s), c)
          BY <4>2 DEF Step
        <5>5. Step(g, tab, c, names)[s] = WithoutSubscriber(g[s \ {One(s)}], One(s), c)
          BY <4>2 DEF Step
        <5> QED
          BY <5>3, <5>4, <5>5
      <4> QED
        BY <4>1, <4>2
    <3> HIDE DEF g
    <3>5. Upto(g, tab, c, names, n)
      BY <3>3, <3>4 DEF Upto
    <3> QED
      BY <2>1, <3>5
  <2> QED
    BY <2>2, <2>3
<1>2. PICK f : Upto(f, tab, c, names, Cardinality(names))
  BY <1>0, <1>1
<1>3. \A s \in SUBSET names : Cardinality(s) <= Cardinality(names)
  BY FS_Subset
<1> DEFINE g == Step(f, tab, c, names)
<1>4. DOMAIN g = SUBSET names /\ DOMAIN f = SUBSET names /\ \A s \in SUBSET names : f[s] = g[s]
  BY <1>2, <1>3 DEF Upto, Step
<1>5. Step(g, tab, c, names) = g
  <2>1. \A s \in SUBSET names : s \ {One(s)} \in SUBSET names
    OBVIOUS
  <2>2. \A s \in SUBSET names : Step(g, tab, c, names)[s] = g[s]
    <3> SUFFICES ASSUME NEW s \in SUBSET names PROVE Step(g, tab, c, names)[s] = g[s]
      OBVIOUS
    <3>1. g[s] = IF s = {} THEN tab ELSE WithoutSubscriber(f[s \ {One(s)}], One(s), c)
      BY DEF Step
    <3>2. Step(g, tab, c, names)[s]
            = IF s = {} THEN tab ELSE WithoutSubscriber(g[s \ {One(s)}], One(s), c)
      BY Zenon DEF Step
    <3>3. f[s \ {One(s)}] = g[s \ {One(s)}]
      BY <1>4, <2>1
    <3> HIDE DEF g
    <3> QED
      BY <3>1, <3>2, <3>3
  <2>3. /\ Step(g, tab, c, names) = [s \in SUBSET names |-> Step(g, tab, c, names)[s]]
        /\ g = [s \in SUBSET names |-> g[s]]
    BY Zenon DEF Step
  <2> HIDE DEF g
  <2> QED
    BY <2>2, <2>3
<1> QED
  BY <1>5

(* A clean session keeps the type of the table.                            *)
LEMMA WithoutTopicsTyped ==
    ASSUME NEW tab \in Seq(Element), NEW c, NEW names, IsFiniteSet(names)
    PROVE  WithoutTopics(tab, c, names) \in Seq(Element)
<1> DEFINE f == CHOOSE f : f = Step(f, tab, c, names)
<1>1. WithoutTopics(tab, c, names) = f[names]
  BY DEF WithoutTopics, FoldSet, MapThenFoldSet, Step, One
<1>2. f = Step(f, tab, c, names)
  BY StepExists
<1> HIDE DEF f
<1> DEFINE Bad == {s \in SUBSET names : f[s] \notin Seq(Element)}
<1>3. Bad = {}
  <2> SUFFICES ASSUME Bad # {} PROVE FALSE
    OBVIOUS
  <2>1. Bad \subseteq FiniteSubsetsOf(names)
    BY FS_Subset DEF FiniteSubsetsOf
  <2>2. PICK s \in Bad : \A t \in Bad : <<t, s>> \notin StrictSubsetOrdering(names)
    BY <2>1, FS_StrictSubsetOrderingWellFounded, WFMin
  <2>3. CASE s = {}
    BY <1>2, <2>2, <2>3 DEF Step
  <2>4. CASE s # {}
    <3>1. One(s) \in s
      BY <2>4 DEF One
    <3>2. s \ {One(s)} \notin Bad
      BY <2>2, <3>1 DEF StrictSubsetOrdering
    <3>3. f[s \ {One(s)}] \in Seq(Element)
      BY <3>2, <2>2
    <3>4. f[s] = WithoutSubscriber(f[s \ {One(s)}], One(s), c)
      BY <1>2, <2>2, <2>4 DEF Step
    <3> QED
      BY <2>2, <3>3, <3>4, WithoutSubscriberTyped
  <2> QED
    BY <2>3, <2>4
<1> QED
  BY <1>1, <1>3

-----------------------------------------------------------------------------
(* Sequences of anything                                                   *)

IsSequence(q) == q \in Seq(Range(q))

(* The positions and the elements of a sequence.                           *)
LEMMA SequenceParts ==
    ASSUME NEW q, IsSequence(q)
    PROVE  /\ Len(q) \in Nat /\ DOMAIN q = 1..Len(q)
           /\ \A e : e \in Range(q) <=> \E i \in 1..Len(q) : e = q[i]
  BY LenProperties DEF IsSequence, Range

(* A sequence of a set is one.                                             *)
LEMMA SequenceIn == ASSUME NEW S, NEW q \in Seq(S) PROVE IsSequence(q)
  BY SeqOfRange DEF IsSequence

(* The empty sequence is one.                                              *)
LEMMA EmptySequence == IsSequence(<<>>) /\ Range(<<>>) = {}
  BY DEF IsSequence, Range

(* Append adds one element at the end.                                     *)
LEMMA AppendSequence ==
    ASSUME NEW q, IsSequence(q), NEW e
    PROVE  /\ IsSequence(Append(q, e)) /\ Range(Append(q, e)) = Range(q) \cup {e}
           /\ Len(Append(q, e)) = Len(q) + 1
           /\ \A i \in 1..Len(q) : Append(q, e)[i] = q[i]
           /\ Append(q, e)[Len(q) + 1] = e
<1> DEFINE S == Range(q) \cup {e}
<1>1. q \in Seq(S) /\ e \in S
  BY SeqMonotonic DEF IsSequence
<1> HIDE DEF S
<1>2. /\ Append(q, e) \in Seq(S)
      /\ Len(Append(q, e)) = Len(q) + 1
      /\ \A i \in 1..Len(q) : Append(q, e)[i] = q[i]
      /\ Append(q, e)[Len(q) + 1] = e
  BY <1>1, AppendProperties
<1>3. IsSequence(Append(q, e))
  BY <1>2, SequenceIn
<1>4. Len(q) \in Nat
  BY SequenceParts
<1> DEFINE a == Append(q, e)
<1>5. \A x : x \in Range(a) <=> \E i \in 1..Len(a) : x = a[i]
  <2> HIDE DEF a
  <2> QED
    BY <1>3, SequenceParts DEF a
<1>6. \A x : x \in Range(q) <=> \E i \in 1..Len(q) : x = q[i]
  BY SequenceParts
<1>7. ASSUME NEW x PROVE x \in Range(Append(q, e)) <=> x \in Range(q) \/ x = e
  BY <1>2, <1>4, <1>5, <1>6
<1> QED
  BY <1>2, <1>3, <1>7

(* The head and the tail hold elements of the whole.                       *)
LEMMA TailSequence ==
    ASSUME NEW q, IsSequence(q), q # <<>>
    PROVE  /\ IsSequence(Tail(q)) /\ Range(Tail(q)) \subseteq Range(q)
           /\ Len(q) > 0 /\ Len(Tail(q)) = Len(q) - 1
           /\ \A i \in 1..Len(q) - 1 : Tail(q)[i] = q[i + 1]
           /\ Head(q) = q[1] /\ Head(q) \in Range(q)
<1> DEFINE S == Range(q)
<1>1. q \in Seq(S)
  BY DEF IsSequence
<1> HIDE DEF S
<1>2. /\ Tail(q) \in Seq(S) /\ Len(Tail(q)) = Len(q) - 1 /\ Head(q) \in S
      /\ \A i \in 1..Len(Tail(q)) : Tail(q)[i] = q[i + 1]
  BY <1>1, HeadTailProperties
<1>3. Len(q) \in Nat \ {0}
  BY <1>1, EmptySeq
<1>4. Range(Tail(q)) \subseteq S
  BY <1>2, RangeOfSeq
<1>5. Head(q) = q[1]
  BY <1>1
<1>6. IsSequence(Tail(q))
  BY <1>2, SequenceIn
<1> QED
  BY <1>2, <1>3, <1>4, <1>5, <1>6 DEF S

(* Concatenation holds the elements of both.                               *)
LEMMA ConcatSequence ==
    ASSUME NEW q, IsSequence(q), NEW r, IsSequence(r)
    PROVE  /\ IsSequence(q \o r) /\ Range(q \o r) = Range(q) \cup Range(r)
           /\ Len(q \o r) = Len(q) + Len(r)
           /\ \A i \in 1..Len(q) + Len(r) :
                 (q \o r)[i] = IF i <= Len(q) THEN q[i] ELSE r[i - Len(q)]
<1> DEFINE S == Range(q) \cup Range(r)
<1>1. q \in Seq(S) /\ r \in Seq(S)
  BY SeqMonotonic DEF IsSequence
<1> HIDE DEF S
<1> QED
  BY <1>1, ConcatProperties, RangeConcatenation, SequenceIn

(* A function over 1..n is a sequence.                                     *)
LEMMA MadeSequence ==
    ASSUME NEW n \in Nat, NEW q, DOMAIN q = 1..n, q = [i \in 1..n |-> q[i]]
    PROVE  IsSequence(q) /\ Len(q) = n /\ Range(q) = {q[i] : i \in 1..n}
<1> DEFINE S == Range(q)
<1>1. Range(q) = {q[i] : i \in 1..n}
  BY DEF Range
<1>2. q \in [1..n -> S]
  BY <1>1
<1> HIDE DEF S
<1>3. q \in Seq(S)
  BY <1>2, SeqDef
<1>4. Len(q) = n
  BY <1>2, <1>3, LenProperties
<1> QED
  BY <1>1, <1>3, <1>4 DEF IsSequence, S

-----------------------------------------------------------------------------
(* The ids of the one connection                                           *)

(* An entry of the table of message ids.                                   *)
Entry == [msgId : Nat, client : Clients, clientMsgId : ClientMsgIds]

(* The ids in the table have been given, and each of them to one request.  *)
IdsGiven ==
    /\ entries \in Seq(Entry) /\ packetId \in Nat
    /\ \A i \in 1..Len(entries) : entries[i].msgId \in 1..packetId
    /\ IdsDistinct

(* A packet to or from the broker has no id, an id that is free again or   *)
(* the id of its request.                                                  *)
Traces(p) ==
    /\ p.msgId \in 0..packetId
    /\ \A i \in 1..Len(entries) :
          entries[i].msgId = p.msgId => p.asker = <<entries[i].client, entries[i].clientMsgId>>

(* What a step does to the ids: nothing, one is given, one becomes free.   *)
Given(c, m) ==
    /\ packetId' = packetId + 1
    /\ entries' = Append(entries, [msgId |-> packetId + 1, client |-> c, clientMsgId |-> m])
IdsMove ==
    \/ UNCHANGED <<entries, packetId>>
    \/ \E c \in Clients, m \in ClientMsgIds : Given(c, m)
    \/ packetId' = packetId /\ \E k \in 1..Len(entries) : entries' = RemoveAt(entries, k)

(* The ids in the table stay given and distinct, and a new entry has the   *)
(* new id.                                                                 *)
LEMMA IdsStayGiven ==
    ASSUME IdsGiven, IdsMove
    PROVE  /\ IdsGiven'
           /\ packetId' \in {packetId, packetId + 1}
           /\ \A i \in 1..Len(entries') :
                 \/ \E j \in 1..Len(entries) : entries'[i] = entries[j]
                 \/ packetId' = packetId + 1 /\ entries'[i].msgId = packetId + 1
<1> USE DEF IdsGiven
<1>0. Len(entries) \in Nat /\ \A i \in 1..Len(entries) : entries[i] \in Entry
  BY LenProperties, ElementOfSeq
<1>1. CASE UNCHANGED <<entries, packetId>>
  BY <1>1 DEF IdsDistinct
<1>2. ASSUME NEW c \in Clients, NEW m \in ClientMsgIds, Given(c, m)
      PROVE  /\ IdsGiven'
             /\ packetId' \in {packetId, packetId + 1}
             /\ \A i \in 1..Len(entries') :
                   \/ \E j \in 1..Len(entries) : entries'[i] = entries[j]
                   \/ packetId' = packetId + 1 /\ entries'[i].msgId = packetId + 1
  <2> DEFINE e == [msgId |-> packetId + 1, client |-> c, clientMsgId |-> m]
  <2>1. e \in Entry /\ e.msgId = packetId + 1
    BY DEF Entry
  <2> HIDE DEF e
  <2>2. entries' = Append(entries, e) /\ packetId' = packetId + 1
    BY <1>2 DEF Given, e
  <2>3. /\ entries' \in Seq(Entry) /\ Len(entries') = Len(entries) + 1
        /\ \A i \in 1..Len(entries) : entries'[i] = entries[i]
        /\ entries'[Len(entries) + 1] = e
    BY <2>1, <2>2, AppendProperties
  <2>4. \A i \in 1..Len(entries') : i \in 1..Len(entries) \/ i = Len(entries) + 1
    BY <1>0, <2>3
  <2>5. \A i \in 1..Len(entries') : entries'[i].msgId \in 1..packetId'
    BY <1>0, <2>1, <2>2, <2>3, <2>4
  <2>6. IdsDistinct'
    BY <1>0, <2>1, <2>3, <2>4 DEF IdsDistinct
  <2> QED
    BY <2>1, <2>2, <2>3, <2>4, <2>5, <2>6
<1>3. ASSUME NEW k \in 1..Len(entries), entries' = RemoveAt(entries, k), packetId' = packetId
      PROVE  /\ IdsGiven'
             /\ packetId' \in {packetId, packetId + 1}
             /\ \A i \in 1..Len(entries') : \E j \in 1..Len(entries) : entries'[i] = entries[j]
  <2>1. /\ entries' \in Seq(Entry) /\ Len(entries') = Len(entries) - 1
        /\ \A i \in 1..Len(entries) - 1 : entries'[i] = IF i < k THEN entries[i] ELSE entries[i + 1]
    BY <1>3, RemoveAtSeq
  <2>2. \A i \in 1..Len(entries') : \E j \in 1..Len(entries) : entries'[i] = entries[j]
    BY <1>0, <2>1
  <2> DEFINE old(i) == IF i < k THEN i ELSE i + 1
  <2>3. ASSUME NEW i \in 1..Len(entries'), NEW j \in 1..Len(entries'),
               entries'[i].msgId = entries'[j].msgId
        PROVE  i = j
    <3>1. old(i) \in 1..Len(entries) /\ old(j) \in 1..Len(entries)
      BY <1>0, <2>1
    <3>2. entries'[i] = entries[old(i)] /\ entries'[j] = entries[old(j)]
      BY <1>0, <2>1
    <3>3. old(i) = old(j)
      BY <2>3, <3>1, <3>2 DEF IdsDistinct
    <3> QED
      BY <1>0, <2>1, <3>3
  <2>4. IdsDistinct'
    BY <2>3 DEF IdsDistinct
  <2> QED
    BY <1>3, <2>1, <2>2, <2>4
<1> QED
  BY <1>1, <1>2, <1>3 DEF IdsMove

(* A packet that is traced to its request stays so.                        *)
LEMMA TracesStays ==
    ASSUME IdsGiven, IdsMove, NEW p, Traces(p)
    PROVE  Traces(p)'
<1>1. /\ packetId' \in {packetId, packetId + 1} /\ packetId \in Nat
      /\ \A i \in 1..Len(entries') :
            \/ \E j \in 1..Len(entries) : entries'[i] = entries[j]
            \/ packetId' = packetId + 1 /\ entries'[i].msgId = packetId + 1
  BY IdsStayGiven DEF IdsGiven
<1>2. p.msgId \in 0..packetId'
  BY <1>1 DEF Traces
<1>3. \A i \in 1..Len(entries') :
          entries'[i].msgId = p.msgId => p.asker = <<entries'[i].client, entries'[i].clientMsgId>>
  BY <1>1 DEF Traces
<1> QED
  BY <1>2, <1>3 DEF Traces

(* The operations of the message id table.                                 *)
LEMMA EntryForFinds ==
    ASSUME IdsGiven, NEW c, NEW m
    PROVE  \/ EntryFor(entries, c, m) = 0
           \/ /\ EntryFor(entries, c, m) \in 1..Len(entries)
              /\ entries[EntryFor(entries, c, m)].client = c
              /\ entries[EntryFor(entries, c, m)].clientMsgId = m
<1> DEFINE I == {i \in 1..Len(entries) : entries[i].client = c /\ entries[i].clientMsgId = m}
<1>1. EntryFor(entries, c, m) = IF I # {} THEN Min(I) ELSE 0
  BY DEF EntryFor, SelectInSeq
<1>2. I # {} => Min(I) \in I
  BY LeastIndex, I \in SUBSET Nat
<1> QED
  BY <1>1, <1>2

(* MessageIdTable finds the entry with an id of the broker.                *)
LEMMA EntryOfFinds ==
    ASSUME IdsGiven, NEW m
    PROVE  \/ EntryOf(entries, m) = 0 /\ \A i \in 1..Len(entries) : entries[i].msgId # m
           \/ EntryOf(entries, m) \in 1..Len(entries) /\ entries[EntryOf(entries, m)].msgId = m
<1> DEFINE I == {i \in 1..Len(entries) : entries[i].msgId = m}
<1>1. EntryOf(entries, m) = IF I # {} THEN Min(I) ELSE 0
  BY DEF EntryOf, SelectInSeq
<1>2. I # {} => Min(I) \in I
  BY LeastIndex, I \in SUBSET Nat
<1> QED
  BY <1>1, <1>2

(* MessageIdTable::getClient gives one id back.                            *)
LEMMA WithoutEntryMoves ==
    ASSUME IdsGiven, NEW m, entries' = WithoutEntry(entries, m), packetId' = packetId
    PROVE  IdsMove
  BY EntryOfFinds DEF WithoutEntry, IdsMove

(* The id of a request, as long as the counter has not come round: a new   *)
(* one, that of the same request before, or none.                          *)
LEMMA RequestTraces ==
    ASSUME IdsGiven, packetId < MaxPacketId, NEW c \in Clients, NEW m \in ClientMsgIds,
           NEW dup, NEW p,
           p.asker = <<c, m>>,
           p.msgId = IF dup THEN IdFor(entries, c, m) ELSE GivenId(entries, packetId, c, m),
           IF dup THEN UNCHANGED <<entries, packetId>>
           ELSE /\ entries' = WithEntry(entries, packetId, c, m)
                /\ packetId' = PacketIdAfter(entries, packetId, c, m)
    PROVE  IdsMove /\ Traces(p)'
<1>0. packetId \in Nat /\ entries \in Seq(Entry) /\ Len(entries) \in Nat
  BY LenProperties DEF IdsGiven
<1>1. CASE dup
  <2> DEFINE k == EntryFor(entries, c, m)
  <2>1. UNCHANGED <<entries, packetId>> /\ p.msgId = IF k = 0 THEN 0 ELSE entries[k].msgId
    BY <1>1 DEF IdFor
  <2>2. k = 0 \/ (k \in 1..Len(entries) /\ <<c, m>> = <<entries[k].client, entries[k].clientMsgId>>)
    BY EntryForFinds
  <2> HIDE DEF k
  <2>3. p.msgId \in 0..packetId
    BY <1>0, <2>1, <2>2 DEF IdsGiven
  <2>4. \A i \in 1..Len(entries) : entries[i].msgId = p.msgId => i = k
    BY <1>0, <2>1, <2>2 DEF IdsGiven, IdsDistinct
  <2>5. Traces(p)
    BY <2>2, <2>3, <2>4 DEF Traces
  <2> QED
    BY <2>1, <2>5 DEF IdsMove, Traces
<1>2. CASE ~dup /\ ~Admitted(entries, c, m)
  <2>1. UNCHANGED <<entries, packetId>> /\ p.msgId = 0
    BY <1>2 DEF WithEntry, PacketIdAfter, GivenId
  <2>2. Traces(p)
    BY <1>0, <2>1 DEF Traces, IdsGiven
  <2> QED
    BY <2>1, <2>2 DEF IdsMove, Traces
<1>3. CASE ~dup /\ Admitted(entries, c, m)
  <2>1. NextPacketId(packetId) = packetId + 1
    BY <1>0 DEF NextPacketId
  <2>2. Given(c, m) /\ p.msgId = packetId + 1
    BY <1>3, <2>1 DEF WithEntry, PacketIdAfter, GivenId, Given
  <2>3. IdsMove
    BY <2>2 DEF IdsMove
  <2> DEFINE e == [msgId |-> packetId + 1, client |-> c, clientMsgId |-> m]
  <2>4. e \in Entry /\ entries' = Append(entries, e) /\ packetId' = packetId + 1
    BY <1>0, <2>2 DEF Entry, Given
  <2>5. /\ Len(entries') = Len(entries) + 1 /\ entries'[Len(entries) + 1] = e
        /\ \A i \in 1..Len(entries) : entries'[i] = entries[i]
    BY <1>0, <2>4, AppendProperties
  <2>6. \A i \in 1..Len(entries') : entries'[i].msgId = p.msgId => i = Len(entries) + 1
    BY <1>0, <2>2, <2>5 DEF IdsGiven
  <2>7. p.asker = <<e.client, e.clientMsgId>>
    OBVIOUS
  <2> HIDE DEF e
  <2>8. Traces(p)'
    BY <1>0, <2>2, <2>4, <2>5, <2>6, <2>7 DEF Traces
  <2> QED
    BY <2>3, <2>8
<1> QED
  BY <1>1, <1>2, <1>3

-----------------------------------------------------------------------------
(* The number of ids given                                                 *)

FromDevices(q) == {i \in 1..Len(q) : q[i].from = "device"}

(* Each id is given to a packet of a device that was handled: there are at *)
(* most as many as packets, and the counter does not come round.           *)
Numbered ==
    /\ packetId \in Nat /\ left.packets \in Nat
    /\ packetId + left.packets + Cardinality(FromDevices(packetQ)) <= MaxPackets

(* Finitely many packets of devices are in the queue.                      *)
LEMMA FromDevicesFinite ==
    ASSUME NEW q, IsSequence(q)
    PROVE  IsFiniteSet(FromDevices(q)) /\ Cardinality(FromDevices(q)) \in Nat
<1>1. Len(q) \in Nat
  BY SequenceParts
<1>2. IsFiniteSet(1..Len(q)) /\ FromDevices(q) \in SUBSET (1..Len(q))
  BY <1>1, FS_Interval DEF FromDevices
<1> QED
  BY <1>2, FS_Subset, FS_CardinalityType

(* What follows the head moves one place forward; what is put behind it    *)
(* comes from no device.                                                   *)
LEMMA FromDevicesHandled ==
    ASSUME NEW q, IsSequence(q), q # <<>>, NEW r, IsSequence(r),
           \A e \in Range(r) : e.from # "device"
    PROVE  Cardinality(FromDevices(Tail(q) \o r))
             <= Cardinality(FromDevices(q)) - (IF Head(q).from = "device" THEN 1 ELSE 0)
<1> DEFINE D == FromDevices(q)
           T == FromDevices(Tail(q) \o r)
           f == [i \in D \ {1} |-> i - 1]
<1>1. /\ Len(q) \in Nat /\ Len(q) > 0 /\ Len(r) \in Nat
      /\ Len(Tail(q)) = Len(q) - 1 /\ IsSequence(Tail(q)) /\ Head(q) = q[1]
      /\ \A i \in 1..Len(q) - 1 : Tail(q)[i] = q[i + 1]
      /\ \A i \in 1..Len(r) : r[i] \in Range(r)
  BY TailSequence, SequenceParts
<1>2. /\ Len(Tail(q) \o r) = Len(q) - 1 + Len(r)
      /\ \A i \in 1..Len(q) - 1 + Len(r) :
            (Tail(q) \o r)[i] = IF i <= Len(q) - 1 THEN Tail(q)[i] ELSE r[i - (Len(q) - 1)]
  BY <1>1, ConcatSequence
<1>3. ASSUME NEW i \in 1..Len(q) - 1 + Len(r), i > Len(q) - 1
      PROVE  (Tail(q) \o r)[i].from # "device"
  <2>1. i - (Len(q) - 1) \in 1..Len(r)
    BY <1>1, <1>3
  <2> QED
    BY <1>1, <1>2, <1>3, <2>1
<1>4. ASSUME NEW i \in 1..Len(q) - 1
      PROVE  (Tail(q) \o r)[i] = q[i + 1]
  BY <1>1, <1>2
<1>5. \A i \in T : i + 1 \in D \ {1} /\ i \in Int
  BY <1>1, <1>2, <1>3, <1>4 DEF FromDevices
<1>6. \A i \in D \ {1} : i - 1 \in T /\ i \in Int
  BY <1>1, <1>2, <1>4 DEF FromDevices
<1>7. f \in Surjection(D \ {1}, T)
  <2>1. f \in [D \ {1} -> T]
    BY <1>6
  <2>2. \A t \in T : t + 1 \in D \ {1} /\ f[t + 1] = t
    BY <1>5
  <2> HIDE DEF f, D, T
  <2> QED
    BY <2>1, <2>2 DEF Surjection
<1>8. IsFiniteSet(D) /\ Cardinality(D) \in Nat
  BY FromDevicesFinite
<1>9. 1 \in D <=> Head(q).from = "device"
  BY <1>1 DEF FromDevices
<1> HIDE DEF D, T, f
<1>10. /\ IsFiniteSet(D \ {1})
       /\ Cardinality(D \ {1}) = IF 1 \in D THEN Cardinality(D) - 1 ELSE Cardinality(D)
  BY <1>8, FS_RemoveElement
<1>11. Cardinality(T) <= Cardinality(D \ {1})
  BY <1>7, <1>10, FS_Surjection
<1>12. Cardinality(T) <= Cardinality(D) - (IF Head(q).from = "device" THEN 1 ELSE 0)
  BY <1>8, <1>9, <1>10, <1>11
<1> QED
  BY <1>12 DEF D, T

(* A packet behind the others is one more if it comes from a device.       *)
LEMMA FromDevicesAppend ==
    ASSUME NEW q, IsSequence(q), NEW e
    PROVE  Cardinality(FromDevices(Append(q, e)))
             = Cardinality(FromDevices(q)) + (IF e.from = "device" THEN 1 ELSE 0)
<1>1. /\ Len(q) \in Nat /\ Len(Append(q, e)) = Len(q) + 1
      /\ \A i \in 1..Len(q) : Append(q, e)[i] = q[i]
      /\ Append(q, e)[Len(q) + 1] = e
  BY AppendSequence, SequenceParts
<1>2. FromDevices(Append(q, e))
        = IF e.from = "device" THEN FromDevices(q) \cup {Len(q) + 1} ELSE FromDevices(q)
  BY <1>1 DEF FromDevices
<1>3. Len(q) + 1 \notin FromDevices(q)
  BY <1>1 DEF FromDevices
<1>4. IsFiniteSet(FromDevices(q)) /\ Cardinality(FromDevices(q)) \in Nat
  BY FromDevicesFinite
<1>5. Cardinality(FromDevices(q) \cup {Len(q) + 1}) = Cardinality(FromDevices(q)) + 1
  BY <1>3, <1>4, FS_AddElement
<1> QED
  BY <1>2, <1>4, <1>5

(* A packet of a device is handled: an id is left for it.                  *)
LEMMA IdLeft ==
    ASSUME IsSequence(packetQ), Numbered, packetQ # <<>>, Head(packetQ).from = "device",
           MaxPackets \in Nat
    PROVE  packetId < MaxPackets
<1>1. 1 \in FromDevices(packetQ)
  BY TailSequence, SequenceParts DEF FromDevices
<1>2. IsFiniteSet(FromDevices(packetQ)) /\ Cardinality(FromDevices(packetQ)) \in Nat
  BY FromDevicesFinite
<1>3. Cardinality(FromDevices(packetQ)) # 0
  BY <1>1, <1>2, FS_EmptySet
<1> QED
  BY <1>2, <1>3 DEF Numbered

-----------------------------------------------------------------------------
(* The invariant                                                           *)

(* The requests about a topic.                                             *)
Subscriptions == {"SUBSCRIBE", "UNSUBSCRIBE"}

(* An event is for one of the clients; a request has an id of its device,  *)
(* and an answer is traced to its request.                                 *)
EventOK(e) ==
    /\ e.from \in {"device", "broker", "aggregater"}
    /\ e.from # "aggregater" => e.client \in Clients
    /\ e.from = "device" /\ e.packet.type \in Subscriptions \cup {"PUBLISH"}
          => e.packet.msgId \in ClientMsgIds
    /\ e.from = "device" /\ e.packet.type \in Subscriptions => e.packet.topic \in Topics
    /\ e.from = "aggregater" /\ e.packet.type # "PUBLISH" => Traces(e.packet)

(* The packet event queue, the way to the broker, the broker and its       *)
(* answers, the saved packets, the tables of the aggregater and the        *)
(* answers the devices got.                                                *)
Queue == IsSequence(packetQ) /\ \A e \in Range(packetQ) : EventOK(e)

ToBroker ==
    /\ IsSequence(brokerQ)
    /\ \A p \in Range(brokerQ) : p.type # "PUBACK" => Traces(p)

OfBroker ==
    /\ DOMAIN srv = {"answers", "subs"} /\ IsSequence(srv.answers)
    /\ \A p \in Range(srv.answers) : p.type # "PUBLISH" => Traces(p)

Kept == DOMAIN saved = Clients /\ \A c \in Clients : IsSequence(saved[c])

Tables ==
    /\ table \in Seq(Element)
    /\ DOMAIN topics = Clients /\ \A c \in Clients : IsFiniteSet(topics[c])

(* An answer that tells a device of its own request.                       *)
Told(c, p) == p.type \in {"PUBACK", "PUBREC", "SUBACK", "UNSUBACK"} => p.asker = <<c, p.msgId>>

(* Each device was told of its own requests only.                          *)
Answered ==
    /\ DOMAIN out = Clients
    /\ \A c \in Clients : IsSequence(out[c]) /\ \A p \in Range(out[c]) : Told(c, p)

Counted == DOMAIN left = {"packets", "news", "losses"}

(* The inductive invariant.                                                *)
AInv == /\ IdsGiven /\ Numbered /\ Queue /\ ToBroker /\ OfBroker
        /\ Kept /\ Tables /\ Answered /\ Counted

(* The bounds of the model: the counter of ids does not come round.        *)
Bounds == /\ MaxPackets \in Nat /\ MaxNews \in Nat /\ MaxLosses \in Nat
          /\ MaxPacketId \in Nat \ {0} /\ MaxPackets <= MaxPacketId

(* The invariant says that an answer reaches the device that asked.        *)
LEMMA AInvImplies == AInv => AnswersReachAsker /\ IdsDistinct
<1> SUFFICES ASSUME AInv PROVE AnswersReachAsker
  BY DEF AInv, IdsGiven
<1>1. \A c : Messages(c) = Range(out[c])
  BY DEF Messages, ToSet, Range
<1> QED
  BY <1>1 DEF AInv, Answered, Told, AnswersReachAsker

(* Nothing is asked at first.                                              *)
LEMMA AInvInit == ASSUME Bounds, Init PROVE AInv
<1>1. <<>> \in Seq(Entry) /\ <<>> \in Seq(Element) /\ Len(<<>>) = 0
  OBVIOUS
<1>2. IdsGiven
  BY <1>1 DEF Init, NoEntries, IdsGiven, IdsDistinct
<1>3. FromDevices(<<>>) = {}
  BY DEF FromDevices
<1>4. Numbered /\ Counted
  <2>1. Cardinality(FromDevices(packetQ)) = 0
    BY <1>3, FS_EmptySet DEF Init
  <2>2. packetId = 0 /\ left = [packets |-> MaxPackets, news |-> MaxNews, losses |-> MaxLosses]
    BY DEF Init
  <2> QED
    BY <2>1, <2>2 DEF Bounds, Numbered, Counted
<1>5. Queue /\ ToBroker /\ OfBroker
  BY EmptySequence DEF Init, Queue, ToBroker, OfBroker
<1>6. Kept /\ Tables /\ Answered
  BY <1>1, EmptySequence, FS_EmptySet DEF Init, NoSubscribers, Kept, Tables, Answered
<1> QED
  BY <1>2, <1>4, <1>5, <1>6 DEF AInv

-----------------------------------------------------------------------------
(* What the steps do to the queues                                         *)

(* An event that is right stays so when an id is given or given back.      *)
LEMMA EventStaysOK == ASSUME IdsGiven, IdsMove, NEW e, EventOK(e) PROVE EventOK(e)'
<1>1. ASSUME NEW p, Traces(p) PROVE Traces(p)'
  BY <1>1, TracesStays
<1> QED
  BY <1>1 DEF EventOK

(* A packet of the broker for a client is right.                           *)
LEMMA PostedOK == ASSUME NEW e, e.from = "broker", e.client \in Clients PROVE EventOK(e)'
  BY DEF EventOK

(* The first event is handled, and events that come from no device follow  *)
(* the others.                                                             *)
LEMMA HandledQueue ==
    ASSUME Bounds, AInv, IdsMove, packetQ # <<>>, left' = left,
           packetId' = packetId \/ Head(packetQ).from = "device",
           NEW r, IsSequence(r), \A e \in Range(r) : EventOK(e)' /\ e.from # "device",
           packetQ' = Tail(packetQ) \o r
    PROVE  Queue' /\ Numbered' /\ IdsGiven' /\ Counted'
<1>1. /\ IsSequence(packetQ) /\ IdsGiven /\ Numbered
      /\ \A e \in Range(packetQ) : EventOK(e)
  BY DEF AInv, Queue
<1>2. IdsGiven' /\ packetId' \in {packetId, packetId + 1}
  BY <1>1, IdsStayGiven
<1>3. IsSequence(Tail(packetQ)) /\ Range(Tail(packetQ)) \subseteq Range(packetQ)
  BY <1>1, TailSequence
<1>4. IsSequence(packetQ') /\ Range(packetQ') = Range(Tail(packetQ)) \cup Range(r)
  BY <1>3, ConcatSequence
<1>5. Queue'
  BY <1>1, <1>3, <1>4, EventStaysOK DEF Queue
<1>6. Cardinality(FromDevices(packetQ'))
        <= Cardinality(FromDevices(packetQ)) - (IF Head(packetQ).from = "device" THEN 1 ELSE 0)
  BY <1>1, FromDevicesHandled
<1>7. Cardinality(FromDevices(packetQ)) \in Nat /\ Cardinality(FromDevices(packetQ')) \in Nat
  BY <1>1, <1>4, FromDevicesFinite
<1>8. packetId \in Nat /\ left.packets \in Nat /\ MaxPackets = MaxPackets'
      /\ packetId + left.packets + Cardinality(FromDevices(packetQ)) <= MaxPackets
  BY <1>1 DEF Numbered
<1>9. FromDevices(packetQ)' = FromDevices(packetQ')
  BY DEF FromDevices
<1>10. Numbered'
  <2> DEFINE n == Cardinality(FromDevices(packetQ))
             m == Cardinality(FromDevices(packetQ'))
  <2>1. /\ m <= n - (IF Head(packetQ).from = "device" THEN 1 ELSE 0)
        /\ n \in Nat /\ m \in Nat /\ packetId + left.packets + n <= MaxPackets
    BY <1>6, <1>7, <1>8
  <2> HIDE DEF n, m
  <2>2. packetId' + left.packets + m <= MaxPackets
    BY <1>2, <1>8, <2>1 DEF Bounds
  <2>3. packetId' \in Nat /\ left'.packets \in Nat /\ left'.packets = left.packets
    BY <1>2, <1>8
  <2> QED
    BY <1>9, <2>2, <2>3 DEF Numbered, m
<1> QED
  BY <1>2, <1>5, <1>10 DEF AInv, Counted

(* The first event is handled.                                             *)
LEMMA HandledOnly ==
    ASSUME Bounds, AInv, IdsMove, packetQ # <<>>, left' = left,
           packetId' = packetId \/ Head(packetQ).from = "device",
           packetQ' = Tail(packetQ)
    PROVE  Queue' /\ Numbered' /\ IdsGiven' /\ Counted'
<1>1. IsSequence(Tail(packetQ))
  BY TailSequence DEF AInv, Queue
<1>2. packetQ' = Tail(packetQ) \o <<>>
  BY <1>1, ConcatEmptySeq DEF IsSequence
<1> QED
  BY <1>2, EmptySequence, HandledQueue

(* The queue and the ids rest.                                             *)
LEMMA RestQueue ==
    ASSUME AInv, UNCHANGED <<entries, packetId, packetQ, left>>
    PROVE  Queue' /\ Numbered' /\ IdsGiven' /\ Counted'
<1>1. \A p : Traces(p) => Traces(p)'
  BY DEF Traces
<1> QED
  BY <1>1 DEF AInv, Queue, EventOK, Numbered, FromDevices, IdsGiven, IdsDistinct, Counted

(* What goes to the broker is traced: the old, and a new packet behind it. *)
LEMMA ToBrokerStays ==
    ASSUME AInv, IdsMove,
           \/ brokerQ' = brokerQ
           \/ \E p : brokerQ' = Append(brokerQ, p) /\ (p.type # "PUBACK" => Traces(p)')
    PROVE  ToBroker'
<1>1. ASSUME NEW p, Traces(p) PROVE Traces(p)'
  BY <1>1, TracesStays DEF AInv
<1>2. IsSequence(brokerQ) /\ \A p \in Range(brokerQ) : p.type # "PUBACK" => Traces(p)
  BY DEF AInv, ToBroker
<1>3. CASE brokerQ' = brokerQ
  BY <1>1, <1>2, <1>3 DEF ToBroker
<1>4. ASSUME NEW p, brokerQ' = Append(brokerQ, p), p.type # "PUBACK" => Traces(p)'
      PROVE  ToBroker'
  <2>1. IsSequence(brokerQ') /\ Range(brokerQ') = Range(brokerQ) \cup {p}
    BY <1>2, <1>4, AppendSequence
  <2> QED
    BY <1>1, <1>2, <1>4, <2>1 DEF ToBroker
<1> QED
  BY <1>3, <1>4

(* The broker rests.                                                       *)
LEMMA OfBrokerStays == ASSUME AInv, IdsMove, srv' = srv PROVE OfBroker'
<1>1. ASSUME NEW p, Traces(p) PROVE Traces(p)'
  BY <1>1, TracesStays DEF AInv
<1> QED
  BY <1>1 DEF AInv, OfBroker

(* A device is told of its own request.                                    *)
LEMMA SendClientAnswers ==
    ASSUME Answered, NEW c \in Clients, NEW p, Told(c, p),
           out' = [out EXCEPT ![c] = Append(@, p)]
    PROVE  Answered'
<1>1. IsSequence(out[c]) /\ \A q \in Range(out[c]) : Told(c, q)
  BY DEF Answered
<1>2. IsSequence(Append(out[c], p)) /\ Range(Append(out[c], p)) = Range(out[c]) \cup {p}
  BY <1>1, AppendSequence
<1>3. \A d, q : Told(d, q)' <=> Told(d, q)
  BY DEF Told
<1>4. /\ DOMAIN out' = Clients
      /\ \A d \in Clients : out'[d] = IF d = c THEN Append(out[c], p) ELSE out[d]
  BY DEF Answered
<1> QED
  BY <1>1, <1>2, <1>4 DEF Answered, Told

(* No device is told anything.                                             *)
LEMMA AnsweredRests == ASSUME Answered, out' = out PROVE Answered'
  BY DEF Answered, Told

(* The saved PUBLISHes are posted as events for their client.              *)
LEMMA StoredEvents ==
    ASSUME Kept, NEW c \in Clients
    PROVE  \E r : /\ r = Stored(c) /\ IsSequence(r)
                  /\ \A e \in Range(r) : EventOK(e)' /\ e.from # "device"
<1>1. PICK n \in Nat : n = Len(saved[c])
  BY SequenceParts DEF Kept
<1>2. PICK r : r = Stored(c)
  OBVIOUS
<1>3. /\ DOMAIN r = 1..n /\ r = [i \in 1..n |-> r[i]]
      /\ \A i \in 1..n : r[i].from = "broker" /\ r[i].client = c
  BY <1>1, <1>2 DEF Stored, FromBroker
<1>4. IsSequence(r) /\ Range(r) = {r[i] : i \in 1..n}
  BY <1>3, MadeSequence
<1>5. \A e \in Range(r) : EventOK(e)' /\ e.from # "device"
  BY <1>3, <1>4, PostedOK
<1> QED
  BY <1>2, <1>4, <1>5

(* The saved packets of one device are taken.                              *)
LEMMA SavedTaken ==
    ASSUME Kept, NEW c \in Clients, saved' = [saved EXCEPT ![c] = <<>>] \/ saved' = saved
    PROVE  Kept'
  BY EmptySequence DEF Kept

(* The first event is right.                                               *)
LEMMA HeadEvent ==
    ASSUME AInv, packetQ # <<>>
    PROVE  EventOK(Head(packetQ))
  BY TailSequence DEF AInv, Queue

-----------------------------------------------------------------------------
(* The packets of the devices                                              *)

(* The event is for one of the clients.                                    *)
LEMMA ThisIsClient ==
    ASSUME AInv, packetQ # <<>>, Head(packetQ).from # "aggregater"
    PROVE  This \in Clients
  BY HeadEvent DEF EventOK, This

(* CONNECT of a sleeping device keeps the invariant.                       *)
LEMMA ConnectAsleepKeeps == ASSUME Bounds, AInv, ConnectAsleep PROVE AInv'
<1> USE DEF ConnectAsleep, Takes, aggregater
<1>0. PICK c \in Clients : c = This
  BY ThisIsClient
<1>1. IdsMove
  BY DEF IdsMove
<1>2. PICK r : r = Stored(c) /\ IsSequence(r) /\ \A e \in Range(r) : EventOK(e)' /\ e.from # "device"
  BY StoredEvents DEF AInv
<1>3. Queue' /\ Numbered' /\ IdsGiven' /\ Counted'
  <2>1. packetQ' = Tail(packetQ) \o r
    BY <1>0, <1>2
  <2> QED
    BY <1>1, <1>2, <2>1, HandledQueue
<1>4. ToBroker' /\ OfBroker'
  BY <1>1, ToBrokerStays, OfBrokerStays
<1>5. Kept' /\ Tables'
  BY <1>0, SavedTaken DEF AInv, Tables
<1>6. Answered'
  <2>1. PICK p : p = [type |-> "CONNACK"]
    OBVIOUS
  <2>2. Told(c, p) /\ out' = [out EXCEPT ![c] = Append(@, p)]
    BY <1>0, <2>1 DEF Told, SendClient
  <2> QED
    BY <2>2, SendClientAnswers DEF AInv
<1> QED
  BY <1>3, <1>4, <1>5, <1>6 DEF AInv

(* CONNECT keeps the invariant.                                            *)
LEMMA ConnectKeeps == ASSUME Bounds, AInv, Connect PROVE AInv'
<1> USE DEF Connect, Takes
<1>0. PICK c \in Clients : c = This
  BY ThisIsClient
<1>1. IdsMove
  BY DEF IdsMove
<1>2. PICK r : r = Stored(c) /\ IsSequence(r) /\ \A e \in Range(r) : EventOK(e)' /\ e.from # "device"
  BY StoredEvents DEF AInv
<1>3. Queue' /\ Numbered' /\ IdsGiven' /\ Counted'
  <2>1. CASE packetQ' = packetQ
    BY <2>1, RestQueue
  <2>2. CASE packetQ' = Tail(packetQ)
    BY <1>1, <2>2, HandledOnly
  <2>3. CASE packetQ' = Tail(packetQ) \o Stored(This)
    <3>1. packetQ' = Tail(packetQ) \o r
      BY <1>0, <1>2, <2>3
    <3> QED
      BY <1>1, <1>2, <3>1, HandledQueue
  <2> QED
    BY <2>1, <2>2, <2>3
<1>4. ToBroker' /\ OfBroker'
  BY <1>1, ToBrokerStays, OfBrokerStays
<1>5. Kept'
  <2>1. saved' = saved \/ saved' = [saved EXCEPT ![c] = <<>>]
    BY <1>0
  <2> QED
    BY <2>1, SavedTaken DEF AInv
<1>6. Tables'
  <2>1. CASE UNCHANGED <<table, topics>>
    BY <2>1 DEF AInv, Tables
  <2>2. CASE /\ table' = WithoutTopics(table, c, topics[c])
             /\ topics' = [topics EXCEPT ![c] = {}]
    <3>1. table \in Seq(Element) /\ IsFiniteSet(topics[c]) /\ DOMAIN topics = Clients
          /\ \A d \in Clients : IsFiniteSet(topics[d])
      BY DEF AInv, Tables
    <3>2. table' \in Seq(Element)
      BY <2>2, <3>1, WithoutTopicsTyped
    <3> QED
      BY <2>2, <3>1, <3>2, FS_EmptySet DEF Tables, Element
  <2> QED
    BY <1>0, <2>1, <2>2
<1>7. Answered'
  <2>1. CASE out' = out
    BY <2>1, AnsweredRests DEF AInv
  <2>2. ASSUME NEW p, p.type \in {"CONNACK", "WILLTOPICREQ"}, SendClient(c, p) PROVE Answered'
    <3>1. Told(c, p)
      BY <2>2 DEF Told
    <3> QED
      BY <2>2, <3>1, SendClientAnswers DEF AInv, SendClient
  <2>3. \/ out' = out \/ SendClient(c, [type |-> "CONNACK"])
        \/ SendClient(c, [type |-> "WILLTOPICREQ"])
    BY <1>0
  <2> QED
    BY <2>1, <2>2, <2>3
<1> QED
  BY <1>3, <1>4, <1>5, <1>6, <1>7 DEF AInv

(* WILLTOPIC keeps the invariant.                                          *)
LEMMA WilltopicKeeps == ASSUME Bounds, AInv, Willtopic PROVE AInv'
<1> USE DEF Willtopic, Takes, aggregater
<1>0. PICK c \in Clients : c = This
  BY ThisIsClient
<1>1. IdsMove
  BY DEF IdsMove
<1>2. Queue' /\ Numbered' /\ IdsGiven' /\ Counted'
  BY <1>1, HandledOnly
<1>3. ToBroker' /\ OfBroker'
  BY <1>1, ToBrokerStays, OfBrokerStays
<1>4. Kept' /\ Tables'
  BY DEF AInv, Kept, Tables
<1>5. Answered'
  <2>1. PICK p : p = [type |-> "WILLMSGREQ"]
    OBVIOUS
  <2>2. Told(c, p) /\ out' = [out EXCEPT ![c] = Append(@, p)]
    BY <1>0, <2>1 DEF Told, SendClient
  <2> QED
    BY <2>2, SendClientAnswers DEF AInv
<1> QED
  BY <1>2, <1>3, <1>4, <1>5 DEF AInv

(* WILLMSG keeps the invariant.                                            *)
LEMMA WillmsgKeeps == ASSUME Bounds, AInv, Willmsg PROVE AInv'
<1> USE DEF Willmsg, Takes, aggregater
<1>0. PICK c \in Clients : c = This
  BY ThisIsClient
<1>1. IdsMove
  BY DEF IdsMove
<1>2. PICK r : r = Stored(c) /\ IsSequence(r) /\ \A e \in Range(r) : EventOK(e)' /\ e.from # "device"
  BY StoredEvents DEF AInv
<1>3. Queue' /\ Numbered' /\ IdsGiven' /\ Counted'
  <2>1. packetQ' = Tail(packetQ) \/ packetQ' = Tail(packetQ) \o r
    BY <1>0, <1>2
  <2> QED
    BY <1>1, <1>2, <2>1, HandledOnly, HandledQueue
<1>4. ToBroker' /\ OfBroker'
  BY <1>1, ToBrokerStays, OfBrokerStays
<1>5. Kept' /\ Tables'
  <2>1. saved' = saved \/ saved' = [saved EXCEPT ![c] = <<>>]
    BY <1>0
  <2> QED
    BY <2>1, SavedTaken DEF AInv, Tables
<1>6. Answered'
  <2>1. PICK p : p = [type |-> "CONNACK"]
    OBVIOUS
  <2>2. Told(c, p) /\ (out' = [out EXCEPT ![c] = Append(@, p)] \/ out' = out)
    BY <1>0, <2>1 DEF Told, SendClient
  <2> QED
    BY <2>2, SendClientAnswers, AnsweredRests DEF AInv
<1> QED
  BY <1>3, <1>4, <1>5, <1>6 DEF AInv

(* DISCONNECT keeps the invariant.                                         *)
LEMMA DisconnectKeeps == ASSUME Bounds, AInv, Disconnect PROVE AInv'
<1> USE DEF Disconnect, Takes, aggregater
<1>0. PICK c \in Clients : c = This
  BY ThisIsClient
<1>1. IdsMove
  BY DEF IdsMove
<1>2. Queue' /\ Numbered' /\ IdsGiven' /\ Counted'
  BY <1>1, HandledOnly
<1>3. ToBroker' /\ OfBroker'
  BY <1>1, ToBrokerStays, OfBrokerStays
<1>4. Kept' /\ Tables'
  BY DEF AInv, Kept, Tables
<1>5. Answered'
  <2>1. PICK p : p = [type |-> "DISCONNECT"]
    OBVIOUS
  <2>2. Told(c, p) /\ out' = [out EXCEPT ![c] = Append(@, p)]
    BY <1>0, <2>1 DEF Told, SendClient
  <2> QED
    BY <2>2, SendClientAnswers DEF AInv
<1> QED
  BY <1>2, <1>3, <1>4, <1>5 DEF AInv

(* Pingreq posts the saved PUBLISHes and then the PINGRESP.                *)
LEMMA PingreqPosts ==
    ASSUME AInv, Pingreq
    PROVE  \E r : /\ IsSequence(r) /\ \A e \in Range(r) : EventOK(e)' /\ e.from # "device"
                  /\ packetQ' = Tail(packetQ) \o r
                  /\ saved' = saved \/ \E c \in Clients : saved' = [saved EXCEPT ![c] = <<>>]
<1> USE DEF Takes, aggregater
<1>0. packetQ # <<>> /\ Head(packetQ).from = "device" /\ UNCHANGED <<entries, packetId, left>>
  BY DEF Pingreq
<1>1. PICK c \in Clients : c = This
  BY <1>0, ThisIsClient
<1>2. IdsMove
  BY <1>0 DEF IdsMove
<1>3. PICK s : /\ IsSequence(s) /\ \A e \in Range(s) : EventOK(e)' /\ e.from # "device"
               /\ packetQ' = Tail(packetQ) \o s \o <<FromBroker(c, [type |-> "PINGRESP"])>>
               /\ saved' = IF s = <<>> THEN saved ELSE [saved EXCEPT ![c] = <<>>]
  <2>1. PICK r : r = Stored(c) /\ IsSequence(r) /\ \A e \in Range(r) : EventOK(e)' /\ e.from # "device"
    BY StoredEvents DEF AInv
  <2>2. PICK s : /\ s = (IF status[c] \in {"asleep", "awake"} THEN r ELSE <<>>)
                 /\ packetQ' = Tail(packetQ) \o s \o <<FromBroker(c, [type |-> "PINGRESP"])>>
                 /\ saved' = IF s = <<>> THEN saved ELSE [saved EXCEPT ![c] = <<>>]
    <3> DEFINE stored == IF status[This] \in {"asleep", "awake"} THEN Stored(This) ELSE <<>>
    <3>1. /\ packetQ' = Tail(packetQ) \o stored \o <<FromBroker(This, [type |-> "PINGRESP"])>>
          /\ saved' = IF stored = <<>> THEN saved ELSE [saved EXCEPT ![This] = <<>>]
      BY DEF Pingreq
    <3>2. stored = IF status[c] \in {"asleep", "awake"} THEN r ELSE <<>>
      BY <1>1, <2>1
    <3> HIDE DEF stored
    <3> QED
      BY <1>1, <3>1, <3>2
  <2>3. IsSequence(s) /\ \A e \in Range(s) : EventOK(e)' /\ e.from # "device"
    BY <2>1, <2>2, EmptySequence
  <2> QED
    BY <2>2, <2>3
<1>4. PICK e : e = FromBroker(c, [type |-> "PINGRESP"])
  OBVIOUS
<1>5. e.from = "broker" /\ e.client = c
  BY <1>4 DEF FromBroker
<1>6. PICK r : r = Append(s, e)
  OBVIOUS
<1>7. IsSequence(r) /\ \A d \in Range(r) : EventOK(d)' /\ d.from # "device"
  BY <1>3, <1>5, <1>6, AppendSequence, PostedOK
<1>8. packetQ' = Tail(packetQ) \o r
  <2>1. PICK q : q = Tail(packetQ) /\ IsSequence(q)
    BY <1>0, TailSequence DEF AInv, Queue
  <2> DEFINE S == Range(q) \cup Range(s) \cup {e}
  <2>2. q \in Seq(S) /\ s \in Seq(S) /\ e \in S
    BY <1>3, <2>1, SeqMonotonic DEF IsSequence
  <2> HIDE DEF S
  <2>3. q \o s \o <<e>> = q \o Append(s, e)
    <3>1. s \o <<e>> = Append(s, e)
      BY <2>2, AppendIsConcat
    <3>2. PICK t : t = <<e>>
      OBVIOUS
    <3>3. t \in Seq(S)
      BY <2>2, <3>2
    <3>4. (q \o s) \o t = q \o (s \o t)
      BY <2>2, <3>3, ConcatAssociative
    <3> QED
      BY <3>1, <3>2, <3>4
  <2> QED
    BY <1>3, <1>4, <1>6, <2>1, <2>3
<1> QED
  BY <1>3, <1>7, <1>8

(* PINGREQ keeps the invariant.                                            *)
LEMMA PingreqKeeps == ASSUME Bounds, AInv, Pingreq PROVE AInv'
<1> USE DEF Takes, aggregater
<1>0. packetQ # <<>> /\ Head(packetQ).from = "device" /\ UNCHANGED <<entries, packetId, left>>
  BY DEF Pingreq
<1>1. PICK r : /\ IsSequence(r) /\ \A e \in Range(r) : EventOK(e)' /\ e.from # "device"
               /\ packetQ' = Tail(packetQ) \o r
               /\ saved' = saved \/ \E c \in Clients : saved' = [saved EXCEPT ![c] = <<>>]
  BY PingreqPosts
<1>2. IdsMove
  BY <1>0 DEF IdsMove
<1>3. Queue' /\ Numbered' /\ IdsGiven' /\ Counted'
  BY <1>0, <1>1, <1>2, HandledQueue
<1>4. ToBroker' /\ OfBroker'
  BY <1>2, ToBrokerStays, OfBrokerStays DEF Pingreq
<1>5. Kept' /\ Tables'
  <2>1. Kept'
    BY <1>1, SavedTaken DEF AInv, Kept
  <2> QED
    BY <2>1 DEF AInv, Tables, Pingreq
<1>6. Answered'
  BY AnsweredRests DEF AInv, Pingreq
<1> QED
  BY <1>3, <1>4, <1>5, <1>6 DEF AInv

(* An acknowledgement of a device keeps the invariant.                     *)
LEMMA AckKeeps == ASSUME Bounds, AInv, Ack PROVE AInv'
<1> USE DEF Ack, Takes, aggregater, client
<1>0. PICK c \in Clients : c = This
  BY ThisIsClient
<1>1. IdsMove
  BY DEF IdsMove
<1>2. Queue' /\ Numbered' /\ IdsGiven' /\ Counted'
  BY <1>1, HandledOnly
<1>3. ToBroker' /\ OfBroker'
  BY <1>1, ToBrokerStays, OfBrokerStays
<1>4. Kept' /\ Tables'
  BY DEF AInv, Kept, Tables
<1>5. Answered'
  <2>1. PICK p : p = [type |-> "PUBREL", msgId |-> Packet.msgId]
    OBVIOUS
  <2>2. Told(c, p) /\ (out' = [out EXCEPT ![c] = Append(@, p)] \/ out' = out)
    BY <1>0, <2>1 DEF Told, SendClient
  <2> QED
    BY <2>2, SendClientAnswers, AnsweredRests DEF AInv
<1> QED
  BY <1>2, <1>3, <1>4, <1>5 DEF AInv

(* A request that takes an id is traced by it.                             *)
LEMMA RequestKept ==
    ASSUME Bounds, AInv, packetQ # <<>>, Head(packetQ).from = "device",
           Packet.type \in Subscriptions \cup {"PUBLISH"},
           NEW c \in Clients, c = This, TakesId(c),
           NEW p, p.asker = <<c, Packet.msgId>>, p.msgId = IdOfRequest(c)
    PROVE  IdsMove /\ Traces(p)'
<1>1. PICK m \in ClientMsgIds : m = Packet.msgId
  BY HeadEvent DEF EventOK, Packet
<1>2. PICK dup : dup = Packet.dup
  OBVIOUS
<1>3. IdsGiven /\ packetId < MaxPacketId
  <2>1. packetId < MaxPackets
    BY IdLeft DEF AInv, Queue, Bounds
  <2> QED
    BY <2>1 DEF AInv, IdsGiven, Bounds
<1>4. p.msgId = IF dup THEN IdFor(entries, c, m) ELSE GivenId(entries, packetId, c, m)
  BY <1>1, <1>2 DEF IdOfRequest
<1>5. IF dup THEN UNCHANGED <<entries, packetId>>
      ELSE /\ entries' = WithEntry(entries, packetId, c, m)
           /\ packetId' = PacketIdAfter(entries, packetId, c, m)
  BY <1>1, <1>2 DEF TakesId
<1> QED
  BY <1>1, <1>3, <1>4, <1>5, RequestTraces

(* PUBLISH keeps the invariant.                                            *)
LEMMA PublishKeeps == ASSUME Bounds, AInv, Publish PROVE AInv'
<1>0. /\ packetQ # <<>> /\ Head(packetQ).from = "device" /\ Packet.type = "PUBLISH"
      /\ packetQ' = Tail(packetQ) /\ UNCHANGED <<saved, topics, table, out, srv, left>>
  BY DEF Publish, Takes, Packet
<1>1. PICK c \in Clients : c = This
  BY <1>0, ThisIsClient
<1>2. PICK p : p = [type |-> "PUBLISH", qos |-> Packet.qos, msgId |-> IdOfRequest(c),
                    asker |-> <<c, Packet.msgId>>]
  OBVIOUS
<1>3. TakesId(c) /\ brokerQ' = Append(brokerQ, p)
  BY <1>1, <1>2 DEF Publish
<1>4. IdsMove /\ Traces(p)'
  BY <1>0, <1>1, <1>2, <1>3, RequestKept
<1>5. Queue' /\ Numbered' /\ IdsGiven' /\ Counted'
  BY <1>0, <1>4, HandledOnly
<1>6. ToBroker' /\ OfBroker'
  BY <1>0, <1>3, <1>4, ToBrokerStays, OfBrokerStays
<1>7. Kept' /\ Tables'
  BY <1>0 DEF AInv, Kept, Tables
<1>8. Answered'
  BY <1>0, AnsweredRests DEF AInv
<1> QED
  BY <1>5, <1>6, <1>7, <1>8 DEF AInv

(* SUBSCRIBE keeps the invariant.                                          *)
LEMMA SubscribeKeeps == ASSUME Bounds, AInv, Subscribe PROVE AInv'
<1>0. /\ packetQ # <<>> /\ Head(packetQ).from = "device" /\ Packet.type = "SUBSCRIBE"
      /\ packetQ' = Tail(packetQ) /\ UNCHANGED <<saved, out, srv, left>>
  BY DEF Subscribe, Takes, Packet
<1>1. PICK c \in Clients : c = This
  BY <1>0, ThisIsClient
<1>2. PICK t \in Topics : t = Packet.topic
  BY <1>0, HeadEvent DEF EventOK, Packet, Subscriptions
<1>3. PICK p : p = [type |-> "SUBSCRIBE", topic |-> t, msgId |-> IdOfRequest(c),
                    asker |-> <<c, Packet.msgId>>]
  OBVIOUS
<1>4. /\ TakesId(c)
      /\ topics' = topics \/ topics' = [topics EXCEPT ![c] = @ \cup {t}]
      /\ \/ UNCHANGED <<table, brokerQ>>
         \/ table' = WithSubscriber(table, t, c) /\ brokerQ' = Append(brokerQ, p)
  BY <1>1, <1>2, <1>3 DEF Subscribe
<1>5. IdsMove /\ Traces(p)'
  BY <1>0, <1>1, <1>3, <1>4, RequestKept DEF Subscriptions
<1>6. Queue' /\ Numbered' /\ IdsGiven' /\ Counted'
  BY <1>0, <1>5, HandledOnly
<1>7. ToBroker' /\ OfBroker'
  BY <1>0, <1>4, <1>5, ToBrokerStays, OfBrokerStays
<1>8. Kept'
  BY <1>0 DEF AInv, Kept
<1>9. Tables'
  <2>1. table \in Seq(Element) /\ DOMAIN topics = Clients /\ \A d \in Clients : IsFiniteSet(topics[d])
    BY DEF AInv, Tables
  <2>2. table' \in Seq(Element)
    BY <1>4, <2>1, WithSubscriberTyped
  <2>3. /\ DOMAIN topics' = Clients
        /\ \A d \in Clients : topics'[d] = topics[d] \/ topics'[d] = topics[d] \cup {t}
    BY <1>4, <2>1
  <2>4. \A d \in Clients : IsFiniteSet(topics[d] \cup {t})
    BY <2>1, FS_AddElement
  <2>5. \A d \in Clients : IsFiniteSet(topics'[d])
    BY <2>1, <2>3, <2>4
  <2> QED
    BY <2>2, <2>3, <2>5 DEF Tables, Element
<1>10. Answered'
  BY <1>0, AnsweredRests DEF AInv
<1> QED
  BY <1>6, <1>7, <1>8, <1>9, <1>10 DEF AInv

(* UNSUBSCRIBE keeps the invariant.                                        *)
LEMMA UnsubscribeKeeps == ASSUME Bounds, AInv, Unsubscribe PROVE AInv'
<1>0. /\ packetQ # <<>> /\ Head(packetQ).from = "device" /\ Packet.type = "UNSUBSCRIBE"
      /\ UNCHANGED <<saved, topics, srv, left>>
  BY DEF Unsubscribe, Takes, Packet, client
<1>1. PICK c \in Clients : c = This
  BY <1>0, ThisIsClient
<1>2. PICK t : t = Packet.topic
  OBVIOUS
<1>3. PICK p : p = [type |-> "UNSUBSCRIBE", topic |-> t, msgId |-> IdOfRequest(c),
                    asker |-> <<c, Packet.msgId>>]
  OBVIOUS
<1>4. PICK q : q = [type |-> "UNSUBACK", msgId |-> Packet.msgId, asker |-> <<c, Packet.msgId>>]
  OBVIOUS
<1>5. \/ SendClient(c, q) /\ packetQ' = Tail(packetQ) /\ UNCHANGED <<entries, packetId, table, brokerQ>>
      \/ UNCHANGED <<entries, packetId, table, packetQ, brokerQ, out>>
      \/ /\ TakesId(c) /\ packetQ' = Tail(packetQ) /\ out' = out
         /\ \/ UNCHANGED <<table, brokerQ>>
            \/ table' = WithoutSubscriber(table, t, c) /\ brokerQ' = Append(brokerQ, p)
  BY <1>1, <1>2, <1>3, <1>4 DEF Unsubscribe, aggregater
<1>6. Kept'
  BY <1>0 DEF AInv, Kept
<1>7. table' = table => Tables'
  BY <1>0 DEF AInv, Tables
<1>8. CASE /\ SendClient(c, q) /\ packetQ' = Tail(packetQ)
           /\ UNCHANGED <<entries, packetId, table, brokerQ>>
  <2>1. IdsMove
    BY <1>8 DEF IdsMove
  <2>2. Queue' /\ Numbered' /\ IdsGiven' /\ Counted'
    BY <1>0, <1>8, <2>1, HandledOnly
  <2>3. ToBroker' /\ OfBroker'
    BY <1>0, <1>8, <2>1, ToBrokerStays, OfBrokerStays
  <2>4. Told(c, q)
    BY <1>4 DEF Told
  <2>5. Answered'
    BY <1>8, <2>4, SendClientAnswers DEF AInv, SendClient
  <2> QED
    BY <1>6, <1>7, <1>8, <2>2, <2>3, <2>5 DEF AInv
<1>9. CASE UNCHANGED <<entries, packetId, table, packetQ, brokerQ, out>>
  <2>1. IdsMove
    BY <1>9 DEF IdsMove
  <2>2. Queue' /\ Numbered' /\ IdsGiven' /\ Counted'
    BY <1>0, <1>9, RestQueue
  <2>3. ToBroker' /\ OfBroker'
    BY <1>0, <1>9, <2>1, ToBrokerStays, OfBrokerStays
  <2>4. Answered'
    BY <1>9, AnsweredRests DEF AInv
  <2> QED
    BY <1>6, <1>7, <1>9, <2>2, <2>3, <2>4 DEF AInv
<1>10. CASE /\ TakesId(c) /\ packetQ' = Tail(packetQ) /\ out' = out
            /\ \/ UNCHANGED <<table, brokerQ>>
               \/ table' = WithoutSubscriber(table, t, c) /\ brokerQ' = Append(brokerQ, p)
  <2>1. IdsMove /\ Traces(p)'
    BY <1>0, <1>1, <1>3, <1>10, RequestKept DEF Subscriptions
  <2>2. Queue' /\ Numbered' /\ IdsGiven' /\ Counted'
    BY <1>0, <1>10, <2>1, HandledOnly
  <2>3. ToBroker' /\ OfBroker'
    BY <1>0, <1>10, <2>1, ToBrokerStays, OfBrokerStays
  <2>4. Tables'
    <3>1. table' \in Seq(Element)
      BY <1>10, WithoutSubscriberTyped DEF AInv, Tables
    <3> QED
      BY <1>0, <3>1 DEF AInv, Tables, Element
  <2>5. Answered'
    BY <1>10, AnsweredRests DEF AInv
  <2> QED
    BY <1>6, <2>2, <2>3, <2>4, <2>5 DEF AInv
<1> QED
  BY <1>5, <1>8, <1>9, <1>10

-----------------------------------------------------------------------------
(* The packets of the broker                                               *)

(* An answer of the broker keeps the invariant.                            *)
LEMMA BrokerAnswerKeeps == ASSUME Bounds, AInv, BrokerAnswer PROVE AInv'
<1>0. /\ packetQ # <<>> /\ Head(packetQ).from = "aggregater" /\ Packet.type # "PUBLISH"
      /\ packetQ' = Tail(packetQ) /\ entries' = WithoutEntry(entries, Packet.msgId)
      /\ UNCHANGED <<saved, topics, packetId, table, brokerQ, srv, left>>
  BY DEF BrokerAnswer, Takes, Packet
<1>1. PICK p : p = Packet
  OBVIOUS
<1>2. Traces(p)
  BY <1>0, <1>1, HeadEvent DEF EventOK, Packet
<1>3. IdsMove
  BY <1>0, <1>1, WithoutEntryMoves DEF AInv
<1>4. Queue' /\ Numbered' /\ IdsGiven' /\ Counted'
  BY <1>0, <1>3, HandledOnly
<1>5. ToBroker' /\ OfBroker'
  BY <1>0, <1>3, ToBrokerStays, OfBrokerStays
<1>6. Kept' /\ Tables'
  BY <1>0 DEF AInv, Kept, Tables
<1>7. Answered'
  <2>1. PICK i : i = EntryOf(entries, p.msgId)
    OBVIOUS
  <2>2. CASE i = 0
    <3>1. out' = out
      BY <1>1, <2>1, <2>2 DEF BrokerAnswer
    <3> QED
      BY <3>1, AnsweredRests DEF AInv
  <2>3. CASE i # 0
    <3>1. i \in 1..Len(entries) /\ entries[i].msgId = p.msgId
      BY <2>1, <2>3, EntryOfFinds DEF AInv
    <3>2. PICK c \in Clients, m \in ClientMsgIds : c = entries[i].client /\ m = entries[i].clientMsgId
      <4>1. entries[i] \in Entry
        BY <3>1, ElementOfSeq DEF AInv, IdsGiven
      <4> QED
        BY <4>1 DEF Entry
    <3>3. p.asker = <<c, m>>
      BY <1>2, <3>1, <3>2 DEF Traces
    <3>4. PICK q : q = [type |-> p.type, msgId |-> m, asker |-> p.asker]
      OBVIOUS
    <3>5. Told(c, q)
      BY <3>3, <3>4 DEF Told
    <3>6. Answer(c, m)
      BY <1>1, <2>1, <2>3, <3>2 DEF BrokerAnswer
    <3>7. SendClient(c, q) \/ out' = out
      BY <1>1, <3>4, <3>6 DEF Answer
    <3> QED
      BY <3>5, <3>7, SendClientAnswers, AnsweredRests DEF AInv, SendClient
  <2> QED
    BY <2>2, <2>3
<1> QED
  BY <1>4, <1>5, <1>6, <1>7 DEF AInv

(* handleAggregatePublish posts the PUBLISH to each subscriber.            *)
LEMMA FanOutPosts ==
    ASSUME AInv, FanOut
    PROVE  \E r : /\ IsSequence(r) /\ \A e \in Range(r) : EventOK(e)' /\ e.from # "device"
                  /\ packetQ' = Tail(packetQ) \o r
<1> USE DEF FanOut, Takes, client, aggregater
<1>2. PICK subs \in Seq(Clients) : subs = SubscribersOf(table, Packet.topic)
  <2> DEFINE I == {i \in 1..Len(table) : Matched(table[i].topic, Packet.topic)}
             k == ElementOf(table, Packet.topic)
  <2>1. k = IF I # {} THEN Min(I) ELSE 0
    BY DEF ElementOf, SelectInSeq
  <2>2. k = 0 \/ k \in 1..Len(table)
    BY <2>1, LeastIndex, I \in SUBSET Nat
  <2>3. SubscribersOf(table, Packet.topic) = IF k = 0 THEN <<>> ELSE table[k].clients
    BY DEF SubscribersOf
  <2> HIDE DEF k
  <2>4. k # 0 => table[k] \in Element
    BY <2>2, ElementOfSeq DEF AInv, Tables
  <2>5. <<>> \in Seq(Clients) /\ (k # 0 => table[k].clients \in Seq(Clients))
    BY <2>4 DEF Element
  <2> QED
    BY <2>3, <2>5
<1>3. PICK n \in Nat : n = Len(subs)
  BY LenProperties
<1>4. PICK r : r = [i \in 1..n |-> FromBroker(subs[i], Packet)]
  OBVIOUS
<1>5. /\ DOMAIN r = 1..n /\ r = [i \in 1..n |-> r[i]]
      /\ \A i \in 1..n : r[i].from = "broker" /\ r[i].client \in Clients
  BY <1>2, <1>3, <1>4, ElementOfSeq DEF FromBroker
<1>6. IsSequence(r) /\ Range(r) = {r[i] : i \in 1..n}
  BY <1>5, MadeSequence
<1>7. \A e \in Range(r) : EventOK(e)' /\ e.from # "device"
  BY <1>5, <1>6, PostedOK
<1>8. packetQ' = Tail(packetQ) \o r
  BY <1>2, <1>3, <1>4
<1> QED
  BY <1>6, <1>7, <1>8

(* The broker's PUBLISH keeps the invariant.                               *)
LEMMA FanOutKeeps == ASSUME Bounds, AInv, FanOut PROVE AInv'
<1> USE DEF FanOut, Takes, client, aggregater
<1>1. IdsMove
  BY DEF IdsMove
<1>2. PICK r : /\ IsSequence(r) /\ \A e \in Range(r) : EventOK(e)' /\ e.from # "device"
               /\ packetQ' = Tail(packetQ) \o r
  BY FanOutPosts
<1>3. Queue' /\ Numbered' /\ IdsGiven' /\ Counted'
  BY <1>1, <1>2, HandledQueue
<1>4. ToBroker' /\ OfBroker'
  BY <1>1, ToBrokerStays, OfBrokerStays
<1>5. Kept' /\ Tables'
  BY DEF AInv, Kept, Tables
<1>6. Answered'
  BY AnsweredRests DEF AInv
<1> QED
  BY <1>3, <1>4, <1>5, <1>6 DEF AInv

(* A PUBLISH for one device keeps the invariant.                           *)
LEMMA ClientPublishKeeps == ASSUME Bounds, AInv, ClientPublish PROVE AInv'
<1> USE DEF ClientPublish, Takes, aggregater
<1>0. PICK c \in Clients : c = This
  BY ThisIsClient
<1>1. IdsMove
  BY DEF IdsMove
<1>2. Queue' /\ Numbered' /\ IdsGiven' /\ Counted'
  BY <1>1, HandledOnly
<1>3. ToBroker' /\ OfBroker'
  <2>1. PICK p : p = [type |-> "PUBACK", msgId |-> Packet.msgId]
    OBVIOUS
  <2>2. p.type = "PUBACK" /\ (brokerQ' = brokerQ \/ brokerQ' = Append(brokerQ, p))
    BY <2>1
  <2> QED
    BY <1>1, <2>2, ToBrokerStays, OfBrokerStays
<1>4. Kept'
  <2>1. saved' = saved \/ saved' = [saved EXCEPT ![c] = Append(@, Packet)]
    BY <1>0
  <2>2. IsSequence(saved[c]) /\ IsSequence(Append(saved[c], Packet))
    BY AppendSequence DEF AInv, Kept
  <2> QED
    BY <2>1, <2>2 DEF AInv, Kept
<1>5. Tables'
  BY DEF AInv, Tables
<1>6. Answered'
  <2>1. PICK p : p = Packet
    OBVIOUS
  <2>2. Told(c, p) /\ (out' = [out EXCEPT ![c] = Append(@, p)] \/ out' = out)
    BY <1>0, <2>1 DEF Told, SendClient, Packet
  <2> QED
    BY <2>2, SendClientAnswers, AnsweredRests DEF AInv
<1> QED
  BY <1>2, <1>3, <1>4, <1>5, <1>6 DEF AInv

(* PINGRESP keeps the invariant.                                           *)
LEMMA PingrespKeeps == ASSUME Bounds, AInv, Pingresp PROVE AInv'
<1> USE DEF Pingresp, Takes, aggregater
<1>0. PICK c \in Clients : c = This
  BY ThisIsClient
<1>1. IdsMove
  BY DEF IdsMove
<1>2. Queue' /\ Numbered' /\ IdsGiven' /\ Counted'
  BY <1>1, HandledOnly
<1>3. ToBroker' /\ OfBroker'
  BY <1>1, ToBrokerStays, OfBrokerStays
<1>4. Kept' /\ Tables'
  BY DEF AInv, Kept, Tables
<1>5. Answered'
  <2>1. PICK p : p = [type |-> "PINGRESP"]
    OBVIOUS
  <2>2. Told(c, p) /\ out' = [out EXCEPT ![c] = Append(@, p)]
    BY <1>0, <2>1 DEF Told, SendClient
  <2> QED
    BY <2>2, SendClientAnswers DEF AInv
<1> QED
  BY <1>2, <1>3, <1>4, <1>5 DEF AInv

(* The broker takes a packet keeps the invariant.                          *)
LEMMA ServerTakesKeeps == ASSUME Bounds, AInv, ServerTakes PROVE AInv'
<1> USE DEF client, aggregater
<1>0. UNCHANGED <<entries, packetId, packetQ, left, saved, topics, table, out>>
  BY DEF ServerTakes
<1>1. IsSequence(brokerQ) /\ brokerQ # <<>> /\ brokerQ' = Tail(brokerQ)
  BY DEF ServerTakes, AInv, ToBroker
<1>2. Queue' /\ Numbered' /\ IdsGiven' /\ Counted'
  BY <1>0, RestQueue
<1>3. \A p : Traces(p)' <=> Traces(p)
  BY <1>0 DEF Traces
<1>4. ToBroker'
  <2>1. IsSequence(brokerQ') /\ Range(brokerQ') \subseteq Range(brokerQ)
    BY <1>1, TailSequence
  <2> QED
    BY <1>3, <2>1 DEF AInv, ToBroker
<1>5. OfBroker'
  <2>1. PICK p : p = Head(brokerQ) /\ (p.type # "PUBACK" => Traces(p))
    BY <1>1, TailSequence DEF AInv, ToBroker
  <2>2. PICK answer : answer = [type |-> Reply(p), msgId |-> p.msgId, asker |-> p.asker]
    OBVIOUS
  <2>3. p.type # "PUBACK" => Traces(answer)
    BY <2>1, <2>2 DEF Traces
  <2>4. PICK subs : srv' = [subs |-> subs, answers |->
                              IF p.type = "PUBACK" \/ p.msgId = 0 THEN srv.answers
                              ELSE Append(srv.answers, answer)]
    BY <2>1, <2>2 DEF ServerTakes
  <2>5. DOMAIN srv' = {"answers", "subs"}
    BY <2>4
  <2>6. \/ srv'.answers = srv.answers
        \/ p.type # "PUBACK" /\ srv'.answers = Append(srv.answers, answer)
    BY <2>4
  <2>7. IsSequence(srv.answers) /\ \A q \in Range(srv.answers) : q.type # "PUBLISH" => Traces(q)
    BY DEF AInv, OfBroker
  <2>8. /\ IsSequence(Append(srv.answers, answer))
        /\ Range(Append(srv.answers, answer)) = Range(srv.answers) \cup {answer}
    BY <2>7, AppendSequence
  <2>9. /\ IsSequence(srv'.answers)
        /\ \A q \in Range(srv'.answers) : q.type # "PUBLISH" => Traces(q)
    BY <2>3, <2>6, <2>7, <2>8
  <2> QED
    BY <1>3, <2>5, <2>9 DEF OfBroker
<1>6. Kept' /\ Tables'
  BY <1>0 DEF AInv, Kept, Tables
<1>7. Answered'
  BY <1>0, AnsweredRests DEF AInv
<1> QED
  BY <1>2, <1>4, <1>5, <1>6, <1>7 DEF AInv

(* The broker publishes keeps the invariant.                               *)
LEMMA ServerPublishKeeps == ASSUME Bounds, AInv, ServerPublish PROVE AInv'
<1> USE DEF client, aggregater
<1>0. UNCHANGED <<entries, packetId, packetQ, brokerQ, saved, topics, table, out>>
  BY DEF ServerPublish
<1>1. PICK p : p.type = "PUBLISH" /\ srv' = [srv EXCEPT !.answers = Append(@, p)]
  <2>1. PICK t, qos : srv' = [srv EXCEPT !.answers = Append(@,
                   [type |-> "PUBLISH", topic |-> t, qos |-> qos, msgId |-> left.news,
                    n |-> left.news, again |-> FALSE])]
    BY DEF ServerPublish
  <2> QED
    BY <2>1
<1>2. \A q : Traces(q)' <=> Traces(q)
  BY <1>0 DEF Traces
<1>3. Queue' /\ IdsGiven'
  BY <1>0, <1>2 DEF AInv, Queue, EventOK, IdsGiven, IdsDistinct
<1>4. Counted' /\ Numbered'
  <2>1. left' = [left EXCEPT !.news = @ - 1]
    BY DEF ServerPublish
  <2>2. DOMAIN left' = {"packets", "news", "losses"} /\ left'.packets = left.packets
    BY <2>1 DEF AInv, Counted
  <2> QED
    BY <1>0, <2>2 DEF AInv, Counted, Numbered, FromDevices
<1>5. ToBroker'
  BY <1>0, <1>2 DEF AInv, ToBroker
<1>6. OfBroker'
  <2>1. IsSequence(srv.answers) /\ \A q \in Range(srv.answers) : q.type # "PUBLISH" => Traces(q)
    BY DEF AInv, OfBroker
  <2>2. /\ IsSequence(Append(srv.answers, p))
        /\ Range(Append(srv.answers, p)) = Range(srv.answers) \cup {p}
    BY <2>1, AppendSequence
  <2>3. DOMAIN srv' = {"answers", "subs"} /\ srv'.answers = Append(srv.answers, p)
    BY <1>1 DEF AInv, OfBroker
  <2> QED
    BY <1>1, <1>2, <2>1, <2>2, <2>3 DEF OfBroker
<1>7. Kept' /\ Tables'
  BY <1>0 DEF AInv, Kept, Tables
<1>8. Answered'
  BY <1>0, AnsweredRests DEF AInv
<1> QED
  BY <1>3, <1>4, <1>5, <1>6, <1>7, <1>8 DEF AInv

(* The receive task keeps the invariant.                                   *)
LEMMA BrokerRecvKeeps == ASSUME Bounds, AInv, BrokerRecv PROVE AInv'
<1> USE DEF client, aggregater
<1>0. UNCHANGED <<entries, packetId, brokerQ, left, saved, topics, table, out>>
  BY DEF BrokerRecv
<1>1. /\ DOMAIN srv = {"answers", "subs"} /\ IsSequence(srv.answers) /\ srv.answers # <<>>
      /\ \A q \in Range(srv.answers) : q.type # "PUBLISH" => Traces(q)
  BY DEF BrokerRecv, AInv, OfBroker
<1>2. \A q : Traces(q)' <=> Traces(q)
  BY <1>0 DEF Traces
<1>3. PICK e : /\ e = ToAggregater(Head(srv.answers)) /\ packetQ' = Append(packetQ, e)
  BY DEF BrokerRecv
<1>4. e.from = "aggregater" /\ e.packet = Head(srv.answers)
  BY <1>3 DEF ToAggregater
<1>5. EventOK(e)
  BY <1>1, <1>4, TailSequence DEF EventOK
<1>6. /\ IsSequence(packetQ) /\ \A d \in Range(packetQ) : EventOK(d)
      /\ IsSequence(packetQ') /\ Range(packetQ') = Range(packetQ) \cup {e}
  BY <1>3, AppendSequence DEF AInv, Queue
<1>7. \A d : EventOK(d)' <=> EventOK(d)
  BY <1>2 DEF EventOK
<1>8. Queue'
  BY <1>5, <1>6, <1>7 DEF Queue
<1>9. Numbered'
  <2>1. Cardinality(FromDevices(packetQ')) = Cardinality(FromDevices(packetQ)) + 0
    BY <1>3, <1>4, <1>6, FromDevicesAppend
  <2>2. Cardinality(FromDevices(packetQ)) \in Nat
    BY <1>6, FromDevicesFinite
  <2>3. FromDevices(packetQ)' = FromDevices(packetQ')
    BY DEF FromDevices
  <2> QED
    BY <1>0, <2>1, <2>2, <2>3 DEF AInv, Numbered
<1>10. IdsGiven' /\ Counted' /\ Kept' /\ Tables'
  BY <1>0 DEF AInv, IdsGiven, IdsDistinct, Counted, Kept, Tables
<1>11. ToBroker'
  BY <1>0, <1>2 DEF AInv, ToBroker
<1>12. OfBroker'
  <2>1. IsSequence(Tail(srv.answers)) /\ Range(Tail(srv.answers)) \subseteq Range(srv.answers)
    BY <1>1, TailSequence
  <2>2. DOMAIN srv' = {"answers", "subs"} /\ srv'.answers = Tail(srv.answers)
    BY <1>1 DEF BrokerRecv
  <2> QED
    BY <1>1, <1>2, <2>1, <2>2 DEF OfBroker
<1>13. Answered'
  BY <1>0, AnsweredRests DEF AInv
<1> QED
  BY <1>8, <1>9, <1>10, <1>11, <1>12, <1>13 DEF AInv

(* A lost connection keeps the invariant.                                  *)
LEMMA ConnectionLostKeeps == ASSUME Bounds, AInv, ConnectionLost PROVE AInv'
<1> USE DEF client, aggregater
<1>0. UNCHANGED <<entries, packetId, packetQ, saved, topics, table, out>>
  BY DEF ConnectionLost
<1>1. \A q : Traces(q)' <=> Traces(q)
  BY <1>0 DEF Traces
<1>2. Queue' /\ IdsGiven' /\ Kept' /\ Tables'
  BY <1>0, <1>1 DEF AInv, Queue, EventOK, IdsGiven, IdsDistinct, Kept, Tables
<1>3. Counted' /\ Numbered'
  <2>1. left' = [left EXCEPT !.losses = @ - 1]
    BY DEF ConnectionLost
  <2>2. DOMAIN left' = {"packets", "news", "losses"} /\ left'.packets = left.packets
    BY <2>1 DEF AInv, Counted
  <2> QED
    BY <1>0, <2>2 DEF AInv, Counted, Numbered, FromDevices
<1>4. ToBroker' /\ OfBroker'
  <2>1. DOMAIN srv' = {"answers", "subs"} /\ srv'.answers = <<>> /\ brokerQ' = <<>>
    BY DEF ConnectionLost, AInv, OfBroker
  <2> QED
    BY <2>1, EmptySequence DEF ToBroker, OfBroker
<1>5. Answered'
  BY <1>0, AnsweredRests DEF AInv
<1> QED
  BY <1>2, <1>3, <1>4, <1>5 DEF AInv

-----------------------------------------------------------------------------
(* The devices                                                             *)

(* A packet of a device is posted.                                         *)
LEMMA ReceiveKeeps ==
    ASSUME Bounds, AInv, NEW c \in Clients, NEW p, Receive(c, p),
           p.type \in Subscriptions \cup {"PUBLISH"} => p.msgId \in ClientMsgIds,
           p.type \in Subscriptions => p.topic \in Topics
    PROVE  AInv'
<1> USE DEF client, aggregater
<1>0. UNCHANGED <<entries, packetId, brokerQ, saved, topics, table, srv>>
  BY DEF Receive
<1>1. \A q : Traces(q)' <=> Traces(q)
  BY <1>0 DEF Traces
<1>2. \A d : EventOK(d)' <=> EventOK(d)
  BY <1>1 DEF EventOK
<1>3. IdsGiven' /\ Kept' /\ Tables' /\ ToBroker' /\ OfBroker'
  BY <1>0, <1>1 DEF AInv, IdsGiven, IdsDistinct, Kept, Tables, ToBroker, OfBroker
<1>4. /\ DOMAIN left' = {"packets", "news", "losses"}
      /\ left'.packets = left.packets - 1 /\ left'.packets \in Nat /\ left.packets \in Nat
  <2>1. left' = [left EXCEPT !.packets = @ - 1] /\ left.packets > 0
    BY DEF Receive
  <2> QED
    BY <2>1 DEF AInv, Counted, Numbered
<1>5. Counted'
  BY <1>4 DEF Counted
<1>6. IsSequence(packetQ) /\ \A d \in Range(packetQ) : EventOK(d)
  BY DEF AInv, Queue
<1>7. /\ packetId \in Nat /\ Cardinality(FromDevices(packetQ)) \in Nat
      /\ packetId + left.packets + Cardinality(FromDevices(packetQ)) <= MaxPackets
      /\ FromDevices(packetQ)' = FromDevices(packetQ')
  BY <1>6, FromDevicesFinite DEF AInv, Numbered, FromDevices
<1>8. CASE status[c] = "disconnected" /\ p.type # "CONNECT"
  <2>1. PICK q : q = [type |-> "DISCONNECT"]
    OBVIOUS
  <2>2. packetQ' = packetQ /\ Told(c, q) /\ out' = [out EXCEPT ![c] = Append(@, q)]
    BY <1>8, <2>1 DEF Receive, Told
  <2>3. Answered'
    BY <2>2, SendClientAnswers DEF AInv
  <2>4. Queue'
    BY <1>2, <1>6, <2>2 DEF Queue
  <2>5. Numbered'
    BY <1>0, <1>4, <1>7, <2>2 DEF Numbered, Bounds
  <2> QED
    BY <1>3, <1>5, <2>3, <2>4, <2>5 DEF AInv
<1>9. CASE ~(status[c] = "disconnected" /\ p.type # "CONNECT")
  <2>1. PICK e : e = FromDevice(c, p)
    OBVIOUS
  <2>2. e.from = "device" /\ e.client = c /\ e.packet = p
    BY <2>1 DEF FromDevice
  <2>3. packetQ' = Append(packetQ, e) /\ out' = out
    BY <1>9, <2>1 DEF Receive
  <2>4. EventOK(e)
    BY <2>2 DEF EventOK
  <2>5. IsSequence(packetQ') /\ Range(packetQ') = Range(packetQ) \cup {e}
    BY <1>6, <2>3, AppendSequence
  <2>6. Queue'
    BY <1>2, <1>6, <2>4, <2>5 DEF Queue
  <2>7. Cardinality(FromDevices(packetQ')) = Cardinality(FromDevices(packetQ)) + 1
    BY <1>6, <2>2, <2>3, FromDevicesAppend
  <2>8. Numbered'
    BY <1>0, <1>4, <1>7, <2>7 DEF Numbered, Bounds
  <2>9. Answered'
    BY <2>3, AnsweredRests DEF AInv
  <2> QED
    BY <1>3, <1>5, <2>6, <2>8, <2>9 DEF AInv
<1> QED
  BY <1>8, <1>9

(* A device keeps the invariant.                                           *)
LEMMA DeviceStepKeeps == ASSUME Bounds, AInv, NEW c \in Clients, DeviceStep(c) PROVE AInv'
<1> USE DEF Subscriptions
<1>1. ASSUME DeviceConnect(c) PROVE AInv'
  <2>1. PICK clean, will : Receive(c, [type |-> "CONNECT", clean |-> clean, will |-> will])
    BY <1>1 DEF DeviceConnect
  <2>2. PICK p : p = [type |-> "CONNECT", clean |-> clean, will |-> will]
    OBVIOUS
  <2> QED
    BY <2>1, <2>2, ReceiveKeeps
<1>2. ASSUME DeviceSleep(c) PROVE AInv'
  <2>1. CASE \E sleep \in BOOLEAN : Receive(c, [type |-> "DISCONNECT", sleep |-> sleep])
    <3>1. PICK sleep \in BOOLEAN : Receive(c, [type |-> "DISCONNECT", sleep |-> sleep])
      BY <2>1
    <3>2. PICK p : p = [type |-> "DISCONNECT", sleep |-> sleep]
      OBVIOUS
    <3> QED
      BY <3>1, <3>2, ReceiveKeeps
  <2>2. CASE Receive(c, [type |-> "PINGREQ"])
    <3>1. PICK p : p = [type |-> "PINGREQ"]
      OBVIOUS
    <3> QED
      BY <2>2, <3>1, ReceiveKeeps
  <2> QED
    BY <1>2, <2>1, <2>2 DEF DeviceSleep
<1>3. ASSUME DeviceWill(c) PROVE AInv'
  <2>1. PICK p : p.type \in {"WILLTOPIC", "WILLMSG"} /\ Receive(c, p)
    BY <1>3 DEF DeviceWill
  <2> QED
    BY <2>1, ReceiveKeeps
<1>4. ASSUME DeviceRequest(c) PROVE AInv'
  <2>1. PICK m \in ClientMsgIds, dup \in {FALSE} \cup {"DUP" \in Kinds} :
          \/ \E type \in {"SUBSCRIBE", "UNSUBSCRIBE"}, t \in Topics :
               Receive(c, [type |-> type, topic |-> t, msgId |-> m, dup |-> dup])
          \/ \E qos \in {1, 2} :
               Receive(c, [type |-> "PUBLISH", qos |-> qos, msgId |-> m, dup |-> dup])
    BY <1>4 DEF DeviceRequest
  <2>2. ASSUME NEW type \in {"SUBSCRIBE", "UNSUBSCRIBE"}, NEW t \in Topics,
               Receive(c, [type |-> type, topic |-> t, msgId |-> m, dup |-> dup])
        PROVE  AInv'
    <3>1. PICK p : p = [type |-> type, topic |-> t, msgId |-> m, dup |-> dup]
      OBVIOUS
    <3> QED
      BY <2>2, <3>1, ReceiveKeeps
  <2>3. ASSUME NEW qos \in {1, 2},
               Receive(c, [type |-> "PUBLISH", qos |-> qos, msgId |-> m, dup |-> dup])
        PROVE  AInv'
    <3>1. PICK p : p = [type |-> "PUBLISH", qos |-> qos, msgId |-> m, dup |-> dup]
      OBVIOUS
    <3> QED
      BY <2>3, <3>1, ReceiveKeeps
  <2> QED
    BY <2>1, <2>2, <2>3
<1>5. ASSUME DeviceAck(c) PROVE AInv'
  <2>1. PICK p : p.type \in {"PUBACK", "PUBREC", "PUBCOMP"} /\ Receive(c, p)
    BY <1>5 DEF DeviceAck
  <2> QED
    BY <2>1, ReceiveKeeps
<1> QED
  BY <1>1, <1>2, <1>3, <1>4, <1>5 DEF DeviceStep

-----------------------------------------------------------------------------
(* A step                                                                  *)

(* The invariant is kept by every step.                                    *)
LEMMA AInvKept == Bounds /\ AInv /\ [Next]_vars => AInv'
<1> SUFFICES ASSUME Bounds, AInv, [Next]_vars PROVE AInv'
  OBVIOUS
<1>1. ASSUME PacketHandle PROVE AInv'
  BY <1>1, ConnectAsleepKeeps, ConnectKeeps, WilltopicKeeps, WillmsgKeeps, DisconnectKeeps,
     PingreqKeeps, PublishKeeps, AckKeeps, SubscribeKeeps, UnsubscribeKeeps, BrokerAnswerKeeps,
     FanOutKeeps, ClientPublishKeeps, PingrespKeeps DEF PacketHandle
<1>2. ASSUME ServerStep PROVE AInv'
  BY <1>2, ServerTakesKeeps, ServerPublishKeeps, BrokerRecvKeeps, ConnectionLostKeeps DEF ServerStep
<1>3. ASSUME NEW c \in Clients, DeviceStep(c) PROVE AInv'
  BY <1>3, DeviceStepKeeps
<1>4. ASSUME UNCHANGED vars PROVE AInv'
  <2> USE <1>4 DEF vars, client, aggregater
  <2>1. IdsMove
    BY DEF IdsMove
  <2>2. Queue' /\ Numbered' /\ IdsGiven' /\ Counted'
    BY RestQueue
  <2>3. ToBroker' /\ OfBroker'
    BY <2>1, ToBrokerStays, OfBrokerStays
  <2>4. Kept' /\ Tables' /\ Answered'
    BY AnsweredRests DEF AInv, Kept, Tables
  <2> QED
    BY <2>2, <2>3, <2>4 DEF AInv
<1> QED
  BY <1>1, <1>2, <1>3, <1>4 DEF Next


-----------------------------------------------------------------------------
(* The requests that are under way                                         *)

(* What an entry with the id m waits for: its request on the way to the    *)
(* broker, the broker's answer, or the event with it.                      *)
IsRequest(p, m) == /\ p.type # "PUBACK" /\ p.msgId = m
                   /\ p.type # "PUBLISH" \/ "asker" \in DOMAIN p
IsAnswer(p, m) == p.type # "PUBLISH" /\ p.msgId = m
IsEvent(e, m) == e.from = "aggregater" /\ IsAnswer(e.packet, m)

UnderWay(m) ==
    \/ \E p \in Range(brokerQ) : IsRequest(p, m)
    \/ \E p \in Range(srv.answers) : IsAnswer(p, m)
    \/ \E e \in Range(packetQ) : IsEvent(e, m)

(* Until a connection is lost, what an entry waits for is under way.       *)
Due ==
    /\ left.losses \in Nat /\ left.losses <= MaxLosses
    /\ left.losses = MaxLosses => \A i \in 1..Len(entries) : UnderWay(entries[i].msgId)

(* It is what EntriesDue says.                                             *)
LEMMA DueImplies == ASSUME AInv, Due PROVE EntriesDue
<1> SUFFICES ASSUME NEW i \in 1..Len(entries), left.losses = MaxLosses
             PROVE  LET due(p) == /\ p.type # "PUBLISH" \/ "asker" \in DOMAIN p
                                  /\ p.msgId = entries[i].msgId
                        queued == {packetQ[k].packet : k \in {j \in 1..Len(packetQ) :
                                                                 packetQ[j].from = "aggregater"}}
                    IN  \E p \in ToSet(brokerQ) \cup ToSet(srv.answers) \cup queued : due(p)
  BY DEF EntriesDue
<1> DEFINE queued == {packetQ[k].packet : k \in {j \in 1..Len(packetQ) :
                                                   packetQ[j].from = "aggregater"}}
<1>1. PICK m : m = entries[i].msgId
  OBVIOUS
<1>2. ToSet(brokerQ) = Range(brokerQ) /\ ToSet(srv.answers) = Range(srv.answers)
  BY DEF ToSet, Range
<1>3. \A e \in Range(packetQ) : e.from = "aggregater" => e.packet \in queued
  BY SequenceParts DEF AInv, Queue
<1> HIDE DEF queued
<1>4. UnderWay(m)
  BY <1>1 DEF Due
<1>5. \E p \in Range(brokerQ) \cup Range(srv.answers) \cup queued :
         (p.type # "PUBLISH" \/ "asker" \in DOMAIN p) /\ p.msgId = m
  BY <1>3, <1>4 DEF UnderWay, IsRequest, IsAnswer, IsEvent
<1> QED
  BY <1>1, <1>2, <1>5 DEF queued

(* There is no entry at first.                                             *)
LEMMA DueInit == ASSUME Bounds, Init PROVE Due
<1>1. Len(entries) = 0 /\ left = [packets |-> MaxPackets, news |-> MaxNews, losses |-> MaxLosses]
  BY DEF Init, NoEntries
<1> QED
  BY <1>1 DEF Bounds, Due

(* Nothing of what is under way is lost.                                   *)
LEMMA UnderWayStays ==
    ASSUME NEW m, UnderWay(m),
           \A p \in Range(brokerQ) : IsRequest(p, m) => p \in Range(brokerQ'),
           \A p \in Range(srv.answers) : IsAnswer(p, m) => p \in Range(srv'.answers),
           \A e \in Range(packetQ) : IsEvent(e, m) => e \in Range(packetQ')
    PROVE  UnderWay(m)'
  BY DEF UnderWay, IsRequest, IsAnswer, IsEvent

(* An element is the head or in the tail.                                  *)
LEMMA HeadOrTail ==
    ASSUME NEW q, IsSequence(q), q # <<>>
    PROVE  \A e \in Range(q) : e = Head(q) \/ e \in Range(Tail(q))
<1>1. IsSequence(Tail(q))
  BY TailSequence
<1>2. /\ Len(q) \in Nat
      /\ \A e : e \in Range(q) <=> \E i \in 1..Len(q) : e = q[i]
  BY SequenceParts
<1>3. PICK t : t = Tail(q)
  OBVIOUS
<1>4. \A e : e \in Range(t) <=> \E i \in 1..Len(t) : e = t[i]
  BY <1>1, <1>3, SequenceParts
<1>5. /\ Len(t) = Len(q) - 1 /\ Head(q) = q[1]
      /\ \A i \in 1..Len(q) - 1 : t[i] = q[i + 1]
  BY <1>3, TailSequence
<1>6. ASSUME NEW i \in 1..Len(q), i # 1 PROVE q[i] \in Range(t)
  <2>1. i - 1 \in 1..Len(q) - 1 /\ (i - 1) + 1 = i
    BY <1>2, <1>6
  <2> QED
    BY <1>4, <1>5, <2>1
<1> QED
  BY <1>2, <1>3, <1>5, <1>6

(* The first event is taken, others are put behind the rest.               *)
LEMMA Taken ==
    ASSUME AInv, packetQ # <<>>,
           \/ packetQ' = Tail(packetQ)
           \/ \E r : IsSequence(r) /\ packetQ' = Tail(packetQ) \o r
    PROVE  \A e \in Range(packetQ) : e = Head(packetQ) \/ e \in Range(packetQ')
<1>1. IsSequence(packetQ)
  BY DEF AInv, Queue
<1>2. IsSequence(Tail(packetQ))
  BY <1>1, TailSequence
<1>3. \A e \in Range(packetQ) : e = Head(packetQ) \/ e \in Range(Tail(packetQ))
  BY <1>1, HeadOrTail
<1>4. ASSUME NEW r, IsSequence(r)
      PROVE  \A e \in Range(Tail(packetQ)) : e \in Range(Tail(packetQ) \o r)
  BY <1>2, <1>4, ConcatSequence
<1> QED
  BY <1>3, <1>4

(* The entry with an id is taken out, no other one has the same.           *)
LEMMA WithoutEntryLeaves ==
    ASSUME IdsGiven, NEW m
    PROVE  \A i \in 1..Len(WithoutEntry(entries, m)) : \E j \in 1..Len(entries) :
              WithoutEntry(entries, m)[i] = entries[j] /\ entries[j].msgId # m
<1>1. PICK k : k = EntryOf(entries, m)
  OBVIOUS
<1>2. \/ k = 0 /\ \A i \in 1..Len(entries) : entries[i].msgId # m
      \/ k \in 1..Len(entries) /\ entries[k].msgId = m
  BY <1>1, EntryOfFinds
<1>3. CASE k = 0
  BY <1>1, <1>2, <1>3 DEF WithoutEntry
<1>4. CASE k # 0
  <2>1. PICK s : s = RemoveAt(entries, k) /\ WithoutEntry(entries, m) = s
    BY <1>1, <1>4 DEF WithoutEntry
  <2>2. /\ Len(s) = Len(entries) - 1 /\ Len(entries) \in Nat
        /\ \A i \in 1..Len(entries) - 1 : s[i] = IF i < k THEN entries[i] ELSE entries[i + 1]
    BY <1>2, <1>4, <2>1, RemoveAtSeq, LenProperties DEF IdsGiven
  <2>3. \A j \in 1..Len(entries) : j # k => entries[j].msgId # m
    BY <1>2, <1>4 DEF IdsGiven, IdsDistinct
  <2>4. ASSUME NEW i \in 1..Len(s)
        PROVE  \E j \in 1..Len(entries) : s[i] = entries[j] /\ entries[j].msgId # m
    <3>1. CASE i < k
      BY <1>2, <1>4, <2>2, <2>3, <3>1
    <3>2. CASE ~(i < k)
      <4>1. i + 1 \in 1..Len(entries) /\ i + 1 # k /\ s[i] = entries[i + 1]
        BY <1>2, <1>4, <2>2, <3>2
      <4> QED
        BY <2>3, <4>1
    <3> QED
      BY <3>1, <3>2
  <2> QED
    BY <2>1, <2>4
<1> QED
  BY <1>3, <1>4

(* What is on the way to the broker stays there.                           *)
LEMMA Appended ==
    ASSUME AInv, \/ brokerQ' = brokerQ
                 \/ \E p : brokerQ' = Append(brokerQ, p)
    PROVE  \A p \in Range(brokerQ) : p \in Range(brokerQ')
<1>1. ASSUME NEW p PROVE \A q \in Range(brokerQ) : q \in Range(Append(brokerQ, p))
  BY AppendSequence DEF AInv, ToBroker
<1> QED
  BY <1>1

(* A handler that gives no id and takes none back.                         *)
LEMMA QuietDue ==
    ASSUME AInv, Due, UNCHANGED <<entries, srv, left>>,
           \/ brokerQ' = brokerQ
           \/ \E p : brokerQ' = Append(brokerQ, p),
           \/ packetQ' = packetQ
           \/ /\ packetQ # <<>> /\ \A m : ~IsEvent(Head(packetQ), m)
              /\ \/ packetQ' = Tail(packetQ)
                 \/ \E r : IsSequence(r) /\ packetQ' = Tail(packetQ) \o r
    PROVE  Due'
<1>1. \A e \in Range(packetQ) : \A m : IsEvent(e, m) => e \in Range(packetQ')
  BY Taken
<1>2. ASSUME NEW m, UnderWay(m) PROVE UnderWay(m)'
  BY <1>1, <1>2, Appended, UnderWayStays
<1> QED
  BY <1>2 DEF Due

(* A request of a device: its new entry comes with it.                     *)
LEMMA RequestDue ==
    ASSUME Bounds, AInv, Due, UNCHANGED <<srv, left>>,
           packetQ # <<>>, Head(packetQ).from = "device", packetQ' = Tail(packetQ),
           Packet.type \in Subscriptions \cup {"PUBLISH"},
           NEW c \in Clients, c = This, TakesId(c),
           NEW p, p.type # "PUBACK", p.type # "PUBLISH" \/ "asker" \in DOMAIN p,
           p.msgId = IdOfRequest(c),
           \/ brokerQ' = Append(brokerQ, p)
           \/ brokerQ' = brokerQ /\ p.msgId = 0
    PROVE  Due'
<1>1. \A e \in Range(packetQ) : \A m : IsEvent(e, m) => e \in Range(packetQ')
  BY Taken DEF IsEvent
<1>2. ASSUME NEW m, UnderWay(m) PROVE UnderWay(m)'
  BY <1>1, <1>2, Appended, UnderWayStays
<1>3. CASE UNCHANGED entries
  BY <1>2, <1>3 DEF Due
<1>4. CASE entries' # entries
  <2>1. PICK id, e : /\ entries' = Append(entries, e) /\ e.msgId = id
                     /\ p.msgId = id /\ id = NextPacketId(packetId)
    BY <1>4 DEF TakesId, WithEntry, IdOfRequest, GivenId
  <2>2. id # 0
    BY <2>1 DEF AInv, IdsGiven, NextPacketId
  <2>3. brokerQ' = Append(brokerQ, p) /\ IsSequence(brokerQ)
    BY <2>1, <2>2 DEF AInv, ToBroker
  <2>4. p \in Range(brokerQ')
    BY <2>3, AppendSequence
  <2>5. UnderWay(id)'
    BY <2>1, <2>4 DEF UnderWay, IsRequest
  <2>6. /\ Len(entries') = Len(entries) + 1 /\ entries'[Len(entries) + 1] = e
        /\ \A i \in 1..Len(entries) : entries'[i] = entries[i]
        /\ Len(entries) \in Nat
    <3>1. IsSequence(entries)
      BY SequenceIn DEF AInv, IdsGiven
    <3> QED
      BY <2>1, <3>1, AppendSequence, SequenceParts
  <2>7. \A i \in 1..Len(entries') : i \in 1..Len(entries) \/ i = Len(entries) + 1
    BY <2>6
  <2> QED
    BY <1>2, <2>1, <2>5, <2>6, <2>7 DEF Due
<1> QED
  BY <1>3, <1>4

(* Every handler keeps what is due.                                        *)
LEMMA PacketHandleDue == ASSUME Bounds, AInv, Due, PacketHandle PROVE Due'
<1> USE DEF Takes
<1>0. \A m : packetQ # <<>> => (Head(packetQ).from # "aggregater" => ~IsEvent(Head(packetQ), m))
  BY DEF IsEvent
<1>1. ASSUME Willtopic \/ Disconnect \/ Ack \/ Pingresp PROVE Due'
  <2>1. UNCHANGED <<entries, srv, left, brokerQ>> /\ packetQ' = Tail(packetQ)
        /\ packetQ # <<>> /\ Head(packetQ).from # "aggregater"
    BY <1>1 DEF Willtopic, Disconnect, Ack, Pingresp, aggregater, client
  <2> QED
    BY <1>0, <2>1, QuietDue
<1>2. ASSUME ConnectAsleep \/ Connect \/ Willmsg PROVE Due'
  <2>1. /\ UNCHANGED <<entries, srv, left, brokerQ>>
        /\ packetQ # <<>> /\ Head(packetQ).from # "aggregater"
        /\ \/ packetQ' = packetQ \/ packetQ' = Tail(packetQ)
           \/ packetQ' = Tail(packetQ) \o Stored(This)
    BY <1>2 DEF ConnectAsleep, Connect, Willmsg, aggregater
  <2>2. PICK c \in Clients : c = This
    BY <2>1, ThisIsClient
  <2>3. PICK r : r = Stored(c) /\ IsSequence(r)
    BY StoredEvents DEF AInv
  <2> QED
    BY <1>0, <2>1, <2>2, <2>3, QuietDue
<1>3. ASSUME Pingreq PROVE Due'
  <2>1. /\ UNCHANGED <<entries, srv, left, brokerQ>>
        /\ packetQ # <<>> /\ Head(packetQ).from # "aggregater"
    BY <1>3 DEF Pingreq, aggregater
  <2>2. PICK r : IsSequence(r) /\ packetQ' = Tail(packetQ) \o r
    BY <1>3, PingreqPosts
  <2> QED
    BY <1>0, <2>1, <2>2, QuietDue
<1>4. ASSUME ClientPublish PROVE Due'
  <2>1. /\ UNCHANGED <<entries, srv, left>> /\ packetQ' = Tail(packetQ)
        /\ packetQ # <<>> /\ Head(packetQ).from # "aggregater"
        /\ \/ brokerQ' = brokerQ
           \/ brokerQ' = Append(brokerQ, [type |-> "PUBACK", msgId |-> Packet.msgId])
    BY <1>4 DEF ClientPublish, aggregater
  <2> QED
    BY <1>0, <2>1, QuietDue
<1>5. ASSUME FanOut PROVE Due'
  <2>1. UNCHANGED <<entries, srv, left, brokerQ>> /\ packetQ # <<>> /\ Packet.type = "PUBLISH"
    BY <1>5 DEF FanOut, aggregater, client, Packet
  <2>2. \A m : ~IsEvent(Head(packetQ), m)
    BY <2>1 DEF IsEvent, IsAnswer, Packet
  <2>3. PICK r : IsSequence(r) /\ packetQ' = Tail(packetQ) \o r
    BY <1>5, FanOutPosts
  <2> QED
    BY <2>1, <2>2, <2>3, QuietDue
<1>6. ASSUME Publish PROVE Due'
  <2>0. /\ packetQ # <<>> /\ Head(packetQ).from = "device" /\ Packet.type = "PUBLISH"
        /\ packetQ' = Tail(packetQ) /\ UNCHANGED <<srv, left>>
    BY <1>6 DEF Publish, Packet
  <2>1. PICK c \in Clients : c = This
    BY <2>0, ThisIsClient
  <2>2. PICK p : p = [type |-> "PUBLISH", qos |-> Packet.qos, msgId |-> IdOfRequest(c),
                      asker |-> <<c, Packet.msgId>>]
    OBVIOUS
  <2>3. TakesId(c) /\ brokerQ' = Append(brokerQ, p)
    BY <1>6, <2>1, <2>2 DEF Publish
  <2>4. p.type # "PUBACK" /\ "asker" \in DOMAIN p /\ p.msgId = IdOfRequest(c)
    BY <2>2
  <2> QED
    BY <2>0, <2>1, <2>3, <2>4, RequestDue
<1>7. ASSUME Subscribe PROVE Due'
  <2>0. /\ packetQ # <<>> /\ Head(packetQ).from = "device" /\ Packet.type = "SUBSCRIBE"
        /\ packetQ' = Tail(packetQ) /\ UNCHANGED <<srv, left>>
    BY <1>7 DEF Subscribe, Packet
  <2>1. PICK c \in Clients : c = This
    BY <2>0, ThisIsClient
  <2>2. PICK p : p = [type |-> "SUBSCRIBE", topic |-> Packet.topic, msgId |-> IdOfRequest(c),
                      asker |-> <<c, Packet.msgId>>]
    OBVIOUS
  <2>3. TakesId(c) /\ (brokerQ' = Append(brokerQ, p) \/ (brokerQ' = brokerQ /\ IdOfRequest(c) = 0))
    BY <1>7, <2>1, <2>2 DEF Subscribe
  <2>4. p.type # "PUBACK" /\ p.type # "PUBLISH" /\ p.msgId = IdOfRequest(c)
    BY <2>2
  <2> QED
    BY <2>0, <2>1, <2>3, <2>4, RequestDue DEF Subscriptions
<1>8. ASSUME Unsubscribe PROVE Due'
  <2>0. /\ packetQ # <<>> /\ Head(packetQ).from = "device" /\ Packet.type = "UNSUBSCRIBE"
        /\ UNCHANGED <<srv, left>>
    BY <1>8 DEF Unsubscribe, Packet
  <2>1. PICK c \in Clients : c = This
    BY <2>0, ThisIsClient
  <2>2. PICK p : p = [type |-> "UNSUBSCRIBE", topic |-> Packet.topic, msgId |-> IdOfRequest(c),
                      asker |-> <<c, Packet.msgId>>]
    OBVIOUS
  <2>3. \/ UNCHANGED <<entries, brokerQ>> /\ (packetQ' = packetQ \/ packetQ' = Tail(packetQ))
        \/ /\ TakesId(c) /\ packetQ' = Tail(packetQ)
           /\ brokerQ' = Append(brokerQ, p) \/ (brokerQ' = brokerQ /\ IdOfRequest(c) = 0)
    BY <1>8, <2>1, <2>2 DEF Unsubscribe, aggregater
  <2>4. p.type # "PUBACK" /\ p.type # "PUBLISH" /\ p.msgId = IdOfRequest(c)
    BY <2>2
  <2>5. CASE UNCHANGED <<entries, brokerQ>> /\ (packetQ' = packetQ \/ packetQ' = Tail(packetQ))
    BY <1>0, <2>0, <2>5, QuietDue
  <2>6. CASE /\ TakesId(c) /\ packetQ' = Tail(packetQ)
             /\ brokerQ' = Append(brokerQ, p) \/ (brokerQ' = brokerQ /\ IdOfRequest(c) = 0)
    BY <2>0, <2>1, <2>4, <2>6, RequestDue DEF Subscriptions
  <2> QED
    BY <2>3, <2>5, <2>6
<1>9. ASSUME BrokerAnswer PROVE Due'
  <2>0. /\ packetQ # <<>> /\ packetQ' = Tail(packetQ)
        /\ entries' = WithoutEntry(entries, Packet.msgId)
        /\ UNCHANGED <<packetId, brokerQ, srv, left>>
    BY <1>9 DEF BrokerAnswer
  <2>1. PICK m : m = Packet.msgId
    OBVIOUS
  <2>2. \A e \in Range(packetQ) : \A n : IsEvent(e, n) /\ n # m => e \in Range(packetQ')
    BY <2>0, <2>1, Taken DEF IsEvent, IsAnswer, Packet
  <2>3. ASSUME NEW n, n # m, UnderWay(n) PROVE UnderWay(n)'
    BY <2>0, <2>2, <2>3, UnderWayStays
  <2>4. \A i \in 1..Len(entries') : \E j \in 1..Len(entries) :
           entries'[i] = entries[j] /\ entries[j].msgId # m
    BY <2>0, <2>1, WithoutEntryLeaves DEF AInv
  <2> QED
    BY <2>0, <2>3, <2>4 DEF Due
<1> QED
  BY <1>1, <1>2, <1>3, <1>4, <1>5, <1>6, <1>7, <1>8, <1>9 DEF PacketHandle

(* The broker keeps what is due.                                           *)
LEMMA ServerTakesDue == ASSUME AInv, Due, ServerTakes PROVE Due'
<1>0. /\ UNCHANGED <<entries, packetQ, left>> /\ brokerQ # <<>> /\ brokerQ' = Tail(brokerQ)
      /\ IsSequence(brokerQ) /\ IsSequence(srv.answers)
  BY DEF ServerTakes, aggregater, AInv, ToBroker, OfBroker
<1>1. PICK p : p = Head(brokerQ)
  OBVIOUS
<1>2. PICK answer : answer = [type |-> Reply(p), msgId |-> p.msgId, asker |-> p.asker]
  OBVIOUS
<1>3. srv'.answers = IF p.type = "PUBACK" \/ p.msgId = 0 THEN srv.answers
                     ELSE Append(srv.answers, answer)
  BY <1>1, <1>2 DEF ServerTakes
<1>4. /\ Range(Append(srv.answers, answer)) = Range(srv.answers) \cup {answer}
      /\ answer.type # "PUBLISH" /\ answer.msgId = p.msgId
  BY <1>0, <1>2, AppendSequence DEF Reply
<1>5. \A q \in Range(brokerQ) : q = p \/ q \in Range(brokerQ')
  BY <1>0, <1>1, HeadOrTail
<1>6. ASSUME NEW m, m # 0, UnderWay(m) PROVE UnderWay(m)'
  <2>1. CASE IsRequest(p, m)
    <3>1. answer \in Range(srv'.answers) /\ IsAnswer(answer, m)
      BY <1>3, <1>4, <1>6, <2>1 DEF IsRequest, IsAnswer
    <3> QED
      BY <3>1 DEF UnderWay, IsAnswer
  <2>2. CASE ~IsRequest(p, m)
    BY <1>0, <1>3, <1>4, <1>5, <1>6, <2>2, UnderWayStays
  <2> QED
    BY <2>1, <2>2
<1>7. \A i \in 1..Len(entries) : entries[i].msgId # 0
  BY DEF AInv, IdsGiven
<1> QED
  BY <1>0, <1>6, <1>7 DEF Due

(* Every step of the broker and the receive task keeps what is due.        *)
LEMMA ServerStepDue == ASSUME Bounds, AInv, Due, ServerStep PROVE Due'
<1>1. ASSUME ServerTakes PROVE Due'
  BY <1>1, ServerTakesDue
<1>2. ASSUME ServerPublish PROVE Due'
  <2>1. /\ UNCHANGED <<entries, packetQ, brokerQ>>
        /\ left' = [left EXCEPT !.news = @ - 1]
        /\ \E p : srv' = [srv EXCEPT !.answers = Append(@, p)]
    BY <1>2 DEF ServerPublish, aggregater
  <2>2. left'.losses = left.losses
    BY <2>1 DEF AInv, Counted
  <2>3. \A p \in Range(srv.answers) : p \in Range(srv'.answers)
    BY <2>1, AppendSequence DEF AInv, OfBroker
  <2>4. ASSUME NEW m, UnderWay(m) PROVE UnderWay(m)'
    BY <2>1, <2>3, <2>4, UnderWayStays
  <2> QED
    BY <2>1, <2>2, <2>4 DEF Due
<1>3. ASSUME BrokerRecv PROVE Due'
  <2>0. /\ UNCHANGED <<entries, brokerQ, left>> /\ IsSequence(srv.answers) /\ srv.answers # <<>>
        /\ IsSequence(packetQ)
    BY <1>3 DEF BrokerRecv, aggregater, AInv, OfBroker, Queue
  <2>1. PICK e : e = ToAggregater(Head(srv.answers)) /\ packetQ' = Append(packetQ, e)
    BY <1>3 DEF BrokerRecv
  <2>2. Range(packetQ') = Range(packetQ) \cup {e} /\ srv'.answers = Tail(srv.answers)
    BY <1>3, <2>0, <2>1, AppendSequence DEF BrokerRecv, AInv, OfBroker
  <2>3. \A p \in Range(srv.answers) : p = Head(srv.answers) \/ p \in Range(srv'.answers)
    BY <2>0, <2>2, HeadOrTail
  <2>4. ASSUME NEW m, UnderWay(m) PROVE UnderWay(m)'
    <3>1. CASE IsAnswer(Head(srv.answers), m)
      <4>1. IsEvent(e, m) /\ e \in Range(packetQ')
        BY <2>1, <2>2, <3>1 DEF IsEvent, ToAggregater
      <4> QED
        BY <4>1 DEF UnderWay, IsEvent, IsAnswer
    <3>2. CASE ~IsAnswer(Head(srv.answers), m)
      BY <2>0, <2>2, <2>3, <2>4, <3>2, UnderWayStays
    <3> QED
      BY <3>1, <3>2
  <2> QED
    BY <2>0, <2>4 DEF Due
<1>4. ASSUME ConnectionLost PROVE Due'
  <2>1. left' = [left EXCEPT !.losses = @ - 1] /\ left.losses > 0
    BY <1>4 DEF ConnectionLost
  <2>2. left'.losses = left.losses - 1
    BY <2>1 DEF AInv, Counted
  <2> QED
    BY <2>1, <2>2 DEF Due, Bounds
<1> QED
  BY <1>1, <1>2, <1>3, <1>4 DEF ServerStep

(* Every device keeps what is due.                                         *)
LEMMA DeviceStepDue == ASSUME AInv, Due, NEW c \in Clients, DeviceStep(c) PROVE Due'
<1>1. PICK p : Receive(c, p)
  BY DEF DeviceStep, DeviceConnect, DeviceSleep, DeviceWill, DeviceRequest, DeviceAck
<1>2. /\ UNCHANGED <<entries, brokerQ, srv>> /\ left' = [left EXCEPT !.packets = @ - 1]
      /\ packetQ' = packetQ \/ packetQ' = Append(packetQ, FromDevice(c, p))
  BY <1>1 DEF Receive, aggregater
<1>3. left'.losses = left.losses
  BY <1>2 DEF AInv, Counted
<1>4. \A e \in Range(packetQ) : e \in Range(packetQ')
  <2>1. ASSUME NEW d PROVE \A e \in Range(packetQ) : e \in Range(Append(packetQ, d))
    BY AppendSequence DEF AInv, Queue
  <2> QED
    BY <1>2, <2>1
<1>5. ASSUME NEW m, UnderWay(m) PROVE UnderWay(m)'
  BY <1>2, <1>4, <1>5, UnderWayStays
<1> QED
  BY <1>2, <1>3, <1>5 DEF Due

(* Every step keeps it.                                                    *)
LEMMA DueKept == Bounds /\ AInv /\ Due /\ [Next]_vars => Due'
<1> SUFFICES ASSUME Bounds, AInv, Due, [Next]_vars PROVE Due'
  OBVIOUS
<1>1. CASE UNCHANGED vars
  <2>1. UNCHANGED <<entries, srv, left, brokerQ, packetQ>>
    BY <1>1 DEF vars, aggregater
  <2> QED
    BY <2>1, QuietDue
<1> QED
  BY <1>1, PacketHandleDue, ServerStepDue, DeviceStepDue DEF Next

-----------------------------------------------------------------------------
(* The theorems                                                            *)

(* All devices share the ids of one connection.  Each answer of the broker *)
(* goes to the device that asked, under the id that the device used, and   *)
(* until a connection is lost an entry of the table is there because its   *)
(* request or the answer is under way: as long as the counter of 16 bits   *)
(* does not come round (addMessageIdTable, getMsgId,                       *)
(* handleAggregatePuback and its likes).                                   *)
THEOREM AnswersOfOneConnection == Bounds => (Spec => []RequestsAnswered)
<1> SUFFICES ASSUME Bounds PROVE Spec => []RequestsAnswered
  OBVIOUS
<1>1. Init => AInv /\ Due
  BY AInvInit, DueInit
<1>2. AInv /\ Due /\ [Next]_vars => AInv' /\ Due'
  BY AInvKept, DueKept
<1>3. AInv /\ Due => RequestsAnswered
  BY AInvImplies, DueImplies DEF RequestsAnswered
<1> QED
  BY <1>1, <1>2, <1>3, PTL DEF Spec

(* Two requests of the devices that wait for their answers have different  *)
(* ids on the connection (Client::getNextPacketId, MessageIdTable::add).   *)
THEOREM RequestsApart == Bounds => (Spec => []IdsDistinct)
<1> SUFFICES ASSUME Bounds PROVE Spec => []IdsDistinct
  OBVIOUS
<1>1. Init => AInv
  BY AInvInit
<1>2. AInv /\ [Next]_vars => AInv'
  BY AInvKept
<1>3. AInv => IdsDistinct
  BY AInvImplies
<1> QED
  BY <1>1, <1>2, <1>3, PTL DEF Spec
=============================================================================
