-------------------------- MODULE DeviceSubscribe --------------------------
(***************************************************************************)
(* LSubscribeManager of the tester's client, the part of LRegisterManager  *)
(* and LPublishManager that serves what the gateway sends, and the table   *)
(* LTopicTable they share.  A subscription is an element of a list of      *)
(* pointers; it stays there when it is done, for onConnect() asks for all  *)
(* of them again.  A connection (DeviceProxy) is one step here, always     *)
(* with a clean session; topic names of two characters are left out.       *)
(***************************************************************************)
EXTENDS Integers, SequencesExt

CONSTANTS Names,      \* topic names and filters that may be subscribed
          Wildcards,  \* those of Names that are filters
          Covered,    \* topics outside Names that every filter covers
          Begins,     \* <<a, b>>: the text of a begins the text of b
          Predef,     \* predefined topic ids
          Defined,    \* those the gateway knows
          Callbacks, QoSes,
          FirstList,  \* theOnPublishList: [key, cb, qos]
          Retries,    \* MQTTSN_RETRY_COUNT
          MaxNodes,   \* bound on list elements at a time
          MaxCalls,   \* bound on calls of the user
          MaxConnects, MaxPublish,
          MaxFaults,  \* bound on losses and late answers
          Refuses,    \* the broker may refuse a subscription
          None, Failed

DeviceSubscribeAssumption ==
    /\ Wildcards \subseteq Names /\ Defined \subseteq Predef
    /\ Begins \subseteq Names \X Names /\ QoSes \subseteq 0..2
    /\ {Retries, MaxNodes} \subseteq Nat \ {0} /\ Refuses \in BOOLEAN
    /\ {MaxCalls, MaxConnects, MaxPublish, MaxFaults} \subseteq Nat

VARIABLES dev,       \* the list, its elements, the topic table
          wants,     \* what the user has been told of each subscription
          ran,       \* topics that were received, with the callback that ran
          gw,        \* the subscriptions and the topic ids of the gateway
          up, down,
          calls, connects, faults

env == <<calls, connects, faults>>
vars == <<dev, wants, ran, gw, up, down, env>>

Keys == Names \cup Predef
Nodes == 1..MaxNodes
Covers(k, t) == (k = t) \/ (k \in Wildcards /\ t \in Covered)
Asked(k) == wants[k] \notin {None, Failed}

Init == /\ dev = [first |-> 0, last |-> 0, live |-> {},
                  prev |-> [n \in Nodes |-> 0], next |-> [n \in Nodes |-> 0],
                  elm |-> [n \in Nodes |-> None], table |-> <<>>,
                  lastId |-> 0, out |-> <<>>, crashed |-> FALSE]
        /\ wants = [k \in Keys |-> None] /\ ran = <<>>
        /\ gw = [subs |-> [k \in Keys |-> None], ids |-> <<>>, pending |-> <<>>]
        /\ up = <<>> /\ down = <<>>
        /\ calls = MaxCalls /\ connects = 0 /\ faults = MaxFaults

-----------------------------------------------------------------------------
(* The list: 0 is the null pointer.  Freed elements keep their links.      *)

Walk(d) ==
    LET After(n) == IF n = 0 THEN 0 ELSE d.next[n]
        at[k \in 1..MaxNodes] == IF k = 1 THEN d.first ELSE After(at[k - 1])
    IN  SelectSeq(at, LAMBDA n : n # 0)

Elements(d) == LET w == Walk(d) IN [i \in DOMAIN w |-> d.elm[w[i]]]

\* isDone
AllDone(d) == \A e \in ToSet(Elements(d)) : e.done

\* The first element with the property, 0 if there is none.
Found(d, Is(_)) ==
    LET i == SelectInSeq(Elements(d), Is) IN IF i = 0 THEN 0 ELSE Walk(d)[i]

ByMsgId(d, id) == Found(d, LAMBDA e : e.msgId = id)

\* getElement: a name is found in a longer one; a predefined id in an element
\* of either kind.  The name of a predefined element is a null pointer.
ByKey(d, k, type) ==
    Found(d, LAMBDA e : IF k \in Predef THEN e.key = k
                        ELSE e.type = type /\ (\/ e.key \in Predef \cup {k}
                                               \/ <<k, e.key>> \in Begins))

\* The second half of add: at the end of the list.
Appended(d, n) ==
    LET e == [d EXCEPT !.live = @ \cup {n}, !.prev[n] = d.last, !.next[n] = 0,
                       !.last = n]
    IN  IF d.last = 0 THEN [e EXCEPT !.first = n]
        ELSE [e EXCEPT !.next[d.last] = n]

\* remove: the last pointer survives the only element, and follows the head.
Removed(d, n) ==
    LET p == d.prev[n]
        s == d.next[n]
        e == [d EXCEPT !.live = @ \ {n}]
    IN  IF p = 0
        THEN IF s = 0 THEN [e EXCEPT !.first = 0]
             ELSE [e EXCEPT !.first = s, !.prev[s] = 0, !.last = s]
        ELSE [e EXCEPT !.next[p] = s, !.last = IF s = 0 THEN p ELSE @]

\* add; calloc takes what is free.
Added(d, type, k, cb, qos) ==
    LET at == ByKey(d, k, type)
        n == IF at # 0 THEN at
             ELSE CHOOSE f \in Nodes \ d.live :
                      \A g \in Nodes \ d.live : f <= g
    IN  [list |-> [IF at = 0 THEN Appended(d, n) ELSE d
                     EXCEPT !.elm[n] = [type |-> type, key |-> k, cb |-> cb,
                        qos |-> qos, msgId |-> 0, retry |-> Retries,
                        done |-> FALSE]],
         at |-> n]

\* send: a retry keeps the message id.
Sent(d, n) ==
    LET first == d.elm[n].retry = Retries
        e == [d.elm[n] EXCEPT !.msgId = IF first THEN d.lastId + 1 ELSE @,
                              !.retry = @ - 1]
    IN  [d EXCEPT !.elm[n] = e, !.lastId = IF first THEN e.msgId ELSE @,
           !.out = Append(@, [type |-> e.type, key |-> e.key, qos |-> e.qos,
                              msgId |-> e.msgId])]

\* subscribe, unsubscribe: the search stops the program at a null pointer.
Requested(d, type, k, cb, qos) ==
    LET at == ByKey(d, k, type)
        added == Added(d, type, k, cb, qos)
    IN  IF d.crashed \/ (k \in Names /\ at # 0 /\ d.elm[at].key \in Predef)
        THEN [d EXCEPT !.crashed = TRUE]
        ELSE Sent(added.list, added.at)

\* onConnect: what is in the list is asked for by its name, and the QoS is
\* taken from the flags of the packet, which subscribe() does not know.
Again(d, n) ==
    LET e == d.elm[n]
    IN  IF e.type # "SUBSCRIBE" THEN d
        ELSE IF e.key \in Predef THEN [d EXCEPT !.crashed = TRUE]
        ELSE Requested([d EXCEPT !.elm[n].done = FALSE,
                                 !.elm[n].retry = Retries],
                       "SUBSCRIBE", e.key, e.cb, 0)

OnConnect(d) ==
    IF Walk(d) = <<>>
    THEN FoldLeft(LAMBDA c, e : Requested(c, "SUBSCRIBE", e.key, e.cb, e.qos),
                  d, FirstList)
    ELSE FoldLeft(Again, d, Walk(d))

-----------------------------------------------------------------------------

\* LTopicTable::add: of a topic that is known only the callback changes.
TableAdd(table, k, id, cb) ==
    LET i == SelectInSeq(table, LAMBDA e : e.key = k)
    IN  IF i # 0 THEN [table EXCEPT ![i].cb = cb]
        ELSE Append(table, [key |-> k, id |-> id, cb |-> cb])

Does(d) == dev' = [d EXCEPT !.out = <<>>] /\ up' = up \o d.out

\* Variant: the topics of the last session are kept.
ConnectKeepsTable ==
    /\ connects < MaxConnects /\ connects' = connects + 1 /\ ~dev.crashed
    /\ LET d == OnConnect(dev)
       IN  dev' = [d EXCEPT !.out = <<>>] /\ up' = d.out
    /\ down' = <<>>
    /\ gw' = [subs |-> [k \in Keys |-> None], ids |-> <<>>, pending |-> <<>>]
    /\ wants' = IF connects > 0 THEN wants
                ELSE [k \in Keys |-> LET i == SelectLastInSeq(FirstList,
                                                  LAMBDA e : e.key = k)
                                     IN  IF i = 0 THEN None ELSE FirstList[i]]
    /\ UNCHANGED <<ran, calls, faults>>

\* A connection with a clean session, and the CONNACK.
Connect ==
    /\ connects < MaxConnects /\ connects' = connects + 1 /\ ~dev.crashed
    /\ LET d == OnConnect([dev EXCEPT !.table = <<>>])
       IN  dev' = [d EXCEPT !.out = <<>>] /\ up' = d.out
    /\ down' = <<>>
    /\ gw' = [subs |-> [k \in Keys |-> None], ids |-> <<>>, pending |-> <<>>]
    /\ wants' = IF connects > 0 THEN wants
                ELSE [k \in Keys |-> LET i == SelectLastInSeq(FirstList,
                                                  LAMBDA e : e.key = k)
                                     IN  IF i = 0 THEN None ELSE FirstList[i]]
    /\ UNCHANGED <<ran, calls, faults>>

\* The user's tasks run when nothing is asked.
Calls == /\ connects > 0 /\ ~dev.crashed /\ AllDone(dev)
         /\ calls > 0 /\ calls' = calls - 1
         /\ UNCHANGED <<ran, gw, down, connects, faults>>

Subscribe(k, cb, qos) ==
    /\ Calls /\ Does(Requested(dev, "SUBSCRIBE", k, cb, qos))
    /\ wants' = [wants EXCEPT ![k] = [key |-> k, cb |-> cb, qos |-> qos]]

Unsubscribe(k) ==
    /\ Calls /\ wants[k] # None
    /\ Does(Requested(dev, "UNSUBSCRIBE", k, None, 0))
    /\ wants' = [wants EXCEPT ![k] = None]

\* Time runs out: nothing is on its way, or something is late.
TimeRunsOut ==
    /\ ~dev.crashed
    /\ \/ up = <<>> /\ down = <<>> /\ UNCHANGED faults
       \/ /\ up # <<>> \/ down # <<>>
          /\ faults > 0 /\ faults' = faults - 1
    /\ UNCHANGED <<ran, gw, down, calls, connects>>

\* checkTimeout: a subscription that is given up is done and stays listed.
Timeout(n) ==
    /\ TimeRunsOut /\ ~dev.elm[n].done
    /\ IF dev.elm[n].retry >= 0
       THEN Does(Sent(dev, n)) /\ UNCHANGED wants
       ELSE /\ Does([dev EXCEPT !.elm[n].done = TRUE])
            /\ wants' = [wants EXCEPT ![dev.elm[n].key] = Failed]

Hears(type) == /\ down # <<>> /\ Head(down).type = type /\ ~dev.crashed
               /\ down' = Tail(down)
               /\ UNCHANGED <<gw, env>>

\* responce: a SUBACK that belongs to no element is ignored.
ReceiveSuback ==
    /\ Hears("SUBACK") /\ UNCHANGED ran
    /\ LET m == Head(down)
           n == ByMsgId(dev, m.msgId)
       IN  /\ Does(IF n = 0 THEN dev
                   ELSE IF m.ok
                   THEN [dev EXCEPT !.elm[n].done = TRUE,
                          !.table = TableAdd(@, dev.elm[n].key, m.id,
                                             dev.elm[n].cb)]
                   ELSE Removed(dev, n))
           /\ wants' = IF n # 0 /\ ~m.ok
                       THEN [wants EXCEPT ![dev.elm[n].key] = Failed]
                       ELSE wants

ReceiveUnsuback ==
    /\ Hears("UNSUBACK") /\ UNCHANGED <<ran, wants>>
    /\ LET n == ByMsgId(dev, Head(down).msgId)
       IN  Does(IF n = 0 THEN dev ELSE Removed(dev, n))

\* published, execCallback
ReceivePublish ==
    /\ Hears("PUBLISH") /\ UNCHANGED <<dev, up, wants>>
    /\ LET m == Head(down)
           i == SelectInSeq(dev.table, LAMBDA e : e.id = m.id)
       IN  ran' = Append(ran, [topic |-> m.topic,
                               cb |-> IF i = 0 THEN None ELSE dev.table[i].cb])

\* match: the first entry whose text covers the topic; a predefined topic has
\* no text, and the search that comes to it stops the program.  A REGISTER of
\* a covered topic makes an entry with an empty text, which covers nothing.
Match(table, t) == SelectInSeq(table, LAMBDA e : e.key \in Predef \/ Covers(e.key, t))

\* responceRegister: the new topic enters the table without name and id.
ReceiveRegister ==
    /\ Hears("REGISTER") /\ UNCHANGED <<ran, wants>>
    /\ LET m == Head(down)
           i == Match(dev.table, m.topic)
           ack == [type |-> "REGACK", id |-> m.id, ok |-> i # 0]
       IN  Does(IF i = 0 THEN [dev EXCEPT !.out = <<ack>>]
                ELSE IF dev.table[i].key \in Predef
                THEN [dev EXCEPT !.crashed = TRUE]
                ELSE [dev EXCEPT !.out = <<ack>>,
                        !.table = TableAdd(@, None, 0, @[i].cb)])

-----------------------------------------------------------------------------
Takes(type) == /\ up # <<>> /\ Head(up).type = type /\ up' = Tail(up)
               /\ UNCHANGED <<dev, wants, ran, env>>

Answer(m) == down' = Append(down, m)

IdOf(ids, t) == SelectInSeq(ids, LAMBDA e : e = t)

\* handleSubscribe and the broker's SUBACK.
GwSubscribe ==
    /\ Takes("SUBSCRIBE")
    /\ LET m == Head(up)
           ids == IF m.key \in Predef \/ IdOf(gw.ids, m.key) # 0 THEN gw.ids
                  ELSE Append(gw.ids, m.key)
           id == IF m.key \in Predef THEN m.key ELSE IdOf(ids, m.key)
           reply == [type |-> "SUBACK", msgId |-> m.msgId, id |-> id]
       IN  \/ /\ m.key \notin Predef \ Defined
              /\ gw' = [gw EXCEPT !.ids = ids, !.subs[m.key] = m.qos]
              /\ Answer([ok |-> TRUE] @@ reply)
           \/ /\ Refuses \/ m.key \in Predef \ Defined
              /\ gw' = [gw EXCEPT !.ids = ids]
              /\ Answer([ok |-> FALSE] @@ reply)

GwUnsubscribe ==
    /\ Takes("UNSUBSCRIBE")
    /\ gw' = [gw EXCEPT !.subs[Head(up).key] = None]
    /\ Answer([type |-> "UNSUBACK", msgId |-> Head(up).msgId])

\* A message of the broker; the topic is registered first.
GwPublish(t) ==
    /\ Len(ran) + Len(gw.pending) + Len(SelectSeq(down, LAMBDA m :
            m.type = "PUBLISH")) < MaxPublish
    /\ \E k \in Keys : Covers(k, t) /\ gw.subs[k] # None
    /\ IF t \in Predef \/ IdOf(gw.ids, t) # 0
       THEN /\ Answer([type |-> "PUBLISH", topic |-> t,
                       id |-> IF t \in Predef THEN t ELSE IdOf(gw.ids, t)])
            /\ UNCHANGED gw
       ELSE /\ gw' = [gw EXCEPT !.ids = Append(@, t),
                                !.pending = Append(@, t)]
            /\ Answer([type |-> "REGISTER", topic |-> t,
                       id |-> Len(gw.ids) + 1])
    /\ UNCHANGED <<dev, wants, ran, up, env>>

GwRegack ==
    /\ Takes("REGACK")
    /\ LET m == Head(up)
           t == gw.ids[m.id]
       IN  /\ gw' = [gw EXCEPT !.pending = SelectSeq(@, LAMBDA p : p # t)]
           /\ IF m.ok THEN Answer([type |-> "PUBLISH", topic |-> t,
                                   id |-> m.id])
              ELSE UNCHANGED down

Lose == /\ faults > 0 /\ faults' = faults - 1
        /\ \/ up # <<>> /\ up' = Tail(up) /\ UNCHANGED down
           \/ down # <<>> /\ down' = Tail(down) /\ UNCHANGED up
        /\ UNCHANGED <<dev, wants, ran, gw, calls, connects>>

-----------------------------------------------------------------------------
Receive == ReceiveSuback \/ ReceiveUnsuback \/ ReceivePublish \/ ReceiveRegister

Timeouts == \E i \in DOMAIN Walk(dev) : Timeout(Walk(dev)[i])

Gateway == GwSubscribe \/ GwUnsubscribe \/ GwRegack

Next == \/ Connect
        \/ \E k \in Keys, cb \in Callbacks, qos \in QoSes : Subscribe(k, cb, qos)
        \/ \E k \in Keys : Unsubscribe(k)
        \/ Receive \/ Timeouts \/ Gateway \/ Lose
        \/ \E t \in Keys \cup Covered : GwPublish(t)

Spec == Init /\ [][Next]_vars

\* The main loop goes on and the gateway answers.
Fairness == WF_vars(Receive) /\ WF_vars(Timeouts) /\ WF_vars(Gateway)

FairSpec == Spec /\ Fairness

-----------------------------------------------------------------------------
TypeOK ==
    /\ {dev.first, dev.last} \subseteq Nodes \cup {0} /\ dev.live \subseteq Nodes
    /\ \A n \in dev.live : /\ dev.elm[n].key \in Keys
                           /\ dev.elm[n].retry \in -1..Retries
                           /\ dev.elm[n].msgId \in 0..dev.lastId
    /\ gw.subs \in [Keys -> QoSes \cup {0, None}]
    /\ \A i \in DOMAIN dev.table : dev.table[i].key \in Keys \cup {None}

Quiet == /\ connects > 0 /\ ~dev.crashed /\ AllDone(dev)
         /\ up = <<>> /\ down = <<>>

(* When nothing is under way, the broker has every subscription that the   *)
(* user made and was not told of as failed, with the QoS the user gave,    *)
(* and the table leads from the gateway's topic id to the user's callback. *)
InStep ==
    Quiet => \A k \in Keys : Asked(k) =>
        /\ gw.subs[k] = wants[k].qos
        /\ \E i \in DOMAIN dev.table :
              /\ dev.table[i].key = k /\ dev.table[i].cb = wants[k].cb
              /\ dev.table[i].id = IF k \in Predef THEN k ELSE IdOf(gw.ids, k)

(* A topic that the user unsubscribed stays so.                            *)
Unsubscribed == Quiet => \A k \in Keys : wants[k] = None => gw.subs[k] = None

(* What arrives while nothing is asked runs a callback that the user gave  *)
(* for the topic, the one that was given last.                             *)
RunsLastGiven ==
    (ran' # ran /\ AllDone(dev)) =>
        LET r == ran'[Len(ran')]
            asked == {k \in Keys : Covers(k, r.topic) /\ Asked(k)}
        IN  asked # {} => \E k \in asked : wants[k].cb = r.cb
RightCallback == [][RunsLastGiven]_vars

(* No legal sequence of calls leads to a null pointer.                     *)
NoCrash == ~dev.crashed

(* The tasks of the user go on: what is asked is answered or given up.     *)
SubscribeEnds == ~AllDone(dev) ~> AllDone(dev)
=============================================================================
