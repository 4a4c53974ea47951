----------------------------- MODULE TopicMatch -----------------------------
(***************************************************************************)
(* Does a topic name match a topic filter?  Topic::isMatch of the gateway  *)
(* (MQTTSNGWTopic.cpp) walks over both strings, a level at a time;         *)
(* LTopic::isMatch of the tester's client compares the texts, character by *)
(* character, with the names that the gateway registers.  A name is a      *)
(* nonempty sequence of levels (the texts between the '/').                *)
(***************************************************************************)
EXTENDS Integers, Sequences, SequencesExt

CONSTANTS Levels,      \* the texts of levels
          MaxLevels    \* bound on the levels of a name or filter

Plus == <<"+">>
Hash == <<"#">>

MatchAssumption ==
    /\ Levels \subseteq Seq(STRING) /\ Plus \notin Levels /\ Hash \notin Levels
    /\ MaxLevels \in Nat \ {0}

Names(levels) == UNION {[1..n -> levels] : n \in 1..MaxLevels}

TopicPaths == Names(Levels)

\* MQTT allows '#' as the last level of a filter only.
TopicFilters ==
    {f \in Names(Levels \cup {Plus, Hash}) :
        \A i \in 1..Len(f) : f[i] = Hash => i = Len(f)}

-----------------------------------------------------------------------------
VARIABLES filter,   \* _topicName
          topic,    \* topicName
          level,    \* the level that tpos and pos of the gateway are at
          result    \* what isMatch returned, or "none"

vars == <<filter, topic, level, result>>

Init == /\ filter \in TopicFilters
        /\ topic \in TopicPaths
        /\ level = 1
        /\ result = "none"

-----------------------------------------------------------------------------
(* The gateway                                                             *)

FilterLast == level = Len(filter)      \* tloc == npos
TopicLast == level = Len(topic)        \* loc == npos

Return(matches) == /\ result' = IF matches THEN "match" ELSE "differ"
                   /\ UNCHANGED <<filter, topic, level>>

\* Both names have more levels.
BothGoOn ==
    /\ ~FilterLast /\ ~TopicLast
    /\ \/ filter[level] = Hash /\ Return(TRUE)
       \/ /\ filter[level] \notin {Hash, Plus, topic[level]}
          /\ Return(FALSE)
       \/ /\ filter[level] \in {Plus, topic[level]}
          /\ level' = level + 1
          /\ UNCHANGED <<filter, topic, result>>

BothEnd ==
    /\ FilterLast /\ TopicLast
    /\ Return(filter[level] \in {Hash, Plus, topic[level]})

\* "a/#" matches "a": the rest of the filter is compared with "#".
TopicEnds ==
    /\ ~FilterLast /\ TopicLast
    /\ Return(/\ filter[level] = topic[level]
              /\ level + 1 = Len(filter) /\ filter[level + 1] = Hash)

\* Variant: '+' for the rest.
FilterEndsPlus ==
    /\ FilterLast /\ ~TopicLast
    /\ Return(filter[level] \in {Hash, Plus})

FilterEnds ==
    /\ FilterLast /\ ~TopicLast
    /\ Return(filter[level] = Hash)

Next == /\ result = "none"
        /\ BothGoOn \/ BothEnd \/ TopicEnds \/ FilterEnds

Spec == Init /\ [][Next]_vars

FairSpec == Spec /\ WF_vars(Next)

-----------------------------------------------------------------------------
(* The device                                                              *)

\* The levels with a '/' between them.
Text(levels) ==
    FlattenSeq([i \in DOMAIN levels |->
                   IF i = 1 THEN levels[i] ELSE <<"/">> \o levels[i]])

\* hasWildCard, and the position it found, counted from 1.
Wildcard(f) ==
    LET plus == SelectInSeq(f, LAMBDA c : c = "+")
    IN  IF f[Len(f)] = "#" THEN [kind |-> "multi", pos |-> Len(f)]
        ELSE IF plus # 0 THEN [kind |-> "single", pos |-> plus]
        ELSE [kind |-> "none", pos |-> Len(f)]

\* strncmp; a negative length is a huge one.
SameText(f, t, n) ==
    IF n < 0 THEN f = t ELSE SubSeq(f, 1, n) = SubSeq(t, 1, n)

\* '+': the '/' before it is not compared.  If more follows in the filter, the
\* loop looks for it and the answer is true whether it finds it or not.
SingleMatch(f, t, pos) ==
    /\ SameText(f, t, pos - 2)
    /\ \/ pos < Len(f) /\ f[pos + 1] = "/"
       \/ \A p \in pos + 1..Len(t) : t[p] # "/"

\* '#': the text before it.
MultiMatch(f, t, pos) == SameText(f, t, pos - 1)

WholeMatch(f, t) == f = t

IsMatch(f, t) ==
    LET w == Wildcard(f)
    IN  /\ Len(t) >= Len(f)
        /\ \/ w.kind = "single" /\ SingleMatch(f, t, w.pos)
           \/ w.kind = "multi" /\ MultiMatch(f, t, w.pos)
           \/ w.kind = "none" /\ WholeMatch(f, t)

DeviceNext == /\ result = "none"
              /\ Return(IsMatch(Text(filter), Text(topic)))

-----------------------------------------------------------------------------
\* The meaning of a filter in MQTT: level by level, '+' for any level and a
\* final '#' for any number of levels, none included.
LevelsMatch(f, t, n) == \A i \in 1..n : f[i] \in {Plus, t[i]}

Matches(f, t) ==
    \/ Len(f) = Len(t) /\ LevelsMatch(f, t, Len(f))
    \/ /\ f[Len(f)] = Hash
       /\ Len(t) >= Len(f) - 1
       /\ LevelsMatch(f, t, Len(f) - 1)

\* What the code refuses although MQTT does not: a topic that ends at a '+'
\* which only a '#' follows, such as "a" for "+/#".
EndsAtPlus(f, t) ==
    /\ Len(f) = Len(t) + 1
    /\ f[Len(f)] = Hash
    /\ f[Len(t)] = Plus

TypeOK == /\ filter \in TopicFilters
          /\ topic \in TopicPaths
          /\ level \in 1..MaxLevels
          /\ result \in {"none", "match", "differ"}

(* isMatch is the matching of MQTT for every filter and every name, except *)
(* that it refuses a topic that ends at a '+' before the final '#'.        *)
MatchCorrect ==
    result # "none" =>
        (result = "match" <=> /\ Matches(filter, topic)
                              /\ ~EndsAtPlus(filter, topic))

(* The loop "while (true)" of isMatch ends.                                *)
MatchReturns == <>(result # "none")

Has(f, text) == \E i \in DOMAIN f : f[i] = text

(* A name that a filter covers is found, so that its REGISTER is accepted, *)
(* but for filters that begin with '+' or have both wildcards, and names   *)
(* with a shorter text than the filter (the parent of '#').                *)
CoveredFound ==
    result = "differ" /\ Matches(filter, topic)
    => \/ filter[1] = Plus
       \/ Has(filter, Plus) /\ Has(filter, Hash)
       \/ Len(Text(topic)) < Len(Text(filter))

(* A filter without '+' is found for the names that it covers only.        *)
FoundCovered ==
    result = "match" /\ ~Has(filter, Plus) => Matches(filter, topic)
=============================================================================
