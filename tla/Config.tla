------------------------------- MODULE Config -------------------------------
(***************************************************************************)
(* How the gateway reads its parameters: initialize asks for one after     *)
(* the other, and getParam searches the file from its first line for each. *)
(***************************************************************************)
EXTENDS Naturals, Sequences, FiniteSets

CONSTANTS Files,    \* the files: sequences of lines
          Number,   \* atoi of the texts
          Shortened \* the texts without their last character
ConfigAssumption == DOMAIN Number = DOMAIN Shortened

\* A line that is no comment; one without '=' has no key.  Only the last line
\* of a file may lack its newline.
Line(key, text) == [key |-> key, text |-> text, newline |-> TRUE]
NoKey == ""

Order == <<"ShearedMemory", "CertKey", "GatewayID", "GatewayName", "MaxInflightMsgs", "KeepAlive",
           "ClientAuthentication", "ClientsList", "PredefinedTopic", "PredefinedTopicList",
           "AggregatingGateway", "Forwarder", "QoS-1", "MaxNumberOfClients">>
Switches == {"ShearedMemory", "ClientAuthentication", "PredefinedTopic", "AggregatingGateway", "Forwarder", "QoS-1"}
Width == [GatewayID |-> 2^8, MaxInflightMsgs |-> 2^16, KeepAlive |-> 2^16, MaxNumberOfClients |-> 2^30] \* the last one an int, never cut here
Unset == "unset"
Defaults == [k \in {Order[i] : i \in DOMAIN Order} |->
                CASE k \in Switches -> FALSE
                  [] k = "GatewayID" -> 0
                  [] k = "MaxInflightMsgs" -> 10
                  [] k = "KeepAlive" -> 900
                  [] k = "MaxNumberOfClients" -> 100
                  [] OTHER -> Unset]

VARIABLES file,    \* the lines of the file
          next,    \* the position in Order of the next parameter
          params,  \* GatewayParams
          queSize, \* _maxSize of the packet queue
          state    \* "reading", "running", "refused", "crashed"
vars == <<file, next, params, queSize, state>>

Init ==
    /\ file \in Files
    /\ next = 1 /\ params = Defaults /\ queSize = 0 /\ state = "reading"

\* Variant: the name on the line only begins with the parameter.
IsParamPrefix(line, key) ==
    \/ line.key = key
    \/ key = "PredefinedTopic" /\ line.key = "PredefinedTopicList"

IsParam(line, key) == line.key = key

Lines(key) == {i \in DOMAIN file : IsParam(file[i], key)}
First(S) == CHOOSE i \in S : \A j \in S : i <= j

Found(key) == file[First(Lines(key))]

\* The character before the end is taken for the newline.
Value(line) == IF line.newline THEN line.text ELSE Shortened[line.text]

Converted(key, text) ==
    IF key \in Switches THEN text \in {"YES", "yes"}
    ELSE IF key \in DOMAIN Width THEN Number[text] % Width[key] ELSE text

\* The search for '=' runs past a line that has none, to whatever follows it
\* in memory: the line matches nothing, or the gateway crashes.
PassesBareLine(key) ==
    \E i \in Lines(NoKey) : \A j \in Lines(key) : i < j
Crashes(key) ==
    /\ PassesBareLine(key)
    /\ state' = "crashed"
    /\ UNCHANGED <<file, next, params, queSize>>

\* The list of topics is read only when predefined topics are switched on.
Asked(key) == key = "PredefinedTopicList" => params["PredefinedTopic"]

Refuses(key, p) ==
    \/ key = "GatewayID" /\ (p[key] = 0 \/ p[key] > 255)
    \/ key = "GatewayName" /\ p[key] = Unset

GetParam(key) ==
    LET p == IF Asked(key) /\ Lines(key) # {}
             THEN [params EXCEPT ![key] = Converted(key, Value(Found(key)))]
             ELSE params
    IN
    /\ params' = p
    /\ state' = IF Refuses(key, p) THEN "refused" ELSE state
    /\ next' = next + 1
    /\ UNCHANGED <<file, queSize>>

SetMaxSize ==
    queSize' = (params["MaxInflightMsgs"] * params["MaxNumberOfClients"]) % 2^16

StartUp ==
    /\ next > Len(Order)
    /\ SetMaxSize
    /\ state' = "running"
    /\ UNCHANGED <<file, next, params>>

Next ==
    /\ state = "reading"
    /\ \/ next <= Len(Order) /\ GetParam(Order[next])
       \/ next <= Len(Order) /\ Crashes(Order[next])
       \/ StartUp
Spec == Init /\ [][Next]_vars /\ WF_vars(Next)

-----------------------------------------------------------------------------
(* Properties                                                              *)

\* FromOwnLine: a parameter that is not its default was written on a line of
\* its own name, and the first such line decides: neither a longer name nor a
\* later line changes it (MQTTSNGWProcess.cpp:197).
FromOwnLine ==
    \A k \in DOMAIN params :
        params[k] # Defaults[k] =>
            \E i \in DOMAIN file :
                /\ file[i].key = k
                /\ \A j \in 1..i - 1 : file[j].key # k
                /\ file[i].newline => params[k] = Converted(k, file[i].text)

\* QueFits: with 30 clients or the defaults the packet queue takes all the
\* messages that its clients may have in flight (MQTTSNGateway.cpp:304).
QueFits ==
    state = "running" /\ params["MaxNumberOfClients"] <= 100 /\ params["MaxInflightMsgs"] <= 100 =>
        queSize = params["MaxInflightMsgs"] * params["MaxNumberOfClients"]

\* ComesUp: a file of key=value lines with a valid id and a name brings the
\* gateway up, whatever else is in it (MQTTSNGateway.cpp:144).
Sufficient == /\ Lines(NoKey) = {}
              /\ Lines("GatewayID") # {} /\ Number[Value(Found("GatewayID"))] \in 1..255
              /\ Lines("GatewayName") # {}
ComesUp == Sufficient ~> state = "running"

\* QueFitsAlways: the size of the packet queue is the product, as the comment
\* on it says (MQTTSNGateway.cpp:303).
QueFitsAlways ==
    state = "running" => queSize = params["MaxInflightMsgs"] * params["MaxNumberOfClients"]

\* IdRefused: an id above 255 is refused, as the check says (MQTTSNGateway.cpp:200).
IdRefused ==
    state = "running" => \A i \in Lines("GatewayID") : Number[file[i].text] \in 0..255

\* LogShared: the line that the README gives switches the shared log on (README.md:192).
LogShared ==
    state = "running" /\ Lines("ShearedMemory") # {} /\ Found("ShearedMemory").text = "YES;" =>
        params["ShearedMemory"]
=============================================================================
