------------------------------ MODULE MCDevice ------------------------------
(***************************************************************************)
(* The client of the gateway's tester: its session (DeviceProxy), what it  *)
(* publishes (DevicePublish) and subscribes (DeviceSubscribe), each with   *)
(* the gateway as the device sees it; and the gateway's own handlers of a  *)
(* device's requests (PubSub).  A behaviour begins with the choice of a    *)
(* setting; the variables of the other modules hold Rest, those of PubSub  *)
(* rest in their initial states.                                           *)
(* SafeSpec has the settings with faults in which nothing has to happen,   *)
(* LiveSpec those in which calls come to their end.                        *)
(***************************************************************************)
EXTENDS PubSub

CONSTANTS Rest, Failed, topic1, topic2, wild, topic5, predefined, c1, c2

VARIABLES setting,
          up, down, faults,                                  \* all three
          device, gw,                                        \* DeviceProxy, DeviceSubscribe
          events,                                            \* DeviceProxy
          pubs, regs, known, lastId, count, ids, held, got,  \* DevicePublish
          wants, ran, calls, connects                        \* DeviceSubscribe
link == <<up, down, faults>>
sessionVars == <<link, device, gw, events>>
publishVars == <<pubs, regs, known, lastId, count, ids, held, got>>
wantVars == <<wants, ran, calls, connects>>
pubVars == <<link, publishVars>>
subVars == <<link, device, gw, wantVars>>
deviceVars == <<sessionVars, publishVars, wantVars>>
suiteVars == <<setting, vars, deviceVars>>

NoPublish == /\ pubs = Rest /\ regs = Rest /\ known = Rest /\ lastId = Rest
             /\ count = Rest /\ ids = Rest /\ held = Rest /\ got = Rest
NoWants == wants = Rest /\ ran = Rest /\ calls = Rest /\ connects = Rest

-----------------------------------------------------------------------------
(* PubSub: topics of each kind, a filter, a full map of unanswered         *)
(* requests.                                                               *)
MCShortIds == [n \in {"ab"} |-> 97]
MCHostIds == [n \in {"ab"} |-> 98]
MCPredefined == [i \in {3} |-> "p"]
ASSUME PubSubAssumption /\ ListAssumption /\ MapAssumption

(* DeviceProxy: a device with a will, one that looks for the gateway and   *)
(* loses packets, one that sleeps.                                         *)
Retries == 2
HasWill == FALSE
Clean == TRUE
Broadcast == TRUE
AutoConnect == TRUE
WillRefused == FALSE
WithWill == INSTANCE DeviceProxy WITH dev <- device,
    HasWill <- TRUE, Broadcast <- FALSE, Periods <- 2, MaxFaults <- 4, MaxEvents <- 1
Lossy == INSTANCE DeviceProxy WITH dev <- device, Periods <- 0, MaxFaults <- 3, MaxEvents <- 2
Sleeping == INSTANCE DeviceProxy WITH dev <- device,
    AutoConnect <- FALSE, Periods <- 2, MaxFaults <- 0, MaxEvents <- 5

(* DevicePublish: two topics, all QoS; with one publication on a topic at  *)
(* a time where it is to end.                                              *)
Publishing == INSTANCE DevicePublish WITH
    Topics <- {"topic1", "topic2"}, QoSes <- {0, 1, 2}, Retries <- 1, InFlight <- 2,
    MaxPublish <- 3, MaxFaults <- 2, SameTopic <- TRUE
Ending == INSTANCE DevicePublish WITH
    Topics <- {"topic1", "topic2"}, QoSes <- {0, 1, 2}, Retries <- 1, InFlight <- 2,
    MaxPublish <- 3, MaxFaults <- 1, SameTopic <- FALSE

(* DeviceSubscribe: two topics of the first list and two connections; a    *)
(* filter and a predefined id of the list and a topic, with QoS 0 and 1 (a *)
(* null pointer may stop the program); a filter that may be refused.       *)
Entry(k, cb, qos) == [key |-> k, cb |-> cb, qos |-> qos]
Two == INSTANCE DeviceSubscribe WITH dev <- device, None <- Rest,
    Names <- {topic1, topic2}, Wildcards <- {}, Covered <- {}, Begins <- {}, Predef <- {},
    Defined <- {}, Callbacks <- {c1, c2}, QoSes <- {0},
    FirstList <- <<Entry(topic1, c1, 0), Entry(topic2, c2, 0)>>,
    Retries <- 1, MaxNodes <- 4, MaxCalls <- 2, MaxConnects <- 2, MaxPublish <- 1, MaxFaults <- 1,
    Refuses <- FALSE
WithPredefined == INSTANCE DeviceSubscribe WITH dev <- device, None <- Rest,
    Names <- {topic1, wild}, Wildcards <- {wild}, Covered <- {topic5}, Begins <- {},
    Predef <- {predefined}, Defined <- {predefined}, Callbacks <- {c1}, QoSes <- {0, 1},
    FirstList <- <<Entry(wild, c1, 1), Entry(predefined, c1, 0)>>,
    Retries <- 1, MaxNodes <- 4, MaxCalls <- 3, MaxConnects <- 1, MaxPublish <- 1, MaxFaults <- 1,
    Refuses <- FALSE
Refusing == INSTANCE DeviceSubscribe WITH dev <- device, None <- Rest,
    Names <- {topic1, wild}, Wildcards <- {wild}, Covered <- {topic5}, Begins <- {}, Predef <- {},
    Defined <- {}, Callbacks <- {c1}, QoSes <- {0}, FirstList <- <<Entry(topic1, c1, 0)>>,
    Retries <- 1, MaxNodes <- 4, MaxCalls <- 1, MaxConnects <- 1, MaxPublish <- 1, MaxFaults <- 2,
    Refuses <- TRUE

ASSUME /\ WithWill!DeviceProxyAssumption /\ Lossy!DeviceProxyAssumption
       /\ Sleeping!DeviceProxyAssumption
       /\ Publishing!DevicePublishAssumption /\ Ending!DevicePublishAssumption
       /\ Two!DeviceSubscribeAssumption /\ WithPredefined!DeviceSubscribeAssumption
       /\ Refusing!DeviceSubscribeAssumption

-----------------------------------------------------------------------------
NoSession == up = Rest /\ down = Rest /\ faults = Rest /\ device = Rest /\ gw = Rest /\ events = Rest
SafeInit ==
    /\ Init
    /\ \/ setting = "answers" /\ NoSession /\ NoPublish /\ NoWants
       \/ setting = "will" /\ WithWill!Init /\ NoPublish /\ NoWants
       \/ setting = "publish" /\ Publishing!Init /\ device = Rest /\ gw = Rest /\ events = Rest /\ NoWants
       \/ /\ \/ setting = "subscribe" /\ Two!Init
             \/ setting = "predefined" /\ WithPredefined!Init
          /\ events = Rest /\ NoPublish
LiveInit ==
    /\ Init
    /\ \/ /\ \/ setting = "lossy" /\ Lossy!Init
             \/ setting = "sleep" /\ Sleeping!Init
          /\ NoPublish /\ NoWants
       \/ setting = "ending" /\ Ending!Init /\ device = Rest /\ gw = Rest /\ events = Rest /\ NoWants
       \/ setting = "refusing" /\ Refusing!Init /\ events = Rest /\ NoPublish

SessionNext ==
    /\ \/ setting = "will" /\ WithWill!Next
       \/ setting = "lossy" /\ Lossy!Next
       \/ setting = "sleep" /\ Sleeping!Next
    /\ UNCHANGED <<setting, publishVars, wantVars>>
PublishNext ==
    /\ \/ setting = "publish" /\ Publishing!Next
       \/ setting = "ending" /\ Ending!Next
    /\ UNCHANGED <<setting, device, gw, events, wantVars>>
SubscribeNext ==
    /\ \/ setting = "subscribe" /\ Two!Next
       \/ setting = "predefined" /\ WithPredefined!Next
       \/ setting = "refusing" /\ Refusing!Next
    /\ UNCHANGED <<setting, events, publishVars>>
TesterNext == (SessionNext \/ PublishNext \/ SubscribeNext) /\ UNCHANGED vars
AnswersNext == setting = "answers" /\ Next /\ UNCHANGED <<setting, deviceVars>>

SafeSpec == SafeInit /\ [][AnswersNext \/ TesterNext]_suiteVars

\* The loops of the device go on and the gateway answers.
LossyOr(A, B) == (setting = "lossy" /\ A) \/ (setting = "sleep" /\ B)
Fairness ==
    /\ WF_sessionVars(setting = "lossy" /\ Lossy!BeginConnect)
    /\ WF_sessionVars(LossyOr(Lossy!ConnectLoop, Sleeping!ConnectLoop))
    /\ WF_sessionVars(LossyOr(Lossy!DisconnectLoop, Sleeping!DisconnectLoop))
    /\ WF_sessionVars(LossyOr(Lossy!Receive \/ Lossy!Ignore, Sleeping!Receive \/ Sleeping!Ignore))
    /\ WF_sessionVars(LossyOr(Lossy!Ping, Sleeping!Ping))
    /\ WF_sessionVars(LossyOr(Lossy!PingTimeout, Sleeping!PingTimeout))
    /\ WF_sessionVars(LossyOr(Lossy!SubscribeTimeout, Sleeping!SubscribeTimeout))
    /\ WF_sessionVars(LossyOr(Lossy!Gateway, Sleeping!Gateway))
    /\ WF_pubVars(setting = "ending" /\ Ending!Receive)
    /\ WF_pubVars(setting = "ending" /\ Ending!Timeouts)
    /\ WF_pubVars(setting = "ending" /\ Ending!Gateway)
    /\ WF_subVars(setting = "refusing" /\ Refusing!Receive)
    /\ WF_subVars(setting = "refusing" /\ Refusing!Timeouts)
    /\ WF_subVars(setting = "refusing" /\ Refusing!Gateway)
LiveSpec == LiveInit /\ [][TesterNext]_suiteVars /\ Fairness

-----------------------------------------------------------------------------
(* Properties of SafeSpec.                                                 *)
(* What is published on a topic reaches the broker under it, with one      *)
(* REGISTER of a topic under way at a time, and is forgotten only when the *)
(* broker has it (DevicePublish).                                          *)
PublishesRight ==
    /\ [](setting = "publish" => /\ Publishing!TypeOK
                                 /\ Publishing!RightTopic /\ Publishing!OneRegister)
    /\ [][setting = "publish" => Publishing!ForgetsDelivered]_suiteVars
(* The gateway and the broker have what the user asked for: the will of a  *)
(* device that is connected (DeviceProxy) and its subscriptions, in the    *)
(* first session with their QoS; what arrives runs the callback that was   *)
(* given for it, and what was unsubscribed stays so within a session       *)
(* (DeviceSubscribe).                                                      *)
SessionAsAsked ==
    /\ [](setting = "will" => WithWill!TypeOK /\ WithWill!WillGiven)
    /\ [](setting = "subscribe" => Two!TypeOK /\ Two!InStep)
    /\ [](setting = "predefined" => /\ WithPredefined!TypeOK /\ WithPredefined!InStep
                                    /\ WithPredefined!Unsubscribed)
    /\ [][setting = "subscribe" => Two!RunsLastGiven]_suiteVars

(* Properties of LiveSpec.                                                 *)
(* connect() and disconnect() come to their end, a device whose session    *)
(* the gateway has ended finds out, a session begins with its              *)
(* subscriptions, and a device that sleeps gets active again               *)
(* (DeviceProxy).                                                          *)
SessionsEnd ==
    /\ [][setting = "lossy" => Lossy!Subscribes]_suiteVars
    /\ (setting = "lossy" /\ device.pc = "connect") ~> (setting = "lossy" /\ device.status = "connected")
    /\ (setting = "lossy" /\ device.pc = "disconnect") ~> (setting = "lossy" /\ device.pc = "main")
    /\ (setting = "lossy" /\ device.status = "connected" /\ gw.st = "none")
          ~> (setting = "lossy" /\ (device.status # "connected" \/ gw.st # "none"))
    /\ (setting = "sleep" /\ device.status = "slept")
          ~> (setting = "sleep" /\ device.status \in {"connected", "lost"})
(* Every publication is done at last; what was asked of a subscription is  *)
(* answered or given up (DevicePublish, DeviceSubscribe).                  *)
RequestsEnd ==
    /\ (setting = "ending" /\ pubs # <<>>) ~> (setting = "ending" /\ pubs = <<>>)
    /\ (setting = "refusing" /\ ~Refusing!AllDone(device)) ~> (setting = "refusing" /\ Refusing!AllDone(device))
=============================================================================
