SPECIFICATION FairSpec
CONSTANTS
    task1 = task1
    task2 = task2
    main = main
    Producers <- MCProducers
    Budget <- MCBudget
    Stopper = main
    Consumer = consumer
    None = None
    Stop = Stop
    Timeout = Timeout
    MaxSize = 2
INVARIANTS
    TypeOK
    Credit
    NoLostWakeup
PROPERTIES
    ImplementsFairFifo
    TaskStops
CHECK_DEADLOCK FALSE
