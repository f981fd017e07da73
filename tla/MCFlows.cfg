SPECIFICATION FlowsSpec
CONSTANTS
    c1 = c1
    Tasks = {1, 2, 3, 4}
    DependsOn <- OrderDependsOn
    RunIf <- OrderRunIf
    Callers = {c1, c2}
    MQTT = mqtt
    ClientTasks = {1, 3}
    Vetoes = TRUE
    Losses = TRUE
    MayShutDown = TRUE
    ExclusivePins = TRUE
    MaxCalls = 1
INVARIANTS
    SkippedNotOrdered
    BoundedRecursion

    
    
    
CHECK_DEADLOCK FALSE
