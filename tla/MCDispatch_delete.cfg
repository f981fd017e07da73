SPECIFICATION Spec
CONSTANTS
    Tasks = {k1}
    Proplets = {p1, p2}
    Callers = {c1, c2}
    MQTT = mqtt
    None = None
    Backend = "memory"
    BroadcastTasks = {}
    Ops = {"CreateTask", "StartTask", "StopTask", "DeleteTask", "DeleteProplet"}
    NewStates = {"Pending"}
    StartOutcomes = {"ok", "lost", "gone"}
    StopOutcomes = {"ok", "late"}
    Reports = {}
    Serial = FALSE
    MaxCalls = 4
SYMMETRY Symmetry
INVARIANTS
    TypeOK
    OneOrder
