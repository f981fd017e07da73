SPECIFICATION Spec
CONSTANTS
    Tasks = {k1, k2, b1}
    Proplets = {p1, p2}
    Callers = {c1}
    MQTT = mqtt
    None = None
    Backend = "memory"
    BroadcastTasks = {b1}
    Ops = {"CreateTask", "StartTask", "StopTask", "UpdateTask", "DeleteTask", "DeleteProplet"}
    NewStates = {"Pending", "Running"}
    StartOutcomes = {"ok", "lost", "late", "gone"}
    StopOutcomes = {"ok", "lost", "late", "gone"}
    Reports = {"Failed"}
    Serial = TRUE
    MaxCalls = 5
SYMMETRY Symmetry
INVARIANTS
    TaskCountExact
