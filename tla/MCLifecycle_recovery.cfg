SPECIFICATION LifeSpec
CONSTANTS
    Tasks = {k1, k2}
    Proplets = {p1, p2}
    Callers = {c1}
    MQTT = mqtt
    None = None
    Backend = "sqlite"
    BroadcastTasks = {k2}
    Ops = {"CreateTask", "StartTask", "StopTask", "UpdateTask"}
    NewStates = {"Pending"}
    StartOutcomes = {"ok", "lost"}
    StopOutcomes = {"ok"}
    Reports = {"Completed"}
    Serial = TRUE
    MaxCalls = 5
    MaxHalts = 2
SYMMETRY Symmetry
INVARIANTS
    RecoveryComplete
    StoppedBeforeFailed
