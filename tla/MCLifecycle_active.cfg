SPECIFICATION LifeSpec
CONSTANTS
    Tasks = {k1}
    Proplets = {p1}
    Callers = {c1}
    MQTT = mqtt
    None = None
    Backend = "sqlite"
    BroadcastTasks = {}
    Ops = {"CreateTask", "StartTask"}
    NewStates = {"Pending"}
    StartOutcomes = {"ok"}
    StopOutcomes = {"ok"}
    Reports = {}
    Serial = TRUE
    MaxCalls = 2
    MaxHalts = 1
INVARIANTS
    ActiveInterrupted
