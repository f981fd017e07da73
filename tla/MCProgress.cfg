SPECIFICATION Spec
CONSTANTS
    None = None
    k1 = k1
    p1 = p1
    c1 = c1
    mqtt = mqtt
PROPERTIES
    InterruptedSettles
    DueIsTried
    InvocationsEnd
    RedeployRecovers
    
CHECK_DEADLOCK FALSE
