SPECIFICATION Spec
CONSTANT None = None
INVARIANTS
    RoundsSound
PROPERTIES
    RoundsSettle
    BeatingIsListed
    PullSucceeds
CHECK_DEADLOCK FALSE
