SPECIFICATION Spec
CONSTANT None = None
INVARIANTS
    
    
    SelectionSound
    
    
CHECK_DEADLOCK FALSE
