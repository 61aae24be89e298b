SPECIFICATION Spec
CHECK_DEADLOCK FALSE

    
PROPERTIES
    
    KeptUntilClaimed
    TabMovesOn
    
