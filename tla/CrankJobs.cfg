SPECIFICATION Spec
CHECK_DEADLOCK FALSE
INVARIANTS
    EventsAreTrue
    HistoryHasNoGap
    

    
