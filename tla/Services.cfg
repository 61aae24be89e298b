SPECIFICATION Spec
CONSTANTS
    NoKey = NoKey
    e1 = e1
    t1 = t1
    a1 = a1
    m1 = m1
    r1 = r1
    k1 = k1
CHECK_DEADLOCK FALSE

    
    
    
PROPERTIES
    ServicesEnd
