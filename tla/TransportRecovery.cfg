SPECIFICATION Spec
CONSTANTS MaxQueue = 2
          MaxResolves = 2
          MaxEvents = 4
INVARIANTS
    RequestIsServed
    OwedIsArmed
    RegisteredOverCurrent
    
    TryingIsDriven
CHECK_DEADLOCK FALSE
