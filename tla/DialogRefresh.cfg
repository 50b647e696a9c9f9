\* Safety: two retries, two changes, another re-INVITE in the way.
SPECIFICATION Spec
CONSTANTS MaxRetries = 2
          MaxChanges = 2
          MaxOthers = 1
INVARIANTS
    
    CutIsDriven
    
CHECK_DEADLOCK FALSE
