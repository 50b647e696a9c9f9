\* Two calls of which at most one is incoming, without hold.
CONSTANTS
    c1 = c1
    c2 = c2
    c3 = c3
    Calls = {c1, c2, c3}
    Incoming = {c3}
    NoCall = NoCall
    MaxCalls = 2
    MaxQueue = 1
    Requests = {"dial", "answer", "hangup", "refuse"}
    Events = {"confirmed", "closed", "failure"}
SPECIFICATION Spec
SYMMETRY CallSymmetry
INVARIANTS
    
    NoPhantomCall
CHECK_DEADLOCK FALSE
