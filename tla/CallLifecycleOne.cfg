\* One call, outgoing or incoming, and everything that can happen to it.
CONSTANTS
    c1 = c1
    c2 = c2
    c3 = c3
    Calls = {c1, c3}
    Incoming = {c3}
    NoCall = NoCall
    MaxCalls = 1
    MaxQueue = 1
    Requests = {"dial", "answer", "hangup", "refuse", "hold"}
    Events = {"ringing", "early", "confirmed", "media", "mediaFail", "closed", "busy", "failure", "transport"}
SPECIFICATION FairSpec
INVARIANTS
    
    AnsweredIsSilent
PROPERTIES
    NeverRingsAgain
    EndedIsRemoved
CHECK_DEADLOCK FALSE
