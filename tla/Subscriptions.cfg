\* One event package and one buddy.  Two requests of the client and two interventions of
\* the network or of a server; two publications at once and one for the recovery.
SPECIFICATION FairSpec
CONSTANTS
    Events = {e}
    Presence = {p}
    MaxAsks = 2
    MaxFaults = 2
    MaxSessions = 3

    
    
    
    
PROPERTY DeferredIsTried
