SPECIFICATION FairSpec
CONSTANTS
    Backups = 1
    Accounts <- MCAccounts
    RawAttempts = 1
    MaxFlight = 1
    MaxFaults = 2
INVARIANTS
    BackupIsWatched
    
    RegisteredOverActiveRoute
PROPERTY ReturnsToMain
CHECK_DEADLOCK FALSE
