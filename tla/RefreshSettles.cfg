\* Liveness: one retry, two changes, no INVITE but the first and the refreshes.
SPECIFICATION FairSpec
CONSTANTS MaxRetries = 1
          MaxChanges = 2
          MaxOthers = 0
PROPERTY CutIsSettled
CHECK_DEADLOCK FALSE
