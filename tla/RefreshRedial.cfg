SPECIFICATION Spec
CONSTANTS MaxRetries = 1
          MaxChanges = 1
          MaxOthers = 0
INVARIANT OnlySetupIsRedialled
CHECK_DEADLOCK FALSE
