SPECIFICATION Spec
CONSTANTS
    Calls = {c1, c2, c3}
    MaxStarts = 4
    MaxCrossed = 3
SYMMETRY CallSymmetry
INVARIANTS
    
    MutedPlaybackIsSilent
    
    EverybodyIsHeard
    CurrentCallTalks
CHECK_DEADLOCK FALSE
