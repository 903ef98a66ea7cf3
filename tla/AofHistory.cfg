SPECIFICATION Spec
CONSTANTS
    Policies = {"everysec"}
    Inodes <- Files
    MaxWrites = 2
    MaxRewrites = 1
    MaxToggles = 1
    MaxFaults = 2
    Faults = {"history", "kill"}
INVARIANT HistoryIsHarmless
