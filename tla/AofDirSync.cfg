SPECIFICATION Spec
CONSTANTS
    Policies = {"everysec"}
    Inodes <- Files
    MaxWrites = 2
    MaxRewrites = 1
    MaxToggles = 0
    MaxFaults = 1
    Faults = {"dirfsync"}
INVARIANT RollsBack
