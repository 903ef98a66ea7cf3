SPECIFICATION Spec
CONSTANTS
    Policies = {"everysec"}
    Inodes <- Files
    MaxWrites = 2
    MaxRewrites = 1
    MaxToggles = 1
    MaxFaults = 1
    Faults = {"fork"}
INVARIANT FdIsTheLast
