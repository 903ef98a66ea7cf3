SPECIFICATION FairSpec
CONSTANTS
    Policies = {"always", "everysec"}
    Inodes <- Files
    MaxWrites = 2
    MaxRewrites = 1
    MaxToggles = 1
    MaxFaults = 2
    Faults <- AllFaults
INVARIANT DiskSound
PROPERTIES KeepsPromised LogProgress
