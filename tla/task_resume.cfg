SPECIFICATION FairSpec
CONSTANTS
    Rows = 3
    Sps = 2
    Caps = {0, 1, 4}
    Tag = {t1}
    Profile <- AllProfiles
    FairProfiles <- OnlyFair
    Stored <- MCStored
    Dns <- MCDns
    Unreachable <- MCUnreachable
    MaxKills = 2
INVARIANTS SkipCoversPlan SkipIsHealthy JudgedImagesPresent
PROPERTIES KeptShardUntouched CompleteUnlessInherited
CHECK_DEADLOCK FALSE
