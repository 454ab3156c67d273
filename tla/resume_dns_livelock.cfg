SPECIFICATION FairSpec
CONSTANTS
    Rows = 3
    Sps = 2
    Caps = {0}
    Tag = {t1}
    Profile <- ResolverProfiles
    FairProfiles <- OnlyFair
    Stored <- MCStored
    Dns <- MCDns
    Unreachable <- MCUnreachable
    MaxKills = 0
PROPERTIES EventuallyComplete
CHECK_DEADLOCK FALSE
