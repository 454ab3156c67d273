SPECIFICATION Spec
CONSTANTS
    Sources <- MCSources
    Configs <- MCConfigs
    Walls = {1, 2}
    MaxPhases = 3
    MaxSubmits = 2
    MaxFaults = 1
    None = None
CHECK_DEADLOCK FALSE
INVARIANTS OneMeasurement PhasesDisjoint EveryProcessWorks SuggestionAccepted FormatsAgree OutageNeverExcuses
