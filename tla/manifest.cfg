SPECIFICATION Spec
CONSTANTS
    Lower <- MCLower
    Trees <- MCTrees
    PlanMount <- MCPlanMount
    JobMounts <- MCJobMounts
    Sizes = {3, 4}
    Caps = {0, 2}
    MaxAttempts = 3
    MaxReleases = 1
    None = None
CHECK_DEADLOCK FALSE
INVARIANTS ManifestWhole RowsAsPlanned DocumentedRoles
