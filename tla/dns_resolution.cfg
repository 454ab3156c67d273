SPECIFICATION NodeSpec
CONSTANTS
    p1 = p1
    p2 = p2
    t1 = t1
    t2 = t2
    t3 = t3
    None = None
    Process = {p1, p2}
    Thread = {t1, t2, t3}
    Of <- MCOf
    Limit = 2
    Wait = 1
    Qps = {50, 80}
    Interval <- MCInterval
    Horizon = 1
    MaxAttempts = 3
CHECK_DEADLOCK FALSE
SYMMETRY Twins
INVARIANTS OneSender CountCoversSends ConflictNeverUp GateQueueBounded
PROPERTIES SendsSpaced PacketsAdmitted
