SPECIFICATION Spec
CONSTANTS
    Sources <- MCSources
    Sizes = {2, 3, 5}
    MaxRecuts = 2
INVARIANTS EveryRowOnce TasksFull Coalesced
PROPERTIES WrittenTaskKept
CHECK_DEADLOCK FALSE
