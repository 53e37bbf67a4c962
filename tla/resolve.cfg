SPECIFICATION Spec
CONSTANTS
    Absent = Absent
    Units <- TwoUnits
    Bins <- OneBin
    Resvs <- TwoResvs
    Skus <- OneSku
    Demands <- OneDemand
    ById <- IdOrder
    Sessions = {1, 2, 3}
    OpsOf <- ResolveMix
    Databases <- HeldStock
    Horizon = 1
    Amounts = {1, 2}
    Timeout = 1
    Portions = {1, 2}
    Capacities = {2}
    Conflicts = {}
    Crashable = {2}
INVARIANTS TypeOK ReservedIsHeld OutboxMatches EventsInv
PROPERTIES ImplementsLedger
CHECK_DEADLOCK FALSE
