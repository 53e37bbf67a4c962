SPECIFICATION Spec
CONSTANTS
    Absent = Absent
    Units <- TwoUnits
    Bins <- OneBin
    Resvs <- ThreeResvs
    Skus <- OneSku
    Demands <- TwoDemands
    ById <- IdOrder
    Sessions = {1, 2}
    OpsOf <- ReserveTwice
    Databases <- FreeStock
    Horizon = 0
    Amounts = {1, 2}
    Timeout = 1
    Portions = {1, 2}
    Capacities = {2}
    Conflicts = {}
    Crashable = {}
INVARIANTS NothingStranded
CHECK_DEADLOCK FALSE
