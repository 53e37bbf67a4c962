SPECIFICATION Spec
CONSTANTS
    Absent = Absent
    Units <- TwoUnits
    Bins <- OneBin
    Resvs <- ThreeResvs
    Skus <- OneSku
    Demands <- OneDemand
    ById <- IdOrder
    Sessions = {1, 2}
    OpsOf <- ReserveAndGet
    Databases <- SharedUnit
    Horizon = 1
    Amounts = {1, 2}
    Timeout = 1
    Portions = {1, 2}
    Capacities = {2}
    Conflicts = {}
    Crashable = {}
INVARIANTS HoldsBacked
CHECK_DEADLOCK FALSE
