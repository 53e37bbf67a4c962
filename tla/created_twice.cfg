SPECIFICATION Spec
CONSTANTS
    Absent = Absent
    Units <- TwoUnits
    Bins <- OneBin
    Resvs <- TwoResvs
    Skus <- OneSku
    Demands <- OneDemand
    ById <- IdOrder
    Sessions = {1, 2}
    OpsOf <- RegisterTwice
    Databases <- Nothing
    Horizon = 0
    Amounts = {1, 2}
    Timeout = 1
    Portions = {1, 2}
    Capacities = {2}
    Conflicts = {}
    Crashable = {}
INVARIANTS CreatedOnce
CHECK_DEADLOCK FALSE
