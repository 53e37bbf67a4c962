SPECIFICATION FairSpec
CONSTANTS
    Absent = Absent
    Units <- TwoUnits
    Bins <- OneBin
    Resvs <- ThreeResvs
    Skus <- OneSku
    Demands <- TwoDemands
    ById <- IdOrder
    Sessions = {1, 2, 3}
    OpsOf <- ReserveMix
    Databases <- FreeStock
    Horizon = 0
    Amounts = {1, 2}
    Timeout = 1
    Portions = {1, 2}
    Capacities = {2}
    Conflicts = {}
    Crashable = {1}
INVARIANTS HoldsBacked HoldsInv
PROPERTIES ImplementsLedger EveryRequestAnswered
CHECK_DEADLOCK FALSE
