SPECIFICATION Spec
CONSTANTS
    Absent = Absent
    Units <- ThreeUnits
    Bins <- OneBin
    Resvs <- TwoResvs
    Skus <- TwoSkus
    Demands <- OneDemand
    ById <- IdOrder
    Sessions = {1, 2, 3}
    OpsOf <- PlaceMix
    Databases <- PlacementStates
    Horizon = 0
    Amounts = {1, 2}
    Timeout = 1
    Portions = {1, 2}
    Capacities = {2, 3}
    Conflicts <- AcidApart
    Crashable = {1}
INVARIANTS BinLedger Segregated ShelvesInv
CHECK_DEADLOCK FALSE
