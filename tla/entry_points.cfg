SPECIFICATION Spec
CONSTANTS
    Absent = Absent
    Units <- TwoUnits
    Bins <- OneBin
    Resvs <- ThreeResvs
    Skus <- OneSku
    Demands <- OneDemand
    ById <- IdOrder
    Sessions = {1, 2, 3}
    OpsOf <- EntryMix
    Databases <- HeldStock
    Horizon = 1
    Amounts = {1}
    Timeout = 1
    Portions = {1, 2}
    Capacities = {2}
    Conflicts = {}
    Crashable = {2}
INVARIANTS ReservedOnHand StoreInv OnHandInv
PROPERTIES ResolvedOnce
CHECK_DEADLOCK FALSE
