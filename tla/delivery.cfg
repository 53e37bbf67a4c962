SPECIFICATION FairSpec
CONSTANTS
    Absent = Absent
    Unspecified = ""
    TicksPerHour = 2
    MaxRow = 6
    SkuOf <- SkuOfReservation
    PartitionOf <- TwoPartitions
    Workloads <- AllWorkloads
INVARIANTS TypeOK OneEffectPerKey SameOutcome NothingLost OneRelayKeepsOrder WindowsAddUp OneLossPerTrouble IInv
PROPERTIES NeverLooksOlder ImplementsReport EveryRowArrives
CHECK_DEADLOCK FALSE
