SPECIFICATION Spec
CONSTANTS
    Absent = Absent
    Unspecified = ""
    TicksPerHour = 2
    MaxRow = 6
    SkuOf <- SkuOfReservation
    PartitionOf <- TwoPartitions
    Workloads <- TwoReplicas
INVARIANTS InKeyOrder
CHECK_DEADLOCK FALSE
