SPECIFICATION FairSpec
CONSTANTS
    Absent = Absent
    ZoneOfCode <- Codes
    PartitionOf <- ByKind
    MaxCounted = 11
    MaxSaves = 1
    Plans <- AllPlans
INVARIANTS TypeOK CaughtUpIsRight KnownAtStart PlacedByTheBook SegregatedUnlessReclassified MatrixIsTable OneProbe CleanStop IInv
PROPERTIES BootEnds StopEnds
CHECK_DEADLOCK FALSE
