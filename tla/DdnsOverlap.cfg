CONSTANTS
    Run = {r1, r2}
    RecordId <- Ids3
    Word32 = 100
    Name <- MCName
    domain_subname = ""
    Ranks <- ById
    FailedBodies <- Nothing
    HostStates <- OneAddress
    InitialZones <- Zones3
    NewRecords <- AnotherA
SPECIFICATION Spec
SYMMETRY Slots
INVARIANT TwinsInv
PROPERTIES OnlyDuplicatesDeleted ForeignRecordsUntouched ImplementsDnsName
