CONSTANTS
    Run = {r1}
    RecordId <- Ids4
    Word32 = 100
    Name <- MCName
    domain_subname = ""
    Ranks <- AnyOrder
    FailedBodies <- Nothing
    HostStates <- Hosts
    InitialZones <- MixedZones
    NewRecords <- AnotherAny
SPECIFICATION Spec
INVARIANT TypeOK
PROPERTIES OnlyDuplicatesDeleted ForeignRecordsUntouched PointedAtOwnAddress
