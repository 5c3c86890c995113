CONSTANTS
    Run = {r1}
    RecordId <- WideIds
    Word32 = 4
    Name <- MCName
    domain_subname = ""
    Ranks <- ById
    FailedBodies <- Nothing
    HostStates <- OneAddress
    InitialZones <- WideZones
    NewRecords <- None
SPECIFICATION Spec
PROPERTY OnlyDuplicatesDeleted
