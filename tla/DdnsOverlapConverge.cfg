CONSTANTS
    Run = {r1, r2}
    RecordId <- Ids2
    Word32 = 100
    Name <- MCName
    domain_subname = ""
    Ranks <- ById
    FailedBodies <- None
    HostStates <- OneAddress
    InitialZones <- Duplicates
    NewRecords <- None
SPECIFICATION FairSpec
PROPERTIES Converges InvocationsEnd
