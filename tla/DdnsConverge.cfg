CONSTANTS
    Run = {r1}
    RecordId <- Ids3
    Word32 = 100
    Name <- MCName
    domain_subname = ""
    Ranks <- AnyOrder
    FailedBodies <- Nothing
    HostStates <- TwoAddresses
    InitialZones <- Zones3
    NewRecords <- AnotherA
SPECIFICATION FairSpec
PROPERTIES Converges InvocationsEnd
