CONSTANTS
    Run = {r1}
    RecordId <- Ids3
    Word32 = 100
    Name <- MCName
    domain_subname = ""
    Ranks <- ById
    FailedBodies <- Nothing
    HostStates <- BehindNatOnly
    InitialZones <- Zones3
    NewRecords <- None
SPECIFICATION FairSpec
PROPERTY NatAddressServed
