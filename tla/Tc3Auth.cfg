CONSTANTS
    Settings <- MCSettings
    Rests <- MCRests
    Orders <- MCOrders
    Accounts <- MCAccounts
    DayLength = 2
    Cuts = {1, 3, 5}
    MaxClock = 3
    MaxRequests = 3
    MaxInFlight = 2
SPECIFICATION Spec
INVARIANTS
    TypeOK
    CredentialsNotOlder
    RequestsAccepted
