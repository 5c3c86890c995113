CONSTANTS
    Lower <- MCLower
    Shorter <- MCShorter
    ServedName = "@"
    domain_name = "dearl.top"
    IntMax = 7
    Word64 = 256
    Alloc = {TRUE, FALSE}
    Whole = {TRUE, FALSE}
    Answers <- AllAnswers
SPECIFICATION Spec
INVARIANTS
    NothingLost
    CutNeverDecoded
    DecodedAsSent
    DomainDecodedAsSent
    OtherNamesHarmless
