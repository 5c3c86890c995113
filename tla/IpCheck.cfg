CONSTANTS
    IfLists <- MCIfLists
    EchoTexts <- MCEchoTexts
    Tails <- MCTails
SPECIFICATION Spec
CHECK_DEADLOCK FALSE
INVARIANTS
    TypeOK
    WalkPicksFirstPublic
    OnlyConfirmedAddress
    ClassifiedAsDocumented
