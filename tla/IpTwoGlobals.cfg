CONSTANTS
    IfLists <- TwoGlobalLists
    EchoTexts <- MCEchoTexts
    Tails <- MCTails
SPECIFICATION Spec
CHECK_DEADLOCK FALSE
INVARIANT AnyLocalAddressMatches
