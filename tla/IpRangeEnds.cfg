CONSTANTS
    IfLists <- RangeEndLists
    EchoTexts <- MCEchoTexts
    Tails <- MCTails
SPECIFICATION Spec
CHECK_DEADLOCK FALSE
INVARIANT PrivateNeverPicked
