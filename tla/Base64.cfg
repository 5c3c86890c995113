CONSTANTS
    Inputs <- MCInputs
    Texts <- MCTexts
    Sizes = {0, 1, 2, 3, 5, 9}
    Word32 = 56
SPECIFICATION Spec
INVARIANTS StaysInBuffer SizeAskedForSuffices RoundTrip DecodesWellFormedOnly
