CONSTANTS
    B = 3
    CtrMod = 5
    AadLimit = 7
    MaxChunk = 8
    MaxFinishes = 2
SPECIFICATION Spec
INVARIANT AadAuthenticatedAsGiven
