CONSTANTS
    Sizes = {0, 1, 2, 3, 4, 5}
    MaxFed = 13
SPECIFICATION Spec
INVARIANTS TypeOK RingHoldsTail
PROPERTY HoldsBackTag
