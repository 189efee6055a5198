CONSTANTS
    Block = 2
    SeedBlocks = 3
    MaxGenerate = 11
    ChunkBlocks = 2
    CtrMod = 16
    MaxReseedCount = 3
    MaxKeys = 9
SPECIFICATION Spec
INVARIANTS TypeOK BlocksUsedOnce OutputIsKeystream OutputKeyReplaced ServedWithinInterval
