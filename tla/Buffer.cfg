SPECIFICATION Spec
CONSTANTS
    Bytes <- MCBytes
    Zero = 0
    Chunks <- MCChunks
    InitialSize = 3
    ExtraSize = 2
    MaxData = 4
INVARIANTS
    GrowthBounded
PROPERTIES
    ImplementsByteQueue
