SPECIFICATION ChunkSpec
CONSTANTS
    DEFAULT_CHUNK_SIZE = 3
    INIT_CHUNK_ARRAY_SIZE = 2
    Request = {0, 1, 2, 3, 5}
    MaxChunk = 5
    MaxBlock = 6
INVARIANTS
    BlocksInChunks
    BlocksDisjoint
    ArraysLargeEnough
CHECK_DEADLOCK FALSE
