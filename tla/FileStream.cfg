SPECIFICATION Spec
CONSTANTS
    Workers = {1, 2}
    Payload <- MCPayload
    Networks <- MCNetworks
    ChunkSizes <- MCChunkSizes
    MaxTicks = 2
    Window = 1
INVARIANTS ContentKept CountedOnce
CHECK_DEADLOCK FALSE
