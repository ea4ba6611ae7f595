\* Three records, pages of two, chunks of two ticks of which three begin.
SPECIFICATION Spec
CONSTANTS
    i1 = i1  i2 = i2  i3 = i3
    Item = {i1, i2, i3}
    ChunkTicks = 2
    Limit = 2
    Horizon = 4
SYMMETRY Records
INVARIANTS
    PageComplete
    BodyTrue
    FirstChunkSound
    IteratorNearby
