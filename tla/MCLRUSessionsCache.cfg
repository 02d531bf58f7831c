\* Two keys more than the capacity: enough to fill the cache, to evict, and to
\* refer again to an evicted key.
CONSTANTS
    Keys = {k1, k2, k3, k4, k5, k6}
    fMaxSize = 4
    MayFail = TRUE
SYMMETRY KeySymmetry
SPECIFICATION Spec
INVARIANTS TypeOK CacheSound DiskTracked
PROPERTY EvictsLeastRecent
