\* 3-bit ids, buckets of 2, at most 3 buckets, 3 endpoints; a clock of 3 values, see ClockBound.
SPECIFICATION MCSpec
CONSTANTS
    Ids = {0, 1, 2, 4, 5, 6, 7}
    Zero = 0
    Self = 5
    Addrs = {a1, a2, a3}
    K = 2
    MaxBuckets = 3
    Clz <- MCClz
    Dist <- MCDist
    MinAge = 1
    MaxNow = 2
SYMMETRY AddrSymmetry
INVARIANTS TypeOK Placement EndpointIndex FindNodeCoversBucket RefreshFindsStale
PROPERTIES RefinesContactSet
