\* All queries of three nodes, two hashes, one peer to an answer; no router to be found.
CONSTANTS
    Ids = {0, 1, 4, 5}
    Zero = 0
    Self = 5
    Addrs = {"a", "b", "r"}
    K = 2
    MaxBuckets = 2
    Clz <- MCClz
    Dist <- MCDist
    MinAge = 1
    MaxNow = 1
    Hashes = {1, 4}
    IdOf <- MCIdOf
    Told = {}
    RouterIps = {}
    Enough = 2
    Plenty = 3
    MaxFill = 1
    MaxValues = 1
    Targets = {1, 4}
    Mortal = {}
    Announcers = {"a"}
    None = None
SPECIFICATION DhtSpec
INVARIANTS QueriesInv
CHECK_DEADLOCK FALSE
