\* Four ids, two nodes of which one falls silent, a router; nobody announces.
CONSTANTS
    Ids = {0, 1, 4, 5}
    Zero = 0
    Self = 5
    Addrs = {"a", "b", "r"}
    K = 2
    MaxBuckets = 2
    Clz <- MCClz
    Dist <- MCDist
    MinAge = 1
    MaxNow = 1
    Hashes = {}
    IdOf <- MCIdOf
    Told <- MCTold
    RouterIps = {"r"}
    Enough = 2
    Plenty = 3
    MaxFill = 1
    MaxValues = 1
    Targets = {0, 1}
    Mortal = {"a"}
    Announcers = {}
    None = None
SPECIFICATION DhtSpec
PROPERTIES NeverHot DeadForgotten
CHECK_DEADLOCK FALSE
