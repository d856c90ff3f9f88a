\* Two finder tasks, two nodes of which one fits into the cache, one permit, one slot at work at a time.
CONSTANTS
    Hashes = {h1}
    Tasks = {t1, t2}
    NoTask = NoTask
    MaxConcurrent = 1
    MaxRetries = 1
    High = 1
    Low = 1
    Addrs = {a, b}
    NoAddr = NoAddr
    Slots = {s1, s2}
    MaxSampled = 1
    MaxSamples = 1
    Udp = udp
    Unparsable = {}
    HashLruSize = 1
    MaxBusy = 1
SPECIFICATION CrawlerSpec
INVARIANTS CrawlerInv FetchedOnce NoSearchForStored
PROPERTIES SampleEnds
CHECK_DEADLOCK FALSE
