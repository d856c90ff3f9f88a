\* An announce task and another caller over a UDP tracker, and an HTTP tracker.
SPECIFICATION LiveSpec
CONSTANTS
    Calls = {k1, c1}
    Tasks = {k1}
    Workers = {w1, w2}
    NoWorker = NoWorker
    Trackers = {udp, http}
    Udp = udp
    Intervals = {0, 1, 3}
    Retry = 2
    Never = Never
INVARIANTS TrackerInv TransactionsExact RoundServes
PROPERTIES RoundsEnd
