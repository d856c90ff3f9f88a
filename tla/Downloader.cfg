\* Two workers, of one hash after one another or of two hashes with one permit.
SPECIFICATION LiveSpec
CONSTANTS
    Hashes = {h1, h2}
    Workers = {w1, w2}
    NoWorker = NoWorker
    MaxWorkers = 1
    MaxConcurrent = 2
    MaxPending = 2
    Incoming = TRUE
INVARIANTS TypeOK WorkListed NoDeadEntry
PROPERTIES IdleEnds StopEnds
