\* Does every worker clean up?
SPECIFICATION Spec
CONSTANTS
    Hashes = {h1}
    Workers = {w1, w2}
    NoWorker = NoWorker
    MaxWorkers = 1
    MaxConcurrent = 1
    MaxPending = 1
    Incoming = FALSE
INVARIANTS EndsWithCleanup
\* A finite set of workers comes to an end.
CHECK_DEADLOCK FALSE
