\* Result of two nodes, lists of three, two queries at once and five in all.
SPECIFICATION LiveSpec
CONSTANTS
    Entries <- MCEntries
    Starts <- MCStarts
    Replies <- MCReplies
    NonNative = {"v6"}
    Peers = {p1, p2}
    Alpha = 2
    K = 2
    Cap = 3
    MaxQueries = 5
    Converged = 2
    MaxPeers = 2
INVARIANTS SearchInv StopsConverged
PROPERTIES RequeuedInFlight SearchEnds
CHECK_DEADLOCK FALSE
