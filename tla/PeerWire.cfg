CONSTANTS
    Hashes = {h1, h2}
    Wanted = h1
    NoHash = none
    Lens = {0, 1}
    MaxPad = 2
    Capacity = 8
    Pieces = 2
    MaxSent = 3
    MaxSentPe = 1
SPECIFICATION Spec
INVARIANTS WireInv Downloaded
PROPERTIES IsPipe HandshakeEnds
CHECK_DEADLOCK FALSE
