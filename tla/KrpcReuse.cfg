\* A tid of one bit, reused at will by two calls of two attempts; a network that
\* need not deliver.
SPECIFICATION LiveSpec
CONSTANTS
    Calls = {c1, c2}
    NoCall = NoCall
    TidMod = 2
    Attempts = 2
    Window = 9
INVARIANTS TypeOK PendingExact
PROPERTIES EveryCallEnds
\* A finite set of calls comes to an end.
CHECK_DEADLOCK FALSE
