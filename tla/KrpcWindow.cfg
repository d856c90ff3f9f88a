\* A tid of two bits; calls and answers do not outlive a turn of the counter, but an
\* answer may come three draws late, when its call is at the next attempt.
SPECIFICATION Spec
CONSTANTS
    Calls = {c1, c2, c3}
    NoCall = NoCall
    TidMod = 4
    Attempts = 2
    Window = 4
SYMMETRY CallSymmetry
INVARIANTS AnswersItsQuery
PROPERTIES ImplementsRpc
\* A finite set of calls comes to an end.
CHECK_DEADLOCK FALSE
