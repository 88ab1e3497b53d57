SPECIFICATION DurableSpec
CONSTANTS
    Keys = {k1, k2}
    Callers = {a, b}
    MaxExecs = 2
    MaxStarts = 2
CHECK_DEADLOCK FALSE
SYMMETRY Symmetry
INVARIANTS
    CompletionIsFinal
    RequestsAreKept
