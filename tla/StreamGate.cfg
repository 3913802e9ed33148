\* Two goroutines and the interceptor on a gate with an interval of 2 ticks.
CONSTANTS
    Callers = {c1, c2, c3}
    NoOne = NoOne
    Interval = 2
    MaxTime = 5
    Errors = {denied, unavailable}
    Incomplete = Incomplete
    None = None
SPECIFICATION Spec
SYMMETRY CallerSymmetry
INVARIANTS
    IncompleteIsReal
PROPERTIES
    FirstFailureIsFinal
    ChecksAreSpaced
    PassesAreCovered
