\* Re-checks at most every 2 ticks: the clock, the revocation and three messages.
CONSTANTS
    Main = main
    Senders = {s}
    Receivers = {r}
    Outgoing = {o1}
    Incoming = {i1, i2}
    Targets = {t1}
    Failures <- Denials
    Results = {ok}
    Interval = 2
    MaxTime = 3
    NoOne = NoOne
    None = None
    Incomplete = Incomplete
    Pending = Pending
    Panicked = Panicked
SPECIFICATION Spec
SYMMETRY MessageSymmetry
INVARIANTS
    RevocationBound
    ClearedUnlessAllowed
PROPERTIES
    GateSpec
    KeepsPromise
