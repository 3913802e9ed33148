\* Every message re-checked, no clock, with fairness: the errors, the context and the target,
\* and that nothing waits for ever.
CONSTANTS
    Main = main
    Senders = {s}
    Receivers = {r}
    Outgoing = {o1}
    Incoming = {i1}
    Targets = {t1, t2}
    Failures <- ContextFailures
    Results = {ok}
    Interval = 0
    MaxTime = 0
    NoOne = NoOne
    None = None
    Incomplete = Incomplete
    Pending = Pending
    Panicked = Panicked
SPECIFICATION FairSpec
INVARIANTS
    SameTarget
    OneRefusal
PROPERTIES
    RefusalEndsRPC
    GateNeverStalls
    ReturnEndsRPC
