\* Checks that take their time: how long after a revocation a message can pass.
CONSTANTS
    Main = main
    Senders = {s}
    Receivers = {}
    Outgoing = {o1}
    Incoming = {}
    Targets = {t1}
    Failures <- Denials
    Results = {ok}
    Interval = 1
    MaxTime = 3
    NoOne = NoOne
    None = None
    Incomplete = Incomplete
    Pending = Pending
    Panicked = Panicked
SPECIFICATION Spec
INVARIANTS
    RevocationDelay
