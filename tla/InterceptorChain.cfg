\* One RPC of every kind through every chain, on both frameworks.
CONSTANTS
    open = open
    plain = plain
    mapped = mapped
    svc = svc
    fixed = fixed
    templated = templated
    q1 = q1
    q2 = q2
    t = t
    t1 = t1
    RPCs = {r1}
    Methods <- MCMethods
    Services = {svc}
    ServiceOf <- MCServiceOf
    Requests = {q1, q2}
    Targets = {t, t1}
    Policies = {fixed, templated}
    Mapped = {templated}
    Declared <- MCDeclared
    Resolve <- MCResolve
    Chains <- MCChains
    Frameworks = {"grpc", "connect"}
    Failures <- MCFailures
    NoPolicy = NoPolicy
    Unsafe = Unsafe
    Broken = Broken
    Absent = Absent
    None = None
    Pending = Pending
    Panicked = Panicked
SPECIFICATION Spec
INVARIANTS
    NoUncheckedHandler
    ObserverSeesAll
    NeverAnonymous
