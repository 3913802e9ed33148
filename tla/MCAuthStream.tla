---- MODULE MCAuthStream ----
\* AuthStream on small instances. Errors are sets of kinds, which a .cfg cannot
\* write down, so the sets of failures are named here.
EXTENDS AuthStream, TLC

Denials == {{"denied"}}
\* A cancellation, which maps by the context, and a timeout that is a deadline
\* and an unavailable backend at once.
ContextFailures == {{"canceled"}, {"deadline", "unavailable"}}

MessageSymmetry ==
    Permutations(Outgoing) \cup Permutations(Incoming) \cup Permutations(Targets)
====
