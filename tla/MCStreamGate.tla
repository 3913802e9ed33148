---- MODULE MCStreamGate ----
\* StreamGate on a small instance: interchangeable callers, two failures.
EXTENDS StreamGate, TLC
CallerSymmetry == Permutations(Callers)
====
