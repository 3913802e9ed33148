-------------------------- MODULE StreamGateProofs --------------------------
(***************************************************************************)
(* StreamGate's safety, for any set of callers, any interval, any set of   *)
(* failures and any bound on the clock.                                    *)
(***************************************************************************)
EXTENDS StreamGate, TLAPS

\* The mutex: exactly the holder is inside the check function, and while one
\* is, the gate reads as incomplete.
MutexInv ==
    /\ \A c \in Callers : call[c] = "run" <=> holder = c
    /\ holder # NoOne => err = Incomplete

\* The clock: the last allowed check is the last check that began, unless one
\* has begun or failed since.
ClockInv ==
    /\ start <= now
    /\ last <= start
    /\ err = None /\ checked => last = start
    /\ err = None => holder = NoOne

\* The inductive invariant.
GateInv == TypeOK /\ MutexInv /\ ClockInv /\ IncompleteIsReal

USE DEF GateFailures, Stages, Times

\* The state after New satisfies the inductive invariant.
LEMMA InitInv == Init => GateInv
<1> SUFFICES ASSUME Init PROVE GateInv
  OBVIOUS
<1>1. TypeOK
  <2>1. 0 \in Times
    BY TimeAssumption
  <2>2. checked \in BOOLEAN
    BY Zenon DEF Init
  <2>3. call \in [Callers -> Stages] /\ got \in [Callers -> GateFailures \cup {None}]
    BY DEF Init
  <2> QED
    BY <2>1, <2>2, <2>3 DEF Init, TypeOK
<1>2. MutexInv
  BY NoOneAssumption DEF Init, MutexInv
<1>3. ClockInv /\ IncompleteIsReal
  BY DEF Init, ClockInv, IncompleteIsReal
<1> QED
  BY <1>1, <1>2, <1>3 DEF GateInv

\* Every step of the gate preserves the inductive invariant.
LEMMA NextInv == GateInv /\ [Next]_vars => GateInv'
<1> SUFFICES ASSUME GateInv, [Next]_vars PROVE GateInv'
  OBVIOUS
<1> USE NoOneAssumption, TimeAssumption, ErrorsAssumption, IntervalAssumption
<1> USE DEF GateInv, TypeOK, MutexInv, ClockInv, IncompleteIsReal, Closed
<1>1. CASE Tick
  BY <1>1 DEF Tick
<1>2. ASSUME NEW c \in Callers, Check(c) \/ Err(c) PROVE GateInv'
  BY <1>2 DEF Check, Err, Enter
<1>3. ASSUME NEW c \in Callers, ReadErr(c) PROVE GateInv'
  BY <1>3 DEF ReadErr, Answered
<1>4. ASSUME NEW c \in Callers, Refuse(c) PROVE GateInv'
  BY <1>4 DEF Refuse, Answered
<1>5. ASSUME NEW c \in Callers, Skip(c) PROVE GateInv'
  BY <1>5 DEF Skip, Answered
<1>6. ASSUME NEW c \in Callers, Begin(c) PROVE GateInv'
  BY <1>6 DEF Begin
<1>7. ASSUME NEW c \in Callers, Allow(c) PROVE GateInv'
  BY <1>7 DEF Allow, Allowed, Answered
<1>8. ASSUME NEW c \in Callers, NEW e \in Errors, Fail(c, e) PROVE GateInv'
  BY <1>8 DEF Fail, Answered
<1>9. ASSUME NEW c \in Callers, Abandon(c) PROVE GateInv'
  BY <1>9 DEF Abandon
<1>10. ASSUME NEW c \in Callers, Leave(c) PROVE GateInv'
  BY <1>10 DEF Leave
<1>11. CASE UNCHANGED vars
  BY <1>11 DEF vars
<1> QED
  BY <1>1, <1>2, <1>3, <1>4, <1>5, <1>6, <1>7, <1>8, <1>9, <1>10, <1>11
     DEF Next, Decide, Finish

\* The inductive invariant holds in every reachable state.
LEMMA GateInvHolds == Spec => []GateInv
  BY InitInv, NextInv, PTL DEF Spec

\* Every variable keeps its type.
THEOREM TypeCorrect == Spec => []TypeOK
<1>1. GateInv => TypeOK
  BY DEF GateInv
<1> QED
  BY <1>1, GateInvHolds, PTL

\* A caller that is told a failure is told the one that closed the gate for
\* good, never the provisional one of a check still running.
THEOREM ToldFailuresAreReal == Spec => []IncompleteIsReal
<1>1. GateInv => IncompleteIsReal
  BY DEF GateInv
<1> QED
  BY <1>1, GateInvHolds, PTL

\* The failure that closes the gate is final: nothing runs, nobody is let
\* through, and what the gate reports never changes.
THEOREM FailureIsFinal == Spec => FirstFailureIsFinal
<1> DEFINE Final ==
      Closed =>
        /\ UNCHANGED <<err, holder, checked, last>>
        /\ \A c \in Callers :
            call'[c] = "done" /\ call[c] # "done" => got'[c] = err
<1>1. ASSUME GateInv, [Next]_vars, Closed PROVE Final
  <2> USE NoOneAssumption, ErrorsAssumption
  <2> USE <1>1 DEF GateInv, TypeOK, MutexInv, Closed
  <2>1. CASE Tick \/ UNCHANGED vars
    BY <2>1 DEF Tick, vars
  <2>2. ASSUME NEW c \in Callers, Check(c) \/ Err(c) \/ Leave(c) PROVE Final
    BY <2>2 DEF Check, Err, Enter, Leave
  <2>3. ASSUME NEW c \in Callers, Decide(c) PROVE Final
    BY <2>3 DEF Decide, ReadErr, Refuse, Skip, Begin, Answered
  <2>4. ASSUME NEW c \in Callers PROVE ~Finish(c)
    BY DEF Finish, Allow, Allowed, Fail, Abandon
  <2> QED
    BY <2>1, <2>2, <2>3, <2>4 DEF Next
<1>2. GateInv /\ [Next]_vars => [Final]_vars
  BY <1>1
<1> QED
  BY <1>2, GateInvHolds, PTL DEF Spec, FirstFailureIsFinal

\* Two checks of one gate begin at least an interval apart.
THEOREM BeginsAreSpaced == Spec => ChecksAreSpaced
<1> DEFINE Spaced ==
      holder = NoOne /\ holder' # NoOne /\ checked => start' - start >= Interval
<1>1. ASSUME GateInv, [Next]_vars PROVE Spaced
  <2> USE NoOneAssumption, IntervalAssumption, TimeAssumption
  <2> USE <1>1 DEF GateInv, TypeOK, MutexInv
  <2>1. CASE Tick \/ UNCHANGED vars
    BY <2>1 DEF Tick, vars
  <2>2. ASSUME NEW c \in Callers, Begin(c) PROVE Spaced
    \* The gate has not failed, so the last check that began was allowed.
    <3>1. checked => last = start
      BY <2>2 DEF Begin, ClockInv
    <3> QED
      BY <2>2, <3>1 DEF Begin, Recent, ClockInv
  <2>3. ASSUME NEW c \in Callers, ~Begin(c),
               Check(c) \/ Err(c) \/ Leave(c) \/ Decide(c) \/ Finish(c)
        PROVE  Spaced
    BY <2>3 DEF Check, Err, Enter, Leave, Decide, ReadErr, Refuse, Skip,
                Finish, Allow, Allowed, Fail, Abandon
  <2> QED
    BY <2>1, <2>2, <2>3 DEF Next
<1>2. GateInv /\ [Next]_vars => [Spaced]_vars
  BY <1>1
<1> QED
  BY <1>2, GateInvHolds, PTL DEF Spec, ChecksAreSpaced

\* Whoever passes without a check of its own passes within an interval of the
\* begin of a check that was allowed, and that no later check contradicted.
THEOREM PassesAreCoveredAlways == Spec => PassesAreCovered
<1> DEFINE Covered ==
      \A c \in Callers :
        call[c] = "check" /\ call'[c] = "done" /\ got'[c] = None
            => checked /\ err = None /\ now - start < Interval
<1>1. ASSUME GateInv, [Next]_vars PROVE Covered
  <2> USE <1>1, ErrorsAssumption DEF GateInv, TypeOK, MutexInv
  <2>1. CASE Tick \/ UNCHANGED vars
    BY <2>1 DEF Tick, vars
  <2>2. ASSUME NEW c \in Callers, Skip(c) PROVE Covered
    BY <2>2 DEF Skip, Answered, Recent, ClockInv
  <2>3. ASSUME NEW c \in Callers,
               Check(c) \/ Err(c) \/ Leave(c) \/ ReadErr(c) \/ Refuse(c)
                 \/ Begin(c) \/ Finish(c)
        PROVE  Covered
    BY <2>3 DEF Check, Err, Enter, Leave, ReadErr, Refuse, Begin, Answered,
                Finish, Allow, Allowed, Fail, Abandon
  <2> QED
    BY <2>1, <2>2, <2>3 DEF Next, Decide
<1>2. GateInv /\ [Next]_vars => [Covered]_vars
  BY <1>1
<1> QED
  BY <1>2, GateInvHolds, PTL DEF Spec, PassesAreCovered
=============================================================================
