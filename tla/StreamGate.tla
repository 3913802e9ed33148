----------------------------- MODULE StreamGate -----------------------------
(***************************************************************************)
(* The re-check gate of one stream (internal/streamcheck, type Gate).      *)
(*                                                                         *)
(* Goroutines call Gate.Check around each message and Gate.Err to learn    *)
(* the failure that ended the stream.  Both take the gate's mutex, and     *)
(* Check keeps it while the check function runs, so a call is one of       *)
(*                                                                         *)
(*   "idle"   the caller is not in the gate                                *)
(*   "check"  in Check, waiting for the mutex                              *)
(*   "err"    in Err, waiting for the mutex                                *)
(*   "run"    in Check, inside the check function, holding the mutex       *)
(*   "done"   the call has its answer got[c]: None, or the failure         *)
(*   "panic"  the check function panicked and Check is unwinding           *)
(*                                                                         *)
(* An action that takes the mutex, decides and releases it without calling *)
(* out is one step: nothing else can happen under the mutex.               *)
(***************************************************************************)
EXTENDS Integers

CONSTANTS
    Callers,        \* goroutines that use the gate
    NoOne,          \* the holder of a free mutex
    Interval,       \* Gate.interval: checks begin at most once per Interval
    MaxTime,        \* bound on the clock
    Errors,         \* failures a check function may return
    Incomplete,     \* ErrCheckIncomplete
    None            \* Go's nil error

ASSUME NoOneAssumption == NoOne \notin Callers
ASSUME IntervalAssumption == Interval \in Nat
ASSUME TimeAssumption == MaxTime \in Nat
ASSUME ErrorsAssumption ==
    /\ None \notin Errors
    /\ Incomplete \notin Errors     \* "No check returns it"
    /\ None # Incomplete

VARIABLES
    now,        \* what g.now() reads
    holder,     \* the goroutine holding g.mu, or NoOne
    checked,    \* g.checked
    last,       \* g.last, meaningful once checked
    err,        \* g.err
    start,      \* the local variable of the Check that last ran its function
    call,       \* where each caller is
    got         \* the error the caller's latest call returned

vars == <<now, holder, checked, last, err, start, call, got>>

Times == 0 .. MaxTime
GateFailures == Errors \cup {Incomplete}
Stages == {"idle", "check", "err", "run", "done", "panic"}

TypeOK ==
    /\ now \in Times
    /\ holder \in Callers \cup {NoOne}
    /\ checked \in BOOLEAN
    /\ last \in Times
    /\ err \in GateFailures \cup {None}
    /\ start \in Times
    /\ call \in [Callers -> Stages]
    /\ got \in [Callers -> GateFailures \cup {None}]

Init ==
    /\ now = 0
    /\ holder = NoOne
    /\ checked = FALSE
    /\ last = 0
    /\ err = None
    /\ start = 0
    /\ call = [c \in Callers |-> "idle"]
    /\ got = [c \in Callers |-> None]

-----------------------------------------------------------------------------
\* A call enters the gate and waits for the mutex.
Enter(c, method) ==
    /\ call[c] = "idle"
    /\ call' = [call EXCEPT ![c] = method]
    /\ UNCHANGED <<now, holder, checked, last, err, start, got>>

Check(c) == Enter(c, "check")
Err(c) == Enter(c, "err")

\* The call gets its answer e and leaves the mutex free.
Answered(c, e) ==
    /\ call' = [call EXCEPT ![c] = "done"]
    /\ got' = [got EXCEPT ![c] = e]

\* Mutant: Err does not take the mutex.
ReadErrUnlocked(c) ==
    /\ call[c] = "err"
    /\ Answered(c, err)
    /\ UNCHANGED <<now, holder, checked, last, err, start>>

\* Err reads g.err, once no check is running.
ReadErr(c) ==
    /\ call[c] = "err"
    /\ holder = NoOne
    /\ Answered(c, err)
    /\ UNCHANGED <<now, holder, checked, last, err, start>>

\* Check on a gate that has failed returns that failure, running nothing.
Refuse(c) ==
    /\ call[c] = "check"
    /\ holder = NoOne
    /\ err # None
    /\ Answered(c, err)
    /\ UNCHANGED <<now, holder, checked, last, err, start>>

\* The last check began less than the interval ago.
Recent == Interval > 0 /\ checked /\ now - last < Interval

\* Check lets the message through without running the check function.
Skip(c) ==
    /\ call[c] = "check"
    /\ holder = NoOne
    /\ err = None
    /\ Recent
    /\ Answered(c, None)
    /\ UNCHANGED <<now, holder, checked, last, err, start>>

\* Mutant: the failure is not looked at, and the next check runs.
BeginAgain(c) ==
    /\ call[c] = "check"
    /\ holder = NoOne
    /\ ~Recent
    /\ holder' = c
    /\ start' = now
    /\ err' = Incomplete
    /\ call' = [call EXCEPT ![c] = "run"]
    /\ UNCHANGED <<now, checked, last, got>>

\* Check starts the check function, failed until it returns.
Begin(c) ==
    /\ call[c] = "check"
    /\ holder = NoOne
    /\ err = None
    /\ ~Recent
    /\ holder' = c
    /\ start' = now
    /\ err' = Incomplete
    /\ call' = [call EXCEPT ![c] = "run"]
    /\ UNCHANGED <<now, checked, last, got>>

\* The state an allowed check leaves, with the time t as g.last.
Allowed(c, t) ==
    /\ call[c] = "run"
    /\ err' = None
    /\ checked' = TRUE
    /\ last' = t
    /\ holder' = NoOne
    /\ Answered(c, None)
    /\ UNCHANGED <<now, start>>

\* Mutants: the interval runs from the end of the check, or is not restarted by it.
AllowFromEnd(c) == Allowed(c, now)
AllowNotRecorded(c) == Allowed(c, last)

\* The check function returns nil.
Allow(c) == Allowed(c, start)

\* The check function returns the failure e.
Fail(c, e) ==
    /\ call[c] = "run"
    /\ err' = e
    /\ holder' = NoOne
    /\ Answered(c, e)
    /\ UNCHANGED <<now, checked, last, start>>

\* Mutant: the unlock is not deferred, so a panic skips it.
AbandonLocked(c) ==
    /\ call[c] = "run"
    /\ call' = [call EXCEPT ![c] = "panic"]
    /\ UNCHANGED <<now, holder, checked, last, err, start, got>>

\* The check function panics, or its goroutine exits: the deferred unlock
\* runs and g.err stays ErrCheckIncomplete.
Abandon(c) ==
    /\ call[c] = "run"
    /\ holder' = NoOne
    /\ call' = [call EXCEPT ![c] = "panic"]
    /\ UNCHANGED <<now, checked, last, err, start, got>>

\* The caller leaves the gate, by a return or by the panic reaching it.
Leave(c) ==
    /\ call[c] \in {"done", "panic"}
    /\ call' = [call EXCEPT ![c] = "idle"]
    /\ UNCHANGED <<now, holder, checked, last, err, start, got>>

\* Time passes, up to the bound.
Tick ==
    /\ now < MaxTime
    /\ now' = now + 1
    /\ UNCHANGED <<holder, checked, last, err, start, call, got>>

-----------------------------------------------------------------------------
Decide(c) == ReadErr(c) \/ Refuse(c) \/ Skip(c) \/ Begin(c)

Finish(c) == Allow(c) \/ Abandon(c) \/ \E e \in Errors : Fail(c, e)

Next ==
    \/ Tick
    \/ \E c \in Callers :
        \/ Check(c) \/ Err(c)
        \/ Decide(c)
        \/ Finish(c)
        \/ Leave(c)

Spec == Init /\ [][Next]_vars

-----------------------------------------------------------------------------
\* A check failed and its Check let go of the mutex.
Closed == err # None /\ holder = NoOne

\* The first failure is final: once a check has failed, or has panicked, no
\* check ever runs again, no call is let through, and what the gate reports
\* never changes (Gate: "The first failure is final").
FirstFailureIsFinal ==
    [][Closed =>
        /\ UNCHANGED <<err, holder, checked, last>>
        /\ \A c \in Callers :
            call'[c] = "done" /\ call[c] # "done" => got'[c] = err]_vars

\* Checks begin at least an interval apart, measured from begin to begin
\* however long each of them runs (Gate: "unless the last one began less than
\* the interval ago").
ChecksAreSpaced ==
    [][holder = NoOne /\ holder' # NoOne /\ checked
        => start' - start >= Interval]_vars

\* Whoever is let through is covered by a check that returned nil and that
\* began less than an interval ago, or by the check it has just run itself.
PassesAreCovered ==
    [][\A c \in Callers :
        call[c] = "check" /\ call'[c] = "done" /\ got'[c] = None
            => checked /\ err = None /\ now - start < Interval]_vars

\* No caller sees the provisional failure of a check that is still running:
\* it learns of ErrCheckIncomplete only when some check really ended without
\* an answer, and the gate then stays closed.
IncompleteIsReal ==
    \A c \in Callers : got[c] # None => Closed /\ got[c] = err

=============================================================================
