---------------------------- MODULE PrivateDial -----------------------------
(***************************************************************************)
(* One DialContext of a privatenet.Dialer.                                 *)
(*                                                                         *)
(* The resolver answers what it likes, and otherwise the next time; an     *)
(* address answers, refuses, or stalls until the context of its attempt    *)
(* ends; the caller may cancel at any moment.  Resolver and dial give up   *)
(* at the end of their context, and the dialer's own code takes no time    *)
(* on the clock, so the clock moves only while one of them is waited for.  *)
(***************************************************************************)
EXTENDS PrivateNet, Sequences

CONSTANTS
    Hosts,          \* host literals that are addresses, Name and Malformed
    Name, Malformed,
    Answers,        \* sequences of addresses the resolver may answer with
    Callers,        \* the caller's deadline: a time, or Never
    Never,          \* the clock stays below it: the bound of the model
    Timeouts,       \* Dialer.Timeout
    DefaultTimeout, \* defaultTimeout
    MinAttempt      \* minAttempt

ASSUME HostsAssumption ==
    /\ Hosts \subseteq Address \cup {Name, Malformed}
    /\ Name # Malformed /\ {Name, Malformed} \cap Address = {}
    /\ Answers \subseteq Seq(Address)
ASSUME TimesAssumption ==
    /\ Never \in Nat /\ Callers \subseteq 0 .. Never /\ MinAttempt \in Nat \ {0}
    /\ \A t \in Timeouts : t \in Int /\ t < Never
    /\ DefaultTimeout \in 1 .. Never - 1

VARIABLES
    timeout,        \* of the dialer
    host, caller,   \* what DialContext is given
    now,
    canceled,       \* by the caller
    stage,
    deadline,       \* of ctx, once it has the timeout
    addrs,          \* the addresses found
    until,          \* the deadline of the running attempt
    tried,          \* every attempt: the address, when, until when, in a live context
    result          \* "connected" or why not

vars == <<timeout, host, caller, now, canceled, stage, deadline, addrs, until, tried, result>>
given == <<timeout, host, caller>>

Init ==
    /\ timeout \in Timeouts /\ host \in Hosts /\ caller \in Callers
    /\ now = 0 /\ canceled = FALSE
    /\ stage = "new" /\ deadline = Never /\ addrs = <<>> /\ until = Never
    /\ tried = <<>> /\ result = "none"

-----------------------------------------------------------------------------
Timeout == IF timeout <= 0 THEN DefaultTimeout ELSE timeout

\* Mutant: no timeout unless one is configured.
DeadlineIfAny(c) == IF timeout <= 0 \/ c < Timeout THEN c ELSE Timeout

\* context.WithTimeout over the caller's context.
Deadline(c) == IF c < Timeout THEN c ELSE Timeout

\* ctx.Err() # nil.
Done == canceled \/ now >= deadline

\* Mutant: every attempt may use up what is left.
AttemptUntilEnd(remaining) == deadline

\* attemptContext: an address's share of the time left.
AttemptUntil(remaining) ==
    LET left == deadline - now
        share == IF left \div remaining > MinAttempt THEN left \div remaining ELSE MinAttempt
    IN  IF remaining <= 1 \/ share >= left THEN deadline ELSE now + share

\* The address dial is given.
Target(a) == Unmap(a)

-----------------------------------------------------------------------------
Return(r) == stage' = "over" /\ result' = r

Start ==
    /\ stage = "new"
    /\ IF host = Malformed THEN Return("malformed") /\ UNCHANGED <<deadline, addrs>>
       ELSE /\ deadline' = Deadline(caller)
            /\ stage' = IF host = Name THEN "lookup" ELSE "found"
            /\ addrs' = IF host = Name THEN <<>> ELSE <<host>>
            /\ UNCHANGED result
    /\ UNCHANGED <<given, now, canceled, until, tried>>

LookupAnswers(found) ==
    /\ stage = "lookup"
    /\ stage' = "found" /\ addrs' = found
    /\ UNCHANGED <<given, now, canceled, deadline, until, tried, result>>

LookupFails ==
    /\ stage = "lookup"
    /\ Return("lookup failed")
    /\ UNCHANGED <<given, now, canceled, deadline, addrs, until, tried>>

\* Every address is judged before any is connected to.
Check ==
    /\ stage = "found"
    /\ IF addrs = <<>> THEN Return("no address")
       ELSE IF \E i \in DOMAIN addrs : ~Contains(addrs[i]) THEN Return("not private")
       ELSE stage' = "attempt" /\ UNCHANGED result
    /\ UNCHANGED <<given, now, canceled, deadline, addrs, until, tried>>

\* An attempt at a, the next of the addresses.
Attempt(a) ==
    LET end == AttemptUntil(Len(addrs) - Len(tried))
    IN  /\ stage = "attempt"
        /\ stage' = "dialing" /\ until' = end
        /\ tried' = Append(tried, [at |-> Target(a), began |-> now, until |-> end, live |-> ~Done])
        /\ UNCHANGED <<given, now, canceled, deadline, addrs, result>>

\* Mutant: dial is given the host, and looks it up again.
BeginAttemptByName ==
    IF host # Name THEN Attempt(host)
    ELSE \E again \in Answers : again # <<>> /\ Attempt(again[1])

BeginAttempt == Attempt(addrs[Len(tried) + 1])

Connects ==
    /\ stage = "dialing"
    /\ Return("connected")
    /\ UNCHANGED <<given, now, canceled, deadline, addrs, until, tried>>

AttemptFails ==
    /\ stage = "dialing"
    /\ stage' = "failed"
    /\ UNCHANGED <<given, now, canceled, deadline, addrs, until, tried, result>>

\* Mutant: it tries them all, whether or not anyone waits for it.
GoOnAnyway ==
    /\ stage = "failed"
    /\ IF Len(tried) = Len(addrs) THEN Return("unreachable")
       ELSE stage' = "attempt" /\ UNCHANGED result
    /\ UNCHANGED <<given, now, canceled, deadline, addrs, until, tried>>

\* The context is asked after an attempt that failed.
GoOn ==
    /\ stage = "failed"
    /\ IF Done \/ Len(tried) = Len(addrs) THEN Return("unreachable")
       ELSE stage' = "attempt" /\ UNCHANGED result
    /\ UNCHANGED <<given, now, canceled, deadline, addrs, until, tried>>

Cancel ==
    /\ stage # "over" /\ ~canceled
    /\ canceled' = TRUE
    /\ UNCHANGED <<given, now, stage, deadline, addrs, until, tried, result>>

\* Nothing is waited for beyond its context.
Tick ==
    /\ \/ stage = "lookup" /\ now < deadline
       \/ stage = "dialing" /\ now < until
    /\ now < Never - 1
    /\ now' = now + 1
    /\ UNCHANGED <<given, canceled, stage, deadline, addrs, until, tried, result>>

Over == stage = "over" /\ UNCHANGED vars

\* What ends a wait whose context has ended.
GivesUp ==
    \/ Done /\ LookupFails
    \/ (canceled \/ now >= until) /\ AttemptFails

Runs == Start \/ Check \/ BeginAttempt \/ GoOn

Next ==
    \/ Runs \/ Over \/ Tick \/ Cancel
    \/ \E found \in Answers : LookupAnswers(found)
    \/ LookupFails \/ Connects \/ AttemptFails

Spec == Init /\ [][Next]_vars

\* Time passes, running code goes on, and a context that ended ends the wait.
FairSpec == Spec /\ WF_vars(Runs) /\ WF_vars(Tick) /\ WF_vars(GivesUp)

-----------------------------------------------------------------------------
TypeOK ==
    /\ timeout \in Timeouts /\ host \in Hosts /\ caller \in Callers
    /\ now \in 0 .. Never /\ canceled \in BOOLEAN
    /\ stage \in {"new", "lookup", "found", "attempt", "dialing", "failed", "over"}
    /\ deadline \in 0 .. Never /\ until \in 0 .. Never
    /\ addrs \in Answers \cup {<<h>> : h \in Hosts \cap Address} \cup {<<>>}
    /\ tried \in Seq([at : {a \in Address : a.form # "mapped"}, began : 0 .. Never,
                  until : 0 .. Never, live : BOOLEAN])
    /\ Len(tried) <= Len(addrs)
    /\ result \in {"none", "malformed", "lookup failed", "no address", "not private",
                   "connected", "unreachable"}

\* No address is ever tried that is not private, or that was not judged, and
\* none at all if one of them is not private: "it resolves the host once and
\* connects to the addresses it checked".
OnlyCheckedAddresses ==
    tried # <<>> =>
        /\ \A i \in DOMAIN addrs : ~addrs[i].zoned /\ Unmap(addrs[i]) \in Ranges \ Metadata
        /\ \A k \in DOMAIN tried : tried[k].at = Unmap(addrs[k])

\* An address that stalls does not cost a later one its chance: if the time left
\* was enough when the first attempt began, each has the least time or more, and
\* a dial nobody canceled fails only after all of them.
EachHasItsShare ==
    tried # <<>> /\ deadline - tried[1].began >= Len(addrs) * MinAttempt =>
        /\ \A k \in DOMAIN tried : tried[k].until - tried[k].began >= MinAttempt
        /\ result = "unreachable" /\ ~canceled => Len(tried) = Len(addrs)

\* The timeout bounds the lookup and every attempt together, and the caller's own
\* deadline does: no dial lasts longer than either.  Once its context has ended, by
\* the time or by the caller, at most one more attempt begins, the one that was about to.
BoundedByItsContext ==
    /\ now <= caller /\ now <= IF timeout <= 0 THEN DefaultTimeout ELSE timeout
    /\ \A j, k \in DOMAIN tried : ~tried[j].live /\ ~tried[k].live => j = k

\* A dial ends, though the resolver and every address stall.
DialReturns == <>(stage = "over")
=============================================================================
