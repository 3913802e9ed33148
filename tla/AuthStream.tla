----------------------------- MODULE AuthStream -----------------------------
(***************************************************************************)
(* One authorized stream: VerificationStreamInterceptor with the stream it *)
(* wraps (grpc/stream_interceptor.go) and, line for line the same,         *)
(* WrapStreamingHandler with its connection (connectrpc/interceptor.go).   *)
(*                                                                         *)
(* Main is the goroutine of the RPC: it makes the opening check, runs the  *)
(* handler and ends the RPC.  Senders and Receivers are the goroutines on  *)
(* which the handler calls SendMsg and RecvMsg.  They share the stream's   *)
(* gate, an instance of StreamGate: each action here is an action of the   *)
(* gate joined with what the stream does around it, or leaves the gate be. *)
(***************************************************************************)
EXTENDS ErrorMapping

CONSTANTS
    Main, Senders, Receivers,
    Outgoing,       \* messages the handler may send
    Incoming,       \* messages the client may send
    Targets,        \* resource and action pairs
    Failures,       \* errors an endpoint may return, each a set of kinds
    Results,        \* what the handler may return
    Interval, MaxTime,
    NoOne, None, Incomplete, Pending, Panicked

Workers == Senders \cup Receivers
Callers == Workers \cup {Main}
Messages == Outgoing \cup Incoming

\* credErr: the credential of the request could not be read.
CredFailure == {"unauthenticated"}

\* What verify may fail with.
Causes == Failures \cup {CredFailure}

\* A failure in the gate: what verify returned and the status it was mapped
\* to, None when it was not mapped yet, as the opening check's is not.
Errors == [code : Codes \cup {None}, cause : Causes]

ASSUME RolesAssumption ==
    /\ Main \notin Workers
    /\ Senders \cap Receivers = {}
    /\ Outgoing \cap Incoming = {}
    /\ NoOne \notin Callers
ASSUME ClockAssumption == Interval \in Nat /\ MaxTime \in Nat
ASSUME ValuesAssumption ==
    /\ None \notin Errors /\ Incomplete \notin Errors /\ None # Incomplete
    /\ None \notin Messages /\ None \notin Targets
    /\ None \notin Causes /\ Pending \notin Causes /\ None # Pending
    /\ \A f \in Failures : f \subseteq KindSet
    /\ None \notin Results \cup Codes \cup {Panicked}
    /\ Panicked \notin Results \cup Codes

VARIABLES
    now, holder, checked, last, err, start, call, got,      \* the gate
    answer,     \* of the running check: Pending, or what verify returned
    covered,    \* whether the grant stood when the running check began
    question,   \* the target the latest check asked about
    op,         \* where each worker is in its SendMsg or RecvMsg
    held,       \* the message a send carries; a receiver's buffer
    admitted,   \* messages the gate let through
    arrived,    \* messages the transport gave to a receive
    wire,       \* messages the transport sent
    delivered,  \* messages RecvMsg returned with no error
    told,       \* codes sends and receives failed with before the outcome
    late,       \* what the gate let through when the grant stood no more
    phase,      \* "opening", "serving", "returned" or "ended"
    target,     \* resource and action, copied once
    result,     \* what the handler returned
    status,     \* what the interceptor returned, None while it has not
    policy,     \* the shared PolicyData on the context
    granted,    \* the backend's grant stands
    revokedAt,  \* when it was revoked
    ended,      \* ctx.Err() of the RPC
    badCred     \* the inbound credential could not be read (credErr)

gateVars == <<now, holder, checked, last, err, start, call, got>>
checkVars == <<answer, covered, question>>
opVars == <<op, held>>
flowVars == <<admitted, arrived, wire, delivered, told, late>>
rpcVars == <<phase, target, result, status>>
envVars == <<policy, granted, revokedAt, ended, badCred>>
vars == <<gateVars, checkVars, opVars, flowVars, rpcVars, envVars>>

Gate == INSTANCE StreamGate

Init ==
    /\ Gate!Init
    /\ answer = Pending
    /\ covered = TRUE
    /\ question = None
    /\ op = [w \in Workers |-> "idle"]
    /\ held = [w \in Workers |-> None]
    /\ admitted = {} /\ arrived = {} /\ wire = {} /\ delivered = {}
    /\ told = {}
    /\ late = {}
    /\ phase = "opening"
    /\ target = None
    /\ result = None
    /\ status = None
    /\ policy \in Targets
    /\ granted \in BOOLEAN
    /\ revokedAt = 0
    /\ ended = "live"
    /\ badCred \in BOOLEAN

-----------------------------------------------------------------------------
(* A check: gate.Check around verify.  The observer is called in it.       *)

\* Mutant: the check asks about the policy on the context, not its copy.
BeginCheckOnPolicy(c) ==
    /\ Gate!Begin(c)
    /\ answer' = IF c = Main /\ badCred THEN CredFailure ELSE Pending
    /\ covered' = granted
    /\ question' = policy
    /\ UNCHANGED <<opVars, flowVars, rpcVars, envVars>>

\* verify starts: a credential that could not be read refuses the opening
\* check, and otherwise the verifier is asked.
BeginCheck(c) ==
    /\ Gate!Begin(c)
    /\ answer' = IF c = Main /\ badCred THEN CredFailure ELSE Pending
    /\ covered' = granted
    /\ question' = target
    /\ UNCHANGED <<opVars, flowVars, rpcVars, envVars>>

\* The verifier answers: nil only for a grant that stood at some point of the
\* call, or any failure of its own.
VerifierAnswers ==
    /\ holder # NoOne
    /\ answer = Pending
    /\ answer' \in Failures \cup (IF covered THEN {None} ELSE {})
    /\ UNCHANGED <<gateVars, covered, question, opVars, flowVars, rpcVars, envVars>>

\* What passes with the call of c, the stream itself at the opening check: whether
\* on a check of its own, when the check it rests on began, and when it passes.
Passing(c) ==
    [message |-> IF c = Main THEN None ELSE held[c],
     own |-> call[c] = "run",
     began |-> IF call[c] = "run" THEN start ELSE last,
     at |-> now]

\* The gate lets the message of c through; the opening check carries none.
LetThrough(c) ==
    /\ admitted' = IF c = Main THEN admitted ELSE admitted \cup {held[c]}
    /\ late' = IF granted THEN late ELSE late \cup {Passing(c)}
    /\ UNCHANGED <<arrived, wire, delivered, told>>

\* The running check is over, its local variables gone.
CheckOver == answer' = Pending /\ covered' = TRUE /\ UNCHANGED question

\* The observer returns from the event of an allowed check.
CheckAllows(c) ==
    /\ answer = None
    /\ Gate!Allow(c)
    /\ LetThrough(c)
    /\ CheckOver
    /\ UNCHANGED <<opVars, rpcVars, envVars>>

\* The failure as the gate keeps it: a re-check maps it on the spot, with the
\* context as it then stands; the opening check hands it on as it is.
FailureOf(c, cause) ==
    [code |-> IF c = Main THEN None ELSE CodeOf(ended, cause), cause |-> cause]

\* The observer returns from the event of a failed check.
CheckFails(c) ==
    /\ answer \notin {None, Pending}
    /\ Gate!Fail(c, FailureOf(c, answer))
    /\ CheckOver
    /\ UNCHANGED <<opVars, flowVars, rpcVars, envVars>>

\* The verifier or the observer panics.
CheckPanics(c) ==
    /\ Gate!Abandon(c)
    /\ CheckOver
    /\ UNCHANGED <<opVars, flowVars, rpcVars, envVars>>

\* The gate skips the check.
CheckSkipped(c) ==
    /\ Gate!Skip(c)
    /\ LetThrough(c)
    /\ UNCHANGED <<checkVars, opVars, rpcVars, envVars>>

\* The gate answers with the failure it has, if any.
GateAnswers(c) ==
    /\ Gate!Refuse(c) \/ Gate!ReadErr(c)
    /\ UNCHANGED <<checkVars, opVars, flowVars, rpcVars, envVars>>

-----------------------------------------------------------------------------
(* SendMsg and RecvMsg, called by the handler and by goroutines it leaves  *)
(* behind.                                                                 *)

\* The handler was started: the opening check passed.  What it started may outlast it.
Handled == phase # "opening" /\ checked

\* Mutant: the failure is mapped whenever it is told.
GateErrorLate(e) == CodeOf(ended, IF e = Incomplete THEN {} ELSE e.cause)

\* The failure e of the gate as the caller is told it.
GateError(e) == IF e = Incomplete THEN CodeOf(ended, {}) ELSE e.code

\* How the RPC ends is settled when the gate tells the interceptor that the
\* stream has not failed: what a send or receive left behind does later is past
\* the end of the RPC, even just before the interceptor returns.
Outcome ==
    IF phase = "returned" /\ call[Main] = "done" /\ got[Main] = None
    THEN result ELSE status

\* A send asks the gate first.  A message is sent again only if it was refused:
\* this bounds the sends by Outgoing.
SendMsg(s, m) ==
    /\ Handled
    /\ op[s] = "idle"
    /\ m \notin admitted /\ \A t \in Senders : held[t] # m
    /\ Gate!Check(s)
    /\ op' = [op EXCEPT ![s] = "check"]
    /\ held' = [held EXCEPT ![s] = m]
    /\ UNCHANGED <<checkVars, flowVars, rpcVars, envVars>>

\* A receive asks only whether the stream has failed, and then waits for the
\* client.  The handler passes a fresh message to decode into.
RecvMsg(r) ==
    /\ Handled
    /\ op[r] = "idle"
    /\ Gate!Err(r)
    /\ op' = [op EXCEPT ![r] = "entry"]
    /\ held' = [held EXCEPT ![r] = None]
    /\ UNCHANGED <<checkVars, flowVars, rpcVars, envVars>>

\* Mutant: the transport is used with the gate's mutex held.
UseTransportLocked(w) ==
    /\ w \in Senders => op[w] = "check"
    /\ w \in Receivers => op[w] = "entry"
    /\ call[w] = "done" /\ got[w] = None
    /\ call' = [call EXCEPT ![w] = "idle"]
    /\ holder' = w
    /\ op' = [op EXCEPT ![w] = "transport"]
    /\ UNCHANGED <<now, checked, last, err, start, got>>
    /\ UNCHANGED <<checkVars, held, flowVars, rpcVars, envVars>>

\* The gate let the call on to the transport.
UseTransport(w) ==
    /\ w \in Senders => op[w] = "check"
    /\ w \in Receivers => op[w] = "entry"
    /\ call[w] = "done" /\ got[w] = None
    /\ Gate!Leave(w)
    /\ op' = [op EXCEPT ![w] = "transport"]
    /\ UNCHANGED <<checkVars, held, flowVars, rpcVars, envVars>>

\* The call returns to the handler with what held keeps.
Returns(w, m) ==
    /\ op' = [op EXCEPT ![w] = "idle"]
    /\ held' = [held EXCEPT ![w] = m]

\* The gate refused the call: it returns the failure, and a received message
\* is cleared.
OpRefused(w) ==
    /\ call[w] = "done" /\ got[w] # None
    /\ Gate!Leave(w)
    /\ Returns(w, None)
    /\ told' = IF Outcome = None THEN told \cup {GateError(got[w])} ELSE told
    /\ UNCHANGED <<checkVars, admitted, arrived, wire, delivered, late, rpcVars, envVars>>

\* Mutant: the message is cleared on a returned failure only.
OpPanicsUncleared(w) ==
    /\ call[w] = "panic"
    /\ Gate!Leave(w)
    /\ Returns(w, held[w])
    /\ UNCHANGED <<checkVars, flowVars, rpcVars, envVars>>

\* The panic of the check reaches the handler, which recovers it (HandlerPanics
\* is the other case).  The deferred clear has run by then.
OpPanics(w) ==
    /\ call[w] = "panic"
    /\ Gate!Leave(w)
    /\ Returns(w, None)
    /\ UNCHANGED <<checkVars, flowVars, rpcVars, envVars>>

\* The transport sends an admitted message, whatever happened meanwhile.
TransportSends(s) ==
    /\ op[s] = "transport"
    /\ wire' = wire \cup {held[s]}
    /\ Returns(s, None)
    /\ UNCHANGED <<gateVars, checkVars, admitted, arrived, delivered, told, late, rpcVars, envVars>>

\* A message of the client is decoded into the buffer, then checked.
TransportReceives(r, m) ==
    /\ op[r] = "transport"
    /\ m \notin arrived
    /\ arrived' = arrived \cup {m}
    /\ Gate!Check(r)
    /\ op' = [op EXCEPT ![r] = "check"]
    /\ held' = [held EXCEPT ![r] = m]
    /\ UNCHANGED <<checkVars, admitted, wire, delivered, told, late, rpcVars, envVars>>

\* The transport fails the call: the client closed its side, or the stream
\* broke.  A receive that fails has no message and is not checked.
TransportFails(w) ==
    /\ op[w] = "transport"
    /\ Returns(w, None)
    /\ UNCHANGED <<gateVars, checkVars, flowVars, rpcVars, envVars>>

\* The gate let the received message through: it is handed over.
RecvReturns(r) ==
    /\ op[r] = "check"
    /\ call[r] = "done" /\ got[r] = None
    /\ Gate!Leave(r)
    /\ Returns(r, held[r])
    /\ delivered' = delivered \cup {held[r]}
    /\ UNCHANGED <<checkVars, admitted, arrived, wire, told, late, rpcVars, envVars>>

-----------------------------------------------------------------------------
(* The interceptor.                                                        *)

\* The target is copied and the opening check entered.
OpenStream ==
    /\ phase = "opening"
    /\ target = None
    /\ target' = policy
    /\ Gate!Check(Main)
    /\ UNCHANGED <<checkVars, opVars, flowVars, phase, result, status, envVars>>

\* The opening check passed: the handler starts.
HandlerStarts ==
    /\ phase = "opening"
    /\ call[Main] = "done" /\ got[Main] = None
    /\ Gate!Leave(Main)
    /\ phase' = "serving"
    /\ UNCHANGED <<checkVars, opVars, flowVars, target, result, status, envVars>>

Ends(s) == phase' = "ended" /\ status' = s

\* The opening check failed, or its panic leaves the interceptor.
OpeningFails ==
    /\ phase = "opening"
    /\ \/ call[Main] = "done" /\ got[Main] # None /\ Ends(CodeOf(ended, got[Main].cause))
       \/ call[Main] = "panic" /\ Ends(Panicked)
    /\ Gate!Leave(Main)
    /\ UNCHANGED <<checkVars, opVars, flowVars, target, result, envVars>>

\* Mutant: the failure is read without the gate's mutex.
HandlerReturnsPeeking(r) ==
    /\ phase = "serving"
    /\ phase' = "returned"
    /\ result' = r
    /\ Gate!Answered(Main, err)
    /\ UNCHANGED <<now, holder, checked, last, err, start>>
    /\ UNCHANGED <<checkVars, opVars, flowVars, target, status, envVars>>

\* The handler returns r, perhaps leaving sends and receives behind, and the
\* interceptor asks the gate for the stream's failure.
HandlerReturns(r) ==
    /\ phase = "serving"
    /\ phase' = "returned"
    /\ result' = r
    /\ Gate!Err(Main)
    /\ UNCHANGED <<checkVars, opVars, flowVars, target, status, envVars>>

\* A panic of the handler, of its own or one it did not recover.
HandlerPanics ==
    /\ phase = "serving"
    /\ Ends(Panicked)
    /\ UNCHANGED <<gateVars, checkVars, opVars, flowVars, target, result, envVars>>

\* Mutant: the interceptor returns what the handler returned.
InterceptorReturnsResult ==
    /\ phase = "returned"
    /\ call[Main] = "done"
    /\ Gate!Leave(Main)
    /\ Ends(result)
    /\ UNCHANGED <<checkVars, opVars, flowVars, target, result, envVars>>

\* The interceptor returns the stream's failure, whatever the handler returned.
InterceptorReturns ==
    /\ phase = "returned"
    /\ call[Main] = "done"
    /\ Gate!Leave(Main)
    /\ Ends(IF got[Main] = None THEN result ELSE GateError(got[Main]))
    /\ UNCHANGED <<checkVars, opVars, flowVars, target, result, envVars>>

-----------------------------------------------------------------------------
(* The environment.                                                        *)

\* The grant is revoked, or the token expires.
Revoke ==
    /\ granted
    /\ granted' = FALSE
    /\ revokedAt' = now
    /\ UNCHANGED <<gateVars, checkVars, opVars, flowVars, rpcVars, policy, ended, badCred>>

\* The client cancels, the deadline passes, or the framework ends the context
\* of an RPC that is over.
ContextEnds(how) ==
    /\ ended = "live"
    /\ ended' = how
    /\ UNCHANGED <<gateVars, checkVars, opVars, flowVars, rpcVars, policy, granted, revokedAt, badCred>>

\* The handler or an inner interceptor writes to the policy it shares.
PolicyRewritten(t) ==
    /\ Handled
    /\ policy' = t
    /\ UNCHANGED <<gateVars, checkVars, opVars, flowVars, rpcVars, granted, revokedAt, ended, badCred>>

ClockTicks ==
    /\ Gate!Tick
    /\ UNCHANGED <<checkVars, opVars, flowVars, rpcVars, envVars>>

\* Everything is over; nothing has to happen any more.
Over ==
    /\ phase = "ended"
    /\ \A w \in Workers : op[w] = "idle"
    /\ UNCHANGED vars

-----------------------------------------------------------------------------
GateDecides(c) == BeginCheck(c) \/ CheckSkipped(c) \/ GateAnswers(c)

CheckEnds(c) == CheckAllows(c) \/ CheckFails(c) \/ CheckPanics(c)

OpGoesOn(w) ==
    \/ OpRefused(w)
    \/ OpPanics(w)
    \/ UseTransport(w)
    \/ w \in Receivers /\ RecvReturns(w)

MainGoesOn == OpenStream \/ HandlerStarts \/ OpeningFails \/ InterceptorReturns

Next ==
    \/ VerifierAnswers
    \/ \E c \in Callers : GateDecides(c) \/ CheckEnds(c)
    \/ \E w \in Workers : OpGoesOn(w) \/ TransportFails(w)
    \/ \E s \in Senders : TransportSends(s) \/ \E m \in Outgoing : SendMsg(s, m)
    \/ \E r \in Receivers : RecvMsg(r) \/ \E m \in Incoming : TransportReceives(r, m)
    \/ MainGoesOn
    \/ \E r \in Results : HandlerReturns(r)
    \/ HandlerPanics
    \/ Revoke
    \/ \E how \in {"canceled", "deadline"} : ContextEnds(how)
    \/ \E t \in Targets : PolicyRewritten(t)
    \/ ClockTicks
    \/ Over

Spec == Init /\ [][Next]_vars
(***************************************************************************)
(* Fairness.  A check is answered (an endpoint has a timeout) and its      *)
(* observer returns, the mutex starves nobody (see StreamGate), running    *)
(* code goes on, the framework ends the context of a finished RPC, and a   *)
(* transport call gives up once the context has ended.  The handler owes   *)
(* nothing, nor does the client: a receive may wait for ever.              *)
(***************************************************************************)
Fairness ==
    /\ WF_vars(VerifierAnswers)
    /\ \A c \in Callers : SF_vars(GateDecides(c)) /\ WF_vars(CheckEnds(c))
    /\ \A w \in Workers :
        /\ WF_vars(OpGoesOn(w))
        /\ WF_vars(ended # "live" /\ TransportFails(w))
    /\ WF_vars(MainGoesOn)
    /\ WF_vars(phase = "ended" /\ ContextEnds("canceled"))

FairSpec == Spec /\ Fairness

-----------------------------------------------------------------------------
TypeOK ==
    /\ Gate!TypeOK
    /\ answer \in Causes \cup {Pending, None}
    /\ covered \in BOOLEAN
    /\ question \in Targets \cup {None}
    /\ op \in [Workers -> {"idle", "entry", "check", "transport"}]
    /\ held \in [Workers -> Messages \cup {None}]
    /\ admitted \subseteq Messages
    /\ arrived \subseteq Incoming
    /\ wire \subseteq Outgoing
    /\ delivered \subseteq Incoming
    /\ told \subseteq Codes
    /\ late \subseteq [message : Messages \cup {None}, own : BOOLEAN,
                      began : 0 .. MaxTime, at : 0 .. MaxTime]
    /\ phase \in {"opening", "serving", "returned", "ended"}
    /\ target \in Targets \cup {None}
    /\ result \in Results \cup {None}
    /\ status \in Results \cup Codes \cup {Panicked, None}
    /\ policy \in Targets
    /\ granted \in BOOLEAN
    /\ revokedAt \in 0 .. MaxTime
    /\ ended \in Endings
    /\ badCred \in BOOLEAN

\* Whatever passes after a revocation rests on a check that had begun by then, and
\* passes less than an interval after the revocation - except for the one message
\* whose own check was under way, which passes whenever that check is answered.
\* Without an interval only that one passes (README: "a message sent or received
\* less than d after the last check began passes without one, and the first
\* message after that is checked").  Counted to the moment the gate decides.
RevocationBound ==
    /\ \A m \in late : m.began <= revokedAt
    /\ \A m \in late : ~m.own => m.at < revokedAt + Interval
    /\ \A m, n \in late : m.own /\ n.own => m = n

\* What the README concludes: "once a grant is revoked, a message can still pass
\* for up to d".  It leaves out how long the check of that message may take.
RevocationDelay == \A m \in late : m.message # None => m.at <= revokedAt + Interval

\* Every check of the stream asks about the target it opened for, whoever
\* writes to the policy on the context meanwhile.
SameTarget == question \in {None, target}

\* Once a receive is over, the handler's buffer holds a message only if the
\* gate let that message through: one that was refused, or whose check
\* panicked, is cleared even if the handler goes on.
ClearedUnlessAllowed ==
    \A r \in Receivers : op[r] = "idle" /\ held[r] # None => held[r] \in admitted

\* All sends and receives that fail by the gate fail with one and the same
\* code, however the context changes between them.
OneRefusal == \A a, b \in told : a = b

\* Once a send or a receive was refused, the RPC ends with that refusal,
\* whatever the handler returns; only a panic ends it otherwise.
RefusalEndsRPC ==
    [][Outcome = None /\ Outcome' # None /\ told # {}
        => Outcome' \in told \cup {Panicked}]_vars

\* The gate of the stream is used as StreamGate says, so what holds of a gate
\* holds of the stream's.
GateSpec == Gate!Spec

(***************************************************************************)
(* The stream as its handler and its client see it.  A check that is still *)
(* running has not failed; a failure left by the opening check is told as  *)
(* the interceptor told it.                                                *)
(***************************************************************************)
Life ==
    CASE phase = "opening" -> "opening"
      [] phase # "opening" /\ Gate!Closed -> "closed"
      [] OTHER -> "open"

Reason ==
    IF Life # "closed" THEN None
    ELSE IF ~checked /\ err # Incomplete THEN status
    ELSE GateError(err)

Promise == INSTANCE StreamPromise WITH
    Reasons <- Codes,
    life <- Life,
    reason <- Reason,
    out <- wire \cup delivered,
    outcome <- Outcome

\* The stream keeps the README's promises: nothing before the opening check
\* passed, only admitted messages handed over, none admitted after the first
\* failure, and the RPC ended with that failure.
KeepsPromise == Promise!Spec

\* Every call on the gate is decided: a receive that waits for the client does
\* not hold up the sends, nor does anything else for ever.
GateNeverStalls ==
    \A c \in Callers : call[c] \in {"check", "err"} ~> call[c] \notin {"check", "err"}

\* Once the handler has returned, the RPC ends, though the interceptor waits
\* for a check still running in a send or receive the handler left behind.
ReturnEndsRPC == phase = "returned" ~> phase = "ended"

=============================================================================
