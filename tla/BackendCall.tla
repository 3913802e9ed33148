---------------------------- MODULE BackendCall -----------------------------
(***************************************************************************)
(* One Verify of an HTTP endpoint: o3co (endpoint/o3co.go), OPA            *)
(* (endpoint/opa.go) or Cedar (endpoint/cedar.go), over endpoint/http.go,  *)
(* up to the code its interceptor tells the RPC caller.                    *)
(*                                                                         *)
(* The backend answers what and when it likes, or breaks off; the client's *)
(* own timeout and the end of the caller's context may come at any moment. *)
(* A body is counted in bytes, so that the bound on it bites where the     *)
(* code's does; what it says, whole or cut, is abstract.                   *)
(***************************************************************************)
EXTENDS ErrorMapping, Decision

CONSTANTS
    Endpoints,  \* "o3co", "opa", "cedar"
    Bodies,     \* the bodies a backend may send, by endpoint
    Statuses,   \* the statuses it may answer with
    Bounds,     \* values of maxResponseBodySize
    MaxInt,     \* math.MaxInt64, and more than any body is long
    NotObject,  \* what no JSON object can be read from
    Allow, Pending

\* content is what decodeObject reads from the whole body, prefix from a part.
Contents == RawObject
    \cup [result : {"true", "false", "absent", "other"}]    \* OPA's
    \cup [decision : {"Allow", "other"}]                    \* Cedar's
    \cup {NotObject}
Body == [length : Nat, content : Contents, prefix : Contents]

ASSUME BodiesAssumption ==
    /\ Endpoints \subseteq {"o3co", "opa", "cedar"}
    /\ MaxInt \in Nat
    /\ \A e \in Endpoints : Bodies[e] \subseteq Body /\ \A b \in Bodies[e] :
        b.length <= MaxInt /\ (b.length = 0 => b.content = NotObject)
    /\ Bounds \subseteq 1 .. MaxInt
    /\ Statuses \subseteq 100 .. 599
ASSUME ResultsAssumption ==
    /\ \A kinds \in SUBSET KindSet : kinds \notin {Allow, Pending}
    /\ Allow # Pending
    /\ {Allow, Pending} \cap Codes = {}
    /\ \A e \in Endpoints : Pending \notin Bodies[e]

\* The endpoint's timeout, another failure that retrying may change, one it does not.
Failures == {"timeout", "for now", "for good"}

VARIABLES
    endpoint, confirm, bound,   \* the endpoint, fixed
    identified, \* the request has a token, and Cedar's resolver a principal
    ended,      \* the caller's ctx.Err()
    stage,
    status, body,   \* the backend's answer, once its header is in
    data,       \* bytes of it read
    broken,     \* how sending or reading failed: one of Failures, or "no"
    result,     \* what Verify returned: Allow or the kinds of its error
    left,       \* ended when Verify returned
    told        \* the code told of the error

config == <<endpoint, confirm, bound, identified>>
answer == <<status, body, data, broken>>
outcome == <<result, left, told>>
vars == <<config, ended, stage, answer, outcome>>

Init ==
    /\ endpoint \in Endpoints
    /\ confirm \in IF endpoint = "o3co" THEN BOOLEAN ELSE {FALSE}
    /\ bound \in Bounds
    /\ identified \in BOOLEAN
    /\ ended = "live"
    /\ stage = "new"
    /\ status = 0 /\ body = Pending /\ data = 0 /\ broken = "no"
    /\ result = Pending /\ left = "live" /\ told = Pending

-----------------------------------------------------------------------------
(* What the endpoints make of an answer.                                   *)

Success == status \in 200 .. 299

\* Mutant: a longer body looks like one at the bound.
LimitAtBound == bound

\* readBounded: one byte past the bound tells a longer body from one at it.
Limit == IF bound < MaxInt THEN bound + 1 ELSE bound
Oversized == data > bound

\* What decodeObject finds in what was read, within the bound; a body that was
\* not read to its end is dropped.
Object ==
    IF broken # "no" THEN NotObject
    ELSE IF data = body.length /\ ~Oversized THEN body.content
    ELSE body.prefix

\* Mutant: it wraps the error, and an expired timeout is context.DeadlineExceeded.
RequestErrorWraps ==
    IF ended # "live" THEN {ended}
    ELSE IF broken = "timeout" THEN {"unavailable", "deadline"}
    ELSE IF broken = "for now" THEN {"unavailable"} ELSE {}

\* requestError: the caller's context first; never the error's own context.
RequestError == IF ended # "live" THEN {ended}
                ELSE IF broken # "for good" THEN {"unavailable"} ELSE {}

\* statusError: the backend is overloaded or down.
StatusError == IF status \in {429, 502, 503, 504} THEN {"unavailable"} ELSE {}

\* The envelope parseEnvelope accepts, for the status it came with.
WholeEnvelope ==
    /\ ~Oversized /\ Object # NotObject
    /\ IF Success \/ status = 403 THEN ReadableDecision(Object) ELSE ReadableError(Object)

\* acceptAllow.
AcceptAllow ==
    /\ status = 200 /\ WholeEnvelope /\ Object.decision = "allow"
    /\ confirm => RevisionConfirmed(Object.groups)

\* Mutant: a body that cannot be read fails the call whatever the status.
O3coReadsFirst ==
    IF broken # "no" THEN RequestError
    ELSE IF Success THEN IF AcceptAllow THEN Allow ELSE {}
    ELSE IF status = 403 THEN {"denied"}
    ELSE IF status = 401 THEN {"unauthenticated"}
    ELSE StatusError

\* Verify of each endpoint, from the status on.
O3co ==
    IF Success THEN IF broken # "no" THEN RequestError
                    ELSE IF AcceptAllow THEN Allow ELSE {}
    ELSE IF status = 403 THEN {"denied"}
    ELSE IF status = 401
         THEN IF WholeEnvelope /\ Object.refusal = "caller_unauthenticated"
              THEN {} ELSE {"unauthenticated"}
    ELSE StatusError

\* Mutant: what was read within the bound is the answer.
DataUpToBound(allows, unreadable) ==
    IF ~Success THEN StatusError
    ELSE IF broken # "no" THEN RequestError
    ELSE IF Object = NotObject \/ unreadable THEN {}
    ELSE IF allows THEN Allow ELSE {"denied"}

\* OPA and Cedar differ in what allows and what is no answer.
Data(allows, unreadable) ==
    IF ~Success THEN StatusError
    ELSE IF broken # "no" THEN RequestError
    ELSE IF Oversized \/ Object = NotObject \/ unreadable THEN {}
    ELSE IF allows THEN Allow ELSE {"denied"}
OPA == Data(Object.result = "true", Object.result = "other")
Cedar == Data(Object.decision = "Allow", FALSE)

Verdict == CASE endpoint = "o3co" -> O3co [] endpoint = "opa" -> OPA [] OTHER -> Cedar

-----------------------------------------------------------------------------
Return(r) ==
    /\ stage' = "returned"
    /\ result' = r
    /\ left' = ended
    /\ UNCHANGED told

\* Without a token, or a principal, the backend is not asked; nor when a field
\* extracted for o3co or OPA has no JSON.
Begin ==
    /\ stage = "new"
    /\ \/ identified /\ stage' = "sending" /\ UNCHANGED outcome
       \/ ~identified /\ Return({"unauthenticated"})
       \/ identified /\ endpoint # "cedar" /\ Return({})
    /\ UNCHANGED <<config, ended, answer>>

\* Mutant: the timeout covers the answer's header only.
BreaksUnlessReading(how) ==
    /\ stage = "sending" \/ (stage = "reading" /\ how # "timeout")
    /\ broken' = how
    /\ stage' = IF stage = "sending" THEN "unsent" ELSE "read"
    /\ UNCHANGED <<config, ended, status, body, data, outcome>>

\* The connection fails, the endpoint's timeout expires, or the context ends
\* it; the last byte read may come with the error.
Breaks(how) ==
    /\ stage \in {"sending", "reading"}
    /\ broken' = how
    /\ stage' = IF stage = "sending" THEN "unsent" ELSE "read"
    /\ UNCHANGED <<config, ended, status, body, data, outcome>>

\* Do returned an error.
Unsent ==
    /\ stage = "unsent"
    /\ Return(RequestError)
    /\ UNCHANGED <<config, ended, answer>>

\* Do returned an answer, whose body is still to come.
Responds(s, b) ==
    /\ stage = "sending"
    /\ stage' = "reading" /\ status' = s /\ body' = b
    /\ UNCHANGED <<config, ended, data, broken, outcome>>

\* Mutant: the bound is not on what is read.
ReadByteUnbounded ==
    /\ stage = "reading"
    /\ data < body.length
    /\ data' = data + 1
    /\ UNCHANGED <<config, ended, stage, status, body, broken, outcome>>

ReadByte ==
    /\ stage = "reading"
    /\ data < body.length /\ data < Limit
    /\ data' = data + 1
    /\ UNCHANGED <<config, ended, stage, status, body, broken, outcome>>

\* readBounded has read the body, or the most it reads.
ReadEnds ==
    /\ stage = "reading"
    /\ data = body.length \/ data = Limit
    /\ stage' = "read"
    /\ UNCHANGED <<config, ended, answer, outcome>>

\* A read that failed asks the context first, whatever the status says.
AsksContext ==
    /\ stage = "read"
    /\ IF broken # "no" /\ ended # "live" THEN Return(RequestError)
       ELSE stage' = "evaluate" /\ UNCHANGED outcome
    /\ UNCHANGED <<config, ended, answer>>

Evaluates ==
    /\ stage = "evaluate"
    /\ Return(Verdict)
    /\ UNCHANGED <<config, ended, answer>>

\* The interceptor maps the error.
Tell ==
    /\ stage = "returned" /\ result # Allow
    /\ stage' = "told" /\ told' = CodeOf(ended, result)
    /\ UNCHANGED <<config, ended, answer, result, left>>

ContextEnds(how) ==
    /\ stage # "told" /\ ended = "live"
    /\ ended' = how
    /\ UNCHANGED <<config, stage, answer, outcome>>

Over ==
    /\ stage = "told" \/ result = Allow
    /\ UNCHANGED vars

\* The endpoint's own code.
Runs ==
    \/ Begin \/ Unsent \/ ReadEnds \/ AsksContext \/ Evaluates \/ Tell

Next ==
    \/ Runs \/ Over
    \/ \E how \in Failures : Breaks(how)
    \/ \E s \in Statuses, b \in Bodies[endpoint] : Responds(s, b)
    \/ ReadByte
    \/ \E how \in {"canceled", "deadline"} : ContextEnds(how)

Spec == Init /\ [][Next]_vars

\* The client's timeout is positive. The backend owes nothing.
FairSpec == Spec /\ WF_vars(Runs) /\ WF_vars(Breaks("timeout"))

-----------------------------------------------------------------------------
TypeOK ==
    /\ endpoint \in Endpoints /\ confirm \in BOOLEAN /\ bound \in Bounds /\ identified \in BOOLEAN
    /\ ended \in Endings /\ left \in Endings
    /\ stage \in {"new", "sending", "unsent", "reading", "read", "evaluate", "returned", "told"}
    /\ status \in Statuses \cup {0}
    /\ body \in Bodies[endpoint] \cup {Pending}
    /\ data \in 0 .. Limit
    /\ broken \in Failures \cup {"no"}
    /\ result \in {Allow, Pending} \/ result \in SUBSET KindSet
    /\ told \in Codes \cup {Pending}

\* The body arrived to its end and within the bound.
ReadWhole == broken = "no" /\ body # Pending /\ data = body.length /\ data <= bound

\* What the backend's whole answer says in its own protocol.
SaysAllow ==
    /\ body.content # NotObject
    /\ CASE endpoint = "o3co" ->
                /\ status = 200 /\ body.content.decision = "allow"
                /\ ReadableDecision(body.content)
         [] endpoint = "opa" -> Success /\ body.content.result = "true"
         [] OTHER -> Success /\ body.content.decision = "Allow"

\* Only a whole answer that says so allows, however the body is cut, broken off
\* or too long and whatever the part that arrived would say; and where
\* confirmation is required, only one that some group granted and every group
\* that granted confirmed ("past the size bound, cut off while reading or a
\* whole deny, is an error, never an allow").
OnlyWholeAllows ==
    result = Allow =>
        /\ identified /\ ReadWhole /\ SaysAllow
        /\ confirm =>
            LET granting == {i \in DOMAIN body.content.groups :
                                body.content.groups[i].restricts # "true"}
            IN  /\ granting # {}
                /\ \A i \in granting : Confirmed(body.content.groups[i].satisfiedBy)

\* Nobody is denied by an answer that was not whole: a denial is OPA's or the
\* Cedar agent's whole answer, or o3co's 403 ("an answer cut off is no answer").
DenialIsAnswered ==
    result # Allow /\ result # Pending /\ "denied" \in result =>
        IF endpoint = "o3co" THEN status = 403
        ELSE Success /\ ReadWhole /\ body.content # NotObject /\ ~SaysAllow

\* The caller is told that it canceled the RPC or let its deadline pass only if
\* it had before Verify returned: the endpoint's own timeout is never taken for
\* the caller's, though both end before the error is mapped.
EndingIsTheCallers ==
    /\ told = "Canceled" => left = "canceled"
    /\ told = "DeadlineExceeded" => left = "deadline"

\* A 403 is a denial whatever its body holds and however reading it fails,
\* unless the caller itself ended the call before Verify returned.
DenialStands ==
    endpoint = "o3co" /\ stage = "told" /\ status = 403 /\ left = "live" =>
        told = "PermissionDenied"

\* A call ends, though the backend stalls in the middle of its answer.
CallReturns == stage = "sending" ~> stage \in {"returned", "told"}
=============================================================================
