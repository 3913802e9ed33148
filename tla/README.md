# Verification of protobuf.interceptors

TLA+ models of the authorization interceptors in this repository, TLC runs that
check them on small instances, and TLAPS proofs for every value of the
constants.

Run in this directory:

    tlc -config AuthStream.cfg MCAuthStream     # any run of PROJECT.json
    tlapm StreamGateProofs.tla                  # the proofs, in this order:
    tlapm AuthStreamProofs.tla                  # each cites the one before
    tlapm InterceptorChainProofs.tla
    tlapm BackendCallProofs.tla
    tlapm ReachProofs.tla
    tlapm TextTheorems.tla
    tlapm EndpointProofs.tla
    tlapm ResolutionProofs.tla

## The system

A *policy interceptor* reads the policy option of an RPC's method, resolves the
resource and action it names and puts them on the context. A *verification
interceptor* inside it asks a *verifier endpoint* whether the caller may do that,
and refuses the RPC otherwise. Both exist for gRPC and for ConnectRPC, for unary
RPCs and for streams. A stream is authorized before its handler runs and checked
again around each of its messages.

| Component (source) | State it keeps | Operations | What makes it correct |
|---|---|---|---|
| Stream gate (`internal/streamcheck`) | mutex, `checked`, `last`, `err` | `Check`, `Err` | first failure final; checks spaced by the interval; a panic closes it and frees the mutex |
| Stream verification (`grpc/stream_interceptor.go`, `connectrpc/interceptor.go`) | the gate, the target copied at the start, the handler's goroutines in `SendMsg`/`RecvMsg` | open, send, receive, return | nothing before the opening check; refused messages never sent, cleared when received; one refusal, which ends the RPC; bounded delay after a revocation |
| Error mapping (`grpc/errors.go`, `connectrpc/errors.go`) | none | error and context to code | a denial is a denial first; a context code only when the RPC's own context ended |
| Interceptor chain (`grpc/interceptor.go`, `grpc/lookup.go`, `connectrpc/interceptor.go`, `context.go`, `internal/methodset`) | context values, method cache | lookup, guard, require-policy, unary check | no handler without a check unless the method declares no policy (and is exempt where one is required) |
| Inbound values (`request.go`) | none | bearer token, request ID | a malformed credential is a refusal, never an anonymous request; the request ID is the caller's only if well formed |
| Resolution (`resolve.go`) | the values read, the text written | read mappings, fill placeholders | a request value fills one segment and never names another resource; a mapping that cannot work is no denial |
| Decisions (`decision.go`) | none | `RevisionConfirmed` | only an allow every granting group confirms |
| Endpoints (`endpoint/o3co*.go`, `opa.go`, `cedar.go`, `http.go`) | options, HTTP client; one `sync.Once` | construct, `Verify` | only a whole answer allows; the caller's cancellation is told apart from the endpoint's timeout; the backend is asked about the caller's own credential |
| Static endpoint (`endpoint/static.go`) | its rules | construct, `Verify` | decides by the rules it was given |
| Reach rules (`endpoint/http.go`) | listed hosts and ports, the transport, its connections | which base URLs an endpoint accepts, how it connects | plain HTTP only where listed or permitted, and if listed only to private addresses |
| Private dialer (`internal/privatenet`) | deadline | resolve, check, dial | connects only to an address it checked; every address gets a share of the time |

They interact by calls and by values on the context: policy interceptor →
verification interceptor → endpoint → dialer. Shared state between goroutines is
the stream's gate (mutex), the gRPC method cache (`sync.Map`), and the policy on
the context, a pointer the handler can write through.

What is hard about the code is in the list `hazards` of PROJECT.json, each at its
line with the properties that catch it. In short: a stream's sends, receives
and the returning interceptor interleave around one gate; checks are slow, fail,
or panic in the middle; the context can end and the grant be revoked between any
two steps; and the handler may ignore every refusal.

## Modules

| Module | Models | Role |
|---|---|---|
| `StreamGate` | `streamcheck.Gate` | component; actions take the calling goroutine |
| `StreamGateProofs` | | inductive invariant and theorems about `StreamGate` |
| `ErrorMapping` | `toGRPCError`, `toConnectError` | operators |
| `AuthStream` | the stream verification interceptor with its wrapped stream | composes `StreamGate` and `ErrorMapping` |
| `AuthStreamProofs` | | inductive invariant of `AuthStream`, the safety it implies, and that it implements `StreamGate` and `StreamPromise` |
| `InterceptorChain` | policy and verification interceptors of both frameworks, in any order, with the method cache | component; RPCs run concurrently |
| `InterceptorChainProofs` | | inductive invariant of `InterceptorChain` and the safety it implies |
| `Decision` | an o3co answer's envelope, `RevisionConfirmed` | operators |
| `BackendCall` | one `Verify` of the o3co, OPA or Cedar endpoint | component; extends `Decision` and `ErrorMapping` |
| `BackendCallProofs` | | inductive invariant of `BackendCall` and the safety it implies |
| `PrivateNet` | `privatenet.Contains`, the forms of an address | operators |
| `PrivateDial` | one `Dialer.DialContext` | component; extends `PrivateNet` |
| `PlainReach` | an HTTP endpoint's reach options, its constructor and connections | component; extends `PrivateNet` |
| `Resolution` | `ResolveResourceWithFields` | component |
| `EndpointRequest` | an endpoint's options, the inbound values, the request it sends | component |
| `StaticRules` | the static endpoint and the caller that owns its rules | component |
| `ReachProofs` | | inductive invariants of `PrivateDial` and `PlainReach` and the safety they imply |
| `TextTheorems` | | sequences that are written piece by piece and read back; induction without an induction theorem |
| `EndpointProofs` | | inductive invariants of `EndpointRequest` and `StaticRules` and the safety they imply |
| `ResolutionProofs` | | inductive invariant of `Resolution` and the safety it implies |
| `StreamPromise` | the README's "Streaming" section | abstract specification that `AuthStream` implements |
| `MC`... | | the instance of each component for TLC |

Some definitions are followed or preceded by variants marked *Mutant* in their comment: plausible
bugs, used to see that the properties notice them. No specification uses them.

### StreamGate

`holder` is `g.mu`; `checked`, `last`, `err` are the gate's fields, `start` the
local of the `Check` that last ran its function. `call[c]` says where goroutine `c` is. A
`Check` that refuses or skips takes and frees the mutex without calling out, so
it is one step (`Refuse`, `Skip`); one that runs the check function is two,
`Begin` and one of `Allow`, `Fail` and `Abandon` (a panic or `Goexit`), and anything the mutex
does not prevent happens between them. `Err` waits for the mutex too (`ReadErr`).
The clock `now` moves at any time, also while the mutex is held.

### AuthStream

The gate is an instance, and every action of the stream is an action of the gate joined
with what the stream does around it. `Main` is the goroutine of the RPC:
`OpenStream` copies the target and enters the gate, `HandlerStarts` or
`OpeningFails` follows, and after `HandlerReturns` the interceptor asks
`gate.Err` and ends (`InterceptorReturns`). Senders and receivers are goroutines of the
handler in `SendMsg` and `RecvMsg`; `op` is where they are, `held` the message a send
carries or the receiver's buffer. A running check is `verify`: `BeginCheck` asks
the verifier, `VerifierAnswers` gives its answer, and the check ends when the
observer returns (`CheckAllows`, `CheckFails`) or when either panics
(`CheckPanics`). A nil answer is possible only if the grant stood at some point of the call;
an error always is.

The two frameworks' code is the same statement by statement, so one module models both;
the map names gRPC's lines for most definitions and ConnectRPC's for some.

The environment revokes the grant, ends the context, rewrites the shared policy, and
lets the transport fail; the handler may return or panic at any time with sends and
receives still running, and what it leaves behind may begin new ones (`Handled`) even when
the RPC is over.

`admitted`, `told` and `late` record what happened, for the properties. `late` has everything
the gate let through once the grant was revoked: the message, whether it passed on a check
of its own, when the check it rests on began, and when it passed (`Passing`). `RevocationBound`
says what of that there can be. A message passes without a check for less than the interval after the revocation. A check that
begins after the revocation allows nothing; but the one that had begun by then may have been allowed by the backend
already, and its message passes whenever the gate learns of it. The repository's README promises less than
that exception takes: see the finding below.

### InterceptorChain

A chain is a sequence of interceptors, each a policy or a verification interceptor with its
`WithRequirePolicy` calls (`exempt`), and an RPC is at position `pos` of it, in `stage`: about to
enter that interceptor, in a lookup, asking the verifier, handing the check to the
observer, in the handler past the last one, or over. `ctx` is the context the RPC is handed on with:
the mark of a policy interceptor, the resolved policy, and whether there is a bearer token.
The mark of any earlier policy interceptor counts, not only of the one next to it, as in the code.

A gRPC policy interceptor looks in its `cache` (`CacheHits`, `CacheMisses`); on a miss, the look for the
descriptor (`LookupEnds`) and the store of what it found (`LookupStores`) are steps of their own, so lookups of one method
interleave and descriptors may be registered in between (`Register`). ConnectRPC reads the descriptor the handler was built with
(`PolicyOfSpec`). What a policy resolves to for a request is the constant `Resolve`: a target,
`Unsafe` (a denial) or `Broken` (an error of ours); `ApplyPolicy` is what the interceptor makes of it.
A verification interceptor refuses without the mark (`GuardRefuses`), admits or refuses a
method without a policy (`Unannotated`), or checks (`Ask`, `Answers`, `ObserverReturns`, and
`CheckPanics`). For a stream this is the opening check; what follows is `AuthStream`.

`asked`, `granted` and `observed` record what happened, for the properties. `ObserverSeesAll` has the observer called for every
check: before the handler runs for those that were allowed, and before the RPC ends for the one that was refused, failed, or
was not made because the credential could not be read (`RefusedByCheck`).

### StreamPromise

A stream opens, admits messages while open, hands over only admitted ones, and
closes for one reason, which is then how the RPC ends. The refinement mapping
(`Life`, `Reason`, `Outcome` in `AuthStream`) reads the gate: closed is a failure
with the mutex free, so a check that is still running has not failed.

`Outcome` is settled when the gate answers the interceptor's `Err` with no
failure, not when the interceptor returns: between the two, a send or receive
left running by the handler can still fail a check and close the gate, and
the RPC then ends with the handler's result though the stream is closed. The model
has this interleaving (TLC found it as a counterexample to a mapping by `status`); it needs a handler that returns before
its goroutines do, and nothing is admitted by it.

### BackendCall

One call, in `stage`: `Begin` refuses without a token (or Cedar's principal) or sends; the backend
`Responds` with any of its statuses and bodies at any time; `ReadByte` reads up to `Limit`, and
`ReadEnds` when the body or the limit does; `AsksContext` is the look at the context after a read
that failed; `Evaluates` returns the `Verdict` of the endpoint; `Tell` is the interceptor's error
mapping. At any moment sending or reading `Breaks` (the client's timeout, a
failure that is the backend's, one that is configuration) and the caller's context ends
(`ContextEnds`); the code asks `ctx.Err()` again each time, so where it does is a step of its own.

A body is its length in bytes, what `decodeObject` reads from it whole (`content`), and what it
would read from the part within the bound (`prefix`), which may be a whole allow: that is why a body past the bound
must not be read. `Limit` is `max + 1` except at `math.MaxInt64`, which `MaxInt` stands for.
An o3co content is what `o3co_decision.go` tells apart (`Decision`); keys whose type alone is checked are one
Boolean, `typed`, and a second group of a reason is enough for a restriction beside a grant.
`left` remembers how the caller's context stood when `Verify` returned, for the properties.

### PrivateDial

One dial, in `stage`: `Start` makes the context with its `Deadline`, the sooner of the caller's
and the dialer's timeout; the resolver `LookupAnswers` or `LookupFails`; `Check` judges every address;
then one `BeginAttempt` after the other, each with the end `AttemptUntil` gives it, which `Connects` or
fails (`AttemptFails`), and `GoOn` asks the context before the next. `tried` is every attempt with what it was given. An
address is a number in a form (`PrivateNet`): IPv4, IPv6 or mapped, zoned or not, because what is judged, what
is dialed and what is connected to differ in just that. Time is whole ticks and passes only while the
dialer waits: its own code between two waits takes none. `Cancel` comes at any moment.

### PlainReach

`ApplyOption` and `Construct` are `reachConfig`, and `Connect`, `Close` and `Send` the client
that follows: a connection is made to an address of some new answer of the resolver, is kept in the
`pool`, and carries requests. A request may be answered with a redirect (`Redirect`, which sets `location`); `CheckRedirect` makes it
the answer, where `http.Client` of itself would send the request again to that place. A host is an address or a name in a spelling: lower or upper case, with a trailing dot, not
ASCII, or no host name, because `Canonical`, `Nameable` and `IsLoopback` each treat them differently.
Ports are as written. The dialer is what `PrivateDial` shows of it: every address found is private, or there is no connection. The
default and a caller's transport may connect anywhere.

### Resolution

`ReadMapping` walks the path of one mapping in the type (`PathExists`, over `TypesOn`) and then in the request
(`Extract`, over `ValuesOn`); `Fill` finds the next placeholder as `substituteResource` does, the first `>` after a `<` and the nearest `<` before it,
checks the value and writes it; `WriteRest` ends. A template is a sequence of characters, since where a
placeholder begins is what can go wrong. The properties compare with what resolution promises without its steps:
`Placeholders`, `Pieces` and `Filled` for the resource, `Outcome` for whether there is one. `KeepsStructure` has each placeholder filled
with something and no separator added, and `DenialIsOfTheRequest` has a denial only on paths that are the type's and end in a single scalar, as
a reader would say it and not as `PathExists` walks it.

### EndpointRequest

`MakeOptions` is the panic of an option that cannot be made, `ApplyOption` one option after the other,
`Construct` the checks of the constructor; `Receive` reads an RPC's credential and ID; `AddStatic`, `SetOwn` and `SetRequestID` write the
headers in the order of the code, each over what is there. A header name is its canonical form and
how it is written; `Merged` has the entries of one option in any order, as Go's maps do. `Body` and `Escaped` are
the bodies of the three backends and the entity UIDs of Cedar. A Go string may hold bytes that are no UTF-8, and both `range` with
`WriteRune` and `json.Marshal` write U+FFFD for each (`Rune`, `Runes`): a body has its texts as they read, and two principals
that differ in such bytes only have one entity UID. `NamesOneEntity` says so openly: a UID tells principals apart by what they read as.
An RPC whose credential cannot be read ends `unreadable`, one that the endpoint has no token or principal for `unasked`; `SubjectsOwnCredential`
has the first never taken for the second. `BackendCall` goes on from there.

### StaticRules

`NewStaticEndpoint` copies the slice, and `CallerWrites` rewrites it at any time, between two `TryRule` of a `Verify` too.
Its specification is `StaticSpec`, and that of `PlainReach` is `ReachSpec`, so that one module of proofs extends two components.

## Runs

| Run | Instance | Shows |
|---|---|---|
| `gate` | 3 callers, interval 2, clock to 5, 2 failures | `FirstFailureIsFinal`, `ChecksAreSpaced`, `PassesAreCovered`, `IncompleteIsReal` |
| `stream` | 1 sender with 1 message, 1 receiver with 2, interval 2, clock to 3 | `RevocationBound`, `ClearedUnlessAllowed`, and the refinements `GateSpec` and `KeepsPromise` |
| `stream_errors` | interval 0, 1 message each way, 2 targets, a cancellation and a timeout that is also unavailability; with fairness | `SameTarget`, `OneRefusal`, `RefusalEndsRPC`, `GateNeverStalls`, `ReturnEndsRPC` |
| `revocation_delay` | 1 sender with 1 message, interval 1, clock to 3 | that `RevocationDelay`, the README's bound, is violated |
| `chain` | 1 RPC, 8 chains right and wrong, both frameworks, 3 methods, 2 requests | `NoUncheckedHandler`, `ObserverSeesAll`, `NeverAnonymous` |
| `chain_cache` | 2 RPCs through one gRPC chain, descriptors arriving | `CacheIsFaithful`, `FoundIsNotRefused` |
| `backend` | each endpoint, 6 statuses, bodies of 0 to 3 bytes, bounds 1 and 3 | `TypeOK`, `OnlyWholeAllows`, `DenialIsAnswered`, `EndingIsTheCallers`, `DenialStands`, `CallReturns` |
| `dial` | 7 addresses, answers of up to 3, two timeouts, three deadlines | `OnlyCheckedAddresses`, `EachHasItsShare`, `BoundedByItsContext`, `DialReturns` |
| `resolve` | every template of up to 6 characters; 275 policies with right and wrong mappings, 30 requests | `FilledOnce`, `KeepsStructure`, `NamesOneResource`, `DenialIsOfTheRequest`, `FirstTroubleDecides` |
| `reach` | lists of up to 3 options, 75 URLs, 5 answers, redirects | `PlaintextIsPermitted`, `ListedIsPrivate` |
| `request` | lists of up to 3 options; credentials of up to 4 words; texts with bytes that are no UTF-8 | `SubjectsOwnCredential`, `StaticHeadersArrive`, `RequestIDJoins`, `NamesOneEntity` |
| `static` | up to 2 rules, rewritten at any time; 1 `Verify` at a time | `DecidesByGivenRules` |

The refinements imply that a stream's gate has the properties of `gate`. No run of `gate` is about liveness:
`stream_errors` has the same mutex with what the stream does around it.

`revocation_delay` is the one run that ends in a violation. The repository's README.md:941 concludes from the interval that "once a grant is
revoked, a message can still pass for up to `d`", and README.md:983 says it again. The gate (`streamcheck.go:74-86`) counts the
interval from the begin of a check and then waits for that check. If the backend has answered and the grant is revoked before the answer
is read and observed, the message of that check passes when they are, up to the endpoint's timeout later, whatever `d` is and without
one too. In the run a check begins at 1, the grant is revoked at 1, and the message passes at 3, with an interval of 1.
It is one message at most, since the next check begins after the revocation (`RevocationBound`).

Why the bounds are enough. RPCs of one chain share nothing but its caches, so two that race for one
method are all that differs from one alone; the chains have each order of two interceptors, two of a kind on
either side, and each form of `WithRequirePolicy`; the methods declare no policy, a
fixed one, and one that resolves for one request and not for another. gRPC allows one `SendMsg` and one `RecvMsg` at a time, so
one sender, one receiver and the interceptor are all the callers a stream has;
three interchangeable callers stand for them in `gate`. A clock of 3 with an
interval of 2 has a check that begins at 0, lasts into the interval or past the revocation, and a message
one tick before, at and after the boundary. Two
messages in one direction give a message decided after another was refused or skipped; the handler
may retry a refused send for ever, and a receive may fail for ever. Bodies of up to three bytes
against a bound of one and of three end before, at, one past and two past it, and break off at each byte; a bound of three is also
`MaxInt`. The statuses are one of each kind the code tells apart, and every shape of answer the readers
accept or refuse is a body. 

Two addresses of every kind, and three of the kinds that pass, give an attempt with one, two and three addresses left;
the timeouts (5, and 7 by default) divide into shares above, at and below the least attempt of 2, and the caller's
deadline is past, sooner than the timeout, or none. Six characters hold two placeholders next to each other, one in another's
brackets, and a separator between them; a mapping's path is right, unknown, through a field that is no message, of a list, an enum
or a message, or leads through one that is unset. A list of three options has each option before and after each other, and
twice. Four words are a scheme, a space, a token and one more of anything. A pattern of three characters has each place
of a `*`; callers of `Verify` share only what nobody writes, so one at a time is as good as several.

The clocks (`MaxTime`; `Never` of the dial), the messages, the bodies (`Bodies`, `MaxInt`), the templates, options and
credentials enumerated by the `MC` modules are the only bounds.

Deadlock is checked in every run. What ends by itself has a step `Over` for that: an RPC, a call, a dial, a
resolution, a request, an endpoint that is refused. A gate never stops, since a caller can always call again.

Fairness. A check is answered: an endpoint has a timeout (10 s by default,
`endpoint/helpers.go`), and the observer is required not to block
(`grpc/interceptor.go:97`). `sync.Mutex` starves no waiter (its starvation mode
hands the mutex over in order), hence strong fairness of a caller's turn at the gate.
Running code goes on. A call to a backend assumes only that and the client's timeout, which covers the body too and which
the options keep positive (`endpoint/http.go:502`); the backend owes nothing, so `CallReturns` has it stall anywhere. A dial assumes
that its code goes on, that time passes, and that a resolver and a dial give up when their context ends, which the interfaces' contexts are for (`internal/privatenet/privatenet.go:82`); both may stall until then. The framework ends the context of an RPC that is over, and a
transport call gives up once the context has ended. Nothing is assumed of
the handler, the client, or a transport call on a live context: a
receive may wait for ever, and `GateNeverStalls` says that this holds up nobody.

## Proofs

`StreamGateProofs` proves, for any set of callers, interval, failures and
clock bound, assuming only that the named constants are distinct and the
numbers natural (the ASSUMEs of `StreamGate`):

- `TypeCorrect`, `ToldFailuresAreReal`: invariants;
- `FailureIsFinal`, `BeginsAreSpaced`, `PassesAreCoveredAlways`: action properties.

All rest on one inductive invariant, `GateInv`. The properties are not inductive
alone: that nobody is told a provisional failure needs `MutexInv` (while
someone runs a check, the mutex is held by exactly that caller and `err` is
incomplete), and the spacing needs `ClockInv` (while the gate has not failed, the
last allowed check is the last one that began). Each action preserves it, one step of
the proof per action.

`AuthStreamProofs` proves, for any senders, receivers, messages, targets, interval,
clock bound and set of endpoint failures, that `TypeOK`, `RevocationBound`, `SameTarget`,
`ClearedUnlessAllowed` and `OneRefusal` are invariants of `AuthStream`. The assumptions are those of
`AuthStream`: the goroutines, directions and special values are distinct, and a
failure is a set of the kinds of `ErrorMapping`.

The inductive invariant `StreamInv` has the gate's `GateInv` as a conjunct, whose
preservation is not proved again: `GateStep` shows that every step of the stream is
a step of its gate or leaves it alone, and the gate's own lemma does the rest. The other
conjuncts say why the properties hold:

- `OpInv`, `MainInv`: a goroutine is in the gate exactly where its `SendMsg`, `RecvMsg` or
  phase of the RPC has it; nothing is called before the opening check passed.
- `HeldInv`: what was let through is what the caller still holds.
- `GrantInv`, for `RevocationBound`: a check that began after the revocation is not
  `covered` and cannot be allowed, so the last allowed check began no later than the
  revocation; a message passes on it only within the interval of that begin. Once a message has passed late
  on a check of its own, no check that is running can be allowed, so there is no second one.
- `ToldInv`, for `OneRefusal`: what is told is the gate's one failure, already mapped.
  `ErrCheckIncomplete` is mapped each time it is told, but has no kind, so its code never depends on the context.

`AuthStreamProofs` also proves the two refinements, `Spec => GateSpec` and
`Spec => KeepsPromise`, action by action under the mapping above, and from the second that
`RefusalEndsRPC`: what is refused once is how the RPC ends.

`InterceptorChainProofs` proves, for any chain, methods, policies and exemptions and any number of
RPCs, all the safety the two chain runs check. Its invariant `ChainInv` is the type
invariant, `CacheIsFaithful`, and `RpcInv` of every RPC:

- `PlaceInv`: where an RPC can be, and that its context holds no policy but its own method's,
  the one thing each policy interceptor re-establishes and each verification interceptor relies on
  (`OwnContext`). Without the mark there is no policy, so the guard cannot be got round.
- `PassedInv`, for `NoUncheckedHandler`: every verification interceptor behind an RPC let it
  pass rightly (`Checked`).
- `ToldInv`, for `ObserverSeesAll` and `NeverAnonymous`.

`GoesKeeps` and `StopsKeeps` say what it takes to hand an RPC on and to end it; each action is then shown to be
one or the other. That lookups and registrations interleave costs `CacheIsFaithful` nothing, because a
method's policy never changes and only found methods are stored. The assumptions are the ASSUMEs of
`InterceptorChain`: methods and services are different entries, the special values are no policy, target,
failure or code, and a policy without field mappings resolves alike for every request.

`BackendCallProofs` proves, for any statuses, bodies and bounds and any `MaxInt` no body is longer than,
the five safety properties of `backend`. Its invariant `CallInv` adds to them where a call can be (`Early`), that what is
being read is a prefix of the body and ends with it, at the limit or broken (`Reading`), and what was
returned (`Returned`). The argument for `OnlyWholeAllows` is arithmetic: what is read to its end and is no longer than the bound
is the whole body, because the limit is past the bound or past every body (`WholeIsWhole`). For
`EndingIsTheCallers`, no error but that of a context that has ended has a context's kind (`RequestErrors`), and
no other error can be told as one (`CodeOfCase`).

`ReachProofs` proves, for any addresses, answers, timeouts, deadlines and least attempt, the safety of `dial`.
Its invariant `DialInv` adds to the types where a dial is (`StageInv`), that what passed the check is what is tried
(`CheckedInv`), that the clock stays within the attempt and the attempt within the dial (`TimeInv`), that an attempt in a context
that has ended is the last (`LiveInv`), and for `EachHasItsShare` that if the time was enough for all, what is left is enough
for the rest (`ShareInv`). That step is arithmetic, `ShareLeaves`: a share rounded down, or the least time, leaves the
addresses behind it as much for each. The assumptions are that times are naturals, the dialer's timeouts are below the bound of the
clock, and the least attempt is positive.

It also proves, for any lists of options, base URLs, hosts, answers of the resolver and redirects, both properties of `reach`. `ReachInv` says
what the options applied so far have left (`AppliedInv`: every pair listed is some option's, and every good entry of every option is
listed), what `Construct` has judged (`BuiltInv`), and who the private transport is connected to (`PeerInv`). What the properties call
listed is a comparison of hosts as a reader would make it, and the code's is of canonical spellings; `ListedIsListed` has the two agree
for every entry that was not refused. `ReachAssumption` gives the constants the shapes of Go's types, and the
facts of the world that the code builds on: no loopback address is in a private range, and the port 80 of a URL without a port is a valid one.

`EndpointProofs` proves, for any options, credentials, request IDs, resources and principals, the four properties of `request`. The
invariant `RPCInv` follows the construction: the request-ID header is that of the last option that names one (`KeyInv`), a static
header has the value of the last option that sets it (`HeadersInv`), a constructed endpoint's are allowed (`ConstructedInv`),
what was read is the caller's (`ReadInv`), and what each step writes survives the next (`RequestInv`). `CredentialIsSubjects` rests on `BearerToken`,
that cutting at the first space and refusing white space in the rest finds the one token of three words. `EntitiesAreNamed` is about texts: `BalancedText` shows
that every quote in an escaped text has an odd run of backslashes before it, so that the one that ends an entity UID is the first without one (`QuoteEndsIt`),
and `PrefixCode` that texts whose characters are escaped differ if the texts do as they read, because no escape begins another's that reads otherwise
(`EscapesDiffer`, `EscapedAlike`).

The same module proves for any rules, patterns and callers that the static endpoint decides by the rules it was given. `StaticInv` keeps the endpoint's
copy equal to them however the caller rewrites its own slice, and every `Verify` at a rule before which none covers the call.

The assumptions are about what the code takes from elsewhere. `InboundAssumption`: header names and values are strings, the reserved
header names are valid ones, and an ID of our own is none the caller sent (it ends in 8 random bytes, written as 16 hex digits). `EscapeAssumption`: Cedar's escape of a control
character is a backslash and characters that are neither quote nor backslash, and no two are alike. `RuneAssumption`: bytes that are
no UTF-8, and U+FFFD, are no control characters, spaces, quotes or backslashes. `PrincipalAssumption`: a resolver
has an answer for every token, a text, which is all its Go type says. `RulesAssumption`: rules are rules.

`TextTheorems` has the induction these need. The provers take no operator as a parameter, so no induction theorem can be
used; instead a lemma takes the set of the numbers that fail and asks for its least element (`MinIs`, `UpTo`). `Flattening` gives
from it the unfolding of `FlattenSeq`, and the rest follows from that.

`ResolutionProofs` proves, for any policies, schema, messages and segment characters, the five properties of `resolve`. `ResolutionInv` says:

- `MappedInv`, `FieldsInv`: every mapping read so far was usable and set, and a name has what the last mapping of it reads;
- `ReadInv`, `WrittenInv`: no placeholder is read in part, and what is written is the text of the template's first `read` pieces. This is what a
  step needs to know of the ones before it: the code scans for the next `<` and `>` with no idea of `Placeholders`, and `FoundIs` shows that
  from a place where none is cut in two it finds exactly the next one, and `NoneLeft` that it finds none only where none is left;
- `StopInv`: why it stopped: at the first mapping or the first placeholder that is in trouble (`Stopper`).

`ResourceIsFilledOnce` is `WrittenInv` at the end of the template. For `StructureIsKept`, `SameStructure` has two fillings agree on their separators when
their pieces differ only where neither has one. For `ValuesAreTold`, suppose two requests name one resource and take the first placeholder in which
they differ (`FirstUnlike`). The texts agree up to it; its values have no separator, nor has what follows them up to the next one,
so that this one is in the same place in both and the values have one length (`UpToMark`), and are one; if no placeholder follows, the length
of the whole says the same. Equal texts are then equal values: `HexTells` for bytes, `MessagesAssumption` for numbers.
For `FirstTroubleIsDecisive`, `TroubledIs` and `StopperIs` have the step that stopped be at the least of all that are in trouble. It makes resolution one function of
policy and request (`ResolvesToOne`), and `ResolvesAlikeUnmapped` shows of that function what `InterceptorChain` assumes of its constant `Resolve`.

`SegmentAssumption` is that a segment has no separator. `PoliciesAssumption` and `MessagesAssumption` give policies and messages the shapes
of their types, and no two numbers one print. The properties are stated with `TypesOn`, `ValuesOn` and `FlattenSeq` and not with a recursive operator so that they can be proved about.

Model-checked only: liveness under fairness, which TLAPS does not prove.

## Not modelled

The wording of errors and logs, the contents of messages, the duration reported to the observer, the fields of a
decision that are only passed on, and a decision on the handler's context. Interceptors of the service's own that write
to the context. That one `Resolve` of a chain is a `Resolution` and one answer of its verifier a `BackendCall`: each is an input of the
other model, though what the chain assumes of `Resolve` is proved of `Resolution`.

What a text is, where only its kind matters: which strings are URLs, IP literals, IDNA names, header values or
well-formed request IDs is given by constants. The entries of `WithRequirePolicy` likewise. An endpoint's paths, size limit and timeout
options, and what a caller's own transport does. The address family of a lookup (`lookupNetwork`): the resolver answers what it likes.

`endpointtest` (fixed answers), the loggers, and the policy schema with its generated code have no behaviour to check.

## Plan

1. Done: `StreamGate`, `ErrorMapping`, `AuthStream`, `StreamPromise`, `InterceptorChain`,
   `Decision`, `BackendCall`, with the proofs of their safety.
2. Done: `PrivateDial`, `PlainReach`, `Resolution`, `EndpointRequest`, `StaticRules`.
3. Done: the proofs of the safety of the dialer, the reach rules, the requests, the static endpoint and resolution.
4. The chain with `BackendCall` as its verifier, and decisions on the context.
