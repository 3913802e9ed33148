-------------------------- MODULE InterceptorChain --------------------------
(***************************************************************************)
(* The interceptors of one server, as RPCs pass through them on their way  *)
(* to a handler: PolicyOptionInterceptor, VerificationInterceptor and their *)
(* stream forms (grpc/interceptor.go, grpc/stream_interceptor.go,          *)
(* grpc/lookup.go), and connectrpc's, which guard handlers only.  A        *)
(* stream's interceptor goes on as AuthStream says once its opening check  *)
(* passed.                                                                 *)
(*                                                                         *)
(* A chain is any sequence of policy and verification interceptors, the    *)
(* misconfigured ones included.  RPCs run concurrently; what they share is *)
(* the method cache of each gRPC policy interceptor and the registry of    *)
(* descriptors.                                                            *)
(***************************************************************************)
EXTENDS ErrorMapping, Sequences

CONSTANTS
    RPCs,
    Methods, Services, ServiceOf,
    Requests,       \* request messages
    Targets,        \* resource and action pairs
    Policies,       \* policy options
    Mapped,         \* the policies with field_mappings
    Declared,       \* the policy option of each method, or NoPolicy
    Resolve,        \* ResolveResource...: a target, or why there is none
    Chains,         \* chains to consider
    Frameworks,     \* "grpc", "connect"
    Failures,       \* errors an endpoint may return, each a set of kinds
    NoPolicy, Unsafe, Broken, Absent, None, Pending, Panicked

\* An interceptor: exempt holds the argument of every WithRequirePolicy given.
Entries == Methods \cup Services
Interceptor == [kind : {"policy", "verify"}, exempt : SUBSET SUBSET Entries]

\* What the Authorization values of a request amount to.
Credentials == {"none", "bearer", "malformed"}

ASSUME MethodsAssumption ==
    /\ ServiceOf \in [Methods -> Services]
    /\ Methods \cap Services = {}
    /\ Declared \in [Methods -> Policies \cup {NoPolicy}]
    /\ NoPolicy \notin Policies
    /\ Absent \notin Policies \cup {NoPolicy}
ASSUME ResolveAssumption ==
    /\ Mapped \subseteq Policies
    /\ Resolve \in [Policies -> [Requests -> Targets \cup {Unsafe, Broken}]]
    /\ {Unsafe, Broken} \cap Targets = {} /\ None \notin Targets \cup {Unsafe, Broken}
    \* Without field_mappings the request is not looked at.
    /\ \A p \in Policies \ Mapped, q1, q2 \in Requests :
        Resolve[p][q1] = Resolve[p][q2]
ASSUME ChainsAssumption ==
    /\ Chains \subseteq Seq(Interceptor)
    /\ Frameworks \subseteq {"grpc", "connect"}
ASSUME AnswersAssumption ==
    /\ \A f \in Failures : f \subseteq KindSet
    /\ {None, Pending} \cap (Failures \cup {{"unauthenticated"}}) = {} /\ Pending # None
    /\ {None, Panicked} \cap Codes = {} /\ None # Panicked

VARIABLES
    framework, streaming, chain,    \* the server, fixed
    described,  \* methods whose descriptor the policy interceptors can find
    cache,      \* by position in the chain: what the interceptor remembers
    rpc,        \* each RPC's request, None while it has not arrived
    pos,        \* the interceptor each RPC has reached; past the last: the handler
    stage,      \* where it is there
    ctx,        \* the context handed to that interceptor
    ended,      \* ctx.Err()
    status,     \* how the chain ended the RPC, None while it has not
    answer,     \* of the verifier asked, Pending while it has not answered
    asked,      \* what verifiers were asked: position, target, token
    granted,    \* what verifiers allowed: position and target
    observed    \* what observers were handed: position, target, allowed

server == <<framework, streaming, chain>>
progress == <<pos, stage, ctx, status>>
record == <<answer, asked, granted, observed>>
vars == <<server, described, cache, rpc, progress, ended, record>>

Request ==
    [method : Methods, message : Requests, credential : Credentials, client : BOOLEAN]

\* Where an RPC is at an interceptor, a cache lookup being two steps.
Stages == {"new", "enter", "lookup", "store", "verify", "observe", "serving", "over"}

\* MarkInterceptorRan, WithPolicy and WithBearerToken.
Context == [ran : BOOLEAN, policy : Targets \cup {None}, token : BOOLEAN]

Init ==
    /\ framework \in Frameworks
    /\ streaming \in BOOLEAN
    /\ chain \in Chains
    /\ described \in SUBSET Methods
    /\ cache = [i \in DOMAIN chain |-> [m \in Methods |-> Absent]]
    /\ rpc = [r \in RPCs |-> None]
    /\ pos = [r \in RPCs |-> 1]
    /\ stage = [r \in RPCs |-> "new"]
    /\ ctx = [r \in RPCs |-> [ran |-> FALSE, policy |-> None, token |-> FALSE]]
    /\ ended = [r \in RPCs |-> "live"]
    /\ status = [r \in RPCs |-> None]
    /\ answer = [r \in RPCs |-> Pending]
    /\ asked = [r \in RPCs |-> {}]
    /\ granted = [r \in RPCs |-> {}]
    /\ observed = [r \in RPCs |-> {}]

-----------------------------------------------------------------------------
\* An interceptor calls the next one, or the handler, with the context c.
Proceed(r, c) ==
    /\ pos' = [pos EXCEPT ![r] = pos[r] + 1]
    /\ stage' = [stage EXCEPT ![r] = "enter"]
    /\ ctx' = [ctx EXCEPT ![r] = c]
    /\ UNCHANGED status

\* An interceptor returns a mapped error instead.
Refuse(r, kinds) ==
    /\ stage' = [stage EXCEPT ![r] = "over"]
    /\ status' = [status EXCEPT ![r] = CodeOf(ended[r], kinds)]
    /\ UNCHANGED <<pos, ctx>>

\* The interceptor of the given kind that the RPC r enters.
Enters(r, kind) ==
    /\ stage[r] = "enter"
    /\ pos[r] \in DOMAIN chain
    /\ chain[pos[r]].kind = kind
    /\ ~rpc[r].client

\* A request arrives; only connectrpc interceptors can be a client's.
Arrive(r, q) ==
    /\ stage[r] = "new"
    /\ q.client => framework = "connect"
    /\ rpc' = [rpc EXCEPT ![r] = q]
    /\ stage' = [stage EXCEPT ![r] = "enter"]
    /\ UNCHANGED <<server, described, cache, pos, ctx, status, ended, record>>

\* A client's own call is not the interceptors' to guard.
ClientPasses(r) ==
    /\ stage[r] = "enter"
    /\ pos[r] \in DOMAIN chain
    /\ rpc[r].client
    /\ Proceed(r, ctx[r])
    /\ UNCHANGED <<server, described, cache, rpc, ended, record>>

-----------------------------------------------------------------------------
(* The policy interceptor.                                                 *)

\* What the policy p of a method resolves to for the request of r.
Resolved(r, p) ==
    IF streaming /\ p \in Mapped THEN Broken ELSE Resolve[p][rpc[r].message]

\* With the method's policy known, the RPC goes on with the mark and, if there
\* is a policy, with its target; a policy that does not resolve refuses it.
ApplyPolicy(r, p) ==
    LET marked == [ctx[r] EXCEPT !.ran = TRUE]
    IN  \/ /\ p = NoPolicy
           /\ Proceed(r, marked)
        \/ /\ p # NoPolicy
           /\ Resolved(r, p) \in Targets
           /\ Proceed(r, [marked EXCEPT !.policy = Resolved(r, p)])
        \/ /\ p # NoPolicy
           /\ Resolved(r, p) \notin Targets
           /\ Refuse(r, IF Resolved(r, p) = Unsafe THEN {"denied"} ELSE {})

\* connectrpc reads the descriptor the handler was built with, each time.
PolicyOfSpec(r) ==
    /\ framework = "connect"
    /\ Enters(r, "policy")
    /\ IF rpc[r].method \in described
       THEN ApplyPolicy(r, Declared[rpc[r].method])
       ELSE Refuse(r, {})
    /\ UNCHANGED <<server, described, cache, rpc, ended, record>>

\* gRPC finds the method in the interceptor's cache.
CacheHits(r) ==
    /\ framework = "grpc"
    /\ Enters(r, "policy")
    /\ cache[pos[r]][rpc[r].method] # Absent
    /\ ApplyPolicy(r, cache[pos[r]][rpc[r].method])
    /\ UNCHANGED <<server, described, cache, rpc, ended, record>>

\* gRPC does not, and looks for the descriptor.
CacheMisses(r) ==
    /\ framework = "grpc"
    /\ Enters(r, "policy")
    /\ cache[pos[r]][rpc[r].method] = Absent
    /\ stage' = [stage EXCEPT ![r] = "lookup"]
    /\ UNCHANGED <<server, described, cache, rpc, pos, ctx, status, ended, record>>

\* The policy found is remembered.
Store(r, p) == cache' = [cache EXCEPT ![pos[r]][rpc[r].method] = p]

\* Mutant: a method that is not found is remembered as one without a policy.
LookupRemembersMiss(r) ==
    /\ stage[r] = "lookup"
    /\ IF rpc[r].method \in described
       THEN /\ stage' = [stage EXCEPT ![r] = "store"]
            /\ UNCHANGED <<cache, pos, ctx, status>>
       ELSE Store(r, NoPolicy) /\ Refuse(r, {})
    /\ UNCHANGED <<server, described, rpc, ended, record>>

\* The descriptor is found; or it is not, which refuses the RPC and remembers
\* nothing.
LookupEnds(r) ==
    /\ stage[r] = "lookup"
    /\ IF rpc[r].method \in described
       THEN stage' = [stage EXCEPT ![r] = "store"] /\ UNCHANGED <<pos, ctx, status>>
       ELSE Refuse(r, {})
    /\ UNCHANGED <<server, described, cache, rpc, ended, record>>

\* Mutant: of two lookups of one method, the one that is not remembered fails.
StoreLosesRace(r) ==
    /\ stage[r] = "store"
    /\ IF cache[pos[r]][rpc[r].method] = Absent
       THEN Store(r, Declared[rpc[r].method]) /\ ApplyPolicy(r, Declared[rpc[r].method])
       ELSE UNCHANGED cache /\ Refuse(r, {})
    /\ UNCHANGED <<server, described, rpc, ended, record>>

\* The policy of the descriptor found is remembered, over what another lookup of
\* the method may have stored meanwhile, and applied.
LookupStores(r) ==
    /\ stage[r] = "store"
    /\ Store(r, Declared[rpc[r].method])
    /\ ApplyPolicy(r, Declared[rpc[r].method])
    /\ UNCHANGED <<server, described, rpc, ended, record>>

-----------------------------------------------------------------------------
(* The verification interceptor.                                           *)

\* withInbound: a readable credential goes on the context.
Inbound(r) ==
    IF rpc[r].credential = "bearer" THEN [ctx[r] EXCEPT !.token = TRUE] ELSE ctx[r]

\* checkUnannotated: WithRequirePolicy lets an RPC without a policy pass only
\* if one of its calls exempts the method or its service.
Admitted(i, m) ==
    \/ chain[i].exempt = {}
    \/ {m, ServiceOf[m]} \cap UNION chain[i].exempt # {}

\* Mutant: an RPC with no mark passes as one without a policy.
GuardPasses(r) ==
    /\ Enters(r, "verify")
    /\ ~ctx[r].ran
    /\ Proceed(r, Inbound(r))
    /\ UNCHANGED <<server, described, cache, rpc, ended, record>>

\* No policy interceptor ran before.
GuardRefuses(r) ==
    /\ Enters(r, "verify")
    /\ ~ctx[r].ran
    /\ Refuse(r, {})
    /\ UNCHANGED <<server, described, cache, rpc, ended, record>>

\* The method has no policy.
Unannotated(r) ==
    /\ Enters(r, "verify")
    /\ ctx[r].ran
    /\ ctx[r].policy = None
    /\ IF Admitted(pos[r], rpc[r].method)
       THEN Proceed(r, Inbound(r))
       ELSE Refuse(r, {})
    /\ UNCHANGED <<server, described, cache, rpc, ended, record>>

\* Mutant: a request whose credential cannot be read is asked about as one
\* without a credential.
AskAnonymously(r) ==
    /\ Enters(r, "verify")
    /\ ctx[r].ran
    /\ ctx[r].policy # None
    /\ ctx' = [ctx EXCEPT ![r] = Inbound(r)]
    /\ stage' = [stage EXCEPT ![r] = "verify"]
    /\ asked' = [asked EXCEPT ![r] = @ \cup {<<pos[r], ctx[r].policy, Inbound(r).token>>}]
    /\ UNCHANGED <<server, described, cache, rpc, pos, status, ended, answer, granted, observed>>

\* Mutant: a request whose credential cannot be read is refused on the spot.
RefuseUnread(r) ==
    /\ Enters(r, "verify")
    /\ ctx[r].ran
    /\ ctx[r].policy # None
    /\ IF rpc[r].credential = "malformed"
       THEN /\ Refuse(r, {"unauthenticated"})
            /\ UNCHANGED asked
       ELSE /\ ctx' = [ctx EXCEPT ![r] = Inbound(r)]
            /\ stage' = [stage EXCEPT ![r] = "verify"]
            /\ asked' = [asked EXCEPT ![r] =
                            @ \cup {<<pos[r], ctx[r].policy, Inbound(r).token>>}]
            /\ UNCHANGED <<pos, status>>
    /\ UNCHANGED <<server, described, cache, rpc, ended, answer, granted, observed>>

\* The verifier is asked, unless the credential cannot be read, which fails the
\* check at once.
Ask(r) ==
    /\ Enters(r, "verify")
    /\ ctx[r].ran
    /\ ctx[r].policy # None
    /\ ctx' = [ctx EXCEPT ![r] = Inbound(r)]
    /\ IF rpc[r].credential = "malformed"
       THEN /\ stage' = [stage EXCEPT ![r] = "observe"]
            /\ answer' = [answer EXCEPT ![r] = {"unauthenticated"}]
            /\ UNCHANGED asked
       ELSE /\ stage' = [stage EXCEPT ![r] = "verify"]
            /\ asked' = [asked EXCEPT ![r] =
                            @ \cup {<<pos[r], ctx[r].policy, Inbound(r).token>>}]
            /\ UNCHANGED answer
    /\ UNCHANGED <<server, described, cache, rpc, pos, status, ended, granted, observed>>

\* The verifier answers: nil, or an error a.
Answers(r, a) ==
    /\ stage[r] = "verify"
    /\ answer' = [answer EXCEPT ![r] = a]
    /\ granted' = [granted EXCEPT ![r] =
                    IF a = None THEN @ \cup {<<pos[r], ctx[r].policy>>} ELSE @]
    /\ stage' = [stage EXCEPT ![r] = "observe"]
    /\ UNCHANGED <<server, described, cache, rpc, pos, ctx, status, ended, asked, observed>>

\* The observer has the check, and the RPC goes on or is refused.
ObserverReturns(r) ==
    /\ stage[r] = "observe"
    /\ observed' = [observed EXCEPT ![r] =
                        @ \cup {<<pos[r], ctx[r].policy, answer[r] = None>>}]
    /\ answer' = [answer EXCEPT ![r] = Pending]
    /\ IF answer[r] = None THEN Proceed(r, ctx[r]) ELSE Refuse(r, answer[r])
    /\ UNCHANGED <<server, described, cache, rpc, ended, asked, granted>>

\* The verifier or the observer panics: nothing recovers it in the chain.
CheckPanics(r) ==
    /\ stage[r] \in {"verify", "observe"}
    /\ stage' = [stage EXCEPT ![r] = "over"]
    /\ status' = [status EXCEPT ![r] = Panicked]
    /\ answer' = [answer EXCEPT ![r] = Pending]
    /\ UNCHANGED <<server, described, cache, rpc, pos, ctx, ended, asked, granted, observed>>

-----------------------------------------------------------------------------
\* The handler runs, with the context the last interceptor handed on.
HandlerRuns(r) ==
    /\ stage[r] = "enter"
    /\ pos[r] \notin DOMAIN chain
    /\ stage' = [stage EXCEPT ![r] = "serving"]
    /\ UNCHANGED <<server, described, cache, rpc, pos, ctx, status, ended, record>>

\* Descriptors may be registered while the server runs; a handler's is fixed.
Register(m) ==
    /\ framework = "grpc"
    /\ m \notin described
    /\ described' = described \cup {m}
    /\ UNCHANGED <<server, cache, rpc, progress, ended, record>>

ContextEnds(r, how) ==
    /\ stage[r] \notin {"new", "over", "serving"}
    /\ ended[r] = "live"
    /\ ended' = [ended EXCEPT ![r] = how]
    /\ UNCHANGED <<server, described, cache, rpc, progress, record>>

Over ==
    /\ \A r \in RPCs : stage[r] \in {"serving", "over"}
    /\ UNCHANGED vars

-----------------------------------------------------------------------------
GoesOn(r) ==
    \/ ClientPasses(r)
    \/ PolicyOfSpec(r) \/ CacheHits(r) \/ CacheMisses(r)
    \/ LookupEnds(r) \/ LookupStores(r)
    \/ GuardRefuses(r) \/ Unannotated(r) \/ Ask(r)
    \/ \E a \in Failures \cup {None} : Answers(r, a)
    \/ ObserverReturns(r) \/ CheckPanics(r)
    \/ HandlerRuns(r)

Next ==
    \/ \E r \in RPCs :
        \/ \E q \in Request : Arrive(r, q)
        \/ GoesOn(r)
        \/ \E how \in {"canceled", "deadline"} : ContextEnds(r, how)
    \/ \E m \in Methods : Register(m)
    \/ Over

Spec == Init /\ [][Next]_vars

-----------------------------------------------------------------------------
TypeOK ==
    /\ framework \in Frameworks
    /\ streaming \in BOOLEAN
    /\ chain \in Seq(Interceptor)
    /\ described \subseteq Methods
    /\ cache \in [DOMAIN chain -> [Methods -> Policies \cup {NoPolicy, Absent}]]
    /\ rpc \in [RPCs -> Request \cup {None}]
    /\ pos \in [RPCs -> Nat \ {0}]
    /\ stage \in [RPCs -> Stages]
    /\ ctx \in [RPCs -> Context]
    /\ ended \in [RPCs -> Endings]
    /\ status \in [RPCs -> Codes \cup {Panicked, None}]
    /\ answer \in [RPCs -> Failures \cup {{"unauthenticated"}, None, Pending}]
    /\ asked \in [RPCs -> SUBSET ((DOMAIN chain) \X Targets \X BOOLEAN)]
    /\ granted \in [RPCs -> SUBSET ((DOMAIN chain) \X Targets)]
    /\ observed \in [RPCs -> SUBSET ((DOMAIN chain) \X Targets \X BOOLEAN)]

\* The target a method's own policy names for the request of r.
OwnTarget(r) == Resolve[Declared[rpc[r].method]][rpc[r].message]

\* No handler runs past a verification interceptor unless the method declares
\* no policy, which that interceptor admits, or its verifier allowed the very
\* target the method's policy names for this request - in any chain, however
\* it is ordered, and whatever the cache, the registry and other RPCs do
\* meanwhile ("an unmapped error must never let the handler run").
NoUncheckedHandler ==
    \A r \in RPCs : stage[r] = "serving" /\ ~rpc[r].client =>
        \A i \in DOMAIN chain : chain[i].kind = "verify" =>
            IF Declared[rpc[r].method] = NoPolicy
            THEN Admitted(i, rpc[r].method)
            ELSE <<i, OwnTarget(r)>> \in granted[r]

\* What a cache remembers is right for as long as the server runs, though
\* descriptors arrive meanwhile, and only methods that exist take room in it
\* ("the cache is bounded by the registered methods").
CacheIsFaithful ==
    \A i \in DOMAIN chain, m \in Methods :
        cache[i][m] # Absent => m \in described /\ cache[i][m] = Declared[m]

\* The RPC ended at a check: not for want of a policy interceptor or of a policy,
\* and not by a panic.
RefusedByCheck(r) ==
    /\ stage[r] = "over" /\ status[r] # Panicked
    /\ ~rpc[r].client
    /\ chain[pos[r]].kind = "verify"
    /\ ctx[r].policy # None

\* The observer is handed every check that decided something ("every authorization
\* check ... - allowed, denied or failed"): a handler runs only on
\* checks it was handed as allowed, and an RPC that a check ended - by a denial, a
\* failure or a credential that cannot be read - was handed to it as refused; and
\* after a refusal it is handed nothing more.
ObserverSeesAll ==
    \A r \in RPCs :
        /\ stage[r] = "serving" =>
            observed[r] = {<<g[1], g[2], TRUE>> : g \in granted[r]}
        /\ RefusedByCheck(r) => <<pos[r], ctx[r].policy, FALSE>> \in observed[r]
        /\ \A o \in observed[r] : ~o[3] => o[1] = pos[r] /\ stage[r] = "over"

\* A verifier is asked without a token only for a request that carried no
\* credential: an unreadable one is a refusal, never an anonymous request.
NeverAnonymous ==
    \A r \in RPCs : \A a \in asked[r] :
        a[3] = FALSE => rpc[r].credential = "none"

\* An RPC to a method that can be found and whose policy resolves is not
\* refused by a policy interceptor: a lookup that failed once leaves nothing
\* behind that fails a later one.
FoundIsNotRefused ==
    [][\A r \in RPCs :
        /\ stage[r] \in {"enter", "lookup", "store"} /\ stage'[r] = "over"
        /\ chain[pos[r]].kind = "policy"
        /\ rpc[r].method \in described
        => Declared[rpc[r].method] # NoPolicy
            /\ Resolved(r, Declared[rpc[r].method]) \notin Targets]_vars

=============================================================================
