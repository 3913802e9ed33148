----------------------- MODULE InterceptorChainProofs -----------------------
(***************************************************************************)
(* InterceptorChain's safety, for any chain of interceptors, any methods,  *)
(* policies and exemptions, and any number of concurrent RPCs.             *)
(***************************************************************************)
EXTENDS InterceptorChain, TLAPS

\* Every failure has a code, whatever kinds it is and however the context ended.
LEMMA CodeOfIsCode == ASSUME NEW e, NEW f PROVE CodeOf(e, f) \in Codes
BY DEF CodeOf, Codes

\* The target a method's policy names for the request, None without a policy.
TargetOf(r) == IF Declared[rpc[r].method] = NoPolicy THEN None ELSE OwnTarget(r)

\* A context with no policy but the method's own, and with that if it is marked.
OwnContext(r, c) ==
    /\ c \in Context
    /\ c.policy = IF c.ran THEN TargetOf(r) ELSE None

\* The interceptor i, if it verifies, let r pass rightly.
Checked(r, i) ==
    chain[i].kind = "verify" =>
        IF Declared[rpc[r].method] = NoPolicy
        THEN Admitted(i, rpc[r].method)
        ELSE <<i, OwnTarget(r)>> \in granted[r]

\* What the observer was handed if it was handed every check that allowed.
Seen(r) == {<<g[1], g[2], TRUE>> : g \in granted[r]}

\* Where an RPC may be in the chain.
PlaceInv(r) ==
    /\ stage[r] # "new" => rpc[r] \in Request /\ OwnContext(r, ctx[r])
    /\ stage[r] = "new" =>
        /\ ~ctx[r].ran /\ ctx[r].policy = None /\ pos[r] = 1
        /\ asked[r] = {} /\ granted[r] = {} /\ observed[r] = {}
    /\ stage[r] \in {"lookup", "store", "verify", "observe"} =>
        pos[r] \in DOMAIN chain /\ ~rpc[r].client
    /\ stage[r] \in {"lookup", "store"} =>
        framework = "grpc" /\ chain[pos[r]].kind = "policy"
    /\ stage[r] = "store" => rpc[r].method \in described
    /\ stage[r] \in {"verify", "observe"} =>
        chain[pos[r]].kind = "verify" /\ ctx[r].policy # None /\ ctx[r].ran
    /\ stage[r] = "serving" => pos[r] \notin DOMAIN chain

\* What an RPC has passed.
PassedInv(r) ==
    stage[r] # "new" /\ ~rpc[r].client =>
        /\ \A i \in DOMAIN chain : i < pos[r] => Checked(r, i)
        /\ stage[r] = "observe" /\ answer[r] = None => Checked(r, pos[r])

\* What the verifiers and observers of an RPC were told.
ToldInv(r) ==
    /\ \A a \in asked[r] : a[3] = FALSE => rpc[r].credential = "none"
    /\ stage[r] \in {"enter", "lookup", "store", "verify", "serving"} =>
        observed[r] = Seen(r)
    /\ stage[r] = "observe" =>
        Seen(r) = IF answer[r] = None
                  THEN observed[r] \cup {<<pos[r], ctx[r].policy, TRUE>>}
                  ELSE observed[r]
    /\ stage[r] = "over" => \A o \in observed[r] : ~o[3] => o[1] = pos[r]
    /\ RefusedByCheck(r) => <<pos[r], ctx[r].policy, FALSE>> \in observed[r]

RpcInv(r) == PlaceInv(r) /\ PassedInv(r) /\ ToldInv(r)

\* The inductive invariant.
ChainInv == TypeOK /\ CacheIsFaithful /\ \A r \in RPCs : RpcInv(r)

-----------------------------------------------------------------------------
\* Nothing of the RPC x changes, and no descriptor is lost.
Same(x) ==
    /\ rpc'[x] = rpc[x] /\ pos'[x] = pos[x] /\ stage'[x] = stage[x] /\ ctx'[x] = ctx[x]
    /\ answer'[x] = answer[x] /\ asked'[x] = asked[x]
    /\ granted'[x] = granted[x] /\ observed'[x] = observed[x]
    /\ status'[x] = status[x] /\ described \subseteq described'

\* An RPC that a step leaves alone keeps its part of the invariant.
LEMMA OthersKeep ==
  ASSUME NEW x \in RPCs, RpcInv(x), Same(x), UNCHANGED server PROVE RpcInv(x)'
<1> USE DEF Same, server
<1>1. ASSUME NEW i \in DOMAIN chain PROVE Checked(x, i)' <=> Checked(x, i)
  BY DEF Checked, Admitted, OwnTarget
<1>2. ASSUME NEW c PROVE OwnContext(x, c)' <=> OwnContext(x, c)
  BY DEF OwnContext, TargetOf, OwnTarget
<1>3. Seen(x)' = Seen(x)
  BY DEF Seen
<1>4. PlaceInv(x)'
  BY <1>2 DEF RpcInv, PlaceInv
<1>5. PassedInv(x)'
  BY <1>1 DEF RpcInv, PassedInv, PlaceInv
<1>6. ToldInv(x)'
  BY <1>3 DEF RpcInv, ToldInv, RefusedByCheck
<1> QED
  BY <1>4, <1>5, <1>6 DEF RpcInv

\* Nobody is seen as refused.
LEMMA SeenAllowed == ASSUME NEW r, NEW o \in Seen(r) PROVE o[3] = TRUE
<1>1. PICK g \in granted[r] : o = <<g[1], g[2], TRUE>>
  BY Zenon DEF Seen
<1> QED
  BY <1>1

\* The next interceptor is called with the method's own policy on the context.
Goes(r) == \E c : OwnContext(r, c) /\ Proceed(r, c)

\* The RPC is over, with an error.
Stops(r) ==
    \E s \in Codes \cup {Panicked} :
        /\ stage' = [stage EXCEPT ![r] = "over"]
        /\ status' = [status EXCEPT ![r] = s]
        /\ UNCHANGED <<pos, ctx>>

LEMMA RefuseStops == ASSUME NEW r, NEW kinds, Refuse(r, kinds) PROVE Stops(r)
  BY CodeOfIsCode DEF Refuse, Stops

\* What applying the method's own policy comes to.
LEMMA PolicyApplied ==
  ASSUME TypeOK, NEW r \in RPCs, PlaceInv(r), stage[r] # "new",
         ApplyPolicy(r, Declared[rpc[r].method])
  PROVE  Goes(r) \/ Stops(r)
<1> DEFINE p == Declared[rpc[r].method]
           marked == [ctx[r] EXCEPT !.ran = TRUE]
<1>1. /\ rpc[r] \in Request /\ rpc[r].method \in Methods /\ rpc[r].message \in Requests
      /\ OwnContext(r, ctx[r])
  BY DEF PlaceInv, Request
<1>2. marked \in Context /\ marked.ran /\ marked.policy = ctx[r].policy
  BY <1>1 DEF OwnContext, Context
<1>3. CASE p = NoPolicy
  <2>1. OwnContext(r, marked)
    BY <1>1, <1>2, <1>3 DEF OwnContext, TargetOf
  <2>2. Proceed(r, marked)
    BY <1>3 DEF ApplyPolicy
  <2> QED
    BY <2>1, <2>2 DEF Goes
<1>4. CASE p # NoPolicy /\ Resolved(r, p) \in Targets
  <2> DEFINE c == [marked EXCEPT !.policy = Resolved(r, p)]
  <2>1. Resolved(r, p) = OwnTarget(r)
    BY <1>1, <1>4, MethodsAssumption, ResolveAssumption DEF Resolved, OwnTarget
  <2>2. c \in Context /\ c.ran /\ c.policy = Resolved(r, p)
    BY <1>2, <1>4 DEF Context
  <2>3. OwnContext(r, c)
    BY <1>4, <2>1, <2>2 DEF OwnContext, TargetOf
  <2>4. Proceed(r, c)
    BY <1>4 DEF ApplyPolicy
  <2> QED
    BY <2>3, <2>4 DEF Goes
<1>5. CASE p # NoPolicy /\ Resolved(r, p) \notin Targets
  BY <1>5, RefuseStops DEF ApplyPolicy
<1> QED
  BY <1>3, <1>4, <1>5

-----------------------------------------------------------------------------
\* An RPC that is handed on was passed rightly by the interceptor it leaves.
LEMMA GoesKeeps ==
  ASSUME TypeOK, NEW r \in RPCs, RpcInv(r), Goes(r),
         stage[r] \in {"enter", "lookup", "store", "observe"}, pos[r] \in DOMAIN chain,
         ~rpc[r].client => Checked(r, pos[r]),
         UNCHANGED <<server, rpc, asked, granted>>, observed'[r] = Seen(r)
  PROVE  RpcInv(r)'
<1> USE DEF server
<1>1. PICK c : OwnContext(r, c) /\ Proceed(r, c)
  BY DEF Goes
<1>2. pos'[r] = pos[r] + 1 /\ pos[r] \in Nat /\ stage'[r] = "enter" /\ ctx'[r] = c
  BY <1>1 DEF TypeOK, Proceed
<1>3. OwnContext(r, c)' <=> OwnContext(r, c)
  BY DEF OwnContext, TargetOf, OwnTarget
<1>4. PlaceInv(r)'
  BY <1>1, <1>2, <1>3 DEF RpcInv, PlaceInv
<1>5. PassedInv(r)'
  <2>1. SUFFICES ASSUME ~rpc[r].client, NEW i \in DOMAIN chain, i < pos[r] + 1
                 PROVE  Checked(r, i)'
    BY <1>2 DEF PassedInv
  <2>2. i \in Nat
    BY DEF TypeOK
  <2>3. i < pos[r] \/ i = pos[r]
    BY <2>1, <2>2, <1>2
  <2>4. Checked(r, i)
    BY <2>1, <2>3 DEF RpcInv, PassedInv, PlaceInv
  <2> QED
    BY <2>4 DEF Checked, Admitted, OwnTarget
<1>6. ToldInv(r)'
  BY <1>2 DEF RpcInv, ToldInv, Seen, RefusedByCheck
<1> QED
  BY <1>4, <1>5, <1>6 DEF RpcInv

\* An RPC that is over needs no more than its observer's last word.
LEMMA StopsKeeps ==
  ASSUME TypeOK, NEW r \in RPCs, RpcInv(r), Stops(r), stage[r] # "new",
         UNCHANGED <<server, rpc, asked, granted>>,
         \A o \in observed'[r] : ~o[3] => o[1] = pos[r],
         RefusedByCheck(r)' => <<pos[r], ctx[r].policy, FALSE>> \in observed'[r]
  PROVE  RpcInv(r)'
<1> USE DEF server
<1>1. pos'[r] = pos[r] /\ stage'[r] = "over" /\ ctx'[r] = ctx[r]
  BY DEF TypeOK, Stops
<1>2. OwnContext(r, ctx[r])' <=> OwnContext(r, ctx[r])
  BY <1>1 DEF OwnContext, TargetOf, OwnTarget
<1>3. PlaceInv(r)'
  BY <1>1, <1>2 DEF RpcInv, PlaceInv
<1>4. ASSUME NEW i \in DOMAIN chain PROVE Checked(r, i)' <=> Checked(r, i)
  BY DEF Checked, Admitted, OwnTarget
<1>5. PassedInv(r)'
  BY <1>1, <1>4 DEF RpcInv, PassedInv
<1>6. ToldInv(r)'
  BY <1>1 DEF RpcInv, ToldInv
<1> QED
  BY <1>3, <1>5, <1>6 DEF RpcInv

\* A step that hands an RPC on or ends it keeps the invariant if it keeps the
\* RPC's own part and what is remembered.
LEMMA MovesKeep ==
  ASSUME ChainInv, NEW r \in RPCs, Goes(r) \/ Stops(r), RpcInv(r)',
         UNCHANGED <<server, described, rpc, ended, asked, granted>>,
         cache' \in [DOMAIN chain -> [Methods -> Policies \cup {NoPolicy, Absent}]],
         CacheIsFaithful',
         answer' = answer \/ answer' = [answer EXCEPT ![r] = Pending],
         observed' \in [RPCs -> SUBSET ((DOMAIN chain) \X Targets \X BOOLEAN)],
         \A x \in RPCs \ {r} : observed'[x] = observed[x]
  PROVE  ChainInv'
<1>1. /\ pos' \in [RPCs -> Nat \ {0}]
      /\ stage' \in [RPCs -> Stages]
      /\ ctx' \in [RPCs -> Context]
      /\ status' \in [RPCs -> Codes \cup {Panicked, None}]
      /\ \A x \in RPCs \ {r} :
            /\ pos'[x] = pos[x] /\ stage'[x] = stage[x] /\ ctx'[x] = ctx[x]
            /\ status'[x] = status[x]
  <2>1. CASE Goes(r)
    BY <2>1 DEF ChainInv, TypeOK, Goes, Proceed, OwnContext, Stages
  <2>2. CASE Stops(r)
    BY <2>2 DEF ChainInv, TypeOK, Stops, Stages
  <2> QED
    BY <2>1, <2>2
<1>2. TypeOK'
  BY <1>1 DEF ChainInv, TypeOK, server
<1>3. ASSUME NEW x \in RPCs, x # r PROVE RpcInv(x)'
  <2>1. Same(x)
    BY <1>1, <1>3 DEF Same, ChainInv, TypeOK
  <2> QED
    BY <2>1, <1>3, OthersKeep DEF ChainInv
<1> QED
  BY <1>2, <1>3 DEF ChainInv

-----------------------------------------------------------------------------
\* The policy interceptor: whatever it does, the next one sees the method's own
\* policy, and the cache stays right.
LEMMA PolicyKeeps ==
  ASSUME ChainInv, NEW r \in RPCs,
         \/ PolicyOfSpec(r) \/ CacheHits(r) \/ LookupStores(r)
         \/ LookupEnds(r) /\ rpc[r].method \notin described
  PROVE  ChainInv'
<1> DEFINE m == rpc[r].method
<1>1. /\ stage[r] \in {"enter", "lookup", "store"} /\ pos[r] \in DOMAIN chain
      /\ chain[pos[r]].kind = "policy"
      /\ RpcInv(r) /\ PlaceInv(r) /\ TypeOK
      /\ UNCHANGED <<server, described, rpc, ended, record>>
  BY DEF PolicyOfSpec, CacheHits, LookupEnds, LookupStores, Enters, ChainInv, RpcInv,
         PlaceInv
<1>2. m \in Methods /\ Declared[m] \in Policies \cup {NoPolicy}
  BY <1>1, MethodsAssumption DEF PlaceInv, Request
<1>3. ApplyPolicy(r, Declared[m]) \/ Refuse(r, {})
  <2>1. CASE PolicyOfSpec(r)
    BY <2>1 DEF PolicyOfSpec
  <2>2. CASE CacheHits(r)
    BY <2>2, <1>1, <1>2 DEF CacheHits, ChainInv, CacheIsFaithful
  <2>3. CASE LookupEnds(r) /\ m \notin described
    BY <2>3 DEF LookupEnds
  <2>4. CASE LookupStores(r)
    BY <2>4 DEF LookupStores
  <2> QED
    BY <2>1, <2>2, <2>3, <2>4
<1>4. UNCHANGED cache \/ (m \in described /\ Store(r, Declared[m]))
  BY <1>1 DEF PolicyOfSpec, CacheHits, LookupEnds, LookupStores, PlaceInv
<1>5. /\ cache' \in [DOMAIN chain -> [Methods -> Policies \cup {NoPolicy, Absent}]]
      /\ CacheIsFaithful'
  <2>1. CASE UNCHANGED cache
    BY <2>1, <1>1 DEF ChainInv, TypeOK, CacheIsFaithful, server
  <2>2. CASE m \in described /\ Store(r, Declared[m])
    <3>1. cache' = [cache EXCEPT ![pos[r]] = [cache[pos[r]] EXCEPT ![m] = Declared[m]]]
      BY <2>2 DEF Store
    <3>2. [cache[pos[r]] EXCEPT ![m] = Declared[m]]
            \in [Methods -> Policies \cup {NoPolicy, Absent}]
      BY <1>1, <1>2 DEF TypeOK
    <3>3. cache' \in [DOMAIN chain -> [Methods -> Policies \cup {NoPolicy, Absent}]]
      BY <3>1, <3>2, <1>1 DEF TypeOK
    <3>4. ASSUME NEW i \in DOMAIN chain, NEW n \in Methods, cache'[i][n] # Absent
          PROVE  n \in described /\ cache'[i][n] = Declared[n]
      <4>1. cache'[i][n] = IF i = pos[r] /\ n = m THEN Declared[m] ELSE cache[i][n]
        BY <3>1, <1>1, <1>2 DEF TypeOK
      <4> QED
        BY <4>1, <3>4, <2>2 DEF ChainInv, CacheIsFaithful
    <3> QED
      BY <3>3, <3>4, <1>1 DEF CacheIsFaithful, server
  <2> QED
    BY <1>4, <2>1, <2>2
<1>6. Goes(r) \/ Stops(r)
  BY <1>3, <1>1, PolicyApplied, RefuseStops
<1>7. observed[r] = Seen(r) /\ \A o \in observed[r] : o[3] = TRUE
  BY <1>1, SeenAllowed DEF RpcInv, ToldInv
<1>8. RpcInv(r)'
  <2>1. CASE Goes(r)
    <3>1. Checked(r, pos[r])
      BY <1>1 DEF Checked
    <3> QED
      BY <2>1, <3>1, <1>1, <1>7, GoesKeeps DEF record
  <2>2. CASE Stops(r)
    <3>1. ~RefusedByCheck(r)'
      BY <2>2, <1>1 DEF Stops, RefusedByCheck, server
    <3> QED
      BY <2>2, <3>1, <1>1, <1>7, StopsKeeps DEF record
  <2> QED
    BY <2>1, <2>2, <1>6
<1>9. observed' \in [RPCs -> SUBSET ((DOMAIN chain) \X Targets \X BOOLEAN)]
  BY <1>1 DEF TypeOK, record
<1> QED
  BY <1>1, <1>5, <1>6, <1>8, <1>9, MovesKeep DEF record

\* The context the verification interceptor goes on with.
LEMMA InboundKept ==
  ASSUME NEW r, rpc[r] \in Request, OwnContext(r, ctx[r])
  PROVE  /\ OwnContext(r, Inbound(r)) /\ Inbound(r) \in Context
         /\ Inbound(r).policy = ctx[r].policy /\ Inbound(r).ran = ctx[r].ran
         /\ Inbound(r).token = FALSE => rpc[r].credential # "bearer"
  BY DEF Inbound, OwnContext, Context

\* The verification interceptor without a check: it refuses, or admits a method
\* that declares no policy.
LEMMA UncheckedKeeps ==
  ASSUME ChainInv, NEW r \in RPCs,
         ClientPasses(r) \/ GuardRefuses(r) \/ Unannotated(r)
  PROVE  ChainInv'
<1>1. /\ stage[r] = "enter" /\ pos[r] \in DOMAIN chain
      /\ RpcInv(r) /\ TypeOK /\ rpc[r] \in Request /\ OwnContext(r, ctx[r])
      /\ UNCHANGED <<server, described, cache, rpc, ended, record>>
  BY DEF ClientPasses, GuardRefuses, Unannotated, Enters, ChainInv, RpcInv, PlaceInv
<1>2. observed[r] = Seen(r) /\ \A o \in observed[r] : o[3] = TRUE
  BY <1>1, SeenAllowed DEF RpcInv, ToldInv
<1>3. \/ Stops(r) /\ ctx[r].policy = None
      \/ Goes(r) /\ (~rpc[r].client => Checked(r, pos[r]))
  <2>1. CASE ClientPasses(r)
    BY <2>1, <1>1 DEF ClientPasses, Goes
  <2>2. CASE GuardRefuses(r)
    BY <2>2, <1>1, RefuseStops DEF GuardRefuses, OwnContext
  <2>3. CASE Unannotated(r) /\ Admitted(pos[r], rpc[r].method)
    <3>1. Proceed(r, Inbound(r)) /\ ctx[r].ran /\ ctx[r].policy = None
      BY <2>3 DEF Unannotated
    <3>2. Declared[rpc[r].method] = NoPolicy
      <4>1. TargetOf(r) = None
        BY <3>1, <1>1 DEF OwnContext
      <4>2. Declared[rpc[r].method] # NoPolicy => OwnTarget(r) \in Targets \cup {Unsafe, Broken}
        BY <1>1, MethodsAssumption, ResolveAssumption DEF OwnTarget, Request
      <4> QED
        BY <4>1, <4>2, ResolveAssumption DEF TargetOf
    <3> QED
      BY <3>1, <3>2, <2>3, <1>1, InboundKept DEF Goes, Checked
  <2>4. CASE Unannotated(r) /\ ~Admitted(pos[r], rpc[r].method)
    BY <2>4, RefuseStops DEF Unannotated
  <2> QED
    BY <2>1, <2>2, <2>3, <2>4
<1>4. RpcInv(r)'
  <2>1. CASE Stops(r) /\ ctx[r].policy = None
    <3>1. ~RefusedByCheck(r)'
      BY <2>1 DEF Stops, RefusedByCheck
    <3> QED
      BY <2>1, <3>1, <1>1, <1>2, StopsKeeps DEF record
  <2>2. CASE Goes(r) /\ (~rpc[r].client => Checked(r, pos[r]))
    BY <2>2, <1>1, <1>2, GoesKeeps DEF record
  <2> QED
    BY <2>1, <2>2, <1>3
<1>5. /\ cache' \in [DOMAIN chain -> [Methods -> Policies \cup {NoPolicy, Absent}]]
      /\ CacheIsFaithful'
      /\ observed' \in [RPCs -> SUBSET ((DOMAIN chain) \X Targets \X BOOLEAN)]
  BY <1>1 DEF ChainInv, TypeOK, CacheIsFaithful, server, record
<1> QED
  BY <1>1, <1>3, <1>4, <1>5, MovesKeep DEF record

-----------------------------------------------------------------------------
\* A check that begins: a credential that cannot be read fails it at once.
LEMMA AskKeeps == ASSUME ChainInv, NEW r \in RPCs, Ask(r) PROVE ChainInv'
<1>1. /\ stage[r] = "enter" /\ pos[r] \in DOMAIN chain /\ chain[pos[r]].kind = "verify"
      /\ ~rpc[r].client /\ ctx[r].ran /\ ctx[r].policy # None
      /\ RpcInv(r) /\ TypeOK /\ rpc[r] \in Request /\ OwnContext(r, ctx[r])
      /\ UNCHANGED <<server, described, cache, rpc, pos, status, ended, granted, observed>>
  BY DEF Ask, Enters, ChainInv, RpcInv, PlaceInv
<1>2. PICK c : c = Inbound(r)
  OBVIOUS
<1>3. /\ OwnContext(r, c) /\ c \in Context
      /\ c.policy = ctx[r].policy /\ c.ran = ctx[r].ran
      /\ c.token = FALSE => rpc[r].credential # "bearer"
  BY <1>1, <1>2, InboundKept
<1>4. ctx' = [ctx EXCEPT ![r] = c] /\ ctx'[r] = c
  BY <1>1, <1>2 DEF Ask, TypeOK
<1>5. OwnContext(r, c)'
  BY <1>1, <1>3 DEF OwnContext, TargetOf, OwnTarget, server
<1> DEFINE question == <<pos[r], ctx[r].policy, c.token>>
<1>6. question \in (DOMAIN chain) \X Targets \X BOOLEAN /\ question[3] = c.token
  BY <1>1, <1>3 DEF Context, TypeOK
<1> DEFINE unread == rpc[r].credential = "malformed"
<1>7. \/ /\ unread
         /\ stage' = [stage EXCEPT ![r] = "observe"]
         /\ answer' = [answer EXCEPT ![r] = {"unauthenticated"}]
         /\ UNCHANGED asked
      \/ /\ ~unread
         /\ stage' = [stage EXCEPT ![r] = "verify"]
         /\ asked' = [asked EXCEPT ![r] = asked[r] \cup {question}]
         /\ UNCHANGED answer
  BY <1>2 DEF Ask
<1> HIDE DEF question
<1>8. TypeOK'
  <2>1. CASE unread
    BY <2>1, <1>1, <1>3, <1>4, <1>7 DEF TypeOK, Stages, server
  <2>2. CASE ~unread
    <3>1. asked' = [asked EXCEPT ![r] = asked[r] \cup {question}]
      BY <2>2, <1>7
    <3>2. asked[r] \cup {question} \in SUBSET ((DOMAIN chain) \X Targets \X BOOLEAN)
      BY <1>1, <1>6 DEF TypeOK
    <3>3. asked' \in [RPCs -> SUBSET ((DOMAIN chain) \X Targets \X BOOLEAN)]
      BY <3>1, <3>2, <1>1 DEF TypeOK
    <3>4. ctx' \in [RPCs -> Context]
      BY <1>1, <1>3, <1>4 DEF TypeOK
    <3> QED
      BY <2>2, <3>3, <3>4, <1>1, <1>7 DEF TypeOK, Stages, server
  <2> QED
    BY <2>1, <2>2
<1>9. /\ stage'[r] = IF unread THEN "observe" ELSE "verify"
      /\ stage'[r] = "observe" => answer'[r] # None
      /\ \A a \in asked'[r] : a \in asked[r] \/ (a = question /\ ~unread)
  <2>1. CASE unread
    BY <2>1, <1>1, <1>7, AnswersAssumption DEF TypeOK
  <2>2. CASE ~unread
    <3>1. asked'[r] = asked[r] \cup {question}
      BY <2>2, <1>1, <1>7 DEF TypeOK
    <3>2. stage'[r] = "verify"
      BY <2>2, <1>1, <1>7 DEF TypeOK
    <3> QED
      BY <2>2, <3>1, <3>2
  <2> QED
    BY <2>1, <2>2
<1>10. PlaceInv(r)'
  BY <1>1, <1>3, <1>4, <1>5, <1>9 DEF PlaceInv, server
<1>11. PassedInv(r)'
  <2>1. ASSUME NEW i \in DOMAIN chain PROVE Checked(r, i)' <=> Checked(r, i)
    BY <1>1 DEF Checked, Admitted, OwnTarget, server
  <2> QED
    BY <2>1, <1>1, <1>9 DEF RpcInv, PassedInv, server
<1>12. ToldInv(r)'
  <2>1. ASSUME NEW a \in asked'[r], a[3] = FALSE PROVE rpc[r].credential = "none"
    BY <2>1, <1>1, <1>3, <1>6, <1>9 DEF RpcInv, ToldInv, Request, Credentials
  <2>2. Seen(r)' = Seen(r) /\ observed[r] = Seen(r)
    BY <1>1 DEF RpcInv, ToldInv, Seen
  <2> QED
    BY <2>1, <2>2, <1>1, <1>9 DEF ToldInv, RefusedByCheck
<1>13. ASSUME NEW x \in RPCs, x # r PROVE RpcInv(x)'
  <2>1. Same(x)
    BY <1>1, <1>4, <1>7, <1>13 DEF Same, TypeOK
  <2> QED
    BY <2>1, <1>1, <1>13, OthersKeep DEF ChainInv
<1>14. CacheIsFaithful'
  BY <1>1 DEF ChainInv, CacheIsFaithful, server
<1> QED
  BY <1>8, <1>10, <1>11, <1>12, <1>13, <1>14 DEF ChainInv, RpcInv

\* An answer: a nil one grants the method's own target.
LEMMA AnswersKeeps ==
  ASSUME ChainInv, NEW r \in RPCs, NEW a \in Failures \cup {None}, Answers(r, a)
  PROVE  ChainInv'
<1>1. /\ stage[r] = "verify" /\ pos[r] \in DOMAIN chain /\ chain[pos[r]].kind = "verify"
      /\ ~rpc[r].client /\ ctx[r].ran /\ ctx[r].policy # None
      /\ RpcInv(r) /\ TypeOK /\ rpc[r] \in Request /\ OwnContext(r, ctx[r])
      /\ UNCHANGED <<server, described, cache, rpc, pos, ctx, status, ended, asked, observed>>
  BY DEF Answers, ChainInv, RpcInv, PlaceInv
<1> DEFINE grant == <<pos[r], ctx[r].policy>>
<1>2. /\ ctx[r].policy = OwnTarget(r) /\ ctx[r].policy \in Targets
      /\ Declared[rpc[r].method] # NoPolicy
  BY <1>1 DEF OwnContext, TargetOf, Context
<1>3. grant \in (DOMAIN chain) \X Targets /\ grant[1] = pos[r] /\ grant[2] = ctx[r].policy
  BY <1>1, <1>2
<1>4. /\ answer' = [answer EXCEPT ![r] = a]
      /\ stage' = [stage EXCEPT ![r] = "observe"]
      /\ granted' = [granted EXCEPT ![r] =
                        IF a = None THEN granted[r] \cup {grant} ELSE granted[r]]
  BY DEF Answers
<1> HIDE DEF grant
<1>5. TypeOK'
  BY <1>1, <1>3, <1>4 DEF TypeOK, Stages, server
<1>6. /\ stage'[r] = "observe" /\ answer'[r] = a
      /\ granted'[r] = IF a = None THEN granted[r] \cup {grant} ELSE granted[r]
  BY <1>1, <1>4 DEF TypeOK
<1>7. OwnContext(r, ctx[r])' <=> OwnContext(r, ctx[r])
  BY <1>1 DEF OwnContext, TargetOf, OwnTarget
<1>8. PlaceInv(r)'
  BY <1>1, <1>6, <1>7 DEF PlaceInv, server
<1>9. PassedInv(r)'
  <2>1. ASSUME NEW i \in DOMAIN chain, Checked(r, i) PROVE Checked(r, i)'
    BY <2>1, <1>1, <1>6 DEF Checked, Admitted, OwnTarget, server
  <2>2. a = None => Checked(r, pos[r])'
    BY <1>1, <1>2, <1>6 DEF Checked, OwnTarget, grant, server
  <2> QED
    BY <2>1, <2>2, <1>1, <1>6 DEF RpcInv, PassedInv, server
<1>10. ToldInv(r)'
  <2>1. observed[r] = Seen(r)
    BY <1>1 DEF RpcInv, ToldInv
  <2>2. CASE a = None
    <3>1. Seen(r)' = Seen(r) \cup {<<grant[1], grant[2], TRUE>>}
      BY <2>2, <1>6 DEF Seen
    <3> QED
      BY <3>1, <2>1, <2>2, <1>1, <1>3, <1>6 DEF RpcInv, ToldInv, RefusedByCheck
  <2>3. CASE a # None
    <3>1. Seen(r)' = Seen(r)
      BY <2>3, <1>6 DEF Seen
    <3> QED
      BY <3>1, <2>1, <2>3, <1>1, <1>6 DEF RpcInv, ToldInv, RefusedByCheck
  <2> QED
    BY <2>2, <2>3
<1>11. ASSUME NEW x \in RPCs, x # r PROVE RpcInv(x)'
  <2>1. Same(x)
    BY <1>1, <1>4, <1>11 DEF Same, TypeOK
  <2> QED
    BY <2>1, <1>1, <1>11, OthersKeep DEF ChainInv
<1>12. CacheIsFaithful'
  BY <1>1 DEF ChainInv, CacheIsFaithful, server
<1> QED
  BY <1>5, <1>8, <1>9, <1>10, <1>11, <1>12 DEF ChainInv, RpcInv

\* The end of a check.
LEMMA ObserverKeeps ==
  ASSUME ChainInv, NEW r \in RPCs, ObserverReturns(r) PROVE ChainInv'
<1>1. /\ stage[r] = "observe" /\ pos[r] \in DOMAIN chain /\ ~rpc[r].client
      /\ RpcInv(r) /\ TypeOK /\ rpc[r] \in Request /\ OwnContext(r, ctx[r])
      /\ ctx[r].policy \in Targets
      /\ UNCHANGED <<server, described, cache, rpc, ended, asked, granted>>
  BY DEF ObserverReturns, ChainInv, RpcInv, PlaceInv, OwnContext, Context
<1> DEFINE seen == <<pos[r], ctx[r].policy, answer[r] = None>>
<1>2. /\ seen \in (DOMAIN chain) \X Targets \X BOOLEAN /\ seen[1] = pos[r]
      /\ observed' = [observed EXCEPT ![r] = observed[r] \cup {seen}]
      /\ answer' = [answer EXCEPT ![r] = Pending]
  BY <1>1 DEF ObserverReturns
<1>3. observed'[r] = observed[r] \cup {seen}
  BY <1>1, <1>2 DEF TypeOK
<1>4. observed' \in [RPCs -> SUBSET ((DOMAIN chain) \X Targets \X BOOLEAN)]
  BY <1>1, <1>2 DEF TypeOK
<1>5. \A x \in RPCs \ {r} : observed'[x] = observed[x]
  BY <1>1, <1>2 DEF TypeOK
<1>6. /\ CacheIsFaithful'
      /\ cache' \in [DOMAIN chain -> [Methods -> Policies \cup {NoPolicy, Absent}]]
  BY <1>1 DEF ChainInv, TypeOK, CacheIsFaithful, server
<1>7. (Goes(r) \/ Stops(r)) /\ RpcInv(r)'
  <2>1. CASE answer[r] = None
    <3>1. Goes(r)
      BY <1>1, <2>1 DEF ObserverReturns, Goes
    <3>2. Checked(r, pos[r])
      BY <1>1, <2>1 DEF RpcInv, PassedInv
    <3>3. Seen(r) = observed[r] \cup {<<pos[r], ctx[r].policy, TRUE>>}
      BY <1>1, <2>1 DEF RpcInv, ToldInv
    <3>4. seen = <<pos[r], ctx[r].policy, TRUE>>
      BY <2>1
    <3>5. observed'[r] = Seen(r)
      BY <3>3, <3>4, <1>3
    <3> QED
      BY <3>1, <3>2, <3>5, <1>1, GoesKeeps
  <2>2. CASE answer[r] # None
    <3>1. Stops(r)
      BY <1>1, <2>2, RefuseStops DEF ObserverReturns
    <3>2. observed[r] = Seen(r)
      BY <1>1, <2>2 DEF RpcInv, ToldInv
    <3>3. ASSUME NEW o \in observed'[r], ~o[3] PROVE o[1] = pos[r]
      <4> HIDE DEF seen
      <4>1. o \in Seen(r) \/ o = seen
        BY <1>3, <3>2, <3>3
      <4>2. o \notin Seen(r)
        BY <3>3, SeenAllowed
      <4> QED
        BY <1>2, <4>1, <4>2
    <3>4. <<pos[r], ctx[r].policy, FALSE>> \in observed'[r]
      BY <1>3, <2>2
    <3> QED
      BY <3>1, <3>3, <3>4, <1>1, StopsKeeps
  <2> QED
    BY <2>1, <2>2
<1> HIDE DEF seen
<1> QED
  BY <1>1, <1>2, <1>4, <1>5, <1>6, <1>7, MovesKeep

\* A panic.
LEMMA PanicKeeps == ASSUME ChainInv, NEW r \in RPCs, CheckPanics(r) PROVE ChainInv'
<1>1. /\ stage[r] \in {"verify", "observe"} /\ RpcInv(r) /\ TypeOK
      /\ UNCHANGED <<server, described, cache, rpc, ended, asked, granted, observed>>
      /\ answer' = [answer EXCEPT ![r] = Pending]
  BY DEF CheckPanics, ChainInv
<1>2. Stops(r)
  BY DEF CheckPanics, Stops
<1>3. \A o \in observed[r] : o[3] = TRUE
  BY <1>1, SeenAllowed DEF RpcInv, ToldInv
<1>4. RpcInv(r)'
  <2>1. ~RefusedByCheck(r)'
    BY <1>1 DEF CheckPanics, RefusedByCheck, TypeOK
  <2> QED
    BY <2>1, <1>1, <1>2, <1>3, StopsKeeps
<1>5. /\ CacheIsFaithful'
      /\ cache' \in [DOMAIN chain -> [Methods -> Policies \cup {NoPolicy, Absent}]]
      /\ observed' \in [RPCs -> SUBSET ((DOMAIN chain) \X Targets \X BOOLEAN)]
  BY <1>1 DEF ChainInv, TypeOK, CacheIsFaithful, server
<1> QED
  BY <1>1, <1>2, <1>4, <1>5, MovesKeep

\* A request arrives, with nothing on its context.
LEMMA ArriveKeeps ==
  ASSUME ChainInv, NEW r \in RPCs, NEW q \in Request, Arrive(r, q) PROVE ChainInv'
<1>1. /\ stage[r] = "new" /\ RpcInv(r) /\ TypeOK
      /\ rpc' = [rpc EXCEPT ![r] = q] /\ stage' = [stage EXCEPT ![r] = "enter"]
      /\ UNCHANGED <<server, described, cache, pos, ctx, status, ended, record>>
  BY DEF Arrive, ChainInv
<1>2. TypeOK'
  BY <1>1 DEF TypeOK, Stages, server, record
<1>3. rpc'[r] = q /\ stage'[r] = "enter"
  BY <1>1 DEF TypeOK
<1>4. /\ ctx[r] \in Context /\ ~ctx[r].ran /\ ctx[r].policy = None /\ pos[r] = 1
      /\ asked[r] = {} /\ granted[r] = {} /\ observed[r] = {}
  BY <1>1 DEF TypeOK, RpcInv, PlaceInv
<1>5. PlaceInv(r)'
  <2>1. OwnContext(r, ctx[r])'
    BY <1>1, <1>4 DEF OwnContext
  <2> QED
    BY <2>1, <1>3 DEF PlaceInv
<1>6. PassedInv(r)'
  <2>1. chain' = chain /\ \A i \in DOMAIN chain : i \in Nat /\ i >= 1
    BY <1>1 DEF TypeOK, server
  <2> QED
    BY <2>1, <1>1, <1>3, <1>4 DEF PassedInv
<1>7. ToldInv(r)'
  BY <1>1, <1>3, <1>4 DEF ToldInv, Seen, record, RefusedByCheck
<1>8. ASSUME NEW x \in RPCs, x # r PROVE RpcInv(x)'
  <2>1. Same(x)
    BY <1>1, <1>8 DEF Same, TypeOK, record
  <2> QED
    BY <2>1, <1>1, <1>8, OthersKeep DEF ChainInv
<1>9. CacheIsFaithful'
  BY <1>1 DEF ChainInv, CacheIsFaithful, server
<1> QED
  BY <1>2, <1>5, <1>6, <1>7, <1>8, <1>9 DEF ChainInv, RpcInv

\* An RPC goes over to the lookup, with what it found to the cache, or to the handler.
LEMMA TurnKeeps ==
  ASSUME ChainInv, NEW r \in RPCs,
         \/ CacheMisses(r) \/ HandlerRuns(r)
         \/ LookupEnds(r) /\ rpc[r].method \in described
  PROVE  ChainInv'
<1>1. /\ stage[r] \in {"enter", "lookup"} /\ RpcInv(r) /\ TypeOK
      /\ UNCHANGED <<server, described, cache, rpc, pos, ctx, status, ended, record>>
      /\ \/ /\ stage' = [stage EXCEPT ![r] = "lookup"] /\ pos[r] \in DOMAIN chain
            /\ framework = "grpc" /\ ~rpc[r].client /\ chain[pos[r]].kind = "policy"
         \/ /\ stage' = [stage EXCEPT ![r] = "store"] /\ pos[r] \in DOMAIN chain
            /\ framework = "grpc" /\ ~rpc[r].client /\ chain[pos[r]].kind = "policy"
            /\ rpc[r].method \in described
         \/ stage' = [stage EXCEPT ![r] = "serving"] /\ pos[r] \notin DOMAIN chain
  BY DEF CacheMisses, LookupEnds, HandlerRuns, Enters, ChainInv, RpcInv, PlaceInv
<1>2. TypeOK'
  BY <1>1 DEF TypeOK, Stages, server, record
<1>3. /\ stage'[r] \in {"lookup", "store", "serving"}
      /\ stage'[r] = "store" => rpc[r].method \in described
      /\ stage'[r] \in {"lookup", "store"} =>
            /\ pos[r] \in DOMAIN chain /\ framework = "grpc"
            /\ ~rpc[r].client /\ chain[pos[r]].kind = "policy"
      /\ stage'[r] = "serving" => pos[r] \notin DOMAIN chain
  BY <1>1 DEF TypeOK
<1>4. PlaceInv(r)'
  <2>1. OwnContext(r, ctx[r])' <=> OwnContext(r, ctx[r])
    BY <1>1 DEF OwnContext, TargetOf, OwnTarget
  <2> QED
    BY <2>1, <1>1, <1>3 DEF RpcInv, PlaceInv, server
<1>5. PassedInv(r)'
  <2>1. ASSUME NEW i \in DOMAIN chain PROVE Checked(r, i)' <=> Checked(r, i)
    BY <1>1 DEF Checked, Admitted, OwnTarget, server, record
  <2> QED
    BY <2>1, <1>1, <1>3 DEF RpcInv, PassedInv, server
<1>6. ToldInv(r)'
  BY <1>1, <1>3 DEF RpcInv, ToldInv, Seen, RefusedByCheck, record
<1>7. ASSUME NEW x \in RPCs, x # r PROVE RpcInv(x)'
  <2>1. Same(x)
    BY <1>1, <1>7 DEF Same, TypeOK, record
  <2> QED
    BY <2>1, <1>1, <1>7, OthersKeep DEF ChainInv
<1>8. CacheIsFaithful'
  BY <1>1 DEF ChainInv, CacheIsFaithful, server
<1> QED
  BY <1>2, <1>4, <1>5, <1>6, <1>7, <1>8 DEF ChainInv, RpcInv

\* Descriptors arrive, contexts end, or nothing happens.
LEMMA WorldKeeps ==
  ASSUME ChainInv, UNCHANGED <<server, cache, rpc, progress, record>>,
         \/ UNCHANGED <<described, ended>>
         \/ \E m \in Methods : Register(m)
         \/ \E r \in RPCs, how \in {"canceled", "deadline"} : ContextEnds(r, how)
  PROVE  ChainInv'
<1>1. TypeOK
  BY DEF ChainInv
<1>2. described' \subseteq Methods /\ described \subseteq described'
  BY <1>1 DEF Register, ContextEnds, TypeOK
<1>3. ended' \in [RPCs -> Endings]
  <2>1. CASE UNCHANGED <<described, ended>> \/ \E m \in Methods : Register(m)
    BY <2>1, <1>1 DEF TypeOK, Register
  <2>2. ASSUME NEW r \in RPCs, NEW how \in {"canceled", "deadline"}, ContextEnds(r, how)
        PROVE  ended' \in [RPCs -> Endings]
    BY <2>2, <1>1 DEF TypeOK, ContextEnds, Endings
  <2> QED
    BY <2>1, <2>2
<1>4. TypeOK'
  BY <1>1, <1>2, <1>3 DEF TypeOK, server, progress, record
<1>5. CacheIsFaithful'
  BY <1>2 DEF ChainInv, CacheIsFaithful, server
<1>6. ASSUME NEW x \in RPCs PROVE RpcInv(x)'
  <2>1. Same(x)
    BY <1>2 DEF Same, progress, record
  <2> QED
    BY <2>1, OthersKeep DEF ChainInv
<1> QED
  BY <1>4, <1>5, <1>6 DEF ChainInv

-----------------------------------------------------------------------------
LEMMA InitKeeps == ASSUME Init PROVE ChainInv
<1>1. TypeOK
  <2>1. chain \in Seq(Interceptor)
    BY ChainsAssumption DEF Init
  <2> QED
    BY <2>1 DEF Init, TypeOK, Context, Endings, Stages
<1>2. CacheIsFaithful
  BY DEF Init, CacheIsFaithful
<1>3. ASSUME NEW r \in RPCs PROVE RpcInv(r)
  BY DEF Init, RpcInv, PlaceInv, PassedInv, ToldInv, RefusedByCheck
<1> QED
  BY <1>1, <1>2, <1>3 DEF ChainInv

\* Every step keeps the invariant.
LEMMA StepKeeps == ASSUME ChainInv, [Next]_vars PROVE ChainInv'
<1>1. ASSUME NEW r \in RPCs, NEW q \in Request, Arrive(r, q) PROVE ChainInv'
  BY <1>1, ArriveKeeps
<1>2. ASSUME NEW r \in RPCs, GoesOn(r) PROVE ChainInv'
  BY <1>2, PolicyKeeps, UncheckedKeeps, AskKeeps, AnswersKeeps, ObserverKeeps,
     PanicKeeps, TurnKeeps DEF GoesOn
<1>3. ASSUME NEW r \in RPCs, NEW how \in {"canceled", "deadline"}, ContextEnds(r, how)
      PROVE  ChainInv'
  BY <1>3, WorldKeeps DEF ContextEnds
<1>4. ASSUME NEW m \in Methods, Register(m) PROVE ChainInv'
  BY <1>4, WorldKeeps DEF Register
<1>5. CASE UNCHANGED vars
  BY <1>5, WorldKeeps DEF vars
<1> QED
  BY <1>1, <1>2, <1>3, <1>4, <1>5 DEF Next, Over

\* The invariant holds throughout, for any chain and any number of RPCs.
THEOREM ChainInvariant == Spec => []ChainInv
  BY InitKeeps, StepKeeps, PTL DEF Spec

\* Every variable keeps its type; the status of an RPC is always a mapped code.
THEOREM ChainTypeCorrect == Spec => []TypeOK
<1>1. ChainInv => TypeOK
  BY DEF ChainInv
<1> QED
  BY <1>1, ChainInvariant, PTL

\* No handler runs past a verification interceptor without its leave.
THEOREM HandlersAreChecked == Spec => []NoUncheckedHandler
<1>1. ASSUME ChainInv PROVE NoUncheckedHandler
  <2>1. SUFFICES ASSUME NEW r \in RPCs, stage[r] = "serving", ~rpc[r].client,
                        NEW i \in DOMAIN chain, chain[i].kind = "verify"
                 PROVE  Checked(r, i)
    BY DEF NoUncheckedHandler, Checked
  <2>2. i < pos[r]
    <3>1. pos[r] \notin DOMAIN chain /\ pos[r] \in Nat \ {0} /\ chain \in Seq(Interceptor)
      BY <1>1, <2>1 DEF ChainInv, RpcInv, PlaceInv, TypeOK
    <3> QED
      BY <3>1
  <2>3. PlaceInv(r) /\ PassedInv(r)
    BY <1>1 DEF ChainInv, RpcInv
  <2> QED
    BY <2>1, <2>2, <2>3 DEF PlaceInv, PassedInv
<1> QED
  BY <1>1, ChainInvariant, PTL

\* The method cache is right throughout, however lookups interleave.
THEOREM CacheStaysFaithful == Spec => []CacheIsFaithful
<1>1. ChainInv => CacheIsFaithful
  BY DEF ChainInv
<1> QED
  BY <1>1, ChainInvariant, PTL

\* A verifier asked without a token is asked about a request without credential.
THEOREM AnonymousIsAnonymous == Spec => []NeverAnonymous
<1>1. ChainInv => NeverAnonymous
  BY DEF ChainInv, RpcInv, ToldInv, NeverAnonymous
<1> QED
  BY <1>1, ChainInvariant, PTL

\* The observer of a running handler has every check that let it run, and that of an
\* RPC a check ended has the refusal, whatever made it.
THEOREM ObserversSeeAll == Spec => []ObserverSeesAll
<1>1. ASSUME ChainInv, NEW r \in RPCs
      PROVE  /\ stage[r] = "serving" => observed[r] = Seen(r)
             /\ \A o \in observed[r] : ~o[3] => o[1] = pos[r] /\ stage[r] = "over"
             /\ RefusedByCheck(r) => <<pos[r], ctx[r].policy, FALSE>> \in observed[r]
  <2>1. stage[r] \in Stages
    BY <1>1 DEF ChainInv, TypeOK
  <2>2. PlaceInv(r) /\ ToldInv(r)
    BY <1>1 DEF ChainInv, RpcInv
  <2>3. stage[r] # "over" => observed[r] \subseteq Seen(r)
    BY <2>1, <2>2 DEF PlaceInv, ToldInv, Stages
  <2> QED
    BY <2>2, <2>3, SeenAllowed DEF ToldInv
<1>2. ChainInv => ObserverSeesAll
  BY <1>1 DEF ObserverSeesAll, Seen
<1> QED
  BY <1>2, ChainInvariant, PTL

\* A policy interceptor refuses no RPC whose policy can be found and resolved.
THEOREM FoundIsServed == Spec => FoundIsNotRefused
<1> DEFINE Refused(r) ==
        /\ stage[r] \in {"enter", "lookup", "store"} /\ stage'[r] = "over"
        /\ chain[pos[r]].kind = "policy" /\ rpc[r].method \in described
    Unresolved(r) ==
        /\ Declared[rpc[r].method] # NoPolicy
        /\ Resolved(r, Declared[rpc[r].method]) \notin Targets
<1>1. ASSUME ChainInv, Next, NEW r \in RPCs, Refused(r) PROVE Unresolved(r)
  <2>1. /\ TypeOK /\ \A x \in RPCs : PlaceInv(x) /\ rpc[r].method \in described
    BY <1>1 DEF ChainInv, RpcInv
  \* Whose step it is, and how it ends the RPC.
  <2>2. ASSUME NEW x \in RPCs, NEW s, stage' = [stage EXCEPT ![x] = s]
        PROVE  x = r /\ s = "over"
    BY <2>2, <2>1, <1>1 DEF TypeOK
  <2>3. ~UNCHANGED stage
    BY <1>1
  <2>4. ASSUME NEW x \in RPCs, NEW c, Proceed(x, c) PROVE FALSE
    <3>1. stage' = [stage EXCEPT ![x] = "enter"]
      BY <2>4 DEF Proceed
    <3> QED
      BY <3>1, <2>1, <1>1 DEF TypeOK
  <2>5. ASSUME NEW x \in RPCs, NEW kinds, Refuse(x, kinds) PROVE x = r
    BY <2>2, <2>5 DEF Refuse
  <2>6. ASSUME NEW x \in RPCs, ApplyPolicy(x, Declared[rpc[x].method]) PROVE Unresolved(r)
    BY <2>4, <2>5, <2>6 DEF ApplyPolicy
  <2>7. ASSUME NEW x \in RPCs, PolicyOfSpec(x) \/ LookupEnds(x) \/ LookupStores(x)
        PROVE  Unresolved(r)
    BY <2>1, <2>2, <2>5, <2>6, <2>7 DEF PolicyOfSpec, LookupEnds, LookupStores
  <2>8. ASSUME NEW x \in RPCs, CacheHits(x) PROVE Unresolved(r)
    <3>1. rpc[x].method \in Methods /\ pos[x] \in DOMAIN chain
      BY <2>1, <2>8 DEF CacheHits, Enters, PlaceInv, Request
    <3>2. cache[pos[x]][rpc[x].method] = Declared[rpc[x].method]
      BY <3>1, <2>8, <1>1 DEF CacheHits, ChainInv, CacheIsFaithful
    <3> QED
      BY <3>2, <2>6, <2>8 DEF CacheHits
  <2>9. ASSUME NEW x \in RPCs, GuardRefuses(x) \/ Unannotated(x) PROVE FALSE
    BY <2>4, <2>5, <2>9, <1>1 DEF GuardRefuses, Unannotated, Enters
  <2>10. ASSUME NEW x \in RPCs, ObserverReturns(x) \/ CheckPanics(x) PROVE FALSE
    BY <2>1, <2>2, <2>4, <2>5, <2>10, <1>1 DEF ObserverReturns, CheckPanics, PlaceInv
  <2>11. ASSUME NEW x \in RPCs,
                \/ \E q \in Request : Arrive(x, q)
                \/ ClientPasses(x) \/ CacheMisses(x) \/ Ask(x) \/ HandlerRuns(x)
                \/ \E a \in Failures \cup {None} : Answers(x, a)
         PROVE  FALSE
    BY <2>2, <2>4, <2>11 DEF Arrive, ClientPasses, CacheMisses, Ask, HandlerRuns, Answers
  <2>12. ASSUME NEW x \in RPCs, NEW how, ContextEnds(x, how) PROVE FALSE
    BY <2>3, <2>12 DEF ContextEnds, progress
  <2>13. ASSUME NEW m \in Methods, Register(m) PROVE FALSE
    BY <2>3, <2>13 DEF Register, progress
  <2>14. ~Over
    BY <2>3 DEF Over, vars, progress
  <2>15. PICK x \in RPCs : GoesOn(x)
    BY <2>11, <2>12, <2>13, <2>14, <1>1 DEF Next
  <2> QED
    BY <2>7, <2>8, <2>9, <2>10, <2>11, <2>15 DEF GoesOn
<1>2. ASSUME ChainInv, [Next]_vars
      PROVE  [\A r \in RPCs :
                /\ stage[r] \in {"enter", "lookup", "store"} /\ stage'[r] = "over"
                /\ chain[pos[r]].kind = "policy"
                /\ rpc[r].method \in described
                => Declared[rpc[r].method] # NoPolicy
                    /\ Resolved(r, Declared[rpc[r].method]) \notin Targets]_vars
  BY <1>1, <1>2
<1> QED
  BY <1>2, ChainInvariant, PTL DEF Spec, FoundIsNotRefused
=============================================================================
