--------------------------- MODULE EndpointProofs ----------------------------
(***************************************************************************)
(* What the endpoints answer by and send, for any options, rules, requests *)
(* and texts: the static endpoint's decision (StaticRules), and what o3co, *)
(* OPA and Cedar are asked (EndpointRequest).                              *)
(***************************************************************************)
EXTENDS EndpointRequest, StaticRules, TextTheorems, FiniteSetTheorems

-----------------------------------------------------------------------------
(* The static endpoint.                                                    *)

\* A part of a sequence's beginning is the sequence up to its length.
LEMMA BeginningOf ==
    ASSUME NEW S, NEW s \in Seq(S), NEW n \in 0 .. Len(s)
    PROVE  /\ SubSeq(s, 1, n) \in Seq(S)
           /\ Len(SubSeq(s, 1, n)) = n
           /\ \A i \in 1 .. n : SubSeq(s, 1, n)[i] = s[i]
BY SubSeqProperties, \A i \in 1 .. n : s[i] \in S, n - 1 + 1 = n

\* matchPattern says what a pattern is documented to say.
LEMMA PatternCovers ==
    ASSUME NEW p \in Seq(STRING), NEW v \in Seq(STRING)
    PROVE  MatchPattern(p, v) <=> Covers(p, v)
<1>1. ASSUME p = <<"*">> PROVE Covers(p, v)
  <2>1. SubSeq(v, 1, 0) = <<>>
    OBVIOUS
  <2>2. p = SubSeq(v, 1, 0) \o <<"*">>
    BY <1>1, <2>1
  <2> QED
    BY <2>2 DEF Covers
<1>2. ASSUME p # <<>>, p[Len(p)] = "*", IsPrefix(Front(p), v)
      PROVE  Covers(p, v)
  <2>1. Len(p) \in Nat \ {0}
    BY <1>2
  <2> DEFINE n == Len(p) - 1
             f == SubSeq(p, 1, n)
  <2>2. f \in Seq(STRING) /\ Len(f) = n
    BY <2>1, n \in 0 .. Len(p), BeginningOf
  <2>3. n <= Len(v) /\ SubSeq(f, 1, n) = SubSeq(v, 1, n)
    BY <1>2, <2>2 DEF IsPrefix, Front
  <2>4. p = f \o <<"*">>
    BY <1>2, <2>1
  <2>5. f = SubSeq(v, 1, n)
    BY <2>2, <2>3
  <2>6. n \in 0 .. Len(v)
    BY <2>1, <2>3
  <2>7. p = SubSeq(v, 1, n) \o <<"*">>
    BY <2>4, <2>5
  <2> HIDE DEF n, f
  <2> QED
    BY <2>6, <2>7 DEF Covers
<1>3. ASSUME NEW k \in 0 .. Len(v), p = SubSeq(v, 1, k) \o <<"*">>
      PROVE  p # <<>> /\ p[Len(p)] = "*" /\ IsPrefix(Front(p), v)
  <2> DEFINE f == SubSeq(v, 1, k)
  <2>1. f \in Seq(STRING) /\ Len(f) = k
    BY BeginningOf
  <2>2. p \in Seq(STRING) /\ Len(p) = k + 1 /\ p[k + 1] = "*"
    BY <1>3, <2>1
  <2>3. SubSeq(p, 1, k) = f
    BY <1>3, <2>1
  <2>4. SubSeq(f, 1, k) = f
    BY <2>1
  <2>5. Front(p) = f
    BY <2>2, <2>3 DEF Front
  <2>6. IsPrefix(f, v)
    BY <2>1, <2>4 DEF IsPrefix
  <2> QED
    BY <2>2, <2>5, <2>6
<1> QED
  BY <1>1, <1>2, <1>3 DEF MatchPattern, Covers

\* What a Verify has found: no rule it tried allows, and its answer is by all of them.
StaticVerify(v) ==
    \/ v = Idle
    \/ /\ v \in [stage : {"rules"}, asked : Asked, tried : Nat, verdict : {"none"}]
       /\ rules # None /\ v.tried <= Len(rules)
       /\ \A i \in 1 .. v.tried : ~Allows(rules[i], v.asked)
    \/ /\ v \in [stage : {"over"}, asked : Asked, tried : Nat, verdict : {"allowed", "denied", NoToken}]
       /\ v.verdict # NoToken =>
              /\ rules # None
              /\ v.verdict = "allowed" <=> \E i \in DOMAIN rules : Allows(rules[i], v.asked)

\* The rules are the ones given, and every Verify is by them.
StaticInv ==
    /\ slice \in Seq(Rule)
    /\ rules = given /\ (rules # None => rules \in Seq(Rule))
    /\ verify = [c \in Callers |-> verify[c]]
    /\ \A c \in Callers : StaticVerify(verify[c])

LEMMA StaticInvInit == StaticInit => StaticInv
BY RulesAssumption DEF StaticInit, StaticInv, StaticVerify

LEMMA StaticStep ==
    ASSUME StaticInv, [StaticNext]_staticVars
    PROVE  StaticInv'
<1> USE DEF StaticInv
<1>1. CASE NewStaticEndpoint
  BY <1>1 DEF NewStaticEndpoint, StaticVerify, Idle, NoToken
<1>2. CASE CallerWrites
  <2>1. PICK list \in RuleLists, i \in DOMAIN slice :
            i \in DOMAIN list /\ slice' = [slice EXCEPT ![i] = list[i]]
    BY <1>2 DEF CallerWrites
  <2>2. list \in Seq(Rule) /\ list[i] \in Rule
    BY <2>1, RulesAssumption
  <2>3. slice' \in Seq(Rule)
    BY <2>1, <2>2
  <2> QED
    BY <1>2, <2>3 DEF CallerWrites, StaticVerify
<1>3. ASSUME NEW c \in Callers, BeginVerify(c) PROVE StaticInv'
  <2>1. PICK asked \in Asked, bearer \in BOOLEAN :
            verify' = [verify EXCEPT ![c] =
                [stage |-> IF bearer THEN "rules" ELSE "over", asked |-> asked, tried |-> 0,
                 verdict |-> IF bearer THEN "none" ELSE NoToken]]
    BY <1>3 DEF BeginVerify
  <2>2. rules' = rules /\ given' = given /\ slice' = slice /\ rules # None
    BY <1>3 DEF BeginVerify
  <2>3. StaticVerify(verify[c])'
    BY <2>1, <2>2 DEF StaticVerify
  <2>4. \A d \in Callers \ {c} : StaticVerify(verify[d])'
    BY <2>1, <2>2 DEF StaticVerify
  <2> QED
    BY <2>1, <2>2, <2>3, <2>4
<1>4. ASSUME NEW c \in Callers, TryRule(c) PROVE StaticInv'
  <2> DEFINE v == verify[c]
  <2>1. /\ rules' = rules /\ given' = given /\ slice' = slice /\ rules \in Seq(Rule)
        /\ v \in [stage : {"rules"}, asked : Asked, tried : Nat, verdict : {"none"}]
        /\ v.tried < Len(rules)
        /\ \A i \in 1 .. v.tried : ~Allows(rules[i], v.asked)
    BY <1>4 DEF TryRule, Rules, StaticVerify, Idle
  <2>2. CASE Allows(rules[v.tried + 1], v.asked)
    <3>1. verify' = [verify EXCEPT ![c].stage = "over", ![c].verdict = "allowed"]
      BY <1>4, <2>2 DEF TryRule, Rules
    <3>2. /\ verify'[c] \in [stage : {"over"}, asked : Asked, tried : Nat, verdict : {"allowed"}]
          /\ verify'[c].asked = v.asked
      BY <2>1, <3>1
    <3>3. v.tried + 1 \in DOMAIN rules
      BY <2>1
    <3>4. StaticVerify(verify[c])'
      BY <2>1, <2>2, <3>2, <3>3, <1>4 DEF StaticVerify, TryRule
    <3>5. \A d \in Callers \ {c} : StaticVerify(verify[d])'
      BY <2>1, <3>1 DEF StaticVerify
    <3> QED
      BY <2>1, <3>1, <3>4, <3>5
  <2>3. CASE ~Allows(rules[v.tried + 1], v.asked)
    <3>1. verify' = [verify EXCEPT ![c].tried = @ + 1]
      BY <1>4, <2>3 DEF TryRule, Rules
    <3>2. /\ verify'[c] \in [stage : {"rules"}, asked : Asked, tried : Nat, verdict : {"none"}]
          /\ verify'[c].asked = v.asked /\ verify'[c].tried = v.tried + 1
      BY <2>1, <3>1
    <3>3. StaticVerify(verify[c])'
      <4>1. \A i \in 1 .. v.tried + 1 : i \in 1 .. v.tried \/ i = v.tried + 1
        BY <2>1
      <4>2. \A i \in 1 .. v.tried + 1 : ~Allows(rules[i], v.asked)
        BY <2>1, <2>3, <4>1
      <4>3. Len(rules) \in Nat /\ v.tried + 1 <= Len(rules) /\ rules # None
        BY <2>1, <1>4 DEF StaticVerify, Idle
      <4> QED
        BY <2>1, <3>2, <4>2, <4>3 DEF StaticVerify
    <3>4. \A d \in Callers \ {c} : StaticVerify(verify[d])'
      BY <2>1, <3>1 DEF StaticVerify
    <3> QED
      BY <2>1, <3>1, <3>3, <3>4
  <2> QED
    BY <2>2, <2>3
<1>5. ASSUME NEW c \in Callers, Denied(c) PROVE StaticInv'
  <2> DEFINE v == verify[c]
  <2>1. /\ rules' = rules /\ given' = given /\ slice' = slice /\ rules \in Seq(Rule)
        /\ v \in [stage : {"rules"}, asked : Asked, tried : Nat, verdict : {"none"}]
        /\ v.tried = Len(rules)
        /\ \A i \in DOMAIN rules : ~Allows(rules[i], v.asked)
    BY <1>5 DEF Denied, Rules, StaticVerify, Idle
  <2>2. verify' = [verify EXCEPT ![c].stage = "over", ![c].verdict = "denied"]
    BY <1>5 DEF Denied
  <2>3. /\ verify'[c] \in [stage : {"over"}, asked : Asked, tried : Nat, verdict : {"denied"}]
        /\ verify'[c].asked = v.asked
    BY <2>1, <2>2
  <2>4. StaticVerify(verify[c])'
    BY <2>1, <2>3, <1>5 DEF StaticVerify, Denied
  <2>5. \A d \in Callers \ {c} : StaticVerify(verify[d])'
    BY <2>1, <2>2 DEF StaticVerify
  <2> QED
    BY <2>1, <2>2, <2>4, <2>5
<1>6. CASE UNCHANGED staticVars
  BY <1>6 DEF staticVars, StaticVerify
<1> QED
  BY <1>1, <1>2, <1>3, <1>4, <1>5, <1>6 DEF StaticNext

\* What a Verify found by its rules is what they are documented to say.
LEMMA StaticDecides == ASSUME StaticInv PROVE DecidesByGivenRules
<1> SUFFICES ASSUME NEW c \in Callers, verify[c].stage = "over", verify[c].verdict # NoToken
             PROVE  verify[c].verdict = "allowed" <=> OneRuleCovers(verify[c].asked)
  BY DEF DecidesByGivenRules
<1> DEFINE asked == verify[c].asked
<1>1. /\ asked \in Rule /\ rules = given /\ rules \in Seq(Rule)
      /\ verify[c].verdict = "allowed" <=> \E i \in DOMAIN rules : Allows(rules[i], asked)
  BY RulesAssumption DEF StaticInv, StaticVerify, Idle
<1>2. ASSUME NEW i \in DOMAIN rules
      PROVE  Allows(rules[i], asked) <=>
                 /\ Covers(rules[i].resource, asked.resource)
                 /\ Covers(rules[i].action, asked.action)
  <2>1. rules[i] \in Rule
    BY <1>1
  <2> QED
    BY <1>1, <2>1, PatternCovers DEF Allows, Rule
<1> QED
  BY <1>1, <1>2 DEF OneRuleCovers

\* A check is answered by the rules the endpoint was given, for any rules, any values
\* and any number of goroutines, whatever the caller writes into its slice.
THEOREM DecidedByGivenRules == StaticSpec => []DecidesByGivenRules
<1>1. StaticInit => StaticInv
  BY StaticInvInit
<1>2. StaticInv /\ [StaticNext]_staticVars => StaticInv'
  BY StaticStep
<1>3. StaticInv => DecidesByGivenRules
  BY StaticDecides
<1> QED
  BY <1>1, <1>2, <1>3, PTL DEF StaticSpec

-----------------------------------------------------------------------------
(* The credential, the request ID and the static headers.                  *)

\* Option i sets the header n; to the value v.
Sets(i, n) == options[i].is = "Headers" /\ \E e \in options[i].entries : e.name[1] = n
SetsTo(i, n, v) == options[i].is = "Headers" /\ \E e \in options[i].entries : e.name[1] = n /\ e.value = v

Stages ==
    {"options", "panicked", "applying", "refused", "built", "unreadable", "unasked", "asked", "own", "identified", "sent"}
Constructed == stage \in {"built", "unreadable", "unasked", "asked", "own", "identified", "sent"}
Verified == stage \in {"asked", "own", "identified", "sent"}

OptionsInv ==
    /\ kind \in Kinds /\ options \in OptionLists(kind) /\ rpc \in RPCs(options)
    /\ stage \in Stages
    /\ applied \in 0 .. Len(options)
    /\ stage \notin {"options", "panicked"} =>
           \A i \in DOMAIN options : options[i].is = "IDKey" => Forwardable(options[i].key)

\* The request-ID header is the one the last option applied that names it gives.
KeyInv ==
    \/ /\ idKey = "X-Request-Id"
       /\ \A i \in 1 .. applied : options[i].is # "IDKey"
    \/ \E i \in 1 .. applied :
           /\ options[i].is = "IDKey" /\ idKey = options[i].key[1]
           /\ \A j \in i + 1 .. applied : options[j].is # "IDKey"

\* And a static header has the value of the last one that sets it.
HeadersInv ==
    /\ \A n \in DOMAIN headers : \E j \in 1 .. applied :
           SetsTo(j, n, headers[n]) /\ \A k \in j + 1 .. applied : ~Sets(k, n)
    /\ \A i \in 1 .. applied : \A n \in STRING : Sets(i, n) => n \in DOMAIN headers

ConstructedInv == Constructed => applied = Len(options) /\ StaticHeadersOK

\* What was read of the caller's headers.
ReadInv ==
    /\ Verified =>
           /\ token = InboundBearerToken(rpc.authorization) /\ token \notin {<<>>, Refused}
           /\ requestID = InboundRequestID(rpc.ids)
    /\ stage = "unasked" /\ token = <<>> => rpc.authorization = <<>>

\* What the request has once the endpoint has set its own headers.
OwnHeaders ==
    /\ {"Content-Type", "Accept"} \subseteq DOMAIN header
    /\ header["Content-Type"] = JSON /\ header["Accept"] = JSON
    /\ kind = "o3co" => "Authorization" \in DOMAIN header /\ header["Authorization"] = token
    /\ \A n \in DOMAIN headers :
           /\ n \in DOMAIN header
           /\ header[n] = IF n = "Accept-Encoding" /\ headers[n] = <<>> THEN Identity ELSE headers[n]

Entities ==
    [principal |-> EntityUID("User", Principal[token]),
     action |-> EntityUID("Action", rpc.action),
     resource |-> EntityUID("Resource", rpc.resource)]

RequestInv ==
    /\ stage \in {"own", "identified", "sent"} =>
           (kind = "OPA" => body.token = Runes(token)) /\ (kind = "Cedar" => body = Entities)
    /\ stage = "own" => header = headers
    /\ stage \in {"identified", "sent"} => OwnHeaders
    /\ stage = "identified" => DOMAIN header \subseteq DOMAIN headers \cup Controlled \cup {"Accept-Encoding"}
    /\ stage = "sent" =>
           IF idKey = NoKey THEN DOMAIN header \subseteq DOMAIN headers \cup Controlled \cup {"Accept-Encoding"}
           ELSE header[idKey] = requestID

RPCInv == OptionsInv /\ KeyInv /\ HeadersInv /\ ConstructedInv /\ ReadInv /\ RequestInv

\* What SelectInSeq finds: a space, ...
LEMMA FirstSpace ==
    ASSUME NEW text \in Seq(STRING), NEW cut, cut = SelectInSeq(text, LAMBDA c : c = Space)
    PROVE  cut \in 0 .. Len(text) /\ (cut # 0 => text[cut] = Space)
<1> DEFINE I == {i \in 1 .. Len(text) : text[i] = Space}
<1>1. cut = IF I # {} THEN Min(I) ELSE 0
  BY DEF SelectInSeq
<1>2. I \subseteq Nat /\ Len(text) \in Nat
  OBVIOUS
<1>3. I # {} => Min(I) \in I
  <2> HIDE DEF I
  <2> QED
    BY <1>2, MinIs
<1> QED
  BY <1>1, <1>2, <1>3

\* ... or what comes after the first spaces.
LEMMA FirstOther ==
    ASSUME NEW text \in Seq(STRING), NEW k, k = SelectInSeq(text, LAMBDA c : c # Space)
    PROVE  k \in 0 .. Len(text) /\ \A i \in 1 .. k - 1 : text[i] = Space
<1> DEFINE I == {i \in 1 .. Len(text) : text[i] # Space}
<1>1. k = IF I # {} THEN Min(I) ELSE 0
  BY DEF SelectInSeq
<1>2. I \subseteq Nat /\ Len(text) \in Nat
  OBVIOUS
<1>3. I # {} => Min(I) \in I /\ \A i \in I : Min(I) <= i
  <2> HIDE DEF I
  <2> QED
    BY <1>2, MinIs
<1> HIDE DEF I
<1>4. CASE I = {}
  <2>1. k = 0 /\ Len(text) \in Nat
    BY <1>1, <1>2, <1>4
  <2> QED
    BY ONLY <2>1
<1>5. CASE I # {}
  <2>1. k \in I /\ \A i \in I : k <= i
    BY <1>1, <1>3, <1>5
  <2>2. k \in 1 .. Len(text)
    BY <2>1 DEF I
  <2>3. ASSUME NEW i \in 1 .. k - 1 PROVE text[i] = Space
    <3>1. i \in 1 .. Len(text) /\ ~(k <= i)
      BY <1>2, <2>2
    <3> QED
      BY <2>1, <3>1 DEF I
  <2>4. k \in 0 .. Len(text)
    BY <2>2
  <2> QED
    BY <2>3, <2>4
<1> QED
  BY <1>4, <1>5

\* A sequence of a first element, as many of another, and a text is the three joined.
LEMMA ThreeParts ==
    ASSUME NEW S, NEW w \in Seq(S), NEW text \in Seq(S), NEW x \in S, NEW y \in S, NEW k \in Nat,
           Len(w) = 1 + k + Len(text),
           w[1] = x,
           \A i \in 2 .. k + 1 : w[i] = y,
           \A i \in 1 .. Len(text) : w[1 + k + i] = text[i]
    PROVE  w = <<x>> \o [i \in 1 .. k |-> y] \o text
<1> DEFINE ys == [i \in 1 .. k |-> y]
           v == (<<x>> \o ys) \o text
<1>1. ys \in Seq(S) /\ Len(ys) = k /\ \A i \in 1 .. k : ys[i] = y
  <2>1. ys \in [1 .. k -> S]
    OBVIOUS
  <2> QED
    BY <2>1
<1>2. <<x>> \in Seq(S) /\ Len(<<x>>) = 1 /\ <<x>>[1] = x
  OBVIOUS
<1> HIDE DEF ys
<1> DEFINE u == <<x>> \o ys
<1>3. /\ u \in Seq(S) /\ Len(u) = 1 + k
      /\ \A i \in 1 .. 1 + k : u[i] = IF i = 1 THEN x ELSE y
  <2>1. u \in Seq(S) /\ Len(u) = 1 + k
    BY <1>1, <1>2
  <2>2. u[1] = x
    BY <1>1, <1>2
  <2>3. ASSUME NEW i \in 2 .. 1 + k PROVE u[i] = y
    <3>1. u[i] = ys[i - 1] /\ i - 1 \in 1 .. k
      BY <1>1, <1>2
    <3> QED
      BY <3>1, <1>1
  <2> QED
    BY <2>1, <2>2, <2>3
<1> HIDE DEF u
<1>4. v = u \o text
  BY DEF u
<1> HIDE DEF v
<1>5. v \in Seq(S) /\ Len(v) = Len(w)
  <2>1. v \in Seq(S)
    BY <1>3, <1>4
  <2>2. Len(v) = Len(u) + Len(text)
    BY <1>3, <1>4, ConcatProperties
  <2> QED
    BY <1>3, <2>1, <2>2
<1>6. ASSUME NEW i \in 1 .. Len(w) PROVE v[i] = w[i]
  <2>1. CASE i <= 1 + k
    <3>1. v[i] = u[i] /\ i \in 1 .. 1 + k
      BY <1>3, <1>4, <2>1
    <3>2. u[i] = IF i = 1 THEN x ELSE y
      BY <1>3, <3>1
    <3>3. i # 1 => i \in 2 .. k + 1
      BY <3>1
    <3> QED
      BY <3>1, <3>2, <3>3
  <2>2. CASE i > 1 + k
    <3>1. v[i] = text[i - (1 + k)] /\ i - (1 + k) \in 1 .. Len(text) /\ 1 + k + (i - (1 + k)) = i
      BY <1>3, <1>4, <2>2
    <3> QED
      BY <3>1
  <2> QED
    BY <2>1, <2>2
<1>7. v = w
  BY <1>5, <1>6
<1> QED
  BY <1>7 DEF v, ys

\* A bearer token is what one value says after a scheme and spaces.
LEMMA BearerToken ==
    ASSUME NEW values \in Seq(Seq(STRING)), NEW text, text = InboundBearerToken(values),
           text \notin {<<>>, Refused}
    PROVE  /\ Len(values) = 1
           /\ \E scheme \in {"Bearer", "bearer"}, k \in 1 .. Len(values[1]) :
                  values[1] = <<scheme>> \o [i \in 1 .. k |-> Space] \o text
           /\ ToSet(text) \cap Whitespace = {}
<1> DEFINE w == values[1]
           cut == SelectInSeq(w, LAMBDA c : c = Space)
           rest == SubSeq(w, cut + 1, Len(w))
           k == SelectInSeq(rest, LAMBDA c : c # Space)
<1>1. /\ values # <<>> /\ Len(values) = 1
      /\ cut > 1 /\ SubSeq(w, 1, cut - 1) \in {<<"Bearer">>, <<"bearer">>}
      /\ text = TrimLeft(rest) /\ text # <<>> /\ ToSet(text) \cap Whitespace = {}
  BY DEF InboundBearerToken
<1>2. w \in Seq(STRING)
  BY <1>1
<1>3. cut \in 0 .. Len(w) /\ w[cut] = Space
  <2>1. cut \in 0 .. Len(w) /\ (cut # 0 => w[cut] = Space)
    BY <1>2, FirstSpace
  <2> HIDE DEF cut, w
  <2> QED
    BY <1>1, <2>1
<1>4. rest \in Seq(STRING) /\ Len(rest) = Len(w) - cut /\ \A i \in 1 .. Len(rest) : rest[i] = w[cut + i]
  <2>1. Len(w) \in Nat /\ cut + 1 \in 1 .. Len(w) + 1
    BY <1>2, <1>3
  <2> HIDE DEF cut, w
  <2> QED
    BY <1>2, <2>1, <1>3
<1>5. k \in 0 .. Len(rest) /\ \A i \in 1 .. k - 1 : rest[i] = Space
  BY <1>4, FirstOther
<1>6. k # 0 /\ text = SubSeq(rest, k, Len(rest))
  BY <1>1 DEF TrimLeft
<1> HIDE DEF w, cut, rest, k
<1>7. PICK scheme \in {"Bearer", "bearer"} : SubSeq(w, 1, cut - 1) = <<scheme>>
  BY <1>1
<1>8. cut = 2 /\ w[1] = scheme
  <2>1. Len(SubSeq(w, 1, cut - 1)) = cut - 1 /\ SubSeq(w, 1, cut - 1)[1] = w[1]
    BY <1>1, <1>2, <1>3, cut - 1 \in 0 .. Len(w), BeginningOf
  <2>2. Len(<<scheme>>) = 1 /\ <<scheme>>[1] = scheme
    OBVIOUS
  <2>3. cut - 1 = 1
    BY <1>7, <2>1, <2>2
  <2>4. w[1] = scheme
    BY <1>7, <2>1, <2>2
  <2>5. cut \in Int
    BY <1>2, <1>3
  <2> QED
    BY <2>3, <2>4, <2>5
<1>9. w = <<scheme>> \o [i \in 1 .. k |-> Space] \o text
  <2>1. k \in Nat \ {0} /\ Len(w) \in Nat /\ Len(rest) = Len(w) - 2 /\ k <= Len(rest)
    BY <1>2, <1>4, <1>5, <1>6, <1>8
  <2>2. /\ text \in Seq(STRING) /\ Len(text) = Len(rest) - k + 1
        /\ \A i \in 1 .. Len(text) : text[i] = rest[k + i - 1]
    BY <1>4, <1>6, <2>1
  <2>3. ASSUME NEW i \in 2 .. k + 1 PROVE w[i] = Space
    <3>1. CASE i = 2
      BY <3>1, <1>3, <1>8
    <3>2. CASE i # 2
      <4>1. i - 2 \in 1 .. k - 1 /\ i - 2 \in 1 .. Len(rest) /\ 2 + (i - 2) = i
        BY <3>2, <2>1
      <4> QED
        BY <4>1, <1>4, <1>5, <1>8
    <3> QED
      BY <3>1, <3>2
  <2>4. ASSUME NEW i \in 1 .. Len(text) PROVE w[1 + k + i] = text[i]
    <3>1. k + i - 1 \in 1 .. Len(rest) /\ 2 + (k + i - 1) = 1 + k + i
      BY <2>1, <2>2
    <3> QED
      BY <3>1, <1>4, <1>8, <2>2
  <2>5. Len(w) = 1 + k + Len(text)
    BY <2>1, <2>2
  <2>6. scheme \in STRING /\ Space \in STRING
    BY <1>2, <1>8, <2>1, InboundAssumption
  <2>7. w[1] = scheme /\ text \in Seq(STRING) /\ k \in Nat
    BY <1>8, <2>1, <2>2
  <2> QED
    BY ONLY <1>2, <2>3, <2>4, <2>5, <2>6, <2>7, ThreeParts
<1>10. k \in 1 .. Len(w)
  BY <1>2, <1>4, <1>5, <1>6, <1>8
<1> QED
  BY <1>1, <1>9, <1>10 DEF w

\* Only an RPC that brought no value has no token.
LEMMA NoTokenIsNone ==
    ASSUME NEW values, InboundBearerToken(values) = <<>>
    PROVE  values = <<>>
<1>1. Refused # <<>>
  BY DEF Refused
<1> QED
  BY <1>1 DEF InboundBearerToken

\* What an option holds.
LEMMA Shaped ==
    ASSUME OptionsInv
    PROVE  /\ options \in Seq(Option) /\ Len(options) \in Nat
           /\ \A i \in DOMAIN options : options[i].is \in {"IDKey", "Headers", "Resolver"}
           /\ \A i \in DOMAIN options : options[i].is = "Headers" =>
                  \A e \in options[i].entries : e.name[1] \in STRING
<1>1. options \in Seq(Option)
  BY InboundAssumption DEF OptionsInv
<1>2. \A i \in DOMAIN options : options[i] \in Option
  BY <1>1
<1> QED
  BY <1>1, <1>2 DEF Option, Entry

LEMMA RPCInvInit == Init => RPCInv
<1> SUFFICES ASSUME Init PROVE RPCInv
  OBVIOUS
<1> USE DEF Init
<1>1. OptionsInv
  <2>1. options \in Seq(Option)
    BY InboundAssumption
  <2> QED
    BY <2>1 DEF OptionsInv, Stages
<1>2. KeyInv /\ HeadersInv
  BY DEF KeyInv, HeadersInv
<1>3. ConstructedInv /\ ReadInv /\ RequestInv
  BY DEF ConstructedInv, Constructed, ReadInv, Verified, RequestInv
<1> QED
  BY <1>1, <1>2, <1>3 DEF RPCInv

\* Applying an option makes it the last.
LEMMA ApplyOptionStep ==
    ASSUME RPCInv, ApplyOption
    PROVE  RPCInv'
<1> USE DEF RPCInv
<1> DEFINE n == applied + 1
           option == options[n]
<1>1. /\ n \in DOMAIN options /\ applied' = n /\ applied \in Nat /\ Len(options) \in Nat
      /\ options' = options /\ kind' = kind /\ rpc' = rpc /\ stage' = stage /\ stage = "applying"
  BY Shaped DEF ApplyOption, OptionsInv
<1>2. OptionsInv'
  BY <1>1 DEF OptionsInv, Forwardable
<1>3. KeyInv'
  <2>1. CASE option.is = "IDKey" /\ idKey' = option.key[1]
    BY <1>1, <2>1 DEF KeyInv
  <2>2. CASE option.is # "IDKey" /\ idKey' = idKey
    <3>1. \A i \in 1 .. n : i \in 1 .. applied \/ i = n
      BY <1>1
    <3> QED
      BY <1>1, <2>2, <3>1 DEF KeyInv
  <2> QED
    BY <2>1, <2>2 DEF ApplyOption
<1>4. HeadersInv'
  <2>1. CASE option.is # "Headers" /\ headers' = headers
    <3>1. \A name : ~Sets(n, name)
      BY <2>1 DEF Sets
    <3>2. \A i \in 1 .. n : i \in 1 .. applied \/ i = n
      BY <1>1
    <3> QED
      BY <1>1, <2>1, <3>1, <3>2 DEF HeadersInv, Sets, SetsTo
  <2>2. CASE option.is = "Headers" /\ headers' \in Merged(option.entries)
    <3> DEFINE names == {e.name[1] : e \in option.entries}
    <3>1. PICK h \in [names -> {e.value : e \in option.entries}] :
              /\ \A name \in names : \E e \in option.entries : e.name[1] = name /\ e.value = h[name]
              /\ headers' = [name \in names \cup DOMAIN headers |->
                                IF name \in names THEN h[name] ELSE headers[name]]
      BY <2>2 DEF Merged
    <3>2. /\ DOMAIN headers' = names \cup DOMAIN headers
          /\ \A name \in DOMAIN headers' : headers'[name] = IF name \in names THEN h[name] ELSE headers[name]
      BY <3>1
    <3>3. \A name : Sets(n, name) <=> name \in names
      BY <2>2 DEF Sets
    <3>4. \A name \in names : SetsTo(n, name, h[name])
      BY <2>2, <3>1 DEF SetsTo
    <3>5. \A i \in 1 .. n : i \in 1 .. applied \/ i = n
      BY <1>1
    <3>6. ASSUME NEW name \in DOMAIN headers'
          PROVE  \E j \in 1 .. n : SetsTo(j, name, headers'[name]) /\ \A k \in j + 1 .. n : ~Sets(k, name)
      <4>1. CASE name \in names
        BY <1>1, <3>2, <3>4, <4>1
      <4>2. CASE name \notin names
        <5>1. PICK j \in 1 .. applied : SetsTo(j, name, headers[name]) /\ \A k \in j + 1 .. applied : ~Sets(k, name)
          BY <3>2, <4>2 DEF HeadersInv
        <5>2. \A k \in j + 1 .. n : k \in j + 1 .. applied \/ k = n
          BY <1>1
        <5>3. \A k \in j + 1 .. n : ~Sets(k, name)
          BY <3>3, <4>2, <5>1, <5>2
        <5> QED
          BY <1>1, <3>2, <4>2, <5>1, <5>3
      <4> QED
        BY <4>1, <4>2
    <3>7. \A i \in 1 .. n : \A name \in STRING : Sets(i, name) => name \in DOMAIN headers'
      BY <3>2, <3>3, <3>5 DEF HeadersInv
    <3> QED
      BY <1>1, <3>6, <3>7 DEF HeadersInv, Sets, SetsTo
  <2> QED
    BY <2>1, <2>2 DEF ApplyOption
<1>5. ConstructedInv' /\ ReadInv' /\ RequestInv'
  BY <1>1 DEF ConstructedInv, Constructed, ReadInv, Verified, RequestInv
<1> QED
  BY <1>2, <1>3, <1>4, <1>5

\* The request-ID header there is, is one the endpoint does not set itself.
LEMMA KeyIsOwn ==
    ASSUME RPCInv, stage \notin {"options", "panicked"}
    PROVE  idKey = NoKey \/ idKey \in TokenNames \ Controlled
<1> USE DEF RPCInv
<1>1. CASE idKey = "X-Request-Id"
  BY <1>1, InboundAssumption DEF Controlled
<1>2. CASE \E i \in 1 .. applied : options[i].is = "IDKey" /\ idKey = options[i].key[1]
  <2>1. PICK i \in DOMAIN options : options[i].is = "IDKey" /\ idKey = options[i].key[1]
    BY <1>2, Shaped DEF OptionsInv
  <2> QED
    BY <2>1 DEF OptionsInv, Forwardable
<1> QED
  BY <1>1, <1>2 DEF KeyInv

\* The endpoint's own headers go in beside the static ones.
LEMMA SetOwnStep ==
    ASSUME RPCInv, SetOwn
    PROVE  OwnHeaders' /\ DOMAIN header' \subseteq DOMAIN headers \cup Controlled \cup {"Accept-Encoding"}
<1> DEFINE accept == Set(Set(header, "Content-Type", JSON), "Accept", JSON)
           coded == Coding(accept)
<1>1. /\ header = headers /\ headers' = headers /\ kind' = kind /\ token' = token
      /\ header' = Authorization(coded)
      /\ \A n \in DOMAIN headers : n \notin Controlled
  BY DEF SetOwn, RPCInv, RequestInv, ConstructedInv, Constructed, StaticHeadersOK, config
<1>2. /\ DOMAIN accept = DOMAIN headers \cup {"Content-Type", "Accept"}
      /\ accept["Content-Type"] = JSON /\ accept["Accept"] = JSON
      /\ \A n \in DOMAIN headers : accept[n] = headers[n]
  BY <1>1 DEF Set, Controlled
<1> HIDE DEF accept
<1>3. /\ DOMAIN accept \subseteq DOMAIN coded /\ DOMAIN coded \subseteq DOMAIN accept \cup {"Accept-Encoding"}
      /\ coded["Content-Type"] = JSON /\ coded["Accept"] = JSON
      /\ \A n \in DOMAIN headers :
             coded[n] = IF n = "Accept-Encoding" /\ headers[n] = <<>> THEN Identity ELSE headers[n]
  <2>1. CASE "Accept-Encoding" \in DOMAIN accept /\ accept["Accept-Encoding"] # <<>>
    BY <1>2, <2>1 DEF Coding
  <2>2. CASE ~("Accept-Encoding" \in DOMAIN accept /\ accept["Accept-Encoding"] # <<>>)
    <3>1. coded = Set(accept, "Accept-Encoding", Identity)
      BY <2>2 DEF Coding
    <3>2. ASSUME NEW n \in DOMAIN headers
          PROVE  coded[n] = IF n = "Accept-Encoding" /\ headers[n] = <<>> THEN Identity ELSE headers[n]
      BY <1>2, <2>2, <3>1 DEF Set
    <3> QED
      BY <1>2, <3>1, <3>2 DEF Set
  <2> QED
    BY <2>1, <2>2
<1> HIDE DEF coded
<1>4. CASE kind = "o3co"
  <2>1. header' = Set(coded, "Authorization", token)
    BY <1>1, <1>4 DEF Authorization
  <2> QED
    BY <1>1, <1>2, <1>3, <2>1 DEF Set, OwnHeaders, Controlled
<1>5. CASE kind # "o3co"
  <2>1. header' = coded
    BY <1>1, <1>5 DEF Authorization
  <2> QED
    BY <1>1, <1>2, <1>3, <1>5, <2>1 DEF OwnHeaders, Controlled
<1> QED
  BY <1>4, <1>5

\* The request ID takes no header's place.
LEMMA SetRequestIDStep ==
    ASSUME RPCInv, SetRequestID
    PROVE  /\ OwnHeaders'
           /\ IF idKey = NoKey THEN DOMAIN header' \subseteq DOMAIN headers \cup Controlled \cup {"Accept-Encoding"}
              ELSE header'[idKey] = requestID
<1>1. /\ stage = "identified" /\ OwnHeaders
      /\ headers' = headers /\ kind' = kind /\ token' = token
      /\ DOMAIN header \subseteq DOMAIN headers \cup Controlled \cup {"Accept-Encoding"}
      /\ requestID = InboundRequestID(rpc.ids)
      /\ StaticHeadersOK
  BY DEF SetRequestID, RPCInv, RequestInv, ReadInv, Verified, ConstructedInv, Constructed, config
<1>2. requestID # <<>>
  BY <1>1, InboundAssumption DEF InboundRequestID
<1>3. CASE idKey = NoKey
  BY <1>1, <1>3 DEF SetRequestID, OwnHeaders
<1>4. CASE idKey # NoKey
  <2>1. header' = Set(header, idKey, requestID)
    BY <1>2, <1>4 DEF SetRequestID
  <2>2. idKey \notin Controlled /\ idKey \notin DOMAIN headers
    BY <1>1, <1>4, KeyIsOwn DEF StaticHeadersOK
  <2>3. /\ header'[idKey] = requestID
        /\ \A n \in DOMAIN header : n \in DOMAIN header' /\ (n # idKey => header'[n] = header[n])
    BY <2>1 DEF Set
  <2>4. Controlled \cap {idKey} = {} /\ \A n \in DOMAIN headers : n # idKey
    BY <2>2
  <2>5. /\ \A n \in {"Content-Type", "Accept"} : header'[n] = header[n]
        /\ kind = "o3co" => header'["Authorization"] = header["Authorization"]
    BY <1>1, <2>1, <2>4 DEF Set, Controlled, OwnHeaders
  <2> QED
    BY <1>1, <1>4, <2>3, <2>4, <2>5 DEF OwnHeaders
<1> QED
  BY <1>3, <1>4

LEMMA RPCStep ==
    ASSUME RPCInv, [Next]_vars
    PROVE  RPCInv'
<1> USE DEF RPCInv
\* The parts a step that applies no option leaves alone.
<1>0. ASSUME UNCHANGED <<kind, options, rpc, applied, idKey, headers, resolver>>
      PROVE  KeyInv' /\ HeadersInv' /\ (StaticHeadersOK <=> StaticHeadersOK')
  BY <1>0 DEF KeyInv, HeadersInv, Sets, SetsTo, StaticHeadersOK
<1>1. CASE MakeOptions
  <2>1. OptionsInv'
    BY <1>1 DEF MakeOptions, OptionsInv, Stages, config, Forwardable
  <2>2. ConstructedInv' /\ ReadInv' /\ RequestInv'
    BY <1>1 DEF MakeOptions, ConstructedInv, Constructed, ReadInv, Verified, RequestInv
  <2> QED
    BY <1>0, <1>1, <2>1, <2>2 DEF MakeOptions, config
<1>2. CASE ApplyOption
  BY <1>2, ApplyOptionStep
<1>3. CASE Construct
  <2>1. OptionsInv'
    BY <1>3 DEF Construct, OptionsInv, Stages, config, Forwardable
  <2>2. ConstructedInv'
    BY <1>0, <1>3 DEF Construct, ConstructedInv, Constructed, config
  <2>3. ReadInv' /\ RequestInv'
    BY <1>3 DEF Construct, ReadInv, Verified, RequestInv
  <2> QED
    BY <1>0, <1>3, <2>1, <2>2, <2>3 DEF Construct, config
<1>4. CASE Receive
  <2>1. OptionsInv'
    BY <1>4 DEF Receive, OptionsInv, Stages, config, Forwardable
  <2>2. ConstructedInv'
    BY <1>0, <1>4 DEF Receive, ConstructedInv, Constructed, config
  <2>3. ReadInv'
    <3> DEFINE read == InboundBearerToken(rpc.authorization)
    <3>1. /\ token' = IF read = Refused THEN <<>> ELSE read
          /\ stage' = IF read = Refused THEN "unreadable"
                      ELSE IF read = <<>> \/ (kind = "Cedar" /\ Principal[read] = <<>>) THEN "unasked" ELSE "asked"
          /\ requestID' = InboundRequestID(rpc.ids) /\ rpc' = rpc
      BY <1>4 DEF Receive
    <3>2. read = <<>> => rpc.authorization = <<>>
      BY NoTokenIsNone
    <3> HIDE DEF read
    <3>3. Verified' => token' = read /\ token' \notin {<<>>, Refused}
      BY <3>1 DEF Verified
    <3>4. stage' = "unasked" /\ token' = <<>> => rpc'.authorization = <<>>
      BY <3>1, <3>2
    <3> QED
      BY <3>1, <3>3, <3>4 DEF ReadInv, read
  <2>4. RequestInv'
    BY <1>4 DEF Receive, RequestInv
  <2> QED
    BY <1>0, <1>4, <2>1, <2>2, <2>3, <2>4 DEF Receive, config
<1>5. CASE AddStatic
  <2>1. OptionsInv'
    BY <1>5 DEF AddStatic, OptionsInv, Stages, config, Forwardable
  <2>2. ConstructedInv'
    BY <1>0, <1>5 DEF AddStatic, ConstructedInv, Constructed, config
  <2>3. ReadInv'
    BY <1>5 DEF AddStatic, ReadInv, Verified
  <2>4. ASSUME kind = "OPA" PROVE body'.token = Runes(token)
    <3>1. PICK fields : body' = Set(fields, "token", Runes(token))
      BY <1>5, <2>4 DEF AddStatic, Body
    <3> QED
      BY <3>1 DEF Set
  <2>5. RequestInv'
    BY <1>5, <2>4 DEF AddStatic, Body, Entities, RequestInv, config
  <2> QED
    BY <1>0, <1>5, <2>1, <2>2, <2>3, <2>5 DEF AddStatic, config
<1>6. CASE SetOwn
  <2>1. OptionsInv'
    BY <1>6 DEF SetOwn, OptionsInv, Stages, config, Forwardable
  <2>2. ConstructedInv'
    BY <1>0, <1>6 DEF SetOwn, ConstructedInv, Constructed, config
  <2>3. ReadInv'
    BY <1>6 DEF SetOwn, ReadInv, Verified
  <2>4. RequestInv'
    BY <1>6, SetOwnStep DEF SetOwn, Entities, RequestInv, config
  <2> QED
    BY <1>0, <1>6, <2>1, <2>2, <2>3, <2>4 DEF SetOwn, config
<1>7. CASE SetRequestID
  <2>1. OptionsInv'
    BY <1>7 DEF SetRequestID, OptionsInv, Stages, config, Forwardable
  <2>2. ConstructedInv'
    BY <1>0, <1>7 DEF SetRequestID, ConstructedInv, Constructed, config
  <2>3. ReadInv'
    BY <1>7 DEF SetRequestID, ReadInv, Verified
  <2>4. RequestInv'
    BY <1>7, SetRequestIDStep DEF SetRequestID, Entities, RequestInv, config
  <2> QED
    BY <1>0, <1>7, <2>1, <2>2, <2>3, <2>4 DEF SetRequestID, config
<1>8. CASE UNCHANGED vars
  BY <1>0, <1>8 DEF vars, OptionsInv, Forwardable, ConstructedInv, Constructed, ReadInv, Verified, RequestInv, Entities, OwnHeaders
<1> QED
  BY <1>1, <1>2, <1>3, <1>4, <1>5, <1>6, <1>7, <1>8 DEF Next, Over

LEMMA RPCInvHolds == Spec => []RPCInv
<1>1. Init => RPCInv
  BY RPCInvInit
<1>2. RPCInv /\ [Next]_vars => RPCInv'
  BY RPCStep
<1> QED
  BY <1>1, <1>2, PTL DEF Spec

\* The backend is asked about the one credential the caller sent, whatever headers the
\* service configured and in whatever order, and an RPC is taken for one without only if it
\* brought none.
THEOREM CredentialIsSubjects == Spec => []SubjectsOwnCredential
<1>1. ASSUME RPCInv PROVE SubjectsOwnCredential
  <2> USE <1>1 DEF RPCInv
  <2> SUFFICES ASSUME stage = "sent" PROVE SubjectsOwnCredential
    BY DEF SubjectsOwnCredential, ReadInv
  <2>1. /\ token = InboundBearerToken(rpc.authorization) /\ token \notin {<<>>, Refused}
        /\ rpc.authorization \in Seq(Seq(STRING))
    BY InboundAssumption DEF ReadInv, Verified, OptionsInv
  <2>2. /\ Len(rpc.authorization) = 1
        /\ \E scheme \in {"Bearer", "bearer"}, k \in 1 .. Len(rpc.authorization[1]) :
               rpc.authorization[1] = <<scheme>> \o [i \in 1 .. k |-> Space] \o token
        /\ ToSet(token) \cap Whitespace = {}
    BY <2>1, BearerToken
  <2>3. /\ kind = "o3co" => header["Authorization"] = token
        /\ kind = "OPA" => body.token = Runes(token)
        /\ header["Content-Type"] = JSON /\ header["Accept"] = JSON
    BY DEF RequestInv, OwnHeaders
  <2> QED
    BY <2>1, <2>2, <2>3 DEF SubjectsOwnCredential
<1> QED
  BY <1>1, RPCInvHolds, PTL

\* Every configured header arrives, with a value of the last option that set it.
THEOREM ConfiguredHeadersArrive == Spec => []StaticHeadersArrive
<1>1. ASSUME RPCInv PROVE StaticHeadersArrive
  <2> USE <1>1 DEF RPCInv
  <2> SUFFICES ASSUME stage = "sent", NEW i \in DOMAIN options, options[i].is = "Headers",
                      NEW e \in options[i].entries
               PROVE  \E j \in i .. Len(options) :
                          /\ options[j].is = "Headers"
                          /\ \E f \in options[j].entries :
                                 /\ f.name[1] = e.name[1]
                                 /\ header[e.name[1]] = IF e.name[1] = "Accept-Encoding" /\ f.value = <<>>
                                                       THEN Identity ELSE f.value
                          /\ \A k \in j + 1 .. Len(options) :
                                 options[k].is = "Headers" => \A f \in options[k].entries : f.name[1] # e.name[1]
    BY DEF StaticHeadersArrive
  <2> DEFINE name == e.name[1]
  <2>1. applied = Len(options) /\ Len(options) \in Nat /\ i \in 1 .. applied /\ name \in STRING
    BY Shaped DEF ConstructedInv, Constructed
  <2>2. Sets(i, name)
    BY DEF Sets
  <2>3. name \in DOMAIN headers
    BY <2>1, <2>2 DEF HeadersInv
  <2>4. PICK j \in 1 .. applied : SetsTo(j, name, headers[name]) /\ \A k \in j + 1 .. applied : ~Sets(k, name)
    BY <2>3 DEF HeadersInv
  <2>5. i <= j
    BY <2>1, <2>2, <2>4
  <2>6. header[name] = IF name = "Accept-Encoding" /\ headers[name] = <<>> THEN Identity ELSE headers[name]
    BY <2>3 DEF RequestInv, OwnHeaders
  <2>7. PICK f \in options[j].entries : options[j].is = "Headers" /\ f.name[1] = name /\ f.value = headers[name]
    BY <2>4 DEF SetsTo
  <2>8. \A k \in j + 1 .. Len(options) : options[k].is = "Headers" => \A g \in options[k].entries : g.name[1] # name
    BY <2>1, <2>4 DEF Sets
  <2>9. j \in i .. Len(options)
    BY <2>1, <2>5
  <2> QED
    BY <2>6, <2>7, <2>8, <2>9
<1> QED
  BY <1>1, RPCInvHolds, PTL

\* The request ID goes out under the name the last option gives, or not at all.
THEOREM RequestIDsJoin == Spec => []RequestIDJoins
<1>1. ASSUME RPCInv PROVE RequestIDJoins
  <2> USE <1>1 DEF RPCInv
  <2> DEFINE name == IF LastOf("IDKey") = {} THEN "X-Request-Id"
                     ELSE options[CHOOSE i \in LastOf("IDKey") : TRUE].key[1]
  <2> SUFFICES ASSUME stage = "sent" PROVE RequestIDJoins
    BY DEF RequestIDJoins
  <2>1. applied = Len(options) /\ Len(options) \in Nat
    BY Shaped DEF ConstructedInv, Constructed
  <2>2. name = idKey
    <3>1. CASE idKey = "X-Request-Id" /\ \A i \in 1 .. applied : options[i].is # "IDKey"
      <4>1. LastOf("IDKey") = {}
        BY <2>1, <3>1 DEF LastOf
      <4> QED
        BY <3>1, <4>1
    <3>2. ASSUME NEW i \in 1 .. applied, options[i].is = "IDKey", idKey = options[i].key[1],
                 \A j \in i + 1 .. applied : options[j].is # "IDKey"
          PROVE  name = idKey
      <4>1. \A j \in DOMAIN options : options[j].is = "IDKey" => j <= i
        BY <2>1, <3>2
      <4>2. i \in LastOf("IDKey")
        BY <2>1, <3>2, <4>1 DEF LastOf
      <4>3. \A j \in LastOf("IDKey") : j = i
        BY <2>1, <3>2, <4>1 DEF LastOf
      <4> QED
        BY <3>2, <4>2, <4>3
    <3> QED
      BY <3>1, <3>2 DEF KeyInv
  <2>3. requestID = InboundRequestID(rpc.ids)
    BY DEF ReadInv, Verified
  <2>4. requestID \in WellFormedIDs /\ \A id \in WellFormedIDs : rpc.ids = <<id>> => requestID = id
    <3>1. requestID \in WellFormedIDs
      BY <2>3, InboundAssumption DEF InboundRequestID
    <3>2. ASSUME NEW id \in WellFormedIDs, rpc.ids = <<id>> PROVE requestID = id
      <4>1. Len(rpc.ids) = 1 /\ rpc.ids[1] = id
        BY <3>2
      <4> QED
        BY <2>3, <4>1 DEF InboundRequestID
    <3> QED
      BY <3>1, <3>2
  <2>5. CASE idKey = NoKey
    <3>1. \A n \in DOMAIN header \ (Controlled \cup {"Accept-Encoding"}) : n \in DOMAIN headers
      BY <2>5 DEF RequestInv
    <3>2. \A n \in DOMAIN headers : \E i \in DOMAIN options :
              options[i].is = "Headers" /\ \E e \in options[i].entries : e.name[1] = n
      BY <2>1 DEF HeadersInv, SetsTo
    <3> HIDE DEF name
    <3> QED
      BY <2>2, <2>4, <2>5, <3>1, <3>2 DEF RequestIDJoins, name
  <2>6. CASE idKey # NoKey
    <3>1. header[idKey] = requestID
      BY <2>6 DEF RequestInv
    <3> QED
      BY <2>2, <2>4, <2>6, <3>1 DEF RequestIDJoins
  <2> QED
    BY <2>5, <2>6
<1> QED
  BY <1>1, RPCInvHolds, PTL

-----------------------------------------------------------------------------
(* Entity UIDs.                                                            *)

Types == {"User", "Action", "Resource"}
Char == STRING \cup {Quote, Backslash, "::"} \cup Types

\* What a character is escaped as.
LEMMA EscapedIs ==
    ASSUME NEW c \in STRING
    PROVE  /\ Escaped(c) \in Seq(Char) /\ Escaped(c) # <<>>
           /\ \/ Escaped(c) \in {<<Backslash, Quote>>, <<Backslash, Backslash>>}
              \/ /\ Escaped(c)[Len(Escaped(c))] # Backslash
                 /\ \A i \in 1 .. Len(Escaped(c)) : Escaped(c)[i] # Quote
<1>1. CASE c \in {Quote, Backslash}
  <2>1. Escaped(c) = <<Backslash, c>> /\ Backslash \in Char /\ c \in Char
    BY <1>1 DEF Escaped, Char
  <2>2. <<Backslash, c>> \in Seq(Char) /\ <<Backslash, c>> # <<>>
    BY <2>1, Two
  <2>3. Escaped(c) \in {<<Backslash, Quote>>, <<Backslash, Backslash>>}
    BY <1>1, <2>1
  <2> QED
    BY <2>1, <2>2, <2>3
<1>2. CASE c \notin {Quote, Backslash} /\ c \in Control
  <2>1. Escaped(c) = Escape[c]
    BY <1>2 DEF Escaped
  <2>2. /\ Escape[c] \in Seq(STRING) /\ Len(Escape[c]) > 1
        /\ \A i \in DOMAIN Escape[c] : Escape[c][i] # Quote /\ (Escape[c][i] = Backslash <=> i = 1)
    BY <1>2, EscapeAssumption
  <2>3. PICK x : x = Escape[c]
    OBVIOUS
  <2>4. /\ x \in Seq(Char) /\ x # <<>>
        /\ Len(x) \in DOMAIN x /\ Len(x) # 1
        /\ \A i \in 1 .. Len(x) : i \in DOMAIN x
    BY <2>2, <2>3 DEF Char
  <2>5. x[Len(x)] # Backslash /\ \A i \in 1 .. Len(x) : x[i] # Quote
    BY <2>2, <2>3, <2>4
  <2> QED
    BY <2>1, <2>3, <2>4, <2>5
<1>3. CASE c \notin {Quote, Backslash} /\ c \notin Control
  <2> DEFINE r == Rune(c)
  <2>1. Escaped(c) = <<r>> /\ r \in STRING \ {Quote, Backslash} /\ r \in Char
    BY <1>3, RuneAssumption DEF Escaped, Rune, Char
  <2> HIDE DEF r
  <2>2. <<r>> \in Seq(Char) /\ Len(<<r>>) = 1 /\ <<r>>[1] = r /\ <<r>> # <<>>
    BY <2>1, One
  <2>3. \A i \in 1 .. Len(<<r>>) : i = 1
    BY <2>2
  <2> QED
    BY <2>1, <2>2, <2>3
<1> QED
  BY <1>1, <1>2, <1>3

\* What shows at its start which of the three it is.
LEMMA EscapeStarts ==
    ASSUME NEW c \in STRING
    PROVE  /\ 1 \in DOMAIN Escaped(c)
           /\ Escaped(c)[1] = Backslash =>
                  /\ c \in {Quote, Backslash} \cup Control
                  /\ 2 \in DOMAIN Escaped(c)
                  /\ IF c \in Control THEN Escaped(c)[2] \notin {Quote, Backslash} ELSE Escaped(c)[2] = c
           /\ Escaped(c)[1] # Backslash => Escaped(c)[1] = Rune(c)
<1>1. CASE c \in {Quote, Backslash}
  <2>1. Escaped(c) = <<Backslash, c>> /\ c \notin Control
    BY <1>1, EscapeAssumption DEF Escaped
  <2>2. Escaped(c)[1] = Backslash /\ Escaped(c)[2] = c /\ DOMAIN Escaped(c) = {1, 2}
    BY <2>1, Two
  <2> QED
    BY <1>1, <2>1, <2>2
<1>2. CASE c \in Control
  <2> DEFINE e == Escape[c]
  <2>1. Escaped(c) = e
    BY <1>2, EscapeAssumption DEF Escaped
  <2>2. /\ e \in Seq(STRING) /\ Len(e) > 1
        /\ \A i \in DOMAIN e : e[i] # Quote /\ (e[i] = Backslash <=> i = 1)
    BY <1>2, EscapeAssumption
  <2> HIDE DEF e
  <2>3. 1 \in DOMAIN e /\ 2 \in DOMAIN e
    BY <2>2
  <2>4. e[1] = Backslash /\ e[2] \notin {Quote, Backslash}
    BY <2>2, <2>3
  <2> QED
    BY <1>2, <2>1, <2>3, <2>4
<1>3. CASE c \notin {Quote, Backslash} \cup Control
  <2>1. Escaped(c) = <<Rune(c)>> /\ Rune(c) # Backslash
    BY <1>3, RuneAssumption DEF Escaped, Rune
  <2>2. Escaped(c)[1] = Rune(c) /\ DOMAIN Escaped(c) = {1}
    BY <2>1, One
  <2> QED
    BY <2>1, <2>2
<1> QED
  BY <1>1, <1>2, <1>3

\* Bytes that read alike are escaped alike.
LEMMA EscapedAlike ==
    ASSUME NEW c \in STRING, NEW d \in STRING, Rune(c) = Rune(d)
    PROVE  Escaped(c) = Escaped(d)
<1>1. CASE c = d
  BY <1>1
<1>2. CASE c # d
  <2>1. c \in Invalid \cup {Replacement} /\ d \in Invalid \cup {Replacement}
    BY <1>2, Rune(c) = Rune(d) DEF Rune
  <2>2. c \notin {Quote, Backslash} \cup Control /\ d \notin {Quote, Backslash} \cup Control
    BY <2>1, RuneAssumption
  <2> QED
    BY <2>2 DEF Escaped
<1> QED
  BY <1>1, <1>2

\* The escapes of two characters that read otherwise differ in a place both have.
LEMMA EscapesDiffer ==
    ASSUME NEW c \in STRING, NEW d \in STRING, Rune(c) # Rune(d)
    PROVE  \E i \in DOMAIN Escaped(c) \cap DOMAIN Escaped(d) : Escaped(c)[i] # Escaped(d)[i]
<1>1. CASE c \in Control /\ d \in Control
  <2>1. Escaped(c) = Escape[c] /\ Escaped(d) = Escape[d]
    BY <1>1, EscapeAssumption DEF Escaped
  <2>2. \E i \in DOMAIN Escape[c] \cap DOMAIN Escape[d] : Escape[c][i] # Escape[d][i]
    BY <1>1, EscapeAssumption
  <2> QED
    BY <2>1, <2>2
<1>2. CASE Escaped(c)[1] # Backslash \/ Escaped(d)[1] # Backslash
  BY <1>2, EscapeStarts
<1>3. CASE Escaped(c)[1] = Backslash /\ Escaped(d)[1] = Backslash /\ ~(c \in Control /\ d \in Control)
  <2>1. 2 \in DOMAIN Escaped(c) /\ 2 \in DOMAIN Escaped(d)
    BY <1>3, EscapeStarts
  <2>2. Escaped(c)[2] # Escaped(d)[2]
    BY <1>3, EscapeStarts
  <2> QED
    BY <2>1, <2>2
<1> QED
  BY <1>1, <1>2, <1>3

Pieces(id) == [i \in DOMAIN id |-> Escaped(id[i])]

LEMMA PiecesType ==
    ASSUME NEW id \in Seq(STRING)
    PROVE  Pieces(id) \in Seq(Seq(Char)) /\ Len(Pieces(id)) = Len(id)
<1>1. Pieces(id) \in [1 .. Len(id) -> Seq(Char)]
  BY EscapedIs DEF Pieces
<1> QED
  BY <1>1

\* An escaped text says which text it is, as it reads.
LEMMA EscapedOnce ==
    ASSUME NEW id1 \in Seq(STRING), NEW id2 \in Seq(STRING),
           FlattenSeq(Pieces(id1)) = FlattenSeq(Pieces(id2))
    PROVE  Runes(id1) = Runes(id2)
<1>1. \A i \in DOMAIN id1 : Pieces(id1)[i] = Escaped(id1[i]) /\ id1[i] \in STRING
  BY DEF Pieces
<1>2. \A i \in DOMAIN id2 : Pieces(id2)[i] = Escaped(id2[i]) /\ id2[i] \in STRING
  BY DEF Pieces
<1>3. DOMAIN Pieces(id1) = DOMAIN id1 /\ DOMAIN Pieces(id2) = DOMAIN id2
  BY DEF Pieces
<1> DEFINE s == Pieces(id1)
           t == Pieces(id2)
<1>4. s \in Seq(Seq(Char)) /\ t \in Seq(Seq(Char)) /\ Len(s) = Len(id1) /\ Len(t) = Len(id2)
  BY PiecesType
<1>5. (\A i \in DOMAIN s : s[i] # <<>>) /\ (\A i \in DOMAIN t : t[i] # <<>>)
  BY <1>1, <1>2, <1>3, EscapedIs
<1>6. \A i \in DOMAIN s, j \in DOMAIN t :
          s[i] # t[j] => \E k \in DOMAIN s[i] \cap DOMAIN t[j] : s[i][k] # t[j][k]
  <2>1. SUFFICES ASSUME NEW i \in DOMAIN s, NEW j \in DOMAIN t, s[i] # t[j]
                 PROVE  \E k \in DOMAIN s[i] \cap DOMAIN t[j] : s[i][k] # t[j][k]
    OBVIOUS
  <2>2. s[i] = Escaped(id1[i]) /\ id1[i] \in STRING /\ t[j] = Escaped(id2[j]) /\ id2[j] \in STRING
    BY <1>1, <1>2, <1>3
  <2>3. Rune(id1[i]) # Rune(id2[j])
    BY <2>1, <2>2, EscapedAlike
  <2>4. \E k \in DOMAIN Escaped(id1[i]) \cap DOMAIN Escaped(id2[j]) : Escaped(id1[i])[k] # Escaped(id2[j])[k]
    BY <2>2, <2>3, EscapesDiffer
  <2> HIDE DEF s, t
  <2> QED
    BY <2>2, <2>4
<1>7. s = t
  <2> HIDE DEF s, t
  <2>1. Apart(s, t)
    BY <1>5, <1>6 DEF Apart
  <2> QED
    BY <1>4, <2>1, PrefixCode DEF s, t
<1>8. Len(id1) = Len(id2)
  BY <1>4, <1>7
<1>9. ASSUME NEW i \in 1 .. Len(id1) PROVE Rune(id1[i]) = Rune(id2[i])
  <2>1. i \in DOMAIN id1 /\ i \in DOMAIN id2
    BY <1>8
  <2>2. Escaped(id1[i]) = Escaped(id2[i])
    BY <1>1, <1>2, <1>7, <2>1
  <2> QED
    BY <1>1, <1>2, <2>1, <2>2, EscapesDiffer
<1>10. DOMAIN id1 = 1 .. Len(id1) /\ DOMAIN id2 = 1 .. Len(id1)
  BY <1>8
<1> QED
  BY <1>9, <1>10 DEF Runes

\* The r characters of a text that end at its i-th, and no more, are backslashes.
Run(text, i, r) ==
    /\ r \in 0 .. i
    /\ \A k \in i - r + 1 .. i : text[k] = Backslash
    /\ r < i => text[i - r] # Backslash

\* Every quote is escaped, and the end of the text escapes nothing.
Balanced(text) ==
    /\ \E h \in Nat : Run(text, Len(text), 2 * h)
    /\ \A i \in 1 .. Len(text) : text[i] = Quote => \E h \in Nat : Run(text, i - 1, 2 * h + 1)

\* A run is a matter of the characters up to its end.
LEMMA RunOf ==
    ASSUME NEW text, NEW longer, NEW i \in Nat, NEW r, Run(text, i, r),
           \A k \in 1 .. i : longer[k] = text[k]
    PROVE  Run(longer, i, r)
<1>1. r \in 0 .. i /\ \A k \in i - r + 1 .. i : k \in 1 .. i
  BY DEF Run
<1>2. r < i => i - r \in 1 .. i
  BY <1>1
<1> QED
  BY <1>1, <1>2 DEF Run

LEMMA BalancedStep ==
    ASSUME NEW e \in Seq(Char), Balanced(e), NEW c \in STRING
    PROVE  Balanced(e \o Escaped(c))
<1> DEFINE p == Escaped(c)
           f == e \o p
           L == Len(e)
<1>1. p \in Seq(Char) /\ p # <<>>
  BY EscapedIs
<1>2. L \in Nat /\ Len(p) \in Nat \ {0}
  <2> HIDE DEF p
  <2> QED
    BY <1>1
<1>3. /\ f \in Seq(Char) /\ Len(f) = L + Len(p)
      /\ \A k \in 1 .. L : f[k] = e[k]
      /\ \A k \in 1 .. Len(p) : f[L + k] = p[k]
  <2> HIDE DEF p
  <2>1. f \in Seq(Char) /\ Len(f) = L + Len(p)
    BY <1>1
  <2>2. \A k \in 1 .. L : f[k] = e[k]
    BY <1>1, <1>2
  <2>3. \A k \in 1 .. Len(p) : f[L + k] = p[k]
    BY <1>1, <1>2
  <2> QED
    BY <2>1, <2>2, <2>3
<1> HIDE DEF p, f, L
\* The quotes there were stay escaped.
<1>4. ASSUME NEW i \in 1 .. L, f[i] = Quote PROVE \E h \in Nat : Run(f, i - 1, 2 * h + 1)
  <2>1. PICK h \in Nat : Run(e, i - 1, 2 * h + 1)
    BY <1>3, <1>4 DEF Balanced, L
  <2>2. i - 1 \in Nat /\ \A k \in 1 .. i - 1 : f[k] = e[k]
    BY <1>2, <1>3
  <2> QED
    BY <2>1, <2>2, RunOf
<1>5. PICK h \in Nat : Run(f, L, 2 * h)
  <2>1. PICK h \in Nat : Run(e, L, 2 * h)
    BY DEF Balanced, L
  <2> QED
    BY <1>2, <1>3, <2>1, RunOf
<1>6. CASE p \in {<<Backslash, Quote>>, <<Backslash, Backslash>>}
  <2>1. Len(p) = 2 /\ p[1] = Backslash /\ p[2] \in {Quote, Backslash}
    BY <1>6, Two
  <2>2. Len(f) = L + 2 /\ f[L + 1] = Backslash /\ f[L + 2] = p[2]
    BY <1>2, <1>3, <2>1
  <2>3. Run(f, L + 1, 2 * h + 1)
    <3>1. 2 * h \in 0 .. L /\ \A k \in L - 2 * h + 1 .. L : f[k] = Backslash
      BY <1>5 DEF Run
    <3>2. \A k \in (L + 1) - (2 * h + 1) + 1 .. L + 1 : k \in L - 2 * h + 1 .. L \/ k = L + 1
      BY <1>2, <3>1
    <3>3. (L + 1) - (2 * h + 1) = L - 2 * h /\ 2 * h + 1 \in 0 .. L + 1 /\ (2 * h + 1 < L + 1 => 2 * h < L)
      BY <1>2, <3>1
    <3> QED
      BY <1>5, <2>2, <3>1, <3>2, <3>3 DEF Run
  <2>4. CASE p[2] = Quote
    <3>1. Run(f, Len(f), 2 * 0)
      <4>1. f[L + 2] # Backslash
        BY <2>2, <2>4 DEF Quote, Backslash
      <4>2. Len(f) \in Nat /\ Len(f) - 2 * 0 = L + 2
        BY <1>2, <2>2
      <4> QED
        BY <4>1, <4>2 DEF Run
    <3>2. ASSUME NEW i \in 1 .. Len(f), f[i] = Quote PROVE \E g \in Nat : Run(f, i - 1, 2 * g + 1)
      <4>1. i \in 1 .. L \/ i = L + 1 \/ i = L + 2
        BY <1>2, <2>2
      <4>2. i # L + 1
        BY <2>2, <3>2 DEF Quote, Backslash
      <4>3. CASE i = L + 2
        <5>1. i - 1 = L + 1
          BY <1>2, <4>3
        <5> QED
          BY <2>3, <5>1
      <4> QED
        BY <1>4, <3>2, <4>1, <4>2, <4>3
    <3> QED
      BY <3>1, <3>2 DEF Balanced, f, p
  <2>5. CASE p[2] = Backslash
    <3>1. Run(f, L + 2, 2 * (h + 1))
      <4>1. 2 * h + 1 \in 0 .. L + 1 /\ \A k \in (L + 1) - (2 * h + 1) + 1 .. L + 1 : f[k] = Backslash
        BY <2>3 DEF Run
      <4>2. \A k \in (L + 2) - 2 * (h + 1) + 1 .. L + 2 :
                k \in (L + 1) - (2 * h + 1) + 1 .. L + 1 \/ k = L + 2
        BY <1>2, <4>1
      <4>3. /\ (L + 2) - 2 * (h + 1) = (L + 1) - (2 * h + 1) /\ 2 * (h + 1) \in 0 .. L + 2
            /\ 2 * (h + 1) < L + 2 => 2 * h + 1 < L + 1
        BY <1>2, <4>1
      <4> QED
        BY <2>2, <2>3, <2>5, <4>1, <4>2, <4>3 DEF Run
    <3>2. ASSUME NEW i \in 1 .. Len(f), f[i] = Quote PROVE \E g \in Nat : Run(f, i - 1, 2 * g + 1)
      <4>1. i \in 1 .. L \/ i = L + 1 \/ i = L + 2
        BY <1>2, <2>2
      <4>2. i # L + 1 /\ i # L + 2
        BY <2>2, <2>5, <3>2 DEF Quote, Backslash
      <4> QED
        BY <1>4, <3>2, <4>1, <4>2
    <3>3. \E g \in Nat : Run(f, Len(f), 2 * g)
      <4>1. h + 1 \in Nat
        OBVIOUS
      <4> QED
        BY <2>2, <3>1, <4>1
    <3> QED
      BY <3>2, <3>3 DEF Balanced, f, p
  <2> QED
    BY <2>1, <2>4, <2>5 DEF f, p
<1>7. CASE p[Len(p)] # Backslash /\ \A i \in 1 .. Len(p) : p[i] # Quote
  <2>1. f[Len(f)] # Backslash /\ Len(f) \in Nat
    BY <1>2, <1>3, <1>7
  <2>2. Run(f, Len(f), 2 * 0)
    BY <2>1 DEF Run
  <2>3. ASSUME NEW i \in 1 .. Len(f), f[i] = Quote PROVE \E g \in Nat : Run(f, i - 1, 2 * g + 1)
    <3>1. CASE i > L
      <4>1. i - L \in 1 .. Len(p) /\ L + (i - L) = i
        BY <1>2, <1>3, <3>1
      <4> QED
        BY <1>3, <1>7, <2>3, <4>1
    <3>2. CASE i \in 1 .. L
      BY <1>4, <2>3, <3>2
    <3> QED
      BY <1>2, <1>3, <3>1, <3>2
  <2> QED
    BY <2>2, <2>3 DEF Balanced, f, p
<1> QED
  BY <1>6, <1>7, EscapedIs DEF p, f

LEMMA BalancedText ==
    ASSUME NEW id \in Seq(STRING)
    PROVE  FlattenSeq(Pieces(id)) \in Seq(Char) /\ Balanced(FlattenSeq(Pieces(id)))
<1> DEFINE s == Pieces(id)
<1>1. s \in Seq(Seq(Char)) /\ Len(s) = Len(id) /\ Len(s) \in Nat
  BY PiecesType
<1> HIDE DEF s
<1>2. PICK F \in [0 .. Len(s) -> Seq(Char)] : Flattens(F, s)
  BY <1>1, Flattening
<1> DEFINE P == {n \in Nat : n <= Len(s) => Balanced(F[n])}
<1>3. 0 \in P
  <2>1. F[0] = <<>> /\ Len(<<>>) = 0
    BY <1>2 DEF Flattens
  <2>2. Run(<<>>, 0, 2 * 0)
    BY DEF Run
  <2>3. Balanced(<<>>)
    BY <2>1, <2>2 DEF Balanced
  <2> QED
    BY <2>1, <2>3
<1>4. ASSUME NEW n \in 0 .. Len(s) - 1, n \in P PROVE n + 1 \in P
  <2>1. n \in 0 .. Len(s) /\ n + 1 \in 1 .. Len(s) /\ (n + 1) - 1 = n /\ n + 1 \in DOMAIN id
    BY <1>1
  <2>2. F[n + 1] = F[n] \o s[n + 1] /\ F[n] \in Seq(Char) /\ Balanced(F[n])
    <3>1. F[n + 1] = F[(n + 1) - 1] \o s[n + 1]
      BY <1>2, <2>1 DEF Flattens
    <3>2. n <= Len(s)
      BY <1>1
    <3> QED
      BY <1>2, <1>4, <2>1, <3>1, <3>2
  <2>3. s[n + 1] = Escaped(id[n + 1]) /\ id[n + 1] \in STRING
    BY <2>1 DEF s, Pieces
  <2>4. Balanced(F[n + 1])
    BY <2>2, <2>3, BalancedStep
  <2> QED
    BY <2>1, <2>4
<1>5. Len(s) \in P
  <2>1. \A n \in 0 .. Len(s) - 1 : n \in P => n + 1 \in P
    BY <1>4
  <2> HIDE DEF P
  <2>2. \A n \in 0 .. Len(s) : n \in P
    BY <1>1, <1>3, <2>1, UpTo
  <2> QED
    BY <1>1, <2>2
<1> QED
  BY <1>1, <1>2, <1>5 DEF Flattens, s

\* The characters of an entity UID.
LEMMA EntityUIDIs ==
    ASSUME NEW type \in Types, NEW id \in Seq(STRING), NEW e, e = FlattenSeq(Pieces(id)),
           NEW uid, uid = EntityUID(type, id)
    PROVE  /\ Len(e) \in Nat /\ Len(uid) = Len(e) + 4
           /\ \A k \in 1 .. Len(e) : uid[3 + k] = e[k]
           /\ uid[Len(e) + 4] = Quote
<1>1. e \in Seq(Char)
  BY BalancedText
<1>2. PICK head : head = <<type, "::", Quote>>
  OBVIOUS
<1>3. head \in Seq(Char) /\ Quote \in Char
  <2>1. type \in Char /\ "::" \in Char /\ Quote \in Char
    BY DEF Char
  <2> QED
    BY <1>2, <2>1
<1>4. uid = head \o e \o <<Quote>>
  BY <1>2 DEF EntityUID, Pieces
<1>5. /\ Len(e) \in Nat /\ Len(uid) = Len(head) + Len(e) + 1
      /\ \A k \in 1 .. Len(e) : uid[Len(head) + k] = e[k]
      /\ uid[Len(head) + Len(e) + 1] = Quote
  BY ONLY <1>1, <1>3, <1>4, Enclosed
<1>6. Len(head) = 3
  BY <1>2
<1>7. 3 + Len(e) + 1 = Len(e) + 4
  BY <1>5
<1> QED
  BY ONLY <1>5, <1>6, <1>7

\* What NamesOneEntity says of a quote at i.
Ends(uid, i) ==
    LET Escapes == Cardinality({j \in 4 .. i - 1 : \A k \in j .. i - 1 : uid[k] = Backslash})
    IN  Escapes % 2 = 0 <=> i = Len(uid)

\* A quote is escaped, unless it is the last character.
LEMMA QuoteEndsIt ==
    ASSUME NEW type \in Types, NEW id \in Seq(STRING), NEW uid, uid = EntityUID(type, id),
           NEW i \in 4 .. Len(uid), uid[i] = Quote
    PROVE  Ends(uid, i)
<1> USE DEF Ends
<1> DEFINE e == FlattenSeq(Pieces(id))
           Back == {j \in 4 .. i - 1 : \A k \in j .. i - 1 : uid[k] = Backslash}
<1>1. /\ Len(e) \in Nat /\ Len(uid) = Len(e) + 4
      /\ \A k \in 1 .. Len(e) : uid[3 + k] = e[k]
  BY EntityUIDIs
<1>2. Balanced(e)
  BY BalancedText
<1> HIDE DEF e
<1>3. ASSUME NEW r, Run(e, i - 4, r) PROVE Cardinality(Back) = r
  <2>1. r \in 0 .. i - 4 /\ i \in Int /\ i - 4 <= Len(e)
    <3>1. r \in 0 .. i - 4
      BY <1>3 DEF Run
    <3>2. i \in Int /\ i - 4 <= Len(e)
      BY <1>1
    <3> QED
      BY <3>1, <3>2
  <2>2. \A k \in i - r .. i - 1 : k \in 4 .. i - 1 /\ uid[k] = Backslash
    <3>1. SUFFICES ASSUME NEW k \in i - r .. i - 1 PROVE k \in 4 .. i - 1 /\ uid[k] = Backslash
      OBVIOUS
    <3>2. k - 3 \in (i - 4) - r + 1 .. i - 4 /\ k - 3 \in 1 .. Len(e) /\ 3 + (k - 3) = k
      BY <2>1, <1>1
    <3>3. e[k - 3] = Backslash
      BY <1>3, <3>2 DEF Run
    <3>4. uid[3 + (k - 3)] = e[k - 3]
      BY <1>1, <3>2
    <3>5. k \in 4 .. i - 1
      BY <2>1
    <3> QED
      BY <3>2, <3>3, <3>4, <3>5
  <2>3. r < i - 4 => uid[i - r - 1] # Backslash
    <3>1. SUFFICES ASSUME r < i - 4 PROVE uid[i - r - 1] # Backslash
      OBVIOUS
    <3>2. (i - 4) - r \in 1 .. Len(e) /\ 3 + ((i - 4) - r) = i - r - 1
      BY <1>1, <2>1, <3>1
    <3>3. e[(i - 4) - r] # Backslash
      BY <1>3, <3>1 DEF Run
    <3> QED
      BY <1>1, <3>2, <3>3
  <2>4. Back = i - r .. i - 1
    <3>1. ASSUME NEW j \in Back PROVE j \in i - r .. i - 1
      <4>1. j \in 4 .. i - 1 /\ \A k \in j .. i - 1 : uid[k] = Backslash
        OBVIOUS
      <4>2. CASE j < i - r
        <5>1. r < i - 4 /\ i - r - 1 \in j .. i - 1
          BY <2>1, <4>1, <4>2
        <5> QED
          BY <2>3, <4>1, <5>1
      <4> QED
        BY <2>1, <4>1, <4>2
    <3>2. ASSUME NEW j \in i - r .. i - 1 PROVE j \in Back
      <4>1. \A k \in j .. i - 1 : k \in i - r .. i - 1
        BY <2>1
      <4> QED
        BY <2>2, <4>1
    <3> HIDE DEF Back
    <3> QED
      BY <3>1, <3>2
  <2> HIDE DEF Back
  <2>5. Cardinality(i - r .. i - 1) = r
    BY <2>1, FS_Interval
  <2> QED
    BY <2>4, <2>5
<1>4. CASE i = Len(uid)
  <2>1. PICK h \in Nat : Run(e, Len(e), 2 * h)
    BY <1>2 DEF Balanced
  <2>2. i - 4 = Len(e)
    BY <1>1, <1>4
  <2>3. Cardinality(Back) = 2 * h
    BY <1>3, <2>1, <2>2
  <2> HIDE DEF Back
  <2>4. (2 * h) % 2 = 0
    OBVIOUS
  <2> QED
    BY <1>4, <2>3, <2>4 DEF Back
<1>5. CASE i # Len(uid)
  <2>1. i - 3 \in 1 .. Len(e) /\ 3 + (i - 3) = i /\ (i - 3) - 1 = i - 4
    BY <1>1, <1>5
  <2>2. e[i - 3] = Quote
    BY <1>1, <2>1
  <2>3. PICK h \in Nat : Run(e, i - 4, 2 * h + 1)
    BY <1>2, <2>1, <2>2 DEF Balanced
  <2>4. Cardinality(Back) = 2 * h + 1
    BY <1>3, <2>3
  <2>5. (2 * h + 1) % 2 # 0
    OBVIOUS
  <2> HIDE DEF Back
  <2> QED
    BY <1>5, <2>4, <2>5 DEF Back
<1> QED
  BY <1>4, <1>5

\* Texts that read otherwise have two entity UIDs.
LEMMA UIDsDiffer ==
    ASSUME NEW type \in Types, NEW id1 \in Seq(STRING), NEW id2 \in Seq(STRING),
           EntityUID(type, id1) = EntityUID(type, id2)
    PROVE  Runes(id1) = Runes(id2)
<1> DEFINE e1 == FlattenSeq(Pieces(id1))
           e2 == FlattenSeq(Pieces(id2))
           uid == EntityUID(type, id1)
<1>1. e1 \in Seq(Char) /\ e2 \in Seq(Char)
  BY BalancedText
<1>2. Len(e1) \in Nat /\ Len(uid) = Len(e1) + 4 /\ \A k \in 1 .. Len(e1) : uid[3 + k] = e1[k]
  BY EntityUIDIs
<1>3. Len(e2) \in Nat /\ Len(uid) = Len(e2) + 4 /\ \A k \in 1 .. Len(e2) : uid[3 + k] = e2[k]
  BY EntityUIDIs
<1> HIDE DEF e1, e2, uid
<1>4. Len(e1) = Len(e2)
  BY <1>2, <1>3
<1>5. \A k \in 1 .. Len(e1) : e1[k] = e2[k]
  BY <1>2, <1>3, <1>4
<1>6. e1 = e2
  BY <1>1, <1>4, <1>5, SeqEqual
<1> QED
  BY <1>6, EscapedOnce DEF e1, e2

\* An entity UID ends where its text does, whatever characters and bytes that has, and
\* principals that have the same are the same text, each byte that is no UTF-8 read as U+FFFD.
THEOREM EntitiesAreNamed == Spec => []NamesOneEntity
<1>1. ASSUME RPCInv PROVE NamesOneEntity
  <2> USE <1>1 DEF RPCInv
  <2> SUFFICES ASSUME stage = "sent", kind = "Cedar" PROVE NamesOneEntity
    BY DEF NamesOneEntity
  <2>1. body = Entities
    BY DEF RequestInv
  <2>2. /\ rpc.resource \in Seq(STRING) /\ rpc.action \in Seq(STRING)
        /\ token \in DOMAIN Principal
    BY PrincipalAssumption DEF ReadInv, Verified, OptionsInv
  <2>3. \A t \in DOMAIN Principal : Principal[t] \in Seq(STRING)
    BY PrincipalAssumption
  <2>4. \A part \in DOMAIN body : \E type \in Types, id \in Seq(STRING) : body[part] = EntityUID(type, id)
    <3>1. DOMAIN body = {"principal", "action", "resource"}
      BY <2>1 DEF Entities
    <3>2. body["principal"] = EntityUID("User", Principal[token])
      BY <2>1 DEF Entities
    <3>3. body["action"] = EntityUID("Action", rpc.action)
      BY <2>1 DEF Entities
    <3>4. body["resource"] = EntityUID("Resource", rpc.resource)
      BY <2>1 DEF Entities
    <3> QED
      BY <2>2, <2>3, <3>1, <3>2, <3>3, <3>4 DEF Types
  <2>5. ASSUME NEW part \in DOMAIN body, NEW i \in 4 .. Len(body[part]), body[part][i] = Quote
        PROVE  Cardinality({j \in 4 .. i - 1 : \A k \in j .. i - 1 : body[part][k] = Backslash}) % 2 = 0
                   <=> i = Len(body[part])
    <3>1. PICK type \in Types, id \in Seq(STRING) : body[part] = EntityUID(type, id)
      BY <2>4
    <3> DEFINE uid == body[part]
    <3>2. uid = EntityUID(type, id) /\ i \in 4 .. Len(uid) /\ uid[i] = Quote
      BY <2>5, <3>1
    <3> HIDE DEF uid
    <3>3. Ends(uid, i)
      BY <3>2, QuoteEndsIt
    <3> QED
      BY <3>3 DEF Ends, uid
  <2>6. ASSUME NEW t \in DOMAIN Principal, EntityUID("User", Principal[t]) = body["principal"]
        PROVE  Runes(Principal[t]) = Runes(Principal[token])
    <3>1. EntityUID("User", Principal[t]) = EntityUID("User", Principal[token])
      BY <2>1, <2>6 DEF Entities
    <3> QED
      BY <2>2, <2>3, <3>1, UIDsDiffer DEF Types
  <2> QED
    BY <2>5, <2>6 DEF NamesOneEntity
<1> QED
  BY <1>1, RPCInvHolds, PTL
=============================================================================
