---------------------------- MODULE StaticRules -----------------------------
(***************************************************************************)
(* The static endpoint (endpoint/static.go): it keeps a copy of the rules  *)
(* it is given, and answers by them while the caller does what it likes    *)
(* with its own slice.  A pattern or value is a sequence of characters.    *)
(***************************************************************************)
EXTENDS Integers, SequencesExt

CONSTANTS
    RuleLists,      \* sequences of rules: a resource and an action pattern
    Asked,          \* records of a resource and an action
    Callers,        \* goroutines in Verify
    None            \* no endpoint yet

\* StaticRule, and what a rule is matched against.
Rule == [resource : Seq(STRING), action : Seq(STRING)]

ASSUME RulesAssumption == RuleLists \subseteq Seq(Rule) /\ Asked \subseteq Rule

VARIABLES
    slice,          \* the caller's rules
    rules,          \* the endpoint's, None before there is one
    given,          \* the rules at construction
    verify          \* where each goroutine is, and what it was asked

staticVars == <<slice, rules, given, verify>>

Idle == [stage |-> "idle"]
NoToken == "no token"

StaticInit ==
    /\ slice \in RuleLists
    /\ rules = None /\ given = None
    /\ verify = [c \in Callers |-> Idle]

-----------------------------------------------------------------------------
\* matchPattern.
MatchPattern(pattern, value) ==
    \/ pattern = <<"*">> \/ pattern = value
    \/ pattern # <<>> /\ pattern[Len(pattern)] = "*" /\ IsPrefix(Front(pattern), value)

\* Mutant: the endpoint keeps the slice it is given.
SliceGiven == slice

\* The rules Verify goes through.
Rules == rules

NewStaticEndpoint ==
    /\ rules = None
    /\ rules' = slice /\ given' = slice
    /\ UNCHANGED <<slice, verify>>

\* The caller writes into its slice.
CallerWrites ==
    /\ \E list \in RuleLists, i \in DOMAIN slice :
           i \in DOMAIN list /\ slice' = [slice EXCEPT ![i] = list[i]]
    /\ UNCHANGED <<rules, given, verify>>

\* Verify refuses without a bearer token.
BeginVerify(c) ==
    /\ rules # None /\ verify[c].stage \in {"idle", "over"}
    /\ \E asked \in Asked, token \in BOOLEAN :
           verify' = [verify EXCEPT ![c] =
               [stage |-> IF token THEN "rules" ELSE "over", asked |-> asked, tried |-> 0,
                verdict |-> IF token THEN "none" ELSE NoToken]]
    /\ UNCHANGED <<slice, rules, given>>

Allows(rule, asked) ==
    MatchPattern(rule.resource, asked.resource) /\ MatchPattern(rule.action, asked.action)

TryRule(c) ==
    /\ verify[c].stage = "rules" /\ verify[c].tried < Len(Rules)
    /\ verify' = IF Allows(Rules[verify[c].tried + 1], verify[c].asked)
                 THEN [verify EXCEPT ![c].stage = "over", ![c].verdict = "allowed"]
                 ELSE [verify EXCEPT ![c].tried = @ + 1]
    /\ UNCHANGED <<slice, rules, given>>

Denied(c) ==
    /\ verify[c].stage = "rules" /\ verify[c].tried = Len(Rules)
    /\ verify' = [verify EXCEPT ![c].stage = "over", ![c].verdict = "denied"]
    /\ UNCHANGED <<slice, rules, given>>

StaticNext ==
    \/ NewStaticEndpoint \/ CallerWrites
    \/ \E c \in Callers : BeginVerify(c) \/ TryRule(c) \/ Denied(c)

StaticSpec == StaticInit /\ [][StaticNext]_staticVars

-----------------------------------------------------------------------------
\* A pattern as it is documented: the value itself, or a part the value begins with and
\* a "*".
Covers(pattern, value) ==
    pattern = value \/ \E k \in 0 .. Len(value) : pattern = SubSeq(value, 1, k) \o <<"*">>

OneRuleCovers(asked) ==
    \E i \in DOMAIN given :
        Covers(given[i].resource, asked.resource) /\ Covers(given[i].action, asked.action)

\* A check is answered by the rules the endpoint was given, whatever its caller has
\* written into its slice since: allowed if one of them covers the resource and the
\* action both, denied if none does.
DecidesByGivenRules ==
    \A c \in Callers :
        verify[c].stage = "over" /\ verify[c].verdict # NoToken =>
            (verify[c].verdict = "allowed" <=> OneRuleCovers(verify[c].asked))
=============================================================================
