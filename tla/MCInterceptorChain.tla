------------------------- MODULE MCInterceptorChain -------------------------
\* InterceptorChain on small instances: a method without a policy, one with a
\* fixed policy and one whose policy takes a value of the request.
EXTENDS InterceptorChain

CONSTANTS open, plain, mapped, svc, fixed, templated, q1, q2, t, t1

MCMethods == {open, plain, mapped}
MCServiceOf == [m \in MCMethods |-> svc]
MCDeclared ==
    [m \in MCMethods |->
        CASE m = open -> NoPolicy [] m = plain -> fixed [] m = mapped -> templated]
MCResolve ==
    [p \in {fixed, templated} |-> [q \in {q1, q2} |->
        CASE p = fixed -> t
          [] p = templated /\ q = q1 -> t1
          [] p = templated /\ q = q2 -> Unsafe]]
MCFailures == {{"denied"}}

policy == [kind |-> "policy", exempt |-> {}]
verify == [kind |-> "verify", exempt |-> {}]
strict == [kind |-> "verify", exempt |-> {{}}]
exempting == [kind |-> "verify", exempt |-> {{}, {open}}]
exemptingService == [kind |-> "verify", exempt |-> {{svc}}]

\* Right and wrong orders, a second pair, and require-policy of each form.
MCChains ==
    {<<policy, verify>>, <<verify, policy>>, <<policy, verify, verify>>,
     <<policy, strict>>, <<policy, exempting, policy, strict>>,
     <<policy, exemptingService>>, <<verify, policy, verify>>, <<policy>>}
\* One chain, for several RPCs at once.
MCPair == {<<policy, verify>>}
=============================================================================
