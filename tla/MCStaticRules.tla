---- MODULE MCStaticRules ----
\* StaticRules on small instances.
EXTENDS StaticRules, TLC

R(resource, action) == [resource |-> resource, action |-> action]
Patterns == {<<"*">>, <<"a">>, <<"a", "*">>, <<"a", "/", "*">>, <<"*", "a">>}
MCRules == {R(p, a) : p \in Patterns, a \in {<<"a">>, <<"*">>}}
First == {R(<<"a">>, <<"b">>), R(<<"a", "/", "*">>, <<"b">>)}
MCRuleLists == {<<>>} \cup {<<r>> : r \in MCRules} \cup {<<r, s>> : r \in First, s \in MCRules}
Values == {<<>>, <<"a">>, <<"a", "/", "b">>, <<"b", "a">>}
MCAsked == {R(v, a) : v \in Values, a \in {<<"a">>, <<"b">>}}
====
