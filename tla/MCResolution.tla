---- MODULE MCResolution ----
\* Resolution on small instances.
EXTENDS Resolution, TLC

None == [resource |-> <<>>, action |-> NoAction, mappings |-> <<>>]

F(type, repeated) == [type |-> type, repeated |-> repeated]
M(placeholder, field) == [placeholder |-> placeholder, field |-> field]
P(resource, mappings) == [resource |-> resource, action |-> "act", mappings |-> mappings]

\* A request with a text, bytes, a number and two messages deep; an enum and a list.
MCSchema ==
    [Req |-> [id |-> F("string", FALSE), raw |-> F("bytes", FALSE), n |-> F("number", FALSE),
              color |-> F("enum", FALSE), tags |-> F("string", TRUE), posts |-> F("Post", TRUE),
              post |-> F("Post", FALSE)],
     Post |-> [id |-> F("string", FALSE), author |-> F("Author", FALSE)],
     Author |-> [id |-> F("string", FALSE)]]

MCSegment == {"<", ">", "a", "b", "0", "1", "2", "6", "f", "x", "-"}
MCPrinted == [n \in {0, -1} |-> IF n = 0 THEN <<"0">> ELSE <<"-", "1">>]

\* The texts a caller may write: plain, spelling a placeholder, structural, not printable, empty.
Texts == {<<"x">>, <<"<", "a", ">">>, <<"1", ".", "a">>, <<"1", ":">>, <<" ">>, <<>>}
Request(id, raw, n, post) == [id |-> id, raw |-> raw, n |-> n, color |-> 0, tags |-> <<>>, posts |-> <<>>, post |-> post]
Post(id, author) == [id |-> id, author |-> author]

----
\* Every template of up to Length characters, read for few requests.
Templates(n) == UNION {[1 .. k -> {"<", ">", "a", ":"}] : k \in 0 .. n}
TemplatePolicies ==
    {P(t, <<M(<<"a">>, <<"id">>), M(<<":">>, <<"raw">>)>>) : t \in Templates(6)}
TemplateRequests == {Request(id, <<255>>, 0, Unset) : id \in {<<"x">>, <<"<", "a", ">">>, <<"1", ":">>, <<>>}}

\* Few templates, with every list of up to two mappings, for many requests.
FieldPaths ==
    {<<"id">>, <<"raw">>, <<"n">>, <<"color">>, <<"tags">>, <<"none">>, <<"post">>, <<>>,
     <<"post", "id">>, <<"post", "author", "id">>, <<"post", "author", "none">>, <<"posts", "id">>,
     <<"id", "id">>, <<"post", "">>}
First == {M(<<"a">>, f) : f \in FieldPaths} \cup {M(<<>>, <<"id">>)}
Second == {M(<<"b">>, f) : f \in {<<"id">>, <<"raw">>, <<"tags">>, <<"post", "id">>}} \cup {M(<<"a">>, <<"n">>)}
MappingLists == {<<>>} \cup {<<m>> : m \in First} \cup {<<m1, m2>> : m1 \in First, m2 \in Second}
FieldPolicies ==
    {P(t, ms) : t \in {<<"<", "a", ">">>, <<"x", ":", "<", "a", ">", ".", "<", "b", ">">>, <<"x">>}, ms \in MappingLists}
    \cup {None, [None EXCEPT !.resource = <<"x">>]}
Posts == {Unset, Post(<<"x">>, Unset), Post(<<"1", ":">>, [id |-> <<"x">>]), Post(<<"x">>, [id |-> <<"0">>])}
FieldRequests ==
    {NoRequest} \cup {Request(<<"x">>, raw, n, post) : raw \in {<<255>>, <<102, 102>>, <<>>}, n \in {0, -1}, post \in Posts}
        \cup {Request(id, <<255>>, 0, Unset) : id \in Texts}

\* What the requests are made of.
MCMessages ==
    LET author(id) == [id |-> id]
    IN  [Req |-> TemplateRequests \cup (FieldRequests \ {NoRequest}), Post |-> Posts \ {Unset},
         Author |-> {author(id) : id \in {<<"x">>, <<"0">>}}]

MCPolicies == TemplatePolicies \cup FieldPolicies
MCRequests(p) == IF M(<<":">>, <<"raw">>) \in ToSet(p.mappings) THEN TemplateRequests ELSE FieldRequests
====
