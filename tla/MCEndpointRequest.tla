---- MODULE MCEndpointRequest ----
\* EndpointRequest on small instances.
EXTENDS EndpointRequest, TLC

MCTokenNames == {"Content-Type", "Accept", "Authorization", "Accept-Encoding", "X-Request-Id", "X-Caller-Token", "X-Trace"}
MCGenerated == <<"generated">>
MCWellFormedIDs == {<<"id1">>, <<"id2">>, MCGenerated}
MCWellFormedValues == {<<>>} \cup {<<v>> : v \in {"c1", "c2", "c3", "c4", "x", "t", "gzip", "other", "text/html"}}
MCWhitespace == {" ", "\t"}
MCControl == {"\n", "\r"}
MCEscape == [c \in MCControl |-> <<"\\", "u", "{", IF c = "\n" THEN "a" ELSE "d", "}">>]
MCInvalid == {"0xfe", "0xff"}
\* Principals whose text ends a literal, or escapes its end, or that are no UTF-8.
MCPrincipal == (<<"tok">> :> <<"a", "\"", "\\">>) @@ (<<"tok", "tok">> :> <<"a", "\\", "\"">>)
    @@ (<<"Basic">> :> <<"a", "\n", "\\", "\\">>) @@ (<<"Bearer", "tok">> :> <<"a", "\r", "\\", "\\">>) @@ (<<"bearer">> :> <<>>) @@ (<<"Bearer">> :> <<"a">>)
    @@ (<<"0xff">> :> <<"a", "0xff">>) @@ (<<"tok", "0xff">> :> <<"a", "0xfe">>) @@ (<<"0xff", "tok">> :> <<"a", "U+FFFD">>)
Ask(authorization, ids, fields) ==
    [authorization |-> authorization, ids |-> ids, fields |-> fields,
     resource |-> <<"posts", ":", "\"">>, action |-> <<"read", "\\">>]

K(name, written) == [is |-> "IDKey", key |-> <<name, written>>]
H(entries) == [is |-> "Headers", entries |-> entries]
E(name, written, value) == [name |-> <<name, written>>, value |-> value]
Resolver == [is |-> "Resolver"]

----
\* Lists of up to three options, for a few RPCs.
Keys == {K(NoKey, "canonical"), K("X-Trace", "canonical"), K("X-Trace", "lower"), K("Authorization", "lower"), K("X-Request-Id", "lower"), K("bad key", "canonical")}
Headers ==
    {H({}), H({E("X-Caller-Token", "canonical", <<"c1">>)}), H({E("X-Caller-Token", "lower", <<"c2">>)}),
     H({E("X-Request-Id", "canonical", <<"x">>), E("X-Caller-Token", "lower", <<"c3">>), E("X-Caller-Token", "canonical", <<"c4">>)}),
     H({E("X-Trace", "lower", <<"t">>)}), H({E("Accept", "lower", <<"text/html">>)}), H({E("Authorization", "canonical", <<"other">>)}),
     H({E("bad header", "canonical", <<"x">>)}), H({E("X-Trace", "canonical", <<"bad\n">>)}), H({E("Accept-Encoding", "lower", <<"gzip">>)}),
     H({E("Accept-Encoding", "lower", <<>>)})}
Named == {H({E("X-Caller-Token", "lower", <<"c2">>)}), H({E("X-Trace", "lower", <<"t">>)}),
          H({E("X-Request-Id", "canonical", <<"x">>), E("X-Caller-Token", "lower", <<"c3">>), E("X-Caller-Token", "canonical", <<"c4">>)})}
Lists(Options) == {<<>>} \cup {<<o>> : o \in Options} \cup {<<o1, o2>> : o1, o2 \in Options}
MCOptionLists(k) ==
    CASE k = "o3co" -> Lists(Keys \cup Headers)
             \cup {<<h1, key, h2>> : h1, h2 \in Named, key \in Keys} \cup {<<k1, h, k2>> : k1, k2 \in Keys, h \in Named}
      [] k = "OPA" -> Lists(Keys)
      [] k = "Cedar" -> Lists(Keys \cup {Resolver})
FewRPCs == {Ask(<<<<"Bearer", " ", "tok">>>>, ids, [did |-> <<"did", ":", "x">>]) : ids \in {<<<<"id1">>>>, <<<<"bad id">>>>, <<<<"id1">>, <<"id2">>>>, <<>>}}

----
\* Every credential of up to four words, and two at once, where there are no options to speak of.
Words == {"Bearer", "bearer", "Basic", " ", "\t", "tok", "0xff"}
Values == UNION {[1 .. n -> Words] : n \in 0 .. 4}
Authorizations == {<<>>} \cup {<<v>> : v \in Values} \cup {<<v, w>> : v, w \in {<<>>, <<"Bearer", " ", "tok">>, <<"Basic", " ", "tok">>}}
ManyRPCs == {Ask(a, <<<<"id1">>>>, <<>>) : a \in Authorizations}
MCRPCs(list) == IF list \in {<<>>, <<Resolver>>} THEN FewRPCs \cup ManyRPCs ELSE FewRPCs
MCWords == [t \in UNION {[1 .. n -> Words \ MCWhitespace] : n \in 1 .. 3} |-> IF t \in DOMAIN MCPrincipal THEN MCPrincipal[t] ELSE <<"b">>]
====
