---- MODULE MCPrivateDial ----
\* PrivateDial on small instances: IPv4 numbers 1 and 2 are private, 2 is a
\* metadata address, 3 is public; IPv6 has 1 private.
EXTENDS PrivateDial, TLC

A(form, number, zoned) == [form |-> form, number |-> number, zoned |-> zoned]

MCRanges == {A("v4", 1, FALSE), A("v4", 2, FALSE), A("v6", 1, FALSE)}
MCMetadata == {A("v4", 2, FALSE)}

\* Private as IPv4, mapped and IPv6; a metadata address, a public and two zoned.
MCAddresses ==
    {A("v4", 1, FALSE), A("mapped", 1, FALSE), A("v6", 1, FALSE), A("mapped", 2, FALSE),
     A("v4", 3, FALSE), A("v6", 1, TRUE), A("mapped", 1, TRUE)}
MCHosts == MCAddresses \cup {Name, Malformed}
MCAnswers ==
    {<<>>} \cup {<<a>> : a \in MCAddresses} \cup {<<a, b>> : a, b \in MCAddresses}
    \cup {<<A("v4", 1, FALSE), a, b>> : a, b \in {A("v4", 1, FALSE), A("v6", 1, FALSE), A("v4", 3, FALSE)}}
====
