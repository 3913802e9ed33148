---- MODULE MCPlainReach ----
\* PlainReach on small instances: number 1 is private, 2 a metadata address, 3 public, 4 loopback.
EXTENDS PlainReach, TLC

CONSTANTS pdp, localhost, other

A(form, number, zoned) == [form |-> form, number |-> number, zoned |-> zoned]
MCRanges == {A("v4", 1, FALSE), A("v4", 2, FALSE)}
MCMetadata == {A("v4", 2, FALSE)}
MCLoopback == {A("v4", 4, FALSE), A("v6", 4, FALSE)}
MCLookups == {{}, {A("v4", 1, FALSE)}, {A("mapped", 1, FALSE)}, {A("v4", 3, FALSE)}, {A("v4", 1, FALSE), A("v4", 2, FALSE)}}

At(a) == [address |-> a]
N(name, spelled) == [name |-> name, spelled |-> spelled]

Hosts ==
    {At(A("v4", n, FALSE)) : n \in 1 .. 4} \cup {At(A("mapped", 1, z)) : z \in BOOLEAN}
    \cup {At(A("v6", 4, TRUE)), At(A("mapped", 4, FALSE))}
    \cup {N(pdp, s) : s \in Spellings} \cup {N(localhost, s) : s \in Spellings}
MCURLs ==
    {[scheme |-> "http", host |-> h, port |-> p] : h \in Hosts, p \in {"", "80", "080", "81"}}
    \cup {[scheme |-> s, host |-> N(pdp, "lower"), port |-> "80"] : s \in {"https", "ftp"}}
    \cup {[scheme |-> "http", host |-> NoHost, port |-> ""]}

E(host, port) == [host |-> host, port |-> port]
Good == {E(N(pdp, "upper"), "80"), E(At(A("mapped", 1, FALSE)), "81"), E(N(pdp, "dotted"), "81")}
Bad == {E(N(pdp, "foreign"), "80"), E(At(A("v4", 2, FALSE)), "80"), E(At(A("mapped", 1, TRUE)), "80"), E(N(pdp, "lower"), "080")}
Lists(es) == [is |-> "AllowPlainInternal", entries |-> es]
Options ==
    {[is |-> "AllowInsecure"], [is |-> "Transport"], Lists({}), Lists(Good)}
    \cup {Lists({e}) : e \in Good \cup Bad} \cup {Lists({E(N(pdp, "lower"), "80"), e}) : e \in Bad}
MCOptionLists == {<<>>} \cup {<<o>> : o \in Options} \cup {<<o1, o2>> : o1, o2 \in Options}
                 \cup {<<o1, o2, o3>> : o1, o2, o3 \in {[is |-> "AllowInsecure"], [is |-> "Transport"], Lists(Good)}}
MCElsewhere == {N(other, "lower")}
====
