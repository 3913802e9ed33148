----------------------------- MODULE PrivateNet -----------------------------
(***************************************************************************)
(* Which addresses are on a private network (internal/privatenet).         *)
(*                                                                         *)
(* An address is a number in a form: IPv4, IPv6, or an IPv4 number mapped  *)
(* into IPv6; the last two may name a zone.                                *)
(***************************************************************************)
EXTENDS Integers

CONSTANTS
    Numbers,
    Ranges,     \* the addresses in privateRanges
    Metadata    \* metadataAddresses

Address == [form : {"v4"}, number : Numbers, zoned : {FALSE}]
           \cup [form : {"v6", "mapped"}, number : Numbers, zoned : BOOLEAN]

\* A prefix matches neither a mapped address nor one with a zone.
ASSUME RangesAssumption ==
    Ranges \cup Metadata \subseteq {a \in Address : a.form # "mapped" /\ ~a.zoned}

\* netip.Addr.Unmap, which drops the zone of a mapped address.
Unmap(a) == IF a.form = "mapped" THEN [form |-> "v4", number |-> a.number, zoned |-> FALSE]
            ELSE a

\* Contains: judged as the address a connection reaches.
Contains(a) == ~a.zoned /\ Unmap(a) \notin Metadata /\ Unmap(a) \in Ranges
=============================================================================
