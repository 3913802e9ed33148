----------------------------- MODULE PlainReach -----------------------------
(***************************************************************************)
(* Where an HTTP endpoint sends the caller's credential, plaintext above   *)
(* all (endpoint/http.go): its options are applied one after the other,    *)
(* the constructor accepts or refuses the base URL, and requests then go   *)
(* over pooled or new connections while the names resolve otherwise.       *)
(*                                                                         *)
(* A host is written as an address or as a name in one of its spellings.   *)
(***************************************************************************)
EXTENDS PrivateNet, Sequences, FiniteSets

CONSTANTS
    Names,          \* host names, in lower case and without a trailing dot
    Localhost,      \* the name localhost
    Loopback,       \* the addresses in 127.0.0.0/8, and ::1
    Ports,          \* as written, "" for none
    ValidPorts,     \* decimals from 1 to 65535 without a leading zero
    OptionLists,    \* what an endpoint may be constructed with
    URLs,           \* base URLs: a scheme, a host (or NoHost) and a port
    NoHost,
    Lookups,        \* sets of addresses a lookup may answer with
    Proxy,          \* a peer that is no address of the host's
    Elsewhere       \* where a redirect points

\* "foreign": not ASCII, IDNA makes it the name; "invalid": no host name.
Spellings == {"lower", "upper", "dotted", "foreign", "invalid"}
Host == [address : Address] \cup [name : Names, spelled : Spellings]
IsAddress(host) == DOMAIN host = {"address"}

\* What an option, and an entry of a list of hosts, is given.
Option == [is : {"AllowInsecure", "Transport"}]
          \cup [is : {"AllowPlainInternal"}, entries : SUBSET [host : Host, port : Ports]]

ASSUME ReachAssumption ==
    /\ OptionLists \subseteq Seq(Option)
    /\ URLs \subseteq [scheme : STRING, host : Host \cup {NoHost}, port : Ports]
    /\ Localhost \in Names /\ Names \cap Address = {} /\ NoHost \notin Host
    /\ Loopback \subseteq {a \in Address : a.form # "mapped" /\ ~a.zoned} /\ Loopback \cap Ranges = {}
    /\ ValidPorts \subseteq Ports \ {""} /\ "80" \in ValidPorts
    /\ Lookups \subseteq SUBSET Address
    /\ Proxy \notin Address \cup Names

VARIABLES
    options, url,
    applied,        \* how many options have been applied
    allowInsecure, plainInternal, transport,
    refusedEntries,
    status,         \* of the endpoint: "options", "refused" or "built"
    pool,           \* the peers of the endpoint's connections
    sent,           \* the last request, if any: to which host, over a connection to which peer
    location        \* where a redirect that answers it points, if one does

reachVars == <<options, url, applied, allowInsecure, plainInternal, transport, refusedEntries,
               status, pool, sent, location>>
config == <<allowInsecure, plainInternal, transport, refusedEntries>>

ReachInit ==
    /\ options \in OptionLists /\ url \in URLs
    /\ applied = 0 /\ status = "options"
    /\ allowInsecure = FALSE /\ plainInternal = {} /\ transport = "default" /\ refusedEntries = {}
    /\ pool = {} /\ sent = {} /\ location = {}

-----------------------------------------------------------------------------
\* The one way a host is compared.
Canonical(host) == IF IsAddress(host) THEN Unmap(host.address) ELSE host.name

\* A host an entry can name.
Nameable(host) ==
    IF IsAddress(host) THEN Contains(host.address) ELSE host.spelled \notin {"foreign", "invalid"}

\* urlPair's port: http's, if the URL names none.
Port(u) == IF u.port = "" THEN "80" ELSE u.port

\* Mutant: the zone is cut off first.
IsLoopbackAnyZone(host) ==
    IF IsAddress(host) THEN Unmap([host.address EXCEPT !.zoned = FALSE]) \in Loopback
    ELSE host.name = Localhost /\ host.spelled # "dotted"

\* isLoopback; net.ParseIP takes no zone, and EqualFold folds beyond ASCII.
IsLoopback(host) ==
    IF IsAddress(host) THEN ~host.address.zoned /\ Unmap(host.address) \in Loopback
    ELSE host.name = Localhost /\ host.spelled \in {"lower", "upper", "foreign"}

Plain == url.scheme = "http" /\ ~IsLoopback(url.host)
Listed == Nameable(url.host) /\ <<Canonical(url.host), Port(url)>> \in plainInternal

-----------------------------------------------------------------------------
\* plainInternalPair: what is not a host and port, or could never be reached.
Refused(entries) == {e \in entries : e.port \notin ValidPorts \/ ~Nameable(e.host)}

NextOption == options[applied + 1]

ApplyOption ==
    /\ status = "options" /\ applied < Len(options)
    /\ applied' = applied + 1
    /\ \/ /\ NextOption.is = "AllowInsecure"
          /\ allowInsecure' = TRUE
          /\ UNCHANGED <<plainInternal, transport, refusedEntries>>
       \/ /\ NextOption.is = "Transport"
          /\ transport' = "caller"
          /\ UNCHANGED <<allowInsecure, plainInternal, refusedEntries>>
       \/ /\ NextOption.is = "AllowPlainInternal"
          /\ refusedEntries' = refusedEntries \cup Refused(NextOption.entries)
          /\ plainInternal' = plainInternal \cup
                 {<<Canonical(e.host), e.port>> : e \in NextOption.entries \ Refused(NextOption.entries)}
          /\ UNCHANGED <<allowInsecure, transport>>
    /\ UNCHANGED <<options, url, status, pool, sent, location>>

\* Mutant: permitted is permitted, listed or not.
ConstructInsecureFirst ==
    /\ status = "options" /\ applied = Len(options)
    /\ status' = IF \/ refusedEntries # {}
                    \/ url.scheme \notin {"http", "https"} \/ url.host = NoHost
                    \/ Plain /\ ~allowInsecure /\ Listed /\ transport = "caller"
                    \/ Plain /\ ~allowInsecure /\ ~Listed
                 THEN "refused" ELSE "built"
    /\ transport' = IF status' = "built" /\ Plain /\ Listed /\ ~allowInsecure THEN "private" ELSE transport
    /\ UNCHANGED <<options, url, applied, allowInsecure, plainInternal, refusedEntries, pool, sent, location>>

\* reachConfig.client.
Construct ==
    /\ status = "options" /\ applied = Len(options)
    /\ status' = IF \/ refusedEntries # {}
                    \/ url.scheme \notin {"http", "https"} \/ url.host = NoHost
                    \/ Plain /\ Listed /\ transport = "caller"
                    \/ Plain /\ ~Listed /\ ~allowInsecure
                 THEN "refused" ELSE "built"
    /\ transport' = IF status' = "built" /\ Plain /\ Listed THEN "private" ELSE transport
    /\ UNCHANGED <<options, url, applied, allowInsecure, plainInternal, refusedEntries, pool, sent, location>>

\* What a lookup of host answers.
Found(host) == IF IsAddress(host) THEN {{host.address}} ELSE Lookups

\* The peers a new connection may have: the private transport's dialer judges
\* every address found; another transport goes where it likes.
Peers(host) ==
    IF transport = "private"
    THEN UNION {{Unmap(a) : a \in found} : found \in {f \in Found(host) : \A a \in f : Contains(a)}}
    ELSE {Unmap(a) : a \in UNION Found(host)} \cup {Proxy}

Connect ==
    /\ status = "built"
    /\ \E peer \in Peers(url.host) : pool' = pool \cup {peer}
    /\ UNCHANGED <<options, url, applied, config, status, sent, location>>

\* A connection that is idle for too long, or breaks.
Close ==
    /\ \E peer \in pool : pool' = pool \ {peer}
    /\ UNCHANGED <<options, url, applied, config, status, sent, location>>

\* A request to the endpoint's host, over a connection that there is.
Send ==
    /\ status = "built"
    /\ \E peer \in pool : sent' = {[host |-> url.host, peer |-> peer]}
    /\ location' = {}
    /\ UNCHANGED <<options, url, applied, config, status, pool>>

\* The backend answers the request with a redirect.
Redirect ==
    /\ sent # {} /\ location = {}
    /\ \E host \in Elsewhere : location' = {host}
    /\ UNCHANGED <<options, url, applied, config, status, pool, sent>>

\* Mutant: the client goes where it is sent, as http.Client does of itself.
FollowRedirect ==
    /\ location # {}
    /\ \E host \in location : \E peer \in Peers(host) :
           pool' = pool \cup {peer} /\ sent' = {[host |-> host, peer |-> peer]}
    /\ location' = {}
    /\ UNCHANGED <<options, url, applied, config, status>>

\* ErrUseLastResponse: the redirect is the answer, and no request follows.
CheckRedirect ==
    /\ location # {}
    /\ location' = {}
    /\ UNCHANGED <<options, url, applied, config, status, pool, sent>>

ReachOver == status = "refused" /\ UNCHANGED reachVars

ReachNext == ApplyOption \/ Construct \/ Connect \/ Close \/ Send \/ Redirect \/ CheckRedirect \/ ReachOver

ReachSpec == ReachInit /\ [][ReachNext]_reachVars

-----------------------------------------------------------------------------
ReachTypeOK ==
    /\ options \in OptionLists /\ url \in URLs
    /\ applied \in 0 .. Len(options)
    /\ allowInsecure \in BOOLEAN /\ transport \in {"default", "caller", "private"}
    /\ plainInternal \subseteq (Names \cup {a \in Address : a.form # "mapped"}) \X ValidPorts
    /\ status \in {"options", "refused", "built"}
    /\ pool \subseteq Address \cup {Proxy}
    /\ sent \subseteq [host : {url.host} \cup Elsewhere, peer : Address \cup {Proxy}]
    /\ location \subseteq Elsewhere

-----------------------------------------------------------------------------
Given(is) == {options[i] : i \in {j \in DOMAIN options : options[j].is = is}}
Entries == UNION {o.entries : o \in Given("AllowPlainInternal")}

\* The same host, as a user reads it: a name in any case, with or without one trailing
\* dot; an address in any spelling of it.
SameHost(h1, h2) ==
    \/ IsAddress(h1) /\ IsAddress(h2) /\ ~h1.address.zoned /\ ~h2.address.zoned
       /\ Unmap(h1.address) = Unmap(h2.address)
    \/ /\ ~IsAddress(h1) /\ ~IsAddress(h2) /\ h1.name = h2.name
       /\ {h1.spelled, h2.spelled} \subseteq {"lower", "upper", "dotted"}

\* Some option lists the host and port of the base URL.
IsListed ==
    \E e \in Entries : SameHost(e.host, url.host) /\ e.port = IF url.port = "" THEN "80" ELSE url.port

\* localhost in any case, or a loopback address written as one.
OnTheHost ==
    IF IsAddress(url.host) THEN ~url.host.address.zoned /\ Unmap(url.host.address) \in Loopback
    ELSE url.host.name = Localhost /\ url.host.spelled \in {"lower", "upper", "foreign"}

\* "The request and the credentials on it reach only the configured backend", wherever
\* an answer points; and in plaintext only if that is loopback, is a host and port some
\* option lists, or the service permitted it.
PlaintextIsPermitted ==
    /\ \A s \in sent : s.host = url.host
    /\ sent # {} /\ url.scheme = "http" => OnTheHost \/ IsListed \/ Given("AllowInsecure") # {}

\* "A base URL listed with WithO3coAllowPlainInternal is still reached only at private
\* addresses", in whatever order and with whatever else the options come, through no
\* proxy, and however the name resolves when the next connection is made.
ListedIsPrivate ==
    sent # {} /\ url.scheme = "http" /\ ~OnTheHost /\ IsListed =>
        \A s \in sent : s.peer \in Ranges \ Metadata
=============================================================================
