-------------------------- MODULE EndpointRequest ---------------------------
(***************************************************************************)
(* From what a caller sent to what a backend is sent (request.go and       *)
(* endpoint/o3co.go, opa.go, cedar.go): an endpoint's options are applied, *)
(* its constructor checks them, and an RPC's credential and request ID are *)
(* read and put into the request, header by header.                        *)
(*                                                                         *)
(* A text is a sequence of characters or of whole words, a byte that is no *)
(* UTF-8 among them, and a header name a pair of its canonical form and    *)
(* how it is written.                                                      *)
(***************************************************************************)
EXTENDS Integers, SequencesExt

CONSTANTS
    Kinds,          \* of endpoint: "o3co", "OPA" and "Cedar"
    OptionLists(_), \* what an endpoint of each kind may be constructed with
    RPCs(_),        \* under each list of options, records: authorization and ids (values),
                    \* fields, resource, action
    Generated,      \* a request ID of our own
    WellFormedIDs,  \* IDs in the shape the verifier accepts
    Whitespace,     \* unicode.IsSpace, Space among them
    Control,        \* characters below 0x20, and 0x7f
    Escape,         \* \u{...} of a control character
    Invalid,        \* bytes of a Go string that are no UTF-8
    Replacement,    \* U+FFFD, which range and json.Marshal read for each of them
    Principal,      \* the resolver's answer for a token, <<>> if it refuses it
    WellFormedValues,   \* header values without CR, LF and NUL
    TokenNames      \* canonical header names

Controlled == {"Content-Type", "Accept", "Authorization"}
Identity == <<"identity">>
JSON == <<"application/json">>
NoKey == ""
Space == " "
Quote == "\""
Backslash == "\\"

\* A name-value pair of a map of headers, and WithO3coRequestIDHeaderKey, WithO3coHeaders
\* and WithCedarPrincipalResolver.
Entry == [name : STRING \X STRING, value : Seq(STRING)]
Option ==
    [is : {"IDKey"}, key : STRING \X STRING] \cup [is : {"Headers"}, entries : SUBSET Entry]
        \cup [is : {"Resolver"}]

ASSUME InboundAssumption ==
    /\ Kinds \subseteq {"o3co", "OPA", "Cedar"}
    /\ Space \in Whitespace /\ Whitespace \subseteq STRING
    /\ Generated \in WellFormedIDs /\ <<>> \notin WellFormedIDs
    /\ Controlled \cup {"X-Request-Id", "Accept-Encoding"} \subseteq TokenNames
    /\ TokenNames \subseteq STRING \ {NoKey}
    /\ \A k \in Kinds : OptionLists(k) \subseteq Seq(Option)
    /\ \A k \in Kinds : \A l \in OptionLists(k) : \A r \in RPCs(l) :
           /\ r.authorization \in Seq(Seq(STRING)) /\ r.ids \in Seq(Seq(STRING))
           /\ Generated \notin ToSet(r.ids)

\* No escape holds a quote, or a backslash but its first, and none begins another.
ASSUME EscapeAssumption ==
    /\ Control \subseteq STRING \ {Quote, Backslash}
    /\ \A c \in Control :
           /\ Escape[c] \in Seq(STRING) /\ Len(Escape[c]) > 1
           /\ \A i \in DOMAIN Escape[c] :
                  Escape[c][i] # Quote /\ (Escape[c][i] = Backslash <=> i = 1)
    /\ \A c, d \in Control :
           c # d => \E i \in DOMAIN Escape[c] \cap DOMAIN Escape[d] : Escape[c][i] # Escape[d][i]

\* A byte that is no UTF-8 is none of the characters that are written otherwise.
ASSUME RuneAssumption ==
    /\ Invalid \subseteq STRING /\ Replacement \in STRING \ Invalid
    /\ (Invalid \cup {Replacement}) \cap (Control \cup Whitespace \cup {Quote, Backslash}) = {}

VARIABLES
    kind,           \* of the endpoint
    options, rpc,
    stage,
    applied,        \* how many options have been applied
    idKey,          \* requestIDHeaderKey, NoKey if disabled
    headers,        \* the static headers: values by canonical name
    resolver,       \* WithCedarPrincipalResolver was given
    token, requestID, \* of the context
    header,         \* of the request
    body            \* and its body, as its JSON reads

vars == <<kind, options, rpc, stage, applied, idKey, headers, resolver, token, requestID, header, body>>
config == <<idKey, headers, resolver>>

Init ==
    /\ kind \in Kinds /\ options \in OptionLists(kind) /\ rpc \in RPCs(options)
    /\ stage = "options" /\ applied = 0
    /\ idKey = "X-Request-Id" /\ headers = <<>> /\ resolver = FALSE
    /\ token = <<>> /\ requestID = <<>> /\ header = <<>> /\ body = <<>>

-----------------------------------------------------------------------------
\* The constructor.

\* mustBeRequestIDHeaderKey does not panic.
Forwardable(key) == key[1] = NoKey \/ key[1] \in TokenNames \ Controlled

\* WithO3co...: an option that panics is no option.
MakeOptions ==
    /\ stage = "options"
    /\ stage' = IF \E i \in DOMAIN options : options[i].is = "IDKey" /\ ~Forwardable(options[i].key)
                THEN "panicked" ELSE "applying"
    /\ UNCHANGED <<kind, options, rpc, applied, config, token, requestID, header, body>>

\* http.Header.Set of entries in any order: two spellings of a name are one header.
Merged(entries) ==
    LET names == {e.name[1] : e \in entries}
        added == {h \in [names -> {e.value : e \in entries}] :
                     \A n \in names : \E e \in entries : e.name[1] = n /\ e.value = h[n]}
    IN  {[n \in names \cup DOMAIN headers |-> IF n \in names THEN h[n] ELSE headers[n]] : h \in added}

ApplyOption ==
    /\ stage = "applying" /\ applied < Len(options)
    /\ applied' = applied + 1
    /\ LET option == options[applied + 1]
       IN  \/ option.is = "IDKey" /\ idKey' = option.key[1] /\ UNCHANGED <<headers, resolver>>
           \/ option.is = "Headers" /\ headers' \in Merged(option.entries) /\ UNCHANGED <<idKey, resolver>>
           \/ option.is = "Resolver" /\ resolver' = TRUE /\ UNCHANGED <<idKey, headers>>
    /\ UNCHANGED <<kind, options, rpc, stage, token, requestID, header, body>>

\* Mutant: the request-ID header is judged by its default name.
StaticHeadersOKByDefault ==
    \A n \in DOMAIN headers :
        n \in TokenNames \ Controlled /\ n # "X-Request-Id" /\ headers[n] \in WellFormedValues

\* validateStaticHeaders, once every option has been applied.
StaticHeadersOK ==
    \A n \in DOMAIN headers :
        n \in TokenNames \ Controlled /\ n # idKey /\ headers[n] \in WellFormedValues

Construct ==
    /\ stage = "applying" /\ applied = Len(options)
    /\ stage' = IF StaticHeadersOK /\ (kind = "Cedar" => resolver) THEN "built" ELSE "refused"
    /\ UNCHANGED <<kind, options, rpc, applied, config, token, requestID, header, body>>

-----------------------------------------------------------------------------
\* What the verification interceptor reads.

InboundRequestID(ids) == IF Len(ids) = 1 /\ ids[1] \in WellFormedIDs THEN ids[1] ELSE Generated

Refused == <<"refused">>

\* What follows the spaces at the start of text.
TrimLeft(text) ==
    LET k == SelectInSeq(text, LAMBDA c : c # Space)
    IN  IF k = 0 THEN <<>> ELSE SubSeq(text, k, Len(text))

\* Mutant: the first of several values counts.
InboundFirstToken(values) ==
    IF values = <<>> THEN <<>>
    ELSE LET cut == SelectInSeq(values[1], LAMBDA c : c = Space)
             after == TrimLeft(SubSeq(values[1], cut + 1, Len(values[1])))
         IN  IF /\ cut > 1 /\ SubSeq(values[1], 1, cut - 1) \in {<<"Bearer">>, <<"bearer">>}
                /\ after # <<>> /\ ToSet(after) \cap Whitespace = {}
             THEN after ELSE Refused

\* InboundBearerToken: no value is no token, anything but one bearer credential is refused.
InboundBearerToken(values) ==
    IF values = <<>> THEN <<>>
    ELSE LET cut == SelectInSeq(values[1], LAMBDA c : c = Space)
             after == TrimLeft(SubSeq(values[1], cut + 1, Len(values[1])))
         IN  IF /\ Len(values) = 1
                /\ cut > 1 /\ SubSeq(values[1], 1, cut - 1) \in {<<"Bearer">>, <<"bearer">>}
                /\ after # <<>> /\ ToSet(after) \cap Whitespace = {}
             THEN after ELSE Refused

ASSUME PrincipalAssumption ==
    /\ \A t \in DOMAIN Principal : Principal[t] \in Seq(STRING)
    /\ \A k \in Kinds : \A l \in OptionLists(k) : \A r \in RPCs(l) :
           /\ r.resource \in Seq(STRING) /\ r.action \in Seq(STRING)
           /\ k = "Cedar" =>
                  InboundBearerToken(r.authorization) \in DOMAIN Principal \cup {<<>>, Refused}

\* An RPC arrives: the interceptor refuses a credential it cannot read, the endpoint an
\* RPC without one or, Cedar's, with one the resolver refuses; no backend is asked.
Receive ==
    /\ stage = "built"
    /\ LET read == InboundBearerToken(rpc.authorization)
           unasked == read = <<>> \/ (kind = "Cedar" /\ Principal[read] = <<>>)
       IN  /\ token' = IF read = Refused THEN <<>> ELSE read
           /\ stage' = IF read = Refused THEN "unreadable" ELSE IF unasked THEN "unasked" ELSE "asked"
    /\ requestID' = InboundRequestID(rpc.ids)
    /\ UNCHANGED <<kind, options, rpc, applied, config, header, body>>

-----------------------------------------------------------------------------
\* The request.

\* http.Header.Set, and an entry of any other map.
Set(map, name, value) == [n \in DOMAIN map \cup {name} |-> IF n = name THEN value ELSE map[n]]

\* A string as range and json.Marshal read it, rune by rune.
Rune(c) == IF c \in Invalid THEN Replacement ELSE c
Runes(text) == [i \in DOMAIN text |-> Rune(text[i])]

\* Mutant: quotes are escaped, backslashes are not.
EscapedQuotes(c) ==
    IF c = Quote THEN <<Backslash, c>>
    ELSE IF c \in Control THEN Escape[c] ELSE <<Rune(c)>>

\* formatEntityUID's escapes, of one rune.
Escaped(c) ==
    IF c \in {Quote, Backslash} THEN <<Backslash, c>>
    ELSE IF c \in Control THEN Escape[c] ELSE <<Rune(c)>>

EntityUID(type, id) ==
    <<type, "::", Quote>> \o FlattenSeq([i \in DOMAIN id |-> Escaped(id[i])]) \o <<Quote>>

\* The fields are left out where there are none; Cedar's context is always empty.
Body ==
    LET asked == [resource |-> Runes(rpc.resource), action |-> Runes(rpc.action)]
        extracted == [n \in DOMAIN rpc.fields |-> Runes(rpc.fields[n])]
        fields == IF rpc.fields = <<>> THEN asked ELSE Set(asked, "context", extracted)
    IN  CASE kind = "o3co" -> fields
          [] kind = "OPA" -> Set(fields, "token", Runes(token))
          [] kind = "Cedar" -> [principal |-> EntityUID("User", Principal[token]),
                                action |-> EntityUID("Action", rpc.action),
                                resource |-> EntityUID("Resource", rpc.resource)]

\* Static headers first: only o3co has any.
AddStatic ==
    /\ stage = "asked"
    /\ stage' = "own" /\ header' = headers /\ body' = Body
    /\ UNCHANGED <<kind, options, rpc, applied, config, token, requestID>>

\* noContentCoding, unless a static header asks for one.
Coding(h) ==
    IF "Accept-Encoding" \in DOMAIN h /\ h["Accept-Encoding"] # <<>> THEN h
    ELSE Set(h, "Accept-Encoding", Identity)

Authorization(h) == IF kind = "o3co" THEN Set(h, "Authorization", token) ELSE h

SetOwn ==
    /\ stage = "own"
    /\ stage' = "identified"
    /\ header' = Authorization(Coding(Set(Set(header, "Content-Type", JSON), "Accept", JSON)))
    /\ UNCHANGED <<kind, options, rpc, applied, config, token, requestID, body>>

\* Mutant: an ID goes out whether or not forwarding is disabled.
SetDefaultID ==
    /\ stage = "identified"
    /\ stage' = "sent"
    /\ header' = Set(header, IF idKey = NoKey THEN "X-Request-Id" ELSE idKey, requestID)
    /\ UNCHANGED <<kind, options, rpc, applied, config, token, requestID, body>>

SetRequestID ==
    /\ stage = "identified"
    /\ stage' = "sent"
    /\ header' = IF idKey # NoKey /\ requestID # <<>> THEN Set(header, idKey, requestID) ELSE header
    /\ UNCHANGED <<kind, options, rpc, applied, config, token, requestID, body>>

Over == stage \in {"panicked", "refused", "unreadable", "unasked", "sent"} /\ UNCHANGED vars

Next ==
    \/ MakeOptions \/ ApplyOption \/ Construct \/ Receive
    \/ AddStatic \/ SetOwn \/ SetRequestID \/ Over

Spec == Init /\ [][Next]_vars

-----------------------------------------------------------------------------
LastOf(is) == {i \in DOMAIN options : options[i].is = is /\ \A j \in DOMAIN options : options[j].is = is => j <= i}

\* The backend is asked about the caller's one credential, in whatever order the
\* options came: none of several, none that is not a bearer token, and no header of the
\* service's in its place.  OPA, told it in JSON, reads it so.  And only an RPC that brought
\* no credential at all is taken for one without: what cannot be read is never "none".
SubjectsOwnCredential ==
    /\ stage = "unasked" /\ token = <<>> => rpc.authorization = <<>>
    /\ stage = "sent" =>
        /\ Len(rpc.authorization) = 1
        /\ \E scheme \in {"Bearer", "bearer"}, k \in 1 .. Len(rpc.authorization[1]) :
               rpc.authorization[1] = <<scheme>> \o [i \in 1 .. k |-> Space] \o token
        /\ token # <<>> /\ ToSet(token) \cap Whitespace = {}
        /\ kind = "o3co" => header["Authorization"] = token
        /\ kind = "OPA" => body.token = Runes(token)
        /\ header["Content-Type"] = JSON /\ header["Accept"] = JSON

\* Every header the service configured arrives, with a value of the last call that set
\* it, whichever option renamed or disabled the request-ID header and when; an empty
\* Accept-Encoding asks for nothing.
StaticHeadersArrive ==
    LET Arrives(name, value) ==
            header[name] = IF name = "Accept-Encoding" /\ value = <<>> THEN Identity ELSE value
    IN  stage = "sent" =>
        \A i \in DOMAIN options : options[i].is = "Headers" =>
            \A e \in options[i].entries :
                \E j \in i .. Len(options) :
                    /\ options[j].is = "Headers"
                    /\ \E f \in options[j].entries : f.name[1] = e.name[1] /\ Arrives(e.name[1], f.value)
                    /\ \A k \in j + 1 .. Len(options) :
                           options[k].is = "Headers" => \A f \in options[k].entries : f.name[1] # e.name[1]

\* The backend's record of a check can be joined to the service's: the request ID on
\* the context goes out under the header the last option names, in the shape the
\* verifier accepts and the caller's own if that is; disabled, no header goes out that
\* is neither a configured one nor the endpoint's own.
RequestIDJoins ==
    stage = "sent" =>
        LET name == IF LastOf("IDKey") = {} THEN "X-Request-Id"
                    ELSE options[CHOOSE i \in LastOf("IDKey") : TRUE].key[1]
        IN  /\ IF name = NoKey
               THEN \A n \in DOMAIN header \ (Controlled \cup {"Accept-Encoding"}) :
                        \E i \in DOMAIN options :
                            options[i].is = "Headers" /\ \E e \in options[i].entries : e.name[1] = n
               ELSE header[name] = requestID
            /\ requestID \in WellFormedIDs
            /\ \A id \in WellFormedIDs : rpc.ids = <<id>> => requestID = id

\* An entity UID names the one entity: its literal ends where the UID does, and two
\* principals with the same are the same text - once each byte that is no UTF-8 is read
\* as U+FFFD, which is how the code writes them: that much of a principal is lost.
NamesOneEntity ==
    stage = "sent" /\ kind = "Cedar" =>
        \A part \in DOMAIN body :
            LET uid == body[part]
                Escapes(i) == Cardinality({j \in 4 .. i - 1 : \A k \in j .. i - 1 : uid[k] = Backslash})
            IN  /\ \A i \in 4 .. Len(uid) : uid[i] = Quote => (Escapes(i) % 2 = 0 <=> i = Len(uid))
                /\ part = "principal" =>
                       \A t \in DOMAIN Principal :
                           EntityUID("User", Principal[t]) = uid => Runes(Principal[t]) = Runes(Principal[token])
=============================================================================
