----------------------------- MODULE Resolution -----------------------------
(***************************************************************************)
(* ResolveResourceWithFields (resolve.go): the resource a policy names for *)
(* a request.  The mappings are read one by one, and then the template is  *)
(* written out, one placeholder after the other.                           *)
(*                                                                         *)
(* A text is a sequence of characters, a path a sequence of field names.   *)
(***************************************************************************)
EXTENDS Integers, SequencesExt

CONSTANTS
    Policies,       \* records of a resource, an action and mappings
    Requests(_),    \* under each policy: messages, and NoRequest
    NoRequest,      \* nil
    NoAction,       \* the empty action
    Segment,        \* printable ASCII except space, '"', '\', '.' and ':'
    Schema,         \* the fields of each message type: their type, and if repeated
    Root,           \* the type of the requests
    Messages,       \* by type
    Unset,          \* a message that is not set
    Printed         \* a number or a Boolean as fmt prints it

Scalars == {"string", "bytes", "number"}
Structural == {".", ":"}
Digits == <<"0", "1", "2", "3", "4", "5", "6", "7", "8", "9", "a", "b", "c", "d", "e", "f">>

ASSUME SegmentAssumption == Segment \cap Structural = {}
ASSUME SchemaAssumption ==
    Root \in DOMAIN Schema /\ Scalars \cap DOMAIN Schema = {} /\ Unset # NoRequest
ASSUME PoliciesAssumption ==
    \A p \in Policies :
        /\ p.resource \in Seq(STRING)
        /\ p.mappings \in Seq([placeholder : Seq(STRING), field : Seq(STRING)])
        /\ Requests(p) \subseteq Messages[Root] \cup {NoRequest}
\* A message has what its type says; no two numbers are printed alike.
ASSUME MessagesAssumption ==
    /\ \A type \in DOMAIN Schema : \A m \in Messages[type] : \A name \in DOMAIN Schema[type] :
           LET field == Schema[type][name]
           IN  ~field.repeated =>
                   /\ field.type = "string" => m[name] \in Seq(STRING)
                   /\ field.type = "bytes" => m[name] \in Seq(0 .. 255)
                   /\ field.type = "number" => m[name] \in DOMAIN Printed
                   /\ field.type \in DOMAIN Schema => m[name] \in Messages[field.type] \cup {Unset}
    /\ \A n \in DOMAIN Printed : Printed[n] \in Seq(STRING)
    /\ \A n1, n2 \in DOMAIN Printed : Printed[n1] = Printed[n2] => n1 = n2

VARIABLES
    policy, request,
    stage,
    mapped,         \* how many mappings have been read
    fields,         \* the values by placeholder
    read,           \* how much of the template has been read
    written,        \* the strings.Builder
    result          \* "target", "unsafe" (a ResourceValueError) or "broken" (any other)

vars == <<policy, request, stage, mapped, fields, read, written, result>>
given == <<policy, request>>

Init ==
    /\ policy \in Policies /\ request \in Requests(policy)
    /\ stage = "new" /\ mapped = 0 /\ fields = <<>>
    /\ read = 0 /\ written = <<>> /\ result = "none"

-----------------------------------------------------------------------------
\* Reading a field of the request.

\* The types a path of field names leads through from Root.
TypesOn(path) ==
    LET types[i \in 0 .. Len(path)] ==
            IF i = 0 THEN Root
            ELSE IF types[i - 1] \in DOMAIN Schema /\ path[i] \in DOMAIN Schema[types[i - 1]]
                 THEN Schema[types[i - 1]][path[i]].type ELSE "none"
    IN  types

\* What it leads through in a message, Unset from the first message on it that is not set.
ValuesOn(message, path) ==
    LET values[i \in 0 .. Len(path)] ==
            IF i = 0 THEN message ELSE IF values[i - 1] = Unset THEN Unset ELSE values[i - 1][path[i]]
    IN  values

TypeAt(path) == TypesOn(path)[Len(path)]
At(message, path) == ValuesOn(message, path)[Len(path)]

\* The i-th name of path is a field it can go on from, or end at.
Walks(path, i) ==
    LET type == TypesOn(path)[i - 1]
    IN  /\ type \in DOMAIN Schema /\ path[i] \in DOMAIN Schema[type]
        /\ ~Schema[type][path[i]].repeated
        /\ Schema[type][path[i]].type \in IF i = Len(path) THEN Scalars ELSE DOMAIN Schema

\* Mutants: a path may end at a list; a path is walked in the request, as far as that goes.
PathExistsToList(path) ==
    \A i \in DOMAIN path :
        \/ Walks(path, i)
        \/ i = Len(path) /\ TypesOn(path)[i - 1] \in DOMAIN Schema /\ TypesOn(path)[i] \in Scalars
PathExistsWhereSet(path) ==
    \A i \in DOMAIN path : Walks(path, i) \/ ValuesOn(request, path)[i - 1] = Unset

\* fieldPath: judged by the type alone, before any value is read.
PathExists(path) == \A i \in DOMAIN path : Walks(path, i)

\* Mutant: bytes that spell hex digits are taken as they are.
HexUnlessText(bytes) ==
    FlattenSeq([i \in DOMAIN bytes |->
        IF bytes[i] \in 97 .. 102 THEN <<Digits[bytes[i] - 86]>>
        ELSE <<Digits[(bytes[i] \div 16) + 1], Digits[(bytes[i] % 16) + 1]>>])

\* hex.EncodeToString.
Hex(bytes) ==
    FlattenSeq([i \in DOMAIN bytes |-> <<Digits[(bytes[i] \div 16) + 1], Digits[(bytes[i] % 16) + 1]>>])

\* scalarString.
TextOf(type, value) ==
    CASE type = "string" -> value [] type = "bytes" -> Hex(value) [] type = "number" -> Printed[value]

\* extractField, for a path that exists.
Extract(message, path) ==
    LET value == At(message, path) IN IF value = Unset THEN Unset ELSE TextOf(TypeAt(path), value)

-----------------------------------------------------------------------------
Stop(r) == stage' = "over" /\ result' = r

Begin ==
    /\ stage = "new"
    /\ IF policy.resource = <<>> \/ policy.action = NoAction THEN Stop("broken")
       ELSE stage' = "mapping" /\ UNCHANGED result
    /\ UNCHANGED <<given, mapped, fields, read, written>>

\* Mutant: a message that is not set leaves its placeholder without a value.
ReadMappingUnlessUnset ==
    /\ stage = "mapping" /\ mapped < Len(policy.mappings)
    /\ LET m == policy.mappings[mapped + 1]
           usable == m.placeholder # <<>> /\ m.field # <<>> /\ request # NoRequest /\ PathExists(m.field)
       IN  \/ ~usable /\ Stop("broken") /\ UNCHANGED <<mapped, fields>>
           \/ /\ usable /\ mapped' = mapped + 1
              /\ fields' = IF Extract(request, m.field) = Unset THEN fields
                           ELSE [name \in DOMAIN fields \cup {m.placeholder} |->
                                    IF name = m.placeholder THEN Extract(request, m.field) ELSE fields[name]]
              /\ UNCHANGED <<stage, result>>
    /\ UNCHANGED <<given, read, written>>

ReadMapping ==
    /\ stage = "mapping" /\ mapped < Len(policy.mappings)
    /\ LET m == policy.mappings[mapped + 1]
           usable == m.placeholder # <<>> /\ m.field # <<>> /\ request # NoRequest /\ PathExists(m.field)
       IN  \/ ~usable /\ Stop("broken") /\ UNCHANGED <<mapped, fields>>
           \/ usable /\ Extract(request, m.field) = Unset /\ Stop("unsafe") /\ UNCHANGED <<mapped, fields>>
           \/ /\ usable /\ Extract(request, m.field) # Unset
              /\ mapped' = mapped + 1
              /\ fields' = [name \in DOMAIN fields \cup {m.placeholder} |->
                     IF name = m.placeholder THEN Extract(request, m.field) ELSE fields[name]]
              /\ UNCHANGED <<stage, result>>
    /\ UNCHANGED <<given, read, written>>

BeginSubstitution ==
    /\ stage = "mapping" /\ mapped = Len(policy.mappings)
    /\ stage' = "substituting"
    /\ UNCHANGED <<given, mapped, fields, read, written, result>>

\* Mutants: a value may be empty, or bring structure of its own.
AcceptedEmpty(value) == ToSet(value) \subseteq Segment
AcceptedPrintable(value) == value # <<>> /\ ToSet(value) \subseteq Segment \cup Structural

\* validateResourceValue.
Accepted(value) == value # <<>> /\ ToSet(value) \subseteq Segment

\* Mutant: a placeholder opens at the first '<'.
OpenFirst == SelectInSubSeq(policy.resource, read + 1, Len(policy.resource), LAMBDA c : c = "<")

\* The first '>' after the first '<' that is left, 0 if there is none.
End ==
    LET first == SelectInSubSeq(policy.resource, read + 1, Len(policy.resource), LAMBDA c : c = "<")
    IN  IF first = 0 THEN 0
        ELSE SelectInSubSeq(policy.resource, first + 1, Len(policy.resource), LAMBDA c : c = ">")

\* The '<' nearest to it.
Open == SelectLastInSubSeq(policy.resource, read + 1, End, LAMBDA c : c = "<")

Name == SubSeq(policy.resource, Open + 1, End - 1)

Fill ==
    /\ stage = "substituting" /\ End # 0
    /\ \/ Name \notin DOMAIN fields /\ Stop("broken") /\ UNCHANGED <<read, written>>
       \/ Name \in DOMAIN fields /\ ~Accepted(fields[Name]) /\ Stop("unsafe") /\ UNCHANGED <<read, written>>
       \/ /\ Name \in DOMAIN fields /\ Accepted(fields[Name])
          /\ written' = written \o SubSeq(policy.resource, read + 1, Open - 1) \o fields[Name]
          /\ read' = End
          /\ UNCHANGED <<stage, result>>
    /\ UNCHANGED <<given, mapped, fields>>

WriteRest ==
    /\ stage = "substituting" /\ End = 0
    /\ written' = written \o SubSeq(policy.resource, read + 1, Len(policy.resource))
    /\ read' = Len(policy.resource)
    /\ Stop("target")
    /\ UNCHANGED <<given, mapped, fields>>

Over == stage = "over" /\ UNCHANGED vars

Next == Begin \/ ReadMapping \/ BeginSubstitution \/ Fill \/ WriteRest \/ Over

Spec == Init /\ [][Next]_vars

-----------------------------------------------------------------------------
\* What resolution promises, without its steps.

\* The placeholders of a template: a '<' and a '>' with neither between them.
Placeholders(t) ==
    {p \in (DOMAIN t) \X (DOMAIN t) :
        /\ p[1] < p[2] /\ t[p[1]] = "<" /\ t[p[2]] = ">"
        /\ \A i \in p[1] + 1 .. p[2] - 1 : t[i] \notin {"<", ">"}}

NameIn(t, p) == SubSeq(t, p[1] + 1, p[2] - 1)

Names(t) == {NameIn(t, p) : p \in Placeholders(t)}

\* A template in pieces: the value of each placeholder in its place, the rest as it is.
Pieces(t, values) ==
    [i \in DOMAIN t |->
        IF \E p \in Placeholders(t) : p[1] = i
        THEN values[NameIn(t, CHOOSE p \in Placeholders(t) : p[1] = i)]
        ELSE IF \E p \in Placeholders(t) : i \in p[1] .. p[2] THEN <<>> ELSE <<t[i]>>]

Filled(t, values) == FlattenSeq(Pieces(t, values))

\* The field the last mapping for a name reads, and what it says.
FieldOf(p, name) == p.mappings[SelectLastInSeq(p.mappings, LAMBDA m : m.placeholder = name)].field
ValueOf(p, message, name) == Extract(message, FieldOf(p, name))

ValuesOf(p, message) == [name \in Names(p.resource) |-> ValueOf(p, message, name)]

\* The separators of a text.
Structure(text) ==
    FlattenSeq([i \in DOMAIN text |-> IF text[i] \in Structural THEN <<text[i]>> ELSE <<>>])

\* A mapping that can never work; the mappings that are so or have nothing to read.
Wrong(m, q) == m.placeholder = <<>> \/ m.field = <<>> \/ q = NoRequest \/ ~PathExists(m.field)
Troubled(p, q) ==
    {i \in DOMAIN p.mappings : Wrong(p.mappings[i], q) \/ Extract(q, p.mappings[i].field) = Unset}

\* The names without a mapping; where a placeholder has one, or a value that is no segment.
Unmapped(p) == Names(p.resource) \ {p.mappings[i].placeholder : i \in DOMAIN p.mappings}
Refused(p, q, name) == name \in Unmapped(p) \/ ~Accepted(ValueOf(p, q, name))
RefusedAt(p, q) ==
    {i \in DOMAIN p.resource :
        \E x \in Placeholders(p.resource) : x[1] = i /\ Refused(p, q, NameIn(p.resource, x))}

\* What the first trouble makes of a policy for a request, the mappings before the template.
Blame(mistake) == IF mistake THEN "broken" ELSE "unsafe"
Outcome(p, q) ==
    IF p.resource = <<>> \/ p.action = NoAction THEN "broken"
    ELSE IF Troubled(p, q) # {} THEN Blame(Wrong(p.mappings[Min(Troubled(p, q))], q))
    ELSE IF RefusedAt(p, q) # {}
         THEN Blame(\E x \in Placeholders(p.resource) :
                        x[1] = Min(RefusedAt(p, q)) /\ NameIn(p.resource, x) \in Unmapped(p))
    ELSE "target"

\* The resource is the template with every "<name>" filled and nothing else changed:
\* a value that spells a placeholder is data, and so is a '<' or '>' that is not one's.
\* It is missing for our mistake only if a "<name>" has no mapping.
FilledOnce ==
    LET names == Names(policy.resource)
        mappedNames == {policy.mappings[i].placeholder : i \in DOMAIN policy.mappings}
    IN  /\ result = "target" =>
            /\ names \subseteq mappedNames
            /\ written = Filled(policy.resource, ValuesOf(policy, request))
        /\ result = "broken" /\ mapped > 0 /\ mapped = Len(policy.mappings) => ~(names \subseteq mappedNames)

\* A value is part of one segment: what fills a placeholder is never empty, and the
\* resource has the template's separators and no other ("value is empty; it
\* would remove a component of the resource template rather than fill it").
KeepsStructure ==
    result = "target" =>
        /\ \A name \in Names(policy.resource) : ValueOf(policy, request, name) # <<>>
        /\ Structure(written) =
               Structure(Filled(policy.resource, [name \in Names(policy.resource) |-> <<"x">>]))

\* "Two different values never name the same resource": where a separator stands
\* between the placeholders, another request that names this resource has the
\* same values in it.
NamesOneResource ==
    LET t == policy.resource
        separated == \A p1, p2 \in Placeholders(t) :
                         p1[2] < p2[1] => \E i \in p1[2] .. p2[1] : t[i] \in Structural
        Same(q) == \A name \in Names(t) :
                       At(q, FieldOf(policy, name)) = At(request, FieldOf(policy, name))
        Resolves(q) ==
            /\ \A i \in DOMAIN policy.mappings : Extract(q, policy.mappings[i].field) # Unset
            /\ \A name \in Names(t) : Accepted(ValueOf(policy, q, name))
            /\ written = Filled(t, ValuesOf(policy, q))
    IN  result = "target" /\ separated => \A q \in Requests(policy) \ {NoRequest} : Resolves(q) => Same(q)

\* A path to one scalar, by way of single messages.
Readable(path) ==
    /\ TypeAt(path) \in Scalars
    /\ \A i \in DOMAIN path : ~Schema[TypesOn(path)[i - 1]][path[i]].repeated

\* A request is denied only for what is in it, a message it has not set or a value
\* the resource would hold: a path no request of the type can have, or that leads
\* through a list or a map, is a mistake of ours, whatever this request has set.
DenialIsOfTheRequest ==
    result = "unsafe" =>
        /\ request # NoRequest
        /\ \A i \in DOMAIN policy.mappings : i <= mapped + 1 => Readable(policy.mappings[i].field)
        /\ \/ \E i \in DOMAIN policy.mappings : i = mapped + 1 /\ Extract(request, policy.mappings[i].field) = Unset
           \/ \E name \in Names(policy.resource) : name \in DOMAIN fields /\ ~Accepted(ValueOf(policy, request, name))

\* Whether a caller is answered, denied or told that the service is misconfigured is
\* decided by the first trouble, in the policy's order, whatever else is wrong.
FirstTroubleDecides == stage = "over" => result = Outcome(policy, request)
=============================================================================
