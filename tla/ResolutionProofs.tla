-------------------------- MODULE ResolutionProofs ---------------------------
(***************************************************************************)
(* What a policy resolves to, for any policies, schema and requests: the   *)
(* template with its placeholders filled, in which a value fills one       *)
(* segment, or a denial that is the request's own.                         *)
(***************************************************************************)
EXTENDS Resolution, TextTheorems

\* The characters of a text.
Char == STRING \cup {Digits[i] : i \in 1 .. 16} \cup {"x"}

Template == policy.resource
Mapping(i) == policy.mappings[i]

\* A mapping that is no mistake.
Usable(m) == m.placeholder # <<>> /\ m.field # <<>> /\ request # NoRequest /\ PathExists(m.field)

TypesInv ==
    /\ policy \in Policies /\ request \in Requests(policy)
    /\ stage \in {"new", "mapping", "substituting", "over"}
    /\ result \in {"none", "target", "unsafe", "broken"}
    /\ stage # "over" => result = "none"
    /\ mapped \in 0 .. Len(policy.mappings) /\ (stage = "new" => mapped = 0)

\* What has been read of the request.
MappedInv ==
    \A i \in 1 .. mapped : Usable(Mapping(i)) /\ Extract(request, Mapping(i).field) # Unset

FieldsInv ==
    /\ DOMAIN fields = {Mapping(i).placeholder : i \in 1 .. mapped}
    /\ \A i \in 1 .. mapped :
           (\A j \in i + 1 .. mapped : Mapping(j).placeholder # Mapping(i).placeholder) =>
               fields[Mapping(i).placeholder] = Extract(request, Mapping(i).field)

\* What has been read of the template: no placeholder in part, and the pieces are written.
Known == [name \in Names(Template) |-> IF name \in DOMAIN fields THEN fields[name] ELSE <<>>]
ReadInv ==
    /\ read \in 0 .. Len(Template)
    /\ \A p \in Placeholders(Template) :
           \/ p[2] <= read /\ NameIn(Template, p) \in DOMAIN fields /\ Accepted(fields[NameIn(Template, p)])
           \/ read < p[1]
WrittenInv == written = Text(Pieces(Template, Known))[read]

SubstitutionInv ==
    /\ stage \in {"new", "mapping"} => read = 0 /\ written = <<>>
    /\ stage = "substituting" \/ result = "target" => mapped = Len(policy.mappings) /\ ReadInv /\ WrittenInv
    /\ result = "target" => read = Len(Template)

\* Why it stopped: a mapping, or the first placeholder that cannot be filled.
Empty == Template = <<>> \/ policy.action = NoAction
Fills(p) == NameIn(Template, p) \in DOMAIN fields /\ Accepted(fields[NameIn(Template, p)])
Stopper(p) ==
    /\ p \in Placeholders(Template) /\ ~Fills(p)
    /\ \A x \in Placeholders(Template) : x[1] < p[1] => Fills(x)
StopInv ==
    /\ stage \in {"mapping", "substituting"} \/ result \in {"target", "unsafe"} => ~Empty
    /\ stage = "over" => result # "none"
    /\ result = "broken" =>
           \/ Empty /\ mapped = 0
           \/ ~Empty /\ mapped < Len(policy.mappings) /\ ~Usable(Mapping(mapped + 1))
           \/ /\ ~Empty /\ mapped = Len(policy.mappings)
              /\ \E p : Stopper(p) /\ NameIn(Template, p) \notin DOMAIN fields
    /\ result = "unsafe" =>
           \/ /\ mapped < Len(policy.mappings) /\ Usable(Mapping(mapped + 1))
              /\ Extract(request, Mapping(mapped + 1).field) = Unset
           \/ /\ mapped = Len(policy.mappings)
              /\ \E p : Stopper(p) /\ NameIn(Template, p) \in DOMAIN fields

ResolutionInv == TypesInv /\ MappedInv /\ FieldsInv /\ SubstitutionInv /\ StopInv

-----------------------------------------------------------------------------
(* Paths.                                                                  *)

StepType(type, name) ==
    IF type \in DOMAIN Schema /\ name \in DOMAIN Schema[type] THEN Schema[type][name].type ELSE "none"
StepValue(value, name) == IF value = Unset THEN Unset ELSE value[name]

TypesFrom(types, path, n) == types[0] = Root /\ \A i \in 1 .. n : types[i] = StepType(types[i - 1], path[i])
ValuesFrom(values, message, path, n) ==
    values[0] = message /\ \A i \in 1 .. n : values[i] = StepValue(values[i - 1], path[i])

\* The types a path leads through are one step from each other, ...
LEMMA TypesAre ==
    ASSUME NEW path, Len(path) \in Nat
    PROVE  TypesFrom(TypesOn(path), path, Len(path))
<1> DEFINE n == Len(path)
           P == {k \in Nat : \E f : f = [i \in 0 .. k |-> f[i]] /\ TypesFrom(f, path, k)}
<1>1. 0 \in P
  <2> DEFINE f == [i \in 0 .. 0 |-> Root]
  <2>1. f = [i \in 0 .. 0 |-> f[i]] /\ TypesFrom(f, path, 0)
    BY DEF TypesFrom
  <2> QED
    BY <2>1
<1>2. ASSUME NEW k \in 0 .. n - 1, k \in P PROVE k + 1 \in P
  <2>1. PICK f : f = [i \in 0 .. k |-> f[i]] /\ TypesFrom(f, path, k)
    BY <1>2
  <2> DEFINE h == [i \in 0 .. k + 1 |-> IF i <= k THEN f[i] ELSE StepType(f[k], path[k + 1])]
  <2>2. h = [i \in 0 .. k + 1 |-> h[i]]
    OBVIOUS
  <2>3. h[0] = Root
    BY <2>1 DEF TypesFrom
  <2>4. ASSUME NEW i \in 1 .. k + 1 PROVE h[i] = StepType(h[i - 1], path[i])
    <3>1. CASE i <= k
      <4>1. i \in 1 .. k /\ h[i] = f[i] /\ h[i - 1] = f[i - 1]
        BY <3>1
      <4> QED
        BY <2>1, <4>1 DEF TypesFrom
    <3>2. CASE i = k + 1
      <4>1. h[i] = StepType(f[k], path[i]) /\ h[i - 1] = f[k]
        BY <3>2
      <4> QED
        BY <4>1
    <3> QED
      BY <3>1, <3>2
  <2> HIDE DEF h
  <2>5. TypesFrom(h, path, k + 1)
    BY <2>3, <2>4 DEF TypesFrom
  <2> QED
    BY <2>2, <2>5
<1>3. n \in P
  <2>1. \A k \in 0 .. n - 1 : k \in P => k + 1 \in P
    BY <1>2
  <2> HIDE DEF P
  <2>2. \A k \in 0 .. n : k \in P
    BY <1>1, <2>1, UpTo
  <2> QED
    BY <2>2
<1>4. PICK f : f = [i \in 0 .. n |-> f[i]] /\ TypesFrom(f, path, n)
  BY <1>3
<1> DEFINE types == CHOOSE g : g = [i \in 0 .. n |-> IF i = 0 THEN Root ELSE StepType(g[i - 1], path[i])]
<1>5. f = [i \in 0 .. n |-> IF i = 0 THEN Root ELSE StepType(f[i - 1], path[i])]
  BY <1>4 DEF TypesFrom
<1>6. types = [i \in 0 .. n |-> IF i = 0 THEN Root ELSE StepType(types[i - 1], path[i])]
  BY <1>5
<1>7. TypesOn(path) = types
  BY DEF TypesOn, StepType
<1> HIDE DEF types
<1>8. TypesFrom(types, path, n)
  BY <1>6 DEF TypesFrom
<1> QED
  BY <1>7, <1>8

\* ... and so are the values in a message.
LEMMA ValuesAre ==
    ASSUME NEW message, NEW path, Len(path) \in Nat
    PROVE  ValuesFrom(ValuesOn(message, path), message, path, Len(path))
<1> DEFINE n == Len(path)
           P == {k \in Nat : \E f : f = [i \in 0 .. k |-> f[i]] /\ ValuesFrom(f, message, path, k)}
<1>1. 0 \in P
  <2> DEFINE f == [i \in 0 .. 0 |-> message]
  <2>1. f = [i \in 0 .. 0 |-> f[i]] /\ ValuesFrom(f, message, path, 0)
    BY DEF ValuesFrom
  <2> QED
    BY <2>1
<1>2. ASSUME NEW k \in 0 .. n - 1, k \in P PROVE k + 1 \in P
  <2>1. PICK f : f = [i \in 0 .. k |-> f[i]] /\ ValuesFrom(f, message, path, k)
    BY <1>2
  <2> DEFINE h == [i \in 0 .. k + 1 |-> IF i <= k THEN f[i] ELSE StepValue(f[k], path[k + 1])]
  <2>2. h = [i \in 0 .. k + 1 |-> h[i]]
    OBVIOUS
  <2>3. h[0] = message
    BY <2>1 DEF ValuesFrom
  <2>4. ASSUME NEW i \in 1 .. k + 1 PROVE h[i] = StepValue(h[i - 1], path[i])
    <3>1. CASE i <= k
      <4>1. i \in 1 .. k /\ h[i] = f[i] /\ h[i - 1] = f[i - 1]
        BY <3>1
      <4> QED
        BY <2>1, <4>1 DEF ValuesFrom
    <3>2. CASE i = k + 1
      <4>1. h[i] = StepValue(f[k], path[i]) /\ h[i - 1] = f[k]
        BY <3>2
      <4> QED
        BY <4>1
    <3> QED
      BY <3>1, <3>2
  <2> HIDE DEF h
  <2>5. ValuesFrom(h, message, path, k + 1)
    BY <2>3, <2>4 DEF ValuesFrom
  <2> QED
    BY <2>2, <2>5
<1>3. n \in P
  <2>1. \A k \in 0 .. n - 1 : k \in P => k + 1 \in P
    BY <1>2
  <2> HIDE DEF P
  <2>2. \A k \in 0 .. n : k \in P
    BY <1>1, <2>1, UpTo
  <2> QED
    BY <2>2
<1>4. PICK f : f = [i \in 0 .. n |-> f[i]] /\ ValuesFrom(f, message, path, n)
  BY <1>3
<1> DEFINE values == CHOOSE g : g = [i \in 0 .. n |-> IF i = 0 THEN message ELSE StepValue(g[i - 1], path[i])]
<1>5. f = [i \in 0 .. n |-> IF i = 0 THEN message ELSE StepValue(f[i - 1], path[i])]
  BY <1>4 DEF ValuesFrom
<1>6. values = [i \in 0 .. n |-> IF i = 0 THEN message ELSE StepValue(values[i - 1], path[i])]
  BY <1>5
<1>7. ValuesOn(message, path) = values
  BY DEF ValuesOn, StepValue
<1> HIDE DEF values
<1>8. ValuesFrom(values, message, path, n)
  BY <1>6 DEF ValuesFrom
<1> QED
  BY <1>7, <1>8

\* A path that exists ends at a scalar, ...
LEMMA EndsAtScalar ==
    ASSUME NEW path \in Seq(STRING), path # <<>>, PathExists(path)
    PROVE  TypeAt(path) \in Scalars
<1>1. Len(path) \in Nat \ {0} /\ Len(path) \in DOMAIN path
  OBVIOUS
<1> DEFINE n == Len(path)
           types == TypesOn(path)
<1>2. types[n] = StepType(types[n - 1], path[n])
  <2>1. TypesFrom(types, path, n)
    BY <1>1, TypesAre
  <2> HIDE DEF types
  <2> QED
    BY <1>1, <2>1 DEF TypesFrom
<1>3. Walks(path, n)
  BY <1>1 DEF PathExists
<1>4. /\ types[n - 1] \in DOMAIN Schema /\ path[n] \in DOMAIN Schema[types[n - 1]]
      /\ Schema[types[n - 1]][path[n]].type \in Scalars
  BY <1>3 DEF Walks
<1> HIDE DEF types
<1>5. types[n] \in Scalars
  BY <1>2, <1>4 DEF StepType
<1> QED
  BY <1>5 DEF types, TypeAt

\* ... and what it leads through in a message is of its type.
Fits(type, value) ==
    value # Unset =>
        /\ type = "string" => value \in Seq(STRING)
        /\ type = "bytes" => value \in Seq(0 .. 255)
        /\ type = "number" => value \in DOMAIN Printed
        /\ type \in DOMAIN Schema => value \in Messages[type]

LEMMA ValueFits ==
    ASSUME NEW path \in Seq(STRING), PathExists(path), NEW message \in Messages[Root]
    PROVE  Fits(TypeAt(path), At(message, path))
<1>1. PICK n \in Nat : n = Len(path) /\ DOMAIN path = 1 .. n
  OBVIOUS
<1>2. PICK types : types = TypesOn(path) /\ TypesFrom(types, path, n)
  BY <1>1, TypesAre
<1>3. PICK values : values = ValuesOn(message, path) /\ ValuesFrom(values, message, path, n)
  BY <1>1, ValuesAre
<1> DEFINE P == {k \in Nat : Fits(types[k], values[k])}
<1>4. 0 \in P
  <2>1. Root \in DOMAIN Schema /\ Root \notin {"string", "bytes", "number"}
    BY SchemaAssumption DEF Scalars
  <2>2. types[0] = Root /\ values[0] = message
    BY <1>2, <1>3 DEF TypesFrom, ValuesFrom
  <2> QED
    BY <2>1, <2>2 DEF Fits
<1>5. ASSUME NEW k \in 0 .. n - 1, k \in P PROVE k + 1 \in P
  <2>1. k + 1 \in 1 .. n /\ (k + 1) - 1 = k /\ k + 1 \in DOMAIN path
    BY <1>1
  <2>2. PICK type, m, name : type = types[k] /\ m = values[k] /\ name = path[k + 1]
    OBVIOUS
  <2>3. types[k + 1] = StepType(type, name) /\ values[k + 1] = StepValue(m, name)
    BY <1>2, <1>3, <2>1, <2>2 DEF TypesFrom, ValuesFrom
  <2>4. type \in DOMAIN Schema /\ name \in DOMAIN Schema[type] /\ ~Schema[type][name].repeated
    <3>1. Walks(path, k + 1)
      BY <2>1 DEF PathExists
    <3> QED
      BY <1>2, <2>1, <2>2, <3>1 DEF Walks
  <2>5. types[k + 1] = Schema[type][name].type
    BY <2>3, <2>4 DEF StepType
  <2>6. CASE m = Unset
    BY <2>1, <2>3, <2>6 DEF StepValue, Fits
  <2>7. CASE m # Unset
    <3>1. m \in Messages[type]
      BY <1>5, <2>2, <2>4, <2>7 DEF Fits
    <3>2. values[k + 1] = m[name]
      BY <2>3, <2>7 DEF StepValue
    <3>3. Fits(Schema[type][name].type, m[name])
      BY <2>4, <3>1, MessagesAssumption DEF Fits
    <3> QED
      BY <2>1, <2>5, <3>2, <3>3
  <2> QED
    BY <2>6, <2>7
<1>6. n \in P
  <2>1. \A k \in 0 .. n - 1 : k \in P => k + 1 \in P
    BY <1>5
  <2> HIDE DEF P
  <2>2. \A k \in 0 .. n : k \in P
    BY <1>4, <2>1, UpTo
  <2> QED
    BY <2>2
<1> QED
  BY <1>1, <1>2, <1>3, <1>6 DEF TypeAt, At

\* The digits are different.
LEMMA DigitsDiffer ==
    ASSUME NEW i \in 1 .. 16, NEW j \in 1 .. 16, Digits[i] = Digits[j]
    PROVE  i = j
BY DEF Digits

Half(b) == <<Digits[(b \div 16) + 1], Digits[(b % 16) + 1]>>

LEMMA ByteIs ==
    ASSUME NEW b \in 0 .. 255
    PROVE  /\ b \div 16 \in 0 .. 15 /\ b % 16 \in 0 .. 15 /\ b = 16 * (b \div 16) + (b % 16)
OBVIOUS

LEMMA HalfIs ==
    ASSUME NEW b \in 0 .. 255
    PROVE  /\ Half(b) \in Seq(Char) /\ Half(b) # <<>> /\ DOMAIN Half(b) = {1, 2}
           /\ Half(b)[1] = Digits[(b \div 16) + 1] /\ Half(b)[2] = Digits[(b % 16) + 1]
<1>1. PICK x, y : x = Digits[(b \div 16) + 1] /\ y = Digits[(b % 16) + 1]
  OBVIOUS
<1>2. x \in Char /\ y \in Char
  <2>1. (b \div 16) + 1 \in 1 .. 16 /\ (b % 16) + 1 \in 1 .. 16
    BY ByteIs
  <2> QED
    BY <1>1, <2>1 DEF Char
<1>3. Half(b) = <<x, y>>
  BY <1>1 DEF Half
<1> QED
  BY <1>1, <1>2, <1>3, Two

LEMMA HalvesDiffer ==
    ASSUME NEW b \in 0 .. 255, NEW c \in 0 .. 255, b # c
    PROVE  \E k \in DOMAIN Half(b) \cap DOMAIN Half(c) : Half(b)[k] # Half(c)[k]
<1>1. PICK b1, b2, c1, c2 : b1 = b \div 16 /\ b2 = b % 16 /\ c1 = c \div 16 /\ c2 = c % 16
  OBVIOUS
<1>2. b1 \in 0 .. 15 /\ b2 \in 0 .. 15 /\ c1 \in 0 .. 15 /\ c2 \in 0 .. 15 /\ b = 16 * b1 + b2 /\ c = 16 * c1 + c2
  BY <1>1, ByteIs
<1>3. b1 # c1 \/ b2 # c2
  BY <1>2
<1>4. Half(b)[1] # Half(c)[1] \/ Half(b)[2] # Half(c)[2]
  <2>1. b1 + 1 \in 1 .. 16 /\ b2 + 1 \in 1 .. 16 /\ c1 + 1 \in 1 .. 16 /\ c2 + 1 \in 1 .. 16
    BY <1>2
  <2>2. b1 + 1 # c1 + 1 \/ b2 + 1 # c2 + 1
    BY <1>2, <1>3
  <2>3. Digits[b1 + 1] # Digits[c1 + 1] \/ Digits[b2 + 1] # Digits[c2 + 1]
    BY <2>1, <2>2, DigitsDiffer
  <2> QED
    BY <1>1, <2>3, HalfIs
<1> QED
  BY <1>4, HalfIs

LEMMA ElementsAre ==
    ASSUME NEW S, NEW s \in Seq(S)
    PROVE  \A i \in DOMAIN s : s[i] \in S
OBVIOUS

\* Hex tells bytes apart.
LEMMA HexIs ==
    ASSUME NEW bytes \in Seq(0 .. 255)
    PROVE  /\ [i \in DOMAIN bytes |-> Half(bytes[i])] \in Seq(Seq(Char))
           /\ Hex(bytes) = FlattenSeq([i \in DOMAIN bytes |-> Half(bytes[i])])
           /\ Hex(bytes) \in Seq(Char)
<1>1. PICK halves : halves = [i \in DOMAIN bytes |-> Half(bytes[i])]
  OBVIOUS
<1>2. halves \in Seq(Seq(Char))
  <2>1. ASSUME NEW i \in DOMAIN bytes PROVE Half(bytes[i]) \in Seq(Char)
    <3>1. bytes[i] \in 0 .. 255
      BY ElementsAre
    <3> QED
      BY <3>1, HalfIs
  <2>2. DOMAIN bytes = 1 .. Len(bytes) /\ Len(bytes) \in Nat
    OBVIOUS
  <2> QED
    BY <1>1, <2>1, <2>2
<1>3. Hex(bytes) = FlattenSeq(halves)
  BY <1>1 DEF Hex, Half
<1>4. FlattenSeq(halves) \in Seq(Char)
  BY <1>2, FlattenJoined
<1> QED
  BY <1>1, <1>2, <1>3, <1>4

LEMMA HexTells ==
    ASSUME NEW b \in Seq(0 .. 255), NEW c \in Seq(0 .. 255), Hex(b) = Hex(c)
    PROVE  b = c
<1>1. PICK s : s = [i \in DOMAIN b |-> Half(b[i])]
  OBVIOUS
<1>2. PICK t : t = [i \in DOMAIN c |-> Half(c[i])]
  OBVIOUS
<1>3. s \in Seq(Seq(Char)) /\ t \in Seq(Seq(Char)) /\ FlattenSeq(s) = FlattenSeq(t)
  BY <1>1, <1>2, HexIs
<1>4. /\ \A i \in DOMAIN s : s[i] = Half(b[i]) /\ b[i] \in 0 .. 255
      /\ \A i \in DOMAIN t : t[i] = Half(c[i]) /\ c[i] \in 0 .. 255
  <2>1. (\A i \in DOMAIN b : b[i] \in 0 .. 255) /\ (\A i \in DOMAIN c : c[i] \in 0 .. 255)
    BY ElementsAre
  <2> QED
    BY <1>1, <1>2, <2>1
<1>5. (\A i \in DOMAIN s : s[i] # <<>>) /\ (\A i \in DOMAIN t : t[i] # <<>>)
  <2>1. \A x \in 0 .. 255 : Half(x) # <<>>
    BY HalfIs
  <2> QED
    BY <1>4, <2>1
<1>6. \A i \in DOMAIN s, j \in DOMAIN t :
          s[i] # t[j] => \E k \in DOMAIN s[i] \cap DOMAIN t[j] : s[i][k] # t[j][k]
  <2> SUFFICES ASSUME NEW i \in DOMAIN s, NEW j \in DOMAIN t, s[i] # t[j]
               PROVE  \E k \in DOMAIN s[i] \cap DOMAIN t[j] : s[i][k] # t[j][k]
    OBVIOUS
  <2>1. PICK x \in 0 .. 255, y \in 0 .. 255 : x = b[i] /\ y = c[j]
    BY <1>4
  <2>2. s[i] = Half(x) /\ t[j] = Half(y)
    BY <1>4, <2>1
  <2>3. x # y
    BY <2>2
  <2>4. \E k \in DOMAIN Half(x) \cap DOMAIN Half(y) : Half(x)[k] # Half(y)[k]
    BY <2>3, HalvesDiffer
  <2> QED
    BY <2>2, <2>4
<1>7. s = t
  <2>1. Apart(s, t)
    BY <1>5, <1>6 DEF Apart
  <2> QED
    BY ONLY <1>3, <2>1, PrefixCode
<1>8. DOMAIN b = DOMAIN c
  BY <1>1, <1>2, <1>7
<1>9. \A i \in DOMAIN b : b[i] = c[i]
  <2> SUFFICES ASSUME NEW i \in DOMAIN b PROVE b[i] = c[i]
    OBVIOUS
  <2>1. i \in DOMAIN s /\ i \in DOMAIN t
    BY <1>1, <1>7
  <2>2. Half(b[i]) = Half(c[i]) /\ b[i] \in 0 .. 255 /\ c[i] \in 0 .. 255
    BY <1>4, <1>7, <2>1
  <2> QED
    BY <2>2, HalvesDiffer
<1>10. Len(b) = Len(c)
  BY <1>8
<1> QED
  BY <1>8, <1>9, <1>10, SeqEqual

\* What a field says is a text, and says which value it has.
LEMMA TextOfIs ==
    ASSUME NEW type \in Scalars, NEW v, Fits(type, v), v # Unset
    PROVE  TextOf(type, v) \in Seq(Char)
<1>1. STRING \subseteq Char
  BY DEF Char
<1>2. CASE type = "string"
  BY <1>1, <1>2, SeqMonotonic DEF Fits, TextOf
<1>3. CASE type = "bytes"
  BY <1>3, HexIs DEF Fits, TextOf
<1>4. CASE type = "number"
  <2>1. Printed[v] \in Seq(STRING)
    BY <1>4, MessagesAssumption DEF Fits
  <2>2. Printed[v] \in Seq(Char)
    BY <1>1, <2>1, SeqMonotonic
  <2> QED
    BY <1>4, <2>2 DEF TextOf
<1> QED
  BY <1>2, <1>3, <1>4 DEF Scalars

LEMMA TextTells ==
    ASSUME NEW type \in Scalars, NEW v, NEW w, Fits(type, v), Fits(type, w), v # Unset, w # Unset,
           TextOf(type, v) = TextOf(type, w)
    PROVE  v = w
<1>1. CASE type = "string"
  BY <1>1 DEF TextOf
<1>2. CASE type = "bytes"
  BY <1>2, HexTells DEF Fits, TextOf
<1>3. CASE type = "number"
  BY <1>3, MessagesAssumption DEF Fits, TextOf
<1> QED
  BY <1>1, <1>2, <1>3 DEF Scalars

-----------------------------------------------------------------------------
(* Placeholders, and what is written for each place of a template.         *)

LEMMA PlaceholderIs ==
    ASSUME NEW t, DOMAIN t = 1 .. Len(t), Len(t) \in Nat, NEW p \in Placeholders(t)
    PROVE  /\ p = <<p[1], p[2]>> /\ p[1] \in 1 .. Len(t) /\ p[2] \in 1 .. Len(t) /\ p[1] < p[2]
           /\ t[p[1]] = "<" /\ t[p[2]] = ">"
           /\ \A i \in p[1] + 1 .. p[2] - 1 : t[i] \notin {"<", ">"}
           /\ NameIn(t, p) \in Names(t)
BY DEF Placeholders, Names

\* Two placeholders have no place in common.
LEMMA Disjoint ==
    ASSUME NEW t, DOMAIN t = 1 .. Len(t), Len(t) \in Nat,
           NEW p \in Placeholders(t), NEW q \in Placeholders(t), p[1] <= q[1], q[1] <= p[2]
    PROVE  p = q
<1>1. /\ p[1] \in Int /\ p[2] \in Int /\ q[1] \in Int /\ q[2] \in Int /\ p[1] < p[2] /\ q[1] < q[2]
      /\ t[p[1]] = "<" /\ t[p[2]] = ">" /\ t[q[1]] = "<" /\ t[q[2]] = ">"
      /\ p = <<p[1], p[2]>> /\ q = <<q[1], q[2]>>
  BY PlaceholderIs
<1>2. /\ \A i \in p[1] + 1 .. p[2] - 1 : t[i] \notin {"<", ">"}
      /\ \A i \in q[1] + 1 .. q[2] - 1 : t[i] \notin {"<", ">"}
  BY PlaceholderIs
<1>3. p[1] = q[1]
  <2>1. q[1] # p[2]
    BY <1>1
  <2>2. q[1] \notin p[1] + 1 .. p[2] - 1
    BY <1>1, <1>2
  <2> QED
    BY <1>1, <2>1, <2>2
<1>4. p[2] = q[2]
  <2>1. p[2] \notin q[1] + 1 .. q[2] - 1 /\ q[2] \notin p[1] + 1 .. p[2] - 1
    BY <1>1, <1>2
  <2> QED
    BY <1>1, <1>3, <2>1
<1> QED
  BY <1>1, <1>3, <1>4

\* The value stands where the placeholder opens, ...
LEMMA PieceOpens ==
    ASSUME NEW t, DOMAIN t = 1 .. Len(t), Len(t) \in Nat, NEW values, NEW p \in Placeholders(t)
    PROVE  Pieces(t, values)[p[1]] = values[NameIn(t, p)]
<1>1. p[1] \in DOMAIN t
  BY PlaceholderIs
<1>2. PICK q : q = CHOOSE x \in Placeholders(t) : x[1] = p[1]
  OBVIOUS
<1>3. q \in Placeholders(t) /\ q[1] = p[1]
  BY <1>2
<1>4. q = p
  <2>1. p[1] <= q[1] /\ q[1] <= p[2]
    BY <1>3, PlaceholderIs
  <2> QED
    BY <1>3, <2>1, Disjoint
<1>5. \E x \in Placeholders(t) : x[1] = p[1]
  OBVIOUS
<1> QED
  BY <1>1, <1>2, <1>4, <1>5 DEF Pieces

\* ... nothing else between its brackets, ...
LEMMA PieceWithin ==
    ASSUME NEW t, DOMAIN t = 1 .. Len(t), Len(t) \in Nat, NEW values,
           NEW p \in Placeholders(t), NEW i \in p[1] + 1 .. p[2]
    PROVE  Pieces(t, values)[i] = <<>>
<1>1. i \in DOMAIN t /\ i \in p[1] .. p[2] /\ i \in Int /\ p[1] < i /\ i <= p[2]
  BY PlaceholderIs
<1>2. ASSUME NEW q \in Placeholders(t), q[1] = i PROVE FALSE
  <2>1. p[1] <= q[1] /\ q[1] <= p[2]
    BY <1>1, <1>2, PlaceholderIs
  <2>2. p = q
    BY <2>1, Disjoint
  <2> QED
    BY <1>1, <1>2, <2>2
<1> QED
  BY <1>1, <1>2 DEF Pieces

\* ... and everywhere else the template's character.
Outside(t, i) == \A p \in Placeholders(t) : i \notin p[1] .. p[2]

LEMMA PieceOutside ==
    ASSUME NEW t, DOMAIN t = 1 .. Len(t), Len(t) \in Nat, NEW values,
           NEW i \in DOMAIN t, Outside(t, i)
    PROVE  Pieces(t, values)[i] = <<t[i]>>
<1>1. ASSUME NEW p \in Placeholders(t), p[1] = i PROVE FALSE
  <2>1. i \in p[1] .. p[2]
    BY <1>1, PlaceholderIs
  <2> QED
    BY <2>1 DEF Outside
<1> QED
  BY <1>1 DEF Pieces, Outside

LEMMA PiecesAre ==
    ASSUME NEW t \in Seq(STRING), NEW values \in [Names(t) -> Seq(Char)]
    PROVE  Pieces(t, values) \in Seq(Seq(Char)) /\ Len(Pieces(t, values)) = Len(t)
<1>1. DOMAIN t = 1 .. Len(t) /\ Len(t) \in Nat /\ \A i \in DOMAIN t : t[i] \in Char
  BY DEF Char
<1>2. ASSUME NEW i \in DOMAIN t PROVE Pieces(t, values)[i] \in Seq(Char)
  <2>1. CASE \E p \in Placeholders(t) : p[1] = i
    <3>1. PICK p \in Placeholders(t) : p[1] = i
      BY <2>1
    <3>2. Pieces(t, values)[i] = values[NameIn(t, p)] /\ NameIn(t, p) \in Names(t)
      BY <1>1, <3>1, PieceOpens, PlaceholderIs
    <3> QED
      BY <3>2
  <2>2. CASE \E p \in Placeholders(t) : i \in p[1] + 1 .. p[2]
    <3>1. Pieces(t, values)[i] = <<>>
      BY <1>1, <2>2, PieceWithin
    <3> QED
      BY <3>1
  <2>3. CASE Outside(t, i)
    <3>1. Pieces(t, values)[i] = <<t[i]>> /\ t[i] \in Char
      BY <1>1, <2>3, PieceOutside
    <3> QED
      BY <3>1, One
  <2>4. ASSUME NEW p \in Placeholders(t), i \in p[1] .. p[2], p[1] # i PROVE i \in p[1] + 1 .. p[2]
    BY <1>1, <2>4, PlaceholderIs
  <2> QED
    BY <2>1, <2>2, <2>3, <2>4 DEF Outside
<1>3. PICK s : s = Pieces(t, values)
  OBVIOUS
<1>4. s = [i \in 1 .. Len(t) |-> s[i]]
  BY <1>1, <1>3 DEF Pieces
<1>5. \A i \in 1 .. Len(t) : s[i] \in Seq(Char)
  BY <1>1, <1>2, <1>3
<1>6. s \in Seq(Seq(Char)) /\ Len(s) = Len(t)
  BY <1>1, <1>4, <1>5
<1> QED
  BY <1>3, <1>6

\* What Fill finds: the first placeholder that is left.
First == SelectInSubSeq(Template, read + 1, Len(Template), LAMBDA c : c = "<")

LEMMA FirstIs ==
    ASSUME NEW n \in Nat, read \in 0 .. n, n = Len(Template)
    PROVE  \/ First = 0 /\ \A i \in read + 1 .. n : Template[i] # "<"
           \/ First \in read + 1 .. n /\ Template[First] = "<" /\ \A i \in read + 1 .. First - 1 : Template[i] # "<"
<1>1. PICK I : I = {i \in read + 1 .. n : Template[i] = "<"}
  OBVIOUS
<1>2. First = IF I # {} THEN Min(I) ELSE 0
  BY <1>1 DEF First, SelectInSubSeq
<1>3. CASE I = {}
  BY <1>1, <1>2, <1>3
<1>4. CASE I # {}
  <2>1. I \subseteq Nat
    BY <1>1
  <2>2. First \in I /\ \A i \in I : First <= i
    BY <1>2, <1>4, <2>1, MinIs
  <2>3. First \in read + 1 .. n /\ Template[First] = "<"
    BY <1>1, <2>2
  <2>4. ASSUME NEW i \in read + 1 .. First - 1 PROVE Template[i] # "<"
    <3>1. i \in read + 1 .. n /\ ~(First <= i)
      BY <2>3
    <3> QED
      BY <1>1, <2>2, <3>1
  <2> QED
    BY <2>3, <2>4
<1> QED
  BY <1>3, <1>4

LEMMA EndIs ==
    ASSUME NEW n \in Nat, read \in 0 .. n, n = Len(Template)
    PROVE  \/ First = 0 /\ End = 0
           \/ First # 0 /\ End = 0 /\ \A i \in First + 1 .. n : Template[i] # ">"
           \/ /\ First # 0 /\ End \in First + 1 .. n /\ Template[End] = ">"
              /\ \A i \in First + 1 .. End - 1 : Template[i] # ">"
<1>1. PICK I : I = {i \in First + 1 .. n : Template[i] = ">"}
  OBVIOUS
<1>2. End = IF First = 0 THEN 0 ELSE IF I # {} THEN Min(I) ELSE 0
  BY <1>1 DEF First, End, SelectInSubSeq, Template
<1>3. First \in 0 .. n
  BY FirstIs
<1>4. CASE First = 0 \/ I = {}
  BY <1>1, <1>2, <1>4
<1>5. CASE First # 0 /\ I # {}
  <2>1. I \subseteq Nat
    BY <1>1, <1>3
  <2>2. End \in I /\ \A i \in I : End <= i
    BY <1>2, <1>5, <2>1, MinIs
  <2>3. End \in First + 1 .. n /\ Template[End] = ">"
    BY <1>1, <2>2
  <2>4. ASSUME NEW i \in First + 1 .. End - 1 PROVE Template[i] # ">"
    <3>1. i \in First + 1 .. n /\ ~(End <= i)
      BY <1>3, <2>3
    <3> QED
      BY <1>1, <2>2, <3>1
  <2> QED
    BY <1>5, <2>3, <2>4
<1> QED
  BY <1>4, <1>5

LEMMA OpenIs ==
    ASSUME NEW n \in Nat, read \in 0 .. n, n = Len(Template), End # 0
    PROVE  /\ Open \in First .. End - 1 /\ Template[Open] = "<"
           /\ \A i \in Open + 1 .. End : Template[i] # "<"
<1>1. /\ First \in read + 1 .. n /\ Template[First] = "<"
      /\ End \in First + 1 .. n /\ Template[End] = ">"
  BY FirstIs, EndIs
<1>2. PICK I : I = {i \in read + 1 .. End : Template[i] = "<"}
  OBVIOUS
<1>3. I \subseteq 0 .. n /\ First \in I
  BY <1>1, <1>2
<1>4. Open = Max(I)
  BY <1>2, <1>3 DEF Open, SelectLastInSubSeq, Template
<1>5. Open \in I /\ \A i \in I : i <= Open
  BY <1>3, <1>4, MaxIs
<1>6. Open \in read + 1 .. End /\ Template[Open] = "<" /\ First <= Open
  BY <1>2, <1>3, <1>5
<1>7. Open # End
  BY <1>1, <1>6
<1>8. ASSUME NEW i \in Open + 1 .. End PROVE Template[i] # "<"
  <2>1. i \in read + 1 .. End /\ ~(i <= Open)
    BY <1>1, <1>6
  <2> QED
    BY <1>2, <1>5, <2>1
<1> QED
  BY <1>1, <1>6, <1>7, <1>8

Found == <<Open, End>>

LEMMA FoundIs ==
    ASSUME NEW n \in Nat, read \in 0 .. n, n = Len(Template), DOMAIN Template = 1 .. n, End # 0
    PROVE  /\ Open \in read + 1 .. n /\ End \in Open + 1 .. n
           /\ Found \in Placeholders(Template) /\ Name = NameIn(Template, Found)
           /\ \A p \in Placeholders(Template) : read < p[1] => p = Found \/ End < p[1]
<1>1. /\ First \in read + 1 .. n /\ Template[First] = "<" /\ \A i \in read + 1 .. First - 1 : Template[i] # "<"
      /\ End \in First + 1 .. n /\ Template[End] = ">" /\ \A i \in First + 1 .. End - 1 : Template[i] # ">"
  BY FirstIs, EndIs
<1>2. Open \in First .. End - 1 /\ Template[Open] = "<" /\ \A i \in Open + 1 .. End : Template[i] # "<"
  BY OpenIs
<1>3. Open \in read + 1 .. n /\ End \in Open + 1 .. n
  BY <1>1, <1>2
<1>4. Found \in Placeholders(Template)
  <2>1. Found[1] = Open /\ Found[2] = End /\ Found \in (DOMAIN Template) \X (DOMAIN Template) /\ Open < End
    BY <1>3 DEF Found
  <2>2. ASSUME NEW i \in Open + 1 .. End - 1 PROVE Template[i] \notin {"<", ">"}
    <3>1. i \in First + 1 .. End - 1 /\ i \in Open + 1 .. End
      BY <1>1, <1>2
    <3> QED
      BY <1>1, <1>2, <3>1
  <2> QED
    BY <1>1, <1>2, <2>1, <2>2 DEF Placeholders
<1>5. Name = NameIn(Template, Found)
  BY DEF Name, NameIn, Found, Template
<1>6. ASSUME NEW p \in Placeholders(Template), read < p[1], ~(End < p[1]) PROVE p = Found
  <2>1. /\ p[1] \in 1 .. n /\ p[2] \in 1 .. n /\ p[1] < p[2] /\ Template[p[1]] = "<" /\ Template[p[2]] = ">"
        /\ \A i \in p[1] + 1 .. p[2] - 1 : Template[i] \notin {"<", ">"}
    BY PlaceholderIs
  <2>2. First <= p[1]
    <3>1. p[1] \notin read + 1 .. First - 1
      BY <1>1, <2>1
    <3> QED
      BY <1>1, <1>6, <2>1, <3>1
  <2>3. p[1] # End
    BY <1>1, <2>1
  <2>4. p[1] < End
    BY <1>1, <1>6, <2>1, <2>3
  <2>5. End <= p[2]
    <3>1. p[2] \notin First + 1 .. End - 1
      BY <1>1, <2>1
    <3> QED
      BY <1>1, <2>1, <2>2, <3>1
  <2>6. p[1] <= Open
    <3>1. p[1] \notin Open + 1 .. End
      BY <1>2, <2>1
    <3> QED
      BY <1>3, <2>1, <2>4, <3>1
  <2>7. Found[1] = Open
    BY DEF Found
  <2>8. p[1] <= Found[1] /\ Found[1] <= p[2]
    BY <1>3, <2>1, <2>5, <2>6, <2>7
  <2> QED
    BY <1>4, <2>8, Disjoint
<1> QED
  BY <1>3, <1>4, <1>5, <1>6

\* And if it finds none there is none.
LEMMA NoneLeft ==
    ASSUME NEW n \in Nat, read \in 0 .. n, n = Len(Template), DOMAIN Template = 1 .. n, End = 0,
           NEW p \in Placeholders(Template)
    PROVE  ~(read < p[1])
<1> SUFFICES ASSUME read < p[1] PROVE FALSE
  OBVIOUS
<1>1. /\ p[1] \in 1 .. n /\ p[2] \in 1 .. n /\ p[1] < p[2] /\ Template[p[1]] = "<" /\ Template[p[2]] = ">"
  BY PlaceholderIs
<1>2. p[1] \in read + 1 .. n
  BY <1>1
<1>3. /\ First \in read + 1 .. n /\ \A i \in read + 1 .. First - 1 : Template[i] # "<"
  BY <1>1, <1>2, FirstIs
<1>4. First <= p[1]
  BY <1>1, <1>2, <1>3
<1>5. p[2] \in First + 1 .. n
  BY <1>1, <1>3, <1>4
<1> QED
  BY <1>1, <1>3, <1>5, EndIs

-----------------------------------------------------------------------------
(* The invariant.                                                          *)

LEMMA PolicyIs ==
    ASSUME TypesInv
    PROVE  /\ Template \in Seq(STRING) /\ DOMAIN Template = 1 .. Len(Template) /\ Len(Template) \in Nat
           /\ Len(policy.mappings) \in Nat /\ DOMAIN policy.mappings = 1 .. Len(policy.mappings)
           /\ \A i \in 1 .. Len(policy.mappings) :
                  Mapping(i).placeholder \in Seq(STRING) /\ Mapping(i).field \in Seq(STRING)
           /\ Requests(policy) \subseteq Messages[Root] \cup {NoRequest}
           /\ request # NoRequest => request \in Messages[Root]
<1>1. policy \in Policies /\ request \in Requests(policy)
  BY DEF TypesInv
<1>2. Requests(policy) \subseteq Messages[Root] \cup {NoRequest}
  BY <1>1, PoliciesAssumption
<1>3. Template \in Seq(STRING)
  BY <1>1, PoliciesAssumption DEF Template
<1>4. policy.mappings \in Seq([placeholder : Seq(STRING), field : Seq(STRING)])
  BY <1>1, PoliciesAssumption
<1>5. /\ Len(policy.mappings) \in Nat /\ DOMAIN policy.mappings = 1 .. Len(policy.mappings)
      /\ \A i \in 1 .. Len(policy.mappings) :
             Mapping(i).placeholder \in Seq(STRING) /\ Mapping(i).field \in Seq(STRING)
  <2>1. PICK ms \in Seq([placeholder : Seq(STRING), field : Seq(STRING)]) : ms = policy.mappings
    BY <1>4
  <2>2. Len(ms) \in Nat /\ DOMAIN ms = 1 .. Len(ms)
    OBVIOUS
  <2>3. \A i \in DOMAIN ms : ms[i] \in [placeholder : Seq(STRING), field : Seq(STRING)]
    BY ElementsAre
  <2>4. \A i \in DOMAIN ms : ms[i].placeholder \in Seq(STRING) /\ ms[i].field \in Seq(STRING)
    BY <2>3
  <2> QED
    BY <2>1, <2>2, <2>4 DEF Mapping
<1>6. DOMAIN Template = 1 .. Len(Template) /\ Len(Template) \in Nat
  BY <1>3
<1> QED
  BY <1>1, <1>2, <1>3, <1>5, <1>6

\* What is read of a message is the text of what is in it.
LEMMA ExtractIs ==
    ASSUME NEW path \in Seq(STRING), path # <<>>, PathExists(path),
           NEW message \in Messages[Root], Extract(message, path) # Unset
    PROVE  /\ TypeAt(path) \in Scalars /\ Fits(TypeAt(path), At(message, path)) /\ At(message, path) # Unset
           /\ Extract(message, path) = TextOf(TypeAt(path), At(message, path))
           /\ Extract(message, path) \in Seq(Char)
<1>1. TypeAt(path) \in Scalars
  BY EndsAtScalar
<1>2. Fits(TypeAt(path), At(message, path))
  BY ValueFits
<1>3. At(message, path) # Unset /\ Extract(message, path) = TextOf(TypeAt(path), At(message, path))
  BY DEF Extract
<1>4. TextOf(TypeAt(path), At(message, path)) \in Seq(Char)
  BY <1>1, <1>2, <1>3, TextOfIs
<1> QED
  BY <1>1, <1>2, <1>3, <1>4

\* A name that is mapped is so by a last mapping.
IsLast(k, n, name) ==
    /\ k \in 1 .. n /\ Mapping(k).placeholder = name
    /\ \A j \in k + 1 .. n : Mapping(j).placeholder # name

LEMMA LastMapping ==
    ASSUME NEW n \in Nat, NEW i \in 1 .. n
    PROVE  \E k \in 1 .. n : IsLast(k, n, Mapping(i).placeholder)
<1>1. PICK name : name = Mapping(i).placeholder
  OBVIOUS
<1>2. PICK I : I = {k \in 1 .. n : Mapping(k).placeholder = name}
  OBVIOUS
<1>3. I \subseteq 0 .. n /\ I # {}
  BY <1>1, <1>2
<1>4. PICK m : m = Max(I) /\ m \in I /\ \A k \in I : k <= m
  BY <1>3, MaxIs
<1>5. m \in 1 .. n /\ Mapping(m).placeholder = name
  BY <1>2, <1>4
<1>6. ASSUME NEW j \in m + 1 .. n PROVE Mapping(j).placeholder # name
  <2>1. j \in 1 .. n /\ ~(j <= m)
    BY <1>5
  <2> QED
    BY <1>2, <1>4, <2>1
<1> QED
  BY <1>1, <1>5, <1>6 DEF IsLast

LEMMA FieldIs ==
    ASSUME TypesInv, MappedInv, FieldsInv, NEW name \in DOMAIN fields
    PROVE  \E k \in 1 .. mapped :
               /\ IsLast(k, mapped, name) /\ request \in Messages[Root]
               /\ Usable(Mapping(k)) /\ Extract(request, Mapping(k).field) # Unset
               /\ fields[name] = Extract(request, Mapping(k).field) /\ fields[name] \in Seq(Char)
<1>1. mapped \in Nat /\ mapped <= Len(policy.mappings) /\ Len(policy.mappings) \in Nat
  BY PolicyIs DEF TypesInv
<1>2. PICK i \in 1 .. mapped : Mapping(i).placeholder = name
  BY DEF FieldsInv
<1>3. PICK k \in 1 .. mapped : IsLast(k, mapped, name)
  BY <1>1, <1>2, LastMapping
<1>4. Usable(Mapping(k)) /\ Extract(request, Mapping(k).field) # Unset
  BY DEF MappedInv
<1>5. fields[name] = Extract(request, Mapping(k).field)
  BY <1>3 DEF FieldsInv, IsLast
<1>6. Extract(request, Mapping(k).field) \in Seq(Char)
  <2>1. k \in 1 .. Len(policy.mappings)
    BY <1>1
  <2>2. Mapping(k).field \in Seq(STRING) /\ Mapping(k).field # <<>> /\ PathExists(Mapping(k).field)
    BY <1>4, <2>1, PolicyIs DEF Usable
  <2>3. request \in Messages[Root]
    BY <1>4, PolicyIs DEF Usable
  <2> QED
    BY <1>4, <2>2, <2>3, ExtractIs
<1>7. request \in Messages[Root]
  BY <1>4, PolicyIs DEF Usable
<1> QED
  BY <1>3, <1>4, <1>5, <1>6, <1>7

LEMMA KnownIs ==
    ASSUME TypesInv, MappedInv, FieldsInv
    PROVE  /\ Known \in [Names(Template) -> Seq(Char)]
           /\ Pieces(Template, Known) \in Seq(Seq(Char)) /\ Len(Pieces(Template, Known)) = Len(Template)
<1>1. \A name \in DOMAIN fields : fields[name] \in Seq(Char)
  BY FieldIs
<1>2. Known \in [Names(Template) -> Seq(Char)]
  <2>1. <<>> \in Seq(Char)
    OBVIOUS
  <2>2. \A name \in Names(Template) : (IF name \in DOMAIN fields THEN fields[name] ELSE <<>>) \in Seq(Char)
    BY <1>1, <2>1
  <2> QED
    BY <2>2 DEF Known
<1> QED
  BY <1>2, PolicyIs, PiecesAre

LEMMA InitInv == Init => ResolutionInv
<1> SUFFICES ASSUME Init PROVE ResolutionInv
  OBVIOUS
<1>1. Len(policy.mappings) \in Nat
  BY PoliciesAssumption DEF Init
<1>2. TypesInv
  BY <1>1 DEF Init, TypesInv
<1>3. MappedInv
  BY DEF Init, MappedInv
<1>4. FieldsInv
  BY DEF Init, FieldsInv
<1>5. SubstitutionInv
  BY DEF Init, SubstitutionInv
<1>6. StopInv
  BY DEF Init, StopInv
<1> QED
  BY <1>2, <1>3, <1>4, <1>5, <1>6 DEF ResolutionInv

LEMMA BeginStep == ASSUME ResolutionInv, Begin PROVE ResolutionInv'
<1> USE DEF ResolutionInv
<1>1. /\ policy' = policy /\ request' = request /\ mapped' = mapped /\ fields' = fields
      /\ read' = read /\ written' = written
      /\ stage = "new" /\ mapped = 0
      /\ \/ stage' = "over" /\ result' = "broken" /\ Empty
         \/ stage' = "mapping" /\ result' = result /\ ~Empty
      /\ result = "none"
  BY DEF Begin, given, Stop, TypesInv, Empty, Template
<1>2. TypesInv'
  BY <1>1 DEF TypesInv
<1>3. MappedInv'
  BY <1>1 DEF MappedInv
<1>4. FieldsInv'
  BY <1>1 DEF FieldsInv, Mapping
<1>5. SubstitutionInv'
  BY <1>1 DEF SubstitutionInv, TypesInv
<1>6. StopInv'
  <2>1. Empty' = Empty
    BY <1>1 DEF Empty, Template
  <2> QED
    BY <1>1, <2>1 DEF StopInv
<1> QED
  BY <1>2, <1>3, <1>4, <1>5, <1>6

LEMMA ReadMappingStep == ASSUME ResolutionInv, ReadMapping PROVE ResolutionInv'
<1> USE DEF ResolutionInv
<1>1. PICK m : m = Mapping(mapped + 1)
  OBVIOUS
<1>2. /\ policy' = policy /\ request' = request /\ read' = read /\ written' = written
      /\ stage = "mapping" /\ mapped < Len(policy.mappings) /\ read = 0 /\ written = <<>> /\ result = "none"
      /\ mapped \in Nat /\ Len(policy.mappings) \in Nat /\ ~Empty
  BY PolicyIs DEF ReadMapping, given, TypesInv, SubstitutionInv, StopInv
<1> HIDE DEF ResolutionInv
<1>6. Empty' = Empty
  BY <1>2 DEF Empty, Template
<1> USE DEF ResolutionInv
<1>3. CASE ~Usable(m) /\ Stop("broken") /\ UNCHANGED <<mapped, fields>>
  <2>1. stage' = "over" /\ result' = "broken" /\ mapped' = mapped /\ fields' = fields
    BY <1>3 DEF Stop
  <2>2. TypesInv'
    BY <1>2, <2>1 DEF TypesInv
  <2>3. MappedInv'
    BY <1>2, <2>1 DEF MappedInv, Usable, Mapping
  <2>4. FieldsInv'
    BY <1>2, <2>1 DEF FieldsInv, Mapping
  <2>5. SubstitutionInv'
    BY <1>2, <2>1 DEF SubstitutionInv
  <2>6. StopInv'
    <3>1. ~Usable(Mapping(mapped + 1))'
      BY <1>1, <1>2, <1>3, <2>1 DEF Usable, Mapping
    <3> QED
      BY <1>2, <1>6, <2>1, <3>1 DEF StopInv
  <2> QED
    BY <2>2, <2>3, <2>4, <2>5, <2>6
<1>4. CASE Usable(m) /\ Extract(request, m.field) = Unset /\ Stop("unsafe") /\ UNCHANGED <<mapped, fields>>
  <2>1. stage' = "over" /\ result' = "unsafe" /\ mapped' = mapped /\ fields' = fields
    BY <1>4 DEF Stop
  <2>2. TypesInv'
    BY <1>2, <2>1 DEF TypesInv
  <2>3. MappedInv'
    BY <1>2, <2>1 DEF MappedInv, Usable, Mapping
  <2>4. FieldsInv'
    BY <1>2, <2>1 DEF FieldsInv, Mapping
  <2>5. SubstitutionInv'
    BY <1>2, <2>1 DEF SubstitutionInv
  <2>6. StopInv'
    <3>1. Usable(Mapping(mapped + 1))' /\ Extract(request, Mapping(mapped + 1).field)' = Unset
      BY <1>1, <1>2, <1>4, <2>1 DEF Usable, Mapping
    <3> QED
      BY <1>2, <1>6, <2>1, <3>1 DEF StopInv
  <2> QED
    BY <2>2, <2>3, <2>4, <2>5, <2>6
<1>5. CASE /\ Usable(m) /\ Extract(request, m.field) # Unset
           /\ mapped' = mapped + 1
           /\ fields' = [name \in DOMAIN fields \cup {m.placeholder} |->
                  IF name = m.placeholder THEN Extract(request, m.field) ELSE fields[name]]
           /\ UNCHANGED <<stage, result>>
  <2>1. stage' = "mapping" /\ result' = "none" /\ mapped' = mapped + 1
    BY <1>2, <1>5
  <2>2. TypesInv'
    BY <1>2, <2>1 DEF TypesInv
  <2>3. MappedInv'
    <3> SUFFICES ASSUME NEW i \in 1 .. mapped + 1
                 PROVE  Usable(Mapping(i)) /\ Extract(request, Mapping(i).field) # Unset
      BY <1>2, <2>1 DEF MappedInv, Usable, Mapping
    <3>1. i \in 1 .. mapped \/ i = mapped + 1
      BY <1>2
    <3> QED
      BY <1>1, <1>5, <3>1 DEF MappedInv
  <2>4. FieldsInv'
    <3>1. DOMAIN fields' = {Mapping(i).placeholder : i \in 1 .. mapped + 1}
      <4>1. DOMAIN fields' = {Mapping(i).placeholder : i \in 1 .. mapped} \cup {m.placeholder}
        BY <1>5 DEF FieldsInv
      <4>2. 1 .. mapped + 1 = 1 .. mapped \cup {mapped + 1}
        BY <1>2
      <4> QED
        BY <1>1, <4>1, <4>2
    <3>2. ASSUME NEW i \in 1 .. mapped + 1,
                 \A j \in i + 1 .. mapped + 1 : Mapping(j).placeholder # Mapping(i).placeholder
          PROVE  fields'[Mapping(i).placeholder] = Extract(request, Mapping(i).field)
      <4>1. CASE i = mapped + 1
        <5>1. Mapping(i) = m
          BY <1>1, <4>1
        <5> QED
          BY <1>5, <5>1
      <4>2. CASE i \in 1 .. mapped
        <5>1. Mapping(i).placeholder # m.placeholder
          <6>1. mapped + 1 \in i + 1 .. mapped + 1
            BY <1>2, <4>2
          <6> QED
            BY <1>1, <3>2, <6>1
        <5>2. Mapping(i).placeholder \in DOMAIN fields
          BY <4>2 DEF FieldsInv
        <5>3. fields'[Mapping(i).placeholder] = fields[Mapping(i).placeholder]
          BY <1>5, <5>1, <5>2
        <5>4. \A j \in i + 1 .. mapped : j \in i + 1 .. mapped + 1
          BY <1>2
        <5> QED
          BY <3>2, <4>2, <5>3, <5>4 DEF FieldsInv
      <4> QED
        BY <1>2, <4>1, <4>2
    <3> QED
      BY <1>2, <2>1, <3>1, <3>2 DEF FieldsInv, Mapping
  <2>5. SubstitutionInv'
    BY <1>2, <2>1 DEF SubstitutionInv
  <2>6. StopInv'
    BY <1>2, <1>6, <2>1 DEF StopInv
  <2> QED
    BY <2>2, <2>3, <2>4, <2>5, <2>6
<1> QED
  BY <1>1, <1>3, <1>4, <1>5 DEF ReadMapping, Usable, Mapping

LEMMA BeginSubstitutionStep == ASSUME ResolutionInv, BeginSubstitution PROVE ResolutionInv'
<1> USE DEF ResolutionInv
<1>1. /\ policy' = policy /\ request' = request /\ mapped' = mapped /\ fields' = fields
      /\ read' = 0 /\ read = 0 /\ written' = <<>> /\ result' = "none" /\ mapped = Len(policy.mappings)
      /\ stage' = "substituting" /\ ~Empty
  BY DEF BeginSubstitution, given, TypesInv, SubstitutionInv, StopInv
<1>2. TypesInv'
  BY <1>1 DEF TypesInv
<1>3. MappedInv'
  BY <1>1 DEF MappedInv, Usable, Mapping
<1>4. FieldsInv'
  BY <1>1 DEF FieldsInv, Mapping
<1>5. SubstitutionInv'
  <2>1. Template' = Template /\ Known' = Known
    BY <1>1 DEF Template, Known
  <2>2. ReadInv'
    <3>1. \A p \in Placeholders(Template) : 0 < p[1]
      BY PolicyIs, PlaceholderIs
    <3>2. 0 \in 0 .. Len(Template)
      BY PolicyIs
    <3> QED
      BY <1>1, <2>1, <3>1, <3>2 DEF ReadInv
  <2>3. WrittenInv'
    <3>1. Text(Pieces(Template, Known))[0] = <<>>
      BY KnownIs, TextIs DEF Flattens
    <3> QED
      BY <1>1, <2>1, <3>1 DEF WrittenInv
  <2> QED
    BY <1>1, <2>2, <2>3 DEF SubstitutionInv
<1>6. StopInv'
  <2>1. Empty' = Empty
    BY <1>1 DEF Empty, Template
  <2> QED
    BY <1>1, <2>1 DEF StopInv
<1> QED
  BY <1>2, <1>3, <1>4, <1>5, <1>6

\* What is copied of the template, where no placeholder is.
LEMMA Copied ==
    ASSUME TypesInv, MappedInv, FieldsInv, NEW a \in 0 .. Len(Template), NEW b \in a .. Len(Template),
           \A i \in a + 1 .. b : Outside(Template, i)
    PROVE  Reads(Text(Pieces(Template, Known)), Template, a, b)
<1>1. PICK s : s = Pieces(Template, Known)
  OBVIOUS
<1>2. s \in Seq(Seq(Char)) /\ Len(s) = Len(Template) /\ Template \in Seq(Char)
  BY <1>1, KnownIs, PolicyIs, SeqMonotonic DEF Char
<1>3. PICK F \in [0 .. Len(s) -> Seq(Char)] : F = Text(s) /\ Flattens(F, s)
  BY <1>2, TextIs
<1>4. a \in 0 .. Len(s) /\ b \in a .. Len(s)
  BY <1>2
<1>5. ASSUME NEW i \in a + 1 .. b PROVE s[i] = <<Template[i]>>
  <2>1. i \in DOMAIN Template
    BY PolicyIs
  <2> QED
    BY <1>1, <1>5, <2>1, PolicyIs, PieceOutside
<1>6. Reads(F, Template, a, b)
  BY <1>2, <1>3, <1>4, <1>5, Literal
<1> QED
  BY <1>1, <1>3, <1>6

\* And what is written for a placeholder, its value.
LEMMA Substituted ==
    ASSUME TypesInv, MappedInv, FieldsInv, NEW p \in Placeholders(Template)
    PROVE  LET F == Text(Pieces(Template, Known)) IN F[p[2]] = F[p[1] - 1] \o Known[NameIn(Template, p)]
<1>1. PICK s : s = Pieces(Template, Known)
  OBVIOUS
<1>2. s \in Seq(Seq(Char)) /\ Len(s) = Len(Template) /\ Len(s) \in Nat
  BY <1>1, KnownIs, PolicyIs
<1>3. PICK F \in [0 .. Len(s) -> Seq(Char)] : F = Text(s) /\ Flattens(F, s)
  BY <1>2, TextIs
<1>4. PICK a, b : a = p[1] /\ b = p[2]
  OBVIOUS
<1>5. a \in 1 .. Len(s) /\ b \in a .. Len(s) /\ a \in 0 .. Len(s)
  BY <1>2, <1>4, PolicyIs, PlaceholderIs
<1>6. F[a] = F[a - 1] \o s[a]
  BY <1>3, <1>5 DEF Flattens
<1>7. s[a] = Known[NameIn(Template, p)]
  BY <1>1, <1>4, PolicyIs, PieceOpens
<1>8. \A i \in a + 1 .. b : s[i] = <<>>
  BY <1>1, <1>4, PolicyIs, PieceWithin
<1>9. Unmoved(F, a, b)
  BY <1>2, <1>3, <1>5, <1>8, Nothing
<1> QED
  BY <1>1, <1>3, <1>4, <1>6, <1>7, <1>9 DEF Unmoved

LEMMA FillStep == ASSUME ResolutionInv, Fill PROVE ResolutionInv'
<1> USE DEF ResolutionInv
<1>1. /\ policy' = policy /\ request' = request /\ mapped' = mapped /\ fields' = fields
      /\ stage = "substituting" /\ result = "none" /\ mapped = Len(policy.mappings) /\ End # 0 /\ ~Empty
  BY DEF Fill, given, TypesInv, SubstitutionInv, StopInv
<1>2. ReadInv /\ WrittenInv
  BY <1>1 DEF SubstitutionInv
<1>3. PICK n \in Nat : n = Len(Template) /\ DOMAIN Template = 1 .. n /\ read \in 0 .. n
  BY <1>2, PolicyIs DEF ReadInv
<1>4. /\ Open \in read + 1 .. n /\ End \in Open + 1 .. n
      /\ Found \in Placeholders(Template) /\ Name = NameIn(Template, Found)
      /\ \A p \in Placeholders(Template) : read < p[1] => p = Found \/ End < p[1]
  BY <1>1, <1>3, FoundIs
<1>5. Name \in Names(Template)
  BY <1>3, <1>4, PlaceholderIs
<1>6. Template' = Template /\ Known' = Known /\ Empty' = Empty
  BY <1>1 DEF Template, Known, Empty
<1>7. MappedInv'
  BY <1>1 DEF MappedInv, Usable, Mapping
<1>8. FieldsInv'
  BY <1>1 DEF FieldsInv, Mapping
<1>9. PICK at : at = Found
  OBVIOUS
\* Everything before the placeholder that was found has been filled.
<1>10. ASSUME ~Fills(at) PROVE Stopper(at)' /\ NameIn(Template, at)' = Name
  <2>1. at \in Placeholders(Template) /\ at[1] = Open /\ NameIn(Template, at) = Name
    BY <1>4, <1>9 DEF Found
  <2>2. ASSUME NEW x \in Placeholders(Template), x[1] < at[1] PROVE Fills(x)
    <3>1. x # at /\ x[1] \in Int
      BY <1>3, <2>2, PlaceholderIs
    <3>2. ~(End < x[1])
      BY <1>3, <1>4, <2>1, <2>2, <3>1
    <3>3. ~(read < x[1])
      BY <1>4, <1>9, <3>1, <3>2
    <3> QED
      BY <1>2, <3>3 DEF ReadInv, Fills
  <2>3. fields' = fields
    BY <1>1
  <2> QED
    BY <1>6, <1>10, <2>1, <2>2, <2>3 DEF Stopper, Fills
<1>11. CASE Name \notin DOMAIN fields /\ Stop("broken") /\ UNCHANGED <<read, written>>
  <2>1. stage' = "over" /\ result' = "broken" /\ read' = read /\ written' = written
    BY <1>11 DEF Stop
  <2>2. TypesInv'
    BY <1>1, <2>1 DEF TypesInv
  <2>3. SubstitutionInv'
    BY <2>1 DEF SubstitutionInv
  <2>4. StopInv'
    <3>1. ~Fills(at)
      BY <1>4, <1>11, <1>9 DEF Fills
    <3>2. Stopper(at)' /\ NameIn(Template, at)' \notin DOMAIN fields'
      BY <1>1, <1>11, <1>10, <3>1
    <3> QED
      BY <1>1, <1>6, <2>1, <3>2 DEF StopInv
  <2> QED
    BY <1>7, <1>8, <2>2, <2>3, <2>4
<1>12. CASE Name \in DOMAIN fields /\ ~Accepted(fields[Name]) /\ Stop("unsafe") /\ UNCHANGED <<read, written>>
  <2>1. stage' = "over" /\ result' = "unsafe" /\ read' = read /\ written' = written
    BY <1>12 DEF Stop
  <2>2. TypesInv'
    BY <1>1, <2>1 DEF TypesInv
  <2>3. SubstitutionInv'
    BY <2>1 DEF SubstitutionInv
  <2>4. StopInv'
    <3>1. ~Fills(at)
      BY <1>4, <1>12, <1>9 DEF Fills
    <3>2. Stopper(at)' /\ NameIn(Template, at)' \in DOMAIN fields'
      BY <1>1, <1>12, <1>10, <3>1
    <3> QED
      BY <1>1, <1>6, <2>1, <3>2 DEF StopInv
  <2> QED
    BY <1>7, <1>8, <2>2, <2>3, <2>4
<1>13. CASE /\ Name \in DOMAIN fields /\ Accepted(fields[Name])
            /\ written' = written \o SubSeq(policy.resource, read + 1, Open - 1) \o fields[Name]
            /\ read' = End
            /\ UNCHANGED <<stage, result>>
  <2>1. TypesInv'
    BY <1>1, <1>13 DEF TypesInv
  <2>2. ReadInv'
    <3>1. End \in 0 .. n
      BY <1>3, <1>4
    <3>2. ASSUME NEW p \in Placeholders(Template)
          PROVE  \/ p[2] <= End /\ NameIn(Template, p) \in DOMAIN fields /\ Accepted(fields[NameIn(Template, p)])
                 \/ End < p[1]
      <4>1. CASE read < p[1] /\ p = Found
        <5>1. p[2] = End /\ NameIn(Template, p) = Name
          BY <1>4, <4>1 DEF Found
        <5> QED
          BY <1>13, <3>1, <5>1
      <4>2. CASE read < p[1] /\ p # Found
        BY <1>4, <4>2
      <4>3. CASE ~(read < p[1])
        <5>1. p[2] <= read /\ NameIn(Template, p) \in DOMAIN fields /\ Accepted(fields[NameIn(Template, p)])
          BY <1>2, <4>3 DEF ReadInv
        <5>2. p[2] \in Int
          BY <1>3, PlaceholderIs
        <5>3. p[2] <= End
          BY <1>3, <1>4, <5>1, <5>2
        <5> QED
          BY <5>1, <5>3
      <4> QED
        BY <4>1, <4>2, <4>3
    <3> QED
      BY <1>1, <1>3, <1>6, <1>13, <3>1, <3>2 DEF ReadInv
  <2>3. WrittenInv'
    <3>1. PICK F : F = Text(Pieces(Template, Known))
      OBVIOUS
    <3>2. F[End] = F[Open - 1] \o Known[Name]
      BY <1>4, <3>1, Substituted DEF Found
    <3>3. F[Open - 1] = F[read] \o SubSeq(Template, read + 1, Open - 1)
      <4>1. ASSUME NEW i \in read + 1 .. Open - 1 PROVE Outside(Template, i)
        <5> SUFFICES ASSUME NEW p \in Placeholders(Template), i \in p[1] .. p[2] PROVE FALSE
          BY DEF Outside
        <5>1. p[1] \in Int /\ p[2] \in Int
          BY <1>3, PlaceholderIs
        <5>2. CASE read < p[1]
          <6>1. p[1] = Open \/ End < p[1]
            BY <1>4, <5>2 DEF Found
          <6> QED
            BY <1>4, <5>1, <6>1
        <5>3. CASE ~(read < p[1])
          <6>1. p[2] <= read
            BY <1>2, <5>3 DEF ReadInv
          <6> QED
            BY <1>3, <5>1, <6>1
        <5> QED
          BY <5>2, <5>3
      <4>2. PICK b : b = Open - 1
        OBVIOUS
      <4>3. b \in read .. n /\ read \in 0 .. n
        BY <1>3, <1>4, <4>2
      <4>4. Reads(F, Template, read, b)
        BY <1>3, <3>1, <4>1, <4>2, <4>3, Copied
      <4> QED
        BY <4>2, <4>4 DEF Reads
    <3>4. written = F[read]
      BY <1>2, <3>1 DEF WrittenInv
    <3>5. Known[Name] = fields[Name]
      BY <1>5, <1>13 DEF Known
    <3>6. written' = F[End]
      BY <1>13, <3>2, <3>3, <3>4, <3>5 DEF Template
    <3> QED
      BY <1>6, <1>13, <3>1, <3>6 DEF WrittenInv
  <2>4. SubstitutionInv'
    BY <1>1, <1>13, <2>2, <2>3 DEF SubstitutionInv
  <2>5. StopInv'
    BY <1>1, <1>6, <1>13 DEF StopInv
  <2> QED
    BY <1>7, <1>8, <2>1, <2>4, <2>5
<1> QED
  BY <1>11, <1>12, <1>13 DEF Fill

LEMMA WriteRestStep == ASSUME ResolutionInv, WriteRest PROVE ResolutionInv'
<1> USE DEF ResolutionInv
<1>1. /\ policy' = policy /\ request' = request /\ mapped' = mapped /\ fields' = fields
      /\ stage = "substituting" /\ result = "none" /\ mapped = Len(policy.mappings) /\ End = 0
      /\ stage' = "over" /\ result' = "target" /\ read' = Len(Template)
      /\ written' = written \o SubSeq(Template, read + 1, Len(Template)) /\ ~Empty
  BY DEF WriteRest, Stop, given, TypesInv, SubstitutionInv, StopInv, Template
<1>2. ReadInv /\ WrittenInv
  BY <1>1 DEF SubstitutionInv
<1>3. PICK n \in Nat : n = Len(Template) /\ DOMAIN Template = 1 .. n /\ read \in 0 .. n
  BY <1>2, PolicyIs DEF ReadInv
<1>4. \A p \in Placeholders(Template) : ~(read < p[1])
  BY <1>1, <1>3, NoneLeft
<1>5. Template' = Template /\ Known' = Known
  BY <1>1 DEF Template, Known
<1>6. TypesInv'
  BY <1>1 DEF TypesInv
<1>7. MappedInv'
  BY <1>1 DEF MappedInv, Usable, Mapping
<1>8. FieldsInv'
  BY <1>1 DEF FieldsInv, Mapping
<1>9. ReadInv'
  <2>1. \A p \in Placeholders(Template) :
            p[2] <= n /\ NameIn(Template, p) \in DOMAIN fields /\ Accepted(fields[NameIn(Template, p)])
    BY <1>2, <1>3, <1>4, PlaceholderIs DEF ReadInv
  <2> QED
    BY <1>1, <1>3, <1>5, <2>1 DEF ReadInv
<1>10. WrittenInv'
  <2>1. ASSUME NEW i \in read + 1 .. n PROVE Outside(Template, i)
    <3> SUFFICES ASSUME NEW p \in Placeholders(Template), i \in p[1] .. p[2] PROVE FALSE
      BY DEF Outside
    <3>1. p[1] \in Int /\ p[2] \in Int /\ p[2] <= read
      BY <1>2, <1>3, <1>4, PlaceholderIs DEF ReadInv
    <3> QED
      BY <1>3, <3>1
  <2>2. PICK F : F = Text(Pieces(Template, Known))
    OBVIOUS
  <2>3. n \in read .. n
    BY <1>3
  <2>4. Reads(F, Template, read, n)
    BY <1>3, <2>1, <2>2, <2>3, Copied
  <2>5. written = F[read]
    BY <1>2, <2>2 DEF WrittenInv
  <2>6. written' = F[n]
    BY <1>1, <1>3, <2>4, <2>5 DEF Reads
  <2> QED
    BY <1>1, <1>3, <1>5, <2>2, <2>6 DEF WrittenInv
<1>11. SubstitutionInv'
  BY <1>1, <1>5, <1>9, <1>10 DEF SubstitutionInv
<1>12. StopInv'
  <2>1. Empty' = Empty
    BY <1>5, <1>1 DEF Empty
  <2> QED
    BY <1>1, <2>1 DEF StopInv
<1> QED
  BY <1>6, <1>7, <1>8, <1>11, <1>12

LEMMA ResolutionStep == ResolutionInv /\ [Next]_vars => ResolutionInv'
<1> SUFFICES ASSUME ResolutionInv, [Next]_vars PROVE ResolutionInv'
  OBVIOUS
<1>1. CASE UNCHANGED vars
  <2>1. /\ policy' = policy /\ request' = request /\ stage' = stage /\ mapped' = mapped /\ fields' = fields
        /\ read' = read /\ written' = written /\ result' = result
    BY <1>1 DEF vars
  <2>2. TypesInv' /\ MappedInv' /\ FieldsInv'
    BY <2>1 DEF ResolutionInv, TypesInv, MappedInv, FieldsInv, Usable, Mapping
  <2>3. Template' = Template /\ Known' = Known
    BY <2>1 DEF Template, Known
  <2>4. SubstitutionInv'
    BY <2>1, <2>3 DEF ResolutionInv, SubstitutionInv, ReadInv, WrittenInv
  <2>5. StopInv'
    BY <2>1, <2>3 DEF ResolutionInv, StopInv, Empty, Stopper, Fills, Usable, Mapping
  <2> QED
    BY <2>2, <2>4, <2>5 DEF ResolutionInv
<1>2. CASE Begin
  BY <1>2, BeginStep
<1>3. CASE ReadMapping
  BY <1>3, ReadMappingStep
<1>4. CASE BeginSubstitution
  BY <1>4, BeginSubstitutionStep
<1>5. CASE Fill
  BY <1>5, FillStep
<1>6. CASE WriteRest
  BY <1>6, WriteRestStep
<1>7. CASE Over
  BY <1>1, <1>7 DEF Over
<1> QED
  BY <1>1, <1>2, <1>3, <1>4, <1>5, <1>6, <1>7 DEF Next

LEMMA ResolutionInvHolds == Spec => []ResolutionInv
BY InitInv, ResolutionStep, PTL DEF Spec

\* The field the properties read is the one that was read.
LEMMA FieldOfIs ==
    ASSUME TypesInv, NEW name, NEW k, IsLast(k, Len(policy.mappings), name)
    PROVE  FieldOf(policy, name) = Mapping(k).field
<1>1. PICK n \in Nat : n = Len(policy.mappings)
  BY PolicyIs
<1>2. PICK I : I = {i \in 1 .. n : policy.mappings[i].placeholder = name}
  OBVIOUS
<1>3. I \subseteq 0 .. n /\ k \in I
  BY <1>1, <1>2 DEF IsLast, Mapping
<1>4. SelectLastInSeq(policy.mappings, LAMBDA m : m.placeholder = name) = Max(I)
  BY <1>1, <1>2, <1>3 DEF SelectLastInSeq
<1>5. PICK m : m = Max(I) /\ m \in I /\ \A i \in I : i <= m
  BY <1>3, MaxIs
<1>6. m = k
  <2>1. k <= m /\ m \in 1 .. n /\ k \in 1 .. n /\ Mapping(m).placeholder = name
    BY <1>2, <1>3, <1>5 DEF Mapping
  <2>2. m \notin k + 1 .. n
    BY <1>1, <2>1 DEF IsLast
  <2> QED
    BY <2>1, <2>2
<1> QED
  BY <1>4, <1>5, <1>6 DEF FieldOf, Mapping

\* Where it ends well every name is known, by what the request says.
LEMMA TargetIs ==
    ASSUME ResolutionInv, result = "target"
    PROVE  /\ mapped = Len(policy.mappings)
           /\ \A name \in Names(Template) : name \in DOMAIN fields /\ Accepted(fields[name])
           /\ Known = ValuesOf(policy, request)
           /\ written = FlattenSeq(Pieces(Template, Known))
<1> USE DEF ResolutionInv
<1>1. mapped = Len(policy.mappings) /\ read = Len(Template) /\ ReadInv /\ WrittenInv
  BY DEF SubstitutionInv
<1>2. ASSUME NEW name \in Names(Template) PROVE name \in DOMAIN fields /\ Accepted(fields[name])
  <2>1. PICK p \in Placeholders(Template) : name = NameIn(Template, p)
    BY DEF Names
  <2>2. ~(read < p[1])
    BY <1>1, PolicyIs, PlaceholderIs
  <2> QED
    BY <1>1, <2>1, <2>2 DEF ReadInv
<1>3. ASSUME NEW name \in Names(Template) PROVE Known[name] = ValueOf(policy, request, name)
  <2>1. PICK k \in 1 .. mapped : IsLast(k, mapped, name) /\ fields[name] = Extract(request, Mapping(k).field)
    BY <1>2, FieldIs
  <2>2. FieldOf(policy, name) = Mapping(k).field
    BY <1>1, <2>1, FieldOfIs
  <2> QED
    BY <1>2, <2>1, <2>2 DEF Known, ValueOf
<1>4. Known = ValuesOf(policy, request)
  <2>1. ValuesOf(policy, request) = [name \in Names(Template) |-> ValueOf(policy, request, name)]
    BY DEF ValuesOf, Template
  <2>2. Known = [name \in Names(Template) |-> Known[name]]
    BY DEF Known
  <2> QED
    BY <1>3, <2>1, <2>2
<1>5. written = FlattenSeq(Pieces(Template, Known))
  <2>1. PICK s : s = Pieces(Template, Known)
    OBVIOUS
  <2>2. s \in Seq(Seq(Char)) /\ Len(s) = Len(Template)
    BY <2>1, KnownIs
  <2>3. Flattens(Text(s), s)
    BY <2>2, TextIs
  <2> QED
    BY <1>1, <2>1, <2>2, <2>3 DEF Flattens, WrittenInv
<1> QED
  BY <1>1, <1>2, <1>4, <1>5

-----------------------------------------------------------------------------
(* The outcome.                                                            *)

\* The least number of a set, once it is known.
LEMMA LeastIs ==
    ASSUME NEW I, I \subseteq Nat, NEW k \in I, \A i \in I : k <= i
    PROVE  Min(I) = k
<1>1. PICK m : m = Min(I)
  OBVIOUS
<1>2. m \in I /\ m <= k /\ k <= m
  BY <1>1, MinIs
<1>3. m \in Nat /\ k \in Nat
  BY <1>2
<1> QED
  BY <1>1, <1>2, <1>3

\* The mappings that were read were no trouble, so the next is the first that is.
LEMMA TroubledIs ==
    ASSUME TypesInv, MappedInv
    PROVE  /\ mapped = Len(policy.mappings) => Troubled(policy, request) = {}
           /\ mapped + 1 \in Troubled(policy, request) => Min(Troubled(policy, request)) = mapped + 1
           /\ \A i \in 1 .. Len(policy.mappings) :
                  i \in Troubled(policy, request) <=> ~Usable(Mapping(i)) \/ Extract(request, Mapping(i).field) = Unset
<1>1. PICK n \in Nat : n = Len(policy.mappings) /\ DOMAIN policy.mappings = 1 .. n /\ mapped \in 0 .. n
  BY PolicyIs DEF TypesInv
<1>2. PICK T : T = Troubled(policy, request)
  OBVIOUS
<1>3. /\ T \subseteq 1 .. n
      /\ \A i \in 1 .. n : i \in T <=> ~Usable(Mapping(i)) \/ Extract(request, Mapping(i).field) = Unset
  BY <1>1, <1>2 DEF Troubled, Wrong, Usable, Mapping
<1>4. ASSUME NEW i \in T PROVE i \in Nat /\ mapped + 1 <= i
  <2>1. i \in 1 .. n
    BY <1>3
  <2>2. i \notin 1 .. mapped
    BY <1>3, <2>1 DEF MappedInv
  <2> QED
    BY <1>1, <2>1, <2>2
<1>5. mapped + 1 \in T => Min(T) = mapped + 1
  <2>1. T \subseteq Nat
    BY <1>4
  <2> QED
    BY <1>4, <2>1, LeastIs
<1>6. mapped = n => T = {}
  <2>1. ASSUME mapped = n, NEW i \in T PROVE FALSE
    BY <1>1, <1>3, <1>4, <2>1
  <2> QED
    BY <2>1
<1> QED
  BY <1>1, <1>2, <1>3, <1>5, <1>6

\* With every mapping read, a placeholder is refused unless it can be filled.
LEMMA RefusedIs ==
    ASSUME TypesInv, MappedInv, FieldsInv, mapped = Len(policy.mappings), NEW p \in Placeholders(Template)
    PROVE  /\ NameIn(Template, p) \in Unmapped(policy) <=> NameIn(Template, p) \notin DOMAIN fields
           /\ Refused(policy, request, NameIn(Template, p)) <=> ~Fills(p)
<1>1. PICK name : name = NameIn(Template, p)
  OBVIOUS
<1>2. DOMAIN fields = {policy.mappings[i].placeholder : i \in DOMAIN policy.mappings}
  BY PolicyIs DEF FieldsInv, Mapping
<1>3. name \in Names(Template)
  BY <1>1 DEF Names
<1>4. name \in Unmapped(policy) <=> name \notin DOMAIN fields
  BY <1>2, <1>3 DEF Unmapped, Template
<1>5. ASSUME name \in DOMAIN fields PROVE fields[name] = ValueOf(policy, request, name)
  <2>1. PICK k \in 1 .. mapped : IsLast(k, mapped, name) /\ fields[name] = Extract(request, Mapping(k).field)
    BY <1>5, FieldIs
  <2>2. FieldOf(policy, name) = Mapping(k).field
    BY <2>1, FieldOfIs
  <2> QED
    BY <2>1, <2>2 DEF ValueOf
<1> QED
  BY <1>1, <1>4, <1>5 DEF Refused, Fills

\* The one it stopped at is the first that is refused.
LEMMA StopperIs ==
    ASSUME TypesInv, MappedInv, FieldsInv, mapped = Len(policy.mappings), NEW p, Stopper(p)
    PROVE  /\ RefusedAt(policy, request) # {}
           /\ (\E x \in Placeholders(Template) :
                   x[1] = Min(RefusedAt(policy, request)) /\ NameIn(Template, x) \in Unmapped(policy))
                   <=> NameIn(Template, p) \notin DOMAIN fields
<1>1. PICK R : R = RefusedAt(policy, request)
  OBVIOUS
<1>2. PICK n \in Nat : n = Len(Template) /\ DOMAIN Template = 1 .. n
  BY PolicyIs
<1>3. p \in Placeholders(Template) /\ p[1] \in 1 .. n
  BY <1>2, PlaceholderIs DEF Stopper
<1>4. R = {i \in 1 .. n : \E x \in Placeholders(Template) : x[1] = i /\ ~Fills(x)}
  <2>1. R = {i \in 1 .. n : \E x \in Placeholders(Template) : x[1] = i /\ Refused(policy, request, NameIn(Template, x))}
    BY <1>1, <1>2 DEF RefusedAt, Template
  <2> QED
    BY <2>1, RefusedIs
<1>5. p[1] \in R
  BY <1>3, <1>4 DEF Stopper
<1>6. ASSUME NEW i \in R PROVE p[1] <= i
  <2>1. PICK x \in Placeholders(Template) : x[1] = i /\ ~Fills(x)
    BY <1>4
  <2>2. ~(i < p[1])
    BY <2>1 DEF Stopper
  <2>3. i \in Int /\ p[1] \in Int
    BY <1>3, <1>4
  <2> QED
    BY <2>2, <2>3
<1>7. Min(R) = p[1]
  <2>1. R \subseteq Nat
    BY <1>4
  <2> QED
    BY <1>5, <1>6, <2>1, LeastIs
<1>8. ASSUME NEW x \in Placeholders(Template), x[1] = p[1] PROVE x = p
  <2>1. p[1] <= x[1] /\ x[1] <= p[2]
    <3>1. p[1] < p[2] /\ p[1] \in Int /\ p[2] \in Int
      BY <1>2, <1>3, PlaceholderIs
    <3> QED
      BY <1>8, <3>1
  <2> QED
    BY <1>2, <1>3, <2>1, Disjoint
<1>9. NameIn(Template, p) \in Unmapped(policy) <=> NameIn(Template, p) \notin DOMAIN fields
  BY <1>3, RefusedIs
<1> QED
  BY <1>1, <1>3, <1>5, <1>7, <1>8, <1>9

\* It ends as the first trouble says.
LEMMA OutcomeIs ==
    ASSUME ResolutionInv, stage = "over"
    PROVE  result = Outcome(policy, request)
<1>1. TypesInv /\ MappedInv /\ FieldsInv /\ StopInv
  BY DEF ResolutionInv
<1>2. PICK n \in Nat : n = Len(policy.mappings) /\ mapped \in 0 .. n
  BY <1>1, PolicyIs DEF TypesInv
<1>3. PICK T, R : T = Troubled(policy, request) /\ R = RefusedAt(policy, request)
  OBVIOUS
<1>5. Outcome(policy, request) =
          IF Empty THEN "broken"
          ELSE IF T # {} THEN Blame(~Usable(Mapping(Min(T))))
          ELSE IF R # {}
               THEN Blame(\E x \in Placeholders(Template) : x[1] = Min(R) /\ NameIn(Template, x) \in Unmapped(policy))
          ELSE "target"
  BY <1>3 DEF Outcome, Empty, Template, Usable, Wrong, Mapping
<1>6. /\ mapped = n => T = {}
      /\ mapped + 1 \in T => Min(T) = mapped + 1
      /\ \A i \in 1 .. n : i \in T <=> ~Usable(Mapping(i)) \/ Extract(request, Mapping(i).field) = Unset
  BY <1>1, <1>2, <1>3, TroubledIs
<1>7. ASSUME NEW p, mapped = n, Stopper(p)
      PROVE  /\ R # {}
             /\ (\E x \in Placeholders(Template) : x[1] = Min(R) /\ NameIn(Template, x) \in Unmapped(policy))
                    <=> NameIn(Template, p) \notin DOMAIN fields
  BY <1>1, <1>2, <1>3, <1>7, StopperIs
<1>8. CASE Empty /\ mapped = 0 /\ result = "broken"
  BY <1>5, <1>8
<1>9. CASE ~Empty /\ mapped < n /\ ~Usable(Mapping(mapped + 1)) /\ result = "broken"
  <2>1. mapped + 1 \in 1 .. n
    BY <1>2, <1>9
  <2>2. mapped + 1 \in T /\ Min(T) = mapped + 1
    BY <1>6, <1>9, <2>1
  <2> QED
    BY <1>5, <1>9, <2>2 DEF Blame
<1>10. CASE /\ ~Empty /\ mapped < n /\ Usable(Mapping(mapped + 1))
            /\ Extract(request, Mapping(mapped + 1).field) = Unset /\ result = "unsafe"
  <2>1. mapped + 1 \in 1 .. n
    BY <1>2, <1>10
  <2>2. mapped + 1 \in T /\ Min(T) = mapped + 1
    BY <1>6, <1>10, <2>1
  <2> QED
    BY <1>5, <1>10, <2>2 DEF Blame
<1>11. CASE ~Empty /\ mapped = n /\ result = "broken" /\ \E p : Stopper(p) /\ NameIn(Template, p) \notin DOMAIN fields
  <2>1. PICK p : Stopper(p) /\ NameIn(Template, p) \notin DOMAIN fields
    BY <1>11
  <2> QED
    BY <1>5, <1>6, <1>7, <1>11, <2>1 DEF Blame
<1>12. CASE ~Empty /\ mapped = n /\ result = "unsafe" /\ \E p : Stopper(p) /\ NameIn(Template, p) \in DOMAIN fields
  <2>1. PICK p : Stopper(p) /\ NameIn(Template, p) \in DOMAIN fields
    BY <1>12
  <2> QED
    BY <1>5, <1>6, <1>7, <1>12, <2>1 DEF Blame
<1>13. CASE result = "target"
  <2>1. mapped = n /\ \A name \in Names(Template) : name \in DOMAIN fields /\ Accepted(fields[name])
    BY <1>2, <1>13, TargetIs
  <2>2. R = {}
    <3>1. ASSUME NEW x \in Placeholders(Template) PROVE ~Refused(policy, request, NameIn(Template, x))
      <4>1. Fills(x)
        BY <2>1 DEF Fills, Names
      <4> QED
        BY <1>1, <1>2, <2>1, <4>1, RefusedIs
    <3> QED
      BY <1>3, <3>1 DEF RefusedAt, Template
  <2>3. ~Empty
    BY <1>1, <1>13 DEF StopInv
  <2> QED
    BY <1>5, <1>6, <1>13, <2>1, <2>2, <2>3
<1>14. result \in {"target", "unsafe", "broken"}
  BY <1>1 DEF TypesInv, StopInv
<1> QED
  BY <1>1, <1>2, <1>8, <1>9, <1>10, <1>11, <1>12, <1>13, <1>14 DEF StopInv

-----------------------------------------------------------------------------
(* The structure of a text.                                                *)

Marks(text) == [i \in DOMAIN text |-> IF text[i] \in Structural THEN <<text[i]>> ELSE <<>>]

LEMMA MarksAre ==
    ASSUME NEW text \in Seq(Char)
    PROVE  /\ Marks(text) \in Seq(Seq(Char)) /\ Len(Marks(text)) = Len(text)
           /\ Structure(text) = FlattenSeq(Marks(text)) /\ Structure(text) \in Seq(Char)
<1>1. PICK s : s = Marks(text)
  OBVIOUS
<1>2. DOMAIN text = 1 .. Len(text) /\ Len(text) \in Nat
  OBVIOUS
<1>3. ASSUME NEW i \in 1 .. Len(text) PROVE s[i] \in Seq(Char)
  <2>1. text[i] \in Char
    OBVIOUS
  <2>2. <<text[i]>> \in Seq(Char) /\ <<>> \in Seq(Char)
    BY <2>1, One
  <2>3. s[i] = IF text[i] \in Structural THEN <<text[i]>> ELSE <<>>
    BY <1>1, <1>2 DEF Marks
  <2> QED
    BY <2>2, <2>3
<1>4. s = [i \in 1 .. Len(text) |-> s[i]]
  BY <1>1, <1>2 DEF Marks
<1>5. s \in Seq(Seq(Char)) /\ Len(s) = Len(text)
  BY <1>2, <1>3, <1>4
<1>6. Structure(text) = FlattenSeq(s)
  BY <1>1 DEF Structure, Marks
<1>7. FlattenSeq(s) \in Seq(Char)
  BY <1>5, FlattenJoined
<1> QED
  BY <1>1, <1>5, <1>6, <1>7

\* The separators of one text and another are those of both.
LEMMA StructureJoined ==
    ASSUME NEW a \in Seq(Char), NEW b \in Seq(Char)
    PROVE  Structure(a \o b) = Structure(a) \o Structure(b)
<1>1. PICK c : c = a \o b
  OBVIOUS
<1>2. /\ Len(a) \in Nat /\ Len(b) \in Nat /\ c \in Seq(Char) /\ Len(c) = Len(a) + Len(b)
      /\ \A k \in 1 .. Len(a) : c[k] = a[k]
      /\ \A k \in 1 .. Len(b) : c[Len(a) + k] = b[k]
  BY <1>1, Joined
<1>3. PICK x, y, z : x = Marks(a) /\ y = Marks(b) /\ z = Marks(c)
  OBVIOUS
<1>4. /\ x \in Seq(Seq(Char)) /\ y \in Seq(Seq(Char)) /\ z \in Seq(Seq(Char))
      /\ Len(x) = Len(a) /\ Len(y) = Len(b) /\ Len(z) = Len(c)
  BY <1>2, <1>3, MarksAre
<1>5. PICK w : w = x \o y
  OBVIOUS
<1>6. /\ w \in Seq(Seq(Char)) /\ Len(w) = Len(x) + Len(y)
      /\ \A k \in 1 .. Len(x) : w[k] = x[k]
      /\ \A k \in 1 .. Len(y) : w[Len(x) + k] = y[k]
  <2>1. PICK S : S = Seq(Char)
    OBVIOUS
  <2>2. x \in Seq(S) /\ y \in Seq(S)
    BY <1>4, <2>1
  <2>3. /\ w \in Seq(S) /\ Len(w) = Len(x) + Len(y)
        /\ \A k \in 1 .. Len(x) : w[k] = x[k]
        /\ \A k \in 1 .. Len(y) : w[Len(x) + k] = y[k]
    BY <1>5, <2>2, Joined
  <2> QED
    BY <2>1, <2>3
<1>7. DOMAIN a = 1 .. Len(a) /\ DOMAIN b = 1 .. Len(b) /\ DOMAIN c = 1 .. Len(c)
  BY <1>2
<1>8. ASSUME NEW k \in 1 .. Len(z) PROVE z[k] = w[k]
  <2>1. k \in 1 .. Len(c) /\ k \in Nat
    BY <1>2, <1>4
  <2>2. z[k] = IF c[k] \in Structural THEN <<c[k]>> ELSE <<>>
    BY <1>3, <1>7, <2>1 DEF Marks
  <2>3. CASE k <= Len(a)
    <3>1. k \in 1 .. Len(a)
      BY <1>2, <2>1, <2>3
    <3>2. x[k] = IF a[k] \in Structural THEN <<a[k]>> ELSE <<>>
      BY <1>3, <1>7, <3>1 DEF Marks
    <3> QED
      BY <1>2, <1>4, <1>6, <2>2, <3>1, <3>2
  <2>4. CASE ~(k <= Len(a))
    <3>1. PICK j \in 1 .. Len(b) : k = Len(a) + j
      <4>1. k - Len(a) \in 1 .. Len(b) /\ k = Len(a) + (k - Len(a))
        BY <1>2, <2>1, <2>4
      <4> QED
        BY <4>1
    <3>2. y[j] = IF b[j] \in Structural THEN <<b[j]>> ELSE <<>>
      BY <1>3, <1>7, <3>1 DEF Marks
    <3>3. c[k] = b[j] /\ w[k] = y[j]
      BY <1>2, <1>4, <1>6, <3>1
    <3> QED
      BY <2>2, <3>2, <3>3
  <2> QED
    BY <2>3, <2>4
<1>9. z = w
  <2>1. Len(z) = Len(w)
    BY <1>2, <1>4, <1>6
  <2> QED
    BY <1>4, <1>6, <1>8, <2>1, SeqEqual
<1>10. FlattenSeq(w) = FlattenSeq(x) \o FlattenSeq(y)
  BY <1>4, <1>5, FlattenJoined
<1> QED
  BY <1>1, <1>2, <1>3, <1>9, <1>10, MarksAre

\* A value that fills one segment has none.
LEMMA NoStructure ==
    ASSUME NEW a \in Seq(Char), ToSet(a) \cap Structural = {}
    PROVE  Structure(a) = <<>>
<1>1. PICK s : s = Marks(a)
  OBVIOUS
<1>2. s \in Seq(Seq(Char)) /\ Len(s) = Len(a) /\ Len(s) \in Nat /\ Structure(a) = FlattenSeq(s)
  BY <1>1, MarksAre
<1>3. PICK n : n = Len(s)
  OBVIOUS
<1>4. \A i \in 0 + 1 .. n : s[i] = <<>>
  <2> SUFFICES ASSUME NEW i \in 1 .. n PROVE s[i] = <<>>
    OBVIOUS
  <2>1. i \in DOMAIN a
    BY <1>2, <1>3
  <2>2. a[i] \notin Structural
    BY <2>1 DEF ToSet
  <2> QED
    BY <1>1, <2>1, <2>2 DEF Marks
<1>5. PICK F \in [0 .. Len(s) -> Seq(Char)] : Flattens(F, s)
  BY <1>2, Flattening
<1>6. Unmoved(F, 0, n)
  <2>1. 0 \in 0 .. Len(s) /\ n \in 0 .. Len(s)
    BY <1>2, <1>3
  <2> QED
    BY <1>2, <1>4, <1>5, <2>1, Nothing
<1> QED
  BY <1>2, <1>3, <1>5, <1>6 DEF Flattens, Unmoved

\* Pieces that differ only where both have none make texts of one structure.
Plain(x) == ToSet(x) \cap Structural = {}

LEMMA SameStructure ==
    ASSUME NEW s \in Seq(Seq(Char)), NEW u \in Seq(Seq(Char)), Len(s) = Len(u),
           \A i \in 1 .. Len(s) : s[i] # u[i] => Plain(s[i]) /\ Plain(u[i])
    PROVE  Structure(FlattenSeq(s)) = Structure(FlattenSeq(u))
<1>1. PICK n \in Nat : n = Len(s) /\ n = Len(u)
  OBVIOUS
<1>2. PICK F \in [0 .. Len(s) -> Seq(Char)] : Flattens(F, s)
  BY Flattening
<1>3. PICK G \in [0 .. Len(u) -> Seq(Char)] : Flattens(G, u)
  BY Flattening
<1> DEFINE P == {k \in Nat : k <= n => Structure(F[k]) = Structure(G[k])}
<1>4. 0 \in P
  BY <1>2, <1>3 DEF Flattens
<1>5. ASSUME NEW k \in 0 .. n - 1, k \in P PROVE k + 1 \in P
  <2>1. k \in 0 .. n /\ k + 1 \in 1 .. n /\ (k + 1) - 1 = k
    BY <1>1
  <2>2. PICK a, b, x, y : /\ a = F[k] /\ b = G[k] /\ x = s[k + 1] /\ y = u[k + 1]
                          /\ a \in Seq(Char) /\ b \in Seq(Char) /\ x \in Seq(Char) /\ y \in Seq(Char)
    <3>1. F[k] \in Seq(Char) /\ G[k] \in Seq(Char)
      BY <1>1, <2>1
    <3>2. s[k + 1] \in Seq(Char) /\ u[k + 1] \in Seq(Char)
      BY <1>1, <2>1
    <3> QED
      BY <3>1, <3>2
  <2>3. F[k + 1] = a \o x /\ G[k + 1] = b \o y
    <3>1. F[k + 1] = F[(k + 1) - 1] \o s[k + 1]
      BY <1>1, <1>2, <2>1 DEF Flattens
    <3>2. G[k + 1] = G[(k + 1) - 1] \o u[k + 1]
      BY <1>1, <1>3, <2>1 DEF Flattens
    <3> QED
      BY <2>1, <2>2, <3>1, <3>2
  <2>4. Structure(x) = Structure(y)
    BY <1>1, <2>1, <2>2, NoStructure DEF Plain
  <2>5. Structure(a) = Structure(b)
    BY <1>5, <2>1, <2>2
  <2>6. Structure(a \o x) = Structure(a) \o Structure(x) /\ Structure(b \o y) = Structure(b) \o Structure(y)
    BY <2>2, StructureJoined
  <2>7. Structure(F[k + 1]) = Structure(G[k + 1])
    BY <2>3, <2>4, <2>5, <2>6
  <2> QED
    BY <2>1, <2>7
<1>6. n \in P
  <2>1. \A k \in 0 .. n - 1 : k \in P => k + 1 \in P
    BY <1>5
  <2> HIDE DEF P
  <2>2. \A k \in 0 .. n : k \in P
    BY <1>4, <2>1, UpTo
  <2> QED
    BY <2>2
<1> QED
  BY <1>1, <1>2, <1>3, <1>6 DEF Flattens

\* Two fillings of a template have the same piece in a place, or the values of one placeholder.
LEMMA PiecesDiffer ==
    ASSUME NEW t \in Seq(STRING), NEW values, NEW others, NEW i \in 1 .. Len(t)
    PROVE  \/ Pieces(t, values)[i] = Pieces(t, others)[i]
           \/ \E p \in Placeholders(t) :
                  /\ p[1] = i
                  /\ Pieces(t, values)[i] = values[NameIn(t, p)] /\ Pieces(t, others)[i] = others[NameIn(t, p)]
<1>1. DOMAIN t = 1 .. Len(t) /\ Len(t) \in Nat
  OBVIOUS
<1>2. CASE \E p \in Placeholders(t) : p[1] = i
  BY <1>1, <1>2, PieceOpens
<1>3. CASE \E p \in Placeholders(t) : i \in p[1] + 1 .. p[2]
  <2>1. Pieces(t, values)[i] = <<>> /\ Pieces(t, others)[i] = <<>>
    BY <1>1, <1>3, PieceWithin
  <2> QED
    BY <2>1
<1>4. CASE Outside(t, i)
  <2>1. Pieces(t, values)[i] = <<t[i]>> /\ Pieces(t, others)[i] = <<t[i]>>
    BY <1>1, <1>4, PieceOutside
  <2> QED
    BY <2>1
<1>5. ASSUME NEW p \in Placeholders(t), i \in p[1] .. p[2], p[1] # i PROVE i \in p[1] + 1 .. p[2]
  BY <1>1, <1>5, PlaceholderIs
<1> QED
  BY <1>2, <1>3, <1>4, <1>5 DEF Outside

-----------------------------------------------------------------------------
(* Which values a filled template tells.                                   *)

\* A place where no placeholder begins whose values differ.
SameValue(t, values, others, i) ==
    \A q \in Placeholders(t) : q[1] = i => values[NameIn(t, q)] = others[NameIn(t, q)]
SamePart(s, u, i) == s[i] = u[i]

LEMMA SamePiece ==
    ASSUME NEW t \in Seq(STRING), NEW values, NEW others, NEW i \in 1 .. Len(t), SameValue(t, values, others, i)
    PROVE  SamePart(Pieces(t, values), Pieces(t, others), i)
<1>1. \/ Pieces(t, values)[i] = Pieces(t, others)[i]
      \/ \E p \in Placeholders(t) :
             /\ p[1] = i
             /\ Pieces(t, values)[i] = values[NameIn(t, p)] /\ Pieces(t, others)[i] = others[NameIn(t, p)]
  BY PiecesDiffer
<1> QED
  BY <1>1 DEF SameValue, SamePart

\* Where a text c, then v, then d, is in E.
Spans(E, c, v, d) ==
    /\ Len(c) \in Nat /\ Len(v) \in Nat /\ Len(d) \in Nat
    /\ \A j \in 1 .. Len(v) : E[Len(c) + j] = v[j]
    /\ \A j \in 1 .. Len(d) : E[Len(c) + Len(v) + j] = d[j]

Makes(a, c, v, d) == a = (c \o v) \o d
Sums(n, c, v, d) == n = Len(c) + Len(v) + Len(d)

LEMMA SpansIs ==
    ASSUME NEW S, NEW c \in Seq(S), NEW v \in Seq(S), NEW d \in Seq(S), NEW a, Makes(a, c, v, d),
           NEW E, Starts(E, a)
    PROVE  Spans(E, c, v, d) /\ Sums(Len(a), c, v, d)
<1>1. PICK b : b = c \o v
  OBVIOUS
<1>2. /\ b \in Seq(S) /\ Len(b) = Len(c) + Len(v) /\ Len(c) \in Nat /\ Len(v) \in Nat
      /\ \A j \in 1 .. Len(v) : b[Len(c) + j] = v[j]
  BY <1>1, Joined
<1>3. /\ Len(a) = Len(b) + Len(d) /\ Len(d) \in Nat
      /\ \A j \in 1 .. Len(b) : a[j] = b[j]
      /\ \A j \in 1 .. Len(d) : a[Len(b) + j] = d[j]
  <2>1. a = b \o d /\ b \in Seq(S)
    BY <1>1, <1>2 DEF Makes
  <2> HIDE <1>2
  <2>2. /\ Len(b) \in Nat /\ Len(d) \in Nat
        /\ a \in Seq(S) /\ Len(a) = Len(b) + Len(d)
        /\ \A j \in 1 .. Len(b) : a[j] = b[j]
        /\ \A j \in 1 .. Len(d) : a[Len(b) + j] = d[j]
    BY ONLY <2>1, d \in Seq(S), Joined
  <2> QED
    BY <2>2
<1>4. ASSUME NEW j \in 1 .. Len(v) PROVE E[Len(c) + j] = v[j]
  <2>1. Len(c) + j \in 1 .. Len(b) /\ Len(c) + j \in 1 .. Len(a)
    BY <1>2, <1>3
  <2> QED
    BY <1>2, <1>3, <2>1 DEF Starts
<1>5. ASSUME NEW j \in 1 .. Len(d) PROVE E[Len(c) + Len(v) + j] = d[j]
  <2>1. Len(b) + j \in 1 .. Len(a) /\ Len(b) + j = Len(c) + Len(v) + j
    BY <1>2, <1>3
  <2> QED
    BY <1>3, <2>1 DEF Starts
<1>6. Len(a) = Len(c) + Len(v) + Len(d)
  BY <1>2, <1>3
<1>7. Spans(E, c, v, d)
  BY <1>2, <1>3, <1>4, <1>5 DEF Spans
<1> QED
  BY <1>6, <1>7 DEF Sums

\* And the element after them.
LEMMA MarkIs ==
    ASSUME NEW S, NEW c \in Seq(S), NEW v \in Seq(S), NEW d \in Seq(S), NEW x \in S,
           NEW a, Makes(a, c, v, d), NEW E, Starts(E, a \o <<x>>)
    PROVE  Spans(E, c, v, d) /\ E[Len(c) + Len(v) + Len(d) + 1] \in {x}
<1>1. a \in Seq(S) /\ Len(a) \in Nat
  BY DEF Makes
<1>2. PICK b : b = a \o <<x>>
  OBVIOUS
<1>3. Len(b) = Len(a) + 1 /\ b[Len(a) + 1] = x /\ \A j \in 1 .. Len(a) : b[j] = a[j]
  BY <1>1, <1>2
<1>4. Starts(E, a) /\ E[Len(a) + 1] = x
  <2>1. \A j \in 1 .. Len(a) : j \in 1 .. Len(b)
    BY <1>1, <1>3
  <2>2. Len(a) + 1 \in 1 .. Len(b) /\ Len(b) \in Nat /\ Len(a) <= Len(b)
    BY <1>1, <1>3
  <2>3. Len(b) <= Len(E) /\ \A k \in 1 .. Len(b) : E[k] = b[k]
    BY <1>2 DEF Starts
  <2>4. Len(a) <= Len(E)
    BY <1>1, <1>3, <2>2, <2>3
  <2> QED
    BY <1>1, <1>3, <2>1, <2>2, <2>3, <2>4 DEF Starts
<1>5. Spans(E, c, v, d) /\ Sums(Len(a), c, v, d)
  BY <1>4, SpansIs
<1>6. E[Len(c) + Len(v) + Len(d) + 1] = x
  BY <1>4, <1>5 DEF Sums
<1> QED
  BY <1>5, <1>6

\* Between the same texts, one text of each length.
LEMMA SameLength ==
    ASSUME NEW S, NEW E, NEW c, NEW d, NEW v \in Seq(S), NEW w \in Seq(S),
           Spans(E, c, v, d), Spans(E, c, w, d), Len(v) = Len(w)
    PROVE  v = w
<1>1. \A j \in 1 .. Len(v) : v[j] = w[j]
  BY DEF Spans
<1> QED
  BY <1>1, SeqEqual

\* Before a separator, with none before it.
LEMMA UpToMark ==
    ASSUME NEW E, NEW c, NEW d, NEW v \in Seq(Char), NEW w \in Seq(Char),
           Spans(E, c, v, d), Spans(E, c, w, d), Plain(v), Plain(w), Plain(d), DOMAIN d = 1 .. Len(d),
           E[Len(c) + Len(v) + Len(d) + 1] \in Structural, E[Len(c) + Len(w) + Len(d) + 1] \in Structural
    PROVE  v = w
<1>1. PICK a, m, n, k : a = Len(c) /\ m = Len(v) /\ n = Len(w) /\ k = Len(d)
  OBVIOUS
<1>2. a \in Nat /\ m \in Nat /\ n \in Nat /\ k \in Nat
  BY <1>1 DEF Spans
<1>3. /\ \A j \in 1 .. m : E[a + j] = v[j] /\ v[j] \notin Structural
      /\ \A j \in 1 .. n : E[a + j] = w[j] /\ w[j] \notin Structural
      /\ \A j \in 1 .. k : E[a + m + j] = d[j] /\ E[a + n + j] = d[j] /\ d[j] \notin Structural
  <2>1. /\ \A j \in 1 .. m : E[a + j] = v[j]
        /\ \A j \in 1 .. n : E[a + j] = w[j]
        /\ \A j \in 1 .. k : E[a + m + j] = d[j] /\ E[a + n + j] = d[j]
    BY <1>1 DEF Spans
  <2>2. DOMAIN v = 1 .. m /\ DOMAIN w = 1 .. n /\ DOMAIN d = 1 .. k
    BY <1>1
  <2>3. /\ \A j \in DOMAIN v : v[j] \notin Structural
        /\ \A j \in DOMAIN w : w[j] \notin Structural
        /\ \A j \in DOMAIN d : d[j] \notin Structural
    BY DEF Plain, ToSet
  <2> QED
    BY <2>1, <2>2, <2>3
<1>4. E[a + m + k + 1] \in Structural /\ E[a + n + k + 1] \in Structural
  BY <1>1
<1>5. ASSUME NEW j \in 1 .. n + k PROVE E[a + j] \notin Structural
  <2>1. CASE j <= n
    <3>1. j \in 1 .. n
      BY <1>2, <2>1
    <3> QED
      BY <1>3, <3>1
  <2>2. CASE ~(j <= n)
    <3>1. j - n \in 1 .. k /\ a + n + (j - n) = a + j
      BY <1>2, <2>2
    <3> QED
      BY <1>3, <3>1
  <2> QED
    BY <2>1, <2>2
<1>6. ASSUME NEW j \in 1 .. m + k PROVE E[a + j] \notin Structural
  <2>1. CASE j <= m
    <3>1. j \in 1 .. m
      BY <1>2, <2>1
    <3> QED
      BY <1>3, <3>1
  <2>2. CASE ~(j <= m)
    <3>1. j - m \in 1 .. k /\ a + m + (j - m) = a + j
      BY <1>2, <2>2
    <3> QED
      BY <1>3, <3>1
  <2> QED
    BY <2>1, <2>2
<1>7. m = n
  <2>1. m + k + 1 \notin 1 .. n + k
    <3>1. a + (m + k + 1) = a + m + k + 1
      BY <1>2
    <3> QED
      BY <1>4, <1>5, <3>1
  <2>2. n + k + 1 \notin 1 .. m + k
    <3>1. a + (n + k + 1) = a + n + k + 1
      BY <1>2
    <3> QED
      BY <1>4, <1>6, <3>1
  <2> QED
    BY <1>2, <2>1, <2>2
<1> QED
  BY <1>1, <1>7, SameLength

\* Where a separator stands between the placeholders, a filled template tells their values.
Separated(t) ==
    \A p1, p2 \in Placeholders(t) : p1[2] < p2[1] => \E i \in p1[2] .. p2[1] : t[i] \in Structural

\* Fillings that differ first in the placeholder p.
Unlike(values, others, t, p) ==
    /\ p \in Placeholders(t) /\ values[NameIn(t, p)] # others[NameIn(t, p)]
    /\ \A q \in Placeholders(t) : q[1] < p[1] => values[NameIn(t, q)] = others[NameIn(t, q)]

LEMMA FirstUnlike ==
    ASSUME NEW t, DOMAIN t = 1 .. Len(t), Len(t) \in Nat, NEW values, NEW others,
           NEW name \in Names(t), values[name] # others[name]
    PROVE  \E p : Unlike(values, others, t, p)
<1> DEFINE Differs(p) == p \in Placeholders(t) /\ values[NameIn(t, p)] # others[NameIn(t, p)]
<1>1. PICK D : D = {i \in DOMAIN t : \E p \in Placeholders(t) : p[1] = i /\ Differs(p)}
  OBVIOUS
<1>2. D \subseteq Nat /\ D # {}
  <2>1. PICK p \in Placeholders(t) : name = NameIn(t, p)
    BY DEF Names
  <2>2. p[1] \in D
    BY <1>1, <2>1, PlaceholderIs
  <2> QED
    BY <1>1, <2>2
<1>3. PICK m \in D : \A i \in D : m <= i
  BY <1>2, MinIs
<1>4. PICK p \in Placeholders(t) : p[1] = m /\ Differs(p)
  BY <1>1
<1>5. ASSUME NEW q \in Placeholders(t), q[1] < p[1] PROVE ~Differs(q)
  <2>1. q[1] \in 1 .. Len(t) /\ p[1] \in Int
    BY PlaceholderIs
  <2>2. q[1] \notin D
    BY <1>3, <1>4, <1>5, <2>1
  <2> QED
    BY <1>1, <2>1, <2>2
<1> QED
  BY <1>4, <1>5 DEF Unlike

OpensAt(t, x) == t[x[1]] = "<" /\ x[1] \in DOMAIN t
LEMMA BeginIs == ASSUME NEW t, NEW x \in Placeholders(t) PROVE OpensAt(t, x)
BY DEF Placeholders, OpensAt

\* Where they differ first the text does, since the next separator comes as late in both.
LEMMA FillingTells ==
    ASSUME NEW t \in Seq(STRING), Separated(t),
           NEW values \in [Names(t) -> Seq(Char)], NEW others \in [Names(t) -> Seq(Char)],
           \A name \in Names(t) : Plain(values[name]) /\ Plain(others[name]),
           FlattenSeq(Pieces(t, values)) = FlattenSeq(Pieces(t, others))
    PROVE  \A name \in Names(t) : values[name] = others[name]
<1> SUFFICES ASSUME NEW name \in Names(t), values[name] # others[name] PROVE FALSE
  OBVIOUS
<1>1. PICK n \in Nat : n = Len(t) /\ DOMAIN t = 1 .. n
  OBVIOUS
<1>2. PICK p : Unlike(values, others, t, p)
  BY <1>1, FirstUnlike
<1>3. PICK m, e : m = p[1] /\ e = p[2]
  OBVIOUS
<1>4. /\ m \in 1 .. n /\ e \in 1 .. n /\ m < e /\ t[m] = "<" /\ t[e] = ">" /\ p \in Placeholders(t)
      /\ NameIn(t, p) \in Names(t)
  BY <1>1, <1>2, <1>3, PlaceholderIs DEF Unlike
<1>5. PICK s, u : s = Pieces(t, values) /\ u = Pieces(t, others)
  OBVIOUS
<1>6. s \in Seq(Seq(Char)) /\ u \in Seq(Seq(Char)) /\ Len(s) = n /\ Len(u) = n
  BY <1>1, <1>5, PiecesAre
<1>7. PICK F \in [0 .. Len(s) -> Seq(Char)] : Flattens(F, s)
  BY <1>6, Flattening
<1>8. PICK G \in [0 .. Len(u) -> Seq(Char)] : Flattens(G, u)
  BY <1>6, Flattening
<1>9. PICK E : E = FlattenSeq(s) /\ E = FlattenSeq(u) /\ E = F[n] /\ E = G[n]
  BY <1>5, <1>6, <1>7, <1>8 DEF Flattens
\* The text is the same up to the placeholder, ...
<1>10. PICK c \in Seq(Char) : F[m - 1] = c /\ G[m - 1] = c
  <2>1. ASSUME NEW i \in 1 .. m - 1 PROVE s[i] = u[i]
    <3>1. i \in 1 .. Len(t) /\ i < m
      BY <1>1, <1>4
    <3>2. SameValue(t, values, others, i)
      BY <1>2, <1>3, <3>1 DEF Unlike, SameValue
    <3>3. SamePart(s, u, i)
      BY <1>5, <3>1, <3>2, SamePiece
    <3> QED
      BY <3>3 DEF SamePart
  <2>2. PICK k : k = m - 1
    OBVIOUS
  <2>3. k \in Nat /\ k <= n /\ k \in 0 .. Len(s)
    BY <1>4, <1>6, <2>2
  <2>4. Agree(s, u, k)
    BY <1>6, <2>1, <2>2, <2>3 DEF Agree
  <2>5. Equal(F, G, k)
    BY <1>6, <1>7, <1>8, <2>4, SameStart
  <2>6. F[k] \in Seq(Char)
    BY <2>3
  <2> QED
    BY <2>2, <2>5, <2>6 DEF Equal
\* ... then come the two values, ...
<1>11. PICK v \in Seq(Char), w \in Seq(Char) : v = s[m] /\ w = u[m] /\ v # w /\ Plain(v) /\ Plain(w)
  <2>1. s[m] = values[NameIn(t, p)] /\ u[m] = others[NameIn(t, p)]
    BY <1>1, <1>3, <1>4, <1>5, PieceOpens
  <2> QED
    BY <1>2, <1>4, <2>1 DEF Unlike
<1>12. F[m] = c \o v /\ G[m] = c \o w
  <2>1. F[m] = F[m - 1] \o s[m]
    BY <1>4, <1>6, <1>7 DEF Flattens
  <2>2. G[m] = G[m - 1] \o u[m]
    BY <1>4, <1>6, <1>8 DEF Flattens
  <2> QED
    BY <1>10, <1>11, <2>1, <2>2
\* ... and the same again up to the next placeholder.
<1>13. ASSUME NEW i \in m + 1 .. n, \A q \in Placeholders(t) : q[1] = i => ~(e < q[1]) PROVE s[i] = u[i]
  <2>1. i \in 1 .. Len(t) /\ i \in Int /\ m < i
    BY <1>1, <1>4
  <2>2. ASSUME NEW q \in Placeholders(t), q[1] = i PROVE FALSE
    <3>1. p[1] <= q[1] /\ q[1] <= p[2]
      <4>1. ~(e < i)
        BY <1>13, <2>2
      <4>2. m <= i /\ i <= e
        <5>1. m \in Int /\ e \in Int
          BY <1>4
        <5> QED
          BY ONLY <2>1, <4>1, <5>1
      <4> QED
        BY ONLY <1>3, <2>2, <4>2
    <3>2. p = q
      BY <1>1, <1>4, <3>1, Disjoint
    <3> QED
      BY <1>3, <1>4, <2>1, <2>2, <3>2
  <2>3. SameValue(t, values, others, i)
    BY <2>2 DEF SameValue
  <2>4. SamePart(s, u, i)
    BY <1>5, <2>1, <2>3, SamePiece
  <2> QED
    BY <2>4 DEF SamePart
<1>14. CASE \A q \in Placeholders(t) : ~(e < q[1])
  <2>1. ASSUME NEW i \in m + 1 .. n PROVE s[i] \in Seq(Char) /\ u[i] = s[i]
    <3>1. s[i] \in Seq(Char)
      BY <1>4, <1>6
    <3> QED
      BY <1>13, <1>14, <3>1
  <2>2. m \in 0 .. Len(s) /\ n \in m .. Len(s) /\ Char \subseteq Char
    BY <1>4, <1>6
  <2>3. Alike(F, G, m, n, Char)
    BY <1>6, <1>7, <1>8, <2>1, <2>2, SamePieces
  <2>4. PICK d \in Seq(Char) : E = F[m] \o d /\ E = G[m] \o d
    BY <1>9, <2>3 DEF Alike
  <2>5. Makes(E, c, v, d) /\ Makes(E, c, w, d)
    BY <1>12, <2>4 DEF Makes
  <2>6. Starts(E, E)
    <3>1. E \in Seq(Char)
      BY <1>6, <1>9, FlattenJoined
    <3> QED
      BY <3>1 DEF Starts
  <2>7. Spans(E, c, v, d) /\ Spans(E, c, w, d) /\ Sums(Len(E), c, v, d) /\ Sums(Len(E), c, w, d)
    BY <2>5, <2>6, SpansIs
  <2>8. Len(v) = Len(w)
    BY <2>7 DEF Sums, Spans
  <2>9. v = w
    BY <2>7, <2>8, SameLength
  <2> QED
    BY <1>11, <2>9
<1>15. ASSUME NEW q \in Placeholders(t), e < q[1] PROVE FALSE
  \* There is a separator before it, the first one at k.
  <2>1. PICK K : K = {i \in e .. n : t[i] \in Structural}
    OBVIOUS
  <2>2. ASSUME NEW x \in Placeholders(t), e < x[1] PROVE \E i \in K : i <= x[1]
    <3>1. \E i \in e .. x[1] : t[i] \in Structural
      BY <1>3, <1>4, <2>2 DEF Separated
    <3>2. x[1] \in 1 .. n
      BY <1>1, PlaceholderIs
    <3> QED
      BY <1>4, <2>1, <3>1, <3>2
  <2>3. K \subseteq Nat /\ K # {}
    <3>1. \E i \in K : i <= q[1]
      BY <1>15, <2>2
    <3>2. e \in Nat
      BY <1>4
    <3>3. e .. n \subseteq Nat
      BY ONLY <3>2, n \in Nat
    <3>4. K \subseteq Nat
      BY ONLY <2>1, <3>3
    <3> QED
      BY <3>1, <3>4
  <2>4. PICK k \in K : \A i \in K : k <= i
    BY <2>3, MinIs
  <2>5. k \in e + 1 .. n /\ t[k] \in Structural /\ \A i \in e .. k - 1 : t[i] \notin Structural
    <3>1. k \in e .. n /\ t[k] \in Structural
      BY <2>1
    <3>2. k # e
      BY <1>4, <3>1 DEF Structural
    <3>3. ASSUME NEW i \in e .. k - 1 PROVE t[i] \notin Structural
      <4>1. i \in e .. n /\ ~(k <= i)
        BY <1>4, <3>1
      <4> QED
        BY <2>1, <2>4, <4>1
    <3> QED
      BY <1>4, <3>1, <3>2, <3>3
  <2>6. ASSUME NEW x \in Placeholders(t), e < x[1] PROVE k < x[1]
    <3>1. k <= x[1]
      <4>1. PICK y \in Int : y = x[1]
        BY <1>1, PlaceholderIs
      <4>2. PICK i \in K : i <= y
        BY <2>2, <2>6, <4>1
      <4>3. k <= i /\ i \in Nat /\ k \in Nat
        BY <2>3, <2>4
      <4>4. k <= y
        BY ONLY y \in Int, <4>2, <4>3
      <4> QED
        BY ONLY <4>1, <4>4
    <3>2. t[x[1]] = "<" /\ x[1] \in Int
      <4>1. OpensAt(t, x)
        BY BeginIs
      <4> QED
        BY <1>1, <4>1 DEF OpensAt
    <3>3. k # x[1]
      BY <2>5, <3>2 DEF Structural
    <3> QED
      BY <1>4, <2>5, <3>1, <3>2, <3>3
  \* Between the placeholder and it there is none.
  <2>7. ASSUME NEW i \in e + 1 .. k PROVE Outside(t, i) /\ s[i] = <<t[i]>> /\ u[i] = <<t[i]>>
    <3>1. i \in DOMAIN t /\ i \in Int /\ e < i /\ i <= k
      BY <1>1, <1>4, <2>5
    <3>2. ASSUME NEW x \in Placeholders(t), i \in x[1] .. x[2] PROVE FALSE
      <4>1. x[1] \in Int /\ x[2] \in Int
        BY <1>1, PlaceholderIs
      <4>2. ~(e < x[1])
        <5>1. k \in Int
          BY <1>4, <2>5
        <5>2. ~(k < x[1])
          BY ONLY <3>1, <3>2, <4>1, <5>1
        <5> QED
          BY <2>6, <5>2
      <4>3. x = p
        <5>1. CASE p[1] <= x[1]
          <6>1. x[1] <= p[2]
            <7>1. e \in Int
              BY <1>4
            <7> QED
              BY ONLY <1>3, <4>1, <4>2, <7>1
          <6> QED
            BY <1>1, <1>4, <5>1, <6>1, Disjoint
        <5>2. CASE ~(p[1] <= x[1])
          <6>1. x[1] <= p[1] /\ p[1] <= x[2]
            <7>1. m \in Int /\ e \in Int /\ m < e
              BY <1>4
            <7>2. i <= x[2]
              BY ONLY <3>1, <3>2, <4>1
            <7>3. x[1] <= m
              <8>1. PICK y \in Int : y = x[1]
                BY <4>1
              <8>2. ~(m <= y)
                BY ONLY <1>3, <5>2, <8>1
              <8>3. y <= m
                BY ONLY y \in Int, <7>1, <8>2
              <8> QED
                BY ONLY <8>1, <8>3
            <7>4. m <= x[2]
              BY ONLY <3>1, <4>1, <7>1, <7>2
            <7> QED
              BY <1>3, <7>3, <7>4
          <6> QED
            BY <1>1, <1>4, <6>1, Disjoint
        <5> QED
          BY <5>1, <5>2
      <4> QED
        BY <1>3, <1>4, <3>1, <3>2, <4>3
    <3>3. Outside(t, i)
      BY <3>2 DEF Outside
    <3> QED
      BY <1>1, <1>5, <3>1, <3>3, PieceOutside
  <2> DEFINE Z == Char \ Structural
  <2>8. ASSUME NEW i \in m + 1 .. k - 1 PROVE s[i] \in Seq(Z) /\ u[i] = s[i]
    <3>1. CASE i <= e
      <4>1. i \in p[1] + 1 .. p[2]
        BY <1>3, <1>4, <2>5, <3>1
      <4>2. s[i] = <<>> /\ u[i] = <<>>
        BY <1>1, <1>4, <1>5, <4>1, PieceWithin
      <4> QED
        BY <4>2
    <3>2. CASE ~(i <= e)
      <4>1. i \in e + 1 .. k /\ i \in e .. k - 1 /\ i \in DOMAIN t
        BY <1>1, <1>4, <2>5, <3>2
      <4>2. t[i] \in Z
        BY <2>5, <4>1 DEF Char
      <4>3. <<t[i]>> \in Seq(Z)
        BY <4>2, One
      <4> QED
        BY <2>7, <4>1, <4>3
    <3> QED
      BY <3>1, <3>2
  <2>9. PICK b : b = k - 1
    OBVIOUS
  <2>10. m \in 0 .. Len(s) /\ b \in m .. Len(s) /\ k \in 1 .. n
    BY <1>4, <1>6, <2>5, <2>9
  <2> HIDE DEF Z
  <2>11. Alike(F, G, m, b, Z)
    <3>1. Z \subseteq Char
      BY DEF Z
    <3> QED
      BY <1>6, <1>7, <1>8, <2>8, <2>9, <2>10, <3>1, SamePieces
  <2>12. PICK d \in Seq(Z) : Makes(F[b], c, v, d) /\ Makes(G[b], c, w, d)
    BY <1>12, <2>11 DEF Alike, Makes
  <2>13. d \in Seq(Char) /\ Plain(d) /\ DOMAIN d = 1 .. Len(d)
    <3>1. d \in Seq(Char)
      BY SeqMonotonic DEF Z
    <3>2. \A j \in DOMAIN d : d[j] \in Z
      OBVIOUS
    <3> QED
      BY <3>1, <3>2 DEF Plain, ToSet, Z
  <2>14. PICK mark \in Char : mark = t[k] /\ mark \in Structural
    <3>1. t[k] \in STRING
      BY <1>1, <2>10
    <3> QED
      BY <2>5, <3>1 DEF Char
  <2>15. F[k] = F[b] \o <<mark>> /\ G[k] = G[b] \o <<mark>>
    <3>1. F[k] = F[k - 1] \o s[k]
      BY <1>6, <1>7, <2>10 DEF Flattens
    <3>2. G[k] = G[k - 1] \o u[k]
      BY <1>6, <1>8, <2>10 DEF Flattens
    <3>3. k \in e + 1 .. k
      BY <1>4, <2>5
    <3> QED
      BY <2>7, <2>9, <2>14, <3>1, <3>2, <3>3
  <2>16. Starts(E, F[k]) /\ Starts(E, G[k])
    <3>1. k \in 0 .. Len(s) /\ k \in 0 .. Len(u)
      BY <1>6, <2>10
    <3> QED
      BY <1>6, <1>7, <1>8, <1>9, <3>1, BeginsAll
  <2>17. Starts(E, F[b] \o <<mark>>) /\ Starts(E, G[b] \o <<mark>>)
    BY <2>15, <2>16
  <2>18. /\ Spans(E, c, v, d) /\ E[Len(c) + Len(v) + Len(d) + 1] \in {mark}
         /\ Spans(E, c, w, d) /\ E[Len(c) + Len(w) + Len(d) + 1] \in {mark}
    BY <2>12, <2>13, <2>17, MarkIs
  <2>19. v = w
    <3>1. E[Len(c) + Len(v) + Len(d) + 1] \in Structural /\ E[Len(c) + Len(w) + Len(d) + 1] \in Structural
      BY <2>14, <2>18
    <3> QED
      BY <1>11, <2>13, <2>18, <3>1, UpToMark
  <2> QED
    BY <1>11, <2>19
<1> QED
  BY <1>14, <1>15

\* What two requests that name one resource have in a mapped field.
LEMMA NamedAlike ==
    ASSUME ResolutionInv, result = "target", Separated(Template),
           NEW q \in Requests(policy), q # NoRequest,
           \A i \in DOMAIN policy.mappings : Extract(q, policy.mappings[i].field) # Unset,
           \A name \in Names(Template) : Accepted(ValueOf(policy, q, name)),
           written = Filled(Template, ValuesOf(policy, q)),
           NEW name \in Names(Template)
    PROVE  At(q, FieldOf(policy, name)) = At(request, FieldOf(policy, name))
<1>1. TypesInv /\ MappedInv /\ FieldsInv
  BY DEF ResolutionInv
<1>2. /\ mapped = Len(policy.mappings)
      /\ \A x \in Names(Template) : x \in DOMAIN fields /\ Accepted(fields[x])
      /\ Known = ValuesOf(policy, request)
      /\ written = FlattenSeq(Pieces(Template, Known))
  BY TargetIs
<1>3. Template \in Seq(STRING) /\ q \in Messages[Root] /\ DOMAIN policy.mappings = 1 .. Len(policy.mappings)
  <2>1. q \in Messages[Root] \cup {NoRequest}
    BY <1>1, PolicyIs
  <2> QED
    BY <1>1, <2>1, PolicyIs
\* Each field is a path with a scalar at its end, set in both.
<1>4. ASSUME NEW x \in Names(Template)
      PROVE  \E path \in Seq(STRING) :
                 /\ path = FieldOf(policy, x) /\ path # <<>> /\ PathExists(path) /\ request \in Messages[Root]
                 /\ Extract(request, path) # Unset /\ Extract(q, path) # Unset
  <2>1. PICK k \in 1 .. mapped :
            /\ IsLast(k, mapped, x) /\ request \in Messages[Root]
            /\ Usable(Mapping(k)) /\ Extract(request, Mapping(k).field) # Unset
    BY <1>1, <1>2, FieldIs
  <2>2. FieldOf(policy, x) = Mapping(k).field
    BY <1>1, <1>2, <2>1, FieldOfIs
  <2>3. k \in DOMAIN policy.mappings /\ Mapping(k).field \in Seq(STRING)
    BY <1>1, <1>2, <1>3, PolicyIs
  <2>4. Extract(q, Mapping(k).field) # Unset
    BY <2>3 DEF Mapping
  <2> QED
    BY <2>1, <2>2, <2>3, <2>4 DEF Usable
<1>5. PICK others : others = ValuesOf(policy, q)
  OBVIOUS
<1>6. /\ others = [x \in Names(Template) |-> ValueOf(policy, q, x)]
      /\ Known = [x \in Names(Template) |-> ValueOf(policy, request, x)]
  BY <1>2, <1>5 DEF ValuesOf, Template
<1>7. ASSUME NEW x \in Names(Template)
      PROVE  Known[x] \in Seq(Char) /\ others[x] \in Seq(Char) /\ Plain(Known[x]) /\ Plain(others[x])
  <2>1. PICK path \in Seq(STRING) :
            /\ path = FieldOf(policy, x) /\ path # <<>> /\ PathExists(path) /\ request \in Messages[Root]
            /\ Extract(request, path) # Unset /\ Extract(q, path) # Unset
    BY <1>4
  <2>2. Extract(request, path) \in Seq(Char) /\ Extract(q, path) \in Seq(Char)
    BY <1>3, <2>1, ExtractIs
  <2>3. Known[x] = Extract(request, path) /\ others[x] = Extract(q, path)
    BY <1>6, <2>1 DEF ValueOf
  <2>4. Accepted(Known[x]) /\ Accepted(others[x])
    <3>1. Known[x] = fields[x]
      BY <1>2 DEF Known
    <3>2. others[x] = ValueOf(policy, q, x)
      BY <1>6
    <3> QED
      BY <1>2, <3>1, <3>2
  <2> QED
    BY <2>2, <2>3, <2>4, SegmentAssumption DEF Accepted, Plain
<1>8. Known \in [Names(Template) -> Seq(Char)] /\ others \in [Names(Template) -> Seq(Char)]
  BY <1>6, <1>7
<1>9. FlattenSeq(Pieces(Template, Known)) = FlattenSeq(Pieces(Template, others))
  BY <1>2, <1>5 DEF Filled
<1>10. \A x \in Names(Template) : Plain(Known[x]) /\ Plain(others[x])
  BY <1>7
<1>11. Known[name] = others[name]
  <2>1. Separated(Template)
    OBVIOUS
  <2> QED
    BY ONLY <1>3, <1>8, <1>9, <1>10, <2>1, name \in Names(Template), FillingTells
<1>12. PICK path \in Seq(STRING) :
           /\ path = FieldOf(policy, name) /\ path # <<>> /\ PathExists(path) /\ request \in Messages[Root]
           /\ Extract(request, path) # Unset /\ Extract(q, path) # Unset
  BY <1>4
<1>13. PICK type, v, w : type = TypeAt(path) /\ v = At(request, path) /\ w = At(q, path)
  OBVIOUS
<1>14. /\ type \in Scalars /\ Fits(type, v) /\ Fits(type, w) /\ v # Unset /\ w # Unset
       /\ Extract(request, path) = TextOf(type, v) /\ Extract(q, path) = TextOf(type, w)
  BY <1>3, <1>12, <1>13, ExtractIs
<1>15. TextOf(type, v) = TextOf(type, w)
  BY <1>6, <1>11, <1>12, <1>14 DEF ValueOf
<1>16. v = w
  BY <1>14, <1>15, TextTells
<1> QED
  BY <1>12, <1>13, <1>16

-----------------------------------------------------------------------------
(* The theorems.                                                           *)

\* ResolveResourceWithFields: the resource is the template with every placeholder
\* replaced by what the last mapping of its name reads, once, and everything else as it is.
THEOREM ResourceIsFilledOnce == Spec => []FilledOnce
<1>1. ASSUME ResolutionInv PROVE FilledOnce
  <2> USE <1>1 DEF ResolutionInv
  <2>1. PICK names : names = Names(Template)
    OBVIOUS
  <2>2. PICK mappedNames : mappedNames = {policy.mappings[i].placeholder : i \in DOMAIN policy.mappings}
    OBVIOUS
  <2>3. mapped = Len(policy.mappings) => DOMAIN fields = mappedNames
    BY <2>2, PolicyIs DEF FieldsInv, Mapping
  <2>4. ASSUME result = "target"
        PROVE  names \subseteq mappedNames /\ written = Filled(policy.resource, ValuesOf(policy, request))
    BY <2>1, <2>3, <2>4, TargetIs DEF Filled, Template
  <2>5. ASSUME result = "broken", mapped > 0, mapped = Len(policy.mappings) PROVE ~(names \subseteq mappedNames)
    <3>1. \E name \in Names(Template) : name \notin DOMAIN fields
      <4>1. mapped # 0 /\ ~(mapped < Len(policy.mappings))
        BY <2>5, PolicyIs
      <4>2. PICK p : Stopper(p) /\ NameIn(Template, p) \notin DOMAIN fields
        BY <2>5, <4>1 DEF StopInv
      <4> QED
        BY <4>2 DEF Stopper, Names
    <3> QED
      BY <2>1, <2>3, <2>5, <3>1
  <2> QED
    BY <2>1, <2>2, <2>4, <2>5 DEF FilledOnce, Template
<1>2. ResolutionInv => FilledOnce
  BY <1>1
<1> QED
  BY <1>2, ResolutionInvHolds, PTL

\* ResourceValueError: a denial is for what the request leaves unset or for a value that
\* is no segment, and only of a path every request of the type has, with no list on it.
THEOREM DenialsAreOfTheRequest == Spec => []DenialIsOfTheRequest
<1>1. ASSUME ResolutionInv, result = "unsafe" PROVE DenialIsOfTheRequest
  <2> USE <1>1 DEF ResolutionInv
  <2>1. mapped \in Nat /\ Len(policy.mappings) \in Nat /\ mapped <= Len(policy.mappings) /\ DOMAIN policy.mappings = 1 .. Len(policy.mappings)
    BY PolicyIs DEF TypesInv
  <2>2. ASSUME NEW i \in 1 .. Len(policy.mappings), Usable(Mapping(i)) PROVE Readable(Mapping(i).field)
    BY <2>2, PolicyIs, EndsAtScalar DEF Usable, Readable, PathExists, Walks
  <2>3. \A i \in 1 .. mapped : Usable(Mapping(i)) /\ i \in 1 .. Len(policy.mappings)
    BY <2>1 DEF MappedInv
  <2>4. CASE /\ mapped < Len(policy.mappings) /\ Usable(Mapping(mapped + 1))
             /\ Extract(request, Mapping(mapped + 1).field) = Unset
    <3>1. \A i \in DOMAIN policy.mappings : i <= mapped + 1 => i \in 1 .. mapped \/ i = mapped + 1
      BY <2>1
    <3>2. \A i \in DOMAIN policy.mappings : i <= mapped + 1 => Readable(policy.mappings[i].field)
      BY <2>1, <2>2, <2>3, <2>4, <3>1 DEF Mapping
    <3>3. \E i \in DOMAIN policy.mappings : i = mapped + 1 /\ Extract(request, policy.mappings[i].field) = Unset
      BY <2>1, <2>4 DEF Mapping
    <3> QED
      BY <2>4, <3>2, <3>3 DEF DenialIsOfTheRequest, Usable
  <2>5. CASE mapped = Len(policy.mappings) /\ \E name \in Names(Template) : name \in DOMAIN fields /\ ~Accepted(fields[name])
    <3>1. PICK name \in Names(Template) : name \in DOMAIN fields /\ ~Accepted(fields[name])
      BY <2>5
    <3>2. PICK k \in 1 .. mapped : /\ IsLast(k, mapped, name) /\ Usable(Mapping(k))
                                   /\ fields[name] = Extract(request, Mapping(k).field)
      BY <3>1, FieldIs
    <3>3. ~Accepted(ValueOf(policy, request, name))
      BY <2>5, <3>1, <3>2, FieldOfIs DEF ValueOf
    <3>4. \A i \in DOMAIN policy.mappings : i <= mapped + 1 => Readable(policy.mappings[i].field)
      BY <2>1, <2>2, <2>3, <2>5 DEF Mapping
    <3>5. \E x \in Names(policy.resource) : x \in DOMAIN fields /\ ~Accepted(ValueOf(policy, request, x))
      BY <3>1, <3>3 DEF Template
    <3> QED
      BY <3>2, <3>4, <3>5 DEF DenialIsOfTheRequest, Usable
  <2>6. ASSUME NEW p, Stopper(p), NameIn(Template, p) \in DOMAIN fields
        PROVE  \E name \in Names(Template) : name \in DOMAIN fields /\ ~Accepted(fields[name])
    BY <2>6 DEF Stopper, Fills, Names
  <2> QED
    BY <1>1, <2>4, <2>5, <2>6 DEF StopInv
<1>2. ResolutionInv => DenialIsOfTheRequest
  BY <1>1 DEF DenialIsOfTheRequest
<1> QED
  BY <1>2, ResolutionInvHolds, PTL

\* validateResourceValue: no value is empty or brings a separator with it, so the resource
\* has those of the template and no other, and something in every placeholder.
THEOREM StructureIsKept == Spec => []KeepsStructure
<1>1. ASSUME ResolutionInv, result = "target"
      PROVE  /\ \A name \in Names(policy.resource) : ValueOf(policy, request, name) # <<>>
             /\ Structure(written) =
                    Structure(Filled(policy.resource, [name \in Names(policy.resource) |-> <<"x">>]))
  <2>1. TypesInv /\ MappedInv /\ FieldsInv
    BY <1>1 DEF ResolutionInv
  <2>2. PICK xs : xs = [name \in Names(Template) |-> <<"x">>]
    OBVIOUS
  <2>3. <<"x">> \in Seq(Char) /\ Plain(<<"x">>)
    <3>1. "x" \in Char /\ "x" \notin Structural
      BY DEF Char, Structural
    <3> QED
      BY <3>1, One DEF Plain, ToSet
  <2>4. xs \in [Names(Template) -> Seq(Char)]
    BY <2>2, <2>3
  <2>5. PICK s, u : s = Pieces(Template, Known) /\ u = Pieces(Template, xs)
    OBVIOUS
  <2>6. /\ s \in Seq(Seq(Char)) /\ u \in Seq(Seq(Char)) /\ Len(s) = Len(Template) /\ Len(u) = Len(Template)
        /\ Template \in Seq(STRING)
    BY <2>1, <2>4, <2>5, KnownIs, PiecesAre, PolicyIs
  <2>7. ASSUME NEW i \in 1 .. Len(s), s[i] # u[i] PROVE Plain(s[i]) /\ Plain(u[i])
    <3>1. \E p \in Placeholders(Template) : s[i] = Known[NameIn(Template, p)] /\ u[i] = xs[NameIn(Template, p)]
      BY <2>5, <2>6, <2>7, PiecesDiffer
    <3>2. PICK name \in Names(Template) : s[i] = Known[name] /\ u[i] = xs[name]
      BY <3>1 DEF Names
    <3>3. Accepted(Known[name])
      BY <1>1, TargetIs DEF Known
    <3>4. Plain(s[i])
      BY <3>2, <3>3, SegmentAssumption DEF Accepted, Plain
    <3>5. Plain(u[i])
      BY <2>2, <2>3, <3>2
    <3> QED
      BY <3>4, <3>5
  <2>8. Structure(FlattenSeq(s)) = Structure(FlattenSeq(u))
    BY <2>6, <2>7, SameStructure
  <2>9. written = FlattenSeq(s)
    BY <1>1, <2>5, TargetIs
  <2>10. Filled(policy.resource, [name \in Names(policy.resource) |-> <<"x">>]) = FlattenSeq(u)
    BY <2>2, <2>5 DEF Filled, Template
  <2>11. ASSUME NEW name \in Names(Template) PROVE ValueOf(policy, request, name) # <<>>
    <3>1. name \in DOMAIN fields /\ Accepted(fields[name])
      BY <1>1, <2>11, TargetIs
    <3>2. Known[name] = fields[name]
      BY <2>11, <3>1 DEF Known
    <3>3. Known[name] = ValueOf(policy, request, name)
      BY <1>1, <2>11, TargetIs DEF ValuesOf, Template
    <3> QED
      BY <3>1, <3>2, <3>3 DEF Accepted
  <2> QED
    BY <2>8, <2>9, <2>10, <2>11 DEF Template
<1>2. ResolutionInv => KeepsStructure
  BY <1>1 DEF KeepsStructure
<1> QED
  BY <1>2, ResolutionInvHolds, PTL

\* scalarString and validateResourceValue: the text of a value is its own and has no
\* separator in it, so where the template has one between its placeholders no two requests
\* with different values in them name one resource.
THEOREM ValuesAreTold == Spec => []NamesOneResource
<1>1. ASSUME ResolutionInv, result = "target", Separated(Template),
             NEW q \in Requests(policy) \ {NoRequest},
             \A i \in DOMAIN policy.mappings : Extract(q, policy.mappings[i].field) # Unset,
             \A name \in Names(Template) : Accepted(ValueOf(policy, q, name)),
             written = Filled(Template, ValuesOf(policy, q))
      PROVE  \A name \in Names(Template) : At(q, FieldOf(policy, name)) = At(request, FieldOf(policy, name))
  BY <1>1, NamedAlike
<1>2. ResolutionInv => NamesOneResource
  BY <1>1 DEF NamesOneResource, Separated, Template
<1> QED
  BY <1>2, ResolutionInvHolds, PTL

\* ResolveResourceWithFields: what ends it, and how, is the first trouble with the policy
\* for the request, in the order of the mappings and then of the template.
THEOREM FirstTroubleIsDecisive == Spec => []FirstTroubleDecides
<1>1. ResolutionInv => FirstTroubleDecides
  BY OutcomeIs DEF FirstTroubleDecides
<1> QED
  BY <1>1, ResolutionInvHolds, PTL

\* What a policy resolves to for a request.
Resolved(p, q) == IF Outcome(p, q) = "target" THEN Filled(p.resource, ValuesOf(p, q)) ELSE Outcome(p, q)

\* The interceptors: resolution ends with this and with nothing else, whatever it went through.
THEOREM ResolvesToOne ==
    Spec => [](stage = "over" => (IF result = "target" THEN written ELSE result) = Resolved(policy, request))
<1>1. ASSUME ResolutionInv, stage = "over"
      PROVE  (IF result = "target" THEN written ELSE result) = Resolved(policy, request)
  <2>1. result = Outcome(policy, request)
    BY <1>1, OutcomeIs
  <2>2. result = "target" => written = Filled(policy.resource, ValuesOf(policy, request))
    BY <1>1, TargetIs DEF Filled, Template
  <2> QED
    BY <2>1, <2>2 DEF Resolved
<1>2. ResolutionInv => (stage = "over" => (IF result = "target" THEN written ELSE result) = Resolved(policy, request))
  BY <1>1
<1> QED
  BY <1>2, ResolutionInvHolds, PTL

\* Without field_mappings the request is not looked at: a policy resolves alike for every one and for
\* none, which is what ResolveAssumption of InterceptorChain says of it.
THEOREM ResolvesAlikeUnmapped ==
    ASSUME NEW p, p.mappings = <<>>, NEW q1, NEW q2
    PROVE  Resolved(p, q1) = Resolved(p, q2)
<1>1. Troubled(p, q1) = {} /\ Troubled(p, q2) = {}
  BY DEF Troubled
<1>2. Unmapped(p) = Names(p.resource)
  BY DEF Unmapped
<1>3. \A x \in Placeholders(p.resource) : NameIn(p.resource, x) \in Unmapped(p)
  BY <1>2 DEF Names
<1>4. RefusedAt(p, q1) = RefusedAt(p, q2)
  BY <1>3 DEF RefusedAt, Refused
<1>5. Outcome(p, q1) = Outcome(p, q2)
  BY <1>1, <1>4 DEF Outcome
<1>6. ASSUME Outcome(p, q1) = "target" PROVE ValuesOf(p, q1) = ValuesOf(p, q2)
  <2>1. RefusedAt(p, q1) = {}
    BY <1>1, <1>6 DEF Outcome, Blame
  <2>2. Placeholders(p.resource) = {}
    <3> SUFFICES ASSUME NEW x \in Placeholders(p.resource) PROVE FALSE
      OBVIOUS
    <3>1. x[1] \in DOMAIN p.resource /\ Refused(p, q1, NameIn(p.resource, x))
      BY <1>3 DEF Refused, Placeholders
    <3> QED
      BY <2>1, <3>1 DEF RefusedAt
  <2>3. Names(p.resource) = {}
    BY <2>2 DEF Names
  <2> QED
    BY <2>3 DEF ValuesOf
<1> QED
  BY <1>5, <1>6 DEF Resolved
=============================================================================
