---------------------------- MODULE TextTheorems ----------------------------
(***************************************************************************)
(* Facts about naturals and sequences that the proofs about texts share:   *)
(* least elements, induction, and a text flattened from its pieces.        *)
(***************************************************************************)
EXTENDS Integers, SequencesExt, SequenceTheorems, WellFoundedInduction, TLAPS

Less == {x \in Nat \X Nat : x[1] < x[2]}

LEMMA LessWellFounded == IsWellFoundedOn(Less, Nat)
BY NatLessThanWellFounded DEF OpToRel, Less

\* The least of a set of naturals is in it.
LEMMA MinIs ==
    ASSUME NEW I, I \subseteq Nat, I # {}
    PROVE  Min(I) \in I /\ \A i \in I : Min(I) <= i
<1>1. PICK least \in I : \A i \in I : <<i, least>> \notin Less
  BY LessWellFounded, WFMin
<1>2. ASSUME NEW i \in I PROVE least <= i
  <2>1. least \in Nat /\ i \in Nat
    OBVIOUS
  <2>2. ~(i < least)
    BY <1>1, <2>1 DEF Less
  <2> QED
    BY <2>1, <2>2
<1> QED
  BY <1>2 DEF Min

\* And the greatest, if they are bounded.
LEMMA MaxIs ==
    ASSUME NEW n \in Nat, NEW I, I \subseteq 0 .. n, I # {}
    PROVE  Max(I) \in I /\ \A i \in I : i <= Max(I)
<1>1. PICK J : J = {n - i : i \in I}
  OBVIOUS
<1>2. J \subseteq Nat /\ J # {}
  <2>1. \A i \in I : i \in 0 .. n /\ n - i \in Nat
    OBVIOUS
  <2> QED
    BY <1>1, <2>1
<1>3. Min(J) \in J /\ \A j \in J : Min(J) <= j
  BY <1>2, MinIs
<1>4. PICK m \in I : Min(J) = n - m
  BY <1>1, <1>3
<1>5. \A i \in I : i \in 0 .. n /\ m \in 0 .. n /\ n - m <= n - i
  BY <1>1, <1>3, <1>4
<1>6. \A i \in I : m >= i /\ i <= m
  BY <1>5
<1>7. \E x \in I : \A y \in I : x >= y
  BY <1>6
<1>8. Max(I) \in I /\ \A y \in I : Max(I) >= y
  BY <1>7 DEF Max
<1>9. \A y \in I : y \in 0 .. n
  OBVIOUS
<1>10. PICK k \in 0 .. n : k = Max(I)
  BY <1>8, <1>9
<1> QED
  BY <1>8, <1>9, <1>10

\* A set with 0 and the successor of each of its elements has every natural up to n.
LEMMA UpTo ==
    ASSUME NEW n \in Nat, NEW P, 0 \in P, \A i \in 0 .. n - 1 : i \in P => i + 1 \in P
    PROVE  \A i \in 0 .. n : i \in P
<1> DEFINE I == {i \in 0 .. n : i \notin P}
<1>1. SUFFICES ASSUME I # {} PROVE FALSE
  OBVIOUS
<1>2. I \subseteq Nat
  OBVIOUS
<1> DEFINE m == Min(I)
<1>3. m \in I /\ \A i \in I : m <= i
  <2> HIDE DEF I
  <2> QED
    BY <1>1, <1>2, MinIs
<1> HIDE DEF m
<1>4. m \in 1 .. n /\ m \notin P
  BY <1>3
<1>5. m - 1 \in 0 .. n - 1 /\ m - 1 \notin I
  BY <1>3, <1>4
<1>6. m - 1 \in P
  BY <1>4, <1>5
<1> QED
  BY <1>4, <1>5, <1>6

\* A sequence of one or two elements.
LEMMA One ==
    ASSUME NEW S, NEW x \in S
    PROVE  <<x>> \in Seq(S) /\ <<x>> # <<>> /\ DOMAIN <<x>> = {1} /\ Len(<<x>>) = 1 /\ <<x>>[1] = x
<1>1. <<x>> \in Seq(S)
  OBVIOUS
<1>2. <<x>> # <<>> /\ DOMAIN <<x>> = {1} /\ Len(<<x>>) = 1 /\ <<x>>[1] = x
  OBVIOUS
<1> QED
  BY <1>1, <1>2

LEMMA Two ==
    ASSUME NEW S, NEW x \in S, NEW y \in S
    PROVE  /\ <<x, y>> \in Seq(S) /\ <<x, y>> # <<>> /\ DOMAIN <<x, y>> = {1, 2} /\ Len(<<x, y>>) = 2
           /\ <<x, y>>[1] = x /\ <<x, y>>[2] = y
<1>1. <<x, y>> \in Seq(S)
  OBVIOUS
<1>2. <<x, y>> # <<>> /\ DOMAIN <<x, y>> = {1, 2} /\ Len(<<x, y>>) = 2
  OBVIOUS
<1>3. <<x, y>>[1] = x /\ <<x, y>>[2] = y
  OBVIOUS
<1> QED
  BY <1>1, <1>2, <1>3

\* One sequence and another.
LEMMA Joined ==
    ASSUME NEW S, NEW a \in Seq(S), NEW b \in Seq(S), NEW c, c = a \o b
    PROVE  /\ Len(a) \in Nat /\ Len(b) \in Nat
           /\ c \in Seq(S) /\ Len(c) = Len(a) + Len(b)
           /\ \A k \in 1 .. Len(a) : c[k] = a[k]
           /\ \A k \in 1 .. Len(b) : c[Len(a) + k] = b[k]
<1>1. Len(a) \in Nat /\ Len(b) \in Nat
  OBVIOUS
<1>2. c \in Seq(S) /\ Len(c) = Len(a) + Len(b)
  OBVIOUS
<1>3. \A k \in 1 .. Len(a) : c[k] = a[k]
  OBVIOUS
<1>4. \A k \in 1 .. Len(b) : c[Len(a) + k] = b[k]
  OBVIOUS
<1> QED
  BY <1>1, <1>2, <1>3, <1>4

\* A sequence between another and one element.
LEMMA Enclosed ==
    ASSUME NEW S, NEW a \in Seq(S), NEW b \in Seq(S), NEW x \in S, NEW c, c = a \o b \o <<x>>
    PROVE  /\ Len(a) \in Nat /\ Len(b) \in Nat /\ Len(c) = Len(a) + Len(b) + 1
           /\ \A k \in 1 .. Len(b) : c[Len(a) + k] = b[k]
           /\ c[Len(a) + Len(b) + 1] = x
<1>1. Len(a) \in Nat /\ Len(b) \in Nat
  OBVIOUS
<1>2. Len(c) = Len(a) + Len(b) + 1
  OBVIOUS
<1>3. \A k \in 1 .. Len(b) : c[Len(a) + k] = b[k]
  OBVIOUS
<1>4. c[Len(a) + Len(b) + 1] = x
  OBVIOUS
<1> QED
  BY <1>1, <1>2, <1>3, <1>4

\* F[i] is the text of the first i pieces of s.
Flattens(F, s) ==
    /\ F[0] = <<>>
    /\ \A i \in 1 .. Len(s) : F[i] = F[i - 1] \o s[i]
    /\ FlattenSeq(s) = F[Len(s)]

LEMMA Flattening ==
    ASSUME NEW S, NEW s \in Seq(Seq(S))
    PROVE  \E F \in [0 .. Len(s) -> Seq(S)] : Flattens(F, s)
<1> USE DEF Flattens
<1> DEFINE n == Len(s)
           Joins(g, k) == \A i \in 1 .. k : g[i] = IF i = 1 THEN s[i] ELSE g[i - 1] \o s[i]
<1>1. n \in Nat /\ \A i \in 1 .. n : s[i] \in Seq(S)
  OBVIOUS
<1>2. CASE n = 0
  <2>1. s = <<>> /\ FlattenSeq(s) = <<>>
    BY <1>2 DEF FlattenSeq
  <2> DEFINE F == [i \in 0 .. n |-> <<>>]
  <2>2. F \in [0 .. n -> Seq(S)] /\ F[0] = <<>> /\ F[n] = <<>> /\ 1 .. n = {}
    BY <1>2
  <2> HIDE DEF F
  <2> QED
    BY <2>1, <2>2
<1>3. CASE n # 0
  <2> DEFINE P == {k \in Nat : \E g \in [1 .. k -> Seq(S)] : Joins(g, k)}
  <2>1. 0 \in P
    <3>1. [i \in 1 .. 0 |-> <<>>] \in [1 .. 0 -> Seq(S)]
      OBVIOUS
    <3>2. Joins([i \in 1 .. 0 |-> <<>>], 0)
      OBVIOUS
    <3> QED
      BY <3>1, <3>2
  <2>2. ASSUME NEW k \in 0 .. n - 1, k \in P PROVE k + 1 \in P
    <3>1. PICK g \in [1 .. k -> Seq(S)] : Joins(g, k)
      BY <2>2
    <3> DEFINE h == [i \in 1 .. k + 1 |-> IF i <= k THEN g[i]
                                         ELSE IF k = 0 THEN s[1] ELSE g[k] \o s[k + 1]]
    <3>2. h \in [1 .. k + 1 -> Seq(S)]
      BY <1>1, <3>1
    <3>3. Joins(h, k + 1)
      <4> SUFFICES ASSUME NEW i \in 1 .. k + 1
                   PROVE  h[i] = IF i = 1 THEN s[i] ELSE h[i - 1] \o s[i]
        OBVIOUS
      <4>1. CASE i <= k
        <5>1. h[i] = g[i] /\ i \in 1 .. k
          BY <4>1
        <5>2. i # 1 => h[i - 1] = g[i - 1]
          BY <4>1
        <5> QED
          BY <3>1, <5>1, <5>2
      <4>2. CASE i = k + 1
        BY <4>2
      <4> QED
        BY <4>1, <4>2
    <3> HIDE DEF h, Joins
    <3> QED
      BY <3>2, <3>3
  <2>3. n \in P
    <3>1. \A k \in 0 .. n - 1 : k \in P => k + 1 \in P
      BY <2>2
    <3> HIDE DEF P, n
    <3>2. \A i \in 0 .. n : i \in P
      BY <1>1, <2>1, <3>1, UpTo
    <3> QED
      BY <1>1, <3>2
  <2>4. PICK g \in [1 .. n -> Seq(S)] : Joins(g, n)
    BY <2>3
  <2> DEFINE flatten == CHOOSE f : f = [i \in 1 .. n |-> IF i = 1 THEN s[i] ELSE f[i - 1] \o s[i]]
  <2>5. g = [i \in 1 .. n |-> IF i = 1 THEN s[i] ELSE g[i - 1] \o s[i]]
    BY <2>4
  <2>6. flatten = [i \in 1 .. n |-> IF i = 1 THEN s[i] ELSE flatten[i - 1] \o s[i]]
    BY <2>5
  <2>7. FlattenSeq(s) = flatten[n]
    BY <1>3 DEF FlattenSeq
  <2> HIDE DEF flatten
  <2> DEFINE Q == {k \in Nat : k = 0 \/ flatten[k] \in Seq(S)}
  <2>8. \A i \in 0 .. n : i \in Q
    <3>1. 0 \in Q
      OBVIOUS
    <3>2. ASSUME NEW k \in 0 .. n - 1, k \in Q PROVE k + 1 \in Q
      <4>1. flatten[k + 1] = IF k + 1 = 1 THEN s[k + 1] ELSE flatten[k] \o s[k + 1]
        <5>1. k + 1 \in 1 .. n /\ (k + 1) - 1 = k
          BY <1>1
        <5> QED
          BY <2>6, <5>1
      <4>2. k + 1 \in Nat /\ s[k + 1] \in Seq(S) /\ (k + 1 = 1 <=> k = 0)
        BY <1>1
      <4>3. flatten[k + 1] \in Seq(S)
        BY <3>2, <4>1, <4>2
      <4> QED
        BY <4>2, <4>3
    <3> HIDE DEF Q
    <3> QED
      BY <1>1, <3>1, <3>2, UpTo
  <2> DEFINE F == [i \in 0 .. n |-> IF i = 0 THEN <<>> ELSE flatten[i]]
  <2>9. F \in [0 .. n -> Seq(S)]
    BY <2>8
  <2>10. F[0] = <<>> /\ FlattenSeq(s) = F[n]
    BY <1>1, <1>3, <2>7
  <2>11. ASSUME NEW i \in 1 .. n PROVE F[i] = F[i - 1] \o s[i]
    <3>1. flatten[i] = IF i = 1 THEN s[i] ELSE flatten[i - 1] \o s[i]
      BY <2>6
    <3>2. i \in Nat /\ i # 0 /\ i - 1 \in 0 .. n /\ (i - 1 = 0 <=> i = 1) /\ s[i] \in Seq(S)
      BY <1>1
    <3>3. s[i] = <<>> \o s[i]
      BY <3>2
    <3>4. F[i] = flatten[i] /\ F[i - 1] = IF i = 1 THEN <<>> ELSE flatten[i - 1]
      BY <3>2
    <3> HIDE DEF F
    <3> QED
      BY <3>1, <3>3, <3>4
  <2> QED
    BY <2>9, <2>10, <2>11
<1> QED
  BY <1>2, <1>3

\* The text of some pieces is the beginning of that of more.
Starts(text, start) ==
    Len(start) \in Nat /\ Len(start) <= Len(text) /\ \A k \in 1 .. Len(start) : text[k] = start[k]

LEMMA Begins ==
    ASSUME NEW S, NEW s \in Seq(Seq(S)), NEW F \in [0 .. Len(s) -> Seq(S)], Flattens(F, s),
           NEW n \in 0 .. Len(s), NEW m \in n .. Len(s)
    PROVE  Starts(F[m], F[n])
<1> DEFINE Begun(j) == Len(F[n]) <= Len(F[j]) /\ \A k \in 1 .. Len(F[n]) : F[j][k] = F[n][k]
           P == {d \in Nat : n + d <= Len(s) => Begun(n + d)}
<1>1. Len(s) \in Nat /\ n \in Nat /\ m \in Nat /\ \A i \in 0 .. Len(s) : F[i] \in Seq(S) /\ Len(F[i]) \in Nat
  OBVIOUS
<1>2. 0 \in P
  BY <1>1
<1>3. ASSUME NEW d \in 0 .. m - n - 1, d \in P PROVE d + 1 \in P
  <2>1. SUFFICES ASSUME n + (d + 1) <= Len(s) PROVE Begun(n + (d + 1))
    BY <1>1
  <2> DEFINE j == n + d
  <2>2. j \in 0 .. Len(s) /\ j + 1 \in 1 .. Len(s) /\ n + (d + 1) = j + 1 /\ (j + 1) - 1 = j
    BY <1>1, <2>1
  <2>3. Begun(j)
    BY <1>3, <2>2
  <2> HIDE DEF j
  <2>4. F[j + 1] = F[j] \o s[j + 1] /\ s[j + 1] \in Seq(S)
    <3>1. F[j + 1] = F[(j + 1) - 1] \o s[j + 1]
      BY <2>2 DEF Flattens
    <3> QED
      BY <2>2, <3>1
  <2>5. Len(F[j]) <= Len(F[j + 1]) /\ \A k \in 1 .. Len(F[j]) : F[j + 1][k] = F[j][k]
    BY <1>1, <2>2, <2>4
  <2>6. Begun(j + 1)
    BY <1>1, <2>2, <2>3, <2>5
  <2> QED
    BY <2>2, <2>6
<1>4. m - n \in P
  <2>1. \A d \in 0 .. m - n - 1 : d \in P => d + 1 \in P
    BY <1>3
  <2> HIDE DEF P
  <2>2. m - n \in Nat
    BY <1>1
  <2>3. \A d \in 0 .. m - n : d \in P
    BY <1>2, <2>1, <2>2, UpTo
  <2> QED
    BY <2>2, <2>3
<1>5. n + (m - n) = m
  BY <1>1
<1> QED
  BY <1>1, <1>4, <1>5 DEF Starts

LEMMA BeginsAll ==
    ASSUME NEW S, NEW s \in Seq(Seq(S)), NEW F \in [0 .. Len(s) -> Seq(S)], Flattens(F, s),
           NEW n \in 0 .. Len(s)
    PROVE  Starts(FlattenSeq(s), F[n])
<1>1. Len(s) \in Nat
  OBVIOUS
<1> DEFINE m == Len(s)
<1>2. m \in n .. Len(s) /\ FlattenSeq(s) = F[m]
  BY <1>1 DEF Flattens
<1> HIDE DEF m
<1>3. Starts(F[m], F[n])
  BY <1>2, Begins
<1> QED
  BY <1>2, <1>3

\* Pieces that differ in a place both have.
Apart(s, t) ==
    /\ \A i \in DOMAIN s : s[i] # <<>>
    /\ \A i \in DOMAIN t : t[i] # <<>>
    /\ \A i \in DOMAIN s, j \in DOMAIN t :
           s[i] # t[j] => \E k \in DOMAIN s[i] \cap DOMAIN t[j] : s[i][k] # t[j][k]

\* The text of such pieces says which they are.
LEMMA PrefixCode ==
    ASSUME NEW S, NEW s \in Seq(Seq(S)), NEW t \in Seq(Seq(S)),
           FlattenSeq(s) = FlattenSeq(t), Apart(s, t)
    PROVE  s = t
<1> USE DEF Apart
<1>1. PICK F \in [0 .. Len(s) -> Seq(S)] : Flattens(F, s)
  BY Flattening
<1>2. PICK G \in [0 .. Len(t) -> Seq(S)] : Flattens(G, t)
  BY Flattening
<1>3. /\ Len(s) \in Nat /\ \A i \in 1 .. Len(s) : s[i] \in Seq(S)
      /\ Len(t) \in Nat /\ \A i \in 1 .. Len(t) : t[i] \in Seq(S)
  OBVIOUS
<1> DEFINE E == FlattenSeq(s)
<1>4. E = F[Len(s)] /\ E = G[Len(t)]
  BY <1>1, <1>2 DEF Flattens
\* After as many pieces of the one as of the other, the texts are the same.
<1> DEFINE Same(n) == n <= Len(t) /\ F[n] = G[n] /\ \A i \in 1 .. n : s[i] = t[i]
           P == {n \in Nat : n <= Len(s) => Same(n)}
<1>5. 0 \in P
  BY <1>1, <1>2, <1>3 DEF Flattens
<1>6. ASSUME NEW n \in 0 .. Len(s) - 1, n \in P PROVE n + 1 \in P
  <2>1. n \in 0 .. Len(s) /\ n + 1 \in 1 .. Len(s) /\ (n + 1) - 1 = n
    BY <1>3
  <2>2. n <= Len(t) /\ F[n] = G[n] /\ \A i \in 1 .. n : s[i] = t[i]
    BY <1>6, <2>1
  <2> DEFINE L == Len(F[n])
             x == s[n + 1]
             y == t[n + 1]
  <2>3. /\ F[n] \in Seq(S) /\ L \in Nat
        /\ x \in Seq(S) /\ Len(x) \in Nat \ {0} /\ DOMAIN x = 1 .. Len(x)
        /\ F[n + 1] = F[n] \o x
    <3>1. x \in Seq(S) /\ x # <<>>
      BY <1>3, <2>1
    <3> HIDE DEF x
    <3>2. F[n] \in Seq(S)
      BY <2>1
    <3>3. F[n + 1] = F[n] \o x
      BY <1>1, <2>1 DEF Flattens, x
    <3> QED
      BY <3>1, <3>2, <3>3
  <2> HIDE DEF x
  <2>4. L + Len(x) = Len(F[n + 1]) /\ \A k \in 1 .. Len(x) : F[n + 1][L + k] = x[k]
    BY <2>3
  <2>5. Len(F[n + 1]) <= Len(E) /\ \A k \in 1 .. Len(F[n + 1]) : E[k] = F[n + 1][k]
    <3> DEFINE j == n + 1
    <3>1. j \in 0 .. Len(s)
      BY <2>1
    <3> HIDE DEF j
    <3>2. Starts(FlattenSeq(s), F[j])
      BY <1>1, <3>1, BeginsAll
    <3> QED
      BY <3>2 DEF j, Starts
  <2>6. \A k \in 1 .. Len(x) : E[L + k] = x[k]
    <3>1. \A k \in 1 .. Len(x) : L + k \in 1 .. Len(F[n + 1])
      BY <2>3, <2>4
    <3> HIDE DEF L, E
    <3> QED
      BY <2>4, <2>5, <3>1
  <2>7. n + 1 <= Len(t)
    <3>1. CASE n = Len(t)
      BY <1>4, <2>2, <2>3, <2>4, <2>5, <3>1
    <3> QED
      BY <1>3, <2>1, <2>2, <3>1
  <2>8. n + 1 \in 1 .. Len(t) /\ n \in 0 .. Len(t)
    BY <1>3, <2>1, <2>7
  <2>9. /\ y \in Seq(S) /\ Len(y) \in Nat \ {0} /\ DOMAIN y = 1 .. Len(y)
        /\ G[n + 1] = F[n] \o y
    <3>1. y \in Seq(S) /\ y # <<>>
      BY <1>3, <2>8
    <3> HIDE DEF y
    <3>2. G[n + 1] = F[n] \o y
      BY <1>2, <2>1, <2>2, <2>8 DEF Flattens, y
    <3> QED
      BY <3>1, <3>2
  <2> HIDE DEF y
  <2>10. L + Len(y) = Len(G[n + 1]) /\ \A k \in 1 .. Len(y) : G[n + 1][L + k] = y[k]
    BY <2>3, <2>9
  <2>11. Len(G[n + 1]) <= Len(E) /\ \A k \in 1 .. Len(G[n + 1]) : E[k] = G[n + 1][k]
    <3> DEFINE j == n + 1
    <3>1. j \in 0 .. Len(t)
      BY <2>8
    <3> HIDE DEF j
    <3>2. Starts(FlattenSeq(t), G[j])
      BY <1>2, <3>1, BeginsAll
    <3> QED
      BY <3>2 DEF j, Starts
  <2>12. \A k \in 1 .. Len(y) : E[L + k] = y[k]
    <3>1. \A k \in 1 .. Len(y) : L + k \in 1 .. Len(G[n + 1])
      BY <2>3, <2>9, <2>10
    <3> HIDE DEF L, E
    <3> QED
      BY <2>10, <2>11, <3>1
  <2>13. x = y
    <3>1. \A k \in DOMAIN x \cap DOMAIN y : x[k] = y[k]
      BY <2>3, <2>6, <2>9, <2>12
    <3>2. x # y => \E k \in DOMAIN x \cap DOMAIN y : x[k] # y[k]
      <4>1. n + 1 \in DOMAIN s /\ n + 1 \in DOMAIN t
        BY <2>1, <2>8
      <4>2. s[n + 1] # t[n + 1] =>
                \E k \in DOMAIN s[n + 1] \cap DOMAIN t[n + 1] : s[n + 1][k] # t[n + 1][k]
        BY <4>1
      <4> QED
        BY <4>2 DEF x, y
    <3> QED
      BY <3>1, <3>2
  <2>14. F[n + 1] = G[n + 1]
    BY <2>3, <2>9, <2>13
  <2>15. \A i \in 1 .. n + 1 : s[i] = t[i]
    <3>1. \A i \in 1 .. n + 1 : i \in 1 .. n \/ i = n + 1
      BY <2>1
    <3> QED
      BY <2>2, <2>13, <3>1 DEF x, y
  <2> QED
    BY <2>1, <2>7, <2>14, <2>15
<1>7. Same(Len(s))
  <2>1. \A n \in 0 .. Len(s) - 1 : n \in P => n + 1 \in P
    BY <1>6
  <2> HIDE DEF P
  <2>2. \A n \in 0 .. Len(s) : n \in P
    BY <1>3, <1>5, <2>1, UpTo
  <2>3. Len(s) \in P
    BY <1>3, <2>2
  <2> QED
    BY <1>3, <2>3 DEF P
\* And no piece is left of the other.
<1>8. Len(t) = Len(s)
  <2>1. SUFFICES ASSUME Len(s) < Len(t) PROVE FALSE
    BY <1>3, <1>7
  <2> DEFINE n == Len(s)
  <2>2. n \in 0 .. Len(t) /\ n + 1 \in 1 .. Len(t) /\ (n + 1) - 1 = n
    BY <1>3, <2>1
  <2>3. G[n] = E /\ t[n + 1] \in Seq(S) /\ t[n + 1] # <<>>
    <3>1. t[n + 1] \in Seq(S) /\ t[n + 1] # <<>>
      BY <1>3, <2>2
    <3>2. F[n] = G[n]
      BY <1>7
    <3> QED
      BY <1>4, <3>1, <3>2
  <2>4. G[n + 1] = G[n] \o t[n + 1] /\ G[n] \in Seq(S)
    BY <1>2, <2>2 DEF Flattens
  <2>5. Len(G[n]) \in Nat /\ Len(G[n]) < Len(G[n + 1])
    BY <2>3, <2>4
  <2>6. Len(G[n + 1]) <= Len(E) /\ Len(G[n + 1]) \in Nat
    <3> DEFINE j == n + 1
    <3>1. j \in 0 .. Len(t)
      BY <1>3, <2>2
    <3> HIDE DEF j
    <3>2. Starts(FlattenSeq(t), G[j])
      BY <1>2, <3>1, BeginsAll
    <3> QED
      BY <3>2 DEF j, Starts
  <2> HIDE DEF n, E
  <2> QED
    BY <2>3, <2>5, <2>6
<1>9. \A i \in 1 .. Len(s) : s[i] = t[i]
  BY <1>7
<1> QED
  BY <1>8, <1>9, SeqEqual

-----------------------------------------------------------------------------
\* Texts of the same first pieces are the same.
Agree(s, u, n) == n \in Nat /\ n <= Len(s) /\ n <= Len(u) /\ \A i \in 1 .. n : s[i] = u[i]
Equal(F, G, n) == F[n] = G[n]

LEMMA SameStart ==
    ASSUME NEW S, NEW s \in Seq(Seq(S)), NEW u \in Seq(Seq(S)),
           NEW F \in [0 .. Len(s) -> Seq(S)], Flattens(F, s),
           NEW G \in [0 .. Len(u) -> Seq(S)], Flattens(G, u),
           NEW n, Agree(s, u, n)
    PROVE  Equal(F, G, n)
<1> USE DEF Agree, Equal
<1> DEFINE P == {k \in Nat : k <= n => F[k] = G[k]}
<1>1. Len(s) \in Nat /\ Len(u) \in Nat
  OBVIOUS
<1>2. 0 \in P
  BY DEF Flattens
<1>3. ASSUME NEW k \in 0 .. n - 1, k \in P PROVE k + 1 \in P
  <2>1. k + 1 \in 1 .. Len(s) /\ k + 1 \in 1 .. Len(u) /\ k + 1 \in 1 .. n /\ (k + 1) - 1 = k
    BY <1>1
  <2>2. F[k + 1] = F[k] \o s[k + 1] /\ G[k + 1] = G[k] \o u[k + 1]
    <3>1. F[k + 1] = F[(k + 1) - 1] \o s[k + 1]
      BY <2>1 DEF Flattens
    <3>2. G[k + 1] = G[(k + 1) - 1] \o u[k + 1]
      BY <2>1 DEF Flattens
    <3> QED
      BY <2>1, <3>1, <3>2
  <2>3. F[k] = G[k] /\ s[k + 1] = u[k + 1]
    BY <1>3, <2>1
  <2>4. F[k + 1] = G[k + 1] /\ k + 1 \in Nat
    BY <2>2, <2>3
  <2> QED
    BY <2>4
<1>4. \A k \in 0 .. n : k \in P
  <2>1. \A k \in 0 .. n - 1 : k \in P => k + 1 \in P
    BY <1>3
  <2> HIDE DEF P
  <2> QED
    BY <1>2, <2>1, UpTo
<1> QED
  BY <1>4

\* What the pieces of s say, up to each.
Text(s) == [n \in 0 .. Len(s) |-> FlattenSeq(SubSeq(s, 1, n))]

LEMMA TextIs ==
    ASSUME NEW S, NEW s \in Seq(Seq(S))
    PROVE  Text(s) \in [0 .. Len(s) -> Seq(S)] /\ Flattens(Text(s), s)
<1>1. PICK F \in [0 .. Len(s) -> Seq(S)] : Flattens(F, s)
  BY Flattening
<1>2. ASSUME NEW n \in 0 .. Len(s) PROVE FlattenSeq(SubSeq(s, 1, n)) = F[n]
  <2>1. PICK u : u = SubSeq(s, 1, n)
    OBVIOUS
  <2>2. n \in Nat /\ n <= Len(s) /\ Len(s) \in Nat
    OBVIOUS
  <2>3. u \in Seq(Seq(S)) /\ Len(u) = n
    BY <2>1, <2>2
  <2>4. \A i \in 1 .. n : s[i] = u[i]
    BY <2>1, <2>2
  <2>5. PICK G \in [0 .. Len(u) -> Seq(S)] : Flattens(G, u)
    BY <2>3, Flattening
  <2>6. F[n] = G[n]
    <3>1. Agree(s, u, n)
      BY <2>2, <2>3, <2>4 DEF Agree
    <3>2. Equal(F, G, n)
      BY <1>1, <2>3, <2>5, <3>1, SameStart
    <3> QED
      BY <3>2 DEF Equal
  <2> QED
    BY <2>1, <2>3, <2>5, <2>6 DEF Flattens
<1>3. Text(s) = [n \in 0 .. Len(s) |-> F[n]]
  BY <1>2 DEF Text
<1>4. Text(s) = F
  BY <1>1, <1>3
<1> QED
  BY <1>1, <1>4

Associates(a, b, c) == (a \o b) \o c = a \o (b \o c)

LEMMA JoinAssociates ==
    ASSUME NEW S, NEW a \in Seq(S), NEW b \in Seq(S), NEW c \in Seq(S)
    PROVE  Associates(a, b, c)
BY DEF Associates

\* The text of some pieces and of others is that of both.
LEMMA FlattenJoined ==
    ASSUME NEW S, NEW s \in Seq(Seq(S)), NEW u \in Seq(Seq(S))
    PROVE  /\ FlattenSeq(s) \in Seq(S) /\ FlattenSeq(u) \in Seq(S)
           /\ FlattenSeq(s \o u) = FlattenSeq(s) \o FlattenSeq(u)
<1>1. PICK w : w = s \o u
  OBVIOUS
<1>2. w \in Seq(Seq(S)) /\ Len(w) = Len(s) + Len(u) /\ Len(s) \in Nat /\ Len(u) \in Nat
  BY <1>1
<1>3. (\A i \in 1 .. Len(s) : s[i] = w[i]) /\ (\A i \in 1 .. Len(u) : w[Len(s) + i] = u[i] /\ u[i] \in Seq(S))
  BY <1>1
<1>4. PICK F \in [0 .. Len(s) -> Seq(S)] : Flattens(F, s)
  BY Flattening
<1>5. PICK G \in [0 .. Len(u) -> Seq(S)] : Flattens(G, u)
  BY Flattening
<1>6. PICK H \in [0 .. Len(w) -> Seq(S)] : Flattens(H, w)
  BY <1>2, Flattening
<1>7. PICK m, a : m = Len(s) /\ a = F[Len(s)]
  OBVIOUS
<1>8. m \in Nat /\ m <= Len(s) /\ m <= Len(w) /\ m \in 0 .. Len(s)
  BY <1>2, <1>7
<1>9. a \in Seq(S) /\ F[m] = a
  BY <1>7, <1>8
<1>10. F[m] = H[m]
  <2>1. Agree(s, w, m)
    BY <1>3, <1>7, <1>8 DEF Agree
  <2>2. Equal(F, H, m)
    BY <1>2, <1>4, <1>6, <2>1, SameStart
  <2> QED
    BY <2>2 DEF Equal
<1> DEFINE P == {k \in Nat : k <= Len(u) => H[m + k] = a \o G[k]}
<1>11. 0 \in P
  <2>1. G[0] = <<>> /\ m + 0 = m
    BY <1>5, <1>8 DEF Flattens
  <2>2. a \o <<>> = a
    BY <1>9
  <2> QED
    BY <1>9, <1>10, <2>1, <2>2
<1>12. ASSUME NEW k \in 0 .. Len(u) - 1, k \in P PROVE k + 1 \in P
  <2>1. k \in 0 .. Len(u) /\ k + 1 \in 1 .. Len(u) /\ (k + 1) - 1 = k
    BY <1>2
  <2>2. PICK j : j = m + (k + 1)
    OBVIOUS
  <2>3. j \in 1 .. Len(w) /\ j - 1 = m + k
    BY <1>2, <1>7, <2>1, <2>2
  <2>4. H[j] = H[m + k] \o w[j]
    <3>1. H[j] = H[j - 1] \o w[j]
      BY <1>6, <2>3 DEF Flattens
    <3> QED
      BY <2>3, <3>1
  <2>5. PICK b, x : b = G[k] /\ x = u[k + 1]
    OBVIOUS
  <2>6. G[k + 1] = b \o x
    <3>1. G[k + 1] = G[(k + 1) - 1] \o u[k + 1]
      BY <1>5, <2>1 DEF Flattens
    <3> QED
      BY <2>1, <2>5, <3>1
  <2>7. H[m + k] = a \o b
    BY <1>12, <2>1, <2>5
  <2>8. b \in Seq(S) /\ x \in Seq(S) /\ w[j] = x
    <3>1. b \in Seq(S)
      BY <2>1, <2>5
    <3>2. w[Len(s) + (k + 1)] = u[k + 1] /\ u[k + 1] \in Seq(S)
      BY <1>3, <2>1
    <3> QED
      BY <1>7, <2>2, <2>5, <3>1, <3>2
  <2>9. (a \o b) \o x = a \o (b \o x)
    <3>1. a \in Seq(S) /\ b \in Seq(S) /\ x \in Seq(S)
      BY <1>9, <2>8
    <3>2. Associates(a, b, x)
      BY <3>1, JoinAssociates
    <3> QED
      BY <3>2 DEF Associates
  <2>10. H[j] = a \o G[k + 1]
    BY <2>4, <2>6, <2>7, <2>8, <2>9
  <2> QED
    BY <2>1, <2>2, <2>10
<1>13. \A k \in 0 .. Len(u) : k \in P
  <2>1. \A k \in 0 .. Len(u) - 1 : k \in P => k + 1 \in P
    BY <1>12
  <2> HIDE DEF P
  <2> QED
    BY <1>2, <1>11, <2>1, UpTo
<1>14. H[m + Len(u)] = a \o G[Len(u)] /\ m + Len(u) = Len(w)
  BY <1>2, <1>7, <1>13
<1>15. FlattenSeq(s) = a
  BY <1>4, <1>7 DEF Flattens
<1>16. FlattenSeq(u) = G[Len(u)] /\ G[Len(u)] \in Seq(S)
  <2>1. FlattenSeq(u) = G[Len(u)]
    BY <1>5 DEF Flattens
  <2>2. Len(u) \in 0 .. Len(u)
    BY <1>2
  <2> QED
    BY <2>1, <2>2
<1>17. FlattenSeq(w) = H[Len(w)]
  BY <1>6 DEF Flattens
<1> QED
  BY <1>1, <1>9, <1>14, <1>15, <1>16, <1>17

\* Pieces of one element each read as they are.
Reads(F, t, a, b) == F[b] = F[a] \o SubSeq(t, a + 1, b)

LEMMA Literal ==
    ASSUME NEW S, NEW s \in Seq(Seq(S)), NEW F \in [0 .. Len(s) -> Seq(S)], Flattens(F, s),
           NEW t \in Seq(S), Len(t) = Len(s),
           NEW a \in 0 .. Len(s), NEW b \in a .. Len(s), \A i \in a + 1 .. b : s[i] = <<t[i]>>
    PROVE  Reads(F, t, a, b)
<1> DEFINE P == {d \in Nat : a + d <= b => Reads(F, t, a, a + d)}
<1>1. Len(s) \in Nat /\ a \in Nat /\ b \in Nat /\ a <= b /\ b <= Len(s)
  OBVIOUS
<1>2. 0 \in P
  <2>1. SubSeq(t, a + 1, a) = <<>> /\ a + 0 = a /\ F[a] \in Seq(S)
    BY <1>1
  <2>2. F[a] \o <<>> = F[a]
    BY <2>1
  <2> QED
    BY <2>1, <2>2 DEF Reads
<1>3. ASSUME NEW d \in 0 .. (b - a) - 1, d \in P PROVE d + 1 \in P
  <2>1. PICK j : j = a + d + 1
    OBVIOUS
  <2>2. /\ j \in 1 .. Len(s) /\ j - 1 = a + d /\ a + d \in 0 .. Len(s) /\ j \in a + 1 .. b
        /\ a + (d + 1) = j /\ a + d <= b /\ j \in 1 .. Len(t)
    BY <1>1, <2>1
  <2>3. F[j] = F[j - 1] \o <<t[j]>>
    BY <2>2 DEF Flattens
  <2>4. PICK x, y, z : x = F[a] /\ y = SubSeq(t, a + 1, a + d) /\ z = <<t[j]>>
    OBVIOUS
  <2>5. F[j - 1] = x \o y
    BY <1>3, <2>2, <2>4 DEF Reads
  <2>6. x \in Seq(S) /\ y \in Seq(S) /\ z \in Seq(S)
    <3>1. x \in Seq(S)
      BY <2>4
    <3>2. \A i \in a + 1 .. a + d : t[i] \in S
      BY <1>1, <2>2
    <3>3. y \in Seq(S)
      BY <1>1, <2>4, <3>2, SubSeqProperties
    <3>4. t[j] \in S
      BY <2>2
    <3>5. z \in Seq(S)
      BY <2>4, <3>4, One
    <3> QED
      BY <3>1, <3>3, <3>5
  <2>7. y \o z = SubSeq(t, a + 1, j)
    <3> DEFINE m == a + 1
    <3>1. m \in 1 .. Len(t) /\ j \in m .. Len(t) /\ j - 1 = a + d
      <4>1. /\ a \in Nat /\ b \in Int /\ Len(t) \in Nat
            /\ j \in a + 1 .. b /\ j \in 1 .. Len(t) /\ j - 1 = a + d
        BY <1>1, <2>2
      <4> QED
        BY ONLY <4>1
    <3> HIDE DEF m
    <3>2. SubSeq(t, m, j) = SubSeq(t, m, j - 1) \o <<t[j]>>
      BY <3>1, SubSeqRecursiveSecond
    <3> QED
      BY <2>4, <3>1, <3>2 DEF m
  <2>8. Associates(x, y, z)
    BY <2>6, JoinAssociates
  <2>9. F[j] = (x \o y) \o z
    BY <2>3, <2>4, <2>5
  <2>10. F[j] = x \o SubSeq(t, a + 1, j)
    BY <2>7, <2>8, <2>9 DEF Associates
  <2>11. Reads(F, t, a, j)
    BY <2>4, <2>10 DEF Reads
  <2> QED
    BY <2>2, <2>11
<1>4. b - a \in P
  <2>1. \A d \in 0 .. (b - a) - 1 : d \in P => d + 1 \in P
    BY <1>3
  <2>2. b - a \in Nat
    BY <1>1
  <2> HIDE DEF P
  <2>3. \A d \in 0 .. b - a : d \in P
    BY <1>2, <2>1, <2>2, UpTo
  <2> QED
    BY <2>2, <2>3
<1> QED
  <2>1. a + (b - a) = b
    BY <1>1
  <2> QED
    BY <1>1, <1>4, <2>1

\* Empty pieces are no text.
Unmoved(F, a, b) == F[b] = F[a]

LEMMA Nothing ==
    ASSUME NEW S, NEW s \in Seq(Seq(S)), NEW F \in [0 .. Len(s) -> Seq(S)], Flattens(F, s),
           NEW a \in 0 .. Len(s), NEW b \in a .. Len(s), \A i \in a + 1 .. b : s[i] = <<>>
    PROVE  Unmoved(F, a, b)
<1> DEFINE P == {d \in Nat : a + d <= b => F[a + d] = F[a]}
<1>1. Len(s) \in Nat /\ a \in Nat /\ b \in Nat /\ a <= b /\ b <= Len(s)
  OBVIOUS
<1>2. 0 \in P
  BY <1>1
<1>3. ASSUME NEW d \in 0 .. (b - a) - 1, d \in P PROVE d + 1 \in P
  <2>1. PICK j : j = a + d + 1
    OBVIOUS
  <2>2. /\ j \in 1 .. Len(s) /\ j - 1 = a + d /\ a + d \in 0 .. Len(s) /\ j \in a + 1 .. b
        /\ a + (d + 1) = j /\ a + d <= b
    BY <1>1, <2>1
  <2>3. F[j] = F[j - 1] \o <<>>
    BY <2>2 DEF Flattens
  <2>4. F[j - 1] = F[a] /\ F[a] \in Seq(S)
    BY <1>3, <2>2
  <2>5. F[j] = F[a]
    BY <2>3, <2>4
  <2>6. d + 1 \in Nat /\ F[a + (d + 1)] = F[a]
    BY <2>2, <2>5
  <2> QED
    BY ONLY <2>6
<1>4. b - a \in P
  <2>1. \A d \in 0 .. (b - a) - 1 : d \in P => d + 1 \in P
    BY <1>3
  <2>2. b - a \in Nat
    BY <1>1
  <2> HIDE DEF P
  <2>3. \A d \in 0 .. b - a : d \in P
    BY <1>2, <2>1, <2>2, UpTo
  <2> QED
    BY <2>2, <2>3
<1> QED
  <2>1. a + (b - a) = b
    BY <1>1
  <2> QED
    BY <1>1, <1>4, <2>1 DEF Unmoved

\* The same pieces add the same to two texts.
Alike(F, G, a, b, Z) == \E c \in Seq(Z) : F[b] = F[a] \o c /\ G[b] = G[a] \o c

LEMMA SamePieces ==
    ASSUME NEW S, NEW Z, Z \subseteq S,
           NEW s \in Seq(Seq(S)), NEW F \in [0 .. Len(s) -> Seq(S)], Flattens(F, s),
           NEW u \in Seq(Seq(S)), NEW G \in [0 .. Len(u) -> Seq(S)], Flattens(G, u),
           Len(u) = Len(s),
           NEW a \in 0 .. Len(s), NEW b \in a .. Len(s),
           \A i \in a + 1 .. b : s[i] \in Seq(Z) /\ u[i] = s[i]
    PROVE  Alike(F, G, a, b, Z)
<1> DEFINE P == {d \in Nat : a + d <= b => Alike(F, G, a, a + d, Z)}
<1>1. Len(s) \in Nat /\ a \in Nat /\ b \in Nat /\ a <= b /\ b <= Len(s)
  OBVIOUS
<1>2. PICK x, y : x = F[a] /\ y = G[a] /\ x \in Seq(S) /\ y \in Seq(S)
  BY <1>1
<1>3. 0 \in P
  <2>1. <<>> \in Seq(Z) /\ a + 0 = a
    BY <1>1
  <2>2. x \o <<>> = x /\ y \o <<>> = y
    BY <1>2
  <2> QED
    BY <1>2, <2>1, <2>2 DEF Alike
<1>4. ASSUME NEW d \in 0 .. (b - a) - 1, d \in P PROVE d + 1 \in P
  <2>1. PICK j : j = a + d + 1
    OBVIOUS
  <2>2. /\ j \in 1 .. Len(s) /\ j \in 1 .. Len(u) /\ j - 1 = a + d /\ j \in a + 1 .. b
        /\ a + (d + 1) = j /\ a + d <= b
    BY <1>1, <2>1
  <2>3. PICK c \in Seq(Z) : F[a + d] = x \o c /\ G[a + d] = y \o c
    BY <1>2, <1>4, <2>2 DEF Alike
  <2>4. PICK z \in Seq(Z) : z = s[j] /\ z = u[j]
    BY <2>2
  <2>5. F[j] = (x \o c) \o z /\ G[j] = (y \o c) \o z
    <3>1. F[j] = F[j - 1] \o s[j]
      BY <2>2 DEF Flattens
    <3>2. G[j] = G[j - 1] \o u[j]
      BY <2>2 DEF Flattens
    <3> QED
      BY <2>2, <2>3, <2>4, <3>1, <3>2
  <2>6. c \in Seq(S) /\ z \in Seq(S)
    BY SeqMonotonic
  <2>7. Associates(x, c, z) /\ Associates(y, c, z)
    BY <1>2, <2>6, JoinAssociates
  <2>8. F[j] = x \o (c \o z) /\ G[j] = y \o (c \o z)
    BY <2>5, <2>7 DEF Associates
  <2>9. c \o z \in Seq(Z)
    OBVIOUS
  <2>10. Alike(F, G, a, j, Z)
    BY <1>2, <2>8, <2>9 DEF Alike
  <2> QED
    BY <2>2, <2>10
<1>5. b - a \in P
  <2>1. \A d \in 0 .. (b - a) - 1 : d \in P => d + 1 \in P
    BY <1>4
  <2>2. b - a \in Nat
    BY <1>1
  <2> HIDE DEF P
  <2>3. \A d \in 0 .. b - a : d \in P
    BY <1>3, <2>1, <2>2, UpTo
  <2> QED
    BY <2>2, <2>3
<1> QED
  <2>1. a + (b - a) = b
    BY <1>1
  <2> QED
    BY <1>1, <1>5, <2>1
=============================================================================
