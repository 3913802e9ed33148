----------------------------- MODULE ReachProofs -----------------------------
(***************************************************************************)
(* How a backend is reached, and where it is not: the safety of one dial,  *)
(* for any addresses, answers, timeouts, deadlines and least attempt       *)
(* (PrivateDial), and of an endpoint's base URL, for any hosts, names,     *)
(* options in any order and URLs, and however names resolve (PlainReach).  *)
(***************************************************************************)
EXTENDS PrivateDial, PlainReach, SequenceTheorems, TLAPS

-----------------------------------------------------------------------------
(* The dialer.                                                             *)

\* Where a dial is: nothing is tried before the addresses were judged, and nothing
\* decided before it is over.
StageInv ==
    /\ stage = "new" => now = 0
    /\ stage \in {"new", "lookup", "found"} => tried = <<>>
    /\ stage = "attempt" => Len(tried) < Len(addrs)
    /\ stage \in {"dialing", "failed"} => tried # <<>>
    /\ stage # "over" => result = "none"

\* Once they passed, every address is private, and the ones tried are the first of them.
CheckedInv ==
    /\ stage \in {"attempt", "dialing", "failed"} \/ tried # <<>> => \A i \in DOMAIN addrs : Contains(addrs[i])
    /\ \A k \in DOMAIN tried : tried[k].at = Unmap(addrs[k])

\* The clock stays within the context, and within the attempt.
TimeInv ==
    /\ now <= caller /\ now <= Timeout
    /\ stage \in {"lookup", "found", "attempt", "dialing", "failed"} =>
           now <= deadline /\ deadline <= caller /\ deadline <= Timeout
    /\ stage \in {"dialing", "failed"} => now <= until /\ until <= deadline

\* An attempt in a context that has ended is the last: GoOn finds it ended.
LiveInv ==
    \A k \in DOMAIN tried : ~tried[k].live => k = Len(tried) /\ stage # "attempt" /\ (stage = "over" \/ Done)

\* The least time of every address that is left.
Floor == (Len(addrs) - Len(tried)) * MinAttempt

\* If the time was enough for all, what is left is enough for the rest.
ShareInv ==
    tried # <<>> /\ deadline - tried[1].began >= Len(addrs) * MinAttempt =>
        /\ \A k \in DOMAIN tried : tried[k].until - tried[k].began >= MinAttempt
        /\ stage = "attempt" => deadline - now >= Floor
        /\ stage \in {"dialing", "failed"} => deadline - until >= Floor
        /\ result = "unreachable" /\ ~canceled => Len(tried) = Len(addrs)

DialInv == TypeOK /\ StageInv /\ CheckedInv /\ TimeInv /\ LiveInv /\ ShareInv

-----------------------------------------------------------------------------
(* The time of a dial and the end of an attempt.                           *)

\* A dial's deadline is no later than its timeout and its caller's deadline.
LEMMA DeadlineBounds ==
    ASSUME timeout \in Timeouts, caller \in Callers
    PROVE  /\ Timeout \in 1 .. Never - 1
           /\ Deadline(caller) \in 0 .. Never
           /\ Deadline(caller) <= caller /\ Deadline(caller) <= Timeout
<1>1. timeout \in Int /\ timeout < Never /\ Never \in Nat /\ DefaultTimeout \in 1 .. Never - 1 /\ caller \in 0 .. Never
  BY TimesAssumption
<1>2. Timeout \in 1 .. Never - 1
  BY <1>1 DEF Timeout
<1> QED
  BY <1>1, <1>2 DEF Deadline

\* Rounded down, a share is no more than the time it is a share of.
LEMMA ShareBounds ==
    ASSUME NEW left \in Nat, NEW remaining \in Nat \ {0}
    PROVE  /\ left \div remaining \in Nat
           /\ remaining * (left \div remaining) <= left
OBVIOUS

\* An attempt ends within the dial.
LEMMA UntilBounds ==
    ASSUME now \in Nat, deadline \in Nat, now <= deadline, NEW remaining \in Nat \ {0}
    PROVE  /\ AttemptUntil(remaining) \in now .. deadline
<1> DEFINE left == deadline - now
<1>1. left \in Nat /\ left \div remaining \in Nat
  BY ShareBounds
<1> QED
  BY <1>1, TimesAssumption DEF AttemptUntil

\* What is enough for the addresses left is enough for the next one, and what
\* it leaves for the ones behind it.
LEMMA ShareLeaves ==
    ASSUME now \in Nat, deadline \in Nat, NEW remaining \in Nat \ {0},
           deadline - now >= remaining * MinAttempt
    PROVE  /\ AttemptUntil(remaining) - now >= MinAttempt
           /\ deadline - AttemptUntil(remaining) >= (remaining - 1) * MinAttempt
<1> DEFINE left == deadline - now
           part == left \div remaining
<1> USE TimesAssumption
<1>1. remaining * MinAttempt = MinAttempt + (remaining - 1) * MinAttempt /\ (remaining - 1) * MinAttempt >= 0
  OBVIOUS
<1>2. left \in Nat /\ part \in Nat /\ remaining * part <= left
  <2>1. left \in Nat
    BY <1>1
  <2> QED
    BY <2>1, ShareBounds
<1>3. CASE remaining = 1
  BY <1>1, <1>3 DEF AttemptUntil
<1>4. CASE remaining > 1 /\ part > MinAttempt
  <2>1. remaining * part = part + (remaining - 1) * part
    BY <1>2
  <2>2. (remaining - 1) * part >= (remaining - 1) * MinAttempt /\ (remaining - 1) * part >= part
    BY <1>2, <1>4
  <2>3. part < left /\ AttemptUntil(remaining) = now + part
    BY <1>2, <1>4, <2>1, <2>2 DEF AttemptUntil
  <2> QED
    BY <1>2, <1>4, <2>1, <2>2, <2>3
<1>5. CASE remaining > 1 /\ ~(part > MinAttempt)
  <2>1. (remaining - 1) * MinAttempt >= MinAttempt
    BY <1>5
  <2>2. AttemptUntil(remaining) = now + MinAttempt
    BY <1>1, <1>2, <1>5, <2>1 DEF AttemptUntil
  <2> QED
    BY <1>1, <1>2, <2>2
<1> QED
  BY <1>3, <1>4, <1>5

\* The value of Unmap is the address a connection reaches.
LEMMA UnmapType ==
    ASSUME NEW a \in Address
    PROVE  Unmap(a) \in {b \in Address : b.form # "mapped"}
BY DEF Unmap, Address

\* An attempt that was made.
Tried ==
    [at : {a \in Address : a.form # "mapped"}, began : 0 .. Never, until : 0 .. Never, live : BOOLEAN]

\* What the type of a dial says in the terms of its parts.
LEMMA Shapes ==
    ASSUME TypeOK
    PROVE  /\ addrs \in Seq(Address) /\ Len(addrs) \in Nat /\ DOMAIN addrs = 1 .. Len(addrs)
           /\ tried \in Seq(Tried) /\ Len(tried) \in Nat /\ DOMAIN tried = 1 .. Len(tried)
           /\ now \in Nat /\ deadline \in Nat /\ until \in Nat /\ Never \in Nat
           /\ MinAttempt \in Nat /\ MinAttempt > 0
<1>1. addrs \in Seq(Address)
  <2>1. CASE addrs \in Answers
    BY <2>1, HostsAssumption
  <2>2. ASSUME NEW h \in Hosts \cap Address, addrs = <<h>> PROVE addrs \in Seq(Address)
    BY <2>2
  <2>3. CASE addrs = <<>>
    BY <2>3
  <2>4. addrs \in Answers \cup {<<h>> : h \in Hosts \cap Address} \cup {<<>>}
    BY DEF TypeOK
  <2> QED
    BY <2>1, <2>2, <2>3, <2>4
<1>2. tried \in Seq(Tried)
  BY DEF TypeOK, Tried
<1>3. now \in 0 .. Never /\ deadline \in 0 .. Never /\ until \in 0 .. Never
  BY DEF TypeOK
<1>4. Never \in Nat /\ MinAttempt \in Nat /\ MinAttempt > 0
  BY TimesAssumption
<1>5. now \in Nat /\ deadline \in Nat /\ until \in Nat
  BY <1>3, <1>4
<1> QED
  BY <1>1, <1>2, <1>4, <1>5, LenProperties

\* How many addresses are left, and the attempt at the next of them.
Remaining == Len(addrs) - Len(tried)
NewAttempt == [at |-> Unmap(addrs[Len(tried) + 1]), began |-> now, until |-> until', live |-> ~Done]

\* An attempt is the next of the addresses, within the dial.
LEMMA AttemptFacts ==
    ASSUME TypeOK, StageInv, TimeInv, BeginAttempt
    PROVE  /\ stage = "attempt" /\ stage' = "dialing"
           /\ timeout' = timeout /\ host' = host /\ caller' = caller /\ now' = now
           /\ canceled' = canceled /\ deadline' = deadline /\ addrs' = addrs /\ result' = result
           /\ Remaining \in Nat /\ Remaining > 0
           /\ until' = AttemptUntil(Remaining) /\ until' \in now .. deadline
           /\ NewAttempt \in Tried /\ tried' \in Seq(Tried)
           /\ Len(tried') = Len(tried) + 1 /\ DOMAIN tried' = 1 .. Len(tried) + 1
           /\ tried'[Len(tried) + 1] = NewAttempt
           /\ \A k \in 1 .. Len(tried) : tried'[k] = tried[k]
<1>1. /\ stage = "attempt" /\ stage' = "dialing"
      /\ timeout' = timeout /\ host' = host /\ caller' = caller /\ now' = now
      /\ canceled' = canceled /\ deadline' = deadline /\ addrs' = addrs /\ result' = result
  BY DEF BeginAttempt, Attempt, given
<1>2. until' = AttemptUntil(Remaining) /\ tried' = Append(tried, NewAttempt)
  BY DEF BeginAttempt, Attempt, Target, Remaining, NewAttempt
<1>3. Remaining \in Nat /\ Remaining > 0 /\ Len(tried) + 1 \in DOMAIN addrs
  <2>1. Len(tried) < Len(addrs)
    BY <1>1 DEF StageInv
  <2> QED
    BY <2>1, Shapes DEF Remaining
<1>4. until' \in now .. deadline
  <2>1. now <= deadline
    BY <1>1 DEF TimeInv
  <2> QED
    BY <1>2, <1>3, <2>1, Shapes, UntilBounds
<1>5. NewAttempt \in Tried
  <2>1. addrs[Len(tried) + 1] \in Address
    BY <1>3, Shapes
  <2>2. Unmap(addrs[Len(tried) + 1]) \in {a \in Address : a.form # "mapped"}
    BY <2>1, UnmapType
  <2>3. now \in 0 .. Never /\ deadline \in 0 .. Never
    BY DEF TypeOK
  <2>4. until' \in 0 .. Never
    BY <1>4, <2>3, Shapes
  <2>5. (~Done) \in BOOLEAN
    BY Zenon DEF Done
  <2> QED
    BY <2>2, <2>3, <2>4, <2>5 DEF Tried, NewAttempt
<1>6. /\ tried' \in Seq(Tried) /\ Len(tried') = Len(tried) + 1
      /\ tried'[Len(tried) + 1] = NewAttempt
      /\ \A k \in 1 .. Len(tried) : tried'[k] = tried[k]
  BY <1>2, <1>5, Shapes, AppendProperties
<1>7. DOMAIN tried' = 1 .. Len(tried) + 1
  BY <1>6, LenProperties
<1> QED
  BY <1>1, <1>2, <1>3, <1>4, <1>5, <1>6, <1>7


-----------------------------------------------------------------------------
(* Every step preserves the invariant.                                     *)

\* Every step keeps the types.
LEMMA TypeStep == TypeOK /\ StageInv /\ TimeInv /\ [Next]_vars => TypeOK'
<1> SUFFICES ASSUME TypeOK /\ StageInv /\ TimeInv, [Next]_vars PROVE TypeOK'
  OBVIOUS
<1>1. CASE Start
  <2>1. timeout \in Timeouts /\ caller \in Callers /\ host \in Hosts
    BY DEF TypeOK
  <2>2. Deadline(caller) \in 0 .. Never
    BY <2>1, DeadlineBounds
  <2>3. deadline' \in 0 .. Never /\ addrs' \in Answers \cup {<<h>> : h \in Hosts \cap Address} \cup {<<>>}
    <3>1. CASE host = Malformed
      BY <1>1, <3>1 DEF Start, TypeOK
    <3>2. CASE host = Name
      BY <1>1, <2>2, <3>2, HostsAssumption DEF Start
    <3>3. CASE host # Malformed /\ host # Name
      BY <1>1, <2>1, <2>2, <3>3, HostsAssumption DEF Start
    <3> QED
      BY <3>1, <3>2, <3>3
  <2>4. Len(tried') = 0 /\ Len(addrs') \in Nat
    <3>1. tried' = <<>>
      BY <1>1 DEF Start, StageInv
    <3>2. addrs' \in Seq(Address)
      <4>1. CASE host = Malformed
        BY <1>1, <4>1, Shapes DEF Start
      <4>2. CASE host # Malformed
        <5>1. CASE host = Name
          BY <1>1, <4>2, <5>1 DEF Start
        <5>2. CASE host # Name
          <6>1. host \in Address /\ addrs' = <<host>>
            BY <1>1, <2>1, <4>2, <5>2, HostsAssumption DEF Start
          <6> QED
            BY <6>1
        <5> QED
          BY <5>1, <5>2
      <4> QED
        BY <4>1, <4>2
    <3> QED
      BY <3>1, <3>2
  <2>5. /\ stage' \in {"lookup", "found", "over"} /\ result' \in {result, "malformed"}
        /\ timeout' = timeout /\ host' = host /\ caller' = caller /\ now' = now
        /\ canceled' = canceled /\ until' = until /\ tried' = tried
    BY <1>1 DEF Start, Return, given
  <2>6. Len(tried') <= Len(addrs')
    BY <2>4
  <2> QED
    BY <2>3, <2>5, <2>6 DEF TypeOK
<1>2. CASE Check
  BY <1>2 DEF Check, Return, given, TypeOK, StageInv, TimeInv
<1>3. CASE BeginAttempt
  <2>1. tried' \in Seq(Tried) /\ Len(tried') <= Len(addrs')
    BY <1>3, AttemptFacts, Shapes DEF Remaining
  <2>2. until' \in 0 .. Never
    <3>1. deadline \in 0 .. Never /\ until' \in now .. deadline
      BY <1>3, AttemptFacts DEF TypeOK
    <3> QED
      BY <3>1, Shapes
  <2>3. /\ stage' = "dialing" /\ timeout' = timeout /\ host' = host /\ caller' = caller /\ now' = now
        /\ canceled' = canceled /\ deadline' = deadline /\ addrs' = addrs /\ result' = result
    BY <1>3, AttemptFacts
  <2> QED
    BY <2>1, <2>2, <2>3 DEF TypeOK, Tried
<1>4. CASE GoOn
  BY <1>4 DEF GoOn, Return, given, TypeOK, StageInv, TimeInv
<1>5. CASE Over
  BY <1>5 DEF Over, vars, given, TypeOK, StageInv, TimeInv
<1>6. CASE Tick
  <2>1. UNCHANGED <<given, canceled, stage, deadline, addrs, until, tried, result>>
    BY <1>6 DEF Tick
  <2>2. now' \in 0 .. Never
    <3>1. now' = now + 1 /\ now < Never - 1
      BY <1>6 DEF Tick
    <3> QED
      BY <3>1, Shapes
  <2> QED
    BY <2>1, <2>2 DEF TypeOK, given
<1>7. CASE Cancel
  BY <1>7 DEF Cancel, given, TypeOK, StageInv, TimeInv
<1>8. ASSUME NEW found \in Answers, LookupAnswers(found) PROVE TypeOK'
  BY <1>8 DEF LookupAnswers, given, TypeOK, StageInv, TimeInv
<1>9. CASE LookupFails
  BY <1>9 DEF LookupFails, Return, given, TypeOK, StageInv, TimeInv
<1>10. CASE Connects
  BY <1>10 DEF Connects, Return, given, TypeOK, StageInv, TimeInv
<1>11. CASE AttemptFails
  BY <1>11 DEF AttemptFails, given, TypeOK, StageInv, TimeInv
<1>12. CASE UNCHANGED vars
  BY <1>12 DEF vars, TypeOK
<1> QED
  BY <1>1, <1>2, <1>3, <1>4, <1>5, <1>6, <1>7, <1>8, <1>9, <1>10, <1>11, <1>12 DEF Next, Runs

\* A dial goes through its stages in order.
LEMMA StageStep == TypeOK /\ StageInv /\ TimeInv /\ [Next]_vars => StageInv'
<1> SUFFICES ASSUME TypeOK /\ StageInv /\ TimeInv, [Next]_vars PROVE StageInv'
  OBVIOUS
<1>1. CASE Start
  BY <1>1 DEF Start, Return, given, StageInv
<1>2. CASE Check
  <2>1. tried = <<>> /\ Len(tried) = 0
    BY <1>2 DEF Check, StageInv
  <2>2. stage' = "attempt" => Len(addrs) > 0
    BY <1>2, Shapes DEF Check, Return
  <2> QED
    BY <1>2, <2>1, <2>2, Shapes DEF Check, Return, given, StageInv
<1>3. CASE BeginAttempt
  <2>1. Len(tried') > 0 /\ stage' = "dialing" /\ stage = "attempt" /\ result' = result
    BY <1>3, AttemptFacts, Shapes
  <2> QED
    BY <2>1 DEF StageInv
<1>4. CASE GoOn
  <2>1. stage = "failed" /\ addrs' = addrs /\ tried' = tried /\ now' = now
    BY <1>4 DEF GoOn
  <2>2. stage' = "attempt" => Len(tried) # Len(addrs) /\ result' = result
    BY <1>4 DEF GoOn, Return
  <2>3. stage' = "attempt" => Len(tried) < Len(addrs)
    <3>1. Len(tried) <= Len(addrs)
      BY DEF TypeOK
    <3>2. Len(tried) \in Nat /\ Len(addrs) \in Nat
      BY Shapes
    <3> QED
      BY <2>2, <3>1, <3>2
  <2>4. stage' \in {"attempt", "over"} /\ tried # <<>> /\ result = "none"
    BY <1>4, <2>1 DEF GoOn, Return, StageInv
  <2> QED
    BY <2>1, <2>2, <2>3, <2>4 DEF StageInv
<1>5. CASE Over
  BY <1>5 DEF Over, vars, given, StageInv
<1>6. CASE Tick
  BY <1>6 DEF Tick, given, StageInv
<1>7. CASE Cancel
  BY <1>7 DEF Cancel, given, StageInv
<1>8. ASSUME NEW found \in Answers, LookupAnswers(found) PROVE StageInv'
  BY <1>8 DEF LookupAnswers, given, StageInv
<1>9. CASE LookupFails
  BY <1>9 DEF LookupFails, Return, given, StageInv
<1>10. CASE Connects
  BY <1>10 DEF Connects, Return, given, StageInv
<1>11. CASE AttemptFails
  BY <1>11 DEF AttemptFails, given, StageInv
<1>12. CASE UNCHANGED vars
  BY <1>12 DEF vars, StageInv
<1> QED
  BY <1>1, <1>2, <1>3, <1>4, <1>5, <1>6, <1>7, <1>8, <1>9, <1>10, <1>11, <1>12 DEF Next, Runs

\* What was judged is what is tried.
LEMMA CheckedStep == TypeOK /\ StageInv /\ TimeInv /\ CheckedInv /\ [Next]_vars => CheckedInv'
<1> SUFFICES ASSUME TypeOK /\ StageInv /\ TimeInv /\ CheckedInv, [Next]_vars PROVE CheckedInv'
  OBVIOUS
<1>1. CASE Start
  BY <1>1 DEF Start, Return, given, StageInv, CheckedInv
<1>2. CASE Check
  BY <1>2 DEF Check, Return, given, StageInv, CheckedInv
<1>3. CASE BeginAttempt
  <2>1. stage = "attempt" /\ addrs' = addrs /\ Len(tried') = Len(tried) + 1 /\ DOMAIN tried' = 1 .. Len(tried) + 1
    BY <1>3, AttemptFacts
  <2>2. tried'[Len(tried) + 1].at = Unmap(addrs[Len(tried) + 1])
    BY <1>3, AttemptFacts DEF NewAttempt
  <2>3. \A k \in 1 .. Len(tried) : tried'[k] = tried[k]
    BY <1>3, AttemptFacts
  <2> QED
    BY <2>1, <2>2, <2>3, Shapes DEF CheckedInv
<1>4. CASE GoOn
  BY <1>4 DEF GoOn, Return, given, StageInv, CheckedInv
<1>5. CASE Over
  BY <1>5 DEF Over, vars, given, StageInv, CheckedInv
<1>6. CASE Tick
  BY <1>6 DEF Tick, given, StageInv, CheckedInv
<1>7. CASE Cancel
  BY <1>7 DEF Cancel, given, StageInv, CheckedInv
<1>8. ASSUME NEW found \in Answers, LookupAnswers(found) PROVE CheckedInv'
  BY <1>8 DEF LookupAnswers, given, StageInv, CheckedInv
<1>9. CASE LookupFails
  BY <1>9 DEF LookupFails, Return, given, StageInv, CheckedInv
<1>10. CASE Connects
  BY <1>10 DEF Connects, Return, given, StageInv, CheckedInv
<1>11. CASE AttemptFails
  BY <1>11 DEF AttemptFails, given, StageInv, CheckedInv
<1>12. CASE UNCHANGED vars
  BY <1>12 DEF vars, CheckedInv
<1> QED
  BY <1>1, <1>2, <1>3, <1>4, <1>5, <1>6, <1>7, <1>8, <1>9, <1>10, <1>11, <1>12 DEF Next, Runs

\* The clock moves only within a context.
LEMMA TimeStep == TypeOK /\ StageInv /\ TimeInv /\ [Next]_vars => TimeInv'
<1> SUFFICES ASSUME TypeOK /\ StageInv /\ TimeInv, [Next]_vars PROVE TimeInv'
  OBVIOUS
<1>1. CASE Start
  <2>1. timeout \in Timeouts /\ caller \in Callers /\ now = 0
    BY <1>1 DEF TypeOK, Start, StageInv
  <2>2. Deadline(caller) \in 0 .. Never /\ Deadline(caller) <= caller /\ Deadline(caller) <= Timeout
    BY <2>1, DeadlineBounds
  <2> QED
    BY <1>1, <2>1, <2>2 DEF Start, Return, given, TimeInv, Timeout
<1>2. CASE Check
  BY <1>2 DEF Check, Return, given, TypeOK, StageInv, TimeInv, Timeout
<1>3. CASE BeginAttempt
  <2>1. until' \in now .. deadline /\ stage = "attempt" /\ stage' = "dialing" /\ timeout' = timeout /\ caller' = caller /\ now' = now /\ deadline' = deadline
    BY <1>3, AttemptFacts
  <2> QED
    BY <2>1, Shapes DEF TimeInv, Timeout
<1>4. CASE GoOn
  BY <1>4 DEF GoOn, Return, given, TypeOK, StageInv, TimeInv, Timeout
<1>5. CASE Over
  BY <1>5 DEF Over, vars, given, TypeOK, StageInv, TimeInv, Timeout
<1>6. CASE Tick
  <2>1. now' = now + 1 /\ UNCHANGED <<given, stage, deadline, until>> /\ stage \in {"lookup", "dialing"}
        /\ (stage = "lookup" => now < deadline) /\ (stage = "dialing" => now < until)
    BY <1>6 DEF Tick
  <2>2. now + 1 <= deadline /\ deadline <= caller /\ deadline <= Timeout
    BY <2>1, Shapes DEF TimeInv
  <2>3. caller \in Int /\ Timeout \in Int
    <3>1. timeout \in Timeouts /\ caller \in Callers
      BY DEF TypeOK
    <3>2. caller \in 0 .. Never
      BY <3>1, TimesAssumption
    <3> QED
      BY <3>1, <3>2, DeadlineBounds
  <2>4. now + 1 <= caller /\ now + 1 <= Timeout
    BY <2>2, <2>3, Shapes
  <2> QED
    BY <2>1, <2>2, <2>4, Shapes DEF TimeInv, Timeout, given
<1>7. CASE Cancel
  BY <1>7 DEF Cancel, given, TypeOK, StageInv, TimeInv, Timeout
<1>8. ASSUME NEW found \in Answers, LookupAnswers(found) PROVE TimeInv'
  BY <1>8 DEF LookupAnswers, given, TypeOK, StageInv, TimeInv, Timeout
<1>9. CASE LookupFails
  BY <1>9 DEF LookupFails, Return, given, TypeOK, StageInv, TimeInv, Timeout
<1>10. CASE Connects
  BY <1>10 DEF Connects, Return, given, TypeOK, StageInv, TimeInv, Timeout
<1>11. CASE AttemptFails
  BY <1>11 DEF AttemptFails, given, TypeOK, StageInv, TimeInv, Timeout
<1>12. CASE UNCHANGED vars
  BY <1>12 DEF vars, TimeInv, Timeout
<1> QED
  BY <1>1, <1>2, <1>3, <1>4, <1>5, <1>6, <1>7, <1>8, <1>9, <1>10, <1>11, <1>12 DEF Next, Runs

\* A context that ended stays ended, and is noticed.
LEMMA LiveStep == TypeOK /\ StageInv /\ TimeInv /\ LiveInv /\ [Next]_vars => LiveInv'
<1> SUFFICES ASSUME TypeOK /\ StageInv /\ TimeInv /\ LiveInv, [Next]_vars PROVE LiveInv'
  OBVIOUS
<1>1. CASE Start
  BY <1>1 DEF Start, Return, given, StageInv, LiveInv, Done
<1>2. CASE Check
  <2>1. tried = <<>> /\ tried' = tried
    BY <1>2 DEF Check, StageInv
  <2> QED
    BY <2>1 DEF LiveInv
<1>3. CASE BeginAttempt
  <2>1. stage = "attempt" /\ stage' = "dialing" /\ Len(tried') = Len(tried) + 1 /\ DOMAIN tried' = 1 .. Len(tried) + 1
        /\ now' = now /\ canceled' = canceled /\ deadline' = deadline
    BY <1>3, AttemptFacts
  <2>2. tried'[Len(tried) + 1].live = ~Done
    BY <1>3, AttemptFacts DEF NewAttempt
  <2>3. \A k \in 1 .. Len(tried) : tried'[k] = tried[k]
    BY <1>3, AttemptFacts
  <2>4. \A k \in 1 .. Len(tried) : tried[k].live
    BY <2>1, Shapes DEF LiveInv
  <2> QED
    <3>1. ASSUME NEW k \in DOMAIN tried', ~tried'[k].live PROVE k = Len(tried) + 1 /\ Done'
      <4>1. k \notin 1 .. Len(tried)
        BY <2>3, <2>4, <3>1
      <4>2. k = Len(tried) + 1
        BY <2>1, <4>1, Shapes
      <4>3. Done
        BY <2>2, <3>1, <4>2
      <4> QED
        BY <2>1, <4>2, <4>3 DEF Done
    <3> QED
      BY <2>1, <3>1 DEF LiveInv
<1>4. CASE GoOn
  BY <1>4 DEF GoOn, Return, given, StageInv, LiveInv, Done
<1>5. CASE Over
  BY <1>5 DEF Over, vars, given, StageInv, LiveInv, Done
<1>6. CASE Tick
  <2>1. now' = now + 1 /\ UNCHANGED <<canceled, stage, deadline, tried>>
    BY <1>6 DEF Tick
  <2>2. Done => Done'
    BY <2>1, Shapes DEF Done
  <2> QED
    BY <2>1, <2>2 DEF LiveInv
<1>7. CASE Cancel
  BY <1>7 DEF Cancel, given, StageInv, LiveInv, Done
<1>8. ASSUME NEW found \in Answers, LookupAnswers(found) PROVE LiveInv'
  BY <1>8 DEF LookupAnswers, given, StageInv, LiveInv, Done
<1>9. CASE LookupFails
  BY <1>9 DEF LookupFails, Return, given, StageInv, LiveInv, Done
<1>10. CASE Connects
  BY <1>10 DEF Connects, Return, given, StageInv, LiveInv, Done
<1>11. CASE AttemptFails
  BY <1>11 DEF AttemptFails, given, StageInv, LiveInv, Done
<1>12. CASE UNCHANGED vars
  BY <1>12 DEF vars, LiveInv, Done
<1> QED
  BY <1>1, <1>2, <1>3, <1>4, <1>5, <1>6, <1>7, <1>8, <1>9, <1>10, <1>11, <1>12 DEF Next, Runs

\* What is left for the rest stays enough.
LEMMA ShareStep == TypeOK /\ StageInv /\ TimeInv /\ ShareInv /\ [Next]_vars => ShareInv'
<1> SUFFICES ASSUME TypeOK /\ StageInv /\ TimeInv /\ ShareInv, [Next]_vars PROVE ShareInv'
  OBVIOUS
<1>1. CASE Start
  BY <1>1 DEF Start, Return, given, StageInv, ShareInv, Floor
<1>2. CASE Check
  BY <1>2 DEF Check, Return, given, StageInv, ShareInv, Floor
<1>3. CASE BeginAttempt
  <2> DEFINE n == Len(tried)
  <2>1. stage' = "dialing" /\ stage = "attempt" /\ Len(tried') = n + 1 /\ DOMAIN tried' = 1 .. n + 1 /\ result' = result
        /\ now' = now /\ canceled' = canceled /\ deadline' = deadline /\ addrs' = addrs
        /\ Remaining \in Nat /\ Remaining > 0 /\ until' = AttemptUntil(Remaining)
        /\ until' \in now .. deadline
    BY <1>3, AttemptFacts
  <2>2. tried'[n + 1].began = now /\ tried'[n + 1].until = until'
    BY <1>3, AttemptFacts DEF NewAttempt
  <2>3. \A k \in 1 .. n : tried'[k] = tried[k]
    BY <1>3, AttemptFacts
  <2>4. SUFFICES ASSUME deadline - tried'[1].began >= Len(addrs) * MinAttempt PROVE
            /\ \A k \in 1 .. n + 1 : tried'[k].until - tried'[k].began >= MinAttempt
            /\ deadline - until' >= (Remaining - 1) * MinAttempt
    <3>1. result' = "none"
      BY <2>1 DEF StageInv
    <3>2. Floor' = (Remaining - 1) * MinAttempt
      BY <2>1, Shapes DEF Floor, Remaining
    <3> QED
      BY <2>1, <2>4, <3>1, <3>2 DEF ShareInv
  <2>5. deadline - now >= Remaining * MinAttempt
    <3>1. CASE n = 0
      BY <2>1, <2>2, <2>4, <3>1, Shapes DEF Remaining
    <3>2. CASE n # 0
      <4>1. tried # <<>> /\ tried'[1] = tried[1]
        BY <2>3, <3>2, Shapes
      <4> QED
        BY <2>1, <2>4, <4>1 DEF ShareInv, Floor, Remaining
    <3> QED
      BY <3>1, <3>2
  <2>6. until' - now >= MinAttempt /\ deadline - until' >= (Remaining - 1) * MinAttempt
    BY <2>1, <2>5, Shapes, ShareLeaves
  <2>7. \A k \in 1 .. n : tried'[k].until - tried'[k].began >= MinAttempt
    <3>1. CASE n = 0
      BY <3>1
    <3>2. CASE n # 0
      <4>1. tried # <<>> /\ tried'[1] = tried[1]
        BY <2>3, <3>2, Shapes
      <4> QED
        BY <2>3, <2>4, <4>1, Shapes DEF ShareInv
    <3> QED
      BY <3>1, <3>2
  <2> QED
    BY <2>2, <2>6, <2>7, Shapes
<1>4. CASE GoOn
  <2>1. stage = "failed" /\ UNCHANGED <<now, canceled, deadline, addrs, tried, until>>
    BY <1>4 DEF GoOn
  <2>2. SUFFICES ASSUME tried # <<>>, deadline - tried[1].began >= Len(addrs) * MinAttempt PROVE
            /\ \A k \in DOMAIN tried : tried[k].until - tried[k].began >= MinAttempt
            /\ stage' = "attempt" => deadline - now >= Floor
            /\ stage' \notin {"dialing", "failed"}
            /\ result' = "unreachable" /\ ~canceled => Len(tried) = Len(addrs)
    BY <2>1 DEF ShareInv, Floor
  <2>3. /\ \A k \in DOMAIN tried : tried[k].until - tried[k].began >= MinAttempt
        /\ deadline - until >= Floor /\ now <= until
    BY <2>1, <2>2 DEF ShareInv, TimeInv
  <2>4. Floor \in Nat /\ (Floor = 0 => Len(tried) = Len(addrs))
    <3>1. Len(tried) <= Len(addrs)
      BY DEF TypeOK
    <3>2. Len(addrs) - Len(tried) \in Nat
      BY <3>1, Shapes
    <3>3. \A d, m \in Nat : d * m \in Nat
      OBVIOUS
    <3>4. \A d, m \in Nat : d * m = 0 /\ m > 0 => d = 0
      OBVIOUS
    <3>5. Floor \in Nat
      BY <3>2, <3>3, Shapes DEF Floor
    <3>6. Floor = 0 => Len(addrs) - Len(tried) = 0
      BY <3>2, <3>4, Shapes DEF Floor
    <3>7. Len(tried) \in Nat /\ Len(addrs) \in Nat
      BY Shapes
    <3> QED
      BY <3>5, <3>6, <3>7
  <2>5. stage' \in {"attempt", "over"} /\ (stage' = "over" => Done \/ Len(tried) = Len(addrs))
        /\ (stage' = "attempt" => result' = result)
    BY <1>4 DEF GoOn, Return
  <2>6. deadline - until >= Floor /\ now <= until
    BY <2>3
  <2>7. now \in Nat /\ deadline \in Nat /\ until \in Nat
    BY Shapes
  <2>8. deadline - now >= Floor
    BY <2>4, <2>6, <2>7
  <2>9. Done /\ ~canceled => Len(tried) = Len(addrs)
    <3>1. Done /\ ~canceled => now >= deadline
      BY DEF Done
    <3>2. now >= deadline => Floor = 0
      BY <2>4, <2>7, <2>8
    <3> QED
      BY <2>4, <3>1, <3>2
  <2>10. result = "none"
    BY <2>1 DEF StageInv
  <2> QED
    BY <2>3, <2>5, <2>8, <2>9, <2>10
<1>5. CASE Over
  BY <1>5 DEF Over, vars, given, StageInv, ShareInv, Floor
<1>6. CASE Tick
  BY <1>6 DEF Tick, given, StageInv, ShareInv, Floor
<1>7. CASE Cancel
  BY <1>7 DEF Cancel, given, StageInv, ShareInv, Floor
<1>8. ASSUME NEW found \in Answers, LookupAnswers(found) PROVE ShareInv'
  BY <1>8 DEF LookupAnswers, given, StageInv, ShareInv, Floor
<1>9. CASE LookupFails
  BY <1>9 DEF LookupFails, Return, given, StageInv, ShareInv, Floor
<1>10. CASE Connects
  BY <1>10 DEF Connects, Return, given, StageInv, ShareInv, Floor
<1>11. CASE AttemptFails
  BY <1>11 DEF AttemptFails, given, StageInv, ShareInv, Floor
<1>12. CASE UNCHANGED vars
  BY <1>12 DEF vars, ShareInv, Floor
<1> QED
  BY <1>1, <1>2, <1>3, <1>4, <1>5, <1>6, <1>7, <1>8, <1>9, <1>10, <1>11, <1>12 DEF Next, Runs

-----------------------------------------------------------------------------
(* The theorems.                                                           *)

\* A dial begins in the invariant.
LEMMA DialInvInit == Init => DialInv
<1> SUFFICES ASSUME Init PROVE DialInv
  OBVIOUS
<1>1. timeout \in Timeouts /\ caller \in Callers
  BY DEF Init
<1>2. Timeout \in 1 .. Never - 1 /\ caller \in 0 .. Never
  BY <1>1, DeadlineBounds, TimesAssumption
<1>3. TypeOK
  <2>1. now \in 0 .. Never /\ deadline \in 0 .. Never /\ until \in 0 .. Never
    BY TimesAssumption DEF Init
  <2>2. tried = <<>> /\ addrs = <<>> /\ Len(tried) <= Len(addrs)
    BY DEF Init
  <2> QED
    <3>1. stage = "new" /\ result = "none" /\ canceled = FALSE /\ timeout \in Timeouts /\ host \in Hosts /\ caller \in Callers
      BY DEF Init
    <3>2. tried \in Seq([at : {a \in Address : a.form # "mapped"}, began : 0 .. Never, until : 0 .. Never, live : BOOLEAN])
      BY <2>2
    <3> QED
      BY <2>1, <2>2, <3>1, <3>2 DEF TypeOK
<1>4. TimeInv
  BY <1>2 DEF Init, TimeInv
<1>5. StageInv /\ CheckedInv /\ LiveInv /\ ShareInv
  BY DEF Init, StageInv, CheckedInv, LiveInv, ShareInv
<1> QED
  BY <1>3, <1>4, <1>5 DEF DialInv

\* Every step keeps it.
LEMMA DialInvStep == DialInv /\ [Next]_vars => DialInv'
BY TypeStep, StageStep, CheckedStep, TimeStep, LiveStep, ShareStep DEF DialInv

\* The invariant holds in every dial.
THEOREM DialInvariant == Spec => []DialInv
BY DialInvInit, DialInvStep, PTL DEF Spec

\* Every variable of a dial keeps its type.
THEOREM DialTypeCorrect == Spec => []TypeOK
<1>1. DialInv => TypeOK
  BY DEF DialInv
<1> QED
  BY <1>1, DialInvariant, PTL

\* Whatever a resolver answers, what is dialed is an address that was judged, and
\* private as every other of its host.
THEOREM TriedAreChecked == Spec => []OnlyCheckedAddresses
<1>1. DialInv => OnlyCheckedAddresses
  BY DEF DialInv, CheckedInv, OnlyCheckedAddresses, Contains
<1> QED
  BY <1>1, DialInvariant, PTL

\* However an address stalls, the ones behind it have their least time if there was
\* enough for all.
THEOREM SharesAreFair == Spec => []EachHasItsShare
<1>1. DialInv => EachHasItsShare
  BY DEF DialInv, ShareInv, EachHasItsShare
<1> QED
  BY <1>1, DialInvariant, PTL

\* No dial outlasts its timeout or its caller's deadline, nor goes on for nobody.
THEOREM DialsAreBounded == Spec => []BoundedByItsContext
<1>1. DialInv => BoundedByItsContext
  BY DEF DialInv, TimeInv, LiveInv, BoundedByItsContext, Timeout
<1> QED
  BY <1>1, DialInvariant, PTL

-----------------------------------------------------------------------------
(* The base URL.                                                           *)

\* An entry of a list that is not refused.
Kept(entries) == entries \ Refused(entries)
Pair(e) == <<Canonical(e.host), e.port>>

\* The configuration is that of the options applied.
AppliedInv ==
    /\ allowInsecure => \E i \in 1 .. applied : options[i].is = "AllowInsecure"
    /\ \A i \in 1 .. applied : options[i].is = "AllowPlainInternal" =>
           /\ Refused(options[i].entries) \subseteq refusedEntries
           /\ {Pair(e) : e \in Kept(options[i].entries)} \subseteq plainInternal
    /\ \A p \in plainInternal : \E i \in 1 .. applied :
           /\ options[i].is = "AllowPlainInternal"
           /\ \E e \in Kept(options[i].entries) : p = Pair(e)

\* What Construct has judged: a plain base URL is permitted, and one that is listed is
\* reached over the private transport and no other is.
BuiltInv ==
    /\ status = "options" => transport # "private"
    /\ status # "built" => pool = {} /\ sent = {} /\ location = {}
    /\ status = "built" =>
           /\ applied = Len(options) /\ refusedEntries = {} /\ url.host # NoHost
           /\ Plain => Listed \/ allowInsecure
           /\ Plain /\ Listed => transport = "private"

\* The peers of the private transport were judged, the one of each request among them.
PeerInv ==
    /\ \A s \in sent : s.host = url.host
    /\ transport = "private" =>
           /\ pool \subseteq Ranges \ Metadata
           /\ \A s \in sent : s.peer \in Ranges \ Metadata

ReachInv == ReachTypeOK /\ AppliedInv /\ BuiltInv /\ PeerInv

-----------------------------------------------------------------------------
(* Hosts, and when they are the same.                                      *)

\* A host is an address or a name, never both.
LEMMA HostIs ==
    ASSUME NEW h \in Host
    PROVE  \/ h \in [address : Address] /\ IsAddress(h)
           \/ h \in [name : Names, spelled : Spellings] /\ ~IsAddress(h)
<1>1. ASSUME h \in [address : Address] PROVE IsAddress(h)
  BY <1>1 DEF IsAddress
<1>2. ASSUME h \in [name : Names, spelled : Spellings] PROVE ~IsAddress(h)
  BY <1>2, "name" \in DOMAIN h, "name" # "address" DEF IsAddress
<1> QED
  BY <1>1, <1>2 DEF Host

\* The values of Canonical: those of names are no addresses.
LEMMA CanonicalIs ==
    ASSUME NEW h \in Host
    PROVE  /\ Canonical(h) \in Names \cup {b \in Address : b.form # "mapped"}
           /\ Canonical(h) \in Address <=> IsAddress(h)
BY HostIs, UnmapType, ReachAssumption DEF Canonical

\* Two hosts an entry can name are compared rightly.
LEMMA EqualIsSame ==
    ASSUME NEW h1 \in Host, NEW h2 \in Host,
           Nameable(h1), Nameable(h2), Canonical(h1) = Canonical(h2)
    PROVE  SameHost(h1, h2)
<1>1. IsAddress(h1) <=> IsAddress(h2)
  BY CanonicalIs
<1>2. CASE IsAddress(h1)
  BY <1>1, <1>2 DEF SameHost, Nameable, Canonical, Contains
<1>3. CASE ~IsAddress(h1)
  BY <1>1, <1>3, HostIs DEF SameHost, Nameable, Canonical, Spellings
<1> QED
  BY <1>2, <1>3

\* A host that is the same as one an entry names is found under it.
LEMMA SameIsEqual ==
    ASSUME NEW h1 \in Host, NEW h2 \in Host, Nameable(h1), SameHost(h1, h2)
    PROVE  Nameable(h2) /\ Canonical(h1) = Canonical(h2)
BY DEF SameHost, Nameable, Canonical, Contains

\* A peer that was judged is on a private network, and no metadata service.
LEMMA JudgedIsPrivate ==
    ASSUME NEW a, Contains(a)
    PROVE  Unmap(a) \in Ranges \ Metadata
BY DEF Contains

-----------------------------------------------------------------------------
\* What options and base URLs are made of.
LEMMA ReachShapes ==
    ASSUME ReachTypeOK
    PROVE  /\ options \in Seq(Option) /\ Len(options) \in Nat /\ DOMAIN options = 1 .. Len(options)
           /\ url.host \in Host \cup {NoHost}
           /\ \A i \in DOMAIN options : options[i].is = "AllowPlainInternal" =>
                  options[i].entries \subseteq [host : Host, port : Ports]
<1>1. options \in Seq(Option)
  BY ReachAssumption DEF ReachTypeOK
<1>2. \A o \in Option : o.is = "AllowPlainInternal" => o.entries \subseteq [host : Host, port : Ports]
  BY DEF Option
<1>3. url.host \in Host \cup {NoHost}
  BY ReachAssumption DEF ReachTypeOK
<1> QED
  BY <1>1, <1>2, <1>3

LEMMA ReachInvInit == ReachInit => ReachInv
<1> SUFFICES ASSUME ReachInit PROVE ReachInv
  OBVIOUS
<1>1. options \in Seq(Option)
  BY ReachAssumption DEF ReachInit
<1>2. ReachTypeOK
  <2>1. Len(options) \in Nat
    BY <1>1
  <2>2. /\ options \in OptionLists /\ url \in URLs /\ applied \in 0 .. Len(options)
        /\ transport \in {"default", "caller", "private"}
    BY <2>1 DEF ReachInit
  <2>3. allowInsecure \in BOOLEAN
    BY Zenon DEF ReachInit
  <2>4. plainInternal = {} /\ pool = {} /\ sent = {} /\ location = {} /\ status = "options"
    BY DEF ReachInit
  <2> QED
    BY <2>2, <2>3, <2>4 DEF ReachTypeOK
<1>3. AppliedInv /\ BuiltInv /\ PeerInv
  BY DEF ReachInit, AppliedInv, BuiltInv, PeerInv
<1> QED
  BY <1>2, <1>3 DEF ReachInv

\* Each option adds what it says to the configuration.
LEMMA ApplyStep == ASSUME ReachInv, ApplyOption PROVE ReachInv'
<1> USE DEF ReachInv
<1> DEFINE i == applied + 1
           o == options[i]
<1>1. /\ applied \in Nat /\ i \in DOMAIN options /\ applied' = i /\ options' = options /\ url' = url
      /\ status = "options" /\ status' = "options" /\ pool = {} /\ sent = {} /\ pool' = {} /\ sent' = {}
      /\ location = {} /\ location' = {}
      /\ \A j \in 1 .. i : j \in 1 .. applied \/ j = i
      /\ 1 .. applied \subseteq 1 .. i /\ i \in 1 .. i
  BY ReachShapes DEF ApplyOption, ReachTypeOK, BuiltInv
<1>2. NextOption = o
  BY DEF NextOption
<1>3. CASE o.is = "AllowInsecure"
  <2>1. allowInsecure' = TRUE /\ UNCHANGED <<plainInternal, transport, refusedEntries>>
    BY <1>2, <1>3 DEF ApplyOption
  <2>2. ReachTypeOK'
    BY <1>1, <2>1, ReachShapes DEF ReachTypeOK
  <2>3. AppliedInv'
    BY <1>1, <1>3, <2>1 DEF AppliedInv
  <2> QED
    BY <1>1, <2>1, <2>2, <2>3 DEF BuiltInv, PeerInv
<1>4. CASE o.is = "Transport"
  <2>1. transport' = "caller" /\ UNCHANGED <<allowInsecure, plainInternal, refusedEntries>>
    BY <1>2, <1>4 DEF ApplyOption
  <2>2. ReachTypeOK'
    BY <1>1, <2>1, ReachShapes DEF ReachTypeOK
  <2>3. AppliedInv'
    BY <1>1, <1>4, <2>1 DEF AppliedInv
  <2> QED
    BY <1>1, <2>1, <2>2, <2>3 DEF BuiltInv, PeerInv
<1>5. CASE o.is = "AllowPlainInternal"
  <2> DEFINE added == {Pair(e) : e \in Kept(o.entries)}
  <2>1. /\ refusedEntries' = refusedEntries \cup Refused(o.entries)
        /\ plainInternal' = plainInternal \cup added
        /\ UNCHANGED <<allowInsecure, transport>>
    BY <1>2, <1>5 DEF ApplyOption, Pair, Kept
  <2>2. added \subseteq (Names \cup {a \in Address : a.form # "mapped"}) \X ValidPorts
    <3> SUFFICES ASSUME NEW e \in Kept(o.entries)
                 PROVE  Pair(e) \in (Names \cup {a \in Address : a.form # "mapped"}) \X ValidPorts
      OBVIOUS
    <3>1. e \in [host : Host, port : Ports]
      BY <1>1, <1>5, ReachShapes DEF Kept
    <3>2. e.port \in ValidPorts
      BY DEF Kept, Refused
    <3> QED
      BY <3>1, <3>2, CanonicalIs DEF Pair
  <2>3. ReachTypeOK'
    BY <1>1, <2>1, <2>2, ReachShapes DEF ReachTypeOK
  <2>4. AppliedInv'
    <3>1. allowInsecure' => \E j \in 1 .. applied' : options'[j].is = "AllowInsecure"
      BY <1>1, <2>1 DEF AppliedInv
    <3>2. ASSUME NEW j \in 1 .. applied', options'[j].is = "AllowPlainInternal"
          PROVE  /\ Refused(options'[j].entries) \subseteq refusedEntries'
                 /\ {Pair(e) : e \in Kept(options'[j].entries)} \subseteq plainInternal'
      <4>1. CASE j = i
        BY <1>1, <2>1, <4>1
      <4>2. CASE j \in 1 .. applied
        BY <1>1, <2>1, <3>2, <4>2 DEF AppliedInv
      <4> QED
        BY <1>1, <4>1, <4>2
    <3>3. ASSUME NEW p \in plainInternal'
          PROVE  \E j \in 1 .. applied' : /\ options'[j].is = "AllowPlainInternal"
                                          /\ \E e \in Kept(options'[j].entries) : p = Pair(e)
      <4>1. CASE p \in added
        BY <1>1, <1>5, <4>1
      <4>2. CASE p \in plainInternal
        BY <1>1, <4>2 DEF AppliedInv
      <4> QED
        BY <2>1, <4>1, <4>2
    <3> QED
      BY <3>1, <3>2, <3>3 DEF AppliedInv, Refused, Kept, Pair, Canonical, Nameable
  <2> QED
    BY <1>1, <2>1, <2>3, <2>4 DEF BuiltInv, PeerInv
<1> QED
  BY <1>2, <1>3, <1>4, <1>5 DEF ApplyOption

\* Construct judges the base URL by all the options.
LEMMA ConstructStep == ASSUME ReachInv, Construct PROVE ReachInv'
<1> USE DEF ReachInv
<1>1. /\ UNCHANGED <<options, url, applied, allowInsecure, plainInternal, refusedEntries, pool, sent, location>>
      /\ applied = Len(options) /\ status = "options" /\ pool = {} /\ sent = {} /\ location = {}
      /\ status' \in {"refused", "built"}
  BY DEF Construct, BuiltInv
<1>2. (Plain <=> Plain') /\ (Listed <=> Listed')
  BY <1>1 DEF Plain, Listed
<1>3. ReachTypeOK' /\ AppliedInv'
  BY <1>1 DEF ReachTypeOK, AppliedInv, Construct
<1>4. BuiltInv'
  BY <1>1, <1>2 DEF BuiltInv, Construct
<1>5. PeerInv'
  BY <1>1 DEF PeerInv
<1> QED
  BY <1>3, <1>4, <1>5

\* Connections go where the transport lets them, and requests over connections.
LEMMA ConnectStep == ASSUME ReachInv, Connect PROVE ReachInv'
<1> USE DEF ReachInv
<1>1. PICK peer \in Peers(url.host) : pool' = pool \cup {peer}
  BY DEF Connect
<1>2. status = "built" /\ UNCHANGED <<options, url, applied, config, status, sent, location>>
  BY DEF Connect
<1>3. url.host \in Host
  BY <1>2, ReachShapes DEF BuiltInv
<1>4. \A found \in Found(url.host) : found \subseteq Address
  <2>1. CASE IsAddress(url.host)
    BY <1>3, <2>1, HostIs DEF Found
  <2>2. CASE ~IsAddress(url.host)
    BY <2>2, ReachAssumption DEF Found
  <2> QED
    BY <2>1, <2>2
<1>5. transport = "private" => peer \in Ranges \ Metadata
  BY JudgedIsPrivate DEF Peers
<1>6. peer \in Address \cup {Proxy}
  BY <1>4, UnmapType DEF Peers
<1>7. ReachTypeOK' /\ AppliedInv'
  BY <1>1, <1>2, <1>6 DEF ReachTypeOK, AppliedInv, config
<1>8. BuiltInv'
  BY <1>2 DEF BuiltInv, config, Plain, Listed
<1>9. PeerInv'
  BY <1>1, <1>2, <1>5 DEF PeerInv, config
<1> QED
  BY <1>7, <1>8, <1>9

LEMMA CloseStep == ASSUME ReachInv, Close PROVE ReachInv'
<1> USE DEF ReachInv
<1>1. pool' \subseteq pool /\ status = "built" /\ UNCHANGED <<options, url, applied, config, status, sent, location>>
  BY DEF Close, BuiltInv
<1>2. ReachTypeOK' /\ AppliedInv'
  BY <1>1 DEF ReachTypeOK, AppliedInv, config
<1>3. BuiltInv'
  BY <1>1 DEF BuiltInv, config, Plain, Listed
<1>4. PeerInv'
  BY <1>1 DEF PeerInv, config
<1> QED
  BY <1>2, <1>3, <1>4

LEMMA SendStep == ASSUME ReachInv, Send PROVE ReachInv'
<1> USE DEF ReachInv
<1>1. PICK peer \in pool : sent' = {[host |-> url.host, peer |-> peer]}
  BY DEF Send
<1>2. status = "built" /\ location' = {} /\ UNCHANGED <<options, url, applied, config, status, pool>>
  BY DEF Send
<1>3. ReachTypeOK' /\ AppliedInv'
  BY <1>1, <1>2 DEF ReachTypeOK, AppliedInv, config
<1>4. BuiltInv'
  BY <1>2 DEF BuiltInv, config, Plain, Listed
<1>5. PeerInv'
  BY <1>1, <1>2 DEF PeerInv, config
<1> QED
  BY <1>3, <1>4, <1>5

\* A redirect changes nothing about the last request, as it comes or as it is read.
LEMMA RedirectStep == ASSUME ReachInv, Redirect \/ CheckRedirect PROVE ReachInv'
<1> USE DEF ReachInv
<1>1. /\ location' \subseteq Elsewhere /\ status = "built"
      /\ UNCHANGED <<options, url, applied, config, status, pool, sent>>
  BY DEF Redirect, CheckRedirect, BuiltInv
<1>2. ReachTypeOK' /\ AppliedInv'
  BY <1>1 DEF ReachTypeOK, AppliedInv, config
<1>3. BuiltInv'
  BY <1>1 DEF BuiltInv, config, Plain, Listed
<1>4. PeerInv'
  BY <1>1 DEF PeerInv, config
<1> QED
  BY <1>2, <1>3, <1>4

LEMMA ReachStep == ASSUME ReachInv, [ReachNext]_reachVars PROVE ReachInv'
<1>1. CASE UNCHANGED reachVars
  BY <1>1 DEF reachVars, ReachInv, ReachTypeOK, AppliedInv, BuiltInv, PeerInv, Plain, Listed
<1> QED
  BY <1>1, ApplyStep, ConstructStep, ConnectStep, CloseStep, SendStep, RedirectStep DEF ReachNext, ReachOver

LEMMA ReachInvHolds == ReachSpec => []ReachInv
<1>1. ReachInv /\ [ReachNext]_reachVars => ReachInv'
  BY ReachStep
<1> QED
  BY <1>1, ReachInvInit, PTL DEF ReachSpec

-----------------------------------------------------------------------------
\* Every variable of an endpoint's construction and connections keeps its type.
THEOREM ReachTypeCorrect == ReachSpec => []ReachTypeOK
<1>1. ReachInv => ReachTypeOK
  BY DEF ReachInv
<1> QED
  BY <1>1, ReachInvHolds, PTL

\* The base URL of an endpoint that was built is found among the pairs kept exactly if
\* some option lists it.
LEMMA ListedIsListed == ASSUME ReachInv, status = "built" PROVE Listed <=> IsListed
<1> USE DEF ReachInv
<1>1. /\ applied = Len(options) /\ refusedEntries = {} /\ url.host \in Host
      /\ DOMAIN options = 1 .. applied
  BY ReachShapes DEF BuiltInv
<1>2. ASSUME Listed PROVE IsListed
  <2>1. PICK i \in 1 .. applied :
             /\ options[i].is = "AllowPlainInternal"
             /\ \E e \in Kept(options[i].entries) : <<Canonical(url.host), Port(url)>> = Pair(e)
    BY <1>2 DEF Listed, AppliedInv
  <2>2. PICK e \in Kept(options[i].entries) : <<Canonical(url.host), Port(url)>> = Pair(e)
    BY <2>1
  <2>3. e \in options[i].entries /\ Nameable(e.host) /\ e.host \in Host
    BY <1>1, <2>1, ReachShapes DEF Kept, Refused
  <2>4. Canonical(e.host) = Canonical(url.host) /\ e.port = Port(url)
    BY <2>2 DEF Pair
  <2>5. SameHost(e.host, url.host)
    BY <1>1, <1>2, <2>3, <2>4, EqualIsSame DEF Listed
  <2>6. e \in Entries
    BY <1>1, <2>1, <2>3 DEF Entries, Given
  <2> QED
    BY <2>4, <2>5, <2>6 DEF IsListed, Port
<1>3. ASSUME IsListed PROVE Listed
  <2>1. PICK e \in Entries : SameHost(e.host, url.host) /\ e.port = Port(url)
    BY <1>3 DEF IsListed, Port
  <2>2. PICK i \in DOMAIN options : options[i].is = "AllowPlainInternal" /\ e \in options[i].entries
    BY <2>1 DEF Entries, Given
  <2>3. e \notin Refused(options[i].entries) /\ Pair(e) \in plainInternal
    BY <1>1, <2>2 DEF AppliedInv, Kept
  <2>4. Nameable(e.host) /\ e.host \in Host
    BY <2>2, <2>3, ReachShapes DEF Refused
  <2>5. Nameable(url.host) /\ Canonical(e.host) = Canonical(url.host)
    BY <1>1, <2>1, <2>4, SameIsEqual
  <2> QED
    BY <2>1, <2>3, <2>5 DEF Listed, Pair
<1> QED
  BY <1>2, <1>3

\* Only where it is permitted, and only to the configured backend, is a credential sent in
\* plaintext: for any options in any order, any spelling of a host and any redirect.
THEOREM PlaintextPermitted == ReachSpec => []PlaintextIsPermitted
<1>1. ASSUME ReachInv PROVE PlaintextIsPermitted
  <2> USE <1>1 DEF ReachInv
  <2>1. \A s \in sent : s.host = url.host
    BY DEF PeerInv
  <2>2. ASSUME sent # {}, url.scheme = "http" PROVE OnTheHost \/ IsListed \/ Given("AllowInsecure") # {}
    <3>1. status = "built" /\ (Plain => Listed \/ allowInsecure)
      BY <2>2 DEF BuiltInv
    <3>2. allowInsecure => Given("AllowInsecure") # {}
      BY <3>1, ReachShapes DEF AppliedInv, BuiltInv, Given
    <3>3. ~Plain => OnTheHost
      BY <2>2 DEF Plain, IsLoopback, OnTheHost
    <3> QED
      BY <3>1, <3>2, <3>3, ListedIsListed
  <2> QED
    BY <2>1, <2>2 DEF PlaintextIsPermitted
<1> QED
  BY <1>1, ReachInvHolds, PTL

\* A listed base URL is reached at private addresses only, however its name resolves.
THEOREM ListedStaysPrivate == ReachSpec => []ListedIsPrivate
<1>1. ASSUME ReachInv PROVE ListedIsPrivate
  <2> USE <1>1 DEF ReachInv
  <2> SUFFICES ASSUME sent # {}, url.scheme = "http", ~OnTheHost, IsListed
               PROVE  \A s \in sent : s.peer \in Ranges \ Metadata
    BY DEF ListedIsPrivate
  <2>1. status = "built"
    BY DEF BuiltInv
  <2>2. Plain /\ Listed
    BY <2>1, ListedIsListed DEF Plain, IsLoopback, OnTheHost
  <2> QED
    BY <2>1, <2>2 DEF BuiltInv, PeerInv
<1> QED
  BY <1>1, ReachInvHolds, PTL
==============================================================================
