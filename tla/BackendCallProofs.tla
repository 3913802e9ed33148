------------------------- MODULE BackendCallProofs --------------------------
(***************************************************************************)
(* BackendCall's safety, for any bodies, statuses and bounds a backend and *)
(* an endpoint may have.                                                   *)
(***************************************************************************)
EXTENDS BackendCall, TLAPS

\* Nothing was returned yet, and nothing failed before the answer came.
Early ==
    /\ stage \notin {"returned", "told"} => result = Pending /\ left = "live" /\ told = Pending
    /\ stage \in {"new", "sending", "unsent"} => status = 0 /\ data = 0
    /\ stage \in {"new", "sending", "reading"} => broken = "no"
    /\ stage \in {"sending", "unsent", "reading", "read", "evaluate"} => identified
    /\ confirm => endpoint = "o3co"

\* The answer that is read: to its end, to the limit or broken off.
Reading ==
    stage \in {"reading", "read", "evaluate"} =>
        /\ body \in Bodies[endpoint]
        /\ data <= body.length
        /\ stage # "reading" /\ broken = "no" => data = body.length \/ data = Limit

\* The kinds of the caller's own ending are in an error only if it ended so.
OwnEnding(r, end) ==
    r # Allow =>
        /\ "canceled" \in r => end = "canceled"
        /\ "deadline" \in r => end = "deadline"

Returned ==
    stage \in {"returned", "told"} =>
        /\ OwnEnding(result, left)
        /\ endpoint = "o3co" /\ status = 403 /\ left = "live" => result = {"denied"}
        /\ stage = "told" => result # Allow
        /\ stage = "returned" => told = Pending

\* The inductive invariant.
CallInv ==
    /\ TypeOK /\ Early /\ Reading /\ Returned
    /\ OnlyWholeAllows /\ DenialIsAnswered /\ EndingIsTheCallers /\ DenialStands

-----------------------------------------------------------------------------
(* The mapping, the bound and the bodies.                                  *)

\* Every failure has a code, whatever kinds it is and however the context ended.
LEMMA CodeOfIsCode == ASSUME NEW e, NEW f PROVE CodeOf(e, f) \in Codes
BY DEF CodeOf, Codes

\* What decides a code is among the kinds of the error.
LEMMA CodeOfCase ==
    ASSUME NEW e, NEW f
    PROVE  /\ CodeOf(e, f) = "Canceled" => "canceled" \in f
           /\ CodeOf(e, f) = "DeadlineExceeded" => "deadline" \in f
BY DEF CodeOf

\* A denial is PermissionDenied, however the context ended.
LEMMA CodeOfDenial == ASSUME NEW e PROVE CodeOf(e, {"denied"}) = "PermissionDenied"
BY DEF CodeOf

\* The limit is one past the bound, or both are the largest integer.
LEMMA LimitFacts ==
    ASSUME TypeOK
    PROVE  /\ bound \in Nat /\ Limit \in Nat
           /\ Limit = bound + 1 \/ (Limit = bound /\ bound = MaxInt)
  BY BodiesAssumption DEF TypeOK, Limit

\* A body's length is a natural number the integers can hold.
LEMMA BodyFacts ==
    ASSUME TypeOK, body \in Bodies[endpoint]
    PROVE  body.length \in Nat /\ body.length <= MaxInt
<1>1. body \in Body /\ body.length <= MaxInt
  BY BodiesAssumption DEF TypeOK
<1> QED
  BY <1>1 DEF Body

\* Results are told apart.
LEMMA ResultFacts ==
    /\ Allow # Pending /\ Pending \notin Codes
    /\ \A r \in SUBSET KindSet : r # Allow /\ r # Pending
  BY ResultsAssumption

-----------------------------------------------------------------------------
(* What Verify may return.                                                 *)

\* An error of the request is one of the kinds, and its ending the caller's.
LEMMA RequestErrors ==
    ASSUME TypeOK
    PROVE  /\ RequestError \in SUBSET KindSet /\ OwnEnding(RequestError, ended)
           /\ "denied" \notin RequestError
  BY DEF TypeOK, RequestError, KindSet, OwnEnding, Endings

LEMMA StatusErrors ==
    ASSUME TypeOK
    PROVE  StatusError \in SUBSET {"unavailable"}
  BY DEF StatusError

\* What is read without failing and within the bound is the whole body.
LEMMA WholeIsWhole ==
    ASSUME CallInv, stage = "evaluate", broken = "no", ~Oversized
    PROVE  ReadWhole
<1>1. TypeOK /\ data \in 0 .. Limit /\ body \in Bodies[endpoint] /\ data <= body.length
      /\ (data = body.length \/ data = Limit)
  BY DEF CallInv, TypeOK, Reading
<1>2. bound \in Nat /\ Limit \in Nat /\ (Limit = bound + 1 \/ (Limit = bound /\ bound = MaxInt))
  BY <1>1, LimitFacts
<1>3. body.length \in Nat /\ body.length <= MaxInt
  BY <1>1, BodyFacts
<1>4. data <= bound
  BY <1>1, <1>2 DEF Oversized
<1>5. data = body.length
  BY <1>1, <1>2, <1>3, <1>4, BodiesAssumption
<1>6. body # Pending
  BY <1>1, ResultsAssumption DEF TypeOK
<1> QED
  BY <1>4, <1>5, <1>6 DEF ReadWhole

\* What a verdict may be, endpoint by endpoint.
VerdictInv(v) ==
    /\ v = Allow \/ v \in SUBSET KindSet
    /\ OwnEnding(v, ended)
    /\ v = Allow =>
        /\ ReadWhole /\ SaysAllow
        /\ confirm => RevisionConfirmed(body.content.groups)
    /\ v # Allow /\ "denied" \in v =>
        IF endpoint = "o3co" THEN status = 403
        ELSE Success /\ ReadWhole /\ body.content # NotObject /\ ~SaysAllow
    /\ endpoint = "o3co" /\ status = 403 => v = {"denied"}

\* What was read to its end is what decodeObject reads from.
LEMMA ObjectOfWhole ==
    ASSUME CallInv, stage = "evaluate", ~Oversized, Object # NotObject
    PROVE  ReadWhole /\ Object = body.content
<1>1. broken = "no"
  BY DEF Object
<1>2. ReadWhole
  BY <1>1, WholeIsWhole
<1> QED
  BY <1>1, <1>2 DEF Object, ReadWhole

LEMMA O3coVerdict ==
    ASSUME CallInv, stage = "evaluate", endpoint = "o3co"
    PROVE  VerdictInv(O3co)
<1>1. TypeOK
  BY DEF CallInv
<1>2. RequestError \in SUBSET KindSet /\ OwnEnding(RequestError, ended)
      /\ "denied" \notin RequestError
  BY <1>1, RequestErrors
<1>3. StatusError \in SUBSET {"unavailable"}
  BY <1>1, StatusErrors
<1>4. ASSUME AcceptAllow
      PROVE  /\ ReadWhole /\ SaysAllow
             /\ confirm => RevisionConfirmed(body.content.groups)
  <2>1. ~Oversized /\ Object # NotObject
    BY <1>4 DEF AcceptAllow, WholeEnvelope
  <2>2. ReadWhole /\ Object = body.content
    BY <2>1, ObjectOfWhole
  <2>3. Success
    BY <1>4 DEF AcceptAllow, Success
  <2> QED
    BY <1>4, <2>1, <2>2, <2>3 DEF AcceptAllow, WholeEnvelope, SaysAllow
<1>5. status \in Int
  BY <1>1, BodiesAssumption DEF TypeOK
<1>6. CASE Success
  <2>1. status # 403
    BY <1>5, <1>6 DEF Success
  <2>2. CASE broken # "no"
    <3>1. O3co = RequestError
      BY <1>6, <2>2 DEF O3co
    <3> QED
      BY <1>2, <2>1, <3>1, ResultFacts DEF VerdictInv
  <2>3. CASE broken = "no" /\ AcceptAllow
    <3>1. O3co = Allow
      BY <1>6, <2>3 DEF O3co
    <3> QED
      BY <1>4, <2>1, <2>3, <3>1 DEF VerdictInv, OwnEnding
  <2>4. CASE broken = "no" /\ ~AcceptAllow
    <3>1. O3co = {}
      BY <1>6, <2>4 DEF O3co
    <3> QED
      BY <2>1, <3>1, ResultFacts DEF VerdictInv, OwnEnding
  <2> QED
    BY <2>2, <2>3, <2>4
<1>7. CASE ~Success /\ status = 403
  <2>1. O3co = {"denied"}
    BY <1>7 DEF O3co
  <2>2. {"denied"} \in SUBSET KindSet
    BY DEF KindSet
  <2> QED
    BY <1>7, <2>1, <2>2, ResultFacts DEF VerdictInv, OwnEnding
<1>8. CASE ~Success /\ status # 403
  <2>1. O3co \in SUBSET {"unauthenticated", "unavailable"}
    BY <1>3, <1>8 DEF O3co
  <2>2. O3co \in SUBSET KindSet
    BY <2>1 DEF KindSet
  <2> QED
    BY <1>8, <2>1, <2>2, ResultFacts DEF VerdictInv, OwnEnding
<1> QED
  BY <1>6, <1>7, <1>8

\* OPA and Cedar, whatever allows and whatever is no answer.
LEMMA DataVerdict ==
    ASSUME CallInv, stage = "evaluate", endpoint # "o3co", NEW allows, NEW unreadable,
           allows \in BOOLEAN,
           ~Oversized /\ Object # NotObject /\ Success =>
               (allows <=> SaysAllow)
    PROVE  VerdictInv(Data(allows, unreadable))
<1>1. TypeOK /\ ~confirm
  BY DEF CallInv, Early
<1>2. RequestError \in SUBSET KindSet /\ OwnEnding(RequestError, ended)
      /\ "denied" \notin RequestError
  BY <1>1, RequestErrors
<1>3. CASE ~Success
  <2>1. Data(allows, unreadable) \in SUBSET {"unavailable"}
    BY <1>1, <1>3, StatusErrors DEF Data
  <2>2. Data(allows, unreadable) \in SUBSET KindSet
    BY <2>1 DEF KindSet
  <2> QED
    BY <1>1, <2>1, <2>2, ResultFacts DEF VerdictInv, OwnEnding
<1>4. CASE Success /\ broken # "no"
  <2>1. Data(allows, unreadable) = RequestError
    BY <1>4 DEF Data
  <2> QED
    BY <1>1, <1>2, <2>1, ResultFacts DEF VerdictInv
<1>5. CASE Success /\ broken = "no" /\ (Oversized \/ Object = NotObject \/ unreadable)
  <2>1. Data(allows, unreadable) = {}
    BY <1>5 DEF Data
  <2> QED
    BY <1>1, <2>1, ResultFacts DEF VerdictInv, OwnEnding
<1>6. CASE Success /\ broken = "no" /\ ~(Oversized \/ Object = NotObject \/ unreadable)
  <2>1. ReadWhole /\ Object = body.content
    BY <1>6, ObjectOfWhole
  <2>2. Data(allows, unreadable) = IF allows THEN Allow ELSE {"denied"}
    BY <1>6 DEF Data
  <2>3. allows <=> SaysAllow
    BY <1>6
  <2>4. {"denied"} \in SUBSET KindSet
    BY DEF KindSet
  <2>5. CASE allows
    <3>1. Data(allows, unreadable) = Allow
      BY <2>2, <2>5
    <3> QED
      BY <1>1, <2>1, <2>3, <2>5, <3>1 DEF VerdictInv, OwnEnding
  <2>6. CASE ~allows
    <3>1. Data(allows, unreadable) = {"denied"}
      BY <2>2, <2>6
    <3> QED
      BY <1>1, <1>6, <2>1, <2>3, <2>4, <2>6, <3>1, ResultFacts DEF VerdictInv, OwnEnding
  <2> QED
    BY <2>5, <2>6
<1> QED
  BY <1>3, <1>4, <1>5, <1>6

\* What Verify returns after the answer was read.
LEMMA VerdictFacts ==
    ASSUME CallInv, stage = "evaluate"
    PROVE  VerdictInv(Verdict)
<1>1. CASE endpoint = "o3co"
  <2>1. Verdict = O3co
    BY <1>1 DEF Verdict
  <2> QED
    BY <1>1, <2>1, O3coVerdict
<1>2. CASE endpoint = "opa"
  <2>1. Verdict = Data(Object.result = "true", Object.result = "other")
    BY <1>2 DEF Verdict, OPA
  <2>2. ~Oversized /\ Object # NotObject /\ Success =>
            ((Object.result = "true") <=> SaysAllow)
    BY <1>2, ObjectOfWhole DEF SaysAllow
  <2>3. VerdictInv(Data(Object.result = "true", Object.result = "other"))
    BY <1>2, <2>2, DataVerdict
  <2> QED
    BY <2>1, <2>3
<1>3. CASE endpoint \notin {"o3co", "opa"}
  <2>1. Verdict = Data(Object.decision = "Allow", FALSE)
    BY <1>3 DEF Verdict, Cedar
  <2>2. ~Oversized /\ Object # NotObject /\ Success =>
            ((Object.decision = "Allow") <=> SaysAllow)
    BY <1>3, ObjectOfWhole DEF SaysAllow
  <2>3. VerdictInv(Data(Object.decision = "Allow", FALSE))
    BY <1>3, <2>2, DataVerdict
  <2> QED
    BY <2>1, <2>3
<1> QED
  BY <1>1, <1>2, <1>3

-----------------------------------------------------------------------------
(* Every step keeps the invariant.                                         *)

\* What a revision must be confirmed for, as OnlyWholeAllows says it.
Grounded ==
    LET granting == {i \in DOMAIN body.content.groups :
                        body.content.groups[i].restricts # "true"}
    IN  /\ granting # {}
        /\ \A i \in granting : Confirmed(body.content.groups[i].satisfiedBy)

LEMMA ConfirmedIsGrounded == RevisionConfirmed(body.content.groups) => Grounded
  BY DEF RevisionConfirmed, Grounded

\* What may be returned from here.
Returnable(r) ==
    /\ r = Allow \/ r \in SUBSET KindSet
    /\ OwnEnding(r, ended)
    /\ r = Allow => identified /\ ReadWhole /\ SaysAllow /\ (confirm => Grounded)
    /\ r # Allow /\ "denied" \in r =>
        IF endpoint = "o3co" THEN status = 403
        ELSE Success /\ ReadWhole /\ body.content # NotObject /\ ~SaysAllow
    /\ endpoint = "o3co" /\ status = 403 /\ ended = "live" => r = {"denied"}

\* The answer, as it was, says what it said.
LEMMA SameAnswer ==
    ASSUME UNCHANGED <<config, answer>>
    PROVE  /\ UNCHANGED <<Limit, ReadWhole, Success, Object, Oversized>>
           /\ (SaysAllow)' = SaysAllow
           /\ (Grounded)' = Grounded
<1>1. UNCHANGED <<endpoint, confirm, bound, identified, status, body, data, broken>>
  BY DEF config, answer
<1> QED
  BY <1>1 DEF Limit, ReadWhole, Success, Object, Oversized, SaysAllow, Grounded

LEMMA StartsWell == Init => CallInv
<1> SUFFICES ASSUME Init PROVE CallInv
  OBVIOUS
<1>1. TypeOK
  <2>1. bound \in Nat /\ Limit \in Nat
    BY BodiesAssumption DEF Init, Limit
  <2>2. confirm \in BOOLEAN
    <3>1. CASE endpoint = "o3co"
      BY <3>1 DEF Init
    <3>2. CASE endpoint # "o3co"
      <4>1. confirm \in {FALSE}
        BY <3>2 DEF Init
      <4> QED
        BY <4>1
    <3> QED
      BY <3>1, <3>2
  <2>3. data \in 0 .. Limit
    BY <2>1 DEF Init
  <2> QED
    BY <2>2, <2>3 DEF Init, TypeOK, Endings
<1>2. Early
  BY DEF Init, Early
<1>3. Reading /\ Returned
  BY DEF Init, Reading, Returned
<1>4. OnlyWholeAllows /\ DenialIsAnswered /\ EndingIsTheCallers /\ DenialStands
  BY ResultFacts DEF Init, OnlyWholeAllows, DenialIsAnswered, EndingIsTheCallers, DenialStands, Codes
<1> QED
  BY <1>1, <1>2, <1>3, <1>4 DEF CallInv

LEMMA ReturnKeeps ==
    ASSUME CallInv, NEW r, Returnable(r), Return(r), UNCHANGED <<config, ended, answer>>,
           stage \notin {"returned", "told"}
    PROVE  CallInv'
<1>1. UNCHANGED <<endpoint, confirm, bound, identified, ended, status, body, data, broken, told>>
  BY DEF config, answer, Return
<1>2. stage' = "returned" /\ result' = r /\ left' = ended /\ told = Pending
  BY DEF Return, CallInv, Early
<1>3. /\ UNCHANGED <<Limit, ReadWhole, Success>>
      /\ (SaysAllow)' = SaysAllow
      /\ (Grounded)' = Grounded
  BY SameAnswer DEF config, answer
<1>4. TypeOK'
  BY <1>1, <1>2, <1>3 DEF CallInv, TypeOK, Returnable
<1>5. Early' /\ Reading'
  BY <1>1, <1>2 DEF CallInv, Early, Reading
<1>6. Returned'
  BY <1>1, <1>2 DEF Returned, Returnable
<1>7. OnlyWholeAllows'
  <2>1. result' = Allow => identified' /\ ReadWhole' /\ SaysAllow' /\ (confirm' => Grounded')
    BY <1>1, <1>2, <1>3 DEF Returnable
  <2> QED
    BY <2>1 DEF OnlyWholeAllows, Grounded
<1>8. DenialIsAnswered'
  BY <1>1, <1>2, <1>3 DEF DenialIsAnswered, Returnable
<1>9. EndingIsTheCallers' /\ DenialStands'
  BY <1>1, <1>2, ResultFacts DEF EndingIsTheCallers, DenialStands, Codes
<1> QED
  BY <1>4, <1>5, <1>6, <1>7, <1>8, <1>9 DEF CallInv

\* While nothing was returned, a step has only its type and place to keep.
LEMMA GoesOn ==
    ASSUME CallInv, TypeOK', Early', Reading',
           stage \notin {"returned", "told"}, stage' \notin {"returned", "told"}
    PROVE  CallInv'
<1>1. result' = Pending /\ told' = Pending
  BY DEF Early
<1>2. OnlyWholeAllows' /\ DenialIsAnswered' /\ EndingIsTheCallers' /\ DenialStands'
  BY <1>1, ResultFacts DEF OnlyWholeAllows, DenialIsAnswered, EndingIsTheCallers,
     DenialStands, Codes
<1>3. Returned'
  BY DEF Returned
<1> QED
  BY <1>2, <1>3 DEF CallInv

LEMMA BeginKeeps == CallInv /\ Begin => CallInv'
<1> SUFFICES ASSUME CallInv, Begin PROVE CallInv'
  OBVIOUS
<1>1. stage = "new" /\ status = 0 /\ UNCHANGED <<config, ended, answer>>
  BY DEF CallInv, Early, Begin
<1>2. CASE identified /\ stage' = "sending" /\ UNCHANGED outcome
  <2>1. TypeOK'
    BY <1>1, <1>2 DEF CallInv, TypeOK, config, answer, outcome, Limit
  <2>2. Early' /\ Reading'
    BY <1>1, <1>2 DEF CallInv, Early, Reading, config, answer, outcome
  <2> QED
    BY <1>1, <1>2, <2>1, <2>2, GoesOn
<1>3. CASE ~identified /\ Return({"unauthenticated"})
  <2>1. Returnable({"unauthenticated"})
    BY <1>1, ResultFacts DEF Returnable, OwnEnding, KindSet
  <2> QED
    BY <1>1, <1>3, <2>1, ReturnKeeps
<1>4. CASE identified /\ endpoint # "cedar" /\ Return({})
  <2>1. Returnable({})
    BY <1>1, ResultFacts DEF Returnable, OwnEnding, KindSet
  <2> QED
    BY <1>1, <1>4, <2>1, ReturnKeeps
<1> QED
  BY <1>2, <1>3, <1>4 DEF Begin

LEMMA BreaksKeeps == ASSUME NEW how \in Failures, CallInv, Breaks(how) PROVE CallInv'
<1>1. stage' = (IF stage = "sending" THEN "unsent" ELSE "read")
  BY DEF Breaks
<1>2. TypeOK'
  BY <1>1 DEF CallInv, TypeOK, Breaks, config, outcome, Limit, Failures
<1>3. Early'
  BY <1>1 DEF CallInv, Early, Breaks, config, outcome
<1>4. Reading'
  BY <1>1 DEF CallInv, Reading, Breaks, config, outcome, Failures
<1> QED
  BY <1>1, <1>2, <1>3, <1>4, GoesOn DEF Breaks

LEMMA UnsentKeeps == CallInv /\ Unsent => CallInv'
<1> SUFFICES ASSUME CallInv, Unsent PROVE CallInv'
  OBVIOUS
<1>1. TypeOK /\ stage = "unsent" /\ status = 0
  BY DEF CallInv, Early, Unsent
<1>2. Returnable(RequestError)
  BY <1>1, RequestErrors, ResultFacts DEF Returnable
<1> QED
  BY <1>1, <1>2, ReturnKeeps DEF Unsent

LEMMA RespondsKeeps ==
    ASSUME NEW s \in Statuses, NEW b \in Bodies[endpoint], CallInv, Responds(s, b)
    PROVE  CallInv'
<1>1. TypeOK'
  BY DEF CallInv, TypeOK, Responds, config, outcome, Limit
<1>2. Early'
  BY DEF CallInv, Early, Responds, config, outcome
<1>3. Reading'
  <2>1. body' \in Bodies[endpoint] /\ endpoint' = endpoint /\ data' = 0 /\ stage' = "reading"
    BY DEF CallInv, Early, Responds, config
  <2>2. body'.length \in Nat
    BY BodyFacts, <1>1, BodiesAssumption, <2>1 DEF CallInv, TypeOK, Body
  <2> QED
    BY <2>1, <2>2 DEF Reading
<1> QED
  BY <1>1, <1>2, <1>3, GoesOn DEF Responds

LEMMA ReadByteKeeps == CallInv /\ ReadByte => CallInv'
<1> SUFFICES ASSUME CallInv, ReadByte PROVE CallInv'
  OBVIOUS
<1>1. TypeOK /\ body \in Bodies[endpoint] /\ data <= body.length
  BY DEF CallInv, Reading, ReadByte
<1>2. Limit \in Nat /\ body.length \in Nat /\ data \in 0 .. Limit /\ Limit' = Limit
  BY <1>1, LimitFacts, BodyFacts DEF TypeOK, ReadByte, config, Limit
<1>3. data + 1 \in 0 .. Limit /\ data + 1 <= body.length
  BY <1>2 DEF ReadByte
<1>4. TypeOK'
  BY <1>1, <1>2, <1>3 DEF TypeOK, ReadByte, config, outcome
<1>5. Early' /\ Reading'
  BY <1>1, <1>3 DEF CallInv, Early, Reading, ReadByte, config, outcome
<1> QED
  BY <1>4, <1>5, GoesOn DEF ReadByte

LEMMA ReadEndsKeeps == CallInv /\ ReadEnds => CallInv'
<1> SUFFICES ASSUME CallInv, ReadEnds PROVE CallInv'
  OBVIOUS
<1>1. Limit' = Limit
  BY DEF ReadEnds, config, Limit
<1>2. TypeOK'
  BY <1>1 DEF CallInv, TypeOK, ReadEnds, config, answer, outcome
<1>3. Early' /\ Reading'
  BY <1>1 DEF CallInv, Early, Reading, ReadEnds, config, answer, outcome
<1> QED
  BY <1>2, <1>3, GoesOn DEF ReadEnds

LEMMA AsksContextKeeps == CallInv /\ AsksContext => CallInv'
<1> SUFFICES ASSUME CallInv, AsksContext PROVE CallInv'
  OBVIOUS
<1>1. TypeOK /\ stage = "read" /\ UNCHANGED <<config, ended, answer>>
  BY DEF CallInv, AsksContext
<1>2. CASE broken # "no" /\ ended # "live"
  <2>1. Returnable(RequestError)
    BY <1>1, <1>2, RequestErrors, ResultFacts DEF Returnable
  <2> QED
    BY <1>1, <1>2, <2>1, ReturnKeeps DEF AsksContext
<1>3. CASE ~(broken # "no" /\ ended # "live")
  <2>1. stage' = "evaluate" /\ UNCHANGED outcome
    BY <1>3 DEF AsksContext
  <2>2. Limit' = Limit
    BY <1>1 DEF config, Limit
  <2>3. TypeOK'
    BY <1>1, <2>1, <2>2 DEF TypeOK, config, answer, outcome
  <2>4. Early' /\ Reading'
    BY <1>1, <2>1, <2>2 DEF CallInv, Early, Reading, config, answer, outcome
  <2> QED
    BY <1>1, <2>1, <2>3, <2>4, GoesOn
<1> QED
  BY <1>2, <1>3

LEMMA EvaluatesKeeps == CallInv /\ Evaluates => CallInv'
<1> SUFFICES ASSUME CallInv, Evaluates PROVE CallInv'
  OBVIOUS
<1>1. stage = "evaluate" /\ identified
  BY DEF CallInv, Early, Evaluates
<1>2. VerdictInv(Verdict)
  BY <1>1, VerdictFacts
<1>3. Returnable(Verdict)
  <2> DEFINE v == Verdict
  <2>1. VerdictInv(v)
    BY <1>2
  <2> HIDE DEF v
  <2>2. Returnable(v)
    BY <1>1, <2>1, ConfirmedIsGrounded DEF VerdictInv, Returnable
  <2> QED
    BY <2>2 DEF v
<1> QED
  BY <1>1, <1>3, ReturnKeeps DEF Evaluates

LEMMA TellKeeps == CallInv /\ Tell => CallInv'
<1> SUFFICES ASSUME CallInv, Tell PROVE CallInv'
  OBVIOUS
<1>1. /\ UNCHANGED <<endpoint, confirm, bound, identified, ended, status, body, data, broken>>
      /\ UNCHANGED <<result, left>>
      /\ stage = "returned" /\ result # Allow /\ stage' = "told"
      /\ told' = CodeOf(ended, result)
  BY DEF Tell, config, answer
<1>2. /\ UNCHANGED <<Limit, ReadWhole, Success>>
      /\ (SaysAllow)' = SaysAllow
  BY SameAnswer, <1>1 DEF config, answer
<1>3. TypeOK'
  BY <1>1, <1>2, CodeOfIsCode DEF CallInv, TypeOK
<1>4. Early' /\ Reading' /\ Returned'
  BY <1>1 DEF CallInv, Early, Reading, Returned
<1>5. OnlyWholeAllows'
  BY <1>1 DEF OnlyWholeAllows
<1>6. DenialIsAnswered'
  BY <1>1, <1>2 DEF CallInv, DenialIsAnswered
<1>7. EndingIsTheCallers'
  BY <1>1, CodeOfCase DEF CallInv, Returned, OwnEnding, EndingIsTheCallers
<1>8. DenialStands'
  <2>1. endpoint = "o3co" /\ status = 403 /\ left = "live" => result = {"denied"}
    BY <1>1 DEF CallInv, Returned
  <2> QED
    BY <1>1, <2>1, CodeOfDenial DEF DenialStands
<1> QED
  BY <1>3, <1>4, <1>5, <1>6, <1>7, <1>8 DEF CallInv

LEMMA ContextEndsKeeps ==
    ASSUME NEW how \in {"canceled", "deadline"}, CallInv, ContextEnds(how)
    PROVE  CallInv'
<1>1. /\ UNCHANGED <<endpoint, confirm, bound, identified, stage, status, body, data, broken>>
      /\ UNCHANGED <<result, left, told>>
      /\ ended' \in Endings
  BY DEF ContextEnds, config, answer, outcome, Endings
<1>2. /\ UNCHANGED <<Limit, ReadWhole, Success>>
      /\ (SaysAllow)' = SaysAllow
      /\ (Grounded)' = Grounded
  BY SameAnswer, <1>1 DEF config, answer
<1>3. TypeOK' /\ Early' /\ Reading' /\ Returned'
  BY <1>1, <1>2 DEF CallInv, TypeOK, Early, Reading, Returned, OwnEnding
<1>4. OnlyWholeAllows'
  <2>1. result' = Allow => identified' /\ ReadWhole' /\ SaysAllow' /\ (confirm' => Grounded')
    BY <1>1, <1>2 DEF CallInv, OnlyWholeAllows, Grounded
  <2> QED
    BY <2>1 DEF OnlyWholeAllows, Grounded
<1>5. DenialIsAnswered' /\ EndingIsTheCallers' /\ DenialStands'
  BY <1>1, <1>2 DEF CallInv, DenialIsAnswered, EndingIsTheCallers, DenialStands
<1> QED
  BY <1>3, <1>4, <1>5 DEF CallInv

LEMMA Stutters == CallInv /\ UNCHANGED vars => CallInv'
<1> SUFFICES ASSUME CallInv, UNCHANGED vars PROVE CallInv'
  OBVIOUS
<1>1. /\ UNCHANGED <<endpoint, confirm, bound, identified, ended, stage>>
      /\ UNCHANGED <<status, body, data, broken, result, left, told>>
  BY DEF vars, config, answer, outcome
<1>2. /\ UNCHANGED <<Limit, ReadWhole, Success>>
      /\ (SaysAllow)' = SaysAllow
      /\ (Grounded)' = Grounded
  BY SameAnswer, <1>1 DEF config, answer
<1>3. TypeOK' /\ Early' /\ Reading' /\ Returned'
  BY <1>1, <1>2 DEF CallInv, TypeOK, Early, Reading, Returned
<1>4. OnlyWholeAllows'
  <2>1. result' = Allow => identified' /\ ReadWhole' /\ SaysAllow' /\ (confirm' => Grounded')
    BY <1>1, <1>2 DEF CallInv, OnlyWholeAllows, Grounded
  <2> QED
    BY <2>1 DEF OnlyWholeAllows, Grounded
<1>5. DenialIsAnswered' /\ EndingIsTheCallers' /\ DenialStands'
  BY <1>1, <1>2 DEF CallInv, DenialIsAnswered, EndingIsTheCallers, DenialStands
<1> QED
  BY <1>3, <1>4, <1>5 DEF CallInv

LEMMA StepsKeep == CallInv /\ [Next]_vars => CallInv'
<1> SUFFICES ASSUME CallInv, [Next]_vars PROVE CallInv'
  OBVIOUS
<1>1. CASE Runs
  BY <1>1, BeginKeeps, UnsentKeeps, ReadEndsKeeps, AsksContextKeeps, EvaluatesKeeps, TellKeeps
     DEF Runs
<1>2. CASE ReadByte
  BY <1>2, ReadByteKeeps
<1>3. CASE \E how \in Failures : Breaks(how)
  BY <1>3, BreaksKeeps
<1>4. CASE \E s \in Statuses, b \in Bodies[endpoint] : Responds(s, b)
  BY <1>4, RespondsKeeps
<1>5. CASE \E how \in {"canceled", "deadline"} : ContextEnds(how)
  BY <1>5, ContextEndsKeeps
<1>6. CASE Over \/ UNCHANGED vars
  BY <1>6, Stutters DEF Over
<1> QED
  BY <1>1, <1>2, <1>3, <1>4, <1>5, <1>6 DEF Next

LEMMA CallInvHolds == Spec => []CallInv
<1>1. Init => CallInv
  BY StartsWell
<1>2. CallInv /\ [Next]_vars => CallInv'
  BY StepsKeep
<1> QED
  BY <1>1, <1>2, PTL DEF Spec

-----------------------------------------------------------------------------
\* Every variable of a call keeps its type: no more than the limit is read, and
\* every error has a code.
THEOREM CallTypeCorrect == Spec => []TypeOK
<1>1. CallInv => TypeOK
  BY DEF CallInv
<1> QED
  BY <1>1, CallInvHolds, PTL

\* Whatever the backend sends and wherever its answer is cut, an endpoint allows
\* only on a whole answer within the bound that says so, and with confirmation
\* required only if a group granted and all that granted are confirmed.
THEOREM AllowsAreWhole == Spec => []OnlyWholeAllows
<1>1. CallInv => OnlyWholeAllows
  BY DEF CallInv
<1> QED
  BY <1>1, CallInvHolds, PTL

\* Every denial is the backend's own: a 403 of o3co, or a whole answer of OPA or
\* the Cedar agent that does not allow.
THEOREM DenialsAreAnswered == Spec => []DenialIsAnswered
<1>1. CallInv => DenialIsAnswered
  BY DEF CallInv
<1> QED
  BY <1>1, CallInvHolds, PTL

\* A caller is told Canceled or DeadlineExceeded only if its own context had
\* ended so when Verify returned, whenever the endpoint's timeout expired.
THEOREM EndingsAreTheCallers == Spec => []EndingIsTheCallers
<1>1. CallInv => EndingIsTheCallers
  BY DEF CallInv
<1> QED
  BY <1>1, CallInvHolds, PTL

\* A 403 of o3co stays a denial, however its body breaks off.
THEOREM DenialsStand == Spec => []DenialStands
<1>1. CallInv => DenialStands
  BY DEF CallInv
<1> QED
  BY <1>1, CallInvHolds, PTL
=============================================================================
