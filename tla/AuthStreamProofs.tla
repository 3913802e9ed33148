-------------------------- MODULE AuthStreamProofs --------------------------
(***************************************************************************)
(* AuthStream's safety, for any goroutines, messages, targets, endpoint    *)
(* failures, interval and bound on the clock.                              *)
(***************************************************************************)
EXTENDS AuthStream, TLAPS

GateProofs == INSTANCE StreamGateProofs

\* Every failure has a code, whatever kinds it is and however the context ended.
LEMMA CodeOfIsCode == ASSUME NEW e, NEW f PROVE CodeOf(e, f) \in Codes
BY DEF CodeOf, Codes

\* A failure of no kind is Internal.
LEMMA CodeOfNothing == ASSUME NEW e PROVE CodeOf(e, {}) = "Internal"
BY DEF CodeOf

\* The assumptions of the gate are ones of the stream.
LEMMA GateAssumptions ==
    /\ NoOne \notin Callers
    /\ Interval \in Nat
    /\ MaxTime \in Nat
    /\ None \notin Errors
    /\ Incomplete \notin Errors
    /\ None # Incomplete
  BY RolesAssumption, ClockAssumption, ValuesAssumption

-----------------------------------------------------------------------------
\* A worker is in the gate exactly as its SendMsg or RecvMsg has it there.
OpInv ==
    \A w \in Workers :
        /\ op[w] \in {"idle", "transport"} => call[w] = "idle"
        /\ op[w] = "entry" => w \in Receivers /\ call[w] \in {"err", "done"}
        /\ op[w] = "check" => call[w] \in {"check", "run", "done", "panic"}
        /\ op[w] # "idle" => phase # "opening" /\ checked

\* What a worker holds, and what was let through.
HeldInv ==
    /\ \A s \in Senders : op[s] # "idle" => held[s] \in Outgoing
    /\ \A s \in Senders : op[s] = "transport" => held[s] \in admitted
    /\ \A r \in Receivers : op[r] = "check" => held[r] \in Incoming
    /\ \A r \in Receivers : op[r] \in {"entry", "transport"} => held[r] = None
    /\ \A w \in Workers :
        op[w] = "check" /\ call[w] = "done" /\ got[w] = None => held[w] \in admitted
    /\ wire \cup delivered \subseteq admitted

\* Where the RPC's goroutine is in the gate, phase by phase.
MainInv ==
    /\ phase = "opening" =>
        /\ call[Main] # "err"
        /\ target = None <=> call[Main] = "idle"
        /\ checked <=> call[Main] = "done" /\ got[Main] = None
        /\ call[Main] \in {"idle", "check"} \/ checked => err = None
        /\ call[Main] = "panic" => err = Incomplete
        /\ call[Main] = "done" /\ got[Main] # None => err \in Errors
        /\ told = {}
    /\ phase = "serving" => call[Main] = "idle" /\ checked
    /\ phase = "returned" =>
        call[Main] \in {"err", "done"} /\ checked /\ result \in Results
    /\ phase = "ended" => call[Main] = "idle"
    /\ phase = "ended" <=> status # None
    /\ phase # "opening" => target \in Targets
    /\ target = None => question = None

\* What the running check and the last allowed one know of the grant.
GrantInv ==
    /\ holder = NoOne => answer = Pending
    /\ answer = None => covered
    /\ checked /\ ~granted => last <= revokedAt
    /\ holder # NoOne /\ covered /\ ~granted => start <= revokedAt
    /\ granted => late = {}
    /\ (\E m \in late : m.own) /\ holder # NoOne => ~covered

\* What was told is what the gate failed with, mapped when it failed.
ToldInv ==
    /\ told # {} => err # None /\ holder = NoOne
    /\ \A a \in told : a = GateError(err)
    /\ checked /\ err \in Errors => err.code \in Codes

\* The inductive invariant.
StreamInv ==
    /\ GateProofs!GateInv
    /\ TypeOK
    /\ OpInv
    /\ HeldInv /\ ClearedUnlessAllowed
    /\ MainInv /\ SameTarget
    /\ GrantInv /\ RevocationBound
    /\ ToldInv

-----------------------------------------------------------------------------
\* Every step of the stream is a step of its gate, or leaves the gate alone.
LEMMA GateStep ==
  ASSUME TypeOK, [Next]_vars PROVE [GateProofs!Next]_(GateProofs!vars)
<1> USE DEF GateProofs!Next, GateProofs!Decide, GateProofs!Finish, Callers
<1>1. ASSUME NEW c \in Callers, BeginCheck(c) PROVE GateProofs!Next
  BY <1>1 DEF BeginCheck, Gate!Begin, GateProofs!Begin, Gate!Recent, GateProofs!Recent
<1>2. ASSUME NEW c \in Callers, CheckAllows(c) PROVE GateProofs!Next
  BY <1>2 DEF CheckAllows, Gate!Allow, GateProofs!Allow, Gate!Allowed,
              GateProofs!Allowed, Gate!Answered, GateProofs!Answered
<1>3. ASSUME NEW c \in Callers, CheckFails(c) PROVE GateProofs!Next
  <2>1. FailureOf(c, answer) \in Errors
    BY <1>3, CodeOfIsCode DEF CheckFails, FailureOf, Errors, TypeOK
  <2> QED
    BY <1>3, <2>1 DEF CheckFails, Gate!Fail, GateProofs!Fail, Gate!Answered, GateProofs!Answered
<1>4. ASSUME NEW c \in Callers, CheckPanics(c) PROVE GateProofs!Next
  BY <1>4 DEF CheckPanics, Gate!Abandon, GateProofs!Abandon
<1>5. ASSUME NEW c \in Callers, CheckSkipped(c) PROVE GateProofs!Next
  BY <1>5 DEF CheckSkipped, Gate!Skip, GateProofs!Skip, Gate!Recent, GateProofs!Recent,
              Gate!Answered, GateProofs!Answered
<1>6. ASSUME NEW c \in Callers, GateAnswers(c) PROVE GateProofs!Next
  BY <1>6 DEF GateAnswers, Gate!Refuse, GateProofs!Refuse, Gate!ReadErr, GateProofs!ReadErr,
              Gate!Answered, GateProofs!Answered
\* A call enters or leaves the gate.
<1>7. ASSUME NEW c \in Callers, Gate!Check(c) \/ Gate!Err(c) \/ Gate!Leave(c)
      PROVE  GateProofs!Next
  BY <1>7 DEF Gate!Check, GateProofs!Check, Gate!Err, GateProofs!Err, Gate!Enter,
              GateProofs!Enter, Gate!Leave, GateProofs!Leave
<1>8. CASE ClockTicks
  BY <1>8 DEF ClockTicks, Gate!Tick, GateProofs!Tick
<1>9. ASSUME NEW w \in Workers, OpGoesOn(w) PROVE GateProofs!Next
  BY <1>7, <1>9 DEF OpGoesOn, OpRefused, OpPanics, UseTransport, RecvReturns
<1>10. ASSUME NEW s \in Senders, NEW m, SendMsg(s, m) PROVE GateProofs!Next
  BY <1>7, <1>10 DEF SendMsg, Workers
<1>11. ASSUME NEW r \in Receivers, RecvMsg(r) \/ \E m \in Incoming : TransportReceives(r, m)
       PROVE  GateProofs!Next
  BY <1>7, <1>11 DEF RecvMsg, TransportReceives, Workers
<1>12. CASE MainGoesOn
  BY <1>7, <1>12 DEF MainGoesOn, OpenStream, HandlerStarts, OpeningFails, InterceptorReturns
<1>13. ASSUME NEW r \in Results, HandlerReturns(r) PROVE GateProofs!Next
  BY <1>7, <1>13 DEF HandlerReturns
<1>14. ASSUME NEW w \in Workers, TransportFails(w) PROVE UNCHANGED gateVars
  BY <1>14 DEF TransportFails
<1>15. ASSUME NEW s \in Senders, TransportSends(s) PROVE UNCHANGED gateVars
  BY <1>15 DEF TransportSends
<1>16. CASE VerifierAnswers \/ HandlerPanics \/ Revoke \/ Over \/ UNCHANGED vars
  <2>1. UNCHANGED gateVars
    BY <1>16 DEF VerifierAnswers, HandlerPanics, Revoke, Over, vars
  <2> QED
    BY <2>1 DEF gateVars, GateProofs!vars
<1>17. ASSUME NEW how, ContextEnds(how) PROVE UNCHANGED gateVars
  BY <1>17 DEF ContextEnds
<1>18. ASSUME NEW t, PolicyRewritten(t) PROVE UNCHANGED gateVars
  BY <1>18 DEF PolicyRewritten
<1> HIDE DEF GateProofs!Next, GateProofs!Decide, GateProofs!Finish, Callers
<1>19. ASSUME NEW c \in Callers, GateDecides(c) \/ CheckEnds(c) PROVE GateProofs!Next
  BY <1>1, <1>2, <1>3, <1>4, <1>5, <1>6, <1>19 DEF GateDecides, CheckEnds
<1>20. UNCHANGED gateVars => UNCHANGED GateProofs!vars
  BY DEF gateVars, GateProofs!vars
<1> QED
  BY <1>8, <1>9, <1>10, <1>11, <1>12, <1>13, <1>14, <1>15, <1>16, <1>17, <1>18,
     <1>19, <1>20 DEF Next

-----------------------------------------------------------------------------
\* The failure a check leaves in the gate is one, and a re-check's has a code.
LEMMA FailureIsError ==
  ASSUME TypeOK, answer \notin {None, Pending}, NEW c
  PROVE  /\ FailureOf(c, answer) \in Errors
         /\ c # Main => FailureOf(c, answer).code \in Codes
  BY CodeOfIsCode DEF FailureOf, Errors, TypeOK

\* Once the opening check passed, every refusal is told as a code.
LEMMA RefusalHasCode ==
  ASSUME GateProofs!GateInv, ToldInv, checked, NEW c \in Callers, got[c] # None
  PROVE  GateError(got[c]) \in Codes /\ got[c] = err
<1>1. got[c] = err /\ err \in Errors \cup {Incomplete}
  BY DEF GateProofs!GateInv, GateProofs!IncompleteIsReal, GateProofs!Closed,
         GateProofs!TypeOK, GateProofs!GateFailures
<1> QED
  BY <1>1, CodeOfIsCode DEF ToldInv, GateError

\* A worker's place in the gate follows its call: only the worker itself moves it.
LEMMA OpStep ==
  ASSUME StreamInv, [Next]_vars PROVE OpInv'
<1> USE RolesAssumption
    DEF StreamInv, TypeOK, GateProofs!GateInv, GateProofs!TypeOK, Workers, Callers,
        OpInv, MainInv, gateVars, checkVars, opVars, flowVars, rpcVars, envVars
<1>1. CASE VerifierAnswers
  BY <1>1 DEF VerifierAnswers
<1>2. ASSUME NEW c \in Callers, BeginCheck(c) PROVE OpInv'
  BY <1>2 DEF BeginCheck, Gate!Begin
<1>3. ASSUME NEW c \in Callers, CheckAllows(c) PROVE OpInv'
  BY <1>3 DEF CheckAllows, Gate!Allow, Gate!Allowed, Gate!Answered, LetThrough,
         CheckOver
<1>4. ASSUME NEW c \in Callers, CheckFails(c) PROVE OpInv'
  BY <1>4 DEF CheckFails, Gate!Fail, Gate!Answered, CheckOver
<1>5. ASSUME NEW c \in Callers, CheckPanics(c) PROVE OpInv'
  BY <1>5 DEF CheckPanics, Gate!Abandon, CheckOver
<1>6. ASSUME NEW c \in Callers, CheckSkipped(c) PROVE OpInv'
  BY <1>6 DEF CheckSkipped, Gate!Skip, Gate!Recent, Gate!Answered, LetThrough
<1>7. ASSUME NEW c \in Callers, GateAnswers(c) PROVE OpInv'
  BY <1>7 DEF GateAnswers, Gate!Refuse, Gate!ReadErr, Gate!Answered
<1>8. ASSUME NEW w \in Workers, OpRefused(w) PROVE OpInv'
  BY <1>8 DEF OpRefused, Gate!Leave, Returns
<1>9. ASSUME NEW w \in Workers, OpPanics(w) \/ UseTransport(w) \/ TransportFails(w)
      PROVE OpInv'
  BY <1>9 DEF OpPanics, UseTransport, TransportFails, Gate!Leave, Returns
<1>10. ASSUME NEW s \in Senders, TransportSends(s) \/ \E m \in Outgoing : SendMsg(s, m)
       PROVE OpInv'
  BY <1>10 DEF TransportSends, SendMsg, Handled, Gate!Check, Gate!Enter, Returns
<1>11. ASSUME NEW r \in Receivers, RecvMsg(r) \/ RecvReturns(r) PROVE OpInv'
  BY <1>11 DEF RecvMsg, Handled, RecvReturns, Gate!Err, Gate!Enter, Gate!Leave, Returns
<1>12. ASSUME NEW r \in Receivers, NEW m \in Incoming, TransportReceives(r, m)
       PROVE OpInv'
  BY <1>12 DEF TransportReceives, Gate!Check, Gate!Enter
<1>13. CASE OpenStream \/ HandlerStarts
  BY <1>13 DEF OpenStream, HandlerStarts, Gate!Check, Gate!Enter, Gate!Leave
<1>14. CASE OpeningFails
  BY <1>14 DEF OpeningFails, Gate!Leave, Ends
<1>15. CASE InterceptorReturns
  BY <1>15 DEF InterceptorReturns, Gate!Leave, Ends
<1>16. ASSUME NEW x \in Results, HandlerReturns(x) PROVE OpInv'
  BY <1>16 DEF HandlerReturns, Gate!Err, Gate!Enter
<1>17. CASE HandlerPanics
  BY <1>17 DEF HandlerPanics, Ends
<1>18. CASE Revoke
  BY <1>18 DEF Revoke
<1>19. ASSUME NEW how \in {"canceled", "deadline"}, ContextEnds(how) PROVE OpInv'
  BY <1>19 DEF ContextEnds
<1>20. ASSUME NEW t \in Targets, PolicyRewritten(t) PROVE OpInv'
  BY <1>20 DEF PolicyRewritten
<1>21. CASE ClockTicks
  BY <1>21 DEF ClockTicks, Gate!Tick
<1>22. CASE UNCHANGED vars
  BY <1>22 DEF vars
<1> QED
  BY <1>1, <1>2, <1>3, <1>4, <1>5, <1>6, <1>7, <1>8, <1>9, <1>10, <1>11, <1>12, <1>13,
     <1>14, <1>15, <1>16, <1>17, <1>18, <1>19, <1>20, <1>21, <1>22
     DEF Next, Over, GateDecides, CheckEnds, OpGoesOn, MainGoesOn

\* What a worker holds is let through only by the gate's answer to that worker, and
\* a call that is over has let go of it otherwise.
LEMMA HeldStep ==
  ASSUME StreamInv, [Next]_vars PROVE (HeldInv /\ ClearedUnlessAllowed)'
<1> USE RolesAssumption, ValuesAssumption
    DEF StreamInv, TypeOK, GateProofs!GateInv, GateProofs!TypeOK, GateProofs!MutexInv,
        Workers, Callers, OpInv, HeldInv, ClearedUnlessAllowed, gateVars, checkVars,
        opVars, flowVars, rpcVars, envVars
<1>1. CASE VerifierAnswers
  BY <1>1 DEF VerifierAnswers
<1>2. ASSUME NEW c \in Callers, BeginCheck(c) PROVE (HeldInv /\ ClearedUnlessAllowed)'
  BY <1>2 DEF BeginCheck, Gate!Begin
<1>3. ASSUME NEW c \in Callers, CheckAllows(c)
      PROVE (HeldInv /\ ClearedUnlessAllowed)'
  BY <1>3 DEF CheckAllows, Gate!Allow, Gate!Allowed, Gate!Answered, LetThrough,
         CheckOver
<1>4. ASSUME NEW c \in Callers, CheckFails(c) PROVE (HeldInv /\ ClearedUnlessAllowed)'
  BY <1>4, FailureIsError DEF CheckFails, Gate!Fail, Gate!Answered, CheckOver
<1>5. ASSUME NEW c \in Callers, CheckPanics(c)
      PROVE (HeldInv /\ ClearedUnlessAllowed)'
  BY <1>5 DEF CheckPanics, Gate!Abandon, CheckOver
<1>6. ASSUME NEW c \in Callers, CheckSkipped(c)
      PROVE (HeldInv /\ ClearedUnlessAllowed)'
  BY <1>6 DEF CheckSkipped, Gate!Skip, Gate!Recent, Gate!Answered, LetThrough
<1>7. ASSUME NEW c \in Callers, GateAnswers(c)
      PROVE (HeldInv /\ ClearedUnlessAllowed)'
  BY <1>7 DEF GateAnswers, Gate!Refuse, Gate!ReadErr, Gate!Answered
<1>8. ASSUME NEW w \in Workers, OpRefused(w) PROVE (HeldInv /\ ClearedUnlessAllowed)'
  BY <1>8 DEF OpRefused, Gate!Leave, Returns
<1>9. ASSUME NEW w \in Workers, OpPanics(w) \/ UseTransport(w) \/ TransportFails(w)
      PROVE (HeldInv /\ ClearedUnlessAllowed)'
  BY <1>9 DEF OpPanics, UseTransport, TransportFails, Gate!Leave, Returns
<1>10. ASSUME NEW s \in Senders, TransportSends(s) \/ \E m \in Outgoing : SendMsg(s, m)
       PROVE (HeldInv /\ ClearedUnlessAllowed)'
  BY <1>10 DEF TransportSends, SendMsg, Gate!Check, Gate!Enter, Returns
<1>11. ASSUME NEW r \in Receivers, RecvMsg(r) \/ RecvReturns(r)
       PROVE (HeldInv /\ ClearedUnlessAllowed)'
  BY <1>11 DEF RecvMsg, RecvReturns, Gate!Err, Gate!Enter, Gate!Leave, Returns
<1>12. ASSUME NEW r \in Receivers, NEW m \in Incoming, TransportReceives(r, m)
       PROVE (HeldInv /\ ClearedUnlessAllowed)'
  BY <1>12 DEF TransportReceives, Gate!Check, Gate!Enter
<1>13. CASE OpenStream \/ HandlerStarts
  BY <1>13 DEF OpenStream, HandlerStarts, Gate!Check, Gate!Enter, Gate!Leave
<1>14. CASE OpeningFails
  BY <1>14 DEF OpeningFails, Gate!Leave, Ends
<1>15. CASE InterceptorReturns
  BY <1>15 DEF InterceptorReturns, Gate!Leave, Ends
<1>16. ASSUME NEW x \in Results, HandlerReturns(x)
       PROVE (HeldInv /\ ClearedUnlessAllowed)'
  BY <1>16 DEF HandlerReturns, Gate!Err, Gate!Enter
<1>17. CASE HandlerPanics
  BY <1>17 DEF HandlerPanics, Ends
<1>18. CASE Revoke
  BY <1>18 DEF Revoke
<1>19. ASSUME NEW how \in {"canceled", "deadline"}, ContextEnds(how)
       PROVE (HeldInv /\ ClearedUnlessAllowed)'
  BY <1>19 DEF ContextEnds
<1>20. ASSUME NEW t \in Targets, PolicyRewritten(t)
       PROVE (HeldInv /\ ClearedUnlessAllowed)'
  BY <1>20 DEF PolicyRewritten
<1>21. CASE ClockTicks
  BY <1>21 DEF ClockTicks, Gate!Tick
<1>22. CASE UNCHANGED vars
  BY <1>22 DEF vars
<1> QED
  BY <1>1, <1>2, <1>3, <1>4, <1>5, <1>6, <1>7, <1>8, <1>9, <1>10, <1>11, <1>12, <1>13,
     <1>14, <1>15, <1>16, <1>17, <1>18, <1>19, <1>20, <1>21, <1>22
     DEF Next, Over, GateDecides, CheckEnds, OpGoesOn, MainGoesOn

\* The RPC's goroutine is where its phase says, and the target is set once.
LEMMA MainStep ==
  ASSUME StreamInv, [Next]_vars PROVE (MainInv /\ SameTarget)'
<1> USE RolesAssumption, ValuesAssumption
    DEF StreamInv, TypeOK, GateProofs!GateInv, GateProofs!TypeOK, GateProofs!MutexInv,
        GateProofs!IncompleteIsReal, GateProofs!Closed, GateProofs!GateFailures,
        Workers, Callers, OpInv, MainInv, SameTarget, ToldInv, gateVars, checkVars,
        opVars, flowVars, rpcVars, envVars
<1>1. CASE VerifierAnswers
  BY <1>1 DEF VerifierAnswers
<1>2. ASSUME NEW c \in Callers, BeginCheck(c) PROVE (MainInv /\ SameTarget)'
  BY <1>2 DEF BeginCheck, Gate!Begin
<1>3. ASSUME NEW c \in Callers, CheckAllows(c) PROVE (MainInv /\ SameTarget)'
  BY <1>3 DEF CheckAllows, Gate!Allow, Gate!Allowed, Gate!Answered, LetThrough,
         CheckOver
<1>4. ASSUME NEW c \in Callers, CheckFails(c) PROVE (MainInv /\ SameTarget)'
  BY <1>4, FailureIsError DEF CheckFails, Gate!Fail, Gate!Answered, CheckOver
<1>5. ASSUME NEW c \in Callers, CheckPanics(c) PROVE (MainInv /\ SameTarget)'
  BY <1>5 DEF CheckPanics, Gate!Abandon, CheckOver
<1>6. ASSUME NEW c \in Callers, CheckSkipped(c) PROVE (MainInv /\ SameTarget)'
  BY <1>6 DEF CheckSkipped, Gate!Skip, Gate!Recent, Gate!Answered, LetThrough
<1>7. ASSUME NEW c \in Callers, GateAnswers(c) PROVE (MainInv /\ SameTarget)'
  BY <1>7 DEF GateAnswers, Gate!Refuse, Gate!ReadErr, Gate!Answered
<1>8. ASSUME NEW w \in Workers, OpRefused(w) PROVE (MainInv /\ SameTarget)'
  BY <1>8 DEF OpRefused, Gate!Leave, Returns
<1>9. ASSUME NEW w \in Workers, OpPanics(w) \/ UseTransport(w) \/ TransportFails(w)
      PROVE (MainInv /\ SameTarget)'
  BY <1>9 DEF OpPanics, UseTransport, TransportFails, Gate!Leave, Returns
<1>10. ASSUME NEW s \in Senders, TransportSends(s) \/ \E m \in Outgoing : SendMsg(s, m)
       PROVE (MainInv /\ SameTarget)'
  BY <1>10 DEF TransportSends, SendMsg, Gate!Check, Gate!Enter, Returns
<1>11. ASSUME NEW r \in Receivers, RecvMsg(r) \/ RecvReturns(r)
       PROVE (MainInv /\ SameTarget)'
  BY <1>11 DEF RecvMsg, RecvReturns, Gate!Err, Gate!Enter, Gate!Leave, Returns
<1>12. ASSUME NEW r \in Receivers, NEW m \in Incoming, TransportReceives(r, m)
       PROVE (MainInv /\ SameTarget)'
  BY <1>12 DEF TransportReceives, Gate!Check, Gate!Enter
<1>13. CASE OpenStream \/ HandlerStarts
  BY <1>13 DEF OpenStream, HandlerStarts, Gate!Check, Gate!Enter, Gate!Leave
<1>14. CASE OpeningFails
  BY <1>14, CodeOfIsCode DEF OpeningFails, Gate!Leave, Ends
<1>15. CASE InterceptorReturns
  BY <1>15, RefusalHasCode DEF InterceptorReturns, Gate!Leave, Ends
<1>16. ASSUME NEW x \in Results, HandlerReturns(x) PROVE (MainInv /\ SameTarget)'
  BY <1>16 DEF HandlerReturns, Gate!Err, Gate!Enter
<1>17. CASE HandlerPanics
  BY <1>17 DEF HandlerPanics, Ends
<1>18. CASE Revoke
  BY <1>18 DEF Revoke
<1>19. ASSUME NEW how \in {"canceled", "deadline"}, ContextEnds(how)
       PROVE (MainInv /\ SameTarget)'
  BY <1>19 DEF ContextEnds
<1>20. ASSUME NEW t \in Targets, PolicyRewritten(t) PROVE (MainInv /\ SameTarget)'
  BY <1>20 DEF PolicyRewritten
<1>21. CASE ClockTicks
  BY <1>21 DEF ClockTicks, Gate!Tick
<1>22. CASE UNCHANGED vars
  BY <1>22 DEF vars
<1> QED
  BY <1>1, <1>2, <1>3, <1>4, <1>5, <1>6, <1>7, <1>8, <1>9, <1>10, <1>11, <1>12, <1>13,
     <1>14, <1>15, <1>16, <1>17, <1>18, <1>19, <1>20, <1>21, <1>22
     DEF Next, Over, GateDecides, CheckEnds, OpGoesOn, MainGoesOn

\* A check that began after the revocation is not covered, so it cannot be allowed;
\* what passes without one rests on a check that began before it.
LEMMA GrantStep ==
  ASSUME StreamInv, [Next]_vars PROVE (GrantInv /\ RevocationBound)'
<1> USE RolesAssumption, ClockAssumption, ValuesAssumption
    DEF StreamInv, TypeOK, GateProofs!GateInv, GateProofs!TypeOK, GateProofs!Times,
        GateProofs!MutexInv, GateProofs!ClockInv, GrantInv, RevocationBound, gateVars,
        checkVars, opVars, flowVars, rpcVars, envVars
<1>1. CASE VerifierAnswers
  BY <1>1 DEF VerifierAnswers, Causes
<1>2. ASSUME NEW c \in Callers, BeginCheck(c) PROVE (GrantInv /\ RevocationBound)'
  BY <1>2 DEF BeginCheck, Gate!Begin, Causes, CredFailure
<1>3. ASSUME NEW c \in Callers, CheckAllows(c) PROVE (GrantInv /\ RevocationBound)'
  <2> DEFINE m == Passing(c)
  <2>1. /\ holder = c /\ covered /\ holder' = NoOne /\ answer' = Pending
        /\ last' = start /\ checked'
    BY <1>3 DEF CheckAllows, Gate!Allow, Gate!Allowed, CheckOver
  <2>2. late' = IF granted THEN late ELSE late \cup {m}
    BY <1>3 DEF CheckAllows, LetThrough
  <2>3. m.own /\ m.began = start
    BY <1>3 DEF CheckAllows, Gate!Allow, Gate!Allowed, Passing
  <2>4. ~granted => start <= revokedAt
    BY <2>1
  <2>5. \A n \in late : ~n.own
    BY <2>1
  <2>6. UNCHANGED <<granted, revokedAt>>
    BY <1>3 DEF CheckAllows
  <2> HIDE DEF m
  <2>7. RevocationBound'
    BY <2>2, <2>3, <2>4, <2>5, <2>6
  <2> QED
    BY <2>1, <2>2, <2>4, <2>6, <2>7
<1>4. ASSUME NEW c \in Callers, CheckFails(c) PROVE (GrantInv /\ RevocationBound)'
  BY <1>4 DEF CheckFails, Gate!Fail, Gate!Answered, CheckOver
<1>5. ASSUME NEW c \in Callers, CheckPanics(c) PROVE (GrantInv /\ RevocationBound)'
  BY <1>5 DEF CheckPanics, Gate!Abandon, CheckOver
<1>6. ASSUME NEW c \in Callers, CheckSkipped(c) PROVE (GrantInv /\ RevocationBound)'
  <2> DEFINE m == Passing(c)
  <2>1. holder = NoOne /\ checked /\ now - last < Interval
    BY <1>6 DEF CheckSkipped, Gate!Skip, Gate!Recent
  <2>2. late' = IF granted THEN late ELSE late \cup {m}
    BY <1>6 DEF CheckSkipped, LetThrough
  <2>3. ~m.own /\ m.began = last /\ m.at = now
    BY <1>6 DEF CheckSkipped, Gate!Skip, Passing
  <2>4. ~granted => last <= revokedAt /\ now < revokedAt + Interval
    BY <2>1
  <2>5. /\ UNCHANGED <<granted, revokedAt, holder, answer, covered, checked, last>>
        /\ UNCHANGED start
    BY <1>6 DEF CheckSkipped, Gate!Skip
  <2> HIDE DEF m
  <2>6. RevocationBound'
    BY <2>2, <2>3, <2>4, <2>5
  <2> QED
    BY <2>1, <2>2, <2>5, <2>6
<1>7. ASSUME NEW c \in Callers, GateAnswers(c) PROVE (GrantInv /\ RevocationBound)'
  BY <1>7 DEF GateAnswers, Gate!Refuse, Gate!ReadErr, Gate!Answered
<1>8. ASSUME NEW w \in Workers, OpRefused(w) PROVE (GrantInv /\ RevocationBound)'
  BY <1>8 DEF OpRefused, Gate!Leave, Returns
<1>9. ASSUME NEW w \in Workers, OpPanics(w) PROVE (GrantInv /\ RevocationBound)'
  BY <1>9 DEF OpPanics, Gate!Leave, Returns
<1>10. ASSUME NEW w \in Workers, UseTransport(w) PROVE (GrantInv /\ RevocationBound)'
  BY <1>10 DEF UseTransport, Gate!Leave
<1>11. ASSUME NEW w \in Workers, TransportFails(w)
       PROVE (GrantInv /\ RevocationBound)'
  BY <1>11 DEF TransportFails, Returns
<1>12. ASSUME NEW s \in Senders, TransportSends(s)
       PROVE (GrantInv /\ RevocationBound)'
  BY <1>12 DEF TransportSends, Returns
<1>13. ASSUME NEW s \in Senders, NEW m \in Outgoing, SendMsg(s, m)
       PROVE (GrantInv /\ RevocationBound)'
  BY <1>13 DEF SendMsg, Gate!Check, Gate!Enter
<1>14. ASSUME NEW r \in Receivers, RecvMsg(r) PROVE (GrantInv /\ RevocationBound)'
  BY <1>14 DEF RecvMsg, Gate!Err, Gate!Enter
<1>15. ASSUME NEW r \in Receivers, RecvReturns(r) PROVE (GrantInv /\ RevocationBound)'
  BY <1>15 DEF RecvReturns, Gate!Leave, Returns
<1>16. ASSUME NEW r \in Receivers, NEW m \in Incoming, TransportReceives(r, m)
       PROVE (GrantInv /\ RevocationBound)'
  BY <1>16 DEF TransportReceives, Gate!Check, Gate!Enter
<1>17. CASE OpenStream
  BY <1>17 DEF OpenStream, Gate!Check, Gate!Enter
<1>18. CASE HandlerStarts
  BY <1>18 DEF HandlerStarts, Gate!Leave
<1>19. CASE OpeningFails
  BY <1>19 DEF OpeningFails, Gate!Leave, Ends
<1>20. CASE InterceptorReturns
  BY <1>20 DEF InterceptorReturns, Gate!Leave, Ends
<1>21. ASSUME NEW x \in Results, HandlerReturns(x)
       PROVE (GrantInv /\ RevocationBound)'
  BY <1>21 DEF HandlerReturns, Gate!Err, Gate!Enter
<1>22. CASE HandlerPanics
  BY <1>22 DEF HandlerPanics, Ends
<1>23. CASE Revoke
  BY <1>23 DEF Revoke
<1>24. ASSUME NEW how \in {"canceled", "deadline"}, ContextEnds(how)
       PROVE (GrantInv /\ RevocationBound)'
  BY <1>24 DEF ContextEnds
<1>25. ASSUME NEW t \in Targets, PolicyRewritten(t)
       PROVE (GrantInv /\ RevocationBound)'
  BY <1>25 DEF PolicyRewritten
<1>26. CASE ClockTicks
  BY <1>26 DEF ClockTicks, Gate!Tick
<1>27. CASE UNCHANGED vars
  BY <1>27 DEF vars
<1> QED
  BY <1>1, <1>2, <1>3, <1>4, <1>5, <1>6, <1>7, <1>8, <1>9, <1>10, <1>11, <1>12, <1>13,
     <1>14, <1>15, <1>16, <1>17, <1>18, <1>19, <1>20, <1>21, <1>22, <1>23, <1>24,
     <1>25, <1>26, <1>27
     DEF Next, Over, GateDecides, CheckEnds, OpGoesOn, MainGoesOn

\* What was told stays what the gate failed with: the failure is final, and it was
\* mapped when it was made.
LEMMA ToldStep ==
  ASSUME StreamInv, [Next]_vars PROVE ToldInv'
<1> USE RolesAssumption, ValuesAssumption
    DEF StreamInv, TypeOK, GateProofs!GateInv, GateProofs!TypeOK,
        GateProofs!GateFailures, GateProofs!MutexInv, GateProofs!IncompleteIsReal,
        GateProofs!Closed, Workers, Callers, OpInv, MainInv, ToldInv, GateError,
        gateVars, checkVars, opVars, flowVars, rpcVars, envVars
<1>1. CASE VerifierAnswers
  BY <1>1 DEF VerifierAnswers
<1>2. ASSUME NEW c \in Callers, BeginCheck(c) PROVE ToldInv'
  BY <1>2 DEF BeginCheck, Gate!Begin
<1>3. ASSUME NEW c \in Callers, CheckAllows(c) PROVE ToldInv'
  BY <1>3 DEF CheckAllows, Gate!Allow, Gate!Allowed, Gate!Answered, LetThrough,
         CheckOver
<1>4. ASSUME NEW c \in Callers, CheckFails(c) PROVE ToldInv'
  BY <1>4, FailureIsError DEF CheckFails, Gate!Fail, Gate!Answered, CheckOver
<1>5. ASSUME NEW c \in Callers, CheckPanics(c) PROVE ToldInv'
  BY <1>5 DEF CheckPanics, Gate!Abandon, CheckOver
<1>6. ASSUME NEW c \in Callers, CheckSkipped(c) PROVE ToldInv'
  BY <1>6 DEF CheckSkipped, Gate!Skip, Gate!Recent, Gate!Answered, LetThrough
<1>7. ASSUME NEW c \in Callers, GateAnswers(c) PROVE ToldInv'
  BY <1>7 DEF GateAnswers, Gate!Refuse, Gate!ReadErr, Gate!Answered
<1>8. ASSUME NEW w \in Workers, OpRefused(w) PROVE ToldInv'
  BY <1>8 DEF OpRefused, Gate!Leave, Returns
<1>9. ASSUME NEW w \in Workers, OpPanics(w) \/ UseTransport(w) \/ TransportFails(w)
      PROVE ToldInv'
  BY <1>9 DEF OpPanics, UseTransport, TransportFails, Gate!Leave, Returns
<1>10. ASSUME NEW s \in Senders, TransportSends(s) \/ \E m \in Outgoing : SendMsg(s, m)
       PROVE ToldInv'
  BY <1>10 DEF TransportSends, SendMsg, Gate!Check, Gate!Enter, Returns
<1>11. ASSUME NEW r \in Receivers, RecvMsg(r) \/ RecvReturns(r) PROVE ToldInv'
  BY <1>11 DEF RecvMsg, RecvReturns, Gate!Err, Gate!Enter, Gate!Leave, Returns
<1>12. ASSUME NEW r \in Receivers, NEW m \in Incoming, TransportReceives(r, m)
       PROVE ToldInv'
  BY <1>12 DEF TransportReceives, Gate!Check, Gate!Enter
<1>13. CASE OpenStream \/ HandlerStarts
  BY <1>13 DEF OpenStream, HandlerStarts, Gate!Check, Gate!Enter, Gate!Leave
<1>14. CASE OpeningFails
  BY <1>14 DEF OpeningFails, Gate!Leave, Ends
<1>15. CASE InterceptorReturns
  BY <1>15 DEF InterceptorReturns, Gate!Leave, Ends
<1>16. ASSUME NEW x \in Results, HandlerReturns(x) PROVE ToldInv'
  BY <1>16 DEF HandlerReturns, Gate!Err, Gate!Enter
<1>17. CASE HandlerPanics
  BY <1>17 DEF HandlerPanics, Ends
<1>18. CASE Revoke
  BY <1>18 DEF Revoke
<1>19. ASSUME NEW how \in {"canceled", "deadline"}, ContextEnds(how) PROVE ToldInv'
  BY <1>19, CodeOfNothing DEF ContextEnds
<1>20. ASSUME NEW t \in Targets, PolicyRewritten(t) PROVE ToldInv'
  BY <1>20 DEF PolicyRewritten
<1>21. CASE ClockTicks
  BY <1>21 DEF ClockTicks, Gate!Tick
<1>22. CASE UNCHANGED vars
  BY <1>22 DEF vars
<1> QED
  BY <1>1, <1>2, <1>3, <1>4, <1>5, <1>6, <1>7, <1>8, <1>9, <1>10, <1>11, <1>12, <1>13,
     <1>14, <1>15, <1>16, <1>17, <1>18, <1>19, <1>20, <1>21, <1>22
     DEF Next, Over, GateDecides, CheckEnds, OpGoesOn, MainGoesOn

\* Every variable keeps its type.
LEMMA TypeStep ==
  ASSUME StreamInv, [Next]_vars PROVE TypeOK'
<1> USE RolesAssumption, ValuesAssumption
    DEF StreamInv, TypeOK, GateProofs!GateInv, GateProofs!TypeOK, Workers, Callers,
        Messages, OpInv, HeldInv, Endings, Gate!TypeOK, Gate!GateFailures,
        Gate!Stages, Gate!Times, GateProofs!GateFailures, GateProofs!Stages,
        GateProofs!Times, gateVars, checkVars, opVars, flowVars, rpcVars, envVars
<1>1. CASE VerifierAnswers
  BY <1>1 DEF VerifierAnswers, Causes
<1>2. ASSUME NEW c \in Callers, BeginCheck(c) PROVE TypeOK'
  BY <1>2 DEF BeginCheck, Gate!Begin, Causes, CredFailure
\* What passes is counted with a message, or none, and two readings of the clock.
<1> DEFINE Passed == [message : Messages \cup {None}, own : BOOLEAN,
                      began : 0 .. MaxTime, at : 0 .. MaxTime]
<1>0. ASSUME NEW c \in Callers, LetThrough(c) PROVE late' \subseteq Passed
  <2>1. late' = late \/ late' = late \cup {Passing(c)}
    BY <1>0 DEF LetThrough
  <2>2. (IF c = Main THEN None ELSE held[c]) \in Messages \cup {None}
    BY DEF Workers
  <2>3. (call[c] = "run") \in BOOLEAN
    OBVIOUS
  <2>4. (IF call[c] = "run" THEN start ELSE last) \in 0 .. MaxTime /\ now \in 0 .. MaxTime
    OBVIOUS
  <2>5. Passing(c) \in Passed
    BY ONLY <2>2, <2>3, <2>4 DEF Passing
  <2> QED
    BY <2>1, <2>5
<1>3. ASSUME NEW c \in Callers, CheckAllows(c) PROVE TypeOK'
  <2>1. LetThrough(c)
    BY <1>3 DEF CheckAllows
  <2>2. late' \subseteq Passed
    BY <1>0, <2>1
  <2>3. /\ admitted' = (IF c = Main THEN admitted ELSE admitted \cup {held[c]})
        /\ UNCHANGED <<arrived, wire, delivered, told>>
    BY <2>1 DEF LetThrough
  <2>4. admitted' \subseteq Messages
    BY <1>3, <2>3 DEF CheckAllows, Gate!Allow, Gate!Allowed
  <2> QED
    BY <1>3, <2>2, <2>3, <2>4 DEF CheckAllows, Gate!Allow, Gate!Allowed, Gate!Answered,
       CheckOver
<1>4. ASSUME NEW c \in Callers, CheckFails(c) PROVE TypeOK'
  BY <1>4, FailureIsError DEF CheckFails, Gate!Fail, Gate!Answered, CheckOver
<1>5. ASSUME NEW c \in Callers, CheckPanics(c) PROVE TypeOK'
  BY <1>5 DEF CheckPanics, Gate!Abandon, CheckOver
<1>6. ASSUME NEW c \in Callers, CheckSkipped(c) PROVE TypeOK'
  <2>1. LetThrough(c)
    BY <1>6 DEF CheckSkipped
  <2>2. late' \subseteq Passed
    BY <1>0, <2>1
  <2>3. /\ admitted' = (IF c = Main THEN admitted ELSE admitted \cup {held[c]})
        /\ UNCHANGED <<arrived, wire, delivered, told>>
    BY <2>1 DEF LetThrough
  <2>4. admitted' \subseteq Messages
    BY <1>6, <2>3 DEF CheckSkipped, Gate!Skip
  <2> QED
    BY <1>6, <2>2, <2>3, <2>4 DEF CheckSkipped, Gate!Skip, Gate!Recent, Gate!Answered
<1>7. ASSUME NEW c \in Callers, GateAnswers(c) PROVE TypeOK'
  BY <1>7 DEF GateAnswers, Gate!Refuse, Gate!ReadErr, Gate!Answered
<1>8. ASSUME NEW w \in Workers, OpRefused(w) PROVE TypeOK'
  BY <1>8, RefusalHasCode DEF OpRefused, Gate!Leave, Returns
<1>9. ASSUME NEW w \in Workers, OpPanics(w) PROVE TypeOK'
  BY <1>9 DEF OpPanics, Gate!Leave, Returns
<1>10. ASSUME NEW w \in Workers, UseTransport(w) PROVE TypeOK'
  BY <1>10 DEF UseTransport, Gate!Leave
<1>11. ASSUME NEW w \in Workers, TransportFails(w) PROVE TypeOK'
  BY <1>11 DEF TransportFails, Returns
<1>12. ASSUME NEW s \in Senders, TransportSends(s) PROVE TypeOK'
  BY <1>12 DEF TransportSends, Returns
<1>13. ASSUME NEW s \in Senders, NEW m \in Outgoing, SendMsg(s, m) PROVE TypeOK'
  BY <1>13 DEF SendMsg, Gate!Check, Gate!Enter
<1>14. ASSUME NEW r \in Receivers, RecvMsg(r) PROVE TypeOK'
  BY <1>14 DEF RecvMsg, Gate!Err, Gate!Enter
<1>15. ASSUME NEW r \in Receivers, RecvReturns(r) PROVE TypeOK'
  BY <1>15 DEF RecvReturns, Gate!Leave, Returns
<1>16. ASSUME NEW r \in Receivers, NEW m \in Incoming, TransportReceives(r, m)
       PROVE TypeOK'
  BY <1>16 DEF TransportReceives, Gate!Check, Gate!Enter
<1>17. CASE OpenStream
  BY <1>17 DEF OpenStream, Gate!Check, Gate!Enter
<1>18. CASE HandlerStarts
  BY <1>18 DEF HandlerStarts, Gate!Leave
<1>19. CASE OpeningFails
  BY <1>19, CodeOfIsCode DEF OpeningFails, Gate!Leave, Ends
<1>20. CASE InterceptorReturns
  BY <1>20, RefusalHasCode DEF InterceptorReturns, Gate!Leave, Ends, MainInv
<1>21. ASSUME NEW x \in Results, HandlerReturns(x) PROVE TypeOK'
  BY <1>21 DEF HandlerReturns, Gate!Err, Gate!Enter
<1>22. CASE HandlerPanics
  BY <1>22 DEF HandlerPanics, Ends
<1>23. CASE Revoke
  <2>1. granted' \in BOOLEAN
    BY <1>23, Zenon DEF Revoke
  <2> QED
    BY <1>23, <2>1 DEF Revoke
<1>24. ASSUME NEW how \in {"canceled", "deadline"}, ContextEnds(how) PROVE TypeOK'
  BY <1>24 DEF ContextEnds
<1>25. ASSUME NEW t \in Targets, PolicyRewritten(t) PROVE TypeOK'
  BY <1>25 DEF PolicyRewritten
<1>26. CASE ClockTicks
  BY <1>26, ClockAssumption DEF ClockTicks, Gate!Tick
<1>27. CASE UNCHANGED vars
  BY <1>27 DEF vars
<1> QED
  BY <1>1, <1>2, <1>3, <1>4, <1>5, <1>6, <1>7, <1>8, <1>9, <1>10, <1>11, <1>12, <1>13,
     <1>14, <1>15, <1>16, <1>17, <1>18, <1>19, <1>20, <1>21, <1>22, <1>23, <1>24,
     <1>25, <1>26, <1>27
     DEF Next, Over, GateDecides, CheckEnds, OpGoesOn, MainGoesOn

-----------------------------------------------------------------------------
\* A stream that has just been made satisfies the inductive invariant.
LEMMA StreamInitInv == Init => StreamInv
<1> SUFFICES ASSUME Init PROVE StreamInv
  OBVIOUS
<1> USE RolesAssumption, ClockAssumption, ValuesAssumption
<1>1. GateProofs!GateInv
  <2>1. GateProofs!Init
    BY DEF Init, Gate!Init, GateProofs!Init
  <2> QED
    BY <2>1, GateAssumptions, GateProofs!InitInv
<1>2. TypeOK
  <2>1. Gate!TypeOK
    BY <1>1 DEF GateProofs!GateInv, GateProofs!TypeOK, Gate!TypeOK,
                GateProofs!GateFailures, Gate!GateFailures, GateProofs!Stages,
                Gate!Stages, GateProofs!Times, Gate!Times
  <2>2. covered \in BOOLEAN
    BY Zenon DEF Init
  <2>3. granted \in BOOLEAN /\ badCred \in BOOLEAN
    BY Zenon DEF Init
  <2> QED
    BY <2>1, <2>2, <2>3 DEF Init, TypeOK, Endings
<1>3. OpInv /\ HeldInv /\ ClearedUnlessAllowed
  BY DEF Init, Gate!Init, OpInv, HeldInv, ClearedUnlessAllowed, Workers, Callers
<1>4. MainInv /\ SameTarget /\ ToldInv
  BY DEF Init, Gate!Init, MainInv, SameTarget, ToldInv, Callers
<1>5. GrantInv /\ RevocationBound
  BY DEF Init, Gate!Init, GrantInv, RevocationBound
<1> QED
  BY <1>1, <1>2, <1>3, <1>4, <1>5 DEF StreamInv

\* Every step of the stream preserves it: its gate's part by the proof of the
\* gate, and the rest part by part.
LEMMA StreamNextInv == StreamInv /\ [Next]_vars => StreamInv'
<1> SUFFICES ASSUME StreamInv, [Next]_vars PROVE StreamInv'
  OBVIOUS
<1>1. GateProofs!GateInv'
  BY GateStep, GateAssumptions, GateProofs!NextInv DEF StreamInv
<1> QED
  BY <1>1, TypeStep, OpStep, HeldStep, MainStep, GrantStep, ToldStep DEF StreamInv

LEMMA StreamInvHolds == Spec => []StreamInv
  BY StreamInitInv, StreamNextInv, PTL DEF Spec

-----------------------------------------------------------------------------
\* Every variable of the stream keeps its type.
THEOREM StreamTypeCorrect == Spec => []TypeOK
<1>1. StreamInv => TypeOK
  BY DEF StreamInv
<1> QED
  BY <1>1, StreamInvHolds, PTL

\* After a revocation nothing passes but on a check that had begun by then, and for less
\* than the interval, the one message whose own check was under way excepted: whatever the
\* interval, the verifier's delays and the number of sends and receives.
THEOREM RevocationIsBounded == Spec => []RevocationBound
<1>1. StreamInv => RevocationBound
  BY DEF StreamInv
<1> QED
  BY <1>1, StreamInvHolds, PTL

\* Every check asks about the target the stream was opened for.
THEOREM TargetIsFixed == Spec => []SameTarget
<1>1. StreamInv => SameTarget
  BY DEF StreamInv
<1> QED
  BY <1>1, StreamInvHolds, PTL

\* A buffer the handler has back never holds a message the gate did not admit.
THEOREM RefusedIsCleared == Spec => []ClearedUnlessAllowed
<1>1. StreamInv => ClearedUnlessAllowed
  BY DEF StreamInv
<1> QED
  BY <1>1, StreamInvHolds, PTL

\* All refused sends and receives are told one code.
THEOREM RefusalIsOne == Spec => []OneRefusal
<1>1. StreamInv => OneRefusal
  BY DEF StreamInv, ToldInv, OneRefusal
<1> QED
  BY <1>1, StreamInvHolds, PTL

-----------------------------------------------------------------------------
(***************************************************************************)
(* AuthStream implements the specification of its gate (StreamGate) and    *)
(* the abstract stream of the README (StreamPromise), under the refinement *)
(* mapping Life, Reason, Outcome of AuthStream.                            *)
(***************************************************************************)

\* The stream implements StreamGate: it uses its gate as the gate is specified.
THEOREM UsesItsGate == Spec => GateSpec
<1>1. Init => Gate!Init
  BY DEF Init
<1>2. [GateProofs!Next]_(GateProofs!vars) => [Gate!Next]_(Gate!vars)
  BY DEF GateProofs!Next, GateProofs!vars, GateProofs!Tick, GateProofs!Check,
         GateProofs!Err, GateProofs!Enter, GateProofs!Decide, GateProofs!ReadErr,
         GateProofs!Refuse, GateProofs!Skip, GateProofs!Begin, GateProofs!Recent,
         GateProofs!Finish, GateProofs!Allow, GateProofs!Allowed, GateProofs!Abandon,
         GateProofs!Fail, GateProofs!Answered, GateProofs!Leave,
         Gate!Next, Gate!vars, Gate!Tick, Gate!Check, Gate!Err, Gate!Enter,
         Gate!Decide, Gate!ReadErr, Gate!Refuse, Gate!Skip, Gate!Begin, Gate!Recent,
         Gate!Finish, Gate!Allow, Gate!Allowed, Gate!Abandon, Gate!Fail,
         Gate!Answered, Gate!Leave
<1>3. StreamInv /\ [Next]_vars => [Gate!Next]_(Gate!vars)
  BY <1>2, GateStep DEF StreamInv
<1> QED
  BY <1>1, <1>3, StreamInvHolds, PTL DEF Spec, GateSpec, Gate!Spec

-----------------------------------------------------------------------------
\* A stream that has just been made is opening, with nothing admitted.
LEMMA PromiseInit == Init => Promise!Init
  BY DEF Init, Gate!Init, Promise!Init, Life, Reason, Outcome

\* Every step of the stream is a step of the promise or none of its business: an
\* answer of the gate admits, a failed re-check closes, a transport hands over.
LEMMA PromiseStep ==
  ASSUME StreamInv, StreamInv', [Next]_vars PROVE [Promise!Next]_(Promise!vars)
<1> USE RolesAssumption, ValuesAssumption, CodeOfNothing
    DEF GateError, StreamInv, GateProofs!GateInv, GateProofs!TypeOK, GateProofs!GateFailures,
        GateProofs!MutexInv, GateProofs!IncompleteIsReal, GateProofs!Closed, TypeOK,
        OpInv, MainInv, ToldInv, Workers, Callers, gateVars, checkVars, opVars,
        flowVars, rpcVars, envVars, Promise!vars, Life, Reason, Outcome, Gate!Closed
<1>1. CASE VerifierAnswers
  BY <1>1 DEF VerifierAnswers
<1>2. ASSUME NEW c \in Callers, BeginCheck(c) PROVE UNCHANGED Promise!vars
  BY <1>2 DEF BeginCheck, Gate!Begin
<1>3. ASSUME NEW c \in Callers, CheckAllows(c) PROVE [Promise!Next]_(Promise!vars)
  <2>1. CASE c = Main
    <3>1. UNCHANGED Promise!vars
      BY <1>3, <2>1 DEF CheckAllows, Gate!Allow, Gate!Allowed, Gate!Answered, LetThrough
    <3> QED
      BY <3>1
  <2>2. CASE c # Main
    <3>1. Promise!Admit(held[c])
      BY <1>3, <2>2 DEF CheckAllows, Gate!Allow, Gate!Allowed, Gate!Answered, LetThrough, Promise!Admit
    <3>2. held[c] \in Messages
      BY <1>3, <2>2 DEF HeldInv, Messages, CheckAllows, Gate!Allow, Gate!Allowed
    <3> QED
      BY <3>1, <3>2 DEF Promise!Next
  <2> QED
    BY <2>1, <2>2
<1>4. ASSUME NEW c \in Callers, CheckFails(c) PROVE [Promise!Next]_(Promise!vars)
  <2>1. CASE c = Main
    <3>1. UNCHANGED Promise!vars
      BY <1>4, <2>1, FailureIsError DEF CheckFails, Gate!Fail, Gate!Answered
    <3> QED
      BY <3>1
  <2>2. CASE c # Main
    <3>1. Promise!Close(FailureOf(c, answer).code)
      BY <1>4, <2>2, FailureIsError DEF CheckFails, Gate!Fail, Gate!Answered, GateError, Promise!Close
    <3>2. FailureOf(c, answer).code \in Codes
      BY <1>4, <2>2, FailureIsError DEF CheckFails
    <3> QED
      BY <3>1, <3>2 DEF Promise!Next
  <2> QED
    BY <2>1, <2>2
<1>5. ASSUME NEW c \in Callers, CheckPanics(c) PROVE [Promise!Next]_(Promise!vars)
  <2>1. CASE c = Main
    <3>1. UNCHANGED Promise!vars
      BY <1>5, <2>1 DEF CheckPanics, Gate!Abandon
    <3> QED
      BY <3>1
  <2>2. CASE c # Main
    <3>1. Promise!Close("Internal")
      BY <1>5, <2>2, CodeOfNothing DEF CheckPanics, Gate!Abandon, GateError, Promise!Close
    <3> QED
      BY <3>1 DEF Promise!Next, Codes
  <2> QED
    BY <2>1, <2>2
<1>6. ASSUME NEW c \in Callers, CheckSkipped(c) PROVE [Promise!Next]_(Promise!vars)
  <2>1. c # Main
    BY <1>6 DEF CheckSkipped, Gate!Skip, Gate!Recent
  <2>2. Promise!Admit(held[c])
    BY <1>6, <2>1 DEF CheckSkipped, Gate!Skip, Gate!Answered, Gate!Recent, LetThrough, Promise!Admit
  <2>3. held[c] \in Messages
    BY <1>6, <2>1 DEF HeldInv, Messages, CheckSkipped, Gate!Skip
  <2> QED
    BY <2>2, <2>3 DEF Promise!Next
<1>7. ASSUME NEW c \in Callers, GateAnswers(c) PROVE [Promise!Next]_(Promise!vars)
  <2>1. CASE c = Main /\ phase = "returned" /\ err = None
    <3>1. Promise!End(result)
      BY <1>7, <2>1 DEF GateAnswers, Gate!Refuse, Gate!ReadErr, Gate!Answered, Promise!End
    <3>2. result \in Results
      BY <2>1
    <3> QED
      BY <3>1, <3>2 DEF Promise!Next
  <2>2. CASE ~(c = Main /\ phase = "returned" /\ err = None)
    <3>1. UNCHANGED Promise!vars
      BY <1>7, <2>2 DEF GateAnswers, Gate!Refuse, Gate!ReadErr, Gate!Answered
    <3> QED
      BY <3>1
  <2> QED
    BY <2>1, <2>2
<1>8. ASSUME NEW w \in Workers, OpRefused(w) PROVE UNCHANGED Promise!vars
  BY <1>8 DEF OpRefused, Gate!Leave
<1>9. ASSUME NEW w \in Workers, OpPanics(w) \/ UseTransport(w) \/ TransportFails(w)
      PROVE  UNCHANGED Promise!vars
  BY <1>9 DEF OpPanics, UseTransport, TransportFails, Gate!Leave
<1>10. ASSUME NEW s \in Senders, TransportSends(s) PROVE Promise!Next
  <2>1. Promise!HandOver(held[s])
    BY <1>10 DEF TransportSends, Promise!HandOver, HeldInv
  <2>2. held[s] \in Messages
    BY <1>10 DEF HeldInv, Messages, TransportSends
  <2> QED
    BY <2>1, <2>2 DEF Promise!Next
<1>11. ASSUME NEW r \in Receivers, RecvReturns(r) PROVE Promise!Next
  <2>1. Promise!HandOver(held[r])
    BY <1>11 DEF RecvReturns, Gate!Leave, Promise!HandOver, HeldInv
  <2>2. held[r] \in Messages
    BY <1>11 DEF HeldInv, Messages, RecvReturns
  <2> QED
    BY <2>1, <2>2 DEF Promise!Next
<1>12. ASSUME NEW s \in Senders, NEW m, SendMsg(s, m) PROVE UNCHANGED Promise!vars
  BY <1>12 DEF SendMsg, Gate!Check, Gate!Enter
<1>13. ASSUME NEW r \in Receivers, NEW m, RecvMsg(r) \/ TransportReceives(r, m)
       PROVE  UNCHANGED Promise!vars
  BY <1>13 DEF RecvMsg, TransportReceives, Gate!Check, Gate!Err, Gate!Enter
<1>14. CASE OpenStream
  <2>1. UNCHANGED Promise!vars
    BY <1>14 DEF OpenStream, Gate!Check, Gate!Enter
  <2> QED
    BY <2>1
<1>15. CASE HandlerStarts
  <2>1. Promise!Open
    BY <1>15 DEF HandlerStarts, Gate!Leave, Promise!Open
  <2> QED
    BY <2>1 DEF Promise!Next
<1>16. CASE OpeningFails
  <2>1. CASE call[Main] = "done"
    <3>1. Promise!Refuse(status', status')
      BY <1>16, <2>1 DEF OpeningFails, Gate!Leave, Ends, Promise!Refuse
    <3>2. status' \in Codes
      BY <1>16, <2>1, CodeOfIsCode DEF OpeningFails, Ends
    <3> QED
      BY <3>1, <3>2 DEF Promise!Next
  <2>2. CASE call[Main] = "panic"
    <3>1. Promise!Refuse("Internal", Panicked)
      BY <1>16, <2>2, CodeOfNothing DEF OpeningFails, Gate!Leave, Ends, GateError, Promise!Refuse
    <3> QED
      BY <3>1 DEF Promise!Next, Codes
  <2> QED
    BY <1>16, <2>1, <2>2 DEF OpeningFails
<1>17. CASE InterceptorReturns
  <2>1. CASE got[Main] = None
    <3>1. UNCHANGED Promise!vars
      BY <1>17, <2>1 DEF InterceptorReturns, Gate!Leave, Ends
    <3> QED
      BY <3>1
  <2>2. CASE got[Main] # None
    <3>1. GateError(got[Main]) \in Codes /\ got[Main] = err
      BY <1>17, <2>2, RefusalHasCode DEF InterceptorReturns
    <3>2. Promise!End(GateError(err))
      BY <1>17, <2>2, <3>1 DEF InterceptorReturns, Gate!Leave, Ends, Promise!End
    <3> QED
      BY <3>1, <3>2 DEF Promise!Next
  <2> QED
    BY <2>1, <2>2
<1>18. ASSUME NEW x \in Results, HandlerReturns(x) PROVE UNCHANGED Promise!vars
  BY <1>18 DEF HandlerReturns, Gate!Err, Gate!Enter
<1>19. CASE HandlerPanics
  <2>1. Promise!End(Panicked)
    BY <1>19 DEF HandlerPanics, Ends, Promise!End
  <2> QED
    BY <2>1 DEF Promise!Next
<1>20. CASE Revoke \/ ClockTicks
  <2>1. UNCHANGED Promise!vars
    BY <1>20 DEF Revoke, ClockTicks, Gate!Tick
  <2> QED
    BY <2>1
<1>21. ASSUME NEW how, ContextEnds(how) PROVE UNCHANGED Promise!vars
  BY <1>21, CodeOfNothing DEF ContextEnds, GateError
<1>22. ASSUME NEW t, PolicyRewritten(t) PROVE UNCHANGED Promise!vars
  BY <1>22 DEF PolicyRewritten
<1>23. CASE UNCHANGED vars
  BY <1>23 DEF vars
<1> QED
  BY <1>1, <1>2, <1>3, <1>4, <1>5, <1>6, <1>7, <1>8, <1>9, <1>10, <1>11, <1>12, <1>13,
     <1>14, <1>15, <1>16, <1>17, <1>18, <1>19, <1>20, <1>21, <1>22, <1>23
     DEF Next, GateDecides, CheckEnds, OpGoesOn, MainGoesOn, Over

\* The stream keeps the README's promises, for any gate interval, verifier and handler.
THEOREM KeepsItsPromise == Spec => KeepsPromise
<1>1. StreamInv /\ StreamInv' /\ [Next]_vars => [Promise!Next]_(Promise!vars)
  BY PromiseStep
<1> QED
  BY <1>1, PromiseInit, StreamInvHolds, PTL DEF Spec, KeepsPromise, Promise!Spec

\* Once a send or a receive was refused, the RPC ends with that refusal or with
\* a panic: the promise's End leaves a closed stream nothing else.
THEOREM RefusalSettlesRPC == Spec => RefusalEndsRPC
<1> DEFINE Settled ==
      Outcome = None /\ Outcome' # None /\ told # {} => Outcome' \in told \cup {Panicked}
<1>1. ASSUME StreamInv, [Promise!Next]_(Promise!vars) PROVE Settled
  <2> SUFFICES ASSUME Outcome = None, Outcome' # None, told # {}
               PROVE  Outcome' \in told \cup {Panicked}
    OBVIOUS
  <2> USE <1>1 DEF StreamInv
  <2>1. phase \in {"serving", "returned"} /\ checked
    BY DEF TypeOK, MainInv, Outcome
  <2>2. Life = "closed" /\ Reason = GateError(err)
    BY <2>1 DEF ToldInv, Life, Reason, Gate!Closed
  <2>3. GateError(err) \in told
    BY DEF ToldInv
  <2>4. PICK o : Promise!End(o)
    BY <2>2 DEF Promise!Next, Promise!vars, Promise!Open, Promise!Close,
                      Promise!Refuse, Promise!Admit, Promise!HandOver
  <2> QED
    BY <2>2, <2>3, <2>4 DEF Promise!End
<1>2. StreamInv /\ StreamInv' /\ [Next]_vars => [Settled]_vars
  BY <1>1, PromiseStep
<1> QED
  BY <1>2, StreamInvHolds, PTL DEF Spec, RefusalEndsRPC
=============================================================================
