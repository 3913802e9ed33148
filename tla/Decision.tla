------------------------------ MODULE Decision ------------------------------
(***************************************************************************)
(* What an o3co verifier's answer says (endpoint/o3co_decision.go) and when *)
(* an allow rests on confirmed policy revisions (decision.go).             *)
(*                                                                         *)
(* A JSON object is what the readers tell apart: typed says that every key *)
(* they only check the type of has the contract's type, the other fields   *)
(* are the keys whose presence or value they act on.                       *)
(***************************************************************************)
EXTENDS Sequences

CONSTANTS
    Absent,     \* no such key
    None        \* no evaluation: the rule reported none

\* A revision is a digest, a string that is none, null, or not sent.
RawEvaluation ==
    [status : {"completed", "failed", "not_invoked", "added later"},
     revision : {"digest", "malformed", "null", "absent"}]

\* satisfiedBy is the evaluation of the rule it names.
RawGroup ==
    [typed : BOOLEAN, passed : BOOLEAN, restricts : {"absent", "true", "other"},
     satisfiedBy : RawEvaluation \cup {None, Absent}]

\* refusal is code and message: both, one of them, or neither.
RawObject ==
    [typed : BOOLEAN, decision : {"allow", "deny", "other", "not a string"},
     refusal : {"neither", "one", "caller_unauthenticated", "another"},
     groups : Seq(RawGroup)]

\* readEvaluation: an evaluated answer names its revision, and null is one.
ReadableEvaluation(e) == e.status \in {"completed", "failed"} => e.revision # "absent"

\* readGroup: satisfiedBy marks a pass, and restricts is true when sent.
ReadableGroup(g) ==
    /\ g.typed
    /\ g.restricts # "other"
    /\ g.passed <=> g.satisfiedBy # Absent
    /\ g.satisfiedBy \notin {None, Absent} => ReadableEvaluation(g.satisfiedBy)

\* readDecision: code and message are a deny's, and part of an envelope is none.
ReadableDecision(o) ==
    /\ o.typed
    /\ \/ o.decision = "allow" /\ o.refusal = "neither"
       \/ o.decision = "deny" /\ o.refusal \in {"caller_unauthenticated", "another"}
    /\ \A i \in DOMAIN o.groups : ReadableGroup(o.groups[i])

\* readError: the envelope of any other status.
ReadableError(o) ==
    /\ o.decision # "not a string"
    /\ o.refusal \in {"caller_unauthenticated", "another"}

\* ConfirmedRevision of the evaluation e.
Confirmed(e) == e # None /\ e.status = "completed" /\ e.revision = "digest"

\* RevisionConfirmed: every group passed, one of them grants, and each that
\* grants does on a confirmed revision.
RevisionConfirmed(groups) ==
    /\ \A i \in DOMAIN groups :
        /\ groups[i].passed /\ groups[i].satisfiedBy # Absent
        /\ groups[i].restricts = "true" \/ Confirmed(groups[i].satisfiedBy)
    /\ \E i \in DOMAIN groups : groups[i].restricts # "true"
=============================================================================
