---------------------------- MODULE MCBackendCall ----------------------------
\* BackendCall on small instances. A body is three bytes at most and the
\* bound one or three, so a body ends before, at, one past and two past it.
EXTENDS BackendCall, TLC

completed == [status |-> "completed", revision |-> "digest"]
unknown == [status |-> "completed", revision |-> "null"]
failed == [status |-> "failed", revision |-> "digest"]
unnamed == [status |-> "failed", revision |-> "absent"]

Group(passed, restricts, by) ==
    [typed |-> TRUE, passed |-> passed, restricts |-> restricts, satisfiedBy |-> by]

\* The groups of a reason: two granting rules, a restriction, and groups that
\* are not whole.
MCGroups ==
    {<<>>} \cup {<<Group(TRUE, r, e)>> : r \in {"absent", "true", "other"},
                                         e \in {completed, unknown, failed, unnamed, None, Absent}}
    \cup {<<Group(TRUE, "true", None), Group(p, "absent", e)>> :
            p \in BOOLEAN, e \in {completed, unknown, Absent}}

Object3(decision, refusal, groups) ==
    [typed |-> TRUE, decision |-> decision, refusal |-> refusal, groups |-> groups]

allowed == Object3("allow", "neither", <<Group(TRUE, "absent", completed)>>)

MCContents ==
    [o3co |->
        {Object3("allow", "neither", g) : g \in MCGroups}
        \cup {Object3("deny", r, <<>>) : r \in {"one", "caller_unauthenticated", "another"}}
        \cup {NotObject, [allowed EXCEPT !.refusal = "another"], [allowed EXCEPT !.typed = FALSE],
              Object3("not a string", "caller_unauthenticated", <<>>)},
     opa |-> {[result |-> r] : r \in {"true", "false", "absent", "other"}} \cup {NotObject},
     cedar |-> {[decision |-> d] : d \in {"Allow", "other"}} \cup {NotObject}]

\* What the part of a body that arrived may say.
MCPrefixes ==
    [o3co |-> {allowed, NotObject},
     opa |-> {[result |-> "true"], [result |-> "false"], NotObject},
     cedar |-> {[decision |-> "Allow"], [decision |-> "other"], NotObject}]

MCBodies ==
    [e \in {"o3co", "opa", "cedar"} |->
        [length : {0}, content : {NotObject}, prefix : {NotObject}]
        \cup [length : {1}, content : MCContents[e], prefix : {NotObject}]
        \cup [length : {2}, content : MCContents[e], prefix : MCPrefixes[e]]
        \cup [length : {3}, content : MCPrefixes[e], prefix : MCPrefixes[e]]]

=============================================================================
