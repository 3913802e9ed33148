--------------------------- MODULE StreamPromise ----------------------------
(***************************************************************************)
(* What an authorized stream promises, with no gate, mutex, clock or       *)
(* verifier: the README's "Streaming" section as a state machine.          *)
(*                                                                         *)
(* A stream is "opening" until its opening check has passed, "open" while  *)
(* every check made has passed, and "closed" from the first failure on.    *)
(* Messages are admitted while it is open; only admitted messages are ever *)
(* handed over, to the client or to the handler.                           *)
(***************************************************************************)
CONSTANTS
    Messages,
    Reasons,        \* codes a stream can fail with
    Results,        \* what the handler may return
    Panicked,       \* a panic left the interceptor
    None

VARIABLES
    life,           \* "opening", "open" or "closed"
    reason,         \* the code the stream failed with, once closed
    admitted,       \* messages let through
    out,            \* messages handed over
    outcome         \* how the RPC ended, None while it has not

vars == <<life, reason, admitted, out, outcome>>

Init ==
    /\ life = "opening"
    /\ reason = None
    /\ admitted = {}
    /\ out = {}
    /\ outcome = None

Open ==
    /\ life = "opening"
    /\ life' = "open"
    /\ UNCHANGED <<reason, admitted, out, outcome>>

\* The opening check fails, and the RPC ends without a handler.
Refuse(r, o) ==
    /\ life = "opening"
    /\ life' = "closed"
    /\ reason' = r
    /\ outcome' = o
    /\ UNCHANGED <<admitted, out>>

\* A re-check fails.  It can do so after the RPC ended, in a send or receive the
\* handler left behind.
Close(r) ==
    /\ life = "open"
    /\ life' = "closed"
    /\ reason' = r
    /\ UNCHANGED <<admitted, out, outcome>>

Admit(m) ==
    /\ life = "open"
    /\ admitted' = admitted \cup {m}
    /\ UNCHANGED <<life, reason, out, outcome>>

\* An admitted message may be handed over after the stream closed.
HandOver(m) ==
    /\ m \in admitted
    /\ out' = out \cup {m}
    /\ UNCHANGED <<life, reason, admitted, outcome>>

\* The RPC ends.  Only a panic keeps a closed stream from ending with the
\* failure that closed it.
End(o) ==
    /\ outcome = None
    /\ life # "opening"
    /\ \/ o = Panicked
       \/ life = "open" /\ o \in Results
       \/ life = "closed" /\ o = reason
    /\ outcome' = o
    /\ UNCHANGED <<life, reason, admitted, out>>

Next ==
    \/ Open
    \/ \E r \in Reasons : Close(r) \/ \E o \in {r, Panicked} : Refuse(r, o)
    \/ \E m \in Messages : Admit(m) \/ HandOver(m)
    \/ \E o \in Results \cup Reasons \cup {Panicked} : End(o)

Spec == Init /\ [][Next]_vars
=============================================================================
