---------------------------- MODULE ErrorMapping ----------------------------
(***************************************************************************)
(* What an RPC caller is told of a failure: toGRPCError and toConnectError *)
(* (grpc/errors.go, connectrpc/errors.go), which are the same table.       *)
(*                                                                         *)
(* A Go error is what errors.As and errors.Is find in it, so it is the set *)
(* of the kinds it is at once: an endpoint of the service's own may wrap both *)
(* a deadline and an unavailable backend.                                  *)
(***************************************************************************)
EXTENDS Integers

\* What errors.As and errors.Is can find.
KindSet == {"denied", "unauthenticated", "canceled", "deadline", "unavailable"}

Codes == {"PermissionDenied", "Unauthenticated", "Canceled",
          "DeadlineExceeded", "Unavailable", "Internal"}

\* How the RPC's own context can stand: ctx.Err().
Endings == {"live", "canceled", "deadline"}

\* The code told of error, a set of kinds, when the RPC's context is ended: the
\* first case of the switch that applies.  A context error counts only when the
\* RPC's own context ended the same way.
CodeOf(ended, error) ==
    IF "denied" \in error THEN "PermissionDenied"
    ELSE IF "unauthenticated" \in error THEN "Unauthenticated"
    ELSE IF "canceled" \in error /\ ended = "canceled" THEN "Canceled"
    ELSE IF "deadline" \in error /\ ended = "deadline" THEN "DeadlineExceeded"
    ELSE IF "unavailable" \in error THEN "Unavailable"
    ELSE "Internal"
=============================================================================
