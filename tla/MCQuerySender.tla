--------------------------- MODULE MCQuerySender ---------------------------
(* QuerySender with two calls and one task that handles events. *)
EXTENDS QuerySender

CONSTANTS q1, q2, e1

MCQueries == {q1, q2}
MCEventTasks == {e1}
=============================================================================
