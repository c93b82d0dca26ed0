------------------------- MODULE MCRuntimeExecution -------------------------
(***************************************************************************)
(* Instances of RuntimeExecution for TLC.                                  *)
(***************************************************************************)
EXTENDS RuntimeExecution

\* A policy of each kind: no retry and a review, one retry and no review.
MCPolicies == {[maxRetries |-> 0, review |-> TRUE], [maxRetries |-> 1, review |-> FALSE]}
MCRetryPolicy == {[maxRetries |-> 1, review |-> TRUE]}
=============================================================================
