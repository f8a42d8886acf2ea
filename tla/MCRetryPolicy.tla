---------------------------- MODULE MCRetryPolicy ----------------------------
(* An instance of RetryPolicy for TLC. *)
EXTENDS RetryPolicy

CONSTANT None

\* Unbounded, as the subscriber's; bounded by wall clock; by both.
MCPolicies ==
    {[budget |-> None, attempts |-> None],
     [budget |-> 9, attempts |-> None],
     [budget |-> 9, attempts |-> 3]}

\* In the past, at once, longer than a slice, beyond the clamp, beyond a float.
MCHints == {-1, 0, 5, 8, 20}

=============================================================================
