---------------------------- MODULE MCSubscriber -----------------------------
(* Instances of Subscriber for TLC. *)
EXTENDS Subscriber

From(kind) == [kind |-> kind, n |-> 0]

\* Every kind of start_from.
EveryStart ==
    {From("cursor"), From("earliest"), From("latest"),
     [kind |-> "int", n |-> 1]}

=============================================================================
