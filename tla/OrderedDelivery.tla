--------------------------- MODULE OrderedDelivery ---------------------------
(***************************************************************************)
(* What the relay client promises the owner of one strategy stream, with   *)
(* no process, page, thread or file in sight: signals are handled in       *)
(* sequence order, and the durable cursor never moves past a signal that   *)
(* was neither handled nor deliberately skipped by the operator.           *)
(* Subscriber and WsSubscriber are shown to implement this specification.  *)
(***************************************************************************)
EXTENDS Integers

VARIABLES
    log,      \* the sequences the relay has accepted; sequences may have holes
    handled,  \* sequences whose on_signal callback returned at least once
    cursor,   \* the durable cursor, 0 when none was ever committed
    floor     \* highest sequence the operator asked to skip (start_from)

dvars == <<log, handled, cursor, floor>>

\* Every signal up to n was handled, or skipped because the operator asked.
Accounted(n) == \A s \in log : s <= n => s \in handled \/ s <= floor

Init == log = {} /\ handled = {} /\ cursor = 0 /\ floor = 0

\* The relay appends: sequences only grow, possibly leaving a hole.
Publish ==
    /\ \E s \in log' : log' = log \cup {s} /\ \A t \in log : t < s
    /\ UNCHANGED <<handled, cursor, floor>>

\* The operator starts a run later in the log, durably so with "latest".
Skip ==
    /\ floor' >= floor
    /\ cursor' = cursor \/ cursor' <= floor'
    /\ UNCHANGED <<log, handled>>

\* The callback returns for a signal: nothing before it is left behind.
Handle ==
    /\ \E s \in log : Accounted(s - 1) /\ handled' = handled \cup {s}
    /\ UNCHANGED <<log, cursor, floor>>

\* The cursor moves to a position below which everything is accounted for.
Commit ==
    /\ Accounted(cursor')
    /\ UNCHANGED <<log, handled, floor>>

Next == Publish \/ Skip \/ Handle \/ Commit

Spec == Init /\ [][Next]_dvars

=============================================================================
