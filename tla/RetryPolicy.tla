----------------------------- MODULE RetryPolicy -----------------------------
(***************************************************************************)
(* RetryPolicy.next_delay (_retry.py) and the loop around it: an attempt,  *)
(* a decision, a sleep, as in SignalPublisher.publish (which nobody stops) *)
(* and SignalSubscriber._fetch_page (which stop() ends).  Time is counted  *)
(* in ticks from the first attempt; jitter is any number of ticks up to    *)
(* the exponential term.  Attempts fail while the relay is down, from 0    *)
(* until tick "outage".                                                    *)
(*                                                                         *)
(* A definition named X_Something is X with a plausible bug, kept to show  *)
(* which property would notice it.                                         *)
(***************************************************************************)
EXTENDS Integers

CONSTANTS
    Policies,       \* the policies in use: [budget, attempts], each may be NoBound
    NoBound,        \* the value None
    BaseDelay,      \* BASE_DELAY_SECONDS
    MaxDelay,       \* MAX_DELAY_SECONDS
    MaxExponent,    \* _MAX_BACKOFF_EXPONENT
    MaxRetryAfter,  \* MAX_RETRY_AFTER_SECONDS
    Hints,          \* values of the Retry-After header, in ticks
    LargestFloat,   \* the largest integer that float() converts
    RequestTime,    \* the longest an attempt takes: the HTTP timeout
    Slice,          \* _STOP_CHECK_INTERVAL_SECONDS
    MaxOutage       \* bound on the length of the outage

ASSUME RetryAssumption ==
    /\ NoBound \notin Int
    /\ Policies \subseteq [budget : Nat \cup {NoBound}, attempts : (Nat \ {0}) \cup {NoBound}]
    /\ BaseDelay \in Nat /\ MaxDelay \in Nat /\ MaxExponent \in Nat
    /\ MaxRetryAfter \in Nat /\ Hints \subseteq Int /\ LargestFloat \in Nat
    /\ RequestTime \in Nat \ {0} /\ Slice \in Nat \ {0} /\ MaxOutage \in Nat

VARIABLES
    policy,     \* the policy of this loop
    outage,     \* when the relay is back
    pc,         \* where the loop is
    attempts,   \* HTTP attempts made
    elapsed,    \* ticks since the first attempt started
    left,       \* what is left of the current sleep
    stopping,   \* stop() was called
    sinceStop   \* ticks since then

vars == <<policy, outage, pc, attempts, elapsed, left, stopping, sinceStop>>

Ended == {"acked", "gave up", "stopped", "raised"}
Least(a, b) == IF a <= b THEN a ELSE b
HasBudget == policy.budget # NoBound

Init ==
    /\ policy \in Policies
    /\ outage \in 0 .. MaxOutage
    /\ pc = "attempt"
    /\ attempts = 0 /\ elapsed = 0 /\ left = 0
    /\ stopping = FALSE /\ sinceStop = 0

\* n ticks pass.
Pass(n) ==
    /\ elapsed' = elapsed + n
    /\ sinceStop' = IF stopping THEN sinceStop + n ELSE 0

\* A request takes some time and, once the relay is back, is answered.
AttemptSucceeds ==
    /\ pc = "attempt"
    /\ elapsed >= outage
    /\ \E n \in 1 .. RequestTime : Pass(n)
    /\ attempts' = attempts + 1
    /\ pc' = "acked"
    /\ UNCHANGED <<policy, outage, left, stopping>>

AttemptFails ==
    /\ pc = "attempt"
    /\ elapsed < outage
    /\ \E n \in 1 .. RequestTime : Pass(n)
    /\ attempts' = attempts + 1
    /\ pc' = "decide"
    /\ UNCHANGED <<policy, outage, left, stopping>>

\* The delays backoff_delay may return before retry n, over its random source.
BackoffDelays(n) ==
    {delay \in 0 .. MaxDelay : delay <= BaseDelay * 2 ^ Least(n, MaxExponent)}

\* The hints that float() converts; beyond them it raises OverflowError.
Readable == {hint \in Hints : -LargestFloat <= hint /\ hint <= LargestFloat}

\* A hint is clamped to MaxRetryAfter, and to 0 when it lies in the past.
RetryAfter(hint) == IF hint < 0 THEN 0 ELSE Least(hint, MaxRetryAfter)

\* The delays next_delay chooses from: the hint wins over the backoff.
Delays == BackoffDelays(attempts - 1) \cup {RetryAfter(hint) : hint \in Readable}

\* The last delay is not trimmed to the budget.
Trimmed_Whole(delay) == delay

\* No delay exceeds what is left of the budget.
Trimmed(delay) ==
    IF HasBudget THEN Least(delay, policy.budget - elapsed) ELSE delay

\* A delay that would not fit is not taken: the loop gives up before its time.
Exhausted_Early ==
    \/ policy.attempts # NoBound /\ attempts >= policy.attempts
    \/ HasBudget /\ elapsed + MaxDelay >= policy.budget

\* next_delay returns None.
Exhausted ==
    \/ policy.attempts # NoBound /\ attempts >= policy.attempts
    \/ HasBudget /\ elapsed >= policy.budget

GiveUp ==
    /\ pc = "decide"
    /\ Exhausted
    /\ pc' = "gave up"
    /\ UNCHANGED <<policy, outage, attempts, elapsed, left, stopping, sinceStop>>

Decide ==
    /\ pc = "decide"
    /\ ~Exhausted
    /\ \E delay \in Delays : left' = Trimmed(delay)
    /\ pc' = "sleep"
    /\ UNCHANGED <<policy, outage, attempts, elapsed, stopping, sinceStop>>

\* The header is read once the attempt cap is not reached; one of some hundred
\* digits raises an OverflowError that no caller handles.
HintOverflows ==
    /\ pc = "decide"
    /\ policy.attempts # NoBound => attempts < policy.attempts
    /\ Hints # Readable
    /\ pc' = "raised"
    /\ UNCHANGED <<policy, outage, attempts, elapsed, left, stopping, sinceStop>>

\* The whole delay is slept through at once.
Sleep_Whole ==
    /\ pc = "sleep"
    /\ left > 0 /\ ~stopping
    /\ \E n \in 0 .. left :   \* stop() comes n ticks before the end
          /\ elapsed' = elapsed + left
          /\ sinceStop' = n
          /\ stopping' = (n > 0)
    /\ left' = 0
    /\ UNCHANGED <<policy, outage, pc, attempts>>

\* One slice is slept; stop() may come n ticks before it ends.
Sleep ==
    /\ pc = "sleep"
    /\ left > 0 /\ ~stopping
    /\ \E n \in 0 .. Least(left, Slice) :
          /\ elapsed' = elapsed + Least(left, Slice)
          /\ sinceStop' = n
          /\ stopping' = (n > 0)
    /\ left' = left - Least(left, Slice)
    /\ UNCHANGED <<policy, outage, pc, attempts>>

\* The sleep is over, or was cut short by stop(), which ends the loop.
Wake ==
    /\ pc = "sleep"
    /\ left = 0 \/ stopping
    /\ pc' = IF stopping THEN "stopped" ELSE "attempt"
    /\ UNCHANGED <<policy, outage, attempts, elapsed, left, stopping, sinceStop>>

\* stop() is called as an attempt starts or is decided upon.
Stop ==
    /\ pc \in {"attempt", "decide"}
    /\ ~stopping
    /\ stopping' = TRUE
    /\ UNCHANGED <<policy, outage, pc, attempts, elapsed, left, sinceStop>>

Next ==
    \/ AttemptSucceeds \/ AttemptFails
    \/ GiveUp \/ Decide \/ HintOverflows
    \/ Sleep \/ Wake
    \/ Stop

Spec == Init /\ [][Next]_vars

-----------------------------------------------------------------------------
(* Properties *)

TypeOK ==
    /\ policy \in Policies /\ outage \in 0 .. MaxOutage
    /\ pc \in {"attempt", "decide", "sleep"} \cup Ended
    /\ attempts \in Nat /\ elapsed \in Nat /\ left \in Nat
    /\ stopping \in BOOLEAN /\ sinceStop \in Nat

\* "The loop cannot overshoot budget_seconds": no attempt starts after it, and
\* none beyond the attempt cap is made.
WithinBounds ==
    /\ HasBudget /\ pc = "attempt" => elapsed <= policy.budget
    /\ HasBudget /\ pc = "sleep" => elapsed + left <= policy.budget
    /\ policy.attempts # NoBound => attempts <= policy.attempts

\* "Long enough to ride out a deployment": whatever the jitter and the hints, the
\* loop gives up only when all attempts the policy allows were made, or in an outage
\* that was not over one request before the budget.
RidesOut ==
    pc = "gave up" =>
        \/ policy.attempts # NoBound /\ attempts = policy.attempts
        \/ HasBudget /\ outage + RequestTime > policy.budget

\* stop() is heard within one slice of sleep or one request, even where the loop
\* is unbounded and the server asks for a long delay.
StopHeard ==
    sinceStop <= IF Slice <= RequestTime THEN RequestTime ELSE Slice

=============================================================================
