-------------------------- MODULE RetryPolicyProofs ---------------------------
(***************************************************************************)
(* RetryPolicy keeps its bounds, rides out an outage and hears stop(), for *)
(* every policy, jitter, hint, request time and outage.                    *)
(*                                                                         *)
(* The strengthening says where the loop is with respect to its bounds:    *)
(* an attempt is only started below them, and a failed attempt started     *)
(* while the relay was down, so it ended less than one request after it    *)
(* came back.                                                              *)
(***************************************************************************)
EXTENDS RetryPolicy, TLAPS

AttemptsLeft ==
    policy.attempts # NoBound /\ pc \in {"attempt", "sleep"} =>
        attempts < policy.attempts

FailedInOutage == pc = "decide" => elapsed < outage + RequestTime

JustStopped ==
    /\ ~stopping => sinceStop = 0
    /\ stopping /\ pc = "attempt" => sinceStop = 0

IInv ==
    /\ TypeOK
    /\ WithinBounds /\ AttemptsLeft
    /\ FailedInOutage /\ RidesOut
    /\ JustStopped /\ StopHeard

LEMMA LeastType == \A a, b \in Int : Least(a, b) \in {a, b} /\ Least(a, b) <= a
                                     /\ Least(a, b) <= b
BY DEF Least

\* Every delay next_delay may choose is a number of ticks.
LEMMA DelaysType == Delays \subseteq Nat
<1>1. BackoffDelays(attempts - 1) \subseteq Nat
  BY RetryAssumption DEF BackoffDelays, RetryAssumption
<1>2. ASSUME NEW hint \in Readable PROVE RetryAfter(hint) \in Nat
  BY RetryAssumption DEF Readable, RetryAfter, RetryAssumption, Least
<1> QED BY <1>1, <1>2 DEF Delays

LEMMA InitInv == Init => IInv
<1> SUFFICES ASSUME Init PROVE IInv
  OBVIOUS
<1> USE RetryAssumption DEF Init, RetryAssumption
<1>0. /\ policy.budget \in Nat \cup {NoBound}
      /\ policy.attempts \in (Nat \ {0}) \cup {NoBound}
  OBVIOUS
<1>1. TypeOK BY DEF TypeOK
<1>2. WithinBounds BY <1>0 DEF WithinBounds, HasBudget
<1>3. AttemptsLeft BY <1>0 DEF AttemptsLeft
<1>4. FailedInOutage /\ RidesOut BY DEF FailedInOutage, RidesOut
<1>5. JustStopped BY DEF JustStopped
<1>6. StopHeard BY DEF StopHeard
<1> QED BY <1>1, <1>2, <1>3, <1>4, <1>5, <1>6 DEF IInv

LEMMA StepInv == IInv /\ [Next]_vars => IInv'
<1> SUFFICES ASSUME IInv, [Next]_vars PROVE IInv'
  OBVIOUS
<1> USE RetryAssumption DEF RetryAssumption
<1>0. policy.budget \in Nat \cup {NoBound} /\ policy.attempts \in (Nat \ {0}) \cup {NoBound}
  BY DEF IInv, TypeOK
<1>1. CASE AttemptSucceeds
  <2>1. TypeOK' BY <1>1 DEF IInv, TypeOK, AttemptSucceeds, Pass, Ended
  <2>2. WithinBounds' /\ AttemptsLeft'
    BY <1>0, <1>1 DEF IInv, TypeOK, AttemptSucceeds, WithinBounds, AttemptsLeft, HasBudget
  <2>3. FailedInOutage' /\ RidesOut'
    BY <1>1 DEF IInv, AttemptSucceeds, FailedInOutage, RidesOut
  <2>4. JustStopped' /\ StopHeard'
    BY <1>1 DEF IInv, TypeOK, AttemptSucceeds, Pass, JustStopped, StopHeard
  <2> QED BY <2>1, <2>2, <2>3, <2>4 DEF IInv
<1>2. CASE AttemptFails
  <2>1. TypeOK' BY <1>2 DEF IInv, TypeOK, AttemptFails, Pass
  <2>2. WithinBounds' /\ AttemptsLeft'
    BY <1>0, <1>2 DEF IInv, TypeOK, AttemptFails, WithinBounds, AttemptsLeft, HasBudget
  <2>3. FailedInOutage' /\ RidesOut'
    <3>1. PICK n \in 1 .. RequestTime : elapsed' = elapsed + n
      BY <1>2 DEF AttemptFails, Pass
    <3>2. elapsed < outage /\ outage' = outage /\ outage \in Nat /\ elapsed \in Nat
      BY <1>2 DEF AttemptFails, IInv, TypeOK
    <3>3. elapsed' < outage' + RequestTime BY <3>1, <3>2
    <3>4. pc' = "decide" BY <1>2 DEF AttemptFails
    <3> QED BY <3>3, <3>4 DEF FailedInOutage, RidesOut
  <2>4. JustStopped' /\ StopHeard'
    BY <1>2 DEF IInv, TypeOK, AttemptFails, Pass, JustStopped, StopHeard
  <2> QED BY <2>1, <2>2, <2>3, <2>4 DEF IInv
<1>3. CASE GiveUp
  <2>1. TypeOK' BY <1>3 DEF IInv, TypeOK, GiveUp, Ended
  <2>2. WithinBounds' /\ AttemptsLeft'
    BY <1>3 DEF IInv, GiveUp, WithinBounds, AttemptsLeft, HasBudget
  <2>3. FailedInOutage' BY <1>3 DEF GiveUp, FailedInOutage
  <2>4. RidesOut'
    <3>1. elapsed \in Nat /\ outage \in Nat BY DEF IInv, TypeOK
    <3>2. elapsed < outage + RequestTime BY <1>3 DEF GiveUp, IInv, FailedInOutage
    <3>3. policy' = policy /\ outage' = outage BY <1>3 DEF GiveUp
    <3>4. attempts' = attempts /\ attempts \in Nat BY <1>3 DEF GiveUp, IInv, TypeOK
    <3>5. CASE policy.attempts # NoBound /\ attempts >= policy.attempts
      <4>1. attempts = policy.attempts
        BY <1>0, <1>3, <3>4, <3>5 DEF IInv, WithinBounds
      <4> QED BY <3>3, <3>4, <3>5, <4>1 DEF RidesOut
    <3>6. CASE HasBudget /\ elapsed >= policy.budget
      <4>1. policy.budget \in Nat BY <1>0, <3>6 DEF HasBudget
      <4>2. outage + RequestTime > policy.budget BY <3>1, <3>2, <3>6, <4>1
      <4> QED BY <3>3, <3>6, <4>2 DEF RidesOut, HasBudget
    <3> QED BY <1>3, <3>5, <3>6 DEF GiveUp, Exhausted
  <2>5. JustStopped' /\ StopHeard'
    BY <1>3 DEF IInv, GiveUp, JustStopped, StopHeard
  <2> QED BY <2>1, <2>2, <2>3, <2>4, <2>5 DEF IInv
<1>4. CASE Decide
  <2>1. PICK delay \in Nat : left' = Trimmed(delay)
    BY <1>4, DelaysType DEF Decide
  <2>2. HasBudget => elapsed < policy.budget
    BY <1>0, <1>4 DEF IInv, TypeOK, Decide, Exhausted, HasBudget
  <2>3. left' \in Nat /\ (HasBudget => elapsed + left' <= policy.budget)
    BY <1>0, <2>1, <2>2 DEF IInv, TypeOK, Trimmed, HasBudget, Least
  <2>4. TypeOK' BY <1>4, <2>3 DEF IInv, TypeOK, Decide
  <2>5. WithinBounds' /\ AttemptsLeft'
    BY <1>0, <1>4, <2>3
       DEF IInv, TypeOK, Decide, Exhausted, WithinBounds, AttemptsLeft, HasBudget
  <2>6. FailedInOutage' /\ RidesOut'
    BY <1>4 DEF IInv, Decide, FailedInOutage, RidesOut
  <2>7. JustStopped' /\ StopHeard'
    BY <1>4 DEF IInv, Decide, JustStopped, StopHeard
  <2> QED BY <2>4, <2>5, <2>6, <2>7 DEF IInv
<1>5. CASE Sleep
  <2>1. /\ Least(left, Slice) \in Nat /\ Least(left, Slice) <= left
        /\ Least(left, Slice) <= Slice
    BY DEF IInv, TypeOK, Least
  <2>2. PICK n \in 0 .. Least(left, Slice) :
          /\ elapsed' = elapsed + Least(left, Slice)
          /\ sinceStop' = n
          /\ stopping' = (n > 0)
    BY <1>5 DEF Sleep
  <2>3. TypeOK' BY <1>5, <2>1, <2>2 DEF IInv, TypeOK, Sleep
  <2>4. WithinBounds' /\ AttemptsLeft'
    BY <1>0, <1>5, <2>1, <2>2
       DEF IInv, TypeOK, Sleep, WithinBounds, AttemptsLeft, HasBudget
  <2>5. FailedInOutage' /\ RidesOut'
    BY <1>5 DEF IInv, Sleep, FailedInOutage, RidesOut
  <2>6. sinceStop' \in Nat /\ sinceStop' <= Slice
    BY <2>1, <2>2
  <2>7. pc' = "sleep" BY <1>5 DEF Sleep
  <2>8. ~stopping' => sinceStop' = 0
    <3>1. n = 0 \/ n > 0 BY <2>1
    <3>2. n > 0 => stopping'
      <4>1. ASSUME n > 0 PROVE (n > 0) = TRUE BY <4>1
      <4> QED BY <4>1, <2>2
    <3> QED BY <3>1, <3>2, <2>2
  <2>9. JustStopped' /\ StopHeard'
    <3>1. StopHeard' BY <2>6 DEF IInv, TypeOK, StopHeard
    <3> QED BY <3>1, <2>7, <2>8 DEF JustStopped
  <2> QED BY <2>3, <2>4, <2>5, <2>9 DEF IInv
<1>6. CASE Wake
  <2>1. TypeOK' BY <1>6 DEF IInv, TypeOK, Wake, Ended
  <2>2. WithinBounds' /\ AttemptsLeft'
    BY <1>0, <1>6 DEF IInv, TypeOK, Wake, WithinBounds, AttemptsLeft, HasBudget
  <2>3. FailedInOutage' /\ RidesOut'
    BY <1>6 DEF IInv, Wake, FailedInOutage, RidesOut
  <2>4. JustStopped' /\ StopHeard'
    BY <1>6 DEF IInv, Wake, JustStopped, StopHeard
  <2> QED BY <2>1, <2>2, <2>3, <2>4 DEF IInv
<1>7. CASE Stop
  <2>1. TypeOK' BY <1>7 DEF IInv, TypeOK, Stop
  <2>2. WithinBounds' /\ AttemptsLeft'
    BY <1>7 DEF IInv, Stop, WithinBounds, AttemptsLeft, HasBudget
  <2>3. FailedInOutage' /\ RidesOut'
    BY <1>7 DEF IInv, Stop, FailedInOutage, RidesOut
  <2>4. JustStopped' /\ StopHeard'
    BY <1>7 DEF IInv, Stop, JustStopped, StopHeard
  <2> QED BY <2>1, <2>2, <2>3, <2>4 DEF IInv
<1>8. CASE HintOverflows
  <2>1. TypeOK' BY <1>8 DEF IInv, TypeOK, HintOverflows, Ended
  <2>2. WithinBounds' /\ AttemptsLeft'
    BY <1>8 DEF IInv, HintOverflows, WithinBounds, AttemptsLeft, HasBudget
  <2>3. FailedInOutage' /\ RidesOut'
    BY <1>8 DEF HintOverflows, FailedInOutage, RidesOut
  <2>4. JustStopped' /\ StopHeard'
    BY <1>8 DEF IInv, HintOverflows, JustStopped, StopHeard
  <2> QED BY <2>1, <2>2, <2>3, <2>4 DEF IInv
<1>9. CASE UNCHANGED vars
  BY <1>9 DEF vars, IInv, TypeOK, WithinBounds, AttemptsLeft, FailedInOutage, RidesOut,
              JustStopped, StopHeard, HasBudget
<1> QED BY <1>1, <1>2, <1>3, <1>4, <1>5, <1>6, <1>7, <1>8, <1>9 DEF Next

LEMMA Invariance == Spec => []IInv
BY InitInv, StepInv, PTL DEF Spec

\* The loop's counters keep their types under every policy and hint.
THEOREM TypeCorrect == Spec => []TypeOK
<1>1. IInv => TypeOK BY DEF IInv
<1> QED BY <1>1, Invariance, PTL

\* No attempt is started, and no sleep ends, beyond the wall-clock budget, and no
\* attempt is made beyond the cap.
THEOREM BoundsKept == Spec => []WithinBounds
<1>1. IInv => WithinBounds BY DEF IInv
<1> QED BY <1>1, Invariance, PTL

\* The loop gives up only with its attempts used up, or in an outage that was not
\* over one request before the budget: a budget without a cap rides out all others.
THEOREM OutageRiddenOut == Spec => []RidesOut
<1>1. IInv => RidesOut BY DEF IInv
<1> QED BY <1>1, Invariance, PTL

\* stop() ends the loop within one slice or one request.
THEOREM StopHeardInTime == Spec => []StopHeard
<1>1. IInv => StopHeard BY DEF IInv
<1> QED BY <1>1, Invariance, PTL

=============================================================================
