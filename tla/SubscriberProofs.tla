--------------------------- MODULE SubscriberProofs ---------------------------
(***************************************************************************)
(* Proofs about Subscriber for every value of its constants: the types,    *)
(* no silent loss, in-order delivery, the redelivery window of             *)
(* start_from="cursor", and the refinement of OrderedDelivery.             *)
(***************************************************************************)
EXTENDS Subscriber, FiniteSetTheorems, WellFoundedInduction, TLAPS

\* n is not beyond everything the relay could still assign: either the
\* operator chose to skip that far, or the log already reaches n.
Reached(n) == n = 0 \/ n <= floor \/ \E s \in log : n <= s

\* The undelivered rows of the page leave out no signal of the log between the
\* position and any of them.
PagePrefix ==
    pc \in {"page", "callback", "commit"} =>
        \A s \in page : \A t \in log : position < t /\ t < s => t \in page

\* Which phase each program point belongs to.
PhaseOK ==
    /\ pc \in {"page", "callback", "commit", "poll"} => phase # "scan"
    /\ pc = "scanned" => phase = "scan"
    /\ pc = "poll" => phase = "live"

\* The position of a run past its scan is as well accounted for as the cursor.
PositionOK ==
    Running => /\ Reached(position)
               /\ phase # "scan" => Accounted(position)

\* The inductive invariant.
IInv ==
    /\ TypeOK
    /\ NoLoss
    /\ Reached(cursor)
    /\ PhaseOK
    /\ PositionOK
    /\ PagePrefix

-----------------------------------------------------------------------------
(* Pages *)

\* A set of sequences is finite: the relay's counter is bounded.
LEMMA LogFinite ==
    ASSUME NEW S, S \subseteq 1 .. MaxSeq
    PROVE  IsFiniteSet(S)
  BY BoundsAssumption, FS_Interval, FS_Subset, 1 \in Int, MaxSeq \in Int

\* A page is part of the log above the position asked for.
LEMMA PageInLog ==
    ASSUME NEW n \in Nat, NEW cap \in Nat
    PROVE  /\ PageAfter(n, cap) \subseteq log
           /\ \A s \in PageAfter(n, cap) : s > n
  BY DEF PageAfter, Rows

\* The first k rows after n are a prefix of the log: none below the last of
\* them is skipped.
LEMMA RowsArePrefix ==
    ASSUME TypeOK, NEW n \in Nat, NEW k \in Nat, NEW s \in Rows(n, k), NEW t \in log,
           n < t, t < s
    PROVE  t \in Rows(n, k)
  <1> DEFINE Upto(u) == {v \in log : n < v /\ v <= u}
  <1>1. s \in log /\ log \subseteq 1 .. MaxSeq
    BY DEF TypeOK, Rows
  <1>2. Upto(t) \subseteq Upto(s)
    <2>1. \A v \in log : v <= t => v <= s
      BY <1>1, BoundsAssumption, t < s
    <2> QED
      BY <2>1
  <1>3. IsFiniteSet(Upto(s))
    BY <1>1, LogFinite
  <1>4. /\ Cardinality(Upto(t)) <= Cardinality(Upto(s))
        /\ IsFiniteSet(Upto(t))
    BY <1>2, <1>3, FS_Subset
  <1>5. Cardinality(Upto(s)) \in Nat /\ Cardinality(Upto(t)) \in Nat
    BY <1>3, <1>4, FS_CardinalityType
  <1>6. Cardinality(Upto(s)) <= k
    BY DEF Rows
  <1>7. Cardinality(Upto(t)) <= k
    BY <1>4, <1>5, <1>6
  <1> QED
    BY <1>7 DEF Rows

\* Whatever the relay caps it at, a page skips nothing below its last row.
LEMMA PageIsPrefix ==
    ASSUME TypeOK, NEW n \in Nat, NEW cap \in ServerCaps, NEW s \in PageAfter(n, cap),
           NEW t \in log, n < t, t < s
    PROVE  t \in PageAfter(n, cap)
  BY RowsArePrefix, BoundsAssumption DEF PageAfter

\* A page the subscriber asks for is a part of the log, and holds numbers.
LEMMA PageTypes ==
    ASSUME TypeOK, NEW cap \in ServerCaps
    PROVE  /\ PageAfter(position, cap) \subseteq log
           /\ PageAfter(position, cap) \subseteq Nat
  <1>1. log \subseteq 1 .. MaxSeq /\ position \in Nat /\ cap \in Nat
    BY BoundsAssumption DEF TypeOK
  <1>2. log \subseteq Nat
    BY <1>1, BoundsAssumption
  <1>3. PageAfter(position, cap) \subseteq log
    BY <1>1, PageInLog
  <1> QED
    BY <1>2, <1>3

-----------------------------------------------------------------------------
(* Type correctness *)

LEMMA InitTypes ==
    ASSUME Init
    PROVE  TypeOK
  <1>1. start \in [kind : {"cursor", "earliest", "latest", "int"}, n : Nat]
    BY DEF Init
  <1>2. disruptions \in 0 .. MaxDisruptions
    BY BoundsAssumption DEF Init
  <1> QED
    BY <1>1, <1>2 DEF Init, TypeOK

LEMMA StepTypes ==
    ASSUME TypeOK, [Next]_vars
    PROVE  TypeOK'
  <1>0. \A cap \in ServerCaps : /\ PageAfter(position, cap) \subseteq log
                                /\ PageAfter(position, cap) \subseteq Nat
    BY PageTypes
  <1> USE DEF TypeOK
  <1>1. CASE UNCHANGED vars
    BY <1>1 DEF vars, objVars, history
  <1>2. CASE Environment
    <2>1. ASSUME NEW s \in 1 .. MaxSeq, Append(s)
          PROVE  TypeOK'
      BY <2>1 DEF Append, objVars, history
    <2>2. CASE LoadRaises
      BY <2>2 DEF LoadRaises, objVars, history
    <2>3. CASE Stop \/ Crash
      <3>1. disruptions' \in 0 .. MaxDisruptions
        BY <2>3, BoundsAssumption DEF Stop, Crash
      <3> QED
        BY <2>3, <3>1 DEF Stop, Crash, history
    <2> QED
      BY <1>2, <2>1, <2>2, <2>3 DEF Environment
  <1>3. CASE Operator
    <2>1. ASSUME NEW m \in StartModes, Construct(m)
          PROVE  TypeOK'
      BY <2>1, StartModesAssumption DEF Construct, objVars, history
    <2>2. ASSUME NEW method \in {"run", "catch_up_only"}, Call(method)
          PROVE  TypeOK'
      BY <2>2 DEF Call, Larger, history
    <2> QED
      BY <1>3, <2>1, <2>2 DEF Operator
  <1>4. CASE Step
    <2>1. CASE FetchPage
      BY <1>0, <2>1 DEF FetchPage, history
    <2>2. CASE AttemptFails \/ Retry \/ ScanStopped \/ BeginCallback \/ PollTick
      BY <2>2 DEF AttemptFails, Retry, ScanStopped, BeginCallback, PollTick,
                  objVars, history
    <2>3. CASE \E kind \in ErrorKinds : FetchRaises(kind) \/ CallbackRaises(kind)
      BY <2>3 DEF FetchRaises, CallbackRaises, Raise, history
    <2>4. CASE CommitRaises
      BY <2>4 DEF CommitRaises, Raise, history
    <2>5. CASE FetchStopped \/ PollStopped
      BY <2>5 DEF FetchStopped, PollStopped, CatchUpReturns, Return, history
    <2>6. CASE ScanPage
      <3>1. position' = position
            \/ \E cap \in ServerCaps : position' \in PageAfter(position, cap)
        BY <2>6 DEF ScanPage
      <3>2. position' \in Nat
        BY <1>0, <3>1 DEF TypeOK
      <3>3. pc' \in {"scanned", "fetch"}
        BY <2>6 DEF ScanPage
      <3> QED
        BY <2>6, <3>2, <3>3 DEF ScanPage, history
    <2>7. CASE CommitLatest
      BY <2>7 DEF CommitLatest, Larger
    <2>8. CASE CallbackReturns
      BY <2>8 DEF CallbackReturns, NextUp
    <2>9. CASE Commit
      BY <2>9 DEF Commit, objVars, history
    <2>10. CASE PageDone
      BY <2>10 DEF PageDone, CatchUpReturns, Return, history
    <2> QED
      BY <1>4, <2>1, <2>2, <2>3, <2>4, <2>5, <2>6, <2>7, <2>8, <2>9, <2>10
      DEF Step
  <1> QED
    BY <1>1, <1>2, <1>3, <1>4 DEF Next

\* The variables keep their types, for every bound and every start_from.
THEOREM TypeCorrect == Spec => []TypeOK
  BY InitTypes, StepTypes, PTL DEF Spec

-----------------------------------------------------------------------------
(* No silent loss *)

LEMMA InitInv ==
    ASSUME Init
    PROVE  IInv
  BY InitTypes
  DEF Init, IInv, NoLoss, Accounted, Reached, PhaseOK, PositionOK, PagePrefix,
      Running

\* A new log entry is above everything reached, so what was accounted for
\* stays so.
LEMMA AppendKeeps ==
    ASSUME TypeOK, NEW s \in 1 .. MaxSeq, Append(s), NEW n \in Nat, Reached(n)
    PROVE  /\ Reached(n)'
           /\ Accounted(n) => Accounted(n)'
  <1>1. log \subseteq Nat /\ s \in Nat /\ s > 0 /\ floor \in Nat
    BY BoundsAssumption DEF TypeOK
  <1>2. log' = log \cup {s} /\ (\A t \in log : t < s) /\ UNCHANGED <<handled, floor>>
    BY DEF Append, history
  <1>3. Reached(n)'
    BY <1>2 DEF Reached
  <1>4. s <= n => s <= floor
    BY <1>1, <1>2 DEF Reached
  <1> QED
    BY <1>2, <1>3, <1>4 DEF Accounted

\* A page taken from the relay accounts for everything up to its first row.
LEMMA FirstRow ==
    ASSUME TypeOK, PagePrefix, pc = "callback", Accounted(position),
           NEW s \in page, NextUp(s)
    PROVE  \A t \in log : t < s => t \in handled \/ t <= floor
  <1>1. log \subseteq Nat /\ page \subseteq log /\ position \in Nat
    BY BoundsAssumption DEF TypeOK
  <1>2. SUFFICES ASSUME NEW t \in log, t < s, position < t
                 PROVE  FALSE
    BY <1>1 DEF Accounted
  <1>3. t \in page
    BY <1>2 DEF PagePrefix
  <1> QED
    BY <1>1, <1>2, <1>3 DEF NextUp

\* Leaving the method, or falling back to the poll wait, keeps the invariant.
LEMMA RaiseInv ==
    ASSUME IInv, TypeOK', NEW kind, Running, Raise(kind)
    PROVE  IInv'
  <1>1. UNCHANGED <<log, handled, floor, cursor, position, phase>>
    BY DEF Raise, history
  <1>2. NoLoss' /\ Reached(cursor)'
    BY <1>1 DEF IInv, NoLoss, Accounted, Reached
  <1>3. /\ pc' \in {"idle", "poll"}
        /\ pc' = "poll" => phase = "live"
    BY DEF Raise
  <1>4. PhaseOK' /\ PagePrefix'
    BY <1>1, <1>3 DEF PhaseOK, PagePrefix
  <1>5. PositionOK'
    BY <1>1 DEF IInv, PositionOK, Accounted, Reached
  <1> QED
    BY <1>2, <1>4, <1>5 DEF IInv

LEMMA EnvironmentInv ==
    ASSUME IInv, TypeOK', Environment
    PROVE  IInv'
  <1>1. ASSUME NEW s \in 1 .. MaxSeq, Append(s)
        PROVE  IInv'
    <2>1. UNCHANGED <<cursor, pc, phase, position, page>>
      BY <1>1 DEF Append, objVars
    <2>2. TypeOK /\ cursor \in Nat /\ position \in Nat
      BY DEF IInv, TypeOK
    <2>3. NoLoss' /\ Reached(cursor)'
      <3>1. Reached(cursor) /\ Accounted(cursor)
        BY DEF IInv, NoLoss
      <3>2. \A n \in Nat : Reached(n) => Reached(n)' /\ (Accounted(n) => Accounted(n)')
        BY <1>1, <2>2, AppendKeeps
      <3> QED
        BY <2>1, <2>2, <3>1, <3>2 DEF NoLoss, Accounted, Reached
    <2>4. PositionOK'
      <3>1. \A n \in Nat : Reached(n) => Reached(n)' /\ (Accounted(n) => Accounted(n)')
        BY <1>1, <2>2, AppendKeeps
      <3> QED
        BY <2>1, <2>2, <3>1 DEF IInv, PositionOK, Running, Accounted, Reached
    <2>5. PagePrefix'
      <3>1. log' = log \cup {s} /\ (\A t \in log : t < s)
        BY <1>1 DEF Append
      <3>2. log \subseteq Nat /\ page \subseteq log /\ s \in Nat
        BY BoundsAssumption DEF IInv, TypeOK
      <3>3. \A r \in page : ~(s < r)
        BY <3>1, <3>2
      <3> QED
        BY <2>1, <3>1, <3>3 DEF IInv, PagePrefix
    <2> QED
      BY <2>1, <2>3, <2>4, <2>5 DEF IInv, PhaseOK
  <1>2. CASE LoadRaises
    BY <1>2 DEF LoadRaises, objVars, history, IInv, NoLoss, PhaseOK, PositionOK,
                PagePrefix, Running, Accounted, Reached
  <1>3. CASE Stop
    BY <1>3 DEF Stop, history, IInv, NoLoss, PhaseOK, PositionOK,
                PagePrefix, Running, Accounted, Reached
  <1>4. CASE Crash
    BY <1>4 DEF Crash, history, IInv, NoLoss, PhaseOK, PositionOK,
                PagePrefix, Running, Accounted, Reached
  <1> QED
    BY <1>1, <1>2, <1>3, <1>4 DEF Environment

LEMMA OperatorInv ==
    ASSUME IInv, TypeOK', Operator
    PROVE  IInv'
  <1>1. ASSUME NEW m \in StartModes, Construct(m)
        PROVE  IInv'
    BY <1>1 DEF Construct, history, IInv, NoLoss, PhaseOK, PositionOK,
                PagePrefix, Running, Accounted, Reached
  <1>2. ASSUME NEW method \in {"run", "catch_up_only"}, Call(method)
        PROVE  IInv'
    <2>1. /\ UNCHANGED <<log, cursor, handled>>
          /\ pc' = "fetch"
      BY <1>2 DEF Call
    <2>2. floor' >= floor /\ floor \in Nat /\ floor' \in Nat
      BY <1>2 DEF Call, Larger, IInv, TypeOK
    <2>3. log \subseteq Nat /\ cursor \in Nat /\ position' \in Nat
      BY BoundsAssumption DEF IInv, TypeOK
    <2>4. NoLoss' /\ Reached(cursor)'
      BY <2>1, <2>2, <2>3 DEF IInv, NoLoss, Accounted, Reached
    <2>5. position' = cursor \/ position' = 0 \/ position' <= floor'
      BY <1>2 DEF Call, Larger, IInv, TypeOK
    <2>6. Reached(position)' /\ Accounted(position)'
      <3>1. CASE position' = cursor
        BY <2>1, <2>4, <3>1 DEF NoLoss, Accounted, Reached
      <3>2. CASE position' = 0
        <4>1. \A s \in log : ~(s <= 0)
          BY BoundsAssumption DEF IInv, TypeOK
        <4> QED
          BY <2>1, <3>2, <4>1 DEF Accounted, Reached
      <3>3. CASE position' <= floor'
        BY <2>1, <2>2, <2>3, <3>3 DEF Accounted, Reached
      <3> QED
        BY <2>5, <3>1, <3>2, <3>3
    <2> QED
      BY <2>1, <2>4, <2>6 DEF IInv, PhaseOK, PositionOK, PagePrefix
  <1> QED
    BY <1>1, <1>2 DEF Operator

LEMMA StepInv ==
    ASSUME IInv, TypeOK', Step
    PROVE  IInv'
  <1>0. /\ TypeOK /\ log \subseteq Nat /\ page \subseteq log
        /\ position \in Nat /\ cursor \in Nat
    BY BoundsAssumption DEF IInv, TypeOK
  <1>1. CASE FetchPage
    <2>1. UNCHANGED <<log, cursor, phase, position, handled, floor>>
      BY <1>1 DEF FetchPage, history
    <2>2. /\ \E cap \in ServerCaps : page' = PageAfter(position, cap)
          /\ pc = "fetch" /\ pc' = "page" /\ phase # "scan"
      BY <1>1 DEF FetchPage
    <2>3. \A s \in page' : \A t \in log : position < t /\ t < s => t \in page'
      BY <1>0, <2>2, PageIsPrefix
    <2> QED
      BY <2>1, <2>2, <2>3 DEF IInv, NoLoss, PhaseOK, PositionOK, PagePrefix,
                              Running, Accounted, Reached
  <1>2. CASE AttemptFails \/ Retry \/ ScanStopped \/ BeginCallback \/ PollTick
    BY <1>2 DEF AttemptFails, Retry, ScanStopped, BeginCallback, PollTick,
                objVars, history, IInv, NoLoss, PhaseOK, PositionOK, PagePrefix,
                Running, Accounted, Reached
  <1>3. ASSUME NEW kind \in ErrorKinds, FetchRaises(kind) \/ CallbackRaises(kind)
        PROVE  IInv'
    <2>1. Running /\ Raise(kind)
      BY <1>3 DEF FetchRaises, CallbackRaises, Running
    <2> QED
      BY <2>1, RaiseInv
  <1>4. CASE CommitRaises
    <2>1. PICK kind \in {"fatal", "other"} : Raise(kind)
      BY <1>4 DEF CommitRaises
    <2>2. Running
      BY <1>4 DEF CommitRaises, Running
    <2> QED
      BY <2>1, <2>2, RaiseInv
  <1>5. CASE FetchStopped \/ PollStopped \/ PageDone
    <2>1. /\ UNCHANGED <<log, cursor, position, handled, floor>>
          /\ pc \in {"fetch", "poll", "page"}
          /\ phase # "scan"
      BY <1>5 DEF FetchStopped, PollStopped, PageDone, history, IInv, PhaseOK
    <2>2. /\ pc' \in {"idle", "poll", "fetch"}
          /\ phase' \in {phase, "live"}
          /\ pc' = "poll" => phase' = "live"
      BY <1>5 DEF FetchStopped, PollStopped, PageDone, CatchUpReturns, Return
    <2> QED
      BY <2>1, <2>2 DEF IInv, NoLoss, PhaseOK, PositionOK, PagePrefix,
                        Running, Accounted, Reached
  <1>6. CASE ScanPage
    <2>1. /\ UNCHANGED <<log, cursor, phase, handled, floor>>
          /\ phase = "scan" /\ pc = "fetch"
      BY <1>6 DEF ScanPage, history
    <2>2. pc' \in {"scanned", "fetch"}
      BY <1>6 DEF ScanPage
    <2>3. position' = position \/ position' \in log
      BY <1>0, <1>6, PageTypes DEF ScanPage
    <2>4. Reached(position)'
      <3>1. Reached(position)
        BY <2>1 DEF IInv, PositionOK, Running
      <3>2. CASE position' = position
        BY <2>1, <3>1, <3>2 DEF Reached
      <3>3. CASE position' \in log
        BY <1>0, <2>1, <3>3 DEF Reached
      <3> QED
        BY <2>3, <3>2, <3>3
    <2> QED
      BY <2>1, <2>2, <2>4 DEF IInv, NoLoss, PhaseOK, PositionOK, PagePrefix,
                              Running, Accounted, Reached
  <1>7. CASE CommitLatest
    <2>1. /\ UNCHANGED <<log, position, handled>>
          /\ pc' = "fetch" /\ phase' = "catchup"
          /\ cursor' = cursor \/ cursor' = position
      BY <1>7 DEF CommitLatest
    <2>2. floor' >= floor /\ floor' >= position /\ floor' \in Nat /\ floor \in Nat
      BY <1>0, <1>7 DEF CommitLatest, Larger, TypeOK
    <2>3. \A n \in Nat : n <= position \/ (Accounted(n) /\ Reached(n))
                            => Accounted(n)' /\ Reached(n)'
      BY <1>0, <2>1, <2>2 DEF Accounted, Reached
    <2>4. Accounted(cursor) /\ Reached(cursor)
      BY DEF IInv, NoLoss
    <2>5. NoLoss' /\ Reached(cursor)' /\ Reached(position)' /\ Accounted(position)'
      BY <1>0, <2>1, <2>3, <2>4 DEF NoLoss, Accounted, Reached
    <2> QED
      BY <2>1, <2>5 DEF IInv, PhaseOK, PositionOK, PagePrefix
  <1>8. CASE CallbackReturns
    <2>1. PICK s \in page : /\ NextUp(s)
                            /\ handled' = handled \cup {s}
                            /\ position' = s
                            /\ page' = page \ {s}
      BY <1>8 DEF CallbackReturns
    <2>2. /\ UNCHANGED <<log, cursor, phase, floor>>
          /\ pc = "callback" /\ pc' = "commit"
      BY <1>8 DEF CallbackReturns
    <2>3. PagePrefix /\ Accounted(position) /\ phase # "scan"
      BY <2>2 DEF IInv, PhaseOK, PositionOK, Running
    <2>4. \A t \in log : t < s => t \in handled \/ t <= floor
      BY <1>0, <2>1, <2>2, <2>3, FirstRow
    <2>5. Accounted(position)' /\ Reached(position)'
      BY <1>0, <2>1, <2>2, <2>4 DEF Accounted, Reached
    <2>6. PagePrefix'
      <3>1. s \in Nat /\ s > position
        BY <1>0, <2>1 DEF NextUp
      <3>2. ASSUME NEW r \in page', NEW t \in log, s < t, t < r
            PROVE  t \in page'
        <4>1. r \in page /\ t \in Nat /\ position < t /\ t # s
          BY <1>0, <2>1, <3>1, <3>2
        <4> QED
          BY <2>1, <2>2, <2>3, <3>2, <4>1 DEF PagePrefix
      <3> QED
        BY <2>1, <2>2, <3>2 DEF PagePrefix
    <2>7. NoLoss' /\ Reached(cursor)'
      BY <2>1, <2>2 DEF IInv, NoLoss, Accounted, Reached
    <2> QED
      BY <2>2, <2>3, <2>5, <2>6, <2>7 DEF IInv, PhaseOK, PositionOK
  <1>9. CASE Commit
    BY <1>9 DEF Commit, objVars, history, IInv, NoLoss, PhaseOK, PositionOK,
                PagePrefix, Running, Accounted, Reached
  <1> QED
    BY <1>1, <1>2, <1>3, <1>4, <1>5, <1>6, <1>7, <1>8, <1>9 DEF Step

LEMMA NextInv ==
    ASSUME IInv, [Next]_vars
    PROVE  IInv'
  <1>1. TypeOK'
    BY StepTypes DEF IInv
  <1>2. CASE UNCHANGED vars
    BY <1>2 DEF vars, objVars, history, IInv, TypeOK, NoLoss, PhaseOK, PositionOK,
                PagePrefix, Running, Accounted, Reached
  <1> QED
    BY <1>1, <1>2, EnvironmentInv, OperatorInv, StepInv DEF Next

LEMMA Invariance == Spec => []IInv
  BY InitInv, NextInv, PTL DEF Spec

\* No silent loss: whatever crashes, raises or is stopped, the durable cursor
\* never passes a signal that was neither handled nor skipped on request.
THEOREM NoSilentLoss == Spec => []NoLoss
  BY Invariance, PTL DEF IInv

-----------------------------------------------------------------------------
(* In-order delivery *)

\* The callback is handed the log's next entry: the page leaves none out.
LEMMA NextRow ==
    ASSUME IInv, pc = "callback", NEW s \in page, NextUp(s)
    PROVE  /\ s \in log /\ s > position
           /\ \A t \in log : t > position => s <= t
  <1>1. log \subseteq Nat /\ page \subseteq log /\ position \in Nat
    BY BoundsAssumption DEF IInv, TypeOK
  <1>2. s \in log /\ s > position
    BY <1>1 DEF NextUp
  <1>3. ASSUME NEW t \in log, t > position, ~(s <= t)
        PROVE  FALSE
    <2>1. t \in page
      BY <1>1, <1>2, <1>3 DEF IInv, PagePrefix
    <2> QED
      BY <1>3, <2>1 DEF NextUp
  <1> QED
    BY <1>2, <1>3

\* Only a returning callback moves the position of a run past its scan.
LEMMA OnlyCallbackCommits ==
    ASSUME TypeOK, [Next]_vars, pc' = "commit", position' # position
    PROVE  CallbackReturns
  <1> USE DEF Raise, CatchUpReturns, Return, vars, objVars, history
  <1>1. ~UNCHANGED vars
    OBVIOUS
  <1>2. ~Environment
    BY DEF Environment, Append, LoadRaises, Stop, Crash
  <1>3. ~Operator
    BY DEF Operator, Construct, Call
  <1>4. Step
    BY <1>1, <1>2, <1>3 DEF Next
  <1>5. ~(FetchPage \/ AttemptFails \/ Retry \/ FetchStopped \/ ScanStopped
          \/ CommitLatest \/ BeginCallback \/ Commit \/ PollTick \/ PollStopped
          \/ PageDone)
    BY DEF FetchPage, AttemptFails, Retry, FetchStopped, ScanStopped,
           CommitLatest, BeginCallback, Commit, PollTick, PollStopped, PageDone
  <1>6. ~CommitRaises
    BY DEF CommitRaises
  <1>7. ~\E kind \in ErrorKinds : FetchRaises(kind) \/ CallbackRaises(kind)
    BY DEF FetchRaises, CallbackRaises
  <1>8. ~ScanPage
    BY DEF ScanPage
  <1> QED
    BY <1>4, <1>5, <1>6, <1>7, <1>8 DEF Step

\* Within a run the position only grows, from one log entry to the next.
THEOREM DeliversInOrder == Spec => InOrder
  <1> DEFINE A == (Running /\ phase # "scan" /\ position' # position /\ pc' = "commit") =>
                     /\ position' > position
                     /\ \A s \in log : ~(position < s /\ s < position')
  <1>1. ASSUME IInv, [Next]_vars
        PROVE  [A]_vars
    <2>1. SUFFICES ASSUME position' # position, pc' = "commit"
                   PROVE  /\ position' > position
                          /\ \A s \in log : ~(position < s /\ s < position')
      OBVIOUS
    <2>2. CallbackReturns
      BY <1>1, <2>1, OnlyCallbackCommits DEF IInv
    <2>3. PICK s \in page : NextUp(s) /\ position' = s
      BY <2>2 DEF CallbackReturns
    <2>4. s > position /\ \A t \in log : t > position => s <= t
      BY <1>1, <2>2, <2>3, NextRow DEF CallbackReturns
    <2>5. log \subseteq Nat /\ page \subseteq log /\ position \in Nat
      BY <1>1, BoundsAssumption DEF IInv, TypeOK
    <2> QED
      BY <2>3, <2>4, <2>5
  <1> QED
    BY <1>1, Invariance, PTL DEF Spec, InOrder

-----------------------------------------------------------------------------
(* start_from="cursor": the redelivery window, and a cursor that never goes *)
(* back *)

FromCursor == Running /\ start.kind = "cursor"

\* Where the cursor stands relative to the position, and to the signal whose
\* callback has just returned.
WInv ==
    /\ FromCursor => phase # "scan"
    /\ FromCursor /\ pc # "commit" => position = cursor
    /\ FromCursor /\ pc = "commit" => /\ position \in log /\ cursor < position
                                      /\ \A t \in log : t > cursor => position <= t
    /\ Running /\ ~rewound => FromCursor
    /\ RedeliveryWindow

LEMMA InitWInv ==
    ASSUME Init
    PROVE  WInv
  BY DEF Init, WInv, FromCursor, RedeliveryWindow, Running

LEMMA NextWInv ==
    ASSUME IInv, WInv, [Next]_vars
    PROVE  /\ WInv'
           /\ start.kind = "cursor" => cursor' >= cursor
  <1>0. /\ log \subseteq Nat /\ page \subseteq log /\ handled \subseteq log
        /\ position \in Nat /\ cursor \in Nat
    BY BoundsAssumption DEF IInv, TypeOK
  <1>1. ASSUME UNCHANGED <<log, cursor, start, position, handled, rewound>>,
               pc' = "commit" => pc = "commit",
               pc' \notin {"down", "idle"} =>
                    /\ Running
                    /\ phase' = phase \/ phase' # "scan"
                    /\ pc' # "commit" => pc # "commit"
        PROVE  WInv' /\ (start.kind = "cursor" => cursor' >= cursor)
    BY <1>0, <1>1 DEF WInv, FromCursor, RedeliveryWindow, Running
  <1>2. CASE UNCHANGED vars
    <2>1. /\ UNCHANGED <<log, cursor, start, position, handled, rewound, pc, phase>>
      BY <1>2 DEF vars, objVars, history
    <2> QED
      BY <1>0, <2>1 DEF WInv, FromCursor, RedeliveryWindow, Running
  <1>3. CASE Environment
    <2>1. ASSUME NEW s \in 1 .. MaxSeq, Append(s)
          PROVE  WInv' /\ (start.kind = "cursor" => cursor' >= cursor)
      <3>1. /\ UNCHANGED <<cursor, start, position, handled, rewound, pc, phase>>
            /\ log' = log \cup {s}
            /\ \A t \in log : t < s
        BY <2>1 DEF Append, objVars, history
      <3>2. \A r \in log : r <= s
        BY <1>0, <3>1, BoundsAssumption
      <3> QED
        BY <1>0, <3>1, <3>2 DEF WInv, FromCursor, RedeliveryWindow, Running
    <2>2. CASE LoadRaises
      BY <1>1, <2>2 DEF LoadRaises, objVars, history, WInv, FromCursor, Running
    <2>3. CASE Stop
      BY <1>1, <2>3 DEF Stop, history, WInv, FromCursor, Running
    <2>4. CASE Crash
      BY <1>1, <2>4 DEF Crash, history, WInv, FromCursor, Running
    <2> QED
      BY <1>3, <2>1, <2>2, <2>3, <2>4 DEF Environment
  <1>4. CASE Operator
    <2>1. ASSUME NEW m \in StartModes, Construct(m)
          PROVE  WInv' /\ (start.kind = "cursor" => cursor' >= cursor)
      BY <1>0, <2>1 DEF Construct, history, WInv, FromCursor, RedeliveryWindow, Running
    <2>2. ASSUME NEW method \in {"run", "catch_up_only"}, Call(method)
          PROVE  WInv' /\ (start.kind = "cursor" => cursor' >= cursor)
      <3>1. /\ UNCHANGED <<log, cursor, start, handled>> /\ pc' = "fetch"
            /\ start.kind = "cursor" => position' = cursor /\ phase' # "scan"
        BY <2>2 DEF Call
      <3>2. ~rewound' => ~rewound /\ start.kind = "cursor"
        BY <2>2, Zenon DEF Call
      <3>3. RedeliveryWindow'
        BY <3>1, <3>2 DEF WInv, RedeliveryWindow
      <3> QED
        BY <1>0, <3>1, <3>2, <3>3 DEF WInv, FromCursor, Running
    <2> QED
      BY <1>4, <2>1, <2>2 DEF Operator
  <1>5. CASE Step
    <2>1. CASE FetchPage \/ AttemptFails \/ Retry \/ BeginCallback \/ PollTick
      BY <1>1, <2>1 DEF FetchPage, AttemptFails, Retry, BeginCallback, PollTick,
                        objVars, history, WInv, FromCursor, Running
    <2>2. CASE \E kind \in ErrorKinds : FetchRaises(kind) \/ CallbackRaises(kind)
      BY <1>1, <2>2 DEF FetchRaises, CallbackRaises, Raise, history, WInv, FromCursor, Running
    <2>3. CASE CommitRaises
      BY <1>1, <2>3 DEF CommitRaises, Raise, history, WInv, FromCursor, Running, ErrorKinds
    <2>4. CASE FetchStopped \/ PollStopped \/ PageDone
      BY <1>1, <2>4 DEF FetchStopped, PollStopped, PageDone, CatchUpReturns, Return,
                        history, WInv, FromCursor, Running
    <2>5. CASE ScanPage \/ ScanStopped \/ CommitLatest
      <3>1. /\ phase = "scan" /\ Running
            /\ UNCHANGED <<start, rewound>>
        BY <2>5 DEF ScanPage, ScanStopped, CommitLatest, objVars, history, Running,
                    IInv, PhaseOK
      <3>2. start.kind # "cursor" /\ rewound
        BY <3>1 DEF WInv, FromCursor
      <3> QED
        BY <3>1, <3>2 DEF WInv, FromCursor, RedeliveryWindow
    <2>6. CASE CallbackReturns
      <3>1. PICK s \in page : /\ NextUp(s)
                              /\ handled' = handled \cup {s}
                              /\ position' = s
        BY <2>6 DEF CallbackReturns
      <3>2. /\ UNCHANGED <<log, cursor, start, phase, rewound>>
            /\ pc = "callback" /\ pc' = "commit"
        BY <2>6 DEF CallbackReturns
      <3>3. /\ s \in log /\ s > position
            /\ \A t \in log : t > position => s <= t
        BY <3>1, <3>2, NextRow
      <3>4. start.kind = "cursor" => position = cursor
        BY <3>2 DEF WInv, FromCursor, Running
      <3> QED
        BY <1>0, <3>1, <3>2, <3>3, <3>4 DEF WInv, FromCursor, RedeliveryWindow, Running
    <2>7. CASE Commit
      <3>1. /\ UNCHANGED <<log, start, phase, position, handled, rewound>>
            /\ pc = "commit" /\ pc' = "page" /\ cursor' = position
        BY <2>7 DEF Commit, objVars, history
      <3>2. ~rewound => \A r \in handled : ~(r > position)
        BY <1>0, <3>1 DEF WInv, FromCursor, RedeliveryWindow, Running
      <3> QED
        BY <1>0, <3>1, <3>2 DEF WInv, FromCursor, RedeliveryWindow, Running
    <2> QED
      BY <1>5, <2>1, <2>2, <2>3, <2>4, <2>5, <2>6, <2>7 DEF Step
  <1> QED
    BY <1>2, <1>3, <1>4, <1>5 DEF Next

\* As long as every run starts from the cursor, a restart repeats at most one
\* callback: only the first signal past the cursor may have been handled before.
THEOREM AtMostOneRedelivery == Spec => []RedeliveryWindow
  <1>1. WInv => RedeliveryWindow
    BY DEF WInv
  <1>2. IInv /\ WInv /\ [Next]_vars => WInv'
    BY NextWInv
  <1> QED
    BY <1>1, <1>2, InitWInv, Invariance, PTL DEF Spec

\* No run that starts from the cursor, no crash and no failed commit moves the
\* durable cursor backwards.
THEOREM CursorNeverGoesBack == Spec => CursorMonotonic
  <1>1. ASSUME IInv, WInv, [Next]_vars
        PROVE  WInv' /\ [cursor' < cursor => start.kind # "cursor"]_vars
    <2>1. cursor \in Nat /\ cursor' \in Nat
      BY <1>1, StepTypes DEF IInv, TypeOK
    <2> QED
      BY <1>1, <2>1, NextWInv
  <1> QED
    BY <1>1, InitWInv, Invariance, PTL DEF Spec, CursorMonotonic

-----------------------------------------------------------------------------
(* The backlog *)

\* A nonempty set of numbers has a least element; bounded, a greatest one.
LEMMA LeastExists ==
    ASSUME NEW S \in SUBSET Nat, S # {}
    PROVE  \E m \in S : \A k \in S : m <= k
  <1>1. PICK m \in S : \A k \in S : ~(<<k, m>> \in OpToRel(<, Nat))
    BY NatLessThanWellFounded, WFMin, Zenon
  <1>2. \A k \in S : ~(k < m)
    BY <1>1, Zenon DEF OpToRel
  <1> QED
    BY <1>2

LEMMA GreatestExists ==
    ASSUME NEW b \in Nat, NEW S \in SUBSET (0 .. b), S # {}
    PROVE  \E m \in S : \A k \in S : k <= m
  <1> DEFINE T == {b - s : s \in S}
  <1>1. T \in SUBSET Nat /\ T # {}
    OBVIOUS
  <1>2. PICK t \in T : \A u \in T : t <= u
    BY <1>1, LeastExists
  <1>3. PICK m \in S : t = b - m
    OBVIOUS
  <1>4. \A k \in S : b - m <= b - k
    BY <1>2, <1>3
  <1> QED
    BY <1>4

\* The first k rows are at most k.
LEMMA RowsAtMost ==
    ASSUME TypeOK, NEW n \in Nat, NEW k \in Nat
    PROVE  IsFiniteSet(Rows(n, k)) /\ Cardinality(Rows(n, k)) <= k
  <1> DEFINE Upto(u) == {v \in log : n < v /\ v <= u}
  <1>1. /\ log \subseteq 1 .. MaxSeq /\ MaxSeq \in Nat
        /\ Rows(n, k) \subseteq log
    BY BoundsAssumption DEF TypeOK, Rows
  <1>2. IsFiniteSet(Rows(n, k))
    BY <1>1, LogFinite
  <1>3. CASE Rows(n, k) = {}
    BY <1>3, FS_EmptySet
  <1>4. CASE Rows(n, k) # {}
    <2>0. 1 .. MaxSeq \subseteq 0 .. MaxSeq
      BY <1>1
    <2>1. Rows(n, k) \in SUBSET (0 .. MaxSeq)
      BY <1>1, <2>0, Zenon
    <2>2. PICK m \in Rows(n, k) : \A r \in Rows(n, k) : r <= m
      BY <1>1, <1>4, <2>1, GreatestExists
    <2>3. Rows(n, k) \subseteq Upto(m)
      BY <1>1, <2>2 DEF Rows
    <2>4. IsFiniteSet(Upto(m)) /\ Cardinality(Upto(m)) <= k
      BY <1>1, <2>2, LogFinite DEF Rows
    <2>5. Cardinality(Rows(n, k)) <= Cardinality(Upto(m))
      BY <2>3, <2>4, FS_Subset
    <2>6. Cardinality(Rows(n, k)) \in Nat /\ Cardinality(Upto(m)) \in Nat
      BY <1>2, <2>4, FS_CardinalityType
    <2> HIDE DEF Upto
    <2> QED
      BY <1>2, <2>4, <2>5, <2>6
  <1> QED
    BY <1>3, <1>4

\* Fewer than k rows are all there are: nothing of the log is left behind them.
LEMMA ShortPageIsAll ==
    ASSUME TypeOK, NEW n \in Nat, NEW k \in Nat, Cardinality(Rows(n, k)) < k,
           NEW s \in log, s > n
    PROVE  s \in Rows(n, k)
  <1> DEFINE Upto(u) == {v \in log : n < v /\ v <= u}
             Missed == {v \in log : v > n /\ v \notin Rows(n, k)}
  <1>1. log \subseteq 1 .. MaxSeq /\ log \subseteq Nat
    BY BoundsAssumption DEF TypeOK
  <1>2. SUFFICES ASSUME Missed # {}
                 PROVE  FALSE
    OBVIOUS
  <1>3. PICK m \in Missed : \A v \in Missed : m <= v
    BY <1>1, <1>2, LeastExists
  <1>a. m \in log /\ m \in Nat /\ n < m /\ m \notin Rows(n, k)
    BY <1>1, <1>3
  <1>b. Upto(m) \subseteq log /\ m \in Upto(m)
    BY <1>a
  <1>c. IsFiniteSet(Upto(m))
    <2>1. Upto(m) \subseteq 1 .. MaxSeq
      BY <1>1, <1>b
    <2> HIDE DEF Upto
    <2> QED
      BY <2>1, LogFinite
  <1>4. m \in Upto(m) /\ IsFiniteSet(Upto(m)) /\ m \in Nat
    BY <1>a, <1>b, <1>c
  <1>5. Upto(m) \ {m} \subseteq Rows(n, k)
    <2>1. SUFFICES ASSUME NEW v \in log, n < v, v <= m, v # m, v \notin Rows(n, k)
                   PROVE  FALSE
      OBVIOUS
    <2>2. v \in Missed /\ v \in Nat
      BY <1>1, <2>1
    <2>3. m <= v
      BY <1>3, <2>2
    <2> QED
      BY <1>a, <2>1, <2>2, <2>3
  <1>6. ~(Cardinality(Upto(m)) <= k)
    BY DEF Rows
  <1>7. IsFiniteSet(Rows(n, k))
    BY RowsAtMost
  <1>8. Cardinality(Upto(m)) \in Nat /\ Cardinality(Rows(n, k)) \in Nat
    BY <1>4, <1>7, FS_CardinalityType
  <1>9. Cardinality(Upto(m) \ {m}) <= Cardinality(Rows(n, k))
    BY <1>5, <1>7, FS_Subset
  <1>10. Cardinality(Upto(m) \ {m}) = Cardinality(Upto(m)) - 1
    BY <1>4, FS_RemoveElement
  <1> HIDE DEF Upto
  <1> QED
    BY <1>6, <1>8, <1>9, <1>10

\* Once a page is neither full nor cut short, what is left of the backlog is in
\* it, until it is handled.
LastPage ==
    pc \in {"page", "callback", "commit"} /\ ~full /\ ~capped =>
        \A s \in backlog : s > position => s \in page

BInv ==
    /\ returned => ~Running
    /\ LastPage
    /\ BacklogDrained

LEMMA FetchIsLast ==
    ASSUME TypeOK, FetchPage
    PROVE  LastPage'
  <1> SUFFICES ASSUME ~full', ~capped', NEW s \in log, s > position
               PROVE  s \in page'
    <2>1. UNCHANGED <<backlog, position>> /\ backlog \subseteq log
      BY DEF FetchPage, TypeOK
    <2> QED
      BY <2>1 DEF LastPage
  <1>1. page' = Rows(position, PageSize) /\ Cardinality(page') # PageSize
    BY DEF FetchPage, TypeOK
  <1>2. position \in Nat /\ PageSize \in Nat
    BY BoundsAssumption DEF TypeOK
  <1>3. /\ Cardinality(Rows(position, PageSize)) <= PageSize
        /\ Cardinality(Rows(position, PageSize)) \in Nat
    BY <1>2, RowsAtMost, FS_CardinalityType
  <1>4. Cardinality(Rows(position, PageSize)) < PageSize
    BY <1>1, <1>2, <1>3
  <1> QED
    BY <1>1, <1>2, <1>4, ShortPageIsAll

\* When no row is next, the page holds nothing past the position.
LEMMA PageExhausted ==
    ASSUME TypeOK, ~(\E s \in page : NextUp(s))
    PROVE  \A s \in page : ~(s > position)
  <1> DEFINE Ahead == {s \in page : s > position}
  <1>0. MaxSeq \in Nat /\ page \subseteq 1 .. MaxSeq
    BY BoundsAssumption DEF TypeOK
  <1>a. 1 .. MaxSeq \subseteq Nat
    BY <1>0
  <1>1. Ahead \in SUBSET Nat
    BY <1>0, <1>a, Zenon
  <1>2. CASE Ahead # {}
    <2>1. PICK m \in Ahead : \A k \in Ahead : m <= k
      BY <1>1, <1>2, LeastExists
    <2> QED
      BY <2>1 DEF NextUp
  <1> QED
    BY <1>2

LEMMA NextBInv ==
    ASSUME IInv, BInv, [Next]_vars
    PROVE  BInv'
  <1> USE DEF BInv, LastPage, BacklogDrained, Running
  <1>0. TypeOK /\ TypeOK'
    BY StepTypes DEF IInv
  <1>1. CASE UNCHANGED vars
    BY <1>1 DEF vars, objVars, history
  <1>2. CASE Environment
    <2>1. CASE (\E s \in 1 .. MaxSeq : Append(s)) \/ Stop \/ Crash
      BY <2>1 DEF Append, Stop, Crash, objVars, history, Alive
    <2>2. CASE LoadRaises
      BY <2>2 DEF LoadRaises, objVars, history
    <2> QED
      BY <1>2, <2>1, <2>2 DEF Environment
  <1>3. CASE Operator
    BY <1>3 DEF Operator, Construct, Call, history
  <1>4. CASE Step
    <2>0. Running /\ ~returned /\ UNCHANGED backlog
      BY <1>4 DEF Step, FetchPage, AttemptFails, Retry, FetchRaises, FetchStopped, ScanPage,
                  ScanStopped, CommitLatest, BeginCallback, CallbackReturns,
                  CallbackRaises, Commit, CommitRaises, PageDone, PollTick, PollStopped,
                  Raise, objVars, history
    <2>1. CASE FetchPage
      <3>1. LastPage'
        BY <1>0, <2>1, FetchIsLast
      <3> QED
        BY <2>0, <2>1, <3>1 DEF FetchPage
    <2>2. CASE AttemptFails \/ Retry \/ ScanStopped \/ PollTick \/ ScanPage \/ CommitLatest
      BY <2>0, <2>2 DEF AttemptFails, Retry, ScanStopped, PollTick, ScanPage, CommitLatest,
                        objVars, history
    <2>3. CASE \E kind \in ErrorKinds : FetchRaises(kind) \/ CallbackRaises(kind)
      BY <2>0, <2>3 DEF FetchRaises, CallbackRaises, Raise, history
    <2>4. CASE CommitRaises
      BY <2>0, <2>4 DEF CommitRaises, Raise, history
    <2>5. CASE FetchStopped \/ PollStopped
      BY <2>0, <2>5 DEF FetchStopped, PollStopped, CatchUpReturns, Return, history
    <2>6. CASE BeginCallback \/ Commit
      BY <2>0, <2>6 DEF BeginCallback, Commit, objVars, history
    <2>7. CASE CallbackReturns
      <3>1. PICK s \in page : /\ NextUp(s)
                              /\ position' = s /\ page' = page \ {s}
        BY <2>7 DEF CallbackReturns
      <3>2. s > position /\ s \in Nat /\ position \in Nat /\ backlog \subseteq Nat
        BY <1>0, <3>1, BoundsAssumption DEF NextUp, TypeOK
      <3>3. \A b \in backlog : b > s => b > position /\ b # s
        BY <3>2
      <3>4. UNCHANGED <<full, capped, backlog, returned>> /\ pc = "callback"
        BY <2>7 DEF CallbackReturns
      <3>5. LastPage'
        BY <3>1, <3>3, <3>4
      <3> QED
        BY <2>0, <3>4, <3>5
    <2>8. CASE PageDone
      <3>1. CASE full /\ ~stopping
        BY <2>0, <2>8, <3>1 DEF PageDone, history
      <3>2. CASE stopping \/ op = "run"
        BY <2>0, <2>8, <3>2 DEF PageDone, CatchUpReturns, Return, history
      <3>3. CASE ~full /\ ~stopping
        <4>1. UNCHANGED <<handled, floor, backlog, capped, stopping>> /\ pc = "page"
          BY <2>8 DEF PageDone, history
        <4>2. ~capped => \A s \in backlog : ~(s > position)
          BY <1>0, <2>8, <3>3, <4>1, PageExhausted DEF PageDone
        <4>3. Accounted(position)
          BY <4>1 DEF IInv, PositionOK, PhaseOK
        <4>4. ~capped => \A s \in backlog : s \in handled \/ s <= floor
          <5>1. backlog \subseteq log /\ log \subseteq Nat /\ position \in Nat
            BY <1>0, BoundsAssumption DEF TypeOK
          <5> QED
            BY <4>2, <4>3, <5>1 DEF Accounted
        <4>5. (returned' => ~Running') /\ LastPage'
          BY <2>0, <2>8 DEF PageDone, CatchUpReturns, Return
        <4> QED
          BY <4>1, <4>4, <4>5
      <3> QED
        BY <2>8, <3>1, <3>2, <3>3 DEF PageDone
    <2> QED
      BY <1>4, <2>1, <2>2, <2>3, <2>4, <2>5, <2>6, <2>7, <2>8 DEF Step
  <1> QED
    BY <1>1, <1>2, <1>3, <1>4 DEF Next

\* When catch_up_only() returns normally, not stopped and with no page cut short
\* by the relay, everything that existed when it was called has been handled or
\* was skipped on request, for every page size.
THEOREM BacklogIsDrained == Spec => []BacklogDrained
  <1>1. Init => BInv
    BY DEF Init, BInv, LastPage, BacklogDrained, Running
  <1>2. IInv /\ BInv /\ [Next]_vars => BInv'
    BY NextBInv
  <1>3. BInv => BacklogDrained
    BY DEF BInv
  <1> QED
    BY <1>1, <1>2, <1>3, Invariance, PTL DEF Spec

-----------------------------------------------------------------------------
(* Refinement *)

LEMMA NextImplements ==
    ASSUME IInv, [Next]_vars
    PROVE  [Promise!Next]_(Promise!dvars)
  <1> USE DEF Promise!dvars, history, objVars
  <1>0. /\ log \subseteq Nat /\ page \subseteq log
        /\ position \in Nat /\ cursor \in Nat /\ floor \in Nat
    BY BoundsAssumption DEF IInv, TypeOK
  <1>1. ASSUME UNCHANGED <<log, handled, cursor, floor>>
        PROVE  [Promise!Next]_(Promise!dvars)
    BY <1>1
  <1>2. CASE UNCHANGED vars
    BY <1>1, <1>2 DEF vars
  <1>3. CASE Environment
    <2>1. ASSUME NEW s \in 1 .. MaxSeq, Append(s)
          PROVE  Promise!Publish
      BY <2>1 DEF Append, Promise!Publish
    <2>2. CASE LoadRaises \/ Stop \/ Crash
      BY <1>1, <2>2 DEF LoadRaises, Stop, Crash
    <2> QED
      BY <1>3, <2>1, <2>2 DEF Environment, Promise!Next
  <1>4. CASE Operator
    <2>1. ASSUME NEW m \in StartModes, Construct(m)
          PROVE  [Promise!Next]_(Promise!dvars)
      BY <1>1, <2>1 DEF Construct
    <2>2. ASSUME NEW method \in {"run", "catch_up_only"}, Call(method)
          PROVE  Promise!Skip
      <3>1. floor' >= floor
        BY <1>0, <2>2 DEF Call, Larger, IInv, TypeOK
      <3> QED
        BY <2>2, <3>1 DEF Call, Promise!Skip
    <2> QED
      BY <1>4, <2>1, <2>2 DEF Operator, Promise!Next
  <1>5. CASE Step
    <2>1. CASE FetchPage \/ AttemptFails \/ Retry \/ BeginCallback \/ PollTick
               \/ ScanPage \/ ScanStopped \/ FetchStopped \/ PollStopped \/ PageDone
      BY <1>1, <2>1 DEF FetchPage, AttemptFails, Retry, BeginCallback, PollTick,
                        ScanPage, ScanStopped, FetchStopped, PollStopped, PageDone
    <2>2. CASE \E kind \in ErrorKinds : FetchRaises(kind) \/ CallbackRaises(kind)
      BY <1>1, <2>2 DEF FetchRaises, CallbackRaises, Raise
    <2>3. CASE CommitRaises
      BY <1>1, <2>3 DEF CommitRaises, Raise
    <2>4. CASE CommitLatest
      <3>1. floor' >= floor /\ floor' >= position
        BY <1>0, <2>4 DEF CommitLatest, Larger
      <3>2. cursor' = cursor \/ cursor' <= floor'
        BY <1>0, <2>4, <3>1 DEF CommitLatest
      <3> QED
        BY <2>4, <3>1, <3>2 DEF CommitLatest, Promise!Skip, Promise!Next
    <2>5. CASE CallbackReturns
      <3>1. PICK s \in page : NextUp(s) /\ handled' = handled \cup {s}
        BY <2>5 DEF CallbackReturns
      <3>2. UNCHANGED <<log, cursor, floor>>
        BY <2>5 DEF CallbackReturns
      <3>3. \A t \in log : t < s => t \in handled \/ t <= floor
        BY <2>5, <3>1, FirstRow
        DEF CallbackReturns, IInv, PositionOK, PhaseOK, Running
      <3>4. s \in log /\ Promise!Accounted(s - 1)
        BY <1>0, <3>1, <3>3 DEF Promise!Accounted
      <3> QED
        BY <3>1, <3>2, <3>4 DEF Promise!Handle, Promise!Next
    <2>6. CASE Commit
      <3>1. Accounted(position)
        BY <2>6 DEF Commit, IInv, PositionOK, PhaseOK, Running
      <3>2. cursor' = position /\ UNCHANGED <<log, handled, floor>>
        BY <2>6 DEF Commit
      <3> QED
        BY <3>1, <3>2 DEF Accounted, Promise!Accounted, Promise!Commit, Promise!Next
    <2> QED
      BY <1>5, <2>1, <2>2, <2>3, <2>4, <2>5, <2>6 DEF Step
  <1> QED
    BY <1>2, <1>3, <1>4, <1>5 DEF Next

\* The subscriber, with every start_from, implements the abstract promise of
\* ordered delivery.
THEOREM Refinement == Spec => ImplementsPromise
  <1>1. Init => Promise!Init
    BY DEF Init, Promise!Init
  <1> QED
    BY <1>1, NextImplements, Invariance, PTL DEF Spec, ImplementsPromise, Promise!Spec

=============================================================================
