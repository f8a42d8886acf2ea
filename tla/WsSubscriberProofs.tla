-------------------------- MODULE WsSubscriberProofs --------------------------
(***************************************************************************)
(* Proofs about WsSubscriber for every number of handlers and every bound, *)
(* provided that leaving the websocket client waits for its handlers: one  *)
(* thread delivers at a time, each delivery is the next entry of the log,  *)
(* no frame slips past the switch to live handling, and the promise of     *)
(* ordered delivery is kept.                                               *)
(***************************************************************************)
EXTENDS WsSubscriber, FiniteSetTheorems, TLAPS

Places == {"down", "returned", "raised", "idle", "query", "rows", "callback", "commit",
           "negotiate", "prelive", "batch", "wait", "closing", "backoff", "enter",
           "drain", "fill", "fillrows"}

Delivers(t) == pc[t] \in {"callback", "commit"}

\* Types, and where every sequence comes from: the log.
Types ==
    /\ log \subseteq 1 .. MaxSeq
    /\ wire \subseteq log /\ buffer \subseteq log
    /\ cursor \in Nat /\ position \in Nat
    /\ prelive \in Seq(log) /\ batch \in Seq(log)
    /\ lock \in Threads \cup {"free"}
    /\ leaving \in {"none", "raised", "returned", "backoff"}
    /\ pc \in [Threads -> Places]
    /\ item \in [Threads -> Nat] /\ target \in Int
    /\ source \in [Threads -> {"catchup", "live", "gapfill"}]
    /\ page \in [Threads -> SUBSET log]
    /\ \A t \in Threads : pc[t] = "enter" \/ Delivers(t) => item[t] \in log
    /\ pc[main] = "closing" => leaving # "none"

\* The points between taking the delivery lock and giving it back.
Holds(t) ==
    \/ pc[t] \in {"drain", "fill", "fillrows"}
    \/ Delivers(t) /\ source[t] # "catchup"

LockOK == \A t \in Threads : lock = t <=> Holds(t)

\* Handlers work only while the main thread waits for them: they start when
\* buffering is off, and leaving the client waits for the last of them.
PhaseOK ==
    /\ \A h \in Handlers : pc[h] \in {"idle", "enter"} \/ Holds(h)
    /\ pc[main] # "idle"
    /\ pc[main] \in Ended \cup {"negotiate", "backoff"} => ~connected
    /\ pc[main] \in {"prelive", "batch", "enter", "wait", "closing"} \/ Holds(main)
          => connected
    /\ connected => buffering \/ pc[main] \in {"wait", "closing"}
    /\ ~connected \/ buffering => \A h \in Handlers : pc[h] = "idle"

\* A delivery moves the position from one entry of the log to the next.
DeliveryOK ==
    \A t \in Threads :
        /\ pc[t] = "commit" => item[t] = position
        /\ pc[t] = "callback" =>
              /\ position < item[t]
              /\ \A s \in log : ~(position < s /\ s < item[t])

\* Where the position will be once the running delivery is done.
Base(t) == IF pc[t] = "callback" THEN item[t] ELSE position

Paged(t) == pc[t] \in {"rows", "fillrows"} \/ (Delivers(t) /\ source[t] # "live")

\* The rows a thread still has to deliver come after that, and leave out nothing
\* of the log before the last of them.
PageOK ==
    \A t \in Threads : Paged(t) =>
        \A r \in page[t] :
            /\ Base(t) < r
            /\ \A s \in log : Base(t) < s /\ s < r => s \in page[t]

\* Everything up to n was handled, and n will stay below what comes.
Settled(n) ==
    /\ n = 0 \/ n \in log
    /\ \A s \in log : s <= n => s \in handled

\* The inductive invariant.
IInv ==
    /\ Types
    /\ LockOK
    /\ PhaseOK
    /\ DeliveryOK
    /\ PageOK
    /\ Settled(position) /\ Settled(cursor)

-----------------------------------------------------------------------------
(* Pages *)

LEMMA LogFinite ==
    ASSUME NEW S, S \subseteq 1 .. MaxSeq
    PROVE  IsFiniteSet(S)
  BY WsAssumption, FS_Interval, FS_Subset, 1 \in Int, MaxSeq \in Int

\* The first rows past n, however few, leave out no signal before the last of them.
LEMMA RowsArePrefix ==
    ASSUME log \subseteq 1 .. MaxSeq, NEW n \in Nat, NEW limit \in Nat,
           NEW s \in Rows(n, limit), NEW t \in log, n < t, t < s
    PROVE  t \in Rows(n, limit)
  <1> DEFINE Upto(u) == {v \in log : n < v /\ v <= u}
  <1>1. s \in log /\ Cardinality(Upto(s)) <= limit
    BY DEF Rows
  <1>2. Upto(t) \subseteq Upto(s)
    <2>1. \A v \in log : v <= t => v <= s
      BY <1>1, WsAssumption
    <2> QED
      BY <2>1
  <1>3. IsFiniteSet(Upto(s))
    BY LogFinite
  <1>4. /\ Cardinality(Upto(t)) <= Cardinality(Upto(s))
        /\ IsFiniteSet(Upto(t))
    BY <1>2, <1>3, FS_Subset
  <1>5. Cardinality(Upto(s)) \in Nat /\ Cardinality(Upto(t)) \in Nat
    BY <1>3, <1>4, FS_CardinalityType
  <1>6. Cardinality(Upto(t)) <= limit
    BY <1>1, <1>4, <1>5
  <1> QED
    BY <1>6 DEF Rows

\* What a catch-up or a gap fill gets is a prefix of the log past the position,
\* whatever the relay caps its pages at.
LEMMA PagesOfTheLog ==
    ASSUME Types, NEW cap \in ServerCaps
    PROVE  \A P \in {PageAfter(position, cap), Fresh(cap)} :
              /\ P \subseteq log
              /\ \A r \in P : /\ position < r
                              /\ \A s \in log : position < s /\ s < r => s \in P
  <1> DEFINE Found == PageAfter(position, cap)
  <1>1. /\ log \subseteq 1 .. MaxSeq /\ log \subseteq Nat /\ position \in Nat
        /\ PageSize \in Nat /\ cap \in Nat
    BY WsAssumption DEF Types
  <1>2. Found \subseteq log /\ \A r \in Found : position < r
    BY <1>1 DEF PageAfter, Rows
  <1>3. \A r \in Found, s \in log : position < s /\ s < r => s \in Found
    BY <1>1, RowsArePrefix DEF PageAfter
  <1>4. ASSUME NEW r \in Fresh(cap), NEW s \in log, position < s, s < r
        PROVE  s \in Fresh(cap)
    <2>1. r \in Found /\ r <= target /\ target \in Int
      BY <1>4 DEF Fresh, Types
    <2>2. s \in Found
      BY <1>3, <1>4, <2>1
    <2>3. r \in Nat /\ s \in Nat
      BY <1>1, <1>2, <2>1
    <2>4. s <= target
      BY <1>4, <2>1, <2>3
    <2> QED
      BY <2>2, <2>4 DEF Fresh
  <1> QED
    BY <1>2, <1>3, <1>4 DEF Fresh

-----------------------------------------------------------------------------
(* Types *)

LEMMA InitTypes ==
    ASSUME Init
    PROVE  Types
  BY WsAssumption DEF Init, Types, Delivers, Threads, Places, main

\* An exception changes no sequence but those it discards.
LEMMA FailTypes ==
    ASSUME Types, NEW t \in Threads, NEW kind, Fail(t, kind),
           UNCHANGED <<relayVars, cursor, position, prelive, item, source, target>>,
           buffer' \subseteq log
    PROVE  Types'
  <1> USE DEF Types, Delivers, relayVars
  <1>1. /\ lock' \in Threads \cup {"free"}
        /\ page' \in [Threads -> SUBSET log]
    BY DEF Fail
  <1>2. /\ pc' \in [Threads -> Places]
        /\ leaving' \in {"none", "raised", "returned", "backoff"}
    <2>1. CASE t # main
      BY <2>1 DEF Fail, Goto, Places
    <2>2. CASE t = main
      BY <2>2 DEF Fail, Goto, Places
    <2> QED
      BY <2>1, <2>2
  <1>3. batch' \in Seq(log)
    <2>1. CASE batch' = batch
      BY <2>1
    <2>2. CASE batch' = <<>>
      BY <2>2
    <2> QED
      BY <2>1, <2>2 DEF Fail
  <1>4. \A u \in Threads : pc'[u] = "enter" \/ pc'[u] \in {"callback", "commit"}
                           => pc'[u] = pc[u]
    BY DEF Fail, Goto
  <1>5. pc'[main] = "closing" => leaving' # "none"
    BY DEF Fail, Goto, Threads
  <1> QED
    BY <1>1, <1>2, <1>3, <1>4, <1>5

\* Frames of a log are frames of any larger log.
LEMMA SeqMonotonic ==
    ASSUME NEW S, NEW T, S \subseteq T, NEW q \in Seq(S)
    PROVE  q \in Seq(T)
  OBVIOUS

LEMMA SeqAppend ==
    ASSUME NEW S, NEW e \in S, NEW q \in Seq(S)
    PROVE  Append(q, e) \in Seq(S)
  OBVIOUS

LEMMA EnvironmentTypes ==
    ASSUME Types, Environment \/ Run \/ RunAgain
    PROVE  Types'
  <1> USE DEF Types, Delivers, relayVars, sharedVars, threadVars, fillVars, mainVars
  <1>1. ASSUME NEW s \in 1 .. MaxSeq, Accept(s)
        PROVE  Types'
    <2>1. log \subseteq log' /\ log' \subseteq 1 .. MaxSeq
      BY <1>1 DEF Accept
    <2>2. UNCHANGED <<cursor, sharedVars, threadVars, fillVars, mainVars>> /\ wire' \subseteq log'
      BY <1>1 DEF Accept
    <2>3. prelive \in Seq(log') /\ batch \in Seq(log')
      BY <2>1, SeqMonotonic
    <2>4. page' \in [Threads -> SUBSET log']
      BY <2>1, <2>2
    <2> QED
      BY <2>1, <2>2, <2>3, <2>4
  <1>2. CASE DropFrame \/ DuplicateFrame \/ Stop
    BY <1>2 DEF DropFrame, DuplicateFrame, Stop
  <1>3. CASE Crash \/ Run
    <2>1. PICK label \in {"down", "query"} : Reset(label)
      BY <1>3 DEF Crash, Run
    <2>2. pc' \in [Threads -> Places]
      BY <2>1 DEF Reset, Places, Threads
    <2>3. page' \in [Threads -> SUBSET log]
      BY <2>1 DEF Reset
    <2>4. UNCHANGED <<log, cursor, item, source, target>> /\ position' \in Nat
      BY <1>3 DEF Crash, Run
    <2>5. \A u \in Threads : pc'[u] \notin {"enter", "callback", "commit", "closing"}
      BY <2>1 DEF Reset
    <2>6. prelive' \in Seq(log) /\ batch' \in Seq(log)
      BY <2>1 DEF Reset
    <2> QED
      BY <2>1, <2>2, <2>3, <2>4, <2>5, <2>6 DEF Reset, Threads
  <1>4. CASE RunAgain
    <2>1. pc' \in [Threads -> Places]
      BY <1>4 DEF RunAgain, Goto, Places
    <2>2. \A u \in Threads : pc'[u] \in {pc[u], "query"}
      BY <1>4 DEF RunAgain, Goto
    <2> QED
      BY <1>4, <2>1, <2>2 DEF RunAgain, Threads
  <1> QED
    BY <1>1, <1>2, <1>3, <1>4 DEF Environment

LEMMA MainTypes ==
    ASSUME Types, MainStep
    PROVE  Types'
  <1> USE DEF Types, Delivers, relayVars, sharedVars, threadVars, fillVars, mainVars, Goto,
             Places
  <1>0. main \in Threads /\ log \subseteq Nat
    BY WsAssumption DEF Threads
  <1>1. CASE CatchUpPage
    <2>1. PICK cap \in ServerCaps : page' = [page EXCEPT ![main] = PageAfter(position, cap)]
      BY <1>1 DEF CatchUpPage
    <2>2. page' \in [Threads -> SUBSET log]
      BY <2>1, PagesOfTheLog
    <2> QED
      BY <1>0, <1>1, <2>2 DEF CatchUpPage
  <1>2. CASE CatchUpRow
    <2>1. PICK s \in page[main] :
             /\ item' = [item EXCEPT ![main] = s]
             /\ page' = [page EXCEPT ![main] = {r \in @ : r > s}]
      BY <1>2 DEF CatchUpRow
    <2>2. s \in Nat
      BY <1>0, <2>1, WsAssumption
    <2>3. item' \in [Threads -> Nat]
      BY <2>1, <2>2
    <2>4. page' \in [Threads -> SUBSET log]
      BY <1>0, <2>1
    <2> QED
      BY <1>2, <2>3, <2>4 DEF CatchUpRow
  <1>3. CASE CatchUpEnds
    BY <1>3 DEF CatchUpEnds
  <1>4. CASE NegotiateFails \/ NegotiateStopped \/ GoLive
    BY <1>4 DEF NegotiateFails, NegotiateStopped, GoLive
  <1>5. CASE Connect \/ TakeBatch
    <2>1. prelive' = <<>> /\ batch' \in {prelive, batch}
      BY <1>5 DEF Connect, TakeBatch
    <2>2. prelive' \in Seq(log) /\ batch' \in Seq(log)
      BY <2>1
    <2>3. pc' \in [Threads -> Places]
      BY <1>5 DEF Connect, TakeBatch
    <2> QED
      BY <1>5, <2>2, <2>3 DEF Connect, TakeBatch
  <1>6. CASE NextOfBatch
    <2>1. CASE batch = <<>>
      BY <1>6, <2>1 DEF NextOfBatch
    <2>2. CASE batch # <<>>
      <3>1. /\ item' = [item EXCEPT ![main] = Head(batch)]
            /\ batch' = Tail(batch)
            /\ pc' = [pc EXCEPT ![main] = "enter"]
            /\ UNCHANGED <<relayVars, cursor, sharedVars, source, page, target, leaving>>
        BY <1>6, <2>2 DEF NextOfBatch
      <3>2. Head(batch) \in log /\ batch' \in Seq(log)
        BY <2>2, <3>1
      <3>3. Head(batch) \in Nat
        BY <1>0, <3>2
      <3> QED
        BY <3>1, <3>2, <3>3
    <2> QED
      BY <2>1, <2>2
  <1>7. CASE RaisePending \/ WaitStopped \/ BackoffEnds
    BY <1>7 DEF RaisePending, WaitStopped, BackoffEnds
  <1>8. CASE Close
    <2>1. pc' \in [Threads -> Places] /\ wire' \subseteq log
      BY <1>8 DEF Close
    <2> QED
      BY <1>8, <2>1 DEF Close
  <1> QED
    BY <1>1, <1>2, <1>3, <1>4, <1>5, <1>6, <1>7, <1>8 DEF MainStep

\* Where a committed delivery leads.
LEMMA DeliveryLeads ==
    ASSUME NEW t, source[t] \in {"catchup", "live", "gapfill"}
    PROVE  /\ source[t] = "catchup" => AfterDelivery(t) = "rows"
           /\ source[t] = "gapfill" => AfterDelivery(t) = "fillrows"
           /\ source[t] = "live" => AfterDelivery(t) = "drain"
  BY DEF AfterDelivery

LEMMA ThreadTypes ==
    ASSUME Types, NEW t \in Threads, ThreadStep(t)
    PROVE  Types'
  <1>1. log \subseteq Nat
    BY WsAssumption DEF Types
  <1>2. CASE CallbackRaises(t) \/ CommitRaises(t) \/ FetchRaises(t)
    <2>1. PICK kind : Fail(t, kind)
      BY <1>2 DEF CallbackRaises, CommitRaises, FetchRaises
    <2>2. UNCHANGED <<relayVars, cursor, position, prelive, item, source, target, buffer>>
      BY <1>2 DEF CallbackRaises, CommitRaises, FetchRaises, fillVars
    <2> QED
      BY <2>1, <2>2, FailTypes DEF Types
  <1>3. CASE Overflow(t)
    <2>1. PICK kind : Fail(t, kind)
      BY <1>3 DEF Overflow
    <2>2. /\ UNCHANGED <<relayVars, cursor, position, prelive, item, source, target>>
          /\ buffer' = buffer \cup {item[t]}
      BY <1>3 DEF Overflow, fillVars
    <2>3. buffer' \subseteq log
      BY <1>3, <2>2 DEF Overflow, Types
    <2> QED
      BY <2>1, <2>2, <2>3, FailTypes DEF Overflow
  <1>4. CASE FillEmpty(t) \/ FillRowsDone(t)
    <2>1. CASE \E kind : Fail(t, kind)
      <3>1. UNCHANGED <<relayVars, cursor, position, prelive, item, source, target, buffer>>
        BY <1>4 DEF FillEmpty, FillRowsDone, fillVars
      <3> QED
        BY <2>1, <3>1, FailTypes DEF Types
    <2>2. CASE UNCHANGED <<page, lock, leaving, batch>> /\ (UNCHANGED pc \/ Goto(t, "fill"))
      <3>1. UNCHANGED <<relayVars, cursor, position, prelive, item, source, target, buffer>>
        BY <1>4 DEF FillEmpty, FillRowsDone, fillVars
      <3>2. /\ pc' \in [Threads -> Places]
            /\ \A u \in Threads : pc'[u] \in {pc[u], "fill"}
        BY <2>2 DEF Types, Goto, Places
      <3> QED
        BY <2>2, <3>1, <3>2 DEF Types, Delivers, relayVars, Threads
    <2> QED
      BY <1>4, <2>1, <2>2 DEF FillEmpty, FillRowsDone
  <1> USE DEF Types, Delivers, relayVars, sharedVars, threadVars, fillVars, mainVars, Goto,
             Places
  <1>5. CASE CallbackReturns(t) \/ Commit(t)
    <2>1. AfterDelivery(t) \in {"rows", "fillrows", "drain"}
      BY DeliveryLeads
    <2>2. /\ pc' \in [Threads -> Places]
          /\ \A u \in Threads : \/ pc'[u] \in {pc[u], "rows", "fillrows", "drain"}
                              \/ pc[u] = "callback"
      BY <1>5, <2>1 DEF CallbackReturns, Commit
    <2>3. pc'[main] = pc[main] \/ pc'[main] # "closing"
      BY <1>5, <2>1 DEF CallbackReturns, Commit, Threads
    <2>4. UNCHANGED <<relayVars, buffer, prelive, lock, item, source, page, target, batch, leaving>>
      BY <1>5 DEF CallbackReturns, Commit
    <2>5. cursor' \in Nat /\ position' \in Nat
      BY <1>5 DEF CallbackReturns, Commit
    <2> QED
      BY <2>2, <2>3, <2>4, <2>5
  <1>6. CASE DropStale(t) \/ DrainEnds(t)
    <2>1. /\ pc' \in [Threads -> Places]
          /\ \A u \in Threads : pc'[u] \in {pc[u], "idle", "batch"}
      BY <1>6 DEF DropStale, DrainEnds, Finish
    <2> QED
      BY <1>6, <2>1 DEF DropStale, DrainEnds, Threads
  <1>7. CASE Park(t)
    <2>1. /\ pc' \in [Threads -> Places]
          /\ \A u \in Threads : pc'[u] \in {pc[u], "drain"}
      BY <1>7 DEF Park
    <2>2. buffer' \subseteq log
      BY <1>7 DEF Park
    <2> QED
      BY <1>7, <2>1, <2>2 DEF Park, Threads
  <1>10. CASE DrainNext(t)
    BY <1>1, <1>10 DEF DrainNext
  <1>11. CASE DrainGap(t)
    <2>1. target' \in Int
      BY <1>1, <1>11 DEF DrainGap
    <2> QED
      BY <1>11, <2>1 DEF DrainGap
  <1>12. CASE FillEnds(t)
    BY <1>12 DEF FillEnds
  <1>8. CASE FillPage(t)
    <2>1. PICK cap \in ServerCaps : page' = [page EXCEPT ![t] = Fresh(cap)]
      BY <1>8 DEF FillPage
    <2>2. page' \in [Threads -> SUBSET log]
      BY <2>1, PagesOfTheLog
    <2> QED
      BY <1>8, <2>2 DEF FillPage
  <1>9. CASE FillRow(t)
    <2>1. PICK s \in page[t] :
             /\ item' = [item EXCEPT ![t] = s]
             /\ page' = [page EXCEPT ![t] = @ \ {s}]
             /\ buffer' = buffer \ {s}
      BY <1>9 DEF FillRow
    <2>2. item' \in [Threads -> Nat] /\ page' \in [Threads -> SUBSET log]
      BY <1>1, <2>1
    <2> QED
      BY <1>9, <2>1, <2>2 DEF FillRow
  <1> QED
    BY <1>2, <1>3, <1>4, <1>5, <1>6, <1>7, <1>8, <1>9, <1>10, <1>11, <1>12
    DEF ThreadStep

LEMMA ReceiveTypes ==
    ASSUME Types, NEW h \in Handlers, Receive(h)
    PROVE  Types'
  <1> USE DEF Types, Delivers, relayVars, sharedVars, threadVars, fillVars, mainVars, Goto,
             Places
  <1>1. PICK s \in wire :
           /\ wire' = wire \ {s}
           /\ \/ prelive' = Append(prelive, s) /\ UNCHANGED <<pc, item>>
              \/ /\ item' = [item EXCEPT ![h] = s]
                 /\ pc' = [pc EXCEPT ![h] = "enter"]
                 /\ UNCHANGED prelive
    BY DEF Receive
  <1>2. s \in log /\ s \in Nat /\ h \in Threads
    BY WsAssumption DEF Threads
  <1>3. prelive' \in Seq(log)
    BY <1>1, <1>2, SeqAppend
  <1>4. item' \in [Threads -> Nat] /\ pc' \in [Threads -> Places]
    BY <1>1, <1>2
  <1>5. /\ \A u \in Threads : pc'[u] \in {"enter", "callback", "commit"} => item'[u] \in log
        /\ pc'[main] = pc[main] \/ pc'[main] = "enter"
    BY <1>1, <1>2 DEF Threads
  <1> QED
    BY <1>1, <1>3, <1>4, <1>5 DEF Receive, Threads

LEMMA StepTypes ==
    ASSUME Types, [Next]_vars
    PROVE  Types'
  <1>1. CASE UNCHANGED vars
    BY <1>1 DEF vars, Types, Delivers, relayVars, sharedVars, threadVars, fillVars, mainVars
  <1> QED
    BY <1>1, EnvironmentTypes, MainTypes, ThreadTypes, ReceiveTypes DEF Next

-----------------------------------------------------------------------------
(* The delivery lock *)

\* One thread t moves: it takes the lock when it was free, gives it back or
\* keeps what it had.
LEMMA OneMoves ==
    ASSUME Types, LockOK, NEW t \in Threads,
           \A u \in Threads : u # t => pc'[u] = pc[u] /\ source'[u] = source[u],
           Holds(t)' => lock' = t /\ lock \in {t, "free"},
           ~Holds(t)' => lock' = IF lock = t THEN "free" ELSE lock
    PROVE  LockOK'
  <1>1. "free" \notin Threads
    BY WsAssumption DEF Threads, main
  <1>2. \A u \in Threads : u # t => Holds(u)' = Holds(u)
    BY DEF Holds, Delivers
  <1>3. \A u \in Threads : u # t => lock' = u <=> lock = u
    BY <1>1
  <1> QED
    BY <1>1, <1>2, <1>3 DEF LockOK

\* Whoever fails gives the lock back.
LEMMA FailLock ==
    ASSUME Types, LockOK, NEW t \in Threads, NEW kind, Fail(t, kind), UNCHANGED source
    PROVE  LockOK'
  <1>1. /\ pc'[t] \in {"idle", "closing", "raised"}
        /\ \A u \in Threads : u # t => pc'[u] = pc[u]
    BY DEF Fail, Goto, Types
  <1>2. lock' = IF lock = t THEN "free" ELSE lock
    BY DEF Fail
  <1>3. ~Holds(t)'
    BY <1>1 DEF Holds, Delivers
  <1> QED
    BY <1>1, <1>2, <1>3, OneMoves

LEMMA ThreadLock ==
    ASSUME Types, LockOK, NEW t \in Threads, ThreadStep(t)
    PROVE  LockOK'
  <1>0. lock = t <=> Holds(t)
    BY DEF LockOK
  <1>1. CASE CallbackRaises(t) \/ CommitRaises(t) \/ FetchRaises(t) \/ Overflow(t)
    BY <1>1, FailLock DEF CallbackRaises, CommitRaises, FetchRaises, Overflow
  <1>2. CASE FillEmpty(t) \/ FillRowsDone(t)
    <2>1. UNCHANGED source
      BY <1>2 DEF FillEmpty, FillRowsDone
    <2>2. CASE \E kind : Fail(t, kind)
      BY <2>1, <2>2, FailLock
    <2>3. CASE UNCHANGED lock /\ (UNCHANGED pc \/ Goto(t, "fill"))
      <3>1. Holds(t) /\ Holds(t)'
        BY <1>2, <2>3 DEF FillEmpty, FillRowsDone, Goto, Types, Holds
      <3>2. \A u \in Threads : u # t => pc'[u] = pc[u]
        BY <2>3 DEF Goto, Types
      <3> QED
        BY <1>0, <2>1, <2>3, <3>1, <3>2, OneMoves
    <2> QED
      BY <1>2, <2>2, <2>3 DEF FillEmpty, FillRowsDone
  <1> USE DEF Types, Goto, sharedVars, Holds, Delivers
  <1>3. CASE CallbackReturns(t)
    <2>1. /\ \A u \in Threads : u # t => pc'[u] = pc[u]
          /\ UNCHANGED <<lock, source>>
          /\ Holds(t)' = Holds(t)
      BY <1>3 DEF CallbackReturns
    <2> QED
      BY <1>0, <2>1, OneMoves
  <1>4. CASE Commit(t)
    <2>1. /\ \A u \in Threads : u # t => pc'[u] = pc[u]
          /\ UNCHANGED <<lock, source>>
          /\ pc[t] = "commit" /\ pc'[t] = AfterDelivery(t)
      BY <1>4 DEF Commit
    <2>2. Holds(t)' = Holds(t)
      BY <2>1, DeliveryLeads
    <2> QED
      BY <1>0, <2>1, <2>2, OneMoves
  <1>5. CASE DropStale(t)
    <2>1. /\ \A u \in Threads : u # t => pc'[u] = pc[u]
          /\ UNCHANGED <<lock, source>>
          /\ pc[t] = "enter" /\ pc'[t] \in {"batch", "idle"}
      BY <1>5 DEF DropStale, Finish
    <2> QED
      BY <1>0, <2>1, OneMoves
  <1>6. CASE Park(t)
    <2>1. /\ \A u \in Threads : u # t => pc'[u] = pc[u]
          /\ UNCHANGED source /\ lock = "free" /\ lock' = t /\ pc'[t] = "drain"
      BY <1>6 DEF Park
    <2> QED
      BY <2>1, OneMoves
  <1>7. CASE DrainEnds(t)
    <2>1. /\ \A u \in Threads : u # t => pc'[u] = pc[u]
          /\ UNCHANGED source /\ lock' = "free"
          /\ pc[t] = "drain" /\ pc'[t] \in {"batch", "idle"}
      BY <1>7 DEF DrainEnds, Finish
    <2> QED
      BY <1>0, <2>1, OneMoves
  <1>8. CASE DrainNext(t) \/ FillRow(t)
    <2>1. /\ \A u \in Threads : u # t => pc'[u] = pc[u] /\ source'[u] = source[u]
          /\ UNCHANGED lock
          /\ pc[t] \in {"drain", "fillrows"} /\ pc'[t] = "callback"
          /\ source'[t] \in {"live", "gapfill"}
      BY <1>8 DEF DrainNext, FillRow
    <2> QED
      BY <1>0, <2>1, OneMoves
  <1>9. CASE DrainGap(t) \/ FillEnds(t) \/ FillPage(t)
    <2>1. /\ \A u \in Threads : u # t => pc'[u] = pc[u]
          /\ UNCHANGED <<lock, source>>
          /\ pc[t] \in {"drain", "fill"} /\ pc'[t] \in {"drain", "fill", "fillrows"}
      BY <1>9 DEF DrainGap, FillEnds, FillPage
    <2> QED
      BY <1>0, <2>1, OneMoves
  <1> QED
    BY <1>1, <1>2, <1>3, <1>4, <1>5, <1>6, <1>7, <1>8, <1>9 DEF ThreadStep

\* The main thread's own steps are taken without the lock, but for the last of a
\* drain, which is a thread's step.
LEMMA MainLock ==
    ASSUME Types, LockOK, MainStep
    PROVE  LockOK'
  <1> USE DEF Types, Goto, sharedVars, Holds, Delivers
  <1>0. main \in Threads /\ (lock = main <=> Holds(main))
    BY DEF LockOK, Threads
  <1>1. CASE CatchUpRow
    <2>1. /\ \A u \in Threads : u # main => pc'[u] = pc[u] /\ source'[u] = source[u]
          /\ UNCHANGED lock
          /\ pc[main] = "rows" /\ pc'[main] = "callback" /\ source'[main] = "catchup"
      BY <1>0, <1>1 DEF CatchUpRow
    <2> QED
      BY <1>0, <2>1, OneMoves
  <1>2. CASE ~CatchUpRow
    <2>1. /\ \A u \in Threads : u # main => pc'[u] = pc[u]
          /\ UNCHANGED <<lock, source>>
          /\ pc[main] \in {"query", "rows", "negotiate", "prelive", "batch", "wait",
                           "closing", "backoff"}
      BY <1>2 DEF MainStep, CatchUpPage, CatchUpEnds, Connect, NegotiateFails,
                  NegotiateStopped, GoLive, TakeBatch, NextOfBatch, RaisePending,
                  WaitStopped, Close, BackoffEnds
    <2>2. pc'[main] \in {"rows", "query", "prelive", "negotiate", "returned", "raised",
                         "backoff", "wait", "batch", "enter", "closing"}
      BY <1>0, <1>2
      DEF MainStep, CatchUpPage, CatchUpEnds, Connect, NegotiateFails,
          NegotiateStopped, GoLive, TakeBatch, NextOfBatch, RaisePending,
          WaitStopped, Close, BackoffEnds
    <2> QED
      BY <1>0, <2>1, <2>2, OneMoves
  <1> QED
    BY <1>1, <1>2

LEMMA StepLock ==
    ASSUME Types, LockOK, [Next]_vars
    PROVE  LockOK'
  <1> USE DEF LockOK, Holds, Delivers
  <1>1. CASE UNCHANGED vars
    BY <1>1 DEF vars, sharedVars, threadVars
  <1>2. CASE Environment \/ Run
    <2>1. CASE \E label \in {"down", "query"} : Reset(label)
      <3>1. \A t \in Threads : pc'[t] \in {"down", "query", "idle"}
        BY <2>1 DEF Reset
      <3> QED
        BY <2>1, <3>1, WsAssumption DEF Reset, Threads, main
    <2>2. CASE UNCHANGED <<pc, source, lock>>
      BY <2>2
    <2> QED
      BY <1>2, <2>1, <2>2 DEF Environment, Accept, DropFrame, DuplicateFrame, Stop, Crash,
                              Run, sharedVars, threadVars
  <1>3. ASSUME NEW h \in Handlers, Receive(h)
        PROVE  LockOK'
    <2>1. /\ h \in Threads /\ UNCHANGED <<lock, source>> /\ pc[h] = "idle"
          /\ UNCHANGED pc \/ pc' = [pc EXCEPT ![h] = "enter"]
      BY <1>3 DEF Receive, Threads, Goto
    <2>2. /\ \A u \in Threads : u # h => pc'[u] = pc[u]
          /\ pc'[h] \in {"idle", "enter"}
      BY <2>1 DEF Types
    <2> QED
      BY <2>1, <2>2, OneMoves
  <1>4. CASE RunAgain
    <2>1. /\ main \in Threads /\ UNCHANGED <<lock, source>>
          /\ \A u \in Threads : u # main => pc'[u] = pc[u]
          /\ pc[main] \in {"returned", "raised"} /\ pc'[main] = "query"
      BY <1>4 DEF RunAgain, Goto, Threads, Types
    <2> QED
      BY <2>1, OneMoves
  <1> QED
    BY <1>1, <1>2, <1>3, <1>4, MainLock, ThreadLock DEF Next

-----------------------------------------------------------------------------
(* The phases of the main thread *)

\* Whoever takes a step of a thread is at work, and only moves itself.
LEMMA ThreadMoves ==
    ASSUME Types, NEW t \in Threads, ThreadStep(t)
    PROVE  /\ pc[t] \in {"query", "enter"} \/ Holds(t) \/ Delivers(t)
           /\ \A u \in Threads : u # t => pc'[u] = pc[u] /\ source'[u] = source[u]
           /\ UNCHANGED <<connected, buffering, log, prelive>>
           /\ \/ /\ pc'[t] = IF t = main THEN "batch" ELSE "idle"
                 /\ Holds(t) \/ pc[t] = "enter"
              \/ pc'[t] = IF t # main THEN "idle" ELSE IF connected THEN "closing" ELSE "raised"
              \/ pc'[t] \in {"drain", "fill", "fillrows"} /\ (Holds(t) \/ pc[t] = "enter")
              \/ Delivers(t)' /\ source'[t] # "catchup" /\ (Holds(t) \/ pc[t] = "enter")
              \/ Delivers(t)' /\ source'[t] = "catchup" /\ Delivers(t) /\ UNCHANGED source
              \/ pc'[t] = "rows" /\ source[t] = "catchup" /\ Delivers(t)
  <1> USE DEF Types, Goto, sharedVars, relayVars, mainVars, Holds, Delivers
  <1>1. CASE CallbackRaises(t) \/ CommitRaises(t) \/ FetchRaises(t) \/ Overflow(t)
    BY <1>1 DEF CallbackRaises, CommitRaises, FetchRaises, Overflow, Fail
  <1>2. CASE FillEmpty(t) \/ FillRowsDone(t)
    BY <1>2 DEF FillEmpty, FillRowsDone, Fail
  <1>3. CASE CallbackReturns(t)
    BY <1>3 DEF CallbackReturns
  <1>4. CASE Commit(t)
    BY <1>4, DeliveryLeads DEF Commit
  <1>5. CASE DropStale(t) \/ Park(t) \/ DrainEnds(t)
    BY <1>5 DEF DropStale, Park, DrainEnds, Finish
  <1>6. CASE DrainNext(t) \/ DrainGap(t) \/ FillEnds(t) \/ FillPage(t)
    BY <1>6 DEF DrainNext, DrainGap, FillEnds, FillPage
  <1>7. CASE FillRow(t)
    BY <1>7 DEF FillRow
  <1> QED
    BY <1>1, <1>2, <1>3, <1>4, <1>5, <1>6, <1>7 DEF ThreadStep

LEMMA ThreadPhase ==
    ASSUME Types, PhaseOK, NEW t \in Threads, ThreadStep(t)
    PROVE  PhaseOK'
  <1> USE DEF PhaseOK, Holds, Delivers, Ended
  <1>1. CASE t = main
    <2>1. /\ \A h \in Handlers : pc'[h] = pc[h] /\ source'[h] = source[h]
          /\ UNCHANGED <<connected, buffering>>
      BY <1>1, ThreadMoves, WsAssumption DEF Threads
    <2>2. pc[main] \in {"query", "enter"} \/ Holds(main) \/ Delivers(main)
      BY <1>1, ThreadMoves
    <2>3. connected => buffering
      BY <2>2
    <2>4. /\ pc'[main] # "idle"
          /\ pc'[main] \in Ended \cup {"negotiate", "backoff"} => ~connected
          /\ pc'[main] \in {"prelive", "batch", "enter", "wait", "closing"} \/ Holds(main)'
                => connected
      BY <1>1, <2>2, ThreadMoves
    <2> QED
      BY <2>1, <2>3, <2>4
  <1>2. CASE t # main
    BY <1>2, ThreadMoves, WsAssumption DEF Threads
  <1> QED
    BY <1>1, <1>2

LEMMA MainPhase ==
    ASSUME Types, PhaseOK, CloseJoins, MainStep
    PROVE  PhaseOK'
  <1> USE DEF PhaseOK, Holds, Delivers, Ended, Types, Goto, sharedVars, mainVars
  <1>0. main \in Threads /\ \A h \in Handlers : h \in Threads /\ h # main
    BY WsAssumption DEF Threads
  <1>1. CASE CatchUpPage \/ CatchUpRow
    BY <1>0, <1>1 DEF CatchUpPage, CatchUpRow
  <1>2. CASE CatchUpEnds
    BY <1>0, <1>2 DEF CatchUpEnds
  <1>3. CASE Connect
    BY <1>0, <1>3 DEF Connect
  <1>4. CASE NegotiateFails \/ NegotiateStopped \/ BackoffEnds
    BY <1>0, <1>4 DEF NegotiateFails, NegotiateStopped, BackoffEnds
  <1>5. CASE GoLive
    BY <1>0, <1>5 DEF GoLive
  <1>6. CASE TakeBatch \/ NextOfBatch
    BY <1>0, <1>6 DEF TakeBatch, NextOfBatch
  <1>7. CASE RaisePending \/ WaitStopped
    BY <1>0, <1>7 DEF RaisePending, WaitStopped
  <1>8. CASE Close
    BY <1>0, <1>8 DEF Close
  <1> QED
    BY <1>1, <1>2, <1>3, <1>4, <1>5, <1>6, <1>7, <1>8 DEF MainStep

LEMMA StepPhase ==
    ASSUME Types, PhaseOK, CloseJoins, [Next]_vars
    PROVE  PhaseOK'
  <1> USE DEF PhaseOK, Holds, Delivers, Ended
  <1>1. CASE UNCHANGED vars
    BY <1>1 DEF vars, sharedVars, threadVars, mainVars
  <1>2. CASE Environment \/ Run
    <2>1. CASE \E label \in {"down", "query"} : Reset(label)
      BY <2>1, WsAssumption DEF Reset, Threads
    <2>2. CASE UNCHANGED <<pc, source, connected, buffering>>
      BY <2>2
    <2> QED
      BY <1>2, <2>1, <2>2 DEF Environment, Accept, DropFrame, DuplicateFrame, Stop, Crash,
                              Run, sharedVars, threadVars, mainVars
  <1>3. ASSUME NEW h \in Handlers, Receive(h)
        PROVE  PhaseOK'
    <2>1. /\ UNCHANGED <<source, connected, buffering>> /\ pc[h] = "idle" /\ connected
          /\ UNCHANGED pc \/ (~buffering /\ pc' = [pc EXCEPT ![h] = "enter"])
      BY <1>3 DEF Receive, Goto, mainVars
    <2> QED
      BY <2>1, WsAssumption DEF Types, Threads
  <1>4. CASE RunAgain
    BY <1>4, WsAssumption DEF RunAgain, Goto, Threads, Types
  <1> QED
    BY <1>1, <1>2, <1>3, <1>4, MainPhase, ThreadPhase DEF Next

\* At most one thread is at work on the stream.
Works(t) == pc[t] \in {"query", "rows"} \/ Delivers(t) \/ Holds(t)

LEMMA OneWorks ==
    ASSUME Types, LockOK, PhaseOK, NEW t \in Threads, NEW u \in Threads,
           Works(t), Works(u)
    PROVE  t = u
  <1> USE DEF Holds, Delivers, Works, LockOK, PhaseOK, Threads
  <1>1. ASSUME NEW h \in Handlers, Works(h)
        PROVE  Holds(h) /\ connected /\ ~buffering /\ pc[main] \in {"wait", "closing"}
    BY <1>1
  <1> QED
    BY <1>1

\* OneDeliverer is what the four invariants say about program counters.
LEMMA Exclusion ==
    ASSUME Types, LockOK, PhaseOK
    PROVE  OneDeliverer
  <1> DEFINE D == {t \in Threads : pc[t] \in {"query", "rows", "callback", "commit",
                                              "drain", "fill", "fillrows"}}
  <1>1. \A t \in D : Works(t)
    BY DEF Works, Delivers, Holds
  <1>2. \A t, u \in D : t = u
    BY <1>1, OneWorks
  <1>3. Cardinality(D) <= 1
    <2>1. CASE D = {}
      BY <2>1, FS_EmptySet
    <2>2. ASSUME NEW t \in D
          PROVE  Cardinality(D) <= 1
      <3>1. D = {t}
        BY <1>2
      <3>2. Cardinality({t}) = 1
        BY FS_Singleton
      <3> HIDE DEF D
      <3> QED
        BY <3>1, <3>2
    <2> QED
      BY <1>2, <2>1, <2>2
  <1> QED
    BY <1>3 DEF OneDeliverer

-----------------------------------------------------------------------------
(* Deliveries *)

Serial == \A t, u \in Threads : Works(t) /\ Works(u) => t = u

\* The next row of a page is the next entry of the log after the position.
LEMMA NextRow ==
    ASSUME Types, PageOK, NEW t \in Threads, pc[t] \in {"rows", "fillrows"},
           NEW s \in page[t], \A r \in page[t] : s <= r
    PROVE  /\ s \in log /\ position < s
           /\ \A u \in log : ~(position < u /\ u < s)
           /\ \A r \in page[t], u \in log : s < u /\ u < r => u \in page[t]
  <1>1. log \subseteq Nat /\ page[t] \subseteq log /\ position \in Nat
    BY WsAssumption DEF Types
  <1>2. \A r \in page[t] : /\ position < r
                           /\ \A u \in log : position < u /\ u < r => u \in page[t]
    BY DEF PageOK, Paged, Base
  <1>3. s \in log /\ position < s /\ s \in Nat
    BY <1>1, <1>2
  <1>4. ASSUME NEW u \in log, position < u, u < s
        PROVE  FALSE
    <2>1. u \in page[t] /\ u \in Nat
      BY <1>1, <1>2, <1>4
    <2> QED
      BY <1>3, <1>4, <2>1
  <1>5. ASSUME NEW r \in page[t], NEW u \in log, s < u, u < r
        PROVE  u \in page[t]
    <2>1. u \in Nat /\ position < u
      BY <1>1, <1>3, <1>5
    <2> QED
      BY <1>2, <1>5, <2>1
  <1> QED
    BY <1>3, <1>4, <1>5

\* A new entry of the log comes after everything there is.
LEMMA AcceptDelivery ==
    ASSUME Types, DeliveryOK, PageOK, NEW n \in 1 .. MaxSeq, Accept(n)
    PROVE  DeliveryOK' /\ PageOK'
  <1>1. /\ log' = log \cup {n} /\ (\A s \in log : s < n)
        /\ UNCHANGED <<position, pc, item, source, page>>
    BY DEF Accept, sharedVars, threadVars
  <1>2. log \subseteq Nat /\ n \in Nat
    BY WsAssumption DEF Types
  <1>3. \A r \in log : ~(n < r)
    BY <1>1, <1>2
  <1>4. DeliveryOK'
    BY <1>1, <1>3 DEF DeliveryOK, Delivers, Types
  <1>5. PageOK'
    <2>1. \A t \in Threads : page[t] \subseteq log
      BY DEF Types
    <2> QED
      BY <1>1, <1>3, <2>1 DEF PageOK, Paged, Base, Delivers
  <1> QED
    BY <1>4, <1>5

\* A step that neither starts nor ends a delivery or a page.
LEMMA DeliveryKept ==
    ASSUME DeliveryOK, PageOK, UNCHANGED <<log, position>>,
           \A u \in Threads :
              Delivers(u)' \/ Paged(u)' =>
                  pc'[u] = pc[u] /\ source'[u] = source[u]
                     /\ item'[u] = item[u] /\ page'[u] = page[u]
    PROVE  DeliveryOK' /\ PageOK'
  <1>1. DeliveryOK'
    BY DEF DeliveryOK, Delivers
  <1>2. PageOK'
    BY DEF PageOK, Paged, Base, Delivers
  <1> QED
    BY <1>1, <1>2

\* A thread starts to deliver the next row of its page.
LEMMA RowTaken ==
    ASSUME Types, DeliveryOK, PageOK, NEW t \in Threads, pc[t] \in {"rows", "fillrows"},
           NEW s \in page[t], \A r \in page[t] : s <= r,
           item' = [item EXCEPT ![t] = s],
           page'[t] = {r \in page[t] : r > s}, pc' = [pc EXCEPT ![t] = "callback"],
           \A u \in Threads : u # t => source'[u] = source[u] /\ page'[u] = page[u],
           UNCHANGED <<log, position>>
    PROVE  DeliveryOK' /\ PageOK'
  <1>1. /\ s \in log /\ position < s
        /\ \A u \in log : ~(position < u /\ u < s)
        /\ \A r \in page[t], u \in log : s < u /\ u < r => u \in page[t]
    BY NextRow
  <1>2. /\ pc'[t] = "callback" /\ item'[t] = s
        /\ \A u \in Threads : u # t => pc'[u] = pc[u] /\ item'[u] = item[u]
    BY DEF Types
  <1>3. DeliveryOK'
    BY <1>1, <1>2 DEF DeliveryOK, Delivers
  <1>4. ASSUME NEW u \in Threads, Paged(u)', NEW r \in page'[u]
        PROVE  /\ Base(u)' < r
               /\ \A v \in log : Base(u)' < v /\ v < r => v \in page'[u]
    <2>1. CASE u = t
      BY <1>1, <1>2, <1>4, <2>1 DEF Base
    <2>2. CASE u # t
      BY <1>2, <1>4, <2>2 DEF Base, PageOK, Paged, Delivers
    <2> QED
      BY <2>1, <2>2
  <1> QED
    BY <1>3, <1>4 DEF PageOK

LEMMA ThreadDelivery ==
    ASSUME Types, DeliveryOK, PageOK, Serial, NEW t \in Threads, ThreadStep(t)
    PROVE  DeliveryOK' /\ PageOK'
  <1> USE DEF Types, Goto, relayVars, sharedVars
  <1>0. log \subseteq Nat /\ position \in Nat
    BY WsAssumption
  <1>1. CASE CallbackRaises(t) \/ CommitRaises(t) \/ FetchRaises(t) \/ Overflow(t)
             \/ FillEmpty(t) \/ FillRowsDone(t)
    <2>1. UNCHANGED <<log, position, source, item>>
      BY <1>1 DEF CallbackRaises, CommitRaises, FetchRaises, Overflow, FillEmpty,
                  FillRowsDone
    <2>2. /\ \A u \in Threads : u # t => pc'[u] = pc[u] /\ page'[u] = page[u]
          /\ pc'[t] \in {"idle", "closing", "raised", "fill"}
      BY <1>1 DEF CallbackRaises, CommitRaises, FetchRaises, Overflow, FillEmpty,
                  FillRowsDone, Fail
    <2> QED
      BY <2>1, <2>2, DeliveryKept DEF Delivers, Paged
  <1>2. CASE CallbackReturns(t)
    <2>1. /\ pc[t] = "callback" /\ pc'[t] = "commit" /\ position' = item[t]
          /\ UNCHANGED <<log, item, source, page>>
          /\ \A u \in Threads : u # t => pc'[u] = pc[u]
      BY <1>2 DEF CallbackReturns
    <2>2. \A u \in Threads : u # t => ~Delivers(u) /\ ~Paged(u)
      BY <2>1 DEF Serial, Works, Delivers, Paged, Holds
    <2>3. \A u \in Threads : u # t => ~Delivers(u)' /\ ~Paged(u)'
      BY <2>1, <2>2 DEF Delivers, Paged
    <2>4. DeliveryOK'
      BY <2>1, <2>3 DEF DeliveryOK, Delivers
    <2>5. Base(t)' = Base(t) /\ (Paged(t)' => Paged(t))
      BY <2>1 DEF Base, Paged, Delivers
    <2>6. PageOK'
      BY <2>1, <2>3, <2>5 DEF PageOK
    <2> QED
      BY <2>4, <2>6
  <1>3. CASE Commit(t)
    <2>1. /\ pc[t] = "commit" /\ pc'[t] = AfterDelivery(t)
          /\ UNCHANGED <<log, item, source, page, position>>
          /\ \A u \in Threads : u # t => pc'[u] = pc[u]
      BY <1>3 DEF Commit
    <2>2. pc'[t] \in {"rows", "fillrows", "drain"} /\ (pc'[t] # "drain" => Paged(t))
      BY <2>1, DeliveryLeads DEF Paged, Delivers
    <2>3. DeliveryOK'
      BY <2>1, <2>2 DEF DeliveryOK, Delivers
    <2>4. Base(t)' = Base(t) /\ (Paged(t)' => Paged(t))
      BY <2>1, <2>2 DEF Base, Paged, Delivers
    <2>5. \A u \in Threads : u # t => Base(u)' = Base(u) /\ Paged(u)' = Paged(u)
      BY <2>1 DEF Base, Paged, Delivers
    <2>6. PageOK'
      BY <2>1, <2>4, <2>5 DEF PageOK
    <2> QED
      BY <2>3, <2>6
  <1>4. CASE DropStale(t) \/ Park(t) \/ DrainEnds(t) \/ DrainGap(t) \/ FillEnds(t)
    <2>1. /\ UNCHANGED <<log, position, source, item, page>>
          /\ \A u \in Threads : u # t => pc'[u] = pc[u]
          /\ pc'[t] \in {"batch", "idle", "drain", "fill"}
      BY <1>4 DEF DropStale, Park, DrainEnds, DrainGap, FillEnds, Finish
    <2> QED
      BY <2>1, DeliveryKept DEF Delivers, Paged
  <1>5. CASE DrainNext(t)
    <2>1. /\ UNCHANGED <<log, position, page>>
          /\ \A u \in Threads : u # t => /\ pc'[u] = pc[u] /\ source'[u] = source[u]
                                         /\ item'[u] = item[u]
          /\ pc'[t] = "callback" /\ source'[t] = "live" /\ item'[t] = position + 1
      BY <1>5 DEF DrainNext
    <2>2. DeliveryOK'
      BY <1>0, <2>1 DEF DeliveryOK, Delivers
    <2>3. \A u \in Threads : Paged(u)' => u # t
      BY <2>1 DEF Paged, Delivers
    <2>4. PageOK'
      BY <2>1, <2>3 DEF PageOK, Paged, Base, Delivers
    <2> QED
      BY <2>2, <2>4
  <1>6. CASE FillPage(t)
    <2>1. /\ UNCHANGED <<log, position, source, item>>
          /\ \A u \in Threads : u # t => pc'[u] = pc[u] /\ page'[u] = page[u]
          /\ pc'[t] = "fillrows"
      BY <1>6 DEF FillPage
    <2>2. DeliveryOK'
      BY <2>1 DEF DeliveryOK, Delivers
    <2>3. \A r \in page'[t] : /\ position < r
                              /\ \A s \in log : position < s /\ s < r => s \in page'[t]
      <3>1. PICK cap \in ServerCaps : page'[t] = Fresh(cap)
        BY <1>6 DEF FillPage
      <3> QED
        BY <3>1, PagesOfTheLog
    <2>4. PageOK'
      BY <2>1, <2>3 DEF PageOK, Paged, Base, Delivers
    <2> QED
      BY <2>2, <2>4
  <1>7. CASE FillRow(t)
    <2>1. PICK s \in page[t] :
             /\ \A r \in page[t] : s <= r
             /\ item' = [item EXCEPT ![t] = s]
             /\ page' = [page EXCEPT ![t] = @ \ {s}]
      BY <1>7 DEF FillRow, Least
    <2>2. page[t] \subseteq Nat
      BY <1>0
    <2>3. page'[t] = {r \in page[t] : r > s}
      BY <2>1, <2>2
    <2>4. /\ pc[t] = "fillrows" /\ pc' = [pc EXCEPT ![t] = "callback"]
          /\ \A u \in Threads : u # t => source'[u] = source[u] /\ page'[u] = page[u]
          /\ UNCHANGED <<log, position>>
      BY <1>7, <2>1 DEF FillRow
    <2> QED
      BY <2>1, <2>3, <2>4, RowTaken
  <1> QED
    BY <1>1, <1>2, <1>3, <1>4, <1>5, <1>6, <1>7 DEF ThreadStep

LEMMA MainDelivery ==
    ASSUME Types, DeliveryOK, PageOK, MainStep
    PROVE  DeliveryOK' /\ PageOK'
  <1> USE DEF Types, Goto, relayVars, sharedVars
  <1>0. main \in Threads /\ log \subseteq Nat /\ position \in Nat
    BY WsAssumption DEF Threads
  <1>1. CASE CatchUpPage
    <2>1. /\ UNCHANGED <<log, position, source, item>>
          /\ \A u \in Threads : u # main => pc'[u] = pc[u] /\ page'[u] = page[u]
          /\ pc'[main] = "rows"
      BY <1>0, <1>1 DEF CatchUpPage
    <2>2. DeliveryOK'
      BY <2>1 DEF DeliveryOK, Delivers
    <2>3. \A r \in page'[main] :
             /\ position < r
             /\ \A s \in log : position < s /\ s < r => s \in page'[main]
      <3>1. PICK cap \in ServerCaps : page'[main] = PageAfter(position, cap)
        BY <1>0, <1>1 DEF CatchUpPage
      <3> QED
        BY <3>1, PagesOfTheLog
    <2>4. PageOK'
      BY <2>1, <2>3 DEF PageOK, Paged, Base, Delivers
    <2> QED
      BY <2>2, <2>4
  <1>2. CASE CatchUpRow
    <2>1. PICK s \in page[main] :
             /\ Least(s, {r \in page[main] : r > position})
             /\ item' = [item EXCEPT ![main] = s]
             /\ page' = [page EXCEPT ![main] = {r \in @ : r > s}]
      BY <1>2 DEF CatchUpRow
    <2>2. pc[main] = "rows" /\ \A r \in page[main] : r > position
      BY <1>0, <1>2 DEF CatchUpRow, PageOK, Paged, Base
    <2>3. \A r \in page[main] : s <= r
      BY <2>1, <2>2 DEF Least
    <2>4. /\ pc' = [pc EXCEPT ![main] = "callback"]
          /\ page'[main] = {r \in page[main] : r > s}
          /\ \A u \in Threads : u # main => source'[u] = source[u] /\ page'[u] = page[u]
          /\ UNCHANGED <<log, position>>
      BY <1>0, <1>2, <2>1 DEF CatchUpRow
    <2> QED
      BY <1>0, <2>1, <2>2, <2>3, <2>4, RowTaken
  <1>3. CASE ~CatchUpPage /\ ~CatchUpRow
    <2>1. /\ UNCHANGED <<log, position, source>>
          /\ \A u \in Threads : u # main =>
                pc'[u] = pc[u] /\ page'[u] = page[u] /\ item'[u] = item[u]
          /\ pc'[main] \in {"query", "prelive", "negotiate", "returned", "raised",
                            "backoff", "wait", "batch", "enter", "closing", "none"}
      BY <1>0, <1>3
      DEF MainStep, CatchUpEnds, Connect, NegotiateFails, NegotiateStopped, GoLive,
          TakeBatch, NextOfBatch, RaisePending, WaitStopped, Close, BackoffEnds
    <2> QED
      BY <2>1, DeliveryKept DEF Delivers, Paged
  <1> QED
    BY <1>1, <1>2, <1>3

LEMMA StepDelivery ==
    ASSUME Types, PhaseOK, DeliveryOK, PageOK, Serial, [Next]_vars
    PROVE  DeliveryOK' /\ PageOK'
  <1>1. CASE UNCHANGED vars
    BY <1>1, DeliveryKept DEF vars, relayVars, sharedVars, threadVars
  <1>2. CASE Environment \/ Run
    <2>1. CASE \E label \in {"down", "query"} : Reset(label)
      <3>1. \A t \in Threads : pc'[t] \in {"down", "query", "idle"}
        BY <2>1 DEF Reset
      <3> QED
        BY <3>1 DEF DeliveryOK, PageOK, Paged, Delivers
    <2>2. CASE DropFrame \/ DuplicateFrame \/ Stop
      <3>1. UNCHANGED <<log, position, pc, source, item, page>>
        BY <2>2 DEF DropFrame, DuplicateFrame, Stop, sharedVars, threadVars, relayVars
      <3> QED
        BY <3>1, DeliveryKept
    <2>3. Crash \/ Run => \E label \in {"down", "query"} : Reset(label)
      BY DEF Crash, Run
    <2> QED
      BY <1>2, <2>1, <2>2, <2>3, AcceptDelivery DEF Environment
  <1>3. ASSUME NEW h \in Handlers, Receive(h)
        PROVE  DeliveryOK' /\ PageOK'
    <2>1. /\ UNCHANGED <<log, position, source, page>>
          /\ \/ UNCHANGED <<pc, item>>
             \/ \E s : /\ pc' = [pc EXCEPT ![h] = "enter"]
                       /\ item' = [item EXCEPT ![h] = s]
      BY <1>3 DEF Receive, Goto
    <2> QED
      BY <2>1, DeliveryKept DEF Types, Threads, Delivers, Paged
  <1>4. CASE RunAgain
    <2>1. \A u \in Threads : pc[u] \in {"idle", "returned", "raised"}
      BY <1>4 DEF RunAgain, PhaseOK, Ended, Threads
    <2>2. \A u \in Threads : pc'[u] \in {"idle", "returned", "raised", "query"}
      BY <1>4, <2>1 DEF RunAgain, Goto, Types
    <2> QED
      BY <2>2 DEF DeliveryOK, PageOK, Paged, Delivers
  <1> QED
    BY <1>1, <1>2, <1>3, <1>4, MainDelivery, ThreadDelivery DEF Next

-----------------------------------------------------------------------------
(* The cursor *)

\* What was settled stays so, when the log grows and when callbacks return.
LEMMA SettledStays ==
    ASSUME Types, NEW n \in Nat, Settled(n), handled \subseteq handled',
           \/ log' = log
           \/ \E s \in 1 .. MaxSeq : log' = log \cup {s} /\ \A r \in log : r < s
    PROVE  Settled(n)'
  <1>1. log \subseteq Nat
    BY WsAssumption DEF Types
  <1>2. CASE log' = log
    BY <1>2 DEF Settled
  <1>3. ASSUME NEW s \in 1 .. MaxSeq, log' = log \cup {s}, \A r \in log : r < s
        PROVE  Settled(n)'
    <2>1. ~(s <= n)
      BY <1>1, <1>3, WsAssumption DEF Settled
    <2> QED
      BY <1>3, <2>1 DEF Settled
  <1> QED
    BY <1>2, <1>3

\* The callback returned for the next entry after the position.
LEMMA DeliverySettles ==
    ASSUME Types, DeliveryOK, Settled(position), NEW t \in Threads, CallbackReturns(t)
    PROVE  Settled(position)'
  <1>1. /\ item[t] \in log /\ position < item[t]
        /\ \A s \in log : ~(position < s /\ s < item[t])
    BY DEF CallbackReturns, DeliveryOK, Types, Delivers
  <1>2. position' = item[t] /\ log' = log /\ handled' = handled \cup {item[t]}
    BY DEF CallbackReturns, relayVars
  <1>3. log \subseteq Nat /\ position \in Nat
    BY WsAssumption DEF Types
  <1>4. ASSUME NEW s \in log, s <= item[t]
        PROVE  s <= position \/ s = item[t]
    <2>1. s \in Nat /\ item[t] \in Nat /\ ~(position < s /\ s < item[t])
      BY <1>1, <1>3
    <2> QED
      BY <1>3, <1>4, <2>1
  <1> QED
    BY <1>1, <1>2, <1>4 DEF Settled

\* Steps that handle nothing and commit nothing.
LEMMA OtherSteps ==
    ASSUME [Next]_vars, ~(\E s \in 1 .. MaxSeq : Accept(s)), ~Run, ~RunAgain,
           ~(\E t \in Threads : CallbackReturns(t) \/ Commit(t))
    PROVE  UNCHANGED <<log, handled, cursor, position>>
  <1> USE DEF relayVars, sharedVars
  <1>1. CASE UNCHANGED vars
    BY <1>1 DEF vars
  <1>2. CASE Environment
    BY <1>2 DEF Environment, DropFrame, DuplicateFrame, Stop, Crash
  <1>3. CASE MainStep
    BY <1>3
    DEF MainStep, CatchUpPage, CatchUpRow, CatchUpEnds, Connect, NegotiateFails,
        NegotiateStopped, GoLive, TakeBatch, NextOfBatch, RaisePending, WaitStopped,
        Close, BackoffEnds
  <1>4. ASSUME NEW t \in Threads, ThreadStep(t)
        PROVE  UNCHANGED <<log, handled, cursor, position>>
    BY <1>4
    DEF ThreadStep, CallbackRaises, CommitRaises, FetchRaises, DropStale, Park, Overflow,
        DrainEnds, DrainNext, DrainGap, FillEnds, FillPage, FillEmpty, FillRow,
        FillRowsDone
  <1>5. ASSUME NEW h \in Handlers, Receive(h)
        PROVE  UNCHANGED <<log, handled, cursor, position>>
    BY <1>5 DEF Receive
  <1> QED
    BY <1>1, <1>2, <1>3, <1>4, <1>5 DEF Next

LEMMA StepSettled ==
    ASSUME Types, DeliveryOK, Settled(position), Settled(cursor), [Next]_vars
    PROVE  Settled(position)' /\ Settled(cursor)'
  <1>0. position \in Nat /\ cursor \in Nat
    BY DEF Types
  <1>1. ASSUME NEW s \in 1 .. MaxSeq, Accept(s)
        PROVE  Settled(position)' /\ Settled(cursor)'
    <2>1. /\ log' = log \cup {s} /\ \A r \in log : r < s
          /\ UNCHANGED <<position, cursor, handled>>
      BY <1>1 DEF Accept, sharedVars
    <2> QED
      BY <1>0, <2>1, SettledStays DEF Settled
  <1>2. CASE Run \/ RunAgain
    <2>1. position' = cursor /\ UNCHANGED <<log, cursor, handled>>
      BY <1>2 DEF Run, RunAgain, relayVars
    <2> QED
      BY <2>1 DEF Settled
  <1>3. ASSUME NEW t \in Threads, CallbackReturns(t)
        PROVE  Settled(position)' /\ Settled(cursor)'
    <2>1. UNCHANGED <<log, cursor>> /\ handled \subseteq handled'
      BY <1>3 DEF CallbackReturns, relayVars
    <2>2. Settled(cursor)'
      BY <2>1 DEF Settled
    <2> QED
      BY <1>3, <2>2, DeliverySettles
  <1>4. ASSUME NEW t \in Threads, Commit(t)
        PROVE  Settled(position)' /\ Settled(cursor)'
    <2>1. UNCHANGED <<log, position, handled>> /\ cursor' = position
      BY <1>4 DEF Commit, relayVars, sharedVars, DeliveryOK
    <2> QED
      BY <2>1 DEF Settled
  <1>5. CASE UNCHANGED <<log, handled, cursor, position>>
    BY <1>5 DEF Settled
  <1> QED
    BY <1>1, <1>2, <1>3, <1>4, <1>5, OtherSteps

-----------------------------------------------------------------------------
(* Theorems *)

LEMMA InitInv ==
    ASSUME Init
    PROVE  IInv
  <1>1. Types
    BY InitTypes
  <1>2. \A t \in Threads : pc[t] \in {"down", "idle"} /\ (t = main <=> pc[t] = "down")
    BY DEF Init
  <1>3. LockOK /\ PhaseOK
    BY <1>2, WsAssumption DEF Init, LockOK, PhaseOK, Holds, Delivers, Threads, main, Ended
  <1>4. DeliveryOK /\ PageOK
    BY <1>2 DEF DeliveryOK, PageOK, Paged, Delivers
  <1>5. Settled(position) /\ Settled(cursor)
    BY DEF Init, Settled
  <1> QED
    BY <1>1, <1>3, <1>4, <1>5 DEF IInv

LEMMA StepInv ==
    ASSUME IInv, CloseJoins, [Next]_vars
    PROVE  IInv'
  <1>1. Serial
    BY OneWorks DEF IInv, Serial
  <1> QED
    BY <1>1, StepTypes, StepLock, StepPhase, StepDelivery, StepSettled DEF IInv

LEMMA Invariance ==
    ASSUME CloseJoins
    PROVE  Spec => []IInv
  BY InitInv, StepInv, PTL DEF Spec

\* One thread at a time chooses, handles and commits signals, although
\* _catch_up takes no lock, for any number of handler threads.
THEOREM ThreadsTakeTurns ==
    ASSUME CloseJoins
    PROVE  Spec => []OneDeliverer
  <1>1. IInv => OneDeliverer
    BY Exclusion DEF IInv
  <1> QED
    BY <1>1, Invariance, PTL

\* Nothing stays parked once frames are handled live, whatever the client does.
THEOREM NothingStaysParked == Spec => []NoFrameSlips
  <1>1. Init => NoFrameSlips
    BY DEF Init, NoFrameSlips
  <1>2. NoFrameSlips /\ [Next]_vars => NoFrameSlips'
    <2> SUFFICES ASSUME NoFrameSlips, [Next]_vars
                 PROVE  NoFrameSlips'
      OBVIOUS
    <2> USE DEF NoFrameSlips, sharedVars
    <2>1. CASE UNCHANGED vars
      BY <2>1 DEF vars
    <2>2. CASE Environment \/ Run \/ RunAgain
      BY <2>2 DEF Environment, Accept, DropFrame, DuplicateFrame, Stop, Crash, Run, Reset,
                  RunAgain
    <2>3. CASE MainStep
      BY <2>3
      DEF MainStep, CatchUpPage, CatchUpRow, CatchUpEnds, Connect, NegotiateFails,
          NegotiateStopped, GoLive, TakeBatch, NextOfBatch, RaisePending, WaitStopped,
          Close, BackoffEnds
    <2>4. ASSUME NEW t \in Threads, ThreadStep(t)
          PROVE  NoFrameSlips'
      BY <2>4
      DEF ThreadStep, CallbackReturns, CallbackRaises, Commit, CommitRaises, FetchRaises,
          DropStale, Park, Overflow, DrainEnds, DrainNext, DrainGap, FillEnds, FillPage,
          FillEmpty, FillRow, FillRowsDone
    <2>5. ASSUME NEW h \in Handlers, Receive(h)
          PROVE  NoFrameSlips'
      BY <2>5 DEF Receive
    <2> QED
      BY <2>1, <2>2, <2>3, <2>4, <2>5 DEF Next
  <1> QED
    BY <1>1, <1>2, PTL DEF Spec

\* Each delivery takes the position to the next entry of the log, whichever
\* thread delivers, from a catch-up page, a gap fill or a live frame.
THEOREM DeliversInOrder ==
    ASSUME CloseJoins
    PROVE  Spec => InOrder
  <1>1. ASSUME IInv, [Next]_vars, NEW t \in Threads, pc[t] = "callback", pc'[t] = "commit"
        PROVE  position' > position /\ \A s \in log : ~(position < s /\ s < position')
    <2>1. position' = item[t]
      <3> USE DEF Types, Goto
      <3>1. CASE UNCHANGED vars
        BY <1>1, <3>1 DEF vars, threadVars
      <3>2. Environment \/ Run \/ RunAgain => FALSE
        BY <1>1
        DEF IInv, Environment, Accept, DropFrame, DuplicateFrame, Stop, Crash, Run, Reset,
            RunAgain, threadVars
      <3>3. MainStep => FALSE
        BY <1>1
        DEF IInv, MainStep, CatchUpPage, CatchUpRow, CatchUpEnds, Connect,
            NegotiateFails, NegotiateStopped, GoLive, TakeBatch, NextOfBatch,
            RaisePending, WaitStopped, Close, BackoffEnds
      <3>4. ASSUME NEW u \in Threads, ThreadStep(u)
            PROVE  position' = item[t]
        <4>1. u = t
          BY <1>1, <3>4, ThreadMoves DEF IInv
        <4> QED
          BY <1>1, <3>4, <4>1
          DEF IInv, ThreadStep, CallbackReturns, CallbackRaises, Commit, CommitRaises,
              FetchRaises, DropStale, Park, Overflow, DrainEnds, DrainNext, DrainGap,
              FillEnds, FillPage, FillEmpty, FillRow, FillRowsDone, Fail
      <3>5. ASSUME NEW h \in Handlers, Receive(h)
            PROVE  FALSE
        BY <1>1, <3>5 DEF IInv, Receive
      <3> QED
        BY <1>1, <3>1, <3>2, <3>3, <3>4, <3>5 DEF Next
    <2>2. position < item[t] /\ \A s \in log : ~(position < s /\ s < item[t])
      BY <1>1 DEF IInv, DeliveryOK
    <2> QED
      BY <2>1, <2>2
  <1>2. IInv /\ [Next]_vars =>
           [\A t \in Threads : (pc[t] = "callback" /\ pc'[t] = "commit") =>
               /\ position' > position
               /\ \A s \in log : ~(position < s /\ s < position')]_vars
    BY <1>1
  <1> QED
    BY <1>2, Invariance, PTL DEF Spec, InOrder

\* A step of the websocket subscriber is a step of the promise, or none.
LEMMA NextImplements ==
    ASSUME IInv, [Next]_vars
    PROVE  [Promise!Next]_(Promise!dvars)
  <1> USE DEF Promise!dvars, Promise!Next
  <1>1. ASSUME NEW s \in 1 .. MaxSeq, Accept(s)
        PROVE  Promise!Publish
    BY <1>1 DEF Accept, Promise!Publish
  <1>2. ASSUME NEW t \in Threads, CallbackReturns(t)
        PROVE  Promise!Handle
    <2>1. /\ item[t] \in log /\ position < item[t]
          /\ \A s \in log : ~(position < s /\ s < item[t])
      BY <1>2 DEF CallbackReturns, IInv, DeliveryOK, Types, Delivers
    <2>2. log \subseteq Nat /\ position \in Nat
      BY WsAssumption DEF IInv, Types
    <2>3. ASSUME NEW s \in log, s <= item[t] - 1
          PROVE  s \in handled
      <3>1. s \in Nat /\ item[t] \in Nat /\ ~(position < s /\ s < item[t])
        BY <2>1, <2>2
      <3>2. s <= position
        BY <2>2, <2>3, <3>1
      <3> QED
        BY <3>2 DEF IInv, Settled
    <2> QED
      BY <1>2, <2>1, <2>3
      DEF CallbackReturns, relayVars, Promise!Handle, Promise!Accounted
  <1>3. ASSUME NEW t \in Threads, Commit(t)
        PROVE  Promise!Commit
    <2>1. cursor' = position /\ UNCHANGED <<log, handled>>
      BY <1>3 DEF Commit, relayVars, IInv, DeliveryOK
    <2> QED
      BY <2>1 DEF IInv, Settled, Promise!Commit, Promise!Accounted
  <1>4. CASE Run \/ RunAgain
    BY <1>4 DEF Run, RunAgain, relayVars
  <1>5. CASE UNCHANGED <<log, handled, cursor, position>>
    BY <1>5
  <1> QED
    BY <1>1, <1>2, <1>3, <1>4, <1>5, OtherSteps

\* The websocket subscriber implements the abstract promise of ordered delivery:
\* its cursor never passes a signal that was not handled.
THEOREM Refinement ==
    ASSUME CloseJoins
    PROVE  Spec => ImplementsPromise
  <1>1. Init => Promise!Init
    BY DEF Init, Promise!Init
  <1> QED
    BY <1>1, NextImplements, Invariance, PTL DEF Spec, ImplementsPromise, Promise!Spec

=============================================================================
