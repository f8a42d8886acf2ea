--------------------------- MODULE StateStoreProofs ---------------------------
(***************************************************************************)
(* Proofs about StateStore for every value of its constants: without a     *)
(* replay from the beginning of the log, rows are committed at most once   *)
(* per signal and the ledger is exact.                                     *)
(***************************************************************************)
EXTENDS StateStore, TLAPS

Places == {"off", "next", "wait", "duplicate", "handler", "marker", "cursor"}

Types ==
    /\ tail \in 0 .. MaxSeq
    /\ cur \in 0 .. tail /\ position \in 0 .. tail /\ floor \in 0 .. tail
    /\ markers \subseteq 1 .. tail
    /\ rows \in [Signals -> Nat] /\ \A s \in Signals : rows[s] > 0 => s <= tail
    /\ lock \in Actors \cup {"free"} /\ inTx \in BOOLEAN
    /\ pc \in [Actors -> Places]
    /\ sig \in [Actors -> 0 .. tail]

Live == (1 .. tail) \ expired

\* A signal the subscriber may leave behind.
Settled(s) == rows[s] > 0 \/ s <= floor

\* Whoever is inside a delivery holds the lock, with the transaction unless the
\* signal is a duplicate, and the other way round.
Inside(a) == pc[a] \in {"handler", "marker"}
LockOK ==
    /\ \A a \in Actors : Inside(a) => lock = a /\ inTx
    /\ \A a \in Actors : pc[a] = "duplicate" => lock = a /\ ~inTx
    /\ \A a \in Actors : lock = a => Inside(a) \/ pc[a] = "duplicate"
    /\ TransactionsEnd

\* What is being delivered can still be delivered, and nobody has processed the
\* signal of a handler that runs; somebody has processed a duplicate.
DeliveryOK ==
    \A a \in Actors :
        /\ pc[a] \in {"wait", "duplicate", "handler", "marker"} => sig[a] \in Live
        /\ Inside(a) => ~IsProcessed(sig[a])
        /\ pc[a] = "duplicate" => IsProcessed(sig[a])

\* The subscriber has settled everything up to its position, which is not behind
\* its cursor, and takes one live signal after the other.
SubOK ==
    pc[sub] # "off" =>
        /\ cur <= position
        /\ \A s \in Live : s <= position => Settled(s)
        /\ pc[sub] \in {"wait", "duplicate", "handler", "marker"} =>
              /\ position < sig[sub]
              /\ \A s \in Live : position < s => sig[sub] <= s

\* The inductive invariant.
IInv == Types /\ LockOK /\ DeliveryOK /\ SubOK /\ LedgerExact /\ ExactlyOnce

-----------------------------------------------------------------------------
LEMMA StoreInitial == Init => IInv
  <1> SUFFICES ASSUME Init PROVE IInv
    OBVIOUS
  <1> USE StoreAssumption DEF Init, Actors, sub, Signals
  <1>1. Types
    <2>1. rows \in [Signals -> Nat] /\ \A s \in Signals : rows[s] = 0
      OBVIOUS
    <2>2. pc \in [Actors -> Places] /\ sig \in [Actors -> 0 .. tail]
      BY DEF Places
    <2>3. tail \in 0 .. MaxSeq /\ cur \in 0 .. tail /\ position \in 0 .. tail /\ floor \in 0 .. tail
      OBVIOUS
    <2>4. markers \subseteq 1 .. tail /\ lock \in Actors \cup {"free"}
      OBVIOUS
    <2>5. inTx \in BOOLEAN
      OBVIOUS
    <2> QED
      BY <2>1, <2>2, <2>3, <2>4, <2>5 DEF Types
  <1>2. LockOK
    BY DEF LockOK, Inside, TransactionsEnd
  <1>3. DeliveryOK /\ SubOK
    BY DEF DeliveryOK, SubOK, Inside
  <1>4. LedgerExact /\ ExactlyOnce
    BY DEF LedgerExact, ExactlyOnce
  <1> QED
    BY <1>1, <1>2, <1>3, <1>4 DEF IInv

\* The relay assigns the next sequence.
LEMMA AcceptStep ==
    ASSUME IInv, Accept
    PROVE  IInv'
  <1> USE StoreAssumption DEF IInv, Types, Live, Inside, Actors, sub, Signals,
          Places, Accept, db, history
  <1>1. Types'
    OBVIOUS
  <1>2. LockOK'
    BY DEF LockOK, TransactionsEnd
  <1>3. DeliveryOK'
    BY DEF LockOK, DeliveryOK, IsProcessed
  <1>4. SubOK'
    BY DEF LockOK, DeliveryOK, SubOK, IsProcessed, LedgerExact, Settled
  <1>5. LedgerExact'
    BY DEF LockOK, DeliveryOK, SubOK, IsProcessed, LedgerExact, Settled
  <1>6. ExactlyOnce'
    BY DEF DeliveryOK, LedgerExact, ExactlyOnce
  <1> QED
    BY <1>1, <1>2, <1>3, <1>4, <1>5, <1>6

\* A signal nobody is delivering leaves the window.
LEMMA ExpireStep ==
    ASSUME IInv, Expire
    PROVE  IInv'
  <1> USE StoreAssumption DEF IInv, Types, Live, Inside, Actors, sub, Signals,
          Places, Expire, db, history
  <1>1. Types'
    OBVIOUS
  <1>2. LockOK'
    BY DEF LockOK, TransactionsEnd
  <1>3. DeliveryOK'
    BY DEF LockOK, DeliveryOK, IsProcessed
  <1>4. SubOK'
    BY DEF LockOK, DeliveryOK, SubOK, IsProcessed, LedgerExact, Settled
  <1>5. LedgerExact'
    BY DEF LockOK, DeliveryOK, SubOK, IsProcessed, LedgerExact, Settled
  <1>6. ExactlyOnce'
    BY DEF DeliveryOK, LedgerExact, ExactlyOnce
  <1> QED
    BY <1>1, <1>2, <1>3, <1>4, <1>5, <1>6

\* Everybody is off, and nobody holds anything.
LEMMA CrashStep ==
    ASSUME IInv, Crash
    PROVE  IInv'
  <1> USE StoreAssumption DEF IInv, Types, Live, Inside, Actors, sub, Signals,
          Places, Crash, Fault, db, relayVars
  <1>1. Types'
    OBVIOUS
  <1>2. LockOK'
    BY DEF LockOK, TransactionsEnd
  <1>3. DeliveryOK'
    BY DEF LockOK, DeliveryOK, IsProcessed
  <1>4. SubOK'
    BY DEF LockOK, DeliveryOK, SubOK, IsProcessed, LedgerExact, Settled
  <1>5. LedgerExact'
    BY DEF LockOK, DeliveryOK, SubOK, IsProcessed, LedgerExact, Settled
  <1>6. ExactlyOnce'
    BY DEF DeliveryOK, LedgerExact, ExactlyOnce
  <1> QED
    BY <1>1, <1>2, <1>3, <1>4, <1>5, <1>6

\* close() waits for the lock.
LEMMA CloseStep ==
    ASSUME IInv, Close
    PROVE  IInv'
  <1> USE StoreAssumption DEF IInv, Types, Live, Inside, Actors, sub, Signals,
          Places, Close, Fault, db, relayVars
  <1>1. Types'
    OBVIOUS
  <1>2. LockOK'
    BY DEF LockOK, TransactionsEnd
  <1>3. DeliveryOK'
    BY DEF LockOK, DeliveryOK, IsProcessed
  <1>4. SubOK'
    BY DEF LockOK, DeliveryOK, SubOK, IsProcessed, LedgerExact, Settled
  <1>5. LedgerExact'
    BY DEF LockOK, DeliveryOK, SubOK, IsProcessed, LedgerExact, Settled
  <1>6. ExactlyOnce'
    BY DEF DeliveryOK, LedgerExact, ExactlyOnce
  <1> QED
    BY <1>1, <1>2, <1>3, <1>4, <1>5, <1>6

\* Opening deletes only markers of expired signals.
LEMMA OpenStep ==
    ASSUME IInv, Open
    PROVE  IInv'
  <1> USE StoreAssumption DEF IInv, Types, Live, Inside, Actors, sub, Signals,
          Places, Open, DeleteOld, relayVars, history
  <1>1. Types'
    OBVIOUS
  <1>2. LockOK'
    BY DEF LockOK, TransactionsEnd
  <1>3. DeliveryOK'
    BY DEF LockOK, DeliveryOK, IsProcessed
  <1>4. SubOK'
    BY DEF LockOK, DeliveryOK, SubOK, IsProcessed, LedgerExact, Settled
  <1>5. LedgerExact'
    BY DEF LockOK, DeliveryOK, SubOK, IsProcessed, LedgerExact, Settled
  <1>6. ExactlyOnce'
    BY DEF DeliveryOK, LedgerExact, ExactlyOnce
  <1> QED
    BY <1>1, <1>2, <1>3, <1>4, <1>5, <1>6

\* Pruning deletes only markers of expired signals.
LEMMA PruneStep ==
    ASSUME IInv, Prune
    PROVE  IInv'
  <1> USE StoreAssumption DEF IInv, Types, Live, Inside, Actors, sub, Signals,
          Places, Prune, DeleteOld, relayVars, history
  <1>1. Types'
    OBVIOUS
  <1>2. LockOK'
    BY DEF LockOK, TransactionsEnd
  <1>3. DeliveryOK'
    BY DEF LockOK, DeliveryOK, IsProcessed
  <1>4. SubOK'
    BY DEF LockOK, DeliveryOK, SubOK, IsProcessed, LedgerExact, Settled
  <1>5. LedgerExact'
    BY DEF LockOK, DeliveryOK, SubOK, IsProcessed, LedgerExact, Settled
  <1>6. ExactlyOnce'
    BY DEF DeliveryOK, LedgerExact, ExactlyOnce
  <1> QED
    BY <1>1, <1>2, <1>3, <1>4, <1>5, <1>6

\* A run starts at the cursor, or skips to the end of the log.
LEMMA RunStep ==
    ASSUME IInv, NEW mode \in StartModes, "earliest" \notin StartModes, Run(mode)
    PROVE  IInv'
  <1>0. /\ UNCHANGED <<relayVars, rows, lock, inTx, sig, leftOpen>>
        /\ pc[sub] = "off" /\ pc' = [pc EXCEPT ![sub] = "next"]
        /\ \/ position' = cur /\ UNCHANGED <<cur, markers, floor>>
           \/ position' = 0 /\ tail = 0 /\ UNCHANGED <<cur, markers, floor>>
           \/ /\ position' = tail /\ cur' = tail /\ floor' = tail
              /\ lock = "free" /\ markers' = {s \in markers : s > tail}
    BY StoreAssumption DEF Run, CommitTo, Goto, IInv, Types
  <1> USE StoreAssumption DEF IInv, Actors, sub, Places, relayVars
  <1>1. Types'
    <2>1. /\ UNCHANGED <<tail, rows, lock, inTx, sig>>
          /\ pc' \in [Actors -> Places]
      BY <1>0 DEF Types
    <2>2. position' \in 0 .. tail
      BY <1>0 DEF Types
    <2>3. cur' \in 0 .. tail /\ floor' \in 0 .. tail
      BY <1>0 DEF Types
    <2>4. markers' \subseteq 1 .. tail
      BY <1>0 DEF Types
    <2> QED
      BY <2>1, <2>2, <2>3, <2>4 DEF Types
  <1>2. LockOK'
    BY <1>0 DEF Types, LockOK, Inside, TransactionsEnd
  <1>3. DeliveryOK'
    BY <1>0 DEF Types, LockOK, DeliveryOK, IsProcessed, Live, Inside
  <1>4. SubOK'
    BY <1>0 DEF Types, SubOK, IsProcessed, LedgerExact, Settled, Live
  <1>5. LedgerExact'
    BY <1>0 DEF Types, IsProcessed, LedgerExact
  <1>6. ExactlyOnce'
    BY <1>0 DEF ExactlyOnce
  <1> QED
    BY <1>1, <1>2, <1>3, <1>4, <1>5, <1>6

\* A run that is stopped between two signals leaves nothing open.
LEMMA StopRunStep ==
    ASSUME IInv, StopRun
    PROVE  IInv'
  <1> USE StoreAssumption DEF IInv, Types, Live, Inside, Actors, sub, Signals,
          Places, StopRun, Goto, Fault, db, relayVars, history
  <1>1. Types'
    OBVIOUS
  <1>2. LockOK'
    BY DEF LockOK, TransactionsEnd
  <1>3. DeliveryOK'
    BY DEF LockOK, DeliveryOK, IsProcessed
  <1>4. SubOK'
    BY DEF LockOK, DeliveryOK, SubOK, IsProcessed, LedgerExact, Settled
  <1>5. LedgerExact'
    BY DEF LockOK, DeliveryOK, SubOK, IsProcessed, LedgerExact, Settled
  <1>6. ExactlyOnce'
    BY DEF DeliveryOK, LedgerExact, ExactlyOnce
  <1> QED
    BY <1>1, <1>2, <1>3, <1>4, <1>5, <1>6

\* The next live signal is the first beyond the position.
LEMMA NextSignalStep ==
    ASSUME IInv, NextSignal
    PROVE  IInv'
  <1> USE StoreAssumption DEF IInv, Types, Live, Inside, Actors, sub, Signals,
          Places, NextSignal, Goto, db, relayVars, history
  <1>1. Types'
    OBVIOUS
  <1>2. LockOK'
    BY DEF LockOK, TransactionsEnd
  <1>3. DeliveryOK'
    BY DEF LockOK, DeliveryOK, IsProcessed
  <1>4. SubOK'
    BY DEF LockOK, DeliveryOK, SubOK, IsProcessed, LedgerExact, Settled
  <1>5. LedgerExact'
    BY DEF LockOK, DeliveryOK, SubOK, IsProcessed, LedgerExact, Settled
  <1>6. ExactlyOnce'
    BY DEF DeliveryOK, LedgerExact, ExactlyOnce
  <1> QED
    BY <1>1, <1>2, <1>3, <1>4, <1>5, <1>6

\* The cursor only grows while a run lasts.
LEMMA CommitCursorStep ==
    ASSUME IInv, CommitCursor
    PROVE  IInv'
  <1> USE StoreAssumption DEF IInv, Types, Live, Inside, Actors, sub, Signals,
          Places, CommitCursor, Goto, CommitTo, relayVars, history
  <1>1. Types'
    OBVIOUS
  <1>2. LockOK'
    BY DEF LockOK, TransactionsEnd
  <1>3. DeliveryOK'
    BY DEF LockOK, DeliveryOK, IsProcessed
  <1>4. SubOK'
    BY DEF LockOK, DeliveryOK, SubOK, IsProcessed, LedgerExact, Settled
  <1>5. LedgerExact'
    BY DEF LockOK, DeliveryOK, SubOK, IsProcessed, LedgerExact, Settled
  <1>6. ExactlyOnce'
    BY DEF DeliveryOK, LedgerExact, ExactlyOnce
  <1> QED
    BY <1>1, <1>2, <1>3, <1>4, <1>5, <1>6

\* The old cursor stays.
LEMMA CommitCursorRaisesStep ==
    ASSUME IInv, CommitCursorRaises
    PROVE  IInv'
  <1> USE StoreAssumption DEF IInv, Types, Live, Inside, Actors, sub, Signals,
          Places, CommitCursorRaises, Goto, Fault, db, relayVars, history
  <1>1. Types'
    OBVIOUS
  <1>2. LockOK'
    BY DEF LockOK, TransactionsEnd
  <1>3. DeliveryOK'
    BY DEF LockOK, DeliveryOK, IsProcessed
  <1>4. SubOK'
    BY DEF LockOK, DeliveryOK, SubOK, IsProcessed, LedgerExact, Settled
  <1>5. LedgerExact'
    BY DEF LockOK, DeliveryOK, SubOK, IsProcessed, LedgerExact, Settled
  <1>6. ExactlyOnce'
    BY DEF DeliveryOK, LedgerExact, ExactlyOnce
  <1> QED
    BY <1>1, <1>2, <1>3, <1>4, <1>5, <1>6

\* Any live signal may be delivered by a webhook.
LEMMA WebhookStep ==
    ASSUME IInv, NEW a \in Workers, Webhook(a)
    PROVE  IInv'
  <1> USE StoreAssumption DEF IInv, Types, Live, Inside, Actors, sub, Signals,
          Places, Webhook, Goto, db, relayVars, history
  <1>1. Types'
    OBVIOUS
  <1>2. LockOK'
    BY DEF LockOK, TransactionsEnd
  <1>3. DeliveryOK'
    BY DEF LockOK, DeliveryOK, IsProcessed
  <1>4. SubOK'
    BY DEF LockOK, DeliveryOK, SubOK, IsProcessed, LedgerExact, Settled
  <1>5. LedgerExact'
    BY DEF LockOK, DeliveryOK, SubOK, IsProcessed, LedgerExact, Settled
  <1>6. ExactlyOnce'
    BY DEF DeliveryOK, LedgerExact, ExactlyOnce
  <1> QED
    BY <1>1, <1>2, <1>3, <1>4, <1>5, <1>6

\* A duplicate is taken under the lock, in no transaction.
LEMMA BeginDuplicateStep ==
    ASSUME IInv, NEW a \in Actors, BeginDuplicate(a)
    PROVE  IInv'
  <1> USE StoreAssumption DEF IInv, Types, Live, Inside, Actors, sub, Signals,
          Places, BeginDuplicate, Goto, db, relayVars, history
  <1>1. Types'
    OBVIOUS
  <1>2. LockOK'
    BY DEF LockOK, TransactionsEnd
  <1>3. DeliveryOK'
    BY DEF LockOK, DeliveryOK, IsProcessed
  <1>4. SubOK'
    BY DEF LockOK, DeliveryOK, SubOK, IsProcessed, LedgerExact, Settled
  <1>5. LedgerExact'
    BY DEF LockOK, DeliveryOK, SubOK, IsProcessed, LedgerExact, Settled
  <1>6. ExactlyOnce'
    BY DEF DeliveryOK, LedgerExact, ExactlyOnce
  <1> QED
    BY <1>1, <1>2, <1>3, <1>4, <1>5, <1>6

\* A duplicate is settled: the ledger says so, and the ledger is exact.
LEMMA DuplicateStep ==
    ASSUME IInv, NEW a \in Actors, Duplicate(a)
    PROVE  IInv'
  <1> USE StoreAssumption DEF IInv, Types, Live, Inside, Actors, sub, Signals,
          Places, Duplicate, Goto, Done, db, relayVars, history
  <1>1. Types'
    OBVIOUS
  <1>2. LockOK'
    BY DEF LockOK, TransactionsEnd
  <1>3. DeliveryOK'
    BY DEF LockOK, DeliveryOK, IsProcessed
  <1>4. SubOK'
    BY DEF LockOK, DeliveryOK, SubOK, IsProcessed, LedgerExact, Settled
  <1>5. LedgerExact'
    BY DEF LockOK, DeliveryOK, SubOK, IsProcessed, LedgerExact, Settled
  <1>6. ExactlyOnce'
    BY DEF DeliveryOK, LedgerExact, ExactlyOnce
  <1> QED
    BY <1>1, <1>2, <1>3, <1>4, <1>5, <1>6

\* A duplicate whose hook raises stays with the subscriber.
LEMMA DuplicateRaisesStep ==
    ASSUME IInv, DuplicateRaises
    PROVE  IInv'
  <1> USE StoreAssumption DEF IInv, Types, Live, Inside, Actors, sub, Signals,
          Places, DuplicateRaises, Goto, Fault, db, relayVars, history
  <1>1. Types'
    OBVIOUS
  <1>2. LockOK'
    BY DEF LockOK, TransactionsEnd
  <1>3. DeliveryOK'
    BY DEF LockOK, DeliveryOK, IsProcessed
  <1>4. SubOK'
    BY DEF LockOK, DeliveryOK, SubOK, IsProcessed, LedgerExact, Settled
  <1>5. LedgerExact'
    BY DEF LockOK, DeliveryOK, SubOK, IsProcessed, LedgerExact, Settled
  <1>6. ExactlyOnce'
    BY DEF DeliveryOK, LedgerExact, ExactlyOnce
  <1> QED
    BY <1>1, <1>2, <1>3, <1>4, <1>5, <1>6

\* A handler begins for a signal that is not processed.
LEMMA BeginHandlerStep ==
    ASSUME IInv, NEW a \in Actors, BeginHandler(a)
    PROVE  IInv'
  <1> USE StoreAssumption DEF IInv, Types, Live, Inside, Actors, sub, Signals,
          Places, BeginHandler, Goto, db, relayVars, history
  <1>1. Types'
    OBVIOUS
  <1>2. LockOK'
    BY DEF LockOK, TransactionsEnd
  <1>3. DeliveryOK'
    BY DEF LockOK, DeliveryOK, IsProcessed
  <1>4. SubOK'
    BY DEF LockOK, DeliveryOK, SubOK, IsProcessed, LedgerExact, Settled
  <1>5. LedgerExact'
    BY DEF LockOK, DeliveryOK, SubOK, IsProcessed, LedgerExact, Settled
  <1>6. ExactlyOnce'
    BY DEF DeliveryOK, LedgerExact, ExactlyOnce
  <1> QED
    BY <1>1, <1>2, <1>3, <1>4, <1>5, <1>6

\* A delivery that cannot begin changes nothing.
LEMMA BeginRaisesStep ==
    ASSUME IInv, NEW a \in Actors, BeginRaises(a)
    PROVE  IInv'
  <1> USE StoreAssumption DEF IInv, Types, Live, Inside, Actors, sub, Signals,
          Places, BeginRaises, Goto, db, relayVars, history
  <1>1. Types'
    OBVIOUS
  <1>2. LockOK'
    BY DEF LockOK, TransactionsEnd
  <1>3. DeliveryOK'
    BY DEF LockOK, DeliveryOK, IsProcessed
  <1>4. SubOK'
    BY DEF LockOK, DeliveryOK, SubOK, IsProcessed, LedgerExact, Settled
  <1>5. LedgerExact'
    BY DEF LockOK, DeliveryOK, SubOK, IsProcessed, LedgerExact, Settled
  <1>6. ExactlyOnce'
    BY DEF DeliveryOK, LedgerExact, ExactlyOnce
  <1> QED
    BY <1>1, <1>2, <1>3, <1>4, <1>5, <1>6

\* The transaction stays open for the marker.
LEMMA HandlerReturnsStep ==
    ASSUME IInv, NEW a \in Actors, HandlerReturns(a)
    PROVE  IInv'
  <1> USE StoreAssumption DEF IInv, Types, Live, Inside, Actors, sub, Signals,
          Places, HandlerReturns, Goto, db, relayVars, history
  <1>1. Types'
    OBVIOUS
  <1>2. LockOK'
    BY DEF LockOK, TransactionsEnd
  <1>3. DeliveryOK'
    BY DEF LockOK, DeliveryOK, IsProcessed
  <1>4. SubOK'
    BY DEF LockOK, DeliveryOK, SubOK, IsProcessed, LedgerExact, Settled
  <1>5. LedgerExact'
    BY DEF LockOK, DeliveryOK, SubOK, IsProcessed, LedgerExact, Settled
  <1>6. ExactlyOnce'
    BY DEF DeliveryOK, LedgerExact, ExactlyOnce
  <1> QED
    BY <1>1, <1>2, <1>3, <1>4, <1>5, <1>6

\* The transaction ends, and nothing was written.
LEMMA HandlerRaisesStep ==
    ASSUME IInv, NEW a \in Actors, HandlerRaises(a)
    PROVE  IInv'
  <1> USE StoreAssumption DEF IInv, Types, Live, Inside, Actors, sub, Signals,
          Places, HandlerRaises, Goto, Fault, db, relayVars, history
  <1>1. Types'
    OBVIOUS
  <1>2. LockOK'
    BY DEF LockOK, TransactionsEnd
  <1>3. DeliveryOK'
    BY DEF LockOK, DeliveryOK, IsProcessed
  <1>4. SubOK'
    BY DEF LockOK, DeliveryOK, SubOK, IsProcessed, LedgerExact, Settled
  <1>5. LedgerExact'
    BY DEF LockOK, DeliveryOK, SubOK, IsProcessed, LedgerExact, Settled
  <1>6. ExactlyOnce'
    BY DEF DeliveryOK, LedgerExact, ExactlyOnce
  <1> QED
    BY <1>1, <1>2, <1>3, <1>4, <1>5, <1>6

\* The rows were committed for the first time, since the signal was not processed.
LEMMA CommitMarkerStep ==
    ASSUME IInv, NEW a \in Actors, CommitMarker(a)
    PROVE  IInv'
  <1> USE StoreAssumption DEF IInv, Types, Live, Inside, Actors, sub, Signals,
          Places, CommitMarker, Goto, Done, relayVars, history
  <1>1. Types'
    <2>1. sig[a] \in 1 .. tail /\ rows' = [rows EXCEPT ![sig[a]] = @ + 1]
      BY DEF DeliveryOK
    <2>2. rows' \in [Signals -> Nat] /\ \A s \in Signals : rows'[s] > 0 => s <= tail
      BY <2>1
    <2> QED
      BY <2>1, <2>2
  <1>2. LockOK'
    BY DEF LockOK, TransactionsEnd
  <1>3. DeliveryOK'
    BY DEF LockOK, DeliveryOK, IsProcessed
  <1>4. SubOK'
    BY DEF LockOK, DeliveryOK, SubOK, IsProcessed, LedgerExact, Settled
  <1>5. LedgerExact'
    BY DEF LockOK, DeliveryOK, SubOK, IsProcessed, LedgerExact, Settled
  <1>6. ExactlyOnce'
    BY DEF DeliveryOK, LedgerExact, ExactlyOnce
  <1> QED
    BY <1>1, <1>2, <1>3, <1>4, <1>5, <1>6

\* The transaction ends, or process() leaves it open.
LEMMA MarkerRaisesStep ==
    ASSUME IInv, NEW a \in Actors, MarkerRaises(a)
    PROVE  IInv'
  <1> USE StoreAssumption DEF IInv, Types, Live, Inside, Actors, sub, Signals,
          Places, MarkerRaises, Goto, Fault, db, relayVars
  <1>1. Types'
    OBVIOUS
  <1>2. LockOK'
    BY DEF LockOK, TransactionsEnd
  <1>3. DeliveryOK'
    BY DEF LockOK, DeliveryOK, IsProcessed
  <1>4. SubOK'
    BY DEF LockOK, DeliveryOK, SubOK, IsProcessed, LedgerExact, Settled
  <1>5. LedgerExact'
    BY DEF LockOK, DeliveryOK, SubOK, IsProcessed, LedgerExact, Settled
  <1>6. ExactlyOnce'
    BY DEF DeliveryOK, LedgerExact, ExactlyOnce
  <1> QED
    BY <1>1, <1>2, <1>3, <1>4, <1>5, <1>6

LEMMA StoreStuttering == ASSUME IInv, UNCHANGED vars PROVE IInv'
  BY DEF IInv, vars, relayVars, db, history, Types, LockOK, TransactionsEnd, DeliveryOK,
         SubOK, LedgerExact, ExactlyOnce, Inside, Live, Settled, IsProcessed

LEMMA StoreInvariance == ASSUME "earliest" \notin StartModes PROVE Spec => []IInv
  <1>1. IInv /\ [Next]_vars => IInv'
    <2> SUFFICES ASSUME IInv, [Next]_vars PROVE IInv'
      OBVIOUS
    <2>1. CASE Accept \/ Expire \/ Crash \/ Close \/ Open \/ Prune
      BY <2>1, AcceptStep, ExpireStep, CrashStep, CloseStep, OpenStep, PruneStep
    <2>2. CASE SubscriberStep
      BY <2>2, RunStep, StopRunStep, NextSignalStep, DuplicateRaisesStep, CommitCursorStep,
         CommitCursorRaisesStep DEF SubscriberStep
    <2>3. CASE \E w \in Workers : Webhook(w)
      BY <2>3, WebhookStep
    <2>4. ASSUME NEW a \in Actors, ActorStep(a) PROVE IInv'
      BY <2>4, BeginDuplicateStep, DuplicateStep, BeginHandlerStep, BeginRaisesStep,
         HandlerReturnsStep, HandlerRaisesStep, CommitMarkerStep, MarkerRaisesStep DEF ActorStep
    <2>5. CASE UNCHANGED vars
      BY <2>5, StoreStuttering
    <2> QED
      BY <2>1, <2>2, <2>3, <2>4, <2>5 DEF Next
  <1> QED
    BY <1>1, StoreInitial, PTL DEF Spec

-----------------------------------------------------------------------------
(* The theorems *)

\* Without a replay from the beginning of the log, the rows a handler writes are
\* committed at most once per signal, for any number of signals and workers,
\* over both channels, crashes, stops, closed stores and failing writes.
THEOREM CommittedOnce == ASSUME "earliest" \notin StartModes PROVE Spec => []ExactlyOnce
  <1>1. IInv => ExactlyOnce
    BY DEF IInv
  <1> QED
    BY <1>1, StoreInvariance, PTL

\* ... the ledger neither forgets a signal nor claims one nobody handled, ...
THEOREM LedgerIsExact == ASSUME "earliest" \notin StartModes PROVE Spec => []LedgerExact
  <1>1. IInv => LedgerExact
    BY DEF IInv
  <1> QED
    BY <1>1, StoreInvariance, PTL

\* ... and no transaction outlives its delivery, unless process() failed to write
\* its marker.
THEOREM NoTransactionStays == ASSUME "earliest" \notin StartModes PROVE Spec => []TransactionsEnd
  <1>1. IInv => TransactionsEnd
    BY DEF IInv, LockOK
  <1> QED
    BY <1>1, StoreInvariance, PTL

=============================================================================
