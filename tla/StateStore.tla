----------------------------- MODULE StateStore ------------------------------
(***************************************************************************)
(* SqliteStateStore (state_sqlite.py): one SQLite file holding the         *)
(* subscriber's cursor and a ledger of processed signals, shared by a      *)
(* subscriber whose callback is wrapped by exactly_once_tx() and by        *)
(* webhook workers that use process().  One connection, one re-entrant     *)
(* lock; a delivery holds both from BEGIN to COMMIT.                       *)
(*                                                                         *)
(* The relay's log is 1 .. tail (holes are Subscriber's concern), and a    *)
(* signal is named by its sequence.  Webhook deliveries come in any order  *)
(* and any number of times; once a signal is out of the relay's retention  *)
(* window ("expired") it is no longer delivered by any channel.            *)
(*                                                                         *)
(* A definition named X_Something is X with a plausible bug, kept to show  *)
(* which property would notice it.                                         *)
(***************************************************************************)
EXTENDS Integers, FiniteSets

CONSTANTS
    MaxSeq,       \* bound on the relay's sequence counter
    Workers,      \* webhook worker threads
    StartModes,   \* start_from values the operator uses
    Faults,       \* kinds of fault that may happen
    MaxFaults     \* bound on the number of faults

sub == "subscriber"
Actors == {sub} \cup Workers
Signals == 1 .. MaxSeq

ASSUME StoreAssumption ==
    /\ MaxSeq \in Nat /\ MaxFaults \in Nat
    /\ sub \notin Workers /\ "free" \notin Workers
    /\ StartModes \subseteq {"cursor", "earliest", "latest"}
    /\ Faults \subseteq {"crash", "stop", "handler", "disk", "close"}

VARIABLES
    tail,      \* last sequence the relay assigned
    expired,   \* signals out of the relay's retention window
    cur,       \* the strategy's row of table cursor, 0 when there is none
    markers,   \* table processed
    rows,      \* rows the handler committed through its transaction cursor
    up,        \* the process is alive and the store open
    lock,      \* who holds the store's lock, or "free"
    inTx,      \* the connection has an open transaction
    pc,        \* where each actor is
    sig,       \* the signal each actor is delivering
    position,  \* the subscriber's position
    leftOpen,  \* history: process() left its transaction open
    floor,     \* history: end of the backlog skipped with start_from="latest"
    faults     \* faults so far

history == <<floor, leftOpen>>
db == <<cur, markers, rows>>
relayVars == <<tail, expired>>
vars == <<relayVars, db, up, lock, inTx, pc, sig, position, history,
          faults>>

Fault(kind) ==
    /\ kind \in Faults
    /\ faults < MaxFaults
    /\ faults' = faults + 1

Goto(a, label) == pc' = [pc EXCEPT ![a] = label]

\* The ledger's answer: a marker, or a watermark at or above the signal.
IsProcessed_WatermarkOnly(s) == s <= cur

IsProcessed(s) == s \in markers \/ s <= cur

Init ==
    /\ tail = 0 /\ expired = {}
    /\ cur = 0 /\ markers = {} /\ rows = [s \in Signals |-> 0]
    /\ up = TRUE /\ lock = "free" /\ inTx = FALSE
    /\ pc = [a \in Actors |-> "off"] /\ sig = [a \in Actors |-> 0]
    /\ position = 0 /\ floor = 0 /\ leftOpen = FALSE
    /\ faults = 0

-----------------------------------------------------------------------------
(* The relay and the process *)

Accept ==
    /\ tail < MaxSeq
    /\ tail' = tail + 1
    /\ UNCHANGED <<expired, db, up, lock, inTx, pc, sig, position,
                   history, faults>>

\* A signal leaves the retention window; none still being delivered does.
Expire ==
    /\ \E s \in 1 .. tail :
          /\ \A a \in Actors : pc[a] # "off" => sig[a] # s
          /\ expired' = expired \cup {s}
    /\ UNCHANGED <<tail, db, up, lock, inTx, pc, sig, position,
                   history, faults>>

\* The process dies; SQLite forgets the open transaction.
Crash ==
    /\ up
    /\ Fault("crash")
    /\ up' = FALSE
    /\ lock' = "free"
    /\ inTx' = FALSE
    /\ leftOpen' = FALSE
    /\ pc' = [a \in Actors |-> "off"]
    /\ UNCHANGED <<floor, relayVars, db, sig, position>>

\* Markers older than the retention window are deleted: what they stand for
\* has left the relay's window too, but not everything that left it is old.
DeleteOld == \E old \in SUBSET (markers \cap expired) : markers' = markers \ old

\* close() waits for the lock; the connection goes, with a transaction left open.
\* Threads that still hold the store go on, and its methods raise.
Close ==
    /\ up
    /\ lock = "free"
    /\ Fault("close")
    /\ up' = FALSE
    /\ inTx' = FALSE
    /\ leftOpen' = FALSE
    /\ UNCHANGED <<floor, relayVars, db, lock, pc, sig, position>>

\* The store is opened again, by threads that have none, and prunes as it opens.
Open ==
    /\ ~up
    /\ \A a \in Actors : pc[a] = "off"
    /\ up' = TRUE
    /\ DeleteOld
    /\ UNCHANGED <<relayVars, cur, rows, lock, inTx, pc, sig, position,
                   history, faults>>

\* prune() off the delivery path.
Prune ==
    /\ up
    /\ lock = "free" /\ ~inTx
    /\ DeleteOld
    /\ UNCHANGED <<relayVars, cur, rows, up, lock, inTx, pc, sig, position,
                   history, faults>>

-----------------------------------------------------------------------------
(* commit(), as the subscriber calls it *)

\* Markers are pruned up to the end of the log.
CommitTo_PrunesAll(n) == cur' = n /\ markers' = {}

\* The cursor row is replaced, not raised, and the markers it covers go.
CommitTo(n) ==
    /\ cur' = n
    /\ markers' = {s \in markers : s > n}

\* run(): "latest" commits the end of the log before anything is delivered.
Run(mode) ==
    /\ up
    /\ pc[sub] = "off"
    /\ IF mode = "latest" /\ tail > 0
       THEN lock = "free" /\ ~inTx /\ CommitTo(tail) /\ floor' = tail
       ELSE UNCHANGED <<cur, markers, floor>>
    /\ position' = IF mode = "cursor" THEN cur
                   ELSE IF mode = "latest" THEN tail ELSE 0
    /\ Goto(sub, "next")
    /\ UNCHANGED <<relayVars, rows, up, lock, inTx, sig, leftOpen, faults>>

\* stop() ends the run between two signals.
StopRun ==
    /\ pc[sub] = "next"
    /\ Fault("stop")
    /\ Goto(sub, "off")
    /\ UNCHANGED <<relayVars, db, up, lock, inTx, sig, position, history>>

\* The subscriber takes the next signal the relay still serves.
NextSignal ==
    /\ pc[sub] = "next"
    /\ \E s \in (position + 1 .. tail) \ expired :
          /\ \A r \in (position + 1 .. tail) \ expired : s <= r
          /\ sig' = [sig EXCEPT ![sub] = s]
    /\ Goto(sub, "wait")
    /\ UNCHANGED <<relayVars, db, up, lock, inTx, position,
                   history, faults>>

\* The callback returned: the position moves, then the cursor is committed.
CommitCursor ==
    /\ pc[sub] = "cursor"
    /\ up /\ lock = "free" /\ ~inTx
    /\ CommitTo(position)
    /\ Goto(sub, "next")
    /\ UNCHANGED <<relayVars, rows, up, lock, inTx, sig, position,
                   history, faults>>

\* commit() raises, on a failing disk or because BEGIN finds a transaction open
\* or the store closed: the run ends.
CommitCursorRaises ==
    /\ pc[sub] = "cursor"
    /\ lock = "free"
    /\ \/ (inTx \/ ~up) /\ UNCHANGED faults
       \/ Fault("disk")
    /\ Goto(sub, "off")
    /\ UNCHANGED <<relayVars, db, up, lock, inTx, sig, position, history>>

-----------------------------------------------------------------------------
(* exactly_once_tx() and process() *)

\* The relay calls the webhook: a first delivery, a retry or a replay.
Webhook(w) ==
    /\ up
    /\ pc[w] = "off"
    /\ \E s \in (1 .. tail) \ expired : sig' = [sig EXCEPT ![w] = s]
    /\ Goto(w, "wait")
    /\ UNCHANGED <<relayVars, db, up, lock, inTx, position,
                   history, faults>>

\* The delivery of a processed signal ends: the callback returns normally, and
\* the subscriber commits it; the webhook answers 2xx.
Done(a) ==
    /\ Goto(a, IF a = sub THEN "cursor" ELSE "off")
    /\ position' = IF a = sub THEN sig[a] ELSE position

\* A duplicate: its transaction is rolled back at once, and on_duplicate or the
\* body of process() runs in none, under the lock.
BeginDuplicate(a) ==
    /\ pc[a] = "wait"
    /\ up /\ lock = "free" /\ ~inTx
    /\ IsProcessed(sig[a])
    /\ lock' = a
    /\ Goto(a, "duplicate")
    /\ UNCHANGED <<relayVars, db, up, inTx, sig, position, history, faults>>

\* The duplicate is done with: the handler was not called.
Duplicate(a) ==
    /\ pc[a] = "duplicate"
    /\ lock' = "free"
    /\ Done(a)
    /\ UNCHANGED <<relayVars, db, up, inTx, sig, history, faults>>

\* on_duplicate raises, and the run ends.
DuplicateRaises ==
    /\ pc[sub] = "duplicate"
    /\ Fault("handler")
    /\ lock' = "free"
    /\ Goto(sub, "off")
    /\ UNCHANGED <<relayVars, db, up, inTx, sig, position, history>>

\* A fresh signal: the handler runs inside the transaction, under the lock.
BeginHandler(a) ==
    /\ pc[a] = "wait"
    /\ up /\ lock = "free" /\ ~inTx
    /\ ~IsProcessed(sig[a])
    /\ lock' = a
    /\ inTx' = TRUE
    /\ Goto(a, "handler")
    /\ UNCHANGED <<relayVars, db, up, sig, position,
                   history, faults>>

\* BEGIN finds a transaction open, or the store closed, and raises.
BeginRaises(a) ==
    /\ pc[a] = "wait"
    /\ lock = "free" /\ (inTx \/ ~up)
    /\ Goto(a, "off")
    /\ UNCHANGED <<relayVars, db, up, lock, inTx, sig, position,
                   history, faults>>

HandlerReturns(a) ==
    /\ pc[a] = "handler"
    /\ Goto(a, "marker")
    /\ UNCHANGED <<relayVars, db, up, lock, inTx, sig, position,
                   history, faults>>

\* A failing handler leaves its marker behind.
HandlerRaises_KeepsMarker(a) ==
    /\ pc[a] = "handler"
    /\ Fault("handler")
    /\ markers' = markers \cup {sig[a]}
    /\ inTx' = FALSE
    /\ lock' = "free"
    /\ Goto(a, "off")
    /\ UNCHANGED <<relayVars, cur, rows, up, sig, position, history>>

\* A failing handler leaves its transaction open.
HandlerRaises_NoRollback(a) ==
    /\ pc[a] = "handler"
    /\ Fault("handler")
    /\ lock' = "free"
    /\ Goto(a, "off")
    /\ UNCHANGED <<relayVars, db, up, inTx, sig, position, history>>

\* The handler raises: everything it wrote is rolled back with the marker.  One
\* that calls prune() or commit() of its own store raises, too: the lock lets it
\* in, but BEGIN finds its own transaction open.
HandlerRaises(a) ==
    /\ pc[a] = "handler"
    /\ Fault("handler")
    /\ inTx' = FALSE
    /\ lock' = "free"
    /\ Goto(a, "off")
    /\ UNCHANGED <<relayVars, db, up, sig, position, history>>

\* The marker and the handler's rows are committed together.
CommitMarker(a) ==
    /\ pc[a] = "marker"
    /\ markers' = markers \cup {sig[a]}
    /\ rows' = [rows EXCEPT ![sig[a]] = @ + 1]
    /\ inTx' = FALSE
    /\ lock' = "free"
    /\ Done(a)
    /\ UNCHANGED <<relayVars, cur, up, sig, history, faults>>

\* Inserting the marker or COMMIT raises.  exactly_once_tx rolls back; process()
\* has left its try block, so the transaction stays open unless SQLite itself
\* rolled it back.
MarkerRaises(a) ==
    /\ pc[a] = "marker"
    /\ Fault("disk")
    /\ inTx' \in IF a = sub THEN {FALSE} ELSE BOOLEAN
    /\ leftOpen' = inTx'
    /\ lock' = "free"
    /\ Goto(a, "off")
    /\ UNCHANGED <<floor, relayVars, db, up, sig, position>>

-----------------------------------------------------------------------------
ActorStep(a) ==
    \/ BeginDuplicate(a) \/ Duplicate(a)
    \/ BeginHandler(a) \/ BeginRaises(a)
    \/ HandlerReturns(a) \/ HandlerRaises(a)
    \/ CommitMarker(a) \/ MarkerRaises(a)

SubscriberStep ==
    \/ \E mode \in StartModes : Run(mode)
    \/ StopRun
    \/ NextSignal
    \/ DuplicateRaises
    \/ CommitCursor \/ CommitCursorRaises

Next ==
    \/ Accept \/ Expire \/ Crash \/ Close \/ Open \/ Prune
    \/ SubscriberStep
    \/ \E w \in Workers : Webhook(w)
    \/ \E a \in Actors : ActorStep(a)

Spec == Init /\ [][Next]_vars

\* Threads keep running; the process is reopened and the subscriber run again.
\* Nobody is promised the store's lock while others take it in turns, and webhook
\* deliveries are not needed for progress.
LiveSpec ==
    /\ Spec
    /\ WF_vars(Open)
    /\ WF_vars(SubscriberStep)
    /\ \A a \in Actors : WF_vars(ActorStep(a))

-----------------------------------------------------------------------------
(* Properties *)

\* Exactly once: what a handler writes through its transaction cursor is
\* committed at most once per signal, over both channels, redeliveries, crashes
\* and lost cursor commits.
ExactlyOnce == \A s \in Signals : rows[s] <= 1

\* The ledger is exact: of the signals that can still be delivered, it answers
\* "processed" for those whose handler completed, each represented by a marker or
\* the watermark, and for no other.  The exception is a backlog skipped with
\* start_from="latest": its commit makes the ledger answer "processed" for signals
\* nobody handled, over the webhook channel too.
LedgerExact ==
    \A s \in (1 .. tail) \ expired :
        /\ rows[s] > 0 => IsProcessed(s)
        /\ IsProcessed(s) => rows[s] > 0 \/ s <= floor

\* The lock and the transaction go together: nobody outside a delivery finds a
\* transaction open, unless process() failed to write its marker.
TransactionsEnd == lock = "free" /\ inTx => leftOpen

\* Every signal the relay accepts is processed, unless it expires first, was
\* skipped on request, or the store is wedged by a transaction left open; or
\* webhook deliveries, duplicates among them, keep taking the lock for ever:
\* an RLock promises no turn to the subscriber that waits for it.
EventuallyProcessed ==
    <>[](lock \notin Workers) =>
        \A s \in Signals :
            s <= tail ~> (rows[s] > 0 \/ s \in expired \/ s <= floor \/ leftOpen)

=============================================================================
