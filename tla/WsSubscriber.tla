---------------------------- MODULE WsSubscriber -----------------------------
(***************************************************************************)
(* SignalSubscriber (subscriber.py) with live_transport="webpubsub".       *)
(*                                                                         *)
(* The main thread negotiates, connects, catches up over REST while frames *)
(* are parked in _ws_prelive, drains them, and then only waits: for stop() *)
(* or for an error stashed by a frame handler.  Handlers run on the        *)
(* websocket client's threads: each takes one frame and, once buffering is *)
(* off, handles it under the delivery lock, filling gaps from REST.        *)
(* _catch_up takes no lock: what keeps it apart from the handlers is the   *)
(* buffering flag, and the client's close on the way to a reconnect.       *)
(*                                                                         *)
(* The relay pushes a frame for every accepted signal while a connection   *)
(* is up; frames are reordered (wire is a set), and may be lost, fail      *)
(* verification or come twice.  start_from is "cursor"; the other modes,   *)
(* and the retry loop inside _fetch_page, are modelled in Subscriber.      *)
(*                                                                         *)
(* A definition named X_Something is X with a plausible bug, kept to show  *)
(* which property would notice it.                                         *)
(***************************************************************************)
EXTENDS Integers, Sequences, FiniteSets

CONSTANTS
    MaxSeq,         \* bound on the relay's sequence counter
    PageSize,       \* page_size
    ServerCaps,     \* largest pages the relay may return, whatever is asked
    MaxBuffer,      \* max_buffer
    GapFillRounds,  \* gap_fill_rounds
    Handlers,       \* the threads the websocket client calls handlers on
    CloseJoins,     \* closing the client waits for handlers in flight
    Reuse,          \* run() may be called again on the object it ended on
    Faults,         \* kinds of fault that may happen
    MaxFaults       \* bound on the number of faults

main == "main"
Threads == {main} \cup Handlers
FaultKinds == {"crash", "stop", "drop", "duplicate", "callback", "commit", "fetch"}

ASSUME WsAssumption ==
    /\ MaxSeq \in Nat /\ MaxFaults \in Nat
    /\ PageSize \in Nat \ {0} /\ ServerCaps \subseteq Nat \ {0} /\ MaxBuffer \in Nat /\ GapFillRounds \in Nat \ {0}
    /\ main \notin Handlers /\ "free" \notin Handlers
    /\ CloseJoins \in BOOLEAN /\ Reuse \in BOOLEAN
    /\ Faults \subseteq FaultKinds

VARIABLES
    log,        \* the relay's log: the sequences that exist
    wire,       \* frames on their way to the open connection
    cursor,     \* the sequence in the CursorStore
    position,   \* self._position
    buffer,     \* self._buffer: parked sequences
    buffering,  \* self._ws_buffering
    prelive,    \* self._ws_prelive, in arrival order
    pending,    \* self._pending_error: kind of the stashed error, or "none"
    stopping,   \* _stop_event.is_set()
    lock,       \* who holds _delivery_lock, or "free"
    pc,         \* where each thread is
    item,       \* the frame a thread handles, then the signal it delivers
    source,     \* the source a thread passes to _deliver
    page,       \* rows of the thread's last page still to be delivered
    short,      \* that page had fewer than page_size rows
    target,     \* target of the running _fill_from_rest
    rounds,     \* its empty_rounds
    batch,      \* frames _drain_prelive took and has not handled yet
    connected,  \* the main thread is inside "with client"
    leaving,    \* where the main thread goes once the client is closed
    cause,      \* kind of the error run() raised, or "none"
    handled,    \* history: sequences whose callback returned
    faults      \* faults so far

relayVars == <<log, wire>>
sharedVars == <<position, buffer, buffering, prelive, pending, stopping, lock>>
threadVars == <<pc, item, source, page, short>>
fillVars == <<target, rounds>>
mainVars == <<batch, connected, leaving, cause>>
vars == <<relayVars, cursor, sharedVars, threadVars, fillVars, mainVars,
          handled, faults>>

Fatal == {"gap", "full", "auth"}
Ended == {"down", "returned", "raised"}

Least(s, S) == s \in S /\ \A t \in S : s <= t

Rows(n, limit) ==
    {s \in log : s > n /\ Cardinality({t \in log : n < t /\ t <= s}) <= limit}

\* The page the relay returns for limit=PageSize when it caps pages at cap.
PageAfter(n, cap) == Rows(n, PageSize) \cap Rows(n, cap)

\* A fault of the given kind happens, within the bound.
Fault(kind) ==
    /\ kind \in Faults
    /\ faults < MaxFaults
    /\ faults' = faults + 1

Goto(t, label) == pc' = [pc EXCEPT ![t] = label]

Init ==
    /\ log = {} /\ wire = {} /\ cursor = 0 /\ handled = {} /\ faults = 0
    /\ position = 0 /\ buffer = {} /\ buffering = FALSE /\ prelive = <<>>
    /\ pending = "none" /\ stopping = FALSE /\ lock = "free"
    /\ pc = [t \in Threads |-> IF t = main THEN "down" ELSE "idle"]
    /\ item = [t \in Threads |-> 0]
    /\ source = [t \in Threads |-> "catchup"]
    /\ page = [t \in Threads |-> {}]
    /\ short = [t \in Threads |-> FALSE]
    /\ target = 0 /\ rounds = 0
    /\ batch = <<>> /\ connected = FALSE /\ leaving = "none" /\ cause = "none"

-----------------------------------------------------------------------------
(* The relay, the network and the process *)

\* The relay accepts a signal and pushes its frame when a connection is up.
Accept(s) ==
    /\ \A t \in log : t < s
    /\ log' = log \cup {s}
    /\ wire' = IF connected THEN wire \cup {s} ELSE wire
    /\ UNCHANGED <<cursor, sharedVars, threadVars, fillVars, mainVars, handled, faults>>

\* A frame is lost, or verify_ws_frame rejects it: on_error, nothing else.
DropFrame ==
    /\ Fault("drop")
    /\ \E s \in wire : wire' = wire \ {s}
    /\ UNCHANGED <<log, cursor, sharedVars, threadVars, fillVars, mainVars, handled>>

\* The service pushes a frame again.
DuplicateFrame ==
    /\ Fault("duplicate")
    /\ connected
    /\ \E s \in log : wire' = wire \cup {s}
    /\ UNCHANGED <<log, cursor, sharedVars, threadVars, fillVars, mainVars, handled>>

Stop ==
    /\ Fault("stop")
    /\ pc[main] \notin Ended
    /\ ~stopping
    /\ stopping' = TRUE
    /\ UNCHANGED <<relayVars, cursor, position, buffer, buffering, prelive, pending,
                   lock, threadVars, fillVars, mainVars, handled>>

\* What a new process or a new object starts from.
Reset(label) ==
    /\ pc' = [t \in Threads |-> IF t = main THEN label ELSE "idle"]
    /\ wire' = {}
    /\ buffer' = {} /\ buffering' = FALSE /\ prelive' = <<>>
    /\ pending' = "none" /\ stopping' = FALSE /\ lock' = "free"
    /\ page' = [t \in Threads |-> {}]
    /\ batch' = <<>> /\ connected' = FALSE /\ leaving' = "none" /\ cause' = "none"

Crash ==
    /\ Fault("crash")
    /\ pc[main] # "down"
    /\ Reset("down")
    /\ UNCHANGED <<log, cursor, position, item, source, short, fillVars, handled>>

\* run(): the position comes from the cursor, then a first catch-up runs with
\* no connection; an exception there leaves run() at once.
Run ==
    /\ pc[main] \in Ended
    /\ Reset("query")
    /\ position' = cursor
    /\ UNCHANGED <<log, cursor, item, source, short, fillVars, handled, faults>>

\* run() once more on the same object: parked frames, the flags and a stashed
\* error are still there, and so is a stop().
RunAgain ==
    /\ Reuse
    /\ pc[main] \in {"returned", "raised"}
    /\ Goto(main, "query")
    /\ position' = cursor
    /\ cause' = "none"
    /\ UNCHANGED <<relayVars, cursor, buffer, buffering, prelive, pending, stopping, lock,
                   item, source, page, short, fillVars, batch, connected, leaving,
                   handled, faults>>

-----------------------------------------------------------------------------
(* Exceptions *)

\* An exception reaches the end of the thread's work.  A handler stashes it
\* for the main loop, over whatever is stashed already.  On the main thread it
\* leaves run() before the first connection; after it, the client is closed,
\* and only _FATAL_TYPES leave run(): any other exception means a reconnect.
Fail(t, kind) ==
    /\ lock' = IF lock = t THEN "free" ELSE lock
    /\ page' = [page EXCEPT ![t] = {}]
    /\ IF t # main
       THEN /\ pending' = kind
            /\ Goto(t, "idle")
            /\ UNCHANGED <<leaving, cause, batch>>
       ELSE /\ Goto(main, IF connected THEN "closing" ELSE "raised")
            /\ leaving' = IF kind \in Fatal THEN "raised" ELSE "backoff"
            /\ cause' = IF connected /\ kind \notin Fatal THEN cause ELSE kind
            /\ batch' = <<>>
            /\ UNCHANGED pending

-----------------------------------------------------------------------------
(* _deliver, on any thread *)

\* What the thread goes on with after a committed delivery.
AfterDelivery(t) ==
    CASE source[t] = "catchup" -> "rows"
      [] source[t] = "gapfill" -> "fillrows"
      [] source[t] = "live"    -> "drain"

CallbackReturns(t) ==
    /\ pc[t] = "callback"
    /\ handled' = handled \cup {item[t]}
    /\ position' = item[t]
    /\ Goto(t, "commit")
    /\ UNCHANGED <<relayVars, cursor, buffer, buffering, prelive, pending, stopping,
                   lock, item, source, page, short, fillVars, mainVars, faults>>

\* A failing callback is reported and the cursor moves on.
CallbackRaises_Swallows(t) ==
    /\ pc[t] = "callback"
    /\ Fault("callback")
    /\ position' = item[t]
    /\ Goto(t, "commit")
    /\ UNCHANGED <<relayVars, cursor, buffer, buffering, prelive, pending, stopping,
                   lock, item, source, page, short, fillVars, mainVars, handled>>

\* The callback may raise anything, an AuthError or ValidationRejected of its own
\* relay calls included.
CallbackRaises(t) ==
    /\ pc[t] = "callback"
    /\ Fault("callback")
    /\ \E kind \in {"auth", "other"} : Fail(t, kind)
    /\ UNCHANGED <<relayVars, cursor, position, buffer, buffering, prelive, stopping,
                   item, source, short, fillVars, connected, handled>>

Commit(t) ==
    /\ pc[t] = "commit"
    /\ cursor' = item[t]
    /\ Goto(t, AfterDelivery(t))
    /\ UNCHANGED <<relayVars, sharedVars, item, source, page, short, fillVars,
                   mainVars, handled, faults>>

\* The store raises: the position has moved, the cursor has not.
CommitRaises(t) ==
    /\ pc[t] = "commit"
    /\ Fault("commit")
    /\ Fail(t, "other")
    /\ UNCHANGED <<relayVars, cursor, position, buffer, buffering, prelive, stopping,
                   item, source, short, fillVars, connected, handled>>

\* A query fails for good: AuthError, or a status that is not retried.
FetchRaises(t) ==
    /\ pc[t] \in {"query", "fill"}
    /\ ~stopping
    /\ pc[t] = "fill" => position < target
    /\ Fault("fetch")
    /\ \E kind \in {"auth", "other"} : Fail(t, kind)
    /\ UNCHANGED <<relayVars, cursor, position, buffer, buffering, prelive, stopping,
                   item, source, short, fillVars, connected, handled>>

-----------------------------------------------------------------------------
(* _catch_up, on the main thread and without the delivery lock *)

CatchUpPage ==
    /\ pc[main] = "query"
    /\ ~stopping
    /\ \E cap \in ServerCaps : LET found == PageAfter(position, cap) IN
          /\ page' = [page EXCEPT ![main] = found]
          /\ short' = [short EXCEPT ![main] = Cardinality(found) < PageSize]
    /\ Goto(main, "rows")
    /\ UNCHANGED <<relayVars, cursor, sharedVars, item, source, fillVars, mainVars,
                   handled, faults>>

\* The next row past the position, read when the row's turn comes.
CatchUpRow ==
    /\ pc[main] = "rows"
    /\ ~stopping
    /\ \E s \in page[main] :
          /\ Least(s, {r \in page[main] : r > position})
          /\ item' = [item EXCEPT ![main] = s]
          /\ page' = [page EXCEPT ![main] = {r \in @ : r > s}]
    /\ source' = [source EXCEPT ![main] = "catchup"]
    /\ Goto(main, "callback")
    /\ UNCHANGED <<relayVars, cursor, sharedVars, short, fillVars, mainVars, handled,
                   faults>>

\* _catch_up ends, on a short page or on stop(): on to the drain inside a
\* connection, to the first negotiation or out of run() before it.
CatchUpEnds ==
    /\ \/ pc[main] = "rows" /\ (stopping \/ \A r \in page[main] : r <= position)
       \/ pc[main] = "query" /\ stopping
    /\ page' = [page EXCEPT ![main] = {}]
    /\ Goto(main, IF pc[main] = "rows" /\ ~short[main] /\ ~stopping THEN "query"
                  ELSE IF connected THEN "prelive"
                  ELSE IF stopping THEN "returned" ELSE "negotiate")
    /\ UNCHANGED <<relayVars, cursor, sharedVars, item, source, short, fillVars,
                   mainVars, handled, faults>>

-----------------------------------------------------------------------------
(* _run_webpubsub, on the main thread *)

\* A reconnect that goes straight to the drain.
Connect_NoCatchUp ==
    /\ pc[main] = "negotiate"
    /\ ~stopping
    /\ buffering' = TRUE
    /\ prelive' = <<>>
    /\ connected' = TRUE
    /\ Goto(main, "prelive")
    /\ UNCHANGED <<relayVars, cursor, position, buffer, pending, stopping, lock, item,
                   source, page, short, fillVars, batch, leaving, cause, handled, faults>>

\* The endpoint is negotiated, buffering starts, the client opens and the
\* handler is subscribed; frames pushed before that are lost to this client.
Connect ==
    /\ pc[main] = "negotiate"
    /\ ~stopping
    /\ buffering' = TRUE
    /\ prelive' = <<>>
    /\ connected' = TRUE
    /\ Goto(main, "query")
    /\ UNCHANGED <<relayVars, cursor, position, buffer, pending, stopping, lock, item,
                   source, page, short, fillVars, batch, leaving, cause, handled, faults>>

\* Negotiation fails: a rejection leaves run(), anything else backs off.
NegotiateFails ==
    /\ pc[main] = "negotiate"
    /\ ~stopping
    /\ Fault("fetch")
    /\ \/ Goto(main, "raised") /\ cause' = "auth"
       \/ Goto(main, "backoff") /\ UNCHANGED cause
    /\ UNCHANGED <<relayVars, cursor, sharedVars, item, source, page, short, fillVars,
                   batch, connected, leaving, handled>>

\* The flag flips some time after the prelive list was seen empty.
GoLive_NotAtomic ==
    /\ pc[main] = "prelive"
    /\ buffering' = FALSE
    /\ Goto(main, "wait")
    /\ UNCHANGED <<relayVars, cursor, position, buffer, prelive, pending, stopping, lock,
                   item, source, page, short, fillVars, mainVars, handled, faults>>

\* _drain_prelive: seeing no parked frame and going live is one atomic step.
GoLive ==
    /\ pc[main] = "prelive"
    /\ prelive = <<>>
    /\ buffering' = FALSE
    /\ Goto(main, "wait")
    /\ UNCHANGED <<relayVars, cursor, position, buffer, prelive, pending, stopping, lock,
                   item, source, page, short, fillVars, mainVars, handled, faults>>

TakeBatch ==
    /\ pc[main] = "prelive"
    /\ prelive # <<>>
    /\ batch' = prelive
    /\ prelive' = <<>>
    /\ Goto(main, "batch")
    /\ UNCHANGED <<relayVars, cursor, position, buffer, buffering, pending, stopping,
                   lock, item, source, page, short, fillVars, connected, leaving, cause,
                   handled, faults>>

NextOfBatch ==
    /\ pc[main] = "batch"
    /\ IF batch = <<>>
       THEN Goto(main, "prelive") /\ UNCHANGED <<item, batch>>
       ELSE /\ item' = [item EXCEPT ![main] = Head(batch)]
            /\ batch' = Tail(batch)
            /\ Goto(main, "enter")
    /\ UNCHANGED <<relayVars, cursor, sharedVars, source, page, short, fillVars,
                   connected, leaving, cause, handled, faults>>

\* The wait loop finds a stashed error, clears it and raises it.
RaisePending ==
    /\ pc[main] = "wait"
    /\ ~stopping
    /\ pending # "none"
    /\ pending' = "none"
    /\ leaving' = IF pending \in Fatal THEN "raised" ELSE "backoff"
    /\ cause' = IF pending \in Fatal THEN pending ELSE cause
    /\ Goto(main, "closing")
    /\ UNCHANGED <<relayVars, cursor, position, buffer, buffering, prelive, stopping,
                   lock, item, source, page, short, fillVars, batch, connected, handled,
                   faults>>

WaitStopped ==
    /\ pc[main] = "wait"
    /\ stopping
    /\ leaving' = "returned"
    /\ Goto(main, "closing")
    /\ UNCHANGED <<relayVars, cursor, sharedVars, item, source, page, short, fillVars,
                   batch, connected, cause, handled, faults>>

\* "with client" is left: the connection and the frames in flight are gone.
Close ==
    /\ pc[main] = "closing"
    /\ CloseJoins => \A h \in Handlers : pc[h] = "idle"
    /\ wire' = {}
    /\ connected' = FALSE
    /\ Goto(main, leaving)
    /\ UNCHANGED <<log, cursor, sharedVars, item, source, page, short, fillVars, batch,
                   leaving, cause, handled, faults>>

\* The backoff is over, or stop() ended the outer loop.
BackoffEnds ==
    /\ pc[main] = "backoff"
    /\ Goto(main, IF stopping THEN "returned" ELSE "negotiate")
    /\ UNCHANGED <<relayVars, cursor, sharedVars, item, source, page, short, fillVars,
                   mainVars, handled, faults>>

\* stop() seen at the head of the outer loop.
NegotiateStopped ==
    /\ pc[main] = "negotiate"
    /\ stopping
    /\ Goto(main, "returned")
    /\ UNCHANGED <<relayVars, cursor, sharedVars, item, source, page, short, fillVars,
                   mainVars, handled, faults>>

-----------------------------------------------------------------------------
(* _on_ws_event and _handle_live_message *)

\* Frames handled at once, even while the catch-up runs.
Receive_NeverParks(h) ==
    /\ pc[h] = "idle"
    /\ connected
    /\ \E s \in wire :
          /\ wire' = wire \ {s}
          /\ item' = [item EXCEPT ![h] = s]
          /\ Goto(h, "enter")
    /\ UNCHANGED <<log, cursor, sharedVars, source, page, short, fillVars, mainVars,
                   handled, faults>>

\* A verified frame: parked under the phase lock while buffering, else handled.
Receive(h) ==
    /\ pc[h] = "idle"
    /\ connected
    /\ \E s \in wire :
          /\ wire' = wire \ {s}
          /\ IF buffering
             THEN prelive' = Append(prelive, s) /\ UNCHANGED <<pc, item>>
             ELSE /\ item' = [item EXCEPT ![h] = s]
                  /\ Goto(h, "enter")
                  /\ UNCHANGED prelive
    /\ UNCHANGED <<log, cursor, position, buffer, buffering, pending, stopping, lock,
                   source, page, short, fillVars, mainVars, handled, faults>>

\* The frame has been dealt with: on to the next of the batch, or idle.
Finish(t) == Goto(t, IF t = main THEN "batch" ELSE "idle")

\* Under the delivery lock: a frame at or below the position is dropped.
DropStale(t) ==
    /\ pc[t] = "enter"
    /\ lock = "free"
    /\ item[t] <= position
    /\ Finish(t)
    /\ UNCHANGED <<relayVars, cursor, sharedVars, item, source, page, short, fillVars,
                   mainVars, handled, faults>>

\* A newer frame is parked and the drain begins.
Park(t) ==
    /\ pc[t] = "enter"
    /\ lock = "free"
    /\ item[t] > position
    /\ buffer' = buffer \cup {item[t]}
    /\ Cardinality(buffer') <= MaxBuffer
    /\ lock' = t
    /\ Goto(t, "drain")
    /\ UNCHANGED <<relayVars, cursor, position, buffering, prelive, pending, stopping,
                   item, source, page, short, fillVars, mainVars, handled, faults>>

\* The frame that overflows the buffer stays parked: BufferFullError.
Overflow(t) ==
    /\ pc[t] = "enter"
    /\ lock = "free"
    /\ item[t] > position
    /\ buffer' = buffer \cup {item[t]}
    /\ Cardinality(buffer') > MaxBuffer
    /\ Fail(t, "full")
    /\ UNCHANGED <<relayVars, cursor, position, buffering, prelive, stopping, item,
                   source, short, fillVars, connected, handled, faults>>

-----------------------------------------------------------------------------
(* _drain_with_fill *)

\* A drain that does not look at the stop event.
DrainEnds_Deaf(t) ==
    /\ pc[t] = "drain"
    /\ buffer = {}
    /\ lock' = "free"
    /\ Finish(t)
    /\ UNCHANGED <<relayVars, cursor, position, buffer, buffering, prelive, pending,
                   stopping, item, source, page, short, fillVars, mainVars, handled,
                   faults>>

\* The buffer is empty or stop() was seen: the lock is released.
DrainEnds(t) ==
    /\ pc[t] = "drain"
    /\ buffer = {} \/ stopping
    /\ lock' = "free"
    /\ Finish(t)
    /\ UNCHANGED <<relayVars, cursor, position, buffer, buffering, prelive, pending,
                   stopping, item, source, page, short, fillVars, mainVars, handled,
                   faults>>

\* The first parked sequence is delivered, gap or no gap.
DrainNext_Jumps(t) ==
    /\ pc[t] = "drain"
    /\ ~stopping
    /\ \E s \in buffer :
          /\ Least(s, buffer)
          /\ buffer' = buffer \ {s}
          /\ item' = [item EXCEPT ![t] = s]
    /\ source' = [source EXCEPT ![t] = "live"]
    /\ Goto(t, "callback")
    /\ UNCHANGED <<relayVars, cursor, position, buffering, prelive, pending, stopping,
                   lock, page, short, fillVars, mainVars, handled, faults>>

\* The next sequence is parked: popped, then delivered as "live".
DrainNext(t) ==
    /\ pc[t] = "drain"
    /\ ~stopping
    /\ position + 1 \in buffer
    /\ buffer' = buffer \ {position + 1}
    /\ item' = [item EXCEPT ![t] = position + 1]
    /\ source' = [source EXCEPT ![t] = "live"]
    /\ Goto(t, "callback")
    /\ UNCHANGED <<relayVars, cursor, position, buffering, prelive, pending, stopping,
                   lock, page, short, fillVars, mainVars, handled, faults>>

\* A gap below the first parked sequence: _fill_from_rest is called.
DrainGap(t) ==
    /\ pc[t] = "drain"
    /\ ~stopping
    /\ position + 1 \notin buffer
    /\ \E s \in buffer : Least(s, buffer) /\ target' = s - 1
    /\ rounds' = 0
    /\ Goto(t, "fill")
    /\ UNCHANGED <<relayVars, cursor, sharedVars, item, source, page, short, mainVars,
                   handled, faults>>

-----------------------------------------------------------------------------
(* _fill_from_rest *)

Fresh(cap) == {s \in PageAfter(position, cap) : s <= target}

\* The gap is filled, or stop() was seen.
FillEnds(t) ==
    /\ pc[t] = "fill"
    /\ position >= target \/ stopping
    /\ Goto(t, "drain")
    /\ UNCHANGED <<relayVars, cursor, sharedVars, item, source, page, short, fillVars,
                   mainVars, handled, faults>>

\* REST has rows inside the gap.
FillPage(t) ==
    /\ pc[t] = "fill"
    /\ position < target /\ ~stopping
    /\ rounds' = 0
    /\ \E cap \in ServerCaps :
          /\ Fresh(cap) # {}
          /\ page' = [page EXCEPT ![t] = Fresh(cap)]
          /\ short' = [short EXCEPT ![t] = Cardinality(PageAfter(position, cap)) < PageSize]
    /\ Goto(t, "fillrows")
    /\ UNCHANGED <<relayVars, cursor, sharedVars, item, source, target, mainVars,
                   handled, faults>>

\* REST has nothing inside the gap, or stop() cut the query short.
FillEmpty(t) ==
    /\ pc[t] = "fill"
    /\ position < target
    /\ stopping \/ \E cap \in ServerCaps : Fresh(cap) = {}
    /\ rounds' = rounds + 1
    /\ IF rounds' >= GapFillRounds
       THEN Fail(t, "gap")
       ELSE UNCHANGED <<pc, page, lock, pending, leaving, cause, batch>>
    /\ UNCHANGED <<relayVars, cursor, position, buffer, buffering, prelive, stopping,
                   item, source, short, target, connected, handled, faults>>

\* The next row of the fill: the REST copy wins over a parked one.
FillRow(t) ==
    /\ pc[t] = "fillrows"
    /\ \E s \in page[t] :
          /\ Least(s, page[t])
          /\ item' = [item EXCEPT ![t] = s]
          /\ page' = [page EXCEPT ![t] = @ \ {s}]
          /\ buffer' = buffer \ {s}
    /\ source' = [source EXCEPT ![t] = "gapfill"]
    /\ Goto(t, "callback")
    /\ UNCHANGED <<relayVars, cursor, position, buffering, prelive, pending, stopping,
                   lock, short, fillVars, mainVars, handled, faults>>

\* The rows are delivered; a short page below the target is a gap for good.
FillRowsDone(t) ==
    /\ pc[t] = "fillrows"
    /\ page[t] = {}
    /\ IF short[t] /\ position < target
       THEN Fail(t, "gap")
       ELSE Goto(t, "fill") /\ UNCHANGED <<page, lock, pending, leaving, cause, batch>>
    /\ UNCHANGED <<relayVars, cursor, position, buffer, buffering, prelive, stopping,
                   item, source, short, fillVars, connected, handled, faults>>

-----------------------------------------------------------------------------
Environment ==
    \/ \E s \in 1 .. MaxSeq : Accept(s)
    \/ DropFrame
    \/ DuplicateFrame
    \/ Stop
    \/ Crash

MainStep ==
    \/ CatchUpPage \/ CatchUpRow \/ CatchUpEnds
    \/ Connect \/ NegotiateFails \/ NegotiateStopped
    \/ GoLive \/ TakeBatch \/ NextOfBatch
    \/ RaisePending \/ WaitStopped \/ Close \/ BackoffEnds

ThreadStep(t) ==
    \/ CallbackReturns(t) \/ CallbackRaises(t)
    \/ Commit(t) \/ CommitRaises(t)
    \/ FetchRaises(t)
    \/ DropStale(t) \/ Park(t) \/ Overflow(t)
    \/ DrainEnds(t) \/ DrainNext(t) \/ DrainGap(t)
    \/ FillEnds(t) \/ FillPage(t) \/ FillEmpty(t) \/ FillRow(t) \/ FillRowsDone(t)

Next ==
    \/ Environment
    \/ Run \/ RunAgain
    \/ MainStep
    \/ \E t \in Threads : ThreadStep(t)
    \/ \E h \in Handlers : Receive(h)

Spec == Init /\ [][Next]_vars

\* Every thread keeps running and every frame on the wire is received; a
\* supervisor restarts a run that ended or crashed.
LiveSpec ==
    /\ Spec
    /\ WF_vars(Run)
    /\ WF_vars(MainStep)
    /\ \A t \in Threads : WF_vars(ThreadStep(t))
    /\ \A h \in Handlers : WF_vars(Receive(h))

-----------------------------------------------------------------------------
(* Properties *)

\* The websocket subscriber, too, implements the promise of ordered delivery:
\* nothing at or below the cursor was left unhandled, in any interleaving of the
\* catch-up, the handlers, reconnects and crashes.
Promise == INSTANCE OrderedDelivery WITH floor <- 0
ImplementsPromise == Promise!Spec

\* In-order, exactly once per run: each delivery moves the position from one
\* entry of the log to the next, whichever thread delivers and from whatever
\* source.
InOrder ==
    [][\A t \in Threads : (pc[t] = "callback" /\ pc'[t] = "commit") =>
          /\ position' > position
          /\ \A s \in log : ~(position < s /\ s < position')]_vars

\* Only one thread at a time is between choosing a signal and committing it,
\* although _catch_up does not take the delivery lock.
OneDeliverer ==
    Cardinality({t \in Threads : pc[t] \in {"query", "rows", "callback", "commit",
                                            "drain", "fill", "fillrows"}}) <= 1

\* "No frame can slip between buffered and live handling": once buffering is
\* off, no frame is left parked behind it.
NoFrameSlips == ~buffering => prelive = <<>>

\* run() ends after stop(), whatever the threads were doing.
StopEnds == stopping ~> pc[main] \in Ended

\* Every accepted signal is eventually handled, as long as no frame is dropped
\* for good: a dropped last frame is missed until another arrives or the
\* connection is renewed.
EventuallyHandled == \A s \in 1 .. MaxSeq : s \in log ~> s \in handled

\* Whoever takes the delivery lock gives it back: a drain ends.
LockReleased == \A t \in Threads : lock = t ~> lock # t

=============================================================================
