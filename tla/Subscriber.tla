----------------------------- MODULE Subscriber ------------------------------
(***************************************************************************)
(* SignalSubscriber (subscriber.py) with live_transport="poll": one thread *)
(* that resolves a starting position, drains the REST backlog page by page *)
(* (phase "catchup"), then repeats the same query every poll_interval      *)
(* (phase "live"), invoking on_signal once per signal and committing the   *)
(* cursor after each call.  The relay appends concurrently; stop() arrives *)
(* from another thread; the process may crash between any two steps.       *)
(*                                                                         *)
(* A page is kept as the set of its undelivered sequences: the relay       *)
(* returns rows in sequence order, so a page is determined by its members. *)
(* Payloads and error texts are abstracted; what matters of an exception   *)
(* is which handler of _run_poll catches it.                               *)
(*                                                                         *)
(* A definition named X_Something is no part of the model: it is X with a  *)
(* plausible bug, kept to show which property would notice that bug.       *)
(***************************************************************************)
EXTENDS Integers, FiniteSets

CONSTANTS
    MaxSeq,          \* bound on the relay's sequence counter
    PageSize,        \* page_size of the subscriber
    ServerCaps,      \* largest pages the relay may return, whatever is asked
    StartModes,      \* start_from values an operator may pass, as records
    MaxDisruptions   \* bound on the number of stop() calls and crashes

ASSUME BoundsAssumption ==
    /\ MaxSeq \in Nat
    /\ PageSize \in Nat \ {0}
    /\ ServerCaps \subseteq Nat \ {0}
    /\ MaxDisruptions \in Nat

ASSUME StartModesAssumption ==
    StartModes \subseteq [kind : {"cursor", "earliest", "latest", "int"}, n : Nat]

VARIABLES
    log,          \* the strategy's log on the relay: the sequences that exist
    cursor,       \* the sequence in the CursorStore, 0 when it holds none
    pc,           \* where the process is
    start,        \* start_from of the current SignalSubscriber object
    op,           \* the public method running: run() or catch_up_only()
    phase,        \* "scan" in _scan_latest, else the source passed to _catch_up
    position,     \* self._position; during a scan, _scan_latest's local position
    page,         \* the rows of the last page not yet delivered
    full,         \* len(page) == page_size for that page
    stopping,     \* _stop_event.is_set()
    returned,     \* the last run() or catch_up_only() returned normally
    handled,      \* history: sequences whose callback returned
    floor,        \* history: highest sequence an operator asked to skip
    backlog,      \* history: the log when the current method was called
    capped,       \* history: the relay cut a page of this call below page_size
    rewound,      \* history: a run did not start from the cursor
    disruptions   \* stop() calls and crashes so far

objVars == <<start, op, phase, position, page, full, stopping>>
history == <<handled, floor, backlog, capped, rewound>>
vars == <<log, cursor, pc, objVars, returned, history, disruptions>>

Alive == pc # "down"
Running == pc \notin {"down", "idle"}
Larger(m, n) == IF m > n THEN m ELSE n

\* The first k rows after since_sequence=n.
Rows(n, k) ==
    {s \in log : s > n /\ Cardinality({t \in log : n < t /\ t <= s}) <= k}

\* The page the relay returns for limit=PageSize when it caps pages at cap.
PageAfter(n, cap) == Rows(n, PageSize) \cap Rows(n, cap)

\* Rows taken in whatever order the page holds them.
NextUp_AnyOrder(s) == s \in page /\ s > position

\* s is the first row of the current page that _catch_up will not skip.
NextUp(s) ==
    /\ s \in page
    /\ s > position
    /\ \A t \in page : t > position => s <= t

Init ==
    /\ log = {}
    /\ cursor = 0
    /\ pc = "down"
    /\ start = [kind |-> "cursor", n |-> 0]
    /\ op = "run"
    /\ phase = "catchup"
    /\ position = 0
    /\ page = {}
    /\ full = FALSE
    /\ stopping = FALSE
    /\ returned = FALSE
    /\ handled = {}
    /\ floor = 0
    /\ backlog = {}
    /\ capped = FALSE
    /\ rewound = FALSE
    /\ disruptions = 0

-----------------------------------------------------------------------------
(* The relay and the operator *)

\* The relay accepts a signal.  Sequences only grow; a jump leaves a hole.
Append(s) ==
    /\ \A t \in log : t < s
    /\ log' = log \cup {s}
    /\ UNCHANGED <<cursor, pc, objVars, returned, history, disruptions>>

\* A new SignalSubscriber: after a crash, or in place of the previous object.
Construct(m) ==
    /\ ~Running
    /\ pc' = "idle"
    /\ start' = m
    /\ position' = 0
    /\ page' = {}
    /\ full' = FALSE
    /\ stopping' = FALSE
    /\ returned' = FALSE
    /\ UNCHANGED <<log, cursor, op, phase, history, disruptions>>

\* The persisted cursor is loaded and then ignored.
Call_FromZero(method) ==
    /\ pc = "idle"
    /\ op' = method
    /\ pc' = "fetch"
    /\ returned' = FALSE
    /\ backlog' = log
    /\ phase' = "catchup"
    /\ position' = 0
    /\ UNCHANGED <<log, cursor, start, page, full, stopping, handled, floor,
                   capped, rewound, disruptions>>

\* Resuming one signal early, to see the last one again.
Call_Overlap(method) ==
    /\ pc = "idle"
    /\ op' = method
    /\ pc' = "fetch"
    /\ returned' = FALSE
    /\ backlog' = log
    /\ phase' = "catchup"
    /\ position' = cursor - 1
    /\ UNCHANGED <<log, cursor, start, page, full, stopping, handled, floor,
                   capped, rewound, disruptions>>

\* run() or catch_up_only() is called; _start_position resolves the start.
\* "latest" goes on to scan the log, the other modes to phase 1.
Call(method) ==
    /\ pc = "idle"
    /\ op' = method
    /\ pc' = "fetch"
    /\ returned' = FALSE
    /\ backlog' = log
    /\ phase' = IF start.kind = "latest" THEN "scan" ELSE "catchup"
    /\ position' = IF start.kind = "int" THEN start.n
                   ELSE IF start.kind = "cursor" THEN cursor ELSE 0
    /\ floor' = IF start.kind = "int" THEN Larger(floor, start.n) ELSE floor
    /\ capped' = FALSE
    /\ rewound' = (rewound \/ start.kind # "cursor")
    /\ UNCHANGED <<log, cursor, start, page, full, stopping, handled, disruptions>>

\* CursorStore.load raises (CursorCorruptError, OSError): nothing is delivered.
LoadRaises ==
    /\ pc = "idle"
    /\ start.kind = "cursor"
    /\ returned' = FALSE
    /\ UNCHANGED <<log, cursor, pc, objVars, history, disruptions>>

\* stop() from another thread or a signal handler; the event is never cleared.
Stop ==
    /\ Alive
    /\ ~stopping
    /\ disruptions < MaxDisruptions
    /\ stopping' = TRUE
    /\ disruptions' = disruptions + 1
    /\ UNCHANGED <<log, cursor, pc, start, op, phase, position, page, full,
                   returned, history>>

\* The process dies: everything but the relay's log and the cursor is gone.
Crash ==
    /\ Alive
    /\ disruptions < MaxDisruptions
    /\ pc' = "down"
    /\ page' = {}
    /\ disruptions' = disruptions + 1
    /\ UNCHANGED <<log, cursor, start, op, phase, position, full, stopping,
                   returned, history>>

-----------------------------------------------------------------------------
(* Leaving the public method, or a poll cycle *)

\* The public method returns normally.
Return ==
    /\ pc' = "idle"
    /\ returned' = TRUE
    /\ UNCHANGED phase

\* _catch_up returned: run() goes live unless stopped, a poll cycle waits.
CatchUpReturns ==
    IF op = "run" /\ (phase = "live" \/ ~stopping)
    THEN pc' = "poll" /\ phase' = "live" /\ UNCHANGED returned
    ELSE Return

\* An exception leaves _catch_up or _start_position.  _run_poll swallows
\* httpx.HTTPError and every MultiEdgeError outside _FATAL_TYPES ("transient");
\* "fatal" and "other" propagate, as everything does outside the live phase.
Raise(kind) ==
    /\ IF phase = "live" /\ kind = "transient"
       THEN pc' = "poll" /\ UNCHANGED returned
       ELSE pc' = "idle" /\ returned' = FALSE
    /\ page' = {}
    /\ UNCHANGED <<log, cursor, start, op, phase, position, full, stopping,
                   history, disruptions>>

ErrorKinds == {"fatal", "transient", "other"}

-----------------------------------------------------------------------------
(* _fetch_page *)

\* A 200 answer during phase 1 or a poll cycle: the page is a snapshot.
FetchPage ==
    /\ pc = "fetch"
    /\ phase # "scan"
    /\ ~stopping
    /\ \E cap \in ServerCaps : page' = PageAfter(position, cap)
    /\ full' = (Cardinality(page') = PageSize)
    /\ capped' = (capped \/ page' # Rows(position, PageSize))
    /\ pc' = "page"
    /\ UNCHANGED <<log, cursor, start, op, phase, position, stopping, returned,
                   handled, floor, backlog, rewound, disruptions>>

\* A retry loop that does not look at the stop event.
AttemptFails_Deaf ==
    /\ pc = "fetch"
    /\ pc' = "backoff"
    /\ UNCHANGED <<log, cursor, objVars, returned, history, disruptions>>

\* A failed attempt the policy retries: on_error, then an interruptible sleep.
AttemptFails ==
    /\ pc = "fetch"
    /\ ~stopping
    /\ pc' = "backoff"
    /\ UNCHANGED <<log, cursor, objVars, returned, history, disruptions>>

\* A backoff sleep that only stop() wakes.
Retry_OnlyOnStop ==
    /\ pc = "backoff"
    /\ pc' = IF stopping THEN "fetch" ELSE "backoff"
    /\ UNCHANGED <<log, cursor, objVars, returned, history, disruptions>>

\* The backoff sleep ends, by itself or because stop() was called.
Retry ==
    /\ pc = "backoff"
    /\ pc' = "fetch"
    /\ UNCHANGED <<log, cursor, objVars, returned, history, disruptions>>

\* AuthError ("fatal"); a non-retryable status or a spent retry bound
\* (MultiEdgeError); a 200 whose body is not a page of signals ("other").
FetchRaises(kind) ==
    /\ pc = "fetch"
    /\ ~stopping
    /\ Raise(kind)

\* stop() was called before an answer: no page is read and _catch_up returns.
FetchStopped ==
    /\ pc = "fetch"
    /\ phase # "scan"
    /\ stopping
    /\ CatchUpReturns
    /\ UNCHANGED <<log, cursor, start, op, position, page, full, stopping,
                   history, disruptions>>

-----------------------------------------------------------------------------
(* _scan_latest *)

\* A 200 answer during the scan: move to the last row, stop at a short page.
ScanPage ==
    /\ pc = "fetch"
    /\ phase = "scan"
    /\ ~stopping
    /\ \E cap \in ServerCaps : LET found == PageAfter(position, cap) IN
       /\ IF found = {}
          THEN position' = position
          ELSE \E s \in found : (\A t \in found : t <= s) /\ position' = s
       /\ pc' = IF Cardinality(found) < PageSize THEN "scanned" ELSE "fetch"
    /\ UNCHANGED <<log, cursor, start, op, phase, page, full, stopping, returned,
                   history, disruptions>>

\* stop() ends the scan early: the position reached so far is used.
ScanStopped ==
    /\ pc = "fetch"
    /\ phase = "scan"
    /\ stopping
    /\ pc' = "scanned"
    /\ UNCHANGED <<log, cursor, objVars, returned, history, disruptions>>

\* The scanned position is committed when positive, and phase 1 begins.
CommitLatest ==
    /\ pc = "scanned"
    /\ cursor' = IF position > 0 THEN position ELSE cursor
    /\ floor' = Larger(floor, position)
    /\ phase' = "catchup"
    /\ pc' = "fetch"
    /\ UNCHANGED <<log, start, op, position, page, full, stopping, returned,
                   handled, backlog, capped, rewound, disruptions>>

-----------------------------------------------------------------------------
(* _catch_up and _deliver *)

\* The cursor is committed before the callback runs.
BeginCallback_CommitsFirst ==
    /\ pc = "page"
    /\ ~stopping
    /\ \E s \in page : NextUp(s) /\ cursor' = s
    /\ pc' = "callback"
    /\ UNCHANGED <<log, objVars, returned, history, disruptions>>

\* The next undelivered row is handed to on_signal (after unsealing).
BeginCallback ==
    /\ pc = "page"
    /\ ~stopping
    /\ \E s \in page : NextUp(s)
    /\ pc' = "callback"
    /\ UNCHANGED <<log, cursor, objVars, returned, history, disruptions>>

\* on_signal returns: the position advances before the cursor is committed.
CallbackReturns ==
    /\ pc = "callback"
    /\ \E s \in page :
          /\ NextUp(s)
          /\ handled' = handled \cup {s}
          /\ position' = s
          /\ page' = page \ {s}
    /\ pc' = "commit"
    /\ UNCHANGED <<log, cursor, start, op, phase, full, stopping, returned,
                   floor, backlog, capped, rewound, disruptions>>

\* A failing signal is logged and passed over.
CallbackRaises_Skips(kind) ==
    /\ pc = "callback"
    /\ \E s \in page : NextUp(s) /\ position' = s /\ page' = page \ {s}
    /\ pc' = "commit"
    /\ UNCHANGED <<log, cursor, start, op, phase, full, stopping, returned,
                   history, disruptions>>

\* unseal_signal or on_signal raises: nothing is committed, the page is lost.
CallbackRaises(kind) ==
    /\ pc = "callback"
    /\ Raise(kind)

\* One commit per page instead of one per signal.
Commit_PerPage ==
    /\ pc = "commit"
    /\ cursor' = IF page = {} THEN position ELSE cursor
    /\ pc' = "page"
    /\ UNCHANGED <<log, objVars, returned, history, disruptions>>

\* cursor_store.commit succeeds.
Commit ==
    /\ pc = "commit"
    /\ cursor' = position
    /\ pc' = "page"
    /\ UNCHANGED <<log, objVars, returned, history, disruptions>>

\* cursor_store.commit raises (in CommitLatest's place, too): the position has
\* moved and the cursor has not.  A store raises OSError or sqlite3.Error
\* ("other") or a CursorCorruptError ("fatal"): neither is swallowed.
CommitRaises ==
    /\ pc = "commit" \/ (pc = "scanned" /\ position > 0)
    /\ \E kind \in {"fatal", "other"} : Raise(kind)

\* A full page is taken for the last one.
PageDone_OnePage ==
    /\ pc = "page"
    /\ stopping \/ ~\E s \in page : NextUp(s)
    /\ page' = {}
    /\ CatchUpReturns
    /\ UNCHANGED <<log, cursor, start, op, position, full, stopping, history,
                   disruptions>>

\* The page is used up, or stop() was seen between two rows: a full page is
\* followed by the next query, a short one ends _catch_up.
PageDone ==
    /\ pc = "page"
    /\ stopping \/ ~\E s \in page : NextUp(s)
    /\ page' = {}
    /\ IF full /\ ~stopping
       THEN pc' = "fetch" /\ UNCHANGED <<phase, returned>>
       ELSE CatchUpReturns
    /\ UNCHANGED <<log, cursor, start, op, position, full, stopping, history,
                   disruptions>>

-----------------------------------------------------------------------------
(* _run_poll *)

\* poll_interval elapsed without stop(): the next cycle queries the relay.
PollTick ==
    /\ pc = "poll"
    /\ ~stopping
    /\ pc' = "fetch"
    /\ UNCHANGED <<log, cursor, objVars, returned, history, disruptions>>

\* stop() during the wait: run() returns.
PollStopped ==
    /\ pc = "poll"
    /\ stopping
    /\ Return
    /\ UNCHANGED <<log, cursor, start, op, position, page, full, stopping,
                   history, disruptions>>

-----------------------------------------------------------------------------
Environment ==
    \/ \E s \in 1 .. MaxSeq : Append(s)
    \/ LoadRaises
    \/ Stop
    \/ Crash

\* The steps the subscriber's own thread takes, whatever the relay, the
\* callback and the store answer.
Step ==
    \/ FetchPage
    \/ AttemptFails
    \/ Retry
    \/ \E kind \in ErrorKinds : FetchRaises(kind)
    \/ FetchStopped
    \/ ScanPage
    \/ ScanStopped
    \/ CommitLatest
    \/ BeginCallback
    \/ CallbackReturns
    \/ \E kind \in ErrorKinds : CallbackRaises(kind)
    \/ Commit
    \/ CommitRaises
    \/ PageDone
    \/ PollTick
    \/ PollStopped

Operator ==
    \/ \E m \in StartModes : Construct(m)
    \/ \E method \in {"run", "catch_up_only"} : Call(method)

Next == Environment \/ Step \/ Operator

Spec == Init /\ [][Next]_vars

\* The thread keeps running, whatever it is answered; nothing else is assumed.
ThreadFairness == WF_vars(Step)

\* A supervisor restarts the process, replaces a stopped object, and calls it.
SupervisorFairness ==
    /\ WF_vars(\E method \in {"run", "catch_up_only"} : Call(method))
    /\ SF_vars((stopping \/ ~Alive) /\ \E m \in StartModes : Construct(m))

\* The relay, the callback and the store do not fail forever: retried often
\* enough, each succeeds.
AnswerFairness ==
    /\ SF_vars(FetchPage)
    /\ SF_vars(ScanPage)
    /\ SF_vars(CommitLatest)
    /\ SF_vars(CallbackReturns)
    /\ SF_vars(Commit)

StoppableSpec == Spec /\ ThreadFairness

-----------------------------------------------------------------------------
(* Properties *)

\* The variables keep their types, and the program counter its meaning.
TypeOK ==
    /\ log \subseteq 1 .. MaxSeq
    /\ cursor \in Nat
    /\ pc \in {"down", "idle", "fetch", "backoff", "scanned", "page",
               "callback", "commit", "poll"}
    /\ start \in [kind : {"cursor", "earliest", "latest", "int"}, n : Nat]
    /\ op \in {"run", "catch_up_only"}
    /\ phase \in {"scan", "catchup", "live"}
    /\ position \in Nat
    /\ page \subseteq log
    /\ full \in BOOLEAN
    /\ stopping \in BOOLEAN
    /\ returned \in BOOLEAN
    /\ handled \subseteq log
    /\ floor \in Nat
    /\ backlog \subseteq log
    /\ capped \in BOOLEAN
    /\ rewound \in BOOLEAN
    /\ disruptions \in 0 .. MaxDisruptions

Accounted(n) == \A s \in log : s <= n => s \in handled \/ s <= floor

\* No silent loss: whatever crashed, raised or was stopped, every signal at or
\* below the durable cursor was handled, or lies at or below a starting point
\* the operator chose.  (_deliver commits only after the callback returned.)
NoLoss == Accounted(cursor)

\* At most one redelivery: as long as every run started from the cursor, a
\* signal handled but not covered by the cursor is the very first one the next
\* run asks for, so a restart repeats at most that one callback.
RedeliveryWindow ==
    ~rewound =>
        \A s \in handled : s > cursor => \A t \in log : t > cursor => s <= t

\* catch_up_only() "drains the REST backlog": when it returns normally, nobody
\* called stop() and the relay cut no page short, every signal that existed when
\* it was called has been handled or was skipped on the operator's request.
BacklogDrained ==
    (returned /\ op = "catch_up_only" /\ ~stopping /\ ~capped) =>
        \A s \in backlog : s \in handled \/ s <= floor

\* Within a run the position only grows, one log entry at a time: no signal of
\* the log lies between two consecutive deliveries.
InOrder ==
    [][(Running /\ phase # "scan" /\ position' # position /\ pc' = "commit") =>
          /\ position' > position
          /\ \A s \in log : ~(position < s /\ s < position')]_vars

\* A run that starts from the cursor never moves the durable cursor back, over
\* any number of crashes, stops and failed commits.
CursorMonotonic == [][cursor' < cursor => start.kind # "cursor"]_vars

\* run() and catch_up_only() end after stop(), however the relay behaves: the
\* unbounded retry loop is not deaf to it.
StopEnds == stopping ~> ~Running

\* Offline for a weekend, you miss nothing: under a supervisor that starts from
\* the cursor from some time on, every signal of the (bounded) log is eventually
\* handled, or skipped because the operator asked, however the relay cuts pages.
EventuallyHandled ==
    (SupervisorFairness /\ AnswerFairness /\ <>[](start.kind = "cursor")) =>
        <>[](\A s \in log : s \in handled \/ s <= floor)

\* The subscriber implements the abstract promise.
Promise == INSTANCE OrderedDelivery
ImplementsPromise == Promise!Spec

=============================================================================
