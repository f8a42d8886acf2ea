# Specifications of the MultiEdge relay client

TLA+ specifications of `multiedge_relay`, the Python client of the MultiEdge
Signal Relay, with the TLC configurations that check them and the TLAPS proofs
about them. Paths below are relative to `src/src/multiedge_relay/` unless they
start with `src/`.

The relay is a service: publishers POST signals, the relay gives each the next
sequence of its strategy, and subscribers read them by REST pages, by pushed
websocket frames, or by webhooks. The package is the client side of all of it, and
its promises are those of a message system: nothing published is silently lost,
nothing is delivered out of order, a restart resumes where the last commit left
off, and a handler wrapped by the SQLite store takes effect exactly once.

## 1. Inventory

| Component | State | Operations | What is hard |
|---|---|---|---|
| Subscriber, poll transport (`subscriber.py`) | position, current page, stop flag, retry loop; the durable cursor in a `CursorStore` | `run`, `catch_up_only`, `stop`; page queries with retries, `_deliver`, the `"latest"` scan | crash or stop between callback, position and commit; unbounded retries; four start modes; a server that caps pages; the relay appending meanwhile |
| Subscriber, webpubsub transport (`subscriber.py`) | the above, plus reorder buffer, pre-live frames, buffering flag, delivery lock, stashed error | negotiate, connect, catch up, drain, receive a frame, fill a gap, reconnect | handlers on the client's threads; the switch from buffered to live; lost, repeated and reordered frames; errors that must cross threads |
| SQLite state store (`state_sqlite.py`) | tables `cursor` and `processed`, the user's own rows, one connection with an open transaction or none, a lock | `load`, `commit`, `exactly_once(_tx)`, `process`, `prune`, open, close | two channels deliver the same signal; crash around COMMIT; markers deleted by later commits and by age; a failing write |
| Publishers (`publisher.py`, `publisher_async.py`) | the `dlq` attribute, the sealer | `publish`, `publish_many` | an answer lost after the relay accepted; giving up; `resend()` borrowing the object |
| Disk dead-letter queue (`dlq.py`) | one JSONL file per strategy and day | `append`, `pending`, `resend`, `purge` | read and rewrite while others append; crash in the middle; entries that fail again |
| Retry policy (`_retry.py`) | none (loops keep attempts and elapsed time) | `next_delay`, `backoff_delay`, `parse_retry_after` | where attempt cap, budget and `Retry-After` meet; staying alert to `stop()` |
| Sealed mode (`sealed/`) | recipients and sender key a `Sealer` fixed, sender key an `Unsealer` fixed, keys on the relay, key files | key generation, files and registration, `from_relay`, `seal`, `unseal` | keys that go stale at either end; sealing, dead letters and deduplication together; two key generations on one file, one that dies half-way |
| File cursor store (`cursor.py`) | one JSON file per strategy | `load`, `commit` | crash between temporary file and `os.replace`; a second writer; a reader that denies the replace; damaged files; ids that share a file |
| Webhook and frame verification (`webhook.py`) | none | `verify_signature`, `verify_ws_frame` | clock skew |
| ULID generator (`ulid.py`) | last millisecond and random part | `new_ulid` | a clock that steps back |
| Command line (`cli.py`) | none | `dlq`, `cursor`, `sealed` commands | acts on files that running processes use |
| Models, exceptions, HTTP client, examples | none, or none of their own | | |

How they interact. A subscriber calls `CursorStore.load` once per run and `commit`
after each callback. `SqliteStateStore` is such a store, and also wraps the callback,
so that one connection and one lock serve the cursor, the ledger and webhook workers
of the same process. A publisher appends to a `DiskDLQ` when it gives up;
`DiskDLQ.resend` calls back into a publisher and takes its `dlq` away for the duration. A
`Sealer` acts inside `prepare_signal`, an `Unsealer` inside `_deliver`. Retry loops
of both sides ask a `RetryPolicy`.

What makes each correct, in a line: the cursor stands only for signals handled or
deliberately skipped (subscribers); a signal's rows are committed at most once, and
the ledger neither claims nor forgets one (store); what `publish` reported as
dead-lettered is in the queue or on the relay, once (outbox); no bound is overshot, and
giving up during an outage takes the attempt cap or an outage that exceeds the budget
(retry); what a callback reads is what was published
under that id (sealed); a commit is one step whatever happens around it, and a key
whose fingerprint peers hold is not lost (local files).

## 2. Modules

| Module | Models | Extended or instantiated by |
|---|---|---|
| `OrderedDelivery` | the abstract promise of a subscriber: log, handled, cursor, and the floor an operator chose | instantiated by both subscribers |
| `Subscriber` | poll transport: construct, call, scan, query, retry, deliver, commit, poll, stop, crash | `MCSubscriber`, `SubscriberProofs` |
| `WsSubscriber` | webpubsub transport: one main thread and handler threads | `MCWsSubscriber`, `WsSubscriberProofs` |
| `StateStore` | the SQLite file between a subscriber and webhook workers | `MCStateStore`, `StateStoreProofs` |
| `Outbox` | publishers, dead-letter files, `resend` and `purge` | `MCOutbox`, `OutboxProofs` |
| `RetryPolicy` | `next_delay` in the loop of its users | `MCRetryPolicy`, `RetryPolicyProofs` |
| `SealedMode` | sealing, dead letters, resends and unsealing over registered keys | `MCSealedMode`, `SealedModeProofs` |
| `CursorRegister` | the abstract promise of `commit()`: a register per file, replaced in one step or not at all | instantiated by `CursorFile` |
| `Ulid` | `new_ulid()`: clock, last millisecond and random part of each process | extended by `CursorFile` |
| `CursorFile` | cursor files and the processes on them: runs, `cursor show`, `cursor reset` | extended by `LocalFiles` |
| `KeyFile` | key files and `sealed keygen`, `fingerprint`, `register` | extended by `LocalFiles`, `KeyFileProofs` |
| `LocalFiles` | the two kinds of local files together | `MCLocalFiles`, `CursorFileProofs` |

A program counter `pc` names the statement a thread is about to execute; one action
is the code up to the next point where another thread, the relay or a crash can
intervene. Variables carry the names of the attributes they model; those marked
*history* are not in the program and exist for the properties. `PROJECT.json` gives the
source lines of every definition. A definition `X_Something` is a faulty variant of
`X`: it is in no specification, and the property it is paired with fails when it takes
the place of `X`.

*Subscriber.* `pc` runs `idle`, `fetch`, `backoff`, `scanned`, `page`, `callback`,
`commit`, `poll`. A page is the set of its undelivered sequences. `_deliver` is three
steps (callback, position, commit), because a crash, a stop or an exception may fall
between them. Exceptions are told apart by the handler of `_run_poll` that catches
them.

*WsSubscriber.* The main thread and the handlers are `Threads` with a `pc` each. The
wire is a set, so frames are reordered freely; faults lose or repeat them, or let
verification fail. `_catch_up` runs without the delivery lock, as in the code. The relay
may cap a page below `page_size`, which ends a catch-up, and a gap fill, early. `run()` may
be called again on the same object (`RunAgain`), which then keeps its buffers, stashed
error and stop flag; a supervisor that makes a new object is `Run` after a crash or an end.

*StateStore.* A delivery holds `lock` and `inTx` from BEGIN to COMMIT. That of a duplicate
holds the lock without a transaction, while `on_duplicate` or the body of `process()`
runs. `rows[s]` counts how often a handler's own rows were committed for signal `s`.
Pruning by age may delete any marker whose signal has left the relay's window. `close()`
waits for the lock; threads that still hold the store meet its errors, and a new one is
opened after.

*Outbox.* An entry is the pair of the caller's intent and the `client_signal_id`. A
torn append leaves a line that does not parse, a triple: "open" until the next append
continues it. Reading a file with such a line raises. `publish()` reads its `dlq` twice
when it gives up (`giveup`, then `spill`), and a `resend` may take it in between.
`resend` and `purge` are read, act and rewrite steps, file by file; `publish` inside
`resend` is the same loop as everybody's.

*RetryPolicy.* Time in ticks; an attempt takes one tick or more; jitter is any value
up to the exponential term. The relay is down for the first `outage` ticks. A
`Retry-After` that is a number too large for a float ends the loop by an exception
("raised").

*SealedMode.* An envelope is a record of what unsealing depends on; no two sealings
are equal, as each draws fresh randomness. The relay deduplicates by id and payload. A
publisher seals with the key pair it has, the newest registered one or not. A pinned
sender key other than the relay's, which keeps an `Unsealer` from being built, is left out.

*CursorFile.* A process is down or executes one command; `pc` names its next file
operation: `read` (the file is open), `handle`, `commit` (about to name the temporary
file), `write`, `replace`, `done` or `raise` (the `finally` block is left). The
temporary file is named by `Ulid`, whose state is per process. `file[f]` keeps the last
sequence moved in when the file is damaged, so that the properties can say what was
lost; the program never reads it then. The SQLite store and this one are the two
`CursorStore`s of the subscribers, which take `commit` as one durable step: for this
one, `ImplementsRegister` says so.

*KeyFile.* A key pair is a number, and a key file holds it three times: as `kid`, in the
public bundle and in the private seeds, because each can be damaged on its own and
`load()` compares only the first two.

## 3. Runs

Distinct states and the time on two workers are rounded.

| Run | Checks | Bounds | States |
|---|---|---|---|
| `subscriber` | `TypeOK`, `NoLoss`, `RedeliveryWindow`, `BacklogDrained`, `InOrder`, `CursorMonotonic`, `ImplementsPromise`, `StopEnds`, `EventuallyHandled` | 3 sequences with holes, pages of 2 capped by the server to 1 or not, every start mode, 2 stops, crashes or failures | 300 000, 110 s |
| `ws_safety` | `OneDeliverer`, `NoFrameSlips`, `InOrder`, `ImplementsPromise` | 3 sequences, 2 handlers, buffer of 1, pages capped by the server to 1 or not, `run()` called again on the same object, every kind of fault, 2 faults | 1 800 000, 30 s |
| `ws_live` | `EventuallyHandled`, `StopEnds` | 3 sequences, 1 handler, buffer of 2, duplicates, crashes and stops; full pages, a new object for each run | 220 000, 35 s |
| `store_shared` | `ExactlyOnce`, `LedgerExact`, `TransactionsEnd`, `EventuallyProcessed` | 3 signals, subscriber and 1 webhook worker, `"cursor"` and `"latest"`, crash, stop, close, failing handler and disk, 2 faults | 107 000, 13 s |
| `outbox` | `TypeOK`, `NothingLost`, `OnceOnly`, `SuspensionEnds`, `EventuallyAccepted` | 2 producers, 2 intents, 2 days, 2 attempts, 1 crash, torn line, rejection or purge | 850 000, 130 s |
| `retry_policy` | `WithinBounds`, `RidesOut`, `StopHeard` | three policies, hints below and beyond every bound and one that is no float, outages up to 12 ticks against a budget of 9 | 45 000, 2 s |
| `sealed` | `ReadsPlaintext`, `StoresCiphertext`, `NeverTrapped`, `NothingSkipped`, `EventuallyRead` | 2 subscribers, 2 signals, 2 sender keys, either of which a publisher may hold, 2 failures | 630 000, 100 s |
| `local_files` | `TypeOK`, `UlidsOrdered`, `CursorHonest`, `TempsRemoved`, `KeysKept`, `ImplementsRegister`, `NeverSilentlyReset`, `CommitEnds` | cursors: 2 processes, 3 ids of which 2 share a file, 3 commands, 2 sequences, resets to -1 and 1, 2 replace attempts, 1 fault; keys: 2 processes, 1 file, 4 commands, 2 faults | 2 000 000, 125 s |
| `ws_stale_buffer` | `LockReleased`, violated | 1 failing callback | finding 1 |
| `store_replay` | `ExactlyOnce`, violated | replay with `"earliest"` | finding 2 |
| `outbox_race` | `NeverLost`, violated | no fault at all | finding 3 |
| `sealed_resend` | `ReadsPlaintext`, violated | 1 failing publish, resent by the application | finding 4 |

Why the bounds are enough to be interesting. Three or four sequences are more than one
page, leave room for a hole in the middle, and put a frame two ahead of the position,
which is what parking and draining need. The server cap lies once below and once above
`page_size`. A buffer of 1 overflows and one of 2 holds two frames. Two handlers are
enough for two threads at the lock while the main thread catches up. Two faults allow
a crash during the recovery from a first fault. Two days put an append and a rewrite
in the same and in different files. The retry instance has an outage that ends before,
at and after each bound. In `local_files` two commits race with each other, with a
reader and with a reset, and a third command meets what they left; the random part of an
id overflows after two ids in a millisecond, and the clock may be set back once; one key
file is enough for two key generations to meet on it, and four commands for one to
publish what another damaged. Processes are interchangeable, and so are the two ids that
share a file: the run uses that symmetry.

`CHECK_DEADLOCK` is off where the program ends by itself: a supervised run that has
used its bounded sequences, a retry loop that ended, a violation run, local commands
that were all used. It is on for `subscriber`, `outbox` and `sealed`, which can always
go on.

### Fairness

`Subscriber`: `StoppableSpec` assumes only that the thread keeps running, and that is all
`StopEnds` needs. `EventuallyHandled` names what else it needs as its hypotheses: a
supervisor that restarts the process, from some time on from the cursor (the client
documents itself as a daemon), and that the relay, the callback and the store do not fail
for ever: each is retried without bound, and an action that is enabled infinitely often
eventually succeeds. `WsSubscriber`: threads run, frames on the wire arrive, the run is
restarted. `ws_live` gives the run full pages and a new object: with a server cap below
`page_size` a catch-up ends on its first short page, and what is beyond waits for the next
frame or connection; and an object that was stopped stays stopped. `StateStore`: threads
run. An `RLock` promises no turn to a thread that waits, so `EventuallyProcessed` has a
hypothesis: from some time on no webhook worker holds the lock (without it TLC finds the
subscriber starved by one duplicate after the other); webhook deliveries themselves are
owed nothing. `Outbox`: producers run, the operator resends repeatedly, an entry posted
over and over is accepted. `SealedMode`: a supervisor restarts subscribers, and restarts
do not always come before the next delivery; `EventuallyRead` speaks of logs sealed, up to
the signal in question, under the sender key that is registered and stays so
(`CurrentKeys`). `LocalFiles` needs none: `CommitEnds` bounds the number of operations a
commit has left. No fairness is assumed of faults, stops, new signals, registrations or
key changes.

### Assumptions about the outside

- The relay appends in sequence order, pages are sorted, holes are possible, and POST
  is deduplicated by `client_signal_id` and payload (`src/tests/fake_relay.py` and the
  handling of 200, 201 and 409 in `publisher.py`).
- `CloseJoins`: leaving the websocket client's context waits for handlers in flight.
  The client is a third-party package. With `CloseJoins = FALSE` TLC finds `OneDeliverer`
  and `InOrder` violated: a handler still in `_handle_live_message` delivers while the
  next connection's catch-up, which takes no lock, delivers too.
- A start mode is what the operator asked for: `"latest"` and integers move the floor
  up to which nothing is promised.
- `retention_days` is at least the relay's own replay window, and a signal that left
  the window is not in flight.
- File systems: `os.replace` is atomic and `O_EXCL` exclusive; ids drawn by live
  processes in one millisecond differ in their random part (80 bits). A file damaged
  from outside no longer parses, or a key file still parses with one part changed.
- Faults are bounded in number, as the cfg files say.

## 4. Proofs

Eight modules are checked by TLAPS: one for each component, and `CursorFileProofs` on top
of `KeyFileProofs` for the local files. They assume what the modules name
(`BoundsAssumption`, `StartModesAssumption`, `WsAssumption`, `StoreAssumption`,
`OutboxAssumption`, `RetryAssumption`, `SealedAssumption`, `UlidAssumption`,
`CursorAssumption`, `KeyAssumption`), which give constants their types and keep names
apart: the theorems hold for every bound, page size, server cap, policy, delay and hint,
and any number of signals, threads, processes, producers and files. Every safety
property of the passing runs is a theorem.

| Theorem | Says |
|---|---|
| `TypeCorrect` (`Subscriber`) | `Spec => []TypeOK` |
| `NoSilentLoss` | `Spec => []NoLoss` |
| `DeliversInOrder` (`Subscriber`) | `Spec => InOrder` |
| `AtMostOneRedelivery` | `Spec => []RedeliveryWindow`, which is about runs with `start_from="cursor"` |
| `CursorNeverGoesBack` | `Spec => CursorMonotonic` |
| `BacklogIsDrained` | `Spec => []BacklogDrained` |
| `Refinement` (`Subscriber`) | `Spec => ImplementsPromise` |
| `NothingStaysParked` (`WsSubscriber`) | `Spec => []NoFrameSlips` |
| `ThreadsTakeTurns`, `DeliversInOrder`, `Refinement` (`WsSubscriber`) | with `CloseJoins`, `OneDeliverer`, `InOrder`, `ImplementsPromise` |
| `CommittedOnce`, `LedgerIsExact`, `NoTransactionStays` | without `"earliest"`, `ExactlyOnce`, `LedgerExact`, `TransactionsEnd` |
| `TypeCorrect` (`Outbox`), `NothingIsLost`, `OnlyOnce`, `SuspensionAlwaysEnds` | `TypeOK`, `NothingLost`, `OnceOnly`, `SuspensionEnds` |
| `TypeCorrect` (`RetryPolicy`), `BoundsKept`, `OutageRiddenOut`, `StopHeardInTime` | `TypeOK`, `WithinBounds`, `RidesOut`, `StopHeard` |
| `OnlyCiphertextStored`, `NothingIsSkipped` | `StoresCiphertext`, `NothingSkipped` |
| `CallbacksReadPlaintext`, `DeadLettersGoThrough` | unless the application resends, `ReadsPlaintext`, `NeverTrapped` |
| `UlidsInOrder`, `CursorsAreHonest`, `TempsAreRemoved` | `CursorSpec => []P` for `UlidsOrdered`, `CursorHonest`, `TempsRemoved` |
| `NoSilentReset`, `CommitIsBounded`, `CommitIsAtomic` | `CursorSpec => P` for `NeverSilentlyReset`, `CommitEnds`, `ImplementsRegister` |
| `AnnouncedKeysAreKept` | `KeySpec => []KeysKept` |
| `LocalImplements`, `LocalTypes` | `LocalSpec => CursorSpec /\ KeySpec`, so that the rows above hold of it, and `LocalSpec => []TypeOK` |

Three hypotheses limit theorems, and a counterexample of TLC shows each to be needed.
`CloseJoins` says what the websocket client's close does (section 3). A replay with
`"earliest"` breaks `ExactlyOnce`, which is finding 2, and a resend by the application
breaks `ReadsPlaintext`, which is finding 4.

The argument for the subscriber. `NoLoss` speaks of the durable cursor, but the cursor
is copied from the position, so the invariant must hold of the position first
(`PositionOK`), in every phase but the `"latest"` scan, where the position runs ahead
on purpose (`PhaseOK`). The position jumps from one row of a page to the next, so a page
must have no gap below any row of it (`PagePrefix`); that follows from the relay
returning the first rows above the position asked for (`PageIsPrefix`, by cardinality).
New signals enter the log above everything in it; they could only break `NoLoss` if the
cursor were already beyond the log, hence `Reached`. `IInv` is the conjunction. For the
cursor mode, a second invariant, `WInv`, says that the position is the cursor except
between a callback and its commit, and that only the signal in between may have been
handled beyond the cursor. The refinement maps the variables
of the same names: a callback that returns is `Handle`, a commit is `Commit`, a start
mode other than the cursor is `Skip`, everything else stutters. `BacklogDrained` needs one
more fact: a page that is neither full nor cut short holds all that was in the log past
the position when it was asked for (`LastPage`), and only after such a page does
`catch_up_only()` return by itself.

The argument for the websocket subscriber. A delivery takes three steps of one thread,
and another thread in between would commit a position that is not its own. Two things
exclude that: the lock, for handlers and for gap fills (`LockOK`), and, for the catch-up,
which takes no lock, that handlers do nothing before the main thread has switched to live
handling, and that it does not connect again before the last of them is done
(`PhaseOK`). The second is `CloseJoins`. So the position is stable while a thread chooses
what to deliver, and a page it holds is still a prefix of the log past the position
(`PageOK`, from `PageIsPrefix` again), whichever frames were parked meanwhile. What is
delivered is then the next entry of the log (`DeliveryOK`), everything up to the position
has been handled (`Settled`), and the refinement is that of the poll subscriber, with no
`Skip`. That no frame stays parked needs none of this: the flag is only cleared in the
step that finds the list empty.

The argument for the retry loop. An attempt is started only below the cap
(`AttemptsLeft`); a failed attempt began while the relay was down, so it ended less than
one request after it came back (`FailedInOutage`), and giving up by the budget then
contradicts that the outage fits; a stop that arrived before an attempt or decision has
not aged yet (`JustStopped`). A policy that has an attempt cap, as the default publisher's
(25 attempts, 90 s), may use it up before the outage is over: `RidesOut` says that this or
the budget was the reason, and no more.

The argument for the store. A handler runs only for a signal the ledger does not know, and
by the ledger's exactness such a signal has no rows yet: `ExactlyOnce` follows from
`LedgerExact`, but only if what was unknown at BEGIN is unknown at COMMIT, which the lock
guarantees (`LockOK`, `DeliveryOK`). Exactness survives `commit()` because the cursor row
only grows while a run lasts, and because everything up to the position is settled
(`SubOK`); a replay breaks the first of these, which is finding 2.

The argument for the outbox. All traces of an intent carry the id it was prepared with
(`OneId`), and only an intent whose `publish()` is over has lines in the queue
(`StatusOK`), one line in one file (`OneLine`): appending a second would take a second
`publish()` of the intent. While the operator works on a file, its lists split what it
read of it, so that an entry is not both written back and tried again, and one it is done
with is in the log (`ResendOK`). Rewriting the file loses, at most, lines it has not
read; by `Covered` these were appended since, and are `raced`.

The argument for sealed mode. Deliveries, dead letters and resends handle whole
envelopes, so it is enough that there is one envelope to an id (`OneEnvelope`), sealed
around the plaintext published under it (`BoundOK`). A stored signal and the log then
agree on an id, and the relay's 409 cannot happen; an envelope that opens under its id is
the one of that id. A resend through a publisher with a sealer makes a second envelope,
hence the hypothesis.

The argument for the cursor files. Two commits may run at once, on two ids that share a
file or with a reset, and each replaces the file by its temporary file. They are kept
apart by the names: ULIDs of live processes differ, which section 3 assumes of their random
parts, as it does for one process whose clock was set back (the order up to then, `UlidOK`,
is proved), and the temporary file of a name belongs to the
one commit that drew it (`TempsOK`). What is replaced is
thus what was asked for, which is the refinement: `os.replace` is the register's write,
every other operation stutters. A subscriber only counts up from what it loaded, and only
from signals it handled (`HonestOK`); and as long as its file had one user at a time, the
file is not ahead of it (`AheadOK`), so that its commits never move the cursor back.

The argument for the key files. A fingerprint is given out after the file was written or
read whole. A file that may still be filled is one that its keygen created, under a key
of its own (`HeldOK`, `HeldDistinct`, `FillOK`), so no keygen ever fills another's; and
what a whole file holds is one generated key, up to the parts that were damaged
(`FilesOK`). What `register` has read may be replaced before it is posted only by a
deletion, which is on record (`PostOK`).

Model-checked only: `StopEnds`, `EventuallyHandled`, `EventuallyProcessed`,
`EventuallyAccepted` and `EventuallyRead`, which are liveness under the fairness above, out
of this prover's reach.

## 5. Findings

With a run:

1. *Stale reorder buffer* (`subscriber.py:455`). After a callback error and a
   reconnect, parked frames lie below the position and `_drain_with_fill` spins, holding
   the delivery lock, until `stop()`. Lines 429 and after say that duplicates are dropped.
2. *Replay undoes the ledger* (`state_sqlite.py:204`). `commit()` replaces the cursor row by
   a smaller one after the markers it had absorbed were deleted; the handler completes
   again, against lines 20-21.
3. *Append lost under a rewrite* (`dlq.py:187`). An entry appended between the reading
   and the rewriting of its file by `resend` or `purge` is removed unsent.
   `NothingLost` holds with that window as its one exception.
4. *Double sealing* (`publisher.py:68`). A resend through a publisher that has a sealer
   seals the stored envelope again, against lines 51-52. The command line has none, and
   with it everything in `sealed` holds.

Found while modelling and left without a run. Where a property excepts one, its name
follows; most are hazards of `PROJECT.json`, at the line where they bite:

- `process()` leaves its transaction open when the marker or COMMIT raises, outside its
  `try` (`state_sqlite.py:290`, against lines 272-273): every later BEGIN of the process
  raises. `leftOpen` in `TransactionsEnd` and `EventuallyProcessed`.
- A run with `"latest"` or an integer makes the store answer "processed" for signals
  nobody processed, over webhooks too (`state_sqlite.py:15-16`). `floor` in `LedgerExact`.
- A hole directly below a live frame is not passed over (`subscriber.py:461-462`): the
  gap fill gives up and the run ends. A restart's catch-up delivers the row beyond the
  hole; a hole below a later frame ends that run, too.
- A page that the relay cut short ends a catch-up, and a gap fill with
  `GapUnrecoverableError` (`subscriber.py:487`), though more rows follow. With the default
  `page_size`, which is the relay's maximum, it does not happen.
- A second `run()` on an object that was stopped returns at once (`subscriber.py:237`):
  nothing clears the stop flag. On one that was not, parked frames and a stashed error of
  the first run are still there (`RunAgain`).
- Callback errors: the docstrings (`subscriber.py:111-113`, 547) say that run() halts. The
  poll loop swallows those that are `MultiEdgeError` or `httpx.HTTPError` (line 418), and
  the websocket loop any (line 573); both repeat the callback.
- A dropped last frame is noticed only by the next frame or connection (line 613).
- A 401, 413, 422 or 409 for one entry aborts every `resend` at it (`dlq.py:183`).
- After a new sender key, a restarted subscriber pins it and is stopped for good by an
  unread signal of the old one (`sealed/registry.py`, `Unsealer.from_relay`).
- A torn line of a dead-letter file keeps `resend`, `list` and `purge` from reading any
  of the queue until it is edited by hand (`dlq.py:142`). `EventuallyAccepted` excepts it.
- `publish()` reads `self.dlq` twice (`publisher.py:239-241`). When `resend()` suspends it
  in between, `AttributeError` is raised in place of `PublishFailed`, and the signal is
  neither acknowledged nor dead-lettered (`DlqGone`). `NothingLost` is about signals
  reported as dead-lettered, which this one is not.
- Two `resend()` at once through one publisher (`dlq.py:174-190`): the second saves the
  suspended `None` as the original and, if it ends last, leaves the publisher without a
  dlq. `Outbox` has one operator, and `SuspensionEnds` says nothing of two.
- A `Retry-After` of several hundred digits, too large for a float, raises `OverflowError`
  in `float(int(raw))` (`_retry.py:124`), though line 53 has an absurd value clamped: it
  leaves `publish()` without a dead letter, and leaves `run()`. `HintOverflows` in
  `RetryPolicy`.
- Two ULIDs of one process are out of order when the clock was set back between them
  (`ulid.py:52`), though line 44 has later calls sort after earlier ones without exception.
  `steppedBack` in `UlidsOrdered`.
- `resend()` publishes old signals after newer ones (`dlq.py:182`): the relay orders by
  arrival, so that a subscriber applies the older state last. No text promises otherwise.
- Two strategy ids may sanitise to one cursor file (`cursor.py:72`), and each resumes from
  the other's cursor. `Aliased` in `CursorHonest`.
- A `cursor reset` while a run goes on is undone by the run's next commit (`cli.py:175`).
  `shared` in `NeverSilentlyReset`.
- `cursor reset --to -1` is accepted and reported as done (`cli.py:175`); every later
  `load()` refuses the file as corrupt (`cursor.py:98`), until another reset.
- A cursor file that is not UTF-8 raises `UnicodeDecodeError` (`cursor.py:89`), not the
  `CursorCorruptError` of the docstring (lines 84-85): `cursor reset` ends on it without
  repairing the file, which its handler for corrupt cursors is for.
- Damaged seeds of a key file go unnoticed (`sealed/keys.py:184`, 307): `load()` compares
  `kid` with the stored bundle only, and the key pair rebuilt from the seeds is another,
  whose fingerprint is then printed and registered. `Spoiled` in `KeysKept`.
- A key generation that dies half-way leaves a file that does not load and that no
  later one overwrites (`sealed/keys.py:94`); it has to be deleted by hand.
- The store's lock is re-entrant "so a handler ... may call seen()/prune()"
  (`state_sqlite.py:132-133`); `prune()` inside a handler raises, because BEGIN finds
  the delivery's transaction open, and the handler fails with it.

## 6. Not modelled

The cryptographic primitives, the envelope encoding and the fingerprint hash:
`SealedMode` and `KeyFile` take their contracts. Webhook verification is a stateless
check of one request, whose verdict is a choice in `WsSubscriber`. Formatting, listings,
models, exceptions and the HTTP client have no state. `StateStore` leaves out `seen()`,
which only reads, and the corruption and schema checks on open, which leave the file as
it is. Several processes on one state file are outside the store's contract
(`state_sqlite.py:37`). `publish_many` is a sequence of `publish()` calls and has no step
of its own. Cursor commands and key commands share no file, so `LocalFiles` has
behaviours of one kind or the other.

A second operator on the same publisher object is left out of `Outbox` (section 5): two
`resend()` would need a second copy of its lists. That a freshly drawn 80-bit random part
never repeats an id is assumed in `Ulid`, as its `Fresh` says.

That variables keep their types is no property of a run in `WsSubscriber`, `StateStore`
and `SealedMode`: the inductive invariants of their proofs contain it.

## 7. Plan

Done, in this order: `OrderedDelivery`, `Subscriber` with proofs, `WsSubscriber`,
`StateStore` with proofs, `Outbox`, `RetryPolicy` with proofs, `SealedMode`, `Ulid`,
`CursorRegister`, `CursorFile`, `KeyFile` with proofs, `LocalFiles`; then the proofs of
`WsSubscriber`, `Outbox`, `CursorFile` and `SealedMode`.

Next:

1. `StateStore`: how much of `ExactlyOnce` survives a replay, as a theorem without the
   hypothesis on `"earliest"`: a row is committed again only after its marker was absorbed
   by a cursor that a replay moved back.
2. `WsSubscriber`: what holds without `CloseJoins`, first with TLC.
3. `Outbox`: an abstract queue that it implements outside the read-rewrite window.
