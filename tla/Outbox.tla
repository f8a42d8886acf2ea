------------------------------- MODULE Outbox --------------------------------
(***************************************************************************)
(* The publish side: SignalPublisher.publish (publisher.py), its async     *)
(* twin (publisher_async.py), and the disk dead-letter queue they spill to *)
(* (dlq.py), with an operator who runs resend() or purge() on it.          *)
(*                                                                         *)
(* Producers share one DLQ root; some of them, SharedWithResend, publish   *)
(* through the very publisher object the operator hands to resend(), which *)
(* suspends its dlq attribute.  resend() itself goes through the same      *)
(* publish loop as everybody.  One strategy; a file per day; an entry is   *)
(* the pair <<intent, client_signal_id>>, whose payload never changes.     *)
(* A line that no longer parses is a triple: "open" as long as the file    *)
(* ends in the middle of it, "closed" once the next entry completed it.    *)
(*                                                                         *)
(* The relay deduplicates by client_signal_id, so its log is a set.  How   *)
(* long a retry waits is abstracted: after any failed attempt the budget   *)
(* may be spent, and after MaxAttempts it is.                              *)
(*                                                                         *)
(* A definition named X_Something is X with a plausible bug, kept to show  *)
(* which property would notice it.                                         *)
(***************************************************************************)
EXTENDS Integers, Sequences, SequencesExt

CONSTANTS
    Producers,         \* threads, tasks or processes that call publish()
    SharedWithResend,  \* those whose publisher object resend() is given
    Intents,           \* what producers want published, once each
    MaxDay,            \* bound on the number of days
    MaxAttempts,       \* max_attempts
    Faults,            \* kinds of fault that may happen
    MaxFaults          \* bound on the number of faults

operator == "operator"
Threads == Producers \cup {operator}
Days == 1 .. MaxDay

ASSUME OutboxAssumption ==
    /\ operator \notin Producers
    /\ SharedWithResend \subseteq Producers
    /\ MaxDay \in Nat \ {0} /\ MaxAttempts \in Nat \ {0} /\ MaxFaults \in Nat
    /\ Faults \subseteq {"crash", "refused", "rejected", "purge", "torn"}

VARIABLES
    log,        \* what the relay accepted
    file,       \* the DLQ: the lines of each day's file, none if it is absent
    today,      \* the current day
    nextId,     \* the next client_signal_id new_ulid() draws
    outcome,    \* how the publish() of each intent ended, as its caller sees it
    pc,         \* where each thread is
    msg,        \* the prepared signal a thread publishes
    attempts,   \* HTTP attempts of that publish()
    suspended,  \* the shared publisher's dlq is None
    batch,      \* what the operator read of each file and has not settled
    paths,      \* files the operator still has to read, then to settle
    day,        \* the file it resends
    todo,       \* entries of that file still to be resent
    survivors,  \* entries of that file that failed again
    raced,      \* history: entries appended to a file between its reading and
                \* its rewriting
    purged,     \* history: entries an operator saw and purged
    faults      \* faults so far

publishVars == <<log, nextId, outcome, msg, attempts>>
resendVars == <<suspended, batch, paths, day, todo, survivors>>
history == <<raced, purged>>
vars == <<publishVars, file, today, pc, resendVars, history, faults>>

Entries(s) == {s[k] : k \in DOMAIN s}
Pending == UNION {Entries(file[d]) : d \in Days}
Torn(lines) == \E line \in Entries(lines) : Len(line) = 3
EndsOpen(lines) == lines # <<>> /\ Len(Last(lines)) = 3 /\ Last(lines)[3] = "open"
Empty == [d \in Days |-> <<>>]
Goto(t, label) == pc' = [pc EXCEPT ![t] = label]

Fault(kind) ==
    /\ kind \in Faults
    /\ faults < MaxFaults
    /\ faults' = faults + 1

Init ==
    /\ log = {} /\ file = Empty /\ today = 1 /\ nextId = 1
    /\ outcome = [i \in Intents |-> "new"]
    /\ pc = [t \in Threads |-> "idle"]
    /\ msg = [t \in Threads |-> <<>>]
    /\ attempts = [t \in Threads |-> 0]
    /\ suspended = FALSE /\ batch = Empty /\ paths = {} /\ day = 1
    /\ todo = <<>> /\ survivors = <<>>
    /\ raced = {} /\ purged = {} /\ faults = 0

Midnight ==
    /\ today < MaxDay
    /\ today' = today + 1
    /\ UNCHANGED <<publishVars, file, pc, resendVars, history, faults>>

\* Every process of the host dies; files stay as they are.
Crash ==
    /\ Fault("crash")
    /\ pc' = [t \in Threads |-> "idle"]
    /\ outcome' = [i \in Intents |->
                      IF outcome[i] = "running" THEN "unknown" ELSE outcome[i]]
    /\ suspended' = FALSE /\ batch' = Empty /\ paths' = {}
    /\ todo' = <<>> /\ survivors' = <<>> /\ day' = 1
    /\ msg' = [t \in Threads |-> <<>>]
    /\ attempts' = [t \in Threads |-> 0]
    /\ UNCHANGED <<log, file, today, nextId, history>>

-----------------------------------------------------------------------------
(* publish(), on a producer's thread or under resend() *)

\* prepare_signal: an id is drawn once, before the first attempt.
Publish(p, i) ==
    /\ pc[p] = "idle"
    /\ outcome[i] = "new"
    /\ outcome' = [outcome EXCEPT ![i] = "running"]
    /\ msg' = [msg EXCEPT ![p] = <<i, nextId>>]
    /\ nextId' = nextId + 1
    /\ attempts' = [attempts EXCEPT ![p] = 1]
    /\ Goto(p, "post")
    /\ UNCHANGED <<log, file, today, resendVars, history, faults>>

\* 200 or 201: the relay has the signal, and says so.
PostAccepted(t) ==
    /\ pc[t] = "post"
    /\ log' = log \cup {msg[t]}
    /\ IF t = operator
       THEN Goto(t, "entry") /\ UNCHANGED outcome
       ELSE Goto(t, "idle") /\ outcome' = [outcome EXCEPT ![msg[t][1]] = "acked"]
    /\ UNCHANGED <<nextId, msg, attempts, file, today, resendVars, history, faults>>

\* A transport error, before or after the relay accepted, or 408, 429, 5xx.
PostFails(t) ==
    /\ pc[t] = "post"
    /\ log' \in {log, log \cup {msg[t]}}
    /\ Goto(t, "failed")
    /\ UNCHANGED <<nextId, outcome, msg, attempts, file, today, resendVars, history,
                   faults>>

\* A status that is not retried, such as 409 strategy_archived.
PostRefused(t) ==
    /\ pc[t] = "post"
    /\ Fault("refused")
    /\ Goto(t, "giveup")
    /\ UNCHANGED <<publishVars, file, today, resendVars, history>>

\* A rejection leaves the publisher's dlq suspended.
PostRejected_NoFinally(t) ==
    /\ pc[t] = "post"
    /\ Fault("rejected")
    /\ Goto(t, "idle")
    /\ IF t = operator
       THEN /\ batch' = Empty /\ paths' = {}
            /\ todo' = <<>> /\ survivors' = <<>>
            /\ UNCHANGED <<outcome, suspended>>
       ELSE /\ outcome' = [outcome EXCEPT ![msg[t][1]] = "rejected"]
            /\ UNCHANGED <<suspended, batch, paths, todo, survivors>>
    /\ UNCHANGED <<log, nextId, msg, attempts, day, file, today, history>>

\* AuthError, ValidationRejected or IdempotencyConflict: publish() raises it;
\* resend() does not catch it, restores the dlq and leaves the file unwritten.
PostRejected(t) ==
    /\ pc[t] = "post"
    /\ Fault("rejected")
    /\ Goto(t, "idle")
    /\ IF t = operator
       THEN /\ suspended' = FALSE /\ batch' = Empty /\ paths' = {}
            /\ todo' = <<>> /\ survivors' = <<>>
            /\ UNCHANGED outcome
       ELSE /\ outcome' = [outcome EXCEPT ![msg[t][1]] = "rejected"]
            /\ UNCHANGED <<suspended, batch, paths, todo, survivors>>
    /\ UNCHANGED <<log, nextId, msg, attempts, day, file, today, history>>

\* Each attempt is prepared anew, and draws its own id.
Retry_NewId(t) ==
    /\ pc[t] = "failed"
    /\ attempts[t] < MaxAttempts
    /\ attempts' = [attempts EXCEPT ![t] = @ + 1]
    /\ msg' = [msg EXCEPT ![t] = <<@[1], nextId>>]
    /\ nextId' = nextId + 1
    /\ Goto(t, "post")
    /\ UNCHANGED <<log, outcome, file, today, resendVars, history, faults>>

\* Attempts never run out.
Retry_Unbounded(t) ==
    /\ pc[t] = "failed"
    /\ attempts' = [attempts EXCEPT ![t] = @ + 1]
    /\ Goto(t, "post")
    /\ UNCHANGED <<log, nextId, outcome, msg, file, today, resendVars, history, faults>>

\* The same body is sent again after the delay.
Retry(t) ==
    /\ pc[t] = "failed"
    /\ attempts[t] < MaxAttempts
    /\ attempts' = [attempts EXCEPT ![t] = @ + 1]
    /\ Goto(t, "post")
    /\ UNCHANGED <<log, nextId, outcome, msg, file, today, resendVars, history, faults>>

\* next_delay is None: max_attempts reached, or the wall-clock budget spent.
GiveUp(t) ==
    /\ pc[t] = "failed"
    /\ Goto(t, "giveup")
    /\ UNCHANGED <<publishVars, file, today, resendVars, history, faults>>

Dlqless(p) == suspended /\ p \in SharedWithResend

\* Without a dlq, PublishFailed without a path: the caller owns the signal's fate.
Unspilled(p) ==
    /\ p # operator
    /\ pc[p] = "giveup"
    /\ Dlqless(p)
    /\ outcome' = [outcome EXCEPT ![msg[p][1]] = "unspilled"]
    /\ Goto(p, "idle")
    /\ UNCHANGED <<log, nextId, msg, attempts, file, today, resendVars, history, faults>>

\* self.dlq is not None, and is read again to be appended to.
FindDlq(p) ==
    /\ p # operator
    /\ pc[p] = "giveup"
    /\ ~Dlqless(p)
    /\ Goto(p, "spill")
    /\ UNCHANGED <<publishVars, file, today, resendVars, history, faults>>

\* resend() took the dlq between the two readings: publish() raises AttributeError.
DlqGone(p) ==
    /\ pc[p] = "spill"
    /\ Dlqless(p)
    /\ outcome' = [outcome EXCEPT ![msg[p][1]] = "unknown"]
    /\ Goto(p, "idle")
    /\ UNCHANGED <<log, nextId, msg, attempts, file, today, resendVars, history, faults>>

\* DiskDLQ.append, then PublishFailed with the path.  The dlq may have been taken
\* since it was read the second time.
Spill(p) ==
    /\ pc[p] = "spill"
    /\ outcome' = [outcome EXCEPT ![msg[p][1]] = "spilled"]
    /\ file' = [file EXCEPT ![today] =
                    IF EndsOpen(@) THEN Append(Front(@), Append(msg[p], "closed"))
                                   ELSE Append(@, msg[p])]
    /\ raced' = IF batch[today] # <<>> THEN raced \cup {msg[p]} ELSE raced
    /\ Goto(p, "idle")
    /\ UNCHANGED <<log, nextId, msg, attempts, today, resendVars, purged, faults>>

\* The disk is full in the middle of the line: publish() raises the OSError.
SpillTorn(p) ==
    /\ pc[p] = "spill"
    /\ Fault("torn")
    /\ outcome' = [outcome EXCEPT ![msg[p][1]] = "unknown"]
    /\ file' = [file EXCEPT ![today] =
                    Append(IF EndsOpen(@) THEN Front(@) ELSE @, Append(msg[p], "open"))]
    /\ Goto(p, "idle")
    /\ UNCHANGED <<log, nextId, msg, attempts, today, resendVars, history>>

-----------------------------------------------------------------------------
(* resend() and purge() *)

\* PublishFailed under resend(): the entry stays, once.
Survive ==
    /\ pc[operator] = "giveup"
    /\ survivors' = Append(survivors, msg[operator])
    /\ Goto(operator, "entry")
    /\ UNCHANGED <<publishVars, file, today, suspended, batch, paths, day, todo, history,
                   faults>>

\* Only the file of the day is listed.
Begin_TodayOnly(job) ==
    /\ pc[operator] = "idle"
    /\ paths' = {d \in {today} : file[d] # <<>>}
    /\ Goto(operator, IF job = "resend" THEN "read" ELSE "read to purge")
    /\ UNCHANGED <<publishVars, file, today, suspended, batch, day, todo, survivors,
                   history, faults>>

\* pending(): the files that exist are listed ...
Begin(job) ==
    /\ pc[operator] = "idle"
    /\ paths' = {d \in Days : file[d] # <<>>}
    /\ Goto(operator, IF job = "resend" THEN "read" ELSE "read to purge")
    /\ UNCHANGED <<publishVars, file, today, suspended, batch, day, todo, survivors,
                   history, faults>>

BeginResend == Begin("resend")
BeginPurge == "purge" \in Faults /\ Begin("purge")

\* ... and read one by one, oldest first; a line that does not parse raises, and
\* the resend or purge ends before it did anything.
ReadFile ==
    /\ pc[operator] \in {"read", "read to purge"}
    /\ \E d \in paths :
          /\ \A e \in paths : d <= e
          /\ IF Torn(file[d])
             THEN batch' = Empty /\ paths' = {} /\ Goto(operator, "idle")
             ELSE /\ batch' = [batch EXCEPT ![d] = file[d]]
                  /\ paths' = paths \ {d}
                  /\ UNCHANGED pc
    /\ UNCHANGED <<publishVars, file, today, suspended, day, todo, survivors, history,
                   faults>>

\* Everything is read: resend() suspends the publisher's dlq.
AllRead ==
    /\ pc[operator] \in {"read", "read to purge"}
    /\ paths = {}
    /\ paths' = {d \in Days : batch[d] # <<>>}
    /\ suspended' = (pc[operator] = "read")
    /\ Goto(operator, IF pc[operator] = "read" THEN "file" ELSE "unlink")
    /\ UNCHANGED <<publishVars, file, today, batch, day, todo, survivors, history,
                   faults>>

ResendFile ==
    /\ pc[operator] = "file"
    /\ \E d \in paths :
          /\ \A e \in paths : d <= e
          /\ day' = d
          /\ todo' = batch[d]
    /\ survivors' = <<>>
    /\ Goto(operator, "entry")
    /\ UNCHANGED <<publishVars, file, today, suspended, batch, paths, history, faults>>

\* The entry keeps the id it was first published under.
ResendEntry ==
    /\ pc[operator] = "entry"
    /\ todo # <<>>
    /\ msg' = [msg EXCEPT ![operator] = Head(todo)]
    /\ todo' = Tail(todo)
    /\ attempts' = [attempts EXCEPT ![operator] = 1]
    /\ Goto(operator, "post")
    /\ UNCHANGED <<log, nextId, outcome, file, today, suspended, batch, paths, day,
                   survivors, history, faults>>

Settled ==
    /\ batch' = [batch EXCEPT ![day] = <<>>]
    /\ paths' = paths \ {day}
    /\ survivors' = <<>>

\* The file is removed although some entries failed again.
Rewrite_DropsSurvivors ==
    /\ pc[operator] = "entry"
    /\ todo = <<>>
    /\ file' = [file EXCEPT ![day] = <<>>]
    /\ Settled
    /\ Goto(operator, "file")
    /\ UNCHANGED <<publishVars, today, suspended, day, todo, history, faults>>

\* _rewrite: the file now holds the survivors, and nothing else; it is unlinked
\* when there are none.  The temporary file is no *.jsonl, so a crash before the
\* replace leaves the queue as it was.
Rewrite ==
    /\ pc[operator] = "entry"
    /\ todo = <<>>
    /\ file' = [file EXCEPT ![day] = survivors]
    /\ Settled
    /\ Goto(operator, "file")
    /\ UNCHANGED <<publishVars, today, suspended, day, todo, history, faults>>

ResendEnds ==
    /\ pc[operator] = "file"
    /\ paths = {}
    /\ suspended' = FALSE
    /\ Goto(operator, "idle")
    /\ UNCHANGED <<publishVars, file, today, batch, paths, day, todo, survivors, history,
                   faults>>

\* purge(): each file that was read is removed, whatever it holds by now.
Unlink ==
    /\ pc[operator] = "unlink"
    /\ \E d \in paths :
          /\ file' = [file EXCEPT ![d] = <<>>]
          /\ purged' = purged \cup Entries(batch[d])
          /\ batch' = [batch EXCEPT ![d] = <<>>]
          /\ paths' = paths \ {d}
    /\ UNCHANGED <<publishVars, today, pc, suspended, day, todo, survivors, raced, faults>>

PurgeEnds ==
    /\ pc[operator] = "unlink"
    /\ paths = {}
    /\ Goto(operator, "idle")
    /\ UNCHANGED <<publishVars, file, today, resendVars, history, faults>>

-----------------------------------------------------------------------------
Attempt(t) ==
    \/ PostAccepted(t) \/ PostFails(t) \/ PostRefused(t) \/ PostRejected(t)
    \/ Retry(t) \/ GiveUp(t)

OperatorStep ==
    \/ Attempt(operator) \/ Survive
    \/ BeginResend
    \/ ReadFile \/ AllRead
    \/ ResendFile \/ ResendEntry \/ Rewrite \/ ResendEnds
    \/ Unlink \/ PurgeEnds

Next ==
    \/ Midnight \/ Crash
    \/ \E p \in Producers, i \in Intents : Publish(p, i)
    \/ \E p \in Producers :
          \/ Attempt(p) \/ Unspilled(p) \/ FindDlq(p)
          \/ DlqGone(p) \/ Spill(p) \/ SpillTorn(p)
    \/ OperatorStep
    \/ BeginPurge

Spec == Init /\ [][Next]_vars

\* Threads run; the operator resends again and again; an entry posted often
\* enough is answered.
LiveSpec ==
    /\ Spec
    /\ \A p \in Producers : WF_vars(Attempt(p) \/ Unspilled(p) \/ FindDlq(p) \/ Spill(p))
    /\ WF_vars(OperatorStep)
    /\ \A i \in Intents : SF_vars(PostAccepted(operator) /\ msg[operator][1] = i)

-----------------------------------------------------------------------------
(* Properties *)

TypeOK ==
    LET Signal == Intents \X (1 .. nextId - 1) IN
    /\ log \subseteq Signal /\ raced \subseteq Signal /\ purged \subseteq Signal
    /\ file \in [Days -> Seq(Signal \cup (Intents \X (1 .. nextId - 1) \X {"open", "closed"}))]
    /\ batch \in [Days -> Seq(Signal)]
    /\ today \in Days /\ day \in Days /\ nextId \in Nat \ {0}
    /\ outcome \in [Intents -> {"new", "running", "acked", "spilled", "unspilled",
                                "rejected", "unknown"}]
    /\ pc \in [Threads -> {"idle", "post", "failed", "giveup", "spill", "read",
                           "read to purge", "file", "entry", "unlink"}]
    /\ msg \in [Threads -> Signal \cup {<<>>}]
    /\ attempts \in [Threads -> 0 .. MaxAttempts]
    /\ suspended \in BOOLEAN
    /\ paths \subseteq Days
    /\ todo \in Seq(Signal) /\ survivors \in Seq(Signal)
    /\ faults \in 0 .. MaxFaults

Held(i) == \E e \in log \cup Pending : e[1] = i

\* A signal whose publish() ended with PublishFailed(dlq_path) is never lost: the
\* relay has it, or the DLQ does, or an operator purged it, through crashes in the
\* middle of a resend, entries that fail again, and torn lines, whose text no
\* resend or purge removes.  The one window is an append
\* to a file that resend() or purge() has read and not yet replaced.
NothingLost ==
    \A i \in Intents :
        outcome[i] = "spilled" => Held(i) \/ \E e \in raced \cup purged : e[1] = i

\* The same promise without the window, as the module docstring of dlq.py has it.
NeverLost ==
    \A i \in Intents :
        outcome[i] = "spilled" => Held(i) \/ \E e \in purged : e[1] = i

\* One intent becomes one sequence, and at most one entry of the queue ("failures
\* are kept exactly once"), whatever was retried, resent or resent twice after its
\* answer was lost.
OnceOnly ==
    /\ \A e1, e2 \in log : e1[1] = e2[1] => e1 = e2
    /\ \A d1, d2 \in Days :
          \A k1 \in DOMAIN file[d1], k2 \in DOMAIN file[d2] :
             file[d1][k1] = file[d2][k2] => d1 = d2 /\ k1 = k2

\* A publisher gets its dlq back however resend() ends: only during a resend can
\* a failing publish() find none.  One resend() at a time is given the publisher.
SuspensionEnds == suspended => pc[operator] \in {"file", "entry", "post", "failed", "giveup"}

\* A dead-lettered signal reaches the relay under an operator who keeps
\* resending, unless it was purged or fell into the window, or a torn line keeps
\* every resend from reading the queue.
EventuallyAccepted ==
    \A i \in Intents :
        outcome[i] = "spilled" ~>
            \/ \E e \in log : e[1] = i
            \/ \E e \in raced \cup purged : e[1] = i
            \/ \E d \in Days : Torn(file[d])

=============================================================================
