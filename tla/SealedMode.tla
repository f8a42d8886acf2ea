----------------------------- MODULE SealedMode ------------------------------
(***************************************************************************)
(* Sealed mode (sealed/) across its processes: the publisher's Sealer, a   *)
(* recipient set and a sender key fixed when it is built; the dead-letter  *)
(* queue between two publish() calls; and each subscriber's Unsealer, one  *)
(* sender key fixed when it is built, in the delivery funnel.  The         *)
(* cryptography is symbolic: an envelope opens for a key in its recipient  *)
(* list, against the sender key that signed it, under the signal's id.     *)
(* Every sealing draws fresh randomness, so no two envelopes are equal.    *)
(* publish() and a resend are one step each: their retries carry the same  *)
(* body and are Outbox's concern.                                          *)
(*                                                                         *)
(* A definition named X_Something is X with a plausible bug, kept to show  *)
(* which property would notice it.                                         *)
(***************************************************************************)
EXTENDS Integers, SequencesExt

CONSTANTS
    Subs,         \* subscribers, each with one recipient key
    MaxSignals,   \* bound on the signals published
    MaxSenders,   \* bound on the sender keys there are
    Resenders,    \* who resends the dead letters: "cli", "app"
    MaxFaults     \* bound on failing publishes and resends

ASSUME SealedAssumption ==
    /\ MaxSignals \in Nat /\ MaxSenders \in Nat /\ MaxFaults \in Nat
    /\ Resenders \subseteq {"cli", "app"}

VARIABLES
    registered,  \* the subscribers whose recipient key the relay serves
    sender,      \* the newest sender key the relay serves, 0 when there is none
    sealer,      \* the publisher's Sealer: [sender, to], sender 0 when not built
    unsealer,    \* the sender key each subscriber's Unsealer pins, 0 when down
    log,         \* what the relay accepted, in order: [id, payload]
    queue,       \* the dead letters: [id, payload]
    published,   \* signals the application has published, named by their id
    sealings,    \* envelopes made so far
    position,    \* each subscriber's cursor, an index of log
    floor,       \* history: where start_from="latest" took it
    got,         \* what each subscriber's callback received: [id, payload]
    early,       \* history: subscribers registered before the first Sealer
    faults       \* failing publishes and resends so far

keys == <<registered, sender>>
subscribers == <<unsealer, position, floor, got>>
publisher == <<sealer, published, sealings, early>>
vars == <<keys, subscribers, publisher, log, queue, faults>>

Plain(id) == [kind |-> "plain", id |-> id]
NoSealer == [sender |-> 0, to |-> {}]

Init ==
    /\ registered = {} /\ sender = 0
    /\ sealer = NoSealer /\ unsealer = [c \in Subs |-> 0]
    /\ log = <<>> /\ queue = <<>>
    /\ published = 0 /\ sealings = 0
    /\ position = [c \in Subs |-> 0] /\ floor = [c \in Subs |-> 0]
    /\ got = [c \in Subs |-> {}]
    /\ early = {} /\ faults = 0

-----------------------------------------------------------------------------
(* Keys *)

RegisterRecipient(c) ==
    /\ c \notin registered
    /\ registered' = registered \cup {c}
    /\ UNCHANGED <<sender, subscribers, publisher, log, queue, faults>>

\* The newest sender key is listed first.
RegisterSender ==
    /\ sender < MaxSenders
    /\ sender' = sender + 1
    /\ UNCHANGED <<registered, subscribers, publisher, log, queue, faults>>

\* A publisher is built with the recipients of this moment and with the key pair
\* its caller holds, be it the newest, an older or an unregistered one; a pin set
\* that differs from the recipients builds none.
BuildSealer ==
    /\ registered # {}
    /\ \E key \in 1 .. MaxSenders : sealer' = [sender |-> key, to |-> registered]
    /\ early' = IF sealer = NoSealer THEN registered ELSE early
    /\ UNCHANGED <<keys, subscribers, published, sealings, log, queue, faults>>

-----------------------------------------------------------------------------
(* Publishing *)

\* The envelope is made before the signal has its id.
Envelope_Unbound(id, payload) ==
    [kind |-> "sealed", id |-> 0, sender |-> sealer.sender, to |-> sealer.to,
     nonce |-> sealings, body |-> payload]

Envelope(id, payload) ==
    [kind |-> "sealed", id |-> id, sender |-> sealer.sender, to |-> sealer.to,
     nonce |-> sealings, body |-> payload]

\* prepare_signal with a sealer.
Prepared(signal) == [signal EXCEPT !.payload = Envelope(signal.id, @)]

Known(signal) == {e \in ToSet(log) : e.id = signal.id}

\* The relay refuses an id it knows with another payload, and recognises the
\* same payload.
Conflict(signal) == \E e \in Known(signal) : e.payload # signal.payload
Accept(signal) ==
    /\ ~Conflict(signal)
    /\ log' = IF Known(signal) = {} THEN Append(log, signal) ELSE log

\* publish() gives up; the relay may have accepted the signal all the same.
GivesUp(signal) ==
    /\ faults < MaxFaults
    /\ faults' = faults + 1
    /\ Accept(signal) \/ UNCHANGED log

\* The signal is dead-lettered as the application handed it over.
Publish_SpillsPlain ==
    /\ sealer # NoSealer
    /\ published < MaxSignals
    /\ published' = published + 1
    /\ sealings' = sealings + 1
    /\ LET signal == [id |-> published', payload |-> Plain(published')]
       IN  \/ Accept(Prepared(signal)) /\ UNCHANGED <<queue, faults>>
           \/ GivesUp(Prepared(signal)) /\ queue' = Append(queue, signal)
    /\ UNCHANGED <<keys, subscribers, sealer, early>>

\* The dead letter is prepared a second time, which draws a new nonce.
Publish_SealsAgain ==
    /\ sealer # NoSealer
    /\ published < MaxSignals
    /\ published' = published + 1
    /\ sealings' = sealings + 2
    /\ LET signal == Prepared([id |-> published', payload |-> Plain(published')])
       IN  \/ Accept(signal) /\ UNCHANGED <<queue, faults>>
           \/ /\ GivesUp(signal)
              /\ queue' = Append(queue, [signal EXCEPT !.payload.nonce = sealings + 1])
    /\ UNCHANGED <<keys, subscribers, sealer, early>>

\* publish(): the prepared signal is posted; on giving up it is dead-lettered.
Publish ==
    /\ sealer # NoSealer
    /\ published < MaxSignals
    /\ published' = published + 1
    /\ sealings' = sealings + 1
    /\ LET signal == Prepared([id |-> published', payload |-> Plain(published')])
       IN  \/ Accept(signal) /\ UNCHANGED <<queue, faults>>
           \/ GivesUp(signal) /\ queue' = Append(queue, signal)
    /\ UNCHANGED <<keys, subscribers, sealer, early>>

\* The command line, too, hands resend() a publisher with a sealer.
Resent_Sealed(who, signal) == Prepared(signal)

\* resend() publishes the entry's signal through the publisher it is given: the
\* command line's has no sealer, the application's own has one.
Resent(who, signal) == IF who = "app" THEN Prepared(signal) ELSE signal

\* One entry of a resend(): it leaves the queue when the relay acknowledges it,
\* and stays when publish() gives up, or is refused for a conflict.
Resend ==
    /\ \E who \in Resenders, i \in DOMAIN queue :
          /\ who = "app" => sealer # NoSealer
          /\ sealings' = IF who = "app" THEN sealings + 1 ELSE sealings
          /\ LET signal == Resent(who, queue[i])
             IN  \/ Accept(signal) /\ queue' = RemoveAt(queue, i) /\ UNCHANGED faults
                 \/ GivesUp(signal) /\ UNCHANGED queue
    /\ UNCHANGED <<keys, subscribers, sealer, published, early>>

-----------------------------------------------------------------------------
(* Subscribing *)

\* A subscriber is started, whether its own key is registered or not: its Unsealer
\* pins the newest sender key (one other than pinned_sender builds none), and it
\* resumes from its cursor or skips to the end of the log.
Start(c, from) ==
    /\ unsealer[c] = 0
    /\ sender > 0
    /\ unsealer' = [unsealer EXCEPT ![c] = sender]
    /\ IF from = "latest"
       THEN /\ position' = [position EXCEPT ![c] = Len(log)]
            /\ floor' = [floor EXCEPT ![c] = Len(log)]
       ELSE UNCHANGED <<position, floor>>
    /\ UNCHANGED <<keys, got, publisher, log, queue, faults>>

\* Its process ends: stopped, crashed, or at the first signal that it cannot open
\* (which run() raises from its catch-up; the poll loop asks for it again).
End(c) ==
    /\ unsealer[c] # 0
    /\ unsealer' = [unsealer EXCEPT ![c] = 0]
    /\ UNCHANGED <<keys, position, floor, got, publisher, log, queue, faults>>

\* unseal(): the pinned sender made the envelope, this key is among its
\* recipients, and it is bound to the signal it came with.
Opens(c, signal) ==
    /\ signal.payload.kind = "sealed"
    /\ signal.payload.sender = unsealer[c]
    /\ c \in signal.payload.to
    /\ signal.payload.id = signal.id

\* The cursor moves past a signal that does not open.
Deliver_Skips(c) ==
    /\ unsealer[c] # 0
    /\ position[c] < Len(log)
    /\ position' = [position EXCEPT ![c] = @ + 1]
    /\ LET signal == log[position[c] + 1]
       IN  got' = IF Opens(c, signal)
                  THEN [got EXCEPT ![c] = @ \cup {[signal EXCEPT !.payload = @.body]}]
                  ELSE got
    /\ UNCHANGED <<keys, unsealer, floor, publisher, log, queue, faults>>

\* _deliver: the callback receives what unseal() returned; only then the cursor
\* moves.  A signal that does not open is not passed over.
Deliver(c) ==
    /\ unsealer[c] # 0
    /\ position[c] < Len(log)
    /\ LET signal == log[position[c] + 1]
       IN  /\ Opens(c, signal)
           /\ got' = [got EXCEPT ![c] = @ \cup {[signal EXCEPT !.payload = @.body]}]
    /\ position' = [position EXCEPT ![c] = @ + 1]
    /\ UNCHANGED <<keys, unsealer, floor, publisher, log, queue, faults>>

-----------------------------------------------------------------------------
Next ==
    \/ \E c \in Subs : RegisterRecipient(c)
    \/ RegisterSender \/ BuildSealer
    \/ Publish \/ Resend
    \/ \E c \in Subs, from \in {"cursor", "latest"} : Start(c, from)
    \/ \E c \in Subs : End(c) \/ Deliver(c)

Spec == Init /\ [][Next]_vars

\* A supervisor restarts each subscriber, and a process that keeps being
\* restarted does not always end before its first delivery.
LiveSpec ==
    /\ Spec
    /\ \A c \in Subs :
          /\ WF_vars(\E from \in {"cursor", "latest"} : Start(c, from))
          /\ SF_vars(Deliver(c))

-----------------------------------------------------------------------------
(* Properties *)

Payloads(sealed) == {e.payload : e \in ToSet(sealed)}

\* "Callbacks always see plaintext", and the one that was published under the id
\* they are told, whether the signal came straight or out of the dead letters.
ReadsPlaintext == \A c \in Subs : \A r \in got[c] : r.payload = Plain(r.id)

\* "The DLQ stores ciphertext": neither the relay nor a dead-letter file ever
\* holds a payload that is not sealed.
StoresCiphertext ==
    \A payload \in Payloads(log) \cup Payloads(queue) : payload.kind = "sealed"

\* A dead letter is never trapped: if the relay did accept its signal, the entry
\* carries the very envelope it accepted, although no two sealings agree, so that
\* a resend is recognised and not refused as a conflict.
NeverTrapped == \A e \in ToSet(queue) : ~Conflict(e)

\* "Never delivered and never silently skipped": below its cursor a subscriber
\* received everything, except what it chose to skip.
NothingSkipped ==
    \A c \in Subs : \A i \in floor[c] + 1 .. position[c] :
        \E r \in got[c] : r.id = log[i].id

\* Neither its Unsealer nor the signals up to i are of a key the relay no longer,
\* or not yet, lists first.
CurrentKeys(c, i) ==
    /\ unsealer[c] \in {0, sender}
    /\ \A j \in 1 .. i : log[j].payload.sender = sender

\* A subscriber registered before the first Sealer eventually receives a signal the
\* relay accepted, or skips to the end of the log, across restarts, dead letters and
\* changes of keys, as long as the keys in use come to be, and stay, the newest.
EventuallyRead ==
    \A c \in Subs : \A i \in 1 .. MaxSignals :
        <>[](c \in early /\ i <= Len(log) /\ CurrentKeys(c, i)) => <>(position[c] >= i)

=============================================================================
