--------------------------- MODULE SealedModeProofs ---------------------------
(***************************************************************************)
(* Proofs about SealedMode for every number of subscribers, signals,       *)
(* sender keys and faults: what is stored is ciphertext and nothing is     *)
(* skipped, whoever resends the dead letters; callbacks read plaintext and *)
(* no dead letter is trapped, as long as only the command line does.       *)
(***************************************************************************)
EXTENDS SealedMode, SequenceTheorems, TLAPS

\* What the relay or a dead-letter file holds.
Stored == ToSet(log) \cup ToSet(queue)

IsSignal(e) == e = [id |-> e.id, payload |-> e.payload]

Types ==
    /\ log \in Seq(ToSet(log)) /\ queue \in Seq(ToSet(queue))
    /\ \A e \in Stored : IsSignal(e)
    /\ published \in Nat
    /\ position \in [Subs -> Nat] /\ floor \in [Subs -> Nat] /\ DOMAIN got = Subs
    /\ \A c \in Subs : position[c] <= Len(log)

\* The inductive invariant, whoever resends.
IInv == Types /\ StoresCiphertext /\ NothingSkipped

\* Every envelope holds the plaintext published under the id it is bound to, ...
BoundOK ==
    \A e \in Stored : /\ e.id \in 1 .. published
                      /\ e.payload.id = e.id /\ e.payload.body = Plain(e.id)

\* ... and there is one envelope to an id, wherever its signal is stored.
OneEnvelope == \A d, e \in Stored : d.id = e.id => d.payload = e.payload

\* The inductive invariant, when the application does not resend.
CliInv == IInv /\ BoundOK /\ OneEnvelope /\ ReadsPlaintext

-----------------------------------------------------------------------------
(* Sequences and signals *)

LEMMA Elements ==
    ASSUME NEW S, NEW s \in Seq(S)
    PROVE  /\ ToSet(s) \subseteq S /\ s \in Seq(ToSet(s))
           /\ Len(s) \in Nat /\ DOMAIN s = 1 .. Len(s)
           /\ \A i \in 1 .. Len(s) : s[i] \in ToSet(s)
  <1>1. Len(s) \in Nat /\ DOMAIN s = 1 .. Len(s) /\ s \in [1 .. Len(s) -> S]
    BY LenProperties
  <1>2. s \in [1 .. Len(s) -> ToSet(s)]
    BY <1>1 DEF ToSet
  <1>3. s \in Seq(ToSet(s))
    BY <1>1, <1>2, SeqDef
  <1> QED
    BY <1>1, <1>3 DEF ToSet

LEMMA Appended ==
    ASSUME NEW s, s \in Seq(ToSet(s)), NEW e
    PROVE  /\ Append(s, e) \in Seq(ToSet(Append(s, e)))
           /\ ToSet(Append(s, e)) \subseteq ToSet(s) \cup {e}
           /\ Len(s) \in Nat /\ Len(Append(s, e)) = Len(s) + 1
           /\ \A i \in 1 .. Len(s) : Append(s, e)[i] = s[i]
  <1> DEFINE S == ToSet(s) \cup {e}
  <1>1. s \in Seq(S)
    <2>1. ToSet(s) \subseteq S
      OBVIOUS
    <2> HIDE DEF S
    <2> QED
      BY <2>1, SeqMonotonic
  <1>2. e \in S
    OBVIOUS
  <1>3. /\ Append(s, e) \in Seq(S) /\ Len(Append(s, e)) = Len(s) + 1
        /\ \A i \in 1 .. Len(s) : Append(s, e)[i] = s[i]
    <2> HIDE DEF S
    <2> QED
      BY <1>1, <1>2, AppendProperties
  <1>4. Len(s) \in Nat
    BY <1>1, LenProperties
  <1>5. /\ ToSet(Append(s, e)) \subseteq S
        /\ Append(s, e) \in Seq(ToSet(Append(s, e)))
    <2> HIDE DEF S
    <2> QED
      BY <1>3, Elements
  <1> QED
    BY <1>3, <1>4, <1>5

LEMMA Removed ==
    ASSUME NEW s, s \in Seq(ToSet(s)), NEW i \in DOMAIN s
    PROVE  /\ RemoveAt(s, i) \in Seq(ToSet(RemoveAt(s, i)))
           /\ ToSet(RemoveAt(s, i)) \subseteq ToSet(s)
  <1> DEFINE S == ToSet(s)
  <1>1. Len(s) \in Nat /\ i \in 1 .. Len(s) /\ \A j \in 1 .. Len(s) : s[j] \in S
    BY Elements
  <1> HIDE DEF S
  <1>2. SubSeq(s, 1, i - 1) \in Seq(S)
    <2>1. i - 1 \in Int /\ \A j \in 1 .. i - 1 : s[j] \in S
      BY <1>1
    <2> QED
      BY <2>1, SubSeqProperties
  <1>3. SubSeq(s, i + 1, Len(s)) \in Seq(S)
    <2>1. i + 1 \in Int /\ Len(s) \in Int /\ \A j \in i + 1 .. Len(s) : s[j] \in S
      BY <1>1
    <2> QED
      BY <2>1, SubSeqProperties
  <1>4. RemoveAt(s, i) \in Seq(S)
    BY <1>2, <1>3, ConcatProperties DEF RemoveAt
  <1> QED
    BY <1>4, Elements DEF S

\* Preparing a signal seals its payload and binds it to its id.
LEMMA PreparedSignal ==
    ASSUME NEW e, IsSignal(e)
    PROVE  /\ IsSignal(Prepared(e)) /\ Prepared(e).id = e.id
           /\ Prepared(e).payload.kind = "sealed" /\ Prepared(e).payload.id = e.id
           /\ Prepared(e).payload.body = e.payload
  <1>1. Prepared(e) = [id |-> e.id, payload |-> Envelope(e.id, e.payload)]
    BY DEF Prepared, IsSignal
  <1>2. /\ Envelope(e.id, e.payload).kind = "sealed" /\ Envelope(e.id, e.payload).id = e.id
        /\ Envelope(e.id, e.payload).body = e.payload
    BY DEF Envelope
  <1> QED
    BY <1>1, <1>2 DEF IsSignal

\* What a publish or a resend does to the log.
LEMMA Posted ==
    ASSUME Types, NEW e, Accept(e) \/ UNCHANGED log
    PROVE  /\ log' \in Seq(ToSet(log)') /\ ToSet(log)' \subseteq ToSet(log) \cup {e}
           /\ Len(log) \in Nat /\ Len(log') \in Nat /\ Len(log') >= Len(log)
           /\ \A i \in 1 .. Len(log) : log'[i] = log[i]
  <1>1. log \in Seq(ToSet(log)) /\ Len(log) \in Nat
    BY LenProperties DEF Types
  <1>2. CASE log' = Append(log, e)
    BY <1>1, <1>2, Appended
  <1>3. CASE log' = log
    BY <1>1, <1>3
  <1> QED
    BY <1>2, <1>3 DEF Accept

-----------------------------------------------------------------------------
(* Every step keeps the invariants *)

LEMMA Initial == Init => CliInv
  <1> SUFFICES ASSUME Init PROVE CliInv
    OBVIOUS
  <1> USE DEF Init
  <1>1. ToSet(log) = {} /\ ToSet(queue) = {} /\ log = <<>> /\ queue = <<>> /\ Len(log) = 0
    BY EmptySeq DEF ToSet
  <1>2. log \in Seq(ToSet(log)) /\ queue \in Seq(ToSet(queue))
    BY <1>1, EmptySeq
  <1>3. Types
    BY <1>1, <1>2 DEF Types, Stored
  <1>4. NothingSkipped
    BY DEF NothingSkipped
  <1>5. StoresCiphertext /\ BoundOK /\ OneEnvelope
    BY <1>1 DEF StoresCiphertext, Payloads, BoundOK, OneEnvelope, Stored
  <1> QED
    BY <1>3, <1>4, <1>5 DEF CliInv, IInv, ReadsPlaintext

\* A sealed signal is posted, and queued or taken from the queue.
LEMMA StoreStep ==
    ASSUME IInv, NEW e, IsSignal(e), e.payload.kind = "sealed", Accept(e) \/ UNCHANGED log,
           queue' \in Seq(ToSet(queue)'), ToSet(queue)' \subseteq ToSet(queue) \cup {e},
           UNCHANGED subscribers, published' \in Nat
    PROVE  IInv' /\ Stored' \subseteq Stored \cup {e}
  <1>1. /\ log' \in Seq(ToSet(log)') /\ ToSet(log)' \subseteq ToSet(log) \cup {e}
        /\ Len(log) \in Nat /\ Len(log') \in Nat /\ Len(log') >= Len(log)
        /\ \A i \in 1 .. Len(log) : log'[i] = log[i]
    BY Posted DEF IInv
  <1>2. UNCHANGED <<position, floor, got>>
    BY DEF subscribers
  <1>3. Stored' \subseteq Stored \cup {e}
    BY <1>1 DEF Stored
  <1>4. Types'
    <2>1. \A c \in Subs : position'[c] <= Len(log')
      BY <1>1, <1>2 DEF IInv, Types
    <2> QED
      BY <1>1, <1>2, <1>3, <2>1 DEF IInv, Types, IsSignal
  <1>5. StoresCiphertext'
    <2>1. \A d \in Stored : d.payload.kind = "sealed"
      BY DEF IInv, StoresCiphertext, Payloads, Stored
    <2>2. \A d \in Stored' : d.payload.kind = "sealed"
      BY <1>3, <2>1
    <2> QED
      BY <2>2 DEF StoresCiphertext, Payloads, Stored
  <1>6. NothingSkipped'
    <2>1. SUFFICES ASSUME NEW c \in Subs, NEW i \in floor'[c] + 1 .. position'[c]
                   PROVE  \E r \in got'[c] : r.id = log'[i].id
      BY DEF NothingSkipped
    <2>2. i \in floor[c] + 1 .. position[c] /\ i \in 1 .. Len(log)
      BY <1>1, <1>2 DEF IInv, Types
    <2> QED
      BY <1>1, <1>2, <2>2 DEF IInv, NothingSkipped
  <1> QED
    BY <1>3, <1>4, <1>5, <1>6 DEF IInv

LEMMA PublishStep ==
    ASSUME IInv, Publish
    PROVE  /\ IInv' /\ published \in Nat /\ published' = published + 1 /\ UNCHANGED subscribers
           /\ \E e : /\ Stored' \subseteq Stored \cup {e} /\ e.id = published + 1
                    /\ e.payload.id = e.id /\ e.payload.body = Plain(e.id)
  <1> DEFINE plain == [id |-> published', payload |-> Plain(published')]
             e == Prepared(plain)
  <1>1. published \in Nat /\ published' = published + 1 /\ UNCHANGED subscribers
    BY DEF Publish, IInv, Types
  <1>2. IsSignal(plain) /\ plain.id = published' /\ plain.payload = Plain(published')
    BY DEF IsSignal
  <1>3. /\ IsSignal(e) /\ e.id = published + 1
        /\ e.payload.kind = "sealed" /\ e.payload.id = e.id /\ e.payload.body = Plain(e.id)
    <2> HIDE DEF plain
    <2> QED
      BY <1>1, <1>2, PreparedSignal
  <1>4. (Accept(e) \/ UNCHANGED log) /\ (queue' = queue \/ queue' = Append(queue, e))
    BY DEF Publish, GivesUp
  <1> HIDE DEF e
  <1>5. queue' \in Seq(ToSet(queue)') /\ ToSet(queue)' \subseteq ToSet(queue) \cup {e}
    <2>1. queue \in Seq(ToSet(queue))
      BY DEF IInv, Types
    <2>2. CASE queue' = queue
      BY <2>1, <2>2
    <2>3. CASE queue' = Append(queue, e)
      BY <2>1, <2>3, Appended
    <2> QED
      BY <1>4, <2>2, <2>3
  <1>6. IInv' /\ Stored' \subseteq Stored \cup {e}
    BY <1>1, <1>3, <1>4, <1>5, StoreStep
  <1> QED
    BY <1>1, <1>3, <1>6

LEMMA ResendStep ==
    ASSUME IInv, Resend
    PROVE  /\ IInv' /\ UNCHANGED <<subscribers, published>>
           /\ "app" \notin Resenders => Stored' \subseteq Stored
  <1>1. PICK who \in Resenders, i \in DOMAIN queue :
            LET signal == Resent(who, queue[i])
            IN  \/ Accept(signal) /\ queue' = RemoveAt(queue, i) /\ UNCHANGED faults
                \/ GivesUp(signal) /\ UNCHANGED queue
    BY DEF Resend
  <1> DEFINE e == Resent(who, queue[i])
  <1>2. UNCHANGED subscribers /\ UNCHANGED published
    BY DEF Resend
  <1>3. queue \in Seq(ToSet(queue)) /\ queue[i] \in Stored /\ published \in Nat
    BY DEF IInv, Types, Stored, ToSet
  <1>4. IsSignal(queue[i]) /\ queue[i].payload.kind = "sealed"
    BY <1>3 DEF IInv, Types, StoresCiphertext, Payloads, Stored
  <1>5. IsSignal(e) /\ e.payload.kind = "sealed" /\ (who # "app" => e = queue[i])
    BY <1>4, PreparedSignal DEF Resent
  <1>6. (Accept(e) \/ UNCHANGED log) /\ (queue' = queue \/ queue' = RemoveAt(queue, i))
    BY <1>1 DEF GivesUp
  <1> HIDE DEF e
  <1>7. queue' \in Seq(ToSet(queue)') /\ ToSet(queue)' \subseteq ToSet(queue)
    BY <1>3, <1>6, Removed
  <1>8. IInv' /\ Stored' \subseteq Stored \cup {e}
    BY <1>2, <1>3, <1>5, <1>6, <1>7, StoreStep
  <1> QED
    BY <1>2, <1>3, <1>5, <1>8

\* The callback receives the body of what is next in the log.
LEMMA DeliverStep ==
    ASSUME IInv, NEW c \in Subs, Deliver(c)
    PROVE  /\ IInv' /\ UNCHANGED <<log, queue, published>>
           /\ \E e \in Stored :
                 \A d \in Subs : \A r \in got'[d] :
                    r \in got[d] \/ r = [id |-> e.id, payload |-> e.payload.body]
  <1> DEFINE n == position[c] + 1
             e == log[n]
             r == [id |-> e.id, payload |-> e.payload.body]
  <1>1. /\ UNCHANGED <<floor, log, queue, published>>
        /\ position' = [position EXCEPT ![c] = @ + 1] /\ position[c] < Len(log)
        /\ got' = [got EXCEPT ![c] = @ \cup {[e EXCEPT !.payload = @.body]}]
    BY DEF Deliver, publisher
  <1>2. /\ log \in Seq(ToSet(log)) /\ Len(log) \in Nat /\ n \in 1 .. Len(log)
        /\ position[c] \in Nat /\ floor[c] \in Nat /\ e \in Stored /\ IsSignal(e)
    <2>1. /\ log \in Seq(ToSet(log)) /\ Len(log) \in Nat /\ position[c] \in Nat
          /\ floor[c] \in Nat
      BY Elements DEF IInv, Types
    <2>2. n \in 1 .. Len(log)
      BY <1>1, <2>1
    <2>3. e \in Stored
      BY <2>1, <2>2, Elements DEF Stored
    <2> QED
      BY <2>1, <2>2, <2>3 DEF IInv, Types
  <1>3. [e EXCEPT !.payload = @.body] = r
    BY <1>2 DEF IsSignal
  <1>4. /\ got'[c] = got[c] \cup {r} /\ DOMAIN got' = Subs
        /\ \A d \in Subs : d # c => got'[d] = got[d]
    BY <1>1, <1>3 DEF IInv, Types
  <1>5. /\ position' \in [Subs -> Nat] /\ position'[c] = n
        /\ \A d \in Subs : d # c => position'[d] = position[d]
        /\ \A d \in Subs : position'[d] <= Len(log)
    BY <1>1, <1>2 DEF IInv, Types
  <1>6. Types' /\ StoresCiphertext'
    BY <1>1, <1>4, <1>5 DEF IInv, Types, Stored, StoresCiphertext, Payloads
  <1>7. NothingSkipped'
    <2>1. SUFFICES ASSUME NEW d \in Subs, NEW i \in floor[d] + 1 .. position'[d]
                   PROVE  \E a \in got'[d] : a.id = log[i].id
      BY <1>1 DEF NothingSkipped
    <2>2. CASE d = c /\ i = n
      <3>1. r \in got'[d] /\ r.id = log[i].id
        BY <1>4, <2>2
      <3> QED
        BY <3>1
    <2>3. CASE ~(d = c /\ i = n)
      <3>1. i \in floor[d] + 1 .. position[d]
        BY <1>2, <1>5, <2>1, <2>3
      <3>2. got[d] \subseteq got'[d]
        BY <1>4
      <3> QED
        BY <3>1, <3>2 DEF IInv, NothingSkipped
    <2> QED
      BY <2>2, <2>3
  <1> QED
    BY <1>1, <1>2, <1>4, <1>6, <1>7 DEF IInv

LEMMA StartStep ==
    ASSUME IInv, NEW c \in Subs, NEW from, Start(c, from)
    PROVE  IInv' /\ UNCHANGED <<got, log, queue, published>>
  <1>1. UNCHANGED <<got, log, queue, published>>
    BY DEF Start, publisher
  <1>2. Len(log) \in Nat
    BY Elements DEF IInv, Types
  <1>3. CASE UNCHANGED <<position, floor>>
    BY <1>1, <1>3 DEF IInv, Types, Stored, StoresCiphertext, Payloads, NothingSkipped
  <1>4. CASE /\ position' = [position EXCEPT ![c] = Len(log)]
             /\ floor' = [floor EXCEPT ![c] = Len(log)]
    <2>1. Types' /\ StoresCiphertext'
      BY <1>1, <1>2, <1>4 DEF IInv, Types, Stored, StoresCiphertext, Payloads
    <2>2. NothingSkipped'
      <3>1. SUFFICES ASSUME NEW d \in Subs, NEW i \in floor'[d] + 1 .. position'[d]
                     PROVE  \E r \in got[d] : r.id = log[i].id
        BY <1>1 DEF NothingSkipped
      <3>2. d # c
        BY <1>2, <1>4 DEF IInv, Types
      <3> QED
        BY <1>4, <3>1, <3>2 DEF IInv, Types, NothingSkipped
    <2> QED
      BY <1>1, <2>1, <2>2 DEF IInv
  <1> QED
    BY <1>1, <1>3, <1>4 DEF Start

\* The other steps touch neither what is stored nor what was received.
LEMMA KeySteps ==
    ASSUME \/ \E c \in Subs : RegisterRecipient(c) \/ End(c)
           \/ RegisterSender \/ BuildSealer \/ UNCHANGED vars
    PROVE  UNCHANGED <<position, floor, got, log, queue, published>>
  BY DEF RegisterRecipient, End, RegisterSender, BuildSealer, vars, subscribers, publisher

LEMMA Idle ==
    ASSUME IInv, UNCHANGED <<position, floor, got, log, queue, published>>
    PROVE  IInv'
  BY DEF IInv, Types, Stored, StoresCiphertext, Payloads, NothingSkipped

LEMMA Step == IInv /\ [Next]_vars => IInv'
  BY PublishStep, ResendStep, StartStep, DeliverStep, KeySteps, Idle DEF Next

\* Neither the relay nor a dead-letter file ever holds a payload that is not sealed,
\* whoever resends, through any number of publishes and resends that give up.
THEOREM OnlyCiphertextStored == Spec => []StoresCiphertext
  <1>1. Init => IInv
    BY Initial DEF CliInv
  <1>2. IInv => StoresCiphertext
    BY DEF IInv
  <1> QED
    BY <1>1, <1>2, Step, PTL DEF Spec

\* Below its cursor a subscriber received everything, except what it chose to skip,
\* over any rotation of sender keys, recipients added late, and restarts.
THEOREM NothingIsSkipped == Spec => []NothingSkipped
  <1>1. Init => IInv
    BY Initial DEF CliInv
  <1>2. IInv => NothingSkipped
    BY DEF IInv
  <1> QED
    BY <1>1, <1>2, Step, PTL DEF Spec

-----------------------------------------------------------------------------
(* As long as the application does not resend *)

LEMMA CliStep ==
    ASSUME "app" \notin Resenders, CliInv, [Next]_vars
    PROVE  CliInv'
  <1> USE DEF CliInv
  <1>1. IInv'
    BY Step
  <1>2. CASE Publish
    <2>1. /\ published \in Nat /\ published' = published + 1 /\ UNCHANGED subscribers
          /\ \E e : /\ Stored' \subseteq Stored \cup {e} /\ e.id = published + 1
                   /\ e.payload.id = e.id /\ e.payload.body = Plain(e.id)
      BY <1>2, PublishStep
    <2>2. PICK e : /\ Stored' \subseteq Stored \cup {e} /\ e.id = published + 1
                   /\ e.payload.id = e.id /\ e.payload.body = Plain(e.id)
      BY <2>1
    <2>3. \A d \in Stored : d.id # e.id /\ d.id \in 1 .. published + 1
      BY <2>1, <2>2 DEF BoundOK
    <2>4. e.id \in 1 .. published + 1
      BY <2>1, <2>2
    <2>5. BoundOK'
      BY <2>1, <2>2, <2>3, <2>4 DEF BoundOK
    <2>6. OneEnvelope'
      BY <2>2, <2>3 DEF OneEnvelope
    <2>7. ReadsPlaintext'
      BY <2>1 DEF ReadsPlaintext, subscribers
    <2> QED
      BY <1>1, <2>5, <2>6, <2>7
  <1>3. CASE Resend
    <2>1. UNCHANGED <<subscribers, published>> /\ Stored' \subseteq Stored
      BY <1>3, ResendStep
    <2> QED
      BY <1>1, <2>1 DEF BoundOK, OneEnvelope, ReadsPlaintext, subscribers
  <1>4. ASSUME NEW c \in Subs, Deliver(c)
        PROVE  CliInv'
    <2>1. /\ UNCHANGED <<log, queue, published>>
          /\ \E e \in Stored :
                \A d \in Subs : \A r \in got'[d] :
                   r \in got[d] \/ r = [id |-> e.id, payload |-> e.payload.body]
      BY <1>4, DeliverStep
    <2>2. ReadsPlaintext'
      BY <2>1 DEF BoundOK, ReadsPlaintext
    <2> QED
      BY <1>1, <2>1, <2>2 DEF BoundOK, OneEnvelope, Stored
  <1>5. CASE UNCHANGED <<got, log, queue, published>>
    BY <1>1, <1>5 DEF BoundOK, OneEnvelope, ReadsPlaintext, Stored
  <1> QED
    BY <1>2, <1>3, <1>4, <1>5, StartStep, KeySteps DEF Next

LEMMA CliInvariant ==
    ASSUME "app" \notin Resenders
    PROVE  Spec => []CliInv
  BY Initial, CliStep, PTL DEF Spec

\* A callback receives the plaintext that was published under the id it is told, as
\* long as the application does not resend through its own sealing publisher.
THEOREM CallbacksReadPlaintext ==
    ASSUME "app" \notin Resenders
    PROVE  Spec => []ReadsPlaintext
  <1>1. CliInv => ReadsPlaintext
    BY DEF CliInv
  <1> QED
    BY <1>1, CliInvariant, PTL

\* Under the same condition no dead letter is refused for ever: it carries the very
\* envelope the relay accepted, if it did.
THEOREM DeadLettersGoThrough ==
    ASSUME "app" \notin Resenders
    PROVE  Spec => []NeverTrapped
  <1>1. CliInv => NeverTrapped
    BY DEF CliInv, OneEnvelope, NeverTrapped, Conflict, Known, Stored
  <1> QED
    BY <1>1, CliInvariant, PTL

=============================================================================
