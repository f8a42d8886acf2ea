---------------------------- MODULE OutboxProofs -----------------------------
(***************************************************************************)
(* Proofs about Outbox for every number of producers, intents, days,       *)
(* attempts and faults: the types, that a dead-lettered signal is never    *)
(* lost, that an intent has one sequence and one queue entry, and that the *)
(* dlq of the shared publisher comes back.                                 *)
(***************************************************************************)
EXTENDS Outbox, SequenceTheorems, TLAPS

\* No two lines of s, and no line of A and line of B, are of one intent.
NoDup(s) == \A j, k \in DOMAIN s : s[j][1] = s[k][1] => j = k
Apart(A, B) == \A a \in A, b \in B : a[1] # b[1]

\* t is inside a publish loop: its own publish(), or the one of resend().
Busy(t) == pc[t] \in {"post", "failed", "giveup", "spill"}

\* The operator is between ResendFile and Rewrite of the file of the day.
Resending == pc[operator] = "entry" \/ Busy(operator)

InHand == IF Busy(operator) THEN {msg[operator]} ELSE {}
Unsettled == InHand \cup Entries(todo) \cup Entries(survivors)
Copies == UNION {Entries(batch[d]) : d \in Days}

\* Each publish() of a producer is of its own intent, which is running.
PublishOK ==
    /\ \A t \in Threads : Busy(t) => msg[t] # <<>>
    /\ \A p \in Producers : Busy(p) => outcome[msg[p][1]] = "running"
    /\ \A p, q \in Producers : Busy(p) /\ Busy(q) /\ p # q => msg[p][1] # msg[q][1]

\* Only an intent whose publish() is over has lines, or copies of lines; one cut
\* short by a torn write ended unknown.
StatusOK ==
    /\ \A e \in Pending \cup Copies : outcome[e[1]] \in {"spilled", "unknown"}
    /\ \A e \in log : outcome[e[1]] # "new"
    /\ \A d \in Days : EndsOpen(file[d]) => outcome[Last(file[d])[1]] = "unknown"

Known == log \cup Pending \cup Copies \cup {msg[p] : p \in {q \in Producers : Busy(q)}}

\* Every trace of an intent carries the one id it was prepared with.
OneId == \A e, f \in Known : e[1] = f[1] => e[2] = f[2]

\* An intent has one line in the queue, and the copies the operator read of a
\* file are nowhere but in that file.
OneLine ==
    /\ \A d \in Days : NoDup(file[d]) /\ NoDup(batch[d])
    /\ \A d, e \in Days : d # e => /\ Apart(Entries(file[d]), Entries(file[e]))
                                   /\ Apart(Entries(batch[d]), Entries(batch[e]))
                                   /\ Apart(Entries(batch[d]), Entries(file[e]))

\* What the operator works on is what it read of the file, each entry once, and
\* an entry it is done with is in the log or will be written back.
ResendOK ==
    /\ pc[operator] \in {"file", "unlink"} \/ Resending =>
          \A d \in paths : batch[d] # <<>>
    /\ Resending => /\ batch[day] # <<>>
                    /\ Unsettled \subseteq Entries(batch[day])
                    /\ Entries(batch[day]) \subseteq log \cup Unsettled
                    /\ NoDup(todo) /\ NoDup(survivors)
                    /\ Apart(Entries(todo), Entries(survivors))
                    /\ Apart(InHand, Entries(todo) \cup Entries(survivors))

\* A line the operator has not read was appended since: that is the window.
Covered ==
    \A d \in Days : batch[d] # <<>> =>
        \A e \in Entries(file[d]) :
           outcome[e[1]] = "spilled" =>
              e \in Entries(batch[d]) \/ \E r \in raced : r[1] = e[1]

\* The inductive invariant.
IInv ==
    /\ TypeOK /\ PublishOK /\ StatusOK /\ OneId /\ OneLine
    /\ ResendOK /\ Covered
    /\ NothingLost /\ SuspensionEnds

-----------------------------------------------------------------------------
(* Lines and sequences of lines *)

\* A torn line keeps the intent and the id of its signal.
LEMMA TornLine ==
    ASSUME NEW i, NEW n, NEW h
    PROVE  Append(<<i, n>>, h) = <<i, n, h>>
  <1> DEFINE T == {i, n, h}
  <1>1. <<i, n>> \in Seq(T) /\ <<i, n, h>> \in Seq(T) /\ h \in T
    OBVIOUS
  <1>2. Len(<<i, n>>) = 2 /\ Len(<<i, n, h>>) = 3
    OBVIOUS
  <1>3. /\ Append(<<i, n>>, h) \in Seq(T)
        /\ Len(Append(<<i, n>>, h)) = 3
        /\ \A k \in 1 .. 2 : Append(<<i, n>>, h)[k] = <<i, n>>[k]
        /\ Append(<<i, n>>, h)[3] = h
    <2> HIDE DEF T
    <2> QED
      BY <1>1, <1>2, AppendProperties
  <1>4. \A k \in 1 .. 3 : Append(<<i, n>>, h)[k] = <<i, n, h>>[k]
    BY <1>3
  <1> HIDE DEF T
  <1> QED
    BY <1>1, <1>2, <1>3, <1>4, SeqEqual

LEMMA TornLineLen ==
    ASSUME NEW I, NEW N, NEW l \in I \X N \X {"open", "closed"}
    PROVE  Len(l) = 3
  OBVIOUS

LEMMA EmptyLines == Entries(<<>>) = {} /\ NoDup(<<>>)
  BY DEF Entries, NoDup

LEMMA AppendLines ==
    ASSUME NEW S, NEW s \in Seq(S), NEW e \in S
    PROVE  /\ Append(s, e) \in Seq(S)
           /\ Entries(Append(s, e)) = Entries(s) \cup {e}
           /\ Append(s, e) # <<>> /\ Last(Append(s, e)) = e
           /\ NoDup(s) /\ Apart(Entries(s), {e}) => NoDup(Append(s, e))
  <1>1. /\ Append(s, e) \in Seq(S) /\ Append(s, e) # <<>>
        /\ Len(s) \in Nat /\ DOMAIN s = 1 .. Len(s)
        /\ Len(Append(s, e)) = Len(s) + 1
        /\ DOMAIN Append(s, e) = 1 .. Len(s) + 1
        /\ \A i \in 1 .. Len(s) : Append(s, e)[i] = s[i]
        /\ Append(s, e)[Len(s) + 1] = e
    BY AppendProperties, LenProperties
  <1>2. Entries(Append(s, e)) = Entries(s) \cup {e}
    BY <1>1 DEF Entries
  <1>3. ASSUME NoDup(s), Apart(Entries(s), {e})
        PROVE  NoDup(Append(s, e))
    <2>1. \A i \in 1 .. Len(s) : s[i][1] # e[1]
      BY <1>1, <1>3 DEF Apart, Entries
    <2> QED
      BY <1>1, <1>3, <2>1 DEF NoDup
  <1> QED
    BY <1>1, <1>2, <1>3 DEF Last

LEMMA FrontLines ==
    ASSUME NEW S, NEW s \in Seq(S), s # <<>>
    PROVE  /\ Front(s) \in Seq(S)
           /\ Last(s) \in Entries(s)
           /\ Entries(s) = Entries(Front(s)) \cup {Last(s)}
           /\ NoDup(s) => NoDup(Front(s))
  <1>1. PICK t \in Seq(S), e \in S : s = Append(t, e)
    BY SequenceEmptyOrAppend
  <1>2. Front(s) = t
    <2>1. Len(s) = Len(t) + 1 /\ Len(t) \in Nat
      BY <1>1, AppendProperties, LenProperties
    <2>2. SubSeq(s, 1, Len(t)) = t
      BY <1>1, <2>1
    <2> QED
      BY <2>1, <2>2 DEF Front
  <1>3. Last(s) = e /\ Entries(s) = Entries(t) \cup {e}
    <2>1. /\ Append(t, e) \in Seq(S)
          /\ Entries(Append(t, e)) = Entries(t) \cup {e}
          /\ Append(t, e) # <<>> /\ Last(Append(t, e)) = e
          /\ NoDup(t) /\ Apart(Entries(t), {e}) => NoDup(Append(t, e))
      BY AppendLines
    <2> QED
      BY <1>1, <2>1
  <1>4. NoDup(s) => NoDup(t)
    <2>1. /\ DOMAIN t = 1 .. Len(t) /\ DOMAIN s = 1 .. Len(t) + 1 /\ Len(t) \in Nat
          /\ \A i \in 1 .. Len(t) : s[i] = t[i]
      BY <1>1, AppendProperties, LenProperties
    <2> QED
      BY <2>1 DEF NoDup
  <1> QED
    BY <1>2, <1>3, <1>4

LEMMA TailLines ==
    ASSUME NEW S, NEW s \in Seq(S), s # <<>>
    PROVE  /\ Head(s) \in S /\ Tail(s) \in Seq(S)
           /\ Entries(s) = {Head(s)} \cup Entries(Tail(s))
           /\ NoDup(s) => NoDup(Tail(s)) /\ Apart({Head(s)}, Entries(Tail(s)))
  <1>1. /\ Head(s) \in S /\ Tail(s) \in Seq(S) /\ Len(Tail(s)) = Len(s) - 1
        /\ Len(s) \in Nat \ {0} /\ DOMAIN s = 1 .. Len(s)
        /\ DOMAIN Tail(s) = 1 .. Len(s) - 1
        /\ \A i \in 1 .. Len(s) - 1 : Tail(s)[i] = s[i + 1]
        /\ Head(s) = s[1]
    BY HeadTailProperties, LenProperties, EmptySeq
  <1>2. \A i \in 2 .. Len(s) : s[i] = Tail(s)[i - 1] /\ i - 1 \in 1 .. Len(s) - 1
    BY <1>1
  <1>3. Entries(s) = {Head(s)} \cup Entries(Tail(s))
    <2>1. \A i \in 1 .. Len(s) : i = 1 \/ i \in 2 .. Len(s)
      BY <1>1
    <2>2. Entries(s) \subseteq {Head(s)} \cup Entries(Tail(s))
      <3>1. SUFFICES ASSUME NEW i \in 1 .. Len(s)
                     PROVE  s[i] \in {Head(s)} \cup Entries(Tail(s))
        BY <1>1 DEF Entries
      <3>2. CASE i \in 2 .. Len(s)
        BY <1>1, <1>2, <3>2 DEF Entries
      <3> QED
        BY <1>1, <2>1, <3>2
    <2>3. \A i \in 1 .. Len(s) - 1 : i + 1 \in 1 .. Len(s)
      BY <1>1
    <2>4. 1 \in 1 .. Len(s)
      BY <1>1
    <2>5. {Head(s)} \cup Entries(Tail(s)) \subseteq Entries(s)
      BY <1>1, <2>3, <2>4 DEF Entries
    <2> QED
      BY <2>2, <2>5
  <1>4. ASSUME NoDup(s)
        PROVE  NoDup(Tail(s)) /\ Apart({Head(s)}, Entries(Tail(s)))
    <2>1. \A i, j \in 1 .. Len(s) - 1 : s[i + 1][1] = s[j + 1][1] => i = j
      BY <1>1, <1>4 DEF NoDup
    <2>2. \A i \in 1 .. Len(s) - 1 : s[i + 1][1] # s[1][1]
      BY <1>1, <1>4 DEF NoDup
    <2> QED
      BY <1>1, <2>1, <2>2 DEF NoDup, Apart, Entries
  <1> QED
    BY <1>1, <1>3, <1>4

LEMMA LinesTyped ==
    ASSUME NEW S, NEW s \in Seq(S)
    PROVE  /\ Entries(s) \subseteq S
           /\ s # <<>> => Entries(s) # {}
           /\ \A T : Entries(s) \subseteq T => s \in Seq(T)
  <1>1. Len(s) \in Nat /\ s \in [1 .. Len(s) -> S] /\ DOMAIN s = 1 .. Len(s)
    BY LenProperties
  <1>2. ASSUME NEW T, Entries(s) \subseteq T
        PROVE  s \in Seq(T)
    <2>1. s \in [1 .. Len(s) -> T]
      BY <1>1, <1>2 DEF Entries
    <2> QED
      BY <1>1, <2>1, SeqDef
  <1>3. s # <<>> => Len(s) # 0
    BY EmptySeq
  <1> QED
    BY <1>1, <1>2, <1>3 DEF Entries


-----------------------------------------------------------------------------
(* Types *)

Drawn(n) == Intents \X (1 .. n - 1)
Written(n) == Drawn(n) \cup (Intents \X (1 .. n - 1) \X {"open", "closed"})

\* TypeOK, with the signals and the lines it speaks of named.
Typed(S, L) ==
    /\ log \subseteq S /\ raced \subseteq S /\ purged \subseteq S
    /\ file \in [Days -> Seq(L)]
    /\ batch \in [Days -> Seq(S)]
    /\ today \in Days /\ day \in Days /\ nextId \in Nat \ {0}
    /\ outcome \in [Intents -> {"new", "running", "acked", "spilled", "unspilled",
                                "rejected", "unknown"}]
    /\ pc \in [Threads -> {"idle", "post", "failed", "giveup", "spill", "read",
                           "read to purge", "file", "entry", "unlink"}]
    /\ msg \in [Threads -> S \cup {<<>>}]
    /\ attempts \in [Threads -> 0 .. MaxAttempts]
    /\ suspended \in BOOLEAN
    /\ paths \subseteq Days
    /\ todo \in Seq(S) /\ survivors \in Seq(S)
    /\ faults \in 0 .. MaxFaults

LEMMA TypedIsTypeOK ==
    ASSUME NEW n
    PROVE  /\ nextId = n => (TypeOK <=> Typed(Drawn(n), Written(n)))
           /\ nextId' = n => (TypeOK' <=> Typed(Drawn(n), Written(n))')
  BY DEF TypeOK, Typed, Drawn, Written

\* A thread in its publish loop has a signal in hand.
HasMsg == \A t \in Threads : Busy(t) => msg[t] # <<>>

LEMMA FaultType ==
    ASSUME NEW kind, faults \in 0 .. MaxFaults, Fault(kind)
    PROVE  faults' \in 0 .. MaxFaults
  BY OutboxAssumption DEF Fault

LEMMA OneMore ==
    ASSUME NEW a \in 0 .. MaxAttempts, a < MaxAttempts
    PROVE  a + 1 \in 0 .. MaxAttempts
  BY OutboxAssumption

LEMMA FirstAttempt == {0, 1} \subseteq 0 .. MaxAttempts /\ 1 \in Days
  BY OutboxAssumption DEF Days

LEMMA NextDay ==
    ASSUME NEW d \in Days, d < MaxDay
    PROVE  d + 1 \in Days
  BY OutboxAssumption DEF Days

LEMMA PairNotEmpty ==
    ASSUME NEW I, NEW N, NEW m \in I \X N
    PROVE  m # <<>>
  OBVIOUS

LEMMA MsgTyped ==
    ASSUME NEW S, NEW L, Typed(S, L), HasMsg, NEW t \in Threads, Busy(t)
    PROVE  msg[t] \in S
  BY DEF Typed, HasMsg

LEMMA NothingTyped ==
    ASSUME NEW S
    PROVE  <<>> \in Seq(S) /\ Empty \in [Days -> Seq(S)]
  <1>1. <<>> \in Seq(S)
    BY EmptySeq
  <1> QED
    BY <1>1 DEF Empty

LEMMA AttemptTyped ==
    ASSUME NEW S, NEW L, Typed(S, L), HasMsg, NEW t \in Threads,
           Attempt(t) \/ FindDlq(t)
    PROVE  Typed(S, L)' /\ HasMsg'
  <1> USE DEF Typed, HasMsg, publishVars, resendVars, history, Goto
  <1>e. <<>> \in Seq(S) /\ Empty \in [Days -> Seq(S)]
    BY NothingTyped
  <1>1. CASE PostAccepted(t)
    <2>1. msg[t] \in S
      BY <1>1, MsgTyped DEF PostAccepted, Busy
    <2> QED
      BY <1>1, <2>1 DEF PostAccepted, Busy
  <1>2. CASE PostFails(t)
    <2>1. msg[t] \in S
      BY <1>2, MsgTyped DEF PostFails, Busy
    <2> QED
      BY <1>2, <2>1 DEF PostFails, Busy
  <1>3. CASE PostRefused(t)
    BY <1>3, FaultType DEF PostRefused, Busy
  <1>4. CASE PostRejected(t)
    BY <1>4, <1>e, FaultType DEF PostRejected, Busy
  <1>5. CASE Retry(t)
    <2>1. attempts[t] + 1 \in 0 .. MaxAttempts
      <3>1. attempts[t] \in 0 .. MaxAttempts /\ attempts[t] < MaxAttempts
        BY <1>5 DEF Retry
      <3> QED
        BY <3>1, OneMore
    <2> QED
      BY <1>5, <2>1 DEF Retry, Busy
  <1>6. CASE GiveUp(t)
    BY <1>6 DEF GiveUp, Busy
  <1>7. CASE FindDlq(t)
    BY <1>7 DEF FindDlq, Busy
  <1> QED
    BY <1>1, <1>2, <1>3, <1>4, <1>5, <1>6, <1>7 DEF Attempt

\* How publish() ends after the last attempt: with a line in the queue or not.
Ends(p) == Unspilled(p) \/ DlqGone(p) \/ Spill(p) \/ SpillTorn(p)

\* What Spill and SpillTorn leave before the line they append.
Before(lines) == IF EndsOpen(lines) THEN Front(lines) ELSE lines

LEMMA BeforeTyped ==
    ASSUME NEW L, NEW s \in Seq(L)
    PROVE  Before(s) \in Seq(L)
  BY FrontLines DEF Before, EndsOpen

\* The line a failing publish() leaves: of its own signal, whole unless it
\* completes a line cut short or is cut short itself.
LEMMA SpilledLine ==
    ASSUME NEW p, file \in [Days -> Seq(Written(nextId))], today \in Days,
           msg[p] \in Drawn(nextId), Ends(p)
    PROVE  \/ UNCHANGED file /\ UNCHANGED raced
           \/ \E line \in Written(nextId) :
                 /\ line[1] = msg[p][1] /\ line[2] = msg[p][2]
                 /\ file' = [file EXCEPT ![today] = Append(Before(@), line)]
                 /\ line = msg[p] \/ Len(line) = 3
  <1> DEFINE Torn3(h) == Append(msg[p], h)
  <1>1. \A h \in {"open", "closed"} : /\ Torn3(h) \in Written(nextId) /\ Len(Torn3(h)) = 3
                                      /\ Torn3(h)[1] = msg[p][1] /\ Torn3(h)[2] = msg[p][2]
    <2>1. SUFFICES ASSUME NEW h \in {"open", "closed"}
                   PROVE  /\ Torn3(h) \in Written(nextId) /\ Len(Torn3(h)) = 3
                          /\ Torn3(h)[1] = msg[p][1] /\ Torn3(h)[2] = msg[p][2]
      OBVIOUS
    <2>2. PICK i \in Intents, n \in 1 .. nextId - 1 : msg[p] = <<i, n>>
      BY DEF Drawn
    <2>3. Append(msg[p], h) = <<i, n, h>>
      BY <2>2, TornLine
    <2> QED
      BY <2>2, <2>3 DEF Written
  <1>2. msg[p] \in Written(nextId)
    BY DEF Written
  <1> HIDE DEF Torn3
  <1>3. CASE Spill(p)
    BY <1>1, <1>2, <1>3 DEF Spill, Before, Torn3
  <1>4. CASE SpillTorn(p)
    BY <1>1, <1>4 DEF SpillTorn, Before, Torn3
  <1>5. CASE Unspilled(p) \/ DlqGone(p)
    BY <1>5 DEF Unspilled, DlqGone, history
  <1> QED
    BY <1>3, <1>4, <1>5 DEF Ends

LEMMA SpillTyped ==
    ASSUME NEW n, n = nextId, Typed(Drawn(n), Written(n)), HasMsg,
           NEW p \in Producers, Ends(p)
    PROVE  Typed(Drawn(n), Written(n))' /\ HasMsg'
  <1>1. p \in Threads /\ Busy(p) /\ msg[p] \in Drawn(n)
    BY MsgTyped DEF Threads, Busy, Ends, Unspilled, DlqGone, Spill, SpillTorn
  <1>2. file' \in [Days -> Seq(Written(n))]
    <2>1. file \in [Days -> Seq(Written(n))] /\ today \in Days
      BY DEF Typed
    <2>2. CASE UNCHANGED file
      BY <2>1, <2>2
    <2>3. ASSUME NEW line \in Written(n),
                 file' = [file EXCEPT ![today] = Append(Before(@), line)]
          PROVE  file' \in [Days -> Seq(Written(n))]
      <3>1. Append(Before(file[today]), line) \in Seq(Written(n))
        BY <2>1, BeforeTyped, AppendLines
      <3> QED
        BY <2>1, <2>3, <3>1
    <2> QED
      BY <1>1, <2>1, <2>2, <2>3, SpilledLine
  <1>3. /\ raced' \subseteq Drawn(n)
        /\ outcome' \in [Intents -> {"new", "running", "acked", "spilled", "unspilled",
                                     "rejected", "unknown"}]
    <2>1. /\ raced \subseteq Drawn(n)
          /\ outcome \in [Intents -> {"new", "running", "acked", "spilled", "unspilled",
                                      "rejected", "unknown"}]
      BY DEF Typed
    <2>2. \/ UNCHANGED raced
          \/ raced' = raced \cup {msg[p]}
      BY DEF Ends, Unspilled, DlqGone, Spill, SpillTorn, history
    <2>3. \E o \in {"spilled", "unspilled", "unknown"} :
             outcome' = [outcome EXCEPT ![msg[p][1]] = o]
      BY DEF Ends, Unspilled, DlqGone, Spill, SpillTorn
    <2> QED
      BY <1>1, <2>1, <2>2, <2>3
  <1>4. /\ faults' \in 0 .. MaxFaults
        /\ pc' = [pc EXCEPT ![p] = "idle"]
        /\ UNCHANGED <<log, nextId, msg, attempts, today, resendVars, purged>>
    BY FaultType DEF Ends, Unspilled, DlqGone, Spill, SpillTorn, history, Goto, Typed
  <1>5. HasMsg'
    BY <1>1, <1>4 DEF HasMsg, Busy, Typed
  <1> QED
    BY <1>2, <1>3, <1>4, <1>5 DEF Typed, resendVars

\* Another id is drawn: what was drawn before still is.
LEMMA DrawnGrows ==
    ASSUME NEW n \in Nat \ {0}
    PROVE  /\ Drawn(n) \subseteq Drawn(n + 1) /\ Written(n) \subseteq Written(n + 1)
           /\ Seq(Drawn(n)) \subseteq Seq(Drawn(n + 1))
           /\ Seq(Written(n)) \subseteq Seq(Written(n + 1))
  <1>1. Drawn(n) \subseteq Drawn(n + 1) /\ Written(n) \subseteq Written(n + 1)
    BY DEF Drawn, Written
  <1> QED
    BY <1>1, SeqMonotonic

LEMMA PublishTyped ==
    ASSUME NEW n, n = nextId, Typed(Drawn(n), Written(n)), HasMsg,
           NEW p \in Producers, NEW i \in Intents, Publish(p, i)
    PROVE  Typed(Drawn(n + 1), Written(n + 1))' /\ HasMsg' /\ nextId' = n + 1
  <1>1. n \in Nat \ {0} /\ nextId' = n + 1 /\ n + 1 \in Nat \ {0}
    <2>1. n \in Nat \ {0}
      BY DEF Typed
    <2> QED
      BY <2>1 DEF Publish
  <1>2. <<i, n>> \in Drawn(n + 1)
    BY <1>1 DEF Drawn
  <1> DEFINE S == Drawn(n)  T == Drawn(n + 1)  L == Written(n)  M == Written(n + 1)
  <1>3. S \subseteq T /\ L \subseteq M /\ Seq(S) \subseteq Seq(T) /\ Seq(L) \subseteq Seq(M)
    BY <1>1, DrawnGrows
  <1>4. Typed(S, L) /\ <<i, n>> \in T /\ <<i, n>> # <<>>
    BY <1>2
  <1> HIDE DEF S, T, L, M
  <1>5. /\ file \in [Days -> Seq(M)] /\ batch \in [Days -> Seq(T)]
        /\ todo \in Seq(T) /\ survivors \in Seq(T)
        /\ log \subseteq T /\ raced \subseteq T /\ purged \subseteq T
    BY <1>3, <1>4 DEF Typed
  <1>6. msg' \in [Threads -> T \cup {<<>>}] /\ HasMsg'
    BY <1>3, <1>4 DEF Typed, Publish, HasMsg, Busy, Goto
  <1>7. attempts' \in [Threads -> 0 .. MaxAttempts]
    BY FirstAttempt, <1>4 DEF Typed, Publish
  <1>8. Typed(T, M)'
    BY <1>1, <1>5, <1>6, <1>7 DEF Typed, Publish, Goto, resendVars, history
  <1> QED
    BY <1>1, <1>6, <1>8 DEF T, M

LEMMA OperatorTyped ==
    ASSUME NEW n, n = nextId, Typed(Drawn(n), Written(n)), HasMsg,
           OperatorStep \/ BeginPurge
    PROVE  Typed(Drawn(n), Written(n))' /\ HasMsg'
  <1> DEFINE S == Drawn(n)  L == Written(n)
  <1>0. Typed(S, L) /\ operator \in Threads /\ n \in Nat
    BY DEF Threads, Typed
  <1>e. /\ <<>> \in Seq(S) /\ <<>> \in Seq(L)
        /\ Empty \in [Days -> Seq(S)]
    BY NothingTyped
  <1>l. S \subseteq L /\ Seq(S) \subseteq Seq(L)
    BY SeqMonotonic DEF Written
  <1>w. \A s \in Seq(L) : ~Torn(s) => s \in Seq(S)
    <2>1. SUFFICES ASSUME NEW s \in Seq(L), ~Torn(s)
                   PROVE  s \in Seq(S)
      OBVIOUS
    <2>2. \A l \in L : l \in S \/ Len(l) = 3
      BY TornLineLen DEF Written
    <2>3. Entries(s) \subseteq S
      BY <2>1, <2>2, LinesTyped DEF Torn
    <2> QED
      BY <2>3, LinesTyped
  <1> HIDE DEF S, L
  <1> USE DEF publishVars, resendVars, history, Goto
  <1>1. CASE Attempt(operator)
    BY <1>0, <1>1, AttemptTyped DEF S, L
  <1>2. CASE Survive
    <2>1. Append(survivors, msg[operator]) \in Seq(S)
      <3>1. msg[operator] \in S /\ survivors \in Seq(S)
        BY <1>0, <1>2, MsgTyped DEF Survive, Busy, Typed
      <3> QED
        BY <3>1, AppendLines
    <2>2. Typed(S, L)' /\ HasMsg'
      BY <1>0, <1>2, <2>1 DEF Survive, Typed, HasMsg, Busy
    <2> QED
      BY <2>2 DEF S, L
  <1>3. CASE BeginResend \/ BeginPurge
    <2>1. Typed(S, L)' /\ HasMsg'
      BY <1>0, <1>3 DEF BeginResend, BeginPurge, Begin, Typed, HasMsg, Busy
    <2> QED
      BY <2>1 DEF S, L
  <1>4. CASE ReadFile
    <2>1. PICK d \in paths : IF Torn(file[d])
             THEN batch' = Empty /\ paths' = {} /\ Goto(operator, "idle")
             ELSE /\ batch' = [batch EXCEPT ![d] = file[d]]
                  /\ paths' = paths \ {d}
                  /\ UNCHANGED pc
      BY <1>4 DEF ReadFile
    <2>2. file[d] \in Seq(L) /\ d \in Days
      BY <1>0 DEF Typed
    <2>3. batch' \in [Days -> Seq(S)] /\ paths' \subseteq Days
      BY <1>0, <1>e, <1>w, <2>1, <2>2 DEF Typed
    <2>4. UNCHANGED <<publishVars, file, today, suspended, day, todo, survivors, history, faults>>
      BY <1>4 DEF ReadFile
    <2>5. /\ pc' \in [Threads -> {"idle", "post", "failed", "giveup", "spill", "read",
                                  "read to purge", "file", "entry", "unlink"}]
          /\ \A t \in Threads : Busy(t)' => Busy(t)
      BY <1>0, <2>1 DEF Typed, Busy
    <2>6. Typed(S, L)' /\ HasMsg'
      BY <1>0, <2>3, <2>4, <2>5 DEF Typed, HasMsg
    <2> QED
      BY <2>6 DEF S, L
  <1>5. CASE AllRead
    <2>1. Typed(S, L)' /\ HasMsg'
      BY <1>0, <1>5 DEF AllRead, Typed, HasMsg, Busy
    <2> QED
      BY <2>1 DEF S, L
  <1>6. CASE ResendFile
    <2>1. PICK d \in paths : day' = d /\ todo' = batch[d]
      BY <1>6 DEF ResendFile
    <2>2. day' \in Days /\ todo' \in Seq(S)
      BY <1>0, <2>1 DEF Typed
    <2>3. /\ survivors' = <<>> /\ pc' = [pc EXCEPT ![operator] = "entry"]
          /\ UNCHANGED <<publishVars, file, today, suspended, batch, paths, history, faults>>
      BY <1>6 DEF ResendFile
    <2>4. Typed(S, L)' /\ HasMsg'
      BY <1>0, <1>e, <2>2, <2>3 DEF Typed, HasMsg, Busy
    <2> QED
      BY <2>4 DEF S, L
  <1>7. CASE ResendEntry
    <2>1. Head(todo) \in S /\ Tail(todo) \in Seq(S)
      BY <1>0, <1>7, TailLines DEF ResendEntry, Typed
    <2>2. Head(todo) # <<>>
      BY <2>1, PairNotEmpty DEF S, Drawn
    <2>3. attempts' \in [Threads -> 0 .. MaxAttempts]
      BY <1>0, <1>7, FirstAttempt DEF Typed, ResendEntry
    <2>4. Typed(S, L)' /\ HasMsg'
      BY <1>0, <1>7, <2>1, <2>2, <2>3 DEF ResendEntry, Typed, HasMsg, Busy
    <2> QED
      BY <2>4 DEF S, L
  <1>8. CASE Rewrite
    <2>1. survivors \in Seq(L)
      BY <1>0, <1>l DEF Typed
    <2>2. Typed(S, L)' /\ HasMsg'
      BY <1>0, <1>8, <1>e, <2>1 DEF Rewrite, Settled, Typed, HasMsg, Busy
    <2> QED
      BY <2>2 DEF S, L
  <1>9. CASE ResendEnds \/ PurgeEnds
    <2>1. Typed(S, L)' /\ HasMsg'
      BY <1>0, <1>9 DEF ResendEnds, PurgeEnds, Typed, HasMsg, Busy
    <2> QED
      BY <2>1 DEF S, L
  <1>10. CASE Unlink
    <2>1. PICK d \in paths :
             /\ file' = [file EXCEPT ![d] = <<>>]
             /\ purged' = purged \cup Entries(batch[d])
             /\ batch' = [batch EXCEPT ![d] = <<>>]
             /\ paths' = paths \ {d}
      BY <1>10 DEF Unlink
    <2>2. Entries(batch[d]) \subseteq S
      BY <1>0, LinesTyped DEF Typed
    <2>3. Typed(S, L)' /\ HasMsg'
      BY <1>0, <1>10, <1>e, <2>1, <2>2 DEF Unlink, Typed, HasMsg, Busy
    <2> QED
      BY <2>3 DEF S, L
  <1> QED
    BY <1>1, <1>2, <1>3, <1>4, <1>5, <1>6, <1>7, <1>8, <1>9, <1>10 DEF OperatorStep

LEMMA StepTypes ==
    ASSUME TypeOK, HasMsg, [Next]_vars
    PROVE  TypeOK' /\ HasMsg'
  <1>1. PICK n \in Nat \ {0} : n = nextId
    BY DEF TypeOK
  <1> DEFINE S == Drawn(n)  L == Written(n)
  <1>2. Typed(S, L) /\ n = nextId
    BY <1>1, TypedIsTypeOK
  <1>s. ASSUME Typed(S, L)', HasMsg', nextId' = n
        PROVE  TypeOK' /\ HasMsg'
    BY <1>s, TypedIsTypeOK
  <1>e. <<>> \in Seq(S) /\ Empty \in [Days -> Seq(S)]
    BY NothingTyped
  <1>n. ASSUME NEW t \in Threads, Attempt(t) \/ FindDlq(t)
        PROVE  TypeOK' /\ HasMsg'
    <2>1. nextId' = n
      BY <1>n, <1>2 DEF Attempt, PostAccepted, PostFails, PostRefused, PostRejected,
                        Retry, GiveUp, FindDlq, publishVars
    <2> QED
      BY <1>n, <1>2, <1>s, <2>1, AttemptTyped
  <1>3. CASE UNCHANGED vars \/ Midnight
    <2>1. today' \in Days
      <3>1. today \in Days
        BY <1>2 DEF Typed
      <3> QED
        BY <1>3, <3>1, NextDay DEF Midnight, vars
    <2>2. UNCHANGED <<publishVars, file, pc, resendVars, history, faults>>
      BY <1>3 DEF Midnight, vars
    <2> HIDE DEF S, L
    <2>3. Typed(S, L)' /\ HasMsg'
      BY <1>2, <2>1, <2>2 DEF Typed, HasMsg, Busy, publishVars, resendVars, history
    <2> QED
      BY <1>2, <1>s, <2>2, <2>3 DEF publishVars
  <1>4. CASE Crash
    <2>1. /\ faults' \in 0 .. MaxFaults
          /\ day' \in Days
          /\ attempts' \in [Threads -> 0 .. MaxAttempts]
      <3>1. faults \in 0 .. MaxFaults
        BY <1>2 DEF Typed
      <3> QED
        BY <1>4, <3>1, FaultType, FirstAttempt DEF Crash
    <2> HIDE DEF S, L
    <2>2. Typed(S, L)' /\ HasMsg'
      BY <1>2, <1>4, <1>e, <2>1 DEF Crash, Typed, HasMsg, Busy, history
    <2> QED
      BY <1>2, <1>4, <1>s, <2>2 DEF Crash
  <1>5. ASSUME NEW p \in Producers, NEW i \in Intents, Publish(p, i)
        PROVE  TypeOK' /\ HasMsg'
    <2>1. Typed(Drawn(n + 1), Written(n + 1))' /\ HasMsg' /\ nextId' = n + 1
      BY <1>2, <1>5, PublishTyped
    <2> QED
      BY <2>1, TypedIsTypeOK
  <1>6. ASSUME NEW p \in Producers, Ends(p)
        PROVE  TypeOK' /\ HasMsg'
    <2>1. nextId' = n
      BY <1>2, <1>6 DEF Ends, Unspilled, DlqGone, Spill, SpillTorn
    <2> QED
      BY <1>2, <1>6, <1>s, <2>1, SpillTyped
  <1>7. CASE OperatorStep \/ BeginPurge
    <2>1. nextId' = n
      BY <1>2, <1>7 DEF OperatorStep, BeginPurge, BeginResend, Begin, Attempt, PostAccepted,
            PostFails, PostRefused, PostRejected, Retry, GiveUp, Survive, ReadFile, AllRead,
            ResendFile, ResendEntry, Rewrite, ResendEnds, Unlink, PurgeEnds, publishVars
    <2> QED
      BY <1>2, <1>7, <1>s, <2>1, OperatorTyped
  <1> QED
    BY <1>n, <1>3, <1>4, <1>5, <1>6, <1>7 DEF Next, Threads, Ends


-----------------------------------------------------------------------------
(* publish() keeps the invariant *)

Traces == log \cup Pending \cup Copies

\* Every trace is of an intent; so is what a busy thread has in hand.
LEMMA IntentsTyped ==
    ASSUME TypeOK, HasMsg
    PROVE  /\ \A e \in Traces : e[1] \in Intents
           /\ \A t \in Threads : Busy(t) => msg[t] \in Drawn(nextId) /\ msg[t][1] \in Intents
           /\ \A d \in Days : /\ file[d] \in Seq(Written(nextId))
                              /\ batch[d] \in Seq(Drawn(nextId))
                              /\ Entries(batch[d]) \subseteq Drawn(nextId)
           /\ \A t \in Producers \cup {operator} : t \in Threads
           /\ today \in Days /\ day \in Days /\ paths \subseteq Days
           /\ outcome \in [Intents -> {"new", "running", "acked", "spilled", "unspilled",
                                       "rejected", "unknown"}]
           /\ DOMAIN pc = Threads /\ DOMAIN msg = Threads
           /\ DOMAIN batch = Days /\ DOMAIN file = Days
           /\ todo \in Seq(Drawn(nextId)) /\ survivors \in Seq(Drawn(nextId))
  <1> DEFINE S == Drawn(nextId)  L == Written(nextId)
  <1>1. Typed(S, L)
    BY TypedIsTypeOK
  <1>2. \A e \in L : e[1] \in Intents
    BY DEF Written, Drawn
  <1>3. S \subseteq L
    BY DEF Written
  <1> HIDE DEF S, L
  <1>4. \A d \in Days : Entries(file[d]) \subseteq L /\ Entries(batch[d]) \subseteq S
    BY <1>1, LinesTyped DEF Typed
  <1>5. \A e \in Traces : e \in L
    BY <1>1, <1>3, <1>4 DEF Typed, Traces, Pending, Copies
  <1>6. \A t \in Threads : Busy(t) => msg[t] \in S
    BY <1>1, MsgTyped
  <1>7. \A d \in Days : file[d] \in Seq(L) /\ batch[d] \in Seq(S)
    BY <1>1 DEF Typed
  <1>8. /\ today \in Days /\ day \in Days /\ paths \subseteq Days
        /\ outcome \in [Intents -> {"new", "running", "acked", "spilled", "unspilled",
                                    "rejected", "unknown"}]
        /\ DOMAIN pc = Threads /\ DOMAIN msg = Threads
        /\ DOMAIN batch = Days /\ DOMAIN file = Days
        /\ todo \in Seq(S) /\ survivors \in Seq(S)
    BY <1>1 DEF Typed
  <1> QED
    BY <1>2, <1>3, <1>4, <1>5, <1>6, <1>7, <1>8 DEF Threads, S, L

\* What an attempt of t, or its first look at the dlq, does to what the invariant
\* speaks of.
LEMMA AttemptEffect ==
    ASSUME TypeOK, HasMsg, NEW t \in Threads, Attempt(t) \/ FindDlq(t)
    PROVE  /\ Busy(t) /\ UNCHANGED <<file, raced, purged, msg, day>>
           /\ log \subseteq log' /\ log' \subseteq log \cup {msg[t]}
           /\ \A u \in Threads \ {t} : pc'[u] = pc[u]
           /\ pc'[t] \in {"post", "failed", "giveup", "spill", "idle", "entry"}
           /\ pc'[t] = "spill" => t # operator
           /\ \/ UNCHANGED outcome
              \/ /\ t # operator /\ pc'[t] = "idle"
                 /\ \E o \in {"acked", "rejected"} :
                       outcome' = [outcome EXCEPT ![msg[t][1]] = o]
           /\ \/ /\ UNCHANGED resendVars
                 /\ t = operator /\ pc'[t] # "entry" => Busy(t)'
                 /\ t = operator /\ pc'[t] = "entry" => msg[t] \in log'
              \/ t = operator /\ pc'[t] = "idle" /\ batch' = Empty /\ suspended' = FALSE
  <1>1. /\ DOMAIN pc = Threads
        /\ Busy(t) => pc[t] \in {"post", "failed", "giveup", "spill"}
    BY IntentsTyped DEF Busy
  <1> USE DEF publishVars, resendVars, history, Goto, Busy
  <1>2. CASE PostAccepted(t)
    BY <1>1, <1>2 DEF PostAccepted
  <1>3. CASE PostFails(t)
    BY <1>1, <1>3 DEF PostFails
  <1>4. CASE PostRefused(t)
    BY <1>1, <1>4 DEF PostRefused
  <1>5. CASE PostRejected(t)
    BY <1>1, <1>5 DEF PostRejected
  <1>6. CASE Retry(t)
    BY <1>1, <1>6 DEF Retry
  <1>7. CASE GiveUp(t)
    BY <1>1, <1>7 DEF GiveUp
  <1>8. CASE FindDlq(t)
    BY <1>1, <1>8 DEF FindDlq
  <1> QED
    BY <1>2, <1>3, <1>4, <1>5, <1>6, <1>7, <1>8 DEF Attempt

LEMMA NothingCopied ==
    ASSUME batch' = Empty
    PROVE  /\ Copies' = {}
           /\ \A d \in Days : batch'[d] = <<>> /\ Entries(batch'[d]) = {} /\ NoDup(batch'[d])
  BY EmptyLines DEF Copies, Empty

LEMMA AttemptKeeps ==
    ASSUME IInv, NEW t \in Threads, Attempt(t) \/ FindDlq(t)
    PROVE  /\ PublishOK' /\ StatusOK' /\ OneId' /\ OneLine'
           /\ ResendOK' /\ Covered' /\ NothingLost' /\ SuspensionEnds'
  <1>0. TypeOK /\ HasMsg
    BY DEF IInv, PublishOK, HasMsg
  <1>1. /\ Busy(t) /\ UNCHANGED <<file, raced, purged, msg, day>>
        /\ log \subseteq log' /\ log' \subseteq log \cup {msg[t]}
        /\ \A u \in Threads \ {t} : pc'[u] = pc[u]
        /\ pc'[t] \in {"post", "failed", "giveup", "spill", "idle", "entry"}
        /\ pc'[t] = "spill" => t # operator
    BY <1>0, AttemptEffect
  <1>2. \/ UNCHANGED outcome
        \/ /\ t # operator /\ pc'[t] = "idle"
           /\ \E o \in {"acked", "rejected"} : outcome' = [outcome EXCEPT ![msg[t][1]] = o]
    BY <1>0, AttemptEffect
  <1>3. \/ /\ UNCHANGED resendVars
           /\ t = operator /\ pc'[t] # "entry" => Busy(t)'
           /\ t = operator /\ pc'[t] = "entry" => msg[t] \in log'
        \/ t = operator /\ pc'[t] = "idle" /\ batch' = Empty /\ suspended' = FALSE
    BY <1>0, AttemptEffect
  <1>4. /\ \A e \in Traces : e[1] \in Intents
        /\ \A u \in Threads : Busy(u) => msg[u][1] \in Intents
        /\ outcome \in [Intents -> {"new", "running", "acked", "spilled", "unspilled",
                                    "rejected", "unknown"}]
        /\ \A u \in Producers \cup {operator} : u \in Threads
        /\ \A u \in Threads : u = operator \/ u \in Producers
        /\ day \in Days
    BY <1>0, IntentsTyped DEF Threads
  <1>5. Pending' = Pending /\ Copies' \subseteq Copies
    BY <1>1, <1>3, NothingCopied DEF Pending, Copies, resendVars
  <1>6. ASSUME NEW u \in Threads, Busy(u)'
        PROVE  Busy(u) /\ (u = t => UNCHANGED outcome)
    BY <1>1, <1>2, <1>6 DEF Busy
  <1>7. t = operator => msg[t] \in Copies
    BY <1>1, <1>4 DEF IInv, ResendOK, Resending, Unsettled, InHand, Copies
  <1>8. t # operator => outcome[msg[t][1]] = "running"
    BY <1>1, <1>4 DEF IInv, PublishOK
  <1>9. \A e \in Pending \cup Copies : outcome'[e[1]] = outcome[e[1]]
    BY <1>2, <1>4, <1>8 DEF IInv, StatusOK, Traces
  <1>10. PublishOK'
    BY <1>0, <1>1, <1>2, <1>4, <1>6 DEF IInv, PublishOK
  <1>11. StatusOK'
    <2>1. \A e \in log' : outcome'[e[1]] # "new"
      BY <1>1, <1>2, <1>4, <1>7, <1>8 DEF IInv, StatusOK, Traces
    <2>2. \A d \in Days : EndsOpen(file[d]) => outcome'[Last(file[d])[1]] = "unknown"
      <3>1. SUFFICES ASSUME NEW d \in Days, EndsOpen(file[d])
                     PROVE  outcome'[Last(file[d])[1]] = "unknown"
        OBVIOUS
      <3>2. Last(file[d]) \in Pending
        <4>1. file[d] \in Seq(Written(nextId)) /\ file[d] # <<>>
          BY <1>0, <3>1, IntentsTyped DEF EndsOpen
        <4> QED
          BY <4>1, FrontLines DEF Pending
      <3> QED
        BY <1>9, <3>1, <3>2 DEF IInv, StatusOK
    <2> QED
      BY <1>1, <1>5, <1>9, <2>1, <2>2 DEF IInv, StatusOK
  <1>12. OneId'
    <2>1. Known' \subseteq Known
      BY <1>1, <1>4, <1>5, <1>6, <1>7 DEF Known
    <2> QED
      BY <2>1 DEF IInv, OneId
  <1>13. OneLine'
    BY <1>1, <1>3, NothingCopied DEF IInv, OneLine, resendVars, Apart
  <1>14. ResendOK'
    <2>1. CASE t = operator /\ pc'[t] = "idle" /\ batch' = Empty
      BY <2>1 DEF ResendOK, Resending, Busy
    <2>2. CASE UNCHANGED resendVars /\ t # operator
      <3>1. Unsettled' = Unsettled /\ InHand' = InHand /\ (Resending' <=> Resending)
        BY <1>1, <1>4, <2>2 DEF Unsettled, InHand, Resending, Busy, resendVars
      <3>2. pc'[operator] = pc[operator]
        BY <1>1, <1>4, <2>2
      <3> QED
        BY <1>1, <2>2, <3>1, <3>2 DEF IInv, ResendOK, resendVars
    <2>3. CASE UNCHANGED resendVars /\ t = operator /\ Busy(t)'
      <3>1. Unsettled' = Unsettled /\ InHand' = InHand /\ Resending /\ Resending'
        BY <1>1, <2>3 DEF Unsettled, InHand, Resending, resendVars
      <3> QED
        BY <1>1, <2>3, <3>1 DEF IInv, ResendOK, resendVars
    <2>4. CASE UNCHANGED resendVars /\ t = operator /\ pc'[t] = "entry" /\ msg[t] \in log'
      <3>1. InHand = {msg[t]} /\ InHand' = {} /\ Resending /\ Resending'
        BY <1>1, <2>4 DEF InHand, Resending, Busy
      <3>2. Unsettled = {msg[t]} \cup Unsettled'
        BY <2>4, <3>1 DEF Unsettled, resendVars
      <3> QED
        BY <1>1, <2>4, <3>1, <3>2 DEF IInv, ResendOK, resendVars, Apart
    <2> QED
      BY <1>1, <1>3, <2>1, <2>2, <2>3, <2>4 
  <1>15. Covered'
    <2>1. \A d \in Days : batch'[d] # <<>> => batch'[d] = batch[d]
      BY <1>3, NothingCopied DEF resendVars
    <2>2. \A d \in Days : \A e \in Entries(file[d]) : e \in Pending
      BY DEF Pending
    <2> QED
      BY <1>1, <1>9, <2>1, <2>2 DEF IInv, Covered
  <1>16. NothingLost'
    <2>1. \A i \in Intents : outcome'[i] = "spilled" => outcome[i] = "spilled"
      BY <1>2, <1>4
    <2> QED
      BY <1>1, <1>5, <2>1 DEF IInv, NothingLost, Held
  <1>17. SuspensionEnds'
    BY <1>1, <1>3, <1>4 DEF IInv, SuspensionEnds, resendVars, Busy
  <1> QED
    BY <1>10, <1>11, <1>12, <1>13, <1>14, <1>15, <1>16, <1>17

LEMMA PublishKeeps ==
    ASSUME IInv, NEW p \in Producers, NEW i \in Intents, Publish(p, i)
    PROVE  /\ PublishOK' /\ StatusOK' /\ OneId' /\ OneLine'
           /\ ResendOK' /\ Covered' /\ NothingLost' /\ SuspensionEnds'
  <1>0. TypeOK /\ HasMsg
    BY DEF IInv, PublishOK, HasMsg
  <1>1. /\ \A e \in Traces : e[1] \in Intents
        /\ \A u \in Threads : Busy(u) => msg[u][1] \in Intents
        /\ outcome \in [Intents -> {"new", "running", "acked", "spilled", "unspilled",
                                    "rejected", "unknown"}]
        /\ \A u \in Producers \cup {operator} : u \in Threads
        /\ DOMAIN pc = Threads /\ DOMAIN msg = Threads
    BY <1>0, IntentsTyped
  <1>2. /\ outcome[i] = "new" /\ outcome' = [outcome EXCEPT ![i] = "running"]
        /\ msg' = [msg EXCEPT ![p] = <<i, nextId>>]
        /\ pc' = [pc EXCEPT ![p] = "post"] /\ ~Busy(p)
        /\ UNCHANGED <<log, file, today, resendVars, history, faults>>
    BY DEF Publish, Goto, Busy
  <1>3. p # operator /\ pc'[operator] = pc[operator] /\ msg'[operator] = msg[operator]
    BY <1>1, <1>2, OutboxAssumption
  <1>4. /\ \A u \in Threads \ {p} : (Busy(u)' <=> Busy(u)) /\ msg'[u] = msg[u]
        /\ Busy(p)' /\ msg'[p] = <<i, nextId>>
    BY <1>1, <1>2 DEF Busy
  <1>5. /\ Pending' = Pending /\ Copies' = Copies
        /\ InHand' = InHand /\ Unsettled' = Unsettled /\ (Resending' <=> Resending)
    BY <1>2, <1>3 DEF Pending, Copies, InHand, Unsettled, Resending, Busy, resendVars
  <1>6. \A e \in Traces : e[1] # i /\ outcome'[e[1]] = outcome[e[1]]
    BY <1>1, <1>2 DEF IInv, StatusOK, Traces
  <1>7. \A q \in Producers : Busy(q) => msg[q][1] # i /\ outcome'[msg[q][1]] = "running"
    BY <1>1, <1>2 DEF IInv, PublishOK
  <1>8. PublishOK'
    <2>1. <<i, nextId>> # <<>>
      OBVIOUS
    <2> QED
      BY <1>1, <1>2, <1>4, <1>7, <2>1 DEF IInv, PublishOK
  <1>9. StatusOK'
    <2>1. \A d \in Days : EndsOpen(file[d]) => Last(file[d]) \in Pending
      <3>1. \A d \in Days : EndsOpen(file[d]) => Last(file[d]) \in Entries(file[d])
        BY <1>0, IntentsTyped, FrontLines DEF EndsOpen
      <3> QED
        BY <3>1 DEF Pending
    <2> QED
      BY <1>2, <1>5, <1>6, <2>1 DEF IInv, StatusOK, Traces
  <1>10. OneId'
    <2>1. \A e \in Known' : e \in Known \/ e = <<i, nextId>>
      BY <1>1, <1>2, <1>4, <1>5 DEF Known
    <2>2. \A e \in Known : e[1] # i
      BY <1>6, <1>7 DEF Known, Traces
    <2>3. <<i, nextId>>[1] = i
      OBVIOUS
    <2> QED
      BY <2>1, <2>2, <2>3 DEF IInv, OneId
  <1>11. OneLine'
    BY <1>2 DEF IInv, OneLine, resendVars
  <1>12. ResendOK'
    BY <1>2, <1>3, <1>5 DEF IInv, ResendOK, resendVars
  <1>13. Covered'
    <2>1. \A d \in Days : \A e \in Entries(file[d]) : e \in Traces
      BY DEF Traces, Pending
    <2> QED
      BY <1>2, <1>6, <2>1 DEF IInv, Covered, resendVars, history
  <1>14. NothingLost'
    BY <1>1, <1>2, <1>5 DEF IInv, NothingLost, Held, history
  <1>15. SuspensionEnds'
    BY <1>2, <1>3 DEF IInv, SuspensionEnds, resendVars
  <1> QED
    BY <1>8, <1>9, <1>10, <1>11, <1>12, <1>13, <1>14, <1>15

-----------------------------------------------------------------------------
(* Spilling keeps the invariant *)

\* What appending a line of a fresh intent does to the file of the day.
LEMMA LineAppended ==
    ASSUME NEW L, NEW s \in Seq(L), NEW line \in L, NoDup(s),
           Apart(Entries(s), {line})
    PROVE  LET t == Append(Before(s), line) IN
           /\ line \in Entries(t) /\ Entries(t) \subseteq Entries(s) \cup {line}
           /\ \A e \in Entries(s) : e \in Entries(t) \/ (EndsOpen(s) /\ e = Last(s))
           /\ NoDup(t) /\ Last(t) = line
  <1> DEFINE b == Before(s)
  <1>1. /\ b \in Seq(L) /\ NoDup(b) /\ Entries(b) \subseteq Entries(s)
        /\ \A e \in Entries(s) : e \in Entries(b) \/ (EndsOpen(s) /\ e = Last(s))
    <2>1. CASE EndsOpen(s)
      <3>1. s # <<>> /\ b = Front(s)
        BY <2>1 DEF Before, EndsOpen
      <3>2. /\ Front(s) \in Seq(L)
            /\ Last(s) \in Entries(s)
            /\ Entries(s) = Entries(Front(s)) \cup {Last(s)}
            /\ NoDup(s) => NoDup(Front(s))
        BY <3>1, FrontLines
      <3> HIDE DEF b
      <3> QED
        BY <2>1, <3>1, <3>2
    <2>2. CASE ~EndsOpen(s)
      <3>1. b = s
        BY <2>2 DEF Before
      <3> HIDE DEF b
      <3> QED
        BY <3>1
    <2> QED
      BY <2>1, <2>2
  <1>2. Apart(Entries(b), {line})
    BY <1>1 DEF Apart
  <1> HIDE DEF b
  <1>3. /\ Append(b, line) \in Seq(L)
        /\ Entries(Append(b, line)) = Entries(b) \cup {line}
        /\ Append(b, line) # <<>> /\ Last(Append(b, line)) = line
        /\ NoDup(b) /\ Apart(Entries(b), {line}) => NoDup(Append(b, line))
    BY <1>1, AppendLines
  <1> QED
    BY <1>1, <1>2, <1>3 DEF b

\* What a failing publish() of p leaves behind.
SpilledAs(p, line, o) ==
    /\ line[1] = msg[p][1] /\ line[2] = msg[p][2]
    /\ outcome' = [outcome EXCEPT ![msg[p][1]] = o]
    /\ \A d \in Days : d # today => file'[d] = file[d]
    /\ line \in Entries(file'[today])
    /\ Entries(file'[today]) \subseteq Entries(file[today]) \cup {line}
    /\ \A e \in Entries(file[today]) : e \in Entries(file'[today]) \/ outcome[e[1]] = "unknown"
    /\ NoDup(file'[today])
    /\ EndsOpen(file'[today]) => o = "unknown" /\ Last(file'[today]) = line
    /\ o = "spilled" /\ batch[today] # <<>> => msg[p] \in raced'

LEMMA SpillEffect ==
    ASSUME IInv, NEW p \in Producers, Ends(p)
    PROVE  \/ /\ UNCHANGED file
              /\ \E o \in {"unspilled", "unknown"} : outcome' = [outcome EXCEPT ![msg[p][1]] = o]
           \/ \E line, o : o \in {"spilled", "unknown"} /\ SpilledAs(p, line, o)
  <1>0. TypeOK /\ HasMsg
    BY DEF IInv, PublishOK, HasMsg
  <1>1. p \in Threads /\ Busy(p)
    BY DEF Threads, Ends, Unspilled, DlqGone, Spill, SpillTorn, Busy
  <1>2. /\ msg[p] \in Drawn(nextId) /\ msg[p][1] \in Intents
        /\ today \in Days /\ DOMAIN file = Days
        /\ file[today] \in Seq(Written(nextId))
        /\ outcome[msg[p][1]] = "running"
    BY <1>0, <1>1, IntentsTyped DEF IInv, PublishOK
  <1>3. file \in [Days -> Seq(Written(nextId))]
    BY <1>0 DEF TypeOK, Written, Drawn
  <1>4. \A e \in Entries(file[today]) : e[1] # msg[p][1]
    BY <1>2 DEF IInv, StatusOK, Pending
  <1>5. EndsOpen(file[today]) => outcome[Last(file[today])[1]] = "unknown"
    BY <1>2 DEF IInv, StatusOK
  <1>6. ASSUME NEW line \in Written(nextId), NEW o \in {"spilled", "unknown"},
               line[1] = msg[p][1], line[2] = msg[p][2],
               file' = [file EXCEPT ![today] = Append(Before(@), line)],
               outcome' = [outcome EXCEPT ![msg[p][1]] = o],
               Len(line) = 3 /\ line[3] = "open" => o = "unknown",
               o = "spilled" /\ batch[today] # <<>> => msg[p] \in raced'
        PROVE  SpilledAs(p, line, o)
    <2>1. Apart(Entries(file[today]), {line}) /\ NoDup(file[today])
      BY <1>2, <1>4, <1>6 DEF Apart, IInv, OneLine
    <2>2. /\ file'[today] = Append(Before(file[today]), line)
          /\ \A d \in Days : d # today => file'[d] = file[d]
      BY <1>2, <1>6
    <2>3. LET t == Append(Before(file[today]), line) IN
          /\ line \in Entries(t) /\ Entries(t) \subseteq Entries(file[today]) \cup {line}
          /\ \A e \in Entries(file[today]) :
                e \in Entries(t) \/ (EndsOpen(file[today]) /\ e = Last(file[today]))
          /\ NoDup(t) /\ Last(t) = line
      BY <1>2, <2>1, LineAppended
    <2> QED
      BY <1>5, <1>6, <2>2, <2>3 DEF SpilledAs, EndsOpen
  <1>7. PICK i \in Intents, n \in 1 .. nextId - 1 : msg[p] = <<i, n>>
    BY <1>2 DEF Drawn
  <1> DEFINE Cut(h) == Append(msg[p], h)
  <1>8. \A h \in {"open", "closed"} :
           /\ Cut(h) \in Written(nextId)
           /\ Cut(h)[1] = msg[p][1] /\ Cut(h)[2] = msg[p][2] /\ Cut(h)[3] = h
    <2>1. SUFFICES ASSUME NEW h \in {"open", "closed"}
                   PROVE  /\ Cut(h) \in Written(nextId)
                          /\ Cut(h)[1] = msg[p][1] /\ Cut(h)[2] = msg[p][2]
                          /\ Cut(h)[3] = h
      OBVIOUS
    <2>2. Cut(h) = <<i, n, h>>
      BY <1>7, TornLine
    <2> HIDE DEF Cut
    <2> QED
      BY <1>7, <2>2 DEF Written
  <1>9. msg[p] \in Written(nextId) /\ Len(msg[p]) # 3
    BY <1>2, <1>7 DEF Written
  <1>c. /\ Cut("closed") = Append(msg[p], "closed")
        /\ Cut("open") = Append(msg[p], "open")
    OBVIOUS
  <1> HIDE DEF Cut
  <1>10. CASE Spill(p)
    <2>1. /\ outcome' = [outcome EXCEPT ![msg[p][1]] = "spilled"]
          /\ batch[today] # <<>> => msg[p] \in raced'
          /\ file' = [file EXCEPT ![today] =
                          IF EndsOpen(@) THEN Append(Front(@), Cut("closed"))
                                         ELSE Append(@, msg[p])]
      BY <1>10, <1>c DEF Spill
    <2>2. CASE EndsOpen(file[today])
      <3>1. file' = [file EXCEPT ![today] = Append(Before(@), Cut("closed"))]
        BY <2>1, <2>2 DEF Before
      <3>2. SpilledAs(p, Cut("closed"), "spilled")
        BY <1>6, <1>8, <2>1, <3>1
      <3> QED
        BY <3>2
    <2>3. CASE ~EndsOpen(file[today])
      <3>1. file' = [file EXCEPT ![today] = Append(Before(@), msg[p])]
        BY <2>1, <2>3 DEF Before
      <3>2. SpilledAs(p, msg[p], "spilled")
        BY <1>6, <1>9, <2>1, <3>1
      <3> QED
        BY <3>2
    <2> QED
      BY <2>2, <2>3
  <1>11. CASE SpillTorn(p)
    <2>1. /\ outcome' = [outcome EXCEPT ![msg[p][1]] = "unknown"]
          /\ file' = [file EXCEPT ![today] = Append(Before(@), Cut("open"))]
      BY <1>11, <1>c DEF SpillTorn, Before
    <2>2. SpilledAs(p, Cut("open"), "unknown")
      BY <1>6, <1>8, <2>1
    <2> QED
      BY <2>2
  <1>12. CASE Unspilled(p) \/ DlqGone(p)
    BY <1>12 DEF Unspilled, DlqGone
  <1> QED
    BY <1>10, <1>11, <1>12 DEF Ends

LEMMA SpillKeeps ==
    ASSUME IInv, NEW p \in Producers, Ends(p)
    PROVE  /\ PublishOK' /\ StatusOK' /\ OneId' /\ OneLine'
           /\ ResendOK' /\ Covered' /\ NothingLost' /\ SuspensionEnds'
  <1>0. TypeOK /\ HasMsg
    BY DEF IInv, PublishOK, HasMsg
  <1>1. /\ \A e \in Traces : e[1] \in Intents
        /\ \A u \in Threads : Busy(u) => msg[u][1] \in Intents
        /\ outcome \in [Intents -> {"new", "running", "acked", "spilled", "unspilled",
                                    "rejected", "unknown"}]
        /\ \A u \in Producers \cup {operator} : u \in Threads
        /\ DOMAIN pc = Threads /\ today \in Days
    BY <1>0, IntentsTyped
  <1>2. /\ p # operator /\ Busy(p) /\ pc' = [pc EXCEPT ![p] = "idle"]
        /\ UNCHANGED <<log, msg, today, resendVars, purged>>
        /\ raced \subseteq raced'
    BY OutboxAssumption DEF Ends, Unspilled, DlqGone, Spill, SpillTorn, Busy, Goto, history
  <1>3. pc'[operator] = pc[operator] /\ Busy(p) /\ p \in Threads
    BY <1>1, <1>2
  <1>4. /\ \A u \in Threads : Busy(u)' => Busy(u) /\ u # p
        /\ \A u \in Threads \ {p} : Busy(u)' <=> Busy(u)
    BY <1>1, <1>2 DEF Busy
  <1>5. /\ Copies' = Copies /\ InHand' = InHand /\ Unsettled' = Unsettled
        /\ (Resending' <=> Resending)
    BY <1>2, <1>3 DEF Copies, InHand, Unsettled, Resending, Busy, resendVars
  <1>6. outcome[msg[p][1]] = "running" /\ msg[p][1] \in Intents
    BY <1>1, <1>3 DEF IInv, PublishOK
  <1>7. \A e \in Pending \cup Copies : e[1] # msg[p][1]
    BY <1>6 DEF IInv, StatusOK
  <1>8. PICK o \in {"spilled", "unspilled", "unknown"} :
           outcome' = [outcome EXCEPT ![msg[p][1]] = o]
    BY SpillEffect DEF SpilledAs
  <1>9. /\ \A e \in Pending \cup Copies : outcome'[e[1]] = outcome[e[1]]
        /\ \A e \in log : outcome'[e[1]] # "new"
        /\ \A q \in Producers : Busy(q) /\ q # p => outcome'[msg[q][1]] = "running"
        /\ \A i \in Intents : i # msg[p][1] => outcome'[i] = outcome[i]
    <2>1. \A i \in Intents : /\ i # msg[p][1] => outcome'[i] = outcome[i]
                             /\ outcome[i] # "new" => outcome'[i] # "new"
      BY <1>1, <1>6, <1>8
    <2>2. \A q \in Producers : Busy(q) /\ q # p => /\ msg[q][1] # msg[p][1]
                                                  /\ msg[q][1] \in Intents
                                                  /\ outcome[msg[q][1]] = "running"
      BY <1>1, <1>3 DEF IInv, PublishOK
    <2>3. \A e \in log : e[1] \in Intents /\ outcome[e[1]] # "new"
      BY <1>1 DEF IInv, StatusOK, Traces
    <2>4. \A e \in Pending \cup Copies : e[1] \in Intents
      BY <1>1 DEF Traces
    <2> QED
      BY <1>7, <2>1, <2>2, <2>3, <2>4
  <1>10. PublishOK'
    BY <1>2, <1>4, <1>9, <1>1 DEF IInv, PublishOK
  <1>11. ResendOK' /\ SuspensionEnds'
    BY <1>2, <1>3, <1>5 DEF IInv, ResendOK, SuspensionEnds, resendVars
  <1>12. ASSUME NEW u \in {"unspilled", "unknown"}, UNCHANGED file,
                outcome' = [outcome EXCEPT ![msg[p][1]] = u]
         PROVE  StatusOK' /\ OneId' /\ OneLine' /\ Covered' /\ NothingLost'
    <2>1. Pending' = Pending
      BY <1>12 DEF Pending
    <2>2. \A d \in Days : EndsOpen(file[d]) => Last(file[d]) \in Pending
      <3>1. \A d \in Days : EndsOpen(file[d]) => Last(file[d]) \in Entries(file[d])
        BY <1>0, IntentsTyped, FrontLines DEF EndsOpen
      <3> QED
        BY <3>1 DEF Pending
    <2>3. StatusOK'
      BY <1>2, <1>5, <1>9, <1>12, <2>1, <2>2 DEF IInv, StatusOK
    <2>4. OneId'
      <3>1. Known' \subseteq Known
        BY <1>1, <1>2, <1>4, <1>5, <2>1 DEF Known
      <3> QED
        BY <3>1 DEF IInv, OneId
    <2>5. OneLine'
      BY <1>2, <1>12 DEF IInv, OneLine, resendVars
    <2>6. Covered'
      <3>1. \A d \in Days : \A e \in Entries(file[d]) : e \in Pending
        BY DEF Pending
      <3> QED
        BY <1>2, <1>9, <1>12, <3>1 DEF IInv, Covered, resendVars
    <2>7. NothingLost'
      BY <1>1, <1>2, <1>6, <1>9, <1>12, <2>1 DEF IInv, NothingLost, Held
    <2> QED
      BY <2>3, <2>4, <2>5, <2>6, <2>7
  <1>13. ASSUME NEW line, NEW u \in {"spilled", "unknown"}, SpilledAs(p, line, u)
         PROVE  StatusOK' /\ OneId' /\ OneLine' /\ Covered' /\ NothingLost'
    <2>1. /\ line[1] = msg[p][1] /\ line[2] = msg[p][2]
          /\ outcome' = [outcome EXCEPT ![msg[p][1]] = u]
          /\ \A d \in Days : d # today => file'[d] = file[d]
          /\ line \in Entries(file'[today])
          /\ Entries(file'[today]) \subseteq Entries(file[today]) \cup {line}
          /\ \A e \in Entries(file[today]) :
                e \in Entries(file'[today]) \/ outcome[e[1]] = "unknown"
          /\ NoDup(file'[today])
          /\ EndsOpen(file'[today]) => u = "unknown" /\ Last(file'[today]) = line
          /\ u = "spilled" /\ batch[today] # <<>> => msg[p] \in raced'
      BY <1>13 DEF SpilledAs
    <2>2. outcome'[line[1]] = u
      BY <1>1, <1>6, <2>1
    <2>3. /\ Pending' \subseteq Pending \cup {line} /\ line \in Pending'
          /\ \A e \in Pending : e \in Pending' \/ outcome[e[1]] = "unknown"
          /\ \A d \in Days : /\ Entries(file[d]) \subseteq Pending
                             /\ Entries(file'[d]) \subseteq Entries(file[d]) \cup {line}
                             /\ Entries(batch[d]) \subseteq Copies
      BY <1>1, <2>1 DEF Pending, Copies
    <2>4. StatusOK'
      <3>1. \A e \in Pending' \cup Copies' : outcome'[e[1]] \in {"spilled", "unknown"}
        BY <1>5, <1>9, <2>2, <2>3 DEF IInv, StatusOK
      <3>2. ASSUME NEW d \in Days, EndsOpen(file'[d])
            PROVE  outcome'[Last(file'[d])[1]] = "unknown"
        <4>1. CASE d = today
          BY <2>1, <2>2, <3>2, <4>1
        <4>2. CASE d # today
          <5>1. file[d] \in Seq(Written(nextId)) /\ file'[d] = file[d] /\ file[d] # <<>>
            BY <1>0, <2>1, <3>2, <4>2, IntentsTyped DEF EndsOpen
          <5>2. Last(file[d]) \in Pending
            BY <2>3, <5>1, FrontLines
          <5> QED
            BY <1>9, <3>2, <5>1, <5>2 DEF IInv, StatusOK
        <4> QED
          BY <4>1, <4>2
      <3> QED
        BY <1>2, <1>9, <3>1, <3>2 DEF StatusOK
    <2>5. OneId'
      <3>1. msg[p] \in Known
        BY <1>3 DEF Known
      <3>2. \A e \in Known' : e \in Known \/ e = line
        BY <1>1, <1>2, <1>4, <1>5, <2>3 DEF Known
      <3> QED
        BY <2>1, <3>1, <3>2 DEF IInv, OneId
    <2>6. OneLine'
      <3>1. \A d \in Days : \A e \in Entries(file[d]) \cup Entries(batch[d]) : e[1] # line[1]
        BY <1>7, <2>1, <2>3
      <3>2. \A d \in Days : NoDup(file'[d]) /\ NoDup(batch'[d])
        BY <1>2, <2>1 DEF IInv, OneLine, resendVars
      <3>3. \A d \in Days : /\ d # today => Entries(file'[d]) = Entries(file[d])
                            /\ batch'[d] = batch[d]
        BY <1>2, <2>1 DEF resendVars
      <3>4. ASSUME NEW d \in Days, NEW e \in Days, d # e
            PROVE  /\ Apart(Entries(file'[d]), Entries(file'[e]))
                   /\ Apart(Entries(batch'[d]), Entries(batch'[e]))
                   /\ Apart(Entries(batch'[d]), Entries(file'[e]))
        <4>1. /\ Apart(Entries(file[d]), Entries(file[e]))
              /\ Apart(Entries(batch[d]), Entries(batch[e]))
              /\ Apart(Entries(batch[d]), Entries(file[e]))
          BY <3>4 DEF IInv, OneLine
        <4>2. d # today \/ e # today
          BY <3>4
        <4> QED
          BY <2>3, <3>1, <3>3, <4>1, <4>2 DEF Apart
      <3> QED
        BY <3>2, <3>4 DEF OneLine
    <2>7. Covered'
      <3>1. SUFFICES ASSUME NEW d \in Days, batch[d] # <<>>, NEW e \in Entries(file'[d]),
                            outcome'[e[1]] = "spilled"
                     PROVE  e \in Entries(batch[d]) \/ \E r \in raced' : r[1] = e[1]
        BY <1>2 DEF Covered, resendVars
      <3>2. CASE e \in Entries(file[d])
        BY <1>2, <1>9, <2>3, <3>1, <3>2 DEF IInv, Covered
      <3>3. CASE e \notin Entries(file[d])
        BY <2>1, <2>2, <2>3, <3>1, <3>3
      <3> QED
        BY <3>2, <3>3
    <2>8. NothingLost'
      <3>1. SUFFICES ASSUME NEW i \in Intents, outcome'[i] = "spilled"
                     PROVE  Held(i)' \/ \E e \in raced' \cup purged' : e[1] = i
        BY DEF NothingLost
      <3>2. CASE i = msg[p][1]
        BY <2>1, <2>3, <3>2 DEF Held
      <3>3. CASE i # msg[p][1]
        <4>1. outcome[i] = "spilled"
          BY <1>9, <3>1, <3>3
        <4> QED
          BY <1>2, <2>3, <4>1 DEF IInv, NothingLost, Held
      <3> QED
        BY <3>2, <3>3
    <2> QED
      BY <2>4, <2>5, <2>6, <2>7, <2>8
  <1> QED
    BY <1>10, <1>11, <1>12, <1>13, SpillEffect


-----------------------------------------------------------------------------
(* resend(), purge(), crashes and midnight keep the invariant *)

\* A step of the operator that leaves the producers, the relay and the outcomes
\* alone keeps what only concerns them.
LEMMA OperatorFrame ==
    ASSUME IInv, TypeOK', UNCHANGED <<log, outcome, file, raced>>, purged \subseteq purged',
           Copies' \subseteq Pending \cup Copies,
           \A p \in Producers : (Busy(p)' <=> Busy(p)) /\ msg'[p] = msg[p],
           Busy(operator)' => msg'[operator] # <<>>
    PROVE  PublishOK' /\ StatusOK' /\ OneId' /\ NothingLost'
  <1>1. Pending' = Pending /\ \A t \in Threads : t = operator \/ t \in Producers
    BY DEF Pending, Threads
  <1>2. PublishOK'
    <2>1. \A p \in Producers : p \in Threads
      BY DEF Threads
    <2> QED
      BY <1>1, <2>1 DEF IInv, PublishOK
  <1>3. StatusOK'
    BY <1>1 DEF IInv, StatusOK
  <1>4. OneId'
    <2>1. Known' \subseteq Known
      BY <1>1 DEF Known
    <2> QED
      BY <2>1 DEF IInv, OneId
  <1>5. NothingLost'
    BY <1>1 DEF IInv, NothingLost, Held
  <1> QED
    BY <1>2, <1>3, <1>4, <1>5

\* The producers are not the operator.
LEMMA ProducersApart ==
    ASSUME IInv, NEW l, Goto(operator, l) \/ UNCHANGED pc
    PROVE  /\ \A p \in Producers : Busy(p)' <=> Busy(p)
           /\ Goto(operator, l) => pc'[operator] = l
  <1>1. DOMAIN pc = Threads /\ operator \in Threads
    BY DEF IInv, TypeOK, Threads
  <1> QED
    BY <1>1, OutboxAssumption DEF Goto, Busy, Threads

LEMMA ListingKeeps ==
    ASSUME IInv, TypeOK', BeginResend \/ BeginPurge \/ ResendEnds \/ PurgeEnds \/ AllRead
    PROVE  /\ PublishOK' /\ StatusOK' /\ OneId' /\ OneLine'
           /\ ResendOK' /\ Covered' /\ NothingLost' /\ SuspensionEnds'
  <1>1. /\ UNCHANGED <<publishVars, file, today, batch, day, todo, survivors, history, faults>>
        /\ pc[operator] \in {"idle", "read", "read to purge", "file", "unlink"}
        /\ suspended' => pc'[operator] = "file"
        /\ \E l \in {"idle", "read", "read to purge", "file", "unlink"} :
              /\ Goto(operator, l)
              /\ l \in {"file", "unlink"} => paths' = {d \in Days : batch[d] # <<>>}
    <2>1. DOMAIN pc = Threads /\ operator \in Threads /\ suspended \in BOOLEAN
      BY DEF IInv, TypeOK, Threads
    <2>2. CASE BeginResend \/ BeginPurge
      <3>1. /\ Goto(operator, "read") \/ Goto(operator, "read to purge")
            /\ pc[operator] = "idle" /\ ~suspended
            /\ UNCHANGED <<publishVars, file, today, suspended, batch, day, todo, survivors,
                           history, faults>>
        BY <2>1, <2>2 DEF BeginResend, BeginPurge, Begin, IInv, SuspensionEnds
      <3> QED
        BY <2>1, <3>1
    <2>3. CASE ResendEnds \/ PurgeEnds
      <3>1. /\ Goto(operator, "idle")
            /\ pc[operator] \in {"file", "unlink"} /\ ~suspended'
            /\ UNCHANGED <<publishVars, file, today, batch, day, todo, survivors, history, faults>>
        BY <2>1, <2>3 DEF ResendEnds, PurgeEnds, resendVars, IInv, SuspensionEnds
      <3> QED
        BY <2>1, <3>1
    <2>4. CASE AllRead
      BY <2>1, <2>4 DEF AllRead, Goto
    <2> QED
      BY <2>2, <2>3, <2>4
  <1>2. PICK l \in {"idle", "read", "read to purge", "file", "unlink"} :
              /\ Goto(operator, l)
              /\ l \in {"file", "unlink"} => paths' = {d \in Days : batch[d] # <<>>}
    BY <1>1
  <1>3. pc'[operator] = l /\ \A p \in Producers : Busy(p)' <=> Busy(p)
    BY <1>2, ProducersApart
  <1>4. ~Busy(operator)' /\ ~Resending' /\ Copies' = Copies
    BY <1>1, <1>3 DEF Busy, Resending, Copies
  <1>5. PublishOK' /\ StatusOK' /\ OneId' /\ NothingLost'
    BY <1>1, <1>3, <1>4, OperatorFrame DEF publishVars, history
  <1>6. OneLine' /\ Covered'
    BY <1>1 DEF IInv, OneLine, Covered, publishVars, history
  <1>7. ResendOK' /\ SuspensionEnds'
    BY <1>1, <1>2, <1>3, <1>4 DEF ResendOK, SuspensionEnds
  <1> QED
    BY <1>5, <1>6, <1>7

LEMMA ReadFileKeeps ==
    ASSUME IInv, TypeOK', ReadFile
    PROVE  /\ PublishOK' /\ StatusOK' /\ OneId' /\ OneLine'
           /\ ResendOK' /\ Covered' /\ NothingLost' /\ SuspensionEnds'
  <1>1. PICK d \in paths : IF Torn(file[d])
             THEN batch' = Empty /\ paths' = {} /\ Goto(operator, "idle")
             ELSE /\ batch' = [batch EXCEPT ![d] = file[d]]
                  /\ paths' = paths \ {d}
                  /\ UNCHANGED pc
    BY DEF ReadFile
  <1>2. /\ UNCHANGED <<publishVars, file, today, suspended, day, todo, survivors, history, faults>>
        /\ pc[operator] \in {"read", "read to purge"}
    BY DEF ReadFile
  <1>3. d \in Days /\ DOMAIN batch = Days
    BY DEF IInv, TypeOK
  <1>4. /\ \A p \in Producers : Busy(p)' <=> Busy(p)
        /\ pc'[operator] \in {"read", "read to purge", "idle"}
    BY <1>1, <1>2, ProducersApart
  <1>5. \/ batch' = Empty
        \/ /\ batch'[d] = file[d]
           /\ \A e \in Days : e # d => batch'[e] = batch[e]
    BY <1>1, <1>3
  <1>6. Copies' \subseteq Pending \cup Copies
    BY <1>3, <1>5, NothingCopied DEF Copies, Pending
  <1>7. ~Busy(operator)' /\ ~Resending'
    BY <1>4 DEF Busy, Resending
  <1>8. PublishOK' /\ StatusOK' /\ OneId' /\ NothingLost'
    BY <1>2, <1>4, <1>6, <1>7, OperatorFrame DEF publishVars, history
  <1>9. ResendOK' /\ SuspensionEnds'
    BY <1>2, <1>4, <1>7 DEF ResendOK, IInv, SuspensionEnds
  <1>10. CASE batch' = Empty
    <2>1. \A e \in Days : batch'[e] = <<>> /\ Entries(batch'[e]) = {} /\ NoDup(batch'[e])
      BY <1>10, NothingCopied
    <2>2. OneLine'
      <3>1. \A A : Apart({}, A)
        BY DEF Apart
      <3>2. \A e, f \in Days : e # f => Apart(Entries(file[e]), Entries(file[f]))
        BY DEF IInv, OneLine
      <3>3. \A e \in Days : NoDup(file[e])
        BY DEF IInv, OneLine
      <3> QED
        BY <1>2, <2>1, <3>1, <3>2, <3>3 DEF OneLine
    <2>3. Covered'
      BY <1>2, <2>1 DEF Covered
    <2> QED
      BY <1>8, <1>9, <2>2, <2>3
  <1>11. CASE batch'[d] = file[d] /\ \A e \in Days : e # d => batch'[e] = batch[e]
    <2>1. \A e \in Days : NoDup(batch'[e])
      BY <1>11 DEF IInv, OneLine
    <2>2. \A e, f \in Days : e # f => /\ Apart(Entries(batch'[e]), Entries(batch'[f]))
                                      /\ Apart(Entries(batch'[e]), Entries(file[f]))
      BY <1>3, <1>11 DEF IInv, OneLine, Apart
    <2>3. OneLine'
      BY <1>2, <2>1, <2>2 DEF IInv, OneLine
    <2>4. Covered'
      BY <1>2, <1>11 DEF IInv, Covered, publishVars, history
    <2> QED
      BY <1>8, <1>9, <2>3, <2>4
  <1> QED
    BY <1>5, <1>10, <1>11

LEMMA ResendKeeps ==
    ASSUME IInv, TypeOK', ResendFile \/ ResendEntry \/ Survive
    PROVE  /\ PublishOK' /\ StatusOK' /\ OneId' /\ OneLine'
           /\ ResendOK' /\ Covered' /\ NothingLost' /\ SuspensionEnds'
  <1>0. TypeOK /\ HasMsg
    BY DEF IInv, PublishOK, HasMsg
  <1>1. /\ UNCHANGED <<log, outcome, file, today, suspended, batch, paths, history>>
        /\ pc[operator] \in {"file", "entry", "giveup"}
        /\ \E l \in {"entry", "post"} : Goto(operator, l)
    BY DEF ResendFile, ResendEntry, Survive, publishVars
  <1>2. /\ pc'[operator] \in {"entry", "post"} /\ Resending'
        /\ \A p \in Producers : Busy(p)' <=> Busy(p)
    BY <1>1, ProducersApart DEF Resending, Busy
  <1>3. /\ operator \in Threads /\ DOMAIN msg = Threads /\ todo \in Seq(Drawn(nextId))
        /\ survivors \in Seq(Drawn(nextId)) /\ paths \subseteq Days
    BY <1>0, IntentsTyped
  <1>4. /\ \A p \in Producers : msg'[p] = msg[p]
        /\ Busy(operator)' => msg'[operator] # <<>>
    <2>1. CASE ResendFile \/ Survive
      BY <1>2, <2>1, ProducersApart DEF ResendFile, Survive, publishVars, Busy
    <2>2. CASE ResendEntry
      <3>1. Head(todo) \in Drawn(nextId)
        BY <1>3, <2>2, TailLines DEF ResendEntry
      <3>2. Head(todo) # <<>>
        BY <3>1, PairNotEmpty DEF Drawn
      <3> QED
        BY <1>3, <2>2, <3>2, OutboxAssumption DEF ResendEntry, Threads
    <2> QED
      BY <2>1, <2>2
  <1>5. PublishOK' /\ StatusOK' /\ OneId' /\ NothingLost'
    <2>1. Copies' \subseteq Pending \cup Copies
      BY <1>1 DEF Copies
    <2> QED
      BY <1>1, <1>2, <1>4, <2>1, OperatorFrame DEF history
  <1>6. OneLine' /\ Covered'
    BY <1>1 DEF IInv, OneLine, Covered, history
  <1>7. SuspensionEnds'
    BY <1>2 DEF SuspensionEnds
  <1>8. CASE ResendFile
    <2>1. PICK d \in paths : day' = d /\ todo' = batch[d]
      BY <1>8 DEF ResendFile
    <2>2. survivors' = <<>> /\ pc'[operator] = "entry"
      BY <1>8, ProducersApart DEF ResendFile
    <2>3. InHand' = {} /\ Unsettled' = Entries(batch[d])
      BY <2>1, <2>2, EmptyLines DEF InHand, Unsettled, Busy
    <2>4. d \in Days /\ NoDup(batch[d]) /\ \A e \in paths : batch[e] # <<>>
      BY <1>3, <1>8 DEF ResendFile, IInv, OneLine, ResendOK
    <2> QED
      BY <1>1, <1>5, <1>6, <1>7, <2>1, <2>2, <2>3, <2>4, EmptyLines DEF ResendOK, Apart
  <1>9. CASE ResendEntry
    <2>1. /\ todo # <<>> /\ msg'[operator] = Head(todo) /\ todo' = Tail(todo)
          /\ pc[operator] = "entry" /\ pc'[operator] = "post"
          /\ UNCHANGED <<survivors, day>>
      BY <1>3, <1>9, ProducersApart DEF ResendEntry
    <2>2. /\ Entries(todo) = {Head(todo)} \cup Entries(Tail(todo))
          /\ NoDup(todo) => NoDup(Tail(todo)) /\ Apart({Head(todo)}, Entries(Tail(todo)))
      BY <1>3, <2>1, TailLines
    <2>3. InHand = {} /\ InHand' = {Head(todo)} /\ Resending
      BY <2>1 DEF InHand, Busy, Resending
    <2>4. Unsettled' = Unsettled
      BY <2>1, <2>2, <2>3 DEF Unsettled
    <2>5. /\ NoDup(todo) /\ NoDup(survivors)
          /\ Apart(Entries(todo), Entries(survivors))
          /\ \A e \in paths : batch[e] # <<>>
          /\ batch[day] # <<>>
          /\ Unsettled \subseteq Entries(batch[day])
          /\ Entries(batch[day]) \subseteq log \cup Unsettled
      BY <2>3 DEF IInv, ResendOK
    <2>6. /\ NoDup(todo') /\ Apart(Entries(todo'), Entries(survivors'))
          /\ Apart(InHand', Entries(todo') \cup Entries(survivors'))
      BY <2>1, <2>2, <2>3, <2>5 DEF Apart
    <2>7. ResendOK'
      BY <1>1, <2>1, <2>4, <2>5, <2>6 DEF ResendOK
    <2> QED
      BY <1>5, <1>6, <1>7, <2>7
  <1>10. CASE Survive
    <2>1. /\ survivors' = Append(survivors, msg[operator])
          /\ pc[operator] = "giveup" /\ pc'[operator] = "entry"
          /\ UNCHANGED <<todo, day>>
      BY <1>3, <1>10, ProducersApart DEF Survive
    <2>2. Busy(operator) /\ InHand = {msg[operator]} /\ InHand' = {} /\ Resending
      BY <2>1 DEF InHand, Busy, Resending
    <2>3. msg[operator] \in Drawn(nextId)
      BY <1>0, <1>3, <2>2, IntentsTyped
    <2> DEFINE m == msg[operator]
    <2>4. /\ Append(survivors, m) \in Seq(Drawn(nextId))
          /\ Entries(Append(survivors, m)) = Entries(survivors) \cup {m}
          /\ Append(survivors, m) # <<>> /\ Last(Append(survivors, m)) = m
          /\ NoDup(survivors) /\ Apart(Entries(survivors), {m}) => NoDup(Append(survivors, m))
      <3>1. m \in Drawn(nextId)
        BY <2>3
      <3> HIDE DEF m
      <3> QED
        BY <1>3, <3>1, AppendLines
    <2>5. /\ NoDup(todo) /\ NoDup(survivors)
          /\ Apart(Entries(todo), Entries(survivors))
          /\ Apart(InHand, Entries(todo) \cup Entries(survivors))
          /\ \A e \in paths : batch[e] # <<>>
          /\ batch[day] # <<>>
          /\ Unsettled \subseteq Entries(batch[day])
          /\ Entries(batch[day]) \subseteq log \cup Unsettled
      BY <2>2 DEF IInv, ResendOK
    <2>6. Unsettled' = Unsettled
      BY <2>1, <2>2, <2>4 DEF Unsettled
    <2>7. Apart(Entries(survivors), {m})
      BY <2>2, <2>5 DEF Apart
    <2>8. /\ NoDup(survivors') /\ Apart(Entries(todo'), Entries(survivors'))
          /\ Apart(InHand', Entries(todo') \cup Entries(survivors'))
      BY <2>1, <2>2, <2>4, <2>5, <2>7 DEF Apart
    <2>9. ResendOK'
      BY <1>1, <2>1, <2>5, <2>6, <2>8 DEF ResendOK
    <2> QED
      BY <1>5, <1>6, <1>7, <2>9
  <1> QED
    BY <1>8, <1>9, <1>10

LEMMA RewriteKeeps ==
    ASSUME IInv, TypeOK', Rewrite
    PROVE  /\ PublishOK' /\ StatusOK' /\ OneId' /\ OneLine'
           /\ ResendOK' /\ Covered' /\ NothingLost' /\ SuspensionEnds'
  <1>0. TypeOK /\ HasMsg
    BY DEF IInv, PublishOK, HasMsg
  <1>1. /\ UNCHANGED <<publishVars, today, suspended, day, todo, history, faults>>
        /\ pc[operator] = "entry" /\ pc'[operator] = "file"
        /\ \A p \in Producers : Busy(p)' <=> Busy(p)
        /\ todo = <<>> /\ paths' = paths \ {day} /\ survivors' = <<>>
        /\ file' = [file EXCEPT ![day] = survivors]
        /\ batch' = [batch EXCEPT ![day] = <<>>]
    BY ProducersApart DEF Rewrite, Settled
  <1>2. /\ day \in Days /\ survivors \in Seq(Drawn(nextId))
        /\ DOMAIN batch = Days /\ DOMAIN file = Days
        /\ \A t \in Threads : t \in Producers \/ t = operator
        /\ \A p \in Producers : p \in Threads
    BY <1>0, IntentsTyped DEF Threads
  <1>3. /\ \A d \in Days : d # day => file'[d] = file[d] /\ batch'[d] = batch[d]
        /\ file'[day] = survivors /\ batch'[day] = <<>>
    BY <1>1, <1>2
  <1>4. /\ ~Busy(operator) /\ ~Busy(operator)' /\ ~Resending' /\ Resending
        /\ InHand = {} /\ Unsettled = Entries(survivors)
    BY <1>1, EmptyLines DEF Busy, Resending, InHand, Unsettled
  <1>5. /\ \A d \in paths : batch[d] # <<>>
        /\ batch[day] # <<>> /\ NoDup(survivors)
        /\ Entries(survivors) \subseteq Entries(batch[day])
        /\ Entries(batch[day]) \subseteq log \cup Entries(survivors)
    BY <1>4 DEF IInv, ResendOK
  <1>6. Pending' \subseteq Pending \cup Copies /\ Copies' \subseteq Copies
    BY <1>2, <1>3, <1>5, EmptyLines DEF Pending, Copies
  <1>7. PublishOK'
    BY <1>1, <1>2, <1>4 DEF IInv, PublishOK, publishVars
  <1>8. StatusOK'
    <2>1. ~EndsOpen(survivors)
      <3>1. ASSUME survivors # <<>>, Len(Last(survivors)) = 3
            PROVE  FALSE
        <4>1. Last(survivors) \in Drawn(nextId)
          BY <1>2, <3>1, FrontLines, LinesTyped
        <4> QED
          BY <3>1, <4>1 DEF Drawn
      <3> QED
        BY <3>1 DEF EndsOpen
    <2> QED
      BY <1>1, <1>3, <1>6, <2>1 DEF IInv, StatusOK, publishVars
  <1>9. OneId'
    <2>1. Known' \subseteq Known
      BY <1>1, <1>6 DEF Known, publishVars
    <2> QED
      BY <2>1 DEF IInv, OneId
  <1>10. OneLine'
    <2>1. \A d \in Days : NoDup(file'[d]) /\ NoDup(batch'[d])
      BY <1>3, <1>5, EmptyLines DEF IInv, OneLine
    <2>2. ASSUME NEW d \in Days, NEW e \in Days, d # e
          PROVE  /\ Apart(Entries(file'[d]), Entries(file'[e]))
                 /\ Apart(Entries(batch'[d]), Entries(batch'[e]))
                 /\ Apart(Entries(batch'[d]), Entries(file'[e]))
      <3>1. /\ Apart(Entries(file[d]), Entries(file[e]))
            /\ Apart(Entries(batch[d]), Entries(batch[e]))
            /\ Apart(Entries(batch[d]), Entries(file[e]))
            /\ Apart(Entries(batch[e]), Entries(file[d]))
        BY <2>2 DEF IInv, OneLine
      <3>2. CASE d = day
        BY <1>3, <1>5, <2>2, <3>1, <3>2, EmptyLines DEF Apart
      <3>3. CASE e = day
        BY <1>3, <1>5, <2>2, <3>1, <3>3, EmptyLines DEF Apart
      <3>4. CASE d # day /\ e # day
        BY <1>3, <3>1, <3>4
      <3> QED
        BY <3>2, <3>3, <3>4
    <2> QED
      BY <2>1, <2>2 DEF OneLine
  <1>11. ResendOK' /\ SuspensionEnds'
    <2>1. \A d \in paths' : d \in Days /\ d # day /\ d \in paths
      BY <1>0, <1>1, IntentsTyped
    <2> QED
      BY <1>1, <1>3, <1>4, <1>5, <2>1 DEF ResendOK, SuspensionEnds
  <1>12. Covered'
    BY <1>1, <1>3 DEF IInv, Covered, publishVars, history
  <1>13. NothingLost'
    <2>1. SUFFICES ASSUME NEW i \in Intents, outcome[i] = "spilled"
                   PROVE  Held(i)' \/ \E e \in raced \cup purged : e[1] = i
      BY <1>1 DEF NothingLost, publishVars, history
    <2>2. ASSUME NEW d \in Days, NEW e \in Entries(file[d]), e[1] = i
          PROVE  Held(i)' \/ \E r \in raced : r[1] = i
      <3>1. CASE d # day
        BY <1>3, <2>2, <3>1 DEF Held, Pending
      <3>2. CASE d = day
        <4>1. e \in Entries(batch[day]) \/ \E r \in raced : r[1] = i
          BY <1>5, <2>1, <2>2, <3>2 DEF IInv, Covered
        <4>2. Entries(survivors) \subseteq Pending' /\ log' = log
          BY <1>1, <1>2, <1>3 DEF Pending, publishVars
        <4> QED
          BY <1>5, <2>2, <4>1, <4>2 DEF Held
      <3> QED
        BY <3>1, <3>2
    <2>3. Held(i) => \/ \E e \in log : e[1] = i
                     \/ \E d \in Days : \E e \in Entries(file[d]) : e[1] = i
      BY DEF Held, Pending
    <2>4. log' = log
      BY <1>1 DEF publishVars
    <2> QED
      BY <2>1, <2>2, <2>3, <2>4 DEF IInv, NothingLost, Held
  <1> QED
    BY <1>7, <1>8, <1>9, <1>10, <1>11, <1>12, <1>13

LEMMA UnlinkKeeps ==
    ASSUME IInv, TypeOK', Unlink
    PROVE  /\ PublishOK' /\ StatusOK' /\ OneId' /\ OneLine'
           /\ ResendOK' /\ Covered' /\ NothingLost' /\ SuspensionEnds'
  <1>0. TypeOK /\ HasMsg
    BY DEF IInv, PublishOK, HasMsg
  <1>1. PICK c \in paths :
           /\ file' = [file EXCEPT ![c] = <<>>]
           /\ purged' = purged \cup Entries(batch[c])
           /\ batch' = [batch EXCEPT ![c] = <<>>]
           /\ paths' = paths \ {c}
    BY DEF Unlink
  <1>2. /\ UNCHANGED <<publishVars, today, pc, suspended, day, todo, survivors, raced, faults>>
        /\ pc[operator] = "unlink"
    BY DEF Unlink
  <1>3. /\ c \in Days /\ paths \subseteq Days
        /\ DOMAIN batch = Days /\ DOMAIN file = Days
    BY <1>0, IntentsTyped
  <1>4. /\ \A d \in Days : d # c => file'[d] = file[d] /\ batch'[d] = batch[d]
        /\ file'[c] = <<>> /\ batch'[c] = <<>>
    BY <1>1, <1>3
  <1>5. /\ ~Busy(operator)' /\ ~Resending' /\ batch[c] # <<>>
        /\ \A d \in paths : batch[d] # <<>>
    BY <1>2 DEF Busy, Resending, IInv, ResendOK
  <1>6. Pending' \subseteq Pending /\ Copies' \subseteq Copies
    BY <1>3, <1>4, EmptyLines DEF Pending, Copies
  <1>7. PublishOK'
    BY <1>2 DEF IInv, PublishOK, publishVars, Busy
  <1>8. StatusOK'
    BY <1>2, <1>4, <1>6 DEF IInv, StatusOK, publishVars, EndsOpen
  <1>9. OneId'
    <2>1. Known' \subseteq Known
      BY <1>2, <1>6 DEF Known, publishVars, Busy
    <2> QED
      BY <2>1 DEF IInv, OneId
  <1>10. OneLine'
    BY <1>4, EmptyLines DEF IInv, OneLine, Apart
  <1>11. ResendOK' /\ SuspensionEnds'
    BY <1>1, <1>2, <1>3, <1>4, <1>5 DEF ResendOK, IInv, SuspensionEnds
  <1>12. Covered'
    BY <1>2, <1>4 DEF IInv, Covered, publishVars
  <1>13. NothingLost'
    <2>1. SUFFICES ASSUME NEW i \in Intents, outcome[i] = "spilled"
                   PROVE  Held(i)' \/ \E e \in raced \cup purged' : e[1] = i
      BY <1>2 DEF NothingLost, publishVars
    <2>2. ASSUME NEW d \in Days, NEW e \in Entries(file[d]), e[1] = i
          PROVE  Held(i)' \/ \E r \in raced \cup purged' : r[1] = i
      <3>1. CASE d # c
        BY <1>4, <2>2, <3>1 DEF Held, Pending
      <3>2. CASE d = c
        BY <1>1, <1>5, <2>1, <2>2, <3>2 DEF IInv, Covered
      <3> QED
        BY <3>1, <3>2
    <2>3. Held(i) => \/ \E e \in log : e[1] = i
                     \/ \E d \in Days : \E e \in Entries(file[d]) : e[1] = i
      BY DEF Held, Pending
    <2>4. log' = log /\ purged \subseteq purged'
      BY <1>1, <1>2 DEF publishVars
    <2> QED
      BY <2>1, <2>2, <2>3, <2>4 DEF IInv, NothingLost, Held
  <1> QED
    BY <1>7, <1>8, <1>9, <1>10, <1>11, <1>12, <1>13

LEMMA CrashKeeps ==
    ASSUME IInv, TypeOK', Crash
    PROVE  /\ PublishOK' /\ StatusOK' /\ OneId' /\ OneLine'
           /\ ResendOK' /\ Covered' /\ NothingLost' /\ SuspensionEnds'
  <1>0. TypeOK /\ HasMsg
    BY DEF IInv, PublishOK, HasMsg
  <1>1. /\ \A t \in Threads : pc'[t] = "idle"
        /\ \A i \in Intents : outcome'[i] =
                 IF outcome[i] = "running" THEN "unknown" ELSE outcome[i]
        /\ batch' = Empty /\ suspended' = FALSE
        /\ UNCHANGED <<log, file, today, nextId, history>>
    BY DEF Crash
  <1>2. \A e \in Traces : e[1] \in Intents
    BY <1>0, IntentsTyped
  <1>3. \A t \in Threads : ~Busy(t)'
    BY <1>1 DEF Busy
  <1>4. operator \in Threads /\ \A p \in Producers : p \in Threads
    BY DEF Threads
  <1>5. /\ Copies' = {} /\ Pending' = Pending
        /\ \A d \in Days : batch'[d] = <<>> /\ Entries(batch'[d]) = {} /\ NoDup(batch'[d])
    BY <1>1, NothingCopied DEF Pending
  <1>6. PublishOK'
    BY <1>3, <1>4 DEF PublishOK
  <1>7. StatusOK'
    <2>1. /\ \A e \in Pending : outcome'[e[1]] = outcome[e[1]]
          /\ \A e \in log : outcome'[e[1]] # "new"
      BY <1>1, <1>2 DEF Traces, IInv, StatusOK
    <2>2. \A d \in Days : EndsOpen(file[d]) => Last(file[d]) \in Pending
      <3>1. \A d \in Days : EndsOpen(file[d]) => Last(file[d]) \in Entries(file[d])
        BY <1>0, IntentsTyped, FrontLines DEF EndsOpen
      <3> QED
        BY <3>1 DEF Pending
    <2> QED
      BY <1>1, <1>5, <2>1, <2>2 DEF IInv, StatusOK
  <1>8. OneId'
    <2>1. Known' \subseteq Known
      BY <1>1, <1>3, <1>4, <1>5 DEF Known
    <2> QED
      BY <2>1 DEF IInv, OneId
  <1>9. OneLine' /\ Covered'
    BY <1>1, <1>5 DEF IInv, OneLine, Covered, Apart
  <1>10. ResendOK' /\ SuspensionEnds'
    BY <1>1, <1>3, <1>4 DEF ResendOK, Resending, SuspensionEnds
  <1>11. NothingLost'
    BY <1>1, <1>5 DEF IInv, NothingLost, Held, history
  <1> QED
    BY <1>6, <1>7, <1>8, <1>9, <1>10, <1>11

-----------------------------------------------------------------------------
(* Theorems *)

LEMMA InitInv == Init => IInv
  <1> SUFFICES ASSUME Init
               PROVE  IInv
    OBVIOUS
  <1> USE DEF Init
  <1>1. \A t \in Threads : pc[t] = "idle" /\ ~Busy(t)
    BY DEF Busy
  <1>2. operator \in Threads /\ \A p \in Producers : p \in Threads
    BY DEF Threads
  <1>3. /\ \A d \in Days : file[d] = <<>> /\ batch[d] = <<>>
        /\ Pending = {} /\ Copies = {}
    BY EmptyLines DEF Empty, Pending, Copies
  <1>4. TypeOK
    <2> DEFINE S == Drawn(nextId)  L == Written(nextId)
    <2>1. /\ <<>> \in Seq(S) /\ Empty \in [Days -> Seq(S)]
          /\ <<>> \in Seq(L) /\ Empty \in [Days -> Seq(L)]
      BY NothingTyped
    <2>2. {0, 1} \subseteq 0 .. MaxAttempts /\ 1 \in Days /\ 0 \in 0 .. MaxFaults
      BY FirstAttempt, OutboxAssumption
    <2> HIDE DEF S, L
    <2>3. /\ attempts \in [Threads -> 0 .. MaxAttempts] /\ faults \in 0 .. MaxFaults
          /\ today \in Days /\ day \in Days
      BY <2>2
    <2>4. /\ pc \in [Threads -> {"idle", "post", "failed", "giveup", "spill", "read",
                                 "read to purge", "file", "entry", "unlink"}]
          /\ msg \in [Threads -> S \cup {<<>>}]
          /\ outcome \in [Intents -> {"new", "running", "acked", "spilled", "unspilled",
                                      "rejected", "unknown"}]
      OBVIOUS
    <2>5. /\ log \subseteq S /\ raced \subseteq S /\ purged \subseteq S
          /\ nextId \in Nat \ {0} /\ suspended \in BOOLEAN /\ paths \subseteq Days
      <3>1. log \subseteq S /\ raced \subseteq S /\ purged \subseteq S /\ paths \subseteq Days
        OBVIOUS
      <3>2. nextId \in Nat \ {0}
        OBVIOUS
      <3>3. suspended \in BOOLEAN
        BY Zenon
      <3> QED
        BY <3>1, <3>2, <3>3
    <2>6. /\ file \in [Days -> Seq(L)] /\ batch \in [Days -> Seq(S)]
          /\ todo \in Seq(S) /\ survivors \in Seq(S)
      BY <2>1
    <2>7. Typed(S, L)
      <3> HIDE DEF Init
      <3> QED
        BY <2>3, <2>4, <2>5, <2>6 DEF Typed
    <2> QED
      BY <2>7, TypedIsTypeOK DEF S, L
  <1>5. PublishOK /\ ResendOK /\ SuspensionEnds
    BY <1>1, <1>2 DEF PublishOK, ResendOK, Resending, SuspensionEnds
  <1>6. StatusOK /\ OneId
    BY <1>1, <1>2, <1>3 DEF StatusOK, OneId, Known, EndsOpen
  <1>7. OneLine /\ Covered
    BY <1>3, EmptyLines DEF OneLine, Covered, Apart
  <1>8. NothingLost
    BY DEF NothingLost
  <1> QED
    BY <1>4, <1>5, <1>6, <1>7, <1>8 DEF IInv

LEMMA NextInv ==
    ASSUME IInv, [Next]_vars
    PROVE  IInv'
  <1>0. TypeOK'
    BY StepTypes DEF IInv, PublishOK, HasMsg
  <1>s. ASSUME /\ PublishOK' /\ StatusOK' /\ OneId' /\ OneLine'
               /\ ResendOK' /\ Covered' /\ NothingLost' /\ SuspensionEnds'
        PROVE  IInv'
    BY <1>0, <1>s DEF IInv
  <1>1. CASE UNCHANGED vars \/ Midnight
    <2>1. UNCHANGED <<publishVars, file, pc, resendVars, history, faults>>
      BY <1>1 DEF Midnight, vars
    <2>2. /\ Pending' = Pending /\ Copies' = Copies /\ Known' = Known
          /\ InHand' = InHand /\ Unsettled' = Unsettled /\ (Resending' <=> Resending)
      BY <2>1 DEF Pending, Copies, Known, InHand, Unsettled, Resending, Busy,
                  publishVars, resendVars
    <2> QED
      BY <1>s, <2>1, <2>2 DEF IInv, PublishOK, StatusOK, OneId, OneLine, ResendOK, Covered,
                NothingLost, Held, SuspensionEnds, publishVars, resendVars, history, Busy
  <1>2. CASE Crash
    BY <1>0, <1>2, <1>s, CrashKeeps
  <1>3. CASE \E p \in Producers, i \in Intents : Publish(p, i)
    BY <1>3, <1>s, PublishKeeps
  <1>4. CASE \E p \in Producers : Attempt(p) \/ FindDlq(p)
    BY <1>4, <1>s, AttemptKeeps DEF Threads
  <1>5. CASE \E p \in Producers : Ends(p)
    BY <1>5, <1>s, SpillKeeps
  <1>6. CASE OperatorStep \/ BeginPurge
    <2>1. CASE Attempt(operator)
      BY <1>s, <2>1, AttemptKeeps DEF Threads
    <2>2. CASE BeginResend \/ BeginPurge \/ ResendEnds \/ PurgeEnds \/ AllRead
      BY <1>0, <1>s, <2>2, ListingKeeps
    <2>3. CASE ReadFile
      BY <1>0, <1>s, <2>3, ReadFileKeeps
    <2>4. CASE ResendFile \/ ResendEntry \/ Survive
      BY <1>0, <1>s, <2>4, ResendKeeps
    <2>5. CASE Rewrite
      BY <1>0, <1>s, <2>5, RewriteKeeps
    <2>6. CASE Unlink
      BY <1>0, <1>s, <2>6, UnlinkKeeps
    <2> QED
      BY <1>6, <2>1, <2>2, <2>3, <2>4, <2>5, <2>6 DEF OperatorStep
  <1> QED
    BY <1>1, <1>2, <1>3, <1>4, <1>5, <1>6 DEF Next, Ends

LEMMA Invariance == Spec => []IInv
  BY InitInv, NextInv, PTL DEF Spec

\* Every variable of the publish side keeps its type, whatever the bounds.
THEOREM TypeCorrect == Spec => []TypeOK
  <1>1. IInv => TypeOK
    BY DEF IInv
  <1> QED
    BY <1>1, Invariance, PTL

\* A publish() that ended with PublishFailed(dlq_path) leaves its signal with the
\* relay, in the queue, purged by an operator, or in the window between the
\* reading of a file and its replacement: for any number of producers, days,
\* retries and faults.
THEOREM NothingIsLost == Spec => []NothingLost
  <1>1. IInv => NothingLost
    BY DEF IInv
  <1> QED
    BY <1>1, Invariance, PTL

\* An intent is accepted under one client_signal_id and has one line in the whole
\* queue, whatever is retried, resent, cut short or crashes.
THEOREM OnlyOnce == Spec => []OnceOnly
  <1>1. ASSUME IInv
        PROVE  OnceOnly
    <2>1. \A e1, e2 \in log : e1[1] = e2[1] => e1 = e2
      <3>1. SUFFICES ASSUME NEW e1 \in log, NEW e2 \in log, e1[1] = e2[1]
                     PROVE  e1 = e2
        OBVIOUS
      <3>2. e1[2] = e2[2]
        BY <1>1, <3>1 DEF IInv, OneId, Known
      <3>3. log \subseteq Intents \X (1 .. nextId - 1)
        BY <1>1 DEF IInv, TypeOK
      <3> QED
        BY <3>1, <3>2, <3>3
    <2>2. ASSUME NEW d1 \in Days, NEW d2 \in Days,
                 NEW k1 \in DOMAIN file[d1], NEW k2 \in DOMAIN file[d2],
                 file[d1][k1] = file[d2][k2]
          PROVE  d1 = d2 /\ k1 = k2
      <3>1. file[d1][k1] \in Entries(file[d1]) /\ file[d2][k2] \in Entries(file[d2])
        BY DEF Entries
      <3>2. d1 = d2
        BY <1>1, <2>2, <3>1 DEF IInv, OneLine, Apart
      <3>3. NoDup(file[d1])
        BY <1>1 DEF IInv, OneLine
      <3> QED
        BY <2>2, <3>2, <3>3 DEF NoDup
    <2> QED
      BY <2>1, <2>2 DEF OnceOnly
  <1> QED
    BY <1>1, Invariance, PTL

\* The publisher that resend() was given has its dlq back as soon as resend()
\* returned, raised or died.
THEOREM SuspensionAlwaysEnds == Spec => []SuspensionEnds
  <1>1. IInv => SuspensionEnds
    BY DEF IInv
  <1> QED
    BY <1>1, Invariance, PTL

=============================================================================
