--------------------------- MODULE CursorFileProofs ---------------------------
(***************************************************************************)
(* Proofs about CursorFile and the ULIDs it names its files by, for every  *)
(* number of processes, strategies, sequences, retries, commands and       *)
(* faults: types, the order of ULIDs, honest cursors, no silent reset, no  *)
(* temporary file left behind, a bounded commit(), and the refinement of   *)
(* CursorRegister.  With KeyFileProofs it gives the types of LocalFiles.   *)
(***************************************************************************)
EXTENDS LocalFiles, KeyFileProofs, SequenceTheorems, FiniteSetTheorems

\* What a cursor, or a request to commit one, may stand at.
Positions == ResetTargets \cup 0 .. MaxSeq
Cursors == [state : {"absent", "valid", "torn", "undecodable"}, sequence : Positions]

Places == {"down", "read", "handle", "commit", "write", "replace", "done", "raise"}
Memory == [position : Positions, seen : Cursors, tmp : Ulids, attempt : 0 .. ReplaceAttempts]

CursorTypes ==
    /\ pc \in [Processes -> Places]
    /\ job \in [Processes -> CursorJobs \cup {NoJob}]
    /\ file \in [Files -> Cursors]
    /\ temps \subseteq [name : Ulids, content : Cursors]
    /\ local \in [Processes -> Memory]
    /\ reached \in [Strategies -> Int]
    /\ shared \subseteq Files
    /\ orphans \in Nat /\ faults \in Nat

\* Past load().
Started(p) == pc[p] \in {"handle", "commit"} \/ Committing(p)

\* Only a process that executes a command is anywhere, only one that may commit
\* is inside commit(), and a subscriber counts up from what it loaded.
JobOK ==
    /\ \A p \in Processes : pc[p] = "down" <=> job[p] = NoJob
    /\ \A p \in Processes : pc[p] = "handle" => job[p].kind = "run"
    /\ \A p \in Processes : pc[p] = "commit" \/ Committing(p) => Commits(p)
    /\ \A p \in Processes : pc[p] \in {"write", "replace"} => local[p].attempt >= 1
    /\ \A p \in Processes : job[p].kind = "run" /\ Started(p) => local[p].position >= 0

\* Every temporary file is that of one commit in progress, under a name its
\* process drew; once written it holds what that commit was asked for.
TempsOK ==
    /\ \A p \in Processes :
          Committing(p) => \E i \in DOMAIN issued[p] : issued[p][i] = local[p].tmp
    /\ \A p, q \in Processes :
          p # q /\ Committing(p) /\ Committing(q) => local[p].tmp # local[q].tmp
    /\ \A t, u \in temps : t.name = u.name => t = u
    /\ \A t \in temps : \E p \in Processes : Committing(p) /\ local[p].tmp = t.name
    /\ \A p \in Processes, t \in temps :
          pc[p] = "replace" /\ t.name = local[p].tmp => t.content = Valid(local[p].position)
    /\ orphans <= faults

\* Where it stands, by what it read of the cursor until it started.
From(p) == IF pc[p] = "read" THEN local[p].seen.sequence ELSE local[p].position

\* A subscriber is nowhere beyond what its strategy handled.
HonestOK ==
    /\ CursorHonest
    /\ \A p \in Processes :
          job[p].kind = "run" /\ ~Aliased(job[p].on) => From(p) <= reached[job[p].on]

\* Unless the file was shared, its one subscriber is not behind it.
AheadOK ==
    /\ \A p, q \in Processes : \A f \in Files :
          p # q /\ Uses(p, f) /\ Uses(q, f) /\ (Commits(p) \/ Commits(q)) => f \in shared
    /\ \A p \in Processes :
          job[p].kind = "run" /\ Path(p) \notin shared => file[Path(p)].sequence <= From(p)

\* Unless the clock was set back, no generator is ahead of it.
UlidOK ==
    /\ UlidTypeOK /\ UlidsOrdered
    /\ issued \in [Processes -> Seq(Ulids)]
    /\ \A p \in Processes : steppedBack \/ lastMs[p] <= clock

\* The inductive invariant.
CursorInv == CursorTypes /\ UlidOK /\ JobOK /\ TempsOK /\ HonestOK /\ AheadOK

-----------------------------------------------------------------------------
(* ULIDs *)

LEMMA Appended ==
    ASSUME NEW S, NEW s \in Seq(S), NEW e \in S
    PROVE  /\ Append(s, e) \in Seq(S) /\ Append(s, e) # <<>>
           /\ Len(Append(s, e)) = Len(s) + 1 /\ Len(s) \in Nat
           /\ DOMAIN s = 1 .. Len(s) /\ DOMAIN Append(s, e) = 1 .. Len(s) + 1
           /\ \A i \in 1 .. Len(s) : Append(s, e)[i] = s[i] /\ s[i] \in S
           /\ Append(s, e)[Len(s) + 1] = e
           /\ s # <<>> => Len(s) # 0
  BY AppendProperties, LenProperties, ElementOfSeq, EmptySeq

\* A ULID later than the last is later than every one before it.
LEMMA LaterThanAll ==
    ASSUME NEW a \in Ulids, NEW b \in Ulids, NEW c \in Ulids, Before(a, b), Before(b, c)
    PROVE  Before(a, c)
  BY UlidAssumption DEF Ulids, Before

LEMMA UlidDrawn ==
    ASSUME UlidOK, NEW p \in Processes, NEW id \in Ulids, NewUlid(p, id)
    PROVE  /\ UlidOK' /\ Fresh(id)
           /\ \A q \in Processes : \A i \in DOMAIN issued[q] :
                 i \in DOMAIN issued'[q] /\ issued'[q][i] = issued[q][i]
           /\ \E i \in DOMAIN issued'[p] : issued'[p][i] = id
  <1> DEFINE s == issued[p]  n == Len(s)
  <1>1. /\ issued \in [Processes -> Seq(Ulids)] /\ s \in Seq(Ulids)
        /\ issued'[p] = Append(s, id)
        /\ \A q \in Processes : q # p => issued'[q] = issued[q]
        /\ issued' \in [Processes -> Seq(Ulids)]
    <2>1. issued \in [Processes -> Seq(Ulids)] /\ issued' = [issued EXCEPT ![p] = Append(@, id)]
      BY DEF UlidOK, NewUlid, Issue
    <2>2. Append(issued[p], id) \in Seq(Ulids)
      BY <2>1, Appended
    <2> QED
      BY <2>1, <2>2
  <1>2. /\ issued'[p] # <<>>
        /\ Len(issued'[p]) = n + 1 /\ n \in Nat
        /\ DOMAIN s = 1 .. n /\ DOMAIN issued'[p] = 1 .. n + 1
        /\ \A i \in 1 .. n : issued'[p][i] = s[i] /\ s[i] \in Ulids
        /\ issued'[p][n + 1] = id
        /\ s # <<>> => n # 0
    BY <1>1, Appended
  <1>3. Fresh(id)
    BY DEF NewUlid
  <1>4. /\ clock' = id.ms /\ steppedBack' = (steppedBack \/ id.ms < clock)
        /\ lastMs' = [lastMs EXCEPT ![p] = id.ms]
        /\ lastRandom' = [lastRandom EXCEPT ![p] = id.random]
    BY DEF NewUlid, ReadClock
  <1>5. id.ms \in 0 .. MaxClock /\ id.random \in 0 .. MaxRandom /\ MaxClock \in Nat /\ MaxRandom \in Nat
    BY UlidAssumption DEF Ulids
  <1>6. /\ clock \in 0 .. MaxClock /\ steppedBack \in BOOLEAN
        /\ lastMs \in [Processes -> -1 .. MaxClock]
        /\ lastRandom \in [Processes -> 0 .. MaxRandom]
        /\ s # <<>> => s[n] = [ms |-> lastMs[p], random |-> lastRandom[p]]
    BY DEF UlidOK, UlidTypeOK
  <1>7. UlidTypeOK'
    <2>1. /\ clock' \in 0 .. MaxClock /\ steppedBack' \in BOOLEAN
          /\ lastMs' \in [Processes -> -1 .. MaxClock]
          /\ lastRandom' \in [Processes -> 0 .. MaxRandom]
      BY <1>4, <1>5, <1>6
    <2>2. issued'[p][Len(issued'[p])] = [ms |-> lastMs'[p], random |-> lastRandom'[p]]
      BY <1>2, <1>4, <1>6 DEF Ulids
    <2>3. \A q \in Processes : q # p => lastMs'[q] = lastMs[q] /\ lastRandom'[q] = lastRandom[q]
      BY <1>4, <1>6
    <2> QED
      BY <1>1, <2>1, <2>2, <2>3 DEF UlidOK, UlidTypeOK
  <1>8. \A i \in 1 .. n : steppedBack' \/ Before(s[i], id)
    <2>1. SUFFICES ASSUME NEW i \in 1 .. n, ~steppedBack'
                   PROVE  Before(s[i], id)
      OBVIOUS
    <2>2. ~steppedBack /\ ~(id.ms < clock)
      BY <1>4, <2>1
    <2>3. s # <<>> /\ n \in 1 .. n /\ s[n] = [ms |-> lastMs[p], random |-> lastRandom[p]]
      BY <1>2, <1>6, EmptySeq
    <2>4. lastMs[p] <= clock
      BY <2>2 DEF UlidOK
    <2>5. Before(s[n], id)
      <3>1. lastMs[p] \in Int /\ lastRandom[p] \in Int /\ clock \in Int /\ id.ms \in Int
        BY <1>5, <1>6
      <3>2. id.ms = lastMs[p] => id.random = lastRandom[p] + 1
        BY DEF NewUlid
      <3> QED
        BY <2>2, <2>3, <2>4, <3>1, <3>2 DEF Before
    <2>6. CASE i = n
      BY <2>5, <2>6
    <2>7. CASE i # n
      <3>1. i < n /\ i \in DOMAIN s /\ n \in DOMAIN s
        BY <1>2, <2>3, <2>7
      <3>2. Before(s[i], s[n])
        BY <2>2, <3>1 DEF UlidOK, UlidsOrdered
      <3> QED
        BY <1>2, <2>3, <2>5, <3>2, LaterThanAll
    <2> QED
      BY <2>6, <2>7
  <1>9. UlidsOrdered'
    <2>1. SUFFICES ASSUME NEW q \in Processes, NEW i \in DOMAIN issued'[q],
                          NEW j \in DOMAIN issued'[q], i < j
                   PROVE  steppedBack' \/ Before(issued'[q][i], issued'[q][j])
      BY DEF UlidsOrdered
    <2>2. steppedBack => steppedBack'
      BY <1>4
    <2>3. CASE q # p
      BY <1>1, <2>1, <2>2, <2>3 DEF UlidOK, UlidsOrdered
    <2>4. CASE q = p /\ j \in 1 .. n
      <3>1. i \in 1 .. n
        BY <1>2, <2>1, <2>4
      <3> QED
        BY <1>2, <2>1, <2>2, <2>4, <3>1 DEF UlidOK, UlidsOrdered
    <2>5. CASE q = p /\ j \notin 1 .. n
      <3>1. i \in 1 .. n /\ j = n + 1
        BY <1>2, <2>1, <2>5
      <3> QED
        BY <1>2, <1>8, <2>5, <3>1
    <2> QED
      BY <2>3, <2>4, <2>5
  <1>10. \A q \in Processes : steppedBack' \/ lastMs'[q] <= clock'
    <2>1. SUFFICES ASSUME NEW q \in Processes, ~steppedBack'
                   PROVE  lastMs'[q] <= clock'
      OBVIOUS
    <2>2. lastMs[q] <= clock /\ ~(id.ms < clock)
      BY <1>4, <2>1 DEF UlidOK
    <2> QED
      BY <1>4, <1>5, <1>6, <2>2
  <1>11. \A q \in Processes : \A i \in DOMAIN issued[q] :
            i \in DOMAIN issued'[q] /\ issued'[q][i] = issued[q][i]
    <2>1. SUFFICES ASSUME NEW q \in Processes, NEW i \in DOMAIN issued[q]
                   PROVE  i \in DOMAIN issued'[q] /\ issued'[q][i] = issued[q][i]
      OBVIOUS
    <2>2. CASE q # p
      BY <1>1, <2>2
    <2>3. CASE q = p
      <3>1. i \in 1 .. n /\ i \in 1 .. n + 1
        BY <1>2, <2>1, <2>3
      <3> QED
        BY <1>2, <2>3, <3>1
    <2> QED
      BY <2>2, <2>3
  <1>12. \E i \in DOMAIN issued'[p] : issued'[p][i] = id
    BY <1>2
  <1> QED
    BY <1>1, <1>3, <1>7, <1>9, <1>10, <1>11, <1>12 DEF UlidOK

LEMMA UlidsForgotten ==
    ASSUME UlidOK, NEW p \in Processes, ForgetUlids(p)
    PROVE  UlidOK' /\ \A q \in Processes : q # p => issued'[q] = issued[q]
  <1>1. /\ issued \in [Processes -> Seq(Ulids)]
        /\ clock \in 0 .. MaxClock /\ MaxClock \in Nat /\ MaxRandom \in Nat
        /\ lastMs \in [Processes -> -1 .. MaxClock]
        /\ lastRandom \in [Processes -> 0 .. MaxRandom]
    BY UlidAssumption DEF UlidOK, UlidTypeOK
  <1>2. <<>> \in Seq(Ulids) /\ DOMAIN <<>> = {}
    BY EmptySeq
  <1>3. /\ issued' \in [Processes -> Seq(Ulids)] /\ issued'[p] = <<>>
        /\ \A q \in Processes : q # p => issued'[q] = issued[q]
        /\ lastMs' \in [Processes -> -1 .. MaxClock] /\ lastMs'[p] = -1
        /\ lastRandom' \in [Processes -> 0 .. MaxRandom]
        /\ \A q \in Processes : q # p => lastMs'[q] = lastMs[q] /\ lastRandom'[q] = lastRandom[q]
        /\ UNCHANGED <<clock, steppedBack>>
    BY <1>1, <1>2 DEF ForgetUlids
  <1>4. -1 <= clock
    BY <1>1
  <1>5. UlidTypeOK'
    BY <1>1, <1>3 DEF UlidOK, UlidTypeOK
  <1>6. UlidsOrdered'
    <2>1. SUFFICES ASSUME NEW q \in Processes, NEW i \in DOMAIN issued'[q],
                          NEW j \in DOMAIN issued'[q], i < j
                   PROVE  steppedBack' \/ Before(issued'[q][i], issued'[q][j])
      BY DEF UlidsOrdered
    <2>2. q # p
      BY <1>2, <1>3, <2>1
    <2> QED
      BY <1>3, <2>1, <2>2 DEF UlidOK, UlidsOrdered
  <1> QED
    BY <1>3, <1>4, <1>5, <1>6 DEF UlidOK

-----------------------------------------------------------------------------
(* Types *)

LEMMA Constants ==
    /\ Blank \in Memory /\ Absent \in Cursors /\ Torn \in Cursors /\ NoName \in Ulids
    /\ \A n \in Positions : Valid(n) \in Cursors
    /\ NoJob.kind = "none" /\ NoJob \notin CursorJobs
    /\ Positions \subseteq Int /\ 0 \in Positions
    /\ ReplaceAttempts \in Nat /\ ReplaceAttempts >= 1
  BY UlidAssumption, CursorAssumption
     DEF Blank, Memory, Absent, Torn, NoName, Ulids, Valid, Cursors, Positions, NoJob, CursorJobs

\* The jobs and where they work.
LEMMA Jobs ==
    ASSUME NEW j \in CursorJobs
    PROVE  /\ j.on \in Strategies /\ PathFor(j.on) \in Files
           /\ j.kind \in {"run", "show", "reset"}
           /\ j.kind = "reset" => j.arg \in Positions
  BY CursorAssumption DEF CursorJobs, PathFor, Files, Positions

LEMMA Working ==
    ASSUME CursorTypes, JobOK, NEW p \in Processes, pc[p] # "down"
    PROVE  /\ job[p] \in CursorJobs /\ job[p].on \in Strategies /\ Path(p) \in Files
           /\ job[p].kind \in {"run", "show", "reset"}
           /\ job[p].kind = "reset" => job[p].arg \in Positions
  <1>1. job[p] \in CursorJobs
    BY DEF CursorTypes, JobOK
  <1>2. /\ job[p].on \in Strategies /\ PathFor(job[p].on) \in Files
        /\ job[p].kind \in {"run", "show", "reset"}
        /\ job[p].kind = "reset" => job[p].arg \in Positions
    BY <1>1, Jobs
  <1> QED
    BY <1>1, <1>2 DEF Path

LEMMA Remembered ==
    ASSUME CursorTypes, NEW p \in Processes
    PROVE  /\ local[p].position \in Positions /\ local[p].position \in Int
           /\ local[p].seen \in Cursors /\ local[p].seen.sequence \in Positions
           /\ local[p].seen.sequence \in Int
           /\ local[p].tmp \in Ulids /\ local[p].attempt \in 0 .. ReplaceAttempts
           /\ From(p) \in Int
  BY Constants DEF CursorTypes, Memory, Cursors, From

LEMMA Stored ==
    ASSUME CursorTypes, NEW f \in Files
    PROVE  file[f] \in Cursors /\ file[f].sequence \in Int
  BY Constants DEF CursorTypes, Cursors

LEMMA Larger ==
    ASSUME NEW a \in Int, NEW b \in Int
    PROVE  Max({a, b}) \in Int /\ Max({a, b}) >= a /\ Max({a, b}) >= b
  <1>1. \E x \in {a, b} : \A y \in {a, b} : x >= y
    <2>1. CASE a >= b
      BY <2>1
    <2>2. CASE ~(a >= b)
      BY <2>2
    <2> QED
      BY <2>1, <2>2
  <1>2. Max({a, b}) \in {a, b} /\ \A y \in {a, b} : Max({a, b}) >= y
    BY <1>1 DEF Max
  <1> QED
    BY <1>2

\* What concerns a process depends on it alone.
LEMMA Elsewhere ==
    ASSUME NEW q \in Processes, pc'[q] = pc[q], job'[q] = job[q], local'[q] = local[q]
    PROVE  /\ Path(q)' = Path(q) /\ From(q)' = From(q)
           /\ Commits(q)' <=> Commits(q)
           /\ Committing(q)' <=> Committing(q)
           /\ Started(q)' <=> Started(q)
           /\ \A f : Uses(q, f)' <=> Uses(q, f)
  BY DEF Path, PathFor, From, Commits, Committing, Started, Uses

LEMMA SameJob ==
    ASSUME NEW q \in Processes, job'[q] = job[q]
    PROVE  /\ Path(q)' = Path(q)
           /\ Commits(q)' <=> Commits(q)
           /\ \A f : Uses(q, f)' <=> Uses(q, f)
  BY DEF Path, PathFor, Commits, Uses

-----------------------------------------------------------------------------
(* A process ends *)

\* A process that ends, its temporary file removed or left behind, keeps the invariant.
LEMMA ExitStep ==
    ASSUME CursorInv, NEW p \in Processes, Exit(p), UNCHANGED <<file, reached, shared>>,
           temps' = {t \in temps : ~(Committing(p) /\ t.name = local[p].tmp)},
           orphans' \in Nat, faults' \in Nat, orphans' <= faults'
    PROVE  CursorInv'
  <1> USE DEF CursorInv
  <1>1. /\ pc' \in [Processes -> Places] /\ pc'[p] = "down"
        /\ job' \in [Processes -> CursorJobs \cup {NoJob}] /\ job'[p] = NoJob
        /\ local' \in [Processes -> Memory]
        /\ \A q \in Processes :
              q # p => pc'[q] = pc[q] /\ job'[q] = job[q] /\ local'[q] = local[q]
    BY Constants DEF Exit, Goto, CursorTypes, Places
  <1>2. UlidOK' /\ \A q \in Processes : q # p => issued'[q] = issued[q]
    BY UlidsForgotten DEF Exit
  <1>3. /\ ~Committing(p)' /\ job'[p].kind = "none" /\ ~Commits(p)'
        /\ \A f : ~Uses(p, f)'
    BY <1>1, Constants DEF Committing, Commits, Uses, CursorKinds
  <1>4. temps' \subseteq temps
    OBVIOUS
  <1>5. CursorTypes'
    BY <1>1, <1>4 DEF CursorTypes
  <1>6. JobOK'
    <2>1. SUFFICES ASSUME NEW q \in Processes
                   PROVE  /\ pc'[q] = "down" <=> job'[q] = NoJob
                          /\ pc'[q] = "handle" => job'[q].kind = "run"
                          /\ pc'[q] = "commit" \/ Committing(q)' => Commits(q)'
                          /\ pc'[q] \in {"write", "replace"} => local'[q].attempt >= 1
                          /\ job'[q].kind = "run" /\ Started(q)' => local'[q].position >= 0
      BY DEF JobOK
    <2>2. CASE q = p
      BY <1>1, <1>3, <2>2
    <2>3. CASE q # p
      BY <1>1, <2>3, Elsewhere DEF JobOK
    <2> QED
      BY <2>2, <2>3
  <1>7. TempsOK'
    <2>1. \A q \in Processes : Committing(q)' =>
             /\ q # p /\ Committing(q) /\ local'[q] = local[q] /\ pc'[q] = pc[q]
             /\ issued'[q] = issued[q]
      BY <1>1, <1>2, <1>3, Elsewhere
    <2>2. \A q \in Processes : Committing(q) /\ q # p => Committing(q)'
      BY <1>1, Elsewhere
    <2>3. \A q \in Processes :
             Committing(q)' => \E i \in DOMAIN issued'[q] : issued'[q][i] = local'[q].tmp
      BY <2>1 DEF TempsOK
    <2>4. \A q, r \in Processes :
             q # r /\ Committing(q)' /\ Committing(r)' => local'[q].tmp # local'[r].tmp
      BY <2>1 DEF TempsOK
    <2>5. \A t \in temps' : \E q \in Processes : Committing(q)' /\ local'[q].tmp = t.name
      <3>1. SUFFICES ASSUME NEW t \in temps'
                     PROVE  \E q \in Processes : Committing(q)' /\ local'[q].tmp = t.name
        OBVIOUS
      <3>2. PICK q \in Processes : Committing(q) /\ local[q].tmp = t.name
        BY <3>1 DEF TempsOK
      <3>3. q # p
        BY <3>1, <3>2
      <3> QED
        BY <1>1, <2>2, <3>2, <3>3
    <2>6. \A q \in Processes, t \in temps' :
             pc'[q] = "replace" /\ t.name = local'[q].tmp => t.content = Valid(local'[q].position)
      BY <1>1, <1>4 DEF TempsOK
    <2> QED
      BY <1>4, <2>3, <2>4, <2>5, <2>6 DEF TempsOK
  <1>8. HonestOK'
    <2>1. \A q \in Processes :
             job'[q].kind = "run" /\ ~Aliased(job'[q].on) =>
                From(q)' <= reached'[job'[q].on]
      BY <1>1, <1>3, Elsewhere DEF HonestOK
    <2>2. CursorHonest'
      BY DEF HonestOK, CursorHonest
    <2> QED
      BY <2>1, <2>2 DEF HonestOK, Aliased
  <1>9. AheadOK'
    <2>1. \A q, r \in Processes : \A f \in Files :
             q # r /\ Uses(q, f)' /\ Uses(r, f)' /\ (Commits(q)' \/ Commits(r)') => f \in shared'
      BY <1>1, <1>3, Elsewhere DEF AheadOK
    <2>2. \A q \in Processes :
             job'[q].kind = "run" /\ Path(q)' \notin shared' =>
                file'[Path(q)'].sequence <= From(q)'
      BY <1>1, <1>3, Elsewhere DEF AheadOK
    <2> QED
      BY <2>1, <2>2 DEF AheadOK
  <1> QED
    BY <1>2, <1>5, <1>6, <1>7, <1>8, <1>9

-----------------------------------------------------------------------------
(* A process goes on *)

LEMMA UlidsSame == UlidOK /\ UNCHANGED ulidVars => UlidOK'
  BY DEF UlidOK, UlidTypeOK, UlidsOrdered, ulidVars

\* A process goes on with its command, in a file no other command came to share
\* and whose sequence does not change.
LEMMA GoesOn ==
    ASSUME CursorInv, NEW p \in Processes, pc[p] # "down",
           pc' \in [Processes -> Places], local' \in [Processes -> Memory],
           file' \in [Files -> Cursors], reached' \in [Strategies -> Int],
           temps' \subseteq [name : Ulids, content : Cursors],
           \A q \in Processes : q # p => pc'[q] = pc[q] /\ local'[q] = local[q],
           UNCHANGED <<job, shared, orphans>>, faults' \in Nat, faults' >= faults,
           \A f \in Files : file'[f].sequence = file[f].sequence,
           \A s \in Strategies : reached'[s] >= reached[s],
           pc'[p] # "down", pc'[p] = "handle" => job[p].kind = "run",
           pc'[p] = "commit" \/ Committing(p)' => Commits(p),
           pc'[p] \in {"write", "replace"} => local'[p].attempt >= 1,
           job[p].kind = "run" /\ Started(p)' => local'[p].position >= 0,
           job[p].kind = "run" => From(p)' >= From(p),
           job[p].kind = "run" /\ ~Aliased(job[p].on) => From(p)' <= reached'[job[p].on]
    PROVE  CursorTypes' /\ JobOK' /\ HonestOK' /\ AheadOK'
  <1> USE DEF CursorInv
  <1>0. job' = job /\ shared' = shared
    OBVIOUS
  <1>2. CursorTypes'
    BY DEF CursorTypes
  <1>3. JobOK'
    <2>1. SUFFICES ASSUME NEW q \in Processes
                   PROVE  /\ pc'[q] = "down" <=> job'[q] = NoJob
                          /\ pc'[q] = "handle" => job'[q].kind = "run"
                          /\ pc'[q] = "commit" \/ Committing(q)' => Commits(q)'
                          /\ pc'[q] \in {"write", "replace"} => local'[q].attempt >= 1
                          /\ job'[q].kind = "run" /\ Started(q)' => local'[q].position >= 0
      BY DEF JobOK
    <2>2. CASE q = p
      BY <1>0, <2>2, SameJob DEF JobOK
    <2>3. CASE q # p
      <3>1. /\ pc'[q] = pc[q] /\ local'[q] = local[q] /\ job'[q] = job[q]
            /\ Commits(q)' <=> Commits(q)
            /\ Committing(q)' <=> Committing(q)
            /\ Started(q)' <=> Started(q)
        BY <1>0, <2>3, Elsewhere
      <3> QED
        BY <3>1 DEF JobOK
    <2> QED
      BY <2>2, <2>3
  <1>4. HonestOK'
    <2>1. CursorHonest'
      <3>1. SUFFICES ASSUME NEW s \in Strategies, ~Aliased(s)
                     PROVE  file'[FileOf[s]].sequence <= reached'[s]
        BY DEF CursorHonest, Aliased
      <3>2. FileOf[s] \in Files
        BY DEF Files
      <3>3. file[FileOf[s]].sequence <= reached[s]
        BY <3>1 DEF HonestOK, CursorHonest
      <3>4. reached[s] \in Int /\ reached'[s] \in Int /\ file[FileOf[s]].sequence \in Int
        BY <3>2, Stored DEF CursorTypes
      <3> QED
        BY <3>2, <3>3, <3>4
    <2>2. \A q \in Processes :
             job'[q].kind = "run" /\ ~Aliased(job'[q].on) => From(q)' <= reached'[job'[q].on]
      <3>1. SUFFICES ASSUME NEW q \in Processes, q # p, job[q].kind = "run",
                            ~Aliased(job[q].on)
                     PROVE  From(q)' <= reached'[job[q].on]
        OBVIOUS
      <3>2. job[q].on \in Strategies
        BY <3>1, Constants, Working DEF JobOK
      <3>3. From(q) <= reached[job[q].on] /\ From(q) \in Int
        BY <3>1, Remembered DEF HonestOK
      <3>4. reached[job[q].on] \in Int /\ reached'[job[q].on] \in Int
        BY <3>2 DEF CursorTypes
      <3>5. From(q)' = From(q) /\ reached'[job[q].on] >= reached[job[q].on]
        BY <1>0, <3>1, <3>2, Elsewhere
      <3> QED
        BY <3>3, <3>4, <3>5
    <2> QED
      BY <2>1, <2>2 DEF HonestOK, Aliased
  <1>5. AheadOK'
    <2>1. \A q, r \in Processes : \A f \in Files :
             q # r /\ Uses(q, f)' /\ Uses(r, f)' /\ (Commits(q)' \/ Commits(r)') => f \in shared'
      <3>1. SUFFICES ASSUME NEW q \in Processes, NEW r \in Processes, NEW f \in Files, q # r,
                            Uses(q, f)', Uses(r, f)', Commits(q)' \/ Commits(r)'
                     PROVE  f \in shared
        OBVIOUS
      <3>2. Uses(q, f) /\ Uses(r, f) /\ (Commits(q) \/ Commits(r))
        BY <1>0, <3>1, SameJob
      <3> QED
        BY <3>1, <3>2 DEF AheadOK
    <2>2. \A q \in Processes :
             job'[q].kind = "run" /\ Path(q)' \notin shared' =>
                file'[Path(q)'].sequence <= From(q)'
      <3>1. SUFFICES ASSUME NEW q \in Processes, job'[q].kind = "run", Path(q)' \notin shared'
                     PROVE  file'[Path(q)'].sequence <= From(q)'
        OBVIOUS
      <3>0. job[q].kind = "run" /\ Path(q)' = Path(q) /\ Path(q) \notin shared
        BY <1>0, <3>1, SameJob
      <3>2. Path(q) \in Files
        BY <3>0, Constants, Working DEF JobOK
      <3>3. file[Path(q)].sequence <= From(q)
        BY <3>0 DEF AheadOK
      <3>4. file[Path(q)].sequence \in Int /\ From(q) \in Int /\ From(q)' \in Int
        <4>1. file[Path(q)].sequence \in Int /\ From(q) \in Int
          BY <3>2, Stored, Remembered
        <4>2. From(q)' \in Int
          BY Constants DEF From, Memory, Cursors
        <4> QED
          BY <4>1, <4>2
      <3>5. From(q)' >= From(q)
        <4>1. CASE q = p
          BY <3>0, <4>1
        <4>2. CASE q # p
          <5>1. From(q)' = From(q)
            BY <1>0, <4>2, Elsewhere
          <5> QED
            BY <3>4, <5>1
        <4> QED
          BY <4>1, <4>2
      <3>6. file'[Path(q)].sequence = file[Path(q)].sequence
        BY <3>2
      <3> QED
        BY <3>0, <3>3, <3>4, <3>5, <3>6
    <2> QED
      BY <2>1, <2>2 DEF AheadOK
  <1> QED
    BY <1>2, <1>3, <1>4, <1>5

\* A step that leaves the temporary files and their commits alone.
LEMMA TempsSame ==
    ASSUME CursorInv, NEW p \in Processes, UNCHANGED <<temps, issued, orphans>>,
           faults' \in Nat, faults' >= faults,
           \A q \in Processes : q # p => pc'[q] = pc[q] /\ local'[q] = local[q],
           Committing(p)' <=> Committing(p), Committing(p) => local'[p].tmp = local[p].tmp,
           pc'[p] = "replace" => pc[p] = "replace" /\ local'[p].position = local[p].position
    PROVE  TempsOK'
  <1> USE DEF CursorInv
  <1>1. \A q \in Processes : /\ Committing(q)' <=> Committing(q)
                             /\ Committing(q) => local'[q].tmp = local[q].tmp
    BY DEF Committing
  <1>2. \A q \in Processes : pc'[q] = "replace" =>
           /\ pc[q] = "replace" /\ Committing(q) /\ local'[q].position = local[q].position
    BY DEF Committing
  <1>3. orphans' <= faults'
    BY DEF TempsOK, CursorTypes
  <1>4. \A q \in Processes, t \in temps' :
           pc'[q] = "replace" /\ t.name = local'[q].tmp => t.content = Valid(local'[q].position)
    BY <1>1, <1>2 DEF TempsOK
  <1>5. \A t \in temps' : \E q \in Processes : Committing(q)' /\ local'[q].tmp = t.name
    BY <1>1 DEF TempsOK
  <1>6. /\ \A q \in Processes :
              Committing(q)' => \E i \in DOMAIN issued'[q] : issued'[q][i] = local'[q].tmp
        /\ \A q, r \in Processes :
              q # r /\ Committing(q)' /\ Committing(r)' => local'[q].tmp # local'[r].tmp
    BY <1>1 DEF TempsOK
  <1> QED
    BY <1>3, <1>4, <1>5, <1>6 DEF TempsOK

\* The fields of what a process remembers.
LEMMA Fields ==
    ASSUME CursorTypes, NEW p \in Processes
    PROVE  /\ \A v \in Positions : Remember(p, "position", v) =>
                /\ local' \in [Processes -> Memory]
                /\ local'[p].position = v /\ local'[p].tmp = local[p].tmp
                /\ \A q \in Processes : q # p => local'[q] = local[q]
           /\ \A v \in Cursors : Remember(p, "seen", v) =>
                /\ local' \in [Processes -> Memory]
                /\ local'[p].seen = v /\ local'[p].position = local[p].position
                /\ \A q \in Processes : q # p => local'[q] = local[q]
           /\ \A v \in 0 .. ReplaceAttempts : Remember(p, "attempt", v) =>
                /\ local' \in [Processes -> Memory]
                /\ local'[p].attempt = v /\ local'[p].position = local[p].position
                /\ local'[p].tmp = local[p].tmp
                /\ \A q \in Processes : q # p => local'[q] = local[q]
  BY DEF Remember, CursorTypes, Memory

-----------------------------------------------------------------------------
(* Every step keeps the invariant *)

LEMMA HandleStep ==
    ASSUME CursorInv, NEW p \in Processes, Handle(p)
    PROVE  CursorInv'
  <1> USE DEF CursorInv
  <1> DEFINE n == local[p].position + 1
             s == job[p].on
  <1>1. /\ pc[p] = "handle" /\ local[p].position < MaxSeq
        /\ pc' = [pc EXCEPT ![p] = "commit"] /\ Remember(p, "position", n)
        /\ reached' = [reached EXCEPT ![s] = Max({@, local'[p].position})]
        /\ UNCHANGED <<job, file, temps, orphans, shared, faults>> /\ UNCHANGED ulidVars
    BY DEF Handle, Goto, bounds
  <1>2. job[p].kind = "run" /\ s \in Strategies /\ Commits(p)
    BY <1>1, Working DEF JobOK, Commits
  <1>3. n \in Positions /\ n \in Int /\ n >= 0 /\ n = local[p].position + 1
    <2>1. local[p].position >= 0
      BY <1>1, <1>2 DEF JobOK, Started
    <2>2. local[p].position \in Int /\ MaxSeq \in Nat
      BY Remembered, CursorAssumption
    <2>3. n \in 0 .. MaxSeq
      BY <1>1, <2>1, <2>2
    <2> QED
      BY <2>3 DEF Positions
  <1>4. /\ local' \in [Processes -> Memory] /\ local'[p].position = n
        /\ \A q \in Processes : q # p => local'[q] = local[q]
    BY <1>1, <1>3, Fields
  <1>5. /\ pc' \in [Processes -> Places] /\ pc'[p] = "commit"
        /\ \A q \in Processes : q # p => pc'[q] = pc[q]
    BY <1>1 DEF CursorTypes, Places
  <1>6. /\ reached' \in [Strategies -> Int] /\ reached'[s] >= n
        /\ \A t \in Strategies : reached'[t] >= reached[t]
    <2>1. reached \in [Strategies -> Int]
      BY DEF CursorTypes
    <2>2. /\ Max({reached[s], n}) \in Int
          /\ Max({reached[s], n}) >= reached[s] /\ Max({reached[s], n}) >= n
      BY <1>2, <1>3, <2>1, Larger
    <2>3. reached' = [reached EXCEPT ![s] = Max({reached[s], n})]
      BY <1>1, <1>2, <1>4, <2>1
    <2> HIDE DEF n
    <2> QED
      BY <1>2, <2>1, <2>2, <2>3
  <1>7. /\ From(p) = local[p].position /\ From(p)' = n
        /\ ~Committing(p) /\ ~Committing(p)'
    BY <1>1, <1>4, <1>5 DEF From, Committing
  <1>8. CursorTypes' /\ JobOK' /\ HonestOK' /\ AheadOK'
    <2>1. n >= local[p].position
      BY <1>3, Remembered
    <2>2. faults \in Nat /\ file \in [Files -> Cursors]
          /\ temps \subseteq [name : Ulids, content : Cursors]
      BY DEF CursorTypes
    <2>3. /\ From(p)' >= From(p) /\ From(p)' <= reached'[job[p].on]
          /\ local'[p].position >= 0
          /\ faults' \in Nat /\ faults' >= faults
          /\ file' \in [Files -> Cursors] /\ temps' \subseteq [name : Ulids, content : Cursors]
      BY <1>1, <1>3, <1>4, <1>6, <1>7, <2>1, <2>2
    <2> HIDE DEF n, CursorInv
    <2> QED
      BY <1>1, <1>2, <1>4, <1>5, <1>6, <1>7, <2>3, GoesOn
  <1>9. TempsOK'
    BY <1>1, <1>4, <1>5, <1>7, TempsSame DEF ulidVars, CursorTypes
  <1>10. UlidOK'
    BY <1>1, UlidsSame
  <1> QED
    BY <1>8, <1>9, <1>10

\* The process goes on from what it loaded, or to what it was asked for.
LEMMA LoadContinues ==
    ASSUME CursorInv, NEW p \in Processes, NEW n \in Positions, NEW l \in {"handle", "commit"},
           pc[p] = "read", UNCHANGED <<job, file, temps, reached, orphans, shared, faults>>,
           UNCHANGED ulidVars, Goto(p, l),
           local' = [local EXCEPT ![p] = [Blank EXCEPT !.position = n]],
           \/ job[p].kind = "run" /\ l = "handle" /\ n = local[p].seen.sequence /\ n >= 0
           \/ job[p].kind = "reset" /\ l = "commit"
    PROVE  CursorInv'
  <1> USE DEF CursorInv
  <1>1. /\ local' \in [Processes -> Memory] /\ local'[p].position = n
        /\ \A q \in Processes : q # p => local'[q] = local[q]
    <2>1. [Blank EXCEPT !.position = n] \in Memory
      BY Constants DEF Memory, Blank
    <2> QED
      BY <2>1 DEF CursorTypes, Blank
  <1>2. /\ pc' \in [Processes -> Places] /\ pc'[p] = l
        /\ \A q \in Processes : q # p => pc'[q] = pc[q]
    BY DEF Goto, CursorTypes, Places
  <1>3. /\ From(p) = local[p].seen.sequence /\ From(p)' = n
        /\ ~Committing(p) /\ ~Committing(p)'
    BY <1>1, <1>2 DEF From, Committing
  <1>4. job' = job /\ UNCHANGED ulidVars
    OBVIOUS
  <1>5. /\ From(p) \in Int /\ n \in Int
        /\ job[p].kind = "reset" => Commits(p) /\ job[p].kind # "run"
    BY Constants, Remembered DEF Commits
  <1>6. /\ job[p].kind = "run" => From(p)' >= From(p) /\ n >= 0 /\ l = "handle"
        /\ job[p].kind = "run" /\ ~Aliased(job[p].on) => From(p)' <= reached'[job[p].on]
        /\ l = "commit" => Commits(p)
        /\ l = "handle" => job[p].kind = "run"
    <2>1. job[p].kind = "run" /\ ~Aliased(job[p].on) => From(p) <= reached[job[p].on]
      BY DEF HonestOK
    <2> QED
      BY <1>3, <1>5, <2>1
  <1>7. CursorTypes' /\ JobOK' /\ HonestOK' /\ AheadOK'
    <2>1. /\ faults \in Nat /\ file \in [Files -> Cursors] /\ reached \in [Strategies -> Int]
          /\ temps \subseteq [name : Ulids, content : Cursors]
      BY DEF CursorTypes
    <2> HIDE DEF CursorInv
    <2> QED
      BY <1>1, <1>2, <1>3, <1>4, <1>6, <2>1, GoesOn
  <1>8. TempsOK'
    BY <1>1, <1>2, <1>3, <1>4, TempsSame DEF ulidVars, CursorTypes
  <1> QED
    BY <1>4, <1>7, <1>8, UlidsSame

LEMMA LoadCursorStep ==
    ASSUME CursorInv, NEW p \in Processes, Load(p)
    PROVE  CursorInv'
  <1>1. pc[p] = "read" /\ UNCHANGED <<file, temps, reached, orphans, shared, faults>>
    BY DEF Load, history, bounds
  <1>2. CASE Exit(p)
    <2>1. ~Committing(p)
      BY <1>1 DEF Committing
    <2>2. temps' = {t \in temps : ~(Committing(p) /\ t.name = local[p].tmp)}
      BY <1>1, <2>1
    <2> QED
      BY <1>1, <1>2, <2>2, ExitStep DEF CursorInv, CursorTypes, TempsOK
  <1>3. CASE job[p].kind = "run" /\ Loads(local[p].seen) # {}
    <2>1. PICK n \in Loads(local[p].seen) :
              /\ local' = [local EXCEPT ![p] = [Blank EXCEPT !.position = n]]
              /\ Goto(p, "handle") /\ UNCHANGED <<job, ulidVars>>
      BY <1>3 DEF Load
    <2>2. n = local[p].seen.sequence /\ n >= 0 /\ n \in Positions
      BY Remembered DEF Loads, CursorInv
    <2> QED
      BY <1>1, <1>3, <2>1, <2>2, LoadContinues
  <1>4. CASE ~(job[p].kind = "run" /\ Loads(local[p].seen) # {})
             /\ job[p].kind = "reset" /\ local[p].seen.state # "undecodable"
    <2>1. /\ local' = [local EXCEPT ![p] = [Blank EXCEPT !.position = job[p].arg]]
          /\ Goto(p, "commit") /\ UNCHANGED <<job, ulidVars>>
      BY <1>4 DEF Load
    <2>2. job[p].arg \in Positions
      BY <1>1, <1>4, Working DEF CursorInv
    <2> QED
      BY <1>1, <1>4, <2>1, <2>2, LoadContinues
  <1>5. CASE /\ ~(job[p].kind = "run" /\ Loads(local[p].seen) # {})
             /\ ~(job[p].kind = "reset" /\ local[p].seen.state # "undecodable")
    BY <1>2, <1>5 DEF Load
  <1> QED
    BY <1>3, <1>4, <1>5

LEMMA StopStep ==
    ASSUME CursorInv, NEW p \in Processes, StopRun(p) \/ NameOverflows(p)
    PROVE  CursorInv'
  <1>1. /\ pc[p] \in {"handle", "commit"} /\ Exit(p)
        /\ UNCHANGED <<file, temps, reached, orphans, shared, faults>>
    BY DEF StopRun, NameOverflows, history, bounds
  <1>2. temps' = {t \in temps : ~(Committing(p) /\ t.name = local[p].tmp)}
    BY <1>1 DEF Committing
  <1> QED
    BY <1>1, <1>2, ExitStep DEF CursorInv, CursorTypes, TempsOK

LEMMA CrashStep ==
    ASSUME CursorInv, NEW p \in Processes, Crash(p)
    PROVE  CursorInv'
  <1> DEFINE left == {t \in temps : Committing(p) /\ t.name = local[p].tmp}
  <1>1. /\ Exit(p) /\ UNCHANGED <<file, reached, shared>>
        /\ temps' = temps \ left /\ orphans' = orphans + Cardinality(left)
        /\ faults' = faults + 1
    BY DEF Crash, Fault
  <1>2. orphans \in Nat /\ faults \in Nat /\ orphans <= faults
    BY DEF CursorInv, CursorTypes, TempsOK
  <1>3. Cardinality(left) \in 0 .. 1
    <2>1. CASE left = {}
      BY <2>1, FS_EmptySet
    <2>2. CASE left # {}
      <3>1. PICK t : t \in left
        BY <2>2
      <3>2. left = {t}
        BY <3>1 DEF CursorInv, TempsOK
      <3>3. Cardinality({t}) = 1
        BY FS_Singleton, Zenon
      <3> HIDE DEF left
      <3> QED
        BY <3>2, <3>3
    <2> QED
      BY <2>1, <2>2
  <1>4. temps' = {t \in temps : ~(Committing(p) /\ t.name = local[p].tmp)}
    BY <1>1
  <1>5. orphans' \in Nat /\ faults' \in Nat /\ orphans' <= faults'
    <2> HIDE DEF left
    <2> QED
      BY <1>1, <1>2, <1>3
  <1> QED
    BY <1>1, <1>4, <1>5, ExitStep

LEMMA CorruptStep ==
    ASSUME CursorInv, NEW f \in Files, Corrupt(f)
    PROVE  CursorInv'
  <1> USE DEF CursorInv
  <1>1. PICK damage \in {"torn", "undecodable"} : file' = [file EXCEPT ![f].state = damage]
    BY DEF Corrupt
  <1>2. /\ UNCHANGED <<pc, job, temps, local, reached, orphans, shared, issued>>
        /\ UNCHANGED ulidVars /\ faults' = faults + 1
    BY DEF Corrupt, Fault, history, ulidVars
  <1>3. /\ file' \in [Files -> Cursors]
        /\ \A g \in Files : file'[g].sequence = file[g].sequence
    BY <1>1 DEF CursorTypes, Cursors
  <1>4. CursorTypes'
    BY <1>2, <1>3 DEF CursorTypes
  <1>5. JobOK'
    BY <1>2 DEF JobOK, Committing, Commits, Started
  <1>6. TempsOK'
    BY <1>2 DEF TempsOK, Committing, CursorTypes
  <1>7. HonestOK'
    <2>1. \A s \in Strategies : FileOf[s] \in Files
      BY DEF Files
    <2> QED
      BY <1>2, <1>3, <2>1 DEF HonestOK, CursorHonest, From, Aliased
  <1>8. AheadOK'
    <2>1. \A q \in Processes : job[q].kind = "run" => Path(q) \in Files
      BY Working, Constants DEF JobOK
    <2> QED
      BY <1>2, <1>3, <2>1 DEF AheadOK, From, Uses, Commits, Path
  <1> QED
    BY <1>2, <1>4, <1>5, <1>6, <1>7, <1>8, UlidsSame

\* A commit in progress goes on from one file operation to another, with the
\* temporary file, the position and the job it has.
LEMMA CommitGoesOn ==
    ASSUME CursorInv, NEW p \in Processes, Committing(p), Committing(p)',
           pc' \in [Processes -> Places], local' \in [Processes -> Memory],
           \A q \in Processes : q # p => pc'[q] = pc[q] /\ local'[q] = local[q],
           local'[p].position = local[p].position,
           pc'[p] \in {"write", "replace"} => local'[p].attempt >= 1,
           temps' \subseteq [name : Ulids, content : Cursors],
           UNCHANGED <<job, file, reached, shared, orphans>>, faults' \in Nat, faults' >= faults
    PROVE  CursorTypes' /\ JobOK' /\ HonestOK' /\ AheadOK'
  <1>1. /\ pc[p] # "down" /\ pc'[p] # "down" /\ pc'[p] # "handle" /\ Commits(p)
        /\ Started(p) /\ From(p) = local[p].position /\ From(p)' = local[p].position
    BY DEF Committing, CursorInv, JobOK, Started, From
  <1>2. /\ file' \in [Files -> Cursors] /\ reached' \in [Strategies -> Int]
        /\ From(p) \in Int
    BY Remembered DEF CursorInv, CursorTypes
  <1>3. job[p].kind = "run" => /\ From(p)' >= From(p)
                               /\ local'[p].position >= 0
    BY <1>1, <1>2 DEF CursorInv, JobOK
  <1>4. job[p].kind = "run" /\ ~Aliased(job[p].on) => From(p)' <= reached'[job[p].on]
    BY <1>1 DEF CursorInv, HonestOK
  <1>5. \A t \in Strategies : reached'[t] >= reached[t]
    BY DEF CursorInv, CursorTypes
  <1> QED
    BY <1>1, <1>2, <1>3, <1>4, <1>5, GoesOn

LEMMA DeniedStep ==
    ASSUME CursorInv, NEW p \in Processes, ReplaceDenied(p) \/ CommitFails(p)
    PROVE  CursorInv'
  <1> USE DEF CursorInv
  <1>1. /\ pc[p] \in {"write", "replace"}
        /\ UNCHANGED <<job, file, temps, reached, shared, orphans>> /\ UNCHANGED ulidVars
        /\ faults' \in Nat /\ faults' >= faults
    BY DEF ReplaceDenied, Denied, CommitFails, Fault, history, bounds, CursorTypes
  <1>2. /\ pc' \in [Processes -> Places]
        /\ pc'[p] \in {pc[p], "raise"} /\ (pc[p] # "replace" => pc'[p] = "raise")
        /\ \A q \in Processes : q # p => pc'[q] = pc[q]
    <2>1. \/ UNCHANGED pc /\ pc[p] = "replace"
          \/ pc' = [pc EXCEPT ![p] = "raise"]
      BY DEF ReplaceDenied, Denied, CommitFails, Goto
    <2> QED
      BY <2>1 DEF CursorTypes, Places
  <1>3. /\ local' \in [Processes -> Memory]
        /\ local'[p].position = local[p].position /\ local'[p].tmp = local[p].tmp
        /\ local'[p].attempt >= 1
        /\ \A q \in Processes : q # p => local'[q] = local[q]
    <2>1. CASE UNCHANGED local
      BY <1>1, <2>1 DEF CursorTypes, JobOK
    <2>2. CASE Remember(p, "attempt", local[p].attempt + 1) /\ local[p].attempt # ReplaceAttempts
      <3>1. local[p].attempt + 1 \in 0 .. ReplaceAttempts /\ local[p].attempt + 1 >= 1
        BY <2>2, Remembered, Constants
      <3> QED
        BY <2>2, <3>1, Fields
    <2> QED
      BY <2>1, <2>2 DEF ReplaceDenied, CommitFails
  <1>4. Committing(p) /\ Committing(p)'
    BY <1>1, <1>2 DEF Committing
  <1>5. temps' \subseteq [name : Ulids, content : Cursors]
    BY <1>1 DEF CursorTypes
  <1>6. CursorTypes' /\ JobOK' /\ HonestOK' /\ AheadOK'
    <2> HIDE DEF CursorInv
    <2> QED
      BY <1>1, <1>2, <1>3, <1>4, <1>5, CommitGoesOn
  <1>7. TempsOK'
    <2>1. UNCHANGED <<temps, issued, orphans>>
      BY <1>1 DEF ulidVars
    <2> HIDE DEF CursorInv
    <2> QED
      BY <1>1, <1>2, <1>3, <1>4, <2>1, TempsSame
  <1> QED
    BY <1>1, <1>6, <1>7, UlidsSame

LEMMA WriteStep ==
    ASSUME CursorInv, NEW p \in Processes, WriteTemp(p)
    PROVE  CursorInv'
  <1> USE DEF CursorInv
  <1> DEFINE new == [name |-> local[p].tmp, content |-> Valid(local[p].position)]
  <1>1. /\ pc[p] = "write" /\ pc' = [pc EXCEPT ![p] = "replace"]
        /\ temps' = {t \in temps : t.name # local[p].tmp} \cup {new}
        /\ UNCHANGED <<job, file, local, reached, shared, orphans, faults, issued>>
        /\ UNCHANGED ulidVars
    BY DEF WriteTemp, Put, Goto, history, bounds, ulidVars
  <1>2. /\ pc' \in [Processes -> Places] /\ pc'[p] = "replace"
        /\ \A q \in Processes : q # p => pc'[q] = pc[q]
    BY <1>1 DEF CursorTypes, Places
  <1>3. Committing(p) /\ Committing(p)'
    BY <1>1, <1>2 DEF Committing
  <1>4. /\ new \in [name : Ulids, content : Cursors] /\ new.name = local[p].tmp
        /\ new.content = Valid(local[p].position)
    BY Remembered, Constants
  <1>5. temps' \subseteq [name : Ulids, content : Cursors]
    BY <1>1, <1>4 DEF CursorTypes
  <1>6. CursorTypes' /\ JobOK' /\ HonestOK' /\ AheadOK'
    <2>1. /\ local' \in [Processes -> Memory] /\ local'[p].attempt >= 1
          /\ faults' \in Nat /\ faults' >= faults
      BY <1>1 DEF CursorTypes, JobOK
    <2> HIDE DEF CursorInv
    <2> QED
      BY <1>1, <1>2, <1>3, <1>5, <2>1, CommitGoesOn
  <1>7. TempsOK'
    <2> HIDE DEF new
    <2>1. \A q \in Processes : Committing(q)' <=> Committing(q)
      BY <1>2, <1>3 DEF Committing
    <2>2. \A t \in temps' : t = new \/ (t \in temps /\ t.name # local[p].tmp)
      BY <1>1
    <2>3. /\ \A q \in Processes :
                Committing(q)' => \E i \in DOMAIN issued'[q] : issued'[q][i] = local'[q].tmp
          /\ \A q, r \in Processes :
                q # r /\ Committing(q)' /\ Committing(r)' => local'[q].tmp # local'[r].tmp
      BY <1>1, <2>1 DEF TempsOK
    <2>4. \A t, u \in temps' : t.name = u.name => t = u
      BY <1>4, <2>2 DEF TempsOK
    <2>5. \A t \in temps' : \E q \in Processes : Committing(q)' /\ local'[q].tmp = t.name
      BY <1>1, <1>3, <1>4, <2>1, <2>2 DEF TempsOK
    <2>6. \A q \in Processes, t \in temps' :
             pc'[q] = "replace" /\ t.name = local'[q].tmp => t.content = Valid(local'[q].position)
      <3>1. SUFFICES ASSUME NEW q \in Processes, NEW t \in temps', pc'[q] = "replace",
                            t.name = local[q].tmp
                     PROVE  t.content = Valid(local[q].position)
        BY <1>1
      <3>2. CASE q = p
        BY <1>4, <2>2, <3>1, <3>2
      <3>3. CASE q # p
        <4>1. pc[q] = "replace" /\ Committing(q) /\ t # new
          BY <1>2, <1>3, <1>4, <3>1, <3>3 DEF Committing, TempsOK
        <4> QED
          BY <2>2, <3>1, <4>1 DEF TempsOK
      <3> QED
        BY <3>2, <3>3
    <2>7. orphans' <= faults'
      BY <1>1 DEF TempsOK
    <2> QED
      BY <2>3, <2>4, <2>5, <2>6, <2>7 DEF TempsOK
  <1> QED
    BY <1>1, <1>6, <1>7, UlidsSame

LEMMA OpenTempStep ==
    ASSUME CursorInv, NEW p \in Processes, OpenTemp(p)
    PROVE  CursorInv'
  <1> USE DEF CursorInv
  <1>1. PICK id \in Ulids :
            /\ NewUlid(p, id) /\ Put(id, Torn)
            /\ local' = [local EXCEPT ![p].tmp = id, ![p].attempt = 1]
            /\ IF id.ms < clock THEN Fault ELSE UNCHANGED bounds
    BY DEF OpenTemp
  <1> DEFINE new == [name |-> id, content |-> Torn]
  <1>2. /\ pc[p] = "commit" /\ pc' = [pc EXCEPT ![p] = "write"]
        /\ UNCHANGED <<job, file, reached, shared, orphans>>
        /\ faults' \in Nat /\ faults' >= faults
    BY <1>1 DEF OpenTemp, Goto, history, bounds, Fault, CursorTypes
  <1>3. /\ pc' \in [Processes -> Places] /\ pc'[p] = "write"
        /\ \A q \in Processes : q # p => pc'[q] = pc[q]
    BY <1>2 DEF CursorTypes, Places
  <1>4. /\ local' \in [Processes -> Memory]
        /\ local'[p].tmp = id /\ local'[p].attempt = 1 /\ local'[p].position = local[p].position
        /\ \A q \in Processes : q # p => local'[q] = local[q]
    <2>1. 1 \in 0 .. ReplaceAttempts
      BY Constants
    <2> QED
      BY <1>1, <2>1 DEF CursorTypes, Memory
  <1>5. /\ temps' = {t \in temps : t.name # id} \cup {new}
        /\ new \in [name : Ulids, content : Cursors] /\ new.name = id
        /\ temps' \subseteq [name : Ulids, content : Cursors]
    BY <1>1, Constants DEF Put, CursorTypes
  <1>6. ~Committing(p) /\ Committing(p)' /\ Started(p) /\ Commits(p)
    BY <1>2, <1>3 DEF Committing, Started, JobOK
  <1>7. /\ UlidOK' /\ Fresh(id)
        /\ \A q \in Processes : \A i \in DOMAIN issued[q] :
              i \in DOMAIN issued'[q] /\ issued'[q][i] = issued[q][i]
        /\ \E i \in DOMAIN issued'[p] : issued'[p][i] = id
    BY <1>1, UlidDrawn
  <1>8. CursorTypes' /\ JobOK' /\ HonestOK' /\ AheadOK'
    <2>1. /\ From(p) = local[p].position /\ From(p)' = local[p].position
          /\ From(p) \in Int
      BY <1>2, <1>3, <1>4, Remembered DEF From
    <2>2. /\ file' \in [Files -> Cursors] /\ reached' \in [Strategies -> Int]
          /\ \A t \in Strategies : reached'[t] >= reached[t]
      BY <1>2 DEF CursorTypes
    <2>3. job[p].kind = "run" => From(p)' >= From(p) /\ local'[p].position >= 0
      BY <1>4, <1>6, <2>1 DEF JobOK
    <2>4. job[p].kind = "run" /\ ~Aliased(job[p].on) => From(p)' <= reached'[job[p].on]
      BY <1>2, <2>1 DEF HonestOK
    <2>5. /\ pc[p] # "down" /\ pc'[p] # "down" /\ pc'[p] # "handle"
          /\ pc'[p] \in {"write", "replace"} => local'[p].attempt >= 1
      BY <1>2, <1>3, <1>4
    <2>6. \A f \in Files : file'[f].sequence = file[f].sequence
      BY <1>2
    <2> HIDE DEF CursorInv
    <2> QED
      BY <1>2, <1>3, <1>4, <1>5, <1>6, <2>2, <2>3, <2>4, <2>5, <2>6, GoesOn
  <1>9. TempsOK'
    <2> HIDE DEF new
    <2>1. \A q \in Processes : q # p => /\ Committing(q)' <=> Committing(q)
                                        /\ local'[q] = local[q] /\ pc'[q] = pc[q]
      BY <1>3, <1>4 DEF Committing
    <2>2. \A q \in Processes : Committing(q) => local[q].tmp # id
      BY <1>7 DEF TempsOK, Fresh
    <2>3. \A t \in temps' : t = new \/ (t \in temps /\ t.name # id)
      BY <1>5
    <2>4. \A q \in Processes :
             Committing(q)' => \E i \in DOMAIN issued'[q] : issued'[q][i] = local'[q].tmp
      <3>1. SUFFICES ASSUME NEW q \in Processes, Committing(q)'
                     PROVE  \E i \in DOMAIN issued'[q] : issued'[q][i] = local'[q].tmp
        OBVIOUS
      <3>2. CASE q = p
        BY <1>4, <1>7, <3>2
      <3>3. CASE q # p
        <4>1. Committing(q) /\ local'[q] = local[q]
          BY <1>3, <1>4, <3>1, <3>3 DEF Committing
        <4>2. PICK i \in DOMAIN issued[q] : issued[q][i] = local[q].tmp
          BY <4>1 DEF TempsOK
        <4> QED
          BY <1>7, <4>1, <4>2
      <3> QED
        BY <3>2, <3>3
    <2>5. \A q, r \in Processes :
             q # r /\ Committing(q)' /\ Committing(r)' => local'[q].tmp # local'[r].tmp
      BY <1>4, <2>1, <2>2 DEF TempsOK
    <2>6. \A t, u \in temps' : t.name = u.name => t = u
      BY <1>5, <2>3 DEF TempsOK
    <2>7. \A t \in temps' : \E q \in Processes : Committing(q)' /\ local'[q].tmp = t.name
      <3>1. SUFFICES ASSUME NEW t \in temps'
                     PROVE  \E q \in Processes : Committing(q)' /\ local'[q].tmp = t.name
        OBVIOUS
      <3>2. CASE t = new
        BY <1>4, <1>5, <1>6, <3>2
      <3>3. CASE t # new
        <4>1. PICK q \in Processes : Committing(q) /\ local[q].tmp = t.name
          BY <2>3, <3>1, <3>3 DEF TempsOK
        <4>2. q # p
          BY <1>6, <4>1
        <4> QED
          BY <1>3, <1>4, <4>1, <4>2 DEF Committing
      <3> QED
        BY <3>2, <3>3
    <2>8. \A q \in Processes, t \in temps' :
             pc'[q] = "replace" /\ t.name = local'[q].tmp => t.content = Valid(local'[q].position)
      <3>1. SUFFICES ASSUME NEW q \in Processes, NEW t \in temps', pc'[q] = "replace",
                            t.name = local'[q].tmp
                     PROVE  t.content = Valid(local'[q].position)
        OBVIOUS
      <3>2. q # p
        BY <1>3, <3>1
      <3>3. pc[q] = "replace" /\ Committing(q) /\ local'[q] = local[q]
        BY <1>3, <1>4, <3>1, <3>2 DEF Committing
      <3>4. t \in temps
        BY <1>5, <2>2, <2>3, <3>1, <3>3
      <3> QED
        BY <3>1, <3>3, <3>4 DEF TempsOK
    <2>9. orphans' <= faults'
      BY <1>2 DEF TempsOK, CursorTypes
    <2> QED
      BY <2>4, <2>5, <2>6, <2>7, <2>8, <2>9 DEF TempsOK
  <1> QED
    BY <1>7, <1>8, <1>9

LEMMA FinishStep ==
    ASSUME CursorInv, NEW p \in Processes, Finish(p)
    PROVE  CursorInv'
  <1> USE DEF CursorInv
  <1>1. /\ pc[p] \in {"done", "raise"} /\ Committing(p)
        /\ temps' = {t \in temps : t.name # local[p].tmp}
        /\ UNCHANGED <<file, reached, shared, orphans, faults>>
    BY DEF Finish, history, bounds, Committing
  <1>2. CASE Exit(p)
    <2>1. temps' = {t \in temps : ~(Committing(p) /\ t.name = local[p].tmp)}
      BY <1>1
    <2> QED
      BY <1>1, <1>2, <2>1, ExitStep DEF CursorTypes, TempsOK
  <1>3. CASE /\ pc[p] = "done" /\ job[p].kind = "run"
             /\ Goto(p, "handle")
             /\ local' = [local EXCEPT ![p].tmp = NoName, ![p].attempt = 0]
             /\ UNCHANGED <<job, ulidVars>>
    <2>1. /\ pc' \in [Processes -> Places] /\ pc'[p] = "handle"
          /\ \A q \in Processes : q # p => pc'[q] = pc[q]
      BY <1>3 DEF CursorTypes, Places, Goto
    <2>2. /\ local' \in [Processes -> Memory]
          /\ local'[p].position = local[p].position
          /\ \A q \in Processes : q # p => local'[q] = local[q]
      <3>1. 0 \in 0 .. ReplaceAttempts /\ NoName \in Ulids
        BY Constants
      <3> QED
        BY <1>3, <3>1 DEF CursorTypes, Memory
    <2>3. ~Committing(p)' /\ Started(p) /\ job' = job /\ UNCHANGED ulidVars
      BY <1>1, <1>3, <2>1 DEF Committing, Started
    <2>4. /\ From(p) = local[p].position /\ From(p)' = local[p].position
          /\ From(p) \in Int
      BY <1>3, <2>1, <2>2, Remembered DEF From
    <2>5. temps' \subseteq temps /\ issued' = issued
      BY <1>1, <2>3 DEF ulidVars
    <2>6. CursorTypes' /\ JobOK' /\ HonestOK' /\ AheadOK'
      <3>1. /\ file' \in [Files -> Cursors] /\ reached' \in [Strategies -> Int]
            /\ \A t \in Strategies : reached'[t] >= reached[t]
            /\ temps' \subseteq [name : Ulids, content : Cursors]
            /\ faults' \in Nat /\ faults' >= faults
        BY <1>1, <2>5 DEF CursorTypes
      <3>2. From(p)' >= From(p) /\ local'[p].position >= 0
        BY <1>3, <2>2, <2>3, <2>4 DEF JobOK
      <3>3. ~Aliased(job[p].on) => From(p)' <= reached'[job[p].on]
        BY <1>1, <1>3, <2>4 DEF HonestOK
      <3>4. pc[p] # "down" /\ \A f \in Files : file'[f].sequence = file[f].sequence
        BY <1>1
      <3> HIDE DEF CursorInv
      <3> QED
        BY <1>1, <1>3, <2>1, <2>2, <2>3, <3>1, <3>2, <3>3, <3>4, GoesOn
    <2>7. TempsOK'
      <3>1. \A q \in Processes : Committing(q)' =>
               /\ q # p /\ Committing(q) /\ local'[q] = local[q] /\ pc'[q] = pc[q]
        BY <2>1, <2>2, <2>3 DEF Committing
      <3>2. \A q \in Processes : pc'[q] = "replace" => Committing(q)'
        BY DEF Committing
      <3>3. \A t \in temps' : \E q \in Processes : Committing(q)' /\ local'[q].tmp = t.name
        <4>1. SUFFICES ASSUME NEW t \in temps'
                       PROVE  \E q \in Processes : Committing(q)' /\ local'[q].tmp = t.name
          OBVIOUS
        <4>2. PICK q \in Processes : Committing(q) /\ local[q].tmp = t.name
          BY <2>5, <4>1 DEF TempsOK
        <4>3. q # p
          BY <1>1, <4>1, <4>2
        <4> QED
          BY <2>1, <2>2, <4>2, <4>3 DEF Committing
      <3>4. \A q \in Processes, t \in temps' :
               pc'[q] = "replace" /\ t.name = local'[q].tmp => t.content = Valid(local'[q].position)
        BY <2>5, <3>1, <3>2 DEF TempsOK
      <3>5. /\ \A q \in Processes :
                  Committing(q)' => \E i \in DOMAIN issued'[q] : issued'[q][i] = local'[q].tmp
            /\ \A q, r \in Processes :
                  q # r /\ Committing(q)' /\ Committing(r)' => local'[q].tmp # local'[r].tmp
            /\ \A t, u \in temps' : t.name = u.name => t = u
            /\ orphans' <= faults'
        BY <1>1, <2>5, <3>1 DEF TempsOK
      <3> QED
        BY <3>3, <3>4, <3>5 DEF TempsOK
    <2> QED
      BY <2>3, <2>6, <2>7, UlidsSame
  <1> QED
    BY <1>2, <1>3 DEF Finish, Returns

LEMMA ReplaceStep ==
    ASSUME CursorInv, NEW p \in Processes, Replace(p)
    PROVE  CursorInv'
  <1> USE DEF CursorInv
  <1> DEFINE n == local[p].position
             s == job[p].on
  <1>1. PICK t \in temps : /\ t.name = local[p].tmp
                           /\ temps' = temps \ {t}
                           /\ file' = [file EXCEPT ![Path(p)] = t.content]
    BY DEF Replace
  <1>2. /\ pc[p] = "replace" /\ pc' = [pc EXCEPT ![p] = "done"]
        /\ reached' = IF job[p].kind = "reset"
                      THEN [reached EXCEPT ![s] = Max({@, n})] ELSE reached
        /\ UNCHANGED <<job, orphans, local, shared, faults, issued>> /\ UNCHANGED ulidVars
    BY DEF Replace, Goto, bounds, ulidVars
  <1>3. /\ pc' \in [Processes -> Places] /\ pc'[p] = "done"
        /\ \A q \in Processes : q # p => pc'[q] = pc[q]
    BY <1>2 DEF CursorTypes, Places
  <1>4. /\ job[p].kind \in {"run", "reset"} /\ s \in Strategies /\ Path(p) \in Files
        /\ Path(p) = FileOf[s] /\ Commits(p) /\ Started(p)
    BY <1>2, Working DEF JobOK, Committing, Commits, Started, Path, PathFor
  <1>5. /\ n \in Int /\ n \in Positions /\ t.content = Valid(n) /\ t.content \in Cursors
        /\ t.content.sequence = n
    BY <1>1, <1>2, Remembered, Constants DEF TempsOK, Valid
  <1>6. /\ file' \in [Files -> Cursors] /\ file'[Path(p)].sequence = n
        /\ \A f \in Files : f # Path(p) => file'[f] = file[f]
    BY <1>1, <1>4, <1>5 DEF CursorTypes
  <1>7. /\ reached' \in [Strategies -> Int]
        /\ \A r \in Strategies : reached'[r] >= reached[r]
        /\ job[p].kind = "reset" => reached'[s] >= n
    <2>1. reached \in [Strategies -> Int]
      BY DEF CursorTypes
    <2>2. /\ Max({reached[s], n}) \in Int
          /\ Max({reached[s], n}) >= reached[s] /\ Max({reached[s], n}) >= n
      BY <1>4, <1>5, <2>1, Larger
    <2>3. CASE job[p].kind = "reset"
      <3>1. reached' = [reached EXCEPT ![s] = Max({reached[s], n})]
        BY <1>2, <2>3
      <3> HIDE DEF n
      <3> QED
        BY <1>4, <2>1, <2>2, <3>1
    <2>4. CASE job[p].kind # "reset"
      BY <1>2, <2>1, <2>4
    <2> QED
      BY <2>3, <2>4
  <1>8. \A q \in Processes : From(q)' = From(q) /\ (q # p => (Committing(q)' <=> Committing(q)))
    <2>1. From(p)' = From(p)
      BY <1>2, <1>3 DEF From
    <2>2. \A q \in Processes : q # p => From(q)' = From(q) /\ (Committing(q)' <=> Committing(q))
      BY <1>2, <1>3 DEF From, Committing
    <2> QED
      BY <2>1, <2>2
  <1>9. ~Aliased(s) => n <= reached'[s]
    <2>1. CASE job[p].kind = "run"
      <3>1. ~Aliased(s) => n <= reached[s]
        BY <1>2, <2>1 DEF HonestOK, From
      <3> QED
        BY <1>2, <2>1, <3>1
    <2>2. CASE job[p].kind = "reset"
      BY <1>5, <1>4, <1>7, <2>2
    <2> QED
      BY <1>4, <2>1, <2>2
  <1>10. CursorTypes'
    BY <1>1, <1>2, <1>3, <1>6, <1>7 DEF CursorTypes
  <1>11. JobOK'
    <2>1. SUFFICES ASSUME NEW q \in Processes
                   PROVE  /\ pc'[q] = "down" <=> job'[q] = NoJob
                          /\ pc'[q] = "handle" => job'[q].kind = "run"
                          /\ pc'[q] = "commit" \/ Committing(q)' => Commits(q)'
                          /\ pc'[q] \in {"write", "replace"} => local'[q].attempt >= 1
                          /\ job'[q].kind = "run" /\ Started(q)' => local'[q].position >= 0
      BY DEF JobOK
    <2>2. CASE q = p
      BY <1>2, <1>3, <1>4, <2>2, SameJob DEF JobOK
    <2>3. CASE q # p
      BY <1>2, <1>3, <2>3, Elsewhere DEF JobOK
    <2> QED
      BY <2>2, <2>3
  <1>12. TempsOK'
    <2>1. Committing(p) /\ Committing(p)'
      BY <1>2, <1>3 DEF Committing
    <2>2. \A q \in Processes : Committing(q)' <=> Committing(q)
      BY <1>3, <2>1 DEF Committing
    <2>3. \A q \in Processes : pc'[q] = "replace" => pc[q] = "replace"
      BY <1>3
    <2>4. temps' \subseteq temps
      BY <1>1
    <2>5. /\ \A q \in Processes :
                Committing(q)' => \E i \in DOMAIN issued'[q] : issued'[q][i] = local'[q].tmp
          /\ \A q, r \in Processes :
                q # r /\ Committing(q)' /\ Committing(r)' => local'[q].tmp # local'[r].tmp
          /\ orphans' <= faults'
      BY <1>2, <2>2 DEF TempsOK
    <2>6. /\ \A u, v \in temps' : u.name = v.name => u = v
          /\ \A u \in temps' : \E q \in Processes : Committing(q)' /\ local'[q].tmp = u.name
          /\ \A q \in Processes, u \in temps' :
                pc'[q] = "replace" /\ u.name = local'[q].tmp =>
                    u.content = Valid(local'[q].position)
      BY <1>2, <2>2, <2>3, <2>4 DEF TempsOK
    <2> QED
      BY <2>5, <2>6 DEF TempsOK
  <1>13. HonestOK'
    <2>1. SUFFICES /\ \A r \in Strategies :
                         ~Aliased(r) => file'[FileOf[r]].sequence <= reached'[r]
                   /\ \A q \in Processes :
                         job'[q].kind = "run" /\ ~Aliased(job'[q].on) =>
                            From(q)' <= reached'[job'[q].on]
      BY DEF HonestOK, CursorHonest, Aliased
    <2>2. ASSUME NEW r \in Strategies, ~Aliased(r)
          PROVE  file'[FileOf[r]].sequence <= reached'[r]
      <3>1. FileOf[r] \in Files
        BY DEF Files
      <3>2. CASE FileOf[r] = Path(p)
        <4>1. r = s
          BY <1>4, <2>2, <3>2 DEF Aliased
        <4> QED
          BY <1>6, <1>9, <2>2, <3>2, <4>1
      <3>3. CASE FileOf[r] # Path(p)
        <4>1. file[FileOf[r]].sequence <= reached[r]
          BY <2>2 DEF HonestOK, CursorHonest
        <4>2. file[FileOf[r]].sequence \in Int /\ reached[r] \in Int /\ reached'[r] \in Int
          BY <1>7, <3>1, Stored DEF CursorTypes
        <4>3. file'[FileOf[r]] = file[FileOf[r]] /\ reached'[r] >= reached[r]
          BY <1>6, <1>7, <3>1, <3>3
        <4> QED
          BY <4>1, <4>2, <4>3
      <3> QED
        BY <3>2, <3>3
    <2>3. ASSUME NEW q \in Processes, job'[q].kind = "run", ~Aliased(job'[q].on)
          PROVE  From(q)' <= reached'[job'[q].on]
      <3>1. job'[q] = job[q] /\ job[q].on \in Strategies
        BY <1>2, <2>3, Constants, Working DEF JobOK
      <3>2. From(q) <= reached[job[q].on] /\ From(q) \in Int
        BY <2>3, <3>1, Remembered DEF HonestOK
      <3>3. /\ reached[job[q].on] \in Int /\ reached'[job[q].on] \in Int
            /\ reached'[job[q].on] >= reached[job[q].on]
        BY <1>7, <3>1 DEF CursorTypes
      <3>4. From(q)' = From(q)
        <4>1. CASE q = p
          BY <1>2, <1>3, <4>1 DEF From
        <4>2. CASE q # p
          BY <1>2, <1>3, <4>2, Elsewhere
        <4> QED
          BY <4>1, <4>2
      <3> QED
        BY <3>1, <3>2, <3>3, <3>4
    <2> QED
      BY <2>2, <2>3
  <1>14. AheadOK'
    <2>1. SUFFICES /\ \A q, r \in Processes : \A f \in Files :
                         q # r /\ Uses(q, f)' /\ Uses(r, f)' /\ (Commits(q)' \/ Commits(r)')
                            => f \in shared'
                   /\ \A q \in Processes :
                         job'[q].kind = "run" /\ Path(q)' \notin shared' =>
                            file'[Path(q)'].sequence <= From(q)'
      BY DEF AheadOK
    <2>2. ASSUME NEW q \in Processes, NEW r \in Processes, NEW f \in Files, q # r,
                 Uses(q, f)', Uses(r, f)', Commits(q)' \/ Commits(r)'
          PROVE  f \in shared'
      <3>1. Uses(q, f) /\ Uses(r, f) /\ (Commits(q) \/ Commits(r))
        BY <1>2, <2>2, SameJob
      <3> QED
        BY <1>2, <2>2, <3>1 DEF AheadOK
    <2>3. ASSUME NEW q \in Processes, job'[q].kind = "run", Path(q)' \notin shared'
          PROVE  file'[Path(q)'].sequence <= From(q)'
      <3>1. job[q].kind = "run" /\ Path(q)' = Path(q) /\ Path(q) \notin shared
        BY <1>2, <2>3, SameJob
      <3>2. Path(q) \in Files
        BY <3>1, Constants, Working DEF JobOK
      <3>3. CASE q = p
        <4>1. From(p)' = n
          BY <1>2, <1>3 DEF From
        <4> QED
          BY <1>5, <1>6, <3>1, <3>3, <4>1
      <3>4. CASE q # p
        <4>1. Path(q) # Path(p)
          BY <1>4, <3>1, <3>2, <3>4 DEF AheadOK, Uses, Commits, CursorKinds
        <4>2. From(q)' = From(q)
          BY <1>2, <1>3, <3>4, Elsewhere
        <4> QED
          BY <1>6, <3>1, <3>2, <4>1, <4>2 DEF AheadOK
      <3> QED
        BY <3>3, <3>4
    <2> QED
      BY <2>2, <2>3
  <1> QED
    BY <1>2, <1>10, <1>11, <1>12, <1>13, <1>14, UlidsSame

LEMMA OpenStep ==
    ASSUME CursorInv, NEW p \in Processes, NEW j \in CursorJobs, Open(p, j)
    PROVE  CursorInv'
  <1> USE DEF CursorInv
  <1> DEFINE g == PathFor(j.on)
  <1>1. /\ pc[p] = "down" /\ job' = [job EXCEPT ![p] = j] /\ pc' = [pc EXCEPT ![p] = "read"]
        /\ UNCHANGED <<file, temps, orphans, reached, faults, issued>> /\ UNCHANGED ulidVars
    BY DEF Open, Start, Goto, ulidVars
  <1>2. /\ job' \in [Processes -> CursorJobs \cup {NoJob}] /\ job'[p] = j
        /\ pc' \in [Processes -> Places] /\ pc'[p] = "read"
        /\ \A q \in Processes : q # p => pc'[q] = pc[q] /\ job'[q] = job[q]
    BY <1>1 DEF CursorTypes, Places
  <1>3. /\ Path(p)' = g /\ g \in Files /\ j.on \in Strategies /\ g = FileOf[j.on]
        /\ j.kind \in {"run", "show", "reset"}
    BY <1>2, Jobs DEF Path, PathFor
  <1>4. /\ local' \in [Processes -> Memory] /\ local'[p].seen = file[g]
        /\ \A q \in Processes : q # p => local'[q] = local[q]
    <2>1. Remember(p, "seen", file[g])
      BY <1>1, <1>3 DEF Open
    <2> QED
      BY <1>3, <2>1, Stored, Fields
  <1>5. ~Committing(p) /\ ~Committing(p)' /\ ~Started(p)'
    BY <1>1, <1>2 DEF Committing, Started
  <1>6. /\ shared' \subseteq Files /\ shared \subseteq shared'
        /\ \A q \in Processes :
              q # p /\ Uses(q, g) /\ (Commits(p)' \/ Commits(q)) => g \in shared'
    <2>1. shared' = IF \E q \in Processes \ {p} : Uses(q, g) /\ (Commits(p)' \/ Commits(q))
                    THEN shared \cup {g} ELSE shared
      BY <1>3 DEF Open
    <2> HIDE DEF g
    <2> QED
      BY <1>3, <2>1 DEF CursorTypes
  <1>7. CursorTypes'
    BY <1>1, <1>2, <1>4, <1>6 DEF CursorTypes
  <1>8. JobOK'
    <2>1. SUFFICES ASSUME NEW q \in Processes
                   PROVE  /\ pc'[q] = "down" <=> job'[q] = NoJob
                          /\ pc'[q] = "handle" => job'[q].kind = "run"
                          /\ pc'[q] = "commit" \/ Committing(q)' => Commits(q)'
                          /\ pc'[q] \in {"write", "replace"} => local'[q].attempt >= 1
                          /\ job'[q].kind = "run" /\ Started(q)' => local'[q].position >= 0
      BY DEF JobOK
    <2>2. CASE q = p
      BY <1>2, <1>5, <2>2, Constants
    <2>3. CASE q # p
      BY <1>2, <1>4, <2>3, Elsewhere DEF JobOK
    <2> QED
      BY <2>2, <2>3
  <1>9. TempsOK'
    BY <1>1, <1>2, <1>4, <1>5, TempsSame DEF CursorTypes
  <1>10. HonestOK'
    <2>1. CursorHonest'
      BY <1>1 DEF HonestOK, CursorHonest, Aliased
    <2>2. ASSUME NEW q \in Processes, job'[q].kind = "run", ~Aliased(job'[q].on)
          PROVE  From(q)' <= reached'[job'[q].on]
      <3>1. CASE q = p
        <4>1. From(p)' = file[FileOf[j.on]].sequence
          BY <1>2, <1>3, <1>4 DEF From
        <4> QED
          BY <1>1, <1>2, <1>3, <2>2, <3>1, <4>1 DEF HonestOK, CursorHonest
      <3>2. CASE q # p
        BY <1>1, <1>2, <1>4, <2>2, <3>2, Elsewhere DEF HonestOK
      <3> QED
        BY <3>1, <3>2
    <2> QED
      BY <2>1, <2>2 DEF HonestOK, Aliased
  <1>11. AheadOK'
    <2>1. SUFFICES /\ \A q, r \in Processes : \A f \in Files :
                         q # r /\ Uses(q, f)' /\ Uses(r, f)' /\ (Commits(q)' \/ Commits(r)')
                            => f \in shared'
                   /\ \A q \in Processes :
                         job'[q].kind = "run" /\ Path(q)' \notin shared' =>
                            file'[Path(q)'].sequence <= From(q)'
      BY DEF AheadOK
    <2>2. ASSUME NEW q \in Processes, NEW r \in Processes, NEW f \in Files, q # r,
                 Uses(q, f)', Uses(r, f)', Commits(q)' \/ Commits(r)'
          PROVE  f \in shared'
      <3>1. Uses(p, f)' => f = g
        BY <1>3 DEF Uses
      <3>2. CASE q = p
        BY <1>2, <1>4, <1>6, <2>2, <3>1, <3>2, Elsewhere
      <3>3. CASE r = p
        BY <1>2, <1>4, <1>6, <2>2, <3>1, <3>3, Elsewhere
      <3>4. CASE q # p /\ r # p
        <4>1. Uses(q, f) /\ Uses(r, f) /\ (Commits(q) \/ Commits(r))
          BY <1>2, <1>4, <2>2, <3>4, Elsewhere
        <4> QED
          BY <1>6, <2>2, <4>1 DEF AheadOK
      <3> QED
        BY <3>2, <3>3, <3>4
    <2>3. ASSUME NEW q \in Processes, job'[q].kind = "run", Path(q)' \notin shared'
          PROVE  file'[Path(q)'].sequence <= From(q)'
      <3>1. CASE q = p
        <4>1. From(p)' = file[g].sequence
          BY <1>2, <1>4 DEF From
        <4> QED
          BY <1>1, <1>3, <3>1, <4>1, Stored
      <3>2. CASE q # p
        <4>1. /\ Path(q)' = Path(q) /\ From(q)' = From(q) /\ job[q].kind = "run"
              /\ Path(q) \notin shared
          BY <1>2, <1>4, <1>6, <2>3, <3>2, Elsewhere
        <4> QED
          BY <1>1, <4>1 DEF AheadOK
      <3> QED
        BY <3>1, <3>2
    <2> QED
      BY <2>2, <2>3
  <1> QED
    BY <1>1, <1>7, <1>8, <1>9, <1>10, <1>11, UlidsSame

-----------------------------------------------------------------------------
(* The invariant holds *)

LEMMA CursorInitial == CursorInit => CursorInv
  <1> SUFFICES ASSUME CursorInit PROVE CursorInv
    OBVIOUS
  <1> USE DEF CursorInit, UlidInit
  <1>1. CursorTypes
    BY Constants DEF CursorTypes, Places
  <1>2. UlidOK
    <2>1. <<>> \in Seq(Ulids) /\ DOMAIN <<>> = {}
      BY EmptySeq
    <2>2. issued \in [Processes -> Seq(Ulids)] /\ \A p \in Processes : issued[p] = <<>>
      BY <2>1
    <2>3. /\ clock = 0 /\ steppedBack = FALSE
          /\ lastMs = [p \in Processes |-> -1] /\ lastRandom = [p \in Processes |-> 0]
      OBVIOUS
    <2>4. clock \in 0 .. MaxClock /\ -1 \in -1 .. MaxClock /\ 0 \in 0 .. MaxRandom /\ -1 <= 0
      <3> HIDE DEF CursorInit, UlidInit
      <3> QED
        BY <2>3, UlidAssumption
    <2>5. steppedBack \in BOOLEAN
      BY <2>3, Zenon
    <2>6. UlidTypeOK
      <3> HIDE DEF CursorInit, UlidInit
      <3> QED
        BY <2>2, <2>3, <2>4, <2>5 DEF UlidTypeOK
    <2>7. UlidsOrdered
      BY <2>1, <2>2 DEF UlidsOrdered
    <2>8. \A p \in Processes : lastMs[p] <= clock
      BY <2>3, <2>4
    <2> QED
      BY <2>2, <2>6, <2>7, <2>8 DEF UlidOK
  <1>3. JobOK
    BY DEF JobOK, NoJob, Committing, Started
  <1>4. TempsOK
    BY DEF TempsOK, Committing
  <1>5. HonestOK
    BY DEF HonestOK, CursorHonest, Files, Absent, NoJob
  <1>6. AheadOK
    BY DEF AheadOK, Uses, NoJob, CursorKinds
  <1> QED
    BY <1>1, <1>2, <1>3, <1>4, <1>5, <1>6 DEF CursorInv

LEMMA CursorStuttering == ASSUME CursorInv, UNCHANGED cursorVars PROVE CursorInv'
  <1>1. /\ UNCHANGED <<pc, job, file, temps, local, reached, orphans, shared, faults, issued>>
        /\ UNCHANGED ulidVars
    BY DEF cursorVars, history, bounds, ulidVars
  <1>2. CursorTypes'
    BY <1>1 DEF CursorInv, CursorTypes
  <1>3. JobOK' /\ TempsOK'
    BY <1>1 DEF CursorInv, JobOK, TempsOK, Committing, Commits, Started
  <1>4. HonestOK' /\ AheadOK'
    BY <1>1 DEF CursorInv, HonestOK, CursorHonest, AheadOK, From, Uses, Commits, Path, Aliased
  <1> QED
    BY <1>1, <1>2, <1>3, <1>4, UlidsSame DEF CursorInv

LEMMA CursorStep == CursorInv /\ [CursorNext]_cursorVars => CursorInv'
  <1> SUFFICES ASSUME CursorInv, [CursorNext]_cursorVars PROVE CursorInv'
    OBVIOUS
  <1>1. CASE \E p \in Processes, j \in CursorJobs : Open(p, j)
    BY <1>1, OpenStep
  <1>2. CASE \E p \in Processes : Load(p) \/ Handle(p)
    BY <1>2, LoadCursorStep, HandleStep
  <1>3. CASE \E p \in Processes : StopRun(p) \/ NameOverflows(p)
    BY <1>3, StopStep
  <1>4. CASE \E p \in Processes : OpenTemp(p) \/ WriteTemp(p) \/ Replace(p)
    BY <1>4, OpenTempStep, WriteStep, ReplaceStep
  <1>5. CASE \E p \in Processes : ReplaceDenied(p) \/ CommitFails(p)
    BY <1>5, DeniedStep
  <1>6. CASE \E p \in Processes : Finish(p) \/ Crash(p)
    BY <1>6, FinishStep, CrashStep
  <1>7. CASE \E f \in Files : Corrupt(f)
    BY <1>7, CorruptStep
  <1>8. CASE UNCHANGED cursorVars
    BY <1>8, CursorStuttering
  <1> QED
    BY <1>1, <1>2, <1>3, <1>4, <1>5, <1>6, <1>7, <1>8 DEF CursorNext

LEMMA CursorInvariant == CursorSpec => []CursorInv
  BY CursorInitial, CursorStep, PTL DEF CursorSpec

\* Later calls of new_ulid() in one process return ULIDs that sort after earlier ones,
\* until the clock is set back, for every clock and draw.
THEOREM UlidsInOrder == CursorSpec => []UlidsOrdered
  <1>1. CursorInv => UlidsOrdered
    BY DEF CursorInv, UlidOK
  <1> QED
    BY <1>1, CursorInvariant, PTL

\* The cursor of an id that shares its file name with no other stands only for
\* signals the strategy handled or an operator skipped, whatever processes
\* crash, fail, commit over one another or are reset at any point of commit().
THEOREM CursorsAreHonest == CursorSpec => []CursorHonest
  <1>1. CursorInv => CursorHonest
    BY DEF CursorInv, HonestOK
  <1> QED
    BY <1>1, CursorInvariant, PTL

\* Every temporary file belongs to a commit in progress, or its process died.
THEOREM TempsAreRemoved == CursorSpec => []TempsRemoved
  <1>1. CursorInv => TempsRemoved
    BY DEF CursorInv, TempsOK, TempsRemoved
  <1> QED
    BY <1>1, CursorInvariant, PTL

-----------------------------------------------------------------------------
(* What a step may do *)

\* What a step of process p does to where it is and what it holds, and that it
\* leaves the other processes alone.
LEMMA Moves ==
    ASSUME CursorInv, CursorInv', NEW p \in Processes,
           \/ \E j \in CursorJobs : Open(p, j)
           \/ Load(p) \/ Handle(p) \/ StopRun(p)
           \/ OpenTemp(p) \/ NameOverflows(p) \/ WriteTemp(p)
           \/ Replace(p) \/ ReplaceDenied(p) \/ CommitFails(p)
           \/ Finish(p) \/ Crash(p)
    PROVE  /\ \A q \in Processes :
                 q # p => pc'[q] = pc[q] /\ job'[q] = job[q] /\ local'[q] = local[q]
           /\ \/ pc[p] = "down" /\ pc'[p] = "read" /\ UNCHANGED file
              \/ pc[p] = "read" /\ pc'[p] \in {"handle", "commit", "down"} /\ UNCHANGED file
              \/ pc[p] = "handle" /\ pc'[p] \in {"commit", "down"} /\ UNCHANGED file
              \/ /\ pc[p] = "commit" /\ pc'[p] = "write" /\ local'[p].attempt = 1
                 /\ job'[p] = job[p] /\ local'[p].position = local[p].position
                 /\ UNCHANGED file
              \/ pc[p] = "write" /\ pc'[p] = "replace" /\ UNCHANGED <<job, local, file>>
              \/ pc[p] = "replace" /\ pc'[p] = "done" /\ Replace(p)
              \/ /\ pc[p] = "replace" /\ pc'[p] = "replace" /\ UNCHANGED <<job, file>>
                 /\ local'[p].attempt = local[p].attempt + 1
                 /\ local'[p].position = local[p].position
              \/ /\ pc[p] \in {"write", "replace"} /\ pc'[p] = "raise" /\ UNCHANGED file
              \/ /\ pc[p] \in {"done", "raise"} /\ pc'[p] \in {"handle", "down"}
                 /\ UNCHANGED file
              \/ pc[p] # "down" /\ pc'[p] = "down" /\ UNCHANGED file
  <1>1. /\ pc \in [Processes -> Places] /\ local \in [Processes -> Memory]
        /\ job \in [Processes -> CursorJobs \cup {NoJob}] /\ CursorTypes
        /\ local' \in [Processes -> Memory]
    BY DEF CursorInv, CursorTypes
  <1> USE DEF Goto
  <1>2. CASE \E j \in CursorJobs : Open(p, j)
    BY <1>1, <1>2 DEF Open, Start, Remember
  <1>3. CASE Exit(p) /\ UNCHANGED file /\ pc[p] # "down"
    BY <1>1, <1>3 DEF Exit
  <1>4. CASE Load(p)
    <2>1. CASE Exit(p)
      BY <1>3, <1>4, <2>1 DEF Load
    <2>2. CASE ~Exit(p)
      <3>1. \E n : \E l \in {"handle", "commit"} :
               /\ local' = [local EXCEPT ![p] = n]
               /\ Goto(p, l) /\ UNCHANGED job
        <4>1. CASE job[p].kind = "run" /\ Loads(local[p].seen) # {}
          BY <1>4, <4>1 DEF Load
        <4>2. CASE ~(job[p].kind = "run" /\ Loads(local[p].seen) # {})
                     /\ job[p].kind = "reset" /\ local[p].seen.state # "undecodable"
          BY <1>4, <4>2 DEF Load
        <4>3. CASE /\ ~(job[p].kind = "run" /\ Loads(local[p].seen) # {})
                   /\ ~(job[p].kind = "reset" /\ local[p].seen.state # "undecodable")
          BY <1>4, <2>2, <4>3 DEF Load
        <4> QED
          BY <4>1, <4>2, <4>3
      <3>2. pc[p] = "read" /\ UNCHANGED file
        BY <1>4 DEF Load
      <3> QED
        BY <1>1, <3>1, <3>2
    <2> QED
      BY <2>1, <2>2
  <1>5. CASE Handle(p)
    BY <1>1, <1>5 DEF Handle, Remember
  <1>6. CASE StopRun(p) \/ NameOverflows(p) \/ Crash(p)
    BY <1>3, <1>6 DEF StopRun, NameOverflows, Crash
  <1>7. CASE OpenTemp(p)
    <2>1. PICK id \in Ulids : local' = [local EXCEPT ![p].tmp = id, ![p].attempt = 1]
      BY <1>7 DEF OpenTemp
    <2>2. /\ local'[p].attempt = 1 /\ local'[p].position = local[p].position
          /\ \A q \in Processes : q # p => local'[q] = local[q]
      BY <1>1, <2>1 DEF Memory
    <2> QED
      BY <1>1, <1>7, <2>2 DEF OpenTemp
  <1>8. CASE WriteTemp(p)
    BY <1>1, <1>8 DEF WriteTemp
  <1>9. CASE Replace(p)
    BY <1>1, <1>9 DEF Replace
  <1>10. CASE ReplaceDenied(p)
    <2>1. CASE Goto(p, "raise") /\ UNCHANGED local
      BY <1>1, <1>10, <2>1 DEF ReplaceDenied, Denied
    <2>2. CASE /\ local[p].attempt # ReplaceAttempts /\ UNCHANGED pc
               /\ Remember(p, "attempt", local[p].attempt + 1)
      <3>1. local[p].attempt + 1 \in 0 .. ReplaceAttempts
        BY <1>1, <2>2, Remembered, Constants
      <3>2. /\ local'[p].attempt = local[p].attempt + 1
            /\ local'[p].position = local[p].position
            /\ \A q \in Processes : q # p => local'[q] = local[q]
        BY <1>1, <2>2, <3>1, Fields
      <3> QED
        BY <1>10, <2>2, <3>2 DEF ReplaceDenied, Denied
    <2> QED
      BY <1>10, <2>1, <2>2 DEF ReplaceDenied
  <1>11. CASE CommitFails(p)
    BY <1>1, <1>11 DEF CommitFails
  <1>12. CASE Finish(p)
    <2>1. pc[p] \in {"done", "raise"} /\ UNCHANGED file
      BY <1>12 DEF Finish
    <2>2. CASE Exit(p)
      BY <1>3, <2>1, <2>2
    <2>3. CASE /\ Goto(p, "handle") /\ UNCHANGED job
               /\ local' = [local EXCEPT ![p].tmp = NoName, ![p].attempt = 0]
      BY <1>1, <2>1, <2>3
    <2> QED
      BY <1>12, <2>2, <2>3 DEF Finish, Returns
  <1> QED
    BY <1>2, <1>4, <1>5, <1>6, <1>7, <1>8, <1>9, <1>10, <1>11, <1>12

\* Only the two steps that move a cursor in or damage it change a file.
LEMMA FileChanges ==
    ASSUME CursorInv, [CursorNext]_cursorVars
    PROVE  \/ UNCHANGED file
           \/ \E p \in Processes : Replace(p)
           \/ \E f \in Files : Corrupt(f)
  <1>1. CASE \E p \in Processes :
               \/ \E j \in CursorJobs : Open(p, j)
               \/ Load(p) \/ Handle(p) \/ StopRun(p)
               \/ OpenTemp(p) \/ NameOverflows(p) \/ WriteTemp(p)
               \/ Replace(p) \/ ReplaceDenied(p) \/ CommitFails(p)
               \/ Finish(p) \/ Crash(p)
    BY <1>1, CursorStep, Moves
  <1>2. CASE UNCHANGED cursorVars
    BY <1>2 DEF cursorVars
  <1> QED
    BY <1>1, <1>2 DEF CursorNext

\* Never silently reset: in a file no two processes used at once, only "cursor reset"
\* moves the cursor back, whatever was damaged, crashed or failed in between.
THEOREM NoSilentReset == CursorSpec => NeverSilentlyReset
  <1>1. CursorInv /\ [CursorNext]_cursorVars =>
            \A f \in Files :
                f \notin shared' /\ file'[f].sequence < file[f].sequence =>
                    \E p \in Processes : job[p].kind = "reset" /\ Path(p) = f /\ pc[p] = "replace"
    <2> SUFFICES ASSUME CursorInv, [CursorNext]_cursorVars, NEW f \in Files, f \notin shared',
                        file'[f].sequence < file[f].sequence
                 PROVE  \E p \in Processes :
                            job[p].kind = "reset" /\ Path(p) = f /\ pc[p] = "replace"
      OBVIOUS
    <2>1. file[f].sequence \in Int /\ file \in [Files -> Cursors]
      BY Stored DEF CursorInv, CursorTypes
    <2>2. ~UNCHANGED file
      BY <2>1
    <2>3. ASSUME NEW g \in Files, Corrupt(g) PROVE FALSE
      <3>1. PICK damage \in {"torn", "undecodable"} : file' = [file EXCEPT ![g].state = damage]
        BY <2>3 DEF Corrupt
      <3>2. file'[f].sequence = file[f].sequence
        BY <2>1, <3>1 DEF Cursors
      <3> QED
        BY <2>1, <3>2
    <2>4. PICK p \in Processes : Replace(p)
      BY <2>2, <2>3, FileChanges
    <2>5. pc[p] = "replace" /\ Committing(p) /\ Commits(p) /\ shared' = shared
      BY <2>4 DEF Replace, Committing, CursorInv, JobOK
    <2>6. PICK t \in temps : t.name = local[p].tmp /\ file' = [file EXCEPT ![Path(p)] = t.content]
      BY <2>4 DEF Replace
    <2>7. t.content.sequence = From(p) /\ From(p) \in Int
      <3>1. t.content = Valid(local[p].position)
        BY <2>5, <2>6 DEF CursorInv, TempsOK
      <3>2. From(p) = local[p].position /\ From(p) \in Int
        BY <2>5, Remembered DEF CursorInv, From
      <3> QED
        BY <3>1, <3>2 DEF Valid
    <2>8. Path(p) = f
      BY <2>1, <2>6
    <2>9. file'[f].sequence = From(p)
      BY <2>1, <2>6, <2>7, <2>8
    <2>10. job[p].kind # "run"
      BY <2>1, <2>5, <2>7, <2>8, <2>9 DEF CursorInv, AheadOK
    <2> QED
      BY <2>5, <2>8, <2>10 DEF Commits
  <1> QED
    BY <1>1, CursorInvariant, PTL DEF CursorSpec, NeverSilentlyReset

\* commit() ends after a bounded number of operations, though a reader never closes
\* the file, for every number of attempts.
THEOREM CommitIsBounded == CursorSpec => CommitEnds
  <1>1. CursorInv /\ [CursorNext]_cursorVars =>
            \A p \in Processes :
                StepsLeft(p) > 0 /\ <<pc[p], local[p]>>' # <<pc[p], local[p]>>
                    => StepsLeft(p)' < StepsLeft(p)
    <2> SUFFICES ASSUME CursorInv, [CursorNext]_cursorVars, NEW p \in Processes,
                        StepsLeft(p) > 0, <<pc[p], local[p]>>' # <<pc[p], local[p]>>
                 PROVE  StepsLeft(p)' < StepsLeft(p)
      OBVIOUS
    <2>1. /\ ReplaceAttempts \in Nat /\ local[p].attempt \in 0 .. ReplaceAttempts
          /\ pc[p] \in {"write", "replace"} => local[p].attempt >= 1
      BY Constants, Remembered DEF CursorInv, JobOK
    <2>2. ~(\E f \in Files : Corrupt(f)) /\ ~UNCHANGED cursorVars
      BY DEF Corrupt, cursorVars
    <2>3. PICK q \in Processes :
               \/ \E j \in CursorJobs : Open(q, j)
               \/ Load(q) \/ Handle(q) \/ StopRun(q)
               \/ OpenTemp(q) \/ NameOverflows(q) \/ WriteTemp(q)
               \/ Replace(q) \/ ReplaceDenied(q) \/ CommitFails(q)
               \/ Finish(q) \/ Crash(q)
      BY <2>2 DEF CursorNext
    <2>4. CursorInv'
      BY CursorStep
    <2>5. q = p
      BY <2>3, <2>4, Moves
    <2>6. /\ local'[p].attempt \in 0 .. ReplaceAttempts
          /\ pc'[p] \in {"write", "replace"} => local'[p].attempt >= 1
      BY <2>4 DEF CursorInv, CursorTypes, Memory, JobOK
    <2>7. /\ pc[p] = "commit" => StepsLeft(p) = ReplaceAttempts + 3
          /\ pc[p] = "write" => StepsLeft(p) = ReplaceAttempts + 2
          /\ pc[p] = "replace" => StepsLeft(p) = ReplaceAttempts + 2 - local[p].attempt
          /\ pc[p] \in {"done", "raise"} => StepsLeft(p) = 1
          /\ pc[p] \in {"down", "read", "handle"} => StepsLeft(p) = 0
      BY DEF StepsLeft
    <2>8. /\ pc'[p] = "write" => StepsLeft(p)' = ReplaceAttempts + 2
          /\ pc'[p] = "replace" => StepsLeft(p)' = ReplaceAttempts + 2 - local'[p].attempt
          /\ pc'[p] \in {"done", "raise"} => StepsLeft(p)' = 1
          /\ pc'[p] \in {"down", "handle"} => StepsLeft(p)' = 0
      BY DEF StepsLeft
    <2>9. pc[p] \notin {"down", "read", "handle"} /\ pc[p] \in Places
      BY <2>7 DEF CursorInv, CursorTypes
    <2>10. \/ pc[p] = "commit" /\ pc'[p] = "write"
           \/ pc[p] = "write" /\ pc'[p] = "replace"
           \/ pc[p] = "replace" /\ pc'[p] = "done"
           \/ /\ pc[p] = "replace" /\ pc'[p] = "replace"
              /\ local'[p].attempt = local[p].attempt + 1
           \/ pc[p] \in {"write", "replace"} /\ pc'[p] = "raise"
           \/ pc[p] \in {"done", "raise"} /\ pc'[p] = "handle"
           \/ pc'[p] = "down"
      BY <2>3, <2>4, <2>5, <2>9, Moves
    <2> QED
      BY <2>1, <2>6, <2>7, <2>8, <2>9, <2>10 DEF Places
  <1> QED
    BY <1>1, CursorInvariant, PTL DEF CursorSpec, CommitEnds

-----------------------------------------------------------------------------
(* commit() is atomic *)

Pending ==
    [p \in Processes |-> IF pc[p] \in {"write", "replace"}
                         THEN [file |-> Path(p), value |-> Valid(local[p].position)]
                         ELSE NoJob]

LEMMA Requested ==
    ASSUME NEW f, NEW v
    PROVE  [file |-> f, value |-> v] # NoJob
  <1>1. "file" \in DOMAIN [file |-> f, value |-> v]
    OBVIOUS
  <1>2. "file" \notin DOMAIN NoJob
    BY DEF NoJob
  <1> QED
    BY <1>1, <1>2

LEMMA OthersPending ==
    ASSUME NEW p \in Processes, NEW v,
           \A q \in Processes : q # p => /\ pc'[q] = pc[q] /\ job'[q] = job[q]
                                        /\ local'[q] = local[q],
           Pending'[p] = v
    PROVE  Pending' = [Pending EXCEPT ![p] = v]
  <1>1. \A q \in Processes : q # p => Pending'[q] = Pending[q]
    BY DEF Pending, Path, PathFor
  <1>2. /\ Pending' = [q \in Processes |-> Pending'[q]]
        /\ Pending = [q \in Processes |-> Pending[q]]
    BY DEF Pending
  <1> HIDE DEF Pending
  <1> QED
    BY <1>1, <1>2

LEMMA DamagedCursor ==
    ASSUME NEW c \in Cursors, NEW s
    PROVE  [c EXCEPT !.state = s] = [state |-> s, sequence |-> c.sequence]
  BY DEF Cursors

LEMMA RegisterInitial == CursorInit => Register!Init
  BY DEF CursorInit, Register!Init

LEMMA RegisterStep ==
    ASSUME CursorInv, [CursorNext]_cursorVars
    PROVE  [Register!Next]_Register!registerVars
  <1>1. CASE UNCHANGED cursorVars
    BY <1>1 DEF cursorVars, Register!registerVars, Path, PathFor
  <1>2. CASE \E f \in Files : Corrupt(f)
    <2>1. PICK f \in Files, damage \in {"torn", "undecodable"} :
              file' = [file EXCEPT ![f].state = damage]
      BY <1>2 DEF Corrupt
    <2>2. UNCHANGED <<pc, job, local>>
      BY <1>2 DEF Corrupt
    <2>3. file[f] \in Cursors /\ file \in [Files -> Cursors]
      BY DEF CursorInv, CursorTypes
    <2> DEFINE d == [state |-> damage, sequence |-> file[f].sequence]
    <2>4. d \in [state : {"torn", "undecodable"}, sequence : Positions]
      BY <2>3 DEF Cursors
    <2>5. file' = [file EXCEPT ![f] = d]
      <3>1. [file[f] EXCEPT !.state = damage] = d
        BY <2>3, DamagedCursor
      <3> QED
        BY <2>1, <3>1
    <2> HIDE DEF d
    <2>6. Register!DamageFile
      BY <2>2, <2>3, <2>4, <2>5 DEF Register!DamageFile, Positions, Path, PathFor
    <2> QED
      BY <2>6 DEF Register!Next
  <1>3. ASSUME NEW p \in Processes,
               \/ \E j \in CursorJobs : Open(p, j)
               \/ Load(p) \/ Handle(p) \/ StopRun(p)
               \/ OpenTemp(p) \/ NameOverflows(p) \/ WriteTemp(p)
               \/ Replace(p) \/ ReplaceDenied(p) \/ CommitFails(p)
               \/ Finish(p) \/ Crash(p)
        PROVE  [Register!Next]_Register!registerVars
    <2>1. CursorInv'
      BY <1>3, CursorStep DEF CursorNext
    <2>2. \A q \in Processes : q # p => /\ pc'[q] = pc[q] /\ job'[q] = job[q]
                                        /\ local'[q] = local[q]
      BY <1>3, <2>1, Moves
    <2>3. CASE pc'[p] \notin {"write", "replace"} /\ UNCHANGED file
      <3>1. Pending'[p] = NoJob
        BY <2>3 DEF Pending
      <3>2. Pending' = [Pending EXCEPT ![p] = NoJob]
        BY <2>2, <3>1, OthersPending
      <3>3. Register!Fail(p)
        BY <2>3, <3>2 DEF Register!Fail, Pending
      <3> QED
        BY <3>3 DEF Register!Next
    <2>4. CASE /\ pc[p] = "commit" /\ pc'[p] = "write" /\ job'[p] = job[p]
               /\ local'[p].position = local[p].position /\ UNCHANGED file
      <3> DEFINE r == [file |-> Path(p), value |-> Valid(local[p].position)]
      <3>1. Pending[p] = NoJob /\ Pending'[p] = r
        BY <2>4 DEF Pending, Path
      <3>2. Pending' = [Pending EXCEPT ![p] = r]
        BY <2>2, <3>1, OthersPending
      <3>3. Path(p) \in Files /\ local[p].position \in Positions
        BY <2>4, Working, Remembered DEF CursorInv
      <3>4. r \in [file : Files, value : {Valid(n) : n \in Positions}]
        BY <3>3
      <3>5. Register!Begin(p)
        BY <2>4, <3>1, <3>2, <3>4 DEF Register!Begin, Pending, Positions
      <3> QED
        BY <3>5 DEF Register!Next
    <2>5. CASE /\ pc[p] \in {"write", "replace"} /\ pc'[p] = "replace" /\ job'[p] = job[p]
               /\ local'[p].position = local[p].position /\ UNCHANGED file
      <3>1. Pending'[p] = Pending[p]
        BY <2>5 DEF Pending, Path, PathFor
      <3>2. Pending' = [Pending EXCEPT ![p] = Pending[p]]
        BY <2>2, <3>1, OthersPending
      <3>3. Pending' = Pending
        BY <3>2 DEF Pending
      <3> QED
        BY <2>5, <3>3 DEF Register!registerVars, Pending
    <2>6. CASE pc[p] = "replace" /\ pc'[p] = "done" /\ Replace(p)
      <3>1. PICK t \in temps : t.name = local[p].tmp /\ file' = [file EXCEPT ![Path(p)] = t.content]
        BY <2>6 DEF Replace
      <3>2. t.content = Valid(local[p].position)
        BY <2>6, <3>1 DEF CursorInv, TempsOK
      <3>3. /\ Pending[p] = [file |-> Path(p), value |-> Valid(local[p].position)]
            /\ Pending[p] # NoJob /\ Pending'[p] = NoJob
        BY <2>6, Requested DEF Pending
      <3>4. Pending' = [Pending EXCEPT ![p] = NoJob]
        BY <2>2, <3>3, OthersPending
      <3>5. file' = [file EXCEPT ![Pending[p].file] = Pending[p].value]
        <4>1. Pending[p].file = Path(p) /\ Pending[p].value = Valid(local[p].position)
          BY <3>3
        <4> QED
          BY <3>1, <3>2, <4>1
      <3>6. Register!Succeed(p)
        BY <3>3, <3>4, <3>5 DEF Register!Succeed, Pending
      <3> QED
        BY <3>6 DEF Register!Next
    <2> QED
      BY <1>3, <2>1, <2>3, <2>4, <2>5, <2>6, Moves
  <1> QED
    BY <1>1, <1>2, <1>3 DEF CursorNext

\* commit() replaces the cursor in one step or not at all: every behaviour of the
\* store, its processes and their faults is one of CursorRegister.
THEOREM CommitIsAtomic == CursorSpec => ImplementsRegister
  <1>1. CursorInv /\ [CursorNext]_cursorVars => [Register!Next]_Register!registerVars
    BY RegisterStep
  <1> QED
    BY <1>1, RegisterInitial, CursorInvariant, PTL
    DEF CursorSpec, ImplementsRegister, Register!Spec

-----------------------------------------------------------------------------
(* LocalFiles *)

\* Commands on cursors and on keys are the whole of a behaviour of LocalFiles, each
\* taken by itself.
THEOREM LocalImplements == LocalSpec => CursorSpec /\ KeySpec
  <1>1. LocalInit => CursorInit /\ KeyInit
    BY DEF LocalInit
  <1>2. [LocalNext]_localVars => [CursorNext]_cursorVars /\ [KeyNext]_keyVars
    BY DEF LocalNext, localVars
  <1> QED
    BY <1>1, <1>2, PTL DEF LocalSpec, CursorSpec, KeySpec

\* Type correctness of ids, cursors, commits in progress and key files.
THEOREM LocalTypes == LocalSpec => []TypeOK
  <1>1. CursorInv => UlidTypeOK /\ CursorTypeOK
    BY DEF CursorInv, UlidOK, CursorTypes, JobOK, TempsOK, CursorTypeOK, Cursors, Positions
  <1>2. UlidTypeOK /\ CursorTypeOK /\ KeyTypeOK => TypeOK
    BY DEF TypeOK
  <1> QED
    BY <1>1, <1>2, LocalImplements, CursorInvariant, KeyTypes, PTL

=============================================================================
