-------------------------------- MODULE Ulid ---------------------------------
(***************************************************************************)
(* new_ulid() (ulid.py): one generator per process, under a lock, fed by   *)
(* the wall clock, which may be stepped back.  A ULID is the pair of its   *)
(* millisecond and its random part; the fixed-width base32 text sorts as   *)
(* the pair does.                                                          *)
(***************************************************************************)
EXTENDS Integers, Sequences

CONSTANTS
    Processes,    \* each with its own generator
    MaxClock,     \* bound on the wall clock, in milliseconds
    Draws,        \* what secrets.randbits(80) & ~0xFFFF may return
    MaxRandom     \* _MAX_RANDOM

ASSUME UlidAssumption ==
    /\ MaxClock \in Nat /\ MaxRandom \in Nat
    /\ Draws \subseteq 0 .. MaxRandom

VARIABLES
    clock,        \* the last time.time_ns() read, in milliseconds
    steppedBack,  \* history: the clock has been set back
    lastMs,       \* _last_ms of each process
    lastRandom,   \* _last_random of each process
    issued        \* history: the ULIDs each process has returned, in order

ulidVars == <<clock, steppedBack, lastMs, lastRandom, issued>>

UlidInit ==
    /\ clock = 0
    /\ steppedBack = FALSE
    /\ lastMs = [p \in Processes |-> -1]
    /\ lastRandom = [p \in Processes |-> 0]
    /\ issued = [p \in Processes |-> <<>>]

Before(a, b) == a.ms < b.ms \/ (a.ms = b.ms /\ a.random < b.random)

\* Random parts of 80 bits, drawn independently, are taken to lead to no ULID twice
\* among the processes that are up.
Fresh(id) == \A p \in Processes : \A i \in DOMAIN issued[p] : issued[p][i] # id

\* The process ends; the next one imports the module afresh.
ForgetUlids(p) ==
    /\ lastMs' = [lastMs EXCEPT ![p] = -1]
    /\ lastRandom' = [lastRandom EXCEPT ![p] = 0]
    /\ issued' = [issued EXCEPT ![p] = <<>>]
    /\ UNCHANGED <<clock, steppedBack>>

\* The clock is read: it may have gone on, or been set back.
ReadClock(now) ==
    /\ clock' = now
    /\ steppedBack' = (steppedBack \/ now < clock)

Issue(p, id) == issued' = [issued EXCEPT ![p] = Append(@, id)]

\* Every call draws a random part.
NewUlid_AlwaysDraws(p, id) ==
    /\ ReadClock(id.ms)
    /\ id.random \in Draws /\ Fresh(id)
    /\ lastMs' = [lastMs EXCEPT ![p] = id.ms]
    /\ lastRandom' = [lastRandom EXCEPT ![p] = id.random]
    /\ Issue(p, id)

\* new_ulid() returns id: within a millisecond the random part is incremented,
\* in another millisecond, later or earlier, it is drawn.
NewUlid(p, id) ==
    /\ ReadClock(id.ms)
    /\ IF id.ms = lastMs[p]
       THEN lastRandom[p] < MaxRandom /\ id.random = lastRandom[p] + 1
       ELSE id.random \in Draws
    /\ Fresh(id)
    /\ lastMs' = [lastMs EXCEPT ![p] = id.ms]
    /\ lastRandom' = [lastRandom EXCEPT ![p] = id.random]
    /\ Issue(p, id)

\* new_ulid() raises OverflowError when the clock reads this millisecond again.
UlidOverflows(p) == lastMs[p] >= 0 /\ lastRandom[p] >= MaxRandom

Ulids == [ms : 0 .. MaxClock, random : 0 .. MaxRandom]

\* Type correctness; the generator remembers the last ULID it returned.
UlidTypeOK ==
    /\ clock \in 0 .. MaxClock
    /\ steppedBack \in BOOLEAN
    /\ lastMs \in [Processes -> -1 .. MaxClock]
    /\ lastRandom \in [Processes -> 0 .. MaxRandom]
    /\ \A p \in Processes :
          /\ issued[p] \in Seq(Ulids)
          /\ issued[p] # <<>> =>
                issued[p][Len(issued[p])] = [ms |-> lastMs[p], random |-> lastRandom[p]]

\* "Later calls sort after earlier ones", bursts within a millisecond included and up
\* to the overflow of the random part, as long as the clock is never set back.
UlidsOrdered ==
    \A p \in Processes : \A i, j \in DOMAIN issued[p] :
        i < j => steppedBack \/ Before(issued[p][i], issued[p][j])

=============================================================================
