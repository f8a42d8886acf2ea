------------------------------ MODULE CursorFile ------------------------------
(***************************************************************************)
(* FileCursorStore (cursor.py) and the processes around it: subscribers,   *)
(* which load the cursor and commit after each callback, and the command   *)
(* line's "cursor show" and "cursor reset" (cli.py).  commit() writes a    *)
(* temporary file named by new_ulid(), moves it over the cursor with       *)
(* os.replace and removes it in a finally block; between any two of these  *)
(* a process may crash, a file operation fail, or another process read,    *)
(* commit or reset.                                                        *)
(*                                                                         *)
(* A process is "down", or executes the command in job: its program        *)
(* counter names the next file operation.                                  *)
(*                                                                         *)
(* A definition named X_Something is X with a plausible bug, kept to show  *)
(* which property would notice it.                                         *)
(***************************************************************************)
EXTENDS Ulid, FiniteSetsExt

CONSTANTS
    Strategies,       \* strategy ids
    FileOf,           \* the file name each id is sanitised to
    MaxSeq,           \* bound on the sequences delivered
    ResetTargets,     \* the values of --to
    ReplaceAttempts,  \* REPLACE_ATTEMPTS
    MaxStarts,        \* bound on the commands started
    MaxFaults         \* bound on crashes, failing operations, damaged files, a clock set back

ASSUME CursorAssumption ==
    /\ DOMAIN FileOf = Strategies
    /\ MaxSeq \in Nat /\ ResetTargets \subseteq Int /\ ReplaceAttempts \in Nat \ {0}
    /\ MaxStarts \in Nat /\ MaxFaults \in Nat

VARIABLES
    pc,        \* where each process is
    job,       \* the command it executes: [kind, on, arg]
    file,      \* cursor files: [state, the last sequence moved in]
    temps,     \* temporary files of processes that are up: [name, content]
    local,     \* what a process holds in memory: [position, seen, tmp, attempt]
    reached,   \* history: highest sequence each strategy handled or was reset to
    orphans,   \* history: temporary files left behind by processes that died
    shared,    \* history: files two processes had in use at once, one to commit
    starts,    \* commands started
    faults     \* faults so far

history == <<reached, orphans, shared>>
bounds == <<starts, faults>>
cursorVars == <<pc, job, file, temps, local, history, bounds, ulidVars>>

Files == {FileOf[s] : s \in Strategies}
Valid(n) == [state |-> "valid", sequence |-> n]
Absent == [state |-> "absent", sequence |-> 0]
Torn == [state |-> "torn", sequence |-> 0]  \* not JSON, or not all of it
NoJob == [kind |-> "none", on |-> "none", arg |-> 0]
NoName == [ms |-> 0, random |-> 0]
Blank == [position |-> 0, seen |-> Absent, tmp |-> NoName, attempt |-> 0]

\* Some other id is sanitised to the same file name.
Aliased(s) == \E t \in Strategies \ {s} : FileOf[t] = FileOf[s]

\* Every id is sanitised to one name.
PathFor_Coarse(s) == FileOf[CHOOSE t \in Strategies : ~Aliased(t)]

PathFor(s) == FileOf[s]

CursorInit ==
    /\ UlidInit
    /\ pc = [p \in Processes |-> "down"]
    /\ job = [p \in Processes |-> NoJob]
    /\ file = [f \in Files |-> Absent]
    /\ temps = {} /\ orphans = 0
    /\ local = [p \in Processes |-> Blank]
    /\ reached = [s \in Strategies |-> 0]
    /\ shared = {}
    /\ starts = 0 /\ faults = 0

CursorKinds == {"run", "show", "reset"}
Path(p) == PathFor(job[p].on)
Uses(p, f) == job[p].kind \in CursorKinds /\ Path(p) = f
Commits(p) == job[p].kind \in {"run", "reset"}
Committing(p) == pc[p] \in {"write", "replace", "done", "raise"}

Goto(p, l) == pc' = [pc EXCEPT ![p] = l]
Remember(p, field, v) == local' = [local EXCEPT ![p][field] = v]
Fault == faults < MaxFaults /\ faults' = faults + 1 /\ UNCHANGED starts
Put(name, content) ==
    temps' = {t \in temps : t.name # name} \cup {[name |-> name, content |-> content]}

\* The process ends, and everything it held in memory is gone.
Exit(p) ==
    /\ Goto(p, "down")
    /\ job' = [job EXCEPT ![p] = NoJob]
    /\ local' = [local EXCEPT ![p] = Blank]
    /\ ForgetUlids(p)

-----------------------------------------------------------------------------
(* Commands and faults *)

CursorJobs ==
    [kind : {"run", "show"}, on : Strategies, arg : {0}]
        \cup [kind : {"reset"}, on : Strategies, arg : ResetTargets]

\* A command is started.
Start(p, j, l) ==
    /\ pc[p] = "down"
    /\ starts < MaxStarts
    /\ starts' = starts + 1
    /\ job' = [job EXCEPT ![p] = j]
    /\ Goto(p, l)
    /\ UNCHANGED <<temps, orphans, reached, faults, ulidVars>>

\* The process dies; its temporary file stays, under a name never drawn again.
Crash(p) ==
    /\ pc[p] # "down"
    /\ Fault
    /\ LET left == {t \in temps : Committing(p) /\ t.name = local[p].tmp} IN
          temps' = temps \ left /\ orphans' = orphans + Cardinality(left)
    /\ Exit(p)
    /\ UNCHANGED <<file, reached, shared>>

\* A cursor is damaged from outside: a disk, an editor, a restored backup.
Corrupt(f) ==
    /\ file[f].state = "valid"
    /\ Fault
    /\ \E damage \in {"torn", "undecodable"} : file' = [file EXCEPT ![f].state = damage]
    /\ UNCHANGED <<pc, job, temps, local, history, ulidVars>>

-----------------------------------------------------------------------------
(* load() *)

\* A subscriber, "cursor show" or "cursor reset" starts, and read_text opens the
\* file: what it holds now will be read.
Open(p, j) ==
    /\ Start(p, j, "read")
    /\ Remember(p, "seen", file[Path(p)'])
    /\ shared' = IF \E q \in Processes \ {p} : Uses(q, Path(p)') /\ (Commits(p)' \/ Commits(q))
                 THEN shared \cup {Path(p)'} ELSE shared
    /\ UNCHANGED file

\* A cursor that does not load is taken for a missing one.
Loads_Anyway(content) ==
    {IF content.state \in {"absent", "valid"} /\ content.sequence >= 0
     THEN content.sequence ELSE 0}

\* What load() returns, if it does: the file is missing, or holds a sequence that
\* is not negative.
Loads(content) ==
    {n \in {content.sequence} : content.state \in {"absent", "valid"} /\ n >= 0}

\* A subscriber starts from what was loaded, or ends.  "reset" takes a corrupt
\* cursor for any other and goes on to commit, but bytes that are not UTF-8 raise
\* a UnicodeDecodeError, which ends it.  "show" prints and ends.
Load(p) ==
    /\ pc[p] = "read"
    /\ LET seen == local[p].seen
           Continue(position, l) ==
               /\ local' = [local EXCEPT ![p] = [Blank EXCEPT !.position = position]]
               /\ Goto(p, l) /\ UNCHANGED <<job, ulidVars>>
       IN CASE job[p].kind = "run" /\ Loads(seen) # {} ->
                   \E n \in Loads(seen) : Continue(n, "handle")
            [] job[p].kind = "reset" /\ seen.state # "undecodable" -> Continue(job[p].arg, "commit")
            [] OTHER -> Exit(p)
    /\ UNCHANGED <<file, temps, history, bounds>>

\* A subscriber's callback returned for the next signal (see _deliver).
Handle(p) ==
    /\ pc[p] = "handle"
    /\ local[p].position < MaxSeq
    /\ Remember(p, "position", local[p].position + 1)
    /\ reached' = [reached EXCEPT ![job[p].on] = Max({@, local'[p].position})]
    /\ Goto(p, "commit")
    /\ UNCHANGED <<job, file, temps, orphans, shared, bounds, ulidVars>>

\* The subscriber is stopped between two signals.
StopRun(p) ==
    /\ pc[p] = "handle"
    /\ Exit(p)
    /\ UNCHANGED <<file, temps, history, bounds>>

-----------------------------------------------------------------------------
(* commit() *)

\* The temporary file has one name per strategy.
OpenTemp_SharedName(p) ==
    /\ pc[p] = "commit"
    /\ Put(NoName, Torn)
    /\ local' = [local EXCEPT ![p].attempt = 1]
    /\ Goto(p, "write")
    /\ UNCHANGED <<job, file, history, bounds, ulidVars>>

\* The cursor file itself is opened for writing as well.
OpenTemp_Truncates(p) ==
    /\ pc[p] = "commit"
    /\ \E id \in Ulids :
          /\ NewUlid(p, id)
          /\ Put(id, Torn)
          /\ local' = [local EXCEPT ![p].tmp = id, ![p].attempt = 1]
    /\ file' = [file EXCEPT ![Path(p)] = Torn]
    /\ Goto(p, "write")
    /\ UNCHANGED <<job, history, bounds>>

\* write_text opens a temporary file under a name of its own.
OpenTemp(p) ==
    /\ pc[p] = "commit"
    /\ \E id \in Ulids :
          /\ NewUlid(p, id)
          /\ Put(id, Torn)
          /\ local' = [local EXCEPT ![p].tmp = id, ![p].attempt = 1]
          /\ IF id.ms < clock THEN Fault ELSE UNCHANGED bounds
    /\ Goto(p, "write")
    /\ UNCHANGED <<job, file, history>>

\* new_ulid() raises, before there is anything to remove.
NameOverflows(p) ==
    /\ pc[p] = "commit"
    /\ UlidOverflows(p)
    /\ Exit(p)
    /\ UNCHANGED <<file, temps, history, bounds>>

\* write_text has written the whole payload.
WriteTemp(p) ==
    /\ pc[p] = "write"
    /\ Put(local[p].tmp, Valid(local[p].position))
    /\ Goto(p, "replace")
    /\ UNCHANGED <<job, file, local, history, bounds, ulidVars>>

\* os.replace succeeds.
Replace(p) ==
    /\ pc[p] = "replace"
    /\ \E t \in temps :
          /\ t.name = local[p].tmp
          /\ temps' = temps \ {t}
          /\ file' = [file EXCEPT ![Path(p)] = t.content]
    /\ reached' = IF job[p].kind = "reset"
                  THEN [reached EXCEPT ![job[p].on] = Max({@, local[p].position})]
                  ELSE reached
    /\ Goto(p, "done")
    /\ UNCHANGED <<job, orphans, local, shared, bounds, ulidVars>>

\* A reader of the file, on Windows, denies the replace for now.
Denied(p) ==
    /\ pc[p] = "replace"
    /\ \E q \in Processes \ {p} :
          pc[q] = "read" /\ Path(q) = Path(p) /\ local[q].seen # Absent

\* PermissionError is retried without bound.
ReplaceDenied_Forever(p) ==
    /\ Denied(p)
    /\ Remember(p, "attempt", 3 - local[p].attempt)
    /\ UNCHANGED <<pc, job, file, temps, history, bounds, ulidVars>>

\* PermissionError: retried after a pause, raised at the last attempt.
ReplaceDenied(p) ==
    /\ Denied(p)
    /\ IF local[p].attempt = ReplaceAttempts
       THEN Goto(p, "raise") /\ UNCHANGED local
       ELSE Remember(p, "attempt", local[p].attempt + 1) /\ UNCHANGED pc
    /\ UNCHANGED <<job, file, temps, history, bounds, ulidVars>>

\* write_text or os.replace raises another OSError (a full disk, a lost mount).
CommitFails(p) ==
    /\ pc[p] \in {"write", "replace"}
    /\ Fault
    /\ Goto(p, "raise")
    /\ UNCHANGED <<job, file, temps, local, history, ulidVars>>

\* commit() returns to the subscriber's loop or to the end of the command, or
\* raises, which ends both.
Returns(p) ==
    IF pc[p] = "done" /\ job[p].kind = "run"
    THEN /\ Goto(p, "handle")
         /\ local' = [local EXCEPT ![p].tmp = NoName, ![p].attempt = 0]
         /\ UNCHANGED <<job, ulidVars>>
    ELSE Exit(p)

\* The temporary file is removed only after a success.
Finish_OnSuccess(p) ==
    /\ pc[p] \in {"done", "raise"}
    /\ temps' = IF pc[p] = "done" THEN {t \in temps : t.name # local[p].tmp} ELSE temps
    /\ Returns(p)
    /\ UNCHANGED <<file, history, bounds>>

\* The finally block.
Finish(p) ==
    /\ pc[p] \in {"done", "raise"}
    /\ temps' = {t \in temps : t.name # local[p].tmp}
    /\ Returns(p)
    /\ UNCHANGED <<file, history, bounds>>

-----------------------------------------------------------------------------
CursorNext ==
    \/ \E p \in Processes :
          \/ \E j \in CursorJobs : Open(p, j)
          \/ Load(p) \/ Handle(p) \/ StopRun(p)
          \/ OpenTemp(p) \/ NameOverflows(p) \/ WriteTemp(p)
          \/ Replace(p) \/ ReplaceDenied(p) \/ CommitFails(p)
          \/ Finish(p)
          \/ Crash(p)
    \/ \E f \in Files : Corrupt(f)

CursorSpec == CursorInit /\ [][CursorNext]_cursorVars

-----------------------------------------------------------------------------
(* Properties *)

\* A commit in progress knows its temporary file, and no two share one.
CursorTypeOK ==
    /\ file \in [Files -> [state : {"absent", "valid", "torn", "undecodable"},
                           sequence : ResetTargets \cup 0 .. MaxSeq]]
    /\ \A p \in Processes : pc[p] = "down" <=> job[p] = NoJob
    /\ \A p, q \in Processes :
          p # q /\ Committing(p) /\ Committing(q) => local[p].tmp # local[q].tmp

\* commit() is atomic and load() sees all of it or nothing: a crash, a denied or
\* failed operation, or another process in the middle leaves the previous cursor.
Register == INSTANCE CursorRegister WITH
    value <- file,
    pending <- [p \in Processes |->
                   IF pc[p] \in {"write", "replace"}
                   THEN [file |-> Path(p), value |-> Valid(local[p].position)]
                   ELSE NoJob],
    Requests <- [file : Files, value : {Valid(n) : n \in ResetTargets \cup 0 .. MaxSeq}],
    None <- NoJob,
    Damaged <- [state : {"torn", "undecodable"}, sequence : ResetTargets \cup 0 .. MaxSeq]
ImplementsRegister == Register!Spec

\* The cursor a strategy would resume from stands only for signals it handled or
\* an operator skipped, unless another id is sanitised to the same file name.
CursorHonest ==
    \A s \in Strategies :
        ~Aliased(s) => file[FileOf[s]].sequence <= reached[s]

\* Never silently reset: as long as no two processes had the file in use at once,
\* only "cursor reset" moves a cursor back, damaged in between or not.
NeverSilentlyReset ==
    [][\A f \in Files :
          f \notin shared' /\ file'[f].sequence < file[f].sequence =>
              \E p \in Processes : job[p].kind = "reset" /\ Path(p) = f /\ pc[p] = "replace"
      ]_cursorVars

\* A temporary file outlives the commit that wrote it only if its process died.
TempsRemoved ==
    /\ \A t \in temps : \E p \in Processes : Committing(p) /\ local[p].tmp = t.name
    /\ orphans <= faults

\* The operations a commit() has left, at most.
StepsLeft(p) ==
    CASE pc[p] = "commit" -> ReplaceAttempts + 3
      [] pc[p] = "write" -> ReplaceAttempts + 2
      [] pc[p] = "replace" -> ReplaceAttempts + 2 - local[p].attempt
      [] pc[p] \in {"done", "raise"} -> 1
      [] OTHER -> 0

\* commit() ends, returning or raising, after a bounded number of operations,
\* though a reader never closes the file.
CommitEnds ==
    [][\A p \in Processes :
          StepsLeft(p) > 0 /\ <<pc[p], local[p]>>' # <<pc[p], local[p]>>
              => StepsLeft(p)' < StepsLeft(p)]_cursorVars

=============================================================================
