---------------------------- MODULE CursorRegister ----------------------------
(***************************************************************************)
(* What FileCursorStore promises of commit(): the cursor of a file is      *)
(* replaced in one step by what a commit in progress asked for, or, when   *)
(* that commit raises or its process dies, not at all.  Nothing else but   *)
(* damage from outside changes a cursor.                                   *)
(***************************************************************************)
CONSTANTS
    Processes,
    Requests,   \* what a commit may ask for: [file, value]
    None,       \* no commit in progress
    Damaged     \* what damage may leave in a file

VARIABLES
    value,      \* the cursor each file holds
    pending     \* the commit each process is executing, or None

registerVars == <<value, pending>>

Init == pending = [p \in Processes |-> None]

Begin(p) ==
    /\ pending[p] = None
    /\ \E r \in Requests : pending' = [pending EXCEPT ![p] = r]
    /\ UNCHANGED value

Succeed(p) ==
    /\ pending[p] # None
    /\ value' = [value EXCEPT ![pending[p].file] = pending[p].value]
    /\ pending' = [pending EXCEPT ![p] = None]

Fail(p) ==
    /\ pending' = [pending EXCEPT ![p] = None]
    /\ UNCHANGED value

DamageFile ==
    /\ \E f \in DOMAIN value, d \in Damaged : value' = [value EXCEPT ![f] = d]
    /\ UNCHANGED pending

Next ==
    \/ \E p \in Processes : Begin(p) \/ Succeed(p) \/ Fail(p)
    \/ DamageFile

Spec == Init /\ [][Next]_registerVars

=============================================================================
