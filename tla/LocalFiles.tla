------------------------------ MODULE LocalFiles ------------------------------
(***************************************************************************)
(* The files the package keeps on the local disk beside the dead-letter    *)
(* queue: cursors and sealed-mode keys.                                    *)
(***************************************************************************)
EXTENDS CursorFile, KeyFile

localVars == <<cursorVars, keyVars>>

LocalInit == CursorInit /\ KeyInit

\* Commands on cursors and commands on keys share no file: a behaviour has one
\* kind of them or the other.
LocalNext ==
    \/ commands = 0 /\ CursorNext /\ UNCHANGED keyVars
    \/ starts = 0 /\ KeyNext /\ UNCHANGED cursorVars

LocalSpec == LocalInit /\ [][LocalNext]_localVars

\* Type correctness: of ids, of cursors and commits in progress, of key files.
TypeOK == UlidTypeOK /\ CursorTypeOK /\ KeyTypeOK

=============================================================================
