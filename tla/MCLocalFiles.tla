----------------------------- MODULE MCLocalFiles -----------------------------
(* Instances of LocalFiles: see the README for what each bound lets happen. *)
EXTENDS LocalFiles, TLC

CONSTANTS a, b, c, f, g

\* Two ids differ only in a character that is sanitised.
Names == [s \in Strategies |-> IF s = c THEN g ELSE f]

\* "--to" a number that no cursor can hold, and one on the way.
Targets == {-1, 1}

Symmetry == Permutations(Processes) \cup Permutations({a, b})

=============================================================================
