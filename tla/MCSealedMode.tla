---------------------------- MODULE MCSealedMode -----------------------------
(* Instances of SealedMode for TLC. *)
EXTENDS SealedMode

CONSTANTS c1, c2

TwoSubs == {c1, c2}
CommandLine == {"cli"}
OwnPublisher == {"app"}

=============================================================================
