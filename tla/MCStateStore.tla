---------------------------- MODULE MCStateStore -----------------------------
(* Instances of StateStore for TLC. *)
EXTENDS StateStore

CONSTANT w1

OneWorker == {w1}

Resume == {"cursor", "latest"}
Replay == {"cursor", "earliest"}

EveryFault == {"crash", "stop", "handler", "disk", "close"}
Stopped == {"stop"}

=============================================================================
