------------------------------ MODULE MCOutbox -------------------------------
(* Instances of Outbox for TLC. *)
EXTENDS Outbox

CONSTANTS p1, p2, i1, i2

OneProducer == {p1}
TwoProducers == {p1, p2}
TwoIntents == {i1, i2}
NoProducer == {}

EveryFault == {"crash", "refused", "rejected", "purge", "torn"}
NoFault == {}

=============================================================================
