--------------------------- MODULE MCWsSubscriber ----------------------------
(* Instances of WsSubscriber for TLC. *)
EXTENDS WsSubscriber, TLC

CONSTANTS h1, h2

OneHandler == {h1}
TwoHandlers == {h1, h2}

EveryFault == FaultKinds
Callback == {"callback"}
Disruptions == {"duplicate", "crash", "stop"}

=============================================================================
