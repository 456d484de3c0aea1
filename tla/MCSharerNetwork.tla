-------------------------- MODULE MCSharerNetwork --------------------------
(* Model checking of SharerNetwork on small instances: what may go wrong   *)
(* while the session is being created, and afterwards.                     *)
EXTENDS SharerNetwork

StartupFaults   == FaultKinds \ {"idle"}
DeliveryFaults  == FaultKinds \ {"error", "sendfail", "terminate", "end"}
=============================================================================
