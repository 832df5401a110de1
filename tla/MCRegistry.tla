----------------------------- MODULE MCRegistry -----------------------------
(* Model-checking instance of Registry: a registration, a heartbeat of a   *)
(* service that listens to namespaces, one of an application without a     *)
(* service.                                                                *)
EXTENDS Registry

CONSTANTS n1, n2, h1, h2, m1, m2, s1, s2

OwnAndShared == <<s1, s2>>
OneRegistration == {[meta |-> m1, state |-> "DOWN"]}
TwoHeartbeats ==
  {[meta |-> m2, svc |-> TRUE, cfg |-> TRUE, timeout |-> 0],
   [meta |-> m2, svc |-> FALSE, cfg |-> FALSE, timeout |-> 5]}
=============================================================================
