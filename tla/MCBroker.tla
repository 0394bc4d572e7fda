------------------------------ MODULE MCBroker ------------------------------
(* Instances of Broker for TLC. *)
EXTENDS Broker

CONSTANTS c1, c2, s1, s2
=============================================================================
