---------------------------- MODULE MCSystemRecovery ----------------------------
(* An instance of SystemRecovery for TLC: one broker needs two rounds, the  *)
(* other holds a single message.                                           *)
EXTENDS SystemRecovery

CONSTANTS b1, b2

Brokers == {b1, b2}

Messages == [b \in Brokers |-> IF b = b1 THEN {1, 2, 3} ELSE {2}]
================================================================================
