---------------------------- MODULE MCNodeRegistry ----------------------------
(* Instances of NodeRegistry for TLC.  The addresses are interchangeable.  *)
EXTENDS NodeRegistry, TLC

Addresses == Permutations(Address)
===============================================================================
