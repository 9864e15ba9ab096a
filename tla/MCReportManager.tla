---------------------------- MODULE MCReportManager ----------------------------
(* Instances of ReportManager for TLC.  The accounts are interchangeable.  *)
EXTENDS ReportManager, TLC

(* What is explored: one account is staked at a time, since being staked   *)
(* only matters for the reporter; and nothing follows a report of the last *)
(* block, since no other can be accepted after it.                         *)
Explored == /\ Cardinality(staked) <= 1
            /\ reports[lastReportId].height < MaxBlock

Accounts == Permutations(Address)
===============================================================================
