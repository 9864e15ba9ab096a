----------------------------- MODULE MCStakeCommands ----------------------------
(* An instance of StakeCommands for TLC: two commands that stake with the  *)
(* same manager, with two managers, or one of which mints, and one in      *)
(* dollars that comes to nothing.                                          *)
EXTENDS StakeCommands

CONSTANTS c1, c2, query, store

Job(script, manager, amount, unit, asks) ==
    [script |-> script, manager |-> manager, amount |-> amount, unit |-> unit, asks |-> asks]

MCRate == [w \in {"wei", "bytes", "usd"} |-> CASE w = "wei" -> 1 [] w = "bytes" -> 2 [] w = "usd" -> 3]

Pairs ==
    {<<Job("queryCommand", query, 2, "bytes", TRUE), Job("queryStake", query, 1, "bytes", FALSE)>>,
     <<Job("queryCommand", query, 1, "bytes", FALSE), Job("queryCommand", query, 2, "bytes", FALSE)>>,
     <<Job("storeCommand", store, 1, "usd", TRUE), Job("stakeOrCreateStore", store, 2, "bytes", FALSE)>>,
     <<Job("storeCommand", store, 2, "bytes", FALSE), Job("mintCommand", store, 1, "usd", FALSE)>>,
     <<Job("queryStake", query, 0, "usd", FALSE), Job("mintCommand", query, 1, "wei", FALSE)>>,
     <<Job("queryStake", query, 1, "usd", FALSE), Job("stakeOrCreateStore", store, 1, "bytes", FALSE)>>}

MCJobs == {[c \in {c1, c2} |-> IF c = c1 THEN p[1] ELSE p[2]] : p \in Pairs}
================================================================================
