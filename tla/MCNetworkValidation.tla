-------------------------- MODULE MCNetworkValidation --------------------------
(* An instance of NetworkValidation for TLC: two nodes, the client's request,*)
(* one with the same input, one with another, and one to the other node.   *)
EXTENDS NetworkValidation

CONSTANTS q, n, ours, twin, other, foreign, i1, i2

Nodes == {q, n}
Requests == {ours, twin, other, foreign}
SameInput == {ours, twin, foreign}
Ids == {i1, i2}

PublisherOf == [r \in Requests |-> IF r = foreign THEN n ELSE q]

(* The query node stores i1.  The other one stores i2, and i1 with the same*)
(* hash or another.  The other requests concern i2.                        *)
Stores ==
    {[r \in Requests |->
        IF r # ours THEN [m \in Nodes |-> [i \in Ids |-> IF i = i2 THEN "h" ELSE Nothing]]
        ELSE [m \in Nodes |-> [i \in Ids |-> IF m = q THEN IF i = i1 THEN "h" ELSE Nothing
                                             ELSE IF i = i1 THEN hash ELSE "h"]]] :
       hash \in {"h", "other"}}

Sent(type, request, node) == [type |-> type, request |-> request, node |-> node]

Query == {Sent("request", ours, q), Sent("response", ours, q), Sent("response", ours, n)}

(* The client's query with what another one publishes, or what propagates. *)
TrafficSets ==
    {Query \union {Sent("request", r, PublisherOf[r]), Sent("response", r, n)} :
       r \in Requests \ {ours}}
    \union {Query \union {Sent("propagate", ours, n)},
            Query \union {Sent("request", twin, q), Sent("request", other, q)}}

ContractLists == {{q}, {q, n}}
Answering == {q, n}
================================================================================
