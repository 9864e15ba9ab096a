--------------------------- MODULE MCLogStoreNetwork ---------------------------
(* Instances of LogStoreNetwork for TLC: two accounts, of which n is the   *)
(* node that reports reward, and c the other, one stored stream, and a     *)
(* few reports.                                                            *)
EXTENDS LogStoreNetwork

CONSTANTS n, c, d, TokensEach

MCInitialTokens == [a \in Address |-> IF a = n THEN TokensEach - 1 ELSE TokensEach]

(* What is explored: the whitelist, which plays no part in reports, stays  *)
(* unused, and c does not register as a node.                              *)
Explored == /\ ~requiresWhitelist
            /\ \A a \in Address : whitelist[a] = "None"
            /\ ~IsNode(c)

(* c is billed for a query, n and the treasury share the fee.              *)
Reward == [streams   |-> <<>>,
           consumers |-> <<[id |-> c, capture |-> 2, bytes |-> 1]>>,
           nodes     |-> <<[id |-> n, amount |-> 1]>>,
           delegates |-> <<[id |-> n, node |-> n, amount |-> 1]>>,
           treasury  |-> 1]

(* The storage of a stream is billed, twice, for the treasury; the entry   *)
(* without bytes is not billed.                                            *)
Storage == [streams   |-> <<[id |-> d, capture |-> 1, bytes |-> 1],
                            [id |-> d, capture |-> 1, bytes |-> 1]>>,
            consumers |-> <<[id |-> c, capture |-> 1, bytes |-> 0]>>,
            nodes     |-> <<>>,
            delegates |-> <<>>,
            treasury  |-> 2]

(* n loses a token of its own stake to the treasury.                       *)
Penalty == [streams   |-> <<>>,
            consumers |-> <<>>,
            nodes     |-> <<[id |-> n, amount |-> -1]>>,
            delegates |-> <<[id |-> n, node |-> n, amount |-> -1]>>,
            treasury  |-> 1]

MCContent == {Reward, Storage, Penalty}
===============================================================================
