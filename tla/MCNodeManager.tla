----------------------------- MODULE MCNodeManager -----------------------------
(* Instances of NodeManager for TLC: a few tokens for each account.        *)
EXTENDS NodeManager, TLC

CONSTANTS TokensEach

MCInitialTokens == [a \in Address |-> TokensEach]

(* Accounts are all alike, and so are streams.                             *)
Alike == Permutations(Address) \cup Permutations(Stream)
===============================================================================
