----------------------------- MODULE MCStoreManager -----------------------------
(* Instances of StoreManager for TLC: a few tokens for each account.       *)
EXTENDS StoreManager

CONSTANTS TokensEach

MCInitialTokens == [u \in User |-> TokensEach]
===============================================================================
