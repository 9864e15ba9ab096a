--------------------------------- MODULE Mempool --------------------------------
(***************************************************************************)
(* The chain as the programs of one account use it: its LSAN tokens, what  *)
(* it allows each manager to take, what it has staked, and its             *)
(* transactions.  Several may have been submitted under one nonce, by      *)
(* replacement or by two programs that read the same nonce: one of them is *)
(* mined, and the others are dropped.                                      *)
(***************************************************************************)
EXTENDS Integers, Sequences, FiniteSets, FiniteSetsExt

CONSTANTS Manager,         \* the contracts that take stakes
          Tokens,          \* LSAN that the account begins with
          Rate,            \* wei of a wei, of a byte (the price of LSAN) and of a dollar
          MinimumMint      \* the least wei that mint takes: weiPerByte, or minimumDeposit

ASSUME AccountAssumption == /\ Tokens \in Nat /\ MinimumMint \in Nat
                            /\ Rate \in [{"wei", "bytes", "usd"} -> Nat \ {0}]

VARIABLES txs,             \* every transaction that was accepted, in that order
          wallet, allowance, staked

chainVars == <<txs, wallet, allowance, staked>>

ChainInit == /\ txs = <<>>
             /\ wallet = Tokens
             /\ allowance = [m \in Manager |-> 0]
             /\ staked = [m \in Manager |-> 0]

Mined == {i \in DOMAIN txs : txs[i].status \in {"done", "reverted"}}
Pending == {i \in DOMAIN txs : txs[i].status = "pending"}

NextNonce == 1 + Cardinality(Mined)

(* getTransactionCount("pending"), from which the next nonce is taken.     *)
PendingNonce == 1 + Max({txs[i].nonce : i \in Mined \union Pending} \union {0})

(* stake: the manager takes the amount with transferFrom.                  *)
StakeGoes(m, amount) == amount > 0 /\ allowance[m] >= amount /\ wallet >= amount

(* mint: the quotient by the price is minted, which may be nothing.        *)
MintGoes(value) == value >= MinimumMint

Goes(call) == CASE call.do = "approve" -> TRUE
                [] call.do = "stake"   -> StakeGoes(call.to, call.amount)
                [] call.do = "mint"    -> MintGoes(call.amount)

Effect(call) ==
    /\ wallet' = CASE call.do = "approve" -> wallet
                   [] call.do = "stake"   -> wallet - call.amount
                   [] call.do = "mint"    -> wallet + call.amount \div Rate["bytes"]
    /\ allowance' = CASE call.do = "approve" -> [allowance EXCEPT ![call.to] = call.amount]
                      [] call.do = "stake"   -> [allowance EXCEPT ![call.to] = @ - call.amount]
                      [] call.do = "mint"    -> allowance
    /\ staked' = IF call.do = "stake" THEN [staked EXCEPT ![call.to] = @ + call.amount]
                                      ELSE staked

(* A transaction of the next nonce is mined: not always the last one that  *)
(* was submitted under it.                                                 *)
Mine(i) ==
    /\ i \in Pending /\ txs[i].nonce = NextNonce
    /\ txs' = [k \in DOMAIN txs |->
                 IF k = i THEN [txs[k] EXCEPT !.status = IF Goes(txs[i]) THEN "done" ELSE "reverted"]
                 ELSE IF k \in Pending /\ txs[k].nonce = NextNonce
                      THEN [txs[k] EXCEPT !.status = "dropped"] ELSE txs[k]]
    /\ IF Goes(txs[i]) THEN Effect(txs[i]) ELSE UNCHANGED <<wallet, allowance, staked>>

(* What a node answers to a transaction: "nonce has already been used",    *)
(* "replacement fee too low", or it is accepted.                           *)
NonceUsed(tx) == tx.nonce < NextNonce

FeeTooLow(tx) == \E i \in Pending : txs[i].nonce = tx.nonce /\ txs[i].tip >= tx.tip

Accept(tx) == txs' = Append(txs, tx) /\ UNCHANGED <<wallet, allowance, staked>>

(* The transaction mined under the nonce of another, if one was.           *)
MinedUnder(i) == {r \in Mined : txs[r].nonce = txs[i].nonce}
================================================================================
