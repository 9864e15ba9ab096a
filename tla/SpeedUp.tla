--------------------------------- MODULE SpeedUp --------------------------------
(***************************************************************************)
(* speedupTx.ts: a command waits for its transaction and lets the user     *)
(* replace it by one with a higher tip, again and again.  The waiting is a *)
(* record: watch, the transactions waited for; base, the one the prompt is *)
(* about; raise, what becomes of the prompt.                               *)
(***************************************************************************)
EXTENDS Mempool

CONSTANT MaxTip            \* bound on the tip, hence on the replacements

ASSUME TipAssumption == MaxTip \in Nat

Idle == [watch |-> {}, base |-> 0, raise |-> "off"]

(* keepRetryingWithIncreasedGasPrice: lastCreatedTransaction$ emits the    *)
(* transaction, which starts a prompt; it is waited for as well.           *)
Watching(i) == [watch |-> {i}, base |-> i, raise |-> "asking"]

(* createTransactionWithIncreasedTip: maxPriorityFeePerGas times 1.2.      *)
IncreasedTip(tip) == IF tip = 0 THEN 0 ELSE tip + 1

(* replaceTransaction: everything else, the nonce above all, is kept.      *)
Replacement_NewNonce(i) == [txs[i] EXCEPT !.tip = IncreasedTip(@), !.status = "pending",
                                          !.nonce = PendingNonce]    \* mutant
Replacement(i) == [txs[i] EXCEPT !.tip = IncreasedTip(@), !.status = "pending"]

(* userPressEnter$                                                         *)
PressEnter(w) == [w EXCEPT !.raise = "raising"]

CanPress(w) == w.raise = "asking" /\ txs[w.base].tip < MaxTip

(* retryCall: a fee that is too low is tried again until it is accepted or *)
(* the nonce has been used; that, and any other error, ends the prompts.   *)
CanReplace(w) == w.raise = "raising" /\ ~NonceUsed(Replacement(w.base)) /\ ~FeeTooLow(Replacement(w.base))

Replaced(w) == [watch |-> w.watch \union {Len(txs) + 1}, base |-> Len(txs) + 1, raise |-> "asking"]

CanGiveUp(w) == w.raise = "raising" /\ NonceUsed(Replacement(w.base))

GivenUp(w) == [w EXCEPT !.raise = "off"]

(* tx.wait: the receipt of the transaction, or an error: "transaction      *)
(* failed" when it was reverted, "transaction was replaced" when another   *)
(* was mined under its nonce.                                              *)
WaitEnds_Own(i, r) == r = i /\ r \in Mined    \* mutant
WaitEnds(i, r) == r \in MinedUnder(i)

Receipt(i, r) == i = r /\ txs[r].status = "done"

(* acceptedTransaction$: the first of the waits to end.  If a transaction  *)
(* was replaced it takes the receipt of the other, whatever it is          *)
(* (waitForTransaction).                                                   *)
AcceptedReceipt(i, r) == i # r \/ txs[r].status = "done"
================================================================================
