------------------------------ MODULE QueryManager ------------------------------
(***************************************************************************)
(* LogStoreQueryManager (contracts/src/QueryManager.sol): consumers stake  *)
(* tokens for their queries, and the node manager, its parent, captures    *)
(* the fees of the queries a report accounts for.                          *)
(*                                                                         *)
(* The state of the contract is one record, so that a report with many     *)
(* consumers can be followed capture by capture (see LogStoreNetwork); its *)
(* field held is the balance of the contract in the ERC-20 token.          *)
(***************************************************************************)
EXTENDS Naturals, FiniteSetsExt

CONSTANTS Consumer,        \* accounts that stake
          InitialTokens,   \* tokens each of them owns at first
          MaxCapture       \* bound on the amount of a capture (for TLC only)

VARIABLES query,           \* [balanceOf, totalSupply, held]
          wallet,          \* stakeToken.balanceOf(c)
          captured         \* tokens paid to the parent

vars == <<query, wallet, captured>>

EmptyQuery == [balanceOf |-> [c \in Consumer |-> 0], totalSupply |-> 0, held |-> 0]

Init == query = EmptyQuery /\ wallet = InitialTokens /\ captured = 0

Staked(q, c, amount) ==
    [q EXCEPT !.balanceOf[c] = @ + amount,
              !.totalSupply = @ + amount,
              !.held = @ + amount]

Stake(c, amount) ==
    /\ amount > 0
    /\ wallet[c] >= amount
    /\ query' = Staked(query, c, amount)
    /\ wallet' = [wallet EXCEPT ![c] = @ - amount]
    /\ UNCHANGED captured

(* capture: what the consumer has staked is all that can be taken; the     *)
(* supply is reduced by the whole amount, and stops at 0.                  *)
Taken(q, c, amount) == IF q.balanceOf[c] < amount THEN q.balanceOf[c] ELSE amount

Left(q, c, amount) == q.balanceOf[c] - Taken(q, c, amount)

SupplyAfter(q, amount) == IF q.totalSupply < amount THEN 0 ELSE q.totalSupply - amount

CanCapture(q, c, amount) == q.balanceOf[c] > 0 /\ Taken(q, c, amount) <= q.held

Captured(q, c, amount) ==
    [q EXCEPT !.balanceOf[c] = Left(q, c, amount),
              !.totalSupply = SupplyAfter(q, amount),
              !.held = @ - Taken(q, c, amount)]

Capture(c, amount) ==
    /\ CanCapture(query, c, amount)
    /\ query' = Captured(query, c, amount)
    /\ captured' = captured + Taken(query, c, amount)
    /\ UNCHANGED wallet

Next == \E c \in Consumer :
           \/ \E amount \in 1 .. InitialTokens[c] : Stake(c, amount)
           \/ \E amount \in 0 .. MaxCapture : Capture(c, amount)

Spec == Init /\ [][Next]_vars

-------------------------------------------------------------------------------
(* Types of the state.                                                     *)
TypeOK == /\ query \in [balanceOf : [Consumer -> Nat], totalSupply : Nat, held : Nat]
          /\ wallet \in [Consumer -> Nat]
          /\ captured \in Nat

(* The contract holds the tokens its consumers have staked and not spent,  *)
(* no fewer and no more: a capture never takes from one consumer what      *)
(* another has staked, and every stake can still be captured.              *)
HeldIsStaked == query.held = SumFunction(query.balanceOf)

(* The supply the contract counts never exceeds the tokens it holds.       *)
SupplyWithinHeld == query.totalSupply <= query.held

===============================================================================
