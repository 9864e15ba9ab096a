------------------------------ MODULE StoreManager ------------------------------
(***************************************************************************)
(* LogStoreManager (contracts/src/StoreManager.sol): accounts stake tokens *)
(* for a stream to be stored, and the node manager, its parent, captures   *)
(* the fees of storing it.                                                 *)
(*                                                                         *)
(* The state of the contract is one record, as in QueryManager; its field  *)
(* held is the balance of the contract in the ERC-20 token.  Every stream  *)
(* of Stream exists in the external stream registry.                       *)
(***************************************************************************)
EXTENDS Integers, Sequences, FiniteSets, FiniteSetsExt

CONSTANTS User,            \* accounts that stake
          Stream,          \* ids of streams
          InitialTokens,   \* tokens each account owns at first
          MaxCapture       \* bound on the amount of a capture (for TLC only)

ASSUME TokensAssumption == InitialTokens \in [User -> Nat]
ASSUME FiniteAssumption == IsFiniteSet(User) /\ IsFiniteSet(Stream)

VARIABLES store,           \* the storage of the contract: see EmptyStore
          wallet,          \* stakeToken.balanceOf(u)
          captured         \* tokens paid to the parent

vars == <<store, wallet, captured>>

EmptyStore == [stores         |-> [s \in Stream |-> 0],
               stakeholders   |-> [s \in Stream |-> <<>>],
               balanceOf      |-> [u \in User |-> 0],
               storeBalanceOf |-> [u \in User |-> [s \in Stream |-> 0]],
               totalSupply    |-> 0,
               held           |-> 0]

Init == store = EmptyStore /\ wallet = InitialTokens /\ captured = 0

Listed(st, u, s) == IF st.storeBalanceOf[u][s] = 0
                    THEN Append(st.stakeholders[s], u)
                    ELSE st.stakeholders[s]

Staked(st, u, s, amount) ==
    [st EXCEPT !.stores[s] = @ + amount,
               !.balanceOf[u] = @ + amount,
               !.storeBalanceOf[u][s] = @ + amount,
               !.stakeholders[s] = Listed(st, u, s),
               !.totalSupply = @ + amount,
               !.held = @ + amount]

Stake(u, s, amount) ==
    /\ amount > 0
    /\ wallet[u] >= amount
    /\ store' = Staked(store, u, s, amount)
    /\ wallet' = [wallet EXCEPT ![u] = @ - amount]
    /\ UNCHANGED captured

-------------------------------------------------------------------------------
(* capture.  The loops run over a copy of the list of stakeholders; what   *)
(* they change, the accounts of the stream, is a record:                   *)
(*   total[u]  balanceOf[u]       part[u]  storeBalanceOf[u][s]            *)
(*   list      storeStakeholders[s]                                        *)

Minus(x, y) == IF x < y THEN 0 ELSE x - y

Accounts(st, s) == [total |-> st.balanceOf,
                    part  |-> [u \in User |-> st.storeBalanceOf[u][s]],
                    list  |-> st.stakeholders[s]]

(* More is captured than the stream has: a stakeholder loses all of it.    *)
Emptied(acc, u) == [acc EXCEPT !.total[u] = Minus(@, acc.part[u]),
                               !.part[u] = 0]

Charge_Whole(part, stake, amount) == amount                    \* mutant
Charge(part, stake, amount) == (part \div stake) * amount

(* A stakeholder with nothing left takes the place of all the others.      *)
ListAfter(u, copy) ==
    [j \in 1 .. Cardinality({i \in 1 .. Len(copy) : copy[i] # u}) |-> u]

Charged(acc, u, stake, amount, copy) ==
    LET deduction == Charge(acc.part[u], stake, amount)
        left == Minus(acc.part[u], deduction)
    IN  [total |-> [acc.total EXCEPT ![u] = Minus(@, deduction)],
         part  |-> [acc.part EXCEPT ![u] = left],
         list  |-> IF left = 0 THEN ListAfter(u, copy) ELSE acc.list]

AccountsAfter(st, s, amount) ==
    LET copy == st.stakeholders[s]
        overflow == st.stores[s] < amount
        after[i \in 0 .. Len(copy)] ==
            IF i = 0 THEN Accounts(st, s)
            ELSE IF overflow THEN Emptied(after[i - 1], copy[i])
            ELSE Charged(after[i - 1], copy[i], st.stores[s], amount, copy)
    IN  [after[Len(copy)] EXCEPT !.list = IF overflow THEN <<>> ELSE @]

Taken(st, s, amount) == IF st.stores[s] < amount THEN st.stores[s] ELSE amount

SupplyAfter_Kept(st, amount) == st.totalSupply                 \* mutant
SupplyAfter(st, amount) == Minus(st.totalSupply, amount)

CanCapture(st, s, amount) == st.stores[s] > 0 /\ Taken(st, s, amount) <= st.held

Captured(st, s, amount) ==
    LET acc == AccountsAfter(st, s, amount)
    IN  [stores         |-> [st.stores EXCEPT ![s] = Minus(@, amount)],
         stakeholders   |-> [st.stakeholders EXCEPT ![s] = acc.list],
         balanceOf      |-> acc.total,
         storeBalanceOf |-> [u \in User |-> [st.storeBalanceOf[u] EXCEPT ![s] = acc.part[u]]],
         totalSupply    |-> SupplyAfter(st, amount),
         held           |-> st.held - Taken(st, s, amount)]

Capture(s, amount) ==
    /\ CanCapture(store, s, amount)
    /\ store' = Captured(store, s, amount)
    /\ captured' = captured + Taken(store, s, amount)
    /\ UNCHANGED wallet

Next == \E s \in Stream :
           \/ \E u \in User : \E amount \in 1 .. InitialTokens[u] : Stake(u, s, amount)
           \/ \E amount \in 0 .. MaxCapture : Capture(s, amount)

Spec == Init /\ [][Next]_vars

-------------------------------------------------------------------------------
(* Types of the state.                                                     *)
TypeOK == /\ store \in [stores         : [Stream -> Nat],
                        stakeholders   : [Stream -> Seq(User)],
                        balanceOf      : [User -> Nat],
                        storeBalanceOf : [User -> [Stream -> Nat]],
                        totalSupply    : Nat,
                        held           : Nat]
          /\ wallet \in [User -> Nat]
          /\ captured \in Nat

StakeIn(s) == SumFunction([u \in User |-> store.storeBalanceOf[u][s]])

(* The contract holds the tokens of its streams, no fewer and no more: one *)
(* stream never pays for another, and what a stream has can be captured.   *)
HeldIsStored == store.held = SumFunction(store.stores)

(* The balance of an account is what it has in the streams, so that the    *)
(* fallback "otherwise reset to 0 if balances are off" never applies.      *)
BalancesAgree ==
    \A u \in User : store.balanceOf[u] = SumFunction(store.storeBalanceOf[u])

(* The accounts of a stream cover what the stream still has: the fees      *)
(* deducted from its stakeholders are never more than were captured,       *)
(* however many of them the list names, and however often.                 *)
StakeCoversStore == \A s \in Stream : StakeIn(s) >= store.stores[s]

(* Tokens, streams and accounts agree over every order of stakes and       *)
(* captures, small or larger than what there is.                           *)
AccountsAgree == TypeOK /\ HeldIsStored /\ BalancesAgree /\ StakeCoversStore

(* The supply the contract counts never exceeds the tokens it holds.       *)
SupplyWithinHeld == store.totalSupply <= store.held
===============================================================================
