------------------------------ MODULE NodeManager ------------------------------
(***************************************************************************)
(* LogStoreNodeManager (contracts/src/NodeManager.sol) but for             *)
(* processReport, which LogStoreNetwork adds: the list of nodes            *)
(* (NodeRegistry), the tokens staked in the contract and delegated to      *)
(* nodes, the whitelist, and the system streams with the right to publish  *)
(* on them.                                                                *)
(*                                                                         *)
(* A transaction is one step: it does all it does or, where a require, a   *)
(* checked subtraction or the token reverts it, nothing.  Of the external  *)
(* contracts only what this one relies on is kept: the balances of the     *)
(* ERC-20 token and the publish rights of the stream registry, which drops *)
(* the rights of a stream it deletes.  The key of a stream stands for its  *)
(* path and metadata too.  Amounts are too small to overflow.              *)
(***************************************************************************)
EXTENDS NodeRegistry, FiniteSetsExt

(* The addresses of the list are the accounts: every account may be a node *)
(* and a delegate.                                                         *)
CONSTANTS Stream,              \* keys of system streams
          StakeRequired,       \* stakeRequiredAmount
          InitialTokens        \* tokens each account owns at first

ASSUME AccountsAssumption == IsFiniteSet(Address)
ASSUME StakeAssumption == StakeRequired \in Nat \ {0}   \* the constructor requires it
ASSUME TokensAssumption == InitialTokens \in [Address -> Nat]

VARIABLES wallet,              \* stakeToken.balanceOf(a)
          held,                \* stakeToken.balanceOf(address(this))
          balanceOf,           \* staked and not delegated
          delegatesOf,         \* delegatesOf[delegate][node]
          stakeOf,             \* nodes[n].stake
          totalSupply, treasurySupply,
          whitelist, requiresWhitelist,
          streams,             \* the array of keys
          streamIndex,         \* streamInformation[key].index; its domain: the keys with information
          canPublish           \* publish rights in the stream registry, as pairs <<key, address>>

tokenVars == <<wallet, held, totalSupply>>
fundVars == <<tokenVars, balanceOf, delegatesOf, stakeOf, treasurySupply>>
accessVars == <<whitelist, requiresWhitelist>>
streamVars == <<streams, streamIndex>>
managerVars == <<registryVars, fundVars, accessVars, streamVars, canPublish>>

Amounts == 1 .. SumFunction(InitialTokens)

ManagerInit ==
    /\ RegistryInit
    /\ wallet = InitialTokens
    /\ held = 0
    /\ balanceOf = [a \in Address |-> 0]
    /\ delegatesOf = [a \in Address |-> [n \in Address |-> 0]]
    /\ stakeOf = [n \in Address |-> 0]
    /\ totalSupply = 0
    /\ treasurySupply = 0
    /\ whitelist = [a \in Address |-> "None"]
    /\ requiresWhitelist \in BOOLEAN
    /\ streams = <<>>
    /\ streamIndex = [k \in {} |-> 0]
    /\ canPublish = {}

-------------------------------------------------------------------------------
(* Publish rights.                                                         *)

StreamKeys == {streams[i] : i \in 1 .. Len(streams)}

(* _checkAndGrantAccess(n), given the stake it reads.                      *)
AccessAfter(n, stake) ==
    IF stake >= StakeRequired THEN canPublish \cup (StreamKeys \X {n})
                              ELSE canPublish \ (StreamKeys \X {n})

Nodes == {NodeAddresses[k] : k \in 1 .. totalNodes}

Qualified == {n \in Nodes : stakeOf[n] >= StakeRequired}

(* createStream, _registerStream                                           *)
CreateStream(key) ==
    /\ key \notin DOMAIN streamIndex
    /\ ~NodeAddressesReverts
    /\ streams' = Append(streams, key)
    /\ streamIndex' = [k \in DOMAIN streamIndex \cup {key} |->
                         IF k = key THEN Len(streams) ELSE streamIndex[k]]
    /\ canPublish' = canPublish \cup ({key} \X Qualified)
    /\ UNCHANGED <<registryVars, fundVars, accessVars>>

LastKey == streams[Len(streams)]

IndexAfterMove_Kept(key) == streamIndex                        \* mutant
IndexAfterMove(key) == [streamIndex EXCEPT ![LastKey] = streamIndex[key]]

(* deleteStream: the last key of the array takes the place of the deleted. *)
DeleteStream(key) ==
    /\ key \in DOMAIN streamIndex
    /\ streams' = SubSeq([streams EXCEPT ![streamIndex[key] + 1] = LastKey],
                         1, Len(streams) - 1)
    /\ streamIndex' = [k \in DOMAIN streamIndex \ {key} |-> IndexAfterMove(key)[k]]
    /\ canPublish' = {r \in canPublish : r[1] # key}
    /\ UNCHANGED <<registryVars, fundVars, accessVars>>

-------------------------------------------------------------------------------
(* Nodes and the whitelist.                                                *)

Whitelisted(a) == ~requiresWhitelist \/ whitelist[a] = "Approved"

UpsertNode(a) ==
    /\ Whitelisted(a)
    /\ Upsert(a)
    /\ UNCHANGED <<fundVars, accessVars, streamVars, canPublish>>

UpsertNodeAdmin(n) ==
    /\ Upsert(n)
    /\ UNCHANGED <<fundVars, accessVars, streamVars, canPublish>>

StakeWithout_Kept(n) == stakeOf                                \* mutant
StakeWithout(n) == [stakeOf EXCEPT ![n] = 0]

(* removeNode and removeNodeAdmin: the stake goes with the deleted struct, *)
(* the delegations and the publish rights stay.                            *)
RemoveNode(n) ==
    /\ Remove(n)
    /\ stakeOf' = StakeWithout(n)
    /\ UNCHANGED <<tokenVars, balanceOf, delegatesOf, treasurySupply, accessVars,
                   streamVars, canPublish>>

KickNode(n) ==
    /\ whitelist' = [whitelist EXCEPT ![n] = "Rejected"]
    /\ Remove(n)
    /\ stakeOf' = StakeWithout(n)
    /\ UNCHANGED <<tokenVars, balanceOf, delegatesOf, treasurySupply, requiresWhitelist,
                   streamVars, canPublish>>

WhitelistNode(n, verdict) ==
    /\ whitelist' = [whitelist EXCEPT ![n] = verdict]
    /\ UNCHANGED <<registryVars, fundVars, requiresWhitelist, streamVars, canPublish>>

SetRequiresWhitelist(value) ==
    /\ requiresWhitelist' = value
    /\ UNCHANGED <<registryVars, fundVars, whitelist, streamVars, canPublish>>

-------------------------------------------------------------------------------
(* Stake.  Deposited(a, amount) and PaidOut(a, amount) are the transfer of *)
(* the token with the change of totalSupply that goes with it.             *)

Deposited_Uncounted(a, amount) ==                              \* mutant
    /\ amount > 0 /\ wallet[a] >= amount
    /\ wallet' = [wallet EXCEPT ![a] = @ - amount]
    /\ held' = held + amount
    /\ UNCHANGED totalSupply

Deposited(a, amount) ==
    /\ amount > 0
    /\ wallet[a] >= amount
    /\ wallet' = [wallet EXCEPT ![a] = @ - amount]
    /\ held' = held + amount
    /\ totalSupply' = totalSupply + amount

PaidOut(a, amount) ==
    /\ totalSupply >= amount
    /\ held >= amount
    /\ wallet' = [wallet EXCEPT ![a] = @ + amount]
    /\ held' = held - amount
    /\ totalSupply' = totalSupply - amount

Delegated(a, amount, n) ==
    /\ amount > 0
    /\ delegatesOf' = [delegatesOf EXCEPT ![a][n] = @ + amount]
    /\ stakeOf' = [stakeOf EXCEPT ![n] = @ + amount]
    /\ canPublish' = AccessAfter(n, stakeOf[n] + amount)

Undelegated(a, amount, n) ==
    /\ amount > 0
    /\ IsNode(n)
    /\ delegatesOf[a][n] >= amount
    /\ stakeOf[n] >= amount
    /\ delegatesOf' = [delegatesOf EXCEPT ![a][n] = @ - amount]
    /\ canPublish' = AccessAfter(n, stakeOf[n] - amount)

Stake(a, amount) ==
    /\ Deposited(a, amount)
    /\ balanceOf' = [balanceOf EXCEPT ![a] = @ + amount]
    /\ UNCHANGED <<registryVars, delegatesOf, stakeOf, treasurySupply, accessVars,
                   streamVars, canPublish>>

Delegate(a, amount, n) ==
    /\ IsNode(n)
    /\ balanceOf[a] >= amount
    /\ Delegated(a, amount, n)
    /\ balanceOf' = [balanceOf EXCEPT ![a] = @ - amount]
    /\ UNCHANGED <<registryVars, tokenVars, treasurySupply, accessVars, streamVars>>

Undelegate(a, amount, n) ==
    /\ Undelegated(a, amount, n)
    /\ stakeOf' = [stakeOf EXCEPT ![n] = @ - amount]
    /\ balanceOf' = [balanceOf EXCEPT ![a] = @ + amount]
    /\ UNCHANGED <<registryVars, tokenVars, treasurySupply, accessVars, streamVars>>

(* stake, then delegate: balanceOf ends where it began.                    *)
StakeAndDelegate(a, amount, n) ==
    /\ IsNode(n)
    /\ Deposited(a, amount)
    /\ Delegated(a, amount, n)
    /\ UNCHANGED <<registryVars, balanceOf, treasurySupply, accessVars, streamVars>>

CanWithdraw(a, amount) == balanceOf[a] >= amount

Withdraw(a, amount) ==
    /\ CanWithdraw(a, amount)
    /\ PaidOut(a, amount)
    /\ balanceOf' = [balanceOf EXCEPT ![a] = @ - amount]
    /\ UNCHANGED <<registryVars, delegatesOf, stakeOf, treasurySupply, accessVars,
                   streamVars, canPublish>>

(* undelegate, then withdraw of the same amount.                           *)
UndelegateWithdraw(a, amount, n) ==
    /\ Undelegated(a, amount, n)
    /\ stakeOf' = [stakeOf EXCEPT ![n] = @ - amount]
    /\ PaidOut(a, amount)
    /\ UNCHANGED <<registryVars, balanceOf, treasurySupply, accessVars, streamVars>>

(* upsertNode, stake, delegate to oneself: the upsert makes a node of a,   *)
(* so that the delegation finds one.                                       *)
Join(a, amount) ==
    /\ Whitelisted(a)
    /\ Upsert(a)
    /\ Deposited(a, amount)
    /\ Delegated(a, amount, a)
    /\ UNCHANGED <<balanceOf, treasurySupply, accessVars, streamVars>>

(* undelegate all one delegated to oneself, withdraw the whole balance,    *)
(* removeNode.  Access is checked before the struct is deleted, on the     *)
(* stake that others have delegated.                                       *)
Leave(a) ==
    LET own == delegatesOf[a][a] IN
    /\ Undelegated(a, own, a)
    /\ PaidOut(a, balanceOf[a] + own)
    /\ balanceOf' = [balanceOf EXCEPT ![a] = 0]
    /\ Remove(a)
    /\ stakeOf' = StakeWithout(a)
    /\ UNCHANGED <<treasurySupply, accessVars, streamVars>>

(* The owner, whose wallet is that of account a, takes from the treasury.  *)
TreasuryWithdraw(a, amount) ==
    /\ treasurySupply >= amount
    /\ PaidOut(a, amount)
    /\ treasurySupply' = treasurySupply - amount
    /\ UNCHANGED <<registryVars, balanceOf, delegatesOf, stakeOf, accessVars, streamVars,
                   canPublish>>

NextBlock == /\ AdvanceBlock
             /\ UNCHANGED <<fundVars, accessVars, streamVars, canPublish>>

-------------------------------------------------------------------------------
NodeStep == \E n \in Address : UpsertNode(n) \/ UpsertNodeAdmin(n) \/ RemoveNode(n) \/ KickNode(n)

WhitelistStep == \/ \E n \in Address, verdict \in {"Approved", "Rejected"} :
                      WhitelistNode(n, verdict)
                 \/ \E value \in BOOLEAN : SetRequiresWhitelist(value)

StreamStep == \E key \in Stream : CreateStream(key) \/ DeleteStream(key)

FundStep == \E a \in Address, amount \in Amounts :
              \/ Stake(a, amount)
              \/ Withdraw(a, amount)
              \/ Join(a, amount)
              \/ \E n \in Address : \/ Delegate(a, amount, n)
                                    \/ Undelegate(a, amount, n)
                                    \/ StakeAndDelegate(a, amount, n)
                                    \/ UndelegateWithdraw(a, amount, n)

LeaveStep == \E a \in Address : Leave(a)

ManagerNext == NodeStep \/ WhitelistStep \/ StreamStep \/ FundStep \/ LeaveStep \/ NextBlock

ManagerSpec == ManagerInit /\ [][ManagerNext]_managerVars

(* Types of the variables beside those of the list.                        *)
ManagerTypes ==
    /\ wallet \in [Address -> Nat]
    /\ held \in Nat
    /\ balanceOf \in [Address -> Nat]
    /\ delegatesOf \in [Address -> [Address -> Nat]]
    /\ stakeOf \in [Address -> Nat]
    /\ totalSupply \in Nat
    /\ treasurySupply \in Nat
    /\ whitelist \in [Address -> {"None", "Approved", "Rejected"}]
    /\ requiresWhitelist \in BOOLEAN
    /\ streams \in Seq(Stream)
    /\ DOMAIN streamIndex \subseteq Stream
    /\ streamIndex \in [DOMAIN streamIndex -> Nat]
    /\ canPublish \subseteq Stream \X Address

DelegatedBy(a) == SumFunction(delegatesOf[a])
DelegatedTo(n) == SumFunction([a \in Address |-> delegatesOf[a][n]])

(* The contract holds exactly the tokens it counts as its supply, so that  *)
(* no deposit is stuck in it and no withdrawal is refused for want of      *)
(* tokens, whichever way the tokens came in and went out.                  *)
SupplyHeld == totalSupply = held

(* No token changes hands: what an account owns, has staked and has        *)
(* delegated stays together what it brought, and the treasury gets nothing *)
(* but by reports.                                                         *)
NobodyPaysForAnother ==
    /\ treasurySupply = 0
    /\ \A a \in Address :
          wallet[a] + balanceOf[a] + DelegatedBy(a) = InitialTokens[a]

(* The stake of a node, which gives it the right to report and publish, is *)
(* made of tokens that are delegated to it now; an address that is not a   *)
(* node has none.                                                          *)
StakeBacked ==
    \A n \in Address : /\ stakeOf[n] <= DelegatedTo(n)
                       /\ ~IsNode(n) => stakeOf[n] = 0

(* A node with the required stake may publish on every system stream,      *)
(* whether the stream or the stake came first.                             *)
StakedMayPublish ==
    \A n \in Address : stakeOf[n] >= StakeRequired => StreamKeys \X {n} \subseteq canPublish

(* Tokens stay with who brought them, stakes are backed by delegations and *)
(* give the right to publish, through any order of transactions.           *)
StakesSound == ManagerTypes /\ NobodyPaysForAnother /\ StakeBacked /\ StakedMayPublish

(* The array of stream keys and their stored indices mirror each other, so *)
(* that deleteStream never removes another stream than it is asked to; and *)
(* no right outlives its stream.                                           *)
StreamsIndexed ==
    /\ DOMAIN streamIndex = StreamKeys
    /\ \A i \in 1 .. Len(streams) : streamIndex[streams[i]] = i - 1
    /\ \A r \in canPublish : r[1] \in StreamKeys
===============================================================================
