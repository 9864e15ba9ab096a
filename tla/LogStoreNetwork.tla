---------------------------- MODULE LogStoreNetwork ----------------------------
(***************************************************************************)
(* The contracts together.  The node manager (NodeManager), the store      *)
(* manager (StoreManager) and the query manager (QueryManager) hold tokens *)
(* of the same ERC-20; the report manager is the ledger of reports         *)
(* (ReportLedger, which ReportManager implements).  A staked account has   *)
(* the node manager process a report: the fees of streams and consumers    *)
(* are captured, and stakes, delegations and treasury change as the report *)
(* says, whatever happened since it was made.                              *)
(*                                                                         *)
(* What a report accounts for is a record of sequences:                    *)
(*   streams, consumers   entries [id, capture, bytes]                     *)
(*   nodes                entries [id, amount]                             *)
(*   delegates            entries [id, node, amount]                       *)
(*   treasury             an integer, as the amounts are                   *)
(* (see Reported).                                                         *)
(***************************************************************************)
EXTENDS NodeManager, Integers

CONSTANTS Owner,               \* owner of the node manager, one of the accounts
          DataStream,          \* ids of the streams stored
          Id, EmptyId, Content, NoContent,
          MaxHeight            \* bound on the height of reports (for TLC only)

Reported ==
    [streams   : Seq([id : DataStream, capture : Nat, bytes : Nat]),
     consumers : Seq([id : Address, capture : Nat, bytes : Nat]),
     nodes     : Seq([id : Address, amount : Int]),
     delegates : Seq([id : Address, node : Address, amount : Int]),
     treasury  : Int]

ASSUME OwnerAssumption == Owner \in Address
ASSUME StreamsAssumption == IsFiniteSet(DataStream)
ASSUME ReportsAssumption == EmptyId \in Id /\ Content \subseteq Reported

VARIABLES store,                       \* see StoreManager
          query,                       \* see QueryManager
          reports, lastReportId        \* see ReportLedger

(* What the two other contracts pay out goes to the node manager.          *)
Stores  == INSTANCE StoreManager WITH User <- Address, Stream <- DataStream,
                                      captured <- held, MaxCapture <- 0
Queries == INSTANCE QueryManager WITH Consumer <- Address,
                                      captured <- held, MaxCapture <- 0
Ledger  == INSTANCE ReportLedger WITH Height <- 1 .. MaxHeight

nodeVars == <<block, lastSeen, next, prev, index, headNode, tailNode, totalNodes,
              startBlockNumber, whitelist, requiresWhitelist, streams, streamIndex>>
managerButWallet == <<nodeVars, held, totalSupply, balanceOf, delegatesOf, stakeOf,
                      treasurySupply, canPublish>>
ledgerVars == <<reports, lastReportId>>
vars == <<managerButWallet, wallet, store, query, ledgerVars>>

Init == /\ ManagerInit
        /\ store = Stores!EmptyStore
        /\ query = Queries!EmptyQuery
        /\ Ledger!Init

-------------------------------------------------------------------------------
(* processReport.                                                          *)

(* An entry without bytes is passed over.                                  *)
Billed(entry) == entry.bytes > 0

(* The states of the store manager from capture to capture, and those of   *)
(* the query manager.  A capture that is refused reverts the whole, see    *)
(* StoresCapture and QueriesCapture: what would follow does not matter.    *)
StoreStates(entries) ==
    LET after[i \in 0 .. Len(entries)] ==
          IF i = 0 THEN store
          ELSE LET e == entries[i] IN
               IF Billed(e) /\ Stores!CanCapture(after[i - 1], e.id, e.capture)
               THEN Stores!Captured(after[i - 1], e.id, e.capture)
               ELSE after[i - 1]
    IN  after

QueryStates(entries) ==
    LET after[i \in 0 .. Len(entries)] ==
          IF i = 0 THEN query
          ELSE LET e == entries[i] IN
               IF Billed(e) /\ Queries!CanCapture(after[i - 1], e.id, e.capture)
               THEN Queries!Captured(after[i - 1], e.id, e.capture)
               ELSE after[i - 1]
    IN  after

StoresCapture(entries) ==
    \A i \in 1 .. Len(entries) :
       Billed(entries[i]) => Stores!CanCapture(StoreStates(entries)[i - 1], entries[i].id,
                                               entries[i].capture)

QueriesCapture(entries) ==
    \A i \in 1 .. Len(entries) :
       Billed(entries[i]) => Queries!CanCapture(QueryStates(entries)[i - 1], entries[i].id,
                                                entries[i].capture)

(* What the node manager adds to its supply: all of the fees, paid or not. *)
FeesOf(entries) == [i \in 1 .. Len(entries) |-> IF Billed(entries[i]) THEN entries[i].capture ELSE 0]

Fees(content) == SumFunction(FeesOf(content.streams)) + SumFunction(FeesOf(content.consumers))

Clamped(amount) == IF amount > 0 THEN amount ELSE 0

NodeStakes(changes) ==
    LET after[i \in 0 .. Len(changes)] ==
          IF i = 0 THEN stakeOf
          ELSE [after[i - 1] EXCEPT ![changes[i].id] = Clamped(@ + changes[i].amount)]
    IN  after[Len(changes)]

(* Each node named has its access checked as its stake changes.            *)
AccessOf(changes) ==
    LET named == {changes[i].id : i \in 1 .. Len(changes)}
        staked == {n \in named : NodeStakes(changes)[n] >= StakeRequired}
    IN  (canPublish \ (StreamKeys \X named)) \cup (StreamKeys \X staked)

Delegations_Kept(changes) == delegatesOf                       \* mutant
Delegations(changes) ==
    LET after[i \in 0 .. Len(changes)] ==
          IF i = 0 THEN delegatesOf
          ELSE [after[i - 1] EXCEPT ![changes[i].id][changes[i].node] =
                                       Clamped(@ + changes[i].amount)]
    IN  after[Len(changes)]

Treasury(amount) == Clamped(treasurySupply + amount)

EmptyContent == [streams |-> <<>>, consumers |-> <<>>, nodes |-> <<>>,
                 delegates |-> <<>>, treasury |-> 0]

(* getReport of an id nothing was reported under gives an empty report.    *)
ContentOf(id) == IF reports[id].content = NoContent THEN EmptyContent
                                                    ELSE reports[id].content

Paid(store1, query1) == (store.held - store1.held) + (query.held - query1.held)

ProcessReport(caller, id) ==
    LET content == ContentOf(id)
        written == content.streams
        read == content.consumers
    IN  /\ stakeOf[caller] >= StakeRequired
        /\ Ledger!Process(id)
        /\ StoresCapture(written)
        /\ QueriesCapture(read)
        /\ store' = StoreStates(written)[Len(written)]
        /\ query' = QueryStates(read)[Len(read)]
        /\ held' = held + Paid(store', query')
        /\ totalSupply' = totalSupply + Fees(content)
        /\ stakeOf' = NodeStakes(content.nodes)
        /\ canPublish' = AccessOf(content.nodes)
        /\ delegatesOf' = Delegations(content.delegates)
        /\ treasurySupply' = Treasury(content.treasury)
        /\ UNCHANGED <<nodeVars, wallet, balanceOf>>

-------------------------------------------------------------------------------
(* The other transactions.                                                 *)

(* The managers beside the node manager leave its variables alone, but for *)
(* the wallets their stakers pay from.                                     *)
ManagerStep == ManagerNext /\ UNCHANGED <<store, query, ledgerVars>>

TreasuryStep == \E amount \in Amounts : /\ TreasuryWithdraw(Owner, amount)
                                                /\ UNCHANGED <<store, query, ledgerVars>>

StakeStep ==
    \E a \in Address, amount \in Amounts :
       \/ \E s \in DataStream : /\ Stores!Stake(a, s, amount)
                                /\ UNCHANGED <<managerButWallet, query, ledgerVars>>
       \/ /\ Queries!Stake(a, amount)
          /\ UNCHANGED <<managerButWallet, store, ledgerVars>>

AcceptStep ==
    \E id \in Id, height \in 1 .. MaxHeight, content \in Content :
       /\ Ledger!Accept(id, height, content)
       /\ UNCHANGED <<managerButWallet, wallet, store, query>>

ProcessStep == \E caller \in Address, id \in Id : ProcessReport(caller, id)

Next == ManagerStep \/ TreasuryStep \/ StakeStep \/ AcceptStep \/ ProcessStep

Spec == Init /\ [][Next]_vars

-------------------------------------------------------------------------------
(* Types of the state.                                                     *)
TypeOK == ManagerTypes /\ Stores!TypeOK /\ Queries!TypeOK /\ Ledger!TypeOK

(* No transaction of any of the contracts makes or loses a token.          *)
TokensConserved ==
    SumFunction(wallet) + held + store.held + query.held = SumFunction(InitialTokens)

(* The store manager holds exactly what its streams have, and the query    *)
(* manager what its consumers have: a report that bills several of them,   *)
(* or the same one twice, takes from each what is its own.                 *)
FeesHeld == Stores!HeldIsStored /\ Queries!HeldIsStaked

(* Whatever is captured, the node manager never counts a smaller supply    *)
(* than it holds, so that the subtraction from the supply never refuses a  *)
(* payment of tokens that are there.                                       *)
SupplyCoversHeld == totalSupply >= held

(* Staked fees leave the store and query managers only while a report that *)
(* was accepted turns from not processed to processed: no report bills     *)
(* twice.                                                                  *)
BilledOnce ==
    [][store'.held < store.held \/ query'.held < query.held =>
          \E id \in Id : /\ reports[id].height > 0
                         /\ ~reports[id].processed /\ reports'[id].processed]_vars

(* What the node manager owes: the stakes not delegated, the delegations   *)
(* and the treasury.                                                       *)
Owed == SumFunction(balanceOf) + SumFunction([a \in Address |-> DelegatedBy(a)])
            + treasurySupply

(* A report is fair if it shares out exactly the fees it captures, takes   *)
(* nothing away, and changes a stake as much as the delegations to it.     *)
AmountTo(changes, n) ==
    SumFunction([i \in 1 .. Len(changes) |-> IF changes[i].id = n THEN changes[i].amount ELSE 0])
DelegatedAmount(changes, n) ==
    SumFunction([i \in 1 .. Len(changes) |-> IF changes[i].node = n THEN changes[i].amount ELSE 0])

Fair(content) ==
    /\ content.treasury >= 0
    /\ \A i \in 1 .. Len(content.nodes) : content.nodes[i].amount >= 0
    /\ \A i \in 1 .. Len(content.delegates) : content.delegates[i].amount >= 0
    /\ \A n \in Address : AmountTo(content.nodes, n) = DelegatedAmount(content.delegates, n)
    /\ content.treasury + SumFunction([n \in Address |-> AmountTo(content.nodes, n)])
         = Fees(content)

(* While only fair reports have been processed the books balance: what is  *)
(* owed is the supply that is counted, and the stake of a node is backed   *)
(* by tokens delegated to it, however old a report is when it is processed *)
(* and whatever stakers and nodes did in between.                          *)
FairSoFar == \A id \in Id : reports[id].processed => Fair(ContentOf(id))

BooksBalance ==
    FairSoFar => /\ Owed = totalSupply
                 /\ \A n \in Address : stakeOf[n] <= DelegatedTo(n)

(* Through reports, stakes and captures in any order the four contracts    *)
(* keep agreeing on the tokens.                                            *)
BooksAgree == TypeOK /\ TokensConserved /\ FeesHeld /\ SupplyCoversHeld /\ BooksBalance
===============================================================================
