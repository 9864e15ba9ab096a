# Log Store network: TLA+ specifications and proofs

This directory holds TLA+ models of the Log Store monorepo, the TLC
configurations that check them on small instances, and proofs of theorems about
them. Paths below are relative to `src/packages/`.

## The system

| part | state it keeps | operations | talks to |
| --- | --- | --- | --- |
| Node manager, `contracts/src/NodeManager.sol` | list of nodes (`nodes`, `headNode`, `tailNode`, `totalNodes`, `startBlockNumber`), `balanceOf`, `delegatesOf`, `totalSupply`, `treasurySupply`, whitelist, system streams | join, leave, stake, delegate and their inverses, upsert/remove node, streams, `processReport` | token, Streamr registry, the three contracts below |
| Store manager, `contracts/src/StoreManager.sol` | `stores`, `storeStakeholders`, `balanceOf`, `storeBalanceOf`, `totalSupply` | `stake`; `capture`, called by the node manager | token |
| Query manager, `contracts/src/QueryManager.sol` | `balanceOf`, `totalSupply` | `stake`; `capture` | token |
| Report manager, `contracts/src/ReportManager.sol` | `reports`, `reportProofs`, `reputationOf`, `lastReportId` | `report`, `processReport`, `getReporters` | reads the list of nodes and their stake |
| Validator runtime, `validator/src/runtime.ts`, `core`, `managers` | a cache of the stores per source | KYVE callbacks `nextKey`, `getDataItem`, `summarizeDataBundle` | the threads below, contracts over several RPC sources, brokers |
| Time indexer, `validator/src/threads/TimeIndexer.ts` | database timestamp -> block and sources, a child process per source, `_latestTimestamp` | chunks of output, exits, `find` | chain sources |
| System listener and recovery, `validator/src/threads/System*.ts` | a database per message type, `_latestTimestamp`, metrics; progress of each broker, timers | live messages; requests, responses, completions, restarts | Streamr system and recovery streams, brokers over HTTP |
| Protocol, `protocol/src` | none | (de)serialisation of system messages and reports, the hash of a report | validator, client, brokers, report manager |
| Query streams of the client, `client/src/Queries.ts`, `HttpUtil.ts`, `LogStoreMessageStream.ts`, `streamr/utils` | lines, buffer, two gates, two shared observables | query, read, leave, abort | a broker over HTTP |
| Verification, `client/src/utils/networkValidation` | what a query verification has collected | one net of observables | system stream, contract, HTTP answer |
| Stores and urls, `client/src/registry`, `events.ts`, `utils` | gates for the subgraph, listeners, a cache of urls, the last list | list, listen, `getNodeUrlsByLatency` | subgraph, contracts, heartbeats |
| Staking, `client/src/registry`, `shared/src`, `cli/src` | none but the pending transaction | stake, mint, allow, replace a transaction | chain |
| Subgraph, `subgraph/src` | entities | handlers of contract events | chain, client |
| Pulse, heartbeat, benchmarks, dev network | a timer, a list | one call each | - |

The broker node (`src/modules/logstore-node`) is a git submodule and not part of
the repository.

### What is hard

* Contracts: transactions come in any order from any account; a report is
  accepted long before it is processed, while stakes, delegations and nodes
  change; several amounts (supply, balances, per-stream balances, lists) mirror
  each other and are updated by hand; Solidity arithmetic truncates and reverts.
* Reporting: who may report depends on the time, on the order of reputations and
  on timestamps that the sender supplies.
* Validator: handlers of several child processes and subscriptions interleave at
  every `await`; caches of several sources are filled by calls that may fail half
  way and go on after the attempt is given up; a recovery asks brokers over HTTP
  and gets its answers over a stream, in no fixed order, with gaps, timeouts and
  restarts, while the same messages come live.
* Client: several producers and consumers suspend and resume over gates, buffers
  and shared observables, and leave at any time; answers come in any order, late,
  or after the value that replaces them; polls fail and overlap.
* Staking: a read, a confirmation and up to two transactions, each of which may be
  replaced while it is mined, and other programs use the same account.

`PROJECT.json` lists each hazard at its line with the properties that cover it.

### What makes each part correct

* Node list: it stays one list of the registered nodes.
* Fees and stakes: nobody is paid with the tokens of another, every mirror
  (supply, balances, lists) agrees with what it mirrors, a report is billed once.
* Reports: one reporter at a time, everyone in turn, accepted by half of the
  nodes, processed at most once.
* Recovery and listener: nothing below the recovered time is missing, every message
  is stored once and as it was published, and the recovery goes on to its end.
* Time index and items: an entry never changes, an item holds every message of its
  window, and items keep coming.
* Reports on the wire: validator, brokers and contract compute the same hash.
* Query streams: what is read was asked for, is whole or ends in an error, and
  reader and writer do not wait for one another.
* Verification: an answer counts as verified only when the nodes that should
  answer did, about this query, and agree.
* Stores and urls: a list is as new as it says, what comes later is heard of, the
  urls become those of the contract.
* Staking: tokens are staked once, and what a command says of it is true.

## Modules

| module | models | role |
| --- | --- | --- |
| `NodeList` | the nodes as a sequence | abstract specification of the list |
| `NodeRegistry` | `_upsertNode`, `_removeNode`, `nodeAddresses` | the doubly linked list; implements `NodeList` |
| `NodeManager` | every other transaction of the node manager, but `processReport` | extends `NodeRegistry` with the rest of the contract's state |
| `StoreManager`, `QueryManager` | the two fee contracts | state in one record, so that a report can be followed capture by capture |
| `ReportLedger` | what a report is from acceptance to processing | abstract specification of reports |
| `ReportManager` | `report`, `processReport`, order of reporters, turns, reputations | implements `ReportLedger` |
| `LogStoreNetwork` | `processReport` over all contracts | extends `NodeManager`, composes it with `StoreManager`, `QueryManager` and `ReportLedger` |
| `SystemRecovery` | `SystemRecovery` and `ActivityTimeout` of the validator | brokers and both channels are its environment |
| `SystemMessages` | the types of system messages and their serialisation | operators |
| `SystemReports` | draft, serialisation and hash of a report, in the validator, the protocol and the contract | operators |
| `SystemListener` | the listener, its databases and metrics, the publishers | uses the two above; the recovery as its other source |
| `TimeIndexer` | the step between keys, the time index | part of `DataItems` |
| `DataItems` | `getDataItem`: readiness, stores from every source, messages | the validator over index, contracts and brokers |
| `Gate`, `PushBuffer` | a gate; a buffer with a read and a write gate | part of `QueryStream` |
| `QueryStream` | an HTTP answer on its way to its readers | composes the two above |
| `NetworkValidation` | `client/src/utils/networkValidation` | brokers, contract and HTTP answer are its environment |
| `ClientChain` | the chain as the client reads it | shared by the three below |
| `StoreIndex` | `getStoredStreams`, the subgraph, waiting for it, paging | part of `ClientViews` |
| `StoreEvents` | listeners of `createStore`, the gateway to the contract's events | part of `ClientViews` |
| `NodeUrls` | urls by latency, with their cache | part of `ClientViews` |
| `ClientViews` | what a client knows of the chain | composes the three |
| `Mempool` | one account: nonces, replacement, allowances, stakes | part of `StakeCommands` |
| `SpeedUp` | waiting for a transaction that the user may raise | part of `StakeCommands` |
| `StakeCommands` | staking and minting by the commands and the client | two programs over one `Mempool` |
| `Induction` | - | lemmas: induction by a minimal counterexample, functions defined by recursion, sums over finite sets |
| `LogStoreNetworkProofs`, `StoreManagerProofs`, `ReportManagerProofs`, `SystemRecoveryProofs`, `DataItemsProofs`, `SystemListenerProofs`, `ClientProofs` | - | theorems and their proofs; the first also has those of the registry and of the node manager by themselves, the last those of staking, of verification, of the lists of stores and of query streams |
| `MC...` | - | values of the constants, bounds and symmetry for TLC |

The client's specifications are named after their part (`StakingSpec`,
`ValidationSpec`, `ViewsSpec`, `StreamSpec`, likewise `Init`, `Next` and `vars`), as
`ClientProofs` extends several of their modules.

Definitions marked `\* mutant` are plausible faults of the definition they stand
before; nothing uses them.

### How state and actions correspond to the code

In the contracts a transaction is one step. A `require`, a checked subtraction, or
a failing token transfer disables the step, since a revert leaves no trace; the
order of the effects inside a transaction matters only where the code reads what
it wrote before, and there the definitions follow it. In TypeScript what runs
between two awaits (or callbacks) is a step, with everything it sets off before
control returns; the network, the chain, timers and users are actions of the
environment, which may fail where a fault bound allows it.

* `NodeRegistry`: the mapping `nodes` is split into one function per field;
  `IsNode(a)` is `lastSeen != 0`. `Walk` follows `next` as `nodeAddresses` does
  and may revert, as the code does when the list is longer than `totalNodes`.
  The chain only contributes its block number (`AdvanceBlock`).
* `NodeManager`: `wallet` and `held` are the token balances of the accounts and
  of the contract. `canPublish` stands for the publish rights the Streamr
  registry holds on system streams.
* `StoreManager`, `QueryManager`: `held` is the contract's token balance; the
  helper operators take the state record and return the next one
  (`Captured(st, s, amount)`), with `CanCapture` for what would revert.
* `ReportManager`: a proof is a record of signer, timestamp and whether its
  signature verifies, the time is in units of seconds, and `Precision` is the
  constant `MATH_PRECISION`. The bubble sort is written as its passes; the turn
  computation keeps the truncating divisions of the code. The content of a
  report, which the contract only copies, is a model value.
* `LogStoreNetwork`: `ProcessReport` runs the captures of streams and consumers
  one after the other through the records of the two fee contracts, then the
  signed changes of node stakes, delegations and treasury, clamped at 0. The
  acceptance of a report is that of `ReportLedger`, which `ReportManager` is shown
  to implement.
* `SystemRecovery`: `callRecoveryEndpoint` is cut at its POST into `SendRequest`
  and `Answer`, the handler of a response at the message it stores
  (`TakeResponse`, `StoreMessage`, `FinishResponse`); timers that nothing refers to
  any more are counted (`leaked`), as they still fire. A message is its timestamp.
  Each broker replies to a request with its messages from `from` on, in chunks, up
  to `RoundLimit`, and its stream keeps their order; streams of different brokers
  and the HTTP answer have no order among them.
* `SystemListener`: `Publish` and `Deliver` are the publishers and the network, in
  the order of each publisher; `immediates` and `transactions` are the two queues a
  live message passes (`setImmediate`, the database transaction). `Recover` stores
  a message as the recovery does, through the serialisation of its response, while
  live messages arrive, and `OnRecoveryMessage` counts any message of the recovery
  stream in the same metrics. Messages and reports are records; an array form is a
  sequence with `Null` where JSON has null, and that is the only thing by which a
  message that went through the recovery may differ.
* `SystemReports`: numbers in hex and packed texts are tagged values, so that a
  hash is the packed sequence it is made of; order, signs and grouping are those of
  the code on both sides.
* `TimeIndexer`, `DataItems`: `pending` is the queue of handlers that wait for a
  transaction (LMDB runs them in the order asked for). `calls[s]` are the calls of
  `getStores` under way for a source, also those of an attempt that was given up;
  `ApplyUpdates` and `ApplyFees` are the answers to its two event queries. The
  stores a query loop goes through are those of the cache, not a copy, as in the
  code. An item is a bag of messages. `heard` is the listener's timestamp.
* `QueryStream`: `lines` is the asynchronous generator `fetchHttpStream` with its
  queue of calls, `lineShare` and `msgShare` the two `shareReplay`, `pulling` the
  loop of `pull`, `gens` the generators of `iterate`, `body` the loop that feeds
  the node stream in a browser. Several loops may be under way, as a share that
  everybody has left starts anew.
* `NetworkValidation`: a step is one event at an input of the net of observables.
  `latest` and `candidate` are what the `combineLatest` operators hold; `CheckCompletion` is
  the `switchMap` that starts the completion check afresh at each emission of
  `startCollecting$`. `missed` is a history variable: messages that came before the
  address was known. When one event completes both the conditions and the time out,
  either side of the race may win (`Settle`).
* `ClientViews`: a block is one transaction. A listing goes through `gate`, `page`
  and `streams`; `polls` are the loops of `startPolling`, of which there may be
  two. `updateRequiredBlockNumber` is called by the application: nothing in the
  repository calls it. Listeners come and go at any time; `ears` and `from` note
  who listened, and from which block, when a listing was asked for. In `NodeUrls`
  an update listens to heartbeats, looks urls up through the cache (fresh, or stale
  with a refresh in the background) and replaces the list; `Tick` lets cached
  values age.
* `StakeCommands`: every script is a sequence of stages (`Script`) run by the same
  steps: begin, read balance and allowance, ask, populate, submit, wait. `Mempool`
  holds the transactions by nonce: of those under one nonce one is mined.
  `SpeedUp` is the prompt beside the wait. Amounts are small numbers; `Rate` and
  `Unit` stand for the prices and decimals. `queryStake` converts its amount with
  `Number` (`QueryManager.ts:136`), which is exact only below 2^53 of the smallest
  unit: what it loses above that is left out.

## Runs

| run | question | bounds |
| --- | --- | --- |
| `node_registry` | is the linked list a list, is the start block stable, does it implement `NodeList` (whose transactions return all nodes)? | 4 nodes (head, tail, two in the middle, all orders), blocks up to 3 |
| `node_manager` | are the tokens counted held, are stakes and rights sound (nobody pays for another, stakes are backed, staked nodes may publish), are streams indexed? | 2 accounts with 2 tokens, required stake 2, 2 streams |
| `store_manager` | do tokens, streams and accounts agree over stakes and captures? | 2 accounts with 4 tokens, 2 streams, captures up to 5, so that overflows and repeated stakeholders occur |
| `report_manager` | order and turns of reporters, majority, reputations, ledger | 3 accounts, 2 report ids, up to 3 proofs, blocks and time up to 2 |
| `network` | do tokens, fees, supply and books agree over whole reports, is each billed once? | 2 accounts, 1 stored stream, three kinds of report (reward, storage billed twice, penalty) under 2 ids |
| `system_recovery` | is nothing missed and success true, does the recovery go on and end? | 2 brokers that hold different messages, 2 rounds, up to 5 requests, 1 lost message, 1 reply that overtakes its HTTP answer, 1 activity timeout while messages are in flight |
| `system_listener` | is a message stored once and as published on either way, are losses counted truly beside the recovery, what is `latestTimestamp` worth, does every proof verify in the contract? | 2 publishers, 3 messages of every type and every kind of query, options left out, a publisher that counts from 0 and one from 5, 1 message lost, recovery messages with numbers 0, 1 and 3 while at most 1 is counted as lost of their types (`MaxCounted`), 3 shapes of report |
| `data_items` | does an item hold its window, do entries stay, do items keep coming? | 2 sources, 3 blocks with an update and a fee, a lying source, keys 1 second and 10 seconds apart with the change between, pool at its start or restarted, chunks of 2, 2 handlers at a time, 1 exit, failed query or broken answer |
| `network_validation` | is a verified answer right, are responses kept, when can the verification wait for ever? | 2 nodes, 2 message ids, the client's request beside one with the same input, with another input, or to another node, in five mixtures and every order, 1 message lost |
| `query_stream` | is an answer whole or an error, do readers and writer end? | 3 stored messages of 2 publishers, every kind of query, with and without an invalid line, buffer of 1, node stream of 2, 2 readers and a subscriber of the metadata, 2 loops over each share, browser or not, a failure at any step |
| `client_views` | are lists up to date, do they end, are later stores heard, do urls come right? | 2 blocks, names on both sides of "undefined", pages of 2, 2 listings, 2 listeners (one of them `once`), 2 polls; 2 nodes, 2 reads, 1 failure |
| `stake_commands` | is what a command reports true, does one alone succeed, does each end? | 2 programs in 6 pairs of scripts, 3 tokens, tips up to 2, 1 call that fails in each possible place |

The bounds on blocks, time, tips and captures only stop counters; each run reaches
the cases its properties are about (a list with inner nodes, an overflow, a tie of
reputations, a report processed after the stakes it names have changed, handlers
that overlap, an index that is built anew behind the key, a full buffer that every
reader has left, a poll that begins beside another, a nonce two programs share).
`Explored` in an MC module names what is cut: in `report_manager` all but one
staked account at a time and what follows a report of the last block (its
acceptance is checked), in `network` it leaves the whitelist unused. Accounts are
symmetric where no constant tells them apart. Deadlock is not checked where all
tokens may be spent, all blocks used or all readers served, which are states the
system may be in.

### Fairness

The contracts only act when called and nobody is obliged to call them: their
specifications have no fairness, and that every node gets a turn is stated as an
invariant over the times to come (`EveryoneGetsATurn`).

Elsewhere the fairness is weak, and of what a runtime, a server or the chain does
by itself: promises settle, queued handlers run, timers fire, brokers and RPC
sources answer, child processes print and are started again, the chain mines, the
subgraph indexes, nodes send heartbeats. What applications, users and operators do
is never fair (a reader reads or leaves, a user raises a tip, a node changes its
url, a listener is taken off), with two exceptions that are premises of what is
promised: a question of a command is answered in the end, and an application that
wants urls goes on asking for them.
Losses and failures are never fair and bounded (`MaxLost`, `MaxFaults`, `MaxUrlFaults`): without an
end of failures no retry could be promised to succeed.

* `RecoveryEnds` holds when no reply overtakes its answer and no timeout fires
  while messages are in flight: each of these can come again and put the recovery
  back.
* `ItemsKeepComing` has one escape, `Torn`; `ListingsEnd` has two, a caller that
  waits behind a failed poll and a full page that comes again for ever (all below).
* System messages may be lost: the client takes its subscription to be ready after
  500 ms (`validateNetworkResponses.ts:75`), and the stream promises no delivery
  (`Lose` of `NetworkValidation`). Those that are not lost come; that the HTTP
  answer and the contract's answers come is a premise. `EndsUnlessRequestMissed`
  names the three ways in which a verification waits for ever then: the client's own
  request was lost, it came before the address of the node was known and was
  replaced, or another with the same input took its place.

### What the code does that a reader may not expect

None of this is assumed away: the properties are stated so that they hold with it,
and the escapes above name it.

Contracts:

* `_removeNode` reads the struct it has just deleted, so the loop after "Go through
  all the nodes after the removed one and reduce the index value"
  (`NodeManager.sol:444`) never runs: `index` is not a place in the list.
* A node that leaves keeps its publish rights, and what was delegated to it cannot
  be taken back when it registers again, as its stake starts at 0.
* The ownership of a stakeholder in a capture is an integer quotient, 0 for
  everyone but the owner of the whole stream (`StoreManager.sol:99`).
* A report with the signatures of exactly half of the nodes reverts, because
  `addresses[i]` is read at the place of a reporter that did not sign
  (`ReportManager.sol:279`).

Validator:

* Handlers of chunks overlap, so `find` may return a later block than it will once
  an earlier one is written: validators may use different blocks for one key.
  `_latestTimestamp` goes back when a child is started again.
* A failure between the two event queries of `getStores` leaves the updates applied
  and the range unread; the retry applies them again, and the caches of two sources
  differ for ever (`Torn`).
* `findBlock` throws when it is asked for a time after the latest block, and a start
  at block 0 means the latest one (`TimeIndexer.ts:156`).
* A reply that overtakes its HTTP answer can leave messages out of the recovery:
  `lastSeqNum` still is that of the request before (`SystemRecovery.ts:295`), so that a
  lost chunk goes unnoticed; and the round may be complete, and the next start from its
  time, before the other brokers are known (`SystemRecovery.ts:332`), even when nothing
  is lost. `NothingMissed` is stated for replies that come after their answer.
* Listener and recovery have one `MessageMetricsSummary` (`runtime.ts:143`). The
  recovery updates it with every message of its stream, whoever asked for it
  (`SystemRecovery.ts:227`), and each answer is numbered from 0 again: a gap between
  two answers is counted as lost messages that were not. `LostIsLost` is
  about the types that the listener alone counts; `OnRecoveryMessage` lets any number
  of the recovery follow any other, and the counts of the others stay true.
* A message at exactly `key * 1000` is in two items; an answer that breaks off and
  is repeated puts its first messages into the item twice.
* `getDelegates` (`managers/NodeManager.ts:114`) discards the result of `add`: the
  amounts it returns are 0. `Heartbeat.onlineBrokers` pushes nothing into its
  lists. Reports use neither at present.

Client:

* The time out of a verification is combined with the request of the query, and so
  never fires when that was lost or replaced (`validateNetworkResponses.ts:182`),
  though the comment before the function promises an error (line 53). It can happen
  with no message lost. Responses are told apart by the publisher of
  the request, which all have in common, so no propagate is ever waited for
  (`checkCollectionCompletion.ts:51`).
* `query({ last: 0 })` gives a stream that never ends. After a reader has left
  early, a later one may get a truncated or empty stream without an error. The
  observables queue without bound, so the buffer holds no line back.
* The cleanup of `WebStreamToNodeStream` is not registered: a write that waits for
  a drain goes on waiting when the stream is destroyed.
* A poll for the subgraph that fails leaves its gates: later callers do not poll
  until these time out. A gate that has timed out may lead to a second poll, and
  the block number then goes back.
* Pages are asked for by an id that the query does not select, so every page after
  the first is the one after the word "undefined"; each `StoreUpdated` is an entity
  of its own, so a store staked for twice is listed twice.
* A rejected promise is cached like a value; the last list of urls stays when no
  node has a url any more; an update begun after `destroy` is not aborted.

Staking:

* When a transaction was replaced, the status of the replacement's receipt is not
  looked at: one that was reverted, or belongs to another program with the same
  nonce, counts as success. An answer lost on submission is "failed", though the
  stake may be mined.
* Success is followed by reading the fee in the same `try`: when that fails, the
  command reports a failure of what has succeeded.
* `approve` overwrites the allowance of another program, and stays when the stake
  fails. A tip of 0 never rises.

## Proofs

All theorems hold for every value of the constants, under the assumptions that
the modules name: `Nobody` is not an account; the sets of accounts and of stored
streams are finite, as the sums range over them; the tokens an account comes with
are a natural number; buffer and precision are positive and the precision even; a
report names accounts and streams there are, with natural fees and integer changes
(`ReportsAssumption`, the types of the structs in `ReportManager.sol`); a broker
holds messages up to `toTimestamp`; the dates of the key steps are at least 20
seconds apart; the times of blocks increase, the pool starts at key 0 or at one that
is not before the block the contract starts at, and events and messages name stores
there are (`ChainAssumption`, `EventsAssumption`); a request names a node, the client's
names its own query (`RequestAssumption`), and `Nothing`, the absence of one, is no
request or message; a client uses stores and listings there are (`UsesAssumption`);
a node stores messages by increasing references, what is asked of it are numbers and
names or nothing, and `None` is not the name of an error (`StoredAssumption`,
`InputsAssumption` and `NoneAssumption` of `QueryStream`);
messages are numbered in the order of their timestamps, which are not 0,
what may be published are objects of the message classes, a proof is one that
`toProof` makes of a report, and `Undefined`, what stands for a field left out, is no
value of a field that is not an option (`StampAssumption`, `BodiesAssumption`,
`ReportsAssumption` and `UndefinedAssumption` of `SystemListener`); bounds are natural
numbers.

The library's induction principles take an operator as parameter, which the provers
cannot instantiate. `Induction` does without: a set of counterexamples that is not
empty has a smallest one, by numbers (`MinimalNumber`) or by inclusion
(`MinimalSet`), and that one is refuted. From this follow `Climb` (what holds at 0
and climbs by 1 holds up to `n`), `Recursion` (a function defined by recursion over
`0 .. n` exists, so that its `CHOOSE` is what it says) and what `SumFunction` is:
it changes by what one value changes (`SumChanged`, `SumShifted`), keeps an order
(`SumAtMost`), adds up (`SumAdds`), swaps (`SumSwaps`), and is a loop's sum
(`PrefixSteps`).

* The list. `WellFormed` says that some sequence of the registered nodes threads
  through `next` and `prev` from head to tail. It is inductive together with the
  type invariant: for each of the three registrations and for the removal the
  proof gives the sequence that threads the new pointers. By climbing along it,
  `WalkComplete`: `nodeAddresses` meets all nodes and does not revert. With both,
  each step of the registry is one of the abstract list, returned nodes included
  (`RefinesNodeList`).
* The node manager. `ImplementsRegistry` shows that every transaction is a step of
  the list or leaves it alone, which carries the results over. `SupplyIsHeld` and
  `StreamsMirrored` go by the actions, with lemmas for what a deposit, a payment
  and a delegation change; the strengthening of the second is that keys are
  distinct. `OwnTokensOnly` and `StakesBacked` are sums over delegations, of which
  each transaction changes one entry or one row. `RightsFollowStake` needs that
  publish rights are pairs of streams and accounts, and the invariants of the streams
  and of the list: the nodes a transaction returns are the nodes.
* The store manager. `AccountsAlwaysAgree`: the loop of `_capture` over the
  stakeholders is a recursive function over the list. Its invariant, `AccountsIn`,
  says that at every turn each account has as much outside the stream as before,
  and that either no account has changed or one alone covers what the stream is left
  with. That the list names nobody twice is not true of the code and not used.
  `SupplyBounded` is inductive with the types.
* The report manager. `ReportersAlwaysSound`: `Pass` is one run through the list.
  `PassRuns` shows that it permutes and brings the least reputed of the places it
  goes over to the last of them, `PassSettles` that the places behind are final from
  then on, and `SortRuns` climbs over the passes. Turns: `OneReporter` and `EveryTurn`
  rest on facts of integer division (`Division`, `Monotone`, `NextMultiple`) and of
  cycles (`TurnOfCycle`, `NextTurn`): the turn of place `i` is an interval of a cycle,
  those of different places are disjoint, and every cycle has each. `HalfStandBehind`
  and `FullReportsAdvance` follow the loops over proofs and reporters in `report`.
  `RefinesLedger`: every step is an acceptance or a processing of the ledger, or a
  stutter; `LastHighest` follows.
* The contracts together. `BooksAlwaysAgree`: a report is followed through the
  loops of `processReport`. Each capture keeps the store manager's accounts agreed
  (the lemmas of `StoreManagerProofs`, in an instance), what the captures took is
  what reached the node manager, and the signed changes move what is owed by their
  sums, as clamping only rounds up. The strengthening is the invariant of each
  contract. `ReportsBillOnce` and `QuerySupplyBounded` follow the same steps.
* The recovery. `AlwaysDriven`: an unfinished recovery always has a call, an answer,
  a timer or a restart under way; inductive as it stands. `NothingIsMissed` rests
  on `RecoveryInv`, which says of the messages on the way what makes it safe to take
  the next: those of the current request come in the order of the reply
  (`InOrder`); what a broker holds before a message that would be taken next is
  stored (`NextIsSafe`), also across the message being handled (`HandledIsSafe`);
  and the same of the progress (`ProgressIsSafe`). `ReplyIsReply` shows that a reply
  has these properties, whatever the broker holds and however much it sends.
* `WindowsMeet`: by the three ranges of keys; that the dates are 20 seconds apart is
  what the longest step back needs.
* `EntriesNeverMove`: only `Index` writes the index (`OnlyIndexWrites`), and it writes
  where there is no entry or one for the same block. The strengthening is
  `IndexSound`: the sources of every entry reported its block under its timestamp,
  which makes the guard of the transaction enough.
* `ItemsAlwaysComplete`: five invariants under that of the item. The index
  (`TimeSound`): as times increase, the entry that `find` takes is the first block at
  or after the key, or the latest there is (`NearestIsLater`, `BlockOfKey`). The caches
  (`CachesSound`): each covers the stores that events made up to where it has been
  read, each call under way up to where it has got, and calls of attempts that were
  given up do no harm, since applying an event twice adds no store and takes none
  away. The readings (`ReadSound`): the call of the first source reaches the block of
  the key, or its cache does. The answers (`AnswersSound`): the stores asked so far
  have all their messages in the bag, once each, as ids are distinct. The keys
  (`KeysSound`), which `WindowsMeet` joins. The loops over events are recursive
  functions (`FlatHasAll`, `UpdatesApplied`, `FeesApplied`).
* Verification. `VerificationIsRight` needs to know where what is compared comes from.
  What a `combineLatest` holds was delivered, at the input of its type (`LatestSound`),
  so that what the filters pass again, when the address or a request is known, is no
  other than what came. Once the request is known the pools hold only its responses
  (`PoolsSound`): the HTTP answer drops the others from them. A collection that is
  done has an answer of each node of one of the two lists (`CheckSound`), and starts
  again when the pools shrink. With the three, a verification that succeeds is right
  (`SettlesRight`). `ResponsesAlwaysKept`: a response to the client's request passes
  the filter in any state of its other inputs (`OursPass`), as what it excludes are
  requests with another input.
* Lists of stores. `ListsAlwaysUpToDate`: the index is behind the chain, what polls and
  callers have seen of it behind the index, an answer of the subgraph that comes
  late is of a block there was (`NumbersSound`, `PollsSound`). A listing that has passed
  the gate was answered for a block that has what it needs, and what it has got is
  either cut short by a full page or all the stores up to that block
  (`ListingSound`): `ShortPageIsAll` shows, by the rank of a row among those asked for,
  that a page that is not full leaves nothing out, whatever the size of a page.
  Both stay true while chain and index grow (`ListingStays`).
* Staking. `ReportsAlwaysTrue` follows the chain and every command
  (`CommandsSound`). Of the transactions under one nonce at most one is mined, the
  nonces up to the number of mined ones are used and no later one is (`ChainSound`);
  what a command waits for are its own transactions for this stage, under one nonce
  (`WaitSound`); and it has achieved nothing before its last stage. So one of them at
  most stakes, whatever the user raises, and a wait that ends with success
  has seen one mined or another program's in its place. `AloneAlwaysSucceeds` adds what
  a command that nobody runs beside relies on (`AlonesSound`): the nonce it asked for
  still is the next, nothing else is pending, and balance and allowance have what its
  next transaction takes (`Allowed`).

* The listener. `ReadBack`: a message of any type that is written and read is the
  message, but for null in the place of options left out, and so is one that goes
  through the array form of a recovery response (`RecoveredIs`). `HashStamped`,
  `ContractHashIs` and `LastReportIs`: what is packed is a concatenation over the parts
  of a report, the timestamp last, so that two reports with one hash have one with any
  timestamp; `ProofsAlwaysVerify` follows for every published message.
  `ListenerInvariant` has five parts. `Flow`: all that is on its way is what was
  published under its number, in the order of its publisher, and a table has each at
  one place, as two entries of one number would have one hash. `Kept`: a listened
  message is lost, on its way, waiting or stored, and stored if it is below
  `recovered`. `LatestSound`: what its publisher has on the way is later than the
  message `_latestTimestamp` comes from. `CountersSound`: a publisher's messages of a
  type are numbered without a gap. `MetricsSound`: of the types that the
  listener alone counts (`Counted`), what is neither on the way nor lost is not above
  the last number counted, so that a gap in the numbers stands for lost messages above
  it, one each (`GapMissed`), none of which was counted before; what the recovery
  counts changes none of these (`RecoveryKeepsFlow`, `MetricsStay`). The
  first gives that a message is stored once and unchanged, the last that the metrics
  are right (`RecordsAlwaysTrue`), the second and third `HeardIsAlwaysStored`.

### Model-checked only

* What holds under fairness: `RecoveryEnds`, `ItemsKeepComing`, `EveryMessageStored`,
  `EndsUnlessRequestMissed`, `EveryReaderEnds`, `WriterEnds`, `ListingsEnd`,
  `LaterStoresHeard`, `UrlsComeRight`, `CommandsEnd`. Liveness that needs `ENABLED`
  is beyond the provers.

## Not modelled

* Ownership, upgrades and initialisation of the contracts; roles of the LSAN token
  and transfers that nothing here makes; signatures beyond valid or not.
* A POST of the recovery that fails, which ends the process; errors of the HTTP
  answer and of contract calls in a verification, which end it with that error.
* The decrypting pipeline of streamr-client that takes the place of `PushBuffer` when
  a query is not raw, and other dependencies (rxjs beyond the operators used,
  ethers, LMDB, the KYVE protocol node): modelled only as far as the code relies on
  them. A throttled update that begins in the same tick as another is left out.
* What fills a report, which is commented out in `validator/src/core/report.ts`;
  bundles, compression and uploads to Arweave.
* Printing, classification of errors, gas, and the decimals of amounts in the
  commands; the three confirmations that a mint waits for count as one.
* The validation schemas of the client, the commands that are one call each, Pulse,
  the heartbeat, printing of the metrics, benchmarks, deployment scripts, generated code,
  and the handlers of the subgraph other than `handleStoreUpdated`: one-way copies
  and calls with no state of their own to get wrong.
* The broker node, which is not in the repository. What it answers is modelled
  from how the validator and the client use it.

## Left to do

* What a ledger promises of a settled report, through `RefinesLedger`.
