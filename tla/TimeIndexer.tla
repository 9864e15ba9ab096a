------------------------------ MODULE TimeIndexer ------------------------------
(***************************************************************************)
(* TimeIndexer of the validator (validator/src/threads): one child process *)
(* per RPC source prints the final blocks in order, and the index maps the *)
(* timestamp of a block to its number and to the sources that agree.       *)
(*                                                                         *)
(* Every chunk of output starts an asynchronous handler that writes one    *)
(* block in a transaction, waits for it, and goes on with its next block.  *)
(* Transactions run in the order they were asked for, so `pending' is the  *)
(* queue of the handlers that wait for one.  A handler that resumes sets   *)
(* _latestTimestamp and asks for its next transaction before anything else *)
(* can read either, which makes it one step.                               *)
(*                                                                         *)
(* The keys of the pool are seconds, too (rollingConfig).                  *)
(***************************************************************************)
EXTENDS Integers, Sequences, FiniteSets

CONSTANTS Source,          \* the RPC sources of the pool's config
          Height,          \* the latest final block
          Time,            \* Time[b]: timestamp of block b
          FirstBlock,      \* getStartBlockNumber of the node manager
          Starts,          \* what it may start with: current_key of the pool, and
                           \* the Time that each source reports
          ChunkSize,       \* blocks in a chunk of output
          MaxHandlers,     \* bound: handlers that wait at a time
          MaxFaults,       \* bound: what goes wrong, in all
          FirstChange,     \* 2023-07-05T18:00, in seconds
          SecondChange     \* 2023-07-06T05:00

ASSUME ChangesAssumption == /\ FirstChange \in Nat /\ SecondChange \in Nat
                            /\ SecondChange >= FirstChange + 20
ASSUME ChainAssumption ==
    /\ Height \in Nat /\ FirstBlock \in 1 .. Height
    /\ Time \in [0 .. Height -> Nat]
    /\ \A b \in 1 .. Height : Time[b - 1] < Time[b]
    /\ Starts \subseteq Nat \X [Source -> [0 .. Height -> Nat]]
    /\ \A start \in Starts : start[1] = 0 \/ start[1] >= Time[FirstBlock]
    /\ {ChunkSize, MaxHandlers, MaxFaults} \subseteq Nat

VARIABLES poolKey,         \* the current_key it started from
          reported,        \* reported[s][b]: timestamp of b according to s
          startBlock,      \* where every child starts
          next,            \* next[s]: block that the child of s prints next; 0: no child
          pending,         \* handlers that wait for their transaction
          index,           \* the database; b = 0 where there is no entry
          latest,          \* _latestTimestamp; 0 is undefined
          faults           \* what has gone wrong so far

indexVars == <<poolKey, reported, startBlock, next, pending, index, latest>>
timeVars == <<indexVars, faults>>

Timestamps == {reported[s][b] : s \in Source, b \in 0 .. Height}

NoEntry == [b |-> 0, s |-> {}]             \* DEFAULT_DB_VALUE

-------------------------------------------------------------------------------
(* rollingConfig (validator/src/shared/rollingConfig.ts): keys are seconds,*)
(* and the step from a key to the next one was raised at two dates.  The   *)
(* item of a key holds the messages of the step before it.                 *)

KeyStep(key) == IF key > SecondChange THEN 20 ELSE IF key > FirstChange THEN 10 ELSE 1

PrevKeyStep_Curr(key) == KeyStep(key)      \* mutant
PrevKeyStep(key) == KeyStep(key - KeyStep(key))

(* nextKey of the runtime, for a key other than 0.                         *)
NextKey(key) == key + KeyStep(key)

(* What generate asks for, in milliseconds; brokers take both ends as      *)
(* included.                                                               *)
WindowStart(key) == (key - PrevKeyStep(key)) * 1000
WindowEnd(key) == key * 1000

-------------------------------------------------------------------------------
(* findBlock: interpolation search.  Math.round rounds halves up.          *)

Clamp(id, minId, maxId) == LET low == IF id > maxId THEN maxId ELSE id
                           IN  IF low < minId THEN minId ELSE low

CurId(ts, minId, maxId, time) ==
    LET num == (ts - time[minId]) * (maxId - minId)
        den == time[maxId] - time[minId]
    IN  Clamp(minId + (2 * num + den) \div (2 * den), minId, maxId)

(* A search of an empty interval returns its minId, by the clamp.          *)
FindBlock(ts, time) ==
    LET search[minId \in Nat, maxId \in Int] ==
            LET curId == CurId(ts, minId, maxId, time)
                min == IF time[curId] < ts THEN curId + 1 ELSE minId
                max == IF time[curId] < ts THEN maxId ELSE curId - 1
            IN  IF time[curId] = ts THEN curId
                ELSE IF min >= max THEN min
                ELSE search[min, max]
    IN  search[0, Height]

-------------------------------------------------------------------------------
(* setupThreads and start: the caches are removed, so that only the key of *)
(* the pool survives a restart of the validator.                           *)

StartKey == IF poolKey = 0 THEN 0 ELSE poolKey - PrevKeyStep(poolKey)

StartBlock(source) == IF StartKey = 0 THEN FirstBlock
                      ELSE FindBlock(StartKey, reported[source])

TimeInit ==
    /\ \E start \in Starts : poolKey = start[1] /\ reported = start[2]
    /\ \A s \in Source : startBlock = StartBlock(s)     \* withSources
    /\ startBlock \in 0 .. Height                        \* else the search throws
    /\ next = [s \in Source |-> 0]
    /\ pending = <<>>
    /\ index = [t \in Timestamps |-> NoEntry]
    /\ latest = 0
    /\ faults = <<>>

(* run of etl, which takes block 0 for none; the exit handler calls it     *)
(* again.                                                                  *)
FromBlock == IF startBlock = 0 THEN Height ELSE startBlock

Spawn_First(s) == /\ faults = <<>> /\ next[s] = 0     \* mutant
                  /\ next' = [next EXCEPT ![s] = FromBlock]
                  /\ UNCHANGED <<poolKey, reported, startBlock, pending, index, latest, faults>>
Spawn(s) ==
    /\ next[s] = 0
    /\ next' = [next EXCEPT ![s] = FromBlock]
    /\ UNCHANGED <<poolKey, reported, startBlock, pending, index, latest, faults>>

(* A chunk of output: its handler asks for the transaction of its first    *)
(* block.                                                                  *)
Output(s, n) ==
    /\ next[s] # 0 /\ next[s] + n - 1 <= Height
    /\ Len(pending) < MaxHandlers
    /\ pending' = Append(pending, [source |-> s,
                                   blocks |-> [i \in 1 .. n |-> next[s] + i - 1]])
    /\ next' = [next EXCEPT ![s] = @ + n]
    /\ UNCHANGED <<poolKey, reported, startBlock, index, latest, faults>>

Exit(s) ==
    /\ next[s] # 0 /\ Len(faults) < MaxFaults
    /\ next' = [next EXCEPT ![s] = 0]
    /\ faults' = Append(faults, "exit")
    /\ UNCHANGED <<poolKey, reported, startBlock, pending, index, latest>>

(* The transaction of the first handler in the queue, and the handler up   *)
(* to its next one.                                                        *)
Resumed(h) == IF Len(h.blocks) = 1 THEN <<>> ELSE <<[h EXCEPT !.blocks = Tail(@)]>>

Agrees_Any(entry, block) == TRUE           \* mutant
Agrees(entry, block) == entry = NoEntry \/ entry.b = block

Index ==
    /\ pending # <<>>
    /\ LET h == Head(pending)
           block == Head(h.blocks)
           timestamp == reported[h.source][block]
       IN  /\ Agrees(index[timestamp], block)
           /\ index' = [index EXCEPT ![timestamp] = [b |-> block, s |-> @.s \union {h.source}]]
           /\ latest' = timestamp
           /\ pending' = Tail(pending) \o Resumed(h)
    /\ UNCHANGED <<poolKey, reported, startBlock, next, faults>>

(* The error of a transaction ends its handler, with the rest of its chunk.*)
Refuse ==
    /\ pending # <<>>
    /\ LET h == Head(pending)
           block == Head(h.blocks)
       IN  ~Agrees(index[reported[h.source][block]], block)
    /\ pending' = Tail(pending)
    /\ UNCHANGED <<poolKey, reported, startBlock, next, index, latest, faults>>

Indexing == \/ \E s \in Source : Spawn(s) \/ \E n \in 1 .. ChunkSize : Output(s, n)
            \/ Index
            \/ Refuse

TimeNext == Indexing \/ \E s \in Source : Exit(s)

(* Children are started and print, transactions are committed.             *)
TimeFairness == WF_timeVars(Indexing)

-------------------------------------------------------------------------------
Entries == {t \in Timestamps : index[t] # NoEntry}

(* find: the nearest entry from the timestamp on.  It throws without one.  *)
Later(timestamp) == {t \in Entries : t >= timestamp}

Nearest(timestamp) == LET t == CHOOSE t \in Later(timestamp) : \A u \in Later(timestamp) : t <= u
                      IN  index[t].b

TimeTypeOK ==
    /\ <<poolKey, reported>> \in Starts /\ startBlock \in 0 .. Height
    /\ next \in [Source -> 0 .. Height + 1]
    /\ \A i \in 1 .. Len(pending) : /\ pending[i].source \in Source
                                    /\ pending[i].blocks \in Seq(1 .. Height)
    /\ index \in [Timestamps -> [b : 0 .. Height, s : SUBSET Source]]
    /\ latest \in Timestamps \union {0}
    /\ Len(faults) <= MaxFaults
================================================================================
