------------------------------- MODULE StoreIndex -------------------------------
(***************************************************************************)
(* The list of stored streams (LogStoreRegistry.getStoredStreams), which   *)
(* the client reads page by page from an index of the chain (subgraph),    *)
(* and what makes it wait until the index has the block it requires        *)
(* (SynchronizedGraphQLClient).                                            *)
(*                                                                         *)
(* Each query that has to wait has a gate of its own, and the gates that   *)
(* are open are removed, so that the gates are those of the queries that   *)
(* wait.  The next page is asked for by the id of the last row, which the  *)
(* query does not select: it comes out as the word "undefined".            *)
(***************************************************************************)
EXTENDS ClientChain

CONSTANTS Listing,         \* calls of getStoredStreams
          Poll,            \* bound: loops of startPolling under way
          PageSize,
          Undefined        \* the place of "undefined" in the order of the names

ASSUME IndexAssumption == PageSize \in Nat \ {0} /\ Undefined \in Nat

VARIABLES indexed,         \* blocks that the subgraph has indexed
          required,        \* requiredBlockNumber
          seenBlock,       \* IndexingState.blockNumber
          polls,           \* polls[p]: [pc, block]
          pollFailed,      \* some poll has thrown
          listings         \* listings[q]: [pc, need, after, got, block, full, ears, from]

indexVars == <<indexed, required, seenBlock, polls, pollFailed, listings>>

Unlisted == [pc |-> "idle", need |-> 0, after |-> 0, got |-> {}, block |-> MaxBlocks,
             full |-> FALSE, ears |-> {}, from |-> 0]

IndexInit == /\ indexed = 0 /\ required = 0 /\ seenBlock = 0
             /\ polls = [p \in Poll |-> [pc |-> "off", block |-> 0]]
             /\ pollFailed = FALSE
             /\ listings = [q \in Listing |-> Unlisted]

(* The handlers of the subgraph save an entity for each event.             *)
IndexBlock == /\ indexed < Len(chain)
              /\ indexed' = indexed + 1
              /\ UNCHANGED <<chain, required, seenBlock, polls, pollFailed, listings>>

Entities == {[id |-> i, store |-> chain[i].store] : i \in {j \in 1 .. indexed : IsStore(j)}}

(* The application tells of a transaction of its own.                      *)
UpdateRequiredBlockNumber(block) ==
    /\ block > required
    /\ required' = Max({block, required})
    /\ UNCHANGED <<chain, indexed, seenBlock, polls, pollFailed, listings>>

-------------------------------------------------------------------------------
(* waitUntilIndexed.                                                       *)

Gates == {q \in Listing : listings[q].pc = "gate"}

(* The listeners of that moment and the block they hear next are noted for *)
(* StoresKnown.                                                            *)
GetStoredStreams(q, ears, from) ==
    /\ listings[q].pc = "idle"
    /\ listings' = [listings EXCEPT
         ![q].pc = IF required > seenBlock THEN "gate" ELSE "page",
         ![q].need = required, ![q].ears = ears, ![q].from = from]
    /\ IF required > seenBlock /\ Gates = {}
       THEN \E p \in Poll : polls[p].pc = "off" /\ polls' = [polls EXCEPT ![p].pc = "asking"]
       ELSE UNCHANGED polls
    /\ UNCHANGED <<chain, indexed, required, seenBlock, pollFailed>>

GateTimesOut(q) ==
    /\ listings[q].pc = "gate"
    /\ listings' = [listings EXCEPT ![q].pc = "failed"]
    /\ UNCHANGED <<chain, indexed, required, seenBlock, polls, pollFailed>>

(* startPolling: the answer to a poll may be late.                         *)
PollServed(p) ==
    /\ polls[p].pc = "asking"
    /\ polls' = [polls EXCEPT ![p] = [pc |-> "got", block |-> indexed]]
    /\ UNCHANGED <<chain, indexed, required, seenBlock, pollFailed, listings>>

Opened_All(block) == Gates                                     \* mutant
Opened(block) == IF block = seenBlock THEN {} ELSE {q \in Gates : listings[q].need <= block}

PollApplied(p) ==
    LET opened == Opened(polls[p].block) IN
    /\ polls[p].pc = "got"
    /\ seenBlock' = polls[p].block
    /\ listings' = [q \in Listing |-> IF q \in opened THEN [listings[q] EXCEPT !.pc = "page"]
                                      ELSE listings[q]]
    /\ polls' = [polls EXCEPT ![p] = [pc |-> IF Gates \subseteq opened THEN "off" ELSE "resting",
                                      block |-> 0]]
    /\ UNCHANGED <<chain, indexed, required, pollFailed>>

PollAgain_Once(p) == "off"                                     \* mutant
PollAgain(p) == IF Gates = {} THEN "off" ELSE "asking"

PollRested(p) ==
    /\ polls[p].pc = "resting"
    /\ polls' = [polls EXCEPT ![p].pc = PollAgain(p)]
    /\ UNCHANGED <<chain, indexed, required, seenBlock, pollFailed, listings>>

PollFails(p) ==
    /\ polls[p].pc = "asking" /\ ~pollFailed
    /\ polls' = [polls EXCEPT ![p].pc = "off"]
    /\ pollFailed' = TRUE
    /\ UNCHANGED <<chain, indexed, required, seenBlock, listings>>

-------------------------------------------------------------------------------
(* fetchPaginatedResults.                                                  *)

RowBefore(e, f) == e.store < f.store \/ (e.store = f.store /\ e.id < f.id)

PageOf(rows) == {e \in rows : Cardinality({f \in rows : RowBefore(f, e)}) < PageSize}

LastPage(page) == Cardinality(page) # PageSize

FetchPage(q) ==
    LET page == PageOf({e \in Entities : e.store > listings[q].after}) IN
    /\ listings[q].pc = "page"
    /\ listings' = [listings EXCEPT
         ![q].pc = IF LastPage(page) THEN "streams" ELSE "page",
         ![q].after = Undefined,
         ![q].got = @ \union {e.store : e \in page},
         ![q].block = IF indexed < @ THEN indexed ELSE @,
         ![q].full = @ \/ Cardinality(page) = PageSize]
    /\ UNCHANGED <<chain, indexed, required, seenBlock, polls, pollFailed>>

PageFails(q) ==
    /\ listings[q].pc = "page"
    /\ listings' = [listings EXCEPT ![q].pc = "failed"]
    /\ UNCHANGED <<chain, indexed, required, seenBlock, polls, pollFailed>>

(* A stream that cannot be had is left out of the list.                    *)
FetchStreams(q) ==
    /\ listings[q].pc = "streams"
    /\ listings' = [listings EXCEPT ![q].pc = "done"]
    /\ UNCHANGED <<chain, indexed, required, seenBlock, polls, pollFailed>>
================================================================================
