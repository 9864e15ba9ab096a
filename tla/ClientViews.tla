------------------------------- MODULE ClientViews -------------------------------
(***************************************************************************)
(* What a client knows of the chain without having written it: the stored  *)
(* streams (a list read from the index, and the events since), and the     *)
(* urls of the nodes.  An application uses the one or the other (uses);    *)
(* they share nothing but the chain.                                       *)
(***************************************************************************)
EXTENDS StoreEvents, StoreIndex, NodeUrls

CONSTANTS Uses,            \* what an application uses: [listings, listeners, urls],
                           \* and the stores that are staked for then
          FirstChain,      \* for the application that uses the urls
          NodeTxs          \* the changes of metadata that may come

ASSUME UsesAssumption == \A u \in Uses : u.stores \subseteq Store /\ u.listings \subseteq Listing

VARIABLE uses

allEventVars == <<chain, eventVars>>
allIndexVars == <<chain, indexVars>>
viewsVars == <<uses, chain, eventVars, indexVars, urlVars>>

ViewsInit == /\ uses \in Uses
             /\ chain = IF uses.urls THEN FirstChain ELSE <<>>
             /\ EventInit /\ IndexInit /\ UrlInit(uses.urls)

(* Somebody else's transactions.                                           *)
StakeStore == /\ \E s \in uses.stores : AddBlock(StoreUpdate(s))
              /\ UNCHANGED <<uses, eventVars, indexVars, urlVars>>

SetMetadata == /\ \E tx \in NodeTxs : AddBlock(NodeUpdate(tx.node, tx.url))
               /\ UNCHANGED <<uses, eventVars, indexVars, urlVars>>

EventStep == /\ \/ \E l \in uses.listeners : Register(l) \/ Off(l)
                \/ RemoveAllListeners \/ Attach \/ PollEvent
             /\ UNCHANGED <<uses, indexVars, urlVars>>

Heeding == IF producer.pc = "polling" THEN {l \in Listener : registered[l] = "on"} ELSE {}

IndexStep == /\ \/ IndexBlock
                \/ UpdateRequiredBlockNumber(Len(chain))
                \/ \E p \in Poll : PollServed(p) \/ PollApplied(p) \/ PollRested(p) \/ PollFails(p)
                \/ \E q \in uses.listings : \/ GetStoredStreams(q, Heeding, producer.next)
                                            \/ GateTimesOut(q) \/ PageFails(q)
                                            \/ FetchPage(q) \/ FetchStreams(q)
             /\ UNCHANGED <<uses, eventVars, urlVars>>

UrlStep == UrlNext /\ UNCHANGED <<uses, eventVars, indexVars>>

ViewsNext == IF uses.urls THEN SetMetadata \/ UrlStep ELSE StakeStore \/ EventStep \/ IndexStep

(* The subgraph and the provider keep going, and the client goes on with   *)
(* what it has begun.                                                      *)
ViewsSpec == /\ ViewsInit /\ [][ViewsNext]_viewsVars
             /\ WF_allEventVars(Attach \/ PollEvent)
             /\ WF_allIndexVars(~uses.urls /\ IndexBlock)
             /\ \A p \in Poll : WF_allIndexVars(PollServed(p) \/ PollApplied(p) \/ PollRested(p))
             /\ \A q \in Listing : WF_allIndexVars(FetchPage(q) \/ FetchStreams(q))
             /\ UrlFairness

-------------------------------------------------------------------------------
(* A list of stored streams is not older than any block that the client    *)
(* was told to require before it was asked for (SynchronizedGraphQLClient  *)
(* updateRequiredBlockNumber), with two loops of polls or a late answer;   *)
(* and it has every store of a block up to its blockNumber, if no page was *)
(* full (getStoredStreams).                                                *)
ListUpToDate == \A q \in Listing :
    LET listing == listings[q] IN
    /\ listing.pc \in {"page", "streams", "done"} => indexed >= listing.need
    /\ listing.pc = "done" =>
          /\ listing.block >= listing.need
          /\ listing.full \/ \A i \in 1 .. listing.block : IsStore(i) => chain[i].store \in listing.got

(* A listing that has begun comes to an end.  Who waits for the index is   *)
(* let through once it is there, or times out, whoever began to poll and   *)
(* whoever gave up (IndexingState startPolling), unless a poll has failed, *)
(* which nobody notices; and the pages come to an end                      *)
(* (fetchPaginatedResults), unless a page is full of names that sort after *)
(* the word that follows the first page.                                   *)
FullForEver == Cardinality({e \in Entities : e.store > Undefined}) >= PageSize

ListingsEnd == []<>(\A q \in Listing : \/ listings[q].pc \in {"idle", "done", "failed"}
                                       \/ listings[q].pc = "gate" /\ pollFailed
                                       \/ listings[q].pc = "page" /\ FullForEver)

(* "a list of Stream as well as blockNumber of result (i.e. blockchain     *)
(* state)" (LogStoreClient getLogStoreStreams): a store that is not in the *)
(* list because its block is later is heard of by a listener there was     *)
(* when the list was asked for, if that listener had not yet been shown    *)
(* blocks beyond blockNumber and goes on to listen, whoever else is        *)
(* removed (initEventGateway).                                             *)
Later(q) == {i \in DOMAIN chain : IsStore(i) /\ i > listings[q].block}

LaterStoresHeard == []<>(\A q \in Listing, l \in Listener :
    (/\ listings[q].pc = "done" /\ l \in listings[q].ears /\ registered[l] = "on"
     /\ listings[q].from <= listings[q].block + 1) => Later(q) \subseteq heard[l])

================================================================================
