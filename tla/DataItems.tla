------------------------------- MODULE DataItems -------------------------------
(***************************************************************************)
(* The data items of the validator: runtime.ts, core/item.ts, the managers *)
(* that read the contracts, on top of the time index.                      *)
(*                                                                         *)
(* KYVE asks for one item after the other, and again when there is none or *)
(* the runtime throws.  An item takes the block of its key from the index, *)
(* the stores up to that block from every source, and the messages of those*)
(* stores from the brokers.  The managers of a source keep what they have  *)
(* read between items; an attempt that fails on one source leaves the calls*)
(* of the others running.  The listener's timestamp is in `heard' (module  *)
(* SystemListener has the listener itself).                                *)
(*                                                                         *)
(* An item is a bag of messages: generate sorts them by their ids.         *)
(***************************************************************************)
EXTENDS TimeIndexer, SequencesExt, BagsExt

CONSTANTS First,           \* the first source
          Store,           \* streams that there are stores for
          Updates,         \* Updates[b]: StoreUpdated events of block b, <<store, amount>>
          Fees,            \* Fees[b]: DataStored events, <<store, fees>>
          Published,       \* messages on the streams, <<store, milliseconds>>
          LastKey          \* bound: the last key that KYVE asks for, by the pool's key

ASSUME EventsAssumption ==
    /\ First \in Source
    /\ Updates \in [0 .. Height -> Seq(Store \X Nat)]
    /\ Fees \in [0 .. Height -> Seq(Store \X Nat)]
    /\ Published \subseteq Store \X Nat

VARIABLES heard,           \* latestTimestamp of the listener, in seconds
          prevKey, key,    \* the key of the item that KYVE asks for, and the one before
          phase,           \* getDataItem: "waiting", "preparing" or "generating"
          cache,           \* cache[s]: fromBlockNumber and stores of the StoreManager of s
          calls,           \* calls[s]: calls of getStores that are under way
          at,              \* generate: the store it is at
          messages,        \* generate: messages so far
          item             \* the last item delivered

itemVars == <<heard, prevKey, key, phase, cache, calls, at, messages, item>>
vars == <<timeVars, itemVars>>

NoItem == [since |-> 0, key |-> 0, m |-> EmptyBag]      \* the item of key 0

(* KYVE starts with the key after that of the pool, or with key 0, whose   *)
(* item is empty and whose next key is the time of the first block.        *)
FirstKey == IF poolKey = 0 THEN Time[FirstBlock] ELSE NextKey(poolKey)

Init ==
    /\ TimeInit
    /\ heard = 0
    /\ prevKey = poolKey
    /\ key = FirstKey
    /\ phase = "waiting"
    /\ cache = [s \in Source |-> [from |-> 0, stores |-> <<>>]]
    /\ calls = [s \in Source |-> <<>>]
    /\ at = 1
    /\ messages = EmptyBag
    /\ item = NoItem

TimeStep == TimeNext /\ UNCHANGED itemVars

(* The listener has handled messages up to the key.                        *)
Hear == /\ heard < key
        /\ heard' = key
        /\ UNCHANGED <<timeVars, prevKey, key, phase, cache, calls, at, messages, item>>

-------------------------------------------------------------------------------
(* getDataItem and load: getStores is called on every source.  A range that*)
(* was read already is answered from the cache.                            *)

Ready == /\ latest # 0 /\ key <= latest
         /\ heard # 0 /\ key <= heard

FromAfter(s) == IF cache[s].from < FirstBlock THEN FirstBlock ELSE cache[s].from

Prepare ==
    /\ phase = "waiting" /\ key <= LastKey[poolKey]
    /\ Ready
    /\ Later(key) # {}                     \* else find throws
    /\ phase' = "preparing"
    /\ cache' = [s \in Source |-> [cache[s] EXCEPT !.from = FromAfter(s)]]
    /\ calls' = [s \in Source |->
                   IF FromAfter(s) > Nearest(key) THEN calls[s]
                   ELSE Append(calls[s], [from |-> FromAfter(s), to |-> Nearest(key),
                                          stage |-> "updates", current |-> TRUE])]
    /\ UNCHANGED <<timeVars, heard, prevKey, key, at, messages, item>>

EventsIn(events, from, to) ==
    FlattenSeq([i \in 1 .. (IF to < from THEN 0 ELSE to - from + 1) |-> events[from + i - 1]])

Place(stores, store) == {i \in 1 .. Len(stores) : stores[i].id = store}

Updated(stores, e) ==
    IF Place(stores, e[1]) = {} THEN Append(stores, [id |-> e[1], amount |-> e[2]])
    ELSE [i \in 1 .. Len(stores) |-> IF i \in Place(stores, e[1])
                                     THEN [stores[i] EXCEPT !.amount = @ + e[2]]
                                     ELSE stores[i]]

Charged(stores, e) ==
    [i \in 1 .. Len(stores) |-> IF i \in Place(stores, e[1])
                                THEN [stores[i] EXCEPT !.amount = @ - e[2]]
                                ELSE stores[i]]

(* forEach, over the events of an answer.                                  *)
AfterUpdates(stores, events) ==
    LET after[i \in 0 .. Len(events)] ==
            IF i = 0 THEN stores ELSE Updated(after[i - 1], events[i])
    IN  after[Len(events)]

AfterFees(stores, events) ==
    LET after[i \in 0 .. Len(events)] ==
            IF i = 0 THEN stores ELSE Charged(after[i - 1], events[i])
    IN  after[Len(events)]

(* The first query is answered: its events are applied, and the second is  *)
(* sent with what fromBlockNumber is by now.                               *)
ApplyUpdates(s, i) ==
    /\ calls[s][i].stage = "updates"
    /\ LET call == calls[s][i]
       IN  /\ cache' = [cache EXCEPT ![s].stores =
                            AfterUpdates(@, EventsIn(Updates, call.from, call.to))]
           /\ calls' = [calls EXCEPT ![s][i] = [call EXCEPT !.stage = "fees",
                                                            !.from = cache[s].from]]
    /\ UNCHANGED <<timeVars, heard, prevKey, key, phase, at, messages, item>>

ApplyFees(s, i) ==
    /\ calls[s][i].stage = "fees"
    /\ LET call == calls[s][i]
       IN  /\ cache' = [cache EXCEPT ![s] =
                          [from |-> call.to + 1,
                           stores |-> AfterFees(@.stores,
                                                EventsIn(Fees, call.from, call.to))]]
           /\ calls' = [calls EXCEPT ![s] = RemoveAt(@, i)]
    /\ UNCHANGED <<timeVars, heard, prevKey, key, phase, at, messages, item>>

(* The attempt is over; the calls of other sources go on.                  *)
Abandoned(cs) == [s \in Source |-> [j \in 1 .. Len(cs[s]) |-> [cs[s][j] EXCEPT !.current = FALSE]]]

QueryFails(s, i) ==
    /\ Len(faults) < MaxFaults
    /\ faults' = Append(faults, "query")
    /\ LET rest == [calls EXCEPT ![s] = RemoveAt(@, i)]
       IN  IF calls[s][i].current
           THEN phase' = "waiting" /\ calls' = Abandoned(rest)
           ELSE calls' = rest /\ UNCHANGED phase
    /\ UNCHANGED <<indexVars, heard, prevKey, key, cache, at, messages, item>>

(* withSources: every source has answered; the answers are compared.       *)
Answered == /\ phase = "preparing"
            /\ \A s \in Source : \A i \in 1 .. Len(calls[s]) : ~calls[s][i].current

SourcesAgree == \A s \in Source : cache[s].stores = cache[First].stores

Prepared ==
    /\ Answered
    /\ phase' = IF SourcesAgree THEN "generating" ELSE "waiting"
    /\ at' = 1
    /\ messages' = EmptyBag
    /\ UNCHANGED <<timeVars, heard, prevKey, key, cache, calls, item>>

-------------------------------------------------------------------------------
(* generate: the stores one after the other.  The stores are those of the  *)
(* cache of the first source, not a copy.                                  *)

InWindow(store) == {msg \in Published : /\ msg[1] = store
                                        /\ WindowStart(key) <= msg[2] /\ msg[2] <= WindowEnd(key)}

Stores == cache[First].stores

Query ==
    /\ phase = "generating" /\ at <= Len(Stores)
    /\ messages' = messages (+) SetToBag(InWindow(Stores[at].id))
    /\ at' = at + 1
    /\ UNCHANGED <<timeVars, heard, prevKey, key, phase, cache, calls, item>>

(* The answer breaks off after some of its messages: the query is sent     *)
(* again, and they stay.                                                   *)
QueryCut ==
    /\ phase = "generating" /\ at <= Len(Stores)
    /\ Len(faults) < MaxFaults
    /\ \E got \in SUBSET InWindow(Stores[at].id) \ {{}} :
         /\ \A msg \in got, other \in InWindow(Stores[at].id) : other[2] < msg[2] => other \in got
         /\ messages' = messages (+) SetToBag(got)
         /\ faults' = Append(faults, "answer")
    /\ UNCHANGED <<indexVars, heard, prevKey, key, phase, cache, calls, at, item>>

Deliver ==
    /\ phase = "generating" /\ at > Len(Stores)
    /\ item' = [since |-> prevKey, key |-> key, m |-> messages]
    /\ prevKey' = key
    /\ key' = NextKey(key)
    /\ phase' = "waiting"
    /\ UNCHANGED <<timeVars, heard, cache, calls, at, messages>>

Getting(s) == \E i \in 1 .. Len(calls[s]) : ApplyUpdates(s, i) \/ ApplyFees(s, i)

Failing(s) == \E i \in 1 .. Len(calls[s]) : QueryFails(s, i)

Asking == Hear \/ Prepare \/ Prepared \/ Query \/ Deliver

ItemStep == Asking \/ QueryCut \/ \E s \in Source : Getting(s) \/ Failing(s)

Next == TimeStep \/ ItemStep

(* Queries are answered, the listener goes on, KYVE asks again.            *)
Fairness == TimeFairness /\ WF_vars(\E s \in Source : Getting(s)) /\ WF_vars(Asking)

Spec == Init /\ [][Next]_vars /\ Fairness

-------------------------------------------------------------------------------
Honest == \A s \in Source : reported[s] = Time

BlockAt(k) == CHOOSE b \in 1 .. Height : Time[b] >= k /\ Time[b - 1] < k

StoresAt(b) == {e[1] : e \in UNION {ToSet(Updates[c]) : c \in FirstBlock .. b}}

(* The variables keep their types.                                         *)
TypeOK ==
    /\ TimeTypeOK
    /\ heard \in Nat /\ prevKey \in Nat /\ key \in Nat
    /\ phase \in {"waiting", "preparing", "generating"}
    /\ \A s \in Source : cache[s].from \in Nat
    /\ IsABag(messages) /\ IsABag(item.m)

(* An item holds every message published since the item before it on the   *)
(* streams that had a store at the block of its key, none from before, and *)
(* each of them once unless an answer broke off.  It holds across the dates*)
(* on which the step changes, after a restart with an index that begins    *)
(* near the pool's key, whatever the order of chunks, exits of children and*)
(* failed queries, as long as the sources tell the truth.  The variables   *)
(* keep their types.                                                       *)
ItemsComplete ==
    TypeOK /\ (Honest /\ item # NoItem =>
      /\ \A msg \in Published :
           /\ msg[1] \in StoresAt(BlockAt(item.key))
           /\ item.since * 1000 <= msg[2] /\ msg[2] <= item.key * 1000
           /\ item.since # 0
           => msg \in BagToSet(item.m)
      /\ \A msg \in BagToSet(item.m) : /\ item.since * 1000 <= msg[2]
                                       /\ msg[2] <= item.key * 1000
                                       /\ ~Contains(faults, "answer") => item.m[msg] = 1)

(* The block of an entry never changes, and the sources listed are those   *)
(* that reported it under this timestamp, none of which is lost: a source  *)
(* that disagrees cannot move a timestamp.                                 *)
Reported(entry, t) == \A s \in entry.s : reported[s][entry.b] = t

EntriesStay ==
    [][\A t \in Timestamps :
         /\ index[t] # NoEntry => index'[t].b = index[t].b /\ index[t].s \subseteq index'[t].s
         /\ Reported(index'[t], t)]_vars

(* The sources have read up to the block of the key and disagree, for good:*)
(* a query for fees failed after the updates were applied, and the retry   *)
(* applied them again.                                                     *)
Torn == /\ Later(key) # {} /\ ~SourcesAgree
        /\ \A s \in Source : calls[s] = <<>> /\ cache[s].from > Nearest(key)

(* Every key up to the bound gets its item, although children exit,        *)
(* queries fail and the index of a slow source sets the latest timestamp   *)
(* back, unless the caches were torn apart.                                *)
ItemsKeepComing ==
    Honest => <>(key > LastKey[poolKey] \/ Torn)
================================================================================
