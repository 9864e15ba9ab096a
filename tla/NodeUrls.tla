-------------------------------- MODULE NodeUrls --------------------------------
(***************************************************************************)
(* The urls of the nodes, best latency first, that the client offers       *)
(* (client/src/registry/NodeManager.ts): from the heartbeats of the nodes  *)
(* and the url each has in the contract, which is cached                   *)
(* (AsyncStaleThenRevalidateCache).                                        *)
(*                                                                         *)
(* An update listens to the heartbeats until a moment after its first      *)
(* urls.  Every batch of heartbeats looks up the urls of all the nodes     *)
(* heard so far and waits for all of them; the lists replace each other in *)
(* the order they are ready.  The throttle lets an update begin long after *)
(* the one before.                                                         *)
(***************************************************************************)
EXTENDS ClientChain, Functions

CONSTANTS Batch,           \* bound: batches under way, numbered from 1
          MaxReads,        \* bound: reads under way when one more begins
          MaxUrlFaults     \* bound: failed reads, and updates given up

VARIABLES cache,           \* nodeUrlCache; its values are urls and promises
          fresh,           \* nodes whose entry is younger than maxAge, oldest first
          reads,           \* reads of the contract: [id, pc, url]
          update,          \* [pc, beats, dirty]: beats are the nodes heard
          batches,         \* batches[b]: the urls it wants, best latency first
          list,            \* the last of lastUrlList$
          destroyed, faults

urlVars == <<cache, fresh, reads, update, batches, list, destroyed, faults>>
allUrlVars == <<chain, urlVars>>

Value(kind, of) == [is |-> kind, of |-> of]
NoEntry == Value("absent", Null)
NoBatch == <<>>
UpdateOff == [pc |-> "off", beats |-> {}, dirty |-> FALSE]
UpdateOn == [UpdateOff EXCEPT !.pc = "on"]

(* The constructor starts the first update.  An application that does not  *)
(* use the urls counts as one that is done with them.                      *)
UrlInit(used) ==
    /\ cache = [n \in NodeAddress |-> NoEntry] /\ fresh = <<>> /\ reads = {}
    /\ update = IF used THEN UpdateOn ELSE UpdateOff
    /\ batches = [b \in Batch |-> NoBatch]
    /\ list = <<>> /\ destroyed = ~used /\ faults = 0

-------------------------------------------------------------------------------
(* The cache.  c is [cache, fresh, reads], and got after a look-up.        *)
(*                                                                         *)
(* A read is known by its node and by what it is for: an entry that was    *)
(* absent, the refresh of one, or a batch that goes past the cache.        *)

Cached == [cache |-> cache, fresh |-> fresh, reads |-> reads]

IsFresh(c, n) == n \in Range(c.fresh)

(* set, and its cleanup of what is too old.                                *)
SetEntry(c, n, value) ==
    [c EXCEPT !.cache = [m \in NodeAddress |-> IF m = n THEN value
                                               ELSE IF IsFresh(c, m) THEN c.cache[m] ELSE NoEntry],
              !.fresh = Append(Remove(c.fresh, n), n)]

ReadFor(n, what, b) == [node |-> n, for |-> what, batch |-> b]

StartRead(c, id) == [c EXCEPT !.reads = @ \union {[id |-> id, pc |-> "reading", url |-> Null]}]

Awaits(id) == Value("promise", id)

Refreshed_Never(c, n) == c                                     \* mutant
Refreshed(c, n) == IF IsFresh(c, n) THEN c ELSE StartRead(c, ReadFor(n, "refresh", 0))

(* getNodeUrl: a null in the cache is read again, past the cache.          *)
GetNodeUrl(c, n, b) ==
    LET entry == ReadFor(n, "entry", 0)
        plain == ReadFor(n, "plain", b)
    IN  IF c.cache[n] = NoEntry
        THEN [got |-> Awaits(entry)] @@ SetEntry(StartRead(c, entry), n, Awaits(entry))
        ELSE IF c.cache[n] = Value("url", Null)
             THEN [got |-> Awaits(plain)] @@ StartRead(Refreshed(c, n), plain)
             ELSE [got |-> c.cache[n]] @@ Refreshed(c, n)

-------------------------------------------------------------------------------
(* A batch that has all its urls gives a list at once.  Nodes without a    *)
(* url are left out, and a list without urls is no list.                   *)

Ready(want) == want # NoBatch /\ \A i \in DOMAIN want : want[i].is = "url"

UrlsOf(want) == Remove([i \in DOMAIN want |-> want[i].of], Null)

HandOn(wants, u) ==
    LET lists == {UrlsOf(wants[b]) : b \in {a \in Batch : Ready(wants[a])}} \ {<<>>}
    IN  /\ batches' = [b \in Batch |-> IF Ready(wants[b]) THEN NoBatch ELSE wants[b]]
        /\ update' = [u EXCEPT !.pc = IF lists = {} THEN @ ELSE "taking"]
        /\ IF lists = {} THEN UNCHANGED list ELSE list' \in lists

FilledIn(value, by) ==
    [b \in Batch |-> [i \in DOMAIN batches[b] |->
        IF batches[b][i] = value THEN by ELSE batches[b][i]]]

-------------------------------------------------------------------------------
(* The reads of the contract.                                              *)

ReadUrl(r) ==
    /\ r.pc = "reading"
    /\ reads' = (reads \ {r}) \union {[r EXCEPT !.pc = "answered", !.url = ContractUrl(r.id.node)]}
    /\ UNCHANGED <<chain, cache, fresh, update, batches, list, destroyed, faults>>

SettleRead(r) ==
    LET value == Value("url", r.url)
        c     == IF r.id.for = "plain" THEN Cached ELSE SetEntry(Cached, r.id.node, value)
    IN  /\ r.pc = "answered"
        /\ reads' = reads \ {r}
        /\ cache' = c.cache /\ fresh' = c.fresh
        /\ HandOn(FilledIn(Awaits(r.id), value), update)
        /\ UNCHANGED <<chain, destroyed, faults>>

(* An update that is over has no batches, and nobody waits for their reads. *)
Batchless(rs) == {r \in rs : r.id.for # "plain"}

GiveUp == update' = UpdateOff /\ batches' = [b \in Batch |-> NoBatch]

(* The promise that was cached stays there, rejected.                      *)
ReadFails(r) ==
    LET fatal == \E b \in Batch : Awaits(r.id) \in Range(batches[b]) IN
    /\ r.pc = "reading" /\ faults < MaxUrlFaults
    /\ faults' = faults + 1
    /\ cache' = [n \in NodeAddress |-> IF cache[n] = Awaits(r.id) THEN Value("rejected", Null)
                                       ELSE cache[n]]
    /\ reads' = IF fatal THEN Batchless(reads \ {r}) ELSE reads \ {r}
    /\ IF fatal THEN GiveUp ELSE UNCHANGED <<update, batches>>
    /\ UNCHANGED <<chain, fresh, list, destroyed>>

(* Time passes: the oldest entry reaches maxAge, before which its promise  *)
(* has settled.                                                            *)
Tick == /\ fresh # <<>> /\ cache[Head(fresh)].is # "promise"
        /\ fresh' = Tail(fresh)
        /\ UNCHANGED <<chain, cache, reads, update, batches, list, destroyed, faults>>

-------------------------------------------------------------------------------
(* updateNodeUrlList.                                                      *)

(* getNodeUrlsByLatency, or the end of the throttle's window when it was   *)
(* called in it.  The caller gets list, or waits for the first one.        *)
UpdateNodeUrlList ==
    /\ update.pc = "off" /\ ~destroyed
    /\ update' = UpdateOn
    /\ UNCHANGED <<chain, cache, fresh, reads, batches, list, destroyed, faults>>

Heartbeat(n) ==
    /\ update.pc # "off"
    /\ update' = [update EXCEPT !.beats = @ \union {n}, !.dirty = TRUE]
    /\ UNCHANGED <<chain, cache, fresh, reads, batches, list, destroyed, faults>>

LookUpFor(b, c, n) == LET d == GetNodeUrl(c, n, b)
                      IN  [d EXCEPT !.got = Append(c.got, d.got)]

(* auditTime: the urls of all that were heard are looked up, in the order  *)
(* of their latency.                                                       *)
EmitBatch ==
    /\ update.dirty
    /\ \E b \in Batch, byLatency \in SetToSeqs(update.beats) :
         LET c == FoldLeft(LAMBDA d, n : LookUpFor(b, d, n), [got |-> <<>>] @@ Cached, byLatency)
         IN  /\ batches[b] = NoBatch
             /\ \A a \in Batch : batches[a] = NoBatch => b <= a
             /\ reads = {} \/ Cardinality(c.reads) <= MaxReads
             /\ cache' = c.cache /\ fresh' = c.fresh
             /\ IF Value("rejected", Null) \in Range(c.got)
                THEN GiveUp /\ reads' = Batchless(c.reads) /\ UNCHANGED list
                ELSE /\ HandOn([batches EXCEPT ![b] = c.got], [update EXCEPT !.dirty = FALSE])
                     /\ reads' = c.reads
    /\ UNCHANGED <<chain, destroyed, faults>>

(* Three seconds after the first list.                                     *)
UpdateEnds ==
    /\ update.pc = "taking"
    /\ GiveUp /\ reads' = Batchless(reads)
    /\ UNCHANGED <<chain, cache, fresh, list, destroyed, faults>>

(* There is no heartbeat stream, or no list within fifteen seconds.        *)
UpdateFails ==
    /\ update.pc = "on" /\ faults < MaxUrlFaults
    /\ GiveUp /\ reads' = Batchless(reads) /\ faults' = faults + 1
    /\ UNCHANGED <<chain, cache, fresh, list, destroyed>>

Destroy ==
    /\ ~destroyed
    /\ destroyed' = TRUE
    /\ GiveUp /\ reads' = Batchless(reads)
    /\ UNCHANGED <<chain, cache, fresh, list, faults>>

ReadsOf(n, refresh) == {r \in reads : r.id.node = n /\ (r.id.for = "refresh") = refresh}
ReadAnswered(n, refresh) == \E r \in ReadsOf(n, refresh) : ReadUrl(r)
Settled(n, refresh) == \E r \in ReadsOf(n, refresh) : SettleRead(r)

UrlNext == \/ \E r \in reads : ReadUrl(r) \/ SettleRead(r) \/ ReadFails(r)
           \/ \E n \in NodeAddress : Heartbeat(n)
           \/ EmitBatch \/ UpdateNodeUrlList \/ UpdateEnds \/ UpdateFails
           \/ Tick \/ Destroy

(* An application that keeps asking, nodes that keep on beating, reads     *)
(* that are answered, time that passes.                                    *)
UrlFairness ==
    /\ \A n \in NodeAddress : /\ WF_allUrlVars(Heartbeat(n))
                              /\ \A refresh \in BOOLEAN : /\ WF_allUrlVars(ReadAnswered(n, refresh))
                                                         /\ WF_allUrlVars(Settled(n, refresh))
    /\ WF_allUrlVars(EmitBatch) /\ WF_allUrlVars(Tick)
    /\ WF_allUrlVars(UpdateNodeUrlList \/ UpdateEnds)

-------------------------------------------------------------------------------
(* Once the metadata of the nodes stays as it is and there is some url,    *)
(* the lists the client offers have only urls of that metadata, whatever   *)
(* failed before and in whatever order reads and lists came in (NodeManager *)
(* updateNodeUrlList, AsyncStaleThenRevalidateCache get).                  *)
UrlsComeRight ==
    <>[](\/ destroyed \/ \A n \in NodeAddress : ContractUrl(n) = Null
         \/ list # <<>> /\ Range(list) \subseteq {ContractUrl(n) : n \in NodeAddress})
================================================================================
