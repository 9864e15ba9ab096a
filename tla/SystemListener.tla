----------------------------- MODULE SystemListener -----------------------------
(***************************************************************************)
(* The listener of the validator (validator/src/threads/SystemListener.ts, *)
(* SystemDb.ts) with the metrics of messages (shared/MessageMetrics), which*)
(* it shares with the recovery, and the publishers of the system stream.   *)
(* A message reaches it live, in the order of its publisher, or in a       *)
(* recovery response, or both.                                             *)
(*                                                                         *)
(* setImmediate queues the handler of a live message.  It updates the      *)
(* metrics, sets _latestTimestamp, and asks for a transaction on the       *)
(* database of the type; transactions run in order.                        *)
(***************************************************************************)
EXTENDS SystemReports, FiniteSets

CONSTANTS Publisher,
          Bodies,          \* bound: Bodies[n] may be published n-th, each of them
                           \* <<publisher, message whose seqNum is not set>>
          FirstSeqNum,     \* counters of a publisher that has been running for a while
          Stamp,           \* Stamp[n]: timestamp of the n-th message published
          Reports,         \* reports, of which some are proved in Bodies
          RecoveryMessages,    \* <<publisher, message>> that may come on the recovery stream
          MaxPublished,    \* bound: messages
          MaxLost,         \* bound: live messages lost
          MaxCounted       \* bound: lostCount of a type, for messages of the recovery stream

(* Messages are numbered in the order of their timestamps.                 *)
ASSUME StampAssumption == /\ MaxPublished \in Nat /\ MaxLost \in Nat
                          /\ Stamp \in [1 .. MaxPublished -> Nat \ {0}]
                          /\ \A m, n \in 1 .. MaxPublished : m <= n => Stamp[m] <= Stamp[n]

ASSUME UndefinedAssumption ==
    Undefined \notin Nat /\ Undefined \notin Publisher /\ Undefined \notin {"system", "chain"}

ASSUME ReportsAssumption == Reports \subseteq PlainReport

(* The types of the recovery, which come on a stream of its own (requests  *)
(* are no messages any more).  The answer to a request is numbered from 0, *)
(* and the stream carries those to all requests of all validators: any     *)
(* number may follow any other.                                            *)
RecoveryType == {RecoveryRequest, RecoveryResponse, RecoveryComplete}

ASSUME RecoveryAssumption ==
    /\ MaxCounted \in Nat
    /\ \A b \in RecoveryMessages :
         /\ b = <<b[1], b[2]>> /\ b[1] \in Publisher /\ IsMessage(b[2])
         /\ b[2].messageType \in RecoveryType

(* The answers of the recovery have a stream of their own.  A proof is made*)
(* by toProof, at a time other than 0, of a report or of its serialized    *)
(* form, which is the same proof.                                          *)
ASSUME BodiesAssumption ==
    /\ FirstSeqNum \in [Publisher -> Nat]
    /\ \A n \in DOMAIN Bodies : \A b \in Bodies[n] :
         /\ b = <<b[1], b[2]>> /\ b[1] \in Publisher /\ IsMessage(b[2])
         /\ b[2].messageType \notin {RecoveryResponse, RecoveryComplete}
         /\ b[2].messageType = ProofOfReport
              => /\ b[2].timestamp \in Nat \ {0}
                 /\ \E r \in Reports : b[2] = Proof(r, b[2].address, b[2].timestamp)

VARIABLES counter,         \* counter[p][t]: messageSeqNum of type t in the process of p
          published,       \* all messages, in order, with their metadata
          sent,            \* sent[p]: content of p on the way, with its metadata
          immediates,      \* handlers queued by setImmediate
          transactions,    \* calls of onSystemMessage that wait for their transaction
          db,              \* db[t]: key -> sequence of messages and hashes
          _latestTimestamp,
          recovered,       \* messages of the recovery that are stored
          isComplete,      \* progress.isComplete
          seqNums, lostCount,  \* MessageMetrics by type: last seqNum of p; lost
          lost             \* live messages lost

vars == <<counter, published, sent, immediates, transactions, db, _latestTimestamp,
          recovered, isComplete, seqNums, lostCount, lost>>

Listened == {QueryRequest, QueryResponse, QueryPropagate}   \* LISTENING_MESSAGE_TYPES

NoSeqNum == 0              \* seqNums: nothing yet; 0 is taken for nothing as well

(* The databases are opened empty, one for each listened type.             *)
Init ==
    /\ counter = [p \in Publisher |-> [t \in MessageType |-> FirstSeqNum[p]]]
    /\ published = <<>>
    /\ sent = [p \in Publisher |-> <<>>]
    /\ immediates = <<>>
    /\ transactions = <<>>
    /\ db = [t \in Listened |-> <<>>]
    /\ _latestTimestamp = 0
    /\ recovered = 0
    /\ isComplete = FALSE
    /\ seqNums = [t \in MessageType |-> [p \in Publisher |-> NoSeqNum]]
    /\ lostCount = [t \in MessageType |-> 0]
    /\ lost = {}

-------------------------------------------------------------------------------
(* A message is made, with the next number of its type, and published.     *)
Metadata(p, n) ==
    [streamId |-> "system", streamPartition |-> 0, timestamp |-> Stamp[n],
     sequenceNumber |-> n, signature |-> p, publisherId |-> p, msgChainId |-> "chain"]

Publish(p, body) ==
    /\ Len(published) < MaxPublished
    /\ LET n == Len(published) + 1
           message == [body EXCEPT !.seqNum = counter[p][body.messageType]]
           item == [content |-> message, metadata |-> Metadata(p, n)]
       IN  /\ published' = Append(published, item)
           /\ sent' = [sent EXCEPT ![p] = Append(@, [content |-> Serialize(message),
                                                     metadata |-> item.metadata])]
    /\ counter' = [counter EXCEPT ![p][body.messageType] = @ + 1]
    /\ UNCHANGED <<immediates, transactions, db, _latestTimestamp, recovered, isComplete,
                   seqNums, lostCount, lost>>

Lose(p) ==
    /\ sent[p] # <<>> /\ Cardinality(lost) < MaxLost
    /\ lost' = lost \union {Head(sent[p]).metadata.sequenceNumber}
    /\ sent' = [sent EXCEPT ![p] = Tail(@)]
    /\ UNCHANGED <<counter, published, immediates, transactions, db, _latestTimestamp,
                   recovered, isComplete, seqNums, lostCount>>

Deliver(p) ==
    /\ sent[p] # <<>>
    /\ immediates' = Append(immediates, Head(sent[p]))
    /\ sent' = [sent EXCEPT ![p] = Tail(@)]
    /\ UNCHANGED <<counter, published, transactions, db, _latestTimestamp, recovered,
                   isComplete, seqNums, lostCount, lost>>

-------------------------------------------------------------------------------
(* update of MessageMetrics.                                               *)
Gap(prev, seqNum) == IF prev # NoSeqNum /\ seqNum - prev > 1 THEN seqNum - prev - 1 ELSE 0

CountMessage(type, p, seqNum) ==
    /\ lostCount' = [lostCount EXCEPT ![type] = @ + Gap(seqNums[type][p], seqNum)]
    /\ seqNums' = [seqNums EXCEPT ![type][p] = seqNum]

(* onMessage.                                                              *)
OnMessage ==
    /\ immediates # <<>>
    /\ LET metadata == Head(immediates).metadata
           message == Deserialize(Head(immediates).content)
           type == message.messageType
           p == metadata.publisherId
       IN  /\ CountMessage(type, p, message.seqNum)
           /\ IF type \in Listened
              THEN /\ _latestTimestamp' = metadata.timestamp
                   /\ transactions' = Append(transactions, [content |-> message,
                                                            metadata |-> metadata])
              ELSE UNCHANGED <<_latestTimestamp, transactions>>
    /\ immediates' = Tail(immediates)
    /\ UNCHANGED <<counter, published, sent, db, recovered, isComplete, lost>>

(* onSystemMessage: stored under its key, unless its hash is there already.*)
(* A Map is written as an empty object, so the answers are not in the hash.*)
Key(m) == IF m.content.messageType = QueryRequest THEN m.metadata.timestamp ELSE m.content.requestId

Hash(m) == [content |-> IF m.content.messageType = QueryResponse
                        THEN [m.content EXCEPT !.hashMap = <<>>] ELSE m.content,
            metadata |-> m.metadata]

EntriesOf(messages, key) == IF key \in DOMAIN messages THEN messages[key] ELSE <<>>

Entered(messages, m) ==
    [key \in DOMAIN messages \union {Key(m)} |->
       IF key = Key(m) THEN Append(EntriesOf(messages, key), [message |-> m, hash |-> Hash(m)])
       ELSE messages[key]]

Stored_Always(messages, m) == Entered(messages, m)             \* mutant
Stored_First(messages, m) ==                                   \* mutant
    IF Key(m) \in DOMAIN messages THEN messages ELSE Entered(messages, m)
Stored(messages, m) ==
    IF \E i \in DOMAIN EntriesOf(messages, Key(m)) : EntriesOf(messages, Key(m))[i].hash = Hash(m)
    THEN messages ELSE Entered(messages, m)

Store ==
    /\ transactions # <<>>
    /\ LET m == Head(transactions)
       IN  db' = [db EXCEPT ![m.content.messageType] = Stored(@, m)]
    /\ transactions' = Tail(transactions)
    /\ UNCHANGED <<counter, published, sent, immediates, _latestTimestamp, recovered,
                   isComplete, seqNums, lostCount, lost>>

(* onRecoveryMessage: the recovery has the same metrics, and counts every  *)
(* message of its stream, before it looks whose request it answers.        *)
CountRecovery(b) ==
    LET message == Deserialize(Serialize(b[2]))
    IN  /\ CountMessage(message.messageType, b[1], message.seqNum)
        /\ lostCount'[message.messageType] <= MaxCounted

OnRecoveryMessage ==
    /\ \E b \in RecoveryMessages : CountRecovery(b)
    /\ UNCHANGED <<counter, published, sent, immediates, transactions, db, _latestTimestamp,
                   recovered, isComplete, lost>>

(* The recovery stores the next message of its responses, and waits for it;*)
(* a broker holds the messages of the listened types.                      *)
Recovered(item) ==
    ResponseFromArray(ResponseToArray(
      [messageType |-> RecoveryResponse, seqNum |-> 0, requestId |-> "recovery",
       payload |-> <<item>>])).payload[1]

Recover ==
    /\ ~isComplete /\ recovered < Len(published)
    /\ recovered' = recovered + 1
    /\ LET m == Recovered(published[recovered'])
       IN  db' = IF published[recovered'].content.messageType \in Listened
                 THEN [db EXCEPT ![m.content.messageType] = Stored(@, m)] ELSE db
    /\ UNCHANGED <<counter, published, sent, immediates, transactions, _latestTimestamp,
                   isComplete, seqNums, lostCount, lost>>

Complete ==
    /\ ~isComplete /\ recovered > 0
    /\ \E b \in RecoveryMessages : b[2].messageType = RecoveryComplete /\ CountRecovery(b)
    /\ isComplete' = TRUE
    /\ UNCHANGED <<counter, published, sent, immediates, transactions, db, _latestTimestamp,
                   recovered, lost>>

Listening == (\E p \in Publisher : Deliver(p)) \/ OnMessage \/ Store

Next == \/ \E n \in DOMAIN Bodies : \E b \in Bodies[n] :
             n = Len(published) + 1 /\ Publish(b[1], b[2])
        \/ \E p \in Publisher : Lose(p)
        \/ Listening
        \/ OnRecoveryMessage \/ Recover \/ Complete

Spec == Init /\ [][Next]_vars /\ WF_vars(Listening)

-------------------------------------------------------------------------------
ProgressTimestamp == IF recovered = 0 THEN 0 ELSE Stamp[recovered]

latestTimestamp_Live ==                    \* mutant
    IF _latestTimestamp > ProgressTimestamp THEN _latestTimestamp ELSE ProgressTimestamp
latestTimestamp ==
    IF ~isComplete THEN ProgressTimestamp
    ELSE IF _latestTimestamp > ProgressTimestamp THEN _latestTimestamp ELSE ProgressTimestamp

Published(n) == n <= Len(published) /\ published[n].content.messageType \in Listened

(* Where the n-th message is in the database of its type.                  *)
EntriesFor(n) ==
    IF ~Published(n) THEN {}
    ELSE LET messages == db[published[n].content.messageType]
         IN  {e \in UNION {{key} \X DOMAIN messages[key] : key \in DOMAIN messages} :
                messages[e[1]][e[2]].message.metadata.sequenceNumber = n}

(* A message is stored once, under its key, and as it was published, even  *)
(* when it arrives both live and in a recovery response, through different *)
(* serializations: only null for what was left out tells it apart.         *)
StoredOnce ==
    \A n \in 1 .. Len(published) :
      Published(n) =>
        /\ Cardinality(EntriesFor(n)) <= 1
        /\ \A e \in EntriesFor(n) :
             db[published[n].content.messageType][e[1]][e[2]].message =
               [published[n] EXCEPT !.content = AsRead(published[n].content)]

(* The metrics of the types that the listener alone counts never count a   *)
(* message as lost that was not.  Those of the recovery do: its numbers    *)
(* start again, and a gap between two answers is counted.                  *)
LostIsLost ==
    \A t \in MessageType \ RecoveryType :
      lostCount[t] <= Cardinality({n \in lost : published[n].content.messageType = t})

(* What the listener records of the messages is true of what was published:*)
(* the database holds none twice or changed, the metrics count no false    *)
(* loss, although the recovery writes to both of them.                     *)
RecordsTrue == StoredOnce /\ LostIsLost

(* What latestTimestamp can be relied on for.  Until the recovery is       *)
(* complete every listened message from before it is stored.  Afterwards it*)
(* may be that of a live message: the listened messages that its publisher *)
(* sent before it are stored, on their way to the database, or lost; those *)
(* of other publishers may still come.                                     *)
Before(n) == Published(n) /\ Stamp[n] < latestTimestamp

Waiting(n) == \E i \in DOMAIN transactions : transactions[i].metadata.sequenceNumber = n

HeardIsStored ==
    IF ~isComplete THEN \A n \in 1 .. Len(published) : Before(n) => EntriesFor(n) # {}
    ELSE latestTimestamp > 0 =>
           \E k \in 1 .. Len(published) :
             /\ Stamp[k] = latestTimestamp
             /\ \A n \in 1 .. Len(published) :
                  Before(n) /\ published[n].metadata.publisherId = published[k].metadata.publisherId
                  => EntriesFor(n) # {} \/ Waiting(n) \/ n \in lost

(* Every listened message that is not lost is stored in the end, whatever  *)
(* other messages are handled before it.                                   *)
EveryMessageStored ==
    \A n \in 1 .. MaxPublished :
      Published(n) ~> (EntriesFor(n) # {} \/ n \in lost)

(* Whoever reads a published proof finds in it the hash that the contract  *)
(* makes from the parameters of the report and the timestamp of the proof, *)
(* and the hash of the report that the contract gives back once accepted.  *)
(* The report is recognised by the hash without a timestamp.               *)
ProofsVerify ==
    \A n \in 1 .. Len(published), report \in Reports :
      LET proof == Deserialize(Serialize(published[n].content))
      IN  proof.messageType = ProofOfReport /\ proof.hash = ToHash(report, 0) =>
            /\ proof.toth = ContractHash(ToContract(report), proof.timestamp)
            /\ proof.toth = ToHash(LastReport(ToContract(report)), proof.timestamp)
================================================================================
