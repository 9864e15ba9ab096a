----------------------------- MODULE SystemMessages -----------------------------
(***************************************************************************)
(* The messages of the system stream (packages/protocol/src/system): an    *)
(* array of the version, the type, a sequence number and the fields of the *)
(* type by position, as JSON.  In an array JSON writes null for undefined. *)
(*                                                                         *)
(* Names, hashes and payloads are values; a Map is the sequence of its     *)
(* entries.                                                                *)
(***************************************************************************)
EXTENDS Integers, Sequences, FiniteSets

CONSTANTS Undefined, Null

Version == 1

(* The types; each is a class, an object of which is a record with the     *)
(* fields of the class, its type and its number.                           *)
QueryRequest == 1
QueryResponse == 2
QueryPropagate == 3
ProofOfReport == 4
RecoveryRequest == 5
RecoveryResponse == 6
RecoveryComplete == 7

MessageType == QueryRequest .. RecoveryComplete

Json(arr) == [i \in DOMAIN arr |-> IF arr[i] = Undefined THEN Null ELSE arr[i]]

-------------------------------------------------------------------------------
(* toArray and fromArray of the serializers.                               *)

QueryOptionsToArray(queryType, o) ==
    CASE queryType = "last"  -> <<o.last>>
      [] queryType = "from"  -> <<o.from.timestamp, o.from.sequenceNumber, o.publisherId>>
      [] queryType = "range" -> <<o.from.timestamp, o.from.sequenceNumber,
                                  o.to.timestamp, o.to.sequenceNumber,
                                  o.msgChainId, o.publisherId>>

QueryRef(timestamp, sequenceNumber) ==
    [timestamp |-> timestamp, sequenceNumber |-> sequenceNumber]

QueryOptionsFromArray_Swapped(queryType, arr) ==         \* mutant
    CASE queryType = "last"  -> [last |-> arr[1]]
      [] queryType = "from"  -> [from |-> QueryRef(arr[1], arr[2]), publisherId |-> arr[3]]
      [] queryType = "range" -> [from |-> QueryRef(arr[1], arr[2]), to |-> QueryRef(arr[3], arr[4]),
                                 msgChainId |-> arr[6], publisherId |-> arr[5]]
QueryOptionsFromArray(queryType, arr) ==
    CASE queryType = "last"  -> [last |-> arr[1]]
      [] queryType = "from"  -> [from |-> QueryRef(arr[1], arr[2]), publisherId |-> arr[3]]
      [] queryType = "range" -> [from |-> QueryRef(arr[1], arr[2]), to |-> QueryRef(arr[3], arr[4]),
                                 msgChainId |-> arr[5], publisherId |-> arr[6]]

Header(m) == <<Version, m.messageType, m.seqNum>>

QueryRequestToArray(m) ==
    Header(m) \o <<m.requestId, m.consumerId, m.streamId, m.partition, m.queryType>>
              \o QueryOptionsToArray(m.queryType, m.queryOptions)
QueryRequestFromArray(arr) ==
    [messageType |-> QueryRequest, seqNum |-> arr[3], requestId |-> arr[4],
     consumerId |-> arr[5], streamId |-> arr[6], partition |-> arr[7], queryType |-> arr[8],
     queryOptions |-> QueryOptionsFromArray(arr[8], SubSeq(arr, 9, Len(arr)))]

QueryResponseToArray(m) == Header(m) \o <<m.requestId, m.requestPublisherId, m.hashMap>>
QueryResponseFromArray(arr) ==
    [messageType |-> QueryResponse, seqNum |-> arr[3], requestId |-> arr[4],
     requestPublisherId |-> arr[5], hashMap |-> arr[6]]

QueryPropagateToArray(m) == Header(m) \o <<m.requestId, m.requestPublisherId, m.payload>>
QueryPropagateFromArray(arr) ==
    [messageType |-> QueryPropagate, seqNum |-> arr[3], requestId |-> arr[4],
     requestPublisherId |-> arr[5], payload |-> arr[6]]

ProofOfReportToArray(m) == Header(m) \o <<m.address, m.hash, m.toth, m.timestamp, m.signature>>
ProofOfReportFromArray(arr) ==
    [messageType |-> ProofOfReport, seqNum |-> arr[3], address |-> arr[4], hash |-> arr[5],
     toth |-> arr[6], timestamp |-> arr[7], signature |-> arr[8]]

RecoveryRequestToArray(m) == Header(m) \o <<m.requestId, m.from, m.to>>
RecoveryRequestFromArray(arr) ==
    [messageType |-> RecoveryRequest, seqNum |-> arr[3], requestId |-> arr[4],
     from |-> arr[5], to |-> arr[6]]

RecoveryCompleteToArray(m) == Header(m) \o <<m.requestId, m.isFulfilled>>
RecoveryCompleteFromArray(arr) ==
    [messageType |-> RecoveryComplete, seqNum |-> arr[3], requestId |-> arr[4],
     isFulfilled |-> arr[5]]

-------------------------------------------------------------------------------
(* The serializers, by type.                                               *)

FlatToArray(m) ==
    Json(CASE m.messageType = QueryRequest     -> QueryRequestToArray(m)
           [] m.messageType = QueryResponse    -> QueryResponseToArray(m)
           [] m.messageType = QueryPropagate   -> QueryPropagateToArray(m)
           [] m.messageType = ProofOfReport    -> ProofOfReportToArray(m)
           [] m.messageType = RecoveryRequest  -> RecoveryRequestToArray(m)
           [] m.messageType = RecoveryComplete -> RecoveryCompleteToArray(m))

FlatFromArray(arr) ==
    CASE arr[2] = QueryRequest     -> QueryRequestFromArray(arr)
      [] arr[2] = QueryResponse    -> QueryResponseFromArray(arr)
      [] arr[2] = QueryPropagate   -> QueryPropagateFromArray(arr)
      [] arr[2] = ProofOfReport    -> ProofOfReportFromArray(arr)
      [] arr[2] = RecoveryRequest  -> RecoveryRequestFromArray(arr)
      [] arr[2] = RecoveryComplete -> RecoveryCompleteFromArray(arr)

(* A recovery response holds serialized messages with their metadata.      *)
MetadataToArray(md) == <<md.streamId, md.streamPartition, md.timestamp, md.sequenceNumber,
                         md.signature, md.publisherId, md.msgChainId>>

MetadataFromArray(arr) ==
    [streamId |-> arr[1], streamPartition |-> arr[2], timestamp |-> arr[3],
     sequenceNumber |-> arr[4], signature |-> arr[5], publisherId |-> arr[6],
     msgChainId |-> arr[7]]

ResponseToArray(m) ==
    Header(m) \o <<m.requestId,
                   [i \in DOMAIN m.payload |-> <<FlatToArray(m.payload[i].content),
                                                 Json(MetadataToArray(m.payload[i].metadata))>>]>>

ResponseFromArray(arr) ==
    [messageType |-> RecoveryResponse, seqNum |-> arr[3], requestId |-> arr[4],
     payload |-> [i \in DOMAIN arr[5] |-> [content |-> FlatFromArray(arr[5][i][1]),
                                           metadata |-> MetadataFromArray(arr[5][i][2])]]]

-------------------------------------------------------------------------------
(* A type has one version, whose serializer is registered.                 *)
Serialize(m) == IF m.messageType = RecoveryResponse THEN ResponseToArray(m) ELSE FlatToArray(m)

Deserialize(arr) == IF arr[2] = RecoveryResponse THEN ResponseFromArray(arr) ELSE FlatFromArray(arr)

(* The messages: objects of the classes.  Nothing but options is left out. *)
IsOptions(queryType, o) ==
    \/ /\ queryType = "last"
       /\ o = [last |-> o.last]
    \/ /\ queryType = "from"
       /\ o = [from |-> QueryRef(o.from.timestamp, o.from.sequenceNumber),
               publisherId |-> o.publisherId]
    \/ /\ queryType = "range"
       /\ o = [from |-> QueryRef(o.from.timestamp, o.from.sequenceNumber),
               to |-> QueryRef(o.to.timestamp, o.to.sequenceNumber),
               msgChainId |-> o.msgChainId, publisherId |-> o.publisherId]

IsRequest(m) ==
    /\ m.messageType = QueryRequest
    /\ m = [messageType |-> QueryRequest, seqNum |-> m.seqNum, requestId |-> m.requestId,
            consumerId |-> m.consumerId, streamId |-> m.streamId, partition |-> m.partition,
            queryType |-> m.queryType, queryOptions |-> m.queryOptions]
    /\ IsOptions(m.queryType, m.queryOptions)

IsResponse(m) ==
    /\ m.messageType = QueryResponse
    /\ m = [messageType |-> QueryResponse, seqNum |-> m.seqNum, requestId |-> m.requestId,
            requestPublisherId |-> m.requestPublisherId, hashMap |-> m.hashMap]

IsPropagate(m) ==
    /\ m.messageType = QueryPropagate
    /\ m = [messageType |-> QueryPropagate, seqNum |-> m.seqNum, requestId |-> m.requestId,
            requestPublisherId |-> m.requestPublisherId, payload |-> m.payload]

IsProof(m) ==
    /\ m.messageType = ProofOfReport
    /\ m = [messageType |-> ProofOfReport, seqNum |-> m.seqNum, address |-> m.address,
            hash |-> m.hash, toth |-> m.toth, timestamp |-> m.timestamp,
            signature |-> m.signature]

IsRecovery(m) ==
    \/ /\ m.messageType = RecoveryRequest
       /\ m = [messageType |-> RecoveryRequest, seqNum |-> m.seqNum, requestId |-> m.requestId,
               from |-> m.from, to |-> m.to]
    \/ /\ m.messageType = RecoveryResponse
       /\ m = [messageType |-> RecoveryResponse, seqNum |-> m.seqNum,
               requestId |-> m.requestId, payload |-> m.payload]
    \/ /\ m.messageType = RecoveryComplete
       /\ m = [messageType |-> RecoveryComplete, seqNum |-> m.seqNum,
               requestId |-> m.requestId, isFulfilled |-> m.isFulfilled]

IsMessage(m) == /\ \/ IsRequest(m) \/ IsResponse(m) \/ IsPropagate(m) \/ IsProof(m)
                   \/ IsRecovery(m)
                /\ m.seqNum \in Nat
                /\ \A f \in DOMAIN m : m[f] # Undefined

(* What a reader makes of a message: options left out become null.         *)
Read(value) == IF value = Undefined THEN Null ELSE value

RefRead(ref) == QueryRef(Read(ref.timestamp), Read(ref.sequenceNumber))

OptionsRead(queryType, o) ==
    CASE queryType = "last"  -> [last |-> Read(o.last)]
      [] queryType = "from"  -> [from |-> RefRead(o.from), publisherId |-> Read(o.publisherId)]
      [] queryType = "range" -> [from |-> RefRead(o.from), to |-> RefRead(o.to),
                                 msgChainId |-> Read(o.msgChainId),
                                 publisherId |-> Read(o.publisherId)]

AsRead(m) ==
    IF m.messageType # QueryRequest THEN m
    ELSE [m EXCEPT !.queryOptions = OptionsRead(m.queryType, @)]
================================================================================
