-------------------------- MODULE SystemListenerProofs --------------------------
(***************************************************************************)
(* What holds of the listener for any publishers, any messages and reports,*)
(* any numbers that publishers start from, and any losses.                 *)
(***************************************************************************)
EXTENDS SystemListener, Induction, SequenceTheorems, FiniteSetTheorems

-------------------------------------------------------------------------------
(* A message that is written and read is what its reader makes of it.      *)
LEMMA JsonArray ==
    ASSUME NEW a, NEW n \in Nat, DOMAIN a = 1 .. n
    PROVE  /\ DOMAIN Json(a) = 1 .. n /\ Len(Json(a)) = n
           /\ \A i \in 1 .. n : Json(a)[i] = Read(a[i])
<1>1. PICK arr : arr = Json(a)
  OBVIOUS
<1>2. arr = [i \in 1 .. n |-> IF a[i] = Undefined THEN Null ELSE a[i]]
  BY <1>1 DEF Json
<1>3. DOMAIN arr = 1 .. n /\ Len(arr) = n /\ \A i \in 1 .. n : arr[i] = Read(a[i])
  BY <1>2 DEF Read
<1>4. QED
  BY <1>1, <1>3

LEMMA WrittenByType ==
    ASSUME NEW m
    PROVE  /\ m.messageType = QueryRequest => FlatToArray(m) = Json(QueryRequestToArray(m))
           /\ m.messageType = QueryResponse => FlatToArray(m) = Json(QueryResponseToArray(m))
           /\ m.messageType = QueryPropagate => FlatToArray(m) = Json(QueryPropagateToArray(m))
           /\ m.messageType = ProofOfReport => FlatToArray(m) = Json(ProofOfReportToArray(m))
           /\ m.messageType = RecoveryRequest => FlatToArray(m) = Json(RecoveryRequestToArray(m))
           /\ m.messageType = RecoveryComplete => FlatToArray(m) = Json(RecoveryCompleteToArray(m))
BY DEF FlatToArray, QueryRequest, QueryResponse, QueryPropagate, ProofOfReport,
       RecoveryRequest, RecoveryComplete

LEMMA ReadByType ==
    ASSUME NEW a
    PROVE  /\ a[2] = QueryRequest => FlatFromArray(a) = QueryRequestFromArray(a)
           /\ a[2] = QueryResponse => FlatFromArray(a) = QueryResponseFromArray(a)
           /\ a[2] = QueryPropagate => FlatFromArray(a) = QueryPropagateFromArray(a)
           /\ a[2] = ProofOfReport => FlatFromArray(a) = ProofOfReportFromArray(a)
           /\ a[2] = RecoveryRequest => FlatFromArray(a) = RecoveryRequestFromArray(a)
           /\ a[2] = RecoveryComplete => FlatFromArray(a) = RecoveryCompleteFromArray(a)
BY DEF FlatFromArray, QueryRequest, QueryResponse, QueryPropagate, ProofOfReport,
       RecoveryRequest, RecoveryComplete

(* The fields of a message of any type are set.                            *)
AllSet(m) == m.seqNum \in Nat /\ \A f \in DOMAIN m : m[f] # Undefined

LEMMA SmallNumbers ==
    Undefined # Version /\ \A type \in MessageType : Undefined # type
<1>1. MessageType \subseteq Nat /\ Version \in Nat
  BY DEF MessageType, QueryRequest, RecoveryComplete, Version
<1>2. QED
  BY <1>1, UndefinedAssumption

LEMMA ReadOptions ==
    ASSUME NEW m, IsRequest(m), NEW n \in Nat, NEW arr, DOMAIN arr = 1 .. 8 + n, Len(arr) = 8 + n,
           NEW a, a = QueryOptionsToArray(m.queryType, m.queryOptions), DOMAIN a = 1 .. n,
           \A i \in 1 .. n : arr[8 + i] = Read(a[i])
    PROVE  QueryOptionsFromArray(m.queryType, SubSeq(arr, 9, Len(arr))) = OptionsRead(m.queryType, m.queryOptions)
<1> DEFINE o == m.queryOptions
<1>0. PICK r : r = SubSeq(arr, 9, Len(arr))
  OBVIOUS
<1>1. \A i \in 1 .. n : r[i] = Read(a[i])
  BY <1>0
<1>2. CASE m.queryType = "last"
  <2>1. a = <<o.last>>
    BY <1>2 DEF QueryOptionsToArray
  <2>2. n = 1 /\ a[1] = o.last
    BY <2>1
  <2>3. QED
    BY <1>0, <1>1, <1>2, <2>2 DEF QueryOptionsFromArray, OptionsRead
<1>3. CASE m.queryType = "from"
  <2>1. a = <<o.from.timestamp, o.from.sequenceNumber, o.publisherId>>
    BY <1>3 DEF QueryOptionsToArray
  <2>2. n = 3 /\ a[1] = o.from.timestamp /\ a[2] = o.from.sequenceNumber /\ a[3] = o.publisherId
    BY <2>1
  <2>3. r[1] = Read(o.from.timestamp) /\ r[2] = Read(o.from.sequenceNumber) /\ r[3] = Read(o.publisherId)
    BY <1>1, <2>2
  <2>4. QueryOptionsFromArray("from", r) = [from |-> QueryRef(r[1], r[2]), publisherId |-> r[3]]
    BY DEF QueryOptionsFromArray
  <2>5. OptionsRead("from", o) = [from |-> RefRead(o.from), publisherId |-> Read(o.publisherId)]
    BY DEF OptionsRead
  <2>6. QED
    BY <1>0, <1>3, <2>3, <2>4, <2>5 DEF RefRead
<1>4. CASE m.queryType = "range"
  <2>1. a = <<o.from.timestamp, o.from.sequenceNumber, o.to.timestamp, o.to.sequenceNumber,
              o.msgChainId, o.publisherId>>
    BY <1>4 DEF QueryOptionsToArray
  <2>2. /\ n = 6 /\ a[1] = o.from.timestamp /\ a[2] = o.from.sequenceNumber
        /\ a[3] = o.to.timestamp /\ a[4] = o.to.sequenceNumber
        /\ a[5] = o.msgChainId /\ a[6] = o.publisherId
    <3>1. /\ a[1] = o.from.timestamp /\ a[2] = o.from.sequenceNumber
          /\ a[3] = o.to.timestamp /\ a[4] = o.to.sequenceNumber
          /\ a[5] = o.msgChainId /\ a[6] = o.publisherId
      BY ONLY <2>1
    <3>2. DOMAIN a = 1 .. 6
      BY ONLY <2>1
    <3>3. n = 6
      <4>1. 1 .. n = 1 .. 6
        BY <3>2
      <4>2. QED
        BY ONLY <4>1, n \in Nat
    <3>4. QED
      BY <3>1, <3>3
  <2>3. /\ r[1] = Read(o.from.timestamp) /\ r[2] = Read(o.from.sequenceNumber)
        /\ r[3] = Read(o.to.timestamp) /\ r[4] = Read(o.to.sequenceNumber)
        /\ r[5] = Read(o.msgChainId) /\ r[6] = Read(o.publisherId)
    BY <1>1, <2>2
  <2>4. QueryOptionsFromArray("range", r)
          = [from |-> QueryRef(r[1], r[2]), to |-> QueryRef(r[3], r[4]),
             msgChainId |-> r[5], publisherId |-> r[6]]
    BY DEF QueryOptionsFromArray
  <2>5. OptionsRead("range", o)
          = [from |-> RefRead(o.from), to |-> RefRead(o.to),
             msgChainId |-> Read(o.msgChainId), publisherId |-> Read(o.publisherId)]
    BY DEF OptionsRead
  <2>6. QED
    BY <1>0, <1>4, <2>3, <2>4, <2>5 DEF RefRead
<1>5. QED
  BY <1>2, <1>3, <1>4 DEF IsRequest, IsOptions

LEMMA ReadRequest ==
    ASSUME NEW m, IsRequest(m), AllSet(m)
    PROVE  FlatFromArray(FlatToArray(m)) = AsRead(m) /\ FlatToArray(m)[2] = QueryRequest
<1>1. /\ m.messageType = QueryRequest
      /\ m = [messageType |-> QueryRequest, seqNum |-> m.seqNum, requestId |-> m.requestId,
              consumerId |-> m.consumerId, streamId |-> m.streamId, partition |-> m.partition,
              queryType |-> m.queryType, queryOptions |-> m.queryOptions]
  BY DEF IsRequest
<1>2. PICK t : t = <<Version, QueryRequest, m.seqNum>>
                   \o <<m.requestId, m.consumerId, m.streamId, m.partition, m.queryType>>
  OBVIOUS
<1>3. PICK o : o = QueryOptionsToArray(m.queryType, m.queryOptions)
  OBVIOUS
<1>4. PICK a : a = t \o o
  OBVIOUS
<1>5. a = QueryRequestToArray(m)
  BY <1>1, <1>2, <1>3, <1>4 DEF QueryRequestToArray, Header
<1>6. /\ t[2] = QueryRequest /\ t[3] = m.seqNum /\ t[4] = m.requestId
      /\ t[5] = m.consumerId /\ t[6] = m.streamId /\ t[7] = m.partition /\ t[8] = m.queryType
  BY <1>2
<1>7. \E n \in Nat : /\ DOMAIN o = 1 .. n /\ DOMAIN a = 1 .. 8 + n
                     /\ \A i \in 1 .. 8 : a[i] = t[i]
                     /\ \A i \in 1 .. n : a[8 + i] = o[i]
  <2>1. CASE m.queryType = "last"
    <3>1. o = <<m.queryOptions.last>>
      BY <1>3, <2>1 DEF QueryOptionsToArray
    <3>2. /\ DOMAIN o = 1 .. 1 /\ DOMAIN a = 1 .. 8 + 1
          /\ \A i \in 1 .. 8 : a[i] = t[i]
          /\ \A i \in 1 .. 1 : a[8 + i] = o[i]
      BY <1>2, <1>4, <3>1
    <3>3. QED
      BY <3>2
  <2>2. CASE m.queryType = "from"
    <3>1. o = <<m.queryOptions.from.timestamp, m.queryOptions.from.sequenceNumber,
                m.queryOptions.publisherId>>
      BY <1>3, <2>2 DEF QueryOptionsToArray
    <3>2. /\ DOMAIN o = 1 .. 3 /\ DOMAIN a = 1 .. 8 + 3
          /\ \A i \in 1 .. 8 : a[i] = t[i]
          /\ \A i \in 1 .. 3 : a[8 + i] = o[i]
      BY <1>2, <1>4, <3>1
    <3>3. QED
      BY <3>2
  <2>3. CASE m.queryType = "range"
    <3>1. o = <<m.queryOptions.from.timestamp, m.queryOptions.from.sequenceNumber,
                m.queryOptions.to.timestamp, m.queryOptions.to.sequenceNumber,
                m.queryOptions.msgChainId, m.queryOptions.publisherId>>
      BY <1>3, <2>3 DEF QueryOptionsToArray
    <3>2. /\ DOMAIN o = 1 .. 6 /\ DOMAIN a = 1 .. 8 + 6
          /\ \A i \in 1 .. 8 : a[i] = t[i]
          /\ \A i \in 1 .. 6 : a[8 + i] = o[i]
      BY <1>2, <1>4, <3>1
    <3>3. QED
      BY <3>2
  <2>4. QED
    BY <2>1, <2>2, <2>3 DEF IsRequest, IsOptions
<1>8. PICK n \in Nat :
        /\ DOMAIN o = 1 .. n /\ DOMAIN a = 1 .. 8 + n
        /\ \A i \in 1 .. 8 : a[i] = t[i]
        /\ \A i \in 1 .. n : a[8 + i] = o[i]
  BY <1>7
<1>9. PICK arr : arr = Json(a)
  OBVIOUS
<1>10. /\ DOMAIN arr = 1 .. 8 + n /\ Len(arr) = 8 + n
       /\ \A i \in 1 .. 8 : arr[i] = Read(t[i])
       /\ \A i \in 1 .. n : arr[8 + i] = Read(o[i])
  <2>1. PICK l \in Nat : l = 8 + n
    OBVIOUS
  <2>2. /\ DOMAIN arr = 1 .. l /\ Len(arr) = l
        /\ \A i \in 1 .. l : arr[i] = Read(a[i])
    BY <1>8, <1>9, <2>1, JsonArray
  <2>3. /\ \A i \in 1 .. 8 : i \in 1 .. l
        /\ \A i \in 1 .. n : 8 + i \in 1 .. l
    BY <2>1
  <2>4. QED
    BY <1>8, <2>1, <2>2, <2>3
<1>11. /\ m.requestId # Undefined /\ m.consumerId # Undefined /\ m.streamId # Undefined
       /\ m.partition # Undefined /\ m.queryType # Undefined /\ m.seqNum # Undefined
  BY <1>1 DEF AllSet
<1>12. QueryRequest # Undefined
  BY SmallNumbers DEF MessageType, QueryRequest, RecoveryComplete
<1>13. /\ arr[2] = QueryRequest /\ arr[3] = m.seqNum /\ arr[4] = m.requestId
       /\ arr[5] = m.consumerId /\ arr[6] = m.streamId /\ arr[7] = m.partition /\ arr[8] = m.queryType
  BY <1>6, <1>10, <1>11, <1>12 DEF Read
<1>14. FlatToArray(m) = arr
  BY <1>1, <1>5, <1>9, WrittenByType
<1>15. FlatFromArray(arr) = QueryRequestFromArray(arr)
  BY <1>13, ReadByType
<1>16. QueryOptionsFromArray(m.queryType, SubSeq(arr, 9, Len(arr))) = OptionsRead(m.queryType, m.queryOptions)
  BY <1>3, <1>8, <1>10, ReadOptions, SMTT(30)
<1>17. AsRead(m) = [m EXCEPT !.queryOptions = OptionsRead(m.queryType, m.queryOptions)]
  BY <1>1 DEF AsRead
<1>18. QED
  BY <1>1, <1>13, <1>14, <1>15, <1>16, <1>17 DEF QueryRequestFromArray

LEMMA ReadResponse ==
    ASSUME NEW m, IsResponse(m), AllSet(m)
    PROVE  FlatFromArray(FlatToArray(m)) = AsRead(m) /\ FlatToArray(m)[2] = QueryResponse
<1>1. /\ m.messageType = QueryResponse
      /\ m = [messageType |-> QueryResponse, seqNum |-> m.seqNum, requestId |-> m.requestId,
              requestPublisherId |-> m.requestPublisherId, hashMap |-> m.hashMap]
  BY DEF IsResponse
<1>2. PICK a : a = <<Version, QueryResponse, m.seqNum>>
                   \o <<m.requestId, m.requestPublisherId, m.hashMap>>
  OBVIOUS
<1>3. a = QueryResponseToArray(m)
  BY <1>1, <1>2 DEF QueryResponseToArray, Header
<1>4. /\ DOMAIN a = 1 .. 6 /\ a[2] = QueryResponse /\ a[3] = m.seqNum
      /\ a[4] = m.requestId /\ a[5] = m.requestPublisherId /\ a[6] = m.hashMap
  BY <1>2
<1>5. PICK arr : arr = Json(a)
  OBVIOUS
<1>6. \A i \in 1 .. 6 : arr[i] = Read(a[i])
  BY <1>4, <1>5, JsonArray
<1>7. \A i \in 1 .. 6 : i # 1 => a[i] # Undefined
  <2>1. QueryResponse # Undefined
    BY SmallNumbers DEF MessageType, QueryRequest, RecoveryComplete, QueryResponse
  <2>2. m.seqNum # Undefined /\ m.requestId # Undefined /\ m.requestPublisherId # Undefined /\ m.hashMap # Undefined
    BY <1>1 DEF AllSet
  <2>3. QED
    BY <1>4, <2>1, <2>2
<1>8. /\ arr[2] = QueryResponse /\ arr[3] = m.seqNum
      /\ arr[4] = m.requestId /\ arr[5] = m.requestPublisherId /\ arr[6] = m.hashMap
  BY <1>4, <1>6, <1>7 DEF Read
<1>9. FlatToArray(m) = arr
  BY <1>1, <1>3, <1>5, WrittenByType
<1>10. FlatFromArray(arr) = QueryResponseFromArray(arr)
  BY <1>8, ReadByType
<1>11. AsRead(m) = m
  BY <1>1 DEF AsRead, QueryRequest, QueryResponse
<1>12. QED
  BY <1>1, <1>8, <1>9, <1>10, <1>11 DEF QueryResponseFromArray

LEMMA ReadPropagate ==
    ASSUME NEW m, IsPropagate(m), AllSet(m)
    PROVE  FlatFromArray(FlatToArray(m)) = AsRead(m) /\ FlatToArray(m)[2] = QueryPropagate
<1>1. /\ m.messageType = QueryPropagate
      /\ m = [messageType |-> QueryPropagate, seqNum |-> m.seqNum, requestId |-> m.requestId,
              requestPublisherId |-> m.requestPublisherId, payload |-> m.payload]
  BY DEF IsPropagate
<1>2. PICK a : a = <<Version, QueryPropagate, m.seqNum>>
                   \o <<m.requestId, m.requestPublisherId, m.payload>>
  OBVIOUS
<1>3. a = QueryPropagateToArray(m)
  BY <1>1, <1>2 DEF QueryPropagateToArray, Header
<1>4. /\ DOMAIN a = 1 .. 6 /\ a[2] = QueryPropagate /\ a[3] = m.seqNum
      /\ a[4] = m.requestId /\ a[5] = m.requestPublisherId /\ a[6] = m.payload
  BY <1>2
<1>5. PICK arr : arr = Json(a)
  OBVIOUS
<1>6. \A i \in 1 .. 6 : arr[i] = Read(a[i])
  BY <1>4, <1>5, JsonArray
<1>7. \A i \in 1 .. 6 : i # 1 => a[i] # Undefined
  <2>1. QueryPropagate # Undefined
    BY SmallNumbers DEF MessageType, QueryRequest, RecoveryComplete, QueryPropagate
  <2>2. m.seqNum # Undefined /\ m.requestId # Undefined /\ m.requestPublisherId # Undefined /\ m.payload # Undefined
    BY <1>1 DEF AllSet
  <2>3. QED
    BY <1>4, <2>1, <2>2
<1>8. /\ arr[2] = QueryPropagate /\ arr[3] = m.seqNum
      /\ arr[4] = m.requestId /\ arr[5] = m.requestPublisherId /\ arr[6] = m.payload
  BY <1>4, <1>6, <1>7 DEF Read
<1>9. FlatToArray(m) = arr
  BY <1>1, <1>3, <1>5, WrittenByType
<1>10. FlatFromArray(arr) = QueryPropagateFromArray(arr)
  BY <1>8, ReadByType
<1>11. AsRead(m) = m
  BY <1>1 DEF AsRead, QueryRequest, QueryPropagate
<1>12. QED
  BY <1>1, <1>8, <1>9, <1>10, <1>11 DEF QueryPropagateFromArray

LEMMA ReadProof ==
    ASSUME NEW m, IsProof(m), AllSet(m)
    PROVE  FlatFromArray(FlatToArray(m)) = AsRead(m) /\ FlatToArray(m)[2] = ProofOfReport
<1>1. /\ m.messageType = ProofOfReport
      /\ m = [messageType |-> ProofOfReport, seqNum |-> m.seqNum, address |-> m.address,
              hash |-> m.hash, toth |-> m.toth, timestamp |-> m.timestamp,
              signature |-> m.signature]
  BY DEF IsProof
<1>2. PICK a : a = <<Version, ProofOfReport, m.seqNum>>
                   \o <<m.address, m.hash, m.toth, m.timestamp, m.signature>>
  OBVIOUS
<1>3. a = ProofOfReportToArray(m)
  BY <1>1, <1>2 DEF ProofOfReportToArray, Header
<1>4. /\ DOMAIN a = 1 .. 8 /\ a[2] = ProofOfReport /\ a[3] = m.seqNum
      /\ a[4] = m.address /\ a[5] = m.hash /\ a[6] = m.toth /\ a[7] = m.timestamp /\ a[8] = m.signature
  BY <1>2
<1>5. PICK arr : arr = Json(a)
  OBVIOUS
<1>6. \A i \in 1 .. 8 : arr[i] = Read(a[i])
  BY <1>4, <1>5, JsonArray
<1>7. \A i \in 1 .. 8 : i # 1 => a[i] # Undefined
  <2>1. ProofOfReport # Undefined
    BY SmallNumbers DEF MessageType, QueryRequest, RecoveryComplete, ProofOfReport
  <2>2. m.seqNum # Undefined /\ m.address # Undefined /\ m.hash # Undefined /\ m.toth # Undefined /\ m.timestamp # Undefined /\ m.signature # Undefined
    BY <1>1 DEF AllSet
  <2>3. QED
    BY <1>4, <2>1, <2>2
<1>8. /\ arr[2] = ProofOfReport /\ arr[3] = m.seqNum
      /\ arr[4] = m.address /\ arr[5] = m.hash /\ arr[6] = m.toth /\ arr[7] = m.timestamp /\ arr[8] = m.signature
  BY <1>4, <1>6, <1>7 DEF Read
<1>9. FlatToArray(m) = arr
  BY <1>1, <1>3, <1>5, WrittenByType
<1>10. FlatFromArray(arr) = ProofOfReportFromArray(arr)
  BY <1>8, ReadByType
<1>11. AsRead(m) = m
  BY <1>1 DEF AsRead, QueryRequest, ProofOfReport
<1>12. QED
  BY <1>1, <1>8, <1>9, <1>10, <1>11 DEF ProofOfReportFromArray

LEMMA ReadRecoveryRequest ==
    ASSUME NEW m, IsRecovery(m), m.messageType = RecoveryRequest, AllSet(m)
    PROVE  FlatFromArray(FlatToArray(m)) = AsRead(m) /\ FlatToArray(m)[2] = RecoveryRequest
<1>1. /\ m.messageType = RecoveryRequest
      /\ m = [messageType |-> RecoveryRequest, seqNum |-> m.seqNum,
              requestId |-> m.requestId, from |-> m.from, to |-> m.to]
  BY DEF IsRecovery, RecoveryRequest, RecoveryResponse, RecoveryComplete
<1>2. PICK a : a = <<Version, RecoveryRequest, m.seqNum>>
                   \o <<m.requestId, m.from, m.to>>
  OBVIOUS
<1>3. a = RecoveryRequestToArray(m)
  BY <1>1, <1>2 DEF RecoveryRequestToArray, Header
<1>4. /\ DOMAIN a = 1 .. 6 /\ a[2] = RecoveryRequest /\ a[3] = m.seqNum
      /\ a[4] = m.requestId /\ a[5] = m.from /\ a[6] = m.to
  BY <1>2
<1>5. PICK arr : arr = Json(a)
  OBVIOUS
<1>6. \A i \in 1 .. 6 : arr[i] = Read(a[i])
  BY <1>4, <1>5, JsonArray
<1>7. \A i \in 1 .. 6 : i # 1 => a[i] # Undefined
  <2>1. RecoveryRequest # Undefined
    BY SmallNumbers DEF MessageType, QueryRequest, RecoveryComplete, RecoveryRequest
  <2>2. m.seqNum # Undefined /\ m.requestId # Undefined /\ m.from # Undefined /\ m.to # Undefined
    BY <1>1 DEF AllSet
  <2>3. QED
    BY <1>4, <2>1, <2>2
<1>8. /\ arr[2] = RecoveryRequest /\ arr[3] = m.seqNum
      /\ arr[4] = m.requestId /\ arr[5] = m.from /\ arr[6] = m.to
  BY <1>4, <1>6, <1>7 DEF Read
<1>9. FlatToArray(m) = arr
  BY <1>1, <1>3, <1>5, WrittenByType
<1>10. FlatFromArray(arr) = RecoveryRequestFromArray(arr)
  BY <1>8, ReadByType
<1>11. AsRead(m) = m
  BY <1>1 DEF AsRead, QueryRequest, RecoveryRequest
<1>12. QED
  BY <1>1, <1>8, <1>9, <1>10, <1>11 DEF RecoveryRequestFromArray

LEMMA ReadRecoveryComplete ==
    ASSUME NEW m, IsRecovery(m), m.messageType = RecoveryComplete, AllSet(m)
    PROVE  FlatFromArray(FlatToArray(m)) = AsRead(m) /\ FlatToArray(m)[2] = RecoveryComplete
<1>1. /\ m.messageType = RecoveryComplete
      /\ m = [messageType |-> RecoveryComplete, seqNum |-> m.seqNum,
              requestId |-> m.requestId, isFulfilled |-> m.isFulfilled]
  BY DEF IsRecovery, RecoveryRequest, RecoveryResponse, RecoveryComplete
<1>2. PICK a : a = <<Version, RecoveryComplete, m.seqNum>>
                   \o <<m.requestId, m.isFulfilled>>
  OBVIOUS
<1>3. a = RecoveryCompleteToArray(m)
  BY <1>1, <1>2 DEF RecoveryCompleteToArray, Header
<1>4. /\ DOMAIN a = 1 .. 5 /\ a[2] = RecoveryComplete /\ a[3] = m.seqNum
      /\ a[4] = m.requestId /\ a[5] = m.isFulfilled
  BY <1>2
<1>5. PICK arr : arr = Json(a)
  OBVIOUS
<1>6. \A i \in 1 .. 5 : arr[i] = Read(a[i])
  BY <1>4, <1>5, JsonArray
<1>7. \A i \in 1 .. 5 : i # 1 => a[i] # Undefined
  <2>1. RecoveryComplete # Undefined
    BY SmallNumbers DEF MessageType, QueryRequest, RecoveryComplete
  <2>2. m.seqNum # Undefined /\ m.requestId # Undefined /\ m.isFulfilled # Undefined
    BY <1>1 DEF AllSet
  <2>3. QED
    BY <1>4, <2>1, <2>2
<1>8. /\ arr[2] = RecoveryComplete /\ arr[3] = m.seqNum
      /\ arr[4] = m.requestId /\ arr[5] = m.isFulfilled
  BY <1>4, <1>6, <1>7 DEF Read
<1>9. FlatToArray(m) = arr
  BY <1>1, <1>3, <1>5, WrittenByType
<1>10. FlatFromArray(arr) = RecoveryCompleteFromArray(arr)
  BY <1>8, ReadByType
<1>11. AsRead(m) = m
  BY <1>1 DEF AsRead, QueryRequest, RecoveryComplete
<1>12. QED
  BY <1>1, <1>8, <1>9, <1>10, <1>11 DEF RecoveryCompleteFromArray

(* The response of a recovery is read as one, with its number.             *)
LEMMA ReadRecovery ==
    ASSUME NEW m, IsRecovery(m), m.messageType = RecoveryResponse
    PROVE  /\ Deserialize(Serialize(m)).messageType = RecoveryResponse
           /\ Deserialize(Serialize(m)).seqNum = m.seqNum
<1>1. PICK c : c = [i \in DOMAIN m.payload |-> <<FlatToArray(m.payload[i].content),
                                                  Json(MetadataToArray(m.payload[i].metadata))>>]
  OBVIOUS
<1>2. PICK a : a = <<Version, m.messageType, m.seqNum>> \o <<m.requestId, c>>
  OBVIOUS
<1>3. ResponseToArray(m) = a
  BY <1>1, <1>2 DEF ResponseToArray, Header
<1>4. a[2] = RecoveryResponse /\ a[3] = m.seqNum
  BY <1>2
<1>5. Serialize(m) = a /\ Deserialize(a) = ResponseFromArray(a)
  BY <1>3, <1>4 DEF Serialize, Deserialize
<1>6. QED
  BY <1>4, <1>5 DEF ResponseFromArray

LEMMA ReadFlat ==
    ASSUME NEW m, IsMessage(m), m.messageType # RecoveryResponse
    PROVE  /\ FlatFromArray(FlatToArray(m)) = AsRead(m)
           /\ FlatToArray(m)[2] = m.messageType
<1>1. AllSet(m)
  BY DEF AllSet, IsMessage
<1>2. CASE IsRequest(m)
  BY <1>1, <1>2, ReadRequest DEF IsRequest
<1>3. CASE IsResponse(m)
  BY <1>1, <1>3, ReadResponse DEF IsResponse
<1>4. CASE IsPropagate(m)
  BY <1>1, <1>4, ReadPropagate DEF IsPropagate
<1>5. CASE IsProof(m)
  BY <1>1, <1>5, ReadProof DEF IsProof
<1>6. CASE IsRecovery(m)
  BY <1>1, <1>6, ReadRecoveryRequest, ReadRecoveryComplete DEF IsRecovery
<1>7. QED
  BY <1>2, <1>3, <1>4, <1>5, <1>6 DEF IsMessage

LEMMA ReadBack ==
    ASSUME NEW m, IsMessage(m), NEW r, r = Deserialize(Serialize(m))
    PROVE  /\ r.messageType = m.messageType /\ r.seqNum = m.seqNum
           /\ m.messageType # RecoveryResponse => r = AsRead(m)
<1>1. CASE m.messageType = RecoveryResponse
  <2>1. IsRecovery(m)
    BY <1>1 DEF IsMessage, IsRequest, IsResponse, IsPropagate, IsProof, QueryRequest,
                QueryResponse, QueryPropagate, ProofOfReport, RecoveryResponse
  <2>2. QED
    BY <1>1, <2>1, ReadRecovery
<1>2. CASE m.messageType # RecoveryResponse
  <2>1. r = AsRead(m)
    BY <1>2, ReadFlat DEF Serialize, Deserialize
  <2>2. AsRead(m).messageType = m.messageType /\ AsRead(m).seqNum = m.seqNum
    <3>1. CASE m.messageType = QueryRequest
      <4>1. IsRequest(m)
        BY <3>1 DEF IsMessage, IsRequest, IsResponse, IsPropagate, IsProof, IsRecovery,
              QueryRequest, QueryResponse, QueryPropagate, ProofOfReport, RecoveryRequest,
              RecoveryResponse, RecoveryComplete
      <4>2. QED
        BY <3>1, <4>1 DEF AsRead, IsRequest
    <3>2. CASE m.messageType # QueryRequest
      BY <3>2 DEF AsRead
    <3>3. QED
      BY <3>1, <3>2
  <2>3. QED
    BY <2>1, <2>2
<1>3. QED
  BY <1>1, <1>2

-------------------------------------------------------------------------------
(* Reports: the sequences that their hashes are made of.                   *)
Row == [id : STRING, capture : Int, bytes : Nat]

(* What a hash is made of.                                                 *)
Part == STRING \union Int \union {Hex(n) : n \in Int}

Rows(rows) == [i \in DOMAIN rows |-> <<rows[i].id, Hex(rows[i].capture), rows[i].bytes>>]
DelegateRows(delegates) ==
    [i \in DOMAIN delegates |-> <<delegates[i][1]>> \o FlattenSeq(HexNodes(delegates[i][2]))]

(* A record of a set of records is what its fields are.                    *)
LEMMA Fields ==
    ASSUME NEW r \in PlainReport
    PROVE  /\ r = [s |-> FALSE, id |-> r.id, height |-> r.height, treasury |-> r.treasury,
                   streams |-> r.streams, consumers |-> r.consumers, nodes |-> r.nodes,
                   delegates |-> r.delegates]
           /\ r.id \in Nat /\ r.height \in Nat /\ r.treasury \in Int
           /\ r.streams \in Seq(Row)
           /\ r.consumers \in Seq(Row)
           /\ r.nodes \in Seq(STRING \X Int)
           /\ r.delegates \in Seq(STRING \X Seq(STRING \X Int))
BY DEF PlainReport, Row

LEMMA Flat ==
    ASSUME NEW E, NEW n \in Nat, NEW seqs, DOMAIN seqs = 1 .. n, seqs = [i \in 1 .. n |-> seqs[i]],
           \A i \in 1 .. n : seqs[i] \in Seq(E)
    PROVE  FlattenSeq(seqs) \in Seq(E)
<1>1. PICK D : D = Seq(E)
  OBVIOUS
<1>2. seqs \in Seq(D) /\ Len(seqs) = n
  BY <1>1
<1>3. CASE n = 0
  <2>1. seqs = <<>>
    BY <1>2, <1>3
  <2>2. FlattenSeq(seqs) = <<>>
    BY <1>2, <1>3, <2>1 DEF FlattenSeq
  <2>3. QED
    BY <2>2
<1>4. CASE n # 0
  <2>1. PICK h : h = CHOOSE f : Flattening(f, seqs)
    OBVIOUS
  <2>2. Flattening(h, seqs)
    BY <1>1, <1>2, <2>1, FlatExists
  <2>3. FlattenSeq(seqs) = h[n]
    BY <1>2, <1>4, <2>1 DEF FlattenSeq, Flattening
  <2>4. h[n] \in Seq(E)
    BY <1>1, <1>2, <1>4, <2>2, FlatIsSeq
  <2>5. QED
    BY <2>3, <2>4
<1>5. QED
  BY <1>3, <1>4

LEMMA RowFields ==
    ASSUME NEW row \in Row
    PROVE  /\ row = [id |-> row.id, capture |-> row.capture, bytes |-> row.bytes]
           /\ [row EXCEPT !.id = StrToHex(@), !.capture = Hex(@)]
                = [id |-> StrToHex(row.id), capture |-> Hex(row.capture), bytes |-> row.bytes]
           /\ [row EXCEPT !.capture = Hex(@)]
                = [id |-> row.id, capture |-> Hex(row.capture), bytes |-> row.bytes]
           /\ row.id \in STRING /\ row.capture \in Int /\ row.bytes \in Nat
<1>1. row = [id |-> row.id, capture |-> row.capture, bytes |-> row.bytes]
  BY DEF Row
<1>2. PICK a, b, c : row = [id |-> a, capture |-> b, bytes |-> c]
  BY <1>1
<1>3. PICK x : x = [row EXCEPT !.id = StrToHex(row.id)]
  OBVIOUS
<1>4. x = [id |-> StrToHex(a), capture |-> b, bytes |-> c]
  BY <1>2, <1>3
<1>5. [x EXCEPT !.capture = Hex(b)] = [id |-> StrToHex(a), capture |-> Hex(b), bytes |-> c]
  BY <1>4
<1>6. [row EXCEPT !.id = StrToHex(@), !.capture = Hex(@)] = [x EXCEPT !.capture = Hex(b)]
  BY <1>2, <1>3
<1>7. [row EXCEPT !.capture = Hex(row.capture)]
        = [id |-> row.id, capture |-> Hex(row.capture), bytes |-> row.bytes]
  BY <1>2
<1>8. QED
  BY <1>1, <1>2, <1>5, <1>6, <1>7 DEF Row

LEMMA RowsFlat ==
    ASSUME NEW rows \in Seq(Row)
    PROVE  FlattenSeq(Rows(rows)) \in Seq(Part)
<1>1. PICK n \in Nat : n = Len(rows) /\ DOMAIN rows = 1 .. n
  OBVIOUS
<1>2. PICK seqs : seqs = Rows(rows)
  OBVIOUS
<1>3. seqs = [i \in 1 .. n |-> <<rows[i].id, Hex(rows[i].capture), rows[i].bytes>>]
  BY <1>1, <1>2 DEF Rows
<1>4. ASSUME NEW i \in 1 .. n PROVE seqs[i] \in Seq(Part)
  <2>0. rows[i].id \in STRING /\ rows[i].capture \in Int /\ rows[i].bytes \in Int
    <3>1. rows[i] \in Row
      BY <1>1
    <3>2. QED
      BY <3>1 DEF Row
  <2>1. rows[i].id \in Part /\ Hex(rows[i].capture) \in Part /\ rows[i].bytes \in Part
    BY <2>0 DEF Part
  <2>2. <<rows[i].id, Hex(rows[i].capture), rows[i].bytes>> \in Seq(Part)
    BY <2>1
  <2>3. QED
    BY <1>3, <2>2
<1>5. QED
  BY <1>2, <1>3, <1>4, Flat

LEMMA NodesFlat ==
    ASSUME NEW nodes \in Seq(STRING \X Int)
    PROVE  FlattenSeq(HexNodes(nodes)) \in Seq(Part)
<1>1. PICK n \in Nat : n = Len(nodes) /\ DOMAIN nodes = 1 .. n
  OBVIOUS
<1>2. PICK seqs : seqs = HexNodes(nodes)
  OBVIOUS
<1>3. seqs = [i \in 1 .. n |-> <<nodes[i][1], Hex(nodes[i][2])>>]
  BY <1>1, <1>2 DEF HexNodes
<1>4. ASSUME NEW i \in 1 .. n PROVE seqs[i] \in Seq(Part)
  <2>1. nodes[i][1] \in Part /\ Hex(nodes[i][2]) \in Part
    BY <1>1 DEF Part
  <2>2. <<nodes[i][1], Hex(nodes[i][2])>> \in Seq(Part)
    BY <2>1
  <2>3. QED
    BY <1>3, <2>2
<1>5. QED
  BY <1>2, <1>3, <1>4, Flat

LEMMA DelegatesFlat ==
    ASSUME NEW delegates \in Seq(STRING \X Seq(STRING \X Int))
    PROVE  FlattenSeq(DelegateRows(delegates)) \in Seq(Part)
<1>1. PICK n \in Nat : n = Len(delegates) /\ DOMAIN delegates = 1 .. n
  OBVIOUS
<1>2. PICK seqs : seqs = DelegateRows(delegates)
  OBVIOUS
<1>3. seqs = [i \in 1 .. n |-> <<delegates[i][1]>> \o FlattenSeq(HexNodes(delegates[i][2]))]
  BY <1>1, <1>2 DEF DelegateRows
<1>4. ASSUME NEW i \in 1 .. n PROVE seqs[i] \in Seq(Part)
  <2>1. delegates[i][1] \in STRING /\ delegates[i][2] \in Seq(STRING \X Int)
    BY <1>1
  <2>2. <<delegates[i][1]>> \in Seq(Part)
    BY <2>1 DEF Part
  <2>3. FlattenSeq(HexNodes(delegates[i][2])) \in Seq(Part)
    BY <2>1, NodesFlat
  <2>4. QED
    BY <1>3, <2>2, <2>3, ConcatIsSeq
<1>5. QED
  BY <1>2, <1>3, <1>4, Flat

Written(r) == [s |-> TRUE, id |-> r.id, height |-> r.height, treasury |-> Hex(r.treasury),
               streams |-> [i \in DOMAIN r.streams |->
                              [id |-> StrToHex(r.streams[i].id),
                               capture |-> Hex(r.streams[i].capture),
                               bytes |-> r.streams[i].bytes]],
               consumers |-> [i \in DOMAIN r.consumers |->
                                [id |-> r.consumers[i].id,
                                 capture |-> Hex(r.consumers[i].capture),
                                 bytes |-> r.consumers[i].bytes]],
               nodes |-> HexNodes(r.nodes),
               delegates |-> [i \in DOMAIN r.delegates |->
                                <<r.delegates[i][1], HexNodes(r.delegates[i][2])>>]]

LEMMA WrittenIs == ASSUME NEW r \in PlainReport PROVE Serialized(r) = Written(r)
<1>1. r.s = FALSE
  BY Fields
<1>2. \A i \in DOMAIN r.streams : r.streams[i] \in Row
  BY Fields
<1>3. \A i \in DOMAIN r.consumers : r.consumers[i] \in Row
  BY Fields
<1>4. [i \in DOMAIN r.streams |-> [r.streams[i] EXCEPT !.id = StrToHex(@), !.capture = Hex(@)]]
        = Written(r).streams
  BY <1>2, RowFields DEF Written
<1>5. [i \in DOMAIN r.consumers |-> [r.consumers[i] EXCEPT !.capture = Hex(@)]]
        = Written(r).consumers
  BY <1>3, RowFields DEF Written
<1>6. QED
  BY <1>1, <1>4, <1>5 DEF Serialized, SerializeReport, Written

Packed(r) == FlattenSeq(Rows(r.streams)) \o FlattenSeq(Rows(r.consumers))
             \o FlattenSeq(HexNodes(r.nodes)) \o FlattenSeq(DelegateRows(r.delegates))

LEMMA PackIs == ASSUME NEW r \in PlainReport PROVE Pack(Written(r)) = Packed(r)
<1>1. PICK w : w = Written(r)
  OBVIOUS
<1>2. [i \in DOMAIN w.streams |-> <<HexToStr(w.streams[i].id), w.streams[i].capture, w.streams[i].bytes>>]
        = Rows(r.streams)
  BY <1>1 DEF Written, Rows, HexToStr, StrToHex
<1>3. [i \in DOMAIN w.consumers |-> <<w.consumers[i].id, w.consumers[i].capture, w.consumers[i].bytes>>]
        = Rows(r.consumers)
  BY <1>1 DEF Written, Rows
<1>4. ASSUME NEW nodes
      PROVE  PackedNodes(HexNodes(nodes)) = FlattenSeq(HexNodes(nodes))
  <2>1. PICK h : h = HexNodes(nodes)
    OBVIOUS
  <2>2. h = [i \in DOMAIN nodes |-> <<nodes[i][1], Hex(nodes[i][2])>>]
    BY <2>1 DEF HexNodes
  <2>3. [i \in DOMAIN h |-> <<h[i][1], h[i][2]>>] = h
    BY <2>2
  <2>4. QED
    BY <2>1, <2>3 DEF PackedNodes
<1>5. w.nodes = HexNodes(r.nodes)
  BY <1>1 DEF Written
<1>6. [i \in DOMAIN w.delegates |-> <<w.delegates[i][1]>> \o PackedNodes(w.delegates[i][2])]
        = DelegateRows(r.delegates)
  <2>1. PICK d : d = w.delegates
    OBVIOUS
  <2>2. d = [i \in DOMAIN r.delegates |-> <<r.delegates[i][1], HexNodes(r.delegates[i][2])>>]
    BY <1>1, <2>1 DEF Written
  <2>3. DOMAIN d = DOMAIN r.delegates
    BY <2>2
  <2>4. \A i \in DOMAIN r.delegates :
           <<d[i][1]>> \o PackedNodes(d[i][2])
             = <<r.delegates[i][1]>> \o FlattenSeq(HexNodes(r.delegates[i][2]))
    BY <2>2, <1>4
  <2>5. QED
    BY <2>1, <2>3, <2>4 DEF DelegateRows
<1>7. QED
  BY <1>1, <1>2, <1>3, <1>4, <1>5, <1>6 DEF Pack, Packed

LEMMA HashIs ==
    ASSUME NEW r \in PlainReport, NEW ts
    PROVE  ToHash(r, ts) = <<r.id, r.height>> \o Packed(r) \o <<Hex(r.treasury)>>
                           \o (IF ts = 0 THEN <<>> ELSE <<ts>>)
<1>1. PICK w : w = Written(r)
  OBVIOUS
<1>2. ToHash(r, ts) = <<w.id, w.height>> \o Pack(w) \o <<w.treasury>>
                      \o (IF ts = 0 THEN <<>> ELSE <<ts>>)
  BY <1>1, WrittenIs DEF ToHash
<1>3. w.id = r.id /\ w.height = r.height /\ w.treasury = Hex(r.treasury) /\ Pack(w) = Packed(r)
  BY <1>1, PackIs DEF Written
<1>4. QED
  BY <1>2, <1>3

LEMMA PackedIsSeq == ASSUME NEW r \in PlainReport PROVE Packed(r) \in Seq(Part)
<1>1. /\ FlattenSeq(Rows(r.streams)) \in Seq(Part) /\ FlattenSeq(Rows(r.consumers)) \in Seq(Part)
      /\ FlattenSeq(HexNodes(r.nodes)) \in Seq(Part)
      /\ FlattenSeq(DelegateRows(r.delegates)) \in Seq(Part)
  BY Fields, RowsFlat, NodesFlat, DelegatesFlat
<1>2. QED
  BY <1>1, ConcatIsSeq DEF Packed

(* A hash with a timestamp is the hash without one, and the timestamp.     *)
LEMMA HashStamped ==
    ASSUME NEW r \in PlainReport, NEW ts \in Nat \ {0}
    PROVE  ToHash(r, ts) = ToHash(r, 0) \o <<ts>>
<1>1. PICK y : y = <<r.id, r.height>> \o Packed(r) \o <<Hex(r.treasury)>>
  OBVIOUS
<1>2. y \in Seq(Part)
  <2>1. <<r.id, r.height>> \in Seq(Part) /\ <<Hex(r.treasury)>> \in Seq(Part)
    <3>1. r.id \in Part /\ r.height \in Part /\ Hex(r.treasury) \in Part
      BY Fields DEF Part
    <3>2. QED
      BY <3>1
  <2>2. QED
    BY <1>1, <2>1, PackedIsSeq, ConcatIsSeq
<1>3. ToHash(r, 0) = y
  <2>1. ToHash(r, 0) = y \o <<>>
    BY <1>1, HashIs
  <2>2. QED
    BY <1>2, <2>1
<1>4. QED
  BY <1>1, <1>3, HashIs

(* The contract makes the hash of the report from its parameters.          *)
LEMMA ContractHashIs ==
    ASSUME NEW r \in PlainReport, NEW ts \in Nat \ {0}
    PROVE  ContractHash(ToContract(r), ts) = ToHash(r, ts)
<1>1. PICK p : p = ToContract(r)
  OBVIOUS
<1>2. Deserialized(r) = r
  BY Fields DEF Deserialized
<1>3. p = [id |-> r.id, blockHeight |-> r.height,
           streams |-> [i \in DOMAIN r.streams |-> r.streams[i].id],
           writeCaptureAmounts |-> [i \in DOMAIN r.streams |-> r.streams[i].capture],
           writeBytes |-> [i \in DOMAIN r.streams |-> r.streams[i].bytes],
           readConsumerAddresses |-> [i \in DOMAIN r.consumers |-> r.consumers[i].id],
           readCaptureAmounts |-> [i \in DOMAIN r.consumers |-> r.consumers[i].capture],
           readBytes |-> [i \in DOMAIN r.consumers |-> r.consumers[i].bytes],
           nodes |-> [i \in DOMAIN r.nodes |-> r.nodes[i][1]],
           nodeChanges |-> [i \in DOMAIN r.nodes |-> r.nodes[i][2]],
           delegates |-> [i \in DOMAIN r.delegates |-> r.delegates[i][1]],
           delegateNodes |-> [i \in DOMAIN r.delegates |->
                                [j \in DOMAIN r.delegates[i][2] |-> r.delegates[i][2][j][1]]],
           delegateNodeChanges |-> [i \in DOMAIN r.delegates |->
                                [j \in DOMAIN r.delegates[i][2] |-> r.delegates[i][2][j][2]]],
           treasurySupplyChange |-> r.treasury]
  BY <1>1, <1>2 DEF ToContract
<1>4. [i \in DOMAIN p.streams |-> <<p.streams[i], Hex(p.writeCaptureAmounts[i]), p.writeBytes[i]>>]
        = Rows(r.streams)
  BY <1>3 DEF Rows
<1>5. [i \in DOMAIN p.readConsumerAddresses |->
          <<p.readConsumerAddresses[i], Hex(p.readCaptureAmounts[i]), p.readBytes[i]>>]
        = Rows(r.consumers)
  BY <1>3 DEF Rows
<1>6. [i \in DOMAIN p.nodes |-> <<p.nodes[i], Hex(p.nodeChanges[i])>>] = HexNodes(r.nodes)
  BY <1>3 DEF HexNodes
<1>7. [i \in DOMAIN p.delegates |->
          <<p.delegates[i]>> \o FlattenSeq([j \in DOMAIN p.delegateNodes[i] |->
                <<p.delegateNodes[i][j], Hex(p.delegateNodeChanges[i][j])>>])]
        = DelegateRows(r.delegates)
  BY <1>3 DEF DelegateRows, HexNodes
<1>8. PICK a, b, c, d, e, f :
        /\ a = <<r.id, r.height>> /\ b = FlattenSeq(Rows(r.streams))
        /\ c = FlattenSeq(Rows(r.consumers)) /\ d = FlattenSeq(HexNodes(r.nodes))
        /\ e = FlattenSeq(DelegateRows(r.delegates)) /\ f = <<Hex(r.treasury), ts>>
  OBVIOUS
<1>9. ContractHash(p, ts) = a \o b \o c \o d \o e \o f
  <2>1. p.id = r.id /\ p.blockHeight = r.height /\ p.treasurySupplyChange = r.treasury
    BY <1>3
  <2>2. QED
    BY <1>4, <1>5, <1>6, <1>7, <1>8, <2>1 DEF ContractHash
<1>10. ToHash(r, ts) = a \o (b \o c \o d \o e) \o <<Hex(r.treasury)>> \o <<ts>>
  BY <1>8, HashIs DEF Packed
<1>11. /\ a \in Seq(Part) /\ b \in Seq(Part) /\ c \in Seq(Part) /\ d \in Seq(Part)
       /\ e \in Seq(Part) /\ <<Hex(r.treasury)>> \in Seq(Part) /\ <<ts>> \in Seq(Part)
  <2>1. b \in Seq(Part) /\ c \in Seq(Part) /\ d \in Seq(Part) /\ e \in Seq(Part)
    BY <1>8, Fields, RowsFlat, NodesFlat, DelegatesFlat
  <2>2. r.id \in Part /\ r.height \in Part /\ Hex(r.treasury) \in Part /\ ts \in Part
    BY Fields DEF Part
  <2>3. QED
    BY <1>8, <2>1, <2>2
<1>12. f = <<Hex(r.treasury)>> \o <<ts>>
  BY <1>8
<1>13. PICK g, h : g = <<Hex(r.treasury)>> /\ h = <<ts>> /\ g \in Seq(Part) /\ h \in Seq(Part)
  BY <1>11
<1>14. PICK u : u = b \o c /\ u \in Seq(Part)
  BY <1>11, ConcatIsSeq
<1>15. PICK v : v = u \o d /\ v \in Seq(Part)
  BY <1>11, <1>14, ConcatIsSeq
<1>16. a \o (v \o e) = (a \o v) \o e
  <2>1. a \in Seq(Part) /\ v \in Seq(Part) /\ e \in Seq(Part)
    BY <1>11, <1>15
  <2>2. QED
    BY ONLY <2>1, ConcatAssociative
<1>17. a \o v = (a \o u) \o d
  <2>1. a \in Seq(Part) /\ u \in Seq(Part) /\ d \in Seq(Part)
    BY <1>11, <1>14
  <2>2. a \o (u \o d) = (a \o u) \o d
    BY ONLY <2>1, ConcatAssociative
  <2>3. QED
    BY <1>15, <2>2
<1>18. a \o u = (a \o b) \o c
  <2>1. a \in Seq(Part) /\ b \in Seq(Part) /\ c \in Seq(Part)
    BY <1>11
  <2>2. a \o (b \o c) = (a \o b) \o c
    BY ONLY <2>1, ConcatAssociative
  <2>3. QED
    BY <1>14, <2>2
<1>19. PICK w : w = a \o (v \o e) /\ w \in Seq(Part)
  <2>1. v \o e \in Seq(Part)
    BY <1>11, <1>15, ConcatIsSeq
  <2>2. QED
    BY <1>11, <2>1, ConcatIsSeq
<1>20. (w \o g) \o h = w \o (g \o h)
  <2>1. w \in Seq(Part) /\ g \in Seq(Part) /\ h \in Seq(Part)
    BY <1>13, <1>19
  <2>2. QED
    BY ONLY <2>1, ConcatAssociative
<1>21. ContractHash(p, ts) = w \o (g \o h)
  BY <1>9, <1>12, <1>13, <1>16, <1>17, <1>18, <1>19
<1>22. ToHash(r, ts) = (w \o g) \o h
  BY <1>10, <1>13, <1>14, <1>15, <1>19
<1>23. QED
  BY <1>1, <1>20, <1>21, <1>22

(* What the contract gives back is the report.                             *)
LEMMA LastReportIs == ASSUME NEW r \in PlainReport PROVE LastReport(ToContract(r)) = r
<1>1. PICK p : p = ToContract(r)
  OBVIOUS
<1>2. Deserialized(r) = r
  BY Fields DEF Deserialized
<1>3. p = [id |-> r.id, blockHeight |-> r.height,
           streams |-> [i \in DOMAIN r.streams |-> r.streams[i].id],
           writeCaptureAmounts |-> [i \in DOMAIN r.streams |-> r.streams[i].capture],
           writeBytes |-> [i \in DOMAIN r.streams |-> r.streams[i].bytes],
           readConsumerAddresses |-> [i \in DOMAIN r.consumers |-> r.consumers[i].id],
           readCaptureAmounts |-> [i \in DOMAIN r.consumers |-> r.consumers[i].capture],
           readBytes |-> [i \in DOMAIN r.consumers |-> r.consumers[i].bytes],
           nodes |-> [i \in DOMAIN r.nodes |-> r.nodes[i][1]],
           nodeChanges |-> [i \in DOMAIN r.nodes |-> r.nodes[i][2]],
           delegates |-> [i \in DOMAIN r.delegates |-> r.delegates[i][1]],
           delegateNodes |-> [i \in DOMAIN r.delegates |->
                                [j \in DOMAIN r.delegates[i][2] |-> r.delegates[i][2][j][1]]],
           delegateNodeChanges |-> [i \in DOMAIN r.delegates |->
                                [j \in DOMAIN r.delegates[i][2] |-> r.delegates[i][2][j][2]]],
           treasurySupplyChange |-> r.treasury]
  BY <1>1, <1>2 DEF ToContract
<1>4. ASSUME NEW rows \in Seq(Row)
      PROVE  rows = [i \in DOMAIN rows |-> [id |-> rows[i].id, capture |-> rows[i].capture,
                                            bytes |-> rows[i].bytes]]
  <2>1. \A i \in DOMAIN rows : rows[i] \in Row
    OBVIOUS
  <2>2. ASSUME NEW row \in Row
        PROVE  row = [id |-> row.id, capture |-> row.capture, bytes |-> row.bytes]
    BY RowFields
  <2>3. \A i \in DOMAIN rows : rows[i] = [id |-> rows[i].id, capture |-> rows[i].capture,
                                          bytes |-> rows[i].bytes]
    BY ONLY <2>1, <2>2
  <2>4. rows = [i \in DOMAIN rows |-> rows[i]]
    OBVIOUS
  <2>5. QED
    BY <2>3, <2>4
<1>5. ASSUME NEW S, NEW T, NEW nodes \in Seq(S \X T)
      PROVE  nodes = [i \in DOMAIN nodes |-> <<nodes[i][1], nodes[i][2]>>]
  <2>1. PICK U : U = S \X T
    OBVIOUS
  <2>2. \A i \in DOMAIN nodes : nodes[i] \in U
    BY <2>1
  <2>3. \A i \in DOMAIN nodes : nodes[i] = <<nodes[i][1], nodes[i][2]>>
    BY <2>1, <2>2
  <2>4. nodes = [i \in DOMAIN nodes |-> nodes[i]]
    OBVIOUS
  <2>5. QED
    BY <2>3, <2>4
<1>6. [i \in DOMAIN p.streams |-> [id |-> p.streams[i], capture |-> p.writeCaptureAmounts[i],
                                   bytes |-> p.writeBytes[i]]] = r.streams
  <2>1. /\ p.streams = [i \in DOMAIN r.streams |-> r.streams[i].id]
        /\ p.writeCaptureAmounts = [i \in DOMAIN r.streams |-> r.streams[i].capture]
        /\ p.writeBytes = [i \in DOMAIN r.streams |-> r.streams[i].bytes]
    BY <1>3
  <2>2. r.streams = [i \in DOMAIN r.streams |->
                       [id |-> r.streams[i].id, capture |-> r.streams[i].capture,
                        bytes |-> r.streams[i].bytes]]
    BY <1>4, Fields
  <2>3. \A i \in DOMAIN r.streams :
          /\ p.streams[i] = r.streams[i].id
          /\ p.writeCaptureAmounts[i] = r.streams[i].capture
          /\ p.writeBytes[i] = r.streams[i].bytes
    BY ONLY <2>1
  <2>4. DOMAIN p.streams = DOMAIN r.streams
    BY ONLY <2>1
  <2>5. QED
    BY ONLY <2>2, <2>3, <2>4
<1>7. [i \in DOMAIN p.readConsumerAddresses |->
         [id |-> p.readConsumerAddresses[i], capture |-> p.readCaptureAmounts[i],
          bytes |-> p.readBytes[i]]] = r.consumers
  <2>1. /\ p.readConsumerAddresses = [i \in DOMAIN r.consumers |-> r.consumers[i].id]
        /\ p.readCaptureAmounts = [i \in DOMAIN r.consumers |-> r.consumers[i].capture]
        /\ p.readBytes = [i \in DOMAIN r.consumers |-> r.consumers[i].bytes]
    BY <1>3
  <2>2. r.consumers = [i \in DOMAIN r.consumers |->
                         [id |-> r.consumers[i].id, capture |-> r.consumers[i].capture,
                          bytes |-> r.consumers[i].bytes]]
    BY <1>4, Fields
  <2>3. \A i \in DOMAIN r.consumers :
          /\ p.readConsumerAddresses[i] = r.consumers[i].id
          /\ p.readCaptureAmounts[i] = r.consumers[i].capture
          /\ p.readBytes[i] = r.consumers[i].bytes
    BY ONLY <2>1
  <2>4. DOMAIN p.readConsumerAddresses = DOMAIN r.consumers
    BY ONLY <2>1
  <2>5. QED
    BY ONLY <2>2, <2>3, <2>4
<1>8. [i \in DOMAIN p.nodes |-> <<p.nodes[i], p.nodeChanges[i]>>] = r.nodes
  <2>1. /\ p.nodes = [i \in DOMAIN r.nodes |-> r.nodes[i][1]]
        /\ p.nodeChanges = [i \in DOMAIN r.nodes |-> r.nodes[i][2]]
    BY <1>3
  <2>2. r.nodes = [i \in DOMAIN r.nodes |-> <<r.nodes[i][1], r.nodes[i][2]>>]
    BY <1>5, Fields
  <2>3. QED
    BY <2>1, <2>2
<1>9. [i \in DOMAIN p.delegates |->
         <<p.delegates[i], [j \in DOMAIN p.delegateNodes[i] |->
                              <<p.delegateNodes[i][j], p.delegateNodeChanges[i][j]>>]>>] = r.delegates
  <2>1. r.delegates \in Seq(STRING \X Seq(STRING \X Int))
    BY Fields
  <2>2. \A i \in DOMAIN r.delegates : r.delegates[i][2] \in Seq(STRING \X Int)
    BY <2>1
  <2>3. \A i \in DOMAIN r.delegates :
          [j \in DOMAIN r.delegates[i][2] |-> <<r.delegates[i][2][j][1], r.delegates[i][2][j][2]>>]
            = r.delegates[i][2]
    BY <1>5, <2>2
  <2>4. r.delegates = [i \in DOMAIN r.delegates |-> <<r.delegates[i][1], r.delegates[i][2]>>]
    BY <1>5, <2>1
  <2>5. /\ p.delegates = [i \in DOMAIN r.delegates |-> r.delegates[i][1]]
        /\ p.delegateNodes = [i \in DOMAIN r.delegates |->
             [j \in DOMAIN r.delegates[i][2] |-> r.delegates[i][2][j][1]]]
        /\ p.delegateNodeChanges = [i \in DOMAIN r.delegates |->
             [j \in DOMAIN r.delegates[i][2] |-> r.delegates[i][2][j][2]]]
    BY <1>3
  <2>6. \A i \in DOMAIN r.delegates :
          [j \in DOMAIN p.delegateNodes[i] |->
             <<p.delegateNodes[i][j], p.delegateNodeChanges[i][j]>>] = r.delegates[i][2]
    <3>1. TAKE i \in DOMAIN r.delegates
    <3>2. PICK x : x = r.delegates[i][2]
      OBVIOUS
    <3>3. PICK y : y = p.delegateNodes[i]
      OBVIOUS
    <3>4. PICK z : z = p.delegateNodeChanges[i]
      OBVIOUS
    <3>5. y = [j \in DOMAIN x |-> x[j][1]] /\ z = [j \in DOMAIN x |-> x[j][2]]
      <4>1. p.delegateNodes[i] = [j \in DOMAIN r.delegates[i][2] |-> r.delegates[i][2][j][1]]
        BY ONLY <2>5, <3>1
      <4>2. p.delegateNodeChanges[i] = [j \in DOMAIN r.delegates[i][2] |-> r.delegates[i][2][j][2]]
        BY ONLY <2>5, <3>1
      <4>3. QED
        BY ONLY <3>2, <3>3, <3>4, <4>1, <4>2
    <3>6. x = [j \in DOMAIN x |-> <<x[j][1], x[j][2]>>]
      BY <2>3, <3>2
    <3>7. [j \in DOMAIN y |-> <<y[j], z[j]>>] = x
      BY <3>5, <3>6
    <3>8. QED
      BY <3>2, <3>3, <3>4, <3>7
  <2>7. DOMAIN p.delegates = DOMAIN r.delegates /\ \A i \in DOMAIN r.delegates : p.delegates[i] = r.delegates[i][1]
    BY <2>5
  <2>8. QED
    BY <2>4, <2>6, <2>7
<1>10. p.id = r.id /\ p.blockHeight = r.height /\ p.treasurySupplyChange = r.treasury
  BY <1>3
<1>11. LastReport(p) = [s |-> FALSE, id |-> r.id, height |-> r.height, treasury |-> r.treasury,
                       streams |-> r.streams, consumers |-> r.consumers, nodes |-> r.nodes,
                       delegates |-> r.delegates]
  BY <1>6, <1>7, <1>8, <1>9, <1>10 DEF LastReport
<1>12. QED
  BY <1>1, <1>11, Fields

-------------------------------------------------------------------------------
(* What may be published, n-th, and what becomes of it on its way.         *)
Item(b, s, n) == [content |-> [b[2] EXCEPT !.seqNum = s], metadata |-> Metadata(b[1], n)]
Items == {Item(b, s, n) : b \in UNION {Bodies[n] : n \in DOMAIN Bodies}, s \in Nat,
                          n \in 1 .. MaxPublished}

Wired(item) == [content |-> Serialize(item.content), metadata |-> item.metadata]
Heard(item) == [item EXCEPT !.content = AsRead(@)]
Entry(m) == [message |-> m, hash |-> Hash(m)]

WiredItems == {Wired(item) : item \in Items}
HeardItems == {Heard(item) : item \in Items}

Number(x) == x.metadata.sequenceNumber
Numbers == 1 .. Len(published)
TypeOf(n) == published[n].content.messageType
SeqNumOf(n) == published[n].content.seqNum
PublisherOf(n) == published[n].metadata.publisherId

(* The types of the variables.                                             *)
Sorted ==
    /\ published \in Seq(Items) /\ Len(published) <= MaxPublished
    /\ counter \in [Publisher -> [MessageType -> Nat]]
    /\ sent \in [Publisher -> Seq(WiredItems)]
    /\ immediates \in Seq(WiredItems)
    /\ transactions \in Seq(HeardItems)
    /\ DOMAIN db = Listened
    /\ \A t \in Listened : \A key \in DOMAIN db[t] :
         db[t][key] \in Seq({Entry(m) : m \in HeardItems})
    /\ _latestTimestamp \in Nat
    /\ recovered \in 0 .. Len(published)
    /\ isComplete \in BOOLEAN /\ (isComplete => recovered > 0)
    /\ seqNums \in [MessageType -> [Publisher -> Nat]]
    /\ lostCount \in [MessageType -> Nat]
    /\ lost \subseteq Numbers

(* Everything on its way is what was published under its number.           *)
PublishedSound == \A n \in Numbers : Number(published[n]) = n

Ascending(s) == \A i, j \in DOMAIN s :
                  i < j /\ s[i].metadata.publisherId = s[j].metadata.publisherId
                  => Number(s[i]) < Number(s[j])

IsWired(x) == Number(x) \in Numbers /\ x = Wired(published[Number(x)])

SentBy(p, s) == /\ Ascending(s)
                /\ \A i \in DOMAIN s : IsWired(s[i]) /\ s[i].metadata.publisherId = p

AheadOf(p, s) == \A i \in DOMAIN immediates, j \in DOMAIN s :
                   immediates[i].metadata.publisherId = p => Number(immediates[i]) < Number(s[j])

WaySound ==
    /\ \A p \in Publisher : SentBy(p, sent[p]) /\ AheadOf(p, sent[p])
    /\ Ascending(immediates)
    /\ \A i \in DOMAIN immediates : IsWired(immediates[i])

IsHeard(m) == /\ Number(m) \in Numbers /\ m = Heard(published[Number(m)])
              /\ m.content.messageType \in Listened

TransactionsSound == \A i \in DOMAIN transactions : IsHeard(transactions[i])

TableSound(table, t) ==
    \A key \in DOMAIN table :
      /\ \A i \in DOMAIN table[key] :
           LET m == table[key][i].message
           IN  IsHeard(m) /\ Key(m) = key /\ m.content.messageType = t
      /\ \A i, j \in DOMAIN table[key] :
           Number(table[key][i].message) = Number(table[key][j].message) => i = j

DatabaseSound == \A t \in Listened : TableSound(db[t], t)

(* Where a message is, that is not lost.                                   *)
OnTheWay(n) == \/ \E p \in Publisher : \E i \in DOMAIN sent[p] : Number(sent[p][i]) = n
               \/ \E i \in DOMAIN immediates : Number(immediates[i]) = n

InDatabase(n) == \E key \in DOMAIN db[TypeOf(n)] : \E i \in DOMAIN db[TypeOf(n)][key] :
                   Number(db[TypeOf(n)][key][i].message) = n

Kept == \A n \in Numbers :
          TypeOf(n) \in Listened =>
            /\ n \in lost \/ OnTheWay(n) \/ Waiting(n) \/ InDatabase(n)
            /\ n <= recovered => InDatabase(n)

(* The message that _latestTimestamp comes from: what its publisher has    *)
(* still on the way came later.                                            *)
LatestSound ==
    _latestTimestamp = 0 \/
    \E k \in Numbers : /\ Stamp[k] = _latestTimestamp
                       /\ \A n \in Numbers : OnTheWay(n) /\ PublisherOf(n) = PublisherOf(k) => k < n

(* The numbers of a publisher's messages of a type follow one another.     *)
Of(p, t) == {n \in Numbers : PublisherOf(n) = p /\ TypeOf(n) = t}

CountersSound ==
    \A p \in Publisher, t \in MessageType :
      /\ \A n \in Of(p, t) :
           /\ SeqNumOf(n) < counter[p][t]
           /\ \A x \in SeqNumOf(n) .. counter[p][t] - 1 : \E m \in Of(p, t) : SeqNumOf(m) = x
      /\ \A m, n \in Of(p, t) : m < n => SeqNumOf(m) < SeqNumOf(n)

(* The metrics: what a publisher has on the way came after what was last   *)
(* counted, and what is neither on the way nor counted is lost.            *)
Counted == MessageType \ RecoveryType      \* the types that the listener alone counts

Missed(t) == {n \in lost : TypeOf(n) = t /\ SeqNumOf(n) < seqNums[t][PublisherOf(n)]}

MetricsSound ==
    /\ \A p \in Publisher, t \in Counted :
         \/ seqNums[t][p] = 0
         \/ /\ \E n \in Of(p, t) : SeqNumOf(n) = seqNums[t][p]
            /\ \A n \in Of(p, t) : OnTheWay(n) => seqNums[t][p] < SeqNumOf(n)
    /\ \A n \in Numbers :
         TypeOf(n) \in Counted => \/ n \in lost \/ OnTheWay(n)
                                 \/ SeqNumOf(n) <= seqNums[TypeOf(n)][PublisherOf(n)]
    /\ \A t \in Counted : lostCount[t] <= Cardinality(Missed(t))

-------------------------------------------------------------------------------
(* What is said of a message wherever it is.                               *)
LEMMA ItemIs ==
    ASSUME NEW b \in UNION {Bodies[n] : n \in DOMAIN Bodies}, NEW s \in Nat, NEW k \in 1 .. MaxPublished,
           NEW item, item = Item(b, s, k)
    PROVE  /\ item \in Items
           /\ item = [content |-> item.content, metadata |-> Metadata(b[1], k)]
           /\ IsMessage(item.content) /\ item.content.seqNum = s
           /\ item.content.messageType = b[2].messageType
           /\ b[1] \in Publisher
           /\ item.content.messageType = ProofOfReport
                => \E r \in Reports, now \in Nat \ {0} :
                     /\ item.content.hash = ToHash(r, 0) /\ item.content.toth = ToHash(r, now)
                     /\ item.content.timestamp = now
<1>1. b[1] \in Publisher /\ IsMessage(b[2])
  BY BodiesAssumption
<1>2. PICK m : m = b[2]
  OBVIOUS
<1>3. PICK c : c = [m EXCEPT !.seqNum = s]
  OBVIOUS
<1>4. IsMessage(c) /\ c.seqNum = s /\ c.messageType = m.messageType
  <2>1. CASE IsRequest(m)
    BY <1>1, <1>2, <1>3, <2>1, UndefinedAssumption DEF IsMessage, IsRequest
  <2>2. CASE IsResponse(m)
    BY <1>1, <1>2, <1>3, <2>2, UndefinedAssumption DEF IsMessage, IsResponse
  <2>3. CASE IsPropagate(m)
    BY <1>1, <1>2, <1>3, <2>3, UndefinedAssumption DEF IsMessage, IsPropagate
  <2>4. CASE IsProof(m)
    BY <1>1, <1>2, <1>3, <2>4, UndefinedAssumption DEF IsMessage, IsProof
  <2>5. CASE IsRecovery(m)
    BY <1>1, <1>2, <1>3, <2>5, UndefinedAssumption DEF IsMessage, IsRecovery
  <2>6. QED
    BY <1>1, <1>2, <2>1, <2>2, <2>3, <2>4, <2>5 DEF IsMessage
<1>5. item = [content |-> c, metadata |-> Metadata(b[1], k)]
  BY <1>2, <1>3 DEF Item
<1>6. ASSUME m.messageType = ProofOfReport
      PROVE  \E r \in Reports, now \in Nat \ {0} :
               c.hash = ToHash(r, 0) /\ c.toth = ToHash(r, now) /\ c.timestamp = now
  <2>1. m.timestamp \in Nat \ {0} /\ \E r \in Reports : m = Proof(r, m.address, m.timestamp)
    BY <1>2, <1>6, BodiesAssumption
  <2>2. PICK r \in Reports : m = Proof(r, m.address, m.timestamp)
    BY <2>1
  <2>3. /\ c.hash = ToHash(r, 0) /\ c.toth = ToHash(r, m.timestamp) /\ c.timestamp = m.timestamp
    BY <1>3, <2>2 DEF Proof
  <2>4. QED
    BY <2>1, <2>3
<1>7. item \in Items
  BY DEF Items
<1>8. QED
  BY <1>1, <1>2, <1>4, <1>5, <1>6, <1>7

LEMMA ItemFacts ==
    ASSUME NEW item \in Items
    PROVE  /\ IsMessage(item.content)
           /\ \E p \in Publisher, n \in 1 .. MaxPublished :
                item = [content |-> item.content, metadata |-> Metadata(p, n)]
           /\ item.content.messageType \in MessageType
           /\ item.content.messageType = ProofOfReport
                => \E r \in Reports, now \in Nat \ {0} :
                     /\ item.content.hash = ToHash(r, 0) /\ item.content.toth = ToHash(r, now)
                     /\ item.content.timestamp = now
<1>1. PICK b \in UNION {Bodies[n] : n \in DOMAIN Bodies}, s \in Nat, k \in 1 .. MaxPublished :
         item = Item(b, s, k)
  BY DEF Items
<1>2. item.content.messageType \in MessageType
  <2>1. IsMessage(item.content)
    BY <1>1, ItemIs
  <2>2. QED
    BY <2>1 DEF IsMessage, IsRequest, IsResponse, IsPropagate, IsProof, IsRecovery, MessageType,
                QueryRequest, QueryResponse, QueryPropagate, ProofOfReport, RecoveryRequest,
                RecoveryResponse, RecoveryComplete
<1>3. QED
  BY <1>1, <1>2, ItemIs

(* The numbers of the listened types.                                      *)
LEMMA ListenedTypes ==
    /\ Listened \subseteq MessageType
    /\ RecoveryResponse \notin Listened /\ ProofOfReport \notin Listened
BY DEF Listened, MessageType, QueryRequest, QueryResponse, QueryPropagate, ProofOfReport,
       RecoveryResponse, RecoveryComplete

LEMMA AsReadType ==
    ASSUME NEW m, IsMessage(m)
    PROVE  /\ AsRead(m).messageType = m.messageType /\ AsRead(m).seqNum = m.seqNum
           /\ m.messageType # QueryRequest => AsRead(m) = m
<1>1. m.messageType # QueryRequest => AsRead(m) = m
  BY DEF AsRead
<1>2. CASE m.messageType # RecoveryResponse
  BY <1>1, <1>2, ReadBack
<1>3. CASE m.messageType = RecoveryResponse
  BY <1>1, <1>3 DEF RecoveryResponse, QueryRequest
<1>4. QED
  BY <1>1, <1>2, <1>3

LEMMA HeardFacts ==
    ASSUME NEW item \in Items
    PROVE  /\ Heard(item) = [content |-> AsRead(item.content), metadata |-> item.metadata]
           /\ Heard(item).metadata = item.metadata
           /\ Heard(item).content.messageType = item.content.messageType
<1>1. PICK c, md : item = [content |-> c, metadata |-> md]
  BY ItemFacts
<1>2. IsMessage(c)
  BY <1>1, ItemFacts
<1>3. QED
  BY <1>1, <1>2, AsReadType DEF Heard

LEMMA WiredFacts ==
    ASSUME NEW item \in Items, NEW w, w = Wired(item), NEW m, m = Deserialize(w.content)
    PROVE  /\ w.metadata = item.metadata
           /\ m.messageType = item.content.messageType /\ m.seqNum = item.content.seqNum
           /\ m.messageType \in Listened => [content |-> m, metadata |-> w.metadata] = Heard(item)
<1>1. w.metadata = item.metadata /\ w.content = Serialize(item.content)
  BY DEF Wired
<1>2. IsMessage(item.content)
  BY ItemFacts
<1>3. QED
  BY <1>1, <1>2, ReadBack, HeardFacts, ListenedTypes

(* A message of a recovery response is read as a live one.                 *)
LEMMA RecoveredIs ==
    ASSUME NEW item \in Items, item.content.messageType # RecoveryResponse
    PROVE  Recovered(item) = Heard(item)
<1>1. PICK p \in Publisher, n \in 1 .. MaxPublished :
         item = [content |-> item.content, metadata |-> Metadata(p, n)]
  BY ItemFacts
<1>2. PICK md : md = Metadata(p, n)
  OBVIOUS
<1>3. PICK a : a = MetadataToArray(md)
  OBVIOUS
<1>4. a = <<"system", 0, Stamp[n], n, p, p, "chain">>
  BY <1>2, <1>3 DEF MetadataToArray, Metadata
<1>5. PICK j : j = Json(a)
  OBVIOUS
<1>6. DOMAIN a = 1 .. 7
  BY <1>4
<1>7. \A i \in 1 .. 7 : j[i] = Read(a[i])
  BY <1>5, <1>6, JsonArray
<1>8. \A i \in 1 .. 7 : a[i] # Undefined
  <2>1. "system" # Undefined /\ 0 # Undefined /\ n # Undefined /\ p # Undefined /\ "chain" # Undefined
    BY UndefinedAssumption
  <2>2. Stamp[n] # Undefined
    BY StampAssumption, UndefinedAssumption
  <2>3. QED
    BY <1>4, <2>1, <2>2
<1>9. /\ j[1] = "system" /\ j[2] = 0 /\ j[3] = Stamp[n] /\ j[4] = n /\ j[5] = p /\ j[6] = p
      /\ j[7] = "chain"
  BY <1>4, <1>7, <1>8 DEF Read
<1>10. MetadataFromArray(j) = md
  BY <1>2, <1>9 DEF MetadataFromArray, Metadata
<1>11. PICK f : f = FlatToArray(item.content)
  OBVIOUS
<1>12. FlatFromArray(f) = AsRead(item.content)
  BY <1>11, ItemFacts, ReadFlat
<1>13. PICK r : r = [messageType |-> RecoveryResponse, seqNum |-> 0, requestId |-> "recovery",
                     payload |-> <<item>>]
  OBVIOUS
<1>14. PICK c : c = [i \in DOMAIN r.payload |-> <<FlatToArray(r.payload[i].content),
                                                 Json(MetadataToArray(r.payload[i].metadata))>>]
  OBVIOUS
<1>15. DOMAIN c = 1 .. 1 /\ c[1] = <<f, j>>
  <2>1. r.payload = <<item>>
    BY <1>13
  <2>2. DOMAIN r.payload = 1 .. 1 /\ r.payload[1] = item
    BY <2>1
  <2>3. item.metadata = md
    BY <1>1, <1>2
  <2>4. QED
    BY <1>3, <1>5, <1>11, <1>14, <2>2, <2>3
<1>16. PICK t : t = <<Version, r.messageType, r.seqNum>> \o <<r.requestId, c>>
  OBVIOUS
<1>17. ResponseToArray(r) = t
  BY <1>14, <1>16 DEF ResponseToArray, Header
<1>18. t[5] = c
  BY <1>16
<1>19. ResponseFromArray(t).payload = [i \in DOMAIN c |-> [content |-> FlatFromArray(c[i][1]),
                                                       metadata |-> MetadataFromArray(c[i][2])]]
  BY <1>18 DEF ResponseFromArray
<1>20. ResponseFromArray(t).payload[1] = [content |-> AsRead(item.content), metadata |-> md]
  BY <1>10, <1>12, <1>15, <1>19
<1>21. QED
  BY <1>1, <1>2, <1>13, <1>17, <1>20, HeardFacts DEF Recovered

(* Two messages with one hash have one number.                             *)
LEMMA HashNumber ==
    ASSUME NEW a, NEW b, Hash(a) = Hash(b)
    PROVE  Number(a) = Number(b)
<1>1. Hash(a).metadata = a.metadata /\ Hash(b).metadata = b.metadata
  BY DEF Hash
<1>2. QED
  BY <1>1 DEF Number

LEMMA ProofsHold == ASSUME published \in Seq(Items) PROVE ProofsVerify
<1>1. SUFFICES ASSUME NEW n \in 1 .. Len(published), NEW report \in Reports, NEW proof,
                      proof = Deserialize(Serialize(published[n].content)),
                      proof.messageType = ProofOfReport, proof.hash = ToHash(report, 0)
               PROVE  /\ proof.toth = ContractHash(ToContract(report), proof.timestamp)
                      /\ proof.toth = ToHash(LastReport(ToContract(report)), proof.timestamp)
  BY DEF ProofsVerify
<1>2. PICK c : c = published[n].content
  OBVIOUS
<1>3. published[n] \in Items
  BY <1>1
<1>4. IsMessage(c)
  BY <1>2, <1>3, ItemFacts
<1>5. c.messageType = ProofOfReport
  BY <1>1, <1>2, <1>4, ReadBack
<1>6. proof = c
  <2>1. ProofOfReport # RecoveryResponse /\ ProofOfReport # QueryRequest
    BY DEF ProofOfReport, RecoveryResponse, QueryRequest
  <2>2. proof = AsRead(c) /\ AsRead(c) = c
    BY <1>1, <1>2, <1>4, <1>5, <2>1, ReadBack, AsReadType
  <2>3. QED
    BY <2>2
<1>7. PICK r \in Reports, now \in Nat \ {0} :
         c.hash = ToHash(r, 0) /\ c.toth = ToHash(r, now) /\ c.timestamp = now
  BY <1>2, <1>3, <1>5, ItemFacts
<1>8. r \in PlainReport /\ report \in PlainReport
  BY ReportsAssumption
<1>9. ToHash(r, now) = ToHash(report, now)
  <2>1. ToHash(r, 0) = ToHash(report, 0)
    BY <1>1, <1>6, <1>7
  <2>2. ToHash(r, now) = ToHash(r, 0) \o <<now>>
    BY <1>8, HashStamped
  <2>3. ToHash(report, now) = ToHash(report, 0) \o <<now>>
    BY <1>8, HashStamped
  <2>4. QED
    BY <2>1, <2>2, <2>3
<1>10. QED
  BY <1>6, <1>7, <1>8, <1>9, ContractHashIs, LastReportIs

-------------------------------------------------------------------------------
(* The actions, in terms of what is on its way.                            *)
Flow == Sorted /\ PublishedSound /\ WaySound /\ TransactionsSound /\ DatabaseSound

LEMMA PublishedFacts ==
    ASSUME Sorted, PublishedSound, NEW n \in Numbers
    PROVE  /\ published[n] \in Items /\ Number(published[n]) = n /\ n \in 1 .. MaxPublished
           /\ published[n].metadata = Metadata(PublisherOf(n), n)
           /\ PublisherOf(n) \in Publisher /\ TypeOf(n) \in MessageType
           /\ SeqNumOf(n) \in Nat
<1>1. published[n] \in Items /\ Number(published[n]) = n
  BY DEF Sorted, PublishedSound, Numbers
<1>2. PICK p \in Publisher, k \in 1 .. MaxPublished :
         published[n] = [content |-> published[n].content, metadata |-> Metadata(p, k)]
  BY <1>1, ItemFacts
<1>3. published[n].metadata = Metadata(p, k)
  BY <1>2
<1>4. Metadata(p, k).sequenceNumber = k /\ Metadata(p, k).publisherId = p
  BY DEF Metadata
<1>5. k = n /\ PublisherOf(n) = p
  BY <1>1, <1>3, <1>4 DEF Number, PublisherOf
<1>6. TypeOf(n) \in MessageType /\ SeqNumOf(n) \in Nat
  BY <1>1, ItemFacts DEF TypeOf, SeqNumOf, IsMessage
<1>7. QED
  BY <1>1, <1>3, <1>5, <1>6

Bodied == UNION {Bodies[n] : n \in DOMAIN Bodies}

LEMMA PublishStep ==
    ASSUME Sorted, NEW b \in Bodied, Publish(b[1], b[2])
    PROVE  \E item \in Items, p \in Publisher, t \in MessageType :
             /\ Len(published) < MaxPublished
             /\ published' = Append(published, item)
             /\ Number(item) = Len(published) + 1
             /\ item.metadata.publisherId = p /\ item.content.messageType = t
             /\ item.content.seqNum = counter[p][t]
             /\ sent' = [sent EXCEPT ![p] = Append(sent[p], Wired(item))]
             /\ counter' = [counter EXCEPT ![p][t] = counter[p][t] + 1]
             /\ UNCHANGED <<immediates, transactions, db, _latestTimestamp, recovered,
                            isComplete, seqNums, lostCount, lost>>
<1>1. PICK p, t : p = b[1] /\ t = b[2].messageType
  OBVIOUS
<1>2. p \in Publisher /\ IsMessage(b[2])
  BY <1>1, BodiesAssumption DEF Bodied
<1>3. t \in MessageType
  BY <1>1, <1>2 DEF IsMessage, IsRequest, IsResponse, IsPropagate, IsProof, IsRecovery, MessageType,
                QueryRequest, QueryResponse, QueryPropagate, ProofOfReport, RecoveryRequest,
                RecoveryResponse, RecoveryComplete
<1>4. PICK s : s = counter[p][t]
  OBVIOUS
<1>5. s \in Nat
  BY <1>2, <1>3, <1>4 DEF Sorted
<1>6. PICK k : k = Len(published) + 1
  OBVIOUS
<1>7. Len(published) < MaxPublished /\ k \in 1 .. MaxPublished
  BY <1>6, StampAssumption DEF Sorted, Publish
<1>8. PICK item : item = Item(b, s, k)
  OBVIOUS
<1>9. /\ item \in Items
      /\ item = [content |-> item.content, metadata |-> Metadata(p, k)]
      /\ item.content.seqNum = s /\ item.content.messageType = t
  BY <1>1, <1>5, <1>7, <1>8, ItemIs DEF Bodied
<1>10. Number(item) = k /\ item.metadata.publisherId = p
  BY <1>9 DEF Number, Metadata
<1>11. item = [content |-> [b[2] EXCEPT !.seqNum = counter[b[1]][b[2].messageType]],
               metadata |-> Metadata(b[1], Len(published) + 1)]
  BY <1>1, <1>4, <1>6, <1>8 DEF Item
<1>12. /\ published' = Append(published, item)
       /\ sent' = [sent EXCEPT ![p] = Append(sent[p], Wired(item))]
  BY <1>1, <1>11 DEF Publish, Wired
<1>13. counter' = [counter EXCEPT ![p][t] = counter[p][t] + 1]
  BY <1>1 DEF Publish
<1>14. UNCHANGED <<immediates, transactions, db, _latestTimestamp, recovered,
                   isComplete, seqNums, lostCount, lost>>
  BY DEF Publish
<1>15. QED
  BY <1>2, <1>3, <1>4, <1>6, <1>7, <1>9, <1>10, <1>12, <1>13, <1>14

(* The first of a sequence, and the rest.                                  *)
LEMMA Behind ==
    ASSUME NEW S, NEW s \in Seq(S), s # <<>>
    PROVE  /\ Head(s) = s[1] /\ 1 \in DOMAIN s /\ Tail(s) \in Seq(S)
           /\ \A i \in DOMAIN Tail(s) : i + 1 \in DOMAIN s /\ i + 1 # 1 /\ Tail(s)[i] = s[i + 1]
           /\ \A i \in DOMAIN s : i # 1 => i - 1 \in DOMAIN Tail(s) /\ Tail(s)[i - 1] = s[i]
OBVIOUS

LEMMA Longer ==
    ASSUME NEW S, NEW s \in Seq(S), NEW x, NEW r, r = Append(s, x)
    PROVE  /\ DOMAIN r = DOMAIN s \union {Len(s) + 1}
           /\ r[Len(s) + 1] = x
           /\ \A i \in DOMAIN s : i \in DOMAIN r /\ r[i] = s[i] /\ i < Len(s) + 1 /\ i \in Nat
OBVIOUS

LEMMA HandleStep ==
    ASSUME Flow, OnMessage
    PROVE  \E n \in Numbers, p \in Publisher, t \in MessageType :
             /\ immediates # <<>> /\ Head(immediates) = Wired(published[n])
             /\ Number(Head(immediates)) = n
             /\ Head(immediates).metadata.publisherId = p
             /\ p = PublisherOf(n) /\ t = TypeOf(n)
             /\ immediates' = Tail(immediates)
             /\ lostCount' = [lostCount EXCEPT ![t] = lostCount[t] + Gap(seqNums[t][p], SeqNumOf(n))]
             /\ seqNums' = [seqNums EXCEPT ![t][p] = SeqNumOf(n)]
             /\ IF t \in Listened
                THEN /\ _latestTimestamp' = Stamp[n]
                     /\ transactions' = Append(transactions, Heard(published[n]))
                ELSE UNCHANGED <<_latestTimestamp, transactions>>
             /\ UNCHANGED <<counter, published, sent, db, recovered, isComplete, lost>>
<1>1. immediates # <<>> /\ immediates \in Seq(WiredItems)
  BY DEF OnMessage, Flow, Sorted
<1>2. PICK w : w = Head(immediates)
  OBVIOUS
<1>3. w = immediates[1] /\ 1 \in DOMAIN immediates
  BY <1>1, <1>2, Behind
<1>4. PICK n : n = Number(w)
  OBVIOUS
<1>5. n \in Numbers /\ w = Wired(published[n])
  BY <1>3, <1>4 DEF Flow, WaySound, IsWired
<1>6. PICK p, t : p = PublisherOf(n) /\ t = TypeOf(n)
  OBVIOUS
<1>7. /\ published[n] \in Items /\ published[n].metadata = Metadata(p, n)
      /\ p \in Publisher /\ t \in MessageType
  BY <1>5, <1>6, PublishedFacts DEF Flow
<1>8. PICK m : m = Deserialize(w.content)
  OBVIOUS
<1>9. /\ w.metadata = Metadata(p, n) /\ m.messageType = t /\ m.seqNum = SeqNumOf(n)
      /\ t \in Listened => [content |-> m, metadata |-> w.metadata] = Heard(published[n])
  BY <1>5, <1>6, <1>7, <1>8, WiredFacts DEF TypeOf, SeqNumOf
<1>10. w.metadata.publisherId = p /\ w.metadata.timestamp = Stamp[n]
  BY <1>9 DEF Metadata
<1>11. /\ lostCount' = [lostCount EXCEPT ![t] = lostCount[t] + Gap(seqNums[t][p], SeqNumOf(n))]
       /\ seqNums' = [seqNums EXCEPT ![t][p] = SeqNumOf(n)]
  BY <1>2, <1>8, <1>9, <1>10 DEF OnMessage, CountMessage
<1>12. IF t \in Listened
       THEN /\ _latestTimestamp' = Stamp[n]
            /\ transactions' = Append(transactions, Heard(published[n]))
       ELSE UNCHANGED <<_latestTimestamp, transactions>>
  BY <1>2, <1>8, <1>9, <1>10 DEF OnMessage
<1>13. /\ immediates' = Tail(immediates)
       /\ UNCHANGED <<counter, published, sent, db, recovered, isComplete, lost>>
  BY DEF OnMessage
<1>14. QED
  BY <1>1, <1>2, <1>4, <1>5, <1>6, <1>7, <1>10, <1>11, <1>12, <1>13

(* What the recovery counts: a message of its stream, with any number.     *)
LEMMA CountStep ==
    ASSUME Sorted, NEW b \in RecoveryMessages, CountRecovery(b)
    PROVE  /\ seqNums' \in [MessageType -> [Publisher -> Nat]]
           /\ lostCount' \in [MessageType -> Nat]
           /\ \A t \in Counted : seqNums'[t] = seqNums[t] /\ lostCount'[t] = lostCount[t]
<1>1. PICK m, p : m = Deserialize(Serialize(b[2])) /\ p = b[1]
  OBVIOUS
<1>2. p \in Publisher /\ IsMessage(b[2]) /\ b[2].messageType \in RecoveryType
  BY <1>1, RecoveryAssumption
<1>3. m.messageType = b[2].messageType /\ m.seqNum = b[2].seqNum
  BY <1>1, <1>2, ReadBack
<1>4. PICK t, s : t = m.messageType /\ s = m.seqNum
  OBVIOUS
<1>5. t \in MessageType /\ t \notin Counted /\ s \in Nat
  <2>1. t \in RecoveryType
    BY <1>2, <1>3, <1>4
  <2>2. RecoveryType \subseteq MessageType
    BY DEF RecoveryType, MessageType, QueryRequest, RecoveryRequest, RecoveryResponse,
           RecoveryComplete
  <2>3. s \in Nat
    BY <1>2, <1>3, <1>4 DEF IsMessage
  <2>4. QED
    BY <2>1, <2>2, <2>3 DEF Counted
<1>6. /\ lostCount' = [lostCount EXCEPT ![t] = lostCount[t] + Gap(seqNums[t][p], s)]
      /\ seqNums' = [seqNums EXCEPT ![t][p] = s]
  BY <1>1, <1>4 DEF CountRecovery, CountMessage
<1>7. seqNums \in [MessageType -> [Publisher -> Nat]] /\ lostCount \in [MessageType -> Nat]
  BY DEF Sorted
<1>8. Gap(seqNums[t][p], s) \in Nat
  BY <1>2, <1>5, <1>7 DEF Gap
<1>9. Counted \subseteq MessageType
  BY DEF Counted
<1>10. QED
  BY <1>2, <1>5, <1>6, <1>7, <1>8, <1>9

LEMMA HeardIs ==
    ASSUME Sorted, PublishedSound, NEW n \in Numbers, TypeOf(n) \in Listened,
           NEW m, m = Heard(published[n])
    PROVE  /\ IsHeard(m) /\ Number(m) = n /\ m.content.messageType = TypeOf(n)
           /\ m \in HeardItems /\ m.metadata = published[n].metadata
<1>1. published[n] \in Items /\ Number(published[n]) = n
  BY PublishedFacts
<1>2. /\ m.metadata = published[n].metadata
      /\ m.content.messageType = published[n].content.messageType
  BY <1>1, HeardFacts
<1>3. Number(m) = n
  BY <1>1, <1>2 DEF Number
<1>4. QED
  BY <1>1, <1>2, <1>3 DEF IsHeard, HeardItems, TypeOf

Entries == {Entry(m) : m \in HeardItems}

(* A message is stored: it is in the table, once, and so is what was.      *)
Grown(d, t, n) ==
    /\ \A key \in DOMAIN d : d[key] \in Seq(Entries)
    /\ TableSound(d, t)
    /\ \A key \in DOMAIN db[t] : \A i \in DOMAIN db[t][key] :
         key \in DOMAIN d /\ i \in DOMAIN d[key] /\ d[key][i] = db[t][key][i]
    /\ \E key \in DOMAIN d : \E i \in DOMAIN d[key] : Number(d[key][i].message) = n

LEMMA StoredKeeps ==
    ASSUME Flow, NEW n \in Numbers, TypeOf(n) \in Listened
    PROVE  Grown(Stored(db[TypeOf(n)], Heard(published[n])), TypeOf(n), n)
<1>0. PICK t, m, d : t = TypeOf(n) /\ m = Heard(published[n]) /\ d = Stored(db[t], m)
  OBVIOUS
<1>13. SUFFICES Grown(d, t, n)
  BY <1>0
<1>1. /\ IsHeard(m) /\ Number(m) = n /\ m.content.messageType = t /\ m \in HeardItems
  BY <1>0, HeardIs DEF Flow
<1>2. PICK messages : messages = db[t]
  OBVIOUS
<1>3. PICK k : k = Key(m)
  OBVIOUS
<1>4. PICK entries : entries = EntriesOf(messages, k)
  OBVIOUS
<1>5. /\ \A key \in DOMAIN messages : messages[key] \in Seq(Entries)
      /\ \A key \in DOMAIN messages : \A i \in DOMAIN messages[key] :
           LET e == messages[key][i].message
           IN  IsHeard(e) /\ Key(e) = key /\ e.content.messageType = t
      /\ \A key \in DOMAIN messages : \A i, j \in DOMAIN messages[key] :
           Number(messages[key][i].message) = Number(messages[key][j].message) => i = j
  <2>1. \A key \in DOMAIN messages : messages[key] \in Seq(Entries)
    BY <1>0, <1>2 DEF Flow, Sorted, Entries
  <2>2. DatabaseSound
    BY DEF Flow
  <2>3. QED
    BY <1>0, <1>2, <2>1, <2>2 DEF DatabaseSound, TableSound
<1>6. /\ k \in DOMAIN messages => entries = messages[k]
      /\ k \notin DOMAIN messages => entries = <<>>
  BY <1>4 DEF EntriesOf
<1>7. entries \in Seq(Entries)
  <2>1. CASE k \in DOMAIN messages
    BY <1>5, <1>6, <2>1
  <2>2. CASE k \notin DOMAIN messages
    BY <1>6, <2>2
  <2>3. QED
    BY <2>1, <2>2
<1>8. \A i \in DOMAIN entries : k \in DOMAIN messages /\ entries = messages[k]
  BY <1>6
<1>9. \A i \in DOMAIN entries : entries[i] = Entry(entries[i].message)
  <2>1. TAKE i \in DOMAIN entries
  <2>2. entries[i] \in Entries
    BY <1>7
  <2>3. PICK e : entries[i] = Entry(e)
    BY <2>2 DEF Entries
  <2>4. QED
    BY <2>3 DEF Entry
<1>10. CASE \E i \in DOMAIN entries : entries[i].hash = Hash(m)
  <2>1. d = messages
    BY <1>0, <1>2, <1>3, <1>4, <1>10 DEF Stored
  <2>2. PICK i \in DOMAIN entries : entries[i].hash = Hash(m)
    BY <1>10
  <2>3. entries[i].hash = Hash(entries[i].message)
    BY <1>9 DEF Entry
  <2>4. Number(entries[i].message) = n
    BY <1>1, <2>2, <2>3, HashNumber
  <2>5. k \in DOMAIN d /\ i \in DOMAIN d[k] /\ Number(d[k][i].message) = n
    BY <1>8, <2>1, <2>2, <2>4
  <2>6. QED
    BY <1>2, <1>5, <2>1, <2>5 DEF Grown, TableSound
<1>11. CASE ~ \E i \in DOMAIN entries : entries[i].hash = Hash(m)
  <2>1. d = Entered(messages, m)
    BY <1>0, <1>2, <1>3, <1>4, <1>11 DEF Stored
  <2>2. PICK longer : longer = Append(entries, Entry(m))
    OBVIOUS
  <2>3. /\ DOMAIN d = DOMAIN messages \union {k}
        /\ d[k] = longer
        /\ \A key \in DOMAIN messages : key # k => d[key] = messages[key]
    BY <1>3, <1>4, <2>1, <2>2 DEF Entered, Entry
  <2>4. /\ longer \in Seq(Entries)
        /\ DOMAIN longer = DOMAIN entries \union {Len(entries) + 1}
        /\ longer[Len(entries) + 1] = Entry(m)
        /\ \A i \in DOMAIN entries : longer[i] = entries[i]
    <3>1. Entry(m) \in Entries
      BY <1>1 DEF Entries
    <3>2. QED
      BY <1>7, <2>2, <3>1
  <2>5. Entry(m).message = m
    BY DEF Entry
  <2>6. \A i \in DOMAIN entries : Number(entries[i].message) # n
    <3>1. SUFFICES ASSUME NEW i \in DOMAIN entries, Number(entries[i].message) = n PROVE FALSE
      OBVIOUS
    <3>2. IsHeard(entries[i].message)
      BY <1>5, <1>8
    <3>3. entries[i].message = m
      BY <1>0, <3>1, <3>2 DEF IsHeard
    <3>4. entries[i].hash = Hash(m)
      BY <1>9, <3>3 DEF Entry
    <3>5. QED
      BY <1>11, <3>4
  <2>7. \A i \in DOMAIN longer :
          LET e == longer[i].message
          IN  IsHeard(e) /\ Key(e) = k /\ e.content.messageType = t
    <3>1. TAKE i \in DOMAIN longer
    <3>2. CASE i = Len(entries) + 1
      BY <1>1, <1>3, <2>4, <2>5, <3>2
    <3>3. CASE i \in DOMAIN entries
      BY <1>5, <1>8, <2>4, <3>3
    <3>4. QED
      BY <2>4, <3>2, <3>3
  <2>8. \A i, j \in DOMAIN longer :
          Number(longer[i].message) = Number(longer[j].message) => i = j
    <3>1. \A i, j \in DOMAIN entries :
            Number(entries[i].message) = Number(entries[j].message) => i = j
      BY <1>5, <1>8
    <3>2. QED
      BY <1>1, <2>4, <2>5, <2>6, <3>1
  <2>9. \A key \in DOMAIN messages : \A i \in DOMAIN messages[key] :
          key \in DOMAIN d /\ i \in DOMAIN d[key] /\ d[key][i] = messages[key][i]
    BY <1>6, <2>3, <2>4
  <2>10. \E key \in DOMAIN d : \E i \in DOMAIN d[key] : Number(d[key][i].message) = n
    BY <1>1, <2>3, <2>4, <2>5
  <2>11. \A key \in DOMAIN d : d[key] \in Seq(Entries)
    BY <1>5, <2>3, <2>4
  <2>12. \A key \in DOMAIN d : \A i \in DOMAIN d[key] :
                LET e == d[key][i].message
                IN  IsHeard(e) /\ Key(e) = key /\ e.content.messageType = t
    BY <1>5, <2>3, <2>7
  <2>13. \A key \in DOMAIN d : \A i, j \in DOMAIN d[key] :
                Number(d[key][i].message) = Number(d[key][j].message) => i = j
    BY <1>5, <2>3, <2>8
  <2>14. QED
    BY <1>2, <2>9, <2>10, <2>11, <2>12, <2>13 DEF Grown, TableSound
<1>12. QED
  BY <1>10, <1>11


LEMMA StoreStep ==
    ASSUME Flow, Store
    PROVE  \E n \in Numbers, t \in Listened :
             /\ TypeOf(n) = t /\ transactions # <<>> /\ Number(Head(transactions)) = n
             /\ db' = [db EXCEPT ![t] = Stored(db[t], Heard(published[n]))]
             /\ transactions' = Tail(transactions)
             /\ UNCHANGED <<counter, published, sent, immediates, _latestTimestamp, recovered,
                            isComplete, seqNums, lostCount, lost>>
<1>1. transactions # <<>> /\ transactions \in Seq(HeardItems)
  BY DEF Store, Flow, Sorted
<1>2. PICK m : m = Head(transactions)
  OBVIOUS
<1>3. m = transactions[1] /\ 1 \in DOMAIN transactions
  BY <1>1, <1>2, Behind
<1>4. IsHeard(m)
  BY <1>3 DEF Flow, TransactionsSound
<1>5. PICK n : n = Number(m)
  OBVIOUS
<1>6. n \in Numbers /\ m = Heard(published[n])
  BY <1>4, <1>5 DEF IsHeard
<1>7. TypeOf(n) = m.content.messageType
  BY <1>6, PublishedFacts, HeardFacts DEF Flow, TypeOf
<1>8. TypeOf(n) \in Listened
  BY <1>4, <1>7 DEF IsHeard
<1>9. db' = [db EXCEPT ![TypeOf(n)] = Stored(db[TypeOf(n)], Heard(published[n]))]
  BY <1>2, <1>6, <1>7 DEF Store
<1>10. QED
  BY <1>1, <1>2, <1>5, <1>6, <1>8, <1>9 DEF Store

LEMMA RecoverStep ==
    ASSUME Flow, Recover
    PROVE  \E n \in Numbers :
             /\ n = recovered + 1 /\ recovered' = n /\ ~isComplete
             /\ IF TypeOf(n) \in Listened
                THEN db' = [db EXCEPT ![TypeOf(n)] = Stored(db[TypeOf(n)], Heard(published[n]))]
                ELSE db' = db
             /\ UNCHANGED <<counter, published, sent, immediates, transactions,
                            _latestTimestamp, isComplete, seqNums, lostCount, lost>>
<1>1. PICK n : n = recovered + 1
  OBVIOUS
<1>2. recovered < Len(published) /\ recovered' = n /\ ~isComplete
  BY <1>1 DEF Recover
<1>3. n \in Numbers
  BY <1>1, <1>2 DEF Flow, Sorted, Numbers
<1>4. PICK item : item = published[n]
  OBVIOUS
<1>5. item \in Items
  BY <1>3, <1>4, PublishedFacts DEF Flow
<1>6. CASE TypeOf(n) \in Listened
  <2>1. item.content.messageType \in Listened /\ item.content.messageType # RecoveryResponse
    BY <1>4, <1>6, ListenedTypes DEF TypeOf
  <2>2. Recovered(item) = Heard(item)
    BY <1>5, <2>1, RecoveredIs
  <2>3. Heard(item).content.messageType = TypeOf(n)
    BY <1>4, <1>5, HeardFacts DEF TypeOf
  <2>4. db' = [db EXCEPT ![TypeOf(n)] = Stored(db[TypeOf(n)], Heard(published[n]))]
    BY <1>2, <1>4, <2>1, <2>2, <2>3 DEF Recover
  <2>5. QED
    BY <1>1, <1>2, <1>3, <1>6, <2>4 DEF Recover
<1>7. CASE TypeOf(n) \notin Listened
  <2>1. db' = db
    BY <1>2, <1>4, <1>7 DEF Recover, TypeOf
  <2>2. QED
    BY <1>1, <1>2, <1>3, <1>7, <2>1 DEF Recover
<1>8. QED
  BY <1>6, <1>7

(* More is published, and what was keeps its place.                        *)
LEMMA PublishedMore ==
    ASSUME Sorted, NEW item \in Items, published' = Append(published, item)
    PROVE  /\ Numbers' = Numbers \union {Len(published) + 1} /\ Len(published) + 1 \notin Numbers
           /\ published' \in Seq(Items) /\ Len(published') = Len(published) + 1
           /\ published'[Len(published) + 1] = item
           /\ \A n \in Numbers :
                /\ published'[n] = published[n] /\ TypeOf(n)' = TypeOf(n)
                /\ SeqNumOf(n)' = SeqNumOf(n) /\ PublisherOf(n)' = PublisherOf(n)
                /\ n < Len(published) + 1 /\ n \in Numbers'
           /\ \A k : k = Len(published) + 1 =>
                /\ TypeOf(k)' = item.content.messageType
                /\ SeqNumOf(k)' = item.content.seqNum
                /\ PublisherOf(k)' = item.metadata.publisherId
<1>1. /\ published \in Seq(Items)
      /\ Len(published') = Len(published) + 1 /\ Len(published) \in Nat
      /\ published' \in Seq(Items)
  BY DEF Sorted
<1>2. \A n \in 1 .. Len(published) : published'[n] = published[n]
  BY <1>1
<1>3. published'[Len(published) + 1] = item
  BY <1>1
<1>4. Numbers' = Numbers \union {Len(published) + 1} /\ Len(published) + 1 \notin Numbers
  BY <1>1 DEF Numbers
<1>5. ASSUME NEW n \in Numbers
      PROVE  /\ published'[n] = published[n] /\ TypeOf(n)' = TypeOf(n)
             /\ SeqNumOf(n)' = SeqNumOf(n) /\ PublisherOf(n)' = PublisherOf(n)
             /\ n < Len(published) + 1 /\ n \in Numbers'
  <2>1. n \in 1 .. Len(published) /\ published'[n] = published[n]
    BY <1>2 DEF Numbers
  <2>2. n < Len(published) + 1 /\ n \in Numbers'
    BY <1>1, <1>4, <2>1
  <2>3. QED
    BY <2>1, <2>2 DEF TypeOf, SeqNumOf, PublisherOf
<1>6. ASSUME NEW k, k = Len(published) + 1
      PROVE  /\ TypeOf(k)' = item.content.messageType /\ SeqNumOf(k)' = item.content.seqNum
             /\ PublisherOf(k)' = item.metadata.publisherId
  BY <1>3, <1>6 DEF TypeOf, SeqNumOf, PublisherOf
<1>7. QED
  BY <1>1, <1>3, <1>4, <1>5, <1>6

LEMMA StillWired ==
    ASSUME Sorted, NEW item \in Items, published' = Append(published, item), NEW x
    PROVE  (IsWired(x) => IsWired(x)') /\ (IsHeard(x) => IsHeard(x)')
<1>1. Number(x) \in Numbers => Number(x) \in Numbers' /\ published'[Number(x)] = published[Number(x)]
  BY PublishedMore
<1>2. QED
  BY <1>1 DEF IsWired, IsHeard, Wired, Heard, Number

(* Storing a message keeps the database.                                   *)
Storing(n) == db' = [db EXCEPT ![TypeOf(n)] = Stored(db[TypeOf(n)], Heard(published[n]))]

LEMMA StoringKeeps ==
    ASSUME Flow, NEW n \in Numbers, TypeOf(n) \in Listened, Storing(n), published' = published
    PROVE  /\ DOMAIN db' = Listened
           /\ \A t \in Listened : \A key \in DOMAIN db'[t] : db'[t][key] \in Seq(Entries)
           /\ DatabaseSound'
           /\ InDatabase(n)'
           /\ \A k \in Numbers : TypeOf(k) \in Listened /\ InDatabase(k) => InDatabase(k)'
<1>1. PICK t, d : t = TypeOf(n) /\ d = Stored(db[t], Heard(published[n]))
  OBVIOUS
<1>2. Grown(d, t, n)
  BY <1>1, StoredKeeps
<1>3. /\ DOMAIN db = Listened
      /\ \A u \in Listened : \A key \in DOMAIN db[u] : db[u][key] \in Seq(Entries)
  BY DEF Flow, Sorted, Entries
<1>4. /\ DOMAIN db' = Listened /\ db'[t] = d
      /\ \A u \in Listened : u # t => db'[u] = db[u]
  BY <1>1, <1>3 DEF Storing
<1>5. \A k : TypeOf(k)' = TypeOf(k)
  BY DEF TypeOf
<1>6. DatabaseSound'
  <2>1. \A u \in Listened : TableSound(db'[u], u)
    BY <1>2, <1>4 DEF Grown, Flow, DatabaseSound
  <2>2. ASSUME NEW u \in Listened PROVE TableSound(db[u], u)'
    <3>1. PICK table : table = db'[u]
      OBVIOUS
    <3>2. TableSound(table, u)
      BY <2>1, <3>1
    <3>3. TableSound(table, u)'
      BY <3>2 DEF TableSound, IsHeard, Heard, Number, Numbers, Key
    <3>4. QED
      BY <3>1, <3>3
  <2>3. QED
    BY <2>2 DEF DatabaseSound
<1>7. InDatabase(n)'
  BY <1>1, <1>2, <1>4, <1>5 DEF InDatabase, Number, Grown
<1>8. ASSUME NEW k \in Numbers, TypeOf(k) \in Listened, InDatabase(k) PROVE InDatabase(k)'
  <2>1. PICK key, i : /\ key \in DOMAIN db[TypeOf(k)] /\ i \in DOMAIN db[TypeOf(k)][key]
                      /\ Number(db[TypeOf(k)][key][i].message) = k
    BY <1>8 DEF InDatabase
  <2>2. /\ key \in DOMAIN db'[TypeOf(k)] /\ i \in DOMAIN db'[TypeOf(k)][key]
        /\ db'[TypeOf(k)][key][i] = db[TypeOf(k)][key][i]
    <3>1. CASE TypeOf(k) = t
      BY <1>2, <1>4, <2>1, <3>1 DEF Grown
    <3>2. CASE TypeOf(k) # t
      BY <1>4, <1>8, <2>1, <3>2
    <3>3. QED
      BY <3>1, <3>2
  <2>3. QED
    BY <1>5, <2>1, <2>2 DEF InDatabase, Number
<1>9. \A u \in Listened : \A key \in DOMAIN db'[u] : db'[u][key] \in Seq(Entries)
  BY <1>2, <1>3, <1>4 DEF Grown
<1>10. QED
  BY <1>4, <1>6, <1>7, <1>8, <1>9

-------------------------------------------------------------------------------
(* Flow is inductive.                                                      *)
LEMMA AscendingRest ==
    ASSUME NEW S, NEW s \in Seq(S), s # <<>>, Ascending(s)
    PROVE  /\ Ascending(Tail(s))
           /\ \A j \in DOMAIN Tail(s) :
                Tail(s)[j].metadata.publisherId = Head(s).metadata.publisherId
                => Number(Head(s)) < Number(Tail(s)[j])
<1>1. PICK r : r = Tail(s)
  OBVIOUS
<1>2. /\ Head(s) = s[1] /\ 1 \in DOMAIN s
      /\ \A i \in DOMAIN r : i \in Nat /\ 1 < i + 1 /\ i + 1 \in DOMAIN s /\ r[i] = s[i + 1]
  BY <1>1
<1>3. \A i, j \in DOMAIN r : i < j => i + 1 < j + 1
  BY <1>2
<1>4. Ascending(r)
  BY <1>2, <1>3 DEF Ascending
<1>5. \A j \in DOMAIN r : r[j].metadata.publisherId = s[1].metadata.publisherId
                          => Number(s[1]) < Number(r[j])
  BY <1>2 DEF Ascending
<1>6. QED
  BY <1>1, <1>2, <1>4, <1>5

LEMMA AscendingMore ==
    ASSUME NEW S, NEW s \in Seq(S), Ascending(s), NEW x,
           \A i \in DOMAIN s : s[i].metadata.publisherId = x.metadata.publisherId
                               => Number(s[i]) < Number(x)
    PROVE  Ascending(Append(s, x))
<1>1. PICK r : r = Append(s, x)
  OBVIOUS
<1>2. /\ \A i \in DOMAIN r : i \in DOMAIN s \/ i = Len(s) + 1
      /\ r[Len(s) + 1] = x
      /\ \A i \in DOMAIN s : r[i] = s[i] /\ ~ (Len(s) + 1 < i)
      /\ ~ (Len(s) + 1 < Len(s) + 1)
  BY <1>1
<1>3. Ascending(r)
  BY <1>2 DEF Ascending
<1>4. QED
  BY <1>1, <1>3

LEMMA InitFlow == Init => Flow
<1>1. SUFFICES ASSUME Init PROVE Flow
  OBVIOUS
<1>2. Sorted
  <2>1. published \in Seq(Items) /\ Len(published) <= MaxPublished /\ recovered \in 0 .. Len(published)
    BY <1>1, StampAssumption DEF Init
  <2>2. counter \in [Publisher -> [MessageType -> Nat]]
    BY <1>1, BodiesAssumption DEF Init
  <2>3. /\ sent \in [Publisher -> Seq(WiredItems)] /\ immediates \in Seq(WiredItems)
        /\ transactions \in Seq(HeardItems)
    BY <1>1 DEF Init
  <2>4. DOMAIN db = Listened /\ \A t \in Listened : DOMAIN db[t] = {}
    BY <1>1 DEF Init
  <2>5. /\ _latestTimestamp \in Nat /\ isComplete \in BOOLEAN /\ (isComplete => recovered > 0)
        /\ lostCount \in [MessageType -> Nat] /\ lost \subseteq Numbers
    BY <1>1 DEF Init
  <2>6. seqNums \in [MessageType -> [Publisher -> Nat]]
    BY <1>1 DEF Init, NoSeqNum
  <2>7. QED
    BY <2>1, <2>2, <2>3, <2>4, <2>5, <2>6 DEF Sorted
<1>3. PublishedSound
  BY <1>1 DEF Init, PublishedSound, Numbers
<1>4. WaySound
  <2>1. \A p \in Publisher : sent[p] = <<>>
    BY <1>1 DEF Init
  <2>2. immediates = <<>>
    BY <1>1 DEF Init
  <2>3. QED
    BY <2>1, <2>2 DEF WaySound, SentBy, AheadOf, Ascending
<1>5. TransactionsSound
  BY <1>1 DEF Init, TransactionsSound
<1>6. DatabaseSound
  BY <1>1 DEF Init, DatabaseSound, TableSound
<1>7. QED
  BY <1>2, <1>3, <1>4, <1>5, <1>6 DEF Flow

(* What has arrived stays as it is while nothing of it changes.            *)
LEMMA SameHeard ==
    ASSUME published' = published
    PROVE  /\ Numbers' = Numbers
           /\ \A x : IsWired(x)' = IsWired(x) /\ IsHeard(x)' = IsHeard(x)
           /\ \A n : TypeOf(n)' = TypeOf(n) /\ SeqNumOf(n)' = SeqNumOf(n)
                     /\ PublisherOf(n)' = PublisherOf(n)
<1>1. Numbers' = Numbers
  BY DEF Numbers
<1>2. ASSUME NEW x PROVE IsWired(x)' = IsWired(x) /\ IsHeard(x)' = IsHeard(x)
  BY <1>1 DEF IsWired, IsHeard, Wired, Heard, Number
<1>3. QED
  BY <1>1, <1>2 DEF TypeOf, SeqNumOf, PublisherOf

LEMMA StillHeard ==
    ASSUME \A x : IsHeard(x) => IsHeard(x)'
    PROVE  /\ TransactionsSound /\ transactions' = transactions => TransactionsSound'
           /\ DatabaseSound /\ db' = db => DatabaseSound'
<1>1. ASSUME TransactionsSound, transactions' = transactions PROVE TransactionsSound'
  <2>1. ASSUME NEW i \in DOMAIN transactions PROVE IsHeard(transactions[i])'
    <3>1. PICK x : x = transactions[i]
      OBVIOUS
    <3>2. IsHeard(x)'
      BY <1>1, <3>1 DEF TransactionsSound
    <3>3. QED
      BY <1>1, <3>1, <3>2
  <2>2. QED
    BY <1>1, <2>1 DEF TransactionsSound
<1>2. ASSUME DatabaseSound, db' = db PROVE DatabaseSound'
  <2>1. ASSUME NEW t \in Listened PROVE TableSound(db[t], t)'
    <3>1. PICK table : table = db[t]
      OBVIOUS
    <3>2. TableSound(table, t)
      BY <1>2, <3>1 DEF DatabaseSound
    <3>3. TableSound(table, t)'
      BY <3>2 DEF TableSound, Number, Key
    <3>4. QED
      BY <1>2, <3>1, <3>3
  <2>2. QED
    BY <2>1 DEF DatabaseSound
<1>3. QED
  BY <1>1, <1>2

LEMMA SameWay ==
    ASSUME published' = published, sent' = sent, immediates' = immediates
    PROVE  (PublishedSound => PublishedSound') /\ (WaySound => WaySound')
<1>1. PublishedSound => PublishedSound'
  BY DEF PublishedSound, Numbers, Number
<1>2. ASSUME WaySound PROVE WaySound'
  <2>1. ASSUME NEW p \in Publisher PROVE SentBy(p, sent[p])' /\ AheadOf(p, sent[p])'
    <3>1. PICK s : s = sent[p]
      OBVIOUS
    <3>2. SentBy(p, s) /\ AheadOf(p, s)
      BY <1>2, <3>1 DEF WaySound
    <3>3. SentBy(p, s)' /\ AheadOf(p, s)'
      BY <3>2, SameHeard DEF SentBy, AheadOf, Ascending, Number
    <3>4. QED
      BY <3>1, <3>3
  <2>2. ASSUME NEW i \in DOMAIN immediates PROVE IsWired(immediates[i])'
    <3>1. PICK x : x = immediates[i]
      OBVIOUS
    <3>2. IsWired(x)'
      BY <1>2, <3>1, SameHeard DEF WaySound
    <3>3. QED
      BY <3>1, <3>2
  <2>3. Ascending(immediates)'
    BY <1>2 DEF WaySound, Ascending, Number
  <2>4. QED
    BY <2>1, <2>2, <2>3 DEF WaySound
<1>3. QED
  BY <1>1, <1>2

LEMMA PublishKeepsFlow ==
    ASSUME Flow, NEW b \in Bodied, Publish(b[1], b[2])
    PROVE  Flow'
<1>1. PICK item \in Items, p \in Publisher, t \in MessageType :
        /\ Len(published) < MaxPublished
        /\ published' = Append(published, item)
        /\ Number(item) = Len(published) + 1
        /\ item.metadata.publisherId = p /\ item.content.messageType = t
        /\ item.content.seqNum = counter[p][t]
        /\ sent' = [sent EXCEPT ![p] = Append(sent[p], Wired(item))]
        /\ counter' = [counter EXCEPT ![p][t] = counter[p][t] + 1]
        /\ UNCHANGED <<immediates, transactions, db, _latestTimestamp, recovered,
                       isComplete, seqNums, lostCount, lost>>
  BY PublishStep DEF Flow
<1>2. Sorted /\ PublishedSound /\ WaySound /\ TransactionsSound /\ DatabaseSound
  BY DEF Flow
<1>3. /\ Numbers' = Numbers \union {Len(published) + 1} /\ Len(published) + 1 \notin Numbers
      /\ published' \in Seq(Items) /\ Len(published') = Len(published) + 1
      /\ published'[Len(published) + 1] = item
      /\ \A n \in Numbers : published'[n] = published[n] /\ n < Len(published) + 1 /\ n \in Numbers'
  BY <1>1, <1>2, PublishedMore
<1>4. \A x : (IsWired(x) => IsWired(x)') /\ (IsHeard(x) => IsHeard(x)')
  BY <1>1, <1>2, StillWired
<1>5. PICK w : w = Wired(item)
  OBVIOUS
<1>6. /\ w \in WiredItems /\ w.metadata = item.metadata
      /\ Number(w) = Len(published) + 1 /\ w.metadata.publisherId = p
  BY <1>1, <1>5, WiredFacts DEF WiredItems, Number
<1>7. IsWired(w)'
  BY <1>3, <1>5, <1>6 DEF IsWired, Wired, Number
<1>8. /\ sent \in [Publisher -> Seq(WiredItems)]
      /\ sent'[p] = Append(sent[p], w) /\ \A q \in Publisher : q # p => sent'[q] = sent[q]
      /\ sent' \in [Publisher -> Seq(WiredItems)]
  BY <1>1, <1>2, <1>5, <1>6 DEF Sorted
<1>9. Sorted'
  <2>1. published' \in Seq(Items) /\ Len(published') <= MaxPublished
    BY <1>1, <1>2, <1>3, StampAssumption DEF Sorted
  <2>2. counter' \in [Publisher -> [MessageType -> Nat]]
    BY <1>1, <1>2 DEF Sorted
  <2>3. /\ immediates' \in Seq(WiredItems) /\ transactions' \in Seq(HeardItems)
        /\ DOMAIN db' = Listened
        /\ \A u \in Listened : \A key \in DOMAIN db'[u] :
             db'[u][key] \in Seq({Entry(m) : m \in HeardItems})
    BY <1>1, <1>2 DEF Sorted
  <2>4. /\ _latestTimestamp' \in Nat /\ isComplete' \in BOOLEAN /\ (isComplete' => recovered' > 0)
        /\ seqNums' \in [MessageType -> [Publisher -> Nat]]
        /\ lostCount' \in [MessageType -> Nat]
    BY <1>1, <1>2 DEF Sorted
  <2>5. recovered' \in 0 .. Len(published')
    BY <1>1, <1>2, <1>3 DEF Sorted
  <2>6. lost' \subseteq Numbers'
    BY <1>1, <1>2, <1>3 DEF Sorted
  <2>7. QED
    BY <1>8, <2>1, <2>2, <2>3, <2>4, <2>5, <2>6 DEF Sorted
<1>10. PublishedSound'
  BY <1>1, <1>2, <1>3 DEF PublishedSound, Number
<1>11. WaySound'
  <2>1. \A i \in DOMAIN sent[p] : Number(sent[p][i]) < Len(published) + 1
    BY <1>2, <1>3 DEF WaySound, SentBy, IsWired
  <2>2. Ascending(sent'[p])
    BY <1>2, <1>6, <1>8, <2>1, AscendingMore DEF WaySound, SentBy
  <2>3. /\ DOMAIN sent'[p] = DOMAIN sent[p] \union {Len(sent[p]) + 1}
        /\ sent'[p][Len(sent[p]) + 1] = w
        /\ \A i \in DOMAIN sent[p] : sent'[p][i] = sent[p][i]
    BY <1>8
  <2>4. ASSUME NEW q \in Publisher PROVE SentBy(q, sent[q])' /\ AheadOf(q, sent[q])'
    <3>1. PICK s : s = sent'[q]
      OBVIOUS
    <3>2. SentBy(q, sent[q]) /\ AheadOf(q, sent[q])
      BY <1>2 DEF WaySound
    <3>3. Ascending(s)
      BY <1>8, <2>2, <3>1, <3>2 DEF SentBy
    <3>4. \A i \in DOMAIN s : IsWired(s[i])' /\ s[i].metadata.publisherId = q
      <4>1. TAKE i \in DOMAIN s
      <4>2. PICK x : x = s[i]
        OBVIOUS
      <4>3. (x = w /\ q = p) \/ (IsWired(x) /\ x.metadata.publisherId = q)
        BY <1>8, <2>3, <3>1, <3>2, <4>2 DEF SentBy
      <4>4. IsWired(x)' /\ x.metadata.publisherId = q
        BY <1>4, <1>6, <1>7, <4>3
      <4>5. QED
        BY <4>2, <4>4
    <3>5. \A i \in DOMAIN immediates, j \in DOMAIN s :
            immediates[i].metadata.publisherId = q => Number(immediates[i]) < Number(s[j])
      <4>1. \A i \in DOMAIN immediates : Number(immediates[i]) < Number(w)
        BY <1>2, <1>3, <1>6 DEF WaySound, IsWired
      <4>2. QED
        BY <1>8, <2>3, <3>1, <3>2, <4>1 DEF AheadOf
    <3>6. QED
      BY <1>1, <3>1, <3>3, <3>4, <3>5 DEF SentBy, AheadOf, Ascending, Number
  <2>5. ASSUME NEW i \in DOMAIN immediates PROVE IsWired(immediates[i])'
    <3>1. PICK x : x = immediates[i]
      OBVIOUS
    <3>2. IsWired(x)'
      BY <1>2, <1>4, <3>1 DEF WaySound
    <3>3. QED
      BY <1>1, <3>1, <3>2
  <2>6. QED
    BY <1>1, <1>2, <2>4, <2>5 DEF WaySound, Ascending, Number
<1>12. QED
  BY <1>1, <1>2, <1>4, <1>9, <1>10, <1>11, StillHeard DEF Flow

(* What Deliver and Lose take from the messages that a publisher sent.     *)
OthersStay(w) ==
    \A q \in Publisher : \A i \in DOMAIN sent[q] :
      sent[q][i] = w \/ \E j \in DOMAIN sent'[q] : sent'[q][j] = sent[q][i]

LEMMA RestSent ==
    ASSUME Flow, published' = published, NEW p \in Publisher, sent[p] # <<>>,
           sent' = [sent EXCEPT ![p] = Tail(@)], NEW w, w = Head(sent[p])
    PROVE  /\ w \in WiredItems /\ IsWired(w) /\ Number(w) \in Numbers
           /\ w.metadata.publisherId = p
           /\ sent' \in [Publisher -> Seq(WiredItems)]
           /\ \A q \in Publisher : SentBy(q, sent[q])'
           /\ \A j \in DOMAIN sent'[p] : Number(w) < Number(sent'[p][j])
           /\ \E i \in DOMAIN sent[p] : sent[p][i] = w
           /\ \A q \in Publisher : \A j \in DOMAIN sent'[q] : \E i \in DOMAIN sent[q] :
                sent'[q][j] = sent[q][i]
           /\ OthersStay(w)
<1>1. /\ sent \in [Publisher -> Seq(WiredItems)]
      /\ \A q \in Publisher : SentBy(q, sent[q])
  BY DEF Flow, Sorted, WaySound
<1>2. PICK s, r : s = sent[p] /\ r = Tail(s)
  OBVIOUS
<1>3. s \in Seq(WiredItems) /\ s # <<>> /\ w = Head(s)
  BY <1>1, <1>2
<1>4. /\ sent'[p] = r /\ \A q \in Publisher : q # p => sent'[q] = sent[q]
      /\ r \in Seq(WiredItems) /\ sent' \in [Publisher -> Seq(WiredItems)]
  BY <1>1, <1>2, <1>3
<1>5. /\ w = s[1] /\ 1 \in DOMAIN s
      /\ \A i \in DOMAIN r : i + 1 \in DOMAIN s /\ r[i] = s[i + 1]
      /\ \A i \in DOMAIN s : i # 1 => i - 1 \in DOMAIN r /\ r[i - 1] = s[i]
  BY <1>2, <1>3, Behind
<1>6. w \in WiredItems
  BY <1>3, <1>5
<1>7. IsWired(w) /\ w.metadata.publisherId = p /\ Number(w) \in Numbers
  BY <1>1, <1>2, <1>5 DEF SentBy, IsWired
<1>8. /\ Ascending(r)
      /\ \A i \in DOMAIN r : IsWired(r[i]) /\ r[i].metadata.publisherId = p
      /\ \A i \in DOMAIN r : Number(w) < Number(r[i])
  <2>1. Ascending(s) /\ \A i \in DOMAIN s : IsWired(s[i]) /\ s[i].metadata.publisherId = p
    BY <1>1, <1>2 DEF SentBy
  <2>2. \A i \in DOMAIN r : IsWired(r[i]) /\ r[i].metadata.publisherId = p
    BY <1>5, <2>1
  <2>3. QED
    BY <1>2, <1>3, <1>7, <2>1, <2>2, AscendingRest
<1>9. ASSUME NEW q \in Publisher PROVE SentBy(q, sent[q])'
  <2>1. PICK t : t = sent'[q]
    OBVIOUS
  <2>2. SentBy(q, t)
    BY <1>1, <1>4, <1>8, <2>1 DEF SentBy
  <2>3. SentBy(q, t)'
    BY <2>2, SameHeard DEF SentBy, Ascending, Number
  <2>4. QED
    BY <2>1, <2>3
<1>10. ASSUME NEW q \in Publisher
       PROVE  /\ \A j \in DOMAIN sent'[q] : \E i \in DOMAIN sent[q] : sent'[q][j] = sent[q][i]
              /\ \A i \in DOMAIN sent[q] :
                   sent[q][i] = w \/ \E j \in DOMAIN sent'[q] : sent'[q][j] = sent[q][i]
  <2>1. CASE q = p
    <3>1. \A j \in DOMAIN r : \E i \in DOMAIN s : r[j] = s[i]
      BY <1>5
    <3>2. \A i \in DOMAIN s : s[i] = w \/ \E j \in DOMAIN r : r[j] = s[i]
      BY <1>5
    <3>3. QED
      BY <1>2, <1>4, <2>1, <3>1, <3>2
  <2>2. CASE q # p
    BY <1>4, <2>2
  <2>3. QED
    BY <2>1, <2>2
<1>11. OthersStay(w)
  BY <1>10 DEF OthersStay
<1>12. QED
  BY <1>2, <1>4, <1>5, <1>6, <1>7, <1>8, <1>9, <1>10, <1>11

(* A step that changes none of the rest keeps it sorted.                   *)
LEMMA SortedStep ==
    ASSUME Sorted, published' = published, counter' = counter, db' = db,
           recovered' = recovered, isComplete' = isComplete,
           sent' \in [Publisher -> Seq(WiredItems)], immediates' \in Seq(WiredItems),
           transactions' \in Seq(HeardItems), _latestTimestamp' \in Nat,
           seqNums' \in [MessageType -> [Publisher -> Nat]],
           lostCount' \in [MessageType -> Nat], lost' \subseteq Numbers
    PROVE  Sorted'
BY DEF Sorted, Numbers

LEMMA LoseKeepsFlow ==
    ASSUME Flow, NEW p \in Publisher, Lose(p)
    PROVE  Flow'
<1>1. /\ sent[p] # <<>> /\ sent' = [sent EXCEPT ![p] = Tail(@)] /\ published' = published
      /\ UNCHANGED <<immediates, transactions, db>>
  BY DEF Lose
<1>2. Sorted /\ PublishedSound /\ WaySound /\ TransactionsSound /\ DatabaseSound
  BY DEF Flow
<1>3. PICK w : w = Head(sent[p])
  OBVIOUS
<1>4. /\ Number(w) \in Numbers
      /\ sent' \in [Publisher -> Seq(WiredItems)]
      /\ \A q \in Publisher : SentBy(q, sent[q])'
      /\ \A q \in Publisher : \A j \in DOMAIN sent'[q] : \E i \in DOMAIN sent[q] :
           sent'[q][j] = sent[q][i]
  BY <1>1, <1>3, RestSent
<1>5. Sorted'
  <2>1. lost' \subseteq Numbers
    BY <1>2, <1>3, <1>4 DEF Lose, Sorted, Number
  <2>2. QED
    BY <1>2, <1>4, <2>1, SortedStep DEF Lose, Sorted
<1>6. PublishedSound'
  BY <1>1, <1>2 DEF PublishedSound, Numbers, Number
<1>7. WaySound'
  <2>1. ASSUME NEW q \in Publisher PROVE AheadOf(q, sent[q])'
    BY <1>1, <1>2, <1>4 DEF WaySound, AheadOf, Number
  <2>2. Ascending(immediates)' /\ \A i \in DOMAIN immediates' : IsWired(immediates[i])'
    BY <1>1, <1>2, SameHeard DEF WaySound, Ascending, IsWired, Wired, Number, Numbers
  <2>3. QED
    BY <1>4, <2>1, <2>2 DEF WaySound
<1>8. QED
  BY <1>1, <1>2, <1>5, <1>6, <1>7, SameHeard, StillHeard DEF Flow

LEMMA DeliverKeepsFlow ==
    ASSUME Flow, NEW p \in Publisher, Deliver(p)
    PROVE  Flow'
<1>1. /\ sent[p] # <<>> /\ sent' = [sent EXCEPT ![p] = Tail(@)] /\ published' = published
      /\ immediates' = Append(immediates, Head(sent[p]))
      /\ UNCHANGED <<transactions, db>>
  BY DEF Deliver
<1>2. Sorted /\ PublishedSound /\ WaySound /\ TransactionsSound /\ DatabaseSound
  BY DEF Flow
<1>3. PICK w : w = Head(sent[p])
  OBVIOUS
<1>4. /\ w \in WiredItems /\ IsWired(w) /\ w.metadata.publisherId = p
      /\ sent' \in [Publisher -> Seq(WiredItems)]
      /\ \A q \in Publisher : SentBy(q, sent[q])'
      /\ \A j \in DOMAIN sent'[p] : Number(w) < Number(sent'[p][j])
  BY <1>1, <1>3, RestSent
<1>10. \E i \in DOMAIN sent[p] : sent[p][i] = w
  <2>1. sent[p] \in Seq(WiredItems)
    BY <1>2 DEF Sorted
  <2>2. QED
    BY <1>1, <1>3, <2>1
<1>11. \A q \in Publisher : \A j \in DOMAIN sent'[q] : \E i \in DOMAIN sent[q] :
         sent'[q][j] = sent[q][i]
  BY <1>1, <1>3, RestSent
<1>5. /\ immediates \in Seq(WiredItems) /\ immediates' \in Seq(WiredItems)
      /\ \A i \in DOMAIN immediates' : i \in DOMAIN immediates \/ i = Len(immediates) + 1
      /\ immediates'[Len(immediates) + 1] = w
      /\ \A i \in DOMAIN immediates : immediates'[i] = immediates[i]
  BY <1>1, <1>2, <1>3, <1>4 DEF Sorted
<1>6. Sorted'
  BY <1>2, <1>4, <1>5, SortedStep DEF Deliver, Sorted
<1>7. PublishedSound'
  BY <1>1, <1>2 DEF PublishedSound, Numbers, Number
<1>8. WaySound'
  <2>1. \A i \in DOMAIN immediates : immediates[i].metadata.publisherId = p
                                     => Number(immediates[i]) < Number(w)
    BY <1>2, <1>10 DEF WaySound, AheadOf
  <2>2. Ascending(immediates')
    BY <1>1, <1>2, <1>3, <1>4, <1>5, <2>1, AscendingMore DEF WaySound
  <2>3. ASSUME NEW i \in DOMAIN immediates' PROVE IsWired(immediates[i])'
    <3>1. PICK x : x = immediates'[i]
      OBVIOUS
    <3>2. IsWired(x)
      BY <1>2, <1>4, <1>5, <3>1 DEF WaySound
    <3>3. IsWired(x)'
      BY <1>1, <3>2, SameHeard
    <3>4. QED
      BY <3>1, <3>3
  <2>4. ASSUME NEW q \in Publisher PROVE AheadOf(q, sent[q])'
    <3>1. ASSUME NEW i \in DOMAIN immediates', NEW j \in DOMAIN sent'[q],
                 immediates'[i].metadata.publisherId = q
          PROVE  Number(immediates'[i]) < Number(sent'[q][j])
      <4>1. CASE i \in DOMAIN immediates
        BY <1>2, <1>5, <1>11, <3>1, <4>1 DEF WaySound, AheadOf
      <4>2. CASE i = Len(immediates) + 1
        BY <1>4, <1>5, <3>1, <4>2
      <4>3. QED
        BY <1>5, <4>1, <4>2
    <3>2. QED
      BY <3>1 DEF AheadOf, Number
  <2>5. QED
    BY <1>4, <2>2, <2>3, <2>4 DEF WaySound, Ascending, Number
<1>9. QED
  BY <1>1, <1>2, <1>6, <1>7, <1>8, SameHeard, StillHeard DEF Flow

LEMMA OnMessageKeepsFlow ==
    ASSUME Flow, OnMessage
    PROVE  Flow'
<1>1. PICK n \in Numbers, p \in Publisher, t \in MessageType :
        /\ immediates # <<>> /\ Head(immediates) = Wired(published[n])
        /\ Number(Head(immediates)) = n
        /\ p = PublisherOf(n) /\ t = TypeOf(n)
        /\ immediates' = Tail(immediates)
        /\ lostCount' = [lostCount EXCEPT ![t] = lostCount[t] + Gap(seqNums[t][p], SeqNumOf(n))]
        /\ seqNums' = [seqNums EXCEPT ![t][p] = SeqNumOf(n)]
        /\ IF t \in Listened
           THEN /\ _latestTimestamp' = Stamp[n]
                /\ transactions' = Append(transactions, Heard(published[n]))
           ELSE UNCHANGED <<_latestTimestamp, transactions>>
        /\ UNCHANGED <<counter, published, sent, db, recovered, isComplete, lost>>
  BY HandleStep
<1>2. Sorted /\ PublishedSound /\ WaySound /\ TransactionsSound /\ DatabaseSound
  BY DEF Flow
<1>3. n \in 1 .. MaxPublished /\ SeqNumOf(n) \in Nat
  BY <1>2, PublishedFacts
<1>4. PICK m : m = Heard(published[n])
  OBVIOUS
<1>5. t \in Listened => IsHeard(m) /\ m \in HeardItems
  BY <1>1, <1>2, <1>4, HeardIs
<1>6. /\ immediates \in Seq(WiredItems) /\ immediates' \in Seq(WiredItems)
      /\ \A i \in DOMAIN immediates' : i + 1 \in DOMAIN immediates
                                       /\ immediates'[i] = immediates[i + 1]
  BY <1>1, <1>2, Behind DEF Sorted
<1>7. Sorted'
  <2>1. Stamp[n] \in Nat
    BY <1>3, StampAssumption
  <2>2. _latestTimestamp' \in Nat
    BY <1>1, <1>2, <2>1 DEF Sorted
  <2>3. transactions' \in Seq(HeardItems)
    <3>1. transactions \in Seq(HeardItems)
      BY <1>2 DEF Sorted
    <3>2. CASE t \in Listened
      <4>1. transactions' = Append(transactions, m) /\ m \in HeardItems
        BY <1>1, <1>4, <1>5, <3>2
      <4>2. QED
        BY <3>1, <4>1
    <3>3. CASE t \notin Listened
      BY <1>1, <3>1, <3>3
    <3>4. QED
      BY <3>2, <3>3
  <2>4. seqNums' \in [MessageType -> [Publisher -> Nat]]
    BY <1>1, <1>2, <1>3 DEF Sorted
  <2>5. Gap(seqNums[t][p], SeqNumOf(n)) \in Nat
    BY <1>2, <1>3 DEF Gap, Sorted
  <2>6. lostCount' \in [MessageType -> Nat]
    BY <1>1, <1>2, <2>5 DEF Sorted
  <2>7. QED
    BY <1>1, <1>2, <1>6, <2>2, <2>3, <2>4, <2>6, SortedStep DEF Sorted
<1>8. PublishedSound'
  BY <1>1, <1>2 DEF PublishedSound, Numbers, Number
<1>9. WaySound'
  <2>1. Ascending(immediates')
    BY <1>1, <1>2, <1>6, AscendingRest DEF WaySound
  <2>2. ASSUME NEW i \in DOMAIN immediates' PROVE IsWired(immediates[i])'
    <3>1. PICK x : x = immediates'[i]
      OBVIOUS
    <3>2. IsWired(x)
      BY <1>2, <1>6, <3>1 DEF WaySound
    <3>3. IsWired(x)'
      BY <1>1, <3>2, SameHeard
    <3>4. QED
      BY <3>1, <3>3
  <2>3. ASSUME NEW q \in Publisher PROVE SentBy(q, sent[q])' /\ AheadOf(q, sent[q])'
    <3>1. PICK s : s = sent[q]
      OBVIOUS
    <3>2. SentBy(q, s) /\ AheadOf(q, s)
      BY <1>2, <3>1 DEF WaySound
    <3>3. SentBy(q, s)'
      BY <1>1, <3>2, SameHeard DEF SentBy, Ascending, Number
    <3>4. AheadOf(q, s)'
      BY <1>6, <3>2 DEF AheadOf, Number
    <3>5. QED
      BY <1>1, <3>1, <3>3, <3>4
  <2>4. QED
    BY <2>1, <2>2, <2>3 DEF WaySound, Ascending, Number
<1>10. TransactionsSound'
  <2>1. ASSUME NEW i \in DOMAIN transactions' PROVE IsHeard(transactions[i])'
    <3>1. PICK x : x = transactions'[i]
      OBVIOUS
    <3>2. (x = m /\ t \in Listened) \/ \E j \in DOMAIN transactions : x = transactions[j]
      <4>1. transactions \in Seq(HeardItems)
        BY <1>2 DEF Sorted
      <4>2. CASE t \in Listened
        <5>1. transactions' = Append(transactions, m)
          BY <1>1, <1>4, <4>2
        <5>2. QED
          BY <3>1, <4>1, <4>2, <5>1
      <4>3. CASE t \notin Listened
        BY <1>1, <3>1, <4>3
      <4>4. QED
        BY <4>2, <4>3
    <3>3. IsHeard(x)
      BY <1>2, <1>5, <3>2 DEF TransactionsSound
    <3>4. QED
      BY <1>1, <3>1, <3>3, SameHeard
  <2>2. QED
    BY <2>1 DEF TransactionsSound
<1>11. QED
  BY <1>1, <1>2, <1>7, <1>8, <1>9, <1>10, SameHeard, StillHeard DEF Flow

LEMMA StoreKeepsFlow ==
    ASSUME Flow, Store
    PROVE  Flow'
<1>1. PICK n \in Numbers, t \in Listened :
        /\ TypeOf(n) = t /\ transactions # <<>>
        /\ db' = [db EXCEPT ![t] = Stored(db[t], Heard(published[n]))]
        /\ transactions' = Tail(transactions)
        /\ UNCHANGED <<counter, published, sent, immediates, _latestTimestamp, recovered,
                       isComplete, seqNums, lostCount, lost>>
  BY StoreStep
<1>2. Sorted /\ PublishedSound /\ WaySound /\ TransactionsSound /\ DatabaseSound
  BY DEF Flow
<1>3. /\ DOMAIN db' = Listened
      /\ \A u \in Listened : \A key \in DOMAIN db'[u] : db'[u][key] \in Seq(Entries)
      /\ DatabaseSound'
  BY <1>1, StoringKeeps DEF Storing
<1>4. /\ transactions' \in Seq(HeardItems)
      /\ \A i \in DOMAIN transactions' : i + 1 \in DOMAIN transactions
                                         /\ transactions'[i] = transactions[i + 1]
  BY <1>1, <1>2, Behind DEF Sorted
<1>5. Sorted'
  BY <1>1, <1>2, <1>3, <1>4 DEF Sorted, Numbers, Entries
<1>6. TransactionsSound'
  <2>1. ASSUME NEW i \in DOMAIN transactions' PROVE IsHeard(transactions[i])'
    <3>1. PICK x : x = transactions'[i]
      OBVIOUS
    <3>2. IsHeard(x)
      BY <1>2, <1>4, <3>1 DEF TransactionsSound
    <3>3. IsHeard(x)'
      BY <1>1, <3>2, SameHeard
    <3>4. QED
      BY <3>1, <3>3
  <2>2. QED
    BY <2>1 DEF TransactionsSound
<1>7. PublishedSound' /\ WaySound'
  BY <1>1, <1>2, SameWay
<1>8. QED
  BY <1>3, <1>5, <1>6, <1>7 DEF Flow

LEMMA RecoverKeepsFlow ==
    ASSUME Flow, Recover
    PROVE  Flow'
<1>1. PICK n \in Numbers :
        /\ n = recovered + 1 /\ recovered' = n /\ ~isComplete
        /\ IF TypeOf(n) \in Listened THEN Storing(n) ELSE db' = db
        /\ UNCHANGED <<counter, published, sent, immediates, transactions,
                       _latestTimestamp, isComplete, seqNums, lostCount, lost>>
  BY RecoverStep DEF Storing
<1>2. Sorted /\ PublishedSound /\ WaySound /\ TransactionsSound /\ DatabaseSound
  BY DEF Flow
<1>3. /\ DOMAIN db' = Listened
      /\ \A u \in Listened : \A key \in DOMAIN db'[u] : db'[u][key] \in Seq(Entries)
      /\ DatabaseSound'
  <2>1. CASE TypeOf(n) \in Listened
    BY <1>1, <2>1, StoringKeeps
  <2>2. CASE TypeOf(n) \notin Listened
    BY <1>1, <1>2, <2>2, SameHeard, StillHeard DEF Sorted, Entries
  <2>3. QED
    BY <2>1, <2>2
<1>4. recovered' \in 0 .. Len(published') /\ recovered' > 0
  BY <1>1, <1>2 DEF Sorted, Numbers
<1>5. Sorted'
  BY <1>1, <1>2, <1>3, <1>4 DEF Sorted, Numbers, Entries
<1>6. PublishedSound' /\ WaySound'
  BY <1>1, <1>2, SameWay
<1>7. QED
  BY <1>1, <1>2, <1>3, <1>5, <1>6, SameHeard, StillHeard DEF Flow

LEMMA CompleteKeepsFlow ==
    ASSUME Flow, Complete
    PROVE  Flow'
<1>1. /\ isComplete' = TRUE /\ recovered > 0
      /\ UNCHANGED <<counter, published, sent, immediates, transactions, db, _latestTimestamp,
                     recovered, lost>>
  BY DEF Complete
<1>2. /\ seqNums' \in [MessageType -> [Publisher -> Nat]]
      /\ lostCount' \in [MessageType -> Nat]
  BY CountStep DEF Complete, Flow
<1>3. Sorted'
  BY <1>1, <1>2 DEF Flow, Sorted, Numbers
<1>4. QED
  BY <1>1, <1>3, SameWay, SameHeard, StillHeard DEF Flow

LEMMA RecoveryKeepsFlow ==
    ASSUME Flow, OnRecoveryMessage
    PROVE  Flow'
<1>1. UNCHANGED <<counter, published, sent, immediates, transactions, db, _latestTimestamp,
                  recovered, isComplete, lost>>
  BY DEF OnRecoveryMessage
<1>2. /\ seqNums' \in [MessageType -> [Publisher -> Nat]]
      /\ lostCount' \in [MessageType -> Nat]
  BY CountStep DEF OnRecoveryMessage, Flow
<1>3. Sorted'
  BY <1>1, <1>2 DEF Flow, Sorted, Numbers
<1>4. QED
  BY <1>1, <1>3, SameWay, SameHeard, StillHeard DEF Flow

LEMMA StutterKeepsFlow == ASSUME Flow, UNCHANGED vars PROVE Flow'
<1>1. Sorted'
  BY DEF Flow, Sorted, vars, Numbers
<1>2. QED
  BY <1>1, SameWay, SameHeard, StillHeard DEF Flow, vars

LEMMA FlowStep == Flow /\ [Next]_vars => Flow'
<1>1. SUFFICES ASSUME Flow, [Next]_vars PROVE Flow'
  OBVIOUS
<1>2. ASSUME NEW n \in DOMAIN Bodies, NEW b \in Bodies[n], Publish(b[1], b[2]) PROVE Flow'
  BY <1>1, <1>2, PublishKeepsFlow DEF Bodied
<1>3. CASE \E p \in Publisher : Lose(p)
  BY <1>1, <1>3, LoseKeepsFlow
<1>4. CASE \E p \in Publisher : Deliver(p)
  BY <1>1, <1>4, DeliverKeepsFlow
<1>5. QED
  BY <1>1, <1>2, <1>3, <1>4, OnMessageKeepsFlow, StoreKeepsFlow, RecoverKeepsFlow,
     RecoveryKeepsFlow, CompleteKeepsFlow, StutterKeepsFlow DEF Next, Listening

-------------------------------------------------------------------------------
(* What is on its way, after each action.                                  *)
LEMMA WayNumbers == ASSUME Flow, NEW n, OnTheWay(n) PROVE n \in Numbers
BY DEF Flow, WaySound, SentBy, IsWired, OnTheWay

LEMMA SameOnTheWay ==
    ASSUME sent' = sent, immediates' = immediates, NEW n
    PROVE  OnTheWay(n)' = OnTheWay(n)
BY DEF OnTheWay, Number

LEMMA PublishWay ==
    ASSUME Flow, NEW item \in Items, NEW p \in Publisher, published' = Append(published, item),
           sent' = [sent EXCEPT ![p] = Append(sent[p], Wired(item))], immediates' = immediates,
           Number(item) = Len(published) + 1, NEW n
    PROVE  OnTheWay(n)' <=> OnTheWay(n) \/ n = Len(published) + 1
<1>1. PICK w : w = Wired(item)
  OBVIOUS
<1>2. w \in WiredItems /\ Number(w) = Len(published) + 1
  BY <1>1, WiredFacts DEF WiredItems, Number
<1>3. sent \in [Publisher -> Seq(WiredItems)]
  BY DEF Flow, Sorted
<1>4. PICK s, r : s = sent[p] /\ r = sent'[p]
  OBVIOUS
<1>5. s \in Seq(WiredItems) /\ r = Append(s, w) /\ \A q \in Publisher : q # p => sent'[q] = sent[q]
  BY <1>1, <1>3, <1>4
<1>6. /\ DOMAIN r = DOMAIN s \union {Len(s) + 1} /\ r[Len(s) + 1] = w
      /\ \A i \in DOMAIN s : r[i] = s[i]
  BY <1>5
<1>7. ASSUME NEW q \in Publisher
      PROVE  (\E i \in DOMAIN sent'[q] : Number(sent'[q][i]) = n)
             <=> (\E i \in DOMAIN sent[q] : Number(sent[q][i]) = n) \/ (q = p /\ n = Len(published) + 1)
  <2>1. (\E i \in DOMAIN r : Number(r[i]) = n)
        <=> (\E i \in DOMAIN s : Number(s[i]) = n) \/ n = Len(published) + 1
    BY <1>2, <1>6
  <2>2. CASE q = p
    BY <1>4, <2>1, <2>2
  <2>3. CASE q # p
    BY <1>5, <2>3
  <2>4. QED
    BY <2>2, <2>3
<1>8. QED
  BY <1>7 DEF OnTheWay, Number

LEMMA LoseWay ==
    ASSUME Flow, NEW p \in Publisher, Lose(p), NEW n
    PROVE  /\ OnTheWay(n)' => OnTheWay(n)
           /\ OnTheWay(n) => OnTheWay(n)' \/ n \in lost'
           /\ lost \subseteq lost'
<1>1. PICK w : w = Head(sent[p])
  OBVIOUS
<1>2. /\ \A q \in Publisher : \A j \in DOMAIN sent'[q] : \E i \in DOMAIN sent[q] :
           sent'[q][j] = sent[q][i]
      /\ \A q \in Publisher : \A i \in DOMAIN sent[q] :
           sent[q][i] = w \/ \E j \in DOMAIN sent'[q] : sent'[q][j] = sent[q][i]
  <2>1. published' = published /\ sent[p] # <<>> /\ sent' = [sent EXCEPT ![p] = Tail(@)]
    BY DEF Lose
  <2>2. \A q \in Publisher : \A j \in DOMAIN sent'[q] : \E i \in DOMAIN sent[q] :
          sent'[q][j] = sent[q][i]
    BY <1>1, <2>1, RestSent
  <2>3. OthersStay(w)
    BY <1>1, <2>1, RestSent
  <2>4. QED
    BY <2>2, <2>3 DEF OthersStay
<1>3. immediates' = immediates /\ lost' = lost \union {Number(w)}
  BY <1>1 DEF Lose, Number
<1>4. OnTheWay(n)' => OnTheWay(n)
  BY <1>2, <1>3 DEF OnTheWay, Number
<1>5. OnTheWay(n) => OnTheWay(n)' \/ n = Number(w)
  BY <1>2, <1>3 DEF OnTheWay, Number
<1>6. QED
  BY <1>3, <1>4, <1>5

LEMMA DeliverWay ==
    ASSUME Flow, NEW p \in Publisher, Deliver(p), NEW n
    PROVE  OnTheWay(n)' <=> OnTheWay(n)
<1>1. PICK w : w = Head(sent[p])
  OBVIOUS
<1>2. /\ \A q \in Publisher : \A j \in DOMAIN sent'[q] : \E i \in DOMAIN sent[q] :
           sent'[q][j] = sent[q][i]
      /\ \A q \in Publisher : \A i \in DOMAIN sent[q] :
           sent[q][i] = w \/ \E j \in DOMAIN sent'[q] : sent'[q][j] = sent[q][i]
  <2>1. published' = published /\ sent[p] # <<>> /\ sent' = [sent EXCEPT ![p] = Tail(@)]
    BY DEF Deliver
  <2>2. \A q \in Publisher : \A j \in DOMAIN sent'[q] : \E i \in DOMAIN sent[q] :
          sent'[q][j] = sent[q][i]
    BY <1>1, <2>1, RestSent
  <2>3. OthersStay(w)
    BY <1>1, <2>1, RestSent
  <2>4. QED
    BY <2>2, <2>3 DEF OthersStay
<1>3. /\ sent[p] \in Seq(WiredItems) /\ sent[p] # <<>> /\ immediates \in Seq(WiredItems)
  BY DEF Flow, Sorted, Deliver
<1>4. \E i \in DOMAIN sent[p] : sent[p][i] = w
  BY <1>1, <1>3
<1>5. w \in WiredItems /\ immediates' = Append(immediates, w)
  BY <1>1, <1>3 DEF Deliver
<1>6. /\ DOMAIN immediates' = DOMAIN immediates \union {Len(immediates) + 1}
      /\ immediates'[Len(immediates) + 1] = w
      /\ \A i \in DOMAIN immediates : immediates'[i] = immediates[i]
  BY <1>3, <1>5
<1>7. OnTheWay(n)' => OnTheWay(n)
  <2>1. CASE \E q \in Publisher : \E i \in DOMAIN sent'[q] : Number(sent'[q][i]) = n
    BY <1>2, <2>1 DEF OnTheWay
  <2>2. CASE \E i \in DOMAIN immediates' : Number(immediates'[i]) = n
    BY <1>4, <1>6, <2>2 DEF OnTheWay
  <2>3. QED
    BY <2>1, <2>2 DEF OnTheWay, Number
<1>8. OnTheWay(n) => OnTheWay(n)'
  <2>1. CASE \E q \in Publisher : \E i \in DOMAIN sent[q] : Number(sent[q][i]) = n
    BY <1>2, <1>6, <2>1 DEF OnTheWay, Number
  <2>2. CASE \E i \in DOMAIN immediates : Number(immediates[i]) = n
    BY <1>6, <2>2 DEF OnTheWay, Number
  <2>3. QED
    BY <2>1, <2>2 DEF OnTheWay
<1>9. QED
  BY <1>7, <1>8

(* A handled message is the first of its publisher on the way.             *)
LEMMA OnMessageWay ==
    ASSUME Flow, immediates # <<>>, NEW n \in Numbers, Number(Head(immediates)) = n,
           immediates' = Tail(immediates), sent' = sent, NEW k
    PROVE  /\ OnTheWay(k)' => OnTheWay(k)
           /\ OnTheWay(k) => OnTheWay(k)' \/ k = n
           /\ OnTheWay(k)' /\ PublisherOf(k) = PublisherOf(n) => n < k
           /\ OnTheWay(n)
<1>1. immediates \in Seq(WiredItems) /\ WaySound
  BY DEF Flow, Sorted
<1>2. PICK w, r : w = Head(immediates) /\ r = Tail(immediates)
  OBVIOUS
<1>3. /\ w = immediates[1] /\ 1 \in DOMAIN immediates
      /\ \A i \in DOMAIN r : i + 1 \in DOMAIN immediates /\ r[i] = immediates[i + 1]
      /\ \A i \in DOMAIN immediates : i # 1 => i - 1 \in DOMAIN r /\ r[i - 1] = immediates[i]
  BY <1>1, <1>2, Behind
<1>4. OnTheWay(k)' => OnTheWay(k)
  BY <1>2, <1>3 DEF OnTheWay, Number
<1>5. OnTheWay(k) => OnTheWay(k)' \/ k = n
  <2>1. CASE \E p \in Publisher : \E i \in DOMAIN sent[p] : Number(sent[p][i]) = k
    BY <2>1 DEF OnTheWay, Number
  <2>2. CASE \E i \in DOMAIN immediates : Number(immediates[i]) = k
    <3>1. PICK i \in DOMAIN immediates : Number(immediates[i]) = k
      BY <2>2
    <3>2. CASE i = 1
      BY <1>2, <1>3, <3>1, <3>2
    <3>3. CASE i # 1
      <4>1. i - 1 \in DOMAIN immediates' /\ Number(immediates'[i - 1]) = k
        BY <1>2, <1>3, <3>1, <3>3
      <4>2. QED
        BY <4>1 DEF OnTheWay, Number
    <3>4. QED
      BY <3>2, <3>3
  <2>3. QED
    BY <2>1, <2>2 DEF OnTheWay
<1>6. ASSUME OnTheWay(k)', PublisherOf(k) = PublisherOf(n) PROVE n < k
  <2>1. w.metadata.publisherId = PublisherOf(n) /\ Number(w) = n
    BY <1>1, <1>2, <1>3, PublishedFacts, WiredFacts DEF WaySound, IsWired, Flow, PublisherOf
  <2>2. CASE \E p \in Publisher : \E i \in DOMAIN sent[p] : Number(sent[p][i]) = k
    <3>1. PICK p \in Publisher : \E i \in DOMAIN sent[p] : Number(sent[p][i]) = k
      BY <2>2
    <3>2. PICK i \in DOMAIN sent[p] : Number(sent[p][i]) = k
      BY <3>1
    <3>3. IsWired(sent[p][i]) /\ sent[p][i].metadata.publisherId = p /\ AheadOf(p, sent[p])
      BY <1>1 DEF WaySound, SentBy
    <3>4. PublisherOf(k) = p
      BY <3>2, <3>3, PublishedFacts, WiredFacts DEF IsWired, Flow, PublisherOf
    <3>5. QED
      BY <1>3, <1>6, <2>1, <3>2, <3>3, <3>4 DEF AheadOf
  <2>3. CASE \E i \in DOMAIN r : Number(r[i]) = k
    <3>1. PICK i \in DOMAIN r : Number(r[i]) = k
      BY <2>3
    <3>2. IsWired(r[i])
      BY <1>1, <1>3 DEF WaySound
    <3>3. r[i].metadata.publisherId = PublisherOf(k)
      BY <3>1, <3>2, PublishedFacts, WiredFacts DEF IsWired, Flow, PublisherOf
    <3>4. QED
      BY <1>1, <1>2, <1>6, <2>1, <3>1, <3>3, AscendingRest DEF WaySound
  <2>4. QED
    BY <1>2, <1>6, <2>2, <2>3 DEF OnTheWay, Number
<1>7. QED
  BY <1>2, <1>3, <1>4, <1>5, <1>6 DEF OnTheWay

-------------------------------------------------------------------------------
(* Nothing that the listener should hear of goes missing.                  *)
LEMMA SameTable ==
    ASSUME db' = db, NEW n, TypeOf(n)' = TypeOf(n)
    PROVE  InDatabase(n)' = InDatabase(n)
BY DEF InDatabase, Number

LEMMA SameWaiting ==
    ASSUME transactions' = transactions, NEW n
    PROVE  Waiting(n)' = Waiting(n)
BY DEF Waiting

LEMMA InitKept == Init => Kept /\ LatestSound
BY DEF Init, Kept, LatestSound, Numbers

LEMMA PublishKeepsKept ==
    ASSUME Flow, Kept, LatestSound, NEW b \in Bodied, Publish(b[1], b[2])
    PROVE  Kept' /\ LatestSound'
<1>1. PICK item \in Items, p \in Publisher, t \in MessageType :
        /\ published' = Append(published, item)
        /\ Number(item) = Len(published) + 1
        /\ sent' = [sent EXCEPT ![p] = Append(sent[p], Wired(item))]
        /\ UNCHANGED <<immediates, transactions, db, _latestTimestamp, recovered, lost>>
  BY PublishStep DEF Flow
<1>2. PICK k : k = Len(published) + 1
  OBVIOUS
<1>3. /\ Numbers' = Numbers \union {k} /\ k \notin Numbers
      /\ \A n \in Numbers : TypeOf(n)' = TypeOf(n) /\ PublisherOf(n)' = PublisherOf(n) /\ n < k
  BY <1>1, <1>2, PublishedMore DEF Flow
<1>4. \A n : OnTheWay(n)' <=> OnTheWay(n) \/ n = k
  BY <1>1, <1>2, PublishWay
<1>5. Kept'
  <2>1. ASSUME NEW n \in Numbers', TypeOf(n)' \in Listened
        PROVE  /\ n \in lost' \/ OnTheWay(n)' \/ Waiting(n)' \/ InDatabase(n)'
               /\ n <= recovered' => InDatabase(n)'
    <3>1. CASE n \in Numbers
      BY <1>1, <1>3, <1>4, <2>1, <3>1, SameTable, SameWaiting DEF Kept
    <3>2. CASE n = k
      <4>1. ~ (k <= recovered)
        BY <1>2 DEF Flow, Sorted
      <4>2. QED
        BY <1>1, <1>4, <3>2, <4>1
    <3>3. QED
      BY <1>3, <2>1, <3>1, <3>2
  <2>2. QED
    BY <2>1 DEF Kept
<1>6. LatestSound'
  BY <1>1, <1>3, <1>4 DEF LatestSound
<1>7. QED
  BY <1>5, <1>6

(* An action that publishes nothing, and after which no more is on its way.*)
LEMMA LatestStays ==
    ASSUME LatestSound, published' = published, _latestTimestamp' = _latestTimestamp,
           \A n : OnTheWay(n)' => OnTheWay(n)
    PROVE  LatestSound'
BY SameHeard DEF LatestSound

LEMMA LoseKeepsKept ==
    ASSUME Flow, Kept, LatestSound, NEW p \in Publisher, Lose(p)
    PROVE  Kept' /\ LatestSound'
<1>1. UNCHANGED <<published, transactions, db, _latestTimestamp, recovered>>
  BY DEF Lose
<1>2. \A n : /\ OnTheWay(n)' => OnTheWay(n)
             /\ OnTheWay(n) => OnTheWay(n)' \/ n \in lost'
             /\ lost \subseteq lost'
  BY LoseWay
<1>3. Kept'
  BY <1>1, <1>2, SameHeard, SameTable, SameWaiting DEF Kept
<1>4. QED
  BY <1>1, <1>2, <1>3, LatestStays

LEMMA DeliverKeepsKept ==
    ASSUME Flow, Kept, LatestSound, NEW p \in Publisher, Deliver(p)
    PROVE  Kept' /\ LatestSound'
<1>1. UNCHANGED <<published, transactions, db, _latestTimestamp, recovered, lost>>
  BY DEF Deliver
<1>2. \A n : OnTheWay(n)' <=> OnTheWay(n)
  BY DeliverWay
<1>3. Kept'
  BY <1>1, <1>2, SameHeard, SameTable, SameWaiting DEF Kept
<1>4. QED
  BY <1>1, <1>2, <1>3, LatestStays

LEMMA OnMessageKeepsKept ==
    ASSUME Flow, Kept, LatestSound, OnMessage
    PROVE  Kept' /\ LatestSound'
<1>1. PICK n \in Numbers, p \in Publisher, t \in MessageType :
        /\ immediates # <<>> /\ Number(Head(immediates)) = n
        /\ t = TypeOf(n)
        /\ immediates' = Tail(immediates)
        /\ IF t \in Listened
           THEN /\ _latestTimestamp' = Stamp[n]
                /\ transactions' = Append(transactions, Heard(published[n]))
           ELSE UNCHANGED <<_latestTimestamp, transactions>>
        /\ UNCHANGED <<published, sent, db, recovered, lost>>
  BY HandleStep
<1>2. \A k : /\ OnTheWay(k)' => OnTheWay(k)
             /\ OnTheWay(k) => OnTheWay(k)' \/ k = n
             /\ OnTheWay(k)' /\ PublisherOf(k) = PublisherOf(n) => n < k
  BY <1>1, OnMessageWay
<1>3. transactions \in Seq(HeardItems)
  BY DEF Flow, Sorted
<1>4. \A k : Waiting(k) => Waiting(k)'
  <2>1. CASE t \in Listened
    <3>1. PICK m : m = Heard(published[n])
      OBVIOUS
    <3>2. transactions' = Append(transactions, m)
      BY <1>1, <2>1, <3>1
    <3>3. \A i \in DOMAIN transactions : i \in DOMAIN transactions'
                                         /\ transactions'[i] = transactions[i]
      BY <1>3, <3>2
    <3>4. QED
      BY <3>3 DEF Waiting
  <2>2. CASE t \notin Listened
    BY <1>1, <2>2, SameWaiting
  <2>3. QED
    BY <2>1, <2>2
<1>5. t \in Listened => Waiting(n)'
  <2>1. SUFFICES ASSUME t \in Listened PROVE Waiting(n)'
    OBVIOUS
  <2>2. PICK m : m = Heard(published[n])
    OBVIOUS
  <2>3. m.metadata.sequenceNumber = n
    BY <1>1, <2>1, <2>2, HeardIs DEF Flow, Number
  <2>4. transactions' = Append(transactions, m)
    BY <1>1, <2>1, <2>2
  <2>5. Len(transactions) + 1 \in DOMAIN transactions' /\ transactions'[Len(transactions) + 1] = m
    BY <1>3, <2>4
  <2>6. QED
    BY <2>3, <2>5 DEF Waiting
<1>6. Kept'
  BY <1>1, <1>2, <1>4, <1>5, SameHeard, SameTable DEF Kept
<1>7. LatestSound'
  <2>1. CASE t \in Listened
    <3>1. \A k \in Numbers' : OnTheWay(k)' /\ PublisherOf(k)' = PublisherOf(n)' => n < k
      BY <1>1, <1>2, SameHeard
    <3>2. n \in Numbers' /\ Stamp[n] = _latestTimestamp'
      BY <1>1, <2>1, SameHeard
    <3>3. QED
      BY <3>1, <3>2 DEF LatestSound
  <2>2. CASE t \notin Listened
    BY <1>1, <1>2, <2>2, LatestStays
  <2>3. QED
    BY <2>1, <2>2
<1>8. QED
  BY <1>6, <1>7

LEMMA StoreKeepsKept ==
    ASSUME Flow, Kept, LatestSound, Store
    PROVE  Kept' /\ LatestSound'
<1>1. PICK n \in Numbers, t \in Listened :
        /\ TypeOf(n) = t /\ transactions # <<>> /\ Number(Head(transactions)) = n
        /\ Storing(n)
        /\ transactions' = Tail(transactions)
        /\ UNCHANGED <<published, sent, immediates, _latestTimestamp, recovered, lost>>
  BY StoreStep DEF Storing
<1>2. InDatabase(n)' /\ \A k \in Numbers : TypeOf(k) \in Listened /\ InDatabase(k) => InDatabase(k)'
  BY <1>1, StoringKeeps
<1>3. \A k : Waiting(k) => Waiting(k)' \/ k = n
  <2>1. transactions \in Seq(HeardItems)
    BY DEF Flow, Sorted
  <2>2. /\ Head(transactions) = transactions[1]
        /\ \A i \in DOMAIN transactions : i # 1 => i - 1 \in DOMAIN transactions'
                                                   /\ transactions'[i - 1] = transactions[i]
    BY <1>1, <2>1, Behind
  <2>3. ASSUME NEW k, NEW i \in DOMAIN transactions, transactions[i].metadata.sequenceNumber = k
        PROVE  Waiting(k)' \/ k = n
    <3>1. CASE i = 1
      BY <1>1, <2>2, <2>3, <3>1 DEF Number
    <3>2. CASE i # 1
      BY <2>2, <2>3, <3>2 DEF Waiting
    <3>3. QED
      BY <3>1, <3>2
  <2>4. QED
    BY <2>3 DEF Waiting
<1>4. \A k : OnTheWay(k)' = OnTheWay(k)
  BY <1>1, SameOnTheWay
<1>5. Kept'
  BY <1>1, <1>2, <1>3, <1>4, SameHeard DEF Kept
<1>6. QED
  BY <1>1, <1>4, <1>5, LatestStays

LEMMA RecoverKeepsKept ==
    ASSUME Flow, Kept, LatestSound, Recover
    PROVE  Kept' /\ LatestSound'
<1>1. PICK n \in Numbers :
        /\ n = recovered + 1 /\ recovered' = n
        /\ IF TypeOf(n) \in Listened THEN Storing(n) ELSE db' = db
        /\ UNCHANGED <<published, sent, immediates, transactions, _latestTimestamp, lost>>
  BY RecoverStep DEF Storing
<1>2. /\ TypeOf(n) \in Listened => InDatabase(n)'
      /\ \A k \in Numbers : TypeOf(k) \in Listened /\ InDatabase(k) => InDatabase(k)'
  <2>1. CASE TypeOf(n) \in Listened
    BY <1>1, <2>1, StoringKeeps
  <2>2. CASE TypeOf(n) \notin Listened
    BY <1>1, <2>2, SameHeard, SameTable
  <2>3. QED
    BY <2>1, <2>2
<1>3. \A k : OnTheWay(k)' = OnTheWay(k) /\ Waiting(k)' = Waiting(k)
  BY <1>1, SameOnTheWay, SameWaiting
<1>4. \A k \in Numbers : k <= recovered' => k <= recovered \/ k = n
  BY <1>1 DEF Flow, Sorted, Numbers
<1>5. Kept'
  BY <1>1, <1>2, <1>3, <1>4, SameHeard DEF Kept
<1>6. QED
  BY <1>1, <1>3, <1>5, LatestStays

LEMMA SameKept ==
    ASSUME Kept, LatestSound, UNCHANGED <<published, sent, immediates, transactions, db,
                                          _latestTimestamp, recovered, lost>>
    PROVE  Kept' /\ LatestSound'
<1>1. \A k : /\ OnTheWay(k)' = OnTheWay(k) /\ Waiting(k)' = Waiting(k)
             /\ InDatabase(k)' = InDatabase(k)
  BY SameOnTheWay, SameWaiting, SameTable, SameHeard
<1>2. Kept'
  BY <1>1, SameHeard DEF Kept
<1>3. QED
  BY <1>1, <1>2, LatestStays

LEMMA KeptStep == Flow /\ Kept /\ LatestSound /\ [Next]_vars => Kept' /\ LatestSound'
<1>1. SUFFICES ASSUME Flow, Kept, LatestSound, [Next]_vars PROVE Kept' /\ LatestSound'
  OBVIOUS
<1>2. ASSUME NEW n \in DOMAIN Bodies, NEW b \in Bodies[n], Publish(b[1], b[2])
      PROVE  Kept' /\ LatestSound'
  BY <1>1, <1>2, PublishKeepsKept DEF Bodied
<1>3. CASE \E p \in Publisher : Lose(p)
  BY <1>1, <1>3, LoseKeepsKept
<1>4. CASE \E p \in Publisher : Deliver(p)
  BY <1>1, <1>4, DeliverKeepsKept
<1>5. CASE OnRecoveryMessage \/ Complete
  BY <1>1, <1>5, SameKept DEF OnRecoveryMessage, Complete
<1>6. CASE UNCHANGED vars
  BY <1>1, <1>6, SameKept DEF vars
<1>7. QED
  BY <1>1, <1>2, <1>3, <1>4, <1>5, <1>6, OnMessageKeepsKept, StoreKeepsKept, RecoverKeepsKept
     DEF Next, Listening

(* What is in the database has an entry.                                   *)
LEMMA EntryOf ==
    ASSUME NEW n \in Numbers, TypeOf(n) \in Listened, InDatabase(n)
    PROVE  EntriesFor(n) # {}
<1>1. PICK table : table = db[TypeOf(n)]
  OBVIOUS
<1>2. PICK key, i : key \in DOMAIN table /\ i \in DOMAIN table[key] /\ Number(table[key][i].message) = n
  BY <1>1 DEF InDatabase
<1>3. Published(n)
  BY DEF Published, Numbers, TypeOf
<1>4. <<key, i>> \in UNION {{k} \X DOMAIN table[k] : k \in DOMAIN table}
  BY <1>2
<1>5. PICK e : e = <<key, i>>
  OBVIOUS
<1>6. table[e[1]][e[2]].message.metadata.sequenceNumber = n
  BY <1>2, <1>5 DEF Number
<1>7. e \in EntriesFor(n)
  BY <1>1, <1>3, <1>4, <1>5, <1>6 DEF EntriesFor, TypeOf
<1>8. QED
  BY <1>7

LEMMA EarlierStamp ==
    ASSUME Sorted, NEW n \in Numbers, NEW k \in Numbers, Stamp[n] < Stamp[k]
    PROVE  n < k
<1>1. n \in 1 .. MaxPublished /\ k \in 1 .. MaxPublished
  BY StampAssumption DEF Sorted, Numbers
<1>2. Stamp[n] \in Nat /\ Stamp[k] \in Nat
  BY <1>1, StampAssumption
<1>3. k <= n => Stamp[k] <= Stamp[n]
  BY <1>1, StampAssumption
<1>4. QED
  BY <1>1, <1>2, <1>3

LEMMA HeardHolds == Flow /\ Kept /\ LatestSound => HeardIsStored
<1>1. SUFFICES ASSUME Flow, Kept, LatestSound PROVE HeardIsStored
  OBVIOUS
<1>2. Sorted
  BY <1>1 DEF Flow
<1>3. recovered \in Nat /\ (recovered # 0 => recovered \in Numbers) /\ isComplete \in BOOLEAN
  BY <1>2 DEF Sorted, Numbers
<1>4. \A n \in Numbers : Stamp[n] \in Nat \ {0}
  <2>1. \A n \in Numbers : n \in 1 .. MaxPublished
    BY <1>2, StampAssumption DEF Sorted, Numbers
  <2>2. QED
    BY <2>1, StampAssumption
<1>5. ASSUME NEW n \in Numbers, Published(n), Stamp[n] < ProgressTimestamp
      PROVE  EntriesFor(n) # {}
  <2>1. recovered # 0 /\ Stamp[n] < Stamp[recovered]
    BY <1>4, <1>5 DEF ProgressTimestamp
  <2>2. n < recovered
    BY <1>2, <1>3, <2>1, EarlierStamp
  <2>3. TypeOf(n) \in Listened
    BY <1>5 DEF Published, TypeOf
  <2>4. InDatabase(n)
    BY <1>1, <1>3, <2>2, <2>3 DEF Kept, Numbers
  <2>5. QED
    BY <2>3, <2>4, EntryOf
<1>6. CASE ~isComplete
  BY <1>5, <1>6 DEF HeardIsStored, Before, latestTimestamp, Numbers
<1>7. CASE isComplete
  <2>1. PICK l : l = latestTimestamp
    OBVIOUS
  <2>2. SUFFICES ASSUME l > 0
                 PROVE  \E k \in Numbers :
                          /\ Stamp[k] = l
                          /\ \A n \in Numbers : Before(n) /\ PublisherOf(n) = PublisherOf(k)
                               => EntriesFor(n) # {} \/ Waiting(n) \/ n \in lost
    BY <1>7, <2>1 DEF HeardIsStored, Numbers, PublisherOf
  <2>3. _latestTimestamp \in Nat
    BY <1>2 DEF Sorted
  <2>4. CASE l = ProgressTimestamp
    <3>1. recovered \in Numbers /\ Stamp[recovered] = l
      BY <1>3, <2>2, <2>4 DEF ProgressTimestamp
    <3>2. \A n \in Numbers : Before(n) => EntriesFor(n) # {}
      BY <1>5, <2>1, <2>4 DEF Before
    <3>3. QED
      BY <3>1, <3>2
  <2>5. CASE l # ProgressTimestamp
    <3>1. l = _latestTimestamp
      BY <1>7, <2>1, <2>5 DEF latestTimestamp
    <3>2. PICK k \in Numbers :
            /\ Stamp[k] = _latestTimestamp
            /\ \A n \in Numbers : OnTheWay(n) /\ PublisherOf(n) = PublisherOf(k) => k < n
      BY <1>1, <2>2, <2>3, <3>1 DEF LatestSound
    <3>3. ASSUME NEW n \in Numbers, Before(n), PublisherOf(n) = PublisherOf(k)
          PROVE  EntriesFor(n) # {} \/ Waiting(n) \/ n \in lost
      <4>1. Stamp[n] < Stamp[k] /\ Published(n)
        BY <2>1, <3>1, <3>2, <3>3 DEF Before
      <4>2. n < k
        BY <1>2, <4>1, EarlierStamp
      <4>3. ~OnTheWay(n)
        BY <3>2, <3>3, <4>2 DEF Numbers
      <4>4. TypeOf(n) \in Listened
        BY <4>1 DEF Published, TypeOf
      <4>5. QED
        BY <1>1, <4>3, <4>4, EntryOf DEF Kept
    <3>4. QED
      BY <3>1, <3>2, <3>3
  <2>6. QED
    BY <2>4, <2>5
<1>8. QED
  BY <1>3, <1>6, <1>7

-------------------------------------------------------------------------------
(* The metrics count no more than what was lost.                           *)
LEMMA SameOf ==
    ASSUME published' = published, NEW p, NEW t
    PROVE  Of(p, t)' = Of(p, t)
BY SameHeard DEF Of

LEMMA LostFinite ==
    ASSUME Flow, NEW S, S \subseteq lost
    PROVE  IsFiniteSet(S)
<1>1. lost \subseteq Numbers /\ published \in Seq(Items)
  BY DEF Flow, Sorted
<1>2. Len(published) \in Nat
  BY <1>1
<1>3. IsFiniteSet(1 .. Len(published))
  BY <1>2, FS_Interval
<1>4. S \subseteq 1 .. Len(published)
  BY <1>1 DEF Numbers
<1>5. QED
  BY <1>3, <1>4, FS_Subset

LEMMA InitMetrics == Init => CountersSound /\ MetricsSound
<1>1. SUFFICES ASSUME Init PROVE CountersSound /\ MetricsSound
  OBVIOUS
<1>2. Numbers = {} /\ \A t : Missed(t) = {}
  BY <1>1 DEF Init, Numbers, Missed
<1>3. CountersSound
  BY <1>2 DEF CountersSound, Of
<1>4. MetricsSound
  <2>1. \A p \in Publisher, t \in Counted : seqNums[t][p] = 0
    BY <1>1 DEF Init, NoSeqNum, Counted
  <2>2. \A t \in Counted : lostCount[t] <= Cardinality(Missed(t))
    <3>1. \A t \in Counted : lostCount[t] = 0
      BY <1>1 DEF Init, Counted
    <3>2. Cardinality({}) = 0
      BY FS_EmptySet
    <3>3. QED
      BY <1>2, <3>1, <3>2
  <2>3. QED
    BY <1>2, <2>1, <2>2 DEF MetricsSound
<1>5. QED
  BY <1>3, <1>4

LEMMA SameCounters ==
    ASSUME CountersSound, published' = published, counter' = counter
    PROVE  CountersSound'
BY SameHeard, SameOf DEF CountersSound

LEMMA PublishKeepsMetrics ==
    ASSUME Flow, CountersSound, MetricsSound, NEW b \in Bodied, Publish(b[1], b[2])
    PROVE  CountersSound' /\ MetricsSound'
<1>1. PICK item \in Items, p \in Publisher, t \in MessageType :
        /\ published' = Append(published, item)
        /\ Number(item) = Len(published) + 1
        /\ item.metadata.publisherId = p /\ item.content.messageType = t
        /\ item.content.seqNum = counter[p][t]
        /\ sent' = [sent EXCEPT ![p] = Append(sent[p], Wired(item))]
        /\ counter' = [counter EXCEPT ![p][t] = counter[p][t] + 1]
        /\ UNCHANGED <<immediates, seqNums, lostCount, lost>>
  BY PublishStep DEF Flow
<1>2. PICK k, c : k = Len(published) + 1 /\ c = counter[p][t]
  OBVIOUS
<1>3. /\ Numbers' = Numbers \union {k} /\ k \notin Numbers
      /\ \A n \in Numbers : /\ TypeOf(n)' = TypeOf(n) /\ PublisherOf(n)' = PublisherOf(n)
                            /\ SeqNumOf(n)' = SeqNumOf(n) /\ n < k
      /\ TypeOf(k)' = t /\ PublisherOf(k)' = p /\ SeqNumOf(k)' = c
  BY <1>1, <1>2, PublishedMore DEF Flow
<1>4. \A n : OnTheWay(n)' <=> OnTheWay(n) \/ n = k
  BY <1>1, <1>2, PublishWay
<1>5. Sorted /\ counter \in [Publisher -> [MessageType -> Nat]] /\ lost \subseteq Numbers
  BY DEF Flow, Sorted
<1>6. /\ c \in Nat /\ counter'[p][t] = c + 1
      /\ \A q \in Publisher, u \in MessageType : ~ (q = p /\ u = t) => counter'[q][u] = counter[q][u]
  BY <1>1, <1>2, <1>5
<1>7. \A q, u : Of(q, u)' = IF q = p /\ u = t THEN Of(q, u) \union {k} ELSE Of(q, u)
  BY <1>3 DEF Of
<1>8. \A q, u : \A n \in Of(q, u) : n \in Numbers /\ SeqNumOf(n)' = SeqNumOf(n)
                                    /\ SeqNumOf(n) \in Nat /\ n < k /\ n \in Nat
  BY <1>3, PublishedFacts DEF Of, Flow, Numbers
<1>9. CountersSound'
  <2>1. ASSUME NEW q \in Publisher, NEW u \in MessageType
        PROVE  /\ \A n \in Of(q, u)' :
                    /\ SeqNumOf(n)' < counter'[q][u]
                    /\ \A x \in SeqNumOf(n)' .. counter'[q][u] - 1 :
                         \E m \in Of(q, u)' : SeqNumOf(m)' = x
               /\ \A m, n \in Of(q, u)' : m < n => SeqNumOf(m)' < SeqNumOf(n)'
    <3>1. /\ \A n \in Of(q, u) :
               /\ SeqNumOf(n) < counter[q][u]
               /\ \A x \in SeqNumOf(n) .. counter[q][u] - 1 : \E m \in Of(q, u) : SeqNumOf(m) = x
          /\ \A m, n \in Of(q, u) : m < n => SeqNumOf(m) < SeqNumOf(n)
      BY DEF CountersSound
    <3>2. CASE ~ (q = p /\ u = t)
      <4>1. Of(q, u)' = Of(q, u) /\ counter'[q][u] = counter[q][u]
        BY <1>6, <1>7, <3>2
      <4>2. QED
        BY <1>8, <3>1, <4>1
    <3>3. CASE q = p /\ u = t
      <4>1. Of(q, u)' = Of(q, u) \union {k} /\ counter'[q][u] = c + 1 /\ counter[q][u] = c
        BY <1>2, <1>6, <1>7, <3>3
      <4>2. ASSUME NEW n \in Of(q, u)'
            PROVE  /\ SeqNumOf(n)' < c + 1
                   /\ \A x \in SeqNumOf(n)' .. c : \E m \in Of(q, u)' : SeqNumOf(m)' = x
        <5>1. SeqNumOf(n)' \in Nat /\ SeqNumOf(n)' < c + 1
          BY <1>3, <1>6, <1>8, <3>1, <4>1, <4>2
        <5>2. ASSUME NEW x \in SeqNumOf(n)' .. c PROVE \E m \in Of(q, u)' : SeqNumOf(m)' = x
          <6>1. CASE x = c
            BY <1>3, <4>1, <6>1
          <6>2. CASE x # c
            <7>1. n \in Of(q, u)
              BY <1>3, <1>6, <4>1, <4>2, <5>2, <6>2
            <7>2. x \in SeqNumOf(n) .. c - 1
              BY <1>6, <1>8, <5>2, <6>2, <7>1
            <7>3. PICK m \in Of(q, u) : SeqNumOf(m) = x
              BY <3>1, <4>1, <7>1, <7>2
            <7>4. QED
              BY <1>8, <4>1, <7>3
          <6>3. QED
            BY <6>1, <6>2
        <5>3. QED
          BY <5>1, <5>2
      <4>3. ASSUME NEW m \in Of(q, u)', NEW n \in Of(q, u)', m < n
            PROVE  SeqNumOf(m)' < SeqNumOf(n)'
        <5>1. CASE m = k
          <6>1. n = k \/ n < k
            BY <1>8, <4>1, <4>3
          <6>2. k \in Nat /\ n \in Nat
            <7>1. k \in Nat
              BY <1>2, <1>5 DEF Sorted
            <7>2. n = k \/ n \in Nat
              BY <1>8, <4>1, <4>3
            <7>3. QED
              BY <7>1, <7>2
          <6>3. QED
            BY <4>3, <5>1, <6>1, <6>2
        <5>2. CASE m \in Of(q, u)
          BY <1>3, <1>8, <3>1, <4>1, <4>3, <5>2
        <5>3. QED
          BY <4>1, <4>3, <5>1, <5>2
      <4>4. (c + 1) - 1 = c
        BY <1>6
      <4>5. QED
        BY <4>1, <4>2, <4>3, <4>4
    <3>4. QED
      BY <3>2, <3>3
  <2>2. QED
    BY <2>1 DEF CountersSound
<1>10. MetricsSound'
  <2>1. ASSUME NEW q \in Publisher, NEW u \in Counted
        PROVE  \/ seqNums'[u][q] = 0
               \/ /\ \E n \in Of(q, u)' : SeqNumOf(n)' = seqNums'[u][q]
                  /\ \A n \in Of(q, u)' : OnTheWay(n)' => seqNums'[u][q] < SeqNumOf(n)'
    <3>1. SUFFICES ASSUME seqNums[u][q] # 0
                   PROVE  /\ \E n \in Of(q, u)' : SeqNumOf(n)' = seqNums[u][q]
                          /\ \A n \in Of(q, u)' : OnTheWay(n)' => seqNums[u][q] < SeqNumOf(n)'
      BY <1>1
    <3>2. /\ \E n \in Of(q, u) : SeqNumOf(n) = seqNums[u][q]
          /\ \A n \in Of(q, u) : OnTheWay(n) => seqNums[u][q] < SeqNumOf(n)
      BY <3>1 DEF MetricsSound
    <3>3. PICK l \in Of(q, u) : SeqNumOf(l) = seqNums[u][q]
      BY <3>2
    <3>4. \E n \in Of(q, u)' : SeqNumOf(n)' = seqNums[u][q]
      BY <1>7, <1>8, <3>3
    <3>5. ASSUME NEW n \in Of(q, u)', OnTheWay(n)' PROVE seqNums[u][q] < SeqNumOf(n)'
      <4>1. CASE n \in Of(q, u)
        BY <1>4, <1>8, <3>2, <3>5, <4>1
      <4>2. CASE n = k /\ q = p /\ u = t
        <5>1. SeqNumOf(l) < c
          BY <1>2, <3>3, <4>2 DEF CountersSound
        <5>2. QED
          BY <1>3, <3>3, <4>2, <5>1
      <4>3. QED
        BY <1>7, <3>5, <4>1, <4>2
    <3>6. QED
      BY <3>4, <3>5
  <2>2. \A n \in Numbers' :
          TypeOf(n)' \in Counted => \/ n \in lost' \/ OnTheWay(n)'
                                   \/ SeqNumOf(n)' <= seqNums'[TypeOf(n)'][PublisherOf(n)']
    BY <1>1, <1>3, <1>4 DEF MetricsSound
  <2>3. \A u \in Counted : Missed(u)' = Missed(u)
    BY <1>1, <1>3, <1>5 DEF Missed
  <2>4. QED
    BY <1>1, <2>1, <2>2, <2>3 DEF MetricsSound
<1>11. QED
  BY <1>9, <1>10

(* An action that counts nothing but recovery messages, after which no more*)
(* is on its way, and no less but what is lost or such a message.          *)
LEMMA MetricsStay ==
    ASSUME Flow, CountersSound, MetricsSound, published' = published, counter' = counter,
           \A t \in Counted : seqNums'[t] = seqNums[t] /\ lostCount'[t] = lostCount[t],
           lost \subseteq lost', Flow',
           \A n : OnTheWay(n)' => OnTheWay(n),
           \A n : OnTheWay(n) /\ TypeOf(n) \in Counted => OnTheWay(n)' \/ n \in lost'
    PROVE  CountersSound' /\ MetricsSound'
<1>1. \A p \in Publisher, t \in Counted :
        \/ seqNums'[t][p] = 0
        \/ /\ \E n \in Of(p, t)' : SeqNumOf(n)' = seqNums'[t][p]
           /\ \A n \in Of(p, t)' : OnTheWay(n)' => seqNums'[t][p] < SeqNumOf(n)'
  BY SameHeard, SameOf DEF MetricsSound
<1>2. \A n \in Numbers' :
        TypeOf(n)' \in Counted => \/ n \in lost' \/ OnTheWay(n)'
                                 \/ SeqNumOf(n)' <= seqNums'[TypeOf(n)'][PublisherOf(n)']
  BY SameHeard DEF MetricsSound
<1>3. ASSUME NEW t \in Counted PROVE lostCount'[t] <= Cardinality(Missed(t)')
  <2>1. Missed(t) \subseteq Missed(t)'
    BY SameHeard DEF Missed
  <2>2. IsFiniteSet(Missed(t)')
    <3>1. Missed(t)' \subseteq lost'
      BY DEF Missed
    <3>2. lost' \subseteq 1 .. Len(published') /\ Len(published') \in Nat
      BY DEF Flow, Sorted, Numbers
    <3>3. IsFiniteSet(1 .. Len(published'))
      BY <3>2, FS_Interval
    <3>4. QED
      BY <3>1, <3>2, <3>3, FS_Subset
  <2>3. Cardinality(Missed(t)) <= Cardinality(Missed(t)') /\ Cardinality(Missed(t)') \in Nat
    BY <2>1, <2>2, FS_Subset, FS_CardinalityType
  <2>4. Cardinality(Missed(t)) \in Nat
    <3>1. Missed(t) \subseteq lost
      BY DEF Missed
    <3>2. QED
      BY <3>1, LostFinite, FS_CardinalityType
  <2>5. lostCount[t] \in Nat /\ lostCount[t] <= Cardinality(Missed(t)) /\ lostCount'[t] = lostCount[t]
    BY DEF Flow, Sorted, MetricsSound, Counted
  <2>6. QED
    BY <2>3, <2>4, <2>5
<1>4. MetricsSound'
  BY <1>1, <1>2, <1>3 DEF MetricsSound
<1>5. QED
  BY <1>4, SameCounters

(* A gap in the numbers is of messages that were lost, and not counted.    *)
LEMMA GapMissed ==
    ASSUME NEW S, NEW T, IsFiniteSet(T), S \subseteq T, NEW a \in Nat, NEW b \in Nat, a < b,
           \A x \in a + 1 .. b - 1 : \E m \in T \ S : SeqNumOf(m) = x
    PROVE  Cardinality(S) + (b - a - 1) <= Cardinality(T) /\ Cardinality(S) \in Nat
           /\ Cardinality(T) \in Nat
<1>1. PICK I : I = a + 1 .. b - 1
  OBVIOUS
<1>2. IsFiniteSet(I) /\ Cardinality(I) = b - a - 1
  <2>1. a + 1 \in Int /\ b - 1 \in Int
    OBVIOUS
  <2>2. IsFiniteSet(a + 1 .. b - 1)
        /\ Cardinality(a + 1 .. b - 1) = IF a + 1 > b - 1 THEN 0 ELSE (b - 1) - (a + 1) + 1
    BY <2>1, FS_Interval
  <2>3. QED
    BY <1>1, <2>2
<1>3. PICK D : D = {m \in T \ S : SeqNumOf(m) \in I}
  OBVIOUS
<1>4. IsFiniteSet(D)
  BY <1>3, FS_Subset
<1>5. PICK f : f = [m \in D |-> SeqNumOf(m)]
  OBVIOUS
<1>6. f \in Surjection(D, I)
  <2>1. f \in [D -> I] /\ \A x \in I : \E m \in D : f[m] = x
    BY <1>1, <1>3, <1>5
  <2>2. QED
    BY <2>1 DEF Surjection
<1>7. Cardinality(I) <= Cardinality(D)
  BY <1>4, <1>6, FS_Surjection
<1>8. IsFiniteSet(S)
  BY FS_Subset
<1>9. S \cup D \in SUBSET T /\ S \cap D = {}
  BY <1>3
<1>10. Cardinality(S \cup D) = Cardinality(S) + Cardinality(D) - Cardinality(S \cap D)
  BY <1>4, <1>8, FS_Union
<1>11. Cardinality(S \cup D) <= Cardinality(T)
  BY <1>9, FS_Subset
<1>12. Cardinality(S \cap D) = 0
  BY <1>9, FS_EmptySet
<1>13. Cardinality(S) \in Nat /\ Cardinality(D) \in Nat /\ Cardinality(T) \in Nat
  BY <1>4, <1>8, FS_CardinalityType
<1>14. QED
  BY <1>2, <1>7, <1>10, <1>11, <1>12, <1>13

(* The listener counts a message of a type that it alone counts.           *)
LEMMA CountingKeepsMetrics ==
    ASSUME Flow, CountersSound, MetricsSound,
           NEW n \in Numbers, NEW p \in Publisher, NEW t \in Counted,
           immediates # <<>>, Number(Head(immediates)) = n, p = PublisherOf(n), t = TypeOf(n),
           immediates' = Tail(immediates),
           lostCount' = [lostCount EXCEPT ![t] = lostCount[t] + Gap(seqNums[t][p], SeqNumOf(n))],
           seqNums' = [seqNums EXCEPT ![t][p] = SeqNumOf(n)],
           UNCHANGED <<counter, published, sent, lost>>
    PROVE  CountersSound' /\ MetricsSound'
<1>1. /\ immediates # <<>> /\ Number(Head(immediates)) = n
      /\ p = PublisherOf(n) /\ t = TypeOf(n) /\ t \in MessageType
      /\ immediates' = Tail(immediates)
      /\ lostCount' = [lostCount EXCEPT ![t] = lostCount[t] + Gap(seqNums[t][p], SeqNumOf(n))]
      /\ seqNums' = [seqNums EXCEPT ![t][p] = SeqNumOf(n)]
      /\ UNCHANGED <<counter, published, sent, lost>>
  BY DEF Counted
<1>2. PICK prev, s : prev = seqNums[t][p] /\ s = SeqNumOf(n)
  OBVIOUS
<1>3. /\ Sorted /\ seqNums \in [MessageType -> [Publisher -> Nat]]
      /\ lostCount \in [MessageType -> Nat]
  BY DEF Flow, Sorted
<1>4. /\ prev \in Nat /\ s \in Nat /\ seqNums'[t][p] = s
      /\ \A q \in Publisher, u \in MessageType :
           ~ (q = p /\ u = t) => seqNums'[u][q] = seqNums[u][q]
      /\ lostCount'[t] = lostCount[t] + Gap(prev, s)
      /\ \A u \in MessageType : u # t => lostCount'[u] = lostCount[u]
  <2>1. prev \in Nat /\ s \in Nat
    BY <1>1, <1>2, <1>3, PublishedFacts DEF Flow
  <2>2. QED
    BY <1>1, <1>2, <1>3, <2>1
<1>5. \A k : /\ OnTheWay(k)' => OnTheWay(k)
             /\ OnTheWay(k) => OnTheWay(k)' \/ k = n
             /\ OnTheWay(k)' /\ PublisherOf(k) = PublisherOf(n) => n < k
             /\ OnTheWay(n)
  BY <1>1, OnMessageWay
<1>6. n \in Of(p, t) /\ t \in MessageType
  BY <1>1 DEF Of
<1>7. \A k \in Numbers : k \in Nat /\ SeqNumOf(k) \in Nat
  BY PublishedFacts DEF Flow, Numbers
<1>8. \A k \in Of(p, t) : OnTheWay(k)' => s < SeqNumOf(k)
  BY <1>1, <1>2, <1>5, <1>6 DEF Of, CountersSound
<1>9. prev = 0 \/ prev < s
  BY <1>2, <1>5, <1>6 DEF MetricsSound
<1>10. \A q \in Publisher, u \in Counted :
        \/ seqNums'[u][q] = 0
        \/ /\ \E k \in Of(q, u)' : SeqNumOf(k)' = seqNums'[u][q]
           /\ \A k \in Of(q, u)' : OnTheWay(k)' => seqNums'[u][q] < SeqNumOf(k)'
  <2>1. TAKE q \in Publisher, u \in Counted
  <2>2. CASE q = p /\ u = t
    BY <1>1, <1>2, <1>4, <1>6, <1>8, <2>2, SameHeard, SameOf
  <2>3. CASE ~ (q = p /\ u = t)
    BY <1>1, <1>4, <1>5, <2>3, SameHeard, SameOf DEF MetricsSound, Counted
  <2>4. QED
    BY <2>2, <2>3
<1>11. \A k \in Numbers' :
         TypeOf(k)' \in Counted => \/ k \in lost' \/ OnTheWay(k)'
                                  \/ SeqNumOf(k)' <= seqNums'[TypeOf(k)'][PublisherOf(k)']
  <2>1. ASSUME NEW k \in Numbers, TypeOf(k) \in Counted
        PROVE  k \in lost \/ OnTheWay(k)' \/ SeqNumOf(k) <= seqNums'[TypeOf(k)][PublisherOf(k)]
    <3>1. PublisherOf(k) \in Publisher /\ TypeOf(k) \in MessageType
      BY PublishedFacts DEF Flow
    <3>2. \/ k \in lost \/ OnTheWay(k)' \/ k = n
          \/ SeqNumOf(k) <= seqNums[TypeOf(k)][PublisherOf(k)]
      BY <1>5, <2>1 DEF MetricsSound
    <3>3. CASE k = n
      BY <1>1, <1>2, <1>4, <3>3
    <3>4. CASE SeqNumOf(k) <= seqNums[TypeOf(k)][PublisherOf(k)]
      <4>1. CASE PublisherOf(k) = p /\ TypeOf(k) = t
        BY <1>2, <1>4, <1>7, <1>9, <3>4, <4>1
      <4>2. CASE ~ (PublisherOf(k) = p /\ TypeOf(k) = t)
        BY <1>4, <3>1, <3>4, <4>2
      <4>3. QED
        BY <4>1, <4>2
    <3>5. QED
      BY <3>2, <3>3, <3>4
  <2>2. QED
    BY <1>1, <2>1, SameHeard
<1>12. ASSUME NEW u \in Counted PROVE lostCount'[u] <= Cardinality(Missed(u)')
  <2>1. CASE u # t
    <3>1. \A k \in lost : TypeOf(k) = u => seqNums'[u][PublisherOf(k)] = seqNums[u][PublisherOf(k)]
      BY <1>3, <1>4, <2>1, PublishedFacts DEF Flow, Sorted
    <3>2. Missed(u)' = Missed(u)
      BY <1>1, <3>1, SameHeard DEF Missed
    <3>3. QED
      BY <1>4, <2>1, <3>2 DEF MetricsSound, Counted
  <2>2. CASE u = t
    <3>1. PICK S, T : S = Missed(t) /\ T = Missed(t)'
      OBVIOUS
    <3>2. S \subseteq T
      <4>1. ASSUME NEW k \in lost, TypeOf(k) = t, SeqNumOf(k) < seqNums[t][PublisherOf(k)]
            PROVE  SeqNumOf(k) < seqNums'[t][PublisherOf(k)]
        <5>1. PublisherOf(k) \in Publisher /\ SeqNumOf(k) \in Nat
          BY <1>3, PublishedFacts DEF Flow, Sorted
        <5>2. CASE PublisherOf(k) = p
          BY <1>2, <1>4, <1>9, <4>1, <5>1, <5>2
        <5>3. CASE PublisherOf(k) # p
          BY <1>4, <4>1, <5>1, <5>3
        <5>4. QED
          BY <5>2, <5>3
      <4>2. QED
        BY <1>1, <3>1, <4>1, SameHeard DEF Missed
    <3>3. IsFiniteSet(T)
      <4>1. T \subseteq lost
        BY <1>1, <3>1 DEF Missed
      <4>2. QED
        BY <4>1, LostFinite
    <3>4. Cardinality(S) <= Cardinality(T) /\ Cardinality(S) \in Nat /\ Cardinality(T) \in Nat
      BY <3>2, <3>3, FS_Subset, FS_CardinalityType
    <3>5. lostCount[t] \in Nat /\ lostCount[t] <= Cardinality(S)
      BY <1>3, <1>6, <3>1 DEF MetricsSound
    <3>6. CASE prev = 0 \/ ~ (s - prev > 1)
      <4>1. Gap(prev, s) = 0
        BY <3>6 DEF Gap, NoSeqNum
      <4>2. QED
        BY <1>4, <2>2, <3>1, <3>4, <3>5, <4>1
    <3>7. CASE prev # 0 /\ s - prev > 1
      <4>1. Gap(prev, s) = s - prev - 1
        BY <3>7 DEF Gap, NoSeqNum
      <4>2. \A x \in prev + 1 .. s - 1 : \E m \in T \ S : SeqNumOf(m) = x
        <5>1. TAKE x \in prev + 1 .. s - 1
        <5>2. PICK l \in Of(p, t) : SeqNumOf(l) = prev
          BY <1>2, <3>7 DEF MetricsSound
        <5>3. s < counter[p][t] /\ counter[p][t] \in Nat
          BY <1>2, <1>3, <1>6 DEF CountersSound, Sorted
        <5>4. x \in SeqNumOf(l) .. counter[p][t] - 1
          BY <1>4, <5>2, <5>3
        <5>5. PICK m \in Of(p, t) : SeqNumOf(m) = x
          BY <1>6, <5>2, <5>4 DEF CountersSound
        <5>6. ~OnTheWay(m)
          <6>1. SUFFICES ASSUME OnTheWay(m) PROVE FALSE
            OBVIOUS
          <6>2. m # n
            BY <1>2, <1>4, <5>1, <5>5
          <6>3. OnTheWay(m)'
            BY <1>5, <6>1, <6>2
          <6>4. s < x
            BY <1>8, <5>5, <6>3
          <6>5. QED
            BY <1>4, <5>1, <6>4
        <5>7. m \in lost
          BY <1>2, <1>4, <5>1, <5>5, <5>6 DEF MetricsSound, Of
        <5>8. m \in T
          BY <1>1, <1>4, <3>1, <5>1, <5>5, <5>7, SameHeard DEF Missed, Of
        <5>9. m \notin S
          BY <1>2, <1>4, <3>1, <5>1, <5>5 DEF Missed, Of
        <5>10. QED
          BY <5>5, <5>8, <5>9
      <4>3. Cardinality(S) + (s - prev - 1) <= Cardinality(T)
        BY <1>4, <3>2, <3>3, <3>7, <4>2, GapMissed
      <4>4. QED
        BY <1>4, <2>2, <3>1, <3>4, <3>5, <4>1, <4>3
    <3>8. QED
      BY <3>6, <3>7
  <2>3. QED
    BY <2>1, <2>2
<1>13. MetricsSound'
  BY <1>10, <1>11, <1>12 DEF MetricsSound
<1>14. QED
  BY <1>1, <1>13, SameCounters

LEMMA OnMessageKeepsMetrics ==
    ASSUME Flow, Flow', CountersSound, MetricsSound, OnMessage
    PROVE  CountersSound' /\ MetricsSound'
<1>1. PICK n \in Numbers, p \in Publisher, t \in MessageType :
        /\ immediates # <<>> /\ Number(Head(immediates)) = n
        /\ p = PublisherOf(n) /\ t = TypeOf(n)
        /\ immediates' = Tail(immediates)
        /\ lostCount' = [lostCount EXCEPT ![t] = lostCount[t] + Gap(seqNums[t][p], SeqNumOf(n))]
        /\ seqNums' = [seqNums EXCEPT ![t][p] = SeqNumOf(n)]
        /\ UNCHANGED <<counter, published, sent, lost>>
  BY HandleStep
<1>2. CASE t \in Counted
  BY <1>1, <1>2, CountingKeepsMetrics
<1>3. CASE t \notin Counted
  <2>1. seqNums \in [MessageType -> [Publisher -> Nat]] /\ lostCount \in [MessageType -> Nat]
    BY DEF Flow, Sorted
  <2>2. \A u \in Counted : seqNums'[u] = seqNums[u] /\ lostCount'[u] = lostCount[u]
    BY <1>1, <1>3, <2>1 DEF Counted
  <2>3. \A k : /\ OnTheWay(k)' => OnTheWay(k)
               /\ OnTheWay(k) => OnTheWay(k)' \/ k = n
    BY <1>1, OnMessageWay
  <2>4. \A k : OnTheWay(k) /\ TypeOf(k) \in Counted => OnTheWay(k)' \/ k \in lost'
    BY <1>1, <1>3, <2>3
  <2>5. QED
    BY <1>1, <2>2, <2>3, <2>4, MetricsStay
<1>4. QED
  BY <1>2, <1>3

LEMMA MetricsStep ==
    Flow /\ CountersSound /\ MetricsSound /\ [Next]_vars => CountersSound' /\ MetricsSound'
<1>1. SUFFICES ASSUME Flow, CountersSound, MetricsSound, [Next]_vars
               PROVE  CountersSound' /\ MetricsSound'
  OBVIOUS
<1>2. Flow'
  BY <1>1, FlowStep
<1>3. ASSUME NEW n \in DOMAIN Bodies, NEW b \in Bodies[n], Publish(b[1], b[2])
      PROVE  CountersSound' /\ MetricsSound'
  BY <1>1, <1>3, PublishKeepsMetrics DEF Bodied
<1>4. ASSUME NEW p \in Publisher, Lose(p) PROVE CountersSound' /\ MetricsSound'
  <2>1. UNCHANGED <<published, counter, seqNums, lostCount>>
    BY <1>4 DEF Lose
  <2>2. /\ \A n : OnTheWay(n)' => OnTheWay(n)
        /\ \A n : OnTheWay(n) => OnTheWay(n)' \/ n \in lost'
        /\ lost \subseteq lost'
    BY <1>1, <1>4, LoseWay
  <2>3. QED
    BY <1>1, <1>2, <2>1, <2>2, MetricsStay
<1>5. ASSUME NEW p \in Publisher, Deliver(p) PROVE CountersSound' /\ MetricsSound'
  <2>1. UNCHANGED <<published, counter, seqNums, lostCount, lost>>
    BY <1>5 DEF Deliver
  <2>2. \A n : OnTheWay(n)' <=> OnTheWay(n)
    BY <1>1, <1>5, DeliverWay
  <2>3. QED
    BY <1>1, <1>2, <2>1, <2>2, MetricsStay
<1>6. ASSUME UNCHANGED <<published, sent, immediates, counter, lost>>,
             \A t \in Counted : seqNums'[t] = seqNums[t] /\ lostCount'[t] = lostCount[t]
      PROVE  CountersSound' /\ MetricsSound'
  <2>1. \A n : OnTheWay(n)' = OnTheWay(n)
    BY <1>6, SameOnTheWay
  <2>2. QED
    BY <1>1, <1>2, <1>6, <2>1, MetricsStay
<1>7. CASE Store \/ Recover
  BY <1>6, <1>7 DEF Store, Recover
<1>8. CASE OnRecoveryMessage \/ Complete
  <2>1. \A t \in Counted : seqNums'[t] = seqNums[t] /\ lostCount'[t] = lostCount[t]
    BY <1>1, <1>8, CountStep DEF OnRecoveryMessage, Complete, Flow
  <2>2. QED
    BY <1>6, <1>8, <2>1 DEF OnRecoveryMessage, Complete
<1>9. CASE UNCHANGED vars
  BY <1>6, <1>9 DEF vars
<1>10. QED
  BY <1>1, <1>2, <1>3, <1>4, <1>5, <1>7, <1>8, <1>9, OnMessageKeepsMetrics DEF Next, Listening

LEMMA LostHolds == Flow /\ MetricsSound => LostIsLost
<1>1. SUFFICES ASSUME Flow, MetricsSound, NEW t \in Counted
               PROVE  lostCount[t] <= Cardinality({n \in lost : published[n].content.messageType = t})
  BY DEF LostIsLost, Counted
<1>2. PICK S : S = {n \in lost : published[n].content.messageType = t}
  OBVIOUS
<1>3. Missed(t) \subseteq S
  BY <1>2 DEF Missed, TypeOf
<1>4. IsFiniteSet(S)
  <2>1. S \subseteq lost
    BY <1>2
  <2>2. QED
    BY <1>1, <2>1, LostFinite
<1>5. Cardinality(Missed(t)) <= Cardinality(S) /\ Cardinality(S) \in Nat
  BY <1>3, <1>4, FS_Subset, FS_CardinalityType
<1>6. Cardinality(Missed(t)) \in Nat
  <2>1. Missed(t) \subseteq lost
    BY DEF Missed
  <2>2. QED
    BY <1>1, <2>1, LostFinite, FS_CardinalityType
<1>7. lostCount[t] \in Nat /\ lostCount[t] <= Cardinality(Missed(t))
  BY <1>1 DEF Flow, Sorted, MetricsSound, Counted
<1>8. QED
  BY <1>2, <1>5, <1>6, <1>7

(* A message is in the database once, and as it was published.             *)
LEMMA OnceHolds == Flow => StoredOnce
<1>1. SUFFICES ASSUME Flow, NEW n \in Numbers, Published(n)
               PROVE  /\ Cardinality(EntriesFor(n)) <= 1
                      /\ \A e \in EntriesFor(n) :
                           db[published[n].content.messageType][e[1]][e[2]].message =
                             [published[n] EXCEPT !.content = AsRead(published[n].content)]
  BY DEF StoredOnce, Numbers
<1>2. PICK table : table = db[TypeOf(n)]
  OBVIOUS
<1>3. TypeOf(n) \in Listened
  BY <1>1 DEF Published, TypeOf
<1>4. TableSound(table, TypeOf(n))
  BY <1>1, <1>2, <1>3 DEF Flow, DatabaseSound
<1>5. EntriesFor(n) = {e \in UNION {{key} \X DOMAIN table[key] : key \in DOMAIN table} :
                         table[e[1]][e[2]].message.metadata.sequenceNumber = n}
  BY <1>1, <1>2 DEF EntriesFor, TypeOf
<1>6. ASSUME NEW e \in EntriesFor(n)
      PROVE  \E key \in DOMAIN table : \E i \in DOMAIN table[key] :
               /\ e = <<key, i>> /\ Number(table[key][i].message) = n
               /\ table[key][i].message = Heard(published[n])
               /\ key = Key(Heard(published[n]))
  <2>1. PICK key \in DOMAIN table : e \in {key} \X DOMAIN table[key]
    BY <1>5, <1>6
  <2>2. PICK i \in DOMAIN table[key] : e = <<key, i>>
    BY <2>1
  <2>3. e[1] = key /\ e[2] = i
    BY <2>2
  <2>4. Number(table[key][i].message) = n
    BY <1>5, <1>6, <2>3 DEF Number
  <2>5. IsHeard(table[key][i].message) /\ Key(table[key][i].message) = key
    BY <1>4 DEF TableSound
  <2>6. table[key][i].message = Heard(published[n])
    BY <2>4, <2>5 DEF IsHeard
  <2>7. QED
    BY <2>2, <2>4, <2>5, <2>6
<1>7. \A e, f \in EntriesFor(n) : e = f
  <2>1. SUFFICES ASSUME NEW e \in EntriesFor(n), NEW f \in EntriesFor(n) PROVE e = f
    OBVIOUS
  <2>2. PICK k : k = Key(Heard(published[n]))
    OBVIOUS
  <2>3. PICK i \in DOMAIN table[k] : k \in DOMAIN table /\ e = <<k, i>> /\ Number(table[k][i].message) = n
    BY <1>6, <2>2
  <2>4. PICK j \in DOMAIN table[k] : f = <<k, j>> /\ Number(table[k][j].message) = n
    BY <1>6, <2>2
  <2>5. i = j
    BY <1>4, <2>3, <2>4 DEF TableSound
  <2>6. QED
    BY <2>3, <2>4, <2>5
<1>8. Cardinality(EntriesFor(n)) <= 1
  <2>1. CASE EntriesFor(n) = {}
    BY <2>1, FS_EmptySet
  <2>2. CASE EntriesFor(n) # {}
    <3>1. PICK e : e \in EntriesFor(n)
      BY <2>2
    <3>2. EntriesFor(n) = {e}
      BY <1>7, <3>1
    <3>3. QED
      BY <3>2, FS_Singleton
  <2>3. QED
    BY <2>1, <2>2
<1>9. Heard(published[n]) = [published[n] EXCEPT !.content = AsRead(published[n].content)]
  BY DEF Heard
<1>10. \A e \in EntriesFor(n) : table[e[1]][e[2]].message = Heard(published[n])
  <2>1. TAKE e \in EntriesFor(n)
  <2>2. PICK key, i : e = <<key, i>> /\ table[key][i].message = Heard(published[n])
    BY <1>6
  <2>3. e[1] = key /\ e[2] = i
    BY <2>2
  <2>4. QED
    BY <2>2, <2>3
<1>11. QED
  BY <1>2, <1>8, <1>9, <1>10 DEF TypeOf

-------------------------------------------------------------------------------
ListenerInv == Flow /\ Kept /\ LatestSound /\ CountersSound /\ MetricsSound

THEOREM ListenerInvariant == Spec => []ListenerInv
<1>1. Init => ListenerInv
  BY InitFlow, InitKept, InitMetrics DEF ListenerInv
<1>2. ListenerInv /\ [Next]_vars => ListenerInv'
  <2>1. SUFFICES ASSUME ListenerInv, [Next]_vars PROVE ListenerInv'
    OBVIOUS
  <2>2. Flow'
    BY <2>1, FlowStep DEF ListenerInv
  <2>3. Kept' /\ LatestSound'
    BY <2>1, KeptStep DEF ListenerInv
  <2>4. CountersSound' /\ MetricsSound'
    BY <2>1, MetricsStep DEF ListenerInv
  <2>5. QED
    BY <2>2, <2>3, <2>4 DEF ListenerInv
<1>3. QED
  BY <1>1, <1>2, PTL DEF Spec

(* Whoever reads a published proof can verify it with what the contract    *)
(* makes of the report, for any reports.                                   *)
THEOREM ProofsAlwaysVerify == Spec => []ProofsVerify
<1>1. ListenerInv => ProofsVerify
  BY ProofsHold DEF ListenerInv, Flow, Sorted
<1>2. QED
  BY <1>1, ListenerInvariant, PTL

(* No message is stored twice or otherwise than it was published, live or  *)
(* recovered, and the metrics of a type that the listener alone counts     *)
(* never count a message as lost that was not, whatever the recovery counts*)
(* beside it: a gap in the numbers stands for lost messages not yet counted.*)
THEOREM RecordsAlwaysTrue == Spec => []RecordsTrue
<1>1. ListenerInv => RecordsTrue
  BY OnceHolds, LostHolds DEF ListenerInv, RecordsTrue
<1>2. QED
  BY <1>1, ListenerInvariant, PTL

(* What latestTimestamp says is heard is stored, waits for its transaction,*)
(* or was lost.                                                            *)
THEOREM HeardIsAlwaysStored == Spec => []HeardIsStored
<1>1. ListenerInv => HeardIsStored
  BY HeardHolds DEF ListenerInv
<1>2. QED
  BY <1>1, ListenerInvariant, PTL
================================================================================
