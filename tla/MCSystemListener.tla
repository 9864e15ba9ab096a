---------------------------- MODULE MCSystemListener ----------------------------
(* An instance of SystemListener for TLC: every type, every kind of query, *)
(* options left out.                                                       *)
EXTENDS SystemListener

CONSTANTS p1, p2

(* Reports with all parts, with all but delegates, and with none.          *)
Report(delegates) ==
    [s |-> FALSE, id |-> 1, height |-> 7, treasury |-> -4,
     streams |-> <<[id |-> "s1", capture |-> 1, bytes |-> 2], [id |-> "s2", capture |-> 0, bytes |-> 0]>>,
     consumers |-> <<[id |-> "c1", capture |-> 3, bytes |-> 1]>>,
     nodes |-> <<<<"n1", -1>>, <<"n2", 2>>>>, delegates |-> delegates]

MCReports == {Draft(2, 5), Report(<<>>), Report(<<<<"d1", <<<<"n1", 1>>>>>>, <<"d2", <<>>>>>>)}

Proofs == {<<p2, Proof(r, "b", 2)>> : r \in MCReports}
          \union {<<p2, Proof(Serialized(r), "b", 1)>> : r \in MCReports \ {Draft(2, 5)}}

From1 == QueryRef(1, Undefined)
To2 == QueryRef(2, 5)

Request(queryType, options) ==
    [messageType |-> QueryRequest, seqNum |-> 0, requestId |-> "q", consumerId |-> "c", streamId |-> "s",
     partition |-> 0, queryType |-> queryType, queryOptions |-> options]

LastRequest == <<p1, Request("last", [last |-> 3])>>
FromRequest == <<p1, Request("from", [from |-> From1, publisherId |-> Undefined])>>

Response(hash) == [messageType |-> QueryResponse, seqNum |-> 0, requestId |-> "q",
                   requestPublisherId |-> "b", hashMap |-> <<<<"m1", hash>>>>]

Answers == {<<p1, Response("h1")>>, <<p2, Response("h2")>>}

AllBodies ==
    {LastRequest,
     FromRequest,
     <<p1, Request("range", [from |-> From1, to |-> To2, msgChainId |-> Undefined,
                             publisherId |-> "p"])>>,
     <<p2, [messageType |-> QueryPropagate, seqNum |-> 0, requestId |-> "q",
            requestPublisherId |-> "b", payload |-> <<<<"m1", "x">>>>]>>,
     <<p2, [messageType |-> RecoveryRequest, seqNum |-> 0, requestId |-> "r", from |-> 1, to |-> 2]>>}
    \union Answers

IsListened(body) == body[2].messageType \in {QueryRequest, QueryResponse, QueryPropagate}

MCBodies == [n \in 1 .. 3 |-> CASE n = 1 -> {b \in AllBodies : IsListened(b)} \union Proofs
                                 [] n = 2 -> {b \in AllBodies : IsListened(b)} \ {LastRequest, FromRequest}
                                 [] n = 3 -> {b \in AllBodies : ~IsListened(b)} \union Answers]

(* A response, and the ends of two answers, of one chunk and of three.     *)
Completion(seqNum) == [messageType |-> RecoveryComplete, seqNum |-> seqNum, requestId |-> "r",
                       isFulfilled |-> TRUE]

MCRecoveryMessages ==
    {<<p1, [messageType |-> RecoveryResponse, seqNum |-> 0, requestId |-> "r",
            payload |-> <<[content |-> FromRequest[2], metadata |-> Metadata(p1, 1)]>>]>>,
     <<p1, Completion(1)>>, <<p1, Completion(3)>>}

MCFirstSeqNum == [p \in {p1, p2} |-> IF p = p1 THEN 0 ELSE 5]

MCStamp == <<1, 2, 2>>
================================================================================
