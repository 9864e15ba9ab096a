--------------------------- MODULE NetworkValidation ---------------------------
(***************************************************************************)
(* The verification of a query by the client                               *)
(* (client/src/utils/networkValidation).  The client sends a query to one  *)
(* node, which publishes a request; every node publishes a response to it, *)
(* with the hashes of what it stores, and nodes that store more than the   *)
(* query node propagate that.  The client collects these system messages   *)
(* while the HTTP answer, which names the request at its end, is still on  *)
(* its way, and then compares them.                                        *)
(*                                                                         *)
(* The code is a net of observables.  A step is one event at its inputs    *)
(* with everything it sets off.  combineLatest keeps the last value of each*)
(* input, and passes on nothing until each has one.                        *)
(***************************************************************************)
EXTENDS Naturals, FiniteSets

CONSTANTS Node,            \* addresses of nodes
          QueryNode,       \* the node that the client asks
          Request, Ours,   \* requests under way; the client's own
          Publisher,       \* Publisher[r]: the node that published r
          Compatible,      \* requests with the input of the client's query
          Id,              \* ids of stream messages
          Contents,        \* what the nodes may store
          Traffics,        \* sets of system messages that may be on their way
          Actives,         \* nodes the contract may list as active
          Participants,    \* nodes the HTTP answer names
          MaxLost,         \* bound: system messages that never reach the client
          Nothing

ASSUME NodeAssumption == QueryNode \in Node /\ Participants \subseteq Node
ASSUME RequestAssumption == /\ Ours \in Compatible /\ Compatible \subseteq Request
                            /\ Publisher \in [Request -> Node] /\ Publisher[Ours] = QueryNode

Message == [type : {"request", "response", "propagate"}, request : Request, node : Node]

ASSUME TrafficAssumption == \A published \in Traffics : published \subseteq Message
ASSUME MaxLostAssumption == MaxLost \in Nat
ASSUME NothingAssumption == Nothing \notin Request /\ Nothing \notin Message

VARIABLES stored,          \* stored[r][n][i]: hash of i that n answers r with, or Nothing
          active,          \* nodes that the contract lists
          published,       \* system messages that the nodes publish
          coming,          \* those not delivered yet
          lost,            \* those that never will be
          addressKnown,    \* queryNodeAddress$ has emitted
          httpRequest,     \* httpResponseRequestId$: Nothing or Ours
          impossible,      \* impossibleRequestIds$
          latest,          \* latest[type]: the last message in the combineLatest
          candidate,       \* the request in the combineLatest of request$
          requestKnown,    \* request$ has emitted
          responses, propagates,   \* the pools
          expected,        \* expectedNodes$, or Nothing
          allAnswered,     \* gotResponseFromAllNodes$ has emitted
          done,            \* doneCollectingSystemMessages$ has emitted
          served,          \* ids of the messages in the HTTP answer, or Nothing
          elapsed,         \* the timer has fired
          outcome,
          missed           \* messages that came before the address was known

world == <<stored, active, published>>
filterVars == <<addressKnown, httpRequest, impossible>>
pools == <<responses, propagates>>
checkVars == <<expected, allAnswered, done>>
validationVars == <<world, coming, lost, filterVars, latest, candidate, requestKnown, pools,
                    checkVars, served, elapsed, outcome, missed>>

ValidationInit == /\ stored \in Contents
                  /\ active \in Actives
                  /\ published \in Traffics
                  /\ coming = published
                  /\ lost = {}
                  /\ addressKnown = FALSE
                  /\ httpRequest = Nothing
                  /\ impossible = {}
                  /\ latest = [type \in {"request", "response", "propagate"} |-> Nothing]
                  /\ candidate = Nothing
                  /\ requestKnown = FALSE
                  /\ responses = {} /\ propagates = {}
                  /\ expected = Nothing
                  /\ allAnswered = FALSE
                  /\ done = FALSE
                  /\ served = Nothing
                  /\ elapsed = FALSE
                  /\ outcome = "pending"
                  /\ missed = {}

-------------------------------------------------------------------------------
(* filterSystemMessageBasedOnCriteria, for a value of the request id and of*)
(* the impossible ones.                                                    *)
Passes_BySender(m, request, excluded) ==    \* mutant
    /\ m # Nothing
    /\ IF request = Nothing THEN m.request \notin excluded ELSE m.request = request
    /\ m.node = QueryNode
Passes(m, request, excluded) ==
    /\ m # Nothing
    /\ IF request = Nothing THEN m.request \notin excluded ELSE m.request = request
    /\ Publisher[m.request] = QueryNode

(* hasIncompatibleQueryInput.                                              *)
HasIncompatibleInput(r) == r \notin Compatible

(* checkCollectionCompletion.  Primary and secondary responses are told    *)
(* apart by requestPublisherId, the node that published the request.       *)
PrimaryResponses == {m \in responses : Publisher[m.request] = Publisher[Ours]}
SecondaryResponses == {m \in responses : Publisher[m.request] # Publisher[Ours]}

IdsOf(m) == {i \in Id : stored[m.request][m.node][i] # Nothing}

MissingPropagates(primary) ==
    {m \in SecondaryResponses :
       /\ ~(IdsOf(m) \subseteq IdsOf(primary))
       /\ ~\E p \in propagates : p.node = m.node}

GotAllPropagates ==
    requestKnown /\ \E primary \in PrimaryResponses : MissingPropagates(primary) = {}

Responders == {m.node : m \in responses}

-------------------------------------------------------------------------------
(* The comparison, once the messages are collected.                        *)
NodesAgree ==
    \A m1, m2 \in responses : \A i \in IdsOf(m1) \intersect IdsOf(m2) :
        stored[m1.request][m1.node][i] = stored[m2.request][m2.node][i]

AllPresent == \A i \in served : \E m \in responses : i \in IdsOf(m)

(* race of conditionsWereValidated$ and timeoutError$.  The time out is    *)
(* combined with the request: it waits for it.  When one event is the last *)
(* that both were waiting for, either may come first.                      *)
ConditionsValidated == done /\ served # Nothing /\ NodesAgree /\ AllPresent
TimeoutError == elapsed /\ requestKnown

Settle == \/ ConditionsValidated' /\ outcome' = "verified"
          \/ TimeoutError' /\ outcome' = "timedOut"
          \/ ~ConditionsValidated' /\ ~TimeoutError' /\ outcome' = "pending"

(* What follows from a change of the pools, the request or the nodes       *)
(* expected.  When a pool was filled or shrunk (emitted) the check starts  *)
(* afresh, and asks the contract again.                                    *)
CheckCompletion(nodes, emitted) ==
    LET all == allAnswered \/ (nodes # Nothing /\ nodes \subseteq Responders') IN
    /\ done' = (all /\ GotAllPropagates')
    /\ expected' = IF emitted /\ ~done' THEN Nothing ELSE nodes
    /\ allAnswered' = (all /\ (emitted => done'))
    /\ Settle

(* The pools were filled or shrunk before the request was known.           *)
Restart == /\ done' = FALSE
           /\ expected' = Nothing
           /\ allAnswered' = FALSE
           /\ Settle

Listening == outcome = "pending" /\ ~done

-------------------------------------------------------------------------------
(* The subscription to the system stream is taken to be ready after 500 ms,*)
(* and the stream promises no delivery: a message may never come.          *)
Lose(m) ==
    /\ Listening
    /\ m \in coming /\ Cardinality(lost) < MaxLost
    /\ coming' = coming \ {m}
    /\ lost' = lost \union {m}
    /\ UNCHANGED <<world, filterVars, latest, candidate, requestKnown, pools, checkVars, served,
                   elapsed, outcome, missed>>

(* A system message comes.                                                 *)

Come(m) == /\ Listening
           /\ m \in coming
           /\ coming' = coming \ {m}
           /\ latest' = [latest EXCEPT ![m.type] = m]

ComeUnheard(m) ==     \* filtered out, or kept until the address is known
    /\ Come(m)
    /\ ~addressKnown \/ ~Passes(m, httpRequest, impossible)
    /\ missed' = IF addressKnown THEN missed ELSE missed \union {m}
    /\ UNCHANGED <<world, lost, filterVars, candidate, requestKnown, pools, checkVars, served,
                   elapsed, outcome>>

Heard(m) == /\ Come(m)
            /\ addressKnown
            /\ Passes(m, httpRequest, impossible)
            /\ UNCHANGED <<world, lost, addressKnown, httpRequest, served, elapsed, missed>>

ComeImpossible(m) ==  \* the request of another query
    /\ m.type = "request" /\ HasIncompatibleInput(m.request)
    /\ Heard(m)
    /\ impossible' = impossible \union {m.request}
    /\ UNCHANGED <<candidate, requestKnown, pools>>
    /\ CheckCompletion(expected, TRUE)

ComeRequest(m) ==
    /\ m.type = "request" /\ ~HasIncompatibleInput(m.request)
    /\ Heard(m)
    /\ candidate' = m.request
    /\ requestKnown' = (requestKnown \/ httpRequest = m.request)
    /\ UNCHANGED <<impossible, pools>>
    /\ CheckCompletion(expected, FALSE)

ComeResponse(m) ==
    /\ m.type = "response"
    /\ Heard(m)
    /\ responses' = responses \union {m}
    /\ UNCHANGED <<impossible, candidate, requestKnown, propagates>>
    /\ CheckCompletion(expected, TRUE)

ComePropagate(m) ==
    /\ m.type = "propagate"
    /\ Heard(m)
    /\ propagates' = propagates \union {m}
    /\ UNCHANGED <<impossible, candidate, requestKnown, responses>>
    /\ CheckCompletion(expected, TRUE)

-------------------------------------------------------------------------------
(* Another input of the filters changes: the last message of each type is  *)
(* passed through them again, the requests first.                          *)

Again_None(type, request, excluded) == {}    \* mutant
Again(type, request, excluded) ==
    IF Passes(latest[type], request, excluded) THEN {latest[type]} ELSE {}

(* The contract knows the address of the node by its url.                  *)
AddressKnown ==
    LET requests == {m.request : m \in Again("request", httpRequest, impossible)}
        found == {r \in requests : HasIncompatibleInput(r)}
        excluded == impossible \union found
    IN
    /\ Listening
    /\ ~addressKnown
    /\ addressKnown' = TRUE
    /\ impossible' = excluded
    /\ responses' = responses \union Again("response", httpRequest, excluded)
    /\ propagates' = propagates \union Again("propagate", httpRequest, excluded)
    /\ candidate' = IF requests # found THEN latest["request"].request ELSE candidate
    /\ requestKnown' = (candidate' # Nothing /\ candidate' = httpRequest)
    /\ missed' = missed \ {latest[type] : type \in DOMAIN latest}
    /\ UNCHANGED <<world, coming, lost, httpRequest, latest, served, elapsed>>
    /\ IF <<impossible, pools>>' # <<impossible, pools>> THEN Restart ELSE CheckCompletion(expected, FALSE)

(* The HTTP answer names the request: the pools keep its messages only.    *)
(* The filters pass the last messages again, that the pools hold already.  *)
Kept_All(pool) == pool    \* mutant
Kept(pool) == {m \in pool : m.request = Ours}

HttpMetadata ==
    /\ Listening
    /\ httpRequest = Nothing
    /\ httpRequest' = Ours
    /\ responses' = Kept(responses)
    /\ propagates' = Kept(propagates)
    /\ requestKnown' = (candidate = Ours)
    /\ UNCHANGED <<world, coming, lost, addressKnown, impossible, candidate, latest, served,
                   elapsed, missed>>
    /\ Restart

-------------------------------------------------------------------------------
(* The nodes expected: first those of the contract, then, when the HTTP    *)
(* answer has come, those it names.                                        *)

Expect(nodes) ==
    /\ Listening
    /\ UNCHANGED <<world, coming, lost, filterVars, latest, candidate, requestKnown, pools, served,
                   elapsed, missed>>
    /\ CheckCompletion(nodes, FALSE)

ContractAnswers == expected = Nothing /\ Expect(active)

ParticipantsKnown == /\ expected = active
                     /\ httpRequest # Nothing
                     /\ expected # Participants
                     /\ Expect(Participants)

(* The messages of the HTTP answer have been read.                         *)
MessagesRead ==
    /\ outcome = "pending"
    /\ served = Nothing
    /\ \E ids \in SUBSET Id : served' = ids
    /\ UNCHANGED <<world, coming, lost, filterVars, latest, candidate, requestKnown, pools,
                   checkVars, elapsed, missed>>
    /\ Settle

TimerFires ==
    /\ outcome = "pending"
    /\ ~elapsed
    /\ elapsed' = TRUE
    /\ UNCHANGED <<world, coming, lost, filterVars, latest, candidate, requestKnown, pools,
                   checkVars, served, missed>>
    /\ Settle

-------------------------------------------------------------------------------
Deliver(m) == ComeUnheard(m) \/ ComeImpossible(m) \/ ComeRequest(m) \/ ComeResponse(m)
              \/ ComePropagate(m)

ValidationNext == \/ \E m \in coming : Deliver(m) \/ Lose(m)
                  \/ AddressKnown \/ HttpMetadata
                  \/ ContractAnswers \/ ParticipantsKnown
                  \/ MessagesRead \/ TimerFires

(* Every message on its way comes unless it is lost, every call is         *)
(* answered, and the timer fires.                                          *)
Fairness == /\ WF_validationVars(\E m \in coming : Deliver(m))
            /\ WF_validationVars(AddressKnown) /\ WF_validationVars(HttpMetadata)
            /\ WF_validationVars(ContractAnswers) /\ WF_validationVars(ParticipantsKnown)
            /\ WF_validationVars(MessagesRead) /\ WF_validationVars(TimerFires)

ValidationSpec == ValidationInit /\ [][ValidationNext]_validationVars /\ Fairness

-------------------------------------------------------------------------------
(* The variables keep their types.                                         *)
TypeOK == /\ stored \in Contents /\ active \in Actives /\ published \in Traffics
          /\ coming \subseteq published /\ lost \subseteq published \ coming
          /\ missed \subseteq published
          /\ addressKnown \in BOOLEAN /\ requestKnown \in BOOLEAN /\ allAnswered \in BOOLEAN
          /\ done \in BOOLEAN /\ elapsed \in BOOLEAN
          /\ httpRequest \in {Nothing, Ours}
          /\ impossible \subseteq Request \ Compatible
          /\ \A type \in DOMAIN latest : latest[type] \in published \union {Nothing}
          /\ candidate \in Compatible \union {Nothing}
          /\ responses \subseteq {m \in published : m.type = "response"}
          /\ propagates \subseteq {m \in published : m.type = "propagate"}
          /\ expected # Nothing => expected \in {active, Participants}
          /\ served # Nothing => served \subseteq Id
          /\ outcome \in {"pending", "verified", "timedOut"}

Delivered == published \ (coming \union lost)

(* The nodes that have answered the client's request.                      *)
Answered == {m.node : m \in {d \in Delivered : d.type = "response" /\ d.request = Ours}}

Agree(nodes) == \A n1, n2 \in nodes : \A i \in Id :
    \/ stored[Ours][n1][i] = stored[Ours][n2][i]
    \/ Nothing \in {stored[Ours][n1][i], stored[Ours][n2][i]}

(* A verified answer is right: all nodes that the contract lists, or all   *)
(* that the answer names, have answered this request, none of them stores  *)
(* another message under the same id, and a node that answered stores each *)
(* message served.  Answers to other requests, which the pools hold until  *)
(* the request is known, count for nothing.                                *)
VerifiedIsRight ==
    outcome = "verified" =>
      /\ \E nodes \in {active, Participants} : nodes \subseteq Answered /\ Agree(nodes)
      /\ \A i \in served : \E n \in Answered : stored[Ours][n][i] # Nothing

(* No response to the request is filtered out once the query node's        *)
(* address is known, whichever of the message, the HTTP answer and the     *)
(* other requests comes first; and the variables keep their types.         *)
ResponsesKept ==
    /\ TypeOK
    /\ \A m \in Delivered : m.type = "response" /\ m.request = Ours => m \in responses \union missed

(* The verification ends, verified or timed out, unless the client never   *)
(* comes to know its own request, in one of three ways: the request was    *)
(* lost, or came before the address was known and was replaced, or another *)
(* with the same input to the same node took its place.  Responses and     *)
(* propagates that are lost or replaced lead to the time out.              *)
OwnRequest(m) == m.type = "request" /\ m.request = Ours

EndsUnlessRequestMissed ==
    <>[](\/ outcome # "pending"
         \/ \E m \in lost : OwnRequest(m)
         \/ \E m \in missed : OwnRequest(m) /\ addressKnown
         \/ candidate \notin {Nothing, Ours} /\ httpRequest # Nothing)
================================================================================
