----------------------------- MODULE SystemRecovery -----------------------------
(***************************************************************************)
(* SystemRecovery of the validator (validator/src/threads): on start it    *)
(* fetches the system messages of the past.  A request goes to one broker  *)
(* over HTTP, the answer lists the brokers that will reply, and each of    *)
(* them publishes its messages, in numbered chunks ended by a "complete",  *)
(* on the recovery stream.  A missing chunk, or silence, makes it ask      *)
(* again from where the slowest broker has got to; brokers reply up to a   *)
(* limit, and while one has more to give there is another round.           *)
(*                                                                         *)
(* A message is its timestamp.  What happens between two awaits is a step: *)
(* calls of callRecoveryEndpoint, the handler of the stream and the timers *)
(* interleave at every await.                                              *)
(***************************************************************************)
EXTENDS Integers, Sequences, FiniteSets

CONSTANTS Broker,          \* the brokers listed in every answer
          Held,            \* Held[b]: timestamps of the messages that b holds
          To,              \* toTimestamp
          RoundLimit,      \* messages a broker sends in a round
          Idle,            \* no message is being handled
          MaxRequests, MaxLost, MaxEarly, MaxHasty  \* bounds (for TLC only)

ASSUME HeldAssumption == To \in Nat /\ Held \in [Broker -> SUBSET (1 .. To)]
ASSUME LimitAssumption == RoundLimit \in Nat \ {0}

VARIABLES due,             \* calls of callRecoveryEndpoint before line 143
          requestId,       \* the current request; requests are numbered from 1
          posts,           \* requests that wait for their HTTP answer
          inFlight,        \* inFlight[b]: what b published, in order
          known,           \* the keys of progresses
          progress,        \* progresses
          handling,        \* the response in the handler
          db,              \* messages stored by SystemListener
          isRestarting,
          timer,           \* the timeout that ActivityTimeout refers to is pending
          leaked,          \* activity timeouts pending that nothing refers to
          restarts,        \* restart timeouts pending
          stopDue,         \* setImmediate(stop) is pending
          subscribed,
          lost, early, hasty  \* messages lost; handled before the answer; timeouts during traffic

callVars == <<due, requestId, posts>>
timerVars == <<timer, leaked, restarts>>
progressVars == <<known, progress>>
vars == <<callVars, inFlight, progressVars, handling, db, isRestarting, timerVars,
          stopDue, subscribed, lost, early, hasty>>

NoProgress == [timestamp |-> 0, lastSeqNum |-> -1, isComplete |-> FALSE, isFulfilled |-> FALSE]

Init == /\ due = 1         \* the call scheduled by start
        /\ requestId = 0
        /\ posts = {}
        /\ inFlight = [b \in Broker |-> <<>>]
        /\ known = {}
        /\ progress = [b \in Broker |-> NoProgress]
        /\ handling = Idle
        /\ db = {}
        /\ isRestarting = FALSE
        /\ timer = FALSE
        /\ leaked = 0
        /\ restarts = 0
        /\ stopDue = FALSE
        /\ subscribed = TRUE
        /\ lost = 0 /\ early = 0 /\ hasty = 0

-------------------------------------------------------------------------------
(* progress: the summary over the brokers known so far.  0 is undefined.   *)

AllStarted == known # {} /\ \A b \in known : progress[b].timestamp # 0

SummaryTimestamp ==
    IF AllStarted THEN CHOOSE t \in {progress[b].timestamp : b \in known} :
                           \A b \in known : t <= progress[b].timestamp
    ELSE 0

SummaryComplete == AllStarted /\ \A b \in known : progress[b].isComplete

SummaryFulfilled == AllStarted /\ \A b \in known : progress[b].isFulfilled

-------------------------------------------------------------------------------
(* A broker's reply: its messages from the given time, in order, at most   *)
(* RoundLimit of them, one in a chunk, and then a complete.                *)

InTime(times) == CHOOSE s \in [1 .. Cardinality(times) -> times] :
                    \A i, j \in 1 .. Cardinality(times) : i < j => s[i] < s[j]

Reply(b, request, from) ==
    LET messages == InTime({t \in Held[b] : t >= from})
        count == IF Len(messages) < RoundLimit THEN Len(messages) ELSE RoundLimit
    IN  [i \in 1 .. count + 1 |->
           IF i <= count
           THEN [type |-> "response", request |-> request, seqNum |-> i - 1,
                 payload |-> <<messages[i]>>]
           ELSE [type |-> "complete", request |-> request, seqNum |-> count,
                 isFulfilled |-> count = Len(messages)]]

(* callRecoveryEndpoint up to the await of the POST.  The brokers may      *)
(* publish from now on.                                                    *)
From_Start == 0                            \* mutant
From == SummaryTimestamp

SendRequest ==
    /\ due > 0
    /\ requestId < MaxRequests
    /\ due' = due - 1
    /\ requestId' = requestId + 1
    /\ posts' = posts \union {requestId'}
    /\ inFlight' = [b \in Broker |-> inFlight[b] \o Reply(b, requestId', From)]
    /\ UNCHANGED <<progressVars, handling, db, isRestarting, timerVars, stopDue,
                   subscribed, lost, early, hasty>>

(* callRecoveryEndpoint after it.  The progress of every broker listed is  *)
(* replaced by a new object: a handler in the middle of a response goes on *)
(* with the old one.  ActivityTimeout.start does not clear a timeout that  *)
(* is pending.                                                             *)
Restarted(p) == [p EXCEPT !.isComplete = FALSE, !.isFulfilled = FALSE, !.lastSeqNum = -1]

Answer(request) ==
    /\ request \in posts
    /\ posts' = posts \ {request}
    /\ known' = known \union Broker
    /\ progress' = [b \in Broker |-> Restarted(progress[b])]
    /\ handling' = IF handling = Idle THEN Idle ELSE [handling EXCEPT !.current = FALSE]
    /\ timer' = TRUE
    /\ leaked' = IF timer THEN leaked + 1 ELSE leaked
    /\ isRestarting' = FALSE
    /\ UNCHANGED <<due, requestId, inFlight, db, restarts, stopDue, subscribed,
                   lost, early, hasty>>

-------------------------------------------------------------------------------
(* onRecoveryMessage.  The subscription hands over one message at a time.  *)

IsGap_Never(p, seqNum) == FALSE            \* mutant
IsGap(p, seqNum) == seqNum - p.lastSeqNum > 1

(* The catch of onRecoveryMessage.                                         *)
Fail == IF isRestarting THEN UNCHANGED <<isRestarting, timerVars>>
        ELSE /\ isRestarting' = TRUE
             /\ timer' = FALSE
             /\ restarts' = restarts + 1
             /\ UNCHANGED leaked

IsStale(m) == m.request # requestId

(* A message of the current request is handled before the request's answer.*)
CountEarly == /\ requestId \in posts => early < MaxEarly
              /\ early' = IF requestId \in posts THEN early + 1 ELSE early

Take(b) == /\ subscribed
           /\ handling = Idle
           /\ inFlight[b] # <<>>
           /\ inFlight' = [inFlight EXCEPT ![b] = Tail(@)]

Discard(b) ==
    /\ Take(b)
    /\ IsStale(Head(inFlight[b]))
    /\ UNCHANGED <<callVars, progressVars, handling, db, isRestarting, timerVars,
                   stopDue, subscribed, lost, early, hasty>>

Reject(b) ==
    /\ Take(b)
    /\ ~IsStale(Head(inFlight[b]))
    /\ IsGap(progress[b], Head(inFlight[b]).seqNum)
    /\ CountEarly
    /\ known' = known \union {b}
    /\ Fail
    /\ UNCHANGED <<callVars, progress, handling, db, stopDue, subscribed, lost, hasty>>

TakeResponse(b) ==
    LET m == Head(inFlight[b]) IN
    /\ Take(b)
    /\ m.type = "response"
    /\ ~IsStale(m)
    /\ ~IsGap(progress[b], m.seqNum)
    /\ CountEarly
    /\ known' = known \union {b}
    /\ handling' = [broker |-> b, seqNum |-> m.seqNum, payload |-> m.payload, current |-> TRUE]
    /\ UNCHANGED <<callVars, progress, db, isRestarting, timerVars, stopDue, subscribed,
                   lost, hasty>>

(* One turn of the loop over the payload: onSystemMessage, awaited, and    *)
(* the progress.                                                           *)
StoreMessage ==
    /\ handling # Idle
    /\ handling.payload # <<>>
    /\ db' = db \union {Head(handling.payload)}
    /\ progress' = IF handling.current
                   THEN [progress EXCEPT ![handling.broker].timestamp = Head(handling.payload)]
                   ELSE progress
    /\ handling' = [handling EXCEPT !.payload = Tail(@)]
    /\ UNCHANGED <<callVars, inFlight, known, isRestarting, timerVars, stopDue, subscribed,
                   lost, early, hasty>>

FinishResponse ==
    /\ handling # Idle
    /\ handling.payload = <<>>
    /\ progress' = IF handling.current
                   THEN [progress EXCEPT ![handling.broker].lastSeqNum = handling.seqNum]
                   ELSE progress
    /\ handling' = Idle
    /\ UNCHANGED <<callVars, inFlight, known, db, isRestarting, timerVars, stopDue, subscribed,
                   lost, early, hasty>>

(* processRecoveryComplete.  A broker that held nothing gets the time of   *)
(* its complete, which is after To.                                        *)
Completed(p, m) == [p EXCEPT !.timestamp = IF @ = 0 THEN To + 1 ELSE @,
                             !.isComplete = TRUE,
                             !.isFulfilled = m.isFulfilled]

EndRound_NoCall ==    \* mutant
    /\ stopDue' = (stopDue \/ (SummaryComplete' /\ SummaryFulfilled'))
    /\ timer' = (timer /\ ~SummaryComplete')
    /\ UNCHANGED due

EndRound ==
    /\ stopDue' = (stopDue \/ (SummaryComplete' /\ SummaryFulfilled'))
    /\ IF SummaryComplete' /\ ~SummaryFulfilled'
       THEN due' = due + 1 /\ timer' = FALSE
       ELSE UNCHANGED <<due, timer>>

TakeComplete(b) ==
    LET m == Head(inFlight[b]) IN
    /\ Take(b)
    /\ m.type = "complete"
    /\ ~IsStale(m)
    /\ ~IsGap(progress[b], m.seqNum)
    /\ CountEarly
    /\ known' = known \union {b}
    /\ progress' = [progress EXCEPT ![b] = Completed(@, m)]
    /\ EndRound
    /\ UNCHANGED <<requestId, posts, handling, db, isRestarting, leaked, restarts, subscribed,
                   lost, hasty>>

-------------------------------------------------------------------------------
(* ActivityTimeout.onTimeout clears the timeout referred to, whichever     *)
(* fired, and calls back or, if there was an update meanwhile, sets a new  *)
(* one.  That of a timeout that is referred to changes nothing.            *)

(* Nothing is on the way: 30 seconds pass without a message.               *)
Quiet == /\ posts = {}
         /\ handling = Idle
         /\ \A b \in Broker : \A i \in 1 .. Len(inFlight[b]) : inFlight[b][i].request # requestId

CountHasty == /\ ~Quiet => hasty < MaxHasty
              /\ hasty' = IF Quiet THEN hasty ELSE hasty + 1

ActivityTimeout ==
    /\ \/ timer /\ UNCHANGED leaked
       \/ leaked > 0 /\ leaked' = leaked - 1
    /\ CountHasty
    /\ timer' = FALSE
    /\ due' = due + 1
    /\ UNCHANGED <<requestId, posts, inFlight, progressVars, handling, db, isRestarting,
                   restarts, stopDue, subscribed, lost, early>>

Rearm ==
    /\ leaked > 0
    /\ leaked' = leaked - 1
    /\ timer' = TRUE
    /\ UNCHANGED <<callVars, inFlight, progressVars, handling, db, isRestarting, restarts,
                   stopDue, subscribed, lost, early, hasty>>

RestartTimeout ==
    /\ restarts > 0
    /\ restarts' = restarts - 1
    /\ due' = due + 1
    /\ UNCHANGED <<requestId, posts, inFlight, progressVars, handling, db, isRestarting,
                   timer, leaked, stopDue, subscribed, lost, early, hasty>>

(* stop, with the unsubscription it awaits.                                *)
Stop ==
    /\ stopDue
    /\ stopDue' = FALSE
    /\ subscribed' = FALSE
    /\ timer' = FALSE
    /\ restarts' = IF restarts > 0 THEN restarts - 1 ELSE 0   \* only the last is known
    /\ UNCHANGED <<callVars, inFlight, progressVars, handling, db, isRestarting, leaked,
                   lost, early, hasty>>

-------------------------------------------------------------------------------
(* The network loses a message.                                            *)
Lose(b) ==
    /\ inFlight[b] # <<>>
    /\ lost < MaxLost
    /\ inFlight' = [inFlight EXCEPT ![b] = Tail(@)]
    /\ lost' = lost + 1
    /\ UNCHANGED <<callVars, progressVars, handling, db, isRestarting, timerVars, stopDue,
                   subscribed, early, hasty>>

Handle == \/ \E b \in Broker : Discard(b) \/ Reject(b) \/ TakeResponse(b) \/ TakeComplete(b)
          \/ StoreMessage
          \/ FinishResponse

Call == SendRequest \/ \E request \in posts : Answer(request)

Timeout == ActivityTimeout \/ Rearm \/ RestartTimeout

Next == Call \/ Handle \/ Timeout \/ Stop \/ \E b \in Broker : Lose(b)

(* The broker answers, the stream delivers, timers fire.                   *)
Fairness == /\ WF_vars(SendRequest) /\ WF_vars(\E request \in posts : Answer(request))
            /\ WF_vars(Handle)
            /\ WF_vars(ActivityTimeout) /\ WF_vars(RestartTimeout)
            /\ WF_vars(Stop)

Spec == Init /\ [][Next]_vars /\ Fairness

-------------------------------------------------------------------------------
Message == [type : {"response"}, request : Nat, seqNum : Nat, payload : Seq(1 .. To)]
           \union [type : {"complete"}, request : Nat, seqNum : Nat, isFulfilled : BOOLEAN]

Progress == [timestamp : 0 .. To + 1, lastSeqNum : Nat \union {-1},
             isComplete : BOOLEAN, isFulfilled : BOOLEAN]

(* The variables keep their types.                                         *)
TypeOK == /\ due \in Nat /\ requestId \in Nat /\ posts \subseteq 1 .. requestId
          /\ inFlight \in [Broker -> Seq(Message)]
          /\ known \subseteq Broker
          /\ progress \in [Broker -> Progress]
          /\ handling \in [broker : Broker, seqNum : Nat, payload : Seq(1 .. To),
                           current : BOOLEAN] \union {Idle}
          /\ db \subseteq 1 .. To
          /\ isRestarting \in BOOLEAN /\ timer \in BOOLEAN /\ stopDue \in BOOLEAN
          /\ subscribed \in BOOLEAN
          /\ leaked \in Nat /\ restarts \in Nat
          /\ lost \in Nat /\ early \in Nat /\ hasty \in Nat

(* What a broker is recorded to have sent is stored: every message it      *)
(* holds up to its progress is in the database, whatever was lost, refused *)
(* or asked for again.  A reply that overtakes the answer of its request   *)
(* can break it: lastSeqNum still is that of the previous request          *)
(* (SystemRecovery.ts:295), so that a lost chunk goes unnoticed; and a     *)
(* round can end, and the next start from its time, before the other       *)
(* brokers are known.                                                      *)
StoredUpToProgress ==
    early = 0 =>
      \A b \in known : \A t \in Held[b] : t <= progress[b].timestamp => t \in db

(* When the recovery is stopped as successful, every message of every      *)
(* broker is stored, provided the replies came after the list of brokers.  *)
SuccessIsComplete ==
    early = 0 /\ (stopDue \/ ~subscribed) => \A b \in Broker : Held[b] \subseteq db

(* Nothing is missed: neither below the recorded progress nor in the end.  *)
NothingMissed == TypeOK /\ StoredUpToProgress /\ SuccessIsComplete

(* Until it is stopped, something drives the recovery on: a call in        *)
(* progress, a timeout, or a restart.  It never waits for a message only.  *)
NeverStuck ==
    subscribed => due > 0 \/ posts # {} \/ timer \/ leaked > 0 \/ restarts > 0 \/ stopDue

(* When brokers answer before they reply and no timeout comes in between,  *)
(* the recovery ends, whatever is lost on the way.                         *)
RecoveryEnds == <>(early > 0 \/ hasty > 0 \/ ~subscribed)
================================================================================
