-------------------------- MODULE SystemRecoveryProofs --------------------------
(* Theorems about SystemRecovery, with their proofs.                       *)
EXTENDS SystemRecovery, Induction

(* What the calls and timeouts that are pending are counted with.          *)
Counted == due \in Nat /\ leaked \in Nat /\ restarts \in Nat

LEMMA InitDriven == Init => Counted /\ NeverStuck
BY DEF Init, Counted, NeverStuck

(* Every step that takes one of the drives away adds another: a call sent  *)
(* waits for its answer, an answer starts the timeout, an error schedules  *)
(* a restart, the end of a round another call.                             *)
LEMMA StepDriven ==
    ASSUME Counted, NeverStuck, [Next]_vars
    PROVE  Counted' /\ NeverStuck'
<1> USE DEF Counted, NeverStuck
<1>1. CASE SendRequest
  <2>1. requestId' \in posts'
    BY <1>1 DEF SendRequest
  <2> QED
    BY <1>1, <2>1 DEF SendRequest, timerVars
<1>2. CASE \E request \in posts : Answer(request)
  BY <1>2 DEF Answer
<1>3. CASE \E b \in Broker : Discard(b)
  BY <1>3 DEF Discard, Take, callVars, timerVars
<1>4. CASE \E b \in Broker : Reject(b)
  BY <1>4 DEF Reject, Take, Fail, CountEarly, callVars, timerVars
<1>5. CASE \E b \in Broker : TakeResponse(b)
  BY <1>5 DEF TakeResponse, Take, CountEarly, callVars, timerVars
<1>6. CASE \E b \in Broker : TakeComplete(b)
  <2>1. EndRound /\ UNCHANGED <<posts, leaked, restarts, subscribed>>
    BY <1>6 DEF TakeComplete
  <2>2. CASE SummaryComplete' /\ ~SummaryFulfilled'
    <3>1. due' = due + 1
      BY <2>1, <2>2 DEF EndRound
    <3> QED
      BY <2>1, <3>1
  <2>3. CASE ~(SummaryComplete' /\ ~SummaryFulfilled')
    <3>1. UNCHANGED <<due, timer>> /\ (stopDue => stopDue')
      BY <2>1, <2>3, Zenon DEF EndRound
    <3> QED
      BY <2>1, <3>1
  <2> QED
    BY <2>2, <2>3
<1>7. CASE StoreMessage \/ FinishResponse
  BY <1>7 DEF StoreMessage, FinishResponse, callVars, timerVars
<1>8. CASE ActivityTimeout \/ Rearm \/ RestartTimeout
  BY <1>8 DEF ActivityTimeout, Rearm, RestartTimeout, CountHasty, callVars
<1>9. CASE Stop
  BY <1>9 DEF Stop, callVars
<1>10. CASE \E b \in Broker : Lose(b)
  BY <1>10 DEF Lose, callVars, timerVars
<1>11. CASE UNCHANGED vars
  BY <1>11 DEF vars, callVars, timerVars
<1> QED
  BY <1>1, <1>2, <1>3, <1>4, <1>5, <1>6, <1>7, <1>8, <1>9, <1>10, <1>11
  DEF Next, Call, Handle, Timeout

(* Whatever the brokers hold and send, and however many messages are lost, *)
(* a recovery that is not stopped never waits for a message alone.         *)
THEOREM AlwaysDriven == Spec => []NeverStuck
<1>1. Counted /\ NeverStuck /\ [Next]_vars => (Counted /\ NeverStuck)'
  BY StepDriven
<1> QED
  BY InitDriven, <1>1, PTL DEF Spec

-------------------------------------------------------------------------------
(* What NothingMissed rests on.  A message waits for its turn: those of    *)
(* the current request come in the order of the reply, and what the broker *)
(* holds before one that would be taken is stored.                         *)
Waiting(b) == {i \in 1 .. Len(inFlight[b]) : inFlight[b][i].request = requestId}

(* Everything that b holds before m, or in the end, is in the database.    *)
StoredBefore(b, m) ==
    IF m.type = "response" THEN \A t \in Held[b] : t < m.payload[1] => t \in db
    ELSE m.isFulfilled => Held[b] \subseteq db

(* Nothing that b holds comes between t and m.                             *)
Follows(b, t, m) ==
    IF m.type = "response" THEN \A u \in Held[b] : u < m.payload[1] => u <= t
    ELSE m.isFulfilled => \A u \in Held[b] : u <= t

(* A message taken next after one of number k.                             *)
Due(b, k) == {i \in Waiting(b) : inFlight[b][i].seqNum = k + 1}

InOrder(b) ==
    /\ inFlight[b] \in Seq(Message)
    /\ \A i \in 1 .. Len(inFlight[b]) : inFlight[b][i].request \in 1 .. requestId
    /\ \A i \in Waiting(b) : LET m == inFlight[b][i] IN
         /\ m.type = "response" => \E t \in Held[b] : m.payload = <<t>>
         /\ m.type = "complete" /\ m.seqNum = 0 => m.isFulfilled
    /\ \A i, j \in Waiting(b) : i < j =>
         /\ inFlight[b][i].seqNum < inFlight[b][j].seqNum
         /\ inFlight[b][i].type = "response" /\ j \in Due(b, inFlight[b][i].seqNum)
               => Follows(b, inFlight[b][i].payload[1], inFlight[b][j])

(* The first of a reply is preceded by what was stored when it was asked   *)
(* for; and, the answer being there, what comes after the last that was    *)
(* handled by what is stored now.                                          *)
NextIsSafe(b) ==
    /\ \A i \in Due(b, -1) : StoredBefore(b, inFlight[b][i])
    /\ requestId \notin posts =>
         /\ \A i \in Waiting(b) : inFlight[b][i].seqNum > progress[b].lastSeqNum
         /\ \A i \in Due(b, progress[b].lastSeqNum) : StoredBefore(b, inFlight[b][i])

(* The response that is being handled.                                     *)
HandledIsSafe(b) ==
    /\ handling.payload # <<>> =>
         \A t \in Held[b] : t < handling.payload[1] => t \in db
    /\ handling.payload = <<>> => progress[b].timestamp > 0
    /\ requestId \notin posts =>
         /\ \A i \in Waiting(b) : inFlight[b][i].seqNum > handling.seqNum
         /\ \A i \in Due(b, handling.seqNum) :
              IF handling.payload = <<>> THEN StoredBefore(b, inFlight[b][i])
              ELSE Follows(b, handling.payload[1], inFlight[b][i])

ProgressIsSafe(b) ==
    /\ \A t \in Held[b] : t <= progress[b].timestamp => t \in db
    /\ progress[b].isFulfilled => Held[b] \subseteq db
    /\ progress[b].lastSeqNum >= 0 => progress[b].timestamp > 0

PayloadIsHeld ==
    handling # Idle => \/ handling.payload = <<>>
                       \/ \E t \in Held[handling.broker] : handling.payload = <<t>>

AnsweredIsKnown == requestId > 0 /\ requestId \notin posts => known = Broker

Safe ==
    /\ \A b \in Broker : NextIsSafe(b) /\ ProgressIsSafe(b)
    /\ handling # Idle /\ handling.current => HandledIsSafe(handling.broker)
    /\ known = {} \/ known = Broker
    /\ stopDue \/ ~subscribed => \A b \in Broker : Held[b] \subseteq db

RecoveryInv ==
    /\ TypeOK
    /\ \A b \in Broker : InOrder(b)
    /\ PayloadIsHeld
    /\ AnsweredIsKnown
    /\ early = 0 => Safe

-------------------------------------------------------------------------------
(* A finite set of numbers can be listed in order.                         *)
Listed(s, T) == /\ s \in [1 .. Cardinality(T) -> T]
                /\ \A i, j \in 1 .. Cardinality(T) : i < j => s[i] < s[j]

LEMMA Listable ==
  ASSUME NEW S, S \subseteq Nat, IsFiniteSet(S) PROVE \E s : Listed(s, S)
<1> DEFINE Bad == {T \in SUBSET S : ~ \E s : Listed(s, T)}
<1>1. SUFFICES ASSUME Bad # {} PROVE FALSE
  OBVIOUS
<1>2. PICK T \in Bad : \A y \in Bad : y \subseteq T => y = T
  <2>1. Bad \subseteq SUBSET S
    OBVIOUS
  <2> HIDE DEF Bad
  <2>2. IsFiniteSet(S)
    OBVIOUS
  <2>3. QED
    BY ONLY <1>1, <2>1, <2>2, MinimalSet
<1>3. T \subseteq Nat /\ T \subseteq S /\ IsFiniteSet(T) /\ Cardinality(T) \in Nat
  BY <1>2, FS_Subset, FS_CardinalityType
<1>4. T # {}
  <2>1. ASSUME T = {} PROVE \E s : Listed(s, T)
    <3>1. PICK s : s = [i \in 1 .. 0 |-> 0]
      OBVIOUS
    <3>2. Cardinality(T) = 0 /\ s \in [1 .. 0 -> T]
      BY <2>1, <3>1, FS_EmptySet
    <3>3. Listed(s, T)
      BY <3>2 DEF Listed
    <3>4. QED
      BY <3>3
  <2>2. QED
    BY <1>2, <2>1
<1>5. PICK top \in T : \A t \in T : t <= top
  <2>1. PICK x \in T : TRUE
    BY <1>4
  <2>2. PICK Over : Over = {m \in Nat : \A t \in T : t <= m}
    OBVIOUS
  <2>3. Over # {}
    <3>1. PICK n \in Nat : \A t \in T : t <= n
      BY <1>3, FiniteBounded
    <3>2. QED
      BY <2>2, <3>1
  <2>4. PICK m \in Over : \A k \in Over : m <= k
    BY <2>2, <2>3, MinimalNumber
  <2>5. CASE m \in T
    BY <2>2, <2>4, <2>5
  <2>6. CASE m \notin T
    <3>1. \A t \in T : t <= m /\ t # m /\ t \in Nat
      BY <1>3, <2>2, <2>4, <2>6
    <3>2. m > 0 /\ m - 1 \in Nat
      BY <2>1, <2>2, <2>4, <3>1
    <3>3. m - 1 \in Over
      BY <2>2, <2>4, <3>1, <3>2
    <3>4. QED
      BY <2>2, <2>4, <3>2, <3>3
  <2>7. QED
    BY <2>5, <2>6
<1>6. PICK R : R = T \ {top}
  OBVIOUS
<1>7. PICK n \in Nat : Cardinality(R) = n /\ Cardinality(T) = n + 1
  <2>1. IsFiniteSet(R) /\ Cardinality(R) = Cardinality(T) - 1
    BY <1>3, <1>6, FS_RemoveElement
  <2>2. Cardinality(R) \in Nat
    BY <2>1, FS_CardinalityType
  <2>3. QED
    BY <1>3, <2>1, <2>2
<1>8. PICK s : Listed(s, R)
  BY <1>2, <1>3, <1>6
<1>9. PICK t : t = [i \in 1 .. n + 1 |-> IF i = n + 1 THEN top ELSE s[i]]
  OBVIOUS
<1>10. \A i \in 1 .. n : s[i] \in R
  BY <1>7, <1>8 DEF Listed
<1>11. t \in [1 .. n + 1 -> T]
  BY <1>6, <1>9, <1>10
<1>12. ASSUME NEW i \in 1 .. n + 1, NEW j \in 1 .. n + 1, i < j PROVE t[i] < t[j]
  <2>1. i \in 1 .. n /\ t[i] = s[i]
    BY <1>9, <1>12
  <2>2. CASE j = n + 1
    <3>1. s[i] \in T /\ s[i] # top /\ t[j] = top
      BY <1>6, <1>9, <1>10, <2>1, <2>2
    <3>2. s[i] \in Nat /\ top \in Nat /\ s[i] <= top
      BY <1>3, <1>5, <3>1
    <3>3. QED
      BY <2>1, <3>1, <3>2
  <2>3. CASE j # n + 1
    <3>1. j \in 1 .. n /\ t[j] = s[j]
      BY <1>9, <2>3
    <3>2. QED
      BY <1>7, <1>8, <1>12, <2>1, <3>1 DEF Listed
  <2>4. QED
    BY <2>2, <2>3
<1>13. Listed(t, T)
  BY <1>7, <1>11, <1>12 DEF Listed
<1>14. QED
  BY <1>2, <1>13

LEMMA InTimeLists ==
  ASSUME NEW S, S \subseteq Nat, IsFiniteSet(S)
  PROVE  LET s == InTime(S)  n == Cardinality(S) IN
         /\ n \in Nat
         /\ s \in [1 .. n -> S]
         /\ \A i, j \in 1 .. n : i < j => s[i] < s[j]
         /\ \A t \in S : \E i \in 1 .. n : s[i] = t
<1>1. PICK n \in Nat : n = Cardinality(S)
  BY FS_CardinalityType
<1>2. PICK s : s = InTime(S)
  OBVIOUS
<1>3. Listed(s, S)
  <2>1. \E x \in [1 .. Cardinality(S) -> S] :
           \A i, j \in 1 .. Cardinality(S) : i < j => x[i] < x[j]
    BY Listable DEF Listed
  <2>2. QED
    BY <1>2, <2>1 DEF InTime, Listed
<1>4. s \in [1 .. n -> S] /\ \A i, j \in 1 .. n : i < j => s[i] < s[j]
  BY <1>1, <1>3 DEF Listed
<1>5. \A i \in 1 .. n : s[i] \in Nat
  BY <1>4
<1>6. s \in Injection(1 .. n, S)
  <2>1. ASSUME NEW i \in 1 .. n, NEW j \in 1 .. n, s[i] = s[j] PROVE i = j
    <3>1. ~ (i < j) /\ ~ (j < i)
      BY <1>4, <1>5, <2>1
    <3>2. QED
      BY <3>1
  <2>2. QED
    BY <1>4, <2>1 DEF Injection, IsInjective
<1>7. Cardinality(1 .. n) = n
  BY FS_Interval
<1>8. s \in Surjection(1 .. n, S)
  BY <1>1, <1>6, <1>7, FS_Injection
<1>9. QED
  BY <1>1, <1>2, <1>4, <1>8 DEF Surjection

(* What a reply is: first the earliest of what is asked for, then each     *)
(* message after the one before it, and a complete in the end.             *)
Begins(b, m, from) ==
    IF m.type = "response" THEN \A u \in Held[b] : u < m.payload[1] => u < from
    ELSE m.isFulfilled => \A u \in Held[b] : u < from

IsReply(b, q, request, from) ==
    /\ q \in Seq(Message) /\ Len(q) > 0
    /\ \A i \in 1 .. Len(q) : q[i].request = request /\ q[i].seqNum = i - 1
    /\ \A i \in 1 .. Len(q) - 1 :
         /\ q[i].type = "response" /\ \E t \in Held[b] : q[i].payload = <<t>>
         /\ Follows(b, q[i].payload[1], q[i + 1])
    /\ q[Len(q)].type = "complete"
    /\ Len(q) = 1 => q[1].isFulfilled
    /\ Begins(b, q[1], from)

LEMMA ReplyIsReply ==
  ASSUME NEW b \in Broker, NEW request \in Nat, NEW from \in Nat
  PROVE  IsReply(b, Reply(b, request, from), request, from)
<1>1. PICK S : S = {t \in Held[b] : t >= from}
  OBVIOUS
<1>2. Held[b] \subseteq 1 .. To /\ To \in Nat
  BY HeldAssumption
<1>3. S \subseteq Nat /\ IsFiniteSet(S)
  <2>1. S \in SUBSET (1 .. To) /\ S \subseteq Nat
    BY <1>1, <1>2
  <2>2. IsFiniteSet(1 .. To)
    BY <1>2, FS_Interval
  <2>3. IsFiniteSet(S)
    BY ONLY <2>1, <2>2, FS_Subset
  <2>4. QED
    BY <2>1, <2>3
<1>4. PICK n \in Nat : n = Cardinality(S)
  BY <1>3, FS_CardinalityType
<1>5. PICK s \in [1 .. n -> S] :
         /\ s = InTime(S)
         /\ \A i, j \in 1 .. n : i < j => s[i] < s[j]
         /\ \A t \in S : \E i \in 1 .. n : s[i] = t
  <2>1. PICK s : s = InTime(S)
    OBVIOUS
  <2>2. /\ s \in [1 .. n -> S]
        /\ \A i, j \in 1 .. n : i < j => s[i] < s[j]
        /\ \A t \in S : \E i \in 1 .. n : s[i] = t
    BY ONLY <1>3, <1>4, <2>1, InTimeLists
  <2>3. QED
    BY ONLY <2>1, <2>2
<1>6. \A i \in 1 .. n : s[i] \in Held[b] /\ s[i] \in 1 .. To /\ s[i] >= from /\ s[i] \in Nat
  BY <1>1, <1>2
<1>7. PICK c \in Nat : /\ c = IF n < RoundLimit THEN n ELSE RoundLimit
                      /\ c <= n /\ (c = 0 => n = 0)
  BY LimitAssumption
<1>8. PICK q : q = Reply(b, request, from)
  OBVIOUS
<1>9. q = [i \in 1 .. c + 1 |->
             IF i <= c
             THEN [type |-> "response", request |-> request, seqNum |-> i - 1,
                   payload |-> <<s[i]>>]
             ELSE [type |-> "complete", request |-> request, seqNum |-> c,
                   isFulfilled |-> c = n]]
  <2>1. Len(s) = n
    BY <1>5
  <2>2. QED
    BY <1>1, <1>5, <1>7, <1>8, <2>1 DEF Reply
<1>10. ASSUME NEW i \in 1 .. c
       PROVE  q[i] = [type |-> "response", request |-> request, seqNum |-> i - 1,
                      payload |-> <<s[i]>>]
  BY <1>9
<1>11. q[c + 1] = [type |-> "complete", request |-> request, seqNum |-> c, isFulfilled |-> c = n]
  BY <1>9
<1>12. DOMAIN q = 1 .. c + 1
  BY <1>9
<1>13. q \in [1 .. c + 1 -> Message]
  <2>1. ASSUME NEW i \in 1 .. c PROVE q[i] \in Message
    <3>1. i \in 1 .. n /\ i - 1 \in Nat
      BY <1>7
    <3>2. PICK load \in Seq(1 .. To) : load = <<s[i]>>
      <4>1. PICK t \in 1 .. To : t = s[i]
        BY <1>6, <3>1
      <4>2. <<t>> \in Seq(1 .. To)
        BY ONLY t \in 1 .. To
      <4>3. QED
        BY <4>1, <4>2
    <3>3. q[i] = [type |-> "response", request |-> request, seqNum |-> i - 1, payload |-> load]
      BY <1>10, <3>2
    <3>4. QED
      BY ONLY <3>1, <3>2, <3>3, request \in Nat DEF Message
  <2>2. q[c + 1] \in Message
    BY <1>11 DEF Message
  <2>3. \A i \in 1 .. c + 1 : q[i] \in Message
    BY <2>1, <2>2
  <2>4. q = [i \in 1 .. c + 1 |-> q[i]]
    BY <1>9
  <2>5. QED
    BY <2>3, <2>4
<1>14. q \in Seq(Message) /\ Len(q) = c + 1
  BY <1>13
<1>15. \A i \in 1 .. c + 1 : q[i].request = request /\ q[i].seqNum = i - 1
  <2>1. ASSUME NEW i \in 1 .. c PROVE q[i].request = request /\ q[i].seqNum = i - 1
    <3>1. q[i] = [type |-> "response", request |-> request, seqNum |-> i - 1, payload |-> <<s[i]>>]
      BY <1>10
    <3>2. QED
      BY ONLY <3>1
  <2>2. q[c + 1].request = request /\ q[c + 1].seqNum = c
    BY <1>11
  <2>3. QED
    BY <2>1, <2>2
<1>16. ASSUME NEW i \in 1 .. c
       PROVE  q[i].type = "response" /\ q[i].payload = <<s[i]>> /\ q[i].payload[1] = s[i]
  <2>1. q[i] = [type |-> "response", request |-> request, seqNum |-> i - 1, payload |-> <<s[i]>>]
    BY <1>10
  <2>2. QED
    BY ONLY <2>1
<1>17. q[c + 1].type = "complete" /\ (q[c + 1].isFulfilled <=> c = n)
  <2>1. q[c + 1].type = "complete"
    BY ONLY <1>11
  <2>2. CASE c = n
    <3>1. q[c + 1] = [type |-> "complete", request |-> request, seqNum |-> c, isFulfilled |-> TRUE]
      BY <1>11, <2>2
    <3>2. QED
      BY ONLY <2>2, <3>1
  <2>3. CASE c # n
    <3>1. q[c + 1] = [type |-> "complete", request |-> request, seqNum |-> c, isFulfilled |-> FALSE]
      BY <1>11, <2>3
    <3>2. QED
      BY ONLY <2>3, <3>1
  <2>4. QED
    BY <2>2, <2>3
<1>18. ASSUME NEW u \in Held[b], NEW i \in 1 .. c, i < n => u < s[i + 1] PROVE u <= s[i]
  <2>1. CASE u >= from
    <3>1. PICK k \in 1 .. n : s[k] = u
      BY <1>1, <1>5, <2>1
    <3>2. k <= i
      <4>1. SUFFICES ASSUME i < k PROVE FALSE
        OBVIOUS
      <4>2. i < n /\ i + 1 \in 1 .. n /\ (k = i + 1 \/ i + 1 < k)
        BY <1>7, <4>1
      <4>3. s[i + 1] <= s[k]
        BY <1>5, <1>6, <4>2
      <4>4. QED
        BY <1>6, <1>18, <3>1, <4>2, <4>3
    <3>3. i \in 1 .. n /\ (k = i \/ k < i)
      BY <1>7, <3>2
    <3>4. QED
      BY <1>5, <1>6, <3>1, <3>3
  <2>2. CASE ~ (u >= from)
    <3>1. i \in 1 .. n /\ u \in Nat
      BY <1>2, <1>7
    <3>2. QED
      BY <1>6, <2>2, <3>1
  <2>3. QED
    BY <2>1, <2>2
<1>19. ASSUME NEW i \in 1 .. c PROVE Follows(b, q[i].payload[1], q[i + 1])
  <2>1. CASE i + 1 \in 1 .. c
    <3>1. q[i + 1].type = "response" /\ q[i + 1].payload[1] = s[i + 1] /\ q[i].payload[1] = s[i]
      BY <1>16, <2>1
    <3>2. \A u \in Held[b] : u < s[i + 1] => u <= s[i]
      BY <1>18
    <3>3. QED
      BY <3>1, <3>2 DEF Follows
  <2>2. CASE i = c
    <3>1. q[i].payload[1] = s[i] /\ q[i + 1].type = "complete" /\ (q[i + 1].isFulfilled <=> c = n)
      BY <1>16, <1>17, <2>2
    <3>2. c = n => \A u \in Held[b] : u <= s[i]
      BY <1>18, <2>2
    <3>3. QED
      BY <3>1, <3>2 DEF Follows
  <2>3. QED
    BY <2>1, <2>2
<1>20. Begins(b, q[1], from)
  <2>1. CASE c = 0
    <3>1. q[1].type = "complete" /\ n = 0
      BY <1>7, <1>17, <2>1
    <3>2. S = {}
      BY <1>5, <3>1
    <3>3. \A u \in Held[b] : u < from
      BY <1>1, <1>2, <3>2
    <3>4. QED
      BY <3>1, <3>3 DEF Begins
  <2>2. CASE c > 0
    <3>1. 1 \in 1 .. c /\ 1 \in 1 .. n
      BY <1>7, <2>2
    <3>2. q[1].type = "response" /\ q[1].payload[1] = s[1]
      BY <1>16, <3>1
    <3>3. ASSUME NEW u \in Held[b], u < s[1], ~ (u < from) PROVE FALSE
      <4>1. u \in S
        BY <1>1, <1>2, <3>3
      <4>2. PICK k \in 1 .. n : s[k] = u
        BY <1>5, <4>1
      <4>3. s[1] <= s[k]
        BY <1>5, <1>6, <3>1
      <4>4. QED
        BY <1>6, <3>1, <3>3, <4>2, <4>3
    <3>4. QED
      BY <3>2, <3>3 DEF Begins
  <2>3. QED
    BY <1>7, <2>1, <2>2
<1>21. ASSUME NEW i \in 1 .. Len(q) - 1
       PROVE  /\ q[i].type = "response" /\ \E t \in Held[b] : q[i].payload = <<t>>
              /\ Follows(b, q[i].payload[1], q[i + 1])
  <2>1. i \in 1 .. c /\ i \in 1 .. n
    BY <1>7, <1>14
  <2>2. QED
    BY <1>6, <1>16, <1>19, <2>1
<1>22. Len(q) = 1 => q[1].isFulfilled
  BY <1>7, <1>14, <1>17
<1>23. Len(q) > 0 /\ q[Len(q)].type = "complete"
       /\ \A i \in 1 .. Len(q) : q[i].request = request /\ q[i].seqNum = i - 1
  BY <1>14, <1>15, <1>17
<1>24. QED
  BY ONLY <1>8, <1>14, <1>20, <1>21, <1>22, <1>23 DEF IsReply

-------------------------------------------------------------------------------
(* Taking the first message of a queue, or none, keeps what is known of it.*)
Queue(b, d) == /\ requestId' = requestId
               /\ d = 1 => inFlight[b] # <<>>
               /\ inFlight'[b] = IF d = 0 THEN inFlight[b] ELSE Tail(inFlight[b])

LEMMA QueueMoves ==
  ASSUME NEW b, inFlight[b] \in Seq(Message), NEW d \in {0, 1}, Queue(b, d)
  PROVE  /\ inFlight'[b] \in Seq(Message)
         /\ Len(inFlight'[b]) = Len(inFlight[b]) - d
         /\ \A i \in 1 .. Len(inFlight'[b]) : /\ i + d \in 1 .. Len(inFlight[b])
                                             /\ inFlight'[b][i] = inFlight[b][i + d]
<1>1. CASE d = 0
  BY <1>1 DEF Queue
<1>2. CASE d = 1
  <2>1. inFlight[b] # <<>> /\ inFlight'[b] = Tail(inFlight[b])
    BY <1>2 DEF Queue
  <2>2. QED
    BY <1>2, <2>1
<1>3. QED
  BY <1>1, <1>2

LEMMA QueueKeeps ==
  ASSUME NEW b, InOrder(b), NEW d \in {0, 1}, Queue(b, d)
  PROVE  /\ InOrder(b)'
         /\ \A i \in Waiting(b)' : i + d \in Waiting(b) /\ inFlight'[b][i] = inFlight[b][i + d]
<1>1. inFlight[b] \in Seq(Message) /\ requestId' = requestId
  BY DEF InOrder, Queue
<1>2. PICK old \in Seq(Message) : old = inFlight[b]
  BY <1>1
<1>3. PICK new \in Seq(Message) :
         /\ new = inFlight'[b]
         /\ \A i \in 1 .. Len(new) : i + d \in 1 .. Len(old) /\ new[i] = old[i + d]
  BY <1>1, <1>2, QueueMoves
<1>4. ASSUME NEW i \in Waiting(b)'
      PROVE  i \in 1 .. Len(new) /\ i + d \in Waiting(b) /\ new[i] = old[i + d]
  BY <1>1, <1>2, <1>3, <1>4 DEF Waiting
<1>5. \A i \in 1 .. Len(new) : new[i].request \in 1 .. requestId'
  <2>1. \A i \in 1 .. Len(old) : old[i].request \in 1 .. requestId
    BY <1>2 DEF InOrder
  <2>2. QED
    BY <1>1, <1>3, <2>1
<1>6. ASSUME NEW i \in Waiting(b)'
      PROVE  /\ new[i].type = "response" => \E t \in Held[b] : new[i].payload = <<t>>
             /\ new[i].type = "complete" /\ new[i].seqNum = 0 => new[i].isFulfilled
  <2>1. PICK m : m = new[i] /\ m = old[i + d]
    BY <1>4
  <2>2. /\ m.type = "response" => \E t \in Held[b] : m.payload = <<t>>
        /\ m.type = "complete" /\ m.seqNum = 0 => m.isFulfilled
    BY <1>2, <1>4, <2>1 DEF InOrder
  <2>3. QED
    BY <2>1, <2>2
<1>7. ASSUME NEW i \in Waiting(b)', NEW j \in Waiting(b)', i < j
      PROVE  /\ new[i].seqNum < new[j].seqNum
             /\ new[i].type = "response" /\ new[j].seqNum = new[i].seqNum + 1
                  => Follows(b, new[i].payload[1], new[j])
  <2>1. PICK l, m : l = new[i] /\ m = new[j] /\ l = old[i + d] /\ m = old[j + d]
    BY <1>4
  <2>2. i + d \in Waiting(b) /\ j + d \in Waiting(b) /\ i + d < j + d
    BY <1>4, <1>7
  <2>3. /\ l.seqNum < m.seqNum
        /\ l.type = "response" /\ m.seqNum = l.seqNum + 1 => Follows(b, l.payload[1], m)
    BY <1>2, <2>1, <2>2 DEF InOrder, Due
  <2>4. QED
    BY <2>1, <2>3
<1>8. InOrder(b)'
  <2>1. \A i, j \in Waiting(b)' : i < j =>
          /\ inFlight'[b][i].seqNum < inFlight'[b][j].seqNum
          /\ inFlight'[b][i].type = "response" /\ j \in Due(b, inFlight[b][i].seqNum)'
                => Follows(b, inFlight[b][i].payload[1], inFlight[b][j])'
    <3>1. \A x, y : Follows(b, x, y)' <=> Follows(b, x, y)
      BY DEF Follows
    <3>2. QED
      BY <1>3, <1>7, <3>1 DEF Due, Follows
  <2>2. QED
    BY <1>3, <1>5, <1>6, <2>1 DEF InOrder
<1>9. QED
  BY <1>2, <1>3, <1>4, <1>8

LEMMA StoredStays ==
  ASSUME NEW b, NEW m, StoredBefore(b, m), db \subseteq db' PROVE StoredBefore(b, m)'
BY DEF StoredBefore

LEMMA NextKeeps ==
  ASSUME NEW b, InOrder(b), NextIsSafe(b), NEW d \in {0, 1}, Queue(b, d),
         db \subseteq db', posts' = posts, progress'[b].lastSeqNum = progress[b].lastSeqNum
  PROVE  NextIsSafe(b)'
<1>1. \A i \in Waiting(b)' : i + d \in Waiting(b) /\ inFlight'[b][i] = inFlight[b][i + d]
  BY QueueKeeps
<1>2. \A k : \A i \in Due(b, k)' : i + d \in Due(b, k) /\ inFlight'[b][i] = inFlight[b][i + d]
  BY <1>1 DEF Due
<1>3. requestId' = requestId
  BY DEF Queue
<1>4. ASSUME NEW i \in Due(b, -1)' PROVE StoredBefore(b, inFlight[b][i])'
  <2>1. PICK m : m = inFlight'[b][i] /\ m = inFlight[b][i + d] /\ i + d \in Due(b, -1)
    BY <1>2
  <2>2. StoredBefore(b, m)'
    BY <2>1, StoredStays DEF NextIsSafe
  <2>3. QED
    BY <2>1, <2>2 DEF StoredBefore
<1>5. ASSUME requestId' \notin posts', NEW i \in Waiting(b)'
      PROVE  inFlight'[b][i].seqNum > progress'[b].lastSeqNum
  BY <1>1, <1>3, <1>5 DEF NextIsSafe
<1>6. ASSUME requestId' \notin posts', NEW i \in Due(b, progress[b].lastSeqNum)'
      PROVE  StoredBefore(b, inFlight[b][i])'
  <2>1. Due(b, progress[b].lastSeqNum)' = {j \in Waiting(b)' : inFlight'[b][j].seqNum = progress[b].lastSeqNum + 1}
    BY DEF Due
  <2>2. PICK m : /\ m = inFlight'[b][i] /\ m = inFlight[b][i + d]
                 /\ i + d \in Due(b, progress[b].lastSeqNum)
    BY <1>1, <1>6, <2>1 DEF Due
  <2>3. StoredBefore(b, m)'
    BY <1>3, <1>6, <2>2, StoredStays DEF NextIsSafe
  <2>4. QED
    BY <2>2, <2>3 DEF StoredBefore
<1>7. QED
  BY <1>4, <1>5, <1>6 DEF NextIsSafe

LEMMA HandledKeeps ==
  ASSUME NEW b, InOrder(b), HandledIsSafe(b), NEW d \in {0, 1}, Queue(b, d),
         db \subseteq db', posts' = posts, handling' = handling,
         progress[b].timestamp > 0 => progress'[b].timestamp > 0
  PROVE  HandledIsSafe(b)'
<1>1. \A i \in Waiting(b)' : i + d \in Waiting(b) /\ inFlight'[b][i] = inFlight[b][i + d]
  BY QueueKeeps
<1>2. requestId' = requestId
  BY DEF Queue
<1>3. PICK k, load : k = handling.seqNum /\ load = handling.payload
  OBVIOUS
<1>4. /\ load # <<>> => \A t \in Held[b] : t < load[1] => t \in db'
      /\ load = <<>> => progress'[b].timestamp > 0
  BY <1>3 DEF HandledIsSafe
<1>5. ASSUME requestId' \notin posts', NEW i \in Waiting(b)' PROVE inFlight'[b][i].seqNum > k
  BY <1>1, <1>2, <1>3, <1>5 DEF HandledIsSafe
<1>6. ASSUME requestId' \notin posts', NEW i \in Due(b, handling.seqNum)'
      PROVE  IF load = <<>> THEN StoredBefore(b, inFlight[b][i])'
             ELSE Follows(b, load[1], inFlight'[b][i])
  <2>1. PICK m : m = inFlight'[b][i] /\ m = inFlight[b][i + d] /\ i + d \in Due(b, k)
    BY <1>1, <1>3, <1>6 DEF Due
  <2>2. IF load = <<>> THEN StoredBefore(b, m) ELSE Follows(b, load[1], m)
    BY <1>2, <1>3, <1>6, <2>1 DEF HandledIsSafe
  <2>3. CASE load = <<>>
    <3>1. StoredBefore(b, m)'
      BY <2>2, <2>3, StoredStays
    <3>2. QED
      BY <2>1, <2>3, <3>1 DEF StoredBefore
  <2>4. CASE load # <<>>
    BY <2>1, <2>2, <2>4
  <2>5. QED
    BY <2>3, <2>4
<1>7. QED
  BY <1>3, <1>4, <1>5, <1>6 DEF HandledIsSafe, Follows

(* What a call asks for starts no later than what is missing.              *)
LEMMA FromIsSafe ==
  ASSUME RecoveryInv
  PROVE  /\ From \in Nat
         /\ early = 0 => \A b \in Broker : \A t \in Held[b] : t < From => t \in db
<1>1. /\ known \subseteq Broker
      /\ \A b \in Broker : progress[b].timestamp \in Nat
      /\ \A b \in Broker : Held[b] \subseteq Nat
  BY HeldAssumption DEF RecoveryInv, TypeOK, Progress
<1>2. CASE ~ AllStarted
  BY <1>1, <1>2 DEF From, SummaryTimestamp
<1>3. CASE AllStarted
  <2>1. PICK Times : Times = {progress[b].timestamp : b \in known}
    OBVIOUS
  <2>2. Times \subseteq Nat /\ Times # {}
    BY <1>1, <1>3, <2>1 DEF AllStarted
  <2>3. PICK least \in Times : \A t \in Times : least <= t
    BY ONLY <2>2, MinimalNumber
  <2>4. From \in Times /\ \A b \in known : From <= progress[b].timestamp
    <3>1. From = CHOOSE t \in Times : \A b \in known : t <= progress[b].timestamp
      BY <1>3, <2>1 DEF From, SummaryTimestamp
    <3>2. \A b \in known : least <= progress[b].timestamp
      BY <2>1, <2>3
    <3>3. QED
      BY <2>3, <3>1, <3>2
  <2>5. ASSUME early = 0, NEW b \in Broker, NEW t \in Held[b], t < From PROVE t \in db
    <3>1. known = Broker
      BY <1>3, <2>5 DEF RecoveryInv, Safe, AllStarted
    <3>2. From <= progress[b].timestamp /\ From \in Nat /\ t \in Nat /\ progress[b].timestamp \in Nat
      BY <1>1, <2>2, <2>4, <3>1
    <3>3. t <= progress[b].timestamp
      BY <2>5, <3>2
    <3>4. QED
      BY <2>5, <3>3 DEF RecoveryInv, Safe, ProgressIsSafe
  <2>6. QED
    BY <2>2, <2>4, <2>5
<1>4. QED
  BY <1>2, <1>3

-------------------------------------------------------------------------------
(* SendRequest: the messages of the current request are those of the reply *)
(* that is appended.                                                       *)
Appends(b, q) ==
    /\ IsReply(b, q, requestId', From)
    /\ inFlight'[b] \in Seq(Message)
    /\ \A i \in 1 .. Len(inFlight'[b]) : inFlight'[b][i].request \in 1 .. requestId'
    /\ \A i \in Waiting(b)' : /\ i - Len(inFlight[b]) \in 1 .. Len(q)
                             /\ inFlight'[b][i] = q[i - Len(inFlight[b])]

LEMMA Appended ==
  ASSUME RecoveryInv, SendRequest, NEW b \in Broker PROVE \E q : Appends(b, q)
<1>1. requestId \in Nat /\ requestId' = requestId + 1 /\ requestId' \in Nat
  BY DEF RecoveryInv, TypeOK, SendRequest
<1>2. PICK q : q = Reply(b, requestId', From)
  OBVIOUS
<1>3. IsReply(b, q, requestId', From)
  <2>1. From \in Nat
    BY FromIsSafe
  <2>2. QED
    BY ONLY <1>1, <1>2, <2>1, b \in Broker, ReplyIsReply
<1>4. PICK old \in Seq(Message) : /\ old = inFlight[b]
                                 /\ \A i \in 1 .. Len(old) : old[i].request \in 1 .. requestId
  BY DEF RecoveryInv, InOrder
<1>5. inFlight'[b] = old \o q
  BY <1>2, <1>4 DEF SendRequest
<1>6. q \in Seq(Message) /\ \A i \in 1 .. Len(q) : q[i].request = requestId'
  BY ONLY <1>3 DEF IsReply
<1>7. PICK new : new = inFlight'[b]
  OBVIOUS
<1>8. /\ new \in Seq(Message)
      /\ Len(new) = Len(old) + Len(q)
      /\ \A i \in 1 .. Len(new) : new[i] = IF i <= Len(old) THEN old[i] ELSE q[i - Len(old)]
  BY ONLY <1>4, <1>5, <1>6, <1>7
<1>9. ASSUME NEW i \in 1 .. Len(new)
      PROVE  /\ new[i].request \in 1 .. requestId'
             /\ new[i].request = requestId' => /\ i - Len(old) \in 1 .. Len(q)
                                              /\ new[i] = q[i - Len(old)]
  <2>1. CASE i <= Len(old)
    <3>1. new[i] = old[i] /\ i \in 1 .. Len(old)
      BY ONLY <1>4, <1>8, <1>9, <2>1
    <3>2. new[i].request \in 1 .. requestId
      BY ONLY <1>4, <3>1
    <3>3. QED
      BY ONLY <1>1, <3>2
  <2>2. CASE ~ (i <= Len(old))
    <3>1. i - Len(old) \in 1 .. Len(q) /\ new[i] = q[i - Len(old)]
      BY ONLY <1>4, <1>6, <1>8, <1>9, <2>2
    <3>2. requestId' \in 1 .. requestId'
      BY ONLY <1>1
    <3>3. QED
      BY ONLY <1>6, <3>1, <3>2
  <2>3. QED
    BY <2>1, <2>2
<1>10. \A i \in Waiting(b)' : i \in 1 .. Len(new) /\ new[i].request = requestId'
  BY <1>7 DEF Waiting
<1>11. Appends(b, q)
  BY ONLY <1>3, <1>4, <1>7, <1>8, <1>9, <1>10 DEF Appends
<1>12. QED
  BY <1>11

LEMMA SendKeeps ==
  ASSUME RecoveryInv, SendRequest, NEW b \in Broker
  PROVE  /\ InOrder(b)'
         /\ early = 0 => \A i \in Due(b, -1)' : StoredBefore(b, inFlight[b][i])'
<1>1. PICK new, q, L : /\ new = inFlight'[b] /\ L = Len(inFlight[b])
                       /\ IsReply(b, q, requestId', From)
                       /\ new \in Seq(Message)
                       /\ \A i \in 1 .. Len(new) : new[i].request \in 1 .. requestId'
                       /\ \A i \in Waiting(b)' : i - L \in 1 .. Len(q) /\ new[i] = q[i - L]
  <2>1. PICK new, L : new = inFlight'[b] /\ L = Len(inFlight[b])
    OBVIOUS
  <2>2. PICK q : Appends(b, q)
    BY Appended
  <2>3. /\ new \in Seq(Message)
        /\ \A i \in 1 .. Len(new) : new[i].request \in 1 .. requestId'
        /\ \A i \in Waiting(b)' : i - L \in 1 .. Len(q) /\ new[i] = q[i - L]
    BY ONLY <2>1, <2>2 DEF Appends
  <2>4. IsReply(b, q, requestId', From)
    BY ONLY <2>2 DEF Appends
  <2>5. new = inFlight'[b] /\ L = Len(inFlight[b])
    BY ONLY <2>1
  <2>6. WITNESS new, q, L
  <2>7. QED
    BY ONLY <2>3, <2>4, <2>5
<1>2. L \in Nat /\ Len(new) \in Nat
  <2>1. inFlight[b] \in Seq(Message)
    BY DEF RecoveryInv, InOrder
  <2>2. QED
    BY ONLY <1>1, <2>1
<1>3. q \in Seq(Message) /\ Len(q) \in Nat /\ Len(q) > 0
  BY ONLY <1>1 DEF IsReply
<1>4. \A k \in 1 .. Len(q) - 1 : /\ q[k].type = "response" /\ \E t \in Held[b] : q[k].payload = <<t>>
                                /\ Follows(b, q[k].payload[1], q[k + 1])
  BY ONLY <1>1 DEF IsReply
<1>5. q[Len(q)].type = "complete" /\ (Len(q) = 1 => q[1].isFulfilled) /\ Begins(b, q[1], From)
  BY ONLY <1>1 DEF IsReply
<1>6. \A k \in 1 .. Len(q) : q[k].seqNum = k - 1
  BY ONLY <1>1 DEF IsReply
<1>7. ASSUME NEW i \in Waiting(b)'
      PROVE  /\ new[i].type = "response" => \E t \in Held[b] : new[i].payload = <<t>>
             /\ new[i].type = "complete" /\ new[i].seqNum = 0 => new[i].isFulfilled
  <2>1. PICK k \in 1 .. Len(q) : new[i] = q[k]
    BY <1>1
  <2>2. CASE k = Len(q)
    <3>1. k - 1 = 0 => Len(q) = 1 /\ k = 1
      BY ONLY <1>3, <2>1, <2>2
    <3>2. QED
      BY ONLY <1>5, <1>6, <2>1, <2>2, <3>1
  <2>3. CASE k # Len(q)
    <3>1. k \in 1 .. Len(q) - 1
      BY ONLY <1>3, <2>1, <2>3
    <3>2. QED
      BY ONLY <1>4, <2>1, <3>1
  <2>4. QED
    BY <2>2, <2>3
<1>8. ASSUME NEW i \in Waiting(b)', NEW j \in Waiting(b)', i < j
      PROVE  /\ new[i].seqNum < new[j].seqNum
             /\ new[i].type = "response" /\ new[j].seqNum = new[i].seqNum + 1
                  => Follows(b, new[i].payload[1], new[j])
  <2>1. i \in Int /\ j \in Int
    BY <1>2 DEF Waiting
  <2>2. PICK k \in 1 .. Len(q), l \in 1 .. Len(q) :
           /\ new[i] = q[k] /\ new[j] = q[l] /\ k = i - L /\ l = j - L
    BY <1>1
  <2>3. k < l
    BY ONLY <1>2, <1>8, <2>1, <2>2
  <2>4. new[i].seqNum = k - 1 /\ new[j].seqNum = l - 1
    BY ONLY <1>6, <2>2
  <2>5. ASSUME new[j].seqNum = new[i].seqNum + 1 PROVE Follows(b, new[i].payload[1], new[j])
    <3>1. l = k + 1 /\ k \in 1 .. Len(q) - 1
      BY ONLY <1>3, <2>2, <2>3, <2>4, <2>5
    <3>2. QED
      BY ONLY <1>4, <2>2, <3>1
  <2>6. QED
    BY ONLY <2>2, <2>3, <2>4, <2>5, <1>3
<1>9. InOrder(b)'
  <2>1. \A i, j \in Waiting(b)' : i < j =>
          /\ inFlight'[b][i].seqNum < inFlight'[b][j].seqNum
          /\ inFlight'[b][i].type = "response" /\ j \in Due(b, inFlight[b][i].seqNum)'
                => Follows(b, inFlight[b][i].payload[1], inFlight[b][j])'
    BY <1>1, <1>8 DEF Due, Follows
  <2>2. QED
    BY <1>1, <1>7, <2>1 DEF InOrder
<1>10. ASSUME early = 0, NEW i \in Due(b, -1)' PROVE StoredBefore(b, inFlight[b][i])'
  <2>1. i \in Waiting(b)' /\ new[i].seqNum = 0
    BY <1>1, <1>10 DEF Due
  <2>2. PICK k \in 1 .. Len(q) : new[i] = q[k]
    BY <1>1, <2>1
  <2>3. k = 1
    BY ONLY <1>3, <1>6, <2>1, <2>2
  <2>4. Begins(b, new[i], From)
    BY ONLY <1>5, <2>2, <2>3
  <2>5. \A t \in Held[b] : t < From => t \in db'
    BY <1>10, FromIsSafe DEF SendRequest
  <2>6. QED
    BY <1>1, <2>4, <2>5 DEF Begins, StoredBefore
<1>11. QED
  BY <1>9, <1>10

-------------------------------------------------------------------------------
(* Every other step takes the first message of a queue, or none.           *)
LEMMA Moves ==
  ASSUME RecoveryInv, [Next]_vars, ~ SendRequest, NEW b \in Broker
  PROVE  \E d \in {0, 1} : Queue(b, d)
<1>1. inFlight \in [Broker -> Seq(Message)]
  BY DEF RecoveryInv, TypeOK
<1>2. ASSUME inFlight' = inFlight, requestId' = requestId PROVE \E d \in {0, 1} : Queue(b, d)
  <2>1. Queue(b, 0)
    BY <1>2 DEF Queue
  <2>2. QED
    BY <2>1
<1>3. ASSUME NEW c \in Broker, inFlight[c] # <<>>, requestId' = requestId,
             inFlight' = [inFlight EXCEPT ![c] = Tail(@)]
      PROVE  \E d \in {0, 1} : Queue(b, d)
  <2>1. CASE b = c
    <3>1. Queue(b, 1)
      BY <1>1, <1>3, <2>1 DEF Queue
    <3>2. QED
      BY <3>1
  <2>2. CASE b # c
    <3>1. Queue(b, 0)
      BY <1>1, <1>3, <2>2 DEF Queue
    <3>2. QED
      BY <3>1
  <2>3. QED
    BY <2>1, <2>2
<1>4. CASE \E c \in Broker : Discard(c) \/ Reject(c) \/ TakeResponse(c) \/ TakeComplete(c) \/ Lose(c)
  <2>1. PICK c \in Broker : Discard(c) \/ Reject(c) \/ TakeResponse(c) \/ TakeComplete(c) \/ Lose(c)
    BY <1>4
  <2>2. inFlight[c] # <<>> /\ requestId' = requestId /\ inFlight' = [inFlight EXCEPT ![c] = Tail(@)]
    BY <2>1 DEF Discard, Reject, TakeResponse, TakeComplete, Lose, Take, callVars
  <2>3. QED
    BY <1>3, <2>2
<1>5. CASE ~ \E c \in Broker : Discard(c) \/ Reject(c) \/ TakeResponse(c) \/ TakeComplete(c) \/ Lose(c)
  <2>1. \/ \E request \in posts : Answer(request)
        \/ StoreMessage \/ FinishResponse \/ ActivityTimeout \/ Rearm \/ RestartTimeout
        \/ Stop \/ UNCHANGED vars
    BY <1>5 DEF Next, Call, Handle, Timeout
  <2>2. inFlight' = inFlight /\ requestId' = requestId
    BY <2>1 DEF Answer, StoreMessage, FinishResponse, ActivityTimeout, Rearm, RestartTimeout,
                Stop, vars, callVars
  <2>3. QED
    BY <1>2, <2>2
<1>6. QED
  BY <1>4, <1>5

LEMMA OrderKept ==
  ASSUME RecoveryInv, [Next]_vars PROVE \A b \in Broker : InOrder(b)'
<1>1. TAKE b \in Broker
<1>2. InOrder(b)
  BY DEF RecoveryInv
<1>3. CASE SendRequest
  BY <1>3, SendKeeps
<1>4. CASE ~ SendRequest
  <2>1. PICK d \in {0, 1} : Queue(b, d)
    BY <1>4, Moves
  <2>2. QED
    BY <1>2, <2>1, QueueKeeps
<1>5. QED
  BY <1>3, <1>4

(* The message that a handler takes.                                       *)
LEMMA Taken ==
  ASSUME RecoveryInv, NEW b \in Broker, inFlight[b] # <<>>, ~ IsStale(Head(inFlight[b]))
  PROVE  /\ Head(inFlight[b]) = inFlight[b][1] /\ 1 \in Waiting(b)
         /\ Head(inFlight[b]) \in Message
<1>1. inFlight[b] \in Seq(Message)
  BY DEF RecoveryInv, InOrder
<1>2. PICK q \in Seq(Message) : q = inFlight[b] /\ q # <<>>
  BY <1>1
<1>3. Head(q) = q[1] /\ 1 \in 1 .. Len(q) /\ Head(q) \in Message
  BY ONLY <1>2
<1>4. QED
  BY <1>2, <1>3 DEF IsStale, Waiting

LEMMA TypesKept ==
  ASSUME RecoveryInv, [Next]_vars PROVE TypeOK'
<1>1. inFlight' \in [Broker -> Seq(Message)]
  <2>1. \A b \in Broker : inFlight'[b] \in Seq(Message)
    BY OrderKept DEF InOrder
  <2>2. inFlight' = [b \in Broker |-> inFlight'[b]]
    <3>1. inFlight = [b \in Broker |-> inFlight[b]]
      BY DEF RecoveryInv, TypeOK
    <3>2. \/ inFlight' = inFlight
          \/ \E b \in Broker : inFlight' = [inFlight EXCEPT ![b] = Tail(@)]
          \/ inFlight' = [b \in Broker |-> inFlight[b] \o Reply(b, requestId', From)]
      BY DEF Next, Call, Handle, Timeout, SendRequest, Answer, Discard, Reject, TakeResponse,
             TakeComplete, Take, StoreMessage, FinishResponse, ActivityTimeout, Rearm,
             RestartTimeout, Stop, Lose, vars
    <3>3. QED
      BY <3>1, <3>2
  <2>3. QED
    BY <2>1, <2>2
<1> DEFINE Others ==
  /\ due \in Nat /\ requestId \in Nat /\ posts \subseteq 1 .. requestId
  /\ known \subseteq Broker
  /\ progress \in [Broker -> Progress]
  /\ handling \in [broker : Broker, seqNum : Nat, payload : Seq(1 .. To),
                   current : BOOLEAN] \union {Idle}
  /\ db \subseteq 1 .. To
  /\ isRestarting \in BOOLEAN /\ timer \in BOOLEAN /\ stopDue \in BOOLEAN
  /\ subscribed \in BOOLEAN
  /\ leaked \in Nat /\ restarts \in Nat
  /\ lost \in Nat /\ early \in Nat /\ hasty \in Nat
<1>2. Others
  BY DEF RecoveryInv, TypeOK
<1>3. ASSUME Others' PROVE TypeOK'
  BY <1>1, <1>3 DEF TypeOK
<1> HIDE DEF Others
<1>4. CASE SendRequest
  <2>1. /\ due > 0 /\ due' = due - 1 /\ requestId' = requestId + 1
        /\ posts' = posts \union {requestId'}
        /\ UNCHANGED <<known, progress, handling, db, isRestarting, timer, leaked, restarts,
                       stopDue, subscribed, lost, early, hasty>>
    BY <1>4 DEF SendRequest, progressVars, timerVars
  <2>2. due \in Nat /\ requestId \in Nat /\ posts \subseteq 1 .. requestId
    BY ONLY <1>2 DEF Others
  <2>3. due' \in Nat /\ requestId' \in Nat
    BY ONLY <2>1, <2>2
  <2>4. posts' \subseteq 1 .. requestId'
    BY ONLY <2>1, <2>2
  <2>5. Others'
    BY ONLY <1>2, <2>1, <2>3, <2>4 DEF Others
  <2>6. QED
    BY <1>3, <2>5
<1>5. CASE \E request \in posts : Answer(request)
  <2>1. \A b \in Broker : Restarted(progress[b]) \in Progress
    BY <1>2 DEF Others, Restarted, Progress
  <2>2. progress' \in [Broker -> Progress]
    BY <1>5, <2>1 DEF Answer
  <2>3. handling' \in [broker : Broker, seqNum : Nat, payload : Seq(1 .. To),
                      current : BOOLEAN] \union {Idle}
    BY <1>2, <1>5 DEF Others, Answer
  <2>4. QED
    <3>1. PICK request \in posts : Answer(request)
      BY <1>5
    <3>2. /\ posts' = posts \ {request} /\ known' = known \union Broker /\ timer' = TRUE
          /\ leaked' = IF timer THEN leaked + 1 ELSE leaked
          /\ isRestarting' = FALSE
          /\ UNCHANGED <<due, requestId, db, restarts, stopDue, subscribed, lost, early, hasty>>
      BY <3>1 DEF Answer
    <3>3. /\ due' \in Nat /\ requestId' \in Nat /\ posts' \subseteq 1 .. requestId'
          /\ known' \subseteq Broker /\ db' \subseteq 1 .. To
      BY ONLY <1>2, <3>2 DEF Others
    <3>4. /\ isRestarting' \in BOOLEAN /\ timer' \in BOOLEAN /\ stopDue' \in BOOLEAN
          /\ subscribed' \in BOOLEAN
      BY ONLY <1>2, <3>2 DEF Others
    <3>5. /\ leaked' \in Nat /\ restarts' \in Nat
          /\ lost' \in Nat /\ early' \in Nat /\ hasty' \in Nat
      BY ONLY <1>2, <3>2 DEF Others
    <3>6. Others'
      BY ONLY <2>2, <2>3, <3>3, <3>4, <3>5 DEF Others
    <3>7. QED
      BY <1>3, <3>6
<1>6. CASE \E b \in Broker : Discard(b) \/ Lose(b)
  <2>1. /\ UNCHANGED <<due, requestId, posts, known, progress, handling, db, isRestarting, timer,
                       leaked, restarts, stopDue, subscribed, early, hasty>>
        /\ lost' \in {lost, lost + 1}
    BY <1>6 DEF Discard, Lose, Take, callVars, progressVars, timerVars
  <2>2. Others'
    BY ONLY <1>2, <2>1 DEF Others
  <2>3. QED
    BY <1>3, <2>2
<1>7. CASE \E b \in Broker : Reject(b)
  <2>1. /\ isRestarting' \in BOOLEAN /\ timer' \in BOOLEAN /\ leaked' \in Nat /\ restarts' \in Nat
    <3>1. Fail
      BY <1>7 DEF Reject
    <3>2. isRestarting \in BOOLEAN /\ timer \in BOOLEAN /\ leaked \in Nat /\ restarts \in Nat
      BY <1>2 DEF Others
    <3>3. CASE isRestarting
      BY ONLY <3>1, <3>2, <3>3 DEF Fail, timerVars
    <3>4. CASE ~ isRestarting
      <4>1. isRestarting' = TRUE /\ timer' = FALSE /\ restarts' = restarts + 1 /\ leaked' = leaked
        BY ONLY <3>1, <3>4 DEF Fail
      <4>2. isRestarting' \in BOOLEAN
        BY ONLY <4>1
      <4>3. timer' \in BOOLEAN
        BY ONLY <4>1
      <4>4. leaked' \in Nat /\ restarts' \in Nat
        BY ONLY <3>2, <4>1
      <4>5. QED
        BY ONLY <4>2, <4>3, <4>4
    <3>5. QED
      BY <3>3, <3>4
  <2>2. early' \in Nat /\ known' \subseteq Broker
    BY <1>2, <1>7 DEF Others, Reject, CountEarly
  <2>3. QED
    BY <1>2, <1>3, <1>7, <2>1, <2>2 DEF Others, Reject, callVars
<1>8. CASE \E b \in Broker : TakeResponse(b)
  <2>0. PICK b \in Broker : TakeResponse(b)
    BY <1>8
  <2>1. PICK m : TakeResponse(b) /\ m = Head(inFlight[b])
    BY <2>0
  <2>2. early' \in Nat /\ known' \subseteq Broker
    BY <1>2, <2>1 DEF Others, TakeResponse, CountEarly
  <2>3. m \in Message /\ m.type = "response"
    BY <2>1, Taken DEF TakeResponse, Take
  <2>4. m.seqNum \in Nat /\ m.payload \in Seq(1 .. To)
    BY ONLY <2>3 DEF Message
  <2>5. handling' = [broker |-> b, seqNum |-> m.seqNum, payload |-> m.payload, current |-> TRUE]
    BY <2>1 DEF TakeResponse
  <2>6. handling' \in [broker : Broker, seqNum : Nat, payload : Seq(1 .. To),
                      current : BOOLEAN] \union {Idle}
    BY ONLY <2>4, <2>5, b \in Broker
  <2>7. QED
    BY <1>2, <1>3, <2>1, <2>2, <2>6 DEF Others, TakeResponse, callVars, timerVars
<1>9. CASE \E b \in Broker : TakeComplete(b)
  <2>0. PICK b \in Broker : TakeComplete(b)
    BY <1>9
  <2>1. PICK m : TakeComplete(b) /\ m = Head(inFlight[b])
    BY <2>0
  <2>2. early' \in Nat /\ known' \subseteq Broker
    BY <1>2, <2>1 DEF Others, TakeComplete, CountEarly
  <2>3. m \in Message /\ m.type = "complete"
    BY <2>1, Taken DEF TakeComplete, Take
  <2>4. m.isFulfilled \in BOOLEAN
    BY ONLY <2>3 DEF Message
  <2>5. progress' \in [Broker -> Progress]
    <3>1. progress[b] \in Progress /\ To \in Nat /\ progress \in [Broker -> Progress]
      BY <1>2, HeldAssumption DEF Others
    <3>2. Completed(progress[b], m) \in Progress
      <4>1. PICK p, f : p = progress[b] /\ f = m.isFulfilled /\ p \in Progress /\ f \in BOOLEAN
        BY ONLY <2>4, <3>1
      <4>2. PICK t : t = (IF p.timestamp = 0 THEN To + 1 ELSE p.timestamp) /\ t \in 0 .. To + 1
        BY ONLY <3>1, <4>1 DEF Progress
      <4>3. Completed(p, m) = [p EXCEPT !.timestamp = t, !.isComplete = TRUE, !.isFulfilled = f]
        BY ONLY <4>1, <4>2 DEF Completed, Progress
      <4>4. [p EXCEPT !.timestamp = t, !.isComplete = TRUE, !.isFulfilled = f] \in Progress
        BY ONLY <4>1, <4>2 DEF Progress
      <4>5. QED
        BY ONLY <4>1, <4>3, <4>4
    <3>3. progress' = [progress EXCEPT ![b] = Completed(@, m)]
      BY <2>1 DEF TakeComplete
    <3>4. QED
      BY ONLY <3>1, <3>2, <3>3
  <2>6. due' \in Nat /\ timer' \in BOOLEAN /\ stopDue' \in BOOLEAN
    <3>1. EndRound /\ due \in Nat /\ timer \in BOOLEAN /\ stopDue \in BOOLEAN
      BY <1>2, <2>1 DEF Others, TakeComplete
    <3>2. (due' = due \/ due' = due + 1) /\ (timer' = timer \/ timer' = FALSE)
      BY ONLY <3>1 DEF EndRound
    <3>3. stopDue' \in BOOLEAN
      BY ONLY <3>1 DEF EndRound
    <3>4. due' \in Nat
      BY ONLY <3>1, <3>2
    <3>5. timer' \in BOOLEAN
      BY ONLY <3>1, <3>2
    <3>6. QED
      BY ONLY <3>3, <3>4, <3>5
  <2>7. QED
    BY <1>2, <1>3, <2>1, <2>2, <2>5, <2>6 DEF Others, TakeComplete
<1>10. CASE StoreMessage
  <2>1. PICK load : load = handling.payload /\ load # <<>>
    BY <1>10 DEF StoreMessage
  <2>2. handling \in [broker : Broker, seqNum : Nat, payload : Seq(1 .. To), current : BOOLEAN]
    BY <1>2, <1>10 DEF Others, StoreMessage
  <2>3. Head(load) \in 1 .. To /\ Tail(load) \in Seq(1 .. To)
    <3>1. PICK S : S = 1 .. To
      OBVIOUS
    <3>2. load \in Seq(S) /\ load # <<>>
      BY ONLY <2>1, <2>2, <3>1
    <3>3. Head(load) \in S /\ Tail(load) \in Seq(S)
      BY ONLY <3>2
    <3>4. QED
      BY ONLY <3>1, <3>3
  <2>4. handling' \in [broker : Broker, seqNum : Nat, payload : Seq(1 .. To), current : BOOLEAN]
    BY <1>10, <2>1, <2>2, <2>3 DEF StoreMessage
  <2>5. progress' \in [Broker -> Progress]
    <3>1. Head(load) \in 0 .. To + 1
      BY <2>3, HeldAssumption
    <3>2. PICK p : p = progress[handling.broker] /\ p \in Progress
      BY <1>2, <2>2 DEF Others
    <3>3. [p EXCEPT !.timestamp = Head(load)] \in Progress
      BY ONLY <3>1, <3>2 DEF Progress
    <3>4. progress' \in {progress, [progress EXCEPT ![handling.broker] = [p EXCEPT !.timestamp = Head(load)]]}
      BY <1>10, <2>1, <3>2 DEF StoreMessage
    <3>5. progress \in [Broker -> Progress]
      BY <1>2 DEF Others
    <3>6. QED
      BY ONLY <2>2, <3>3, <3>4, <3>5
  <2>6. db' \subseteq 1 .. To
    BY <1>2, <1>10, <2>1, <2>3 DEF Others, StoreMessage
  <2>7. QED
    BY <1>2, <1>3, <1>10, <2>4, <2>5, <2>6 DEF Others, StoreMessage, callVars, timerVars
<1>11. CASE FinishResponse
  <2>1. handling \in [broker : Broker, seqNum : Nat, payload : Seq(1 .. To), current : BOOLEAN]
    BY <1>2, <1>11 DEF Others, FinishResponse
  <2>2. progress' \in [Broker -> Progress]
    <3>1. PICK p : p = progress[handling.broker] /\ p \in Progress
      BY <1>2, <2>1 DEF Others
    <3>2. PICK k \in Nat : k = handling.seqNum
      BY <2>1
    <3>3. [p EXCEPT !.lastSeqNum = k] \in Progress
      BY ONLY <3>1, <3>2 DEF Progress
    <3>4. progress' \in {progress, [progress EXCEPT ![handling.broker] = [p EXCEPT !.lastSeqNum = k]]}
      BY <1>11, <3>1, <3>2 DEF FinishResponse
    <3>5. progress \in [Broker -> Progress]
      BY <1>2 DEF Others
    <3>6. QED
      BY ONLY <2>1, <3>3, <3>4, <3>5
  <2>3. QED
    BY <1>2, <1>3, <1>11, <2>2 DEF Others, FinishResponse, callVars, timerVars
<1>12. CASE ActivityTimeout \/ Rearm \/ RestartTimeout \/ Stop
  <2>1. /\ due' \in Nat /\ leaked' \in Nat /\ restarts' \in Nat /\ hasty' \in Nat
        /\ timer' \in BOOLEAN /\ stopDue' \in BOOLEAN /\ subscribed' \in BOOLEAN
    <3>1. /\ due \in Nat /\ leaked \in Nat /\ restarts \in Nat /\ hasty \in Nat
          /\ timer \in BOOLEAN /\ stopDue \in BOOLEAN /\ subscribed \in BOOLEAN
      BY <1>2 DEF Others
    <3>2. CASE ActivityTimeout
      <4>1. /\ due' = due + 1 /\ (leaked' = leaked \/ (leaked > 0 /\ leaked' = leaked - 1))
            /\ restarts' = restarts /\ (hasty' = hasty \/ hasty' = hasty + 1)
        BY ONLY <3>2 DEF ActivityTimeout, CountHasty
      <4>2. due' \in Nat /\ leaked' \in Nat /\ restarts' \in Nat /\ hasty' \in Nat
        BY ONLY <3>1, <4>1
      <4>3. timer' = FALSE /\ stopDue' = stopDue /\ subscribed' = subscribed
        BY ONLY <3>2 DEF ActivityTimeout
      <4>4. timer' \in BOOLEAN
        BY ONLY <4>3
      <4>5. stopDue' \in BOOLEAN /\ subscribed' \in BOOLEAN
        BY ONLY <3>1, <4>3
      <4>6. QED
        BY ONLY <4>2, <4>4, <4>5
    <3>3. CASE Rearm
      BY ONLY <3>1, <3>3 DEF Rearm, callVars
    <3>4. CASE RestartTimeout
      BY ONLY <3>1, <3>4 DEF RestartTimeout
    <3>5. CASE Stop
      <4>1. /\ due' = due /\ leaked' = leaked /\ hasty' = hasty
            /\ restarts' = (IF restarts > 0 THEN restarts - 1 ELSE 0)
        BY ONLY <3>5 DEF Stop, callVars
      <4>2. due' \in Nat /\ leaked' \in Nat /\ restarts' \in Nat /\ hasty' \in Nat
        BY ONLY <3>1, <4>1
      <4>3. timer' \in BOOLEAN
        BY ONLY <3>5 DEF Stop
      <4>4. stopDue' \in BOOLEAN
        BY ONLY <3>5 DEF Stop
      <4>5. subscribed' \in BOOLEAN
        BY ONLY <3>5 DEF Stop
      <4>6. QED
        BY ONLY <4>2, <4>3, <4>4, <4>5
    <3>6. QED
      BY <1>12, <3>2, <3>3, <3>4, <3>5
  <2>2. UNCHANGED <<requestId, posts, progressVars, handling, db, isRestarting, lost, early>>
    BY <1>12 DEF ActivityTimeout, Rearm, RestartTimeout, Stop, callVars, progressVars
  <2>3. QED
    BY <1>2, <1>3, <2>1, <2>2 DEF Others, progressVars
<1>13. CASE UNCHANGED vars
  BY <1>2, <1>3, <1>13 DEF Others, vars, callVars, progressVars, timerVars
<1>14. QED
  BY <1>4, <1>5, <1>6, <1>7, <1>8, <1>9, <1>10, <1>11, <1>12, <1>13
  DEF Next, Call, Handle, Timeout

-------------------------------------------------------------------------------
(* What each step keeps of the rest.                                       *)
Kept == PayloadIsHeld' /\ AnsweredIsKnown' /\ (early' = 0 => Safe')

LEMMA InitSafe == Init => RecoveryInv
<1> SUFFICES ASSUME Init PROVE RecoveryInv
  OBVIOUS
<1>1. \A b \in Broker : inFlight[b] = <<>> /\ progress[b] = NoProgress
  BY DEF Init
<1>2. \A b \in Broker : Waiting(b) = {}
  BY <1>1 DEF Waiting
<1>3. TypeOK
  <2>1. NoProgress \in Progress
    BY HeldAssumption DEF NoProgress, Progress
  <2>2. progress \in [Broker -> Progress]
    BY <2>1 DEF Init
  <2>3. QED
    <3>1. <<>> \in Seq(Message)
      OBVIOUS
    <3>2. inFlight \in [Broker -> Seq(Message)]
      BY <3>1 DEF Init
    <3>3. QED
      BY <2>2, <3>2 DEF Init, TypeOK
<1>4. \A b \in Broker : InOrder(b)
  <2>0. <<>> \in Seq(Message) /\ Len(<<>>) = 0
    OBVIOUS
  <2>1. \A b \in Broker : inFlight[b] \in Seq(Message) /\ Len(inFlight[b]) = 0
    BY ONLY <1>1, <2>0
  <2>2. QED
    BY <1>2, <2>1 DEF InOrder
<1>5. \A b \in Broker : NextIsSafe(b) /\ ProgressIsSafe(b)
  <2>1. TAKE b \in Broker
  <2>2. NextIsSafe(b)
    BY <1>2 DEF NextIsSafe, Due
  <2>3. Held[b] \subseteq 1 .. To
    BY HeldAssumption
  <2>4. ProgressIsSafe(b)
    BY <1>1, <2>3 DEF ProgressIsSafe, NoProgress
  <2>5. QED
    BY <2>2, <2>4
<1>6. QED
  BY <1>3, <1>4, <1>5 DEF Init, RecoveryInv, PayloadIsHeld, AnsweredIsKnown, Safe

LEMMA SendSafe == ASSUME RecoveryInv, SendRequest PROVE Kept
<1>1. UNCHANGED <<known, progress, handling, db, stopDue, subscribed, early>>
  BY DEF SendRequest, progressVars
<1>2. requestId' \in posts'
  BY DEF SendRequest
<1>3. ASSUME early' = 0 PROVE Safe'
  <2>1. Safe /\ early = 0
    BY <1>1, <1>3 DEF RecoveryInv
  <2>2. ASSUME NEW b \in Broker PROVE NextIsSafe(b)' /\ ProgressIsSafe(b)'
    <3>1. NextIsSafe(b)'
      BY <1>2, <2>1, SendKeeps DEF NextIsSafe
    <3>2. ProgressIsSafe(b)'
      BY <1>1, <2>1 DEF Safe, ProgressIsSafe
    <3>3. QED
      BY <3>1, <3>2
  <2>3. handling' # Idle /\ handling'.current => HandledIsSafe(handling.broker)'
    BY <1>1, <1>2, <2>1 DEF Safe, HandledIsSafe
  <2>4. QED
    BY <1>1, <2>1, <2>2, <2>3 DEF Safe
<1>4. QED
  BY <1>1, <1>2, <1>3 DEF Kept, RecoveryInv, PayloadIsHeld, AnsweredIsKnown

LEMMA AnswerSafe ==
  ASSUME RecoveryInv, [Next]_vars, ~ SendRequest, \E request \in posts : Answer(request)
  PROVE  Kept
<1>1. /\ UNCHANGED <<requestId, inFlight, db, stopDue, subscribed, early>>
      /\ known' = known \union Broker
      /\ progress' = [b \in Broker |-> Restarted(progress[b])]
      /\ handling' = IF handling = Idle THEN Idle ELSE [handling EXCEPT !.current = FALSE]
  BY DEF Answer
<1>2. known' = Broker
  BY <1>1 DEF RecoveryInv, TypeOK
<1>3. ASSUME handling # Idle
      PROVE  handling'.current = FALSE /\ UNCHANGED <<handling.broker, handling.payload>>
  <2>1. handling \in [broker : Broker, seqNum : Nat, payload : Seq(1 .. To), current : BOOLEAN]
    BY <1>3 DEF RecoveryInv, TypeOK
  <2>2. QED
    BY <1>1, <1>3, <2>1
<1>4. PayloadIsHeld'
  BY <1>1, <1>3 DEF RecoveryInv, PayloadIsHeld
<1>5. ASSUME early' = 0 PROVE Safe'
  <2>1. Safe /\ early = 0
    BY <1>1, <1>5 DEF RecoveryInv
  <2>2. ASSUME NEW b \in Broker PROVE NextIsSafe(b)' /\ ProgressIsSafe(b)'
    <3>1. /\ progress'[b].lastSeqNum = -1 /\ progress'[b].isFulfilled = FALSE
          /\ progress'[b].timestamp = progress[b].timestamp
      <4>1. PICK p : p = progress[b] /\ p \in Progress
        BY DEF RecoveryInv, TypeOK
      <4>2. progress'[b] = [p EXCEPT !.isComplete = FALSE, !.isFulfilled = FALSE, !.lastSeqNum = -1]
        BY <1>1, <4>1 DEF Restarted
      <4>3. QED
        BY <4>1, <4>2 DEF Progress
    <3>2. ProgressIsSafe(b)'
      BY <1>1, <2>1, <3>1 DEF Safe, ProgressIsSafe
    <3>3. Waiting(b)' = Waiting(b) /\ Due(b, -1)' = Due(b, -1)
      BY <1>1 DEF Waiting, Due
    <3>4. \A i \in Due(b, -1)' : StoredBefore(b, inFlight[b][i])'
      BY <1>1, <2>1, <3>3 DEF Safe, NextIsSafe, StoredBefore
    <3>5. \A i \in Waiting(b)' : inFlight'[b][i].seqNum > -1
      <4>1. inFlight[b] \in Seq(Message)
        BY DEF RecoveryInv, InOrder
      <4>2. \A i \in Waiting(b) : inFlight[b][i] \in Message
        BY <4>1 DEF Waiting
      <4>3. \A m \in Message : m.seqNum > -1
        BY DEF Message
      <4>4. QED
        BY <1>1, <3>3, <4>2, <4>3
    <3>6. Due(b, progress[b].lastSeqNum)' = Due(b, -1)'
      BY <3>1 DEF Due
    <3>7. NextIsSafe(b)'
      BY <3>1, <3>4, <3>5, <3>6 DEF NextIsSafe
    <3>8. QED
      BY <3>2, <3>7
  <2>3. ~ (handling' # Idle /\ handling'.current)
    BY <1>1, <1>3
  <2>4. QED
    BY <1>1, <1>2, <2>1, <2>2, <2>3 DEF Safe
<1>6. QED
  BY <1>2, <1>4, <1>5 DEF Kept, AnsweredIsKnown

(* A message that is discarded, refused or lost, and the timers.           *)
LEMMA BystanderSafe ==
  ASSUME RecoveryInv, [Next]_vars, ~ SendRequest,
         UNCHANGED <<posts, progress, handling, db>>, known' = known \/ known' = Broker,
         early' = 0 => early = 0, stopDue' \/ ~ subscribed' => stopDue \/ ~ subscribed
  PROVE  Kept
<1>1. \A b \in Broker : \E d \in {0, 1} : Queue(b, d)
  BY Moves
<1>2. ASSUME early' = 0 PROVE Safe'
  <2>1. Safe
    BY <1>2 DEF RecoveryInv
  <2>2. ASSUME NEW b \in Broker PROVE NextIsSafe(b)' /\ ProgressIsSafe(b)'
    <3>1. PICK d \in {0, 1} : Queue(b, d)
      BY <1>1
    <3>2. InOrder(b) /\ NextIsSafe(b) /\ ProgressIsSafe(b)
      BY <2>1 DEF RecoveryInv, Safe
    <3>3. NextIsSafe(b)'
      BY <3>1, <3>2, NextKeeps
    <3>4. ProgressIsSafe(b)'
      BY <3>2 DEF ProgressIsSafe
    <3>5. QED
      BY <3>3, <3>4
  <2>3. ASSUME handling' # Idle, handling'.current PROVE HandledIsSafe(handling.broker)'
    <3>1. PICK b : b = handling.broker /\ HandledIsSafe(b)
      BY <2>1, <2>3 DEF Safe
    <3>2. b \in Broker
      BY <2>3, <3>1 DEF RecoveryInv, TypeOK
    <3>3. PICK d \in {0, 1} : Queue(b, d)
      BY <1>1, <3>2
    <3>4. InOrder(b)
      BY <3>2 DEF RecoveryInv
    <3>5. HandledIsSafe(b)'
      BY <3>1, <3>3, <3>4, HandledKeeps
    <3>6. QED
      BY <3>1, <3>5 DEF HandledIsSafe, Waiting, Due, StoredBefore, Follows
  <2>4. known' = {} \/ known' = Broker
    BY <2>1 DEF Safe
  <2>5. QED
    BY <2>1, <2>2, <2>3, <2>4 DEF Safe
<1>3. AnsweredIsKnown'
  <2>1. CASE Broker = {}
    BY <2>1, TypesKept DEF TypeOK, AnsweredIsKnown
  <2>2. ASSUME NEW b \in Broker PROVE AnsweredIsKnown'
    <3>1. requestId' = requestId
      BY <1>1, <2>2 DEF Queue
    <3>2. QED
      BY <3>1 DEF RecoveryInv, AnsweredIsKnown
  <2>3. QED
    BY <2>1, <2>2
<1>4. QED
  BY <1>2, <1>3 DEF Kept, RecoveryInv, PayloadIsHeld

(* A message that is handled in turn.                                      *)
LEMMA InTurn ==
  ASSUME RecoveryInv, Safe, NEW b \in Broker, inFlight[b] # <<>>, requestId \notin posts,
         ~ IsStale(Head(inFlight[b])), ~ IsGap(progress[b], Head(inFlight[b]).seqNum)
  PROVE  /\ inFlight[b][1].seqNum = progress[b].lastSeqNum + 1
         /\ StoredBefore(b, inFlight[b][1])
         /\ known = Broker
<1>1. PICK m : m = Head(inFlight[b]) /\ m = inFlight[b][1] /\ 1 \in Waiting(b) /\ m \in Message
  BY Taken
<1>2. PICK k : k = progress[b].lastSeqNum /\ k \in Nat \union {-1}
  BY DEF RecoveryInv, TypeOK, Progress
<1>3. NextIsSafe(b)
  BY DEF Safe
<1>4. m.seqNum \in Nat
  BY <1>1 DEF Message
<1>5. m.seqNum > k /\ ~ (m.seqNum - k > 1)
  BY <1>1, <1>2, <1>3 DEF NextIsSafe, IsGap
<1>6. m.seqNum = k + 1
  BY ONLY <1>2, <1>4, <1>5
<1>7. StoredBefore(b, m)
  BY <1>1, <1>2, <1>3, <1>6 DEF NextIsSafe, Due
<1>8. requestId > 0
  BY <1>1 DEF RecoveryInv, InOrder, Waiting, TypeOK
<1>9. QED
  BY <1>1, <1>2, <1>6, <1>7, <1>8 DEF RecoveryInv, AnsweredIsKnown

LEMMA ResponseSafe ==
  ASSUME RecoveryInv, [Next]_vars, ~ SendRequest, NEW b \in Broker, TakeResponse(b)
  PROVE  Kept
<1>1. /\ inFlight[b] # <<>> /\ inFlight' = [inFlight EXCEPT ![b] = Tail(@)]
      /\ ~ IsStale(Head(inFlight[b])) /\ ~ IsGap(progress[b], Head(inFlight[b]).seqNum)
      /\ UNCHANGED <<requestId, posts, progress, db, stopDue, subscribed>>
      /\ known' = known \union {b}
  BY DEF TakeResponse, Take, callVars
<1>2. PICK m : m = Head(inFlight[b]) /\ m = inFlight[b][1] /\ 1 \in Waiting(b) /\ m \in Message
  BY <1>1, Taken
<1>3. /\ m.type = "response"
      /\ handling' = [broker |-> b, seqNum |-> m.seqNum, payload |-> m.payload, current |-> TRUE]
  BY <1>2 DEF TakeResponse
<1>4. PICK k : k = m.seqNum
  OBVIOUS
<1>5. PICK t \in Held[b] : m.payload = <<t>>
  BY <1>2, <1>3 DEF RecoveryInv, InOrder
<1>6. /\ handling'.broker = b /\ handling'.seqNum = k /\ handling'.payload = <<t>>
      /\ handling'.payload # <<>> /\ handling'.payload[1] = t /\ m.payload[1] = t
  BY ONLY <1>3, <1>4, <1>5
<1>7. PayloadIsHeld'
  BY <1>6 DEF PayloadIsHeld
<1>8. known \subseteq Broker
  BY DEF RecoveryInv, TypeOK
<1>9. AnsweredIsKnown'
  BY <1>1, <1>8 DEF RecoveryInv, AnsweredIsKnown
<1>10. ASSUME early' = 0 PROVE Safe'
  <2>1. early = 0 /\ requestId \notin posts
    BY <1>10 DEF TakeResponse, CountEarly, RecoveryInv, TypeOK
  <2>2. Safe
    BY <2>1 DEF RecoveryInv
  <2>3. m.seqNum = progress[b].lastSeqNum + 1 /\ StoredBefore(b, m) /\ known = Broker
    BY <1>1, <1>2, <2>1, <2>2, InTurn
  <2>4. ASSUME NEW c \in Broker PROVE NextIsSafe(c)' /\ ProgressIsSafe(c)'
    <3>1. PICK d \in {0, 1} : Queue(c, d)
      BY Moves
    <3>2. InOrder(c) /\ NextIsSafe(c) /\ ProgressIsSafe(c)
      BY <2>2 DEF RecoveryInv, Safe
    <3>3. NextIsSafe(c)'
      BY <1>1, <3>1, <3>2, NextKeeps
    <3>4. ProgressIsSafe(c)'
      BY <1>1, <3>2 DEF ProgressIsSafe
    <3>5. QED
      BY <3>3, <3>4
  <2>5. HandledIsSafe(b)'
    <3>1. Queue(b, 1)
      BY <1>1 DEF RecoveryInv, TypeOK, Queue
    <3>2. InOrder(b)
      BY DEF RecoveryInv
    <3>3. \A i \in Waiting(b)' : i + 1 \in Waiting(b) /\ inFlight'[b][i] = inFlight[b][i + 1]
      BY <3>1, <3>2, QueueKeeps
    <3>4. ASSUME NEW i \in Waiting(b)'
          PROVE  /\ inFlight'[b][i].seqNum > k
                 /\ inFlight'[b][i].seqNum = k + 1 => Follows(b, t, inFlight'[b][i])
      <4>1. PICK n : n = inFlight'[b][i] /\ n = inFlight[b][i + 1] /\ i + 1 \in Waiting(b)
        BY <3>3
      <4>2. i \in Nat /\ 1 < i + 1
        BY DEF Waiting
      <4>3. m.seqNum < n.seqNum /\ (n.seqNum = k + 1 => Follows(b, m.payload[1], n))
        BY <1>2, <1>3, <1>4, <3>2, <4>1, <4>2 DEF InOrder, Due
      <4>4. m.seqNum \in Nat /\ n.seqNum \in Nat
        <5>1. inFlight[b] \in Seq(Message)
          BY DEF RecoveryInv, InOrder
        <5>2. n \in Message
          BY <4>1, <5>1 DEF Waiting
        <5>3. QED
          BY <1>2, <5>2 DEF Message
      <4>5. QED
        BY ONLY <1>4, <1>6, <4>1, <4>3, <4>4
    <3>5. \A u \in Held[b] : u < t => u \in db
      BY <1>3, <1>6, <2>3 DEF StoredBefore
    <3>6. Due(b, handling.seqNum)' = {i \in Waiting(b)' : inFlight'[b][i].seqNum = k + 1}
      BY <1>6 DEF Due
    <3>7. QED
      BY <1>1, <1>6, <3>4, <3>5, <3>6 DEF HandledIsSafe, Follows
  <2>6. handling'.broker = b /\ known' = Broker
    BY <1>1, <1>6, <2>3
  <2>7. QED
    BY <1>1, <2>2, <2>4, <2>5, <2>6 DEF Safe, HandledIsSafe, Waiting, Due, StoredBefore, Follows
<1>11. QED
  BY <1>7, <1>9, <1>10 DEF Kept

(* The message of the response is stored, and is the progress from now on. *)
LEMMA StoreSafe ==
  ASSUME RecoveryInv, [Next]_vars, ~ SendRequest, StoreMessage PROVE Kept
<1>1. /\ handling # Idle /\ handling.payload # <<>>
      /\ UNCHANGED <<requestId, posts, inFlight, known, stopDue, subscribed, early>>
      /\ handling' = [handling EXCEPT !.payload = Tail(@)]
  BY DEF StoreMessage, callVars
<1>2. PICK b, t, k : b = handling.broker /\ k = handling.seqNum /\ handling.payload = <<t>>
                     /\ t \in Held[b]
  BY <1>1 DEF RecoveryInv, PayloadIsHeld
<1>3. handling \in [broker : Broker, seqNum : Nat, payload : Seq(1 .. To), current : BOOLEAN]
  BY <1>1 DEF RecoveryInv, TypeOK
<1>4. b \in Broker /\ t \in Nat /\ t > 0
  BY <1>2, <1>3, HeldAssumption
<1>5. Head(handling.payload) = t /\ handling.payload[1] = t /\ Tail(handling.payload) = <<>>
  BY ONLY <1>2
<1>6. /\ handling'.broker = b /\ handling'.seqNum = k /\ handling'.payload = <<>>
      /\ handling'.current = handling.current
  BY ONLY <1>1, <1>2, <1>3, <1>5
<1>7. db' = db \union {t} /\ db \subseteq db' /\ t \in db'
  BY <1>5 DEF StoreMessage
<1>8. progress' = IF handling.current THEN [progress EXCEPT ![b].timestamp = t] ELSE progress
  BY <1>2, <1>5 DEF StoreMessage
<1>9. ASSUME NEW c \in Broker
      PROVE  /\ progress'[c].lastSeqNum = progress[c].lastSeqNum
             /\ progress'[c].isFulfilled = progress[c].isFulfilled
             /\ progress'[c].timestamp = IF c = b /\ handling.current THEN t
                                         ELSE progress[c].timestamp
  <2>1. progress \in [Broker -> Progress]
    BY DEF RecoveryInv, TypeOK
  <2>2. PICK p : p = progress[c] /\ p \in Progress
    BY <2>1
  <2>3. progress'[c] = IF c = b /\ handling.current THEN [p EXCEPT !.timestamp = t] ELSE p
    BY ONLY <1>8, <2>1, <2>2, c \in Broker
  <2>4. QED
    BY ONLY <2>2, <2>3 DEF Progress
<1>10. ASSUME early' = 0 PROVE Safe'
  <2>1. Safe
    BY <1>1, <1>10 DEF RecoveryInv
  <2>2. ASSUME NEW c \in Broker PROVE NextIsSafe(c)' /\ ProgressIsSafe(c)'
    <3>1. PICK d \in {0, 1} : Queue(c, d)
      BY Moves
    <3>2. InOrder(c) /\ NextIsSafe(c) /\ ProgressIsSafe(c)
      BY <2>1 DEF RecoveryInv, Safe
    <3>3. NextIsSafe(c)'
      BY <1>1, <1>7, <1>9, <3>1, <3>2, NextKeeps
    <3>4. CASE c = b /\ handling.current
      <4>1. \A u \in Held[b] : u < t => u \in db
        BY <1>1, <1>2, <1>5, <2>1, <3>4 DEF Safe, HandledIsSafe
      <4>2. Held[b] \subseteq Nat
        BY <1>4, HeldAssumption
      <4>3. \A u \in Held[b] : u <= t => u \in db'
        BY <1>4, <1>7, <4>1, <4>2
      <4>4. progress'[b].timestamp = t
        BY <1>4, <1>9, <3>4
      <4>5. progress'[b].isFulfilled => Held[b] \subseteq db'
        BY <1>7, <1>9, <3>2, <3>4 DEF ProgressIsSafe
      <4>6. QED
        BY <1>4, <3>3, <3>4, <4>3, <4>4, <4>5 DEF ProgressIsSafe
    <3>5. CASE ~ (c = b /\ handling.current)
      <4>1. progress'[c].timestamp = progress[c].timestamp
        BY <1>9, <3>5
      <4>2. ProgressIsSafe(c)'
        BY <1>7, <1>9, <3>2, <4>1 DEF ProgressIsSafe
      <4>3. QED
        BY <3>3, <4>2
    <3>6. QED
      BY <3>4, <3>5
  <2>3. ASSUME handling'.current PROVE HandledIsSafe(b)'
    <3>1. HandledIsSafe(b) /\ handling.current
      BY <1>1, <1>2, <1>6, <2>1, <2>3 DEF Safe
    <3>2. Waiting(b)' = Waiting(b) /\ Due(b, handling.seqNum)' = Due(b, k)
      BY <1>1, <1>6 DEF Waiting, Due
    <3>3. progress'[b].timestamp > 0
      BY <1>4, <1>9, <3>1
    <3>4. ASSUME requestId \notin posts, NEW i \in Due(b, k) PROVE StoredBefore(b, inFlight[b][i])'
      <4>1. PICK m : m = inFlight[b][i] /\ Follows(b, t, m)
        BY <1>1, <1>2, <1>5, <3>1, <3>4 DEF HandledIsSafe
      <4>2. \A u \in Held[b] : u < t => u \in db
        BY <1>1, <1>5, <3>1 DEF HandledIsSafe
      <4>3. Held[b] \subseteq Nat
        BY <1>4, HeldAssumption
      <4>4. \A u \in Held[b] : u <= t => u \in db'
        BY ONLY <1>4, <1>7, <4>2, <4>3
      <4>5. StoredBefore(b, m)'
        BY ONLY <4>1, <4>4 DEF Follows, StoredBefore
      <4>6. QED
        BY <1>1, <4>1, <4>5
    <3>5. requestId \notin posts => \A i \in Waiting(b) : inFlight[b][i].seqNum > k
      BY <1>2, <3>1 DEF HandledIsSafe
    <3>6. QED
      BY <1>1, <1>6, <3>2, <3>3, <3>4, <3>5 DEF HandledIsSafe
  <2>4. handling' # Idle /\ handling'.current => HandledIsSafe(handling.broker)'
    BY <1>6, <2>3 DEF HandledIsSafe, Waiting, Due, StoredBefore, Follows
  <2>5. stopDue' \/ ~ subscribed' => \A c \in Broker : Held[c] \subseteq db'
    BY <1>1, <1>7, <2>1 DEF Safe
  <2>6. QED
    BY <1>1, <2>1, <2>2, <2>4, <2>5 DEF Safe
<1>11. PayloadIsHeld'
  BY <1>6 DEF PayloadIsHeld
<1>12. AnsweredIsKnown'
  BY <1>1 DEF RecoveryInv, AnsweredIsKnown
<1>13. QED
  BY <1>10, <1>11, <1>12 DEF Kept

LEMMA FinishSafe ==
  ASSUME RecoveryInv, [Next]_vars, ~ SendRequest, FinishResponse PROVE Kept
<1>1. /\ handling # Idle /\ handling.payload = <<>> /\ handling' = Idle
      /\ UNCHANGED <<requestId, posts, inFlight, known, db, stopDue, subscribed, early>>
  BY DEF FinishResponse, callVars
<1>2. PICK b, k : b = handling.broker /\ k = handling.seqNum
  OBVIOUS
<1>3. progress' = IF handling.current THEN [progress EXCEPT ![b].lastSeqNum = k] ELSE progress
  BY <1>2 DEF FinishResponse
<1>4. ASSUME NEW c \in Broker
      PROVE  /\ progress'[c].lastSeqNum = IF c = b /\ handling.current THEN k
                                          ELSE progress[c].lastSeqNum
             /\ progress'[c].isFulfilled = progress[c].isFulfilled
             /\ progress'[c].timestamp = progress[c].timestamp
  <2>1. progress \in [Broker -> Progress]
    BY DEF RecoveryInv, TypeOK
  <2>2. PICK p : p = progress[c] /\ p \in Progress
    BY <2>1
  <2>3. progress'[c] = IF c = b /\ handling.current THEN [p EXCEPT !.lastSeqNum = k] ELSE p
    BY ONLY <1>3, <2>1, <2>2, c \in Broker
  <2>4. QED
    BY ONLY <2>2, <2>3 DEF Progress
<1>5. ASSUME early' = 0 PROVE Safe'
  <2>1. Safe
    BY <1>1, <1>5 DEF RecoveryInv
  <2>2. ASSUME NEW c \in Broker PROVE NextIsSafe(c)' /\ ProgressIsSafe(c)'
    <3>1. PICK d \in {0, 1} : Queue(c, d)
      BY Moves
    <3>2. InOrder(c) /\ NextIsSafe(c) /\ ProgressIsSafe(c)
      BY <2>1 DEF RecoveryInv, Safe
    <3>3. CASE c = b /\ handling.current
      <4>1. HandledIsSafe(b)
        BY <1>1, <1>2, <2>1, <3>3 DEF Safe
      <4>2. /\ progress[b].timestamp > 0
            /\ requestId \notin posts =>
                 /\ \A i \in Waiting(b) : inFlight[b][i].seqNum > k
                 /\ \A i \in Due(b, k) : StoredBefore(b, inFlight[b][i])
        BY <1>1, <1>2, <4>1 DEF HandledIsSafe
      <4>3. progress'[b].lastSeqNum = k /\ progress'[b].timestamp = progress[b].timestamp
        BY <1>4, <3>3
      <4>4. Waiting(b)' = Waiting(b) /\ Due(b, -1)' = Due(b, -1)
            /\ Due(b, progress[b].lastSeqNum)' = Due(b, k)
        BY <1>1, <4>3 DEF Waiting, Due
      <4>5. \A m : StoredBefore(b, m) => StoredBefore(b, m)'
        BY <1>1 DEF StoredBefore
      <4>6. NextIsSafe(b)'
        <5>1. \A i \in Due(b, -1)' : StoredBefore(b, inFlight[b][i])'
          BY <1>1, <3>2, <3>3, <4>4 DEF NextIsSafe, StoredBefore
        <5>2. ASSUME requestId' \notin posts', NEW i \in Due(b, progress[b].lastSeqNum)'
              PROVE  StoredBefore(b, inFlight[b][i])'
          BY <1>1, <4>2, <4>4, <5>2 DEF StoredBefore
        <5>3. requestId' \notin posts' => \A i \in Waiting(b)' : inFlight'[b][i].seqNum > progress'[b].lastSeqNum
          BY <1>1, <4>2, <4>3, <4>4
        <5>4. QED
          BY <5>1, <5>2, <5>3 DEF NextIsSafe
      <4>7. ProgressIsSafe(b)'
        BY <1>1, <1>4, <3>2, <3>3, <4>2, <4>3 DEF ProgressIsSafe
      <4>8. QED
        BY <3>3, <4>6, <4>7
    <3>4. CASE ~ (c = b /\ handling.current)
      <4>1. progress'[c].lastSeqNum = progress[c].lastSeqNum
        BY <1>4, <3>4
      <4>2. NextIsSafe(c)'
        BY <1>1, <3>1, <3>2, <4>1, NextKeeps
      <4>3. ProgressIsSafe(c)'
        BY <1>1, <1>4, <3>2, <4>1 DEF ProgressIsSafe
      <4>4. QED
        BY <4>2, <4>3
    <3>5. QED
      BY <3>3, <3>4
  <2>3. QED
    BY <1>1, <2>1, <2>2 DEF Safe
<1>6. QED
  BY <1>1, <1>5 DEF Kept, RecoveryInv, PayloadIsHeld, AnsweredIsKnown

(* The end of a reply: the broker is done if nothing it holds is missing,  *)
(* and the recovery if all of them are.                                    *)
LEMMA CompleteSafe ==
  ASSUME RecoveryInv, [Next]_vars, ~ SendRequest, NEW b \in Broker, TakeComplete(b)
  PROVE  Kept
<1>1. /\ inFlight[b] # <<>> /\ inFlight' = [inFlight EXCEPT ![b] = Tail(@)]
      /\ ~ IsStale(Head(inFlight[b])) /\ ~ IsGap(progress[b], Head(inFlight[b]).seqNum)
      /\ UNCHANGED <<requestId, posts, handling, db, subscribed>>
      /\ handling = Idle
      /\ known' = known \union {b}
  BY DEF TakeComplete, Take
<1>2. PICK m : m = Head(inFlight[b]) /\ m = inFlight[b][1] /\ 1 \in Waiting(b) /\ m \in Message
  BY <1>1, Taken
<1>3. m.type = "complete" /\ progress' = [progress EXCEPT ![b] = Completed(@, m)] /\ EndRound
  BY <1>2 DEF TakeComplete
<1>4. known \subseteq Broker /\ progress \in [Broker -> Progress]
  BY DEF RecoveryInv, TypeOK
<1>5. ASSUME NEW c \in Broker
      PROVE  /\ progress'[c].lastSeqNum = progress[c].lastSeqNum
             /\ progress'[c].isFulfilled = IF c = b THEN m.isFulfilled ELSE progress[c].isFulfilled
             /\ progress'[c].timestamp = IF c = b /\ progress[c].timestamp = 0 THEN To + 1
                                         ELSE progress[c].timestamp
  <2>1. PICK p : p = progress[c] /\ p \in Progress
    BY <1>4
  <2>2. progress'[c] = IF c = b THEN Completed(p, m) ELSE p
    BY ONLY <1>3, <1>4, <2>1, c \in Broker
  <2>3. CASE c = b
    <3>1. progress'[c] = [p EXCEPT !.timestamp = IF @ = 0 THEN To + 1 ELSE @,
                                   !.isComplete = TRUE, !.isFulfilled = m.isFulfilled]
      BY ONLY <2>2, <2>3 DEF Completed
    <3>2. PICK f : f = m.isFulfilled
      OBVIOUS
    <3>3. PICK t : t = IF p.timestamp = 0 THEN To + 1 ELSE p.timestamp
      OBVIOUS
    <3>4. progress'[c] = [p EXCEPT !.timestamp = t, !.isComplete = TRUE, !.isFulfilled = f]
      BY ONLY <2>1, <3>1, <3>2, <3>3 DEF Progress
    <3>5. /\ progress'[c].lastSeqNum = p.lastSeqNum /\ progress'[c].isFulfilled = f
          /\ progress'[c].timestamp = t
      BY ONLY <2>1, <3>4 DEF Progress
    <3>6. QED
      BY ONLY <2>1, <2>3, <3>2, <3>3, <3>5
  <2>4. CASE c # b
    BY ONLY <2>1, <2>2, <2>4
  <2>5. QED
    BY <2>3, <2>4
<1>6. PayloadIsHeld'
  BY <1>1 DEF PayloadIsHeld
<1>7. AnsweredIsKnown'
  BY <1>1, <1>4 DEF RecoveryInv, AnsweredIsKnown
<1>8. ASSUME early' = 0 PROVE Safe'
  <2>1. early = 0 /\ requestId \notin posts
    BY <1>8 DEF TakeComplete, CountEarly, RecoveryInv, TypeOK
  <2>2. Safe
    BY <2>1 DEF RecoveryInv
  <2>3. m.seqNum = progress[b].lastSeqNum + 1 /\ StoredBefore(b, m) /\ known = Broker
    BY <1>1, <1>2, <2>1, <2>2, InTurn
  <2>4. m.isFulfilled => Held[b] \subseteq db
    BY <1>3, <2>3 DEF StoredBefore
  <2>5. ASSUME NEW c \in Broker PROVE ProgressIsSafe(c)'
    <3>1. ProgressIsSafe(c)
      BY <2>2 DEF Safe
    <3>2. CASE c # b
      <4>1. /\ progress'[c].lastSeqNum = progress[c].lastSeqNum
            /\ progress'[c].isFulfilled = progress[c].isFulfilled
            /\ progress'[c].timestamp = progress[c].timestamp
        BY <1>5, <3>2
      <4>2. QED
        BY <1>1, <3>1, <4>1 DEF ProgressIsSafe
    <3>3. CASE c = b /\ progress[c].timestamp # 0
      <4>1. /\ progress'[c].lastSeqNum = progress[c].lastSeqNum
            /\ progress'[c].isFulfilled = m.isFulfilled
            /\ progress'[c].timestamp = progress[c].timestamp
        BY <1>5, <3>3
      <4>2. QED
        BY <1>1, <2>4, <3>1, <3>3, <4>1 DEF ProgressIsSafe
    <3>4. CASE c = b /\ progress[c].timestamp = 0
      <4>1. progress[b].lastSeqNum \in Nat \union {-1} /\ ~ (progress[b].lastSeqNum >= 0)
        BY <1>4, <3>1, <3>4 DEF Progress, ProgressIsSafe
      <4>2. m.seqNum = 0
        BY ONLY <2>3, <4>1
      <4>3. m.isFulfilled
        BY <1>2, <1>3, <4>2 DEF RecoveryInv, InOrder
      <4>4. Held[b] \subseteq db
        BY <2>4, <4>3
      <4>5. progress'[c].timestamp = To + 1 /\ To + 1 > 0
        BY <1>5, <3>4, HeldAssumption
      <4>6. QED
        BY <1>1, <3>4, <4>4, <4>5 DEF ProgressIsSafe
    <3>5. QED
      BY <3>2, <3>3, <3>4
  <2>6. ASSUME NEW c \in Broker PROVE NextIsSafe(c)'
    <3>1. PICK d \in {0, 1} : Queue(c, d)
      BY Moves
    <3>2. InOrder(c) /\ NextIsSafe(c)
      BY <2>2 DEF RecoveryInv, Safe
    <3>3. progress'[c].lastSeqNum = progress[c].lastSeqNum
      BY <1>5
    <3>4. QED
      BY <1>1, <3>1, <3>2, <3>3, NextKeeps
  <2>7. known' = Broker
    BY <1>1, <2>3
  <2>8. ASSUME stopDue' \/ ~ subscribed' PROVE \A c \in Broker : Held[c] \subseteq db'
    <3>1. CASE stopDue \/ ~ subscribed
      BY <1>1, <2>2, <3>1 DEF Safe
    <3>2. CASE ~ (stopDue \/ ~ subscribed)
      <4>1. SummaryFulfilled'
        BY <1>1, <1>3, <2>8, <3>2 DEF EndRound
      <4>2. \A c \in Broker : progress'[c].isFulfilled
        BY <2>7, <4>1 DEF SummaryFulfilled
      <4>3. QED
        BY <2>5, <4>2 DEF ProgressIsSafe
    <3>3. QED
      BY <3>1, <3>2
  <2>9. QED
    BY <1>1, <2>5, <2>6, <2>7, <2>8 DEF Safe
<1>9. QED
  BY <1>6, <1>7, <1>8 DEF Kept

-------------------------------------------------------------------------------
LEMMA StepSafe == ASSUME RecoveryInv, [Next]_vars PROVE RecoveryInv'
<1>1. Kept
  <2>1. CASE SendRequest
    BY <2>1, SendSafe
  <2> SUFFICES ASSUME ~ SendRequest PROVE Kept
    BY <2>1
  <2>2. CASE \E request \in posts : Answer(request)
    BY <2>2, AnswerSafe
  <2>3. CASE \E b \in Broker : TakeResponse(b)
    BY <2>3, ResponseSafe
  <2>4. CASE \E b \in Broker : TakeComplete(b)
    BY <2>4, CompleteSafe
  <2>5. CASE StoreMessage
    BY <2>5, StoreSafe
  <2>6. CASE FinishResponse
    BY <2>6, FinishSafe
  <2>7. CASE \E b \in Broker : Reject(b)
    <3>1. PICK b \in Broker : Reject(b)
      BY <2>7
    <3>2. /\ UNCHANGED <<requestId, posts, progress, handling, db, stopDue, subscribed>>
          /\ known' = known \union {b} /\ inFlight[b] # <<>> /\ ~ IsStale(Head(inFlight[b]))
      BY <3>1 DEF Reject, Take, callVars
    <3>3. CASE requestId \in posts
      <4>1. early' = early + 1 /\ early \in Nat
        BY <3>1, <3>3 DEF Reject, CountEarly, RecoveryInv, TypeOK
      <4>2. early' # 0
        BY ONLY <4>1
      <4>3. QED
        BY <3>2, <3>3, <4>2 DEF Kept, RecoveryInv, PayloadIsHeld, AnsweredIsKnown
    <3>4. CASE requestId \notin posts
      <4>1. early' = early
        BY <3>1, <3>4 DEF Reject, CountEarly
      <4>2. 1 \in Waiting(b)
        BY <3>2, Taken
      <4>3. requestId > 0
        BY <4>2 DEF RecoveryInv, InOrder, Waiting, TypeOK
      <4>4. known' = Broker
        BY <3>2, <3>4, <4>3 DEF RecoveryInv, AnsweredIsKnown
      <4>5. QED
        BY <3>2, <4>1, <4>4, BystanderSafe
    <3>5. QED
      BY <3>3, <3>4
  <2>8. CASE \/ \E b \in Broker : Discard(b) \/ Lose(b)
             \/ ActivityTimeout \/ Rearm \/ RestartTimeout \/ Stop \/ UNCHANGED vars
    <3>1. /\ UNCHANGED <<posts, progress, handling, db, known, early>>
          /\ stopDue' \/ ~ subscribed' => stopDue \/ ~ subscribed
      BY <2>8 DEF Discard, Take, Lose, ActivityTimeout, Rearm, RestartTimeout, Stop, vars,
                  callVars, progressVars
    <3>2. QED
      BY <3>1, BystanderSafe
  <2>9. QED
    BY <2>2, <2>3, <2>4, <2>5, <2>6, <2>7, <2>8 DEF Next, Call, Handle, Timeout
<1>2. QED
  BY <1>1, TypesKept, OrderKept DEF Kept, RecoveryInv

(* Whatever the brokers hold, however many messages are lost, whenever the *)
(* timeouts and restarts come: as long as no message is handled before the *)
(* answer that lists the brokers, everything up to the recorded progress   *)
(* is stored, and a recovery that ends has everything.                     *)
THEOREM NothingIsMissed == Spec => []NothingMissed
<1>1. RecoveryInv => NothingMissed
  <2> SUFFICES ASSUME RecoveryInv PROVE NothingMissed
    OBVIOUS
  <2>1. known \subseteq Broker
    BY DEF RecoveryInv, TypeOK
  <2>2. StoredUpToProgress
    BY <2>1 DEF RecoveryInv, Safe, ProgressIsSafe, StoredUpToProgress
  <2>3. SuccessIsComplete
    BY DEF RecoveryInv, Safe, SuccessIsComplete
  <2>4. QED
    BY <2>2, <2>3 DEF RecoveryInv, NothingMissed
<1>2. RecoveryInv /\ [Next]_vars => RecoveryInv'
  BY StepSafe
<1>3. QED
  BY InitSafe, <1>1, <1>2, PTL DEF Spec
===============================================================================
