---------------------------- MODULE DataItemsProofs ----------------------------
(* Theorems about DataItems and the keys of its items, with their proofs.  *)
EXTENDS DataItems, TLAPS

(* The window of an item starts where that of the item before it ends, at  *)
(* every key, the dates on which the step is raised included: nothing is   *)
(* published between two items (rollingConfig and nextKey of the runtime). *)
THEOREM WindowsMeet == \A k \in Int : WindowStart(NextKey(k)) = WindowEnd(k)
<1> SUFFICES ASSUME NEW k \in Int PROVE PrevKeyStep(NextKey(k)) = KeyStep(k)
  BY DEF WindowStart, WindowEnd, NextKey, KeyStep
<1> USE ChangesAssumption
<1>1. CASE k > SecondChange
  BY <1>1 DEF PrevKeyStep, NextKey, KeyStep
<1>2. CASE FirstChange < k /\ k <= SecondChange
  BY <1>2 DEF PrevKeyStep, NextKey, KeyStep
<1>3. CASE k <= FirstChange
  BY <1>3 DEF PrevKeyStep, NextKey, KeyStep
<1> QED
  BY <1>1, <1>2, <1>3

-------------------------------------------------------------------------------
(* What EntriesStay rests on.                                              *)
IndexSound == /\ DOMAIN index = Timestamps
              /\ \A t \in Timestamps : Reported(index[t], t)

LEMMA InitSound == Init => IndexSound
BY DEF Init, TimeInit, IndexSound, Reported, NoEntry

(* Every other step leaves the index alone.                                *)
LEMMA OnlyIndexWrites == [Next]_vars => Index \/ UNCHANGED <<index, reported>>
<1> SUFFICES ASSUME [Next]_vars, ~Index PROVE UNCHANGED <<index, reported>>
  OBVIOUS
<1>1. CASE TimeStep
  BY <1>1 DEF TimeStep, TimeNext, Indexing, Spawn, Output, Refuse, Exit
<1>2. CASE Asking
  BY <1>2 DEF Asking, Hear, Prepare, Prepared, Query, Deliver, timeVars, indexVars
<1>3. CASE QueryCut
  BY <1>3 DEF QueryCut, indexVars
<1>4. CASE \E s \in Source : Getting(s)
  BY <1>4 DEF Getting, ApplyUpdates, ApplyFees, timeVars, indexVars
<1>5. CASE \E s \in Source : Failing(s)
  BY <1>5 DEF Failing, QueryFails, indexVars
<1>6. CASE UNCHANGED vars
  BY <1>6 DEF vars, timeVars, indexVars
<1> QED
  BY <1>1, <1>2, <1>3, <1>4, <1>5, <1>6 DEF Next, ItemStep

Stays(t) ==
    /\ index[t] # NoEntry => index'[t].b = index[t].b /\ index[t].s \subseteq index'[t].s
    /\ Reported(index'[t], t)

(* An entry is written where there is none, or again for the same block.   *)
LEMMA IndexStays ==
    ASSUME IndexSound, Index
    PROVE  IndexSound' /\ \A t \in Timestamps : Stays(t)
<1> DEFINE h == Head(pending)
           block == Head(h.blocks)
           timestamp == reported[h.source][block]
<1>1. /\ Agrees(index[timestamp], block)
      /\ index' = [index EXCEPT ![timestamp] = [b |-> block, s |-> @.s \union {h.source}]]
      /\ UNCHANGED reported
  BY DEF Index
<1>2. Timestamps' = Timestamps /\ DOMAIN index' = Timestamps
  <2> HIDE DEF h, block, timestamp
  <2>1. Timestamps' = Timestamps
    BY <1>1 DEF Timestamps
  <2> QED
    BY <1>1, <2>1, Zenon DEF IndexSound
<1>3. ASSUME NEW t \in Timestamps PROVE Stays(t) /\ Reported(index[t], t)'
  <2>1. CASE t # timestamp
    BY <1>1, <2>1 DEF IndexSound, Stays, Reported
  <2>2. CASE t = timestamp
    <3>1. index'[t] = [b |-> block, s |-> index[t].s \union {h.source}]
      BY <1>1, <2>2 DEF IndexSound
    <3>2. index[t] = NoEntry \/ index[t].b = block
      BY <1>1, <2>2 DEF Agrees
    <3>3. \A s \in index[t].s : reported[s][block] = t
      BY <3>2 DEF IndexSound, Reported, NoEntry
    <3>4. \A s \in index'[t].s : reported[s][block] = t
      <4>1. reported[h.source][block] = t
        BY <2>2
      <4> HIDE DEF h, block, timestamp
      <4> QED
        BY <3>1, <3>3, <4>1
    <3> HIDE DEF h, block, timestamp
    <3>5. index'[t].b = block /\ index[t].s \subseteq index'[t].s
      BY <3>1
    <3> QED
      BY <1>1, <3>2, <3>4, <3>5 DEF Stays, Reported
  <2> QED
    BY <2>1, <2>2
<1> QED
  BY <1>2, <1>3 DEF IndexSound

LEMMA StepStays ==
    ASSUME IndexSound, [Next]_vars
    PROVE  IndexSound' /\ \A t \in Timestamps : Stays(t)
<1>1. CASE Index
  BY <1>1, IndexStays
<1>2. CASE UNCHANGED <<index, reported>>
  BY <1>2 DEF IndexSound, Stays, Reported, Timestamps
<1> QED
  BY <1>1, <1>2, OnlyIndexWrites

(* The block of an entry never changes and its sources reported it, in any *)
(* order of chunks, transactions, exits of children and failures, for any  *)
(* number of sources, blocks and handlers.                                 *)
THEOREM EntriesNeverMove == Spec => EntriesStay
<1>1. [][\A t \in Timestamps : Stays(t)]_vars <=> EntriesStay
  BY PTL DEF EntriesStay, Stays
<1> QED
  BY <1>1, InitSound, StepStays, PTL DEF Spec
-------------------------------------------------------------------------------
(* What ItemsComplete rests on.  The blocks in the order of their time.    *)
Lists == INSTANCE Induction

LEMMA TimeGrows ==
    ASSUME NEW b \in 0 .. Height, NEW c \in 0 .. Height, b <= c
    PROVE  Time[b] <= Time[c]
<1> DEFINE S == {n \in 0 .. Height - b : Time[b] <= Time[b + n]}
<1>1. /\ Height \in Nat /\ Time \in [0 .. Height -> Nat]
      /\ \A n \in 1 .. Height : Time[n - 1] < Time[n]
  BY ChainAssumption
<1>2. 0 \in S
  BY <1>1
<1>3. ASSUME NEW n \in 1 .. Height - b, n - 1 \in S PROVE n \in S
  <2>1. b + n \in 1 .. Height /\ b + n - 1 \in 0 .. Height
    BY <1>1
  <2>2. Time[b] <= Time[b + (n - 1)] /\ b + (n - 1) = b + n - 1
    BY <1>3
  <2>3. Time[b + n - 1] < Time[b + n]
    BY <1>1, <2>1
  <2>4. Time[b] \in Nat /\ Time[b + n - 1] \in Nat /\ Time[b + n] \in Nat
    BY <1>1, <2>1
  <2>5. QED
    BY <2>2, <2>3, <2>4
<1>4. Height - b \in Nat /\ c - b \in 0 .. Height - b
  BY <1>1
<1> HIDE DEF S
<1>5. c - b \in S
  BY <1>2, <1>3, <1>4, Lists!Climb
<1>6. b + (c - b) = c
  OBVIOUS
<1>7. QED
  BY <1>5, <1>6 DEF S

(* The block of a key is at most any block that is as late as the key.     *)
LEMMA BlockOfKey ==
    ASSUME NEW k \in Nat, Time[0] < k, NEW b \in 0 .. Height, k <= Time[b]
    PROVE  BlockAt(k) \in 1 .. b
<1> DEFINE S == {c \in 1 .. Height : k <= Time[c]}
<1>1. /\ Height \in Nat /\ Time \in [0 .. Height -> Nat]
  BY ChainAssumption
<1>2. b \in S
  BY <1>1
<1>3. PICK m \in S : \A c \in S : m <= c
  <2>1. S \subseteq Nat /\ S # {}
    BY <1>2
  <2> HIDE DEF S
  <2>2. QED
    BY <2>1, Lists!MinimalNumber
<1>4. m \in 1 .. Height /\ Time[m] >= k /\ Time[m - 1] < k
  <2>1. CASE m = 1
    BY <1>3, <2>1
  <2>2. CASE m # 1
    <3>1. m - 1 \in 1 .. Height /\ m - 1 \notin S
      BY <1>1, <1>3, <2>2
    <3>2. QED
      BY <1>1, <1>3, <3>1
  <2>3. QED
    BY <2>1, <2>2
<1>5. PICK c : c = BlockAt(k)
  OBVIOUS
<1>6. c \in 1 .. Height /\ Time[c] >= k /\ Time[c - 1] < k
  BY <1>4, <1>5 DEF BlockAt
<1>7. c <= b
  <2>1. SUFFICES ASSUME b < c PROVE FALSE
    BY <1>6
  <2>2. b <= c - 1 /\ c - 1 \in 0 .. Height
    BY <1>1, <1>6, <2>1
  <2>3. Time[b] <= Time[c - 1]
    BY <2>2, TimeGrows
  <2>4. QED
    BY <1>1, <1>6, <2>2, <2>3
<1>8. QED
  BY <1>5, <1>6, <1>7

-------------------------------------------------------------------------------
(* The index and its handlers.                                             *)
Handlers == [source : Source, blocks : Seq(1 .. Height) \ {<<>>}]

Fault == {"exit", "query", "answer"}

TimeSound ==
    /\ TimeTypeOK /\ IndexSound
    /\ pending \in Seq(Handlers)
    /\ faults \in Seq(Fault)
    /\ \A t \in Timestamps : index[t] # NoEntry => index[t].s # {}

LEMMA TimeStarts == Init => TimeSound
<1> SUFFICES ASSUME Init PROVE TimeSound
  OBVIOUS
<1>1. /\ First \in Source /\ Height \in Nat /\ MaxFaults \in Nat
      /\ Starts \subseteq Nat \X [Source -> [0 .. Height -> Nat]]
  BY ChainAssumption, EventsAssumption
<1>2. /\ <<poolKey, reported>> \in Starts /\ startBlock \in 0 .. Height
      /\ next = [s \in Source |-> 0] /\ pending = <<>> /\ latest = 0 /\ faults = <<>>
      /\ index = [t \in Timestamps |-> NoEntry]
  <2>1. PICK start \in Starts : poolKey = start[1] /\ reported = start[2]
    BY DEF Init, TimeInit
  <2>2. start = <<start[1], start[2]>>
    BY <1>1
  <2>3. QED
    BY <2>1, <2>2 DEF Init, TimeInit
<1>3. /\ next \in [Source -> 0 .. Height + 1]
      /\ index \in [Timestamps -> [b : 0 .. Height, s : SUBSET Source]]
  BY <1>1, <1>2 DEF NoEntry
<1>4. IndexSound
  BY InitSound
<1>5. QED
  BY <1>1, <1>2, <1>3, <1>4 DEF TimeSound, TimeTypeOK

LEMMA ReportedTimes ==
    ASSUME TimeSound
    PROVE  /\ reported \in [Source -> [0 .. Height -> Nat]]
           /\ Timestamps \subseteq Nat
           /\ \A s \in Source, b \in 0 .. Height : reported[s][b] \in Timestamps
<1>1. <<poolKey, reported>> \in Nat \X [Source -> [0 .. Height -> Nat]]
  BY ChainAssumption DEF TimeSound, TimeTypeOK
<1>2. reported \in [Source -> [0 .. Height -> Nat]]
  BY <1>1
<1>3. \A s \in Source, b \in 0 .. Height : reported[s][b] \in Nat
  BY <1>2
<1>4. QED
  BY <1>2, <1>3 DEF Timestamps

LEMMA FirstOfQueue ==
    ASSUME NEW S, NEW q \in Seq(S), q # <<>>
    PROVE  Head(q) \in S /\ Tail(q) \in Seq(S) /\ (Len(q) # 1 => Tail(q) # <<>>)
<1>1. Head(q) \in S /\ Tail(q) \in Seq(S)
  OBVIOUS
<1>2. Len(Tail(q)) = Len(q) - 1 /\ Len(q) \in Nat
  OBVIOUS
<1>3. QED
  BY <1>1, <1>2

LEMMA EndOfQueue ==
    ASSUME NEW S, NEW q \in Seq(S), NEW x \in S
    PROVE  Append(q, x) \in Seq(S) /\ Len(Append(q, x)) = Len(q) + 1 /\ Len(q) \in Nat
OBVIOUS

LEMMA IndexTyped ==
    ASSUME TimeSound, Index
    PROVE  TimeSound'
<1>1. PICK h : h = Head(pending)
  OBVIOUS
<1>2. h \in Handlers /\ Tail(pending) \in Seq(Handlers)
  BY <1>1, FirstOfQueue DEF Index, TimeSound
<1>3. PICK block : block = Head(h.blocks)
  OBVIOUS
<1>4. /\ block \in 1 .. Height /\ h.source \in Source /\ Height \in Nat
      /\ Len(h.blocks) # 1 => Tail(h.blocks) \in Seq(1 .. Height) \ {<<>>}
  <2>1. h.blocks \in Seq(1 .. Height) /\ h.blocks # <<>> /\ h.source \in Source
    BY <1>2 DEF Handlers
  <2>2. PICK bs : bs = h.blocks
    OBVIOUS
  <2>3. PICK S : S = 1 .. Height
    OBVIOUS
  <2>4. bs \in Seq(S) /\ bs # <<>>
    BY <2>1, <2>2, <2>3
  <2>5. Head(bs) \in S /\ Tail(bs) \in Seq(S) /\ (Len(bs) # 1 => Tail(bs) # <<>>)
    BY <2>4, FirstOfQueue
  <2>6. QED
    BY <1>3, <2>1, <2>2, <2>3, <2>5, ChainAssumption
<1>5. PICK timestamp : timestamp = reported[h.source][block]
  OBVIOUS
<1>6. timestamp \in Timestamps
  BY <1>4, <1>5, ReportedTimes
<1>7. /\ index' = [index EXCEPT ![timestamp] = [b |-> block, s |-> @.s \union {h.source}]]
      /\ latest' = timestamp
      /\ pending' = Tail(pending) \o Resumed(h)
      /\ UNCHANGED <<poolKey, reported, startBlock, next, faults>>
  BY <1>1, <1>3, <1>5 DEF Index
<1>8. UNCHANGED Timestamps
  BY <1>7 DEF Timestamps
<1>9. index \in [Timestamps -> [b : 0 .. Height, s : SUBSET Source]]
  BY DEF TimeSound, TimeTypeOK
<1>10. /\ index' \in [Timestamps -> [b : 0 .. Height, s : SUBSET Source]]
       /\ \A t \in Timestamps : t # timestamp => index'[t] = index[t]
       /\ index'[timestamp].s # {}
  <2>1. PICK e : e = [b |-> block, s |-> index[timestamp].s \union {h.source}]
    OBVIOUS
  <2>2. index' = [index EXCEPT ![timestamp] = e]
    BY <1>7, <2>1
  <2>3. index[timestamp].s \in SUBSET Source
    BY <1>6, <1>9
  <2>4. e \in [b : 0 .. Height, s : SUBSET Source] /\ e.s # {}
    <3>1. block \in 0 .. Height /\ h.source \in Source
      BY <1>4
    <3>2. QED
      BY ONLY <2>1, <2>3, <3>1
  <2>5. QED
    BY <1>6, <1>9, <2>2, <2>4
<1>11. Resumed(h) \in Seq(Handlers)
  <2>1. CASE Len(h.blocks) = 1
    BY <2>1 DEF Resumed
  <2>2. CASE Len(h.blocks) # 1
    <3>1. [h EXCEPT !.blocks = Tail(@)] \in Handlers
      BY <1>2, <1>4, <2>2 DEF Handlers
    <3>2. QED
      BY <2>2, <3>1 DEF Resumed
  <2>3. QED
    BY <2>1, <2>2
<1>12. pending' \in Seq(Handlers)
  BY <1>2, <1>7, <1>11
<1>13. \A i \in 1 .. Len(pending') : pending'[i] \in Handlers
  BY <1>12
<1>14. IndexSound'
  BY IndexStays DEF TimeSound
<1>15. TimeTypeOK'
  <2>1. \A i \in 1 .. Len(pending') : /\ pending'[i].source \in Source
                                      /\ pending'[i].blocks \in Seq(1 .. Height)
    BY <1>13 DEF Handlers
  <2>2. QED
    BY <2>1, <1>6, <1>7, <1>8, <1>10 DEF TimeSound, TimeTypeOK
<1>16. \A t \in Timestamps : index'[t] # NoEntry => index'[t].s # {}
  BY <1>10 DEF TimeSound
<1>17. QED
  BY <1>7, <1>8, <1>12, <1>14, <1>15, <1>16 DEF TimeSound

(* A step that leaves the index alone.                                     *)
LEMMA TimeMoves ==
    ASSUME TimeSound, UNCHANGED <<poolKey, reported, startBlock, index, latest>>,
           next' \in [Source -> 0 .. Height + 1], pending' \in Seq(Handlers),
           faults' \in Seq(Fault), Len(faults') <= MaxFaults
    PROVE  TimeSound'
<1>1. UNCHANGED Timestamps
  BY DEF Timestamps
<1>2. IndexSound'
  BY <1>1 DEF TimeSound, IndexSound, Reported
<1>3. \A i \in 1 .. Len(pending') : pending'[i] \in Handlers
  OBVIOUS
<1>4. \A i \in 1 .. Len(pending') : /\ pending'[i].source \in Source
                                    /\ pending'[i].blocks \in Seq(1 .. Height)
  BY <1>3 DEF Handlers
<1>5. TimeTypeOK'
  BY <1>1, <1>4 DEF TimeSound, TimeTypeOK
<1>6. QED
  BY <1>1, <1>2, <1>5 DEF TimeSound

LEMMA OutputTyped ==
    ASSUME TimeSound, NEW s \in Source, NEW n \in 1 .. ChunkSize, Output(s, n)
    PROVE  next' \in [Source -> 0 .. Height + 1] /\ pending' \in Seq(Handlers)
<1>1. /\ Height \in Nat /\ n \in Nat \ {0}
      /\ next \in [Source -> 0 .. Height + 1] /\ pending \in Seq(Handlers)
  <2>1. Height \in Nat /\ ChunkSize \in Nat
    BY ONLY ChainAssumption
  <2>2. n \in Nat \ {0}
    BY ONLY <2>1, n \in 1 .. ChunkSize
  <2>3. next \in [Source -> 0 .. Height + 1] /\ pending \in Seq(Handlers)
    BY DEF TimeSound, TimeTypeOK
  <2>4. QED
    BY <2>1, <2>2, <2>3
<1>2. next[s] \in 1 .. Height + 1 /\ next[s] + n \in 0 .. Height + 1
  BY <1>1 DEF Output
<1>3. next' = [next EXCEPT ![s] = next[s] + n]
  BY DEF Output
<1>4. PICK blocks : blocks = [i \in 1 .. n |-> next[s] + i - 1]
  OBVIOUS
<1>5. blocks \in Seq(1 .. Height) \ {<<>>}
  <2>1. ASSUME NEW i \in 1 .. n PROVE next[s] + i - 1 \in 1 .. Height
    BY <1>1, <1>2
  <2>2. blocks \in [1 .. n -> 1 .. Height]
    BY <1>4, <2>1
  <2>3. blocks \in Seq(1 .. Height) /\ Len(blocks) = n
    BY <1>1, <2>2
  <2>4. QED
    BY <1>1, <2>3
<1>6. pending' = Append(pending, [source |-> s, blocks |-> blocks])
  BY <1>4 DEF Output
<1>7. [source |-> s, blocks |-> blocks] \in Handlers
  BY <1>5 DEF Handlers
<1>8. QED
  BY <1>1, <1>2, <1>3, <1>6, <1>7

LEMMA TimeKept == ASSUME TimeSound, [Next]_vars PROVE TimeSound'
<1>1. /\ Height \in Nat /\ MaxFaults \in Nat /\ startBlock \in 0 .. Height
      /\ next \in [Source -> 0 .. Height + 1] /\ pending \in Seq(Handlers)
      /\ faults \in Seq(Fault) /\ Len(faults) <= MaxFaults
  BY ChainAssumption DEF TimeSound, TimeTypeOK
<1>0. {"exit", "query", "answer"} \subseteq Fault
  BY DEF Fault
<1>2. ASSUME NEW f \in Fault, Len(faults) < MaxFaults, faults' = Append(faults, f)
      PROVE  faults' \in Seq(Fault) /\ Len(faults') <= MaxFaults
  <2>1. faults' \in Seq(Fault) /\ Len(faults') = Len(faults) + 1 /\ Len(faults) \in Nat
    BY <1>1, <1>2, EndOfQueue
  <2>2. Len(faults) < MaxFaults /\ MaxFaults \in Nat
    BY <1>1, <1>2
  <2>3. QED
    BY ONLY <2>1, <2>2
<1>3. CASE Index
  BY <1>3, IndexTyped
<1>4. ASSUME NEW s \in Source, Spawn(s) PROVE TimeSound'
  <2>1. FromBlock \in 0 .. Height + 1
    BY <1>1 DEF FromBlock
  <2>2. next' \in [Source -> 0 .. Height + 1]
    BY <1>1, <1>4, <2>1 DEF Spawn
  <2>3. QED
    BY <1>1, <1>4, <2>2, TimeMoves DEF Spawn
<1>5. ASSUME NEW s \in Source, NEW n \in 1 .. ChunkSize, Output(s, n) PROVE TimeSound'
  BY <1>1, <1>5, OutputTyped, TimeMoves DEF Output
<1>6. CASE Refuse
  <2>1. pending' \in Seq(Handlers)
    BY <1>1, <1>6, FirstOfQueue DEF Refuse
  <2>2. QED
    BY <1>1, <1>6, <2>1, TimeMoves DEF Refuse
<1>7. ASSUME NEW s \in Source, Exit(s) PROVE TimeSound'
  <2>1. next' \in [Source -> 0 .. Height + 1]
    BY <1>1, <1>7 DEF Exit
  <2>2. faults' \in Seq(Fault) /\ Len(faults') <= MaxFaults
    <3>1. Len(faults) < MaxFaults /\ faults' = Append(faults, "exit")
      BY <1>7 DEF Exit
    <3>2. QED
      BY <1>0, <1>2, <3>1
  <2>3. UNCHANGED <<poolKey, reported, startBlock, pending, index, latest>>
    BY <1>7 DEF Exit
  <2>4. QED
    BY <1>1, <2>1, <2>2, <2>3, TimeMoves
<1>8. CASE UNCHANGED <<indexVars, faults>>
  BY <1>1, <1>8, TimeMoves DEF indexVars
<1>9. CASE /\ UNCHANGED indexVars /\ Len(faults) < MaxFaults
           /\ \E f \in Fault : faults' = Append(faults, f)
  <2>1. faults' \in Seq(Fault) /\ Len(faults') <= MaxFaults
    BY <1>2, <1>9
  <2>2. UNCHANGED <<poolKey, reported, startBlock, next, pending, index, latest>>
    BY <1>9 DEF indexVars
  <2>3. QED
    BY <1>1, <2>1, <2>2, TimeMoves
<1>10. CASE QueryCut
  <2>1. UNCHANGED indexVars /\ Len(faults) < MaxFaults /\ faults' = Append(faults, "answer")
    BY <1>10 DEF QueryCut
  <2>2. QED
    BY <1>0, <1>9, <2>1
<1>11. ASSUME NEW s \in Source, NEW i \in 1 .. Len(calls[s]), QueryFails(s, i) PROVE TimeSound'
  <2>1. UNCHANGED indexVars /\ Len(faults) < MaxFaults /\ faults' = Append(faults, "query")
    BY <1>11 DEF QueryFails
  <2>2. QED
    BY <1>0, <1>9, <2>1
<1>12. CASE Asking
  BY <1>8, <1>12 DEF Asking, Hear, Prepare, Prepared, Query, Deliver, timeVars
<1>13. ASSUME NEW s \in Source, Getting(s) PROVE TimeSound'
  BY <1>8, <1>13 DEF Getting, ApplyUpdates, ApplyFees, timeVars
<1>14. CASE UNCHANGED vars
  BY <1>8, <1>14 DEF vars, timeVars
<1>15. QED
  BY <1>3, <1>4, <1>5, <1>6, <1>7, <1>10, <1>11, <1>12, <1>13, <1>14
     DEF Next, TimeStep, TimeNext, Indexing, ItemStep, Failing

(* The block that find gives for a key is not before the block of the key, *)
(* if the sources tell the truth.                                          *)
LEMMA NearestIsLater ==
    ASSUME TimeSound, NEW k \in Nat, Later(k) # {}
    PROVE  /\ Nearest(k) \in 0 .. Height
           /\ Honest /\ Time[0] < k => BlockAt(k) \in 1 .. Nearest(k)
<1>1. Later(k) \subseteq Nat
  BY ReportedTimes DEF Later, Entries
<1>2. \E t \in Later(k) : \A u \in Later(k) : t <= u
  BY <1>1, Lists!MinimalNumber
<1>3. PICK t \in Later(k) : Nearest(k) = index[t].b
  BY <1>2 DEF Nearest
<1>4. t \in Timestamps /\ index[t] # NoEntry /\ k <= t
  BY <1>1, <1>3 DEF Later, Entries
<1>5. /\ index[t].b \in 0 .. Height /\ index[t].s \in SUBSET Source /\ index[t].s # {}
      /\ Reported(index[t], t)
  BY <1>4 DEF TimeSound, TimeTypeOK, IndexSound
<1>6. Honest => Time[index[t].b] = t
  BY <1>5 DEF Honest, Reported
<1>7. QED
  BY <1>3, <1>4, <1>5, <1>6, BlockOfKey

-------------------------------------------------------------------------------
(* The keys, one after the other from the time of the first block on.      *)
KeysSound ==
    /\ heard \in Nat /\ prevKey \in Nat /\ key \in Nat
    /\ Time[FirstBlock] <= key
    /\ prevKey # 0 => key = NextKey(prevKey)

LEMMA KeySteps ==
    ASSUME NEW k \in Nat
    PROVE  NextKey(k) \in Nat /\ k < NextKey(k)
BY DEF NextKey, KeyStep

LEMMA FirstBlockTime ==
    Time[FirstBlock] \in Nat /\ Time[0] \in Nat /\ Time[0] < Time[FirstBlock]
<1>1. /\ Height \in Nat /\ FirstBlock \in 1 .. Height /\ Time \in [0 .. Height -> Nat]
      /\ Time[1 - 1] < Time[1]
  BY ChainAssumption
<1>2. 1 \in 0 .. Height /\ FirstBlock \in 0 .. Height /\ 1 <= FirstBlock /\ 1 - 1 = 0
  BY <1>1
<1>3. Time[1] <= Time[FirstBlock]
  BY <1>2, TimeGrows
<1>4. Time[0] \in Nat /\ Time[1] \in Nat /\ Time[FirstBlock] \in Nat
  BY <1>1, <1>2
<1>5. QED
  BY <1>1, <1>2, <1>3, <1>4

LEMMA KeysStart == Init => KeysSound
<1> SUFFICES ASSUME Init PROVE KeysSound
  OBVIOUS
<1>1. poolKey \in Nat /\ (poolKey = 0 \/ poolKey >= Time[FirstBlock])
  <2>1. PICK start \in Starts : poolKey = start[1]
    BY DEF Init, TimeInit
  <2>2. QED
    BY <2>1, ChainAssumption
<1>2. heard = 0 /\ prevKey = poolKey /\ key = FirstKey
  BY DEF Init
<1>3. QED
  BY ONLY <1>1, <1>2, KeySteps, FirstBlockTime DEF KeysSound, FirstKey

LEMMA KeysKept == ASSUME KeysSound, [Next]_vars PROVE KeysSound'
<1>1. CASE UNCHANGED <<heard, prevKey, key>>
  BY <1>1 DEF KeysSound
<1>2. CASE Hear
  BY <1>2 DEF Hear, KeysSound
<1>3. CASE Deliver
  <2>1. heard' = heard /\ prevKey' = key /\ key' = NextKey(key)
    BY <1>3 DEF Deliver
  <2>2. key \in Nat /\ NextKey(key) \in Nat /\ key < NextKey(key) /\ Time[FirstBlock] <= key
    BY KeySteps DEF KeysSound
  <2>3. Time[FirstBlock] <= key'
    BY <2>1, <2>2, FirstBlockTime
  <2>4. QED
    BY <2>1, <2>2, <2>3 DEF KeysSound
<1>4. CASE Prepare \/ Prepared \/ Query \/ QueryCut \/ TimeStep \/ UNCHANGED vars
  BY <1>1, <1>4 DEF Prepare, Prepared, Query, QueryCut, TimeStep, vars, itemVars
<1>5. ASSUME NEW s \in Source, Getting(s) \/ Failing(s) PROVE UNCHANGED <<heard, prevKey, key>>
  BY <1>5 DEF Getting, ApplyUpdates, ApplyFees, Failing, QueryFails
<1>6. QED
  BY <1>1, <1>2, <1>3, <1>4, <1>5 DEF Next, ItemStep, Asking

-------------------------------------------------------------------------------
(* The events of a range of blocks: all of them are there.                 *)
LEMMA Joined ==
    ASSUME NEW E, NEW a \in Seq(E), NEW b \in Seq(E)
    PROVE  a \o b \in Seq(E) /\ ToSet(a) \subseteq ToSet(a \o b) /\ ToSet(b) \subseteq ToSet(a \o b)
<1>1. a \o b \in Seq(E) /\ Len(a \o b) = Len(a) + Len(b) /\ Len(a) \in Nat /\ Len(b) \in Nat
  OBVIOUS
<1>2. \A i \in 1 .. Len(a) : i \in 1 .. Len(a \o b) /\ (a \o b)[i] = a[i]
  OBVIOUS
<1>3. \A i \in 1 .. Len(b) : Len(a) + i \in 1 .. Len(a \o b) /\ (a \o b)[Len(a) + i] = b[i]
  OBVIOUS
<1>4. /\ DOMAIN a = 1 .. Len(a) /\ DOMAIN b = 1 .. Len(b)
      /\ DOMAIN (a \o b) = 1 .. Len(a \o b)
  BY <1>1
<1>5. QED
  BY <1>1, <1>2, <1>3, <1>4 DEF ToSet

LEMMA FlatHasAll ==
    ASSUME NEW E, NEW seqs \in Seq(Seq(E))
    PROVE  /\ FlattenSeq(seqs) \in Seq(E)
           /\ \A i \in 1 .. Len(seqs) : ToSet(seqs[i]) \subseteq ToSet(FlattenSeq(seqs))
<1>1. PICK n \in Nat : n = Len(seqs)
  OBVIOUS
<1>2. CASE n = 0
  <2>1. seqs = <<>>
    <3>1. PICK T : T = Seq(E)
      OBVIOUS
    <3>2. seqs \in Seq(T) /\ Len(seqs) = 0
      BY <1>1, <1>2, <3>1
    <3>3. QED
      BY ONLY <3>2
  <2>2. FlattenSeq(seqs) = <<>>
    BY <1>1, <1>2, <2>1 DEF FlattenSeq
  <2>3. <<>> \in Seq(E) /\ 1 .. Len(seqs) = {}
    BY <1>1, <1>2
  <2>4. QED
    BY <2>2, <2>3
<1>3. CASE n # 0
  <2>1. PICK h : h = CHOOSE f : Lists!Flattening(f, seqs)
    OBVIOUS
  <2>2. Lists!Flattening(h, seqs)
    BY <2>1, Lists!FlatExists
  <2>3. FlattenSeq(seqs) = h[n]
    BY <1>1, <1>3, <2>1 DEF FlattenSeq, Lists!Flattening
  <2>4. \A i \in 1 .. n : h[i] = IF i = 1 THEN seqs[i] ELSE h[i - 1] \o seqs[i]
    BY <1>1, <2>2 DEF Lists!Flattening
  <2>5. \A i \in 1 .. n : seqs[i] \in Seq(E)
    BY <1>1
  <2>6. DEFINE S == {i \in 0 .. n : i # 0 => /\ h[i] \in Seq(E)
                                             /\ \A j \in 1 .. i : ToSet(seqs[j]) \subseteq ToSet(h[i])}
  <2>7. ASSUME NEW i \in 1 .. n, i - 1 \in S PROVE i \in S
    <3>1. CASE i = 1
      <4>1. h[1] = seqs[1]
        BY <2>4, <3>1
      <4>2. QED
        BY <2>5, <3>1, <4>1
    <3>2. CASE i # 1
      <4>1. /\ h[i - 1] \in Seq(E) /\ i - 1 \in 0 .. n
            /\ \A j \in 1 .. i - 1 : ToSet(seqs[j]) \subseteq ToSet(h[i - 1])
        BY <2>7, <3>2
      <4>2. h[i] = h[i - 1] \o seqs[i]
        BY <2>4, <3>2
      <4>3. /\ h[i] \in Seq(E) /\ ToSet(h[i - 1]) \subseteq ToSet(h[i])
            /\ ToSet(seqs[i]) \subseteq ToSet(h[i])
        BY <2>5, <4>1, <4>2, Joined
      <4>4. \A j \in 1 .. i : j = i \/ j \in 1 .. i - 1
        OBVIOUS
      <4>5. \A j \in 1 .. i : ToSet(seqs[j]) \subseteq ToSet(h[i])
        BY <4>1, <4>3, <4>4
      <4>6. QED
        BY <4>3, <4>5
    <3>3. QED
      BY <3>1, <3>2
  <2>8. 0 \in S
    OBVIOUS
  <2> HIDE DEF S
  <2>9. n \in S
    <3>1. \A i \in 0 .. n : i \in S
      BY <2>7, <2>8, Lists!Climb
    <3>2. QED
      BY <3>1
  <2>10. QED
    BY <1>1, <1>3, <2>3, <2>9 DEF S
<1>4. QED
  BY <1>2, <1>3

Event == Store \X Nat

LEMMA EventsInRange ==
    ASSUME NEW events \in [0 .. Height -> Seq(Event)], NEW from \in Nat, NEW to \in 0 .. Height
    PROVE  /\ EventsIn(events, from, to) \in Seq(Event)
           /\ \A c \in from .. to : ToSet(events[c]) \subseteq ToSet(EventsIn(events, from, to))
<1>0. PICK n : n = IF to < from THEN 0 ELSE to - from + 1
  OBVIOUS
<1>1. n \in Nat /\ n = IF to < from THEN 0 ELSE to - from + 1
  BY <1>0, ChainAssumption
<1>2. PICK seqs : seqs = [i \in 1 .. n |-> events[from + i - 1]]
  OBVIOUS
<1>3. ASSUME NEW i \in 1 .. n PROVE events[from + i - 1] \in Seq(Event)
  <2>1. from + i - 1 \in 0 .. Height
    BY <1>1, ChainAssumption
  <2>2. QED
    BY <2>1
<1>4. seqs \in Seq(Seq(Event)) /\ Len(seqs) = n
  <2>1. PICK T : T = Seq(Event)
    OBVIOUS
  <2>2. \A i \in 1 .. n : seqs[i] \in T
    BY <1>2, <1>3, <2>1
  <2>3. seqs \in [1 .. n -> T]
    BY <1>2, <2>2
  <2>4. seqs \in Seq(T) /\ Len(seqs) = n
    BY <1>1, <2>3
  <2>5. QED
    BY <2>1, <2>4
<1>5. EventsIn(events, from, to) = FlattenSeq(seqs)
  BY <1>1, <1>2 DEF EventsIn
<1>6. ASSUME NEW c \in from .. to
      PROVE  c - from + 1 \in 1 .. n /\ events[c] = seqs[c - from + 1]
  <2>1. c - from + 1 \in 1 .. n /\ from + (c - from + 1) - 1 = c
    BY <1>1, ChainAssumption
  <2>2. QED
    BY <1>2, <2>1
<1>7. QED
  BY <1>4, <1>5, <1>6, FlatHasAll

-------------------------------------------------------------------------------
(* The stores of a cache: no store is there twice, and what an event does  *)
(* leaves every store at its place.                                        *)
StoreList ==
    {list \in Seq([id : Store, amount : Int]) :
        \A i, j \in 1 .. Len(list) : list[i].id = list[j].id => i = j}

Ids(list) == {list[i].id : i \in 1 .. Len(list)}

Extends(list, old) == /\ Len(old) <= Len(list)
                      /\ \A i \in 1 .. Len(old) : list[i].id = old[i].id

LEMMA IdsGrow ==
    ASSUME NEW list \in StoreList, NEW old \in StoreList, Extends(list, old)
    PROVE  Ids(old) \subseteq Ids(list)
<1>1. Len(list) \in Nat /\ Len(old) \in Nat
  BY DEF StoreList
<1>2. QED
  BY <1>1 DEF Ids, Extends

LEMMA ExtendsOn ==
    ASSUME NEW a \in StoreList, NEW b \in StoreList, NEW c \in StoreList,
           Extends(b, a), Extends(c, b)
    PROVE  Extends(c, a)
<1>1. Len(a) \in Nat /\ Len(b) \in Nat /\ Len(c) \in Nat
  BY DEF StoreList
<1>2. QED
  BY <1>1 DEF Extends

LEMMA Relabelled ==
    ASSUME NEW list \in StoreList, NEW new \in Seq([id : Store, amount : Int]),
           Len(new) = Len(list), \A i \in 1 .. Len(list) : new[i].id = list[i].id
    PROVE  new \in StoreList /\ Extends(new, list)
<1>1. Len(list) \in Nat
  BY DEF StoreList
<1>2. QED
  BY <1>1 DEF StoreList, Extends

LEMMA UpdatedKeeps ==
    ASSUME NEW list \in StoreList, NEW e \in Event
    PROVE  /\ Updated(list, e) \in StoreList
           /\ Extends(Updated(list, e), list)
           /\ e[1] \in Ids(Updated(list, e))
<1>1. PICK R : R = [id : Store, amount : Int]
  OBVIOUS
<1>2. list \in Seq(R) /\ Len(list) \in Nat /\ e[1] \in Store /\ e[2] \in Nat
  BY <1>1 DEF StoreList, Event
<1>3. CASE Place(list, e[1]) = {}
  <2>1. PICK new : new = [id |-> e[1], amount |-> e[2]]
    OBVIOUS
  <2>2. new \in R /\ new.id = e[1]
    BY <1>1, <1>2, <2>1
  <2>3. PICK new2 : new2 = Append(list, new)
    OBVIOUS
  <2>4. /\ new2 \in Seq(R) /\ Len(new2) = Len(list) + 1
        /\ \A i \in 1 .. Len(list) : new2[i] = list[i]
        /\ new2[Len(list) + 1] = new
    BY <1>2, <2>2, <2>3
  <2>5. \A i \in 1 .. Len(list) : list[i].id # e[1]
    BY <1>3 DEF Place
  <2>6. \A i, j \in 1 .. Len(list) : list[i].id = list[j].id => i = j
    BY DEF StoreList
  <2>7. \A i \in 1 .. Len(new2) : i = Len(list) + 1 \/ i \in 1 .. Len(list)
    BY <1>2, <2>4
  <2>8. \A i, j \in 1 .. Len(new2) : new2[i].id = new2[j].id => i = j
    BY <2>2, <2>4, <2>5, <2>6, <2>7
  <2>9. new2 \in StoreList
    BY <1>1, <2>4, <2>8 DEF StoreList
  <2>10. Len(list) + 1 \in 1 .. Len(new2) /\ Len(list) <= Len(new2)
    BY <1>2, <2>4
  <2>11. e[1] \in Ids(new2)
    BY <2>2, <2>4, <2>10 DEF Ids
  <2>12. Extends(new2, list)
    BY <2>4, <2>10 DEF Extends
  <2>13. Updated(list, e) = new2
    BY <1>3, <2>1, <2>3 DEF Updated
  <2>14. QED
    BY <2>9, <2>11, <2>12, <2>13
<1>4. CASE Place(list, e[1]) # {}
  <2>1. PICK new2 : new2 = [i \in 1 .. Len(list) |->
                                IF i \in Place(list, e[1]) THEN [list[i] EXCEPT !.amount = @ + e[2]]
                                ELSE list[i]]
    OBVIOUS
  <2>2. ASSUME NEW i \in 1 .. Len(list)
        PROVE  new2[i] \in R /\ new2[i].id = list[i].id
    <3>1. list[i] \in R
      BY <1>2
    <3>2. [list[i] EXCEPT !.amount = @ + e[2]] \in R
      BY <1>1, <1>2, <3>1
    <3>3. [list[i] EXCEPT !.amount = @ + e[2]].id = list[i].id
      BY <1>1, <3>1
    <3>4. QED
      BY <2>1, <3>1, <3>2, <3>3
  <2>3. new2 \in [1 .. Len(list) -> R]
    BY <2>1, <2>2
  <2>4. new2 \in Seq(R) /\ Len(new2) = Len(list)
    BY <1>2, <2>3
  <2>5. new2 \in StoreList /\ Extends(new2, list)
    BY <1>1, <2>2, <2>4, Relabelled
  <2>6. e[1] \in Ids(new2)
    <3>1. PICK i \in 1 .. Len(list) : list[i].id = e[1]
      BY <1>4 DEF Place
    <3>2. QED
      BY <2>2, <2>4, <3>1 DEF Ids
  <2>7. Updated(list, e) = new2
    BY <1>4, <2>1 DEF Updated
  <2>8. QED
    BY <2>5, <2>6, <2>7
<1>5. QED
  BY <1>3, <1>4

LEMMA ChargedKeeps ==
    ASSUME NEW list \in StoreList, NEW e \in Event
    PROVE  Charged(list, e) \in StoreList /\ Extends(Charged(list, e), list)
<1>1. PICK R : R = [id : Store, amount : Int]
  OBVIOUS
<1>2. list \in Seq(R) /\ Len(list) \in Nat /\ e[1] \in Store /\ e[2] \in Nat
  BY <1>1 DEF StoreList, Event
<1>3. PICK new2 : new2 = [i \in 1 .. Len(list) |->
                              IF i \in Place(list, e[1]) THEN [list[i] EXCEPT !.amount = @ - e[2]]
                              ELSE list[i]]
  OBVIOUS
<1>4. ASSUME NEW i \in 1 .. Len(list)
      PROVE  new2[i] \in R /\ new2[i].id = list[i].id
  <2>1. list[i] \in R
    BY <1>2
  <2>2. [list[i] EXCEPT !.amount = @ - e[2]] \in R
    BY <1>1, <1>2, <2>1
  <2>3. [list[i] EXCEPT !.amount = @ - e[2]].id = list[i].id
    BY <1>1, <2>1
  <2>4. QED
    BY <1>3, <2>1, <2>2, <2>3
<1>5. new2 \in [1 .. Len(list) -> R]
  BY <1>3, <1>4
<1>6. new2 \in Seq(R) /\ Len(new2) = Len(list)
  BY <1>2, <1>5
<1>7. Charged(list, e) = new2
  BY <1>3 DEF Charged
<1>8. QED
  BY <1>1, <1>4, <1>6, <1>7, Relabelled

(* The loops over the events of an answer.                                 *)
UpdateLoop(after, stores, events) ==
    after = [i \in 0 .. Len(events) |-> IF i = 0 THEN stores ELSE Updated(after[i - 1], events[i])]

FeeLoop(after, stores, events) ==
    after = [i \in 0 .. Len(events) |-> IF i = 0 THEN stores ELSE Charged(after[i - 1], events[i])]

LEMMA LoopsExist ==
    ASSUME NEW stores \in StoreList, NEW events \in Seq(Event)
    PROVE  /\ \E after : UpdateLoop(after, stores, events)
           /\ \E after : FeeLoop(after, stores, events)
<1>1. PICK n \in Nat : n = Len(events)
  OBVIOUS
<1>2. \A i \in 1 .. n : events[i] \in Event
  BY <1>1
<1>3. \E after : UpdateLoop(after, stores, events)
  <2>1. PICK step : step = [p \in (1 .. n) \X StoreList |-> Updated(p[2], events[p[1]])]
    OBVIOUS
  <2>2. step \in [(1 .. n) \X StoreList -> StoreList]
    <3>1. ASSUME NEW p \in (1 .. n) \X StoreList PROVE Updated(p[2], events[p[1]]) \in StoreList
      BY <1>2, UpdatedKeeps
    <3>2. QED
      BY <2>1, <3>1
  <2>3. PICK g \in [0 .. n -> StoreList] : Lists!Turning(g, n, stores, step)
    BY <2>2, Lists!Recursion
  <2>4. ASSUME NEW i \in 0 .. n
        PROVE  g[i] = IF i = 0 THEN stores ELSE Updated(g[i - 1], events[i])
    <3>1. g[i] = IF i = 0 THEN stores ELSE step[<<i, g[i - 1]>>]
      BY <2>3 DEF Lists!Turning
    <3>2. i # 0 => i \in 1 .. n /\ g[i - 1] \in StoreList
      BY <2>3
    <3>3. QED
      BY <2>1, <3>1, <3>2
  <2>5. g = [i \in 0 .. n |-> g[i]]
    BY <2>3
  <2>6. UpdateLoop(g, stores, events)
    BY <1>1, <2>4, <2>5 DEF UpdateLoop
  <2>7. QED
    BY <2>6
<1>4. \E after : FeeLoop(after, stores, events)
  <2>1. PICK step : step = [p \in (1 .. n) \X StoreList |-> Charged(p[2], events[p[1]])]
    OBVIOUS
  <2>2. step \in [(1 .. n) \X StoreList -> StoreList]
    <3>1. ASSUME NEW p \in (1 .. n) \X StoreList PROVE Charged(p[2], events[p[1]]) \in StoreList
      BY <1>2, ChargedKeeps
    <3>2. QED
      BY <2>1, <3>1
  <2>3. PICK g \in [0 .. n -> StoreList] : Lists!Turning(g, n, stores, step)
    BY <2>2, Lists!Recursion
  <2>4. ASSUME NEW i \in 0 .. n
        PROVE  g[i] = IF i = 0 THEN stores ELSE Charged(g[i - 1], events[i])
    <3>1. g[i] = IF i = 0 THEN stores ELSE step[<<i, g[i - 1]>>]
      BY <2>3 DEF Lists!Turning
    <3>2. i # 0 => i \in 1 .. n /\ g[i - 1] \in StoreList
      BY <2>3
    <3>3. QED
      BY <2>1, <3>1, <3>2
  <2>5. g = [i \in 0 .. n |-> g[i]]
    BY <2>3
  <2>6. FeeLoop(g, stores, events)
    BY <1>1, <2>4, <2>5 DEF FeeLoop
  <2>7. QED
    BY <2>6
<1>5. QED
  BY <1>3, <1>4

LEMMA ExtendsItself == ASSUME NEW list \in StoreList PROVE Extends(list, list)
<1>1. Len(list) \in Nat
  BY DEF StoreList
<1>2. QED
  BY <1>1 DEF Extends

(* After the updates every store they name is in the list.                 *)
LEMMA UpdatesApplied ==
    ASSUME NEW stores \in StoreList, NEW events \in Seq(Event)
    PROVE  /\ AfterUpdates(stores, events) \in StoreList
           /\ Extends(AfterUpdates(stores, events), stores)
           /\ \A e \in ToSet(events) : e[1] \in Ids(AfterUpdates(stores, events))
<1>1. PICK n \in Nat : n = Len(events)
  OBVIOUS
<1>2. PICK after : after = CHOOSE h : UpdateLoop(h, stores, events)
  OBVIOUS
<1>3. UpdateLoop(after, stores, events)
  BY <1>2, LoopsExist
<1>4. AfterUpdates(stores, events) = after[n]
  BY <1>1, <1>2 DEF AfterUpdates, UpdateLoop
<1>5. after[0] = stores /\ \A i \in 1 .. n : after[i] = Updated(after[i - 1], events[i])
  BY <1>1, <1>3 DEF UpdateLoop
<1>6. \A i \in 1 .. n : events[i] \in Event
  BY <1>1
<1>7. DEFINE S == {i \in 0 .. n : /\ after[i] \in StoreList /\ Extends(after[i], stores)
                                  /\ \A j \in 1 .. i : events[j][1] \in Ids(after[i])}
<1>8. 0 \in S
  BY <1>5, ExtendsItself
<1>9. ASSUME NEW i \in 1 .. n, i - 1 \in S PROVE i \in S
  <2>1. /\ after[i - 1] \in StoreList /\ Extends(after[i - 1], stores)
        /\ \A j \in 1 .. i - 1 : events[j][1] \in Ids(after[i - 1])
    BY <1>9
  <2>2. /\ after[i] \in StoreList /\ Extends(after[i], after[i - 1])
        /\ events[i][1] \in Ids(after[i])
    BY <1>5, <1>6, <2>1, UpdatedKeeps
  <2>3. Extends(after[i], stores) /\ Ids(after[i - 1]) \subseteq Ids(after[i])
    BY <2>1, <2>2, ExtendsOn, IdsGrow
  <2>4. \A j \in 1 .. i : j = i \/ j \in 1 .. i - 1
    OBVIOUS
  <2>5. \A j \in 1 .. i : events[j][1] \in Ids(after[i])
    BY <2>1, <2>2, <2>3, <2>4
  <2>6. QED
    BY <2>2, <2>3, <2>5
<1> HIDE DEF S
<1>10. \A i \in 0 .. n : i \in S
  BY <1>8, <1>9, Lists!Climb
<1>11. n \in S
  BY <1>10
<1>12. \A e \in ToSet(events) : \E j \in 1 .. n : e = events[j]
  BY <1>1 DEF ToSet
<1>13. QED
  BY <1>4, <1>11, <1>12 DEF S

LEMMA FeesApplied ==
    ASSUME NEW stores \in StoreList, NEW events \in Seq(Event)
    PROVE  /\ AfterFees(stores, events) \in StoreList
           /\ Extends(AfterFees(stores, events), stores)
<1>1. PICK n \in Nat : n = Len(events)
  OBVIOUS
<1>2. PICK after : after = CHOOSE h : FeeLoop(h, stores, events)
  OBVIOUS
<1>3. FeeLoop(after, stores, events)
  BY <1>2, LoopsExist
<1>4. AfterFees(stores, events) = after[n]
  BY <1>1, <1>2 DEF AfterFees, FeeLoop
<1>5. after[0] = stores /\ \A i \in 1 .. n : after[i] = Charged(after[i - 1], events[i])
  BY <1>1, <1>3 DEF FeeLoop
<1>6. \A i \in 1 .. n : events[i] \in Event
  BY <1>1
<1>7. DEFINE S == {list \in StoreList : Extends(list, stores)}
<1>8. after[0] \in S
  BY <1>5, ExtendsItself
<1>9. ASSUME NEW i \in 1 .. n, after[i - 1] \in S PROVE after[i] \in S
  <2>1. after[i] \in StoreList /\ Extends(after[i], after[i - 1])
    BY <1>5, <1>6, <1>9, ChargedKeeps
  <2>2. QED
    BY <1>9, <2>1, ExtendsOn
<1> HIDE DEF S
<1>10. \A i \in 0 .. n : after[i] \in S
  BY <1>8, <1>9, Lists!Stays
<1>11. after[n] \in S
  BY <1>10
<1>12. QED
  BY <1>4, <1>11 DEF S

-------------------------------------------------------------------------------
(* What the caches hold: everything up to where they have been read, and   *)
(* up to where each call that is under way has got, also that of an        *)
(* attempt that was given up.                                              *)
Call == [from : Nat, to : 0 .. Height, stage : {"updates", "fees"}, current : BOOLEAN]

Covers(list, b) == StoresAt(b) \subseteq Ids(list)

GotTo(c) == IF c.stage = "updates" THEN c.from - 1 ELSE c.to

CachesSound ==
    /\ cache \in [Source -> [from : Nat, stores : StoreList]]
    /\ calls \in [Source -> Seq(Call)]
    /\ \A s \in Source : /\ Covers(cache[s].stores, cache[s].from - 1)
                         /\ \A c \in ToSet(calls[s]) : Covers(cache[s].stores, GotTo(c))

(* What the attempt has to go on with: once the sources have answered, the *)
(* stores up to the block of the key.                                      *)
Reaches(c) == c.current /\ BlockAt(key) <= c.to

ReadSound ==
    /\ phase \in {"waiting", "preparing", "generating"}
    /\ Honest => /\ phase # "waiting" => BlockAt(key) \in 1 .. Height
                 /\ phase = "preparing" => \/ Covers(Stores, BlockAt(key))
                                           \/ \E c \in ToSet(calls[First]) : Reaches(c)
                 /\ phase = "generating" => Covers(Stores, BlockAt(key))

(* The messages so far: those of the stores that were asked for.           *)
AnswersSound ==
    /\ at \in Nat \ {0} /\ IsABag(messages)
    /\ phase = "generating" =>
         /\ at <= Len(Stores) + 1
         /\ \A i \in 1 .. at - 1 : InWindow(Stores[i].id) \subseteq BagToSet(messages)
         /\ \A msg \in BagToSet(messages) :
              /\ msg \in InWindow(msg[1])
              /\ ~Contains(faults, "answer") =>
                   /\ messages[msg] = 1
                   /\ \E i \in 1 .. at - 1 : msg[1] = Stores[i].id

ItemWhole ==
    /\ \A msg \in Published :
         /\ msg[1] \in StoresAt(BlockAt(item.key))
         /\ item.since * 1000 <= msg[2] /\ msg[2] <= item.key * 1000
         /\ item.since # 0
         => msg \in BagToSet(item.m)
    /\ \A msg \in BagToSet(item.m) : /\ item.since * 1000 <= msg[2]
                                     /\ msg[2] <= item.key * 1000
                                     /\ ~Contains(faults, "answer") => item.m[msg] = 1

ItemSound == IsABag(item.m) /\ (Honest /\ item # NoItem => ItemWhole)

ItemsInv == /\ TimeSound /\ KeysSound /\ CachesSound
            /\ ReadSound /\ AnswersSound /\ ItemSound

-------------------------------------------------------------------------------
LEMMA CoversOn ==
    ASSUME NEW old \in StoreList, NEW list \in StoreList, Extends(list, old), NEW b, Covers(old, b)
    PROVE  Covers(list, b)
BY IdsGrow DEF Covers

LEMMA CoversLess ==
    ASSUME NEW list, NEW b \in Int, NEW c \in Int, c <= b, Covers(list, b)
    PROVE  Covers(list, c)
<1>1. FirstBlock .. c \subseteq FirstBlock .. b
  BY ChainAssumption
<1>2. QED
  BY <1>1 DEF Covers, StoresAt

LEMMA CoversNone == ASSUME NEW list PROVE Covers(list, FirstBlock - 1)
<1>1. FirstBlock .. FirstBlock - 1 = {}
  BY ChainAssumption
<1>2. QED
  BY <1>1 DEF Covers, StoresAt

LEMMA CoversMore ==
    ASSUME NEW list, NEW from \in Nat, NEW to \in Nat, Covers(list, from - 1),
           \A c \in from .. to : \A e \in ToSet(Updates[c]) : e[1] \in Ids(list)
    PROVE  Covers(list, to)
<1>1. \A c \in FirstBlock .. to : c \in FirstBlock .. from - 1 \/ c \in from .. to
  BY ChainAssumption
<1>2. \A c \in FirstBlock .. from - 1 : \A e \in ToSet(Updates[c]) : e[1] \in Ids(list)
  BY DEF Covers, StoresAt
<1>3. \A c \in FirstBlock .. to : \A e \in ToSet(Updates[c]) : e[1] \in Ids(list)
  BY <1>1, <1>2
<1>4. QED
  BY <1>3 DEF Covers, StoresAt

(* Sequences as sets.                                                      *)
LEMMA SetOfAppend ==
    ASSUME NEW S, NEW q \in Seq(S), NEW x \in S
    PROVE  ToSet(Append(q, x)) = ToSet(q) \cup {x}
<1>1. PICK n \in Nat : n = Len(q)
  OBVIOUS
<1>2. PICK p : p = Append(q, x)
  OBVIOUS
<1>3. /\ DOMAIN q = 1 .. n /\ DOMAIN p = 1 .. n + 1
      /\ \A i \in 1 .. n : p[i] = q[i] 
      /\ p[n + 1] = x
  BY <1>1, <1>2
<1>4. \A i \in 1 .. n + 1 : i = n + 1 \/ i \in 1 .. n
  OBVIOUS
<1>5. 1 .. n \subseteq 1 .. n + 1 /\ n + 1 \in 1 .. n + 1
  OBVIOUS
<1>6. ToSet(p) = ToSet(q) \cup {x}
  BY <1>3, <1>4, <1>5 DEF ToSet
<1>7. QED
  BY <1>2, <1>6

LEMMA SetOfExcept ==
    ASSUME NEW S, NEW q \in Seq(S), NEW i \in 1 .. Len(q), NEW x \in S
    PROVE  /\ [q EXCEPT ![i] = x] \in Seq(S)
           /\ ToSet([q EXCEPT ![i] = x]) \subseteq ToSet(q) \cup {x}
           /\ ToSet(q) \subseteq ToSet([q EXCEPT ![i] = x]) \cup {q[i]}
           /\ x \in ToSet([q EXCEPT ![i] = x])
<1>1. PICK p : p = [q EXCEPT ![i] = x]
  OBVIOUS
<1>2. /\ p \in Seq(S) /\ DOMAIN p = DOMAIN q /\ i \in DOMAIN q
      /\ \A j \in DOMAIN q : p[j] = IF j = i THEN x ELSE q[j]
  BY <1>1
<1>3. QED
  BY <1>1, <1>2 DEF ToSet

LEMMA PlacesOfJoined ==
    ASSUME NEW S, NEW a \in Seq(S), NEW b \in Seq(S)
    PROVE  /\ a \o b \in Seq(S) /\ Len(a \o b) = Len(a) + Len(b)
           /\ \A j \in 1 .. Len(a) : (a \o b)[j] = a[j]
           /\ \A j \in 1 .. Len(b) : (a \o b)[Len(a) + j] = b[j]
OBVIOUS

LEMMA SetOfRemoveAt ==
    ASSUME NEW S, NEW q \in Seq(S), NEW i \in 1 .. Len(q)
    PROVE  /\ RemoveAt(q, i) \in Seq(S)
           /\ ToSet(RemoveAt(q, i)) \subseteq ToSet(q)
           /\ ToSet(q) \subseteq ToSet(RemoveAt(q, i)) \cup {q[i]}
<1>1. PICK n \in Nat : n = Len(q)
  OBVIOUS
<1>2. PICK a : a = SubSeq(q, 1, i - 1)
  OBVIOUS
<1>3. PICK b : b = SubSeq(q, i + 1, n)
  OBVIOUS
<1>4. /\ a \in Seq(S) /\ Len(a) = i - 1 /\ \A j \in 1 .. i - 1 : a[j] = q[j]
  BY <1>1, <1>2
<1>5. /\ b \in Seq(S) /\ Len(b) = n - i /\ \A j \in 1 .. n - i : b[j] = q[i + j]
  BY <1>1, <1>3
<1>6. /\ DOMAIN q = 1 .. n /\ DOMAIN a = 1 .. i - 1 /\ DOMAIN b = 1 .. n - i
  BY <1>1, <1>4, <1>5
<1>7. ToSet(a) \subseteq ToSet(q) /\ ToSet(b) \subseteq ToSet(q)
  <2>1. \A j \in 1 .. i - 1 : j \in 1 .. n
    BY <1>1
  <2>2. \A j \in 1 .. n - i : i + j \in 1 .. n
    BY <1>1
  <2>3. ToSet(a) \subseteq ToSet(q)
    BY <1>4, <1>6, <2>1 DEF ToSet
  <2>4. ToSet(b) \subseteq ToSet(q)
    BY <1>5, <1>6, <2>2 DEF ToSet
  <2>5. QED
    BY <2>3, <2>4
<1>8. ToSet(q) \subseteq ToSet(a) \cup ToSet(b) \cup {q[i]}
  <2>1. \A j \in 1 .. n : j \in 1 .. i - 1 \/ j = i \/ (j - i \in 1 .. n - i /\ i + (j - i) = j)
    BY <1>1
  <2>2. \A j \in 1 .. i - 1 : q[j] \in ToSet(a)
    BY <1>4, <1>6 DEF ToSet
  <2>3. \A j \in 1 .. n - i : q[i + j] \in ToSet(b)
    BY <1>5, <1>6 DEF ToSet
  <2>4. ASSUME NEW j \in 1 .. n PROVE q[j] \in ToSet(a) \cup ToSet(b) \cup {q[i]}
    BY <2>1, <2>2, <2>3
  <2>5. QED
    BY <1>6, <2>4 DEF ToSet
<1>9. /\ RemoveAt(q, i) = a \o b
  BY <1>1, <1>2, <1>3 DEF RemoveAt
<1>10. ToSet(a \o b) \subseteq ToSet(a) \cup ToSet(b)
  <2>1. PICK c : c = a \o b
    OBVIOUS
  <2>2. /\ c \in Seq(S) /\ Len(c) = (i - 1) + (n - i)
        /\ \A j \in 1 .. i - 1 : c[j] = a[j]
        /\ \A j \in 1 .. n - i : c[(i - 1) + j] = b[j]
    <3>1. /\ c \in Seq(S) /\ Len(c) = Len(a) + Len(b)
          /\ \A j \in 1 .. Len(a) : c[j] = a[j]
          /\ \A j \in 1 .. Len(b) : c[Len(a) + j] = b[j]
      <4>1. a \in Seq(S) /\ b \in Seq(S)
        BY <1>4, <1>5
      <4>2. QED
        BY ONLY <2>1, <4>1, PlacesOfJoined
    <3>2. QED
      BY <1>4, <1>5, <3>1
  <2>3. \A j \in 1 .. Len(c) : \/ j \in 1 .. i - 1
                               \/ (j - (i - 1) \in 1 .. n - i /\ (i - 1) + (j - (i - 1)) = j)
    BY <1>1, <2>2
  <2>4. DOMAIN c = 1 .. Len(c)
    BY <2>2
  <2>5. QED
    BY <1>6, <2>1, <2>2, <2>3, <2>4 DEF ToSet
<1>11. a \o b \in Seq(S) /\ ToSet(a) \subseteq ToSet(a \o b) /\ ToSet(b) \subseteq ToSet(a \o b)
  BY <1>4, <1>5, Joined
<1>12. QED
  BY <1>7, <1>8, <1>9, <1>10, <1>11

-------------------------------------------------------------------------------
(* What the actions do to the caches and the calls.                        *)
LEMMA CachesStart == Init => CachesSound
<1> SUFFICES ASSUME Init PROVE CachesSound
  OBVIOUS
<1>1. /\ cache = [s \in Source |-> [from |-> 0, stores |-> <<>>]]
      /\ calls = [s \in Source |-> <<>>]
  BY DEF Init
<1>2. <<>> \in StoreList
  BY DEF StoreList
<1>3. <<>> \in Seq(Call) /\ ToSet(<<>>) = {}
  BY DEF ToSet
<1>4. Covers(<<>>, 0 - 1)
  <2>1. FirstBlock .. 0 - 1 = {}
    BY ChainAssumption
  <2>2. QED
    BY <2>1 DEF Covers, StoresAt
<1>5. cache \in [Source -> [from : Nat, stores : StoreList]]
  BY <1>1, <1>2
<1>6. QED
  BY <1>1, <1>3, <1>4, <1>5 DEF CachesSound

LEMMA OneChanges ==
    ASSUME CachesSound, NEW s \in Source,
           NEW entry \in [from : Nat, stores : StoreList], NEW cs \in Seq(Call),
           cache' = [cache EXCEPT ![s] = entry], calls' = [calls EXCEPT ![s] = cs],
           Covers(entry.stores, entry.from - 1),
           \A c \in ToSet(cs) : Covers(entry.stores, GotTo(c))
    PROVE  CachesSound'
<1>1. /\ cache' \in [Source -> [from : Nat, stores : StoreList]]
      /\ calls' \in [Source -> Seq(Call)]
      /\ cache'[s] = entry /\ calls'[s] = cs
      /\ \A r \in Source : r # s => cache'[r] = cache[r] /\ calls'[r] = calls[r]
  BY DEF CachesSound
<1>2. ASSUME NEW r \in Source
      PROVE  /\ Covers(cache'[r].stores, cache'[r].from - 1)
             /\ \A c \in ToSet(calls'[r]) : Covers(cache'[r].stores, GotTo(c))
  <2>1. CASE r = s
    BY <1>1, <2>1
  <2>2. CASE r # s
    BY <1>1, <2>2 DEF CachesSound
  <2>3. QED
    BY <2>1, <2>2
<1>3. QED
  BY <1>1, <1>2 DEF CachesSound

LEMMA CallTyped ==
    ASSUME CachesSound, NEW s \in Source, NEW i \in 1 .. Len(calls[s])
    PROVE  /\ calls[s][i] \in Call /\ calls[s][i] \in ToSet(calls[s])
           /\ calls[s] \in Seq(Call) /\ cache[s] \in [from : Nat, stores : StoreList]
           /\ Covers(cache[s].stores, GotTo(calls[s][i]))
           /\ GotTo(calls[s][i]) \in Int
<1>1. calls[s] \in Seq(Call) /\ cache[s] \in [from : Nat, stores : StoreList]
  BY DEF CachesSound
<1>2. calls[s][i] \in Call /\ calls[s][i] \in ToSet(calls[s])
  BY <1>1 DEF ToSet
<1>3. GotTo(calls[s][i]) \in Int
  BY <1>2, ChainAssumption DEF Call, GotTo
<1>4. QED
  BY <1>1, <1>2, <1>3 DEF CachesSound

UpdatedStores(s, call) == AfterUpdates(cache[s].stores, EventsIn(Updates, call.from, call.to))

LEMMA UpdatesCover ==
    ASSUME CachesSound, NEW s \in Source, NEW i \in 1 .. Len(calls[s]), ApplyUpdates(s, i)
    PROVE  /\ UpdatedStores(s, calls[s][i]) \in StoreList
           /\ Extends(UpdatedStores(s, calls[s][i]), cache[s].stores)
           /\ Covers(UpdatedStores(s, calls[s][i]), calls[s][i].to)
<1>1. PICK call : call = calls[s][i]
  OBVIOUS
<1>2. call \in Call /\ call.stage = "updates" /\ cache[s].stores \in StoreList
  BY <1>1, CallTyped DEF ApplyUpdates
<1>3. call.from \in Nat /\ call.to \in 0 .. Height /\ call.to \in Nat
  BY <1>2, ChainAssumption DEF Call
<1>4. Covers(cache[s].stores, call.from - 1)
  BY <1>1, <1>2, CallTyped DEF GotTo
<1>5. PICK events : events = EventsIn(Updates, call.from, call.to)
  OBVIOUS
<1>6. /\ events \in Seq(Event)
      /\ \A c \in call.from .. call.to : ToSet(Updates[c]) \subseteq ToSet(events)
  BY <1>3, <1>5, EventsInRange, EventsAssumption DEF Event
<1>7. PICK list : list = AfterUpdates(cache[s].stores, events)
  OBVIOUS
<1>8. /\ list \in StoreList /\ Extends(list, cache[s].stores)
      /\ \A e \in ToSet(events) : e[1] \in Ids(list)
  BY <1>2, <1>6, <1>7, UpdatesApplied
<1>9. Covers(list, call.from - 1)
  BY <1>2, <1>4, <1>8, CoversOn
<1>10. Covers(list, call.to)
  BY <1>3, <1>6, <1>8, <1>9, CoversMore
<1>11. QED
  BY <1>1, <1>5, <1>7, <1>8, <1>10 DEF UpdatedStores

LEMMA UpdatesKeep ==
    ASSUME CachesSound, NEW s \in Source, NEW i \in 1 .. Len(calls[s]), ApplyUpdates(s, i)
    PROVE  CachesSound'
<1>1. PICK call : call = calls[s][i]
  OBVIOUS
<1>2. PICK list : list = UpdatedStores(s, call)
  OBVIOUS
<1>3. /\ call \in Call /\ calls[s] \in Seq(Call) /\ cache[s] \in [from : Nat, stores : StoreList]
      /\ cache[s].stores \in StoreList /\ cache[s].from \in Nat
  BY <1>1, CallTyped
<1>4. list \in StoreList /\ Extends(list, cache[s].stores) /\ Covers(list, call.to)
  BY <1>1, <1>2, UpdatesCover
<1>5. PICK entry : entry = [cache[s] EXCEPT !.stores = list]
  OBVIOUS
<1>6. PICK new : new = [call EXCEPT !.stage = "fees", !.from = cache[s].from]
  OBVIOUS
<1>7. PICK cs : cs = [calls[s] EXCEPT ![i] = new]
  OBVIOUS
<1>8. cache' = [cache EXCEPT ![s] = entry] /\ calls' = [calls EXCEPT ![s] = cs]
  BY <1>1, <1>2, <1>5, <1>6, <1>7 DEF ApplyUpdates, UpdatedStores
<1>9. /\ entry \in [from : Nat, stores : StoreList]
      /\ entry.stores = list /\ entry.from = cache[s].from
  BY <1>3, <1>4, <1>5
<1>10. new \in Call /\ GotTo(new) = call.to
  BY <1>3, <1>6 DEF Call, GotTo
<1>11. cs \in Seq(Call) /\ ToSet(cs) \subseteq ToSet(calls[s]) \cup {new}
  BY <1>3, <1>7, <1>10, SetOfExcept
<1>12. ASSUME NEW b, Covers(cache[s].stores, b) PROVE Covers(list, b)
  BY <1>3, <1>4, <1>12, CoversOn
<1>13. Covers(list, cache[s].from - 1) /\ \A c \in ToSet(calls[s]) : Covers(list, GotTo(c))
  BY <1>12 DEF CachesSound
<1>14. \A c \in ToSet(cs) : Covers(list, GotTo(c))
  BY <1>4, <1>10, <1>11, <1>13
<1>15. QED
  BY <1>8, <1>9, <1>11, <1>13, <1>14, OneChanges

LEMMA FeesKeep ==
    ASSUME CachesSound, NEW s \in Source, NEW i \in 1 .. Len(calls[s]), ApplyFees(s, i)
    PROVE  /\ CachesSound'
           /\ Extends(cache'[s].stores, cache[s].stores)
<1>1. PICK call : call = calls[s][i]
  OBVIOUS
<1>2. /\ call \in Call /\ calls[s] \in Seq(Call) /\ cache[s] \in [from : Nat, stores : StoreList]
      /\ cache[s].stores \in StoreList /\ Covers(cache[s].stores, GotTo(call))
      /\ call.stage = "fees"
  BY <1>1, CallTyped DEF ApplyFees
<1>3. call.from \in Nat /\ call.to \in 0 .. Height /\ call.to \in Nat
  BY <1>2, ChainAssumption DEF Call
<1>4. Covers(cache[s].stores, call.to)
  BY <1>2 DEF GotTo
<1>5. PICK events : events = EventsIn(Fees, call.from, call.to)
  OBVIOUS
<1>6. events \in Seq(Event)
  BY <1>3, <1>5, EventsInRange, EventsAssumption DEF Event
<1>7. PICK list : list = AfterFees(cache[s].stores, events)
  OBVIOUS
<1>8. list \in StoreList /\ Extends(list, cache[s].stores)
  BY <1>2, <1>6, <1>7, FeesApplied
<1>9. PICK entry : entry = [from |-> call.to + 1, stores |-> list]
  OBVIOUS
<1>10. PICK cs : cs = RemoveAt(calls[s], i)
  OBVIOUS
<1>11. cache' = [cache EXCEPT ![s] = entry] /\ calls' = [calls EXCEPT ![s] = cs]
  BY <1>1, <1>5, <1>7, <1>9, <1>10 DEF ApplyFees
<1>12. /\ entry \in [from : Nat, stores : StoreList] /\ entry.stores = list
       /\ entry.from - 1 = call.to
  BY <1>3, <1>8, <1>9
<1>13. cs \in Seq(Call) /\ ToSet(cs) \subseteq ToSet(calls[s])
  BY <1>2, <1>10, SetOfRemoveAt
<1>14. ASSUME NEW b, Covers(cache[s].stores, b) PROVE Covers(list, b)
  BY <1>2, <1>8, <1>14, CoversOn
<1>15. Covers(list, call.to) /\ \A c \in ToSet(cs) : Covers(list, GotTo(c))
  BY <1>4, <1>13, <1>14 DEF CachesSound
<1>16. CachesSound'
  BY <1>11, <1>12, <1>13, <1>15, OneChanges
<1>17. cache'[s] = entry
  BY <1>11 DEF CachesSound
<1>18. QED
  BY <1>8, <1>12, <1>16, <1>17

LEMMA PrepareKeeps ==
    ASSUME TimeSound, KeysSound, CachesSound, Prepare
    PROVE  CachesSound'
<1>1. key \in Nat /\ Later(key) # {}
  BY DEF KeysSound, Prepare
<1>2. Nearest(key) \in 0 .. Height
  BY <1>1, NearestIsLater
<1>3. ASSUME NEW s \in Source
      PROVE  /\ cache'[s] \in [from : Nat, stores : StoreList]
             /\ calls'[s] \in Seq(Call)
             /\ Covers(cache'[s].stores, cache'[s].from - 1)
             /\ \A c \in ToSet(calls'[s]) : Covers(cache'[s].stores, GotTo(c))
  <2>1. /\ cache[s] \in [from : Nat, stores : StoreList] /\ calls[s] \in Seq(Call)
        /\ cache[s].from \in Nat
        /\ Covers(cache[s].stores, cache[s].from - 1)
        /\ \A c \in ToSet(calls[s]) : Covers(cache[s].stores, GotTo(c))
    BY <1>3 DEF CachesSound
  <2>2. FromAfter(s) \in Nat
    BY <2>1, ChainAssumption DEF FromAfter
  <2>3. Covers(cache[s].stores, FromAfter(s) - 1)
    BY <2>1, CoversNone DEF FromAfter
  <2>4. cache'[s] = [cache[s] EXCEPT !.from = FromAfter(s)]
    BY <1>3 DEF Prepare
  <2>5. /\ cache'[s] \in [from : Nat, stores : StoreList]
        /\ cache'[s].from = FromAfter(s) /\ cache'[s].stores = cache[s].stores
    BY <2>1, <2>2, <2>4
  <2>6. PICK call : call = [from |-> FromAfter(s), to |-> Nearest(key),
                            stage |-> "updates", current |-> TRUE]
    OBVIOUS
  <2>7. call \in Call /\ GotTo(call) = FromAfter(s) - 1
    BY <1>2, <2>2, <2>6 DEF Call, GotTo
  <2>8. calls'[s] = IF FromAfter(s) > Nearest(key) THEN calls[s] ELSE Append(calls[s], call)
    BY <1>3, <2>6 DEF Prepare
  <2>9. /\ calls'[s] \in Seq(Call)
        /\ \A c \in ToSet(calls'[s]) : c = call \/ c \in ToSet(calls[s])
    <3>1. CASE FromAfter(s) > Nearest(key)
      BY <2>1, <2>8, <3>1
    <3>2. CASE ~ (FromAfter(s) > Nearest(key))
      <4>1. calls'[s] = Append(calls[s], call)
        BY <2>8, <3>2
      <4>2. QED
        BY <2>1, <2>7, <4>1, SetOfAppend, EndOfQueue
    <3>3. QED
      BY <3>1, <3>2
  <2>10. QED
    BY <2>1, <2>3, <2>5, <2>7, <2>9
<1>4. DOMAIN cache' = Source /\ DOMAIN calls' = Source
  BY DEF Prepare
<1>5. cache' \in [Source -> [from : Nat, stores : StoreList]]
  <2>1. cache' = [s \in Source |-> cache'[s]]
    BY DEF Prepare
  <2>2. QED
    BY <1>3, <2>1
<1>6. calls' \in [Source -> Seq(Call)]
  <2>1. calls' = [s \in Source |-> calls'[s]]
    BY DEF Prepare
  <2>2. QED
    BY <1>3, <2>1
<1>7. QED
  BY <1>3, <1>5, <1>6 DEF CachesSound

(* A failed query ends its call, and those of the attempt go on without it.*)
LEMMA FailureLeaves ==
    ASSUME CachesSound, NEW s \in Source, NEW i \in 1 .. Len(calls[s]), QueryFails(s, i)
    PROVE  /\ calls' \in [Source -> Seq(Call)]
           /\ \A r \in Source : \A c \in ToSet(calls'[r]) :
                \E d \in ToSet(calls[r]) : GotTo(c) = GotTo(d)
           /\ ~calls[s][i].current =>
                \A r \in Source : \A d \in ToSet(calls[r]) : d.current => d \in ToSet(calls'[r])
<1>1. PICK cs : cs = RemoveAt(calls[s], i)
  OBVIOUS
<1>2. PICK rest : rest = [calls EXCEPT ![s] = cs]
  OBVIOUS
<1>3. calls \in [Source -> Seq(Call)] /\ calls[s] \in Seq(Call) /\ calls[s][i] \in ToSet(calls[s])
  BY CallTyped DEF CachesSound
<1>4. /\ cs \in Seq(Call) /\ ToSet(cs) \subseteq ToSet(calls[s])
      /\ ToSet(calls[s]) \subseteq ToSet(cs) \cup {calls[s][i]}
  BY <1>1, <1>3, SetOfRemoveAt
<1>5. /\ rest \in [Source -> Seq(Call)]
      /\ \A r \in Source : ToSet(rest[r]) \subseteq ToSet(calls[r])
      /\ \A r \in Source : \A d \in ToSet(calls[r]) : d # calls[s][i] => d \in ToSet(rest[r])
  <2>1. rest \in [Source -> Seq(Call)] /\ rest[s] = cs /\ \A r \in Source : r # s => rest[r] = calls[r]
    BY <1>2, <1>3, <1>4
  <2>2. QED
    BY <1>4, <2>1
<1>6. CASE ~calls[s][i].current
  <2>1. calls' = rest
    BY <1>1, <1>2, <1>6 DEF QueryFails
  <2>2. QED
    BY <1>5, <1>6, <2>1
<1>7. CASE calls[s][i].current
  <2>1. calls' = Abandoned(rest)
    BY <1>1, <1>2, <1>7 DEF QueryFails
  <2>2. ASSUME NEW r \in Source
        PROVE  /\ calls'[r] \in Seq(Call)
               /\ \A c \in ToSet(calls'[r]) : \E d \in ToSet(calls[r]) : GotTo(c) = GotTo(d)
    <3>1. PICK q : q = rest[r]
      OBVIOUS
    <3>2. q \in Seq(Call) /\ ToSet(q) \subseteq ToSet(calls[r])
      BY <1>5, <3>1
    <3>3. calls'[r] = [j \in 1 .. Len(q) |-> [q[j] EXCEPT !.current = FALSE]]
      BY <2>1, <3>1 DEF Abandoned
    <3>4. ASSUME NEW j \in 1 .. Len(q)
          PROVE  /\ q[j] \in ToSet(q) /\ [q[j] EXCEPT !.current = FALSE] \in Call
                 /\ GotTo([q[j] EXCEPT !.current = FALSE]) = GotTo(q[j])
      <4>1. q[j] \in Call /\ q[j] \in ToSet(q)
        BY <3>2 DEF ToSet
      <4>2. PICK d : d = q[j]
        OBVIOUS
      <4>3. d \in Call
        BY <4>1, <4>2
      <4>4. [d EXCEPT !.current = FALSE] \in Call /\ GotTo([d EXCEPT !.current = FALSE]) = GotTo(d)
        BY <4>3 DEF Call, GotTo
      <4>5. QED
        BY <4>1, <4>2, <4>4
    <3>5. Len(q) \in Nat
      BY <3>2
    <3>6. calls'[r] \in Seq(Call)
      <4>1. calls'[r] \in [1 .. Len(q) -> Call]
        BY <3>3, <3>4
      <4>2. QED
        BY <3>5, <4>1
    <3>7. \A c \in ToSet(calls'[r]) : \E j \in 1 .. Len(q) : c = [q[j] EXCEPT !.current = FALSE]
      <4>1. DOMAIN calls'[r] = 1 .. Len(q)
        BY <3>3
      <4>2. \A j \in 1 .. Len(q) : calls'[r][j] = [q[j] EXCEPT !.current = FALSE]
        BY <3>3
      <4>3. QED
        BY <4>1, <4>2 DEF ToSet
    <3>8. QED
      BY <3>2, <3>4, <3>6, <3>7
  <2>3. calls' \in [Source -> Seq(Call)]
    <3>1. calls' = [r \in Source |-> calls'[r]]
      BY <2>1 DEF Abandoned
    <3>2. QED
      BY <2>2, <3>1
  <2>4. QED
    BY <1>7, <2>2, <2>3
<1>8. QED
  BY <1>6, <1>7

LEMMA CachesKept ==
    ASSUME TimeSound, KeysSound, CachesSound, [Next]_vars
    PROVE  CachesSound'
<1>1. CASE UNCHANGED <<cache, calls>>
  BY <1>1 DEF CachesSound
<1>2. CASE Prepare
  BY <1>2, PrepareKeeps
<1>3. ASSUME NEW s \in Source, Getting(s) PROVE CachesSound'
  BY <1>3, UpdatesKeep, FeesKeep DEF Getting
<1>4. ASSUME NEW s \in Source, NEW i \in 1 .. Len(calls[s]), QueryFails(s, i) PROVE CachesSound'
  <2>1. cache' = cache
    BY <1>4 DEF QueryFails
  <2>2. \A r \in Source : \A c \in ToSet(calls'[r]) : \E d \in ToSet(calls[r]) : GotTo(c) = GotTo(d)
    BY <1>4, FailureLeaves
  <2>3. calls' \in [Source -> Seq(Call)]
    BY <1>4, FailureLeaves
  <2>4. \A r \in Source : \A c \in ToSet(calls'[r]) : Covers(cache[r].stores, GotTo(c))
    BY <2>2 DEF CachesSound
  <2>5. QED
    BY <2>1, <2>3, <2>4 DEF CachesSound
<1>5. CASE Hear \/ Prepared \/ Query \/ Deliver \/ QueryCut \/ TimeStep \/ UNCHANGED vars
  BY <1>1, <1>5 DEF Hear, Prepared, Query, Deliver, QueryCut, TimeStep, vars, itemVars
<1>6. QED
  BY <1>2, <1>3, <1>4, <1>5 DEF Next, ItemStep, Asking, Failing

-------------------------------------------------------------------------------
(* What an attempt has read: each of its calls for the first source leads  *)
(* to the stores up to the block of the key, or the attempt ends.          *)
LEMMA ReadStays ==
    ASSUME ReadSound, UNCHANGED <<reported, phase, cache, calls, key>>
    PROVE  ReadSound'
BY DEF ReadSound, Honest, Stores, Reaches

LEMMA PrepareReads ==
    ASSUME TimeSound, KeysSound, CachesSound, Prepare
    PROVE  ReadSound'
<1>1. key \in Nat /\ Later(key) # {} /\ Time[0] < key
  BY FirstBlockTime DEF KeysSound, Prepare
<1>2. /\ Nearest(key) \in 0 .. Height
      /\ Honest => BlockAt(key) \in 1 .. Nearest(key)
  BY <1>1, NearestIsLater
<1>3. First \in Source /\ Height \in Nat
  BY ChainAssumption, EventsAssumption
<1>4. /\ cache[First] \in [from : Nat, stores : StoreList] /\ calls[First] \in Seq(Call)
  BY <1>3 DEF CachesSound
<1>5. CachesSound'
  BY PrepareKeeps
<1>6. /\ UNCHANGED <<key, reported>> /\ phase' = "preparing"
      /\ cache'[First] = [cache[First] EXCEPT !.from = FromAfter(First)]
  BY <1>3 DEF Prepare, timeVars, indexVars
<1>7. FromAfter(First) \in Nat /\ cache'[First].from = FromAfter(First)
  BY <1>4, <1>6, ChainAssumption DEF FromAfter
<1>8. SUFFICES ASSUME Honest
               PROVE  Covers(Stores', BlockAt(key)) \/ \E c \in ToSet(calls'[First]) : Reaches(c)
  BY <1>2, <1>3, <1>6 DEF ReadSound, Honest, Reaches
<1>9. BlockAt(key) \in Nat /\ BlockAt(key) <= Nearest(key) /\ Nearest(key) \in Nat
  BY <1>2, <1>3, <1>8
<1>10. CASE FromAfter(First) > Nearest(key)
  <2>1. BlockAt(key) <= FromAfter(First) - 1
    BY <1>7, <1>9, <1>10
  <2>2. Covers(cache'[First].stores, FromAfter(First) - 1)
    BY <1>3, <1>5, <1>7 DEF CachesSound
  <2>3. QED
    BY <1>7, <1>9, <2>1, <2>2, CoversLess DEF Stores
<1>11. CASE ~ (FromAfter(First) > Nearest(key))
  <2>1. PICK call : call = [from |-> FromAfter(First), to |-> Nearest(key),
                            stage |-> "updates", current |-> TRUE]
    OBVIOUS
  <2>2. calls'[First] = Append(calls[First], call)
    BY <1>3, <1>11, <2>1 DEF Prepare
  <2>3. call \in Call
    BY <1>2, <1>7, <2>1 DEF Call
  <2>4. call \in ToSet(calls'[First])
    BY <1>4, <2>2, <2>3, SetOfAppend
  <2>5. Reaches(call)
    BY <1>9, <2>1 DEF Reaches
  <2>6. QED
    BY <2>4, <2>5
<1>12. QED
  BY <1>10, <1>11

LEMMA UpdatesRead ==
    ASSUME CachesSound, ReadSound, NEW s \in Source, NEW i \in 1 .. Len(calls[s]),
           ApplyUpdates(s, i)
    PROVE  ReadSound' /\ Extends(Stores', Stores)
<1>1. First \in Source
  BY EventsAssumption
<1>2. PICK call : call = calls[s][i]
  OBVIOUS
<1>3. PICK list : list = UpdatedStores(s, call)
  OBVIOUS
<1>4. UNCHANGED <<reported, phase, key>>
  BY DEF ApplyUpdates, timeVars, indexVars
<1>5. /\ cache \in [Source -> [from : Nat, stores : StoreList]]
      /\ calls \in [Source -> Seq(Call)]
      /\ call \in Call /\ call.stage = "updates" /\ call \in ToSet(calls[s])
      /\ cache[s] \in [from : Nat, stores : StoreList]
  BY <1>2, CallTyped DEF CachesSound, ApplyUpdates
<1>6. list \in StoreList /\ Extends(list, cache[s].stores)
  BY <1>2, <1>3, UpdatesCover
<1>7. PICK new : new = [call EXCEPT !.stage = "fees", !.from = cache[s].from]
  OBVIOUS
<1>8. /\ cache' = [cache EXCEPT ![s] = [cache[s] EXCEPT !.stores = list]]
      /\ calls' = [calls EXCEPT ![s] = [calls[s] EXCEPT ![i] = new]]
  BY <1>2, <1>3, <1>7 DEF ApplyUpdates, UpdatedStores
<1>9. new \in Call /\ new.current = call.current /\ new.to = call.to
  BY <1>5, <1>7 DEF Call
<1>10. CASE s = First
  <2>1. Stores' = list /\ Stores = cache[s].stores
    BY <1>5, <1>8, <1>10 DEF Stores
  <2>2. /\ calls'[s] = [calls[s] EXCEPT ![i] = new] /\ calls[s] \in Seq(Call)
    BY <1>5, <1>8
  <2>3. new \in ToSet(calls'[s]) /\ ToSet(calls[s]) \subseteq ToSet(calls'[s]) \cup {call}
    <3>1. PICK q : q = calls[s]
      OBVIOUS
    <3>2. q \in Seq(Call) /\ i \in 1 .. Len(q) /\ new \in Call
      BY <1>9, <2>2, <3>1
    <3>3. /\ new \in ToSet([q EXCEPT ![i] = new])
          /\ ToSet(q) \subseteq ToSet([q EXCEPT ![i] = new]) \cup {q[i]}
      BY ONLY <3>2, SetOfExcept
    <3>4. QED
      BY <1>2, <2>2, <3>1, <3>3
  <2>4. (\E c \in ToSet(calls[First]) : Reaches(c)) => \E c \in ToSet(calls'[First]) : Reaches(c)'
    BY <1>4, <1>9, <1>10, <2>3 DEF Reaches
  <2>5. Stores \in StoreList /\ Extends(Stores', Stores)
    BY <1>5, <1>6, <2>1
  <2>6. \A b : Covers(Stores, b) => Covers(Stores', b)
    BY <1>6, <2>1, <2>5, CoversOn
  <2>7. QED
    BY <1>4, <2>4, <2>5, <2>6 DEF ReadSound, Honest
<1>11. CASE s # First
  <2>1. cache'[First] = cache[First] /\ calls'[First] = calls[First]
    BY <1>1, <1>5, <1>8, <1>11
  <2>2. Stores' = Stores /\ Stores \in StoreList
    BY <1>1, <1>5, <2>1 DEF Stores
  <2>3. QED
    BY <1>4, <2>1, <2>2, ExtendsItself DEF ReadSound, Honest, Reaches
<1>12. QED
  BY <1>10, <1>11

LEMMA FeesRead ==
    ASSUME CachesSound, ReadSound, NEW s \in Source, NEW i \in 1 .. Len(calls[s]),
           ApplyFees(s, i)
    PROVE  ReadSound' /\ Extends(Stores', Stores)
<1>1. First \in Source
  BY EventsAssumption
<1>2. PICK call : call = calls[s][i]
  OBVIOUS
<1>3. UNCHANGED <<reported, phase, key>>
  BY DEF ApplyFees, timeVars, indexVars
<1>4. /\ cache \in [Source -> [from : Nat, stores : StoreList]]
      /\ calls \in [Source -> Seq(Call)] /\ call \in Call
      /\ cache[s] \in [from : Nat, stores : StoreList]
      /\ cache[s].stores \in StoreList
  BY <1>2, CallTyped DEF CachesSound
<1>5. CachesSound' /\ Extends(cache'[s].stores, cache[s].stores)
  BY FeesKeep
<1>6. calls' = [calls EXCEPT ![s] = RemoveAt(calls[s], i)]
  BY DEF ApplyFees
<1>7. /\ cache' = [cache EXCEPT ![s] = [from |-> call.to + 1, stores |-> cache'[s].stores]]
  BY <1>2, <1>4 DEF ApplyFees
<1>8. CASE s = First
  <2>1. Stores' = cache'[s].stores /\ Stores = cache[s].stores
    BY <1>8 DEF Stores
  <2>2. Stores \in StoreList /\ Stores' \in StoreList /\ Extends(Stores', Stores)
    BY <1>1, <1>4, <1>5, <1>8, <2>1 DEF CachesSound
  <2>3. \A b : Covers(Stores, b) => Covers(Stores', b)
    BY <2>2, CoversOn
  <2>4. calls'[s] = RemoveAt(calls[s], i) /\ calls[s] \in Seq(Call)
    BY <1>4, <1>6
  <2>5. ToSet(calls[s]) \subseteq ToSet(calls'[s]) \cup {call}
    BY <1>2, <2>4, SetOfRemoveAt
  <2>6. ASSUME BlockAt(key) \in 1 .. Height, Reaches(call) PROVE Covers(Stores', BlockAt(key))
    <3>1. cache'[s].from = call.to + 1 /\ call.to \in Nat
      <4>1. call.to \in Nat
        BY <1>4, ChainAssumption DEF Call
      <4>2. cache'[s] = [from |-> call.to + 1, stores |-> cache'[s].stores]
        BY <1>4, <1>7
      <4>3. QED
        BY <4>1, <4>2
    <3>2. Covers(Stores', cache'[s].from - 1)
      BY <1>5, <2>1 DEF CachesSound
    <3>3. BlockAt(key) <= cache'[s].from - 1 /\ BlockAt(key) \in Int /\ cache'[s].from - 1 \in Int
      BY <2>6, <3>1, ChainAssumption DEF Reaches
    <3>4. QED
      BY <3>2, <3>3, CoversLess
  <2>7. ASSUME BlockAt(key) \in 1 .. Height, NEW c \in ToSet(calls[First]), Reaches(c)
        PROVE  Covers(Stores', BlockAt(key)) \/ \E d \in ToSet(calls'[First]) : Reaches(d)'
    <3>1. CASE c = call
      BY <2>6, <2>7, <3>1
    <3>2. CASE c # call
      <4>1. c \in ToSet(calls'[First]) /\ Reaches(c)'
        BY <1>3, <1>8, <2>5, <2>7, <3>2 DEF Reaches
      <4>2. QED
        BY <4>1
    <3>3. QED
      BY <3>1, <3>2
  <2>8. QED
    BY <1>3, <2>2, <2>3, <2>7 DEF ReadSound, Honest
<1>9. CASE s # First
  <2>1. cache'[First] = cache[First] /\ calls'[First] = calls[First]
    BY <1>1, <1>4, <1>6, <1>7, <1>9
  <2>2. Stores' = Stores /\ Stores \in StoreList
    BY <1>1, <1>4, <2>1 DEF Stores
  <2>3. QED
    BY <1>3, <2>1, <2>2, ExtendsItself DEF ReadSound, Honest, Reaches
<1>10. QED
  BY <1>8, <1>9

LEMMA ReportsStay == ASSUME [Next]_vars PROVE UNCHANGED reported
BY OnlyIndexWrites DEF Index

LEMMA ReadStarts == Init => ReadSound
BY DEF Init, ReadSound

LEMMA ReadKept ==
    ASSUME TimeSound, KeysSound, CachesSound, ReadSound, [Next]_vars
    PROVE  ReadSound'
<1>1. UNCHANGED reported /\ First \in Source
  BY ReportsStay, EventsAssumption
<1>2. CASE Prepare
  BY <1>2, PrepareReads
<1>3. CASE Prepared
  <2>1. /\ \A i \in 1 .. Len(calls[First]) : ~calls[First][i].current
        /\ phase = "preparing" /\ phase' \in {"waiting", "generating"}
        /\ UNCHANGED <<cache, calls, key>>
    BY <1>1, <1>3 DEF Prepared, Answered
  <2>2. calls[First] \in Seq(Call)
    BY <1>1 DEF CachesSound
  <2>3. \A c \in ToSet(calls[First]) : ~Reaches(c)
    <3>1. DOMAIN calls[First] = 1 .. Len(calls[First])
      BY <2>2
    <3>2. QED
      BY <2>1, <3>1 DEF ToSet, Reaches
  <2>4. QED
    BY <1>1, <2>1, <2>3 DEF ReadSound, Honest, Stores
<1>4. CASE Deliver
  BY <1>4 DEF Deliver, ReadSound
<1>5. ASSUME NEW s \in Source, Getting(s) PROVE ReadSound'
  BY <1>5, UpdatesRead, FeesRead DEF Getting
<1>6. ASSUME NEW s \in Source, NEW i \in 1 .. Len(calls[s]), QueryFails(s, i) PROVE ReadSound'
  <2>1. UNCHANGED <<cache, key>>
    BY <1>6 DEF QueryFails
  <2>2. CASE calls[s][i].current
    <3>1. phase' = "waiting"
      BY <1>6, <2>2 DEF QueryFails
    <3>2. QED
      BY <3>1 DEF ReadSound
  <2>3. CASE ~calls[s][i].current
    <3>1. phase' = phase
      BY <1>6, <2>3 DEF QueryFails
    <3>2. \A d \in ToSet(calls[First]) : d.current => d \in ToSet(calls'[First])
      BY <1>1, <1>6, <2>3, FailureLeaves
    <3>3. (\E c \in ToSet(calls[First]) : Reaches(c)) => \E c \in ToSet(calls'[First]) : Reaches(c)'
      BY <2>1, <3>2 DEF Reaches
    <3>4. QED
      BY <1>1, <2>1, <3>1, <3>3 DEF ReadSound, Honest, Stores
  <2>4. QED
    BY <2>2, <2>3
<1>7. CASE Hear \/ Query \/ QueryCut \/ TimeStep \/ UNCHANGED vars
  <2>1. UNCHANGED <<phase, cache, calls, key>>
    BY <1>7 DEF Hear, Query, QueryCut, TimeStep, vars, itemVars
  <2>2. QED
    BY <1>1, <2>1, ReadStays
<1>8. QED
  BY <1>2, <1>3, <1>4, <1>5, <1>6, <1>7 DEF Next, ItemStep, Asking, Failing

-------------------------------------------------------------------------------
(* The messages of an item.                                                *)
LEMMA StoresExtend ==
    ASSUME CachesSound, ReadSound, [Next]_vars
    PROVE  Stores \in StoreList /\ Extends(Stores', Stores)
<1>1. First \in Source /\ cache[First] \in [from : Nat, stores : StoreList]
  BY EventsAssumption DEF CachesSound
<1>2. Stores \in StoreList
  BY <1>1 DEF Stores
<1>3. CASE UNCHANGED cache
  BY <1>2, <1>3, ExtendsItself DEF Stores
<1>4. CASE Prepare
  <2>1. cache'[First] = [cache[First] EXCEPT !.from = FromAfter(First)]
    BY <1>1, <1>4 DEF Prepare
  <2>2. cache'[First].stores = cache[First].stores
    BY <1>1, <2>1
  <2>3. QED
    BY <1>2, <2>2, ExtendsItself DEF Stores
<1>5. ASSUME NEW s \in Source, Getting(s) PROVE Extends(Stores', Stores)
  BY <1>5, UpdatesRead, FeesRead DEF Getting
<1>6. CASE Hear \/ Prepared \/ Query \/ Deliver \/ QueryCut \/ TimeStep \/ UNCHANGED vars
  BY <1>3, <1>6 DEF Hear, Prepared, Query, Deliver, QueryCut, TimeStep, vars, itemVars
<1>7. ASSUME NEW s \in Source, Failing(s) PROVE UNCHANGED cache
  BY <1>7 DEF Failing, QueryFails
<1>8. QED
  BY <1>2, <1>3, <1>4, <1>5, <1>6, <1>7 DEF Next, ItemStep, Asking

Broken == Contains(faults, "answer")

LEMMA AppendedContains ==
    ASSUME NEW S, NEW q \in Seq(S), NEW x \in S
    PROVE  /\ \A y : Contains(q, y) => Contains(Append(q, x), y)
           /\ Contains(Append(q, x), x)
<1>1. PICK n \in Nat : n = Len(q)
  OBVIOUS
<1>2. PICK p : p = Append(q, x)
  OBVIOUS
<1>3. Len(p) = n + 1 /\ p[n + 1] = x /\ \A i \in 1 .. n : p[i] = q[i]
  BY <1>1, <1>2
<1>4. 1 .. n \subseteq 1 .. n + 1 /\ n + 1 \in 1 .. n + 1
  OBVIOUS
<1>5. QED
  BY <1>1, <1>2, <1>3, <1>4 DEF Contains

LEMMA BreaksStay == ASSUME TimeSound, [Next]_vars, Broken PROVE Broken'
<1>1. faults \in Seq(Fault) /\ {"exit", "query", "answer"} \subseteq Fault
  BY DEF TimeSound, Fault
<1>2. CASE UNCHANGED faults
  BY <1>2 DEF Broken
<1>3. ASSUME NEW f \in Fault, faults' = Append(faults, f) PROVE Broken'
  BY <1>1, <1>3, AppendedContains DEF Broken
<1>4. CASE Indexing
  BY <1>2, <1>4 DEF Indexing, Spawn, Output, Index, Refuse
<1>5. ASSUME NEW s \in Source, Exit(s) PROVE Broken'
  BY <1>1, <1>3, <1>5 DEF Exit
<1>6. CASE QueryCut
  <2>1. faults' = Append(faults, "answer")
    BY <1>6 DEF QueryCut
  <2>2. QED
    BY <1>1, <1>3, <2>1
<1>7. ASSUME NEW s \in Source, Failing(s) PROVE Broken'
  <2>1. faults' = Append(faults, "query")
    BY <1>7 DEF Failing, QueryFails
  <2>2. QED
    BY <1>1, <1>3, <2>1
<1>8. CASE Asking \/ UNCHANGED vars
  BY <1>2, <1>8 DEF Asking, Hear, Prepare, Prepared, Query, Deliver, timeVars, vars
<1>9. ASSUME NEW s \in Source, Getting(s) PROVE UNCHANGED faults
  BY <1>9 DEF Getting, ApplyUpdates, ApplyFees, timeVars
<1>10. QED
  BY <1>2, <1>4, <1>5, <1>6, <1>7, <1>8, <1>9 DEF Next, TimeStep, TimeNext, ItemStep

LEMMA BagOfMore ==
    ASSUME NEW B, IsABag(B), NEW T
    PROVE  /\ IsABag(B (+) SetToBag(T))
           /\ BagToSet(B (+) SetToBag(T)) = BagToSet(B) \cup T
           /\ \A e \in BagToSet(B) : e \notin T => (B (+) SetToBag(T))[e] = B[e]
           /\ \A e \in T : e \notin BagToSet(B) => (B (+) SetToBag(T))[e] = 1
<1>1. PICK C : C = SetToBag(T)
  OBVIOUS
<1>2. DOMAIN C = T /\ \A e \in T : C[e] = 1
  BY <1>1 DEF SetToBag
<1>3. PICK D : D = B (+) C
  OBVIOUS
<1>4. /\ DOMAIN D = DOMAIN B \cup T
      /\ \A e \in DOMAIN D : D[e] = (IF e \in DOMAIN B THEN B[e] ELSE 0)
                                    + (IF e \in T THEN 1 ELSE 0)
      /\ D = [e \in DOMAIN D |-> D[e]]
  BY <1>2, <1>3 DEF (+)
<1>5. \A e \in DOMAIN B : B[e] \in Nat /\ B[e] > 0
  BY DEF IsABag
<1>6. \A e \in DOMAIN D : D[e] \in Nat /\ D[e] > 0
  BY <1>4, <1>5
<1>7. IsABag(D)
  BY <1>4, <1>6 DEF IsABag
<1>8. QED
  BY <1>1, <1>3, <1>4, <1>5, <1>7 DEF BagToSet

LEMMA ListLength == ASSUME CachesSound' PROVE Len(Stores') \in Nat
<1>1. First \in Source /\ cache'[First] \in [from : Nat, stores : StoreList]
  BY EventsAssumption DEF CachesSound
<1>2. Stores' \in StoreList
  BY <1>1 DEF Stores
<1>3. QED
  BY <1>2 DEF StoreList

LEMMA AnswersStay ==
    ASSUME TimeSound, CachesSound, CachesSound', ReadSound, AnswersSound, [Next]_vars,
           UNCHANGED <<at, messages>>,
           phase' = "generating" => phase = "generating" /\ key' = key
    PROVE  AnswersSound'
<1>1. Broken => Broken'
  BY BreaksStay
<1>2. Stores \in StoreList /\ Extends(Stores', Stores)
  BY StoresExtend
<1>3. CASE phase' # "generating"
  BY <1>3 DEF AnswersSound
<1>4. CASE phase' = "generating"
  <2>1. phase = "generating" /\ key' = key
    BY <1>4
  <2>2. \A x : InWindow(x)' = InWindow(x)
    BY <2>1 DEF InWindow
  <2>3. /\ at \in Nat \ {0} /\ at <= Len(Stores) + 1 /\ Len(Stores) \in Nat
        /\ Len(Stores) <= Len(Stores')
        /\ \A i \in 1 .. Len(Stores) : Stores'[i].id = Stores[i].id
    BY <1>2, <2>1 DEF AnswersSound, StoreList, Extends
  <2>4. \A i \in 1 .. at - 1 : i \in 1 .. Len(Stores) /\ Stores'[i].id = Stores[i].id
    BY <2>3
  <2>5. at <= Len(Stores') + 1
    BY <2>3, ListLength
  <2>6. QED
    BY <1>1, <2>1, <2>2, <2>3, <2>4, <2>5 DEF AnswersSound, Broken
<1>5. QED
  BY <1>3, <1>4

LEMMA AnswersStart == Init => AnswersSound
<1>1. IsABag(EmptyBag)
  BY DEF IsABag, EmptyBag, SetToBag
<1>2. QED
  BY <1>1 DEF Init, AnswersSound

(* An answer that comes whole adds the messages of one more store; no other*)
(* store of the list has them.                                             *)
LEMMA QueryAnswers ==
    ASSUME CachesSound, AnswersSound, Query
    PROVE  AnswersSound'
<1>1. PICK id : id = Stores[at].id
  OBVIOUS
<1>2. PICK T : T = InWindow(id)
  OBVIOUS
<1>3. /\ phase = "generating" /\ at <= Len(Stores)
      /\ messages' = messages (+) SetToBag(T) /\ at' = at + 1
      /\ UNCHANGED <<faults, phase, cache, key>>
  BY <1>1, <1>2 DEF Query, timeVars
<1>4. /\ at \in Nat \ {0} /\ IsABag(messages)
      /\ \A i \in 1 .. at - 1 : InWindow(Stores[i].id) \subseteq BagToSet(messages)
      /\ \A msg \in BagToSet(messages) :
           /\ msg \in InWindow(msg[1])
           /\ ~Broken => /\ messages[msg] = 1
                         /\ \E i \in 1 .. at - 1 : msg[1] = Stores[i].id
  BY <1>3 DEF AnswersSound, Broken
<1>5. Stores \in StoreList
  BY EventsAssumption DEF CachesSound, Stores
<1>6. /\ IsABag(messages') /\ BagToSet(messages') = BagToSet(messages) \cup T
      /\ \A e \in BagToSet(messages) : e \notin T => messages'[e] = messages[e]
      /\ \A e \in T : e \notin BagToSet(messages) => messages'[e] = 1
  BY <1>3, <1>4, BagOfMore
<1>7. Stores' = Stores /\ (Broken' <=> Broken) /\ \A x : InWindow(x)' = InWindow(x)
  BY <1>3 DEF Stores, Broken, InWindow
<1>8. /\ at' \in Nat \ {0} /\ at' <= Len(Stores) + 1 /\ at \in 1 .. Len(Stores) /\ at' - 1 = at
      /\ \A i \in 1 .. at' - 1 : i = at \/ i \in 1 .. at - 1
      /\ at \in 1 .. at' - 1 /\ 1 .. at - 1 \subseteq 1 .. at' - 1
  <2>1. Len(Stores) \in Nat
    BY <1>5 DEF StoreList
  <2>2. QED
    BY <1>3, <1>4, <2>1
<1>9. \A msg \in T : msg[1] = id /\ msg \in InWindow(msg[1])
  BY <1>2 DEF InWindow
<1>10. ~Broken => T \cap BagToSet(messages) = {}
  <2>1. SUFFICES ASSUME ~Broken, NEW msg \in T, msg \in BagToSet(messages) PROVE FALSE
    OBVIOUS
  <2>2. PICK i \in 1 .. at - 1 : msg[1] = Stores[i].id
    BY <1>4, <2>1
  <2>3. i \in 1 .. Len(Stores) /\ i # at
    BY <1>4, <1>8
  <2>4. Stores[i].id = Stores[at].id
    BY <1>1, <1>9, <2>1, <2>2
  <2>5. QED
    BY <1>5, <1>8, <2>3, <2>4 DEF StoreList
<1>11. \A i \in 1 .. at' - 1 : InWindow(Stores[i].id) \subseteq BagToSet(messages')
  BY <1>1, <1>2, <1>4, <1>6, <1>8
<1>12. ASSUME NEW msg \in BagToSet(messages')
       PROVE  /\ msg \in InWindow(msg[1])
              /\ ~Broken => /\ messages'[msg] = 1
                            /\ \E i \in 1 .. at' - 1 : msg[1] = Stores[i].id
  <2>1. CASE msg \in T
    <3>1. msg \in InWindow(msg[1]) /\ msg[1] = Stores[at].id
      BY <1>1, <1>9, <2>1
    <3>2. ~Broken => messages'[msg] = 1
      BY <1>6, <1>10, <2>1
    <3>3. QED
      BY <1>8, <3>1, <3>2
  <2>2. CASE msg \notin T
    <3>1. msg \in BagToSet(messages) /\ messages'[msg] = messages[msg]
      BY <1>6, <1>12, <2>2
    <3>2. QED
      BY <1>4, <1>8, <3>1
  <2>3. QED
    BY <2>1, <2>2
<1>13. QED
  BY <1>3, <1>6, <1>7, <1>8, <1>11, <1>12 DEF AnswersSound, Broken

LEMMA CutAnswers ==
    ASSUME TimeSound, AnswersSound, QueryCut
    PROVE  AnswersSound'
<1>1. PICK id : id = Stores[at].id
  OBVIOUS
<1>2. /\ phase = "generating" /\ UNCHANGED <<phase, cache, key, at>>
  BY DEF QueryCut
<1>3. PICK got \in SUBSET InWindow(id) :
        messages' = messages (+) SetToBag(got) /\ faults' = Append(faults, "answer")
  BY <1>1 DEF QueryCut
<1>4. /\ at \in Nat \ {0} /\ IsABag(messages) /\ at <= Len(Stores) + 1
      /\ \A i \in 1 .. at - 1 : InWindow(Stores[i].id) \subseteq BagToSet(messages)
      /\ \A msg \in BagToSet(messages) : msg \in InWindow(msg[1])
  BY <1>2 DEF AnswersSound
<1>5. /\ IsABag(messages') /\ BagToSet(messages') = BagToSet(messages) \cup got
  BY <1>3, <1>4, BagOfMore
<1>6. Stores' = Stores /\ \A x : InWindow(x)' = InWindow(x)
  BY <1>2 DEF Stores, InWindow
<1>7. \A msg \in got : msg \in InWindow(msg[1])
  BY <1>3 DEF InWindow
<1>8. Broken'
  <2>1. faults \in Seq(Fault) /\ "answer" \in Fault
    BY DEF TimeSound, Fault
  <2>2. QED
    BY <1>3, <2>1, AppendedContains DEF Broken
<1>9. QED
  BY <1>2, <1>4, <1>5, <1>6, <1>7, <1>8 DEF AnswersSound, Broken

LEMMA AnswersKept ==
    ASSUME TimeSound, CachesSound, CachesSound', ReadSound, AnswersSound, [Next]_vars
    PROVE  AnswersSound'
<1>1. CASE Query
  BY <1>1, QueryAnswers
<1>2. CASE QueryCut
  BY <1>2, CutAnswers
<1>3. CASE Prepared
  <2>1. at' = 1 /\ messages' = EmptyBag
    BY <1>3 DEF Prepared
  <2>2. IsABag(messages') /\ BagToSet(messages') = {}
    BY <2>1 DEF IsABag, EmptyBag, SetToBag, BagToSet
  <2>3. 1 <= Len(Stores') + 1 /\ 1 .. 1 - 1 = {}
    BY ListLength
  <2>4. QED
    BY <2>1, <2>2, <2>3 DEF AnswersSound
<1>4. CASE Hear \/ Prepare \/ Deliver \/ TimeStep \/ UNCHANGED vars
  <2>1. UNCHANGED <<at, messages>> /\ (phase' = "generating" => phase = "generating" /\ key' = key)
    BY <1>4 DEF Hear, Prepare, Deliver, TimeStep, vars, itemVars
  <2>2. QED
    BY <2>1, AnswersStay
<1>5. ASSUME NEW s \in Source, Getting(s) \/ Failing(s) PROVE AnswersSound'
  <2>1. UNCHANGED <<at, messages>> /\ (phase' = "generating" => phase = "generating" /\ key' = key)
    BY <1>5 DEF Getting, ApplyUpdates, ApplyFees, Failing, QueryFails
  <2>2. QED
    BY <2>1, AnswersStay
<1>6. QED
  BY <1>1, <1>2, <1>3, <1>4, <1>5 DEF Next, ItemStep, Asking

-------------------------------------------------------------------------------
(* The item: all that was asked for, and what was asked for is the window. *)
LEMMA DeliverWhole ==
    ASSUME KeysSound, CachesSound, ReadSound, AnswersSound, Honest, Deliver
    PROVE  ItemWhole'
<1>1. /\ phase = "generating" /\ at > Len(Stores)
      /\ item' = [since |-> prevKey, key |-> key, m |-> messages]
      /\ UNCHANGED faults
  BY DEF Deliver, timeVars
<1>2. item'.since = prevKey /\ item'.key = key /\ item'.m = messages
  BY <1>1
<1>3. prevKey \in Nat /\ key \in Nat /\ (prevKey # 0 => key = NextKey(prevKey))
  BY DEF KeysSound
<1>4. /\ at \in Nat \ {0} /\ at <= Len(Stores) + 1
      /\ \A i \in 1 .. at - 1 : InWindow(Stores[i].id) \subseteq BagToSet(messages)
      /\ \A msg \in BagToSet(messages) : /\ msg \in InWindow(msg[1])
                                         /\ ~Broken => messages[msg] = 1
  BY <1>1 DEF AnswersSound, Broken
<1>5. Len(Stores) \in Nat
  <2>1. Stores \in StoreList
    BY EventsAssumption DEF CachesSound, Stores
  <2>2. QED
    BY <2>1 DEF StoreList
<1>6. at - 1 = Len(Stores)
  BY <1>1, <1>4, <1>5
<1>7. Covers(Stores, BlockAt(key))
  BY <1>1 DEF ReadSound
<1>8. prevKey # 0 => WindowStart(key) = prevKey * 1000
  BY <1>3, WindowsMeet DEF WindowEnd
<1>9. ASSUME NEW msg \in Published, msg[1] \in StoresAt(BlockAt(key)),
             prevKey * 1000 <= msg[2], msg[2] <= key * 1000, prevKey # 0
      PROVE  msg \in BagToSet(messages)
  <2>1. msg[1] \in Ids(Stores)
    BY <1>7, <1>9 DEF Covers
  <2>2. PICK i \in 1 .. Len(Stores) : Stores[i].id = msg[1]
    BY <2>1 DEF Ids
  <2>3. msg \in InWindow(Stores[i].id)
    BY <1>8, <1>9, <2>2 DEF InWindow, WindowEnd
  <2>4. QED
    BY <1>4, <1>6, <2>2, <2>3
<1>10. ASSUME NEW msg \in BagToSet(messages)
       PROVE  /\ prevKey * 1000 <= msg[2] /\ msg[2] <= key * 1000
              /\ ~Broken => messages[msg] = 1
  <2>1. msg \in Published /\ WindowStart(key) <= msg[2] /\ msg[2] <= WindowEnd(key)
    BY <1>4, <1>10 DEF InWindow
  <2>2. msg[2] \in Nat
    BY <2>1, EventsAssumption
  <2>3. prevKey * 1000 <= msg[2]
    <3>1. CASE prevKey = 0
      BY <2>2, <3>1
    <3>2. CASE prevKey # 0
      BY <1>8, <2>1, <3>2
    <3>3. QED
      BY <3>1, <3>2
  <2>4. msg[2] <= key * 1000
    BY <2>1 DEF WindowEnd
  <2>5. QED
    BY <1>4, <1>10, <2>3, <2>4
<1>11. Broken' <=> Broken
  BY <1>1 DEF Broken
<1>12. QED
  BY <1>2, <1>9, <1>10, <1>11 DEF ItemWhole, Broken

LEMMA ItemStarts == Init => ItemSound
<1>1. IsABag(NoItem.m)
  BY DEF IsABag, NoItem, EmptyBag, SetToBag
<1>2. QED
  BY <1>1 DEF Init, ItemSound

LEMMA ItemKept ==
    ASSUME TimeSound, KeysSound, CachesSound, ReadSound, AnswersSound, ItemSound, [Next]_vars
    PROVE  ItemSound'
<1>1. UNCHANGED reported
  BY ReportsStay
<1>2. CASE Deliver
  <2>1. IsABag(item'.m)
    BY <1>2 DEF Deliver, AnswersSound
  <2>2. Honest' => ItemWhole'
    BY <1>1, <1>2, DeliverWhole DEF Honest
  <2>3. QED
    BY <2>1, <2>2 DEF ItemSound
<1>3. CASE UNCHANGED item
  <2>1. Broken => Broken'
    BY BreaksStay
  <2>2. ItemWhole => ItemWhole'
    BY <1>3, <2>1 DEF ItemWhole, Broken
  <2>3. QED
    BY <1>1, <1>3, <2>2 DEF ItemSound, Honest
<1>4. CASE Hear \/ Prepare \/ Prepared \/ Query \/ QueryCut \/ TimeStep \/ UNCHANGED vars
  BY <1>3, <1>4 DEF Hear, Prepare, Prepared, Query, QueryCut, TimeStep, vars, itemVars
<1>5. ASSUME NEW s \in Source, Getting(s) \/ Failing(s) PROVE UNCHANGED item
  BY <1>5 DEF Getting, ApplyUpdates, ApplyFees, Failing, QueryFails
<1>6. QED
  BY <1>2, <1>3, <1>4, <1>5 DEF Next, ItemStep, Asking

(* An item holds every message published since the item before it on the   *)
(* streams that had a store at the block of its key, none from before, and *)
(* each of them once unless an answer broke off, for any chain, any number *)
(* of sources, stores, events and messages, any keys and failures, and any *)
(* order of what happens, as long as the sources tell the truth.           *)
THEOREM ItemsAlwaysComplete == Spec => []ItemsComplete
<1>1. Init => ItemsInv
  BY TimeStarts, KeysStart, CachesStart, ReadStarts, AnswersStart, ItemStarts DEF ItemsInv
<1>2. ItemsInv /\ [Next]_vars => ItemsInv'
  BY TimeKept, KeysKept, CachesKept, ReadKept, AnswersKept, ItemKept DEF ItemsInv
<1>3. ItemsInv => ItemsComplete
  <2> SUFFICES ASSUME ItemsInv PROVE ItemsComplete
    OBVIOUS
  <2>1. \A s \in Source : cache[s].from \in Nat
    BY DEF ItemsInv, CachesSound
  <2>2. TypeOK
    BY <2>1 DEF ItemsInv, TypeOK, TimeSound, KeysSound, ReadSound, AnswersSound, ItemSound
  <2>3. QED
    BY <2>2 DEF ItemsInv, ItemSound, ItemWhole, ItemsComplete
<1>4. QED
  BY <1>1, <1>2, <1>3, PTL DEF Spec
================================================================================
