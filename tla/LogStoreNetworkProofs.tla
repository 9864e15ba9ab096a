------------------------- MODULE LogStoreNetworkProofs -------------------------
(***************************************************************************)
(* What holds of the contracts, for any accounts, metadata, amounts,       *)
(* streams and reports.                                                    *)
(*                                                                         *)
(* First of the node registry by itself: its pointers describe one list,   *)
(* the walk along them returns it, and it implements the abstract list.    *)
(* Then of the node manager: its list stays that of the registry, the      *)
(* tokens it counts are the tokens it holds and stay with who brought      *)
(* them, its array of streams and their stored indices mirror each other,  *)
(* and the right to publish goes with the stake.  Last of all contracts    *)
(* together: tokens are conserved and the books agree through any reports. *)
(***************************************************************************)
EXTENDS LogStoreNetwork, Induction, SequenceTheorems

Stored == INSTANCE StoreManagerProofs WITH User <- Address, Stream <- DataStream,
                                           captured <- held, MaxCapture <- 0

-------------------------------------------------------------------------------
(* Types alone are not inductive: totalNodes - 1 is a natural number only  *)
(* because a registered node occupies a place of the list.  The inductive  *)
(* invariant is ListTypes /\ WellFormed; each action keeps it by a         *)
(* lemma that names the list the pointers describe after the step.         *)

Lists(s) == s \in [1 .. totalNodes -> Address] /\ Threads(s, totalNodes)

(* What a step does to the list: it gains a node at its end, or it loses   *)
(* the node in one place.                                                  *)
Appended(s, t) == \E n \in Address \ Registered :
    t = [i \in 1 .. totalNodes + 1 |-> IF i = totalNodes + 1 THEN n ELSE s[i]]
Closed(s, t) == \E k \in 1 .. totalNodes :
    t = [i \in 1 .. totalNodes - 1 |-> IF i < k THEN s[i] ELSE s[i + 1]]

(* A node is in the list as soon as it is registered, so that the list is  *)
(* not empty, and it has a place there.                                    *)
LEMMA PlaceOfNode ==
    ASSUME ListTypes, NEW s \in [1 .. totalNodes -> Address],
           Threads(s, totalNodes),
           NEW n \in Address, IsNode(n)
    PROVE  totalNodes > 0 /\ \E k \in 1 .. totalNodes : s[k] = n
<1>1. n \in {s[i] : i \in 1 .. totalNodes}
  BY DEF Threads, Registered
<1>2. QED
  BY <1>1 DEF ListTypes

(* Registering into an empty list leaves the list of that one node.        *)
LEMMA FirstKeepsList ==
    ASSUME ListTypes, WellFormed, NEW n \in Address, RegisterFirst(n)
    PROVE  ListTypes' /\ \E s, t : Lists(s) /\ Lists(t)' /\ Appended(s, t)
<1> USE NobodyAssumption
<1>1. ListTypes'
  BY DEF ListTypes, RegisterFirst, Seen
<1>2. PICK s \in [1 .. totalNodes -> Address] : Threads(s, totalNodes)
  BY DEF WellFormed
<1>3. totalNodes = 0
  BY <1>2 DEF Threads, RegisterFirst, ListTypes
<1>4. Registered = {} /\ Registered' = {n}
  BY <1>2, <1>3 DEF Threads, RegisterFirst, Seen,
                    Registered, IsNode, ListTypes
<1>5. PICK t : t = [i \in 1 .. 1 |-> n]
  OBVIOUS
<1>6. Threads(t, 1)'
  BY <1>2, <1>3, <1>4, <1>5 DEF Threads, RegisterFirst, ListTypes
<1>7. totalNodes' = 1 /\ t \in [1 .. 1 -> Address]
  BY <1>3, <1>5 DEF RegisterFirst
<1>8. Lists(s) /\ Lists(t)'
  BY <1>2, <1>6, <1>7 DEF Lists
<1>9. Appended(s, t)
  BY <1>3, <1>4, <1>5 DEF Appended
<1>10. QED
  BY <1>1, <1>8, <1>9

(* Registering another node appends it.                                    *)
LEMMA NextKeepsList ==
    ASSUME ListTypes, WellFormed, NEW n \in Address, RegisterNext(n)
    PROVE  ListTypes' /\ \E s, t : Lists(s) /\ Lists(t)' /\ Appended(s, t)
<1> USE NobodyAssumption
<1>1. PICK s \in [1 .. totalNodes -> Address] : Threads(s, totalNodes)
  BY DEF WellFormed
<1>2. PICK len : len = totalNodes
  OBVIOUS
<1>3. PICK t : t = [i \in 1 .. len + 1 |-> IF i = len + 1 THEN n ELSE s[i]]
  OBVIOUS
<1>4. len \in Nat /\ len > 0 /\ tailNode = s[len] /\ tailNode \in Address
  BY <1>1, <1>2 DEF Threads, RegisterNext, ListTypes
<1>5. totalNodes' = len + 1
  BY <1>2 DEF RegisterNext
<1>6. n # tailNode /\ \A i \in 1 .. len : s[i] # n
  BY <1>1, <1>2, <1>4 DEF Threads, RegisterNext, Registered
<1>7. /\ next' \in [Address -> Address \cup {Nobody}]
      /\ \A a \in Address : next'[a] = IF a = tailNode THEN n ELSE next[a]
  BY <1>4 DEF RegisterNext, ListTypes
<1>8. /\ prev' \in [Address -> Address \cup {Nobody}]
      /\ \A a \in Address : prev'[a] = IF a = n THEN tailNode ELSE prev[a]
  BY <1>4 DEF RegisterNext, ListTypes
<1>9. ListTypes'
  <2>1. lastSeen' \in [Address -> Nat] /\ index' \in [Address -> Nat]
    BY DEF RegisterNext, Seen, ListTypes
  <2>2. QED
    BY <1>7, <1>8, <2>1 DEF RegisterNext, ListTypes
<1>10. Registered' = Registered \cup {n}
  BY DEF RegisterNext, Seen, Registered, IsNode,
         ListTypes
<1>11. /\ t \in [1 .. totalNodes' -> Address]
       /\ \A i \in 1 .. len : s[i] \in Address /\ t[i] = s[i]
       /\ t[len + 1] = n
  BY <1>2, <1>3, <1>4, <1>5
<1>12. Threads(t, totalNodes)'
  <2>1. Registered' = {t[i] : i \in 1 .. len + 1}
    <3>1. Registered = {s[i] : i \in 1 .. len}
      BY <1>1, <1>2 DEF Threads
    <3>2. ASSUME NEW a \in Registered PROVE \E i \in 1 .. len + 1 : a = t[i]
      <4>1. PICK i \in 1 .. len : a = s[i]
        BY <3>1
      <4>2. i \in 1 .. len + 1 /\ t[i] = a
        BY <4>1, <1>4, <1>11
      <4>3. QED
        BY <4>2
    <3>3. ASSUME NEW i \in 1 .. len + 1 PROVE t[i] \in Registered \cup {n}
      BY <3>1, <1>4, <1>11
    <3>4. n = t[len + 1] /\ len + 1 \in 1 .. len + 1
      BY <1>4, <1>11
    <3>5. QED
      BY <3>2, <3>3, <3>4, <1>10
  <2>2. \A i, j \in 1 .. len + 1 : t[i] = t[j] => i = j
    BY <1>1, <1>2, <1>4, <1>6, <1>11 DEF Threads
  <2>3. headNode' = t[1] /\ tailNode' = t[len + 1]
    BY <1>1, <1>2, <1>4, <1>11 DEF Threads, RegisterNext
  <2>4. ASSUME NEW i \in 1 .. len + 1
        PROVE  /\ next'[t[i]] = IF i = len + 1 THEN Nobody ELSE t[i + 1]
               /\ prev'[t[i]] = IF i = 1 THEN Nobody ELSE t[i - 1]
    <3>1. CASE i = len + 1
      <4>1. next[n] = Nobody
        BY <1>1 DEF Threads, RegisterNext, Registered
      <4>2. next'[n] = Nobody /\ prev'[n] = s[len]
        BY <4>1, <1>4, <1>6, <1>7, <1>8
      <4>3. QED
        BY <3>1, <4>2, <1>4, <1>11
    <3>2. CASE i \in 1 .. len
      <4>1. /\ next[s[i]] = IF i = len THEN Nobody ELSE s[i + 1]
            /\ prev[s[i]] = IF i = 1 THEN Nobody ELSE s[i - 1]
        BY <3>2, <1>1, <1>2 DEF Threads
      <4>2. prev'[s[i]] = prev[s[i]]
        BY <3>2, <1>6, <1>8, <1>11
      <4>3. next'[s[i]] = IF i = len THEN n ELSE next[s[i]]
        BY <3>2, <1>1, <1>2, <1>4, <1>7, <1>11 DEF Threads
      <4>4. QED
        BY <3>2, <4>1, <4>2, <4>3, <1>4, <1>11
    <3>3. QED
      BY <3>1, <3>2, <1>4
  <2>5. ASSUME NEW a \in Address \ Registered'
        PROVE  next'[a] = Nobody /\ prev'[a] = Nobody
    <3>1. a # n /\ a \notin Registered /\ next[a] = Nobody /\ prev[a] = Nobody
      BY <1>1, <1>10 DEF Threads
    <3>2. tailNode \in Registered
      BY <1>1, <1>2, <1>4 DEF Threads
    <3>3. QED
      BY <3>1, <3>2, <1>7, <1>8
  <2>6. QED
    BY <2>1, <2>2, <2>3, <2>4, <2>5, <1>4, <1>5 DEF Threads
<1>13. Lists(s) /\ Lists(t)'
  BY <1>1, <1>11, <1>12 DEF Lists
<1>14. n \notin Registered
  BY DEF RegisterNext, Registered
<1>15. Appended(s, t)
  BY <1>2, <1>3, <1>14 DEF Appended
<1>16. QED
  BY <1>9, <1>13, <1>15

(* Removing the node in place k closes the gap.                            *)
LEMMA RemoveKeepsList ==
    ASSUME ListTypes, WellFormed, NEW n \in Address, Remove(n)
    PROVE  ListTypes' /\ \E s, t : Lists(s) /\ Lists(t)' /\ Closed(s, t)
<1> USE NobodyAssumption
<1>1. PICK s \in [1 .. totalNodes -> Address] : Threads(s, totalNodes)
  BY DEF WellFormed
<1>2. totalNodes > 0 /\ \E k \in 1 .. totalNodes : s[k] = n
  BY <1>1, PlaceOfNode DEF Remove, Removable
<1>3. PICK k \in 1 .. totalNodes : s[k] = n
  BY <1>2
<1>4. PICK len : len = totalNodes - 1
  OBVIOUS
<1>5. PICK t : t = [i \in 1 .. len |-> IF i < k THEN s[i] ELSE s[i + 1]]
  OBVIOUS
<1>6. len \in Nat /\ totalNodes' = len /\ totalNodes = len + 1 /\ k \in 1 .. len + 1
  BY <1>2, <1>4 DEF Remove, ListTypes
<1>7. ListTypes'
  BY <1>6 DEF ListTypes, Remove, NextWithout,
              PrevWithout, HeadWithout, TailWithout,
              StartBlockAfter
<1>8. /\ t \in [1 .. totalNodes' -> Address]
      /\ \A i \in 1 .. len : t[i] = IF i < k THEN s[i] ELSE s[i + 1]
      /\ \A i \in 1 .. len + 1 : s[i] \in Address
  BY <1>5, <1>6
<1>9. /\ \A i, j \in 1 .. len + 1 : s[i] = s[j] => i = j
      /\ \A i \in 1 .. len + 1 :
            /\ next[s[i]] = IF i = len + 1 THEN Nobody ELSE s[i + 1]
            /\ prev[s[i]] = IF i = 1 THEN Nobody ELSE s[i - 1]
      /\ headNode = s[1]
      /\ tailNode = s[len + 1]
      /\ Registered = {s[i] : i \in 1 .. len + 1}
  BY <1>1, <1>6 DEF Threads
<1>10. Registered' = Registered \ {n}
  BY DEF Remove, Registered, IsNode, ListTypes
<1>11. /\ next[n] = IF k = len + 1 THEN Nobody ELSE s[k + 1]
       /\ prev[n] = IF k = 1 THEN Nobody ELSE s[k - 1]
  BY <1>3, <1>6, <1>9
<1>12. ASSUME NEW a \in Address
       PROVE  /\ next'[a] = IF a = n THEN Nobody
                            ELSE IF a = prev[n] THEN next[n] ELSE next[a]
              /\ prev'[a] = IF a = n THEN Nobody
                            ELSE IF a = next[n] THEN prev[n] ELSE prev[a]
  BY DEF Remove, NextWithout, PrevWithout
<1>13. ASSUME NEW j \in 1 .. len + 1, j # k
       PROVE  /\ next'[s[j]] = IF j + 1 = k THEN (IF k = len + 1 THEN Nobody ELSE s[k + 1])
                               ELSE IF j = len + 1 THEN Nobody ELSE s[j + 1]
              /\ prev'[s[j]] = IF j = k + 1 THEN (IF k = 1 THEN Nobody ELSE s[k - 1])
                               ELSE IF j = 1 THEN Nobody ELSE s[j - 1]
  <2>1. s[j] \in Address /\ s[j] # n
    BY <1>3, <1>6, <1>8, <1>9, <1>13
  <2>2. s[j] = prev[n] <=> j + 1 = k
    BY <1>6, <1>8, <1>9, <1>11, <1>13
  <2>3. s[j] = next[n] <=> j = k + 1
    BY <1>6, <1>8, <1>9, <1>11, <1>13
  <2>4. /\ next'[s[j]] = IF j + 1 = k THEN next[n] ELSE next[s[j]]
        /\ prev'[s[j]] = IF j = k + 1 THEN prev[n] ELSE prev[s[j]]
    BY <2>1, <2>2, <2>3, <1>12
  <2>5. QED
    BY <2>4, <1>9, <1>11
<1>14. Threads(t, totalNodes)'
  <2>1. Registered' = {t[i] : i \in 1 .. len}
    <3>1. ASSUME NEW a \in Registered' PROVE \E i \in 1 .. len : a = t[i]
      <4>1. PICK j \in 1 .. len + 1 : a = s[j] /\ j # k
        BY <1>3, <1>9, <1>10
      <4>2. CASE j < k
        <5>1. j \in 1 .. len /\ t[j] = s[j]
          BY <4>2, <1>6, <1>8
        <5>2. QED
          BY <5>1, <4>1
      <4>3. CASE j > k
        <5>1. j - 1 \in 1 .. len /\ t[j - 1] = s[j]
          BY <4>3, <1>6, <1>8
        <5>2. QED
          BY <5>1, <4>1
      <4>4. QED
        BY <4>1, <4>2, <4>3, <1>6
    <3>2. ASSUME NEW i \in 1 .. len PROVE t[i] \in Registered'
      <4>1. PICK j \in 1 .. len + 1 : t[i] = s[j] /\ j # k
        <5>1. CASE i < k
          BY <5>1, <1>6, <1>8
        <5>2. CASE ~(i < k)
          BY <5>2, <1>6, <1>8
        <5>3. QED
          BY <5>1, <5>2
      <4>2. s[j] # n
        BY <4>1, <1>3, <1>6, <1>9
      <4>3. QED
        BY <4>1, <4>2, <1>9, <1>10
    <3>3. QED
      BY <3>1, <3>2
  <2>2. ASSUME NEW i \in 1 .. len, NEW j \in 1 .. len, t[i] = t[j] PROVE i = j
    BY <2>2, <1>6, <1>8, <1>9
  <2>3. headNode' = IF len = 0 THEN Nobody ELSE t[1]
    BY <1>3, <1>6, <1>8, <1>9, <1>11 DEF Remove, HeadWithout
  <2>4. tailNode' = IF len = 0 THEN Nobody ELSE t[len]
    BY <1>3, <1>6, <1>8, <1>9, <1>11 DEF Remove, TailWithout
  <2>5. ASSUME NEW i \in 1 .. len
        PROVE  /\ next'[t[i]] = IF i = len THEN Nobody ELSE t[i + 1]
               /\ prev'[t[i]] = IF i = 1 THEN Nobody ELSE t[i - 1]
    <3>1. CASE i < k
      <4>1. i \in 1 .. len + 1 /\ i # k /\ t[i] = s[i]
        BY <3>1, <1>6, <1>8
      <4>2. /\ next'[t[i]] = IF i + 1 = k THEN (IF k = len + 1 THEN Nobody ELSE s[k + 1])
                             ELSE s[i + 1]
            /\ prev'[t[i]] = IF i = 1 THEN Nobody ELSE s[i - 1]
        BY <4>1, <3>1, <1>6, <1>13
      <4>3. QED
        BY <4>2, <3>1, <1>6, <1>8
    <3>2. CASE ~(i < k)
      <4>1. i + 1 \in 1 .. len + 1 /\ i + 1 # k /\ t[i] = s[i + 1]
        BY <3>2, <1>6, <1>8
      <4>2. /\ next'[t[i]] = IF i + 1 = len + 1 THEN Nobody ELSE s[i + 2]
            /\ prev'[t[i]] = IF i = k THEN (IF k = 1 THEN Nobody ELSE s[k - 1]) ELSE s[i]
        BY <4>1, <3>2, <1>6, <1>13
      <4>3. i # len => t[i + 1] = s[i + 2]
        BY <3>2, <1>6, <1>8
      <4>4. i # 1 => t[i - 1] = IF i = k THEN s[k - 1] ELSE s[i]
        BY <3>2, <1>6, <1>8
      <4>5. i = 1 => k = 1
        BY <3>2, <1>6
      <4>6. QED
        BY <4>2, <4>3, <4>4, <4>5, <1>6
    <3>3. QED
      BY <3>1, <3>2
  <2>6. ASSUME NEW a \in Address \ Registered'
        PROVE  next'[a] = Nobody /\ prev'[a] = Nobody
    <3>1. CASE a = n
      BY <3>1, <1>12
    <3>2. CASE a # n
      <4>1. next[a] = Nobody /\ prev[a] = Nobody /\ a \notin Registered
        BY <3>2, <1>1, <1>10 DEF Threads
      <4>2. a # next[n] /\ a # prev[n]
        BY <4>1, <1>6, <1>9, <1>11
      <4>3. QED
        BY <3>2, <4>1, <4>2, <1>12
    <3>3. QED
      BY <3>1, <3>2
  <2>7. QED
    BY <2>1, <2>2, <2>3, <2>4, <2>5, <2>6, <1>6 DEF Threads
<1>15. Lists(s) /\ Lists(t)'
  BY <1>1, <1>8, <1>14 DEF Lists
<1>16. Closed(s, t)
  BY <1>3, <1>4, <1>5 DEF Closed
<1>17. QED
  BY <1>7, <1>15, <1>16

(* A step that leaves the list alone.                                      *)
LEMMA IdleKeepsList ==
    ASSUME ListTypes, NEW s, Lists(s), UNCHANGED listVars,
           Registered' = Registered,
           block' \in Nat \ {0}, lastSeen' \in [Address -> Nat]
    PROVE  ListTypes' /\ Lists(s)'
BY DEF ListTypes, Lists, Threads, listVars

LEMMA ListStep ==
    ASSUME ListTypes, WellFormed, [RegistryNext]_registryVars
    PROVE  /\ ListTypes'
           /\ \E s, t : Lists(s) /\ Lists(t)' /\ (t = s \/ Appended(s, t) \/ Closed(s, t))
<1>1. PICK s : Lists(s)
  BY DEF WellFormed, Lists
<1>2. ASSUME NEW n \in Address, Refresh(n)
      PROVE  ListTypes' /\ Lists(s)'
  <2>1. lastSeen' \in [Address -> Nat] /\ block' \in Nat \ {0}
    BY <1>2 DEF Refresh, Seen, ListTypes
  <2>2. Registered' = Registered
    BY <1>2 DEF Refresh, Seen, ListTypes, Registered,
                IsNode
  <2>3. QED
    BY <1>1, <1>2, <2>1, <2>2, IdleKeepsList DEF Refresh
<1>3. ASSUME AdvanceBlock \/ UNCHANGED registryVars
      PROVE  ListTypes' /\ Lists(s)'
  <2>1. UNCHANGED listVars /\ UNCHANGED lastSeen /\ block' \in Nat \ {0}
    BY <1>3 DEF AdvanceBlock, registryVars, listVars, ListTypes
  <2>2. QED
    BY <1>1, <2>1, IdleKeepsList DEF ListTypes, Registered, IsNode
<1>4. QED
  BY <1>1, <1>2, <1>3, FirstKeepsList, NextKeepsList, RemoveKeepsList
     DEF RegistryNext, Upsert

LEMMA EmptyList ==
    RegistryInit => ListTypes /\ totalNodes = 0 /\ \E s : Lists(s)
<1> SUFFICES ASSUME RegistryInit PROVE ListTypes /\ totalNodes = 0 /\ \E s : Lists(s)
  OBVIOUS
<1>1. ListTypes
  BY NobodyAssumption DEF RegistryInit, ListTypes
<1>2. PICK t : t = [i \in 1 .. 0 |-> Nobody]
  OBVIOUS
<1>3. t \in [1 .. totalNodes -> Address] /\ Threads(t, totalNodes)
  BY <1>2 DEF RegistryInit, Threads, Registered, IsNode
<1>4. QED
  BY <1>1, <1>3 DEF Lists, RegistryInit

LEMMA RegistryListStarts == RegistryInit => ListTypes /\ WellFormed
BY EmptyList DEF Lists, WellFormed

LEMMA RegistryKept ==
    ASSUME ListTypes, WellFormed, [RegistryNext]_registryVars
    PROVE  ListTypes' /\ WellFormed'
<1>1. ListTypes' /\ \E t : Lists(t)'
  BY ListStep
<1>2. QED
  BY <1>1 DEF WellFormed, Lists

(* In every reachable state the pointers describe a list of the registered *)
(* nodes: acyclic, complete, doubly linked, of length totalNodes.          *)
THEOREM RegistryWellFormed == RegistrySpec => [](ListTypes /\ WellFormed)
<1>1. ListTypes /\ WellFormed /\ [RegistryNext]_registryVars
        => (ListTypes /\ WellFormed)'
  BY RegistryKept
<1>2. QED
  BY <1>1, RegistryListStarts, PTL DEF RegistrySpec

(* The variables of the list have their types in every reachable state.    *)
THEOREM RegistryTypes == RegistrySpec => []ListTypes
<1>1. ListTypes /\ WellFormed => ListTypes
  OBVIOUS
<1>2. QED
  BY <1>1, RegistryWellFormed, PTL

(* The list is empty exactly when headNode is address(0).                  *)
LEMMA HeadOfEmpty ==
    ListTypes /\ WellFormed
      => ((headNode = Nobody) <=> (Registered = {}))
<1> SUFFICES ASSUME ListTypes, WellFormed
             PROVE  (headNode = Nobody) <=> (Registered = {})
  OBVIOUS
<1>1. PICK s \in [1 .. totalNodes -> Address] : Threads(s, totalNodes)
  BY DEF WellFormed
<1>2. CASE totalNodes = 0
  BY <1>1, <1>2 DEF Threads
<1>3. CASE totalNodes # 0
  <2>1. 1 \in 1 .. totalNodes
    BY <1>3 DEF ListTypes
  <2>2. s[1] \in Registered /\ headNode = s[1] /\ s[1] \in Address
    BY <1>1, <1>3, <2>1 DEF Threads
  <2>3. QED
    BY <2>2, NobodyAssumption
<1>4. QED
  BY <1>2, <1>3

(* StartBlockFits is inductive once the clock bounds the start block: the  *)
(* block in which a node is seen is not before the start block.            *)
StartInv == /\ ListTypes
            /\ WellFormed
            /\ StartBlockFits
            /\ startBlockNumber <= block

(* One step keeps StartInv.                                                *)
LEMMA StartStep ==
    ASSUME StartInv, [RegistryNext]_registryVars, ListTypes', WellFormed'
    PROVE  StartInv'
<1> USE DEF StartInv
<1>1. ASSUME NEW n \in Address, RegisterFirst(n) PROVE StartInv'
  <2>1. Registered = {} /\ Registered' = {n}
    BY <1>1, HeadOfEmpty DEF RegisterFirst, Seen, Registered,
                             IsNode, ListTypes
  <2>2. startBlockNumber' = block /\ block' = block /\ lastSeen'[n] = block
    BY <1>1 DEF RegisterFirst, Seen, ListTypes
  <2>3. QED
    BY <2>1, <2>2 DEF StartBlockFits, ListTypes
<1>2. ASSUME NEW n \in Address, RegisterNext(n) \/ Refresh(n) PROVE StartInv'
  <2>1. Registered # {} /\ Registered' = Registered \cup {n}
    BY <1>2, HeadOfEmpty DEF RegisterNext, Refresh, Seen,
                             Registered, IsNode, ListTypes
  <2>2. /\ UNCHANGED <<block, startBlockNumber>>
        /\ \A a \in Address : lastSeen'[a] = IF a = n THEN block ELSE lastSeen[a]
    BY <1>2 DEF RegisterNext, Refresh, Seen, ListTypes,
                listVars
  <2>3. QED
    BY <2>1, <2>2 DEF StartBlockFits, ListTypes, Registered,
                      IsNode
<1>3. ASSUME NEW n \in Address, Remove(n) PROVE StartInv'
  <2>1. (headNode' = Nobody) <=> (Registered' = {})
    <3>1. (ListTypes /\ WellFormed
             => ((headNode = Nobody) <=> (Registered = {})))'
      BY HeadOfEmpty, PTL
    <3>2. QED
      BY <3>1
  <2>2. Registered' \subseteq Registered /\ Registered # {}
    BY <1>3 DEF Remove, Removable, Registered,
                IsNode, ListTypes
  <2>3. /\ block' = block
        /\ startBlockNumber' = IF headNode' = Nobody THEN 0 ELSE startBlockNumber
        /\ \A a \in Registered' : lastSeen'[a] = lastSeen[a]
    BY <1>3 DEF Remove, StartBlockAfter, Registered,
                IsNode, ListTypes
  <2>4. QED
    BY <2>1, <2>2, <2>3 DEF StartBlockFits, ListTypes
<1>4. CASE AdvanceBlock \/ UNCHANGED registryVars
  BY <1>4 DEF AdvanceBlock, registryVars, listVars,
              StartBlockFits, ListTypes, Registered,
              IsNode
<1>5. QED
  BY <1>1, <1>2, <1>3, <1>4 DEF RegistryNext, Upsert

(* The start block is 0 exactly when the network has no nodes, and no      *)
(* later than the last sight of any of them.                               *)
THEOREM StartBlockCorrect == RegistrySpec => []StartBlockFits
<1>1. RegistryInit => StartBlockFits /\ startBlockNumber <= block
  BY DEF RegistryInit, StartBlockFits, Registered, IsNode
<1>2. /\ ListTypes /\ WellFormed
      /\ (ListTypes /\ WellFormed)'
      /\ StartBlockFits /\ startBlockNumber <= block
      /\ [RegistryNext]_registryVars
      => (StartBlockFits /\ startBlockNumber <= block)'
  BY StartStep DEF StartInv
<1>3. QED
  BY <1>1, <1>2, RegistryWellFormed, PTL DEF RegistrySpec

(* The start block does not move while the network has nodes.              *)
THEOREM StartBlockFixed == RegistrySpec => StartBlockStable
<1>1. /\ ListTypes /\ WellFormed
      /\ (ListTypes /\ WellFormed)'
      /\ [RegistryNext]_registryVars
      => [startBlockNumber' # startBlockNumber
            => Registered = {} \/ Registered' = {}]_registryVars
  <2> SUFFICES ASSUME ListTypes, WellFormed,
                      ListTypes', WellFormed',
                      [RegistryNext]_registryVars,
                      startBlockNumber' # startBlockNumber
               PROVE  Registered = {} \/ Registered' = {}
    OBVIOUS
  <2>1. (headNode = Nobody) <=> (Registered = {})
    BY HeadOfEmpty
  <2>2. (headNode' = Nobody) <=> (Registered' = {})
    <3>1. (ListTypes /\ WellFormed
             => ((headNode = Nobody) <=> (Registered = {})))'
      BY HeadOfEmpty, PTL
    <3>2. QED
      BY <3>1
  <2>3. QED
    BY <2>1, <2>2 DEF RegistryNext, Upsert, RegisterFirst,
                      RegisterNext, Refresh, Remove,
                      StartBlockAfter, AdvanceBlock, registryVars, listVars
<1>2. QED
  BY <1>1, RegistryWellFormed, PTL DEF RegistrySpec, StartBlockStable

-------------------------------------------------------------------------------
(* nodeAddresses walks the list the pointers describe: it returns it node  *)
(* by node, in its order, and never finds a node beyond totalNodes.        *)
Follows(w) ==
    w = [k \in 1 .. (totalNodes + 1) |->
           IF k = 1 THEN headNode
           ELSE IF w[k - 1] = Nobody THEN Nobody ELSE next[w[k - 1]]]

LEMMA WalkFollowsList ==
    ASSUME ListTypes, NEW s, Lists(s)
    PROVE  \A k \in 1 .. totalNodes + 1 :
              Walk[k] = IF k = totalNodes + 1 THEN Nobody ELSE s[k]
<1> USE NobodyAssumption
<1>1. /\ totalNodes \in Nat
      /\ \A k \in 1 .. totalNodes : s[k] \in Address /\ s[k] # Nobody
      /\ headNode = IF totalNodes = 0 THEN Nobody ELSE s[1]
      /\ \A k \in 1 .. totalNodes : next[s[k]] = IF k = totalNodes THEN Nobody ELSE s[k + 1]
  BY DEF ListTypes, Lists, Threads
<1>2. PICK v : v = [k \in 1 .. totalNodes + 1 |-> IF k = totalNodes + 1 THEN Nobody ELSE s[k]]
  OBVIOUS
<1>3. ASSUME NEW k \in 1 .. totalNodes + 1
      PROVE  v[k] = IF k = 1 THEN headNode
                    ELSE IF v[k - 1] = Nobody THEN Nobody ELSE next[v[k - 1]]
  <2>1. v[k] = IF k = totalNodes + 1 THEN Nobody ELSE s[k]
    BY <1>2
  <2>2. CASE k = 1
    BY <1>1, <2>1, <2>2
  <2>3. CASE k # 1
    <3>1. k - 1 \in 1 .. totalNodes /\ k - 1 \in 1 .. totalNodes + 1 /\ k - 1 # totalNodes + 1
      BY <1>1, <2>3
    <3>2. v[k - 1] = s[k - 1]
      BY <1>2, <3>1
    <3>3. next[s[k - 1]] = IF k - 1 = totalNodes THEN Nobody ELSE s[(k - 1) + 1]
      BY <1>1, <3>1
    <3>4. QED
      BY <1>1, <2>1, <2>3, <3>1, <3>2, <3>3
  <2>4. QED
    BY <2>2, <2>3
<1>4. Follows(v)
  BY <1>2, <1>3 DEF Follows
<1>5. Follows(Walk)
  <2>1. PICK w : w = CHOOSE u : Follows(u)
    OBVIOUS
  <2>2. Follows(w)
    BY <1>4, <2>1
  <2>3. Walk = w
    BY <2>1 DEF Walk, Follows
  <2>4. QED
    BY <2>2, <2>3
<1>6. PICK w : w = Walk
  OBVIOUS
<1> DEFINE Bad == {k \in 1 .. totalNodes + 1 : w[k] # v[k]}
<1>7. Bad = {}
  <2>1. SUFFICES ASSUME Bad # {} PROVE FALSE
    OBVIOUS
  <2>2. PICK k \in Bad : \A j \in Bad : k <= j
    <3>1. Bad \subseteq Nat
      BY <1>1
    <3> HIDE DEF Bad
    <3>2. QED
      BY <2>1, <3>1, MinimalNumber
  <2>3. w[k] = IF k = 1 THEN headNode
               ELSE IF w[k - 1] = Nobody THEN Nobody ELSE next[w[k - 1]]
    BY <1>5, <1>6, <2>2 DEF Follows
  <2>4. k # 1 => k - 1 \in 1 .. totalNodes + 1 /\ k - 1 \notin Bad
    BY <1>1, <2>2
  <2>5. k # 1 => w[k - 1] = v[k - 1]
    BY <2>4
  <2>6. QED
    BY <1>3, <2>2, <2>3, <2>5
<1>8. QED
  BY <1>2, <1>6, <1>7

AddressesAreList ==
    \A s : ListTypes /\ Lists(s)
             => NodeAddresses = s /\ ~NodeAddressesReverts

LEMMA NodeAddressesAreList == AddressesAreList
<1> USE DEF AddressesAreList
<1> SUFFICES ASSUME ListTypes, NEW s, Lists(s)
             PROVE  NodeAddresses = s /\ ~NodeAddressesReverts
  OBVIOUS
<1>1. totalNodes \in Nat /\ s = [k \in 1 .. totalNodes |-> s[k]]
  BY DEF ListTypes, Lists
<1>2. \A k \in 1 .. totalNodes : Walk[k] = s[k]
  BY <1>1, WalkFollowsList
<1>3. Walk[totalNodes + 1] = Nobody
  BY <1>1, WalkFollowsList
<1>4. NodeAddresses = [k \in 1 .. totalNodes |-> s[k]]
  BY <1>2 DEF NodeAddresses
<1>5. QED
  BY <1>1, <1>3, <1>4 DEF NodeAddressesReverts

(* Every reader of the list gets all of the nodes, once, and no revert.    *)
THEOREM WalkComplete ==
    RegistrySpec => []( /\ ~NodeAddressesReverts
                /\ Registered = {NodeAddresses[k] : k \in 1 .. totalNodes})
<1>1. ListTypes /\ WellFormed
        => /\ ~NodeAddressesReverts
           /\ Registered = {NodeAddresses[k] : k \in 1 .. totalNodes}
  <2> SUFFICES ASSUME ListTypes, WellFormed
               PROVE  /\ ~NodeAddressesReverts
                      /\ Registered = {NodeAddresses[k] : k \in 1 .. totalNodes}
    OBVIOUS
  <2>1. PICK s : Lists(s)
    BY DEF WellFormed, Lists
  <2>2. NodeAddresses = s /\ ~NodeAddressesReverts
    BY <2>1, NodeAddressesAreList DEF AddressesAreList
  <2>3. Registered = {s[k] : k \in 1 .. totalNodes}
    BY <2>1 DEF Lists, Threads
  <2>4. QED
    BY <2>2, <2>3
<1>2. QED
  BY <1>1, RegistryWellFormed, PTL

(* The pointers implement the abstract list: what nodeAddresses returns    *)
(* only ever gains a node at its end or loses one, the others keeping      *)
(* their order.                                                            *)
THEOREM RefinesNodeList == RegistrySpec => ImplementsNodeList
<1>1. RegistryInit => List!Init
  <2> SUFFICES ASSUME RegistryInit PROVE NodeAddresses = <<>>
    BY DEF List!Init
  <2>1. totalNodes = 0
    BY DEF RegistryInit
  <2>2. QED
    BY <2>1 DEF NodeAddresses
<1>2. ASSUME ListTypes, WellFormed, [RegistryNext]_registryVars
      PROVE  [List!Next]_NodeAddresses
  <2>1. /\ ListTypes'
        /\ \E s, t : Lists(s) /\ Lists(t)' /\ (t = s \/ Appended(s, t) \/ Closed(s, t))
    BY <1>2, ListStep
  <2>2. PICK s, t : Lists(s) /\ Lists(t)' /\ (t = s \/ Appended(s, t) \/ Closed(s, t))
    BY <2>1
  <2>3. NodeAddresses = s
    BY <1>2, <2>2, NodeAddressesAreList DEF AddressesAreList
  <2>4. NodeAddresses' = t
    <3>1. AddressesAreList'
      BY NodeAddressesAreList, PTL
    <3>2. QED
      BY <2>1, <2>2, <3>1 DEF AddressesAreList
  <2>5. /\ totalNodes \in Nat /\ s \in Seq(Address) /\ Len(s) = totalNodes
        /\ Registered = {s[i] : i \in 1 .. totalNodes}
    <3>1. totalNodes \in Nat /\ s \in [1 .. totalNodes -> Address]
      BY <1>2, <2>2 DEF ListTypes, Lists
    <3>2. s \in Seq(Address) /\ Len(s) = totalNodes
      BY <3>1
    <3>3. Registered = {s[i] : i \in 1 .. totalNodes}
      BY <2>2 DEF Lists, Threads
    <3>4. QED
      BY <3>1, <3>2, <3>3
  <2>6. CASE Appended(s, t)
    <3>1. PICK n \in Address \ Registered :
             t = [i \in 1 .. totalNodes + 1 |-> IF i = totalNodes + 1 THEN n ELSE s[i]]
      BY <2>6 DEF Appended
    <3>2. t = Append(s, n)
      <4>1. s \in [1 .. totalNodes -> Address] /\ n \in Address
        BY <2>2, <3>1 DEF Lists
      <4>2. /\ Append(s, n) \in Seq(Address) /\ Len(Append(s, n)) = totalNodes + 1
            /\ \A i \in 1 .. totalNodes + 1 :
                  Append(s, n)[i] = IF i = totalNodes + 1 THEN n ELSE s[i]
        BY <2>5, <4>1
      <4>3. /\ t \in Seq(Address) /\ Len(t) = totalNodes + 1
            /\ \A i \in 1 .. totalNodes + 1 : t[i] = IF i = totalNodes + 1 THEN n ELSE s[i]
        BY <2>5, <3>1, <4>1
      <4>4. QED
        BY <2>5, <4>2, <4>3, SeqEqual
    <3>3. List!Join(n)
      BY <2>3, <2>4, <2>5, <3>2 DEF List!Join, List!Members
    <3>4. QED
      BY <3>3 DEF List!Next
  <2>7. CASE Closed(s, t)
    <3>1. PICK k \in 1 .. totalNodes :
             t = [i \in 1 .. totalNodes - 1 |-> IF i < k THEN s[i] ELSE s[i + 1]]
      BY <2>7 DEF Closed
    <3>2. List!Leave(k)
      BY <2>3, <2>4, <2>5, <3>1 DEF List!Leave, List!Without
    <3>3. k \in 1 .. Len(NodeAddresses)
      BY <2>3, <2>5
    <3>4. QED
      BY <3>2, <3>3 DEF List!Next
  <2>8. QED
    BY <2>2, <2>3, <2>4, <2>6, <2>7
<1>3. QED
  BY <1>1, <1>2, RegistryWellFormed, PTL DEF RegistrySpec, ImplementsNodeList,
                                             List!Spec

-------------------------------------------------------------------------------
(* What a step of the node manager does to the list.                       *)
LEMMA ListSteps ==
    ASSUME [ManagerNext]_managerVars
    PROVE  \/ \E n \in Address : Upsert(n) \/ Remove(n)
           \/ AdvanceBlock
           \/ UNCHANGED registryVars
<1>1. CASE NodeStep
  BY <1>1 DEF NodeStep, UpsertNode, UpsertNodeAdmin, RemoveNode, KickNode
<1>2. CASE WhitelistStep
  BY <1>2 DEF WhitelistStep, WhitelistNode, SetRequiresWhitelist
<1>3. CASE StreamStep
  BY <1>3 DEF StreamStep, CreateStream, DeleteStream
<1>4. CASE FundStep
  BY <1>4 DEF FundStep, Stake, Withdraw, Join, Delegate, Undelegate, StakeAndDelegate,
              UndelegateWithdraw
<1>5. CASE LeaveStep
  BY <1>5 DEF LeaveStep, Leave
<1>6. CASE NextBlock
  BY <1>6 DEF NextBlock
<1>7. CASE UNCHANGED managerVars
  BY <1>7 DEF managerVars
<1>8. QED
  BY <1>1, <1>2, <1>3, <1>4, <1>5, <1>6, <1>7 DEF ManagerNext

LEMMA RegistrySteps == ASSUME [ManagerNext]_managerVars PROVE [RegistryNext]_registryVars
BY ListSteps DEF RegistryNext

LEMMA RegistryStarts == ASSUME ManagerInit PROVE RegistryInit
BY DEF ManagerInit, RegistryInit

(* The node manager implements NodeRegistry.                               *)
THEOREM ImplementsRegistry == ManagerSpec => RegistrySpec
BY RegistryStarts, RegistrySteps, PTL DEF ManagerSpec, RegistrySpec

(* Its steps keep the list.                                                *)
LEMMA ListKept ==
    ASSUME ListTypes, WellFormed, [ManagerNext]_managerVars
    PROVE  ListTypes' /\ WellFormed'
BY RegistrySteps, RegistryKept

LEMMA ListStays ==
    ASSUME ListTypes, WellFormed, UNCHANGED registryVars
    PROVE  ListTypes' /\ WellFormed'
BY RegistryKept

LEMMA ListStarts == ASSUME ManagerInit PROVE ListTypes /\ WellFormed
BY RegistryStarts, RegistryListStarts

(* In every reachable state of the node manager its pointers describe a    *)
(* list of its nodes.                                                      *)
THEOREM ListWellFormed == ManagerSpec => []WellFormed
BY RegistryWellFormed, ImplementsRegistry, PTL

-------------------------------------------------------------------------------
(* The types of the funds.                                                 *)
FundTypes == /\ wallet \in [Address -> Nat]
             /\ balanceOf \in [Address -> Nat]
             /\ delegatesOf \in [Address -> [Address -> Nat]]
             /\ stakeOf \in [Address -> Nat]
             /\ held \in Nat
             /\ totalSupply \in Nat
             /\ treasurySupply \in Nat

LEMMA DepositKeeps ==
    ASSUME FundTypes, NEW a \in Address, NEW amount \in Nat, Deposited(a, amount)
    PROVE  wallet' \in [Address -> Nat] /\ held' \in Nat /\ totalSupply' \in Nat
  BY DEF FundTypes, Deposited

LEMMA WithdrawalKeeps ==
    ASSUME FundTypes, NEW a \in Address, NEW amount \in Nat, PaidOut(a, amount)
    PROVE  wallet' \in [Address -> Nat] /\ held' \in Nat /\ totalSupply' \in Nat
  BY DEF FundTypes, PaidOut

LEMMA DelegationKeeps ==
    ASSUME FundTypes, NEW a \in Address, NEW n \in Address, NEW amount \in Nat,
           Delegated(a, amount, n)
    PROVE  delegatesOf' \in [Address -> [Address -> Nat]] /\ stakeOf' \in [Address -> Nat]
  BY DEF FundTypes, Delegated

LEMMA UndelegationKeeps ==
    ASSUME FundTypes, NEW a \in Address, NEW n \in Address, NEW amount \in Nat,
           Undelegated(a, amount, n)
    PROVE  delegatesOf' \in [Address -> [Address -> Nat]] /\ stakeOf[n] - amount \in Nat
<1>1. delegatesOf[a][n] - amount \in Nat /\ stakeOf[n] - amount \in Nat
  BY DEF FundTypes, Undelegated
<1>2. QED
  BY <1>1 DEF FundTypes, Undelegated

(* The amounts keep their types through any order of transactions.         *)
LEMMA FundTypesKept == ASSUME FundTypes, [ManagerNext]_managerVars PROVE FundTypes'
<1>1. CASE NodeStep
  BY <1>1 DEF NodeStep, UpsertNode, UpsertNodeAdmin, RemoveNode, KickNode, StakeWithout,
              FundTypes, fundVars, tokenVars
<1>2. CASE WhitelistStep \/ StreamStep \/ NextBlock \/ UNCHANGED managerVars
  BY <1>2 DEF WhitelistStep, WhitelistNode, SetRequiresWhitelist, StreamStep, CreateStream,
              DeleteStream, NextBlock, managerVars, FundTypes, fundVars, tokenVars
<1>3. ASSUME NEW a \in Address, NEW amount \in Amounts, Stake(a, amount) PROVE FundTypes'
  BY <1>3, DepositKeeps DEF Amounts, Stake, FundTypes
<1>4. ASSUME NEW a \in Address, NEW amount \in Amounts, Withdraw(a, amount) PROVE FundTypes'
  BY <1>4, WithdrawalKeeps DEF Amounts, Withdraw, CanWithdraw, FundTypes
<1>5. ASSUME NEW a \in Address, NEW amount \in Amounts, Join(a, amount) PROVE FundTypes'
  BY <1>5, DepositKeeps, DelegationKeeps DEF Amounts, Join, FundTypes
<1>6. ASSUME NEW a \in Address, NEW amount \in Amounts, NEW n \in Address,
             Delegate(a, amount, n)
      PROVE  FundTypes'
  BY <1>6, DelegationKeeps DEF Amounts, Delegate, FundTypes, tokenVars
<1>7. ASSUME NEW a \in Address, NEW amount \in Amounts, NEW n \in Address,
             Undelegate(a, amount, n)
      PROVE  FundTypes'
  BY <1>7, UndelegationKeeps DEF Amounts, Undelegate, FundTypes, tokenVars
<1>8. ASSUME NEW a \in Address, NEW amount \in Amounts, NEW n \in Address,
             StakeAndDelegate(a, amount, n)
      PROVE  FundTypes'
  BY <1>8, DepositKeeps, DelegationKeeps DEF Amounts, StakeAndDelegate, FundTypes
<1>9. ASSUME NEW a \in Address, NEW amount \in Amounts, NEW n \in Address,
             UndelegateWithdraw(a, amount, n)
      PROVE  FundTypes'
  BY <1>9, UndelegationKeeps, WithdrawalKeeps DEF Amounts, UndelegateWithdraw, FundTypes
<1>10. ASSUME NEW a \in Address, Leave(a) PROVE FundTypes'
  BY <1>10, UndelegationKeeps, WithdrawalKeeps DEF Leave, StakeWithout, FundTypes
<1>11. QED
  BY <1>1, <1>2, <1>3, <1>4, <1>5, <1>6, <1>7, <1>8, <1>9, <1>10
  DEF ManagerNext, FundStep, LeaveStep

LEMMA FundsTyped == ManagerSpec => []FundTypes
<1>1. ManagerInit => FundTypes
  BY TokensAssumption DEF ManagerInit, FundTypes
<1>2. QED
  BY <1>1, FundTypesKept, PTL DEF ManagerSpec

-------------------------------------------------------------------------------
(* The array of stream keys, its stored indices and the rights.            *)
StreamInv == /\ streams \in Seq(Stream)
             /\ streamIndex \in [DOMAIN streamIndex -> Nat]
             /\ StreamsIndexed

(* Only createStream and deleteStream touch the array; the other actions   *)
(* grant and revoke rights on the streams that are there.                  *)
LEMMA AccessKeepsStreams ==
    ASSUME StreamInv, UNCHANGED streamVars, NEW n \in Address, NEW stake,
           canPublish' = AccessAfter(n, stake) \/ UNCHANGED canPublish
    PROVE  StreamInv'
<1>1. StreamKeys' = StreamKeys
  BY DEF streamVars, StreamKeys
<1>2. StreamKeys \subseteq Stream
  BY DEF StreamInv, StreamKeys
<1>3. canPublish' \subseteq canPublish \cup (StreamKeys \X {n})
  BY DEF AccessAfter
<1>4. QED
  BY <1>1, <1>2, <1>3 DEF StreamInv, StreamsIndexed, streamVars

LEMMA CreateKeepsStreams ==
    ASSUME StreamInv, NEW key \in Stream, CreateStream(key)
    PROVE  StreamInv'
<1> DEFINE len == Len(streams)
<1>1. /\ streams' \in Seq(Stream) /\ Len(streams') = len + 1 /\ len \in Nat
      /\ streams'[len + 1] = key
      /\ \A i \in 1 .. len : streams'[i] = streams[i]
  BY DEF StreamInv, CreateStream
<1>2. StreamKeys' = StreamKeys \cup {key}
  BY <1>1 DEF StreamKeys
<1>3. key \notin StreamKeys
  BY DEF StreamInv, StreamsIndexed, CreateStream
<1>4. /\ DOMAIN streamIndex' = DOMAIN streamIndex \cup {key}
      /\ streamIndex' \in [DOMAIN streamIndex' -> Nat]
      /\ \A k \in DOMAIN streamIndex' : streamIndex'[k] = IF k = key THEN len ELSE streamIndex[k]
  BY <1>1 DEF StreamInv, CreateStream
<1>5. \A i \in 1 .. Len(streams') : streamIndex'[streams'[i]] = i - 1
  <2> SUFFICES ASSUME NEW i \in 1 .. len + 1 PROVE streamIndex'[streams'[i]] = i - 1
    BY <1>1
  <2>1. CASE i = len + 1
    BY <2>1, <1>1, <1>4
  <2>2. CASE i \in 1 .. len
    <3>1. streams[i] \in StreamKeys /\ streams[i] # key /\ streamIndex[streams[i]] = i - 1
      BY <2>2, <1>3 DEF StreamKeys, StreamInv, StreamsIndexed
    <3>2. QED
      BY <3>1, <2>2, <1>1, <1>4 DEF StreamInv, StreamsIndexed
  <2>3. QED
    BY <2>1, <2>2, <1>1
<1>6. canPublish' = canPublish \cup ({key} \X Qualified)
  BY DEF CreateStream
<1>7. QED
  BY <1>1, <1>2, <1>4, <1>5, <1>6 DEF StreamInv, StreamsIndexed

LEMMA DeleteKeepsStreams ==
    ASSUME StreamInv, NEW key \in Stream, DeleteStream(key)
    PROVE  StreamInv'
<1>1. PICK p : p = streamIndex[key] + 1
  OBVIOUS
<1>2. PICK len : len = Len(streams)
  OBVIOUS
<1>3. PICK q \in 1 .. len : key = streams[q]
  BY <1>2 DEF DeleteStream, StreamInv, StreamsIndexed, StreamKeys
<1>4. len \in Nat /\ p = q /\ p \in 1 .. len
  BY <1>1, <1>2, <1>3 DEF StreamInv, StreamsIndexed
<1>5. /\ \A i \in 1 .. len : streams[i] \in Stream /\ streams[i] \in DOMAIN streamIndex
      /\ \A i \in 1 .. len : streamIndex[streams[i]] = i - 1
      /\ LastKey = streams[len]
  BY <1>2 DEF StreamInv, StreamsIndexed, StreamKeys, LastKey
<1>6. PICK moved : moved = [streams EXCEPT ![p] = LastKey]
  OBVIOUS
<1>7. moved \in Seq(Stream) /\ Len(moved) = len
      /\ \A i \in 1 .. len : moved[i] = IF i = p THEN streams[len] ELSE streams[i]
  BY <1>2, <1>4, <1>5, <1>6 DEF StreamInv
<1>8. streams' = SubSeq(moved, 1, len - 1)
  BY <1>1, <1>2, <1>6 DEF DeleteStream
<1>9. /\ streams' \in Seq(Stream)
      /\ Len(streams') = len - 1
      /\ \A i \in 1 .. len - 1 : streams'[i] = IF i = p THEN streams[len] ELSE streams[i]
  BY <1>4, <1>7, <1>8
<1>10. /\ DOMAIN streamIndex' = DOMAIN streamIndex \ {key}
       /\ streamIndex' \in [DOMAIN streamIndex' -> Nat]
       /\ \A k \in DOMAIN streamIndex' :
             streamIndex'[k] = IF k = LastKey THEN streamIndex[key] ELSE streamIndex[k]
  BY <1>3, <1>4, <1>5 DEF StreamInv, DeleteStream, IndexAfterMove
<1>11. \A i, j \in 1 .. len : streams[i] = streams[j] => i = j
  BY <1>4, <1>5
<1>12. StreamKeys' = StreamKeys \ {key}
  <2>1. StreamKeys' = {streams'[i] : i \in 1 .. len - 1} /\ StreamKeys = {streams[i] : i \in 1 .. len}
    BY <1>2, <1>9 DEF StreamKeys
  <2>2. ASSUME NEW i \in 1 .. len - 1 PROVE streams'[i] \in StreamKeys \ {key}
    <3>1. CASE i = p
      <4>1. len \in 1 .. len /\ len # p
        BY <3>1, <1>4
      <4>2. QED
        BY <3>1, <4>1, <2>1, <1>3, <1>4, <1>9, <1>11
    <3>2. CASE i # p
      <4>1. i \in 1 .. len
        BY <1>4
      <4>2. QED
        BY <3>2, <4>1, <2>1, <1>3, <1>4, <1>9, <1>11
    <3>3. QED
      BY <3>1, <3>2
  <2>3. ASSUME NEW k \in StreamKeys, k # key PROVE \E i \in 1 .. len - 1 : streams'[i] = k
    <3>1. PICK j \in 1 .. len : k = streams[j] /\ j # p
      BY <2>1, <2>3, <1>3, <1>4
    <3>2. CASE j = len
      BY <3>1, <3>2, <1>4, <1>9
    <3>3. CASE j # len
      BY <3>1, <3>3, <1>4, <1>9
    <3>4. QED
      BY <3>2, <3>3
  <2>4. QED
    BY <2>1, <2>2, <2>3
<1>13. ASSUME NEW i \in 1 .. len - 1 PROVE streamIndex'[streams'[i]] = i - 1
  <2>1. streams'[i] \in DOMAIN streamIndex'
    BY <1>9, <1>10, <1>12 DEF StreamKeys, StreamInv, StreamsIndexed
  <2>2. CASE i = p
    BY <2>1, <2>2, <1>1, <1>4, <1>5, <1>9, <1>10
  <2>3. CASE i # p
    <3>1. streams'[i] = streams[i] /\ streams[i] # LastKey /\ streamIndex[streams[i]] = i - 1
      BY <2>3, <1>4, <1>5, <1>9, <1>11
    <3>2. QED
      BY <3>1, <2>1, <1>10
  <2>4. QED
    BY <2>2, <2>3
<1>14. canPublish' = {r \in canPublish : r[1] # key}
  BY DEF DeleteStream
<1>15. QED
  BY <1>9, <1>10, <1>12, <1>13, <1>14 DEF StreamInv, StreamsIndexed

LEMMA StreamsKept == ASSUME StreamInv, [ManagerNext]_managerVars PROVE StreamInv'
<1>1. UNCHANGED <<streamVars, canPublish>> => StreamInv'
  BY DEF StreamInv, StreamsIndexed, StreamKeys, streamVars
<1>2. CASE NodeStep
  BY <1>1, <1>2 DEF NodeStep, UpsertNode, UpsertNodeAdmin, RemoveNode, KickNode
<1>3. CASE WhitelistStep
  BY <1>1, <1>3 DEF WhitelistStep, WhitelistNode, SetRequiresWhitelist
<1>4. CASE StreamStep
  BY <1>4, CreateKeepsStreams, DeleteKeepsStreams DEF StreamStep
<1>5. ASSUME NEW a \in Address, NEW amount \in Amounts,
             Stake(a, amount) \/ Withdraw(a, amount)
      PROVE  StreamInv'
  BY <1>1, <1>5 DEF Stake, Withdraw
<1>6. ASSUME NEW a \in Address, NEW amount \in Amounts, Join(a, amount)
      PROVE  StreamInv'
  BY <1>6, AccessKeepsStreams DEF Join, Delegated
<1>7. ASSUME NEW a \in Address, NEW amount \in Amounts, NEW n \in Address,
             Delegate(a, amount, n) \/ StakeAndDelegate(a, amount, n)
      PROVE  StreamInv'
  BY <1>7, AccessKeepsStreams DEF Delegate, StakeAndDelegate, Delegated
<1>8. ASSUME NEW a \in Address, NEW amount \in Amounts, NEW n \in Address,
             Undelegate(a, amount, n) \/ UndelegateWithdraw(a, amount, n)
      PROVE  StreamInv'
  BY <1>8, AccessKeepsStreams DEF Undelegate, UndelegateWithdraw, Undelegated
<1>9. ASSUME NEW a \in Address, Leave(a) PROVE StreamInv'
  BY <1>9, AccessKeepsStreams DEF Leave, Undelegated
<1>10. CASE NextBlock \/ UNCHANGED managerVars
  BY <1>1, <1>10 DEF NextBlock, managerVars
<1>11. QED
  BY <1>2, <1>3, <1>4, <1>5, <1>6, <1>7, <1>8, <1>9, <1>10 DEF ManagerNext, FundStep, LeaveStep

LEMMA StreamsTyped == ManagerSpec => []StreamInv
<1>1. ManagerInit => StreamInv
  BY DEF ManagerInit, StreamInv, StreamsIndexed, StreamKeys
<1>2. QED
  BY <1>1, StreamsKept, PTL DEF ManagerSpec

(* No sequence of createStream and deleteStream makes deleteStream remove  *)
(* another key than its own, or leaves a right on a stream that is gone.   *)
THEOREM StreamsMirrored == ManagerSpec => []StreamsIndexed
<1>1. StreamInv => StreamsIndexed
  BY DEF StreamInv
<1>2. QED
  BY <1>1, StreamsTyped, PTL

-------------------------------------------------------------------------------
(* Tokens.  A step changes the accounts of one delegate, w in its wallet,  *)
(* b in its balance and d in what it delegates to one node, and t in the   *)
(* treasury, by amounts that cancel out; what the contract holds changes   *)
(* with the wallet, the stake of a node by what is delegated to it, or it  *)
(* goes altogether.                                                        *)
Moves(a, n, w, b, d, t) ==
    /\ w + b + d + t = 0
    /\ held' = held - w
    /\ totalSupply' = totalSupply - w
    /\ treasurySupply' = treasurySupply + t
    /\ \A x \in Address : wallet'[x] = wallet[x] + (IF x = a THEN w ELSE 0)
    /\ \A x \in Address : balanceOf'[x] = balanceOf[x] + (IF x = a THEN b ELSE 0)
    /\ \A x, y \in Address :
          delegatesOf'[x][y] = delegatesOf[x][y] + (IF x = a /\ y = n THEN d ELSE 0)
    /\ \A y \in Address :
          stakeOf'[y] = 0 \/ stakeOf'[y] = stakeOf[y] + (IF y = n THEN d ELSE 0)

Idle == /\ UNCHANGED <<wallet, held, totalSupply, balanceOf, delegatesOf, treasurySupply>>
        /\ \A y \in Address : stakeOf'[y] = 0 \/ stakeOf'[y] = stakeOf[y]

LEMMA FundSteps ==
    ASSUME FundTypes, FundTypes', [ManagerNext]_managerVars
    PROVE  \/ Idle
           \/ \E a, n \in Address, w, b, d \in Int : Moves(a, n, w, b, d, 0)
<1>1. /\ wallet \in [Address -> Nat] /\ balanceOf \in [Address -> Nat]
      /\ delegatesOf \in [Address -> [Address -> Nat]] /\ stakeOf \in [Address -> Nat]
      /\ held \in Nat /\ totalSupply \in Nat /\ treasurySupply \in Nat
  BY DEF FundTypes
<1>2. \A x, y \in Address : /\ wallet[x] \in Nat /\ balanceOf[x] \in Nat /\ stakeOf[y] \in Nat
                            /\ delegatesOf[x] \in [Address -> Nat] /\ delegatesOf[x][y] \in Nat
  BY <1>1
<1>3. \A amount \in Amounts : amount \in Nat /\ -amount \in Int
  BY DEF Amounts
<1>4. CASE NodeStep
  BY <1>1, <1>4 DEF NodeStep, UpsertNode, UpsertNodeAdmin, RemoveNode, KickNode,
                    StakeWithout,
                    Idle, fundVars, tokenVars
<1>5. CASE WhitelistStep \/ StreamStep \/ NextBlock \/ UNCHANGED managerVars
  BY <1>5 DEF WhitelistStep, WhitelistNode, SetRequiresWhitelist, StreamStep, CreateStream,
              DeleteStream, NextBlock, managerVars, Idle, fundVars, tokenVars
<1>6. ASSUME NEW a \in Address, NEW amount \in Amounts, Stake(a, amount)
      PROVE  Moves(a, a, -amount, amount, 0, 0)
  <2>1. UNCHANGED <<delegatesOf, stakeOf, treasurySupply>> /\ amount \in Nat
    BY <1>3, <1>6 DEF Stake
  <2>2. /\ \A x, y \in Address : delegatesOf'[x][y] = delegatesOf[x][y] + (IF x = a /\ y = a THEN 0 ELSE 0)
        /\ \A y \in Address : stakeOf'[y] = stakeOf[y] + (IF y = a THEN 0 ELSE 0)
    BY <1>2, <2>1
  <2>3. /\ \A x \in Address : wallet'[x] = wallet[x] + (IF x = a THEN -amount ELSE 0)
        /\ \A x \in Address : balanceOf'[x] = balanceOf[x] + (IF x = a THEN amount ELSE 0)
    BY <1>1, <1>2, <1>6, <2>1 DEF Stake, Deposited
  <2>4. QED
    BY <1>1, <1>6, <2>1, <2>2, <2>3 DEF Moves, Stake, Deposited
<1>7. ASSUME NEW a \in Address, NEW amount \in Amounts, Withdraw(a, amount)
      PROVE  Moves(a, a, amount, -amount, 0, 0)
  <2>1. UNCHANGED <<delegatesOf, stakeOf, treasurySupply>> /\ amount \in Nat
    BY <1>3, <1>7 DEF Withdraw
  <2>2. /\ \A x, y \in Address : delegatesOf'[x][y] = delegatesOf[x][y] + (IF x = a /\ y = a THEN 0 ELSE 0)
        /\ \A y \in Address : stakeOf'[y] = stakeOf[y] + (IF y = a THEN 0 ELSE 0)
    BY <1>2, <2>1
  <2>3. /\ \A x \in Address : wallet'[x] = wallet[x] + (IF x = a THEN amount ELSE 0)
        /\ \A x \in Address : balanceOf'[x] = balanceOf[x] + (IF x = a THEN -amount ELSE 0)
    BY <1>1, <1>2, <1>7, <2>1 DEF Withdraw, PaidOut
  <2>4. QED
    BY <1>1, <1>7, <2>1, <2>2, <2>3 DEF Moves, Withdraw, PaidOut
<1>8. ASSUME NEW a \in Address, NEW amount \in Amounts, Join(a, amount)
      PROVE  Moves(a, a, -amount, 0, amount, 0)
  <2>1. /\ amount \in Nat /\ -amount \in Int
        /\ held' = held - (-amount) /\ totalSupply' = totalSupply - (-amount)
        /\ treasurySupply' = treasurySupply + 0
        /\ -amount + 0 + amount + 0 = 0
    <3>1. /\ held' = held + amount /\ totalSupply' = totalSupply + amount
          /\ UNCHANGED treasurySupply
      BY <1>8 DEF Join, Deposited
    <3>2. amount \in Nat
      BY <1>3
    <3>3. QED
      BY <1>1, <3>1, <3>2
  <2>2. /\ \A x \in Address : wallet'[x] = wallet[x] + (IF x = a THEN -amount ELSE 0)
        /\ \A x \in Address : balanceOf'[x] = balanceOf[x] + (IF x = a THEN 0 ELSE 0)
    <3>1. wallet' = [wallet EXCEPT ![a] = wallet[a] - amount] /\ UNCHANGED balanceOf
      BY <1>8 DEF Join, Deposited
    <3>2. QED
      BY <1>1, <1>2, <2>1, <3>1
  <2>3. \A x, y \in Address :
           delegatesOf'[x][y] = delegatesOf[x][y] + (IF x = a /\ y = a THEN amount ELSE 0)
    BY <1>1, <1>2, <1>8, <2>1 DEF Join, Deposited, Delegated
  <2>4. \A y \in Address : stakeOf'[y] = stakeOf[y] + (IF y = a THEN amount ELSE 0)
    BY <1>1, <1>2, <1>8, <2>1 DEF Join, Deposited, Delegated
  <2>5. QED
    BY <2>1, <2>2, <2>3, <2>4 DEF Moves
<1>9. ASSUME NEW a \in Address, NEW amount \in Amounts, NEW n \in Address, Delegate(a, amount, n)
      PROVE  Moves(a, n, 0, -amount, amount, 0)
  BY <1>1, <1>2, <1>3, <1>9 DEF Delegate, Delegated, Moves, tokenVars
<1>10. ASSUME NEW a \in Address, NEW amount \in Amounts, NEW n \in Address, Undelegate(a, amount, n)
       PROVE  Moves(a, n, 0, amount, -amount, 0)
  BY <1>1, <1>2, <1>3, <1>10 DEF Undelegate, Undelegated, Moves, tokenVars
<1>11. ASSUME NEW a \in Address, NEW amount \in Amounts, NEW n \in Address,
              StakeAndDelegate(a, amount, n)
       PROVE  Moves(a, n, -amount, 0, amount, 0)
  <2>1. /\ amount \in Nat /\ -amount \in Int
        /\ held' = held - (-amount) /\ totalSupply' = totalSupply - (-amount)
        /\ treasurySupply' = treasurySupply + 0
        /\ -amount + 0 + amount + 0 = 0
    <3>1. /\ held' = held + amount /\ totalSupply' = totalSupply + amount
          /\ UNCHANGED treasurySupply
      BY <1>11 DEF StakeAndDelegate, Deposited
    <3>2. amount \in Nat
      BY <1>3
    <3>3. QED
      BY <1>1, <3>1, <3>2
  <2>2. /\ \A x \in Address : wallet'[x] = wallet[x] + (IF x = a THEN -amount ELSE 0)
        /\ \A x \in Address : balanceOf'[x] = balanceOf[x] + (IF x = a THEN 0 ELSE 0)
    <3>1. wallet' = [wallet EXCEPT ![a] = wallet[a] - amount] /\ UNCHANGED balanceOf
      BY <1>11 DEF StakeAndDelegate, Deposited
    <3>2. QED
      BY <1>1, <1>2, <2>1, <3>1
  <2>3. \A x, y \in Address :
           delegatesOf'[x][y] = delegatesOf[x][y] + (IF x = a /\ y = n THEN amount ELSE 0)
    BY <1>1, <1>2, <1>11, <2>1 DEF StakeAndDelegate, Deposited, Delegated
  <2>4. \A y \in Address : stakeOf'[y] = stakeOf[y] + (IF y = n THEN amount ELSE 0)
    BY <1>1, <1>2, <1>11, <2>1 DEF StakeAndDelegate, Deposited, Delegated
  <2>5. QED
    BY <2>1, <2>2, <2>3, <2>4 DEF Moves
<1>12. ASSUME NEW a \in Address, NEW amount \in Amounts, NEW n \in Address,
              UndelegateWithdraw(a, amount, n)
       PROVE  Moves(a, n, amount, 0, -amount, 0)
  BY <1>1, <1>2, <1>3, <1>12 DEF UndelegateWithdraw, PaidOut, Undelegated, Moves
<1>13. ASSUME NEW a \in Address, Leave(a)
       PROVE  \E w, b, d \in Int : Moves(a, a, w, b, d, 0)
  <2>1. PICK own : own = delegatesOf[a][a]
    OBVIOUS
  <2>2. PICK rest : rest = balanceOf[a]
    OBVIOUS
  <2>3. own \in Nat /\ rest \in Nat /\ -own \in Int /\ -rest \in Int /\ rest + own \in Int
    BY <1>2, <2>1, <2>2
  <2>4. /\ wallet' = [wallet EXCEPT ![a] = wallet[a] + (rest + own)]
        /\ balanceOf' = [balanceOf EXCEPT ![a] = 0]
        /\ delegatesOf' = [delegatesOf EXCEPT ![a][a] = delegatesOf[a][a] - own]
        /\ stakeOf' = [stakeOf EXCEPT ![a] = 0]
        /\ held' = held - (rest + own) /\ totalSupply' = totalSupply - (rest + own)
        /\ UNCHANGED treasurySupply
    BY <1>13, <2>1, <2>2 DEF Leave, PaidOut, Undelegated, StakeWithout
  <2>5. \A x, y \in Address :
           delegatesOf'[x][y] = delegatesOf[x][y] + (IF x = a /\ y = a THEN -own ELSE 0)
    BY <1>1, <1>2, <2>3, <2>4
  <2>6. /\ \A x \in Address : wallet'[x] = wallet[x] + (IF x = a THEN rest + own ELSE 0)
        /\ \A x \in Address : balanceOf'[x] = balanceOf[x] + (IF x = a THEN -rest ELSE 0)
        /\ \A y \in Address : stakeOf'[y] = 0 \/ stakeOf'[y] = stakeOf[y] + (IF y = a THEN -own ELSE 0)
    BY <1>1, <1>2, <2>2, <2>3, <2>4
  <2>7. (rest + own) + (-rest) + (-own) + 0 = 0 /\ treasurySupply' = treasurySupply + 0
    BY <1>1, <2>3, <2>4
  <2>8. Moves(a, a, rest + own, -rest, -own, 0)
    BY <2>4, <2>5, <2>6, <2>7 DEF Moves
  <2>9. QED
    BY <2>3, <2>8
<1>14. QED
  BY <1>3, <1>4, <1>5, <1>6, <1>7, <1>8, <1>9, <1>10, <1>11, <1>12, <1>13
  DEF ManagerNext, FundStep, LeaveStep

LEMMA TreasuryMoves ==
    ASSUME FundTypes, NEW a \in Address, NEW amount \in Nat, TreasuryWithdraw(a, amount)
    PROVE  FundTypes' /\ Moves(a, a, amount, 0, 0, -amount)
<1>1. /\ wallet' = [wallet EXCEPT ![a] = wallet[a] + amount]
      /\ totalSupply >= amount /\ held >= amount /\ treasurySupply >= amount
      /\ held' = held - amount /\ totalSupply' = totalSupply - amount
      /\ treasurySupply' = treasurySupply - amount
      /\ UNCHANGED <<balanceOf, delegatesOf, stakeOf>>
  BY DEF TreasuryWithdraw, PaidOut
<1>2. /\ wallet \in [Address -> Nat] /\ balanceOf \in [Address -> Nat]
      /\ delegatesOf \in [Address -> [Address -> Nat]] /\ stakeOf \in [Address -> Nat]
      /\ held \in Nat /\ totalSupply \in Nat /\ treasurySupply \in Nat
  BY DEF FundTypes
<1>3. FundTypes'
  BY <1>1, <1>2 DEF FundTypes
<1>4. /\ \A x \in Address : wallet'[x] = wallet[x] + (IF x = a THEN amount ELSE 0)
      /\ \A x \in Address : balanceOf'[x] = balanceOf[x] + (IF x = a THEN 0 ELSE 0)
      /\ \A y \in Address : stakeOf'[y] = stakeOf[y] + (IF y = a THEN 0 ELSE 0)
  BY <1>1, <1>2
<1>5. \A x, y \in Address :
         delegatesOf'[x][y] = delegatesOf[x][y] + (IF x = a /\ y = a THEN 0 ELSE 0)
  BY <1>1, <1>2
<1>6. /\ amount + 0 + 0 + (-amount) = 0
      /\ treasurySupply' = treasurySupply + (-amount)
  BY <1>1, <1>2
<1>7. QED
  BY <1>1, <1>3, <1>4, <1>5, <1>6 DEF Moves

(* What a move does to the sums of delegations.                            *)
DelegationsTo(n) == [a \in Address |-> delegatesOf[a][n]]

LEMMA SumsMove ==
    ASSUME FundTypes, FundTypes', NEW a \in Address, NEW n \in Address,
           NEW w \in Int, NEW b \in Int, NEW d \in Int, NEW t, Moves(a, n, w, b, d, t)
    PROVE  \A x \in Address :
             /\ DelegatedBy(x) \in Nat /\ DelegatedTo(x) \in Nat
             /\ DelegatedBy(x)' \in Nat /\ DelegatedTo(x)' \in Nat
             /\ DelegatedBy(x)' = DelegatedBy(x) + (IF x = a THEN d ELSE 0)
             /\ DelegatedTo(x)' = DelegatedTo(x) + (IF x = n THEN d ELSE 0)
<1>1. /\ delegatesOf \in [Address -> [Address -> Nat]]
      /\ delegatesOf' \in [Address -> [Address -> Nat]]
  BY DEF FundTypes
<1>2. \A x, y \in Address :
         /\ delegatesOf[x][y] \in Nat /\ delegatesOf'[x][y] \in Nat
         /\ delegatesOf'[x][y] = delegatesOf[x][y] + (IF x = a /\ y = n THEN d ELSE 0)
  BY <1>1 DEF Moves
<1>3. ASSUME NEW x \in Address
      PROVE  /\ DelegatedBy(x) \in Nat /\ DelegatedBy(x)' \in Nat
             /\ DelegatedBy(x)' = DelegatedBy(x) + (IF x = a THEN d ELSE 0)
  <2>1. PICK f, g : f = delegatesOf[x] /\ g = delegatesOf'[x]
    OBVIOUS
  <2>2. /\ f \in [Address -> Nat] /\ g \in [Address -> Nat]
        /\ f \in [Address -> Int] /\ g \in [Address -> Int]
    BY <1>1, <2>1
  <2>3. PICK e : e = IF x = a THEN d ELSE 0
    OBVIOUS
  <2>4. e \in Int /\ \A y \in Address : g[y] = f[y] + (IF y = n THEN e ELSE 0)
    BY <1>2, <2>1, <2>3
  <2>5. SumFunction(g) = SumFunction(f) + e
    <3>1. Shifted(f, g, Address, n, e)
      BY <2>2, <2>4, AccountsAssumption DEF Shifted
    <3>2. QED
      BY <3>1, SumShifted
  <2>6. SumFunction(f) \in Nat /\ SumFunction(g) \in Nat
    BY <2>2, SumIsNat, AccountsAssumption
  <2>7. QED
    BY <2>1, <2>3, <2>5, <2>6 DEF DelegatedBy
<1>4. ASSUME NEW x \in Address
      PROVE  /\ DelegatedTo(x) \in Nat /\ DelegatedTo(x)' \in Nat
             /\ DelegatedTo(x)' = DelegatedTo(x) + (IF x = n THEN d ELSE 0)
  <2>1. PICK f, g : f = DelegationsTo(x) /\ g = DelegationsTo(x)'
    OBVIOUS
  <2>2. \A y \in Address : f[y] = delegatesOf[y][x] /\ g[y] = delegatesOf'[y][x]
    BY <2>1 DEF DelegationsTo
  <2>3. /\ f \in [Address -> Nat] /\ g \in [Address -> Nat]
        /\ f \in [Address -> Int] /\ g \in [Address -> Int]
    <3>1. f = [y \in Address |-> f[y]] /\ g = [y \in Address |-> g[y]]
      BY <2>1 DEF DelegationsTo
    <3>2. \A y \in Address : f[y] \in Nat /\ g[y] \in Nat
      BY <1>2, <2>2
    <3>3. QED
      BY <3>1, <3>2
  <2>4. PICK e : e = IF x = n THEN d ELSE 0
    OBVIOUS
  <2>5. e \in Int /\ \A y \in Address : g[y] = f[y] + (IF y = a THEN e ELSE 0)
    <3>1. ASSUME NEW y \in Address PROVE g[y] = f[y] + (IF y = a THEN e ELSE 0)
      <4>1. /\ f[y] = delegatesOf[y][x] /\ g[y] = delegatesOf'[y][x] /\ f[y] \in Int
            /\ g[y] = f[y] + (IF y = a /\ x = n THEN d ELSE 0)
        BY <1>2, <2>2, <2>3
      <4>2. QED
        BY <2>4, <4>1
    <3>2. QED
      BY <2>4, <3>1
  <2>6. SumFunction(g) = SumFunction(f) + e
    <3>1. Shifted(f, g, Address, a, e)
      BY <2>3, <2>5, AccountsAssumption DEF Shifted
    <3>2. QED
      BY <3>1, SumShifted
  <2>7. SumFunction(f) \in Nat /\ SumFunction(g) \in Nat
    BY <2>3, SumIsNat, AccountsAssumption
  <2>8. DelegatedTo(x) = SumFunction(f) /\ DelegatedTo(x)' = SumFunction(g)
    <3>1. /\ DelegatedTo(x) = SumFunction(DelegationsTo(x))
          /\ DelegatedTo(x)' = SumFunction(DelegationsTo(x)')
      BY Zenon DEF DelegatedTo, DelegationsTo
    <3>2. QED
      BY <2>1, <3>1
  <2>9. QED
    BY <2>4, <2>6, <2>7, <2>8
<1>5. QED
  BY <1>3, <1>4

(* What a move does to the sums over all accounts.                         *)
DelegatedByEach == [a \in Address |-> DelegatedBy(a)]

LEMMA TotalsMove ==
    ASSUME FundTypes, FundTypes', NEW a \in Address, NEW n \in Address,
           NEW w \in Int, NEW b \in Int, NEW d \in Int, NEW t, Moves(a, n, w, b, d, t)
    PROVE  /\ SumFunction(wallet') = SumFunction(wallet) + w
           /\ SumFunction(balanceOf') = SumFunction(balanceOf) + b
           /\ SumFunction(DelegatedByEach') = SumFunction(DelegatedByEach) + d
<1>1. /\ Shifted(wallet, wallet', Address, a, w)
      /\ Shifted(balanceOf, balanceOf', Address, a, b)
  BY AccountsAssumption DEF Shifted, FundTypes, Moves
<1>2. PICK f, g : f = DelegatedByEach /\ g = DelegatedByEach'
  OBVIOUS
<1>3. \A x \in Address : /\ DelegatedBy(x) \in Int /\ DelegatedBy(x)' \in Int
                         /\ DelegatedBy(x)' = DelegatedBy(x) + (IF x = a THEN d ELSE 0)
  BY SumsMove
<1>4. /\ f = [x \in Address |-> DelegatedBy(x)]
      /\ g = [x \in Address |-> DelegatedBy(x)']
  BY <1>2 DEF DelegatedByEach
<1>5. Shifted(f, g, Address, a, d)
  BY <1>3, <1>4, AccountsAssumption DEF Shifted
<1>6. QED
  BY <1>1, <1>2, <1>5, SumShifted

(* The supply the contract counts is the tokens it holds: a transaction    *)
(* changes both alike.                                                     *)
THEOREM SupplyIsHeld == ManagerSpec => []SupplyHeld
<1>1. ManagerInit => SupplyHeld
  BY DEF ManagerInit, SupplyHeld
<1>2. SupplyHeld /\ FundTypes /\ FundTypes' /\ [ManagerNext]_managerVars => SupplyHeld'
  <2> SUFFICES ASSUME SupplyHeld, FundTypes, FundTypes', [ManagerNext]_managerVars PROVE SupplyHeld'
    OBVIOUS
  <2>1. CASE Idle
    BY <2>1 DEF Idle, SupplyHeld
  <2>2. ASSUME NEW a \in Address, NEW n \in Address, NEW w \in Int, NEW b \in Int, NEW d \in Int,
               Moves(a, n, w, b, d, 0)
        PROVE  SupplyHeld'
    BY <2>2 DEF Moves, SupplyHeld
  <2>3. QED
    BY <2>1, <2>2, FundSteps
<1>3. QED
  BY <1>1, <1>2, FundsTyped, PTL DEF ManagerSpec

(* What an account owns, has staked and has delegated stays together.      *)
THEOREM OwnTokensOnly == ManagerSpec => []NobodyPaysForAnother
<1>1. ManagerInit => NobodyPaysForAnother
  <2> SUFFICES ASSUME ManagerInit PROVE NobodyPaysForAnother
    OBVIOUS
  <2>1. SumFunction([n \in Address |-> 0]) = 0
    BY SumOfZeros, AccountsAssumption
  <2>2. \A a \in Address : /\ wallet[a] = InitialTokens[a] /\ balanceOf[a] = 0
                           /\ DelegatedBy(a) = 0 /\ InitialTokens[a] \in Nat
    BY <2>1, TokensAssumption DEF ManagerInit, DelegatedBy
  <2>3. QED
    BY <2>2 DEF ManagerInit, NobodyPaysForAnother
<1>2. NobodyPaysForAnother /\ FundTypes /\ FundTypes' /\ [ManagerNext]_managerVars => NobodyPaysForAnother'
  <2> SUFFICES ASSUME NobodyPaysForAnother, FundTypes, FundTypes', [ManagerNext]_managerVars
               PROVE  NobodyPaysForAnother'
    OBVIOUS
  <2>1. UNCHANGED treasurySupply
    BY FundSteps DEF Idle, Moves, FundTypes
  <2>2. CASE Idle
    BY <2>1, <2>2 DEF Idle, NobodyPaysForAnother, DelegatedBy
  <2>3. ASSUME NEW a \in Address, NEW n \in Address, NEW w \in Int, NEW b \in Int, NEW d \in Int,
               Moves(a, n, w, b, d, 0)
        PROVE  NobodyPaysForAnother'
    <3>1. ASSUME NEW x \in Address
          PROVE  (wallet[x] + balanceOf[x] + DelegatedBy(x))' = InitialTokens[x]
      <4>1. /\ DelegatedBy(x) \in Nat
            /\ DelegatedBy(x)' = DelegatedBy(x) + (IF x = a THEN d ELSE 0)
        BY <2>3, SumsMove
      <4>2. /\ wallet'[x] = wallet[x] + (IF x = a THEN w ELSE 0)
            /\ balanceOf'[x] = balanceOf[x] + (IF x = a THEN b ELSE 0)
            /\ w + b + d = 0
        BY <2>3 DEF Moves
      <4>3. wallet[x] \in Nat /\ balanceOf[x] \in Nat
        BY DEF FundTypes
      <4>4. wallet[x] + balanceOf[x] + DelegatedBy(x) = InitialTokens[x]
        BY DEF NobodyPaysForAnother
      <4>5. QED
        BY <4>1, <4>2, <4>3, <4>4
    <3>2. QED
      BY <2>1, <3>1 DEF NobodyPaysForAnother
  <2>4. QED
    BY <2>2, <2>3, FundSteps
<1>3. QED
  BY <1>1, <1>2, FundsTyped, PTL DEF ManagerSpec

(* An address stops being a node only with its stake gone, and is staked   *)
(* for only while it is a node.                                            *)
LEMMA StakeFollowsNode ==
    ASSUME FundTypes, ListTypes, [ManagerNext]_managerVars, NEW m \in Address,
           ~IsNode(m) => stakeOf[m] = 0
    PROVE  ~IsNode(m)' => stakeOf'[m] = 0
<1> USE DEF IsNode
<1>1. /\ stakeOf \in [Address -> Nat] /\ delegatesOf \in [Address -> [Address -> Nat]]
      /\ lastSeen \in [Address -> Nat] /\ block \in Nat \ {0}
  BY DEF FundTypes, ListTypes
<1>2. ASSUME NEW n \in Address, Upsert(n)
      PROVE  IsNode(m)' <=> IsNode(m) \/ m = n
  BY <1>1, <1>2 DEF Upsert, RegisterFirst, RegisterNext,
                    Refresh, Seen
<1>3. ASSUME NEW n \in Address, Remove(n), stakeOf' = [stakeOf EXCEPT ![n] = 0]
      PROVE  ~IsNode(m)' => stakeOf'[m] = 0
  BY <1>1, <1>3 DEF Remove
<1>4. ASSUME UNCHANGED lastSeen, UNCHANGED stakeOf
      PROVE  ~IsNode(m)' => stakeOf'[m] = 0
  BY <1>4
<1>5. ASSUME UNCHANGED lastSeen, NEW n \in Address, NEW v, IsNode(n),
             stakeOf' = [stakeOf EXCEPT ![n] = v]
      PROVE  ~IsNode(m)' => stakeOf'[m] = 0
  BY <1>1, <1>5
<1>6. CASE NodeStep
  <2>1. ASSUME NEW n \in Address, UpsertNode(n) \/ UpsertNodeAdmin(n)
        PROVE  ~IsNode(m)' => stakeOf'[m] = 0
    BY <1>2, <2>1 DEF UpsertNode, UpsertNodeAdmin, fundVars
  <2>2. ASSUME NEW n \in Address, RemoveNode(n) \/ KickNode(n)
        PROVE  ~IsNode(m)' => stakeOf'[m] = 0
    BY <1>3, <2>2 DEF RemoveNode, KickNode, StakeWithout
  <2>3. QED
    BY <1>6, <2>1, <2>2 DEF NodeStep
<1>7. CASE WhitelistStep \/ StreamStep \/ NextBlock \/ UNCHANGED managerVars
  <2>1. UNCHANGED lastSeen /\ UNCHANGED stakeOf
    BY <1>7 DEF WhitelistStep, WhitelistNode, SetRequiresWhitelist, StreamStep,
                CreateStream,
                DeleteStream, NextBlock, AdvanceBlock, managerVars, fundVars, registryVars
  <2>2. QED
    BY <1>4, <2>1
<1>8. ASSUME NEW a \in Address, NEW amount \in Amounts,
             Stake(a, amount) \/ Withdraw(a, amount)
      PROVE  ~IsNode(m)' => stakeOf'[m] = 0
  BY <1>4, <1>8 DEF Stake, Withdraw, registryVars
<1>9. ASSUME NEW a \in Address, NEW amount \in Amounts, Join(a, amount)
      PROVE  ~IsNode(m)' => stakeOf'[m] = 0
  <2>1. IsNode(m)' <=> IsNode(m) \/ m = a
    BY <1>2, <1>9 DEF Join
  <2>2. m # a => stakeOf'[m] = stakeOf[m]
    BY <1>1, <1>9 DEF Join, Delegated
  <2>3. QED
    BY <2>1, <2>2
<1>10. ASSUME NEW a \in Address, NEW amount \in Amounts, NEW n \in Address,
              \/ Delegate(a, amount, n) \/ StakeAndDelegate(a, amount, n)
              \/ Undelegate(a, amount, n) \/ UndelegateWithdraw(a, amount, n)
       PROVE  ~IsNode(m)' => stakeOf'[m] = 0
  BY <1>5, <1>10 DEF Delegate, StakeAndDelegate, Undelegate, UndelegateWithdraw, Delegated,
                     Undelegated, registryVars
<1>11. ASSUME NEW a \in Address, Leave(a)
       PROVE  ~IsNode(m)' => stakeOf'[m] = 0
  BY <1>3, <1>11 DEF Leave, StakeWithout
<1>12. QED
  BY <1>6, <1>7, <1>8, <1>9, <1>10, <1>11 DEF ManagerNext, FundStep, LeaveStep

(* The types of the list, from its refinement.                             *)
LEMMA ListSound == ManagerSpec => [](ListTypes /\ WellFormed)
<1>1. RegistrySpec => [](ListTypes /\ WellFormed)
  BY RegistryWellFormed
<1>2. QED
  BY <1>1, ImplementsRegistry, PTL

(* A stake stays backed: it changes with a delegation, or goes.            *)
LEMMA BackingMoves ==
    ASSUME FundTypes, FundTypes',
           NEW m \in Address, stakeOf[m] <= DelegatedTo(m),
           Idle \/ \E a, n \in Address, w, b, d, t \in Int : Moves(a, n, w, b, d, t)
    PROVE  stakeOf'[m] <= DelegatedTo(m)'
<1>1. stakeOf[m] <= DelegatedTo(m) /\ stakeOf[m] \in Nat /\ stakeOf'[m] \in Nat
  BY DEF FundTypes
<1>2. CASE Idle
  <2>1. UNCHANGED delegatesOf /\ (stakeOf'[m] = 0 \/ stakeOf'[m] = stakeOf[m])
    BY <1>2 DEF Idle
  <2>2. DelegatedTo(m)' = DelegatedTo(m)
    BY <2>1 DEF DelegatedTo
  <2>3. stakeOf'[m] <= stakeOf[m]
    BY <1>1, <2>1
  <2>4. DelegatedTo(m) \in Int
    <3>1. DelegationsTo(m) \in [Address -> Int]
      BY DEF DelegationsTo, FundTypes
    <3>2. DelegatedTo(m) = SumFunction(DelegationsTo(m))
      BY Zenon DEF DelegatedTo, DelegationsTo
    <3>3. QED
      BY <3>1, <3>2, SumIsInt, AccountsAssumption
  <2>5. QED
    BY <1>1, <2>2, <2>3, <2>4
<1>3. ASSUME NEW a \in Address, NEW n \in Address, NEW w \in Int, NEW b \in Int,
             NEW d \in Int, NEW t \in Int, Moves(a, n, w, b, d, t)
      PROVE  stakeOf'[m] <= DelegatedTo(m)'
  <2>1. /\ DelegatedTo(m) \in Nat /\ DelegatedTo(m)' \in Nat
        /\ DelegatedTo(m)' = DelegatedTo(m) + (IF m = n THEN d ELSE 0)
    BY <1>3, SumsMove
  <2>2. stakeOf'[m] = 0 \/ stakeOf'[m] = stakeOf[m] + (IF m = n THEN d ELSE 0)
    BY <1>3 DEF Moves
  <2>3. QED
    BY <1>1, <2>1, <2>2
<1>4. QED
  BY <1>2, <1>3

(* The stake of a node is made of tokens that are delegated to it now, and *)
(* what is no node has none.                                               *)
THEOREM StakesBacked == ManagerSpec => []StakeBacked
<1>1. ManagerInit => StakeBacked
  <2> SUFFICES ASSUME ManagerInit PROVE StakeBacked
    OBVIOUS
  <2>1. SumFunction([a \in Address |-> 0]) = 0
    BY SumOfZeros, AccountsAssumption
  <2>2. ASSUME NEW n \in Address PROVE DelegatedTo(n) = 0
    <3>1. [a \in Address |-> delegatesOf[a][n]] = [a \in Address |-> 0]
      BY DEF ManagerInit
    <3>2. QED
      BY <2>1, <3>1 DEF DelegatedTo
  <2>3. QED
    BY <2>2 DEF ManagerInit, StakeBacked
<1>2. StakeBacked /\ FundTypes /\ FundTypes' /\ ListTypes /\ [ManagerNext]_managerVars => StakeBacked'
  <2> SUFFICES ASSUME StakeBacked, FundTypes, FundTypes', ListTypes, [ManagerNext]_managerVars
               PROVE  StakeBacked'
    OBVIOUS
  <2>1. ASSUME NEW m \in Address PROVE ~IsNode(m)' => stakeOf'[m] = 0
    BY StakeFollowsNode DEF StakeBacked
  <2>2. ASSUME NEW m \in Address PROVE stakeOf'[m] <= DelegatedTo(m)'
    <3>1. stakeOf[m] <= DelegatedTo(m) /\ stakeOf[m] \in Nat /\ stakeOf'[m] \in Nat
      BY DEF StakeBacked, FundTypes
    <3>2. Idle \/ \E a, n \in Address, w, b, d, t \in Int : Moves(a, n, w, b, d, t)
      <4>1. 0 \in Int
        OBVIOUS
      <4>2. QED
        BY <4>1, FundSteps
    <3>3. QED
      BY <3>1, <3>2, BackingMoves
  <2>3. QED
    BY <2>1, <2>2 DEF StakeBacked
<1>3. QED
  BY <1>1, <1>2, FundsTyped, ListSound, PTL DEF ManagerSpec

-------------------------------------------------------------------------------
(* Rights.  createStream reads the list by a walk, which finds every node: *)
(* a node that is missed would never get the right it has the stake for.   *)
LEMMA NodesAreNodes ==
    ASSUME ListTypes, WellFormed
    PROVE  Nodes = {n \in Address : IsNode(n)}
<1>1. PICK s : Lists(s)
  BY DEF WellFormed, Lists
<1>2. NodeAddresses = s
  BY <1>1, NodeAddressesAreList DEF AddressesAreList
<1>3. Registered = {s[k] : k \in 1 .. totalNodes}
  BY <1>1 DEF Lists, Threads
<1>4. QED
  BY <1>2, <1>3 DEF Nodes, Registered

(* Rights are those of accounts.                                           *)
LEMMA RightsOfAccounts ==
    ASSUME canPublish \subseteq Stream \X Address, StreamInv,
           ListTypes, WellFormed, [ManagerNext]_managerVars
    PROVE  canPublish' \subseteq Stream \X Address
<1>1. StreamKeys \subseteq Stream
  BY DEF StreamInv, StreamKeys
<1>2. ASSUME NEW n \in Address, NEW v, canPublish' = AccessAfter(n, v)
      PROVE  canPublish' \subseteq Stream \X Address
  BY <1>1, <1>2 DEF AccessAfter
<1>3. CASE NodeStep \/ WhitelistStep \/ NextBlock \/ UNCHANGED managerVars
  BY <1>3 DEF NodeStep, UpsertNode, UpsertNodeAdmin, RemoveNode, KickNode, WhitelistStep,
              WhitelistNode, SetRequiresWhitelist, NextBlock, managerVars
<1>4. CASE StreamStep
  <2>1. Qualified \subseteq Address
    BY NodesAreNodes DEF Qualified
  <2>2. QED
    BY <1>4, <2>1 DEF StreamStep, CreateStream, DeleteStream
<1>5. ASSUME NEW a \in Address, NEW amount \in Amounts,
             \/ Stake(a, amount) \/ Withdraw(a, amount) \/ Join(a, amount)
      PROVE  canPublish' \subseteq Stream \X Address
  BY <1>2, <1>5 DEF Stake, Withdraw, Join, Delegated
<1>6. ASSUME NEW a \in Address, NEW amount \in Amounts, NEW n \in Address,
             \/ Delegate(a, amount, n) \/ StakeAndDelegate(a, amount, n)
             \/ Undelegate(a, amount, n) \/ UndelegateWithdraw(a, amount, n)
      PROVE  canPublish' \subseteq Stream \X Address
  BY <1>2, <1>6 DEF Delegate, StakeAndDelegate, Undelegate, UndelegateWithdraw, Delegated,
                    Undelegated
<1>7. ASSUME NEW a \in Address, Leave(a) PROVE canPublish' \subseteq Stream \X Address
  BY <1>2, <1>7 DEF Leave, Undelegated
<1>8. QED
  BY <1>3, <1>4, <1>5, <1>6, <1>7 DEF ManagerNext, FundStep, LeaveStep

RightsInv == /\ canPublish \subseteq Stream \X Address
             /\ StakedMayPublish

LEMMA AccessKeepsRights ==
    ASSUME StreamInv, RightsInv, FundTypes, NEW n \in Address, NEW v, UNCHANGED streamVars,
           canPublish' = AccessAfter(n, v), v >= StakeRequired \/ ~(stakeOf'[n] >= StakeRequired),
           \A m \in Address : m # n => stakeOf'[m] = stakeOf[m]
    PROVE  RightsInv'
<1>1. StreamKeys' = StreamKeys /\ StreamKeys \subseteq Stream
  BY DEF streamVars, StreamKeys, StreamInv
<1>2. canPublish' \subseteq Stream \X Address
  BY <1>1 DEF AccessAfter, RightsInv
<1>3. ASSUME NEW m \in Address, stakeOf'[m] >= StakeRequired
      PROVE  StreamKeys \X {m} \subseteq canPublish'
  <2>1. CASE m = n
    BY <1>3, <2>1 DEF AccessAfter
  <2>2. CASE m # n
    <3>1. StreamKeys \X {m} \subseteq canPublish
      BY <1>3, <2>2 DEF RightsInv, StakedMayPublish
    <3>2. canPublish \ (StreamKeys \X {n}) \subseteq canPublish'
      BY DEF AccessAfter
    <3>3. QED
      BY <2>2, <3>1, <3>2
  <2>3. QED
    BY <2>1, <2>2
<1>4. QED
  BY <1>1, <1>2, <1>3 DEF RightsInv, StakedMayPublish

LEMMA CreateKeepsRights ==
    ASSUME StreamInv, RightsInv, FundTypes, StakeBacked, ListTypes, WellFormed,
           NEW key \in Stream, CreateStream(key)
    PROVE  RightsInv'
<1>1. StreamKeys' = StreamKeys \cup {key}
  <2>1. PICK len : len = Len(streams)
    OBVIOUS
  <2>2. /\ len \in Nat /\ Len(streams') = len + 1 /\ streams'[len + 1] = key
        /\ \A i \in 1 .. len : streams'[i] = streams[i]
    BY <2>1 DEF StreamInv, CreateStream
  <2>3. QED
    BY <2>1, <2>2 DEF StreamKeys
<1>2. /\ canPublish' = canPublish \cup ({key} \X Qualified) /\ UNCHANGED stakeOf
  BY DEF CreateStream, fundVars
<1>3. Qualified = {n \in Address : IsNode(n) /\ stakeOf[n] >= StakeRequired}
  BY NodesAreNodes DEF Qualified
<1>4. ASSUME NEW m \in Address, stakeOf[m] >= StakeRequired PROVE m \in Qualified
  <2>1. stakeOf[m] # 0
    BY <1>4, StakeAssumption DEF FundTypes
  <2>2. QED
    BY <1>3, <1>4, <2>1 DEF StakeBacked
<1>5. canPublish' \subseteq Stream \X Address
  BY <1>2, <1>3 DEF RightsInv
<1>6. ASSUME NEW m \in Address, stakeOf'[m] >= StakeRequired
      PROVE  (StreamKeys \cup {key}) \X {m} \subseteq canPublish'
  <2>1. StreamKeys \X {m} \subseteq canPublish /\ m \in Qualified
    BY <1>2, <1>4, <1>6 DEF RightsInv, StakedMayPublish
  <2>2. QED
    BY <1>2, <2>1
<1>7. QED
  BY <1>1, <1>5, <1>6 DEF RightsInv, StakedMayPublish

LEMMA DeleteKeepsRights ==
    ASSUME StreamInv, StreamInv', RightsInv, NEW key \in Stream, DeleteStream(key)
    PROVE  RightsInv'
<1>1. StreamKeys = DOMAIN streamIndex /\ StreamKeys' = DOMAIN streamIndex'
  BY DEF StreamInv, StreamsIndexed
<1>2. DOMAIN streamIndex' = DOMAIN streamIndex \ {key}
  BY DEF DeleteStream
<1>3. canPublish' = {r \in canPublish : r[1] # key} /\ UNCHANGED stakeOf
  BY DEF DeleteStream, fundVars
<1>4. ASSUME NEW m \in Address, stakeOf'[m] >= StakeRequired
      PROVE  (StreamKeys \ {key}) \X {m} \subseteq canPublish'
  <2>1. StreamKeys \X {m} \subseteq canPublish
    BY <1>3, <1>4 DEF RightsInv, StakedMayPublish
  <2>2. QED
    BY <1>3, <2>1
<1>5. QED
  BY <1>1, <1>2, <1>3, <1>4 DEF RightsInv, StakedMayPublish

LEMMA RightsTyped == ManagerSpec => []RightsInv
<1>1. ManagerInit => RightsInv
  BY DEF ManagerInit, RightsInv, StakedMayPublish, StreamKeys
<1>2. /\ RightsInv /\ StreamInv /\ StreamInv' /\ FundTypes /\ FundTypes' /\ StakeBacked
      /\ ListTypes /\ WellFormed /\ [ManagerNext]_managerVars
      => RightsInv'
  <2> SUFFICES ASSUME RightsInv, StreamInv, StreamInv', FundTypes, FundTypes', StakeBacked,
                      ListTypes, WellFormed, [ManagerNext]_managerVars
               PROVE  RightsInv'
    OBVIOUS
  <2>1. /\ stakeOf \in [Address -> Nat] /\ delegatesOf \in [Address -> [Address -> Nat]]
        /\ stakeOf' \in [Address -> Nat] /\ StakeRequired \in Nat \ {0}
    BY StakeAssumption DEF FundTypes
  <2>2. ASSUME UNCHANGED <<streamVars, canPublish>>,
               \A m \in Address : stakeOf'[m] = stakeOf[m] \/ stakeOf'[m] = 0
        PROVE  RightsInv'
    <3>1. UNCHANGED <<StreamKeys, canPublish>>
      BY <2>2 DEF streamVars, StreamKeys
    <3>2. \A m \in Address : stakeOf'[m] >= StakeRequired => stakeOf[m] >= StakeRequired
      BY <2>1, <2>2
    <3>3. QED
      BY <3>1, <3>2 DEF RightsInv, StakedMayPublish
  <2>3. CASE NodeStep
    <3>1. /\ UNCHANGED <<streamVars, canPublish>>
          /\ UNCHANGED stakeOf \/ \E n \in Address : stakeOf' = [stakeOf EXCEPT ![n] = 0]
      BY <2>3 DEF NodeStep, UpsertNode, UpsertNodeAdmin, RemoveNode, KickNode,
                  StakeWithout, fundVars
    <3>2. \A m \in Address : stakeOf'[m] = stakeOf[m] \/ stakeOf'[m] = 0
      BY <2>1, <3>1
    <3>3. QED
      BY <2>2, <3>1, <3>2
  <2>4. CASE WhitelistStep \/ NextBlock \/ UNCHANGED managerVars
    BY <2>2, <2>4 DEF WhitelistStep, WhitelistNode, SetRequiresWhitelist, NextBlock, managerVars,
                      fundVars
  <2>5. CASE StreamStep
    BY <2>5, CreateKeepsRights, DeleteKeepsRights DEF StreamStep
  <2>6. ASSUME NEW a \in Address, NEW amount \in Amounts, Stake(a, amount) \/ Withdraw(a, amount)
        PROVE  RightsInv'
    BY <2>2, <2>6 DEF Stake, Withdraw
  <2>7. ASSUME NEW a \in Address, NEW n \in Address, NEW amount \in Amounts,
               Delegated(a, amount, n), UNCHANGED streamVars
        PROVE  RightsInv'
    <3>1. PICK v : v = stakeOf[n] + amount
      OBVIOUS
    <3>2. /\ canPublish' = AccessAfter(n, v) /\ stakeOf' = [stakeOf EXCEPT ![n] = v]
      BY <2>7, <3>1 DEF Delegated
    <3>3. stakeOf'[n] = v /\ v \in Nat /\ \A m \in Address : m # n => stakeOf'[m] = stakeOf[m]
      BY <2>1, <3>2
    <3>4. v >= StakeRequired \/ ~(stakeOf'[n] >= StakeRequired)
      BY <2>1, <3>3
    <3>5. QED
      BY <2>7, <3>2, <3>3, <3>4, AccessKeepsRights
  <2>8. ASSUME NEW a \in Address, NEW n \in Address, NEW amount \in Nat,
               Undelegated(a, amount, n), UNCHANGED streamVars,
               \/ stakeOf' = [stakeOf EXCEPT ![n] = stakeOf[n] - amount]
               \/ stakeOf' = [stakeOf EXCEPT ![n] = 0]
        PROVE  RightsInv'
    <3>1. PICK v : v = stakeOf[n] - amount
      OBVIOUS
    <3>2. canPublish' = AccessAfter(n, v)
      BY <2>8, <3>1 DEF Undelegated
    <3>3. /\ stakeOf'[n] = v \/ stakeOf'[n] = 0
          /\ v \in Int /\ \A m \in Address : m # n => stakeOf'[m] = stakeOf[m]
      BY <2>1, <2>8, <3>1
    <3>4. v >= StakeRequired \/ ~(stakeOf'[n] >= StakeRequired)
      BY <2>1, <3>3
    <3>5. QED
      BY <2>8, <3>2, <3>3, <3>4, AccessKeepsRights
  <2>9. ASSUME NEW a \in Address, NEW amount \in Amounts, Join(a, amount)
        PROVE  RightsInv'
    BY <2>7, <2>9 DEF Join
  <2>10. ASSUME NEW a \in Address, NEW amount \in Amounts, NEW n \in Address,
                Delegate(a, amount, n) \/ StakeAndDelegate(a, amount, n)
         PROVE  RightsInv'
    BY <2>7, <2>10 DEF Delegate, StakeAndDelegate
  <2>11. ASSUME NEW a \in Address, NEW amount \in Amounts, NEW n \in Address,
                Undelegate(a, amount, n) \/ UndelegateWithdraw(a, amount, n)
         PROVE  RightsInv'
    <3>1. amount \in Nat
      BY DEF Amounts
    <3>2. QED
      BY <2>8, <2>11, <3>1 DEF Undelegate, UndelegateWithdraw
  <2>12. ASSUME NEW a \in Address, Leave(a) PROVE RightsInv'
    <3>1. delegatesOf[a][a] \in Nat
      BY <2>1
    <3>2. QED
      BY <2>8, <2>12, <3>1 DEF Leave, StakeWithout
  <2>13. QED
    BY <2>3, <2>4, <2>5, <2>6, <2>9, <2>10, <2>11, <2>12 DEF ManagerNext, FundStep, LeaveStep
<1>3. QED
  BY <1>1, <1>2, FundsTyped, StreamsTyped, StakesBacked, ListSound, PTL DEF ManagerSpec

(* Whoever has the required stake may publish on every system stream,      *)
(* whether the stake came first or the stream.                             *)
THEOREM RightsFollowStake == ManagerSpec => []StakedMayPublish
<1>1. RightsInv => StakedMayPublish
  BY DEF RightsInv
<1>2. QED
  BY <1>1, RightsTyped, PTL

(* The verdicts on the whitelist.                                          *)
WhitelistInv == /\ whitelist \in [Address -> {"None", "Approved", "Rejected"}]
                /\ requiresWhitelist \in BOOLEAN

LEMMA WhitelistKept == ASSUME WhitelistInv, [ManagerNext]_managerVars PROVE WhitelistInv'
<1>1. CASE UNCHANGED accessVars
  BY <1>1 DEF WhitelistInv, accessVars
<1>2. ASSUME NEW n \in Address, NEW verdict \in {"Approved", "Rejected"},
             whitelist' = [whitelist EXCEPT ![n] = verdict], UNCHANGED requiresWhitelist
      PROVE  WhitelistInv'
  BY <1>2 DEF WhitelistInv
<1>3. CASE NodeStep
  BY <1>1, <1>2, <1>3 DEF NodeStep, UpsertNode, UpsertNodeAdmin, RemoveNode, KickNode
<1>4. CASE WhitelistStep
  <2>1. ASSUME NEW value \in BOOLEAN, SetRequiresWhitelist(value) PROVE WhitelistInv'
    BY <2>1 DEF SetRequiresWhitelist, WhitelistInv
  <2>2. QED
    BY <1>2, <1>4, <2>1 DEF WhitelistStep, WhitelistNode
<1>5. CASE StreamStep \/ LeaveStep \/ NextBlock \/ UNCHANGED managerVars
  BY <1>1, <1>5 DEF StreamStep, CreateStream, DeleteStream, LeaveStep, Leave, NextBlock,
                    managerVars
<1>6. CASE FundStep
  BY <1>1, <1>6 DEF FundStep, Stake, Withdraw, Join, Delegate, Undelegate, StakeAndDelegate,
                    UndelegateWithdraw
<1>7. QED
  BY <1>3, <1>4, <1>5, <1>6 DEF ManagerNext

LEMMA WhitelistTyped == ManagerSpec => []WhitelistInv
<1>1. ManagerInit => WhitelistInv
  BY DEF ManagerInit, WhitelistInv
<1>2. QED
  BY <1>1, WhitelistKept, PTL DEF ManagerSpec

(* Tokens stay with who brought them, stakes are backed by delegations and *)
(* give the right to publish, through any order of transactions.           *)
THEOREM StakesAlwaysSound == ManagerSpec => []StakesSound
<1>1. FundTypes /\ StreamInv /\ RightsInv /\ WhitelistInv => ManagerTypes
  <2>1. StreamInv => streams \in Seq(Stream) /\ StreamKeys \subseteq Stream
    BY DEF StreamInv, StreamKeys
  <2>2. QED
    BY <2>1 DEF FundTypes, StreamInv, StreamsIndexed, RightsInv, WhitelistInv, ManagerTypes
<1>2. ManagerTypes /\ NobodyPaysForAnother /\ StakeBacked /\ StakedMayPublish => StakesSound
  BY DEF StakesSound
<1>3. QED
  BY <1>1, <1>2, FundsTyped, StreamsTyped, RightsTyped, WhitelistTyped, OwnTokensOnly,
     StakesBacked, RightsFollowStake, PTL

-------------------------------------------------------------------------------
(* Each module has sums of its own; they are the same.                     *)
LEMMA Sums ==
    ASSUME NEW f
    PROVE  /\ Stores!SumFunction(f) = SumFunction(f)
           /\ Queries!SumFunction(f) = SumFunction(f)
           /\ Stored!SumFunction(f) = SumFunction(f)
BY DEF SumFunction, SumFunctionOnSet, FoldFunctionOnSet, MapThenFoldSet,
       Stores!SumFunction, Stores!SumFunctionOnSet, Stores!FoldFunctionOnSet,
       Stores!MapThenFoldSet,
       Queries!SumFunction, Queries!SumFunctionOnSet, Queries!FoldFunctionOnSet,
       Queries!MapThenFoldSet,
       Stored!SumFunction, Stored!SumFunctionOnSet, Stored!FoldFunctionOnSet,
       Stored!MapThenFoldSet

(* So do finite sets; and hence the assumptions of the store manager.      *)
LEMMA Assumed == Stored!IsFiniteSet(Address) /\ Stored!IsFiniteSet(DataStream)
BY AccountsAssumption, StreamsAssumption DEF IsFiniteSet, Stored!IsFiniteSet

-------------------------------------------------------------------------------
(* What the node manager keeps of its own.                                 *)
NodeInv == /\ FundTypes /\ StreamInv /\ WhitelistInv
           /\ canPublish \subseteq Stream \X Address
           /\ ListTypes /\ WellFormed

LEMMA NodeStarts == ASSUME ManagerInit PROVE NodeInv
<1>1. ListTypes /\ WellFormed
  BY ListStarts
<1>2. FundTypes /\ WhitelistInv /\ canPublish \subseteq Stream \X Address
  BY TokensAssumption DEF ManagerInit, FundTypes, WhitelistInv
<1>3. StreamInv
  BY DEF ManagerInit, StreamInv, StreamsIndexed, StreamKeys
<1>4. QED
  BY <1>1, <1>2, <1>3 DEF NodeInv

LEMMA NodeKept == ASSUME NodeInv, ManagerNext PROVE NodeInv'
<1>1. FundTypes' /\ StreamInv' /\ WhitelistInv'
  BY FundTypesKept, StreamsKept, WhitelistKept DEF NodeInv
<1>2. canPublish' \subseteq Stream \X Address
  BY RightsOfAccounts DEF NodeInv
<1>3. ListTypes' /\ WellFormed'
  BY ListKept DEF NodeInv
<1>4. QED
  BY <1>1, <1>2, <1>3 DEF NodeInv

(* What is not about funds.                                                *)
LEMMA RestKept ==
    ASSUME NodeInv, FundTypes', canPublish' \subseteq Stream \X Address,
           UNCHANGED <<registryVars, accessVars, streamVars>>,
           \A r \in canPublish' : r \in canPublish \/ r[1] \in StreamKeys
    PROVE  NodeInv'
<1>1. ListTypes' /\ WellFormed'
  BY ListStays DEF NodeInv
<1>2. WhitelistInv'
  BY DEF NodeInv, WhitelistInv, accessVars
<1>3. StreamInv'
  BY DEF NodeInv, StreamInv, StreamsIndexed, StreamKeys, streamVars
<1>4. QED
  BY <1>1, <1>2, <1>3 DEF NodeInv

-------------------------------------------------------------------------------
(* A transaction of the node manager pays w tokens out to the wallets: it  *)
(* holds, counts and owes w fewer.                                         *)
Backed(n) == stakeOf[n] <= DelegatedTo(n)

Pays(w) == /\ SumFunction(wallet') = SumFunction(wallet) + w
           /\ held' = held - w
           /\ totalSupply' = totalSupply - w
           /\ Owed' = Owed - w
           /\ \A n \in Address : Backed(n) => Backed(n)'

LEMMA SumsTyped ==
    ASSUME FundTypes
    PROVE  /\ SumFunction(wallet) \in Nat
           /\ SumFunction(balanceOf) \in Nat
           /\ \A a \in Address : DelegatedBy(a) \in Nat /\ DelegatedTo(a) \in Nat
           /\ SumFunction([a \in Address |-> DelegatedBy(a)]) \in Nat
<1>1. /\ wallet \in [Address -> Nat] /\ balanceOf \in [Address -> Nat]
      /\ delegatesOf \in [Address -> [Address -> Nat]]
  BY DEF FundTypes
<1>2. SumFunction(wallet) \in Nat /\ SumFunction(balanceOf) \in Nat
  BY <1>1, SumIsNat, AccountsAssumption
<1>3. ASSUME NEW a \in Address PROVE DelegatedBy(a) \in Nat /\ DelegatedTo(a) \in Nat
  <2>1. PICK f, g : f = delegatesOf[a] /\ g = [x \in Address |-> delegatesOf[x][a]]
    OBVIOUS
  <2>2. f \in [Address -> Nat] /\ g \in [Address -> Nat]
    BY <1>1, <2>1
  <2>3. SumFunction(f) \in Nat /\ SumFunction(g) \in Nat
    BY <2>2, SumIsNat, AccountsAssumption
  <2>4. QED
    BY <2>1, <2>3 DEF DelegatedBy, DelegatedTo
<1>4. [a \in Address |-> DelegatedBy(a)] \in [Address -> Nat]
  BY <1>3
<1>5. SumFunction([a \in Address |-> DelegatedBy(a)]) \in Nat
  BY <1>4, SumIsNat, AccountsAssumption
<1>6. QED
  BY <1>2, <1>3, <1>5

LEMMA MovesPay ==
    ASSUME FundTypes, FundTypes', NEW a \in Address, NEW n \in Address,
           NEW w \in Int, NEW b \in Int, NEW d \in Int, NEW t \in Int,
           Moves(a, n, w, b, d, t)
    PROVE  Pays(w)
<1>1. /\ w + b + d + t = 0 /\ held' = held - w /\ totalSupply' = totalSupply - w
      /\ treasurySupply' = treasurySupply + t
  BY DEF Moves
<1>2. /\ SumFunction(wallet') = SumFunction(wallet) + w
      /\ SumFunction(balanceOf') = SumFunction(balanceOf) + b
      /\ SumFunction(DelegatedByEach') = SumFunction(DelegatedByEach) + d
  BY TotalsMove
<1>3. PICK f, g : f = DelegatedByEach /\ g = DelegatedByEach'
  OBVIOUS
<1>4. Owed = SumFunction(balanceOf) + SumFunction(f) + treasurySupply
  BY <1>3 DEF Owed, DelegatedByEach
<1>5. Owed' = SumFunction(balanceOf') + SumFunction(g) + treasurySupply'
  BY <1>3 DEF Owed, DelegatedByEach
<1>6. SumFunction(balanceOf) \in Nat /\ SumFunction(f) \in Nat /\ treasurySupply \in Nat
  BY <1>3, SumsTyped DEF FundTypes, DelegatedByEach
<1>7. Owed' = Owed - w
  BY <1>1, <1>2, <1>3, <1>4, <1>5, <1>6
<1>8. \A m \in Address : Backed(m) => Backed(m)'
  BY BackingMoves DEF Backed
<1>9. QED
  BY <1>1, <1>2, <1>7, <1>8 DEF Pays

LEMMA IdlePays ==
    ASSUME FundTypes, FundTypes', Idle
    PROVE  Pays(0)
<1>1. UNCHANGED <<wallet, held, totalSupply, balanceOf, delegatesOf, treasurySupply>>
  BY DEF Idle
<1>2. held \in Nat /\ totalSupply \in Nat /\ treasurySupply \in Nat
  BY DEF FundTypes
<1>3. \A a \in Address : DelegatedBy(a)' = DelegatedBy(a)
  BY <1>1 DEF DelegatedBy
<1>4. PICK f : f = [a \in Address |-> DelegatedBy(a)]
  OBVIOUS
<1>5. f = [a \in Address |-> DelegatedBy(a)']
  BY <1>3, <1>4
<1>6. Owed' = Owed
  BY <1>1, <1>4, <1>5 DEF Owed
<1>7. SumFunction(wallet) \in Nat /\ SumFunction(balanceOf) \in Nat /\ SumFunction(f) \in Nat
  BY <1>4, SumsTyped
<1>8. Owed \in Int
  BY <1>2, <1>4, <1>7 DEF Owed
<1>9. \A m \in Address : Backed(m) => Backed(m)'
  BY BackingMoves DEF Backed
<1>10. QED
  BY <1>1, <1>2, <1>6, <1>7, <1>8, <1>9 DEF Pays

LEMMA ManagerPays ==
    ASSUME NodeInv, NodeInv', ManagerNext
    PROVE  \E w \in Int : Pays(w)
<1>1. FundTypes /\ FundTypes'
  BY DEF NodeInv
<1>2. Idle \/ \E a, n \in Address, w, b, d \in Int : Moves(a, n, w, b, d, 0)
  BY <1>1, FundSteps
<1>3. 0 \in Int
  OBVIOUS
<1>4. QED
  BY <1>1, <1>2, <1>3, IdlePays, MovesPay

LEMMA TreasuryPays ==
    ASSUME NodeInv, NEW amount \in Amounts, TreasuryWithdraw(Owner, amount)
    PROVE  NodeInv' /\ \E w \in Int : Pays(w)
<1>1. amount \in Nat /\ -amount \in Int /\ 0 \in Int /\ amount \in Int
  BY DEF Amounts
<1>2. FundTypes' /\ Moves(Owner, Owner, amount, 0, 0, -amount)
  BY <1>1, OwnerAssumption, TreasuryMoves DEF NodeInv
<1>3. Pays(amount)
  BY <1>1, <1>2, OwnerAssumption, MovesPay DEF NodeInv
<1>4. NodeInv'
  <2>1. UNCHANGED <<registryVars, accessVars, streamVars, canPublish>>
    BY DEF TreasuryWithdraw
  <2>2. QED
    BY <1>2, <2>1, RestKept DEF NodeInv
<1>5. QED
  BY <1>1, <1>3, <1>4

-------------------------------------------------------------------------------
(* The captures of a report.                                               *)
Entries(S) == Seq([id : S, capture : Nat, bytes : Nat])

LEMMA EntriesTyped ==
    ASSUME NEW S, NEW entries \in Entries(S)
    PROVE  /\ Len(entries) \in Nat
           /\ \A i \in 1 .. Len(entries) :
                 /\ i \in 0 .. Len(entries) /\ i - 1 \in 0 .. Len(entries) /\ i # 0
                 /\ entries[i].id \in S /\ entries[i].capture \in Nat /\ entries[i].bytes \in Nat
<1>1. entries \in Seq([id : S, capture : Nat, bytes : Nat])
  BY DEF Entries
<1>2. PICK T : T = [id : S, capture : Nat, bytes : Nat]
  OBVIOUS
<1>3. Len(entries) \in Nat /\ \A i \in 1 .. Len(entries) : entries[i] \in T
  <2>1. entries \in Seq(T)
    BY <1>1, <1>2
  <2>2. QED
    BY <2>1
<1>4. \A e \in T : e.id \in S /\ e.capture \in Nat /\ e.bytes \in Nat
  BY <1>2
<1>5. QED
  BY <1>3, <1>4

(* The fees are those of the entries that are billed, one after another.   *)
Billing(entries, i) == Prefix(FeesOf(entries), i)

LEMMA BillingSteps ==
    ASSUME NEW S, NEW entries \in Entries(S)
    PROVE  /\ Billing(entries, 0) = 0
           /\ Billing(entries, Len(entries)) = SumFunction(FeesOf(entries))
           /\ \A i \in 0 .. Len(entries) : Billing(entries, i) \in Int
           /\ \A i \in 1 .. Len(entries) :
                 Billing(entries, i) = Billing(entries, i - 1)
                                         + (IF Billed(entries[i]) THEN entries[i].capture ELSE 0)
           /\ SumFunction(FeesOf(entries)) \in Nat
<1>1. PICK n, f : n = Len(entries) /\ f = FeesOf(entries)
  OBVIOUS
<1>2. /\ n \in Nat /\ f \in [1 .. n -> Nat] /\ f \in [1 .. n -> Int]
      /\ \A i \in 1 .. n : f[i] = IF Billed(entries[i]) THEN entries[i].capture ELSE 0
  <2>1. \A i \in 1 .. Len(entries) : (IF Billed(entries[i]) THEN entries[i].capture ELSE 0) \in Nat
    BY EntriesTyped
  <2>2. f \in [1 .. n -> Nat] /\ n \in Nat
    BY <1>1, <2>1, EntriesTyped DEF FeesOf
  <2>3. QED
    BY <1>1, <2>2 DEF FeesOf
<1>3. /\ Prefix(f, 0) = 0 /\ Prefix(f, n) = SumFunction(f)
      /\ \A i \in 0 .. n : Prefix(f, i) \in Int
      /\ \A i \in 1 .. n : Prefix(f, i) = Prefix(f, i - 1) + f[i]
  BY <1>2, PrefixSteps
<1>4. SumFunction(f) \in Nat
  <2>1. IsFiniteSet(1 .. n)
    BY <1>2, FS_Interval
  <2>2. QED
    BY <1>2, <2>1, SumIsNat
<1>5. QED
  BY <1>1, <1>2, <1>3, <1>4 DEF Billing

(* The capture of the store manager is that of StoreManagerProofs.         *)
LEMMA StoresStored ==
    ASSUME NEW st, NEW s, NEW amount
    PROVE  /\ Stores!CanCapture(st, s, amount) <=> Stored!CanCapture(st, s, amount)
           /\ Stores!Captured(st, s, amount) = Stored!Captured(st, s, amount)
           /\ Stores!Taken(st, s, amount) = Stored!Taken(st, s, amount)
<1>1. Stores!AccountsAfter(st, s, amount) = Stored!AccountsAfter(st, s, amount)
  BY DEF Stores!AccountsAfter, Stores!Accounts, Stores!Emptied, Stores!Charged, Stores!Charge,
         Stores!Minus, Stores!ListAfter, Stores!Cardinality,
         Stored!AccountsAfter, Stored!Accounts, Stored!Emptied, Stored!Charged, Stored!Charge,
         Stored!Minus, Stored!ListAfter, Stored!Cardinality
<1>2. QED
  BY <1>1 DEF Stores!CanCapture, Stored!CanCapture, Stores!Captured, Stored!Captured,
              Stores!Taken, Stored!Taken, Stores!Minus, Stored!Minus, Stores!SupplyAfter,
              Stored!SupplyAfter

(* The captures of a loop take no more than what is billed.                *)
LEMMA LoopTakes ==
    ASSUME NEW S, NEW entries \in Entries(S), NEW after,
           \A i \in 0 .. Len(entries) : after[i].held \in Nat,
           \A i \in 1 .. Len(entries) :
              /\ after[i].held <= after[i - 1].held
              /\ after[i - 1].held <= after[i].held + (IF Billed(entries[i]) THEN entries[i].capture
                                                                           ELSE 0)
    PROVE  /\ after[Len(entries)].held <= after[0].held
           /\ after[0].held <= after[Len(entries)].held + SumFunction(FeesOf(entries))
<1>1. PICK n : n = Len(entries)
  OBVIOUS
<1>2. PICK h : h = [i \in 0 .. n |-> after[i].held]
  OBVIOUS
<1>3. PICK fee : fee = [i \in 1 .. n |-> IF Billed(entries[i]) THEN entries[i].capture ELSE 0]
  OBVIOUS
<1>4. PICK b : b = [i \in 0 .. n |-> Billing(entries, i)]
  OBVIOUS
<1>5. /\ n \in Nat /\ h \in [0 .. n -> Nat] /\ fee \in [1 .. n -> Nat]
      /\ b \in [0 .. n -> Int]
  <2>1. n \in Nat /\ b \in [0 .. n -> Int]
    BY <1>1, <1>4, BillingSteps, EntriesTyped
  <2>2. h \in [0 .. n -> Nat]
    BY <1>1, <1>2
  <2>3. fee \in [1 .. n -> Nat]
    BY <1>1, <1>3, EntriesTyped
  <2>4. QED
    BY <2>1, <2>2, <2>3
<1>6. b[0] = 0 /\ \A i \in 1 .. n : b[i] = b[i - 1] + fee[i]
  <2>1. \A i \in 1 .. n : i \in 0 .. n /\ i - 1 \in 0 .. n
    BY <1>5
  <2>2. 0 \in 0 .. n
    BY <1>5
  <2>3. QED
    BY <1>1, <1>3, <1>4, <2>1, <2>2, BillingSteps
<1>7. \A i \in 1 .. n : h[i] <= h[i - 1] /\ h[i - 1] <= h[i] + fee[i]
  <2>1. \A i \in 1 .. n : i \in 0 .. n /\ i - 1 \in 0 .. n
    BY <1>5
  <2>2. QED
    BY <1>1, <1>2, <1>3, <2>1
<1>8. \A i \in 0 .. n : h[i] <= h[0] /\ h[0] <= h[i] + b[i]
  <2> DEFINE claim(i) == h[i] <= h[0] /\ h[0] <= h[i] + b[i]
  <2>1. PICK k : k = [i \in 0 .. n |-> claim(i)]
    OBVIOUS
  <2>2. k[0] \in {TRUE}
    <3>1. 0 \in 0 .. n /\ h[0] \in Nat
      BY <1>5
    <3>2. claim(0)
      BY <1>6, <3>1
    <3>3. QED
      BY <2>1, <3>1, <3>2
  <2>3. ASSUME NEW i \in 1 .. n, k[i - 1] \in {TRUE} PROVE k[i] \in {TRUE}
    <3>1. i \in 0 .. n /\ i - 1 \in 0 .. n /\ 0 \in 0 .. n
      BY <1>5
    <3>2. claim(i - 1)
      BY <2>1, <2>3, <3>1
    <3>3. /\ h[i] \in Nat /\ h[i - 1] \in Nat /\ h[0] \in Nat /\ fee[i] \in Nat
          /\ b[i] \in Int /\ b[i - 1] \in Int
      BY <1>5, <3>1
    <3>4. claim(i)
      BY ONLY <3>2, <3>3, <1>6, <1>7, <2>3
    <3>5. QED
      BY <2>1, <3>1, <3>4
  <2>4. \A i \in 0 .. n : k[i] \in {TRUE}
    <3> HIDE DEF claim
    <3>1. PICK D : D = {TRUE}
      OBVIOUS
    <3>2. n \in Nat /\ k[0] \in D /\ \A i \in 1 .. n : k[i - 1] \in D => k[i] \in D
      BY <1>5, <2>2, <2>3, <3>1
    <3>3. \A i \in 0 .. n : k[i] \in D
      BY ONLY <3>2, Stays
    <3>4. QED
      BY <3>1, <3>3
  <2>5. QED
    BY <2>1, <2>4
<1>9. n \in 0 .. n /\ 0 \in 0 .. n
  BY <1>5
<1>10. b[n] = SumFunction(FeesOf(entries))
  BY <1>1, <1>4, <1>9, BillingSteps
<1>11. h[n] = after[n].held /\ h[0] = after[0].held
  BY <1>2, <1>9
<1>12. QED
  BY <1>1, <1>8, <1>9, <1>10, <1>11

(* A sound state of the store manager.                                     *)
SoundStores == {st \in Stored!State : Stored!Agree(st)}

StoreAfter(st, e) == IF Billed(e) /\ Stores!CanCapture(st, e.id, e.capture)
                     THEN Stores!Captured(st, e.id, e.capture)
                     ELSE st

LEMMA StoreTurns ==
    ASSUME NEW st \in SoundStores, NEW e, e.id \in DataStream, e.capture \in Nat
    PROVE  /\ StoreAfter(st, e) \in SoundStores
           /\ st.held \in Nat /\ StoreAfter(st, e).held \in Nat
           /\ StoreAfter(st, e).held <= st.held
           /\ st.held <= StoreAfter(st, e).held + (IF Billed(e) THEN e.capture ELSE 0)
<1>1. /\ st \in Stored!State /\ Stored!Agree(st) /\ st.held \in Nat
      /\ st.stores \in [DataStream -> Nat]
  BY DEF SoundStores, Stored!State
<1>2. PICK s, amount : s = e.id /\ amount = e.capture /\ s \in DataStream /\ amount \in Nat
  OBVIOUS
<1>3. PICK after : after = StoreAfter(st, e)
  OBVIOUS
<1>4. CASE Billed(e) /\ Stores!CanCapture(st, s, amount)
  <2>1. after = Stored!Captured(st, s, amount) /\ Stored!CanCapture(st, s, amount)
    BY <1>2, <1>3, <1>4, StoresStored DEF StoreAfter
  <2>2. after \in Stored!State /\ Stored!Agree(after)
    BY <1>1, <1>2, <2>1, Stored!CapturedAgrees, Assumed, TokensAssumption
  <2>3. after.held = st.held - Stored!Taken(st, s, amount)
    BY <2>1 DEF Stored!Captured
  <2>4. /\ Stored!Taken(st, s, amount) <= amount /\ Stored!Taken(st, s, amount) \in Nat
        /\ Stored!Taken(st, s, amount) <= st.held
    BY <1>1, <1>2, <2>1 DEF Stored!Taken, Stored!CanCapture
  <2>5. after.held <= st.held /\ st.held <= after.held + amount /\ after.held \in Nat
    BY ONLY <1>1, <1>2, <2>3, <2>4
  <2>6. QED
    BY <1>1, <1>2, <1>3, <1>4, <2>2, <2>5 DEF SoundStores
<1>5. CASE ~ (Billed(e) /\ Stores!CanCapture(st, s, amount))
  <2>1. after = st
    BY <1>2, <1>3, <1>5 DEF StoreAfter
  <2>2. st.held <= st.held + (IF Billed(e) THEN e.capture ELSE 0) /\ st.held <= st.held
    BY <1>1, <1>2
  <2>3. QED
    BY <1>1, <1>3, <2>1, <2>2
<1>6. QED
  BY <1>4, <1>5

StoreLoop(g, entries) ==
    g = [i \in 0 .. Len(entries) |-> IF i = 0 THEN store ELSE StoreAfter(g[i - 1], entries[i])]

LEMMA StoreLoopRuns ==
    ASSUME store \in SoundStores, NEW entries \in Entries(DataStream)
    PROVE  /\ StoreLoop(StoreStates(entries), entries)
           /\ \A i \in 0 .. Len(entries) : StoreStates(entries)[i] \in SoundStores
<1>1. PICK n, D : n = Len(entries) /\ D = SoundStores
  OBVIOUS
<1>2. /\ n \in Nat
      /\ \A i \in 1 .. n : i \in 0 .. n /\ i - 1 \in 0 .. n
      /\ \A i \in 1 .. n : entries[i].id \in DataStream /\ entries[i].capture \in Nat
  BY <1>1, EntriesTyped
<1>3. PICK step : step = [p \in (1 .. n) \X D |-> StoreAfter(p[2], entries[p[1]])]
  OBVIOUS
<1>4. ASSUME NEW i \in 1 .. n, NEW st \in D PROVE StoreAfter(st, entries[i]) \in D
  BY <1>1, <1>2, StoreTurns
<1>5. step \in [(1 .. n) \X D -> D]
  BY <1>3, <1>4
<1>6. PICK g \in [0 .. n -> D] : Turning(g, n, store, step)
  BY <1>1, <1>2, <1>5, Recursion
<1>7. StoreLoop(g, entries)
  <2>1. ASSUME NEW i \in 0 .. n
        PROVE  g[i] = IF i = 0 THEN store ELSE StoreAfter(g[i - 1], entries[i])
    <3>1. g[i] = IF i = 0 THEN store ELSE step[<<i, g[i - 1]>>]
      BY <1>6 DEF Turning
    <3>2. CASE i # 0
      <4>1. i \in 1 .. n /\ i - 1 \in 0 .. n
        BY <1>2, <3>2
      <4>2. g[i - 1] \in D
        BY <1>6, <4>1
      <4>3. step[<<i, g[i - 1]>>] = StoreAfter(g[i - 1], entries[i])
        BY <1>3, <4>1, <4>2
      <4>4. QED
        BY <3>1, <3>2, <4>3
    <3>3. QED
      BY <3>1, <3>2
  <2>2. QED
    BY <1>1, <1>6, <2>1 DEF StoreLoop
<1>8. PICK after : after = CHOOSE h : StoreLoop(h, entries)
  OBVIOUS
<1>9. StoreLoop(after, entries)
  BY <1>7, <1>8
<1>10. after = StoreStates(entries)
  BY <1>8 DEF StoreStates, StoreLoop, StoreAfter
<1>11. after[0] = store /\ \A i \in 1 .. n : after[i] = StoreAfter(after[i - 1], entries[i])
  BY <1>1, <1>2, <1>9 DEF StoreLoop
<1>12. \A i \in 0 .. n : after[i] \in D
  <2>1. after[0] \in D
    BY <1>1, <1>11
  <2>2. ASSUME NEW i \in 1 .. n, after[i - 1] \in D PROVE after[i] \in D
    BY <1>4, <1>11, <2>2
  <2>3. QED
    BY <1>2, <2>1, <2>2, Stays
<1>13. QED
  BY <1>1, <1>9, <1>10, <1>12

(* After the captures the state is sound, and what is missing was billed.  *)
LEMMA StoresBilled ==
    ASSUME store \in SoundStores, NEW entries \in Entries(DataStream),
           NEW after, after = StoreStates(entries)[Len(entries)]
    PROVE  /\ after \in SoundStores
           /\ store.held \in Nat /\ after.held \in Nat
           /\ after.held <= store.held
           /\ store.held <= after.held + SumFunction(FeesOf(entries))
           /\ Len(entries) = 0 => after = store
<1>1. PICK n, h : n = Len(entries) /\ h = StoreStates(entries)
  OBVIOUS
<1>2. /\ n \in Nat /\ n \in 0 .. n /\ 0 \in 0 .. n
      /\ \A i \in 1 .. n : i \in 0 .. n /\ i - 1 \in 0 .. n
      /\ \A i \in 1 .. n : entries[i].id \in DataStream /\ entries[i].capture \in Nat
  BY <1>1, EntriesTyped
<1>3. /\ h[0] = store
      /\ \A i \in 1 .. n : h[i] = StoreAfter(h[i - 1], entries[i])
      /\ \A i \in 0 .. n : h[i] \in SoundStores
  <2>1. StoreLoop(h, entries) /\ \A i \in 0 .. n : h[i] \in SoundStores
    BY <1>1, StoreLoopRuns
  <2>2. h = [i \in 0 .. n |-> IF i = 0 THEN store ELSE StoreAfter(h[i - 1], entries[i])]
    BY <1>1, <2>1 DEF StoreLoop
  <2>3. \A i \in 0 .. n : h[i] = IF i = 0 THEN store ELSE StoreAfter(h[i - 1], entries[i])
    BY ONLY <2>2
  <2>4. \A i \in 1 .. n : i # 0
    BY <1>2
  <2>5. QED
    BY ONLY <1>2, <2>1, <2>3, <2>4
<1>4. \A i \in 0 .. n : h[i].held \in Nat
  BY <1>3 DEF SoundStores, Stored!State
<1>5. ASSUME NEW i \in 1 .. n
      PROVE  /\ h[i].held <= h[i - 1].held
             /\ h[i - 1].held <= h[i].held + (IF Billed(entries[i]) THEN entries[i].capture ELSE 0)
  <2>1. h[i - 1] \in SoundStores /\ entries[i].id \in DataStream /\ entries[i].capture \in Nat
    BY <1>2, <1>3
  <2>2. h[i] = StoreAfter(h[i - 1], entries[i])
    BY <1>3
  <2>3. QED
    BY <2>1, <2>2, StoreTurns
<1>6. h[n].held <= h[0].held /\ h[0].held <= h[n].held + SumFunction(FeesOf(entries))
  BY <1>1, <1>4, <1>5, LoopTakes
<1>7. QED
  BY <1>1, <1>2, <1>3, <1>4, <1>6

(* A sound state of the query manager: its tokens are those of its         *)
(* consumers, and its supply is within them.                               *)
SoundQueries == {q \in [balanceOf : [Address -> Nat], totalSupply : Nat, held : Nat] :
                   q.held = SumFunction(q.balanceOf) /\ q.totalSupply <= q.held}

LEMMA QueryTyped ==
    ASSUME NEW q \in SoundQueries
    PROVE  /\ q.balanceOf \in [Address -> Nat] /\ q.totalSupply \in Nat /\ q.held \in Nat
           /\ q.held = SumFunction(q.balanceOf) /\ q.totalSupply <= q.held
           /\ q = [balanceOf |-> q.balanceOf, totalSupply |-> q.totalSupply, held |-> q.held]
BY DEF SoundQueries

(* One balance changes, and the tokens by as much.                         *)
LEMMA QueryChanges ==
    ASSUME NEW q \in SoundQueries, NEW c \in Address, NEW v \in Nat, NEW total \in Nat,
           NEW left, left = q.held - q.balanceOf[c] + v, total <= left,
           NEW after,
           after = [balanceOf |-> [q.balanceOf EXCEPT ![c] = v], totalSupply |-> total, held |-> left]
    PROVE  after \in SoundQueries
<1>1. PICK f, g : f = q.balanceOf /\ g = [f EXCEPT ![c] = v]
  OBVIOUS
<1>2. /\ f \in [Address -> Nat] /\ f \in [Address -> Int] /\ v \in Int /\ f[c] \in Nat
      /\ g \in [Address -> Nat] /\ q.held = SumFunction(f)
  BY <1>1, QueryTyped
<1>3. SumFunction(g) = SumFunction(f) - f[c] + v
  BY <1>1, <1>2, SumChanged, AccountsAssumption
<1>4. SumFunction(g) \in Nat
  BY <1>2, SumIsNat, AccountsAssumption
<1>5. left = SumFunction(g)
  BY <1>1, <1>2, <1>3
<1>6. QED
  BY <1>1, <1>2, <1>4, <1>5 DEF SoundQueries

QueryAfter(q, e) == IF Billed(e) /\ Queries!CanCapture(q, e.id, e.capture)
                    THEN Queries!Captured(q, e.id, e.capture)
                    ELSE q

LEMMA QueryTurns ==
    ASSUME NEW q \in SoundQueries, NEW e, e.id \in Address, e.capture \in Nat
    PROVE  /\ QueryAfter(q, e) \in SoundQueries
           /\ q.held \in Nat /\ QueryAfter(q, e).held \in Nat
           /\ QueryAfter(q, e).held <= q.held
           /\ q.held <= QueryAfter(q, e).held + (IF Billed(e) THEN e.capture ELSE 0)
<1>1. /\ q.balanceOf \in [Address -> Nat] /\ q.totalSupply \in Nat /\ q.held \in Nat
      /\ q.totalSupply <= q.held
      /\ q = [balanceOf |-> q.balanceOf, totalSupply |-> q.totalSupply, held |-> q.held]
  BY QueryTyped
<1>2. PICK c, amount : c = e.id /\ amount = e.capture /\ c \in Address /\ amount \in Nat
  OBVIOUS
<1>3. PICK after : after = QueryAfter(q, e)
  OBVIOUS
<1>4. CASE Billed(e) /\ Queries!CanCapture(q, c, amount)
  <2>1. PICK taken, total, v : /\ taken = Queries!Taken(q, c, amount)
                               /\ total = Queries!SupplyAfter(q, amount)
                               /\ v = Queries!Left(q, c, amount)
    OBVIOUS
  <2>2. q.balanceOf[c] \in Nat
    BY <1>1, <1>2
  <2>3. /\ taken \in Nat /\ taken <= amount /\ taken <= q.held
        /\ v \in Nat /\ v = q.balanceOf[c] - taken
    BY <1>1, <1>2, <1>4, <2>1, <2>2 DEF Queries!Taken, Queries!Left, Queries!CanCapture
  <2>4. total \in Nat /\ total <= q.held - taken
    BY <1>1, <1>2, <2>1, <2>3 DEF Queries!SupplyAfter
  <2>5. after = [q EXCEPT !.balanceOf[c] = v, !.totalSupply = total, !.held = q.held - taken]
    BY <1>2, <1>3, <1>4, <2>1 DEF QueryAfter, Queries!Captured
  <2>6. after = [balanceOf |-> [q.balanceOf EXCEPT ![c] = v], totalSupply |-> total,
                 held |-> q.held - taken]
    BY <1>1, <2>5
  <2>7. q.held - taken = q.held - q.balanceOf[c] + v
    BY <1>1, <2>2, <2>3
  <2>8. after \in SoundQueries
    BY <1>2, <2>3, <2>4, <2>6, <2>7, QueryChanges
  <2>9. after.held = q.held - taken
    BY <2>6
  <2>10. after.held \in Nat /\ after.held <= q.held /\ q.held <= after.held + amount
    BY ONLY <1>1, <1>2, <2>3, <2>9
  <2>11. QED
    BY <1>1, <1>2, <1>3, <1>4, <2>8, <2>10
<1>5. CASE ~ (Billed(e) /\ Queries!CanCapture(q, c, amount))
  <2>1. after = q
    BY <1>2, <1>3, <1>5 DEF QueryAfter
  <2>2. q.held <= q.held + (IF Billed(e) THEN e.capture ELSE 0) /\ q.held <= q.held
    BY <1>1, <1>2
  <2>3. QED
    BY <1>1, <1>3, <2>1, <2>2
<1>6. QED
  BY <1>4, <1>5

QueryLoop(g, entries) ==
    g = [i \in 0 .. Len(entries) |-> IF i = 0 THEN query ELSE QueryAfter(g[i - 1], entries[i])]

LEMMA QueryLoopRuns ==
    ASSUME query \in SoundQueries, NEW entries \in Entries(Address)
    PROVE  /\ QueryLoop(QueryStates(entries), entries)
           /\ \A i \in 0 .. Len(entries) : QueryStates(entries)[i] \in SoundQueries
<1>1. PICK n, D : n = Len(entries) /\ D = SoundQueries
  OBVIOUS
<1>2. /\ n \in Nat
      /\ \A i \in 1 .. n : i \in 0 .. n /\ i - 1 \in 0 .. n
      /\ \A i \in 1 .. n : entries[i].id \in Address /\ entries[i].capture \in Nat
  BY <1>1, EntriesTyped
<1>3. PICK step : step = [p \in (1 .. n) \X D |-> QueryAfter(p[2], entries[p[1]])]
  OBVIOUS
<1>4. ASSUME NEW i \in 1 .. n, NEW st \in D PROVE QueryAfter(st, entries[i]) \in D
  BY <1>1, <1>2, QueryTurns
<1>5. step \in [(1 .. n) \X D -> D]
  BY <1>3, <1>4
<1>6. PICK g \in [0 .. n -> D] : Turning(g, n, query, step)
  BY <1>1, <1>2, <1>5, Recursion
<1>7. QueryLoop(g, entries)
  <2>1. ASSUME NEW i \in 0 .. n
        PROVE  g[i] = IF i = 0 THEN query ELSE QueryAfter(g[i - 1], entries[i])
    <3>1. g[i] = IF i = 0 THEN query ELSE step[<<i, g[i - 1]>>]
      BY <1>6 DEF Turning
    <3>2. CASE i # 0
      <4>1. i \in 1 .. n /\ i - 1 \in 0 .. n
        BY <1>2, <3>2
      <4>2. g[i - 1] \in D
        BY <1>6, <4>1
      <4>3. step[<<i, g[i - 1]>>] = QueryAfter(g[i - 1], entries[i])
        BY <1>3, <4>1, <4>2
      <4>4. QED
        BY <3>1, <3>2, <4>3
    <3>3. QED
      BY <3>1, <3>2
  <2>2. QED
    BY <1>1, <1>6, <2>1 DEF QueryLoop
<1>8. PICK after : after = CHOOSE h : QueryLoop(h, entries)
  OBVIOUS
<1>9. QueryLoop(after, entries)
  BY <1>7, <1>8
<1>10. after = QueryStates(entries)
  BY <1>8 DEF QueryStates, QueryLoop, QueryAfter
<1>11. after[0] = query /\ \A i \in 1 .. n : after[i] = QueryAfter(after[i - 1], entries[i])
  BY <1>1, <1>2, <1>9 DEF QueryLoop
<1>12. \A i \in 0 .. n : after[i] \in D
  <2>1. after[0] \in D
    BY <1>1, <1>11
  <2>2. ASSUME NEW i \in 1 .. n, after[i - 1] \in D PROVE after[i] \in D
    BY <1>4, <1>11, <2>2
  <2>3. QED
    BY <1>2, <2>1, <2>2, Stays
<1>13. QED
  BY <1>1, <1>9, <1>10, <1>12

(* After the captures the state is sound, and what is missing was billed.  *)
LEMMA QueriesBilled ==
    ASSUME query \in SoundQueries, NEW entries \in Entries(Address),
           NEW after, after = QueryStates(entries)[Len(entries)]
    PROVE  /\ after \in SoundQueries
           /\ query.held \in Nat /\ after.held \in Nat
           /\ after.held <= query.held
           /\ query.held <= after.held + SumFunction(FeesOf(entries))
           /\ Len(entries) = 0 => after = query
<1>1. PICK n, h : n = Len(entries) /\ h = QueryStates(entries)
  OBVIOUS
<1>2. /\ n \in Nat /\ n \in 0 .. n /\ 0 \in 0 .. n
      /\ \A i \in 1 .. n : i \in 0 .. n /\ i - 1 \in 0 .. n
      /\ \A i \in 1 .. n : entries[i].id \in Address /\ entries[i].capture \in Nat
  BY <1>1, EntriesTyped
<1>3. /\ h[0] = query
      /\ \A i \in 1 .. n : h[i] = QueryAfter(h[i - 1], entries[i])
      /\ \A i \in 0 .. n : h[i] \in SoundQueries
  <2>1. QueryLoop(h, entries) /\ \A i \in 0 .. n : h[i] \in SoundQueries
    BY <1>1, QueryLoopRuns
  <2>2. h = [i \in 0 .. n |-> IF i = 0 THEN query ELSE QueryAfter(h[i - 1], entries[i])]
    BY <1>1, <2>1 DEF QueryLoop
  <2>3. \A i \in 0 .. n : h[i] = IF i = 0 THEN query ELSE QueryAfter(h[i - 1], entries[i])
    BY ONLY <2>2
  <2>4. \A i \in 1 .. n : i # 0
    BY <1>2
  <2>5. QED
    BY ONLY <1>2, <2>1, <2>3, <2>4
<1>4. \A i \in 0 .. n : h[i].held \in Nat
  BY <1>3, QueryTyped
<1>5. ASSUME NEW i \in 1 .. n
      PROVE  /\ h[i].held <= h[i - 1].held
             /\ h[i - 1].held <= h[i].held + (IF Billed(entries[i]) THEN entries[i].capture ELSE 0)
  <2>1. h[i - 1] \in SoundQueries /\ entries[i].id \in Address /\ entries[i].capture \in Nat
    BY <1>2, <1>3
  <2>2. h[i] = QueryAfter(h[i - 1], entries[i])
    BY <1>3
  <2>3. QED
    BY <2>1, <2>2, QueryTurns
<1>6. h[n].held <= h[0].held /\ h[0].held <= h[n].held + SumFunction(FeesOf(entries))
  BY <1>1, <1>4, <1>5, LoopTakes
<1>7. QED
  BY <1>1, <1>2, <1>3, <1>4, <1>6


-------------------------------------------------------------------------------
(* The stakes a report changes.  A change never takes more than there is,  *)
(* and changes that take nothing away all count.                           *)
StakeChange == [id : Address, amount : Int]

StakeAfter(stakes, e) == [stakes EXCEPT ![e.id] = Clamped(stakes[e.id] + e.amount)]

LEMMA ClampedTyped ==
    ASSUME NEW x \in Int
    PROVE  Clamped(x) \in Nat /\ (x >= 0 => Clamped(x) = x)
BY DEF Clamped

LEMMA StakeTurns ==
    ASSUME NEW stakes \in [Address -> Nat], NEW e \in StakeChange
    PROVE  /\ StakeAfter(stakes, e) \in [Address -> Nat]
           /\ e.amount >= 0 =>
                 \A n \in Address : StakeAfter(stakes, e)[n]
                                      = stakes[n] + (IF e.id = n THEN e.amount ELSE 0)
<1>1. e.id \in Address /\ e.amount \in Int
  BY DEF StakeChange
<1>2. PICK v : v = Clamped(stakes[e.id] + e.amount)
  OBVIOUS
<1>3. v \in Nat /\ (e.amount >= 0 => v = stakes[e.id] + e.amount)
  <2>1. stakes[e.id] \in Nat
    BY <1>1
  <2>2. stakes[e.id] + e.amount \in Int /\ (e.amount >= 0 => stakes[e.id] + e.amount >= 0)
    BY <1>1, <2>1
  <2>3. QED
    BY <1>2, <2>2, ClampedTyped
<1>4. StakeAfter(stakes, e) = [stakes EXCEPT ![e.id] = v]
  BY <1>2 DEF StakeAfter
<1>5. \A n \in Address : stakes[n] \in Nat
  OBVIOUS
<1>6. QED
  BY <1>1, <1>3, <1>4, <1>5

StakeLoop(g, changes) ==
    g = [i \in 0 .. Len(changes) |-> IF i = 0 THEN stakeOf ELSE StakeAfter(g[i - 1], changes[i])]

LEMMA ChangesTyped ==
    ASSUME NEW T, NEW changes \in Seq(T)
    PROVE  /\ Len(changes) \in Nat /\ Len(changes) \in 0 .. Len(changes) /\ 0 \in 0 .. Len(changes)
           /\ \A i \in 1 .. Len(changes) :
                 changes[i] \in T /\ i \in 0 .. Len(changes) /\ i - 1 \in 0 .. Len(changes) /\ i # 0
OBVIOUS

LEMMA StakeLoopRuns ==
    ASSUME stakeOf \in [Address -> Nat], NEW changes \in Seq(StakeChange)
    PROVE  \E after \in [0 .. Len(changes) -> [Address -> Nat]] :
              /\ NodeStakes(changes) = after[Len(changes)]
              /\ after[0] = stakeOf
              /\ \A i \in 1 .. Len(changes) : after[i] = StakeAfter(after[i - 1], changes[i])
<1>1. PICK n, D : n = Len(changes) /\ D = [Address -> Nat]
  OBVIOUS
<1>2. /\ n \in Nat /\ 0 \in 0 .. n
      /\ \A i \in 1 .. n : changes[i] \in StakeChange /\ i \in 0 .. n /\ i - 1 \in 0 .. n
  BY <1>1, ChangesTyped
<1>3. PICK step : step = [p \in (1 .. n) \X D |-> StakeAfter(p[2], changes[p[1]])]
  OBVIOUS
<1>4. ASSUME NEW i \in 1 .. n, NEW st \in D PROVE StakeAfter(st, changes[i]) \in D
  BY <1>1, <1>2, StakeTurns
<1>5. step \in [(1 .. n) \X D -> D]
  BY <1>3, <1>4
<1>6. PICK g \in [0 .. n -> D] : Turning(g, n, stakeOf, step)
  BY <1>1, <1>2, <1>5, Recursion
<1>7. StakeLoop(g, changes)
  <2>1. ASSUME NEW i \in 0 .. n
        PROVE  g[i] = IF i = 0 THEN stakeOf ELSE StakeAfter(g[i - 1], changes[i])
    <3>1. g[i] = IF i = 0 THEN stakeOf ELSE step[<<i, g[i - 1]>>]
      BY <1>6 DEF Turning
    <3>2. CASE i # 0
      <4>1. i \in 1 .. n /\ i - 1 \in 0 .. n
        BY <1>2, <3>2
      <4>2. g[i - 1] \in D
        BY <1>6, <4>1
      <4>3. step[<<i, g[i - 1]>>] = StakeAfter(g[i - 1], changes[i])
        BY <1>3, <4>1, <4>2
      <4>4. QED
        BY <3>1, <3>2, <4>3
    <3>3. QED
      BY <3>1, <3>2
  <2>2. QED
    BY <1>1, <1>6, <2>1 DEF StakeLoop
<1>8. PICK after : after = CHOOSE h : StakeLoop(h, changes)
  OBVIOUS
<1>9. StakeLoop(after, changes)
  BY <1>7, <1>8
<1>10. NodeStakes(changes) = after[n]
  BY <1>1, <1>8 DEF NodeStakes, StakeLoop, StakeAfter
<1>11. after[0] = stakeOf /\ \A i \in 1 .. n : after[i] = StakeAfter(after[i - 1], changes[i])
  BY <1>1, <1>2, <1>9 DEF StakeLoop
<1>12. \A i \in 0 .. n : after[i] \in D
  <2>1. after[0] \in D
    BY <1>1, <1>11
  <2>2. ASSUME NEW i \in 1 .. n, after[i - 1] \in D PROVE after[i] \in D
    BY <1>4, <1>11, <2>2
  <2>3. QED
    BY <1>2, <2>1, <2>2, Stays
<1>13. after \in [0 .. n -> D]
  BY <1>1, <1>9, <1>12 DEF StakeLoop
<1>14. QED
  BY <1>1, <1>10, <1>11, <1>13

(* A quantity a loop changes by the values of f, one after another, has    *)
(* changed by their sum in the end.                                        *)
LEMMA LoopAdds ==
    ASSUME NEW n \in Nat, NEW f \in [1 .. n -> Int], NEW h \in [0 .. n -> Int],
           \A i \in 1 .. n : h[i] = h[i - 1] + f[i]
    PROVE  h[n] = h[0] + SumFunction(f)
<1>1. PICK b : b = [i \in 0 .. n |-> Prefix(f, i)]
  OBVIOUS
<1>2. /\ b \in [0 .. n -> Int] /\ 0 \in 0 .. n /\ n \in 0 .. n
      /\ \A i \in 1 .. n : i \in 0 .. n /\ i - 1 \in 0 .. n
  <2>1. \A i \in 0 .. n : Prefix(f, i) \in Int
    BY PrefixSteps
  <2>2. b \in [0 .. n -> Int]
    BY <1>1, <2>1
  <2>3. QED
    BY <2>2
<1>3. b[0] = 0 /\ b[n] = SumFunction(f) /\ \A i \in 1 .. n : b[i] = b[i - 1] + f[i]
  BY <1>1, <1>2, PrefixSteps
<1>4. PICK k : k = [i \in 0 .. n |-> h[i] - h[0] - b[i]]
  OBVIOUS
<1>5. PICK D : D = {0}
  OBVIOUS
<1>6. k[0] \in D
  BY <1>2, <1>3, <1>4, <1>5
<1>7. ASSUME NEW i \in 1 .. n, k[i - 1] \in D PROVE k[i] \in D
  <2>1. h[i - 1] - h[0] - b[i - 1] = 0 /\ k[i] = h[i] - h[0] - b[i]
    BY <1>2, <1>4, <1>5, <1>7
  <2>2. /\ h[i] \in Int /\ h[i - 1] \in Int /\ h[0] \in Int /\ b[i] \in Int /\ b[i - 1] \in Int
        /\ f[i] \in Int
    BY <1>2
  <2>3. h[i] = h[i - 1] + f[i] /\ b[i] = b[i - 1] + f[i]
    BY <1>3
  <2>4. k[i] = 0
    BY ONLY <2>1, <2>2, <2>3
  <2>5. QED
    BY <1>5, <2>4
<1>8. \A i \in 0 .. n : k[i] \in D
  BY ONLY <1>6, <1>7, n \in Nat, Stays
<1>9. h[n] - h[0] - b[n] = 0
  BY <1>2, <1>4, <1>5, <1>8
<1>10. h[n] \in Int /\ h[0] \in Int /\ b[n] \in Int
  BY <1>2
<1>11. QED
  BY <1>3, <1>9, <1>10

LEMMA StakesShared ==
    ASSUME stakeOf \in [Address -> Nat], NEW changes \in Seq(StakeChange)
    PROVE  /\ NodeStakes(changes) \in [Address -> Nat]
           /\ (\A i \in 1 .. Len(changes) : changes[i].amount >= 0) =>
                 \A n \in Address : NodeStakes(changes)[n] = stakeOf[n] + AmountTo(changes, n)
<1>1. PICK len : len = Len(changes)
  OBVIOUS
<1>2. PICK after \in [0 .. len -> [Address -> Nat]] :
         /\ NodeStakes(changes) = after[len]
         /\ after[0] = stakeOf
         /\ \A i \in 1 .. len : after[i] = StakeAfter(after[i - 1], changes[i])
  BY <1>1, StakeLoopRuns
<1>3. /\ len \in Nat /\ 0 \in 0 .. len /\ len \in 0 .. len
      /\ \A i \in 1 .. len : changes[i] \in StakeChange /\ i \in 0 .. len /\ i - 1 \in 0 .. len
  BY <1>1, ChangesTyped
<1>4. NodeStakes(changes) \in [Address -> Nat]
  BY <1>2, <1>3
<1>5. ASSUME \A i \in 1 .. len : changes[i].amount >= 0, NEW n \in Address
      PROVE  NodeStakes(changes)[n] = stakeOf[n] + AmountTo(changes, n)
  <2>1. PICK h : h = [i \in 0 .. len |-> after[i][n]]
    OBVIOUS
  <2>2. PICK f : f = [i \in 1 .. len |-> IF changes[i].id = n THEN changes[i].amount ELSE 0]
    OBVIOUS
  <2>3. h \in [0 .. len -> Int]
    BY <1>2, <2>1
  <2>4. \A i \in 1 .. len : changes[i].amount \in Int
    BY <1>3 DEF StakeChange
  <2>5. f \in [1 .. len -> Int]
    BY <2>2, <2>4
  <2>6. ASSUME NEW i \in 1 .. len PROVE h[i] = h[i - 1] + f[i]
    <3>1. after[i - 1] \in [Address -> Nat] /\ changes[i] \in StakeChange /\ changes[i].amount >= 0
      BY <1>2, <1>3, <1>5
    <3>2. after[i][n] = after[i - 1][n] + (IF changes[i].id = n THEN changes[i].amount ELSE 0)
      <4>1. PICK st, e : st = after[i - 1] /\ e = changes[i]
        OBVIOUS
      <4>2. st \in [Address -> Nat] /\ e \in StakeChange /\ e.amount >= 0
        BY <3>1, <4>1
      <4>3. StakeAfter(st, e)[n] = st[n] + (IF e.id = n THEN e.amount ELSE 0)
        BY ONLY <4>2, n \in Address, StakeTurns
      <4>4. QED
        BY <1>2, <4>1, <4>3
    <3>3. QED
      BY <1>3, <2>1, <2>2, <3>2
  <2>7. h[len] = h[0] + SumFunction(f)
    BY <1>3, <2>3, <2>5, <2>6, LoopAdds
  <2>8. h[len] = NodeStakes(changes)[n] /\ h[0] = stakeOf[n]
    BY <1>2, <1>3, <2>1
  <2>9. SumFunction(f) = AmountTo(changes, n)
    BY <1>1, <2>2 DEF AmountTo
  <2>10. QED
    BY <2>7, <2>8, <2>9
<1>6. QED
  BY <1>1, <1>4, <1>5

(* The delegations a report changes.                                       *)
DelegationChange == [id : Address, node : Address, amount : Int]
Delegating == [Address -> [Address -> Nat]]

DelegationAfter(table, e) ==
    [table EXCEPT ![e.id][e.node] = Clamped(table[e.id][e.node] + e.amount)]

To(table, n) == SumFunction([a \in Address |-> table[a][n]])

LEMMA DelegationTurns ==
    ASSUME NEW table \in Delegating, NEW e \in DelegationChange
    PROVE  /\ DelegationAfter(table, e) \in Delegating
           /\ e.amount >= 0 =>
                 \A n \in Address : /\ To(table, n) \in Int
                                    /\ To(DelegationAfter(table, e), n)
                                         = To(table, n) + (IF e.node = n THEN e.amount ELSE 0)
<1>1. e.id \in Address /\ e.node \in Address /\ e.amount \in Int
  BY DEF DelegationChange
<1>2. \A a, n \in Address : table[a] \in [Address -> Nat] /\ table[a][n] \in Nat
  BY DEF Delegating
<1>3. PICK v : v = Clamped(table[e.id][e.node] + e.amount)
  OBVIOUS
<1>4. v \in Nat /\ (e.amount >= 0 => v = table[e.id][e.node] + e.amount)
  <2>1. table[e.id][e.node] \in Nat
    BY <1>1, <1>2
  <2>2. /\ table[e.id][e.node] + e.amount \in Int
        /\ e.amount >= 0 => table[e.id][e.node] + e.amount >= 0
    BY <1>1, <2>1
  <2>3. QED
    BY <1>3, <2>2, ClampedTyped
<1>5. PICK row : row = [table[e.id] EXCEPT ![e.node] = v]
  OBVIOUS
<1>6. PICK new : new = DelegationAfter(table, e)
  OBVIOUS
<1>7. row \in [Address -> Nat] /\ new = [table EXCEPT ![e.id] = row]
  BY <1>1, <1>2, <1>3, <1>4, <1>5, <1>6 DEF DelegationAfter, Delegating
<1>8. new \in Delegating
  BY <1>7 DEF Delegating
<1>9. ASSUME e.amount >= 0, NEW n \in Address
      PROVE  /\ To(table, n) \in Int
             /\ To(new, n) = To(table, n) + (IF e.node = n THEN e.amount ELSE 0)
  <2>1. PICK f, g : f = [a \in Address |-> table[a][n]] /\ g = [a \in Address |-> new[a][n]]
    OBVIOUS
  <2>2. PICK d : d = IF e.node = n THEN e.amount ELSE 0
    OBVIOUS
  <2>3. /\ f \in [Address -> Int] /\ g \in [Address -> Int] /\ d \in Int
        /\ \A a \in Address : f[a] \in Int
    <3>1. \A a \in Address : new[a][n] \in Int
      BY <1>8 DEF Delegating
    <3>2. QED
      BY <1>1, <1>2, <2>1, <2>2, <3>1
  <2>4. ASSUME NEW a \in Address PROVE g[a] = f[a] + (IF a = e.id THEN d ELSE 0)
    <3>1. CASE a = e.id
      <4>1. new[a] = row
        BY <1>1, <1>7, <3>1 DEF Delegating
      <4>2. row[n] = IF n = e.node THEN v ELSE table[a][n]
        BY <1>1, <1>2, <1>5, <3>1
      <4>3. v = table[a][e.node] + e.amount
        BY <1>4, <1>9, <3>1
      <4>4. table[a][n] \in Nat
        BY <1>2
      <4>5. QED
        BY <2>1, <2>2, <3>1, <4>1, <4>2, <4>3, <4>4
    <3>2. CASE a # e.id
      <4>1. new[a] = table[a]
        BY <1>1, <1>7, <3>2 DEF Delegating
      <4>2. QED
        BY <2>1, <2>3, <3>2, <4>1
    <3>3. QED
      BY <3>1, <3>2
  <2>5. Shifted(f, g, Address, e.id, d)
    BY <1>1, <2>3, <2>4, AccountsAssumption DEF Shifted
  <2>6. SumFunction(g) = SumFunction(f) + d
    BY <2>5, SumShifted
  <2>7. SumFunction(f) \in Int
    BY <2>3, SumIsInt, AccountsAssumption
  <2>8. QED
    BY <2>1, <2>2, <2>6, <2>7 DEF To
<1>10. QED
  BY <1>6, <1>8, <1>9

DelegationLoop(g, changes) ==
    g = [i \in 0 .. Len(changes) |-> IF i = 0 THEN delegatesOf
                                     ELSE DelegationAfter(g[i - 1], changes[i])]

LEMMA DelegationLoopRuns ==
    ASSUME delegatesOf \in Delegating, NEW changes \in Seq(DelegationChange)
    PROVE  \E after \in [0 .. Len(changes) -> Delegating] :
              /\ Delegations(changes) = after[Len(changes)]
              /\ after[0] = delegatesOf
              /\ \A i \in 1 .. Len(changes) : after[i] = DelegationAfter(after[i - 1], changes[i])
<1>1. PICK n, D : n = Len(changes) /\ D = Delegating
  OBVIOUS
<1>2. /\ n \in Nat /\ 0 \in 0 .. n
      /\ \A i \in 1 .. n : changes[i] \in DelegationChange /\ i \in 0 .. n /\ i - 1 \in 0 .. n
  BY <1>1, ChangesTyped
<1>3. PICK step : step = [p \in (1 .. n) \X D |-> DelegationAfter(p[2], changes[p[1]])]
  OBVIOUS
<1>4. ASSUME NEW i \in 1 .. n, NEW st \in D PROVE DelegationAfter(st, changes[i]) \in D
  BY <1>1, <1>2, DelegationTurns
<1>5. step \in [(1 .. n) \X D -> D]
  BY <1>3, <1>4
<1>6. PICK g \in [0 .. n -> D] : Turning(g, n, delegatesOf, step)
  BY <1>1, <1>2, <1>5, Recursion
<1>7. DelegationLoop(g, changes)
  <2>1. ASSUME NEW i \in 0 .. n
        PROVE  g[i] = IF i = 0 THEN delegatesOf ELSE DelegationAfter(g[i - 1], changes[i])
    <3>1. g[i] = IF i = 0 THEN delegatesOf ELSE step[<<i, g[i - 1]>>]
      BY <1>6 DEF Turning
    <3>2. CASE i # 0
      <4>1. i \in 1 .. n /\ i - 1 \in 0 .. n
        BY <1>2, <3>2
      <4>2. g[i - 1] \in D
        BY <1>6, <4>1
      <4>3. step[<<i, g[i - 1]>>] = DelegationAfter(g[i - 1], changes[i])
        BY <1>3, <4>1, <4>2
      <4>4. QED
        BY <3>1, <3>2, <4>3
    <3>3. QED
      BY <3>1, <3>2
  <2>2. QED
    BY <1>1, <1>6, <2>1 DEF DelegationLoop
<1>8. PICK after : after = CHOOSE h : DelegationLoop(h, changes)
  OBVIOUS
<1>9. DelegationLoop(after, changes)
  BY <1>7, <1>8
<1>10. Delegations(changes) = after[n]
  BY <1>1, <1>8 DEF Delegations, DelegationLoop, DelegationAfter
<1>11. after[0] = delegatesOf /\ \A i \in 1 .. n : after[i] = DelegationAfter(after[i - 1], changes[i])
  BY <1>1, <1>2, <1>9 DEF DelegationLoop
<1>12. \A i \in 0 .. n : after[i] \in D
  <2>1. after[0] \in D
    BY <1>1, <1>11
  <2>2. ASSUME NEW i \in 1 .. n, after[i - 1] \in D PROVE after[i] \in D
    BY <1>4, <1>11, <2>2
  <2>3. QED
    BY <1>2, <2>1, <2>2, Stays
<1>13. after \in [0 .. n -> D]
  BY <1>1, <1>9, <1>12 DEF DelegationLoop
<1>14. QED
  BY <1>1, <1>10, <1>11, <1>13

LEMMA DelegationsShared ==
    ASSUME delegatesOf \in Delegating, NEW changes \in Seq(DelegationChange)
    PROVE  /\ Delegations(changes) \in Delegating
           /\ (\A i \in 1 .. Len(changes) : changes[i].amount >= 0) =>
                 \A n \in Address : To(Delegations(changes), n)
                                      = To(delegatesOf, n) + DelegatedAmount(changes, n)
<1>1. PICK len : len = Len(changes)
  OBVIOUS
<1>2. PICK after \in [0 .. len -> Delegating] :
         /\ Delegations(changes) = after[len]
         /\ after[0] = delegatesOf
         /\ \A i \in 1 .. len : after[i] = DelegationAfter(after[i - 1], changes[i])
  BY <1>1, DelegationLoopRuns
<1>3. /\ len \in Nat /\ 0 \in 0 .. len /\ len \in 0 .. len
      /\ \A i \in 1 .. len : changes[i] \in DelegationChange /\ i \in 0 .. len /\ i - 1 \in 0 .. len
  BY <1>1, ChangesTyped
<1>4. Delegations(changes) \in Delegating
  BY <1>2, <1>3
<1>5. ASSUME \A i \in 1 .. len : changes[i].amount >= 0, NEW n \in Address
      PROVE  To(Delegations(changes), n) = To(delegatesOf, n) + DelegatedAmount(changes, n)
  <2>1. PICK h : h = [i \in 0 .. len |-> To(after[i], n)]
    OBVIOUS
  <2>2. PICK f : f = [i \in 1 .. len |-> IF changes[i].node = n THEN changes[i].amount ELSE 0]
    OBVIOUS
  <2>3. h \in [0 .. len -> Int]
    <3>1. ASSUME NEW i \in 0 .. len PROVE To(after[i], n) \in Int
      <4>1. PICK g : g = [a \in Address |-> after[i][a][n]]
        OBVIOUS
      <4>2. after[i] \in Delegating
        BY <1>2
      <4>3. g \in [Address -> Int]
        BY <4>1, <4>2 DEF Delegating
      <4>4. SumFunction(g) \in Int
        BY <4>3, SumIsInt, AccountsAssumption
      <4>5. QED
        BY <4>1, <4>4 DEF To
    <3>2. QED
      BY <2>1, <3>1
  <2>4. \A i \in 1 .. len : changes[i].amount \in Int
    BY <1>3 DEF DelegationChange
  <2>5. f \in [1 .. len -> Int]
    BY <2>2, <2>4
  <2>6. ASSUME NEW i \in 1 .. len PROVE h[i] = h[i - 1] + f[i]
    <3>1. PICK table, e : table = after[i - 1] /\ e = changes[i]
      OBVIOUS
    <3>2. table \in Delegating /\ e \in DelegationChange /\ e.amount >= 0
      BY <1>2, <1>3, <1>5, <3>1
    <3>3. To(DelegationAfter(table, e), n) = To(table, n) + (IF e.node = n THEN e.amount ELSE 0)
      BY ONLY <3>2, n \in Address, DelegationTurns
    <3>4. after[i] = DelegationAfter(table, e)
      BY <1>2, <3>1
    <3>5. QED
      BY <1>3, <2>1, <2>2, <3>1, <3>3, <3>4
  <2>7. h[len] = h[0] + SumFunction(f)
    BY <1>3, <2>3, <2>5, <2>6, LoopAdds
  <2>8. h[len] = To(Delegations(changes), n) /\ h[0] = To(delegatesOf, n)
    BY <1>2, <1>3, <2>1
  <2>9. SumFunction(f) = DelegatedAmount(changes, n)
    BY <1>1, <2>2 DEF DelegatedAmount
  <2>10. QED
    BY <2>7, <2>8, <2>9
<1>6. QED
  BY <1>1, <1>4, <1>5

(* All that is delegated, by accounts or by nodes.                         *)
LEMMA ByAndTo ==
    ASSUME NEW table \in Delegating
    PROVE  SumFunction([a \in Address |-> SumFunction(table[a])])
             = SumFunction([n \in Address |-> To(table, n)])
<1>1. /\ table \in [Address -> [Address -> Int]] /\ IsFiniteSet(Address)
      /\ \A a \in Address : DOMAIN table[a] = Address
  BY AccountsAssumption DEF Delegating
<1>2. SumFunctionOnSet(RowSums(table, Address, Address), Address)
        = SumFunctionOnSet(ColumnSums(table, Address, Address), Address)
  BY <1>1, SumSwaps
<1>3. \A a \in Address : SumFunction(table[a]) = SumFunctionOnSet(table[a], Address)
  BY <1>1, SumOfAll
<1>4. \A n \in Address : To(table, n) = SumFunctionOnSet(Column(table, Address, n), Address)
  <2>1. TAKE n \in Address
  <2>2. PICK c : c = [a \in Address |-> table[a][n]]
    OBVIOUS
  <2>3. SumFunction(c) = SumFunctionOnSet(c, Address)
    BY <2>2, SumOfAll
  <2>4. QED
    BY <2>2, <2>3 DEF To, Column
<1>5. PICK f, g : /\ f = [a \in Address |-> SumFunction(table[a])]
                  /\ g = [n \in Address |-> To(table, n)]
  OBVIOUS
<1>6. f = RowSums(table, Address, Address)
  BY <1>3, <1>5 DEF RowSums
<1>7. g = ColumnSums(table, Address, Address)
  BY <1>4, <1>5 DEF ColumnSums
<1>8. SumFunction(f) = SumFunctionOnSet(f, Address) /\ SumFunction(g) = SumFunctionOnSet(g, Address)
  BY <1>5, SumOfAll
<1>9. QED
  BY <1>2, <1>5, <1>6, <1>7, <1>8

-------------------------------------------------------------------------------
(* Reports.  What is reported under an id is what a report may be, and     *)
(* there is something only if it was accepted.                             *)
LedgerInv ==
    /\ reports \in [Id -> [height : Nat, content : Content \cup {NoContent}, processed : BOOLEAN]]
    /\ lastReportId \in Id
    /\ \A id \in Id : reports[id].content # NoContent => reports[id].height > 0

LEMMA ContentReported ==
    ASSUME LedgerInv, NEW id \in Id
    PROVE  ContentOf(id) \in Reported
<1>1. reports[id].content \in Content \cup {NoContent}
  BY DEF LedgerInv
<1>2. EmptyContent \in Reported
  <2>1. ASSUME NEW S PROVE <<>> \in Seq(S)
    OBVIOUS
  <2>2. QED
    BY <2>1 DEF EmptyContent, Reported
<1>3. QED
  BY <1>1, <1>2, ReportsAssumption DEF ContentOf

LEMMA ReportedTyped ==
    ASSUME NEW content \in Reported
    PROVE  /\ content.streams \in Entries(DataStream) /\ content.consumers \in Entries(Address)
           /\ content.nodes \in Seq(StakeChange) /\ content.delegates \in Seq(DelegationChange)
           /\ content.treasury \in Int
BY DEF Reported, Entries, StakeChange, DelegationChange

LEMMA LedgerKept ==
    ASSUME LedgerInv,
           \/ \E id \in Id : Ledger!Process(id)
           \/ \E id \in Id, height \in 1 .. MaxHeight, content \in Content :
                 Ledger!Accept(id, height, content)
    PROVE  LedgerInv' /\ \A id \in Id : reports[id].processed => reports'[id] = reports[id]
<1> DEFINE R == [height : Nat, content : Content \cup {NoContent}, processed : BOOLEAN]
<1>1. reports \in [Id -> R] /\ lastReportId \in Id
  BY DEF LedgerInv
<1>2. ASSUME NEW id \in Id, NEW r \in R, reports' = [reports EXCEPT ![id] = r],
             r.content # NoContent => r.height > 0, lastReportId' \in Id, ~reports[id].processed
      PROVE  LedgerInv' /\ \A i \in Id : reports[i].processed => reports'[i] = reports[i]
  <2>1. reports' \in [Id -> R]
    BY <1>1, <1>2
  <2>2. \A i \in Id : reports'[i] = IF i = id THEN r ELSE reports[i]
    BY <1>1, <1>2
  <2>3. QED
    BY <1>2, <2>1, <2>2 DEF LedgerInv
<1>3. ASSUME NEW id \in Id, Ledger!Process(id)
      PROVE  LedgerInv' /\ \A i \in Id : reports[i].processed => reports'[i] = reports[i]
  <2>1. PICK r : r = [reports[id] EXCEPT !.processed = TRUE]
    OBVIOUS
  <2>2. reports[id] \in R
    BY <1>1
  <2>3. r \in R /\ r.content = reports[id].content /\ r.height = reports[id].height
    BY <2>1, <2>2
  <2>4. reports' = [reports EXCEPT ![id] = r] /\ lastReportId' \in Id /\ ~reports[id].processed
    BY <1>1, <1>3, <2>1 DEF Ledger!Process
  <2>5. r.content # NoContent => r.height > 0
    BY <2>3 DEF LedgerInv
  <2>6. QED
    BY <1>2, <2>3, <2>4, <2>5
<1>4. ASSUME NEW id \in Id, NEW height \in 1 .. MaxHeight, NEW content \in Content,
             Ledger!Accept(id, height, content)
      PROVE  LedgerInv' /\ \A i \in Id : reports[i].processed => reports'[i] = reports[i]
  <2>1. PICK r : r = [height |-> height, content |-> content, processed |-> FALSE]
    OBVIOUS
  <2>2. r \in R /\ r.height > 0
    BY <2>1
  <2>3. reports' = [reports EXCEPT ![id] = r] /\ lastReportId' \in Id /\ ~reports[id].processed
    BY <1>1, <1>4, <2>1 DEF Ledger!Accept
  <2>4. QED
    BY <1>2, <2>2, <2>3
<1>5. QED
  BY <1>3, <1>4

(* What was fair so far was so before.                                     *)
LEMMA FairBefore ==
    ASSUME LedgerInv, \A id \in Id : reports[id].processed => reports'[id] = reports[id],
           FairSoFar'
    PROVE  FairSoFar
<1>1. ASSUME NEW id \in Id, reports[id].processed PROVE Fair(ContentOf(id))
  <2>1. reports'[id] = reports[id]
    BY <1>1
  <2>2. ContentOf(id)' = ContentOf(id)
    BY <2>1 DEF ContentOf
  <2>3. PICK content : content = ContentOf(id)
    OBVIOUS
  <2>4. Fair(ContentOf(id))'
    BY <1>1, <2>1 DEF FairSoFar
  <2>5. QED
    BY <2>2, <2>3, <2>4 DEF Fair
<1>2. QED
  BY <1>1 DEF FairSoFar

LEMMA AmountsTyped ==
    ASSUME NEW changes \in Seq(StakeChange), NEW n
    PROVE  AmountTo(changes, n) \in Int
<1>1. PICK len, f : /\ len = Len(changes)
                    /\ f = [i \in 1 .. len |-> IF changes[i].id = n THEN changes[i].amount ELSE 0]
  OBVIOUS
<1>2. len \in Nat /\ \A i \in 1 .. len : changes[i] \in StakeChange
  BY <1>1, ChangesTyped
<1>3. f \in [1 .. len -> Int] /\ IsFiniteSet(1 .. len)
  <2>1. \A i \in 1 .. len : changes[i].amount \in Int
    BY <1>2 DEF StakeChange
  <2>2. IsFiniteSet(1 .. len)
    BY <1>2, FS_Interval
  <2>3. QED
    BY <1>1, <2>1, <2>2
<1>4. SumFunction(f) \in Int
  BY <1>3, SumIsInt
<1>5. QED
  BY <1>1, <1>4 DEF AmountTo

(* The fees are the captures of the entries that are billed.               *)
LEMMA FeesTyped ==
    ASSUME NEW content \in Reported
    PROVE  /\ SumFunction(FeesOf(content.streams)) \in Nat
           /\ SumFunction(FeesOf(content.consumers)) \in Nat
           /\ Fees(content) \in Nat
<1>1. /\ SumFunction(FeesOf(content.streams)) \in Nat
      /\ SumFunction(FeesOf(content.consumers)) \in Nat
  BY ReportedTyped, BillingSteps
<1>2. QED
  BY <1>1 DEF Fees

(* Delegated by, seen from either side.                                    *)
LEMMA OwedTo ==
    ASSUME delegatesOf \in Delegating
    PROVE  Owed = SumFunction(balanceOf) + SumFunction([n \in Address |-> To(delegatesOf, n)])
                    + treasurySupply
<1>1. PICK f, g : /\ f = [a \in Address |-> DelegatedBy(a)]
                  /\ g = [a \in Address |-> SumFunction(delegatesOf[a])]
  OBVIOUS
<1>2. f = g
  BY <1>1 DEF DelegatedBy
<1>3. SumFunction(g) = SumFunction([n \in Address |-> To(delegatesOf, n)])
  BY <1>1, ByAndTo
<1>4. QED
  BY <1>1, <1>2, <1>3 DEF Owed

(* A fair report shares out its fees: as much more is owed.                *)
LEMMA FairShares ==
    ASSUME FundTypes, NEW content \in Reported, Fair(content), UNCHANGED balanceOf,
           stakeOf' = NodeStakes(content.nodes), delegatesOf' = Delegations(content.delegates),
           treasurySupply' = Treasury(content.treasury)
    PROVE  /\ Owed' = Owed + Fees(content)
           /\ \A n \in Address : Backed(n) => Backed(n)'
<1>1. /\ balanceOf \in [Address -> Nat] /\ delegatesOf \in Delegating
      /\ stakeOf \in [Address -> Nat] /\ treasurySupply \in Nat
  BY DEF FundTypes, Delegating
<1>2. /\ content.nodes \in Seq(StakeChange) /\ content.delegates \in Seq(DelegationChange)
      /\ content.treasury \in Int
  BY ReportedTyped
<1>3. /\ content.treasury >= 0
      /\ \A i \in 1 .. Len(content.nodes) : content.nodes[i].amount >= 0
      /\ \A i \in 1 .. Len(content.delegates) : content.delegates[i].amount >= 0
      /\ \A n \in Address : AmountTo(content.nodes, n) = DelegatedAmount(content.delegates, n)
      /\ content.treasury + SumFunction([n \in Address |-> AmountTo(content.nodes, n)])
           = Fees(content)
  BY DEF Fair
<1>4. delegatesOf' \in Delegating
  BY <1>1, <1>2, DelegationsShared
<1>5. \A n \in Address : stakeOf'[n] = stakeOf[n] + AmountTo(content.nodes, n)
  BY <1>1, <1>2, <1>3, StakesShared
<1>6. \A n \in Address : To(delegatesOf', n) = To(delegatesOf, n) + AmountTo(content.nodes, n)
  BY <1>1, <1>2, <1>3, DelegationsShared
<1>7. \A n \in Address : AmountTo(content.nodes, n) \in Int
  BY <1>2, AmountsTyped
<1>8. \A n \in Address : To(delegatesOf, n) \in Nat
  <2>1. TAKE n \in Address
  <2>2. PICK f : f = [a \in Address |-> delegatesOf[a][n]]
    OBVIOUS
  <2>3. f \in [Address -> Nat]
    BY <1>1, <2>2 DEF Delegating
  <2>4. SumFunction(f) \in Nat
    BY <2>3, SumIsNat, AccountsAssumption
  <2>5. QED
    BY <2>2, <2>4 DEF To
<1>9. PICK f, g, h : /\ f = [n \in Address |-> To(delegatesOf, n)]
                     /\ g = [n \in Address |-> To(delegatesOf', n)]
                     /\ h = [n \in Address |-> AmountTo(content.nodes, n)]
  OBVIOUS
<1>10. SumFunction(g) = SumFunction(f) + SumFunction(h)
  <2>1. \A n \in Address : f[n] \in Int /\ h[n] \in Int /\ g[n] = f[n] + h[n]
    BY <1>6, <1>7, <1>8, <1>9
  <2>2. SumFunctionOnSet(g, Address) = SumFunctionOnSet(f, Address) + SumFunctionOnSet(h, Address)
    BY <2>1, SumAdds, AccountsAssumption
  <2>3. DOMAIN f = Address /\ DOMAIN g = Address /\ DOMAIN h = Address
    BY <1>9
  <2>4. QED
    BY <2>2, <2>3, SumOfAll
<1>11. /\ SumFunction(f) \in Int /\ SumFunction(h) \in Int /\ SumFunction(balanceOf) \in Int
  <2>1. f \in [Address -> Int] /\ h \in [Address -> Int] /\ balanceOf \in [Address -> Int]
    BY <1>1, <1>7, <1>8, <1>9
  <2>2. QED
    BY <2>1, SumIsInt, AccountsAssumption
<1>12. Owed = SumFunction(balanceOf) + SumFunction(f) + treasurySupply
  BY <1>1, <1>9, OwedTo
<1>13. Owed' = SumFunction(balanceOf') + SumFunction(g) + treasurySupply'
  <2>1. PICK x, y : /\ x = [a \in Address |-> DelegatedBy(a)']
                    /\ y = [a \in Address |-> SumFunction(delegatesOf'[a])]
    OBVIOUS
  <2>2. x = y
    BY <2>1 DEF DelegatedBy
  <2>3. SumFunction(y) = SumFunction(g)
    BY <1>4, <1>9, <2>1, ByAndTo
  <2>4. QED
    BY <2>1, <2>2, <2>3 DEF Owed
<1>14. treasurySupply' = treasurySupply + content.treasury
  BY <1>1, <1>2, <1>3, ClampedTyped DEF Treasury
<1>15. Fees(content) = content.treasury + SumFunction(h)
  BY <1>3, <1>9
<1>16. Owed' = Owed + Fees(content)
  BY <1>1, <1>2, <1>10, <1>11, <1>12, <1>13, <1>14, <1>15
<1>17. ASSUME NEW n \in Address, Backed(n) PROVE Backed(n)'
  <2>1. DelegatedTo(n) = To(delegatesOf, n)
    BY DEF DelegatedTo, To
  <2>2. DelegatedTo(n)' = To(delegatesOf', n)
    BY DEF DelegatedTo, To
  <2>3. stakeOf[n] <= To(delegatesOf, n)
    BY <1>17, <2>1 DEF Backed
  <2>4. stakeOf'[n] <= To(delegatesOf', n)
    BY <1>1, <1>5, <1>6, <1>7, <1>8, <2>3
  <2>5. QED
    BY <2>2, <2>4 DEF Backed
<1>18. QED
  BY <1>16, <1>17

-------------------------------------------------------------------------------
(* The inductive invariant of the contracts together.                      *)
NetworkInv == /\ NodeInv
              /\ store \in SoundStores
              /\ query \in SoundQueries
              /\ LedgerInv
              /\ TokensConserved
              /\ SupplyCoversHeld
              /\ BooksBalance

LEMMA NetworkStarts == ASSUME Init PROVE NetworkInv
<1>1. NodeInv
  BY NodeStarts DEF Init
<1>2. store \in SoundStores /\ store.held = 0
  <2>1. Stored!EmptyStore \in Stored!State /\ Stored!Agree(Stored!EmptyStore)
    BY Stored!EmptyAgrees, Assumed, TokensAssumption
  <2>2. store = Stored!EmptyStore
    BY DEF Init, Stores!EmptyStore, Stored!EmptyStore
  <2>3. QED
    BY <2>1, <2>2 DEF SoundStores, Stored!EmptyStore
<1>3. SumFunction([a \in Address |-> 0]) = 0
  BY SumOfZeros, AccountsAssumption
<1>4. query \in SoundQueries /\ query.held = 0
  <2>1. query = [balanceOf |-> [a \in Address |-> 0], totalSupply |-> 0, held |-> 0]
    BY DEF Init, Queries!EmptyQuery
  <2>2. QED
    BY <1>3, <2>1 DEF SoundQueries
<1>5. LedgerInv
  BY ReportsAssumption DEF Init, Ledger!Init, Ledger!NoReport, LedgerInv
<1>6. /\ wallet = InitialTokens /\ held = 0 /\ totalSupply = 0 /\ treasurySupply = 0
      /\ balanceOf = [a \in Address |-> 0] /\ stakeOf = [n \in Address |-> 0]
      /\ delegatesOf = [a \in Address |-> [n \in Address |-> 0]]
  BY DEF Init, ManagerInit
<1>7. TokensConserved /\ SupplyCoversHeld
  <2>1. SumFunction(InitialTokens) \in Nat
    BY TokensAssumption, SumIsNat, AccountsAssumption
  <2>2. QED
    BY <1>2, <1>4, <1>6, <2>1 DEF TokensConserved, SupplyCoversHeld
<1>8. BooksBalance
  <2>1. \A n \in Address : DelegatedBy(n) = 0 /\ DelegatedTo(n) = 0
    <3>1. TAKE n \in Address
    <3>2. delegatesOf[n] = [a \in Address |-> 0]
      BY <1>6
    <3>3. [a \in Address |-> delegatesOf[a][n]] = [a \in Address |-> 0]
      BY <1>6
    <3>4. QED
      BY <1>3, <3>2, <3>3 DEF DelegatedBy, DelegatedTo
  <2>2. [a \in Address |-> DelegatedBy(a)] = [a \in Address |-> 0]
    BY <2>1
  <2>3. Owed = 0
    BY <1>3, <1>6, <2>2 DEF Owed
  <2>4. QED
    BY <1>6, <2>1, <2>3 DEF BooksBalance
<1>9. QED
  BY <1>1, <1>2, <1>4, <1>5, <1>7, <1>8 DEF NetworkInv

(* A step of the node manager, or the owner takes from the treasury.       *)
LEMMA PaymentKeeps ==
    ASSUME NetworkInv, NodeInv', NEW w \in Int, Pays(w), UNCHANGED <<store, query, ledgerVars>>
    PROVE  NetworkInv'
<1>1. /\ SumFunction(wallet') = SumFunction(wallet) + w /\ held' = held - w
      /\ totalSupply' = totalSupply - w /\ Owed' = Owed - w
      /\ \A n \in Address : Backed(n) => Backed(n)'
  BY DEF Pays
<1>2. UNCHANGED <<store, query, reports, lastReportId>>
  BY DEF ledgerVars
<1>3. held \in Nat /\ totalSupply \in Nat /\ SumFunction(wallet) \in Nat
  BY SumsTyped DEF NetworkInv, NodeInv, FundTypes
<1>4. store.held \in Nat /\ query.held \in Nat
  BY QueryTyped DEF NetworkInv, SoundStores, Stored!State
<1>5. store' \in SoundStores /\ query' \in SoundQueries /\ LedgerInv'
  BY <1>2 DEF NetworkInv, LedgerInv
<1>6. TokensConserved' /\ SupplyCoversHeld'
  BY <1>1, <1>2, <1>3, <1>4 DEF NetworkInv, TokensConserved, SupplyCoversHeld
<1>7. FairSoFar' <=> FairSoFar
  BY <1>2 DEF FairSoFar, ContentOf
<1>8. BooksBalance'
  <2>1. ASSUME FairSoFar
        PROVE  Owed' = totalSupply' /\ \A n \in Address : Backed(n)'
    BY <1>1, <2>1 DEF NetworkInv, BooksBalance, Backed
  <2>2. QED
    BY <1>7, <2>1 DEF BooksBalance, Backed
<1>9. QED
  BY <1>5, <1>6, <1>8 DEF NetworkInv

(* A stake in the store manager or the query manager.                      *)
LEMMA StakeKeeps ==
    ASSUME NetworkInv, NEW a \in Address, NEW amount \in Nat, wallet[a] >= amount,
           wallet' = [wallet EXCEPT ![a] = @ - amount],
           store' \in SoundStores, query' \in SoundQueries,
           store'.held + query'.held = store.held + query.held + amount,
           UNCHANGED <<managerButWallet, ledgerVars>>
    PROVE  NetworkInv'
<1>1. /\ UNCHANGED <<held, totalSupply, balanceOf, delegatesOf, stakeOf, treasurySupply,
                     canPublish, reports, lastReportId>>
      /\ UNCHANGED <<registryVars, accessVars, streamVars>>
  BY DEF managerButWallet, nodeVars, ledgerVars, registryVars, accessVars,
         streamVars
<1>2. FundTypes
  BY DEF NetworkInv, NodeInv
<1>3. /\ wallet \in [Address -> Nat] /\ wallet \in [Address -> Int]
      /\ wallet[a] \in Nat /\ wallet[a] - amount \in Nat
  BY <1>2 DEF FundTypes
<1>4. wallet' \in [Address -> Nat]
  BY <1>3
<1>5. FundTypes'
  BY <1>1, <1>2, <1>4 DEF FundTypes
<1>6. NodeInv'
  BY <1>1, <1>5, RestKept DEF NetworkInv, NodeInv
<1>7. SumFunction(wallet') = SumFunction(wallet) - wallet[a] + (wallet[a] - amount)
  <2>1. PICK v : v = wallet[a] - amount
    OBVIOUS
  <2>2. SumFunction([wallet EXCEPT ![a] = v]) = SumFunction(wallet) - wallet[a] + v
    <3>1. v \in Int /\ wallet \in [Address -> Int] /\ IsFiniteSet(Address)
      BY <1>3, <2>1, AccountsAssumption
    <3>2. QED
      BY ONLY <3>1, a \in Address, SumChanged
  <2>3. wallet' = [wallet EXCEPT ![a] = v]
    BY <2>1
  <2>4. QED
    BY <2>1, <2>2, <2>3
<1>8. /\ held \in Nat /\ SumFunction(wallet) \in Nat
      /\ store.held \in Nat /\ query.held \in Nat /\ store'.held \in Nat /\ query'.held \in Nat
  BY <1>2, SumsTyped, QueryTyped DEF NetworkInv, FundTypes, SoundStores, Stored!State
<1>9. TokensConserved'
  BY <1>1, <1>3, <1>7, <1>8 DEF NetworkInv, TokensConserved
<1>10. SupplyCoversHeld' /\ LedgerInv'
  BY <1>1 DEF NetworkInv, SupplyCoversHeld, LedgerInv
<1>11. BooksBalance'
  <2>1. FairSoFar' <=> FairSoFar
    BY <1>1 DEF FairSoFar, ContentOf
  <2>2. \A n \in Address : /\ DelegatedBy(n)' = DelegatedBy(n)
                           /\ DelegatedTo(n)' = DelegatedTo(n)
    BY <1>1 DEF DelegatedBy, DelegatedTo
  <2>3. Owed' = Owed
    BY <1>1, <2>2 DEF Owed
  <2>4. QED
    BY <1>1, <2>1, <2>2, <2>3 DEF NetworkInv, BooksBalance
<1>12. QED
  BY <1>6, <1>9, <1>10, <1>11 DEF NetworkInv

(* A report.  What is captured is what the two managers lose, at most what *)
(* is billed; and only a report that was accepted bills anything.          *)
LEMMA ProcessKeeps ==
    ASSUME NetworkInv, NEW caller \in Address, NEW id \in Id, ProcessReport(caller, id)
    PROVE  /\ NetworkInv'
           /\ store'.held < store.held \/ query'.held < query.held =>
                 /\ reports[id].height > 0
                 /\ ~reports[id].processed /\ reports'[id].processed
<1>1. PICK content : content = ContentOf(id)
  OBVIOUS
<1>2. content \in Reported
  BY <1>1, ContentReported DEF NetworkInv
<1>3. PICK written, read : written = content.streams /\ read = content.consumers
  OBVIOUS
<1>4. /\ Ledger!Process(id)
      /\ store' = StoreStates(written)[Len(written)]
      /\ query' = QueryStates(read)[Len(read)]
      /\ held' = held + ((store.held - store'.held) + (query.held - query'.held))
      /\ totalSupply' = totalSupply + Fees(content)
      /\ stakeOf' = NodeStakes(content.nodes)
      /\ canPublish' = AccessOf(content.nodes)
      /\ delegatesOf' = Delegations(content.delegates)
      /\ treasurySupply' = Treasury(content.treasury)
      /\ UNCHANGED <<nodeVars, wallet, balanceOf>>
  BY <1>1, <1>3 DEF ProcessReport, Paid
<1>5. /\ written \in Entries(DataStream) /\ read \in Entries(Address)
      /\ content.nodes \in Seq(StakeChange) /\ content.delegates \in Seq(DelegationChange)
      /\ content.treasury \in Int
  BY <1>2, <1>3, ReportedTyped
<1>6. /\ store' \in SoundStores
      /\ store.held \in Nat /\ store'.held \in Nat /\ store'.held <= store.held
      /\ store.held <= store'.held + SumFunction(FeesOf(written))
      /\ Len(written) = 0 => store' = store
  BY <1>4, <1>5, StoresBilled DEF NetworkInv
<1>7. /\ query' \in SoundQueries
      /\ query.held \in Nat /\ query'.held \in Nat /\ query'.held <= query.held
      /\ query.held <= query'.held + SumFunction(FeesOf(read))
      /\ Len(read) = 0 => query' = query
  BY <1>4, <1>5, QueriesBilled DEF NetworkInv
<1>8. /\ SumFunction(FeesOf(written)) \in Nat /\ SumFunction(FeesOf(read)) \in Nat
      /\ Fees(content) = SumFunction(FeesOf(written)) + SumFunction(FeesOf(read))
      /\ Fees(content) \in Nat
  <2>1. /\ SumFunction(FeesOf(written)) \in Nat /\ SumFunction(FeesOf(read)) \in Nat
        /\ Fees(content) \in Nat
    BY <1>2, <1>3, FeesTyped
  <2>2. QED
    BY <1>3, <2>1 DEF Fees
<1>9. PICK paid : paid = (store.held - store'.held) + (query.held - query'.held)
  OBVIOUS
<1>10. paid \in Nat /\ paid <= Fees(content)
  <2>1. PICK s, t, q, r, f, g :
          /\ s = store.held /\ t = store'.held /\ q = query.held /\ r = query'.held
          /\ f = SumFunction(FeesOf(written)) /\ g = SumFunction(FeesOf(read))
    OBVIOUS
  <2>2. /\ s \in Nat /\ t \in Nat /\ t <= s /\ s <= t + f /\ f \in Nat
        /\ q \in Nat /\ r \in Nat /\ r <= q /\ q <= r + g /\ g \in Nat
    BY <1>6, <1>7, <1>8, <2>1
  <2>3. paid = (s - t) + (q - r) /\ Fees(content) = f + g
    BY <1>8, <1>9, <2>1
  <2>4. paid \in Nat /\ paid <= f + g
    BY ONLY <2>2, <2>3
  <2>5. QED
    BY ONLY <2>3, <2>4
<1>11. /\ wallet \in [Address -> Nat] /\ balanceOf \in [Address -> Nat]
       /\ delegatesOf \in Delegating /\ stakeOf \in [Address -> Nat]
       /\ held \in Nat /\ totalSupply \in Nat /\ treasurySupply \in Nat
  BY DEF NetworkInv, NodeInv, FundTypes, Delegating
<1>12. FundTypes'
  <2>1. stakeOf' \in [Address -> Nat]
    BY <1>4, <1>5, <1>11, StakesShared
  <2>2. delegatesOf' \in Delegating
    BY <1>4, <1>5, <1>11, DelegationsShared
  <2>3. treasurySupply' \in Nat
    <3>1. treasurySupply \in Int /\ content.treasury \in Int
      BY <1>5, <1>11
    <3>2. PICK x \in Int : x = treasurySupply + content.treasury
      BY ONLY <3>1
    <3>3. treasurySupply' = Clamped(x)
      BY <1>4, <3>2 DEF Treasury
    <3>4. QED
      BY ONLY <3>2, <3>3, ClampedTyped
  <2>4. held' \in Nat /\ totalSupply' \in Nat
    <3>1. held' = held + paid /\ totalSupply' = totalSupply + Fees(content)
      BY <1>4, <1>9
    <3>2. held \in Nat /\ totalSupply \in Nat /\ paid \in Nat /\ Fees(content) \in Nat
      BY <1>8, <1>10, <1>11
    <3>3. QED
      BY ONLY <3>1, <3>2
  <2>5. QED
    BY <1>4, <1>11, <2>1, <2>2, <2>3, <2>4 DEF FundTypes, Delegating
<1>13. NodeInv'
  <2>1. UNCHANGED <<registryVars, accessVars, streamVars>>
    BY <1>4 DEF nodeVars, registryVars, accessVars, streamVars
  <2>2. StreamKeys \subseteq Stream
    BY DEF NetworkInv, NodeInv, StreamInv, StreamKeys
  <2>3. \A i \in 1 .. Len(content.nodes) : content.nodes[i].id \in Address
    <3>1. \A i \in 1 .. Len(content.nodes) : content.nodes[i] \in StakeChange
      BY <1>5, ChangesTyped
    <3>2. QED
      BY <3>1 DEF StakeChange
  <2>4. \A r \in canPublish' :
           r \in canPublish \/ (r \in Stream \X Address /\ r[1] \in StreamKeys)
    BY <1>4, <2>2, <2>3 DEF AccessOf
  <2>5. canPublish' \subseteq Stream \X Address
    BY <2>4 DEF NetworkInv, NodeInv
  <2>6. QED
    BY <1>12, <2>1, <2>4, <2>5, RestKept DEF NetworkInv
<1>14. LedgerInv' /\ \A i \in Id : reports[i].processed => reports'[i] = reports[i]
  BY <1>4, LedgerKept DEF NetworkInv
<1>15. TokensConserved'
  <2>1. SumFunction(wallet) \in Nat
    BY <1>11, SumIsNat, AccountsAssumption
  <2>2. SumFunction(wallet) + held + store.held + query.held = SumFunction(InitialTokens)
    BY DEF NetworkInv, TokensConserved
  <2>3. SumFunction(wallet') + held' + store'.held + query'.held
          = SumFunction(wallet) + held + store.held + query.held
    <3>1. SumFunction(wallet') = SumFunction(wallet) /\ held' = held + paid
      BY <1>4, <1>9
    <3>2. PICK x, y, z, y1, z1 :
             /\ x = SumFunction(wallet) /\ y = store.held /\ z = query.held
             /\ y1 = store'.held /\ z1 = query'.held
      OBVIOUS
    <3>3. /\ x \in Nat /\ held \in Nat /\ y \in Nat /\ z \in Nat /\ y1 \in Nat /\ z1 \in Nat
          /\ held' = held + ((y - y1) + (z - z1))
      BY <1>6, <1>7, <1>9, <1>11, <2>1, <3>1, <3>2
    <3>4. x + held' + y1 + z1 = x + held + y + z
      BY ONLY <3>3
    <3>5. QED
      BY <3>1, <3>2, <3>4
  <2>4. QED
    BY <2>2, <2>3 DEF TokensConserved
<1>16. SupplyCoversHeld'
  <2>1. totalSupply >= held
    BY DEF NetworkInv, SupplyCoversHeld
  <2>2. held' = held + paid /\ totalSupply' = totalSupply + Fees(content)
    BY <1>4, <1>9
  <2>3. totalSupply' >= held'
    BY <1>8, <1>10, <1>11, <2>1, <2>2
  <2>4. QED
    BY <2>3 DEF SupplyCoversHeld
<1>17. reports[id] \in [height : Nat, content : Content \cup {NoContent}, processed : BOOLEAN]
  BY DEF NetworkInv, LedgerInv
<1>18. /\ ~reports[id].processed /\ reports'[id].processed
       /\ reports'[id].content = reports[id].content
  BY <1>4, <1>17 DEF Ledger!Process, NetworkInv, LedgerInv
<1>19. BooksBalance'
  <2>1. SUFFICES ASSUME FairSoFar'
                 PROVE  Owed' = totalSupply' /\ \A n \in Address : Backed(n)'
    BY DEF BooksBalance, Backed
  <2>2. FairSoFar
    BY <1>14, <2>1, FairBefore DEF NetworkInv
  <2>3. Owed = totalSupply /\ \A n \in Address : Backed(n)
    BY <2>2 DEF NetworkInv, BooksBalance, Backed
  <2>4. Fair(content)
    <3>1. ContentOf(id)' = content
      BY <1>1, <1>18 DEF ContentOf
    <3>2. Fair(ContentOf(id))'
      BY <1>18, <2>1 DEF FairSoFar
    <3>3. QED
      BY <3>1, <3>2 DEF Fair
  <2>5. /\ Owed' = Owed + Fees(content)
        /\ \A n \in Address : Backed(n) => Backed(n)'
    BY <1>2, <1>4, <2>4, FairShares DEF NetworkInv, NodeInv
  <2>6. QED
    BY <1>4, <2>3, <2>5
<1>20. ASSUME store'.held < store.held \/ query'.held < query.held
       PROVE  reports[id].height > 0
  <2>1. SUFFICES ASSUME reports[id].content = NoContent PROVE FALSE
    BY DEF NetworkInv, LedgerInv
  <2>2. written = <<>> /\ read = <<>>
    BY <1>1, <1>3, <2>1 DEF ContentOf, EmptyContent
  <2>3. store' = store /\ query' = query
    BY <1>6, <1>7, <2>2
  <2>4. QED
    BY <1>6, <1>7, <1>20, <2>3
<1>21. QED
  BY <1>6, <1>7, <1>13, <1>14, <1>15, <1>16, <1>18, <1>19, <1>20 DEF NetworkInv

LEMMA NetworkStep ==
    ASSUME NetworkInv, [Next]_vars
    PROVE  /\ NetworkInv'
           /\ store'.held < store.held \/ query'.held < query.held =>
                 \E id \in Id : /\ reports[id].height > 0
                                /\ ~reports[id].processed /\ reports'[id].processed
<1>1. store.held \in Nat /\ query.held \in Nat
  BY QueryTyped DEF NetworkInv, SoundStores, Stored!State
<1>2. ASSUME UNCHANGED <<store, query>>
      PROVE  ~(store'.held < store.held) /\ ~(query'.held < query.held)
  BY <1>1, <1>2
<1>3. CASE ManagerStep
  <2>1. NodeInv /\ NodeInv'
    BY <1>3, NodeKept DEF ManagerStep, NetworkInv
  <2>2. PICK w \in Int : Pays(w)
    BY <1>3, <2>1, ManagerPays DEF ManagerStep
  <2>3. NetworkInv'
    BY <1>3, <2>1, <2>2, PaymentKeeps DEF ManagerStep
  <2>4. QED
    BY <1>2, <1>3, <2>3 DEF ManagerStep
<1>4. CASE TreasuryStep
  <2>1. PICK amount \in Amounts : TreasuryWithdraw(Owner, amount)
    BY <1>4 DEF TreasuryStep
  <2>2. UNCHANGED <<store, query, ledgerVars>>
    BY <1>4 DEF TreasuryStep
  <2>3. NodeInv' /\ \E w \in Int : Pays(w)
    BY <2>1, TreasuryPays DEF NetworkInv
  <2>4. NetworkInv'
    BY <2>2, <2>3, PaymentKeeps
  <2>5. QED
    BY <1>2, <2>2, <2>4
<1>5. CASE StakeStep
  <2>1. PICK a \in Address, amount \in Amounts :
           \/ \E s \in DataStream : /\ Stores!Stake(a, s, amount)
                                    /\ UNCHANGED <<managerButWallet, query, ledgerVars>>
           \/ /\ Queries!Stake(a, amount)
              /\ UNCHANGED <<managerButWallet, store, ledgerVars>>
    BY <1>5 DEF StakeStep
  <2>2. amount \in Nat
    BY DEF Amounts
  <2>3. ASSUME NEW s \in DataStream, Stores!Stake(a, s, amount),
               UNCHANGED <<managerButWallet, query, ledgerVars>>
        PROVE  NetworkInv' /\ ~(store'.held < store.held) /\ query' = query
    <3>1. /\ store' = Stored!Staked(store, a, s, amount) /\ wallet[a] >= amount
          /\ wallet' = [wallet EXCEPT ![a] = @ - amount]
      BY <2>3 DEF Stores!Stake, Stores!Staked, Stored!Staked, Stores!Listed, Stored!Listed
    <3>2. store' \in SoundStores
      BY <2>2, <3>1, Stored!StakedAgrees, Assumed, TokensAssumption DEF NetworkInv, SoundStores
    <3>3. store'.held = store.held + amount
      BY <3>1 DEF Stored!Staked, NetworkInv, SoundStores, Stored!State
    <3>4. query' \in SoundQueries /\ query' = query
      BY <2>3 DEF NetworkInv
    <3>5. store'.held + query'.held = store.held + query.held + amount /\ ~(store'.held < store.held)
      BY <1>1, <2>2, <3>3, <3>4
    <3>6. UNCHANGED <<managerButWallet, ledgerVars>>
      BY <2>3
    <3>7. QED
      BY <2>2, <3>1, <3>2, <3>4, <3>5, <3>6, StakeKeeps
  <2>4. ASSUME Queries!Stake(a, amount), UNCHANGED <<managerButWallet, store, ledgerVars>>
        PROVE  NetworkInv' /\ ~(query'.held < query.held) /\ store' = store
    <3>1. /\ query' = [query EXCEPT !.balanceOf[a] = @ + amount, !.totalSupply = @ + amount,
                                    !.held = @ + amount]
          /\ wallet[a] >= amount /\ wallet' = [wallet EXCEPT ![a] = @ - amount]
      BY <2>4 DEF Queries!Stake, Queries!Staked
    <3>2. /\ query \in SoundQueries
          /\ query.balanceOf \in [Address -> Nat] /\ query.totalSupply \in Nat
          /\ query.totalSupply <= query.held
          /\ query = [balanceOf |-> query.balanceOf, totalSupply |-> query.totalSupply,
                      held |-> query.held]
      BY QueryTyped DEF NetworkInv
    <3>3. PICK v, total, left : /\ v = query.balanceOf[a] + amount
                                /\ total = query.totalSupply + amount
                                /\ left = query.held + amount
      OBVIOUS
    <3>4. query' = [balanceOf |-> [query.balanceOf EXCEPT ![a] = v], totalSupply |-> total,
                    held |-> left]
      BY <3>1, <3>2, <3>3
    <3>5. /\ query.balanceOf[a] \in Nat /\ v \in Nat /\ total \in Nat
          /\ left = query.held - query.balanceOf[a] + v /\ total <= left
      BY <1>1, <2>2, <3>2, <3>3
    <3>6. query' \in SoundQueries
      BY <3>2, <3>4, <3>5, QueryChanges
    <3>7. query'.held = query.held + amount
      BY <3>3, <3>4
    <3>8. store' \in SoundStores /\ store' = store
      BY <2>4 DEF NetworkInv
    <3>9. store'.held + query'.held = store.held + query.held + amount /\ ~(query'.held < query.held)
      BY <1>1, <2>2, <3>7, <3>8
    <3>10. UNCHANGED <<managerButWallet, ledgerVars>>
      BY <2>4
    <3>11. QED
      BY <2>2, <3>1, <3>6, <3>8, <3>9, <3>10, StakeKeeps
  <2>5. QED
    BY <1>1, <2>1, <2>3, <2>4
<1>6. CASE AcceptStep
  <2>1. PICK id \in Id, height \in 1 .. MaxHeight, content \in Content :
           Ledger!Accept(id, height, content)
    BY <1>6 DEF AcceptStep
  <2>2. UNCHANGED <<managerButWallet, wallet, store, query>>
    BY <1>6 DEF AcceptStep
  <2>3. LedgerInv' /\ \A i \in Id : reports[i].processed => reports'[i] = reports[i]
    BY <2>1, LedgerKept DEF NetworkInv
  <2>4. FairSoFar' => FairSoFar
    BY <2>3, FairBefore DEF NetworkInv
  <2>5. /\ UNCHANGED <<wallet, held, totalSupply, balanceOf, delegatesOf, stakeOf, treasurySupply,
                       canPublish, store, query>>
        /\ UNCHANGED <<registryVars, accessVars, streamVars>>
    BY <2>2 DEF managerButWallet, nodeVars, registryVars, accessVars, streamVars
  <2>6. FundTypes'
    BY <2>5 DEF NetworkInv, NodeInv, FundTypes
  <2>7. NodeInv'
    BY <2>5, <2>6, RestKept DEF NetworkInv, NodeInv
  <2>8. /\ store' \in SoundStores /\ query' \in SoundQueries
        /\ TokensConserved' /\ SupplyCoversHeld'
    BY <2>5 DEF NetworkInv, TokensConserved, SupplyCoversHeld
  <2>9. BooksBalance'
    <3>1. \A n \in Address : /\ DelegatedBy(n)' = DelegatedBy(n)
                             /\ DelegatedTo(n)' = DelegatedTo(n)
      BY <2>5 DEF DelegatedBy, DelegatedTo
    <3>2. Owed' = Owed
      BY <2>5, <3>1 DEF Owed
    <3>3. QED
      BY <2>4, <2>5, <3>1, <3>2 DEF NetworkInv, BooksBalance
  <2>10. QED
    BY <1>2, <2>3, <2>5, <2>7, <2>8, <2>9 DEF NetworkInv
<1>7. CASE ProcessStep
  BY <1>7, ProcessKeeps DEF ProcessStep
<1>8. CASE UNCHANGED vars
  <2>1. UNCHANGED <<store, query, ledgerVars, managerButWallet, wallet>>
    BY <1>8 DEF vars
  <2>2. /\ UNCHANGED <<wallet, held, totalSupply, balanceOf, delegatesOf, stakeOf, treasurySupply,
                       canPublish>>
        /\ UNCHANGED <<registryVars, accessVars, streamVars>>
    BY <2>1 DEF managerButWallet, nodeVars, registryVars, accessVars, streamVars
  <2>3. FundTypes'
    BY <2>2 DEF NetworkInv, NodeInv, FundTypes
  <2>4. NodeInv'
    BY <2>2, <2>3, RestKept DEF NetworkInv, NodeInv
  <2>5. Pays(0)
    BY <2>2, <2>3, IdlePays DEF Idle, NetworkInv, NodeInv
  <2>6. NetworkInv'
    <3>1. 0 \in Int
      OBVIOUS
    <3>2. QED
      BY <2>1, <2>4, <2>5, <3>1, PaymentKeeps
  <2>7. QED
    BY <1>2, <2>1, <2>6
<1>9. QED
  BY <1>3, <1>4, <1>5, <1>6, <1>7, <1>8 DEF Next

LEMMA NetworkSound == Spec => []NetworkInv
<1>1. Init => NetworkInv
  BY NetworkStarts
<1>2. NetworkInv /\ [Next]_vars => NetworkInv'
  BY NetworkStep
<1>3. QED
  BY <1>1, <1>2, PTL DEF Spec

-------------------------------------------------------------------------------
(* Through reports, stakes and captures in any order the four contracts    *)
(* keep agreeing on the tokens.                                            *)
THEOREM BooksAlwaysAgree == Spec => []BooksAgree
<1>1. NetworkInv => BooksAgree
  <2> SUFFICES ASSUME NetworkInv PROVE BooksAgree
    OBVIOUS
  <2>1. ManagerTypes
    <3>1. StreamInv => streams \in Seq(Stream) /\ StreamKeys \subseteq Stream
      BY DEF StreamInv, StreamKeys
    <3>2. QED
      BY <3>1 DEF NetworkInv, NodeInv, FundTypes, StreamInv, StreamsIndexed,
                  WhitelistInv, ManagerTypes
  <2>2. Stores!TypeOK
    BY DEF NetworkInv, NodeInv, FundTypes, SoundStores, Stored!State, Stores!TypeOK
  <2>3. Queries!TypeOK
    BY DEF NetworkInv, NodeInv, FundTypes, SoundQueries, Queries!TypeOK
  <2>4. Ledger!TypeOK
    BY DEF NetworkInv, LedgerInv, Ledger!TypeOK
  <2>5. FeesHeld
    <3>1. store.held = SumFunction(store.stores)
      BY Sums DEF NetworkInv, SoundStores, Stored!Agree
    <3>2. query.held = SumFunction(query.balanceOf)
      BY DEF NetworkInv, SoundQueries
    <3>3. QED
      BY <3>1, <3>2, Sums DEF FeesHeld, Stores!HeldIsStored, Queries!HeldIsStaked
  <2>6. QED
    BY <2>1, <2>2, <2>3, <2>4, <2>5 DEF NetworkInv, TypeOK, BooksAgree
<1>2. QED
  BY <1>1, NetworkSound, PTL

(* Staked fees leave the store and query managers only while a report that *)
(* was accepted turns from not processed to processed: no report bills     *)
(* twice.                                                                  *)
THEOREM ReportsBillOnce == Spec => BilledOnce
<1>1. NetworkInv /\ [Next]_vars
      => [store'.held < store.held \/ query'.held < query.held =>
            \E id \in Id : /\ reports[id].height > 0
                           /\ ~reports[id].processed /\ reports'[id].processed]_vars
  BY NetworkStep
<1>2. QED
  BY <1>1, NetworkSound, PTL DEF Spec, BilledOnce

(* Whatever reports take, the query manager counts no more than it holds.  *)
THEOREM QuerySupplyBounded == Spec => []Queries!SupplyWithinHeld
<1>1. NetworkInv => Queries!SupplyWithinHeld
  BY QueryTyped DEF NetworkInv, Queries!SupplyWithinHeld
<1>2. QED
  BY <1>1, NetworkSound, PTL
===============================================================================
