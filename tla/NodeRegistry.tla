----------------------------- MODULE NodeRegistry -----------------------------
(***************************************************************************)
(* The broker nodes of LogStoreNodeManager (contracts/src/NodeManager.sol):*)
(* a doubly linked list threaded through the mapping nodes, with headNode, *)
(* tailNode and totalNodes beside it, and startBlockNumber, from which the *)
(* validators count the blocks of the network's history.                   *)
(*                                                                         *)
(* The fields of the struct Node are one function each; a deleted struct   *)
(* has every field 0, and address(0) is Nobody.  The payload of a node     *)
(* (metadata) is left out.  The constructor registers its initial nodes by *)
(* the same calls as upsertNodeAdmin, so that Init is the empty contract.  *)
(***************************************************************************)
EXTENDS Naturals, FiniteSets, Sequences

CONSTANTS Address,      \* the addresses that may become nodes
          Nobody,       \* address(0)
          MaxBlock      \* bound on the block height (for TLC only)

ASSUME NobodyAssumption == Nobody \notin Address
ASSUME MaxBlockAssumption == MaxBlock \in Nat \ {0}

VARIABLES block,             \* height of the block being built; block.timestamp grows with it
          lastSeen,          \* nodes[a].lastSeen, 0 of an address that is no node
          next, prev,        \* nodes[a].next, nodes[a].prev
          index,             \* nodes[a].index
          headNode, tailNode, totalNodes, startBlockNumber

listVars == <<next, prev, index, headNode, tailNode, totalNodes, startBlockNumber>>
registryVars == <<block, lastSeen, next, prev, index, headNode, tailNode, totalNodes,
                  startBlockNumber>>

IsNode(a) == lastSeen[a] # 0
Registered == {a \in Address : IsNode(a)}

RegistryInit ==
    /\ block = 1
    /\ lastSeen = [a \in Address |-> 0]
    /\ next = [a \in Address |-> Nobody]
    /\ prev = [a \in Address |-> Nobody]
    /\ index = [a \in Address |-> 0]
    /\ headNode = Nobody
    /\ tailNode = Nobody
    /\ totalNodes = 0
    /\ startBlockNumber = 0

-------------------------------------------------------------------------------
(* _upsertNode: the first node, one more node, or news of a known node.    *)

Seen(n) == lastSeen' = [lastSeen EXCEPT ![n] = block]

RegisterFirst(n) ==
    /\ ~IsNode(n)
    /\ headNode = Nobody
    /\ headNode' = n
    /\ tailNode' = n
    /\ totalNodes' = totalNodes + 1
    /\ startBlockNumber' = block
    /\ Seen(n)
    /\ UNCHANGED <<block, next, prev, index>>

RegisterNext(n) ==
    /\ ~IsNode(n)
    /\ headNode # Nobody
    /\ next' = [next EXCEPT ![tailNode] = n]
    /\ prev' = [prev EXCEPT ![n] = tailNode]
    /\ index' = [index EXCEPT ![n] = totalNodes]
    /\ tailNode' = n
    /\ totalNodes' = totalNodes + 1
    /\ Seen(n)
    /\ UNCHANGED <<block, headNode, startBlockNumber>>

Refresh(n) ==
    /\ IsNode(n)
    /\ Seen(n)
    /\ UNCHANGED <<block, listVars>>

Upsert(n) == RegisterFirst(n) \/ RegisterNext(n) \/ Refresh(n)

(* _removeNode.  The neighbours of n are joined, then the struct of n is   *)
(* deleted.  The loop that follows starts from removedNode.next, a storage *)
(* reference into the struct just deleted, which reads address(0): it runs *)
(* zero times and no index changes but the deleted one.                    *)

HeadWithout_Tail(n) == IF headNode = n THEN tailNode ELSE headNode   \* mutant
TailWithout_Kept(n) == tailNode                                \* mutant
StartBlockAfter_Reset(head) == 0                               \* mutant
Removable_Unchecked(n) == TRUE                                 \* mutant

NextWithout(n) == [a \in Address |-> IF a = n THEN Nobody
                                     ELSE IF a = prev[n] THEN next[n] ELSE next[a]]
PrevWithout(n) == [a \in Address |-> IF a = n THEN Nobody
                                     ELSE IF a = next[n] THEN prev[n] ELSE prev[a]]
HeadWithout(n) == IF headNode = n THEN next[n] ELSE headNode
TailWithout(n) == IF tailNode = n THEN prev[n] ELSE tailNode
StartBlockAfter(head) == IF head = Nobody THEN 0 ELSE startBlockNumber

Removable(n) == IsNode(n)      \* require(removedNode.lastSeen != 0)

Remove(n) ==
    /\ Removable(n)
    /\ next' = NextWithout(n)
    /\ prev' = PrevWithout(n)
    /\ headNode' = HeadWithout(n)
    /\ tailNode' = TailWithout(n)
    /\ lastSeen' = [lastSeen EXCEPT ![n] = 0]
    /\ index' = [index EXCEPT ![n] = 0]
    /\ totalNodes' = totalNodes - 1
    /\ startBlockNumber' = StartBlockAfter(HeadWithout(n))
    /\ UNCHANGED block

(* The chain goes on between two transactions.                             *)
AdvanceBlock ==
    /\ block < MaxBlock
    /\ block' = block + 1
    /\ UNCHANGED <<lastSeen, listVars>>

RegistryNext ==
    \/ \E n \in Address : Upsert(n) \/ Remove(n)
    \/ AdvanceBlock

RegistrySpec == RegistryInit /\ [][RegistryNext]_registryVars

-------------------------------------------------------------------------------
(* nodeAddresses: an array of totalNodes slots filled by a walk from the   *)
(* head.  The walk is followed one step beyond the array: a node found     *)
(* there is an index out of bounds, on which the call reverts.             *)

Walk == LET step[k \in 1 .. (totalNodes + 1)] ==
              IF k = 1 THEN headNode
              ELSE IF step[k - 1] = Nobody THEN Nobody ELSE next[step[k - 1]]
        IN  step

NodeAddressesReverts == Walk[totalNodes + 1] # Nobody
NodeAddresses == [k \in 1 .. totalNodes |-> Walk[k]]

-------------------------------------------------------------------------------
(* Types of the variables of the list.                                     *)
ListTypes ==
    /\ block \in Nat \ {0}
    /\ lastSeen \in [Address -> Nat]
    /\ next \in [Address -> Address \cup {Nobody}]
    /\ prev \in [Address -> Address \cup {Nobody}]
    /\ index \in [Address -> Nat]
    /\ headNode \in Address \cup {Nobody}
    /\ tailNode \in Address \cup {Nobody}
    /\ totalNodes \in Nat
    /\ startBlockNumber \in Nat

(* s is the list the pointers describe: it names every node once, and the  *)
(* links of each node are its neighbours in s.                             *)
Threads(s, len) ==
    /\ Registered = {s[i] : i \in 1 .. len}
    /\ \A i, j \in 1 .. len : s[i] = s[j] => i = j
    /\ headNode = IF len = 0 THEN Nobody ELSE s[1]
    /\ tailNode = IF len = 0 THEN Nobody ELSE s[len]
    /\ \A i \in 1 .. len :
          /\ next[s[i]] = IF i = len THEN Nobody ELSE s[i + 1]
          /\ prev[s[i]] = IF i = 1 THEN Nobody ELSE s[i - 1]
    /\ \A a \in Address \ Registered : next[a] = Nobody /\ prev[a] = Nobody

(* The pointers always describe a list: no cycle, no node cut off from the *)
(* head, both directions agree, totalNodes is its length and the links of  *)
(* addresses that are no nodes are clear, whatever was added and removed.  *)
WellFormed == \E s \in [1 .. totalNodes -> Address] : Threads(s, totalNodes)

(* The start block belongs to the present population: it is 0 exactly when *)
(* there are no nodes, and no node was last seen before it.                *)
StartBlockFits ==
    /\ (startBlockNumber = 0) <=> (Registered = {})
    /\ \A a \in Registered : startBlockNumber <= lastSeen[a]

(* The start block, the origin of the block ranges every validator bundles,*)
(* never moves while the network has nodes: it only changes in a step that *)
(* registers the first node or removes the last one.                       *)
StartBlockStable ==
    [][startBlockNumber' # startBlockNumber =>
         Registered = {} \/ Registered' = {}]_registryVars

(* The pointers implement the abstract list.                               *)
List == INSTANCE NodeList WITH order <- NodeAddresses
ImplementsNodeList == List!Spec
===============================================================================
