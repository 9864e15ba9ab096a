------------------------------- MODULE NodeList -------------------------------
(***************************************************************************)
(* What the node manager promises of the set of broker nodes: an ordered   *)
(* list without repetitions.  A node that joins goes to the end; a node    *)
(* that leaves is taken out and the others keep their order.  The network  *)
(* reads the list as a whole (nodeAddresses) and every broker derives its  *)
(* turn to report from it, so the order is part of the promise.            *)
(***************************************************************************)
EXTENDS Sequences, Naturals

CONSTANT Address        \* the addresses that may become nodes

VARIABLE order          \* the registered nodes, in order of registration

Members == {order[i] : i \in 1 .. Len(order)}

(* The list without the node it holds at position k.                       *)
Without(k) == [i \in 1 .. (Len(order) - 1) |->
                 IF i < k THEN order[i] ELSE order[i + 1]]

Init == order = <<>>

Join(n) == /\ n \notin Members
           /\ order' = Append(order, n)

Leave(k) == /\ k \in 1 .. Len(order)
            /\ order' = Without(k)

Next == \/ \E n \in Address : Join(n)
        \/ \E k \in 1 .. Len(order) : Leave(k)

Spec == Init /\ [][Next]_order
===============================================================================
