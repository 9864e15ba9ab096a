------------------------------- MODULE ClientChain -------------------------------
(***************************************************************************)
(* What the client reads of the chain: the transactions, one in a block,   *)
(* that stake for a store (event StoreUpdated) or set the metadata of a    *)
(* node, whose http field is its url.                                      *)
(***************************************************************************)
EXTENDS Naturals, Sequences, FiniteSets, SequencesExt

CONSTANTS Store,           \* names of streams; their order is that of numbers
          NodeAddress, Url,
          Null,            \* metadata without a url
          MaxBlocks        \* bound on the chain

ASSUME ChainAssumption == Store \subseteq Nat \ {0} /\ MaxBlocks \in Nat \ {0}

VARIABLE chain

NoBlocks == chain = <<>>

StoreUpdate(s) == [kind |-> "store", store |-> s]
NodeUpdate(n, url) == [kind |-> "node", node |-> n, url |-> url]

AddBlock(tx) == Len(chain) < MaxBlocks /\ chain' = Append(chain, tx)

IsStore(i) == i \in DOMAIN chain /\ chain[i].kind = "store"

(* nodes(n).metadata, as getNodeUrl reads it.                              *)
ContractUrl(n) ==
    LET updates == {i \in DOMAIN chain : chain[i].kind = "node" /\ chain[i].node = n}
    IN  IF updates = {} THEN Null ELSE chain[Max(updates)].url
================================================================================
