------------------------------ MODULE SystemReports ------------------------------
(***************************************************************************)
(* Reports: the validator's draft (core/report.ts, utils/report.ts), the   *)
(* system report and its serializer (packages/protocol/src/report), the    *)
(* proof that a broker signs, and the same hash made by the report manager *)
(* contract from its parameters.                                           *)
(*                                                                         *)
(* An object is the sequence of its entries.  A number written in hex is   *)
(* <<"hex", n>>, a text written in hex is <<"utf8", text>>; hashes are the *)
(* packed sequences they are made of.  Events are not part of the hash, nor*)
(* sent to the contract, and left out.                                     *)
(***************************************************************************)
EXTENDS SystemMessages, SequencesExt

Hex(n) == <<"hex", n>>
HexValue(h) == h[2]
StrToHex(text) == <<"utf8", text>>
HexToStr(h) == h[2]

(* Entries of nodes, and of delegates whose values are nodes.              *)
HexNodes(nodes) == [i \in DOMAIN nodes |-> <<nodes[i][1], Hex(nodes[i][2])>>]
ValueNodes(nodes) == [i \in DOMAIN nodes |-> <<nodes[i][1], HexValue(nodes[i][2])>>]

-------------------------------------------------------------------------------
(* ReportSerializerV1.                                                     *)

SerializeReport(r) ==
    [s |-> TRUE, id |-> r.id, height |-> r.height, treasury |-> Hex(r.treasury),
     streams |-> [i \in DOMAIN r.streams |-> [r.streams[i] EXCEPT !.id = StrToHex(@),
                                                                  !.capture = Hex(@)]],
     consumers |-> [i \in DOMAIN r.consumers |-> [r.consumers[i] EXCEPT !.capture = Hex(@)]],
     nodes |-> HexNodes(r.nodes),
     delegates |-> [i \in DOMAIN r.delegates |->
                      <<r.delegates[i][1], HexNodes(r.delegates[i][2])>>]]

DeserializeReport(r) ==
    [s |-> FALSE, id |-> r.id, height |-> r.height, treasury |-> HexValue(r.treasury),
     streams |-> [i \in DOMAIN r.streams |-> [r.streams[i] EXCEPT !.id = HexToStr(@),
                                                                  !.capture = HexValue(@)]],
     consumers |-> [i \in DOMAIN r.consumers |-> [r.consumers[i] EXCEPT !.capture = HexValue(@)]],
     nodes |-> ValueNodes(r.nodes),
     delegates |-> [i \in DOMAIN r.delegates |->
                      <<r.delegates[i][1], ValueNodes(r.delegates[i][2])>>]]

(* serialize and deserialize of SystemReport: only when needed.            *)
Serialized(r) == IF r.s THEN r ELSE SerializeReport(r)
Deserialized(r) == IF r.s THEN DeserializeReport(r) ELSE r

ToContract(report) ==
    LET r == Deserialized(report)
        Column(rows, f) == [i \in DOMAIN rows |-> rows[i][f]]
    IN  [id |-> r.id, blockHeight |-> r.height,
         streams |-> Column(r.streams, "id"),
         writeCaptureAmounts |-> Column(r.streams, "capture"),
         writeBytes |-> Column(r.streams, "bytes"),
         readConsumerAddresses |-> Column(r.consumers, "id"),
         readCaptureAmounts |-> Column(r.consumers, "capture"),
         readBytes |-> Column(r.consumers, "bytes"),
         nodes |-> Column(r.nodes, 1), nodeChanges |-> Column(r.nodes, 2),
         delegates |-> Column(r.delegates, 1),
         delegateNodes |-> [i \in DOMAIN r.delegates |-> Column(r.delegates[i][2], 1)],
         delegateNodeChanges |-> [i \in DOMAIN r.delegates |-> Column(r.delegates[i][2], 2)],
         treasurySupplyChange |-> r.treasury]

PackedNodes(nodes) == FlattenSeq([i \in DOMAIN nodes |-> <<nodes[i][1], nodes[i][2]>>])

Pack_NodesFirst(r) ==                                    \* mutant
    PackedNodes(r.nodes)
    \o FlattenSeq([i \in DOMAIN r.streams |->
                     <<HexToStr(r.streams[i].id), r.streams[i].capture, r.streams[i].bytes>>])
    \o FlattenSeq([i \in DOMAIN r.consumers |->
                     <<r.consumers[i].id, r.consumers[i].capture, r.consumers[i].bytes>>])
Pack(r) ==
    FlattenSeq([i \in DOMAIN r.streams |->
                  <<HexToStr(r.streams[i].id), r.streams[i].capture, r.streams[i].bytes>>])
    \o FlattenSeq([i \in DOMAIN r.consumers |->
                     <<r.consumers[i].id, r.consumers[i].capture, r.consumers[i].bytes>>])
    \o PackedNodes(r.nodes)
    \o FlattenSeq([i \in DOMAIN r.delegates |->
                     <<r.delegates[i][1]>> \o PackedNodes(r.delegates[i][2])])

(* toHash.  A timestamp of 0 is left out.                                  *)
ToHash(report, timestamp) ==
    LET r == Serialized(report)
    IN  <<r.id, r.height>> \o Pack(r) \o <<r.treasury>>
        \o (IF timestamp = 0 THEN <<>> ELSE <<timestamp>>)

(* toProof.  A signature is what it signs and who signed it; the number is *)
(* set when the proof is published.                                        *)
Proof(report, signer, now) ==
    [messageType |-> ProofOfReport, seqNum |-> 0, address |-> signer,
     hash |-> ToHash(report, 0), toth |-> ToHash(report, now), timestamp |-> now,
     signature |-> <<signer, ToHash(report, now)>>]

-------------------------------------------------------------------------------
(* report of ReportManager.sol: the hash over its parameters, and what it  *)
(* stores; getLastReport of the validator reads it back.                   *)

ContractHash(p, proofTimestamp) ==
    LET Zipped(ids, amounts) == FlattenSeq([i \in DOMAIN ids |-> <<ids[i], Hex(amounts[i])>>])
        Rows(ids, amounts, bytes) ==
            FlattenSeq([i \in DOMAIN ids |-> <<ids[i], Hex(amounts[i]), bytes[i]>>])
    IN  <<p.id, p.blockHeight>>
        \o Rows(p.streams, p.writeCaptureAmounts, p.writeBytes)
        \o Rows(p.readConsumerAddresses, p.readCaptureAmounts, p.readBytes)
        \o Zipped(p.nodes, p.nodeChanges)
        \o FlattenSeq([i \in DOMAIN p.delegates |->
                         <<p.delegates[i]>> \o Zipped(p.delegateNodes[i], p.delegateNodeChanges[i])])
        \o <<Hex(p.treasurySupplyChange), proofTimestamp>>

LastReport(p) ==
    LET Row(ids, amounts, bytes, i) == [id |-> ids[i], capture |-> amounts[i], bytes |-> bytes[i]]
        Entries(ids, amounts) == [i \in DOMAIN ids |-> <<ids[i], amounts[i]>>]
    IN  [s |-> FALSE, id |-> p.id, height |-> p.blockHeight, treasury |-> p.treasurySupplyChange,
         streams |-> [i \in DOMAIN p.streams |->
                        Row(p.streams, p.writeCaptureAmounts, p.writeBytes, i)],
         consumers |-> [i \in DOMAIN p.readConsumerAddresses |->
                          Row(p.readConsumerAddresses, p.readCaptureAmounts, p.readBytes, i)],
         nodes |-> Entries(p.nodes, p.nodeChanges),
         delegates |-> [i \in DOMAIN p.delegates |->
                          <<p.delegates[i], Entries(p.delegateNodes[i], p.delegateNodeChanges[i])>>]]

-------------------------------------------------------------------------------
(* The reports as they are before they are serialized.                     *)
PlainReport ==
    [s : {FALSE}, id : Nat, height : Nat, treasury : Int,
     streams : Seq([id : STRING, capture : Int, bytes : Nat]),
     consumers : Seq([id : STRING, capture : Int, bytes : Nat]),
     nodes : Seq(STRING \X Int), delegates : Seq(STRING \X Seq(STRING \X Int))]

(* What the validator reports now: nothing but the key and its block, as   *)
(* the fees are commented out.                                             *)
Draft(key, block) ==
    [s |-> FALSE, id |-> key, height |-> IF key = 0 THEN 0 ELSE block, treasury |-> 0,
     streams |-> <<>>, consumers |-> <<>>, nodes |-> <<>>, delegates |-> <<>>]
================================================================================
