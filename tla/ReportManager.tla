----------------------------- MODULE ReportManager -----------------------------
(***************************************************************************)
(* LogStoreReportManager (contracts/src/ReportManager.sol): brokers submit *)
(* reports signed by other brokers.  The brokers, ordered by reputation,   *)
(* take turns: each may report for reportTimeBuffer, counted from the mean *)
(* time of the signatures.  A report accepted changes the reputations, and *)
(* with them the order of the turns.                                       *)
(*                                                                         *)
(* Of the node manager it calls, two views are kept: the list of nodes,    *)
(* which changes as NodeList says, and which accounts are staked.  A proof *)
(* is a record [signer, timestamp, valid]: valid says that the signature   *)
(* is the signer's, of this report and this timestamp.                     *)
(***************************************************************************)
EXTENDS Naturals, Sequences, FiniteSets

CONSTANTS Address,         \* accounts
          Id, EmptyId,     \* ids of reports; the empty string
          Content, NoContent,  \* what reports account for; of an empty report
          Nobody,          \* address(0)
          Precision,       \* MATH_PRECISION
          Buffer,          \* reportTimeBuffer / MATH_PRECISION
          Timestamps,      \* timestamps of the proofs (a bound for TLC)
          MaxProofs,       \* bound on the number of proofs (for TLC only)
          MaxBlock, MaxTime  \* bounds on block and time (for TLC only)

ASSUME IdAssumption == EmptyId \in Id
ASSUME PrecisionAssumption == Precision \in Nat /\ Precision > 0 /\ Precision % 2 = 0
ASSUME BufferAssumption == Buffer \in Nat \ {0}   \* else the loop of _canReport never ends
ASSUME BlockAssumption == MaxBlock \in Nat \ {0} /\ MaxTime \in Nat
ASSUME TimestampsAssumption == Timestamps \subseteq Nat

VARIABLES block, time,     \* block.number; block.timestamp in milliseconds
          members,         \* _nodeManager.nodeAddresses()
          staked,          \* accounts for which _nodeManager.isStaked
          reputationOf,
          lastReportId,
          reports,         \* [height, content, reporter, processed]
          reportProofs

nodeVars == <<members, staked>>
reportVars == <<reputationOf, lastReportId, reports, reportProofs>>
vars == <<block, time, nodeVars, reportVars>>

Nodes == INSTANCE NodeList WITH order <- members

NoReport == [height |-> 0, content |-> NoContent, reporter |-> Nobody, processed |-> FALSE]

Init == /\ block = 1
        /\ time = 0
        /\ Nodes!Init
        /\ staked = {}
        /\ reputationOf = [a \in Address |-> 0]
        /\ lastReportId = EmptyId
        /\ reports = [id \in Id |-> NoReport]
        /\ reportProofs = [id \in Id |-> <<>>]

-------------------------------------------------------------------------------
(* getReporters: a bubble sort.  Pass compares the first neighbours of a   *)
(* list, as many as count.                                                 *)
OutOfOrder_Ties(a, b) == reputationOf[b] >= reputationOf[a]    \* mutant
OutOfOrder(a, b) == reputationOf[b] > reputationOf[a]

Swapped(list, j) == [list EXCEPT ![j] = list[j + 1], ![j + 1] = list[j]]

Pass(list, count) ==
    LET after[j \in 0 .. count] ==
          IF j = 0 THEN list
          ELSE LET l == after[j - 1]
               IN  IF OutOfOrder(l[j], l[j + 1]) THEN Swapped(l, j) ELSE l
    IN  after[count]

Reporters ==
    LET n == Len(members)
        sorted[i \in 0 .. n - 1] ==
          IF i = 0 THEN members ELSE Pass(sorted[i - 1], n - i)
    IN  sorted[n - 1]

GetReportersReverts == members = <<>>    \* reportersCount - 1 underflows

-------------------------------------------------------------------------------
(* _canReport: whose turn it is.                                           *)

Mean(timestamps) ==                                     \* aggregateTimestamps
    LET sum[i \in 0 .. Len(timestamps)] ==
          IF i = 0 THEN 0 ELSE sum[i - 1] + timestamps[i] * Precision
    IN  sum[Len(timestamps)] \div Len(timestamps)

TimeBuffer == Buffer * Precision
Now == time * Precision                                     \* blockTimestamp

(* The cycle the loop ends at: the first that is not over.                 *)
Cycle_First(n, mean, now) == 0                                 \* mutant
Cycle(n, mean, now) == IF now < mean THEN 0 ELSE (now - mean) \div (TimeBuffer * n)

FromTime(n, mean, now) == Cycle(n, mean, now) * (TimeBuffer * n) + mean

(* Is now in the turn of the i-th of n reporters?                          *)
InTurn_Closed(i, n, mean, now) ==                              \* mutant
    now >= (i - 1) * TimeBuffer + FromTime(n, mean, now)
    /\ now <= i * TimeBuffer + FromTime(n, mean, now)
InTurn(i, n, mean, now) ==
    /\ now >= (i - 1) * TimeBuffer + FromTime(n, mean, now)
    /\ now < i * TimeBuffer + FromTime(n, mean, now)

CanReport(reporter, order, timestamps) ==
    \E i \in 1 .. Len(order) :
       order[i] = reporter /\ InTurn(i, Len(order), Mean(timestamps), Now)

-------------------------------------------------------------------------------
(* report.                                                                 *)

IsHalf(count, n) == count * Precision >= (n * Precision) \div 2

(* quorumIsMet: of the reporters, who is among the signers named?          *)
QuorumIsMet(proofs, order) ==
    IsHalf(Cardinality({i \in 1 .. Len(order) :
                           \E j \in 1 .. Len(proofs) : proofs[j].signer = order[i]}),
           Len(order))

(* The proof of a reporter is the last that names it.                      *)
Given(a, proofs) == {j \in 1 .. Len(proofs) : proofs[j].signer = a}
ProofOf(a, proofs) == proofs[CHOOSE j \in Given(a, proofs) :
                                \A k \in Given(a, proofs) : k <= j]
Verified(a, proofs) == Given(a, proofs) # {} /\ ProofOf(a, proofs).valid

VerifiedPlaces(order, proofs) == {i \in 1 .. Len(order) : Verified(order[i], proofs)}

(* Whoever is not verified costs the signer named at its own place in      *)
(* addresses its reputation; without one, the access fails.                *)
ResetsExist(order, proofs) ==
    \A i \in 1 .. Len(order) : ~Verified(order[i], proofs) => i <= Len(proofs)

Demerit(reputation) == IF reputation >= 5 THEN reputation - 5 ELSE 0

Merit_Same(reputation) == reputation + 10                      \* mutant
Merit(reputation) == reputation + 1

(* The reputations after the i-th of the reporters.                        *)
Adjusted(reputation, i, sender, order, proofs) ==
    LET a == order[i]
        led == \E k \in 1 .. (i - 1) : order[k] = sender /\ Verified(sender, proofs)
    IN  IF ~Verified(a, proofs) THEN [reputation EXCEPT ![proofs[i].signer] = 0]
        ELSE IF a = sender THEN [reputation EXCEPT ![a] = @ + 10]
        ELSE IF led THEN [reputation EXCEPT ![a] = Merit(@)]
        ELSE [reputation EXCEPT ![a] = Demerit(@)]

ReputationAfter(sender, order, proofs) ==
    LET after[i \in 0 .. Len(order)] ==
          IF i = 0 THEN reputationOf
          ELSE Adjusted(after[i - 1], i, sender, order, proofs)
    IN  after[Len(order)]

(* The proofs verified, in the order of the reporters.                     *)
ProofsKept(order, proofs) ==
    LET kept[i \in 0 .. Len(order)] ==
          IF i = 0 THEN <<>>
          ELSE IF Verified(order[i], proofs)
               THEN Append(kept[i - 1], ProofOf(order[i], proofs))
               ELSE kept[i - 1]
    IN  kept[Len(order)]

Open(id) == ~reports[id].processed

FreshHeight_Any(height) == height <= block                     \* mutant
FreshHeight(height) == height <= block /\ height > reports[lastReportId].height

ConsensusMet_Any(order, proofs) == TRUE                        \* mutant
ConsensusMet(order, proofs) ==
    IsHalf(Cardinality(VerifiedPlaces(order, proofs)), Len(order))

Timed(proofs) == [j \in 1 .. Len(proofs) |-> proofs[j].timestamp]

(* Every require of report, and every panic.                               *)
Accepts(sender, id, height, proofs) ==
    /\ sender \in staked
    /\ Open(id)
    /\ FreshHeight(height)
    /\ ~GetReportersReverts
    /\ LET order == Reporters IN
       /\ QuorumIsMet(proofs, order)
       /\ CanReport(sender, order, Timed(proofs))
       /\ ResetsExist(order, proofs)
       /\ ConsensusMet(order, proofs)

Accepted(id, height, content, sender) ==
    [height |-> height, content |-> content, reporter |-> sender, processed |-> FALSE]

Report(sender, id, height, content, proofs) ==
    /\ Accepts(sender, id, height, proofs)
    /\ reports' = [reports EXCEPT ![id] = Accepted(id, height, content, sender)]
    /\ lastReportId' = id
    /\ reportProofs' = [reportProofs EXCEPT ![id] = ProofsKept(Reporters, proofs)]
    /\ reputationOf' = ReputationAfter(sender, Reporters, proofs)
    /\ UNCHANGED <<block, time, nodeVars>>

(* processReport, called by the node manager, which requires first that    *)
(* the report is not processed (NodeManager.sol:225).                      *)
ProcessReport(id) ==
    /\ ~reports[id].processed
    /\ reports' = [reports EXCEPT ![id].processed = TRUE]
    /\ UNCHANGED <<block, time, nodeVars, reputationOf, lastReportId, reportProofs>>

-------------------------------------------------------------------------------
(* What happens around the contract: blocks, and what the node manager     *)
(* does to its nodes and their stake.                                      *)

NextBlock == /\ block < MaxBlock
             /\ block' = block + 1
             /\ time' \in (time + 1) .. MaxTime
             /\ UNCHANGED <<nodeVars, reportVars>>

NodeStep == /\ Nodes!Next
            /\ staked' = staked \cap {members'[i] : i \in 1 .. Len(members')}
            /\ UNCHANGED <<block, time, reportVars>>

StakeStep == /\ \E a \in Address : staked' = staked \cup {a} \/ staked' = staked \ {a}
             /\ UNCHANGED <<block, time, members, reportVars>>

Proof == [signer : Address, timestamp : Timestamps, valid : BOOLEAN]

ReportStep ==
    \E sender \in staked, id \in Id, height \in 1 .. block, content \in Content,
       count \in 1 .. MaxProofs :
       \E proofs \in [1 .. count -> Proof] : Report(sender, id, height, content, proofs)

ProcessStep == \E id \in Id : ProcessReport(id)

Next == NextBlock \/ NodeStep \/ StakeStep \/ ReportStep \/ ProcessStep

Spec == Init /\ [][Next]_vars

-------------------------------------------------------------------------------
Members == Nodes!Members

(* Types of the state.                                                     *)
TypeOK == /\ block \in 1 .. MaxBlock /\ time \in 0 .. MaxTime
          /\ members \in Seq(Address) /\ staked \subseteq Address
          /\ reputationOf \in [Address -> Nat]
          /\ lastReportId \in Id
          /\ reports \in [Id -> [height : Nat, content : Content \cup {NoContent},
                                 reporter : Address \cup {Nobody}, processed : BOOLEAN]]
          /\ reportProofs \in [Id -> Seq(Proof)]

(* The list of reporters is the list of nodes, the most reputed first and, *)
(* among equals, the one that registered first: the order every broker     *)
(* works out for itself.                                                   *)
Place(list, a) == CHOOSE i \in 1 .. Len(list) : list[i] = a

ReportersOrdered ==
    ~GetReportersReverts =>
       LET order == Reporters IN
       /\ Len(order) = Len(members)
       /\ {order[i] : i \in 1 .. Len(order)} = Members
       /\ \A i, j \in 1 .. Len(order) : i < j =>
             LET a == order[i]  b == order[j]
             IN  \/ reputationOf[a] > reputationOf[b]
                 \/ /\ reputationOf[a] = reputationOf[b]
                    /\ Place(members, a) < Place(members, b)

(* The types are kept and the reporters ordered, whatever reputations the  *)
(* reports gave and took.                                                  *)
ReportersSound == TypeOK /\ ReportersOrdered

(* "(Frontrunning Prevention) Only one reporter at a time": whatever the   *)
(* mean of the timestamps, exactly one node has its turn from then on, and *)
(* none before.                                                            *)
Means == {(t * Precision) \div 2 : t \in 0 .. 2 * MaxTime}

OneReporterAtATime ==
    \A mean \in Means, n \in {Len(members)} \ {0} :
       /\ \A i, j \in 1 .. n : InTurn(i, n, mean, Now) /\ InTurn(j, n, mean, Now) => i = j
       /\ Now >= mean <=> \E i \in 1 .. n : InTurn(i, n, mean, Now)

(* A reporter that misses its turn gets another within one cycle.          *)
EveryoneGetsATurn ==
    \A mean \in Means, n \in {Len(members)} \ {0} : Now >= mean =>
       \A i \in 1 .. n : \E t \in time .. time + n * Buffer - 1 :
          InTurn(i, n, mean, t * Precision)

(* Behind an accepted report stand the valid proofs of at least half of    *)
(* the nodes of that moment, each counted once, however often it is named. *)
Signers(proofs) == {proofs[j].signer : j \in 1 .. Len(proofs)}
NewlyAccepted(id) == reports'[id] # reports[id] /\ ~reports'[id].processed

AcceptedByHalf ==
    [][\A id \in Id : NewlyAccepted(id) =>
          LET kept == reportProofs'[id] IN
          /\ \A j \in 1 .. Len(kept) : kept[j].valid
          /\ Signers(kept) \subseteq Members
          /\ 2 * Cardinality(Signers(kept)) >= Len(members)]_vars

(* A reporter that has all the nodes sign its report gains on every other  *)
(* node, so that the more it reports the earlier its turn comes.           *)
ReporterAdvances ==
    [][\A id \in Id : NewlyAccepted(id) /\ Signers(reportProofs'[id]) = Members =>
          LET sender == reports'[id].reporter IN
          \A a \in Members \ {sender} :
             reputationOf'[sender] + reputationOf[a]
                > reputationOf[sender] + reputationOf'[a]]_vars

(* To the node manager the reports are the ledger of ReportLedger, which   *)
(* does not know how they come to be accepted.                             *)
Ledger == INSTANCE ReportLedger
            WITH Height <- 1 .. MaxBlock,
                 reports <- [id \in Id |-> [height    |-> reports[id].height,
                                            content   |-> reports[id].content,
                                            processed |-> reports[id].processed]]
ImplementsLedger == Ledger!Spec

(* No report, processed or not, is higher than the last one accepted.      *)
LastIsHighest == \A id \in Id : reports[id].height <= reports[lastReportId].height

===============================================================================
