-------------------------------- MODULE ClientProofs --------------------------------
(***************************************************************************)
(* What holds of the client for every value of the constants: of the       *)
(* commands that stake and mint (StakeCommands), of the verification of a  *)
(* query (NetworkValidation), of the lists of stored streams               *)
(* (ClientViews), and of the answer to a query (QueryStream).  The four    *)
(* have no state in common.                                                *)
(***************************************************************************)
EXTENDS StakeCommands, NetworkValidation, ClientViews, QueryStream, Induction, SequenceTheorems

-------------------------------------------------------------------------------
(* The commands that stake and mint.                                       *)

(* A script gets what its stake needs, in stages that wait, and ends with  *)
(* the stake or the mint.                                                  *)
StageType == [do : {"approve", "funds", "stake", "mint"}, asks : BOOLEAN,
              wait : {"none", "plain", "speedUp"}]

Prepares(stage) == \/ stage.do = "funds"
                   \/ stage.do = "approve" /\ stage.wait \in {"plain", "speedUp"}

Leads(script, name) ==
    /\ script \in Seq(StageType) /\ Len(script) \in 1 .. 4
    /\ \A k \in 1 .. Len(script) - 1 : Prepares(script[k]) /\ name # "mintCommand"
    /\ script[Len(script)].do = IF name = "mintCommand" THEN "mint" ELSE "stake"
    /\ name = "mintCommand" => script[Len(script)].wait = "speedUp"
    /\ name # "mintCommand" => \E k \in 1 .. Len(script) - 1 : script[k].do = "approve"

LEMMA ScriptLeads ==
    ASSUME NEW c \in Command, job[c] \in JobType
    PROVE  Leads(Script(c), job[c].script)
<1>1. PICK asks \in BOOLEAN : asks = job[c].asks
  BY DEF JobType
<1> USE DEF StageType, Leads, Prepares, Allow, Stake, Mint, CheckLSANFunds, PrepareStake
<1>2. CASE job[c].script = "queryCommand"
  <2>1. Script(c) = <<Allow(asks, "speedUp"), CheckLSANFunds, Stake("speedUp")>>
    BY <1>1, <1>2 DEF Script, QueryStakeCommand
  <2>2. QED
    BY <1>2, <2>1
<1>3. CASE job[c].script = "storeCommand"
  <2>1. Script(c) = <<CheckLSANFunds, Allow(asks, "speedUp"), PrepareStake, Stake("speedUp")>>
    BY <1>1, <1>3 DEF Script, StoreStakeCommand
  <2>2. QED
    BY <1>3, <2>1
<1>4. CASE job[c].script = "mintCommand"
  <2>1. Script(c) = <<Mint>>
    BY <1>4 DEF Script, MintCommand
  <2>2. QED
    BY <1>4, <2>1
<1>5. CASE job[c].script = "queryStake"
  <2>1. Script(c) = <<PrepareStake, Stake("plain")>>
    BY <1>5 DEF Script, QueryStake
  <2>2. QED
    BY <1>5, <2>1
<1>6. CASE job[c].script = "stakeOrCreateStore"
  <2>1. Script(c) = <<PrepareStake, Stake("none")>>
    BY <1>6 DEF Script, StakeOrCreateStore
  <2>2. QED
    BY <1>6, <2>1
<1>7. QED
  BY <1>2, <1>3, <1>4, <1>5, <1>6 DEF JobType

-------------------------------------------------------------------------------
(* The chain: one transaction is mined under each nonce, and those that    *)
(* are pending have later ones.                                            *)
Transaction == [do : {"approve", "stake", "mint"}, to : Manager, amount : Nat, nonce : Nat,
                tip : Nat, status : {"pending", "done", "reverted", "dropped"}, by : Command]

ChainSound ==
    /\ txs \in Seq(Transaction)
    /\ \A i \in Mined : txs[i].nonce <= Cardinality(Mined)
    /\ \A i, j \in Mined : txs[i].nonce = txs[j].nonce => i = j
    /\ \A i \in Pending : txs[i].nonce > Cardinality(Mined)
    /\ Mined # {} => \E i \in Mined : txs[i].nonce = Cardinality(Mined)

(* What is submitted stays as it is, but that pending ones are settled;    *)
(* and c submits nothing.                                                  *)
SettledFrom(old, new) ==
    /\ new.by = old.by /\ new.do = old.do /\ new.nonce = old.nonce
    /\ new.to = old.to /\ new.amount = old.amount
    /\ old.status # "pending" => new.status = old.status

GoesOn(c) ==
    /\ \A i \in DOMAIN txs : i \in DOMAIN txs' /\ SettledFrom(txs[i], txs'[i])
    /\ \A i \in DOMAIN txs' : i \notin DOMAIN txs => txs'[i].by # c

LEMMA MinedFinite ==
    ASSUME txs \in Seq(Transaction)
    PROVE  IsFiniteSet(Mined) /\ Cardinality(Mined) \in Nat
<1>1. PICK n \in Nat : n = Len(txs) /\ DOMAIN txs = 1 .. n
  OBVIOUS
<1>2. IsFiniteSet(1 .. n)
  BY ONLY <1>1, FS_Interval
<1>3. Mined \subseteq 1 .. n
  BY <1>1 DEF Mined
<1>4. QED
  BY ONLY <1>2, <1>3, FS_Subset, FS_CardinalityType

LEMMA MineTxs ==
    ASSUME ChainSound, NEW i, Mine(i)
    PROVE  /\ i \in Pending /\ txs[i].nonce = NextNonce
           /\ DOMAIN txs' = DOMAIN txs
           /\ \A k \in DOMAIN txs : SettledFrom(txs[k], txs'[k])
           /\ txs'[i].status = IF Goes(txs[i]) THEN "done" ELSE "reverted"
           /\ \A k \in DOMAIN txs : k # i => txs'[k].status = IF k \in Pending /\ txs[k].nonce = NextNonce
                                                           THEN "dropped" ELSE txs[k].status
           /\ txs' \in Seq(Transaction)
<1>1. PICK n \in Nat : n = Len(txs) /\ DOMAIN txs = 1 .. n
  BY DEF ChainSound
<1>2. \A k \in 1 .. n : txs[k] \in Transaction
  BY <1>1 DEF ChainSound
<1>3. i \in Pending /\ txs[i].nonce = NextNonce /\ i \in 1 .. n /\ txs[i].status = "pending"
  BY <1>1 DEF Mine, Pending
<1>4. PICK last \in {"done", "reverted"} : last = IF Goes(txs[i]) THEN "done" ELSE "reverted"
  OBVIOUS
<1>5. txs' = [k \in 1 .. n |->
                 IF k = i THEN [txs[k] EXCEPT !.status = last]
                 ELSE IF k \in Pending /\ txs[k].nonce = NextNonce
                      THEN [txs[k] EXCEPT !.status = "dropped"] ELSE txs[k]]
  BY <1>1, <1>4 DEF Mine
<1>6. ASSUME NEW k \in 1 .. n
      PROVE  /\ txs'[k] \in Transaction /\ SettledFrom(txs[k], txs'[k])
             /\ k = i => txs'[k].status = last
             /\ k # i => txs'[k].status = IF k \in Pending /\ txs[k].nonce = NextNonce
                                         THEN "dropped" ELSE txs[k].status
  <2>1. txs[k] \in Transaction
    BY <1>2
  <2>2. CASE k = i
    <3>1. txs'[k] = [txs[k] EXCEPT !.status = last]
      BY <1>5, <2>2
    <3>2. QED
      BY <1>3, <2>1, <2>2, <3>1 DEF Transaction, SettledFrom
  <2>3. CASE k # i /\ k \in Pending /\ txs[k].nonce = NextNonce
    <3>1. txs'[k] = [txs[k] EXCEPT !.status = "dropped"]
      BY <1>5, <2>3
    <3>2. QED
      BY <2>1, <2>3, <3>1 DEF Transaction, SettledFrom, Pending
  <2>4. CASE k # i /\ ~ (k \in Pending /\ txs[k].nonce = NextNonce)
    <3>1. txs'[k] = txs[k]
      BY <1>5, <2>4
    <3>2. QED
      BY <2>1, <2>4, <3>1 DEF Transaction, SettledFrom
  <2>5. QED
    BY <2>2, <2>3, <2>4
<1>7. txs' \in Seq(Transaction) /\ DOMAIN txs' = 1 .. n
  <2>1. DOMAIN txs' = 1 .. n /\ txs' \in [1 .. n -> Transaction]
    BY <1>5, <1>6
  <2>2. QED
    BY <2>1
<1>8. QED
  BY <1>1, <1>3, <1>4, <1>6, <1>7

LEMMA MineChain ==
    ASSUME ChainSound, NEW i, Mine(i)
    PROVE  /\ ChainSound' /\ \A c : GoesOn(c)
           /\ Mined' = Mined \union {i} /\ Pending' \subseteq Pending \ {i}
           /\ \A k \in Pending' : txs'[k].nonce # txs'[i].nonce
<1>1. /\ i \in Pending /\ txs[i].nonce = NextNonce
      /\ DOMAIN txs' = DOMAIN txs
      /\ \A k \in DOMAIN txs : SettledFrom(txs[k], txs'[k])
      /\ txs'[i].status \in {"done", "reverted"}
      /\ \A k \in DOMAIN txs : k # i => txs'[k].status = IF k \in Pending /\ txs[k].nonce = NextNonce
                                                      THEN "dropped" ELSE txs[k].status
      /\ txs' \in Seq(Transaction)
  BY MineTxs
<1>2. \A c : GoesOn(c)
  BY <1>1 DEF GoesOn
<1>3. i \in DOMAIN txs /\ i \notin Mined
  BY <1>1 DEF Pending, Mined
<1>4. Mined' = Mined \union {i}
  <2>1. ASSUME NEW k \in DOMAIN txs PROVE k \in Mined' <=> k \in Mined \/ k = i
    <3>1. CASE k = i
      BY <1>1, <3>1 DEF Mined
    <3>2. CASE k # i
      BY <1>1, <3>2 DEF Mined, Pending
    <3>3. QED
      BY <3>1, <3>2
  <2>2. QED
    BY <1>1, <1>3, <2>1 DEF Mined
<1>5. PICK m \in Nat : m = Cardinality(Mined)
  BY MinedFinite DEF ChainSound
<1>6. Cardinality(Mined') = m + 1
  BY <1>3, <1>4, <1>5, MinedFinite, FS_AddElement DEF ChainSound
<1>7. \A k \in DOMAIN txs : txs'[k].nonce = txs[k].nonce /\ txs[k].nonce \in Nat
  <2>1. PICK n \in Nat : DOMAIN txs = 1 .. n /\ n = Len(txs)
    BY DEF ChainSound
  <2>2. \A k \in 1 .. n : txs[k] \in Transaction
    BY <2>1 DEF ChainSound
  <2>3. QED
    BY <1>1, <2>1, <2>2 DEF SettledFrom, Transaction
<1>8. txs[i].nonce = m + 1
  BY <1>1, <1>5 DEF NextNonce
<1>9. \A k \in Mined : k \in DOMAIN txs /\ txs[k].nonce <= m
  BY <1>5 DEF ChainSound, Mined
<1>10. \A k \in Mined' : txs'[k].nonce <= m + 1
  BY <1>3, <1>4, <1>5, <1>7, <1>8, <1>9
<1>11. ASSUME NEW k \in Mined', NEW l \in Mined', txs'[k].nonce = txs'[l].nonce PROVE k = l
  <2>1. CASE k \in Mined /\ l \in Mined
    BY <1>7, <1>9, <1>11, <2>1 DEF ChainSound
  <2>2. CASE k = i \/ l = i
    BY <1>3, <1>4, <1>5, <1>7, <1>8, <1>9, <1>11, <2>2
  <2>3. QED
    BY <1>4, <2>1, <2>2
<1>12. ASSUME NEW k \in Pending' PROVE k \in Pending /\ k # i /\ txs'[k].nonce > m + 1
  <2>1. k \in DOMAIN txs /\ k # i /\ txs'[k].status = "pending"
    BY <1>1 DEF Pending
  <2>2. k \in Pending /\ txs[k].nonce # NextNonce
    BY <1>1, <2>1 DEF Pending
  <2>3. txs[k].nonce > m /\ txs[k].nonce # 1 + m
    BY <1>5, <2>2 DEF ChainSound, NextNonce
  <2>4. QED
    BY <1>5, <1>7, <2>1, <2>2, <2>3
<1>13. ChainSound'
  <2>1. \E k \in Mined' : txs'[k].nonce = m + 1
    BY <1>3, <1>4, <1>7, <1>8
  <2>2. QED
    BY <1>1, <1>6, <1>10, <1>11, <1>12, <2>1 DEF ChainSound
<1>14. QED
  BY <1>2, <1>3, <1>4, <1>5, <1>7, <1>8, <1>12, <1>13

LEMMA AcceptChain ==
    ASSUME ChainSound, NEW tx \in Transaction, tx.status = "pending", ~NonceUsed(tx), Accept(tx)
    PROVE  /\ ChainSound' /\ \A c : c # tx.by => GoesOn(c)
           /\ Len(txs) + 1 \notin DOMAIN txs
           /\ DOMAIN txs' = DOMAIN txs \union {Len(txs) + 1}
           /\ \A k \in DOMAIN txs : txs'[k] = txs[k]
           /\ txs'[Len(txs) + 1] = tx
           /\ Mined' = Mined /\ Pending' = Pending \union {Len(txs) + 1}
           /\ UNCHANGED <<wallet, allowance>>
<1>1. PICK n \in Nat : n = Len(txs) /\ DOMAIN txs = 1 .. n
  BY DEF ChainSound
<1>2. txs' = Append(txs, tx) /\ UNCHANGED <<wallet, allowance>>
  BY DEF Accept
<1>3. /\ txs' \in Seq(Transaction) /\ DOMAIN txs' = 1 .. n + 1
      /\ \A k \in 1 .. n : txs'[k] = txs[k]
      /\ txs'[n + 1] = tx
  BY <1>1, <1>2 DEF ChainSound
<1>4. n + 1 \notin 1 .. n /\ 1 .. n + 1 = (1 .. n) \union {n + 1}
  BY <1>1
<1>5. Mined' = Mined /\ Pending' = Pending \union {n + 1}
  BY <1>1, <1>3, <1>4 DEF Mined, Pending
<1>6. PICK m \in Nat : m = Cardinality(Mined)
  BY MinedFinite DEF ChainSound
<1>7. tx.nonce > m
  BY <1>6 DEF NonceUsed, NextNonce, Transaction
<1>8. ChainSound'
  <2>1. Cardinality(Mined') = m
    BY <1>5, <1>6
  <2>2. \A k \in Mined : k \in 1 .. n /\ txs'[k] = txs[k]
    BY <1>1, <1>3 DEF Mined
  <2>3. \A k \in Pending : k \in 1 .. n /\ txs'[k] = txs[k]
    BY <1>1, <1>3 DEF Pending
  <2>4. \A k \in Mined' : txs'[k].nonce <= m
    BY <1>5, <1>6, <2>2 DEF ChainSound
  <2>5. \A k, l \in Mined' : txs'[k].nonce = txs'[l].nonce => k = l
    BY <1>5, <2>2 DEF ChainSound
  <2>6. \A k \in Pending' : txs'[k].nonce > m
    BY <1>3, <1>5, <1>6, <1>7, <2>3 DEF ChainSound
  <2>7. Mined' # {} => \E k \in Mined' : txs'[k].nonce = m
    BY <1>5, <1>6, <2>2 DEF ChainSound
  <2>8. QED
    BY <1>3, <2>1, <2>4, <2>5, <2>6, <2>7 DEF ChainSound
<1>9. ASSUME NEW c, c # tx.by PROVE GoesOn(c)
  BY <1>1, <1>3, <1>4, <1>9 DEF GoesOn, SettledFrom
<1>10. QED
  BY <1>1, <1>2, <1>3, <1>4, <1>5, <1>8, <1>9

-------------------------------------------------------------------------------
(* A command.                                                              *)
Phases == {"begin", "asking", "send", "submit", "waiting"}

WaitType == [watch : SUBSET Nat, base : Nat, raise : {"off", "asking", "raising"}]

RunType == [step : Nat, phase : Phases, amount : Nat, tip : Nat, nonce : Nat, wait : WaitType,
            outcome : {"none", "running", "success", "failed", "declined", "returned"}]

Booked == job \in [Command -> JobType] /\ run \in [Command -> RunType]

LastStage(c) == run[c].step = Len(Script(c))

(* Where it is in its script, and that it waits for transactions of its    *)
(* own, which it submitted under one nonce for this stage.                 *)
StageSound(c) == c \in Running =>
    /\ run[c].step \in 1 .. Len(Script(c))
    /\ run[c].phase # "begin" => Stage(c).do # "funds"

WaitSound(c) == At(c, "waiting") =>
    /\ run[c].wait.watch \subseteq DOMAIN txs /\ run[c].wait.base \in run[c].wait.watch
    /\ \A i \in run[c].wait.watch :
          txs[i].by = c /\ txs[i].do = Stage(c).do /\ txs[i].nonce = run[c].nonce
    /\ Stage(c).wait = "plain" =>
          run[c].wait.watch = {run[c].wait.base} /\ run[c].wait.raise = "asking"

(* Its stakes are those of its last stage, while it waits there; all of    *)
(* them were submitted under the nonce of its last transaction.            *)
OwnSound(c) ==
    /\ run[c].outcome = "none" => Own(c) = {} /\ run[c].phase = "begin"
    /\ c \in Running => Own(c) = IF LastStage(c) /\ run[c].phase = "waiting" THEN run[c].wait.watch ELSE {}
    /\ \A i \in Own(c) : txs[i].nonce = run[c].nonce

ReportSound(c) ==
    /\ run[c].outcome = "success" => Achieved(c) # {} \/ TookAnother(c)
    /\ run[c].outcome = "failed" /\ c \notin hit => Achieved(c) = {} /\ Own(c) \cap Pending = {}

Sound(c) == StageSound(c) /\ WaitSound(c) /\ OwnSound(c) /\ ReportSound(c)

CommandsSound == Booked /\ ChainSound /\ \A c \in Command : Sound(c)

-------------------------------------------------------------------------------
LEMMA SameScript ==
    ASSUME job' = job, NEW c
    PROVE  Script(c)' = Script(c)
BY DEF Script, QueryStakeCommand, StoreStakeCommand, StakeOrCreateStore, MintCommand, QueryStake,
       Allow, Stake, Mint, CheckLSANFunds, PrepareStake

(* What the last stage of a script is, and the others.                     *)
LEMMA StageLeads ==
    ASSUME Booked, NEW c \in Command, StageSound(c), c \in Running
    PROVE  /\ Stage(c) \in StageType /\ Len(Script(c)) \in 1 .. 4
           /\ run[c].step \in 1 .. Len(Script(c))
           /\ LastStage(c) => Stage(c).do \in {"stake", "mint"}
           /\ LastStage(c) /\ Stage(c).do = "mint" => Stage(c).wait = "speedUp"
           /\ ~LastStage(c) => Prepares(Stage(c))
<1>1. Leads(Script(c), job[c].script)
  BY ScriptLeads DEF Booked
<1>2. PICK s, n : s = Script(c) /\ n = Len(s)
  OBVIOUS
<1>3. PICK k : k = run[c].step
  OBVIOUS
<1>4. n \in 1 .. 4 /\ k \in 1 .. n /\ Stage(c) = s[k] /\ s \in Seq(StageType)
  BY <1>1, <1>2, <1>3 DEF StageSound, Leads, Stage
<1>5. s[k] \in StageType
  BY ONLY <1>2, <1>4
<1>6. LastStage(c) <=> k = n
  BY <1>2, <1>3 DEF LastStage
<1>7. k # n => k \in 1 .. n - 1
  BY <1>4
<1>8. QED
  BY <1>1, <1>2, <1>3, <1>4, <1>5, <1>6, <1>7 DEF Leads

LEMMA GotoRuns ==
    ASSUME Booked, NEW c \in Command, NEW phase \in Phases, Goto(c, phase)
    PROVE  /\ run' \in [Command -> RunType] /\ \A d \in Command : d # c => run'[d] = run[d]
           /\ run'[c] = [run[c] EXCEPT !.phase = phase]
<1>1. run[c] \in RunType
  BY DEF Booked
<1>2. [run[c] EXCEPT !.phase = phase] \in RunType
  BY <1>1 DEF RunType
<1>3. run' = [run EXCEPT ![c] = [run[c] EXCEPT !.phase = phase]]
  BY DEF Goto, Booked
<1>4. QED
  BY <1>2, <1>3 DEF Booked

LEMMA EndRuns ==
    ASSUME Booked, NEW c \in Command, NEW result, End(c, result),
           result \in {"success", "failed", "declined", "returned"}
    PROVE  /\ run' \in [Command -> RunType] /\ \A d \in Command : d # c => run'[d] = run[d]
           /\ run'[c].outcome = result /\ run'[c].nonce = run[c].nonce
<1>1. run[c] \in RunType
  BY DEF Booked
<1>2. [run[c] EXCEPT !.outcome = result, !.wait = Idle] \in RunType
  BY <1>1 DEF RunType, WaitType, Idle
<1>3. run' = [run EXCEPT ![c] = [run[c] EXCEPT !.outcome = result, !.wait = Idle]]
  BY DEF End, Booked
<1>4. run'[c] = [run[c] EXCEPT !.outcome = result, !.wait = Idle]
  BY <1>3 DEF Booked
<1>5. run'[c].outcome = result /\ run'[c].nonce = run[c].nonce
  BY <1>1, <1>4 DEF RunType, WaitType, Idle
<1>6. QED
  BY <1>2, <1>3, <1>5 DEF Booked

LEMMA AdvanceRuns ==
    ASSUME Booked, NEW c \in Command, ~LastStage(c), Advance(c)
    PROVE  /\ run' \in [Command -> RunType] /\ \A d \in Command : d # c => run'[d] = run[d]
           /\ run'[c].step = run[c].step + 1 /\ run'[c].phase = "begin"
           /\ run'[c].outcome = run[c].outcome /\ run'[c].amount = run[c].amount
<1>1. run[c] \in RunType
  BY DEF Booked
<1>2. [run[c] EXCEPT !.step = @ + 1, !.phase = "begin", !.wait = Idle] \in RunType
  <2>1. PICK k \in Nat : k = run[c].step + 1
    BY <1>1 DEF RunType
  <2>2. Idle \in WaitType
    BY DEF WaitType, Idle
  <2>3. [run[c] EXCEPT !.step = k, !.phase = "begin", !.wait = Idle] \in RunType
    BY <1>1, <2>2 DEF RunType, Phases
  <2>4. QED
    BY <1>1, <2>1, <2>3 DEF RunType
<1>3. run' = [run EXCEPT ![c].step = @ + 1, ![c].phase = "begin", ![c].wait = Idle]
  BY DEF Advance, LastStage
<1>4. run' = [run EXCEPT ![c] = [run[c] EXCEPT !.step = @ + 1, !.phase = "begin", !.wait = Idle]]
  BY <1>1, <1>3 DEF RunType
<1>5. run'[c] = [run[c] EXCEPT !.step = @ + 1, !.phase = "begin", !.wait = Idle]
  BY <1>4 DEF Booked
<1>6. /\ run'[c].step = run[c].step + 1 /\ run'[c].phase = "begin"
      /\ run'[c].outcome = run[c].outcome /\ run'[c].amount = run[c].amount
  BY <1>1, <1>5 DEF RunType, WaitType, Idle
<1>7. QED
  BY <1>2, <1>4, <1>6 DEF Booked

-------------------------------------------------------------------------------
(* A command is not touched by the chain, nor by another command.          *)
LEMMA OwnGoesOn ==
    ASSUME ChainSound, NEW c, GoesOn(c)
    PROVE  /\ Own(c)' = Own(c)
           /\ Achieved(c) \subseteq Achieved(c)'
           /\ Own(c) \cap Pending = {} => Achieved(c)' = Achieved(c) /\ Own(c)' \cap Pending' = {}
           /\ TookAnother(c) => TookAnother(c)'
<1>1. \A i \in DOMAIN txs : i \in DOMAIN txs' /\ SettledFrom(txs[i], txs'[i])
  BY DEF GoesOn
<1>2. Own(c)' = Own(c)
  BY <1>1 DEF GoesOn, SettledFrom, Own
<1>3. \A i \in Own(c) : i \in DOMAIN txs
  BY DEF Own
<1>4. Achieved(c) \subseteq Achieved(c)'
  BY <1>1, <1>2, <1>3 DEF Achieved, SettledFrom
<1>5. ASSUME Own(c) \cap Pending = {}
      PROVE  Achieved(c)' = Achieved(c) /\ Own(c)' \cap Pending' = {}
  <2>1. \A i \in Own(c) : txs[i].status # "pending" /\ txs'[i].status = txs[i].status
    BY <1>1, <1>3, <1>5 DEF Pending, SettledFrom
  <2>2. QED
    BY <1>2, <2>1 DEF Achieved, Pending
<1>6. ASSUME TookAnother(c) PROVE TookAnother(c)'
  <2>1. PICK i \in Own(c) : \E r \in MinedUnder(i) :
            r \notin Own(c) \/ (txs[r].status = "reverted" /\ Cardinality(Own(c)) > 1)
    BY <1>6 DEF TookAnother
  <2> PICK r \in MinedUnder(i) : r \notin Own(c) \/ (txs[r].status = "reverted" /\ Cardinality(Own(c)) > 1)
    BY <2>1
  <2>2. r \in DOMAIN txs /\ txs[r].status \in {"done", "reverted"} /\ txs[r].nonce = txs[i].nonce
    BY DEF MinedUnder, Mined
  <2>3. txs'[r].status = txs[r].status /\ txs'[r].nonce = txs'[i].nonce /\ r \in DOMAIN txs'
    BY <1>1, <1>3, <2>1, <2>2 DEF SettledFrom
  <2>4. r \in MinedUnder(i)'
    BY <2>2, <2>3 DEF MinedUnder, Mined
  <2>5. i \in Own(c)' /\ (r \notin Own(c)' \/ (txs'[r].status = "reverted" /\ Cardinality(Own(c)') > 1))
    BY <1>2, <2>1, <2>3
  <2>6. QED
    BY <2>4, <2>5 DEF TookAnother
<1>7. QED
  BY <1>2, <1>4, <1>5, <1>6

LEMMA OthersSound ==
    ASSUME ChainSound, NEW c \in Command, Sound(c), GoesOn(c),
           job' = job, run'[c] = run[c], hit \subseteq hit'
    PROVE  Sound(c)'
<1>1. Script(c)' = Script(c) /\ Stage(c)' = Stage(c)
  BY SameScript DEF Stage
<1>2. (c \in Running)' <=> c \in Running
  BY DEF Running
<1>3. At(c, "waiting")' <=> At(c, "waiting")
  BY <1>2 DEF At
<1>4. \A i \in DOMAIN txs : i \in DOMAIN txs' /\ SettledFrom(txs[i], txs'[i])
  BY DEF GoesOn
<1>5. PICK w : w = run[c].wait
  OBVIOUS
<1>6. StageSound(c)'
  BY <1>1, <1>2 DEF Sound, StageSound
<1>7. WaitSound(c)'
  BY <1>1, <1>3, <1>4 DEF Sound, WaitSound, SettledFrom
<1>8. OwnSound(c)'
  <2>1. Own(c)' = Own(c) /\ (LastStage(c)' <=> LastStage(c))
    BY <1>1, OwnGoesOn DEF LastStage
  <2>2. \A i \in Own(c) : i \in DOMAIN txs
    BY DEF Own
  <2>3. \A i \in Own(c) : txs'[i].nonce = run[c].nonce
    BY <1>4, <2>2 DEF SettledFrom, Sound, OwnSound
  <2>4. QED
    BY <1>2, <2>1, <2>3 DEF Sound, OwnSound
<1>9. ReportSound(c)'
  BY OwnGoesOn DEF Sound, ReportSound
<1>10. QED
  BY <1>6, <1>7, <1>8, <1>9 DEF Sound

-------------------------------------------------------------------------------
(* A command acts: what its own run becomes, in the state of the chain.    *)
Acts(c) == /\ run' \in [Command -> RunType] /\ \A d \in Command : d # c => run'[d] = run[d]
           /\ job' = job /\ hit \subseteq hit'

(* It goes on, or ends, without having submitted its stake.                *)
LEMMA BeforeOwn ==
    ASSUME Booked, NEW c \in Command, Acts(c), txs' = txs, Own(c) = {},
           \/ /\ run'[c].outcome = "running" /\ run'[c].phase # "waiting"
              /\ run'[c].step \in 1 .. Len(Script(c))
              /\ run'[c].phase # "begin" => Script(c)[run'[c].step].do # "funds"
           \/ run'[c].outcome \in {"failed", "declined", "returned"}
    PROVE  Sound(c)'
<1>1. Script(c)' = Script(c)
  BY SameScript DEF Acts
<1>2. Own(c)' = {} /\ Achieved(c)' = {}
  BY DEF Own, Achieved
<1>3. StageSound(c)' /\ WaitSound(c)'
  BY <1>1 DEF StageSound, WaitSound, Stage, Running, At
<1>4. OwnSound(c)' /\ ReportSound(c)'
  BY <1>2 DEF OwnSound, ReportSound, Running
<1>5. QED
  BY <1>3, <1>4 DEF Sound

(* It does not wait for its stake, or a call has failed.                   *)
LEMMA LeavesOwn ==
    ASSUME Booked, NEW c \in Command, Acts(c),
           (run'[c].outcome = "failed" /\ c \in hit') \/ run'[c].outcome = "returned",
           \A i \in Own(c)' : txs'[i].nonce = run'[c].nonce
    PROVE  Sound(c)'
<1>1. StageSound(c)' /\ WaitSound(c)'
  BY DEF StageSound, WaitSound, Running, At
<1>2. OwnSound(c)' /\ ReportSound(c)'
  BY DEF OwnSound, ReportSound, Running
<1>3. QED
  BY <1>1, <1>2 DEF Sound

(* The prompt changes, and not what is waited for.                         *)
LEMMA PromptOnly ==
    ASSUME Booked, NEW c \in Command, Sound(c), Acts(c), txs' = txs, At(c, "waiting"),
           NEW raise \in {"off", "asking", "raising"}, Stage(c).wait # "plain",
           run'[c] = [run[c] EXCEPT !.wait = [@ EXCEPT !.raise = raise]]
    PROVE  Sound(c)'
<1>1. Script(c)' = Script(c)
  BY SameScript DEF Acts
<1>2. PICK r, q : r = run[c] /\ q = run'[c]
  OBVIOUS
<1>3. r \in RunType /\ q = [r EXCEPT !.wait = [@ EXCEPT !.raise = raise]]
  BY <1>2 DEF Booked
<1>4. /\ q.step = r.step /\ q.phase = r.phase /\ q.nonce = r.nonce /\ q.outcome = r.outcome
      /\ q.wait.watch = r.wait.watch /\ q.wait.base = r.wait.base
  BY ONLY <1>3 DEF RunType, WaitType
<1>5. c \in Running /\ (c \in Running)' /\ r.outcome = "running" /\ r.phase = "waiting"
  BY <1>2, <1>4 DEF At, Running
<1>6. Stage(c)' = Stage(c) /\ (LastStage(c)' <=> LastStage(c))
  BY <1>1, <1>2, <1>4 DEF Stage, LastStage
<1>7. StageSound(c)'
  BY <1>1, <1>2, <1>4, <1>5, <1>6 DEF Sound, StageSound
<1>8. WaitSound(c)'
  BY <1>2, <1>4, <1>5, <1>6 DEF Sound, WaitSound, At
<1>9. Own(c)' = Own(c)
  BY DEF Own
<1>10. OwnSound(c)'
  BY <1>2, <1>4, <1>5, <1>6, <1>9 DEF Sound, OwnSound
<1>11. ReportSound(c)'
  BY <1>2, <1>4, <1>5 DEF ReportSound
<1>12. QED
  BY <1>7, <1>8, <1>10, <1>11 DEF Sound

(* One more transaction is submitted, and waited for.                      *)
Watched(c) == IF run[c].phase = "waiting" THEN run[c].wait.watch ELSE {}

LEMMA WatchedSound ==
    ASSUME Booked, NEW c \in Command, Sound(c), Acts(c), c \in Running, Stage(c).do # "funds",
           run[c].phase \in {"submit", "waiting"},
           NEW n, n \notin DOMAIN txs, DOMAIN txs' = DOMAIN txs \union {n},
           \A k \in DOMAIN txs : txs'[k] = txs[k],
           txs'[n].by = c, txs'[n].do = Stage(c).do, txs'[n].nonce = run[c].nonce,
           Stage(c).wait = "plain" => Watched(c) = {},
           run'[c].step = run[c].step, run'[c].phase = "waiting", run'[c].nonce = run[c].nonce,
           run'[c].outcome = "running", Stage(c).do \in {"approve", "stake", "mint"},
           run'[c].wait = [watch |-> Watched(c) \union {n}, base |-> n, raise |-> "asking"]
    PROVE  Sound(c)'
<1>0. PICK watch : watch = Watched(c)
  OBVIOUS
<1>1. Script(c)' = Script(c)
  BY SameScript DEF Acts
<1>2. Stage(c)' = Stage(c) /\ (LastStage(c)' <=> LastStage(c)) /\ (c \in Running)'
  BY <1>1 DEF Stage, LastStage, Running
<1>3. /\ watch \subseteq DOMAIN txs
      /\ \A i \in watch : txs[i].by = c /\ txs[i].do = Stage(c).do /\ txs[i].nonce = run[c].nonce
  BY <1>0 DEF Sound, WaitSound, At, Watched
<1>4. StageSound(c)'
  BY <1>1, <1>2 DEF Sound, StageSound
<1>5. \A i \in watch \union {n} : i \in DOMAIN txs' /\ txs'[i].by = c /\ txs'[i].do = Stage(c).do
                               /\ txs'[i].nonce = run[c].nonce
  BY <1>3
<1>6. WaitSound(c)'
  BY <1>0, <1>2, <1>5 DEF WaitSound, At
<1>7. Own(c)' = Own(c) \union (IF Stage(c).do = "approve" THEN {} ELSE {n})
  BY DEF Own
<1>8. LastStage(c) => Stage(c).do \in {"stake", "mint"}
  BY StageLeads DEF Sound
<1>9. ~LastStage(c) => Stage(c).do = "approve"
  BY StageLeads DEF Sound, Prepares
<1>10. Own(c) = IF LastStage(c) THEN watch ELSE {}
  BY <1>0 DEF Sound, OwnSound, Watched
<1>11. Own(c)' = IF LastStage(c) THEN watch \union {n} ELSE {}
  BY <1>7, <1>8, <1>9, <1>10
<1>12. OwnSound(c)'
  BY <1>0, <1>2, <1>5, <1>11 DEF OwnSound
<1>13. ReportSound(c)'
  BY DEF ReportSound
<1>14. QED
  BY <1>4, <1>6, <1>12, <1>13 DEF Sound

(* The last wait is over.  Its transactions are under one nonce, and one   *)
(* of that nonce is mined.                                                 *)
LEMMA WaitOver ==
    ASSUME Booked, ChainSound, NEW c \in Command, Sound(c), Acts(c), txs' = txs,
           At(c, "waiting"), LastStage(c), NEW i \in run[c].wait.watch, NEW r \in Mined, WaitEnds(i, r),
           run'[c].outcome = IF Received(c, i, r) THEN "success" ELSE "failed",
           run'[c].nonce = run[c].nonce
    PROVE  Sound(c)'
<1>1. c \in Running /\ run[c].phase = "waiting"
  BY DEF At
<1>2. Own(c) = run[c].wait.watch
  BY <1>1 DEF Sound, OwnSound
<1>3. Own(c)' = Own(c) /\ Achieved(c)' = Achieved(c) /\ (TookAnother(c)' <=> TookAnother(c))
      /\ Pending' = Pending
  BY DEF Own, Achieved, TookAnother, MinedUnder, Mined, Pending
<1>4. \A j \in Own(c) : txs[j].nonce = run[c].nonce /\ j \in DOMAIN txs /\ txs[j].do # "approve"
  BY DEF Sound, OwnSound, Own
<1>5. r \in Mined /\ r \in MinedUnder(i) /\ txs[r].nonce = run[c].nonce /\ txs[r].status \in {"done", "reverted"}
  BY <1>2, <1>4 DEF WaitEnds, MinedUnder, Mined
<1>6. ASSUME r \in Own(c), txs[r].status = "done" PROVE Achieved(c) # {}
  BY <1>6 DEF Achieved
<1>7. ASSUME NEW j \in Achieved(c) PROVE j = r /\ txs[r].status = "done" /\ r \in Own(c)
  <2>1. j \in Own(c) /\ txs[j].status = "done"
    BY DEF Achieved
  <2>2. j \in Mined /\ txs[j].nonce = txs[r].nonce
    BY <1>4, <1>5, <2>1 DEF Mined
  <2>3. j = r
    BY <1>5, <2>2 DEF ChainSound
  <2>4. QED
    BY <2>1, <2>3
<1>8. ASSUME Received(c, i, r) PROVE Achieved(c) # {} \/ TookAnother(c)
  <2>1. i # r \/ txs[r].status = "done"
    BY <1>8 DEF Received, Receipt, AcceptedReceipt
  <2>2. CASE r \notin Own(c)
    BY <1>2, <1>5, <2>2 DEF TookAnother
  <2>3. CASE r \in Own(c) /\ txs[r].status = "done"
    BY <1>6, <2>3
  <2>4. CASE r \in Own(c) /\ txs[r].status = "reverted" /\ i # r
    <3>1. IsFiniteSet(Own(c)) /\ Cardinality(Own(c)) \in Nat
      <4>1. PICK n \in Nat : n = Len(txs) /\ DOMAIN txs = 1 .. n
        BY DEF ChainSound
      <4>2. Own(c) \subseteq 1 .. n /\ IsFiniteSet(1 .. n)
        BY <1>4, <4>1, FS_Interval
      <4>3. QED
        BY ONLY <4>2, FS_Subset, FS_CardinalityType
    <3>2. Cardinality({i, r}) = 2
      <4>1. IsFiniteSet({i}) /\ Cardinality({i}) = 1 /\ r \notin {i} /\ {i} \union {r} = {i, r}
        BY <2>4, FS_Singleton
      <4>2. Cardinality({i} \union {r}) = Cardinality({i}) + 1
        BY ONLY <4>1, FS_AddElement
      <4>3. QED
        BY ONLY <4>1, <4>2
    <3>3. {i, r} \subseteq Own(c)
      BY <1>2, <2>4
    <3>4. Cardinality(Own(c)) > 1
      BY <3>1, <3>2, <3>3, FS_Subset
    <3>5. QED
      BY <1>2, <1>5, <2>4, <3>4 DEF TookAnother
  <2>5. QED
    BY <1>5, <2>1, <2>2, <2>3, <2>4
<1>9. ASSUME ~Received(c, i, r) PROVE Achieved(c) = {} /\ Own(c) \cap Pending = {}
  <2>1. ~ (r \in Own(c) /\ txs[r].status = "done")
    <3>1. SUFFICES ASSUME r \in Own(c), txs[r].status = "done" PROVE FALSE
      OBVIOUS
    <3>2. Stage(c).wait # "plain"
      <4>1. SUFFICES ASSUME Stage(c).wait = "plain" PROVE FALSE
        OBVIOUS
      <4>2. run[c].wait.watch = {run[c].wait.base}
        BY <4>1 DEF Sound, WaitSound
      <4>3. i = r
        BY <1>2, <3>1, <4>2
      <4>4. QED
        BY <1>9, <3>1, <4>1, <4>3 DEF Received, Receipt
    <3>3. AcceptedReceipt(i, r) /\ Transferred(r)
      BY <1>4, <3>1 DEF AcceptedReceipt, Transferred
    <3>4. QED
      BY <1>9, <3>2, <3>3 DEF Received
  <2>2. Achieved(c) = {}
    BY <1>7, <2>1
  <2>3. ASSUME NEW j \in Own(c), j \in Pending PROVE FALSE
    <3>1. PICK m \in Nat : m = Cardinality(Mined)
      BY MinedFinite DEF ChainSound
    <3>2. PICK x : x = run[c].nonce
      OBVIOUS
    <3>3. x \in Nat
      BY <3>2 DEF Booked, RunType
    <3>4. x > m /\ x <= m
      BY <1>4, <1>5, <2>3, <3>1, <3>2 DEF ChainSound
    <3>5. QED
      BY ONLY <3>1, <3>3, <3>4
  <2>4. QED
    BY <2>2, <2>3
<1>10. StageSound(c)' /\ WaitSound(c)'
  BY DEF StageSound, WaitSound, Running, At
<1>11. OwnSound(c)'
  BY <1>3, <1>4 DEF OwnSound, Running
<1>12. ReportSound(c)'
  BY <1>3, <1>8, <1>9 DEF ReportSound
<1>13. QED
  BY <1>10, <1>11, <1>12 DEF Sound

-------------------------------------------------------------------------------
Stepped(c) == /\ Acts(c) /\ ChainSound' /\ Sound(c)'
              /\ \A d \in Command : d # c => GoesOn(d)

LEMMA ChainStays ==
    ASSUME ChainSound, txs' = txs
    PROVE  ChainSound' /\ \A d : GoesOn(d)
<1>1. Mined' = Mined /\ Pending' = Pending
  BY DEF Mined, Pending
<1>2. ChainSound'
  BY <1>1 DEF ChainSound
<1>3. QED
  BY <1>2 DEF GoesOn, SettledFrom

(* Running, and not waiting with its stake submitted.                      *)
LEMMA NothingOwn ==
    ASSUME NEW c, Sound(c), c \in Running, run[c].phase # "waiting" \/ ~LastStage(c)
    PROVE  Own(c) = {}
BY DEF Sound, OwnSound

LEMMA EndFails ==
    ASSUME CommandsSound, NEW c \in Command, c \in Running, run[c].phase # "waiting" \/ ~LastStage(c),
           NEW result \in {"failed", "declined", "returned"},
           End(c, result), job' = job, hit \subseteq hit', UNCHANGED txs
    PROVE  Stepped(c)
<1> USE DEF CommandsSound
<1>1. Acts(c) /\ run'[c].outcome = result
  <2>1. Booked /\ result \in {"success", "failed", "declined", "returned"} /\ End(c, result)
    OBVIOUS
  <2>2. /\ run' \in [Command -> RunType] /\ \A d \in Command : d # c => run'[d] = run[d]
        /\ run'[c].outcome = result
    BY ONLY <2>1, c \in Command, EndRuns
  <2>3. QED
    BY <2>2 DEF Acts
<1>2. Sound(c)'
  BY <1>1, NothingOwn, BeforeOwn
<1>3. QED
  BY <1>1, <1>2, ChainStays DEF Stepped

LEMMA GotoKeeps ==
    ASSUME CommandsSound, NEW c \in Command, c \in Running, run[c].phase # "waiting",
           NEW phase \in Phases \ {"waiting"}, Stage(c).do # "funds",
           Goto(c, phase), job' = job, hit \subseteq hit', UNCHANGED txs
    PROVE  Stepped(c)
<1> USE DEF CommandsSound
<1>1. run[c] \in RunType /\ run[c].outcome = "running" /\ run[c].step \in 1 .. Len(Script(c))
  BY DEF Booked, Running, Sound, StageSound
<1>2. /\ Acts(c) /\ run'[c].outcome = "running" /\ run'[c].phase = phase /\ run'[c].step = run[c].step
  <2>1. /\ run' \in [Command -> RunType] /\ \A d \in Command : d # c => run'[d] = run[d]
        /\ run'[c] = [run[c] EXCEPT !.phase = phase]
    BY GotoRuns
  <2>2. run'[c].outcome = "running" /\ run'[c].phase = phase /\ run'[c].step = run[c].step
    BY <1>1, <2>1 DEF RunType
  <2>3. QED
    BY <2>1, <2>2 DEF Acts
<1>3. Sound(c)'
  BY <1>1, <1>2, NothingOwn, BeforeOwn DEF Stage
<1>4. QED
  BY <1>2, <1>3, ChainStays DEF Stepped

LEMMA AdvanceKeeps ==
    ASSUME CommandsSound, NEW c \in Command, c \in Running, ~LastStage(c),
           Advance(c), job' = job, hit \subseteq hit', UNCHANGED txs
    PROVE  Stepped(c)
<1> USE DEF CommandsSound
<1>1. run[c] \in RunType /\ run[c].outcome = "running" /\ run[c].step \in 1 .. Len(Script(c))
  BY DEF Booked, Running, Sound, StageSound
<1>2. PICK k \in Nat : k = run[c].step
  BY <1>1 DEF RunType
<1>3. Acts(c) /\ run'[c].outcome = "running" /\ run'[c].phase = "begin" /\ run'[c].step = k + 1
  BY <1>1, <1>2, AdvanceRuns DEF Acts
<1>4. k + 1 \in 1 .. Len(Script(c))
  <2>1. PICK n : n = Len(Script(c))
    OBVIOUS
  <2>2. n \in 1 .. 4 /\ k \in 1 .. n /\ k # n
    BY <1>1, <1>2, <2>1, StageLeads DEF Sound, LastStage
  <2>3. k + 1 \in 1 .. n
    BY ONLY <2>2
  <2>4. QED
    BY <2>1, <2>3
<1>5. Sound(c)'
  BY <1>3, <1>4, NothingOwn, BeforeOwn
<1>6. QED
  BY <1>3, <1>5, ChainStays DEF Stepped

-------------------------------------------------------------------------------
LEMMA Product == ASSUME NEW a \in Nat, NEW b \in Nat PROVE a * b \in Nat
OBVIOUS

LEMMA Quotient == ASSUME NEW a \in Nat, NEW b \in Nat \ {0} PROVE a \div b \in Nat
OBVIOUS

LEMMA AmountsAreNat ==
    ASSUME NEW c \in Command, job[c] \in JobType
    PROVE  AmountsOf(c) \subseteq Nat
<1>1. PICK a \in Nat : a = job[c].amount
  BY DEF JobType
<1>2. PICK unit \in {"wei", "bytes", "usd"} : unit = job[c].unit
  BY DEF JobType
<1>3. \A w \in {"wei", "bytes", "usd"} : Rate[w] \in Nat \ {0}
  BY AccountAssumption
<1>4. ASSUME NEW from \in {"wei", "bytes", "usd"}, NEW to \in {"wei", "bytes", "usd"}
      PROVE  Convert(a, from, to) \in Nat
  <2>1. PICK x, y : x = Rate[from] /\ y = Rate[to]
    OBVIOUS
  <2>2. x \in Nat /\ y \in Nat \ {0}
    BY <1>3, <2>1
  <2>3. a * x \in Nat
    BY ONLY <1>1, <2>2, Product
  <2>4. (a * x) \div y \in Nat
    BY ONLY <2>2, <2>3, Quotient
  <2>5. QED
    BY <2>1, <2>4 DEF Convert
<1>5. ConvertFromUsd(a) \subseteq Nat
  <2>1. PICK x, y : x = Rate["usd"] /\ y = Rate["bytes"]
    OBVIOUS
  <2>2. x \in Nat /\ y \in Nat \ {0} /\ Unit \in Nat
    BY <1>3, <2>1, JobAssumption
  <2>3. PICK b \in Nat : b = a * Unit
    BY ONLY <1>1, <2>2, Product
  <2>4. b * x \in Nat /\ b * 100 \in Nat
    BY ONLY <2>2, <2>3, Product, 100 \in Nat
  <2>5. (b * x) \div y \in Nat
    BY ONLY <2>2, <2>4, Quotient
  <2>6. QED
    BY <2>1, <2>3, <2>4, <2>5 DEF ConvertFromUsd
<1>6. QED
  BY <1>1, <1>2, <1>4, <1>5 DEF AmountsOf

LEMMA TipsAreNat == ASSUME NEW c PROVE FastPriority(c) \subseteq Nat
BY JobAssumption, TipAssumption DEF FastPriority, Overrides

LEMMA BeginKeeps ==
    ASSUME CommandsSound, NEW c \in Command, Begin(c)
    PROVE  Stepped(c)
<1> USE DEF CommandsSound
<1>0. /\ run[c].outcome = "none" /\ UNCHANGED <<chainVars, job, hit>>
      /\ \E amount \in AmountsOf(c), tip \in FastPriority(c) :
          run' = [run EXCEPT ![c].step = 1, ![c].amount = amount, ![c].tip = tip,
                             ![c].outcome = "running"]
  BY Zenon DEF Begin
<1>1. PICK amount \in AmountsOf(c), tip \in FastPriority(c) :
          run' = [run EXCEPT ![c].step = 1, ![c].amount = amount, ![c].tip = tip,
                             ![c].outcome = "running"]
  BY Zenon, <1>0
<1>2. job[c] \in JobType /\ run[c] \in RunType
  BY DEF Booked
<1>3. amount \in Nat /\ tip \in Nat
  BY <1>2, AmountsAreNat, TipsAreNat
<1>4. PICK r : r = [run[c] EXCEPT !.step = 1, !.amount = amount, !.tip = tip, !.outcome = "running"]
  OBVIOUS
<1>5. r \in RunType /\ r.outcome = "running" /\ r.step = 1 /\ r.phase = run[c].phase
  <2>1. PICK q : q = run[c]
    OBVIOUS
  <2>2. q \in RunType /\ r = [q EXCEPT !.step = 1, !.amount = amount, !.tip = tip, !.outcome = "running"]
    BY <1>2, <1>4, <2>1
  <2>3. r \in RunType /\ r.outcome = "running" /\ r.step = 1 /\ r.phase = q.phase
    BY ONLY <1>3, <2>2 DEF RunType, WaitType, Phases
  <2>4. QED
    BY <2>1, <2>3
<1>6. run' = [run EXCEPT ![c] = r]
  BY <1>1, <1>4
<1>7. Acts(c) /\ run'[c] = r
  BY <1>0, <1>5, <1>6 DEF Booked, Acts
<1>8. run[c].outcome = "none" /\ run[c].phase = "begin" /\ Own(c) = {} /\ UNCHANGED txs
  <2>1. Sound(c)
    OBVIOUS
  <2>2. QED
    BY <1>0, <2>1 DEF Sound, OwnSound, chainVars
<1>9. 1 \in 1 .. Len(Script(c))
  <2>1. PICK n : n = Len(Script(c))
    OBVIOUS
  <2>2. n \in 1 .. 4
    BY <1>2, <2>1, ScriptLeads DEF Leads
  <2>3. 1 \in 1 .. n
    BY ONLY <2>2
  <2>4. QED
    BY <2>1, <2>3
<1>10. Sound(c)'
  BY <1>5, <1>7, <1>8, <1>9, BeforeOwn
<1>11. QED
  BY <1>7, <1>8, <1>10, ChainStays DEF Stepped

(* A stage that is not the last.                                           *)
LEMMA NotLast ==
    ASSUME Booked, NEW c \in Command, Sound(c), c \in Running, Stage(c).do \in {"funds", "approve"}
    PROVE  ~LastStage(c)
BY StageLeads DEF Sound

LEMMA CheckFundsKeeps ==
    ASSUME CommandsSound, NEW c \in Command, CheckFunds(c)
    PROVE  Stepped(c)
<1>1. c \in Running /\ run[c].phase = "begin" /\ Stage(c).do = "funds" /\ job' = job /\ hit' = hit /\ UNCHANGED txs
  BY DEF CheckFunds, At, chainVars
<1>2. ~LastStage(c)
  BY <1>1, NotLast DEF CommandsSound
<1>3. End(c, "failed") \/ Advance(c)
  BY DEF CheckFunds
<1>4. QED
  BY <1>1, <1>2, <1>3, EndFails, AdvanceKeeps

LEMMA ReadAllowanceKeeps ==
    ASSUME CommandsSound, NEW c \in Command, ReadAllowance(c)
    PROVE  Stepped(c)
<1>1. c \in Running /\ run[c].phase = "begin" /\ Stage(c).do = "approve" /\ job' = job /\ hit' = hit /\ UNCHANGED txs
  BY DEF ReadAllowance, At, chainVars
<1>2. ~LastStage(c)
  BY <1>1, NotLast DEF CommandsSound
<1>3. End(c, "failed") \/ Advance(c) \/ Goto(c, "asking") \/ Goto(c, "send")
  BY DEF ReadAllowance
<1>4. CASE Goto(c, "asking") \/ Goto(c, "send")
  BY <1>1, <1>4, GotoKeeps DEF Phases
<1>5. QED
  BY <1>1, <1>2, <1>3, <1>4, EndFails, AdvanceKeeps

LEMMA AnswerKeeps ==
    ASSUME CommandsSound, NEW c \in Command, Answer(c)
    PROVE  Stepped(c)
<1>1. c \in Running /\ run[c].phase = "asking" /\ job' = job /\ hit' = hit /\ UNCHANGED txs
  BY DEF Answer, At, chainVars
<1>2. Stage(c).do # "funds"
  BY <1>1 DEF CommandsSound, Sound, StageSound
<1>3. CASE Goto(c, "send")
  BY <1>1, <1>2, <1>3, GotoKeeps DEF Phases
<1>4. CASE End(c, "declined")
  BY <1>1, <1>4, EndFails
<1>5. QED
  BY <1>3, <1>4 DEF Answer

LEMMA GoToSendKeeps ==
    ASSUME CommandsSound, NEW c \in Command, GoToSend(c)
    PROVE  Stepped(c)
<1>1. c \in Running /\ run[c].phase = "begin" /\ Stage(c).do # "funds" /\ Goto(c, "send")
      /\ job' = job /\ hit' = hit /\ UNCHANGED txs
  BY DEF GoToSend, At, chainVars
<1>2. QED
  BY <1>1, GotoKeeps DEF Phases

LEMMA MaxIsThere ==
    ASSUME NEW S, S \subseteq Nat, IsFiniteSet(S), S # {}
    PROVE  Max(S) \in S /\ \A y \in S : Max(S) >= y
<1> DEFINE Bounds == {b \in Nat : \A y \in S : y <= b}
<1>1. Bounds \subseteq Nat /\ Bounds # {}
  BY FiniteBounded
<1>2. \A b : b \in Bounds <=> b \in Nat /\ \A y \in S : y <= b
  OBVIOUS
<1> HIDE DEF Bounds
<1>3. PICK m \in Bounds : \A b \in Bounds : m <= b
  BY ONLY <1>1, MinimalNumber
<1>4. m \in S
  <2>1. SUFFICES ASSUME m \notin S PROVE FALSE
    OBVIOUS
  <2>2. PICK y \in S : y \in Nat
    OBVIOUS
  <2>3. \A z \in S : z \in Nat /\ z <= m /\ z # m
    BY <1>2, <1>3, <2>1
  <2>4. m \in Nat
    BY <1>2, <1>3
  <2>5. m - 1 \in Nat /\ \A z \in S : z <= m - 1
    BY <2>2, <2>3, <2>4
  <2>6. m - 1 \in Bounds
    BY <1>2, <2>5
  <2>7. m <= m - 1
    BY <1>3, <2>6
  <2>8. QED
    BY <2>4, <2>7
<1>5. \E x \in S : \A y \in S : x >= y
  <2>1. \A y \in S : m >= y
    BY <1>2, <1>3
  <2>2. QED
    BY <1>4, <2>1
<1>6. QED
  BY <1>5 DEF Max

LEMMA PendingNonceIsNat ==
    ASSUME ChainSound
    PROVE  PendingNonce \in Nat
<1>1. PICK n \in Nat : n = Len(txs) /\ DOMAIN txs = 1 .. n
  BY DEF ChainSound
<1>2. PICK S : S = Mined \union Pending
  OBVIOUS
<1>3. S \subseteq 1 .. n /\ IsFiniteSet(1 .. n)
  <2>1. S \subseteq DOMAIN txs
    BY <1>2 DEF Mined, Pending
  <2>2. IsFiniteSet(1 .. n)
    BY ONLY <1>1, FS_Interval
  <2>3. QED
    BY <1>1, <2>1, <2>2
<1>4. IsFiniteSet(S)
  BY ONLY <1>3, FS_Subset
<1>5. PICK f : f = [i \in S |-> txs[i].nonce]
  OBVIOUS
<1>6. PICK T : T = {f[i] : i \in S}
  OBVIOUS
<1>7. T \subseteq Nat /\ IsFiniteSet(T)
  <2>1. \A i \in 1 .. n : txs[i] \in Transaction
    BY <1>1 DEF ChainSound
  <2>2. \A i \in S : f[i] \in Nat
    BY <1>3, <1>5, <2>1 DEF Transaction
  <2>3. DOMAIN f = S /\ f = [i \in S |-> f[i]]
    BY ONLY <1>5
  <2>4. f \in Surjection(S, T)
    BY ONLY <1>6, <2>3 DEF Surjection
  <2>5. IsFiniteSet(T)
    BY ONLY <1>4, <2>4, FS_Surjection
  <2>6. QED
    BY ONLY <1>6, <2>2, <2>5
<1>8. PICK U : U = T \union {0}
  OBVIOUS
<1>9. U \subseteq Nat /\ IsFiniteSet(U) /\ U # {}
  BY <1>7, <1>8, FS_AddElement
<1>10. Max(U) \in Nat
  BY ONLY <1>9, MaxIsThere
<1>11. PendingNonce = 1 + Max(U)
  <2>1. T = {txs[i].nonce : i \in S}
    BY <1>5, <1>6
  <2>2. QED
    BY <1>2, <1>8, <2>1 DEF PendingNonce
<1>12. QED
  BY <1>10, <1>11

LEMMA PopulateKeeps ==
    ASSUME CommandsSound, NEW c \in Command, Populate(c)
    PROVE  Stepped(c)
<1> USE DEF CommandsSound
<1>1. c \in Running /\ run[c].phase = "send" /\ job' = job /\ hit' = hit /\ UNCHANGED txs
  BY DEF Populate, At, chainVars
<1>2. CASE End(c, "failed")
  BY <1>1, <1>2, EndFails
<1>3. CASE run' = [run EXCEPT ![c].phase = "submit", ![c].nonce = PendingNonce]
  <2>1. PICK q, n : q = run[c] /\ n = PendingNonce
    OBVIOUS
  <2>2. q \in RunType /\ n \in Nat
    BY <2>1, PendingNonceIsNat DEF Booked
  <2>3. PICK r : r = [q EXCEPT !.phase = "submit", !.nonce = n]
    OBVIOUS
  <2>4. r \in RunType /\ r.outcome = q.outcome /\ r.step = q.step /\ r.phase = "submit"
    BY ONLY <2>2, <2>3 DEF RunType, WaitType, Phases
  <2>5. run' = [run EXCEPT ![c] = r]
    BY <1>3, <2>1, <2>3
  <2>6. Acts(c) /\ run'[c] = r
    BY <1>1, <2>4, <2>5 DEF Booked, Acts
  <2>7. q.outcome = "running" /\ q.step \in 1 .. Len(Script(c)) /\ Script(c)[q.step].do # "funds"
    BY <1>1, <2>1 DEF Running, Sound, StageSound, Stage
  <2>8. Sound(c)'
    BY <1>1, <2>4, <2>6, <2>7, NothingOwn, BeforeOwn
  <2>9. QED
    BY <1>1, <2>6, <2>8, ChainStays DEF Stepped
<1>4. QED
  BY <1>2, <1>3 DEF Populate

LEMMA PromptKeeps ==
    ASSUME CommandsSound, NEW c \in Command, job' = job, hit \subseteq hit', UNCHANGED txs,
           At(c, "waiting"), Stage(c).wait # "plain",
           \/ run' = [run EXCEPT ![c].wait = PressEnter(@)]
           \/ run' = [run EXCEPT ![c].wait = GivenUp(@)]
    PROVE  Stepped(c)
<1> USE DEF CommandsSound
<1>1. PICK raise \in {"off", "raising"} : run' = [run EXCEPT ![c].wait = [@ EXCEPT !.raise = raise]]
  BY DEF PressEnter, GivenUp
<1>2. PICK q, r : q = run[c] /\ r = [q EXCEPT !.wait = [@ EXCEPT !.raise = raise]]
  OBVIOUS
<1>3. q \in RunType /\ r = [q EXCEPT !.wait = [@ EXCEPT !.raise = raise]]
  BY <1>2 DEF Booked
<1>4. r \in RunType
  <2>1. [q.wait EXCEPT !.raise = raise] \in WaitType
    BY <1>3 DEF RunType, WaitType
  <2>2. QED
    BY <1>3, <2>1 DEF RunType
<1>5. run' = [run EXCEPT ![c] = r]
  BY <1>1, <1>2
<1>6. Acts(c) /\ run'[c] = r
  BY <1>4, <1>5 DEF Booked, Acts
<1>7. Sound(c)'
  BY <1>2, <1>6, PromptOnly
<1>8. QED
  BY <1>6, <1>7, ChainStays DEF Stepped

LEMMA WaitKeeps ==
    ASSUME CommandsSound, NEW c \in Command, Wait(c)
    PROVE  Stepped(c)
<1> USE DEF CommandsSound
<1>1. At(c, "waiting") /\ c \in Running /\ job' = job /\ hit' = hit /\ UNCHANGED txs
  BY DEF Wait, At, chainVars
<1>2. PICK i \in run[c].wait.watch : \E r \in Mined :
          WaitEnds(i, r) /\ IF Received(c, i, r) THEN Advance(c) ELSE End(c, "failed")
  BY DEF Wait
<1>3. PICK r \in Mined : WaitEnds(i, r) /\ IF Received(c, i, r) THEN Advance(c) ELSE End(c, "failed")
  BY <1>2
<1>4. CASE ~LastStage(c)
  BY <1>1, <1>3, <1>4, AdvanceKeeps, EndFails
<1>5. CASE LastStage(c)
  <2>1. PICK result : result = IF Received(c, i, r) THEN "success" ELSE "failed"
    OBVIOUS
  <2>2. result \in {"success", "failed", "declined", "returned"} /\ End(c, result)
    BY <1>3, <1>5, <2>1 DEF Advance, LastStage
  <2>3. /\ run' \in [Command -> RunType] /\ \A d \in Command : d # c => run'[d] = run[d]
        /\ run'[c].outcome = result /\ run'[c].nonce = run[c].nonce
    BY ONLY <2>2, Booked, c \in Command, EndRuns
  <2>4. Acts(c)
    BY <1>1, <2>3 DEF Acts
  <2>5. Sound(c)'
    BY <1>1, <1>3, <1>5, <2>1, <2>3, <2>4, WaitOver
  <2>6. QED
    BY <1>1, <2>4, <2>5, ChainStays DEF Stepped
<1>6. QED
  BY <1>4, <1>5

LEMMA TxIsOne ==
    ASSUME Booked, NEW c \in Command, Sound(c), c \in Running, Stage(c).do # "funds"
    PROVE  /\ Tx(c) \in Transaction /\ Tx(c).status = "pending" /\ Tx(c).by = c
           /\ Tx(c).do = Stage(c).do /\ Tx(c).nonce = run[c].nonce
           /\ Stage(c).do \in {"approve", "stake", "mint"}
<1>1. Stage(c) \in StageType
  BY StageLeads DEF Sound
<1>2. PICK do : do = Stage(c).do
  OBVIOUS
<1>3. do \in {"approve", "stake", "mint"}
  BY <1>1, <1>2 DEF StageType
<1>4. run[c] \in RunType /\ job[c] \in JobType
  BY DEF Booked
<1>5. job[c].manager \in Manager /\ run[c].amount \in Nat /\ run[c].nonce \in Nat /\ run[c].tip \in Nat
  BY <1>4 DEF RunType, JobType
<1>6. QED
  BY <1>2, <1>3, <1>5 DEF Tx, Transaction

(* What is submitted leaves the chain sound, and the others alone.         *)
LEMMA SubmitTx ==
    ASSUME ChainSound, NEW c \in Command, NEW tx \in Transaction, tx.by = c, tx.status = "pending",
           ~NonceUsed(tx), Accept(tx), tx.nonce = run[c].nonce, OwnSound(c)
    PROVE  /\ ChainSound' /\ \A d \in Command : d # c => GoesOn(d)
           /\ \A i \in Own(c)' : txs'[i].nonce = run[c].nonce
<1>1. /\ ChainSound' /\ \A d : d # c => GoesOn(d)
      /\ DOMAIN txs' = DOMAIN txs \union {Len(txs) + 1}
      /\ \A k \in DOMAIN txs : txs'[k] = txs[k]
      /\ txs'[Len(txs) + 1] = tx
  BY AcceptChain
<1>2. \A i \in Own(c)' : i \in Own(c) \/ i = Len(txs) + 1
  BY <1>1 DEF Own
<1>3. \A i \in Own(c) : i \in DOMAIN txs
  BY DEF Own
<1>4. QED
  BY <1>1, <1>2, <1>3 DEF OwnSound

LEMMA SubmitKeeps ==
    ASSUME CommandsSound, NEW c \in Command, Submit(c)
    PROVE  Stepped(c)
<1> USE DEF CommandsSound
<1>1. c \in Running /\ run[c].phase = "submit" /\ job' = job /\ hit' = hit
  BY DEF Submit, At
<1>2. CASE NonceUsed(Tx(c)) \/ FeeTooLow(Tx(c))
  <2>1. End(c, "failed") /\ UNCHANGED txs
    BY <1>2 DEF Submit, chainVars
  <2>2. QED
    BY <1>1, <2>1, EndFails
<1>3. CASE ~ (NonceUsed(Tx(c)) \/ FeeTooLow(Tx(c)))
  <2>1. Stage(c).do # "funds"
    BY <1>1 DEF Sound, StageSound
  <2>2. /\ Tx(c) \in Transaction /\ Tx(c).status = "pending" /\ Tx(c).by = c
        /\ Tx(c).do = Stage(c).do /\ Tx(c).nonce = run[c].nonce
        /\ Stage(c).do \in {"approve", "stake", "mint"}
    BY <1>1, <2>1, TxIsOne
  <2>3. PICK tx \in Transaction : tx = Tx(c)
    BY <2>2
  <2>4. Accept(tx) /\ ~NonceUsed(tx)
    BY <1>3, <2>3 DEF Submit
  <2>5. /\ ChainSound' /\ \A d \in Command : d # c => GoesOn(d)
        /\ \A i \in Own(c)' : txs'[i].nonce = run[c].nonce
    BY <2>2, <2>3, <2>4, SubmitTx DEF Sound
  <2>6. CASE Stage(c).wait = "none"
    <3>1. LastStage(c)
      BY <1>1, <2>1, <2>6, StageLeads DEF Sound, Prepares
    <3>2. End(c, "returned")
      BY <1>3, <2>6, <3>1 DEF Submit, LastStage
    <3>3. /\ run' \in [Command -> RunType] /\ \A d \in Command : d # c => run'[d] = run[d]
          /\ run'[c].outcome = "returned" /\ run'[c].nonce = run[c].nonce
      BY <3>2, EndRuns
    <3>4. Acts(c)
      BY <1>1, <3>3 DEF Acts
    <3>5. Sound(c)'
      BY <2>5, <3>3, <3>4, LeavesOwn
    <3>6. QED
      BY <2>5, <3>4, <3>5 DEF Stepped
  <2>7. CASE Stage(c).wait # "none"
    <3>1. run' = [run EXCEPT ![c].phase = "waiting", ![c].wait = Watching(Len(txs) + 1)]
      BY <1>3, <2>7 DEF Submit
    <3>2. PICK n : n = Len(txs) + 1
      OBVIOUS
    <3>3. n \in Nat
      <4>1. PICK m \in Nat : m = Len(txs)
        BY DEF ChainSound
      <4>2. QED
        BY <3>2, <4>1
    <3>4. PICK q, w : q = run[c] /\ w = Watching(n)
      OBVIOUS
    <3>5. w = [watch |-> {n}, base |-> n, raise |-> "asking"] /\ w \in WaitType
      BY <3>3, <3>4 DEF Watching, WaitType
    <3>6. PICK r : r = [q EXCEPT !.phase = "waiting", !.wait = w]
      OBVIOUS
    <3>7. q \in RunType
      BY <3>4 DEF Booked
    <3>8. /\ r \in RunType /\ r.step = q.step /\ r.phase = "waiting" /\ r.nonce = q.nonce
          /\ r.outcome = q.outcome /\ r.wait = w
      BY ONLY <3>5, <3>6, <3>7 DEF RunType, Phases
    <3>9. run' = [run EXCEPT ![c] = r]
      BY <3>1, <3>2, <3>4, <3>6
    <3>10. Acts(c) /\ run'[c] = r
      BY <1>1, <3>8, <3>9 DEF Booked, Acts
    <3>11. /\ n \notin DOMAIN txs /\ DOMAIN txs' = DOMAIN txs \union {n}
           /\ \A k \in DOMAIN txs : txs'[k] = txs[k]
           /\ txs'[n] = tx
      BY <2>2, <2>3, <2>4, <3>2, AcceptChain
    <3>12. q.outcome = "running"
      BY <1>1, <3>4 DEF Running
    <3>13. Watched(c) = {}
      BY <1>1 DEF Watched
    <3>14. run'[c].wait = [watch |-> Watched(c) \union {n}, base |-> n, raise |-> "asking"]
      BY <3>5, <3>8, <3>10, <3>13
    <3>15. Sound(c)'
      <4>1. /\ run'[c].step = run[c].step /\ run'[c].phase = "waiting" /\ run'[c].nonce = run[c].nonce
            /\ run'[c].outcome = "running"
        BY <3>4, <3>8, <3>10, <3>12
      <4>2. txs'[n].by = c /\ txs'[n].do = Stage(c).do /\ txs'[n].nonce = run[c].nonce
        BY <2>2, <2>3, <3>11
      <4>3. Booked /\ Sound(c) /\ run[c].phase \in {"submit", "waiting"}
            /\ (Stage(c).wait = "plain" => Watched(c) = {})
        BY <1>1, <3>13
      <4>4. QED
        BY ONLY c \in Command, <1>1, <2>1, <2>2, <3>10, <3>11, <3>14, <4>1, <4>2, <4>3, WatchedSound
    <3>16. QED
      BY <2>5, <3>10, <3>15 DEF Stepped
  <2>8. QED
    BY <2>6, <2>7
<1>4. QED
  BY <1>2, <1>3

LEMMA RaiseKeeps ==
    ASSUME CommandsSound, NEW c \in Command, Raise(c)
    PROVE  Stepped(c)
<1> USE DEF CommandsSound
<1>1. c \in Running /\ At(c, "waiting") /\ run[c].phase = "waiting" /\ job' = job /\ hit' = hit
  BY DEF Raise, At
<1>2. ASSUME run[c].wait.raise = "raising" PROVE Stage(c).wait # "plain"
  BY <1>1, <1>2 DEF Sound, WaitSound
<1>3. CASE /\ CanGiveUp(run[c].wait)
           /\ run' = [run EXCEPT ![c].wait = GivenUp(@)]
           /\ UNCHANGED chainVars
  BY <1>1, <1>2, <1>3, PromptKeeps DEF CanGiveUp, chainVars
<1>4. CASE /\ CanReplace(run[c].wait)
           /\ Accept(Replacement(run[c].wait.base))
           /\ run' = [run EXCEPT ![c].wait = Replaced(@)]
  <2>1. PICK n : n = Len(txs) + 1
    OBVIOUS
  <2>2. n \in Nat /\ \A k \in DOMAIN txs : txs[k] \in Transaction
    <3>1. PICK m \in Nat : m = Len(txs) /\ DOMAIN txs = 1 .. m
      BY DEF ChainSound
    <3>2. QED
      BY <2>1, <3>1 DEF ChainSound
  <2>3. PICK q, w, b : q = run[c] /\ w = q.wait /\ b = w.base
    OBVIOUS
  <2>4. q \in RunType /\ w \in WaitType
    BY <2>3 DEF Booked, RunType
  <2>5. /\ b \in DOMAIN txs /\ w.watch \subseteq DOMAIN txs
        /\ txs[b].by = c /\ txs[b].do = Stage(c).do /\ txs[b].nonce = q.nonce
    BY <1>1, <2>3 DEF Sound, WaitSound
  <2>6. PICK old \in Transaction : old = txs[b]
    BY <2>2, <2>5
  <2>7. PICK tip \in Nat : tip = IncreasedTip(old.tip)
    BY <2>6 DEF Transaction, IncreasedTip
  <2>8. PICK tx : tx = [old EXCEPT !.tip = tip, !.status = "pending"]
    OBVIOUS
  <2>9. /\ tx \in Transaction /\ tx.by = old.by /\ tx.do = old.do /\ tx.nonce = old.nonce
        /\ tx.status = "pending"
    BY ONLY old \in Transaction, tip \in Nat, <2>8 DEF Transaction
  <2>10. tx = Replacement(b)
    BY <2>6, <2>7, <2>8 DEF Replacement, Transaction
  <2>11. Accept(tx) /\ ~NonceUsed(tx) /\ w.raise = "raising"
    BY <1>4, <2>3, <2>10 DEF CanReplace
  <2>12. /\ ChainSound' /\ \A d \in Command : d # c => GoesOn(d)
    BY <2>3, <2>5, <2>6, <2>9, <2>11, SubmitTx DEF Sound
  <2>13. /\ n \notin DOMAIN txs /\ DOMAIN txs' = DOMAIN txs \union {n}
         /\ \A k \in DOMAIN txs : txs'[k] = txs[k]
         /\ txs'[n] = tx
    BY <2>1, <2>9, <2>11, AcceptChain
  <2>14. w.watch = Watched(c)
    BY <1>1, <2>3 DEF Watched
  <2>15. PICK v : v = [watch |-> Watched(c) \union {n}, base |-> n, raise |-> "asking"]
    OBVIOUS
  <2>16. v \in WaitType /\ v = Replaced(w)
    BY <2>1, <2>2, <2>4, <2>14, <2>15 DEF WaitType, Replaced
  <2>17. PICK r : r = [q EXCEPT !.wait = v]
    OBVIOUS
  <2>18. /\ r \in RunType /\ r.step = q.step /\ r.phase = q.phase /\ r.nonce = q.nonce
         /\ r.outcome = q.outcome /\ r.wait = v
    BY ONLY <2>4, <2>16, <2>17 DEF RunType
  <2>19. run' = [run EXCEPT ![c] = r]
    BY <1>4, <2>3, <2>16, <2>17
  <2>20. Acts(c) /\ run'[c] = r
    BY <1>1, <2>18, <2>19 DEF Booked, Acts
  <2>21. /\ run'[c].step = run[c].step /\ run'[c].phase = "waiting" /\ run'[c].nonce = run[c].nonce
         /\ run'[c].outcome = "running"
         /\ run'[c].wait = [watch |-> Watched(c) \union {n}, base |-> n, raise |-> "asking"]
    <3>1. q.outcome = "running" /\ q.phase = "waiting"
      BY <1>1, <2>3 DEF Running
    <3>2. r = run'[c] /\ q = run[c]
      BY <2>3, <2>20
    <3>3. QED
      BY ONLY <2>15, <2>18, <3>1, <3>2
  <2>22. txs'[n].by = c /\ txs'[n].do = Stage(c).do /\ txs'[n].nonce = run[c].nonce
    BY <2>3, <2>5, <2>6, <2>9, <2>13
  <2>23. Stage(c).do # "funds"
    BY <1>1 DEF Sound, StageSound
  <2>24. Stage(c).do \in {"approve", "stake", "mint"}
    BY <1>1, <2>23, TxIsOne
  <2>25. Booked /\ Sound(c) /\ run[c].phase \in {"submit", "waiting"}
         /\ (Stage(c).wait = "plain" => Watched(c) = {})
    BY <1>1, <1>2, <2>3, <2>11
  <2>26. Sound(c)'
    <3>1. Acts(c) /\ c \in Running
      BY <1>1, <2>20
    <3>2. /\ n \notin DOMAIN txs /\ DOMAIN txs' = DOMAIN txs \union {n}
          /\ \A k \in DOMAIN txs : txs'[k] = txs[k]
      BY <2>13
    <3>3. QED
      BY ONLY c \in Command, <3>1, <3>2, <2>21, <2>22, <2>23, <2>24, <2>25, WatchedSound
  <2>27. QED
    BY <2>12, <2>20, <2>26 DEF Stepped
<1>5. QED
  BY <1>3, <1>4 DEF Raise

LEMMA FaultKeeps ==
    ASSUME CommandsSound, NEW c \in Command, Fault(c)
    PROVE  Stepped(c)
<1> USE DEF CommandsSound
<1>1. job' = job /\ hit \subseteq hit' /\ c \in hit'
  BY DEF Fault
<1>2. CASE \E phase \in {"begin", "send", "submit"} : At(c, phase) /\ End(c, "failed") /\ UNCHANGED chainVars
  BY <1>1, <1>2, EndFails DEF At, chainVars
<1>3. CASE /\ At(c, "submit") /\ ~NonceUsed(Tx(c)) /\ ~FeeTooLow(Tx(c))
           /\ Accept(Tx(c)) /\ End(c, "failed")
  <2>1. c \in Running /\ Stage(c).do # "funds"
    BY <1>3 DEF Sound, StageSound, At
  <2>2. /\ Tx(c) \in Transaction /\ Tx(c).status = "pending" /\ Tx(c).by = c
        /\ Tx(c).nonce = run[c].nonce
    BY <2>1, TxIsOne
  <2>3. /\ ChainSound' /\ \A d \in Command : d # c => GoesOn(d)
        /\ \A i \in Own(c)' : txs'[i].nonce = run[c].nonce
    BY <1>3, <2>2, SubmitTx DEF Sound
  <2>4. /\ run' \in [Command -> RunType] /\ \A d \in Command : d # c => run'[d] = run[d]
        /\ run'[c].outcome = "failed" /\ run'[c].nonce = run[c].nonce
    BY <1>3, EndRuns
  <2>5. Acts(c)
    BY <1>1, <2>4 DEF Acts
  <2>6. Sound(c)'
    BY <1>1, <2>3, <2>4, <2>5, LeavesOwn
  <2>7. QED
    BY <2>3, <2>5, <2>6 DEF Stepped
<1>4. CASE /\ At(c, "waiting") /\ run[c].wait.raise = "raising"
           /\ run' = [run EXCEPT ![c].wait = GivenUp(@)] /\ UNCHANGED chainVars
  <2>1. Stage(c).wait # "plain"
    BY <1>4 DEF Sound, WaitSound
  <2>2. QED
    BY <1>1, <1>4, <2>1, PromptKeeps DEF chainVars
<1>5. CASE At(c, "waiting") /\ End(c, "failed") /\ UNCHANGED chainVars
  <2>1. /\ run' \in [Command -> RunType] /\ \A d \in Command : d # c => run'[d] = run[d]
        /\ run'[c].outcome = "failed" /\ run'[c].nonce = run[c].nonce
    BY <1>5, EndRuns
  <2>2. Acts(c) /\ txs' = txs
    BY <1>1, <1>5, <2>1 DEF Acts, chainVars
  <2>3. Own(c)' = Own(c)
    BY <2>2 DEF Own
  <2>4. \A i \in Own(c)' : txs'[i].nonce = run'[c].nonce
    BY <2>1, <2>2, <2>3 DEF Sound, OwnSound
  <2>5. Sound(c)'
    BY <1>1, <2>1, <2>2, <2>4, LeavesOwn
  <2>6. QED
    BY <2>2, <2>5, ChainStays DEF Stepped
<1>6. QED
  BY <1>2, <1>3, <1>4, <1>5 DEF Fault

-------------------------------------------------------------------------------
LEMMA SteppedKeeps ==
    ASSUME CommandsSound, NEW c \in Command, Stepped(c)
    PROVE  CommandsSound'
<1> USE DEF CommandsSound
<1>1. Booked'
  BY DEF Booked, Stepped, Acts
<1>2. ASSUME NEW d \in Command PROVE Sound(d)'
  <2>1. CASE d = c
    BY <2>1 DEF Stepped
  <2>2. CASE d # c
    BY <2>2, OthersSound DEF Stepped, Acts
  <2>3. QED
    BY <2>1, <2>2
<1>3. QED
  BY <1>1, <1>2 DEF Stepped

LEMMA MineOneKeeps ==
    ASSUME CommandsSound, MineOne
    PROVE  CommandsSound'
<1> USE DEF CommandsSound
<1>1. PICK i : Mine(i)
  BY DEF MineOne
<1>2. UNCHANGED <<job, run, beside, hit>>
  BY DEF MineOne
<1>3. ChainSound' /\ \A c : GoesOn(c)
  BY <1>1, MineChain
<1>4. ASSUME NEW c \in Command PROVE Sound(c)'
  BY <1>2, <1>3, OthersSound
<1>5. QED
  BY <1>2, <1>3, <1>4 DEF Booked

LEMMA CommandsInit == StakingInit => CommandsSound
<1> SUFFICES ASSUME StakingInit PROVE CommandsSound
  OBVIOUS
<1>1. txs = <<>> /\ DOMAIN txs = {}
  BY DEF StakingInit, ChainInit
<1>2. ChainSound
  BY <1>1 DEF ChainSound, Mined, Pending
<1>3. Idle \in WaitType
  BY DEF Idle, WaitType
<1>4. NotBegun \in RunType /\ NotBegun.outcome = "none" /\ NotBegun.phase = "begin"
  BY <1>3 DEF NotBegun, RunType, Phases
<1>5. Booked /\ \A c \in Command : run[c] = NotBegun
  BY <1>4, JobAssumption DEF Booked, StakingInit
<1>6. ASSUME NEW c \in Command PROVE Sound(c)
  <2>1. Own(c) = {}
    BY <1>1 DEF Own
  <2>2. run[c].outcome = "none" /\ run[c].phase = "begin"
    BY <1>4, <1>5
  <2>3. QED
    BY <2>1, <2>2 DEF Sound, StageSound, WaitSound, OwnSound, ReportSound, Running, At
<1>7. QED
  BY <1>2, <1>5, <1>6 DEF CommandsSound

LEMMA CommandsStep == CommandsSound /\ [StakingNext]_stakingVars => CommandsSound'
<1> SUFFICES ASSUME CommandsSound, [StakingNext]_stakingVars PROVE CommandsSound'
  OBVIOUS
<1>1. CASE MineOne
  BY <1>1, MineOneKeeps
<1>2. ASSUME NEW c \in Command, Begin(c) \/ Proceed(c) \/ Prompt(c) \/ Fault(c) PROVE CommandsSound'
  <2>1. ASSUME Prompt(c) PROVE Stepped(c)
    <3>1. /\ At(c, "waiting") /\ Stage(c).wait # "plain" /\ job' = job /\ hit' = hit /\ UNCHANGED txs
          /\ run' = [run EXCEPT ![c].wait = PressEnter(@)]
      BY <2>1 DEF Prompt, chainVars
    <3>2. QED
      BY <3>1, PromptKeeps
  <2>2. Stepped(c)
    BY <1>2, <2>1, BeginKeeps, CheckFundsKeeps, ReadAllowanceKeeps, AnswerKeeps, GoToSendKeeps, PopulateKeeps,
       SubmitKeeps, WaitKeeps, RaiseKeeps, FaultKeeps DEF Proceed
  <2>3. QED
    BY <2>2, SteppedKeeps
<1>3. CASE UNCHANGED stakingVars
  <2>1. UNCHANGED <<txs, job, run, hit>>
    BY <1>3 DEF stakingVars, chainVars
  <2>2. ChainSound' /\ \A d : GoesOn(d)
    BY <2>1, ChainStays DEF CommandsSound
  <2>3. ASSUME NEW d \in Command PROVE Sound(d)'
    BY <2>1, <2>2, OthersSound DEF CommandsSound
  <2>4. QED
    BY <2>1, <2>2, <2>3 DEF CommandsSound, Booked
<1>4. QED
  BY <1>1, <1>2, <1>3 DEF StakingNext

LEMMA ReportsFollow == CommandsSound => ReportsTrue
<1> SUFFICES ASSUME CommandsSound, NEW c \in Command
             PROVE  /\ Cardinality(Achieved(c)) <= 1
                    /\ ReportSound(c)
  BY DEF ReportsTrue, ReportSound
<1> USE DEF CommandsSound
<1>1. ASSUME NEW i \in Achieved(c), NEW j \in Achieved(c) PROVE i = j
  <2>1. i \in Mined /\ j \in Mined
    BY DEF Achieved, Own, Mined
  <2>2. txs[i].nonce = run[c].nonce /\ txs[j].nonce = run[c].nonce
    BY DEF Achieved, Sound, OwnSound
  <2>3. QED
    BY <2>1, <2>2 DEF ChainSound
<1>2. Cardinality(Achieved(c)) <= 1
  <2>1. CASE Achieved(c) = {}
    BY <2>1, FS_EmptySet
  <2>2. CASE Achieved(c) # {}
    <3>1. PICK i \in Achieved(c) : TRUE
      BY <2>2
    <3>2. Achieved(c) = {i}
      BY <1>1, <3>1
    <3>3. QED
      BY <3>2, FS_Singleton
  <2>3. QED
    BY <2>1, <2>2
<1>3. QED
  BY <1>2 DEF Sound

(* A command stakes or mints once at most, however often its transactions  *)
(* are replaced, and what it reports of them is true, with any commands,   *)
(* managers, prices and tips.                                              *)
THEOREM ReportsAlwaysTrue == StakingSpec => []ReportsTrue
<1>1. StakingSpec => []CommandsSound
  BY CommandsInit, CommandsStep, PTL DEF StakingSpec
<1>2. QED
  BY <1>1, ReportsFollow, PTL

-------------------------------------------------------------------------------
(* A command that runs by itself.  What is pending is what it waits for,   *)
(* and will go; and it has allowed its stake when it comes to it.          *)
FundsSound == wallet \in Nat /\ allowance \in [Manager -> Nat]

Alone(c) == c \in Running /\ c \notin beside

Watches(c) == At(c, "waiting") =>
    /\ \A i \in Mined : txs[i].nonce = run[c].nonce => i \in run[c].wait.watch
    /\ \A i \in run[c].wait.watch :
          /\ txs[i].to = job[c].manager /\ txs[i].amount = run[c].amount
          /\ txs[i].status # "reverted"
          /\ txs[i].status = "dropped" => \E r \in Mined : txs[r].nonce = run[c].nonce
          /\ i \in Pending => Goes(Call(c))

Allows(c) == allowance[job[c].manager] >= run[c].amount

Allowed(c) ==
    /\ \/ At(c, "waiting") /\ LastStage(c)
       \/ \A k \in 1 .. run[c].step - 1 : Script(c)[k].do = "approve" => Allows(c)
    /\ At(c, "waiting") /\ Stage(c).do = "approve" =>
          \A r \in Mined : txs[r].nonce = run[c].nonce => Allows(c)

AloneSound(c) == Alone(c) =>
    /\ Running = {c}
    /\ \A i \in Pending : At(c, "waiting") /\ i \in run[c].wait.watch
    /\ At(c, "submit") => run[c].nonce = NextNonce /\ Goes(Call(c))
    /\ Watches(c) /\ Allowed(c)

AlonesSound == CommandsSound /\ FundsSound /\ \A c \in Command : AloneSound(c)

(* Another command begins beside it, or is not there.                      *)
LEMMA AloneOthers ==
    ASSUME NEW c \in Command, NEW d \in Command, d # c, AloneSound(d), run'[d] = run[d],
           \/ c \in Running /\ beside' = beside
           \/ beside' = beside \union (IF Running = {} /\ Pending = {} THEN {} ELSE Running \union {c})
    PROVE  AloneSound(d)'
<1>1. SUFFICES ASSUME Alone(d)' PROVE FALSE
  BY DEF AloneSound
<1>2. d \in Running /\ d \notin beside'
  BY <1>1 DEF Alone, Running
<1>3. CASE c \in Running /\ beside' = beside
  BY <1>2, <1>3 DEF AloneSound, Alone
<1>4. CASE beside' = beside \union (IF Running = {} /\ Pending = {} THEN {} ELSE Running \union {c})
  BY <1>2, <1>4
<1>5. QED
  BY <1>3, <1>4

LEMMA AloneSame ==
    ASSUME job' = job, UNCHANGED <<txs, wallet, allowance>>, NEW c, run'[c].amount = run[c].amount
    PROVE  /\ Script(c)' = Script(c) /\ (Allows(c)' <=> Allows(c)) /\ Mined' = Mined /\ Pending' = Pending
           /\ NextNonce' = NextNonce
           /\ run'[c].step = run[c].step => (Goes(Call(c))' <=> Goes(Call(c)))
<1>1. Script(c)' = Script(c)
  BY SameScript
<1>2. Mined' = Mined /\ Pending' = Pending
  BY DEF Mined, Pending
<1>3. run'[c].step = run[c].step => Call(c)' = Call(c)
  BY <1>1 DEF Call, Stage
<1>4. run'[c].step = run[c].step => (Goes(Call(c))' <=> Goes(Call(c)))
  BY <1>3 DEF Goes, StakeGoes, MintGoes
<1>5. QED
  BY <1>1, <1>2, <1>4 DEF Allows, NextNonce

(* It goes on, and what it waited for is not pending any more.             *)
LEMMA AloneMoves ==
    ASSUME NEW c \in Command, AloneSound(c), Acts(c), beside' = beside,
           UNCHANGED <<txs, wallet, allowance>>, c \in Running,
           run'[c].phase # "waiting", run'[c].amount = run[c].amount,
           Alone(c) => Pending = {},
           Alone(c) => (\A k \in 1 .. run'[c].step - 1 : Script(c)[k].do = "approve" => Allows(c)),
           Alone(c) /\ run'[c].phase = "submit" =>
              run'[c].step = run[c].step /\ run'[c].nonce = NextNonce /\ Goes(Call(c))
    PROVE  AloneSound(c)'
<1>1. SUFFICES ASSUME Alone(c)'
               PROVE  /\ Running' = {c} /\ Pending' = {}
                      /\ At(c, "submit")' => run'[c].nonce = NextNonce' /\ Goes(Call(c))'
                      /\ Watches(c)' /\ Allowed(c)'
  BY DEF AloneSound
<1>2. Alone(c) /\ Running = {c}
  BY <1>1 DEF Alone, AloneSound
<1>3. Running' = {c}
  BY <1>1, <1>2 DEF Running, Acts, Alone
<1>4. /\ Script(c)' = Script(c) /\ (Allows(c)' <=> Allows(c)) /\ Pending' = Pending
      /\ NextNonce' = NextNonce
      /\ run'[c].step = run[c].step => (Goes(Call(c))' <=> Goes(Call(c)))
  BY AloneSame DEF Acts
<1>5. ~At(c, "waiting")'
  BY DEF At
<1>6. Watches(c)' /\ Allowed(c)'
  BY <1>2, <1>4, <1>5 DEF Watches, Allowed
<1>7. QED
  BY <1>2, <1>3, <1>4, <1>6 DEF At

LEMMA AloneGoto ==
    ASSUME AlonesSound, NEW c \in Command, NEW phase \in {"asking", "send"}, Goto(c, phase),
           c \in Running, run[c].phase # "waiting", job' = job, hit' = hit, beside' = beside,
           UNCHANGED <<txs, wallet, allowance>>
    PROVE  AloneSound(c)'
<1> USE DEF AlonesSound, CommandsSound
<1>1. run' \in [Command -> RunType] /\ (\A d \in Command : d # c => run'[d] = run[d])
      /\ run'[c] = [run[c] EXCEPT !.phase = phase]
  <2>1. phase \in Phases
    BY DEF Phases
  <2>2. QED
    BY <2>1, GotoRuns
<1>2. run'[c].phase = phase /\ run'[c].step = run[c].step /\ run'[c].amount = run[c].amount
  BY <1>1 DEF Booked, RunType
<1>3. Acts(c)
  BY <1>1 DEF Acts
<1>4. ASSUME Alone(c) PROVE Pending = {} /\ \A k \in 1 .. run[c].step - 1 : Script(c)[k].do = "approve" => Allows(c)
  BY <1>4 DEF AloneSound, At, Allowed
<1>5. QED
  BY <1>2, <1>3, <1>4, AloneMoves

LEMMA AloneAdvance ==
    ASSUME AlonesSound, NEW c \in Command, Advance(c), ~LastStage(c), c \in Running,
           job' = job, hit' = hit, beside' = beside, UNCHANGED <<txs, wallet, allowance>>,
           Alone(c) => Pending = {},
           Alone(c) /\ Stage(c).do = "approve" => Allows(c)
    PROVE  AloneSound(c)'
<1> USE DEF AlonesSound, CommandsSound
<1>1. /\ run' \in [Command -> RunType] /\ \A d \in Command : d # c => run'[d] = run[d]
      /\ run'[c].step = run[c].step + 1 /\ run'[c].phase = "begin"
      /\ run'[c].amount = run[c].amount
  BY AdvanceRuns
<1>2. Acts(c)
  BY <1>1 DEF Acts
<1>3. PICK k : k = run[c].step
  OBVIOUS
<1>4. k \in Nat
  BY <1>3 DEF Booked, RunType
<1>5. ASSUME Alone(c), NEW j \in 1 .. run'[c].step - 1, Script(c)[j].do = "approve" PROVE Allows(c)
  <2>1. j \in 1 .. k - 1 \/ j = k
    BY <1>1, <1>3, <1>4
  <2>2. CASE j = k
    BY <1>3, <1>5, <2>2 DEF Stage
  <2>3. CASE j \in 1 .. k - 1
    BY <1>3, <1>5, <2>3 DEF AloneSound, Allowed
  <2>4. QED
    BY <2>1, <2>2, <2>3
<1>6. QED
  BY <1>1, <1>2, <1>5, AloneMoves

LEMMA AloneEnds ==
    ASSUME NEW c, run'[c].outcome # "running"
    PROVE  AloneSound(c)'
BY DEF AloneSound, Alone, Running

(* The answer to the prompt leaves all this as it is.                      *)
LEMMA AlonePrompt ==
    ASSUME AlonesSound, NEW c \in Command, At(c, "waiting"), job' = job, hit \subseteq hit',
           beside' = beside, UNCHANGED <<txs, wallet, allowance>>,
           \/ run' = [run EXCEPT ![c].wait = PressEnter(@)]
           \/ run' = [run EXCEPT ![c].wait = GivenUp(@)]
    PROVE  AloneSound(c)'
<1> USE DEF AlonesSound, CommandsSound
<1>1. PICK raise : run' = [run EXCEPT ![c].wait = [@ EXCEPT !.raise = raise]]
  BY DEF PressEnter, GivenUp
<1>2. PICK q : q = run[c]
  OBVIOUS
<1>3. PICK r : r = [q EXCEPT !.wait = [@ EXCEPT !.raise = raise]]
  OBVIOUS
<1>4. q \in RunType
  BY <1>2 DEF Booked
<1>5. /\ r.step = q.step /\ r.phase = q.phase /\ r.nonce = q.nonce /\ r.outcome = q.outcome
      /\ r.amount = q.amount /\ r.wait.watch = q.wait.watch
  BY ONLY <1>3, <1>4 DEF RunType, WaitType
<1>6. run'[c] = r /\ \A d \in Command : d # c => run'[d] = run[d]
  BY <1>1, <1>2, <1>3 DEF Booked
<1>7. /\ Script(c)' = Script(c) /\ (Allows(c)' <=> Allows(c)) /\ Mined' = Mined /\ Pending' = Pending
      /\ NextNonce' = NextNonce /\ (Goes(Call(c))' <=> Goes(Call(c)))
  BY <1>2, <1>5, <1>6, AloneSame
<1>8. Running' = Running
  BY <1>2, <1>5, <1>6 DEF Running
<1>9. /\ run'[c].step = run[c].step /\ run'[c].phase = run[c].phase /\ run'[c].nonce = run[c].nonce
      /\ run'[c].amount = run[c].amount /\ run'[c].wait.watch = run[c].wait.watch
  BY <1>2, <1>5, <1>6
<1>10. \A phase : At(c, phase)' <=> At(c, phase)
  BY <1>8, <1>9 DEF At
<1>11. Stage(c)' = Stage(c) /\ (LastStage(c)' <=> LastStage(c))
  BY <1>7, <1>9 DEF Stage, LastStage
<1>12. Watches(c)' <=> Watches(c)
  BY <1>7, <1>9, <1>10 DEF Watches
<1>13. Allowed(c)' <=> Allowed(c)
  BY <1>7, <1>9, <1>10, <1>11 DEF Allowed
<1>14. QED
  BY <1>7, <1>8, <1>9, <1>10, <1>12, <1>13 DEF AloneSound, Alone

(* A wait of a command by itself ends well, and nothing is pending then.   *)
LEMMA AloneWaits ==
    ASSUME AlonesSound, NEW c \in Command, Alone(c), At(c, "waiting"),
           NEW i \in run[c].wait.watch, NEW r \in Mined, WaitEnds(i, r)
    PROVE  /\ Pending = {} /\ Received(c, i, r)
           /\ Stage(c).do = "approve" => Allows(c)
<1> USE DEF AlonesSound, CommandsSound
<1>1. \A j \in run[c].wait.watch : txs[j].nonce = run[c].nonce /\ txs[j].do = Stage(c).do
  BY DEF Sound, WaitSound
<1>2. txs[r].nonce = run[c].nonce
  BY <1>1 DEF WaitEnds, MinedUnder
<1>3. r \in run[c].wait.watch
  BY <1>2 DEF AloneSound, Watches
<1>4. txs[r].status = "done"
  BY <1>3 DEF AloneSound, Watches, Mined
<1>5. Pending = {}
  <2>1. SUFFICES ASSUME NEW p \in Pending PROVE FALSE
    OBVIOUS
  <2>2. p \in run[c].wait.watch
    BY DEF AloneSound
  <2>3. PICK m \in Nat : m = Cardinality(Mined)
    BY MinedFinite DEF ChainSound
  <2>4. PICK x : x = run[c].nonce
    OBVIOUS
  <2>5. x \in Nat
    BY <2>4 DEF Booked, RunType
  <2>6. x > m /\ x <= m
    BY <1>1, <1>2, <2>2, <2>3, <2>4 DEF ChainSound
  <2>7. QED
    BY ONLY <2>3, <2>5, <2>6
<1>6. Received(c, i, r)
  <2>1. CASE Stage(c).wait = "plain"
    <3>1. run[c].wait.watch = {run[c].wait.base}
      BY <2>1 DEF Sound, WaitSound
    <3>2. i = r
      BY <1>3, <3>1
    <3>3. QED
      BY <1>4, <2>1, <3>2 DEF Received, Receipt
  <2>2. CASE Stage(c).wait # "plain"
    <3>1. Stage(c).do = "mint" => Transferred(r)
      BY <1>1, <1>3, <1>4 DEF Transferred
    <3>2. QED
      BY <1>4, <2>2, <3>1 DEF Received, AcceptedReceipt
  <2>3. QED
    BY <2>1, <2>2
<1>7. Stage(c).do = "approve" => Allows(c)
  BY <1>2 DEF AloneSound, Allowed
<1>8. QED
  BY <1>5, <1>6, <1>7

(* Its transaction is mined: it goes, and the others of its nonce are      *)
(* dropped.                                                                *)
LEMMA GoesAsCalled ==
    ASSUME Booked, ChainSound, NEW c \in Command, WaitSound(c), Watches(c), At(c, "waiting"), NEW i \in run[c].wait.watch
    PROVE  Goes(txs[i]) <=> Goes(Call(c))
<1>1. PICK do, to, amount : do = Stage(c).do /\ to = job[c].manager /\ amount = run[c].amount
  OBVIOUS
<1>2. txs[i].do = do /\ txs[i].to = to /\ txs[i].amount = amount
  BY <1>1 DEF WaitSound, Watches
<1>3. PICK call : call = Call(c)
  OBVIOUS
<1>4. call.do = do /\ call.to = to /\ call.amount = amount
  BY <1>1, <1>3 DEF Call
<1>5. PICK tx : tx = txs[i]
  OBVIOUS
<1>6. Goes(tx) <=> Goes(call)
  BY <1>2, <1>4, <1>5 DEF Goes
<1>7. QED
  BY <1>3, <1>5, <1>6

LEMMA EffectOnFunds ==
    ASSUME FundsSound, NEW tx \in Transaction, Goes(tx), Effect(tx)
    PROVE  /\ FundsSound'
           /\ tx.do = "approve" => allowance'[tx.to] = tx.amount
<1>1. tx.to \in Manager /\ tx.amount \in Nat /\ tx.do \in {"approve", "stake", "mint"}
  BY DEF Transaction
<1>2. PICK m \in Manager : m = tx.to
  BY <1>1
<1>3. PICK a \in Nat : a = tx.amount
  BY <1>1
<1>4. PICK w \in Nat : w = wallet
  BY DEF FundsSound
<1>5. CASE tx.do = "approve"
  <2>1. wallet' = wallet /\ allowance' = [allowance EXCEPT ![m] = a]
    BY <1>2, <1>3, <1>5 DEF Effect
  <2>2. QED
    BY <1>2, <1>3, <2>1 DEF FundsSound
<1>6. CASE tx.do = "stake"
  <2>1. wallet' = w - a /\ allowance' = [allowance EXCEPT ![m] = @ - a]
    BY <1>2, <1>3, <1>4, <1>6 DEF Effect
  <2>2. allowance[m] >= a /\ w >= a
    BY <1>2, <1>3, <1>4, <1>6 DEF Goes, StakeGoes
  <2>3. PICK b \in Nat : b = allowance[m]
    BY DEF FundsSound
  <2>4. b - a \in Nat /\ w - a \in Nat
    BY <2>2, <2>3
  <2>5. allowance' = [allowance EXCEPT ![m] = b - a]
    BY <2>1, <2>3
  <2>6. QED
    BY <1>6, <2>1, <2>4, <2>5 DEF FundsSound
<1>7. CASE tx.do = "mint"
  <2>1. PICK d : d = Rate["bytes"]
    OBVIOUS
  <2>2. d \in Nat \ {0}
    BY <2>1, AccountAssumption
  <2>3. PICK e \in Nat : e = a \div d
    BY ONLY a \in Nat, <2>2, Quotient
  <2>4. wallet' = w + e /\ allowance' = allowance
    BY <1>3, <1>4, <1>7, <2>1, <2>3 DEF Effect
  <2>5. QED
    BY <1>7, <2>4 DEF FundsSound
<1>8. QED
  BY <1>1, <1>5, <1>6, <1>7

LEMMA AloneMines ==
    ASSUME AlonesSound, MineOne
    PROVE  FundsSound' /\ \A c \in Command : AloneSound(c)'
<1> USE DEF AlonesSound, CommandsSound
<1>1. PICK i \in DOMAIN txs : Mine(i)
  BY DEF MineOne
<1>2. UNCHANGED <<job, run, beside, hit>>
  BY DEF MineOne
<1>3. /\ i \in Pending /\ txs[i].nonce = NextNonce
      /\ \A k \in DOMAIN txs : SettledFrom(txs[k], txs'[k])
      /\ txs'[i].status = IF Goes(txs[i]) THEN "done" ELSE "reverted"
      /\ \A k \in DOMAIN txs : k # i => txs'[k].status = IF k \in Pending /\ txs[k].nonce = NextNonce
                                                      THEN "dropped" ELSE txs[k].status
      /\ DOMAIN txs' = DOMAIN txs
  BY <1>1, MineTxs
<1>4. /\ Mined' = Mined \union {i} /\ Pending' \subseteq Pending \ {i}
      /\ \A k \in Pending' : txs'[k].nonce # txs'[i].nonce
  BY <1>1, MineChain
<1>5. txs[i] \in Transaction
  <2>1. PICK n \in Nat : n = Len(txs) /\ DOMAIN txs = 1 .. n
    BY DEF ChainSound
  <2>2. QED
    BY <1>1, <2>1 DEF ChainSound
<1>6. CASE Goes(txs[i])
  <2>1. PICK tx \in Transaction : tx = txs[i]
    BY <1>5
  <2>2. Effect(tx) /\ Goes(tx)
    BY <1>1, <1>6, <2>1 DEF Mine
  <2>3. FundsSound' /\ (tx.do = "approve" => allowance'[tx.to] = tx.amount)
    BY <2>2, EffectOnFunds
  <2>4. ASSUME NEW c \in Command, Alone(c)' PROVE AloneSound(c)'
    <3>1. Alone(c) /\ Running' = Running
      BY <1>2, <2>4 DEF Alone, Running
    <3>2. Running = {c} /\ At(c, "waiting") /\ i \in run[c].wait.watch /\ Watches(c)
      BY <1>3, <3>1 DEF AloneSound
    <3>3. At(c, "waiting")' /\ ~At(c, "submit")'
      BY <1>2, <3>1, <3>2 DEF At
    <3>4. \A k \in run[c].wait.watch : k \in DOMAIN txs /\ txs[k].nonce = run[c].nonce /\ txs[k].do = Stage(c).do
      BY <3>2 DEF Sound, WaitSound
    <3>5. Pending' = {}
      <4>1. SUFFICES ASSUME NEW k \in Pending' PROVE FALSE
        OBVIOUS
      <4>2. k \in Pending /\ k \in run[c].wait.watch
        BY <1>4, <3>1 DEF AloneSound
      <4>3. txs'[k].nonce = txs'[i].nonce
        BY <1>3, <3>2, <3>4, <4>2 DEF SettledFrom
      <4>4. QED
        BY <1>4, <4>3
    <3>6. i \in Mined' /\ txs'[i].nonce = run[c].nonce /\ txs'[i].status = "done"
      BY <1>3, <1>4, <1>6, <3>2, <3>4 DEF SettledFrom
    <3>7. Script(c)' = Script(c) /\ Stage(c)' = Stage(c) /\ (LastStage(c)' <=> LastStage(c))
      BY <1>2, SameScript DEF Stage, LastStage
    <3>8. Watches(c)'
      <4>1. ASSUME NEW k \in Mined', txs'[k].nonce = run'[c].nonce PROVE k \in run'[c].wait.watch
        <5>1. CASE k = i
          BY <1>2, <3>2, <5>1
        <5>2. CASE k \in Mined
          <6>1. txs[k].nonce = run[c].nonce
            BY <1>2, <1>3, <4>1, <5>2 DEF SettledFrom, Mined
          <6>2. QED
            BY <1>2, <3>2, <5>2, <6>1 DEF Watches
        <5>3. QED
          BY <1>4, <5>1, <5>2
      <4>2. ASSUME NEW k \in run[c].wait.watch
            PROVE  /\ txs'[k].to = job[c].manager /\ txs'[k].amount = run[c].amount
                   /\ txs'[k].status # "reverted"
        <5>1. txs[k].to = job[c].manager /\ txs[k].amount = run[c].amount /\ txs[k].status # "reverted"
          BY <3>2 DEF Watches
        <5>2. SettledFrom(txs[k], txs'[k])
          BY <1>3, <3>4
        <5>3. txs'[k].status # "reverted"
          BY <1>3, <3>4, <3>6, <5>1
        <5>4. QED
          BY <5>1, <5>2, <5>3 DEF SettledFrom
      <4>3. QED
        BY <1>2, <3>5, <3>6, <4>1, <4>2 DEF Watches
    <3>9. Allowed(c)'
      <4>1. c \in Running
        BY <3>2
      <4>2. CASE LastStage(c)
        <5>1. Stage(c).do \in {"stake", "mint"}
          BY <4>1, <4>2, StageLeads DEF Sound
        <5>2. QED
          BY <3>3, <3>7, <4>2, <5>1 DEF Allowed
      <4>3. CASE ~LastStage(c)
        <5>1. Stage(c).do = "approve"
          BY <3>2, <4>1, <4>3, StageLeads DEF Sound, Prepares, StageSound, At
        <5>2. tx.do = "approve" /\ tx.to = job[c].manager /\ tx.amount = run[c].amount
          BY <2>1, <3>2, <3>4, <5>1 DEF Watches
        <5>3. allowance'[job[c].manager] = run[c].amount /\ run[c].amount \in Nat
          BY <2>3, <5>2 DEF Booked, RunType
        <5>4. Allows(c)'
          BY <1>2, <5>3 DEF Allows
        <5>5. QED
          BY <5>4 DEF Allowed
      <4>4. QED
        BY <4>2, <4>3
    <3>10. QED
      BY <3>1, <3>2, <3>3, <3>5, <3>8, <3>9 DEF AloneSound
  <2>5. QED
    BY <2>3, <2>4 DEF AloneSound
<1>7. CASE ~Goes(txs[i])
  <2>1. UNCHANGED <<wallet, allowance>>
    BY <1>1, <1>7 DEF Mine
  <2>2. ASSUME NEW c \in Command, Alone(c) PROVE FALSE
    <3>1. At(c, "waiting") /\ i \in run[c].wait.watch /\ Watches(c)
      BY <1>3, <2>2 DEF AloneSound
    <3>2. Goes(Call(c))
      BY <1>3, <3>1 DEF Watches
    <3>3. QED
      BY <1>7, <3>1, <3>2, GoesAsCalled DEF Sound
  <2>3. QED
    BY <1>2, <2>1, <2>2 DEF FundsSound, AloneSound, Alone, Running
<1>8. QED
  BY <1>6, <1>7

(* One more transaction is pending, under the next nonce, and it will go.  *)
LEMMA AloneSubmits ==
    ASSUME AlonesSound, NEW c \in Command, Alone(c), Acts(c), beside' = beside,
           run[c].phase \in {"submit", "waiting"}, Stage(c).do # "funds",
           NEW tx \in Transaction, tx.status = "pending", ~NonceUsed(tx), Accept(tx),
           tx.to = job[c].manager, tx.amount = run[c].amount, tx.nonce = run[c].nonce,
           \A r \in Mined : txs[r].nonce # run[c].nonce, Goes(Call(c)),
           run'[c].phase = "waiting", run'[c].step = run[c].step, run'[c].nonce = run[c].nonce,
           run'[c].amount = run[c].amount, run'[c].outcome = "running",
           run'[c].wait.watch = Watched(c) \union {Len(txs) + 1}
    PROVE  AloneSound(c)'
<1> USE DEF AlonesSound, CommandsSound
<1>1. PICK n : n = Len(txs) + 1
  OBVIOUS
<1>2. /\ n \notin DOMAIN txs /\ DOMAIN txs' = DOMAIN txs \union {n}
      /\ \A k \in DOMAIN txs : txs'[k] = txs[k]
      /\ txs'[n] = tx
      /\ Mined' = Mined /\ Pending' = Pending \union {n}
      /\ UNCHANGED <<wallet, allowance>>
  BY <1>1, AcceptChain
<1>3. Running = {c} /\ Running' = {c} /\ c \in Running
  BY DEF AloneSound, Alone, Running, Acts
<1>4. At(c, "waiting")' /\ ~At(c, "submit")'
  BY <1>3 DEF At
<1>5. PICK watch : watch = Watched(c)
  OBVIOUS
<1>6. \A k \in watch : /\ k \in DOMAIN txs /\ txs[k].to = job[c].manager /\ txs[k].amount = run[c].amount
                       /\ txs[k].status # "reverted" /\ txs[k].status # "dropped"
  <2>1. CASE run[c].phase = "waiting"
    <3>1. At(c, "waiting") /\ watch = run[c].wait.watch
      BY <1>3, <1>5, <2>1 DEF At, Watched
    <3>2. watch \subseteq DOMAIN txs
      BY <3>1 DEF Sound, WaitSound
    <3>3. QED
      BY <3>1, <3>2 DEF AloneSound, Watches
  <2>2. CASE run[c].phase # "waiting"
    BY <1>5, <2>2 DEF Watched
  <2>3. QED
    BY <2>1, <2>2
<1>7. Pending \subseteq watch
  BY <1>5 DEF AloneSound, At, Watched
<1>8. Script(c)' = Script(c) /\ job' = job
  BY SameScript DEF Acts
<1>9. Stage(c)' = Stage(c) /\ (LastStage(c)' <=> LastStage(c)) /\ (Allows(c)' <=> Allows(c)) /\ Call(c)' = Call(c)
  BY <1>2, <1>8 DEF Stage, LastStage, Allows, Call
<1>10. Goes(Call(c))'
  BY <1>2, <1>9 DEF Goes, StakeGoes, MintGoes
<1>11. \A r \in Mined' : txs'[r].nonce # run'[c].nonce
  BY <1>2 DEF Mined
<1>12. run'[c].wait.watch = watch \union {n}
  BY <1>1, <1>5
<1>13. \A k \in watch \union {n} : /\ txs'[k].to = job[c].manager /\ txs'[k].amount = run[c].amount
                                /\ txs'[k].status # "reverted" /\ txs'[k].status # "dropped"
  BY <1>2, <1>6
<1>14. Watches(c)'
  BY <1>8, <1>10, <1>11, <1>12, <1>13 DEF Watches
<1>15. Allowed(c)'
  <2>1. \/ LastStage(c)
        \/ \A k \in 1 .. run[c].step - 1 : Script(c)[k].do = "approve" => Allows(c)
    BY DEF AloneSound, Allowed
  <2>2. QED
    BY <1>4, <1>8, <1>9, <1>11, <2>1 DEF Allowed
<1>16. QED
  BY <1>2, <1>3, <1>4, <1>7, <1>12, <1>14, <1>15 DEF AloneSound

LEMMA AloneSubmit ==
    ASSUME AlonesSound, NEW c \in Command, Submit(c)
    PROVE  /\ AloneSound(c)'
           /\ Alone(c) => run'[c].outcome # "failed"
<1> USE DEF AlonesSound, CommandsSound
<1>1. c \in Running /\ run[c].phase = "submit" /\ job' = job /\ hit' = hit /\ beside' = beside
      /\ At(c, "submit")
  BY DEF Submit, At
<1>2. Stepped(c)
  BY SubmitKeeps
<1>3. CASE ~Alone(c)
  BY <1>1, <1>3 DEF AloneSound, Alone
<1>4. CASE Alone(c)
  <2>1. /\ Running = {c} /\ Pending = {} /\ run[c].nonce = NextNonce /\ Goes(Call(c))
    BY <1>1, <1>4 DEF AloneSound, At
  <2>2. Stage(c).do # "funds"
    BY <1>1 DEF Sound, StageSound
  <2>3. /\ Tx(c) \in Transaction /\ Tx(c).status = "pending" /\ Tx(c).nonce = run[c].nonce
    BY <1>1, <2>2, TxIsOne
  <2>4. Tx(c).to = job[c].manager /\ Tx(c).amount = run[c].amount
    BY DEF Tx
  <2>5. PICK m \in Nat : m = Cardinality(Mined)
    BY MinedFinite DEF ChainSound
  <2>6. run[c].nonce = 1 + m
    BY <2>1, <2>5 DEF NextNonce
  <2>7. ~NonceUsed(Tx(c)) /\ ~FeeTooLow(Tx(c))
    BY <2>1, <2>3, <2>5, <2>6 DEF NonceUsed, FeeTooLow, NextNonce
  <2>8. \A r \in Mined : txs[r].nonce # run[c].nonce
    <3>1. \A r \in Mined : txs[r].nonce <= m
      BY <2>5 DEF ChainSound
    <3>2. ~ (1 + m <= m)
      BY ONLY m \in Nat
    <3>3. QED
      BY <2>6, <3>1, <3>2
  <2>9. Accept(Tx(c))
    BY <2>7 DEF Submit
  <2>10. CASE Stage(c).wait = "none"
    <3>1. LastStage(c)
      BY <1>1, <2>2, <2>10, StageLeads DEF Sound, Prepares
    <3>2. End(c, "returned")
      BY <2>7, <2>10, <3>1 DEF Submit, LastStage
    <3>3. run'[c].outcome = "returned"
      BY <3>2, EndRuns
    <3>4. QED
      BY <3>3, AloneEnds
  <2>11. CASE Stage(c).wait # "none"
    <3>1. run' = [run EXCEPT ![c].phase = "waiting", ![c].wait = Watching(Len(txs) + 1)]
      BY <2>7, <2>11 DEF Submit
    <3>2. PICK n : n = Len(txs) + 1
      OBVIOUS
    <3>3. PICK q, w : q = run[c] /\ w = Watching(n)
      OBVIOUS
    <3>4. w.watch = {n}
      BY <3>3 DEF Watching
    <3>5. PICK r : r = [q EXCEPT !.phase = "waiting", !.wait = w]
      OBVIOUS
    <3>6. q \in RunType
      BY <3>3 DEF Booked
    <3>7. /\ r.step = q.step /\ r.phase = "waiting" /\ r.nonce = q.nonce
          /\ r.outcome = q.outcome /\ r.wait = w /\ r.amount = q.amount
      BY ONLY <3>5, <3>6 DEF RunType
    <3>8. run'[c] = r
      BY <3>1, <3>2, <3>3, <3>5 DEF Booked
    <3>9. q.outcome = "running"
      BY <1>1, <3>3 DEF Running
    <3>10. Watched(c) = {}
      BY <1>1 DEF Watched
    <3>11. /\ run'[c].phase = "waiting" /\ run'[c].step = run[c].step /\ run'[c].nonce = run[c].nonce
           /\ run'[c].amount = run[c].amount /\ run'[c].outcome = "running"
           /\ run'[c].wait.watch = Watched(c) \union {Len(txs) + 1}
      BY <3>2, <3>3, <3>4, <3>7, <3>8, <3>9, <3>10
    <3>12. Acts(c)
      BY <1>2 DEF Stepped
    <3>13. AloneSound(c)'
      BY <1>1, <1>4, <2>1, <2>2, <2>3, <2>4, <2>7, <2>8, <2>9, <3>11, <3>12, AloneSubmits
    <3>14. QED
      BY <3>11, <3>13
  <2>12. QED
    BY <2>10, <2>11
<1>5. QED
  BY <1>3, <1>4

LEMMA AloneRaise ==
    ASSUME AlonesSound, NEW c \in Command, Raise(c)
    PROVE  AloneSound(c)'
<1> USE DEF AlonesSound, CommandsSound
<1>1. c \in Running /\ At(c, "waiting") /\ run[c].phase = "waiting" /\ job' = job /\ hit' = hit
      /\ beside' = beside
  BY DEF Raise, At
<1>2. Stepped(c)
  BY RaiseKeeps
<1>3. CASE ~Alone(c)
  BY <1>1, <1>3 DEF AloneSound, Alone
<1>4. CASE /\ CanGiveUp(run[c].wait)
           /\ run' = [run EXCEPT ![c].wait = GivenUp(@)]
           /\ UNCHANGED chainVars
  BY <1>1, <1>4, AlonePrompt DEF chainVars
<1>5. CASE /\ Alone(c)
           /\ CanReplace(run[c].wait)
           /\ Accept(Replacement(run[c].wait.base))
           /\ run' = [run EXCEPT ![c].wait = Replaced(@)]
  <2>1. PICK q, w, b : q = run[c] /\ w = q.wait /\ b = w.base
    OBVIOUS
  <2>2. q \in RunType /\ w \in WaitType
    BY <2>1 DEF Booked, RunType
  <2>3. b \in DOMAIN txs /\ b \in w.watch /\ txs[b].nonce = q.nonce
    BY <1>1, <2>1 DEF Sound, WaitSound
  <2>4. PICK old \in Transaction : old = txs[b]
    <3>1. PICK n \in Nat : n = Len(txs) /\ DOMAIN txs = 1 .. n
      BY DEF ChainSound
    <3>2. QED
      BY <2>3, <3>1 DEF ChainSound
  <2>5. PICK tip \in Nat : tip = IncreasedTip(old.tip)
    BY <2>4 DEF Transaction, IncreasedTip
  <2>6. PICK tx : tx = [old EXCEPT !.tip = tip, !.status = "pending"]
    OBVIOUS
  <2>7. /\ tx \in Transaction /\ tx.to = old.to /\ tx.amount = old.amount /\ tx.nonce = old.nonce
        /\ tx.status = "pending"
    BY ONLY old \in Transaction, tip \in Nat, <2>6 DEF Transaction
  <2>8. tx = Replacement(b)
    BY <2>4, <2>5, <2>6 DEF Replacement, Transaction
  <2>9. Accept(tx) /\ ~NonceUsed(tx)
    BY <1>5, <2>1, <2>8 DEF CanReplace
  <2>10. PICK m \in Nat : m = Cardinality(Mined)
    BY MinedFinite DEF ChainSound
  <2>11. tx.nonce > m
    BY <2>7, <2>9, <2>10 DEF NonceUsed, NextNonce, Transaction
  <2>12. \A r \in Mined : txs[r].nonce # run[c].nonce
    <3>1. \A r \in Mined : txs[r].nonce <= m
      BY <2>10 DEF ChainSound
    <3>2. ~ (tx.nonce <= m)
      BY <2>7, <2>10, <2>11 DEF Transaction
    <3>3. tx.nonce = run[c].nonce
      BY <2>1, <2>3, <2>4, <2>7
    <3>4. QED
      BY <3>1, <3>2, <3>3
  <2>13. Watches(c)
    BY <1>5 DEF AloneSound
  <2>14. old.to = job[c].manager /\ old.amount = run[c].amount /\ b \in run[c].wait.watch
    BY <1>1, <2>1, <2>3, <2>4, <2>13 DEF Watches
  <2>15. b \in Pending
    <3>1. old.status # "reverted" /\ old.status # "dropped"
      BY <1>1, <2>4, <2>12, <2>13, <2>14 DEF Watches
    <3>2. old.status # "done"
      BY <2>1, <2>3, <2>4, <2>12 DEF Mined
    <3>3. old.status = "pending"
      BY <3>1, <3>2 DEF Transaction
    <3>4. QED
      BY <2>3, <2>4, <3>3 DEF Pending
  <2>16. Goes(Call(c))
    BY <1>1, <2>13, <2>14, <2>15 DEF Watches
  <2>17. PICK n : n = Len(txs) + 1
    OBVIOUS
  <2>18. PICK v : v = Replaced(w)
    OBVIOUS
  <2>19. v.watch = w.watch \union {n}
    BY <2>17, <2>18 DEF Replaced
  <2>20. PICK r : r = [q EXCEPT !.wait = v]
    OBVIOUS
  <2>21. /\ r.step = q.step /\ r.phase = q.phase /\ r.nonce = q.nonce /\ r.amount = q.amount
         /\ r.outcome = q.outcome /\ r.wait = v
    BY ONLY <2>2, <2>20 DEF RunType
  <2>22. run'[c] = r
    BY <1>5, <2>1, <2>18, <2>20 DEF Booked
  <2>23. q.outcome = "running" /\ q.phase = "waiting" /\ w.watch = Watched(c)
    BY <1>1, <2>1 DEF Running, Watched
  <2>24. /\ run'[c].phase = "waiting" /\ run'[c].step = run[c].step /\ run'[c].nonce = run[c].nonce
         /\ run'[c].amount = run[c].amount /\ run'[c].outcome = "running"
         /\ run'[c].wait.watch = Watched(c) \union {Len(txs) + 1}
    BY <2>1, <2>17, <2>19, <2>21, <2>22, <2>23
  <2>25. Stage(c).do # "funds"
    BY <1>1 DEF Sound, StageSound
  <2>26. tx.to = job[c].manager /\ tx.amount = run[c].amount /\ tx.nonce = run[c].nonce
    BY <2>1, <2>3, <2>4, <2>7, <2>14
  <2>27. Acts(c)
    BY <1>2 DEF Stepped
  <2>28. QED
    BY <1>1, <1>5, <2>7, <2>9, <2>12, <2>16, <2>24, <2>25, <2>26, <2>27, AloneSubmits
<1>6. QED
  BY <1>3, <1>4, <1>5 DEF Raise

(* By itself a command reads the next nonce.                               *)
LEMMA NothingPending ==
    ASSUME ChainSound, Pending = {}
    PROVE  PendingNonce = NextNonce
<1>1. PICK m \in Nat : m = Cardinality(Mined)
  BY MinedFinite DEF ChainSound
<1>2. PICK U : U = {txs[i].nonce : i \in Mined} \union {0}
  OBVIOUS
<1>3. PICK n \in Nat : n = Len(txs) /\ DOMAIN txs = 1 .. n
  BY DEF ChainSound
<1>4. \A i \in Mined : txs[i].nonce \in Nat /\ txs[i].nonce <= m
  <2>1. \A i \in Mined : txs[i] \in Transaction
    BY <1>3 DEF ChainSound, Mined
  <2>2. QED
    BY <1>1, <2>1 DEF ChainSound, Transaction
<1>5. \A x \in U : x \in Nat /\ x <= m
  BY <1>1, <1>2, <1>4
<1>6. m \in U
  <2>1. CASE Mined = {}
    BY <1>1, <1>2, <2>1, FS_EmptySet
  <2>2. CASE Mined # {}
    BY <1>1, <1>2, <2>2 DEF ChainSound
  <2>3. QED
    BY <2>1, <2>2
<1>7. Max(U) = m
  <2>1. IsFiniteSet(0 .. m) /\ U \subseteq 0 .. m
    BY <1>1, <1>5, FS_Interval
  <2>2. IsFiniteSet(U) /\ U \subseteq Nat /\ U # {}
    BY <1>5, <1>6, <2>1, FS_Subset
  <2>3. Max(U) \in U /\ \A y \in U : Max(U) >= y
    BY ONLY <2>2, MaxIsThere
  <2>4. PICK x : x = Max(U)
    OBVIOUS
  <2>5. x \in Nat /\ x <= m /\ x >= m
    BY <1>5, <1>6, <2>3, <2>4
  <2>6. QED
    BY <1>1, <2>4, <2>5
<1>8. PendingNonce = 1 + Max(U)
  <2>1. Mined \union Pending = Mined
    OBVIOUS
  <2>2. QED
    BY <1>2, <2>1 DEF PendingNonce
<1>9. QED
  BY <1>1, <1>7, <1>8 DEF NextNonce

LEMMA AlonePopulate ==
    ASSUME AlonesSound, NEW c \in Command, Populate(c)
    PROVE  /\ AloneSound(c)'
           /\ Alone(c) /\ run'[c].outcome = "failed" => Short(c)
<1> USE DEF AlonesSound, CommandsSound
<1>1. c \in Running /\ run[c].phase = "send" /\ job' = job /\ hit' = hit /\ beside' = beside
      /\ UNCHANGED <<txs, wallet, allowance>>
  BY DEF Populate, At, chainVars
<1>2. Stepped(c)
  BY PopulateKeeps
<1>3. Alone(c) => Pending = {} /\ \A k \in 1 .. run[c].step - 1 : Script(c)[k].do = "approve" => Allows(c)
  BY <1>1 DEF AloneSound, At, Allowed
<1>4. CASE Goes(Call(c))
  <2>1. run' = [run EXCEPT ![c].phase = "submit", ![c].nonce = PendingNonce]
    BY <1>4 DEF Populate
  <2>2. PICK q, n : q = run[c] /\ n = PendingNonce
    OBVIOUS
  <2>3. PICK r : r = [q EXCEPT !.phase = "submit", !.nonce = n]
    OBVIOUS
  <2>4. q \in RunType
    BY <2>2 DEF Booked
  <2>5. /\ r.outcome = q.outcome /\ r.step = q.step /\ r.phase = "submit" /\ r.nonce = n
        /\ r.amount = q.amount
    BY ONLY <2>3, <2>4 DEF RunType
  <2>6. run'[c] = r
    BY <2>1, <2>2, <2>3 DEF Booked
  <2>7. run'[c].step = run[c].step /\ run'[c].phase = "submit" /\ run'[c].nonce = PendingNonce
        /\ run'[c].amount = run[c].amount /\ run'[c].outcome = "running"
    BY <1>1, <2>2, <2>5, <2>6 DEF Running
  <2>8. Acts(c)
    BY <1>2 DEF Stepped
  <2>9. Alone(c) => run'[c].nonce = NextNonce
    BY <1>3, <2>7, NothingPending
  <2>10. AloneSound(c)'
    BY <1>1, <1>3, <1>4, <2>7, <2>8, <2>9, AloneMoves
  <2>11. QED
    BY <2>7, <2>10
<1>5. CASE ~Goes(Call(c))
  <2>1. End(c, "failed")
    BY <1>5 DEF Populate
  <2>2. run'[c].outcome = "failed"
    BY <2>1, EndRuns
  <2>3. ASSUME Alone(c) PROVE Short(c)
    <3>1. PICK do, to, amount : do = Stage(c).do /\ to = job[c].manager /\ amount = run[c].amount
      OBVIOUS
    <3>2. PICK call : call = Call(c)
      OBVIOUS
    <3>3. call.do = do /\ call.to = to /\ call.amount = amount
      BY <3>1, <3>2 DEF Call
    <3>4. ~Goes(call)
      BY <1>5, <3>2
    <3>5. do \in {"approve", "stake", "mint"}
      <4>1. Stage(c).do # "funds"
        BY <1>1 DEF Sound, StageSound
      <4>2. QED
        BY <1>1, <3>1, <4>1, TxIsOne
    <3>6. Leads(Script(c), job[c].script) /\ run[c].step \in 1 .. Len(Script(c))
      BY <1>1, ScriptLeads DEF Booked, Sound, StageSound
    <3>7. amount \in Nat /\ to \in Manager /\ wallet \in Nat /\ allowance[to] \in Nat /\ MinimumMint \in Nat
      BY <3>1, AccountAssumption DEF Booked, RunType, JobType, FundsSound
    <3>8. do # "approve"
      BY <3>3, <3>4 DEF Goes
    <3>9. ~LastStage(c) => Prepares(Stage(c))
      BY <1>1, StageLeads DEF Sound
    <3>10. LastStage(c)
      BY <3>1, <3>5, <3>8, <3>9 DEF Prepares
    <3>11. do = IF job[c].script = "mintCommand" THEN "mint" ELSE "stake"
      BY <3>1, <3>6, <3>10 DEF Leads, LastStage, Stage
    <3>12. CASE do = "mint"
      <4>1. amount < MinimumMint
        BY <3>3, <3>4, <3>7, <3>12 DEF Goes, MintGoes
      <4>2. QED
        BY <3>1, <3>11, <3>12, <4>1 DEF Short
    <3>13. CASE do = "stake"
      <4>1. PICK k \in 1 .. Len(Script(c)) - 1 : Script(c)[k].do = "approve"
        BY <3>6, <3>11, <3>13 DEF Leads
      <4>2. Allows(c)
        BY <1>3, <2>3, <3>10, <4>1 DEF LastStage
      <4>3. allowance[to] >= amount
        BY <3>1, <4>2 DEF Allows
      <4>4. ~StakeGoes(to, amount)
        BY <3>3, <3>4, <3>13 DEF Goes
      <4>5. amount = 0 \/ amount > wallet
        BY <3>7, <4>3, <4>4 DEF StakeGoes
      <4>6. QED
        BY <3>1, <3>11, <3>13, <4>5 DEF Short
    <3>14. QED
      BY <3>5, <3>8, <3>12, <3>13
  <2>4. QED
    BY <2>2, <2>3, AloneEnds
<1>6. QED
  BY <1>4, <1>5

LEMMA AloneReads ==
    ASSUME AlonesSound, NEW c \in Command, CheckFunds(c) \/ ReadAllowance(c) \/ Answer(c) \/ GoToSend(c)
    PROVE  /\ AloneSound(c)'
           /\ run'[c].outcome = "failed" => Short(c)
<1> USE DEF AlonesSound, CommandsSound
<1>1. c \in Running /\ run[c].phase \in {"begin", "asking"} /\ job' = job /\ hit' = hit /\ beside' = beside
      /\ UNCHANGED <<txs, wallet, allowance>>
  BY DEF CheckFunds, ReadAllowance, Answer, GoToSend, At, chainVars
<1>2. Alone(c) => Pending = {}
  BY <1>1 DEF AloneSound, At
<1>3. ASSUME NEW phase \in {"asking", "send"}, Goto(c, phase)
      PROVE  AloneSound(c)' /\ run'[c].outcome # "failed"
  <2>1. run'[c] = [run[c] EXCEPT !.phase = phase]
    BY <1>3, GotoRuns DEF Phases
  <2>2. run'[c].outcome = run[c].outcome
    BY <2>1 DEF Booked, RunType
  <2>3. run[c].outcome = "running" /\ run[c].phase # "waiting"
    BY <1>1 DEF Running
  <2>4. AloneSound(c)'
    BY <1>1, <1>3, <2>3, AloneGoto
  <2>5. QED
    BY <2>2, <2>3, <2>4
<1>4. ASSUME Advance(c), Stage(c).do \in {"funds", "approve"}, Stage(c).do = "approve" => Allows(c)
      PROVE  AloneSound(c)' /\ run'[c].outcome # "failed"
  <2>1. ~LastStage(c)
    BY <1>1, <1>4, NotLast
  <2>2. AloneSound(c)'
    BY <1>1, <1>2, <1>4, <2>1, AloneAdvance
  <2>3. run'[c].outcome = run[c].outcome /\ run[c].outcome = "running"
    BY <1>1, <1>4, <2>1, AdvanceRuns DEF Running
  <2>4. QED
    BY <2>2, <2>3
<1>5. ASSUME NEW result \in {"failed", "declined"}, End(c, result) PROVE AloneSound(c)' /\ run'[c].outcome = result
  <2>1. result \in {"success", "failed", "declined", "returned"}
    OBVIOUS
  <2>2. run'[c].outcome = result
    BY ONLY <2>1, Booked, c \in Command, End(c, result), <1>5, EndRuns
  <2>3. QED
    BY <2>2, AloneEnds
<1>6. CASE CheckFunds(c)
  <2>1. Stage(c).do = "funds"
    BY <1>6 DEF CheckFunds
  <2>2. CASE run[c].amount > wallet
    <3>1. End(c, "failed")
      BY <1>6, <2>2 DEF CheckFunds
    <3>2. job[c].script # "mintCommand"
      <4>1. ~LastStage(c) /\ run[c].step \in 1 .. Len(Script(c)) /\ Len(Script(c)) \in 1 .. 4
        BY <1>1, <2>1, NotLast, StageLeads DEF Sound
      <4>2. run[c].step \in 1 .. Len(Script(c)) - 1
        BY <4>1 DEF LastStage
      <4>3. QED
        BY <4>2, ScriptLeads DEF Leads, Booked
    <3>3. QED
      BY <1>5, <2>2, <3>1, <3>2 DEF Short
  <2>3. CASE ~ (run[c].amount > wallet)
    <3>1. Advance(c)
      BY <1>6, <2>3 DEF CheckFunds
    <3>2. QED
      BY <1>4, <2>1, <3>1
  <2>4. QED
    BY <2>2, <2>3
<1>7. CASE ReadAllowance(c)
  <2>1. Stage(c).do = "approve"
    BY <1>7 DEF ReadAllowance
  <2>2. \/ End(c, "failed") /\ run[c].amount = 0
        \/ Advance(c) /\ Allows(c)
        \/ Goto(c, "asking") \/ Goto(c, "send")
    BY <1>7 DEF ReadAllowance, Allows
  <2>3. QED
    BY <1>3, <1>4, <1>5, <2>1, <2>2 DEF Short
<1>8. CASE Answer(c)
  <2>1. Goto(c, "send") \/ End(c, "declined")
    BY <1>8 DEF Answer
  <2>2. QED
    BY <1>3, <1>5, <2>1
<1>9. CASE GoToSend(c)
  <2>1. Goto(c, "send")
    BY <1>9 DEF GoToSend
  <2>2. QED
    BY <1>3, <2>1
<1>10. QED
  BY <1>6, <1>7, <1>8, <1>9

LEMMA AloneWait ==
    ASSUME AlonesSound, NEW c \in Command, Wait(c)
    PROVE  /\ AloneSound(c)'
           /\ Alone(c) => run'[c].outcome # "failed"
<1> USE DEF AlonesSound, CommandsSound
<1>1. At(c, "waiting") /\ c \in Running /\ job' = job /\ hit' = hit /\ beside' = beside
      /\ UNCHANGED <<txs, wallet, allowance>>
  BY DEF Wait, At, chainVars
<1>2. CASE ~Alone(c)
  <2>1. Acts(c)
    BY WaitKeeps DEF Stepped
  <2>2. QED
    BY <1>1, <1>2 DEF AloneSound, Alone
<1>3. CASE Alone(c)
  <2>1. PICK i \in run[c].wait.watch : \E r \in Mined :
            WaitEnds(i, r) /\ IF Received(c, i, r) THEN Advance(c) ELSE End(c, "failed")
    BY DEF Wait
  <2>2. PICK r \in Mined : WaitEnds(i, r) /\ IF Received(c, i, r) THEN Advance(c) ELSE End(c, "failed")
    BY <2>1
  <2>3. Pending = {} /\ Received(c, i, r) /\ (Stage(c).do = "approve" => Allows(c))
    BY <1>1, <1>3, <2>2, AloneWaits
  <2>4. Advance(c)
    BY <2>2, <2>3
  <2>5. CASE LastStage(c)
    <3>1. End(c, "success")
      BY <2>4, <2>5 DEF Advance, LastStage
    <3>2. run'[c].outcome = "success"
      BY <3>1, EndRuns
    <3>3. QED
      BY <3>2, AloneEnds
  <2>6. CASE ~LastStage(c)
    <3>1. AloneSound(c)'
      BY <1>1, <2>3, <2>4, <2>6, AloneAdvance
    <3>2. run'[c].outcome = "running"
      BY <1>1, <2>4, <2>6, AdvanceRuns DEF Running
    <3>3. QED
      BY <3>1, <3>2
  <2>7. QED
    BY <2>5, <2>6
<1>4. QED
  BY <1>2, <1>3

LEMMA AloneBegin ==
    ASSUME AlonesSound, NEW c \in Command, Begin(c)
    PROVE  AloneSound(c)'
<1> USE DEF AlonesSound, CommandsSound
<1>1. /\ run[c].outcome = "none" /\ UNCHANGED <<chainVars, job, hit>>
      /\ beside' = beside \union (IF Running = {} /\ Pending = {} THEN {} ELSE Running \union {c})
      /\ \E amount \in AmountsOf(c), tip \in FastPriority(c) :
          run' = [run EXCEPT ![c].step = 1, ![c].amount = amount, ![c].tip = tip,
                             ![c].outcome = "running"]
  BY Zenon DEF Begin
<1>2. run'[c].step = 1 /\ run'[c].phase = run[c].phase
  <2>1. PICK amount \in AmountsOf(c), tip \in FastPriority(c) :
          run' = [run EXCEPT ![c].step = 1, ![c].amount = amount, ![c].tip = tip,
                             ![c].outcome = "running"]
    BY Zenon, <1>1
  <2>2. PICK q : q = run[c]
    OBVIOUS
  <2>3. PICK r : r = [q EXCEPT !.step = 1, !.amount = amount, !.tip = tip, !.outcome = "running"]
    OBVIOUS
  <2>4. q \in RunType
    BY <2>2 DEF Booked
  <2>5. r.step = 1 /\ r.phase = q.phase
    BY ONLY <2>3, <2>4 DEF RunType
  <2>6. run'[c] = r
    BY <2>1, <2>2, <2>3 DEF Booked
  <2>7. QED
    BY <2>2, <2>5, <2>6
<1>3. run[c].phase = "begin"
  BY <1>1 DEF Sound, OwnSound
<1>4. Acts(c)
  BY BeginKeeps DEF Stepped
<1>5. SUFFICES ASSUME Alone(c)'
               PROVE  Running' = {c} /\ Pending' = {} /\ Watches(c)' /\ Allowed(c)' /\ ~At(c, "submit")'
  BY DEF AloneSound
<1>6. Running = {} /\ Pending = {}
  BY <1>1, <1>5 DEF Alone
<1>7. Running' = {c}
  BY <1>4, <1>5, <1>6 DEF Running, Acts, Alone
<1>8. Pending' = {}
  BY <1>1, <1>6 DEF chainVars, Pending
<1>9. ~At(c, "waiting")' /\ ~At(c, "submit")'
  BY <1>2, <1>3 DEF At
<1>10. 1 .. run'[c].step - 1 = {}
  BY <1>2
<1>11. QED
  BY <1>7, <1>8, <1>9, <1>10 DEF Watches, Allowed

LEMMA AloneFault ==
    ASSUME AlonesSound, NEW c \in Command, Fault(c)
    PROVE  AloneSound(c)' /\ UNCHANGED <<wallet, allowance>> /\ beside' = beside
<1> USE DEF AlonesSound, CommandsSound
<1>1. job' = job /\ hit \subseteq hit' /\ beside' = beside
  BY DEF Fault
<1>2. CASE End(c, "failed") /\ (UNCHANGED chainVars \/ Accept(Tx(c)))
  <2>1. run'[c].outcome = "failed"
    BY <1>2, EndRuns
  <2>2. QED
    BY <1>1, <1>2, <2>1, AloneEnds DEF chainVars, Accept
<1>3. CASE /\ At(c, "waiting") /\ run[c].wait.raise = "raising"
           /\ run' = [run EXCEPT ![c].wait = GivenUp(@)] /\ UNCHANGED chainVars
  BY <1>1, <1>3, AlonePrompt DEF chainVars
<1>4. QED
  BY <1>2, <1>3 DEF Fault

(* What one command does leaves all of them sound, and it fails for a      *)
(* reason.                                                                 *)
LEMMA AloneProceeds ==
    ASSUME AlonesSound, NEW c \in Command, Begin(c) \/ Proceed(c) \/ Prompt(c) \/ Fault(c)
    PROVE  /\ FundsSound' /\ AloneSound(c)' /\ Stepped(c)
           /\ \/ c \in Running /\ beside' = beside
              \/ beside' = beside \union (IF Running = {} /\ Pending = {} THEN {} ELSE Running \union {c})
           /\ Alone(c) /\ run'[c].outcome = "failed" /\ c \notin hit' => Short(c)
<1> USE DEF AlonesSound
<1>1. CASE Begin(c)
  <2>1. UNCHANGED chainVars /\ run[c].outcome = "none"
        /\ beside' = beside \union (IF Running = {} /\ Pending = {} THEN {} ELSE Running \union {c})
    BY Zenon, <1>1 DEF Begin
  <2>2. ~Alone(c)
    BY <2>1 DEF Alone, Running
  <2>3. QED
    BY <1>1, <2>1, <2>2, AloneBegin, BeginKeeps DEF FundsSound, chainVars
<1>2. CASE Prompt(c)
  <2>1. /\ At(c, "waiting") /\ Stage(c).wait # "plain" /\ job' = job /\ hit' = hit /\ UNCHANGED <<txs, wallet, allowance>>
        /\ run' = [run EXCEPT ![c].wait = PressEnter(@)] /\ beside' = beside
    BY <1>2 DEF Prompt, chainVars
  <2>2. c \in Running
    BY <2>1 DEF At
  <2>3. Stepped(c) /\ AloneSound(c)'
    BY <2>1, PromptKeeps, AlonePrompt
  <2>4. run'[c].outcome = "running"
    <3>1. PICK q : q = run[c]
      OBVIOUS
    <3>2. q \in RunType /\ q.outcome = "running"
      BY <2>2, <3>1 DEF CommandsSound, Booked, Running
    <3>3. run'[c] = [q EXCEPT !.wait = PressEnter(@)]
      BY <2>1, <3>1 DEF CommandsSound, Booked
    <3>4. QED
      BY <3>2, <3>3 DEF RunType
  <2>5. QED
    BY <2>1, <2>2, <2>3, <2>4 DEF FundsSound
<1>3. CASE Fault(c)
  <2>1. c \in hit' /\ Stepped(c) /\ AloneSound(c)' /\ UNCHANGED <<wallet, allowance>> /\ beside' = beside
    BY <1>3, AloneFault, FaultKeeps DEF Fault
  <2>2. c \in Running
    BY <1>3 DEF Fault, At
  <2>3. QED
    BY <2>1, <2>2 DEF FundsSound
<1>4. CASE Proceed(c)
  <2>1. c \in Running /\ beside' = beside /\ UNCHANGED <<wallet, allowance>>
    BY <1>4 DEF Proceed, CheckFunds, ReadAllowance, Answer, GoToSend, Populate, Submit, Wait, Raise, At,
                chainVars, Accept
  <2>2. Stepped(c)
    BY <1>4, CheckFundsKeeps, ReadAllowanceKeeps, AnswerKeeps, GoToSendKeeps, PopulateKeeps, SubmitKeeps,
       WaitKeeps, RaiseKeeps DEF Proceed
  <2>3. CASE Raise(c)
    <3>1. run'[c].outcome = "running"
      <4>1. PICK w : run' = [run EXCEPT ![c].wait = w]
        <5>1. CASE run' = [run EXCEPT ![c].wait = Replaced(@)]
          BY <5>1
        <5>2. CASE run' = [run EXCEPT ![c].wait = GivenUp(@)]
          BY <5>2
        <5>3. QED
          BY <2>3, <5>1, <5>2 DEF Raise
      <4>2. PICK q : q = run[c]
        OBVIOUS
      <4>3. q \in RunType /\ q.outcome = "running"
        BY <2>1, <4>2 DEF CommandsSound, Booked, Running
      <4>4. run'[c] = [q EXCEPT !.wait = w]
        BY <4>1, <4>2 DEF CommandsSound, Booked
      <4>5. QED
        BY <4>3, <4>4 DEF RunType
    <3>2. QED
      BY <2>1, <2>2, <2>3, <3>1, AloneRaise DEF FundsSound
  <2>4. CASE ~Raise(c)
    <3>1. AloneSound(c)' /\ (Alone(c) /\ run'[c].outcome = "failed" => Short(c))
      BY <1>4, <2>4, AloneReads, AlonePopulate, AloneSubmit, AloneWait DEF Proceed
    <3>2. QED
      BY <2>1, <2>2, <3>1 DEF FundsSound
  <2>5. QED
    BY <2>3, <2>4
<1>5. QED
  BY <1>1, <1>2, <1>3, <1>4

LEMMA AlonesInit == StakingInit => AlonesSound
<1> SUFFICES ASSUME StakingInit PROVE AlonesSound
  OBVIOUS
<1>1. FundsSound
  BY AccountAssumption DEF FundsSound, StakingInit, ChainInit
<1>2. Running = {}
  BY DEF StakingInit, Running, NotBegun
<1>3. QED
  BY <1>1, <1>2, CommandsInit DEF AlonesSound, AloneSound, Alone

FailsForWant == \A c \in Running : run'[c].outcome = "failed" => c \in beside \union hit' \/ Short(c)

LEMMA AlonesStep == AlonesSound /\ [StakingNext]_stakingVars => AlonesSound' /\ FailsForWant
<1> SUFFICES ASSUME AlonesSound, [StakingNext]_stakingVars PROVE AlonesSound' /\ FailsForWant
  OBVIOUS
<1>1. CommandsSound'
  BY CommandsStep DEF AlonesSound
<1>2. CASE run' = run
  <2>1. FailsForWant
    BY <1>2 DEF FailsForWant, Running
  <2>2. FundsSound' /\ \A c \in Command : AloneSound(c)'
    <3>1. CASE MineOne
      BY <3>1, AloneMines
    <3>2. CASE UNCHANGED stakingVars
      <4>1. UNCHANGED <<txs, wallet, allowance, job, run, beside>>
        BY <3>2 DEF stakingVars, chainVars
      <4>2. ASSUME NEW c \in Command PROVE AloneSound(c)'
        <5>1. /\ Script(c)' = Script(c) /\ (Allows(c)' <=> Allows(c)) /\ Mined' = Mined /\ Pending' = Pending
              /\ NextNonce' = NextNonce /\ (Goes(Call(c))' <=> Goes(Call(c)))
          BY <4>1, AloneSame
        <5>2. Stage(c)' = Stage(c) /\ (LastStage(c)' <=> LastStage(c)) /\ Running' = Running
              /\ \A phase : At(c, phase)' <=> At(c, phase)
          BY <4>1, <5>1 DEF Stage, LastStage, Running, At
        <5>3. (Watches(c)' <=> Watches(c)) /\ (Allowed(c)' <=> Allowed(c))
          BY <4>1, <5>1, <5>2 DEF Watches, Allowed
        <5>4. QED
          BY <4>1, <5>1, <5>2, <5>3 DEF AlonesSound, AloneSound, Alone
      <4>3. QED
        BY <4>1, <4>2 DEF AlonesSound, FundsSound
    <3>3. CASE \E c \in Command : Begin(c) \/ Proceed(c) \/ Prompt(c) \/ Fault(c)
      <4>1. PICK c \in Command : Begin(c) \/ Proceed(c) \/ Prompt(c) \/ Fault(c)
        BY <3>3
      <4>2. FundsSound' /\ AloneSound(c)'
        BY <4>1, AloneProceeds
      <4>3. ASSUME NEW d \in Command, d # c PROVE AloneSound(d)'
        <5>1. \/ c \in Running /\ beside' = beside
              \/ beside' = beside \union (IF Running = {} /\ Pending = {} THEN {} ELSE Running \union {c})
          BY <4>1, AloneProceeds
        <5>2. AloneSound(d) /\ run'[d] = run[d]
          BY <1>2 DEF AlonesSound
        <5>3. QED
          BY <4>3, <5>1, <5>2, AloneOthers
      <4>4. QED
        BY <4>2, <4>3
    <3>4. QED
      BY <3>1, <3>2, <3>3 DEF StakingNext
  <2>3. QED
    BY <1>1, <2>1, <2>2 DEF AlonesSound
<1>3. CASE run' # run
  <2>1. PICK c \in Command : Begin(c) \/ Proceed(c) \/ Prompt(c) \/ Fault(c)
    BY <1>3 DEF StakingNext, MineOne, stakingVars
  <2>2. /\ FundsSound' /\ AloneSound(c)' /\ Stepped(c)
        /\ \/ c \in Running /\ beside' = beside
           \/ beside' = beside \union (IF Running = {} /\ Pending = {} THEN {} ELSE Running \union {c})
        /\ Alone(c) /\ run'[c].outcome = "failed" /\ c \notin hit' => Short(c)
    BY <2>1, AloneProceeds
  <2>3. ASSUME NEW d \in Command, d # c PROVE run'[d] = run[d] /\ AloneSound(d)'
    <3>1. run'[d] = run[d]
      BY <2>2, <2>3 DEF Stepped, Acts
    <3>2. AloneSound(d)
      BY DEF AlonesSound
    <3>3. QED
      BY <2>2, <2>3, <3>1, <3>2, AloneOthers
  <2>4. FailsForWant
    BY <2>2, <2>3 DEF FailsForWant, Running, Alone
  <2>5. QED
    BY <1>1, <2>2, <2>3, <2>4 DEF AlonesSound
<1>4. QED
  BY <1>2, <1>3

(* A command that nothing runs beside and no fault hits fails only for     *)
(* want of tokens: its own approvals, nonces and replacements never stand  *)
(* in its way.                                                             *)
THEOREM AloneAlwaysSucceeds == StakingSpec => AloneSucceeds
<1>1. StakingSpec => []AlonesSound
  BY AlonesInit, AlonesStep, PTL DEF StakingSpec
<1>2. AlonesSound /\ [StakingNext]_stakingVars => [FailsForWant]_stakingVars
  BY AlonesStep
<1>3. StakingSpec => [][FailsForWant]_stakingVars
  BY <1>1, <1>2, PTL DEF StakingSpec
<1>4. QED
  BY <1>3, PTL DEF AloneSucceeds, FailsForWant

-------------------------------------------------------------------------------
(* The verification of a query.                                            *)

Types == {"request", "response", "propagate"}

(* What a combineLatest holds was delivered, at the input of its type.     *)
LatestSound == /\ latest \in [Types -> published \union {Nothing}]
               /\ \A type \in Types : latest[type] # Nothing
                    => latest[type] \in Delivered /\ latest[type].type = type

(* The pools hold what was delivered; once the request is known, to the    *)
(* client's request only.                                                  *)
PoolsSound == /\ \A m \in responses : m \in Delivered /\ (httpRequest # Nothing => m.request = Ours)
              /\ requestKnown => httpRequest = Ours

(* All nodes of one of the two lists have answered, as far as it is said.  *)
ListAnswered == \E nodes \in {active, Participants} : nodes \subseteq Responders
CheckSound == /\ allAnswered => ListAnswered
              /\ done => ListAnswered /\ requestKnown

ValidationInv == ResponsesKept /\ LatestSound /\ PoolsSound /\ CheckSound /\ VerifiedIsRight

-------------------------------------------------------------------------------
LEMMA PublishedAreMessages ==
    ASSUME TypeOK, NEW m \in published
    PROVE  m \in Message /\ m # Nothing
BY TrafficAssumption, NothingAssumption DEF TypeOK

(* A response to the client's request passes the filter in any state of    *)
(* its other inputs.                                                       *)
LEMMA OursPass ==
    ASSUME NEW m \in Message, m.request = Ours,
           NEW request \in {Nothing, Ours}, NEW excluded, excluded \intersect Compatible = {}
    PROVE  Passes(m, request, excluded)
BY RequestAssumption, NothingAssumption DEF Passes

(* What passes when the request is known is the client's.                  *)
LEMMA PassingAreOurs ==
    ASSUME NEW m, NEW excluded, Passes(m, Ours, excluded)
    PROVE  m.request = Ours
BY RequestAssumption, NothingAssumption DEF Passes

-------------------------------------------------------------------------------
(* The end: a verification that succeeds is right.  The nodes whose answers*)
(* were compared answered the client's request.                            *)
LEMMA SettlesRight ==
    ASSUME TypeOK', PoolsSound', CheckSound', Settle
    PROVE  VerifiedIsRight'
<1> SUFFICES ASSUME outcome' = "verified"
             PROVE  /\ \E nodes \in {active', Participants} :
                         nodes \subseteq Answered' /\ Agree(nodes)'
                    /\ \A i \in served' : \E n \in Answered' : stored'[Ours][n][i] # Nothing
  BY DEF VerifiedIsRight
<1>1. done' /\ NodesAgree' /\ AllPresent'
  BY DEF Settle, ConditionsValidated
<1>2. requestKnown' /\ httpRequest' # Nothing
  BY <1>1, RequestAssumption, NothingAssumption DEF CheckSound, PoolsSound
<1>3. ASSUME NEW m \in responses' PROVE m.request = Ours /\ m.node \in Answered'
  BY <1>2 DEF PoolsSound, TypeOK, Answered
<1>4. PICK nodes \in {active', Participants} : nodes \subseteq Responders'
  BY <1>1 DEF CheckSound, ListAnswered
<1>5. nodes \subseteq Answered'
  BY <1>3, <1>4 DEF Responders
<1>6. ASSUME NEW n1 \in nodes, NEW n2 \in nodes, NEW i \in Id,
             stored'[Ours][n1][i] # Nothing, stored'[Ours][n2][i] # Nothing
      PROVE  stored'[Ours][n1][i] = stored'[Ours][n2][i]
  <2>1. PICK m1 \in responses' : m1.node = n1
    BY <1>4 DEF Responders
  <2>2. PICK m2 \in responses' : m2.node = n2
    BY <1>4 DEF Responders
  <2>3. m1.request = Ours /\ m2.request = Ours
    BY <1>3
  <2>4. i \in IdsOf(m1)' /\ i \in IdsOf(m2)'
    BY <1>6, <2>1, <2>2, <2>3 DEF IdsOf
  <2>5. QED
    BY <1>1, <2>1, <2>2, <2>3, <2>4 DEF NodesAgree
<1>7. Agree(nodes)'
  BY <1>6 DEF Agree
<1>8. ASSUME NEW i \in served' PROVE \E n \in Answered' : stored'[Ours][n][i] # Nothing
  <2>1. PICK m \in responses' : i \in IdsOf(m)'
    BY <1>1 DEF AllPresent
  <2>2. stored'[Ours][m.node][i] # Nothing
    BY <1>3, <2>1 DEF IdsOf
  <2>3. QED
    BY <1>3, <2>2
<1>9. QED
  BY <1>5, <1>7, <1>8

(* The check, afresh or not.                                               *)
LEMMA ChecksSound ==
    ASSUME CheckSound, NEW nodes, NEW emitted \in BOOLEAN, CheckCompletion(nodes, emitted),
           nodes # Nothing => nodes \in {active, Participants}, UNCHANGED active,
           responses \subseteq responses'
    PROVE  CheckSound'
<1>1. Responders \subseteq Responders'
  BY DEF Responders
<1>2. allAnswered \/ (nodes # Nothing /\ nodes \subseteq Responders') => ListAnswered'
  BY <1>1 DEF CheckSound, ListAnswered
<1>3. QED
  BY <1>2 DEF CheckCompletion, CheckSound, GotAllPropagates

LEMMA RestartsSound == ASSUME Restart PROVE CheckSound'
BY DEF Restart, CheckSound

-------------------------------------------------------------------------------
(* A message that comes.                                                   *)
LEMMA Comes ==
    ASSUME TypeOK, LatestSound, NEW m \in coming, Come(m), UNCHANGED <<world, lost>>
    PROVE  /\ m \in Message /\ m \in published /\ m # Nothing
           /\ coming' \subseteq published' /\ lost' \subseteq published' \ coming'
           /\ Delivered' = Delivered \union {m}
           /\ \A type \in DOMAIN latest' : latest'[type] \in published' \union {Nothing}
           /\ LatestSound'
<1>1. m \in published /\ m \in Message /\ m # Nothing /\ m.type \in Types
  BY PublishedAreMessages DEF TypeOK, Message, Types
<1>2. /\ coming' \subseteq published' /\ lost' \subseteq published' \ coming'
      /\ Delivered' = Delivered \union {m}
  BY <1>1 DEF TypeOK, Come, world, Delivered
<1>3. latest' \in [Types -> published' \union {Nothing}]
  BY <1>1 DEF LatestSound, Come, world
<1>4. ASSUME NEW type \in Types, latest'[type] # Nothing
      PROVE  latest'[type] \in Delivered' /\ latest'[type].type = type
  <2>1. latest'[type] = IF type = m.type THEN m ELSE latest[type]
    BY <1>1 DEF LatestSound, Come
  <2>2. QED
    BY <1>2, <1>4, <2>1 DEF LatestSound
<1>5. QED
  BY <1>1, <1>2, <1>3, <1>4 DEF LatestSound

LEMMA ComesUnheard ==
    ASSUME ValidationInv, NEW m \in coming, ComeUnheard(m)
    PROVE  ValidationInv'
<1> USE DEF ValidationInv
<1>1. /\ TypeOK /\ Come(m) /\ UNCHANGED <<world, lost>>
      /\ UNCHANGED <<filterVars, candidate, requestKnown, pools, checkVars, served, elapsed, outcome>>
      /\ missed' = IF addressKnown THEN missed ELSE missed \union {m}
      /\ ~addressKnown \/ ~Passes(m, httpRequest, impossible)
  BY DEF ComeUnheard, ResponsesKept
<1>2. /\ m \in Message /\ m \in published
      /\ coming' \subseteq published' /\ lost' \subseteq published' \ coming'
      /\ Delivered' = Delivered \union {m}
      /\ \A type \in DOMAIN latest' : latest'[type] \in published' \union {Nothing}
      /\ LatestSound'
  BY <1>1, Comes
<1>3. TypeOK'
  <2>1. /\ published' = published /\ coming' \subseteq published' /\ missed' \subseteq published'
        /\ lost' \subseteq published' \ coming'
    BY <1>1, <1>2 DEF TypeOK, world
  <2>2. \A type \in DOMAIN latest' : latest'[type] \in published' \union {Nothing}
    BY <1>2
  <2>3. /\ UNCHANGED <<stored, active, addressKnown, requestKnown, allAnswered, done, elapsed>>
        /\ UNCHANGED <<httpRequest, impossible, candidate, responses, propagates>>
        /\ UNCHANGED <<expected, served, outcome>>
    BY <1>1 DEF world, filterVars, pools, checkVars
  <2>4. QED
    BY ONLY <1>1, <2>1, <2>2, <2>3 DEF TypeOK
<1>4. m.request = Ours => ~addressKnown
  <2>1. httpRequest \in {Nothing, Ours} /\ impossible \intersect Compatible = {}
    BY <1>1 DEF TypeOK
  <2>2. QED
    BY <1>1, <1>2, <2>1, OursPass
<1>5. ResponsesKept'
  BY <1>1, <1>2, <1>3, <1>4 DEF ResponsesKept, pools
<1>6. PoolsSound'
  BY <1>1, <1>2 DEF PoolsSound, pools, filterVars
<1>7. CheckSound'
  BY <1>1 DEF CheckSound, ListAnswered, Responders, world, pools, checkVars
<1>8. VerifiedIsRight'
  BY <1>1 DEF ComeUnheard, Come, Listening, VerifiedIsRight
<1>9. QED
  BY <1>2, <1>5, <1>6, <1>7, <1>8

(* One that never comes.                                                   *)
LEMMA LoseKeeps ==
    ASSUME ValidationInv, NEW m \in coming, Lose(m)
    PROVE  ValidationInv'
<1> USE DEF ValidationInv
<1>1. /\ TypeOK /\ coming' = coming \ {m} /\ lost' = lost \union {m}
      /\ UNCHANGED <<world, filterVars, latest, candidate, requestKnown, pools, checkVars, served,
                     elapsed, outcome, missed>>
  BY DEF Lose, ResponsesKept
<1>2. /\ coming' \subseteq published' /\ lost' \subseteq published' \ coming'
      /\ Delivered' = Delivered
  BY <1>1 DEF TypeOK, world, Delivered
<1>3. TypeOK'
  <2>1. /\ UNCHANGED <<stored, active, published, missed, addressKnown, requestKnown>>
        /\ UNCHANGED <<allAnswered, done, elapsed, httpRequest, impossible, latest>>
        /\ UNCHANGED <<candidate, responses, propagates, expected, served, outcome>>
    BY <1>1 DEF world, filterVars, pools, checkVars
  <2>2. QED
    BY ONLY <1>1, <1>2, <2>1 DEF TypeOK
<1>4. ResponsesKept'
  BY <1>1, <1>2, <1>3 DEF ResponsesKept, pools
<1>5. LatestSound'
  BY <1>1, <1>2 DEF LatestSound, world
<1>6. PoolsSound' /\ CheckSound'
  BY <1>1, <1>2 DEF PoolsSound, CheckSound, ListAnswered, Responders, world, pools, checkVars,
                    filterVars
<1>7. VerifiedIsRight'
  BY <1>1, <1>2 DEF VerifiedIsRight, Answered, Agree, world
<1>8. QED
  BY <1>4, <1>5, <1>6, <1>7

(* One that passes the filter, whatever it is.                             *)
LEMMA HeardKeeps ==
    ASSUME ValidationInv, NEW m \in coming, Heard(m), Settle,
           responses' = responses \union (IF m.type = "response" THEN {m} ELSE {}),
           propagates' = propagates \union (IF m.type = "propagate" THEN {m} ELSE {}),
           impossible' \subseteq Request \ Compatible, candidate' \in Compatible \union {Nothing},
           requestKnown' \in BOOLEAN,
           requestKnown' => requestKnown \/ (httpRequest = m.request),
           allAnswered' \in BOOLEAN, done' \in BOOLEAN,
           expected' # Nothing => expected' \in {active, Participants},
           CheckSound'
    PROVE  ValidationInv'
<1> USE DEF ValidationInv
<1>1. /\ TypeOK /\ Come(m) /\ UNCHANGED <<world, lost>>
      /\ Passes(m, httpRequest, impossible)
      /\ UNCHANGED <<addressKnown, httpRequest, served, elapsed, missed>>
  BY DEF Heard, ResponsesKept
<1>2. /\ m \in Message /\ m \in published
      /\ coming' \subseteq published' /\ lost' \subseteq published' \ coming'
      /\ Delivered' = Delivered \union {m}
      /\ \A type \in DOMAIN latest' : latest'[type] \in published' \union {Nothing}
      /\ LatestSound'
  BY <1>1, Comes
<1>3. TypeOK'
  <2>1. outcome' \in {"pending", "verified", "timedOut"}
    BY DEF Settle
  <2>2. QED
    BY <1>1, <1>2, <2>1 DEF TypeOK, world
<1>4. ResponsesKept'
  BY <1>1, <1>2, <1>3 DEF ResponsesKept
<1>5. PoolsSound'
  <2>1. httpRequest # Nothing => httpRequest = Ours /\ m.request = Ours
    BY <1>1, PassingAreOurs DEF TypeOK
  <2>2. httpRequest = m.request => httpRequest = Ours
    BY <1>2, <2>1, NothingAssumption DEF Message
  <2>3. QED
    BY <1>1, <1>2, <2>1, <2>2 DEF PoolsSound
<1>6. VerifiedIsRight'
  BY <1>3, <1>5, SettlesRight
<1>7. QED
  BY <1>2, <1>4, <1>5, <1>6

LEMMA CheckTypes ==
    ASSUME NEW nodes, NEW emitted \in BOOLEAN, CheckCompletion(nodes, emitted), allAnswered \in BOOLEAN,
           nodes # Nothing => nodes \in {active, Participants}
    PROVE  /\ allAnswered' \in BOOLEAN /\ done' \in BOOLEAN /\ Settle
           /\ expected' # Nothing => expected' \in {active, Participants}
BY DEF CheckCompletion, GotAllPropagates

LEMMA HearingKeeps ==
    ASSUME ValidationInv, NEW m \in coming,
           ComeImpossible(m) \/ ComeRequest(m) \/ ComeResponse(m) \/ ComePropagate(m)
    PROVE  ValidationInv'
<1>1. TypeOK /\ CheckSound /\ m \in published /\ m \in Message
  BY PublishedAreMessages DEF ValidationInv, ResponsesKept, TypeOK
<1>2. /\ impossible \subseteq Request \ Compatible /\ candidate \in Compatible \union {Nothing}
      /\ requestKnown \in BOOLEAN /\ allAnswered \in BOOLEAN
      /\ expected # Nothing => expected \in {active, Participants}
  BY <1>1 DEF TypeOK
<1>3. CASE ComeImpossible(m)
  <2>1. /\ Heard(m) /\ m.type = "request" /\ CheckCompletion(expected, TRUE) /\ UNCHANGED active
        /\ UNCHANGED <<candidate, requestKnown, responses, propagates>>
        /\ impossible' = impossible \union {m.request} /\ m.request \in Request \ Compatible
    BY <1>1, <1>3 DEF ComeImpossible, HasIncompatibleInput, pools, Heard, world, Message
  <2>2. CheckSound'
    BY <1>1, <1>2, <2>1, ChecksSound
  <2>3. QED
    BY <1>2, <2>1, <2>2, CheckTypes, HeardKeeps
<1>4. CASE ComeRequest(m)
  <2>1. /\ Heard(m) /\ m.type = "request" /\ CheckCompletion(expected, FALSE) /\ UNCHANGED active
        /\ UNCHANGED <<impossible, responses, propagates>>
        /\ candidate' \in Compatible
        /\ requestKnown' = (requestKnown \/ httpRequest = m.request)
    BY <1>4 DEF ComeRequest, HasIncompatibleInput, pools, Heard, world
  <2>2. CheckSound'
    BY <1>1, <1>2, <2>1, ChecksSound
  <2>3. QED
    BY <1>2, <2>1, <2>2, CheckTypes, HeardKeeps
<1>5. CASE ComeResponse(m)
  <2>1. /\ Heard(m) /\ m.type = "response" /\ CheckCompletion(expected, TRUE) /\ UNCHANGED active
        /\ responses' = responses \union {m}
        /\ UNCHANGED <<impossible, candidate, requestKnown, propagates>>
    BY <1>5 DEF ComeResponse, Heard, world
  <2>2. CheckSound'
    BY <1>1, <1>2, <2>1, ChecksSound
  <2>3. QED
    BY <1>2, <2>1, <2>2, CheckTypes, HeardKeeps
<1>6. CASE ComePropagate(m)
  <2>1. /\ Heard(m) /\ m.type = "propagate" /\ CheckCompletion(expected, TRUE) /\ UNCHANGED active
        /\ propagates' = propagates \union {m}
        /\ UNCHANGED <<impossible, candidate, requestKnown, responses>>
    BY <1>6 DEF ComePropagate, Heard, world
  <2>2. CheckSound'
    BY <1>1, <1>2, <2>1, ChecksSound
  <2>3. QED
    BY <1>2, <2>1, <2>2, CheckTypes, HeardKeeps
<1>7. QED
  BY <1>3, <1>4, <1>5, <1>6

-------------------------------------------------------------------------------
(* The address is known: what the filters pass again was delivered, and a  *)
(* response to the client's request that was kept back is among it.        *)
LEMMA AddressKeeps == ASSUME ValidationInv, AddressKnown PROVE ValidationInv'
<1> USE DEF ValidationInv
<1>1. PICK found \in SUBSET (Request \ Compatible) :
        /\ impossible' = impossible \union found
        /\ responses' = responses \union Again("response", httpRequest, impossible \union found)
        /\ propagates' = propagates \union Again("propagate", httpRequest, impossible \union found)
        /\ candidate' \in Compatible \union {Nothing}
  <2> DEFINE requests == {m.request : m \in Again("request", httpRequest, impossible)}
             f == {r \in requests : HasIncompatibleInput(r)}
  <2>1. TypeOK /\ LatestSound
    BY DEF ResponsesKept
  <2>2. \A r \in requests : r = latest["request"].request /\ r \in Request
    <3>1. latest["request"] # Nothing => latest["request"] \in Message
      BY <2>1, PublishedAreMessages DEF LatestSound, Types
    <3>2. QED
      BY <3>1 DEF Again, Passes, Message
  <2>3. f \in SUBSET (Request \ Compatible)
    BY <2>2 DEF HasIncompatibleInput
  <2>4. requests # f => latest["request"].request \in Compatible
    BY <2>2 DEF HasIncompatibleInput
  <2>5. candidate \in Compatible \union {Nothing}
    BY <2>1 DEF TypeOK
  <2>6. /\ impossible' = impossible \union f
        /\ responses' = responses \union Again("response", httpRequest, impossible \union f)
        /\ propagates' = propagates \union Again("propagate", httpRequest, impossible \union f)
        /\ candidate' = IF requests # f THEN latest["request"].request ELSE candidate
    BY DEF AddressKnown
  <2>7. QED
    BY <2>3, <2>4, <2>5, <2>6
<1>2. /\ TypeOK /\ LatestSound /\ outcome = "pending"
      /\ UNCHANGED <<world, coming, lost, httpRequest, latest, served, elapsed>>
      /\ addressKnown' = TRUE /\ missed' = missed \ {latest[type] : type \in DOMAIN latest}
      /\ requestKnown' = (candidate' # Nothing /\ candidate' = httpRequest)
      /\ Restart \/ CheckCompletion(expected, FALSE)
  BY DEF AddressKnown, Listening, ResponsesKept
<1>3. impossible' \subseteq Request \ Compatible
  BY <1>1, <1>2 DEF TypeOK
<1>4. ASSUME NEW type \in Types, NEW m \in Again(type, httpRequest, impossible')
      PROVE  /\ m \in Delivered /\ m \in published /\ m.type = type
             /\ httpRequest # Nothing => m.request = Ours
  <2>1. m = latest[type] /\ m # Nothing /\ Passes(m, httpRequest, impossible')
    BY <1>4 DEF Again, Passes
  <2>2. m \in Delivered /\ m.type = type
    BY <1>2, <2>1 DEF LatestSound
  <2>3. httpRequest # Nothing => httpRequest = Ours
    BY <1>2 DEF TypeOK
  <2>4. QED
    BY <2>1, <2>2, <2>3, PassingAreOurs DEF Delivered
<1>5. /\ \A m \in responses' : m \in published /\ m.type = "response" /\ m \in Delivered
                               /\ (httpRequest # Nothing => m.request = Ours)
      /\ \A m \in propagates' : m \in published /\ m.type = "propagate"
  BY <1>1, <1>2, <1>4 DEF TypeOK, PoolsSound, Types
<1>6. /\ CheckSound' /\ Settle /\ allAnswered' \in BOOLEAN /\ done' \in BOOLEAN
      /\ expected' # Nothing => expected' \in {active, Participants}
  <2>1. CASE Restart
    BY <2>1, RestartsSound DEF Restart
  <2>2. CASE CheckCompletion(expected, FALSE)
    <3>1. allAnswered \in BOOLEAN /\ (expected # Nothing => expected \in {active, Participants})
      BY <1>2 DEF TypeOK
    <3>2. QED
      BY <1>1, <1>2, <2>2, <3>1, ChecksSound, CheckTypes DEF world
  <2>3. QED
    BY <1>2, <2>1, <2>2
<1>7. TypeOK'
  <2>1. outcome' \in {"pending", "verified", "timedOut"}
    BY <1>6 DEF Settle
  <2>2. QED
    BY <1>1, <1>2, <1>3, <1>5, <1>6, <2>1 DEF TypeOK, world
<1>8. ResponsesKept'
  <2> SUFFICES ASSUME NEW m \in Delivered, m.type = "response", m.request = Ours
               PROVE  m \in responses' \union missed'
    BY <1>2, <1>7 DEF ResponsesKept, Delivered, world
  <2>1. m \in responses \union missed
    BY DEF ResponsesKept
  <2>2. CASE m \in {latest[type] : type \in DOMAIN latest}
    <3>1. m \in published /\ m \in Message /\ m # Nothing
      BY <1>2, PublishedAreMessages DEF Delivered
    <3>2. m = latest["response"]
      BY <1>2, <2>2, <3>1 DEF LatestSound
    <3>3. Passes(m, httpRequest, impossible')
      <4>1. httpRequest \in {Nothing, Ours} /\ impossible' \intersect Compatible = {}
        BY <1>2, <1>3 DEF TypeOK
      <4>2. QED
        BY <3>1, <4>1, OursPass
    <3>4. QED
      BY <1>1, <3>2, <3>3 DEF Again
  <2>3. QED
    BY <1>1, <1>2, <2>1, <2>2
<1>9. LatestSound'
  BY <1>2 DEF LatestSound, Delivered, world
<1>10. PoolsSound'
  <2>1. requestKnown' => httpRequest' = Ours
    BY <1>2 DEF TypeOK
  <2>2. QED
    BY <1>2, <1>5, <2>1 DEF PoolsSound, Delivered, world
<1>11. QED
  BY <1>6, <1>7, <1>8, <1>9, <1>10, SettlesRight

(* The HTTP answer names the request: what the pools keep is about it.     *)
LEMMA MetadataKeeps == ASSUME ValidationInv, HttpMetadata PROVE ValidationInv'
<1> USE DEF ValidationInv
<1>1. /\ TypeOK /\ LatestSound /\ Restart
      /\ UNCHANGED <<world, coming, lost, addressKnown, impossible, candidate, latest, served,
                     elapsed, missed>>
      /\ responses' = {m \in responses : m.request = Ours}
      /\ propagates' \subseteq propagates
      /\ httpRequest' = Ours /\ requestKnown' \in BOOLEAN
  BY DEF HttpMetadata, ResponsesKept, Kept
<1>2. /\ CheckSound' /\ Settle
      /\ allAnswered' = FALSE /\ done' = FALSE /\ expected' = Nothing
  BY <1>1, RestartsSound DEF Restart
<1>3. TypeOK'
  <2>1. outcome' \in {"pending", "verified", "timedOut"}
    BY <1>2 DEF Settle
  <2>2. QED
    BY <1>1, <1>2, <2>1 DEF TypeOK, world
<1>4. ResponsesKept'
  BY <1>1, <1>3 DEF ResponsesKept, Delivered, world
<1>5. LatestSound'
  BY <1>1 DEF LatestSound, Delivered, world
<1>6. PoolsSound'
  BY <1>1 DEF PoolsSound, Delivered, world
<1>7. QED
  BY <1>2, <1>3, <1>4, <1>5, <1>6, SettlesRight

(* The nodes that should answer are known.                                 *)
LEMMA ExpectKeeps ==
    ASSUME ValidationInv, NEW nodes \in {active, Participants}, Expect(nodes)
    PROVE  ValidationInv'
<1> USE DEF ValidationInv
<1>1. /\ TypeOK /\ LatestSound /\ CheckCompletion(nodes, FALSE)
      /\ UNCHANGED <<world, coming, lost, filterVars, latest, candidate, requestKnown, pools,
                     served, elapsed, missed>>
  BY DEF Expect, ResponsesKept
<1>2. CheckSound'
  BY <1>1, ChecksSound DEF world, pools
<1>3. /\ Settle /\ allAnswered' \in BOOLEAN /\ done' \in BOOLEAN
      /\ expected' # Nothing => expected' \in {active, Participants}
  BY <1>1, CheckTypes DEF TypeOK
<1>4. TypeOK'
  <2>1. outcome' \in {"pending", "verified", "timedOut"}
    BY <1>3 DEF Settle
  <2>2. QED
    BY <1>1, <1>3, <2>1 DEF TypeOK, world, filterVars, pools
<1>5. ResponsesKept'
  BY <1>1, <1>4 DEF ResponsesKept, Delivered, world, pools
<1>6. LatestSound'
  BY <1>1 DEF LatestSound, Delivered, world
<1>7. PoolsSound'
  BY <1>1 DEF PoolsSound, Delivered, world, pools, filterVars
<1>8. QED
  BY <1>2, <1>3, <1>4, <1>5, <1>6, <1>7, SettlesRight

(* The messages have been read, or the timer fires.                        *)
LEMMA EndKeeps ==
    ASSUME ValidationInv, MessagesRead \/ TimerFires
    PROVE  ValidationInv'
<1> USE DEF ValidationInv
<1>1. /\ TypeOK /\ Settle
      /\ UNCHANGED <<world, coming, lost, filterVars, latest, candidate, requestKnown, pools,
                     checkVars, missed>>
      /\ served' = served \/ served' \in SUBSET Id
      /\ elapsed' \in BOOLEAN
  BY DEF MessagesRead, TimerFires, ResponsesKept, TypeOK
<1>2. TypeOK'
  <2>1. outcome' \in {"pending", "verified", "timedOut"}
    BY <1>1 DEF Settle
  <2>2. QED
    BY <1>1, <2>1 DEF TypeOK, world, filterVars, pools, checkVars
<1>3. ResponsesKept'
  BY <1>1, <1>2 DEF ResponsesKept, Delivered, world, pools
<1>4. LatestSound'
  BY <1>1 DEF LatestSound, Delivered, world
<1>5. PoolsSound'
  BY <1>1 DEF PoolsSound, Delivered, world, pools, filterVars
<1>6. CheckSound'
  BY <1>1 DEF CheckSound, ListAnswered, Responders, world, pools, checkVars
<1>7. QED
  BY <1>1, <1>2, <1>3, <1>4, <1>5, <1>6, SettlesRight

-------------------------------------------------------------------------------
LEMMA ValidationStarts == ValidationInit => ValidationInv
<1> SUFFICES ASSUME ValidationInit PROVE ValidationInv
  OBVIOUS
<1>1. Delivered = {}
  BY DEF ValidationInit, Delivered
<1>2. TypeOK
  BY DEF ValidationInit, TypeOK
<1>3. LatestSound
  BY DEF ValidationInit, LatestSound, Types
<1>4. QED
  BY <1>1, <1>2, <1>3
     DEF ValidationInit, ValidationInv, ResponsesKept, PoolsSound, CheckSound, VerifiedIsRight

LEMMA ValidationKept == ASSUME ValidationInv, [ValidationNext]_validationVars PROVE ValidationInv'
<1>1. ASSUME NEW m \in coming, Deliver(m) \/ Lose(m) PROVE ValidationInv'
  BY <1>1, ComesUnheard, HearingKeeps, LoseKeeps DEF Deliver
<1>2. CASE AddressKnown \/ HttpMetadata
  BY <1>2, AddressKeeps, MetadataKeeps
<1>3. CASE ContractAnswers \/ ParticipantsKnown
  BY <1>3, ExpectKeeps DEF ContractAnswers, ParticipantsKnown
<1>4. CASE MessagesRead \/ TimerFires
  BY <1>4, EndKeeps
<1>5. CASE UNCHANGED validationVars
  <2> USE <1>5 DEF validationVars, world, filterVars, pools, checkVars, ValidationInv
  <2>1. ResponsesKept'
    <3>1. TypeOK'
      <4>1. TypeOK
        BY DEF ResponsesKept
      <4>2. /\ UNCHANGED <<stored, active, published, coming, lost, missed, addressKnown, requestKnown>>
            /\ UNCHANGED <<allAnswered, done, elapsed, httpRequest, impossible, latest>>
            /\ UNCHANGED <<candidate, responses, propagates, expected, served, outcome>>
        OBVIOUS
      <4>3. QED
        BY ONLY <4>1, <4>2 DEF TypeOK
    <3>2. Delivered' = Delivered /\ responses' = responses /\ missed' = missed
      BY DEF Delivered
    <3>3. QED
      BY <3>1, <3>2 DEF ResponsesKept
  <2>2. LatestSound'
    BY DEF LatestSound, Delivered
  <2>3. PoolsSound' /\ CheckSound'
    BY DEF PoolsSound, CheckSound, ListAnswered, Responders, Delivered
  <2>4. VerifiedIsRight'
    BY DEF VerifiedIsRight, Answered, Delivered, Agree
  <2>5. QED
    BY <2>1, <2>2, <2>3, <2>4
<1>6. QED
  BY <1>1, <1>2, <1>3, <1>4, <1>5 DEF ValidationNext

LEMMA ValidationSound == ValidationSpec => []ValidationInv
<1>1. ValidationInv /\ [ValidationNext]_validationVars => ValidationInv'
  BY ValidationKept
<1>2. ValidationInit => ValidationInv
  BY ValidationStarts
<1>3. QED
  BY <1>1, <1>2, PTL DEF ValidationSpec

(* A query that the client calls verified is right: all nodes of the       *)
(* contract, or all that the answer names, have answered this request and  *)
(* agree, and what was served is stored by one of them, whatever other     *)
(* requests are under way and in whatever order everything comes.          *)
THEOREM VerificationIsRight == ValidationSpec => []VerifiedIsRight
<1>1. ValidationInv => VerifiedIsRight
  BY DEF ValidationInv
<1>2. QED
  BY <1>1, ValidationSound, PTL

(* Once the address of the query node is known, no response to the client's*)
(* request is lost by the filters.                                         *)
THEOREM ResponsesAlwaysKept == ValidationSpec => []ResponsesKept
<1>1. ValidationInv => ResponsesKept
  BY DEF ValidationInv
<1>2. QED
  BY <1>1, ValidationSound, PTL

-------------------------------------------------------------------------------
(* The lists of stored streams.                                            *)

(* A page.  Row is by its rank: the rows before it.                        *)
Rows == [id : Nat, store : Nat]

Rank(rows, e) == Cardinality({f \in rows : RowBefore(f, e)})

LEMMA RankIsNat ==
    ASSUME NEW rows, IsFiniteSet(rows), NEW e
    PROVE  /\ IsFiniteSet({f \in rows : RowBefore(f, e)})
           /\ Rank(rows, e) \in Nat
<1>1. PICK before : before = {f \in rows : RowBefore(f, e)}
  OBVIOUS
<1>2. before \in SUBSET rows
  BY <1>1
<1>3. IsFiniteSet(before) /\ Cardinality(before) \in Nat
  BY ONLY <1>2, IsFiniteSet(rows), FS_Subset, FS_CardinalityType
<1>4. QED
  BY <1>1, <1>3 DEF Rank

LEMMA RowsInOrder ==
    ASSUME NEW d \in Rows, NEW e \in Rows, NEW f \in Rows
    PROVE  /\ ~RowBefore(e, e)
           /\ RowBefore(d, e) /\ RowBefore(e, f) => RowBefore(d, f)
           /\ d # e => RowBefore(d, e) \/ RowBefore(e, d)
BY DEF Rows, RowBefore

LEMMA RankGrows ==
    ASSUME NEW rows, IsFiniteSet(rows), rows \subseteq Rows, NEW d \in rows, NEW e \in rows,
           RowBefore(d, e)
    PROVE  Rank(rows, d) < Rank(rows, e)
<1>1. PICK fewer, more : /\ fewer = {f \in rows : RowBefore(f, d)}
                         /\ more = {f \in rows : RowBefore(f, e)}
  OBVIOUS
<1>2. d \notin fewer /\ fewer \union {d} \in SUBSET more
  BY <1>1, RowsInOrder
<1>3. /\ IsFiniteSet(fewer) /\ IsFiniteSet(more)
      /\ Cardinality(fewer) \in Nat /\ Cardinality(more) \in Nat
      /\ Cardinality(fewer) = Rank(rows, d) /\ Cardinality(more) = Rank(rows, e)
  BY <1>1, RankIsNat DEF Rank
<1>4. Cardinality(fewer \union {d}) = Cardinality(fewer) + 1
  BY ONLY <1>2, <1>3, FS_AddElement
<1>5. Cardinality(fewer \union {d}) <= Cardinality(more)
  BY ONLY <1>2, <1>3, FS_Subset
<1>6. QED
  BY ONLY <1>3, <1>4, <1>5

(* A page that is not full has all the rows: were one left out, the page   *)
(* would have those before the first such row, which are PageSize at least.*)
LEMMA ShortPageIsAll ==
    ASSUME NEW rows, IsFiniteSet(rows), rows \subseteq Rows, PageSize \in Nat \ {0},
           LastPage(PageOf(rows))
    PROVE  PageOf(rows) = rows
<1>1. PICK page : page = PageOf(rows)
  OBVIOUS
<1>2. /\ page \in SUBSET rows
      /\ \A e \in rows : e \in page <=> Rank(rows, e) < PageSize
  BY <1>1 DEF PageOf, Rank
<1>3. PICK n : n = Cardinality(page)
  OBVIOUS
<1>4. IsFiniteSet(page) /\ n \in Nat /\ n # PageSize
  <2>1. IsFiniteSet(page) /\ n \in Nat
    BY ONLY <1>2, <1>3, IsFiniteSet(rows), FS_Subset, FS_CardinalityType
  <2>2. n # PageSize
    BY <1>1, <1>3 DEF LastPage
  <2>3. QED
    BY <2>1, <2>2
<1>5. \A e \in rows : Rank(rows, e) \in Nat
  BY RankIsNat
<1>6. \A d, e \in rows : d # e => Rank(rows, d) < Rank(rows, e) \/ Rank(rows, e) < Rank(rows, d)
  BY RowsInOrder, RankGrows
<1>7. \A d, e \in rows : Rank(rows, d) < Rank(rows, e) => RowBefore(d, e)
  <2>1. SUFFICES ASSUME NEW d \in rows, NEW e \in rows, Rank(rows, d) < Rank(rows, e),
                        ~RowBefore(d, e)
                 PROVE  FALSE
    OBVIOUS
  <2>2. d # e
    BY <1>5, <2>1
  <2>3. RowBefore(e, d)
    BY <2>1, <2>2, RowsInOrder
  <2>4. Rank(rows, e) < Rank(rows, d)
    BY <2>3, RankGrows
  <2>5. QED
    BY ONLY <1>5, <2>1, <2>4
<1>8. n < PageSize
  <2>1. SUFFICES ASSUME PageSize < n PROVE FALSE
    BY <1>4
  <2>2. PICK gaps : gaps = {PageSize - Rank(rows, e) : e \in page}
    OBVIOUS
  <2>3. gaps \subseteq Nat
    BY <1>2, <1>5, <2>2
  <2>4. page # {}
    BY <1>3, <1>4, <2>1, FS_EmptySet
  <2>5. gaps # {}
    BY <2>2, <2>4
  <2>6. PICK gap \in gaps : \A g \in gaps : gap <= g
    BY ONLY <2>3, <2>5, MinimalNumber
  <2>7. PICK e \in page : gap = PageSize - Rank(rows, e)
    BY <2>2
  <2>8. \A d \in page : Rank(rows, d) <= Rank(rows, e)
    <3>1. SUFFICES ASSUME NEW d \in page PROVE Rank(rows, d) <= Rank(rows, e)
      OBVIOUS
    <3>2. PageSize - Rank(rows, d) \in gaps
      BY <2>2
    <3>3. gap <= PageSize - Rank(rows, d)
      BY <2>6, <3>2
    <3>4. Rank(rows, d) \in Nat /\ Rank(rows, e) \in Nat
      BY <1>2, <1>5
    <3>5. QED
      BY ONLY <2>7, <3>3, <3>4, PageSize \in Nat \ {0}
  <2>9. PICK others : others = page \ {e}
    OBVIOUS
  <2>10. \A d \in others : d \in rows /\ RowBefore(d, e)
    BY <1>2, <1>5, <1>6, <1>7, <2>8, <2>9
  <2>11. PICK before : before = {f \in rows : RowBefore(f, e)}
    OBVIOUS
  <2>12. others \in SUBSET before /\ IsFiniteSet(before) /\ Cardinality(before) = Rank(rows, e)
    BY <2>10, <2>11, RankIsNat DEF Rank
  <2>13. Cardinality(others) = n - 1
    BY ONLY <1>3, <1>4, <2>7, <2>9, FS_RemoveElement
  <2>14. n - 1 <= Rank(rows, e)
    BY ONLY <2>12, <2>13, FS_Subset
  <2>15. Rank(rows, e) < PageSize /\ Rank(rows, e) \in Nat
    BY <1>2, <1>5
  <2>16. QED
    BY ONLY <1>4, <2>1, <2>14, <2>15, PageSize \in Nat \ {0}
<1>9. page = rows
  <2>1. SUFFICES ASSUME page # rows PROVE FALSE
    OBVIOUS
  <2>2. PICK ranks : ranks = {Rank(rows, e) : e \in rows \ page}
    OBVIOUS
  <2>3. ranks \subseteq Nat /\ ranks # {}
    BY <1>2, <1>5, <2>1, <2>2
  <2>4. PICK rank \in ranks : \A r \in ranks : rank <= r
    BY ONLY <2>3, MinimalNumber
  <2>5. PICK e \in rows \ page : rank = Rank(rows, e)
    BY <2>2
  <2>6. PICK before : before = {f \in rows : RowBefore(f, e)}
    OBVIOUS
  <2>7. \A f \in before : f \in page
    <3>1. SUFFICES ASSUME NEW f \in before, f \notin page PROVE FALSE
      OBVIOUS
    <3>2. f \in rows \ page /\ RowBefore(f, e)
      BY <2>6, <3>1
    <3>3. Rank(rows, f) \in ranks
      BY <2>2, <3>2
    <3>4. Rank(rows, f) < Rank(rows, e)
      BY <3>2, <2>5, RankGrows
    <3>5. Rank(rows, f) \in Nat /\ Rank(rows, e) \in Nat
      BY <1>5, <3>2
    <3>6. QED
      BY ONLY <2>4, <2>5, <3>3, <3>4, <3>5
  <2>8. before \in SUBSET page /\ Cardinality(before) = Rank(rows, e)
    BY <2>6, <2>7 DEF Rank
  <2>9. Rank(rows, e) <= n
    BY ONLY <1>3, <1>4, <2>8, FS_Subset
  <2>10. ~(Rank(rows, e) < PageSize) /\ Rank(rows, e) \in Nat
    BY <1>2, <1>5, <2>5
  <2>11. QED
    BY ONLY <1>4, <1>8, <2>9, <2>10, PageSize \in Nat \ {0}
<1>10. QED
  BY <1>1, <1>9

-------------------------------------------------------------------------------
(* The index is behind the chain, what was seen of it is behind the index, *)
(* and nothing is required that is not on the chain.                       *)
Update == [kind : {"store"}, store : Store]

NumbersSound == /\ chain \in Seq(Update) /\ Len(chain) <= MaxBlocks
                /\ indexed \in Nat /\ required \in Nat /\ seenBlock \in Nat
                /\ indexed <= Len(chain) /\ required <= Len(chain) /\ seenBlock <= indexed

(* An answer that is on its way may be late, never early.                  *)
PollType == [pc : {"off", "asking", "got", "resting"}, block : Nat]

PollsSound == /\ polls \in [Poll -> PollType]
              /\ \A p \in Poll : polls[p].pc = "got" => polls[p].block <= indexed

(* A listing whose first page has not come; it starts from all names, and  *)
(* from no block.                                                          *)
Unpaged(l) == l.after = 0 /\ l.got = {} /\ l.block = MaxBlocks /\ l.full = FALSE

IsListing(l) == l \in [pc : {"idle", "gate", "page", "streams", "done", "failed"}, need : Nat,
                       after : Nat, got : SUBSET Nat, block : Nat, full : BOOLEAN,
                       ears : {l.ears}, from : {l.from}]

Whole(l) == /\ l.block <= indexed
            /\ \A i \in 1 .. l.block : IsStore(i) => chain[i].store \in l.got

ListingSound(l) ==
    /\ l.need <= Len(chain)
    /\ l.pc \in {"idle", "gate"} => Unpaged(l)
    /\ l.pc \in {"page", "streams", "done"} => l.need <= indexed /\ l.need <= l.block
    /\ l.pc = "page" => l.full \/ Unpaged(l)
    /\ l.pc \in {"streams", "done"} => l.full \/ Whole(l)

ListingsSound == /\ listings = [q \in Listing |-> listings[q]]
                 /\ \A q \in Listing : IsListing(listings[q]) /\ ListingSound(listings[q])

IndexSound == NumbersSound /\ PollsSound /\ ListingsSound

(* An application that uses the urls lists nothing.                        *)
ViewsSound == /\ uses \in Uses
              /\ IF uses.urls THEN \A q \in Listing : listings[q].pc = "idle" ELSE IndexSound

-------------------------------------------------------------------------------
(* What was true of a listing stays true while chain and index grow.       *)
Grow == /\ indexed' \in Nat /\ indexed <= indexed' /\ Len(chain) <= Len(chain')
        /\ chain' \in Seq(Update) /\ \A i \in 1 .. Len(chain) : chain'[i] = chain[i]

LEMMA ListingStays ==
    ASSUME NumbersSound, Grow, NEW l, IsListing(l), ListingSound(l)
    PROVE  ListingSound(l)'
<1>1. l.need \in Nat /\ l.block \in Nat
  BY DEF IsListing
<1>2. l.need <= Len(chain')
  BY <1>1 DEF NumbersSound, Grow, ListingSound
<1>3. l.pc \in {"page", "streams", "done"} => l.need <= indexed' /\ l.need <= l.block
  BY <1>1 DEF NumbersSound, Grow, ListingSound
<1>4. ASSUME Whole(l) PROVE Whole(l)'
  <2>1. l.block <= indexed' /\ l.block <= Len(chain)
    BY <1>1, <1>4 DEF NumbersSound, Grow, Whole
  <2>2. ASSUME NEW i \in 1 .. l.block, IsStore(i)' PROVE chain'[i].store \in l.got
    <3>1. i \in 1 .. Len(chain)
      BY <1>1, <2>1 DEF NumbersSound
    <3>2. chain'[i] = chain[i] /\ chain[i] \in Update
      BY <3>1 DEF Grow, NumbersSound
    <3>3. IsStore(i)
      BY <3>1, <3>2 DEF IsStore, Update, NumbersSound
    <3>4. QED
      BY <1>4, <3>2, <3>3 DEF Whole
  <2>3. QED
    BY <2>1, <2>2 DEF Whole
<1>5. QED
  BY <1>2, <1>3, <1>4 DEF ListingSound, Unpaged

LEMMA ListingsStay ==
    ASSUME NumbersSound, Grow, ListingsSound, UNCHANGED listings
    PROVE  ListingsSound'
<1>1. \A q \in Listing : ListingSound(listings[q])'
  <2>1. SUFFICES ASSUME NEW q \in Listing PROVE ListingSound(listings[q])'
    OBVIOUS
  <2>2. PICK l : l = listings[q]
    OBVIOUS
  <2>3. ListingSound(l)'
    BY <2>2, ListingStays DEF ListingsSound
  <2>4. QED
    BY <2>2, <2>3
<1>2. QED
  BY <1>1 DEF ListingsSound, IsListing

-------------------------------------------------------------------------------
LEMMA NothingGrows ==
    ASSUME NumbersSound, UNCHANGED <<chain, indexed>>
    PROVE  Grow
BY DEF NumbersSound, Grow

LEMMA StakeKeeps ==
    ASSUME IndexSound, uses \in Uses, StakeStore
    PROVE  IndexSound'
<1>1. PICK s \in uses.stores : AddBlock(StoreUpdate(s))
  BY DEF StakeStore
<1>2. s \in Store
  BY <1>1, UsesAssumption
<1>3. PICK tx \in Update : tx = StoreUpdate(s)
  BY <1>2 DEF Update, StoreUpdate
<1>4. /\ Len(chain) < MaxBlocks /\ chain' = Append(chain, tx)
      /\ UNCHANGED <<indexed, required, seenBlock, polls, listings>>
  BY <1>1, <1>3 DEF AddBlock, StakeStore, indexVars
<1>5. /\ chain \in Seq(Update) /\ MaxBlocks \in Nat
      /\ indexed \in Nat /\ required \in Nat /\ seenBlock \in Nat
      /\ indexed <= Len(chain) /\ required <= Len(chain) /\ seenBlock <= indexed
  BY ChainAssumption DEF IndexSound, NumbersSound
<1>6. /\ chain' \in Seq(Update) /\ Len(chain') = Len(chain) + 1
      /\ \A i \in 1 .. Len(chain) : chain'[i] = chain[i]
  BY <1>3, <1>4, <1>5
<1>7. Len(chain) \in Nat
  BY <1>5
<1>8. NumbersSound' /\ Grow
  BY ONLY <1>4, <1>5, <1>6, <1>7 DEF NumbersSound, Grow
<1>9. ListingsSound'
  BY <1>4, <1>8, ListingsStay DEF IndexSound
<1>10. PollsSound'
  BY <1>4 DEF IndexSound, PollsSound
<1>11. QED
  BY <1>8, <1>9, <1>10 DEF IndexSound

LEMMA IndexBlockKeeps ==
    ASSUME IndexSound, IndexBlock
    PROVE  IndexSound'
<1> USE DEF IndexBlock
<1>1. Len(chain) \in Nat
  BY DEF IndexSound, NumbersSound
<1>2. NumbersSound' /\ Grow
  BY <1>1 DEF IndexSound, NumbersSound, Grow
<1>3. ListingsSound'
  BY <1>2, ListingsStay DEF IndexSound
<1>4. PollsSound'
  BY <1>1 DEF IndexSound, PollsSound, NumbersSound, PollType
<1>5. QED
  BY <1>2, <1>3, <1>4 DEF IndexSound

LEMMA LargerOfTwo ==
    ASSUME NEW m \in Nat, NEW n \in Nat, m > n
    PROVE  Max({m, n}) = m
<1>1. PICK S : S = {m, n}
  OBVIOUS
<1>2. m \in S /\ \A y \in S : m >= y
  BY <1>1
<1>3. \A x \in S : (\A y \in S : x >= y) => x = m
  BY <1>1
<1>4. QED
  BY ONLY <1>1, <1>2, <1>3 DEF Max

LEMMA RequireKeeps ==
    ASSUME IndexSound, UpdateRequiredBlockNumber(Len(chain))
    PROVE  IndexSound'
<1> USE DEF UpdateRequiredBlockNumber
<1>1. Len(chain) \in Nat /\ required \in Nat
  BY DEF IndexSound, NumbersSound
<1>2. required' = Len(chain)
  BY <1>1, LargerOfTwo
<1>3. NumbersSound'
  BY <1>1, <1>2 DEF IndexSound, NumbersSound
<1>4. ListingsSound'
  BY NothingGrows, ListingsStay DEF IndexSound
<1>5. PollsSound'
  BY DEF IndexSound, PollsSound
<1>6. QED
  BY <1>3, <1>4, <1>5 DEF IndexSound

(* The steps of a poll that leave the listings alone.                      *)
LEMMA PollKeeps ==
    ASSUME IndexSound, NEW p \in Poll,
           PollServed(p) \/ PollRested(p) \/ PollFails(p)
    PROVE  IndexSound'
<1>1. UNCHANGED <<chain, indexed, required, seenBlock, listings>>
  BY DEF PollServed, PollRested, PollFails
<1>2. NumbersSound'
  BY <1>1 DEF IndexSound, NumbersSound
<1>3. ListingsSound'
  BY <1>1, NothingGrows, ListingsStay DEF IndexSound
<1>4. PollsSound'
  <2>1. polls \in [Poll -> PollType] /\ indexed \in Nat
        /\ \A d \in Poll : polls[d].pc = "got" => polls[d].block <= indexed
    BY DEF IndexSound, PollsSound, NumbersSound
  <2>2. ASSUME NEW pc \in {"off", "asking"}, polls' = [polls EXCEPT ![p].pc = pc]
        PROVE  PollsSound'
    BY <1>1, <2>1, <2>2 DEF PollsSound, PollType
  <2>3. CASE PollServed(p)
    <3>1. polls' = [polls EXCEPT ![p] = [pc |-> "got", block |-> indexed]]
      BY <2>3 DEF PollServed
    <3>2. QED
      BY <1>1, <2>1, <3>1 DEF PollsSound, PollType
  <2>4. CASE PollRested(p)
    <3>1. PICK pc \in {"off", "asking"} : pc = PollAgain(p)
      BY DEF PollAgain
    <3>2. QED
      BY <2>2, <2>4, <3>1 DEF PollRested
  <2>5. CASE PollFails(p)
    BY <2>2, <2>5 DEF PollFails
  <2>6. QED
    BY <2>3, <2>4, <2>5
       DEF PollServed, PollRested, PollFails
<1>5. QED
  BY <1>2, <1>3, <1>4 DEF IndexSound

-------------------------------------------------------------------------------
(* A step of one listing.                                                  *)
LEMMA OneChanges ==
    ASSUME NumbersSound, ListingsSound, UNCHANGED <<chain, indexed>>, NEW q \in Listing,
           NEW l, IsListing(l), ListingSound(l), listings' = [listings EXCEPT ![q] = l]
    PROVE  ListingsSound'
<1>1. PICK d : d = listings
  OBVIOUS
<1>2. d = [p \in Listing |-> d[p]] /\ \A p \in Listing : IsListing(d[p]) /\ ListingSound(d[p])
  BY <1>1 DEF ListingsSound
<1>3. PICK e : e = listings'
  OBVIOUS
<1>4. e = [p \in Listing |-> IF p = q THEN l ELSE d[p]]
  BY <1>1, <1>2, <1>3
<1>5. \A p \in Listing : IsListing(e[p]) /\ ListingSound(e[p])
  BY <1>2, <1>4
<1>6. \A p \in Listing : ListingSound(e[p])'
  BY <1>5, NothingGrows, ListingStays
<1>7. e = [p \in Listing |-> e[p]]
  BY <1>4
<1>8. \A p \in Listing : IsListing(listings[p])' /\ ListingSound(listings[p])'
  BY <1>3, <1>5, <1>6 DEF IsListing
<1>9. QED
  BY <1>3, <1>7, <1>8 DEF ListingsSound

LEMMA ListingIs ==
    ASSUME IndexSound, NEW q \in Listing
    PROVE  IsListing(listings[q]) /\ ListingSound(listings[q])
BY DEF IndexSound, ListingsSound

LEMMA PcChanges ==
    ASSUME IndexSound, NEW q \in Listing, NEW pc \in {"page", "streams", "done", "failed"},
           listings' = [listings EXCEPT ![q].pc = pc],
           ListingSound([listings[q] EXCEPT !.pc = pc]),
           UNCHANGED <<chain, indexed, required, seenBlock, polls>>
    PROVE  IndexSound'
<1>1. PICK r : r = listings[q]
  OBVIOUS
<1>2. PICK l : l = [r EXCEPT !.pc = pc]
  OBVIOUS
<1>3. IsListing(l) /\ ListingSound(l)
  BY <1>1, <1>2, ListingIs DEF IsListing
<1>4. listings' = [listings EXCEPT ![q] = l]
  BY <1>1, <1>2
<1>5. ListingsSound'
  BY <1>3, <1>4, OneChanges DEF IndexSound
<1>6. NumbersSound' /\ PollsSound'
  BY DEF IndexSound, NumbersSound, PollsSound
<1>7. QED
  BY <1>5, <1>6 DEF IndexSound

LEMMA FailsKeep ==
    ASSUME IndexSound, NEW q \in Listing, GateTimesOut(q) \/ PageFails(q)
    PROVE  IndexSound'
<1>1. PICK r : r = listings[q]
  OBVIOUS
<1>2. IsListing(r) /\ ListingSound(r)
  BY <1>1, ListingIs
<1>3. ListingSound([r EXCEPT !.pc = "failed"])
  BY <1>2 DEF IsListing, ListingSound
<1>4. /\ listings' = [listings EXCEPT ![q].pc = "failed"]
      /\ UNCHANGED <<chain, indexed, required, seenBlock, polls>>
  BY DEF GateTimesOut, PageFails
<1>5. QED
  BY <1>1, <1>3, <1>4, PcChanges

LEMMA StreamsKeep ==
    ASSUME IndexSound, NEW q \in Listing, FetchStreams(q)
    PROVE  IndexSound'
<1>1. PICK r : r = listings[q]
  OBVIOUS
<1>2. IsListing(r) /\ ListingSound(r) /\ r.pc = "streams"
  BY <1>1, ListingIs DEF FetchStreams
<1>3. ListingSound([r EXCEPT !.pc = "done"])
  BY <1>2 DEF IsListing, ListingSound, Whole
<1>4. /\ listings' = [listings EXCEPT ![q].pc = "done"]
      /\ UNCHANGED <<chain, indexed, required, seenBlock, polls>>
  BY DEF FetchStreams
<1>5. QED
  BY <1>1, <1>3, <1>4, PcChanges

LEMMA GetKeeps ==
    ASSUME IndexSound, NEW q \in Listing, NEW ears, NEW from,
           GetStoredStreams(q, ears, from)
    PROVE  IndexSound'
<1> USE DEF GetStoredStreams
<1>1. PICK r : r = listings[q]
  OBVIOUS
<1>2. IsListing(r) /\ ListingSound(r) /\ r.pc = "idle"
  BY <1>1, ListingIs
<1>3. /\ required \in Nat /\ seenBlock \in Nat /\ indexed \in Nat /\ Len(chain) \in Nat
      /\ seenBlock <= indexed /\ required <= Len(chain) /\ Len(chain) <= MaxBlocks
      /\ MaxBlocks \in Nat
  BY ChainAssumption DEF IndexSound, NumbersSound
<1>4. PICK pc \in {"gate", "page"} : /\ pc = IF required > seenBlock THEN "gate" ELSE "page"
  OBVIOUS
<1>5. PICK l : l = [r EXCEPT !.pc = pc, !.need = required, !.ears = ears, !.from = from]
  OBVIOUS
<1>6. /\ l.pc = pc /\ l.need = required /\ l.ears = ears /\ l.from = from
      /\ l.after = r.after /\ l.got = r.got /\ l.block = r.block /\ l.full = r.full
      /\ IsListing(l)
  BY <1>2, <1>3, <1>5 DEF IsListing
<1>7. Unpaged(l) /\ l.block = MaxBlocks
  BY <1>2, <1>6 DEF ListingSound, Unpaged
<1>8. l.pc = "page" => l.need <= indexed /\ l.need <= l.block
  BY <1>3, <1>4, <1>6, <1>7
<1>9. ListingSound(l)
  BY <1>3, <1>4, <1>6, <1>7, <1>8 DEF ListingSound
<1>10. listings' = [listings EXCEPT ![q] = l]
  BY <1>1, <1>4, <1>5
<1>11. ListingsSound'
  BY <1>6, <1>9, <1>10, OneChanges DEF IndexSound
<1>12. NumbersSound'
  BY DEF IndexSound, NumbersSound
<1>13. PollsSound'
  <2>1. PollsSound /\ UNCHANGED indexed
    BY DEF IndexSound
  <2>2. \/ UNCHANGED polls
        \/ \E p \in Poll : polls' = [polls EXCEPT ![p].pc = "asking"]
    OBVIOUS
  <2>3. QED
    BY ONLY <2>1, <2>2 DEF PollsSound, PollType
<1>14. QED
  BY <1>11, <1>12, <1>13 DEF IndexSound

LEMMA AppliedKeeps ==
    ASSUME IndexSound, NEW p \in Poll, PollApplied(p)
    PROVE  IndexSound'
<1> USE DEF PollApplied
<1>1. PICK block : block = polls[p].block
  OBVIOUS
<1>2. PICK opened : opened = Opened(block)
  OBVIOUS
<1>3. /\ polls \in [Poll -> PollType] /\ polls[p].pc = "got"
      /\ \A d \in Poll : polls[d].pc = "got" => polls[d].block <= indexed
      /\ indexed \in Nat
  BY DEF IndexSound, PollsSound, NumbersSound
<1>4. block \in Nat /\ block <= indexed
  BY <1>1, <1>3 DEF PollType
<1>5. PICK d : d = listings
  OBVIOUS
<1>6. d = [q \in Listing |-> d[q]] /\ \A q \in Listing : IsListing(d[q]) /\ ListingSound(d[q])
  BY <1>5 DEF IndexSound, ListingsSound
<1>7. \A q \in opened : q \in Listing /\ d[q].pc = "gate" /\ d[q].need <= block
  BY <1>2, <1>5 DEF Opened, Gates
<1>8. PICK e : e = listings'
  OBVIOUS
<1>9. e = [q \in Listing |-> IF q \in opened THEN [d[q] EXCEPT !.pc = "page"] ELSE d[q]]
  BY <1>1, <1>2, <1>5, <1>8
<1>10. \A q \in Listing : IsListing(e[q]) /\ ListingSound(e[q])
  <2>1. SUFFICES ASSUME NEW q \in Listing, q \in opened PROVE IsListing(e[q]) /\ ListingSound(e[q])
    BY <1>6, <1>9
  <2>2. PICK r : r = d[q]
    OBVIOUS
  <2>3. PICK l : l = [r EXCEPT !.pc = "page"]
    OBVIOUS
  <2>4. e[q] = l
    BY <1>9, <2>1, <2>2, <2>3
  <2>5. IsListing(r) /\ ListingSound(r) /\ r.pc = "gate" /\ r.need <= block
    BY <1>6, <1>7, <2>1, <2>2
  <2>6. IsListing(l) /\ l.pc = "page" /\ l.need = r.need /\ Unpaged(l) /\ l.block = MaxBlocks
    BY <2>3, <2>5 DEF IsListing, ListingSound, Unpaged
  <2>7. Len(chain) \in Nat /\ indexed <= Len(chain) /\ Len(chain) <= MaxBlocks /\ r.need \in Nat
    BY <2>5 DEF IndexSound, NumbersSound, IsListing
  <2>8. r.need <= Len(chain) /\ r.need <= indexed
    BY <1>3, <1>4, <2>5, <2>7 DEF ListingSound
  <2>9. l.need <= MaxBlocks
    <3>1. MaxBlocks \in Nat
      BY ChainAssumption
    <3>2. QED
      BY <2>6, <2>7, <2>8, <3>1
  <2>10. ListingSound(l)
    BY <2>6, <2>8, <2>9 DEF ListingSound
  <2>11. QED
    BY <2>4, <2>6, <2>10
<1>11. \A q \in Listing : ListingSound(e[q])'
  BY <1>10, NothingGrows, ListingStays DEF IndexSound
<1>12. \A q \in Listing : IsListing(listings[q])' /\ ListingSound(listings[q])'
  BY <1>8, <1>10, <1>11 DEF IsListing
<1>13. ListingsSound'
  BY <1>8, <1>9, <1>12 DEF ListingsSound
<1>14. NumbersSound'
  BY <1>1, <1>4 DEF IndexSound, NumbersSound
<1>15. PollsSound'
  <2>1. PICK pc \in {"off", "resting"} : polls' = [polls EXCEPT ![p] = [pc |-> pc, block |-> 0]]
    OBVIOUS
  <2>2. indexed' = indexed
    OBVIOUS
  <2>3. QED
    BY ONLY <1>3, <2>1, <2>2 DEF PollsSound, PollType
<1>16. QED
  BY <1>13, <1>14, <1>15 DEF IndexSound

-------------------------------------------------------------------------------
LEMMA EntitiesAreRows ==
    ASSUME NumbersSound
    PROVE  /\ Entities \subseteq Rows /\ IsFiniteSet(Entities)
           /\ \A e \in Entities : e.store > 0
<1>1. PICK rows : rows = Entities
  OBVIOUS
<1>2. chain \in Seq(Update) /\ indexed \in Nat /\ indexed <= Len(chain) /\ Store \subseteq Nat \ {0}
  BY ChainAssumption DEF NumbersSound
<1>3. \A i \in 1 .. indexed : chain[i].store \in Nat \ {0}
  <2>1. \A i \in 1 .. indexed : chain[i] \in Update
    BY <1>2
  <2>2. QED
    BY <1>2, <2>1 DEF Update
<1>4. \A e \in rows : e.id \in 1 .. indexed /\ e = [id |-> e.id, store |-> chain[e.id].store]
  BY <1>1 DEF Entities
<1>5. rows \subseteq Rows /\ \A e \in rows : e.store > 0
  BY <1>2, <1>3, <1>4 DEF Rows
<1>6. PICK f : f = [e \in rows |-> e.id]
  OBVIOUS
<1>7. f \in Injection(rows, 1 .. indexed)
  BY <1>4, <1>6 DEF Injection, IsInjective
<1>8. IsFiniteSet(1 .. indexed)
  BY <1>2, FS_Interval
<1>9. IsFiniteSet(rows)
  BY ONLY <1>7, <1>8, FS_Injection
<1>10. QED
  BY <1>1, <1>5, <1>9

LEMMA PageKeeps ==
    ASSUME IndexSound, NEW q \in Listing, FetchPage(q)
    PROVE  IndexSound'
<1> USE DEF FetchPage
<1>1. PICK r : r = listings[q]
  OBVIOUS
<1>2. IsListing(r) /\ ListingSound(r) /\ r.pc = "page"
  BY <1>1, ListingIs
<1>3. PICK rows : rows = {e \in Entities : e.store > r.after}
  OBVIOUS
<1>4. PICK page : page = PageOf(rows)
  OBVIOUS
<1>5. PICK stores : stores = {e.store : e \in page}
  OBVIOUS
<1>6. PICK last \in BOOLEAN : last <=> LastPage(page)
  OBVIOUS
<1>7. PICK l : l = [r EXCEPT !.pc = IF last THEN "streams" ELSE "page",
                             !.after = Undefined,
                             !.got = r.got \union stores,
                             !.block = IF indexed < r.block THEN indexed ELSE r.block,
                             !.full = r.full \/ Cardinality(page) = PageSize]
  OBVIOUS
<1>8. NumbersSound /\ PageSize \in Nat \ {0} /\ Undefined \in Nat /\ indexed \in Nat
  BY IndexAssumption DEF IndexSound, NumbersSound
<1>9. /\ Entities \subseteq Rows /\ IsFiniteSet(Entities)
      /\ \A e \in Entities : e.store > 0
  BY <1>8, EntitiesAreRows
<1>10. rows \in SUBSET Entities
  BY <1>3
<1>11. IsFiniteSet(rows) /\ rows \subseteq Rows
  BY ONLY <1>9, <1>10, FS_Subset
<1>12. stores \subseteq Nat
  BY <1>4, <1>5, <1>11 DEF PageOf, Rows
<1>13. /\ l.pc = (IF last THEN "streams" ELSE "page") /\ l.need = r.need
       /\ l.got = r.got \union stores
       /\ l.block = (IF indexed < r.block THEN indexed ELSE r.block)
       /\ l.full = (r.full \/ Cardinality(page) = PageSize)
       /\ IsListing(l)
  <2>1. r.got \subseteq Nat /\ r.block \in Nat /\ r.full \in BOOLEAN
    BY <1>2 DEF IsListing
  <2>2. PICK pc \in {"page", "streams"} : pc = IF last THEN "streams" ELSE "page"
    OBVIOUS
  <2>3. PICK got \in SUBSET Nat : got = r.got \union stores
    BY ONLY <1>12, <2>1
  <2>4. PICK block \in Nat : block = IF indexed < r.block THEN indexed ELSE r.block
    BY ONLY <1>8, <2>1
  <2>5. PICK full \in BOOLEAN : full = (r.full \/ Cardinality(page) = PageSize)
    BY ONLY <2>1
  <2>6. PICK after \in Nat : after = Undefined
    BY ONLY <1>8
  <2>7. l = [r EXCEPT !.pc = pc, !.after = after, !.got = got, !.block = block, !.full = full]
    BY <1>7, <2>2, <2>3, <2>4, <2>5, <2>6
  <2>8. /\ l.pc = pc /\ l.need = r.need /\ l.got = got /\ l.block = block /\ l.full = full
        /\ IsListing(l)
    <3>1. PICK nobody, start : nobody = r.ears /\ start = r.from
      OBVIOUS
    <3>2. PICK R : R = [pc : {"idle", "gate", "page", "streams", "done", "failed"}, need : Nat,
                        after : Nat, got : SUBSET Nat, block : Nat, full : BOOLEAN,
                        ears : {nobody}, from : {start}]
      OBVIOUS
    <3>3. r \in R
      BY ONLY <1>2, <3>1, <3>2 DEF IsListing
    <3>4. /\ l.pc = pc /\ l.need = r.need /\ l.got = got /\ l.block = block /\ l.full = full
          /\ l.ears = nobody /\ l.from = start
      BY ONLY <2>7, <3>1, <3>2, <3>3
    <3>5. l \in R
      BY ONLY <2>2, <2>3, <2>4, <2>5, <2>6, <2>7, <3>2, <3>3
    <3>6. QED
      BY ONLY <3>2, <3>4, <3>5 DEF IsListing
  <2>9. QED
    BY ONLY <2>2, <2>3, <2>4, <2>5, <2>8
<1>14. l.block <= indexed /\ l.need <= l.block /\ l.need <= indexed /\ l.need <= Len(chain)
  <2>1. r.need \in Nat /\ r.block \in Nat
    BY <1>2 DEF IsListing
  <2>2. r.need <= indexed /\ r.need <= r.block /\ r.need <= Len(chain)
    BY <1>2 DEF ListingSound
  <2>3. l.need = r.need /\ l.block = (IF indexed < r.block THEN indexed ELSE r.block)
    BY <1>13
  <2>4. QED
    BY ONLY <1>8, <2>1, <2>2, <2>3
<1>15. ~last => l.full
  BY <1>6, <1>13 DEF LastPage
<1>16. ASSUME last, ~l.full PROVE Whole(l)
  <2>1. Unpaged(r)
    BY <1>2, <1>13, <1>16 DEF ListingSound
  <2>2. rows = Entities
    BY <1>3, <1>9, <2>1 DEF Unpaged
  <2>3. page = rows
    BY <1>4, <1>6, <1>8, <1>11, <1>16, ShortPageIsAll
  <2>4. ASSUME NEW i \in 1 .. l.block, IsStore(i) PROVE chain[i].store \in l.got
    <3>1. i \in 1 .. indexed
      <4>1. l.block \in Nat
        BY <1>13 DEF IsListing
      <4>2. QED
        BY ONLY <1>8, <1>14, <4>1, i \in 1 .. l.block
    <3>2. PICK e : e = [id |-> i, store |-> chain[i].store]
      OBVIOUS
    <3>3. e \in page /\ e.store = chain[i].store
      BY <2>2, <2>3, <2>4, <3>1, <3>2 DEF Entities
    <3>4. QED
      BY <1>5, <1>13, <3>3
  <2>5. QED
    BY <1>14, <2>4 DEF Whole
<1>17. ListingSound(l)
  BY <1>13, <1>14, <1>15, <1>16 DEF ListingSound
<1>18. listings' = [listings EXCEPT ![q] = l]
  BY <1>1, <1>3, <1>4, <1>5, <1>6, <1>7
<1>19. ListingsSound'
  BY <1>13, <1>17, <1>18, OneChanges DEF IndexSound
<1>20. NumbersSound' /\ PollsSound'
  BY DEF IndexSound, NumbersSound, PollsSound
<1>21. QED
  BY <1>19, <1>20 DEF IndexSound

-------------------------------------------------------------------------------
LEMMA ViewsStart == ASSUME ViewsInit PROVE ViewsSound
<1> USE DEF ViewsInit, IndexInit
<1>1. uses \in Uses /\ MaxBlocks \in Nat
  BY ChainAssumption
<1>2. ASSUME NEW q \in Listing PROVE listings[q] = Unlisted
  OBVIOUS
<1>3. CASE uses.urls
  BY <1>1, <1>2, <1>3 DEF ViewsSound, Unlisted
<1>4. CASE ~uses.urls
  <2>1. chain = <<>>
    BY <1>4
  <2>2. NumbersSound
    <3>1. PICK empty \in Seq(Update) : empty = <<>>
      BY ONLY EmptySeq
    <3>2. Len(empty) = 0
      BY <3>1
    <3>3. chain = empty /\ indexed = 0 /\ required = 0 /\ seenBlock = 0
      BY <2>1, <3>1
    <3>4. QED
      BY ONLY <1>1, <3>2, <3>3, empty \in Seq(Update) DEF NumbersSound
  <2>3. PollsSound
    BY DEF PollsSound, PollType
  <2>4. PICK l : l = Unlisted
    OBVIOUS
  <2>5. IsListing(l) /\ l.pc = "idle" /\ l.need = 0 /\ Unpaged(l)
    BY <1>1, <2>4 DEF Unlisted, IsListing, Unpaged
  <2>6. ListingSound(l)
    BY <2>1, <2>5 DEF ListingSound
  <2>7. ListingsSound
    BY <1>2, <2>4, <2>5, <2>6 DEF ListingsSound
  <2>8. QED
    BY <1>1, <1>4, <2>2, <2>3, <2>7 DEF ViewsSound, IndexSound
<1>5. QED
  BY <1>3, <1>4

LEMMA IndexStays ==
    ASSUME IndexSound, UNCHANGED <<chain, indexed, required, seenBlock, polls, listings>>
    PROVE  IndexSound'
<1>1. ListingsSound'
  BY NothingGrows, ListingsStay DEF IndexSound
<1>2. NumbersSound' /\ PollsSound'
  BY DEF IndexSound, NumbersSound, PollsSound
<1>3. QED
  BY <1>1, <1>2 DEF IndexSound

LEMMA IndexStepKeeps ==
    ASSUME IndexSound, uses \in Uses, IndexStep
    PROVE  IndexSound'
<1>1. CASE IndexBlock \/ UpdateRequiredBlockNumber(Len(chain))
  BY <1>1, IndexBlockKeeps, RequireKeeps
<1>2. ASSUME NEW p \in Poll,
             \/ PollServed(p) \/ PollApplied(p)
             \/ PollRested(p) \/ PollFails(p)
      PROVE  IndexSound'
  BY <1>2, PollKeeps, AppliedKeeps
<1>3. ASSUME NEW q \in uses.listings,
             \/ GetStoredStreams(q, Heeding, producer.next)
             \/ GateTimesOut(q) \/ PageFails(q)
             \/ FetchPage(q) \/ FetchStreams(q)
      PROVE  IndexSound'
  <2>1. q \in Listing
    BY <1>3, UsesAssumption
  <2>2. QED
    BY <1>3, <2>1, GetKeeps, FailsKeep, PageKeeps, StreamsKeep
<1>4. QED
  BY <1>1, <1>2, <1>3 DEF IndexStep

LEMMA ViewsStep == ASSUME ViewsSound, [ViewsNext]_viewsVars PROVE ViewsSound'
<1>1. uses \in Uses
  BY DEF ViewsSound
<1>2. CASE UNCHANGED viewsVars
  <2>1. UNCHANGED <<uses, chain, indexed, required, seenBlock, polls, listings>>
    BY <1>2 DEF viewsVars, indexVars
  <2>2. QED
    BY <2>1, IndexStays DEF ViewsSound
<1>3. CASE ViewsNext /\ uses.urls
  <2>1. SetMetadata \/ UrlStep
    BY <1>3 DEF ViewsNext
  <2>2. UNCHANGED <<uses, listings>>
    BY <2>1 DEF SetMetadata, UrlStep, indexVars
  <2>3. QED
    BY <1>3, <2>2 DEF ViewsSound
<1>4. CASE ViewsNext /\ ~uses.urls
  <2>1. IndexSound
    BY <1>4 DEF ViewsSound
  <2>2. StakeStore \/ EventStep \/ IndexStep
    BY <1>4 DEF ViewsNext
  <2>3. UNCHANGED uses
    BY <2>2 DEF StakeStore, EventStep, IndexStep
  <2>4. ASSUME EventStep PROVE IndexSound'
    <3>1. UNCHANGED <<chain, indexed, required, seenBlock, polls, listings>>
      BY <2>4 DEF EventStep, indexVars, Register, Off,
                  RemoveAllListeners, Attach, PollEvent
    <3>2. QED
      BY <2>1, <3>1, IndexStays
  <2>5. IndexSound'
    BY <1>1, <2>1, <2>2, <2>4, StakeKeeps, IndexStepKeeps
  <2>6. QED
    BY <1>1, <1>4, <2>3, <2>5 DEF ViewsSound
<1>5. QED
  BY <1>2, <1>3, <1>4

LEMMA ListsFollow == ViewsSound => ListUpToDate
<1> SUFFICES ASSUME ViewsSound, NEW q \in Listing
             PROVE  LET listing == listings[q] IN
                    /\ listing.pc \in {"page", "streams", "done"} => indexed >= listing.need
                    /\ listing.pc = "done" =>
                         /\ listing.block >= listing.need
                         /\ \/ listing.full
                            \/ \A i \in 1 .. listing.block :
                                 IsStore(i) => chain[i].store \in listing.got
  BY DEF ListUpToDate
<1>1. CASE uses.urls
  BY <1>1 DEF ViewsSound
<1>2. CASE ~uses.urls
  <2>1. PICK l : l = listings[q]
    OBVIOUS
  <2>2. IsListing(l) /\ ListingSound(l) /\ indexed \in Nat
    BY <1>2, <2>1 DEF ViewsSound, IndexSound, ListingsSound, NumbersSound
  <2>3. l.need \in Nat /\ l.block \in Nat
    BY <2>2 DEF IsListing
  <2>4. QED
    BY <2>1, <2>2, <2>3 DEF ListingSound, Whole
<1>3. QED
  BY <1>1, <1>2

(* A list of stored streams is as new as what the client was told to       *)
(* require, and whole up to its block, with any number of polls and        *)
(* listings, answers that come late, and pages of any size.                *)
THEOREM ListsAlwaysUpToDate == ViewsSpec => []ListUpToDate
<1>1. ViewsInit => ViewsSound
  BY ViewsStart
<1>2. ViewsSound /\ [ViewsNext]_viewsVars => ViewsSound'
  BY ViewsStep
<1>3. ViewsSound => ListUpToDate
  BY ListsFollow
<1>4. QED
  BY <1>1, <1>2, <1>3, PTL DEF ViewsSpec

-------------------------------------------------------------------------------
(* The answer to a query.                                                  *)

(* What is stored, and what is asked of it: by increasing references.      *)
StoredMessage == [ref : Int, publisherId : STRING]

InOrder(s) == \A i, j \in 1 .. Len(s) : i < j => s[i].ref < s[j].ref

(* The loop of Selected.                                                   *)
Selecting(h, s, set) ==
    h = [i \in 0 .. Len(s) |-> IF i = 0 THEN <<>>
                               ELSE IF s[i] \in set THEN Append(h[i - 1], s[i]) ELSE h[i - 1]]

LEMMA SelectingSteps ==
    ASSUME NEW s, NEW set, NEW n \in Nat, n = Len(s), NEW h, Selecting(h, s, set)
    PROVE  /\ h[0] = <<>>
           /\ \A i \in 1 .. n : h[i] = IF s[i] \in set THEN Append(h[i - 1], s[i]) ELSE h[i - 1]
<1>1. h = [i \in 0 .. n |-> IF i = 0 THEN <<>>
                            ELSE IF s[i] \in set THEN Append(h[i - 1], s[i]) ELSE h[i - 1]]
  BY DEF Selecting
<1>2. h[0] = <<>>
  <2>1. 0 \in 0 .. n
    OBVIOUS
  <2>2. QED
    BY <1>1, <2>1
<1>3. ASSUME NEW i \in 1 .. n
      PROVE  h[i] = IF s[i] \in set THEN Append(h[i - 1], s[i]) ELSE h[i - 1]
  <2>1. i \in 0 .. n /\ i # 0
    OBVIOUS
  <2>2. QED
    BY <1>1, <2>1, Zenon
<1>4. QED
  BY <1>2, <1>3

LEMMA SelectingExists ==
    ASSUME NEW E, NEW s \in Seq(E), NEW set
    PROVE  \E h \in [0 .. Len(s) -> Seq(E)] : Selecting(h, s, set)
<1>1. PICK n \in Nat : n = Len(s)
  OBVIOUS
<1>2. PICK D : D = Seq(E)
  OBVIOUS
<1>3. PICK step : step = [p \in (1 .. n) \X D |-> IF s[p[1]] \in set THEN Append(p[2], s[p[1]]) ELSE p[2]]
  OBVIOUS
<1>4. step \in [(1 .. n) \X D -> D]
  <2>1. ASSUME NEW i \in 1 .. n, NEW d \in D
        PROVE  (IF s[i] \in set THEN Append(d, s[i]) ELSE d) \in D
    BY <1>1, <1>2, <2>1
  <2>2. QED
    BY <1>3, <2>1
<1>5. PICK base : base = <<>>
  OBVIOUS
<1>6. base \in D
  BY <1>2, <1>5
<1>7. PICK g \in [0 .. n -> D] : Turning(g, n, base, step)
  BY <1>4, <1>6, Recursion
<1>8. g[0] = <<>>
  BY <1>5, <1>7 DEF Turning
<1>9. ASSUME NEW i \in 1 .. n
      PROVE  g[i] = IF s[i] \in set THEN Append(g[i - 1], s[i]) ELSE g[i - 1]
  <2>1. i \in 0 .. n /\ i # 0 /\ i - 1 \in 0 .. n
    OBVIOUS
  <2>2. g[i] = step[<<i, g[i - 1]>>]
    BY <1>7, <2>1 DEF Turning
  <2>3. g[i - 1] \in D
    BY <1>7, <2>1
  <2>4. QED
    BY <1>3, <2>2, <2>3
<1>10. g = [i \in 0 .. n |-> IF i = 0 THEN <<>>
                             ELSE IF s[i] \in set THEN Append(g[i - 1], s[i]) ELSE g[i - 1]]
  <2>1. PICK f : f = [i \in 0 .. n |-> IF i = 0 THEN <<>>
                             ELSE IF s[i] \in set THEN Append(g[i - 1], s[i]) ELSE g[i - 1]]
    OBVIOUS
  <2>2. ASSUME NEW i \in 0 .. n PROVE f[i] = g[i]
    <3>1. CASE i = 0
      BY <1>8, <2>1, <3>1
    <3>2. CASE i # 0
      <4>1. i \in 1 .. n
        BY <3>2
      <4>2. f[i] = IF s[i] \in set THEN Append(g[i - 1], s[i]) ELSE g[i - 1]
        BY <2>1, <3>2, Zenon
      <4>3. QED
        BY <1>9, <4>1, <4>2, Zenon
    <3>3. QED
      BY <3>1, <3>2
  <2>3. f = g
    <3>1. f = [i \in 0 .. n |-> f[i]]
      BY <2>1
    <3>2. g = [i \in 0 .. n |-> g[i]]
      BY <1>7
    <3>3. QED
      BY ONLY <2>2, <3>1, <3>2
  <2>4. QED
    BY <2>1, <2>3
<1>11. QED
  BY <1>1, <1>2, <1>7, <1>10 DEF Selecting

LEMMA SelectedLoops ==
    ASSUME NEW E, NEW s \in Seq(E), NEW set
    PROVE  \E h \in [0 .. Len(s) -> Seq(E)] : Selecting(h, s, set) /\ Selected(s, set) = h[Len(s)]
<1>1. PICK n \in Nat : n = Len(s)
  OBVIOUS
<1>2. PICK h : h = CHOOSE g : Selecting(g, s, set)
  OBVIOUS
<1>3. Selecting(h, s, set)
  BY <1>2, SelectingExists
<1>4. Selected(s, set) = h[n]
  BY <1>1, <1>2 DEF Selected, Selecting
<1>5. PICK D : D = Seq(E)
  OBVIOUS
<1>6. /\ h[0] = <<>>
      /\ \A i \in 1 .. n : h[i] = IF s[i] \in set THEN Append(h[i - 1], s[i]) ELSE h[i - 1]
  BY ONLY n \in Nat, <1>1, <1>3, SelectingSteps
<1>7. h[0] \in D
  BY <1>5, <1>6
<1>8. ASSUME NEW i \in 1 .. n, h[i - 1] \in D PROVE h[i] \in D
  <2>1. h[i] = IF s[i] \in set THEN Append(h[i - 1], s[i]) ELSE h[i - 1]
    BY <1>6
  <2>2. s[i] \in E
    BY <1>1
  <2>3. QED
    BY <1>5, <1>8, <2>1, <2>2
<1>9. \A i \in 0 .. n : h[i] \in D
  BY ONLY n \in Nat, <1>7, <1>8, Stays
<1>10. h \in [0 .. n -> D]
  <2>1. h = [i \in 0 .. n |-> IF i = 0 THEN <<>>
                              ELSE IF s[i] \in set THEN Append(h[i - 1], s[i]) ELSE h[i - 1]]
    BY <1>1, <1>3 DEF Selecting
  <2>2. PICK f : f = [i \in 0 .. n |-> IF i = 0 THEN <<>>
                              ELSE IF s[i] \in set THEN Append(h[i - 1], s[i]) ELSE h[i - 1]]
    OBVIOUS
  <2>3. h = f
    BY ONLY <2>1, <2>2, Zenon
  <2>4. \A i \in 0 .. n : f[i] \in D
    BY ONLY <1>9, <2>3
  <2>5. f \in [0 .. n -> D]
    BY ONLY <2>2, <2>4
  <2>6. QED
    BY ONLY <2>3, <2>5
<1>11. QED
  BY <1>1, <1>3, <1>4, <1>5, <1>10

LEMMA SelectedNone == ASSUME NEW set PROVE Selected(<<>>, set) = <<>>
<1>1. PICK s : s = <<>>
  OBVIOUS
<1>2. s \in Seq({}) /\ Len(s) = 0
  BY <1>1
<1>3. PICK h \in [0 .. Len(s) -> Seq({})] : Selecting(h, s, set) /\ Selected(s, set) = h[Len(s)]
  BY <1>2, SelectedLoops
<1>4. h[0] = <<>>
  BY <1>2, <1>3 DEF Selecting
<1>5. QED
  BY <1>1, <1>2, <1>3, <1>4

(* What is selected is in order, and was there.                            *)
LEMMA SelectedInOrder ==
    ASSUME NEW s \in Seq(StoredMessage), InOrder(s), NEW set
    PROVE  /\ Selected(s, set) \in Seq(StoredMessage)
           /\ InOrder(Selected(s, set))
<1>1. PICK n \in Nat : n = Len(s)
  OBVIOUS
<1>2. PICK h \in [0 .. n -> Seq(StoredMessage)] :
         Selecting(h, s, set) /\ Selected(s, set) = h[n]
  BY <1>1, SelectedLoops
<1> DEFINE Good == {i \in 0 .. n : /\ InOrder(h[i])
                                   /\ \A k \in 1 .. Len(h[i]) : \E j \in 1 .. i : h[i][k] = s[j]}
<1>3. 0 \in Good
  <2>1. 0 \in 0 .. n
    OBVIOUS
  <2>2. h[0] = <<>>
    BY <1>1, <1>2, <2>1 DEF Selecting
  <2>3. QED
    BY <2>2 DEF InOrder
<1>4. ASSUME NEW i \in 1 .. n, i - 1 \in Good PROVE i \in Good
  <2>1. PICK old \in Seq(StoredMessage) : old = h[i - 1]
    BY <1>2
  <2>2. PICK new \in Seq(StoredMessage) : new = h[i]
    BY <1>2
  <2>3. InOrder(old) /\ \A k \in 1 .. Len(old) : \E j \in 1 .. i - 1 : old[k] = s[j]
    BY <1>4, <2>1
  <2>4. new = IF s[i] \in set THEN Append(old, s[i]) ELSE old
    BY <1>1, <1>2, <2>1, <2>2, SelectingSteps
  <2>5. s[i] \in StoredMessage
    BY <1>1
  <2>6. CASE s[i] \in set
    <3>1. PICK m \in Nat : m = Len(old)
      OBVIOUS
    <3>2. /\ Len(new) = m + 1 /\ new[m + 1] = s[i]
          /\ \A k \in 1 .. m : new[k] = old[k]
      BY <2>4, <2>5, <2>6, <3>1
    <3>3. \A k \in 1 .. m : old[k].ref < s[i].ref
      <4>1. TAKE k \in 1 .. m
      <4>2. PICK j \in 1 .. i - 1 : old[k] = s[j]
        BY <2>3, <3>1
      <4>3. j \in 1 .. Len(s) /\ i \in 1 .. Len(s) /\ j < i
        BY ONLY <1>1, n \in Nat, i \in 1 .. n, j \in 1 .. i - 1
      <4>4. s[j].ref < s[i].ref
        BY ONLY <4>3, InOrder(s) DEF InOrder
      <4>5. QED
        BY <4>2, <4>4
    <3>4. ASSUME NEW k \in 1 .. Len(new), NEW l \in 1 .. Len(new), k < l
          PROVE  new[k].ref < new[l].ref
      <4>1. k \in 1 .. m /\ l \in 1 .. m + 1
        BY ONLY <3>2, <3>4, m \in Nat, k \in 1 .. Len(new), l \in 1 .. Len(new)
      <4>2. CASE l = m + 1
        BY <3>2, <3>3, <4>1, <4>2
      <4>3. CASE l # m + 1
        <5>1. l \in 1 .. m
          BY ONLY <4>1, <4>3, m \in Nat
        <5>2. old[k].ref < old[l].ref
          BY ONLY <2>3, <3>1, <3>4, <4>1, <5>1 DEF InOrder
        <5>3. QED
          BY <3>2, <4>1, <5>1, <5>2
      <4>4. QED
        BY <4>2, <4>3
    <3>5. ASSUME NEW k \in 1 .. Len(new) PROVE \E j \in 1 .. i : new[k] = s[j]
      <4>1. CASE k = m + 1
        BY <3>2, <4>1
      <4>2. CASE k # m + 1
        <5>1. k \in 1 .. m
          BY ONLY <3>2, <4>2, m \in Nat, k \in 1 .. Len(new)
        <5>2. PICK j \in 1 .. i - 1 : old[k] = s[j]
          BY <2>3, <3>1, <5>1
        <5>3. j \in 1 .. i
          OBVIOUS
        <5>4. QED
          BY <3>2, <5>1, <5>2, <5>3
      <4>3. QED
        BY <4>1, <4>2
    <3>6. QED
      BY <2>2, <3>4, <3>5 DEF InOrder
  <2>7. CASE s[i] \notin set
    <3>1. new = old
      BY <2>4, <2>7
    <3>2. ASSUME NEW k \in 1 .. Len(old) PROVE \E j \in 1 .. i : old[k] = s[j]
      BY <2>3
    <3>3. h[i] = old
      BY <2>2, <3>1
    <3>4. InOrder(h[i]) /\ \A k \in 1 .. Len(h[i]) : \E j \in 1 .. i : h[i][k] = s[j]
      BY ONLY <2>3, <3>2, <3>3
    <3>5. QED
      BY <3>4
  <2>8. QED
    BY <2>6, <2>7
<1>5. \A i \in 0 .. n : i \in Good
  BY ONLY n \in Nat, <1>3, <1>4, Climb
<1>6. QED
  BY <1>2, <1>5

LEMMA LastInOrder ==
    ASSUME NEW k \in Int
    PROVE  LET last == SubSeq(Stored, Max({0, Len(Stored) - k}) + 1, Len(Stored))
           IN  last \in Seq(StoredMessage) /\ InOrder(last)
<1>1. PICK s \in Seq(StoredMessage) : s = Stored
  BY StoredAssumption DEF StoredMessage
<1>2. PICK n \in Nat : n = Len(s)
  OBVIOUS
<1>3. PICK low : low = Max({0, n - k})
  OBVIOUS
<1>4. low \in Nat
  <2>1. \E x \in {0, n - k} : \A y \in {0, n - k} : x >= y
    <3>1. CASE n - k >= 0
      BY <3>1
    <3>2. CASE ~(n - k >= 0)
      BY <3>2
    <3>3. QED
      BY <3>1, <3>2
  <2>2. low \in {0, n - k} /\ low >= 0
    BY <1>3, <2>1 DEF Max
  <2>3. QED
    BY <2>2
<1>5. PICK last : last = SubSeq(s, low + 1, n)
  OBVIOUS
<1>6. /\ last \in Seq(StoredMessage) /\ Len(last) = IF low + 1 <= n THEN n - low ELSE 0
      /\ \A i \in 1 .. Len(last) : last[i] = s[low + i]
  BY <1>2, <1>4, <1>5
<1>7. \A i, j \in 1 .. n : i < j => s[i].ref < s[j].ref
  BY <1>1, <1>2, StoredAssumption
<1>8. ASSUME NEW i \in 1 .. Len(last), NEW j \in 1 .. Len(last), i < j
      PROVE  last[i].ref < last[j].ref
  <2>1. low + i \in 1 .. n /\ low + j \in 1 .. n /\ low + i < low + j
    BY ONLY <1>4, <1>6, <1>8, n \in Nat, i \in 1 .. Len(last), j \in 1 .. Len(last)
  <2>2. QED
    BY <1>6, <1>7, <2>1
<1>9. InOrder(last)
  BY ONLY <1>8 DEF InOrder
<1>10. last = SubSeq(Stored, Max({0, Len(Stored) - k}) + 1, Len(Stored))
  BY ONLY <1>1, <1>2, <1>3, <1>5
<1>11. QED
  BY <1>6, <1>9, <1>10

InputType == [last : Int \union {Absent, None}, from : Int \union {Absent, None},
              to : Int \union {Absent, None}, publisherId : STRING \union {Absent, None}]

LEMMA AskedInOrder ==
    ASSUME input \in Inputs
    PROVE  Asked \in Seq(StoredMessage) /\ InOrder(Asked)
<1>1. input \in InputType
  BY InputsAssumption DEF InputType
<1>2. CASE Given(input.last)
  <2>1. input.last \in Int
    BY <1>1, <1>2 DEF InputType, Given
  <2>2. QED
    BY <1>2, <2>1, LastInOrder DEF Asked
<1>3. CASE ~Given(input.last)
  <2>1. PICK set : set = {m \in Range(Stored) :
                             /\ m.ref >= input.from
                             /\ Given(input.to) => m.ref <= input.to
                             /\ Given(input.publisherId) => m.publisherId = input.publisherId}
    OBVIOUS
  <2>2. Asked = Selected(Stored, set)
    BY <1>3, <2>1 DEF Asked
  <2>3. Stored \in Seq(StoredMessage) /\ InOrder(Stored)
    <3>1. DOMAIN Stored = 1 .. Len(Stored)
      BY StoredAssumption
    <3>2. QED
      BY <3>1, StoredAssumption DEF StoredMessage, InOrder
  <2>4. QED
    BY <2>2, <2>3, SelectedInOrder
<1>4. QED
  BY <1>2, <1>3

(* The node is asked for what the input asks for.                          *)
LEMMA ServedIsAsked ==
    ASSUME Sent
    PROVE  Served(RequestOf(input)) = Asked
<1> DEFINE request == RequestOf(input)
<1>1. CASE Given(input.last)
  <2>1. request = [type |-> "last", params |-> Params(input, {"last"})]
    BY <1>1 DEF Sent, RequestOf, NoRequest
  <2>2. request.params["last"] = input.last
    BY <1>1, <2>1 DEF Params
  <2>3. PICK r, k : r = request /\ k = input.last
    OBVIOUS
  <2>4. r.type = "last" /\ r.params["last"] = k
    BY <2>1, <2>2, <2>3
  <2>5. Served(r) = SubSeq(Stored, Max({0, Len(Stored) - k}) + 1, Len(Stored))
    BY ONLY <2>4 DEF Served
  <2>6. Asked = SubSeq(Stored, Max({0, Len(Stored) - k}) + 1, Len(Stored))
    BY ONLY <1>1, <2>3 DEF Asked
  <2>7. QED
    BY <2>3, <2>5, <2>6
<1>2. CASE ~Given(input.last)
  <2>1. PICK names : /\ names \in {{"from", "to", "publisherId"}, {"from", "publisherId"}}
                     /\ request = [type |-> IF "to" \in names THEN "range" ELSE "from",
                                   params |-> Params(input, names)]
                     /\ Given(input.from) /\ ("to" \in names <=> Given(input.to))
    <3>1. CASE Given(input.from) /\ Given(input.to)
      <4>1. request = [type |-> "range", params |-> Params(input, {"from", "to", "publisherId"})]
        BY <1>2, <3>1 DEF Sent, RequestOf, NoRequest, Given
      <4>2. QED
        BY <3>1, <4>1
    <3>2. CASE ~(Given(input.from) /\ Given(input.to))
      <4>1. Given(input.from) /\ input.to = Absent /\ input.publisherId # None
        BY <1>2, <3>2 DEF Sent, RequestOf, NoRequest
      <4>2. request = [type |-> "from", params |-> Params(input, {"from", "publisherId"})]
        BY <1>2, <3>2, <4>1 DEF RequestOf
      <4>3. QED
        BY <3>2, <4>1, <4>2
    <3>3. QED
      BY <3>1, <3>2
  <2>2. PICK params : params = [f \in {f \in names : Given(input[f])} |-> input[f]]
    OBVIOUS
  <2>3. request.params = params /\ request.type # "last"
    BY <2>1, <2>2 DEF Params
  <2>4. /\ "from" \in DOMAIN params /\ params["from"] = input.from
        /\ "to" \in DOMAIN params <=> Given(input.to)
        /\ "publisherId" \in DOMAIN params <=> Given(input.publisherId)
        /\ \A f \in DOMAIN params : params[f] = input[f]
    BY <2>1, <2>2
  <2>5. Matching(params) = {m \in Range(Stored) :
                             /\ m.ref >= input.from
                             /\ Given(input.to) => m.ref <= input.to
                             /\ Given(input.publisherId) => m.publisherId = input.publisherId}
    BY <2>4 DEF Matching
  <2>6. QED
    BY <1>2, <2>3, <2>5 DEF Served, Asked
<1>3. QED
  BY <1>1, <1>2

(* The lines of an answer.                                                 *)
MessageLine == [kind : {"message"}, message : StoredMessage]
AnyLine == MessageLine \union {Junk, Metadata}

AnswerOf(q) ==
    /\ q \in Seq(StoredMessage) /\ InOrder(q)
    /\ answer \in Seq(AnyLine) /\ Len(answer) \in {Len(q) + 1, Len(q) + 2}
    /\ \A i \in 1 .. Len(q) : answer[i] = Line(q[i])
    /\ answer[Len(q) + 1] = IF Len(answer) = Len(q) + 1 THEN Metadata ELSE Junk
    /\ Len(answer) = Len(q) + 2 => answer[Len(q) + 2] = Metadata

LEMMA AnswerHasAll ==
    ASSUME input \in Inputs, answer \in Answers(input), Sent
    PROVE  AnswerOf(Asked)
<1>1. PICK q \in Seq(StoredMessage) : q = Asked /\ InOrder(q)
  BY AskedInOrder
<1>2. PICK n \in Nat : n = Len(q)
  OBVIOUS
<1>3. PICK messages : messages = [i \in DOMAIN q |-> Line(q[i])]
  OBVIOUS
<1>4. RequestOf(input).type \notin {"empty", "invalid"}
  BY DEF Sent
<1>5. answer \in {messages \o <<Metadata>>, messages \o <<Junk, Metadata>>}
  BY <1>1, <1>3, <1>4, ServedIsAsked DEF Answers
<1>6. messages \in Seq(AnyLine) /\ Len(messages) = n /\ \A i \in 1 .. n : messages[i] = Line(q[i])
  <2>1. DOMAIN q = 1 .. n
    BY <1>2
  <2>2. ASSUME NEW i \in 1 .. n PROVE Line(q[i]) \in AnyLine
    BY <1>2 DEF Line, AnyLine, MessageLine
  <2>3. QED
    BY <1>3, <2>1, <2>2
<1>7. Junk \in AnyLine /\ Metadata \in AnyLine
  BY DEF AnyLine
<1>8. CASE answer = messages \o <<Metadata>>
  <2>1. PICK end : end = <<Metadata>>
    OBVIOUS
  <2>2. end \in Seq(AnyLine) /\ Len(end) = 1 /\ end[1] = Metadata
    BY <1>7, <2>1
  <2>3. answer = messages \o end
    BY <1>8, <2>1
  <2>4. /\ answer \in Seq(AnyLine) /\ Len(answer) = n + 1
        /\ \A i \in 1 .. n + 1 : answer[i] = IF i <= n THEN messages[i] ELSE end[i - n]
    <3>1. messages \in Seq(AnyLine) /\ Len(messages) = n
      BY <1>6
    <3>2. /\ messages \o end \in Seq(AnyLine)
          /\ Len(messages \o end) = Len(messages) + Len(end)
          /\ \A i \in 1 .. Len(messages) + Len(end) :
                (messages \o end)[i] = IF i <= Len(messages) THEN messages[i] ELSE end[i - Len(messages)]
      BY ONLY <2>2, <3>1, ConcatProperties
    <3>3. QED
      BY ONLY <2>2, <2>3, <3>1, <3>2
  <2>5. /\ \A i \in 1 .. n : answer[i] = messages[i]
        /\ answer[n + 1] = Metadata
    BY ONLY <1>6, <2>2, <2>4, n \in Nat
  <2>6. QED
    BY <1>1, <1>2, <1>6, <2>4, <2>5 DEF AnswerOf
<1>9. CASE answer = messages \o <<Junk, Metadata>>
  <2>1. PICK end : end = <<Junk, Metadata>>
    OBVIOUS
  <2>2. end \in Seq(AnyLine) /\ Len(end) = 2 /\ end[1] = Junk /\ end[2] = Metadata
    BY <1>7, <2>1
  <2>3. answer = messages \o end
    BY <1>9, <2>1
  <2>4. /\ answer \in Seq(AnyLine) /\ Len(answer) = n + 2
        /\ \A i \in 1 .. n + 2 : answer[i] = IF i <= n THEN messages[i] ELSE end[i - n]
    <3>1. messages \in Seq(AnyLine) /\ Len(messages) = n
      BY <1>6
    <3>2. /\ messages \o end \in Seq(AnyLine)
          /\ Len(messages \o end) = Len(messages) + Len(end)
          /\ \A i \in 1 .. Len(messages) + Len(end) :
                (messages \o end)[i] = IF i <= Len(messages) THEN messages[i] ELSE end[i - Len(messages)]
      BY ONLY <2>2, <3>1, ConcatProperties
    <3>3. QED
      BY ONLY <2>2, <2>3, <3>1, <3>2
  <2>5. /\ \A i \in 1 .. n : answer[i] = messages[i]
        /\ answer[n + 1] = Junk /\ answer[n + 2] = Metadata
    BY ONLY <1>6, <2>2, <2>4, n \in Nat
  <2>6. QED
    BY <1>1, <1>2, <1>6, <2>4, <2>5 DEF AnswerOf
<1>10. QED
  BY <1>5, <1>8, <1>9

-------------------------------------------------------------------------------
(* Sequences that grow at the end and are taken from the front.            *)
LEMMA Appended ==
    ASSUME NEW E, NEW s \in Seq(E), NEW e \in E
    PROVE  /\ Append(s, e) \in Seq(E) /\ Len(Append(s, e)) = Len(s) + 1
           /\ Append(s, e)[Len(s) + 1] = e
           /\ \A i \in 1 .. Len(s) : Append(s, e)[i] = s[i]
BY AppendProperties

LEMMA FirstTaken ==
    ASSUME NEW E, NEW s \in Seq(E), s # <<>>
    PROVE  /\ Len(s) \in Nat /\ Len(s) >= 1 /\ Head(s) = s[1] /\ Head(s) \in E
           /\ Tail(s) \in Seq(E) /\ Len(Tail(s)) = Len(s) - 1
           /\ \A i \in 1 .. Len(s) - 1 : Tail(s)[i] = s[i + 1]
BY EmptySeq, HeadTailProperties

(* Messages on their way: in order, and among those asked for from one     *)
(* place to another.                                                       *)
Within(s, q, low, high) ==
    InOrder(s) /\ \A i \in 1 .. Len(s) : \E k \in low + 1 .. high : s[i] = q[k]

LEMMA WithinNone == ASSUME NEW q, NEW low, NEW high PROVE Within(<<>>, q, low, high)
BY DEF Within, InOrder

LEMMA WithinWider ==
    ASSUME NEW s, NEW q, NEW a \in Nat, NEW b \in Nat, NEW c \in Nat, NEW d \in Nat,
           c <= a, b <= d, Within(s, q, a, b)
    PROVE  Within(s, q, c, d)
<1>1. ASSUME NEW i \in 1 .. Len(s) PROVE \E k \in c + 1 .. d : s[i] = q[k]
  <2>1. PICK k \in a + 1 .. b : s[i] = q[k]
    BY DEF Within
  <2>2. k \in c + 1 .. d
    OBVIOUS
  <2>3. QED
    BY <2>1, <2>2
<1>2. QED
  BY <1>1 DEF Within

(* The next message is behind them all.                                    *)
LEMMA WithinAppend ==
    ASSUME NEW q \in Seq(StoredMessage), InOrder(q), NEW s \in Seq(StoredMessage),
           NEW a \in Nat, NEW b \in Nat, a <= b, NEW c \in 1 .. Len(q), b < c,
           Within(s, q, a, b)
    PROVE  Append(s, q[c]) \in Seq(StoredMessage) /\ Within(Append(s, q[c]), q, a, c)
<1>1. PICK m \in Nat : m = Len(s)
  OBVIOUS
<1>2. PICK e \in StoredMessage : e = q[c]
  OBVIOUS
<1>3. PICK t : t = Append(s, e)
  OBVIOUS
<1>4. /\ t \in Seq(StoredMessage) /\ Len(t) = m + 1 /\ t[m + 1] = e
      /\ \A i \in 1 .. m : t[i] = s[i]
  BY <1>1, <1>3
<1>5. ASSUME NEW i \in 1 .. m PROVE (\E k \in a + 1 .. c : s[i] = q[k]) /\ s[i].ref < e.ref
  <2>1. PICK k \in a + 1 .. b : s[i] = q[k]
    BY <1>1 DEF Within
  <2>2. k \in a + 1 .. c /\ k \in 1 .. Len(q) /\ k < c
    OBVIOUS
  <2>3. q[k].ref < q[c].ref
    BY ONLY <2>2, InOrder(q), c \in 1 .. Len(q) DEF InOrder
  <2>4. QED
    BY <1>2, <2>1, <2>2, <2>3
<1>6. ASSUME NEW i \in 1 .. Len(t) PROVE \E k \in a + 1 .. c : t[i] = q[k]
  <2>1. CASE i = m + 1
    <3>1. c \in a + 1 .. c
      OBVIOUS
    <3>2. QED
      BY <1>2, <1>4, <2>1, <3>1
  <2>2. CASE i # m + 1
    <3>1. i \in 1 .. m
      BY ONLY <1>4, <2>2, m \in Nat, i \in 1 .. Len(t)
    <3>2. QED
      BY <1>4, <1>5, <3>1
  <2>3. QED
    BY <2>1, <2>2
<1>7. ASSUME NEW i \in 1 .. Len(t), NEW j \in 1 .. Len(t), i < j PROVE t[i].ref < t[j].ref
  <2>1. i \in 1 .. m
    BY ONLY <1>4, <1>7, m \in Nat, i \in 1 .. Len(t), j \in 1 .. Len(t)
  <2>2. CASE j = m + 1
    BY <1>4, <1>5, <2>1, <2>2
  <2>3. CASE j # m + 1
    <3>1. j \in 1 .. m
      BY ONLY <1>4, <2>3, m \in Nat, j \in 1 .. Len(t)
    <3>2. s[i].ref < s[j].ref
      BY ONLY <1>1, <1>7, <2>1, <3>1, Within(s, q, a, b) DEF Within, InOrder
    <3>3. QED
      BY <1>4, <2>1, <3>1, <3>2
  <2>4. QED
    BY <2>2, <2>3
<1>8. Within(t, q, a, c)
  BY ONLY <1>6, <1>7 DEF Within, InOrder
<1>9. QED
  BY <1>2, <1>3, <1>4, <1>8

(* The first of them, and those behind it.                                 *)
LEMMA WithinTail ==
    ASSUME NEW q \in Seq(StoredMessage), InOrder(q), NEW s \in Seq(StoredMessage), s # <<>>,
           NEW a \in Nat, NEW b \in Nat, b <= Len(q), Within(s, q, a, b)
    PROVE  /\ Tail(s) \in Seq(StoredMessage)
           /\ \E c \in 1 .. b : a < c /\ Head(s) = q[c] /\ Within(Tail(s), q, c, b)
<1>1. PICK m \in Nat : m = Len(s)
  OBVIOUS
<1>2. m >= 1 /\ Head(s) = s[1]
  BY <1>1, FirstTaken
<1>3. PICK t \in Seq(StoredMessage) : t = Tail(s)
  BY FirstTaken
<1>4. Len(t) = m - 1 /\ \A i \in 1 .. m - 1 : t[i] = s[i + 1]
  BY <1>1, <1>3, FirstTaken
<1>5. PICK c \in a + 1 .. b : s[1] = q[c]
  <2>1. 1 \in 1 .. Len(s)
    BY <1>1, <1>2
  <2>2. QED
    BY <2>1 DEF Within
<1>6. ASSUME NEW i \in 1 .. Len(t) PROVE \E k \in c + 1 .. b : t[i] = q[k]
  <2>1. i + 1 \in 1 .. Len(s) /\ i + 1 > 1 /\ 1 \in 1 .. Len(s) /\ i \in 1 .. m - 1
    BY ONLY <1>1, <1>2, <1>4, m \in Nat, i \in 1 .. Len(t)
  <2>2. PICK k \in a + 1 .. b : s[i + 1] = q[k]
    BY <2>1 DEF Within
  <2>3. s[1].ref < s[i + 1].ref
    BY ONLY <2>1, Within(s, q, a, b) DEF Within, InOrder
  <2>4. k > c
    <3>1. SUFFICES ASSUME k <= c PROVE FALSE
      OBVIOUS
    <3>2. k \in 1 .. Len(q) /\ c \in 1 .. Len(q) /\ q[k] \in StoredMessage /\ q[c] \in StoredMessage
      OBVIOUS
    <3>3. k = c \/ q[k].ref < q[c].ref
      BY ONLY <3>1, <3>2, InOrder(q) DEF InOrder
    <3>4. q[c].ref < q[k].ref /\ q[c].ref \in Int /\ q[k].ref \in Int
      BY <1>5, <2>2, <2>3, <3>2 DEF StoredMessage
    <3>5. QED
      BY ONLY <3>3, <3>4
  <2>5. k \in c + 1 .. b
    BY <2>4
  <2>6. QED
    BY <1>4, <2>1, <2>2, <2>5
<1>7. ASSUME NEW i \in 1 .. Len(t), NEW j \in 1 .. Len(t), i < j PROVE t[i].ref < t[j].ref
  <2>1. i + 1 \in 1 .. Len(s) /\ j + 1 \in 1 .. Len(s) /\ i + 1 < j + 1 /\ i \in 1 .. m - 1 /\ j \in 1 .. m - 1
    BY ONLY <1>1, <1>2, <1>4, <1>7, m \in Nat, i \in 1 .. Len(t), j \in 1 .. Len(t)
  <2>2. s[i + 1].ref < s[j + 1].ref
    BY ONLY <2>1, Within(s, q, a, b) DEF Within, InOrder
  <2>3. QED
    BY <1>4, <2>1, <2>2
<1>8. Within(t, q, c, b)
  BY ONLY <1>6, <1>7 DEF Within, InOrder
<1>9. c \in 1 .. b /\ a < c
  OBVIOUS
<1>10. QED
  BY <1>2, <1>3, <1>5, <1>8, <1>9

-------------------------------------------------------------------------------
(* The variables.                                                          *)
ShareOf(E) == [loop : Nat, emitted : Seq(E), complete : BOOLEAN]
GateOf(W) == [locked : BOOLEAN, pending : BOOLEAN, waiting : SUBSET W]
LinesType == [pos : Nat, asks : Seq(Nat), finished : BOOLEAN]
PullType == [pc : {"none", "idle", "taking", "pushing", "done"}, values : Seq(StoredMessage),
             end : {"no", "complete", "error", "invalid"}]
MetaType == [state : {"off", "on", "complete", "error", "left", "served"}, got : BOOLEAN]
ReaderType == [state : {"off", "reading", "complete", "error", "left"}, got : Seq(StoredMessage)]
GenState == {"asked", "left", "ended"}

LineTypes == /\ lines \in LinesType /\ lineShare \in ShareOf(AnyLine) /\ lineLoops \in Nat
             /\ subscribed \subseteq {"pull", "meta"} /\ meta \in MetaType
             /\ pulling \in PullType

BufferTypes == /\ buffer \in Seq(StoredMessage) /\ error \in {None, "error", "invalid"}
               /\ writeGate \in GateOf({"pull"}) /\ readGate \in GateOf(Nat)

ReadTypes == /\ gens \in Seq(GenState) /\ msgShare \in ShareOf(StoredMessage)
             /\ readers \in [Reader -> ReaderType]

StreamTypes == LineTypes /\ BufferTypes /\ ReadTypes

LEMMA GatesMove ==
    ASSUME NEW W, NEW g \in GateOf(W), NEW p \in W
    PROVE  /\ Open(g) \in GateOf(W) /\ Open(g).locked = g.locked
           /\ Close(g) \in GateOf(W) /\ Close(g).locked = g.locked
           /\ Check(g, p) \in GateOf(W) /\ Check(g, p).locked = g.locked
           /\ Lock(g) \in GateOf(W) /\ Lock(g).locked
<1>1. Open(g) \in GateOf(W) /\ Open(g).locked = g.locked
  BY DEF GateOf, Open
<1>2. Close(g) \in GateOf(W) /\ Close(g).locked = g.locked
  BY DEF GateOf, Close
<1>3. Check(g, p) \in GateOf(W) /\ Check(g, p).locked = g.locked
  BY DEF GateOf, Check
<1>4. Lock(g) \in GateOf(W) /\ Lock(g).locked
  BY DEF GateOf, Lock
<1>5. QED
  BY <1>1, <1>2, <1>3, <1>4

(* What the steps of the buffer do.                                        *)
LEMMA PushMoves ==
    ASSUME BufferTypes, NEW m \in StoredMessage, Push(m, "pull")
    PROVE  /\ BufferTypes' /\ buffer' = Append(buffer, m) /\ error' = error
           /\ ~writeGate.locked /\ ~writeGate'.locked /\ ~readGate.locked /\ ~readGate'.locked
<1>1. buffer' \in Seq(StoredMessage) /\ buffer' = Append(buffer, m)
  BY Appended DEF BufferTypes, Push
<1>2. PICK w : w = SetOpenState(writeGate, NotFull(buffer'))
  OBVIOUS
<1>3. w = Open(writeGate) \/ w = Close(writeGate)
  BY <1>2 DEF SetOpenState
<1>4. "pull" \in {"pull"} /\ writeGate \in GateOf({"pull"})
  BY DEF BufferTypes
<1>5. w \in GateOf({"pull"}) /\ w.locked = writeGate.locked
  BY ONLY <1>3, <1>4, GatesMove
<1>6. /\ writeGate' = Check(w, "pull") /\ readGate' = Open(readGate)
      /\ error' = error /\ IsWritable
  BY <1>2 DEF Push
<1>7. writeGate' \in GateOf({"pull"}) /\ writeGate'.locked = writeGate.locked
  BY ONLY <1>4, <1>6, <1>5, GatesMove
<1>8. readGate' \in GateOf(Nat) /\ readGate'.locked = readGate.locked
  <2>1. readGate \in GateOf(Nat) /\ 0 \in Nat
    BY DEF BufferTypes
  <2>2. QED
    BY <1>6, <2>1, GatesMove
<1>9. QED
  BY <1>1, <1>6, <1>7, <1>8 DEF BufferTypes, IsWritable

LEMMA EndWriteMoves ==
    ASSUME BufferTypes, NEW err \in {None, "error", "invalid"}, EndWrite(err)
    PROVE  /\ BufferTypes' /\ buffer' = buffer /\ error' = (IF error = None THEN err ELSE error)
           /\ writeGate'.locked /\ readGate'.locked = readGate.locked
<1>1. writeGate \in GateOf({"pull"}) /\ readGate \in GateOf(Nat) /\ 0 \in Nat
  BY DEF BufferTypes
<1>2. readGate' = Open(readGate) /\ writeGate' = Lock(writeGate) /\ buffer' = buffer
      /\ error' = (IF error = None THEN err ELSE error)
  BY DEF EndWrite
<1>3. readGate' \in GateOf(Nat) /\ readGate'.locked = readGate.locked
  BY <1>1, <1>2, GatesMove
<1>4. writeGate' \in GateOf({"pull"}) /\ writeGate'.locked
  BY <1>1, <1>2, GatesMove
<1>5. QED
  BY <1>2, <1>3, <1>4 DEF BufferTypes

LEMMA ShiftMoves ==
    ASSUME BufferTypes, Shift
    PROVE  /\ BufferTypes' /\ buffer # <<>> /\ buffer' = Tail(buffer) /\ error' = error
           /\ Head(buffer) \in StoredMessage
           /\ writeGate'.locked = writeGate.locked /\ readGate' = readGate
<1>1. /\ buffer # <<>> /\ buffer' = Tail(buffer) /\ error' = error /\ readGate' = readGate
      /\ writeGate' = SetOpenState(writeGate, NotFull(buffer'))
  BY DEF Shift, HasItem
<1>2. buffer' \in Seq(StoredMessage) /\ Head(buffer) \in StoredMessage
  BY <1>1, FirstTaken DEF BufferTypes
<1>3. writeGate' = Open(writeGate) \/ writeGate' = Close(writeGate)
  BY <1>1 DEF SetOpenState
<1>4. "pull" \in {"pull"} /\ writeGate \in GateOf({"pull"})
  BY DEF BufferTypes
<1>5. writeGate' \in GateOf({"pull"}) /\ writeGate'.locked = writeGate.locked
  BY ONLY <1>3, <1>4, GatesMove
<1>6. QED
  BY <1>1, <1>2, <1>5 DEF BufferTypes

LEMMA AwaitMoves ==
    ASSUME BufferTypes, NEW g \in Nat, AwaitItem(g)
    PROVE  /\ BufferTypes' /\ buffer' = buffer /\ error' = error
           /\ writeGate' = writeGate /\ readGate'.locked = readGate.locked
<1>1. PICK c : c = Close(readGate)
  OBVIOUS
<1>2. /\ buffer' = buffer /\ error' = error /\ writeGate' = writeGate /\ readGate' = Check(c, g)
  BY <1>1 DEF AwaitItem
<1>3. readGate \in GateOf(Nat)
  BY DEF BufferTypes
<1>4. c \in GateOf(Nat) /\ c.locked = readGate.locked
  BY <1>1, <1>3, GatesMove
<1>5. readGate' \in GateOf(Nat) /\ readGate'.locked = c.locked
  BY <1>2, <1>3, <1>4, GatesMove
<1>6. QED
  BY <1>2, <1>4, <1>5 DEF BufferTypes

LEMMA EndMoves ==
    ASSUME BufferTypes, Finish \/ Abandon
    PROVE  BufferTypes' /\ buffer' = <<>>
<1>1. writeGate \in GateOf({"pull"}) /\ readGate \in GateOf(Nat) /\ 0 \in Nat
  BY DEF BufferTypes
<1>2. /\ readGate' = Lock(readGate) /\ writeGate' = Lock(writeGate) /\ buffer' = <<>>
      /\ error' \in {None, error}
  BY DEF Finish, Abandon
<1>3. readGate' \in GateOf(Nat)
  BY <1>1, <1>2, GatesMove
<1>4. writeGate' \in GateOf({"pull"})
  BY <1>1, <1>2, GatesMove
<1>5. buffer' \in Seq(StoredMessage)
  BY <1>2, EmptySeq
<1>6. QED
  BY <1>2, <1>3, <1>4, <1>5 DEF BufferTypes

(* What the steps on the lines do.                                         *)
LEMMA ConnectedMoves ==
    ASSUME LineTypes, NEW s \in {"pull", "meta"}, Connected(s)
    PROVE  /\ lines' \in LinesType /\ lineShare' \in ShareOf(AnyLine) /\ lineLoops' \in Nat
           /\ subscribed' \subseteq {"pull", "meta"}
           /\ lines'.pos = lines.pos /\ lines'.finished = lines.finished
           /\ lineShare.loop # 0 => /\ lineShare' = lineShare /\ lines'.asks = lines.asks
                                    /\ subscribed' = IF lineShare.complete THEN subscribed
                                                     ELSE subscribed \union {s}
           /\ lineShare.loop = 0 => /\ \E loop \in Nat : loop # 0 /\ lineShare' = NewShare(loop)
                                                         /\ lines'.asks = Append(lines.asks, loop)
                                    /\ subscribed' = subscribed \union {s}
<1>1. CASE lineShare.loop # 0
  BY <1>1 DEF Connected, LineTypes
<1>2. CASE lineShare.loop = 0
  <2>1. PICK loop \in Nat : loop = lineLoops + 1 /\ loop # 0
    BY DEF LineTypes
  <2>2. /\ lineLoops' = loop /\ lineShare' = NewShare(loop)
        /\ lines' = [lines EXCEPT !.asks = Append(@, loop)]
        /\ subscribed' = subscribed \union {s}
    BY <1>2, <2>1 DEF Connected
  <2>3. <<>> \in Seq(AnyLine)
    BY EmptySeq
  <2>4. lineShare' \in ShareOf(AnyLine)
    BY <2>2, <2>3 DEF NewShare, ShareOf
  <2>5. lines \in LinesType
    BY DEF LineTypes
  <2>6. Append(lines.asks, loop) \in Seq(Nat)
    BY <2>5, Appended DEF LinesType
  <2>7. /\ lines' \in LinesType /\ lines'.asks = Append(lines.asks, loop)
        /\ lines'.pos = lines.pos /\ lines'.finished = lines.finished
    BY ONLY <2>2, <2>5, <2>6 DEF LinesType
  <2>8. QED
    BY <1>2, <2>1, <2>2, <2>4, <2>7 DEF LineTypes
<1>3. QED
  BY <1>1, <1>2

LEMMA ShareMoves ==
    ASSUME LineTypes, NEW s
    PROVE  ShareWithout(s) \in ShareOf(AnyLine)
<1>1. <<>> \in Seq(AnyLine)
  BY EmptySeq
<1>2. QED
  BY <1>1 DEF LineTypes, ShareWithout, NoShare, ShareOf

(* One line is sent to those who are subscribed.                           *)
LEMMA EmitMoves ==
    ASSUME LineTypes, NEW line \in AnyLine, Emit(line)
    PROVE  /\ lineShare' \in ShareOf(AnyLine) /\ subscribed' \subseteq {"pull", "meta"}
           /\ meta' \in MetaType /\ pulling' \in PullType
           /\ pulling'.pc = pulling.pc
           /\ pulling'.end = IF "pull" \in subscribed /\ line = Junk THEN "invalid" ELSE pulling.end
           /\ pulling'.values = IF "pull" \in subscribed /\ IsMessage(line)
                                THEN Append(pulling.values, line.message) ELSE pulling.values
           /\ meta'.state = IF "meta" \in subscribed /\ line = Junk THEN "error" ELSE meta.state
           /\ line # Junk => meta'.got = (meta.got \/ ("meta" \in subscribed /\ line = Metadata))
           /\ subscribed' = IF line = Junk THEN {} ELSE subscribed
           /\ line = Junk => lineShare' = NoShare
           /\ line # Junk => /\ lineShare'.loop = lineShare.loop
                             /\ lineShare'.complete = lineShare.complete
                             /\ lineShare'.emitted = Append(lineShare.emitted, line)
<1>1. /\ lineShare \in ShareOf(AnyLine) /\ meta \in MetaType /\ pulling \in PullType
      /\ subscribed \subseteq {"pull", "meta"}
  BY DEF LineTypes
<1>2. IsMessage(line) => line \in MessageLine /\ line # Junk /\ line.message \in StoredMessage
  BY DEF IsMessage, AnyLine, MessageLine, Junk, Metadata
<1>3. CASE line = Junk
  <2>1. lineShare' = NoShare /\ subscribed' = {}
    BY <1>3 DEF Emit
  <2>2. <<>> \in Seq(AnyLine)
    BY EmptySeq
  <2>3. lineShare' \in ShareOf(AnyLine)
    BY <2>1, <2>2 DEF NoShare, ShareOf
  <2>4. ~IsMessage(line)
    BY <1>2, <1>3
  <2>5. /\ pulling' = IF "pull" \in subscribed THEN [pulling EXCEPT !.end = "invalid"] ELSE pulling
        /\ meta' = IF "meta" \in subscribed THEN [meta EXCEPT !.state = "error"] ELSE meta
    <3>1. /\ "pull" \in subscribed => pulling' = [pulling EXCEPT !.end = "invalid"]
          /\ "pull" \notin subscribed => pulling' = pulling
      BY <1>3, <2>4 DEF Emit
    <3>2. /\ "meta" \in subscribed => meta' = [meta EXCEPT !.state = "error"]
          /\ "meta" \notin subscribed => meta' = meta
      BY <1>3 DEF Emit
    <3>3. QED
      BY ONLY <3>1, <3>2
  <2>6. pulling' \in PullType /\ meta' \in MetaType
    BY <1>1, <2>5 DEF PullType, MetaType
  <2>7. /\ pulling'.pc = pulling.pc /\ pulling'.values = pulling.values
        /\ pulling'.end = IF "pull" \in subscribed THEN "invalid" ELSE pulling.end
    BY <1>1, <2>5 DEF PullType
  <2>8. meta'.state = IF "meta" \in subscribed THEN "error" ELSE meta.state
    BY <1>1, <2>5 DEF MetaType
  <2>9. QED
    BY <1>3, <2>1, <2>3, <2>4, <2>6, <2>7, <2>8
<1>4. CASE line # Junk
  <2>1. PICK e \in Seq(AnyLine) : e = Append(lineShare.emitted, line)
    BY <1>1, Appended DEF ShareOf
  <2>2. lineShare' = [lineShare EXCEPT !.emitted = e] /\ subscribed' = subscribed
    BY <1>4, <2>1 DEF Emit
  <2>3. /\ lineShare' \in ShareOf(AnyLine) /\ lineShare'.emitted = e
        /\ lineShare'.loop = lineShare.loop /\ lineShare'.complete = lineShare.complete
    BY ONLY <1>1, <2>1, <2>2 DEF ShareOf
  <2>4. /\ meta' = IF "meta" \in subscribed THEN [meta EXCEPT !.got = @ \/ line = Metadata] ELSE meta
    BY <1>4 DEF Emit
  <2>5. PICK got \in BOOLEAN : got = (meta.got \/ line = Metadata)
    BY <1>1 DEF MetaType
  <2>6. meta' = IF "meta" \in subscribed THEN [meta EXCEPT !.got = got] ELSE meta
    BY <1>1, <2>4, <2>5 DEF MetaType
  <2>7. /\ meta' \in MetaType /\ meta'.state = meta.state
        /\ meta'.got = IF "meta" \in subscribed THEN got ELSE meta.got
    BY ONLY <1>1, <2>5, <2>6 DEF MetaType
  <2>8. meta'.got = (meta.got \/ ("meta" \in subscribed /\ line = Metadata))
    BY ONLY <1>1, <2>5, <2>7 DEF MetaType
  <2>9. CASE "pull" \in subscribed /\ IsMessage(line)
    <3>1. PICK v \in Seq(StoredMessage) : v = Append(pulling.values, line.message)
      BY <1>1, <1>2, <2>9, Appended DEF PullType
    <3>2. pulling' = [pulling EXCEPT !.values = v]
      BY <1>4, <2>9, <3>1 DEF Emit
    <3>3. /\ pulling' \in PullType /\ pulling'.values = v
          /\ pulling'.pc = pulling.pc /\ pulling'.end = pulling.end
      BY ONLY <1>1, <3>1, <3>2 DEF PullType
    <3>4. QED
      <4>1. line # Junk /\ "pull" \in subscribed /\ IsMessage(line)
        BY <1>4, <2>9
      <4>2. /\ pulling'.values = Append(pulling.values, line.message)
            /\ lineShare'.emitted = Append(lineShare.emitted, line) /\ subscribed' = subscribed
        BY <2>1, <2>2, <2>3, <3>1, <3>3
      <4>3. QED
        BY ONLY <1>1, <2>3, <2>7, <2>8, <3>3, <4>1, <4>2
  <2>10. CASE ~("pull" \in subscribed /\ IsMessage(line))
    <3>1. pulling' = pulling
      BY <1>4, <2>10 DEF Emit
    <3>2. QED
      BY <1>1, <1>4, <2>1, <2>2, <2>3, <2>7, <2>8, <2>10, <3>1
  <2>11. QED
    BY <2>9, <2>10
<1>5. QED
  BY <1>3, <1>4

LEMMA EndLinesMoves ==
    ASSUME LineTypes, NEW how \in {"complete", "error"}, EndLines(how)
    PROVE  /\ lineShare' \in ShareOf(AnyLine) /\ subscribed' = {}
           /\ meta' \in MetaType /\ pulling' \in PullType
           /\ pulling'.pc = pulling.pc /\ pulling'.values = pulling.values
           /\ pulling'.end = IF "pull" \in subscribed THEN how ELSE pulling.end
           /\ meta'.state = IF "meta" \in subscribed THEN how ELSE meta.state
           /\ meta'.got = meta.got
           /\ how # "complete" => lineShare' = NoShare
           /\ how = "complete" => /\ lineShare'.complete
                                  /\ lineShare'.loop = lineShare.loop
                                  /\ lineShare'.emitted = lineShare.emitted
<1>1. /\ lineShare \in ShareOf(AnyLine) /\ meta \in MetaType /\ pulling \in PullType
  BY DEF LineTypes
<1>2. /\ pulling' = (IF "pull" \in subscribed THEN [pulling EXCEPT !.end = how] ELSE pulling)
      /\ meta' = (IF "meta" \in subscribed THEN [meta EXCEPT !.state = how] ELSE meta)
      /\ subscribed' = {}
      /\ lineShare' = (IF how = "complete" THEN [lineShare EXCEPT !.complete = TRUE] ELSE NoShare)
  BY DEF EndLines
<1>3. /\ pulling' \in PullType /\ pulling'.pc = pulling.pc /\ pulling'.values = pulling.values
      /\ pulling'.end = IF "pull" \in subscribed THEN how ELSE pulling.end
  BY ONLY <1>1, <1>2, how \in {"complete", "error"} DEF PullType
<1>4. /\ meta' \in MetaType /\ meta'.got = meta.got
      /\ meta'.state = IF "meta" \in subscribed THEN how ELSE meta.state
  BY ONLY <1>1, <1>2, how \in {"complete", "error"} DEF MetaType
<1>5. <<>> \in Seq(AnyLine)
  BY EmptySeq
<1>6. lineShare' \in ShareOf(AnyLine)
  BY ONLY <1>1, <1>2, <1>5 DEF NoShare, ShareOf
<1>7. how = "complete" => /\ lineShare'.complete
                          /\ lineShare'.loop = lineShare.loop
                          /\ lineShare'.emitted = lineShare.emitted
  BY ONLY <1>1, <1>2 DEF ShareOf
<1>8. QED
  BY <1>2, <1>3, <1>4, <1>6, <1>7

(* The steps of the lines, of pull and of the readers.                     *)
LEMMA ServeMoves ==
    ASSUME StreamTypes, answer \in Seq(AnyLine), Serve,
           NEW loop, loop = Head(lines.asks),
           NEW current, current = (loop # 0 /\ loop = lineShare.loop /\ ~lineShare.complete)
    PROVE  /\ StreamTypes' /\ UNCHANGED <<sourceVars, bufferVars, readVars>>
           /\ lines.asks # <<>> /\ pulling.pc # "idle"
           /\ \/ /\ current /\ EndLines(Outcome) /\ lines'.pos = lines.pos
                 /\ lines.finished \/ loop = 0 \/ Failed \/ AllRead
              \/ /\ ~current /\ UNCHANGED <<pulling, meta, subscribed, lineShare>>
                 /\ lines'.pos \in {lines.pos, lines.pos + 1}
              \/ /\ current /\ lines.pos < Len(answer) /\ ~lines.finished
                 /\ answer[lines.pos + 1] \in AnyLine /\ Emit(answer[lines.pos + 1])
                 /\ lines'.pos = lines.pos + 1 /\ ~lines'.finished
                 /\ answer[lines.pos + 1] # Junk => lines'.asks = Append(Tail(lines.asks), loop)
<1>1. /\ lines.asks # <<>> /\ pulling.pc # "idle"
      /\ UNCHANGED <<sourceVars, bufferVars, readVars, lineLoops>>
  BY DEF Serve
<1>2. LineTypes /\ lines \in LinesType /\ lines.asks \in Seq(Nat) /\ lines.pos \in Nat
  BY DEF StreamTypes, LineTypes, LinesType
<1>3. PICK rest : rest = Tail(lines.asks) /\ rest \in Seq(Nat) /\ loop \in Nat
  BY <1>1, <1>2, FirstTaken
<1>4. BufferTypes' /\ ReadTypes' /\ lineLoops' \in Nat
  BY <1>1 DEF StreamTypes, LineTypes, BufferTypes, bufferVars, ReadTypes, readVars
<1>5. Outcome \in {"complete", "error"}
  BY DEF Outcome
<1>6. CASE /\ lines.finished \/ loop = 0 \/ Failed \/ AllRead
           /\ lines' = [lines EXCEPT !.asks = rest, !.finished = TRUE]
           /\ IF current THEN EndLines(Outcome)
              ELSE UNCHANGED <<pulling, meta, subscribed, lineShare>>
  <2>1. lines' \in LinesType /\ lines'.pos = lines.pos
    BY ONLY <1>2, <1>3, <1>6 DEF LinesType
  <2>2. CASE current
    <3>1. EndLines(Outcome)
      BY <1>6, <2>2
    <3>2. LineTypes'
      BY <1>2, <1>4, <1>5, <2>1, <3>1, EndLinesMoves DEF LineTypes
    <3>3. QED
      BY <1>1, <1>4, <1>6, <2>1, <2>2, <3>1, <3>2 DEF StreamTypes
  <2>3. CASE ~current
    <3>1. UNCHANGED <<pulling, meta, subscribed, lineShare>>
      BY <1>6, <2>3
    <3>2. LineTypes'
      BY <1>2, <1>4, <2>1, <3>1 DEF LineTypes
    <3>3. QED
      BY <1>1, <1>4, <2>1, <2>3, <3>1, <3>2 DEF StreamTypes
  <2>4. QED
    BY <2>2, <2>3
<1>7. CASE /\ ~lines.finished /\ loop # 0 /\ ~Failed
           /\ lines.pos < Len(answer) /\ Available
           /\ lines' = [lines EXCEPT !.pos = @ + 1,
                          !.asks = Append(rest, IF current /\ answer[lines.pos + 1] # Junk
                                                THEN loop ELSE 0)]
           /\ IF current THEN Emit(answer[lines.pos + 1])
              ELSE UNCHANGED <<pulling, meta, subscribed, lineShare>>
  <2>1. PICK next \in Nat : next = IF current /\ answer[lines.pos + 1] # Junk THEN loop ELSE 0
    BY <1>3
  <2>2. PICK asks \in Seq(Nat) : asks = Append(rest, next)
    BY <1>3, <2>1, Appended
  <2>3. PICK pos \in Nat : pos = lines.pos + 1
    BY <1>2
  <2>4. lines' = [lines EXCEPT !.pos = pos, !.asks = asks]
    BY <1>7, <2>1, <2>2, <2>3
  <2>5. lines' \in LinesType /\ lines'.pos = pos /\ lines'.asks = asks
         /\ lines'.finished = lines.finished
    BY ONLY <1>2, <2>2, <2>3, <2>4 DEF LinesType
  <2>6. /\ lines' \in LinesType /\ lines'.pos = lines.pos + 1 /\ lines'.asks = asks
        /\ lines'.finished = lines.finished
    BY <2>3, <2>5
  <2>7. PICK line \in AnyLine : line = answer[lines.pos + 1]
    <3>1. lines.pos + 1 \in 1 .. Len(answer)
      BY <1>2, <1>7, LenProperties
    <3>2. QED
      BY <3>1, LenProperties
  <2>8. CASE current
    <3>1. Emit(line)
      BY <1>7, <2>7, <2>8
    <3>2. LineTypes'
      BY <1>2, <1>4, <2>6, <3>1, EmitMoves DEF LineTypes
    <3>3. line # Junk => lines'.asks = Append(Tail(lines.asks), loop)
      BY <1>3, <2>1, <2>2, <2>6, <2>7, <2>8
    <3>4. QED
      BY <1>1, <1>4, <1>7, <2>6, <2>7, <2>8, <3>1, <3>2, <3>3 DEF StreamTypes
  <2>9. CASE ~current
    <3>1. UNCHANGED <<pulling, meta, subscribed, lineShare>>
      BY <1>7, <2>9
    <3>2. LineTypes'
      BY <1>2, <1>4, <2>6, <3>1 DEF LineTypes
    <3>3. QED
      BY <1>1, <1>4, <2>6, <2>9, <3>1, <3>2 DEF StreamTypes
  <2>10. QED
    BY <2>8, <2>9
<1>8. QED
  BY <1>3, <1>6, <1>7 DEF Serve

LEMMA MetaSubscribesMoves ==
    ASSUME StreamTypes, MetaSubscribes
    PROVE  /\ StreamTypes' /\ UNCHANGED <<sourceVars, pulling, bufferVars, readVars>>
           /\ Connected("meta") /\ meta.state = "off"
           /\ meta'.state = (IF lineShare.complete THEN "complete" ELSE "on")
           /\ meta'.got = (\E i \in DOMAIN lineShare.emitted : lineShare.emitted[i] = Metadata)
<1>1. /\ UNCHANGED <<sourceVars, pulling, bufferVars, readVars>>
      /\ Connected("meta") /\ meta.state = "off"
      /\ meta' = [state |-> IF lineShare.complete THEN "complete" ELSE "on",
                  got |-> \E i \in DOMAIN lineShare.emitted : lineShare.emitted[i] = Metadata]
  BY DEF MetaSubscribes
<1>2. LineTypes
  BY DEF StreamTypes
<1>3. meta' \in MetaType
  BY <1>1 DEF MetaType
<1>4. LineTypes'
  BY <1>1, <1>2, <1>3, ConnectedMoves DEF LineTypes
<1>5. BufferTypes' /\ ReadTypes'
  BY <1>1 DEF StreamTypes, BufferTypes, bufferVars, ReadTypes, readVars
<1>6. QED
  BY <1>1, <1>4, <1>5 DEF StreamTypes

LEMMA MetaLeavesMoves ==
    ASSUME StreamTypes, MetaLeaves
    PROVE  /\ StreamTypes' /\ UNCHANGED <<sourceVars, lines, pulling, bufferVars, readVars>>
           /\ meta.state = "on" /\ meta'.got = meta.got
           /\ meta'.state = (IF meta.got THEN "served" ELSE "left")
           /\ subscribed' = subscribed \ {"meta"} /\ lineShare' = ShareWithout("meta")
<1>1. /\ UNCHANGED <<sourceVars, lines, lineLoops, pulling, bufferVars, readVars>>
      /\ meta.state = "on" /\ meta' = [meta EXCEPT !.state = IF meta.got THEN "served" ELSE "left"]
      /\ subscribed' = subscribed \ {"meta"} /\ lineShare' = ShareWithout("meta")
  BY DEF MetaLeaves
<1>2. LineTypes /\ meta \in MetaType
  BY DEF StreamTypes, LineTypes
<1>3. /\ meta' \in MetaType /\ meta'.got = meta.got
      /\ meta'.state = (IF meta.got THEN "served" ELSE "left")
  BY ONLY <1>1, <1>2 DEF MetaType
<1>4. lineShare' \in ShareOf(AnyLine)
  BY <1>1, <1>2, ShareMoves
<1>5. LineTypes'
  BY <1>1, <1>2, <1>3, <1>4 DEF LineTypes
<1>6. BufferTypes' /\ ReadTypes'
  BY <1>1 DEF StreamTypes, BufferTypes, bufferVars, ReadTypes, readVars
<1>7. QED
  BY <1>1, <1>3, <1>5, <1>6 DEF StreamTypes

LEMMA MessagesNone == Messages(<<>>) = <<>>
<1>1. PICK set : set = {line \in Range(<<>>) : IsMessage(line)}
  OBVIOUS
<1>2. Selected(<<>>, set) = <<>>
  BY SelectedNone
<1>3. Messages(<<>>) = [i \in DOMAIN <<>> |-> <<>>[i].message]
  BY <1>1, <1>2 DEF Messages
<1>4. QED
  BY <1>3

LEMMA StartPullMoves ==
    ASSUME StreamTypes, StartPull, lineShare.emitted = <<>>, ~lineShare.complete
    PROVE  /\ StreamTypes' /\ UNCHANGED <<sourceVars, meta, bufferVars, readVars>>
           /\ pulling.pc = "idle" /\ Connected("pull")
           /\ pulling'.pc = "taking" /\ pulling'.values = <<>> /\ pulling'.end = "no"
<1>1. /\ UNCHANGED <<sourceVars, meta, bufferVars, readVars>>
      /\ pulling.pc = "idle" /\ Connected("pull")
      /\ pulling' = [pc |-> "taking", values |-> <<>>, end |-> "no"]
  BY MessagesNone DEF StartPull
<1>2. LineTypes /\ <<>> \in Seq(StoredMessage)
  BY EmptySeq DEF StreamTypes
<1>3. pulling' \in PullType
  BY <1>1, <1>2 DEF PullType
<1>4. LineTypes'
  BY <1>1, <1>2, <1>3, ConnectedMoves DEF LineTypes
<1>5. BufferTypes' /\ ReadTypes'
  BY <1>1 DEF StreamTypes, BufferTypes, bufferVars, ReadTypes, readVars
<1>6. QED
  BY <1>1, <1>4, <1>5 DEF StreamTypes

LEMMA StopPullMoves ==
    ASSUME StreamTypes, StopPull, UNCHANGED <<lines, lineLoops, meta, readVars>>
    PROVE  /\ StreamTypes' /\ EndWrite(None)
           /\ pulling'.pc = "done" /\ pulling'.values = pulling.values /\ pulling'.end = pulling.end
           /\ subscribed' = subscribed \ {"pull"} /\ lineShare' = ShareWithout("pull")
<1>1. /\ pulling' = [pulling EXCEPT !.pc = "done"] /\ EndWrite(None)
      /\ subscribed' = subscribed \ {"pull"} /\ lineShare' = ShareWithout("pull")
  BY DEF StopPull
<1>2. LineTypes /\ pulling \in PullType /\ BufferTypes
  BY DEF StreamTypes, LineTypes
<1>3. /\ pulling' \in PullType
      /\ pulling'.pc = "done" /\ pulling'.values = pulling.values /\ pulling'.end = pulling.end
  BY ONLY <1>1, <1>2 DEF PullType
<1>4. lineShare' \in ShareOf(AnyLine)
  BY <1>1, <1>2, ShareMoves
<1>5. LineTypes'
  BY <1>1, <1>2, <1>3, <1>4 DEF LineTypes
<1>6. BufferTypes'
  BY <1>1, <1>2, EndWriteMoves
<1>7. ReadTypes'
  BY DEF StreamTypes, ReadTypes, readVars
<1>8. QED
  BY <1>1, <1>3, <1>5, <1>6, <1>7 DEF StreamTypes

LEMMA TakeLineMoves ==
    ASSUME StreamTypes, TakeLine
    PROVE  /\ StreamTypes' /\ UNCHANGED <<sourceVars, lines, meta, readVars>>
           /\ pulling.pc = "taking" /\ pulling.values # <<>> /\ pulling'.end = pulling.end
           /\ \/ /\ Push(Head(pulling.values), "pull") /\ Head(pulling.values) \in StoredMessage
                 /\ pulling'.pc = "pushing" /\ pulling'.values = Tail(pulling.values)
                 /\ UNCHANGED <<subscribed, lineShare>>
              \/ /\ ~IsWritable /\ EndWrite(None)
                 /\ pulling'.pc = "done" /\ pulling'.values = pulling.values
                 /\ subscribed' = subscribed \ {"pull"} /\ lineShare' = ShareWithout("pull")
<1>1. /\ UNCHANGED <<sourceVars, lines, lineLoops, meta, readVars>>
      /\ pulling.pc = "taking" /\ pulling.values # <<>>
  BY DEF TakeLine
<1>2. LineTypes /\ pulling \in PullType /\ BufferTypes /\ pulling.values \in Seq(StoredMessage)
  BY DEF StreamTypes, LineTypes, PullType
<1>3. CASE IsWritable
  <2>1. PICK rest \in Seq(StoredMessage) : rest = Tail(pulling.values)
    BY <1>1, <1>2, FirstTaken
  <2>2. Head(pulling.values) \in StoredMessage
    BY <1>1, <1>2, FirstTaken
  <2>3. /\ Push(Head(pulling.values), "pull")
        /\ pulling' = [pulling EXCEPT !.pc = "pushing", !.values = rest]
        /\ UNCHANGED <<subscribed, lineShare>>
    BY <1>3, <2>1 DEF TakeLine
  <2>4. /\ pulling' \in PullType /\ pulling'.pc = "pushing" /\ pulling'.values = rest
        /\ pulling'.end = pulling.end
    BY ONLY <1>2, <2>1, <2>3 DEF PullType
  <2>5. BufferTypes'
    BY <1>2, <2>2, <2>3, PushMoves
  <2>6. LineTypes' /\ ReadTypes'
    BY <1>1, <1>2, <2>3, <2>4 DEF StreamTypes, LineTypes, ReadTypes, readVars
  <2>7. QED
    BY <1>1, <2>1, <2>2, <2>3, <2>4, <2>5, <2>6 DEF StreamTypes
<1>4. CASE ~IsWritable
  <2>1. StopPull
    BY <1>4 DEF TakeLine
  <2>2. QED
    BY <1>1, <1>4, <2>1, StopPullMoves
<1>5. QED
  BY <1>3, <1>4

LEMMA PushedMoves ==
    ASSUME StreamTypes, Pushed
    PROVE  /\ StreamTypes' /\ UNCHANGED <<sourceVars, lines, meta, readVars>>
           /\ pulling.pc = "pushing"
           /\ pulling'.end = pulling.end /\ pulling'.values = pulling.values
           /\ \/ /\ pulling'.pc = "taking" /\ UNCHANGED <<subscribed, lineShare, bufferVars>>
              \/ /\ writeGate.locked /\ EndWrite(None) /\ pulling'.pc = "done"
                 /\ subscribed' = subscribed \ {"pull"} /\ lineShare' = ShareWithout("pull")
<1>1. /\ UNCHANGED <<sourceVars, lines, lineLoops, meta, readVars>>
      /\ pulling.pc = "pushing"
  BY DEF Pushed
<1>2. LineTypes /\ pulling \in PullType
  BY DEF StreamTypes, LineTypes
<1>3. CASE ~writeGate.locked
  <2>1. /\ pulling' = [pulling EXCEPT !.pc = "taking"]
        /\ UNCHANGED <<subscribed, lineShare, bufferVars>>
    BY <1>3 DEF Pushed
  <2>2. /\ pulling' \in PullType /\ pulling'.pc = "taking" /\ pulling'.values = pulling.values
        /\ pulling'.end = pulling.end
    BY ONLY <1>2, <2>1 DEF PullType
  <2>3. StreamTypes'
    BY <1>1, <2>1, <2>2 DEF StreamTypes, LineTypes, BufferTypes, bufferVars, ReadTypes, readVars
  <2>4. QED
    BY <1>1, <2>1, <2>2, <2>3
<1>4. CASE writeGate.locked
  <2>1. StopPull
    BY <1>4 DEF Pushed
  <2>2. QED
    BY <1>1, <1>4, <2>1, StopPullMoves
<1>5. QED
  BY <1>3, <1>4

LEMMA EndPullMoves ==
    ASSUME StreamTypes, EndPull
    PROVE  /\ StreamTypes' /\ UNCHANGED <<sourceVars, lineVars, readVars>>
           /\ pulling.pc = "taking" /\ pulling.values = <<>> /\ pulling.end # "no"
           /\ pulling'.pc = "done" /\ pulling'.values = <<>> /\ pulling'.end = pulling.end
           /\ buffer' = buffer /\ writeGate'.locked /\ readGate'.locked = readGate.locked
           /\ error' = IF error # None THEN error
                       ELSE IF pulling.end = "complete" THEN None ELSE pulling.end
<1>1. /\ UNCHANGED <<sourceVars, lineVars, readVars>>
      /\ pulling.pc = "taking" /\ pulling.values = <<>> /\ pulling.end # "no"
      /\ pulling' = [pulling EXCEPT !.pc = "done"]
      /\ EndWrite(IF pulling.end = "complete" THEN None ELSE pulling.end)
  BY DEF EndPull
<1>2. LineTypes /\ pulling \in PullType /\ BufferTypes
  BY DEF StreamTypes, LineTypes
<1>3. PICK err : err = IF pulling.end = "complete" THEN None ELSE pulling.end
  OBVIOUS
<1>4. err \in {None, "error", "invalid"} /\ EndWrite(err)
  BY <1>1, <1>2, <1>3 DEF PullType
<1>5. /\ BufferTypes' /\ buffer' = buffer /\ error' = (IF error = None THEN err ELSE error)
      /\ writeGate'.locked /\ readGate'.locked = readGate.locked
  BY ONLY <1>2, <1>4, EndWriteMoves
<1>6. /\ pulling' \in PullType
      /\ pulling'.pc = "done" /\ pulling'.values = pulling.values /\ pulling'.end = pulling.end
  BY ONLY <1>1, <1>2 DEF PullType
<1>7. LineTypes' /\ ReadTypes'
  BY <1>1, <1>2, <1>6 DEF StreamTypes, LineTypes, lineVars, ReadTypes, readVars
<1>8. QED
  BY <1>1, <1>3, <1>5, <1>6, <1>7 DEF StreamTypes

LEMMA ReadMoves ==
    ASSUME StreamTypes, NEW r \in Reader, Read(r)
    PROVE  /\ StreamTypes' /\ UNCHANGED <<sourceVars, lineVars, pulling, bufferVars>>
           /\ RequestOf(input).type # "invalid" /\ readers[r].state = "off"
           /\ msgShare.loop # 0 => UNCHANGED <<gens, msgShare>>
           /\ msgShare.loop = 0 => gens' = Append(gens, "asked") /\ msgShare' = NewShare(Len(gens) + 1)
           /\ readers' = [readers EXCEPT ![r] =
                            [state |-> IF msgShare.complete THEN "complete" ELSE "reading",
                             got |-> msgShare.emitted]]
<1>1. /\ UNCHANGED <<sourceVars, lineVars, pulling, bufferVars>>
      /\ RequestOf(input).type # "invalid" /\ readers[r].state = "off"
      /\ readers' = [readers EXCEPT ![r] =
                            [state |-> IF msgShare.complete THEN "complete" ELSE "reading",
                             got |-> msgShare.emitted]]
  BY DEF Read
<1>2. /\ msgShare.emitted \in Seq(StoredMessage) /\ gens \in Seq(GenState)
      /\ msgShare \in ShareOf(StoredMessage) /\ readers \in [Reader -> ReaderType]
  BY DEF StreamTypes, ReadTypes, ShareOf
<1>3. readers' \in [Reader -> ReaderType]
  BY <1>1, <1>2 DEF ReaderType
<1>4. /\ msgShare.loop # 0 => UNCHANGED <<gens, msgShare>>
      /\ msgShare.loop = 0 => gens' = Append(gens, "asked") /\ msgShare' = NewShare(Len(gens) + 1)
  <2>1. "asked" \in GenState
    BY DEF GenState
  <2>2. Len(Append(gens, "asked")) = Len(gens) + 1
    BY ONLY <1>2, <2>1, Appended
  <2>3. QED
    BY <2>2 DEF Read
<1>5. gens' \in Seq(GenState) /\ msgShare' \in ShareOf(StoredMessage)
  <2>1. "asked" \in GenState
    BY DEF GenState
  <2>2. Append(gens, "asked") \in Seq(GenState)
    BY ONLY <1>2, <2>1, Appended
  <2>3. Len(gens) + 1 \in Nat /\ <<>> \in Seq(StoredMessage)
    BY <1>2, EmptySeq, LenProperties
  <2>4. NewShare(Len(gens) + 1) \in ShareOf(StoredMessage)
    BY <2>3 DEF NewShare, ShareOf
  <2>5. QED
    BY <1>2, <1>4, <2>2, <2>4
<1>6. LineTypes' /\ BufferTypes'
  BY <1>1 DEF StreamTypes, LineTypes, lineVars, BufferTypes, bufferVars
<1>7. QED
  BY <1>1, <1>3, <1>4, <1>5, <1>6 DEF StreamTypes, ReadTypes

LEMMA LeaveMoves ==
    ASSUME StreamTypes, NEW r \in Reader, Leave(r)
    PROVE  /\ StreamTypes' /\ UNCHANGED <<sourceVars, lineVars, pulling, bufferVars, gens>>
           /\ readers[r].state = "reading"
           /\ readers' \in [Reader -> ReaderType]
           /\ readers'[r].state = "left" /\ readers'[r].got = readers[r].got
           /\ \A q \in Reader \ {r} : readers'[q] = readers[q]
           /\ msgShare' = IF \E q \in Reader \ {r} : readers[q].state = "reading" THEN msgShare ELSE NoShare
<1>1. /\ UNCHANGED <<sourceVars, lineVars, pulling, bufferVars, gens>>
      /\ readers[r].state = "reading"
      /\ readers' = [readers EXCEPT ![r] = [readers[r] EXCEPT !.state = "left"]]
      /\ msgShare' = IF \E q \in Reader \ {r} : readers[q].state = "reading" THEN msgShare ELSE NoShare
  BY DEF Leave
<1>2. readers \in [Reader -> ReaderType] /\ msgShare \in ShareOf(StoredMessage) /\ readers[r] \in ReaderType
  BY DEF StreamTypes, ReadTypes
<1>3. PICK one \in ReaderType : /\ one = [readers[r] EXCEPT !.state = "left"]
                                /\ one.state = "left" /\ one.got = readers[r].got
  <2>1. PICK old \in ReaderType : old = readers[r]
    BY <1>2
  <2>2. PICK new : new = [old EXCEPT !.state = "left"]
    OBVIOUS
  <2>3. new \in ReaderType /\ new.state = "left" /\ new.got = old.got
    BY ONLY <2>2, old \in ReaderType DEF ReaderType
  <2>4. QED
    BY <2>1, <2>2, <2>3
<1>4. readers' = [readers EXCEPT ![r] = one]
  BY <1>1, <1>3
<1>5. readers' \in [Reader -> ReaderType] /\ readers'[r] = one /\ \A q \in Reader \ {r} : readers'[q] = readers[q]
  BY ONLY <1>2, <1>3, <1>4, r \in Reader
<1>6. <<>> \in Seq(StoredMessage)
  BY EmptySeq
<1>7. msgShare' \in ShareOf(StoredMessage)
  BY <1>1, <1>2, <1>6 DEF NoShare, ShareOf
<1>8. LineTypes' /\ BufferTypes' /\ ReadTypes'
  BY <1>1, <1>5, <1>7 DEF StreamTypes, LineTypes, lineVars, BufferTypes, bufferVars, ReadTypes
<1>9. QED
  BY <1>1, <1>3, <1>5, <1>8 DEF StreamTypes

(* A loop over the messages is answered.                                   *)
LEMMA GenerateMoves ==
    ASSUME StreamTypes, NEW g \in DOMAIN gens, Generate(g)
    PROVE  /\ StreamTypes' /\ UNCHANGED <<sourceVars, lineVars, pulling>>
           /\ gens[g] = "asked" /\ g \in 1 .. Len(gens)
           /\ \/ /\ Shift /\ Current(g) /\ gens' = gens
                 /\ msgShare'.loop = msgShare.loop /\ msgShare'.complete = msgShare.complete
                 /\ msgShare'.emitted = Append(msgShare.emitted, Head(buffer))
                 /\ \A r \in Reader :
                      IF readers[r].state = "reading"
                      THEN /\ readers'[r].state = "reading"
                           /\ readers'[r].got = Append(readers[r].got, Head(buffer))
                      ELSE readers'[r] = readers[r]
              \/ /\ Shift /\ ~Current(g) /\ UNCHANGED <<readers, msgShare>>
              \/ /\ AwaitItem(g) /\ UNCHANGED readVars
              \/ /\ Finish /\ ~Current(g) /\ UNCHANGED <<readers, msgShare>>
              \/ /\ Finish /\ Current(g) /\ gens' = [gens EXCEPT ![g] = "ended"]
                 /\ error # None => msgShare' = NoShare
                 /\ error = None => /\ msgShare'.complete /\ msgShare'.loop = msgShare.loop
                                    /\ msgShare'.emitted = msgShare.emitted
                 /\ \A r \in Reader :
                      IF readers[r].state = "reading"
                      THEN /\ readers'[r].state = IF error = None THEN "complete" ELSE "error"
                           /\ readers'[r].got = readers[r].got
                      ELSE readers'[r] = readers[r]
<1>1. /\ gens[g] = "asked" /\ UNCHANGED <<sourceVars, lineVars, pulling>>
  BY DEF Generate
<1>2. /\ gens \in Seq(GenState) /\ msgShare \in ShareOf(StoredMessage)
      /\ readers \in [Reader -> ReaderType] /\ BufferTypes /\ msgShare.emitted \in Seq(StoredMessage)
  BY DEF StreamTypes, ReadTypes, ShareOf
<1>3. g \in 1 .. Len(gens) /\ g \in Nat
  <2>1. DOMAIN gens = 1 .. Len(gens) /\ Len(gens) \in Nat
    BY <1>2
  <2>2. QED
    BY <2>1
<1>4. LineTypes'
  BY <1>1 DEF StreamTypes, LineTypes, lineVars
<1>5. \A state \in GenState : [gens EXCEPT ![g] = state] \in Seq(GenState)
  BY ONLY <1>2, <1>3
<1>6. CASE Shift /\ Current(g)
  <2>1. PICK m \in StoredMessage : m = Head(buffer)
    BY <1>2, <1>6, ShiftMoves
  <2>2. /\ readers' = [r \in Reader |-> IF readers[r].state = "reading"
                                        THEN [state |-> "reading", got |-> Append(readers[r].got, m)]
                                        ELSE readers[r]]
        /\ msgShare' = [msgShare EXCEPT !.emitted = Append(@, m)] /\ gens' = gens
    BY <1>6, <2>1 DEF Generate, Told, Shift, AwaitItem, Finish, HasItem, Exhausted
  <2>3. PICK e \in Seq(StoredMessage) : e = Append(msgShare.emitted, m)
    BY <1>2, <2>1, Appended
  <2>4. msgShare' = [msgShare EXCEPT !.emitted = e]
    BY <2>2, <2>3
  <2>5. /\ msgShare' \in ShareOf(StoredMessage) /\ msgShare'.emitted = e
        /\ msgShare'.loop = msgShare.loop /\ msgShare'.complete = msgShare.complete
    BY ONLY <1>2, <2>3, <2>4 DEF ShareOf
  <2>6. ASSUME NEW r \in Reader
        PROVE  /\ readers'[r] \in ReaderType
               /\ IF readers[r].state = "reading"
                  THEN /\ readers'[r].state = "reading"
                       /\ readers'[r].got = Append(readers[r].got, m)
                  ELSE readers'[r] = readers[r]
    <3>1. readers[r] \in ReaderType /\ readers[r].got \in Seq(StoredMessage)
      BY <1>2 DEF ReaderType
    <3>2. PICK got \in Seq(StoredMessage) : got = Append(readers[r].got, m)
      BY <2>1, <3>1, Appended
    <3>3. readers'[r] = IF readers[r].state = "reading"
                        THEN [state |-> "reading", got |-> got] ELSE readers[r]
      BY <2>2, <3>2
    <3>4. QED
      BY <3>1, <3>2, <3>3 DEF ReaderType
  <2>7. readers' \in [Reader -> ReaderType]
    BY <2>2, <2>6
  <2>8. BufferTypes'
    BY <1>2, <1>6, ShiftMoves
  <2>9. StreamTypes'
    BY <1>2, <1>4, <2>2, <2>5, <2>7, <2>8 DEF StreamTypes, ReadTypes
  <2>10. QED
    BY <1>1, <1>3, <1>6, <2>1, <2>2, <2>3, <2>5, <2>6, <2>9
<1>7. CASE Shift /\ ~Current(g)
  <2>1. gens' = [gens EXCEPT ![g] = "left"] /\ UNCHANGED <<readers, msgShare>>
    BY <1>7 DEF Generate, Shift, AwaitItem, Finish, HasItem, Exhausted
  <2>2. BufferTypes'
    BY <1>2, <1>7, ShiftMoves
  <2>3. StreamTypes'
    BY <1>2, <1>4, <1>5, <2>1, <2>2 DEF StreamTypes, ReadTypes, GenState
  <2>4. QED
    BY <1>1, <1>3, <1>7, <2>1, <2>3
<1>8. CASE AwaitItem(g) /\ UNCHANGED readVars
  <2>1. BufferTypes'
    BY <1>2, <1>3, <1>8, AwaitMoves
  <2>2. StreamTypes'
    BY <1>2, <1>4, <1>8, <2>1 DEF StreamTypes, ReadTypes, readVars
  <2>3. QED
    BY <1>1, <1>3, <1>8, <2>2
<1>9. CASE /\ Finish /\ gens' = [gens EXCEPT ![g] = "ended"]
           /\ IF ~Current(g) THEN UNCHANGED <<readers, msgShare>>
              ELSE /\ readers' = Told(IF error = None THEN "complete" ELSE "error", LAMBDA got : got)
                   /\ msgShare' = IF error = None THEN [msgShare EXCEPT !.complete = TRUE] ELSE NoShare
  <2>1. BufferTypes'
    BY <1>2, <1>9, EndMoves
  <2>2. gens' \in Seq(GenState)
    BY <1>5, <1>9 DEF GenState
  <2>3. CASE ~Current(g)
    <3>1. StreamTypes'
      BY <1>2, <1>4, <1>9, <2>1, <2>2, <2>3 DEF StreamTypes, ReadTypes
    <3>2. QED
      BY <1>1, <1>3, <1>9, <2>3, <3>1
  <2>4. CASE Current(g)
    <3>1. PICK state \in {"complete", "error"} : state = IF error = None THEN "complete" ELSE "error"
      OBVIOUS
    <3>2. readers' = [r \in Reader |-> IF readers[r].state = "reading"
                                       THEN [state |-> state, got |-> readers[r].got]
                                       ELSE readers[r]]
      BY <1>9, <2>4, <3>1 DEF Told
    <3>3. ASSUME NEW r \in Reader
          PROVE  /\ readers'[r] \in ReaderType
                 /\ IF readers[r].state = "reading"
                    THEN readers'[r].state = state /\ readers'[r].got = readers[r].got
                    ELSE readers'[r] = readers[r]
      <4>1. readers[r] \in ReaderType
        BY <1>2
      <4>2. QED
        BY <3>1, <3>2, <4>1 DEF ReaderType
    <3>4. readers' \in [Reader -> ReaderType]
      BY <3>2, <3>3
    <3>5. /\ error # None => msgShare' = NoShare
          /\ error = None => msgShare' = [msgShare EXCEPT !.complete = TRUE]
      BY <1>9, <2>4
    <3>6. <<>> \in Seq(StoredMessage)
      BY EmptySeq
    <3>7. /\ msgShare' \in ShareOf(StoredMessage)
          /\ error = None => /\ msgShare'.complete /\ msgShare'.loop = msgShare.loop
                             /\ msgShare'.emitted = msgShare.emitted
      <4>1. NoShare \in ShareOf(StoredMessage)
        BY <3>6 DEF NoShare, ShareOf
      <4>2. PICK new : new = [msgShare EXCEPT !.complete = TRUE]
        OBVIOUS
      <4>3. /\ new \in ShareOf(StoredMessage)
            /\ new.complete /\ new.loop = msgShare.loop /\ new.emitted = msgShare.emitted
        BY <1>2, <4>2 DEF ShareOf
      <4>4. QED
        BY ONLY <3>5, <4>1, <4>2, <4>3
    <3>8. StreamTypes'
      BY <1>4, <2>1, <2>2, <3>4, <3>7 DEF StreamTypes, ReadTypes
    <3>9. QED
      BY <1>1, <1>3, <1>9, <2>4, <3>1, <3>3, <3>5, <3>7, <3>8
  <2>5. QED
    BY <2>3, <2>4
<1>10. QED
  BY <1>6, <1>7, <1>8, <1>9 DEF Generate

LEMMA ReturnMoves ==
    ASSUME StreamTypes, NEW g \in DOMAIN gens, Return(g)
    PROVE  /\ StreamTypes' /\ UNCHANGED <<sourceVars, lineVars, pulling, msgShare, readers>>
           /\ gens[g] = "left" /\ g \in 1 .. Len(gens) /\ Abandon
<1>1. /\ UNCHANGED <<sourceVars, lineVars, pulling, msgShare, readers>>
      /\ gens[g] = "left" /\ Abandon /\ gens' = [gens EXCEPT ![g] = "ended"]
  BY DEF Return
<1>2. gens \in Seq(GenState) /\ BufferTypes
  BY DEF StreamTypes, ReadTypes
<1>3. g \in 1 .. Len(gens) /\ "ended" \in GenState
  BY <1>2 DEF GenState
<1>4. gens' \in Seq(GenState)
  BY ONLY <1>1, <1>2, <1>3
<1>5. BufferTypes'
  BY <1>1, <1>2, EndMoves
<1>6. LineTypes' /\ ReadTypes'
  BY <1>1, <1>4 DEF StreamTypes, LineTypes, lineVars, ReadTypes
<1>7. QED
  BY <1>1, <1>3, <1>5, <1>6 DEF StreamTypes

-------------------------------------------------------------------------------
(* What has been shared, is buffered and is about to be pushed, in three   *)
(* parts, one behind the other, of the first m messages asked for.         *)
Parts(e, b, v, q, m) ==
    \E x, y \in 0 .. m : x <= y /\ Within(e, q, 0, x) /\ Within(b, q, x, y) /\ Within(v, q, y, m)

LEMMA PartsShrink ==
    ASSUME NEW q, NEW m \in Nat, NEW k \in Nat, m <= k, NEW e, NEW b, NEW v, Parts(e, b, v, q, m),
           NEW f \in {e, <<>>}, NEW c \in {b, <<>>}
    PROVE  Parts(f, c, v, q, k)
<1>1. PICK x \in 0 .. m, y \in 0 .. m :
         x <= y /\ Within(e, q, 0, x) /\ Within(b, q, x, y) /\ Within(v, q, y, m)
  BY DEF Parts
<1>2. x \in 0 .. k /\ y \in 0 .. k /\ x \in Nat /\ y \in Nat /\ 0 \in Nat
  OBVIOUS
<1>3. Within(f, q, 0, x)
  BY <1>1, WithinNone
<1>4. Within(c, q, x, y)
  BY <1>1, WithinNone
<1>5. Within(v, q, y, k)
  BY <1>1, <1>2, WithinWider
<1>6. QED
  BY <1>1, <1>2, <1>3, <1>4, <1>5 DEF Parts

LEMMA PartsShift ==
    ASSUME NEW q \in Seq(StoredMessage), InOrder(q), NEW m \in 0 .. Len(q),
           NEW e \in Seq(StoredMessage), NEW b \in Seq(StoredMessage), b # <<>>, NEW v,
           Parts(e, b, v, q, m)
    PROVE  Parts(Append(e, Head(b)), Tail(b), v, q, m) /\ Parts(e, Tail(b), v, q, m)
<1>1. PICK x \in 0 .. m, y \in 0 .. m :
         x <= y /\ Within(e, q, 0, x) /\ Within(b, q, x, y) /\ Within(v, q, y, m)
  BY DEF Parts
<1>2. x \in Nat /\ y \in Nat /\ y <= Len(q) /\ 0 \in Nat /\ 0 <= x /\ m \in Nat
  OBVIOUS
<1>3. PICK c \in 1 .. y : x < c /\ Head(b) = q[c] /\ Within(Tail(b), q, c, y)
  BY <1>1, <1>2, WithinTail
<1>4. c \in 1 .. Len(q) /\ c \in 0 .. m /\ c <= y /\ c \in Nat /\ x <= c
  BY <1>2, <1>3
<1>5. Within(Append(e, q[c]), q, 0, c)
  BY <1>1, <1>2, <1>3, <1>4, WithinAppend
<1>6. Within(Tail(b), q, x, y)
  BY <1>2, <1>3, <1>4, WithinWider
<1>7. Parts(Append(e, Head(b)), Tail(b), v, q, m)
  BY <1>1, <1>3, <1>4, <1>5 DEF Parts
<1>8. Parts(e, Tail(b), v, q, m)
  BY <1>1, <1>6 DEF Parts
<1>9. QED
  BY <1>7, <1>8

LEMMA PartsPush ==
    ASSUME NEW q \in Seq(StoredMessage), InOrder(q), NEW m \in 0 .. Len(q),
           NEW e, NEW b \in Seq(StoredMessage), NEW v \in Seq(StoredMessage), v # <<>>,
           Parts(e, b, v, q, m)
    PROVE  Parts(e, Append(b, Head(v)), Tail(v), q, m)
<1>1. PICK x \in 0 .. m, y \in 0 .. m :
         x <= y /\ Within(e, q, 0, x) /\ Within(b, q, x, y) /\ Within(v, q, y, m)
  BY DEF Parts
<1>2. x \in Nat /\ y \in Nat /\ m \in Nat /\ m <= Len(q)
  OBVIOUS
<1>3. PICK c \in 1 .. m : y < c /\ Head(v) = q[c] /\ Within(Tail(v), q, c, m)
  BY <1>1, <1>2, WithinTail
<1>4. c \in 1 .. Len(q) /\ c \in 0 .. m /\ x <= c
  BY <1>1, <1>2, <1>3
<1>5. Within(Append(b, q[c]), q, x, c)
  BY <1>1, <1>2, <1>3, <1>4, WithinAppend
<1>6. QED
  BY <1>1, <1>3, <1>4, <1>5 DEF Parts

LEMMA PartsLine ==
    ASSUME NEW q \in Seq(StoredMessage), InOrder(q), NEW m \in Nat, m < Len(q),
           NEW e, NEW b, NEW v \in Seq(StoredMessage), Parts(e, b, v, q, m)
    PROVE  Parts(e, b, Append(v, q[m + 1]), q, m + 1)
<1>1. PICK x \in 0 .. m, y \in 0 .. m :
         x <= y /\ Within(e, q, 0, x) /\ Within(b, q, x, y) /\ Within(v, q, y, m)
  BY DEF Parts
<1>2. PICK c \in 1 .. Len(q) : c = m + 1
  OBVIOUS
<1>3. x \in 0 .. c /\ y \in 0 .. c /\ y \in Nat /\ y <= m /\ m < c
  BY <1>2
<1>4. Within(Append(v, q[c]), q, y, c)
  BY <1>1, <1>3, WithinAppend
<1>5. Parts(e, b, Append(v, q[c]), q, c)
  BY <1>1, <1>3, <1>4 DEF Parts
<1>6. QED
  BY <1>2, <1>5

LEMMA PartsWithin ==
    ASSUME NEW q, NEW n \in Nat, NEW m \in 0 .. n, NEW e, NEW b, NEW v, Parts(e, b, v, q, m)
    PROVE  Within(e, q, 0, n)
<1>1. PICK x \in 0 .. m : Within(e, q, 0, x)
  BY DEF Parts
<1>2. x \in Nat /\ 0 \in Nat /\ x <= n
  OBVIOUS
<1>3. QED
  BY <1>1, <1>2, WithinWider

-------------------------------------------------------------------------------
(* The invariant; q is what is asked for.                                  *)
AskedUpTo(q, k) == IF k <= Len(q) THEN k ELSE Len(q)

PartsSound(q) == Parts(msgShare.emitted, buffer, pulling.values, q, AskedUpTo(q, lines.pos))

PullSound ==
    /\ lineShare.loop = 0 => lineShare = NoShare
    /\ pulling.pc # "none"
    /\ pulling.pc = "idle" =>
         /\ lines.pos = 0 /\ ~lines.finished
         /\ lineShare.emitted = <<>> /\ ~lineShare.complete
         /\ pulling.values = <<>> /\ pulling.end = "no"
         /\ "pull" \notin subscribed /\ ~meta.got
    /\ pulling.end # "no" => "pull" \notin subscribed
    /\ "meta" \in subscribed => meta.state = "on"

ReadersSound(q) ==
    /\ msgShare.loop = 0 => msgShare = NoShare
    /\ \A r \in Reader :
         /\ Within(readers[r].got, q, 0, Len(q))
         /\ readers[r].state = "reading" =>
              readers[r].got = msgShare.emitted /\ msgShare.loop # 0 /\ ~msgShare.complete

LEMMA Shares ==
    /\ NoShare.loop = 0 /\ NoShare.emitted = <<>> /\ NoShare.complete = FALSE
    /\ \A loop : NewShare(loop).loop = loop /\ NewShare(loop).emitted = <<>> /\ NewShare(loop).complete = FALSE
    /\ \A s : ShareWithout(s) \in {NoShare, lineShare}
<1>1. NoShare.loop = 0 /\ NoShare.emitted = <<>> /\ NoShare.complete = FALSE
  BY DEF NoShare
<1>2. \A loop : NewShare(loop).loop = loop /\ NewShare(loop).emitted = <<>> /\ NewShare(loop).complete = FALSE
  BY DEF NewShare
<1>3. \A s : ShareWithout(s) \in {NoShare, lineShare}
  BY DEF ShareWithout
<1>4. QED
  BY <1>1, <1>2, <1>3

LEMMA PullKept ==
    ASSUME StreamTypes, PullSound, answer \in Seq(AnyLine), StreamNext
    PROVE  PullSound'
<1> USE DEF PullSound
<1>1. LineTypes
  BY DEF StreamTypes
<1>2. CASE UNCHANGED <<lineVars, pulling>>
  BY <1>2 DEF lineVars
<1>3. CASE Serve
  <2>1. PICK loop, current : /\ loop = Head(lines.asks)
                             /\ current = (loop # 0 /\ loop = lineShare.loop /\ ~lineShare.complete)
    OBVIOUS
  <2>2. CASE current /\ EndLines(Outcome)
    <3>1. Outcome \in {"complete", "error"}
      BY DEF Outcome
    <3>2. pulling.pc # "idle"
      BY <1>3 DEF Serve
    <3>3. QED
      BY <1>1, <2>1, <2>2, <3>1, <3>2, Shares, EndLinesMoves
  <2>3. CASE ~current /\ UNCHANGED <<pulling, meta, subscribed, lineShare>>
    <3>1. pulling.pc # "idle"
      BY <1>3 DEF Serve
    <3>2. QED
      BY <2>3, <3>1
  <2>4. CASE /\ current /\ answer[lines.pos + 1] \in AnyLine /\ Emit(answer[lines.pos + 1])
    <3>1. pulling.pc # "idle"
      BY <1>3 DEF Serve
    <3>2. QED
      BY <1>1, <2>1, <2>4, <3>1, Shares, EmitMoves
  <2>5. QED
    BY <1>3, <2>1, <2>2, <2>3, <2>4, ServeMoves
<1>4. CASE StartPull
  <2>1. lineShare.emitted = <<>> /\ ~lineShare.complete
    BY <1>4 DEF StartPull
  <2>2. QED
    BY <1>1, <1>4, <2>1, StartPullMoves, ConnectedMoves, Shares
<1>5. CASE TakeLine
  BY <1>1, <1>5, TakeLineMoves, Shares DEF LineTypes
<1>6. CASE Pushed
  BY <1>1, <1>6, PushedMoves, Shares DEF LineTypes
<1>7. CASE EndPull
  <2>1. UNCHANGED <<lines, lineShare, subscribed, meta>>
    BY <1>7 DEF EndPull, lineVars
  <2>2. pulling.end # "no" /\ pulling'.pc = "done" /\ pulling'.end = pulling.end
    BY <1>7, EndPullMoves
  <2>3. QED
    BY <2>1, <2>2
<1>8. CASE MetaSubscribes
  <2>1. /\ UNCHANGED pulling /\ Connected("meta") /\ meta.state = "off"
        /\ meta'.state = (IF lineShare.complete THEN "complete" ELSE "on")
        /\ meta'.got = (\E i \in DOMAIN lineShare.emitted : lineShare.emitted[i] = Metadata)
    BY <1>8, MetaSubscribesMoves
  <2>2. lineShare.emitted = <<>> => ~meta'.got
    BY <2>1
  <2>3. lineShare.loop = 0 => lineShare.complete = FALSE
    BY Shares
  <2>4. lines'.pos = lines.pos /\ lines'.finished = lines.finished
    BY <1>1, <2>1, ConnectedMoves
  <2>5. CASE lineShare.loop # 0
    <3>1. /\ lineShare' = lineShare
          /\ subscribed' = IF lineShare.complete THEN subscribed ELSE subscribed \union {"meta"}
      BY <1>1, <2>1, <2>5, ConnectedMoves
    <3>2. QED
      BY <2>1, <2>2, <2>4, <2>5, <3>1
  <2>6. CASE lineShare.loop = 0
    <3>1. PICK loop \in Nat : loop # 0 /\ lineShare' = NewShare(loop)
      BY <1>1, <2>1, <2>6, ConnectedMoves
    <3>2. lineShare'.loop # 0 /\ lineShare'.emitted = <<>> /\ ~lineShare'.complete
      BY <3>1, Shares
    <3>3. subscribed' = subscribed \union {"meta"}
      BY <1>1, <2>1, <2>6, ConnectedMoves
    <3>4. QED
      BY <2>1, <2>2, <2>3, <2>4, <2>6, <3>2, <3>3
  <2>7. QED
    BY <2>5, <2>6
<1>9. CASE MetaLeaves
  BY <1>1, <1>9, MetaLeavesMoves, Shares
<1>10. QED
  <2>1. ASSUME ReadBody \/ Drain \/ Break \/ Reading \/ \E g \in DOMAIN gens : Generate(g) \/ Return(g)
        PROVE  UNCHANGED <<lineVars, pulling>>
    BY <2>1 DEF ReadBody, Drain, Break, Reading, Read, Leave, Generate, Return
  <2>2. QED
    BY <1>2, <1>3, <1>4, <1>5, <1>6, <1>7, <1>8, <1>9, <2>1 DEF StreamNext, Working

LEMMA PartsKept ==
    ASSUME StreamTypes, PullSound, NEW q, AnswerOf(q), PartsSound(q), StreamNext
    PROVE  PartsSound(q)'
<1> DEFINE m == AskedUpTo(q, lines.pos)
           e == msgShare.emitted
           v == pulling.values
<1>1. /\ q \in Seq(StoredMessage) /\ InOrder(q) /\ Len(q) \in Nat /\ answer \in Seq(AnyLine)
      /\ lines.pos \in Nat /\ m \in 0 .. Len(q) /\ m \in Nat
      /\ e \in Seq(StoredMessage) /\ buffer \in Seq(StoredMessage) /\ v \in Seq(StoredMessage)
      /\ LineTypes /\ BufferTypes
  BY DEF StreamTypes, LineTypes, LinesType, BufferTypes, ReadTypes, ShareOf, PullType, AnswerOf, AskedUpTo
<1>2. Parts(e, buffer, v, q, m)
  BY DEF PartsSound
<1>3. ASSUME v' = v, msgShare'.emitted \in {e, <<>>}, buffer' \in {buffer, <<>>},
             lines'.pos \in {lines.pos, lines.pos + 1}
      PROVE  PartsSound(q)'
  <2>1. m' \in Nat /\ m <= m'
    BY <1>1, <1>3 DEF AskedUpTo
  <2>2. Parts(msgShare'.emitted, buffer', v', q, m')
    <3>1. PICK f \in {e, <<>>}, c \in {buffer, <<>>} : f = msgShare'.emitted /\ c = buffer'
      BY <1>3
    <3>2. PICK k \in Nat : k = m' /\ m <= k
      BY <2>1
    <3>3. Parts(f, c, v, q, k)
      BY ONLY <1>1, <1>2, <3>1, <3>2, PartsShrink
    <3>4. QED
      BY <1>3, <3>1, <3>2, <3>3
  <2>3. QED
    BY <2>2 DEF PartsSound
<1>4. CASE Serve
  <2>1. PICK loop, current : /\ loop = Head(lines.asks)
                             /\ current = (loop # 0 /\ loop = lineShare.loop /\ ~lineShare.complete)
    OBVIOUS
  <2>2. UNCHANGED <<buffer, msgShare>> /\ pulling.pc # "idle"
    BY <1>4 DEF Serve, bufferVars, readVars
  <2>3. CASE EndLines(Outcome) /\ lines'.pos = lines.pos
    <3>1. Outcome \in {"complete", "error"}
      BY DEF Outcome
    <3>2. v' = v
      BY <1>1, <2>3, <3>1, EndLinesMoves
    <3>3. QED
      BY <1>3, <2>2, <2>3, <3>2
  <2>4. CASE UNCHANGED <<pulling, meta, subscribed, lineShare>> /\ lines'.pos \in {lines.pos, lines.pos + 1}
    BY <1>3, <2>2, <2>4
  <2>5. CASE /\ lines.pos < Len(answer) /\ Emit(answer[lines.pos + 1]) /\ lines'.pos = lines.pos + 1
             /\ answer[lines.pos + 1] \in AnyLine
    <3>1. PICK line \in AnyLine : line = answer[lines.pos + 1]
      BY <2>5
    <3>2. v' = IF "pull" \in subscribed /\ IsMessage(line) THEN Append(v, line.message) ELSE v
      BY <1>1, <2>5, <3>1, EmitMoves
    <3>3. CASE "pull" \in subscribed /\ IsMessage(line)
      <4>1. lines.pos < Len(q)
        <5>1. SUFFICES ASSUME lines.pos >= Len(q) PROVE line \in {Junk, Metadata}
          BY <1>1, <3>3 DEF IsMessage, Junk, Metadata
        <5>2. lines.pos + 1 = Len(q) + 1 \/ (lines.pos + 1 = Len(q) + 2 /\ Len(answer) = Len(q) + 2)
          BY <1>1, <2>5, <5>1 DEF AnswerOf
        <5>3. QED
          BY <3>1, <5>2 DEF AnswerOf
      <4>2. line.message = q[lines.pos + 1]
        <5>1. lines.pos + 1 \in 1 .. Len(q)
          BY <1>1, <4>1
        <5>2. line = Line(q[lines.pos + 1])
          BY <3>1, <5>1 DEF AnswerOf
        <5>3. QED
          BY <5>2 DEF Line
      <4>3. m = lines.pos /\ m' = m + 1
        BY <1>1, <2>5, <4>1 DEF AskedUpTo
      <4>4. Parts(e, buffer, Append(v, q[m + 1]), q, m + 1)
        <5>1. m < Len(q)
          BY <4>1, <4>3
        <5>2. QED
          BY ONLY <1>1, <1>2, <5>1, PartsLine
      <4>5. v' = Append(v, q[m + 1])
        BY <3>2, <3>3, <4>2, <4>3
      <4>6. Parts(e', buffer', v', q, m')
        BY <2>2, <4>3, <4>4, <4>5
      <4>7. QED
        BY <4>6 DEF PartsSound
    <3>4. CASE ~("pull" \in subscribed /\ IsMessage(line))
      BY <1>3, <2>2, <2>5, <3>2, <3>4
    <3>5. QED
      BY <3>3, <3>4
  <2>6. QED
    BY <1>1, <1>4, <2>1, <2>3, <2>4, <2>5, ServeMoves
<1>5. CASE StartPull
  <2>1. lineShare.emitted = <<>> /\ ~lineShare.complete /\ pulling.values = <<>>
    BY <1>5 DEF StartPull, PullSound
  <2>2. pulling'.values = <<>> /\ Connected("pull") /\ UNCHANGED <<buffer, msgShare>>
    BY <1>5, <2>1, StartPullMoves DEF bufferVars, readVars
  <2>3. lines'.pos = lines.pos
    BY <1>1, <2>2, ConnectedMoves
  <2>4. QED
    BY <1>3, <2>1, <2>2, <2>3
<1>6. CASE TakeLine
  <2>1. UNCHANGED <<lines, msgShare>> /\ v # <<>>
    BY <1>6, TakeLineMoves DEF readVars
  <2>2. CASE /\ Push(Head(v), "pull") /\ Head(v) \in StoredMessage /\ v' = Tail(v)
    <3>1. buffer' = Append(buffer, Head(v))
      BY <1>1, <2>2, PushMoves
    <3>2. Parts(e, Append(buffer, Head(v)), Tail(v), q, m)
      BY ONLY <1>1, <1>2, <2>1, PartsPush
    <3>3. Parts(e', buffer', v', q, m')
      BY <2>1, <2>2, <3>1, <3>2
    <3>4. QED
      BY <3>3 DEF PartsSound
  <2>3. CASE EndWrite(None) /\ v' = v
    <3>1. buffer' = buffer
      BY <2>3 DEF EndWrite
    <3>2. QED
      BY <1>3, <2>1, <2>3, <3>1
  <2>4. QED
    BY <1>6, <2>2, <2>3, TakeLineMoves
<1>7. CASE Pushed
  <2>1. UNCHANGED <<lines, msgShare>> /\ v' = v
    BY <1>7, PushedMoves DEF readVars
  <2>2. buffer' = buffer
    BY <1>7, PushedMoves DEF EndWrite, bufferVars
  <2>3. QED
    BY <1>3, <2>1, <2>2
<1>8. CASE EndPull
  <2>1. UNCHANGED <<lines, msgShare>> /\ v' = v /\ buffer' = buffer
    BY <1>8, EndPullMoves DEF readVars, lineVars
  <2>2. QED
    BY <1>3, <2>1
<1>9. CASE MetaSubscribes
  <2>1. UNCHANGED <<msgShare, pulling, buffer>> /\ Connected("meta")
    BY <1>9 DEF MetaSubscribes, readVars, bufferVars
  <2>2. lines'.pos = lines.pos
    BY <1>1, <2>1, ConnectedMoves
  <2>3. QED
    BY <1>3, <2>1, <2>2
<1>10. CASE MetaLeaves
  <2>1. UNCHANGED <<msgShare, pulling, buffer, lines>>
    BY <1>10 DEF MetaLeaves, readVars, bufferVars
  <2>2. QED
    BY <1>3, <2>1
<1>11. CASE ReadBody \/ Drain \/ Break
  <2>1. UNCHANGED <<msgShare, pulling, buffer, lines>>
    BY <1>11 DEF ReadBody, Drain, Break, readVars, bufferVars, lineVars
  <2>2. QED
    BY <1>3, <2>1
<1>12. ASSUME NEW r \in Reader, Read(r) \/ Leave(r) PROVE PartsSound(q)'
  <2>1. UNCHANGED <<pulling, buffer, lines>>
    BY <1>12 DEF Read, Leave, bufferVars, lineVars
  <2>2. msgShare' = msgShare \/ msgShare' = NoShare \/ msgShare' = NewShare(Len(gens) + 1)
    BY <1>12, ReadMoves, LeaveMoves
  <2>3. msgShare'.emitted \in {e, <<>>}
    BY <2>2, Shares
  <2>4. QED
    BY <1>3, <2>1, <2>3
<1>13. ASSUME NEW g \in DOMAIN gens, Generate(g) PROVE PartsSound(q)'
  <2>1. UNCHANGED <<pulling, lines>>
    BY <1>13, GenerateMoves DEF lineVars
  <2>2. CASE Shift
    <3>1. buffer # <<>> /\ buffer' = Tail(buffer)
      BY <1>1, <2>2, ShiftMoves
    <3>2. Parts(Append(e, Head(buffer)), Tail(buffer), v, q, m) /\ Parts(e, Tail(buffer), v, q, m)
      BY ONLY <1>1, <1>2, <3>1, PartsShift
    <3>3. msgShare'.emitted = Append(e, Head(buffer)) \/ msgShare'.emitted = e
      <4>1. ~AwaitItem(g) /\ ~Finish
        BY <2>2 DEF Shift, AwaitItem, Finish, HasItem, Exhausted
      <4>2. QED
        BY <1>13, <2>2, <4>1, GenerateMoves
    <3>4. Parts(e', buffer', v', q, m')
      BY <2>1, <3>1, <3>2, <3>3
    <3>5. QED
      BY <3>4 DEF PartsSound
  <2>3. CASE AwaitItem(g) /\ UNCHANGED readVars
    <3>1. UNCHANGED <<buffer, msgShare>>
      BY <2>3 DEF AwaitItem, readVars
    <3>2. QED
      BY <1>3, <2>1, <3>1
  <2>4. CASE Finish
    <3>1. buffer' = <<>>
      BY <1>1, <2>4, EndMoves
    <3>2. ~AwaitItem(g) /\ ~Shift
      BY <2>4 DEF Shift, AwaitItem, Finish, HasItem, Exhausted
    <3>3. msgShare'.emitted \in {e, <<>>}
      BY <1>13, <3>2, GenerateMoves, Shares
    <3>4. QED
      BY <1>3, <2>1, <3>1, <3>3
  <2>5. QED
    BY <1>13, <2>2, <2>3, <2>4, GenerateMoves
<1>14. ASSUME NEW g \in DOMAIN gens, Return(g) PROVE PartsSound(q)'
  <2>1. UNCHANGED <<pulling, lines, msgShare>> /\ buffer' = <<>>
    BY <1>1, <1>14, ReturnMoves, EndMoves DEF lineVars
  <2>2. QED
    BY <1>3, <2>1
<1>15. QED
  BY <1>4, <1>5, <1>6, <1>7, <1>8, <1>9, <1>10, <1>11, <1>12, <1>13, <1>14
     DEF StreamNext, Working, Reading

LEMMA ReadersKept ==
    ASSUME StreamTypes, NEW q \in Seq(StoredMessage), PartsSound(q), PartsSound(q)', ReadersSound(q),
           lines.pos \in Nat, lines'.pos \in Nat, StreamNext
    PROVE  ReadersSound(q)'
<1>1. /\ Len(q) \in Nat /\ AskedUpTo(q, lines.pos) \in 0 .. Len(q)
      /\ AskedUpTo(q, lines'.pos) \in 0 .. Len(q)
  BY DEF AskedUpTo
<1>2. Within(msgShare.emitted, q, 0, Len(q)) /\ Within(msgShare'.emitted, q, 0, Len(q))
  BY <1>1, PartsWithin DEF PartsSound
<1>3. CASE UNCHANGED <<msgShare, readers>>
  BY <1>3 DEF ReadersSound
<1>4. readers \in [Reader -> ReaderType] /\ msgShare \in ShareOf(StoredMessage) /\ BufferTypes
  BY DEF StreamTypes, ReadTypes
<1>5. ASSUME NEW r \in Reader, Read(r) PROVE ReadersSound(q)'
  <2>1. msgShare'.loop # 0 /\ (msgShare.complete => msgShare.loop # 0)
        /\ msgShare'.emitted = msgShare.emitted /\ msgShare'.complete = msgShare.complete
    <3>1. CASE msgShare.loop # 0
      BY <1>5, <3>1, ReadMoves
    <3>2. CASE msgShare.loop = 0
      <4>1. msgShare = NoShare
        BY <3>2 DEF ReadersSound
      <4>2. msgShare' = NewShare(Len(gens) + 1) /\ Len(gens) + 1 # 0
        <5>1. Len(gens) \in Nat
          BY DEF StreamTypes, ReadTypes
        <5>2. QED
          BY <1>5, <3>2, <5>1, ReadMoves
      <4>3. QED
        BY <4>1, <4>2, Shares
    <3>3. QED
      BY <3>1, <3>2
  <2>2. PICK one : one = [state |-> IF msgShare.complete THEN "complete" ELSE "reading",
                          got |-> msgShare.emitted]
    OBVIOUS
  <2>3. readers' = [readers EXCEPT ![r] = one]
    BY <1>5, <2>2, ReadMoves
  <2>4. /\ one.got = msgShare.emitted
        /\ one.state = "reading" => ~msgShare.complete
    BY <2>2
  <2>5. ASSUME NEW p \in Reader
        PROVE  /\ Within(readers'[p].got, q, 0, Len(q))
               /\ readers'[p].state = "reading" =>
                    readers'[p].got = msgShare'.emitted /\ msgShare'.loop # 0 /\ ~msgShare'.complete
    <3>1. CASE p = r
      <4>1. readers'[p] = one
        BY <1>4, <2>3, <3>1
      <4>2. QED
        BY <1>2, <2>1, <2>4, <4>1
    <3>2. CASE p # r
      <4>1. readers'[p] = readers[p]
        BY <1>4, <2>3, <3>2
      <4>2. QED
        BY <2>1, <4>1 DEF ReadersSound
    <3>3. QED
      BY <3>1, <3>2
  <2>6. QED
    BY <2>1, <2>5 DEF ReadersSound
<1>6. ASSUME NEW r \in Reader, Leave(r) PROVE ReadersSound(q)'
  <2>1. /\ readers'[r].state = "left" /\ readers'[r].got = readers[r].got
        /\ \A p \in Reader \ {r} : readers'[p] = readers[p]
        /\ msgShare' = IF \E p \in Reader \ {r} : readers[p].state = "reading" THEN msgShare ELSE NoShare
    BY <1>6, LeaveMoves
  <2>2. ASSUME NEW p \in Reader
        PROVE  /\ Within(readers'[p].got, q, 0, Len(q))
               /\ readers'[p].state = "reading" =>
                    readers'[p].got = msgShare'.emitted /\ msgShare'.loop # 0 /\ ~msgShare'.complete
    <3>1. CASE p = r
      BY <2>1, <3>1 DEF ReadersSound
    <3>2. CASE p # r
      <4>1. readers'[p] = readers[p]
        BY <2>1, <3>2
      <4>2. readers[p].state = "reading" => msgShare' = msgShare
        BY <2>1, <3>2
      <4>3. QED
        BY <4>1, <4>2 DEF ReadersSound
    <3>3. QED
      BY <3>1, <3>2
  <2>3. msgShare'.loop = 0 => msgShare' = NoShare
    BY <2>1 DEF ReadersSound
  <2>4. QED
    BY <2>2, <2>3 DEF ReadersSound
<1>7. ASSUME NEW g \in DOMAIN gens, Generate(g) PROVE ReadersSound(q)'
  <2>1. Current(g) => msgShare.loop # 0 /\ ~msgShare.complete
    BY <1>7, GenerateMoves DEF Current
  <2>2. CASE UNCHANGED <<readers, msgShare>>
    BY <1>3, <2>2
  <2>3. CASE /\ Current(g)
             /\ msgShare'.loop = msgShare.loop /\ msgShare'.complete = msgShare.complete
             /\ msgShare'.emitted = Append(msgShare.emitted, Head(buffer))
             /\ \A r \in Reader :
                      IF readers[r].state = "reading"
                      THEN /\ readers'[r].state = "reading"
                           /\ readers'[r].got = Append(readers[r].got, Head(buffer))
                      ELSE readers'[r] = readers[r]
    <3>1. ASSUME NEW p \in Reader
          PROVE  /\ Within(readers'[p].got, q, 0, Len(q))
                 /\ readers'[p].state = "reading" =>
                      readers'[p].got = msgShare'.emitted /\ msgShare'.loop # 0 /\ ~msgShare'.complete
      BY <1>2, <2>1, <2>3 DEF ReadersSound
    <3>2. QED
      BY <2>1, <2>3, <3>1 DEF ReadersSound
  <2>4. CASE /\ Current(g)
             /\ error # None => msgShare' = NoShare
             /\ error = None => msgShare'.loop = msgShare.loop
             /\ \A r \in Reader :
                      IF readers[r].state = "reading"
                      THEN /\ readers'[r].state = IF error = None THEN "complete" ELSE "error"
                           /\ readers'[r].got = readers[r].got
                      ELSE readers'[r] = readers[r]
    <3>1. ASSUME NEW p \in Reader
          PROVE  Within(readers'[p].got, q, 0, Len(q)) /\ readers'[p].state # "reading"
      BY <2>4 DEF ReadersSound
    <3>2. msgShare'.loop = 0 => msgShare' = NoShare
      BY <2>1, <2>4
    <3>3. QED
      BY <3>1, <3>2 DEF ReadersSound
  <2>5. CASE UNCHANGED readVars
    BY <1>3, <2>5 DEF readVars
  <2>6. QED
    BY <1>7, <2>2, <2>3, <2>4, <2>5, GenerateMoves
<1>8. ASSUME NEW g \in DOMAIN gens, Return(g) PROVE ReadersSound(q)'
  BY <1>3, <1>8, ReturnMoves
<1>9. ASSUME ReadBody \/ Drain \/ Break \/ Serve \/ StartPull \/ TakeLine \/ Pushed \/ EndPull
             \/ MetaSubscribes \/ MetaLeaves
      PROVE  ReadersSound(q)'
  <2>1. UNCHANGED readVars
    BY <1>9 DEF ReadBody, Drain, Break, Serve, StartPull, TakeLine, Pushed, EndPull, MetaSubscribes,
                MetaLeaves
  <2>2. QED
    BY <1>3, <2>1 DEF readVars
<1>10. QED
  BY <1>5, <1>6, <1>7, <1>8, <1>9 DEF StreamNext, Working, Reading

-------------------------------------------------------------------------------
(* As long as nobody has left: no message is missing.                      *)
CountAt(e, b, v, q) ==
    /\ Len(e) + Len(b) + Len(v) <= Len(q)
    /\ \A i \in 1 .. Len(e) : e[i] = q[i]
    /\ \A i \in 1 .. Len(b) : b[i] = q[Len(e) + i]
    /\ \A i \in 1 .. Len(v) : v[i] = q[Len(e) + Len(b) + i]

LEMMA CountShift ==
    ASSUME NEW q \in Seq(StoredMessage), NEW e \in Seq(StoredMessage), NEW b \in Seq(StoredMessage),
           NEW v \in Seq(StoredMessage), b # <<>>, CountAt(e, b, v, q)
    PROVE  /\ CountAt(Append(e, Head(b)), Tail(b), v, q)
           /\ Len(Append(e, Head(b))) + Len(Tail(b)) = Len(e) + Len(b)
<1>1. PICK m \in Nat, n \in Nat, l \in Nat : m = Len(e) /\ n = Len(b) /\ l = Len(v)
  OBVIOUS
<1>2. /\ n >= 1 /\ Head(b) = b[1] /\ Head(b) \in StoredMessage
      /\ Len(Tail(b)) = n - 1 /\ \A i \in 1 .. n - 1 : Tail(b)[i] = b[i + 1]
  BY <1>1, FirstTaken
<1>3. PICK f, c : f = Append(e, Head(b)) /\ c = Tail(b)
  OBVIOUS
<1>4. Len(f) = m + 1 /\ f[m + 1] = b[1] /\ \A i \in 1 .. m : f[i] = e[i]
  BY <1>1, <1>2, <1>3, Appended
<1>5. Len(c) = n - 1 /\ \A i \in 1 .. n - 1 : c[i] = b[i + 1]
  BY <1>2, <1>3
<1>6. /\ m + n + l <= Len(q) /\ \A i \in 1 .. m : e[i] = q[i]
      /\ \A i \in 1 .. n : b[i] = q[m + i]
      /\ \A i \in 1 .. l : v[i] = q[m + n + i]
  BY <1>1 DEF CountAt
<1>7. ASSUME NEW i \in 1 .. m + 1 PROVE f[i] = q[i]
  <2>1. CASE i = m + 1
    <3>1. 1 \in 1 .. n
      BY <1>2
    <3>2. b[1] = q[m + 1]
      BY <1>6, <3>1
    <3>3. QED
      BY <1>4, <2>1, <3>2
  <2>2. CASE i # m + 1
    <3>1. i \in 1 .. m
      BY <2>2
    <3>2. QED
      BY <1>4, <1>6, <3>1
  <2>3. QED
    BY <2>1, <2>2
<1>8. ASSUME NEW i \in 1 .. n - 1 PROVE c[i] = q[(m + 1) + i]
  <2>1. PICK j \in 1 .. n : j = i + 1
    OBVIOUS
  <2>2. c[i] = b[j]
    BY <1>5, <2>1
  <2>3. b[j] = q[m + j]
    BY <1>6
  <2>4. m + j = (m + 1) + i
    BY <2>1
  <2>5. QED
    BY ONLY <2>2, <2>3, <2>4
<1>9. ASSUME NEW i \in 1 .. l PROVE v[i] = q[(m + 1) + (n - 1) + i]
  <2>1. (m + 1) + (n - 1) + i = m + n + i
    OBVIOUS
  <2>2. v[i] = q[m + n + i]
    BY <1>6
  <2>3. QED
    BY ONLY <2>1, <2>2
<1>10. (m + 1) + (n - 1) + l <= Len(q) /\ (m + 1) + (n - 1) = m + n
  BY <1>6
<1>11. CountAt(f, c, v, q)
  BY <1>1, <1>4, <1>5, <1>7, <1>8, <1>9, <1>10 DEF CountAt
<1>12. QED
  BY ONLY <1>1, <1>3, <1>4, <1>5, <1>10, <1>11

LEMMA CountPush ==
    ASSUME NEW q \in Seq(StoredMessage), NEW e \in Seq(StoredMessage), NEW b \in Seq(StoredMessage),
           NEW v \in Seq(StoredMessage), v # <<>>, CountAt(e, b, v, q)
    PROVE  /\ CountAt(e, Append(b, Head(v)), Tail(v), q)
           /\ Len(Append(b, Head(v))) + Len(Tail(v)) = Len(b) + Len(v)
<1>1. PICK m \in Nat, n \in Nat, l \in Nat : m = Len(e) /\ n = Len(b) /\ l = Len(v)
  OBVIOUS
<1>2. /\ l >= 1 /\ Head(v) = v[1] /\ Head(v) \in StoredMessage
      /\ Len(Tail(v)) = l - 1 /\ \A i \in 1 .. l - 1 : Tail(v)[i] = v[i + 1]
  BY <1>1, FirstTaken
<1>3. PICK f, c : f = Append(b, Head(v)) /\ c = Tail(v)
  OBVIOUS
<1>4. Len(f) = n + 1 /\ f[n + 1] = v[1] /\ \A i \in 1 .. n : f[i] = b[i]
  BY <1>1, <1>2, <1>3, Appended
<1>5. Len(c) = l - 1 /\ \A i \in 1 .. l - 1 : c[i] = v[i + 1]
  BY <1>2, <1>3
<1>6. /\ m + n + l <= Len(q) /\ \A i \in 1 .. m : e[i] = q[i]
      /\ \A i \in 1 .. n : b[i] = q[m + i]
      /\ \A i \in 1 .. l : v[i] = q[m + n + i]
  BY <1>1 DEF CountAt
<1>7. ASSUME NEW i \in 1 .. n + 1 PROVE f[i] = q[m + i]
  <2>1. CASE i = n + 1
    <3>1. 1 \in 1 .. l
      BY <1>2
    <3>2. v[1] = q[m + n + 1]
      BY <1>6, <3>1
    <3>3. m + n + 1 = m + i
      BY <2>1
    <3>4. QED
      BY ONLY <1>4, <2>1, <3>2, <3>3
  <2>2. CASE i # n + 1
    <3>1. i \in 1 .. n
      BY <2>2
    <3>2. QED
      BY <1>4, <1>6, <3>1
  <2>3. QED
    BY <2>1, <2>2
<1>8. ASSUME NEW i \in 1 .. l - 1 PROVE c[i] = q[m + (n + 1) + i]
  <2>1. PICK j \in 1 .. l : j = i + 1
    OBVIOUS
  <2>2. c[i] = v[j]
    BY <1>5, <2>1
  <2>3. v[j] = q[m + n + j]
    BY <1>6
  <2>4. m + n + j = m + (n + 1) + i
    BY <2>1
  <2>5. QED
    BY ONLY <2>2, <2>3, <2>4
<1>9. m + (n + 1) + (l - 1) <= Len(q) /\ (n + 1) + (l - 1) = n + l
  BY <1>6
<1>10. CountAt(e, f, c, q)
  BY <1>1, <1>4, <1>5, <1>6, <1>7, <1>8, <1>9 DEF CountAt
<1>11. QED
  BY ONLY <1>1, <1>3, <1>4, <1>5, <1>9, <1>10

LEMMA CountLine ==
    ASSUME NEW q \in Seq(StoredMessage), NEW e \in Seq(StoredMessage), NEW b \in Seq(StoredMessage),
           NEW v \in Seq(StoredMessage), CountAt(e, b, v, q),
           NEW k \in 1 .. Len(q), Len(e) + Len(b) + Len(v) = k - 1
    PROVE  CountAt(e, b, Append(v, q[k]), q) /\ Len(Append(v, q[k])) = Len(v) + 1
<1>1. PICK m \in Nat, n \in Nat, l \in Nat : m = Len(e) /\ n = Len(b) /\ l = Len(v)
  OBVIOUS
<1>2. PICK w : w = Append(v, q[k])
  OBVIOUS
<1>3. q[k] \in StoredMessage
  OBVIOUS
<1>4. Len(w) = l + 1 /\ w[l + 1] = q[k] /\ \A i \in 1 .. l : w[i] = v[i]
  BY <1>1, <1>2, <1>3, Appended
<1>5. /\ m + n + l = k - 1 /\ \A i \in 1 .. m : e[i] = q[i]
      /\ \A i \in 1 .. n : b[i] = q[m + i]
      /\ \A i \in 1 .. l : v[i] = q[m + n + i]
  BY <1>1 DEF CountAt
<1>6. ASSUME NEW i \in 1 .. l + 1 PROVE w[i] = q[m + n + i]
  <2>1. CASE i = l + 1
    <3>1. m + n + i = k
      BY <1>5, <2>1
    <3>2. QED
      BY ONLY <1>4, <2>1, <3>1
  <2>2. CASE i # l + 1
    <3>1. i \in 1 .. l
      BY <2>2
    <3>2. QED
      BY <1>4, <1>5, <3>1
  <2>3. QED
    BY <2>1, <2>2
<1>7. m + n + (l + 1) <= Len(q)
  BY <1>5
<1>8. CountAt(e, b, w, q)
  BY <1>1, <1>4, <1>5, <1>6, <1>7 DEF CountAt
<1>9. QED
  BY <1>1, <1>2, <1>4, <1>8

LEMMA CountWhole ==
    ASSUME NEW q \in Seq(StoredMessage), NEW e \in Seq(StoredMessage), CountAt(e, <<>>, <<>>, q),
           Len(e) + Len(<<>>) + Len(<<>>) = Len(q)
    PROVE  e = q
<1>1. Len(e) = Len(q) /\ \A i \in 1 .. Len(e) : e[i] = q[i]
  BY DEF CountAt
<1>2. QED
  BY <1>1, SeqEqual

-------------------------------------------------------------------------------
(* A query that asks nothing of a node.                                    *)
NothingAsked ==
    /\ pulling.pc = "none" /\ pulling.end = "no" /\ lines.asks = <<>>
    /\ buffer = <<>> /\ meta.state = "off"
    /\ msgShare.emitted = <<>> /\ ~msgShare.complete
    /\ ~readGate.locked /\ ~writeGate.locked
    /\ \A r \in Reader : readers[r].state \in {"off", "reading", "left"} /\ readers[r].got = <<>>
    /\ \A g \in 1 .. Len(gens) : gens[g] = "asked"

LEMMA NothingKept ==
    ASSUME StreamTypes, ~Sent, NothingAsked, StreamNext
    PROVE  NothingAsked'
<1> USE DEF NothingAsked
<1>1. BufferTypes /\ readers \in [Reader -> ReaderType]
  BY DEF StreamTypes, ReadTypes
<1>2. CASE UNCHANGED <<pulling, lines, buffer, meta, msgShare, readGate, writeGate, readers, gens>>
  BY <1>2
<1>3. ~Serve /\ ~StartPull /\ ~TakeLine /\ ~Pushed /\ ~EndPull /\ ~MetaSubscribes /\ ~MetaLeaves
  BY DEF Serve, StartPull, TakeLine, Pushed, EndPull, MetaSubscribes, MetaLeaves
<1>4. CASE ReadBody \/ Drain \/ Break
  BY <1>2, <1>4 DEF ReadBody, Drain, Break, lineVars, bufferVars, readVars
<1>5. ASSUME NEW r \in Reader, Read(r) PROVE NothingAsked'
  <2>1. UNCHANGED <<pulling, lines, buffer, meta, readGate, writeGate>>
    BY <1>5 DEF Read, lineVars, bufferVars
  <2>2. msgShare' = msgShare \/ msgShare' = NewShare(Len(gens) + 1)
    BY <1>5, ReadMoves
  <2>3. msgShare'.emitted = <<>> /\ ~msgShare'.complete
    BY <2>2, Shares
  <2>4. readers' = [readers EXCEPT ![r] = [state |-> "reading", got |-> <<>>]]
    BY <1>5, ReadMoves
  <2>5. \A p \in Reader : readers'[p].state \in {"off", "reading", "left"} /\ readers'[p].got = <<>>
    BY <1>1, <2>4
  <2>6. \A g \in 1 .. Len(gens') : gens'[g] = "asked"
    <3>1. PICK n \in Nat : n = Len(gens)
      BY DEF StreamTypes, ReadTypes
    <3>2. "asked" \in GenState /\ gens \in Seq(GenState)
      BY DEF GenState, StreamTypes, ReadTypes
    <3>3. gens' = gens \/ gens' = Append(gens, "asked")
      BY <1>5, ReadMoves
    <3>4. /\ Len(Append(gens, "asked")) = n + 1 /\ Append(gens, "asked")[n + 1] = "asked"
          /\ \A g \in 1 .. n : Append(gens, "asked")[g] = gens[g]
      BY ONLY <3>1, <3>2, Appended
    <3>5. CASE gens' = gens
      BY <3>5
    <3>6. CASE gens' = Append(gens, "asked")
      <4>1. TAKE g \in 1 .. Len(gens')
      <4>2. g \in 1 .. n \/ g = n + 1
        BY <3>4, <3>6
      <4>3. QED
        BY <3>1, <3>4, <3>6, <4>2
    <3>7. QED
      BY <3>3, <3>5, <3>6
  <2>7. QED
    BY <2>1, <2>3, <2>5, <2>6
<1>6. ASSUME NEW r \in Reader, Leave(r) PROVE NothingAsked'
  <2>1. UNCHANGED <<pulling, lines, buffer, meta, readGate, writeGate, gens>>
    BY <1>6 DEF Leave, lineVars, bufferVars
  <2>2. msgShare' = msgShare \/ msgShare' = NoShare
    BY <1>6, LeaveMoves
  <2>3. msgShare'.emitted = <<>> /\ ~msgShare'.complete
    BY <2>2, Shares
  <2>4. \A p \in Reader : readers'[p].state \in {"off", "reading", "left"} /\ readers'[p].got = <<>>
    <3>1. /\ readers'[r].state = "left" /\ readers'[r].got = readers[r].got
          /\ \A p \in Reader \ {r} : readers'[p] = readers[p]
      BY <1>6, LeaveMoves
    <3>2. TAKE p \in Reader
    <3>3. CASE p = r
      BY <3>1, <3>3
    <3>4. CASE p # r
      BY <3>1, <3>4
    <3>5. QED
      BY <3>3, <3>4
  <2>5. QED
    BY <2>1, <2>3, <2>4
<1>7. ASSUME NEW g \in DOMAIN gens, Generate(g) PROVE NothingAsked'
  <2>1. ~Shift /\ ~Finish
    BY DEF Shift, HasItem, Finish, Exhausted
  <2>2. AwaitItem(g) /\ UNCHANGED <<readVars, lineVars, pulling>> /\ g \in Nat
    <3>1. g \in 1 .. Len(gens) /\ Len(gens) \in Nat
      BY <1>7, GenerateMoves DEF StreamTypes, ReadTypes
    <3>2. QED
      BY <1>7, <2>1, <3>1, GenerateMoves
  <2>3. buffer' = buffer /\ writeGate' = writeGate /\ readGate'.locked = readGate.locked
    BY <1>1, <2>2, AwaitMoves
  <2>4. QED
    BY <2>2, <2>3 DEF readVars, lineVars
<1>8. ASSUME NEW g \in DOMAIN gens, Return(g) PROVE FALSE
  <2>1. g \in 1 .. Len(gens) /\ gens[g] = "left"
    BY <1>8, ReturnMoves
  <2>2. QED
    BY <2>1
<1>9. QED
  BY <1>3, <1>4, <1>5, <1>6, <1>7, <1>8 DEF StreamNext, Working, Reading

-------------------------------------------------------------------------------
(* Calm: what holds while nobody has left or failed.                       *)
GensCalm(q) ==
    /\ msgShare.loop = 0 => /\ gens = <<>> /\ msgShare = NoShare
                            /\ \A r \in Reader : readers[r].state = "off"
    /\ msgShare.loop # 0 => /\ msgShare.loop = 1 /\ Len(gens) = 1
                            /\ gens[1] = IF msgShare.complete THEN "ended" ELSE "asked"
                            /\ msgShare.complete \/ \E r \in Reader : readers[r].state = "reading"
    /\ msgShare.complete => pulling.pc = "done" /\ msgShare.emitted = q
    /\ \A r \in Reader : readers[r].state = "complete" => readers[r].got = q

GatesCalm ==
    /\ pulling.pc # "done" => ~writeGate.locked /\ error = None
    /\ pulling.pc = "done" => pulling.values = <<>> /\ pulling.end # "no"
    /\ pulling.pc = "done" /\ ~msgShare.complete =>
           error = IF pulling.end = "complete" THEN None ELSE pulling.end
    /\ ~msgShare.complete => ~readGate.locked

OnTheWay == Len(msgShare.emitted) + Len(buffer) + Len(pulling.values)

CountCalm(q) ==
    /\ CountAt(msgShare.emitted, buffer, pulling.values, q)
    /\ pulling.end = "no" => OnTheWay = AskedUpTo(q, lines.pos)
    /\ pulling.end = "complete" => OnTheWay = Len(q)

GotMetadata == \E i \in DOMAIN lineShare.emitted : lineShare.emitted[i] = Metadata

LinesCalm ==
    /\ pulling.pc = "idle" => lines.asks = IF lineShare.loop = 0 THEN <<>> ELSE <<lineShare.loop>>
    /\ pulling.end = "no" /\ pulling.pc # "idle" =>
         /\ "pull" \in subscribed /\ lineShare.loop # 0 /\ ~lineShare.complete
         /\ lines.asks = <<lineShare.loop>> /\ ~lines.finished
         /\ lines.pos <= Len(answer)
         /\ Len(lineShare.emitted) = lines.pos
         /\ \A i \in 1 .. lines.pos : lineShare.emitted[i] = answer[i]
    /\ pulling.end = "complete" => lineShare.loop # 0 /\ lineShare.complete /\ GotMetadata
    /\ pulling.end \in {"no", "complete"} =>
         /\ "meta" \in subscribed => (meta.got <=> GotMetadata)
         /\ meta.state = "complete" => meta.got

Calm(q) == GensCalm(q) /\ GatesCalm /\ CountCalm(q) /\ LinesCalm

(* Whoever has left or failed stays so.                                    *)
LEMMA UndisturbedBefore ==
    ASSUME StreamTypes, PullSound, answer \in Seq(AnyLine), StreamNext, Undisturbed'
    PROVE  Undisturbed
<1>1. /\ LineTypes /\ readers \in [Reader -> ReaderType]
  BY DEF StreamTypes, ReadTypes
<1>2. \A r \in Reader : readers[r].state \in {"left", "error"} => readers'[r].state = readers[r].state
  <2>1. TAKE r \in Reader
  <2>2. SUFFICES ASSUME readers[r].state \in {"left", "error"}, readers'[r] # readers[r] PROVE FALSE
    OBVIOUS
  <2>3. ASSUME NEW p \in Reader, Read(p) PROVE FALSE
    <3>1. p # r
      BY <2>2, <2>3, ReadMoves
    <3>2. QED
      BY <1>1, <2>2, <2>3, <3>1, ReadMoves
  <2>4. ASSUME NEW p \in Reader, Leave(p) PROVE FALSE
    BY <2>2, <2>4, LeaveMoves
  <2>5. ASSUME NEW g \in DOMAIN gens, Generate(g) PROVE FALSE
    BY <2>2, <2>5, GenerateMoves DEF readVars
  <2>6. readers' # readers
    BY <2>2
  <2>7. ASSUME NEW g \in DOMAIN gens, Return(g) PROVE FALSE
    BY <2>6, <2>7 DEF Return
  <2>8. ASSUME ReadBody \/ Drain \/ Break \/ Serve \/ StartPull \/ TakeLine \/ Pushed \/ EndPull
               \/ MetaSubscribes \/ MetaLeaves
        PROVE  FALSE
    <3>1. UNCHANGED readVars
      BY <2>8 DEF ReadBody, Drain, Break, Serve, StartPull, TakeLine, Pushed, EndPull, MetaSubscribes,
                  MetaLeaves
    <3>2. QED
      BY <2>6, <3>1 DEF readVars
  <2>9. QED
    BY <2>3, <2>4, <2>5, <2>7, <2>8 DEF StreamNext, Working, Reading
<1>3. meta.state \in {"left", "error"} => meta'.state = meta.state
  <2>1. SUFFICES ASSUME meta.state \in {"left", "error"} PROVE meta'.state = meta.state
    OBVIOUS
  <2>2. "meta" \notin subscribed
    BY <2>1 DEF PullSound
  <2>3. CASE Serve
    <3>1. Outcome \in {"complete", "error"}
      BY DEF Outcome
    <3>2. PICK loop, current : /\ loop = Head(lines.asks)
                               /\ current = (loop # 0 /\ loop = lineShare.loop /\ ~lineShare.complete)
      OBVIOUS
    <3>3. ASSUME EndLines(Outcome) PROVE meta' = meta
      BY <2>2, <3>3 DEF EndLines
    <3>4. ASSUME Emit(answer[lines.pos + 1]) PROVE meta' = meta
      BY <2>2, <3>4 DEF Emit
    <3>5. QED
      BY <2>3, <3>2, <3>3, <3>4, ServeMoves
  <2>4. ~MetaSubscribes /\ ~MetaLeaves
    BY <2>1 DEF MetaSubscribes, MetaLeaves
  <2>5. ASSUME \/ ReadBody \/ Drain \/ Break \/ StartPull \/ TakeLine \/ Pushed \/ EndPull
               \/ Reading \/ \E g \in DOMAIN gens : Generate(g) \/ Return(g)
        PROVE  meta' = meta
    BY <2>5 DEF ReadBody, Drain, Break, StartPull, TakeLine, Pushed, EndPull, Reading, Read, Leave,
                Generate, Return, lineVars
  <2>6. QED
    BY <2>3, <2>4, <2>5 DEF StreamNext, Working
<1>4. QED
  BY <1>2, <1>3 DEF Undisturbed

LEMMA OneTurn ==
    ASSUME NEW x \in Nat
    PROVE  Head(<<x>>) = x /\ Append(<<>>, x) = <<x>> /\ Append(Tail(<<x>>), x) = <<x>>
<1>1. PICK s, none : s = <<x>> /\ none = <<>>
  OBVIOUS
<1>2. s \in Seq(Nat) /\ s # <<>> /\ Len(s) = 1 /\ s[1] = x
  BY <1>1
<1>3. none \in Seq(Nat) /\ Len(none) = 0
  BY <1>1
<1>4. Tail(s) \in Seq(Nat) /\ Len(Tail(s)) = 0 /\ Head(s) = x
  BY <1>2, FirstTaken
<1>5. Tail(s) = none
  <2>1. Tail(s) = <<>>
    BY <1>4, EmptySeq
  <2>2. QED
    BY <1>1, <2>1
<1>6. Append(none, x) = s
  <2>1. PICK t : t = Append(none, x)
    OBVIOUS
  <2>2. t \in Seq(Nat) /\ Len(t) = 1 /\ t[1] = x
    <3>1. t[Len(none) + 1] = x /\ Len(t) = Len(none) + 1 /\ t \in Seq(Nat)
      BY <1>3, <2>1, Appended
    <3>2. QED
      BY <1>3, <3>1
  <2>3. \A i \in 1 .. Len(t) : t[i] = s[i]
    BY <1>2, <2>2
  <2>4. QED
    BY ONLY <1>2, <2>1, <2>2, <2>3, SeqEqual
<1>7. QED
  BY <1>1, <1>4, <1>5, <1>6

(* The lines go on.                                                        *)
LEMMA ServeCalm ==
    ASSUME StreamTypes, PullSound, NEW q, AnswerOf(q), Calm(q), Serve, Undisturbed'
    PROVE  Calm(q)'
<1> DEFINE e == msgShare.emitted
           v == pulling.values
<1>1. /\ q \in Seq(StoredMessage) /\ Len(q) \in Nat /\ answer \in Seq(AnyLine) /\ Len(answer) \in Nat
      /\ lines.pos \in Nat /\ lines.asks \in Seq(Nat)
      /\ e \in Seq(StoredMessage) /\ buffer \in Seq(StoredMessage) /\ v \in Seq(StoredMessage)
      /\ LineTypes /\ lineShare.emitted \in Seq(AnyLine)
      /\ pulling.end \in {"no", "complete", "error", "invalid"}
  BY DEF StreamTypes, LineTypes, LinesType, BufferTypes, ReadTypes, ShareOf, PullType, AnswerOf
<1>2. PICK loop, current : /\ loop = Head(lines.asks)
                           /\ current = (loop # 0 /\ loop = lineShare.loop /\ ~lineShare.complete)
  OBVIOUS
<1>3. /\ lines.asks # <<>> /\ pulling.pc # "idle" /\ UNCHANGED <<sourceVars, bufferVars, readVars>>
      /\ answer' = answer
  BY <1>1, <1>2, ServeMoves DEF sourceVars
<1>4. UNCHANGED <<msgShare, gens, readers, buffer, writeGate, readGate, error>>
  BY <1>3 DEF readVars, bufferVars
<1>5. meta'.state # "error"
  BY DEF Undisturbed
<1>6. ASSUME pulling'.pc = pulling.pc, pulling.pc = "done" => v' = v /\ pulling'.end = pulling.end
      PROVE  GensCalm(q)' /\ GatesCalm'
  <2>1. GensCalm(q)'
    BY <1>4, <1>6 DEF Calm, GensCalm
  <2>2. GatesCalm'
    BY <1>4, <1>6 DEF Calm, GatesCalm
  <2>3. QED
    BY <2>1, <2>2
<1>7. CASE pulling.end # "no"
  <2>1. "pull" \notin subscribed
    BY <1>7 DEF PullSound
  <2>2. pulling' = pulling
    <3>1. ASSUME EndLines(Outcome) PROVE pulling' = pulling
      BY <2>1, <3>1 DEF EndLines
    <3>2. ASSUME Emit(answer[lines.pos + 1]) PROVE pulling' = pulling
      BY <2>1, <3>2 DEF Emit
    <3>3. QED
      BY <1>1, <1>2, <3>1, <3>2, ServeMoves
  <2>3. CountCalm(q)'
    BY <1>4, <1>7, <2>2 DEF Calm, CountCalm, OnTheWay
  <2>4. LinesCalm'
    <3>1. CASE pulling.end = "complete"
      <4>1. ~current
        BY <1>2, <3>1 DEF Calm, LinesCalm
      <4>2. UNCHANGED <<pulling, meta, subscribed, lineShare>>
        BY <1>1, <1>2, <4>1, ServeMoves
      <4>3. QED
        BY <1>3, <3>1, <4>2 DEF Calm, LinesCalm, GotMetadata
    <3>2. CASE pulling.end # "complete"
      BY <1>3, <1>7, <2>2, <3>2 DEF LinesCalm
    <3>3. QED
      BY <3>1, <3>2
  <2>5. QED
    BY <1>6, <2>2, <2>3, <2>4 DEF Calm
<1>8. CASE pulling.end = "no"
  <2>1. /\ "pull" \in subscribed /\ lineShare.loop # 0 /\ ~lineShare.complete
        /\ lines.asks = <<lineShare.loop>> /\ ~lines.finished
        /\ lines.pos <= Len(answer)
        /\ Len(lineShare.emitted) = lines.pos
        /\ \A i \in 1 .. lines.pos : lineShare.emitted[i] = answer[i]
        /\ "meta" \in subscribed => (meta.got <=> GotMetadata)
        /\ meta.state = "complete" => meta.got
    BY <1>3, <1>8 DEF Calm, LinesCalm
  <2>2. loop = lineShare.loop /\ current
    <3>1. lineShare.loop \in Nat
      BY <1>1 DEF LineTypes, ShareOf
    <3>2. Head(<<lineShare.loop>>) = lineShare.loop
      BY <3>1, OneTurn
    <3>3. loop = lineShare.loop
      BY <1>2, <2>1, <3>2
    <3>4. QED
      BY <1>2, <2>1, <3>3
  <2>3. pulling.pc # "done"
    BY <1>8 DEF Calm, GatesCalm
  <2>4. /\ CountAt(e, buffer, v, q) /\ OnTheWay = AskedUpTo(q, lines.pos)
    BY <1>8 DEF Calm, CountCalm
  <2>5. CASE EndLines(Outcome) /\ (lines.finished \/ loop = 0 \/ Failed \/ AllRead)
    <3>1. PICK how \in {"complete", "error"} : how = Outcome
      BY DEF Outcome
    <3>2. /\ subscribed' = {} /\ pulling'.pc = pulling.pc /\ v' = v /\ pulling'.end = how
          /\ meta'.state = (IF "meta" \in subscribed THEN how ELSE meta.state)
          /\ meta'.got = meta.got
          /\ how = "complete" => /\ lineShare'.complete
                                 /\ lineShare'.loop = lineShare.loop
                                 /\ lineShare'.emitted = lineShare.emitted
      BY <1>1, <2>1, <2>5, <3>1, EndLinesMoves
    <3>3. CASE how = "error"
      <4>1. CountCalm(q)'
        BY <1>4, <2>4, <3>2, <3>3 DEF CountCalm, OnTheWay
      <4>2. LinesCalm'
        BY <1>3, <3>2, <3>3 DEF LinesCalm
      <4>3. QED
        BY <1>6, <2>3, <3>2, <4>1, <4>2 DEF Calm
    <3>4. CASE how = "complete"
      <4>1. lines.pos = Len(answer)
        <5>1. ~Failed
          BY <2>1, <3>1, <3>4 DEF Outcome
        <5>2. AllRead
          BY <2>1, <2>2, <2>5, <5>1
        <5>3. QED
          BY <5>2 DEF AllRead
      <4>2. CountCalm(q)'
        <5>1. OnTheWay = Len(q)
          BY <1>1, <2>4, <4>1 DEF AnswerOf, AskedUpTo
        <5>2. OnTheWay' = OnTheWay
          BY <1>4, <3>2 DEF OnTheWay
        <5>3. QED
          BY <1>4, <2>4, <3>2, <3>4, <5>1, <5>2 DEF CountCalm
      <4>3. GotMetadata
        <5>1. PICK k \in 1 .. Len(answer) : k = Len(answer)
          BY <1>1 DEF AnswerOf
        <5>2. answer[k] = Metadata
          BY <1>1, <5>1 DEF AnswerOf
        <5>3. k \in DOMAIN lineShare.emitted /\ lineShare.emitted[k] = Metadata
          BY <1>1, <2>1, <4>1, <5>2
        <5>4. QED
          BY <5>3 DEF GotMetadata
      <4>4. GotMetadata'
        BY <3>2, <3>4, <4>3 DEF GotMetadata
      <4>5. meta'.state = "complete" => meta'.got
        BY <2>1, <3>2, <4>3
      <4>6. LinesCalm'
        BY <1>3, <2>1, <3>2, <3>4, <4>4, <4>5 DEF LinesCalm
      <4>7. QED
        BY <1>6, <2>3, <3>2, <4>2, <4>6 DEF Calm
    <3>5. QED
      BY <3>3, <3>4
  <2>6. CASE /\ lines.pos < Len(answer) /\ answer[lines.pos + 1] \in AnyLine
             /\ Emit(answer[lines.pos + 1])
             /\ lines'.pos = lines.pos + 1 /\ ~lines'.finished
             /\ answer[lines.pos + 1] # Junk => lines'.asks = Append(Tail(lines.asks), loop)
    <3>1. PICK line \in AnyLine : line = answer[lines.pos + 1]
      BY <2>6
    <3>2. /\ pulling'.pc = pulling.pc
          /\ pulling'.end = (IF line = Junk THEN "invalid" ELSE pulling.end)
          /\ v' = (IF IsMessage(line) THEN Append(v, line.message) ELSE v)
          /\ meta'.state = (IF "meta" \in subscribed /\ line = Junk THEN "error" ELSE meta.state)
          /\ line # Junk => meta'.got = (meta.got \/ ("meta" \in subscribed /\ line = Metadata))
          /\ subscribed' = (IF line = Junk THEN {} ELSE subscribed)
          /\ line # Junk => /\ lineShare'.loop = lineShare.loop
                            /\ lineShare'.complete = lineShare.complete
                            /\ lineShare'.emitted = Append(lineShare.emitted, line)
      BY <1>1, <2>1, <2>6, <3>1, EmitMoves
    <3>3. CASE line = Junk
      <4>1. ~IsMessage(line)
        BY <3>3 DEF IsMessage, Junk
      <4>2. CountCalm(q)'
        BY <1>4, <2>4, <3>2, <3>3, <4>1 DEF CountCalm, OnTheWay
      <4>3. LinesCalm'
        BY <1>3, <3>2, <3>3 DEF LinesCalm
      <4>4. QED
        BY <1>6, <2>3, <3>2, <4>2, <4>3 DEF Calm
    <3>4. CASE line # Junk
      <4>1. CountCalm(q)'
        <5>1. CASE lines.pos < Len(q)
          <6>1. PICK k \in 1 .. Len(q) : k = lines.pos + 1
            BY <1>1, <5>1
          <6>2. line = Line(q[k])
            BY <3>1, <6>1 DEF AnswerOf
          <6>3. IsMessage(line) /\ line.message = q[k]
            BY <6>2 DEF IsMessage, Line
          <6>4. v' = Append(v, q[k])
            BY <3>2, <6>3
          <6>5. Len(e) + Len(buffer) + Len(v) = k - 1
            <7>1. AskedUpTo(q, lines.pos) = k - 1
              BY <1>1, <5>1, <6>1 DEF AskedUpTo
            <7>2. QED
              BY <2>4, <7>1 DEF OnTheWay
          <6>6. Len(e) \in Nat /\ Len(buffer) \in Nat /\ Len(v) \in Nat
            BY <1>1, LenProperties
          <6>7. CountAt(e, buffer, Append(v, q[k]), q) /\ Len(Append(v, q[k])) = Len(v) + 1
            <7>1. PICK a \in Seq(StoredMessage), b \in Seq(StoredMessage), c \in Seq(StoredMessage) :
                    a = e /\ b = buffer /\ c = v
              BY <1>1
            <7>2. CountAt(a, b, c, q) /\ Len(a) + Len(b) + Len(c) = k - 1
              BY <2>4, <6>5, <7>1
            <7>3. CountAt(a, b, Append(c, q[k]), q) /\ Len(Append(c, q[k])) = Len(c) + 1
              <8>1. q \in Seq(StoredMessage) /\ k \in 1 .. Len(q)
                BY <1>1
              <8>2. QED
                BY ONLY a \in Seq(StoredMessage), b \in Seq(StoredMessage), c \in Seq(StoredMessage),
                        <7>2, <8>1, CountLine
            <7>4. QED
              BY <7>1, <7>3
          <6>8. OnTheWay' = k
            <7>1. OnTheWay' = Len(e) + Len(buffer) + Len(v')
              BY <1>4 DEF OnTheWay
            <7>2. Len(v') = Len(v) + 1
              BY <6>4, <6>7
            <7>3. QED
              <8>1. k \in Nat
                BY <1>1
              <8>2. PICK a \in Nat, b \in Nat, c \in Nat : a = Len(e) /\ b = Len(buffer) /\ c = Len(v)
                BY <6>6
              <8>3. a + b + c = k - 1
                BY ONLY <6>5, <8>2
              <8>4. OnTheWay' = a + b + (c + 1)
                BY ONLY <7>1, <7>2, <8>2
              <8>5. a + b + (c + 1) = k
                BY ONLY <8>1, <8>3, a \in Nat, b \in Nat, c \in Nat
              <8>6. QED
                BY ONLY <8>4, <8>5
          <6>9. AskedUpTo(q, lines'.pos) = k
            BY <1>1, <2>6, <6>1 DEF AskedUpTo
          <6>10. CountAt(e, buffer, v, q)'
            BY <1>4, <6>4, <6>7
          <6>11. QED
            BY <1>8, <3>2, <3>4, <6>8, <6>9, <6>10 DEF CountCalm
        <5>2. CASE ~(lines.pos < Len(q))
          <6>1. ~IsMessage(line)
            <7>1. lines.pos + 1 = Len(q) + 1 \/ (lines.pos + 1 = Len(q) + 2 /\ Len(answer) = Len(q) + 2)
              <8>1. lines.pos >= Len(q)
                BY <1>1, <5>2
              <8>2. Len(answer) \in {Len(q) + 1, Len(q) + 2}
                BY DEF AnswerOf
              <8>3. Len(q) \in Nat /\ lines.pos \in Nat /\ lines.pos < Len(answer)
                BY <1>1, <2>6
              <8>4. QED
                BY ONLY <8>1, <8>2, <8>3
            <7>2. line \in {Junk, Metadata}
              BY <3>1, <7>1 DEF AnswerOf
            <7>3. QED
              BY <7>2 DEF IsMessage, Junk, Metadata
          <6>2. AskedUpTo(q, lines'.pos) = AskedUpTo(q, lines.pos)
            BY <1>1, <2>6, <5>2 DEF AskedUpTo
          <6>3. OnTheWay' = OnTheWay /\ v' = v
            BY <1>4, <3>2, <6>1 DEF OnTheWay
          <6>4. QED
            BY <1>4, <1>8, <2>4, <3>2, <3>4, <6>2, <6>3 DEF CountCalm
        <5>3. QED
          BY <5>1, <5>2
      <4>2. /\ Len(lineShare'.emitted) = lines'.pos
            /\ \A i \in 1 .. lines'.pos : lineShare'.emitted[i] = answer[i]
        <5>1. PICK s : s = lineShare.emitted /\ s \in Seq(AnyLine)
          BY <1>1
        <5>2. PICK t : t = Append(s, line)
          OBVIOUS
        <5>3. PICK n \in Nat : n = lines.pos
          BY <1>1
        <5>4. /\ Len(t) = n + 1 /\ t[n + 1] = line /\ \A i \in 1 .. n : t[i] = s[i]
          <6>1. Len(s) = n
            BY <2>1, <5>1, <5>3
          <6>2. QED
            BY ONLY <5>1, <5>2, <6>1, line \in AnyLine, Appended
        <5>5. \A i \in 1 .. n : s[i] = answer[i]
          BY <2>1, <5>1, <5>3
        <5>6. ASSUME NEW i \in 1 .. n + 1 PROVE t[i] = answer[i]
          <6>1. CASE i = n + 1
            BY <3>1, <5>3, <5>4, <6>1
          <6>2. CASE i # n + 1
            <7>1. i \in 1 .. n
              BY <6>2
            <7>2. QED
              BY <5>4, <5>5, <7>1
          <6>3. QED
            BY <6>1, <6>2
        <5>7. lineShare'.emitted = t /\ lines'.pos = n + 1
          BY <2>6, <3>2, <3>4, <5>1, <5>2, <5>3
        <5>8. QED
          BY <5>4, <5>6, <5>7
      <4>3. "meta" \in subscribed => (meta'.got <=> GotMetadata')
        <5>1. PICK s \in Seq(AnyLine) : s = lineShare.emitted
          BY <1>1
        <5>2. PICK t \in Seq(AnyLine) : t = Append(s, line)
          BY Appended
        <5>3. /\ DOMAIN s = 1 .. Len(s) /\ DOMAIN t = 1 .. Len(s) + 1 /\ Len(s) \in Nat
              /\ t[Len(s) + 1] = line /\ \A i \in 1 .. Len(s) : t[i] = s[i]
          <6>1. Len(t) = Len(s) + 1 /\ t[Len(s) + 1] = line /\ \A i \in 1 .. Len(s) : t[i] = s[i]
            BY <5>2, Appended
          <6>2. QED
            BY <6>1
        <5>4. (\E i \in DOMAIN t : t[i] = Metadata) <=>
                ((\E i \in DOMAIN s : s[i] = Metadata) \/ line = Metadata)
          <6>1. ASSUME NEW i \in DOMAIN t, t[i] = Metadata, line # Metadata
                PROVE  \E j \in DOMAIN s : s[j] = Metadata
            <7>1. i \in 1 .. Len(s) + 1 /\ i # Len(s) + 1
              BY <5>3, <6>1
            <7>2. i \in 1 .. Len(s)
              BY <5>3, <7>1
            <7>3. QED
              BY <5>3, <6>1, <7>2
          <6>2. ASSUME NEW j \in DOMAIN s, s[j] = Metadata PROVE \E i \in DOMAIN t : t[i] = Metadata
            <7>1. j \in DOMAIN t /\ t[j] = Metadata
              BY <5>3, <6>2
            <7>2. QED
              BY <7>1
          <6>3. ASSUME line = Metadata PROVE \E i \in DOMAIN t : t[i] = Metadata
            <7>1. Len(s) + 1 \in DOMAIN t
              BY <5>3
            <7>2. QED
              BY <5>3, <6>3, <7>1
          <6>4. QED
            BY <6>1, <6>2, <6>3
        <5>5. GotMetadata' <=> (GotMetadata \/ line = Metadata)
          BY <3>2, <3>4, <5>1, <5>2, <5>4 DEF GotMetadata
        <5>6. QED
          BY <2>1, <3>2, <3>4, <5>5
      <4>4. lines'.asks = <<lineShare.loop>>
        <5>1. loop \in Nat
          BY <1>1, <2>2 DEF LineTypes, ShareOf
        <5>2. Append(Tail(<<loop>>), loop) = <<loop>>
          BY <5>1, OneTurn
        <5>3. lines'.asks = Append(Tail(lines.asks), loop)
          BY <2>6, <3>1, <3>4
        <5>4. QED
          BY <2>1, <2>2, <5>2, <5>3
      <4>5. lines'.pos <= Len(answer)
        BY <1>1, <2>6
      <4>6. meta'.state = "complete" => meta'.got
        BY <2>1, <3>2, <3>4
      <4>7. LinesCalm'
        <5>1. /\ "pull" \in subscribed' /\ lineShare'.loop # 0 /\ ~lineShare'.complete
              /\ lines'.asks = <<lineShare'.loop>> /\ ~lines'.finished
              /\ lines'.pos <= Len(answer') /\ Len(lineShare'.emitted) = lines'.pos
              /\ \A i \in 1 .. lines'.pos : lineShare'.emitted[i] = answer'[i]
          BY <1>3, <2>1, <2>6, <3>2, <3>4, <4>2, <4>4, <4>5
        <5>2. "meta" \in subscribed' => (meta'.got <=> GotMetadata')
          BY <3>2, <3>4, <4>3
        <5>3. pulling'.end = "no" /\ pulling'.pc # "idle"
          BY <1>3, <1>8, <3>2, <3>4
        <5>4. QED
          BY <4>6, <5>1, <5>2, <5>3 DEF LinesCalm
      <4>8. QED
        BY <1>6, <2>3, <3>2, <4>1, <4>7 DEF Calm
    <3>5. QED
      BY <3>3, <3>4
  <2>7. QED
    BY <1>1, <1>2, <2>2, <2>5, <2>6, ServeMoves
<1>9. QED
  BY <1>7, <1>8

(* pull starts, pushes and ends.                                           *)
LEMMA PullCalm ==
    ASSUME StreamTypes, PullSound, NEW q, AnswerOf(q), Calm(q),
           StartPull \/ TakeLine \/ Pushed \/ EndPull
    PROVE  Calm(q)'
<1> DEFINE e == msgShare.emitted
           v == pulling.values
<1>1. /\ q \in Seq(StoredMessage) /\ LineTypes /\ BufferTypes
      /\ e \in Seq(StoredMessage) /\ buffer \in Seq(StoredMessage) /\ v \in Seq(StoredMessage)
      /\ lines.pos \in Nat /\ Len(answer) \in Nat
  BY DEF StreamTypes, LineTypes, LinesType, BufferTypes, ReadTypes, ShareOf, PullType, AnswerOf
<1>2. UNCHANGED <<sourceVars, readVars>> /\ answer' = answer
  BY DEF StartPull, TakeLine, Pushed, EndPull, sourceVars
<1>3. UNCHANGED <<msgShare, gens, readers>>
  BY <1>2 DEF readVars
<1>4. pulling.pc # "done"
  BY DEF StartPull, TakeLine, Pushed, EndPull
<1>5. ~msgShare.complete /\ ~writeGate.locked /\ ~readGate.locked /\ error = None
  BY <1>4 DEF Calm, GensCalm, GatesCalm
<1>6. GensCalm(q)'
  BY <1>3, <1>5 DEF Calm, GensCalm
<1>7. CASE StartPull
  <2>1. /\ lineShare.emitted = <<>> /\ ~lineShare.complete /\ v = <<>> /\ pulling.end = "no"
        /\ pulling.pc = "idle" /\ lines.pos = 0 /\ ~lines.finished
    BY <1>7 DEF StartPull, PullSound
  <2>2. /\ UNCHANGED <<bufferVars, meta>> /\ Connected("pull")
        /\ pulling'.pc = "taking" /\ v' = <<>> /\ pulling'.end = "no"
    BY <1>7, <2>1, StartPullMoves
  <2>3. UNCHANGED <<buffer, writeGate, readGate, error>>
    BY <2>2 DEF bufferVars
  <2>4. GatesCalm'
    BY <1>5, <2>2, <2>3 DEF GatesCalm
  <2>5. lines'.pos = 0 /\ ~lines'.finished
    BY <1>1, <2>1, <2>2, ConnectedMoves
  <2>6. CountCalm(q)'
    <3>1. OnTheWay' = OnTheWay
      BY <1>3, <2>1, <2>2, <2>3 DEF OnTheWay
    <3>2. QED
      BY <1>3, <2>1, <2>2, <2>3, <2>5, <3>1 DEF Calm, CountCalm
  <2>7. /\ lineShare'.emitted = <<>> /\ ~lineShare'.complete /\ lineShare'.loop # 0
        /\ lines'.asks = <<lineShare'.loop>> /\ subscribed' = subscribed \union {"pull"}
    <3>1. CASE lineShare.loop # 0
      <4>1. lineShare' = lineShare /\ lines'.asks = lines.asks /\ subscribed' = subscribed \union {"pull"}
        BY <1>1, <2>1, <2>2, <3>1, ConnectedMoves
      <4>2. lines.asks = <<lineShare.loop>>
        BY <2>1, <3>1 DEF Calm, LinesCalm
      <4>3. QED
        BY <2>1, <3>1, <4>1, <4>2
    <3>2. CASE lineShare.loop = 0
      <4>1. lines.asks = <<>>
        BY <2>1, <3>2 DEF Calm, LinesCalm
      <4>2. PICK loop \in Nat : loop # 0 /\ lineShare' = NewShare(loop) /\ lines'.asks = Append(lines.asks, loop)
        BY <1>1, <2>2, <3>2, ConnectedMoves
      <4>3. subscribed' = subscribed \union {"pull"}
        BY <1>1, <2>2, <3>2, ConnectedMoves
      <4>4. Append(<<>>, loop) = <<loop>>
        BY OneTurn
      <4>5. lineShare'.emitted = <<>> /\ ~lineShare'.complete /\ lineShare'.loop = loop
        BY <4>2, Shares
      <4>6. QED
        BY <4>1, <4>2, <4>3, <4>4, <4>5
    <3>3. QED
      BY <3>1, <3>2
  <2>8. LinesCalm'
    <3>1. Len(lineShare'.emitted) = 0 /\ ~GotMetadata' /\ ~GotMetadata
      BY <2>1, <2>7 DEF GotMetadata
    <3>2. "meta" \in subscribed' => (meta'.got <=> GotMetadata')
      BY <2>1, <2>2, <2>7, <3>1 DEF Calm, LinesCalm
    <3>3. meta'.state = "complete" => meta'.got
      BY <2>1, <2>2 DEF Calm, LinesCalm
    <3>4. lines'.pos <= Len(answer') /\ \A i \in 1 .. lines'.pos : lineShare'.emitted[i] = answer'[i]
      BY <1>1, <1>2, <2>5
    <3>5. QED
      BY <2>2, <2>5, <2>7, <3>1, <3>2, <3>3, <3>4 DEF LinesCalm
  <2>9. QED
    BY <1>6, <2>4, <2>6, <2>8 DEF Calm
<1>8. ASSUME UNCHANGED <<lines, lineShare, subscribed, meta>>, pulling.pc # "idle", pulling'.pc # "idle",
             pulling'.end = pulling.end
      PROVE  LinesCalm'
  BY <1>2, <1>8 DEF Calm, LinesCalm, GotMetadata
<1>9. CASE TakeLine
  <2>1. IsWritable
    BY <1>5 DEF IsWritable
  <2>2. /\ Push(Head(v), "pull") /\ Head(v) \in StoredMessage /\ v # <<>>
        /\ pulling.pc = "taking" /\ pulling'.pc = "pushing" /\ v' = Tail(v) /\ pulling'.end = pulling.end
        /\ UNCHANGED <<lines, meta, subscribed, lineShare>>
    BY <1>9, <2>1, TakeLineMoves
  <2>3. /\ buffer' = Append(buffer, Head(v)) /\ error' = error
        /\ ~writeGate'.locked /\ ~readGate'.locked
    BY <1>1, <2>2, PushMoves
  <2>4. GatesCalm'
    BY <1>5, <2>2, <2>3 DEF GatesCalm
  <2>5. CountCalm(q)'
    <3>1. CountAt(e, buffer, v, q)
      BY DEF Calm, CountCalm
    <3>2. /\ CountAt(e, Append(buffer, Head(v)), Tail(v), q)
          /\ Len(Append(buffer, Head(v))) + Len(Tail(v)) = Len(buffer) + Len(v)
      <4>1. PICK a \in Seq(StoredMessage), b \in Seq(StoredMessage), c \in Seq(StoredMessage) :
               a = e /\ b = buffer /\ c = v
        BY <1>1
      <4>2. /\ CountAt(a, Append(b, Head(c)), Tail(c), q)
            /\ Len(Append(b, Head(c))) + Len(Tail(c)) = Len(b) + Len(c)
        <5>1. CountAt(a, b, c, q) /\ c # <<>> /\ q \in Seq(StoredMessage)
          BY <1>1, <2>2, <3>1, <4>1
        <5>2. QED
          BY ONLY a \in Seq(StoredMessage), b \in Seq(StoredMessage), c \in Seq(StoredMessage),
                  <5>1, CountPush
      <4>3. QED
        BY <4>1, <4>2
    <3>3. OnTheWay' = OnTheWay
      <4>1. PICK a \in Nat, b \in Nat, c \in Nat : a = Len(e) /\ b = Len(buffer) /\ c = Len(v)
        BY <1>1, LenProperties
      <4>2. Len(Append(buffer, Head(v))) = b + 1
        BY <1>1, <2>2, <4>1, Appended
      <4>3. Len(Tail(v)) = c - 1
        BY <1>1, <2>2, <4>1, FirstTaken
      <4>4. OnTheWay' = Len(e) + Len(Append(buffer, Head(v))) + Len(Tail(v))
        BY <1>3, <2>2, <2>3 DEF OnTheWay
      <4>5. OnTheWay' = a + (b + 1) + (c - 1)
        BY ONLY <4>1, <4>2, <4>3, <4>4
      <4>6. OnTheWay = a + b + c
        BY ONLY <4>1 DEF OnTheWay
      <4>7. a + (b + 1) + (c - 1) = a + b + c
        BY ONLY a \in Nat, b \in Nat, c \in Nat
      <4>8. QED
        BY ONLY <4>5, <4>6, <4>7
    <3>4. CountAt(e', buffer', v', q)
      BY <1>3, <2>2, <2>3, <3>2
    <3>5. QED
      BY <2>2, <3>3, <3>4 DEF Calm, CountCalm
  <2>6. QED
    BY <1>6, <1>8, <2>2, <2>4, <2>5 DEF Calm
<1>10. CASE Pushed
  <2>1. /\ pulling.pc = "pushing" /\ pulling'.pc = "taking" /\ v' = v /\ pulling'.end = pulling.end
        /\ UNCHANGED <<lines, meta, subscribed, lineShare, bufferVars>>
    BY <1>5, <1>10, PushedMoves
  <2>2. UNCHANGED <<buffer, writeGate, readGate, error>>
    BY <2>1 DEF bufferVars
  <2>3. GatesCalm'
    BY <1>5, <2>1, <2>2 DEF GatesCalm
  <2>4. CountCalm(q)'
    BY <1>3, <2>1, <2>2 DEF Calm, CountCalm, OnTheWay
  <2>5. QED
    BY <1>6, <1>8, <2>1, <2>3, <2>4 DEF Calm
<1>11. CASE EndPull
  <2>1. /\ pulling.pc = "taking" /\ v = <<>> /\ pulling.end # "no"
        /\ pulling'.pc = "done" /\ v' = <<>> /\ pulling'.end = pulling.end
        /\ buffer' = buffer /\ readGate'.locked = readGate.locked
        /\ error' = (IF pulling.end = "complete" THEN None ELSE pulling.end)
    BY <1>5, <1>11, EndPullMoves
  <2>2. UNCHANGED <<lines, lineShare, subscribed, meta>>
    BY <1>11 DEF EndPull, lineVars
  <2>3. GatesCalm'
    BY <1>3, <1>5, <2>1 DEF GatesCalm
  <2>4. CountCalm(q)'
    BY <1>3, <2>1, <2>2 DEF Calm, CountCalm, OnTheWay
  <2>5. QED
    BY <1>6, <1>8, <2>1, <2>2, <2>3, <2>4 DEF Calm
<1>12. QED
  BY <1>7, <1>9, <1>10, <1>11

(* Somebody reads the metadata.                                            *)
LEMMA MetaCalm ==
    ASSUME StreamTypes, PullSound, NEW q, AnswerOf(q), Calm(q), Undisturbed',
           MetaSubscribes \/ MetaLeaves
    PROVE  Calm(q)'
<1>1. LineTypes
  BY DEF StreamTypes
<1>2. UNCHANGED <<answer, pulling, buffer, writeGate, readGate, error, gens, msgShare, readers>>
  BY DEF MetaSubscribes, MetaLeaves, sourceVars, bufferVars, readVars
<1>3. lines'.pos = lines.pos /\ lines'.finished = lines.finished
  <2>1. CASE MetaSubscribes
    BY <1>1, <2>1, ConnectedMoves DEF MetaSubscribes
  <2>2. CASE MetaLeaves
    BY <2>2 DEF MetaLeaves
  <2>3. QED
    BY <2>1, <2>2
<1>4. GensCalm(q)' /\ GatesCalm' /\ CountCalm(q)'
  <2>1. GensCalm(q)'
    BY <1>2 DEF Calm, GensCalm
  <2>2. GatesCalm'
    BY <1>2 DEF Calm, GatesCalm
  <2>3. CountCalm(q)'
    BY <1>2, <1>3 DEF Calm, CountCalm, OnTheWay
  <2>4. QED
    BY <2>1, <2>2, <2>3
<1>5. CASE MetaLeaves
  <2>1. /\ meta.state = "on" /\ meta'.got = meta.got /\ lines' = lines
        /\ meta'.state = (IF meta.got THEN "served" ELSE "left")
        /\ subscribed' = subscribed \ {"meta"} /\ lineShare' = ShareWithout("meta")
    BY <1>5, MetaLeavesMoves
  <2>2. meta.got
    BY <2>1 DEF Undisturbed
  <2>3. pulling.pc # "idle"
    BY <2>2 DEF PullSound
  <2>4. pulling.end \in {"no", "complete"} => lineShare' = lineShare
    BY <2>1, <2>3 DEF ShareWithout, Calm, LinesCalm
  <2>5. LinesCalm'
    BY <1>2, <2>1, <2>3, <2>4 DEF Calm, LinesCalm, GotMetadata
  <2>6. QED
    BY <1>4, <2>5 DEF Calm
<1>6. CASE MetaSubscribes
  <2>1. /\ Connected("meta")
        /\ meta'.state = (IF lineShare.complete THEN "complete" ELSE "on")
        /\ meta'.got = GotMetadata
    BY <1>6, MetaSubscribesMoves DEF GotMetadata
  <2>2. pulling.end = "no" => ~lineShare.complete
    BY DEF PullSound, Calm, LinesCalm
  <2>3. CASE lineShare.loop # 0
    <3>1. /\ lineShare' = lineShare /\ lines'.asks = lines.asks
          /\ subscribed' = IF lineShare.complete THEN subscribed ELSE subscribed \union {"meta"}
      BY <1>1, <2>1, <2>3, ConnectedMoves
    <3>2. GotMetadata' <=> GotMetadata
      BY <3>1 DEF GotMetadata
    <3>3. LinesCalm'
      BY <1>2, <1>3, <2>1, <2>2, <3>1, <3>2 DEF Calm, LinesCalm
    <3>4. QED
      BY <1>4, <3>3 DEF Calm
  <2>4. CASE lineShare.loop = 0
    <3>1. lineShare.complete = FALSE /\ lineShare.emitted = <<>>
      BY <2>4, Shares DEF PullSound
    <3>2. pulling.end = "no" => pulling.pc = "idle"
      BY <2>4 DEF Calm, LinesCalm
    <3>3. pulling.end # "complete"
      BY <2>4 DEF Calm, LinesCalm
    <3>4. PICK loop \in Nat : loop # 0 /\ lineShare' = NewShare(loop) /\ lines'.asks = Append(lines.asks, loop)
      BY <1>1, <2>1, <2>4, ConnectedMoves
    <3>5. lineShare'.loop = loop /\ lineShare'.emitted = <<>>
      BY <3>4, Shares
    <3>6. pulling.pc = "idle" => lines'.asks = <<loop>>
      <4>1. pulling.pc = "idle" => lines.asks = <<>>
        BY <2>4 DEF Calm, LinesCalm
      <4>2. Append(<<>>, loop) = <<loop>>
        BY OneTurn
      <4>3. QED
        BY <3>4, <4>1, <4>2
    <3>7. ~GotMetadata /\ ~GotMetadata'
      BY <3>1, <3>5 DEF GotMetadata
    <3>8. LinesCalm'
      BY <1>2, <2>1, <3>1, <3>2, <3>3, <3>4, <3>5, <3>6, <3>7 DEF LinesCalm
    <3>9. QED
      BY <1>4, <3>8 DEF Calm
  <2>5. QED
    BY <2>3, <2>4
<1>7. QED
  BY <1>5, <1>6

(* The readers come, and get the next message or the end.                  *)
LEMMA ReadCalm ==
    ASSUME StreamTypes, NEW q, AnswerOf(q), Calm(q), NEW r \in Reader, Read(r)
    PROVE  Calm(q)'
<1>1. /\ UNCHANGED <<sourceVars, lineVars, pulling, bufferVars>> /\ readers[r].state = "off"
      /\ msgShare.loop # 0 => UNCHANGED <<gens, msgShare>>
      /\ msgShare.loop = 0 => gens' = Append(gens, "asked") /\ msgShare' = NewShare(Len(gens) + 1)
  BY ReadMoves
<1>2. /\ UNCHANGED <<answer, lines, lineShare, subscribed, meta>>
      /\ UNCHANGED <<buffer, writeGate, readGate, error, pulling>>
  BY <1>1 DEF sourceVars, lineVars, bufferVars
<1>3. msgShare.complete = FALSE \/ msgShare.complete = TRUE
  BY DEF StreamTypes, ReadTypes, ShareOf
<1>4. msgShare'.emitted = msgShare.emitted /\ msgShare'.complete = msgShare.complete
  <2>1. CASE msgShare.loop # 0
    BY <1>1, <2>1
  <2>2. CASE msgShare.loop = 0
    <3>1. msgShare = NoShare
      BY <2>2 DEF Calm, GensCalm
    <3>2. QED
      BY <1>1, <2>2, <3>1, Shares
  <2>3. QED
    BY <2>1, <2>2
<1>5. PICK one : one = [state |-> IF msgShare.complete THEN "complete" ELSE "reading",
                        got |-> msgShare.emitted]
  OBVIOUS
<1>6. /\ one.state = (IF msgShare.complete THEN "complete" ELSE "reading")
      /\ one.got = msgShare.emitted
  BY <1>5
<1>7. readers'[r] = one /\ \A p \in Reader \ {r} : readers'[p] = readers[p]
  <2>1. readers' = [readers EXCEPT ![r] = one]
    BY <1>5, ReadMoves
  <2>2. readers \in [Reader -> ReaderType]
    BY DEF StreamTypes, ReadTypes
  <2>3. QED
    BY <2>1, <2>2
<1>8. GensCalm(q)'
  <2>1. msgShare'.loop = 1 /\ Len(gens') = 1
        /\ gens'[1] = IF msgShare'.complete THEN "ended" ELSE "asked"
    <3>1. CASE msgShare.loop # 0
      BY <1>1, <3>1 DEF Calm, GensCalm
    <3>2. CASE msgShare.loop = 0
      <4>1. gens = <<>> /\ msgShare = NoShare
        BY <3>2 DEF Calm, GensCalm
      <4>2. Len(gens) = 0 /\ ~msgShare.complete
        BY <4>1, Shares
      <4>3. msgShare'.loop = 1
        BY <1>1, <3>2, <4>2, Shares
      <4>4. PICK none : none = gens /\ none \in Seq(GenState) /\ "asked" \in GenState /\ Len(none) = 0
        BY <4>2 DEF StreamTypes, ReadTypes, GenState
      <4>5. Len(Append(none, "asked")) = Len(none) + 1 /\ Append(none, "asked")[Len(none) + 1] = "asked"
        BY ONLY <4>4, Appended
      <4>6. Len(gens') = 1 /\ gens'[1] = "asked"
        BY <1>1, <3>2, <4>4, <4>5
      <4>7. QED
        BY <1>4, <4>2, <4>3, <4>6
    <3>3. QED
      BY <3>1, <3>2
  <2>2. msgShare'.complete \/ \E p \in Reader : readers'[p].state = "reading"
    BY <1>4, <1>6, <1>7
  <2>3. msgShare'.complete => pulling'.pc = "done" /\ msgShare'.emitted = q
    BY <1>2, <1>4 DEF Calm, GensCalm
  <2>4. ASSUME NEW p \in Reader, readers'[p].state = "complete" PROVE readers'[p].got = q
    <3>1. CASE p = r
      BY <1>4, <1>6, <1>7, <2>4, <3>1 DEF Calm, GensCalm
    <3>2. CASE p # r
      BY <1>7, <2>4, <3>2 DEF Calm, GensCalm
    <3>3. QED
      BY <3>1, <3>2
  <2>5. QED
    BY <2>1, <2>2, <2>3, <2>4 DEF GensCalm
<1>9. GatesCalm'
  BY <1>2, <1>4 DEF Calm, GatesCalm
<1>10. CountCalm(q)'
  BY <1>2, <1>4 DEF Calm, CountCalm, OnTheWay
<1>11. LinesCalm'
  BY <1>2 DEF Calm, LinesCalm, GotMetadata
<1>12. QED
  BY <1>8, <1>9, <1>10, <1>11 DEF Calm

LEMMA GenerateCalm ==
    ASSUME StreamTypes, NEW q, AnswerOf(q), ReadersSound(q), Calm(q), Undisturbed',
           NEW g \in DOMAIN gens, Generate(g)
    PROVE  Calm(q)'
<1> DEFINE e == msgShare.emitted
           v == pulling.values
<1>1. /\ q \in Seq(StoredMessage) /\ BufferTypes
      /\ e \in Seq(StoredMessage) /\ buffer \in Seq(StoredMessage) /\ v \in Seq(StoredMessage)
      /\ pulling.end \in {"no", "complete", "error", "invalid"}
  BY DEF StreamTypes, LineTypes, BufferTypes, ReadTypes, ShareOf, PullType, AnswerOf
<1>2. UNCHANGED <<sourceVars, lineVars, pulling>> /\ gens[g] = "asked" /\ g \in 1 .. Len(gens)
  BY GenerateMoves
<1>3. UNCHANGED <<answer, lines, lineShare, subscribed, meta, pulling>>
  BY <1>2 DEF sourceVars, lineVars
<1>4. /\ msgShare.loop = 1 /\ Len(gens) = 1 /\ g = 1 /\ ~msgShare.complete /\ Current(g)
      /\ \E r \in Reader : readers[r].state = "reading"
  <2>1. msgShare.loop # 0
    BY <1>2 DEF Calm, GensCalm
  <2>2. msgShare.loop = 1 /\ Len(gens) = 1
    BY <2>1 DEF Calm, GensCalm
  <2>3. g = 1
    BY <1>2, <2>2
  <2>4. ~msgShare.complete
    BY <1>2, <2>1, <2>3 DEF Calm, GensCalm
  <2>5. QED
    BY <2>1, <2>2, <2>3, <2>4 DEF Calm, GensCalm, Current
<1>5. LinesCalm'
  BY <1>3 DEF Calm, LinesCalm, GotMetadata
<1>6. \A r \in Reader : readers[r].state = "complete" => readers[r].got = q
  BY DEF Calm, GensCalm
<1>7. CASE AwaitItem(g) /\ UNCHANGED readVars
  <2>1. g \in Nat
    BY <1>4
  <2>2. /\ buffer' = buffer /\ error' = error
        /\ writeGate' = writeGate /\ readGate'.locked = readGate.locked
    BY <1>1, <1>7, <2>1, AwaitMoves
  <2>3. UNCHANGED <<gens, msgShare, readers>>
    BY <1>7 DEF readVars
  <2>4. GensCalm(q)'
    BY <1>3, <2>3 DEF Calm, GensCalm
  <2>5. GatesCalm'
    BY <1>3, <2>2, <2>3 DEF Calm, GatesCalm
  <2>6. CountCalm(q)'
    BY <1>3, <2>2, <2>3 DEF Calm, CountCalm, OnTheWay
  <2>7. QED
    BY <1>5, <2>4, <2>5, <2>6 DEF Calm
<1>8. CASE /\ Shift /\ gens' = gens
           /\ msgShare'.loop = msgShare.loop /\ msgShare'.complete = msgShare.complete
           /\ msgShare'.emitted = Append(msgShare.emitted, Head(buffer))
           /\ \A r \in Reader :
                IF readers[r].state = "reading"
                THEN /\ readers'[r].state = "reading"
                     /\ readers'[r].got = Append(readers[r].got, Head(buffer))
                ELSE readers'[r] = readers[r]
  <2>1. /\ buffer # <<>> /\ buffer' = Tail(buffer) /\ error' = error
        /\ writeGate'.locked = writeGate.locked /\ readGate' = readGate
        /\ Head(buffer) \in StoredMessage
    BY <1>1, <1>8, ShiftMoves
  <2>2. GensCalm(q)'
    <3>1. \E r \in Reader : readers'[r].state = "reading"
      BY <1>4, <1>8
    <3>2. \A r \in Reader : readers'[r].state = "complete" => readers'[r].got = q
      BY <1>6, <1>8
    <3>3. gens'[1] = "asked"
      BY <1>2, <1>4, <1>8
    <3>4. QED
      BY <1>4, <1>8, <3>1, <3>2, <3>3 DEF GensCalm
  <2>3. GatesCalm'
    BY <1>3, <1>8, <2>1 DEF Calm, GatesCalm
  <2>4. CountCalm(q)'
    <3>1. CountAt(e, buffer, v, q)
      BY DEF Calm, CountCalm
    <3>2. CountAt(Append(e, Head(buffer)), Tail(buffer), v, q)
      <4>1. PICK a \in Seq(StoredMessage), b \in Seq(StoredMessage), c \in Seq(StoredMessage) :
               a = e /\ b = buffer /\ c = v
        BY <1>1
      <4>2. CountAt(a, b, c, q) /\ b # <<>> /\ q \in Seq(StoredMessage)
        BY <1>1, <2>1, <3>1, <4>1
      <4>3. CountAt(Append(a, Head(b)), Tail(b), c, q)
        BY ONLY a \in Seq(StoredMessage), b \in Seq(StoredMessage), c \in Seq(StoredMessage),
                <4>2, CountShift
      <4>4. QED
        BY <4>1, <4>3
    <3>3. OnTheWay' = OnTheWay
      <4>1. PICK a \in Nat, b \in Nat, c \in Nat : a = Len(e) /\ b = Len(buffer) /\ c = Len(v)
        BY <1>1, LenProperties
      <4>2. Len(Append(e, Head(buffer))) = a + 1
        BY <1>1, <2>1, <4>1, Appended
      <4>3. Len(Tail(buffer)) = b - 1
        BY <1>1, <2>1, <4>1, FirstTaken
      <4>4. OnTheWay' = Len(Append(e, Head(buffer))) + Len(Tail(buffer)) + Len(v)
        BY <1>3, <1>8, <2>1 DEF OnTheWay
      <4>5. OnTheWay' = (a + 1) + (b - 1) + c
        BY ONLY <4>1, <4>2, <4>3, <4>4
      <4>6. OnTheWay = a + b + c
        BY ONLY <4>1 DEF OnTheWay
      <4>7. (a + 1) + (b - 1) + c = a + b + c
        BY ONLY a \in Nat, b \in Nat, c \in Nat
      <4>8. QED
        BY ONLY <4>5, <4>6, <4>7
    <3>4. CountAt(e', buffer', v', q)
      BY <1>3, <1>8, <2>1, <3>2
    <3>5. QED
      BY <1>3, <3>3, <3>4 DEF Calm, CountCalm
  <2>5. QED
    BY <1>5, <2>2, <2>3, <2>4 DEF Calm
<1>9. CASE /\ Finish /\ gens' = [gens EXCEPT ![g] = "ended"]
           /\ error # None => msgShare' = NoShare
           /\ error = None => /\ msgShare'.complete /\ msgShare'.loop = msgShare.loop
                              /\ msgShare'.emitted = msgShare.emitted
           /\ \A r \in Reader :
                IF readers[r].state = "reading"
                THEN /\ readers'[r].state = IF error = None THEN "complete" ELSE "error"
                     /\ readers'[r].got = readers[r].got
                ELSE readers'[r] = readers[r]
  <2>1. buffer = <<>> /\ writeGate.locked
    BY <1>4, <1>9 DEF Calm, GatesCalm, Finish, Exhausted
  <2>2. pulling.pc = "done"
    BY <2>1 DEF Calm, GatesCalm
  <2>3. /\ v = <<>> /\ pulling.end # "no"
        /\ error = IF pulling.end = "complete" THEN None ELSE pulling.end
    BY <1>4, <2>2 DEF Calm, GatesCalm
  <2>4. error = None
    BY <1>4, <1>9 DEF Undisturbed
  <2>5. pulling.end = "complete"
    BY <1>1, <2>3, <2>4, NoneAssumption
  <2>6. e = q
    <3>1. CountAt(e, <<>>, <<>>, q) /\ Len(e) + Len(<<>>) + Len(<<>>) = Len(q)
      BY <2>1, <2>3, <2>5 DEF Calm, CountCalm, OnTheWay
    <3>2. QED
      BY ONLY <1>1, <3>1, CountWhole
  <2>7. buffer' = <<>>
    BY <1>1, <1>9, EndMoves
  <2>8. gens'[1] = "ended" /\ Len(gens') = 1
    <3>1. gens \in Seq(GenState)
      BY DEF StreamTypes, ReadTypes
    <3>2. QED
      BY <1>4, <1>9, <3>1
  <2>9. ASSUME NEW r \in Reader, readers'[r].state = "complete" PROVE readers'[r].got = q
    <3>1. CASE readers[r].state = "reading"
      <4>1. readers'[r].got = readers[r].got
        BY <1>9, <3>1
      <4>2. readers[r].got = e
        BY <3>1 DEF ReadersSound
      <4>3. QED
        BY <2>6, <4>1, <4>2
    <3>2. CASE readers[r].state # "reading"
      BY <1>6, <1>9, <2>9, <3>2
    <3>3. QED
      BY <3>1, <3>2
  <2>10. GensCalm(q)'
    BY <1>3, <1>4, <1>9, <2>2, <2>4, <2>6, <2>8, <2>9 DEF GensCalm
  <2>11. GatesCalm'
    BY <1>3, <1>9, <2>2, <2>3, <2>4 DEF GatesCalm
  <2>12. CountCalm(q)'
    <3>1. buffer' = buffer /\ e' = e
      BY <1>9, <2>1, <2>4, <2>7
    <3>2. QED
      BY <1>3, <3>1 DEF Calm, CountCalm, OnTheWay
  <2>13. QED
    BY <1>5, <2>10, <2>11, <2>12 DEF Calm
<1>10. QED
  BY <1>4, <1>7, <1>8, <1>9, GenerateMoves

(* Nothing else disturbs it.                                               *)
LEMMA CalmKept ==
    ASSUME StreamTypes, PullSound, NEW q, AnswerOf(q), ReadersSound(q), Calm(q), Undisturbed', StreamNext
    PROVE  Calm(q)'
<1>1. CASE ReadBody \/ Drain \/ Break
  <2>1. UNCHANGED <<sourceVars, lineVars, pulling, bufferVars, readVars>>
    BY <1>1 DEF ReadBody, Drain, Break
  <2>2. UNCHANGED <<answer, lines, lineShare, subscribed, meta, pulling>>
    BY <2>1 DEF sourceVars, lineVars
  <2>3. UNCHANGED <<buffer, error, writeGate, readGate, gens, msgShare, readers>>
    BY <2>1 DEF bufferVars, readVars
  <2>4. GensCalm(q)'
    BY <2>2, <2>3 DEF Calm, GensCalm
  <2>5. GatesCalm'
    BY <2>2, <2>3 DEF Calm, GatesCalm
  <2>6. CountCalm(q)'
    BY <2>2, <2>3 DEF Calm, CountCalm, OnTheWay
  <2>7. LinesCalm'
    BY <2>2 DEF Calm, LinesCalm, GotMetadata
  <2>8. QED
    BY <2>4, <2>5, <2>6, <2>7 DEF Calm
<1>2. CASE Serve
  BY <1>2, ServeCalm
<1>3. CASE StartPull \/ TakeLine \/ Pushed \/ EndPull
  BY <1>3, PullCalm
<1>4. CASE MetaSubscribes \/ MetaLeaves
  BY <1>4, MetaCalm
<1>5. ASSUME NEW r \in Reader, Read(r) PROVE Calm(q)'
  BY <1>5, ReadCalm
<1>6. ASSUME NEW r \in Reader, Leave(r) PROVE FALSE
  <2>1. readers'[r].state = "left"
    BY <1>6, LeaveMoves
  <2>2. QED
    BY <2>1 DEF Undisturbed
<1>7. ASSUME NEW g \in DOMAIN gens, Generate(g) PROVE Calm(q)'
  BY <1>7, GenerateCalm
<1>8. ASSUME NEW g \in DOMAIN gens, Return(g) PROVE FALSE
  <2>1. g \in 1 .. Len(gens) /\ gens[g] = "left"
    BY <1>8, ReturnMoves
  <2>2. msgShare.loop # 0
    <3>1. SUFFICES ASSUME msgShare.loop = 0 PROVE FALSE
      OBVIOUS
    <3>2. gens = <<>>
      BY <3>1 DEF Calm, GensCalm
    <3>3. QED
      BY <2>1, <3>2
  <2>3. Len(gens) = 1 /\ gens[1] \in {"ended", "asked"}
    BY <2>2 DEF Calm, GensCalm
  <2>4. g = 1
    BY <2>1, <2>3
  <2>5. QED
    BY <2>1, <2>3, <2>4
<1>9. QED
  BY <1>1, <1>2, <1>3, <1>4, <1>5, <1>6, <1>7, <1>8 DEF StreamNext, Working, Reading

-------------------------------------------------------------------------------
(* What always holds of an answer.                                         *)
LEMMA TypesKept ==
    ASSUME StreamTypes, answer \in Seq(AnyLine), StreamNext,
           pulling.pc = "idle" => lineShare.emitted = <<>> /\ ~lineShare.complete
    PROVE  StreamTypes'
<1>1. CASE ReadBody \/ Drain \/ Break
  <2>1. UNCHANGED <<lineVars, pulling, bufferVars, readVars>>
    BY <1>1 DEF ReadBody, Drain, Break
  <2>2. LineTypes'
    BY <2>1 DEF StreamTypes, LineTypes, lineVars
  <2>3. BufferTypes'
    BY <2>1 DEF StreamTypes, BufferTypes, bufferVars
  <2>4. ReadTypes'
    BY <2>1 DEF StreamTypes, ReadTypes, readVars
  <2>5. QED
    BY <2>2, <2>3, <2>4 DEF StreamTypes
<1>2. CASE Serve
  BY <1>2, ServeMoves
<1>3. CASE StartPull
  <2>1. pulling.pc = "idle"
    BY <1>3 DEF StartPull
  <2>2. QED
    BY <1>3, <2>1, StartPullMoves
<1>4. CASE TakeLine
  BY <1>4, TakeLineMoves
<1>5. CASE Pushed
  BY <1>5, PushedMoves
<1>6. CASE EndPull
  BY <1>6, EndPullMoves
<1>7. CASE MetaSubscribes
  BY <1>7, MetaSubscribesMoves
<1>8. CASE MetaLeaves
  BY <1>8, MetaLeavesMoves
<1>9. ASSUME NEW r \in Reader, Read(r) \/ Leave(r) PROVE StreamTypes'
  BY <1>9, ReadMoves, LeaveMoves
<1>10. ASSUME NEW g \in DOMAIN gens, Generate(g) \/ Return(g) PROVE StreamTypes'
  BY <1>10, GenerateMoves, ReturnMoves
<1>11. QED
  BY <1>1, <1>2, <1>3, <1>4, <1>5, <1>6, <1>7, <1>8, <1>9, <1>10 DEF StreamNext, Working, Reading

StreamSound == /\ input \in Inputs /\ answer \in Answers(input) /\ StreamTypes
               /\ ~Sent => NothingAsked
               /\ Sent => PullSound /\ PartsSound(Asked) /\ ReadersSound(Asked)
               /\ Sent /\ Undisturbed => Calm(Asked)

LEMMA AnswerTyped ==
    ASSUME input \in Inputs, answer \in Answers(input)
    PROVE  answer \in Seq(AnyLine)
<1>1. CASE Sent
  BY <1>1, AnswerHasAll DEF AnswerOf
<1>2. CASE ~Sent
  <2>1. RequestOf(input).type \in {"empty", "invalid", "last", "from", "range"}
    BY DEF RequestOf, NoRequest
  <2>2. answer = <<>>
    BY <1>2, <2>1 DEF Sent, Answers
  <2>3. QED
    BY <2>2, EmptySeq
<1>3. QED
  BY <1>1, <1>2

LEMMA StreamBegins == StreamInit => StreamSound
<1> SUFFICES ASSUME StreamInit PROVE StreamSound
  OBVIOUS
<1>1. /\ input \in Inputs /\ answer \in Answers(input)
      /\ pulling = [pc |-> IF Sent THEN "idle" ELSE "none", values |-> <<>>, end |-> "no"]
      /\ lines = [pos |-> 0, asks |-> <<>>, finished |-> FALSE]
      /\ lineShare = NoShare /\ lineLoops = 0 /\ subscribed = {}
      /\ meta = [state |-> "off", got |-> FALSE]
      /\ gens = <<>> /\ msgShare = NoShare
      /\ readers = [r \in Reader |-> [state |-> "off", got |-> <<>>]]
  BY DEF StreamInit
<1>2. /\ buffer = <<>> /\ error = None
      /\ writeGate = [locked |-> FALSE, pending |-> TRUE, waiting |-> {}]
      /\ readGate = [locked |-> FALSE, pending |-> TRUE, waiting |-> {}]
  BY DEF StreamInit, BufferInit, ClosedGate
<1>3. <<>> \in Seq(StoredMessage) /\ <<>> \in Seq(AnyLine) /\ <<>> \in Seq(Nat) /\ <<>> \in Seq(GenState)
  BY EmptySeq
<1>4. StreamTypes
  <2>1. LineTypes
    BY <1>1, <1>3 DEF LineTypes, LinesType, ShareOf, MetaType, PullType, NoShare
  <2>2. BufferTypes
    BY <1>2, <1>3 DEF BufferTypes, GateOf
  <2>3. ReadTypes
    BY <1>1, <1>3 DEF ReadTypes, ShareOf, ReaderType, NoShare
  <2>4. QED
    BY <2>1, <2>2, <2>3 DEF StreamTypes
<1>5. /\ lines.pos = 0 /\ lines.asks = <<>> /\ ~lines.finished
      /\ lineShare.loop = 0 /\ lineShare.emitted = <<>> /\ ~lineShare.complete
      /\ pulling.values = <<>> /\ pulling.end = "no" /\ meta.state = "off" /\ ~meta.got
      /\ msgShare.loop = 0 /\ msgShare.emitted = <<>> /\ ~msgShare.complete
      /\ ~readGate.locked /\ ~writeGate.locked /\ Len(gens) = 0
      /\ \A r \in Reader : readers[r].state = "off" /\ readers[r].got = <<>>
  BY <1>1, <1>2, Shares
<1>6. ASSUME ~Sent PROVE NothingAsked
  <2>1. pulling.pc = "none"
    BY <1>1, <1>6
  <2>2. QED
    BY <1>2, <1>5, <2>1 DEF NothingAsked
<1>7. ASSUME Sent PROVE PullSound /\ PartsSound(Asked) /\ ReadersSound(Asked) /\ Calm(Asked)
  <2>1. pulling.pc = "idle"
    BY <1>1, <1>7
  <2>2. PICK q \in Seq(StoredMessage) : q = Asked /\ Len(q) \in Nat
    BY <1>1, AskedInOrder, LenProperties
  <2>3. PullSound
    BY <1>1, <1>5, <2>1 DEF PullSound
  <2>4. AskedUpTo(q, lines.pos) = 0
    BY <1>5, <2>2 DEF AskedUpTo
  <2>5. PartsSound(q)
    <3>1. Within(<<>>, q, 0, 0)
      BY WithinNone
    <3>2. Parts(<<>>, <<>>, <<>>, q, 0)
      BY <3>1 DEF Parts
    <3>3. QED
      BY <1>2, <1>5, <2>4, <3>2 DEF PartsSound
  <2>6. ReadersSound(q)
    <3>1. Within(<<>>, q, 0, Len(q))
      BY WithinNone
    <3>2. QED
      BY <1>1, <1>5, <3>1 DEF ReadersSound
  <2>7. GensCalm(q)
    BY <1>1, <1>5 DEF GensCalm
  <2>8. GatesCalm
    BY <1>2, <1>5, <2>1 DEF GatesCalm
  <2>9. CountCalm(q)
    <3>1. PICK none : none = <<>> /\ Len(none) = 0
      OBVIOUS
    <3>2. OnTheWay = 0
      BY <1>2, <1>5, <3>1 DEF OnTheWay
    <3>3. CountAt(none, none, none, q)
      BY <2>2, <3>1 DEF CountAt
    <3>4. QED
      BY <1>2, <1>5, <2>4, <3>1, <3>2, <3>3 DEF CountCalm
  <2>10. LinesCalm
    BY <1>1, <1>5, <2>1 DEF LinesCalm
  <2>11. QED
    BY <2>2, <2>3, <2>5, <2>6, <2>7, <2>8, <2>9, <2>10 DEF Calm
<1>8. QED
  BY <1>1, <1>4, <1>6, <1>7 DEF StreamSound

LEMMA SourceStays ==
    ASSUME StreamTypes, StreamNext
    PROVE  UNCHANGED sourceVars
BY DEF StreamNext, Working, Reading, ReadBody, Drain, Break, Serve, StartPull, TakeLine, Pushed, EndPull,
       MetaSubscribes, MetaLeaves, Read, Leave, Generate, Return

LEMMA StreamGoesOn ==
    ASSUME StreamSound, [StreamNext]_streamVars
    PROVE  StreamSound'
<1>1. CASE UNCHANGED streamVars
  <2>1. UNCHANGED <<input, answer>>
    BY <1>1 DEF streamVars, sourceVars
  <2>2. UNCHANGED <<lines, lineShare, lineLoops, subscribed, meta, pulling>>
    BY <1>1 DEF streamVars, lineVars
  <2>3. UNCHANGED <<buffer, error, writeGate, readGate, gens, msgShare, readers>>
    BY <1>1 DEF streamVars, bufferVars, readVars
  <2>4. Asked' = Asked /\ (Sent' <=> Sent) /\ Answers(input)' = Answers(input)
    BY <2>1 DEF Asked, Sent
  <2>5. PICK q : q = Asked
    OBVIOUS
  <2>6. StreamTypes' <=> StreamTypes
    BY <2>2, <2>3 DEF StreamTypes, LineTypes, BufferTypes, ReadTypes
  <2>7. NothingAsked' <=> NothingAsked
    BY <2>2, <2>3 DEF NothingAsked
  <2>8. PullSound' <=> PullSound
    BY <2>2 DEF PullSound
  <2>9. PartsSound(q)' <=> PartsSound(q)
    BY <2>2, <2>3 DEF PartsSound
  <2>10. ReadersSound(q)' <=> ReadersSound(q)
    BY <2>3 DEF ReadersSound
  <2>11. Calm(q)' <=> Calm(q)
    <3>1. GensCalm(q)' <=> GensCalm(q)
      BY <2>2, <2>3 DEF GensCalm
    <3>2. GatesCalm' <=> GatesCalm
      BY <2>2, <2>3 DEF GatesCalm
    <3>3. CountCalm(q)' <=> CountCalm(q)
      BY <2>2, <2>3 DEF CountCalm, OnTheWay
    <3>4. LinesCalm' <=> LinesCalm
      BY <2>1, <2>2 DEF LinesCalm, GotMetadata
    <3>5. QED
      BY <3>1, <3>2, <3>3, <3>4 DEF Calm
  <2>12. Undisturbed' <=> Undisturbed
    BY <2>2, <2>3 DEF Undisturbed
  <2>13. PartsSound(Asked)' <=> PartsSound(q)'
    BY <2>4, <2>5 DEF PartsSound
  <2>14. ReadersSound(Asked)' <=> ReadersSound(q)'
    BY <2>4, <2>5 DEF ReadersSound
  <2>15. Calm(Asked)' <=> Calm(q)'
    BY <2>4, <2>5 DEF Calm, GensCalm, CountCalm
  <2>16. QED
    BY <2>1, <2>4, <2>5, <2>6, <2>7, <2>8, <2>9, <2>10, <2>11, <2>12, <2>13, <2>14, <2>15 DEF StreamSound
<1>2. CASE StreamNext
  <2>1. /\ input \in Inputs /\ answer \in Answers(input) /\ StreamTypes /\ answer \in Seq(AnyLine)
    BY AnswerTyped DEF StreamSound
  <2>2. UNCHANGED <<input, answer>>
    BY <1>2, <2>1, SourceStays DEF sourceVars
  <2>3. Asked' = Asked /\ (Sent' <=> Sent) /\ Answers(input)' = Answers(input)
    BY <2>2 DEF Asked, Sent
  <2>4. PICK q : q = Asked
    OBVIOUS
  <2>5. pulling.pc = "idle" => lineShare.emitted = <<>> /\ ~lineShare.complete
    <3>1. CASE Sent
      BY <3>1 DEF StreamSound, PullSound
    <3>2. CASE ~Sent
      BY <3>2 DEF StreamSound, NothingAsked
    <3>3. QED
      BY <3>1, <3>2
  <2>6. StreamTypes'
    BY <1>2, <2>1, <2>5, TypesKept
  <2>7. ASSUME ~Sent PROVE NothingAsked'
    BY <1>2, <2>1, <2>7, NothingKept DEF StreamSound
  <2>8. ASSUME Sent
        PROVE  /\ PullSound' /\ PartsSound(q)' /\ ReadersSound(q)'
               /\ Undisturbed' => Calm(q)'
    <3>1. AnswerOf(q)
      BY <2>1, <2>4, <2>8, AnswerHasAll
    <3>2. PullSound /\ PartsSound(q) /\ ReadersSound(q)
      BY <2>4, <2>8 DEF StreamSound
    <3>3. PullSound'
      BY <1>2, <2>1, <3>2, PullKept
    <3>4. PartsSound(q)'
      BY <1>2, <2>1, <3>1, <3>2, PartsKept
    <3>5. q \in Seq(StoredMessage)
      BY <3>1 DEF AnswerOf
    <3>6. lines.pos \in Nat /\ lines'.pos \in Nat
      BY <2>1, <2>6 DEF StreamTypes, LineTypes, LinesType
    <3>7. ReadersSound(q)'
      BY <1>2, <2>1, <3>2, <3>4, <3>5, <3>6, ReadersKept
    <3>8. ASSUME Undisturbed' PROVE Calm(q)'
      <4>1. Undisturbed
        BY <1>2, <2>1, <3>2, <3>8, UndisturbedBefore
      <4>2. Calm(q)
        BY <2>4, <2>8, <4>1 DEF StreamSound
      <4>3. QED
        BY <1>2, <2>1, <3>1, <3>2, <3>8, <4>2, CalmKept
    <3>9. QED
      BY <3>3, <3>4, <3>7, <3>8
  <2>9. PartsSound(Asked)' <=> PartsSound(q)'
    BY <2>3, <2>4 DEF PartsSound
  <2>10. ReadersSound(Asked)' <=> ReadersSound(q)'
    BY <2>3, <2>4 DEF ReadersSound
  <2>11. Calm(Asked)' <=> Calm(q)'
    BY <2>3, <2>4 DEF Calm, GensCalm, CountCalm
  <2>12. QED
    BY <2>1, <2>2, <2>3, <2>6, <2>7, <2>8, <2>9, <2>10, <2>11 DEF StreamSound
<1>3. QED
  BY <1>1, <1>2

LEMMA SoundIsWhole == StreamSound => AnswersWhole
<1> SUFFICES ASSUME StreamSound PROVE AnswersWhole
  OBVIOUS
<1>1. PICK q \in Seq(StoredMessage) : q = Asked /\ Len(q) \in Nat /\ DOMAIN q = 1 .. Len(q)
  BY AskedInOrder, LenProperties DEF StreamSound
<1>2. readers \in [Reader -> ReaderType]
  BY DEF StreamSound, StreamTypes, ReadTypes
<1>3. CASE ~Sent
  <2>1. NothingAsked
    BY <1>3 DEF StreamSound
  <2>2. \A r \in Reader : DOMAIN readers[r].got = {} /\ readers[r].state # "complete"
    BY <2>1 DEF NothingAsked
  <2>3. meta.state # "complete"
    BY <2>1 DEF NothingAsked
  <2>4. QED
    BY <2>2, <2>3 DEF AnswersWhole
<1>4. CASE Sent
  <2>1. ReadersSound(q) /\ (Undisturbed => Calm(q))
    BY <1>1, <1>4 DEF StreamSound
  <2>2. ASSUME NEW r \in Reader
        PROVE  /\ \A i, j \in DOMAIN readers[r].got :
                     i < j => readers[r].got[i].ref < readers[r].got[j].ref
               /\ \A i \in DOMAIN readers[r].got : readers[r].got[i] \in Range(Asked)
               /\ Undisturbed /\ readers[r].state = "complete" => readers[r].got = Asked
    <3>1. PICK got \in Seq(StoredMessage) : got = readers[r].got /\ DOMAIN got = 1 .. Len(got)
      BY <1>2, LenProperties DEF ReaderType
    <3>2. Within(got, q, 0, Len(q))
      BY <2>1, <3>1 DEF ReadersSound
    <3>3. \A i, j \in DOMAIN got : i < j => got[i].ref < got[j].ref
      BY <3>1, <3>2 DEF Within, InOrder
    <3>4. ASSUME NEW i \in DOMAIN got PROVE got[i] \in Range(q)
      <4>1. PICK k \in 0 + 1 .. Len(q) : got[i] = q[k]
        BY <3>1, <3>2 DEF Within
      <4>2. k \in DOMAIN q
        BY <1>1
      <4>3. QED
        BY <4>1, <4>2 DEF Range
    <3>5. Undisturbed /\ readers[r].state = "complete" => got = q
      BY <2>1, <3>1 DEF Calm, GensCalm
    <3>6. QED
      BY <1>1, <3>1, <3>3, <3>4, <3>5
  <2>3. Undisturbed /\ pulling.end \in {"no", "complete"} /\ meta.state = "complete" => meta.got
    BY <2>1 DEF Calm, LinesCalm
  <2>4. QED
    BY <2>2, <2>3 DEF AnswersWhole
<1>5. QED
  BY <1>3, <1>4

(* A reader of an answer gets messages that were asked for, in their       *)
(* order and none twice, whatever the node, the network and the other      *)
(* readers do; and as long as nobody left early or failed, it gets all of  *)
(* them or an error, and whoever wants the metadata gets it.               *)
THEOREM AnswersAlwaysWhole == StreamSpec => []AnswersWhole
<1>1. StreamInit => StreamSound
  BY StreamBegins
<1>2. StreamSound /\ [StreamNext]_streamVars => StreamSound'
  BY StreamGoesOn
<1>3. StreamSound => AnswersWhole
  BY SoundIsWhole
<1>4. QED
  BY <1>1, <1>2, <1>3, PTL DEF StreamSpec
================================================================================
