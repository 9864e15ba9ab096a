------------------------------ MODULE StakeCommands -----------------------------
(***************************************************************************)
(* The ways to stake and mint LSAN: the commands "query stake", "store     *)
(* stake" and "mint", and queryStake and stakeOrCreateStore of the client. *)
(* Several run for one account, in programs that know nothing of each      *)
(* other.  Each is a sequence of stages, run by the same steps: read,      *)
(* ask, send, wait.                                                        *)
(***************************************************************************)
EXTENDS SpeedUp

CONSTANTS Command,
          Jobs,            \* what they do: [script, manager, amount, unit, asks], see JobType
          Fees,            \* tips that the gas station names, at one time or another
          UsualFee,        \* the tip where it is not asked
          Unit,            \* 10 to the decimals of LSAN
          MaxFaults        \* bound on the calls that fail

JobType == [script : {"queryCommand", "storeCommand", "mintCommand", "queryStake",
                      "stakeOrCreateStore"},
            manager : Manager, amount : Nat, unit : {"wei", "bytes", "usd"}, asks : BOOLEAN]

ASSUME JobAssumption == /\ Jobs \subseteq [Command -> JobType]
                        /\ Fees \union {UsualFee} \subseteq 0 .. MaxTip
                        /\ Unit \in Nat \ {0} /\ MaxFaults \in Nat

VARIABLES job,
          run,             \* per command: [step, phase, amount, tip, nonce, wait, outcome]
          beside,          \* the commands that were not alone (history)
          hit              \* the commands that a fault has hit (history)

stakingVars == <<chainVars, job, run, beside, hit>>

-------------------------------------------------------------------------------
(* The stages.  requestAllowanceIfNeeded: with a question to the user, and *)
(* a wait that can be sped up, or not.                                     *)
Allow(asks, wait) == [do |-> "approve", asks |-> asks, wait |-> wait]
CheckLSANFunds == [do |-> "funds", asks |-> FALSE, wait |-> "none"]
Stake(wait) == [do |-> "stake", asks |-> FALSE, wait |-> wait]
Mint == [do |-> "mint", asks |-> FALSE, wait |-> "speedUp"]

(* prepareStake: ensureEnoughAllowance waits for the approval.             *)
PrepareStake_NotAwaited == Allow(FALSE, "none")    \* mutant
PrepareStake == Allow(FALSE, "plain")

QueryStakeCommand(asks) == <<Allow(asks, "speedUp"), CheckLSANFunds, Stake("speedUp")>>

StakeOrCreateStore(wait) == <<PrepareStake, Stake(wait)>>

(* The command ends with stakeOrCreateStore.                               *)
StoreStakeCommand(asks) ==
    <<CheckLSANFunds, Allow(asks, "speedUp"), PrepareStake, Stake("speedUp")>>

QueryStake == <<PrepareStake, Stake("plain")>>

MintCommand == <<Mint>>

Script(c) == CASE job[c].script = "queryCommand"       -> QueryStakeCommand(job[c].asks)
               [] job[c].script = "storeCommand"       -> StoreStakeCommand(job[c].asks)
               [] job[c].script = "mintCommand"        -> MintCommand
               [] job[c].script = "queryStake"         -> QueryStake
               [] job[c].script = "stakeOrCreateStore" -> StakeOrCreateStore("none")

Stage(c) == Script(c)[run[c].step]

(* convert, with ROUND_DOWN.                                               *)
Convert(amount, from, to) == (amount * Rate[from]) \div Rate[to]

(* convertFromUsd: the price of LSAN is the price of a byte (getTokenPrice)*)
(* or, when it cannot be had, a cent; the amount is one of whole tokens.   *)
ConvertFromUsd(amount) == {(amount * Unit * Rate["usd"]) \div Rate["bytes"], amount * Unit * 100}

AmountsOf(c) ==
    CASE job[c].script = "mintCommand" -> {Convert(job[c].amount, job[c].unit, "wei")}
      [] job[c].script = "queryStake" /\ job[c].unit = "usd" -> ConvertFromUsd(job[c].amount)
      [] OTHER -> {Convert(job[c].amount, job[c].unit, "bytes")}

(* What the client adds to its transactions: the fee of its configuration. *)
Overrides == {UsualFee}

(* fastPriorityIfMainNet$: only the commands ask the gas station.          *)
FastPriority(c) ==
    IF job[c].script \in {"queryStake", "stakeOrCreateStore"} THEN Overrides ELSE Fees

-------------------------------------------------------------------------------
NotBegun == [step |-> 0, phase |-> "begin", amount |-> 0, tip |-> 0, nonce |-> 0,
             wait |-> Idle, outcome |-> "none"]

StakingInit == /\ ChainInit
               /\ job \in Jobs
               /\ run = [c \in Command |-> NotBegun]
               /\ beside = {} /\ hit = {}

Running == {c \in Command : run[c].outcome = "running"}

At(c, phase) == c \in Running /\ run[c].phase = phase

Goto(c, phase) == run' = [run EXCEPT ![c].phase = phase]

End(c, outcome) == run' = [run EXCEPT ![c].outcome = outcome, ![c].wait = Idle]

Advance(c) == IF run[c].step = Len(Script(c)) THEN End(c, "success")
              ELSE run' = [run EXCEPT ![c].step = @ + 1, ![c].phase = "begin", ![c].wait = Idle]

Begin(c) ==
    /\ run[c].outcome = "none"
    /\ \E amount \in AmountsOf(c), tip \in FastPriority(c) :
          run' = [run EXCEPT ![c].step = 1, ![c].amount = amount, ![c].tip = tip,
                             ![c].outcome = "running"]
    /\ beside' = beside \union (IF Running = {} /\ Pending = {} THEN {} ELSE Running \union {c})
    /\ UNCHANGED <<chainVars, job, hit>>

(* checkLSANFunds: getBalance is read.                                     *)
CheckFunds(c) ==
    /\ At(c, "begin") /\ Stage(c).do = "funds"
    /\ IF run[c].amount > wallet THEN End(c, "failed") ELSE Advance(c)
    /\ UNCHANGED <<chainVars, job, beside, hit>>

(* requestAllowanceIfNeeded, and in front of it, in prepareStake, the      *)
(* amount is checked.                                                      *)
ReadAllowance(c) ==
    /\ At(c, "begin") /\ Stage(c).do = "approve"
    /\ IF Stage(c).wait = "plain" /\ run[c].amount = 0 THEN End(c, "failed")
       ELSE IF allowance[job[c].manager] >= run[c].amount THEN Advance(c)
       ELSE Goto(c, IF Stage(c).asks THEN "asking" ELSE "send")
    /\ UNCHANGED <<chainVars, job, beside, hit>>

(* allowanceConfirm: a user who declines ends the program.                 *)
Answer(c) ==
    /\ At(c, "asking")
    /\ Goto(c, "send") \/ End(c, "declined")
    /\ UNCHANGED <<chainVars, job, beside, hit>>

GoToSend(c) ==
    /\ At(c, "begin") /\ Stage(c).do \in {"stake", "mint"}
    /\ Goto(c, "send")
    /\ UNCHANGED <<chainVars, job, beside, hit>>

Call(c) == [do |-> Stage(c).do, to |-> job[c].manager, amount |-> run[c].amount]

(* populateTransaction: the gas is estimated, which fails where the call   *)
(* would, and the nonce is read.                                           *)
Populate(c) ==
    /\ At(c, "send")
    /\ IF Goes(Call(c))
       THEN run' = [run EXCEPT ![c].phase = "submit", ![c].nonce = PendingNonce]
       ELSE End(c, "failed")
    /\ UNCHANGED <<chainVars, job, beside, hit>>

Tx(c) == [do |-> Stage(c).do, to |-> job[c].manager, amount |-> run[c].amount,
          nonce |-> run[c].nonce, tip |-> run[c].tip, status |-> "pending", by |-> c]

Submit(c) ==
    /\ At(c, "submit")
    /\ IF NonceUsed(Tx(c)) \/ FeeTooLow(Tx(c))
       THEN End(c, "failed") /\ UNCHANGED chainVars
       ELSE /\ Accept(Tx(c))
            /\ IF Stage(c).wait = "none" /\ run[c].step = Len(Script(c)) THEN End(c, "returned")
               ELSE IF Stage(c).wait = "none" THEN Advance(c)
               ELSE run' = [run EXCEPT ![c].phase = "waiting", ![c].wait = Watching(Len(txs) + 1)]
    /\ UNCHANGED <<job, beside, hit>>

(* getTransferAmountFromEcr2Transfer finds a transfer in the receipt.      *)
Transferred(r) == txs[r].status = "done" /\ txs[r].do # "approve"

(* The wait ends with a receipt or an error.                               *)
Received(c, i, r) ==
    IF Stage(c).wait = "plain" THEN Receipt(i, r)
    ELSE AcceptedReceipt(i, r) /\ (Stage(c).do = "mint" => Transferred(r))

Wait(c) ==
    /\ At(c, "waiting")
    /\ \E i \in run[c].wait.watch : \E r \in Mined :
          /\ WaitEnds(i, r)
          /\ IF Received(c, i, r) THEN Advance(c) ELSE End(c, "failed")
    /\ UNCHANGED <<chainVars, job, beside, hit>>

(* The user presses enter, and the transaction is replaced.                *)
Prompt(c) ==
    /\ At(c, "waiting") /\ Stage(c).wait = "speedUp" /\ CanPress(run[c].wait)
    /\ run' = [run EXCEPT ![c].wait = PressEnter(@)]
    /\ UNCHANGED <<chainVars, job, beside, hit>>

Raise(c) ==
    /\ At(c, "waiting")
    /\ \/ /\ CanReplace(run[c].wait)
          /\ Accept(Replacement(run[c].wait.base))
          /\ run' = [run EXCEPT ![c].wait = Replaced(@)]
       \/ /\ CanGiveUp(run[c].wait)
          /\ run' = [run EXCEPT ![c].wait = GivenUp(@)]
          /\ UNCHANGED chainVars
    /\ UNCHANGED <<job, beside, hit>>

-------------------------------------------------------------------------------
(* A call fails.  queryAllReadonlyContracts has then tried every provider; *)
(* a transaction may have got through though its answer was lost; while a  *)
(* command waits, an error only matters to a prompt, where it takes the    *)
(* receipt of another transaction, or where it then asks for the fee that  *)
(* it was charged.                                                         *)
Fault(c) ==
    /\ Cardinality(hit) < MaxFaults
    /\ \/ \E phase \in {"begin", "send", "submit"} : At(c, phase) /\ End(c, "failed") /\ UNCHANGED chainVars
       \/ /\ At(c, "submit") /\ ~NonceUsed(Tx(c)) /\ ~FeeTooLow(Tx(c))
          /\ Accept(Tx(c)) /\ End(c, "failed")
       \/ /\ At(c, "waiting") /\ run[c].wait.raise = "raising"
          /\ run' = [run EXCEPT ![c].wait = GivenUp(@)] /\ UNCHANGED chainVars
       \/ /\ At(c, "waiting") /\ Stage(c).wait = "speedUp"
          /\ \E i \in run[c].wait.watch : \/ MinedUnder(i) \ {i} # {}
                                          \/ MinedUnder(i) # {} /\ run[c].step = Len(Script(c))
          /\ End(c, "failed") /\ UNCHANGED chainVars
    /\ hit' = hit \union {c}
    /\ UNCHANGED <<job, beside>>

MineOne == /\ \E i \in DOMAIN txs : Mine(i)
           /\ UNCHANGED <<job, run, beside, hit>>

Proceed(c) == \/ CheckFunds(c) \/ ReadAllowance(c) \/ Answer(c) \/ GoToSend(c) \/ Populate(c)
              \/ Submit(c) \/ Wait(c) \/ Raise(c)

StakingNext == MineOne \/ \E c \in Command : Begin(c) \/ Proceed(c) \/ Prompt(c) \/ Fault(c)

(* The chain mines, questions are answered and calls are.                  *)
StakingSpec == /\ StakingInit /\ [][StakingNext]_stakingVars
               /\ WF_stakingVars(MineOne) /\ \A c \in Command : WF_stakingVars(Proceed(c))

-------------------------------------------------------------------------------
Own(c) == {i \in DOMAIN txs : txs[i].by = c /\ txs[i].do # "approve"}

(* What the command was there for: its stake, or its mint.                 *)
Achieved(c) == {i \in Own(c) : txs[i].status = "done"}

(* The wait took the receipt of a transaction that it was not for: that of *)
(* another program which had read the same nonce, or of a replacement that *)
(* was reverted.                                                           *)
TookAnother(c) == \E i \in Own(c) : \E r \in MinedUnder(i) :
                     r \notin Own(c) \/ (txs[r].status = "reverted" /\ Cardinality(Own(c)) > 1)

(* Tokens are staked once, however often a transaction was replaced; a     *)
(* command that reports success has staked (or minted), unless it took     *)
(* another transaction for its own; one that reports failure has not, and  *)
(* will not, unless a call failed.                                         *)
ReportsTrue == \A c \in Command :
    /\ Cardinality(Achieved(c)) <= 1
    /\ run[c].outcome = "success" => Achieved(c) # {} \/ TookAnother(c)
    /\ run[c].outcome = "failed" /\ c \notin hit => Achieved(c) = {} /\ Own(c) \cap Pending = {}

(* A command that runs by itself fails for want of tokens only, or because *)
(* a call failed: what it has allowed is there when it stakes.             *)
Short(c) == \/ run[c].amount = 0
            \/ run[c].amount > wallet /\ job[c].script # "mintCommand"
            \/ run[c].amount < MinimumMint /\ job[c].script = "mintCommand"

AloneSucceeds ==
    [][\A c \in Running : run'[c].outcome = "failed" => c \in beside \union hit' \/ Short(c)]_stakingVars

(* Every command comes to an end, whatever is replaced, by itself or by    *)
(* others, as long as the chain mines and the user answers.                *)
CommandsEnd == <>[](Running = {})
================================================================================
