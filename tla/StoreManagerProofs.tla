--------------------------- MODULE StoreManagerProofs ---------------------------
(* Theorems about StoreManager, with their proofs.                         *)
EXTENDS StoreManager, Induction

State == [stores         : [Stream -> Nat],
          stakeholders   : [Stream -> Seq(User)],
          balanceOf      : [User -> Nat],
          storeBalanceOf : [User -> [Stream -> Nat]],
          totalSupply    : Nat,
          held           : Nat]

PartsOf(st, s) == [u \in User |-> st.storeBalanceOf[u][s]]

(* AccountsAgree without the types, of any state of the contract.          *)
Agree(st) ==
    /\ st.held = SumFunction(st.stores)
    /\ \A u \in User : st.balanceOf[u] = SumFunction(st.storeBalanceOf[u])
    /\ \A s \in Stream : SumFunction(PartsOf(st, s)) >= st.stores[s]

LEMMA AgreeIsProperty ==
    AccountsAgree <=> TypeOK /\ Agree(store)
BY DEF AccountsAgree, HeldIsStored, BalancesAgree, StakeCoversStore, StakeIn, Agree, PartsOf

LEMMA EmptyAgrees == EmptyStore \in State /\ Agree(EmptyStore)
<1>1. EmptyStore \in State
  BY DEF EmptyStore, State
<1>2. /\ SumFunction([s \in Stream |-> 0]) = 0
      /\ SumFunction([u \in User |-> 0]) = 0
  BY FiniteAssumption, SumOfZeros
<1>3. \A s \in Stream : PartsOf(EmptyStore, s) = [u \in User |-> 0]
  BY DEF PartsOf, EmptyStore
<1>4. QED
  BY <1>1, <1>2, <1>3 DEF Agree, EmptyStore

(* A stake adds the same to the tokens, to the stream, and to the account. *)
LEMMA StakedAgrees ==
    ASSUME NEW st \in State, Agree(st), NEW u \in User, NEW s \in Stream, NEW amount \in Nat
    PROVE  Staked(st, u, s, amount) \in State /\ Agree(Staked(st, u, s, amount))
<1>1. PICK after : after = Staked(st, u, s, amount)
  OBVIOUS
<1>2. /\ after.stores = [st.stores EXCEPT ![s] = st.stores[s] + amount]
      /\ after.stakeholders = [st.stakeholders EXCEPT ![s] = Listed(st, u, s)]
      /\ after.balanceOf = [st.balanceOf EXCEPT ![u] = st.balanceOf[u] + amount]
      /\ after.storeBalanceOf = [st.storeBalanceOf EXCEPT
                                   ![u] = [st.storeBalanceOf[u] EXCEPT
                                             ![s] = st.storeBalanceOf[u][s] + amount]]
      /\ after.totalSupply = st.totalSupply + amount
      /\ after.held = st.held + amount
  BY <1>1 DEF Staked, State
<1>3. /\ st.stores \in [Stream -> Nat] /\ st.stakeholders \in [Stream -> Seq(User)]
      /\ st.balanceOf \in [User -> Nat] /\ st.storeBalanceOf \in [User -> [Stream -> Nat]]
      /\ st.totalSupply \in Nat /\ st.held \in Nat
  BY DEF State
<1>4. after \in State
  <2>1. Listed(st, u, s) \in Seq(User)
    BY <1>3 DEF Listed
  <2>2. /\ after.stores \in [Stream -> Nat]
        /\ after.stakeholders \in [Stream -> Seq(User)]
        /\ after.balanceOf \in [User -> Nat]
        /\ after.storeBalanceOf \in [User -> [Stream -> Nat]]
        /\ after.totalSupply \in Nat
        /\ after.held \in Nat
    <3>1. st.stores[s] + amount \in Nat /\ st.balanceOf[u] + amount \in Nat
      BY <1>3
    <3>2. st.storeBalanceOf[u] \in [Stream -> Nat] /\ st.storeBalanceOf[u][s] + amount \in Nat
      BY <1>3
    <3>3. [st.storeBalanceOf[u] EXCEPT ![s] = st.storeBalanceOf[u][s] + amount] \in [Stream -> Nat]
      BY <3>2
    <3>4. after.stores \in [Stream -> Nat] /\ after.balanceOf \in [User -> Nat]
      BY <1>2, <1>3, <3>1
    <3>5. after.storeBalanceOf \in [User -> [Stream -> Nat]]
      BY <1>2, <1>3, <3>3
    <3>6. after.stakeholders \in [Stream -> Seq(User)]
      BY <1>2, <1>3, <2>1
    <3>7. after.totalSupply \in Nat /\ after.held \in Nat
      <4>1. st.totalSupply + amount \in Nat /\ st.held + amount \in Nat
        BY <1>3
      <4>2. QED
        BY ONLY <1>2, <4>1
    <3>8. QED
      BY <3>4, <3>5, <3>6, <3>7
  <2>3. after = [stores |-> after.stores, stakeholders |-> after.stakeholders,
                 balanceOf |-> after.balanceOf, storeBalanceOf |-> after.storeBalanceOf,
                 totalSupply |-> after.totalSupply, held |-> after.held]
    BY <1>1 DEF Staked, State
  <2>4. QED
    BY <2>2, <2>3 DEF State
<1>5. after.held = SumFunction(after.stores)
  <2>1. st.stores \in [Stream -> Int] /\ st.stores[s] + amount \in Int
    BY <1>3
  <2>2. SumFunction(after.stores) = SumFunction(st.stores) - st.stores[s] + (st.stores[s] + amount)
    BY <1>2, <2>1, SumChanged, FiniteAssumption
  <2>3. SumFunction(st.stores) \in Int
    BY <2>1, SumIsInt, FiniteAssumption
  <2>4. QED
    BY <1>2, <1>3, <2>2, <2>3 DEF Agree
<1>6. ASSUME NEW v \in User PROVE after.balanceOf[v] = SumFunction(after.storeBalanceOf[v])
  <2>1. CASE v = u
    <3>1. PICK f : f = st.storeBalanceOf[u]
      OBVIOUS
    <3>2. f \in [Stream -> Int] /\ f[s] \in Int /\ f[s] + amount \in Int
      BY <1>3, <3>1
    <3>3. SumFunction([f EXCEPT ![s] = f[s] + amount]) = SumFunction(f) - f[s] + (f[s] + amount)
      BY <3>2, SumChanged, FiniteAssumption
    <3>4. after.storeBalanceOf[v] = [f EXCEPT ![s] = f[s] + amount]
      BY <1>2, <1>3, <2>1, <3>1
    <3>5. after.balanceOf[v] = st.balanceOf[u] + amount /\ st.balanceOf[u] = SumFunction(f)
      BY <1>2, <1>3, <2>1, <3>1 DEF Agree
    <3>6. SumFunction(f) \in Int
      BY <3>2, SumIsInt, FiniteAssumption
    <3>7. QED
      BY <3>2, <3>3, <3>4, <3>5, <3>6
  <2>2. CASE v # u
    BY <1>2, <1>3, <2>2 DEF Agree
  <2>3. QED
    BY <2>1, <2>2
<1>7. ASSUME NEW r \in Stream PROVE SumFunction(PartsOf(after, r)) >= after.stores[r]
  <2>1. PICK f : f = PartsOf(st, r)
    OBVIOUS
  <2>2. f \in [User -> Int] /\ f[u] = st.storeBalanceOf[u][r] /\ SumFunction(f) >= st.stores[r]
    <3>1. \A v \in User : f[v] = st.storeBalanceOf[v][r] /\ st.storeBalanceOf[v][r] \in Int
      BY <1>3, <2>1 DEF PartsOf
    <3>2. f = [v \in User |-> f[v]]
      BY <2>1 DEF PartsOf
    <3>3. f \in [User -> Int]
      BY <3>1, <3>2
    <3>4. SumFunction(f) >= st.stores[r]
      BY <2>1 DEF Agree
    <3>5. QED
      BY <3>1, <3>3, <3>4
  <2>3. CASE r = s
    <3>1. PartsOf(after, r) = [f EXCEPT ![u] = f[u] + amount]
      <4>1. ASSUME NEW v \in User
            PROVE  after.storeBalanceOf[v][r] = [f EXCEPT ![u] = f[u] + amount][v]
        <5>1. f[v] = st.storeBalanceOf[v][r]
          BY <2>1 DEF PartsOf
        <5>2. CASE v = u
          BY <1>2, <1>3, <2>2, <2>3, <5>2
        <5>3. CASE v # u
          BY <1>2, <1>3, <2>2, <5>1, <5>3
        <5>4. QED
          BY <5>2, <5>3
      <4>2. [f EXCEPT ![u] = f[u] + amount] = [v \in User |-> [f EXCEPT ![u] = f[u] + amount][v]]
        BY <2>2
      <4>3. QED
        BY <4>1, <4>2 DEF PartsOf
    <3>2. f[u] \in Int /\ f[u] + amount \in Int
      BY <2>2
    <3>3. SumFunction(PartsOf(after, r)) = SumFunction(f) - f[u] + (f[u] + amount)
      <4>1. f \in [User -> Int]
        BY <2>2
      <4>2. SumFunction([f EXCEPT ![u] = f[u] + amount]) = SumFunction(f) - f[u] + (f[u] + amount)
        BY <3>2, <4>1, SumChanged, FiniteAssumption
      <4>3. QED
        BY <3>1, <4>2
    <3>4. SumFunction(f) \in Int
      BY <2>2, SumIsInt, FiniteAssumption
    <3>5. after.stores[r] = st.stores[r] + amount /\ st.stores[r] \in Nat
      BY <1>2, <1>3, <2>3
    <3>6. QED
      BY <2>2, <3>2, <3>3, <3>4, <3>5
  <2>4. CASE r # s
    <3>1. PartsOf(after, r) = f
      <4>1. ASSUME NEW v \in User PROVE after.storeBalanceOf[v][r] = st.storeBalanceOf[v][r]
        <5>1. PICK mine : mine = [st.storeBalanceOf[u] EXCEPT ![s] = st.storeBalanceOf[u][s] + amount]
          OBVIOUS
        <5>2. mine[r] = st.storeBalanceOf[u][r]
          BY <1>3, <2>4, <5>1
        <5>3. after.storeBalanceOf = [st.storeBalanceOf EXCEPT ![u] = mine]
          BY ONLY <1>2, <5>1
        <5>4. QED
          BY ONLY <1>3, <5>2, <5>3, v \in User, u \in User
      <4>2. QED
        BY ONLY <2>1, <4>1 DEF PartsOf
    <3>2. after.stores[r] = st.stores[r]
      BY <1>2, <1>3, <2>4
    <3>3. QED
      BY <2>2, <3>1, <3>2
  <2>5. QED
    BY <2>3, <2>4
<1>8. QED
  BY <1>1, <1>4, <1>5, <1>6, <1>7 DEF Agree
-------------------------------------------------------------------------------
(* capture: what the loop over the stakeholders keeps.  Every account has  *)
(* as much outside the stream as before; and as long as the stream had the *)
(* amount, the accounts are those it started from or one of them alone     *)
(* still covers what the stream is left with, however often it was         *)
(* charged: a charge takes a whole number of amounts, one for each whole   *)
(* stream the account holds.                                               *)
AccountsIn(st, s, amount) ==
    {acc \in [total : [User -> Nat], part : [User -> Nat], list : Seq(User)] :
        /\ \A u \in User : acc.total[u] = st.balanceOf[u] - st.storeBalanceOf[u][s] + acc.part[u]
        /\ \/ st.stores[s] < amount
           \/ acc.part = PartsOf(st, s)
           \/ \E u \in User : acc.part[u] >= st.stores[s] - amount}

LEMMA PartWithinTotal ==
    ASSUME NEW st \in State, Agree(st), NEW s \in Stream, NEW u \in User
    PROVE  /\ st.balanceOf[u] \in Nat /\ st.storeBalanceOf[u][s] \in Nat
           /\ st.storeBalanceOf[u][s] <= st.balanceOf[u]
<1>1. PICK f : f = st.storeBalanceOf[u]
  OBVIOUS
<1>2. f \in [Stream -> Nat] /\ st.balanceOf[u] \in Nat /\ f[s] \in Nat
  BY <1>1 DEF State
<1>3. \A r \in Stream : f[r] <= SumFunction(f)
  BY <1>2, SumIsNat, FiniteAssumption
<1>4. st.balanceOf[u] = SumFunction(f)
  BY <1>1 DEF Agree
<1>5. QED
  BY <1>1, <1>2, <1>3, <1>4

LEMMA StartsIn ==
    ASSUME NEW st \in State, Agree(st), NEW s \in Stream, NEW amount \in Nat
    PROVE  Accounts(st, s) \in AccountsIn(st, s, amount)
<1>1. /\ st.stakeholders[s] \in Seq(User) /\ st.balanceOf \in [User -> Nat]
      /\ st.storeBalanceOf \in [User -> [Stream -> Nat]]
  BY DEF State
<1>2. PartsOf(st, s) \in [User -> Nat]
  BY <1>1 DEF PartsOf
<1>3. PICK acc : acc = Accounts(st, s)
  OBVIOUS
<1>4. acc.total = st.balanceOf /\ acc.part = PartsOf(st, s) /\ acc.list = st.stakeholders[s]
  BY <1>3 DEF Accounts, PartsOf
<1>5. acc \in [total : [User -> Nat], part : [User -> Nat], list : Seq(User)]
  BY <1>1, <1>2, <1>3 DEF Accounts, PartsOf
<1>6. ASSUME NEW u \in User
      PROVE  acc.total[u] = st.balanceOf[u] - st.storeBalanceOf[u][s] + acc.part[u]
  <2>1. acc.part[u] = st.storeBalanceOf[u][s]
    BY <1>4 DEF PartsOf
  <2>2. QED
    BY <1>4, <2>1, PartWithinTotal
<1>7. QED
  BY <1>3, <1>4, <1>5, <1>6 DEF AccountsIn

(* A division rounds down, so that a charge leaves an account that had a   *)
(* whole stream at least what the stream is left with.                     *)
LEMMA ChargeBounds ==
    ASSUME NEW part \in Nat, NEW stake \in Nat, stake > 0, NEW amount \in Nat, amount <= stake
    PROVE  /\ Charge(part, stake, amount) \in Nat
           /\ Charge(part, stake, amount) <= part
           /\ part < stake => Charge(part, stake, amount) = 0
           /\ part >= stake => part - Charge(part, stake, amount) >= stake - amount
<1>1. PICK k : k = part \div stake
  OBVIOUS
<1>2. k \in Nat /\ k * stake <= part /\ part < (k + 1) * stake
  BY <1>1, SMTT(30)
<1>3. k * amount <= k * stake /\ k * amount \in Nat
  BY <1>2, SMTT(30)
<1>4. part < stake => k = 0
  BY <1>2, SMTT(30)
<1>5. part >= stake => k >= 1
  BY <1>2, SMTT(30)
<1>6. k >= 1 => k * (stake - amount) >= stake - amount
  BY <1>2, SMTT(30)
<1>7. k * (stake - amount) = k * stake - k * amount
  BY <1>2, SMTT(30)
<1>8. Charge(part, stake, amount) = k * amount
  BY <1>1 DEF Charge
<1>9. k = 0 => k * amount = 0
  OBVIOUS
<1>10. k * stake \in Nat
  BY <1>2
<1>11. QED
  BY <1>2, <1>3, <1>4, <1>5, <1>6, <1>7, <1>8, <1>9, <1>10

LEMMA ListAfterIn ==
    ASSUME NEW u \in User, NEW copy \in Seq(User)
    PROVE  ListAfter(u, copy) \in Seq(User)
<1>1. IsFiniteSet({i \in 1 .. Len(copy) : copy[i] # u})
  BY FS_Interval, FS_Subset
<1>2. Cardinality({i \in 1 .. Len(copy) : copy[i] # u}) \in Nat
  BY <1>1, FS_CardinalityType
<1>3. QED
  BY <1>2 DEF ListAfter

LEMMA EmptiedKeeps ==
    ASSUME NEW st \in State, Agree(st), NEW s \in Stream, NEW amount \in Nat,
           st.stores[s] < amount, NEW acc \in AccountsIn(st, s, amount), NEW u \in User
    PROVE  Emptied(acc, u) \in AccountsIn(st, s, amount)
<1>1. PICK after : after = Emptied(acc, u)
  OBVIOUS
<1>2. /\ acc.total \in [User -> Nat] /\ acc.part \in [User -> Nat] /\ acc.list \in Seq(User)
      /\ acc = [total |-> acc.total, part |-> acc.part, list |-> acc.list]
      /\ \A v \in User : acc.total[v] = st.balanceOf[v] - st.storeBalanceOf[v][s] + acc.part[v]
  BY DEF AccountsIn
<1>3. after = [total |-> [acc.total EXCEPT ![u] = Minus(acc.total[u], acc.part[u])],
               part |-> [acc.part EXCEPT ![u] = 0], list |-> acc.list]
  BY <1>1, <1>2 DEF Emptied
<1>4. Minus(acc.total[u], acc.part[u]) = acc.total[u] - acc.part[u]
      /\ Minus(acc.total[u], acc.part[u]) \in Nat
  <2>1. /\ acc.total[u] \in Nat /\ acc.part[u] \in Nat
        /\ acc.total[u] = st.balanceOf[u] - st.storeBalanceOf[u][s] + acc.part[u]
    BY <1>2
  <2>2. QED
    BY <2>1, PartWithinTotal DEF Minus
<1>5. after.total \in [User -> Nat] /\ after.part \in [User -> Nat]
  BY <1>2, <1>3, <1>4
<1>6. ASSUME NEW v \in User
      PROVE  after.total[v] = st.balanceOf[v] - st.storeBalanceOf[v][s] + after.part[v]
  <2>1. /\ after.total[v] = IF v = u THEN acc.total[u] - acc.part[u] ELSE acc.total[v]
        /\ after.part[v] = IF v = u THEN 0 ELSE acc.part[v]
    BY <1>2, <1>3, <1>4
  <2>2. acc.total[v] \in Nat /\ acc.part[v] \in Nat
    BY <1>2
  <2>3. QED
    BY <1>2, <2>1, <2>2, PartWithinTotal
<1>7. after \in [total : [User -> Nat], part : [User -> Nat], list : Seq(User)]
  BY <1>2, <1>3, <1>5
<1>8. QED
  BY <1>1, <1>6, <1>7 DEF AccountsIn

LEMMA ChargedKeeps ==
    ASSUME NEW st \in State, Agree(st), NEW s \in Stream, NEW amount \in Nat,
           st.stores[s] > 0, amount <= st.stores[s],
           NEW acc \in AccountsIn(st, s, amount), NEW u \in User
    PROVE  Charged(acc, u, st.stores[s], amount, st.stakeholders[s])
               \in AccountsIn(st, s, amount)
<1> DEFINE stake == st.stores[s]
<1>1. PICK after : after = Charged(acc, u, stake, amount, st.stakeholders[s])
  OBVIOUS
<1>2. /\ acc.total \in [User -> Nat] /\ acc.part \in [User -> Nat] /\ acc.list \in Seq(User)
      /\ \A v \in User : acc.total[v] = st.balanceOf[v] - st.storeBalanceOf[v][s] + acc.part[v]
      /\ \/ acc.part = PartsOf(st, s)
         \/ \E v \in User : acc.part[v] >= stake - amount
  <2>1. stake \in Nat
    BY DEF State
  <2>2. QED
    BY <2>1 DEF AccountsIn
<1>3. PICK deduction : deduction = Charge(acc.part[u], stake, amount)
  OBVIOUS
<1>4. /\ acc.part[u] \in Nat /\ acc.total[u] \in Nat /\ acc.part[u] <= acc.total[u]
      /\ stake \in Nat /\ stake > 0 /\ amount <= stake
  <2>1. acc.total[u] = st.balanceOf[u] - st.storeBalanceOf[u][s] + acc.part[u]
    BY <1>2
  <2>2. acc.part[u] \in Nat /\ acc.total[u] \in Nat
    BY <1>2
  <2>3. st.stores[s] \in Nat
    BY DEF State
  <2>4. QED
    BY <2>1, <2>2, <2>3, PartWithinTotal
<1>5. /\ deduction \in Nat /\ deduction <= acc.part[u]
      /\ acc.part[u] < stake => deduction = 0
      /\ acc.part[u] >= stake => acc.part[u] - deduction >= stake - amount
  BY <1>3, <1>4, ChargeBounds
<1>6. /\ Minus(acc.part[u], deduction) = acc.part[u] - deduction
      /\ Minus(acc.total[u], deduction) = acc.total[u] - deduction
      /\ acc.part[u] - deduction \in Nat /\ acc.total[u] - deduction \in Nat
  BY <1>4, <1>5 DEF Minus
<1>7. /\ after.total = [acc.total EXCEPT ![u] = acc.total[u] - deduction]
      /\ after.part = [acc.part EXCEPT ![u] = acc.part[u] - deduction]
  BY <1>1, <1>3, <1>6 DEF Charged
<1>8. after \in [total : [User -> Nat], part : [User -> Nat], list : Seq(User)]
  <2>1. after.total \in [User -> Nat] /\ after.part \in [User -> Nat]
    BY <1>2, <1>6, <1>7
  <2>2. after.list \in Seq(User)
    <3>1. st.stakeholders[s] \in Seq(User)
      BY DEF State
    <3>2. after.list = ListAfter(u, st.stakeholders[s]) \/ after.list = acc.list
      BY <1>1 DEF Charged
    <3>3. QED
      BY <1>2, <3>1, <3>2, ListAfterIn
  <2>3. after = [total |-> after.total, part |-> after.part, list |-> after.list]
    BY <1>1 DEF Charged
  <2>4. QED
    BY <2>1, <2>2, <2>3
<1>9. ASSUME NEW v \in User
      PROVE  after.total[v] = st.balanceOf[v] - st.storeBalanceOf[v][s] + after.part[v]
  <2>1. /\ after.total[v] = IF v = u THEN acc.total[u] - deduction ELSE acc.total[v]
        /\ after.part[v] = IF v = u THEN acc.part[u] - deduction ELSE acc.part[v]
    BY <1>2, <1>7
  <2>2. acc.total[v] \in Nat /\ acc.part[v] \in Nat
    BY <1>2
  <2>3. /\ st.balanceOf[v] \in Nat /\ st.storeBalanceOf[v][s] \in Nat /\ deduction \in Nat
        /\ acc.total[v] = st.balanceOf[v] - st.storeBalanceOf[v][s] + acc.part[v]
    BY <1>2, <1>5, PartWithinTotal
  <2>4. QED
    BY <2>1, <2>2, <2>3
<1>10. after.part = PartsOf(st, s) \/ \E v \in User : after.part[v] >= stake - amount
  <2>1. CASE acc.part[u] >= stake
    <3>1. after.part[u] = acc.part[u] - deduction
      BY <1>2, <1>7
    <3>2. QED
      BY <1>5, <2>1, <3>1
  <2>2. CASE acc.part[u] < stake
    <3>1. deduction = 0
      BY <1>5, <2>2
    <3>2. \A v \in User : after.part[v] = acc.part[v] /\ acc.part[v] \in Nat
      BY <1>2, <1>7, <3>1
    <3>3. after.part = acc.part
      BY <1>2, <3>2, <1>8
    <3>4. QED
      BY <1>2, <3>3
  <2>3. QED
    BY <1>4, <2>1, <2>2
<1>11. QED
  BY <1>1, <1>8, <1>9, <1>10 DEF AccountsIn

(* The loop of capture, as the function it defines.                        *)
Loop(after, st, s, amount) ==
    after = [i \in 0 .. Len(st.stakeholders[s]) |->
                IF i = 0 THEN Accounts(st, s)
                ELSE IF st.stores[s] < amount
                THEN Emptied(after[i - 1], st.stakeholders[s][i])
                ELSE Charged(after[i - 1], st.stakeholders[s][i], st.stores[s], amount,
                             st.stakeholders[s])]

LEMMA LoopExists ==
    ASSUME NEW st \in State, Agree(st), NEW s \in Stream, NEW amount \in Nat, st.stores[s] > 0
    PROVE  \E after : Loop(after, st, s, amount)
<1> DEFINE copy == st.stakeholders[s]
           n == Len(copy)
           D == AccountsIn(st, s, amount)
           Turn(i, acc) == IF st.stores[s] < amount THEN Emptied(acc, copy[i])
                           ELSE Charged(acc, copy[i], st.stores[s], amount, copy)
<1>1. /\ copy \in Seq(User) /\ n \in Nat /\ st.stores[s] \in Nat
      /\ \A i \in 1 .. n : copy[i] \in User
  BY DEF State
<1>2. PICK step : step = [p \in (1 .. n) \X D |-> Turn(p[1], p[2])]
  OBVIOUS
<1>3. ASSUME NEW i \in 1 .. n, NEW acc \in D PROVE step[<<i, acc>>] = Turn(i, acc) /\ Turn(i, acc) \in D
  <2>1. step[<<i, acc>>] = Turn(i, acc)
    BY <1>2
  <2>2. copy[i] \in User
    BY <1>1
  <2>3. CASE st.stores[s] < amount
    <3>1. Emptied(acc, copy[i]) \in D
      BY <2>2, <2>3, EmptiedKeeps
    <3>2. QED
      BY <2>1, <2>3, <3>1
  <2>4. CASE ~ (st.stores[s] < amount)
    <3>1. amount <= st.stores[s]
      BY <1>1, <2>4
    <3>2. Charged(acc, copy[i], st.stores[s], amount, copy) \in D
      BY <2>2, <3>1, ChargedKeeps
    <3>3. QED
      BY <2>1, <2>4, <3>2
  <2>5. QED
    BY <2>3, <2>4
<1>4. step \in [(1 .. n) \X D -> D]
  <2>1. ASSUME NEW p \in (1 .. n) \X D PROVE Turn(p[1], p[2]) \in D
    BY <1>3
  <2>2. QED
    BY <1>2, <2>1
<1>5. PICK base \in D : base = Accounts(st, s)
  BY StartsIn
<1>6. PICK g \in [0 .. n -> D] : Turning(g, n, base, step)
  BY <1>1, <1>4, Recursion
<1>7. ASSUME NEW i \in 0 .. n
      PROVE  g[i] = IF i = 0 THEN Accounts(st, s) ELSE Turn(i, g[i - 1])
  <2>1. g[i] = IF i = 0 THEN base ELSE step[<<i, g[i - 1]>>]
    BY <1>6 DEF Turning
  <2>2. i # 0 => i \in 1 .. n /\ i - 1 \in 0 .. n
    BY <1>1
  <2>3. i # 0 => g[i - 1] \in D
    BY <2>2
  <2> HIDE DEF Turn, D
  <2>4. QED
    BY <1>3, <1>5, <2>1, <2>2, <2>3
<1>8. g = [i \in 0 .. n |-> IF i = 0 THEN Accounts(st, s) ELSE Turn(i, g[i - 1])]
  <2> HIDE DEF Turn, D, n
  <2>1. QED
    BY <1>7
<1>9. Loop(g, st, s, amount)
  BY <1>8 DEF Loop
<1>10. QED
  BY <1>9

LEMMA AccountsAfterIn ==
    ASSUME NEW st \in State, Agree(st), NEW s \in Stream, NEW amount \in Nat, st.stores[s] > 0
    PROVE  AccountsAfter(st, s, amount) \in AccountsIn(st, s, amount)
<1> DEFINE copy == st.stakeholders[s]
           n == Len(copy)
<1>1. /\ copy \in Seq(User) /\ n \in Nat /\ st.stores[s] \in Nat
      /\ \A i \in 1 .. n : copy[i] \in User
  BY DEF State
<1>2. PICK after : after = CHOOSE g : Loop(g, st, s, amount)
  OBVIOUS
<1>3. Loop(after, st, s, amount)
  BY <1>2, LoopExists
<1>4. AccountsAfter(st, s, amount)
        = [after[n] EXCEPT !.list = IF st.stores[s] < amount THEN <<>> ELSE after[n].list]
  BY <1>2 DEF AccountsAfter, Loop
<1>5. PICK D : D = AccountsIn(st, s, amount)
  OBVIOUS
<1>6. after[0] \in D
  <2>1. after[0] = Accounts(st, s)
    BY <1>1, <1>3 DEF Loop
  <2>2. QED
    BY <1>5, <2>1, StartsIn
<1>7. ASSUME NEW i \in 1 .. n, after[i - 1] \in D PROVE after[i] \in D
  <2>1. copy[i] \in User /\ i \in 0 .. n /\ i # 0
    BY <1>1
  <2>2. after[i] = IF st.stores[s] < amount THEN Emptied(after[i - 1], copy[i])
                   ELSE Charged(after[i - 1], copy[i], st.stores[s], amount, copy)
    BY <1>3, <2>1 DEF Loop
  <2>3. CASE st.stores[s] < amount
    BY <1>5, <1>7, <2>1, <2>2, <2>3, EmptiedKeeps
  <2>4. CASE ~ (st.stores[s] < amount)
    <3>1. amount <= st.stores[s]
      BY <1>1, <2>4
    <3>2. QED
      BY <1>5, <1>7, <2>1, <2>2, <2>4, <3>1, ChargedKeeps
  <2>5. QED
    BY <2>3, <2>4
<1>8. after[n] \in D
  <2>1. \A i \in 0 .. n : after[i] \in D
    <3> HIDE DEF n
    <3>1. QED
      BY <1>1, <1>6, <1>7, Stays
  <2>2. QED
    BY <1>1, <2>1
<1>9. PICK acc : acc = after[n]
  OBVIOUS
<1>10. PICK new : new = [acc EXCEPT !.list = IF st.stores[s] < amount THEN <<>> ELSE acc.list]
  OBVIOUS
<1>11. acc \in AccountsIn(st, s, amount)
  BY <1>5, <1>8, <1>9
<1>12. new \in AccountsIn(st, s, amount)
  <2>1. acc \in [total : [User -> Nat], part : [User -> Nat], list : Seq(User)]
    BY <1>11 DEF AccountsIn
  <2>2. /\ new \in [total : [User -> Nat], part : [User -> Nat], list : Seq(User)]
        /\ new.total = acc.total /\ new.part = acc.part
    <3>1. PICK list : list = IF st.stores[s] < amount THEN <<>> ELSE acc.list
      OBVIOUS
    <3>2. list \in Seq(User)
      BY <2>1, <3>1
    <3>3. new = [acc EXCEPT !.list = list]
      BY <1>10, <3>1
    <3>4. QED
      BY <2>1, <3>2, <3>3
  <2>3. QED
    BY <1>11, <2>2 DEF AccountsIn
<1>13. QED
  BY <1>4, <1>9, <1>10, <1>12

(* A capture takes as much from the tokens as from the stream, and leaves  *)
(* the accounts as the loop does.                                          *)
LEMMA CapturedAgrees ==
    ASSUME NEW st \in State, Agree(st), NEW s \in Stream, NEW amount \in Nat,
           CanCapture(st, s, amount)
    PROVE  Captured(st, s, amount) \in State /\ Agree(Captured(st, s, amount))
<1>1. PICK after : after = Captured(st, s, amount)
  OBVIOUS
<1>2. PICK acc : acc = AccountsAfter(st, s, amount)
  OBVIOUS
<1>3. /\ st.stores \in [Stream -> Nat] /\ st.stakeholders \in [Stream -> Seq(User)]
      /\ st.balanceOf \in [User -> Nat] /\ st.storeBalanceOf \in [User -> [Stream -> Nat]]
      /\ st.totalSupply \in Nat /\ st.held \in Nat /\ st.stores[s] \in Nat
  BY DEF State
<1>4. /\ st.stores[s] > 0 /\ Taken(st, s, amount) \in Nat
      /\ Taken(st, s, amount) <= st.stores[s] /\ Taken(st, s, amount) <= st.held
      /\ Minus(st.stores[s], amount) = st.stores[s] - Taken(st, s, amount)
      /\ Minus(st.stores[s], amount) \in Nat
  BY <1>3 DEF CanCapture, Taken, Minus
<1>5. acc \in AccountsIn(st, s, amount)
  BY <1>2, <1>4, AccountsAfterIn
<1>6. /\ acc.total \in [User -> Nat] /\ acc.part \in [User -> Nat] /\ acc.list \in Seq(User)
      /\ \A u \in User : acc.total[u] = st.balanceOf[u] - st.storeBalanceOf[u][s] + acc.part[u]
      /\ \/ st.stores[s] < amount
         \/ acc.part = PartsOf(st, s)
         \/ \E u \in User : acc.part[u] >= st.stores[s] - amount
  BY <1>5 DEF AccountsIn
<1>7. /\ after.stores = [st.stores EXCEPT ![s] = Minus(st.stores[s], amount)]
      /\ after.stakeholders = [st.stakeholders EXCEPT ![s] = acc.list]
      /\ after.balanceOf = acc.total
      /\ after.storeBalanceOf
            = [u \in User |-> [st.storeBalanceOf[u] EXCEPT ![s] = acc.part[u]]]
      /\ after.totalSupply = SupplyAfter(st, amount)
      /\ after.held = st.held - Taken(st, s, amount)
  BY <1>1, <1>2 DEF Captured
<1>8. after \in State
  <2>1. after.stores \in [Stream -> Nat] /\ after.held \in Nat
    BY <1>3, <1>4, <1>7
  <2>2. after.stakeholders \in [Stream -> Seq(User)] /\ after.balanceOf \in [User -> Nat]
    BY <1>3, <1>6, <1>7
  <2>3. after.storeBalanceOf \in [User -> [Stream -> Nat]]
    <3>1. ASSUME NEW u \in User
          PROVE  [st.storeBalanceOf[u] EXCEPT ![s] = acc.part[u]] \in [Stream -> Nat]
      <4>1. st.storeBalanceOf[u] \in [Stream -> Nat] /\ acc.part[u] \in Nat
        BY <1>3, <1>6
      <4>2. QED
        BY <4>1
    <3>2. QED
      BY <1>7, <3>1
  <2>4. after.totalSupply \in Nat
    BY <1>3, <1>7 DEF SupplyAfter, Minus
  <2>5. after = [stores |-> after.stores, stakeholders |-> after.stakeholders,
                 balanceOf |-> after.balanceOf, storeBalanceOf |-> after.storeBalanceOf,
                 totalSupply |-> after.totalSupply, held |-> after.held]
    BY <1>1 DEF Captured
  <2>6. QED
    BY <2>1, <2>2, <2>3, <2>4, <2>5 DEF State
<1>9. after.held = SumFunction(after.stores)
  <2>1. st.stores \in [Stream -> Int] /\ Minus(st.stores[s], amount) \in Int
    BY <1>3, <1>4
  <2>2. SumFunction(after.stores)
            = SumFunction(st.stores) - st.stores[s] + Minus(st.stores[s], amount)
    <3>1. SumFunction([st.stores EXCEPT ![s] = Minus(st.stores[s], amount)])
              = SumFunction(st.stores) - st.stores[s] + Minus(st.stores[s], amount)
      BY <2>1, SumChanged, FiniteAssumption
    <3>2. QED
      BY <1>7, <3>1
  <2>3. SumFunction(st.stores) = st.held
    BY DEF Agree
  <2>4. QED
    BY <1>3, <1>4, <1>7, <2>2, <2>3
<1>10. ASSUME NEW u \in User PROVE after.balanceOf[u] = SumFunction(after.storeBalanceOf[u])
  <2>1. PICK f : f = st.storeBalanceOf[u]
    OBVIOUS
  <2>2. f \in [Stream -> Int] /\ f[s] \in Int /\ acc.part[u] \in Int
    BY <1>3, <1>6, <2>1
  <2>3. SumFunction([f EXCEPT ![s] = acc.part[u]]) = SumFunction(f) - f[s] + acc.part[u]
    BY <2>2, SumChanged, FiniteAssumption
  <2>4. after.storeBalanceOf[u] = [f EXCEPT ![s] = acc.part[u]]
    BY <1>7, <2>1
  <2>5. SumFunction(f) = st.balanceOf[u]
    BY <2>1 DEF Agree
  <2>6. after.balanceOf[u] = st.balanceOf[u] - f[s] + acc.part[u]
    BY <1>6, <1>7, <2>1
  <2>7. QED
    BY <2>3, <2>4, <2>5, <2>6
<1>11. ASSUME NEW r \in Stream PROVE SumFunction(PartsOf(after, r)) >= after.stores[r]
  <2>1. PICK f : f = PartsOf(st, r)
    OBVIOUS
  <2>2. \A u \in User : f[u] = st.storeBalanceOf[u][r] /\ st.storeBalanceOf[u][r] \in Nat
    BY <1>3, <2>1 DEF PartsOf
  <2>3. SumFunction(f) >= st.stores[r] /\ SumFunction(f) \in Int
    <3>1. f = [u \in User |-> f[u]]
      BY <2>1 DEF PartsOf
    <3>2. f \in [User -> Int]
      BY <2>2, <3>1
    <3>3. SumFunction(f) >= st.stores[r]
      BY <2>1 DEF Agree
    <3>4. QED
      BY <3>2, <3>3, SumIsInt, FiniteAssumption
  <2>4. CASE r # s
    <3>1. \A u \in User : after.storeBalanceOf[u][r] = st.storeBalanceOf[u][r]
      BY <1>3, <1>7, <2>4
    <3>2. PartsOf(after, r) = f
      BY <2>1, <3>1 DEF PartsOf
    <3>3. after.stores[r] = st.stores[r]
      BY <1>3, <1>7, <2>4
    <3>4. QED
      BY <2>3, <3>2, <3>3
  <2>5. CASE r = s
    <3>1. PartsOf(after, r) = acc.part
      <4>1. \A u \in User : after.storeBalanceOf[u][r] = acc.part[u]
        BY <1>3, <1>7, <2>5
      <4>2. acc.part = [u \in User |-> acc.part[u]]
        BY <1>6
      <4>3. QED
        BY <4>1, <4>2 DEF PartsOf
    <3>2. after.stores[r] = Minus(st.stores[s], amount)
      BY <1>3, <1>7, <2>5
    <3>3. SumFunction(acc.part) \in Nat /\ \A u \in User : acc.part[u] <= SumFunction(acc.part)
      BY <1>6, SumIsNat, FiniteAssumption
    <3>4. CASE st.stores[s] < amount
      <4>1. Minus(st.stores[s], amount) = 0
        BY <3>4 DEF Minus
      <4>2. QED
        BY <3>1, <3>2, <3>3, <4>1
    <3>5. CASE acc.part = PartsOf(st, s)
      <4>1. SumFunction(acc.part) >= st.stores[s]
        BY <2>1, <2>3, <2>5, <3>5
      <4>2. Minus(st.stores[s], amount) <= st.stores[s]
        BY <1>3, <1>4
      <4>3. QED
        BY <1>3, <1>4, <3>1, <3>2, <3>3, <4>1, <4>2
    <3>6. ASSUME ~ (st.stores[s] < amount), NEW u \in User, acc.part[u] >= st.stores[s] - amount
          PROVE  SumFunction(PartsOf(after, r)) >= after.stores[r]
      <4>1. Minus(st.stores[s], amount) = st.stores[s] - amount
        BY <3>6 DEF Minus
      <4>2. acc.part[u] <= SumFunction(acc.part) /\ acc.part[u] \in Nat
        BY <1>6, <3>3
      <4>3. QED
        BY <1>3, <3>1, <3>2, <3>3, <3>6, <4>1, <4>2
    <3>7. QED
      BY <1>6, <3>4, <3>5, <3>6
  <2>6. QED
    BY <2>4, <2>5
<1>12. QED
  BY <1>1, <1>8, <1>9, <1>10, <1>11 DEF Agree

-------------------------------------------------------------------------------
(* Tokens, streams and accounts agree: whatever is staked and captured, in *)
(* whatever order, the contract holds what its streams have, every account *)
(* is the sum of its parts, and the accounts of a stream cover it.         *)
THEOREM AccountsAlwaysAgree == Spec => []AccountsAgree
<1>1. Init => AccountsAgree
  BY EmptyAgrees, TokensAssumption, AgreeIsProperty DEF Init, TypeOK, State
<1>2. AccountsAgree /\ [Next]_vars => AccountsAgree'
  <2> SUFFICES ASSUME AccountsAgree, [Next]_vars PROVE AccountsAgree'
    OBVIOUS
  <2>1. store \in State /\ Agree(store) /\ wallet \in [User -> Nat] /\ captured \in Nat
    BY AgreeIsProperty DEF TypeOK, State
  <2>2. ASSUME store' \in State, Agree(store'), wallet' \in [User -> Nat], captured' \in Nat
        PROVE  AccountsAgree'
    BY <2>2 DEF AccountsAgree, TypeOK, State, HeldIsStored, BalancesAgree, StakeCoversStore,
                StakeIn, Agree, PartsOf
  <2>3. ASSUME NEW u \in User, NEW s \in Stream, NEW amount \in 1 .. InitialTokens[u],
               Stake(u, s, amount)
        PROVE  AccountsAgree'
    <3>1. amount \in Nat /\ wallet[u] \in Nat /\ wallet[u] - amount \in Nat
      BY <2>1, <2>3, TokensAssumption DEF Stake
    <3>2. wallet' \in [User -> Nat]
      BY <2>1, <2>3, <3>1 DEF Stake
    <3>3. store' \in State /\ Agree(store')
      BY <2>1, <2>3, <3>1, StakedAgrees DEF Stake
    <3>4. QED
      BY <2>1, <2>2, <2>3, <3>2, <3>3 DEF Stake
  <2>4. ASSUME NEW s \in Stream, NEW amount \in 0 .. MaxCapture, Capture(s, amount)
        PROVE  AccountsAgree'
    <3>1. amount \in Nat
      OBVIOUS
    <3>2. store' \in State /\ Agree(store')
      BY <2>1, <2>4, <3>1, CapturedAgrees DEF Capture
    <3>3. Taken(store, s, amount) \in Nat
      BY <2>1, <3>1 DEF Taken, State
    <3>4. QED
      BY <2>1, <2>2, <2>4, <3>2, <3>3 DEF Capture
  <2>5. CASE UNCHANGED vars
    BY <2>1, <2>2, <2>5 DEF vars
  <2>6. QED
    BY <2>3, <2>4, <2>5 DEF Next
<1>3. QED
  BY <1>1, <1>2, PTL DEF Spec

(* What the proof needs of the types: the accounts do not matter here.    *)
Inv == /\ store.stores \in [Stream -> Nat]
       /\ store.totalSupply \in Nat
       /\ store.held \in Nat
       /\ SupplyWithinHeld

(* Whatever is captured, the supply stays within the tokens held: it falls *)
(* by the whole amount, the tokens by no more than that.                   *)
THEOREM SupplyBounded == Spec => []SupplyWithinHeld
<1>1. Init => Inv
  BY DEF Init, EmptyStore, Inv, SupplyWithinHeld
<1>2. Inv /\ [Next]_vars => Inv'
  <2> SUFFICES ASSUME Inv, [Next]_vars PROVE Inv'
    OBVIOUS
  <2> USE DEF Inv, SupplyWithinHeld
  <2>1. ASSUME NEW u \in User, NEW s \in Stream, NEW amount \in 1 .. InitialTokens[u],
               Stake(u, s, amount)
        PROVE  Inv'
    <3>1. amount \in Nat
      BY TokensAssumption
    <3>2. /\ store'.stores = [store.stores EXCEPT ![s] = @ + amount]
          /\ store'.totalSupply = store.totalSupply + amount
          /\ store'.held = store.held + amount
      BY <2>1 DEF Stake, Staked
    <3>3. store'.stores \in [Stream -> Nat]
      BY <3>1, <3>2
    <3>4. QED
      BY <3>1, <3>2, <3>3
  <2>2. ASSUME NEW s \in Stream, NEW amount \in 0 .. MaxCapture, Capture(s, amount)
        PROVE  Inv'
    <3>1. /\ Taken(store, s, amount) \in Nat
          /\ Taken(store, s, amount) <= amount
          /\ Taken(store, s, amount) <= store.held
      BY <2>2 DEF Taken, Capture, CanCapture
    <3>2. /\ SupplyAfter(store, amount) \in Nat
          /\ SupplyAfter(store, amount) <= store.held - Taken(store, s, amount)
      BY <3>1 DEF SupplyAfter, Minus
    <3>3. /\ store'.stores = [store.stores EXCEPT ![s] = Minus(@, amount)]
          /\ store'.totalSupply = SupplyAfter(store, amount)
          /\ store'.held = store.held - Taken(store, s, amount)
      BY <2>2 DEF Capture, Captured
    <3>4. store'.stores \in [Stream -> Nat]
      BY <3>3 DEF Minus
    <3>5. store'.held \in Nat
      BY <3>1, <3>3
    <3>6. QED
      BY <3>2, <3>3, <3>4, <3>5
  <2>3. CASE UNCHANGED vars
    BY <2>3 DEF vars
  <2>4. QED
    BY <2>1, <2>2, <2>3 DEF Next
<1>3. Inv => SupplyWithinHeld
  BY DEF Inv
<1>4. QED
  BY <1>1, <1>2, <1>3, PTL DEF Spec
===============================================================================
