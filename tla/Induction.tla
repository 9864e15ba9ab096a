------------------------------- MODULE Induction -------------------------------
(***************************************************************************)
(* Induction and sums, as lemmas about sets: a minimal counterexample      *)
(* takes the place of an induction principle.                              *)
(***************************************************************************)
EXTENDS Integers, Sequences, FiniteSets, FiniteSetsExt, FiniteSetTheorems, TLAPS

(* Among the sets that violate something there is a smallest.              *)
LEMMA MinimalSet ==
    ASSUME NEW S, IsFiniteSet(S), NEW Bad, Bad \subseteq SUBSET S, Bad # {}
    PROVE  \E x \in Bad : \A y \in Bad : y \subseteq x => y = x
<1>1. IsWellFoundedOn(StrictSubsetOrdering(S), SUBSET S)
  BY FS_StrictSubsetOrderingWellFounded, FS_FiniteSubsetsOfFinite
<1>2. PICK x \in Bad : \A y \in Bad : ~ (<<y, x>> \in StrictSubsetOrdering(S))
  BY <1>1, WFMin
<1>3. QED
  BY <1>2 DEF StrictSubsetOrdering

(* The same of numbers.                                                    *)
Below == {p \in Nat \X Nat : p[1] < p[2]}

LEMMA MinimalNumber ==
    ASSUME NEW Bad, Bad \subseteq Nat, Bad # {}
    PROVE  \E n \in Bad : \A m \in Bad : n <= m
<1>1. IsWellFoundedOn(Below, Nat)
  BY NatLessThanWellFounded DEF OpToRel, Below
<1>2. PICK n \in Bad : \A m \in Bad : ~ (<<m, n>> \in Below)
  BY <1>1, WFMin
<1>3. ASSUME NEW m \in Bad PROVE n <= m
  <2>1. ~ (<<m, n>> \in Below) /\ m \in Nat /\ n \in Nat
    BY <1>2
  <2>2. QED
    BY <2>1 DEF Below
<1>4. QED
  BY <1>3

(* A finite set of numbers has a bound.                                    *)
LEMMA FiniteBounded ==
    ASSUME NEW S, S \subseteq Nat, IsFiniteSet(S)
    PROVE  \E n \in Nat : \A x \in S : x <= n
<1> DEFINE Bad == {T \in SUBSET S : ~ \E n \in Nat : \A x \in T : x <= n}
<1>1. SUFFICES ASSUME Bad # {} PROVE FALSE
  OBVIOUS
<1>2. PICK T \in Bad : \A y \in Bad : y \subseteq T => y = T
  <2>1. Bad \subseteq SUBSET S
    OBVIOUS
  <2> HIDE DEF Bad
  <2>2. IsFiniteSet(S)
    OBVIOUS
  <2>3. QED
    BY ONLY <1>1, <2>1, <2>2, MinimalSet
<1>3. PICK a \in T : a \in Nat
  <2>1. ASSUME T = {} PROVE FALSE
    <3>1. 0 \in Nat /\ \A x \in T : x <= 0
      BY <2>1
    <3>2. \E n \in Nat : \A x \in T : x <= n
      BY <3>1
    <3>3. QED
      BY <1>2, <3>2
  <2>2. T # {}
    BY <2>1
  <2>3. QED
    BY <1>2, <2>2
<1>4. T \ {a} \notin Bad
  BY <1>2, <1>3
<1>5. PICK n \in Nat : \A x \in T \ {a} : x <= n
  BY <1>2, <1>4
<1>6. PICK m \in Nat : m = (IF n < a THEN a ELSE n)
  BY <1>3
<1>7. \A x \in T : x \in Nat /\ x <= m
  BY <1>2, <1>3, <1>5, <1>6
<1>8. QED
  BY <1>2, <1>7

-------------------------------------------------------------------------------
(* Functions on 0 .. n that are defined by recursion: what the start is    *)
(* and every turn keeps, all values are; and there is such a function.     *)
LEMMA Stays ==
    ASSUME NEW n \in Nat, NEW D, NEW h, h[0] \in D,
           \A i \in 1 .. n : h[i - 1] \in D => h[i] \in D
    PROVE  \A i \in 0 .. n : h[i] \in D
<1> DEFINE Bad == {i \in 0 .. n : h[i] \notin D}
<1>1. SUFFICES ASSUME Bad # {} PROVE FALSE
  OBVIOUS
<1>2. PICK i \in Bad : \A j \in Bad : i <= j
  <2>1. Bad \subseteq Nat
    OBVIOUS
  <2> HIDE DEF Bad
  <2>2. QED
    BY <1>1, <2>1, MinimalNumber
<1>3. i \in 1 .. n /\ i - 1 \in 0 .. n
  BY <1>2
<1>4. i - 1 \notin Bad
  BY <1>2, <1>3
<1>5. QED
  BY <1>2, <1>3, <1>4

LEMMA Climb ==
    ASSUME NEW n \in Nat, NEW S, 0 \in S, \A i \in 1 .. n : i - 1 \in S => i \in S
    PROVE  \A i \in 0 .. n : i \in S
<1>1. PICK h : h = [i \in 0 .. n |-> i]
  OBVIOUS
<1>2. h[0] \in S /\ \A i \in 0 .. n : h[i] = i
  BY <1>1
<1>3. \A i \in 1 .. n : h[i - 1] \in S => h[i] \in S
  BY <1>2
<1>4. \A i \in 0 .. n : h[i] \in S
  BY <1>2, <1>3, Stays
<1>5. QED
  BY <1>2, <1>4

Turning(g, n, base, step) ==
    g = [i \in 0 .. n |-> IF i = 0 THEN base ELSE step[<<i, g[i - 1]>>]]

LEMMA Recursion ==
    ASSUME NEW n \in Nat, NEW D, NEW base \in D, NEW step \in [(1 .. n) \X D -> D]
    PROVE  \E g \in [0 .. n -> D] : Turning(g, n, base, step)
<1> DEFINE Bad == {k \in 0 .. n : ~ \E g \in [0 .. k -> D] : Turning(g, k, base, step)}
<1>1. SUFFICES ASSUME Bad # {} PROVE FALSE
  OBVIOUS
<1>2. PICK k \in Bad : \A j \in Bad : k <= j
  <2>1. Bad \subseteq Nat
    OBVIOUS
  <2> HIDE DEF Bad
  <2>2. QED
    BY <1>1, <2>1, MinimalNumber
<1>3. CASE k = 0
  <2>1. PICK g : g = [i \in 0 .. 0 |-> base]
    OBVIOUS
  <2>2. g \in [0 .. 0 -> D] /\ Turning(g, 0, base, step)
    BY <2>1 DEF Turning
  <2>3. QED
    BY <1>2, <1>3, <2>2
<1>4. CASE k # 0
  <2>1. k \in 1 .. n /\ k - 1 \in 0 .. n /\ k - 1 \notin Bad
    BY <1>2, <1>4
  <2>2. PICK h \in [0 .. k - 1 -> D] : Turning(h, k - 1, base, step)
    BY <2>1
  <2>3. PICK v : v = step[<<k, h[k - 1]>>]
    OBVIOUS
  <2>4. v \in D
    BY <2>1, <2>3
  <2>5. PICK g : g = [i \in 0 .. k |-> IF i = k THEN v ELSE h[i]]
    OBVIOUS
  <2>6. g \in [0 .. k -> D]
    BY <2>1, <2>4, <2>5
  <2>7. ASSUME NEW i \in 0 .. k
        PROVE  g[i] = IF i = 0 THEN base ELSE step[<<i, g[i - 1]>>]
    <3>1. CASE i = k
      <4>1. g[i] = v /\ i # 0
        BY <3>1, <2>1, <2>5
      <4>2. g[i - 1] = h[k - 1]
        BY <3>1, <2>1, <2>5
      <4>3. QED
        BY <3>1, <4>1, <4>2, <2>3
    <3>2. CASE i # k
      <4>1. i \in 0 .. k - 1 /\ g[i] = h[i] /\ (i # 0 => i - 1 \in 0 .. k /\ g[i - 1] = h[i - 1])
        BY <3>2, <2>1, <2>5
      <4>2. h[i] = IF i = 0 THEN base ELSE step[<<i, h[i - 1]>>]
        BY <2>2, <4>1 DEF Turning
      <4>3. QED
        BY <4>1, <4>2
    <3>3. QED
      BY <3>1, <3>2
  <2>8. Turning(g, k, base, step)
    BY <2>6, <2>7 DEF Turning
  <2>9. QED
    BY <1>2, <2>6, <2>8
<1>5. QED
  BY <1>3, <1>4

-------------------------------------------------------------------------------
(* Sequences that are joined: the recursive function that joins them, and  *)
(* what it makes.                                                          *)
Flattening(h, seqs) ==
    h = [i \in 1 .. Len(seqs) |-> IF i = 1 THEN seqs[i] ELSE h[i - 1] \o seqs[i]]

LEMMA FlatExists ==
    ASSUME NEW E, NEW seqs \in Seq(Seq(E))
    PROVE  \E h : Flattening(h, seqs)
<1>1. PICK n \in Nat : n = Len(seqs)
  OBVIOUS
<1>2. PICK D : D = Seq(E)
  OBVIOUS
<1>3. \A i \in 1 .. n : seqs[i] \in D
  BY <1>1, <1>2
<1>4. PICK step : step = [p \in (1 .. n) \X D |-> p[2] \o seqs[p[1]]]
  OBVIOUS
<1>5. step \in [(1 .. n) \X D -> D]
  <2>1. ASSUME NEW p \in (1 .. n) \X D PROVE p[2] \o seqs[p[1]] \in D
    BY <1>2, <1>3
  <2>2. QED
    BY <1>4, <2>1
<1>6. <<>> \in D
  BY <1>2
<1>7. PICK g \in [0 .. n -> D] : Turning(g, n, <<>>, step)
  BY <1>5, <1>6, Recursion
<1>8. PICK h : h = [i \in 1 .. n |-> g[i]]
  OBVIOUS
<1>9. ASSUME NEW i \in 1 .. n
      PROVE  h[i] = IF i = 1 THEN seqs[i] ELSE h[i - 1] \o seqs[i]
  <2>1. i \in 0 .. n /\ i # 0 /\ i - 1 \in 0 .. n
    OBVIOUS
  <2>2. g[i] = step[<<i, g[i - 1]>>]
    BY <1>7, <2>1 DEF Turning
  <2>3. g[i - 1] \in D
    BY <1>7, <2>1
  <2>4. g[i] = g[i - 1] \o seqs[i]
    BY <1>4, <2>2, <2>3
  <2>5. CASE i = 1
    <3>1. g[0] = <<>>
      BY <1>7 DEF Turning
    <3>2. g[1] = <<>> \o seqs[1]
      <4>1. i - 1 = 0
        BY <2>5
      <4>2. g[i - 1] = <<>>
        BY <3>1, <4>1
      <4>3. QED
        BY <2>4, <2>5, <4>2
    <3>3. <<>> \o seqs[1] = seqs[1]
      BY <1>2, <1>3, <2>5
    <3>4. QED
      BY <1>8, <2>5, <3>2, <3>3
  <2>6. CASE i # 1
    <3>1. i - 1 \in 1 .. n
      BY <2>6
    <3>2. h[i] = g[i] /\ h[i - 1] = g[i - 1]
      BY <1>8, <3>1
    <3>3. QED
      BY <2>4, <2>6, <3>2
  <2>7. QED
    BY <2>5, <2>6
<1>10. Flattening(h, seqs)
  BY <1>1, <1>8, <1>9 DEF Flattening
<1>11. QED
  BY <1>10

LEMMA ConcatIsSeq == ASSUME NEW E, NEW a \in Seq(E), NEW b \in Seq(E) PROVE a \o b \in Seq(E)
OBVIOUS

LEMMA FlatIsSeq ==
    ASSUME NEW E, NEW seqs \in Seq(Seq(E)), NEW h, Flattening(h, seqs), NEW i \in 1 .. Len(seqs)
    PROVE  h[i] \in Seq(E)
<1>1. PICK n \in Nat : n = Len(seqs)
  OBVIOUS
<1>2. \A j \in 1 .. n : h[j] = IF j = 1 THEN seqs[j] ELSE h[j - 1] \o seqs[j]
  BY <1>1 DEF Flattening
<1>3. \A j \in 1 .. n : seqs[j] \in Seq(E)
  BY <1>1
<1>4. DEFINE S == {j \in 0 .. n : j # 0 => h[j] \in Seq(E)}
<1>5. ASSUME NEW j \in 1 .. n, j - 1 \in S PROVE j \in S
  <2>1. CASE j = 1
    BY <1>2, <1>3, <2>1
  <2>2. CASE j # 1
    <3>1. h[j - 1] \in Seq(E)
      BY <1>5, <2>2
    <3>2. h[j] = h[j - 1] \o seqs[j]
      BY <1>2, <2>2
    <3>3. seqs[j] \in Seq(E)
      BY <1>3
    <3>4. h[j] \in Seq(E)
      BY <3>1, <3>2, <3>3, ConcatIsSeq
    <3>5. QED
      BY <3>4
  <2>3. QED
    BY <2>1, <2>2
<1>6. 0 \in S
  OBVIOUS
<1> HIDE DEF S
<1>7. \A j \in 0 .. n : j \in S
  BY <1>5, <1>6, Climb
<1>8. QED
  BY <1>1, <1>7 DEF S

-------------------------------------------------------------------------------
(* SumFunctionOnSet is defined by a recursive function over the subsets.   *)
First(s) == CHOOSE x \in s : TRUE

Summing(g, f, S) ==
    g = [s \in SUBSET S |-> IF s = {} THEN 0 ELSE f[First(s)] + g[s \ {First(s)}]]

LEMMA SumIsChosen ==
    ASSUME NEW f, NEW S
    PROVE  SumFunctionOnSet(f, S) = (CHOOSE g : Summing(g, f, S))[S]
BY DEF SumFunctionOnSet, FoldFunctionOnSet, MapThenFoldSet, Summing, First

LEMMA FirstIn == ASSUME NEW s, s # {} PROVE First(s) \in s
BY DEF First

(* Two such functions agree where both are defined.                        *)
LEMMA SummingUnique ==
    ASSUME NEW f, NEW S, IsFiniteSet(S), NEW T, NEW g, Summing(g, f, S), NEW h, Summing(h, f, T),
           NEW s, s \subseteq S, s \subseteq T
    PROVE  g[s] = h[s]
<1> DEFINE Bad == {r \in SUBSET s : g[r] # h[r]}
<1>1. SUFFICES ASSUME Bad # {} PROVE FALSE
  OBVIOUS
<1>2. IsFiniteSet(s)
  BY FS_Subset
<1>3. PICK r \in Bad : \A y \in Bad : y \subseteq r => y = r
  <2>1. Bad \subseteq SUBSET s
    OBVIOUS
  <2> HIDE DEF Bad
  <2>2. QED
    BY <1>1, <1>2, <2>1, MinimalSet
<1>4. CASE r = {}
  BY <1>3, <1>4 DEF Summing
<1>5. CASE r # {}
  <2>1. First(r) \in r
    BY <1>5, FirstIn
  <2>2. r \ {First(r)} \notin Bad /\ r \ {First(r)} \in SUBSET s
    BY <1>3, <2>1
  <2>3. g[r] = f[First(r)] + g[r \ {First(r)}] /\ h[r] = f[First(r)] + h[r \ {First(r)}]
    BY <1>3, <1>5 DEF Summing
  <2>4. QED
    BY <1>3, <2>2, <2>3
<1>6. QED
  BY <1>4, <1>5

LEMMA SummingExists ==
    ASSUME NEW f, NEW S, IsFiniteSet(S)
    PROVE  \E g : Summing(g, f, S)
<1> DEFINE Bad == {s \in SUBSET S : ~ \E g : Summing(g, f, s)}
<1>1. SUFFICES ASSUME Bad # {} PROVE FALSE
  OBVIOUS
<1>2. PICK s \in Bad : \A y \in Bad : y \subseteq s => y = s
  <2>1. Bad \subseteq SUBSET S
    OBVIOUS
  <2> HIDE DEF Bad
  <2>2. QED
    BY <1>1, <2>1, MinimalSet
<1>3. \A r \in SUBSET s : r # s => \E g : Summing(g, f, r)
  BY <1>2
<1>4. DEFINE of(r) == CHOOSE g : Summing(g, f, r)
             val(r) == IF r = {} THEN 0 ELSE f[First(r)] + of(r \ {First(r)})[r \ {First(r)}]
             h == [r \in SUBSET s |-> val(r)]
<1>5. \A r \in SUBSET s : r # s => Summing(of(r), f, r)
  BY <1>3
<1>6. \A r \in SUBSET s : IsFiniteSet(r)
  BY <1>2, FS_Subset
<1>7. ASSUME NEW r \in SUBSET s, r # {}, NEW t, t = r \ {First(r)}
      PROVE  of(t)[t] = h[t]
  <2>1. t \in SUBSET s /\ t # s
    BY <1>7, FirstIn
  <2>2. Summing(of(t), f, t)
    BY <1>5, <2>1
  <2>3. h[t] = val(t)
    BY <2>1
  <2>4. CASE t = {}
    BY <2>2, <2>3, <2>4 DEF Summing
  <2>5. CASE t # {}
    <3>0. PICK u : u = t \ {First(t)}
      OBVIOUS
    <3>1. of(t)[t] = f[First(t)] + of(t)[u]
      BY <2>2, <2>5, <3>0 DEF Summing
    <3>2. u \in SUBSET s /\ u # s /\ u \subseteq t
      BY <2>1, <2>5, <3>0, FirstIn
    <3>3. Summing(of(u), f, u)
      BY <1>5, <3>2
    <3>4. of(t)[u] = of(u)[u]
      BY <2>1, <2>2, <3>2, <3>3, <1>6, SummingUnique
    <3>5. QED
      BY <2>3, <2>5, <3>0, <3>1, <3>4
  <2>6. QED
    BY <2>4, <2>5
<1>8. Summing(h, f, s)
  <2>1. ASSUME NEW r \in SUBSET s
        PROVE  val(r) = IF r = {} THEN 0 ELSE f[First(r)] + h[r \ {First(r)}]
    <3>1. CASE r = {}
      BY <3>1
    <3>2. CASE r # {}
      <4>1. PICK t : t = r \ {First(r)}
        OBVIOUS
      <4>2. val(r) = f[First(r)] + of(t)[t]
        BY <3>2, <4>1
      <4>3. of(t)[t] = h[t]
        BY <3>2, <4>1, <1>7
      <4> HIDE DEF h, val, of
      <4>4. QED
        BY <3>2, <4>1, <4>2, <4>3
    <3>3. QED
      BY <3>1, <3>2
  <2> HIDE DEF val
  <2>2. PICK k : k = h
    OBVIOUS
  <2>3. h = [r \in SUBSET s |-> IF r = {} THEN 0 ELSE f[First(r)] + k[r \ {First(r)}]]
    BY <2>1, <2>2
  <2>4. QED
    BY <2>2, <2>3 DEF Summing
<1>9. QED
  BY <1>2, <1>8

(* Hence the sum is what its name says.                                    *)
LEMMA SumEmpty == ASSUME NEW f PROVE SumFunctionOnSet(f, {}) = 0
<1>1. PICK g : g = CHOOSE h : Summing(h, f, {})
  OBVIOUS
<1>2. Summing(g, f, {})
  BY <1>1, SummingExists, FS_EmptySet
<1>3. QED
  BY <1>1, <1>2, SumIsChosen DEF Summing

LEMMA SumFirst ==
    ASSUME NEW f, NEW S, IsFiniteSet(S), S # {}
    PROVE  SumFunctionOnSet(f, S) = f[First(S)] + SumFunctionOnSet(f, S \ {First(S)})
<1>1. PICK T : T = S \ {First(S)}
  OBVIOUS
<1>2. IsFiniteSet(T) /\ T \subseteq S
  BY <1>1, FS_Subset
<1>3. PICK g : g = CHOOSE h : Summing(h, f, S)
  OBVIOUS
<1>4. PICK h : h = CHOOSE k : Summing(k, f, T)
  OBVIOUS
<1>5. Summing(g, f, S) /\ Summing(h, f, T)
  BY <1>2, <1>3, <1>4, SummingExists
<1>6. g[S] = f[First(S)] + g[T]
  BY <1>1, <1>5 DEF Summing
<1>7. g[T] = h[T]
  BY <1>2, <1>5, SummingUnique
<1>8. QED
  BY <1>1, <1>3, <1>4, <1>6, <1>7, SumIsChosen

LEMMA SumInt ==
    ASSUME NEW f, NEW S, IsFiniteSet(S), \A x \in S : f[x] \in Int
    PROVE  SumFunctionOnSet(f, S) \in Int
<1> DEFINE Bad == {s \in SUBSET S : SumFunctionOnSet(f, s) \notin Int}
<1>1. SUFFICES ASSUME Bad # {} PROVE FALSE
  OBVIOUS
<1>2. PICK s \in Bad : \A y \in Bad : y \subseteq s => y = s
  <2>1. Bad \subseteq SUBSET S
    OBVIOUS
  <2> HIDE DEF Bad
  <2>2. QED
    BY <1>1, <2>1, MinimalSet
<1>3. s # {}
  <2>1. SUFFICES ASSUME s = {} PROVE FALSE
    OBVIOUS
  <2>2. SumFunctionOnSet(f, s) = 0
    BY <2>1, SumEmpty
  <2>3. QED
    BY <1>2, <2>2
<1>4. First(s) \in s /\ First(s) \in S
  BY <1>2, <1>3, FirstIn
<1>5. SumFunctionOnSet(f, s \ {First(s)}) \in Int
  BY <1>2, <1>4
<1>6. IsFiniteSet(s)
  BY <1>2, FS_Subset
<1>7. QED
  BY <1>2, <1>3, <1>4, <1>5, <1>6, SumFirst

(* Any element may be taken out, not only the one that comes first.        *)
LEMMA SumTake ==
    ASSUME NEW f, NEW S, IsFiniteSet(S), \A x \in S : f[x] \in Int, NEW a \in S
    PROVE  SumFunctionOnSet(f, S) = f[a] + SumFunctionOnSet(f, S \ {a})
<1> DEFINE Bad == {s \in SUBSET S :
                     \E x \in s : SumFunctionOnSet(f, s) # f[x] + SumFunctionOnSet(f, s \ {x})}
<1>1. SUFFICES ASSUME Bad # {} PROVE FALSE
  OBVIOUS
<1>2. PICK s \in Bad : \A y \in Bad : y \subseteq s => y = s
  <2>1. Bad \subseteq SUBSET S
    OBVIOUS
  <2> HIDE DEF Bad
  <2>2. QED
    BY <1>1, <2>1, MinimalSet
<1>3. PICK x \in s : SumFunctionOnSet(f, s) # f[x] + SumFunctionOnSet(f, s \ {x})
  BY <1>2
<1>4. PICK c : c = First(s)
  OBVIOUS
<1>5. c \in s /\ s \in SUBSET S
  BY <1>3, <1>4, FirstIn
<1>6. \A r \in SUBSET S : IsFiniteSet(r) /\ SumFunctionOnSet(f, r) \in Int
  <2>1. TAKE r \in SUBSET S
  <2>2. IsFiniteSet(r)
    BY FS_Subset
  <2>3. QED
    BY <2>2, SumInt
<1>7. SumFunctionOnSet(f, s) = f[c] + SumFunctionOnSet(f, s \ {c})
  BY <1>4, <1>5, <1>6, SumFirst
<1>8. x # c
  BY <1>3, <1>7
<1>9. PICK u, v, w : u = s \ {c} /\ v = s \ {x} /\ w = s \ {c, x}
  OBVIOUS
<1>10. u \notin Bad /\ v \notin Bad /\ u \in SUBSET S /\ v \in SUBSET S /\ w \in SUBSET S
  BY <1>2, <1>3, <1>5, <1>9
<1>11. u \ {x} = w /\ v \ {c} = w /\ x \in u /\ c \in v
  BY <1>3, <1>5, <1>8, <1>9
<1>12. /\ SumFunctionOnSet(f, u) = f[x] + SumFunctionOnSet(f, w)
       /\ SumFunctionOnSet(f, v) = f[c] + SumFunctionOnSet(f, w)
  BY <1>10, <1>11
<1>13. f[x] \in Int /\ f[c] \in Int /\ SumFunctionOnSet(f, w) \in Int
  BY <1>3, <1>5, <1>6, <1>10
<1>14. QED
  BY <1>3, <1>7, <1>9, <1>12, <1>13

-------------------------------------------------------------------------------
(* Sums of functions that are equal, one below the other, or changed at    *)
(* one place.                                                              *)
LEMMA SumSame ==
    ASSUME NEW f, NEW g, NEW S, IsFiniteSet(S), \A x \in S : f[x] = g[x]
    PROVE  SumFunctionOnSet(f, S) = SumFunctionOnSet(g, S)
<1> DEFINE Bad == {s \in SUBSET S : SumFunctionOnSet(f, s) # SumFunctionOnSet(g, s)}
<1>1. SUFFICES ASSUME Bad # {} PROVE FALSE
  OBVIOUS
<1>2. PICK s \in Bad : \A y \in Bad : y \subseteq s => y = s
  <2>1. Bad \subseteq SUBSET S
    OBVIOUS
  <2> HIDE DEF Bad
  <2>2. QED
    BY <1>1, <2>1, MinimalSet
<1>3. s # {}
  BY <1>2, SumEmpty
<1>4. First(s) \in s /\ First(s) \in S /\ IsFiniteSet(s)
  BY <1>2, <1>3, FirstIn, FS_Subset
<1>5. SumFunctionOnSet(f, s \ {First(s)}) = SumFunctionOnSet(g, s \ {First(s)})
  BY <1>2, <1>4
<1>6. QED
  BY <1>2, <1>3, <1>4, <1>5, SumFirst

LEMMA SumAtMost ==
    ASSUME NEW f, NEW g, NEW S, IsFiniteSet(S),
           \A x \in S : f[x] \in Int /\ g[x] \in Int /\ f[x] <= g[x]
    PROVE  SumFunctionOnSet(f, S) <= SumFunctionOnSet(g, S)
<1> DEFINE Bad == {s \in SUBSET S : ~ (SumFunctionOnSet(f, s) <= SumFunctionOnSet(g, s))}
<1>1. SUFFICES ASSUME Bad # {} PROVE FALSE
  OBVIOUS
<1>2. PICK s \in Bad : \A y \in Bad : y \subseteq s => y = s
  <2>1. Bad \subseteq SUBSET S
    OBVIOUS
  <2> HIDE DEF Bad
  <2>2. QED
    BY <1>1, <2>1, MinimalSet
<1>3. s # {}
  BY <1>2, SumEmpty
<1>4. First(s) \in s /\ First(s) \in S /\ IsFiniteSet(s) /\ s \ {First(s)} \in SUBSET S
  BY <1>2, <1>3, FirstIn, FS_Subset
<1>5. SumFunctionOnSet(f, s \ {First(s)}) <= SumFunctionOnSet(g, s \ {First(s)})
  BY <1>2, <1>4
<1>6. /\ SumFunctionOnSet(f, s \ {First(s)}) \in Int
      /\ SumFunctionOnSet(g, s \ {First(s)}) \in Int
  BY <1>4, SumInt, FS_Subset
<1>7. PICK a \in Int, b \in Int, c \in Int, d \in Int :
         /\ a = f[First(s)] /\ b = g[First(s)]
         /\ c = SumFunctionOnSet(f, s \ {First(s)}) /\ d = SumFunctionOnSet(g, s \ {First(s)})
  BY <1>4, <1>6
<1>8. SumFunctionOnSet(f, s) = a + c /\ SumFunctionOnSet(g, s) = b + d
  BY <1>3, <1>4, <1>7, SumFirst
<1>9. a <= b /\ c <= d
  BY <1>4, <1>5, <1>7
<1>10. QED
  BY <1>2, <1>8, <1>9

LEMMA SumAdds ==
    ASSUME NEW f, NEW g, NEW h, NEW S, IsFiniteSet(S),
           \A x \in S : f[x] \in Int /\ g[x] \in Int /\ h[x] = f[x] + g[x]
    PROVE  SumFunctionOnSet(h, S) = SumFunctionOnSet(f, S) + SumFunctionOnSet(g, S)
<1> DEFINE Bad == {s \in SUBSET S :
             SumFunctionOnSet(h, s) # SumFunctionOnSet(f, s) + SumFunctionOnSet(g, s)}
<1>1. SUFFICES ASSUME Bad # {} PROVE FALSE
  OBVIOUS
<1>2. PICK s \in Bad : \A y \in Bad : y \subseteq s => y = s
  <2>1. Bad \subseteq SUBSET S
    OBVIOUS
  <2> HIDE DEF Bad
  <2>2. QED
    BY <1>1, <2>1, MinimalSet
<1>3. s # {}
  <2>1. SUFFICES ASSUME s = {} PROVE FALSE
    OBVIOUS
  <2>2. SumFunctionOnSet(f, s) = 0 /\ SumFunctionOnSet(g, s) = 0 /\ SumFunctionOnSet(h, s) = 0
    BY <2>1, SumEmpty
  <2>3. QED
    BY <1>2, <2>2
<1>4. First(s) \in s /\ First(s) \in S /\ IsFiniteSet(s) /\ s \ {First(s)} \in SUBSET S
  BY <1>2, <1>3, FirstIn, FS_Subset
<1>5. PICK r : r = s \ {First(s)}
  OBVIOUS
<1>6. /\ SumFunctionOnSet(f, r) \in Int /\ SumFunctionOnSet(g, r) \in Int
  BY <1>4, <1>5, SumInt, FS_Subset
<1>7. SumFunctionOnSet(h, r) = SumFunctionOnSet(f, r) + SumFunctionOnSet(g, r)
  BY <1>2, <1>4, <1>5
<1>8. /\ SumFunctionOnSet(f, s) = f[First(s)] + SumFunctionOnSet(f, r)
      /\ SumFunctionOnSet(g, s) = g[First(s)] + SumFunctionOnSet(g, r)
      /\ SumFunctionOnSet(h, s) = h[First(s)] + SumFunctionOnSet(h, r)
  BY <1>3, <1>4, <1>5, SumFirst
<1>9. f[First(s)] \in Int /\ g[First(s)] \in Int /\ h[First(s)] = f[First(s)] + g[First(s)]
  BY <1>4
<1>10. QED
  BY <1>2, <1>6, <1>7, <1>8, <1>9

(* What the specifications sum: all the values of a function.              *)
LEMMA SumOfAll == ASSUME NEW f, NEW S, DOMAIN f = S
                  PROVE  SumFunction(f) = SumFunctionOnSet(f, S)
BY DEF SumFunction

LEMMA SumIsInt == ASSUME NEW S, IsFiniteSet(S), NEW f \in [S -> Int] PROVE SumFunction(f) \in Int
<1>1. \A x \in S : f[x] \in Int
  OBVIOUS
<1>2. QED
  BY <1>1, SumInt, SumOfAll

LEMMA SumChanged ==
    ASSUME NEW S, IsFiniteSet(S), NEW f \in [S -> Int], NEW a \in S, NEW v \in Int
    PROVE  SumFunction([f EXCEPT ![a] = v]) = SumFunction(f) - f[a] + v
<1>1. PICK g : g = [f EXCEPT ![a] = v]
  OBVIOUS
<1>2. g \in [S -> Int] /\ g[a] = v /\ \A x \in S \ {a} : g[x] = f[x]
  BY <1>1
<1>3. PICK T : T = S \ {a} /\ IsFiniteSet(T)
  BY FS_Subset
<1>4. SumFunctionOnSet(g, T) = SumFunctionOnSet(f, T)
  BY <1>2, <1>3, SumSame
<1>5. \A x \in S : f[x] \in Int /\ g[x] \in Int
  BY <1>2
<1>6. SumFunctionOnSet(f, T) \in Int
  BY <1>3, <1>5, SumInt
<1>7. SumFunctionOnSet(f, S) = f[a] + SumFunctionOnSet(f, T)
  BY <1>3, <1>5, SumTake
<1>8. SumFunctionOnSet(g, S) = g[a] + SumFunctionOnSet(g, T)
  BY <1>2, <1>3, <1>5, SumTake
<1>9. SumFunction(f) = SumFunctionOnSet(f, S) /\ SumFunction(g) = SumFunctionOnSet(g, S)
  BY <1>2, SumOfAll
<1>10. f[a] \in Int
  OBVIOUS
<1>11. QED
  BY <1>1, <1>2, <1>4, <1>6, <1>7, <1>8, <1>9, <1>10

LEMMA SumOfZeros == ASSUME NEW S, IsFiniteSet(S) PROVE SumFunction([x \in S |-> 0]) = 0
<1>1. PICK f : f = [x \in S |-> 0]
  OBVIOUS
<1>2. f \in [S -> Int] /\ \A x \in S : f[x] = 0
  BY <1>1
<1>3. \A x \in S : f[x] \in Int /\ f[x] = f[x] + f[x]
  BY <1>2
<1>4. SumFunctionOnSet(f, S) = SumFunctionOnSet(f, S) + SumFunctionOnSet(f, S)
  BY <1>3, SumAdds
<1>5. SumFunctionOnSet(f, S) \in Int
  BY <1>3, SumInt
<1>6. SumFunctionOnSet(f, S) = 0
  <2>1. PICK x \in Int : x = SumFunctionOnSet(f, S)
    BY <1>5
  <2>2. x = x + x
    BY ONLY <1>4, <2>1
  <2>3. x = 0
    BY ONLY <2>2
  <2>4. QED
    BY ONLY <2>1, <2>3
<1>7. QED
  BY <1>1, <1>2, <1>6, SumOfAll

(* A sum of natural numbers is one, and no smaller than each of them.      *)
LEMMA SumIsNat ==
    ASSUME NEW S, IsFiniteSet(S), NEW f \in [S -> Nat]
    PROVE  SumFunction(f) \in Nat /\ \A a \in S : f[a] <= SumFunction(f)
<1>1. PICK z : z = [x \in S |-> 0]
  OBVIOUS
<1>2. /\ \A x \in S : z[x] \in Int /\ f[x] \in Int /\ z[x] <= f[x]
      /\ DOMAIN z = S /\ DOMAIN f = S
  BY <1>1
<1>3. SumFunctionOnSet(z, S) = 0
  BY <1>1, <1>2, SumOfZeros, SumOfAll
<1>4. SumFunction(f) = SumFunctionOnSet(f, S) /\ SumFunctionOnSet(f, S) \in Int
  BY <1>2, SumOfAll, SumInt
<1>5. SumFunctionOnSet(z, S) <= SumFunctionOnSet(f, S)
  BY <1>2, SumAtMost
<1>6. ASSUME NEW a \in S PROVE f[a] <= SumFunction(f)
  <2>1. PICK g : g = [f EXCEPT ![a] = 0]
    OBVIOUS
  <2>2. g \in [S -> Int] /\ \A x \in S : z[x] \in Int /\ g[x] \in Int /\ z[x] <= g[x]
    <3>1. \A x \in S : z[x] = 0 /\ g[x] = IF x = a THEN 0 ELSE f[x]
      BY <1>1, <2>1
    <3>2. g \in [S -> Int]
      BY <2>1
    <3>3. QED
      BY <3>1, <3>2
  <2>3. SumFunction(g) = SumFunction(f) - f[a] + 0
    <3>1. f \in [S -> Int] /\ 0 \in Int
      OBVIOUS
    <3>2. SumFunction([f EXCEPT ![a] = 0]) = SumFunction(f) - f[a] + 0
      BY <3>1, SumChanged
    <3>3. QED
      BY <2>1, <3>2
  <2>4. SumFunctionOnSet(z, S) <= SumFunctionOnSet(g, S)
    BY <2>2, SumAtMost
  <2>5. SumFunction(g) = SumFunctionOnSet(g, S)
    BY <2>2, SumOfAll
  <2>6. f[a] \in Int
    OBVIOUS
  <2>7. QED
    BY <1>3, <1>4, <2>3, <2>4, <2>5, <2>6
<1>7. QED
  BY <1>3, <1>4, <1>5, <1>6

(* The sum of a function that differs from another in one place.           *)
Shifted(f, g, S, a, d) ==
    /\ IsFiniteSet(S) /\ f \in [S -> Int] /\ g \in [S -> Int] /\ a \in S /\ d \in Int
    /\ \A x \in S : g[x] = f[x] + (IF x = a THEN d ELSE 0)

LEMMA SumShifted ==
    ASSUME NEW f, NEW g, NEW S, NEW a, NEW d, Shifted(f, g, S, a, d)
    PROVE  SumFunction(g) = SumFunction(f) + d
<1> USE DEF Shifted
<1>1. PICK v : v = f[a] + d
  OBVIOUS
<1>2. v \in Int /\ f[a] \in Int /\ f \in [S -> Int]
  BY <1>1
<1>3. g = [f EXCEPT ![a] = v]
  <2>1. \A x \in S : g[x] = [f EXCEPT ![a] = v][x]
    <3>1. ASSUME NEW x \in S PROVE g[x] = [f EXCEPT ![a] = v][x]
      <4>1. CASE x = a
        BY <1>1, <4>1
      <4>2. CASE x # a
        <5>1. g[x] = f[x] + 0 /\ f[x] \in Int
          BY <4>2
        <5>2. QED
          BY <4>2, <5>1
      <4>3. QED
        BY <4>1, <4>2
    <3>2. QED
      BY <3>1
  <2>2. [f EXCEPT ![a] = v] \in [S -> Int]
    BY <1>2
  <2>3. QED
    BY <2>1, <2>2
<1>4. SumFunction(g) = SumFunction(f) - f[a] + v
  <2>1. SumFunction([f EXCEPT ![a] = v]) = SumFunction(f) - f[a] + v
    BY <1>2, SumChanged
  <2>2. QED
    BY <1>3, <2>1
<1>5. SumFunction(f) \in Int
  BY SumIsInt
<1>6. QED
  BY <1>1, <1>2, <1>4, <1>5

-------------------------------------------------------------------------------
(* Sums by prefixes, as a loop over a sequence makes them.                 *)
Prefix(f, i) == SumFunctionOnSet(f, 1 .. i)

LEMMA TakeLast ==
    ASSUME NEW f, NEW i \in Nat \ {0}, \A j \in 1 .. i : f[j] \in Int
    PROVE  SumFunctionOnSet(f, 1 .. i) = f[i] + SumFunctionOnSet(f, 1 .. i - 1)
<1>1. PICK s, t, k : s = 1 .. i /\ t = 1 .. i - 1 /\ k = i
  OBVIOUS
<1>2. IsFiniteSet(s) /\ k \in s
  BY <1>1, FS_Interval
<1>3. \A j \in s : f[j] \in Int
  BY <1>1
<1>4. t = s \ {k}
  BY ONLY <1>1
<1>5. SumFunctionOnSet(f, s) = f[k] + SumFunctionOnSet(f, t)
  BY ONLY <1>2, <1>3, <1>4, SumTake
<1>6. QED
  BY <1>1, <1>5

LEMMA PrefixSteps ==
    ASSUME NEW n \in Nat, NEW f \in [1 .. n -> Int]
    PROVE  /\ Prefix(f, 0) = 0
           /\ Prefix(f, n) = SumFunction(f)
           /\ \A i \in 0 .. n : Prefix(f, i) \in Int
           /\ \A i \in 1 .. n : Prefix(f, i) = Prefix(f, i - 1) + f[i]
<1>1. \A i \in 0 .. n : IsFiniteSet(1 .. i) /\ \A j \in 1 .. i : f[j] \in Int
  BY FS_Interval
<1>2. Prefix(f, 0) = 0
  <2>1. 1 .. 0 = {}
    OBVIOUS
  <2>2. QED
    BY <2>1, SumEmpty DEF Prefix
<1>3. Prefix(f, n) = SumFunction(f)
  BY SumOfAll DEF Prefix
<1>4. \A i \in 0 .. n : Prefix(f, i) \in Int
  BY <1>1, SumInt DEF Prefix
<1>5. ASSUME NEW i \in 1 .. n PROVE Prefix(f, i) = Prefix(f, i - 1) + f[i]
  <2>1. i \in Nat \ {0} /\ i \in 0 .. n /\ i - 1 \in 0 .. n
    OBVIOUS
  <2>2. \A j \in 1 .. i : f[j] \in Int
    BY <1>1, <2>1
  <2>3. Prefix(f, i) = f[i] + Prefix(f, i - 1)
    BY ONLY <2>1, <2>2, TakeLast DEF Prefix
  <2>4. f[i] \in Int /\ Prefix(f, i - 1) \in Int
    BY <1>4, <2>1
  <2>5. QED
    BY ONLY <2>3, <2>4
<1>6. QED
  BY <1>2, <1>3, <1>4, <1>5

(* The sum over a table is the same by rows and by columns.                *)
RowSums(m, S, T) == [x \in S |-> SumFunctionOnSet(m[x], T)]
Column(m, S, y) == [x \in S |-> m[x][y]]
ColumnSums(m, S, T) == [y \in T |-> SumFunctionOnSet(Column(m, S, y), S)]

LEMMA SumSwaps ==
    ASSUME NEW S, NEW T, IsFiniteSet(S), IsFiniteSet(T), NEW m \in [S -> [T -> Int]]
    PROVE  SumFunctionOnSet(RowSums(m, S, T), S) = SumFunctionOnSet(ColumnSums(m, S, T), T)
<1> DEFINE Rows(s) == SumFunctionOnSet(RowSums(m, S, T), s)
           Of(s) == [y \in T |-> SumFunctionOnSet(Column(m, S, y), s)]
           Bad == {s \in SUBSET S : Rows(s) # SumFunctionOnSet(Of(s), T)}
<1>1. SUFFICES ASSUME Bad # {} PROVE FALSE
  BY DEF ColumnSums
<1>2. PICK s \in Bad : \A y \in Bad : y \subseteq s => y = s
  <2>1. Bad \subseteq SUBSET S
    OBVIOUS
  <2> HIDE DEF Bad
  <2>2. QED
    BY <1>1, <2>1, MinimalSet
<1>3. IsFiniteSet(s) /\ s \subseteq S
  BY <1>2, FS_Subset
<1>4. \A y \in T : Column(m, S, y) \in [S -> Int] /\ \A x \in S : Column(m, S, y)[x] = m[x][y]
  BY DEF Column
<1>5. \A x \in S : m[x] \in [T -> Int] /\ RowSums(m, S, T)[x] = SumFunctionOnSet(m[x], T)
  BY DEF RowSums
<1>6. \A x \in S : RowSums(m, S, T)[x] \in Int
  <2>1. TAKE x \in S
  <2>2. \A y \in T : m[x][y] \in Int
    BY <1>5
  <2>3. QED
    BY <1>5, <2>2, SumInt
<1>7. CASE s = {}
  <2>1. Rows(s) = 0
    BY <1>7, SumEmpty
  <2>2. Of(s) = [y \in T |-> 0]
    BY <1>7, SumEmpty
  <2>3. SumFunctionOnSet(Of(s), T) = 0
    <3>1. PICK z : z = [y \in T |-> 0]
      OBVIOUS
    <3>2. SumFunctionOnSet(z, T) = SumFunction(z)
      BY <3>1, SumOfAll
    <3>3. SumFunction(z) = 0
      BY <3>1, SumOfZeros
    <3>4. QED
      BY <2>2, <3>1, <3>2, <3>3
  <2>4. QED
    BY <1>2, <2>1, <2>3
<1>8. CASE s # {}
  <2>1. PICK x, r : x = First(s) /\ r = s \ {x}
    OBVIOUS
  <2>2. x \in s /\ x \in S /\ r \in SUBSET S /\ r # s /\ r \subseteq s /\ IsFiniteSet(r)
    BY <1>3, <1>8, <2>1, FirstIn, FS_Subset
  <2>3. Rows(r) = SumFunctionOnSet(Of(r), T)
    BY <1>2, <2>2
  <2>4. Rows(s) = SumFunctionOnSet(m[x], T) + Rows(r)
    BY <1>3, <1>5, <1>8, <2>1, <2>2, SumFirst
  <2>5. ASSUME NEW y \in T
        PROVE  /\ Of(s)[y] = m[x][y] + Of(r)[y]
               /\ m[x][y] \in Int /\ Of(r)[y] \in Int
    <3>1. SumFunctionOnSet(Column(m, S, y), s)
            = Column(m, S, y)[x] + SumFunctionOnSet(Column(m, S, y), r)
      BY <1>3, <1>8, <2>1, SumFirst
    <3>2. SumFunctionOnSet(Column(m, S, y), r) \in Int
      BY <1>4, <2>2, SumInt
    <3>3. m[x][y] \in Int
      BY <1>5, <2>2
    <3>4. QED
      BY <1>4, <2>2, <3>1, <3>2, <3>3
  <2>6. PICK f, g, h : f = m[x] /\ g = Of(r) /\ h = Of(s)
    OBVIOUS
  <2>7. \A y \in T : f[y] \in Int /\ g[y] \in Int /\ h[y] = f[y] + g[y]
    BY <2>5, <2>6
  <2>8. SumFunctionOnSet(h, T) = SumFunctionOnSet(f, T) + SumFunctionOnSet(g, T)
    BY <2>7, SumAdds
  <2>9. QED
    BY <1>2, <2>3, <2>4, <2>6, <2>8
<1>9. QED
  BY <1>7, <1>8
===============================================================================
