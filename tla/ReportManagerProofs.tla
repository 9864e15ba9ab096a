-------------------------- MODULE ReportManagerProofs --------------------------
(* Theorems about ReportManager.                                           *)
EXTENDS ReportManager, Induction

(* Division, as the provers need it.                                       *)
LEMMA Division ==
  ASSUME NEW x \in Nat, NEW d \in Nat, d > 0
  PROVE  /\ x \div d \in Nat
         /\ (x \div d) * d <= x
         /\ x < (x \div d) * d + d
  OBVIOUS

LEMMA Monotone ==
  ASSUME NEW i \in Nat, NEW j \in Nat, NEW t \in Nat, i <= j
  PROVE  i * t <= j * t
<1>1. PICK d \in Nat : j = i + d
  BY j - i \in Nat
<1>2. j * t = i * t + d * t
  BY <1>1
<1>3. i * t \in Nat /\ d * t \in Nat
  OBVIOUS
<1>4. QED
  BY <1>2, <1>3

LEMMA Bounded ==
  ASSUME NEW k \in Nat, NEW n \in Nat, NEW t \in Nat, k * t < t * n
  PROVE  k < n
  OBVIOUS

LEMMA Turns ==
  ASSUME NEW n \in Nat, n > 0, NEW mean \in Nat, NEW now \in Nat
  PROVE  /\ \A i, j \in 1 .. n :
               InTurn(i, n, mean, now) /\ InTurn(j, n, mean, now) => i = j
         /\ now >= mean <=> \E i \in 1 .. n : InTurn(i, n, mean, now)
<1> DEFINE c == Cycle(n, mean, now)
<1>1. TimeBuffer \in Nat /\ TimeBuffer > 0
  BY BufferAssumption, PrecisionAssumption DEF TimeBuffer
<1>2. PICK t \in Nat : t = TimeBuffer /\ t > 0
  BY <1>1
<1>3. PICK len \in Nat : len = t * n /\ len > 0
  BY <1>2
<1>4. c \in Nat /\ (now >= mean => c * len <= now - mean /\ now - mean < c * len + len)
  BY <1>2, <1>3, Division DEF Cycle
<1>5. PICK from \in Nat : from = FromTime(n, mean, now) /\ from >= mean
  <2>1. FromTime(n, mean, now) = c * len + mean
    BY <1>2, <1>3 DEF FromTime
  <2>2. c * len \in Nat
    BY <1>3, <1>4
  <2>3. QED
    BY <2>1, <2>2
<1>6. \A i \in 1 .. n : InTurn(i, n, mean, now) <=> (i - 1) * t + from <= now /\ now < i * t + from
  BY <1>2, <1>5 DEF InTurn
<1>7. ASSUME NEW i \in 1 .. n, NEW j \in 1 .. n, i < j,
             InTurn(i, n, mean, now), InTurn(j, n, mean, now)
      PROVE  FALSE
  <2>1. PICK h \in Nat : h = j - 1 /\ i <= h
    BY <1>7
  <2>2. i * t <= h * t /\ i * t \in Nat /\ h * t \in Nat
    BY <2>1, Monotone
  <2>3. h * t + from <= now /\ now < i * t + from
    BY <2>1, <1>6, <1>7
  <2>4. QED
    BY <2>2, <2>3
<1>8. ASSUME NEW i \in 1 .. n, InTurn(i, n, mean, now) PROVE now >= mean
  <2>1. PICK h \in Nat : h = i - 1
    OBVIOUS
  <2>2. h * t \in Nat /\ h * t + from <= now
    BY <2>1, <1>6, <1>8
  <2>3. QED
    BY <2>2, <1>5
<1>9. ASSUME now >= mean PROVE \E i \in 1 .. n : InTurn(i, n, mean, now)
  <2>1. from = c * len + mean
    BY <1>2, <1>3, <1>5 DEF FromTime
  <2>2. PICK x \in Nat : x = now - from /\ x < len
    BY <1>4, <1>9, <2>1
  <2>3. PICK k \in Nat : k * t <= x /\ x < k * t + t
    BY <1>2, Division
  <2>4. k < n
    BY <2>2, <2>3, <1>3, Bounded
  <2>5. InTurn(k + 1, n, mean, now)
    <3>1. (k + 1) * t = k * t + t
      BY <1>2
    <3>2. QED
      BY <1>2, <1>6, <2>2, <2>3, <2>4, <3>1
  <2>6. QED
    BY <2>4, <2>5
<1>10. QED
  BY <1>7, <1>8, <1>9

(* The first multiple of p from s on is less than p after it.              *)
LEMMA NextMultiple ==
  ASSUME NEW s \in Nat, NEW p \in Nat, p > 0
  PROVE  \E k \in Nat : s <= k * p /\ k * p < s + p
<1>1. PICK x \in Nat : x = s + p - 1
  OBVIOUS
<1>2. PICK k \in Nat : k = x \div p /\ k * p <= x /\ x < k * p + p
  BY Division
<1>3. k * p \in Nat
  BY <1>2
<1>4. QED
  BY <1>1, <1>2, <1>3

(* A turn of any cycle is a turn: the cycle of a time is found right.      *)
LEMMA TurnOfCycle ==
  ASSUME NEW n \in Nat, NEW mean \in Nat, NEW now \in Nat, NEW k \in Nat, NEW i \in 1 .. n,
         mean + k * (TimeBuffer * n) + (i - 1) * TimeBuffer <= now,
         now < mean + k * (TimeBuffer * n) + i * TimeBuffer
  PROVE  InTurn(i, n, mean, now)
<1>1. PICK t \in Nat : t = TimeBuffer /\ t > 0
  BY BufferAssumption, PrecisionAssumption DEF TimeBuffer
<1>2. PICK len \in Nat : len = t * n /\ len > 0
  BY <1>1
<1>3. PICK j \in Nat : j = i - 1
  OBVIOUS
<1>4. /\ j * t \in Nat /\ i * t \in Nat /\ k * len \in Nat
      /\ i * t <= n * t /\ n * t = len
  BY <1>1, <1>2, <1>3, Monotone
<1>5. mean + k * len + j * t <= now /\ now < mean + k * len + i * t
  BY <1>1, <1>2, <1>3
<1>6. PICK x \in Nat : x = now - mean /\ k * len <= x /\ x < k * len + len /\ now >= mean
  BY <1>4, <1>5
<1>7. PICK c \in Nat : c = x \div len /\ c * len <= x /\ x < c * len + len
  BY <1>2, Division
<1>8. c = k
  <2>1. (k + 1) * len = k * len + len /\ (c + 1) * len = c * len + len
        /\ k * len \in Nat /\ c * len \in Nat
    BY <1>2
  <2>2. k * len < len * (c + 1) /\ c * len < len * (k + 1)
    BY <1>6, <1>7, <2>1
  <2>3. k < c + 1 /\ c < k + 1
    BY <1>2, <2>2, Bounded
  <2>4. QED
    BY <2>3
<1>9. FromTime(n, mean, now) = k * len + mean
  BY <1>1, <1>2, <1>6, <1>7, <1>8 DEF FromTime, Cycle
<1>10. QED
  BY <1>1, <1>3, <1>4, <1>5, <1>9 DEF InTurn

(* From any time from the mean on, the next turn of each of the n, or the  *)
(* one it has, is met within n buffers: in this cycle if it is not over,   *)
(* or else in the next.                                                    *)
LEMMA NextTurn ==
  ASSUME NEW n \in Nat, n > 0, NEW mean \in Nat, NEW from \in Nat,
         from * Precision >= mean, NEW i \in 1 .. n
  PROVE  \E t \in from .. from + n * Buffer - 1 : InTurn(i, n, mean, t * Precision)
<1>1. PICK p \in Nat : p = Precision /\ p > 0
  BY PrecisionAssumption
<1>2. PICK b \in Nat : b = Buffer /\ b > 0
  BY BufferAssumption
<1>3. PICK buf \in Nat : buf = b * p /\ buf = TimeBuffer /\ p <= buf
  <2>1. b * p \in Nat /\ 1 * p <= b * p
    BY <1>1, <1>2, Monotone
  <2>2. QED
    BY <1>1, <1>2, <2>1 DEF TimeBuffer
<1>4. PICK len \in Nat : len = buf * n /\ len > 0
  BY <1>1, <1>3
<1>5. PICK j \in Nat : j = i - 1 /\ j < n
  OBVIOUS
<1>6. PICK now \in Nat : now = from * p /\ now >= mean
  BY <1>1
<1>7. PICK c \in Nat : c * len <= now - mean /\ now - mean < c * len + len
  <2>1. now - mean \in Nat
    BY <1>6
  <2>2. QED
    BY <2>1, <1>4, Division
<1>8. PICK start \in Nat : start = mean + c * len
  <2>1. c * len \in Nat
    BY <1>4
  <2>2. QED
    BY <2>1
<1>9. PICK off \in Nat : off = j * buf /\ off + buf = i * buf /\ off + buf <= len
  <2>1. j * buf \in Nat /\ i * buf = j * buf + buf /\ i * buf <= n * buf /\ n * buf = len
    BY <1>3, <1>4, <1>5, Monotone
  <2>2. QED
    BY <2>1
<1>10. ASSUME NEW k \in Nat, NEW t \in Nat, NEW at \in Nat, at = mean + k * len + off,
              at <= t * p, t * p < at + buf
       PROVE  InTurn(i, n, mean, t * Precision)
  <2>1. t * p \in Nat /\ k * len \in Nat
    BY <1>1, <1>4
  <2>2. mean + k * (TimeBuffer * n) + (i - 1) * TimeBuffer = at
    BY <1>3, <1>4, <1>5, <1>9, <1>10
  <2>3. mean + k * (TimeBuffer * n) + i * TimeBuffer = at + buf
    BY <1>3, <1>4, <1>9, <1>10, <2>1
  <2>4. QED
    BY <1>1, <1>10, <2>1, <2>2, <2>3, TurnOfCycle
<1>11. ASSUME NEW k \in Nat, NEW at \in Nat, at = mean + k * len + off,
              now <= at, at + buf <= now + len
       PROVE  \E t \in from .. from + n * Buffer - 1 : InTurn(i, n, mean, t * Precision)
  <2>1. PICK t \in Nat : at <= t * p /\ t * p < at + p
    BY <1>1, NextMultiple
  <2>2. PICK last \in Nat : last = from + n * b /\ last * p = now + len
    <3>1. (from + n * b) * p = from * p + (n * b) * p
      BY <1>1, <1>2
    <3>2. (n * b) * p = (b * p) * n
      BY <1>1, <1>2
    <3>3. QED
      BY <3>1, <3>2, <1>2, <1>3, <1>4, <1>6
  <2>3. from <= t
    <3>1. from * p < p * (t + 1)
      <4>1. p * (t + 1) = t * p + p /\ from * p \in Nat /\ t * p \in Nat
        BY <1>1
      <4>2. QED
        BY <4>1, <2>1, <1>1, <1>6, <1>11
    <3>2. from < t + 1
      BY <3>1, <1>1, Bounded
    <3>3. QED
      BY <3>2
  <2>4. t < last
    <3>1. t * p < p * last
      <4>1. p * last = last * p /\ t * p \in Nat
        BY <1>1
      <4>2. QED
        BY <4>1, <2>1, <2>2, <1>1, <1>3, <1>6, <1>4, <1>11
    <3>2. QED
      BY <3>1, <1>1, Bounded
  <2>5. t \in from .. from + n * Buffer - 1
    BY <2>2, <2>3, <2>4, <1>2
  <2>6. InTurn(i, n, mean, t * Precision)
    <3>1. t * p < at + buf
      BY <2>1, <1>1, <1>3
    <3>2. QED
      BY <2>1, <3>1, <1>10, <1>11
  <2>7. QED
    BY <2>5, <2>6
<1>12. CASE now <= start + off
  <2>1. PICK at \in Nat : at = mean + c * len + off /\ at = start + off
    BY <1>8
  <2>2. at + buf <= now + len
    BY <2>1, <1>7, <1>8, <1>9
  <2>3. QED
    BY <2>1, <2>2, <1>11, <1>12
<1>13. CASE start + off <= now /\ now < start + off + buf
  <2>1. PICK at \in Nat : at = mean + c * len + off /\ at = start + off
    BY <1>8
  <2>2. InTurn(i, n, mean, from * Precision)
    BY <2>1, <1>6, <1>10, <1>13
  <2>3. n * Buffer >= 1
    BY <1>2
  <2>4. from \in from .. from + n * Buffer - 1
    BY <2>3, <1>2
  <2>5. QED
    BY <2>2, <2>4
<1>14. CASE start + off + buf <= now
  <2>1. PICK next \in Nat : next = c + 1 /\ next * len = c * len + len /\ c * len \in Nat
    BY <1>4
  <2>2. PICK at \in Nat : at = mean + next * len + off /\ at = start + len + off
    BY <1>8, <2>1
  <2>3. now <= at /\ at + buf <= now + len
    BY <2>1, <2>2, <1>7, <1>8, <1>9, <1>14
  <2>4. QED
    BY <2>2, <2>3, <1>11
<1>15. QED
  BY <1>12, <1>13, <1>14

-------------------------------------------------------------------------------
(* getReporters.  What the sort keeps of the list of nodes: all of them,   *)
(* each once, and those of equal reputation in the order they came.        *)
Distinct(list) == \A i, j \in 1 .. Len(list) : list[i] = list[j] => i = j

Ranked == members \in Seq(Address) /\ Distinct(members) /\ reputationOf \in [Address -> Nat]

Rearranged ==
    {l \in [1 .. Len(members) -> Address] :
       /\ {l[i] : i \in 1 .. Len(members)} = Members
       /\ \A i, j \in 1 .. Len(members) : l[i] = l[j] => i = j
       /\ \A i, j \in 1 .. Len(members) :
            i < j /\ reputationOf[l[i]] = reputationOf[l[j]]
               => Place(members, l[i]) < Place(members, l[j])}

(* Beyond m nothing has a better reputation than what stands before it.    *)
Settled(l, m) ==
    \A p, q \in 1 .. Len(members) : p < q /\ m < q => reputationOf[l[q]] <= reputationOf[l[p]]

LEMMA StartsRearranged ==
  ASSUME Ranked PROVE members \in Rearranged /\ Settled(members, Len(members))
<1>1. members \in [1 .. Len(members) -> Address] /\ Len(members) \in Nat
  BY DEF Ranked
<1>2. \A i \in 1 .. Len(members) : Place(members, members[i]) = i
  BY DEF Ranked, Distinct, Place
<1>3. {members[i] : i \in 1 .. Len(members)} = Members
  BY DEF Members, Nodes!Members
<1>4. members \in Rearranged
  BY <1>1, <1>2, <1>3 DEF Rearranged, Ranked, Distinct
<1>5. QED
  BY <1>1, <1>4 DEF Settled

LEMMA SwapKeeps ==
  ASSUME Ranked, NEW l \in Rearranged, NEW j \in 1 .. Len(members), j + 1 \in 1 .. Len(members),
         reputationOf[l[j + 1]] > reputationOf[l[j]]
  PROVE  /\ Swapped(l, j) \in Rearranged
         /\ \A k \in 1 .. Len(members) :
              Swapped(l, j)[k] = l[IF k = j THEN j + 1 ELSE IF k = j + 1 THEN j ELSE k]
<1> DEFINE n == Len(members)
           at(k) == IF k = j THEN j + 1 ELSE IF k = j + 1 THEN j ELSE k
<1>1. /\ l \in [1 .. n -> Address] /\ n \in Nat
      /\ {l[i] : i \in 1 .. n} = Members
      /\ \A a, b \in 1 .. n : l[a] = l[b] => a = b
      /\ \A a, b \in 1 .. n : a < b /\ reputationOf[l[a]] = reputationOf[l[b]]
            => Place(members, l[a]) < Place(members, l[b])
  BY DEF Rearranged, Ranked
<1>2. PICK s : s = Swapped(l, j)
  OBVIOUS
<1>3. \A k \in 1 .. n : at(k) \in 1 .. n /\ at(at(k)) = k
  OBVIOUS
<1>4. s \in [1 .. n -> Address] /\ \A k \in 1 .. n : s[k] = l[at(k)]
  BY <1>1, <1>2 DEF Swapped
<1>5. {s[i] : i \in 1 .. n} = Members
  <2>1. \A i \in 1 .. n : l[i] = s[at(i)]
    BY <1>3, <1>4
  <2> HIDE DEF at, n
  <2>2. {s[i] : i \in 1 .. n} = {l[i] : i \in 1 .. n}
    BY <2>1, <1>3, <1>4
  <2>3. QED
    BY <2>2, <1>1
<1>6. ASSUME NEW a \in 1 .. n, NEW b \in 1 .. n, s[a] = s[b] PROVE a = b
  <2>1. at(a) = at(b)
    BY <1>1, <1>3, <1>4, <1>6
  <2>2. QED
    BY <2>1, <1>3
<1>7. ASSUME NEW a \in 1 .. n, NEW b \in 1 .. n, a < b, reputationOf[s[a]] = reputationOf[s[b]]
      PROVE  Place(members, s[a]) < Place(members, s[b])
  <2>1. s[a] = l[at(a)] /\ s[b] = l[at(b)] /\ at(a) \in 1 .. n /\ at(b) \in 1 .. n
    BY <1>3, <1>4
  <2>2. ~ (a = j /\ b = j + 1)
    <3>1. reputationOf[l[j]] \in Nat /\ reputationOf[l[j + 1]] \in Nat
      BY <1>1 DEF Ranked
    <3>2. QED
      BY <2>1, <3>1, <1>7
  <2>3. at(a) < at(b)
    BY <2>2, <1>7
  <2>4. PICK x \in 1 .. n, y \in 1 .. n : s[a] = l[x] /\ s[b] = l[y] /\ x < y
    BY <2>1, <2>3
  <2>5. QED
    BY <2>4, <1>1, <1>7
<1>8. s \in Rearranged
  BY <1>4, <1>5, <1>6, <1>7 DEF Rearranged
<1>9. QED
  BY <1>2, <1>4, <1>8

Turned(l, j) == IF OutOfOrder(l[j], l[j + 1]) THEN Swapped(l, j) ELSE l

PassLoop(after, list, count) ==
    after = [j \in 0 .. count |-> IF j = 0 THEN list ELSE Turned(after[j - 1], j)]

LEMMA PassRuns ==
  ASSUME Ranked, NEW list \in Rearranged, NEW count \in Nat, count < Len(members)
  PROVE  /\ \E after : PassLoop(after, list, count) /\ Pass(list, count) = after[count]
         /\ Pass(list, count) \in Rearranged
<1> DEFINE D == Rearranged
<1>1. ASSUME NEW j \in 1 .. count, NEW l \in D PROVE Turned(l, j) \in D
  <2>1. j \in 1 .. Len(members) /\ j + 1 \in 1 .. Len(members)
    BY DEF Ranked
  <2>2. CASE OutOfOrder(l[j], l[j + 1])
    BY <2>1, <2>2, SwapKeeps DEF Turned, OutOfOrder
  <2>3. CASE ~ OutOfOrder(l[j], l[j + 1])
    BY <2>3 DEF Turned
  <2>4. QED
    BY <2>2, <2>3
<1>2. PICK step : step = [p \in (1 .. count) \X D |-> Turned(p[2], p[1])]
  OBVIOUS
<1> HIDE DEF D
<1>3. \A j \in 1 .. count : \A l \in D : step[<<j, l>>] = Turned(l, j)
  BY <1>2
<1>4. step \in [(1 .. count) \X D -> D]
  <2>1. ASSUME NEW p \in (1 .. count) \X D PROVE Turned(p[2], p[1]) \in D
    BY <1>1
  <2>2. QED
    BY <1>2, <2>1
<1>5. list \in D
  BY DEF D
<1>6. PICK g \in [0 .. count -> D] : Turning(g, count, list, step)
  BY <1>4, <1>5, Recursion
<1>7. PassLoop(g, list, count)
  <2>1. ASSUME NEW j \in 0 .. count
        PROVE  g[j] = IF j = 0 THEN list ELSE Turned(g[j - 1], j)
    <3>1. g[j] = IF j = 0 THEN list ELSE step[<<j, g[j - 1]>>]
      BY <1>6 DEF Turning
    <3>2. j # 0 => j \in 1 .. count /\ g[j - 1] \in D
      BY <1>6
    <3>3. QED
      BY <3>1, <3>2, <1>3
  <2>2. DOMAIN g = 0 .. count /\ g = [j \in 0 .. count |-> g[j]]
    BY <1>6
  <2>3. QED
    BY <2>1, <2>2 DEF PassLoop
<1>8. PICK after : after = CHOOSE h : PassLoop(h, list, count)
  OBVIOUS
<1>9. PassLoop(after, list, count)
  BY <1>7, <1>8
<1>10. Pass(list, count) = after[count]
  BY <1>8 DEF Pass, PassLoop, Turned
<1>11. after[0] \in D /\ \A j \in 1 .. count : after[j - 1] \in D => after[j] \in D
  BY <1>1, <1>5, <1>9 DEF PassLoop
<1>12. after[count] \in D
  <2>1. \A j \in 0 .. count : after[j] \in D
    BY ONLY count \in Nat, <1>11, Stays
  <2>2. count \in 0 .. count
    OBVIOUS
  <2>3. QED
    BY ONLY <2>1, <2>2
<1>13. QED
  BY <1>9, <1>10, <1>12 DEF D

(* A pass over the first count + 1 brings the least reputed of them last.  *)
LEMMA PassSettles ==
  ASSUME Ranked, NEW list \in Rearranged, NEW count \in Nat, count < Len(members),
         Settled(list, count + 1)
  PROVE  Pass(list, count) \in Rearranged /\ Settled(Pass(list, count), count)
<1> DEFINE n == Len(members)
           rep(a) == reputationOf[a]
           Done(l, j) == /\ l \in Rearranged
                         /\ Settled(l, count + 1)
                         /\ \A p \in 1 .. j : rep(l[j + 1]) <= rep(l[p])
<1>1. PICK after : PassLoop(after, list, count) /\ Pass(list, count) = after[count]
  BY PassRuns
<1>2. after[0] = list /\ \A j \in 1 .. count : after[j] = Turned(after[j - 1], j)
  BY <1>1 DEF PassLoop
<1>3. n \in Nat /\ \A l \in Rearranged : \A k \in 1 .. n : rep(l[k]) \in Nat
  BY DEF Ranked, Rearranged
<1>4. ASSUME NEW j \in 1 .. count, NEW l, Done(l, j - 1) PROVE Done(Turned(l, j), j)
  <2>1. /\ j \in 1 .. n /\ j + 1 \in 1 .. n /\ l \in Rearranged
        /\ \A p \in 1 .. j - 1 : rep(l[j]) <= rep(l[p])
        /\ \A k \in 1 .. n : rep(l[k]) \in Nat
        /\ \A p, q \in 1 .. n : p < q /\ count + 1 < q => rep(l[q]) <= rep(l[p])
    <3>1. l \in Rearranged /\ Settled(l, count + 1) /\ \A k \in 1 .. n : rep(l[k]) \in Nat
      BY <1>3, <1>4
    <3>2. j \in 1 .. n /\ j + 1 \in 1 .. n
      BY <1>3
    <3>3. \A p \in 1 .. j - 1 : rep(l[j - 1 + 1]) <= rep(l[p])
      BY ONLY <1>4
    <3>4. j - 1 + 1 = j
      OBVIOUS
    <3>5. \A p, q \in 1 .. n : p < q /\ count + 1 < q => rep(l[q]) <= rep(l[p])
      BY <3>1 DEF Settled
    <3>6. QED
      BY ONLY <3>1, <3>2, <3>3, <3>4, <3>5
  <2>2. CASE rep(l[j + 1]) > rep(l[j])
    <3>1. PICK s : s = Swapped(l, j)
      OBVIOUS
    <3>2. /\ Turned(l, j) = s /\ s \in Rearranged
          /\ \A k \in 1 .. n : s[k] = l[IF k = j THEN j + 1 ELSE IF k = j + 1 THEN j ELSE k]
      BY <2>1, <2>2, <3>1, SwapKeeps DEF Turned, OutOfOrder
    <3>3. s[j] = l[j + 1] /\ s[j + 1] = l[j] /\ \A k \in 1 .. n : k # j /\ k # j + 1 => s[k] = l[k]
      BY <2>1, <3>2
    <3>4. ASSUME NEW p \in 1 .. j PROVE rep(s[j + 1]) <= rep(s[p])
      <4>1. CASE p = j
        BY <2>1, <2>2, <3>3, <4>1
      <4>2. CASE p # j
        <5>1. p \in 1 .. j - 1 /\ p \in 1 .. n /\ p # j + 1
          BY <4>2, <2>1
        <5>2. QED
          BY <2>1, <3>3, <4>2, <5>1
      <4>3. QED
        BY <4>1, <4>2
    <3>5. ASSUME NEW p \in 1 .. n, NEW q \in 1 .. n, p < q, count + 1 < q
          PROVE  rep(s[q]) <= rep(s[p])
      <4>1. s[q] = l[q] /\ q # j /\ q # j + 1 /\ j < q /\ j + 1 < q
        BY <3>3, <3>5
      <4>2. PICK r \in 1 .. n : r = (IF p = j THEN j + 1 ELSE IF p = j + 1 THEN j ELSE p) /\ r < q
        BY <2>1, <3>5, <4>1
      <4>3. s[p] = l[r]
        BY <3>2, <4>2
      <4>4. QED
        BY <2>1, <3>5, <4>1, <4>2, <4>3
    <3>6. QED
      BY <3>2, <3>4, <3>5 DEF Settled
  <2>3. CASE ~ (rep(l[j + 1]) > rep(l[j]))
    <3>1. Turned(l, j) = l
      BY <2>3 DEF Turned, OutOfOrder
    <3>2. \A p \in 1 .. j : p \in 1 .. n /\ (p = j \/ p \in 1 .. j - 1)
      BY <2>1
    <3>3. rep(l[j + 1]) <= rep(l[j])
      BY <2>1, <2>3
    <3>4. \A p \in 1 .. j : rep(l[j + 1]) <= rep(l[p])
      BY <2>1, <3>2, <3>3
    <3>5. QED
      BY <1>4, <3>1, <3>4
  <2>4. QED
    BY <2>2, <2>3
<1>5. Done(list, 0)
  OBVIOUS
<1> HIDE DEF Done
<1>6. PICK S : S = {j \in 0 .. count : Done(after[j], j)}
  OBVIOUS
<1>7. 0 \in S /\ \A j \in 1 .. count : j - 1 \in S => j \in S
  BY <1>2, <1>4, <1>5, <1>6
<1>8. count \in S
  <2>1. \A j \in 0 .. count : j \in S
    BY ONLY count \in Nat, <1>7, Climb
  <2>2. count \in 0 .. count
    OBVIOUS
  <2>3. QED
    BY ONLY <2>1, <2>2
<1>9. PICK l : l = Pass(list, count) /\ Done(l, count)
  BY <1>1, <1>6, <1>8
<1>10. /\ l \in Rearranged
       /\ \A p, q \in 1 .. n : p < q /\ count + 1 < q => rep(l[q]) <= rep(l[p])
       /\ \A p \in 1 .. count : rep(l[count + 1]) <= rep(l[p])
  BY <1>9 DEF Done, Settled
<1>11. ASSUME NEW p \in 1 .. n, NEW q \in 1 .. n, p < q, count < q
       PROVE  rep(l[q]) <= rep(l[p])
  <2>1. CASE q = count + 1
    BY <1>10, <1>11, <2>1
  <2>2. CASE q # count + 1
    BY <1>10, <1>11, <2>2
  <2>3. QED
    BY <2>1, <2>2
<1>12. QED
  BY <1>9, <1>10, <1>11 DEF Settled

SortLoop(sorted) ==
    sorted = [i \in 0 .. Len(members) - 1 |->
                IF i = 0 THEN members ELSE Pass(sorted[i - 1], Len(members) - i)]

LEMMA SortRuns ==
  ASSUME Ranked, members # <<>>
  PROVE  \E sorted : SortLoop(sorted) /\ Reporters = sorted[Len(members) - 1]
<1> DEFINE D == Rearranged
<1>1. PICK n \in Nat : n = Len(members) /\ n > 0
  BY DEF Ranked
<1>2. PICK last \in Nat : last = n - 1
  BY <1>1
<1>3. ASSUME NEW i \in 1 .. last, NEW l \in D PROVE Pass(l, n - i) \in D
  <2>1. n - i \in Nat /\ n - i < n
    BY <1>2
  <2>2. PICK count \in Nat : count = n - i /\ count < Len(members)
    BY <1>1, <2>1
  <2>3. Pass(l, count) \in Rearranged
    BY <2>2, PassRuns
  <2>4. QED
    BY <2>2, <2>3
<1>4. members \in D
  BY StartsRearranged
<1> HIDE DEF D
<1>5. PICK step : step = [p \in (1 .. last) \X D |-> Pass(p[2], n - p[1])]
  OBVIOUS
<1>6. \A i \in 1 .. last : \A l \in D : step[<<i, l>>] = Pass(l, n - i)
  BY <1>5
<1>7. step \in [(1 .. last) \X D -> D]
  <2>1. ASSUME NEW p \in (1 .. last) \X D PROVE Pass(p[2], n - p[1]) \in D
    BY <1>3
  <2>2. QED
    BY <1>5, <2>1
<1>8. PICK g \in [0 .. last -> D] : Turning(g, last, members, step)
  BY <1>4, <1>7, Recursion
<1>9. SortLoop(g)
  <2>1. ASSUME NEW i \in 0 .. last
        PROVE  g[i] = IF i = 0 THEN members ELSE Pass(g[i - 1], n - i)
    <3>1. g[i] = IF i = 0 THEN members ELSE step[<<i, g[i - 1]>>]
      BY <1>8 DEF Turning
    <3>2. i # 0 => i \in 1 .. last /\ g[i - 1] \in D
      BY <1>8
    <3>3. QED
      BY <3>1, <3>2, <1>6
  <2>2. DOMAIN g = 0 .. last /\ g = [i \in 0 .. last |-> g[i]]
    BY <1>8
  <2>3. g = [i \in 0 .. last |-> IF i = 0 THEN members ELSE Pass(g[i - 1], n - i)]
    BY <2>1, <2>2
  <2>4. QED
    BY <2>3, <1>1, <1>2 DEF SortLoop
<1>10. PICK sorted : sorted = CHOOSE h : SortLoop(h)
  OBVIOUS
<1>11. SortLoop(sorted)
  BY <1>9, <1>10
<1>12. Reporters = sorted[Len(members) - 1]
  BY <1>10 DEF Reporters, SortLoop
<1>13. QED
  BY <1>11, <1>12

(* The reporters: the nodes, each once, the most reputed first, and those  *)
(* of equal reputation as they registered.                                 *)
LEMMA ReportersSorted ==
  ASSUME Ranked, members # <<>>
  PROVE  Reporters \in Rearranged /\ Settled(Reporters, 1)
<1>1. PICK n \in Nat : n = Len(members) /\ n > 0
  BY DEF Ranked
<1>2. PICK last \in Nat : last = n - 1
  BY <1>1
<1>3. PICK sorted : SortLoop(sorted) /\ Reporters = sorted[last]
  BY <1>1, <1>2, SortRuns
<1>4. sorted[0] = members /\ \A i \in 1 .. last : sorted[i] = Pass(sorted[i - 1], n - i)
  <2>1. sorted = [i \in 0 .. last |-> IF i = 0 THEN members ELSE Pass(sorted[i - 1], n - i)]
    BY <1>1, <1>2, <1>3 DEF SortLoop
  <2>2. 0 \in 0 .. last /\ \A i \in 1 .. last : i \in 0 .. last /\ i # 0
    OBVIOUS
  <2>3. QED
    BY ONLY <2>1, <2>2
<1>5. PICK S : S = {i \in 0 .. last : sorted[i] \in Rearranged /\ Settled(sorted[i], n - i)}
  OBVIOUS
<1>6. 0 \in S
  <2>1. members \in Rearranged /\ Settled(members, n) /\ n - 0 = n
    BY <1>1, StartsRearranged
  <2>2. QED
    BY <1>4, <1>5, <2>1
<1>7. ASSUME NEW i \in 1 .. last, i - 1 \in S PROVE i \in S
  <2>1. PICK count \in Nat : count = n - i /\ count < n /\ count + 1 = n - (i - 1)
    BY <1>2
  <2>2. sorted[i - 1] \in Rearranged /\ Settled(sorted[i - 1], count + 1)
    BY <1>5, <1>7, <2>1
  <2>3. Pass(sorted[i - 1], count) \in Rearranged /\ Settled(Pass(sorted[i - 1], count), count)
    BY <1>1, <2>1, <2>2, PassSettles
  <2>4. QED
    BY <1>4, <1>5, <2>1, <2>3
<1>8. last \in S
  BY <1>6, <1>7, Climb
<1>9. n - last = 1
  BY <1>1, <1>2
<1>10. QED
  BY <1>3, <1>5, <1>8, <1>9

LEMMA OrderIsRight == ASSUME Ranked PROVE ReportersOrdered
<1> SUFFICES ASSUME members # <<>>
             PROVE  LET order == Reporters IN
                    /\ Len(order) = Len(members)
                    /\ {order[i] : i \in 1 .. Len(order)} = Members
                    /\ \A i, j \in 1 .. Len(order) : i < j =>
                          LET a == order[i]  b == order[j]
                          IN  \/ reputationOf[a] > reputationOf[b]
                              \/ /\ reputationOf[a] = reputationOf[b]
                                 /\ Place(members, a) < Place(members, b)
  BY DEF ReportersOrdered, GetReportersReverts
<1>1. PICK order : order = Reporters
  OBVIOUS
<1>2. PICK n \in Nat : n = Len(members)
  BY DEF Ranked
<1>3. /\ order \in [1 .. n -> Address]
      /\ {order[i] : i \in 1 .. n} = Members
      /\ \A i, j \in 1 .. n : i < j /\ reputationOf[order[i]] = reputationOf[order[j]]
            => Place(members, order[i]) < Place(members, order[j])
      /\ \A i, j \in 1 .. n : i < j /\ 1 < j => reputationOf[order[j]] <= reputationOf[order[i]]
  BY <1>1, <1>2, ReportersSorted DEF Rearranged, Settled
<1>4. Len(order) = n
  BY <1>3
<1>5. ASSUME NEW i \in 1 .. n, NEW j \in 1 .. n, i < j
      PROVE  \/ reputationOf[order[i]] > reputationOf[order[j]]
             \/ /\ reputationOf[order[i]] = reputationOf[order[j]]
                /\ Place(members, order[i]) < Place(members, order[j])
  <2>1. reputationOf[order[i]] \in Nat /\ reputationOf[order[j]] \in Nat
    BY <1>3 DEF Ranked
  <2>2. reputationOf[order[j]] <= reputationOf[order[i]]
    BY <1>3, <1>5
  <2>3. QED
    BY <2>1, <2>2, <1>3, <1>5
<1>6. QED
  BY <1>1, <1>2, <1>3, <1>4, <1>5

-------------------------------------------------------------------------------
(* report.  The proof of a reporter is one that it signed.                 *)
LEMMA ProofIsGiven ==
  ASSUME NEW proofs \in Seq(Proof), NEW a, Given(a, proofs) # {}
  PROVE  ProofOf(a, proofs) \in Proof /\ ProofOf(a, proofs).signer = a
<1>1. PICK n \in Nat : n = Len(proofs)
  OBVIOUS
<1>2. Given(a, proofs) \subseteq 1 .. n
  BY <1>1 DEF Given
<1>3. PICK Bad : Bad = {n - j : j \in Given(a, proofs)}
  OBVIOUS
<1>4. Bad \subseteq Nat /\ Bad # {}
  BY <1>2, <1>3
<1>5. PICK m \in Bad : \A k \in Bad : m <= k
  BY <1>4, MinimalNumber
<1>6. PICK j \in Given(a, proofs) : m = n - j
  BY <1>3
<1>7. \A k \in Given(a, proofs) : k <= j
  <2>1. ASSUME NEW k \in Given(a, proofs) PROVE k <= j
    <3>1. n - k \in Bad /\ k \in 1 .. n /\ j \in 1 .. n
      BY <1>2, <1>3
    <3>2. n - j <= n - k
      BY <1>5, <1>6, <3>1
    <3>3. QED
      BY <3>1, <3>2
  <2>2. QED
    BY <2>1
<1>8. PICK c \in Given(a, proofs) : ProofOf(a, proofs) = proofs[c]
  BY <1>7 DEF ProofOf
<1>9. QED
  BY <1>1, <1>2, <1>8 DEF Given

Keep(i, list, order, proofs) ==
    IF Verified(order[i], proofs) THEN Append(list, ProofOf(order[i], proofs)) ELSE list

KeptLoop(kept, order, proofs) ==
    kept = [i \in 0 .. Len(order) |->
              IF i = 0 THEN <<>> ELSE Keep(i, kept[i - 1], order, proofs)]

LEMMA KeptRuns ==
  ASSUME NEW order \in Seq(Address), NEW proofs \in Seq(Proof)
  PROVE  \E kept \in [0 .. Len(order) -> Seq(Proof)] :
            KeptLoop(kept, order, proofs) /\ ProofsKept(order, proofs) = kept[Len(order)]
<1> DEFINE D == Seq(Proof)
<1>1. PICK n \in Nat : n = Len(order)
  OBVIOUS
<1>2. ASSUME NEW i \in 1 .. n, NEW list \in D PROVE Keep(i, list, order, proofs) \in D
  <2>1. CASE Verified(order[i], proofs)
    <3>1. ProofOf(order[i], proofs) \in Proof
      BY <2>1, ProofIsGiven DEF Verified
    <3>2. QED
      BY <2>1, <3>1 DEF Keep
  <2>2. CASE ~ Verified(order[i], proofs)
    BY <2>2 DEF Keep
  <2>3. QED
    BY <2>1, <2>2
<1>3. <<>> \in D
  OBVIOUS
<1> HIDE DEF D
<1>4. PICK step : step = [p \in (1 .. n) \X D |-> Keep(p[1], p[2], order, proofs)]
  OBVIOUS
<1>5. \A i \in 1 .. n : \A list \in D : step[<<i, list>>] = Keep(i, list, order, proofs)
  BY <1>4
<1>6. step \in [(1 .. n) \X D -> D]
  <2>1. ASSUME NEW p \in (1 .. n) \X D PROVE Keep(p[1], p[2], order, proofs) \in D
    BY <1>2
  <2>2. QED
    BY <1>4, <2>1
<1>7. PICK base \in D : base = <<>>
  BY <1>3
<1>8. PICK g \in [0 .. n -> D] : Turning(g, n, base, step)
  BY <1>6, Recursion
<1>9. KeptLoop(g, order, proofs)
  <2>1. ASSUME NEW i \in 0 .. n
        PROVE  g[i] = IF i = 0 THEN <<>> ELSE Keep(i, g[i - 1], order, proofs)
    <3>1. g[i] = IF i = 0 THEN <<>> ELSE step[<<i, g[i - 1]>>]
      BY <1>7, <1>8 DEF Turning
    <3>2. i # 0 => i \in 1 .. n /\ g[i - 1] \in D
      BY <1>8
    <3>3. QED
      BY <3>1, <3>2, <1>5
  <2>2. DOMAIN g = 0 .. n /\ g = [i \in 0 .. n |-> g[i]]
    BY <1>8
  <2>3. g = [i \in 0 .. n |-> IF i = 0 THEN <<>> ELSE Keep(i, g[i - 1], order, proofs)]
    <3>1. QED
      BY <2>1, <2>2
  <2>4. QED
    BY <2>3, <1>1 DEF KeptLoop
<1>10. PICK kept : kept = CHOOSE h : KeptLoop(h, order, proofs)
  OBVIOUS
<1>11. KeptLoop(kept, order, proofs)
  BY <1>9, <1>10
<1>12. ProofsKept(order, proofs) = kept[Len(order)]
  BY <1>10 DEF ProofsKept, KeptLoop, Keep
<1>13. /\ DOMAIN kept = 0 .. n /\ kept = [i \in 0 .. n |-> kept[i]]
       /\ kept[0] = <<>> /\ \A i \in 1 .. n : kept[i] = Keep(i, kept[i - 1], order, proofs)
  <2>1. kept = [i \in 0 .. n |-> IF i = 0 THEN base ELSE Keep(i, kept[i - 1], order, proofs)]
    BY <1>1, <1>7, <1>11 DEF KeptLoop
  <2>2. /\ DOMAIN kept = 0 .. n
        /\ \A i \in 0 .. n : kept[i] = IF i = 0 THEN base ELSE Keep(i, kept[i - 1], order, proofs)
    BY ONLY <1>1, <2>1
  <2>3. kept = [i \in 0 .. n |-> kept[i]]
    BY ONLY <2>1
  <2>4. kept[0] = base /\ \A i \in 1 .. n : kept[i] = Keep(i, kept[i - 1], order, proofs)
    BY ONLY <1>1, <2>2
  <2>5. QED
    BY <1>7, <2>2, <2>3, <2>4
<1>14. \A i \in 0 .. n : kept[i] \in D
  <2>1. kept[0] \in D /\ \A i \in 1 .. n : kept[i - 1] \in D => kept[i] \in D
    <3>1. QED
      BY <1>2, <1>3, <1>13
  <2>2. QED
    BY <2>1, Stays
<1>15. kept \in [0 .. n -> D]
  <2>1. QED
    BY <1>13, <1>14
<1>16. QED
  BY <1>1, <1>11, <1>12, <1>15 DEF D

(* What is kept of the proofs: valid ones, of the reporters verified.      *)
LEMMA KeptIsVerified ==
  ASSUME NEW order \in Seq(Address), NEW proofs \in Seq(Proof)
  PROVE  LET kept == ProofsKept(order, proofs) IN
         /\ kept \in Seq(Proof)
         /\ \A j \in 1 .. Len(kept) : kept[j].valid
         /\ Signers(kept) = {order[i] : i \in VerifiedPlaces(order, proofs)}
<1> DEFINE Sound(list, i) ==
             /\ \A j \in 1 .. Len(list) : list[j].valid
             /\ Signers(list) = {order[k] : k \in {m \in 1 .. i : Verified(order[m], proofs)}}
<1>1. PICK n \in Nat : n = Len(order)
  OBVIOUS
<1>2. PICK kept \in [0 .. n -> Seq(Proof)] :
            KeptLoop(kept, order, proofs) /\ ProofsKept(order, proofs) = kept[n]
  BY <1>1, KeptRuns
<1>3. /\ kept[0] = <<>>
      /\ \A i \in 1 .. n : kept[i] = Keep(i, kept[i - 1], order, proofs)
  <2>1. kept = [i \in 0 .. n |-> IF i = 0 THEN <<>> ELSE Keep(i, kept[i - 1], order, proofs)]
    BY ONLY <1>1, <1>2 DEF KeptLoop
  <2>2. \A i \in 1 .. n : i \in 0 .. n /\ i # 0
    OBVIOUS
  <2>3. \A i \in 0 .. n :
           kept[i] = IF i = 0 THEN <<>> ELSE Keep(i, kept[i - 1], order, proofs)
    BY ONLY <2>1
  <2>4. QED
    BY ONLY <2>2, <2>3
<1>4. Sound(kept[0], 0)
  BY <1>3 DEF Signers
<1>5. ASSUME NEW i \in 1 .. n, Sound(kept[i - 1], i - 1) PROVE Sound(kept[i], i)
  <2>1. PICK list \in Seq(Proof) : list = kept[i - 1]
    OBVIOUS
  <2>2. PICK a : a = order[i]
    OBVIOUS
  <2>3. PICK old : old = {m \in 1 .. i - 1 : Verified(order[m], proofs)}
    OBVIOUS
  <2>4. PICK new : new = {m \in 1 .. i : Verified(order[m], proofs)}
    OBVIOUS
  <2>5. Signers(list) = {order[k] : k \in old} /\ \A j \in 1 .. Len(list) : list[j].valid
    BY <1>5, <2>1, <2>3
  <2>6. CASE Verified(a, proofs)
    <3>1. PICK p \in Proof : p = ProofOf(a, proofs) /\ p.signer = a /\ p.valid
      BY <2>6, ProofIsGiven DEF Verified
    <3>2. kept[i] = Append(list, p)
      BY <1>3, <2>1, <2>2, <2>6, <3>1 DEF Keep
    <3>3. PICK len \in Nat : len = Len(list) /\ Len(Append(list, p)) = len + 1
      OBVIOUS
    <3>4. \A j \in 1 .. len + 1 : Append(list, p)[j] = IF j = len + 1 THEN p ELSE list[j]
      BY <3>3
    <3>5. \A j \in 1 .. Len(kept[i]) : kept[i][j].valid
      BY <2>5, <3>1, <3>2, <3>3, <3>4
    <3>6. Signers(kept[i]) = Signers(list) \cup {a}
      <4>1. Signers(kept[i]) \subseteq Signers(list) \cup {a}
        BY <3>1, <3>2, <3>3, <3>4 DEF Signers
      <4>2. a \in Signers(kept[i])
        <5>1. len + 1 \in 1 .. Len(kept[i]) /\ kept[i][len + 1].signer = a
          BY <3>1, <3>2, <3>3, <3>4
        <5>2. QED
          BY <5>1 DEF Signers
      <4>3. Signers(list) \subseteq Signers(kept[i])
        <5>1. ASSUME NEW j \in 1 .. len PROVE list[j].signer \in Signers(kept[i])
          <6>1. j \in 1 .. Len(kept[i]) /\ kept[i][j] = list[j]
            BY <3>2, <3>3, <3>4
          <6>2. QED
            BY <6>1 DEF Signers
        <5>2. QED
          BY <5>1, <3>3 DEF Signers
      <4>4. QED
        BY <4>1, <4>2, <4>3
    <3>7. new = old \cup {i}
      BY <2>2, <2>3, <2>4, <2>6
    <3>8. {order[k] : k \in new} = {order[k] : k \in old} \cup {a}
      BY <2>2, <3>7
    <3>9. QED
      BY <2>4, <2>5, <3>5, <3>6, <3>8
  <2>7. CASE ~ Verified(a, proofs)
    <3>1. new = old
      BY <2>2, <2>3, <2>4, <2>7
    <3>2. kept[i] = list
      BY <1>3, <2>1, <2>2, <2>7 DEF Keep
    <3>3. QED
      BY <2>4, <2>5, <3>1, <3>2
  <2>8. QED
    BY <2>6, <2>7
<1> HIDE DEF Sound
<1>6. PICK S : S = {i \in 0 .. n : Sound(kept[i], i)}
  OBVIOUS
<1>7. 0 \in S /\ \A i \in 1 .. n : i - 1 \in S => i \in S
  BY <1>4, <1>5, <1>6
<1>8. n \in S
  <2>1. \A i \in 0 .. n : i \in S
    BY ONLY <1>1, <1>7, Climb
  <2>2. QED
    BY ONLY <1>1, <2>1
<1>9. Sound(kept[n], n) /\ kept[n] \in Seq(Proof)
  BY <1>6, <1>8
<1>10. VerifiedPlaces(order, proofs) = {m \in 1 .. n : Verified(order[m], proofs)}
  BY <1>1 DEF VerifiedPlaces
<1>11. QED
  BY <1>2, <1>9, <1>10 DEF Sound

(* The reputations stay numbers.                                           *)
LEMMA AdjustedTyped ==
  ASSUME NEW rep \in [Address -> Nat], NEW i, NEW sender, NEW order, NEW proofs
  PROVE  Adjusted(rep, i, sender, order, proofs) \in [Address -> Nat]
<1>1. PICK a : a = order[i]
  OBVIOUS
<1>2. CASE ~ Verified(a, proofs)
  BY <1>1, <1>2 DEF Adjusted
<1>3. CASE Verified(a, proofs)
  <2>1. \A x \in Nat : x + 10 \in Nat /\ Merit(x) \in Nat /\ Demerit(x) \in Nat
    BY DEF Merit, Demerit
  <2>2. PICK v : Adjusted(rep, i, sender, order, proofs) = [rep EXCEPT ![a] = v]
                 /\ (v = rep[a] + 10 \/ v = Merit(rep[a]) \/ v = Demerit(rep[a]))
    BY <1>1, <1>3 DEF Adjusted
  <2>3. a \in Address => v \in Nat
    BY <2>1, <2>2
  <2>4. QED
    BY <2>2, <2>3
<1>4. QED
  BY <1>2, <1>3

ReputationLoop(after, sender, order, proofs) ==
    after = [i \in 0 .. Len(order) |->
               IF i = 0 THEN reputationOf
               ELSE Adjusted(after[i - 1], i, sender, order, proofs)]

LEMMA ReputationRuns ==
  ASSUME reputationOf \in [Address -> Nat], NEW sender, NEW order \in Seq(Address), NEW proofs
  PROVE  \E after : /\ ReputationLoop(after, sender, order, proofs)
                    /\ ReputationAfter(sender, order, proofs) = after[Len(order)]
                    /\ \A i \in 0 .. Len(order) : after[i] \in [Address -> Nat]
<1> DEFINE D == [Address -> Nat]
           Adjust(i, rep) == Adjusted(rep, i, sender, order, proofs)
<1>1. PICK n \in Nat : n = Len(order)
  OBVIOUS
<1>2. \A i \in 1 .. n : \A rep \in D : Adjust(i, rep) \in D
  BY AdjustedTyped
<1>3. reputationOf \in D
  OBVIOUS
<1> HIDE DEF D, Adjust
<1>4. PICK step : step = [p \in (1 .. n) \X D |-> Adjust(p[1], p[2])]
  OBVIOUS
<1>5. \A i \in 1 .. n : \A rep \in D : step[<<i, rep>>] = Adjust(i, rep)
  BY <1>4
<1>6. step \in [(1 .. n) \X D -> D]
  <2>1. ASSUME NEW p \in (1 .. n) \X D PROVE Adjust(p[1], p[2]) \in D
    BY <1>2
  <2>2. QED
    BY <1>4, <2>1
<1>7. PICK g \in [0 .. n -> D] : Turning(g, n, reputationOf, step)
  BY <1>3, <1>6, Recursion
<1>8. ReputationLoop(g, sender, order, proofs)
  <2>1. ASSUME NEW i \in 0 .. n
        PROVE  g[i] = IF i = 0 THEN reputationOf ELSE Adjust(i, g[i - 1])
    <3>1. g[i] = IF i = 0 THEN reputationOf ELSE step[<<i, g[i - 1]>>]
      BY <1>7 DEF Turning
    <3>2. i # 0 => i \in 1 .. n /\ g[i - 1] \in D
      BY <1>7
    <3>3. QED
      BY <3>1, <3>2, <1>5
  <2>2. DOMAIN g = 0 .. n /\ g = [i \in 0 .. n |-> g[i]]
    BY <1>7
  <2>3. g = [i \in 0 .. n |-> IF i = 0 THEN reputationOf ELSE Adjust(i, g[i - 1])]
    BY <2>1, <2>2
  <2>4. QED
    BY <2>3, <1>1 DEF ReputationLoop, Adjust
<1>9. PICK after : after = CHOOSE h : ReputationLoop(h, sender, order, proofs)
  OBVIOUS
<1>10. ReputationLoop(after, sender, order, proofs)
  BY <1>8, <1>9
<1>11. ReputationAfter(sender, order, proofs) = after[Len(order)]
  BY <1>9 DEF ReputationAfter, ReputationLoop
<1>12. after = [i \in 0 .. n |-> IF i = 0 THEN reputationOf ELSE Adjust(i, after[i - 1])]
  BY <1>1, <1>10 DEF ReputationLoop, Adjust
<1>13. after[0] \in D /\ \A i \in 1 .. n : after[i - 1] \in D => after[i] \in D
  BY <1>2, <1>3, <1>12
<1>14. \A i \in 0 .. n : after[i] \in D
  BY ONLY <1>1, <1>13, Stays
<1>15. QED
  BY <1>1, <1>10, <1>11, <1>14 DEF D

(* When all are verified, the sender gains ten and nobody else more than   *)
(* one.                                                                    *)
LEMMA SenderGains ==
  ASSUME reputationOf \in [Address -> Nat], NEW sender, NEW order \in Seq(Address),
         Distinct(order), NEW proofs,
         \A i \in 1 .. Len(order) : Verified(order[i], proofs)
  PROVE  LET after == ReputationAfter(sender, order, proofs) IN
         \A i \in 1 .. Len(order) :
            IF order[i] = sender THEN after[order[i]] = reputationOf[order[i]] + 10
            ELSE after[order[i]] <= reputationOf[order[i]] + 1
<1> DEFINE Gained(rep, a) == IF a = sender THEN rep[a] = reputationOf[a] + 10
                             ELSE rep[a] <= reputationOf[a] + 1
           Sound(rep, i) ==
             \A k \in 1 .. Len(order) : IF k <= i THEN Gained(rep, order[k])
                                        ELSE rep[order[k]] = reputationOf[order[k]]
<1>1. PICK n \in Nat : n = Len(order)
  OBVIOUS
<1>2. PICK after : /\ ReputationLoop(after, sender, order, proofs)
                   /\ ReputationAfter(sender, order, proofs) = after[n]
                   /\ \A i \in 0 .. n : after[i] \in [Address -> Nat]
  BY <1>1, ReputationRuns
<1>3. /\ after[0] = reputationOf
      /\ \A i \in 1 .. n : after[i] = Adjusted(after[i - 1], i, sender, order, proofs)
  <2>1. after = [i \in 0 .. n |-> IF i = 0 THEN reputationOf
                                 ELSE Adjusted(after[i - 1], i, sender, order, proofs)]
    BY <1>1, <1>2 DEF ReputationLoop
  <2>2. \A i \in 0 .. n : after[i] = IF i = 0 THEN reputationOf
                                     ELSE Adjusted(after[i - 1], i, sender, order, proofs)
    BY ONLY <1>1, <2>1
  <2>3. QED
    BY ONLY <1>1, <2>2
<1>4. Sound(after[0], 0)
  BY <1>1, <1>3
<1>5. ASSUME NEW i \in 1 .. n, Sound(after[i - 1], i - 1) PROVE Sound(after[i], i)
  <2>1. PICK rep \in [Address -> Nat] : rep = after[i - 1]
    BY <1>2
  <2>2. PICK a \in Address : a = order[i]
    BY <1>1
  <2>3. PICK v : /\ after[i] = [rep EXCEPT ![a] = v]
                 /\ IF a = sender THEN v = rep[a] + 10
                    ELSE v = Merit(rep[a]) \/ v = Demerit(rep[a])
    <3>1. Verified(a, proofs) /\ after[i] = Adjusted(rep, i, sender, order, proofs)
      BY <1>1, <1>3, <2>1, <2>2
    <3>2. QED
      BY <2>2, <3>1 DEF Adjusted
  <2>4. rep[a] = reputationOf[a] /\ rep[a] \in Nat
    <3>1. i \in 1 .. Len(order) /\ ~ (i <= i - 1)
      BY <1>1
    <3>2. rep[order[i]] = reputationOf[order[i]]
      BY ONLY <1>5, <2>1, <3>1
    <3>3. QED
      BY <2>2, <3>2
  <2>5. Gained(after[i], a)
    BY <2>3, <2>4 DEF Merit, Demerit
  <2>6. ASSUME NEW k \in 1 .. Len(order), k # i
        PROVE  IF k <= i THEN Gained(after[i], order[k])
               ELSE after[i][order[k]] = reputationOf[order[k]]
    <3>1. order[k] # a /\ order[k] \in Address
      BY <1>1, <2>2, <2>6 DEF Distinct
    <3>2. after[i][order[k]] = rep[order[k]]
      BY <2>3, <3>1
    <3>3. IF k <= i - 1 THEN Gained(rep, order[k]) ELSE rep[order[k]] = reputationOf[order[k]]
      BY <1>5, <2>1
    <3>4. k <= i - 1 <=> k <= i
      BY <1>1, <2>6
    <3>5. QED
      BY <3>2, <3>3, <3>4
  <2>7. QED
    BY <2>2, <2>5, <2>6
<1> HIDE DEF Sound
<1>6. PICK S : S = {i \in 0 .. n : Sound(after[i], i)}
  OBVIOUS
<1>7. 0 \in S /\ \A i \in 1 .. n : i - 1 \in S => i \in S
  BY <1>4, <1>5, <1>6
<1>8. n \in S
  <2>1. \A i \in 0 .. n : i \in S
    BY ONLY <1>1, <1>7, Climb
  <2>2. QED
    BY ONLY <1>1, <2>1
<1>9. Sound(after[n], n)
  BY <1>6, <1>8
<1>10. QED
  BY <1>1, <1>2, <1>9 DEF Sound

-------------------------------------------------------------------------------
(* The invariant: the types, and a list of nodes without repetitions.      *)
Inv == TypeOK /\ Distinct(members)

LEMMA NodesStay ==
  ASSUME members \in Seq(Address), Distinct(members), Nodes!Next
  PROVE  members' \in Seq(Address) /\ Distinct(members')
<1>1. PICK n \in Nat : n = Len(members)
  OBVIOUS
<1>2. ASSUME NEW a \in Address, Nodes!Join(a)
      PROVE  members' \in Seq(Address) /\ Distinct(members')
  <2>1. members' = Append(members, a) /\ \A i \in 1 .. n : members[i] # a
    BY <1>1, <1>2 DEF Nodes!Join, Nodes!Members
  <2>2. /\ members' \in Seq(Address) /\ Len(members') = n + 1
        /\ \A i \in 1 .. n + 1 : members'[i] = IF i = n + 1 THEN a ELSE members[i]
    BY <1>1, <2>1
  <2>3. ASSUME NEW i \in 1 .. n + 1, NEW j \in 1 .. n + 1, members'[i] = members'[j] PROVE i = j
    BY <1>1, <2>1, <2>2, <2>3 DEF Distinct
  <2>4. QED
    BY <2>2, <2>3 DEF Distinct
<1>3. ASSUME NEW k \in 1 .. Len(members), Nodes!Leave(k)
      PROVE  members' \in Seq(Address) /\ Distinct(members')
  <2>1. members' = [i \in 1 .. n - 1 |-> IF i < k THEN members[i] ELSE members[i + 1]]
    BY <1>1, <1>3 DEF Nodes!Leave, Nodes!Without
  <2>2. PICK m \in Nat : m = n - 1
    BY <1>1
  <2>3. /\ members' \in [1 .. m -> Address] /\ Len(members') = m
        /\ \A i \in 1 .. m : members'[i] = IF i < k THEN members[i] ELSE members[i + 1]
    <3>1. members' = [i \in 1 .. m |-> IF i < k THEN members[i] ELSE members[i + 1]]
      BY <2>1, <2>2
    <3>2. \A i \in 1 .. m : (IF i < k THEN members[i] ELSE members[i + 1]) \in Address
      BY <1>1, <2>2
    <3>3. QED
      BY <3>1, <3>2
  <2>4. ASSUME NEW i \in 1 .. m, NEW j \in 1 .. m, members'[i] = members'[j] PROVE i = j
    <3>1. PICK x \in 1 .. n : x = (IF i < k THEN i ELSE i + 1) /\ members'[i] = members[x]
      BY <1>1, <2>2, <2>3
    <3>2. PICK y \in 1 .. n : y = (IF j < k THEN j ELSE j + 1) /\ members'[j] = members[y]
      BY <1>1, <2>2, <2>3
    <3>3. x = y
      BY <1>1, <2>4, <3>1, <3>2 DEF Distinct
    <3>4. QED
      BY <3>1, <3>2, <3>3
  <2>5. QED
    BY <2>3, <2>4 DEF Distinct
<1>4. QED
  BY <1>2, <1>3 DEF Nodes!Next

(* What a report accepted was checked for, with the order of that moment.  *)
LEMMA ReportOfNodes ==
  ASSUME Inv, NEW sender \in staked, NEW id \in Id, NEW height \in 1 .. block,
         NEW content \in Content, NEW proofs \in Seq(Proof),
         Report(sender, id, height, content, proofs)
  PROVE  \E order \in Seq(Address) :
            /\ order = Reporters /\ Len(order) = Len(members) /\ Len(members) > 0
            /\ {order[i] : i \in 1 .. Len(order)} = Members
            /\ Distinct(order)
            /\ \E i \in 1 .. Len(order) : order[i] = sender
            /\ ConsensusMet(order, proofs)
            /\ reportProofs' = [reportProofs EXCEPT ![id] = ProofsKept(order, proofs)]
            /\ reputationOf' = ReputationAfter(sender, order, proofs)
            /\ reports' = [reports EXCEPT ![id] = Accepted(id, height, content, sender)]
<1>1. Ranked
  BY DEF Inv, TypeOK, Ranked
<1>2. PICK order : order = Reporters
  OBVIOUS
<1>3. /\ members # <<>>
      /\ CanReport(sender, order, Timed(proofs))
      /\ ConsensusMet(order, proofs)
      /\ reportProofs' = [reportProofs EXCEPT ![id] = ProofsKept(order, proofs)]
      /\ reputationOf' = ReputationAfter(sender, order, proofs)
      /\ reports' = [reports EXCEPT ![id] = Accepted(id, height, content, sender)]
  BY <1>2 DEF Report, Accepts, GetReportersReverts
<1>4. PICK n \in Nat : n = Len(members) /\ n > 0
  BY <1>1, <1>3 DEF Ranked
<1>5. order \in Rearranged
  BY <1>1, <1>2, <1>3, ReportersSorted
<1>6. /\ order \in [1 .. n -> Address]
      /\ {order[i] : i \in 1 .. n} = Members
      /\ \A i, j \in 1 .. n : order[i] = order[j] => i = j
  BY <1>4, <1>5 DEF Rearranged
<1>7. order \in Seq(Address) /\ Len(order) = n
  BY <1>6
<1>8. \E i \in 1 .. Len(order) : order[i] = sender
  BY <1>3 DEF CanReport
<1>9. Distinct(order)
  BY <1>6, <1>7 DEF Distinct
<1>10. QED
  BY <1>2, <1>3, <1>4, <1>6, <1>7, <1>8, <1>9

LEMMA ReportPicked ==
  ASSUME Inv, ReportStep
  PROVE  \E sender \in staked, id \in Id, height \in 1 .. block, content \in Content,
            proofs \in Seq(Proof) : Report(sender, id, height, content, proofs)
<1>1. PICK sender \in staked, id \in Id, height \in 1 .. block, content \in Content,
           count \in 1 .. MaxProofs : \E proofs \in [1 .. count -> Proof] :
             Report(sender, id, height, content, proofs)
  BY DEF ReportStep
<1>2. PICK proofs \in [1 .. count -> Proof] : Report(sender, id, height, content, proofs)
  BY <1>1
<1>3. proofs \in Seq(Proof)
  BY <1>2
<1>4. QED
  BY <1>1, <1>2, <1>3

LEMMA Invariance == Spec => []Inv
<1>1. Init => Inv
  BY IdAssumption, BlockAssumption DEF Init, Inv, TypeOK, Distinct, NoReport, Nodes!Init
<1>2. Inv /\ [Next]_vars => Inv'
  <2> SUFFICES ASSUME Inv, [Next]_vars PROVE Inv'
    OBVIOUS
  <2>1. CASE NextBlock
    BY <2>1, BlockAssumption DEF NextBlock, nodeVars, reportVars, Inv, TypeOK, Distinct
  <2>2. CASE NodeStep
    <3>1. members' \in Seq(Address) /\ Distinct(members')
      BY <2>2, NodesStay DEF NodeStep, Inv, TypeOK
    <3>2. UNCHANGED <<block, time, reportVars>> /\ staked' \subseteq Address
      BY <2>2 DEF NodeStep, Inv, TypeOK
    <3>3. QED
      BY <3>1, <3>2 DEF reportVars, Inv, TypeOK, Distinct
  <2>3. CASE StakeStep
    BY <2>3 DEF StakeStep, reportVars, Inv, TypeOK, Distinct
  <2>4. CASE ReportStep
    <3>1. PICK sender \in staked, id \in Id, height \in 1 .. block, content \in Content,
               proofs \in Seq(Proof) : Report(sender, id, height, content, proofs)
      BY <2>4, ReportPicked
    <3>2. PICK order \in Seq(Address) :
            /\ reportProofs' = [reportProofs EXCEPT ![id] = ProofsKept(order, proofs)]
            /\ reputationOf' = ReputationAfter(sender, order, proofs)
            /\ reports' = [reports EXCEPT ![id] = Accepted(id, height, content, sender)]
      BY <3>1, ReportOfNodes
    <3>3. lastReportId' = id /\ UNCHANGED <<block, time, members, staked>>
      BY <3>1 DEF Report, nodeVars
    <3>4. ProofsKept(order, proofs) \in Seq(Proof)
      BY KeptIsVerified
    <3>5. reputationOf' \in [Address -> Nat]
      <4>1. \E after : /\ ReputationAfter(sender, order, proofs) = after[Len(order)]
                       /\ \A i \in 0 .. Len(order) : after[i] \in [Address -> Nat]
        BY ReputationRuns DEF Inv, TypeOK
      <4>2. QED
        BY <3>2, <4>1
    <3>6. reportProofs' \in [Id -> Seq(Proof)]
      BY <3>2, <3>4 DEF Inv, TypeOK
    <3>7. PICK r : r = Accepted(id, height, content, sender)
      OBVIOUS
    <3>8. sender \in Address /\ height \in Nat
      BY DEF Inv, TypeOK
    <3>9. r \in [height : Nat, content : Content \cup {NoContent},
                 reporter : Address \cup {Nobody}, processed : BOOLEAN]
      BY <3>1, <3>7, <3>8 DEF Accepted
    <3>10. reports' \in [Id -> [height : Nat, content : Content \cup {NoContent},
                                reporter : Address \cup {Nobody}, processed : BOOLEAN]]
      BY <3>2, <3>7, <3>9 DEF Inv, TypeOK
    <3>11. QED
      BY <3>1, <3>3, <3>5, <3>6, <3>10 DEF Inv, TypeOK, Distinct
  <2>5. ASSUME NEW id \in Id, ProcessReport(id) PROVE Inv'
    BY <2>5 DEF ProcessReport, nodeVars, Inv, TypeOK, Distinct
  <2>6. CASE UNCHANGED vars
    BY <2>6 DEF vars, nodeVars, reportVars, Inv, TypeOK, Distinct
  <2>7. QED
    BY <2>1, <2>2, <2>3, <2>4, <2>5, <2>6 DEF Next, ProcessStep
<1>3. QED
  BY <1>1, <1>2, PTL DEF Spec

(* Whatever the reports gave and took, however nodes come and go: the      *)
(* types are kept, and the sort of getReporters puts all the nodes, each   *)
(* once, in the order of their reputations and then of registration.       *)
THEOREM ReportersAlwaysSound == Spec => []ReportersSound
<1>1. Inv => ReportersSound
  BY OrderIsRight DEF Inv, TypeOK, Ranked, ReportersSound
<1>2. QED
  BY <1>1, Invariance, PTL

-------------------------------------------------------------------------------
LEMMA MeansTyped == \A mean \in Means : mean \in Nat
<1>1. ASSUME NEW mean \in Means PROVE mean \in Nat
  <2>1. PICK t \in 0 .. 2 * MaxTime : mean = (t * Precision) \div 2
    BY DEF Means
  <2>2. t \in Nat /\ t * Precision \in Nat
    BY <2>1, PrecisionAssumption, BlockAssumption
  <2>3. QED
    BY <2>1, <2>2
<1>2. QED
  BY <1>1

(* Exactly one node has its turn at any time from the mean of the          *)
(* timestamps on, and none before, whatever the number of nodes, the       *)
(* buffer and the precision.                                               *)
THEOREM OneReporter == Spec => []OneReporterAtATime
<1>1. Inv => OneReporterAtATime
  <2> SUFFICES ASSUME Inv, NEW mean \in Means, NEW n \in {Len(members)} \ {0}
               PROVE  /\ \A i, j \in 1 .. n : InTurn(i, n, mean, Now) /\ InTurn(j, n, mean, Now)
                                                => i = j
                      /\ Now >= mean <=> \E i \in 1 .. n : InTurn(i, n, mean, Now)
    BY DEF OneReporterAtATime
  <2>1. n \in Nat /\ n > 0
    BY DEF Inv, TypeOK
  <2>2. Now \in Nat
    BY PrecisionAssumption DEF Inv, TypeOK, Now
  <2>3. mean \in Nat
    BY MeansTyped
  <2>4. QED
    BY <2>1, <2>2, <2>3, Turns
<1>2. QED
  BY <1>1, Invariance, PTL

(* Whoever misses its turn has another within one cycle, whatever its      *)
(* place, the number of nodes, the buffer and the precision.               *)
THEOREM EveryTurn == Spec => []EveryoneGetsATurn
<1>1. Inv => EveryoneGetsATurn
  <2> SUFFICES ASSUME Inv, NEW mean \in Means, NEW n \in {Len(members)} \ {0}, Now >= mean,
                      NEW i \in 1 .. n
               PROVE  \E t \in time .. time + n * Buffer - 1 : InTurn(i, n, mean, t * Precision)
    BY DEF EveryoneGetsATurn
  <2>1. n \in Nat /\ n > 0 /\ time \in Nat /\ time * Precision >= mean
    BY DEF Inv, TypeOK, Now
  <2>2. mean \in Nat
    BY MeansTyped
  <2>3. QED
    BY <2>1, <2>2, NextTurn
<1>2. QED
  BY <1>1, Invariance, PTL

-------------------------------------------------------------------------------
(* A report newly accepted is that of a report step.                       *)
LEMMA AcceptedByReport ==
  ASSUME Inv, [Next]_vars, NEW id \in Id, NewlyAccepted(id)
  PROVE  \E sender \in staked, height \in 1 .. block, content \in Content,
            proofs \in Seq(Proof) : Report(sender, id, height, content, proofs)
<1>1. CASE UNCHANGED reports
  BY <1>1 DEF NewlyAccepted
<1>2. CASE NextBlock \/ NodeStep \/ StakeStep \/ UNCHANGED vars
  BY <1>1, <1>2 DEF NextBlock, NodeStep, StakeStep, vars, reportVars
<1>3. CASE ProcessStep
  <2>1. PICK other \in Id : reports' = [reports EXCEPT ![other].processed = TRUE]
    BY <1>3 DEF ProcessStep, ProcessReport
  <2>2. reports'[id] = reports[id] \/ reports'[id].processed
    BY <2>1 DEF Inv, TypeOK
  <2>3. QED
    BY <2>2 DEF NewlyAccepted
<1>4. CASE ReportStep
  <2>1. PICK sender \in staked, other \in Id, height \in 1 .. block, content \in Content,
             proofs \in Seq(Proof) : Report(sender, other, height, content, proofs)
    BY <1>4, ReportPicked
  <2>2. reports' = [reports EXCEPT ![other] = Accepted(other, height, content, sender)]
    BY <2>1 DEF Report
  <2>3. other = id
    BY <2>2 DEF NewlyAccepted, Inv, TypeOK
  <2>4. QED
    BY <2>1, <2>3
<1>5. QED
  BY <1>2, <1>3, <1>4 DEF Next

LEMMA HalfOf ==
  ASSUME NEW c \in Nat, NEW n \in Nat, IsHalf(c, n) PROVE 2 * c >= n
<1>1. PICK h \in Nat : Precision = 2 * h /\ h > 0
  <2>1. Precision \in Nat /\ Precision > 0 /\ Precision % 2 = 0
    BY PrecisionAssumption
  <2>2. PICK p \in Nat : p = Precision /\ p > 0 /\ p % 2 = 0
    BY <2>1
  <2>3. p = 2 * (p \div 2) /\ p \div 2 \in Nat
    BY <2>2
  <2>4. p \div 2 > 0
    BY <2>2, <2>3
  <2>5. QED
    BY <2>2, <2>3, <2>4
<1>2. PICK x \in Nat : x = n * h
  BY <1>1
<1>3. n * Precision = 2 * x /\ (2 * x) \div 2 = x
  BY <1>1, <1>2
<1>4. c * Precision >= x
  BY <1>3 DEF IsHalf
<1>5. c * Precision = (2 * c) * h
  BY <1>1
<1>6. ASSUME 2 * c < n PROVE FALSE
  <2>1. PICK k \in Nat : k = 2 * c + 1 /\ k <= n
    BY <1>6
  <2>2. k * h <= n * h
    BY <2>1, <1>1, Monotone
  <2>3. PICK d \in Nat : d = 2 * c /\ d * h \in Nat /\ k * h = d * h + h
    BY <2>1, <1>1
  <2>4. d * h >= x
    BY <1>4, <1>5, <2>3
  <2>5. QED
    BY <1>1, <1>2, <2>2, <2>3, <2>4
<1>7. QED
  BY <1>6

(* Behind a report accepted stand valid proofs of half of the nodes.       *)
LEMMA HalfSigned ==
  ASSUME NEW order \in Seq(Address), Distinct(order), NEW proofs \in Seq(Proof),
         ConsensusMet(order, proofs)
  PROVE  2 * Cardinality(Signers(ProofsKept(order, proofs))) >= Len(order)
<1>1. PICK n \in Nat : n = Len(order)
  OBVIOUS
<1>2. PICK V : V = VerifiedPlaces(order, proofs)
  OBVIOUS
<1>3. V \subseteq 1 .. n
  BY <1>1, <1>2 DEF VerifiedPlaces
<1>4. IsFiniteSet(V) /\ Cardinality(V) \in Nat
  <2>1. IsFiniteSet(1 .. n)
    BY <1>1, FS_Interval
  <2>2. QED
    BY <1>3, <2>1, FS_Subset, FS_CardinalityType
<1>5. PICK T : T = {order[i] : i \in V}
  OBVIOUS
<1>6. PICK f : f = [i \in V |-> order[i]]
  OBVIOUS
<1>7. f \in Bijection(V, T)
  <2>1. f \in [V -> T] /\ \A i \in V : f[i] = order[i]
    BY <1>5, <1>6
  <2>2. \A i, j \in V : f[i] = f[j] => i = j
    BY <1>1, <1>3, <2>1 DEF Distinct
  <2>3. \A t \in T : \E i \in V : f[i] = t
    BY <1>5, <2>1
  <2>4. QED
    BY <2>1, <2>2, <2>3 DEF Bijection, Injection, Surjection, IsInjective
<1>8. Cardinality(T) = Cardinality(V)
  BY <1>4, <1>7, FS_Bijection DEF ExistsBijection
<1>9. Signers(ProofsKept(order, proofs)) = T
  BY <1>2, <1>5, KeptIsVerified
<1>10. 2 * Cardinality(V) >= n
  BY <1>1, <1>2, <1>4, HalfOf DEF ConsensusMet
<1>11. QED
  BY <1>1, <1>8, <1>9, <1>10

(* However often a signer is named, whoever sends the report and whatever  *)
(* else the list of proofs holds.                                          *)
THEOREM HalfStandBehind == Spec => AcceptedByHalf
<1>1. ASSUME Inv, [Next]_vars, NEW id \in Id, NewlyAccepted(id)
      PROVE  LET kept == reportProofs'[id] IN
             /\ \A j \in 1 .. Len(kept) : kept[j].valid
             /\ Signers(kept) \subseteq Members
             /\ 2 * Cardinality(Signers(kept)) >= Len(members)
  <2>1. PICK sender \in staked, height \in 1 .. block, content \in Content,
             proofs \in Seq(Proof) : Report(sender, id, height, content, proofs)
    BY <1>1, AcceptedByReport
  <2>2. PICK order \in Seq(Address) :
          /\ Len(order) = Len(members)
          /\ {order[i] : i \in 1 .. Len(order)} = Members
          /\ Distinct(order)
          /\ ConsensusMet(order, proofs)
          /\ reportProofs' = [reportProofs EXCEPT ![id] = ProofsKept(order, proofs)]
    BY <1>1, <2>1, ReportOfNodes
  <2>3. PICK kept : kept = reportProofs'[id] /\ kept = ProofsKept(order, proofs)
    BY <1>1, <2>2 DEF Inv, TypeOK
  <2>4. /\ \A j \in 1 .. Len(kept) : kept[j].valid
        /\ Signers(kept) = {order[i] : i \in VerifiedPlaces(order, proofs)}
    BY <2>3, KeptIsVerified
  <2>5. Signers(kept) \subseteq Members
    BY <2>2, <2>4 DEF VerifiedPlaces
  <2>6. 2 * Cardinality(Signers(kept)) >= Len(members)
    BY <2>2, <2>3, HalfSigned
  <2>7. QED
    BY <2>3, <2>4, <2>5, <2>6
<1>2. Inv /\ [Next]_vars
        => [\A id \in Id : NewlyAccepted(id) =>
              LET kept == reportProofs'[id] IN
              /\ \A j \in 1 .. Len(kept) : kept[j].valid
              /\ Signers(kept) \subseteq Members
              /\ 2 * Cardinality(Signers(kept)) >= Len(members)]_vars
  BY <1>1
<1>3. QED
  BY <1>2, Invariance, PTL DEF Spec, AcceptedByHalf

(* Whatever the reputations were and wherever the reporter stands.         *)
THEOREM FullReportsAdvance == Spec => ReporterAdvances
<1>1. ASSUME Inv, [Next]_vars, NEW id \in Id, NewlyAccepted(id),
             Signers(reportProofs'[id]) = Members,
             NEW a \in Members \ {reports'[id].reporter}
      PROVE  reputationOf'[reports'[id].reporter] + reputationOf[a]
                > reputationOf[reports'[id].reporter] + reputationOf'[a]
  <2>1. PICK sender \in staked, height \in 1 .. block, content \in Content,
             proofs \in Seq(Proof) : Report(sender, id, height, content, proofs)
    BY <1>1, AcceptedByReport
  <2>2. PICK order \in Seq(Address) :
          /\ {order[i] : i \in 1 .. Len(order)} = Members
          /\ Distinct(order)
          /\ \E i \in 1 .. Len(order) : order[i] = sender
          /\ reportProofs' = [reportProofs EXCEPT ![id] = ProofsKept(order, proofs)]
          /\ reputationOf' = ReputationAfter(sender, order, proofs)
          /\ reports' = [reports EXCEPT ![id] = Accepted(id, height, content, sender)]
    BY <1>1, <2>1, ReportOfNodes
  <2>3. reports'[id].reporter = sender
    BY <1>1, <2>2 DEF Inv, TypeOK, Accepted
  <2>4. Signers(reportProofs'[id]) = {order[i] : i \in VerifiedPlaces(order, proofs)}
    <3>1. reportProofs'[id] = ProofsKept(order, proofs)
      BY <1>1, <2>2 DEF Inv, TypeOK
    <3>2. QED
      BY <3>1, KeptIsVerified
  <2>5. ASSUME NEW i \in 1 .. Len(order) PROVE Verified(order[i], proofs)
    <3>1. PICK k \in VerifiedPlaces(order, proofs) : order[k] = order[i]
      BY <1>1, <2>2, <2>4
    <3>2. QED
      BY <3>1 DEF VerifiedPlaces
  <2>6. PICK old \in [Address -> Nat] : old = reputationOf
    BY <1>1 DEF Inv, TypeOK
  <2>7. PICK new \in [Address -> Nat] : new = reputationOf'
    <3>1. \E after : /\ ReputationAfter(sender, order, proofs) = after[Len(order)]
                     /\ \A i \in 0 .. Len(order) : after[i] \in [Address -> Nat]
      BY <2>6, ReputationRuns
    <3>2. Len(order) \in 0 .. Len(order)
      OBVIOUS
    <3>3. ReputationAfter(sender, order, proofs) \in [Address -> Nat]
      BY ONLY <3>1, <3>2
    <3>4. PICK new \in [Address -> Nat] : new = ReputationAfter(sender, order, proofs)
      BY ONLY <3>3
    <3>5. QED
      BY <2>2, <3>4
  <2>8. \A i \in 1 .. Len(order) :
           IF order[i] = sender THEN new[order[i]] = old[order[i]] + 10
           ELSE new[order[i]] <= old[order[i]] + 1
    BY <2>2, <2>5, <2>6, <2>7, SenderGains
  <2>9. new[sender] = old[sender] + 10
    BY <2>2, <2>8
  <2>10. new[a] <= old[a] + 1
    BY <1>1, <2>2, <2>3, <2>8
  <2>11. a \in Address /\ sender \in Address
    <3>1. sender \in Address
      BY <1>1 DEF Inv, TypeOK
    <3>2. PICK k \in 1 .. Len(order) : order[k] = a
      BY <1>1, <2>2
    <3>3. QED
      BY <3>1, <3>2
  <2>12. new[sender] + old[a] > old[sender] + new[a]
    BY <2>9, <2>10, <2>11
  <2>13. QED
    BY <2>3, <2>6, <2>7, <2>12
<1>2. Inv /\ [Next]_vars
        => [\A id \in Id : NewlyAccepted(id) /\ Signers(reportProofs'[id]) = Members =>
              LET sender == reports'[id].reporter IN
              \A a \in Members \ {sender} :
                 reputationOf'[sender] + reputationOf[a]
                    > reputationOf[sender] + reputationOf'[a]]_vars
  BY <1>1
<1>3. QED
  BY <1>2, Invariance, PTL DEF Spec, ReporterAdvances

-------------------------------------------------------------------------------
(* Reports are accepted and processed as the ledger of the node manager    *)
(* says, whoever reports, however the turns and the signatures fall.       *)
THEOREM RefinesLedger == Spec => ImplementsLedger
<1>1. Init => Ledger!Init
  BY DEF Init, Ledger!Init, Ledger!NoReport, NoReport
<1>2. Inv /\ [Next]_vars => [Ledger!Next]_(Ledger!vars)
  <2> SUFFICES ASSUME Inv, [Next]_vars PROVE [Ledger!Next]_(Ledger!vars)
    OBVIOUS
  <2> USE DEF Inv, TypeOK
  <2>1. ASSUME NEW sender \in staked, NEW id \in Id, NEW height \in 1 .. block,
               NEW content \in Content, NEW proofs,
               Report(sender, id, height, content, proofs)
        PROVE  Ledger!Accept(id, height, content)
    BY <2>1 DEF Report, Accepts, Open, FreshHeight, Accepted, Ledger!Accept
  <2>2. ASSUME NEW id \in Id, ProcessReport(id) PROVE Ledger!Process(id)
    BY <2>2 DEF ProcessReport, Ledger!Process
  <2>3. CASE UNCHANGED <<reports, lastReportId>>
    BY <2>3 DEF Ledger!vars
  <2>4. CASE NextBlock \/ NodeStep \/ StakeStep \/ UNCHANGED vars
    BY <2>3, <2>4 DEF NextBlock, NodeStep, StakeStep, vars, reportVars
  <2>5. CASE ReportStep
    <3>1. PICK sender \in staked, id \in Id, height \in 1 .. block, content \in Content,
               count \in 1 .. MaxProofs : \E proofs \in [1 .. count -> Proof] :
                 Report(sender, id, height, content, proofs)
      BY <2>5 DEF ReportStep
    <3>2. height \in 1 .. MaxBlock
      BY BlockAssumption
    <3>3. QED
      BY <2>1, <3>1, <3>2 DEF Ledger!Next
  <2>6. CASE ProcessStep
    BY <2>2, <2>6 DEF ProcessStep, Ledger!Next
  <2>7. QED
    BY <2>4, <2>5, <2>6 DEF Next
<1>3. QED
  BY <1>1, <1>2, Invariance, PTL DEF Spec, Ledger!Spec, ImplementsLedger

(* What a broker is asked to build its next report on: no report is higher *)
(* than the one accepted last.                                             *)
THEOREM LastHighest == Spec => []LastIsHighest
<1>1. Init => LastIsHighest
  BY IdAssumption DEF Init, LastIsHighest, NoReport
<1>2. Inv /\ LastIsHighest /\ [Next]_vars => LastIsHighest'
  <2> SUFFICES ASSUME Inv, LastIsHighest, [Next]_vars PROVE LastIsHighest'
    OBVIOUS
  <2>1. CASE UNCHANGED <<reports, lastReportId>>
    BY <2>1 DEF LastIsHighest
  <2>2. ASSUME NEW sender, NEW id \in Id, NEW height \in Nat, NEW content, NEW proofs,
               Report(sender, id, height, content, proofs)
        PROVE  LastIsHighest'
    <3>1. /\ height > reports[lastReportId].height /\ lastReportId' = id
          /\ reports' = [reports EXCEPT ![id] = Accepted(id, height, content, sender)]
      BY <2>2 DEF Report, Accepts, FreshHeight
    <3>2. /\ reports'[id].height = height
          /\ \A other \in Id \ {id} : reports'[other] = reports[other]
          /\ \A other \in Id : reports[other].height \in Nat
          /\ lastReportId \in Id
      BY <3>1 DEF Inv, TypeOK, Accepted
    <3>3. QED
      BY <3>1, <3>2 DEF LastIsHighest
  <2>3. ASSUME NEW id \in Id, ProcessReport(id) PROVE LastIsHighest'
    <3>1. lastReportId' = lastReportId /\ \A other \in Id : reports'[other].height = reports[other].height
      BY <2>3 DEF ProcessReport, Inv, TypeOK
    <3>2. lastReportId \in Id
      BY DEF Inv, TypeOK
    <3>3. QED
      BY <3>1, <3>2 DEF LastIsHighest
  <2>4. CASE ReportStep
    <3>1. PICK sender \in staked, id \in Id, height \in 1 .. block, content \in Content,
               count \in 1 .. MaxProofs : \E proofs \in [1 .. count -> Proof] :
                 Report(sender, id, height, content, proofs)
      BY <2>4 DEF ReportStep
    <3>2. height \in Nat
      BY DEF Inv, TypeOK
    <3>3. QED
      BY <2>2, <3>1, <3>2
  <2>5. CASE ProcessStep
    BY <2>3, <2>5 DEF ProcessStep
  <2>6. CASE NextBlock \/ NodeStep \/ StakeStep \/ UNCHANGED vars
    BY <2>1, <2>6 DEF NextBlock, NodeStep, StakeStep, vars, reportVars
  <2>7. QED
    BY <2>4, <2>5, <2>6 DEF Next
<1>3. QED
  BY <1>1, <1>2, Invariance, PTL DEF Spec
===============================================================================
