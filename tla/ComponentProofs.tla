---------------------------- MODULE ComponentProofs ----------------------------
(***************************************************************************)
(* Proofs about components that no other one interleaves with.             *)
(*                                                                         *)
(*   answer cache  replacing, reading, bypassing and evicting keep it      *)
(*                 within its budgets, charged exactly, and give the last  *)
(*                 answer of each key                                      *)
(*   libraries     for any processes, compilers and source files, what the *)
(*                 cache of native libraries holds under a key and what a  *)
(*                 process has loaded was built of the key's sources, once *)
(*   roads         on any finite graph, the length found is the least one  *)
(*   terms         for any literals, values and operation, the rows of a   *)
(*                 native evaluation are the ones that the terms give      *)
(***************************************************************************)
EXTENDS AnswerCache, NativeBuild, RoadSearch, NativeQuery, LoopProofs, FiniteSetTheorems

-----------------------------------------------------------------------------
(* Cache: sums of charges                                                   *)

(* Charged is what its recursion says.                                      *)
LEMMA ChargedSums ==
  ASSUME NEW s \in Seq(Nat)
  PROVE  /\ Charged(s) \in [0 .. Len(s) -> Nat]
         /\ Charged(s)[0] = 0
         /\ \A i \in 1 .. Len(s) : Charged(s)[i] = Charged(s)[i - 1] + s[i]
PROOF
  <1> DEFINE n == Len(s)
             round == [i \in 1 .. n |-> [x \in Nat |-> x + s[i]]]
             F(f) == f = [i \in 0 .. n |-> IF i = 0 THEN 0 ELSE f[i - 1] + s[i]]
             sum == CHOOSE f : F(f)
  <1>1. n \in Nat /\ \A i \in 1 .. n : s[i] \in Nat
    OBVIOUS
  <1>2. \A i \in 1 .. n, x \in Nat : round[i][x] = x + s[i] /\ round[i][x] \in Nat
    BY <1>1
  <1>3. PICK f : f \in Loops(n, Nat, 0, round)
    <2>1. 0 \in Nat
      OBVIOUS
    <2> HIDE DEF n, round
    <2>2. Loops(n, Nat, 0, round) # {}
      BY <1>1, <1>2, <2>1, LoopExists
    <2> QED
      BY <2>2
  <1>4. f \in [0 .. n -> Nat] /\ f[0] = 0 /\ \A i \in 1 .. n : f[i] = round[i][f[i - 1]]
    <2> HIDE DEF n, round
    <2> QED
      BY <1>3 DEF Loops
  <1>5. \A i \in 1 .. n : f[i] = f[i - 1] + s[i]
    <2> TAKE i \in 1 .. n
    <2>1. f[i - 1] \in Nat
      <3>1. i - 1 \in 0 .. n
        BY <1>1
      <3> HIDE DEF n
      <3> QED
        BY <1>4, <3>1
    <2> HIDE DEF round
    <2> QED
      BY <1>2, <1>4, <2>1
  <1>6. F(f)
    <2> HIDE DEF n
    <2> QED
      BY <1>1, <1>4, <1>5
  <1>7. F(sum)
    <2> HIDE DEF F
    <2> QED
      BY <1>6
  <1>8. Charged(s) = sum
    BY DEF Charged
  <1>9. sum[0] = 0 /\ \A i \in 1 .. n : sum[i] = sum[i - 1] + s[i]
    <2> HIDE DEF n, sum
    <2> QED
      BY <1>1, <1>7
  <1>10. \A i \in 0 .. n : sum[i] \in Nat
    <2> DEFINE S == {i \in 0 .. n : sum[i] \in Nat}
    <2> HIDE DEF n, sum
    <2>1. 0 \in S
      BY <1>1, <1>9
    <2>2. \A i \in 0 .. n - 1 : i \in S => i + 1 \in S
      <3> SUFFICES ASSUME NEW i \in 0 .. n - 1, i \in S
                   PROVE  i + 1 \in S
        OBVIOUS
      <3>1. i + 1 \in 1 .. n /\ (i + 1) - 1 = i
        BY <1>1
      <3>2. sum[i + 1] = sum[i] + s[i + 1]
        BY <1>9, <3>1
      <3> QED
        BY <1>1, <3>1, <3>2
    <2> HIDE DEF S
    <2>3. \A i \in 0 .. n : i \in S
      BY <1>1, <2>1, <2>2, UpTo
    <2> QED
      BY <2>3 DEF S
  <1>11. sum \in [0 .. n -> Nat]
    <2> HIDE DEF n, sum
    <2> QED
      BY <1>7, <1>10
  <1> QED
    BY <1>8, <1>9, <1>11

(* Two sequences of entries, one of which goes on from place a as the other *)
(* begins, are charged alike from there on.                                 *)
LEMMA ChargedFrom ==
  ASSUME NEW s \in Seq(Nat), NEW t \in Seq(Nat), NEW a \in 0 .. Len(s),
         NEW b \in 0 .. Len(t), NEW k \in Nat, a + k <= Len(s), b + k <= Len(t),
         \A i \in 1 .. k : s[a + i] = t[b + i]
  PROVE  Charged(s)[a + k] - Charged(s)[a] = Charged(t)[b + k] - Charged(t)[b]
PROOF
  <1> DEFINE S == {i \in 0 .. k : Charged(s)[a + i] - Charged(s)[a]
                                    = Charged(t)[b + i] - Charged(t)[b]}
  <1>0. Len(s) \in Nat /\ Len(t) \in Nat
    OBVIOUS
  <1>1. 0 \in S
    <2>1. Charged(s)[a + 0] = Charged(s)[a] /\ Charged(t)[b + 0] = Charged(t)[b]
      BY <1>0
    <2>2. Charged(s)[a] \in Nat /\ Charged(t)[b] \in Nat
      BY ChargedSums
    <2> QED
      BY <2>1, <2>2
  <1>2. \A i \in 0 .. k - 1 : i \in S => i + 1 \in S
    <2> SUFFICES ASSUME NEW i \in 0 .. k - 1, i \in S
                 PROVE  i + 1 \in S
      OBVIOUS
    <2>1. Charged(s)[a + i + 1] = Charged(s)[a + i] + s[a + i + 1]
      <3>1. a + i + 1 \in 1 .. Len(s) /\ (a + i + 1) - 1 = a + i
        OBVIOUS
      <3> QED
        BY <3>1, ChargedSums
    <2>2. Charged(t)[b + i + 1] = Charged(t)[b + i] + t[b + i + 1]
      <3>1. b + i + 1 \in 1 .. Len(t) /\ (b + i + 1) - 1 = b + i
        OBVIOUS
      <3> QED
        BY <3>1, ChargedSums
    <2>3. s[a + i + 1] = t[b + i + 1]
      <3>1. i + 1 \in 1 .. k
        OBVIOUS
      <3>2. s[a + (i + 1)] = t[b + (i + 1)]
        BY <3>1
      <3>3. a + (i + 1) = a + i + 1 /\ b + (i + 1) = b + i + 1
        OBVIOUS
      <3> QED
        BY <3>2, <3>3
    <2>4. /\ Charged(s)[a + i] \in Nat /\ Charged(s)[a] \in Nat
          /\ Charged(t)[b + i] \in Nat /\ Charged(t)[b] \in Nat
          /\ s[a + i + 1] \in Nat
      <3>1. a + i \in 0 .. Len(s) /\ b + i \in 0 .. Len(t) /\ a + i + 1 \in 1 .. Len(s)
        OBVIOUS
      <3>2. s[a + i + 1] \in Nat
        BY <3>1
      <3>3. \A j \in 0 .. Len(s) : Charged(s)[j] \in Nat
        BY ChargedSums
      <3>4. \A j \in 0 .. Len(t) : Charged(t)[j] \in Nat
        BY ChargedSums
      <3> QED
        BY <3>1, <3>2, <3>3, <3>4
    <2>5. /\ Charged(s)[a + i] - Charged(s)[a] = Charged(t)[b + i] - Charged(t)[b]
          /\ a + (i + 1) = a + i + 1 /\ b + (i + 1) = b + i + 1
      OBVIOUS
    <2> DEFINE p == Charged(s)[a + i]
               q == Charged(t)[b + i]
               v == Charged(s)[a]
               w == Charged(t)[b]
               step == s[a + i + 1]
    <2>6. /\ Charged(s)[a + (i + 1)] = p + step /\ Charged(t)[b + (i + 1)] = q + step
          /\ p - v = q - w /\ p \in Nat /\ q \in Nat /\ v \in Nat /\ w \in Nat /\ step \in Nat
      BY <2>1, <2>2, <2>3, <2>4, <2>5
    <2> HIDE DEF p, q, v, w, step
    <2>7. (p + step) - v = (q + step) - w
      BY <2>6
    <2> QED
      BY <2>6, <2>7 DEF v, w
  <1> HIDE DEF S
  <1>3. \A i \in 0 .. k : i \in S
    BY <1>1, <1>2, UpTo
  <1> QED
    BY <1>3 DEF S
(* Sequences that begin alike are charged alike for their beginning.        *)
LEMMA ChargedPrefix ==
  ASSUME NEW s \in Seq(Nat), NEW t \in Seq(Nat), NEW k \in Nat, k <= Len(s), k <= Len(t),
         \A i \in 1 .. k : s[i] = t[i]
  PROVE  Charged(s)[k] = Charged(t)[k]
PROOF
  <1> DEFINE z == 0
  <1>1. z \in 0 .. Len(s) /\ z \in 0 .. Len(t) /\ z + k = k
    OBVIOUS
  <1>2. \A i \in 1 .. k : s[z + i] = t[z + i]
    OBVIOUS
  <1> HIDE DEF z
  <1>3. Charged(s)[z + k] - Charged(s)[z] = Charged(t)[z + k] - Charged(t)[z]
    BY <1>1, <1>2, ChargedFrom
  <1>4. Charged(s)[0] = 0 /\ Charged(t)[0] = 0 /\ Charged(s)[k] \in Nat /\ Charged(t)[k] \in Nat
    <2>1. k \in 0 .. Len(s) /\ k \in 0 .. Len(t)
      OBVIOUS
    <2> QED
      BY <2>1, ChargedSums
  <1> QED
    BY <1>1, <1>3, <1>4 DEF z

(* What is left when the first n entries are gone is charged what they were *)
(* not.                                                                     *)
LEMMA ChargedSuffix ==
  ASSUME NEW s \in Seq(Nat), NEW t \in Seq(Nat), NEW n \in 0 .. Len(s),
         Len(t) = Len(s) - n, \A i \in 1 .. Len(t) : t[i] = s[n + i]
  PROVE  Total(t) = Total(s) - Charged(s)[n]
PROOF
  <1> DEFINE z == 0
             k == Len(t)
  <1>1. /\ z \in 0 .. Len(t) /\ k \in Nat /\ z + k = Len(t) /\ n + k = Len(s)
        /\ n + k <= Len(s) /\ z + k <= Len(t)
    OBVIOUS
  <1>2. \A i \in 1 .. k : s[n + i] = t[z + i]
    OBVIOUS
  <1> HIDE DEF z, k
  <1>3. Charged(s)[n + k] - Charged(s)[n] = Charged(t)[z + k] - Charged(t)[z]
    BY <1>1, <1>2, ChargedFrom
  <1>4. Charged(t)[0] = 0 /\ Charged(t)[Len(t)] \in Nat
    <2>1. Len(t) \in 0 .. Len(t)
      OBVIOUS
    <2> QED
      BY <2>1, ChargedSums
  <1>5. Total(s) - Charged(s)[n] = Total(t) - Charged(t)[z]
    BY <1>1, <1>3 DEF Total
  <1>6. Charged(t)[z] = 0 /\ Total(t) \in Nat
    BY <1>4 DEF z, Total
  <1> QED
    BY <1>5, <1>6

(* An element that is removed takes what it is with it.                     *)
LEMMA ElementLeft ==
  ASSUME NEW s \in Seq(Nat), NEW t \in Seq(Nat), NEW i \in 1 .. Len(s), Len(t) = Len(s) - 1,
         \A j \in 1 .. i - 1 : t[j] = s[j], \A j \in i .. Len(s) - 1 : t[j] = s[j + 1]
  PROVE  Total(t) = Total(s) - s[i]
PROOF
  <1> DEFINE n == Len(s)
  <1>1. /\ t \in Seq(Nat) /\ Len(t) = n - 1 /\ n \in Nat /\ i \in 1 .. n
        /\ \A j \in 1 .. i - 1 : t[j] = s[j]
        /\ \A j \in i .. n - 1 : t[j] = s[j + 1]
    OBVIOUS
  <1>2. Charged(s)[i - 1] = Charged(t)[i - 1]
    <2>1. i - 1 \in Nat /\ i - 1 <= Len(s) /\ i - 1 <= Len(t)
      BY <1>1
    <2> QED
      BY <1>1, <2>1, ChargedPrefix
  <1>3. Charged(s)[i + (n - i)] - Charged(s)[i]
          = Charged(t)[(i - 1) + (n - i)] - Charged(t)[i - 1]
    <2>1. \A j \in 1 .. n - i : s[i + j] = t[(i - 1) + j]
      <3> TAKE j \in 1 .. n - i
      <3>1. (i - 1) + j \in i .. n - 1 /\ ((i - 1) + j) + 1 = i + j
        <4>1. i \in Int /\ n \in Int /\ j \in Int /\ 1 <= j /\ j <= n - i /\ 1 <= i
          BY <1>1
        <4> QED
          BY <4>1
      <3> QED
        BY <1>1, <3>1
    <2>2. /\ i \in 0 .. Len(s) /\ i - 1 \in 0 .. Len(t) /\ n - i \in Nat
          /\ i + (n - i) <= Len(s) /\ (i - 1) + (n - i) <= Len(t)
      BY <1>1
    <2> QED
      BY <1>1, <2>1, <2>2, ChargedFrom
  <1>4. Charged(s)[i] = Charged(s)[i - 1] + s[i]
    BY <1>1, ChargedSums
  <1>5. s[i] \in Nat
    OBVIOUS
  <1>6. /\ Charged(s)[n] \in Nat /\ Charged(s)[i - 1] \in Nat
        /\ Charged(t)[n - 1] \in Nat /\ Charged(t)[i - 1] \in Nat
    <2>1. \A j \in 0 .. n : Charged(s)[j] \in Nat
      BY ChargedSums
    <2>2. \A j \in 0 .. n - 1 : Charged(t)[j] \in Nat
      BY <1>1, ChargedSums
    <2>3. n \in 0 .. n /\ i - 1 \in 0 .. n /\ n - 1 \in 0 .. n - 1 /\ i - 1 \in 0 .. n - 1
      BY <1>1
    <2> QED
      BY <2>1, <2>2, <2>3
  <1>7. i + (n - i) = n /\ (i - 1) + (n - i) = n - 1
    BY <1>1
  <1> DEFINE a == Charged(s)[i - 1]
             b == Charged(t)[i - 1]
             y == Charged(s)[n]
             z == Charged(t)[n - 1]
             step == s[i]
  <1>8. /\ a = b /\ y - (a + step) = z - b
        /\ a \in Nat /\ b \in Nat /\ y \in Nat /\ z \in Nat /\ step \in Nat
    BY <1>2, <1>3, <1>4, <1>5, <1>6, <1>7
  <1>9. z = y - step
    <2> HIDE DEF a, b, y, z, step
    <2> QED
      BY <1>8
  <1> QED
    BY <1>1, <1>9 DEF Total

(* An element that is appended adds what it is.                             *)
LEMMA TotalAppended ==
  ASSUME NEW s \in Seq(Nat), NEW t \in Seq(Nat), Len(t) = Len(s) + 1,
         \A i \in 1 .. Len(s) : s[i] = t[i]
  PROVE  Total(t) = Total(s) + t[Len(t)]
PROOF
  <1> DEFINE n == Len(s)
  <1>1. n \in Nat /\ Len(t) = n + 1
    OBVIOUS
  <1>2. Charged(s)[n] = Charged(t)[n]
    <2>1. n <= Len(s) /\ n <= Len(t)
      BY <1>1
    <2> HIDE DEF n
    <2> QED
      BY <1>1, <2>1, ChargedPrefix DEF n
  <1>3. Charged(t)[n + 1] = Charged(t)[n] + t[n + 1]
    <2>1. n + 1 \in 1 .. Len(t) /\ (n + 1) - 1 = n
      BY <1>1
    <2> QED
      BY <1>1, <2>1, ChargedSums
  <1> QED
    BY <1>1, <1>2, <1>3 DEF Total

(* Totals are naturals, and that of nothing is 0.                           *)
LEMMA TotalType ==
  ASSUME NEW s \in Seq(Nat)
  PROVE  /\ Total(s) \in Nat
         /\ \A n \in 0 .. Len(s) : Charged(s)[n] \in Nat
         /\ Len(s) = 0 => Total(s) = 0
PROOF
  <1>1. Len(s) \in 0 .. Len(s)
    OBVIOUS
  <1> QED
    BY <1>1, ChargedSums DEF Total

-----------------------------------------------------------------------------
(* Cache: what entries are charged                                          *)

Entries == [key : Keys, answer : Answers, values : Nat, bytes : Nat]

LEMMA Charges ==
  ASSUME NEW s \in Seq(Entries)
  PROVE  /\ ValuesIn(s) \in Seq(Nat) /\ Len(ValuesIn(s)) = Len(s)
         /\ BytesIn(s) \in Seq(Nat) /\ Len(BytesIn(s)) = Len(s)
         /\ \A i \in 1 .. Len(s) : ValuesIn(s)[i] = s[i].values /\ BytesIn(s)[i] = s[i].bytes
         /\ \A i \in 1 .. Len(s) : s[i].values \in Nat /\ s[i].bytes \in Nat
PROOF
  <1>1. \A e \in Entries : e.values \in Nat /\ e.bytes \in Nat
    BY DEF Entries
  <1>2. \A i \in 1 .. Len(s) : s[i] \in Entries
    OBVIOUS
  <1>3. \A i \in 1 .. Len(s) : s[i].values \in Nat /\ s[i].bytes \in Nat
    BY <1>1, <1>2
  <1>4. DOMAIN s = 1 .. Len(s) /\ Len(s) \in Nat
    OBVIOUS
  <1> DEFINE v == [i \in 1 .. Len(s) |-> s[i].values]
             w == [i \in 1 .. Len(s) |-> s[i].bytes]
  <1>5. ValuesIn(s) = v /\ BytesIn(s) = w
    BY <1>4 DEF ValuesIn, BytesIn
  <1>6. v \in [1 .. Len(s) -> Nat] /\ w \in [1 .. Len(s) -> Nat]
    BY <1>3
  <1>7. \A i \in 1 .. Len(s) : v[i] = s[i].values /\ w[i] = s[i].bytes
    OBVIOUS
  <1> HIDE DEF v, w
  <1>8. v \in Seq(Nat) /\ Len(v) = Len(s) /\ w \in Seq(Nat) /\ Len(w) = Len(s)
    BY <1>4, <1>6
  <1> QED
    BY <1>3, <1>5, <1>7, <1>8

Values(s) == Total(ValuesIn(s))
Bytes(s)  == Total(BytesIn(s))

LEMMA ChargesRemoved ==
  ASSUME NEW s \in Seq(Entries), NEW i \in 1 .. Len(s)
  PROVE  /\ Values(RemoveAt(s, i)) = Values(s) - s[i].values
         /\ Bytes(RemoveAt(s, i)) = Bytes(s) - s[i].bytes
PROOF
  <1> DEFINE t == RemoveAt(s, i)
  <1>1. /\ t \in Seq(Entries) /\ Len(t) = Len(s) - 1 /\ Len(s) \in Nat
        /\ \A j \in 1 .. i - 1 : t[j] = s[j]
        /\ \A j \in i .. Len(s) - 1 : t[j] = s[j + 1]
    <2>1. s \in Seq(Entries) /\ i \in 1 .. Len(s) /\ Len(s) \in Nat
      OBVIOUS
    <2> QED
      BY <2>1, Removed
  <1> HIDE DEF t
  <1>2. \A j \in 1 .. i - 1 :
          ValuesIn(t)[j] = ValuesIn(s)[j] /\ BytesIn(t)[j] = BytesIn(s)[j]
    <2> TAKE j \in 1 .. i - 1
    <2>1. j \in 1 .. Len(s) /\ j \in 1 .. Len(t) /\ t[j] = s[j]
      BY <1>1
    <2>2. ValuesIn(s)[j] = s[j].values /\ BytesIn(s)[j] = s[j].bytes
      BY <2>1, Charges
    <2>3. ValuesIn(t)[j] = t[j].values /\ BytesIn(t)[j] = t[j].bytes
      BY <1>1, <2>1, Charges
    <2> QED
      BY <2>1, <2>2, <2>3
  <1>2a. \A j \in i .. Len(s) - 1 :
          ValuesIn(t)[j] = ValuesIn(s)[j + 1] /\ BytesIn(t)[j] = BytesIn(s)[j + 1]
    <2> TAKE j \in i .. Len(s) - 1
    <2>1. j + 1 \in 1 .. Len(s) /\ j \in 1 .. Len(t) /\ t[j] = s[j + 1]
      BY <1>1
    <2>2. ValuesIn(s)[j + 1] = s[j + 1].values /\ BytesIn(s)[j + 1] = s[j + 1].bytes
      BY <2>1, Charges
    <2>3. ValuesIn(t)[j] = t[j].values /\ BytesIn(t)[j] = t[j].bytes
      BY <1>1, <2>1, Charges
    <2> QED
      BY <2>1, <2>2, <2>3
  <1>3. /\ ValuesIn(s) \in Seq(Nat) /\ BytesIn(s) \in Seq(Nat)
        /\ Len(ValuesIn(s)) = Len(s) /\ Len(BytesIn(s)) = Len(s)
        /\ ValuesIn(s)[i] = s[i].values /\ BytesIn(s)[i] = s[i].bytes
    BY Charges
  <1>4. /\ ValuesIn(t) \in Seq(Nat) /\ BytesIn(t) \in Seq(Nat)
        /\ Len(ValuesIn(t)) = Len(s) - 1 /\ Len(BytesIn(t)) = Len(s) - 1
    BY <1>1, Charges
  <1>5. Total(ValuesIn(t)) = Total(ValuesIn(s)) - ValuesIn(s)[i]
    <2> DEFINE w == ValuesIn(s)
               v == ValuesIn(t)
    <2>1. /\ w \in Seq(Nat) /\ v \in Seq(Nat) /\ Len(w) = Len(s) /\ Len(v) = Len(w) - 1
          /\ i \in 1 .. Len(w)
          /\ \A j \in 1 .. i - 1 : v[j] = w[j]
          /\ \A j \in i .. Len(w) - 1 : v[j] = w[j + 1]
      BY <1>2, <1>3, <1>4, <1>2a
    <2> HIDE DEF v, w
    <2> QED
      BY <2>1, ElementLeft DEF v, w
  <1>6. Total(BytesIn(t)) = Total(BytesIn(s)) - BytesIn(s)[i]
    <2> DEFINE w == BytesIn(s)
               v == BytesIn(t)
    <2>1. /\ w \in Seq(Nat) /\ v \in Seq(Nat) /\ Len(w) = Len(s) /\ Len(v) = Len(w) - 1
          /\ i \in 1 .. Len(w)
          /\ \A j \in 1 .. i - 1 : v[j] = w[j]
          /\ \A j \in i .. Len(w) - 1 : v[j] = w[j + 1]
      BY <1>2, <1>3, <1>4, <1>2a
    <2> HIDE DEF v, w
    <2> QED
      BY <2>1, ElementLeft DEF v, w
  <1> QED
    BY <1>3, <1>5, <1>6 DEF t, Values, Bytes

LEMMA ChargesAppended ==
  ASSUME NEW s \in Seq(Entries), NEW e \in Entries
  PROVE  /\ Values(Append(s, e)) = Values(s) + e.values
         /\ Bytes(Append(s, e)) = Bytes(s) + e.bytes
PROOF
  <1> DEFINE t == Append(s, e)
             n == Len(s)
  <1>1. /\ t \in Seq(Entries) /\ Len(t) = n + 1 /\ n \in Nat /\ t[n + 1] = e
        /\ \A i \in 1 .. n : t[i] = s[i]
    OBVIOUS
  <1> HIDE DEF t
  <1>2. e.values \in Nat /\ e.bytes \in Nat
    BY DEF Entries
  <1>3. /\ ValuesIn(s) \in Seq(Nat) /\ Len(ValuesIn(s)) = n
        /\ BytesIn(s) \in Seq(Nat) /\ Len(BytesIn(s)) = n
        /\ \A i \in 1 .. n : ValuesIn(s)[i] = s[i].values /\ BytesIn(s)[i] = s[i].bytes
    BY Charges
  <1>4. /\ ValuesIn(t) \in Seq(Nat) /\ Len(ValuesIn(t)) = n + 1
        /\ BytesIn(t) \in Seq(Nat) /\ Len(BytesIn(t)) = n + 1
        /\ \A i \in 1 .. n + 1 : ValuesIn(t)[i] = t[i].values /\ BytesIn(t)[i] = t[i].bytes
    BY <1>1, Charges
  <1> HIDE DEF n
  <1>5. Total(ValuesIn(t)) = Total(ValuesIn(s)) + e.values
    <2>1. \A i \in 1 .. n : ValuesIn(s)[i] = ValuesIn(t)[i]
      <3> TAKE i \in 1 .. n
      <3>1. i \in 1 .. n + 1
        BY <1>1
      <3> QED
        BY <1>1, <1>3, <1>4, <3>1
    <2>2. ValuesIn(t)[n + 1] = e.values
      <3>1. n + 1 \in 1 .. n + 1
        BY <1>1
      <3> QED
        BY <1>1, <1>4, <3>1
    <2>3. Total(ValuesIn(t)) = Total(ValuesIn(s)) + ValuesIn(t)[Len(ValuesIn(t))]
      BY <1>3, <1>4, <2>1, TotalAppended
    <2> QED
      BY <1>4, <2>2, <2>3
  <1>6. Total(BytesIn(t)) = Total(BytesIn(s)) + e.bytes
    <2>1. \A i \in 1 .. n : BytesIn(s)[i] = BytesIn(t)[i]
      <3> TAKE i \in 1 .. n
      <3>1. i \in 1 .. n + 1
        BY <1>1
      <3> QED
        BY <1>1, <1>3, <1>4, <3>1
    <2>2. BytesIn(t)[n + 1] = e.bytes
      <3>1. n + 1 \in 1 .. n + 1
        BY <1>1
      <3> QED
        BY <1>1, <1>4, <3>1
    <2>3. Total(BytesIn(t)) = Total(BytesIn(s)) + BytesIn(t)[Len(BytesIn(t))]
      BY <1>3, <1>4, <2>1, TotalAppended
    <2> QED
      BY <1>4, <2>2, <2>3
  <1> QED
    BY <1>5, <1>6 DEF t, Values, Bytes

LEMMA ChargesSuffix ==
  ASSUME NEW s \in Seq(Entries), NEW t \in Seq(Entries), NEW n \in 0 .. Len(s),
         Len(t) = Len(s) - n, \A i \in 1 .. Len(t) : t[i] = s[n + i]
  PROVE  /\ Values(t) = Values(s) - Charged(ValuesIn(s))[n]
         /\ Bytes(t) = Bytes(s) - Charged(BytesIn(s))[n]
PROOF
  <1>1. /\ ValuesIn(s) \in Seq(Nat) /\ Len(ValuesIn(s)) = Len(s)
        /\ BytesIn(s) \in Seq(Nat) /\ Len(BytesIn(s)) = Len(s)
        /\ \A i \in 1 .. Len(s) : ValuesIn(s)[i] = s[i].values /\ BytesIn(s)[i] = s[i].bytes
    BY Charges
  <1>2. /\ ValuesIn(t) \in Seq(Nat) /\ Len(ValuesIn(t)) = Len(t)
        /\ BytesIn(t) \in Seq(Nat) /\ Len(BytesIn(t)) = Len(t)
        /\ \A i \in 1 .. Len(t) : ValuesIn(t)[i] = t[i].values /\ BytesIn(t)[i] = t[i].bytes
    BY Charges
  <1>3. \A i \in 1 .. Len(t) : n + i \in 1 .. Len(s)
    OBVIOUS
  <1>4. \A i \in 1 .. Len(t) :
          ValuesIn(t)[i] = ValuesIn(s)[n + i] /\ BytesIn(t)[i] = BytesIn(s)[n + i]
    BY <1>1, <1>2, <1>3
  <1>5. Total(ValuesIn(t)) = Total(ValuesIn(s)) - Charged(ValuesIn(s))[n]
    BY <1>1, <1>2, <1>4, ChargedSuffix
  <1>6. Total(BytesIn(t)) = Total(BytesIn(s)) - Charged(BytesIn(s))[n]
    BY <1>1, <1>2, <1>4, ChargedSuffix
  <1> QED
    BY <1>5, <1>6 DEF Values, Bytes

-----------------------------------------------------------------------------
(* Cache: the operations of the cache                                       *)

CacheType == [entries : Seq(Entries), values : Nat, bytes : Nat]

Budgeted == {c \in CacheType : WithinBudget(c) /\ OneEntryPerKey(c)}

(* What membership says, in terms of the sums.                              *)
LEMMA BudgetedMeans ==
  ASSUME NEW c \in Budgeted
  PROVE  /\ c.entries \in Seq(Entries) /\ c.values \in Nat /\ c.bytes \in Nat
         /\ c = [entries |-> c.entries, values |-> c.values, bytes |-> c.bytes]
         /\ c.values = Values(c.entries) /\ c.values <= MaxValues
         /\ c.bytes = Bytes(c.entries) /\ c.bytes <= MaxBytes
         /\ Len(c.entries) \in Nat /\ Len(c.entries) <= MaxEntries
         /\ \A i, j \in 1 .. Len(c.entries) : c.entries[i].key = c.entries[j].key => i = j
PROOF
  <1>1. /\ c.entries \in Seq(Entries) /\ c.values \in Nat /\ c.bytes \in Nat
        /\ c = [entries |-> c.entries, values |-> c.values, bytes |-> c.bytes]
    BY DEF Budgeted, CacheType
  <1>2. DOMAIN c.entries = 1 .. Len(c.entries) /\ Len(c.entries) \in Nat
    BY <1>1
  <1> QED
    BY <1>1, <1>2 DEF Budgeted, WithinBudget, OneEntryPerKey, Values, Bytes

LEMMA Budgets ==
  ASSUME NEW s \in Seq(Entries), NEW v, NEW b, v = Values(s), b = Bytes(s),
         v <= MaxValues, b <= MaxBytes, Len(s) <= MaxEntries,
         \A i, j \in 1 .. Len(s) : s[i].key = s[j].key => i = j
  PROVE  [entries |-> s, values |-> v, bytes |-> b] \in Budgeted
PROOF
  <1> DEFINE c == [entries |-> s, values |-> v, bytes |-> b]
  <1>1. DOMAIN s = 1 .. Len(s)
    OBVIOUS
  <1>2. v \in Nat /\ b \in Nat
    BY Charges, TotalType DEF Values, Bytes
  <1>3. c \in CacheType
    BY <1>2 DEF CacheType
  <1>4. WithinBudget(c)
    BY DEF WithinBudget, Values, Bytes
  <1>5. OneEntryPerKey(c)
    BY <1>1 DEF OneEntryPerKey
  <1> QED
    BY <1>3, <1>4, <1>5 DEF Budgeted

(* A cache without an entry keeps the others, and its budgets.              *)
LEMMA WithoutKeeps ==
  ASSUME NEW c \in Budgeted, NEW k
  PROVE  /\ Without(c, k) \in Budgeted
         /\ k \notin KeysOf(Without(c, k))
         /\ Range(Without(c, k).entries) \subseteq Range(c.entries)
PROOF
  <1>1. CASE k \notin KeysOf(c)
    BY <1>1 DEF Without
  <1>2. CASE k \in KeysOf(c)
    <2> DEFINE s == c.entries
               i == Place(c, k)
               t == RemoveAt(s, i)
               d == Without(c, k)
    <2>1. /\ s \in Seq(Entries) /\ Len(s) \in Nat /\ c.values \in Nat /\ c.bytes \in Nat
          /\ c.values = Values(s) /\ c.values <= MaxValues
          /\ c.bytes = Bytes(s) /\ c.bytes <= MaxBytes /\ Len(s) <= MaxEntries
          /\ \A j, m \in 1 .. Len(s) : s[j].key = s[m].key => j = m
      BY BudgetedMeans
    <2>2. i \in 1 .. Len(s) /\ s[i].key = k
      BY <1>2, <2>1 DEF KeysOf, Place
    <2>3. d = [entries |-> t, values |-> c.values - s[i].values, bytes |-> c.bytes - s[i].bytes]
      BY <1>2 DEF Without, EntryOf
    <2> HIDE DEF s, i, d
    <2>4. /\ t \in Seq(Entries) /\ Len(t) = Len(s) - 1
          /\ \A j \in 1 .. i - 1 : t[j] = s[j]
          /\ \A j \in i .. Len(s) - 1 : t[j] = s[j + 1]
      BY <2>1, <2>2, Removed
    <2>5. Values(t) = Values(s) - s[i].values /\ Bytes(t) = Bytes(s) - s[i].bytes
      BY <2>1, <2>2, ChargesRemoved
    <2> HIDE DEF t
    <2>6. s[i].values \in Nat /\ s[i].bytes \in Nat
      BY <2>1, <2>2, Charges
    <2>7. \A j \in 1 .. Len(t) : \E m \in 1 .. Len(s) :
            m # i /\ t[j] = s[m] /\ m = IF j < i THEN j ELSE j + 1
      <3> TAKE j \in 1 .. Len(t)
      <3>1. CASE j < i
        <4>1. j \in 1 .. i - 1 /\ j \in 1 .. Len(s) /\ j # i
          BY <2>1, <2>2, <2>4, <3>1
        <4> QED
          BY <2>4, <3>1, <4>1
      <3>2. CASE ~ (j < i)
        <4>1. j \in i .. Len(s) - 1 /\ j + 1 \in 1 .. Len(s) /\ j + 1 # i
          BY <2>1, <2>2, <2>4, <3>2
        <4> QED
          BY <2>4, <3>2, <4>1
      <3> QED
        BY <3>1, <3>2
    <2>8. \A j \in 1 .. Len(t) : t[j].key # k
      BY <2>1, <2>2, <2>7
    <2>9. \A j, m \in 1 .. Len(t) : t[j].key = t[m].key => j = m
      <3> TAKE j \in 1 .. Len(t), m \in 1 .. Len(t)
      <3> HAVE t[j].key = t[m].key
      <3>1. PICK x \in 1 .. Len(s) : t[j] = s[x] /\ x = IF j < i THEN j ELSE j + 1
        BY <2>7
      <3>2. PICK y \in 1 .. Len(s) : t[m] = s[y] /\ y = IF m < i THEN m ELSE m + 1
        BY <2>7
      <3>3. x = y
        BY <2>1, <3>1, <3>2
      <3> QED
        BY <2>2, <2>4, <3>1, <3>2, <3>3
    <2>10. DOMAIN t = 1 .. Len(t) /\ DOMAIN s = 1 .. Len(s)
      BY <2>1, <2>4
    <2>11. Range(t) \subseteq Range(s)
      BY <2>7, <2>10 DEF Range
    <2>12. d \in Budgeted
      <3>1. Values(t) \in Nat /\ Bytes(t) \in Nat
        BY <2>4, Charges, TotalType DEF Values, Bytes
      <3>2. /\ c.values - s[i].values = Values(t) /\ Values(t) <= MaxValues
            /\ c.bytes - s[i].bytes = Bytes(t) /\ Bytes(t) <= MaxBytes
            /\ Len(t) <= MaxEntries
        <4> DEFINE v == Values(t)
                   b == Bytes(t)
                   x == s[i].values
                   y == s[i].bytes
        <4>1. /\ v \in Nat /\ b \in Nat /\ x \in Nat /\ y \in Nat
              /\ c.values \in Nat /\ c.bytes \in Nat
              /\ v = c.values - x /\ b = c.bytes - y
              /\ c.values <= MaxValues /\ c.bytes <= MaxBytes
          BY <2>1, <2>5, <2>6, <3>1
        <4>2. Len(t) <= MaxEntries
          BY <2>1, <2>4, BudgetAssumption
        <4> HIDE DEF v, b, x, y
        <4>3. c.values - x = v /\ v <= MaxValues /\ c.bytes - y = b /\ b <= MaxBytes
          BY <4>1, BudgetAssumption
        <4> QED
          BY <4>2, <4>3 DEF v, b, x, y
      <3> QED
        BY <2>3, <2>4, <2>9, <3>2, Budgets
    <2>13. d.entries = t
      BY <2>3
    <2>14. k \notin KeysOf(d)
      BY <2>8, <2>10, <2>13 DEF KeysOf
    <2> QED
      BY <2>11, <2>12, <2>13, <2>14 DEF s, d
  <1> QED
    BY <1>1, <1>2

(* A new entry that fits keeps the budgets.                                 *)
LEMMA AddedKeeps ==
  ASSUME NEW c \in Budgeted, NEW e \in Entries,
         c.values + e.values <= MaxValues, c.bytes + e.bytes <= MaxBytes,
         Len(c.entries) + 1 <= MaxEntries, e.key \notin KeysOf(c)
  PROVE  /\ Added(c, e) \in Budgeted
         /\ Range(Added(c, e).entries) = Range(c.entries) \cup {e}
PROOF
  <1> DEFINE s == c.entries
             t == Append(s, e)
             n == Len(s)
  <1>1. /\ s \in Seq(Entries) /\ n \in Nat /\ c.values = Values(s) /\ c.bytes = Bytes(s)
        /\ \A i, j \in 1 .. n : s[i].key = s[j].key => i = j
    BY BudgetedMeans
  <1>2. \A i \in 1 .. n : s[i].key # e.key
    BY <1>1 DEF KeysOf
  <1>3. Added(c, e) = [entries |-> t, values |-> c.values + e.values, bytes |-> c.bytes + e.bytes]
    BY DEF Added
  <1> HIDE DEF s
  <1>4. t \in Seq(Entries) /\ Len(t) = n + 1 /\ t[n + 1] = e /\ \A i \in 1 .. n : t[i] = s[i]
    BY <1>1
  <1>5. Values(t) = Values(s) + e.values /\ Bytes(t) = Bytes(s) + e.bytes
    BY <1>1, ChargesAppended
  <1> HIDE DEF t
  <1>6. \A i, j \in 1 .. n + 1 : t[i].key = t[j].key => i = j
    <2> TAKE i \in 1 .. n + 1, j \in 1 .. n + 1
    <2>1. CASE i = n + 1 \/ j = n + 1
      <3>1. \A m \in 1 .. n + 1 : m = n + 1 \/ m \in 1 .. n
        BY <1>1
      <3> QED
        BY <1>2, <1>4, <2>1, <3>1
    <2>2. CASE i \in 1 .. n /\ j \in 1 .. n
      BY <1>1, <1>4, <2>2
    <2> QED
      BY <1>1, <2>1, <2>2
  <1>7. Added(c, e) \in Budgeted
    <2>1. /\ c.values + e.values = Values(t) /\ c.values + e.values <= MaxValues
          /\ c.bytes + e.bytes = Bytes(t) /\ c.bytes + e.bytes <= MaxBytes
          /\ Len(t) <= MaxEntries /\ \A i, j \in 1 .. Len(t) : t[i].key = t[j].key => i = j
      BY <1>1, <1>4, <1>5, <1>6 DEF s
    <2> QED
      BY <1>3, <1>4, <2>1, Budgets
  <1>8. Range(t) = Range(s) \cup {e}
    <2>1. DOMAIN t = 1 .. n + 1 /\ DOMAIN s = 1 .. n
      BY <1>1, <1>4
    <2>2. ASSUME NEW x \in Range(t) PROVE x \in Range(s) \cup {e}
      <3>1. PICK i \in 1 .. n + 1 : t[i] = x
        BY <2>1 DEF Range
      <3>2. i \in 1 .. n \/ i = n + 1
        BY <1>1
      <3> QED
        BY <1>4, <2>1, <3>1, <3>2 DEF Range
    <2>3. ASSUME NEW x \in Range(s) \cup {e} PROVE x \in Range(t)
      <3>1. n + 1 \in 1 .. n + 1 /\ \A i \in 1 .. n : i \in 1 .. n + 1
        BY <1>1
      <3> QED
        BY <1>4, <2>1, <3>1 DEF Range
    <2> QED
      BY <2>2, <2>3
  <1>9. Added(c, e).entries = t
    BY <1>3
  <1> QED
    BY <1>7, <1>8, <1>9 DEF s

(* Using an entry changes the order only.                                   *)
LEMMA TouchedKeeps ==
  ASSUME NEW c \in Budgeted, NEW k \in KeysOf(c)
  PROVE  /\ Touched(c, k) \in Budgeted
         /\ Range(Touched(c, k).entries) \subseteq Range(c.entries)
PROOF
  <1> DEFINE d == Without(c, k)
             e == EntryOf(c, k)
             i == Place(c, k)
  <1>1. /\ c.entries \in Seq(Entries) /\ c.values \in Nat /\ c.bytes \in Nat
        /\ c.values <= MaxValues /\ c.bytes <= MaxBytes /\ Len(c.entries) <= MaxEntries
        /\ Len(c.entries) \in Nat
        /\ c = [entries |-> c.entries, values |-> c.values, bytes |-> c.bytes]
    BY BudgetedMeans
  <1>2. i \in 1 .. Len(c.entries) /\ c.entries[i].key = k
    BY <1>1 DEF KeysOf, Place
  <1>3. /\ e = c.entries[i]
        /\ d = [entries |-> RemoveAt(c.entries, i), values |-> c.values - e.values,
                bytes |-> c.bytes - e.bytes]
    BY DEF EntryOf, Without
  <1>4. d \in Budgeted /\ k \notin KeysOf(d) /\ Range(d.entries) \subseteq Range(c.entries)
    BY WithoutKeeps
  <1> HIDE DEF d, i
  <1>5. e \in Entries /\ e.values \in Nat /\ e.bytes \in Nat
    BY <1>1, <1>2, <1>3, Charges
  <1>6. /\ d.entries = RemoveAt(c.entries, i)
        /\ d.values = c.values - e.values /\ d.bytes = c.bytes - e.bytes
    BY <1>3
  <1>7. Touched(c, k) = [entries |-> Append(d.entries, e), values |-> c.values, bytes |-> c.bytes]
    <2>1. Touched(c, k) = [c EXCEPT !.entries = Append(RemoveAt(c.entries, i), e)]
      BY DEF Touched, i
    <2>2. \A x : [c EXCEPT !.entries = x] = [entries |-> x, values |-> c.values, bytes |-> c.bytes]
      BY <1>1
    <2> QED
      BY <1>6, <2>1, <2>2
  <1> HIDE DEF e
  <1>8. d.values + e.values = c.values /\ d.bytes + e.bytes = c.bytes
    BY <1>1, <1>5, <1>6
  <1>9. Len(d.entries) + 1 <= MaxEntries
    <2>1. Len(RemoveAt(c.entries, i)) = Len(c.entries) - 1
      BY <1>1, <1>2, Removed
    <2> QED
      BY <1>1, <1>6, <2>1, BudgetAssumption
  <1>10. e.key \notin KeysOf(d)
    BY <1>2, <1>3, <1>4
  <1>11. Touched(c, k) = Added(d, e)
    BY <1>7, <1>8 DEF Added
  <1>12. Added(d, e) \in Budgeted /\ Range(Added(d, e).entries) = Range(d.entries) \cup {e}
    BY <1>1, <1>4, <1>5, <1>8, <1>9, <1>10, AddedKeeps
  <1>13. e \in Range(c.entries)
    BY <1>1, <1>2, <1>3 DEF Range
  <1> QED
    BY <1>4, <1>11, <1>12, <1>13

(* Dropping the oldest entries keeps the others, and the budgets.           *)
LEMMA DroppedKeeps ==
  ASSUME NEW c \in Budgeted, NEW n \in 0 .. Len(c.entries)
  PROVE  /\ Dropped(c, n) \in Budgeted
         /\ Range(Dropped(c, n).entries) \subseteq Range(c.entries)
         /\ n = Len(c.entries) => Dropped(c, n).entries = <<>>
PROOF
  <1> DEFINE s == c.entries
             m == Len(s)
             t == SubSeq(s, n + 1, m)
             v == Charged(ValuesIn(s))[n]
             b == Charged(BytesIn(s))[n]
  <1>1. /\ s \in Seq(Entries) /\ m \in Nat /\ c.values \in Nat /\ c.bytes \in Nat
        /\ c.values = Values(s) /\ c.values <= MaxValues
        /\ c.bytes = Bytes(s) /\ c.bytes <= MaxBytes /\ m <= MaxEntries
        /\ \A i, j \in 1 .. m : s[i].key = s[j].key => i = j
    BY BudgetedMeans
  <1>2. Dropped(c, n) = [entries |-> t, values |-> c.values - v, bytes |-> c.bytes - b]
    BY DEF Dropped
  <1>3. n \in 0 .. m
    OBVIOUS
  <1> HIDE DEF s
  <1>4. t \in Seq(Entries) /\ Len(t) = m - n /\ \A i \in 1 .. m - n : t[i] = s[n + i]
    BY <1>1, <1>3
  <1>5. n = m => t = <<>>
    BY <1>1, <1>3
  <1> HIDE DEF t
  <1>6. Values(t) = Values(s) - v /\ Bytes(t) = Bytes(s) - b
    <2>1. Len(t) = Len(s) - n /\ n \in 0 .. Len(s) /\ \A i \in 1 .. Len(t) : t[i] = s[n + i]
      BY <1>3, <1>4
    <2> QED
      BY <1>1, <1>4, <2>1, ChargesSuffix
  <1>7. Values(t) \in Nat /\ Bytes(t) \in Nat
    BY <1>4, Charges, TotalType DEF Values, Bytes
  <1>8. v \in Nat /\ b \in Nat
    <2>1. /\ ValuesIn(s) \in Seq(Nat) /\ Len(ValuesIn(s)) = m
          /\ BytesIn(s) \in Seq(Nat) /\ Len(BytesIn(s)) = m
      BY <1>1, Charges
    <2>2. n \in 0 .. Len(ValuesIn(s)) /\ n \in 0 .. Len(BytesIn(s))
      BY <1>3, <2>1
    <2> QED
      BY <2>1, <2>2, TotalType
  <1> HIDE DEF v, b
  <1>9. \A i, j \in 1 .. m - n : t[i].key = t[j].key => i = j
    <2> TAKE i \in 1 .. m - n, j \in 1 .. m - n
    <2>1. n + i \in 1 .. m /\ n + j \in 1 .. m
      BY <1>1, <1>3
    <2>2. t[i] = s[n + i] /\ t[j] = s[n + j]
      BY <1>4
    <2>3. t[i].key = t[j].key => n + i = n + j
      BY <1>1, <2>1, <2>2
    <2> QED
      BY <1>1, <1>3, <2>3
  <1>10. Dropped(c, n) \in Budgeted
    <2>1. /\ c.values - v = Values(t) /\ Values(t) <= MaxValues
          /\ c.bytes - b = Bytes(t) /\ Bytes(t) <= MaxBytes /\ Len(t) <= MaxEntries
      BY <1>1, <1>3, <1>4, <1>6, <1>7, <1>8, BudgetAssumption
    <2> QED
      BY <1>2, <1>4, <1>9, <2>1, Budgets
  <1>11. Range(t) \subseteq Range(s)
    <2>1. \A i \in 1 .. m - n : n + i \in 1 .. m
      BY <1>1, <1>3
    <2>2. DOMAIN s = 1 .. m /\ DOMAIN t = 1 .. m - n
      BY <1>1, <1>4
    <2>3. \A i \in DOMAIN t : n + i \in DOMAIN s /\ t[i] = s[n + i]
      BY <1>4, <2>1, <2>2
    <2> QED
      BY <2>3 DEF Range
  <1>12. Dropped(c, n).entries = t
    BY <1>2
  <1> QED
    BY <1>5, <1>10, <1>11, <1>12 DEF s

(* The eviction loop ends with room for the new entry.                      *)
LEMMA EvictedFits ==
  ASSUME NEW c \in Budgeted, NEW e
  PROVE  /\ Evicted(c, e) \in Budgeted
         /\ Range(Evicted(c, e).entries) \subseteq Range(c.entries)
         /\ Fits(Evicted(c, e), e)
PROOF
  <1> DEFINE n == Len(c.entries)
             T == {i \in 0 .. n : Fits(Dropped(c, i), e)}
             Stops(i) == Fits(Dropped(c, i), e) /\ \A m \in 0 .. i - 1 : ~Fits(Dropped(c, m), e)
             last == CHOOSE i \in 0 .. n : Stops(i)
  <1>1. n \in Nat
    BY BudgetedMeans
  <1>2. n \in T
    <2>1. Fits(Dropped(c, n), e)
      <3>1. Dropped(c, n).entries = <<>>
        BY <1>1, DroppedKeeps
      <3> QED
        BY <3>1 DEF Fits
    <2> QED
      BY <1>1, <2>1
  <1>3. PICK i \in T : \A m \in T : i <= m
    <2>1. T \in SUBSET Nat
      BY <1>1
    <2> HIDE DEF T
    <2> QED
      BY <1>2, <2>1, LeastNatural
  <1>4. i \in 0 .. n /\ Stops(i)
    <2>1. \A m \in 0 .. i - 1 : m \in 0 .. n /\ ~ (i <= m)
      BY <1>1, <1>3
    <2> QED
      BY <1>3, <2>1
  <1>5. last \in 0 .. n /\ Stops(last)
    <2> HIDE DEF Stops
    <2> QED
      BY <1>4
  <1>6. Evicted(c, e) = Dropped(c, last)
    BY DEF Evicted
  <1> HIDE DEF last
  <1> QED
    BY <1>5, <1>6, DroppedKeeps

(* put keeps the budgets.  Of the key it leaves at most the new answer, and *)
(* it adds nothing else.                                                    *)
LEMMA StoredKeeps ==
  ASSUME NEW c \in Budgeted, NEW k \in Keys, NEW a \in Answers
  PROVE  /\ Stored(c, k, a) \in Budgeted
         /\ \A x \in Range(Stored(c, k, a).entries) :
              x = Entry(k, a) \/ (x \in Range(c.entries) /\ x.key # k)
PROOF
  <1> DEFINE d == Without(c, k)
             new == Entry(k, a)
             e == Evicted(d, new)
  <1>1. d \in Budgeted /\ k \notin KeysOf(d) /\ Range(d.entries) \subseteq Range(c.entries)
    BY WithoutKeeps
  <1>2. \A x \in Range(d.entries) : x \in Range(c.entries) /\ x.key # k
    BY <1>1 DEF KeysOf, Range
  <1>3. CASE Bypassed(k, a)
    <2>1. Stored(c, k, a) = d
      BY <1>3 DEF Stored
    <2> QED
      BY <1>1, <1>2, <2>1
  <1>4. CASE ~Bypassed(k, a)
    <2>1. /\ ValuesOf(a) \in Nat /\ ValuesOf(a) <= MaxValues
          /\ BytesOf(k, a) \in Nat /\ BytesOf(k, a) <= MaxBytes
          /\ MaxEntries # 0 /\ MaxEntries \in Nat /\ MaxValues \in Nat /\ MaxBytes \in Nat
      BY <1>4, SizesAssumption, BudgetAssumption DEF Bypassed
    <2>2. new \in Entries /\ new.key = k /\ new.values = ValuesOf(a) /\ new.bytes = BytesOf(k, a)
      BY <2>1 DEF Entry, Entries
    <2>3. e \in Budgeted /\ Range(e.entries) \subseteq Range(d.entries) /\ Fits(e, new)
      <3> HIDE DEF d, new
      <3> QED
        BY <1>1, EvictedFits
    <2>4. Stored(c, k, a) = Added(e, new)
      BY <1>4 DEF Stored, Retained
    <2> HIDE DEF d, e, new
    <2>5. /\ e.entries \in Seq(Entries) /\ e.values = Values(e.entries) /\ e.bytes = Bytes(e.entries)
          /\ Len(e.entries) \in Nat
      BY <2>3, BudgetedMeans
    <2>6. e.values + new.values <= MaxValues /\ e.bytes + new.bytes <= MaxBytes
          /\ Len(e.entries) + 1 <= MaxEntries
      <3>1. CASE e.entries = <<>>
        <4>1. Len(e.entries) = 0
          BY <3>1
        <4>2. Values(e.entries) = 0 /\ Bytes(e.entries) = 0
          BY <2>5, <4>1, Charges, TotalType DEF Values, Bytes
        <4> QED
          BY <2>1, <2>2, <2>5, <4>1, <4>2
      <3>2. CASE e.entries # <<>>
        BY <2>1, <2>3, <2>5, <3>2 DEF Fits
      <3> QED
        BY <3>1, <3>2
    <2>7. new.key \notin KeysOf(e)
      BY <1>2, <2>2, <2>3 DEF KeysOf, Range
    <2>8. Added(e, new) \in Budgeted /\ Range(Added(e, new).entries) = Range(e.entries) \cup {new}
      BY <2>2, <2>3, <2>6, <2>7, AddedKeeps
    <2> QED
      BY <1>2, <2>3, <2>4, <2>8 DEF new
  <1> QED
    BY <1>3, <1>4

-----------------------------------------------------------------------------
(* Cache: the invariant                                                     *)

(* The cache is within its budgets, and each entry is of its key's last put.*)
Inductive ==
  /\ cache \in Budgeted
  /\ \A e \in Range(cache.entries) : e.key \in DOMAIN given /\ e.answer = given[e.key]

LEMMA EmptyKeeps == Empty \in Budgeted /\ Range(Empty.entries) = {}
PROOF
  <1>1. <<>> \in Seq(Entries) /\ Len(<<>>) = 0 /\ DOMAIN <<>> = {}
    OBVIOUS
  <1>2. Values(<<>>) = 0 /\ Bytes(<<>>) = 0
    BY <1>1, Charges, TotalType DEF Values, Bytes
  <1>3. [entries |-> <<>>, values |-> 0, bytes |-> 0] \in Budgeted
    <2>1. \A i, j \in 1 .. Len(<<>>) : <<>>[i].key = <<>>[j].key => i = j
      BY <1>1
    <2>2. 0 <= MaxValues /\ 0 <= MaxBytes /\ Len(<<>>) <= MaxEntries
      BY <1>1, BudgetAssumption
    <2> QED
      BY <1>1, <1>2, <2>1, <2>2, Budgets
  <1> QED
    BY <1>1, <1>3 DEF Empty, Range

LEMMA InductiveInit == Init => Inductive
  BY EmptyKeeps DEF Init, Inductive

LEMMA InductiveStep == Inductive /\ [Next]_vars => Inductive'
PROOF
  <1> SUFFICES ASSUME Inductive, [Next]_vars
               PROVE  Inductive'
    OBVIOUS
  <1>1. ASSUME NEW k \in Keys, Get(k)
        PROVE  Inductive'
    BY <1>1, TouchedKeeps DEF Get, Inductive
  <1>2. ASSUME NEW k \in Keys, NEW a \in Answers, Put(k, a)
        PROVE  Inductive'
    <2>1. cache' = Stored(cache, k, a) /\ cache \in Budgeted
      BY <1>2 DEF Put, Inductive
    <2>2. /\ cache' \in Budgeted
          /\ \A x \in Range(cache'.entries) :
               x = Entry(k, a) \/ (x \in Range(cache.entries) /\ x.key # k)
      BY <2>1, StoredKeeps
    <2>3. DOMAIN given' = DOMAIN given \cup {k} /\ given'[k] = a
      BY <1>2 DEF Put
    <2>4. \A j \in DOMAIN given : j # k => given'[j] = given[j]
      BY <1>2 DEF Put
    <2>5. Entry(k, a).key = k /\ Entry(k, a).answer = a
      BY DEF Entry
    <2> QED
      BY <2>2, <2>3, <2>4, <2>5 DEF Inductive
  <1>3. CASE Clear
    BY <1>3, EmptyKeeps DEF Clear, Inductive
  <1>4. CASE UNCHANGED vars
    BY <1>4 DEF vars, Inductive
  <1> QED
    BY <1>1, <1>2, <1>3, <1>4 DEF Next

(* The budgets hold and an answer that is kept is the last one put for its  *)
(* key, after every replacement, bypass and eviction (AnswerCache.put, get, *)
(* clear), for every budget, set of answers and estimate of their size.     *)
THEOREM CacheKeepsLatest == Spec => []KeepsLatestWithinBudget
PROOF
  <1>1. Inductive => KeepsLatestWithinBudget
    <2> SUFFICES ASSUME Inductive PROVE KeepsLatestWithinBudget
      OBVIOUS
    <2>1. WithinBudget(cache) /\ OneEntryPerKey(cache)
      BY DEF Inductive, Budgeted
    <2>2. ASSUME NEW k \in KeysOf(cache)
          PROVE  k \in DOMAIN given /\ EntryOf(cache, k).answer = given[k]
      <3>1. Place(cache, k) \in DOMAIN cache.entries /\ cache.entries[Place(cache, k)].key = k
        BY DEF KeysOf, Place
      <3>2. EntryOf(cache, k) \in Range(cache.entries) /\ EntryOf(cache, k).key = k
        BY <3>1 DEF EntryOf, Range
      <3> QED
        BY <3>2 DEF Inductive
    <2> QED
      BY <2>1, <2>2 DEF KeepsLatestWithinBudget, OnlyLatest
  <1> QED
    BY <1>1, InductiveInit, InductiveStep, PTL DEF Spec

-----------------------------------------------------------------------------
(* Libraries: the inductive invariant                                       *)

Builders ==
  {Idle} \cup {Reading(c, s) : c \in Compilers, s \in Seq(Contents)}
    \cup {Resolved(phase, k.compiler, k, output) :
            phase \in {"waiting", "compiling", "built"}, k \in BuildKeys, output \in Outputs}

Typed ==
  /\ library \in Libraries
  /\ checkout \in Sources
  /\ target \in [BuildKeys -> Outputs]
  /\ lock \in [BuildKeys -> Processes \cup {Unlocked}]
  /\ builder \in [Processes -> Builders]

(* What is built is built for its key, under the lock, where nothing is yet. *)
Compiles(b) ==
  /\ b.output.size # "absent" => b.output.of = b.key
  /\ ~Present(target[b.key])

Locked ==
  /\ \A p \in Processes :
       builder[p].phase = "compiling" => Compiles(builder[p]) /\ lock[builder[p].key] = p
  /\ \A k \in BuildKeys :
       lock[k] # Unlocked => builder[lock[k]].phase = "compiling" /\ builder[lock[k]].key = k

Installed == \A k \in BuildKeys : Present(target[k]) => target[k] = Output(k, "whole")

Opened(libraries) ==
  \A n \in DOMAIN libraries :
    /\ libraries[n].size = "whole" /\ Compatible(libraries[n].of.sources)
    /\ n = NameOf(libraries[n].of.compiler, libraries[n].of)

BuildInvariant ==
  /\ Typed
  /\ Locked
  /\ Installed
  /\ \A p \in Processes : Opened(loaded[p])

-----------------------------------------------------------------------------
(* Libraries: builders                                                      *)

(* A builder is idle, reads, or has resolved a key of its compiler.         *)
LEMMA BuilderParts ==
  ASSUME NEW b \in Builders
  PROVE  \/ b = Idle
         \/ b.phase = "reading" /\ b.environment \in Compilers /\ b.read \in Seq(Contents)
         \/ /\ b.phase \in {"waiting", "compiling", "built"}
            /\ b.key \in BuildKeys /\ b.environment = b.key.compiler /\ b.output \in Outputs
PROOF
  BY DEF Builders, Idle, Reading, Resolved

LEMMA ReaderIsBuilder ==
  ASSUME NEW c \in Compilers, NEW read \in Seq(Contents)
  PROVE  Reading(c, read) \in Builders /\ Reading(c, read).phase = "reading"
PROOF
  <1>1. Reading(c, read) \in Builders
    BY DEF Builders
  <1> QED
    BY <1>1 DEF Reading

(* A builder that has resolved a key may go on with it.                     *)
LEMMA BuilderGoesOn ==
  ASSUME NEW b \in Builders, b.phase \in {"waiting", "compiling", "built"},
         NEW phase \in {"waiting", "compiling", "built"}, NEW output \in Outputs
  PROVE  Resolved(phase, b.environment, b.key, output) \in Builders
PROOF
  <1>1. b.key \in BuildKeys /\ b.environment = b.key.compiler
    BY BuilderParts DEF Idle
  <1> QED
    BY <1>1 DEF Builders

(* A key names the compiler and the files that were read.                   *)
LEMMA KeyIsRead ==
  ASSUME NEW b \in Builders, b.phase = "reading", Len(b.read) = Files
  PROVE  KeyOf(b) \in BuildKeys /\ KeyOf(b).compiler = b.environment
PROOF
  <1>1. b.environment \in Compilers /\ b.read \in Seq(Contents)
    BY BuilderParts DEF Idle
  <1>2. b.read \in Sources
    BY <1>1, FilesAssumption DEF Sources
  <1> QED
    BY <1>1, <1>2 DEF KeyOf, BuildKeys

LEMMA OutputParts ==
  ASSUME NEW k \in BuildKeys, NEW size \in Forms
  PROVE  /\ Output(k, size) \in Outputs
         /\ Output(k, size).size = size /\ Output(k, size).of = k
PROOF
  BY DEF Outputs, Output

LEMMA AbsentParts ==
  Absent \in Outputs /\ Absent.size = "absent" /\ ~Present(Absent)
PROOF
  BY DEF Outputs, Absent, Present

-----------------------------------------------------------------------------
(* Libraries: steps that only move a builder                                *)

(* A builder may move on without the lock while it compiles neither before  *)
(* nor after.                                                               *)
LEMMA BuilderMoves ==
  ASSUME BuildInvariant, NEW p \in Processes, NEW next \in Builders,
         builder[p].phase # "compiling", next.phase # "compiling",
         builder' = [builder EXCEPT ![p] = next],
         UNCHANGED <<library, checkout, target, lock>>
  PROVE  Typed' /\ Locked' /\ Installed'
PROOF
  <1>1. Typed'
    BY DEF BuildInvariant, Typed
  <1>2. \A q \in Processes :
          builder'[q] = builder[q] \/ (builder'[q].phase # "compiling" /\ q = p)
    BY DEF BuildInvariant, Typed
  <1>3. \A k \in BuildKeys : lock[k] # Unlocked => lock[k] # p /\ lock[k] \in Processes
    BY DEF BuildInvariant, Typed, Locked
  <1>4. Locked'
    <2>1. ASSUME NEW q \in Processes, builder'[q].phase = "compiling"
          PROVE  Compiles(builder[q])' /\ lock'[builder'[q].key] = q
      BY <1>2, <2>1 DEF BuildInvariant, Locked, Compiles, Present
    <2>2. ASSUME NEW k \in BuildKeys, lock'[k] # Unlocked
          PROVE  builder'[lock'[k]].phase = "compiling" /\ builder'[lock'[k]].key = k
      <3>1. builder'[lock[k]] = builder[lock[k]]
        BY <1>2, <1>3, <2>2
      <3> QED
        BY <2>2, <3>1 DEF BuildInvariant, Locked
    <2> QED
      BY <2>1, <2>2 DEF Locked
  <1>5. Installed'
    BY DEF BuildInvariant, Installed, Present
  <1> QED
    BY <1>1, <1>4, <1>5

(* What is not loaded anew stays what it was.                               *)
LEMMA OpenedStays ==
  ASSUME BuildInvariant, UNCHANGED <<library, loaded>>
  PROVE  \A p \in Processes : Opened(loaded[p])'
PROOF
  BY DEF BuildInvariant, Opened, NameOf

(* A builder that ends, however it does, leaves no key locked.              *)
LEMMA BuilderEnds ==
  ASSUME BuildInvariant, NEW p \in Processes,
         builder' = [builder EXCEPT ![p] = Idle], lock' = Released(p),
         UNCHANGED <<library, checkout, target>>
  PROVE  Typed' /\ Locked' /\ Installed'
PROOF
  <1>1. Idle \in Builders /\ Idle.phase # "compiling"
    BY DEF Builders, Idle
  <1>2. Typed'
    BY <1>1 DEF BuildInvariant, Typed, Released
  <1>3. \A k \in BuildKeys : lock'[k] = IF lock[k] = p THEN Unlocked ELSE lock[k]
    BY DEF Released
  <1>4. \A q \in Processes : builder'[q] = IF q = p THEN Idle ELSE builder[q]
    BY DEF BuildInvariant, Typed
  <1>5. Locked'
    <2>1. ASSUME NEW q \in Processes, builder'[q].phase = "compiling"
          PROVE  Compiles(builder[q])' /\ lock'[builder'[q].key] = q
      <3>1. q # p /\ builder'[q] = builder[q]
        BY <1>1, <1>4, <2>1
      <3>2. builder[q].key \in BuildKeys
        BY <2>1, <3>1, BuilderParts DEF BuildInvariant, Typed, Idle
      <3> QED
        BY <1>3, <2>1, <3>1, <3>2 DEF BuildInvariant, Locked, Compiles, Present
    <2>2. ASSUME NEW k \in BuildKeys, lock'[k] # Unlocked
          PROVE  builder'[lock'[k]].phase = "compiling" /\ builder'[lock'[k]].key = k
      <3>1. lock'[k] = lock[k] /\ lock[k] # p /\ lock[k] \in Processes
        BY <1>3, <2>2 DEF BuildInvariant, Typed
      <3> QED
        BY <1>4, <2>2, <3>1 DEF BuildInvariant, Locked
    <2> QED
      BY <2>1, <2>2 DEF Locked
  <1>6. Installed'
    BY DEF BuildInvariant, Installed, Present
  <1> QED
    BY <1>2, <1>5, <1>6

-----------------------------------------------------------------------------
(* Libraries: the invariant                                                 *)

LEMMA BuildInvariantBegins == BuildInit => BuildInvariant
PROOF
  <1> SUFFICES ASSUME BuildInit PROVE BuildInvariant
    OBVIOUS
  <1>1. Idle \in Builders /\ Idle.phase # "compiling"
    BY DEF Builders, Idle
  <1>2. Typed
    BY <1>1, AbsentParts DEF BuildInit, Typed
  <1>3. Locked
    BY <1>1 DEF BuildInit, Locked
  <1>4. Installed
    BY AbsentParts DEF BuildInit, Installed
  <1>5. \A p \in Processes : Opened(loaded[p])
    BY DEF BuildInit, Opened
  <1> QED
    BY <1>2, <1>3, <1>4, <1>5 DEF BuildInvariant

LEMMA LockKeeps ==
  ASSUME BuildInvariant, NEW p \in Processes, Lock(p)
  PROVE  BuildInvariant'
PROOF
  <1> DEFINE b == builder[p]
  <1>1. b \in Builders /\ b.phase = "waiting" /\ b.key \in BuildKeys /\ lock[b.key] = Unlocked
    BY BuilderParts DEF Lock, BuildInvariant, Typed, Idle
  <1>2. \A phase \in {"compiling", "built"} :
          LET next == Resolved(phase, b.environment, b.key, Absent) IN
          next \in Builders /\ next.phase = phase /\ next.key = b.key /\ next.output = Absent
    <2> TAKE phase \in {"compiling", "built"}
    <2>1. Resolved(phase, b.environment, b.key, Absent) \in Builders
      BY <1>1, BuilderGoesOn, AbsentParts
    <2> QED
      BY <2>1 DEF Resolved
  <1>3. UNCHANGED <<library, checkout, target, loaded>>
    BY DEF Lock
  <1>4. CASE Found(b.key)
    <2>1. builder' = [builder EXCEPT ![p] = Resolved("built", b.environment, b.key, Absent)]
          /\ UNCHANGED lock
      BY <1>4 DEF Lock, Proceed
    <2>2. Typed' /\ Locked' /\ Installed'
      BY <1>1, <1>2, <1>3, <2>1, BuilderMoves
    <2> QED
      BY <1>3, <2>2, OpenedStays DEF BuildInvariant
  <1>5. CASE ~Found(b.key)
    <2> DEFINE next == Resolved("compiling", b.environment, b.key, Absent)
    <2>1. builder' = [builder EXCEPT ![p] = next] /\ lock' = [lock EXCEPT ![b.key] = p]
      BY <1>5 DEF Lock, Proceed
    <2>2. /\ next \in Builders /\ next.phase = "compiling" /\ next.key = b.key
          /\ next.output = Absent /\ ~Present(target[b.key])
      BY <1>2, <1>5 DEF Found
    <2> HIDE DEF next, b
    <2>3. /\ \A q \in Processes : builder'[q] = IF q = p THEN next ELSE builder[q]
          /\ \A k \in BuildKeys : lock'[k] = IF k = b.key THEN p ELSE lock[k]
      BY <2>1 DEF BuildInvariant, Typed
    <2>4. Typed'
      BY <1>3, <2>1, <2>2 DEF BuildInvariant, Typed
    <2>5. Locked'
      <3>1. ASSUME NEW q \in Processes, builder'[q].phase = "compiling"
            PROVE  Compiles(builder[q])' /\ lock'[builder'[q].key] = q
        <4>1. CASE q = p
          BY <1>1, <1>3, <2>2, <2>3, <4>1, AbsentParts DEF Compiles, Present
        <4>2. CASE q # p
          <5>1. builder'[q] = builder[q] /\ builder[q].key \in BuildKeys
            BY <2>3, <3>1, <4>2, BuilderParts DEF BuildInvariant, Typed, Idle
          <5>2. lock[builder[q].key] = q /\ builder[q].key # b.key
            BY <1>1, <3>1, <5>1, UnlockedAssumption DEF BuildInvariant, Locked
          <5> QED
            BY <1>3, <2>3, <3>1, <5>1, <5>2 DEF BuildInvariant, Locked, Compiles, Present
        <4> QED
          BY <4>1, <4>2
      <3>2. ASSUME NEW k \in BuildKeys, lock'[k] # Unlocked
            PROVE  builder'[lock'[k]].phase = "compiling" /\ builder'[lock'[k]].key = k
        <4>1. CASE k = b.key
          BY <2>2, <2>3, <4>1
        <4>2. CASE k # b.key
          <5>1. /\ lock'[k] = lock[k] /\ lock[k] \in Processes
                /\ builder[lock[k]].phase = "compiling" /\ builder[lock[k]].key = k
            BY <2>3, <3>2, <4>2 DEF BuildInvariant, Typed, Locked
          <5>2. lock[k] # p
            BY <1>1, <5>1 DEF b
          <5> QED
            BY <2>3, <5>1, <5>2
        <4> QED
          BY <4>1, <4>2
      <3> QED
        BY <3>1, <3>2 DEF Locked
    <2>6. Installed'
      BY <1>3 DEF BuildInvariant, Installed, Present
    <2> QED
      BY <1>3, <2>4, <2>5, <2>6, OpenedStays DEF BuildInvariant
  <1> QED
    BY <1>4, <1>5

LEMMA WriteKeeps ==
  ASSUME BuildInvariant, NEW p \in Processes, NEW size \in Forms, Write(p, size)
  PROVE  BuildInvariant'
PROOF
  <1> DEFINE b == builder[p]
             made == Output(Made(b), size)
             next == Resolved("compiling", b.environment, b.key, made)
  <1>1. /\ b \in Builders /\ b.phase = "compiling" /\ b.key \in BuildKeys
        /\ b.environment = b.key.compiler
    BY BuilderParts DEF Write, BuildInvariant, Typed, Idle
  <1>2. Made(b) = b.key
    BY <1>1 DEF Made, BuildKeys
  <1>3. made \in Outputs /\ made.of = b.key
    BY <1>1, <1>2, OutputParts
  <1>4. builder' = [builder EXCEPT ![p] = next] /\ UNCHANGED <<library, checkout, target, lock, loaded>>
    BY DEF Write, Proceed
  <1>5. next.phase = "compiling" /\ next.key = b.key /\ next.output = made
    BY DEF Resolved
  <1>6. next \in Builders
    BY <1>1, <1>3, BuilderGoesOn
  <1> HIDE DEF next, made
  <1>7. \A q \in Processes : builder'[q] = IF q = p THEN next ELSE builder[q]
    BY <1>4 DEF BuildInvariant, Typed
  <1>8. Typed'
    BY <1>4, <1>6 DEF BuildInvariant, Typed
  <1>9. Locked'
    <2>1. ASSUME NEW q \in Processes, builder'[q].phase = "compiling"
          PROVE  Compiles(builder[q])' /\ lock'[builder'[q].key] = q
      <3>1. builder[q].phase = "compiling" /\ builder'[q].key = builder[q].key
        BY <1>1, <1>5, <1>7, <2>1
      <3>2. builder'[q].output.size # "absent" => builder'[q].output.of = builder'[q].key
        BY <1>3, <1>5, <1>7, <3>1 DEF BuildInvariant, Locked, Compiles
      <3> QED
        BY <1>4, <3>1, <3>2 DEF BuildInvariant, Locked, Compiles, Present
    <2>2. ASSUME NEW k \in BuildKeys, lock'[k] # Unlocked
          PROVE  builder'[lock'[k]].phase = "compiling" /\ builder'[lock'[k]].key = k
      <3>1. /\ lock'[k] = lock[k] /\ lock[k] \in Processes
            /\ builder[lock[k]].phase = "compiling" /\ builder[lock[k]].key = k
        BY <1>4, <2>2 DEF BuildInvariant, Typed, Locked
      <3> QED
        BY <1>5, <1>7, <3>1
    <2> QED
      BY <2>1, <2>2 DEF Locked
  <1>10. Installed'
    BY <1>4 DEF BuildInvariant, Installed, Present
  <1> QED
    BY <1>4, <1>8, <1>9, <1>10, OpenedStays DEF BuildInvariant

(* What is installed is all that the compiler made of the key's sources;    *)
(* nobody else was compiling for that key.                                  *)
LEMMA InstallKeeps ==
  ASSUME BuildInvariant, NEW p \in Processes, Install(p)
  PROVE  BuildInvariant'
PROOF
  <1> DEFINE b == builder[p]
             next == Resolved("built", b.environment, b.key, Absent)
  <1>1. /\ b \in Builders /\ b.phase = "compiling" /\ b.key \in BuildKeys /\ b.output \in Outputs
        /\ Acceptable(b.output)
    BY BuilderParts DEF Install, BuildInvariant, Typed, Idle
  <1>2. next \in Builders /\ next.phase = "built"
    BY <1>1, BuilderGoesOn, AbsentParts DEF Resolved
  <1>3. /\ builder' = [builder EXCEPT ![p] = next]
        /\ target' = [target EXCEPT ![b.key] = b.output]
        /\ lock' = [lock EXCEPT ![b.key] = Unlocked]
        /\ UNCHANGED <<library, checkout, loaded>>
    BY DEF Install, Proceed
  <1>4. Present(b.output) => b.output = Output(b.key, "whole")
    <2>1. ASSUME Present(b.output)
          PROVE  b.output.size = "whole" /\ b.output.of = b.key /\ b.output # Absent
      BY <1>1, <2>1 DEF Acceptable, Present, Absent, BuildInvariant, Locked, Compiles
    <2>2. ASSUME NEW k \in BuildKeys, NEW size \in Forms, b.output = Output(k, size),
                 b.output.size = "whole", b.output.of = b.key
          PROVE  b.output = Output(b.key, "whole")
      BY <2>2, OutputParts
    <2> QED
      BY <1>1, <2>1, <2>2 DEF Outputs
  <1>5. lock[b.key] = p
    BY <1>1 DEF BuildInvariant, Locked
  <1> HIDE DEF next, b
  <1>6. /\ \A q \in Processes : builder'[q] = IF q = p THEN next ELSE builder[q]
        /\ \A k \in BuildKeys : target'[k] = IF k = b.key THEN b.output ELSE target[k]
        /\ \A k \in BuildKeys : lock'[k] = IF k = b.key THEN Unlocked ELSE lock[k]
    BY <1>3 DEF BuildInvariant, Typed
  <1>7. Typed'
    BY <1>1, <1>2, <1>3 DEF BuildInvariant, Typed
  <1>8. Locked'
    <2>1. ASSUME NEW q \in Processes, builder'[q].phase = "compiling"
          PROVE  Compiles(builder[q])' /\ lock'[builder'[q].key] = q
      <3>1. q # p /\ builder'[q] = builder[q] /\ builder[q].key \in BuildKeys
        BY <1>2, <1>6, <2>1, BuilderParts DEF BuildInvariant, Typed, Idle
      <3>2. lock[builder[q].key] = q /\ builder[q].key # b.key
        BY <1>5, <2>1, <3>1 DEF BuildInvariant, Locked
      <3> QED
        BY <1>6, <2>1, <3>1, <3>2 DEF BuildInvariant, Locked, Compiles, Present
    <2>2. ASSUME NEW k \in BuildKeys, lock'[k] # Unlocked
          PROVE  builder'[lock'[k]].phase = "compiling" /\ builder'[lock'[k]].key = k
      <3>1. /\ k # b.key /\ lock'[k] = lock[k] /\ lock[k] \in Processes
            /\ builder[lock[k]].phase = "compiling" /\ builder[lock[k]].key = k
        BY <1>6, <2>2 DEF BuildInvariant, Typed, Locked
      <3>2. lock[k] # p
        BY <3>1 DEF b
      <3> QED
        BY <1>6, <3>1, <3>2
    <2> QED
      BY <2>1, <2>2 DEF Locked
  <1>9. Installed'
    <2> SUFFICES ASSUME NEW k \in BuildKeys, Present(target'[k])
                 PROVE  target'[k] = Output(k, "whole")
      BY DEF Installed, Present
    <2> QED
      BY <1>4, <1>6 DEF BuildInvariant, Installed
  <1> QED
    BY <1>3, <1>7, <1>8, <1>9, OpenedStays DEF BuildInvariant

(* What is loaded is what is installed, and goes by its key's name.         *)
LEMMA LoadKeeps ==
  ASSUME BuildInvariant, NEW p \in Processes, Load(p)
  PROVE  BuildInvariant'
PROOF
  <1> DEFINE b == builder[p]
             name == NameOf(b.environment, b.key)
  <1>1. /\ b.phase = "built" /\ b.key \in BuildKeys /\ b.environment = b.key.compiler
    BY BuilderParts DEF Load, BuildInvariant, Typed, Idle
  <1>2. Idle \in Builders /\ Idle.phase # "compiling"
    BY DEF Builders, Idle
  <1>3. builder' = [builder EXCEPT ![p] = Idle] /\ UNCHANGED <<library, checkout, target, lock>>
    BY DEF Load
  <1>4. Typed' /\ Locked' /\ Installed'
    BY <1>1, <1>2, <1>3, BuilderMoves
  <1>5. \A q \in Processes : Opened(loaded[q])'
    <2>1. CASE UNCHANGED loaded
      BY <1>3, <2>1, OpenedStays
    <2>2. CASE /\ Loadable(target[b.key])
               /\ loaded' = [loaded EXCEPT ![p] = [n \in DOMAIN @ \cup {name} |->
                                                     IF n = name THEN target[b.key] ELSE @[n]]]
      <3>1. target[b.key] = Output(b.key, "whole")
        BY <1>1, <2>2 DEF Loadable, Present, BuildInvariant, Installed
      <3>2. /\ target[b.key].size = "whole" /\ Compatible(target[b.key].of.sources)
            /\ name = NameOf(target[b.key].of.compiler, target[b.key].of)
        BY <1>1, <2>2, <3>1, OutputParts DEF Loadable, Forms
      <3> DEFINE file == target[b.key]
                 after == [n \in DOMAIN loaded[p] \cup {name} |->
                             IF n = name THEN file ELSE loaded[p][n]]
      <3>3. Opened(loaded[p])
        BY DEF BuildInvariant
      <3> HIDE DEF file, name, b
      <3>4. Opened(after)
        BY <3>2, <3>3 DEF Opened, file
      <3>5. \A q \in Processes : loaded'[q] = loaded[q] \/ loaded'[q] = after
        BY <2>2 DEF file
      <3> HIDE DEF after
      <3>6. \A q \in Processes : Opened(loaded'[q])
        BY <3>4, <3>5 DEF BuildInvariant
      <3> QED
        BY <1>3, <3>6 DEF Opened, NameOf
    <2> QED
      BY <2>1, <2>2 DEF Load
  <1> QED
    BY <1>4, <1>5 DEF BuildInvariant

LEMMA BuildInvariantKept ==
  ASSUME BuildInvariant, [BuildNext]_buildVars
  PROVE  BuildInvariant'
PROOF
  <1>1. ASSUME NEW p \in Processes, NEW c \in Compilers, Begin(p, c)
        PROVE  BuildInvariant'
    <2>1. Reading(c, <<>>) \in Builders /\ Reading(c, <<>>).phase = "reading"
      <3>1. <<>> \in Seq(Contents)
        OBVIOUS
      <3> QED
        BY <3>1, ReaderIsBuilder
    <2>2. builder[p].phase # "compiling"
      BY <1>1 DEF Begin, Idle
    <2>3. builder' = [builder EXCEPT ![p] = Reading(c, <<>>)]
          /\ UNCHANGED <<library, checkout, target, lock, loaded>>
      BY <1>1 DEF Begin
    <2>4. Typed' /\ Locked' /\ Installed'
      BY <2>1, <2>2, <2>3, BuilderMoves
    <2> QED
      BY <2>3, <2>4, OpenedStays DEF BuildInvariant
  <1>2. ASSUME NEW p \in Processes, ReadFile(p)
        PROVE  BuildInvariant'
    <2> DEFINE b == builder[p]
               next == Reading(b.environment, Append(b.read, checkout[Len(b.read) + 1]))
    <2>1. /\ b.phase = "reading" /\ Len(b.read) < Files
          /\ b.environment \in Compilers /\ b.read \in Seq(Contents)
      BY <1>2, BuilderParts DEF ReadFile, BuildInvariant, Typed, Idle
    <2>2. checkout[Len(b.read) + 1] \in Contents
      BY <2>1, FilesAssumption DEF BuildInvariant, Typed, Sources
    <2>3. next \in Builders /\ next.phase = "reading"
      <3>1. Append(b.read, checkout[Len(b.read) + 1]) \in Seq(Contents)
        BY <2>1, <2>2
      <3> QED
        BY <2>1, <3>1, ReaderIsBuilder
    <2>4. builder' = [builder EXCEPT ![p] = next] /\ UNCHANGED <<library, checkout, target, lock, loaded>>
      BY <1>2 DEF ReadFile
    <2> HIDE DEF next
    <2>5. Typed' /\ Locked' /\ Installed'
      BY <2>1, <2>3, <2>4, BuilderMoves
    <2> QED
      BY <2>4, <2>5, OpenedStays DEF BuildInvariant
  <1>3. ASSUME NEW p \in Processes, Resolve(p)
        PROVE  BuildInvariant'
    <2> DEFINE b == builder[p]
               key == KeyOf(b)
    <2>1. b \in Builders /\ b.phase = "reading" /\ Len(b.read) = Files
      BY <1>3 DEF Resolve, BuildInvariant, Typed
    <2>2. key \in BuildKeys /\ key.compiler = b.environment
      BY <2>1, KeyIsRead
    <2> HIDE DEF key
    <2>3. \A phase \in {"built", "waiting"} :
            LET next == Resolved(phase, b.environment, key, Absent) IN
            next \in Builders /\ next.phase = phase
      BY <2>2, AbsentParts DEF Builders, Resolved
    <2>4. PICK phase \in {"built", "waiting"} :
            builder' = [builder EXCEPT ![p] = Resolved(phase, b.environment, key, Absent)]
      BY <1>3 DEF Resolve, Proceed, key
    <2>5. UNCHANGED <<library, checkout, target, lock, loaded>>
      BY <1>3 DEF Resolve
    <2>6. Typed' /\ Locked' /\ Installed'
      BY <2>1, <2>3, <2>4, <2>5, BuilderMoves
    <2> QED
      BY <2>5, <2>6, OpenedStays DEF BuildInvariant
  <1>4. ASSUME NEW p \in Processes, Fail(p)
        PROVE  BuildInvariant'
    BY <1>4, BuilderEnds, OpenedStays DEF Fail, BuildInvariant
  <1>5. ASSUME NEW p \in Processes, Crash(p)
        PROVE  BuildInvariant'
    <2>1. Typed' /\ Locked' /\ Installed'
      BY <1>5, BuilderEnds DEF Crash
    <2>2. ASSUME NEW q \in Processes
          PROVE  Opened(loaded[q])'
      <3>1. loaded'[q] = loaded[q] \/ loaded'[q] = [n \in {} |-> Absent]
        BY <1>5 DEF Crash
      <3> QED
        BY <1>5, <3>1 DEF Crash, BuildInvariant, Opened, NameOf
    <2> QED
      BY <2>1, <2>2 DEF BuildInvariant
  <1>6. ASSUME NEW f \in 1 .. Files, NEW content \in Contents, Edit(f, content)
        PROVE  BuildInvariant'
    <2>1. checkout' \in Sources
      BY <1>6 DEF Edit, BuildInvariant, Typed, Sources
    <2> QED
      BY <1>6, <2>1, OpenedStays
      DEF Edit, BuildInvariant, Typed, Locked, Compiles, Installed, Present
  <1>7. ASSUME NEW key \in BuildKeys, Discard(key)
        PROVE  BuildInvariant'
    <2>1. \A k \in BuildKeys : target'[k] = IF k = key THEN Absent ELSE target[k]
      BY <1>7 DEF Discard, BuildInvariant, Typed
    <2>2. Typed'
      BY <1>7, AbsentParts DEF Discard, BuildInvariant, Typed
    <2>3. \A k \in BuildKeys : Present(target'[k]) => Present(target[k]) /\ target'[k] = target[k]
      BY <2>1, AbsentParts
    <2>4. Locked'
      <3>1. ASSUME NEW p \in Processes, builder[p].phase = "compiling"
            PROVE  builder[p].key \in BuildKeys
        BY <3>1, BuilderParts DEF BuildInvariant, Typed, Idle
      <3> QED
        BY <1>7, <2>3, <3>1 DEF Discard, BuildInvariant, Locked, Compiles, Present
    <2>5. Installed'
      BY <2>3 DEF BuildInvariant, Installed, Present
    <2> QED
      BY <1>7, <2>2, <2>4, <2>5, OpenedStays DEF Discard, BuildInvariant
  <1>8. CASE UNCHANGED buildVars
    BY <1>8, OpenedStays
    DEF buildVars, BuildInvariant, Typed, Locked, Compiles, Installed, Present
  <1> QED
    BY <1>1, <1>2, <1>3, <1>4, <1>5, <1>6, <1>7, <1>8,
       LockKeeps, InstallKeeps, LoadKeeps, WriteKeeps
    DEF BuildNext

-----------------------------------------------------------------------------
(* Libraries: theorems                                                      *)

(* However builds, crashes, edits of the checkout and removals interleave,  *)
(* what is in the cache under a key and what a process has loaded is what   *)
(* the key's compiler made of its sources, to the end (build_native and its *)
(* siblings, _library).                                                     *)
THEOREM LibrariesBuilt == BuildSpec => []LibrariesAreBuilt
PROOF
  <1>1. BuildInvariant => LibrariesAreBuilt
    BY DEF BuildInvariant, Installed, Opened, LibrariesAreBuilt
  <1> QED
    BY <1>1, BuildInvariantBegins, BuildInvariantKept, PTL DEF BuildSpec

(* A library is built by one process at a time and only while it is not     *)
(* there, and no key stays locked by a builder that has ended (_build_lock).*)
THEOREM LibrariesBuiltOnce == BuildSpec => []BuiltOnce
PROOF
  <1>1. BuildInvariant => BuiltOnce
    BY DEF BuildInvariant, Typed, Locked, Compiles, BuiltOnce
  <1> QED
    BY <1>1, BuildInvariantBegins, BuildInvariantKept, PTL DEF BuildSpec

-----------------------------------------------------------------------------
(* Roads: ways of a bounded number of edges                                 *)

(* The most edges a way needs.                                              *)
MostEdges == Cardinality(Nodes) - 1

WayLengths == [Nodes -> Nat \cup {NoEdge}]

GraphTyped == length \in [Streets -> Lengths \cup {NoEdge}]

LEMMA MostEdgesNatural == MostEdges \in Nat
PROOF
  <1>1. Nodes # {} /\ IsFiniteSet(Nodes)
    BY LengthsAssumption
  <1>2. Cardinality(Nodes) \in Nat /\ Cardinality(Nodes) # 0
    BY <1>1, FS_CardinalityType, FS_EmptySet
  <1> QED
    BY <1>2 DEF MostEdges

(* A length is one of the graph's, or there is no edge.                     *)
LEMMA LengthTyped ==
  ASSUME GraphTyped, NEW m \in Nodes, NEW n \in Nodes
  PROVE  Length(m, n) \in Nat \cup {NoEdge}
PROOF
  <1>1. CASE <<m, n>> \in Streets
    <2>1. length[<<m, n>>] \in Lengths \cup {NoEdge}
      BY <1>1 DEF GraphTyped
    <2> QED
      BY <1>1, <2>1, LengthsAssumption DEF Length
  <1>2. CASE <<m, n>> \notin Streets
    BY <1>2 DEF Length
  <1> QED
    BY <1>1, <1>2

(* The least of a set of lengths.                                           *)
LEMMA LeastIs ==
  ASSUME NEW T \in SUBSET (Nat \cup {NoEdge})
  PROVE  /\ Least(T) \in Nat \cup {NoEdge}
         /\ Least(T) # NoEdge => Least(T) \in T
         /\ \A x \in T : x # NoEdge => Least(T) # NoEdge /\ Least(T) <= x
PROOF
  <1> DEFINE R == T \ {NoEdge}
  <1>1. NoEdge \notin Nat
    BY LengthsAssumption
  <1>2. CASE R = {}
    BY <1>2 DEF Least
  <1>3. CASE R # {}
    <2>1. R \in SUBSET Nat
      OBVIOUS
    <2>2. PICK n \in R : \A m \in R : n <= m
      <3> HIDE DEF R
      <3> QED
        BY <1>3, <2>1, LeastNatural
    <2>3. Min(R) \in R /\ \A m \in R : Min(R) <= m
      BY <2>2 DEF Min
    <2>4. Least(T) = Min(R)
      BY <1>3 DEF Least
    <2> QED
      BY <1>1, <2>1, <2>3, <2>4
  <1> QED
    BY <1>2, <1>3

(* The lengths of the ways that end in n, after those of one edge less.     *)
Onward(before, n) == Least({before[n]} \cup {Plus(before[m], Length(m, n)) : m \in Nodes \ {n}})

LEMMA OnwardIs ==
  ASSUME GraphTyped, NEW before \in WayLengths, NEW n \in Nodes
  PROVE  /\ Onward(before, n) \in Nat \cup {NoEdge}
         /\ Onward(before, n) # NoEdge =>
              \/ Onward(before, n) = before[n]
              \/ \E m \in Nodes : /\ before[m] # NoEdge /\ Length(m, n) # NoEdge
                                  /\ Onward(before, n) = before[m] + Length(m, n)
         /\ before[n] # NoEdge => Onward(before, n) # NoEdge /\ Onward(before, n) <= before[n]
         /\ \A m \in Nodes \ {n} :
              before[m] # NoEdge /\ Length(m, n) # NoEdge =>
                Onward(before, n) # NoEdge /\ Onward(before, n) <= before[m] + Length(m, n)
PROOF
  <1> DEFINE T == {before[n]} \cup {Plus(before[m], Length(m, n)) : m \in Nodes \ {n}}
  <1>1. NoEdge \notin Nat
    BY LengthsAssumption
  <1>2. \A m \in Nodes : before[m] \in Nat \cup {NoEdge}
    BY DEF WayLengths
  <1>3. \A m \in Nodes : Length(m, n) \in Nat \cup {NoEdge}
    BY LengthTyped
  <1>4. \A m \in Nodes :
          /\ Plus(before[m], Length(m, n)) \in Nat \cup {NoEdge}
          /\ Plus(before[m], Length(m, n)) # NoEdge =>
               /\ before[m] # NoEdge /\ Length(m, n) # NoEdge
               /\ Plus(before[m], Length(m, n)) = before[m] + Length(m, n)
          /\ before[m] # NoEdge /\ Length(m, n) # NoEdge =>
               /\ Plus(before[m], Length(m, n)) = before[m] + Length(m, n)
               /\ before[m] + Length(m, n) \in Nat
    BY <1>1, <1>2, <1>3 DEF Plus
  <1>5. T \in SUBSET (Nat \cup {NoEdge})
    BY <1>2, <1>4
  <1>6. /\ Least(T) \in Nat \cup {NoEdge}
        /\ Least(T) # NoEdge => Least(T) \in T
        /\ \A x \in T : x # NoEdge => Least(T) # NoEdge /\ Least(T) <= x
    <2> HIDE DEF T
    <2> QED
      BY <1>5, LeastIs
  <1>7. Onward(before, n) = Least(T)
    BY DEF Onward
  <1>8. before[n] \in T /\ \A m \in Nodes \ {n} : Plus(before[m], Length(m, n)) \in T
    OBVIOUS
  <1>9. \A x \in T : x = before[n] \/ \E m \in Nodes : x = Plus(before[m], Length(m, n))
    OBVIOUS
  <1> HIDE DEF T
  <1>10. Onward(before, n) # NoEdge =>
              \/ Onward(before, n) = before[n]
              \/ \E m \in Nodes : /\ before[m] # NoEdge /\ Length(m, n) # NoEdge
                                  /\ Onward(before, n) = before[m] + Length(m, n)
    BY <1>4, <1>6, <1>7, <1>9
  <1>11. \A m \in Nodes \ {n} :
              before[m] # NoEdge /\ Length(m, n) # NoEdge =>
                Onward(before, n) # NoEdge /\ Onward(before, n) <= before[m] + Length(m, n)
    <2> TAKE m \in Nodes \ {n}
    <2> HAVE before[m] # NoEdge /\ Length(m, n) # NoEdge
    <2>1. Plus(before[m], Length(m, n)) = before[m] + Length(m, n) /\ before[m] + Length(m, n) \in Nat
      BY <1>4
    <2> QED
      BY <1>1, <1>6, <1>7, <1>8, <2>1
  <1> QED
    BY <1>6, <1>7, <1>8, <1>10, <1>11

(* Within is what its recursion says.                                       *)
LEMMA WithinIs ==
  ASSUME GraphTyped
  PROVE  /\ \A k \in 0 .. MostEdges : Within[k] \in WayLengths
         /\ Within[0] = [n \in Nodes |-> IF n = Start THEN 0 ELSE NoEdge]
         /\ \A k \in 1 .. MostEdges, n \in Nodes : Within[k][n] = Onward(Within[k - 1], n)
PROOF
  <1> DEFINE N == MostEdges
             x == [n \in Nodes |-> IF n = Start THEN 0 ELSE NoEdge]
             All(d) == [n \in Nodes |-> Onward(d, n)]
             round == [i \in 1 .. N |-> [d \in WayLengths |-> All(d)]]
             F(f) == f = [k \in 0 .. Cardinality(Nodes) - 1 |->
                            IF k = 0 THEN [n \in Nodes |-> IF n = Start THEN 0 ELSE NoEdge]
                            ELSE [n \in Nodes |-> Least({f[k - 1][n]} \cup
                                    {Plus(f[k - 1][m], Length(m, n)) : m \in Nodes \ {n}})]]
             G(f) == f = [k \in 0 .. N |-> IF k = 0 THEN x ELSE All(f[k - 1])]
             within == CHOOSE f : F(f)
  <1>1. N \in Nat /\ N = Cardinality(Nodes) - 1
    BY MostEdgesNatural DEF MostEdges
  <1>2. x \in WayLengths
    BY DEF WayLengths
  <1>3. \A i \in 1 .. N, d \in WayLengths :
          round[i][d] = All(d) /\ round[i][d] \in WayLengths
    BY OnwardIs DEF WayLengths
  <1>4. \A f : F(f) <=> G(f)
    BY <1>1 DEF Onward
  <1>5. within = Within
    BY DEF Within
  <1> HIDE DEF N, x, All, round, F
  <1>6. PICK f : f \in Loops(N, WayLengths, x, round)
    <2>1. Loops(N, WayLengths, x, round) # {}
      BY <1>1, <1>2, <1>3, LoopExists
    <2> QED
      BY <2>1
  <1>7. f \in [0 .. N -> WayLengths] /\ f[0] = x /\ \A i \in 1 .. N : f[i] = round[i][f[i - 1]]
    BY <1>6 DEF Loops
  <1>8. \A i \in 1 .. N : f[i] = All(f[i - 1])
    <2> TAKE i \in 1 .. N
    <2>1. f[i - 1] \in WayLengths
      BY <1>1, <1>7
    <2> QED
      BY <1>3, <1>7, <2>1
  <1>9. G(f)
    <2>1. \A i \in 0 .. N : f[i] = IF i = 0 THEN x ELSE All(f[i - 1])
      BY <1>1, <1>7, <1>8
    <2> QED
      BY <1>7, <2>1
  <1>10. G(Within)
    <2>1. F(within)
      BY <1>4, <1>9
    <2> QED
      BY <1>4, <1>5, <2>1
  <1> HIDE DEF within
  <1>11. Within[0] = x /\ \A k \in 1 .. N : Within[k] = All(Within[k - 1])
    BY <1>1, <1>10
  <1>12. \A k \in 0 .. N : Within[k] \in WayLengths
    <2> DEFINE S == {k \in 0 .. N : Within[k] \in WayLengths}
    <2>1. 0 \in S
      BY <1>1, <1>2, <1>11
    <2>2. ASSUME NEW k \in 0 .. N - 1, k \in S
          PROVE  k + 1 \in S
      <3>1. Within[k] \in WayLengths
        BY <2>2
      <3>2. k + 1 \in 1 .. N /\ (k + 1) - 1 = k
        BY <1>1
      <3>3. Within[k + 1] = round[k + 1][Within[k]]
        BY <1>3, <1>11, <3>1, <3>2
      <3>4. Within[k + 1] \in WayLengths
        BY <1>3, <3>1, <3>2, <3>3
      <3> QED
        BY <1>1, <3>2, <3>4
    <2>3. \A k \in 0 .. N - 1 : k \in S => k + 1 \in S
      BY <2>2
    <2>4. \A k \in 0 .. N : k \in S
      <3> HIDE DEF S
      <3> QED
        BY <1>1, <2>1, <2>3, UpTo
    <2> QED
      BY <2>4
  <1>13. \A k \in 1 .. N, n \in Nodes : Within[k][n] = Onward(Within[k - 1], n)
    BY <1>11 DEF All
  <1> QED
    BY <1>11, <1>12, <1>13 DEF x, N

(* A way of fewer edges is a way of more.                                   *)
LEMMA WithinFalls ==
  ASSUME GraphTyped, NEW n \in Nodes, NEW k \in 0 .. MostEdges, Within[k][n] # NoEdge
  PROVE  /\ Within[MostEdges][n] \in Nat /\ Within[k][n] \in Nat
         /\ Within[MostEdges][n] # NoEdge
         /\ Within[MostEdges][n] <= Within[k][n]
PROOF
  <1> DEFINE N == MostEdges
             v == [i \in 0 .. N |-> Within[i][n]]
             S == {i \in 0 .. N : i >= k => v[i] # NoEdge /\ v[i] <= v[k]}
  <1>1. N \in Nat /\ k \in Nat /\ k <= N
    BY MostEdgesNatural
  <1>2. \A i \in 0 .. N : v[i] \in Nat \cup {NoEdge}
    BY WithinIs DEF WayLengths
  <1>3. \A i \in 1 .. N : v[i - 1] # NoEdge => v[i] # NoEdge /\ v[i] <= v[i - 1]
    <2> TAKE i \in 1 .. N
    <2>1. i - 1 \in 0 .. N /\ i \in 0 .. N
      BY <1>1
    <2>2. Within[i - 1] \in WayLengths /\ Within[i][n] = Onward(Within[i - 1], n)
      BY <2>1, WithinIs
    <2>3. Within[i - 1][n] # NoEdge => Within[i][n] # NoEdge /\ Within[i][n] <= Within[i - 1][n]
      BY <2>2, OnwardIs
    <2> QED
      BY <2>1, <2>3
  <1>4. v[k] # NoEdge
    BY <1>1
  <1>5. NoEdge \in Int /\ NoEdge \notin Nat
    BY LengthsAssumption
  <1> HIDE DEF v
  <1>6. 0 \in S
    BY <1>1, <1>2, <1>4, <1>5
  <1>7. ASSUME NEW i \in 0 .. N - 1, i \in S
        PROVE  i + 1 \in S
    <2>1. i + 1 \in 1 .. N /\ (i + 1) - 1 = i /\ i \in Nat
      BY <1>1
    <2>2. v[i] # NoEdge => v[i + 1] # NoEdge /\ v[i + 1] <= v[i]
      BY <1>3, <2>1
    <2>3. v[i] \in Nat \cup {NoEdge} /\ v[i + 1] \in Nat \cup {NoEdge} /\ v[k] \in Nat
      BY <1>1, <1>2, <1>4, <2>1
    <2>4. CASE k <= i
      BY <1>1, <1>5, <1>7, <2>1, <2>2, <2>3, <2>4
    <2>5. CASE k = i + 1
      BY <1>1, <1>4, <2>1, <2>3, <2>5
    <2>6. CASE k > i + 1
      BY <1>1, <2>1, <2>6
    <2> QED
      BY <1>1, <2>1, <2>4, <2>5, <2>6
  <1>8. N \in S
    <2>1. \A i \in 0 .. N - 1 : i \in S => i + 1 \in S
      BY <1>7
    <2>2. \A i \in 0 .. N : i \in S
      <3> HIDE DEF S, N
      <3> QED
        BY <1>1, <1>6, <2>1, UpTo
    <2> QED
      BY <1>1, <2>2
  <1>9. v[N] # NoEdge /\ v[N] <= v[k] /\ v[N] \in Nat /\ v[k] \in Nat
    BY <1>1, <1>2, <1>4, <1>8
  <1>10. v[N] = Within[N][n] /\ v[k] = Within[k][n]
    BY <1>1 DEF v
  <1> QED
    BY <1>9, <1>10

-----------------------------------------------------------------------------
(* Roads: the search                                                        *)

(* The nodes whose best length no entry of the heap repeats any more.       *)
Settled(heap, lengths) ==
  {n \in DOMAIN lengths : \A p \in heap : p[3] = n => p[1] # lengths[n]}

SearchTyped ==
  /\ GraphTyped
  /\ pending \subseteq Nat \X Nat \X Nodes /\ sequence \in Nat
  /\ DOMAIN best \subseteq Nodes /\ best \in [DOMAIN best -> Nat]
  /\ node \in Nodes /\ cost \in Nat /\ out \subseteq Nodes

(* No entry is before what was popped, nor below what is known of its node, *)
(* and none repeats another.                                                *)
HeapStands(heap, lengths, numbers, popped) ==
  /\ \A p \in heap : /\ p[2] <= numbers /\ popped <= p[1]
                     /\ p[3] \in DOMAIN lengths /\ lengths[p[3]] <= p[1]
  /\ \A p, q \in heap : p[2] = q[2] => p = q
  /\ \A p, q \in heap : p[3] = q[3] /\ p[1] = q[1] => p = q

(* The edges of a settled node were looked at, but for the rest of one's.   *)
SettledStand(heap, lengths, popped, current, rest) ==
  /\ Start \in DOMAIN lengths /\ lengths[Start] = 0
  /\ End \notin Settled(heap, lengths)
  /\ \A n \in Settled(heap, lengths) : lengths[n] <= popped
  /\ rest # {} => current \in Settled(heap, lengths) /\ lengths[current] = popped
  /\ \A n \in rest : Length(current, n) # NoEdge
  /\ \A m \in Settled(heap, lengths), n \in Nodes :
       Length(m, n) # NoEdge /\ ~ (m = current /\ n \in rest) =>
         n \in DOMAIN lengths /\ lengths[n] <= lengths[m] + Length(m, n)

(* A length that is known is that of a way over settled nodes.              *)
WaysStand(heap, lengths) ==
  \A n \in DOMAIN lengths :
    \E k \in 0 .. MostEdges : /\ k <= Cardinality(Settled(heap, lengths) \ {n})
                              /\ Within[k][n] # NoEdge /\ Within[k][n] <= lengths[n]

SearchInvariant ==
  /\ result = Searching =>
       /\ SearchTyped
       /\ HeapStands(pending, best, sequence, cost)
       /\ SettledStand(pending, best, cost, node, out)
       /\ WaysStand(pending, best)
  /\ ShortestFound

(* What is popped is a least entry.                                         *)
LEMMA TopIs ==
  ASSUME SearchTyped, HeapStands(pending, best, sequence, cost), pending # {}
  PROVE  Top \in pending /\ \A q \in pending : Top[1] <= q[1]
PROOF
  <1>1. \A p \in pending : p[1] \in Nat /\ p[2] \in Nat
    BY DEF SearchTyped
  <1>2. PICK c \in {p[1] : p \in pending} : \A d \in {p[1] : p \in pending} : c <= d
    <2> DEFINE C == {p[1] : p \in pending}
    <2>1. C \in SUBSET Nat /\ C # {}
      BY <1>1
    <2> HIDE DEF C
    <2>2. \E n \in C : \A m \in C : n <= m
      BY <2>1, LeastNatural
    <2> QED
      BY <2>2 DEF C
  <1> DEFINE Q == {p \in pending : p[1] = c}
  <1>3. PICK s \in {p[2] : p \in Q} : \A d \in {p[2] : p \in Q} : s <= d
    <2> DEFINE D == {p[2] : p \in Q}
    <2>1. D \in SUBSET Nat /\ D # {}
      BY <1>1, <1>2
    <2> HIDE DEF D
    <2>2. \E n \in D : \A m \in D : n <= m
      BY <2>1, LeastNatural
    <2> QED
      BY <2>2 DEF D
  <1>4. PICK p \in pending : p[1] = c /\ p[2] = s
    BY <1>3
  <1>5. \A q \in pending \ {p} : Before(p, q)
    <2> TAKE q \in pending \ {p}
    <2>1. c <= q[1] /\ c \in Nat /\ q[1] \in Nat /\ q[2] \in Nat /\ s \in Nat
      BY <1>1, <1>2, <1>4
    <2>2. q[2] # s
      BY <1>4 DEF HeapStands
    <2>3. q[1] = c => s <= q[2]
      BY <1>3
    <2> QED
      BY <1>4, <2>1, <2>2, <2>3 DEF Before
  <1>6. Top \in pending /\ \A q \in pending \ {Top} : Before(Top, q)
    BY <1>4, <1>5 DEF Top
  <1> QED
    BY <1>1, <1>6 DEF Before

(* While every entry costs c or more, a way of less than c is known.        *)
LEMMA BelowIsKnown ==
  ASSUME SearchTyped, HeapStands(pending, best, sequence, cost),
         SettledStand(pending, best, cost, node, out), out = {},
         NEW c \in Nat, \A p \in pending : c <= p[1],
         NEW n \in Nodes, Within[MostEdges][n] # NoEdge, Within[MostEdges][n] < c
  PROVE  n \in DOMAIN best /\ best[n] <= Within[MostEdges][n]
PROOF
  <1> DEFINE N == MostEdges
             Known(k, m) == Within[k][m] # NoEdge /\ Within[k][m] < c =>
                              m \in DOMAIN best /\ best[m] <= Within[k][m]
             S == {k \in 0 .. N : \A m \in Nodes : Known(k, m)}
  <1>1. N \in Nat
    BY MostEdgesNatural
  <1>2. GraphTyped /\ DOMAIN best \subseteq Nodes /\ \A m \in DOMAIN best : best[m] \in Nat
    BY DEF SearchTyped
  <1>3. \A k \in 0 .. N : Within[k] \in WayLengths
    BY <1>2, WithinIs
  <1>4. 0 \in S
    <2>1. \A m \in Nodes : Within[0][m] = IF m = Start THEN 0 ELSE NoEdge
      BY <1>2, WithinIs
    <2>2. \A m \in Nodes : Known(0, m)
      BY <2>1 DEF SettledStand
    <2> QED
      BY <1>1, <2>2
  <1>5. ASSUME NEW k \in 0 .. N - 1, k \in S
        PROVE  k + 1 \in S
    <2>1. k + 1 \in 1 .. N /\ (k + 1) - 1 = k /\ k \in 0 .. N /\ k + 1 \in 0 .. N
      BY <1>1
    <2>2. \A m \in Nodes : Within[k + 1][m] = Onward(Within[k], m)
      BY <1>2, <2>1, WithinIs
    <2>3. ASSUME NEW m \in Nodes, Within[k + 1][m] # NoEdge, Within[k + 1][m] < c
          PROVE  m \in DOMAIN best /\ best[m] <= Within[k + 1][m]
      <3>1. Within[k] \in WayLengths
        BY <1>3, <2>1
      <3>2. CASE Within[k + 1][m] = Within[k][m]
        BY <1>5, <2>3, <3>2
      <3>3. ASSUME NEW h \in Nodes, Within[k][h] # NoEdge, Length(h, m) # NoEdge,
                   Within[k + 1][m] = Within[k][h] + Length(h, m)
            PROVE  m \in DOMAIN best /\ best[m] <= Within[k + 1][m]
        <4>1. Within[k][h] \in Nat /\ Length(h, m) \in Nat
          BY <1>2, <3>1, <3>3, LengthTyped DEF WayLengths
        <4>2. Within[k][h] < c
          BY <2>3, <3>3, <4>1
        <4>3. h \in DOMAIN best /\ best[h] <= Within[k][h] /\ best[h] \in Nat
          BY <1>2, <1>5, <3>3, <4>2
        <4>4. h \in Settled(pending, best)
          <5>1. ASSUME NEW p \in pending, p[3] = h, p[1] = best[h]
                PROVE  FALSE
            BY <4>1, <4>2, <4>3, <5>1
          <5> QED
            BY <4>3, <5>1 DEF Settled
        <4>5. m \in DOMAIN best /\ best[m] <= best[h] + Length(h, m)
          BY <3>3, <4>4 DEF SettledStand
        <4> QED
          BY <1>2, <3>3, <4>1, <4>3, <4>5
      <3>4. \/ Within[k + 1][m] = Within[k][m]
            \/ \E h \in Nodes : /\ Within[k][h] # NoEdge /\ Length(h, m) # NoEdge
                                /\ Within[k + 1][m] = Within[k][h] + Length(h, m)
        BY <1>2, <2>2, <2>3, <3>1, OnwardIs
      <3> QED
        BY <3>2, <3>3, <3>4
    <2> QED
      BY <2>1, <2>3
  <1>6. \A k \in 0 .. N : k \in S
    <2>1. \A k \in 0 .. N - 1 : k \in S => k + 1 \in S
      BY <1>5
    <2> HIDE DEF S, N
    <2> QED
      BY <1>1, <1>4, <2>1, UpTo
  <1> QED
    BY <1>1, <1>6

LEMMA SearchInvariantInit ==
  ASSUME SearchInit
  PROVE  SearchInvariant
PROOF
  <1>1. SearchTyped
    BY LengthsAssumption DEF SearchInit, SearchTyped, GraphTyped
  <1>2. HeapStands(pending, best, sequence, cost)
    BY DEF SearchInit, HeapStands
  <1>3. Settled(pending, best) = {}
    BY DEF SearchInit, Settled
  <1>4. SettledStand(pending, best, cost, node, out)
    BY <1>3 DEF SearchInit, SettledStand
  <1>5. WaysStand(pending, best)
    <2>1. DOMAIN best = {Start} /\ best[Start] = 0
      BY DEF SearchInit
    <2>2. Within[0][Start] = 0 /\ 0 # NoEdge
      BY <1>1, WithinIs, LengthsAssumption DEF SearchTyped
    <2>3. Cardinality({} \ {Start}) = 0 /\ 0 \in 0 .. MostEdges
      BY MostEdgesNatural, FS_EmptySet
    <2> QED
      BY <1>3, <2>1, <2>2, <2>3 DEF WaysStand
  <1>6. ShortestFound
    BY DEF SearchInit, ShortestFound, Searching, NoRoute, Domain
  <1> QED
    BY <1>1, <1>2, <1>4, <1>5, <1>6 DEF SearchInvariant

(* The number of settled nodes but one is at most that of the most edges.   *)
LEMMA FewerThanNodes ==
  ASSUME NEW S \in SUBSET Nodes, NEW n \in Nodes
  PROVE  /\ IsFiniteSet(S) /\ Cardinality(S) \in Nat
         /\ Cardinality(S \ {n}) \in Nat /\ Cardinality(S \ {n}) <= MostEdges
         /\ n \in S => Cardinality(S \ {n}) = Cardinality(S) - 1
         /\ n \notin S => Cardinality(S \ {n}) = Cardinality(S)
PROOF
  <1>1. IsFiniteSet(Nodes)
    BY LengthsAssumption
  <1>2. IsFiniteSet(S) /\ IsFiniteSet(Nodes \ {n}) /\ S \ {n} \subseteq Nodes \ {n}
    BY <1>1, FS_Subset
  <1>3. Cardinality(Nodes \ {n}) = MostEdges
    BY <1>1, FS_RemoveElement DEF MostEdges
  <1>4. Cardinality(S \ {n}) <= MostEdges
    BY <1>2, <1>3, FS_Subset
  <1>5. IsFiniteSet(S \ {n})
    BY <1>2, FS_Subset
  <1>6. n \notin S => S \ {n} = S
    OBVIOUS
  <1> QED
    BY <1>2, <1>4, <1>5, <1>6, FS_CardinalityType, FS_RemoveElement

(* Ways over settled nodes stay when more nodes are settled.                *)
LEMMA WaysStay ==
  ASSUME NEW S \in SUBSET Nodes, NEW T \in SUBSET Nodes, S \subseteq T, NEW n \in Nodes
  PROVE  Cardinality(S \ {n}) <= Cardinality(T \ {n})
PROOF
  <1>1. IsFiniteSet(T \ {n}) /\ S \ {n} \subseteq T \ {n}
    BY LengthsAssumption, FS_Subset
  <1> QED
    BY <1>1, FS_Subset

-----------------------------------------------------------------------------
(* Roads: the next entry                                                    *)

(* The graph stays.                                                         *)
LEMMA SameGraph ==
  ASSUME length' = length
  PROVE  /\ \A m, n : Length(m, n)' = Length(m, n)
         /\ Within' = Within
         /\ MostEdges' = MostEdges
         /\ GraphTyped' = GraphTyped
PROOF
  <1>1. \A m, n : Length(m, n)' = Length(m, n)
    BY DEF Length
  <1> QED
    BY <1>1 DEF Within, Length, Plus, MostEdges, GraphTyped

LEMMA PopStep ==
  ASSUME SearchInvariant, Pop
  PROVE  SearchInvariant'
PROOF
  <1>1. result = Searching /\ out = {} /\ pending # {}
    BY DEF Pop
  <1>2. /\ SearchTyped
        /\ HeapStands(pending, best, sequence, cost)
        /\ SettledStand(pending, best, cost, node, out)
        /\ WaysStand(pending, best)
    BY <1>1 DEF SearchInvariant
  <1>3. Top \in pending /\ \A q \in pending : Top[1] <= q[1]
    BY <1>1, <1>2, TopIs
  <1> DEFINE c == Top[1]
             n == Top[3]
  <1>4. /\ c \in Nat /\ n \in Nodes /\ n \in DOMAIN best /\ best[n] <= c /\ best[n] \in Nat
        /\ cost \in Nat /\ cost <= c
    BY <1>2, <1>3 DEF SearchTyped, HeapStands
  <1>5. /\ pending' = pending \ {Top} /\ cost' = c /\ node' = n
        /\ UNCHANGED <<length, best, sequence>>
    BY DEF Pop
  <1>6. /\ GraphTyped /\ GraphTyped' /\ Within' = Within
        /\ \A h, m : Length(h, m)' = Length(h, m)
    BY <1>2, <1>5, SameGraph DEF SearchTyped
  <1>7. CASE c # best[n]
    <2>1. out' = {} /\ result' = Searching
      BY <1>1, <1>7 DEF Pop
    <2>2. Settled(pending \ {Top}, best) = Settled(pending, best)
      BY <1>7 DEF Settled
    <2>3. SearchTyped'
      BY <1>2, <1>4, <1>5, <1>6, <2>1 DEF SearchTyped
    <2>4. HeapStands(pending, best, sequence, cost)'
      BY <1>2, <1>3, <1>5 DEF HeapStands
    <2>5. SettledStand(pending, best, cost, node, out)'
      <3>1. \A m \in Settled(pending, best) : best[m] <= c
        BY <1>2, <1>4 DEF SettledStand, SearchTyped, Settled
      <3> QED
        BY <1>1, <1>2, <1>5, <1>6, <2>1, <2>2, <3>1 DEF SettledStand
    <2>6. WaysStand(pending, best)'
      BY <1>2, <1>5, <1>6, <2>2 DEF WaysStand, MostEdges
    <2>7. ShortestFound'
      BY <2>1 DEF ShortestFound, Searching, NoRoute, Domain
    <2> QED
      BY <2>3, <2>4, <2>5, <2>6, <2>7 DEF SearchInvariant
  <1>8. CASE c = best[n] /\ n = End
    <2>1. result' = Ok(c)
      BY <1>8, <1>5 DEF Pop
    <2>2. PICK k \in 0 .. MostEdges : Within[k][n] # NoEdge /\ Within[k][n] <= c
      BY <1>2, <1>4, <1>8 DEF WaysStand
    <2>3. /\ Within[MostEdges][n] \in Nat /\ Within[MostEdges][n] # NoEdge
          /\ Within[MostEdges][n] <= Within[k][n] /\ Within[k][n] \in Nat
      BY <1>4, <1>6, <2>2, WithinFalls
    <2>4. Within[MostEdges][n] < c => best[n] <= Within[MostEdges][n]
      BY <1>1, <1>2, <1>3, <1>4, <2>3, BelowIsKnown
    <2>5. Within[MostEdges][n] = c
      BY <1>4, <1>8, <2>2, <2>3, <2>4
    <2>6. Distance = c /\ Distance' = Distance
      BY <1>6, <1>8, <2>5 DEF Distance, MostEdges
    <2> QED
      BY <2>1, <2>6 DEF SearchInvariant, ShortestFound, Ok, Searching, NoRoute, Domain
  <1>9. CASE c = best[n] /\ n # End
    <2>1. out' = {m \in Nodes : Length(n, m) # NoEdge} /\ result' = Searching
      BY <1>1, <1>9 DEF Pop
    <2>2. Settled(pending \ {Top}, best) = Settled(pending, best) \cup {n}
      <3>1. \A p \in pending : p[3] = n /\ p[1] = c => p = Top
        BY <1>2, <1>3 DEF HeapStands
      <3> QED
        BY <1>3, <1>4, <1>9, <3>1 DEF Settled
    <2>3. SearchTyped'
      BY <1>2, <1>4, <1>5, <1>6, <2>1 DEF SearchTyped
    <2>4. HeapStands(pending, best, sequence, cost)'
      BY <1>2, <1>3, <1>5 DEF HeapStands
    <2>5. SettledStand(pending, best, cost, node, out)'
      <3>1. \A m \in Settled(pending, best) \cup {n} : best[m] <= c
        BY <1>2, <1>4 DEF SettledStand, SearchTyped, Settled
      <3> DEFINE T == Settled(pending, best) \cup {n}
      <3>2. \A m \in T, h \in Nodes :
              Length(m, h) # NoEdge /\ ~ (m = n /\ h \in out') =>
                h \in DOMAIN best /\ best[h] <= best[m] + Length(m, h)
        BY <1>1, <1>2, <2>1 DEF SettledStand
      <3>3. Start \in DOMAIN best /\ best[Start] = 0 /\ End \notin T
        BY <1>2, <1>9 DEF SettledStand
      <3>4. Settled(pending, best)' = T
        BY <1>5, <2>2 DEF Settled
      <3>5. \A m \in out' : Length(n, m) # NoEdge
        BY <2>1
      <3>6. n \in T
        OBVIOUS
      <3> HIDE DEF T, c, n
      <3> QED
        BY <1>5, <1>6, <1>9, <3>1, <3>2, <3>3, <3>4, <3>5, <3>6 DEF SettledStand, T
    <2>6. WaysStand(pending, best)'
      <3> DEFINE S == Settled(pending, best)
                 T == Settled(pending, best) \cup {n}
      <3>1. S \in SUBSET Nodes /\ T \in SUBSET Nodes /\ S \subseteq T
        BY <1>2, <1>4 DEF Settled, SearchTyped
      <3>2. ASSUME NEW m \in DOMAIN best
            PROVE  \E k \in 0 .. MostEdges : /\ k <= Cardinality(T \ {m})
                                             /\ Within[k][m] # NoEdge /\ Within[k][m] <= best[m]
        <4>1. m \in Nodes
          BY <1>2 DEF SearchTyped
        <4>2. PICK k \in 0 .. MostEdges : /\ k <= Cardinality(S \ {m})
                                          /\ Within[k][m] # NoEdge /\ Within[k][m] <= best[m]
          BY <1>2 DEF WaysStand
        <4>3. Cardinality(S \ {m}) <= Cardinality(T \ {m})
          BY <3>1, <4>1, WaysStay
        <4>4. Cardinality(S \ {m}) \in Nat /\ Cardinality(T \ {m}) \in Nat
          BY <3>1, <4>1, FewerThanNodes
        <4>5. k <= Cardinality(T \ {m})
          BY <4>2, <4>3, <4>4
        <4> QED
          BY <4>2, <4>5
      <3>3. Settled(pending, best)' = T
        BY <1>5, <2>2 DEF Settled
      <3> HIDE DEF S, T
      <3> QED
        BY <1>5, <1>6, <3>2, <3>3 DEF WaysStand, MostEdges
    <2>7. ShortestFound'
      BY <2>1 DEF ShortestFound, Searching, NoRoute, Domain
    <2> QED
      BY <2>3, <2>4, <2>5, <2>6, <2>7 DEF SearchInvariant
  <1> QED
    BY <1>7, <1>8, <1>9

-----------------------------------------------------------------------------
(* Roads: an edge                                                           *)

LEMMA RelaxStep ==
  ASSUME SearchInvariant, NEW n \in Nodes, Relax(n)
  PROVE  SearchInvariant'
PROOF
  <1> DEFINE c == cost + Length(node, n)
             S == Settled(pending, best)
  <1>1. /\ result = Searching /\ n \in out /\ out' = out \ {n}
        /\ UNCHANGED <<length, node, cost>>
    BY DEF Relax
  <1>2. /\ SearchTyped
        /\ HeapStands(pending, best, sequence, cost)
        /\ SettledStand(pending, best, cost, node, out)
        /\ WaysStand(pending, best)
    BY <1>1 DEF SearchInvariant
  <1>3. /\ GraphTyped /\ GraphTyped' /\ Within' = Within
        /\ \A h, m : Length(h, m)' = Length(h, m)
    BY <1>1, <1>2, SameGraph DEF SearchTyped
  <1>4. /\ node \in Nodes /\ node \in S /\ node \in DOMAIN best /\ best[node] = cost /\ cost \in Nat
        /\ Length(node, n) # NoEdge
    BY <1>1, <1>2 DEF SettledStand, SearchTyped, Settled
  <1>5. Length(node, n) \in Nat /\ c \in Nat /\ cost <= c
    BY <1>3, <1>4, LengthTyped
  <1>6. S \in SUBSET Nodes /\ \A m \in DOMAIN best : best[m] \in Nat
    BY <1>2 DEF Settled, SearchTyped
  <1>7. CASE c >= Overflow
    <2>1. result' = Domain /\ best' = best
      BY <1>7 DEF Relax
    <2>2. \E h, m \in Nodes : h \in DOMAIN best' /\ best'[h] + Length(h, m)' >= Overflow
      BY <1>3, <1>4, <1>7, <2>1
    <2> QED
      BY <2>1, <2>2 DEF SearchInvariant, ShortestFound, Searching, NoRoute, Domain
  <1>8. CASE ~ (c >= Overflow) /\ ~ Improves(n, c)
    <2>1. UNCHANGED <<result, pending, best, sequence>>
      BY <1>8 DEF Relax
    <2>2. n \in DOMAIN best /\ best[n] <= best[node] + Length(node, n)
      BY <1>4, <1>5, <1>6, <1>8 DEF Improves
    <2>3. SearchTyped'
      BY <1>1, <1>2, <1>3, <2>1 DEF SearchTyped
    <2>4. HeapStands(pending, best, sequence, cost)'
      BY <1>1, <1>2, <2>1 DEF HeapStands
    <2>5. SettledStand(pending, best, cost, node, out)'
      <3>1. S' = S
        BY <2>1 DEF Settled
      <3>2. \A m \in S, h \in Nodes :
              Length(m, h) # NoEdge /\ ~ (m = node /\ h \in out') =>
                h \in DOMAIN best /\ best[h] <= best[m] + Length(m, h)
        BY <1>1, <1>2, <2>2 DEF SettledStand
      <3> QED
        BY <1>1, <1>2, <1>3, <1>4, <2>1, <3>1, <3>2 DEF SettledStand
    <2>6. WaysStand(pending, best)'
      BY <1>2, <1>3, <2>1 DEF WaysStand, Settled, MostEdges
    <2>7. ShortestFound'
      BY <1>1, <2>1 DEF ShortestFound, Searching, NoRoute, Domain
    <2> QED
      BY <2>3, <2>4, <2>5, <2>6, <2>7 DEF SearchInvariant
  <1>9. CASE ~ (c >= Overflow) /\ Improves(n, c)
    <2>1. Entered(n, c) /\ result' = Searching
      BY <1>1, <1>9 DEF Relax
    <2> DEFINE entry == <<c, sequence + 1, n>>
    <2>2. /\ DOMAIN best' = DOMAIN best \cup {n} /\ best'[n] = c
          /\ best' = [m \in DOMAIN best' |-> best'[m]]
          /\ \A m \in DOMAIN best \ {n} : best'[m] = best[m]
          /\ sequence' = sequence + 1 /\ pending' = pending \cup {entry}
      BY <2>1 DEF Entered
    <2>3. n \in DOMAIN best => c < best[n]
      BY <1>9 DEF Improves
    <2>4. n \notin S /\ n # node /\ n # Start
      BY <1>2, <1>4, <1>5, <1>6, <2>3 DEF SettledStand, Settled
    <2>5. SearchTyped'
      <3>1. \A m \in DOMAIN best' : best'[m] \in Nat
        BY <1>5, <1>6, <2>2
      <3>2. pending' \subseteq Nat \X Nat \X Nodes /\ sequence' \in Nat
        BY <1>2, <1>5, <2>2 DEF SearchTyped
      <3> QED
        BY <1>1, <1>2, <1>3, <2>2, <3>1, <3>2 DEF SearchTyped
    <2>6. HeapStands(pending, best, sequence, cost)'
      <3>1. entry[1] = c /\ entry[2] = sequence + 1 /\ entry[3] = n
        OBVIOUS
      <3>2. \A p \in pending : /\ p[1] \in Nat /\ p[2] \in Nat /\ sequence \in Nat
                               /\ p[2] <= sequence /\ cost <= p[1]
                               /\ p[3] \in DOMAIN best /\ best[p[3]] <= p[1]
        BY <1>2 DEF SearchTyped, HeapStands
      <3>3. \A p \in pending : p[2] # sequence + 1 /\ (p[3] = n => c < p[1])
        BY <1>5, <1>6, <2>3, <3>2
      <3>4. \A p \in pending : p[2] <= sequence' /\ p[3] \in DOMAIN best' /\ best'[p[3]] <= p[1]
        BY <1>5, <2>2, <3>2, <3>3
      <3>5. entry[2] <= sequence' /\ best'[entry[3]] <= entry[1] /\ entry[3] \in DOMAIN best'
        BY <1>2, <1>5, <2>2, <3>1 DEF SearchTyped
      <3> HIDE DEF entry, c
      <3>6. \A p \in pending : p[2] # entry[2] /\ ~ (p[3] = entry[3] /\ p[1] = entry[1])
        BY <1>5, <3>1, <3>2, <3>3
      <3> QED
        BY <1>1, <1>2, <1>5, <2>2, <3>1, <3>2, <3>4, <3>5, <3>6 DEF HeapStands
    <2>7. Settled(pending, best)' = S
      <3>1. entry[1] = c /\ entry[3] = n /\ entry \in pending'
        BY <2>2
      <3>2. n \notin Settled(pending, best)'
        BY <2>2, <3>1 DEF Settled
      <3> HIDE DEF entry, c
      <3>3. \A m \in DOMAIN best \ {n} : m \in Settled(pending, best)' <=> m \in S
        BY <2>2, <3>1 DEF Settled
      <3>4. Settled(pending, best)' \subseteq DOMAIN best \cup {n} /\ S \subseteq DOMAIN best
        BY <2>2 DEF Settled
      <3> HIDE DEF S
      <3> QED
        BY <2>4, <3>2, <3>3, <3>4
    <2>8. SettledStand(pending, best, cost, node, out)'
      <3>1. \A m \in S : m \in DOMAIN best /\ m # n /\ best'[m] = best[m]
        BY <2>2, <2>4 DEF Settled
      <3>2. ASSUME NEW m \in S, NEW h \in Nodes, Length(m, h) # NoEdge, ~ (m = node /\ h \in out')
            PROVE  h \in DOMAIN best' /\ best'[h] <= best[m] + Length(m, h)
        <4>1. CASE m = node /\ h = n
          BY <1>4, <1>5, <2>2, <4>1
        <4>2. CASE ~ (m = node /\ h = n)
          <5>1. h \in DOMAIN best /\ best[h] <= best[m] + Length(m, h)
            BY <1>1, <1>2, <3>2, <4>2 DEF SettledStand
          <5>2. best[m] \in Nat /\ Length(m, h) \in Nat /\ best[h] \in Nat
            BY <1>3, <1>6, <3>1, <3>2, <5>1, LengthTyped
          <5> QED
            BY <1>5, <2>2, <2>3, <5>1, <5>2
        <4> QED
          BY <4>1, <4>2
      <3>3. Start \in DOMAIN best' /\ best'[Start] = 0
        BY <1>2, <2>2, <2>4 DEF SettledStand
      <3>4. End \notin S /\ \A m \in S : best'[m] <= cost
        BY <1>2, <3>1 DEF SettledStand
      <3>5. \A h \in out' : Length(node, h) # NoEdge
        BY <1>1, <1>2 DEF SettledStand
      <3> HIDE DEF S
      <3> QED
        BY <1>1, <1>3, <1>4, <2>7, <3>1, <3>2, <3>3, <3>4, <3>5 DEF SettledStand
    <2>9. WaysStand(pending, best)'
      <3>1. ASSUME NEW m \in DOMAIN best \ {n}
            PROVE  \E k \in 0 .. MostEdges : /\ k <= Cardinality(S \ {m})
                                             /\ Within[k][m] # NoEdge /\ Within[k][m] <= best'[m]
        BY <1>2, <2>2 DEF WaysStand
      <3>2. \E k \in 0 .. MostEdges : /\ k <= Cardinality(S \ {n})
                                      /\ Within[k][n] # NoEdge /\ Within[k][n] <= c
        <4>1. PICK k \in 0 .. MostEdges : /\ k <= Cardinality(S \ {node})
                                          /\ Within[k][node] # NoEdge /\ Within[k][node] <= cost
          BY <1>2, <1>4 DEF WaysStand
        <4>2. /\ Cardinality(S \ {node}) = Cardinality(S) - 1 /\ Cardinality(S) \in Nat
              /\ Cardinality(S \ {n}) = Cardinality(S) /\ Cardinality(S \ {n}) <= MostEdges
          BY <1>4, <1>6, <2>4, FewerThanNodes
        <4>3. /\ k + 1 \in 1 .. MostEdges /\ k + 1 \in 0 .. MostEdges
              /\ (k + 1) - 1 = k /\ k + 1 <= Cardinality(S \ {n})
          BY <4>1, <4>2, MostEdgesNatural
        <4>4. Within[k] \in WayLengths /\ Within[k + 1] \in WayLengths
              /\ Within[k + 1][n] = Onward(Within[k], n)
          BY <1>3, <4>3, WithinIs
        <4>5. Within[k + 1][n] # NoEdge /\ Within[k + 1][n] <= Within[k][node] + Length(node, n)
          BY <1>3, <1>4, <2>4, <4>1, <4>4, OnwardIs
        <4>6. Within[k + 1][n] \in Nat /\ Within[k][node] \in Nat
          BY <1>4, <4>1, <4>4, <4>5 DEF WayLengths
        <4>7. Within[k + 1][n] <= c
          BY <1>4, <1>5, <4>1, <4>5, <4>6
        <4> QED
          BY <4>3, <4>5, <4>7
      <3> HIDE DEF S, c
      <3> QED
        BY <1>3, <2>2, <2>7, <3>1, <3>2 DEF WaysStand, MostEdges
    <2>10. ShortestFound'
      BY <2>1 DEF ShortestFound, Searching, NoRoute, Domain
    <2> QED
      BY <2>1, <2>5, <2>6, <2>8, <2>9, <2>10 DEF SearchInvariant
  <1> QED
    BY <1>7, <1>8, <1>9

LEMMA ExhaustedStep ==
  ASSUME SearchInvariant, Exhausted
  PROVE  SearchInvariant'
PROOF
  <1>1. result = Searching /\ out = {} /\ pending = {} /\ result' = NoRoute /\ length' = length
    BY DEF Exhausted
  <1>2. /\ SearchTyped
        /\ HeapStands(pending, best, sequence, cost)
        /\ SettledStand(pending, best, cost, node, out)
    BY <1>1 DEF SearchInvariant
  <1>3. End \in Nodes /\ GraphTyped
    BY <1>2, LengthsAssumption DEF SearchTyped
  <1>4. Distance = Within[MostEdges][End]
    BY DEF Distance, MostEdges
  <1>5. SUFFICES ASSUME Distance # NoEdge PROVE FALSE
    <2>1. Distance' = Distance
      BY <1>1, SameGraph DEF Distance, MostEdges
    <2> QED
      BY <1>1, <2>1 DEF SearchInvariant, ShortestFound, NoRoute, Searching, Domain
  <1>6. Within[MostEdges][End] \in Nat
    BY <1>3, <1>4, <1>5, WithinIs, MostEdgesNatural DEF WayLengths
  <1> DEFINE c == Within[MostEdges][End] + 1
  <1>7. c \in Nat /\ Within[MostEdges][End] < c /\ \A p \in pending : c <= p[1]
    BY <1>1, <1>6
  <1>8. End \in DOMAIN best
    <2> HIDE DEF c
    <2> QED
      BY <1>1, <1>2, <1>3, <1>4, <1>5, <1>7, BelowIsKnown
  <1> QED
    BY <1>1, <1>2, <1>8 DEF SettledStand, Settled

(* For every graph, what the search answers is the least length of a way,   *)
(* or that there is none, or that a sum is not finite where one is not      *)
(* (DirectedRoadProvider._distance).                                        *)
THEOREM RoadsAreShortest == SearchSpec => []ShortestFound
PROOF
  <1>1. SearchInit => SearchInvariant
    BY SearchInvariantInit
  <1>2. SearchInvariant /\ [SearchNext]_searchVars => SearchInvariant'
    <2> SUFFICES ASSUME SearchInvariant, [SearchNext]_searchVars
                 PROVE  SearchInvariant'
      OBVIOUS
    <2>1. CASE Pop
      BY <2>1, PopStep
    <2>2. ASSUME NEW n \in Nodes, Relax(n) PROVE SearchInvariant'
      BY <2>2, RelaxStep
    <2>3. CASE Exhausted
      BY <2>3, ExhaustedStep
    <2>4. CASE UNCHANGED searchVars
      <3>1. /\ length' = length /\ pending' = pending /\ best' = best /\ sequence' = sequence
            /\ node' = node /\ cost' = cost /\ out' = out /\ result' = result
        BY <2>4 DEF searchVars
      <3>2. /\ Within' = Within /\ GraphTyped' = GraphTyped
            /\ \A h, m : Length(h, m)' = Length(h, m)
        BY <3>1, SameGraph
      <3>3. /\ SearchTyped' = SearchTyped
            /\ HeapStands(pending, best, sequence, cost)' = HeapStands(pending, best, sequence, cost)
        BY <3>1, <3>2 DEF SearchTyped, HeapStands
      <3>4. SettledStand(pending, best, cost, node, out)' = SettledStand(pending, best, cost, node, out)
        BY <3>1, <3>2 DEF SettledStand, Settled
      <3>5. WaysStand(pending, best)' = WaysStand(pending, best)
        BY <3>1, <3>2 DEF WaysStand, Settled, MostEdges
      <3>6. ShortestFound' = ShortestFound
        BY <3>1, <3>2 DEF ShortestFound, Distance
      <3> QED
        BY <3>1, <3>3, <3>4, <3>5, <3>6 DEF SearchInvariant
    <2> QED
      BY <2>1, <2>2, <2>3, <2>4 DEF SearchNext
  <1>3. SearchInvariant => ShortestFound
    BY DEF SearchInvariant
  <1> QED
    BY <1>1, <1>2, <1>3, PTL DEF SearchSpec

-----------------------------------------------------------------------------
(* Terms: least elements                                                    *)

(* A finite set with a strict order has an element that nothing precedes.   *)
LEMMA LeastElement ==
  ASSUME NEW S, IsFiniteSet(S), S # {}, NEW R,
         \A a, b, c \in S : <<a, b>> \in R /\ <<b, c>> \in R => <<a, c>> \in R,
         \A a \in S : <<a, a>> \notin R
  PROVE  \E m \in S : \A a \in S : <<a, m>> \notin R
PROOF
  <1> DEFINE Below(m) == {a \in S : <<a, m>> \in R}
             sizes == {Cardinality(Below(m)) : m \in S}
  <1>1. \A m \in S : IsFiniteSet(Below(m)) /\ Cardinality(Below(m)) \in Nat
    <2> TAKE m \in S
    <2>1. Below(m) \in SUBSET S
      OBVIOUS
    <2> HIDE DEF Below
    <2>2. \A B \in SUBSET S : IsFiniteSet(B)
      BY FS_Subset
    <2>3. \A B : IsFiniteSet(B) => Cardinality(B) \in Nat
      BY FS_CardinalityType
    <2> QED
      BY <2>1, <2>2, <2>3
  <1>2. sizes \in SUBSET Nat /\ sizes # {}
    <2> HIDE DEF Below
    <2> QED
      BY <1>1
  <1>3. PICK n \in sizes : \A k \in sizes : n <= k
    <2> HIDE DEF sizes
    <2> QED
      BY <1>2, LeastNatural
  <1>4. PICK m \in S : n = Cardinality(Below(m))
    BY <1>3
  <1>5. ASSUME NEW a \in S, <<a, m>> \in R PROVE FALSE
    <2>1. Below(a) \in SUBSET Below(m) /\ a \in Below(m) /\ a \notin Below(a)
      BY <1>5
    <2>2. Cardinality(Below(a)) <= Cardinality(Below(m)) /\ Cardinality(Below(a)) # Cardinality(Below(m))
      <3> DEFINE A == Below(a)
                 B == Below(m)
      <3>1. A \in SUBSET B /\ A # B /\ IsFiniteSet(B)
        BY <1>1, <2>1
      <3> HIDE DEF A, B
      <3>2. Cardinality(A) <= Cardinality(B) /\ Cardinality(A) # Cardinality(B)
        BY <3>1, FS_Subset
      <3> QED
        BY <3>2 DEF A, B
    <2>3. n <= Cardinality(Below(a))
      <3>1. Cardinality(Below(a)) \in sizes
        OBVIOUS
      <3> HIDE DEF sizes, Below
      <3> QED
        BY <1>3, <3>1
    <2> HIDE DEF Below, sizes
    <2>4. Cardinality(Below(a)) \in Nat /\ Cardinality(Below(m)) \in Nat
      BY <1>1
    <2> QED
      BY <1>4, <2>2, <2>3, <2>4
  <1> QED
    BY <1>5

(* NextFree is above every id.                                              *)
LEMMA NextFreeIsAbove ==
  ASSUME NEW ids \in SUBSET Nat, IsFiniteSet(ids)
  PROVE  NextFree(ids) \in Nat \ {0} /\ \A i \in ids : i < NextFree(ids)
PROOF
  <1> DEFINE S == {0} \cup ids
             R == {p \in S \X S : p[2] < p[1]}
  <1>1. IsFiniteSet(S) /\ S # {} /\ S \subseteq Nat
    <2>1. IsFiniteSet(ids \cup {0}) /\ S = ids \cup {0}
      BY FS_AddElement
    <2> QED
      BY <2>1
  <1>2. \A a, b \in S : <<a, b>> \in R <=> b < a
    OBVIOUS
  <1>3. PICK m \in S : \A a \in S : <<a, m>> \notin R
    <2>1. \A a, b, c \in S : <<a, b>> \in R /\ <<b, c>> \in R => <<a, c>> \in R
      BY <1>1, <1>2
    <2>2. \A a \in S : <<a, a>> \notin R
      BY <1>1, <1>2
    <2> HIDE DEF S, R
    <2> QED
      BY <1>1, <2>1, <2>2, LeastElement
  <1> HIDE DEF S, R
  <1>4. \A a \in S : m >= a
    <2> TAKE a \in S
    <2>1. ~(m < a) /\ m \in Nat /\ a \in Nat
      BY <1>1, <1>2, <1>3
    <2> QED
      BY <2>1
  <1>5. Max(S) \in S /\ \A a \in S : Max(S) >= a
    <2>1. Max(S) = CHOOSE x \in S : \A y \in S : x >= y
      BY DEF Max
    <2> QED
      BY <1>4, <2>1
  <1>6. Max(S) \in Nat /\ \A i \in ids : i <= Max(S)
    <2>1. \A i \in ids : i \in S
      BY DEF S
    <2> QED
      BY <1>1, <1>5, <2>1
  <1>7. NextFree(ids) = Max(S) + 1
    BY DEF NextFree, S
  <1> QED
    BY <1>6, <1>7

-----------------------------------------------------------------------------
(* Terms: the memo                                                          *)

Results == {e \in Scalars \X Scalars : e[2] = Operation(e[1])}

(* What is recalled is what the operation gives.                            *)
LEMMA ResultIs ==
  ASSUME NEW memo \in Seq(Results), NEW v \in Scalars
  PROVE  ResultOf(memo, v) = Operation(v)
PROOF
  <1>1. v # NoValue
    BY ScalarsAssumption
  <1>2. CASE Recalled(memo, v) = {}
    BY <1>1, <1>2 DEF ResultOf
  <1>3. CASE Recalled(memo, v) # {}
    <2>1. PICK k : k = (CHOOSE i \in Recalled(memo, v) : TRUE)
      OBVIOUS
    <2>2. k \in Recalled(memo, v)
      BY <1>3, <2>1
    <2>3. k \in 1 .. Len(memo) /\ memo[k][1] = v
      BY <2>2 DEF Recalled
    <2>4. memo[k] \in Results
      BY <2>3
    <2>5. memo[k][2] = Operation(v)
      BY <2>3, <2>4 DEF Results
    <2> QED
      BY <1>1, <1>3, <2>1, <2>5 DEF ResultOf
  <1> QED
    BY <1>2, <1>3

(* Remembering keeps results of the operation.                              *)
LEMMA RememberedKeeps ==
  ASSUME NEW memo \in Seq(Results), NEW v, NEW r, <<v, r>> \in Results
  PROVE  Remembered(memo, v, r) \in Seq(Results)
PROOF
  <1> DEFINE k == CHOOSE i \in Recalled(memo, v) : TRUE
             others == IF Recalled(memo, v) = {} THEN memo ELSE RemoveAt(memo, k)
             room == IF Len(others) >= MemoCapacity /\ others # <<>> THEN Tail(others) ELSE others
  <1>1. others \in Seq(Results)
    <2>1. Recalled(memo, v) # {} => k \in 1 .. Len(memo)
      BY DEF Recalled
    <2> HIDE DEF k
    <2>2. Recalled(memo, v) # {} => RemoveAt(memo, k) \in Seq(Results)
      BY <2>1, Removed
    <2> QED
      BY <2>2
  <1> HIDE DEF others
  <1>2. room \in Seq(Results)
    BY <1>1
  <1> HIDE DEF room
  <1>3. Append(room, <<v, r>>) \in Seq(Results) /\ <<>> \in Seq(Results)
    BY <1>2
  <1>4. Remembered(memo, v, r) = IF MemoCapacity = 0 THEN <<>> ELSE Append(room, <<v, r>>)
    BY DEF Remembered, others, room
  <1> QED
    BY <1>3, <1>4

-----------------------------------------------------------------------------
(* Terms: the table                                                         *)

IdsOfTerms(terms) == {IdOf(t) : t \in terms}
ValuesOfTerms(terms) == {Decode(t) : t \in {u \in terms : Decode(u) # NoValue}}

(* The declared terms have their ids; every other id is the one of its      *)
(* value, for which no declared term is written.                            *)
DeclaredStand(table, terms) ==
  /\ \A t \in terms : IdOf(t) \in DOMAIN table.terms /\ table.terms[IdOf(t)] = Declaration(t)
  /\ table.orders = [v \in ValuesOfTerms(terms) |-> OrderOf(Canonical(v))]
GeneratedStand(table, terms) ==
  \A i \in DOMAIN table.terms \ IdsOfTerms(terms) :
    /\ table.terms[i] = Generated(table, table.terms[i].value)
    /\ table.terms[i].value \in DOMAIN table.canonical /\ table.canonical[table.terms[i].value] = i
CanonicalStand(table, terms) ==
  /\ \A v \in DOMAIN table.canonical :
       /\ v \in Scalars /\ table.canonical[v] \in DOMAIN table.terms
       /\ Canonical(v) \in terms => table.canonical[v] = IdOf(Canonical(v))
       /\ Canonical(v) \notin terms => table.canonical[v] \notin IdsOfTerms(terms) /\ table.terms[table.canonical[v]].value = v
  /\ \A v \in Scalars : Canonical(v) \in terms => v \in DOMAIN table.canonical
TableStands(table, terms) ==
  /\ table = [terms |-> table.terms, canonical |-> table.canonical, orders |-> table.orders, next |-> table.next]
  /\ table.next \in Nat \ {0} /\ \A i \in DOMAIN table.terms : i \in Nat /\ i < table.next
  /\ DeclaredStand(table, terms) /\ GeneratedStand(table, terms) /\ CanonicalStand(table, terms)

(* The table of declared terms stands.                                      *)
LEMMA TableOfStands ==
  ASSUME NEW terms \in SUBSET Literals, IsFiniteSet(terms)
  PROVE  TableStands(TableOf(terms), terms)
PROOF
  <1> DEFINE table == TableOf(terms)
             valued == {t \in terms : Decode(t) # NoValue}
             canonical == {t \in valued : t = Canonical(Decode(t))}
  <1>1. /\ table = [terms |-> table.terms, canonical |-> table.canonical, orders |-> table.orders, next |-> table.next]
        /\ table.terms = [i \in IdsOfTerms(terms) |-> Declaration(CHOOSE t \in terms : IdOf(t) = i)]
        /\ table.canonical = [v \in {Decode(t) : t \in canonical} |-> IdOf(Canonical(v))]
        /\ table.orders = [v \in ValuesOfTerms(terms) |-> OrderOf(Canonical(v))]
        /\ table.next = NextFree(IdsOfTerms(terms))
    BY DEF TableOf, IdsOfTerms, ValuesOfTerms
  <1> HIDE DEF table
  <1>2. table.next \in Nat \ {0} /\ \A i \in DOMAIN table.terms : i \in Nat /\ i < table.next
    <2>1. IdsOfTerms(terms) \in SUBSET Nat
      BY LiteralsAssumption DEF IdsOfTerms
    <2>2. IsFiniteSet(IdsOfTerms(terms))
      <3> DEFINE f == [i \in IdsOfTerms(terms) |-> CHOOSE t \in terms : IdOf(t) = i]
      <3>1. \A i \in IdsOfTerms(terms) : f[i] \in terms /\ IdOf(f[i]) = i
        BY DEF IdsOfTerms
      <3> HIDE DEF f
      <3>2. f \in [IdsOfTerms(terms) -> terms]
        BY <3>1 DEF f
      <3>3. f \in Injection(IdsOfTerms(terms), terms)
        BY <3>1, <3>2 DEF Injection, IsInjective
      <3> QED
        BY <3>3, FS_Injection
    <2>3. NextFree(IdsOfTerms(terms)) \in Nat \ {0} /\ \A i \in IdsOfTerms(terms) : i < NextFree(IdsOfTerms(terms))
      BY <2>1, <2>2, NextFreeIsAbove
    <2> QED
      BY <1>1, <2>1, <2>3
  <1>3. DeclaredStand(table, terms)
    <2> SUFFICES ASSUME NEW t \in terms
                 PROVE  IdOf(t) \in DOMAIN table.terms /\ table.terms[IdOf(t)] = Declaration(t)
      BY <1>1 DEF DeclaredStand
    <2>1. IdOf(t) \in IdsOfTerms(terms)
      BY DEF IdsOfTerms
    <2>2. (CHOOSE u \in terms : IdOf(u) = IdOf(t)) = t
      BY LiteralsAssumption
    <2> QED
      BY <1>1, <2>1, <2>2
  <1>4. GeneratedStand(table, terms)
    BY <1>1 DEF GeneratedStand
  <1>5. CanonicalStand(table, terms)
    <2>1. ASSUME NEW v \in DOMAIN table.canonical
          PROVE  /\ v \in Scalars /\ table.canonical[v] \in DOMAIN table.terms
                 /\ Canonical(v) \in terms /\ table.canonical[v] = IdOf(Canonical(v))
      <3>1. PICK t \in canonical : v = Decode(t)
        BY <1>1
      <3>2. t \in terms /\ t = Canonical(v) /\ v \in Scalars
        BY <3>1, LiteralsAssumption
      <3>3. table.canonical[v] = IdOf(Canonical(v))
        BY <1>1
      <3>4. IdOf(Canonical(v)) \in IdsOfTerms(terms)
        BY <3>2 DEF IdsOfTerms
      <3> QED
        BY <1>1, <3>2, <3>3, <3>4
    <2>2. ASSUME NEW v \in Scalars, Canonical(v) \in terms
          PROVE  v \in DOMAIN table.canonical
      <3>1. Decode(Canonical(v)) = v /\ v # NoValue
        BY ScalarsAssumption
      <3>2. Canonical(v) \in canonical
        BY <2>2, <3>1
      <3> QED
        BY <1>1, <3>1, <3>2
    <2> HIDE DEF canonical
    <2> QED
      BY <2>1, <2>2 DEF CanonicalStand
  <1> QED
    BY <1>1, <1>2, <1>3, <1>4, <1>5 DEF TableStands, table

(* What the table gains when a value is given an id.                        *)
LEMMA InterningIs ==
  ASSUME NEW table, NEW v, NEW new, new = IdForValue(table, v), new \notin DOMAIN table.terms
  PROVE  LET next == Interning(table, v) IN
         /\ next = [terms |-> next.terms, canonical |-> next.canonical, orders |-> table.orders, next |-> table.next + 1]
         /\ DOMAIN next.terms = DOMAIN table.terms \cup {new}
         /\ \A i \in DOMAIN table.terms : next.terms[i] = table.terms[i]
         /\ next.terms[new] = Generated(table, v)
         /\ DOMAIN next.canonical = DOMAIN table.canonical \cup {v}
         /\ next.canonical[v] = new
         /\ \A w \in DOMAIN table.canonical \ {v} : next.canonical[w] = table.canonical[w]
PROOF
  <1> DEFINE terms == Adding(table.terms, new, Generated(table, v))
             canonical == Adding(table.canonical, v, new)
  <1>1. Interning(table, v)
          = [terms |-> terms, canonical |-> canonical, orders |-> table.orders, next |-> table.next + 1]
    BY DEF Interning
  <1>2. /\ DOMAIN terms = DOMAIN table.terms \cup {new}
        /\ \A i \in DOMAIN table.terms : terms[i] = table.terms[i]
        /\ terms[new] = Generated(table, v)
    BY DEF Adding
  <1>3. /\ DOMAIN canonical = DOMAIN table.canonical \cup {v}
        /\ canonical[v] = new
        /\ \A w \in DOMAIN table.canonical \ {v} : canonical[w] = table.canonical[w]
    BY DEF Adding
  <1> HIDE DEF terms, canonical
  <1> QED
    BY <1>1, <1>2, <1>3

(* A value that gets an id keeps the table standing.                        *)
LEMMA InterningStands ==
  ASSUME NEW terms \in SUBSET Literals, NEW table, TableStands(table, terms), NEW v \in Scalars
  PROVE  /\ TableStands(Interning(table, v), terms)
         /\ DOMAIN table.terms \subseteq DOMAIN Interning(table, v).terms
         /\ \A i \in DOMAIN table.terms : Interning(table, v).terms[i] = table.terms[i]
         /\ IdForValue(table, v) \in DOMAIN Interning(table, v).terms
         /\ v \in DOMAIN Interning(table, v).canonical
         /\ Interning(table, v).canonical[v] = IdForValue(table, v)
PROOF
  <1> PICK next : next = Interning(table, v)
    OBVIOUS
  <1> DEFINE new == IdForValue(table, v)
  <1>1. CASE v \in DOMAIN table.canonical
    <2>1. new = table.canonical[v] /\ new \in DOMAIN table.terms
      BY <1>1 DEF IdForValue, TableStands, CanonicalStand
    <2>2. next = table
      BY <2>1 DEF Interning
    <2> QED
      BY <1>1, <2>1, <2>2
  <1>2. CASE v \notin DOMAIN table.canonical
    <2>1. new = table.next /\ new \notin DOMAIN table.terms
      BY <1>2 DEF IdForValue, TableStands
    <2> HIDE DEF new
    <2>2. /\ next = [terms |-> next.terms, canonical |-> next.canonical, orders |-> table.orders,
                     next |-> table.next + 1]
          /\ DOMAIN next.terms = DOMAIN table.terms \cup {new}
          /\ \A i \in DOMAIN table.terms : next.terms[i] = table.terms[i]
          /\ next.terms[new] = Generated(table, v)
          /\ DOMAIN next.canonical = DOMAIN table.canonical \cup {v}
          /\ next.canonical[v] = new
          /\ \A w \in DOMAIN table.canonical \ {v} : next.canonical[w] = table.canonical[w]
      BY <2>1, InterningIs DEF new
    <2>3. next.orders = table.orders /\ next.next = table.next + 1
      BY <2>2
    <2>4. next = [terms |-> next.terms, canonical |-> next.canonical, orders |-> next.orders, next |-> next.next]
      BY <2>2, <2>3
    <2>5. next.next \in Nat \ {0} /\ \A i \in DOMAIN next.terms : i \in Nat /\ i < next.next
      <3>1. table.next \in Nat \ {0} /\ \A i \in DOMAIN table.terms : i \in Nat /\ i < table.next
        BY DEF TableStands
      <3> QED
        BY <2>1, <2>2, <2>3, <3>1
    <2>6. DeclaredStand(table, terms) /\ GeneratedStand(table, terms) /\ CanonicalStand(table, terms)
      BY DEF TableStands
    <2>7. DeclaredStand(next, terms)
      BY <2>2, <2>3, <2>6 DEF DeclaredStand
    <2>8. \A w : Generated(next, w) = Generated(table, w)
      BY <2>3 DEF Generated
    <2>9. Generated(table, v).value = v
      BY DEF Generated
    <2>10. new \notin IdsOfTerms(terms)
      BY <2>1, <2>6 DEF DeclaredStand, IdsOfTerms
    <2>11. GeneratedStand(next, terms)
      <3> SUFFICES ASSUME NEW i \in DOMAIN next.terms \ IdsOfTerms(terms)
                   PROVE  /\ next.terms[i] = Generated(next, next.terms[i].value)
                          /\ next.terms[i].value \in DOMAIN next.canonical
                          /\ next.canonical[next.terms[i].value] = i
        BY DEF GeneratedStand
      <3>1. CASE i = new
        BY <2>2, <2>8, <2>9, <3>1
      <3>2. CASE i \in DOMAIN table.terms
        <4>1. /\ table.terms[i] = Generated(table, table.terms[i].value)
              /\ table.terms[i].value \in DOMAIN table.canonical
              /\ table.canonical[table.terms[i].value] = i
          BY <2>6, <3>2 DEF GeneratedStand
        <4>2. table.terms[i].value # v
          BY <1>2, <4>1
        <4> QED
          BY <2>2, <2>8, <3>2, <4>1, <4>2
      <3> QED
        BY <2>2, <3>1, <3>2
    <2>12. CanonicalStand(next, terms)
      <3>1. Canonical(v) \notin terms
        BY <1>2, <2>6 DEF CanonicalStand
      <3>2. ASSUME NEW w \in DOMAIN next.canonical
            PROVE  /\ w \in Scalars /\ next.canonical[w] \in DOMAIN next.terms
                   /\ Canonical(w) \in terms => next.canonical[w] = IdOf(Canonical(w))
                   /\ Canonical(w) \notin terms => /\ next.canonical[w] \notin IdsOfTerms(terms)
                                                   /\ next.terms[next.canonical[w]].value = w
        <4>1. CASE w = v
          BY <2>2, <2>9, <2>10, <3>1, <4>1
        <4>2. CASE w # v
          <5>1. w \in DOMAIN table.canonical /\ next.canonical[w] = table.canonical[w]
            BY <2>2, <4>2
          <5>2. /\ w \in Scalars /\ table.canonical[w] \in DOMAIN table.terms
                /\ Canonical(w) \in terms => table.canonical[w] = IdOf(Canonical(w))
                /\ Canonical(w) \notin terms => /\ table.canonical[w] \notin IdsOfTerms(terms)
                                                /\ table.terms[table.canonical[w]].value = w
            BY <2>6, <5>1 DEF CanonicalStand
          <5> QED
            BY <2>2, <5>1, <5>2
        <4> QED
          BY <4>1, <4>2
      <3>3. \A w \in Scalars : Canonical(w) \in terms => w \in DOMAIN next.canonical
        BY <2>2, <2>6 DEF CanonicalStand
      <3> QED
        BY <3>2, <3>3 DEF CanonicalStand
    <2>13. TableStands(next, terms)
      BY <2>4, <2>5, <2>7, <2>11, <2>12 DEF TableStands
    <2> QED
      BY <2>2, <2>13 DEF new
  <1> QED
    BY <1>1, <1>2

-----------------------------------------------------------------------------
(* Terms: what an id stands for                                             *)

Written(table, terms, i) ==
  LET declared == {t \in terms : IdOf(t) = i} IN
  IF declared = {} THEN Canonical(table.terms[i].value) ELSE CHOOSE t \in declared : TRUE

(* An id stands for its declared term, else for the one of its value.       *)
LEMMA WrittenIs ==
  ASSUME NEW terms \in SUBSET Literals, NEW table, TableStands(table, terms), NEW i \in DOMAIN table.terms
  PROVE  LET t == Written(table, terms, i)
             e == table.terms[i]
         IN /\ t \in Literals /\ e.value = Decode(t) /\ e.value \in Scalars \cup {NoValue}
            /\ \/ t \in terms /\ i = IdOf(t) /\ e = Declaration(t)
               \/ /\ i \notin IdsOfTerms(terms) /\ t \notin terms /\ t = Canonical(e.value)
                  /\ e.value \in Scalars /\ e = Generated(table, e.value)
                  /\ e.value \in DOMAIN table.canonical /\ table.canonical[e.value] = i
PROOF
  <1> DEFINE t == Written(table, terms, i)
             e == table.terms[i]
             declared == {u \in terms : IdOf(u) = i}
  <1>1. CASE declared = {}
    <2>1. i \notin IdsOfTerms(terms)
      BY <1>1 DEF IdsOfTerms
    <2>2. e = Generated(table, e.value) /\ e.value \in DOMAIN table.canonical /\ table.canonical[e.value] = i
      BY <2>1 DEF TableStands, GeneratedStand
    <2>3. e.value \in Scalars
      BY <2>2 DEF TableStands, CanonicalStand
    <2>4. t = Canonical(e.value)
      BY <1>1 DEF Written
    <2>5. t \notin terms
      BY <2>1, <2>2, <2>4 DEF TableStands, CanonicalStand, IdsOfTerms
    <2>6. t \in Literals /\ Decode(t) = e.value
      BY <2>3, <2>4, ScalarsAssumption
    <2> HIDE DEF t, e
    <2>7. /\ t \in Literals /\ e.value = Decode(t) /\ e.value \in Scalars \cup {NoValue}
          /\ i \notin IdsOfTerms(terms) /\ t \notin terms /\ t = Canonical(e.value)
          /\ e.value \in Scalars /\ e = Generated(table, e.value)
          /\ e.value \in DOMAIN table.canonical /\ table.canonical[e.value] = i
      BY <2>1, <2>2, <2>3, <2>4, <2>5, <2>6
    <2> QED
      BY <2>7 DEF t, e
  <1>2. CASE declared # {}
    <2>1. t \in declared
      BY <1>2 DEF Written
    <2>2. t \in terms /\ t \in Literals /\ i = IdOf(t)
      BY <2>1
    <2>3. e = Declaration(t)
      BY <2>2 DEF TableStands, DeclaredStand
    <2>4. e.value = Decode(t)
      BY <2>3 DEF Declaration
    <2>5. Decode(t) \in Scalars \cup {NoValue}
      BY <2>2, LiteralsAssumption
    <2> HIDE DEF t, e
    <2>6. /\ t \in Literals /\ e.value = Decode(t) /\ e.value \in Scalars \cup {NoValue}
          /\ t \in terms /\ i = IdOf(t) /\ e = Declaration(t)
      BY <2>2, <2>3, <2>4, <2>5
    <2> QED
      BY <2>6 DEF t, e
  <1> QED
    BY <1>1, <1>2

(* Two ids never stand for one term.                                        *)
LEMMA WrittenOnce ==
  ASSUME NEW terms \in SUBSET Literals, NEW table, TableStands(table, terms),
         NEW i \in DOMAIN table.terms, NEW j \in DOMAIN table.terms,
         Written(table, terms, i) = Written(table, terms, j)
  PROVE  i = j
PROOF
  <1> DEFINE Stands(k, t, e) ==
               /\ t \in Literals /\ e.value = Decode(t) /\ e.value \in Scalars \cup {NoValue}
               /\ \/ t \in terms /\ k = IdOf(t) /\ e = Declaration(t)
                  \/ /\ k \notin IdsOfTerms(terms) /\ t \notin terms /\ t = Canonical(e.value)
                     /\ e.value \in Scalars /\ e = Generated(table, e.value)
                     /\ e.value \in DOMAIN table.canonical /\ table.canonical[e.value] = k
  <1>1. Stands(i, Written(table, terms, i), table.terms[i])
    BY WrittenIs
  <1>2. Stands(j, Written(table, terms, j), table.terms[j])
    BY WrittenIs
  <1> QED
    BY <1>1, <1>2

(* The declared term of an id.                                              *)
LEMMA WrittenDeclared ==
  ASSUME NEW terms \in SUBSET Literals, NEW table, TableStands(table, terms), NEW t \in terms
  PROVE  IdOf(t) \in DOMAIN table.terms /\ Written(table, terms, IdOf(t)) = t
PROOF
  <1> DEFINE declared == {u \in terms : IdOf(u) = IdOf(t)}
  <1>1. IdOf(t) \in DOMAIN table.terms
    BY DEF TableStands, DeclaredStand
  <1>2. declared = {t}
    BY LiteralsAssumption
  <1>3. Written(table, terms, IdOf(t)) \in declared
    BY <1>2 DEF Written
  <1> QED
    BY <1>1, <1>2, <1>3

(* The term of a value that has an id.                                      *)
LEMMA WrittenCanonical ==
  ASSUME NEW terms \in SUBSET Literals, NEW table, TableStands(table, terms), NEW v \in DOMAIN table.canonical
  PROVE  table.canonical[v] \in DOMAIN table.terms /\ Written(table, terms, table.canonical[v]) = Canonical(v)
PROOF
  <1>1. /\ v \in Scalars /\ table.canonical[v] \in DOMAIN table.terms
        /\ Canonical(v) \in terms => table.canonical[v] = IdOf(Canonical(v))
        /\ Canonical(v) \notin terms => /\ table.canonical[v] \notin IdsOfTerms(terms)
                                        /\ table.terms[table.canonical[v]].value = v
    BY DEF TableStands, CanonicalStand
  <1>2. CASE Canonical(v) \in terms
    BY <1>1, <1>2, WrittenDeclared
  <1>3. CASE Canonical(v) \notin terms
    <2>1. {u \in terms : IdOf(u) = table.canonical[v]} = {}
      BY <1>1, <1>3 DEF IdsOfTerms
    <2> QED
      BY <1>1, <1>3, <2>1 DEF Written
  <1> QED
    BY <1>2, <1>3

-----------------------------------------------------------------------------
(* Terms: inequality and order                                              *)

Smaller(s, t) == Decode(s) < Decode(t) \/ (Decode(s) = Decode(t) /\ OrderOf(s) < OrderOf(t))

Standing == /\ call.inputs \in InputSets
            /\ TableStands(ctx.table, TermsOf(call.inputs))

(* What terms there are.                                                    *)
LEMMA TermsAre ==
  ASSUME NEW inputs \in InputSets \cup {{}}
  PROVE  TermsOf(inputs) \in SUBSET Literals /\ IsFiniteSet(TermsOf(inputs))
PROOF
  <1>1. IsFiniteSet(inputs) /\ inputs \subseteq {"item", "other"} \X Literals
    BY InputSetsAssumption, FS_EmptySet
  <1>2. TermsOf(inputs) \in SUBSET Literals
    BY <1>1 DEF TermsOf
  <1>3. IsFiniteSet(TermsOf(inputs))
    <2> DEFINE f == [r \in inputs |-> r[2]]
    <2>1. f \in [inputs -> TermsOf(inputs)] /\ \A t \in TermsOf(inputs) : \E r \in inputs : f[r] = t
      BY DEF TermsOf
    <2> HIDE DEF f
    <2>2. f \in Surjection(inputs, TermsOf(inputs))
      BY <2>1 DEF Surjection
    <2> QED
      BY <1>1, <2>2, FS_Surjection
  <1> QED
    BY <1>2, <1>3

(* NEQ on ids is inequality of the terms' keys.                             *)
LEMMA DifferentIs ==
  ASSUME Standing, NEW i \in DOMAIN ctx.table.terms, NEW j \in DOMAIN ctx.table.terms
  PROVE  Different(i, j) <=> LiteralKey(TermOf(i)) # LiteralKey(TermOf(j))
PROOF
  <1> DEFINE terms == TermsOf(call.inputs)
             table == ctx.table
             Stands(k, t, e) ==
               /\ t \in Literals /\ e.value = Decode(t) /\ e.value \in Scalars \cup {NoValue}
               /\ \/ e = Declaration(t)
                  \/ t = Canonical(e.value) /\ e.value \in Scalars /\ e = Generated(table, e.value)
             a == table.terms[i]
             b == table.terms[j]
             s == TermOf(i)
             t == TermOf(j)
  <1>1. terms \in SUBSET Literals
    BY TermsAre DEF Standing
  <1>2. s = Written(table, terms, i) /\ t = Written(table, terms, j)
    BY DEF TermOf, Written, ScalarOf
  <1>3. Stands(i, s, a) /\ Stands(j, t, b)
    <2> HIDE DEF terms, table, s, t
    <2>1. TableStands(table, terms) /\ i \in DOMAIN table.terms /\ j \in DOMAIN table.terms
      BY DEF Standing, table, terms
    <2> QED
      BY <1>1, <1>2, <2>1, WrittenIs
  <1>4. \A x, v : (Declaration(x).generated = FALSE /\ Declaration(x).key = LiteralKey(x))
                  /\ Generated(table, v).generated = TRUE
    BY DEF Declaration, Generated
  <1>5. Different(i, j) <=> IF a.generated = FALSE /\ b.generated = FALSE THEN a.key # b.key
                            ELSE a.value = NoValue \/ b.value = NoValue \/ a.value # b.value
    <2>1. a.generated \in BOOLEAN /\ b.generated \in BOOLEAN
      BY <1>3, <1>4
    <2>2. Different(i, j) = IF ~a.generated /\ ~b.generated THEN a.key # b.key
                            ELSE a.value = NoValue \/ b.value = NoValue \/ a.value # b.value
      BY DEF Different
    <2> HIDE DEF a, b
    <2> QED
      BY <2>1, <2>2
  <1> HIDE DEF a, b, s, t, table, terms
  <1> SUFFICES Different(i, j) <=> LiteralKey(s) # LiteralKey(t)
    BY DEF s, t
  <1>6. CASE a = Declaration(s) /\ b = Declaration(t)
    BY <1>4, <1>5, <1>6
  <1>7. CASE s = Canonical(a.value) /\ a.value \in Scalars /\ a = Generated(table, a.value)
    <2>1. a.generated = TRUE /\ a.value # NoValue
      BY <1>4, <1>7, ScalarsAssumption
    <2>2. Different(i, j) <=> a.value # b.value
      BY <1>5, <2>1
    <2>3. b.value = Decode(t) /\ t \in Literals
      BY <1>3
    <2>4. LiteralKey(t) = LiteralKey(s) <=> Decode(t) = a.value
      BY <1>7, <2>3, ScalarsAssumption
    <2> QED
      BY <2>2, <2>3, <2>4
  <1>8. CASE t = Canonical(b.value) /\ b.value \in Scalars /\ b = Generated(table, b.value)
    <2>1. b.generated = TRUE /\ b.value # NoValue
      BY <1>4, <1>8, ScalarsAssumption
    <2>2. Different(i, j) <=> a.value # b.value
      BY <1>5, <2>1
    <2>3. a.value = Decode(s) /\ s \in Literals
      BY <1>3
    <2>4. LiteralKey(s) = LiteralKey(t) <=> Decode(s) = b.value
      BY <1>8, <2>3, ScalarsAssumption
    <2> QED
      BY <2>2, <2>3, <2>4
  <1> QED
    BY <1>3, <1>6, <1>7, <1>8

(* The order of MIN on ids is the order of their terms.                     *)
LEMMA PrecedesIs ==
  ASSUME Standing, NEW i \in DOMAIN ctx.table.terms, NEW j \in DOMAIN ctx.table.terms,
         ScalarOf(i) # NoValue, ScalarOf(j) # NoValue
  PROVE  /\ Precedes(i, j) <=> Smaller(TermOf(i), TermOf(j))
         /\ TermOf(i) \in Literals /\ Decode(TermOf(i)) \in Int /\ Decode(TermOf(i)) # NoValue
PROOF
  <1> DEFINE terms == TermsOf(call.inputs)
             table == ctx.table
             Stands(k, t, e) ==
               /\ t \in Literals /\ e.value = Decode(t) /\ e.value \in Scalars \cup {NoValue}
               /\ \/ t \in terms /\ k = IdOf(t) /\ e = Declaration(t)
                  \/ /\ k \notin IdsOfTerms(terms) /\ t \notin terms /\ t = Canonical(e.value)
                     /\ e.value \in Scalars /\ e = Generated(table, e.value)
                     /\ e.value \in DOMAIN table.canonical /\ table.canonical[e.value] = k
             a == table.terms[i]
             b == table.terms[j]
             s == TermOf(i)
             t == TermOf(j)
  <1>1. terms \in SUBSET Literals
    BY TermsAre DEF Standing
  <1>2. s = Written(table, terms, i) /\ t = Written(table, terms, j)
    BY DEF TermOf, Written, ScalarOf
  <1>3. Stands(i, s, a) /\ Stands(j, t, b)
    <2> HIDE DEF terms, table, s, t
    <2>1. TableStands(table, terms) /\ i \in DOMAIN table.terms /\ j \in DOMAIN table.terms
      BY DEF Standing, table, terms
    <2> QED
      BY <1>1, <1>2, <2>1, WrittenIs
  <1>4. table.orders = [v \in ValuesOfTerms(terms) |-> OrderOf(Canonical(v))]
    BY DEF Standing, TableStands, DeclaredStand
  <1>5. Precedes(i, j) <=> a.value < b.value \/ (a.value = b.value /\ a.order < b.order)
    BY DEF Precedes, ScalarOf
  <1>6. a.value # NoValue /\ b.value # NoValue
    BY DEF ScalarOf
  <1> HIDE DEF a, b, s, t, table, terms
  <1>7. /\ s \in Literals /\ t \in Literals /\ a.value = Decode(s) /\ b.value = Decode(t)
        /\ Decode(s) \in Int /\ Decode(t) \in Int /\ Decode(s) # NoValue
    BY <1>3, <1>6, ScalarsAssumption
  <1>8. \A x, v : /\ Declaration(x).order = OrderOf(x)
                  /\ Generated(table, v).order = IF v \in DOMAIN table.orders THEN table.orders[v] ELSE 0
    BY DEF Declaration, Generated
  <1>9. \A x \in terms : Decode(x) # NoValue =>
          Decode(x) \in DOMAIN table.orders /\ table.orders[Decode(x)] = OrderOf(Canonical(Decode(x)))
    BY <1>4 DEF ValuesOfTerms
  <1>10. ASSUME a.value = b.value
         PROVE  a.order < b.order <=> OrderOf(s) < OrderOf(t)
    <2>1. CASE s \in terms /\ t \in terms
      BY <1>3, <1>8, <2>1
    <2>2. CASE s \in terms /\ t \notin terms
      <3>1. a = Declaration(s) /\ b = Generated(table, b.value) /\ t = Canonical(b.value)
        BY <1>3, <2>2
      <3>2. b.value \in DOMAIN table.orders /\ table.orders[b.value] = OrderOf(Canonical(b.value))
        BY <1>6, <1>7, <1>9, <1>10, <2>2
      <3>3. b.order = OrderOf(t)
        BY <1>8, <3>1, <3>2
      <3> QED
        BY <1>8, <3>1, <3>3
    <2>3. CASE s \notin terms /\ t \in terms
      <3>1. b = Declaration(t) /\ a = Generated(table, a.value) /\ s = Canonical(a.value)
        BY <1>3, <2>3
      <3>2. a.value \in DOMAIN table.orders /\ table.orders[a.value] = OrderOf(Canonical(a.value))
        BY <1>6, <1>7, <1>9, <1>10, <2>3
      <3>3. a.order = OrderOf(s)
        BY <1>8, <3>1, <3>2
      <3> QED
        BY <1>8, <3>1, <3>3
    <2>4. CASE s \notin terms /\ t \notin terms
      <3>1. i = j /\ s = t /\ a = Generated(table, a.value) /\ s = Canonical(a.value) /\ a.value \in Scalars
        BY <1>3, <1>10, <2>4
      <3>2. a.order \in Int /\ OrderOf(s) \in Int
        <4>1. OrderOf(s) \in Int
          BY <1>7, LiteralsAssumption
        <4>2. a.value \in DOMAIN table.orders => table.orders[a.value] = OrderOf(s)
          BY <1>4, <3>1
        <4> QED
          BY <1>8, <3>1, <4>1, <4>2
      <3>3. a.order = b.order
        BY <3>1 DEF a, b
      <3> QED
        BY <3>1, <3>2, <3>3
    <2> QED
      BY <2>1, <2>2, <2>3, <2>4
  <1>11. Precedes(i, j) <=> Smaller(s, t)
    BY <1>5, <1>7, <1>10 DEF Smaller
  <1> QED
    BY <1>7, <1>11 DEF s, t

WrittenFor(ids) == {TermOf(i) : i \in ids}
LeastOf(pool) == CHOOSE i \in pool : \A j \in pool : ~Precedes(j, i)

(* The least id of a pool is the id of its least term.                      *)
LEMMA LeastIsLeast ==
  ASSUME Standing, NEW pool \in SUBSET DOMAIN ctx.table.terms, pool # {},
         \A i \in pool : ScalarOf(i) # NoValue
  PROVE  {TermOf(LeastOf(pool))} = {t \in WrittenFor(pool) : \A s \in WrittenFor(pool) : ~Smaller(s, t)}
PROOF
  <1> DEFINE m == LeastOf(pool)
             written == WrittenFor(pool)
             R == {p \in pool \X pool : Smaller(TermOf(p[1]), TermOf(p[2]))}
  <1>1. \A i, j \in pool : Precedes(i, j) <=> Smaller(TermOf(i), TermOf(j))
    BY PrecedesIs
  <1>2. \A i \in pool : TermOf(i) \in Literals /\ Decode(TermOf(i)) \in Int /\ Decode(TermOf(i)) # NoValue
    BY PrecedesIs
  <1>3. \A t \in Literals : OrderOf(t) \in Nat
    BY LiteralsAssumption
  <1>4. IsFiniteSet(pool)
    <2>1. ctx.table.next \in Nat \ {0} /\ \A i \in DOMAIN ctx.table.terms : i \in Nat /\ i < ctx.table.next
      BY DEF Standing, TableStands
    <2> HIDE DEF R
    <2>2. pool \in SUBSET Nat /\ \A i \in pool : i <= ctx.table.next
      BY <2>1
    <2>3. \A n \in Nat : (\A i \in pool : i <= n) => IsFiniteSet(pool)
      BY <2>2, FS_BoundedSetOfNaturals
    <2> QED
      BY <2>1, <2>2, <2>3
  <1>5. \A i, j \in pool : <<i, j>> \in R <=> Smaller(TermOf(i), TermOf(j))
    OBVIOUS
  <1>6. \E i \in pool : \A j \in pool : <<j, i>> \notin R
    <2>1. \A i, j, k \in pool : <<i, j>> \in R /\ <<j, k>> \in R => <<i, k>> \in R
      <3> SUFFICES ASSUME NEW i \in pool, NEW j \in pool, NEW k \in pool,
                          Smaller(TermOf(i), TermOf(j)), Smaller(TermOf(j), TermOf(k))
                   PROVE  Smaller(TermOf(i), TermOf(k))
        BY <1>5
      <3>1. /\ Decode(TermOf(i)) \in Int /\ Decode(TermOf(j)) \in Int /\ Decode(TermOf(k)) \in Int
            /\ OrderOf(TermOf(i)) \in Nat /\ OrderOf(TermOf(j)) \in Nat /\ OrderOf(TermOf(k)) \in Nat
        BY <1>2, <1>3
      <3> QED
        BY <3>1 DEF Smaller
    <2>2. \A i \in pool : <<i, i>> \notin R
      <3> SUFFICES ASSUME NEW i \in pool PROVE ~Smaller(TermOf(i), TermOf(i))
        BY <1>5
      <3>1. Decode(TermOf(i)) \in Int /\ OrderOf(TermOf(i)) \in Nat
        BY <1>2, <1>3
      <3> QED
        BY <3>1 DEF Smaller
    <2> HIDE DEF R
    <2> QED
      BY <1>4, <2>1, <2>2, LeastElement
  <1>7. \E i \in pool : \A j \in pool : ~Precedes(j, i)
    BY <1>1, <1>5, <1>6
  <1>8. m \in pool /\ \A j \in pool : ~Precedes(j, m)
    BY <1>7 DEF LeastOf
  <1>9. TermOf(m) \in written /\ \A s \in written : ~Smaller(s, TermOf(m))
    <2>0. m \in pool
      BY <1>8
    <2>1. TermOf(m) \in written
      <3>1. \A i \in pool : TermOf(i) \in written
        BY DEF WrittenFor
      <3> QED
        BY <2>0, <3>1
    <2>2. ASSUME NEW s \in written PROVE ~Smaller(s, TermOf(m))
      <3>1. PICK j \in pool : s = TermOf(j)
        BY DEF WrittenFor
      <3>2. ~Precedes(j, m) /\ m \in pool
        BY <1>8
      <3> QED
        BY <1>1, <3>1, <3>2
    <2> QED
      BY <2>1, <2>2
  <1>10. ASSUME NEW t \in written, \A s \in written : ~Smaller(s, t)
         PROVE  t = TermOf(m)
    <2>1. ~Smaller(TermOf(m), t) /\ ~Smaller(t, TermOf(m))
      BY <1>9, <1>10
    <2>2. /\ t \in Literals /\ TermOf(m) \in Literals
          /\ Decode(t) # NoValue /\ Decode(TermOf(m)) # NoValue
          /\ Decode(t) \in Int /\ Decode(TermOf(m)) \in Int /\ OrderOf(t) \in Nat /\ OrderOf(TermOf(m)) \in Nat
      BY <1>2, <1>3, <1>8 DEF WrittenFor
    <2>3. OrderOf(t) = OrderOf(TermOf(m))
      BY <2>1, <2>2 DEF Smaller
    <2> QED
      BY <2>2, <2>3, LiteralsAssumption
  <1> QED
    BY <1>8, <1>9, <1>10

-----------------------------------------------------------------------------
(* Terms: the joins                                                         *)

Items == RowsWith(call.inputs, "item")
Others == RowsWith(call.inputs, "other")
MadeIds == RowsWith(ctx.candidate, "made")
Done == {t \in Items : IdOf(t) \notin call.todo}

(* Rows of a predicate.                                                     *)
Tagged(p, ids) == {<<p, i>> : i \in ids}

(* What the first stratum has come to.                                      *)
MadeStands ==
  /\ call.todo \subseteq IdsOfTerms(Items)
  /\ ctx.candidate = AsIds(call.inputs) \cup Tagged("made", MadeIds)
  /\ MadeIds \subseteq DOMAIN ctx.table.terms
  /\ {TermOf(i) : i \in MadeIds} = {Canonical(Operation(Decode(t))) : t \in Done}

(* The rows of the inputs in a candidate, as ids.                           *)
LEMMA CandidateRows ==
  ASSUME NEW inputs \in InputSets, NEW made, NEW rows,
         rows = AsIds(inputs) \cup Tagged("made", made)
  PROVE  /\ RowsWith(rows, "item") = IdsOfTerms(RowsWith(inputs, "item"))
         /\ RowsWith(rows, "other") = IdsOfTerms(RowsWith(inputs, "other"))
         /\ RowsWith(rows, "made") = made
         /\ RowsWith(inputs, "item") \subseteq TermsOf(inputs)
         /\ RowsWith(inputs, "other") \subseteq TermsOf(inputs)
PROOF
  <1>1. inputs \subseteq {"item", "other"} \X Literals
    BY InputSetsAssumption
  <1>2. ASSUME NEW p \in {"item", "other"}
        PROVE  RowsWith(rows, p) = {IdOf(t) : t \in RowsWith(inputs, p)}
    <2>1. ASSUME NEW i \in RowsWith(rows, p)
          PROVE  i \in {IdOf(t) : t \in RowsWith(inputs, p)}
      <3>1. PICK r \in rows : r[1] = p /\ r[2] = i
        BY DEF RowsWith
      <3>2. PICK q \in inputs : r = <<q[1], IdOf(q[2])>>
        BY <3>1 DEF AsIds, Tagged
      <3>3. q[1] = p /\ IdOf(q[2]) = i
        BY <3>1, <3>2
      <3> QED
        BY <3>3 DEF RowsWith
    <2>2. ASSUME NEW t \in RowsWith(inputs, p)
          PROVE  IdOf(t) \in RowsWith(rows, p)
      <3>1. PICK q \in inputs : q[1] = p /\ q[2] = t
        BY DEF RowsWith
      <3>2. <<p, IdOf(t)>> \in rows
        BY <3>1 DEF AsIds
      <3>3. <<p, IdOf(t)>>[1] = p /\ <<p, IdOf(t)>>[2] = IdOf(t)
        OBVIOUS
      <3> QED
        BY <3>2, <3>3 DEF RowsWith
    <2> QED
      BY <2>1, <2>2
  <1>3. RowsWith(rows, "made") = made
    <2>1. ASSUME NEW i \in RowsWith(rows, "made") PROVE i \in made
      <3>1. PICK r \in rows : r[1] = "made" /\ r[2] = i
        BY DEF RowsWith
      <3>2. r \notin AsIds(inputs)
        BY <1>1, <3>1 DEF AsIds
      <3> QED
        BY <3>1, <3>2 DEF Tagged
    <2>2. ASSUME NEW i \in made PROVE i \in RowsWith(rows, "made")
      <3>1. <<"made", i>> \in rows /\ <<"made", i>>[1] = "made" /\ <<"made", i>>[2] = i
        BY DEF Tagged
      <3> QED
        BY <3>1 DEF RowsWith
    <2> QED
      BY <2>1, <2>2
  <1>4. RowsWith(inputs, "item") \subseteq TermsOf(inputs) /\ RowsWith(inputs, "other") \subseteq TermsOf(inputs)
    BY DEF RowsWith, TermsOf
  <1> QED
    BY <1>2, <1>3, <1>4 DEF IdsOfTerms

(* Rows of ids and the rows of their terms.                                 *)
LEMMA RowsWritten ==
  ASSUME NEW p, NEW ids
  PROVE  {<<r[1], TermOf(r[2])>> : r \in Tagged(p, ids)} = Tagged(p, {TermOf(i) : i \in ids})
PROOF
  <1>1. \A i \in ids : <<p, i>>[1] = p /\ <<p, i>>[2] = i
    OBVIOUS
  <1>2. ASSUME NEW i \in ids
        PROVE  <<p, TermOf(i)>> \in {<<r[1], TermOf(r[2])>> : r \in {<<p, j>> : j \in ids}}
    <2>1. <<p, i>> \in {<<p, j>> : j \in ids}
      OBVIOUS
    <2>2. \A r \in {<<p, j>> : j \in ids} :
            <<r[1], TermOf(r[2])>> \in {<<q[1], TermOf(q[2])>> : q \in {<<p, j>> : j \in ids}}
      OBVIOUS
    <2> QED
      BY <1>1, <2>1, <2>2
  <1>3. ASSUME NEW r \in {<<p, i>> : i \in ids}
        PROVE  <<r[1], TermOf(r[2])>> \in {<<p, t>> : t \in {TermOf(i) : i \in ids}}
    <2>1. PICK i \in ids : r = <<p, i>>
      OBVIOUS
    <2>2. r[1] = p /\ r[2] = i
      BY <2>1
    <2> QED
      BY <2>2
  <1> QED
    BY <1>2, <1>3 DEF Tagged

(* The joins give the rows that the terms themselves give.                  *)
LEMMA JoinsGiveReference ==
  ASSUME Standing, MadeStands, RunJoins
  PROVE  {<<r[1], TermOf(r[2])>> : r \in {s \in ctx'.candidate : s[1] \in Derived}} = ReferenceRows(call.inputs)
PROOF
  <1> DEFINE ids == DOMAIN ctx.table.terms
             terms == TermsOf(call.inputs)
             made == RowsWith(ctx.candidate, "made")
             items == RowsWith(ctx.candidate, "item")
             others == RowsWith(ctx.candidate, "other")
             meets == made \cap items
             differs == {z \in made : \E x \in others : Different(x, z)}
             m == CHOOSE i \in made \cup items : \A j \in made \cup items : ~Precedes(j, i)
             leasts == IF made \cup items = {} THEN {} ELSE {m}
             refMade == {Canonical(Operation(Decode(t))) : t \in Items}
             pool == refMade \cup Items
  <1>1. /\ items = {IdOf(t) : t \in Items} /\ others = {IdOf(t) : t \in Others}
        /\ Items \subseteq terms /\ Others \subseteq terms
        /\ ctx.candidate = AsIds(call.inputs) \cup Tagged("made", made)
        /\ made \subseteq ids /\ {TermOf(i) : i \in made} = refMade
    <2>1. call.todo = {}
      BY DEF RunJoins
    <2>2. ctx.candidate = AsIds(call.inputs) \cup Tagged("made", made) /\ call.inputs \in InputSets
      BY DEF MadeStands, MadeIds, Standing
    <2>3. Done = Items
      BY <2>1 DEF Done
    <2>4. {TermOf(i) : i \in made} = refMade
      BY <2>3 DEF MadeStands, MadeIds
    <2>5. made \subseteq ids
      BY DEF MadeStands, MadeIds
    <2>6. /\ items = {IdOf(t) : t \in Items} /\ others = {IdOf(t) : t \in Others}
          /\ Items \subseteq terms /\ Others \subseteq terms
      <3>1. \A inputs \in InputSets : \A rows, some :
              rows = AsIds(inputs) \cup Tagged("made", some) =>
                /\ RowsWith(rows, "item") = IdsOfTerms(RowsWith(inputs, "item"))
                /\ RowsWith(rows, "other") = IdsOfTerms(RowsWith(inputs, "other"))
                /\ RowsWith(inputs, "item") \subseteq TermsOf(inputs)
                /\ RowsWith(inputs, "other") \subseteq TermsOf(inputs)
        BY CandidateRows
      <3> HIDE DEF made
      <3> QED
        BY <2>2, <3>1 DEF Items, Others, IdsOfTerms
    <2> QED
      BY <2>2, <2>4, <2>5, <2>6
  <1>2. terms \in SUBSET Literals /\ TableStands(ctx.table, terms)
    BY TermsAre DEF Standing
  <1>3. \A i : TermOf(i) = Written(ctx.table, terms, i)
    BY DEF TermOf, Written, ScalarOf
  <1>4. \A t \in terms : IdOf(t) \in ids /\ TermOf(IdOf(t)) = t
    <2> HIDE DEF terms
    <2> QED
      BY <1>2, <1>3, WrittenDeclared
  <1>5. \A i, j \in ids : TermOf(i) = TermOf(j) => i = j
    <2> HIDE DEF terms
    <2> QED
      BY <1>2, <1>3, WrittenOnce
  <1>6. ctx'.candidate = ctx.candidate \cup Tagged("both", meets) \cup Tagged("differ", differs) \cup Tagged("least", leasts)
    <2>1. ctx' = [ctx EXCEPT !.candidate = ctx.candidate \cup Tagged("both", meets) \cup Tagged("differ", differs)
                                          \cup Tagged("least", leasts), !.complete = TRUE, !.begun = FALSE]
      BY DEF RunJoins, Tagged
    <2> QED
      BY <2>1
  <1>7. \A t \in terms : Decode(t) \in Scalars \cup {NoValue}
    BY <1>2, LiteralsAssumption
  <1>8. items \subseteq ids /\ others \subseteq ids /\ {TermOf(i) : i \in items} = Items
        /\ {TermOf(i) : i \in others} = Others
    <2> HIDE DEF ids, terms, items, others
    <2>1. items \subseteq ids /\ others \subseteq ids
      BY <1>1, <1>4
    <2>2. {TermOf(i) : i \in items} = Items
      BY <1>1, <1>4
    <2>3. {TermOf(i) : i \in others} = Others
      BY <1>1, <1>4
    <2> QED
      BY <2>1, <2>2, <2>3
  <1>9. {TermOf(i) : i \in meets} = refMade \cap Items
    <2>1. \A i \in made : TermOf(i) \in refMade
      BY <1>1
    <2>2. \A i \in items : TermOf(i) \in Items
      BY <1>8
    <2>3. ASSUME NEW t \in refMade \cap Items PROVE \E i \in meets : t = TermOf(i)
      <3>1. PICK i \in made : t = TermOf(i)
        BY <1>1
      <3>2. PICK j \in items : t = TermOf(j)
        BY <1>8
      <3>3. i = j
        BY <1>1, <1>5, <1>8, <3>1, <3>2
      <3> QED
        BY <3>1, <3>2, <3>3
    <2> HIDE DEF made, items, refMade
    <2> QED
      BY <2>1, <2>2, <2>3
  <1>10. {TermOf(i) : i \in differs} = {u \in refMade : \E x \in Others : LiteralKey(x) # LiteralKey(u)}
    <2>1. \A z \in made, x \in others : Different(x, z) <=> LiteralKey(TermOf(x)) # LiteralKey(TermOf(z))
      <3>1. \A x, z \in ids : Different(x, z) <=> LiteralKey(TermOf(x)) # LiteralKey(TermOf(z))
        BY DifferentIs
      <3> HIDE DEF ids, made, others
      <3> QED
        BY <1>1, <1>8, <3>1
    <2>2. \A i \in made : TermOf(i) \in refMade
      BY <1>1
    <2>3. \A i \in others : TermOf(i) \in Others
      BY <1>8
    <2>4. \A u \in refMade : \E i \in made : u = TermOf(i)
      BY <1>1
    <2>5. \A x \in Others : \E i \in others : x = TermOf(i)
      BY <1>8
    <2> HIDE DEF made, others, refMade
    <2>6. ASSUME NEW z \in differs
          PROVE  TermOf(z) \in refMade /\ \E x \in Others : LiteralKey(x) # LiteralKey(TermOf(z))
      BY <2>1, <2>2, <2>3
    <2>7. ASSUME NEW u \in refMade, NEW x \in Others, LiteralKey(x) # LiteralKey(u)
          PROVE  \E z \in differs : u = TermOf(z)
      <3>1. PICK z \in made : u = TermOf(z)
        BY <2>4
      <3>2. PICK y \in others : x = TermOf(y)
        BY <2>5
      <3>3. Different(y, z)
        BY <2>1, <2>7, <3>1, <3>2
      <3> QED
        BY <3>1, <3>3
    <2> HIDE DEF differs
    <2> QED
      BY <2>6, <2>7
  <1>11. {TermOf(i) : i \in leasts} = {t \in pool : \A s \in pool : ~Smaller(s, t)}
    <2>1. {TermOf(i) : i \in made \cup items} = pool
      <3> HIDE DEF made, items, refMade
      <3> QED
        BY <1>1, <1>8
    <2>2. CASE made \cup items = {}
      <3> HIDE DEF pool
      <3>1. pool = {}
        BY <2>1, <2>2
      <3> QED
        BY <2>2, <3>1
    <2>3. CASE made \cup items # {}
      <3>1. \A i \in made \cup items : ScalarOf(i) # NoValue
        BY DEF RunJoins
      <3> DEFINE all == made \cup items
      <3>2. all \in SUBSET DOMAIN ctx.table.terms /\ all # {} /\ \A i \in all : ScalarOf(i) # NoValue
        BY <1>1, <1>8, <2>3, <3>1
      <3>4. pool = WrittenFor(all) /\ m = LeastOf(all)
        BY <2>1 DEF WrittenFor, LeastOf
      <3>5. leasts = {m}
        BY <2>3
      <3> HIDE DEF all, m, leasts, pool
      <3>6. {TermOf(m)} = {t \in pool : \A s \in pool : ~Smaller(s, t)}
        BY <3>2, <3>4, LeastIsLeast
      <3> QED
        BY <3>5, <3>6
    <2> QED
      BY <2>2, <2>3
  <1> DEFINE Result == Tagged("made", made) \cup Tagged("both", meets) \cup Tagged("differ", differs)
                       \cup Tagged("least", leasts)
  <1>12. {s \in ctx'.candidate : s[1] \in Derived} = Result
    <2>1. \A s \in AsIds(call.inputs) : s[1] \notin Derived
      <3>1. call.inputs \subseteq {"item", "other"} \X Literals
        BY InputSetsAssumption DEF Standing
      <3> QED
        BY <3>1 DEF AsIds, Derived
    <2>2. \A x : \A s \in Tagged("made", x) \cup Tagged("both", x) \cup Tagged("differ", x) \cup Tagged("least", x) :
            s[1] \in Derived
      BY DEF Tagged, Derived
    <2> HIDE DEF made, meets, differs, leasts
    <2>3. \A s \in Result : s[1] \in Derived
      BY <2>2
    <2>4. ctx'.candidate = AsIds(call.inputs) \cup Result
      BY <1>1, <1>6
    <2> HIDE DEF Result
    <2> QED
      BY <2>1, <2>3, <2>4
  <1>13. {<<r[1], TermOf(r[2])>> : r \in Result}
           = {<<r[1], TermOf(r[2])>> : r \in Tagged("made", made)}
             \cup {<<r[1], TermOf(r[2])>> : r \in Tagged("both", meets)}
             \cup {<<r[1], TermOf(r[2])>> : r \in Tagged("differ", differs)}
             \cup {<<r[1], TermOf(r[2])>> : r \in Tagged("least", leasts)}
    <2> HIDE DEF made, meets, differs, leasts
    <2> QED
      OBVIOUS
  <1>14. {<<r[1], TermOf(r[2])>> : r \in Result}
           = Tagged("made", refMade) \cup Tagged("both", refMade \cap Items)
             \cup Tagged("differ", {u \in refMade : \E x \in Others : LiteralKey(x) # LiteralKey(u)})
             \cup Tagged("least", {t \in pool : \A s \in pool : ~Smaller(s, t)})
    <2>1. \A p, x : {<<r[1], TermOf(r[2])>> : r \in Tagged(p, x)} = Tagged(p, {TermOf(i) : i \in x})
      BY RowsWritten
    <2>2. {<<r[1], TermOf(r[2])>> : r \in Tagged("made", made)} = Tagged("made", refMade)
      BY <1>1, <2>1
    <2>3. {<<r[1], TermOf(r[2])>> : r \in Tagged("both", meets)} = Tagged("both", refMade \cap Items)
      BY <1>9, <2>1
    <2>4. {<<r[1], TermOf(r[2])>> : r \in Tagged("differ", differs)}
            = Tagged("differ", {u \in refMade : \E x \in Others : LiteralKey(x) # LiteralKey(u)})
      BY <1>10, <2>1
    <2>5. {<<r[1], TermOf(r[2])>> : r \in Tagged("least", leasts)}
            = Tagged("least", {t \in pool : \A s \in pool : ~Smaller(s, t)})
      BY <1>11, <2>1
    <2> QED
      BY <1>13, <2>2, <2>3, <2>4, <2>5
  <1>15. ReferenceRows(call.inputs)
           = Tagged("made", refMade) \cup Tagged("both", refMade \cap Items)
             \cup Tagged("differ", {u \in refMade : \E x \in Others : LiteralKey(x) # LiteralKey(u)})
             \cup Tagged("least", {t \in pool : \A s \in pool : ~Smaller(s, t)})
    BY DEF ReferenceRows, Tagged, Items, Others, Smaller
  <1> QED
    BY <1>12, <1>14, <1>15

-----------------------------------------------------------------------------
(* Terms: the invariant                                                     *)

ContextParts ==
  ctx = [source |-> ctx.source, memo |-> ctx.memo, table |-> ctx.table, candidate |-> ctx.candidate,
         begun |-> ctx.begun, complete |-> ctx.complete]

CallParts ==
  /\ \/ call = Quiet
     \/ /\ call.phase \in {"sync", "declare", "prepared"}
        /\ call = [phase |-> call.phase, inputs |-> call.inputs]
     \/ call.phase = "made" /\ call = [phase |-> call.phase, inputs |-> call.inputs, todo |-> call.todo]
     \/ /\ call.phase \in {"paging", "returned"}
        /\ call = [phase |-> call.phase, inputs |-> call.inputs, rows |-> call.rows]
  /\ call.phase # "idle" => call.inputs \in InputSets

(* Between evaluations the source and the memo are right; once the inputs   *)
(* are transferred the source is theirs; once they are declared the table   *)
(* stands, and what is made of it is what the terms give.                   *)
QueryInvariant ==
  /\ ContextParts /\ CallParts
  /\ ctx.memo \in Seq(Results)
  /\ mirrored \in InputSets \cup {{}} /\ ctx.source = AsIds(mirrored)
  /\ call.phase \in {"declare", "prepared", "made", "paging"} => mirrored = call.inputs
  /\ call.phase \in {"prepared", "made", "paging"} => TableStands(ctx.table, TermsOf(call.inputs))
  /\ call.phase = "made" => MadeStands
  /\ call.phase = "paging" => /\ ResultRows(Derived) = ReferenceRows(call.inputs)
                              /\ call.rows \subseteq ReferenceRows(call.inputs)
  /\ ReturnsReference

LEMMA QueryInvariantBegins == NativeQueryInit => QueryInvariant
PROOF
  <1> SUFFICES ASSUME NativeQueryInit PROVE QueryInvariant
    OBVIOUS
  <1>1. ctx = Fresh /\ mirrored = {} /\ call = Quiet /\ call.phase = "idle"
    BY DEF NativeQueryInit, Quiet
  <1>2. ContextParts /\ ctx.memo = <<>> /\ ctx.source = {}
    BY <1>1 DEF Fresh, ContextParts
  <1>3. CallParts
    BY <1>1 DEF CallParts
  <1>4. ctx.memo \in Seq(Results)
    BY <1>2
  <1>5. ctx.source = AsIds(mirrored)
    BY <1>1, <1>2 DEF AsIds
  <1> QED
    BY <1>1, <1>2, <1>3, <1>4, <1>5 DEF QueryInvariant, ReturnsReference

(* When nothing runs, the source and the memo are all that matters.         *)
LEMMA QuietKeeps ==
  ASSUME ContextParts', ctx'.memo \in Seq(Results), mirrored' \in InputSets \cup {{}}, ctx'.source = AsIds(mirrored'),
         call' = Quiet
  PROVE  QueryInvariant'
PROOF
  <1>1. call'.phase = "idle"
    BY DEF Quiet
  <1>2. CallParts'
    BY <1>1 DEF CallParts
  <1>3. (ctx.source = AsIds(mirrored))'
    BY DEF AsIds
  <1> QED
    BY <1>1, <1>2, <1>3 DEF QueryInvariant, ReturnsReference

(* The differences of the rows make the source the one of the inputs.       *)
LEMMA SyncedSource ==
  ASSUME NEW old, NEW new
  PROVE  (AsIds(old) \ (AsIds(old) \ AsIds(new))) \cup AsIds(new \ old) = AsIds(new)
PROOF
  <1>1. \A r \in new : r \in old \/ r \in new \ old
    OBVIOUS
  <1>2. AsIds(new) \subseteq AsIds(old) \cup AsIds(new \ old)
    BY <1>1 DEF AsIds
  <1>3. AsIds(new \ old) \subseteq AsIds(new)
    BY DEF AsIds
  <1> QED
    BY <1>2, <1>3

LEMMA PreparingKeeps ==
  ASSUME QueryInvariant, BeginQuery \/ SyncSource \/ Declare
  PROVE  QueryInvariant'
PROOF
  <1>1. /\ ContextParts /\ CallParts /\ ctx.memo \in Seq(Results)
        /\ mirrored \in InputSets \cup {{}} /\ ctx.source = AsIds(mirrored)
    BY DEF QueryInvariant
  <1>2. CASE BeginQuery
    <2>1. PICK inputs \in InputSets : call' = [phase |-> "sync", inputs |-> inputs]
      BY <1>2 DEF BeginQuery
    <2>2. ContextParts' /\ ctx'.memo = ctx.memo /\ ctx'.source = ctx.source
      BY <1>2 DEF BeginQuery, Fresh, ContextParts
    <2>3. call'.phase = "sync" /\ call'.inputs \in InputSets /\ mirrored' = mirrored
      BY <1>2, <2>1 DEF BeginQuery
    <2>4. CallParts'
      BY <2>1, <2>3 DEF CallParts
    <2>5. (ctx.source = AsIds(mirrored))'
      BY <1>1, <2>2, <2>3 DEF AsIds
    <2> QED
      BY <1>1, <2>2, <2>3, <2>4, <2>5 DEF QueryInvariant, ReturnsReference
  <1>3. CASE SyncSource
    <2>1. call.phase = "sync" /\ call.inputs \in InputSets /\ call = [phase |-> call.phase, inputs |-> call.inputs]
      BY <1>1, <1>3 DEF SyncSource, CallParts, Quiet
    <2>2. call' = [phase |-> "declare", inputs |-> call.inputs]
      BY <1>3, <2>1 DEF SyncSource
    <2>3. call'.phase = "declare" /\ call'.inputs = call.inputs /\ mirrored' = call.inputs
      BY <1>3, <2>2 DEF SyncSource
    <2>4. /\ ContextParts' /\ ctx'.memo = ctx.memo
          /\ ctx'.source = (ctx.source \ (AsIds(mirrored) \ AsIds(call.inputs))) \cup AsIds(call.inputs \ mirrored)
      BY <1>1, <1>3 DEF SyncSource, ContextParts
    <2>5. ctx'.source = AsIds(call.inputs)
      BY <1>1, <2>4, SyncedSource
    <2>6. CallParts'
      BY <2>1, <2>2, <2>3 DEF CallParts
    <2>7. (ctx.source = AsIds(mirrored))'
      BY <2>3, <2>5 DEF AsIds
    <2> QED
      BY <1>1, <2>1, <2>3, <2>4, <2>6, <2>7 DEF QueryInvariant, ReturnsReference
  <1>4. CASE Declare
    <2>1. /\ call.phase = "declare" /\ call.inputs \in InputSets /\ call = [phase |-> call.phase, inputs |-> call.inputs]
          /\ mirrored = call.inputs
      BY <1>1, <1>4 DEF Declare, CallParts, Quiet, QueryInvariant
    <2>2. call' = [phase |-> "prepared", inputs |-> call.inputs]
      BY <1>4, <2>1 DEF Declare
    <2>3. call'.phase = "prepared" /\ call'.inputs = call.inputs /\ mirrored' = mirrored
      BY <1>4, <2>2 DEF Declare
    <2>4. /\ ContextParts' /\ ctx'.memo = ctx.memo /\ ctx'.source = ctx.source
          /\ ctx'.table = TableOf(TermsOf(call.inputs))
      BY <1>1, <1>4 DEF Declare, ContextParts
    <2>5. TableStands(TableOf(TermsOf(call.inputs)), TermsOf(call.inputs))
      BY <2>1, TermsAre, TableOfStands
    <2>6. TableStands(ctx.table, TermsOf(call.inputs))'
      BY <2>3, <2>4, <2>5
    <2>7. CallParts'
      BY <2>1, <2>2, <2>3 DEF CallParts
    <2>8. (ctx.source = AsIds(mirrored))'
      BY <1>1, <2>3, <2>4 DEF AsIds
    <2> QED
      BY <1>1, <2>1, <2>3, <2>4, <2>6, <2>7, <2>8 DEF QueryInvariant, ReturnsReference
  <1> QED
    BY <1>2, <1>3, <1>4

LEMMA StartRunKeeps ==
  ASSUME QueryInvariant, StartRun
  PROVE  QueryInvariant'
PROOF
  <1>1. /\ ContextParts /\ ctx.memo \in Seq(Results)
        /\ mirrored \in InputSets \cup {{}} /\ ctx.source = AsIds(mirrored)
    BY DEF QueryInvariant
  <1>2. /\ call.phase = "prepared" /\ call.inputs \in InputSets /\ mirrored = call.inputs
        /\ TableStands(ctx.table, TermsOf(call.inputs))
    BY DEF StartRun, QueryInvariant, CallParts, Quiet
  <1>3. /\ call' = [phase |-> "made", inputs |-> call.inputs, todo |-> RowsWith(ctx.source, "item")]
        /\ mirrored' = mirrored
    BY DEF StartRun
  <1>4. call'.phase = "made" /\ call'.inputs = call.inputs /\ call'.todo = RowsWith(ctx.source, "item")
    BY <1>3
  <1>5. CallParts'
    BY <1>2, <1>3, <1>4 DEF CallParts
  <1>6. /\ ContextParts' /\ ctx'.memo = ctx.memo /\ ctx'.source = ctx.source
        /\ ctx'.table = ctx.table /\ ctx'.candidate = ctx.source
    BY <1>1 DEF StartRun, ContextParts
  <1>7. (ctx.source = AsIds(mirrored))'
    BY <1>1, <1>3, <1>6 DEF AsIds
  <1>8. TableStands(ctx.table, TermsOf(call.inputs))'
    BY <1>2, <1>4, <1>6
  <1>9. MadeStands'
    <2>1. ctx'.candidate = AsIds(call.inputs) \cup Tagged("made", {})
      BY <1>1, <1>2, <1>6 DEF Tagged
    <2>2. /\ RowsWith(ctx'.candidate, "item") = IdsOfTerms(RowsWith(call.inputs, "item"))
          /\ RowsWith(ctx'.candidate, "made") = {}
      <3>1. \A inputs \in InputSets : \A rows, made :
              rows = AsIds(inputs) \cup Tagged("made", made) =>
                /\ RowsWith(rows, "item") = IdsOfTerms(RowsWith(inputs, "item"))
                /\ RowsWith(rows, "made") = made
        BY CandidateRows
      <3> QED
        BY <1>2, <2>1, <3>1
    <2>3. call'.todo = IdsOfTerms(RowsWith(call.inputs, "item"))
      BY <1>4, <1>6, <2>2
    <2>4. Items' = RowsWith(call.inputs, "item") /\ MadeIds' = {}
      BY <1>4, <2>2 DEF Items, MadeIds
    <2>5. Done' = {}
      BY <2>3, <2>4 DEF Done, IdsOfTerms
    <2>6. /\ (call.todo \subseteq IdsOfTerms(Items))'
          /\ (ctx.candidate = AsIds(call.inputs) \cup Tagged("made", MadeIds))'
          /\ (MadeIds \subseteq DOMAIN ctx.table.terms)'
          /\ ({TermOf(i) : i \in MadeIds} = {Canonical(Operation(Decode(t))) : t \in Done})'
      <3>1. (call.todo \subseteq IdsOfTerms(Items))'
        BY <2>3, <2>4
      <3>2. (ctx.candidate = AsIds(call.inputs) \cup Tagged("made", MadeIds))'
        BY <1>4, <2>1, <2>4
      <3>3. (MadeIds \subseteq DOMAIN ctx.table.terms)'
        BY <2>4
      <3>4. ({TermOf(i) : i \in MadeIds} = {Canonical(Operation(Decode(t))) : t \in Done})'
        BY <2>4, <2>5
      <3> QED
        BY <3>1, <3>2, <3>3, <3>4
    <2> QED
      BY <2>6 DEF MadeStands
  <1> QED
    BY <1>1, <1>2, <1>3, <1>4, <1>5, <1>6, <1>7, <1>8, <1>9 DEF QueryInvariant, ReturnsReference

(* An operation on an input gives the term that is written for its result.  *)
LEMMA ResultMakes ==
  ASSUME QueryInvariant, call.phase = "made", NEW id \in call.todo, ResultOf(ctx.memo, ScalarOf(id)) # NoValue
  PROVE  \E t \in Items :
           /\ IdOf(t) = id
           /\ Operation(Decode(t)) \in Scalars
           /\ ResultOf(ctx.memo, ScalarOf(id)) = Operation(Decode(t))
           /\ AfterOperation(id) \in Seq(Results)
PROOF
  <1>1. /\ call.phase = "made" /\ id \in call.todo /\ ResultOf(ctx.memo, ScalarOf(id)) # NoValue
        /\ ctx.memo \in Seq(Results) /\ MadeStands
        /\ TableStands(ctx.table, TermsOf(call.inputs)) /\ call.inputs \in InputSets
    BY DEF QueryInvariant, CallParts
  <1>2. PICK t \in Items : IdOf(t) = id
    BY <1>1 DEF MadeStands, IdsOfTerms
  <1>3. t \in TermsOf(call.inputs) /\ t \in Literals
    <2>1. t \in TermsOf(call.inputs)
      BY DEF Items, RowsWith, TermsOf
    <2> QED
      BY <1>1, <2>1, TermsAre
  <1>4. ScalarOf(id) = Decode(t)
    <2>1. ctx.table.terms[id] = Declaration(t)
      BY <1>1, <1>2, <1>3 DEF TableStands, DeclaredStand
    <2> QED
      BY <2>1 DEF ScalarOf, Declaration
  <1>5. Decode(t) \in Scalars
    <2>1. Decode(t) # NoValue
      BY <1>1, <1>4 DEF ResultOf
    <2> QED
      BY <1>3, <2>1, LiteralsAssumption
  <1>6. ResultOf(ctx.memo, ScalarOf(id)) = Operation(Decode(t))
    BY <1>1, <1>4, <1>5, ResultIs
  <1>7. Operation(Decode(t)) \in Scalars
    BY <1>1, <1>5, <1>6, ScalarsAssumption
  <1>8. <<Decode(t), Operation(Decode(t))>> \in Results
    BY <1>5, <1>7 DEF Results
  <1>9. Remembered(ctx.memo, Decode(t), Operation(Decode(t))) \in Seq(Results)
    BY <1>1, <1>8, RememberedKeeps
  <1>10. AfterOperation(id) \in Seq(Results)
    BY <1>4, <1>6, <1>9 DEF AfterOperation
  <1> QED
    BY <1>1, <1>2, <1>6, <1>7, <1>10

LEMMA OperateKeeps ==
  ASSUME QueryInvariant, NEW id, Operate(id)
  PROVE  QueryInvariant'
PROOF
  <1>1. /\ ContextParts /\ ctx.memo \in Seq(Results) /\ mirrored \in InputSets \cup {{}}
        /\ ctx.source = AsIds(mirrored) /\ MadeStands /\ mirrored = call.inputs
        /\ call.phase = "made" /\ id \in call.todo
        /\ TableStands(ctx.table, TermsOf(call.inputs)) /\ call.inputs \in InputSets
        /\ call = [phase |-> call.phase, inputs |-> call.inputs, todo |-> call.todo]
    BY DEF Operate, QueryInvariant, CallParts, Quiet
  <1>2. PICK t \in Items : /\ IdOf(t) = id /\ Operation(Decode(t)) \in Scalars
                           /\ ResultOf(ctx.memo, ScalarOf(id)) = Operation(Decode(t))
                           /\ AfterOperation(id) \in Seq(Results)
    BY <1>1, ResultMakes DEF Operate
  <1> PICK v : v = Operation(Decode(t))
    OBVIOUS
  <1> PICK terms : terms = TermsOf(call.inputs)
    OBVIOUS
  <1> PICK new : new = IdForValue(ctx.table, v)
    OBVIOUS
  <1> PICK next : next = Interning(ctx.table, v)
    OBVIOUS
  <1>3. call' = [phase |-> "made", inputs |-> call.inputs, todo |-> call.todo \ {id}] /\ mirrored' = mirrored
    BY <1>1 DEF Operate
  <1>4. call'.phase = "made" /\ call'.inputs = call.inputs /\ call'.todo = call.todo \ {id}
    BY <1>3
  <1>5. CallParts'
    BY <1>1, <1>3, <1>4 DEF CallParts
  <1>6. /\ ContextParts' /\ ctx'.source = ctx.source
        /\ ctx'.memo = AfterOperation(id) /\ ctx'.table = next
        /\ ctx'.candidate = ctx.candidate \cup {<<"made", new>>}
    <2>1. ctx' = [ctx EXCEPT !.memo = AfterOperation(id), !.table = Interning(ctx.table, ResultOf(ctx.memo, ScalarOf(id))),
                             !.candidate = ctx.candidate \cup {<<"made", IdForValue(ctx.table, ResultOf(ctx.memo, ScalarOf(id)))>>}]
      BY DEF Operate
    <2>2. ctx' = [ctx EXCEPT !.memo = AfterOperation(id), !.table = next, !.candidate = ctx.candidate \cup {<<"made", new>>}]
      BY <1>2, <2>1
    <2> QED
      BY <1>1, <2>2 DEF ContextParts
  <1>7. (ctx.source = AsIds(mirrored))'
    BY <1>1, <1>3, <1>6 DEF AsIds
  <1>8. terms \in SUBSET Literals
    BY <1>1, TermsAre
  <1>9. /\ TableStands(next, terms)
        /\ DOMAIN ctx.table.terms \subseteq DOMAIN next.terms
        /\ \A i \in DOMAIN ctx.table.terms : next.terms[i] = ctx.table.terms[i]
        /\ new \in DOMAIN next.terms
        /\ v \in DOMAIN next.canonical /\ next.canonical[v] = new
    <2>1. PICK table : table = ctx.table
      OBVIOUS
    <2>2. v \in Scalars /\ TableStands(table, terms)
      BY <1>1, <1>2, <2>1
    <2>3. next = Interning(table, v) /\ new = IdForValue(table, v)
      BY <2>1
    <2>4. /\ TableStands(next, terms)
          /\ DOMAIN table.terms \subseteq DOMAIN next.terms
          /\ \A i \in DOMAIN table.terms : next.terms[i] = table.terms[i]
          /\ new \in DOMAIN next.terms
          /\ v \in DOMAIN next.canonical /\ next.canonical[v] = new
      BY <1>8, <2>2, <2>3, InterningStands
    <2> QED
      BY <2>1, <2>4
  <1>10. TableStands(ctx.table, TermsOf(call.inputs))'
    BY <1>4, <1>6, <1>9
  <1>11. \A i : TermOf(i)' = Written(next, terms, i) /\ TermOf(i) = Written(ctx.table, terms, i)
    <2>1. \A i : TermOf(i) = Written(ctx.table, TermsOf(call.inputs), i)
      BY DEF TermOf, Written, ScalarOf
    <2>2. (\A i : TermOf(i) = Written(ctx.table, TermsOf(call.inputs), i))'
      BY DEF TermOf, Written, ScalarOf
    <2>3. ctx'.table = next /\ TermsOf(call.inputs)' = terms
      BY <1>4, <1>6
    <2> QED
      BY <2>1, <2>2, <2>3
  <1>12. \A i \in DOMAIN ctx.table.terms : TermOf(i)' = TermOf(i)
    <2> TAKE i \in DOMAIN ctx.table.terms
    <2>1. next.terms[i].value = ctx.table.terms[i].value
      BY <1>9
    <2>2. Written(next, terms, i) = Written(ctx.table, terms, i)
      BY <2>1 DEF Written
    <2> QED
      BY <1>11, <2>2
  <1>13. TermOf(new)' = Canonical(v)
    <2>1. Written(next, terms, next.canonical[v]) = Canonical(v)
      <3>1. TableStands(next, terms) /\ v \in DOMAIN next.canonical
        BY <1>9
      <3>2. \A w \in DOMAIN next.canonical : Written(next, terms, next.canonical[w]) = Canonical(w)
        BY <1>8, <3>1, WrittenCanonical
      <3> QED
        BY <3>1, <3>2
    <2> QED
      BY <1>9, <1>11, <2>1
  <1>14. MadeStands'
    <2>1. /\ call.todo \subseteq IdsOfTerms(Items)
          /\ ctx.candidate = AsIds(call.inputs) \cup Tagged("made", MadeIds)
          /\ MadeIds \subseteq DOMAIN ctx.table.terms
          /\ {TermOf(i) : i \in MadeIds} = {Canonical(Operation(Decode(u))) : u \in Done}
      BY <1>1 DEF MadeStands
    <2>2. ctx'.candidate = AsIds(call.inputs) \cup Tagged("made", MadeIds \cup {new})
      <3>1. Tagged("made", MadeIds \cup {new}) = Tagged("made", MadeIds) \cup {<<"made", new>>}
        BY DEF Tagged
      <3> QED
        BY <1>6, <2>1, <3>1
    <2>3. MadeIds' = MadeIds \cup {new}
      <3>1. \A made : ctx'.candidate = AsIds(call.inputs) \cup Tagged("made", made) => RowsWith(ctx'.candidate, "made") = made
        BY <1>1, CandidateRows
      <3> QED
        BY <2>2, <3>1 DEF MadeIds
    <2>4. Items' = Items
      BY <1>4 DEF Items
    <2>5. Done' = Done \cup {t}
      <3>1. \A u \in Items : IdOf(u) = id => u = t
        <4>1. Items \subseteq Literals
          BY <1>8 DEF Items, RowsWith, TermsOf
        <4> QED
          BY <1>2, <4>1, LiteralsAssumption
      <3> QED
        BY <1>2, <1>4, <2>4, <3>1 DEF Done
    <2>6. (call.todo \subseteq IdsOfTerms(Items))'
      BY <1>4, <2>1, <2>4
    <2>7. (ctx.candidate = AsIds(call.inputs) \cup Tagged("made", MadeIds))'
      BY <1>4, <2>2, <2>3
    <2>8. (MadeIds \subseteq DOMAIN ctx.table.terms)'
      BY <1>6, <1>9, <2>1, <2>3
    <2>9. ({TermOf(i) : i \in MadeIds} = {Canonical(Operation(Decode(u))) : u \in Done})'
      <3>1. \A i \in MadeIds : TermOf(i)' = TermOf(i)
        BY <1>12, <2>1
      <3>2. \A i \in MadeIds \cup {new} : TermOf(i)' \in {Canonical(Operation(Decode(u))) : u \in Done \cup {t}}
        <4>1. ASSUME NEW i \in MadeIds PROVE TermOf(i)' \in {Canonical(Operation(Decode(u))) : u \in Done \cup {t}}
          <5>1. TermOf(i)' = TermOf(i) /\ TermOf(i) \in {Canonical(Operation(Decode(u))) : u \in Done}
            BY <2>1, <3>1
          <5> QED
            BY <5>1
        <4>2. TermOf(new)' \in {Canonical(Operation(Decode(u))) : u \in Done \cup {t}}
          BY <1>13
        <4> QED
          BY <4>1, <4>2
      <3>3. \A u \in Done \cup {t} : \E i \in MadeIds \cup {new} : Canonical(Operation(Decode(u))) = TermOf(i)'
        <4>1. ASSUME NEW u \in Done PROVE \E i \in MadeIds : Canonical(Operation(Decode(u))) = TermOf(i)'
          <5>1. Canonical(Operation(Decode(u))) \in {TermOf(i) : i \in MadeIds}
            BY <2>1
          <5> QED
            BY <3>1, <5>1
        <4>2. Canonical(Operation(Decode(t))) = TermOf(new)'
          BY <1>13
        <4> QED
          BY <4>1, <4>2
      <3> QED
        BY <2>3, <2>5, <3>2, <3>3
    <2> QED
      BY <2>6, <2>7, <2>8, <2>9 DEF MadeStands
  <1> QED
    BY <1>1, <1>2, <1>3, <1>4, <1>5, <1>6, <1>7, <1>10, <1>14 DEF QueryInvariant, ReturnsReference

LEMMA RunJoinsKeeps ==
  ASSUME QueryInvariant, RunJoins
  PROVE  QueryInvariant'
PROOF
  <1>1. /\ ContextParts /\ ctx.memo \in Seq(Results) /\ mirrored \in InputSets \cup {{}}
        /\ ctx.source = AsIds(mirrored) /\ MadeStands /\ mirrored = call.inputs /\ call.phase = "made"
        /\ TableStands(ctx.table, TermsOf(call.inputs)) /\ call.inputs \in InputSets
    BY DEF RunJoins, QueryInvariant, CallParts, Quiet
  <1>2. call' = [phase |-> "paging", inputs |-> call.inputs, rows |-> {}] /\ mirrored' = mirrored
    BY DEF RunJoins
  <1>3. call'.phase = "paging" /\ call'.inputs = call.inputs /\ call'.rows = {}
    BY <1>2
  <1>4. CallParts'
    BY <1>1, <1>2, <1>3 DEF CallParts
  <1>5. ContextParts' /\ ctx'.source = ctx.source /\ ctx'.memo = ctx.memo /\ ctx'.table = ctx.table
    <2>1. PICK rows : ctx' = [ctx EXCEPT !.candidate = rows, !.complete = TRUE, !.begun = FALSE]
      BY DEF RunJoins
    <2> QED
      BY <1>1, <2>1 DEF ContextParts
  <1>6. (ctx.source = AsIds(mirrored))' /\ TableStands(ctx.table, TermsOf(call.inputs))'
    BY <1>1, <1>2, <1>3, <1>5 DEF AsIds
  <1>7. (ResultRows(Derived) = ReferenceRows(call.inputs))'
    <2>1. {<<r[1], TermOf(r[2])>> : r \in {s \in ctx'.candidate : s[1] \in Derived}} = ReferenceRows(call.inputs)
      BY <1>1, JoinsGiveReference DEF Standing
    <2>2. \A i : TermOf(i)' = TermOf(i)
      <3>1. \A i : TermOf(i) = Written(ctx.table, TermsOf(call.inputs), i)
        BY DEF TermOf, Written, ScalarOf
      <3>2. (\A i : TermOf(i) = Written(ctx.table, TermsOf(call.inputs), i))'
        BY DEF TermOf, Written, ScalarOf
      <3> QED
        BY <1>3, <1>5, <3>1, <3>2
    <2>3. ResultRows(Derived)' = {<<r[1], TermOf(r[2])'>> : r \in {s \in ctx'.candidate : s[1] \in Derived}}
      BY DEF ResultRows, Derived
    <2>4. ResultRows(Derived)' = {<<r[1], TermOf(r[2])>> : r \in {s \in ctx'.candidate : s[1] \in Derived}}
      BY <2>2, <2>3
    <2> QED
      BY <1>3, <2>1, <2>4
  <1> QED
    BY <1>1, <1>2, <1>3, <1>4, <1>5, <1>6, <1>7 DEF QueryInvariant, ReturnsReference

LEMMA PagingKeeps ==
  ASSUME QueryInvariant, Page \/ ReturnRows
  PROVE  QueryInvariant'
PROOF
  <1>1. /\ ContextParts /\ ctx.memo \in Seq(Results) /\ mirrored \in InputSets \cup {{}}
        /\ ctx.source = AsIds(mirrored) /\ mirrored = call.inputs /\ call.phase = "paging"
        /\ TableStands(ctx.table, TermsOf(call.inputs)) /\ call.inputs \in InputSets
        /\ call = [phase |-> call.phase, inputs |-> call.inputs, rows |-> call.rows]
        /\ ResultRows(Derived) = ReferenceRows(call.inputs) /\ call.rows \subseteq ReferenceRows(call.inputs)
    BY DEF Page, ReturnRows, QueryInvariant, CallParts, Quiet
  <1>2. ctx' = ctx /\ mirrored' = mirrored
    BY DEF Page, ReturnRows
  <1>3. /\ ContextParts' /\ ctx'.memo \in Seq(Results) /\ mirrored' \in InputSets \cup {{}}
        /\ (ctx.source = AsIds(mirrored))'
    BY <1>1, <1>2 DEF ContextParts, AsIds
  <1>4. CASE Page
    <2>1. PICK p \in Derived : call' = [call EXCEPT !.rows = call.rows \cup ResultRows({p})]
      BY <1>4 DEF Page
    <2>2. /\ call' = [phase |-> "paging", inputs |-> call.inputs, rows |-> call'.rows]
          /\ call'.phase = "paging" /\ call'.inputs = call.inputs /\ call'.rows = call.rows \cup ResultRows({p})
      BY <1>1, <2>1
    <2>3. CallParts'
      BY <1>1, <2>2 DEF CallParts
    <2>4. ResultRows({p}) \subseteq ResultRows(Derived)
      BY <2>1 DEF ResultRows
    <2>5. ResultRows(Derived)' = ResultRows(Derived)
      <3>1. \A i : TermOf(i)' = TermOf(i)
        <4>1. \A i : TermOf(i) = Written(ctx.table, TermsOf(call.inputs), i)
          BY DEF TermOf, Written, ScalarOf
        <4>2. (\A i : TermOf(i) = Written(ctx.table, TermsOf(call.inputs), i))'
          BY DEF TermOf, Written, ScalarOf
        <4> QED
          BY <1>2, <2>2, <4>1, <4>2
      <3>2. ResultRows(Derived)' = {<<r[1], TermOf(r[2])'>> : r \in {s \in ctx.candidate : s[1] \in Derived}}
        BY <1>2 DEF ResultRows, Derived
      <3> QED
        BY <3>1, <3>2 DEF ResultRows
    <2>6. TableStands(ctx.table, TermsOf(call.inputs))'
      BY <1>1, <1>2, <2>2
    <2>7. (ResultRows(Derived) = ReferenceRows(call.inputs) /\ call.rows \subseteq ReferenceRows(call.inputs))'
      BY <1>1, <2>2, <2>4, <2>5
    <2> QED
      BY <1>1, <1>2, <1>3, <2>2, <2>3, <2>6, <2>7 DEF QueryInvariant, ReturnsReference
  <1>5. CASE ReturnRows
    <2>1. call' = [call EXCEPT !.phase = "returned"] /\ ResultRows(Derived) \subseteq call.rows
      BY <1>5 DEF ReturnRows
    <2>2. /\ call' = [phase |-> "returned", inputs |-> call.inputs, rows |-> call.rows]
          /\ call'.phase = "returned" /\ call'.inputs = call.inputs /\ call'.rows = call.rows
      BY <1>1, <2>1
    <2>3. CallParts'
      BY <1>1, <2>2 DEF CallParts
    <2>4. (call.rows = ReferenceRows(call.inputs))'
      <3>1. call.rows = ReferenceRows(call.inputs)
        BY <1>1, <2>1
      <3> QED
        BY <2>2, <3>1
    <2> QED
      BY <1>3, <2>2, <2>3, <2>4 DEF QueryInvariant, ReturnsReference
  <1> QED
    BY <1>4, <1>5

(* What ends an evaluation keeps the source and the memo, or neither.       *)
LEMMA EndingKeeps ==
  ASSUME QueryInvariant, FailSync \/ FailRun \/ StopPaging \/ ClearMemo \/ CloseQuery
  PROVE  QueryInvariant'
PROOF
  <1>1. /\ ContextParts /\ ctx.memo \in Seq(Results) /\ mirrored \in InputSets \cup {{}}
        /\ ctx.source = AsIds(mirrored)
    BY DEF QueryInvariant
  <1>2. CASE FailSync \/ CloseQuery
    <2>1. ctx' = Fresh /\ mirrored' = {} /\ call' = Quiet
      BY <1>2 DEF FailSync, CloseQuery
    <2>2. ContextParts' /\ ctx'.memo = <<>> /\ ctx'.source = {}
      BY <2>1 DEF Fresh, ContextParts
    <2>3. ctx'.memo \in Seq(Results)
      BY <2>2
    <2>4. ctx'.source = AsIds(mirrored')
      BY <2>1, <2>2 DEF AsIds
    <2> QED
      BY <2>1, <2>2, <2>3, <2>4, QuietKeeps
  <1>3. CASE FailRun
    <2>1. PICK memo \in {ctx.memo} \cup FailedMemos :
            ctx' = [ctx EXCEPT !.memo = memo, !.candidate = {}, !.complete = FALSE, !.begun = FALSE]
      BY <1>3 DEF FailRun
    <2>2. memo \in Seq(Results)
      <3>1. CASE memo = ctx.memo
        BY <1>1, <3>1
      <3>2. CASE memo # ctx.memo
        <4>1. PICK id \in call.todo : /\ call.phase = "made" /\ memo = AfterOperation(id)
                                      /\ ResultOf(ctx.memo, ScalarOf(id)) # NoValue
          BY <2>1, <3>2 DEF FailedMemos
        <4> QED
          BY <4>1, ResultMakes
      <3> QED
        BY <3>1, <3>2
    <2>3. ContextParts' /\ ctx'.memo = memo /\ ctx'.source = ctx.source
      BY <1>1, <2>1 DEF ContextParts
    <2>4. mirrored' = mirrored /\ call' = Quiet
      BY <1>3 DEF FailRun
    <2> QED
      BY <1>1, <2>2, <2>3, <2>4, QuietKeeps
  <1>4. CASE StopPaging
    <2>1. ctx' = ctx /\ mirrored' = mirrored /\ call' = Quiet
      BY <1>4 DEF StopPaging
    <2>2. ContextParts'
      BY <1>1, <2>1 DEF ContextParts
    <2> QED
      BY <1>1, <2>1, <2>2, QuietKeeps
  <1>5. CASE ClearMemo
    <2>1. ctx' = [ctx EXCEPT !.memo = <<>>] /\ mirrored' = mirrored /\ call' = Quiet
      BY <1>5 DEF ClearMemo
    <2>2. ContextParts' /\ ctx'.memo = <<>> /\ ctx'.source = ctx.source
      BY <1>1, <2>1 DEF ContextParts
    <2>3. ctx'.memo \in Seq(Results)
      BY <2>2
    <2> QED
      BY <1>1, <2>1, <2>2, <2>3, QuietKeeps
  <1> QED
    BY <1>2, <1>3, <1>4, <1>5

LEMMA QueryInvariantKept == QueryInvariant /\ [NativeQueryNext]_nativeQueryVars => QueryInvariant'
PROOF
  <1> SUFFICES ASSUME QueryInvariant, [NativeQueryNext]_nativeQueryVars PROVE QueryInvariant'
    OBVIOUS
  <1>1. CASE BeginQuery \/ SyncSource \/ Declare
    BY <1>1, PreparingKeeps
  <1>2. CASE StartRun
    BY <1>2, StartRunKeeps
  <1>3. CASE \E id \in call.todo : Operate(id)
    BY <1>3, OperateKeeps
  <1>4. CASE RunJoins
    BY <1>4, RunJoinsKeeps
  <1>5. CASE Page \/ ReturnRows
    BY <1>5, PagingKeeps
  <1>6. CASE FailSync \/ FailRun \/ StopPaging \/ ClearMemo \/ CloseQuery
    BY <1>6, EndingKeeps
  <1>7. CASE UNCHANGED nativeQueryVars
    <2>1. ctx' = ctx /\ mirrored' = mirrored /\ call' = call
      BY <1>7 DEF nativeQueryVars
    <2>2. (\A i : TermOf(i) = Written(ctx.table, TermsOf(call.inputs), i))'
      BY DEF TermOf, Written, ScalarOf
    <2>3. \A i : TermOf(i) = Written(ctx.table, TermsOf(call.inputs), i)
      BY DEF TermOf, Written, ScalarOf
    <2>4. \A i : TermOf(i)' = TermOf(i)
      BY <2>1, <2>2, <2>3
    <2>5. MadeStands' <=> MadeStands
      <3>1. Items' = Items /\ MadeIds' = MadeIds /\ Done' = Done
        BY <2>1 DEF Items, MadeIds, Done
      <3>2. {TermOf(i)' : i \in MadeIds'} = {TermOf(i) : i \in MadeIds}
        BY <2>4, <3>1
      <3>3. MadeStands' <=>
              /\ call'.todo \subseteq IdsOfTerms(Items')
              /\ ctx'.candidate = AsIds(call'.inputs) \cup Tagged("made", MadeIds')
              /\ MadeIds' \subseteq DOMAIN ctx'.table.terms
              /\ {TermOf(i)' : i \in MadeIds'} = {Canonical(Operation(Decode(t))) : t \in Done'}
        BY DEF MadeStands
      <3> QED
        BY <2>1, <3>1, <3>2, <3>3 DEF MadeStands
    <2>6. ResultRows(Derived)' = ResultRows(Derived)
      <3>1. ResultRows(Derived)' = {<<r[1], TermOf(r[2])'>> : r \in {s \in ctx'.candidate : s[1] \in Derived}}
        BY DEF ResultRows, Derived
      <3> QED
        BY <2>1, <2>4, <3>1 DEF ResultRows
    <2>7. ContextParts' /\ CallParts' /\ ReturnsReference'
      BY <2>1 DEF QueryInvariant, ContextParts, CallParts, ReturnsReference
    <2> QED
      BY <2>1, <2>5, <2>6, <2>7 DEF QueryInvariant
  <1> QED
    BY <1>1, <1>2, <1>3, <1>4, <1>5, <1>6, <1>7 DEF NativeQueryNext

(* On any literals, values and inputs, however evaluations fail, stop and   *)
(* share the source and the memo: what returns is what the terms give.      *)
THEOREM NativeRowsAreReference == NativeQuerySpec => []ReturnsReference
PROOF
  <1>1. QueryInvariant => ReturnsReference
    BY DEF QueryInvariant
  <1> QED
    BY <1>1, QueryInvariantBegins, QueryInvariantKept, PTL DEF NativeQuerySpec
=============================================================================
