--------------------------- MODULE ProviderProofs ---------------------------
(***************************************************************************)
(* Proofs about the provider registry: its cache is exact, its batches are *)
(* those of SnapshotReads, and its scans those of SnapshotScans.           *)
(***************************************************************************)
EXTENDS ProviderCursors, LoopProofs, FiniteSetTheorems, SequenceTheorems, TLAPS

-----------------------------------------------------------------------------
(* The sums of the cache                                                    *)

Entry == [key : KeyType, value : Outcomes, size : Nat]

LEMMA EntriesOf ==
  ASSUME NEW s \in Seq(Entry)
  PROVE  \A i \in 1 .. Len(s) : s[i] \in Entry /\ s[i].size \in Nat
PROOF
  <1>1. \A e \in Entry : e.size \in Nat
    BY DEF Entry
  <1> QED
    BY <1>1

(* Charged is what its recursion says.                                      *)
LEMMA ChargedSums ==
  ASSUME NEW s \in Seq(Entry)
  PROVE  /\ Charged(s) \in [0 .. Len(s) -> Nat]
         /\ Charged(s)[0] = 0
         /\ \A i \in 1 .. Len(s) : Charged(s)[i] = Charged(s)[i - 1] + s[i].size
PROOF
  <1> DEFINE n == Len(s)
             round == [i \in 1 .. n |-> [x \in Nat |-> x + s[i].size]]
             F(f) == f = [i \in 0 .. n |-> IF i = 0 THEN 0 ELSE f[i - 1] + s[i].size]
             sum == CHOOSE f : F(f)
  <1>1. n \in Nat /\ \A i \in 1 .. n : s[i].size \in Nat
    BY EntriesOf
  <1>2. \A i \in 1 .. n, x \in Nat : round[i][x] = x + s[i].size /\ round[i][x] \in Nat
    BY <1>1
  <1>3. PICK f : f \in Loops(n, Nat, 0, round)
    <2>1. 0 \in Nat
      OBVIOUS
    <2> HIDE DEF n, round
    <2>2. Loops(n, Nat, 0, round) # {}
      BY <1>1, <1>2, <2>1, LoopExists
    <2> QED
      BY <2>2
  <1>4. f \in [0 .. n -> Nat] /\ f[0] = 0 /\ \A i \in 1 .. n : f[i] = round[i][f[i - 1]]
    <2> HIDE DEF n, round
    <2> QED
      BY <1>3 DEF Loops
  <1>5. \A i \in 1 .. n : f[i] = f[i - 1] + s[i].size
    <2> TAKE i \in 1 .. n
    <2>1. f[i - 1] \in Nat
      BY <1>1, <1>4
    <2> HIDE DEF round
    <2> QED
      BY <1>2, <1>4, <2>1
  <1>6. F(f)
    <2> HIDE DEF n
    <2> QED
      BY <1>1, <1>4, <1>5
  <1>7. F(sum)
    <2> HIDE DEF F
    <2> QED
      BY <1>6
  <1>8. Charged(s) = sum
    BY DEF Charged
  <1>9. sum[0] = 0 /\ \A i \in 1 .. n : sum[i] = sum[i - 1] + s[i].size
    <2> HIDE DEF n, sum
    <2> QED
      BY <1>1, <1>7
  <1>10. \A i \in 0 .. n : sum[i] \in Nat
    <2> DEFINE S == {i \in 0 .. n : sum[i] \in Nat}
    <2> HIDE DEF n, sum
    <2>1. 0 \in S
      BY <1>1, <1>9
    <2>2. \A i \in 0 .. n - 1 : i \in S => i + 1 \in S
      <3> SUFFICES ASSUME NEW i \in 0 .. n - 1, i \in S
                   PROVE  i + 1 \in S
        OBVIOUS
      <3>1. i + 1 \in 1 .. n /\ (i + 1) - 1 = i
        BY <1>1
      <3>2. sum[i + 1] = sum[i] + s[i + 1].size
        BY <1>9, <3>1
      <3> QED
        BY <1>1, <3>1, <3>2
    <2> HIDE DEF S
    <2>3. \A i \in 0 .. n : i \in S
      BY <1>1, <2>1, <2>2, UpTo
    <2> QED
      BY <2>3 DEF S
  <1>11. sum \in [0 .. n -> Nat]
    <2> HIDE DEF n, sum
    <2> QED
      BY <1>7, <1>10
  <1> QED
    BY <1>8, <1>9, <1>11

(* Two sequences of entries, one of which goes on from place a as the other *)
(* begins, are charged alike from there on.                                 *)
LEMMA ChargedFrom ==
  ASSUME NEW s \in Seq(Entry), NEW t \in Seq(Entry), NEW a \in 0 .. Len(s),
         NEW b \in 0 .. Len(t), NEW k \in Nat, a + k <= Len(s), b + k <= Len(t),
         \A i \in 1 .. k : s[a + i] = t[b + i]
  PROVE  Charged(s)[a + k] - Charged(s)[a] = Charged(t)[b + k] - Charged(t)[b]
PROOF
  <1> DEFINE S == {i \in 0 .. k : Charged(s)[a + i] - Charged(s)[a]
                                    = Charged(t)[b + i] - Charged(t)[b]}
  <1>0. Len(s) \in Nat /\ Len(t) \in Nat
    OBVIOUS
  <1>1. 0 \in S
    <2>1. Charged(s)[a + 0] = Charged(s)[a] /\ Charged(t)[b + 0] = Charged(t)[b]
      BY <1>0
    <2>2. Charged(s)[a] \in Nat /\ Charged(t)[b] \in Nat
      BY ChargedSums
    <2> QED
      BY <2>1, <2>2
  <1>2. \A i \in 0 .. k - 1 : i \in S => i + 1 \in S
    <2> SUFFICES ASSUME NEW i \in 0 .. k - 1, i \in S
                 PROVE  i + 1 \in S
      OBVIOUS
    <2>1. Charged(s)[a + i + 1] = Charged(s)[a + i] + s[a + i + 1].size
      <3>1. a + i + 1 \in 1 .. Len(s) /\ (a + i + 1) - 1 = a + i
        OBVIOUS
      <3> QED
        BY <3>1, ChargedSums
    <2>2. Charged(t)[b + i + 1] = Charged(t)[b + i] + t[b + i + 1].size
      <3>1. b + i + 1 \in 1 .. Len(t) /\ (b + i + 1) - 1 = b + i
        OBVIOUS
      <3> QED
        BY <3>1, ChargedSums
    <2>3. s[a + i + 1] = t[b + i + 1]
      <3>1. i + 1 \in 1 .. k
        OBVIOUS
      <3>2. s[a + (i + 1)] = t[b + (i + 1)]
        BY <3>1
      <3>3. a + (i + 1) = a + i + 1 /\ b + (i + 1) = b + i + 1
        OBVIOUS
      <3> QED
        BY <3>2, <3>3
    <2>4. /\ Charged(s)[a + i] \in Nat /\ Charged(s)[a] \in Nat
          /\ Charged(t)[b + i] \in Nat /\ Charged(t)[b] \in Nat
          /\ s[a + i + 1].size \in Nat
      <3>1. a + i \in 0 .. Len(s) /\ b + i \in 0 .. Len(t) /\ a + i + 1 \in 1 .. Len(s)
        OBVIOUS
      <3>2. s[a + i + 1].size \in Nat
        BY <3>1, EntriesOf
      <3>3. \A j \in 0 .. Len(s) : Charged(s)[j] \in Nat
        BY ChargedSums
      <3>4. \A j \in 0 .. Len(t) : Charged(t)[j] \in Nat
        BY ChargedSums
      <3> QED
        BY <3>1, <3>2, <3>3, <3>4
    <2>5. /\ Charged(s)[a + i] - Charged(s)[a] = Charged(t)[b + i] - Charged(t)[b]
          /\ a + (i + 1) = a + i + 1 /\ b + (i + 1) = b + i + 1
      OBVIOUS
    <2> DEFINE p == Charged(s)[a + i]
               q == Charged(t)[b + i]
               v == Charged(s)[a]
               w == Charged(t)[b]
               size == s[a + i + 1].size
    <2>6. /\ Charged(s)[a + (i + 1)] = p + size /\ Charged(t)[b + (i + 1)] = q + size
          /\ p - v = q - w /\ p \in Nat /\ q \in Nat /\ v \in Nat /\ w \in Nat /\ size \in Nat
      BY <2>1, <2>2, <2>3, <2>4, <2>5
    <2> HIDE DEF p, q, v, w, size
    <2>7. (p + size) - v = (q + size) - w
      BY <2>6
    <2> QED
      BY <2>6, <2>7 DEF v, w
  <1> HIDE DEF S
  <1>3. \A i \in 0 .. k : i \in S
    BY <1>1, <1>2, UpTo
  <1> QED
    BY <1>3 DEF S
(* Sequences that begin alike are charged alike for their beginning.        *)
LEMMA ChargedPrefix ==
  ASSUME NEW s \in Seq(Entry), NEW t \in Seq(Entry), NEW k \in Nat, k <= Len(s), k <= Len(t),
         \A i \in 1 .. k : s[i] = t[i]
  PROVE  Charged(s)[k] = Charged(t)[k]
PROOF
  <1> DEFINE z == 0
  <1>1. z \in 0 .. Len(s) /\ z \in 0 .. Len(t) /\ z + k = k
    OBVIOUS
  <1>2. \A i \in 1 .. k : s[z + i] = t[z + i]
    OBVIOUS
  <1> HIDE DEF z
  <1>3. Charged(s)[z + k] - Charged(s)[z] = Charged(t)[z + k] - Charged(t)[z]
    BY <1>1, <1>2, ChargedFrom
  <1>4. Charged(s)[0] = 0 /\ Charged(t)[0] = 0 /\ Charged(s)[k] \in Nat /\ Charged(t)[k] \in Nat
    <2>1. k \in 0 .. Len(s) /\ k \in 0 .. Len(t)
      OBVIOUS
    <2> QED
      BY <2>1, ChargedSums
  <1> QED
    BY <1>1, <1>3, <1>4 DEF z

(* What is left when the first n entries are gone is charged what they were *)
(* not.                                                                     *)
LEMMA ChargedSuffix ==
  ASSUME NEW s \in Seq(Entry), NEW t \in Seq(Entry), NEW n \in 0 .. Len(s),
         Len(t) = Len(s) - n, \A i \in 1 .. Len(t) : t[i] = s[n + i]
  PROVE  Total(t) = Total(s) - Charged(s)[n]
PROOF
  <1> DEFINE z == 0
             k == Len(t)
  <1>1. /\ z \in 0 .. Len(t) /\ k \in Nat /\ z + k = Len(t) /\ n + k = Len(s)
        /\ n + k <= Len(s) /\ z + k <= Len(t)
    OBVIOUS
  <1>2. \A i \in 1 .. k : s[n + i] = t[z + i]
    OBVIOUS
  <1> HIDE DEF z, k
  <1>3. Charged(s)[n + k] - Charged(s)[n] = Charged(t)[z + k] - Charged(t)[z]
    BY <1>1, <1>2, ChargedFrom
  <1>4. Charged(t)[0] = 0 /\ Charged(t)[Len(t)] \in Nat
    <2>1. Len(t) \in 0 .. Len(t)
      OBVIOUS
    <2> QED
      BY <2>1, ChargedSums
  <1>5. Total(s) - Charged(s)[n] = Total(t) - Charged(t)[z]
    BY <1>1, <1>3 DEF Total
  <1>6. Charged(t)[z] = 0 /\ Total(t) \in Nat
    BY <1>4 DEF z, Total
  <1> QED
    BY <1>5, <1>6

-----------------------------------------------------------------------------
(* The operations of the cache                                              *)

CacheType == [entries : Seq(Entry), bytes : Nat]

Budgeted == {c \in CacheType : WithinBudget(c)}

(* An entry that is removed takes its charge with it.                       *)
LEMMA TotalRemoved ==
  ASSUME NEW s \in Seq(Entry), NEW i \in 1 .. Len(s)
  PROVE  Total(RemoveAt(s, i)) = Total(s) - s[i].size
PROOF
  <1> DEFINE t == RemoveAt(s, i)
             n == Len(s)
  <1>1. /\ t \in Seq(Entry) /\ Len(t) = n - 1 /\ n \in Nat /\ i \in 1 .. n
        /\ \A j \in 1 .. i - 1 : t[j] = s[j]
        /\ \A j \in i .. n - 1 : t[j] = s[j + 1]
    BY Removed
  <1> HIDE DEF t
  <1>2. Charged(s)[i - 1] = Charged(t)[i - 1]
    <2>1. i - 1 \in Nat /\ i - 1 <= Len(s) /\ i - 1 <= Len(t)
      BY <1>1
    <2> QED
      BY <1>1, <2>1, ChargedPrefix
  <1>3. Charged(s)[i + (n - i)] - Charged(s)[i]
          = Charged(t)[(i - 1) + (n - i)] - Charged(t)[i - 1]
    <2>1. \A j \in 1 .. n - i : s[i + j] = t[(i - 1) + j]
      <3> TAKE j \in 1 .. n - i
      <3>1. (i - 1) + j \in i .. n - 1 /\ ((i - 1) + j) + 1 = i + j
        BY <1>1
      <3> QED
        BY <1>1, <3>1
    <2>2. /\ i \in 0 .. Len(s) /\ i - 1 \in 0 .. Len(t) /\ n - i \in Nat
          /\ i + (n - i) <= Len(s) /\ (i - 1) + (n - i) <= Len(t)
      BY <1>1
    <2> QED
      BY <1>1, <2>1, <2>2, ChargedFrom
  <1>4. Charged(s)[i] = Charged(s)[i - 1] + s[i].size
    BY <1>1, ChargedSums
  <1>5. s[i].size \in Nat
    BY EntriesOf
  <1>6. /\ Charged(s)[n] \in Nat /\ Charged(s)[i - 1] \in Nat
        /\ Charged(t)[n - 1] \in Nat /\ Charged(t)[i - 1] \in Nat
    <2>1. \A j \in 0 .. n : Charged(s)[j] \in Nat
      BY ChargedSums
    <2>2. \A j \in 0 .. n - 1 : Charged(t)[j] \in Nat
      BY <1>1, ChargedSums
    <2>3. n \in 0 .. n /\ i - 1 \in 0 .. n /\ n - 1 \in 0 .. n - 1 /\ i - 1 \in 0 .. n - 1
      BY <1>1
    <2> QED
      BY <2>1, <2>2, <2>3
  <1>7. i + (n - i) = n /\ (i - 1) + (n - i) = n - 1
    BY <1>1
  <1> DEFINE a == Charged(s)[i - 1]
             b == Charged(t)[i - 1]
             y == Charged(s)[n]
             z == Charged(t)[n - 1]
             size == s[i].size
  <1>8. /\ a = b /\ y - (a + size) = z - b
        /\ a \in Nat /\ b \in Nat /\ y \in Nat /\ z \in Nat /\ size \in Nat
    BY <1>2, <1>3, <1>4, <1>5, <1>6, <1>7
  <1>9. z = y - size
    <2> HIDE DEF a, b, y, z, size
    <2> QED
      BY <1>8
  <1> QED
    BY <1>1, <1>9 DEF Total, t

(* A cache without an entry keeps the others, and its budgets.              *)
LEMMA WithoutKeeps ==
  ASSUME NEW c \in Budgeted, NEW k
  PROVE  /\ Without(c, k) \in Budgeted
         /\ k \notin KeysOf(Without(c, k))
         /\ Range(Without(c, k).entries) \subseteq Range(c.entries)
PROOF
  <1>1. c \in CacheType /\ WithinBudget(c)
    BY DEF Budgeted
  <1>2. CASE k \notin KeysOf(c)
    BY <1>2 DEF Without
  <1>3. CASE k \in KeysOf(c)
    <2> DEFINE s == c.entries
               i == Place(c, k)
               t == RemoveAt(s, i)
    <2>1. s \in Seq(Entry) /\ Len(s) \in Nat /\ c.bytes \in Nat /\ MaxBytes \in Nat /\ MaxEntries \in Nat
      BY <1>1, LimitsAssumption DEF CacheType
    <2>2. i \in 1 .. Len(s) /\ s[i].key = k
      BY <1>3, <2>1 DEF KeysOf, Place
    <2>3. Without(c, k) = [entries |-> t, bytes |-> c.bytes - s[i].size]
      BY <1>3 DEF Without, EntryOf
    <2> HIDE DEF s, i
    <2>4. /\ t \in Seq(Entry) /\ Len(t) = Len(s) - 1
          /\ \A j \in 1 .. i - 1 : t[j] = s[j]
          /\ \A j \in i .. Len(s) - 1 : t[j] = s[j + 1]
      BY <2>1, <2>2, Removed
    <2>5. Total(t) = Total(s) - s[i].size
      BY <2>1, <2>2, TotalRemoved
    <2> HIDE DEF t
    <2>6. Total(t) \in Nat
      BY <2>4, ChargedSums DEF Total
    <2>7. s[i].size \in Nat
      BY <2>1, <2>2, EntriesOf
    <2>8. /\ c.bytes = Total(s) /\ c.bytes <= MaxBytes /\ Len(s) <= MaxEntries
          /\ \A j, m \in 1 .. Len(s) : s[j].key = s[m].key => j = m
      BY <1>1, <2>1 DEF WithinBudget, s
    <2>9. c.bytes - s[i].size = Total(t)
      BY <2>5, <2>8
    <2>10. \A j \in 1 .. Len(t) : \E m \in 1 .. Len(s) :
            m # i /\ t[j] = s[m] /\ m = IF j < i THEN j ELSE j + 1
      <3> TAKE j \in 1 .. Len(t)
      <3>1. CASE j < i
        <4>1. j \in 1 .. i - 1 /\ j \in 1 .. Len(s) /\ j # i
          BY <2>1, <2>2, <2>4, <3>1
        <4> QED
          BY <2>4, <3>1, <4>1
      <3>2. CASE ~ (j < i)
        <4>1. j \in i .. Len(s) - 1 /\ j + 1 \in 1 .. Len(s) /\ j + 1 # i
          BY <2>1, <2>2, <2>4, <3>2
        <4> QED
          BY <2>4, <3>2, <4>1
      <3> QED
        BY <3>1, <3>2
    <2>11. \A j \in 1 .. Len(t) : t[j].key # k
      BY <2>2, <2>8, <2>10
    <2>12. \A j, m \in 1 .. Len(t) : t[j].key = t[m].key => j = m
      <3> TAKE j \in 1 .. Len(t), m \in 1 .. Len(t)
      <3> HAVE t[j].key = t[m].key
      <3>1. PICK x \in 1 .. Len(s) : t[j] = s[x] /\ x = IF j < i THEN j ELSE j + 1
        BY <2>10
      <3>2. PICK y \in 1 .. Len(s) : t[m] = s[y] /\ y = IF m < i THEN m ELSE m + 1
        BY <2>10
      <3>3. x = y
        BY <2>8, <3>1, <3>2
      <3> QED
        BY <2>2, <2>4, <3>1, <3>2, <3>3
    <2>13. DOMAIN t = 1 .. Len(t) /\ DOMAIN s = 1 .. Len(s)
      BY <2>1, <2>4
    <2>14. Range(t) \subseteq Range(s)
      BY <2>10, <2>13 DEF Range
    <2>15. Total(t) <= MaxBytes /\ Len(t) <= MaxEntries
      BY <2>1, <2>4, <2>6, <2>7, <2>8, <2>9
    <2> DEFINE d == [entries |-> t, bytes |-> c.bytes - s[i].size]
    <2>16. d \in CacheType
      BY <2>4, <2>6, <2>9 DEF CacheType
    <2>17. WithinBudget(d)
      BY <2>9, <2>12, <2>13, <2>15 DEF WithinBudget
    <2>18. k \notin KeysOf(d)
      BY <2>11, <2>13 DEF KeysOf
    <2> QED
      BY <2>3, <2>14, <2>16, <2>17, <2>18 DEF Budgeted, s
  <1> QED
    BY <1>2, <1>3
(* A new entry that fits keeps the budgets.                                 *)
LEMMA AppendedKeeps ==
  ASSUME NEW c \in Budgeted, NEW e \in Entry, c.bytes + e.size <= MaxBytes,
         Len(c.entries) + 1 <= MaxEntries, e.key \notin KeysOf(c)
  PROVE  [entries |-> Append(c.entries, e), bytes |-> c.bytes + e.size] \in Budgeted
PROOF
  <1> DEFINE s == c.entries
             t == Append(s, e)
             n == Len(s)
             d == [entries |-> t, bytes |-> c.bytes + e.size]
  <1>1. /\ s \in Seq(Entry) /\ n \in Nat /\ c.bytes \in Nat /\ c.bytes = Total(s)
        /\ \A i, j \in 1 .. n : s[i].key = s[j].key => i = j
    BY DEF Budgeted, CacheType, WithinBudget
  <1>2. e.size \in Nat
    BY DEF Entry
  <1>3. \A i \in 1 .. n : s[i].key # e.key
    BY <1>1 DEF KeysOf
  <1> HIDE DEF s
  <1>4. t \in Seq(Entry) /\ Len(t) = n + 1 /\ t[n + 1] = e /\ \A i \in 1 .. n : t[i] = s[i]
    BY <1>1
  <1> HIDE DEF t
  <1>5. Total(t) = Total(s) + e.size
    <2>1. Charged(s)[n] = Charged(t)[n]
      <3>1. n <= Len(s) /\ n <= Len(t) /\ \A i \in 1 .. n : s[i] = t[i]
        BY <1>1, <1>4
      <3> HIDE DEF n
      <3> QED
        BY <1>1, <1>4, <3>1, ChargedPrefix
    <2>3. Charged(t)[n + 1] = Charged(t)[n] + e.size
      <3>1. n + 1 \in 1 .. Len(t) /\ (n + 1) - 1 = n
        BY <1>1, <1>4
      <3> QED
        BY <1>4, <3>1, ChargedSums
    <2> QED
      BY <1>4, <2>1, <2>3 DEF Total
  <1>6. \A i, j \in 1 .. n + 1 : t[i].key = t[j].key => i = j
    <2> TAKE i \in 1 .. n + 1, j \in 1 .. n + 1
    <2>1. CASE i = n + 1 \/ j = n + 1
      <3>1. \A m \in 1 .. n + 1 : m = n + 1 \/ m \in 1 .. n
        BY <1>1
      <3> QED
        BY <1>3, <1>4, <2>1, <3>1
    <2>2. CASE i \in 1 .. n /\ j \in 1 .. n
      BY <1>1, <1>4, <2>2
    <2> QED
      BY <1>1, <2>1, <2>2
  <1>7. d \in CacheType
    BY <1>1, <1>2, <1>4 DEF CacheType
  <1>8. WithinBudget(d)
    <2>1. d.entries = t /\ d.bytes = Total(t) /\ DOMAIN t = 1 .. n + 1
      BY <1>1, <1>4, <1>5
    <2> QED
      BY <1>4, <1>6, <2>1 DEF WithinBudget, s
  <1> QED
    BY <1>7, <1>8 DEF Budgeted, s, t

(* Using an entry changes the order only.                                   *)
LEMMA TouchedKeeps ==
  ASSUME NEW c \in Budgeted, NEW k
  PROVE  Touched(c, k) \in Budgeted /\ Range(Touched(c, k).entries) \subseteq Range(c.entries)
PROOF
  <1>1. CASE k \notin KeysOf(c)
    BY <1>1 DEF Touched
  <1>2. CASE k \in KeysOf(c)
    <2> DEFINE d == Without(c, k)
               e == EntryOf(c, k)
               i == Place(c, k)
    <2>1. /\ c \in CacheType /\ c.entries \in Seq(Entry) /\ c.bytes \in Nat
          /\ c.bytes <= MaxBytes /\ Len(c.entries) <= MaxEntries
      BY DEF Budgeted, CacheType, WithinBudget
    <2>2. i \in 1 .. Len(c.entries) /\ c.entries[i].key = k
      BY <1>2, <2>1 DEF KeysOf, Place
    <2>3. e = c.entries[i] /\ d = [entries |-> RemoveAt(c.entries, i), bytes |-> c.bytes - e.size]
      BY <1>2 DEF EntryOf, Without
    <2>4. d \in Budgeted /\ k \notin KeysOf(d) /\ Range(d.entries) \subseteq Range(c.entries)
      BY WithoutKeeps
    <2>5. e \in Entry /\ e.size \in Nat
      BY <2>1, <2>2, <2>3, EntriesOf
    <2>6. Touched(c, k) = [entries |-> Append(d.entries, e), bytes |-> c.bytes]
      <3>1. Touched(c, k) = [c EXCEPT !.entries = Append(RemoveAt(c.entries, i), e)]
        BY <1>2 DEF Touched
      <3>2. d.entries = RemoveAt(c.entries, i)
        BY <2>3
      <3>3. \A x : [c EXCEPT !.entries = x] = [entries |-> x, bytes |-> c.bytes]
        BY <2>1 DEF CacheType
      <3> QED
        BY <3>1, <3>2, <3>3
    <2> HIDE DEF d, e, i
    <2>7. d.bytes + e.size = c.bytes
      BY <2>1, <2>3, <2>5
    <2>8. Len(d.entries) + 1 <= MaxEntries
      <3>1. d.entries = RemoveAt(c.entries, i)
        BY <2>3
      <3>2. Len(RemoveAt(c.entries, i)) = Len(c.entries) - 1
        BY <2>1, <2>2, Removed
      <3>3. Len(c.entries) \in Nat
        BY <2>1
      <3> QED
        BY <2>1, <3>1, <3>2, <3>3, LimitsAssumption
    <2>9. Touched(c, k) \in Budgeted
      <3>1. e.key = k
        BY <2>2, <2>3
      <3> QED
        BY <2>1, <2>4, <2>5, <2>6, <2>7, <2>8, <3>1, AppendedKeeps
    <2>10. Range(Touched(c, k).entries) \subseteq Range(c.entries)
      <3>1. d.entries \in Seq(Entry)
        BY <2>4 DEF Budgeted, CacheType
      <3>2. Range(Append(d.entries, e)) \subseteq Range(d.entries) \cup {e}
        BY <2>5, <3>1 DEF Range
      <3>3. e \in Range(c.entries)
        BY <2>1, <2>2, <2>3 DEF Range
      <3>4. Touched(c, k).entries = Append(d.entries, e)
        BY <2>6
      <3> QED
        BY <2>4, <3>2, <3>3, <3>4
    <2> QED
      BY <2>9, <2>10
  <1> QED
    BY <1>1, <1>2

(* Dropping the oldest entries keeps the others, and the budgets.           *)
LEMMA DroppedKeeps ==
  ASSUME NEW c \in Budgeted, NEW n \in 0 .. Len(c.entries)
  PROVE  /\ Dropped(c, n) \in Budgeted
         /\ Range(Dropped(c, n).entries) \subseteq Range(c.entries)
         /\ n = Len(c.entries) => Dropped(c, n).entries = <<>>
PROOF
  <1> DEFINE s == c.entries
             m == Len(s)
             t == SubSeq(s, n + 1, m)
             d == [entries |-> t, bytes |-> c.bytes - Charged(s)[n]]
  <1>1. /\ s \in Seq(Entry) /\ m \in Nat /\ c.bytes \in Nat /\ c.bytes = Total(s)
        /\ c.bytes <= MaxBytes /\ m <= MaxEntries
        /\ \A i, j \in 1 .. m : s[i].key = s[j].key => i = j
    BY DEF Budgeted, CacheType, WithinBudget
  <1>2. Dropped(c, n) = d
    BY DEF Dropped
  <1>3. n \in 0 .. m
    OBVIOUS
  <1> HIDE DEF s
  <1>4. t \in Seq(Entry) /\ Len(t) = m - n /\ \A i \in 1 .. m - n : t[i] = s[n + i]
    BY <1>1, <1>3
  <1>5. n = m => t = <<>>
    BY <1>1, <1>3
  <1> HIDE DEF t
  <1>6. Total(t) = Total(s) - Charged(s)[n]
    <2>1. Len(t) = Len(s) - n /\ n \in 0 .. Len(s) /\ \A i \in 1 .. Len(t) : t[i] = s[n + i]
      BY <1>3, <1>4
    <2> QED
      BY <1>1, <1>4, <2>1, ChargedSuffix
  <1>7. Total(t) \in Nat /\ Charged(s)[n] \in Nat /\ Total(s) \in Nat
    <2>1. Len(t) \in 0 .. Len(t) /\ n \in 0 .. Len(s) /\ Len(s) \in 0 .. Len(s)
      BY <1>1, <1>3, <1>4
    <2>2. \A j \in 0 .. Len(s) : Charged(s)[j] \in Nat
      BY <1>1, ChargedSums
    <2>3. \A j \in 0 .. Len(t) : Charged(t)[j] \in Nat
      BY <1>4, ChargedSums
    <2> QED
      BY <2>1, <2>2, <2>3 DEF Total
  <1>8. d \in CacheType
    BY <1>1, <1>4, <1>6, <1>7 DEF CacheType
  <1>9. WithinBudget(d)
    <2>1. d.entries = t /\ d.bytes = Total(t) /\ DOMAIN t = 1 .. m - n
      BY <1>1, <1>3, <1>4, <1>6
    <2>2. \A i, j \in 1 .. m - n : t[i].key = t[j].key => i = j
      <3> TAKE i \in 1 .. m - n, j \in 1 .. m - n
      <3>1. n + i \in 1 .. m /\ n + j \in 1 .. m
        BY <1>1, <1>3
      <3>2. t[i] = s[n + i] /\ t[j] = s[n + j]
        BY <1>4
      <3>3. t[i].key = t[j].key => n + i = n + j
        BY <1>1, <3>1, <3>2
      <3> QED
        BY <1>1, <1>3, <3>3
    <2>3. d.bytes <= MaxBytes /\ Len(t) <= MaxEntries
      BY <1>1, <1>3, <1>4, <1>7, LimitsAssumption
    <2> QED
      BY <2>1, <2>2, <2>3 DEF WithinBudget
  <1>10. Range(t) \subseteq Range(s)
    <2>1. \A i \in 1 .. m - n : n + i \in 1 .. m
      BY <1>1, <1>3
    <2>2. DOMAIN s = 1 .. m /\ DOMAIN t = 1 .. m - n
      BY <1>1, <1>4
    <2>3. \A i \in DOMAIN t : n + i \in DOMAIN s /\ t[i] = s[n + i]
      BY <1>4, <2>1, <2>2
    <2> QED
      BY <2>3 DEF Range
  <1> QED
    BY <1>2, <1>5, <1>8, <1>9, <1>10 DEF Budgeted, s
(* The eviction loop ends with room for the new entry.                      *)
LEMMA EvictedFits ==
  ASSUME NEW c \in Budgeted, NEW size
  PROVE  /\ Evicted(c, size) \in Budgeted
         /\ Range(Evicted(c, size).entries) \subseteq Range(c.entries)
         /\ Fits(Evicted(c, size), size)
PROOF
  <1> DEFINE n == Len(c.entries)
             T == {i \in 0 .. n : Fits(Dropped(c, i), size)}
             Stops(i) == /\ Fits(Dropped(c, i), size)
                         /\ \A m \in 0 .. i - 1 : ~Fits(Dropped(c, m), size)
             last == CHOOSE i \in 0 .. n : Stops(i)
  <1>1. n \in Nat
    BY DEF Budgeted, CacheType
  <1>2. n \in T
    <2>1. Fits(Dropped(c, n), size)
      <3>1. Dropped(c, n).entries = <<>>
        BY <1>1, DroppedKeeps
      <3> QED
        BY <3>1 DEF Fits
    <2> QED
      BY <1>1, <2>1
  <1>3. PICK i \in T : \A m \in T : i <= m
    <2>1. T \in SUBSET Nat
      BY <1>1
    <2> HIDE DEF T
    <2> QED
      BY <1>2, <2>1, LeastNatural
  <1>4. i \in 0 .. n /\ Stops(i)
    <2>1. \A m \in 0 .. i - 1 : m \in 0 .. n /\ ~ (i <= m)
      BY <1>1, <1>3
    <2> QED
      BY <1>3, <2>1
  <1>5. last \in 0 .. n /\ Stops(last)
    <2> HIDE DEF Stops
    <2> QED
      BY <1>4
  <1>6. Evicted(c, size) = Dropped(c, last)
    BY DEF Evicted
  <1> HIDE DEF last
  <1> QED
    BY <1>5, <1>6, DroppedKeeps

Stored(k, v) == [key |-> k, value |-> v, size |-> SizeOf(k, v)]

(* _cache_put keeps the budgets, and adds nothing else.                     *)
LEMMA PutKeeps ==
  ASSUME NEW c \in Budgeted, NEW k \in KeyType, NEW v \in Outcomes
  PROVE  /\ Put(c, k, v) \in Budgeted
         /\ Range(Put(c, k, v).entries) \subseteq Range(c.entries) \cup {Stored(k, v)}
PROOF
  <1>1. CASE Bypassed(k, v)
    BY <1>1 DEF Put
  <1>2. CASE ~Bypassed(k, v)
    <2> DEFINE size == SizeOf(k, v)
               d == Without(c, k)
               e == Evicted(d, size)
               new == Stored(k, v)
    <2>1. /\ size \in Nat /\ size <= MaxBytes /\ MaxEntries # 0
          /\ MaxEntries \in Nat /\ MaxBytes \in Nat
      BY <1>2, SizeAssumption, LimitsAssumption DEF Bypassed
    <2>2. d \in Budgeted /\ k \notin KeysOf(d) /\ Range(d.entries) \subseteq Range(c.entries)
      BY WithoutKeeps
    <2>3. e \in Budgeted /\ Range(e.entries) \subseteq Range(d.entries) /\ Fits(e, size)
      <3> HIDE DEF d, size
      <3> QED
        BY <2>2, EvictedFits
    <2>4. Put(c, k, v) = [entries |-> Append(e.entries, new), bytes |-> e.bytes + size]
      BY <1>2 DEF Put, Added, Stored
    <2>5. new \in Entry /\ new.key = k /\ new.size = size
      BY <2>1 DEF Stored, Entry
    <2> HIDE DEF d, e, new, size
    <2>6. /\ e.entries \in Seq(Entry) /\ e.bytes \in Nat /\ e.bytes = Total(e.entries)
          /\ d.entries \in Seq(Entry)
      BY <2>2, <2>3 DEF Budgeted, CacheType, WithinBudget
    <2>7. e.bytes + size <= MaxBytes /\ Len(e.entries) + 1 <= MaxEntries
      <3>1. CASE e.entries = <<>>
        <4>1. <<>> \in Seq(Entry) /\ Len(<<>>) = 0
          OBVIOUS
        <4>2. e.bytes = 0
          <5>1. Charged(<<>>)[0] = 0
            BY <4>1, ChargedSums
          <5> QED
            BY <2>6, <3>1, <4>1, <5>1 DEF Total
        <4> QED
          BY <2>1, <3>1, <4>1, <4>2
      <3>2. CASE e.entries # <<>>
        <4>1. Len(e.entries) < MaxEntries /\ e.bytes + size <= MaxBytes
          BY <2>3, <3>2 DEF Fits
        <4> QED
          BY <2>1, <2>6, <4>1
      <3> QED
        BY <3>1, <3>2
    <2>8. k \notin KeysOf(e)
      <3>1. \A x \in Range(d.entries) : x.key # k
        BY <2>2 DEF KeysOf, Range
      <3> QED
        BY <2>3, <3>1 DEF KeysOf, Range
    <2>9. Put(c, k, v) \in Budgeted
      BY <2>3, <2>4, <2>5, <2>7, <2>8, AppendedKeeps
    <2>10. Range(Put(c, k, v).entries) \subseteq Range(c.entries) \cup {new}
      <3>1. Range(Append(e.entries, new)) \subseteq Range(e.entries) \cup {new}
        BY <2>5, <2>6 DEF Range
      <3>2. Put(c, k, v).entries = Append(e.entries, new)
        BY <2>4
      <3> QED
        BY <2>2, <2>3, <3>1, <3>2
    <2> QED
      BY <2>9, <2>10 DEF new
  <1> QED
    BY <1>1, <1>2

StagedType == [key : KeyType, value : Outcomes]

(* Publishing what is staged keeps the budgets, and adds nothing else.      *)
LEMMA PutAllKeeps ==
  ASSUME NEW c \in Budgeted, NEW staged \in Seq(StagedType)
  PROVE  /\ PutAll(c, staged) \in Budgeted
         /\ \A e \in Range(PutAll(c, staged).entries) :
              \/ e \in Range(c.entries)
              \/ \E i \in 1 .. Len(staged) : e = Stored(staged[i].key, staged[i].value)
PROOF
  <1> DEFINE n == Len(staged)
             New == {Stored(staged[i].key, staged[i].value) : i \in 1 .. n}
             D == {d \in Budgeted : Range(d.entries) \subseteq Range(c.entries) \cup New}
             round == [i \in 1 .. n |-> [d \in D |-> Put(d, staged[i].key, staged[i].value)]]
             F(f) == f = [i \in 0 .. n |->
                            IF i = 0 THEN c ELSE Put(f[i - 1], staged[i].key, staged[i].value)]
             after == CHOOSE f : F(f)
  <1>1. n \in Nat /\ c \in D
    OBVIOUS
  <1>2. \A i \in 1 .. n, d \in D : Put(d, staged[i].key, staged[i].value) \in D
    <2> TAKE i \in 1 .. n, d \in D
    <2>1. staged[i].key \in KeyType /\ staged[i].value \in Outcomes
      <3>1. staged[i] \in StagedType
        OBVIOUS
      <3> QED
        BY <3>1 DEF StagedType
    <2>2. Stored(staged[i].key, staged[i].value) \in New
      OBVIOUS
    <2>3. d \in Budgeted /\ Range(d.entries) \subseteq Range(c.entries) \cup New
      OBVIOUS
    <2> HIDE DEF New
    <2> QED
      BY <2>1, <2>2, <2>3, PutKeeps
  <1>3. \A i \in 1 .. n, d \in D :
          round[i][d] = Put(d, staged[i].key, staged[i].value) /\ round[i][d] \in D
    <2> HIDE DEF D, n
    <2> QED
      BY <1>2
  <1> HIDE DEF D, n, round
  <1>4. PICK f : f \in Loops(n, D, c, round)
    <2>1. Loops(n, D, c, round) # {}
      BY <1>1, <1>3, LoopExists
    <2> QED
      BY <2>1
  <1>5. f \in [0 .. n -> D] /\ f[0] = c /\ \A i \in 1 .. n : f[i] = round[i][f[i - 1]]
    BY <1>4 DEF Loops
  <1>6. \A i \in 1 .. n : f[i] = Put(f[i - 1], staged[i].key, staged[i].value)
    <2> TAKE i \in 1 .. n
    <2>1. f[i - 1] \in D
      BY <1>1, <1>5
    <2> QED
      BY <1>3, <1>5, <2>1
  <1>7. F(f)
    BY <1>1, <1>5, <1>6
  <1>8. F(after)
    <2> HIDE DEF F
    <2> QED
      BY <1>7
  <1>9. PutAll(c, staged) = after[n]
    BY DEF PutAll, n
  <1> HIDE DEF after
  <1>10. after[0] = c /\ \A i \in 1 .. n : after[i] = Put(after[i - 1], staged[i].key, staged[i].value)
    BY <1>1, <1>8
  <1>11. after[n] \in D
    <2> DEFINE S == {i \in 0 .. n : after[i] \in D}
    <2>1. 0 \in S
      BY <1>1, <1>10
    <2>2. \A i \in 0 .. n - 1 : i \in S => i + 1 \in S
      <3> SUFFICES ASSUME NEW i \in 0 .. n - 1, i \in S
                   PROVE  i + 1 \in S
        OBVIOUS
      <3>1. i + 1 \in 1 .. n /\ (i + 1) - 1 = i
        BY <1>1
      <3>2. after[i + 1] = Put(after[i], staged[i + 1].key, staged[i + 1].value)
        BY <1>10, <3>1
      <3> QED
        BY <1>1, <1>2, <3>1, <3>2
    <2> HIDE DEF S
    <2>3. \A i \in 0 .. n : i \in S
      BY <1>1, <2>1, <2>2, UpTo
    <2> QED
      BY <1>1, <2>3 DEF S
  <1> QED
    BY <1>9, <1>11 DEF D, n
-----------------------------------------------------------------------------
(* The invariant                                                            *)

Pinning == [phase : {"pin"}, op : Operations, generation : 1 .. MaxGeneration]

OpenCalls == [phase : {"rows", "batches", "asked"}, op : Operations, generation : 1 .. MaxGeneration,
         snapshot : Snapshots, adapter : Adapters, original : Seq(KeyType),
         found : UNION {[S -> Outcomes \cup {Pending}] : S \in SUBSET KeyType},
         requests : Seq(KeyType), answered : Nat, staged : Seq(StagedType), asked : Nat \X Nat]

CallType == {Idle} \cup Pinning \cup OpenCalls

TypeOK ==
  /\ registered \in [Operations -> Adapters]
  /\ generation \in 1 .. MaxGeneration
  /\ revision \in [Adapters -> 1 .. MaxRevision]
  /\ cache \in CacheType
  /\ call \in [Callers -> CallType]

(* What holds of a call that has its snapshot, whatever others do.          *)
Coherent(x) ==
  /\ Len(x.original) <= MaxRows
  /\ \A i \in 1 .. Len(x.original) : x.original[i] \in DOMAIN x.found
  /\ \A i \in 1 .. Len(x.requests) : x.requests[i] \in DOMAIN x.found
  /\ \A k \in DOMAIN x.found : k.op = x.op /\ k.snapshot = x.snapshot
  /\ x.answered <= Len(x.requests)
  /\ x.phase = "asked" =>
       x.asked[1] \in 1 .. generation /\ x.asked[2] \in 1 .. revision[x.adapter]

(* A request that no reply has answered yet.                                *)
Outstanding(x, k) == \E j \in x.answered + 1 .. Len(x.requests) : x.requests[j] = k

(* What holds of it while nobody has changed the registry.                  *)
UpToDate(x) ==
  /\ x.adapter = registered[x.op]
  /\ \A k \in DOMAIN x.found :
       k.generation = generation /\ (Answers(k, x.found[k]) \/ Outstanding(x, k))
  /\ \A i \in 1 .. Len(x.staged) :
       /\ x.staged[i].key.generation = generation
       /\ Answers(x.staged[i].key, x.staged[i].value)
  /\ x.phase = "asked" =>
       x.asked[1] = generation /\ SnapshotOf(x.adapter, x.asked[2]) = x.snapshot

CallInv(x) ==
  /\ x # Idle => x.generation <= generation
  /\ x \in OpenCalls => Coherent(x) /\ (x.generation = generation => UpToDate(x))

(* Once the generation has moved nothing is claimed of the values of a      *)
(* call, and it never moves back; so the last comparison is enough.         *)
Inductive ==
  /\ TypeOK
  /\ CacheIsExact
  /\ \A c \in Callers : CallInv(call[c])

LEMMA CallTypes ==
  ASSUME NEW x \in CallType
  PROVE  /\ x.phase \in {"rows", "batches", "asked"} => x \in OpenCalls
         /\ x.phase = "pin" => x \in Pinning
         /\ x \in OpenCalls => x.phase \in {"rows", "batches", "asked"} /\ x # Idle
         /\ x \in Pinning => x.phase = "pin" /\ x # Idle
  BY DEF CallType, Pinning, OpenCalls, Idle

LEMMA FoundType ==
  ASSUME NEW x \in OpenCalls
  PROVE  /\ DOMAIN x.found \subseteq KeyType
         /\ x.found \in [DOMAIN x.found -> Outcomes \cup {Pending}]
PROOF
  <1>1. x.found \in UNION {[S -> Outcomes \cup {Pending}] : S \in SUBSET KeyType}
    BY DEF OpenCalls
  <1>2. PICK S \in SUBSET KeyType : x.found \in [S -> Outcomes \cup {Pending}]
    BY <1>1
  <1> QED
    BY <1>2

(* A step of one caller that leaves the registry alone.                     *)
LEMMA CallFrame ==
  ASSUME TypeOK, \A c \in Callers : CallInv(call[c]), UNCHANGED registry,
         NEW c \in Callers, NEW x \in CallType, CallInv(x), call' = [call EXCEPT ![c] = x]
  PROVE  call' \in [Callers -> CallType] /\ \A d \in Callers : CallInv(call[d])'
PROOF
  <1>1. call' \in [Callers -> CallType]
    BY DEF TypeOK
  <1>2. registered' = registered /\ generation' = generation /\ revision' = revision
    BY DEF registry
  <1>3. ASSUME NEW d \in Callers
        PROVE  CallInv(call[d])'
    <2>1. CallInv(call'[d])
      BY DEF TypeOK
    <2>2. CallInv(call'[d]) <=> CallInv(call[d])'
      BY <1>2 DEF CallInv, Coherent, UpToDate, Outstanding, Answers
    <2> QED
      BY <2>1, <2>2
  <1> QED
    BY <1>1, <1>3

Covers(reply, batch) == \A j \in batch : \E i \in 1 .. Cardinality(batch) : reply[i] = j

(* A reply that is accepted answers every row of its batch.                 *)
LEMMA EveryRowAnswered ==
  ASSUME NEW batch, IsFiniteSet(batch), NEW reply \in [1 .. Cardinality(batch) -> batch],
         Accepted(reply, batch)
  PROVE  Covers(reply, batch)
PROOF
  <1> DEFINE n == Cardinality(batch)
  <1>1. n \in Nat
    BY FS_CardinalityType
  <1>2. IsFiniteSet(1 .. n) /\ Cardinality(1 .. n) = n
    <2> HIDE DEF n
    <2>1. 1 \in Int /\ n \in Int
      BY <1>1
    <2> QED
      BY <1>1, <2>1, FS_Interval
  <1>3. \A i, j \in 1 .. n : reply[i] = reply[j] => i = j
    BY DEF Accepted
  <1>4. reply \in Injection(1 .. n, batch)
    BY <1>3 DEF Injection, IsInjective
  <1>5. reply \in Surjection(1 .. n, batch)
    BY <1>2, <1>4, FS_Injection
  <1> QED
    BY <1>5 DEF Surjection, Covers
-----------------------------------------------------------------------------
(* The steps of the registry                                                *)

LEMMA EmptyKeeps == Empty \in Budgeted
PROOF
  <1>1. <<>> \in Seq(Entry) /\ Len(<<>>) = 0 /\ DOMAIN <<>> = {}
    OBVIOUS
  <1>2. Total(<<>>) = 0
    BY <1>1, ChargedSums DEF Total
  <1> QED
    BY <1>1, <1>2, LimitsAssumption DEF Empty, Budgeted, CacheType, WithinBudget

(* A cache that is empty is exact.                                          *)
LEMMA EmptyIsExact ==
  ASSUME cache' = Empty
  PROVE  cache' \in CacheType /\ CacheIsExact'
PROOF
  <1>1. cache' \in CacheType /\ WithinBudget(cache')
    BY EmptyKeeps DEF Budgeted
  <1>2. WithinBudget(cache)' <=> WithinBudget(cache')
    BY DEF WithinBudget
  <1>3. CachedIsCurrent'
    BY DEF CachedIsCurrent, Empty
  <1> QED
    BY <1>1, <1>2, <1>3 DEF CacheIsExact

(* Nothing that a step does to the cache or the calls is about a cache and  *)
(* a registry that it leaves alone.                                         *)
LEMMA CacheFrame ==
  ASSUME Inductive, UNCHANGED <<registered, generation, cache>>
  PROVE  cache' \in CacheType /\ CacheIsExact'
  BY DEF Inductive, TypeOK, CacheIsExact, CachedIsCurrent, Answers, WithinBudget

LEMMA InductiveInit == Init => Inductive
PROOF
  <1> SUFFICES ASSUME Init PROVE Inductive
    OBVIOUS
  <1>1. 1 \in 1 .. MaxGeneration /\ 1 \in 1 .. MaxRevision
    BY LimitsAssumption
  <1>2. cache \in CacheType /\ WithinBudget(cache)
    BY EmptyKeeps DEF Init, Budgeted
  <1>3. TypeOK
    BY <1>1, <1>2 DEF Init, TypeOK, CallType
  <1>4. CacheIsExact
    BY <1>2 DEF Init, CacheIsExact, CachedIsCurrent, Empty
  <1>5. \A c \in Callers : CallInv(call[c])
    BY CallTypes DEF Init, CallInv, CallType
  <1> QED
    BY <1>3, <1>4, <1>5 DEF Inductive

(* A step that advances the generation ends every claim on calls.           *)
LEMMA AdvanceKeeps ==
  ASSUME Inductive, Advance, cache' = Empty, UNCHANGED <<revision, call>>,
         registered' \in [Operations -> Adapters]
  PROVE  Inductive'
PROOF
  <1>1. /\ generation' = generation + 1 /\ generation \in Nat
        /\ generation' \in 1 .. MaxGeneration
    BY LimitsAssumption DEF Inductive, TypeOK, Advance
  <1>2. cache' \in CacheType /\ CacheIsExact'
    BY EmptyIsExact
  <1>3. TypeOK'
    BY <1>1, <1>2 DEF Inductive, TypeOK
  <1>4. ASSUME NEW c \in Callers
        PROVE  CallInv(call[c])'
    <2> DEFINE x == call[c]
    <2>1. x \in CallType /\ CallInv(x) /\ x' = x
      BY DEF Inductive, TypeOK
    <2>2. x # Idle => x.generation \in Nat
      BY <2>1, LimitsAssumption DEF CallType, Pinning, OpenCalls
    <2> HIDE DEF x
    <2>3. x # Idle => x.generation <= generation' /\ x.generation # generation'
      BY <1>1, <2>1, <2>2 DEF CallInv
    <2>4. x \in OpenCalls => x # Idle
      BY <2>1, CallTypes
    <2>5. x \in OpenCalls => Coherent(x)'
      <3> SUFFICES ASSUME x \in OpenCalls PROVE Coherent(x)'
        OBVIOUS
      <3>1. Coherent(x)
        BY <2>1 DEF CallInv
      <3>2. x.phase = "asked" => x.asked[1] \in 1 .. generation'
        BY <1>1, <3>1 DEF Coherent
      <3> QED
        BY <2>1, <3>1, <3>2 DEF Coherent
    <2> QED
      BY <2>1, <2>3, <2>4, <2>5 DEF CallInv, x
  <1> QED
    BY <1>2, <1>3, <1>4 DEF Inductive

LEMMA RegisterKeeps ==
  ASSUME Inductive, NEW op \in Operations, NEW a \in Adapters, Register(op, a)
  PROVE  Inductive'
PROOF
  <1>1. registered' \in [Operations -> Adapters]
    BY DEF Inductive, TypeOK, Register
  <1> QED
    BY <1>1, AdvanceKeeps DEF Register

LEMMA InvalidateKeeps ==
  ASSUME Inductive, Invalidate
  PROVE  Inductive'
  BY AdvanceKeeps DEF Inductive, TypeOK, Invalidate

LEMMA ClearCacheKeeps ==
  ASSUME Inductive, ClearCache
  PROVE  Inductive'
PROOF
  <1>1. cache' \in CacheType /\ CacheIsExact'
    BY EmptyIsExact DEF ClearCache
  <1>2. UNCHANGED <<registered, generation, revision, call>>
    BY DEF ClearCache, registry
  <1>3. TypeOK'
    BY <1>1, <1>2 DEF Inductive, TypeOK
  <1>4. \A c \in Callers : CallInv(call[c])'
    BY <1>2 DEF Inductive, CallInv, Coherent, UpToDate, Outstanding, Answers
  <1> QED
    BY <1>1, <1>3, <1>4 DEF Inductive

(* A dataset that moves on leaves behind what was asked of it before.       *)
LEMMA ReviseKeeps ==
  ASSUME Inductive, NEW a \in Adapters, Revise(a)
  PROVE  Inductive'
PROOF
  <1>1. UNCHANGED <<registered, generation, cache, call>>
    BY DEF Revise
  <1>2. /\ revision' \in [Adapters -> 1 .. MaxRevision]
        /\ \A b \in Adapters : revision[b] \in Nat /\ revision'[b] \in Nat /\ revision[b] <= revision'[b]
    BY LimitsAssumption DEF Inductive, TypeOK, Revise
  <1>3. cache' \in CacheType /\ CacheIsExact'
    BY <1>1, CacheFrame
  <1>4. TypeOK'
    BY <1>1, <1>2, <1>3 DEF Inductive, TypeOK
  <1>5. ASSUME NEW c \in Callers
        PROVE  CallInv(call[c])'
    <2> DEFINE x == call[c]
    <2>1. x \in CallType /\ CallInv(x) /\ x' = x
      BY <1>1 DEF Inductive, TypeOK
    <2> HIDE DEF x
    <2>2. x \in OpenCalls => Coherent(x)'
      <3> SUFFICES ASSUME x \in OpenCalls PROVE Coherent(x)'
        OBVIOUS
      <3>1. Coherent(x) /\ x.adapter \in Adapters
        BY <2>1 DEF CallInv, OpenCalls
      <3>2. x.phase = "asked" => x.asked[2] \in 1 .. revision'[x.adapter]
        BY <1>2, <3>1 DEF Coherent
      <3> QED
        BY <1>1, <2>1, <3>1, <3>2 DEF Coherent
    <2>3. UpToDate(x) => UpToDate(x)'
      BY <1>1, <2>1 DEF UpToDate, Outstanding, Answers
    <2> QED
      BY <1>1, <2>1, <2>2, <2>3 DEF CallInv, x
  <1> QED
    BY <1>3, <1>4, <1>5 DEF Inductive
-----------------------------------------------------------------------------
(* The steps of a caller                                                    *)

LEMMA StepKeeps ==
  ASSUME Inductive, UNCHANGED registry, cache' \in CacheType, CacheIsExact',
         NEW c \in Callers, NEW x \in CallType, CallInv(x), call' = [call EXCEPT ![c] = x]
  PROVE  Inductive'
PROOF
  <1>1. call' \in [Callers -> CallType] /\ \A d \in Callers : CallInv(call[d])'
    BY CallFrame DEF Inductive
  <1>2. TypeOK'
    BY <1>1 DEF Inductive, TypeOK, registry
  <1> QED
    BY <1>1, <1>2 DEF Inductive

LEMMA EvaluateKeeps ==
  ASSUME Inductive, NEW c \in Callers, NEW op \in Operations, Evaluate(c, op)
  PROVE  Inductive'
PROOF
  <1> DEFINE x == [phase |-> "pin", op |-> op, generation |-> generation]
  <1>1. generation \in 1 .. MaxGeneration /\ generation \in Nat
    BY LimitsAssumption DEF Inductive, TypeOK
  <1>2. x \in Pinning /\ x.generation = generation
    BY <1>1 DEF Pinning
  <1>3. x \in CallType /\ x \notin OpenCalls
    BY <1>2, CallTypes DEF CallType, OpenCalls
  <1>4. CallInv(x)
    BY <1>1, <1>2, <1>3 DEF CallInv
  <1>5. UNCHANGED <<registry, cache>> /\ call' = [call EXCEPT ![c] = x]
    BY DEF Evaluate
  <1>6. cache' \in CacheType /\ CacheIsExact'
    BY <1>5, CacheFrame DEF registry
  <1> HIDE DEF x
  <1> QED
    BY <1>3, <1>4, <1>5, <1>6, StepKeeps

LEMMA FailKeeps ==
  ASSUME Inductive, NEW c \in Callers, Fail(c)
  PROVE  Inductive'
PROOF
  <1>1. Idle \in CallType /\ CallInv(Idle)
    BY CallTypes DEF CallType, CallInv
  <1>2. UNCHANGED <<registry, cache>> /\ call' = [call EXCEPT ![c] = Idle]
    BY DEF Fail
  <1>3. cache' \in CacheType /\ CacheIsExact'
    BY <1>2, CacheFrame DEF registry
  <1> QED
    BY <1>1, <1>2, <1>3, StepKeeps

LEMMA PinKeeps ==
  ASSUME Inductive, NEW c \in Callers, Pin(c)
  PROVE  Inductive'
PROOF
  <1> DEFINE cc == call[c]
             none == [k \in {} |-> Pending]
             x == [phase |-> "rows", op |-> cc.op, generation |-> cc.generation,
                   snapshot |-> Snapshot(cc.op), adapter |-> registered[cc.op],
                   original |-> <<>>, found |-> none, requests |-> <<>>,
                   answered |-> 0, staged |-> <<>>, asked |-> <<0, 0>>]
  <1>1. cc \in Pinning /\ cc # Idle /\ CallInv(cc)
    BY CallTypes DEF Inductive, TypeOK, Pin
  <1>2. /\ cc.op \in Operations /\ cc.generation \in 1 .. MaxGeneration
        /\ registered[cc.op] \in Adapters /\ Snapshot(cc.op) \in Snapshots
    BY <1>1 DEF Inductive, TypeOK, Pinning, Snapshot, Snapshots
  <1>3. /\ none \in UNION {[S -> Outcomes \cup {Pending}] : S \in SUBSET KeyType}
        /\ DOMAIN none = {}
    <2>1. none \in [{} -> Outcomes \cup {Pending}] /\ {} \in SUBSET KeyType
      OBVIOUS
    <2> HIDE DEF none
    <2> QED
      BY <2>1
  <1> HIDE DEF none
  <1>4. x \in OpenCalls
    <2>1. <<>> \in Seq(KeyType) /\ <<>> \in Seq(StagedType) /\ <<0, 0>> \in Nat \X Nat /\ 0 \in Nat
      OBVIOUS
    <2> QED
      BY <1>2, <1>3, <2>1 DEF OpenCalls
  <1>5. /\ x.phase = "rows" /\ x.generation = cc.generation /\ x.op = cc.op
        /\ x.adapter = registered[cc.op] /\ x.original = <<>> /\ x.found = none
        /\ x.requests = <<>> /\ x.answered = 0 /\ x.staged = <<>>
    OBVIOUS
  <1>6. UNCHANGED <<registry, cache>> /\ call' = [call EXCEPT ![c] = x]
    BY DEF Pin, none
  <1> HIDE DEF x
  <1>7. Coherent(x)
    BY <1>3, <1>5, LimitsAssumption DEF Coherent
  <1>8. UpToDate(x)
    BY <1>3, <1>5 DEF UpToDate
  <1>9. x \in CallType /\ CallInv(x)
    BY <1>1, <1>4, <1>5, <1>7, <1>8 DEF CallInv, CallType
  <1>10. cache' \in CacheType /\ CacheIsExact'
    BY <1>6, CacheFrame DEF registry
  <1> QED
    BY <1>6, <1>9, <1>10, StepKeeps

LEMMA EndRowsKeeps ==
  ASSUME Inductive, NEW c \in Callers, EndRows(c)
  PROVE  Inductive'
PROOF
  <1> DEFINE cc == call[c]
             x == [cc EXCEPT !.phase = "batches"]
  <1>1. cc \in OpenCalls /\ cc # Idle /\ CallInv(cc)
    BY CallTypes DEF Inductive, TypeOK, EndRows
  <1>2. /\ x \in OpenCalls /\ x.phase = "batches" /\ x.generation = cc.generation /\ x.op = cc.op
        /\ x.snapshot = cc.snapshot /\ x.adapter = cc.adapter /\ x.original = cc.original
        /\ x.found = cc.found /\ x.requests = cc.requests /\ x.answered = cc.answered
        /\ x.staged = cc.staged
    BY <1>1 DEF OpenCalls
  <1>3. UNCHANGED <<registry, cache>> /\ call' = [call EXCEPT ![c] = x]
    BY DEF EndRows
  <1> HIDE DEF cc, x
  <1>4. Coherent(x)
    BY <1>1, <1>2 DEF CallInv, Coherent
  <1>5. x.generation = generation => UpToDate(x)
    BY <1>1, <1>2 DEF CallInv, UpToDate, Outstanding
  <1>6. x \in CallType /\ CallInv(x)
    BY <1>1, <1>2, <1>4, <1>5 DEF CallInv, CallType
  <1>7. cache' \in CacheType /\ CacheIsExact'
    BY <1>3, CacheFrame DEF registry
  <1> QED
    BY <1>3, <1>6, <1>7, StepKeeps

(* A batch is sent only when its call is pinned and current.                *)
LEMMA AskKeeps ==
  ASSUME Inductive, NEW c \in Callers, Ask(c)
  PROVE  Inductive'
PROOF
  <1> DEFINE cc == call[c]
             asked == <<generation, revision[cc.adapter]>>
             x == [cc EXCEPT !.phase = "asked", !.asked = asked]
  <1>1. cc \in OpenCalls /\ cc # Idle /\ CallInv(cc) /\ cc.generation = generation
    BY CallTypes DEF Inductive, TypeOK, Ask, Current
  <1>2. /\ generation \in 1 .. MaxGeneration /\ generation \in Nat
        /\ revision[cc.adapter] \in 1 .. MaxRevision /\ revision[cc.adapter] \in Nat
    BY <1>1, LimitsAssumption DEF Inductive, TypeOK, OpenCalls
  <1>3. asked \in Nat \X Nat /\ asked[1] = generation /\ asked[2] = revision[cc.adapter]
    BY <1>2
  <1>4. Coherent(cc) /\ UpToDate(cc)
    BY <1>1 DEF CallInv
  <1>5. SnapshotOf(cc.adapter, asked[2]) = cc.snapshot
    BY <1>3, <1>4 DEF Ask, Pinned, Snapshot, UpToDate
  <1>6. UNCHANGED <<registry, cache>> /\ call' = [call EXCEPT ![c] = x]
    <2>1. call' = [call EXCEPT ![c].phase = "asked", ![c].asked = asked]
      BY DEF Ask
    <2>2. call \in [Callers -> CallType]
      BY DEF Inductive, TypeOK
    <2> QED
      BY <2>1, <2>2 DEF Ask
  <1> HIDE DEF asked
  <1>7. /\ x \in OpenCalls /\ x.phase = "asked" /\ x.generation = cc.generation /\ x.op = cc.op
        /\ x.snapshot = cc.snapshot /\ x.adapter = cc.adapter /\ x.original = cc.original
        /\ x.found = cc.found /\ x.requests = cc.requests /\ x.answered = cc.answered
        /\ x.staged = cc.staged /\ x.asked = asked
    BY <1>1, <1>3 DEF OpenCalls
  <1> HIDE DEF cc, x
  <1>8. Coherent(x)
    BY <1>2, <1>3, <1>4, <1>7 DEF Coherent
  <1>9. UpToDate(x)
    BY <1>3, <1>4, <1>5, <1>7 DEF UpToDate, Outstanding
  <1>10. x \in CallType /\ CallInv(x)
    BY <1>1, <1>2, <1>7, <1>8, <1>9 DEF CallInv, CallType
  <1>11. cache' \in CacheType /\ CacheIsExact'
    BY <1>6, CacheFrame DEF registry
  <1> QED
    BY <1>6, <1>10, <1>11, StepKeeps
(* What the cache has for a key can be given to a call that is current.     *)
LEMMA HitAnswers ==
  ASSUME Inductive, NEW k \in KeysOf(cache)
  PROVE  /\ EntryOf(cache, k).value \in Outcomes
         /\ Answers(k, EntryOf(cache, k).value)
PROOF
  <1> DEFINE i == Place(cache, k)
  <1>1. i \in DOMAIN cache.entries /\ cache.entries[i].key = k
    BY DEF KeysOf, Place
  <1>2. EntryOf(cache, k) = cache.entries[i]
    BY DEF EntryOf
  <1>3. cache.entries \in Seq(Entry)
    BY DEF Inductive, TypeOK, CacheType
  <1> HIDE DEF i
  <1>4. cache.entries[i] \in Entry
    BY <1>1, <1>3
  <1>5. Answers(cache.entries[i].key, cache.entries[i].value)
    BY <1>1 DEF Inductive, CacheIsExact, CachedIsCurrent
  <1> QED
    BY <1>1, <1>2, <1>4, <1>5 DEF Entry

(* A cache that holds nothing new, or only what is answered now, is exact.  *)
LEMMA ExactFrom ==
  ASSUME Inductive, UNCHANGED <<registered, generation>>, cache' \in Budgeted,
         \A e \in Range(cache'.entries) :
           \/ e \in Range(cache.entries)
           \/ e.key.generation = generation /\ Answers(e.key, e.value)
  PROVE  cache' \in CacheType /\ CacheIsExact'
PROOF
  <1>1. cache' \in CacheType /\ WithinBudget(cache)'
    BY DEF Budgeted, WithinBudget
  <1>2. \A i \in DOMAIN cache'.entries :
          LET e == cache'.entries[i] IN e.key.generation = generation /\ Answers(e.key, e.value)
    <2> TAKE i \in DOMAIN cache'.entries
    <2> DEFINE e == cache'.entries[i]
    <2>1. e \in Range(cache'.entries)
      BY DEF Range
    <2>2. CASE e \in Range(cache.entries)
      <3>1. PICK j \in DOMAIN cache.entries : e = cache.entries[j]
        BY <2>2 DEF Range
      <3> QED
        BY <3>1 DEF Inductive, CacheIsExact, CachedIsCurrent
    <2>3. CASE e.key.generation = generation /\ Answers(e.key, e.value)
      BY <2>3
    <2> QED
      BY <2>1, <2>2, <2>3
  <1>3. CachedIsCurrent'
    BY <1>2 DEF CachedIsCurrent, Answers
  <1> QED
    BY <1>1, <1>3 DEF CacheIsExact

(* A row finds what is remembered for its key, or joins the requests.       *)
LEMMA RowKeeps ==
  ASSUME Inductive, NEW c \in Callers, NEW arg \in Arguments, Row(c, arg)
  PROVE  Inductive'
PROOF
  <1> DEFINE cc  == call[c]
             key == Key(cc.op, cc.snapshot, arg)
             new == key \notin DOMAIN cc.found
             hit == key \in KeysOf(cache)
             value == IF hit THEN EntryOf(cache, key).value ELSE Pending
             found == IF ~new THEN cc.found
                      ELSE [k \in DOMAIN cc.found \cup {key} |->
                              IF k # key THEN cc.found[k] ELSE value]
             requests == IF new /\ ~hit THEN Append(cc.requests, key) ELSE cc.requests
             x == [cc EXCEPT !.adapter  = registered[cc.op],
                             !.original = Append(cc.original, key),
                             !.found    = found,
                             !.requests = requests]
  <1>1. /\ cc \in OpenCalls /\ cc # Idle /\ CallInv(cc) /\ cc.phase = "rows"
        /\ Len(cc.original) < MaxRows
    BY CallTypes DEF Inductive, TypeOK, Row, RoomForRow
  <1>2. /\ cc.op \in Operations /\ cc.snapshot \in Snapshots /\ registered[cc.op] \in Adapters
        /\ cc.original \in Seq(KeyType) /\ cc.requests \in Seq(KeyType) /\ cc.answered \in Nat
        /\ MaxRows \in Nat
    BY <1>1, LimitsAssumption DEF Inductive, TypeOK, OpenCalls
  <1>3. /\ key \in KeyType /\ key.op = cc.op /\ key.snapshot = cc.snapshot
        /\ key.generation = generation
    BY <1>2 DEF Inductive, TypeOK, Key, KeyType
  <1>4. UNCHANGED registry /\ cache' = IF new THEN Touched(cache, key) ELSE cache
    BY DEF Row
  <1>5. call' = [call EXCEPT ![c] = x]
    BY DEF Row
  <1>6. Coherent(cc) /\ (cc.generation = generation => UpToDate(cc))
    BY <1>1 DEF CallInv
  <1>7. hit => value \in Outcomes /\ Answers(key, value)
    BY HitAnswers
  <1>8. DOMAIN cc.found \subseteq KeyType /\ cc.found \in [DOMAIN cc.found -> Outcomes \cup {Pending}]
    BY <1>1, FoundType
  <1> HIDE DEF key, value
  <1>9. /\ DOMAIN found = DOMAIN cc.found \cup {key}
        /\ \A k \in DOMAIN cc.found : found[k] = cc.found[k]
        /\ new => found[key] = value
    BY <1>8
  <1>10. found \in UNION {[S -> Outcomes \cup {Pending}] : S \in SUBSET KeyType}
    <2>1. value \in Outcomes \cup {Pending}
      BY <1>7 DEF value
    <2>2. found \in [DOMAIN cc.found \cup {key} -> Outcomes \cup {Pending}]
      BY <1>8, <2>1
    <2>3. DOMAIN cc.found \cup {key} \in SUBSET KeyType
      BY <1>3, <1>8
    <2> HIDE DEF found
    <2> QED
      BY <2>2, <2>3
  <1>11. /\ requests \in Seq(KeyType)
         /\ Len(cc.requests) \in Nat /\ Len(requests) \in Nat /\ Len(cc.requests) <= Len(requests)
         /\ \A i \in 1 .. Len(cc.requests) : requests[i] = cc.requests[i]
         /\ \A i \in 1 .. Len(requests) : i \in 1 .. Len(cc.requests) \/ requests[i] = key
         /\ new /\ ~hit => Len(requests) = Len(cc.requests) + 1 /\ requests[Len(requests)] = key
    BY <1>2, <1>3
  <1> DEFINE original == Append(cc.original, key)
  <1>12. /\ original \in Seq(KeyType) /\ Len(original) <= MaxRows
         /\ \A i \in 1 .. Len(original) :
              original[i] = key \/ (i \in 1 .. Len(cc.original) /\ original[i] = cc.original[i])
    <2>1. original \in Seq(KeyType) /\ Len(original) = Len(cc.original) + 1 /\ Len(cc.original) \in Nat
      BY <1>2, <1>3
    <2>2. \A i \in 1 .. Len(cc.original) + 1 :
            original[i] = key \/ (i \in 1 .. Len(cc.original) /\ original[i] = cc.original[i])
      <3> TAKE i \in 1 .. Len(cc.original) + 1
      <3>1. i = Len(cc.original) + 1 \/ i \in 1 .. Len(cc.original)
        BY <2>1
      <3>2. original[Len(cc.original) + 1] = key
        BY <1>2, <1>3
      <3>3. \A j \in 1 .. Len(cc.original) : original[j] = cc.original[j]
        BY <1>2, <1>3
      <3> HIDE DEF original
      <3>4. CASE i = Len(cc.original) + 1
        <4>1. original[i] = key
          BY <3>2, <3>4
        <4> QED
          BY <4>1
      <3>5. CASE i \in 1 .. Len(cc.original)
        <4>1. original[i] = cc.original[i]
          BY <3>3, <3>5
        <4> QED
          BY <3>5, <4>1
      <3> QED
        BY <3>1, <3>4, <3>5
    <2> HIDE DEF original
    <2> QED
      BY <1>1, <1>2, <2>1, <2>2
  <1> HIDE DEF new, hit, found, requests, original
  <1>13. /\ x \in OpenCalls /\ x.phase = "rows" /\ x.generation = cc.generation /\ x.op = cc.op
         /\ x.snapshot = cc.snapshot /\ x.adapter = registered[cc.op] /\ x.original = original
         /\ x.found = found /\ x.requests = requests /\ x.answered = cc.answered
         /\ x.staged = cc.staged
    BY <1>1, <1>2, <1>10, <1>11, <1>12 DEF OpenCalls, original
  <1> HIDE DEF cc, x
  <1>14. Coherent(x)
    <2>1. Len(x.original) <= MaxRows /\ x.answered <= Len(x.requests)
      BY <1>2, <1>6, <1>11, <1>12, <1>13 DEF Coherent
    <2>2. \A i \in 1 .. Len(x.original) : x.original[i] \in DOMAIN x.found
      BY <1>6, <1>9, <1>12, <1>13 DEF Coherent
    <2>3. \A i \in 1 .. Len(x.requests) : x.requests[i] \in DOMAIN x.found
      BY <1>6, <1>9, <1>11, <1>13 DEF Coherent
    <2>4. \A k \in DOMAIN x.found : k.op = x.op /\ k.snapshot = x.snapshot
      BY <1>3, <1>6, <1>9, <1>13 DEF Coherent
    <2> QED
      BY <1>13, <2>1, <2>2, <2>3, <2>4 DEF Coherent
  <1>15. ASSUME x.generation = generation
         PROVE  UpToDate(x)
    <2>1. UpToDate(cc)
      BY <1>6, <1>13, <1>15
    <2>2. \A k \in DOMAIN cc.found : Outstanding(cc, k) => Outstanding(x, k)
      <3> SUFFICES ASSUME NEW k, Outstanding(cc, k)
                   PROVE  Outstanding(x, k)
        OBVIOUS
      <3>1. PICK j \in cc.answered + 1 .. Len(cc.requests) : cc.requests[j] = k
        BY DEF Outstanding
      <3>2. /\ j \in x.answered + 1 .. Len(x.requests) /\ x.requests[j] = k
        BY <1>2, <1>11, <1>13, <3>1
      <3> QED
        BY <3>2 DEF Outstanding
    <2>3. new => Answers(key, found[key]) \/ Outstanding(x, key)
      <3>1. CASE hit
        BY <1>7, <1>9, <3>1
      <3>2. CASE new /\ ~hit
        <4>1. Len(requests) \in x.answered + 1 .. Len(x.requests)
          BY <1>2, <1>6, <1>11, <1>13, <3>2 DEF Coherent
        <4> QED
          BY <1>11, <1>13, <3>2, <4>1 DEF Outstanding
      <3> QED
        BY <3>1, <3>2
    <2>4. \A k \in DOMAIN x.found :
            k.generation = generation /\ (Answers(k, x.found[k]) \/ Outstanding(x, k))
      <3> TAKE k \in DOMAIN x.found
      <3>1. CASE k \in DOMAIN cc.found
        BY <1>9, <1>13, <2>1, <2>2, <3>1 DEF UpToDate
      <3>2. CASE k \notin DOMAIN cc.found
        <4>1. k = key /\ new
          BY <1>9, <1>13, <3>2 DEF new
        <4> QED
          BY <1>3, <1>13, <2>3, <4>1
      <3> QED
        BY <3>1, <3>2
    <2> QED
      BY <1>13, <2>1, <2>4 DEF UpToDate
  <1>16. x \in CallType /\ CallInv(x)
    BY <1>1, <1>13, <1>14, <1>15 DEF CallInv, CallType
  <1>17. cache' \in CacheType /\ CacheIsExact'
    <2>1. cache \in Budgeted
      BY DEF Inductive, TypeOK, CacheIsExact, Budgeted
    <2>2. cache' \in Budgeted /\ Range(cache'.entries) \subseteq Range(cache.entries)
      BY <1>4, <2>1, TouchedKeeps
    <2>3. UNCHANGED <<registered, generation>>
      BY <1>4 DEF registry
    <2> QED
      BY <2>2, <2>3, ExactFrom
  <1> QED
    BY <1>4, <1>5, <1>16, <1>17, StepKeeps
(* The rows of a batch that is out, as their numbers.                       *)
LEMMA BatchRows ==
  ASSUME NEW c \in Callers, call[c] \in OpenCalls, call[c].answered <= Len(call[c].requests)
  PROVE  /\ Cardinality(Batch(c)) \in Nat /\ IsFiniteSet(Batch(c))
         /\ Batch(c) = call[c].answered + 1 .. call[c].answered + Cardinality(Batch(c))
         /\ call[c].answered + Cardinality(Batch(c)) <= Len(call[c].requests)
PROOF
  <1> DEFINE n == call[c].answered
             m == Len(call[c].requests)
             top == IF n + MaxBatch < m THEN n + MaxBatch ELSE m
  <1>1. n \in Nat /\ m \in Nat /\ n <= m /\ MaxBatch \in Nat
    BY LimitsAssumption DEF OpenCalls
  <1>2. Batch(c) = n + 1 .. top
    BY DEF Batch
  <1> HIDE DEF n, m
  <1>3. top \in Nat /\ n <= top /\ top <= m
    BY <1>1
  <1> HIDE DEF top
  <1>4. IsFiniteSet(n + 1 .. top) /\ Cardinality(n + 1 .. top) = top - n
    <2>1. n + 1 \in Int /\ top \in Int
      BY <1>1, <1>3
    <2>2. IsFiniteSet(n + 1 .. top)
          /\ Cardinality(n + 1 .. top) = IF n + 1 > top THEN 0 ELSE top - (n + 1) + 1
      BY <2>1, FS_Interval
    <2> QED
      BY <1>1, <1>3, <2>2
  <1>5. Cardinality(Batch(c)) = top - n /\ IsFiniteSet(Batch(c))
    BY <1>2, <1>4
  <1>6. n + (top - n) = top /\ top - n \in Nat
    BY <1>1, <1>3
  <1> QED
    BY <1>2, <1>3, <1>5, <1>6 DEF n, m

(* What was computed while a batch was out answers its rows now, when its   *)
(* call is still current and still pinned.                                  *)
LEMMA BatchIsCurrent ==
  ASSUME Inductive, NEW x \in OpenCalls, UpToDate(x), Coherent(x), x.phase = "asked",
         Snapshot(x.op) = x.snapshot,
         NEW at \in (x.asked[1] .. generation) \X (x.asked[2] .. revision[x.adapter]),
         NEW k \in DOMAIN x.found
  PROVE  Answers(k, Outcome(x.op, x.adapter, at[1], at[2], k.arg))
PROOF
  <1> DEFINE now == revision[x.adapter]
  <1>1. /\ x.adapter \in Adapters /\ x.adapter = registered[x.op]
        /\ generation \in Nat /\ now \in 1 .. MaxRevision /\ now \in Nat
        /\ x.asked[1] = generation /\ x.asked[2] \in 1 .. now
        /\ SnapshotOf(x.adapter, x.asked[2]) = x.snapshot
        /\ k.op = x.op /\ k.snapshot = x.snapshot
    BY LimitsAssumption DEF Inductive, TypeOK, OpenCalls, UpToDate, Coherent
  <1>2. SnapshotOf(x.adapter, now) = x.snapshot
    BY <1>1 DEF Snapshot
  <1> HIDE DEF now
  <1>3. \A r \in 1 .. MaxRevision : SnapshotOf(x.adapter, r) = x.snapshot => r = now
    BY <1>1, <1>2, SnapshotAssumption
  <1>4. x.asked[2] = now
    <2>1. x.asked[2] \in 1 .. MaxRevision
      BY <1>1, LimitsAssumption
    <2> QED
      BY <1>1, <1>3, <2>1
  <1>5. at[1] = generation /\ at[2] = now
    <2>1. at[1] \in generation .. generation /\ at[2] \in now .. now
      BY <1>1, <1>4 DEF now
    <2> QED
      BY <1>1, <2>1
  <1> QED
    BY <1>1, <1>3, <1>5 DEF Answers

(* A reply answers the rows of its batch, whatever their order.             *)
LEMMA ReceiveKeeps ==
  ASSUME Inductive, NEW c \in Callers, Receive(c)
  PROVE  Inductive'
PROOF
  <1> DEFINE cc == call[c]
             batch == Batch(c)
             n == Cardinality(batch)
  <1>1. /\ cc \in OpenCalls /\ cc # Idle /\ CallInv(cc) /\ cc.phase = "asked"
        /\ Snapshot(cc.op) = cc.snapshot
    BY CallTypes DEF Inductive, TypeOK, Receive, Pinned
  <1>2. Coherent(cc) /\ (cc.generation = generation => UpToDate(cc))
    BY <1>1 DEF CallInv
  <1>3. PICK reply \in [1 .. n -> batch],
             at \in (cc.asked[1] .. generation) \X (cc.asked[2] .. revision[cc.adapter]) :
          LET result(i) == Outcome(cc.op, cc.adapter, at[1], at[2], cc.requests[reply[i]].arg)
              keyAt(i)  == cc.requests[reply[i]]
          IN  /\ Accepted(reply, batch)
              /\ call' = [call EXCEPT ![c] =
                   [cc EXCEPT !.phase    = "batches", !.asked = <<0, 0>>,
                              !.answered = cc.answered + Cardinality(batch),
                              !.found    = [k \in DOMAIN cc.found |->
                                 IF \E i \in DOMAIN reply : keyAt(i) = k
                                 THEN result(CHOOSE i \in DOMAIN reply : keyAt(i) = k)
                                 ELSE cc.found[k]],
                              !.staged   = cc.staged \o [i \in DOMAIN reply |->
                                 [key |-> keyAt(i), value |-> result(i)]]]]
    BY DEF Receive
  <1>4. UNCHANGED <<registry, cache>>
    BY DEF Receive
  <1> DEFINE Key0(i) == cc.requests[reply[i]]
             Result(k) == Outcome(cc.op, cc.adapter, at[1], at[2], k.arg)
             Answered(k) == \E i \in 1 .. n : Key0(i) = k
             found == [k \in DOMAIN cc.found |->
                         IF \E i \in DOMAIN reply : Key0(i) = k
                         THEN Result(Key0(CHOOSE i \in DOMAIN reply : Key0(i) = k))
                         ELSE cc.found[k]]
             new == [i \in DOMAIN reply |-> [key |-> Key0(i), value |-> Result(Key0(i))]]
             staged == cc.staged \o new
             x == [cc EXCEPT !.phase    = "batches", !.asked = <<0, 0>>,
                             !.answered = cc.answered + Cardinality(batch),
                             !.found    = found, !.staged = staged]
  <1>5. /\ reply \in [1 .. n -> batch] /\ Accepted(reply, batch)
        /\ call' = [call EXCEPT ![c] = x]
    BY <1>3
  <1>6. /\ cc.requests \in Seq(KeyType) /\ cc.answered \in Nat /\ cc.staged \in Seq(StagedType)
        /\ cc.op \in Operations /\ cc.adapter \in Adapters /\ Len(cc.requests) \in Nat
    BY <1>1 DEF OpenCalls
  <1>7. /\ n \in Nat /\ IsFiniteSet(batch)
        /\ batch = cc.answered + 1 .. cc.answered + n
        /\ cc.answered + n <= Len(cc.requests)
    BY <1>1, <1>2, BatchRows DEF Coherent
  <1>8. \A j \in batch : \E i \in 1 .. n : reply[i] = j
    <2> HIDE DEF batch, x
    <2>1. Accepted(reply, batch) /\ IsFiniteSet(batch) /\ reply \in [1 .. Cardinality(batch) -> batch]
      BY <1>5, <1>7
    <2>2. Covers(reply, batch)
      BY <2>1, EveryRowAnswered
    <2> QED
      BY <2>2 DEF Covers
  <1>9. DOMAIN cc.found \subseteq KeyType /\ cc.found \in [DOMAIN cc.found -> Outcomes \cup {Pending}]
    BY <1>1, FoundType
  <1>10. at[1] \in 1 .. MaxGeneration /\ at[2] \in 1 .. MaxRevision
    <2>1. /\ cc.asked[1] \in 1 .. generation /\ cc.asked[2] \in 1 .. revision[cc.adapter]
          /\ generation \in 1 .. MaxGeneration /\ revision[cc.adapter] \in 1 .. MaxRevision
      BY <1>1, <1>2, <1>6 DEF Inductive, TypeOK, Coherent
    <2>2. at[1] \in cc.asked[1] .. generation /\ at[2] \in cc.asked[2] .. revision[cc.adapter]
      BY <1>3
    <2>3. MaxGeneration \in Nat /\ MaxRevision \in Nat
      BY LimitsAssumption
    <2>4. at[1] \in 1 .. MaxGeneration
      BY <2>1, <2>2, <2>3
    <2>5. at[2] \in 1 .. MaxRevision
      BY <2>1, <2>2, <2>3
    <2> QED
      BY <2>4, <2>5
  <1>11. \A i \in 1 .. n : reply[i] \in 1 .. Len(cc.requests) /\ Key0(i) \in DOMAIN cc.found
    <2> TAKE i \in 1 .. n
    <2>1. reply[i] \in batch
      BY <1>5
    <2>2. reply[i] \in 1 .. Len(cc.requests)
      <3> DEFINE j == reply[i]
                 a == cc.answered
                 m == Len(cc.requests)
      <3>1. j \in a + 1 .. a + n /\ a \in Nat /\ n \in Nat /\ m \in Nat /\ a + n <= m
        BY <1>6, <1>7, <2>1
      <3> HIDE DEF j, a, m, n
      <3>2. j \in 1 .. m
        BY <3>1
      <3> QED
        BY <3>2 DEF j, m
    <2> QED
      BY <1>2, <2>2 DEF Coherent
  <1>12. \A k \in DOMAIN cc.found : Result(k) \in Outcomes
    <2> TAKE k \in DOMAIN cc.found
    <2>1. k.arg \in Arguments
      BY <1>9 DEF KeyType
    <2> QED
      BY <1>6, <1>10, <2>1 DEF Outcomes
  <1>13. DOMAIN reply = 1 .. n
    BY <1>3
  <1> HIDE DEF Result
  <1>14. DOMAIN found = DOMAIN cc.found
    OBVIOUS
  <1>15. \A k \in DOMAIN cc.found : found[k] = IF Answered(k) THEN Result(k) ELSE cc.found[k]
    <2> TAKE k \in DOMAIN cc.found
    <2>1. CASE Answered(k)
      <3>1. Key0(CHOOSE i \in DOMAIN reply : Key0(i) = k) = k
        BY <1>13, <2>1
      <3>2. found[k] = Result(Key0(CHOOSE i \in DOMAIN reply : Key0(i) = k))
        BY <1>13, <2>1
      <3> QED
        BY <2>1, <3>1, <3>2
    <2>2. CASE ~Answered(k)
      BY <1>13, <2>2
    <2> QED
      BY <2>1, <2>2
  <1>16. found \in UNION {[S -> Outcomes \cup {Pending}] : S \in SUBSET KeyType}
    <2> HIDE DEF found
    <2>1. \A k \in DOMAIN cc.found : found[k] \in Outcomes \cup {Pending}
      BY <1>9, <1>12, <1>15
    <2>2. found \in [DOMAIN cc.found -> Outcomes \cup {Pending}]
      <3>1. found = [k \in DOMAIN cc.found |-> found[k]]
        BY DEF found
      <3> QED
        BY <2>1, <3>1
    <2>3. DOMAIN cc.found \in SUBSET KeyType
      BY <1>9
    <2> QED
      BY <2>2, <2>3
  <1>17. /\ new \in Seq(StagedType) /\ Len(new) = n
         /\ \A i \in 1 .. n : new[i].key = Key0(i) /\ new[i].value = Result(Key0(i))
    <2>1. \A i \in 1 .. n : [key |-> Key0(i), value |-> Result(Key0(i))] \in StagedType
      BY <1>9, <1>11, <1>12 DEF StagedType
    <2>2. \A i \in 1 .. n : new[i] = [key |-> Key0(i), value |-> Result(Key0(i))]
      BY <1>13
    <2>3. \A i \in 1 .. n : new[i].key = Key0(i) /\ new[i].value = Result(Key0(i))
      BY <2>2
    <2>4. new \in [1 .. n -> StagedType]
      <3>1. new = [i \in 1 .. n |-> new[i]]
        BY <1>13
      <3>2. \A i \in 1 .. n : new[i] \in StagedType
        BY <2>1, <2>2
      <3> HIDE DEF new, n
      <3> QED
        BY <3>1, <3>2
    <2>5. new \in Seq(StagedType) /\ Len(new) = n
      <3>1. n \in Nat
        BY <1>7
      <3> HIDE DEF new, n
      <3> QED
        BY <2>4, <3>1
    <2> QED
      BY <2>3, <2>5
  <1> HIDE DEF new
  <1>18. /\ staged \in Seq(StagedType)
         /\ \A i \in 1 .. Len(staged) :
              \/ \E j \in 1 .. Len(cc.staged) : staged[i] = cc.staged[j]
              \/ \E j \in 1 .. n : staged[i] = new[j]
    <2>1. staged \in Seq(StagedType) /\ Len(staged) = Len(cc.staged) + n /\ Len(cc.staged) \in Nat
      BY <1>6, <1>17
    <2>2. ASSUME NEW i \in 1 .. Len(cc.staged) + n
          PROVE  \/ \E j \in 1 .. Len(cc.staged) : staged[i] = cc.staged[j]
                 \/ \E j \in 1 .. n : staged[i] = new[j]
      <3>1. CASE i <= Len(cc.staged)
        <4>1. i \in 1 .. Len(cc.staged) /\ staged[i] = cc.staged[i]
          BY <1>6, <1>17, <2>1, <3>1
        <4> QED
          BY <4>1
      <3>2. CASE ~ (i <= Len(cc.staged))
        <4>1. i - Len(cc.staged) \in 1 .. n
          BY <1>7, <2>1, <3>2
        <4>2. staged[i] = new[i - Len(cc.staged)]
          BY <1>6, <1>17, <2>1, <3>2
        <4> QED
          BY <4>1, <4>2
      <3> QED
        BY <3>1, <3>2
    <2> QED
      BY <2>1, <2>2
  <1> DEFINE answered == cc.answered + Cardinality(batch)
  <1>19. answered \in Nat /\ answered = cc.answered + n /\ answered <= Len(cc.requests)
    BY <1>6, <1>7
  <1> HIDE DEF found, staged, answered
  <1>20. /\ x \in OpenCalls /\ x.phase = "batches" /\ x.generation = cc.generation /\ x.op = cc.op
         /\ x.snapshot = cc.snapshot /\ x.adapter = cc.adapter /\ x.original = cc.original
         /\ x.found = found /\ x.requests = cc.requests /\ x.answered = answered
         /\ x.staged = staged
    <2>1. <<0, 0>> \in Nat \X Nat
      OBVIOUS
    <2> QED
      BY <1>1, <1>16, <1>18, <1>19, <2>1 DEF OpenCalls, answered
  <1>21. Coherent(x)
    <2> HIDE DEF x, cc
    <2> QED
      BY <1>2, <1>14, <1>19, <1>20 DEF Coherent
  <1>22. ASSUME x.generation = generation
         PROVE  UpToDate(x)
    <2> HIDE DEF x
    <2>1. UpToDate(cc)
      BY <1>2, <1>20, <1>22
    <2>2. \A k \in DOMAIN cc.found : Answers(k, Result(k))
      BY <1>1, <1>2, <1>3, <2>1, BatchIsCurrent DEF Result
    <2>3. \A k \in DOMAIN x.found :
            k.generation = generation /\ (Answers(k, x.found[k]) \/ Outstanding(x, k))
      <3> TAKE k \in DOMAIN x.found
      <3>1. k \in DOMAIN cc.found /\ k.generation = generation
        BY <1>14, <1>20, <2>1 DEF UpToDate
      <3>2. CASE Answered(k)
        BY <1>15, <1>20, <2>2, <3>1, <3>2
      <3>3. CASE ~Answered(k)
        <4>1. x.found[k] = cc.found[k]
          BY <1>15, <1>20, <3>1, <3>3
        <4>2. CASE Answers(k, cc.found[k])
          BY <3>1, <4>1, <4>2
        <4>3. CASE Outstanding(cc, k)
          <5>1. PICK j \in cc.answered + 1 .. Len(cc.requests) : cc.requests[j] = k
            BY <4>3 DEF Outstanding
          <5>2. j \notin batch
            BY <1>8, <3>3, <5>1
          <5>3. j \in x.answered + 1 .. Len(x.requests)
            BY <1>6, <1>7, <1>19, <1>20, <5>1, <5>2
          <5> QED
            BY <1>20, <3>1, <5>1, <5>3 DEF Outstanding
        <4> QED
          BY <2>1, <3>1, <4>2, <4>3 DEF UpToDate
      <3> QED
        BY <3>2, <3>3
    <2>4. \A i \in 1 .. Len(x.staged) :
            /\ x.staged[i].key.generation = generation
            /\ Answers(x.staged[i].key, x.staged[i].value)
      <3> TAKE i \in 1 .. Len(x.staged)
      <3>1. CASE \E j \in 1 .. Len(cc.staged) : staged[i] = cc.staged[j]
        BY <1>20, <2>1, <3>1 DEF UpToDate
      <3>2. CASE \E j \in 1 .. n : staged[i] = new[j]
        <4>1. PICK j \in 1 .. n : staged[i] = new[j]
          BY <3>2
        <4>2. Key0(j) \in DOMAIN cc.found
          BY <1>11
        <4>3. Key0(j).generation = generation /\ Answers(Key0(j), Result(Key0(j)))
          BY <2>1, <2>2, <4>2 DEF UpToDate
        <4> QED
          BY <1>17, <1>20, <4>1, <4>3
      <3> QED
        BY <1>18, <1>20, <3>1, <3>2
    <2> QED
      BY <1>20, <2>1, <2>3, <2>4 DEF UpToDate
  <1>23. x \in CallType /\ CallInv(x)
    <2> HIDE DEF x
    <2> QED
      BY <1>1, <1>20, <1>21, <1>22 DEF CallInv, CallType
  <1>24. cache' \in CacheType /\ CacheIsExact'
    BY <1>4, CacheFrame DEF registry
  <1> HIDE DEF x
  <1> QED
    BY <1>4, <1>5, <1>23, <1>24, StepKeeps
(* A call that returns has every answer, and each of them is of this step.  *)
LEMMA ReturnsCurrent ==
  ASSUME Inductive, NEW c \in Callers, Return(c)
  PROVE  /\ call[c] \in OpenCalls /\ Coherent(call[c]) /\ UpToDate(call[c])
         /\ Snapshot(call[c].op) = call[c].snapshot
         /\ \A k \in DOMAIN call[c].found : Answers(k, call[c].found[k])
PROOF
  <1> DEFINE cc == call[c]
  <1>1. /\ cc \in OpenCalls /\ CallInv(cc) /\ cc.answered = Len(cc.requests)
        /\ cc.generation = generation /\ Snapshot(cc.op) = cc.snapshot
    BY CallTypes DEF Inductive, TypeOK, Return, Publishable, Pinned, Current
  <1>2. Coherent(cc) /\ UpToDate(cc)
    BY <1>1 DEF CallInv
  <1>3. \A k \in DOMAIN cc.found : ~Outstanding(cc, k)
    <2>1. Len(cc.requests) \in Nat
      BY <1>1 DEF OpenCalls
    <2>2. cc.answered + 1 .. Len(cc.requests) = {}
      BY <1>1, <2>1
    <2> QED
      BY <2>2 DEF Outstanding
  <1> QED
    BY <1>1, <1>2, <1>3 DEF UpToDate

(* What is published is answered now.                                       *)
LEMMA ReturnKeeps ==
  ASSUME Inductive, NEW c \in Callers, Return(c)
  PROVE  Inductive'
PROOF
  <1> DEFINE cc == call[c]
  <1>1. cc \in OpenCalls /\ UpToDate(cc)
    BY ReturnsCurrent
  <1>2. /\ UNCHANGED registry /\ call' = [call EXCEPT ![c] = Idle]
        /\ cache' = PutAll(cache, cc.staged)
    BY DEF Return
  <1>3. cc.staged \in Seq(StagedType)
    BY <1>1 DEF OpenCalls
  <1>4. cache \in Budgeted
    BY DEF Inductive, TypeOK, CacheIsExact, Budgeted
  <1> HIDE DEF cc
  <1>5. /\ cache' \in Budgeted
        /\ \A e \in Range(cache'.entries) :
             \/ e \in Range(cache.entries)
             \/ \E i \in 1 .. Len(cc.staged) : e = Stored(cc.staged[i].key, cc.staged[i].value)
    BY <1>2, <1>3, <1>4, PutAllKeeps
  <1>6. \A i \in 1 .. Len(cc.staged) :
          LET e == Stored(cc.staged[i].key, cc.staged[i].value)
          IN  e.key.generation = generation /\ Answers(e.key, e.value)
    BY <1>1 DEF UpToDate, Stored
  <1>7. \A e \in Range(cache'.entries) :
          \/ e \in Range(cache.entries)
          \/ e.key.generation = generation /\ Answers(e.key, e.value)
    BY <1>5, <1>6
  <1>8. cache' \in CacheType /\ CacheIsExact'
    BY <1>2, <1>5, <1>7, ExactFrom DEF registry
  <1>9. Idle \in CallType /\ CallInv(Idle)
    BY CallTypes DEF CallType, CallInv
  <1> QED
    BY <1>2, <1>8, <1>9, StepKeeps

LEMMA InductiveStep == Inductive /\ [Next]_vars => Inductive'
PROOF
  <1> SUFFICES ASSUME Inductive, [Next]_vars PROVE Inductive'
    OBVIOUS
  <1>1. ASSUME NEW op \in Operations, NEW a \in Adapters, Register(op, a) PROVE Inductive'
    BY <1>1, RegisterKeeps
  <1>2. CASE Invalidate
    BY <1>2, InvalidateKeeps
  <1>3. CASE ClearCache
    BY <1>3, ClearCacheKeeps
  <1>4. ASSUME NEW a \in Adapters, Revise(a) PROVE Inductive'
    BY <1>4, ReviseKeeps
  <1>5. ASSUME NEW c \in Callers, Step(c) PROVE Inductive'
    <2>1. ASSUME NEW op \in Operations, Evaluate(c, op) PROVE Inductive'
      BY <2>1, EvaluateKeeps
    <2>2. CASE Pin(c)
      BY <2>2, PinKeeps
    <2>3. ASSUME NEW arg \in Arguments, Row(c, arg) PROVE Inductive'
      BY <2>3, RowKeeps
    <2>4. CASE EndRows(c)
      BY <2>4, EndRowsKeeps
    <2>5. CASE Ask(c)
      BY <2>5, AskKeeps
    <2>6. CASE Receive(c)
      BY <2>6, ReceiveKeeps
    <2>7. CASE Return(c)
      BY <2>7, ReturnKeeps
    <2>8. CASE Fail(c)
      BY <2>8, FailKeeps
    <2> QED
      BY <1>5, <2>1, <2>2, <2>3, <2>4, <2>5, <2>6, <2>7, <2>8 DEF Step
  <1>6. CASE UNCHANGED vars
    <2>1. UNCHANGED <<registered, generation, revision, cache, call>>
      BY <1>6 DEF vars
    <2>2. cache' \in CacheType /\ CacheIsExact'
      BY <2>1, CacheFrame
    <2> QED
      BY <2>1, <2>2 DEF Inductive, TypeOK, CallInv, Coherent, UpToDate, Outstanding, Answers
  <1> QED
    BY <1>1, <1>2, <1>3, <1>4, <1>5, <1>6 DEF Next, Manage

-----------------------------------------------------------------------------
(* The theorems                                                             *)

LEMMA InductiveInvariant == Spec => []Inductive
PROOF
  <1>1. Init => Inductive
    BY InductiveInit
  <1>2. Inductive /\ [Next]_vars => Inductive'
    BY InductiveStep
  <1> QED
    BY <1>1, <1>2, PTL DEF Spec

(* Everything in the cache can still be found, is what the adapter that is  *)
(* registered now would compute now for that snapshot, and is held within   *)
(* the budgets: however many batches overlap, and whatever is registered,   *)
(* invalidated and revised while adapters compute.                          *)
THEOREM CacheCorrect == Spec => []CacheIsExact
PROOF
  <1>1. Inductive => CacheIsExact
    BY DEF Inductive
  <1> QED
    BY <1>1, InductiveInvariant, PTL

LEMMA ReadInit == Init => Reads!Init
  BY LimitsAssumption DEF Init, Reads!Init

(* What returns is what a reader of this instant would have read.           *)
LEMMA ReturnAnswers ==
  ASSUME Inductive, NEW c \in Callers, Return(c)
  PROVE  Reads!Answer
PROOF
  <1> DEFINE cc == call[c]
             n == Len(cc.original)
             args == [i \in 1 .. n |-> cc.original[i].arg]
  <1>1. /\ cc \in OpenCalls /\ Coherent(cc) /\ UpToDate(cc)
        /\ Snapshot(cc.op) = cc.snapshot
        /\ \A k \in DOMAIN cc.found : Answers(k, cc.found[k])
    BY ReturnsCurrent
  <1>2. cc.op \in Operations /\ cc.original \in Seq(KeyType) /\ n \in Nat /\ n <= MaxRows
    BY <1>1 DEF OpenCalls, Coherent
  <1>3. MaxRows \in Nat /\ n \in 0 .. MaxRows
    BY <1>2, LimitsAssumption
  <1>4. revision[registered[cc.op]] \in 1 .. MaxRevision
    BY <1>2 DEF Inductive, TypeOK
  <1>5. ASSUME NEW i \in 1 .. n
        PROVE  /\ cc.original[i].arg \in Arguments
               /\ cc.found[cc.original[i]] = Reads!Now(cc.op, cc.original[i].arg)
    <2> DEFINE k == cc.original[i]
    <2>1. k \in KeyType
      BY <1>2
    <2>2. k \in DOMAIN cc.found /\ k.op = cc.op /\ k.snapshot = cc.snapshot
      BY <1>1 DEF Coherent
    <2>3. Answers(k, cc.found[k])
      BY <1>1, <2>2
    <2>4. SnapshotOf(registered[k.op], revision[registered[k.op]]) = k.snapshot
      BY <1>1, <2>2 DEF Snapshot
    <2>5. cc.found[k] = Reads!Now(k.op, k.arg)
      BY <1>4, <2>2, <2>3, <2>4 DEF Answers, Reads!Now
    <2> QED
      BY <2>1, <2>2, <2>5 DEF KeyType
  <1>6. args \in [1 .. n -> Arguments]
    BY <1>5
  <1>7. answer' = [op |-> cc.op, args |-> args,
                   values |-> [i \in 1 .. n |-> Reads!Now(cc.op, args[i])]]
    <2>1. DOMAIN cc.original = 1 .. n
      BY <1>2
    <2>2. answer' = [op     |-> cc.op,
                     args   |-> [i \in DOMAIN cc.original |-> cc.original[i].arg],
                     values |-> [i \in DOMAIN cc.original |-> cc.found[cc.original[i]]]]
      BY DEF Return
    <2>3. [i \in 1 .. n |-> cc.found[cc.original[i]]] = [i \in 1 .. n |-> Reads!Now(cc.op, args[i])]
      BY <1>5
    <2> QED
      BY <2>1, <2>2, <2>3
  <1>8. UNCHANGED <<registered, generation, revision>>
    BY DEF Return, registry
  <1> HIDE DEF cc, n, args
  <1> QED
    BY <1>2, <1>3, <1>6, <1>7, <1>8 DEF Reads!Answer

(* Every other step is one in which nothing is answered.                    *)
LEMMA ReadStep == Inductive /\ Inductive' /\ [Next]_vars => [Reads!Next]_(Reads!vars)
PROOF
  <1> SUFFICES ASSUME Inductive, Inductive', [Next]_vars PROVE [Reads!Next]_(Reads!vars)
    OBVIOUS
  <1> DEFINE Silent == /\ answer' = Reads!None
                       /\ generation' \in {generation, generation + 1}
                       /\ registered' # registered => generation' # generation
                       /\ \A a \in Adapters : revision'[a] >= revision[a]
  <1>1. \A a \in Adapters : revision[a] \in Nat
    BY LimitsAssumption DEF Inductive, TypeOK
  <1>2. generation + 1 # generation
    BY LimitsAssumption DEF Inductive, TypeOK
  <1>3. Silent => Reads!Change
    BY DEF Inductive, TypeOK, Reads!Change
  <1>4. UNCHANGED registry /\ Quiet => Silent
    BY <1>1 DEF registry, Quiet
  <1>5. ASSUME NEW op \in Operations, NEW a \in Adapters, Register(op, a) PROVE Silent
    BY <1>1, <1>2, <1>5 DEF Register, Advance, Quiet
  <1>6. CASE Invalidate
    <2>1. Silent
      BY <1>1, <1>2, <1>6 DEF Invalidate, Advance, Quiet
    <2> QED
      BY <1>3, <2>1 DEF Reads!Next
  <1>7. CASE ClearCache
    <2>1. Silent
      BY <1>4, <1>7 DEF ClearCache
    <2> QED
      BY <1>3, <2>1 DEF Reads!Next
  <1>8. ASSUME NEW a \in Adapters, Revise(a) PROVE Silent
    <2>1. revision' = [revision EXCEPT ![a] = revision[a] + 1] /\ UNCHANGED <<registered, generation>>
      BY <1>8 DEF Revise
    <2>2. \A b \in Adapters : revision'[b] >= revision[b]
      BY <1>1, <2>1 DEF Inductive, TypeOK
    <2> QED
      BY <1>8, <2>1, <2>2 DEF Revise, Quiet
  <1>9. ASSUME NEW c \in Callers, Step(c), ~Return(c) PROVE Silent
    <2>1. UNCHANGED registry /\ Quiet
      BY <1>9 DEF Step, Evaluate, Pin, Row, EndRows, Ask, Receive, Fail
    <2> QED
      BY <1>4, <2>1
  <1>10. ASSUME NEW c \in Callers, Return(c) PROVE Reads!Next
    BY <1>10, ReturnAnswers DEF Reads!Next
  <1>11. CASE UNCHANGED vars
    BY <1>11 DEF vars, Reads!vars
  <1> HIDE DEF Silent
  <1> QED
    BY <1>3, <1>5, <1>6, <1>7, <1>8, <1>9, <1>10, <1>11 DEF Next, Manage, Reads!Next

(* evaluate implements a read of one instant, the one at which it returns.  *)
THEOREM ReadsImplemented == Spec => ReadSpec
PROOF
  <1>1. Init => Reads!Init
    BY ReadInit
  <1>2. Inductive /\ Inductive' /\ [Next]_vars => [Reads!Next]_(Reads!vars)
    BY ReadStep
  <1> QED
    BY <1>1, <1>2, InductiveInvariant, PTL DEF Spec, ReadSpec, Reads!Spec

-----------------------------------------------------------------------------
(* Scans                                                                    *)

Item == UNION {Range(v) : v \in Outcomes}

UnderWay == {"new", "opening", "reading", "paging"}

OpenCursor ==
  [phase : UnderWay, op : Operations, arg : Arguments, adapter : Adapters, key : KeyType,
   generation : 1 .. MaxGeneration, revision : 1 .. MaxRevision, cached : BOOLEAN,
   buffer : Seq(Item), last : BOOLEAN, position : Nat, pages : Nat, asked : Nat \X Nat,
   saved : Seq(Item), cacheable : BOOLEAN, given : Seq(Item), complete : {FALSE}]

(* The rows of the instant at which a scan began.                           *)
RowsOf(cc) == Outcome(cc.op, cc.adapter, cc.generation, cc.revision, cc.arg)

(* What was given, and what is buffered, are the first of them; and what is *)
(* saved to be remembered is what was given.                                *)
HasRows(cc) ==
  /\ Len(cc.given) + Len(cc.buffer) <= Len(RowsOf(cc))
  /\ \A i \in 1 .. Len(cc.given) : cc.given[i] = RowsOf(cc)[i]
  /\ \A i \in 1 .. Len(cc.buffer) : cc.buffer[i] = RowsOf(cc)[Len(cc.given) + i]
  /\ cc.last => Len(cc.given) + Len(cc.buffer) = Len(RowsOf(cc))
  /\ cc.cached => cc.last
  /\ ~cc.cached => cc.position = Len(cc.given) + Len(cc.buffer)
  /\ ~cc.cached /\ cc.cacheable => cc.saved = cc.given

(* While the generation lasts, the adapter is the one that is registered.   *)
HasPin(cc, reg, gen, rev) ==
  /\ cc.generation <= gen /\ cc.revision <= rev[cc.adapter]
  /\ cc.key = [generation |-> cc.generation, op |-> cc.op,
               snapshot |-> SnapshotOf(cc.adapter, cc.revision), arg |-> cc.arg]
  /\ cc.generation = gen => cc.adapter = reg[cc.op]
  /\ cc.phase = "paging" =>
       cc.buffer = <<>> /\ ~cc.last /\ cc.asked = <<cc.generation, cc.revision>>

CursorInv(cc, reg, gen, rev) ==
  /\ cc.phase \in {"unused", "pinning", "closed"} \cup UnderWay
  /\ cc.phase = "pinning" =>
       cc.op \in Operations /\ cc.arg \in Arguments /\ cc.adapter = reg[cc.op]
  /\ cc.phase \in UnderWay => cc \in OpenCursor /\ HasRows(cc) /\ HasPin(cc, reg, gen, rev)

ScanInductive ==
  /\ TypeOK /\ CacheIsExact
  /\ call = [c \in Callers |-> Idle]
  /\ cursor = [c \in Cursors |-> cursor[c]]
  /\ \A c \in Cursors : CursorInv(cursor[c], registered, generation, revision)

(* What an adapter has, at an instant that it can be at, is a sequence.     *)
LEMMA OutcomeRows ==
  ASSUME NEW op \in Operations, NEW a \in Adapters, NEW g \in 1 .. MaxGeneration,
         NEW r \in 1 .. MaxRevision, NEW arg \in Arguments
  PROVE  /\ Outcome(op, a, g, r, arg) \in Outcomes
         /\ Outcome(op, a, g, r, arg) \in Seq(Item)
PROOF
  <1> DEFINE v == Outcome(op, a, g, r, arg)
  <1>1. v \in Outcomes
    BY DEF Outcomes
  <1> HIDE DEF v
  <1>2. v \in Seq(Range(v))
    BY <1>1, RowsAssumption
  <1>3. Range(v) \subseteq Item
    BY <1>1 DEF Item
  <1>4. v \in Seq(Item)
    <2> DEFINE n == Len(v)
    <2>1. n \in Nat /\ v \in [1 .. n -> Range(v)]
      BY <1>2
    <2>2. v \in [1 .. n -> Item]
      BY <1>3, <2>1
    <2> HIDE DEF n
    <2> QED
      BY <2>1, <2>2
  <1> QED
    BY <1>1, <1>4 DEF v

LEMMA IdleCalls ==
  ASSUME TypeOK, CacheIsExact, call = [c \in Callers |-> Idle]
  PROVE  Inductive
PROOF
  <1>1. Idle \notin OpenCalls
    BY DEF Idle, OpenCalls
  <1> QED
    BY <1>1 DEF Inductive, CallInv

(* Time does not hurt a cursor: what it knows of the registry, it claims    *)
(* only of its own generation.                                              *)
LEMMA CursorLater ==
  ASSUME NEW cc, NEW reg, NEW reg2, NEW gen \in Nat, NEW gen2 \in Nat,
         NEW rev \in [Adapters -> Nat], NEW rev2 \in [Adapters -> Nat],
         CursorInv(cc, reg, gen, rev), gen2 >= gen,
         reg2 # reg => gen2 > gen /\ cc.phase # "pinning",
         \A a \in Adapters : rev2[a] >= rev[a]
  PROVE  CursorInv(cc, reg2, gen2, rev2)
PROOF
  <1>1. ASSUME cc.phase \in UnderWay
        PROVE  HasPin(cc, reg2, gen2, rev2)
    <2>1. /\ cc \in OpenCursor /\ HasPin(cc, reg, gen, rev)
      BY <1>1 DEF CursorInv
    <2>2. cc.generation \in Nat /\ cc.revision \in Nat /\ cc.adapter \in Adapters
      BY <2>1 DEF OpenCursor
    <2> QED
      BY <2>1, <2>2 DEF HasPin
  <1> QED
    BY <1>1 DEF CursorInv

LEMMA ScanTypes ==
  ASSUME TypeOK
  PROVE  generation \in Nat /\ revision \in [Adapters -> Nat]
  BY LimitsAssumption DEF TypeOK

LEMMA ManageScans ==
  ASSUME SnapshotsUseRegistry = FALSE, ScanInductive, Manage, UNCHANGED cursor,
         Asking /\ ~SnapshotsUseRegistry => UNCHANGED <<generation, cache>>
  PROVE  ScanInductive'
PROOF
  <1>1. Inductive
    BY IdleCalls DEF ScanInductive
  <1>2. Inductive' /\ UNCHANGED call
    BY <1>1, RegisterKeeps, InvalidateKeeps, ClearCacheKeeps, ReviseKeeps
       DEF Manage, Register, Invalidate, ClearCache, Revise, registry
  <1>3. /\ generation \in Nat /\ revision \in [Adapters -> Nat]
        /\ generation' \in Nat /\ revision' \in [Adapters -> Nat]
    BY <1>1, <1>2, LimitsAssumption DEF Inductive, TypeOK
  <1>4. /\ generation' >= generation
        /\ registered' # registered => generation' > generation
        /\ \A a \in Adapters : revision'[a] >= revision[a]
    BY <1>3 DEF Manage, Register, Invalidate, ClearCache, Revise, Advance, registry
  <1>5. ASSUME NEW c \in Cursors
        PROVE  CursorInv(cursor'[c], registered', generation', revision')
    <2>1. registered' # registered => cursor[c].phase # "pinning"
      BY <1>3, <1>4 DEF Asking
    <2>2. CursorInv(cursor[c], registered, generation, revision)
      BY DEF ScanInductive
    <2>3. CursorInv(cursor[c], registered', generation', revision')
      BY <1>3, <1>4, <2>1, <2>2, CursorLater
    <2> QED
      BY <2>3
  <1> QED
    BY <1>2, <1>5 DEF ScanInductive, Inductive

(* A step of one cursor.                                                    *)
LEMMA OneCursor ==
  ASSUME ScanInductive, NEW c \in Cursors, NEW x,
         CursorInv(x, registered, generation, revision),
         cursor' = [cursor EXCEPT ![c] = x], Registered,
         cache' \in CacheType, CacheIsExact'
  PROVE  ScanInductive'
PROOF
  <1>1. UNCHANGED <<registered, generation, revision, call>>
    BY DEF Registered, registry
  <1>2. TypeOK'
    BY <1>1 DEF ScanInductive, TypeOK
  <1>3. cursor' = [d \in Cursors |-> IF d = c THEN x ELSE cursor[d]]
    BY DEF ScanInductive
  <1>4. \A d \in Cursors : CursorInv(cursor'[d], registered', generation', revision')
    BY <1>1, <1>3 DEF ScanInductive
  <1>5. cursor' = [d \in Cursors |-> cursor'[d]]
    BY <1>3
  <1> QED
    BY <1>1, <1>2, <1>4, <1>5 DEF ScanInductive

(* The same, with the cache left alone.                                     *)
LEMMA OneCursorOnly ==
  ASSUME ScanInductive, NEW c \in Cursors, NEW x,
         CursorInv(x, registered, generation, revision),
         cursor' = [cursor EXCEPT ![c] = x], Registered, UNCHANGED cache
  PROVE  ScanInductive'
PROOF
  <1>1. Inductive
    BY IdleCalls DEF ScanInductive
  <1>2. cache' \in CacheType /\ CacheIsExact'
    BY <1>1, CacheFrame DEF Registered, registry
  <1> QED
    BY <1>2, OneCursor

(* A cursor that is read has the fields of one.                             *)
LEMMA CursorOf ==
  ASSUME ScanInductive, NEW c \in Cursors
  PROVE  /\ cursor[c].phase \in UnderWay =>
              /\ cursor[c] \in OpenCursor /\ HasRows(cursor[c])
              /\ HasPin(cursor[c], registered, generation, revision)
              /\ RowsOf(cursor[c]) \in Outcomes /\ RowsOf(cursor[c]) \in Seq(Item)
         /\ cursor[c].phase = "pinning" =>
              /\ cursor[c].op \in Operations /\ cursor[c].arg \in Arguments
              /\ cursor[c].adapter = registered[cursor[c].op]
PROOF
  <1>1. CursorInv(cursor[c], registered, generation, revision)
    BY DEF ScanInductive
  <1>2. ASSUME cursor[c] \in OpenCursor
        PROVE  RowsOf(cursor[c]) \in Outcomes /\ RowsOf(cursor[c]) \in Seq(Item)
    BY <1>2, OutcomeRows DEF OpenCursor, RowsOf
  <1> QED
    BY <1>1, <1>2 DEF CursorInv

(* A check that succeeds finds the instant at which the scan began.         *)
LEMMA CheckedStands ==
  ASSUME ScanInductive, NEW c \in Cursors, cursor[c].phase \in UnderWay, Checked(c)
  PROVE  /\ cursor[c].generation = generation
         /\ cursor[c].adapter = registered[cursor[c].op]
         /\ cursor[c].revision = revision[cursor[c].adapter]
PROOF
  <1> DEFINE cc == cursor[c]
  <1>1. cc \in OpenCursor /\ HasPin(cc, registered, generation, revision)
    BY CursorOf
  <1>2. /\ cc.generation = generation /\ cc.adapter = registered[cc.op]
        /\ SnapshotOf(registered[cc.op], revision[registered[cc.op]]) = cc.key.snapshot
    BY <1>1 DEF Checked, Snapshot, HasPin
  <1>3. cc.key.snapshot = SnapshotOf(cc.adapter, cc.revision)
    BY <1>1 DEF HasPin
  <1>4. /\ cc.adapter \in Adapters /\ cc.revision \in 1 .. MaxRevision
        /\ revision[cc.adapter] \in 1 .. MaxRevision
    BY <1>1 DEF OpenCursor, ScanInductive, TypeOK
  <1>5. SnapshotOf(cc.adapter, revision[cc.adapter]) = SnapshotOf(cc.adapter, cc.revision)
    BY <1>2, <1>3
  <1> HIDE DEF cc
  <1>6. cc.revision = revision[cc.adapter]
    BY <1>4, <1>5, SnapshotAssumption
  <1> QED
    BY <1>2, <1>6 DEF cc

-----------------------------------------------------------------------------
(* The steps of a cursor                                                    *)

LEMMA ScanKeeps ==
  ASSUME ScanInductive, NEW c \in Cursors, NEW op \in Operations, NEW arg \in Arguments,
         Scan(c, op, arg)
  PROVE  ScanInductive'
PROOF
  <1> DEFINE x == [phase |-> "pinning", op |-> op, arg |-> arg, adapter |-> registered[op]]
  <1>1. CursorInv(x, registered, generation, revision)
    BY DEF CursorInv, UnderWay
  <1>2. cursor' = [cursor EXCEPT ![c] = x] /\ Registered /\ UNCHANGED cache
    BY DEF Scan
  <1> HIDE DEF x
  <1> QED
    BY <1>1, <1>2, OneCursorOnly

LEMMA RefuseKeeps ==
  ASSUME ScanInductive, NEW c \in Cursors, Refuse(c)
  PROVE  ScanInductive'
PROOF
  <1> DEFINE x == [phase |-> "unused"]
  <1>1. CursorInv(x, registered, generation, revision)
    BY DEF CursorInv, UnderWay
  <1>2. cursor' = [cursor EXCEPT ![c] = x] /\ Registered /\ UNCHANGED cache
    BY DEF Refuse
  <1> HIDE DEF x
  <1> QED
    BY <1>1, <1>2, OneCursorOnly

LEMMA ClosedIsFree ==
  ASSUME NEW cc
  PROVE  CursorInv(Closed(cc), registered, generation, revision)
  BY DEF CursorInv, UnderWay, Closed

LEMMA ClosingKeeps ==
  ASSUME ScanInductive, NEW c \in Cursors, Raise(c) \/ Close(c)
  PROVE  ScanInductive'
PROOF
  <1> DEFINE x == Closed(cursor[c])
  <1>1. CursorInv(x, registered, generation, revision)
    BY ClosedIsFree
  <1>2. cursor' = [cursor EXCEPT ![c] = x] /\ Registered /\ UNCHANGED cache
    BY DEF Raise, Close, ScanInductive
  <1> HIDE DEF x
  <1> QED
    BY <1>1, <1>2, OneCursorOnly

LEMMA PhaseKeeps ==
  ASSUME ScanInductive, NEW c \in Cursors, cursor[c].phase \in UnderWay,
         NEW p \in UnderWay \ {"paging"}
  PROVE  CursorInv([cursor[c] EXCEPT !.phase = p], registered, generation, revision)
PROOF
  <1> DEFINE cc == cursor[c]
             x  == [cc EXCEPT !.phase = p]
  <1>1. cc \in OpenCursor /\ HasRows(cc) /\ HasPin(cc, registered, generation, revision)
    BY CursorOf
  <1>2. x \in OpenCursor
    BY <1>1 DEF OpenCursor
  <1>3. /\ x.phase = p /\ x.op = cc.op /\ x.arg = cc.arg /\ x.adapter = cc.adapter
        /\ x.key = cc.key /\ x.generation = cc.generation /\ x.revision = cc.revision
        /\ x.cached = cc.cached /\ x.buffer = cc.buffer /\ x.last = cc.last
        /\ x.position = cc.position /\ x.saved = cc.saved /\ x.cacheable = cc.cacheable
        /\ x.given = cc.given
    BY <1>1 DEF OpenCursor
  <1> HIDE DEF x, cc
  <1>4. HasRows(x)
    <2>1. RowsOf(x) = RowsOf(cc)
      BY <1>3 DEF RowsOf
    <2> QED
      BY <1>1, <1>3, <2>1 DEF HasRows
  <1>5. HasPin(x, registered, generation, revision)
    BY <1>1, <1>3 DEF HasPin
  <1> QED
    BY <1>2, <1>3, <1>4, <1>5 DEF CursorInv, UnderWay, x, cc

LEMMA OpenKeeps ==
  ASSUME ScanInductive, NEW c \in Cursors, Open(c) \/ Opened(c)
  PROVE  ScanInductive'
PROOF
  <1>1. PICK p \in {"reading", "opening"} :
          cursor' = [cursor EXCEPT ![c] = [cursor[c] EXCEPT !.phase = p]]
    BY DEF Open, Opened, ScanInductive
  <1>2. cursor[c].phase \in UnderWay /\ Registered /\ UNCHANGED cache
    BY DEF Open, Opened, UnderWay
  <1> DEFINE x == [cursor[c] EXCEPT !.phase = p]
  <1>3. CursorInv(x, registered, generation, revision)
    BY <1>2, PhaseKeeps DEF UnderWay
  <1> HIDE DEF x
  <1> QED
    BY <1>1, <1>2, <1>3, OneCursorOnly DEF x

LEMMA NextPageKeeps ==
  ASSUME ScanInductive, NEW c \in Cursors, NextPage(c)
  PROVE  ScanInductive'
PROOF
  <1> DEFINE cc == cursor[c]
             asked == <<generation, revision[cc.adapter]>>
             x  == [cc EXCEPT !.phase = "paging", !.asked = asked]
  <1>1. /\ cc.phase = "reading" /\ cc.buffer = <<>> /\ ~cc.last /\ Checked(c)
        /\ Registered /\ UNCHANGED cache
    BY DEF NextPage
  <1>2. cc \in OpenCursor /\ HasRows(cc) /\ HasPin(cc, registered, generation, revision)
    BY <1>1, CursorOf DEF UnderWay
  <1>3. cc.generation = generation /\ cc.revision = revision[cc.adapter]
    BY <1>1, CheckedStands DEF UnderWay
  <1>4. asked \in Nat \X Nat
    <2>1. generation \in Nat /\ revision \in [Adapters -> Nat] /\ cc.adapter \in Adapters
      BY <1>2, ScanTypes DEF ScanInductive, OpenCursor
    <2> QED
      BY <2>1
  <1>5. cursor' = [cursor EXCEPT ![c] = x]
    BY DEF NextPage, ScanInductive
  <1> HIDE DEF asked
  <1>6. x \in OpenCursor
    BY <1>2, <1>4 DEF OpenCursor, UnderWay
  <1>7. /\ x.phase = "paging" /\ x.op = cc.op /\ x.arg = cc.arg /\ x.adapter = cc.adapter
        /\ x.key = cc.key /\ x.generation = cc.generation /\ x.revision = cc.revision
        /\ x.cached = cc.cached /\ x.buffer = cc.buffer /\ x.last = cc.last
        /\ x.position = cc.position /\ x.saved = cc.saved /\ x.cacheable = cc.cacheable
        /\ x.given = cc.given /\ x.asked = asked
    BY <1>2 DEF OpenCursor
  <1> HIDE DEF x, cc
  <1>8. HasRows(x)
    <2>1. RowsOf(x) = RowsOf(cc)
      BY <1>7 DEF RowsOf
    <2> QED
      BY <1>2, <1>7, <2>1 DEF HasRows
  <1>9. HasPin(x, registered, generation, revision)
    BY <1>1, <1>2, <1>3, <1>7 DEF HasPin, asked
  <1>10. CursorInv(x, registered, generation, revision)
    BY <1>6, <1>7, <1>8, <1>9 DEF CursorInv, UnderWay
  <1> QED
    BY <1>1, <1>5, <1>10, OneCursorOnly

(* A page has the next rows of the scan.                                    *)
LEMMA PageRows ==
  ASSUME ScanInductive, NEW c \in Cursors, cursor[c].phase = "paging", Checked(c),
         NEW at \in (cursor[c].asked[1] .. generation)
                      \X (cursor[c].asked[2] .. revision[cursor[c].adapter])
  PROVE  Outcome(cursor[c].op, cursor[c].adapter, at[1], at[2], cursor[c].arg)
           = RowsOf(cursor[c])
PROOF
  <1> DEFINE cc == cursor[c]
  <1>1. cc \in OpenCursor /\ HasPin(cc, registered, generation, revision)
    BY CursorOf DEF UnderWay
  <1>2. cc.generation = generation /\ cc.revision = revision[cc.adapter]
    BY CheckedStands DEF UnderWay
  <1>3. cc.asked[1] = generation /\ cc.asked[2] = revision[cc.adapter]
    BY <1>1, <1>2 DEF HasPin
  <1>4. generation \in Int /\ revision[cc.adapter] \in Int
    BY <1>1, ScanTypes DEF ScanInductive, OpenCursor
  <1> HIDE DEF cc
  <1>5. at[1] = generation /\ at[2] = revision[cc.adapter]
    BY <1>3, <1>4 DEF cc
  <1> QED
    BY <1>2, <1>5 DEF RowsOf, cc

LEMMA PageKeeps ==
  ASSUME ScanInductive, NEW c \in Cursors, Page(c)
  PROVE  ScanInductive'
PROOF
  <1> DEFINE cc == cursor[c]
             all == RowsOf(cc)
  <1>1. cc.phase = "paging" /\ Checked(c) /\ Registered /\ UNCHANGED cache
    BY DEF Page
  <1>2. /\ cc \in OpenCursor /\ HasRows(cc) /\ HasPin(cc, registered, generation, revision)
        /\ all \in Seq(Item)
    BY <1>1, CursorOf DEF UnderWay
  <1>3. PICK n \in 0 .. MaxPage, last \in BOOLEAN :
          /\ cc.position + n <= Len(all)
          /\ last => cc.position + n = Len(all)
          /\ cursor' = [cursor EXCEPT ![c] =
               WithPage(cc, SubSeq(all, cc.position + 1, cc.position + n), n, last)]
    BY <1>1, PageRows DEF Page
  <1> DEFINE from == cc.position + 1
             to == cc.position + n
             rows == SubSeq(all, from, to)
             pages == Counted(cc.pages, rows)
             x == WithPage(cc, rows, n, last)
  <1>4. /\ cc.buffer = <<>> /\ ~cc.last /\ ~cc.cached /\ cc.position = Len(cc.given)
        /\ n \in Nat /\ Len(all) \in Nat /\ cc.position \in Nat /\ to \in Nat /\ pages \in Nat
        /\ cc.given \in Seq(Item)
    <2> HIDE DEF all
    <2>0. Len(all) \in Nat
      BY <1>2
    <2>1. /\ cc.position \in Nat /\ cc.pages \in Nat /\ cc.given \in Seq(Item)
          /\ cc.cached \in BOOLEAN
      BY <1>2 DEF OpenCursor
    <2>2. cc.buffer = <<>> /\ ~cc.last /\ (cc.cached => cc.last)
      BY <1>1, <1>2 DEF HasPin, HasRows, all
    <2>3. cc.position = Len(cc.given) + Len(cc.buffer) /\ ~cc.cached
      BY <1>2, <2>2 DEF HasRows
    <2>4. n \in Nat
      BY PagesAssumption
    <2> HIDE DEF cc, rows
    <2> QED
      BY <2>0, <2>1, <2>2, <2>3, <2>4 DEF Counted
  <1>5. /\ rows \in Seq(Item) /\ Len(rows) = n
        /\ \A i \in 1 .. n : rows[i] = all[cc.position + i]
    <2> HIDE DEF all, cc
    <2>1. from \in Int /\ to \in Int /\ to - from + 1 = n
      BY <1>4
    <2>2. \A i \in 1 .. n : from + i - 1 = cc.position + i
      BY <1>4
    <2>3. \A i \in from .. to : i \in 1 .. Len(all)
      BY <1>3, <1>4
    <2> HIDE DEF from, to
    <2>4. \A i \in from .. to : all[i] \in Item
      BY <1>2, <2>3
    <2>5. /\ SubSeq(all, from, to) \in Seq(Item)
          /\ Len(SubSeq(all, from, to)) = IF from <= to THEN to - from + 1 ELSE 0
          /\ \A i \in 1 .. to - from + 1 : SubSeq(all, from, to)[i] = all[from + i - 1]
      BY <2>1, <2>4, SubSeqProperties
    <2>6. (IF from <= to THEN to - from + 1 ELSE 0) = n
      BY <1>4, <2>1
    <2> QED
      BY <2>1, <2>2, <2>5, <2>6
  <1>6. cursor' = [cursor EXCEPT ![c] = x]
    BY <1>3
  <1> HIDE DEF rows, to, pages
  <1>7. /\ x \in OpenCursor
        /\ x.phase = "reading" /\ x.op = cc.op /\ x.arg = cc.arg /\ x.adapter = cc.adapter
        /\ x.key = cc.key /\ x.generation = cc.generation /\ x.revision = cc.revision
        /\ x.cached = cc.cached /\ x.buffer = rows /\ x.last = last
        /\ x.position = to /\ x.saved = cc.saved /\ x.cacheable = cc.cacheable
        /\ x.given = cc.given
    <2>1. to = cc.position + n /\ pages = Counted(cc.pages, rows)
      BY DEF to, pages
    <2>2. x = [cc EXCEPT !.phase = "reading", !.buffer = rows, !.last = last, !.position = to,
                         !.pages = pages, !.asked = <<0, 0>>]
      BY <2>1 DEF WithPage
    <2> HIDE DEF x, cc
    <2>3. x \in OpenCursor
      BY <1>2, <1>4, <1>5, <2>2 DEF OpenCursor, UnderWay
    <2> QED
      BY <1>2, <2>2, <2>3 DEF OpenCursor
  <1>9. RowsOf(x) = all
    BY <1>7 DEF RowsOf
  <1> HIDE DEF x, cc, all
  <1>10. HasRows(x)
    <2>1. /\ Len(x.given) + Len(x.buffer) = to /\ to <= Len(all)
          /\ x.last => to = Len(all)
      BY <1>3, <1>4, <1>5, <1>7 DEF to
    <2>2. \A i \in 1 .. Len(x.given) : x.given[i] = all[i]
      BY <1>2, <1>7 DEF HasRows, all
    <2>3. \A i \in 1 .. Len(x.buffer) : x.buffer[i] = all[Len(x.given) + i]
      BY <1>4, <1>5, <1>7
    <2>4. ~cc.cached /\ cc.cacheable => cc.saved = cc.given
      BY <1>2 DEF HasRows
    <2> QED
      BY <1>4, <1>7, <1>9, <2>1, <2>2, <2>3, <2>4 DEF HasRows
  <1>11. HasPin(x, registered, generation, revision)
    BY <1>2, <1>7 DEF HasPin
  <1>12. CursorInv(x, registered, generation, revision)
    BY <1>7, <1>10, <1>11 DEF CursorInv, UnderWay
  <1> QED
    BY <1>1, <1>6, <1>12, OneCursorOnly

(* What is kept to be remembered is all that was given, or nothing is.      *)
LEMMA RetainedRows ==
  ASSUME NEW cc \in OpenCursor, NEW row \in Item
  PROVE  /\ Retained(cc, row).saved \in Seq(Item) /\ Retained(cc, row).cacheable \in BOOLEAN
         /\ Retained(cc, row).cacheable =>
              cc.cacheable /\ Retained(cc, row).saved = Append(cc.saved, row)
PROOF
  <1>1. cc.saved \in Seq(Item)
    BY DEF OpenCursor
  <1>2. Append(cc.saved, row) \in Seq(Item) /\ <<>> \in Seq(Item)
    BY <1>1
  <1> QED
    BY <1>2 DEF Retained

LEMMA YieldKeeps ==
  ASSUME ScanInductive, NEW c \in Cursors, Yield(c)
  PROVE  ScanInductive'
PROOF
  <1> DEFINE cc   == cursor[c]
             all  == RowsOf(cc)
             row  == Head(cc.buffer)
             rest == Tail(cc.buffer)
             given == Append(cc.given, row)
             saved == IF cc.cached THEN cc.saved ELSE Retained(cc, row).saved
             cacheable == IF cc.cached THEN cc.cacheable ELSE Retained(cc, row).cacheable
             x == WithRow(cc, row)
  <1>1. cc.phase = "reading" /\ cc.buffer # <<>> /\ Checked(c) /\ Registered /\ UNCHANGED cache
    BY DEF Yield
  <1>2. /\ cc \in OpenCursor /\ HasRows(cc) /\ HasPin(cc, registered, generation, revision)
        /\ all \in Seq(Item)
    BY <1>1, CursorOf DEF UnderWay
  <1>3. /\ cc.buffer \in Seq(Item) /\ cc.given \in Seq(Item) /\ cc.saved \in Seq(Item)
        /\ cc.cached \in BOOLEAN /\ cc.cacheable \in BOOLEAN
    BY <1>2 DEF OpenCursor
  <1>4. /\ row \in Item /\ rest \in Seq(Item) /\ Len(rest) = Len(cc.buffer) - 1
        /\ row = cc.buffer[1] /\ \A i \in 1 .. Len(rest) : rest[i] = cc.buffer[i + 1]
        /\ Len(cc.buffer) \in Nat /\ Len(cc.buffer) >= 1 /\ Len(rest) \in Nat
    <2> DEFINE b == cc.buffer
    <2>1. b \in Seq(Item) /\ b # <<>>
      BY <1>1, <1>3
    <2> HIDE DEF cc, b
    <2> QED
      BY <2>1 DEF b
  <1>5. /\ given \in Seq(Item) /\ Len(given) = Len(cc.given) + 1
        /\ \A i \in 1 .. Len(cc.given) : given[i] = cc.given[i]
        /\ given[Len(cc.given) + 1] = row
        /\ Len(cc.given) \in Nat
    <2> DEFINE g == cc.given
    <2>1. g \in Seq(Item)
      BY <1>3
    <2> HIDE DEF cc, row, g
    <2> QED
      BY <1>4, <2>1 DEF g
  <1> HIDE DEF row, rest
  <1>6. /\ saved \in Seq(Item) /\ cacheable \in BOOLEAN
        /\ ~cc.cached /\ cacheable => cc.cacheable /\ saved = Append(cc.saved, row)
    BY <1>2, <1>3, <1>4, RetainedRows
  <1>7. cursor' = [cursor EXCEPT ![c] = x]
    BY DEF Yield, row
  <1> HIDE DEF given, saved, cacheable
  <1>8. /\ x \in OpenCursor
        /\ x.phase = "reading" /\ x.op = cc.op /\ x.arg = cc.arg /\ x.adapter = cc.adapter
        /\ x.key = cc.key /\ x.generation = cc.generation /\ x.revision = cc.revision
        /\ x.cached = cc.cached /\ x.buffer = rest /\ x.last = cc.last
        /\ x.position = cc.position /\ x.saved = saved /\ x.cacheable = cacheable
        /\ x.given = given
    <2>1. x = [cc EXCEPT !.buffer = rest, !.given = given, !.saved = saved, !.cacheable = cacheable]
      BY DEF WithRow, rest, given, saved, cacheable
    <2> HIDE DEF x, cc
    <2>2. x \in OpenCursor
      BY <1>2, <1>4, <1>5, <1>6, <2>1 DEF OpenCursor
    <2> QED
      BY <1>1, <1>2, <2>1, <2>2 DEF OpenCursor
  <1>9. RowsOf(x) = all
    BY <1>8 DEF RowsOf
  <1> HIDE DEF x, cc, all
  <1>10. HasRows(x)
    <2>0. Len(all) \in Nat
      BY <1>2
    <2>1. /\ Len(cc.given) + Len(cc.buffer) <= Len(all)
          /\ \A i \in 1 .. Len(cc.given) : cc.given[i] = all[i]
          /\ \A i \in 1 .. Len(cc.buffer) : cc.buffer[i] = all[Len(cc.given) + i]
      BY <1>2 DEF HasRows, all
    <2>2. /\ cc.last => Len(cc.given) + Len(cc.buffer) = Len(all)
          /\ cc.cached => cc.last
          /\ ~cc.cached => cc.position = Len(cc.given) + Len(cc.buffer)
          /\ ~cc.cached /\ cc.cacheable => cc.saved = cc.given
      BY <1>2 DEF HasRows, all
    <2> DEFINE g == Len(cc.given)
               m == Len(cc.buffer)
    <2>7. g \in Nat /\ m \in Nat /\ Len(rest) = m - 1 /\ Len(given) = g + 1 /\ m >= 1
      BY <1>4, <1>5
    <2>3. Len(x.given) + Len(x.buffer) = Len(cc.given) + Len(cc.buffer)
      <3> HIDE DEF g, m
      <3>1. Len(given) + Len(rest) = g + m
        BY <2>7
      <3> QED
        BY <1>8, <3>1 DEF g, m
    <2>4. \A i \in 1 .. Len(x.given) : x.given[i] = all[i]
      <3>1. ASSUME NEW i \in 1 .. Len(cc.given) + 1
            PROVE  given[i] = all[i]
        <4>1. CASE i \in 1 .. Len(cc.given)
          BY <1>5, <2>1, <4>1
        <4>2. CASE i = Len(cc.given) + 1
          <5>1. 1 \in 1 .. Len(cc.buffer)
            BY <1>4
          <5> QED
            BY <1>4, <1>5, <2>1, <4>2, <5>1
        <4> QED
          BY <1>5, <4>1, <4>2
      <3> QED
        BY <1>5, <1>8, <3>1
    <2>5. \A i \in 1 .. Len(x.buffer) : x.buffer[i] = all[Len(x.given) + i]
      <3>1. ASSUME NEW i \in 1 .. Len(rest)
            PROVE  rest[i] = all[Len(cc.given) + 1 + i]
        <4>1. i + 1 \in 1 .. Len(cc.buffer) /\ Len(cc.given) + (i + 1) = Len(cc.given) + 1 + i
          <5>1. i \in 1 .. m - 1
            BY <2>7
          <5> HIDE DEF g, m
          <5>2. i + 1 \in 1 .. m /\ g + (i + 1) = g + 1 + i
            BY <2>7, <5>1
          <5> QED
            BY <5>2 DEF g, m
        <4> QED
          BY <1>4, <2>1, <4>1
      <3> QED
        BY <1>5, <1>8, <3>1
    <2>6. ~x.cached /\ x.cacheable => x.saved = x.given
      BY <1>6, <1>8, <2>2 DEF given
    <2> QED
      BY <1>8, <1>9, <2>0, <2>1, <2>2, <2>3, <2>4, <2>5, <2>6 DEF HasRows
  <1>11. HasPin(x, registered, generation, revision)
    BY <1>2, <1>8 DEF HasPin
  <1>12. CursorInv(x, registered, generation, revision)
    BY <1>8, <1>10, <1>11 DEF CursorInv, UnderWay
  <1> QED
    BY <1>1, <1>7, <1>12, OneCursorOnly

(* A remembered scan has the rows of the instant at which it begins again.  *)
LEMMA ConstructKeeps ==
  ASSUME ScanInductive, NEW c \in Cursors, Construct(c)
  PROVE  ScanInductive'
PROOF
  <1> DEFINE cc  == cursor[c]
             at  == revision[cc.adapter]
             key == Key(cc.op, SnapshotOf(cc.adapter, at), cc.arg)
             hit == key \in KeysOf(cache)
             buffer == IF hit THEN EntryOf(cache, key).value ELSE <<>>
             x == [phase |-> "new", op |-> cc.op, arg |-> cc.arg, adapter |-> cc.adapter,
                   key |-> key, generation |-> generation, revision |-> at,
                   cached |-> hit, buffer |-> buffer, last |-> hit,
                   position |-> 0, pages |-> 0, asked |-> <<0, 0>>,
                   saved |-> <<>>, cacheable |-> MaxEntries # 0,
                   given |-> <<>>, complete |-> FALSE]
             all == Outcome(cc.op, cc.adapter, generation, at, cc.arg)
  <1>1. Inductive
    BY IdleCalls DEF ScanInductive
  <1>2. /\ cc.phase = "pinning" /\ Registered
        /\ cursor' = [cursor EXCEPT ![c] = x] /\ cache' = Touched(cache, key)
    BY DEF Construct
  <1>3. /\ cc.op \in Operations /\ cc.arg \in Arguments /\ cc.adapter = registered[cc.op]
        /\ cc.adapter \in Adapters /\ generation \in 1 .. MaxGeneration /\ at \in 1 .. MaxRevision
        /\ generation \in Nat /\ at \in Nat
    BY <1>2, CursorOf, LimitsAssumption DEF ScanInductive, TypeOK
  <1>4. all \in Outcomes /\ all \in Seq(Item)
    BY <1>3, OutcomeRows
  <1>5. key \in KeyType
    BY <1>3 DEF Key, KeyType, Snapshots
  <1>6. hit => buffer = all
    <2> SUFFICES ASSUME hit PROVE EntryOf(cache, key).value = all
      OBVIOUS
    <2>1. Answers(key, EntryOf(cache, key).value)
      BY <1>1, HitAnswers
    <2> QED
      BY <1>3, <2>1 DEF Answers, Key
  <1>7. cache' \in CacheType /\ CacheIsExact'
    <2>1. cache \in Budgeted
      BY DEF ScanInductive, TypeOK, CacheIsExact, Budgeted
    <2> HIDE DEF key
    <2>2. cache' \in Budgeted /\ Range(cache'.entries) \subseteq Range(cache.entries)
      BY <1>2, <2>1, TouchedKeeps
    <2> QED
      BY <1>1, <1>2, <2>2, ExactFrom DEF Registered, registry
  <1>8. buffer \in Seq(Item) /\ (~hit => buffer = <<>>) /\ hit \in BOOLEAN
    BY <1>4, <1>6
  <1>9. key = [generation |-> generation, op |-> cc.op, snapshot |-> SnapshotOf(cc.adapter, at),
               arg |-> cc.arg]
    BY DEF Key
  <1> HIDE DEF key, hit, buffer, at
  <1>10. x \in OpenCursor
    BY <1>3, <1>5, <1>8 DEF OpenCursor, UnderWay
  <1>11. RowsOf(x) = all
    BY DEF RowsOf
  <1>12. /\ x.phase = "new" /\ x.op = cc.op /\ x.arg = cc.arg /\ x.adapter = cc.adapter
         /\ x.key = key /\ x.generation = generation /\ x.revision = at
         /\ x.cached = hit /\ x.buffer = buffer /\ x.last = hit
         /\ x.position = 0 /\ x.saved = <<>> /\ x.given = <<>>
    OBVIOUS
  <1> HIDE DEF x, all, cc
  <1>13. HasRows(x)
    <2>1. Len(all) \in Nat /\ Len(x.given) = 0 /\ x.saved = x.given
      BY <1>4, <1>12
    <2>2. CASE hit
      <3>1. \A i \in 1 .. Len(x.buffer) : x.buffer[i] = all[0 + i]
        BY <1>6, <1>12, <2>1, <2>2
      <3> QED
        BY <1>6, <1>11, <1>12, <2>1, <2>2, <3>1 DEF HasRows
    <2>3. CASE ~hit
      BY <1>8, <1>11, <1>12, <2>1, <2>3 DEF HasRows
    <2> QED
      BY <2>2, <2>3
  <1>14. HasPin(x, registered, generation, revision)
    BY <1>3, <1>9, <1>12 DEF HasPin, at
  <1>15. CursorInv(x, registered, generation, revision)
    BY <1>10, <1>12, <1>13, <1>14 DEF CursorInv, UnderWay
  <1> QED
    BY <1>2, <1>7, <1>15, OneCursor

(* A scan that ends has given all of its rows.                              *)
LEMMA FinishGivesAll ==
  ASSUME ScanInductive, NEW c \in Cursors, Finish(c)
  PROVE  /\ cursor[c].given = RowsOf(cursor[c])
         /\ ~cursor[c].cached /\ cursor[c].cacheable => cursor[c].saved = RowsOf(cursor[c])
PROOF
  <1> DEFINE cc  == cursor[c]
             all == RowsOf(cc)
             given == cc.given
  <1>1. cc.phase = "reading" /\ cc.buffer = <<>> /\ cc.last
    BY DEF Finish
  <1>2. cc \in OpenCursor /\ HasRows(cc) /\ all \in Seq(Item)
    BY <1>1, CursorOf DEF UnderWay
  <1>3. given \in Seq(Item)
    BY <1>2 DEF OpenCursor
  <1>4. /\ Len(given) + Len(cc.buffer) = Len(all)
        /\ \A i \in 1 .. Len(given) : given[i] = all[i]
        /\ ~cc.cached /\ cc.cacheable => cc.saved = given
    BY <1>1, <1>2 DEF HasRows
  <1>5. Len(cc.buffer) = 0
    BY <1>1
  <1> HIDE DEF all, given, cc
  <1>6. Len(given) = Len(all)
    BY <1>2, <1>3, <1>4, <1>5
  <1>7. given = all
    BY <1>2, <1>3, <1>4, <1>6
  <1> QED
    BY <1>4, <1>7 DEF all, given, cc

LEMMA FinishKeeps ==
  ASSUME ScanInductive, NEW c \in Cursors, Finish(c)
  PROVE  ScanInductive'
PROOF
  <1> DEFINE cc  == cursor[c]
             all == RowsOf(cc)
             key == cc.key
             x == [Closed(cc) EXCEPT !.complete = TRUE]
  <1>1. Inductive
    BY IdleCalls DEF ScanInductive
  <1>2. /\ cc.phase = "reading" /\ Checked(c) /\ Registered
        /\ cursor' = [cursor EXCEPT ![c] = x]
        /\ cache' = IF cc.cacheable /\ ~cc.cached THEN Put(cache, key, cc.saved) ELSE cache
    BY DEF Finish
  <1>3. x.phase = "closed"
    BY DEF Closed
  <1>4. CursorInv(x, registered, generation, revision)
    BY <1>3 DEF CursorInv, UnderWay
  <1>5. CASE ~(cc.cacheable /\ ~cc.cached)
    <2>1. UNCHANGED cache
      BY <1>2, <1>5
    <2> HIDE DEF x
    <2> QED
      BY <1>2, <1>4, <2>1, OneCursorOnly
  <1>6. CASE cc.cacheable /\ ~cc.cached
    <2>1. /\ cc \in OpenCursor /\ HasPin(cc, registered, generation, revision)
          /\ all \in Outcomes
      BY <1>2, CursorOf DEF UnderWay
    <2>2. cc.generation = generation /\ cc.adapter = registered[cc.op]
      BY <1>2, CheckedStands DEF UnderWay
    <2>3. cache' = Put(cache, key, all)
      BY <1>2, <1>6, FinishGivesAll
    <2>4. key \in KeyType /\ cc.revision \in 1 .. MaxRevision /\ cc.adapter \in Adapters
      BY <2>1 DEF OpenCursor
    <2>5. key.generation = generation /\ Answers(key, all)
      <3>1. key = [generation |-> cc.generation, op |-> cc.op,
                   snapshot |-> SnapshotOf(cc.adapter, cc.revision), arg |-> cc.arg]
        BY <2>1 DEF HasPin
      <3>2. ASSUME NEW r \in 1 .. MaxRevision, SnapshotOf(registered[key.op], r) = key.snapshot
            PROVE  all = Outcome(key.op, registered[key.op], generation, r, key.arg)
        <4>1. SnapshotOf(cc.adapter, r) = SnapshotOf(cc.adapter, cc.revision)
          BY <2>2, <3>1, <3>2
        <4>2. r = cc.revision
          BY <2>4, <4>1, SnapshotAssumption
        <4> QED
          BY <2>2, <3>1, <4>2 DEF RowsOf
      <3> QED
        BY <2>2, <3>1, <3>2 DEF Answers
    <2>6. cache \in Budgeted
      BY DEF ScanInductive, TypeOK, CacheIsExact, Budgeted
    <2> HIDE DEF all, key
    <2>7. /\ cache' \in Budgeted
          /\ Range(cache'.entries) \subseteq Range(cache.entries) \cup {Stored(key, all)}
      BY <2>1, <2>3, <2>4, <2>6, PutKeeps
    <2>8. Stored(key, all).key = key /\ Stored(key, all).value = all
      BY DEF Stored
    <2>9. cache' \in CacheType /\ CacheIsExact'
      BY <1>1, <1>2, <2>5, <2>7, <2>8, ExactFrom DEF Registered, registry
    <2> HIDE DEF x
    <2> QED
      BY <1>2, <1>4, <2>9, OneCursor
  <1> QED
    BY <1>5, <1>6

LEMMA ScanInductiveInit == ScanInit => ScanInductive
PROOF
  <1> SUFFICES ASSUME ScanInit PROVE ScanInductive
    OBVIOUS
  <1>1. Inductive /\ call = [c \in Callers |-> Idle]
    BY InductiveInit DEF ScanInit, Init
  <1>2. cursor = [c \in Cursors |-> [phase |-> "unused"]]
    BY DEF ScanInit
  <1>3. \A c \in Cursors : CursorInv(cursor[c], registered, generation, revision)
    BY <1>2 DEF CursorInv, UnderWay
  <1> QED
    BY <1>1, <1>2, <1>3 DEF ScanInductive, Inductive

LEMMA ScanInductiveStep ==
  SnapshotsUseRegistry = FALSE /\ ScanInductive /\ [ScanNext]_scanVars => ScanInductive'
PROOF
  <1> SUFFICES ASSUME SnapshotsUseRegistry = FALSE, ScanInductive, [ScanNext]_scanVars
               PROVE  ScanInductive'
    OBVIOUS
  <1>1. ASSUME Manage, UNCHANGED cursor,
               Asking /\ ~SnapshotsUseRegistry => UNCHANGED <<generation, cache>>
        PROVE  ScanInductive'
    BY <1>1, ManageScans
  <1>2. ASSUME NEW c \in Cursors, NEW op \in Operations, NEW arg \in Arguments, Scan(c, op, arg)
        PROVE  ScanInductive'
    BY <1>2, ScanKeeps
  <1>3. ASSUME NEW c \in Cursors, Read(c) \/ Close(c)
        PROVE  ScanInductive'
    BY <1>3, ConstructKeeps, RefuseKeeps, OpenKeeps, NextPageKeeps, PageKeeps, YieldKeeps,
       FinishKeeps, ClosingKeeps DEF Read
  <1>4. CASE UNCHANGED scanVars
    <2>1. UNCHANGED <<registered, generation, revision, cache, call, cursor>>
      BY <1>4 DEF scanVars, vars
    <2>2. TypeOK' /\ CacheIsExact'
      BY <2>1 DEF ScanInductive, TypeOK, CacheIsExact, CachedIsCurrent, Answers, WithinBudget
    <2> QED
      BY <2>1, <2>2 DEF ScanInductive
  <1> QED
    BY <1>1, <1>2, <1>3, <1>4 DEF ScanNext

-----------------------------------------------------------------------------
(* Scans implement SnapshotScans                                            *)

LEMMA ScanReadInit == ScanInit => Scans!Init
PROOF
  <1> SUFFICES ASSUME ScanInit PROVE Scans!Init
    OBVIOUS
  <1>1. /\ registered \in [Operations -> Adapters] /\ generation \in Nat
        /\ revision \in [Adapters -> Nat]
    BY DEF ScanInit, Init
  <1>2. Seen = [c \in Cursors |-> Scans!Unused]
    BY DEF ScanInit, Seen, SeenOf, Scans!Unused
  <1> QED
    BY <1>1, <1>2 DEF Scans!Init

(* A step of one cursor changes what its consumer has seen, and no other.   *)
LEMMA OneSeen ==
  ASSUME ScanInductive, NEW c \in Cursors, NEW x, cursor' = [cursor EXCEPT ![c] = x]
  PROVE  Seen' = [Seen EXCEPT ![c] = SeenOf(x)]
PROOF
  <1>1. cursor' = [d \in Cursors |-> IF d = c THEN x ELSE cursor[d]]
    BY DEF ScanInductive
  <1>2. Seen' = [d \in Cursors |-> SeenOf(cursor'[d])]
    BY DEF Seen, SeenOf
  <1>3. \A d \in Cursors : cursor'[d] = IF d = c THEN x ELSE cursor[d]
    BY <1>1
  <1>4. Seen' = [d \in Cursors |-> IF d = c THEN SeenOf(x) ELSE SeenOf(cursor[d])]
    BY <1>2, <1>3
  <1> QED
    BY <1>4 DEF Seen

LEMMA UnseenStep ==
  ASSUME ScanInductive, NEW c \in Cursors, NEW x, cursor' = [cursor EXCEPT ![c] = x],
         SeenOf(x) = SeenOf(cursor[c]), Registered
  PROVE  UNCHANGED Scans!vars
PROOF
  <1>1. Seen' = [Seen EXCEPT ![c] = SeenOf(x)]
    BY OneSeen
  <1>2. Seen' = Seen
    BY <1>1 DEF Seen
  <1> QED
    BY <1>2 DEF Registered, registry, Scans!vars

LEMMA SeenOpen ==
  ASSUME NEW cc \in OpenCursor
  PROVE  SeenOf(cc) = [begun |-> TRUE, op |-> cc.op, arg |-> cc.arg, generation |-> cc.generation,
                       revision |-> cc.revision, given |-> cc.given, complete |-> FALSE]
PROOF
  <1>1. cc.phase \notin {"unused", "pinning"} /\ cc.complete = FALSE
    BY DEF OpenCursor, UnderWay
  <1> QED
    BY <1>1 DEF SeenOf

LEMMA OpenSteps ==
  ASSUME ScanInductive, NEW c \in Cursors, Open(c) \/ Opened(c) \/ NextPage(c) \/ Page(c)
  PROVE  UNCHANGED Scans!vars
PROOF
  <1> DEFINE cc == cursor[c]
  <1>1. cc.phase \in UnderWay /\ Registered
    BY DEF Open, Opened, NextPage, Page, UnderWay
  <1>2. cc \in OpenCursor
    BY <1>1, CursorOf
  <1>3. ASSUME NEW x \in OpenCursor, cursor' = [cursor EXCEPT ![c] = x],
               x.op = cc.op, x.arg = cc.arg, x.generation = cc.generation,
               x.revision = cc.revision, x.given = cc.given
        PROVE  UNCHANGED Scans!vars
    <2>1. SeenOf(x) = SeenOf(cc)
      <3> HIDE DEF cc
      <3> QED
        BY <1>2, <1>3, SeenOpen
    <2> QED
      BY <1>1, <1>3, <2>1, UnseenStep
  <1>4. CASE Open(c) \/ Opened(c)
    <2>1. PICK p \in {"reading", "opening"} : cursor' = [cursor EXCEPT ![c] = [cc EXCEPT !.phase = p]]
      BY <1>4 DEF Open, Opened, ScanInductive
    <2> DEFINE x == [cc EXCEPT !.phase = p]
    <2>2. /\ x \in OpenCursor /\ x.op = cc.op /\ x.arg = cc.arg /\ x.generation = cc.generation
          /\ x.revision = cc.revision /\ x.given = cc.given
      BY <1>2 DEF OpenCursor, UnderWay
    <2> HIDE DEF x
    <2> QED
      BY <1>3, <2>1, <2>2 DEF x
  <1>5. CASE NextPage(c)
    <2> DEFINE asked == <<generation, revision[cc.adapter]>>
               x == [cc EXCEPT !.phase = "paging", !.asked = asked]
    <2>1. cursor' = [cursor EXCEPT ![c] = x]
      BY <1>5 DEF NextPage, ScanInductive
    <2>2. asked \in Nat \X Nat
      <3>1. generation \in Nat /\ revision \in [Adapters -> Nat] /\ cc.adapter \in Adapters
        BY <1>2, ScanTypes DEF ScanInductive, OpenCursor
      <3> QED
        BY <3>1
    <2> HIDE DEF asked
    <2>3. /\ x \in OpenCursor /\ x.op = cc.op /\ x.arg = cc.arg /\ x.generation = cc.generation
          /\ x.revision = cc.revision /\ x.given = cc.given
      BY <1>2, <2>2 DEF OpenCursor, UnderWay
    <2> HIDE DEF x
    <2> QED
      BY <1>3, <2>1, <2>3
  <1>6. CASE Page(c)
    <2>1. PICK x : /\ cursor' = [cursor EXCEPT ![c] = x] /\ x.phase = "reading"
                   /\ x.op = cc.op /\ x.arg = cc.arg /\ x.generation = cc.generation
                   /\ x.revision = cc.revision /\ x.given = cc.given
      <3>1. PICK rows, n, last : cursor' = [cursor EXCEPT ![c] = WithPage(cc, rows, n, last)]
        BY <1>6 DEF Page
      <3> DEFINE x == WithPage(cc, rows, n, last)
      <3>2. /\ x.phase = "reading" /\ x.op = cc.op /\ x.arg = cc.arg
            /\ x.generation = cc.generation /\ x.revision = cc.revision /\ x.given = cc.given
        BY <1>2 DEF WithPage, OpenCursor
      <3> HIDE DEF x
      <3> QED
        BY <3>1, <3>2 DEF x
    <2>2. ScanInductive'
      BY <1>6, PageKeeps
    <2>3. cursor'[c] = x
      BY <2>1 DEF ScanInductive
    <2>4. x \in OpenCursor
      BY <2>1, <2>2, <2>3 DEF ScanInductive, CursorInv, UnderWay
    <2> QED
      BY <1>3, <2>1, <2>4
  <1> QED
    BY <1>4, <1>5, <1>6

LEMMA ConstructBegins ==
  ASSUME ScanInductive, NEW c \in Cursors, Construct(c)
  PROVE  [Scans!Next]_(Scans!vars)
PROOF
  <1> DEFINE cc  == cursor[c]
             at  == revision[cc.adapter]
             new == [begun |-> TRUE, op |-> cc.op, arg |-> cc.arg, generation |-> generation,
                     revision |-> at, given |-> <<>>, complete |-> FALSE]
  <1>1. cc.phase = "pinning" /\ Registered
    BY DEF Construct
  <1>2. cc.op \in Operations /\ cc.arg \in Arguments /\ cc.adapter = registered[cc.op]
    BY <1>1, CursorOf
  <1>3. PICK x : cursor' = [cursor EXCEPT ![c] = x] /\ SeenOf(x) = new
    <2> DEFINE key == Key(cc.op, SnapshotOf(cc.adapter, at), cc.arg)
               hit == key \in KeysOf(cache)
               buffer == IF hit THEN EntryOf(cache, key).value ELSE <<>>
               x == [phase |-> "new", op |-> cc.op, arg |-> cc.arg, adapter |-> cc.adapter,
                     key |-> key, generation |-> generation, revision |-> at,
                     cached |-> hit, buffer |-> buffer, last |-> hit,
                     position |-> 0, pages |-> 0, asked |-> <<0, 0>>,
                     saved |-> <<>>, cacheable |-> MaxEntries # 0,
                     given |-> <<>>, complete |-> FALSE]
    <2>1. cursor' = [cursor EXCEPT ![c] = x]
      BY DEF Construct
    <2> HIDE DEF key, hit, buffer, at
    <2>2. SeenOf(x) = new
      BY DEF SeenOf
    <2> HIDE DEF x, new
    <2> QED
      BY <2>1, <2>2
  <1>4. Seen' = [Seen EXCEPT ![c] = new]
    BY <1>3, OneSeen
  <1>5. Scans!Begin(c)
    BY <1>2, <1>4 DEF Scans!Begin
  <1> QED
    BY <1>1, <1>5 DEF Scans!Next, Registered, registry

LEMMA SeenWith ==
  ASSUME NEW t, NEW op, NEW arg, NEW g, NEW r, NEW given, NEW f, NEW new, NEW s,
         s = [begun |-> t, op |-> op, arg |-> arg, generation |-> g, revision |-> r,
              given |-> given, complete |-> f]
  PROVE  /\ [s EXCEPT !.given = new] =
              [begun |-> t, op |-> op, arg |-> arg, generation |-> g, revision |-> r,
               given |-> new, complete |-> f]
         /\ [s EXCEPT !.complete = new] =
              [begun |-> t, op |-> op, arg |-> arg, generation |-> g, revision |-> r,
               given |-> given, complete |-> new]
  OBVIOUS

LEMMA YieldDelivers ==
  ASSUME ScanInductive, NEW c \in Cursors, Yield(c)
  PROVE  [Scans!Next]_(Scans!vars)
PROOF
  <1> DEFINE cc  == cursor[c]
             all == RowsOf(cc)
             row == Head(cc.buffer)
             given == cc.given
             x == WithRow(cc, row)
             seen == Seen[c]
  <1>1. cc.phase = "reading" /\ cc.buffer # <<>> /\ Checked(c) /\ Registered
    BY DEF Yield
  <1>2. /\ cc \in OpenCursor /\ HasRows(cc) /\ all \in Seq(Item)
    BY <1>1, CursorOf DEF UnderWay
  <1>3. /\ cc.generation = generation /\ cc.adapter = registered[cc.op]
        /\ cc.revision = revision[cc.adapter]
    BY <1>1, CheckedStands DEF UnderWay
  <1>4. /\ cc.buffer \in Seq(Item) /\ given \in Seq(Item)
    BY <1>2 DEF OpenCursor
  <1>5. row = all[Len(given) + 1] /\ Len(given) < Len(all)
    <2> DEFINE b == cc.buffer
    <2>1. b \in Seq(Item) /\ b # <<>> /\ Len(given) + Len(b) <= Len(all)
          /\ \A i \in 1 .. Len(b) : b[i] = all[Len(given) + i]
      BY <1>1, <1>2, <1>4 DEF HasRows
    <2> HIDE DEF cc, all, given, b
    <2>2. Len(b) \in Nat /\ Len(b) >= 1 /\ Head(b) = b[1]
      BY <2>1
    <2>3. Len(given) \in Nat /\ Len(all) \in Nat
      BY <1>2, <1>4
    <2>4. 1 \in 1 .. Len(b)
      BY <2>2
    <2> QED
      BY <2>1, <2>2, <2>3, <2>4 DEF b
  <1>6. cursor' = [cursor EXCEPT ![c] = x]
    BY DEF Yield
  <1>7. seen = [begun |-> TRUE, op |-> cc.op, arg |-> cc.arg, generation |-> cc.generation,
                revision |-> cc.revision, given |-> cc.given, complete |-> FALSE]
    <2>1. seen = SeenOf(cc)
      BY DEF Seen
    <2> HIDE DEF cc, seen
    <2> QED
      BY <1>2, <2>1, SeenOpen
  <1>8. SeenOf(x) = [begun |-> TRUE, op |-> cc.op, arg |-> cc.arg, generation |-> cc.generation,
                     revision |-> cc.revision, given |-> Append(cc.given, row), complete |-> FALSE]
    <2>1. /\ x.phase = "reading" /\ x.op = cc.op /\ x.arg = cc.arg /\ x.complete = FALSE
          /\ x.generation = cc.generation /\ x.revision = cc.revision
          /\ x.given = Append(cc.given, row)
      BY <1>1, <1>2 DEF WithRow, OpenCursor
    <2> HIDE DEF x, cc, row
    <2> QED
      BY <2>1 DEF SeenOf
  <1>9. Seen' = [Seen EXCEPT ![c] = [seen EXCEPT !.given = Append(cc.given, row)]]
    <2>1. Seen' = [Seen EXCEPT ![c] = SeenOf(x)]
      BY <1>6, OneSeen
    <2>2. SeenOf(x) = [seen EXCEPT !.given = Append(cc.given, row)]
      <3> DEFINE more == Append(cc.given, row)
      <3>1. PICK t, f : t = TRUE /\ f = FALSE
        OBVIOUS
      <3> HIDE DEF seen, cc, x, more
      <3>2. seen = [begun |-> t, op |-> cc.op, arg |-> cc.arg, generation |-> cc.generation,
                    revision |-> cc.revision, given |-> cc.given, complete |-> f]
        BY <1>7, <3>1
      <3>3. SeenOf(x) = [begun |-> t, op |-> cc.op, arg |-> cc.arg, generation |-> cc.generation,
                         revision |-> cc.revision, given |-> more, complete |-> f]
        BY <1>8, <3>1 DEF more
      <3>4. SeenOf(x) = [seen EXCEPT !.given = more]
        BY <3>2, <3>3, SeenWith
      <3> QED
        BY <3>4 DEF more
    <2> QED
      BY <2>1, <2>2
  <1>10. Scans!Stands(c) /\ Scans!Now(seen.op, seen.arg) = all /\ seen.given = cc.given
    <2>1. all = Outcome(cc.op, registered[cc.op], generation, revision[registered[cc.op]], cc.arg)
      BY <1>3 DEF RowsOf
    <2> HIDE DEF all, cc
    <2> QED
      BY <1>3, <1>7, <2>1 DEF Scans!Stands, Scans!Now
  <1>11. Scans!Deliver(c)
    <2> HIDE DEF all, cc, row
    <2>1. row = all[Len(seen.given) + 1] /\ Len(seen.given) < Len(all)
      BY <1>5, <1>10
    <2>2. Seen' = [Seen EXCEPT ![c].given = Append(@, all[Len(seen.given) + 1])]
      BY <1>9, <1>10, <2>1
    <2> QED
      BY <1>10, <2>1, <2>2 DEF Scans!Deliver
  <1> QED
    BY <1>1, <1>11 DEF Scans!Next, Registered, registry

LEMMA FinishCompletes ==
  ASSUME ScanInductive, NEW c \in Cursors, Finish(c)
  PROVE  [Scans!Next]_(Scans!vars)
PROOF
  <1> DEFINE cc  == cursor[c]
             all == RowsOf(cc)
             x == [Closed(cc) EXCEPT !.complete = TRUE]
             seen == Seen[c]
  <1>1. cc.phase = "reading" /\ Checked(c) /\ Registered
    BY DEF Finish
  <1>2. cc \in OpenCursor
    BY <1>1, CursorOf DEF UnderWay
  <1>3. /\ cc.generation = generation /\ cc.adapter = registered[cc.op]
        /\ cc.revision = revision[cc.adapter]
    BY <1>1, CheckedStands DEF UnderWay
  <1>4. cc.given = all
    BY FinishGivesAll
  <1>5. cursor' = [cursor EXCEPT ![c] = x]
    BY DEF Finish
  <1>6. seen = [begun |-> TRUE, op |-> cc.op, arg |-> cc.arg, generation |-> cc.generation,
                revision |-> cc.revision, given |-> cc.given, complete |-> FALSE]
    <2>1. seen = SeenOf(cc)
      BY DEF Seen
    <2> HIDE DEF cc, seen
    <2> QED
      BY <1>2, <2>1, SeenOpen
  <1>7. SeenOf(x) = [begun |-> TRUE, op |-> cc.op, arg |-> cc.arg, generation |-> cc.generation,
                     revision |-> cc.revision, given |-> cc.given, complete |-> TRUE]
    BY DEF Closed, SeenOf
  <1>8. Seen' = [Seen EXCEPT ![c].complete = TRUE]
    <2>1. Seen' = [Seen EXCEPT ![c] = SeenOf(x)]
      BY <1>5, OneSeen
    <2>2. SeenOf(x) = [seen EXCEPT !.complete = TRUE]
      <3> HIDE DEF seen, cc, x
      <3>1. PICK t, f : t = TRUE /\ f = FALSE
        OBVIOUS
      <3>2. seen = [begun |-> t, op |-> cc.op, arg |-> cc.arg, generation |-> cc.generation,
                    revision |-> cc.revision, given |-> cc.given, complete |-> f]
        BY <1>6, <3>1
      <3>3. SeenOf(x) = [begun |-> t, op |-> cc.op, arg |-> cc.arg, generation |-> cc.generation,
                         revision |-> cc.revision, given |-> cc.given, complete |-> t]
        BY <1>7, <3>1
      <3>4. SeenOf(x) = [seen EXCEPT !.complete = t]
        BY <3>2, <3>3, SeenWith
      <3> QED
        BY <3>1, <3>4
    <2> QED
      BY <2>1, <2>2
  <1>9. Scans!Stands(c) /\ seen.given = Scans!Now(seen.op, seen.arg)
    <2>1. all = Outcome(cc.op, registered[cc.op], generation, revision[registered[cc.op]], cc.arg)
      BY <1>3 DEF RowsOf
    <2> HIDE DEF all, cc
    <2> QED
      BY <1>3, <1>4, <1>6, <2>1 DEF Scans!Stands, Scans!Now
  <1>10. Scans!Complete(c)
    BY <1>8, <1>9 DEF Scans!Complete
  <1> QED
    BY <1>1, <1>10 DEF Scans!Next, Registered, registry

LEMMA ScanReadStep ==
  SnapshotsUseRegistry = FALSE /\ ScanInductive /\ ScanInductive' /\ [ScanNext]_scanVars
    => [Scans!Next]_(Scans!vars)
PROOF
  <1> SUFFICES ASSUME ScanInductive, ScanInductive', [ScanNext]_scanVars
               PROVE  [Scans!Next]_(Scans!vars)
    OBVIOUS
  <1>1. ASSUME Manage, UNCHANGED cursor
        PROVE  [Scans!Next]_(Scans!vars)
    <2>1. generation \in Nat /\ revision \in [Adapters -> Nat]
      BY ScanTypes DEF ScanInductive
    <2>2. registered' \in [Operations -> Adapters]
      BY DEF ScanInductive, TypeOK
    <2>3. /\ generation' \in {generation, generation + 1}
          /\ \A a \in Adapters : revision'[a] >= revision[a]
          /\ registered' # registered => generation' # generation
      BY <1>1, <2>1 DEF Manage, Register, Invalidate, ClearCache, Revise, Advance, registry
    <2>4. UNCHANGED Seen
      BY <1>1 DEF Seen, SeenOf
    <2> QED
      BY <2>2, <2>3, <2>4 DEF Scans!Next, Scans!Change
  <1>2. ASSUME NEW c \in Cursors, NEW op \in Operations, NEW arg \in Arguments, Scan(c, op, arg)
        PROVE  [Scans!Next]_(Scans!vars)
    <2> DEFINE x == [phase |-> "pinning", op |-> op, arg |-> arg, adapter |-> registered[op]]
    <2>1. cursor' = [cursor EXCEPT ![c] = x] /\ SeenOf(x) = Scans!Unused
      BY <1>2 DEF Scan, SeenOf, Scans!Unused
    <2> HIDE DEF x
    <2>2. Scans!Drop(c)
      BY <2>1, OneSeen DEF Scans!Drop
    <2> QED
      BY <1>2, <2>2 DEF Scans!Next, Scan, Registered, registry
  <1>3. ASSUME NEW c \in Cursors, Refuse(c)
        PROVE  [Scans!Next]_(Scans!vars)
    <2> DEFINE x == [phase |-> "unused"]
    <2>1. cursor' = [cursor EXCEPT ![c] = x] /\ SeenOf(x) = SeenOf(cursor[c]) /\ Registered
      BY <1>3 DEF Refuse, SeenOf
    <2> HIDE DEF x
    <2> QED
      BY <2>1, UnseenStep
  <1>4. ASSUME NEW c \in Cursors, Raise(c) \/ Close(c)
        PROVE  [Scans!Next]_(Scans!vars)
    <2> DEFINE cc == cursor[c]
               x  == Closed(cc)
    <2>1. cc.phase \in UnderWay /\ Registered /\ cursor' = [cursor EXCEPT ![c] = x]
      BY <1>4 DEF Raise, Close, UnderWay, ScanInductive
    <2>2. cc \in OpenCursor
      BY <2>1, CursorOf
    <2>3. SeenOf(x) = [begun |-> TRUE, op |-> cc.op, arg |-> cc.arg, generation |-> cc.generation,
                       revision |-> cc.revision, given |-> cc.given, complete |-> FALSE]
      BY DEF SeenOf, Closed
    <2> HIDE DEF x
    <2>4. SeenOf(x) = SeenOf(cc)
      <3> HIDE DEF cc
      <3> QED
        BY <2>2, <2>3, SeenOpen
    <2> QED
      BY <2>1, <2>4, UnseenStep
  <1>5. ASSUME NEW c \in Cursors, Read(c)
        PROVE  [Scans!Next]_(Scans!vars)
    BY <1>3, <1>4, <1>5, OpenSteps, ConstructBegins, YieldDelivers, FinishCompletes DEF Read
  <1>6. CASE UNCHANGED scanVars
    BY <1>6 DEF scanVars, vars, Seen, SeenOf, Scans!vars
  <1> QED
    BY <1>1, <1>2, <1>4, <1>5, <1>6 DEF ScanNext

(* A scan gives the rows of the instant at which it began, in their order,  *)
(* each only while that instant lasts, and is complete only when it gave    *)
(* them all: ProviderCursor over any adapters, pages, limits and cache, if  *)
(* no adapter uses the registry while it reports its snapshot.              *)
THEOREM ScansImplemented ==
  ASSUME SnapshotsUseRegistry = FALSE
  PROVE  ScanSpec => RowsSpec
PROOF
  <1>1. ScanInit => ScanInductive
    BY ScanInductiveInit
  <1>2. ScanInductive /\ [ScanNext]_scanVars => ScanInductive'
    BY ScanInductiveStep
  <1>3. ScanInit => Scans!Init
    BY ScanReadInit
  <1>4. ScanInductive /\ ScanInductive' /\ [ScanNext]_scanVars => [Scans!Next]_(Scans!vars)
    BY ScanReadStep
  <1> QED
    BY <1>1, <1>2, <1>3, <1>4, PTL DEF ScanSpec, RowsSpec, Scans!Spec

(* Scans leave an exact cache too, with entries that are found again only   *)
(* while they are what the adapter has.                                     *)
THEOREM ScanCacheCorrect ==
  ASSUME SnapshotsUseRegistry = FALSE
  PROVE  ScanSpec => []CacheIsExact
PROOF
  <1>1. ScanInit => ScanInductive
    BY ScanInductiveInit
  <1>2. ScanInductive /\ [ScanNext]_scanVars => ScanInductive'
    BY ScanInductiveStep
  <1>3. ScanInductive => CacheIsExact
    BY DEF ScanInductive
  <1> QED
    BY <1>1, <1>2, <1>3, PTL DEF ScanSpec
=============================================================================
