---------------------------- MODULE NetRes_proofs ----------------------------
(***************************************************************************)
(* Proofs about the lists of chunks (ResChunkData): each operation does to *)
(* the list what it is meant to do to the set of chunks, and the list      *)
(* stays sorted, without ranges that touch, and properly counted.  Then    *)
(* about the resources: for any number of computers and chunks, any limits *)
(* of loads, and any number of broken connections, timeouts and            *)
(* discoveries.                                                            *)
(***************************************************************************)
EXTENDS NetRes, BoundedRecursion, SequenceTheorems, FiniteSetTheorems, TLAPS

-----------------------------------------------------------------------------
(* Lists of ranges.                                                        *)

RangeList == Seq(Nat \X Nat)
ListData  == [ranges : RangeList, present : Int, rangeCnt : Int]

\* The ranges are not empty and hold chunks of the resource.
Proper(s) == \A i \in 1 .. Len(s) : s[i][2] > 0 /\ s[i][1] + s[i][2] <= ChunkCnt

\* There is a gap between two ranges.
Gap(s, i, j) == s[i][1] + s[i][2] < s[j][1]

Apart(s) == \A i, j \in 1 .. Len(s) : i < j => Gap(s, i, j)

\* The same but for the range p, which may reach into those behind it.
ApartBut(s, p) == \A i, j \in 1 .. Len(s) : i < j => IF i = p THEN s[i][1] <= s[j][1] ELSE Gap(s, i, j)

\* An element of a list of ranges.
LEMMA RangeType ==
  ASSUME NEW s \in RangeList
  PROVE  /\ Len(s) \in Nat
         /\ \A i \in 1 .. Len(s) : s[i] \in Nat \X Nat /\ s[i][1] \in Nat /\ s[i][2] \in Nat
<1>1. Len(s) \in Nat /\ s \in [1 .. Len(s) -> Nat \X Nat]
  BY LenProperties DEF RangeList
<1> QED BY <1>1

\* A range behind a range that is behind another one.
LEMMA GapTransitive ==
  ASSUME NEW s \in RangeList, NEW i \in 1 .. Len(s), NEW j \in 1 .. Len(s), NEW k \in 1 .. Len(s), Gap(s, i, j), Gap(s, j, k)
  PROVE  Gap(s, i, k)
<1> DEFINE a == s[i][1]
           b == s[i][2]
           x == s[j][1]
           y == s[j][2]
           z == s[k][1]
<1>1. a \in Nat /\ b \in Nat /\ x \in Nat /\ y \in Nat /\ z \in Nat
  BY RangeType
<1>2. a + b < x /\ x + y < z
  BY DEF Gap
<1> HIDE DEF a, b, x, y, z
<1>3. a + b < z
  BY <1>1, <1>2
<1> QED BY <1>3 DEF Gap, a, b, z

\* Which chunks are in a list.
LEMMA ChunksAre ==
  ASSUME NEW d \in ListData, NEW c
  PROVE  c \in Chunks(d) <=> \E i \in 1 .. Len(d.ranges) : c \in d.ranges[i][1] .. d.ranges[i][1] + d.ranges[i][2] - 1
<1>1. d.ranges \in Seq(Nat \X Nat)
  BY DEF ListData, RangeList
<1>2. Range(d.ranges) = {d.ranges[i] : i \in 1 .. Len(d.ranges)}
  BY <1>1, RangeEquality
<1> QED BY <1>2 DEF Chunks

\* t is s with r inserted as the p-th element, and with r for the p-th and the next one.
Inserted(n, p, r, s, t) == \A i \in 1 .. n + 1 : t[i] = IF i < p THEN s[i] ELSE IF i = p THEN r ELSE s[i - 1]
Joined(n, p, r, s, t)   == \A i \in 1 .. n - 1 : t[i] = IF i < p THEN s[i] ELSE IF i = p THEN r ELSE s[i + 1]

\* The list with a range at the place p.
LEMMA InsertRange ==
  ASSUME NEW s \in RangeList, NEW p \in 1 .. Len(s) + 1, NEW r \in Nat \X Nat
  PROVE  /\ InsertAt(s, p, r) \in RangeList
         /\ Len(InsertAt(s, p, r)) = Len(s) + 1
         /\ Inserted(Len(s), p, r, s, InsertAt(s, p, r))
<1> DEFINE S == Nat \X Nat
           a == SubSeq(s, 1, p - 1)
           b == <<r>>
           c == SubSeq(s, p, Len(s))
<1>1. Len(s) \in Nat /\ \A i \in 1 .. Len(s) : s[i] \in S
  BY RangeType
<1>2. a \in Seq(S) /\ Len(a) = p - 1 /\ \A i \in 1 .. p - 1 : a[i] = s[i]
  <2>1. 1 \in Int /\ p - 1 \in Int /\ \A i \in 1 .. p - 1 : s[i] \in S
    BY <1>1
  <2> HIDE DEF S
  <2>2. /\ a \in Seq(S)
        /\ Len(a) = IF 1 <= p - 1 THEN p - 1 - 1 + 1 ELSE 0
        /\ \A i \in 1 .. p - 1 - 1 + 1 : a[i] = s[1 + i - 1]
    BY <2>1, SubSeqProperties
  <2> HIDE DEF a
  <2>3. p \in Nat /\ p >= 1
    BY <1>1
  <2>4. Len(a) = p - 1
    BY <2>2, <2>3
  <2>5. ASSUME NEW i \in 1 .. p - 1 PROVE a[i] = s[i]
    <3>1. i \in 1 .. p - 1 - 1 + 1 /\ 1 + i - 1 = i
      BY <2>3
    <3> QED BY <2>2, <3>1
  <2> QED BY <2>2, <2>4, <2>5
<1>3. b \in Seq(S) /\ Len(b) = 1 /\ b[1] = r
  OBVIOUS
<1>4. c \in Seq(S) /\ Len(c) = Len(s) - p + 1 /\ \A i \in 1 .. Len(s) - p + 1 : c[i] = s[p + i - 1]
  <2>1. p \in Int /\ Len(s) \in Int /\ \A i \in p .. Len(s) : s[i] \in S
    BY <1>1
  <2> HIDE DEF S
  <2>2. /\ c \in Seq(S)
        /\ Len(c) = IF p <= Len(s) THEN Len(s) - p + 1 ELSE 0
        /\ \A i \in 1 .. Len(s) - p + 1 : c[i] = s[p + i - 1]
    BY <2>1, SubSeqProperties
  <2> HIDE DEF c
  <2> QED BY <2>2, <1>1
<1> HIDE DEF S, a, b, c
<1> DEFINE ab == a \o b
<1>5. ab \in Seq(S) /\ Len(ab) = p /\ \A i \in 1 .. p : ab[i] = IF i < p THEN s[i] ELSE r
  <2>1. /\ ab \in Seq(S)
        /\ Len(ab) = Len(a) + Len(b)
        /\ \A i \in 1 .. Len(a) + Len(b) : ab[i] = IF i <= Len(a) THEN a[i] ELSE b[i - Len(a)]
    BY <1>2, <1>3, ConcatProperties
  <2>2. p \in Nat /\ Len(ab) = p
    BY <2>1, <1>1, <1>2, <1>3
  <2>3. ASSUME NEW i \in 1 .. p PROVE ab[i] = IF i < p THEN s[i] ELSE r
    <3>1. CASE i < p
      BY <2>1, <2>2, <3>1, <1>2, <1>3
    <3>2. CASE i = p
      <4>1. i - Len(a) = 1
        BY <2>2, <3>2, <1>2
      <4> QED BY <2>1, <2>2, <3>2, <4>1, <1>2, <1>3
    <3> QED BY <2>2, <3>1, <3>2
  <2> HIDE DEF ab
  <2> QED BY <2>1, <2>2, <2>3
<1> HIDE DEF ab
<1>6. /\ ab \o c \in Seq(S)
      /\ Len(ab \o c) = Len(s) + 1
      /\ \A i \in 1 .. Len(s) + 1 : (ab \o c)[i] = IF i < p THEN s[i] ELSE IF i = p THEN r ELSE s[i - 1]
  <2>1. /\ ab \o c \in Seq(S)
        /\ Len(ab \o c) = Len(ab) + Len(c)
        /\ \A i \in 1 .. Len(ab) + Len(c) : (ab \o c)[i] = IF i <= Len(ab) THEN ab[i] ELSE c[i - Len(ab)]
    BY <1>4, <1>5, ConcatProperties
  <2>2. p \in Nat /\ Len(s) \in Nat /\ Len(ab) = p /\ Len(ab) + Len(c) = Len(s) + 1
    BY <1>1, <1>4, <1>5
  <2>3. ASSUME NEW i \in 1 .. Len(s) + 1
        PROVE  (ab \o c)[i] = IF i < p THEN s[i] ELSE IF i = p THEN r ELSE s[i - 1]
    <3>1. CASE i <= p
      <4>1. i \in 1 .. p
        BY <3>1, <2>2
      <4>2. (ab \o c)[i] = ab[i]
        BY <2>1, <2>2, <3>1
      <4> QED BY <4>1, <4>2, <1>5, <2>2, <3>1
    <3>2. CASE i > p
      <4>1. i - p \in 1 .. Len(s) - p + 1 /\ p + (i - p) - 1 = i - 1
        BY <3>2, <2>2
      <4>2. (ab \o c)[i] = c[i - p]
        BY <2>1, <2>2, <3>2
      <4>3. c[i - p] = s[i - 1]
        BY <4>1, <1>4
      <4> QED BY <4>2, <4>3, <3>2, <2>2
    <3> QED BY <3>1, <3>2, <2>2
  <2> HIDE DEF ab
  <2> QED BY <2>1, <2>2, <2>3
<1>7. InsertAt(s, p, r) = ab \o c
  BY DEF InsertAt, a, b, c, ab
<1> QED BY <1>6, <1>7 DEF RangeList, S, Inserted

\* The list with another range at the place p and without the next one.
LEMMA RemoveNext ==
  ASSUME NEW s \in RangeList, NEW p \in 1 .. Len(s) - 1, NEW r \in Nat \X Nat
  PROVE  LET t == RemoveAt([s EXCEPT ![p] = r], p + 1)
         IN  /\ t \in RangeList
             /\ Len(t) = Len(s) - 1
             /\ Joined(Len(s), p, r, s, t)
<1> DEFINE S == Nat \X Nat
           u == [s EXCEPT ![p] = r]
           a == SubSeq(u, 1, p + 1 - 1)
           b == SubSeq(u, p + 1 + 1, Len(u))
<1>1. Len(s) \in Nat /\ p \in 1 .. Len(s) /\ s \in Seq(S)
  BY RangeType DEF RangeList
<1>2. u \in Seq(S) /\ Len(u) = Len(s) /\ \A i \in 1 .. Len(s) : u[i] = IF i = p THEN r ELSE s[i]
  <2>1. r \in S
    OBVIOUS
  <2> HIDE DEF S
  <2> QED BY <1>1, <2>1, ExceptSeq
<1> HIDE DEF u
<1>3. \A i \in 1 .. Len(s) : u[i] \in S
  <2> HIDE DEF S
  <2> QED BY <1>2, ElementOfSeq
<1>4. a \in Seq(S) /\ Len(a) = p /\ \A i \in 1 .. p : a[i] = u[i]
  <2>1. 1 \in Int /\ p + 1 - 1 \in Int /\ \A i \in 1 .. p + 1 - 1 : u[i] \in S
    BY <1>1, <1>3
  <2> HIDE DEF S
  <2>2. /\ a \in Seq(S)
        /\ Len(a) = IF 1 <= p + 1 - 1 THEN p + 1 - 1 - 1 + 1 ELSE 0
        /\ \A i \in 1 .. p + 1 - 1 - 1 + 1 : a[i] = u[1 + i - 1]
    BY <2>1, SubSeqProperties
  <2> HIDE DEF a
  <2> QED BY <2>2, <1>1
<1>5. b \in Seq(S) /\ Len(b) = Len(s) - p - 1 /\ \A i \in 1 .. Len(s) - p - 1 : b[i] = u[p + 1 + i]
  <2>1. p + 1 + 1 \in Int /\ Len(u) \in Int /\ \A i \in p + 1 + 1 .. Len(u) : u[i] \in S
    BY <1>1, <1>2, <1>3
  <2> HIDE DEF S
  <2>2. /\ b \in Seq(S)
        /\ Len(b) = IF p + 1 + 1 <= Len(u) THEN Len(u) - (p + 1 + 1) + 1 ELSE 0
        /\ \A i \in 1 .. Len(u) - (p + 1 + 1) + 1 : b[i] = u[p + 1 + 1 + i - 1]
    BY <2>1, SubSeqProperties
  <2> HIDE DEF b
  <2> QED BY <2>2, <1>1, <1>2
<1> HIDE DEF S, a, b
<1>6. /\ a \o b \in Seq(S)
      /\ Len(a \o b) = Len(s) - 1
      /\ \A i \in 1 .. Len(s) - 1 : (a \o b)[i] = IF i < p THEN s[i] ELSE IF i = p THEN r ELSE s[i + 1]
  <2>1. /\ a \o b \in Seq(S)
        /\ Len(a \o b) = Len(a) + Len(b)
        /\ \A i \in 1 .. Len(a) + Len(b) : (a \o b)[i] = IF i <= Len(a) THEN a[i] ELSE b[i - Len(a)]
    BY <1>4, <1>5, ConcatProperties, ZenonT(30)
  <2>2. Len(a \o b) = Len(s) - 1
    BY <2>1, <1>1, <1>4, <1>5
  <2>3. ASSUME NEW i \in 1 .. Len(s) - 1 PROVE (a \o b)[i] = IF i < p THEN s[i] ELSE IF i = p THEN r ELSE s[i + 1]
    <3>1. CASE i <= p
      <4>1. (a \o b)[i] = a[i] /\ a[i] = u[i]
        BY <2>1, <3>1, <1>1, <1>4, <1>5
      <4> QED BY <4>1, <3>1, <1>1, <1>2
    <3>2. CASE ~(i <= p)
      <4>1. (a \o b)[i] = b[i - p]
        BY <2>1, <3>2, <1>1, <1>4, <1>5
      <4>2. i - p \in 1 .. Len(s) - p - 1 /\ p + 1 + (i - p) = i + 1 /\ i + 1 \in 1 .. Len(s) /\ i + 1 # p
        BY <3>2, <1>1
      <4>3. b[i - p] = u[i + 1]
        BY <4>2, <1>5
      <4>4. u[i + 1] = s[i + 1]
        BY <4>2, <1>2
      <4> QED BY <4>1, <4>3, <4>4, <3>2, <1>1
    <3> QED BY <3>1, <3>2
  <2> QED BY <2>1, <2>2, <2>3
<1>7. RemoveAt([s EXCEPT ![p] = r], p + 1) = a \o b
  BY DEF RemoveAt, a, b, u
<1> QED BY <1>6, <1>7 DEF RangeList, S, Joined

\* L[k] is the sum of the first k of the numbers v.
Sums(n, v, L) == /\ v \in [1 .. n -> Nat] /\ L \in [0 .. n -> Nat]
                 /\ L[0] = 0
                 /\ \A k \in 1 .. n : L[k] = L[k - 1] + v[k]

\* The sums of lists that differ in one element.
LEMMA InsertSum ==
  ASSUME NEW n \in Nat, NEW p \in 1 .. n + 1, NEW r \in Nat, NEW v, NEW L, NEW w, NEW M,
         Sums(n, v, L), Sums(n + 1, w, M),
         Inserted(n, p, r, v, w)
  PROVE  M[n + 1] = L[n] + r
<1> DEFINE T == {k \in 0 .. n + 1 : M[k] = IF k < p THEN L[k] ELSE L[k - 1] + r}
<1>1. 0 \in T
  BY DEF Sums
<1>2. ASSUME NEW k \in 1 .. n + 1, k - 1 \in T PROVE k \in T
  <2>1. M[k] = M[k - 1] + w[k]
    BY DEF Sums
  <2>2. CASE k < p
    <3>1. w[k] = v[k] /\ k \in 1 .. n /\ k - 1 < p
      BY <2>2 DEF Inserted
    <3>2. M[k - 1] = L[k - 1]
      BY <1>2, <3>1
    <3>3. L[k] = L[k - 1] + v[k]
      BY <3>1 DEF Sums
    <3> QED BY <2>1, <2>2, <3>1, <3>2, <3>3
  <2>3. CASE k = p
    <3>1. w[k] = r /\ k - 1 < p /\ ~(k < p)
      BY <2>3 DEF Inserted
    <3>2. M[k - 1] = L[k - 1]
      BY <1>2, <3>1
    <3> QED BY <2>1, <3>1, <3>2
  <2>4. CASE k > p
    <3>1. w[k] = v[k - 1] /\ k - 1 \in 1 .. n /\ k - 1 - 1 \in 0 .. n /\ ~(k - 1 < p) /\ ~(k < p)
      BY <2>4 DEF Inserted
    <3>2. M[k - 1] = L[k - 1 - 1] + r
      BY <1>2, <3>1
    <3>3. L[k - 1] = L[k - 1 - 1] + v[k - 1]
      BY <3>1 DEF Sums
    <3>4. L[k - 1 - 1] \in Nat /\ v[k - 1] \in Nat
      BY <3>1 DEF Sums
    <3>5. M[k] = L[k - 1] + r
      BY <2>1, <3>1, <3>2, <3>3, <3>4
    <3> QED BY <3>1, <3>5
  <2> QED BY <2>2, <2>3, <2>4
<1>3. 0 .. n + 1 \subseteq T
  <2>1. n + 1 \in Nat
    OBVIOUS
  <2> HIDE DEF T
  <2> QED BY <2>1, <1>1, <1>2, Induction
<1>4. n + 1 \in T /\ ~(n + 1 < p) /\ n + 1 - 1 = n
  BY <1>3
<1> QED BY <1>4

\* The sums of lists one of which has one element for two of the other.
LEMMA RemoveSum ==
  ASSUME NEW n \in Nat, NEW p \in 1 .. n - 1, NEW r \in Nat, NEW v, NEW L, NEW w, NEW M,
         Sums(n, v, L), Sums(n - 1, w, M),
         Joined(n, p, r, v, w)
  PROVE  M[n - 1] = L[n] + r - v[p] - v[p + 1]
<1> DEFINE change == r - v[p] - v[p + 1]
           T == {k \in 0 .. n - 1 : M[k] = IF k < p THEN L[k] ELSE L[k + 1] + change}
<1>1. v[p] \in Nat /\ v[p + 1] \in Nat /\ change \in Int
  <2>1. p \in 1 .. n /\ p + 1 \in 1 .. n
    OBVIOUS
  <2>2. v[p] \in Nat /\ v[p + 1] \in Nat
    BY <2>1 DEF Sums
  <2> QED BY <2>2
<1>2. v[p] + v[p + 1] + change = r
  BY <1>1
<1>3. L[n] \in Nat
  BY DEF Sums
<1> HIDE DEF change
<1>4. 0 \in T
  BY DEF Sums
<1>5. ASSUME NEW k \in 1 .. n - 1, k - 1 \in T PROVE k \in T
  <2>1. M[k] = M[k - 1] + w[k]
    BY DEF Sums
  <2>2. k - 1 \in 0 .. n /\ k \in 1 .. n /\ k + 1 \in 1 .. n /\ k - 1 + 1 = k /\ k + 1 - 1 = k
    OBVIOUS
  <2>3. L[k] = L[k - 1] + v[k] /\ L[k + 1] = L[k] + v[k + 1]
    <3>1. L[k] = L[k - 1] + v[k]
      BY <2>2 DEF Sums
    <3>2. L[k + 1] = L[k + 1 - 1] + v[k + 1]
      BY <2>2 DEF Sums
    <3> QED BY <2>2, <3>1, <3>2
  <2>4. L[k - 1] \in Nat /\ L[k] \in Nat /\ v[k] \in Nat /\ v[k + 1] \in Nat
    <3>1. v \in [1 .. n -> Nat] /\ L \in [0 .. n -> Nat]
      BY DEF Sums
    <3>2. k \in 0 .. n
      OBVIOUS
    <3> QED BY <2>2, <3>1, <3>2
  <2>5. CASE k < p
    <3>1. w[k] = v[k] /\ k - 1 < p
      BY <2>5 DEF Joined
    <3>2. M[k - 1] = L[k - 1]
      BY <1>5, <3>1
    <3> QED BY <2>1, <2>3, <2>5, <3>1, <3>2
  <2>6. CASE k = p
    <3>1. w[k] = r /\ k - 1 < p /\ ~(k < p)
      BY <2>6 DEF Joined
    <3>2. M[k - 1] = L[k - 1]
      BY <1>5, <3>1
    <3>3. v[k] + v[k + 1] + change = r
      BY <1>2, <2>6
    <3>4. M[k] = L[k - 1] + r
      BY <2>1, <3>1, <3>2
    <3>5. L[k - 1] + (v[k] + v[k + 1] + change) = L[k - 1] + v[k] + v[k + 1] + change
      BY <1>1, <2>4
    <3>6. M[k] = L[k + 1] + change
      BY <2>3, <3>3, <3>4, <3>5
    <3> QED BY <3>1, <3>6
  <2>7. CASE k > p
    <3>1. w[k] = v[k + 1] /\ ~(k - 1 < p) /\ ~(k < p)
      BY <2>7 DEF Joined
    <3>2. M[k - 1] = L[k] + change
      BY <1>5, <2>2, <3>1
    <3>3. M[k] = L[k + 1] + change
      BY <1>1, <2>1, <2>3, <2>4, <3>1, <3>2
    <3> QED BY <3>1, <3>3
  <2> QED BY <2>5, <2>6, <2>7
<1>6. 0 .. n - 1 \subseteq T
  <2>1. n - 1 \in Nat
    OBVIOUS
  <2> HIDE DEF T
  <2> QED BY <2>1, <1>4, <1>5, Induction
<1>7. n - 1 \in T /\ ~(n - 1 < p) /\ n - 1 + 1 = n
  BY <1>6
<1>8. M[n - 1] = L[n] + change
  BY <1>7
<1> QED BY <1>1, <1>3, <1>8 DEF change

\* The sum of the lengths, range by range.
LEMMA LengthSteps ==
  ASSUME NEW d \in ListData
  PROVE  Sums(Len(d.ranges), [i \in 1 .. Len(d.ranges) |-> d.ranges[i][2]], [k \in 0 .. Len(d.ranges) |-> Length(d, k)])
<1> DEFINE n == Len(d.ranges)
           v == [i \in 1 .. n |-> d.ranges[i][2]]
           G == [x \in Nat \X (1 .. n) |-> x[1] + v[x[2]]]
           length == CHOOSE f : f = [k \in 0 .. n |-> IF k = 0 THEN 0 ELSE f[k - 1] + d.ranges[k][2]]
<1>1. n \in Nat /\ v \in [1 .. n -> Nat] /\ \A k \in 1 .. n : v[k] = d.ranges[k][2]
  BY RangeType DEF ListData
<1>2. 0 \in Nat /\ n \in Nat /\ G \in [Nat \X (1 .. n) -> Nat] /\ \A x \in Nat, k \in 1 .. n : G[<<x, k>>] = x + v[k]
  <2> HIDE DEF n, v
  <2> QED BY <1>1, SMTT(30)
<1> HIDE DEF G
<1>3. PICK f : Loop(f, Nat, 0, n, G)
  <2> HIDE DEF n, v, length
  <2> QED BY <1>2, Recursion
<1>4. f = [k \in 0 .. n |-> IF k = 0 THEN 0 ELSE f[k - 1] + d.ranges[k][2]]
  <2> DEFINE w == d.ranges
  <2>1. \A k \in 1 .. n : v[k] = w[k][2]
    BY <1>1
  <2> HIDE DEF n, v, w, length
  <2>2. f \in [0 .. n -> Nat] /\ f[0] = 0 /\ \A k \in 1 .. n : f[k] = f[k - 1] + w[k][2]
    <3>1. f \in [0 .. n -> Nat] /\ f[0] = 0 /\ \A k \in 1 .. n : f[k] = G[<<f[k - 1], k>>]
      BY <1>3 DEF Loop
    <3>2. ASSUME NEW k \in 1 .. n PROVE f[k] = f[k - 1] + w[k][2]
      <4>1. f[k - 1] \in Nat /\ f[k] = G[<<f[k - 1], k>>]
        BY <1>1, <3>1
      <4> QED BY <1>2, <2>1, <4>1
    <3> QED BY <3>1, <3>2
  <2>3. \A k \in 0 .. n : f[k] = IF k = 0 THEN 0 ELSE f[k - 1] + w[k][2]
    BY <1>1, <2>2
  <2>4. f = [k \in 0 .. n |-> f[k]]
    BY <2>2
  <2>5. f = [k \in 0 .. n |-> IF k = 0 THEN 0 ELSE f[k - 1] + w[k][2]]
    BY <2>3, <2>4
  <2> QED BY <2>5 DEF w
<1>5. length = [k \in 0 .. n |-> IF k = 0 THEN 0 ELSE length[k - 1] + d.ranges[k][2]]
  BY <1>4
<1>6. \A k : Length(d, k) = length[k]
  BY DEF Length
<1> HIDE DEF length, n
<1>7. length[0] = 0 /\ \A k \in 1 .. n : length[k] = length[k - 1] + v[k]
  <2>1. 0 \in 0 .. n /\ \A k \in 1 .. n : k \in 0 .. n /\ k # 0
    BY <1>1
  <2> QED BY <1>1, <1>5, <2>1
<1> HIDE DEF v
<1>8. \A k \in 0 .. n : length[k] \in Nat
  <2> DEFINE T == {k \in 0 .. n : length[k] \in Nat}
  <2>1. 0 \in T
    BY <1>1, <1>7
  <2>2. ASSUME NEW k \in 1 .. n, k - 1 \in T PROVE k \in T
    <3>1. length[k] = length[k - 1] + v[k] /\ length[k - 1] \in Nat
      BY <1>7, <2>2
    <3>2. v[k] \in Nat /\ k \in 0 .. n
      BY <1>1
    <3> QED BY <3>1, <3>2
  <2>3. 0 .. n \subseteq T
    <3> HIDE DEF T
    <3> QED BY <1>1, <2>1, <2>2, Induction
  <2> QED BY <2>3
<1> DEFINE L == [k \in 0 .. n |-> Length(d, k)]
<1>9. L = [k \in 0 .. n |-> length[k]]
  BY <1>6
<1> HIDE DEF L
<1>10. L \in [0 .. n -> Nat] /\ L[0] = 0
  <2>1. L \in [0 .. n -> Nat]
    BY <1>8, <1>9
  <2> QED BY <1>1, <1>7, <1>9, <2>1
<1>11. \A k \in 1 .. n : L[k] = L[k - 1] + v[k]
  <2>1. \A k \in 1 .. n : k \in 0 .. n /\ k - 1 \in 0 .. n
    BY <1>1
  <2> QED BY <1>7, <1>9, <2>1
<1>12. Sums(n, v, L)
  BY <1>1, <1>10, <1>11 DEF Sums
<1> QED BY <1>12 DEF n, v, L

\* How many chunks are in the ranges, those in two of them twice.
Total(d) == Length(d, Len(d.ranges))

LEMMA LengthFacts ==
  ASSUME NEW d \in ListData
  PROVE  /\ Total(d) \in Nat
         /\ \A k \in 1 .. Len(d.ranges) : Length(d, k) = Length(d, k - 1) + d.ranges[k][2]
         /\ \A k \in 0 .. Len(d.ranges) : Length(d, k) \in Nat
         /\ Length(d, 0) = 0
<1> DEFINE n == Len(d.ranges)
           v == [i \in 1 .. n |-> d.ranges[i][2]]
           L == [k \in 0 .. n |-> Length(d, k)]
<1>1. n \in Nat
  BY RangeType DEF ListData
<1>2. Sums(n, v, L)
  BY LengthSteps
<1>3. 0 \in 0 .. n /\ n \in 0 .. n /\ \A k \in 1 .. n : k \in 0 .. n /\ k - 1 \in 0 .. n
  BY <1>1
<1>4. L \in [0 .. n -> Nat] /\ L[0] = 0 /\ \A k \in 1 .. n : L[k] = L[k - 1] + v[k]
  BY <1>2 DEF Sums
<1>5. /\ \A k \in 1 .. n : v[k] = d.ranges[k][2]
      /\ \A k \in 0 .. n : L[k] = Length(d, k)
  OBVIOUS
<1> HIDE DEF v, L, n
<1>6. \A k \in 0 .. n : Length(d, k) \in Nat
  BY <1>4, <1>5
<1>7. Length(d, 0) = 0 /\ \A k \in 1 .. n : Length(d, k) = Length(d, k - 1) + d.ranges[k][2]
  BY <1>3, <1>4, <1>5
<1> QED BY <1>3, <1>6, <1>7 DEF n, Total

LEMMA InsertTotal ==
  ASSUME NEW d \in ListData, NEW e \in ListData, NEW p \in 1 .. Len(d.ranges) + 1, NEW r \in Nat \X Nat,
         e.ranges = InsertAt(d.ranges, p, r)
  PROVE  Total(e) = Total(d) + r[2]
<1> DEFINE s == d.ranges
           t == e.ranges
           n == Len(s)
           v == [i \in 1 .. n |-> s[i][2]]
           w == [i \in 1 .. n + 1 |-> t[i][2]]
           L == [k \in 0 .. n |-> Length(d, k)]
           M == [k \in 0 .. n + 1 |-> Length(e, k)]
<1>1. s \in RangeList /\ n \in Nat /\ r[2] \in Nat
  BY RangeType DEF ListData
<1>2. Len(t) = n + 1 /\ Inserted(n, p, r, s, t)
  BY <1>1, InsertRange
<1>3. Sums(n, v, L)
  BY LengthSteps
<1>4. Sums(n + 1, w, M)
  <2>1. Sums(Len(t), [i \in 1 .. Len(t) |-> t[i][2]], [k \in 0 .. Len(t) |-> Length(e, k)])
    BY LengthSteps
  <2> HIDE DEF t, n
  <2> QED BY <1>2, <2>1
<1>5. Inserted(n, p, r[2], v, w)
  <2> HIDE DEF t, s, n
  <2> SUFFICES ASSUME NEW i \in 1 .. n + 1 PROVE w[i] = IF i < p THEN v[i] ELSE IF i = p THEN r[2] ELSE v[i - 1]
    BY DEF Inserted
  <2>1. w[i] = t[i][2] /\ t[i] = IF i < p THEN s[i] ELSE IF i = p THEN r ELSE s[i - 1]
    BY <1>2 DEF Inserted
  <2>2. CASE i < p
    <3>1. i \in 1 .. n
      BY <2>2, <1>1 DEF n, s
    <3> QED BY <2>1, <2>2, <3>1
  <2>3. CASE i = p
    BY <2>1, <2>3
  <2>4. CASE i > p
    <3>1. i - 1 \in 1 .. n /\ ~(i < p) /\ i # p
      BY <2>4, <1>1 DEF n, s
    <3> QED BY <2>1, <3>1
  <2> QED BY <2>2, <2>3, <2>4, <1>1 DEF n, s
<1>6. Total(d) = L[n] /\ Total(e) = M[n + 1]
  <2>1. n \in 0 .. n /\ n + 1 \in 0 .. n + 1
    BY <1>1
  <2> QED BY <1>2, <2>1 DEF Total
<1>7. p \in 1 .. n + 1
  OBVIOUS
<1> HIDE DEF s, t, n, v, w, L, M
<1> QED BY <1>1, <1>3, <1>4, <1>5, <1>6, <1>7, InsertSum

LEMMA RemoveTotal ==
  ASSUME NEW d \in ListData, NEW e \in ListData, NEW p \in 1 .. Len(d.ranges) - 1, NEW r \in Nat \X Nat,
         e.ranges = RemoveAt([d.ranges EXCEPT ![p] = r], p + 1)
  PROVE  Total(e) = Total(d) + r[2] - d.ranges[p][2] - d.ranges[p + 1][2]
<1> DEFINE s == d.ranges
           t == e.ranges
           n == Len(s)
           v == [i \in 1 .. n |-> s[i][2]]
           w == [i \in 1 .. n - 1 |-> t[i][2]]
           L == [k \in 0 .. n |-> Length(d, k)]
           M == [k \in 0 .. n - 1 |-> Length(e, k)]
<1>1. s \in RangeList /\ n \in Nat /\ r[2] \in Nat
  BY RangeType DEF ListData
<1>2. Len(t) = n - 1 /\ Joined(n, p, r, s, t)
  BY <1>1, RemoveNext
<1>3. Sums(n, v, L)
  BY LengthSteps
<1>4. Sums(n - 1, w, M)
  <2>1. Sums(Len(t), [i \in 1 .. Len(t) |-> t[i][2]], [k \in 0 .. Len(t) |-> Length(e, k)])
    BY LengthSteps
  <2> HIDE DEF t, n
  <2> QED BY <1>2, <2>1
<1>5. Joined(n, p, r[2], v, w)
  <2> HIDE DEF t, s, n
  <2> SUFFICES ASSUME NEW i \in 1 .. n - 1 PROVE w[i] = IF i < p THEN v[i] ELSE IF i = p THEN r[2] ELSE v[i + 1]
    BY DEF Joined
  <2>1. w[i] = t[i][2] /\ t[i] = IF i < p THEN s[i] ELSE IF i = p THEN r ELSE s[i + 1]
    BY <1>2 DEF Joined
  <2>2. i \in 1 .. n /\ i + 1 \in 1 .. n
    BY <1>1
  <2>3. v[i] = s[i][2] /\ v[i + 1] = s[i + 1][2]
    BY <2>2
  <2> HIDE DEF v
  <2> QED BY <2>1, <2>3
<1>6. Total(d) = L[n] /\ Total(e) = M[n - 1]
  <2>1. n \in 0 .. n /\ n - 1 \in 0 .. n - 1
    BY <1>1
  <2> QED BY <1>2, <2>1 DEF Total
<1>7. p \in 1 .. n - 1 /\ v[p] = d.ranges[p][2] /\ v[p + 1] = d.ranges[p + 1][2]
  <2>1. p \in 1 .. n /\ p + 1 \in 1 .. n
    BY <1>1
  <2> QED BY <2>1
<1> HIDE DEF s, t, n, v, w, L, M
<1> QED BY <1>1, <1>3, <1>4, <1>5, <1>6, <1>7, RemoveSum

-----------------------------------------------------------------------------
(* One merge, the merges of a new range, and a new range.                  *)

\* The same chunks, and both counts are off by as much as before.
Same(d, e) == /\ Chunks(e) = Chunks(d)
              /\ e.present - Total(e) = d.present - Total(d)
              /\ e.rangeCnt - Len(e.ranges) = d.rangeCnt - Len(d.ranges)

\* The ranges p and p + 1 touch or overlap.
Touch(s, p) == p \in 1 .. Len(s) - 1 /\ ~Gap(s, p, p + 1)

\* Nothing to merge.
LEMMA NoMerge ==
  ASSUME NEW d \in ListData, NEW p \in Int, ~Touch(d.ranges, p)
  PROVE  MergeRanges(d, p) = d
<1>1. Len(d.ranges) \in Nat
  BY RangeType DEF ListData
<1>2. CASE p \in 1 .. Len(d.ranges) - 1
  <2>1. d.ranges[p][1] + d.ranges[p][2] < d.ranges[p + 1][1]
    BY <1>2 DEF Touch, Gap
  <2> QED BY <2>1 DEF MergeRanges
<1>3. CASE p \notin 1 .. Len(d.ranges) - 1
  <2>1. p < 1 \/ p >= Len(d.ranges)
    BY <1>1, <1>3
  <2> QED BY <2>1 DEF MergeRanges
<1> QED BY <1>2, <1>3

\* The successor is swallowed.
LEMMA MergeOne ==
  ASSUME NEW d \in ListData, Proper(d.ranges), NEW p, Touch(d.ranges, p), d.ranges[p][1] <= d.ranges[p + 1][1]
  PROVE  LET e == MergeRanges(d, p)
             end(i) == d.ranges[i][1] + d.ranges[i][2]
         IN  /\ e \in ListData /\ Proper(e.ranges) /\ Same(d, e) /\ Len(e.ranges) = Len(d.ranges) - 1
             /\ \A i \in 1 .. Len(d.ranges) - 1 : i # p => e.ranges[i] = d.ranges[IF i < p THEN i ELSE i + 1]
             /\ e.ranges[p][1] = d.ranges[p][1]
             /\ e.ranges[p][1] + e.ranges[p][2] = IF end(p) < end(p + 1) THEN end(p + 1) ELSE end(p)
<1> DEFINE s == d.ranges
           n == Len(s)
           a == s[p][1]
           b == s[p][2]
           a2 == s[p + 1][1]
           b2 == s[p + 1][2]
           overlap == IF a + b - a2 < b2 THEN a + b - a2 ELSE b2
           r == <<a, b + b2 - overlap>>
           t == RemoveAt([s EXCEPT ![p] = r], p + 1)
           e == MergeRanges(d, p)
<1>1. s \in RangeList /\ n \in Nat /\ p \in 1 .. n - 1 /\ p \in 1 .. n /\ p + 1 \in 1 .. n /\ p \in Int
  BY RangeType DEF ListData, Touch
<1>2. a \in Nat /\ b \in Nat /\ a2 \in Nat /\ b2 \in Nat
  BY <1>1, RangeType
<1>3. a <= a2 /\ a2 <= a + b /\ 0 < b /\ 0 < b2 /\ a + b <= ChunkCnt /\ a2 + b2 <= ChunkCnt
  <2>1. a <= a2 /\ ~(a + b < a2)
    BY <1>1 DEF Touch, Gap
  <2>2. 0 < b /\ 0 < b2 /\ a + b <= ChunkCnt /\ a2 + b2 <= ChunkCnt
    BY <1>1 DEF Proper
  <2> HIDE DEF a, b, a2, b2
  <2> QED BY <1>2, <2>1, <2>2
<1>4. e = [ranges |-> t, present |-> d.present - overlap, rangeCnt |-> d.rangeCnt - 1]
  <2>1. ~(p < 1 \/ p >= n \/ a + b < a2)
    <3> HIDE DEF a, b, a2, b2, n
    <3> QED BY <1>1, <1>2, <1>3
  <2> QED BY <2>1 DEF MergeRanges
<1>5. /\ overlap \in Nat /\ r \in Nat \X Nat /\ r[1] = a /\ r[2] = b + b2 - overlap /\ r[2] > 0
      /\ a + r[2] = IF a + b < a2 + b2 THEN a2 + b2 ELSE a + b
  <2> HIDE DEF a, b, a2, b2
  <2> QED BY <1>2, <1>3
<1>6. t \in RangeList /\ Len(t) = n - 1 /\ Joined(n, p, r, s, t)
  <2> HIDE DEF r, s
  <2> QED BY <1>1, <1>5, RemoveNext DEF n
<1>7. e \in ListData /\ e.ranges = t /\ e.present = d.present - overlap /\ e.rangeCnt = d.rangeCnt - 1
  <2> HIDE DEF t, overlap
  <2> QED BY <1>4, <1>5, <1>6, SMTT(30) DEF ListData
<1>8. Total(e) = Total(d) - overlap
  <2>1. e.ranges = RemoveAt([d.ranges EXCEPT ![p] = r], p + 1)
    BY <1>7
  <2>2. Total(e) = Total(d) + r[2] - b - b2
    <3> HIDE DEF r, e
    <3> QED BY <1>1, <1>5, <1>7, <2>1, RemoveTotal
  <2>3. Total(d) \in Nat
    BY LengthFacts
  <2> HIDE DEF a, b, a2, b2, overlap, r, e
  <2> QED BY <1>2, <1>5, <2>2, <2>3
<1> HIDE DEF e, t, r, overlap
<1>9. \A i \in 1 .. n - 1 : t[i] = IF i = p THEN r ELSE s[IF i < p THEN i ELSE i + 1]
  BY <1>1, <1>6 DEF Joined
<1>10. t[p] = r
  BY <1>1, <1>9
<1>11. Proper(t)
  <2> SUFFICES ASSUME NEW i \in 1 .. n - 1 PROVE t[i][2] > 0 /\ t[i][1] + t[i][2] <= ChunkCnt
    BY <1>6 DEF Proper
  <2>1. CASE i = p
    <3>1. r[2] > 0 /\ r[1] + r[2] <= ChunkCnt
      <4> HIDE DEF a, b, a2, b2
      <4> QED BY <1>2, <1>3, <1>5
    <3> QED BY <1>10, <2>1, <3>1
  <2>2. CASE i # p
    <3> DEFINE j == IF i < p THEN i ELSE i + 1
    <3>1. j \in 1 .. n /\ t[i] = s[j]
      BY <1>1, <1>9, <2>2
    <3> HIDE DEF j
    <3> QED BY <3>1 DEF Proper
  <2> QED BY <2>1, <2>2
<1>12. Chunks(e) = Chunks(d)
  <2>1. ASSUME NEW c \in Chunks(e) PROVE c \in Chunks(d)
    <3>1. PICK i \in 1 .. n - 1 : c \in t[i][1] .. t[i][1] + t[i][2] - 1
      BY <1>6, <1>7, <2>1, ChunksAre
    <3>2. CASE i = p
      <4>1. c \in a .. a + r[2] - 1
        BY <1>5, <1>10, <3>1, <3>2
      <4>2. c \in a .. a + b - 1 \/ c \in a2 .. a2 + b2 - 1
        <5> HIDE DEF a, b, a2, b2
        <5> QED BY <1>2, <1>3, <1>5, <4>1
      <4> QED BY <1>1, <4>2, ChunksAre
    <3>3. CASE i # p
      <4> DEFINE j == IF i < p THEN i ELSE i + 1
      <4>1. j \in 1 .. n /\ t[i] = s[j]
        BY <1>1, <1>9, <3>3
      <4> HIDE DEF j
      <4> QED BY <3>1, <4>1, ChunksAre
    <3> QED BY <3>2, <3>3
  <2>2. ASSUME NEW c \in Chunks(d) PROVE c \in Chunks(e)
    <3>1. PICK j \in 1 .. n : c \in s[j][1] .. s[j][1] + s[j][2] - 1
      BY <2>2, ChunksAre
    <3>2. CASE j \in {p, p + 1}
      <4>1. c \in a .. a + b - 1 \/ c \in a2 .. a2 + b2 - 1
        BY <3>1, <3>2
      <4>2. c \in a .. a + r[2] - 1
        <5> HIDE DEF a, b, a2, b2
        <5> QED BY <1>2, <1>3, <1>5, <4>1
      <4>3. p \in 1 .. Len(t) /\ c \in t[p][1] .. t[p][1] + t[p][2] - 1
        BY <1>1, <1>5, <1>6, <1>10, <4>2
      <4> QED BY <1>7, <4>3, ChunksAre
    <3>3. CASE j \notin {p, p + 1}
      <4> DEFINE i == IF j < p THEN j ELSE j - 1
      <4>1. i \in 1 .. n - 1 /\ i # p /\ (IF i < p THEN i ELSE i + 1) = j
        BY <1>1, <3>3
      <4> HIDE DEF i
      <4>2. t[i] = s[j] /\ i \in 1 .. Len(t)
        BY <1>6, <1>9, <4>1
      <4> QED BY <1>7, <3>1, <4>2, ChunksAre
    <3> QED BY <3>2, <3>3
  <2> QED BY <2>1, <2>2
<1>13. Same(d, e)
  <2>1. d.present \in Int /\ d.rangeCnt \in Int /\ Total(d) \in Nat
    BY LengthFacts DEF ListData
  <2> HIDE DEF s
  <2>2. e.present - Total(e) = d.present - Total(d)
    BY <1>5, <1>7, <1>8, <2>1
  <2>3. e.rangeCnt - Len(e.ranges) = d.rangeCnt - Len(d.ranges)
    BY <1>1, <1>6, <1>7, <2>1, SMTT(30) DEF s
  <2> QED BY <1>12, <2>2, <2>3 DEF Same
<1>14. /\ \A i \in 1 .. n - 1 : i # p => t[i] = s[IF i < p THEN i ELSE i + 1]
       /\ t[p][1] = a
       /\ t[p][1] + t[p][2] = IF a + b < a2 + b2 THEN a2 + b2 ELSE a + b
  <2> HIDE DEF a, b, a2, b2, s, n
  <2> QED BY <1>5, <1>9, <1>10
<1> QED BY <1>6, <1>7, <1>11, <1>13, <1>14 DEF e

\* All the merges: nothing touches any more.
LEMMA MergeMany ==
  ASSUME NEW d \in ListData, Proper(d.ranges), NEW p \in 1 .. Len(d.ranges), ApartBut(d.ranges, p)
  PROVE  LET e == MergeAll(d, p)
         IN  e \in ListData /\ Proper(e.ranges) /\ Apart(e.ranges) /\ Same(d, e)
<1> DEFINE Good(e) == Proper(e.ranges) /\ p \in 1 .. Len(e.ranges) /\ ApartBut(e.ranges, p) /\ Same(d, e)
           D == {e \in ListData : Good(e)}
           n == Len(d.ranges)
           G == [x \in D \X (1 .. n) |-> MergeRanges(x[1], p)]
           merged == CHOOSE f : f = [k \in 0 .. n |-> IF k = 0 THEN d ELSE MergeRanges(f[k - 1], p)]
<1>1. n \in Nat /\ p \in Int
  BY RangeType DEF ListData
<1>2. d \in D
  BY DEF Same
<1>3. ASSUME NEW e \in D PROVE MergeRanges(e, p) \in D /\ IF Touch(e.ranges, p) THEN Len(MergeRanges(e, p).ranges) = Len(e.ranges) - 1 ELSE Apart(e.ranges) /\ MergeRanges(e, p) = e
  <2> DEFINE s == e.ranges
             g == MergeRanges(e, p)
             t == g.ranges
  <2>1. e \in ListData /\ Proper(s) /\ p \in 1 .. Len(s) /\ ApartBut(s, p) /\ Same(d, e) /\ Len(s) \in Nat
    BY RangeType DEF ListData
  <2>2. \A i \in 1 .. Len(s) : s[i][1] \in Nat /\ s[i][2] \in Nat /\ s[i][2] > 0
    BY <2>1, RangeType DEF ListData, Proper
  <2>3. CASE ~Touch(s, p)
    <3>1. g = e
      BY <1>1, <2>1, <2>3, NoMerge
    <3>2. ASSUME NEW i \in 1 .. Len(s), NEW j \in 1 .. Len(s), i < j PROVE Gap(s, i, j)
      <4>1. CASE i # p
        BY <2>1, <3>2, <4>1 DEF ApartBut
      <4>2. CASE i = p /\ j = p + 1
        BY <2>1, <2>3, <4>2 DEF Touch
      <4>3. CASE i = p /\ j # p + 1
        <5>1. p + 1 \in 1 .. Len(s) /\ p \in 1 .. Len(s) - 1 /\ p + 1 < j /\ p + 1 # p
          BY <2>1, <3>2, <4>3
        <5>2. Gap(s, p, p + 1)
          BY <2>3, <5>1 DEF Touch
        <5>3. Gap(s, p + 1, j)
          BY <2>1, <5>1 DEF ApartBut
        <5>4. Gap(s, p, j)
          BY <2>1, <2>2, <5>1, <5>2, <5>3, GapTransitive DEF ListData
        <5> QED BY <4>3, <5>4
      <4> QED BY <4>1, <4>2, <4>3
    <3>3. Apart(s)
      BY <3>2 DEF Apart
    <3> QED BY <2>3, <3>1, <3>3
  <2>4. CASE Touch(s, p)
    <3>1. p \in 1 .. Len(s) - 1 /\ p + 1 \in 1 .. Len(s) /\ p < p + 1
      BY <2>1, <2>4 DEF Touch
    <3>2. s[p][1] <= s[p + 1][1]
      BY <2>1, <3>1 DEF ApartBut
    <3>3. /\ g \in ListData /\ Proper(t) /\ Same(e, g) /\ Len(t) = Len(s) - 1
          /\ \A i \in 1 .. Len(s) - 1 : i # p => t[i] = s[IF i < p THEN i ELSE i + 1]
          /\ t[p][1] = s[p][1]
      BY <2>1, <2>4, <3>2, MergeOne
    <3>4. ApartBut(t, p)
      <4> SUFFICES ASSUME NEW i \in 1 .. Len(t), NEW j \in 1 .. Len(t), i < j
                   PROVE  IF i = p THEN t[i][1] <= t[j][1] ELSE Gap(t, i, j)
        BY DEF ApartBut
      <4>1. i \in 1 .. Len(s) - 1 /\ j \in 1 .. Len(s) - 1 /\ i \in Int /\ j \in Int
        BY <3>3
      <4>2. CASE i = p
        <5>1. j + 1 \in 1 .. Len(s) /\ p < j + 1 /\ ~(j < p) /\ j # p
          BY <2>1, <4>1, <4>2
        <5>2. t[j] = s[j + 1]
          BY <3>3, <4>1, <5>1
        <5>3. s[p][1] <= s[j + 1][1]
          BY <2>1, <5>1 DEF ApartBut
        <5> QED BY <3>3, <4>2, <5>2, <5>3
      <4>3. CASE i < p /\ j = p
        <5>1. t[i] = s[i] /\ i \in 1 .. Len(s) /\ i # p
          BY <2>1, <3>3, <4>1, <4>3
        <5>2. Gap(s, i, p)
          BY <2>1, <4>3, <5>1 DEF ApartBut
        <5> QED BY <3>3, <4>3, <5>1, <5>2 DEF Gap
      <4>4. CASE i # p /\ j # p
        <5> DEFINE x == IF i < p THEN i ELSE i + 1
                   y == IF j < p THEN j ELSE j + 1
        <5>1. x \in 1 .. Len(s) /\ y \in 1 .. Len(s) /\ x < y /\ x # p
          BY <2>1, <4>1, <4>4
        <5>2. t[i] = s[x] /\ t[j] = s[y]
          BY <3>3, <4>1, <4>4
        <5> HIDE DEF x, y
        <5>3. Gap(s, x, y)
          BY <2>1, <5>1 DEF ApartBut
        <5> QED BY <4>4, <5>2, <5>3 DEF Gap
      <4> QED BY <2>1, <4>1, <4>2, <4>3, <4>4
    <3>5. Same(d, g)
      BY <2>1, <3>3 DEF Same
    <3>6. p \in 1 .. Len(t)
      BY <3>1, <3>3
    <3> QED BY <2>4, <3>3, <3>4, <3>5, <3>6
  <2> QED BY <2>3, <2>4
<1>4. G \in [D \X (1 .. n) -> D] /\ \A e \in D, k \in 1 .. n : G[<<e, k>>] = MergeRanges(e, p)
  <2> HIDE DEF D
  <2> QED BY <1>3
<1>5. PICK f : Loop(f, D, d, n, G)
  <2> HIDE DEF D, G, n, merged
  <2> QED BY <1>1, <1>2, <1>4, Recursion
<1>6. f = [k \in 0 .. n |-> IF k = 0 THEN d ELSE MergeRanges(f[k - 1], p)]
  <2> HIDE DEF D, G, n, merged
  <2>1. f \in [0 .. n -> D] /\ f[0] = d /\ \A k \in 1 .. n : f[k] = G[<<f[k - 1], k>>]
    BY <1>5 DEF Loop
  <2>2. ASSUME NEW k \in 1 .. n PROVE f[k] = MergeRanges(f[k - 1], p)
    <3>1. f[k - 1] \in D
      BY <1>1, <2>1
    <3> QED BY <1>4, <2>1, <3>1
  <2>3. \A k \in 0 .. n : f[k] = IF k = 0 THEN d ELSE MergeRanges(f[k - 1], p)
    BY <1>1, <2>1, <2>2
  <2>4. f = [k \in 0 .. n |-> f[k]]
    BY <2>1
  <2> QED BY <2>3, <2>4
<1>7. merged = [k \in 0 .. n |-> IF k = 0 THEN d ELSE MergeRanges(merged[k - 1], p)]
  BY <1>6
<1>8. MergeAll(d, p) = merged[n]
  BY DEF MergeAll
<1> HIDE DEF D, n, merged
<1>9. merged[0] = d /\ \A k \in 1 .. n : merged[k] = MergeRanges(merged[k - 1], p)
  <2>1. 0 \in 0 .. n /\ \A k \in 1 .. n : k \in 0 .. n /\ k # 0
    BY <1>1
  <2> QED BY <1>7, <2>1
<1>10. n \in {k \in 0 .. n : merged[k] \in D /\ (Apart(merged[k].ranges) \/ Len(merged[k].ranges) <= n - k)}
  <2> DEFINE T == {k \in 0 .. n : merged[k] \in D /\ (Apart(merged[k].ranges) \/ Len(merged[k].ranges) <= n - k)}
  <2>1. 0 \in T
    BY <1>1, <1>2, <1>9 DEF n
  <2>2. ASSUME NEW k \in 1 .. n, k - 1 \in T PROVE k \in T
    <3> DEFINE e == merged[k - 1]
    <3>1. e \in D /\ (Apart(e.ranges) \/ Len(e.ranges) <= n - (k - 1)) /\ merged[k] = MergeRanges(e, p) /\ k \in 0 .. n
      BY <1>1, <1>9, <2>2
    <3>2. Len(e.ranges) \in Nat
      BY <3>1, RangeType DEF D, ListData
    <3> HIDE DEF e
    <3>3. merged[k] \in D
      BY <1>3, <3>1
    <3>4. Apart(e.ranges) => Apart(merged[k].ranges)
      <4> SUFFICES ASSUME Apart(e.ranges) PROVE ~Touch(e.ranges, p)
        BY <1>3, <3>1
      <4> SUFFICES ASSUME p \in 1 .. Len(e.ranges) - 1 PROVE Gap(e.ranges, p, p + 1)
        BY DEF Touch
      <4>1. p \in 1 .. Len(e.ranges) /\ p + 1 \in 1 .. Len(e.ranges) /\ p < p + 1
        BY <3>2
      <4> QED BY <4>1 DEF Apart
    <3>5. Len(e.ranges) <= n - (k - 1) => Apart(merged[k].ranges) \/ Len(merged[k].ranges) <= n - k
      BY <1>1, <1>3, <3>1, <3>2
    <3> QED BY <3>1, <3>3, <3>4, <3>5
  <2>3. 0 .. n \subseteq T
    <3> HIDE DEF T
    <3> QED BY <1>1, <2>1, <2>2, Induction
  <2> QED BY <1>1, <2>3
<1>11. merged[n] \in D /\ Apart(merged[n].ranges)
  <2> DEFINE e == merged[n]
  <2>1. e \in D /\ (Apart(e.ranges) \/ Len(e.ranges) <= 0)
    BY <1>1, <1>10
  <2>2. p \in 1 .. Len(e.ranges) /\ Len(e.ranges) \in Nat
    BY <2>1, RangeType DEF D, ListData
  <2> QED BY <1>1, <2>1, <2>2
<1> QED BY <1>8, <1>11 DEF D

\* The ranges before the place of a new one are those that start before it.
LEMMA BeforeIs ==
  ASSUME NEW d \in ListData, Proper(d.ranges), Apart(d.ranges), NEW start \in Nat
  PROVE  /\ Before(d, start) \in 0 .. Len(d.ranges)
         /\ \A i \in 1 .. Len(d.ranges) : d.ranges[i][1] < start <=> i <= Before(d, start)
<1> DEFINE s == d.ranges
           n == Len(s)
           Late == {i \in 1 .. n + 1 : i = n + 1 \/ ~(s[i][1] < start)}
<1>1. s \in RangeList /\ n \in Nat /\ DOMAIN s = 1 .. n /\ \A i \in 1 .. n : s[i][1] \in Nat /\ s[i][2] \in Nat
  <2>1. s \in RangeList
    BY DEF ListData
  <2> QED BY <2>1, RangeType, LenProperties DEF RangeList
<1>2. PICK q \in Late : \A i \in Late : q <= i
  <2>1. Late \subseteq Nat /\ n + 1 \in Late
    BY <1>1
  <2>2. Late # {}
    BY <2>1
  <2> HIDE DEF Late
  <2> QED BY <2>1, <2>2, LeastNat
<1>3. q \in 1 .. n + 1 /\ q \in Nat
  BY <1>1, <1>2
<1>4. ASSUME NEW i \in 1 .. n, i < q PROVE s[i][1] < start
  BY <1>1, <1>2, <1>3, <1>4
<1>5. ASSUME NEW i \in 1 .. n, ~(i < q) PROVE ~(s[i][1] < start)
  <2>1. q \in 1 .. n /\ ~(s[q][1] < start)
    BY <1>1, <1>2, <1>3, <1>5
  <2>2. CASE i = q
    BY <2>1, <2>2
  <2>3. CASE i # q
    <3>1. q < i
      BY <1>3, <1>5, <2>3
    <3>2. s[q][1] + s[q][2] < s[i][1]
      BY <2>1, <3>1 DEF Apart, Gap
    <3> DEFINE a == s[q][1]
               b == s[q][2]
               c == s[i][1]
    <3>3. a \in Nat /\ b \in Nat /\ c \in Nat /\ a + b < c /\ ~(a < start)
      BY <1>1, <2>1, <3>2
    <3> HIDE DEF a, b, c
    <3>4. ~(c < start)
      BY <3>3
    <3> QED BY <3>4 DEF c
  <2> QED BY <2>2, <2>3
<1>6. {i \in DOMAIN s : s[i][1] < start} = 1 .. q - 1
  <2>1. ASSUME NEW i \in 1 .. n, s[i][1] < start PROVE i \in 1 .. q - 1
    <3>1. i < q
      BY <1>5, <2>1
    <3> QED BY <1>3, <3>1
  <2>2. ASSUME NEW i \in 1 .. q - 1 PROVE i \in 1 .. n /\ s[i][1] < start
    <3>1. i \in 1 .. n /\ i < q
      BY <1>1, <1>3
    <3> QED BY <1>4, <3>1
  <2> HIDE DEF s, n
  <2> QED BY <1>1, <2>1, <2>2
<1>7. Before(d, start) = q - 1
  <2>1. Cardinality(1 .. q - 1) = q - 1
    <3>1. 1 \in Int /\ q - 1 \in Int
      BY <1>3
    <3>2. Cardinality(1 .. q - 1) = IF 1 > q - 1 THEN 0 ELSE q - 1 - 1 + 1
      BY <3>1, FS_Interval
    <3> QED BY <1>3, <3>2
  <2> QED BY <1>6, <2>1 DEF Before
<1>8. \A i \in 1 .. n : s[i][1] < start <=> i <= q - 1
  BY <1>3, <1>4, <1>5
<1> QED BY <1>1, <1>3, <1>7, <1>8

\* A list as it is between two operations.
WF(d) == /\ d \in ListData /\ Proper(d.ranges) /\ Apart(d.ranges)
         /\ d.present = Total(d)

\* The range count is kept up, too.
Counted(d) == d.rangeCnt = Len(d.ranges)

\* A list with a new range that has no counterpart yet.
LEMMA AddOne ==
  ASSUME NEW d, WF(d), NEW start \in Nat, NEW length \in Nat, length > 0, start + length <= ChunkCnt
  PROVE  LET q == Before(d, start) + 1
             a == Added(d, q, start, length)
         IN  /\ a \in ListData /\ Proper(a.ranges) /\ q \in 1 .. Len(a.ranges)
             /\ \A i, j \in 1 .. Len(a.ranges) : i < j =>
                    IF i = q THEN a.ranges[i][1] <= a.ranges[j][1]
                    ELSE IF i = q - 1 /\ j = q THEN a.ranges[i][1] <= a.ranges[j][1] ELSE Gap(a.ranges, i, j)
             /\ Chunks(a) = Chunks(d) \cup (start .. start + length - 1)
             /\ a.present = Total(a)
             /\ Counted(d) => Counted(a)
<1> DEFINE s == d.ranges
           n == Len(s)
           q == Before(d, start) + 1
           r == <<start, length>>
           a == Added(d, q, start, length)
           t == a.ranges
<1>1. d \in ListData /\ s \in RangeList /\ n \in Nat /\ Proper(s) /\ Apart(s) /\ d.present = Total(d)
  BY RangeType DEF WF, ListData
<1>2. q \in 1 .. n + 1 /\ q \in Nat /\ \A i \in 1 .. n : s[i][1] < start <=> i < q
  <2> DEFINE prev == Before(d, start)
  <2>1. prev \in 0 .. n /\ \A i \in 1 .. n : s[i][1] < start <=> i <= prev
    BY <1>1, BeforeIs
  <2> HIDE DEF prev
  <2>2. \A i \in 1 .. n : i <= prev <=> i < prev + 1
    BY <1>1, <2>1
  <2>3. prev + 1 \in 1 .. n + 1 /\ prev + 1 \in Nat
    BY <1>1, <2>1
  <2> QED BY <2>1, <2>2, <2>3 DEF prev
<1>3. r \in Nat \X Nat /\ r[1] = start /\ r[2] = length
  OBVIOUS
<1>4. \A i \in 1 .. n : s[i][1] \in Nat /\ s[i][2] \in Nat /\ s[i][2] > 0 /\ s[i][1] + s[i][2] <= ChunkCnt
  BY <1>1, RangeType DEF Proper
<1>5. t = InsertAt(s, q, r) /\ a.present = d.present + length /\ a.rangeCnt = d.rangeCnt + 1
  BY DEF Added
<1>6. t \in RangeList /\ Len(t) = n + 1 /\ Inserted(n, q, r, s, t)
  <2> HIDE DEF r, q, a
  <2> QED BY <1>1, <1>2, <1>3, <1>5, InsertRange
<1>7. a \in ListData
  <2>1. a = [ranges |-> t, present |-> d.present + length, rangeCnt |-> d.rangeCnt + 1]
    BY DEF Added
  <2>2. d.present + length \in Int /\ d.rangeCnt + 1 \in Int
    BY <1>1 DEF ListData
  <2> HIDE DEF t
  <2> QED BY <1>6, <2>1, <2>2 DEF ListData
<1>8. Total(a) = Total(d) + length
  <2> HIDE DEF r, q, a
  <2> QED BY <1>1, <1>2, <1>3, <1>5, <1>7, InsertTotal
<1> HIDE DEF r, q, a
<1>9. \A i \in 1 .. n + 1 : t[i] = IF i = q THEN r ELSE s[IF i < q THEN i ELSE i - 1]
  BY <1>2, <1>6 DEF Inserted
<1>10. t[q] = r
  BY <1>2, <1>9
<1>11. Proper(t)
  <2> SUFFICES ASSUME NEW i \in 1 .. n + 1 PROVE t[i][2] > 0 /\ t[i][1] + t[i][2] <= ChunkCnt
    BY <1>6 DEF Proper
  <2>1. CASE i = q
    BY <1>3, <1>10, <2>1
  <2>2. CASE i # q
    <3> DEFINE j == IF i < q THEN i ELSE i - 1
    <3>1. j \in 1 .. n /\ t[i] = s[j]
      BY <1>1, <1>2, <1>9, <2>2
    <3> HIDE DEF j
    <3> QED BY <3>1, <1>4
  <2> QED BY <2>1, <2>2
<1>12. ASSUME NEW i \in 1 .. n + 1, NEW j \in 1 .. n + 1, i < j
       PROVE  IF i = q THEN t[i][1] <= t[j][1]
              ELSE IF i = q - 1 /\ j = q THEN t[i][1] <= t[j][1] ELSE Gap(t, i, j)
  <2>1. CASE i = q
    <3>1. j - 1 \in 1 .. n /\ ~(j - 1 < q) /\ ~(j < q) /\ j # q
      BY <1>1, <1>2, <1>12, <2>1
    <3>2. ~(s[j - 1][1] < start) /\ s[j - 1][1] \in Nat
      BY <1>2, <1>4, <3>1
    <3>3. t[j] = s[j - 1]
      BY <1>9, <3>1
    <3>4. start <= s[j - 1][1]
      <4> DEFINE x == s[j - 1][1]
      <4>1. ~(x < start) /\ x \in Nat
        BY <3>2
      <4> HIDE DEF x
      <4>2. start <= x
        BY <4>1
      <4> QED BY <4>2 DEF x
    <3> QED BY <1>3, <1>10, <2>1, <3>3, <3>4
  <2>2. CASE i = q - 1 /\ j = q
    <3>1. i \in 1 .. n /\ i < q /\ i # q
      BY <1>1, <1>2, <2>2
    <3>2. s[i][1] < start /\ s[i][1] \in Nat /\ t[i] = s[i]
      BY <1>2, <1>4, <1>9, <3>1
    <3>3. s[i][1] <= start
      <4> DEFINE x == s[i][1]
      <4>1. x < start /\ x \in Nat
        BY <3>2
      <4> HIDE DEF x
      <4>2. x <= start
        BY <4>1
      <4> QED BY <4>2 DEF x
    <3> QED BY <1>3, <1>10, <2>2, <3>1, <3>2, <3>3
  <2>3. CASE j = q /\ i # q - 1
    <3>1. i \in 1 .. n /\ i + 1 \in 1 .. n /\ i < q /\ i + 1 < q /\ i < i + 1 /\ i # q
      BY <1>1, <1>2, <1>12, <2>3
    <3>2. s[i][1] + s[i][2] < s[i + 1][1]
      BY <1>1, <3>1 DEF Apart, Gap
    <3>3. s[i + 1][1] < start /\ t[i] = s[i]
      BY <1>2, <1>9, <3>1
    <3> DEFINE x == s[i][1]
               y == s[i][2]
               z == s[i + 1][1]
    <3>4. x \in Nat /\ y \in Nat /\ z \in Nat /\ x + y < z /\ z < start
      BY <1>4, <3>1, <3>2, <3>3
    <3> HIDE DEF x, y, z
    <3>5. x + y < start
      BY <3>4
    <3>6. t[i][1] + t[i][2] < t[j][1]
      BY <1>3, <1>10, <2>3, <3>3, <3>5 DEF x, y
    <3> QED BY <2>3, <3>1, <3>6 DEF Gap
  <2>4. CASE i # q /\ j # q
    <3> DEFINE x == IF i < q THEN i ELSE i - 1
               y == IF j < q THEN j ELSE j - 1
    <3>1. x \in 1 .. n /\ y \in 1 .. n /\ x < y
      BY <1>1, <1>2, <1>12, <2>4
    <3>2. t[i] = s[x] /\ t[j] = s[y]
      BY <1>9, <2>4
    <3> HIDE DEF x, y
    <3>3. Gap(s, x, y)
      BY <1>1, <3>1 DEF Apart
    <3> QED BY <2>4, <3>2, <3>3 DEF Gap
  <2> QED BY <1>12, <2>1, <2>2, <2>3, <2>4
<1>13. Chunks(a) = Chunks(d) \cup (start .. start + length - 1)
  <2>1. ASSUME NEW c \in Chunks(a) PROVE c \in Chunks(d) \cup (start .. start + length - 1)
    <3>1. PICK i \in 1 .. n + 1 : c \in t[i][1] .. t[i][1] + t[i][2] - 1
      BY <1>6, <1>7, <2>1, ChunksAre
    <3>2. CASE i = q
      BY <1>3, <1>10, <3>1, <3>2
    <3>3. CASE i # q
      <4> DEFINE j == IF i < q THEN i ELSE i - 1
      <4>1. j \in 1 .. n /\ t[i] = s[j]
        BY <1>1, <1>2, <1>9, <3>3
      <4> HIDE DEF j
      <4> QED BY <1>1, <3>1, <4>1, ChunksAre
    <3> QED BY <3>2, <3>3
  <2>2. ASSUME NEW c \in Chunks(d) PROVE c \in Chunks(a)
    <3>1. PICK j \in 1 .. n : c \in s[j][1] .. s[j][1] + s[j][2] - 1
      BY <1>1, <2>2, ChunksAre
    <3> DEFINE i == IF j < q THEN j ELSE j + 1
    <3>2. i \in 1 .. n + 1 /\ i # q /\ (IF i < q THEN i ELSE i - 1) = j
      BY <1>1, <1>2
    <3> HIDE DEF i
    <3>3. t[i] = s[j] /\ i \in 1 .. Len(t)
      BY <1>6, <1>9, <3>2
    <3> QED BY <1>7, <3>1, <3>3, ChunksAre
  <2>3. ASSUME NEW c \in start .. start + length - 1 PROVE c \in Chunks(a)
    <3>1. q \in 1 .. Len(t) /\ c \in t[q][1] .. t[q][1] + t[q][2] - 1
      BY <1>2, <1>3, <1>6, <1>10
    <3> QED BY <1>7, <3>1, ChunksAre
  <2> QED BY <2>1, <2>2, <2>3
<1>14. a.present = Total(a)
  BY <1>1, <1>5, <1>8
<1>15. Counted(d) => Counted(a)
  BY <1>1, <1>5, <1>6 DEF Counted
<1> QED BY <1>2, <1>6, <1>7, <1>11, <1>12, <1>13, <1>14, <1>15 DEF a, q

\* A list with a new range.
LEMMA AddRange ==
  ASSUME NEW d, WF(d), NEW start \in Nat, NEW length \in Nat, length > 0, start + length <= ChunkCnt
  PROVE  LET e == AddChunkRange(d, start, length)
         IN  WF(e) /\ Chunks(e) = Chunks(d) \cup (start .. start + length - 1) /\ (Counted(d) => Counted(e))
<1> DEFINE prev == Before(d, start)
           q == prev + 1
           a == Added(d, q, start, length)
           t == a.ranges
           m == MergeRanges(a, prev)
           e == AddChunkRange(d, start, length)
           Fine(x) == x \in ListData /\ Proper(x.ranges) /\ Same(a, x)
<1>1. /\ a \in ListData /\ Proper(t) /\ q \in 1 .. Len(t)
      /\ \A i, j \in 1 .. Len(t) : i < j =>
             IF i = q THEN t[i][1] <= t[j][1]
             ELSE IF i = q - 1 /\ j = q THEN t[i][1] <= t[j][1] ELSE Gap(t, i, j)
      /\ Chunks(a) = Chunks(d) \cup (start .. start + length - 1)
      /\ a.present = Total(a)
      /\ Counted(d) => Counted(a)
  BY AddOne
<1>2. prev \in Nat /\ Len(t) \in Nat /\ q - 1 = prev
  <2>1. prev \in 0 .. Len(d.ranges) /\ Len(d.ranges) \in Nat
    BY BeforeIs, RangeType DEF WF, ListData
  <2> QED BY <1>1, <2>1, RangeType DEF ListData
<1>3. e = IF m # a THEN MergeAll(m, prev) ELSE MergeAll(a, q)
  <2>1. ~(start < 0 \/ start + length > ChunkCnt \/ length <= 0)
    BY ChunkCount
  <2> QED BY <2>1 DEF AddChunkRange
<1>4. ASSUME NEW x, Fine(x), Apart(x.ranges)
      PROVE  WF(x) /\ Chunks(x) = Chunks(d) \cup (start .. start + length - 1) /\ (Counted(d) => Counted(x))
  <2>1. Total(x) \in Nat /\ Total(a) \in Nat /\ Len(x.ranges) \in Nat /\ x.present \in Int /\ x.rangeCnt \in Int
    BY <1>1, <1>4, LengthFacts, RangeType DEF ListData
  <2>2. x.present = Total(x)
    BY <1>1, <1>4, <2>1 DEF Same
  <2>3. Counted(d) => Counted(x)
    BY <1>1, <1>2, <1>4, <2>1, SMTT(30) DEF Same, Counted
  <2> QED BY <1>1, <1>4, <2>2, <2>3 DEF WF, Same
<1> HIDE DEF a, e
<1>5. CASE Touch(t, prev)
  <2>1. prev \in 1 .. Len(t) - 1 /\ prev \in 1 .. Len(t) /\ prev < q /\ prev + 1 = q
    BY <1>2, <1>5 DEF Touch
  <2>2. t[prev][1] <= t[prev + 1][1]
    BY <1>1, <1>2, <2>1
  <2>3. /\ m \in ListData /\ Proper(m.ranges) /\ Same(a, m) /\ Len(m.ranges) = Len(t) - 1
        /\ \A i \in 1 .. Len(t) - 1 : i # prev => m.ranges[i] = t[IF i < prev THEN i ELSE i + 1]
        /\ m.ranges[prev][1] = t[prev][1]
    BY <1>1, <1>5, <2>2, MergeOne
  <2>4. m # a
    BY <1>2, <2>3
  <2> DEFINE u == m.ranges
  <2> HIDE DEF m, q, prev
  <2>5. ApartBut(u, prev)
    <3> SUFFICES ASSUME NEW i \in 1 .. Len(t) - 1, NEW j \in 1 .. Len(t) - 1, i < j
                 PROVE  IF i = prev THEN u[i][1] <= u[j][1] ELSE Gap(u, i, j)
      BY <2>3 DEF ApartBut
    <3>1. CASE i = prev
      <4>1. j + 1 \in 1 .. Len(t) /\ i < j + 1 /\ i # q /\ j + 1 # q /\ j # prev /\ ~(j < prev) /\ i \in 1 .. Len(t)
        BY <1>2, <2>1, <3>1
      <4>2. Gap(t, i, j + 1)
        BY <1>1, <1>2, <4>1
      <4>3. t[i][1] + t[i][2] < t[j + 1][1] /\ u[j] = t[j + 1] /\ t[i][1] \in Nat /\ t[i][2] \in Nat /\ t[j + 1][1] \in Nat
        BY <1>1, <2>3, <4>1, <4>2, RangeType DEF Gap, ListData
      <4> DEFINE x == t[i][1]
                 y == t[i][2]
                 z == t[j + 1][1]
      <4>4. x + y < z /\ x \in Nat /\ y \in Nat /\ z \in Nat
        BY <4>3
      <4> HIDE DEF x, y, z
      <4>5. x <= z
        BY <4>4
      <4> QED BY <2>3, <3>1, <4>3, <4>5 DEF x, z
    <3>2. CASE i < prev /\ j = prev
      <4>1. i \in 1 .. Len(t) /\ i # q /\ prev # q /\ i # prev
        BY <1>2, <2>1, <3>2
      <4>2. Gap(t, i, prev) /\ u[i] = t[i]
        BY <1>1, <2>1, <2>3, <3>2, <4>1
      <4> QED BY <2>3, <3>2, <4>1, <4>2 DEF Gap
    <3>3. CASE i # prev /\ j # prev
      <4> DEFINE x == IF i < prev THEN i ELSE i + 1
                 y == IF j < prev THEN j ELSE j + 1
      <4>1. x \in 1 .. Len(t) /\ y \in 1 .. Len(t) /\ x < y /\ x # q /\ x # prev
        BY <1>2, <2>1, <3>3
      <4>2. u[i] = t[x] /\ u[j] = t[y]
        BY <2>3, <3>3
      <4> HIDE DEF x, y
      <4>3. Gap(t, x, y)
        BY <1>1, <1>2, <4>1
      <4> QED BY <3>3, <4>2, <4>3 DEF Gap
    <3> QED BY <1>2, <2>1, <3>1, <3>2, <3>3
  <2>6. prev \in 1 .. Len(u)
    BY <2>1, <2>3
  <2>7. LET x == MergeAll(m, prev) IN x \in ListData /\ Proper(x.ranges) /\ Apart(x.ranges) /\ Same(m, x)
    BY <2>3, <2>5, <2>6, MergeMany
  <2>8. e = MergeAll(m, prev)
    BY <1>3, <2>4 DEF m, q, prev
  <2>9. Fine(e) /\ Apart(e.ranges)
    BY <2>3, <2>7, <2>8 DEF Same
  <2> QED BY <1>4, <2>9 DEF e
<1>6. CASE ~Touch(t, prev)
  <2>1. m = a
    BY <1>1, <1>2, <1>6, NoMerge
  <2>2. ApartBut(t, q)
    <3> SUFFICES ASSUME NEW i \in 1 .. Len(t), NEW j \in 1 .. Len(t), i < j, i = prev, j = q PROVE Gap(t, i, j)
      BY <1>1, <1>2 DEF ApartBut
    <3>1. prev \in 1 .. Len(t) - 1
      BY <1>2
    <3> QED BY <1>6, <3>1 DEF Touch
  <2>3. LET x == MergeAll(a, q) IN x \in ListData /\ Proper(x.ranges) /\ Apart(x.ranges) /\ Same(a, x)
    <3> HIDE DEF q
    <3> QED BY <1>1, <2>2, MergeMany
  <2>4. e = MergeAll(a, q)
    BY <1>3, <2>1
  <2>5. Fine(e) /\ Apart(e.ranges)
    BY <2>3, <2>4
  <2> QED BY <1>4, <2>5 DEF e
<1> QED BY <1>5, <1>6

-----------------------------------------------------------------------------
(* The other operations.                                                   *)

\* The list without chunks.
LEMMA EmptyList == WF(SetIncomplete) /\ Counted(SetIncomplete) /\ Chunks(SetIncomplete) = {}
<1> DEFINE d == SetIncomplete
<1>1. d.ranges = <<>> /\ d.present = 0 /\ d.rangeCnt = 0 /\ Len(d.ranges) = 0 /\ d \in ListData
  BY DEF SetIncomplete, ListData, RangeList
<1> HIDE DEF d
<1>2. Total(d) = 0
  BY <1>1, LengthFacts DEF Total
<1>3. Proper(d.ranges) /\ Apart(d.ranges)
  BY <1>1 DEF Proper, Apart
<1>4. Chunks(d) = {}
  BY <1>1, ChunksAre
<1> QED BY <1>1, <1>2, <1>3, <1>4 DEF WF, Counted, d

\* The list with all chunks.
LEMMA FullList == WF(SetComplete) /\ Chunks(SetComplete) = 0 .. ChunkCnt - 1
<1> DEFINE d == SetComplete
           r == <<0, ChunkCnt>>
<1>1. r \in Nat \X Nat /\ r[1] = 0 /\ r[2] = ChunkCnt /\ ChunkCnt \in Nat /\ ChunkCnt > 0
  BY ChunkCount
<1>2. d.ranges = <<r>> /\ d.present = ChunkCnt /\ d.rangeCnt = 0
  BY DEF SetComplete
<1> HIDE DEF r
<1>3. d.ranges \in RangeList /\ Len(d.ranges) = 1 /\ d.ranges[1] = r
  BY <1>1, <1>2 DEF RangeList
<1>4. d \in ListData
  BY <1>1, <1>2, <1>3 DEF SetComplete, ListData
<1> HIDE DEF d
<1>5. Total(d) = ChunkCnt
  <2>1. Length(d, 0) = 0 /\ Length(d, 1) = Length(d, 1 - 1) + d.ranges[1][2]
    BY <1>3, <1>4, LengthFacts
  <2>2. 1 - 1 = 0
    OBVIOUS
  <2> QED BY <1>1, <1>3, <2>1, <2>2 DEF Total
<1>6. Proper(d.ranges) /\ Apart(d.ranges)
  BY <1>1, <1>3 DEF Proper, Apart
<1>7. Chunks(d) = 0 .. ChunkCnt - 1
  <2>1. \A c : c \in Chunks(d) <=> c \in r[1] .. r[1] + r[2] - 1
    BY <1>3, <1>4, ChunksAre
  <2>2. r[1] .. r[1] + r[2] - 1 = 0 .. ChunkCnt - 1
    BY <1>1
  <2> QED BY <2>1, <2>2
<1> QED BY <1>2, <1>4, <1>5, <1>6, <1>7 DEF WF, d

\* The chunks of a list are chunks of the resource.
LEMMA ChunksInFile ==
  ASSUME NEW d \in ListData, Proper(d.ranges)
  PROVE  Chunks(d) \subseteq 0 .. ChunkCnt - 1
<1> SUFFICES ASSUME NEW c \in Chunks(d) PROVE c \in 0 .. ChunkCnt - 1
  OBVIOUS
<1>1. PICK i \in 1 .. Len(d.ranges) : c \in d.ranges[i][1] .. d.ranges[i][1] + d.ranges[i][2] - 1
  BY ChunksAre
<1> DEFINE x == d.ranges[i][1]
           y == d.ranges[i][2]
<1>2. x \in Nat /\ y \in Nat /\ x + y <= ChunkCnt /\ c \in x .. x + y - 1
  BY <1>1, RangeType DEF ListData, Proper
<1> HIDE DEF x, y
<1> QED BY <1>2, ChunkCount

\* Adding all ranges of another list, sorted or not, whatever its counts are.
LEMMA MergeIs ==
  ASSUME NEW d, WF(d), NEW other \in ListData, Proper(other.ranges)
  PROVE  WF(Merge(d, other)) /\ Chunks(Merge(d, other)) = Chunks(d) \cup Chunks(other) /\ (Counted(d) => Counted(Merge(d, other)))
<1> DEFINE s == other.ranges
           n == Len(s)
           D == {e \in ListData : WF(e)}
           Step(e, k) == AddChunkRange(e, s[k][1], s[k][2])
           G == [x \in D \X (1 .. n) |-> Step(x[1], x[2])]
           merged == CHOOSE f : f = [k \in 0 .. n |-> IF k = 0 THEN d ELSE AddChunkRange(f[k - 1], s[k][1], s[k][2])]
           In(c, k) == c \in s[k][1] .. s[k][1] + s[k][2] - 1
<1>1. n \in Nat /\ \A k \in 1 .. n : s[k][1] \in Nat /\ s[k][2] \in Nat /\ s[k][2] > 0 /\ s[k][1] + s[k][2] <= ChunkCnt
  BY RangeType DEF ListData, Proper
<1>2. ASSUME NEW e, WF(e), NEW k \in 1 .. n
      PROVE  WF(Step(e, k)) /\ Chunks(Step(e, k)) = Chunks(e) \cup {c \in Int : In(c, k)} /\ (Counted(e) => Counted(Step(e, k)))
  <2> DEFINE x == s[k][1]
             y == s[k][2]
             g == AddChunkRange(e, x, y)
  <2>1. x \in Nat /\ y \in Nat /\ y > 0 /\ x + y <= ChunkCnt
    BY <1>1
  <2>2. WF(g) /\ Chunks(g) = Chunks(e) \cup (x .. x + y - 1) /\ (Counted(e) => Counted(g))
    <3> HIDE DEF x, y
    <3> QED BY <1>2, <2>1, AddRange
  <2>3. x .. x + y - 1 = {c \in Int : In(c, k)}
    <3>1. x .. x + y - 1 \subseteq Int
      BY <2>1
    <3> QED BY <3>1
  <2> QED BY <2>2, <2>3
<1> HIDE DEF Step
<1>3. d \in D /\ G \in [D \X (1 .. n) -> D] /\ \A e \in D, k \in 1 .. n : G[<<e, k>>] = Step(e, k)
  <2>1. \A e \in D, k \in 1 .. n : Step(e, k) \in D
    BY <1>2 DEF WF
  <2>2. d \in D
    BY DEF WF
  <2> HIDE DEF D, n
  <2> QED BY <2>1, <2>2
<1>4. PICK f : Loop(f, D, d, n, G)
  <2> HIDE DEF D, G, n, merged
  <2> QED BY <1>1, <1>3, Recursion
<1>5. f = [k \in 0 .. n |-> IF k = 0 THEN d ELSE AddChunkRange(f[k - 1], s[k][1], s[k][2])]
  <2> HIDE DEF D, G, n, merged
  <2>1. f \in [0 .. n -> D] /\ f[0] = d /\ \A k \in 1 .. n : f[k] = G[<<f[k - 1], k>>]
    BY <1>4 DEF Loop
  <2>2. ASSUME NEW k \in 1 .. n PROVE f[k] = AddChunkRange(f[k - 1], s[k][1], s[k][2])
    <3>1. f[k - 1] \in D
      BY <1>1, <2>1
    <3> QED BY <1>3, <2>1, <3>1 DEF Step
  <2>3. \A k \in 0 .. n : f[k] = IF k = 0 THEN d ELSE AddChunkRange(f[k - 1], s[k][1], s[k][2])
    BY <1>1, <2>1, <2>2
  <2>4. f = [k \in 0 .. n |-> f[k]]
    BY <2>1
  <2> QED BY <2>3, <2>4
<1>6. merged = [k \in 0 .. n |-> IF k = 0 THEN d ELSE AddChunkRange(merged[k - 1], s[k][1], s[k][2])]
  BY <1>5
<1>7. Merge(d, other) = merged[n]
  BY DEF Merge
<1> HIDE DEF merged, n
<1>8. merged[0] = d /\ \A k \in 1 .. n : merged[k] = Step(merged[k - 1], k)
  <2>1. 0 \in 0 .. n /\ \A k \in 1 .. n : k \in 0 .. n /\ k # 0
    BY <1>1
  <2> QED BY <1>6, <2>1 DEF Step
<1> DEFINE Done(k) == /\ WF(merged[k]) /\ (Counted(d) => Counted(merged[k]))
                      /\ \A c : c \in Chunks(merged[k]) <=> c \in Chunks(d) \/ (c \in Int /\ \E i \in 1 .. k : In(c, i))
           T == {k \in 0 .. n : Done(k)}
<1> HIDE DEF In
<1>9. 0 \in T
  BY <1>1, <1>8
<1>10. ASSUME NEW k \in 1 .. n, k - 1 \in T PROVE k \in T
  <2> DEFINE e == merged[k - 1]
  <2>1. /\ WF(e) /\ (Counted(d) => Counted(e)) /\ k \in 0 .. n
        /\ \A c : c \in Chunks(e) <=> c \in Chunks(d) \/ (c \in Int /\ \E i \in 1 .. k - 1 : In(c, i))
    BY <1>1, <1>10
  <2>2. merged[k] = Step(e, k)
    BY <1>8
  <2> HIDE DEF e
  <2>3. WF(merged[k]) /\ (Counted(d) => Counted(merged[k])) /\ Chunks(merged[k]) = Chunks(e) \cup {c \in Int : In(c, k)}
    BY <1>2, <2>1, <2>2
  <2>4. 1 .. k = (1 .. k - 1) \cup {k}
    BY <1>1
  <2>5. ASSUME NEW c PROVE c \in Chunks(merged[k]) <=> c \in Chunks(d) \/ (c \in Int /\ \E i \in 1 .. k : In(c, i))
    BY <2>1, <2>3, <2>4
  <2> QED BY <2>1, <2>3, <2>5
<1>11. Done(n)
  <2>1. 0 .. n \subseteq T
    <3> HIDE DEF T
    <3> QED BY <1>1, <1>9, <1>10, Induction
  <2> QED BY <1>1, <2>1
<1>12. \A c : c \in Chunks(other) <=> c \in Int /\ \E i \in 1 .. n : In(c, i)
  <2>1. \A c : c \in Chunks(other) <=> \E i \in 1 .. n : In(c, i)
    BY ChunksAre DEF In, n
  <2>2. \A c : (\E i \in 1 .. n : In(c, i)) => c \in Int
    BY <1>1 DEF In
  <2> QED BY <2>1, <2>2
<1>13. Chunks(merged[n]) = Chunks(d) \cup Chunks(other)
  <2>1. ASSUME NEW c PROVE c \in Chunks(merged[n]) <=> c \in Chunks(d) \/ c \in Chunks(other)
    BY <1>11, <1>12
  <2> QED BY <2>1
<1> QED BY <1>7, <1>11, <1>13

\* A copy has the same chunks and proper counts.
LEMMA CopyIs ==
  ASSUME NEW d \in ListData, Proper(d.ranges)
  PROVE  WF(Copy(d)) /\ Counted(Copy(d)) /\ Chunks(Copy(d)) = Chunks(d)
BY EmptyList, MergeIs, SMTT(30) DEF Copy

\* Packing loses nothing but the number of chunks if the ranges were counted.
LEMMA PackedIs ==
  ASSUME NEW d, WF(d), Counted(d)
  PROVE  /\ Packed(d) \in ListData /\ Packed(d).ranges = d.ranges /\ Chunks(Packed(d)) = Chunks(d)
         /\ Packed(d).present = 0 /\ Packed(d).rangeCnt = Len(d.ranges)
<1> DEFINE s == d.ranges
           S == Nat \X Nat
<1>1. d \in ListData /\ s \in Seq(S) /\ Len(s) \in Nat /\ d.rangeCnt = Len(s)
  BY RangeType DEF WF, ListData, RangeList, Counted
<1>2. SubSeq(s, 1, Len(s)) = s
  <2> HIDE DEF s, S
  <2> QED BY <1>1, SubSeqFull
<1>3. Packed(d) = [ranges |-> s, present |-> 0, rangeCnt |-> d.rangeCnt]
  BY <1>1, <1>2 DEF Packed
<1>4. Packed(d) \in ListData /\ Packed(d).ranges = s /\ Packed(d).present = 0 /\ Packed(d).rangeCnt = Len(s)
  BY <1>1, <1>3 DEF ListData, RangeList
<1>5. Chunks(Packed(d)) = Chunks(d)
  BY <1>4 DEF Chunks
<1> QED BY <1>4, <1>5

\* The same with a range that may be empty.
LEMMA AddRangeOrNothing ==
  ASSUME NEW d, WF(d), NEW start \in Nat, NEW length \in Nat, start + length <= ChunkCnt
  PROVE  LET e == AddChunkRange(d, start, length)
         IN  WF(e) /\ Chunks(e) = Chunks(d) \cup (start .. start + length - 1) /\ (Counted(d) => Counted(e))
<1>1. CASE length = 0
  <2>1. AddChunkRange(d, start, length) = d
    BY <1>1 DEF AddChunkRange
  <2>2. start .. start + length - 1 = {}
    BY <1>1
  <2> QED BY <2>1, <2>2
<1>2. CASE length > 0
  BY <1>2, AddRange
<1> QED BY <1>1, <1>2

\* The chunks that are missing.
LEMMA NegativeIs ==
  ASSUME NEW d, WF(d)
  PROVE  WF(GetNegative(d)) /\ Chunks(GetNegative(d)) = (0 .. ChunkCnt - 1) \ Chunks(d)
<1> DEFINE s == d.ranges
           n == Len(s)
           last == <<ChunkCnt, 0>>
           ends == Append(s, last)
           From(i) == IF i = 1 THEN 0 ELSE ends[i - 1][1] + ends[i - 1][2]
           To(i) == ends[i][1]
           D == {e \in ListData : WF(e)}
           Step(e, k) == AddChunkRange(e, From(k), To(k) - From(k))
           G == [x \in D \X (1 .. n + 1) |-> Step(x[1], x[2])]
           negative == CHOOSE f : f = [i \in 0 .. Len(ends) |-> IF i = 0 THEN SetIncomplete ELSE Step(f[i - 1], i)]
<1>1. /\ d \in ListData /\ s \in RangeList /\ n \in Nat /\ ChunkCnt \in Nat
      /\ \A k \in 1 .. n : s[k][1] \in Nat /\ s[k][2] \in Nat /\ s[k][2] > 0 /\ s[k][1] + s[k][2] <= ChunkCnt
  BY RangeType, ChunkCount DEF WF, ListData, Proper
<1>2. last \in Nat \X Nat /\ last[1] = ChunkCnt
  BY <1>1
<1>3. Len(ends) = n + 1 /\ (\A i \in 1 .. n : ends[i] = s[i]) /\ ends[n + 1] = last
  <2> DEFINE S == Nat \X Nat
  <2>1. s \in Seq(S) /\ last \in S
    BY <1>1, <1>2 DEF RangeList
  <2> HIDE DEF s, S, last
  <2>2. /\ Len(ends) = Len(s) + 1
        /\ \A i \in 1 .. Len(s) : ends[i] = s[i]
        /\ ends[Len(s) + 1] = last
    BY <2>1, AppendProperties
  <2> QED BY <2>2
<1>4. ASSUME NEW k \in 1 .. n + 1
      PROVE  From(k) \in Nat /\ To(k) \in Nat /\ From(k) <= To(k) /\ To(k) <= ChunkCnt
  <2>1. To(k) \in Nat /\ To(k) <= ChunkCnt
    <3>1. CASE k = n + 1
      BY <1>1, <1>2, <1>3, <3>1
    <3>2. CASE k # n + 1
      <4> DEFINE x == s[k][1]
                 y == s[k][2]
      <4>1. k \in 1 .. n /\ ends[k] = s[k]
        BY <1>1, <1>3, <3>2
      <4>2. x \in Nat /\ y \in Nat /\ x + y <= ChunkCnt
        BY <1>1, <4>1
      <4> HIDE DEF x, y
      <4>3. x \in Nat /\ x <= ChunkCnt
        BY <1>1, <4>2
      <4> QED BY <4>1, <4>3 DEF x
    <3> QED BY <3>1, <3>2
  <2>2. CASE k = 1
    BY <2>1, <2>2
  <2>3. CASE k # 1
    <3> DEFINE x == s[k - 1][1]
               y == s[k - 1][2]
               z == To(k)
    <3>1. k - 1 \in 1 .. n /\ ends[k - 1] = s[k - 1]
      BY <1>1, <1>3, <2>3
    <3>2. x \in Nat /\ y \in Nat /\ x + y <= ChunkCnt /\ From(k) = x + y
      BY <1>1, <2>3, <3>1
    <3>3. x + y <= z
      <4>1. CASE k = n + 1
        BY <1>2, <1>3, <3>2, <4>1
      <4>2. CASE k # n + 1
        <5>1. k \in 1 .. n /\ k - 1 < k /\ ends[k] = s[k]
          BY <1>1, <1>3, <4>2
        <5>2. Gap(s, k - 1, k)
          BY <3>1, <5>1 DEF WF, Apart
        <5>3. x + y < z
          BY <5>1, <5>2 DEF Gap
        <5> HIDE DEF x, y, z
        <5> QED BY <2>1, <3>2, <5>3 DEF z
      <4> QED BY <4>1, <4>2
    <3> HIDE DEF x, y
    <3> QED BY <2>1, <3>2, <3>3
  <2> QED BY <2>2, <2>3
<1> HIDE DEF ends, From, To
<1>5. ASSUME NEW e, WF(e), NEW k \in 1 .. n + 1
      PROVE  WF(Step(e, k)) /\ Chunks(Step(e, k)) = Chunks(e) \cup (From(k) .. To(k) - 1)
  <2> DEFINE x == From(k)
             y == To(k) - From(k)
  <2>1. x \in Nat /\ y \in Nat /\ x + y <= ChunkCnt /\ x + y = To(k)
    BY <1>1, <1>4
  <2> HIDE DEF x, y
  <2>2. LET g == AddChunkRange(e, x, y) IN WF(g) /\ Chunks(g) = Chunks(e) \cup (x .. x + y - 1)
    BY <1>5, <2>1, AddRangeOrNothing
  <2> QED BY <2>1, <2>2 DEF x, y
<1> HIDE DEF Step
<1>6. SetIncomplete \in D /\ G \in [D \X (1 .. n + 1) -> D] /\ \A e \in D, k \in 1 .. n + 1 : G[<<e, k>>] = Step(e, k)
  <2>1. \A e \in D, k \in 1 .. n + 1 : Step(e, k) \in D
    BY <1>5 DEF WF
  <2>2. SetIncomplete \in D
    BY EmptyList DEF WF
  <2> HIDE DEF D, n
  <2> QED BY <2>1, <2>2
<1>7. PICK f : Loop(f, D, SetIncomplete, n + 1, G)
  <2>1. n + 1 \in Nat
    BY <1>1
  <2> HIDE DEF D, G, n, negative
  <2> QED BY <2>1, <1>6, Recursion
<1>8. f = [i \in 0 .. Len(ends) |-> IF i = 0 THEN SetIncomplete ELSE Step(f[i - 1], i)]
  <2> HIDE DEF D, G, n, negative
  <2>1. f \in [0 .. n + 1 -> D] /\ f[0] = SetIncomplete /\ \A k \in 1 .. n + 1 : f[k] = G[<<f[k - 1], k>>]
    BY <1>7 DEF Loop
  <2>2. ASSUME NEW k \in 1 .. n + 1 PROVE f[k] = Step(f[k - 1], k)
    <3>1. f[k - 1] \in D
      BY <1>1, <2>1
    <3> QED BY <1>6, <2>1, <3>1
  <2>3. \A k \in 0 .. n + 1 : f[k] = IF k = 0 THEN SetIncomplete ELSE Step(f[k - 1], k)
    BY <1>1, <2>1, <2>2
  <2>4. f = [k \in 0 .. n + 1 |-> f[k]]
    BY <2>1
  <2> QED BY <1>3, <2>3, <2>4
<1>9. negative = [i \in 0 .. Len(ends) |-> IF i = 0 THEN SetIncomplete ELSE Step(negative[i - 1], i)]
  BY <1>8
<1>10. GetNegative(d) = negative[Len(ends)]
  BY DEF GetNegative, Step, From, To, ends
<1> HIDE DEF negative, n
<1>11. negative[0] = SetIncomplete /\ \A k \in 1 .. n + 1 : negative[k] = Step(negative[k - 1], k)
  <2>1. 0 \in 0 .. n + 1 /\ \A k \in 1 .. n + 1 : k \in 0 .. n + 1 /\ k # 0
    BY <1>1
  <2> QED BY <1>3, <1>9, <2>1
<1> DEFINE Bound(k) == IF k = 0 THEN 0 ELSE To(k)
           Done(k) == WF(negative[k]) /\ \A c : c \in Chunks(negative[k]) <=> c \in Nat /\ c < Bound(k) /\ c \notin Chunks(d)
           T == {k \in 0 .. n + 1 : Done(k)}
<1>12. 0 \in T
  <2>1. ~\E c \in Nat : c < 0
    OBVIOUS
  <2> QED BY <1>1, <1>11, <2>1, EmptyList
<1>13. ASSUME NEW k \in 1 .. n + 1, NEW c \in From(k) .. To(k) - 1 PROVE c \in Nat /\ c < To(k) /\ c \notin Chunks(d)
  <2>1. c \in Nat /\ c < To(k) /\ From(k) <= c
    BY <1>4
  <2>2. ASSUME NEW j \in 1 .. n, c \in s[j][1] .. s[j][1] + s[j][2] - 1 PROVE FALSE
    <3> DEFINE x == s[j][1]
               y == s[j][2]
    <3>1. x \in Nat /\ y \in Nat /\ x <= c /\ c < x + y
      <4>1. x \in Nat /\ y \in Nat /\ c \in x .. x + y - 1
        BY <1>1, <2>2
      <4> HIDE DEF x, y
      <4> QED BY <2>1, <4>1
    <3>2. CASE j < k
      <4>1. k # 1 /\ k - 1 \in 1 .. n
        BY <1>1, <3>2
      <4>2. From(k) = s[k - 1][1] + s[k - 1][2]
        BY <1>3, <4>1 DEF From
      <4>3. x + y <= From(k)
        <5>1. CASE j = k - 1
          BY <3>1, <4>2, <5>1
        <5>2. CASE j # k - 1
          <6> DEFINE u == s[k - 1][1]
                     v == s[k - 1][2]
          <6>1. j < k - 1
            BY <1>1, <3>2, <5>2
          <6>2. x + y < u
            BY <4>1, <6>1 DEF WF, Apart, Gap, n
          <6>3. u \in Nat /\ v \in Nat
            BY <1>1, <4>1
          <6> HIDE DEF x, y, u, v
          <6>4. x + y <= u + v
            BY <3>1, <6>2, <6>3
          <6> QED BY <4>2, <6>4 DEF u, v
        <5> QED BY <5>1, <5>2
      <4> HIDE DEF x, y
      <4> QED BY <1>4, <2>1, <3>1, <4>3
    <3>3. CASE j >= k
      <4>1. k \in 1 .. n
        BY <1>1, <3>3
      <4>2. To(k) = s[k][1]
        BY <1>3, <4>1 DEF To
      <4>3. To(k) <= x
        <5>1. CASE j = k
          BY <3>1, <4>2, <5>1
        <5>2. CASE j # k
          <6> DEFINE u == s[k][1]
                     v == s[k][2]
          <6>1. k < j
            BY <1>1, <3>3, <5>2
          <6>2. u + v < x
            BY <4>1, <6>1 DEF WF, Apart, Gap, n
          <6>3. u \in Nat /\ v \in Nat
            BY <1>1, <4>1
          <6> HIDE DEF x, y, u, v
          <6>4. u <= x
            BY <3>1, <6>2, <6>3
          <6> QED BY <4>2, <6>4 DEF u
        <5> QED BY <5>1, <5>2
      <4> HIDE DEF x, y
      <4> QED BY <1>4, <2>1, <3>1, <4>3
    <3> QED BY <1>1, <3>2, <3>3
  <2> QED BY <1>1, <2>1, <2>2, ChunksAre DEF n
<1>14. ASSUME NEW k \in 1 .. n + 1, NEW c \in Nat, Bound(k - 1) <= c, c < From(k) PROVE c \in Chunks(d)
  <2>1. k # 1
    <3>1. CASE k = 1
      BY <1>14, <3>1 DEF From
    <3> QED BY <3>1
  <2>2. k - 1 \in 1 .. n /\ k - 1 # 0
    BY <1>1, <2>1
  <2> DEFINE x == s[k - 1][1]
             y == s[k - 1][2]
  <2>3. From(k) = x + y /\ Bound(k - 1) = x /\ x \in Nat /\ y \in Nat
    BY <1>1, <1>3, <2>1, <2>2 DEF From, To
  <2>4. c \in x .. x + y - 1
    <3> HIDE DEF x, y, Bound
    <3> QED BY <1>14, <2>3
  <2> QED BY <1>1, <2>2, <2>4, ChunksAre DEF n
<1>15. ASSUME NEW k \in 1 .. n + 1 PROVE Bound(k - 1) \in Nat /\ Bound(k) = To(k) /\ Bound(k - 1) <= From(k) /\ k - 1 \in 0 .. n + 1
  <2>1. k # 0 /\ k - 1 \in 0 .. n + 1
    BY <1>1
  <2>2. CASE k = 1
    BY <1>4, <2>1, <2>2
  <2>3. CASE k # 1
    <3>1. k - 1 \in 1 .. n /\ k - 1 # 0
      BY <1>1, <2>3
    <3> DEFINE x == s[k - 1][1]
               y == s[k - 1][2]
    <3>2. From(k) = x + y /\ Bound(k - 1) = x /\ x \in Nat /\ y \in Nat
      BY <1>1, <1>3, <2>3, <3>1 DEF From, To
    <3> HIDE DEF x, y
    <3>3. x <= x + y
      BY <3>2
    <3> QED BY <2>1, <3>2, <3>3
  <2> QED BY <2>2, <2>3
<1> HIDE DEF Bound
<1>16. ASSUME NEW k \in 1 .. n + 1, k - 1 \in T PROVE k \in T
  <2> DEFINE e == negative[k - 1]
  <2>1. WF(e) /\ (\A c : c \in Chunks(e) <=> c \in Nat /\ c < Bound(k - 1) /\ c \notin Chunks(d)) /\ k \in 0 .. n + 1
    BY <1>1, <1>16
  <2>2. negative[k] = Step(e, k)
    BY <1>11
  <2> HIDE DEF e
  <2>3. WF(negative[k]) /\ Chunks(negative[k]) = Chunks(e) \cup (From(k) .. To(k) - 1)
    BY <1>5, <2>1, <2>2
  <2>4. ASSUME NEW c, c \in Chunks(negative[k]) PROVE c \in Nat /\ c < Bound(k) /\ c \notin Chunks(d)
    <3>1. CASE c \in Chunks(e)
      BY <1>4, <1>15, <2>1, <3>1
    <3>2. CASE c \in From(k) .. To(k) - 1
      BY <1>13, <1>15, <3>2
    <3> QED BY <2>3, <2>4, <3>1, <3>2
  <2>5. ASSUME NEW c, c \in Nat, c < Bound(k), c \notin Chunks(d) PROVE c \in Chunks(negative[k])
    <3>1. CASE c < Bound(k - 1)
      BY <2>1, <2>3, <2>5, <3>1
    <3>2. CASE ~(c < Bound(k - 1))
      <4>1. Bound(k - 1) <= c
        BY <1>15, <2>5, <3>2
      <4>2. ~(c < From(k))
        BY <1>14, <2>5, <4>1
      <4>3. c \in From(k) .. To(k) - 1
        BY <1>4, <1>15, <2>5, <4>2
      <4> QED BY <2>3, <4>3
    <3> QED BY <3>1, <3>2
  <2> QED BY <2>1, <2>3, <2>4, <2>5
<1>17. Done(n + 1)
  <2>1. 0 .. n + 1 \subseteq T
    <3>1. n + 1 \in Nat
      BY <1>1
    <3> HIDE DEF T
    <3> QED BY <3>1, <1>12, <1>16, Induction
  <2> QED BY <1>1, <2>1
<1>18. Bound(n + 1) = ChunkCnt
  BY <1>1, <1>2, <1>3 DEF Bound, To
<1>19. Chunks(negative[n + 1]) = (0 .. ChunkCnt - 1) \ Chunks(d)
  <2>1. \A c : c \in Nat /\ c < ChunkCnt <=> c \in 0 .. ChunkCnt - 1
    BY <1>1
  <2> QED BY <1>17, <1>18, <2>1
<1> QED BY <1>3, <1>10, <1>17, <1>19

\* The ranges before and with the k-th one hold at least k chunks, and at least
\* k - 1 chunks before its end are missing.
LEMMA Bounds ==
  ASSUME NEW d, WF(d), NEW k \in 1 .. Len(d.ranges)
  PROVE  k <= Length(d, k) /\ Length(d, k) + k <= d.ranges[k][1] + d.ranges[k][2] + 1
<1> DEFINE s == d.ranges
           n == Len(s)
           start(i) == s[i][1]
           length(i) == s[i][2]
           total(i) == Length(d, i)
           T == {i \in 0 .. n : i # 0 => i <= total(i) /\ total(i) + i <= start(i) + length(i) + 1}
<1>1. /\ d \in ListData /\ n \in Nat
      /\ \A i \in 1 .. n : start(i) \in Nat /\ length(i) \in Nat /\ length(i) > 0
  BY RangeType DEF WF, ListData, Proper
<1>2. /\ \A i \in 1 .. n : total(i) = total(i - 1) + length(i)
      /\ total(0) = 0 /\ \A i \in 0 .. n : total(i) \in Nat
  BY <1>1, LengthFacts
<1>3. \A i, j \in 1 .. n : i < j => start(i) + length(i) < start(j)
  BY DEF WF, Apart, Gap
<1> HIDE DEF s, n, start, length, total
<1>4. 0 \in T
  BY <1>1
<1>5. ASSUME NEW i \in 1 .. n, i - 1 \in T PROVE i \in T
  <2>1. i \in 0 .. n /\ i - 1 \in 0 .. n /\ total(i - 1) \in Nat /\ total(i) = total(i - 1) + length(i)
    BY <1>1, <1>2
  <2>2. start(i) \in Nat /\ length(i) \in Nat /\ length(i) > 0
    BY <1>1
  <2>3. CASE i = 1
    BY <1>2, <2>1, <2>2, <2>3
  <2>4. CASE i # 1
    <3>1. i - 1 \in 1 .. n /\ i - 1 # 0 /\ i - 1 < i
      BY <1>1, <2>4
    <3>2. i - 1 <= total(i - 1) /\ total(i - 1) + (i - 1) <= start(i - 1) + length(i - 1) + 1
      BY <1>5, <3>1
    <3>3. start(i - 1) + length(i - 1) < start(i) /\ start(i - 1) \in Nat /\ length(i - 1) \in Nat
      BY <1>1, <1>3, <3>1
    <3> QED BY <2>1, <2>2, <3>2, <3>3
  <2> QED BY <2>3, <2>4
<1>6. 0 .. n \subseteq T
  <2> HIDE DEF T
  <2> QED BY <1>1, <1>4, <1>5, Induction
<1>7. k \in T /\ k # 0
  BY <1>1, <1>6, SMTT(30) DEF n, s
<1> QED BY <1>7 DEF total, start, length, s

\* The number of chunks and of ranges is in bounds, and a list with as many chunks
\* as the resource holds all of them.
LEMMA CompleteIs ==
  ASSUME NEW d, WF(d)
  PROVE  /\ d.present \in 0 .. ChunkCnt
         /\ Len(d.ranges) \in 0 .. ChunkCnt
         /\ isComplete(d) => Chunks(d) = 0 .. ChunkCnt - 1
<1> DEFINE n == Len(d.ranges)
           x == d.ranges[n][1]
           y == d.ranges[n][2]
<1>1. d \in ListData /\ n \in Nat /\ d.present \in Nat /\ ChunkCnt \in Nat /\ ChunkCnt > 0
  BY LengthFacts, RangeType, ChunkCount DEF WF, ListData
<1>2. CASE n = 0
  <2>1. d.present = 0
    BY <1>1, <1>2, LengthFacts DEF WF, Total
  <2> QED BY <1>1, <1>2, <2>1 DEF isComplete
<1>3. CASE n # 0
  <2>1. n \in 1 .. n
    BY <1>1, <1>3
  <2>2. x \in Nat /\ y \in Nat /\ x + y <= ChunkCnt
    BY <1>1, <2>1, RangeType DEF WF, ListData, Proper
  <2>3. n <= d.present /\ d.present + n <= x + y + 1
    BY <2>1, Bounds DEF WF, Total
  <2>4. d.present <= ChunkCnt /\ n <= ChunkCnt
    <3> HIDE DEF n, x, y
    <3> QED BY <1>1, <1>3, <2>2, <2>3
  <2>5. ASSUME d.present = ChunkCnt PROVE Chunks(d) = 0 .. ChunkCnt - 1
    <3>1. n = 1 /\ x + y = ChunkCnt
      <4> HIDE DEF n, x, y
      <4> QED BY <1>1, <1>3, <2>2, <2>3, <2>5
    <3>2. y = ChunkCnt
      <4>1. Length(d, 1) = Length(d, 1 - 1) + d.ranges[1][2] /\ Length(d, 0) = 0 /\ 1 - 1 = 0
        BY <1>1, <2>1, <3>1, LengthFacts
      <4>2. d.present = y
        BY <1>1, <2>2, <3>1, <4>1 DEF WF, Total
      <4> QED BY <2>5, <4>2
    <3>3. x = 0
      <4> HIDE DEF x, y
      <4> QED BY <1>1, <2>2, <3>1, <3>2
    <3>4. \A c : c \in Chunks(d) <=> c \in d.ranges[1][1] .. d.ranges[1][1] + d.ranges[1][2] - 1
      BY <1>1, <3>1, ChunksAre
    <3>5. d.ranges[1][1] .. d.ranges[1][1] + d.ranges[1][2] - 1 = 0 .. ChunkCnt - 1
      <4>1. d.ranges[1][1] = x /\ d.ranges[1][2] = y
        BY <3>1
      <4>2. x .. x + y - 1 = 0 .. ChunkCnt - 1
        <5> HIDE DEF x, y
        <5> QED BY <1>1, <3>2, <3>3
      <4> HIDE DEF x, y
      <4> QED BY <4>1, <4>2
    <3> QED BY <3>4, <3>5
  <2> QED BY <1>1, <2>4, <2>5 DEF isComplete
<1> QED BY <1>2, <1>3

\* The chunk with a number is in the list.
LEMMA PresentChunk ==
  ASSUME NEW d, WF(d), NEW nr \in 0 .. d.present - 1
  PROVE  getPresentChunk(d, nr) \in Chunks(d)
<1> DEFINE s == d.ranges
           n == Len(s)
           Past == {k \in 1 .. n : nr < Length(d, k)}
           Place(j) == Length(d, j - 1) <= nr /\ nr < Length(d, j)
<1>1. /\ d \in ListData /\ s \in RangeList /\ n \in Nat /\ DOMAIN s = 1 .. n /\ nr \in Nat
      /\ \A i \in 1 .. n : s[i][1] \in Nat /\ s[i][2] \in Nat
  <2>1. d \in ListData /\ s \in RangeList
    BY DEF WF, ListData
  <2> QED BY <2>1, RangeType, LenProperties DEF RangeList
<1>2. /\ \A k \in 1 .. n : Length(d, k) = Length(d, k - 1) + s[k][2]
      /\ \A k \in 0 .. n : Length(d, k) \in Nat
      /\ Length(d, 0) = 0 /\ d.present = Length(d, n)
  BY <1>1, LengthFacts DEF WF, Total
<1>3. n \in Past
  <2>1. n \in 0 .. n /\ nr < Length(d, n)
    BY <1>1, <1>2
  <2>2. n # 0
    BY <1>1, <1>2, <2>1
  <2> QED BY <1>1, <2>1, <2>2
<1>4. PICK j \in Past : \A k \in Past : j <= k
  <2>1. Past \subseteq Nat /\ Past # {}
    BY <1>1, <1>3
  <2> HIDE DEF Past
  <2> QED BY <2>1, LeastNat
<1>5. j \in 1 .. n /\ Place(j)
  <2>1. j \in 1 .. n /\ nr < Length(d, j) /\ j - 1 \in 0 .. n
    BY <1>1, <1>4
  <2>2. ~(j <= j - 1)
    BY <1>1, <2>1
  <2>3. j - 1 \notin Past
    BY <1>4, <2>2
  <2>4. j = 1 \/ j - 1 \in 1 .. n
    BY <1>1, <2>1
  <2>5. Length(d, j - 1) <= nr
    <3>1. CASE j = 1
      BY <1>1, <1>2, <3>1
    <3>2. CASE j - 1 \in 1 .. n
      <4> DEFINE x == Length(d, j - 1)
      <4>1. x \in Nat /\ ~(nr < x)
        BY <1>2, <2>1, <2>3, <3>2
      <4> HIDE DEF x
      <4>2. x <= nr
        BY <1>1, <4>1
      <4> QED BY <4>2 DEF x
    <3> QED BY <2>4, <3>1, <3>2
  <2> QED BY <2>1, <2>5
<1> DEFINE i == CHOOSE k \in DOMAIN s : Place(k)
<1>6. i \in 1 .. n /\ Place(i)
  BY <1>1, <1>5
<1>7. getPresentChunk(d, nr) = s[i][1] + nr - Length(d, i - 1)
  BY DEF getPresentChunk
<1> HIDE DEF i
<1>8. s[i][1] + nr - Length(d, i - 1) \in s[i][1] .. s[i][1] + s[i][2] - 1
  <2> DEFINE x == s[i][1]
             y == s[i][2]
             l == Length(d, i - 1)
  <2>1. x \in Nat /\ y \in Nat /\ l \in Nat /\ l <= nr /\ nr < l + y
    <3>1. i - 1 \in 0 .. n /\ Length(d, i) = l + y
      BY <1>1, <1>2, <1>6
    <3> QED BY <1>1, <1>2, <1>6, <3>1
  <2> HIDE DEF x, y, l
  <2>2. x + nr - l \in x .. x + y - 1
    BY <1>1, <2>1
  <2> QED BY <2>2 DEF x, y, l
<1> QED BY <1>1, <1>6, <1>7, <1>8, ChunksAre

\* The sums grow.
LEMMA LengthGrows ==
  ASSUME NEW d \in ListData, NEW i \in 0 .. Len(d.ranges), NEW j \in 0 .. Len(d.ranges), i <= j
  PROVE  Length(d, i) <= Length(d, j)
<1> DEFINE n == Len(d.ranges)
           total(k) == Length(d, k)
           T == {k \in 0 .. n : i <= k => total(i) <= total(k)}
<1>1. /\ n \in Nat /\ \A k \in 0 .. n : total(k) \in Nat
      /\ \A k \in 1 .. n : total(k - 1) <= total(k)
  <2>1. n \in Nat /\ \A k \in 1 .. n : d.ranges[k][2] \in Nat
    BY RangeType DEF ListData
  <2>2. /\ \A k \in 0 .. n : total(k) \in Nat
        /\ \A k \in 1 .. n : total(k) = total(k - 1) + d.ranges[k][2]
    BY LengthFacts
  <2>3. ASSUME NEW k \in 1 .. n PROVE total(k - 1) <= total(k)
    <3> DEFINE y == d.ranges[k][2]
    <3>1. k - 1 \in 0 .. n /\ y \in Nat /\ total(k) = total(k - 1) + y
      BY <2>1, <2>2
    <3>2. total(k - 1) \in Nat
      BY <2>2, <3>1
    <3> HIDE DEF y, total
    <3> QED BY <3>1, <3>2
  <2> QED BY <2>1, <2>2, <2>3
<1> HIDE DEF n, total
<1>2. 0 \in T
  <2>1. i <= 0 => i = 0
    BY <1>1 DEF n
  <2>2. total(0) \in Nat /\ 0 \in 0 .. n
    BY <1>1
  <2> QED BY <2>1, <2>2
<1>3. ASSUME NEW k \in 1 .. n, k - 1 \in T PROVE k \in T
  <2>1. k \in 0 .. n /\ k - 1 \in 0 .. n /\ total(k - 1) \in Nat /\ total(k) \in Nat /\ total(k - 1) <= total(k)
    BY <1>1
  <2>2. i \in 0 .. n /\ total(i) \in Nat
    BY <1>1 DEF n
  <2>3. i <= k - 1 => total(i) <= total(k - 1)
    BY <1>3
  <2>4. i <= k => i <= k - 1 \/ i = k
    BY <1>1, <2>2
  <2> QED BY <2>1, <2>2, <2>3, <2>4
<1>4. 0 .. n \subseteq T
  <2> HIDE DEF T
  <2> QED BY <1>1, <1>2, <1>3, Induction
<1>5. j \in 0 .. n
  BY DEF n
<1> QED BY <1>4, <1>5 DEF total

\* Every chunk of the list has a number.
LEMMA EveryChunk ==
  ASSUME NEW d, WF(d), NEW c \in Chunks(d)
  PROVE  \E nr \in 0 .. d.present - 1 : getPresentChunk(d, nr) = c
<1> DEFINE s == d.ranges
           n == Len(s)
<1>1. /\ d \in ListData /\ s \in RangeList /\ n \in Nat /\ DOMAIN s = 1 .. n
      /\ \A k \in 1 .. n : s[k][1] \in Nat /\ s[k][2] \in Nat
  <2>1. d \in ListData /\ s \in RangeList
    BY DEF WF, ListData
  <2> QED BY <2>1, RangeType, LenProperties DEF RangeList
<1>2. /\ \A k \in 1 .. n : Length(d, k) = Length(d, k - 1) + s[k][2]
      /\ \A k \in 0 .. n : Length(d, k) \in Nat
      /\ Length(d, 0) = 0 /\ d.present = Length(d, n)
  BY <1>1, LengthFacts DEF WF, Total
<1>3. PICK j \in 1 .. n : c \in s[j][1] .. s[j][1] + s[j][2] - 1
  BY <1>1, ChunksAre
<1> DEFINE x == s[j][1]
           y == s[j][2]
           l == Length(d, j - 1)
           nr == l + (c - x)
<1>4. /\ x \in Nat /\ y \in Nat /\ l \in Nat /\ c \in x .. x + y - 1 /\ Length(d, j) = l + y
      /\ j \in 0 .. n /\ j - 1 \in 0 .. n
  BY <1>1, <1>2, <1>3
<1> HIDE DEF x, y, l
<1>5. nr \in Nat /\ l <= nr /\ nr < l + y /\ x + nr - l = c
  BY <1>4
<1> DEFINE Place(k) == Length(d, k - 1) <= nr /\ nr < Length(d, k)
<1>6. j \in DOMAIN s /\ Place(j)
  BY <1>1, <1>4, <1>5 DEF l
<1> HIDE DEF nr
<1>7. ASSUME NEW k \in DOMAIN s, Place(k) PROVE k = j
  <2>1. k \in 1 .. n /\ k \in 0 .. n /\ k - 1 \in 0 .. n
    BY <1>1
  <2>2. ~(k < j)
    <3> SUFFICES ASSUME k < j PROVE FALSE
      OBVIOUS
    <3>1. k <= j - 1
      BY <1>1, <1>4, <2>1
    <3>2. Length(d, k) <= Length(d, j - 1)
      BY <1>1, <1>4, <2>1, <3>1, LengthGrows
    <3>3. Length(d, k) \in Nat /\ Length(d, j - 1) \in Nat
      BY <1>2, <1>4, <2>1
    <3>4. nr < Length(d, k) /\ Length(d, j - 1) <= nr
      BY <1>6, <1>7
    <3> QED BY <1>5, <3>2, <3>3, <3>4
  <2>3. ~(j < k)
    <3> SUFFICES ASSUME j < k PROVE FALSE
      OBVIOUS
    <3>1. j <= k - 1
      BY <1>1, <1>4, <2>1
    <3>2. Length(d, j) <= Length(d, k - 1)
      BY <1>1, <1>4, <2>1, <3>1, LengthGrows
    <3>3. Length(d, j) \in Nat /\ Length(d, k - 1) \in Nat
      BY <1>2, <1>4, <2>1
    <3>4. nr < Length(d, j) /\ Length(d, k - 1) <= nr
      BY <1>6, <1>7
    <3> QED BY <1>5, <3>2, <3>3, <3>4
  <2> QED BY <1>1, <1>4, <2>1, <2>2, <2>3
<1> DEFINE i == CHOOSE k \in DOMAIN s : Place(k)
<1>8. i = j
  <2>1. i \in DOMAIN s /\ Place(i)
    BY <1>6
  <2> HIDE DEF i
  <2> QED BY <1>7, <2>1
<1>9. getPresentChunk(d, nr) = s[i][1] + nr - Length(d, i - 1)
  BY DEF getPresentChunk
<1>10. getPresentChunk(d, nr) = c
  <2>1. getPresentChunk(d, nr) = s[j][1] + nr - Length(d, j - 1)
    BY <1>8, <1>9
  <2> HIDE DEF i, s
  <2> QED BY <1>5, <2>1 DEF x, l, s
<1>11. nr \in 0 .. d.present - 1
  <2>1. n \in 0 .. n /\ j <= n
    BY <1>1, <1>4
  <2>2. Length(d, j) <= Length(d, n) /\ Length(d, j) \in Nat /\ Length(d, n) \in Nat
    BY <1>1, <1>2, <1>4, <2>1, LengthGrows
  <2> QED BY <1>2, <1>4, <1>5, <2>2
<1> QED BY <1>10, <1>11

\* The count tells exactly when all chunks are there, and with as many chunks as the
\* resource has the list is one range (isComplete compares two numbers only).
THEOREM CompleteExactly ==
  ASSUME NEW d, WF(d)
  PROVE  isComplete(d) <=> Chunks(d) = 0 .. ChunkCnt - 1
<1> DEFINE s == d.ranges
           n == Len(s)
           last == ChunkCnt - 1
<1>1. /\ d \in ListData /\ n \in Nat /\ ChunkCnt \in Nat /\ ChunkCnt > 0
      /\ \A k \in 1 .. n : s[k][1] \in Nat /\ s[k][2] \in Nat
  BY RangeType, ChunkCount DEF WF, ListData
<1>2. \A c : c \in Chunks(d) <=> \E k \in 1 .. n : c \in s[k][1] .. s[k][1] + s[k][2] - 1
  BY <1>1, ChunksAre
<1>3. /\ \A k \in 1 .. n : s[k][2] > 0 /\ s[k][1] + s[k][2] <= ChunkCnt
      /\ \A i, k \in 1 .. n : i < k => s[i][1] + s[i][2] < s[k][1]
  BY DEF WF, Proper, Apart, Gap
<1>4. ASSUME Chunks(d) = 0 .. ChunkCnt - 1 PROVE isComplete(d)
  <2>1. PICK i \in 1 .. n : 0 \in s[i][1] .. s[i][1] + s[i][2] - 1
    <3>1. 0 \in Chunks(d)
      BY <1>1, <1>4
    <3> QED BY <1>2, <3>1
  <2> DEFINE x == s[i][1]
             y == s[i][2]
  <2>2. x = 0 /\ y \in Nat /\ y > 0 /\ y <= ChunkCnt
    <3>1. x \in Nat /\ y \in Nat /\ 0 \in x .. x + y - 1 /\ y > 0 /\ x + y <= ChunkCnt
      BY <1>1, <1>3, <2>1
    <3> HIDE DEF x, y
    <3> QED BY <1>1, <3>1
  <2>3. ASSUME NEW k \in 1 .. n PROVE k = i
    <3> DEFINE u == s[k][1]
               v == s[k][2]
    <3>1. u \in Nat /\ v \in Nat /\ v > 0 /\ u + v <= ChunkCnt
      BY <1>1, <1>3
    <3>2. ~(k < i)
      <4>1. k < i => u + v < x
        BY <1>3
      <4> HIDE DEF x, y, u, v
      <4> QED BY <2>2, <3>1, <4>1
    <3>3. ~(i < k)
      <4> SUFFICES ASSUME i < k PROVE FALSE
        OBVIOUS
      <4>1. x + y < u
        BY <1>3
      <4>2. y \in 0 .. ChunkCnt - 1
        <5> HIDE DEF x, y, u, v
        <5> QED BY <1>1, <2>2, <3>1, <4>1
      <4>3. PICK j \in 1 .. n : y \in s[j][1] .. s[j][1] + s[j][2] - 1
        BY <1>2, <1>4, <4>2
      <4> DEFINE a == s[j][1]
                 b == s[j][2]
      <4>4. a \in Nat /\ b \in Nat /\ y \in a .. a + b - 1 /\ (j < i => a + b < x) /\ (i < j => x + y < a) /\ (i = j => b = y /\ a = x)
        BY <1>1, <1>3, <4>3
      <4>5. j < i \/ i < j \/ i = j
        BY <1>1
      <4> HIDE DEF x, y, a, b
      <4> QED BY <1>1, <2>2, <4>4, <4>5
    <3> QED BY <1>1, <3>2, <3>3
  <2>4. n = 1 /\ i = 1
    <3>1. 1 \in 1 .. n /\ n \in 1 .. n
      BY <1>1, <2>1
    <3> QED BY <2>3, <3>1
  <2>5. y = ChunkCnt
    <3>1. ChunkCnt - 1 \in 0 .. ChunkCnt - 1
      BY <1>1
    <3>2. PICK j \in 1 .. n : ChunkCnt - 1 \in s[j][1] .. s[j][1] + s[j][2] - 1
      BY <1>2, <1>4, <3>1
    <3>3. ChunkCnt - 1 \in x .. x + y - 1
      BY <2>3, <3>2
    <3> HIDE DEF x, y
    <3> QED BY <1>1, <2>2, <3>3
  <2>6. d.present = y
    <3>1. d \in ListData /\ d.present = Length(d, n)
      BY DEF WF, Total
    <3>2. Length(d, 0) = 0 /\ \A k \in 1 .. n : Length(d, k) = Length(d, k - 1) + s[k][2]
      BY <3>1, LengthFacts
    <3>3. Length(d, 1) = Length(d, 0) + s[1][2]
      <4>1. 1 \in 1 .. n /\ 1 - 1 = 0
        BY <2>4
      <4> QED BY ONLY <3>2, <4>1
    <3> QED BY <1>1, <2>2, <2>4, <3>1, <3>2, <3>3
  <2> QED BY <2>5, <2>6 DEF isComplete
<1>5. isComplete(d) => Chunks(d) = 0 .. ChunkCnt - 1
  BY CompleteIs
<1> QED BY <1>4, <1>5

\* One more chunk.
LEMMA AddChunkIs ==
  ASSUME NEW d, WF(d), NEW c \in Nat, c + 1 <= ChunkCnt
  PROVE  LET e == AddChunk(d, c) IN WF(e) /\ Chunks(e) = Chunks(d) \cup {c} /\ (Counted(d) => Counted(e))
<1>1. 1 \in Nat /\ 1 > 0 /\ c .. c + 1 - 1 = {c}
  OBVIOUS
<1> DEFINE one == 1
<1>2. one \in Nat /\ one > 0
  BY <1>1
<1>3. c + one <= ChunkCnt
  OBVIOUS
<1> HIDE DEF one
<1>4. LET e == AddChunkRange(d, c, one)
      IN  WF(e) /\ Chunks(e) = Chunks(d) \cup (c .. c + one - 1) /\ (Counted(d) => Counted(e))
  BY <1>2, <1>3, AddRange
<1> QED BY <1>1, <1>4 DEF AddChunk, one

\* A finite set as a sequence.
LEMMA SetAsSeq ==
  ASSUME NEW S, IsFiniteSet(S)
  PROVE  /\ Len(SetToSeq(S)) = Cardinality(S) /\ Cardinality(S) \in Nat
         /\ SetToSeq(S) \in [1 .. Cardinality(S) -> S]
         /\ {SetToSeq(S)[i] : i \in 1 .. Cardinality(S)} = S
<1> DEFINE n == Cardinality(S)
           Injections == {f \in [1 .. n -> S] : IsInjective(f)}
           f == SetToSeq(S)
           image == {f[i] : i \in 1 .. n}
<1>1. n \in Nat /\ ExistsBijection(1 .. n, S)
  BY FS_CardinalityType
<1>2. \E g \in [1 .. n -> S] : IsInjective(g)
  BY <1>1 DEF ExistsBijection, Bijection, Injection
<1>3. f \in [1 .. n -> S] /\ IsInjective(f)
  BY <1>2 DEF SetToSeq
<1> HIDE DEF f, n
<1>4. image \in SUBSET S
  BY <1>3
<1>5. f \in Bijection(1 .. n, image)
  <2>1. f \in [1 .. n -> image]
    BY <1>3
  <2> QED BY <1>3, <2>1 DEF Bijection, Injection, Surjection, IsInjective
<1>6. Cardinality(image) = n
  <2>1. ExistsBijection(1 .. n, image)
    BY <1>5 DEF ExistsBijection
  <2> HIDE DEF image
  <2> QED BY <1>1, <2>1, FS_CountingElements
<1>7. image = S
  <2> HIDE DEF image
  <2> QED BY <1>4, <1>6, FS_Subset DEF n
<1>8. Len(f) = n
  BY <1>1, <1>3
<1> QED BY <1>1, <1>3, <1>7, <1>8 DEF f, n

\* Adding chunks one by one.
LEMMA AddChunksIs ==
  ASSUME NEW d, WF(d), NEW S, IsFiniteSet(S), S \subseteq 0 .. ChunkCnt - 1
  PROVE  WF(AddChunks(d, SetToSeq(S))) /\ Chunks(AddChunks(d, SetToSeq(S))) = Chunks(d) \cup S
<1> DEFINE s == SetToSeq(S)
           n == Len(s)
           D == {e \in ListData : WF(e)}
           G == [x \in D \X (1 .. n) |-> AddChunk(x[1], s[x[2]])]
           added == CHOOSE f : f = [k \in 0 .. n |-> IF k = 0 THEN d ELSE AddChunk(f[k - 1], s[k])]
<1>1. n \in Nat /\ s \in [1 .. n -> S] /\ {s[i] : i \in 1 .. n} = S
  BY SetAsSeq
<1> HIDE DEF s, n
<1>2. \A k \in 1 .. n : s[k] \in Nat /\ s[k] + 1 <= ChunkCnt
  <2>1. \A c \in S : c \in Nat /\ c + 1 <= ChunkCnt
    BY ChunkCount
  <2> QED BY <1>1, <2>1
<1>3. ASSUME NEW e, WF(e), NEW k \in 1 .. n
      PROVE  WF(AddChunk(e, s[k])) /\ Chunks(AddChunk(e, s[k])) = Chunks(e) \cup {s[k]}
  BY <1>2, <1>3, AddChunkIs
<1>4. d \in D /\ G \in [D \X (1 .. n) -> D] /\ \A e \in D, k \in 1 .. n : G[<<e, k>>] = AddChunk(e, s[k])
  <2>1. \A e \in D, k \in 1 .. n : AddChunk(e, s[k]) \in D
    BY <1>3 DEF WF
  <2>2. d \in D
    BY DEF WF
  <2> HIDE DEF D
  <2> QED BY <2>1, <2>2
<1>5. PICK f : Loop(f, D, d, n, G)
  <2> HIDE DEF D, G, added
  <2> QED BY <1>1, <1>4, Recursion
<1>6. f = [k \in 0 .. n |-> IF k = 0 THEN d ELSE AddChunk(f[k - 1], s[k])]
  <2> HIDE DEF D, G, added
  <2>1. f \in [0 .. n -> D] /\ f[0] = d /\ \A k \in 1 .. n : f[k] = G[<<f[k - 1], k>>]
    BY <1>5 DEF Loop
  <2>2. ASSUME NEW k \in 1 .. n PROVE f[k] = AddChunk(f[k - 1], s[k])
    <3>1. f[k - 1] \in D
      BY <1>1, <2>1
    <3> QED BY <1>4, <2>1, <3>1
  <2>3. \A k \in 0 .. n : f[k] = IF k = 0 THEN d ELSE AddChunk(f[k - 1], s[k])
    BY <1>1, <2>1, <2>2
  <2>4. f = [k \in 0 .. n |-> f[k]]
    BY <2>1
  <2> QED BY <2>3, <2>4
<1>7. added = [k \in 0 .. n |-> IF k = 0 THEN d ELSE AddChunk(added[k - 1], s[k])]
  BY <1>6
<1>8. AddChunks(d, s) = added[n]
  BY DEF AddChunks, n
<1> HIDE DEF added
<1>9. added[0] = d /\ \A k \in 1 .. n : added[k] = AddChunk(added[k - 1], s[k])
  <2>1. 0 \in 0 .. n /\ \A k \in 1 .. n : k \in 0 .. n /\ k # 0
    BY <1>1
  <2> QED BY <1>7, <2>1
<1> DEFINE Done(k) == WF(added[k]) /\ Chunks(added[k]) = Chunks(d) \cup {s[i] : i \in 1 .. k}
           T == {k \in 0 .. n : Done(k)}
<1>10. 0 \in T
  BY <1>1, <1>9
<1>11. ASSUME NEW k \in 1 .. n, k - 1 \in T PROVE k \in T
  <2>1. WF(added[k - 1]) /\ Chunks(added[k - 1]) = Chunks(d) \cup {s[i] : i \in 1 .. k - 1} /\ k \in 0 .. n
    BY <1>1, <1>11
  <2>2. WF(added[k]) /\ Chunks(added[k]) = Chunks(added[k - 1]) \cup {s[k]}
    BY <1>3, <1>9, <2>1
  <2>3. 1 .. k = (1 .. k - 1) \cup {k}
    BY <1>1
  <2>4. {s[i] : i \in 1 .. k} = {s[i] : i \in 1 .. k - 1} \cup {s[k]}
    BY <2>3
  <2> QED BY <2>1, <2>2, <2>4
<1>12. Done(n)
  <2>1. 0 .. n \subseteq T
    <3> HIDE DEF T
    <3> QED BY <1>1, <1>10, <1>11, Induction
  <2> QED BY <1>1, <2>1
<1> QED BY <1>1, <1>8, <1>12 DEF s

\* GetChunkToRetrieve may choose exactly the chunks that are available, missing and not
\* being loaded: two negations, a merge and the count of chunks find them.
THEOREM ChunkToRetrieve ==
  ASSUME NEW d, WF(d), NEW available, WF(available),
         NEW loading, IsFiniteSet(loading), loading \subseteq 0 .. ChunkCnt - 1
  PROVE  GetChunkToRetrieve(d, available, loading) = Chunks(available) \ (Chunks(d) \cup loading)
<1> DEFINE All == 0 .. ChunkCnt - 1
           merged == Merge(GetNegative(available), d)
           known == AddChunks(merged, SetToSeq(loading))
           remaining == GetNegative(known)
<1>1. d \in ListData /\ Proper(d.ranges) /\ available \in ListData /\ Proper(available.ranges)
  BY DEF WF
<1>2. WF(merged) /\ Chunks(merged) = (All \ Chunks(available)) \cup Chunks(d)
  BY <1>1, NegativeIs, MergeIs
<1>3. WF(known) /\ Chunks(known) = Chunks(merged) \cup loading
  <2> HIDE DEF merged
  <2> QED BY <1>2, AddChunksIs
<1>4. WF(remaining) /\ Chunks(remaining) = All \ Chunks(known)
  <2> HIDE DEF known
  <2> QED BY <1>3, NegativeIs
<1>5. Chunks(remaining) = Chunks(available) \ (Chunks(d) \cup loading)
  <2>1. Chunks(available) \subseteq All
    BY <1>1, ChunksInFile
  <2> HIDE DEF merged, known, remaining
  <2> QED BY <1>2, <1>3, <1>4, <2>1
<1>6. {getPresentChunk(remaining, nr) : nr \in 0 .. remaining.present - 1} = Chunks(remaining)
  <2> HIDE DEF remaining
  <2>1. \A nr \in 0 .. remaining.present - 1 : getPresentChunk(remaining, nr) \in Chunks(remaining)
    BY <1>4, PresentChunk
  <2>2. \A c \in Chunks(remaining) : \E nr \in 0 .. remaining.present - 1 : getPresentChunk(remaining, nr) = c
    BY <1>4, EveryChunk
  <2> QED BY <2>1, <2>2
<1>7. GetChunkToRetrieve(d, available, loading)
        = IF isComplete(known) THEN {} ELSE {getPresentChunk(remaining, nr) : nr \in 0 .. remaining.present - 1}
  BY DEF GetChunkToRetrieve
<1>8. isComplete(known) => Chunks(remaining) = {}
  <2> HIDE DEF known, remaining
  <2> QED BY <1>3, <1>4, CompleteExactly
<1> HIDE DEF merged, known, remaining
<1> QED BY <1>5, <1>6, <1>7, <1>8

-----------------------------------------------------------------------------
(* The elements of sequences.                                              *)

LEMMA RangeOf ==
  ASSUME NEW S, NEW s \in Seq(S)
  PROVE  Range(s) = {s[i] : i \in 1 .. Len(s)} /\ Range(s) \subseteq S
<1>1. s \in [1 .. Len(s) -> S] /\ DOMAIN s = 1 .. Len(s)
  BY LenProperties
<1> QED BY <1>1 DEF Range

LEMMA RangeConcat ==
  ASSUME NEW S, NEW s \in Seq(S), NEW t \in Seq(S)
  PROVE  s \o t \in Seq(S) /\ Range(s \o t) = Range(s) \cup Range(t)
<1> DEFINE u == s \o t
<1>1. Len(s) \in Nat /\ Len(t) \in Nat
  BY LenProperties
<1>2. u \in Seq(S) /\ Len(u) = Len(s) + Len(t)
      /\ \A i \in 1 .. Len(s) + Len(t) : u[i] = IF i <= Len(s) THEN s[i] ELSE t[i - Len(s)]
  BY ConcatProperties
<1> HIDE DEF u
<1>3. ASSUME NEW x \in Range(u) PROVE x \in Range(s) \cup Range(t)
  <2>1. PICK i \in 1 .. Len(s) + Len(t) : x = u[i]
    BY <1>2, <1>3, RangeOf
  <2>2. CASE i <= Len(s)
    <3>1. i \in 1 .. Len(s) /\ x = s[i]
      BY <1>1, <1>2, <2>1, <2>2
    <3> QED BY <3>1, RangeOf
  <2>3. CASE ~(i <= Len(s))
    <3>1. i - Len(s) \in 1 .. Len(t) /\ x = t[i - Len(s)]
      BY <1>1, <1>2, <2>1, <2>3
    <3> QED BY <3>1, RangeOf
  <2> QED BY <2>2, <2>3
<1>4. ASSUME NEW x \in Range(s) PROVE x \in Range(u)
  <2>1. PICK i \in 1 .. Len(s) : x = s[i]
    BY <1>4, RangeOf
  <2>2. i \in 1 .. Len(u) /\ x = u[i]
    BY <1>1, <1>2, <2>1
  <2> QED BY <1>2, <2>2, RangeOf
<1>5. ASSUME NEW x \in Range(t) PROVE x \in Range(u)
  <2>1. PICK i \in 1 .. Len(t) : x = t[i]
    BY <1>5, RangeOf
  <2> DEFINE j == i + Len(s)
  <2>2. j \in 1 .. Len(s) + Len(t) /\ ~(j <= Len(s)) /\ j - Len(s) = i
    BY <1>1
  <2> HIDE DEF j
  <2>3. u[j] = t[j - Len(s)] /\ j \in 1 .. Len(u)
    BY <1>2, <2>2
  <2>4. x = u[j]
    BY <2>1, <2>2, <2>3
  <2>5. Range(u) = {u[k] : k \in 1 .. Len(u)}
    BY <1>2, RangeOf
  <2>6. j \in 1 .. Len(u) /\ x = u[j]
    BY <2>3, <2>4
  <2> QED BY <2>5, <2>6
<1>6. Range(u) = Range(s) \cup Range(t)
  BY <1>3, <1>4, <1>5
<1> QED BY <1>2, <1>6 DEF u

LEMMA RangeSmall ==
  ASSUME NEW S, NEW x \in S
  PROVE  <<>> \in Seq(S) /\ Range(<<>>) = {} /\ <<x>> \in Seq(S) /\ Range(<<x>>) = {x}
<1>1. <<>> \in Seq(S) /\ Len(<<>>) = 0 /\ <<x>> \in Seq(S) /\ Len(<<x>>) = 1 /\ <<x>>[1] = x
  OBVIOUS
<1>2. Range(<<>>) = {}
  BY <1>1 DEF Range
<1>3. Range(<<x>>) = {x}
  <2> DEFINE t == <<x>>
  <2>1. t \in Seq(S) /\ 1 .. Len(t) = {1} /\ t[1] = x
    BY <1>1
  <2> HIDE DEF t
  <2>2. Range(t) = {t[i] : i \in 1 .. Len(t)}
    BY <2>1, RangeOf
  <2>3. Range(t) = {x}
    BY <2>1, <2>2
  <2> QED BY <2>3 DEF t
<1> QED BY <1>1, <1>2, <1>3

LEMMA RangeAppend ==
  ASSUME NEW S, NEW s \in Seq(S), NEW x \in S
  PROVE  Append(s, x) \in Seq(S) /\ Range(Append(s, x)) = Range(s) \cup {x}
<1> DEFINE t == <<x>>
<1>1. t \in Seq(S) /\ Range(t) = {x}
  BY RangeSmall
<1>2. Append(s, x) = s \o t
  OBVIOUS
<1> HIDE DEF t
<1> QED BY <1>1, <1>2, RangeConcat

LEMMA RangeTail ==
  ASSUME NEW S, NEW s \in Seq(S), s # <<>>
  PROVE  Tail(s) \in Seq(S) /\ Head(s) \in S /\ Range(s) = Range(Tail(s)) \cup {Head(s)}
<1> DEFINE t == Tail(s)
<1>1. t \in Seq(S) /\ Head(s) \in S /\ Len(t) = Len(s) - 1 /\ \A i \in 1 .. Len(t) : t[i] = s[i + 1]
  BY HeadTailProperties
<1>2. Len(s) \in Nat /\ Len(s) # 0 /\ Head(s) = s[1]
  BY EmptySeq
<1> HIDE DEF t
<1>3. ASSUME NEW x \in Range(s) PROVE x \in Range(t) \cup {s[1]}
  <2>1. PICK i \in 1 .. Len(s) : x = s[i]
    BY <1>3, RangeOf
  <2>2. CASE i # 1
    <3>1. i - 1 \in 1 .. Len(t) /\ i - 1 + 1 = i
      BY <1>1, <1>2, <2>2
    <3>2. x = t[i - 1]
      BY <1>1, <2>1, <3>1
    <3> QED BY <1>1, <3>1, <3>2, RangeOf
  <2> QED BY <2>1, <2>2
<1>4. ASSUME NEW x \in Range(t) PROVE x \in Range(s)
  <2>1. PICK i \in 1 .. Len(t) : x = t[i]
    BY <1>1, <1>4, RangeOf
  <2>2. i + 1 \in 1 .. Len(s) /\ x = s[i + 1]
    BY <1>1, <1>2, <2>1
  <2> QED BY <2>2, RangeOf
<1>5. s[1] \in Range(s)
  <2>1. 1 \in 1 .. Len(s)
    BY <1>2
  <2> QED BY <2>1, RangeOf
<1>6. Range(s) = Range(t) \cup {Head(s)}
  BY <1>2, <1>3, <1>4, <1>5
<1> QED BY <1>1, <1>6 DEF t

-----------------------------------------------------------------------------
(* The state.                                                              *)

Lists        == {d \in ListData : WF(d)}
CountedLists == {d \in Lists : Counted(d)}
PackedLists  == {d \in ListData : /\ Proper(d.ranges) /\ Apart(d.ranges) /\ Len(d.ranges) <= ChunkCnt
                                   /\ d.present = 0 /\ Counted(d)}

PeerLists == UNION {[M -> CountedLists] : M \in SUBSET Computer}

Resource == [listed : BOOLEAN, removed : BOOLEAN, loading : BOOLEAN, dirty : BOOLEAN, discovering : BOOLEAN,
             chunks : Lists, peers : PeerLists, loads : SUBSET Load]

Message == [type : {"Dis"}] \cup [type : {"Req"}, chunk : AllChunks] \cup [type : {"Stat"}, chunks : PackedLists]

Data == [chunk : AllChunks, good : BOOLEAN]

\* Only what is in the list is loaded, dirty or removed; only a loader discovers;
\* and the ranges of a loader are counted.
Sound(r) == /\ r.loading \/ r.dirty \/ r.removed => r.listed
            /\ r.discovering => r.loading
            /\ Counted(r.chunks) \/ (r.chunks = SetComplete /\ ~r.loading)

\* The loads L besides the chunks d.
Separate(d, L) ==
    /\ \A l \in L : l.chunk \notin Chunks(d)
    /\ \A l, k \in L : l.chunk = k.chunk => l = k
    /\ Cardinality(L) < MaxLoad
    /\ \A m \in Computer : Cardinality({l \in L : l.by = m}) <= MaxLoadPerPeer

Types ==
    /\ res \in [Computer -> Resource]
    /\ file \in [Computer -> SUBSET AllChunks]
    /\ conn \in SUBSET SUBSET Computer /\ left \in SUBSET Computer
    /\ msg \in [Computer -> [Computer -> Seq(Message)]]
    /\ data \in [Computer -> [Computer -> Seq(Data)]]

IInv == Types /\ \A n \in Computer : Sound(res[n]) /\ Separate(res[n].chunks, res[n].loads)

-----------------------------------------------------------------------------
(* Loads and requests.                                                     *)

LEMMA FiniteLoads == IsFiniteSet(Load) /\ \A L \in SUBSET Load : IsFiniteSet(L) /\ Cardinality(L) \in Nat
<1> DEFINE f == [l \in Load |-> <<l.chunk, l.by>>]
           P == AllChunks \X Computer
<1>1. IsFiniteSet(AllChunks)
  <2>1. 0 \in Int /\ ChunkCnt - 1 \in Int
    BY ChunkCount
  <2> QED BY <2>1, FS_Interval DEF AllChunks
<1>2. IsFiniteSet(P)
  BY <1>1, Limits, FS_Product
<1>3. f \in Injection(Load, P)
  <2>1. f \in [Load -> P]
    BY DEF Load
  <2>2. ASSUME NEW l \in Load, NEW k \in Load, f[l] = f[k] PROVE l = k
    BY <2>2 DEF Load
  <2> QED BY <2>1, <2>2 DEF Injection, IsInjective
<1>4. IsFiniteSet(Load)
  <2> HIDE DEF f, P
  <2> QED BY <1>2, <1>3, FS_Injection
<1>5. \A L \in SUBSET Load : IsFiniteSet(L)
  BY <1>4, FS_Subset
<1> QED BY <1>4, <1>5, FS_CardinalityType

\* Fewer loads are separate, too.
LEMMA SeparateSubset ==
  ASSUME NEW d, NEW L \in SUBSET Load, NEW K \in SUBSET L, Separate(d, L)
  PROVE  Separate(d, K)
<1>1. \A M \in SUBSET Load : IsFiniteSet(M) /\ Cardinality(M) \in Nat
  BY FiniteLoads
<1>2. Cardinality(K) < MaxLoad
  <2>1. Cardinality(K) <= Cardinality(L) /\ Cardinality(K) \in Nat /\ Cardinality(L) \in Nat /\ Cardinality(L) < MaxLoad
    BY <1>1, FS_Subset DEF Separate
  <2> QED BY <2>1, Limits
<1>3. ASSUME NEW m \in Computer PROVE Cardinality({l \in K : l.by = m}) <= MaxLoadPerPeer
  <2> DEFINE A == {l \in K : l.by = m}
             B == {l \in L : l.by = m}
  <2>1. A \in SUBSET B /\ A \in SUBSET Load /\ B \in SUBSET Load
    OBVIOUS
  <2>2. Cardinality(B) <= MaxLoadPerPeer
    BY DEF Separate
  <2> HIDE DEF A, B
  <2>3. Cardinality(A) <= Cardinality(B) /\ Cardinality(A) \in Nat /\ Cardinality(B) \in Nat
    BY <1>1, <2>1, FS_Subset
  <2>4. Cardinality(A) <= MaxLoadPerPeer
    BY <2>2, <2>3, Limits
  <2> QED BY <2>4 DEF A
<1> QED BY <1>2, <1>3 DEF Separate

\* The loads StartLoad may add, one at a time, are new and what the client has, and
\* leave the loads separate.
LEMMA StartLoadIs ==
  ASSUME NEW r \in Resource, NEW n \in Computer, NEW m \in DOMAIN r.peers, NEW l \in StartLoad(r, n, m), Separate(r.chunks, r.loads)
  PROVE  /\ l \in Load /\ l.by = m /\ l.chunk \in Chunks(r.peers[m])
         /\ Separate(r.chunks, r.loads \cup {l})
<1> DEFINE d == r.chunks
           L == r.loads
           loading == {k.chunk : k \in L}
           av == r.peers[m]
<1>1. L \in SUBSET Load /\ IsFiniteSet(L) /\ Cardinality(L) \in Nat /\ WF(d) /\ m \in Computer /\ WF(av)
  <2>1. L \in SUBSET Load /\ d \in Lists /\ r.peers \in PeerLists
    BY DEF Resource
  <2>2. PICK M \in SUBSET Computer : r.peers \in [M -> CountedLists]
    BY <2>1 DEF PeerLists
  <2> QED BY <2>1, <2>2, FiniteLoads DEF Lists, CountedLists
<1>2. IsFiniteSet(loading) /\ loading \subseteq 0 .. ChunkCnt - 1
  <2> DEFINE f == [k \in L |-> k.chunk]
  <2>1. f \in Surjection(L, loading)
    BY DEF Surjection
  <2>2. IsFiniteSet(loading)
    <3> HIDE DEF f, L, loading
    <3> QED BY <1>1, <2>1, FS_Surjection
  <2>3. loading \subseteq 0 .. ChunkCnt - 1
    BY <1>1 DEF Load, AllChunks
  <2> QED BY <2>2, <2>3
<1>3. /\ ~(Cardinality(L) + 1 >= MaxLoad) /\ ~(Cardinality({k \in L : k.by = m}) >= MaxLoadPerPeer)
      /\ l \in {[chunk |-> c, by |-> m] : c \in GetChunkToRetrieve(d, av, loading)}
  BY DEF StartLoad
<1>4. PICK c \in GetChunkToRetrieve(d, av, loading) : l = [chunk |-> c, by |-> m]
  BY <1>3
<1>5. c \in Chunks(av) /\ c \notin Chunks(d) /\ c \notin loading
  <2> HIDE DEF loading, d, av
  <2>1. GetChunkToRetrieve(d, av, loading) \subseteq Chunks(av) \ (Chunks(d) \cup loading)
    BY <1>1, <1>2, ChunkToRetrieve
  <2> QED BY <1>4, <2>1
<1>6. Chunks(av) \subseteq AllChunks
  BY <1>1, ChunksInFile DEF WF, AllChunks
<1>7. l \in Load /\ l.by = m /\ l.chunk = c
  BY <1>1, <1>4, <1>5, <1>6 DEF Load
<1>8. Separate(d, L \cup {l})
  <2>1. \A k \in L \cup {l} : k.chunk \notin Chunks(d)
    BY <1>5, <1>7 DEF Separate
  <2>2. \A k, o \in L \cup {l} : k.chunk = o.chunk => k = o
    BY <1>5, <1>7 DEF Separate
  <2>3. Cardinality(L \cup {l}) < MaxLoad
    <3>1. Cardinality(L \cup {l}) = IF l \in L THEN Cardinality(L) ELSE Cardinality(L) + 1
      BY <1>1, FS_AddElement
    <3> HIDE DEF L
    <3> QED BY <1>1, <1>3, <3>1, Limits
  <2>4. ASSUME NEW o \in Computer PROVE Cardinality({k \in L \cup {l} : k.by = o}) <= MaxLoadPerPeer
    <3> DEFINE A == {k \in L : k.by = o}
    <3>1. A \in SUBSET Load /\ IsFiniteSet(A) /\ Cardinality(A) \in Nat /\ Cardinality(A) <= MaxLoadPerPeer
      BY <1>1, FiniteLoads DEF Separate
    <3>2. CASE o # m
      <4>1. {k \in L \cup {l} : k.by = o} = A
        BY <1>7, <3>2
      <4> QED BY <3>1, <4>1
    <3>3. CASE o = m
      <4>1. {k \in L \cup {l} : k.by = o} = A \cup {l}
        BY <1>7, <3>3
      <4>2. ~(Cardinality(A) >= MaxLoadPerPeer)
        BY <1>3, <3>3
      <4> HIDE DEF A
      <4>3. Cardinality(A \cup {l}) = IF l \in A THEN Cardinality(A) ELSE Cardinality(A) + 1
        BY <3>1, FS_AddElement
      <4>4. Cardinality(A \cup {l}) <= MaxLoadPerPeer
        BY <3>1, <4>2, <4>3, Limits
      <4> QED BY <4>1, <4>4
    <3> QED BY <3>2, <3>3
  <2> QED BY <2>1, <2>2, <2>3, <2>4 DEF Separate
<1> QED BY <1>5, <1>7, <1>8

\* What a computer may load besides what it loads already.
Extended(r, L) ==
    /\ L \in SUBSET Load /\ r.loads \subseteq L /\ Separate(r.chunks, L)
    /\ \A l \in L \ r.loads : l.by \in DOMAIN r.peers /\ l.chunk \in Chunks(r.peers[l.by])

\* The clients of a resource.
LEMMA PeersAre ==
  ASSUME NEW r \in Resource
  PROVE  /\ DOMAIN r.peers \subseteq Computer /\ IsFiniteSet(DOMAIN r.peers) /\ Cardinality(DOMAIN r.peers) \in Nat
         /\ r.peers \in [DOMAIN r.peers -> CountedLists]
<1>1. r.peers \in PeerLists
  BY DEF Resource
<1>2. PICK M \in SUBSET Computer : r.peers \in [M -> CountedLists]
  BY <1>1 DEF PeerLists
<1>3. DOMAIN r.peers = M /\ IsFiniteSet(M)
  BY <1>2, Limits, FS_Subset
<1> QED BY <1>2, <1>3, FS_CardinalityType

LEMMA StartNewLoadsAre ==
  ASSUME NEW r \in Resource, NEW n \in Computer, Separate(r.chunks, r.loads), NEW new \in StartNewLoads(r, n)
  PROVE  Extended(r, new)
<1> DEFINE P == DOMAIN r.peers
           Good == {L \in SUBSET Load : Extended(r, L)}
           D == SUBSET (Good \X Seq(P))
           calls == MaxLoad + Cardinality(P)
           Call(L, order) ==
             LET more == StartLoad([r EXCEPT !.loads = L], n, Head(order))
             IN  IF order = <<>> THEN {<<L, order>>}
                 ELSE IF more = {} THEN {<<L, Tail(order)>>} ELSE {<<L \cup {l}, order>> : l \in more}
           First == {<<r.loads, order>> : order \in SetToSeqs(P)}
           Calls(A) == UNION {Call(a[1], a[2]) : a \in A}
           G == [x \in D \X (1 .. calls) |-> Calls(x[1])]
           after == CHOOSE f : f = [k \in 0 .. calls |-> IF k = 0 THEN First ELSE Calls(f[k - 1])]
<1>1. calls \in Nat /\ P \subseteq Computer /\ Cardinality(P) \in Nat
  <2>1. Cardinality(P) \in Nat /\ P \subseteq Computer
    BY PeersAre
  <2> HIDE DEF P
  <2> QED BY <2>1, Limits
<1>2. ASSUME NEW L \in Good, NEW order \in Seq(P) PROVE Call(L, order) \subseteq Good \X Seq(P)
  <2> DEFINE more == StartLoad([r EXCEPT !.loads = L], n, Head(order))
  <2>1. CASE order = <<>>
    <3>1. Call(L, order) = {<<L, order>>}
      BY <2>1
    <3> HIDE DEF Call, Good, P
    <3> QED BY <3>1
  <2>2. CASE order # <<>>
    <3>1. Head(order) \in P /\ Tail(order) \in Seq(P)
      <4> HIDE DEF P
      <4> QED BY <2>2, HeadTailProperties
    <3>2. ASSUME NEW l \in more PROVE L \cup {l} \in Good
      <4> DEFINE q == [r EXCEPT !.loads = L]
                 m == Head(order)
      <4>1. q \in Resource /\ q.chunks = r.chunks /\ q.loads = L /\ q.peers = r.peers
        BY DEF Resource
      <4>2. m \in DOMAIN q.peers /\ l \in StartLoad(q, n, m) /\ Separate(q.chunks, q.loads)
        BY <3>1, <3>2, <4>1 DEF Extended
      <4> HIDE DEF q, m, more
      <4>3. l \in Load /\ l.by = m /\ l.chunk \in Chunks(q.peers[m]) /\ Separate(q.chunks, q.loads \cup {l})
        BY <4>1, <4>2, StartLoadIs
      <4> QED BY <4>1, <4>2, <4>3 DEF Extended
    <3> HIDE DEF more
    <3>3. more = {} => Call(L, order) = {<<L, Tail(order)>>}
      BY <2>2 DEF more
    <3>4. more # {} => Call(L, order) = {<<L \cup {l}, order>> : l \in more}
      BY <2>2 DEF more
    <3> HIDE DEF Call, Good, P
    <3>5. CASE more = {}
      BY <3>1, <3>3, <3>5, SMTT(30)
    <3>6. CASE more # {}
      BY <3>2, <3>4, <3>6
    <3> QED BY <3>5, <3>6
  <2> QED BY <2>1, <2>2
<1>3. First \in D
  <2>1. r.loads \in Good
    BY DEF Extended, Resource
  <2>2. ASSUME NEW order \in SetToSeqs(P) PROVE order \in Seq(P)
    <3>1. order \in [1 .. Cardinality(P) -> P]
      BY DEF SetToSeqs
    <3> HIDE DEF P
    <3> QED BY <1>1, <3>1, SeqDef
  <2> HIDE DEF Good, P
  <2> QED BY <2>1, <2>2
<1>4. ASSUME NEW A \in D PROVE Calls(A) \in D
  <2> HIDE DEF Good, Call, P
  <2> QED BY <1>2
<1>5. G \in [D \X (1 .. calls) -> D] /\ \A A \in D, k \in 1 .. calls : G[<<A, k>>] = Calls(A)
  <2> HIDE DEF D, Calls
  <2> QED BY <1>4
<1>6. PICK f : Loop(f, D, First, calls, G)
  <2> HIDE DEF D, G, First, calls
  <2> QED BY <1>1, <1>3, <1>5, Recursion
<1>7. f = [k \in 0 .. calls |-> IF k = 0 THEN First ELSE Calls(f[k - 1])]
  <2> HIDE DEF D, G, First, calls, Calls
  <2>1. f \in [0 .. calls -> D] /\ f[0] = First /\ \A k \in 1 .. calls : f[k] = G[<<f[k - 1], k>>]
    BY <1>6 DEF Loop
  <2>2. ASSUME NEW k \in 1 .. calls PROVE f[k] = Calls(f[k - 1])
    <3>1. f[k - 1] \in D
      BY <1>1, <2>1
    <3> QED BY <1>5, <2>1, <3>1
  <2>3. \A k \in 0 .. calls : f[k] = IF k = 0 THEN First ELSE Calls(f[k - 1])
    BY <1>1, <2>1, <2>2
  <2>4. f = [k \in 0 .. calls |-> f[k]]
    BY <2>1
  <2> QED BY <2>3, <2>4
<1>8. after = [k \in 0 .. calls |-> IF k = 0 THEN First ELSE Calls(after[k - 1])]
  BY <1>7
<1>9. StartNewLoads(r, n) = {a[1] : a \in {b \in after[calls] : b[2] = <<>>}}
  BY DEF StartNewLoads
<1> HIDE DEF after, calls, First, D, Calls
<1>10. after[0] = First /\ \A k \in 1 .. calls : after[k] = Calls(after[k - 1])
  <2>1. 0 \in 0 .. calls /\ \A k \in 1 .. calls : k \in 0 .. calls /\ k # 0
    BY <1>1
  <2> QED BY <1>8, <2>1
<1> DEFINE T == {k \in 0 .. calls : after[k] \in D}
<1>11. 0 \in T
  BY <1>1, <1>3, <1>10
<1>12. ASSUME NEW k \in 1 .. calls, k - 1 \in T PROVE k \in T
  BY <1>1, <1>4, <1>10, <1>12
<1>13. 0 .. calls \subseteq T
  <2> HIDE DEF T
  <2> QED BY <1>1, <1>11, <1>12, Induction
<1>14. after[calls] \in D
  BY <1>1, <1>13
<1>15. new \in Good
  <2> HIDE DEF Good, P
  <2> QED BY <1>9, <1>14 DEF D
<1> QED BY <1>15

-----------------------------------------------------------------------------
(* What is sent.                                                           *)

Channels == [Computer -> [Computer -> Seq(Message)]]

\* Requests for loads of L.
RequestsFor(out, L) == /\ out \in [Computer -> Seq(Message)]
                /\ \A m \in Computer : \A p \in Range(out[m]) : \E l \in L : l.by = m /\ p = Request(l.chunk)

\* The channels c after n has sent out.
Sent(c, n, out) == /\ c \in Channels
                   /\ \A k, m \in Computer : Range(c[k][m]) =
                        IF k = n THEN Range(msg[n][m]) \cup Range(out[m]) ELSE Range(msg[k][m])
                   /\ \A k, m \in Computer : msg[k][m] # <<>> => c[k][m] # <<>> /\ Head(c[k][m]) = Head(msg[k][m])

LEMMA RequestsAre ==
  ASSUME NEW old, NEW new \in SUBSET Load
  PROVE  RequestsFor(Requests(old, new), new \ old)
<1> SUFFICES ASSUME NEW m \in Computer
             PROVE  /\ Requests(old, new)[m] \in Seq(Message)
                    /\ \A p \in Range(Requests(old, new)[m]) : \E l \in new \ old : l.by = m /\ p = Request(l.chunk)
  BY DEF Requests, RequestsFor
<1> DEFINE S == {l \in new \ old : l.by = m}
           c == Cardinality(S)
           s == SetToSeq(S)
           t == [i \in 1 .. c |-> Request(s[i].chunk)]
<1>1. Requests(old, new)[m] = t
  BY DEF Requests
<1>2. c \in Nat /\ s \in [1 .. c -> S]
  <2>1. S \in SUBSET Load /\ IsFiniteSet(S)
    BY FiniteLoads
  <2> HIDE DEF S
  <2> QED BY <2>1, SetAsSeq
<1> HIDE DEF s, c
<1>3. ASSUME NEW i \in 1 .. c PROVE t[i] \in Message /\ s[i] \in S /\ t[i] = Request(s[i].chunk)
  <2>1. s[i] \in S
    BY <1>2
  <2>2. s[i].chunk \in AllChunks
    BY <2>1 DEF Load
  <2> QED BY <2>1, <2>2 DEF Request, Message
<1>4. t \in Seq(Message) /\ Len(t) = c
  <2>1. t \in [1 .. c -> Message]
    BY <1>3
  <2> HIDE DEF t
  <2> QED BY <1>2, <2>1, SeqDef, LenProperties
<1> HIDE DEF t
<1>5. Range(t) = {t[i] : i \in 1 .. c}
  BY <1>4, RangeOf
<1>6. ASSUME NEW p \in Range(t) PROVE \E l \in new \ old : l.by = m /\ p = Request(l.chunk)
  <2>1. PICK i \in 1 .. c : p = t[i]
    BY <1>5
  <2> QED BY <1>3, <2>1
<1> QED BY <1>1, <1>4, <1>6

\* The beginning of what is on its way stays the same.
LEMMA HeadConcat ==
  ASSUME NEW S, NEW s \in Seq(S), NEW t \in Seq(S), s # <<>>
  PROVE  s \o t # <<>> /\ Head(s \o t) = Head(s)
<1> DEFINE u == s \o t
<1>1. Len(s) \in Nat /\ Len(s) # 0 /\ Len(t) \in Nat
  BY LenProperties, EmptySeq
<1>2. u \in Seq(S) /\ Len(u) = Len(s) + Len(t)
      /\ \A i \in 1 .. Len(s) + Len(t) : u[i] = IF i <= Len(s) THEN s[i] ELSE t[i - Len(s)]
  BY ConcatProperties
<1> HIDE DEF u
<1>3. 1 \in 1 .. Len(s) + Len(t) /\ 1 <= Len(s)
  BY <1>1
<1>4. u # <<>>
  BY <1>1, <1>2, EmptySeq
<1>5. u[1] = s[1]
  BY <1>2, <1>3
<1>6. Head(u) = u[1] /\ Head(s) = s[1]
  BY <1>2, <1>4, HeadTailProperties
<1> QED BY <1>4, <1>5, <1>6 DEF u

\* The messages come behind those that are on their way.
LEMMA SendAllIs ==
  ASSUME msg \in Channels, NEW n \in Computer, NEW out \in [Computer -> Seq(Message)]
  PROVE  Sent(SendAll(n, out), n, out)
<1> DEFINE row == [m \in Computer |-> msg[n][m] \o out[m]]
<1>1. SendAll(n, out) = [msg EXCEPT ![n] = row]
  BY DEF SendAll
<1>2. ASSUME NEW m \in Computer
      PROVE  /\ row[m] \in Seq(Message) /\ Range(row[m]) = Range(msg[n][m]) \cup Range(out[m])
             /\ msg[n][m] # <<>> => row[m] # <<>> /\ Head(row[m]) = Head(msg[n][m])
  <2>1. msg[n][m] \in Seq(Message) /\ out[m] \in Seq(Message)
    BY DEF Channels
  <2> QED BY <2>1, RangeConcat, HeadConcat
<1>3. row \in [Computer -> Seq(Message)]
  BY <1>2
<1> HIDE DEF row
<1> QED BY <1>1, <1>2, <1>3 DEF Channels, Sent

\* What is packed is what the computer has.
LEMMA StatusIs ==
  ASSUME NEW r \in Resource
  PROVE  /\ Status(r) \in Message /\ Status(r).type = "Stat"
         /\ Chunks(Status(r).chunks) = Chunks(r.chunks)
<1>1. WF(r.chunks) /\ r.chunks \in ListData /\ Proper(r.chunks.ranges)
  BY DEF Resource, Lists, WF
<1>2. WF(Copy(r.chunks)) /\ Counted(Copy(r.chunks)) /\ Chunks(Copy(r.chunks)) = Chunks(r.chunks)
  BY <1>1, CopyIs
<1>3. Packed(Copy(r.chunks)) \in PackedLists /\ Chunks(Packed(Copy(r.chunks))) = Chunks(r.chunks)
  <2> DEFINE d == Copy(r.chunks)
  <2>1. Proper(d.ranges) /\ Apart(d.ranges) /\ Len(d.ranges) <= ChunkCnt
    <3>1. Len(d.ranges) \in 0 .. ChunkCnt
      BY <1>2, CompleteIs
    <3>2. Len(d.ranges) <= ChunkCnt
      BY <3>1
    <3> QED BY <1>2, <3>2 DEF WF
  <2>2. /\ Packed(d) \in ListData /\ Packed(d).ranges = d.ranges /\ Chunks(Packed(d)) = Chunks(d)
        /\ Packed(d).present = 0 /\ Packed(d).rangeCnt = Len(d.ranges)
    BY <1>2, PackedIs
  <2> HIDE DEF d
  <2>3. Packed(d) \in PackedLists
    BY <2>1, <2>2 DEF PackedLists, Counted
  <2> QED BY <1>2, <2>2, <2>3 DEF d
<1> QED BY <1>3 DEF Status, Message

\* The clients after m has told that it has the chunks d.
AfterStatus(peers, old, m, d) ==
    /\ peers \in PeerLists /\ DOMAIN peers = DOMAIN old \cup {m}
    /\ \A k \in DOMAIN old \cup {m} : peers[k] = IF k = m THEN Copy(d) ELSE old[k]
    /\ Chunks(Copy(d)) = Chunks(d)

LEMMA LearnedIs ==
  ASSUME NEW r \in Resource, NEW m \in Computer, NEW d \in PackedLists
  PROVE  AfterStatus(Learned(r.peers, m, d), r.peers, m, d)
<1>1. Copy(d) \in CountedLists /\ Chunks(Copy(d)) = Chunks(d)
  <2>1. WF(Copy(d)) /\ Counted(Copy(d)) /\ Chunks(Copy(d)) = Chunks(d)
    BY CopyIs DEF PackedLists
  <2> QED BY <2>1 DEF CountedLists, Lists, WF
<1>2. r.peers \in [DOMAIN r.peers -> CountedLists] /\ DOMAIN r.peers \cup {m} \in SUBSET Computer
  BY PeersAre
<1>3. Learned(r.peers, m, d) \in [DOMAIN r.peers \cup {m} -> CountedLists]
  BY <1>1, <1>2 DEF Learned
<1> QED BY <1>1, <1>2, <1>3 DEF Learned, PeerLists, AfterStatus

\* The channels c after the oldest message, or chunk, of C from m has arrived at n.
Received(C, c, S, n, m) ==
    /\ c \in [Computer -> [Computer -> Seq(S)]]
    /\ Head(C[m][n]) \in S /\ Head(C[m][n]) \in Range(C[m][n])
    /\ \A k, o \in Computer :
         /\ Range(c[k][o]) \subseteq Range(C[k][o])
         /\ Range(C[k][o]) \subseteq Range(c[k][o]) \cup (IF k = m /\ o = n THEN {Head(C[m][n])} ELSE {})

LEMMA ReceiveIs ==
  ASSUME NEW S, NEW C \in [Computer -> [Computer -> Seq(S)]],
         NEW n \in Computer, NEW m \in Computer, C[m][n] # <<>>
  PROVE  Received(C, [C EXCEPT ![m][n] = Tail(@)], S, n, m)
<1> DEFINE s == C[m][n]
           t == Tail(s)
           c == [C EXCEPT ![m][n] = Tail(@)]
<1>1. t \in Seq(S) /\ Head(s) \in S /\ Range(s) = Range(t) \cup {Head(s)}
  <2>1. s \in Seq(S) /\ s # <<>>
    OBVIOUS
  <2> HIDE DEF s
  <2> QED BY <2>1, RangeTail
<1>2. c = [C EXCEPT ![m][n] = t]
  OBVIOUS
<1> HIDE DEF t
<1>3. c \in [Computer -> [Computer -> Seq(S)]] /\ \A k, o \in Computer : c[k][o] = IF k = m /\ o = n THEN t ELSE C[k][o]
  BY <1>1, <1>2
<1> HIDE DEF c
<1>4. ASSUME NEW k \in Computer, NEW o \in Computer
      PROVE  /\ Range(c[k][o]) \subseteq Range(C[k][o])
             /\ Range(C[k][o]) \subseteq Range(c[k][o]) \cup (IF k = m /\ o = n THEN {Head(s)} ELSE {})
  BY <1>1, <1>3
<1> QED BY <1>1, <1>3, <1>4 DEF c, Received

-----------------------------------------------------------------------------
(* What a step may do, as far as the properties depend on it.              *)

\* What a computer whose resource is r may send to m.
Says(r, m) ==
    {Discover}
    \cup {p \in Message : p.type = "Req" /\ m \in DOMAIN r.peers /\ p.chunk \in Chunks(r.peers[m])}
    \cup {p \in Message : p.type = "Stat" /\ r.listed /\ Chunks(p.chunks) = Chunks(r.chunks)}

MessagesStep == \A n, m \in Computer : Range(msg'[n][m]) \subseteq Range(msg[n][m]) \cup Says(res'[n], m)

DataStep ==
    \A n, m \in Computer : \A d \in Range(data'[n][m]) :
        \/ d \in Range(data[n][m])
        \/ res[n].listed /\ (d.chunk \in file[n] => d.good) /\ Request(d.chunk) \in Range(msg[m][n])

PeersStep ==
    \A n \in Computer : \A m \in DOMAIN res'[n].peers :
        \/ m \in DOMAIN res[n].peers /\ res'[n].peers[m] = res[n].peers[m]
        \/ \E p \in Range(msg[m][n]) : p.type = "Stat" /\ Chunks(res'[n].peers[m]) = Chunks(p.chunks)

\* A chunk arrives for n.
Written(n, d) ==
    /\ res[n].listed /\ res[n].loading /\ res'[n].listed
    /\ file'[n] = IF d.good THEN file[n] \cup {d.chunk} ELSE file[n] \ {d.chunk}
    /\ Chunks(res'[n].chunks) = Chunks(res[n].chunks) \cup {d.chunk}
    /\ ~res'[n].loading => Chunks(res'[n].chunks) = AllChunks

FileStep ==
    \A n \in Computer :
        \/ /\ file'[n] = file[n] /\ res'[n].chunks = res[n].chunks
           /\ res'[n].listed = res[n].listed /\ res'[n].loading = res[n].loading
        \/ ~res[n].listed /\ n \notin left /\ file'[n] = {} /\ res'[n] = SetLoad
        \/ res[n].removed /\ file'[n] = {} /\ res'[n] = Unlisted
        \/ \E m \in Computer : \E d \in Range(data[m][n]) : Written(n, d)

Stat(s) == \E p \in Range(s) : p.type = "Stat"

\* A message stays, or it arrives and does what it should.
KeptStep ==
    \A n, m \in Computer : {n, m} \in conn \cap conn' => \A p \in Range(msg[n][m]) :
        \/ p \in Range(msg'[n][m]) \/ p.type = "Req"
        \/ p.type = "Dis" /\ (res[m].listed => Stat(msg'[m][n]))
        \/ p.type = "Stat" /\ (res[m].loading => ~res'[m].discovering)

DiscoverStep ==
    \A n \in Computer : Announced /\ res'[n].discovering /\ ~res'[n].removed => \A m \in Others(n) :
        {n, m} \in conn' => \/ res[n].discovering /\ ~res[n].removed /\ {n, m} \in conn
                            \/ Discover \in Range(msg'[n][m])

SourceStep ==
    \A n \in Computer :
        /\ res'[n].loading => res[n].loading \/ (~res[n].listed /\ n \notin left)
        /\ res'[n].removed \/ ~res'[n].listed => res[n].removed \/ ~res[n].listed \/ res[n].loading \/ n \in left'
        /\ ~res[n].removed /\ res'[n].removed => n \in left' \/ MayGiveUp(n)

Effect == /\ MessagesStep /\ DataStep /\ PeersStep /\ FileStep /\ left \subseteq left'
          /\ KeptStep /\ DiscoverStep /\ SourceStep

\* One resource changes.
LEMMA OneChanges ==
  ASSUME IInv, NEW n \in Computer, NEW q \in Resource, Sound(q), Separate(q.chunks, q.loads),
         res' = [res EXCEPT ![n] = q]
  PROVE  /\ res' \in [Computer -> Resource] /\ res'[n] = q /\ \A k \in Computer \ {n} : res'[k] = res[k]
         /\ \A k \in Computer : Sound(res'[k]) /\ Separate(res'[k].chunks, res'[k].loads)
<1>1. res \in [Computer -> Resource] /\ \A k \in Computer : Sound(res[k]) /\ Separate(res[k].chunks, res[k].loads)
  BY DEF IInv, Types
<1>2. res' \in [Computer -> Resource] /\ res'[n] = q /\ \A k \in Computer \ {n} : res'[k] = res[k]
  BY <1>1
<1> QED BY <1>1, <1>2

\* An empty list of loads is separate.
LEMMA NoLoads == \A d : Separate(d, {})
<1>1. Cardinality({}) = 0
  BY FS_EmptySet
<1>2. \A m \in Computer : {l \in {} : l.by = m} = {}
  OBVIOUS
<1>3. 0 < MaxLoad /\ 0 <= MaxLoadPerPeer
  BY Limits
<1> QED BY <1>1, <1>2, <1>3 DEF Separate

\* The states without loads.
LEMMA Resting ==
  /\ {Unlisted, SetLoad, Complete} \subseteq Resource
  /\ Sound(Unlisted) /\ Sound(SetLoad) /\ Sound(Complete)
  /\ Unlisted.loads = {} /\ SetLoad.loads = {} /\ Complete.loads = {}
<1>1. SetIncomplete \in Lists /\ Counted(SetIncomplete) /\ SetComplete \in Lists
  BY EmptyList, FullList DEF Lists, WF
<1>2. NoClient \in PeerLists
  <2>1. {} \in SUBSET Computer /\ NoClient \in [{} -> CountedLists]
    BY DEF NoClient
  <2> QED BY <2>1 DEF PeerLists
<1>3. Fresh \in BOOLEAN
  BY Limits
<1> HIDE DEF NoClient
<1>4. Unlisted \in Resource /\ SetLoad \in Resource /\ Complete \in Resource
  BY <1>1, <1>2, <1>3 DEF Unlisted, SetLoad, Complete, Resource
<1> QED BY <1>1, <1>4 DEF Unlisted, SetLoad, Complete, Sound

-----------------------------------------------------------------------------
(* The steps.                                                              *)

LEMMA InitInv == Init => IInv
<1> SUFFICES ASSUME Init PROVE IInv
  OBVIOUS
<1>1. \A n \in Computer : res[n] \in {Complete, Unlisted}
  BY DEF Init
<1>2. res \in [Computer -> Resource]
  BY <1>1, Resting DEF Init
<1>3. \A n \in Computer : Sound(res[n]) /\ Separate(res[n].chunks, res[n].loads)
  BY <1>1, Resting, NoLoads
<1>4. <<>> \in Seq(Message) /\ <<>> \in Seq(Data)
  OBVIOUS
<1>5. Types
  BY <1>2, <1>4, Limits DEF Init, Types, Nothing
<1> QED BY <1>3, <1>5 DEF IInv

LEMMA AddByCoreStep ==
  ASSUME IInv, NEW n \in Computer, AddByCore(n)
  PROVE  IInv' /\ Effect
<1>1. /\ ~res[n].listed /\ n \notin left /\ res' = [res EXCEPT ![n] = SetLoad] /\ file' = [file EXCEPT ![n] = {}]
      /\ conn' = conn /\ msg' = msg /\ data' = data /\ left' = left
  BY DEF AddByCore
<1>2. /\ res' \in [Computer -> Resource] /\ res'[n] = SetLoad /\ \A k \in Computer \ {n} : res'[k] = res[k]
      /\ \A k \in Computer : Sound(res'[k]) /\ Separate(res'[k].chunks, res'[k].loads)
  BY <1>1, Resting, NoLoads, OneChanges
<1>3. file' \in [Computer -> SUBSET AllChunks] /\ file'[n] = {} /\ \A k \in Computer \ {n} : file'[k] = file[k]
  BY <1>1 DEF IInv, Types
<1>4. IInv'
  BY <1>1, <1>2, <1>3 DEF IInv, Types
<1>5. SetLoad.discovering = FALSE /\ SetLoad.removed = FALSE /\ SetLoad.peers = NoClient /\ SetLoad.listed = TRUE
  BY DEF SetLoad, Unlisted
<1>6. MessagesStep /\ DataStep
  BY <1>1 DEF MessagesStep, DataStep
<1>7. PeersStep
  BY <1>2, <1>5 DEF PeersStep, NoClient
<1>8. FileStep
  BY <1>1, <1>2, <1>3 DEF FileStep
<1>9. KeptStep /\ DiscoverStep /\ SourceStep
  BY <1>1, <1>2, <1>5 DEF KeptStep, DiscoverStep, SourceStep
<1> QED BY <1>1, <1>4, <1>6, <1>7, <1>8, <1>9 DEF Effect

LEMMA RemoveAtClientStep ==
  ASSUME IInv, NEW n \in Computer, RemoveAtClient(n)
  PROVE  IInv' /\ Effect
<1> DEFINE q == [res[n] EXCEPT !.removed = res[n].listed]
<1>1. /\ left' = left \cup {n} /\ res' = [res EXCEPT ![n] = q]
      /\ file' = file /\ conn' = conn /\ msg' = msg /\ data' = data
  BY DEF RemoveAtClient
<1>2. res[n] \in Resource /\ Sound(res[n]) /\ Separate(res[n].chunks, res[n].loads)
  BY DEF IInv, Types
<1>3. /\ q \in Resource /\ q.listed = res[n].listed /\ q.chunks = res[n].chunks /\ q.loads = res[n].loads
      /\ q.loading = res[n].loading /\ q.peers = res[n].peers /\ q.discovering = res[n].discovering
      /\ q.dirty = res[n].dirty /\ q.removed = res[n].listed
  BY <1>2 DEF Resource
<1>4. Sound(q) /\ Separate(q.chunks, q.loads)
  BY <1>2, <1>3 DEF Sound
<1> HIDE DEF q
<1>5. /\ res' \in [Computer -> Resource] /\ res'[n] = q /\ \A k \in Computer \ {n} : res'[k] = res[k]
      /\ \A k \in Computer : Sound(res'[k]) /\ Separate(res'[k].chunks, res'[k].loads)
  BY <1>1, <1>3, <1>4, OneChanges
<1>6. IInv'
  BY <1>1, <1>5 DEF IInv, Types
<1>7. MessagesStep /\ DataStep /\ PeersStep /\ FileStep
  BY <1>1, <1>3, <1>5 DEF MessagesStep, DataStep, PeersStep, FileStep
<1>8. DiscoverStep
  <2>1. res[n].discovering => res[n].listed
    BY <1>2 DEF Sound
  <2> QED BY <1>1, <1>3, <1>5, <2>1 DEF DiscoverStep
<1>9. KeptStep /\ SourceStep
  BY <1>1, <1>3, <1>5 DEF KeptStep, SourceStep
<1> QED BY <1>1, <1>6, <1>7, <1>8, <1>9 DEF Effect

LEMMA OnShareFreeStep ==
  ASSUME IInv, NEW n \in Computer, OnShareFree(n)
  PROVE  IInv' /\ Effect
<1>1. /\ res[n].removed /\ res' = [res EXCEPT ![n] = Unlisted] /\ file' = [file EXCEPT ![n] = {}]
      /\ conn' = conn /\ msg' = msg /\ data' = data /\ left' = left
  BY DEF OnShareFree, MayForget
<1>2. /\ res' \in [Computer -> Resource] /\ res'[n] = Unlisted /\ \A k \in Computer \ {n} : res'[k] = res[k]
      /\ \A k \in Computer : Sound(res'[k]) /\ Separate(res'[k].chunks, res'[k].loads)
  BY <1>1, Resting, NoLoads, OneChanges
<1>3. file' \in [Computer -> SUBSET AllChunks] /\ file'[n] = {} /\ \A k \in Computer \ {n} : file'[k] = file[k]
  BY <1>1 DEF IInv, Types
<1>4. IInv'
  BY <1>1, <1>2, <1>3 DEF IInv, Types
<1>5. /\ Unlisted.discovering = FALSE /\ Unlisted.removed = FALSE /\ Unlisted.peers = NoClient
      /\ Unlisted.listed = FALSE /\ Unlisted.loading = FALSE
  BY DEF Unlisted
<1>6. MessagesStep /\ DataStep
  BY <1>1 DEF MessagesStep, DataStep
<1>7. PeersStep
  BY <1>2, <1>5 DEF PeersStep, NoClient
<1>8. FileStep
  BY <1>1, <1>2, <1>3 DEF FileStep
<1>9. KeptStep /\ DiscoverStep /\ SourceStep
  BY <1>1, <1>2, <1>5 DEF KeptStep, DiscoverStep, SourceStep
<1> QED BY <1>1, <1>4, <1>6, <1>7, <1>8, <1>9 DEF Effect

LEMMA DisconnectStep ==
  ASSUME IInv, NEW pair \in Breakable, Disconnect(pair)
  PROVE  IInv' /\ Effect
<1>1. /\ conn' = conn \ {pair} /\ res' = res /\ file' = file /\ left' = left
      /\ msg' = [n \in Computer |-> [m \in Computer |-> IF {n, m} = pair THEN <<>> ELSE msg[n][m]]]
      /\ data' = [n \in Computer |-> [m \in Computer |-> IF {n, m} = pair THEN <<>> ELSE data[n][m]]]
  BY DEF Disconnect
<1>2. <<>> \in Seq(Message) /\ <<>> \in Seq(Data) /\ Range(<<>>) = {}
  <2>1. DOMAIN <<>> = {}
    OBVIOUS
  <2> QED BY <2>1 DEF Range
<1>3. \A n, m \in Computer : /\ msg'[n][m] = IF {n, m} = pair THEN <<>> ELSE msg[n][m]
                             /\ data'[n][m] = IF {n, m} = pair THEN <<>> ELSE data[n][m]
  BY <1>1
<1>4. IInv'
  BY <1>1, <1>2 DEF IInv, Types
<1>5. MessagesStep /\ DataStep /\ KeptStep
  BY <1>1, <1>2, <1>3 DEF MessagesStep, DataStep, KeptStep
<1>6. PeersStep /\ FileStep /\ DiscoverStep /\ SourceStep
  BY <1>1 DEF PeersStep, FileStep, DiscoverStep, SourceStep
<1> QED BY <1>1, <1>4, <1>5, <1>6 DEF Effect

LEMMA OnClientConnectStep ==
  ASSUME IInv, NEW pair \in Breakable, OnClientConnect(pair)
  PROVE  IInv' /\ Effect
<1> DEFINE Asks(n, m) == n # m /\ {n, m} = pair /\ res[n].loading /\ ~res[n].removed /\ Announced
<1>1. /\ pair \notin conn /\ conn' = conn \cup {pair} /\ res' = res /\ file' = file /\ left' = left /\ data' = data
      /\ msg' = [n \in Computer |-> [m \in Computer |-> IF Asks(n, m) THEN <<Discover>> ELSE msg[n][m]]]
  BY DEF OnClientConnect
<1>2. Discover \in Message
  BY DEF Discover, Message
<1>3. <<Discover>> \in Seq(Message) /\ Range(<<Discover>>) = {Discover}
  BY <1>2, RangeSmall
<1>4. \A n, m \in Computer : msg'[n][m] = IF Asks(n, m) THEN <<Discover>> ELSE msg[n][m]
  BY <1>1
<1>5. IInv'
  <2>1. pair \in SUBSET Computer
    BY Limits
  <2>2. msg' \in [Computer -> [Computer -> Seq(Message)]]
    BY <1>1, <1>3 DEF IInv, Types
  <2> QED BY <1>1, <2>1, <2>2 DEF IInv, Types
<1>6. MessagesStep
  BY <1>3, <1>4 DEF MessagesStep, Says
<1>7. KeptStep
  BY <1>1, <1>4 DEF KeptStep
<1>8. DiscoverStep
  <2> SUFFICES ASSUME NEW n \in Computer, Announced, res'[n].discovering, ~res'[n].removed,
                      NEW m \in Others(n), {n, m} \in conn', {n, m} \notin conn
               PROVE  Discover \in Range(msg'[n][m])
    BY <1>1 DEF DiscoverStep
  <2>1. n # m /\ m \in Computer /\ {n, m} = pair
    BY <1>1 DEF Others
  <2>2. res[n].loading /\ ~res[n].removed
    BY <1>1 DEF IInv, Sound
  <2> QED BY <1>3, <1>4, <2>1, <2>2
<1>9. DataStep /\ PeersStep /\ FileStep /\ SourceStep
  BY <1>1 DEF DataStep, PeersStep, FileStep, SourceStep
<1> QED BY <1>1, <1>5, <1>6, <1>7, <1>8, <1>9 DEF Effect

\* The timer.
LEMMA TimerStep ==
  ASSUME IInv, NEW n \in Computer, Timer(n)
  PROVE  IInv' /\ Effect
<1>1. PICK T, giveUp, discover, status :
           T \in SUBSET res[n].loads /\ {giveUp, discover, status} \subseteq BOOLEAN /\ OnTimer(n, T, giveUp, discover, status)
  BY DEF Timer
<1> DEFINE r == res[n]
           timed == [r EXCEPT !.loads = @ \ T]
           Possible == IF T = {} THEN {r.loads} ELSE StartNewLoads(timed, n)
<1>2. PICK loads \in Possible :
        /\ res' = [res EXCEPT ![n] = [r EXCEPT !.loads = loads, !.removed = @ \/ giveUp,
                                      !.discovering = @ \/ discover, !.dirty = @ /\ ~status]]
        /\ msg' = SendAll(n, [m \in Computer |->
                       Requests(timed.loads, loads)[m]
                       \o (IF discover /\ Announced /\ m \in Peers(n) THEN <<Discover>> ELSE <<>>)
                       \o (IF status /\ m \in Peers(n) /\ Needs(m) THEN <<Status(r)>> ELSE <<>>)])
  BY <1>1 DEF OnTimer
<1>3. /\ T # {} => MayTimeOut(n, T)
      /\ giveUp => MayGiveUp(n) /\ ~discover /\ ~status
      /\ discover => MayDiscover(n)
      /\ status => MaySendStatus(n)
      /\ file' = file /\ conn' = conn /\ data' = data /\ left' = left
      /\ giveUp \in BOOLEAN /\ discover \in BOOLEAN /\ status \in BOOLEAN
  BY <1>1 DEF OnTimer
<1>4. r \in Resource /\ Sound(r) /\ Separate(r.chunks, r.loads) /\ r.loads \in SUBSET Load
  BY DEF IInv, Types, Resource
<1>5. /\ timed \in Resource /\ timed.chunks = r.chunks /\ timed.peers = r.peers /\ timed.loads = r.loads \ T
      /\ Separate(timed.chunks, timed.loads)
  <2>1. timed \in Resource /\ timed.chunks = r.chunks /\ timed.peers = r.peers /\ timed.loads = r.loads \ T
    BY <1>4 DEF Resource
  <2>2. timed.loads \in SUBSET r.loads
    BY <2>1
  <2> HIDE DEF timed
  <2>3. Separate(r.chunks, timed.loads)
    BY <1>4, <2>2, SeparateSubset
  <2> QED BY <2>1, <2>3
<1>6. Extended(timed, loads)
  <2>1. CASE T = {}
    <3>1. loads = timed.loads
      BY <1>2, <1>5, <2>1
    <3> HIDE DEF timed
    <3> QED BY <1>5, <3>1 DEF Extended, Resource
  <2>2. CASE T # {}
    <3>1. loads \in StartNewLoads(timed, n)
      BY <1>2, <2>2
    <3> HIDE DEF timed
    <3> QED BY <1>5, <3>1, StartNewLoadsAre
  <2> QED BY <2>1, <2>2
<1>7. loads \in SUBSET Load /\ Separate(r.chunks, loads)
      /\ \A l \in loads \ timed.loads : l.by \in DOMAIN r.peers /\ l.chunk \in Chunks(r.peers[l.by])
  BY <1>5, <1>6 DEF Extended
<1> HIDE DEF Possible
<1> DEFINE q == [r EXCEPT !.loads = loads, !.removed = @ \/ giveUp,
                          !.discovering = @ \/ discover, !.dirty = @ /\ ~status]
<1>8. /\ q \in Resource /\ q.chunks = r.chunks /\ q.peers = r.peers /\ q.loads = loads /\ q.listed = r.listed
      /\ q.loading = r.loading /\ q.removed = (r.removed \/ giveUp) /\ q.discovering = (r.discovering \/ discover)
      /\ q.dirty = (r.dirty /\ ~status)
  BY <1>3, <1>4, <1>7 DEF Resource
<1>9. Sound(q) /\ Separate(q.chunks, q.loads)
  BY <1>3, <1>4, <1>7, <1>8 DEF Sound, MayGiveUp, MayDiscover
<1>10. /\ res' \in [Computer -> Resource] /\ res'[n] = q /\ \A k \in Computer \ {n} : res'[k] = res[k]
       /\ \A k \in Computer : Sound(res'[k]) /\ Separate(res'[k].chunks, res'[k].loads)
  <2>1. res' = [res EXCEPT ![n] = q]
    BY <1>2
  <2> HIDE DEF q
  <2> QED BY <1>8, <1>9, <2>1, OneChanges
<1> DEFINE asked(m) == IF discover /\ Announced /\ m \in Peers(n) THEN <<Discover>> ELSE <<>>
           told(m) == IF status /\ m \in Peers(n) /\ Needs(m) THEN <<Status(r)>> ELSE <<>>
           out == [m \in Computer |-> Requests(timed.loads, loads)[m] \o asked(m) \o told(m)]
<1>11. ASSUME NEW m \in Computer
       PROVE  /\ out[m] \in Seq(Message) /\ Range(out[m]) \subseteq Says(q, m)
              /\ discover /\ Announced /\ m \in Peers(n) => Discover \in Range(out[m])
  <2> DEFINE reqs == Requests(timed.loads, loads)[m]
  <2>1. reqs \in Seq(Message) /\ Range(reqs) \subseteq Says(q, m)
    <3>1. reqs \in Seq(Message) /\ \A p \in Range(reqs) : \E l \in loads \ timed.loads : l.by = m /\ p = Request(l.chunk)
      <4> HIDE DEF timed, reqs, asked, told, q, out
      <4>1. loads \in SUBSET Load
        BY <1>7
      <4>2. RequestsFor(Requests(timed.loads, loads), loads \ timed.loads)
        BY <4>1, RequestsAre
      <4> QED BY <4>2 DEF reqs, RequestsFor
    <3> HIDE DEF reqs
    <3>2. Range(reqs) \subseteq Message
      BY <3>1, RangeOf
    <3>3. ASSUME NEW p \in Range(reqs) PROVE p \in Says(q, m)
      <4>1. PICK l \in loads \ timed.loads : l.by = m /\ p = Request(l.chunk)
        BY <3>1
      <4>2. m \in DOMAIN r.peers /\ p.chunk \in Chunks(r.peers[m]) /\ p.type = "Req"
        BY <1>7, <4>1 DEF Request
      <4> HIDE DEF q
      <4> QED BY <1>8, <3>2, <4>2 DEF Says
    <3> QED BY <3>1, <3>3
  <2>2. /\ asked(m) \in Seq(Message) /\ Range(asked(m)) \subseteq Says(q, m)
        /\ discover /\ Announced /\ m \in Peers(n) => Discover \in Range(asked(m))
    <3>1. Discover \in Message
      BY DEF Discover, Message
    <3>2. <<Discover>> \in Seq(Message) /\ Range(<<Discover>>) = {Discover} /\ <<>> \in Seq(Message) /\ Range(<<>>) = {}
      BY <3>1, RangeSmall
    <3>3. Discover \in Says(q, m)
      BY DEF Says
    <3> QED BY <3>2, <3>3
  <2>3. told(m) \in Seq(Message) /\ Range(told(m)) \subseteq Says(q, m)
    <3>1. Status(r) \in Message /\ Status(r).type = "Stat" /\ Chunks(Status(r).chunks) = Chunks(r.chunks)
      BY <1>4, StatusIs
    <3>2. <<Status(r)>> \in Seq(Message) /\ Range(<<Status(r)>>) = {Status(r)} /\ <<>> \in Seq(Message) /\ Range(<<>>) = {}
      <4> DEFINE p == Status(r)
      <4>1. p \in Message
        BY <3>1
      <4> HIDE DEF p
      <4>2. <<p>> \in Seq(Message) /\ Range(<<p>>) = {p} /\ <<>> \in Seq(Message) /\ Range(<<>>) = {}
        BY <4>1, RangeSmall
      <4> QED BY <4>2 DEF p
    <3>3. status => Status(r) \in Says(q, m)
      <4>1. status => q.listed
        BY <1>3, <1>4, <1>8 DEF MaySendStatus, Sound
      <4> HIDE DEF q
      <4> QED BY <1>8, <3>1, <4>1 DEF Says
    <3> QED BY <3>2, <3>3
  <2> HIDE DEF reqs, asked, told, q
  <2>4. reqs \o asked(m) \in Seq(Message) /\ Range(reqs \o asked(m)) = Range(reqs) \cup Range(asked(m))
    BY <2>1, <2>2, RangeConcat
  <2> DEFINE first == reqs \o asked(m)
  <2>5. first \in Seq(Message) /\ Range(first) = Range(reqs) \cup Range(asked(m))
    BY <2>4
  <2> HIDE DEF first
  <2>6. first \o told(m) \in Seq(Message) /\ Range(first \o told(m)) = Range(first) \cup Range(told(m))
    BY <2>3, <2>5, RangeConcat
  <2>7. out[m] = first \o told(m)
    BY DEF first, reqs
  <2> HIDE DEF out
  <2> QED BY <2>1, <2>2, <2>3, <2>5, <2>6, <2>7
<1>12. msg' = SendAll(n, out) /\ out \in [Computer -> Seq(Message)]
  BY <1>2, <1>11
<1> HIDE DEF q, out, timed, asked, told
<1>13. /\ msg' \in Channels
       /\ \A k, m \in Computer : Range(msg'[k][m]) =
             IF k = n THEN Range(msg[n][m]) \cup Range(out[m]) ELSE Range(msg[k][m])
  <2>1. msg \in Channels
    BY DEF IInv, Types, Channels
  <2>2. Sent(SendAll(n, out), n, out)
    BY <1>12, <2>1, SendAllIs
  <2>3. Sent(msg', n, out)
    BY <1>12, <2>2
  <2> QED BY <2>3 DEF Sent
<1>14. IInv'
  BY <1>3, <1>10, <1>13 DEF IInv, Types, Channels
<1>15. MessagesStep
  BY <1>10, <1>11, <1>13 DEF MessagesStep
<1>16. DataStep /\ PeersStep /\ FileStep
  BY <1>3, <1>8, <1>10 DEF DataStep, PeersStep, FileStep
<1>17. KeptStep
  BY <1>13 DEF KeptStep
<1>18. DiscoverStep
  BY <1>3, <1>8, <1>10, <1>11, <1>13 DEF DiscoverStep, Peers, Others
<1>19. SourceStep
  <2>1. q.removed => r.removed \/ MayGiveUp(n)
    BY <1>3, <1>8
  <2>2. q.loading = r.loading /\ q.listed = r.listed
    BY <1>8
  <2>3. \A k \in Computer : /\ res'[k].loading = res[k].loading /\ res'[k].listed = res[k].listed
                            /\ res'[k].removed => res[k].removed \/ MayGiveUp(k)
    BY <1>10, <2>1, <2>2
  <2> QED BY <2>3 DEF SourceStep, MayGiveUp
<1> QED BY <1>3, <1>14, <1>15, <1>16, <1>17, <1>18, <1>19 DEF Effect

LEMMA OnDiscoverStep ==
  ASSUME IInv, NEW n \in Computer, NEW m \in Computer, msg[m][n] # <<>>, Head(msg[m][n]).type = "Dis",
         OnDiscover(n, m), UNCHANGED <<file, conn, left>>
  PROVE  IInv' /\ Effect
<1> DEFINE first == [msg EXCEPT ![m][n] = Tail(@)]
           p == Head(msg[m][n])
           answer == IF res[n].listed THEN Append(first[n][m], Status(res[n])) ELSE first[n][m]
<1>1. msg' = [first EXCEPT ![n][m] = answer]
  BY DEF OnDiscover
<1>2. res' = res /\ data' = data /\ file' = file /\ conn' = conn /\ left' = left
  BY DEF OnDiscover
<1>3. Received(msg, first, Message, n, m)
  <2>1. msg \in [Computer -> [Computer -> Seq(Message)]]
    BY DEF IInv, Types
  <2> QED BY <2>1, ReceiveIs
<1> HIDE DEF first
<1>4. /\ first \in [Computer -> [Computer -> Seq(Message)]]
      /\ \A k, o \in Computer :
           /\ Range(first[k][o]) \subseteq Range(msg[k][o])
           /\ Range(msg[k][o]) \subseteq Range(first[k][o]) \cup (IF k = m /\ o = n THEN {p} ELSE {})
  BY <1>3 DEF Received
<1>5. /\ Status(res[n]) \in Message /\ Status(res[n]).type = "Stat"
      /\ Chunks(Status(res[n]).chunks) = Chunks(res[n].chunks)
  <2>1. res[n] \in Resource
    BY DEF IInv, Types
  <2> QED BY <2>1, StatusIs
<1>6. /\ answer \in Seq(Message)
      /\ Range(answer) = Range(first[n][m]) \cup (IF res[n].listed THEN {Status(res[n])} ELSE {})
  <2>1. first[n][m] \in Seq(Message)
    BY <1>4
  <2> DEFINE s == first[n][m]
             x == Status(res[n])
  <2>2. s \in Seq(Message) /\ x \in Message
    BY <1>5, <2>1
  <2> HIDE DEF s, x
  <2>3. Append(s, x) \in Seq(Message) /\ Range(Append(s, x)) = Range(s) \cup {x}
    BY <2>2, RangeAppend
  <2> QED BY <2>2, <2>3 DEF s, x
<1> HIDE DEF answer
<1>7. /\ msg' \in [Computer -> [Computer -> Seq(Message)]]
      /\ \A k, o \in Computer : msg'[k][o] = IF k = n /\ o = m THEN answer ELSE first[k][o]
  BY <1>1, <1>4, <1>6
<1>8. IInv'
  BY <1>2, <1>7 DEF IInv, Types
<1>9. MessagesStep
  <2>1. res[n].listed => Status(res[n]) \in Says(res'[n], m)
    BY <1>2, <1>5 DEF Says
  <2> SUFFICES ASSUME NEW k \in Computer, NEW o \in Computer, NEW x \in Range(msg'[k][o])
               PROVE  x \in Range(msg[k][o]) \cup Says(res'[k], o)
    BY DEF MessagesStep
  <2>2. CASE k = n /\ o = m
    <3>1. x \in Range(answer)
      BY <1>7, <2>2
    <3>2. x \in Range(first[n][m]) \/ (res[n].listed /\ x = Status(res[n]))
      BY <1>6, <3>1
    <3> QED BY <1>4, <2>1, <2>2, <3>2
  <2>3. CASE ~(k = n /\ o = m)
    BY <1>4, <1>7, <2>3
  <2> QED BY <2>2, <2>3
<1>10. KeptStep
  <2> SUFFICES ASSUME NEW k \in Computer, NEW o \in Computer, NEW x \in Range(msg[k][o])
               PROVE  x \in Range(msg'[k][o]) \/ (x.type = "Dis" /\ (res[o].listed => Stat(msg'[o][k])))
    BY DEF KeptStep
  <2>1. Range(first[k][o]) \subseteq Range(msg'[k][o])
    BY <1>6, <1>7
  <2>2. CASE x \notin Range(first[k][o])
    <3>1. k = m /\ o = n /\ x.type = "Dis"
      BY <1>4, <2>2
    <3>2. res[n].listed => Stat(msg'[n][m])
      BY <1>5, <1>6, <1>7 DEF Stat
    <3> QED BY <3>1, <3>2
  <2> QED BY <2>1, <2>2
<1>11. DataStep /\ PeersStep /\ FileStep /\ DiscoverStep /\ SourceStep
  BY <1>2 DEF DataStep, PeersStep, FileStep, DiscoverStep, SourceStep
<1> QED BY <1>2, <1>8, <1>9, <1>10, <1>11 DEF Effect

LEMMA SendChunkStep ==
  ASSUME IInv, NEW n \in Computer, NEW m \in Computer, msg[m][n] # <<>>, Head(msg[m][n]).type = "Req",
         SendChunk(n, m, Head(msg[m][n]).chunk), UNCHANGED <<file, conn, left>>
  PROVE  IInv' /\ Effect
<1> DEFINE p == Head(msg[m][n])
           d == [chunk |-> p.chunk, good |-> p.chunk \in file[n]]
           answer == IF res[n].listed THEN Append(data[n][m], d) ELSE data[n][m]
<1>1. /\ msg' = [msg EXCEPT ![m][n] = Tail(@)] /\ data' = [data EXCEPT ![n][m] = answer]
      /\ res' = res /\ file' = file /\ conn' = conn /\ left' = left
  BY DEF SendChunk
<1>2. Received(msg, msg', Message, n, m)
  <2>1. msg \in [Computer -> [Computer -> Seq(Message)]]
    BY DEF IInv, Types
  <2> QED BY <1>1, <2>1, ReceiveIs
<1>3. /\ msg' \in [Computer -> [Computer -> Seq(Message)]] /\ p \in Message /\ p \in Range(msg[m][n])
      /\ \A k, o \in Computer :
           /\ Range(msg'[k][o]) \subseteq Range(msg[k][o])
           /\ Range(msg[k][o]) \subseteq Range(msg'[k][o]) \cup (IF k = m /\ o = n THEN {p} ELSE {})
  BY <1>2 DEF Received
<1>4. d \in Data /\ p = Request(p.chunk) /\ d.chunk = p.chunk /\ (p.chunk \in file[n] => d.good)
  <2>1. PICK c \in AllChunks : p = [type |-> "Req", chunk |-> c]
    BY <1>3 DEF Message
  <2>2. p = Request(p.chunk) /\ p.chunk \in AllChunks
    BY <2>1 DEF Request
  <2> HIDE DEF p
  <2>3. (p.chunk \in file[n]) \in BOOLEAN
    OBVIOUS
  <2> QED BY <2>2, <2>3 DEF Data
<1> HIDE DEF d
<1>5. answer \in Seq(Data) /\ Range(answer) = Range(data[n][m]) \cup (IF res[n].listed THEN {d} ELSE {})
  <2>1. data[n][m] \in Seq(Data)
    BY DEF IInv, Types
  <2> QED BY <1>4, <2>1, RangeAppend
<1> HIDE DEF answer
<1>6. /\ data' \in [Computer -> [Computer -> Seq(Data)]]
      /\ \A k, o \in Computer : data'[k][o] = IF k = n /\ o = m THEN answer ELSE data[k][o]
  BY <1>1, <1>5 DEF IInv, Types
<1>7. IInv'
  BY <1>1, <1>3, <1>6 DEF IInv, Types
<1>8. DataStep
  <2> SUFFICES ASSUME NEW k \in Computer, NEW o \in Computer, NEW x \in Range(data'[k][o]), x \notin Range(data[k][o])
               PROVE  res[k].listed /\ (x.chunk \in file[k] => x.good) /\ Request(x.chunk) \in Range(msg[o][k])
    BY DEF DataStep
  <2>1. k = n /\ o = m /\ res[n].listed /\ x = d
    BY <1>5, <1>6
  <2> QED BY <1>3, <1>4, <2>1
<1>9. MessagesStep
  BY <1>3 DEF MessagesStep
<1>10. KeptStep
  BY <1>3 DEF KeptStep
<1>11. PeersStep /\ FileStep /\ DiscoverStep /\ SourceStep
  BY <1>1 DEF PeersStep, FileStep, DiscoverStep, SourceStep
<1> QED BY <1>1, <1>7, <1>8, <1>9, <1>10, <1>11 DEF Effect

\* A status, for one who does not load.
LEMMA StatusIgnored ==
  ASSUME IInv, NEW n \in Computer, NEW m \in Computer, msg[m][n] # <<>>, Head(msg[m][n]).type = "Stat",
         ~res[n].loading, msg' = [msg EXCEPT ![m][n] = Tail(@)], UNCHANGED <<res, data, file, conn, left>>
  PROVE  IInv' /\ Effect
<1> DEFINE p == Head(msg[m][n])
<1>1. res' = res /\ data' = data /\ file' = file /\ conn' = conn /\ left' = left
  OBVIOUS
<1>2. Received(msg, msg', Message, n, m)
  <2>1. msg \in [Computer -> [Computer -> Seq(Message)]]
    BY DEF IInv, Types
  <2> QED BY <2>1, ReceiveIs
<1>3. /\ msg' \in [Computer -> [Computer -> Seq(Message)]]
      /\ \A k, o \in Computer :
           /\ Range(msg'[k][o]) \subseteq Range(msg[k][o])
           /\ Range(msg[k][o]) \subseteq Range(msg'[k][o]) \cup (IF k = m /\ o = n THEN {p} ELSE {})
  BY <1>2 DEF Received
<1>4. IInv'
  BY <1>1, <1>3 DEF IInv, Types
<1>5. MessagesStep
  BY <1>3 DEF MessagesStep
<1>6. KeptStep
  BY <1>3 DEF KeptStep
<1>7. DataStep /\ PeersStep /\ FileStep /\ DiscoverStep /\ SourceStep
  BY <1>1 DEF DataStep, PeersStep, FileStep, DiscoverStep, SourceStep
<1> QED BY <1>1, <1>4, <1>5, <1>6, <1>7 DEF Effect

\* A status, for one who loads.
LEMMA StatusLearned ==
  ASSUME IInv, NEW n \in Computer, NEW m \in Computer, msg[m][n] # <<>>, Head(msg[m][n]).type = "Stat",
         res[n].loading, OnStatus(n, m, Head(msg[m][n]).chunks), UNCHANGED <<file, conn, left>>
  PROVE  IInv' /\ Effect
<1> DEFINE p == Head(msg[m][n])
           r == [res[n] EXCEPT !.discovering = FALSE, !.peers = Learned(@, m, p.chunks)]
           more == StartLoad(r, n, m)
           Possible == IF more = {} THEN {r.loads} ELSE {r.loads \cup {l} : l \in more}
<1>1. res[n] \in Resource /\ Sound(res[n]) /\ Separate(res[n].chunks, res[n].loads) /\ res[n].listed
  BY DEF IInv, Types, Sound
<1>2. PICK loads \in Possible :
        /\ res' = [res EXCEPT ![n] = [r EXCEPT !.loads = loads]]
        /\ msg' = [SendAll(n, Requests(r.loads, loads)) EXCEPT ![m][n] = Tail(@)]
  BY <1>1 DEF OnStatus
<1>3. data' = data /\ file' = file /\ conn' = conn /\ left' = left
  BY DEF OnStatus
<1>4. p \in Message /\ p \in Range(msg[m][n]) /\ p.chunks \in PackedLists
  <2> DEFINE s == msg[m][n]
  <2>1. s \in Seq(Message) /\ s # <<>>
    BY DEF IInv, Types
  <2> HIDE DEF s
  <2>2. Head(s) \in Message /\ Head(s) \in Range(s)
    BY <2>1, RangeTail
  <2>3. p \in Message /\ p \in Range(msg[m][n]) /\ p.type = "Stat"
    BY <2>2 DEF s
  <2> HIDE DEF p
  <2> QED BY <2>3 DEF Message
<1> HIDE DEF p
<1> DEFINE peers == Learned(res[n].peers, m, p.chunks)
<1>5. /\ peers \in PeerLists /\ DOMAIN peers = DOMAIN res[n].peers \cup {m}
      /\ \A k \in DOMAIN res[n].peers \cup {m} : peers[k] = IF k = m THEN Copy(p.chunks) ELSE res[n].peers[k]
      /\ Chunks(Copy(p.chunks)) = Chunks(p.chunks)
  <2>1. AfterStatus(peers, res[n].peers, m, p.chunks)
    BY <1>1, <1>4, LearnedIs
  <2> HIDE DEF peers
  <2> QED BY <2>1 DEF AfterStatus
<1> HIDE DEF peers
<1>6. /\ r \in Resource /\ r.chunks = res[n].chunks /\ r.loads = res[n].loads /\ r.peers = peers /\ r.listed = res[n].listed
      /\ r.loading = res[n].loading /\ r.removed = res[n].removed /\ r.dirty = res[n].dirty /\ r.discovering = FALSE
  BY <1>1, <1>5 DEF Resource, peers
<1> HIDE DEF r
<1>7. /\ loads \in SUBSET Load /\ Separate(r.chunks, loads)
      /\ \A l \in loads \ r.loads : l.by = m /\ l.chunk \in Chunks(peers[m])
  <2>1. r.loads \in SUBSET Load
    BY <1>6 DEF Resource
  <2>2. CASE more = {}
    <3>1. loads = r.loads
      BY <1>2, <2>2
    <3> QED BY <1>1, <1>6, <2>1, <3>1
  <2>3. CASE more # {}
    <3>1. PICK l \in more : loads = r.loads \cup {l}
      BY <1>2, <2>3
    <3>2. l \in Load /\ l.by = m /\ l.chunk \in Chunks(r.peers[m]) /\ Separate(r.chunks, r.loads \cup {l})
      <4>1. m \in DOMAIN r.peers /\ Separate(r.chunks, r.loads) /\ l \in StartLoad(r, n, m)
        BY <1>1, <1>5, <1>6, <3>1
      <4> HIDE DEF Possible, more
      <4> QED BY <1>6, <4>1, StartLoadIs
    <3> QED BY <1>6, <2>1, <3>1, <3>2
  <2> QED BY <2>2, <2>3
<1> HIDE DEF Possible, more
<1> DEFINE q == [r EXCEPT !.loads = loads]
<1>8. /\ q \in Resource /\ q.chunks = r.chunks /\ q.peers = peers /\ q.loads = loads /\ q.listed = r.listed
      /\ q.loading = r.loading /\ q.removed = r.removed /\ q.discovering = FALSE /\ q.dirty = r.dirty
  BY <1>6, <1>7 DEF Resource
<1>9. Sound(q) /\ Separate(q.chunks, q.loads)
  BY <1>1, <1>6, <1>7, <1>8 DEF Sound
<1>10. /\ res' \in [Computer -> Resource] /\ res'[n] = q /\ \A k \in Computer \ {n} : res'[k] = res[k]
       /\ \A k \in Computer : Sound(res'[k]) /\ Separate(res'[k].chunks, res'[k].loads)
  <2>1. res' = [res EXCEPT ![n] = q]
    BY <1>2
  <2> HIDE DEF q
  <2> QED BY <1>8, <1>9, <2>1, OneChanges
<1> HIDE DEF q
<1> DEFINE out == Requests(r.loads, loads)
           C == SendAll(n, out)
<1>11. /\ out \in [Computer -> Seq(Message)]
       /\ \A o \in Computer : Range(out[o]) \subseteq Says(q, o)
  <2>1. loads \in SUBSET Load
    BY <1>7
  <2>2. RequestsFor(out, loads \ r.loads)
    BY <2>1, RequestsAre
  <2> HIDE DEF out
  <2>3. out \in [Computer -> Seq(Message)]
    BY <2>2 DEF RequestsFor
  <2>4. ASSUME NEW o \in Computer, NEW x \in Range(out[o]) PROVE x \in Says(q, o)
    <3>1. PICK l \in loads \ r.loads : l.by = o /\ x = Request(l.chunk)
      BY <2>2 DEF RequestsFor
    <3>2. x \in Message
      BY <2>3, RangeOf
    <3>3. o = m /\ x.type = "Req" /\ x.chunk \in Chunks(peers[m])
      BY <1>7, <3>1 DEF Request
    <3> QED BY <1>5, <1>8, <3>2, <3>3 DEF Says
  <2> QED BY <2>3, <2>4
<1> HIDE DEF out
<1>12. Sent(C, n, out)
  <2>1. msg \in Channels
    BY DEF IInv, Types, Channels
  <2> QED BY <1>11, <2>1, SendAllIs
<1>13. msg' = [C EXCEPT ![m][n] = Tail(@)]
  BY <1>2 DEF out
<1> HIDE DEF C
<1>14. /\ C \in [Computer -> [Computer -> Seq(Message)]] /\ C[m][n] # <<>> /\ Head(C[m][n]) = p
       /\ \A k, o \in Computer : Range(C[k][o]) = IF k = n THEN Range(msg[n][o]) \cup Range(out[o]) ELSE Range(msg[k][o])
  BY <1>12 DEF Sent, Channels, p
<1>15. Received(C, msg', Message, n, m)
  BY <1>13, <1>14, ReceiveIs
<1>16. /\ msg' \in [Computer -> [Computer -> Seq(Message)]]
       /\ \A k, o \in Computer :
            /\ Range(msg'[k][o]) \subseteq Range(C[k][o])
            /\ Range(C[k][o]) \subseteq Range(msg'[k][o]) \cup (IF k = m /\ o = n THEN {p} ELSE {})
  BY <1>14, <1>15 DEF Received
<1>17. IInv'
  BY <1>3, <1>10, <1>16 DEF IInv, Types
<1>18. MessagesStep
  <2> SUFFICES ASSUME NEW k \in Computer, NEW o \in Computer, NEW x \in Range(msg'[k][o])
               PROVE  x \in Range(msg[k][o]) \cup Says(res'[k], o)
    BY DEF MessagesStep
  <2>1. x \in Range(C[k][o])
    BY <1>16
  <2> QED BY <1>10, <1>11, <1>14, <2>1
<1>19. KeptStep
  <2> SUFFICES ASSUME NEW k \in Computer, NEW o \in Computer, NEW x \in Range(msg[k][o])
               PROVE  x \in Range(msg'[k][o]) \/ (x.type = "Stat" /\ ~res'[o].discovering)
    BY DEF KeptStep
  <2>1. x \in Range(C[k][o])
    BY <1>14
  <2>2. CASE x \notin Range(msg'[k][o])
    <3>1. o = n /\ x = p
      BY <1>16, <2>1, <2>2
    <3> QED BY <1>8, <1>10, <3>1 DEF p
  <2> QED BY <2>2
<1>20. PeersStep
  <2> SUFFICES ASSUME NEW k \in Computer, NEW o \in DOMAIN res'[k].peers,
                      o \notin DOMAIN res[k].peers \/ res'[k].peers[o] # res[k].peers[o]
               PROVE  \E x \in Range(msg[o][k]) : x.type = "Stat" /\ Chunks(res'[k].peers[o]) = Chunks(x.chunks)
    BY DEF PeersStep
  <2>1. k = n /\ o = m /\ res'[n].peers[m] = Copy(p.chunks)
    BY <1>5, <1>8, <1>10
  <2> QED BY <1>4, <1>5, <2>1 DEF p
<1>21. DataStep /\ FileStep
  BY <1>3, <1>6, <1>8, <1>10 DEF DataStep, FileStep
<1>22. DiscoverStep /\ SourceStep
  BY <1>3, <1>6, <1>8, <1>10 DEF DiscoverStep, SourceStep
<1> QED BY <1>3, <1>17, <1>18, <1>19, <1>20, <1>21, <1>22 DEF Effect

LEMMA HandlePacketStep ==
  ASSUME IInv, NEW n \in Computer, NEW m \in Computer, HandlePacket(n, m)
  PROVE  IInv' /\ Effect
<1> DEFINE p == Head(msg[m][n])
<1>1. /\ msg[m][n] # <<>> /\ UNCHANGED <<file, conn, left>>
      /\ \/ p.type = "Dis"  /\ OnDiscover(n, m)
         \/ p.type = "Stat" /\ OnStatus(n, m, p.chunks)
         \/ p.type = "Req"  /\ SendChunk(n, m, p.chunk)
  BY DEF HandlePacket
<1>2. CASE p.type = "Dis" /\ OnDiscover(n, m)
  BY <1>1, <1>2, OnDiscoverStep
<1>3. CASE p.type = "Stat" /\ OnStatus(n, m, p.chunks)
  <2>1. CASE res[n].loading
    BY <1>1, <1>3, <2>1, StatusLearned
  <2>2. CASE ~res[n].loading
    <3>1. msg' = [msg EXCEPT ![m][n] = Tail(@)] /\ UNCHANGED <<res, data, file, conn, left>>
      BY <1>1, <1>3, <2>2 DEF OnStatus
    <3> QED BY <1>1, <1>3, <2>2, <3>1, StatusIgnored
  <2> QED BY <2>1, <2>2
<1>4. CASE p.type = "Req" /\ SendChunk(n, m, p.chunk)
  BY <1>1, <1>4, SendChunkStep
<1> QED BY <1>1, <1>2, <1>3, <1>4

\* A chunk arrives; the cases are that it is ignored, the last one, and one of many.
LEMMA OnChunkStep ==
  ASSUME IInv, NEW n \in Computer, NEW m \in Computer, OnChunk(n, m)
  PROVE  IInv' /\ Effect
<1> DEFINE d == Head(data[m][n])
           r == [res[n] EXCEPT !.chunks = AddChunk(@, d.chunk), !.dirty = TRUE,
                               !.loads = {l \in @ : l.chunk # d.chunk}]
<1>1. /\ data[m][n] # <<>> /\ data' = [data EXCEPT ![m][n] = Tail(@)] /\ conn' = conn /\ left' = left
      /\ IF res[n].listed /\ res[n].loading
         THEN /\ file' = [file EXCEPT ![n] = IF d.good THEN @ \cup {d.chunk} ELSE @ \ {d.chunk}]
              /\ IF isComplete(r.chunks)
                 THEN res' = [res EXCEPT ![n] = ClearLoad(r)] /\ UNCHANGED msg
                 ELSE \E loads \in StartNewLoads(r, n) :
                          /\ res' = [res EXCEPT ![n] = [r EXCEPT !.loads = loads]]
                          /\ msg' = SendAll(n, Requests(r.loads, loads))
         ELSE UNCHANGED <<res, file, msg>>
  BY DEF OnChunk
<1>2. Received(data, data', Data, n, m)
  <2>1. data \in [Computer -> [Computer -> Seq(Data)]]
    BY DEF IInv, Types
  <2> QED BY <1>1, <2>1, ReceiveIs
<1>3. /\ data' \in [Computer -> [Computer -> Seq(Data)]] /\ d \in Data /\ d \in Range(data[m][n])
      /\ \A k, o \in Computer : Range(data'[k][o]) \subseteq Range(data[k][o])
  BY <1>2 DEF Received
<1>4. DataStep
  BY <1>3 DEF DataStep
<1>5. d.chunk \in AllChunks /\ d.good \in BOOLEAN
  BY <1>3 DEF Data
<1> HIDE DEF d
<1>6. CASE ~(res[n].listed /\ res[n].loading)
  <2>1. res' = res /\ file' = file /\ msg' = msg
    BY <1>1, <1>6
  <2>2. IInv'
    BY <1>1, <1>3, <2>1 DEF IInv, Types
  <2>3. MessagesStep /\ PeersStep /\ FileStep /\ KeptStep /\ DiscoverStep /\ SourceStep
    BY <1>1, <2>1 DEF MessagesStep, PeersStep, FileStep, KeptStep, DiscoverStep, SourceStep
  <2> QED BY <1>1, <1>4, <2>2, <2>3 DEF Effect
<1>7. CASE res[n].listed /\ res[n].loading
  <2>1. res[n] \in Resource /\ Sound(res[n]) /\ Separate(res[n].chunks, res[n].loads) /\ res[n].loads \in SUBSET Load
    BY DEF IInv, Types, Resource
  <2> DEFINE chunks == AddChunk(res[n].chunks, d.chunk)
             loads0 == {l \in res[n].loads : l.chunk # d.chunk}
  <2>2. /\ chunks \in Lists /\ Chunks(chunks) = Chunks(res[n].chunks) \cup {d.chunk} /\ Counted(chunks)
    <3>1. d.chunk \in Nat /\ d.chunk + 1 <= ChunkCnt
      BY <1>5, ChunkCount DEF AllChunks
    <3>2. WF(res[n].chunks) /\ Counted(res[n].chunks)
      BY <1>7, <2>1 DEF Sound, Resource, Lists
    <3>3. WF(chunks) /\ Chunks(chunks) = Chunks(res[n].chunks) \cup {d.chunk} /\ Counted(chunks)
      BY <3>1, <3>2, AddChunkIs
    <3> QED BY <3>3 DEF Lists, WF
  <2>3. Separate(chunks, loads0) /\ loads0 \in SUBSET Load
    <3>1. loads0 \in SUBSET res[n].loads
      OBVIOUS
    <3>2. Separate(res[n].chunks, loads0)
      <4> HIDE DEF loads0
      <4> QED BY <2>1, <3>1, SeparateSubset
    <3>3. \A l \in loads0 : l.chunk \notin Chunks(chunks)
      BY <2>1, <2>2 DEF Separate
    <3> HIDE DEF loads0, chunks
    <3> QED BY <2>1, <3>1, <3>2, <3>3 DEF Separate
  <2>4. /\ r \in Resource /\ r.chunks = chunks /\ r.loads = loads0 /\ r.peers = res[n].peers /\ r.listed = res[n].listed
        /\ r.loading = res[n].loading /\ r.removed = res[n].removed /\ r.dirty = TRUE
        /\ r.discovering = res[n].discovering
    <3> HIDE DEF chunks, loads0
    <3>1. r = [res[n] EXCEPT !.chunks = chunks, !.dirty = TRUE, !.loads = loads0]
      BY DEF chunks, loads0
    <3> QED BY <2>1, <2>2, <2>3, <3>1 DEF Resource
  <2> HIDE DEF chunks, loads0, r
  <2>5. /\ file' \in [Computer -> SUBSET AllChunks]
        /\ file'[n] = IF d.good THEN file[n] \cup {d.chunk} ELSE file[n] \ {d.chunk}
        /\ \A k \in Computer \ {n} : file'[k] = file[k]
    <3>1. file \in [Computer -> SUBSET AllChunks]
      BY DEF IInv, Types
    <3> QED BY <1>1, <1>5, <1>7, <3>1
  \* What follows from the new resource q.
  <2>6. ASSUME NEW q \in Resource, Sound(q), Separate(q.chunks, q.loads), res' = [res EXCEPT ![n] = q],
               q.chunks = chunks, q.listed, q.loading \/ Chunks(chunks) = AllChunks, q.removed = res[n].removed,
               q.discovering => res[n].discovering, DOMAIN q.peers \subseteq DOMAIN res[n].peers,
               \A k \in DOMAIN q.peers : q.peers[k] = res[n].peers[k],
               msg' \in Channels,
               \A k, o \in Computer :
                  /\ Range(msg[k][o]) \subseteq Range(msg'[k][o])
                  /\ Range(msg'[k][o]) \subseteq Range(msg[k][o]) \cup (IF k = n THEN Says(q, o) ELSE {})
        PROVE  IInv' /\ Effect
    <3>1. /\ res' \in [Computer -> Resource] /\ res'[n] = q /\ \A k \in Computer \ {n} : res'[k] = res[k]
          /\ \A k \in Computer : Sound(res'[k]) /\ Separate(res'[k].chunks, res'[k].loads)
      BY <2>6, OneChanges
    <3>2. IInv'
      BY <1>1, <1>3, <2>5, <2>6, <3>1 DEF IInv, Types, Channels
    <3>3. MessagesStep /\ KeptStep
      BY <2>6, <3>1 DEF MessagesStep, KeptStep
    <3>4. PeersStep
      BY <2>6, <3>1 DEF PeersStep
    <3>5. FileStep
      <4>1. Written(n, d)
        BY <1>7, <2>2, <2>5, <2>6, <3>1 DEF Written
      <4> QED BY <1>3, <2>5, <3>1, <4>1 DEF FileStep
    <3>6. DiscoverStep
      BY <1>1, <2>6, <3>1 DEF DiscoverStep
    <3>7. SourceStep
      BY <1>1, <1>7, <2>6, <3>1 DEF SourceStep
    <3> QED BY <1>1, <1>4, <3>2, <3>3, <3>4, <3>5, <3>6, <3>7 DEF Effect
  <2>7. CASE isComplete(r.chunks)
    <3> DEFINE q == ClearLoad(r)
    <3>1. res' = [res EXCEPT ![n] = q] /\ msg' = msg
      BY <1>1, <1>7, <2>7
    <3>2. /\ q \in Resource /\ q.chunks = chunks /\ q.listed /\ q.loads = {} /\ q.peers = NoClient /\ ~q.loading
          /\ q.removed = res[n].removed /\ ~q.discovering
      BY <1>7, <2>4, Resting DEF ClearLoad, Resource, Unlisted
    <3>3. Chunks(chunks) = AllChunks
      <4>1. WF(chunks) /\ isComplete(chunks)
        BY <2>2, <2>4, <2>7 DEF Lists
      <4> QED BY <4>1, CompleteIs DEF AllChunks
    <3> HIDE DEF q
    <3>4. Sound(q) /\ Separate(q.chunks, q.loads)
      BY <2>2, <3>2, NoLoads DEF Sound
    <3>5. DOMAIN q.peers = {} /\ msg' \in Channels
      BY <3>1, <3>2 DEF NoClient, IInv, Types, Channels
    <3>6. \A k, o \in Computer :
            /\ Range(msg[k][o]) \subseteq Range(msg'[k][o])
            /\ Range(msg'[k][o]) \subseteq Range(msg[k][o]) \cup (IF k = n THEN Says(q, o) ELSE {})
      BY <3>1
    <3> QED BY <2>6, <3>1, <3>2, <3>3, <3>4, <3>5, <3>6
  <2>8. CASE ~isComplete(r.chunks)
    <3>1. PICK loads \in StartNewLoads(r, n) :
            /\ res' = [res EXCEPT ![n] = [r EXCEPT !.loads = loads]]
            /\ msg' = SendAll(n, Requests(r.loads, loads))
      BY <1>1, <1>7, <2>8
    <3>2. Extended(r, loads)
      BY <2>3, <2>4, StartNewLoadsAre
    <3>3. /\ loads \in SUBSET Load /\ Separate(chunks, loads)
          /\ \A l \in loads \ r.loads : l.by \in DOMAIN r.peers /\ l.chunk \in Chunks(r.peers[l.by])
      BY <2>4, <3>2 DEF Extended
    <3> DEFINE q == [r EXCEPT !.loads = loads]
               out == Requests(r.loads, loads)
    <3>4. /\ q \in Resource /\ q.chunks = chunks /\ q.listed /\ q.loads = loads /\ q.peers = r.peers /\ q.loading
          /\ q.removed = res[n].removed /\ q.discovering = res[n].discovering
      BY <1>7, <2>4, <3>3 DEF Resource
    <3> HIDE DEF q
    <3>5. Sound(q) /\ Separate(q.chunks, q.loads)
      BY <2>2, <3>3, <3>4 DEF Sound
    <3>6. out \in [Computer -> Seq(Message)] /\ \A o \in Computer : Range(out[o]) \subseteq Says(q, o)
      <4>1. RequestsFor(out, loads \ r.loads)
        <5>1. loads \in SUBSET Load
          BY <3>3
        <5> QED BY <5>1, RequestsAre
      <4> HIDE DEF out
      <4>2. out \in [Computer -> Seq(Message)]
        BY <4>1 DEF RequestsFor
      <4>3. ASSUME NEW o \in Computer, NEW x \in Range(out[o]) PROVE x \in Says(q, o)
        <5>1. PICK l \in loads \ r.loads : l.by = o /\ x = Request(l.chunk)
          BY <4>1 DEF RequestsFor
        <5>2. x \in Message
          BY <4>2, RangeOf
        <5>3. x.type = "Req" /\ o \in DOMAIN q.peers /\ x.chunk \in Chunks(q.peers[o])
          BY <3>3, <3>4, <5>1 DEF Request
        <5> QED BY <5>2, <5>3 DEF Says
      <4> QED BY <4>2, <4>3
    <3> HIDE DEF out
    <3>7. Sent(msg', n, out)
      <4>1. msg \in Channels /\ msg' = SendAll(n, out)
        BY <3>1 DEF IInv, Types, Channels, out
      <4> QED BY <3>6, <4>1, SendAllIs
    <3>8. msg' \in Channels /\ \A k, o \in Computer :
            /\ Range(msg[k][o]) \subseteq Range(msg'[k][o])
            /\ Range(msg'[k][o]) \subseteq Range(msg[k][o]) \cup (IF k = n THEN Says(q, o) ELSE {})
      BY <3>6, <3>7 DEF Sent
    <3>9. res' = [res EXCEPT ![n] = q]
      BY <3>1 DEF q
    <3> QED BY <2>4, <2>6, <3>4, <3>5, <3>8, <3>9
  <2> QED BY <2>7, <2>8
<1> QED BY <1>6, <1>7

\* Every step.
LEMMA StepEffect ==
  ASSUME IInv, Next
  PROVE  IInv' /\ Effect
<1>1. ASSUME NEW n \in Computer, AddByCore(n) \/ Timer(n) \/ RemoveAtClient(n) \/ OnShareFree(n)
      PROVE  IInv' /\ Effect
  BY <1>1, AddByCoreStep, TimerStep, RemoveAtClientStep, OnShareFreeStep
<1>2. ASSUME NEW n \in Computer, NEW m \in Computer, HandlePacket(n, m) \/ OnChunk(n, m)
      PROVE  IInv' /\ Effect
  BY <1>2, HandlePacketStep, OnChunkStep
<1>3. ASSUME NEW pair \in Breakable, Disconnect(pair) \/ OnClientConnect(pair)
      PROVE  IInv' /\ Effect
  BY <1>3, DisconnectStep, OnClientConnectStep
<1> QED BY <1>1, <1>2, <1>3 DEF Next

\* Nothing happens.
LEMMA StutterEffect ==
  ASSUME IInv, UNCHANGED vars
  PROVE  IInv' /\ Effect
<1>1. res' = res /\ file' = file /\ conn' = conn /\ msg' = msg /\ data' = data /\ left' = left
  BY DEF vars
<1>2. IInv'
  BY <1>1 DEF IInv, Types
<1>3. MessagesStep /\ DataStep /\ PeersStep /\ FileStep /\ KeptStep /\ DiscoverStep /\ SourceStep
  BY <1>1 DEF MessagesStep, DataStep, PeersStep, FileStep, KeptStep, DiscoverStep, SourceStep
<1> QED BY <1>1, <1>2, <1>3 DEF Effect

\* The invariant holds, and every step does what it may do.
LEMMA Invariance == Spec => []IInv /\ [][Effect]_vars
<1>1. IInv /\ [Next]_vars => IInv' /\ Effect
  BY StepEffect, StutterEffect
<1> QED BY <1>1, InitInv, PTL DEF Spec

-----------------------------------------------------------------------------
(* The properties.                                                         *)

\* The number of chunks that is counted is that of the chunks that are there: the
\* ranges have none in common.
LEMMA PresentIs ==
  ASSUME NEW d, WF(d)
  PROVE  d.present = Cardinality(Chunks(d))
<1> DEFINE s == d.ranges
           n == Len(s)
           start(i) == s[i][1]
           length(i) == s[i][2]
           total(i) == Length(d, i)
           Chunk(i) == start(i) .. start(i) + length(i) - 1
           First(k) == UNION {Chunk(i) : i \in 1 .. k}
           T == {k \in 0 .. n : IsFiniteSet(First(k)) /\ Cardinality(First(k)) = total(k)}
<1>1. /\ d \in ListData /\ n \in Nat
      /\ \A i \in 1 .. n : start(i) \in Nat /\ length(i) \in Nat /\ length(i) > 0
  BY RangeType DEF WF, ListData, Proper
<1>2. /\ \A i \in 1 .. n : total(i) = total(i - 1) + length(i)
      /\ total(0) = 0 /\ \A i \in 0 .. n : total(i) \in Nat
  BY <1>1, LengthFacts
<1>3. \A i, j \in 1 .. n : i < j => start(i) + length(i) < start(j)
  BY DEF WF, Apart, Gap
<1>4. d.present = total(n)
  BY DEF WF, Total
<1>5. Chunks(d) = First(n)
  <2>1. \A c : c \in Chunks(d) <=> \E i \in 1 .. n : c \in Chunk(i)
    BY <1>1, ChunksAre
  <2> QED BY <2>1
<1> HIDE DEF s, n, start, length, total
<1>6. 0 \in T
  <2>1. First(0) = {}
    <3>1. 1 .. 0 = {}
      OBVIOUS
    <3> QED BY <3>1
  <2>2. IsFiniteSet(First(0)) /\ Cardinality(First(0)) = 0
    BY <2>1, FS_EmptySet
  <2> HIDE DEF First
  <2> QED BY <1>1, <1>2, <2>2
<1>7. ASSUME NEW k \in 1 .. n, k - 1 \in T PROVE k \in T
  <2>1. k \in 0 .. n /\ k - 1 \in 0 .. n /\ total(k) = total(k - 1) + length(k)
    BY <1>1, <1>2
  <2>2. start(k) \in Nat /\ length(k) \in Nat /\ length(k) > 0
    BY <1>1
  <2>3. IsFiniteSet(Chunk(k)) /\ Cardinality(Chunk(k)) = length(k)
    <3> DEFINE x == start(k)
               y == start(k) + length(k) - 1
    <3>1. x \in Int /\ y \in Int /\ ~(x > y) /\ y - x + 1 = length(k)
      BY <2>2
    <3> HIDE DEF x, y
    <3>2. IsFiniteSet(x .. y) /\ Cardinality(x .. y) = length(k)
      BY <3>1, FS_Interval
    <3> QED BY <3>2 DEF x, y
  <2>4. First(k) = First(k - 1) \cup Chunk(k)
    <3>1. 1 .. k = (1 .. k - 1) \cup {k}
      BY <1>1
    <3> HIDE DEF Chunk
    <3> QED BY <3>1
  <2>5. First(k - 1) \cap Chunk(k) = {}
    <3> SUFFICES ASSUME NEW i \in 1 .. k - 1, NEW c \in Chunk(i), c \in Chunk(k) PROVE FALSE
      OBVIOUS
    <3>1. i \in 1 .. n /\ i < k
      BY <1>1
    <3>2. start(i) + length(i) < start(k) /\ start(i) \in Nat /\ length(i) \in Nat
      BY <1>1, <1>3, <3>1
    <3> QED BY <2>2, <3>2
  <2>6. IsFiniteSet(First(k - 1)) /\ Cardinality(First(k - 1)) = total(k - 1) /\ total(k - 1) \in Nat
    <3> HIDE DEF First
    <3> QED BY <1>2, <1>7, <2>1
  <2> HIDE DEF First, Chunk
  <2>7. /\ IsFiniteSet(First(k))
        /\ Cardinality(First(k)) = total(k - 1) + length(k) - Cardinality(First(k - 1) \cap Chunk(k))
    BY <2>3, <2>4, <2>6, FS_Union
  <2>8. Cardinality(First(k - 1) \cap Chunk(k)) = 0
    BY <2>5, FS_EmptySet
  <2>9. Cardinality(First(k)) = total(k)
    BY <2>1, <2>2, <2>6, <2>7, <2>8
  <2> QED BY <2>1, <2>7, <2>9
<1>8. 0 .. n \subseteq T
  <2> HIDE DEF T
  <2> QED BY <1>1, <1>6, <1>7, Induction
<1>9. n \in T
  BY <1>1, <1>8
<1> HIDE DEF First
<1> QED BY <1>4, <1>5, <1>9

\* Ranges of the file that are apart.
LEMMA RangesAre ==
  ASSUME NEW d \in ListData, Proper(d.ranges), Apart(d.ranges)
  PROVE  d.ranges \in Seq(AllChunks \X (1 .. ChunkCnt)) /\ RangesApart(d)
<1> DEFINE s == d.ranges
           A == AllChunks \X (1 .. ChunkCnt)
<1>1. s \in RangeList /\ Proper(s) /\ Apart(s) /\ Len(s) \in Nat /\ s \in [1 .. Len(s) -> Nat \X Nat]
  <2>1. s \in RangeList
    BY DEF ListData
  <2> QED BY <2>1, RangeType, LenProperties DEF RangeList
<1>2. Chunks(d) \subseteq AllChunks
  BY ChunksInFile DEF AllChunks
<1> HIDE DEF s
<1>3. ASSUME NEW i \in 1 .. Len(s) PROVE s[i] \in A
  <2> DEFINE x == s[i][1]
             y == s[i][2]
  <2>1. s[i] \in Nat \X Nat /\ x \in Nat /\ y \in Nat /\ y > 0 /\ x + y <= ChunkCnt /\ s[i] = <<x, y>>
    BY <1>1 DEF Proper
  <2> HIDE DEF x, y
  <2>2. x \in 0 .. ChunkCnt - 1 /\ y \in 1 .. ChunkCnt
    BY <2>1, ChunkCount
  <2> QED BY <2>1, <2>2 DEF AllChunks
<1>4. s \in [1 .. Len(s) -> A]
  BY <1>1, <1>3
<1> HIDE DEF A
<1>5. s \in Seq(A)
  BY <1>1, <1>4, SeqDef
<1>6. \A i, j \in DOMAIN s : i < j => s[i][1] + s[i][2] < s[j][1]
  <2>1. DOMAIN s = 1 .. Len(s)
    BY <1>1
  <2> QED BY <1>1, <2>1 DEF Apart, Gap
<1> QED BY <1>2, <1>5, <1>6 DEF s, A, RangesApart

\* A list that is well formed, with its counts.
LEMMA ChunkDataIs ==
  ASSUME NEW d \in Lists, Counted(d) \/ d = SetComplete
  PROVE  d \in ChunkData /\ RangesApart(d) /\ ChunksRight(d)
<1>1. WF(d) /\ d \in ListData /\ Proper(d.ranges) /\ Apart(d.ranges)
  BY DEF Lists, WF
<1>2. d.present \in 0 .. ChunkCnt /\ Len(d.ranges) \in 0 .. ChunkCnt
  BY <1>1, CompleteIs
<1>3. d.rangeCnt \in 0 .. ChunkCnt
  <2>1. CASE Counted(d)
    BY <1>2, <2>1 DEF Counted
  <2>2. CASE d = SetComplete
    <3>1. d.rangeCnt = 0
      BY <2>2 DEF SetComplete
    <3> QED BY <3>1, ChunkCount
  <2> QED BY <2>1, <2>2
<1>4. d.ranges \in Seq(AllChunks \X (1 .. ChunkCnt)) /\ RangesApart(d)
  BY <1>1, RangesAre
<1>5. d.present = Cardinality(Chunks(d))
  BY <1>1, PresentIs
<1> QED BY <1>1, <1>2, <1>3, <1>4, <1>5 DEF ListData, ChunkData, ChunksRight

\* A list that is sent.
LEMMA SentListIs ==
  ASSUME NEW d \in PackedLists
  PROVE  d \in ChunkData /\ RangesApart(d) /\ RangesRight(d) /\ d.present = 0
<1>1. /\ d \in ListData /\ Proper(d.ranges) /\ Apart(d.ranges) /\ Len(d.ranges) <= ChunkCnt
      /\ d.present = 0 /\ d.rangeCnt = Len(d.ranges)
  BY DEF PackedLists, Counted
<1>2. d.ranges \in Seq(AllChunks \X (1 .. ChunkCnt)) /\ RangesApart(d)
  BY <1>1, RangesAre
<1>3. d.rangeCnt \in 0 .. ChunkCnt /\ d.present \in 0 .. ChunkCnt
  <2>1. Len(d.ranges) \in Nat
    BY <1>1, RangeType DEF ListData
  <2> QED BY <1>1, <2>1, ChunkCount
<1> QED BY <1>1, <1>2, <1>3 DEF ListData, ChunkData, RangesRight

\* In every list of chunks, on every computer and of every client it knows, the ranges
\* are in order with gaps between them and iPresentChunkCnt is the number of chunks
\* in them; iChunkRangeCnt is the number of ranges unless SetComplete made the list.
\* A list on its way is packed with all of its ranges, and in order.
THEOREM TypeCorrect == Spec => []TypeOK
<1>1. IInv => TypeOK
  <2> SUFFICES ASSUME IInv PROVE TypeOK
    OBVIOUS
  <2>1. file \in [Computer -> SUBSET AllChunks] /\ conn \subseteq SUBSET Computer
    BY DEF IInv, Types
  <2>2. ASSUME NEW n \in Computer
        PROVE  /\ DOMAIN res[n] = DOMAIN Unlisted
               /\ {res[n].listed, res[n].removed, res[n].loading, res[n].dirty, res[n].discovering} \subseteq BOOLEAN
               /\ res[n].loads \subseteq Load
               /\ res[n].chunks \in ChunkData /\ RangesApart(res[n].chunks) /\ ChunksRight(res[n].chunks)
               /\ RangesRight(res[n].chunks) \/ (res[n].chunks = SetComplete /\ ~res[n].loading)
               /\ \A m \in DOMAIN res[n].peers :
                    LET d == res[n].peers[m]
                    IN  d \in ChunkData /\ RangesApart(d) /\ ChunksRight(d) /\ RangesRight(d)
    <3> DEFINE r == res[n]
    <3>1. r \in Resource /\ Sound(r)
      BY DEF IInv, Types
    <3> HIDE DEF r
    <3>2. DOMAIN r = DOMAIN Unlisted
      BY <3>1 DEF Resource, Unlisted
    <3>3. {r.listed, r.removed, r.loading, r.dirty, r.discovering} \subseteq BOOLEAN /\ r.loads \subseteq Load
      BY <3>1 DEF Resource
    <3>4. r.chunks \in Lists /\ (Counted(r.chunks) \/ (r.chunks = SetComplete /\ ~r.loading))
      BY <3>1 DEF Resource, Sound
    <3>5. r.chunks \in ChunkData /\ RangesApart(r.chunks) /\ ChunksRight(r.chunks)
      BY <3>4, ChunkDataIs
    <3>6. RangesRight(r.chunks) \/ (r.chunks = SetComplete /\ ~r.loading)
      BY <3>4 DEF Counted, RangesRight
    <3>7. ASSUME NEW m \in DOMAIN r.peers
          PROVE  LET d == r.peers[m] IN d \in ChunkData /\ RangesApart(d) /\ ChunksRight(d) /\ RangesRight(d)
      <4>1. r.peers[m] \in Lists /\ Counted(r.peers[m])
        BY <3>1, PeersAre DEF CountedLists
      <4> QED BY <4>1, ChunkDataIs DEF Counted, RangesRight
    <3> QED BY <3>2, <3>3, <3>5, <3>6, <3>7 DEF r
  <2>3. ASSUME NEW n \in Computer, NEW m \in Computer, NEW p \in Range(msg[n][m])
        PROVE  /\ p.type = "Stat" => /\ p.chunks \in ChunkData /\ RangesApart(p.chunks)
                                     /\ RangesRight(p.chunks) /\ p.chunks.present = 0
               /\ p.type = "Req" => p.chunk \in AllChunks
    <3>1. p \in Message
      <4> DEFINE s == msg[n][m]
      <4>1. s \in Seq(Message)
        BY DEF IInv, Types
      <4> HIDE DEF s
      <4> QED BY <4>1, RangeOf DEF s
    <3>2. (p.type = "Stat" => p.chunks \in PackedLists) /\ (p.type = "Req" => p.chunk \in AllChunks)
      BY <3>1 DEF Message
    <3> QED BY <3>2, SentListIs
  <2> QED BY <2>1, <2>2, <2>3 DEF TypeOK
<1> QED BY <1>1, Invariance, PTL

\* No chunk is loaded twice or from two computers, or when it is there, and the loads
\* never go beyond the limits (StartLoad).
THEOREM LoadsStayApart == Spec => []LoadsApart
<1>1. IInv => LoadsApart
  BY DEF IInv, LoadsApart, Separate
<1> QED BY <1>1, Invariance, PTL

-----------------------------------------------------------------------------
(* Discoveries.                                                            *)

\* Who discovers waits for every source it is connected to: the question or the
\* answer is on its way.
Waiting ==
    \A n \in Computer : \A m \in Peers(n) \cap Source :
        res[n].discovering /\ ~res[n].removed /\ res[m].listed
        => Discover \in Range(msg[n][m]) \/ Stat(msg[m][n])

\* A source does not load, and has it in its list until the client is removed.
SourcesStay == \A m \in Source : ~res[m].loading /\ (res[m].removed \/ ~res[m].listed => m \in left)

DiscoveryInv == Waiting /\ SourcesStay

LEMMA DiscoveryInit == Init => DiscoveryInv
<1> SUFFICES ASSUME Init PROVE DiscoveryInv
  OBVIOUS
<1>1. \A n \in Computer : res[n] = IF n \in Source THEN Complete ELSE Unlisted
  BY DEF Init
<1>2. ~Complete.loading /\ ~Complete.removed /\ Complete.listed /\ ~Complete.discovering /\ ~Unlisted.discovering
  BY DEF Complete, Unlisted
<1>3. \A n \in Computer : ~res[n].discovering
  BY <1>1, <1>2
<1> QED BY <1>1, <1>2, <1>3, Limits DEF DiscoveryInv, Waiting, SourcesStay

LEMMA DiscoveryStep ==
  ASSUME IInv, DiscoveryInv, Effect, Announced
  PROVE  DiscoveryInv'
<1>1. SourcesStay'
  BY Limits DEF DiscoveryInv, SourcesStay, Effect, SourceStep
<1>2. ASSUME NEW n \in Computer, NEW m \in Others(n) \cap Source, {n, m} \in conn',
             res'[n].discovering, ~res'[n].removed, res'[m].listed
      PROVE  Discover \in Range(msg'[n][m]) \/ Stat(msg'[m][n])
  <2>1. m \in Computer /\ {m, n} = {n, m} /\ Discover.type = "Dis"
    BY DEF Others, Discover
  <2> SUFFICES ASSUME res[n].discovering, ~res[n].removed, {n, m} \in conn
               PROVE  Discover \in Range(msg'[n][m]) \/ Stat(msg'[m][n])
    BY <1>2, <2>1 DEF Effect, DiscoverStep
  <2>2. res[m].listed
    <3>1. FileStep /\ SourcesStay
      BY DEF Effect, DiscoveryInv
    <3>2. ~res[m].listed => m \in left /\ ~Unlisted.listed
      BY <3>1 DEF SourcesStay, Unlisted
    <3> QED BY <1>2, <2>1, <3>1, <3>2 DEF FileStep, Written
  <2>3. Discover \in Range(msg[n][m]) \/ Stat(msg[m][n])
    BY <2>1, <2>2 DEF DiscoveryInv, Waiting, Peers, Others
  <2>4. CASE Discover \in Range(msg[n][m])
    BY <1>2, <2>1, <2>2, <2>4 DEF Effect, KeptStep
  <2>5. CASE Stat(msg[m][n])
    <3>1. PICK p \in Range(msg[m][n]) : p.type = "Stat"
      BY <2>5 DEF Stat
    <3>2. res[n].loading
      BY DEF IInv, Sound
    <3>3. p \in Range(msg'[m][n])
      BY <1>2, <2>1, <3>1, <3>2 DEF Effect, KeptStep
    <3> QED BY <3>1, <3>3 DEF Stat
  <2> QED BY <2>3, <2>4, <2>5
<1>3. Waiting'
  BY <1>2 DEF Waiting, Peers, Others
<1> QED BY <1>1, <1>3 DEF DiscoveryInv

\* A load is not given up as long as a computer is connected that has had the resource
\* from the beginning and still has it in its list: the discovery or the answer to it is
\* on its way, and a discovery is not given up (C4NetResDiscoverTimeout) before that.
THEOREM NobodyGivesUp ==
  ASSUME Announced
  PROVE  Spec => NotGivenUp
<1>1. ASSUME IInv, DiscoveryInv, Effect
      PROVE  \A n \in Computer \ left' :
               ~res[n].removed /\ res'[n].removed => \A m \in Peers(n) \cap Source : ~res[m].listed
  <2> SUFFICES ASSUME NEW n \in Computer \ left', ~res[n].removed, res'[n].removed,
                      NEW m \in Peers(n) \cap Source, res[m].listed
               PROVE  FALSE
    OBVIOUS
  <2>1. MayGiveUp(n)
    BY <1>1 DEF Effect, SourceStep
  <2>2. res[n].discovering /\ ~DiscoverUnderWay(n)
    BY <2>1 DEF MayGiveUp
  <2>3. Discover \in Range(msg[n][m]) \/ Stat(msg[m][n])
    BY <1>1, <2>2 DEF DiscoveryInv, Waiting
  <2>4. m \in Computer
    BY DEF Peers, Others
  <2> QED BY <2>2, <2>3, <2>4 DEF DiscoverUnderWay, Stat
<1>2. IInv /\ DiscoveryInv /\ [Effect]_vars => DiscoveryInv'
  <2>1. ASSUME IInv, DiscoveryInv, UNCHANGED vars PROVE DiscoveryInv'
    <3>1. res' = res /\ conn' = conn /\ msg' = msg /\ left' = left
      BY <2>1 DEF vars
    <3> QED BY <2>1, <3>1 DEF DiscoveryInv, Waiting, SourcesStay, Peers
  <2> QED BY <2>1, DiscoveryStep
<1>3. Spec => []DiscoveryInv
  BY <1>2, DiscoveryInit, Invariance, PTL DEF Spec
<1>4. Spec => [][IInv /\ DiscoveryInv /\ Effect]_vars
  BY <1>3, Invariance, PTL
<1> QED BY <1>1, <1>4, PTL DEF NotGivenUp

-----------------------------------------------------------------------------
(* Answers.                                                                *)

\* Nobody loses what he has of the resource before he has removed the client that brought it.
NobodyForgets == \A n \in Computer \ left : res[n].listed /\ file[n] # {} => res'[n].listed

\* What others may ask a computer for: one that no longer has it does not answer.
Offered(m) == IF res[m].listed THEN file[m] ELSE IF m \in left THEN AllChunks ELSE {}

AnswerInv ==
    /\ \A n \in Computer : res[n].listed => Chunks(res[n].chunks) \subseteq file[n] /\ (~res[n].loading => file[n] = AllChunks)
    /\ \A n, m \in Computer :
         /\ m \in DOMAIN res[n].peers => Chunks(res[n].peers[m]) \subseteq Offered(m)
         /\ \A p \in Range(msg[m][n]) : p.type = "Stat" => Chunks(p.chunks) \subseteq Offered(m)
         /\ \A p \in Range(msg[n][m]) : p.type = "Req" => p.chunk \in Offered(m)
         /\ \A d \in Range(data[m][n]) : d.good

LEMMA AnswerInit == Init => AnswerInv
<1> SUFFICES ASSUME Init PROVE AnswerInv
  OBVIOUS
<1>1. \A n \in Computer : res[n] \in {Complete, Unlisted} /\ (res[n].listed => n \in Source /\ res[n] = Complete)
  BY DEF Init, Complete, Unlisted
<1>2. ASSUME NEW n \in Computer, res[n].listed
      PROVE  Chunks(res[n].chunks) \subseteq file[n] /\ file[n] = AllChunks
  <2>1. res[n] = Complete /\ file[n] = AllChunks
    BY <1>1, <1>2 DEF Init
  <2>2. Complete.chunks = SetComplete
    BY DEF Complete, Unlisted
  <2> QED BY <2>1, <2>2, FullList DEF AllChunks
<1>3. \A n \in Computer : DOMAIN res[n].peers = {}
  <2>1. DOMAIN NoClient = {}
    BY DEF NoClient
  <2>2. Complete.peers = NoClient /\ Unlisted.peers = NoClient
    BY DEF Complete, Unlisted
  <2> QED BY <1>1, <2>1, <2>2
<1>4. \A n, m \in Computer : Range(msg[n][m]) = {} /\ Range(data[n][m]) = {}
  <2>1. Range(<<>>) = {}
    BY RangeSmall
  <2> QED BY <2>1 DEF Init, Nothing
<1> QED BY <1>2, <1>3, <1>4 DEF AnswerInv

LEMMA AnswerStep ==
  ASSUME IInv, IInv', AnswerInv, Effect, NobodyForgets
  PROVE  AnswerInv'
<1>1. /\ MessagesStep /\ DataStep /\ PeersStep /\ FileStep /\ left \subseteq left'
  BY DEF Effect
<1>2. ASSUME NEW n \in Computer
      PROVE  /\ Offered(n) \subseteq Offered(n)'
             /\ res'[n].listed => Chunks(res'[n].chunks) \subseteq file'[n] /\ (~res'[n].loading => file'[n] = AllChunks)
  <2>1. /\ file[n] \in SUBSET AllChunks /\ file'[n] \in SUBSET AllChunks
        /\ res[n].listed => Chunks(res[n].chunks) \subseteq file[n] /\ (~res[n].loading => file[n] = AllChunks)
    BY DEF IInv, Types, AnswerInv
  <2>2. CASE /\ file'[n] = file[n] /\ res'[n].chunks = res[n].chunks
             /\ res'[n].listed = res[n].listed /\ res'[n].loading = res[n].loading
    BY <1>1, <2>1, <2>2 DEF Offered
  <2>3. CASE ~res[n].listed /\ n \notin left /\ file'[n] = {} /\ res'[n] = SetLoad
    <3>1. SetLoad.loading /\ Chunks(SetLoad.chunks) = {}
      BY EmptyList DEF SetLoad, Unlisted
    <3> QED BY <2>3, <3>1 DEF Offered
  <2>4. CASE res[n].removed /\ file'[n] = {} /\ res'[n] = Unlisted
    <3>1. ~Unlisted.listed /\ res[n].listed
      BY <2>4 DEF Unlisted, IInv, Sound
    <3>2. n \in left' \/ file[n] = {}
      BY <1>1, <2>4, <3>1 DEF NobodyForgets
    <3> QED BY <2>1, <2>4, <3>1, <3>2 DEF Offered
  <2>5. CASE \E m \in Computer : \E d \in Range(data[m][n]) : Written(n, d)
    <3>1. PICK m \in Computer : \E d \in Range(data[m][n]) : Written(n, d)
      BY <2>5
    <3> PICK d \in Range(data[m][n]) : Written(n, d)
      BY <3>1
    <3>2. d.good
      BY DEF AnswerInv
    <3>3. file'[n] = file[n] \cup {d.chunk} /\ res[n].listed /\ res'[n].listed
      BY <3>2 DEF Written
    <3>4. Chunks(res'[n].chunks) \subseteq file'[n] /\ (~res'[n].loading => AllChunks \subseteq file'[n])
      BY <2>1, <3>3 DEF Written
    <3> QED BY <2>1, <3>3, <3>4 DEF Offered
  <2> QED BY <1>1, <2>2, <2>3, <2>4, <2>5 DEF FileStep
<1>3. ASSUME NEW n \in Computer, NEW m \in Computer
      PROVE  /\ m \in DOMAIN res'[n].peers => Chunks(res'[n].peers[m]) \subseteq Offered(m)'
             /\ \A p \in Range(msg'[m][n]) : p.type = "Stat" => Chunks(p.chunks) \subseteq Offered(m)'
             /\ \A p \in Range(msg'[n][m]) : p.type = "Req" => p.chunk \in Offered(m)'
             /\ \A d \in Range(data'[m][n]) : d.good
  <2>1. /\ m \in DOMAIN res[n].peers => Chunks(res[n].peers[m]) \subseteq Offered(m)
        /\ \A p \in Range(msg[m][n]) : p.type = "Stat" => Chunks(p.chunks) \subseteq Offered(m)
        /\ \A p \in Range(msg[n][m]) : p.type = "Req" => p.chunk \in Offered(m)
        /\ \A d \in Range(data[m][n]) : d.good
    BY DEF AnswerInv
  <2>2. Offered(m) \subseteq Offered(m)'
    BY <1>2
  <2>3. m \in DOMAIN res'[n].peers => Chunks(res'[n].peers[m]) \subseteq Offered(m)'
    BY <1>1, <2>1, <2>2 DEF PeersStep
  <2>4. ASSUME NEW p \in Range(msg'[m][n]), p.type = "Stat" PROVE Chunks(p.chunks) \subseteq Offered(m)'
    <3>1. CASE p \in Range(msg[m][n])
      BY <2>1, <2>2, <2>4, <3>1
    <3>2. CASE p \in Says(res'[m], n)
      <4>1. res'[m].listed /\ Chunks(p.chunks) = Chunks(res'[m].chunks)
        BY <2>4, <3>2 DEF Says, Discover
      <4> QED BY <1>2, <4>1 DEF Offered
    <3> QED BY <1>1, <3>1, <3>2 DEF MessagesStep
  <2>5. ASSUME NEW p \in Range(msg'[n][m]), p.type = "Req" PROVE p.chunk \in Offered(m)'
    <3>1. CASE p \in Range(msg[n][m])
      BY <2>1, <2>2, <2>5, <3>1
    <3>2. CASE p \in Says(res'[n], m)
      <4>1. m \in DOMAIN res'[n].peers /\ p.chunk \in Chunks(res'[n].peers[m])
        BY <2>5, <3>2 DEF Says, Discover
      <4> QED BY <2>3, <4>1
    <3> QED BY <1>1, <3>1, <3>2 DEF MessagesStep
  <2>6. ASSUME NEW d \in Range(data'[m][n]) PROVE d.good
    <3>1. CASE d \in Range(data[m][n])
      BY <2>1, <3>1
    <3>2. CASE res[m].listed /\ (d.chunk \in file[m] => d.good) /\ Request(d.chunk) \in Range(msg[n][m])
      <4>1. Request(d.chunk).type = "Req" /\ Request(d.chunk).chunk = d.chunk
        BY DEF Request
      <4>2. d.chunk \in Offered(m)
        BY <2>1, <3>2, <4>1
      <4> QED BY <3>2, <4>2 DEF Offered
    <3> QED BY <1>1, <3>1, <3>2 DEF DataStep
  <2> QED BY <2>3, <2>4, <2>5, <2>6
<1> QED BY <1>2, <1>3 DEF AnswerInv

\* As long as nobody loses what he has before the client that brought it is removed:
\* whoever takes it for complete has the right content, although SendChunk sends
\* whatever is asked for, and what is asked for is there.
THEOREM FilesAreRight == Spec /\ [][NobodyForgets]_vars => [](FileComplete /\ RequestsAnswerable)
<1>1. IInv /\ IInv' /\ AnswerInv /\ [Effect]_vars /\ [NobodyForgets]_vars => AnswerInv'
  <2>1. ASSUME AnswerInv, UNCHANGED vars PROVE AnswerInv'
    <3>1. res' = res /\ file' = file /\ msg' = msg /\ data' = data /\ left' = left
      BY <2>1 DEF vars
    <3> QED BY <2>1, <3>1 DEF AnswerInv, Offered
  <2> QED BY <2>1, AnswerStep
<1>2. Spec /\ [][NobodyForgets]_vars => []AnswerInv
  BY <1>1, AnswerInit, Invariance, PTL DEF Spec
<1>3. AnswerInv => FileComplete /\ RequestsAnswerable
  BY DEF AnswerInv, FileComplete, RequestsAnswerable, Offered
<1> QED BY <1>2, <1>3, PTL

\* As long as nobody loses what he has like this: what a computer asks another one
\* for, which SendChunk does not look for, is there.
THEOREM RequestsFound == Spec /\ [][NobodyForgets]_vars => []RequestsAnswerable
BY FilesAreRight, PTL

=============================================================================
