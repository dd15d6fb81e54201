--------------------------- MODULE Effects_proofs ---------------------------
(***************************************************************************)
(* If scripts leave the list of effects alone in the temporary stop, the   *)
(* question about a new effect and the start before a removal, and effects *)
(* do not refuse to be removed while they are stopped, then starts and     *)
(* stops are balanced and layered, and the list is restored, whatever      *)
(* the other callbacks do, for every number of effects.                    *)
(***************************************************************************)
EXTENDS Effects, BoundedRecursion, SequenceTheorems, TLAPS

\* Where e is in a list, and that no effect is in it twice.
Pos(l, e)   == CHOOSE i \in DOMAIN l : l[i] = e
Distinct(l) == \A i, j \in 1 .. Len(l) : l[i] = l[j] => i = j

LEMMA PosIs ==
  ASSUME NEW S, NEW l \in Seq(S), Distinct(l)
  PROVE  /\ \A i \in 1 .. Len(l) : Pos(l, l[i]) = i
         /\ \A e \in Range(l) : Pos(l, e) \in 1 .. Len(l) /\ l[Pos(l, e)] = e
<1>1. DOMAIN l = 1 .. Len(l)
  OBVIOUS
<1>2. ASSUME NEW i \in 1 .. Len(l) PROVE Pos(l, l[i]) = i
  <2>1. Pos(l, l[i]) \in DOMAIN l /\ l[Pos(l, l[i])] = l[i]
    BY <1>1 DEF Pos
  <2> QED BY <1>1, <2>1 DEF Distinct
<1>3. ASSUME NEW e \in Range(l) PROVE Pos(l, e) \in 1 .. Len(l) /\ l[Pos(l, e)] = e
  <2>1. PICK i \in DOMAIN l : l[i] = e
    BY DEF Range
  <2> QED BY <1>1, <2>1 DEF Pos
<1> QED BY <1>2, <1>3

\* An effect that is inserted leaves the order of the others alone.
Inserted(S, l, k, n, m) ==
    /\ m \in Seq(S) /\ Len(m) = Len(l) + 1
    /\ \A i \in 1 .. k - 1 : m[i] = l[i]
    /\ m[k] = n
    /\ \A i \in k + 1 .. Len(l) + 1 : m[i] = l[i - 1]

LEMMA InsertIs ==
  ASSUME NEW S, NEW l \in Seq(S), NEW k \in 1 .. Len(l) + 1, NEW n \in S
  PROVE  Inserted(S, l, k, n, InsertAt(l, k, n))
<1> DEFINE a == SubSeq(l, 1, k - 1)
           b == SubSeq(l, k, Len(l))
           len == Len(l)
<1>1. len \in Nat /\ k \in 1 .. len + 1 /\ \A i \in 1 .. len : l[i] \in S
  OBVIOUS
<1>2. a \in Seq(S) /\ Len(a) = k - 1 /\ \A i \in 1 .. k - 1 : a[i] = l[i]
  <2> HIDE DEF len
  <2>1. \A i \in 1 .. k - 1 : l[i] \in S
    BY <1>1
  <2>2. 1 \in Int /\ k - 1 \in Int
    BY <1>1
  <2>3. /\ a \in Seq(S) /\ Len(a) = IF 1 <= k - 1 THEN k - 1 - 1 + 1 ELSE 0
        /\ \A i \in 1 .. k - 1 - 1 + 1 : a[i] = l[1 + i - 1]
    BY <2>1, <2>2, SubSeqProperties
  <2> QED BY <1>1, <2>3
<1>3. b \in Seq(S) /\ Len(b) = len - k + 1 /\ \A i \in 1 .. len - k + 1 : b[i] = l[k + i - 1]
  <2>1. \A i \in k .. len : l[i] \in S
    BY <1>1
  <2>2. k \in Int /\ len \in Int
    BY <1>1
  <2>3. /\ b \in Seq(S) /\ Len(b) = IF k <= len THEN len - k + 1 ELSE 0
        /\ \A i \in 1 .. len - k + 1 : b[i] = l[k + i - 1]
    BY <2>1, <2>2, SubSeqProperties
  <2> QED BY <1>1, <2>3
<1> DEFINE c == a \o <<n>>
<1>4. c \in Seq(S) /\ Len(c) = k /\ \A i \in 1 .. k : c[i] = IF i < k THEN l[i] ELSE n
  <2> HIDE DEF a
  <2>1. <<n>> \in Seq(S) /\ Len(<<n>>) = 1 /\ <<n>>[1] = n
    OBVIOUS
  <2> DEFINE o == <<n>>
  <2> HIDE DEF o
  <2>2. /\ a \o o \in Seq(S) /\ Len(a \o o) = Len(a) + Len(o)
        /\ \A i \in 1 .. Len(a) + Len(o) : (a \o o)[i] = IF i <= Len(a) THEN a[i] ELSE o[i - Len(a)]
    BY <1>2, <2>1, ConcatProperties DEF o
  <2>3. Len(o) = 1 /\ o[1] = n
    BY <2>1 DEF o
  <2>4. c = a \o o
    BY DEF o
  <2> HIDE DEF c
  <2> QED BY <1>1, <1>2, <2>2, <2>3, <2>4
<1>5. InsertAt(l, k, n) = c \o b
  BY DEF InsertAt
<1> HIDE DEF a, b, c, len
<1>6. /\ c \o b \in Seq(S) /\ Len(c \o b) = Len(c) + Len(b)
      /\ \A i \in 1 .. Len(c) + Len(b) : (c \o b)[i] = IF i <= Len(c) THEN c[i] ELSE b[i - Len(c)]
  BY <1>3, <1>4, ConcatProperties
<1>7. Len(c) + Len(b) = len + 1
  BY <1>1, <1>3, <1>4
<1>8. \A i \in 1 .. k - 1 : (c \o b)[i] = l[i]
  BY <1>1, <1>4, <1>6, <1>7
<1>9. (c \o b)[k] = n
  BY <1>1, <1>4, <1>6, <1>7
<1>10. ASSUME NEW i \in k + 1 .. len + 1 PROVE (c \o b)[i] = l[i - 1]
  <2> DEFINE j == i - k
  <2>1. (c \o b)[i] = b[j] /\ j \in 1 .. len - k + 1
    BY <1>1, <1>4, <1>6, <1>7
  <2>2. k + j - 1 = i - 1
    BY <1>1
  <2> HIDE DEF j
  <2>3. b[j] = l[k + j - 1]
    BY <1>3, <2>1
  <2> QED BY <2>1, <2>2, <2>3
<1> QED BY <1>5, <1>6, <1>7, <1>8, <1>9, <1>10 DEF len, Inserted

LEMMA InsertPos ==
  ASSUME NEW S, NEW l \in Seq(S), Distinct(l), NEW k \in 1 .. Len(l) + 1, NEW n \in S, n \notin Range(l)
  PROVE  LET m == InsertAt(l, k, n)
         IN  /\ m \in Seq(S) /\ Distinct(m) /\ Range(m) = Range(l) \cup {n}
             /\ \A x, y \in Range(l) : Pos(m, x) < Pos(m, y) <=> Pos(l, x) < Pos(l, y)
             /\ \A x, y \in Range(l) : Pos(m, x) <= Pos(m, y) <=> Pos(l, x) <= Pos(l, y)
             /\ \A x \in Range(l) : /\ Pos(m, x) < Pos(m, n) <=> Pos(l, x) < k
                                    /\ Pos(m, n) < Pos(m, x) <=> Pos(l, x) >= k
<1> DEFINE len == Len(l)
           m == InsertAt(l, k, n)
<1>1. /\ m \in Seq(S) /\ Len(m) = len + 1
      /\ \A i \in 1 .. k - 1 : m[i] = l[i]
      /\ m[k] = n
      /\ \A i \in k + 1 .. len + 1 : m[i] = l[i - 1]
  <2>1. Inserted(S, l, k, n, m)
    BY InsertIs
  <2> HIDE DEF m
  <2> QED BY <2>1 DEF Inserted
<1> HIDE DEF m
<1>2. len \in Nat /\ k \in 1 .. len + 1 /\ DOMAIN l = 1 .. len /\ DOMAIN m = 1 .. len + 1
  BY <1>1
<1>3. \A i \in 1 .. len : l[i] # n
  BY <1>2 DEF Range
<1> HIDE DEF len
\* Where the element at i comes from.
<1> DEFINE from(i) == IF i < k THEN i ELSE i - 1
<1>4. ASSUME NEW i \in 1 .. len + 1, i # k PROVE from(i) \in 1 .. len /\ m[i] = l[from(i)]
  BY <1>1, <1>2, <1>4
<1>5. ASSUME NEW i \in 1 .. len + 1, NEW j \in 1 .. len + 1, i # k, j # k, from(i) = from(j) PROVE i = j
  BY <1>2, <1>5
<1> HIDE DEF from
<1>6. ASSUME NEW i \in 1 .. len + 1, NEW j \in 1 .. len + 1, m[i] = m[j] PROVE i = j
  <2>1. \A p, q \in 1 .. len : l[p] = l[q] => p = q
    BY DEF Distinct, len
  <2>2. CASE i # k /\ j # k
    BY <1>6, <1>4, <1>5, <2>1, <2>2
  <2>3. CASE i = k \/ j = k
    BY <1>1, <1>3, <1>6, <1>4, <2>3
  <2> QED BY <2>2, <2>3
<1>7. Distinct(m)
  BY <1>1, <1>6 DEF Distinct
<1>8. ASSUME NEW i \in 1 .. len PROVE m[IF i < k THEN i ELSE i + 1] = l[i]
  <2>1. CASE i < k
    <3>1. i \in 1 .. len + 1
      BY <1>2
    <3> QED BY <1>1, <2>1, <3>1
  <2>2. CASE ~(i < k)
    <3> DEFINE j == i + 1
    <3>1. j \in 1 .. len + 1 /\ ~(j < k) /\ j # k /\ j - 1 = i
      BY <1>2, <2>2
    <3>2. m[j] = l[j - 1]
      <4> HIDE DEF j
      <4> QED BY <1>1, <3>1
    <3> QED BY <2>2, <3>1, <3>2
  <2> QED BY <2>1, <2>2
<1>9. Range(m) = Range(l) \cup {n}
  <2>1. Range(m) \subseteq Range(l) \cup {n}
    BY <1>1, <1>2, <1>4 DEF Range
  <2>2. n \in Range(m)
    <3>1. m[k] = n
      BY <1>1, <1>2
    <3> QED BY <1>2, <3>1 DEF Range
  <2>3. ASSUME NEW x \in Range(l) PROVE x \in Range(m)
    <3>1. PICK i \in 1 .. len : l[i] = x
      BY <1>2 DEF Range
    <3>2. (IF i < k THEN i ELSE i + 1) \in 1 .. len + 1
      BY <1>2
    <3> QED BY <1>2, <1>8, <3>1, <3>2 DEF Range
  <2> QED BY <2>1, <2>2, <2>3
<1>10. ASSUME NEW x \in Range(l)
      PROVE  Pos(l, x) \in 1 .. len /\ Pos(m, x) = IF Pos(l, x) < k THEN Pos(l, x) ELSE Pos(l, x) + 1
  <2>1. Pos(l, x) \in 1 .. len /\ l[Pos(l, x)] = x
    BY PosIs DEF len
  <2> DEFINE i == Pos(l, x)
             j == IF i < k THEN i ELSE i + 1
  <2>2. m[j] = x
    <3> HIDE DEF i
    <3> QED BY <1>8, <2>1 DEF i
  <2>3. j \in 1 .. Len(m)
    <3> HIDE DEF i
    <3> QED BY <1>1, <1>2, <2>1 DEF i
  <2>4. Pos(m, m[j]) = j
    <3> HIDE DEF j
    <3> QED BY <1>1, <1>7, <2>3, PosIs
  <2> QED BY <2>1, <2>2, <2>4
<1>11. Pos(m, n) = k
  <2>1. m[k] = n /\ k \in 1 .. Len(m)
    BY <1>1, <1>2
  <2> QED BY <1>1, <1>7, <2>1, PosIs
<1> QED BY <1>1, <1>2, <1>7, <1>9, <1>10, <1>11 DEF m

\* What is left when an element is taken out of a sequence.
Removed(S, l, k, m) ==
    /\ m \in Seq(S) /\ Len(m) = Len(l) - 1
    /\ \A i \in 1 .. k - 1 : m[i] = l[i]
    /\ \A i \in k .. Len(l) - 1 : m[i] = l[i + 1]

LEMMA RemoveIs ==
  ASSUME NEW S, NEW l \in Seq(S), NEW k \in 1 .. Len(l)
  PROVE  Removed(S, l, k, RemoveAt(l, k))
<1> DEFINE a == SubSeq(l, 1, k - 1)
           b == SubSeq(l, k + 1, Len(l))
           len == Len(l)
<1>1. len \in Nat /\ k \in 1 .. len /\ \A i \in 1 .. len : l[i] \in S
  OBVIOUS
<1>2. a \in Seq(S) /\ Len(a) = k - 1 /\ \A i \in 1 .. k - 1 : a[i] = l[i]
  <2> HIDE DEF len
  <2>1. \A i \in 1 .. k - 1 : l[i] \in S
    BY <1>1
  <2>2. 1 \in Int /\ k - 1 \in Int
    BY <1>1
  <2>3. /\ a \in Seq(S) /\ Len(a) = IF 1 <= k - 1 THEN k - 1 - 1 + 1 ELSE 0
        /\ \A i \in 1 .. k - 1 - 1 + 1 : a[i] = l[1 + i - 1]
    BY <2>1, <2>2, SubSeqProperties
  <2> QED BY <1>1, <2>3
<1>3. b \in Seq(S) /\ Len(b) = len - k /\ \A i \in 1 .. len - k : b[i] = l[k + i]
  <2>1. \A i \in k + 1 .. len : l[i] \in S
    BY <1>1
  <2>2. k + 1 \in Int /\ len \in Int
    BY <1>1
  <2>3. /\ b \in Seq(S) /\ Len(b) = IF k + 1 <= len THEN len - (k + 1) + 1 ELSE 0
        /\ \A i \in 1 .. len - (k + 1) + 1 : b[i] = l[(k + 1) + i - 1]
    BY <2>1, <2>2, SubSeqProperties
  <2> HIDE DEF b, len
  <2>4. \A i \in 1 .. len - k : i \in 1 .. len - (k + 1) + 1 /\ (k + 1) + i - 1 = k + i
    BY <1>1
  <2> QED BY <1>1, <2>3, <2>4
<1>4. RemoveAt(l, k) = a \o b
  BY DEF RemoveAt
<1> HIDE DEF a, b, len
<1>5. /\ a \o b \in Seq(S) /\ Len(a \o b) = Len(a) + Len(b)
      /\ \A i \in 1 .. Len(a) + Len(b) : (a \o b)[i] = IF i <= Len(a) THEN a[i] ELSE b[i - Len(a)]
  BY <1>2, <1>3, ConcatProperties
<1>6. Len(a) + Len(b) = len - 1
  BY <1>1, <1>2, <1>3
<1>7. \A i \in 1 .. k - 1 : (a \o b)[i] = l[i]
  BY <1>1, <1>2, <1>5, <1>6
<1>8. ASSUME NEW i \in k .. len - 1 PROVE (a \o b)[i] = l[i + 1]
  <2> DEFINE j == i - (k - 1)
  <2>1. (a \o b)[i] = b[j] /\ j \in 1 .. len - k
    BY <1>1, <1>2, <1>5, <1>6
  <2>2. k + j = i + 1
    BY <1>1
  <2> HIDE DEF j
  <2> QED BY <1>3, <2>1, <2>2
<1> QED BY <1>4, <1>5, <1>6, <1>7, <1>8 DEF len, Removed

LEMMA RemoveRange ==
  ASSUME NEW S, NEW l \in Seq(S), Distinct(l), NEW k \in 1 .. Len(l), NEW m, Removed(S, l, k, m)
  PROVE  /\ Distinct(m) /\ Range(m) = Range(l) \ {l[k]}
         /\ \A i \in 1 .. Len(m) : \E j \in 1 .. Len(l) : m[i] = l[j] /\ (j = i \/ j = i + 1) /\ (j = i <=> i < k)
<1> DEFINE len == Len(l)
<1>1. /\ m \in Seq(S) /\ Len(m) = len - 1
      /\ \A i \in 1 .. k - 1 : m[i] = l[i]
      /\ \A i \in k .. len - 1 : m[i] = l[i + 1]
  BY DEF Removed
<1>2. len \in Nat /\ k \in 1 .. len /\ DOMAIN l = 1 .. len /\ DOMAIN m = 1 .. len - 1
  BY <1>1
<1>3. \A p, q \in 1 .. len : l[p] = l[q] => p = q
  BY DEF Distinct
<1> HIDE DEF len
<1> DEFINE from(i) == IF i < k THEN i ELSE i + 1
<1>4. ASSUME NEW i \in 1 .. len - 1 PROVE from(i) \in 1 .. len /\ m[i] = l[from(i)] /\ from(i) # k
  <2>1. CASE i < k
    BY <1>1, <1>2, <2>1
  <2>2. CASE ~(i < k)
    <3>1. i \in k .. len - 1
      BY <1>2, <2>2
    <3>2. m[i] = l[i + 1]
      BY <1>1, <3>1
    <3> QED BY <1>2, <2>2, <3>2
  <2> QED BY <2>1, <2>2
<1>5. ASSUME NEW i \in 1 .. len - 1, NEW j \in 1 .. len - 1, from(i) = from(j) PROVE i = j
  BY <1>2, <1>5
<1>6. ASSUME NEW i \in 1 .. len, i # k PROVE \E j \in 1 .. len - 1 : from(j) = i
  <2>1. CASE i < k
    BY <1>2, <2>1
  <2>2. CASE ~(i < k)
    <3>1. i - 1 \in 1 .. len - 1 /\ from(i - 1) = i
      BY <1>2, <1>6, <2>2
    <3> QED BY <3>1
  <2> QED BY <2>1, <2>2
<1>7. ASSUME NEW i \in 1 .. len - 1 PROVE \E j \in 1 .. len : m[i] = l[j] /\ (j = i \/ j = i + 1) /\ (j = i <=> i < k)
  <2>1. (from(i) = i \/ from(i) = i + 1) /\ (from(i) = i <=> i < k)
    BY <1>2
  <2> HIDE DEF from
  <2> QED BY <1>4, <2>1
<1> HIDE DEF from
<1>8. Distinct(m)
  <2> SUFFICES ASSUME NEW i \in 1 .. len - 1, NEW j \in 1 .. len - 1, m[i] = m[j] PROVE i = j
    BY <1>1 DEF Distinct
  <2>1. from(i) = from(j)
    BY <1>3, <1>4
  <2> QED BY <1>5, <2>1
<1>9. Range(m) = Range(l) \ {l[k]}
  <2>1. ASSUME NEW x \in Range(m) PROVE x \in Range(l) \ {l[k]}
    <3>1. PICK i \in 1 .. len - 1 : m[i] = x
      BY <1>2 DEF Range
    <3> QED BY <1>2, <1>3, <1>4, <3>1 DEF Range
  <2>2. ASSUME NEW x \in Range(l) \ {l[k]} PROVE x \in Range(m)
    <3>1. PICK i \in 1 .. len : l[i] = x
      BY <1>2 DEF Range
    <3>2. PICK j \in 1 .. len - 1 : from(j) = i
      BY <1>6, <3>1
    <3> QED BY <1>2, <1>4, <3>1, <3>2 DEF Range
  <2> QED BY <2>1, <2>2
<1> QED BY <1>1, <1>7, <1>8, <1>9 DEF len

\* The steps that are left when the first is done, when more come before them, and
\* when another one takes the place of the first.
Popped(S, t, u) == /\ u \in Seq(S) /\ Len(u) = Len(t) - 1
                   /\ \A i \in 1 .. Len(t) - 1 : u[i] = t[i + 1]

Pushed(S, a, t, u) == /\ u \in Seq(S) /\ Len(u) = Len(a) + Len(t)
                      /\ \A i \in 1 .. Len(a) : u[i] = a[i]
                      /\ \A i \in Len(a) + 1 .. Len(a) + Len(t) : u[i] = t[i - Len(a)]
                      /\ Range(u) = Range(a) \cup Range(t)

Swapped(S, t, x, u) == /\ u \in Seq(S) /\ Len(u) = Len(t)
                       /\ u[1] = x
                       /\ \A i \in 2 .. Len(t) : u[i] = t[i]

LEMMA PopIs ==
  ASSUME NEW S, NEW t \in Seq(S), t # <<>>
  PROVE  /\ Popped(S, t, Tail(t)) /\ Head(t) = t[1] /\ 1 \in 1 .. Len(t)
         /\ Range(t) = {t[1]} \cup Range(Tail(t))
<1>1. Popped(S, t, Tail(t)) /\ Head(t) = t[1] /\ 1 \in 1 .. Len(t)
  BY HeadTailProperties DEF Popped
<1> DEFINE len == Len(t)
           u == Tail(t)
<1>2. /\ u \in Seq(S) /\ Len(u) = len - 1 /\ 1 \in 1 .. len /\ len \in Nat
      /\ \A i \in 1 .. len - 1 : u[i] = t[i + 1]
  BY <1>1 DEF Popped
<1>3. DOMAIN t = 1 .. len /\ DOMAIN u = 1 .. len - 1
  BY <1>2
<1> HIDE DEF len, u
<1>4. ASSUME NEW r \in Range(t) PROVE r \in {t[1]} \cup Range(u)
  <2>1. PICK i \in 1 .. len : t[i] = r
    BY <1>3 DEF Range
  <2>2. CASE i # 1
    <3> DEFINE j == i - 1
    <3>1. j \in 1 .. len - 1 /\ j + 1 = i
      BY <1>2, <2>2
    <3> HIDE DEF j
    <3>2. u[j] = r
      BY <1>2, <2>1, <3>1
    <3> QED BY <1>3, <3>1, <3>2 DEF Range
  <2> QED BY <2>1, <2>2
<1>5. ASSUME NEW r \in {t[1]} \cup Range(u) PROVE r \in Range(t)
  <2>1. CASE r = t[1]
    BY <1>2, <1>3, <2>1 DEF Range
  <2>2. CASE r \in Range(u)
    <3>1. PICK i \in 1 .. len - 1 : u[i] = r
      BY <1>3, <2>2 DEF Range
    <3>2. i + 1 \in 1 .. len /\ t[i + 1] = r
      BY <1>2, <3>1
    <3> QED BY <1>3, <3>2 DEF Range
  <2> QED BY <1>5, <2>1, <2>2
<1> QED BY <1>1, <1>4, <1>5 DEF u

LEMMA PushIs ==
  ASSUME NEW S, NEW a \in Seq(S), NEW t \in Seq(S)
  PROVE  Pushed(S, a, t, a \o t)
<1>1. /\ a \o t \in Seq(S) /\ Len(a \o t) = Len(a) + Len(t)
      /\ \A i \in 1 .. Len(a) + Len(t) : (a \o t)[i] = IF i <= Len(a) THEN a[i] ELSE t[i - Len(a)]
  BY ConcatProperties
<1>2. Range(a \o t) = Range(a) \cup Range(t)
  BY RangeConcatenation
<1> DEFINE u == a \o t
           n == Len(a)
           k == Len(t)
<1>3. n \in Nat /\ k \in Nat
  OBVIOUS
<1>4. \A i \in 1 .. n + k : u[i] = IF i <= n THEN a[i] ELSE t[i - n]
  BY <1>1
<1> HIDE DEF u, n, k
<1>5. \A i \in 1 .. n : u[i] = a[i]
  BY <1>3, <1>4
<1>6. \A i \in n + 1 .. n + k : u[i] = t[i - n]
  BY <1>3, <1>4
<1> QED BY <1>1, <1>2, <1>5, <1>6 DEF u, n, k, Pushed

LEMMA SwapIs ==
  ASSUME NEW S, NEW t \in Seq(S), t # <<>>, NEW x \in S
  PROVE  /\ Swapped(S, t, x, <<x>> \o Tail(t))
         /\ Range(<<x>> \o Tail(t)) = {x} \cup Range(Tail(t))
<1> DEFINE a == <<x>>
           u == a \o Tail(t)
<1>1. a \in Seq(S) /\ Len(a) = 1 /\ a[1] = x /\ Range(a) = {x}
  BY DEF Range
<1>2. Popped(S, t, Tail(t)) /\ 1 \in 1 .. Len(t)
  BY PopIs
<1>3. Tail(t) \in Seq(S)
  BY <1>2 DEF Popped
<1> HIDE DEF a
<1>4. Pushed(S, a, Tail(t), u)
  BY <1>1, <1>3, PushIs
<1> HIDE DEF u
<1>5. u \in Seq(S) /\ Len(u) = Len(t)
  BY <1>1, <1>2, <1>4 DEF Popped, Pushed
<1>6. u[1] = x
  BY <1>1, <1>4 DEF Pushed
<1>7. ASSUME NEW i \in 2 .. Len(t) PROVE u[i] = t[i]
  <2> DEFINE j == i - 1
  <2>1. j \in 1 .. Len(t) - 1 /\ j + 1 = i /\ i \in 1 + 1 .. 1 + (Len(t) - 1)
    BY <1>2
  <2>2. u[i] = Tail(t)[j]
    BY <1>1, <1>2, <1>4, <2>1 DEF Popped, Pushed
  <2> HIDE DEF j
  <2>3. Tail(t)[j] = t[j + 1]
    BY <1>2, <2>1 DEF Popped
  <2> QED BY <2>1, <2>2, <2>3
<1> QED BY <1>1, <1>4, <1>5, <1>6, <1>7 DEF Swapped, Pushed, u, a

-----------------------------------------------------------------------------
(* TempRemoveUpperEffects.                                                 *)

\* u are effects that are active behind position p and not behind n, the last first;
\* all of them, when none behind p has priority 1.
UpTo(l, P, p, n, u) ==
    /\ u \in Seq(Effect)
    /\ \A i \in 1 .. Len(u) : /\ u[i] \in Range(l) /\ P[u[i]] > 0
                              /\ p < Pos(l, u[i]) /\ Pos(l, u[i]) <= n
    /\ \A i, j \in 1 .. Len(u) : i < j => Pos(l, u[j]) < Pos(l, u[i])
    /\ (\A x \in Range(l) : p < Pos(l, x) => P[x] # 1)
         => \A j \in p + 1 .. n : P[l[j]] > 0 => l[j] \in Range(u)

LEMMA UpToNext ==
  ASSUME NEW l \in Seq(Effect), Distinct(l), NEW P \in [Effect -> Int], NEW p \in 1 .. Len(l),
         NEW n \in 1 .. Len(l), n > p, P[l[n]] > 0, NEW u, UpTo(l, P, p, n - 1, u)
  PROVE  UpTo(l, P, p, n, <<l[n]>> \o u)
<1> DEFINE x == l[n]
           a == <<x>>
           w == a \o u
<1>1. /\ u \in Seq(Effect)
      /\ \A i \in 1 .. Len(u) : u[i] \in Range(l) /\ P[u[i]] > 0 /\ p < Pos(l, u[i]) /\ Pos(l, u[i]) <= n - 1
      /\ \A i, j \in 1 .. Len(u) : i < j => Pos(l, u[j]) < Pos(l, u[i])
      /\ (\A y \in Range(l) : p < Pos(l, y) => P[y] # 1)
           => \A j \in p + 1 .. n - 1 : P[l[j]] > 0 => l[j] \in Range(u)
  BY DEF UpTo
<1>2. x \in Effect /\ x \in Range(l) /\ Pos(l, x) = n /\ P[x] > 0 /\ n \in Int /\ p \in Int
  BY PosIs DEF Range
<1> HIDE DEF x
<1>3. a \in Seq(Effect) /\ Len(a) = 1 /\ a[1] = x /\ Range(a) = {x}
  BY <1>2 DEF Range
<1> HIDE DEF a
<1>4. Pushed(Effect, a, u, w)
  BY <1>1, <1>3, PushIs
<1> HIDE DEF w
<1>5. /\ w \in Seq(Effect) /\ Len(w) = 1 + Len(u) /\ w[1] = x /\ Range(w) = {x} \cup Range(u)
      /\ \A i \in 1 + 1 .. 1 + Len(u) : w[i] = u[i - 1]
  BY <1>1, <1>3, <1>4 DEF Pushed
<1>6. ASSUME NEW i \in 1 .. Len(w), i # 1 PROVE i - 1 \in 1 .. Len(u) /\ w[i] = u[i - 1]
  <2>1. i \in 1 + 1 .. 1 + Len(u) /\ i - 1 \in 1 .. Len(u)
    BY <1>1, <1>5, <1>6
  <2> QED BY <1>5, <2>1
<1>7. \A y \in Range(l) : Pos(l, y) \in 1 .. Len(l)
  BY PosIs
<1> DEFINE k == Len(u)
<1>8. k \in Nat
  BY <1>1
<1>9. ASSUME NEW i \in 1 .. Len(w) PROVE w[i] \in Range(l) /\ P[w[i]] > 0 /\ p < Pos(l, w[i]) /\ Pos(l, w[i]) <= n
  <2>1. CASE i = 1
    BY <1>2, <1>5, <2>1
  <2>2. CASE i # 1
    <3> DEFINE h == i - 1
    <3>1. h \in 1 .. Len(u) /\ w[i] = u[h]
      BY <1>6, <2>2
    <3> HIDE DEF h
    <3>2. u[h] \in Range(l) /\ P[u[h]] > 0 /\ p < Pos(l, u[h]) /\ Pos(l, u[h]) <= n - 1
      BY <1>1, <3>1
    <3>3. Pos(l, u[h]) \in Int
      BY <1>7, <3>2
    <3>4. Pos(l, u[h]) <= n
      BY <1>2, <3>2, <3>3
    <3> QED BY <3>1, <3>2, <3>4
  <2> QED BY <2>1, <2>2
<1>10. ASSUME NEW i \in 1 .. Len(w), NEW j \in 1 .. Len(w), i < j PROVE Pos(l, w[j]) < Pos(l, w[i])
  <2> DEFINE g == j - 1
             h == i - 1
  <2>1. g \in 1 .. Len(u) /\ w[j] = u[g]
    <3>1. j # 1
      BY <1>10
    <3> QED BY <1>6, <3>1
  <2>2. CASE i = 1
    <3>1. w[i] = x
      BY <1>5, <2>2
    <3> HIDE DEF g
    <3>2. Pos(l, u[g]) <= n - 1 /\ u[g] \in Range(l)
      BY <1>1, <2>1
    <3>3. Pos(l, u[g]) \in Int
      BY <1>7, <3>2
    <3>4. Pos(l, u[g]) < n
      BY <1>2, <3>2, <3>3
    <3> QED BY <1>2, <2>1, <3>1, <3>4
  <2>3. CASE i # 1
    <3>1. h \in 1 .. Len(u) /\ w[i] = u[h]
      BY <1>6, <2>3
    <3>2. h < g
      BY <1>10
    <3> HIDE DEF g, h
    <3> QED BY <1>1, <2>1, <3>1, <3>2
  <2> QED BY <2>2, <2>3
<1>11. ASSUME \A y \in Range(l) : p < Pos(l, y) => P[y] # 1, NEW j \in p + 1 .. n, P[l[j]] > 0 PROVE l[j] \in Range(w)
  <2>1. CASE j = n
    BY <1>5, <2>1 DEF x
  <2>2. CASE j # n
    <3>1. j \in p + 1 .. n - 1
      BY <1>2, <2>2
    <3> QED BY <1>1, <1>5, <1>11, <3>1
  <2> QED BY <2>1, <2>2
<1>12. UpTo(l, P, p, n, w)
  BY <1>5, <1>9, <1>10, <1>11 DEF UpTo
<1> QED BY <1>12 DEF w, a, x

LEMMA UpToSkip ==
  ASSUME NEW l \in Seq(Effect), Distinct(l), NEW P \in [Effect -> Int], NEW p \in 1 .. Len(l),
         NEW n \in 1 .. Len(l), NEW u, UpTo(l, P, p, n - 1, u),
         ~(n > p /\ P[l[n]] > 0 /\ \A j \in p + 1 .. n : P[l[j]] # 1)
  PROVE  UpTo(l, P, p, n, u)
<1>1. \A y \in Range(l) : Pos(l, y) \in 1 .. Len(l)
  BY PosIs
<1>2. n \in Int /\ p \in Int
  OBVIOUS
<1>3. ASSUME NEW i \in 1 .. Len(u) PROVE u[i] \in Range(l) /\ P[u[i]] > 0 /\ p < Pos(l, u[i]) /\ Pos(l, u[i]) <= n
  <2>1. u[i] \in Range(l) /\ P[u[i]] > 0 /\ p < Pos(l, u[i]) /\ Pos(l, u[i]) <= n - 1
    BY DEF UpTo
  <2> QED BY <1>1, <1>2, <2>1
<1>4. ASSUME \A y \in Range(l) : p < Pos(l, y) => P[y] # 1, NEW j \in p + 1 .. n, P[l[j]] > 0 PROVE l[j] \in Range(u)
  <2>1. CASE j = n
    <3>1. PICK h \in p + 1 .. n : P[l[h]] = 1
      BY <1>2, <1>4, <2>1
    <3>2. h \in 1 .. Len(l) /\ p < h
      BY <1>2
    <3>3. l[h] \in Range(l)
      BY <3>2 DEF Range
    <3>4. Pos(l, l[h]) = h
      BY <3>2, PosIs
    <3> QED BY <1>4, <3>1, <3>2, <3>3, <3>4
  <2>2. CASE j # n
    <3>1. j \in p + 1 .. n - 1
      BY <1>2, <2>2
    <3> QED BY <1>4, <3>1 DEF UpTo
  <2> QED BY <2>1, <2>2
<1> QED BY <1>3, <1>4 DEF UpTo

\* What TempRemoveUpperEffects stops for e.
UpperOf(l, P, e, u) == UpTo(l, P, Pos(l, e), Len(l), u) \/ (P[e] = 1 /\ u = <<>>)

LEMMA UpperIs ==
  ASSUME list \in Seq(Effect), Distinct(list), prio \in [Effect -> Int], NEW e \in Range(list)
  PROVE  UpperOf(list, prio, e, Upper(e))
<1> DEFINE n == Len(list)
           stops(i) == /\ i > Index(e) /\ prio[list[i]] > 0
                       /\ \A j \in Index(e) + 1 .. i : prio[list[j]] # 1
           G == [x \in Seq(Effect) \X (1 .. n) |-> IF stops(x[2]) THEN <<list[x[2]]>> \o x[1] ELSE x[1]]
           up == CHOOSE f : f = [i \in 0 .. n |-> IF i = 0 THEN <<>>
                                                  ELSE IF stops(i) THEN <<list[i]>> \o f[i - 1] ELSE f[i - 1]]
<1>1. n \in Nat /\ \A i \in 1 .. n : list[i] \in Effect
  OBVIOUS
<1>2. Index(e) = Pos(list, e) /\ Index(e) \in 1 .. n
  BY PosIs DEF Index, Pos
<1>3. CASE prio[e] = 1
  BY <1>3 DEF Upper, UpperOf
<1>4. CASE prio[e] # 1
  <2>1. Upper(e) = up[n]
    BY <1>4 DEF Upper
  <2> HIDE DEF up
  <2> HIDE DEF stops
  <2>2. \A w \in Seq(Effect), k \in 1 .. n : (IF stops(k) THEN <<list[k]>> \o w ELSE w) \in Seq(Effect)
    <3> SUFFICES ASSUME NEW w \in Seq(Effect), NEW k \in 1 .. n PROVE <<list[k]>> \o w \in Seq(Effect)
      OBVIOUS
    <3>1. <<list[k]>> \in Seq(Effect)
      BY <1>1
    <3> QED BY <3>1, ConcatProperties
  <2>3. /\ G \in [Seq(Effect) \X (1 .. n) -> Seq(Effect)]
        /\ \A w \in Seq(Effect), k \in 1 .. n : G[<<w, k>>] = IF stops(k) THEN <<list[k]>> \o w ELSE w
    <3> HIDE DEF n
    <3> QED BY <2>2
  <2> HIDE DEF G
  <2>4. PICK f : Loop(f, Seq(Effect), <<>>, n, G)
    <3>1. <<>> \in Seq(Effect)
      OBVIOUS
    <3> HIDE DEF n
    <3> QED BY <1>1, <2>3, <3>1, Recursion
  <2>5. f = [i \in 0 .. n |-> IF i = 0 THEN <<>> ELSE IF stops(i) THEN <<list[i]>> \o f[i - 1] ELSE f[i - 1]]
    <3> HIDE DEF n
    <3>1. f \in [0 .. n -> Seq(Effect)] /\ f[0] = <<>> /\ \A k \in 1 .. n : f[k] = G[<<f[k - 1], k>>]
      BY <2>4 DEF Loop
    <3>2. ASSUME NEW k \in 1 .. n PROVE f[k] = IF stops(k) THEN <<list[k]>> \o f[k - 1] ELSE f[k - 1]
      <4>1. f[k - 1] \in Seq(Effect) /\ f[k] = G[<<f[k - 1], k>>]
        BY <1>1, <3>1
      <4> QED BY <2>3, <4>1
    <3>3. \A k \in 0 .. n : f[k] = IF k = 0 THEN <<>> ELSE IF stops(k) THEN <<list[k]>> \o f[k - 1] ELSE f[k - 1]
      <4> SUFFICES ASSUME NEW k \in 0 .. n
                   PROVE  f[k] = IF k = 0 THEN <<>> ELSE IF stops(k) THEN <<list[k]>> \o f[k - 1] ELSE f[k - 1]
        OBVIOUS
      <4>1. CASE k = 0
        BY <3>1, <4>1
      <4>2. CASE k # 0
        <5>1. k \in 1 .. n
          BY <1>1, <4>2
        <5> QED BY <3>2, <4>2, <5>1
      <4> QED BY <4>1, <4>2
    <3>4. f = [k \in 0 .. n |-> f[k]]
      BY <3>1
    <3> QED BY <3>3, <3>4
  <2>6. up = [i \in 0 .. n |-> IF i = 0 THEN <<>> ELSE IF stops(i) THEN <<list[i]>> \o up[i - 1] ELSE up[i - 1]]
    BY <2>5 DEF up
  <2> HIDE DEF n
  <2>7. up[0] = <<>> /\ \A k \in 1 .. n : up[k] = IF stops(k) THEN <<list[k]>> \o up[k - 1] ELSE up[k - 1]
    <3>1. 0 \in 0 .. n /\ \A k \in 1 .. n : k \in 0 .. n /\ k # 0
      BY <1>1
    <3> QED BY <2>6, <3>1
  <2> DEFINE p == Pos(list, e)
             T == {k \in 0 .. n : UpTo(list, prio, p, k, up[k])}
  <2>8. 0 \in T
    <3>1. p + 1 .. 0 = {} /\ 0 \in 0 .. n
      BY <1>1, <1>2
    <3>2. <<>> \in Seq(Effect) /\ Len(<<>>) = 0 /\ 1 .. 0 = {}
      OBVIOUS
    <3> HIDE DEF p
    <3>3. UpTo(list, prio, p, 0, <<>>)
      BY <3>1, <3>2 DEF UpTo
    <3> QED BY <2>7, <3>1, <3>3
  <2>9. ASSUME NEW k \in 1 .. n, k - 1 \in T PROVE k \in T
    <3>1. UpTo(list, prio, p, k - 1, up[k - 1]) /\ k \in 0 .. n
      BY <1>1, <2>9
    <3>2. p \in 1 .. Len(list) /\ k \in 1 .. Len(list)
      BY <1>2 DEF n
    <3> HIDE DEF p
    <3>3. CASE stops(k)
      <4>1. k > p /\ prio[list[k]] > 0 /\ up[k] = <<list[k]>> \o up[k - 1]
        BY <1>2, <2>7, <3>3 DEF stops, p
      <4> QED BY <3>1, <3>2, <4>1, UpToNext
    <3>4. CASE ~stops(k)
      <4>1. up[k] = up[k - 1] /\ ~(k > p /\ prio[list[k]] > 0 /\ \A j \in p + 1 .. k : prio[list[j]] # 1)
        BY <1>2, <2>7, <3>4 DEF stops, p
      <4> QED BY <3>1, <3>2, <4>1, UpToSkip
    <3> QED BY <3>3, <3>4
  <2>10. n \in T
    <3> HIDE DEF T
    <3>1. 0 .. n \subseteq T
      BY <1>1, <2>8, <2>9, Induction
    <3> QED BY <1>1, <3>1
  <2> QED BY <2>1, <2>10 DEF UpperOf, n
<1> QED BY <1>3, <1>4

-----------------------------------------------------------------------------
(* The steps that are left to do.                                          *)

Plain  == [op : {"Execute", "Next", "TempRemove", "Add", "Result", "Reactivate", "SetDead", "Clear"}, e : Effect]
Readds == [op : {"Readd"}, e : Effect, last : Effect]
Checks == [op : {"Check"}, e : Effect, at : Effect, p : Priority, add : Effect \cup {None}, calls : BOOLEAN]
News   == [op : {"New", "Start"}, e : Effect, p : Priority]
Called == [op : {"Call"}, fn : Calls, e : Effect, was : BOOLEAN, prio : Int, made : Nat, over : SUBSET Effect]
Op     == Plain \cup Readds \cup Checks \cup News \cup Called

\* The effect x is among those that r starts again, or one step of R.
Covers(l, r, x)    == r.op = "Readd" /\ Pos(l, r.e) < Pos(l, x) /\ Pos(l, x) <= Pos(l, r.last)
IsCovered(l, R, x) == \E r \in R : Covers(l, r, x)

\* b stops effects behind e, does x and starts them again.
BracketAt(l, P, e, x, b, k) ==
    /\ b \in Seq(Op) /\ k \in 1 .. Len(b) /\ b[k] = x
    /\ \A i \in 1 .. k - 1 : /\ b[i].op = "TempRemove" /\ b[i].e \in Range(l)
                             /\ P[b[i].e] > 0 /\ Pos(l, e) < Pos(l, b[i].e)
                             /\ IsCovered(l, Range(b), b[i].e)
    /\ \A i, j \in 1 .. k - 1 : b[i].e = b[j].e => i = j
    /\ \A i \in k + 1 .. Len(b) : /\ b[i].op = "Readd" /\ b[i].e = e
                                  /\ b[i].last \in Range(l) /\ Pos(l, e) < Pos(l, b[i].last)

\* All active effects behind e are among those that b stops.
AllUp(l, P, e, b, f, k) ==
    \A y \in Range(l) : Pos(l, e) < Pos(l, y) /\ P[y] > 0 => \E i \in f .. k - 1 : b[i].e = y

\* Neither e nor an effect behind it has priority 1.
NoneOne(l, P, e) == P[e] # 1 /\ \A y \in Range(l) : Pos(l, e) < Pos(l, y) => P[y] # 1

LEMMA AloneIs ==
  ASSUME NEW l, NEW P, NEW e, NEW x \in Op
  PROVE  BracketAt(l, P, e, x, <<x>>, 1)
<1> DEFINE b == <<x>>
<1>1. b \in Seq(Op) /\ Len(b) = 1 /\ b[1] = x /\ 1 .. 1 - 1 = {} /\ 1 + 1 .. 1 = {} /\ 1 \in 1 .. 1
  OBVIOUS
<1> HIDE DEF b
<1>2. BracketAt(l, P, e, x, b, 1)
  BY <1>1 DEF BracketAt
<1> QED BY <1>2 DEF b

LEMMA BracketIs ==
  ASSUME list \in Seq(Effect), Distinct(list), prio \in [Effect -> Int], NEW e \in Range(list), NEW x \in Op
  PROVE  LET b == Bracket(e, <<x>>)
         IN  \E k \in 1 .. Len(b) : /\ BracketAt(list, prio, e, x, b, k)
                                    /\ NoneOne(list, prio, e) => AllUp(list, prio, e, b, 1, k)
<1> DEFINE u == Upper(e)
           n == Len(u)
           removal(y) == [op |-> "TempRemove", e |-> y]
           r == [op |-> "Readd", e |-> e, last |-> Head(u)]
           a == [i \in DOMAIN u |-> removal(u[i])]
           c == IF u = <<>> THEN <<>> ELSE <<r>>
           ax == a \o <<x>>
           b == Bracket(e, <<x>>)
<1>1. UpperOf(list, prio, e, u)
  BY UpperIs
<1> HIDE DEF u
<1>2. /\ u \in Seq(Effect)
      /\ \A i \in 1 .. Len(u) : u[i] \in Range(list) /\ prio[u[i]] > 0 /\ Pos(list, e) < Pos(list, u[i])
      /\ \A i, j \in 1 .. Len(u) : i < j => Pos(list, u[j]) < Pos(list, u[i])
      /\ NoneOne(list, prio, e) => \A j \in Pos(list, e) + 1 .. Len(list) : prio[list[j]] > 0 => list[j] \in Range(u)
  <2>1. CASE UpTo(list, prio, Pos(list, e), Len(list), u)
    BY <2>1 DEF UpTo, NoneOne
  <2>2. CASE prio[e] = 1 /\ u = <<>>
    BY <2>2 DEF NoneOne
  <2> QED BY <1>1, <2>1, <2>2 DEF UpperOf
<1>3. n \in Nat /\ DOMAIN u = 1 .. n /\ (u = <<>> <=> n = 0) /\ (u # <<>> => Head(u) = u[1])
  BY <1>2
<1>4. \A y \in Range(list) : Pos(list, y) \in 1 .. Len(list) /\ list[Pos(list, y)] = y
  BY PosIs
<1>5. e \in Effect /\ \A y \in Range(list) : y \in Effect
  BY DEF Range
<1>6. \A y \in Effect : removal(y) \in Op /\ removal(y).op = "TempRemove" /\ removal(y).e = y
  BY DEF Op, Plain
<1> HIDE DEF removal
<1>7. a \in Seq(Op) /\ Len(a) = n /\ \A i \in 1 .. n : a[i] = removal(u[i])
  <2>1. \A i \in 1 .. n : removal(u[i]) \in Op
    BY <1>2, <1>3, <1>6
  <2> HIDE DEF n
  <2> QED BY <1>3, <2>1
<1>8. r.op = "Readd" /\ r.e = e /\ r.last = Head(u) /\ (u # <<>> => r \in Op)
  <2>1. u # <<>> => Head(u) \in Effect
    BY <1>2
  <2> QED BY <1>5, <2>1 DEF Op, Readds
<1> HIDE DEF r, a
<1>9. c \in Seq(Op) /\ Len(c) = (IF n = 0 THEN 0 ELSE 1) /\ (n # 0 => c[1] = r /\ r \in Range(c))
  <2>1. CASE n = 0
    BY <1>3, <2>1
  <2>2. CASE n # 0
    BY <1>3, <1>8, <2>2 DEF Range
  <2> QED BY <2>1, <2>2
<1> HIDE DEF c
<1>10. ax \in Seq(Op) /\ Len(ax) = n + 1 /\ (\A i \in 1 .. n : ax[i] = removal(u[i])) /\ ax[n + 1] = x
  <2> DEFINE o == <<x>>
  <2>1. o \in Seq(Op) /\ Len(o) = 1 /\ o[1] = x
    OBVIOUS
  <2> HIDE DEF o
  <2>2. Pushed(Op, a, o, a \o o)
    BY <1>7, <2>1, PushIs
  <2>3. ax = a \o o
    BY DEF o
  <2> HIDE DEF ax, n
  <2> QED BY <1>3, <1>7, <2>1, <2>2, <2>3 DEF Pushed
<1>11. b = ax \o c
  BY DEF Bracket, u, a, removal, r, c
<1> HIDE DEF ax, b
<1>12. Pushed(Op, ax, c, b)
  BY <1>9, <1>10, <1>11, PushIs
<1> DEFINE k == n + 1
<1>13. b \in Seq(Op) /\ k \in 1 .. Len(b) /\ b[k] = x /\ Len(b) = k + Len(c)
  BY <1>3, <1>9, <1>10, <1>12 DEF Pushed
<1>14. ASSUME NEW i \in 1 .. k - 1 PROVE i \in 1 .. n /\ b[i] = removal(u[i])
  BY <1>3, <1>10, <1>12 DEF Pushed
<1>15. ASSUME NEW i \in k + 1 .. Len(b) PROVE n # 0 /\ b[i] = r
  <2>1. n # 0 /\ i = k + 1 /\ i - k = 1
    BY <1>3, <1>9, <1>13
  <2>2. b[i] = c[i - k]
    BY <1>10, <1>13, <1>12 DEF Pushed
  <2> QED BY <1>9, <2>1, <2>2
<1>16. n # 0 => r \in Range(b)
  BY <1>9, <1>12 DEF Pushed
<1> HIDE DEF k
<1>17. ASSUME NEW i \in 1 .. k - 1
       PROVE  /\ b[i].op = "TempRemove" /\ b[i].e \in Range(list) /\ b[i].e = u[i]
              /\ prio[b[i].e] > 0 /\ Pos(list, e) < Pos(list, b[i].e)
              /\ IsCovered(list, Range(b), b[i].e)
  <2>1. i \in 1 .. n /\ u[i] \in Range(list) /\ prio[u[i]] > 0 /\ Pos(list, e) < Pos(list, u[i])
    BY <1>2, <1>14
  <2>2. b[i].op = "TempRemove" /\ b[i].e = u[i]
    BY <1>5, <1>6, <1>14, <2>1
  <2>3. Pos(list, u[i]) <= Pos(list, u[1])
    <3>1. CASE i = 1
      BY <1>4, <2>1, <3>1
    <3>2. CASE i # 1
      <4>1. 1 \in 1 .. Len(u) /\ 1 < i /\ u[1] \in Range(list)
        BY <1>2, <1>3, <2>1, <3>2
      <4>2. Pos(list, u[i]) < Pos(list, u[1])
        BY <1>2, <2>1, <4>1
      <4> QED BY <1>4, <2>1, <4>1, <4>2
    <3> QED BY <3>1, <3>2
  <2>4. n # 0 /\ r \in Range(b) /\ r.last = u[1]
    BY <1>3, <1>8, <1>16, <2>1
  <2>5. Covers(list, r, u[i])
    BY <1>8, <2>1, <2>3, <2>4 DEF Covers
  <2> QED BY <2>1, <2>2, <2>4, <2>5 DEF IsCovered
<1>18. ASSUME NEW i \in 1 .. k - 1, NEW j \in 1 .. k - 1, b[i].e = b[j].e PROVE i = j
  <2>1. u[i] = u[j] /\ i \in 1 .. n /\ j \in 1 .. n /\ u[i] \in Range(list)
    BY <1>14, <1>17, <1>18
  <2>2. ~(Pos(list, u[i]) < Pos(list, u[i]))
    BY <1>4, <2>1
  <2>3. ~(i < j) /\ ~(j < i)
    BY <1>2, <2>1, <2>2
  <2> QED BY <2>1, <2>3
<1>19. ASSUME NEW i \in k + 1 .. Len(b)
       PROVE  b[i].op = "Readd" /\ b[i].e = e /\ b[i].last \in Range(list) /\ Pos(list, e) < Pos(list, b[i].last)
  <2>1. n # 0 /\ b[i] = r
    BY <1>15
  <2>2. 1 \in 1 .. Len(u) /\ r.last = u[1]
    BY <1>3, <1>8, <2>1
  <2> QED BY <1>2, <1>8, <2>1, <2>2
<1>20. BracketAt(list, prio, e, x, b, k)
  BY <1>13, <1>17, <1>18, <1>19 DEF BracketAt
<1>21. ASSUME NoneOne(list, prio, e) PROVE AllUp(list, prio, e, b, 1, k)
  <2> SUFFICES ASSUME NEW y \in Range(list), Pos(list, e) < Pos(list, y), prio[y] > 0
               PROVE  \E i \in 1 .. k - 1 : b[i].e = y
    BY DEF AllUp
  <2>1. Pos(list, y) \in Pos(list, e) + 1 .. Len(list) /\ list[Pos(list, y)] = y
    BY <1>4
  <2>2. y \in Range(u)
    BY <1>2, <1>21, <2>1
  <2>3. PICK i \in 1 .. n : u[i] = y
    BY <1>3, <2>2 DEF Range
  <2>4. i \in 1 .. k - 1
    BY <1>3 DEF k
  <2> QED BY <1>17, <2>3, <2>4
<1> QED BY <1>13, <1>20, <1>21 DEF b

-----------------------------------------------------------------------------
(* The inductive invariant, of a list l, priorities P, started effects o,  *)
(* steps b and the number m of effects that were made.                     *)

\* What AddEffect and RemoveEffect do without a script in between that may use them
\* again: the callbacks of these steps are not among those in Silent, or come last.
Hurry     == {"TempRemove", "Check", "New", "Start", "Add", "Reactivate", "SetDead"}
Silent    == {"TempStop", "Effect", "StartForRemoval"}
Urgent(r) == r.op \in Hurry \/ (r.op = "Call" /\ r.fn \in Silent)

\* From the k-th step on, nothing is urgent.
Calm(b, k) == \A i \in k .. Len(b) : ~Urgent(b[i])

\* The effects but those of S are started exactly when they are active.
Exact(P, o, S) == \A x \in Effect \ S : o[x] <=> P[x] > 0

\* The engine is between two operations on the list, ...
Resting(P, o, b) == Calm(b, 1) /\ Exact(P, o, {})

\* ... asks whether there may be a new effect, ...
Asking(P, o, b, f) ==
    /\ f + 1 \in 1 .. Len(b) /\ b[f].op = "Check" /\ b[f + 1].op = "New" /\ P[b[f + 1].e] = 0
    /\ Calm(b, f + 2) /\ Exact(P, o, {})

\* ... lets it in, ...
Placing(P, o, b) ==
    /\ 1 \in 1 .. Len(b) /\ b[1].op = "New" /\ P[b[1].e] = 0
    /\ Calm(b, 2) /\ Exact(P, o, {})

\* ... starts an effect for its removal, ...
Reviving(P, o, b) ==
    /\ 2 \in 1 .. Len(b) /\ b[1].op = "Reactivate" /\ b[2].op = "SetDead" /\ b[2].e = b[1].e
    /\ P[b[1].e] <= 0 /\ Calm(b, 3) /\ Exact(P, o, {})

\* ... or stops some effects, from the f-th step on, before the k-th one, which starts,
\* ends or extends one: these are all active effects behind it when it has a priority.
Heavy(P, r) == (r.op = "Start" /\ r.p > 1) \/ (r.op = "SetDead" /\ P[r.e] > 1)

Stopping(l, P, o, b, f, k) ==
    /\ k \in f .. Len(b) /\ b[k].op \in {"Start", "Add", "SetDead"}
    /\ \A i \in f .. k - 1 : /\ b[i].op = "TempRemove" /\ P[b[i].e] > 0 /\ b[i].e # b[k].e
                             /\ IsCovered(l, Range(b), b[i].e)
    /\ \A i, j \in f .. k - 1 : b[i].e = b[j].e => i = j
    /\ Heavy(P, b[k]) => AllUp(l, P, b[k].e, b, f, k)
    /\ Calm(b, k + 1)
    /\ b[k].op = "Start" => P[b[k].e] = 0
    /\ b[k].op = "SetDead" => o[b[k].e] /\ Exact(P, o, {b[k].e})
    /\ b[k].op # "SetDead" => Exact(P, o, {})

CallOf(b, fns) == 1 \in 1 .. Len(b) /\ b[1].op = "Call" /\ b[1].fn \in fns

Phase(l, P, o, b) ==
    \/ Resting(P, o, b) \/ Asking(P, o, b, 1) \/ Placing(P, o, b) \/ Reviving(P, o, b)
    \/ \E k \in 1 .. Len(b) : Stopping(l, P, o, b, 1, k)
    \/ CallOf(b, {"Effect"}) /\ Asking(P, o, b, 2)
    \/ CallOf(b, {"TempStop", "StartForRemoval"}) /\ \E k \in 2 .. Len(b) : Stopping(l, P, o, b, 2, k)

\* What a step refers to is in the list, and what an effect was told is right.
Refers(l, r) ==
    /\ r.e \in Range(l)
    /\ r.op = "Readd" => r.last \in Range(l) /\ Pos(l, r.e) < Pos(l, r.last)
    /\ r.op = "Check" => r.at \in Range(l) /\ (r.add # None => r.add \in Range(l))

ToldRight(r) ==
    r.op = "Call" => /\ r.fn \in Starts => ~r.was
                     /\ r.fn \in Stops => r.was
                     /\ r.fn \in {"Start", "Stop"} /\ r.prio > 1 => r.over = {}

Good(l, m, r) == Refers(l, r) /\ ToldRight(r) /\ (r.op = "Call" => r.made <= m)

\* What is stopped temporarily will be started again.
Covered(l, P, R) == \A x \in Effect : P[x] < 0 => IsCovered(l, R, x)

\* The priority w that x has, gets in a step of R or gets back after a callback.
Carries(m, r, x, w) ==
    r.e = x /\ \/ r.op \in {"New", "Start"} /\ w = r.p
               \/ r.op = "Call" /\ r.fn \in {"Stop", "ClearStop"} /\ r.made = m /\ w = r.prio
Weighs(P, R, m, x, w) == w = Abs(P[x]) \/ \E r \in R : Carries(m, r, x, w)

InOrder(P, R, m, x, y) ==
    \A w, v \in Nat \ {0} : Weighs(P, R, m, x, w) /\ Weighs(P, R, m, y, v) => w <= v
Sorted(l, P, R, m) == \A i, j \in 1 .. Len(l) : i < j => InOrder(P, R, m, l[i], l[j])

\* What is called from outside is at the bottom.
Bottom(b) ==
    \A i \in 1 .. Len(b) : /\ b[i].op = "Execute" => Len(b) = 1
                           /\ b[i].op = "Next" => i = Len(b)
                           /\ b[i].op = "Clear" => \A j \in i .. Len(b) : b[j].op = "Clear"

Types(l, P, o, b, m) ==
    /\ l \in Seq(Effect) /\ Distinct(l) /\ Range(l) \subseteq 1 .. m
    /\ P \in [Effect -> Int] /\ o \in [Effect -> BOOLEAN] /\ m \in 0 .. MaxEffect
    /\ \A x \in Effect \ Range(l) : P[x] = 0
    /\ b \in Seq(Op)

Inv(l, P, o, b, m) ==
    /\ Types(l, P, o, b, m)
    /\ \A r \in Range(b) : Good(l, m, r)
    /\ Covered(l, P, Range(b))
    /\ Sorted(l, P, Range(b), m)
    /\ Bottom(b)
    /\ Phase(l, P, o, b)

IInv == Inv(list, prio, on, todo, made)

-----------------------------------------------------------------------------
(* Where the engine is, from the next step.                                *)

LEMMA PhaseIs ==
  ASSUME NEW l, NEW P, NEW o, NEW b, Phase(l, P, o, b), 1 \in 1 .. Len(b)
  PROVE  /\ ~Urgent(b[1]) => Resting(P, o, b)
         /\ b[1].op = "Check" => Asking(P, o, b, 1)
         /\ b[1].op = "New" => Placing(P, o, b)
         /\ b[1].op = "Reactivate" => Reviving(P, o, b)
         /\ b[1].op \in {"TempRemove", "Start", "Add", "SetDead"} => \E k \in 1 .. Len(b) : Stopping(l, P, o, b, 1, k)
         /\ CallOf(b, {"Effect"}) => Asking(P, o, b, 2)
         /\ CallOf(b, {"TempStop", "StartForRemoval"}) => \E k \in 2 .. Len(b) : Stopping(l, P, o, b, 2, k)
<1>1. CASE Resting(P, o, b)
  <2>1. ~Urgent(b[1])
    BY <1>1 DEF Resting, Calm
  <2>2. b[1].op \notin Hurry /\ ~CallOf(b, {"Effect"}) /\ ~CallOf(b, {"TempStop", "StartForRemoval"})
    BY <2>1 DEF Urgent, Silent, CallOf
  <2> QED BY <1>1, <2>2 DEF Hurry
<1>2. CASE Asking(P, o, b, 1)
  BY <1>2 DEF Asking, Urgent, Hurry, CallOf
<1>3. CASE Placing(P, o, b)
  BY <1>3 DEF Placing, Urgent, Hurry, CallOf
<1>4. CASE Reviving(P, o, b)
  BY <1>4 DEF Reviving, Urgent, Hurry, CallOf
<1>5. CASE \E k \in 1 .. Len(b) : Stopping(l, P, o, b, 1, k)
  <2>1. PICK k \in 1 .. Len(b) : Stopping(l, P, o, b, 1, k)
    BY <1>5
  <2>2. b[1].op \in {"TempRemove", "Start", "Add", "SetDead"}
    <3>1. CASE k = 1
      BY <2>1, <3>1 DEF Stopping
    <3>2. CASE k # 1
      <4>1. 1 \in 1 .. k - 1
        BY <3>2
      <4> QED BY <2>1, <4>1 DEF Stopping
    <3> QED BY <3>1, <3>2
  <2> QED BY <1>5, <2>2 DEF Urgent, Hurry, CallOf
<1>6. CASE CallOf(b, {"Effect"}) /\ Asking(P, o, b, 2)
  BY <1>6 DEF CallOf, Urgent, Silent
<1>7. CASE CallOf(b, {"TempStop", "StartForRemoval"}) /\ \E k \in 2 .. Len(b) : Stopping(l, P, o, b, 2, k)
  BY <1>7 DEF CallOf, Urgent, Silent
<1> QED BY <1>1, <1>2, <1>3, <1>4, <1>5, <1>6, <1>7 DEF Phase

LEMMA CalmPop ==
  ASSUME NEW t \in Seq(Op), NEW u, Popped(Op, t, u), NEW k \in Nat \ {0}, Calm(t, k + 1)
  PROVE  Calm(u, k)
<1> SUFFICES ASSUME NEW i \in k .. Len(u) PROVE ~Urgent(u[i])
  BY DEF Calm
<1>1. Len(u) = Len(t) - 1 /\ Len(t) \in Nat /\ \A j \in 1 .. Len(t) - 1 : u[j] = t[j + 1]
  BY DEF Popped
<1>2. i \in 1 .. Len(t) - 1 /\ i + 1 \in k + 1 .. Len(t)
  BY <1>1
<1> QED BY <1>1, <1>2 DEF Calm

LEMMA CalmSwap ==
  ASSUME NEW t \in Seq(Op), NEW x, NEW u, Swapped(Op, t, x, u)
  PROVE  /\ \A k \in Nat \ {0, 1} : Calm(t, k) => Calm(u, k)
         /\ Calm(t, 2) /\ ~Urgent(x) => Calm(u, 1)
<1>1. Len(u) = Len(t) /\ Len(t) \in Nat /\ u[1] = x /\ \A i \in 2 .. Len(t) : u[i] = t[i]
  BY DEF Swapped
<1>2. ASSUME NEW k \in Nat \ {0, 1}, Calm(t, k) PROVE Calm(u, k)
  <2> SUFFICES ASSUME NEW i \in k .. Len(t) PROVE ~Urgent(u[i])
    BY <1>1 DEF Calm
  <2>1. i \in 2 .. Len(t)
    BY <1>1
  <2> QED BY <1>1, <1>2, <2>1 DEF Calm
<1>3. ASSUME Calm(t, 2), ~Urgent(x) PROVE Calm(u, 1)
  <2> SUFFICES ASSUME NEW i \in 1 .. Len(t) PROVE ~Urgent(u[i])
    BY <1>1 DEF Calm
  <2>1. i = 1 \/ i \in 2 .. Len(t)
    BY <1>1
  <2> QED BY <1>1, <1>3, <2>1 DEF Calm
<1> QED BY <1>2, <1>3

LEMMA CalmPush ==
  ASSUME NEW a \in Seq(Op), NEW t \in Seq(Op), NEW u, Pushed(Op, a, t, u), Calm(t, 1),
         NEW k \in Nat \ {0}, Calm(a, k)
  PROVE  Calm(u, k)
<1> SUFFICES ASSUME NEW i \in k .. Len(u) PROVE ~Urgent(u[i])
  BY DEF Calm
<1> DEFINE n == Len(a)
           h == Len(t)
<1>1. /\ n \in Nat /\ h \in Nat /\ Len(u) = n + h
      /\ \A j \in 1 .. n : u[j] = a[j]
      /\ \A j \in n + 1 .. n + h : u[j] = t[j - n]
  BY DEF Pushed
<1>2. (\A j \in k .. n : ~Urgent(a[j])) /\ (\A j \in 1 .. h : ~Urgent(t[j]))
  BY DEF Calm
<1> HIDE DEF n, h
<1>3. CASE i <= n
  <2>1. i \in 1 .. n /\ i \in k .. n
    BY <1>1, <1>3
  <2> QED BY <1>1, <1>2, <2>1
<1>4. CASE ~(i <= n)
  <2> DEFINE j == i - n
  <2>1. i \in n + 1 .. n + h /\ j \in 1 .. h
    BY <1>1, <1>4
  <2>2. u[i] = t[j]
    BY <1>1, <2>1
  <2> HIDE DEF j
  <2> QED BY <1>2, <2>1, <2>2
<1> QED BY <1>3, <1>4

\* When a callback returns that may not use the list, it goes on where it was.
LEMMA PhasePop ==
  ASSUME NEW l, NEW P, NEW o, NEW t \in Seq(Op), t # <<>>, Phase(l, P, o, t), t[1].op = "Call"
  PROVE  Phase(l, P, o, Tail(t))
<1> DEFINE u == Tail(t)
<1>1. Popped(Op, t, u) /\ 1 \in 1 .. Len(t) /\ Range(t) = {t[1]} \cup Range(u)
  BY PopIs
<1> HIDE DEF u
<1>2. /\ u \in Seq(Op) /\ Len(u) = Len(t) - 1 /\ Len(t) \in Nat
      /\ \A i \in 1 .. Len(t) - 1 : u[i] = t[i + 1]
  BY <1>1 DEF Popped
<1>3. CASE ~Urgent(t[1])
  <2>1. Resting(P, o, t)
    BY <1>1, <1>3, PhaseIs
  <2>2. Calm(t, 1 + 1)
    BY <2>1 DEF Resting, Calm
  <2>3. Calm(u, 1)
    BY <1>1, <2>2, CalmPop
  <2> QED BY <2>1, <2>3 DEF Resting, Phase, u
<1>4. CASE CallOf(t, {"Effect"})
  <2>1. Asking(P, o, t, 2)
    BY <1>1, <1>4, PhaseIs
  <2>2. 3 \in 1 .. Len(t) /\ t[2].op = "Check" /\ t[3].op = "New" /\ P[t[3].e] = 0 /\ Calm(t, 4) /\ Exact(P, o, {})
    BY <2>1 DEF Asking
  <2>3. 1 \in 1 .. Len(t) - 1 /\ 2 \in 1 .. Len(t) - 1 /\ 2 \in 1 .. Len(u)
    BY <1>2, <2>2
  <2>4. u[1] = t[1 + 1] /\ u[2] = t[2 + 1]
    BY <1>2, <2>3
  <2>5. Calm(t, 3 + 1)
    BY <2>2
  <2>6. Calm(u, 3)
    BY <1>1, <2>5, CalmPop
  <2>7. Asking(P, o, u, 1)
    BY <2>2, <2>3, <2>4, <2>6 DEF Asking
  <2> QED BY <2>7 DEF Phase, u
<1>5. CASE CallOf(t, {"TempStop", "StartForRemoval"})
  <2>1. PICK k \in 2 .. Len(t) : Stopping(l, P, o, t, 2, k)
    BY <1>1, <1>5, PhaseIs
  <2> DEFINE h == k - 1
  <2>2. h \in 1 .. Len(u) /\ h \in 1 .. Len(t) - 1 /\ h + 1 = k /\ h \in Nat \ {0}
    BY <1>2
  <2> HIDE DEF h
  <2>3. u[h] = t[k]
    BY <1>2, <2>2
  <2>4. ASSUME NEW i \in 1 .. h - 1 PROVE i + 1 \in 2 .. k - 1 /\ u[i] = t[i + 1]
    BY <1>2, <2>2
  <2>5. ASSUME NEW x, IsCovered(l, Range(t), x) PROVE IsCovered(l, Range(u), x)
    BY <1>1, <2>5 DEF IsCovered, Covers
  <2>6. ASSUME NEW i \in 1 .. h - 1
        PROVE  u[i].op = "TempRemove" /\ P[u[i].e] > 0 /\ u[i].e # u[h].e /\ IsCovered(l, Range(u), u[i].e)
    <3>1. i + 1 \in 2 .. k - 1 /\ u[i] = t[i + 1]
      BY <2>4
    <3> DEFINE j == i + 1
    <3> HIDE DEF j
    <3>2. t[j].op = "TempRemove" /\ P[t[j].e] > 0 /\ t[j].e # t[k].e /\ IsCovered(l, Range(t), t[j].e)
      BY <2>1, <3>1 DEF Stopping, j
    <3> QED BY <2>3, <2>5, <3>1, <3>2 DEF j
  <2>7. ASSUME NEW i \in 1 .. h - 1, NEW j \in 1 .. h - 1, u[i].e = u[j].e PROVE i = j
    <3>1. i + 1 \in 2 .. k - 1 /\ u[i] = t[i + 1] /\ j + 1 \in 2 .. k - 1 /\ u[j] = t[j + 1]
      BY <2>4
    <3>2. i + 1 = j + 1
      BY <2>1, <2>7, <3>1 DEF Stopping
    <3> QED BY <3>2
  <2>8. ASSUME AllUp(l, P, t[k].e, t, 2, k) PROVE AllUp(l, P, u[h].e, u, 1, h)
    <3> SUFFICES ASSUME NEW y \in Range(l), Pos(l, u[h].e) < Pos(l, y), P[y] > 0 PROVE \E i \in 1 .. h - 1 : u[i].e = y
      BY DEF AllUp
    <3>1. PICK i \in 2 .. k - 1 : t[i].e = y
      BY <2>3, <2>8 DEF AllUp
    <3> DEFINE j == i - 1
    <3>2. j \in 1 .. h - 1 /\ j + 1 = i
      BY <2>2
    <3> HIDE DEF j
    <3>3. u[j] = t[i]
      BY <2>4, <3>2
    <3> QED BY <3>1, <3>2, <3>3
  <2>9. Calm(u, h + 1)
    <3>1. Calm(t, (h + 1) + 1)
      BY <2>1, <2>2 DEF Stopping
    <3>2. h + 1 \in Nat \ {0}
      BY <2>2
    <3> QED BY <1>1, <3>1, <3>2, CalmPop
  <2>10. Stopping(l, P, o, u, 1, h)
    BY <2>1, <2>2, <2>3, <2>6, <2>7, <2>8, <2>9 DEF Stopping
  <2> QED BY <2>2, <2>10 DEF Phase, u
<1>6. Urgent(t[1]) => t[1].fn \in Silent
  BY DEF Urgent, Hurry
<1> QED BY <1>1, <1>3, <1>4, <1>5, <1>6 DEF Silent, CallOf

-----------------------------------------------------------------------------
(* The other parts of the invariant.                                       *)

LEMMA BottomPop ==
  ASSUME NEW t \in Seq(Op), NEW u, Popped(Op, t, u), Bottom(t)
  PROVE  Bottom(u) /\ \A i \in 1 .. Len(u) : u[i].op # "Execute"
<1> DEFINE n == Len(t)
<1>1. n \in Nat /\ Len(u) = n - 1 /\ \A i \in 1 .. n - 1 : u[i] = t[i + 1]
  BY DEF Popped
<1>2. \A i \in 1 .. n : /\ t[i].op = "Execute" => n = 1
                        /\ t[i].op = "Next" => i = n
                        /\ t[i].op = "Clear" => \A j \in i .. n : t[j].op = "Clear"
  BY DEF Bottom
<1> HIDE DEF n
<1>3. ASSUME NEW i \in 1 .. n - 1 PROVE u[i].op # "Execute"
  <2>1. i + 1 \in 1 .. n /\ n # 1 /\ u[i] = t[i + 1]
    BY <1>1
  <2> QED BY <1>2, <2>1
<1>4. ASSUME NEW i \in 1 .. n - 1, u[i].op = "Next" PROVE i = n - 1
  <2>1. i + 1 \in 1 .. n /\ u[i] = t[i + 1]
    BY <1>1
  <2>2. i + 1 = n
    BY <1>2, <1>4, <2>1
  <2> QED BY <1>1, <2>2
<1>5. ASSUME NEW i \in 1 .. n - 1, u[i].op = "Clear", NEW j \in i .. n - 1 PROVE u[j].op = "Clear"
  <2>1. i + 1 \in 1 .. n /\ u[i] = t[i + 1] /\ j \in 1 .. n - 1 /\ j + 1 \in i + 1 .. n
    BY <1>1
  <2>2. u[j] = t[j + 1]
    BY <1>1, <2>1
  <2> QED BY <1>2, <1>5, <2>1, <2>2
<1> QED BY <1>1, <1>3, <1>4, <1>5 DEF Bottom

LEMMA BottomSwap ==
  ASSUME NEW t \in Seq(Op), NEW x, x.op \notin {"Execute", "Next", "Clear"}, NEW u, Swapped(Op, t, x, u), Bottom(t)
  PROVE  Bottom(u)
<1>1. Len(u) = Len(t) /\ Len(t) \in Nat /\ u[1] = x /\ \A i \in 2 .. Len(t) : u[i] = t[i]
  BY DEF Swapped
<1>2. ASSUME NEW i \in 1 .. Len(t)
      PROVE  /\ u[i].op = "Execute" => Len(t) = 1
             /\ u[i].op = "Next" => i = Len(t)
             /\ u[i].op = "Clear" => \A j \in i .. Len(t) : u[j].op = "Clear"
  <2>1. CASE i = 1
    BY <1>1, <2>1
  <2>2. CASE i # 1
    <3>1. i \in 2 .. Len(t) /\ u[i] = t[i] /\ \A j \in i .. Len(t) : u[j] = t[j]
      BY <1>1, <2>2
    <3> QED BY <3>1 DEF Bottom
  <2> QED BY <2>1, <2>2
<1> QED BY <1>1, <1>2 DEF Bottom

LEMMA BottomPush ==
  ASSUME NEW a \in Seq(Op), NEW t \in Seq(Op), NEW u, Pushed(Op, a, t, u), Bottom(t),
         \A i \in 1 .. Len(a) : a[i].op \notin {"Execute", "Next", "Clear"},
         \A i \in 1 .. Len(t) : t[i].op # "Execute"
  PROVE  Bottom(u)
<1> DEFINE n == Len(a)
           h == Len(t)
<1>1. /\ n \in Nat /\ h \in Nat /\ Len(u) = n + h
      /\ \A j \in 1 .. n : u[j] = a[j]
      /\ \A j \in n + 1 .. n + h : u[j] = t[j - n]
      /\ \A i \in 1 .. n : a[i].op \notin {"Execute", "Next", "Clear"}
      /\ \A i \in 1 .. h : t[i].op # "Execute"
  BY DEF Pushed
<1>2. \A i \in 1 .. h : /\ t[i].op = "Next" => i = h
                        /\ t[i].op = "Clear" => \A j \in i .. h : t[j].op = "Clear"
  BY DEF Bottom
<1> HIDE DEF n, h
<1>3. ASSUME NEW i \in 1 .. n + h
      PROVE  /\ u[i].op # "Execute"
             /\ u[i].op = "Next" => i = n + h
             /\ u[i].op = "Clear" => \A j \in i .. n + h : u[j].op = "Clear"
  <2>1. CASE i <= n
    <3>1. i \in 1 .. n
      BY <1>1, <2>1
    <3> QED BY <1>1, <3>1
  <2>2. CASE ~(i <= n)
    <3> DEFINE j == i - n
    <3>1. i \in n + 1 .. n + h /\ j \in 1 .. h /\ u[i] = t[j]
      BY <1>1, <2>2
    <3>2. j = h => i = n + h
      BY <1>1
    <3>3. ASSUME NEW g \in i .. n + h PROVE g - n \in j .. h /\ u[g] = t[g - n]
      <4>1. g \in n + 1 .. n + h /\ g - n \in j .. h
        BY <1>1, <2>2
      <4> QED BY <1>1, <4>1
    <3> HIDE DEF j
    <3>4. u[i].op # "Execute" /\ (u[i].op = "Next" => i = n + h)
      BY <1>1, <1>2, <3>1, <3>2
    <3>5. ASSUME u[i].op = "Clear", NEW g \in i .. n + h PROVE u[g].op = "Clear"
      <4>1. \A f \in j .. h : t[f].op = "Clear"
        BY <1>2, <3>1, <3>5
      <4> QED BY <3>3, <4>1
    <3> QED BY <3>4, <3>5
  <2> QED BY <2>1, <2>2
<1> QED BY <1>1, <1>3 DEF Bottom

\* Less weight keeps the list sorted.
Lighter(l, P, R, m, Q, T, n) ==
    \A x \in Range(l) : \A w \in Nat \ {0} : Weighs(Q, T, n, x, w) => Weighs(P, R, m, x, w)

LEMMA SortedStep ==
  ASSUME NEW l \in Seq(Effect), NEW P, NEW R, NEW m, NEW Q, NEW T, NEW n, Sorted(l, P, R, m), Lighter(l, P, R, m, Q, T, n)
  PROVE  Sorted(l, Q, T, n)
<1> SUFFICES ASSUME NEW i \in 1 .. Len(l), NEW j \in 1 .. Len(l), i < j, NEW w \in Nat \ {0}, NEW v \in Nat \ {0},
                    Weighs(Q, T, n, l[i], w), Weighs(Q, T, n, l[j], v)
             PROVE  w <= v
  BY DEF Sorted, InOrder
<1>1. l[i] \in Range(l) /\ l[j] \in Range(l)
  BY DEF Range
<1>2. Weighs(P, R, m, l[i], w) /\ Weighs(P, R, m, l[j], v)
  BY <1>1 DEF Lighter
<1> QED BY <1>2 DEF Sorted, InOrder

\* Steps that do not set a priority.
Weightless(r) == r.op \notin {"New", "Start"} /\ ~(r.op = "Call" /\ r.fn \in {"Stop", "ClearStop"})

LEMMA LighterIs ==
  ASSUME NEW l \in Seq(Effect), NEW P, NEW R, NEW m, NEW Q \in [Effect -> Int], NEW T,
         \A y \in Range(l) : Q[y] = 0 \/ Weighs(P, R, m, y, Abs(Q[y])),
         \A r \in T : \/ r \in R \/ Weightless(r)
                      \/ r.op = "Call" /\ (r.prio \in Nat \ {0} => Weighs(P, R, m, r.e, r.prio))
  PROVE  Lighter(l, P, R, m, Q, T, m)
<1> SUFFICES ASSUME NEW y \in Range(l), NEW w \in Nat \ {0}, Weighs(Q, T, m, y, w) PROVE Weighs(P, R, m, y, w)
  BY DEF Lighter
<1>1. CASE w = Abs(Q[y])
  <2>1. Q[y] # 0
    BY <1>1 DEF Abs
  <2> QED BY <1>1, <2>1
<1>2. CASE \E r \in T : Carries(m, r, y, w)
  <2>1. PICK r \in T : Carries(m, r, y, w)
    BY <1>2
  <2>2. ~Weightless(r) /\ r.e = y
    BY <2>1 DEF Carries, Weightless
  <2>3. CASE r \in R
    BY <2>1, <2>3 DEF Weighs
  <2>4. CASE r.op = "Call" /\ (r.prio \in Nat \ {0} => Weighs(P, R, m, r.e, r.prio))
    <3>1. w = r.prio
      BY <2>1, <2>4 DEF Carries
    <3> QED BY <2>2, <2>4, <3>1
  <2> QED BY <2>2, <2>3, <2>4
<1> QED BY <1>1, <1>2 DEF Weighs

\* The next state, with the steps u, has the invariant if what it does not share with
\* this one is right; T are steps that weigh at least as much as those of u.
Fits(l, P, t, m, Q, q, T, u) ==
    /\ Q \in [Effect -> Int] /\ q \in [Effect -> BOOLEAN] /\ \A x \in Effect \ Range(l) : Q[x] = 0
    /\ Covered(l, Q, Range(u)) /\ Lighter(l, P, Range(t), m, Q, T, m)
    /\ Phase(l, Q, q, u)

LEMMA InvPop ==
  ASSUME NEW l, NEW P, NEW o, NEW t, NEW m, Inv(l, P, o, t, m), t # <<>>,
         NEW Q, NEW q, Fits(l, P, t, m, Q, q, Range(t), Tail(t))
  PROVE  Inv(l, Q, q, Tail(t), m)
<1>1. t \in Seq(Op) /\ l \in Seq(Effect) /\ Bottom(t) /\ Sorted(l, P, Range(t), m) /\ \A r \in Range(t) : Good(l, m, r)
  BY DEF Inv, Types
<1>2. Popped(Op, t, Tail(t)) /\ Range(t) = {t[1]} \cup Range(Tail(t))
  BY <1>1, PopIs
<1>3. Bottom(Tail(t)) /\ Tail(t) \in Seq(Op)
  BY <1>1, <1>2, BottomPop DEF Popped
<1>4. Sorted(l, Q, Range(t), m)
  BY <1>1, SortedStep DEF Fits
<1>5. Lighter(l, Q, Range(t), m, Q, Range(Tail(t)), m)
  BY <1>2 DEF Lighter, Weighs
<1>6. Sorted(l, Q, Range(Tail(t)), m)
  BY <1>1, <1>4, <1>5, SortedStep
<1>7. \A r \in Range(Tail(t)) : Good(l, m, r)
  BY <1>1, <1>2
<1>8. Types(l, Q, q, Tail(t), m)
  BY <1>3 DEF Inv, Types, Fits
<1> QED BY <1>3, <1>6, <1>7, <1>8 DEF Inv, Fits

LEMMA InvSwap ==
  ASSUME NEW l, NEW P, NEW o, NEW t, NEW m, Inv(l, P, o, t, m), t # <<>>,
         NEW x \in Op, x.op \notin {"Execute", "Next", "Clear"}, Good(l, m, x),
         NEW Q, NEW q, NEW u, u = <<x>> \o Tail(t), Fits(l, P, t, m, Q, q, {x} \cup Range(t), u)
  PROVE  Inv(l, Q, q, u, m)
<1>1. t \in Seq(Op) /\ l \in Seq(Effect) /\ Bottom(t) /\ Sorted(l, P, Range(t), m) /\ \A r \in Range(t) : Good(l, m, r)
  BY DEF Inv, Types
<1>2. Swapped(Op, t, x, u) /\ Range(u) = {x} \cup Range(Tail(t)) /\ Range(t) = {t[1]} \cup Range(Tail(t))
  BY <1>1, PopIs, SwapIs
<1>3. Bottom(u) /\ u \in Seq(Op)
  BY <1>1, <1>2, BottomSwap DEF Swapped
<1>4. Sorted(l, Q, {x} \cup Range(t), m)
  BY <1>1, SortedStep DEF Fits
<1>5. Lighter(l, Q, {x} \cup Range(t), m, Q, Range(u), m)
  BY <1>2 DEF Lighter, Weighs
<1>6. Sorted(l, Q, Range(u), m)
  BY <1>1, <1>4, <1>5, SortedStep
<1>7. \A r \in Range(u) : Good(l, m, r)
  BY <1>1, <1>2
<1>8. Types(l, Q, q, u, m)
  BY <1>3 DEF Inv, Types, Fits
<1> QED BY <1>3, <1>6, <1>7, <1>8 DEF Inv, Fits

\* ... when steps come before t, which is all that was left or what comes after it.
LEMMA InvPush ==
  ASSUME NEW l, NEW P, NEW o, NEW b, NEW m, Inv(l, P, o, b, m),
         NEW t \in Seq(Op), Range(t) \subseteq Range(b), Bottom(t), \A i \in 1 .. Len(t) : t[i].op # "Execute",
         NEW a \in Seq(Op), \A i \in 1 .. Len(a) : a[i].op \notin {"Execute", "Next", "Clear"} /\ Good(l, m, a[i]),
         NEW u, u = a \o t,
         Covered(l, P, Range(u)), Lighter(l, P, Range(b), m, P, Range(u), m),
         Phase(l, P, o, u)
  PROVE  Inv(l, P, o, u, m)
<1>1. b \in Seq(Op) /\ l \in Seq(Effect) /\ Sorted(l, P, Range(b), m) /\ \A r \in Range(b) : Good(l, m, r)
  BY DEF Inv, Types
<1>2. Pushed(Op, a, t, u)
  BY PushIs
<1>3. Bottom(u)
  BY <1>2, BottomPush
<1>4. u \in Seq(Op) /\ Range(u) = Range(a) \cup Range(t)
  BY <1>2 DEF Pushed
<1>5. Sorted(l, P, Range(u), m)
  BY <1>1, SortedStep
<1>6. \A r \in Range(u) : Good(l, m, r)
  <2>1. ASSUME NEW r \in Range(a) PROVE Good(l, m, r)
    <3>1. PICK i \in 1 .. Len(a) : a[i] = r
      BY DEF Range
    <3> QED BY <3>1
  <2>2. ASSUME NEW r \in Range(t) PROVE Good(l, m, r)
    <3>1. r \in Range(b)
      OBVIOUS
    <3> QED BY <1>1, <3>1
  <2> QED BY <1>4, <2>1, <2>2
<1>7. Types(l, P, o, u, m)
  BY <1>4 DEF Inv, Types
<1> QED BY <1>3, <1>5, <1>6, <1>7 DEF Inv

-----------------------------------------------------------------------------
(* Where effects are in the list, and what a callback is told.             *)

LEMMA PlaceIs ==
  ASSUME Types(list, prio, on, todo, made)
  PROVE  /\ \A e \in Range(list) : /\ e \in Effect /\ Index(e) = Pos(list, e) /\ Pos(list, e) \in 1 .. Len(list)
                                   /\ list[Pos(list, e)] = e
         /\ \A i \in 1 .. Len(list) : list[i] \in Range(list) /\ Pos(list, list[i]) = i
         /\ Len(list) \in Nat
<1>1. list \in Seq(Effect) /\ Distinct(list)
  BY DEF Types
<1>2. \A i \in 1 .. Len(list) : list[i] \in Range(list) /\ Pos(list, list[i]) = i
  BY <1>1, PosIs DEF Range
<1>3. \A e \in Range(list) : Pos(list, e) \in 1 .. Len(list) /\ list[Pos(list, e)] = e
  BY <1>1, PosIs
<1>4. \A e : Index(e) = Pos(list, e)
  BY DEF Index, Pos
<1> QED BY <1>1, <1>2, <1>3, <1>4 DEF Range

LEMMA BehindIs ==
  ASSUME Types(list, prio, on, todo, made), NEW e \in Range(list)
  PROVE  Behind(e) = {y \in Range(list) : Pos(list, e) < Pos(list, y)}
<1>1. Index(e) = Pos(list, e) /\ Pos(list, e) \in 1 .. Len(list) /\ Len(list) \in Nat
  BY PlaceIs
<1>2. \A y \in Range(list) : Pos(list, y) \in 1 .. Len(list) /\ list[Pos(list, y)] = y
  BY PlaceIs
<1>3. \A i \in 1 .. Len(list) : list[i] \in Range(list) /\ Pos(list, list[i]) = i
  BY PlaceIs
<1>4. ASSUME NEW y \in Behind(e) PROVE y \in Range(list) /\ Pos(list, e) < Pos(list, y)
  <2>1. PICK i \in Pos(list, e) + 1 .. Len(list) : y = list[i]
    BY <1>1 DEF Behind
  <2> QED BY <1>1, <1>3, <2>1
<1>5. ASSUME NEW y \in Range(list), Pos(list, e) < Pos(list, y) PROVE y \in Behind(e)
  <2>1. Pos(list, y) \in Pos(list, e) + 1 .. Len(list)
    BY <1>1, <1>2, <1>5
  <2> QED BY <1>1, <1>2, <2>1 DEF Behind
<1> QED BY <1>4, <1>5

LEMMA pNextIs ==
  ASSUME Types(list, prio, on, todo, made), NEW e \in Range(list), Pos(list, e) < Len(list)
  PROVE  pNext(e) \in Range(list) /\ pNext(e) \in Effect /\ Pos(list, pNext(e)) = Pos(list, e) + 1 /\ pNext(e) # e
<1> DEFINE i == Pos(list, e) + 1
<1>1. Index(e) = Pos(list, e) /\ Pos(list, e) \in 1 .. Len(list) /\ Len(list) \in Nat
  BY PlaceIs
<1>2. i \in 1 .. Len(list) /\ pNext(e) = list[i] /\ i # Pos(list, e)
  BY <1>1 DEF pNext
<1> HIDE DEF i
<1>3. list[i] \in Range(list) /\ Pos(list, list[i]) = i
  BY <1>2, PlaceIs
<1> QED BY <1>2, <1>3, PlaceIs DEF i

LEMMA CallIs ==
  ASSUME Types(list, prio, on, todo, made), NEW e \in Range(list), NEW fn \in Calls
  PROVE  LET x == Call(e, fn)
         IN  /\ x \in Called /\ x.op = "Call" /\ x.fn = fn /\ x.e = e
             /\ x.was = on[e] /\ x.prio = prio[e] /\ x.made = made
             /\ x.over = {y \in Range(list) : Pos(list, e) < Pos(list, y) /\ on[y] /\ prio[y] # 1}
<1> DEFINE over == {y \in Behind(e) : on[y] /\ prio[y] # 1}
<1>1. e \in Effect /\ prio[e] \in Int /\ on[e] \in BOOLEAN /\ made \in Nat
  BY PlaceIs DEF Types
<1>2. over \subseteq Effect
  BY PlaceIs, BehindIs
<1>3. over = {y \in Range(list) : Pos(list, e) < Pos(list, y) /\ on[y] /\ prio[y] # 1}
  BY BehindIs
<1> DEFINE x == [op |-> "Call", fn |-> fn, e |-> e, was |-> on[e], prio |-> prio[e], made |-> made, over |-> over]
<1>4. Call(e, fn) = x
  BY DEF Call
<1> HIDE DEF over
<1>5. /\ x \in Called /\ x.op = "Call" /\ x.fn = fn /\ x.e = e
      /\ x.was = on[e] /\ x.prio = prio[e] /\ x.made = made /\ x.over = over
  BY <1>1, <1>2 DEF Called
<1> HIDE DEF x
<1> QED BY <1>3, <1>4, <1>5

\* The next step.
LEMMA HeadIs ==
  ASSUME IInv, todo # <<>>
  PROVE  /\ Head(todo) = todo[1] /\ 1 \in 1 .. Len(todo) /\ todo[1] \in Op /\ todo[1] \in Range(todo)
         /\ todo[1].e \in Range(list) /\ todo[1].e \in Effect /\ Good(list, made, todo[1])
         /\ Types(list, prio, on, todo, made) /\ todo \in Seq(Op)
         /\ Popped(Op, todo, Tail(todo)) /\ Range(todo) = {todo[1]} \cup Range(Tail(todo))
<1>1. Types(list, prio, on, todo, made) /\ todo \in Seq(Op) /\ \A r \in Range(todo) : Good(list, made, r)
  BY DEF IInv, Inv, Types
<1>2. /\ Head(todo) = todo[1] /\ 1 \in 1 .. Len(todo)
      /\ Popped(Op, todo, Tail(todo)) /\ Range(todo) = {todo[1]} \cup Range(Tail(todo))
  BY <1>1, PopIs
<1>3. todo[1] \in Op /\ todo[1] \in Range(todo)
  BY <1>1, <1>2 DEF Range
<1>4. Good(list, made, todo[1]) /\ todo[1].e \in Range(list)
  BY <1>1, <1>3 DEF Good, Refers
<1> QED BY <1>1, <1>2, <1>3, <1>4, PlaceIs

LEMMA CoveredIs ==
  ASSUME NEW l, NEW P, NEW R, NEW Q, NEW T, Covered(l, P, R),
         \A y \in Effect : Q[y] < 0 => P[y] < 0 \/ IsCovered(l, T, y),
         \A r \in R : r.op = "Readd" => r \in T
  PROVE  Covered(l, Q, T)
<1> SUFFICES ASSUME NEW y \in Effect, P[y] < 0 PROVE IsCovered(l, T, y)
  BY DEF Covered
<1>1. PICK r \in R : Covers(l, r, y)
  BY DEF Covered, IsCovered
<1>2. r \in T
  BY <1>1 DEF Covers
<1> QED BY <1>1, <1>2 DEF IsCovered

\* A step that is not a Readd is done and changed nothing.
LEMMA PopSame ==
  ASSUME NEW l, NEW P, NEW o, NEW t, NEW m, Inv(l, P, o, t, m), t # <<>>, t[1].op # "Readd", Phase(l, P, o, Tail(t))
  PROVE  Inv(l, P, o, Tail(t), m)
<1>1. /\ P \in [Effect -> Int] /\ o \in [Effect -> BOOLEAN] /\ \A x \in Effect \ Range(l) : P[x] = 0
      /\ t \in Seq(Op) /\ Covered(l, P, Range(t))
  BY DEF Inv, Types
<1>2. Range(t) = {t[1]} \cup Range(Tail(t))
  BY <1>1, PopIs
<1>3. Covered(l, P, Range(Tail(t)))
  BY <1>1, <1>2, CoveredIs
<1>4. Lighter(l, P, Range(t), m, P, Range(t), m)
  BY DEF Lighter
<1>5. Fits(l, P, t, m, P, o, Range(t), Tail(t))
  BY <1>1, <1>3, <1>4 DEF Fits
<1> QED BY <1>5, InvPop

\* A step that is not urgent is done, and e has another priority.
LEMMA PopChanged ==
  ASSUME NEW l, NEW P, NEW o, NEW t, NEW m, Inv(l, P, o, t, m), t # <<>>, t[1].op # "Readd", ~Urgent(t[1]),
         NEW e \in Range(l), NEW n \in Nat, n = 0 \/ Weighs(P, Range(t), m, e, n),
         NEW v \in BOOLEAN, v <=> n > 0, NEW Q, Q = [P EXCEPT ![e] = n], NEW q, q = [o EXCEPT ![e] = v]
  PROVE  Inv(l, Q, q, Tail(t), m)
<1>1. /\ P \in [Effect -> Int] /\ o \in [Effect -> BOOLEAN] /\ \A x \in Effect \ Range(l) : P[x] = 0
      /\ t \in Seq(Op) /\ Covered(l, P, Range(t)) /\ l \in Seq(Effect) /\ Phase(l, P, o, t)
  BY DEF Inv, Types
<1>2. Range(t) = {t[1]} \cup Range(Tail(t)) /\ Popped(Op, t, Tail(t)) /\ 1 \in 1 .. Len(t)
  BY <1>1, PopIs
<1>3. e \in Effect
  BY <1>1 DEF Range
<1>4. /\ Q \in [Effect -> Int] /\ q \in [Effect -> BOOLEAN]
      /\ Q[e] = n /\ q[e] = v /\ \A y \in Effect : y # e => Q[y] = P[y] /\ q[y] = o[y]
  BY <1>1, <1>3
<1>5. Resting(P, o, t)
  BY <1>1, <1>2, PhaseIs
<1>6. Resting(Q, q, Tail(t))
  <2>1. Calm(t, 1 + 1) /\ Exact(P, o, {})
    BY <1>5 DEF Resting, Calm
  <2>2. Calm(Tail(t), 1)
    BY <1>1, <1>2, <2>1, CalmPop
  <2>3. ASSUME NEW y \in Effect PROVE q[y] <=> Q[y] > 0
    BY <1>4, <2>1 DEF Exact
  <2> QED BY <2>2, <2>3 DEF Resting, Exact
<1>7. Covered(l, Q, Range(Tail(t)))
  <2>1. \A y \in Effect : Q[y] < 0 => P[y] < 0
    BY <1>4
  <2> QED BY <1>1, <1>2, <2>1, CoveredIs
<1>8. Lighter(l, P, Range(t), m, Q, Range(t), m)
  <2>1. ASSUME NEW y \in Range(l) PROVE Q[y] = 0 \/ Weighs(P, Range(t), m, y, Abs(Q[y]))
    <3>1. CASE y = e
      <4>1. Abs(n) = n
        BY DEF Abs
      <4> QED BY <1>4, <3>1, <4>1
    <3>2. CASE y # e
      <4>1. y \in Effect
        BY <1>1 DEF Range
      <4> QED BY <1>4, <3>2, <4>1 DEF Weighs
    <3> QED BY <3>1, <3>2
  <2> QED BY <1>1, <1>4, <2>1, LighterIs
<1>9. \A x \in Effect \ Range(l) : Q[x] = 0
  BY <1>1, <1>4
<1>10. Fits(l, P, t, m, Q, q, Range(t), Tail(t))
  BY <1>4, <1>6, <1>7, <1>8, <1>9 DEF Fits, Phase
<1> QED BY <1>10, InvPop

-----------------------------------------------------------------------------
(* Callbacks return.                                                       *)

LEMMA ReturnStep ==
  ASSUME IInv, ~Stubborn, Return
  PROVE  IInv'
<1> DEFINE s == todo[1]
           rest == Tail(todo)
<1>1. todo # <<>> /\ Head(todo).op = "Call" /\ UNCHANGED <<list, made>>
  BY DEF Return
<1>2. /\ Head(todo) = s /\ 1 \in 1 .. Len(todo) /\ s \in Op /\ s \in Range(todo)
      /\ s.e \in Range(list) /\ s.e \in Effect /\ todo \in Seq(Op)
      /\ Popped(Op, todo, rest) /\ Range(todo) = {s} \cup Range(rest)
  BY <1>1, HeadIs
<1>3. s.op = "Call" /\ s \in Called
  BY <1>1, <1>2 DEF Op, Plain, Readds, Checks, News
<1>4. /\ Inv(list, prio, on, todo, made) /\ Phase(list, prio, on, todo)
      /\ prio \in [Effect -> Int] /\ on \in [Effect -> BOOLEAN]
  BY DEF IInv, Inv, Types
<1> HIDE DEF s, rest
<1>5. Inv(list, prio, on, rest, made)
  <2>1. Phase(list, prio, on, rest)
    BY <1>1, <1>2, <1>3, <1>4, PhasePop DEF s, rest
  <2> QED BY <1>1, <1>3, <1>4, <2>1, PopSame DEF s, rest
<1>6. CASE todo' = rest /\ UNCHANGED <<prio, on>>
  BY <1>1, <1>5, <1>6 DEF IInv
<1>7. CASE s.fn = "Start" /\ prio' = [prio EXCEPT ![s.e] = 0] /\ on' = [on EXCEPT ![s.e] = FALSE] /\ todo' = rest
  <2>1. ~Urgent(s)
    BY <1>3, <1>7 DEF Urgent, Hurry, Silent
  <2>2. 0 \in Nat /\ (FALSE <=> 0 > 0)
    OBVIOUS
  <2>3. Inv(list, prio', on', rest, made)
    BY <1>1, <1>2, <1>3, <1>4, <1>7, <2>1, <2>2, PopChanged DEF s, rest
  <2> QED BY <1>1, <1>7, <2>3 DEF IInv
<1>8. CASE /\ s.fn \in {"Stop", "ClearStop"} /\ s.prio > 0 /\ s.made = made
           /\ prio' = [prio EXCEPT ![s.e] = s.prio] /\ on' = [on EXCEPT ![s.e] = TRUE] /\ todo' = rest
  <2>1. ~Urgent(s)
    BY <1>3, <1>8 DEF Urgent, Hurry, Silent
  <2>2. s.prio \in Nat /\ (TRUE <=> s.prio > 0)
    BY <1>3, <1>8 DEF Called
  <2>3. Weighs(prio, Range(todo), made, s.e, s.prio)
    BY <1>2, <1>3, <1>8 DEF Weighs, Carries
  <2>4. Inv(list, prio', on', rest, made)
    BY <1>1, <1>2, <1>3, <1>4, <1>8, <2>1, <2>2, <2>3, PopChanged DEF s, rest
  <2> QED BY <1>1, <1>8, <2>4 DEF IInv
<1>9. ASSUME s.fn = "Effect"
      PROVE  /\ rest # <<>> /\ rest \in Seq(Op) /\ Asking(prio, on, rest, 1)
             /\ 1 \in 1 .. Len(rest) /\ 2 \in 1 .. Len(rest)
  <2>1. Asking(prio, on, todo, 2)
    BY <1>2, <1>3, <1>4, <1>9, PhaseIs DEF CallOf, s
  <2>2. rest \in Seq(Op) /\ Len(rest) = Len(todo) - 1 /\ Len(todo) \in Nat /\ \A i \in 1 .. Len(todo) - 1 : rest[i] = todo[i + 1]
    BY <1>2 DEF Popped
  <2>3. 3 \in 1 .. Len(todo) /\ todo[2].op = "Check"
    BY <2>1 DEF Asking
  <2>4. 1 \in 1 .. Len(rest) /\ 2 \in 1 .. Len(rest) /\ rest[1] = todo[1 + 1] /\ rest # <<>>
    BY <2>2, <2>3
  <2>5. Phase(list, prio, on, rest)
    BY <1>5 DEF Inv
  <2> QED BY <2>2, <2>3, <2>4, <2>5, PhaseIs
<1>10. CASE s.fn = "Effect" /\ todo' = Tail(Tail(rest)) /\ UNCHANGED <<prio, on>>
  <2> DEFINE t == Tail(rest)
  <2>1. /\ rest # <<>> /\ rest \in Seq(Op) /\ 1 \in 1 .. Len(rest) /\ 2 \in 1 .. Len(rest) /\ Asking(prio, on, rest, 1)
    BY <1>9, <1>10
  <2>2. Popped(Op, rest, t)
    BY <2>1, PopIs
  <2>3. t \in Seq(Op) /\ Len(t) = Len(rest) - 1 /\ Len(rest) \in Nat /\ t[1] = rest[1 + 1]
    BY <2>1, <2>2 DEF Popped
  <2>4. /\ rest[1].op = "Check" /\ rest[2].op = "New" /\ prio[rest[2].e] = 0
        /\ Calm(rest, 3) /\ Exact(prio, on, {})
    BY <2>1 DEF Asking
  <2> HIDE DEF t
  <2>5. 1 \in 1 .. Len(t) /\ t # <<>>
    BY <2>1, <2>3
  <2>6. Calm(t, 2)
    <3>1. Calm(rest, 2 + 1)
      BY <2>4
    <3> QED BY <2>1, <2>2, <3>1, CalmPop
  <2>7. Calm(Tail(t), 1)
    <3>1. Calm(t, 1 + 1) /\ Popped(Op, t, Tail(t))
      BY <2>3, <2>5, <2>6, PopIs
    <3> QED BY <2>3, <3>1, CalmPop
  <2>8. Placing(prio, on, t) /\ Resting(prio, on, Tail(t))
    BY <2>3, <2>4, <2>5, <2>6, <2>7 DEF Placing, Resting
  <2>9. Inv(list, prio, on, t, made)
    BY <1>5, <2>1, <2>4, <2>8, PopSame DEF t, Phase
  <2>10. Inv(list, prio, on, Tail(t), made)
    BY <2>3, <2>4, <2>5, <2>8, <2>9, PopSame DEF Phase
  <2> QED BY <1>1, <1>10, <2>10 DEF IInv, t
<1>11. CASE /\ s.fn = "Effect" /\ UNCHANGED <<prio, on>>
            /\ \E calls \in BOOLEAN : todo' = <<[rest[1] EXCEPT !.add = s.e, !.calls = calls]>> \o Tail(rest)
  <2>1. /\ rest # <<>> /\ rest \in Seq(Op) /\ 1 \in 1 .. Len(rest) /\ 2 \in 1 .. Len(rest) /\ Asking(prio, on, rest, 1)
    BY <1>9, <1>11
  <2> DEFINE c == rest[1]
  <2>2. /\ c.op = "Check" /\ rest[2].op = "New" /\ prio[rest[2].e] = 0
        /\ Calm(rest, 3) /\ Exact(prio, on, {})
    BY <2>1 DEF Asking
  <2>3. c \in Checks
    <3>1. c \in Op
      BY <2>1
    <3> HIDE DEF c
    <3> QED BY <2>2, <3>1 DEF Op, Plain, Readds, Called, News
  <2>4. Good(list, made, c)
    <3>1. c \in Range(rest)
      BY <2>1 DEF Range
    <3> QED BY <1>5, <3>1 DEF Inv
  <2>5. PICK calls \in BOOLEAN : todo' = <<[c EXCEPT !.add = s.e, !.calls = calls]>> \o Tail(rest)
    BY <1>11
  <2> DEFINE x == [c EXCEPT !.add = s.e, !.calls = calls]
  <2> HIDE DEF c
  <2>6. /\ x \in Checks /\ x.op = "Check" /\ x.e = c.e /\ x.at = c.at /\ x.add = s.e /\ x.calls = calls
    BY <1>2, <2>3, <2>5 DEF Checks
  <2>7. todo' = <<x>> \o Tail(rest)
    BY <2>5
  <2> HIDE DEF x
  <2>8. x \in Op /\ x.op \notin {"Execute", "Next", "Clear"} /\ Good(list, made, x) /\ Weightless(x)
    <3>1. x \in Op /\ x.op \notin {"Execute", "Next", "Clear"} /\ Weightless(x) /\ ToldRight(x)
      BY <2>6 DEF Op, Weightless, ToldRight
    <3>2. Refers(list, x)
      BY <1>2, <2>2, <2>4, <2>6 DEF Good, Refers
    <3> QED BY <2>6, <3>1, <3>2 DEF Good
  <2> DEFINE u == <<x>> \o Tail(rest)
  <2>9. Swapped(Op, rest, x, u) /\ Range(u) = {x} \cup Range(Tail(rest)) /\ Range(rest) = {c} \cup Range(Tail(rest))
    BY <2>1, <2>8, SwapIs, PopIs DEF c
  <2> HIDE DEF u
  <2>10. Asking(prio, on, u, 1)
    <3>1. Len(u) = Len(rest) /\ u[1] = x /\ u[2] = rest[2]
      BY <2>1, <2>9 DEF Swapped
    <3>2. Calm(u, 3)
      BY <2>1, <2>2, <2>9, CalmSwap
    <3> QED BY <2>1, <2>2, <2>6, <3>1, <3>2 DEF Asking
  <2>11. Covered(list, prio, Range(u))
    <3>1. Covered(list, prio, Range(rest))
      BY <1>5 DEF Inv
    <3> QED BY <2>2, <2>9, <3>1, CoveredIs
  <2>12. Lighter(list, prio, Range(rest), made, prio, {x} \cup Range(rest), made)
    <3>1. list \in Seq(Effect)
      BY <1>4 DEF Inv, Types
    <3>2. \A y \in Range(list) : Weighs(prio, Range(rest), made, y, Abs(prio[y]))
      BY DEF Weighs
    <3> QED BY <1>4, <2>8, <3>1, <3>2, LighterIs
  <2>13. \A y \in Effect \ Range(list) : prio[y] = 0
    BY <1>4 DEF Inv, Types
  <2>14. Fits(list, prio, rest, made, prio, on, {x} \cup Range(rest), u)
    BY <1>4, <2>10, <2>11, <2>12, <2>13 DEF Fits, Phase
  <2>15. Inv(list, prio, on, u, made)
    BY <1>5, <2>1, <2>8, <2>14, InvSwap DEF u
  <2> QED BY <1>1, <1>11, <2>7, <2>15 DEF IInv, u
<1> QED BY <1>1, <1>2, <1>6, <1>7, <1>8, <1>10, <1>11 DEF Return, rest

-----------------------------------------------------------------------------
(* Steps that call a script and are done.                                  *)

\* The step that is left of those before it starts, ends or extends its effect: those
\* behind it are stopped if it has a priority.
LEMMA NowIs ==
  ASSUME NEW l, NEW P, NEW o, NEW b, Phase(l, P, o, b), 1 \in 1 .. Len(b), b[1].op \in {"Start", "Add", "SetDead"}
  PROVE  /\ Calm(b, 2)
         /\ Heavy(P, b[1]) => \A y \in Range(l) : Pos(l, b[1].e) < Pos(l, y) => ~(P[y] > 0)
         /\ b[1].op = "Start" => P[b[1].e] = 0
         /\ b[1].op = "SetDead" => o[b[1].e] /\ Exact(P, o, {b[1].e})
         /\ b[1].op # "SetDead" => Exact(P, o, {})
<1>1. PICK k \in 1 .. Len(b) : Stopping(l, P, o, b, 1, k)
  BY PhaseIs
<1>2. k = 1
  <2> SUFFICES ASSUME k # 1 PROVE FALSE
    OBVIOUS
  <2>1. 1 \in 1 .. k - 1
    OBVIOUS
  <2>2. b[1].op = "TempRemove"
    BY <1>1, <2>1 DEF Stopping
  <2> QED BY <2>2
<1>3. Stopping(l, P, o, b, 1, 1)
  BY <1>1, <1>2
<1>4. Heavy(P, b[1]) => \A y \in Range(l) : Pos(l, b[1].e) < Pos(l, y) => ~(P[y] > 0)
  BY <1>3 DEF Stopping, AllUp
<1>5. Calm(b, 1 + 1)
  BY <1>3 DEF Stopping
<1> QED BY <1>3, <1>4, <1>5 DEF Stopping

\* The callback x of e is one that may use the list, and tells e what is right.
Tells(x, e, m) == x \in Called /\ x.fn \notin Silent /\ x.e = e /\ ToldRight(x) /\ x.made = m

\* The callback x takes the place of the next step, and its effect e has changed.
LEMMA SwapFits ==
  ASSUME NEW l, NEW P, NEW o, NEW t, NEW m, Inv(l, P, o, t, m), t # <<>>, t[1].op # "Readd", Calm(t, 2),
         NEW e \in Range(l), NEW n \in Int, n >= 0 \/ P[e] < 0, n = 0 \/ Weighs(P, Range(t), m, e, Abs(n)),
         NEW v \in BOOLEAN, NEW Q, Q = [P EXCEPT ![e] = n], NEW q, q = [o EXCEPT ![e] = v], Exact(Q, q, {}),
         NEW x, Tells(x, e, m),
         x.fn \in {"Stop", "ClearStop"} => (x.prio \in Nat \ {0} => Weighs(P, Range(t), m, e, x.prio))
  PROVE  /\ x \in Op /\ x.op \notin {"Execute", "Next", "Clear"} /\ Good(l, m, x)
         /\ Fits(l, P, t, m, Q, q, {x} \cup Range(t), <<x>> \o Tail(t))
<1>1. PICK u : u = <<x>> \o Tail(t)
  OBVIOUS
<1>2. /\ P \in [Effect -> Int] /\ o \in [Effect -> BOOLEAN] /\ \A y \in Effect \ Range(l) : P[y] = 0
      /\ t \in Seq(Op) /\ Covered(l, P, Range(t)) /\ l \in Seq(Effect) /\ m \in Int
  BY DEF Inv, Types
<1>3. x \in Op /\ x.op = "Call"
  BY DEF Op, Called, Tells
<1>4. Swapped(Op, t, x, u) /\ Range(u) = {x} \cup Range(Tail(t)) /\ Range(t) = {t[1]} \cup Range(Tail(t))
  BY <1>2, <1>3, <1>1, PopIs, SwapIs
<1>5. e \in Effect
  BY <1>2 DEF Range
<1>6. /\ Q \in [Effect -> Int] /\ q \in [Effect -> BOOLEAN]
      /\ Q[e] = n /\ \A y \in Effect : y # e => Q[y] = P[y]
  BY <1>2, <1>5
<1>7. ~Urgent(x)
  BY <1>3 DEF Urgent, Hurry, Tells
<1>8. Resting(Q, q, u)
  BY <1>2, <1>4, <1>7, CalmSwap DEF Resting
<1>9. Covered(l, Q, Range(u))
  <2>1. ASSUME NEW y \in Effect, Q[y] < 0 PROVE P[y] < 0
    <3>1. CASE y = e
      <4>1. ~(n >= 0)
        BY <1>6, <2>1, <3>1
      <4> QED BY <3>1, <4>1
    <3>2. CASE y # e
      BY <1>6, <2>1, <3>2
    <3> QED BY <3>1, <3>2
  <2>2. \A r \in Range(t) : r.op = "Readd" => r \in Range(u)
    BY <1>4
  <2> QED BY <1>2, <2>1, <2>2, CoveredIs
<1>10. Lighter(l, P, Range(t), m, Q, {x} \cup Range(t), m)
  <2>1. ASSUME NEW y \in Range(l) PROVE Q[y] = 0 \/ Weighs(P, Range(t), m, y, Abs(Q[y]))
    <3>1. CASE y = e
      BY <1>6, <3>1
    <3>2. CASE y # e
      <4>1. y \in Effect
        BY <1>2 DEF Range
      <4> QED BY <1>6, <3>2, <4>1 DEF Weighs
    <3> QED BY <3>1, <3>2
  <2>2. Weightless(x) \/ (x.op = "Call" /\ (x.prio \in Nat \ {0} => Weighs(P, Range(t), m, x.e, x.prio)))
    BY <1>3 DEF Weightless, Tells
  <2>3. ASSUME NEW r \in {x} \cup Range(t)
        PROVE  \/ r \in Range(t) \/ Weightless(r)
               \/ r.op = "Call" /\ (r.prio \in Nat \ {0} => Weighs(P, Range(t), m, r.e, r.prio))
    BY <2>2
  <2> QED BY <1>2, <1>6, <2>1, <2>3, LighterIs
<1>11. \A y \in Effect \ Range(l) : Q[y] = 0
  BY <1>2, <1>6
<1>12. Good(l, m, x)
  BY <1>2, <1>3 DEF Good, Refers, Tells
<1>13. Phase(l, Q, q, u)
  BY <1>8 DEF Phase
<1>14. x.op \notin {"Execute", "Next", "Clear"}
  BY <1>3
<1>15. Fits(l, P, t, m, Q, q, {x} \cup Range(t), u)
  BY <1>6, <1>9, <1>10, <1>11, <1>13 DEF Fits
<1> QED BY <1>3, <1>12, <1>14, <1>15, <1>1

LEMMA SwapChanged ==
  ASSUME NEW l, NEW P, NEW o, NEW t, NEW m, Inv(l, P, o, t, m), t # <<>>, t[1].op # "Readd", Calm(t, 2),
         NEW e \in Range(l), NEW n \in Int, n >= 0 \/ P[e] < 0, n = 0 \/ Weighs(P, Range(t), m, e, Abs(n)),
         NEW v \in BOOLEAN, NEW Q, Q = [P EXCEPT ![e] = n], NEW q, q = [o EXCEPT ![e] = v], Exact(Q, q, {}),
         NEW x, Tells(x, e, m),
         x.fn \in {"Stop", "ClearStop"} => (x.prio \in Nat \ {0} => Weighs(P, Range(t), m, e, x.prio))
  PROVE  Inv(l, Q, q, <<x>> \o Tail(t), m)
BY SwapFits, InvSwap

LEMMA TellIs ==
  ASSUME NEW e, NEW fn, Tell(e, fn)
  PROVE  /\ fn \in Starts => on' = [on EXCEPT ![e] = TRUE]
         /\ fn \in Stops => on' = [on EXCEPT ![e] = FALSE]
         /\ "Start" \in Starts /\ "TempStart" \in Starts /\ "StartForRemoval" \in Starts
         /\ "Stop" \in Stops /\ "TempStop" \in Stops /\ "ClearStop" \in Stops
<1>1. CASE fn \in Starts
  <2>1. fn \notin Stops
    BY <1>1 DEF Starts, Stops
  <2>2. on' = [on EXCEPT ![e] = TRUE]
    BY <1>1, <2>1 DEF Tell
  <2> QED BY <2>1, <2>2 DEF Starts, Stops
<1>2. CASE fn \in Stops
  <2>1. fn \notin Starts
    BY <1>2 DEF Starts, Stops
  <2>2. on' = [on EXCEPT ![e] = FALSE]
    BY <1>2, <2>1 DEF Tell
  <2> QED BY <2>1, <2>2 DEF Starts, Stops
<1> QED BY <1>1, <1>2 DEF Starts, Stops

LEMMA StartStep ==
  ASSUME IInv, todo # <<>>, todo[1].op = "Start", Start(todo[1], Tail(todo)), UNCHANGED made
  PROVE  IInv'
<1> DEFINE s == todo[1]
           e == s.e
           c == Call(e, "Start")
           x == [c EXCEPT !.prio = s.p]
<1>1. /\ 1 \in 1 .. Len(todo) /\ e \in Range(list) /\ e \in Effect /\ Types(list, prio, on, todo, made)
      /\ prio \in [Effect -> Int] /\ on \in [Effect -> BOOLEAN] /\ Inv(list, prio, on, todo, made)
      /\ Phase(list, prio, on, todo) /\ s \in Range(todo) /\ s \in Op
  BY HeadIs DEF IInv, Inv, Types
<1>2. /\ Calm(todo, 2) /\ Exact(prio, on, {}) /\ prio[e] = 0
      /\ Heavy(prio, s) => \A y \in Range(list) : Pos(list, e) < Pos(list, y) => ~(prio[y] > 0)
  BY <1>1, NowIs
<1>3. /\ c \in Called /\ c.op = "Call" /\ c.fn = "Start" /\ c.e = e /\ c.made = made /\ c.was = on[e]
      /\ c.over = {y \in Range(list) : Pos(list, e) < Pos(list, y) /\ on[y] /\ prio[y] # 1}
  BY <1>1, CallIs DEF Calls
<1>4. s.p \in Nat \ {0}
  BY <1>1, PriorityAssumption DEF Op, Plain, Readds, Checks, News, Called
<1>5. UNCHANGED list /\ prio' = [prio EXCEPT ![e] = s.p] /\ todo' = <<x>> \o Tail(todo) /\ on' = [on EXCEPT ![e] = TRUE]
  <2>1. UNCHANGED list /\ prio' = [prio EXCEPT ![e] = s.p] /\ todo' = <<x>> \o Tail(todo) /\ Tell(e, "Start")
    BY DEF Start
  <2> QED BY <2>1, TellIs
<1> HIDE DEF c
<1>6. x \in Called /\ x.op = "Call" /\ x.fn = "Start" /\ x.e = e /\ x.made = made /\ x.was = c.was /\ x.over = c.over /\ x.prio = s.p
  BY <1>3, <1>4 DEF Called
<1> HIDE DEF x
<1>7. ToldRight(x)
  <2>1. ~x.was
    BY <1>1, <1>2, <1>3, <1>6 DEF Exact
  <2>2. ASSUME s.p > 1 PROVE x.over = {}
    <3>1. Heavy(prio, s)
      BY <2>2 DEF Heavy
    <3>2. \A y \in Range(list) : y \in Effect
      BY <1>1, PlaceIs
    <3>3. \A y \in Range(list) : on[y] <=> prio[y] > 0
      BY <1>2, <3>2 DEF Exact
    <3> QED BY <1>2, <1>3, <1>6, <3>1, <3>3
  <2> QED BY <1>6, <2>1, <2>2 DEF ToldRight, Stops
<1>8. Tells(x, e, made) /\ x.fn \notin {"Stop", "ClearStop"}
  BY <1>6, <1>7 DEF Tells, Silent
<1>9. Weighs(prio, Range(todo), made, e, Abs(s.p))
  <2>1. Abs(s.p) = s.p
    BY <1>4 DEF Abs
  <2>2. Carries(made, s, e, s.p)
    BY DEF Carries
  <2> QED BY <1>1, <2>1, <2>2 DEF Weighs
<1>10. Exact(prio', on', {})
  <2>1. ASSUME NEW y \in Effect PROVE on'[y] <=> prio'[y] > 0
    BY <1>1, <1>2, <1>4, <1>5 DEF Exact
  <2> QED BY <2>1 DEF Exact
<1>11. s.p \in Int /\ s.p >= 0 /\ TRUE \in BOOLEAN
  BY <1>4
<1>12. Inv(list, prio', on', <<x>> \o Tail(todo), made)
  BY <1>1, <1>2, <1>5, <1>6, <1>7, <1>8, <1>9, <1>10, <1>11, SwapChanged
<1> QED BY <1>5, <1>12 DEF IInv

LEMMA SetDeadStep ==
  ASSUME IInv, todo # <<>>, NEW fn \in {"Stop", "ClearStop"}, SetDead(todo[1], Tail(todo), fn), UNCHANGED made,
         todo[1].op # "Readd", Calm(todo, 2), on[todo[1].e], Exact(prio, on, {todo[1].e}),
         (fn = "Stop" /\ prio[todo[1].e] > 1)
           => \A y \in Range(list) : Pos(list, todo[1].e) < Pos(list, y) => ~(prio[y] > 0)
  PROVE  IInv'
<1> DEFINE e == todo[1].e
           x == Call(e, fn)
<1>1. /\ 1 \in 1 .. Len(todo) /\ e \in Range(list) /\ e \in Effect /\ Types(list, prio, on, todo, made)
      /\ prio \in [Effect -> Int] /\ on \in [Effect -> BOOLEAN] /\ Inv(list, prio, on, todo, made)
  BY HeadIs DEF IInv, Inv, Types
<1>2. /\ x \in Called /\ x.op = "Call" /\ x.fn = fn /\ x.e = e /\ x.made = made /\ x.was = on[e] /\ x.prio = prio[e]
      /\ x.over = {y \in Range(list) : Pos(list, e) < Pos(list, y) /\ on[y] /\ prio[y] # 1}
  <2>1. fn \in Calls
    BY DEF Calls
  <2> HIDE DEF e
  <2>2. /\ Call(e, fn) \in Called /\ Call(e, fn).op = "Call" /\ Call(e, fn).fn = fn /\ Call(e, fn).e = e
        /\ Call(e, fn).made = made /\ Call(e, fn).was = on[e] /\ Call(e, fn).prio = prio[e]
    BY <1>1, <2>1, CallIs
  <2>3. Call(e, fn).over = {y \in Range(list) : Pos(list, e) < Pos(list, y) /\ on[y] /\ prio[y] # 1}
    BY <1>1, <2>1, CallIs
  <2> QED BY <2>2, <2>3
<1>3. UNCHANGED list /\ prio' = [prio EXCEPT ![e] = 0] /\ todo' = <<x>> \o Tail(todo) /\ on' = [on EXCEPT ![e] = FALSE]
  <2>1. UNCHANGED list /\ prio' = [prio EXCEPT ![e] = 0] /\ todo' = <<x>> \o Tail(todo) /\ Tell(e, fn)
    BY DEF SetDead
  <2>2. fn \in Stops
    BY DEF Stops
  <2> QED BY <2>1, <2>2, TellIs
<1> HIDE DEF x
<1>4. ToldRight(x)
  <2>1. ASSUME fn = "Stop", prio[e] > 1 PROVE x.over = {}
    <3>1. \A y \in Range(list) : y \in Effect /\ Pos(list, y) \in Int
      BY <1>1, PlaceIs
    <3>2. ASSUME NEW y \in Range(list), Pos(list, e) < Pos(list, y), on[y] PROVE FALSE
      <4>1. y # e
        BY <1>1, <3>1, <3>2
      <4>2. prio[y] > 0
        BY <3>1, <3>2, <4>1 DEF Exact
      <4> QED BY <2>1, <3>2, <4>2
    <3> QED BY <1>2, <3>2
  <2> QED BY <1>2, <2>1 DEF ToldRight, Starts
<1>5. Tells(x, e, made)
  BY <1>2, <1>4 DEF Tells, Silent
<1>6. prio[e] \in Nat \ {0} => Weighs(prio, Range(todo), made, e, prio[e])
  BY DEF Weighs, Abs
<1>7. Exact(prio', on', {})
  <2>1. ASSUME NEW y \in Effect PROVE on'[y] <=> prio'[y] > 0
    BY <1>1, <1>3 DEF Exact
  <2> QED BY <2>1 DEF Exact
<1>8. FALSE \in BOOLEAN /\ 0 \in Int /\ 0 >= 0
  OBVIOUS
<1> HIDE DEF e
<1>9. Inv(list, prio', on', <<x>> \o Tail(todo), made)
  BY <1>1, <1>2, <1>3, <1>5, <1>6, <1>7, <1>8, SwapChanged
<1> QED BY <1>3, <1>9 DEF IInv

LEMMA DeadStep ==
  ASSUME IInv, todo # <<>>, todo[1].op = "SetDead", SetDead(todo[1], Tail(todo), "Stop"), UNCHANGED made
  PROVE  IInv'
<1>1. 1 \in 1 .. Len(todo) /\ Phase(list, prio, on, todo)
  BY HeadIs DEF IInv, Inv
<1>2. /\ Calm(todo, 2) /\ on[todo[1].e] /\ Exact(prio, on, {todo[1].e})
      /\ Heavy(prio, todo[1]) => \A y \in Range(list) : Pos(list, todo[1].e) < Pos(list, y) => ~(prio[y] > 0)
  BY <1>1, NowIs
<1>3. prio[todo[1].e] > 1 => Heavy(prio, todo[1])
  BY DEF Heavy
<1> QED BY <1>2, <1>3, SetDeadStep

\* What Clear kills is active: all others were started again before.
LEMMA ClearStep ==
  ASSUME IInv, todo # <<>>, todo[1].op = "Clear", Clear(todo[1], Tail(todo)), UNCHANGED made
  PROVE  IInv'
<1> DEFINE e == todo[1].e
<1>1. /\ 1 \in 1 .. Len(todo) /\ e \in Effect /\ todo \in Seq(Op) /\ Inv(list, prio, on, todo, made) /\ Bottom(todo)
      /\ Phase(list, prio, on, todo) /\ Covered(list, prio, Range(todo)) /\ prio \in [Effect -> Int]
      /\ Popped(Op, todo, Tail(todo))
  BY HeadIs DEF IInv, Inv, Types
<1>2. ~Urgent(todo[1])
  BY DEF Urgent, Hurry
<1>3. Resting(prio, on, todo)
  BY <1>1, <1>2, PhaseIs
<1>4. Calm(todo, 1 + 1) /\ Exact(prio, on, {})
  BY <1>3 DEF Resting, Calm
<1>5. CASE prio[e] = 0
  <2>1. todo' = Tail(todo) /\ UNCHANGED <<list, prio, on>>
    BY <1>5 DEF Clear
  <2>2. Resting(prio, on, Tail(todo))
    BY <1>1, <1>4, CalmPop DEF Resting
  <2>3. Inv(list, prio, on, Tail(todo), made)
    BY <1>1, <2>2, PopSame DEF Phase
  <2> QED BY <2>1, <2>3 DEF IInv
<1>6. CASE prio[e] # 0
  <2>1. SetDead(todo[1], Tail(todo), "ClearStop")
    BY <1>6 DEF Clear
  <2>2. ASSUME NEW r \in Range(todo) PROVE r.op = "Clear"
    <3>1. PICK i \in 1 .. Len(todo) : todo[i] = r
      BY <1>1 DEF Range
    <3> QED BY <1>1, <3>1 DEF Bottom
  <2>3. ~(prio[e] < 0)
    BY <1>1, <2>2 DEF Covered, IsCovered, Covers
  <2>4. on[e]
    BY <1>1, <1>4, <1>6, <2>3 DEF Exact
  <2>5. Exact(prio, on, {e}) /\ Calm(todo, 2)
    BY <1>4 DEF Exact
  <2> QED BY <2>1, <2>4, <2>5, SetDeadStep
<1> QED BY <1>5, <1>6

LEMMA ReactivateStep ==
  ASSUME IInv, todo # <<>>, todo[1].op = "Reactivate", Reactivate(todo[1], Tail(todo)), UNCHANGED made
  PROVE  IInv'
<1> DEFINE e == todo[1].e
           x == Call(e, "StartForRemoval")
<1>1. /\ 1 \in 1 .. Len(todo) /\ e \in Range(list) /\ e \in Effect /\ Types(list, prio, on, todo, made)
      /\ prio \in [Effect -> Int] /\ on \in [Effect -> BOOLEAN] /\ Inv(list, prio, on, todo, made)
      /\ todo \in Seq(Op) /\ list \in Seq(Effect) /\ \A y \in Effect \ Range(list) : prio[y] = 0
      /\ Phase(list, prio, on, todo) /\ Covered(list, prio, Range(todo)) /\ made \in Int
  BY HeadIs DEF IInv, Inv, Types
<1>2. /\ 2 \in 1 .. Len(todo) /\ todo[2].op = "SetDead" /\ todo[2].e = e
      /\ prio[e] <= 0 /\ Calm(todo, 3) /\ Exact(prio, on, {})
  BY <1>1, PhaseIs DEF Reviving
<1>3. /\ x \in Called /\ x.op = "Call" /\ x.fn = "StartForRemoval" /\ x.e = e /\ x.made = made /\ x.was = on[e]
  BY <1>1, CallIs DEF Calls
<1>4. UNCHANGED <<list, prio>> /\ todo' = <<x>> \o Tail(todo) /\ on' = [on EXCEPT ![e] = TRUE]
  <2>1. UNCHANGED <<list, prio>> /\ todo' = <<x>> \o Tail(todo) /\ Tell(e, "StartForRemoval")
    BY DEF Reactivate
  <2> QED BY <2>1, TellIs
<1> HIDE DEF x
<1>5. /\ x \in Op /\ x.op \notin {"Execute", "Next", "Clear"} /\ Weightless(x)
  BY <1>3 DEF Op, Weightless
<1>6. Good(list, made, x)
  <2>1. ~on[e]
    BY <1>1, <1>2 DEF Exact
  <2>2. ToldRight(x)
    BY <1>3, <2>1 DEF ToldRight, Stops
  <2> QED BY <1>1, <1>3, <2>2 DEF Good, Refers
<1>7. PICK u : u = <<x>> \o Tail(todo)
  OBVIOUS
<1>8. Swapped(Op, todo, x, u) /\ Range(u) = {x} \cup Range(Tail(todo)) /\ Range(todo) = {todo[1]} \cup Range(Tail(todo))
  BY <1>1, <1>5, <1>7, PopIs, SwapIs
<1>9. u[2] = todo[2] /\ u[1] = x /\ 1 \in 1 .. Len(u) /\ 2 \in 2 .. Len(u)
  BY <1>2, <1>8 DEF Swapped
<1>10. Calm(u, 2 + 1)
  BY <1>1, <1>2, <1>8, CalmSwap
<1>11. on' \in [Effect -> BOOLEAN] /\ on'[e] /\ \A y \in Effect : y # e => on'[y] = on[y]
  BY <1>1, <1>4
<1>12. Exact(prio, on', {e})
  BY <1>2, <1>11 DEF Exact
<1>13. Stopping(list, prio, on', u, 2, 2)
  <2>1. ~Heavy(prio, u[2])
    BY <1>1, <1>2, <1>9 DEF Heavy
  <2>2. 2 .. 2 - 1 = {}
    OBVIOUS
  <2> HIDE DEF e
  <2> QED BY <1>2, <1>9, <1>10, <1>11, <1>12, <2>1, <2>2 DEF Stopping
<1>14. Phase(list, prio, on', u)
  BY <1>3, <1>9, <1>13 DEF Phase, CallOf
<1>15. Covered(list, prio, Range(u))
  BY <1>1, <1>8, CoveredIs
<1>16. Lighter(list, prio, Range(todo), made, prio, {x} \cup Range(todo), made)
  <2>1. \A y \in Range(list) : Weighs(prio, Range(todo), made, y, Abs(prio[y]))
    BY DEF Weighs
  <2> QED BY <1>1, <1>5, <2>1, LighterIs
<1>17. Fits(list, prio, todo, made, prio, on', {x} \cup Range(todo), u)
  BY <1>1, <1>11, <1>14, <1>15, <1>16 DEF Fits
<1>18. Inv(list, prio, on', u, made)
  BY <1>1, <1>5, <1>6, <1>7, <1>17, InvSwap
<1> QED BY <1>4, <1>7, <1>18 DEF IInv

LEMMA TempRemoveStep ==
  ASSUME IInv, todo # <<>>, todo[1].op = "TempRemove", TempRemove(todo[1], Tail(todo)), UNCHANGED made
  PROVE  IInv'
<1> DEFINE e == todo[1].e
           x == Call(e, "TempStop")
<1>1. /\ 1 \in 1 .. Len(todo) /\ e \in Range(list) /\ e \in Effect /\ Types(list, prio, on, todo, made)
      /\ prio \in [Effect -> Int] /\ on \in [Effect -> BOOLEAN] /\ Inv(list, prio, on, todo, made)
      /\ todo \in Seq(Op) /\ list \in Seq(Effect) /\ \A y \in Effect \ Range(list) : prio[y] = 0
      /\ Phase(list, prio, on, todo) /\ Covered(list, prio, Range(todo)) /\ made \in Int
  BY HeadIs DEF IInv, Inv, Types
<1>2. PICK k \in 1 .. Len(todo) : Stopping(list, prio, on, todo, 1, k)
  BY <1>1, PhaseIs
<1>3. k \in 2 .. Len(todo) /\ todo[k].op \in {"Start", "Add", "SetDead"}
  <2>1. todo[k].op \in {"Start", "Add", "SetDead"}
    BY <1>2 DEF Stopping
  <2> QED BY <2>1
<1>4. prio[e] > 0 /\ e # todo[k].e /\ IsCovered(list, Range(todo), e)
  <2>1. 1 \in 1 .. k - 1
    BY <1>3
  <2> QED BY <1>2, <2>1 DEF Stopping
<1>5. on[e]
  BY <1>1, <1>2, <1>4 DEF Stopping, Exact
<1>6. /\ x \in Called /\ x.op = "Call" /\ x.fn = "TempStop" /\ x.e = e /\ x.made = made /\ x.was = on[e]
  BY <1>1, CallIs DEF Calls
<1>7. UNCHANGED list /\ prio' = [prio EXCEPT ![e] = -prio[e]] /\ todo' = <<x>> \o Tail(todo) /\ on' = [on EXCEPT ![e] = FALSE]
  <2>1. UNCHANGED list /\ prio' = [prio EXCEPT ![e] = -prio[e]] /\ todo' = <<x>> \o Tail(todo) /\ Tell(e, "TempStop")
    BY DEF TempRemove
  <2> QED BY <2>1, TellIs
<1> HIDE DEF x
<1>8. /\ x \in Op /\ x.op \notin {"Execute", "Next", "Clear"} /\ Weightless(x)
  BY <1>6 DEF Op, Weightless
<1>9. Good(list, made, x)
  <2>1. ToldRight(x)
    BY <1>5, <1>6 DEF ToldRight, Starts
  <2> QED BY <1>1, <1>6, <2>1 DEF Good, Refers
<1>10. PICK u : u = <<x>> \o Tail(todo)
  OBVIOUS
<1>11. Swapped(Op, todo, x, u) /\ Range(u) = {x} \cup Range(Tail(todo)) /\ Range(todo) = {todo[1]} \cup Range(Tail(todo))
  BY <1>1, <1>8, <1>10, PopIs, SwapIs
<1>12. Len(u) = Len(todo) /\ u[1] = x /\ 1 \in 1 .. Len(u) /\ \A i \in 2 .. Len(todo) : u[i] = todo[i]
  BY <1>1, <1>11 DEF Swapped
<1>13. /\ prio' \in [Effect -> Int] /\ on' \in [Effect -> BOOLEAN]
       /\ prio'[e] = -prio[e] /\ prio'[e] < 0 /\ ~on'[e]
       /\ \A y \in Effect : y # e => prio'[y] = prio[y] /\ on'[y] = on[y]
  BY <1>1, <1>4, <1>7
<1>14. ASSUME NEW y, IsCovered(list, Range(todo), y) PROVE IsCovered(list, Range(u), y)
  BY <1>11, <1>14 DEF IsCovered, Covers
<1>15. ASSUME NEW i \in 2 .. Len(todo) PROVE u[i] = todo[i] /\ todo[i].e \in Effect
  <2>1. todo[i] \in Range(todo)
    BY <1>1 DEF Range
  <2>2. todo[i].e \in Range(list)
    BY <1>1, <2>1 DEF Inv, Good, Refers
  <2> QED BY <1>1, <1>12, <2>2, PlaceIs
<1>16. u[k] = todo[k] /\ todo[k].e \in Effect /\ prio'[todo[k].e] = prio[todo[k].e] /\ on'[todo[k].e] = on[todo[k].e]
  BY <1>3, <1>4, <1>13, <1>15
<1> HIDE DEF e
<1>17. Stopping(list, prio', on', u, 2, k)
  <2>1. ASSUME NEW i \in 2 .. k - 1
        PROVE  /\ u[i] = todo[i] /\ i \in 1 .. k - 1 /\ todo[i].e # e /\ u[i].op = "TempRemove"
               /\ prio'[u[i].e] > 0 /\ u[i].e # u[k].e /\ IsCovered(list, Range(u), u[i].e)
    <3>1. i \in 2 .. Len(todo) /\ i \in 1 .. k - 1 /\ 1 \in 1 .. k - 1 /\ i # 1
      BY <1>3
    <3>2. /\ todo[i].op = "TempRemove" /\ prio[todo[i].e] > 0 /\ todo[i].e # todo[k].e /\ IsCovered(list, Range(todo), todo[i].e)
      BY <1>2, <3>1 DEF Stopping
    <3>3. todo[i].e # e
      BY <1>2, <3>1 DEF Stopping, e
    <3> QED BY <1>13, <1>14, <1>15, <1>16, <3>1, <3>2, <3>3
  <2>2. ASSUME NEW i \in 2 .. k - 1, NEW j \in 2 .. k - 1, u[i].e = u[j].e PROVE i = j
    BY <1>2, <2>1, <2>2 DEF Stopping
  <2>3. ASSUME Heavy(prio', u[k]) PROVE AllUp(list, prio', u[k].e, u, 2, k)
    <3> SUFFICES ASSUME NEW y \in Range(list), Pos(list, u[k].e) < Pos(list, y), prio'[y] > 0
                 PROVE  \E i \in 2 .. k - 1 : u[i].e = y
      BY DEF AllUp
    <3>1. Heavy(prio, todo[k])
      BY <1>16, <2>3 DEF Heavy
    <3>2. y \in Effect /\ y # e
      <4>1. y \in Effect
        BY <1>1, PlaceIs
      <4>2. prio'[e] \in Int /\ ~(prio'[e] > 0)
        BY <1>1, <1>13 DEF e
      <4> QED BY <4>1, <4>2
    <3>3. prio[y] > 0
      BY <1>13, <3>2
    <3>4. PICK i \in 1 .. k - 1 : todo[i].e = y
      BY <1>2, <1>16, <3>1, <3>3 DEF Stopping, AllUp
    <3>5. i # 1
      BY <3>2, <3>4 DEF e
    <3>6. i \in 2 .. k - 1
      BY <3>5
    <3> QED BY <2>1, <3>4, <3>6
  <2>4. Calm(u, k + 1)
    <3>1. k + 1 \in Nat \ {0, 1}
      BY <1>3
    <3>2. Calm(todo, k + 1)
      BY <1>2 DEF Stopping
    <3> QED BY <1>1, <1>11, <3>1, <3>2, CalmSwap
  <2>5. u[k].op = "Start" => prio'[u[k].e] = 0
    BY <1>2, <1>16 DEF Stopping
  <2>6. ASSUME NEW S, Exact(prio, on, S) PROVE Exact(prio', on', S)
    <3> SUFFICES ASSUME NEW y \in Effect \ S PROVE on'[y] <=> prio'[y] > 0
      BY DEF Exact
    <3>1. CASE y = e
      <4>1. prio'[e] \in Int /\ ~(prio'[e] > 0)
        BY <1>1, <1>13 DEF e
      <4> QED BY <1>13, <3>1, <4>1
    <3>2. CASE y # e
      <4>1. on[y] <=> prio[y] > 0
        BY <2>6 DEF Exact
      <4> QED BY <1>13, <3>2, <4>1
    <3> QED BY <3>1, <3>2
  <2>7. u[k].op = "SetDead" => on'[u[k].e] /\ Exact(prio', on', {u[k].e})
    BY <1>2, <1>16, <2>6 DEF Stopping
  <2>8. u[k].op # "SetDead" => Exact(prio', on', {})
    BY <1>2, <1>16, <2>6 DEF Stopping
  <2>9. k \in 2 .. Len(u) /\ u[k].op \in {"Start", "Add", "SetDead"}
    BY <1>3, <1>12, <1>16
  <2> QED BY <2>1, <2>2, <2>3, <2>4, <2>5, <2>7, <2>8, <2>9 DEF Stopping
<1>18. Phase(list, prio', on', u)
  <2>1. CallOf(u, {"TempStop", "StartForRemoval"})
    BY <1>6, <1>12 DEF CallOf
  <2>2. k \in 2 .. Len(u)
    BY <1>3, <1>12
  <2> QED BY <1>17, <2>1, <2>2 DEF Phase
<1>19. Covered(list, prio', Range(u))
  <2> SUFFICES ASSUME NEW y \in Effect, prio'[y] < 0 PROVE IsCovered(list, Range(u), y)
    BY DEF Covered
  <2>1. IsCovered(list, Range(todo), y)
    <3>1. CASE y = e
      BY <1>4, <3>1
    <3>2. CASE y # e
      <4>1. prio[y] < 0
        BY <1>13, <3>2
      <4> QED BY <1>1, <4>1 DEF Covered
    <3> QED BY <3>1, <3>2
  <2> QED BY <1>14, <2>1
<1>20. Lighter(list, prio, Range(todo), made, prio', {x} \cup Range(todo), made)
  <2>1. ASSUME NEW y \in Range(list) PROVE Weighs(prio, Range(todo), made, y, Abs(prio'[y]))
    <3>1. y \in Effect
      BY <1>1, PlaceIs
    <3>2. Abs(prio'[y]) = Abs(prio[y])
      <4>1. CASE y = e
        <5>1. prio[e] \in Int /\ prio[e] > 0 /\ prio'[e] = -prio[e]
          BY <1>1, <1>4, <1>13 DEF e
        <5> QED BY <4>1, <5>1 DEF Abs
      <4>2. CASE y # e
        BY <1>13, <3>1, <4>2
      <4> QED BY <4>1, <4>2
    <3> QED BY <3>2 DEF Weighs
  <2> QED BY <1>1, <1>8, <1>13, <2>1, LighterIs
<1>21. Fits(list, prio, todo, made, prio', on', {x} \cup Range(todo), u)
  <2>1. \A y \in Effect \ Range(list) : prio'[y] = 0
    BY <1>1, <1>13 DEF e
  <2> QED BY <1>13, <1>18, <1>19, <1>20, <2>1 DEF Fits
<1>22. Inv(list, prio', on', u, made)
  BY <1>1, <1>8, <1>9, <1>10, <1>21, InvSwap
<1> QED BY <1>7, <1>10, <1>22 DEF IInv

\* Something changes while the steps remain.
LEMMA InvChange ==
  ASSUME NEW l, NEW P, NEW o, NEW t, NEW m, Inv(l, P, o, t, m),
         NEW Q, NEW q, Fits(l, P, t, m, Q, q, Range(t), t)
  PROVE  Inv(l, Q, q, t, m)
<1>1. Sorted(l, Q, Range(t), m)
  BY SortedStep DEF Inv, Types, Fits
<1> QED BY <1>1 DEF Inv, Types, Fits

LEMMA NoExecute ==
  ASSUME NEW t \in Seq(Op), Bottom(t), t # <<>> => t[1].op # "Execute"
  PROVE  \A i \in 1 .. Len(t) : t[i].op # "Execute"
<1> SUFFICES ASSUME NEW i \in 1 .. Len(t), t[i].op = "Execute" PROVE FALSE
  OBVIOUS
<1> DEFINE n == Len(t)
<1>1. n = 1
  BY DEF Bottom
<1>2. t # <<>>
  <2>1. Len(<<>>) = 0
    OBVIOUS
  <2>2. t = <<>> => Len(t) = Len(<<>>)
    OBVIOUS
  <2> QED BY <1>1, <2>1, <2>2
<1>3. i = 1
  <2> HIDE DEF n
  <2> QED BY <1>1 DEF n
<1> QED BY <1>2, <1>3

\* One more step comes first.
LEMMA PushOne ==
  ASSUME NEW l, NEW P, NEW o, NEW t, NEW m, Inv(l, P, o, t, m), Resting(P, o, t), t # <<>> => t[1].op # "Execute",
         NEW x \in Op, x.op \notin {"Execute", "Next", "Clear"}, ~Urgent(x), Good(l, m, x), Weightless(x)
  PROVE  Inv(l, P, o, <<x>> \o t, m) /\ Resting(P, o, <<x>> \o t)
<1> DEFINE a == <<x>>
<1>1. a \in Seq(Op) /\ Len(a) = 1 /\ a[1] = x /\ Range(a) = {x} /\ \A i \in 1 .. Len(a) : a[i] = x
  BY DEF Range
<1> HIDE DEF a
<1>2. /\ P \in [Effect -> Int] /\ t \in Seq(Op) /\ l \in Seq(Effect) /\ Bottom(t) /\ Covered(l, P, Range(t))
  BY DEF Inv, Types
<1>3. PICK u : u = a \o t
  OBVIOUS
<1>4. Pushed(Op, a, t, u) /\ Range(u) = {x} \cup Range(t)
  <2>1. Pushed(Op, a, t, u)
    BY <1>1, <1>2, <1>3, PushIs
  <2>2. Range(u) = Range(a) \cup Range(t)
    BY <2>1 DEF Pushed
  <2> QED BY <1>1, <2>1, <2>2
<1>5. Resting(P, o, u)
  <2>1. Calm(a, 1)
    BY <1>1 DEF Calm
  <2>2. Calm(u, 1)
    BY <1>1, <1>2, <1>4, <2>1, CalmPush DEF Resting
  <2> QED BY <2>2 DEF Resting
<1>6. Covered(l, P, Range(u))
  BY <1>2, <1>4, CoveredIs
<1>7. Lighter(l, P, Range(t), m, P, Range(u), m)
  <2>1. \A y \in Range(l) : Weighs(P, Range(t), m, y, Abs(P[y]))
    BY DEF Weighs
  <2> QED BY <1>2, <1>4, <2>1, LighterIs
<1>8. \A i \in 1 .. Len(t) : t[i].op # "Execute"
  BY <1>2, NoExecute
<1>9. \A i \in 1 .. Len(a) : a[i].op \notin {"Execute", "Next", "Clear"} /\ Good(l, m, a[i])
  BY <1>1
<1>10. Phase(l, P, o, u)
  BY <1>5 DEF Phase
<1>11. Inv(l, P, o, u, m)
  BY <1>1, <1>2, <1>3, <1>6, <1>7, <1>8, <1>9, <1>10, InvPush
<1> QED BY <1>3, <1>5, <1>11 DEF a

\* TempReaddUpperEffects goes on to the next effect, which is not inactive any more.
LEMMA CursorStep ==
  ASSUME IInv, todo # <<>>, todo[1].op = "Readd",
         NEW P, NEW o, Inv(list, P, o, todo, made), P[pNext(todo[1].e)] >= 0
  PROVE  LET more == IF pNext(todo[1].e) = todo[1].last THEN Tail(todo)
                     ELSE <<[todo[1] EXCEPT !.e = pNext(todo[1].e)]>> \o Tail(todo)
         IN  Inv(list, P, o, more, made) /\ Resting(P, o, more) /\ (more # <<>> => more[1].op # "Execute")
<1> DEFINE s == todo[1]
           x == pNext(s.e)
           n == [s EXCEPT !.e = x]
           rest == Tail(todo)
<1>1. /\ 1 \in 1 .. Len(todo) /\ s.e \in Range(list) /\ s.e \in Effect /\ Types(list, prio, on, todo, made)
      /\ todo \in Seq(Op) /\ list \in Seq(Effect) /\ s \in Op /\ Good(list, made, s)
      /\ Popped(Op, todo, rest) /\ Range(todo) = {s} \cup Range(rest) /\ Bottom(todo)
  BY HeadIs DEF IInv, Inv, Types
<1>2. /\ P \in [Effect -> Int] /\ o \in [Effect -> BOOLEAN] /\ \A y \in Effect \ Range(list) : P[y] = 0
      /\ Phase(list, P, o, todo) /\ Covered(list, P, Range(todo))
  BY DEF Inv, Types
<1>3. s \in Readds
  BY <1>1 DEF Op, Plain, Checks, News, Called
<1>4. s.last \in Range(list) /\ Pos(list, s.e) < Pos(list, s.last)
  BY <1>1 DEF Good, Refers
<1>5. /\ \A y \in Range(list) : y \in Effect /\ Pos(list, y) \in 1 .. Len(list) /\ list[Pos(list, y)] = y
      /\ Len(list) \in Nat
  BY <1>1, PlaceIs
<1>6. x \in Range(list) /\ x \in Effect /\ Pos(list, x) = Pos(list, s.e) + 1
  <2>1. Pos(list, s.e) < Len(list)
    BY <1>1, <1>4, <1>5
  <2> QED BY <1>1, <2>1, pNextIs
<1> HIDE DEF x
<1>7. n \in Readds /\ n.op = "Readd" /\ n.e = x /\ n.last = s.last
  BY <1>3, <1>6 DEF Readds
<1>8. Resting(P, o, todo)
  <2>1. ~Urgent(s)
    BY DEF Urgent, Hurry
  <2> QED BY <1>1, <1>2, <2>1, PhaseIs
<1>9. Calm(todo, 1 + 1)
  BY <1>8 DEF Resting, Calm
<1> HIDE DEF n, s
<1>10. ASSUME NEW y \in Effect, P[y] < 0, NEW T, Range(rest) \subseteq T, x # s.last => n \in T
       PROVE  IsCovered(list, T, y)
  <2>1. PICK r \in Range(todo) : Covers(list, r, y)
    BY <1>2, <1>10 DEF Covered, IsCovered
  <2>2. CASE r \in Range(rest)
    BY <1>10, <2>1, <2>2 DEF IsCovered
  <2>3. CASE r = s
    <3>1. Pos(list, s.e) < Pos(list, y) /\ Pos(list, y) <= Pos(list, s.last)
      BY <2>1, <2>3 DEF Covers
    <3>2. y \in Range(list) /\ y # x
      <4>1. P[y] # 0 /\ ~(P[y] >= 0)
        BY <1>2, <1>10
      <4> QED BY <1>2, <4>1 DEF x, s
    <3>3. Pos(list, y) # Pos(list, x)
      BY <1>5, <1>6, <3>2
    <3>4. Pos(list, x) < Pos(list, y)
      BY <1>1, <1>5, <1>6, <3>1, <3>2, <3>3
    <3>5. x # s.last
      BY <1>5, <1>6, <3>1, <3>2, <3>4
    <3>6. Covers(list, n, y)
      BY <1>7, <3>1, <3>4 DEF Covers
    <3> QED BY <1>10, <3>5, <3>6 DEF IsCovered
  <2> QED BY <1>1, <2>1, <2>2, <2>3
<1>11. CASE x = s.last
  <2>1. Covered(list, P, Range(rest))
    BY <1>10, <1>11 DEF Covered
  <2>2. Calm(rest, 1)
    BY <1>1, <1>9, CalmPop
  <2>3. Resting(P, o, rest)
    BY <1>8, <2>2 DEF Resting
  <2>4. Lighter(list, P, Range(todo), made, P, Range(todo), made)
    BY DEF Lighter
  <2>5. Fits(list, P, todo, made, P, o, Range(todo), rest)
    BY <1>2, <2>1, <2>3, <2>4 DEF Fits, Phase
  <2>6. Inv(list, P, o, rest, made)
    BY <2>5, InvPop
  <2>7. rest # <<>> => rest[1].op # "Execute"
    <3>1. \A i \in 1 .. Len(rest) : rest[i].op # "Execute"
      BY <1>1, BottomPop
    <3>2. rest \in Seq(Op)
      BY <1>1 DEF Popped
    <3> HIDE DEF rest
    <3>3. rest # <<>> => 1 \in 1 .. Len(rest)
      BY <3>2
    <3> QED BY <3>1, <3>3
  <2> QED BY <1>11, <2>3, <2>6, <2>7 DEF x, s
<1>12. CASE x # s.last
  <2>1. PICK u : u = <<n>> \o rest
    OBVIOUS
  <2>2. n \in Op /\ n.op \notin {"Execute", "Next", "Clear"} /\ Weightless(n) /\ ~Urgent(n)
    BY <1>7 DEF Op, Weightless, Urgent, Hurry
  <2>3. Good(list, made, n)
    <3>1. Pos(list, x) < Pos(list, s.last)
      <4>1. Pos(list, x) # Pos(list, s.last)
        BY <1>4, <1>5, <1>6, <1>12
      <4> QED BY <1>1, <1>4, <1>5, <1>6, <4>1
    <3> QED BY <1>4, <1>6, <1>7, <3>1 DEF Good, Refers, ToldRight
  <2>4. Swapped(Op, todo, n, u) /\ Range(u) = {n} \cup Range(rest)
    BY <1>1, <2>1, <2>2, SwapIs
  <2>5. Covered(list, P, Range(u))
    BY <1>10, <2>4 DEF Covered
  <2>6. Resting(P, o, u)
    BY <1>1, <1>8, <1>9, <2>2, <2>4, CalmSwap DEF Resting
  <2>7. Lighter(list, P, Range(todo), made, P, {n} \cup Range(todo), made)
    <3>1. \A y \in Range(list) : Weighs(P, Range(todo), made, y, Abs(P[y]))
      BY DEF Weighs
    <3> QED BY <1>1, <1>2, <2>2, <3>1, LighterIs
  <2>8. Fits(list, P, todo, made, P, o, {n} \cup Range(todo), u)
    BY <1>2, <2>5, <2>6, <2>7 DEF Fits, Phase
  <2>9. Inv(list, P, o, u, made)
    BY <2>1, <2>2, <2>3, <2>8, InvSwap
  <2>10. u[1] = n
    BY <2>4 DEF Swapped
  <2> QED BY <1>12, <2>1, <2>2, <2>6, <2>9, <2>10 DEF x, s, n
<1> QED BY <1>11, <1>12

LEMMA ReaddStep ==
  ASSUME IInv, todo # <<>>, todo[1].op = "Readd", Readd(todo[1], Tail(todo)), UNCHANGED made
  PROVE  IInv'
<1> DEFINE s == todo[1]
           x == pNext(s.e)
           more == IF x = s.last THEN Tail(todo) ELSE <<[s EXCEPT !.e = x]>> \o Tail(todo)
           c == Call(x, "TempStart")
<1>1. /\ 1 \in 1 .. Len(todo) /\ s.e \in Range(list) /\ s.e \in Effect /\ Types(list, prio, on, todo, made)
      /\ todo \in Seq(Op) /\ list \in Seq(Effect) /\ s \in Op /\ Good(list, made, s) /\ made \in Int
      /\ Inv(list, prio, on, todo, made) /\ prio \in [Effect -> Int] /\ on \in [Effect -> BOOLEAN]
      /\ \A y \in Effect \ Range(list) : prio[y] = 0
      /\ Phase(list, prio, on, todo) /\ Covered(list, prio, Range(todo))
  BY HeadIs DEF IInv, Inv, Types
<1>2. x \in Range(list) /\ x \in Effect
  <2>1. s.last \in Range(list) /\ Pos(list, s.e) < Pos(list, s.last)
    BY <1>1 DEF Good, Refers
  <2>2. Pos(list, s.e) \in 1 .. Len(list) /\ Pos(list, s.last) \in 1 .. Len(list) /\ Len(list) \in Nat
    BY <1>1, <2>1, PlaceIs
  <2>3. Pos(list, s.e) < Len(list)
    BY <2>1, <2>2
  <2> QED BY <1>1, <2>3, pNextIs
<1>3. CASE prio[x] >= 0 /\ todo' = more /\ UNCHANGED <<list, prio, on>>
  <2>1. Inv(list, prio, on, more, made)
    BY <1>1, <1>3, CursorStep
  <2> QED BY <1>3, <2>1 DEF IInv
<1>4. CASE /\ prio[x] < 0 /\ UNCHANGED list
           /\ prio' = [prio EXCEPT ![x] = -prio[x]] /\ todo' = <<c>> \o more /\ Tell(x, "TempStart")
  <2>1. on' = [on EXCEPT ![x] = TRUE]
    BY <1>4, TellIs
  <2>2. /\ c \in Called /\ c.op = "Call" /\ c.fn = "TempStart" /\ c.e = x /\ c.made = made /\ c.was = on[x]
    BY <1>1, <1>2, CallIs DEF Calls
  <2> HIDE DEF c, x
  <2>3. Resting(prio, on, todo)
    <3>1. ~Urgent(s)
      BY DEF Urgent, Hurry
    <3> QED BY <1>1, <3>1, PhaseIs
  <2> HIDE DEF s
  <2>4. ~on[x]
    BY <1>1, <1>2, <1>4, <2>3 DEF Resting, Exact
  <2>5. /\ prio' \in [Effect -> Int] /\ on' \in [Effect -> BOOLEAN]
        /\ prio'[x] = -prio[x] /\ prio'[x] > 0 /\ on'[x]
        /\ \A y \in Effect : y # x => prio'[y] = prio[y] /\ on'[y] = on[y]
    BY <1>1, <1>2, <1>4, <2>1
  <2>6. Resting(prio', on', todo)
    <3>1. ASSUME NEW y \in Effect PROVE on'[y] <=> prio'[y] > 0
      <4>1. CASE y = x
        BY <2>5, <4>1
      <4>2. CASE y # x
        BY <2>3, <2>5, <4>2 DEF Resting, Exact
      <4> QED BY <4>1, <4>2
    <3> QED BY <2>3, <3>1 DEF Resting, Exact
  <2>7. Covered(list, prio', Range(todo))
    <3>1. ASSUME NEW y \in Effect, prio'[y] < 0 PROVE prio[y] < 0
      <4>1. y # x
        BY <1>1, <1>2, <2>5, <3>1
      <4> QED BY <2>5, <3>1, <4>1
    <3> QED BY <1>1, <3>1, CoveredIs
  <2>8. Lighter(list, prio, Range(todo), made, prio', Range(todo), made)
    <3>1. ASSUME NEW y \in Range(list) PROVE Weighs(prio, Range(todo), made, y, Abs(prio'[y]))
      <4>1. y \in Effect
        BY <1>1, PlaceIs
      <4>2. Abs(prio'[y]) = Abs(prio[y])
        <5>1. CASE y = x
          <6>1. prio[x] \in Int /\ prio[x] < 0 /\ prio'[x] = -prio[x]
            BY <1>1, <1>2, <1>4, <2>5
          <6> QED BY <5>1, <6>1 DEF Abs
        <5>2. CASE y # x
          BY <2>5, <4>1, <5>2
        <5> QED BY <5>1, <5>2
      <4> QED BY <4>2 DEF Weighs
    <3> QED BY <1>1, <2>5, <3>1, LighterIs
  <2>9. \A y \in Effect \ Range(list) : prio'[y] = 0
    BY <1>1, <1>2, <2>5
  <2>10. Fits(list, prio, todo, made, prio', on', Range(todo), todo)
    BY <2>5, <2>6, <2>7, <2>8, <2>9 DEF Fits, Phase
  <2>11. Inv(list, prio', on', todo, made)
    BY <1>1, <2>10, InvChange
  <2>12. /\ Inv(list, prio', on', more, made) /\ Resting(prio', on', more)
         /\ more # <<>> => more[1].op # "Execute"
    <3>1. prio'[x] >= 0
      BY <1>1, <1>2, <2>5
    <3> QED BY <2>11, <3>1, CursorStep DEF x, s
  <2>13. Good(list, made, c) /\ c \in Op /\ Weightless(c) /\ ~Urgent(c)
    <3>1. ToldRight(c)
      BY <2>2, <2>4 DEF ToldRight, Stops
    <3> QED BY <1>1, <1>2, <2>2, <3>1 DEF Good, Refers, Op, Weightless, Urgent, Hurry, Silent
  <2> HIDE DEF more
  <2>14. Inv(list, prio', on', <<c>> \o more, made)
    BY <2>2, <2>12, <2>13, PushOne
  <2> QED BY <1>4, <2>14 DEF IInv
<1> QED BY <1>3, <1>4 DEF Readd

-----------------------------------------------------------------------------
(* Steps that come before those that are left.                             *)

LEMMA StoppingIs ==
  ASSUME NEW l, NEW P, NEW o, Exact(P, o, {}), NEW e \in Range(l), Pos(l, e) \in Int, NEW b, NEW k,
         NEW x, x.op \in {"Start", "Add", "SetDead"}, x.e = e,
         x.op = "Start" => P[e] = 0, x.op = "SetDead" => o[e],
         BracketAt(l, P, e, x, b, k), Heavy(P, x) => AllUp(l, P, e, b, 1, k),
         NEW t \in Seq(Op), Calm(t, 1), NEW u, Pushed(Op, b, t, u)
  PROVE  Stopping(l, P, o, u, 1, k) /\ k \in 1 .. Len(u)
<1> DEFINE n == Len(b)
           h == Len(t)
<1>1. /\ u \in Seq(Op) /\ Len(u) = n + h /\ Range(u) = Range(b) \cup Range(t)
      /\ \A i \in 1 .. n : u[i] = b[i]
      /\ \A i \in n + 1 .. n + h : u[i] = t[i - n]
  BY DEF Pushed
<1>2. b \in Seq(Op) /\ k \in 1 .. n /\ b[k] = x
  BY DEF BracketAt
<1>3. n \in Nat /\ h \in Nat
  BY <1>2
<1>4. \A i \in 1 .. k - 1 : /\ b[i].op = "TempRemove" /\ P[b[i].e] > 0 /\ Pos(l, e) < Pos(l, b[i].e)
                            /\ IsCovered(l, Range(b), b[i].e)
  BY DEF BracketAt
<1>5. \A i, j \in 1 .. k - 1 : b[i].e = b[j].e => i = j
  BY DEF BracketAt
<1>6. \A i \in k + 1 .. n : b[i].op = "Readd"
  BY DEF BracketAt
<1>7. \A i \in 1 .. h : ~Urgent(t[i])
  BY DEF Calm
<1> HIDE DEF n, h
<1>8. k \in 1 .. n + h /\ u[k] = x /\ \A i \in 1 .. k - 1 : i \in 1 .. n /\ u[i] = b[i]
  BY <1>1, <1>2, <1>3
<1>9. ASSUME NEW i \in 1 .. k - 1
      PROVE  u[i].op = "TempRemove" /\ P[u[i].e] > 0 /\ u[i].e # e /\ IsCovered(l, Range(u), u[i].e)
  <2>1. IsCovered(l, Range(u), b[i].e)
    <3>1. IsCovered(l, Range(b), b[i].e)
      BY <1>4
    <3> QED BY <1>1, <3>1 DEF IsCovered
  <2>2. b[i].e # e
    BY <1>4
  <2> QED BY <1>4, <1>8, <2>1, <2>2
<1>10. ASSUME NEW i \in k + 1 .. n + h PROVE ~Urgent(u[i])
  <2>1. CASE i <= n
    <3>1. i \in k + 1 .. n /\ u[i] = b[i]
      BY <1>1, <1>2, <1>3, <2>1
    <3> QED BY <1>6, <3>1 DEF Urgent, Hurry
  <2>2. CASE ~(i <= n)
    <3> DEFINE j == i - n
    <3>1. i \in n + 1 .. n + h /\ j \in 1 .. h /\ u[i] = t[j]
      BY <1>1, <1>2, <1>3, <2>2
    <3> HIDE DEF j
    <3> QED BY <1>7, <3>1
  <2> QED BY <2>1, <2>2
<1>11. Calm(u, k + 1)
  BY <1>1, <1>10 DEF Calm
<1>12. Heavy(P, x) => AllUp(l, P, e, u, 1, k)
  BY <1>8 DEF AllUp
<1>13. Exact(P, o, {e})
  BY DEF Exact
<1>14. \A i, j \in 1 .. k - 1 : u[i].e = u[j].e => i = j
  BY <1>5, <1>8
<1>15. u[k].e = e /\ k \in 1 .. Len(u)
  BY <1>1, <1>8
<1> QED BY <1>8, <1>9, <1>11, <1>12, <1>13, <1>14, <1>15 DEF Stopping

\* Steps that set no priority, or the one of a new effect.
LEMMA LighterSame ==
  ASSUME NEW l \in Seq(Effect), NEW P, NEW R, NEW m, NEW T,
         \A r \in T : \/ r \in R \/ Weightless(r)
                      \/ r.op = "Start" /\ \E c \in R : c.op = "New" /\ c.e = r.e /\ c.p = r.p
  PROVE  Lighter(l, P, R, m, P, T, m)
<1> SUFFICES ASSUME NEW y \in Range(l), NEW w \in Nat \ {0}, NEW r \in T, Carries(m, r, y, w)
             PROVE  \E c \in R : Carries(m, c, y, w)
  BY DEF Lighter, Weighs
<1>1. ~Weightless(r)
  BY DEF Carries, Weightless
<1>2. CASE r \in R
  BY <1>2
<1>3. CASE r.op = "Start" /\ \E c \in R : c.op = "New" /\ c.e = r.e /\ c.p = r.p
  <2>1. PICK c \in R : c.op = "New" /\ c.e = r.e /\ c.p = r.p
    BY <1>3
  <2>2. Carries(m, c, y, w)
    BY <1>3, <2>1 DEF Carries
  <2> QED BY <2>2
<1> QED BY <1>1, <1>2, <1>3

\* The bracket a around the step x, one of the three that come in brackets.
Frames(l, P, o, R, e, x, a, k) ==
    /\ x.op \in {"Start", "Add", "SetDead"} /\ x.e = e
    /\ x.op = "Start" => P[e] = 0 /\ \E c \in R : c.op = "New" /\ c.e = x.e /\ c.p = x.p
    /\ x.op = "SetDead" => o[e]
    /\ BracketAt(l, P, e, x, a, k) /\ (Heavy(P, x) => AllUp(l, P, e, a, 1, k))

\* A bracket comes before t.
LEMMA PushStops ==
  ASSUME NEW l, NEW P, NEW o, NEW b, NEW m, Inv(l, P, o, b, m), Exact(P, o, {}),
         NEW t \in Seq(Op), Range(t) \subseteq Range(b), Bottom(t), \A i \in 1 .. Len(t) : t[i].op # "Execute",
         Calm(t, 1), Covered(l, P, Range(t)),
         NEW e \in Range(l), NEW x, NEW a, NEW k, Frames(l, P, o, Range(b), e, x, a, k),
         NEW u, u = a \o t
  PROVE  Inv(l, P, o, u, m)
<1>1. l \in Seq(Effect) /\ Distinct(l) /\ b \in Seq(Op)
  BY DEF Inv, Types
<1> USE DEF Frames
<1>2. a \in Seq(Op) /\ k \in 1 .. Len(a) /\ a[k] = x
  BY DEF BracketAt
<1>3. Pushed(Op, a, t, u) /\ Pos(l, e) \in Int
  BY <1>1, <1>2, PushIs, PosIs
<1>4. Stopping(l, P, o, u, 1, k) /\ k \in 1 .. Len(u)
  <2>1. /\ x.op \in {"Start", "Add", "SetDead"} /\ x.e = e /\ (x.op = "Start" => P[e] = 0) /\ (x.op = "SetDead" => o[e])
        /\ BracketAt(l, P, e, x, a, k) /\ (Heavy(P, x) => AllUp(l, P, e, a, 1, k))
    OBVIOUS
  <2> QED BY ONLY Exact(P, o, {}), Calm(t, 1), t \in Seq(Op), e \in Range(l), <1>3, <2>1, StoppingIs
<1>5. Range(u) = Range(a) \cup Range(t)
  BY <1>3 DEF Pushed
<1>6. ASSUME NEW i \in 1 .. Len(a)
      PROVE  /\ a[i].op \notin {"Execute", "Next", "Clear"} /\ Good(l, m, a[i])
             /\ a[i] = x \/ Weightless(a[i])
  <2>1. CASE i = k
    BY <1>2, <2>1 DEF Good, Refers, ToldRight
  <2>2. CASE i \in 1 .. k - 1
    <3>1. a[i].op = "TempRemove" /\ a[i].e \in Range(l)
      BY <2>2 DEF BracketAt
    <3> QED BY <3>1 DEF Good, Refers, ToldRight, Weightless
  <2>3. CASE i \in k + 1 .. Len(a)
    <3>1. a[i].op = "Readd" /\ a[i].e = e /\ a[i].last \in Range(l) /\ Pos(l, e) < Pos(l, a[i].last)
      BY <2>3 DEF BracketAt
    <3> QED BY <3>1 DEF Good, Refers, ToldRight, Weightless
  <2>4. i = k \/ i \in 1 .. k - 1 \/ i \in k + 1 .. Len(a)
    <3> DEFINE n == Len(a)
    <3>1. n \in Nat /\ k \in 1 .. n /\ i \in 1 .. n
      BY <1>2
    <3> HIDE DEF n
    <3>2. i = k \/ i \in 1 .. k - 1 \/ i \in k + 1 .. n
      BY <3>1
    <3> QED BY <3>2 DEF n
  <2> QED BY <2>1, <2>2, <2>3, <2>4
<1>7. Covered(l, P, Range(u))
  BY <1>5 DEF Covered, IsCovered
<1>8. Lighter(l, P, Range(b), m, P, Range(u), m)
  <2>1. ASSUME NEW r \in Range(u)
        PROVE  \/ r \in Range(b) \/ Weightless(r)
               \/ r.op = "Start" /\ \E c \in Range(b) : c.op = "New" /\ c.e = r.e /\ c.p = r.p
    <3>1. CASE r \in Range(t)
      BY <3>1
    <3>2. CASE r \in Range(a)
      <4>1. PICK i \in 1 .. Len(a) : r = a[i]
        BY <1>2, <3>2 DEF Range
      <4>2. CASE r = x
        BY <4>2 DEF Weightless
      <4> QED BY <1>6, <4>1, <4>2
    <3> QED BY <1>5, <3>1, <3>2
  <2> QED BY <1>1, <2>1, LighterSame
<1>9. Phase(l, P, o, u)
  BY <1>4 DEF Phase
<1> QED BY <1>2, <1>6, <1>7, <1>8, <1>9, InvPush

\* Kill, of an effect e of the list, when the engine is between two operations.
LEMMA KillIs ==
  ASSUME NEW t, Inv(list, prio, on, t, made), Resting(prio, on, t), t # <<>> => t[1].op # "Execute", NEW e \in Range(list)
  PROVE  Inv(list, prio, on, Kill(e) \o t, made)
<1> DEFINE x == [op |-> "SetDead", e |-> e]
<1>1. /\ list \in Seq(Effect) /\ Distinct(list) /\ prio \in [Effect -> Int] /\ on \in [Effect -> BOOLEAN]
      /\ t \in Seq(Op) /\ Bottom(t) /\ Covered(list, prio, Range(t)) /\ Sorted(list, prio, Range(t), made)
  BY DEF Inv, Types
<1>2. Calm(t, 1) /\ Exact(prio, on, {})
  BY DEF Resting
<1>3. \A i \in 1 .. Len(t) : t[i].op # "Execute"
  BY <1>1, NoExecute
<1>4. e \in Effect /\ \A y \in Range(list) : y \in Effect
  BY <1>1 DEF Range
<1>5. x \in Op /\ x.op = "SetDead" /\ x.e = e
  BY <1>4 DEF Op, Plain
<1>6. CASE prio[e] > 0
  <2> DEFINE b == Bracket(e, <<x>>)
  <2>1. Kill(e) = b
    BY <1>6 DEF Kill
  <2> HIDE DEF x
  <2>2. PICK k \in 1 .. Len(b) : BracketAt(list, prio, e, x, b, k) /\ (NoneOne(list, prio, e) => AllUp(list, prio, e, b, 1, k))
    BY <1>1, <1>5, BracketIs
  <2> HIDE DEF b
  <2>3. ASSUME Heavy(prio, x) PROVE NoneOne(list, prio, e)
    <3>1. prio[e] > 1
      BY <1>5, <2>3 DEF Heavy
    <3> SUFFICES ASSUME NEW y \in Range(list), Pos(list, e) < Pos(list, y), prio[y] = 1 PROVE FALSE
      BY <3>1 DEF NoneOne
    <3> DEFINE i == Pos(list, e)
               j == Pos(list, y)
    <3>2. i \in 1 .. Len(list) /\ j \in 1 .. Len(list) /\ list[i] = e /\ list[j] = y /\ i < j
      BY <1>1, PosIs
    <3> HIDE DEF i, j
    <3>3. InOrder(prio, Range(t), made, e, y)
      BY <1>1, <3>2 DEF Sorted
    <3>4. prio[e] \in Nat \ {0} /\ Abs(prio[e]) = prio[e] /\ Abs(1) = 1
      BY <1>1, <1>4, <3>1 DEF Abs
    <3>5. Weighs(prio, Range(t), made, e, prio[e]) /\ Weighs(prio, Range(t), made, y, 1)
      BY <3>4 DEF Weighs
    <3>6. prio[e] <= 1
      BY <3>3, <3>4, <3>5 DEF InOrder
    <3> QED BY <3>1, <3>4, <3>6
  <2>4. on[e]
    BY <1>2, <1>4, <1>6 DEF Exact
  <2>5. Frames(list, prio, on, Range(t), e, x, b, k)
    BY <1>5, <2>2, <2>3, <2>4 DEF Frames
  <2>6. PICK u : u = b \o t
    OBVIOUS
  <2>7. Inv(list, prio, on, u, made)
    BY <1>1, <1>2, <1>3, <2>5, <2>6, PushStops
  <2> QED BY <2>1, <2>6, <2>7
<1>7. CASE ~(prio[e] > 0)
  <2> DEFINE r == [op |-> "Reactivate", e |-> e]
             a == <<r, x>>
  <2>1. Kill(e) = a
    BY <1>7 DEF Kill
  <2>2. r \in Op /\ r.op = "Reactivate" /\ r.e = e
    BY <1>4 DEF Op, Plain
  <2> HIDE DEF r, x
  <2>3. a \in Seq(Op) /\ Len(a) = 2 /\ a[1] = r /\ a[2] = x /\ Range(a) = {r, x}
    BY <1>5, <2>2 DEF Range
  <2> HIDE DEF a
  <2>4. PICK u : u = a \o t
    OBVIOUS
  <2>5. Pushed(Op, a, t, u)
    BY <1>1, <2>3, <2>4, PushIs
  <2>6. /\ Len(u) = 2 + Len(t) /\ u[1] = r /\ u[2] = x /\ Range(u) = {r, x} \cup Range(t)
    BY <2>3, <2>5 DEF Pushed
  <2>7. Reviving(prio, on, u)
    <3>1. Calm(a, 3)
      BY <2>3 DEF Calm
    <3>2. Calm(u, 3)
      BY <1>1, <1>2, <2>3, <2>5, <3>1, CalmPush
    <3>3. 2 \in 1 .. Len(u)
      BY <1>1, <2>6
    <3>4. prio[e] <= 0
      BY <1>1, <1>4, <1>7
    <3> QED BY <1>2, <1>5, <2>2, <2>6, <3>2, <3>3, <3>4 DEF Reviving
  <2>8. Weightless(r) /\ Weightless(x)
    BY <1>5, <2>2 DEF Weightless
  <2>9. Covered(list, prio, Range(u)) /\ Lighter(list, prio, Range(t), made, prio, Range(u), made)
    <3>1. Covered(list, prio, Range(u))
      BY <1>1, <2>6, CoveredIs
    <3>2. \A c \in Range(u) : c \in Range(t) \/ Weightless(c)
      BY <2>6, <2>8
    <3> QED BY <1>1, <3>1, <3>2, LighterSame
  <2>10. Good(list, made, r) /\ Good(list, made, x)
    BY <1>5, <2>2 DEF Good, Refers, ToldRight
  <2>11. \A i \in 1 .. Len(a) : a[i].op \notin {"Execute", "Next", "Clear"} /\ Good(list, made, a[i])
    <3>1. ASSUME NEW i \in 1 .. Len(a) PROVE a[i] = r \/ a[i] = x
      BY <2>3
    <3> QED BY <1>5, <2>2, <2>10, <3>1
  <2>12. Phase(list, prio, on, u)
    BY <2>7 DEF Phase
  <2>13. Inv(list, prio, on, u, made)
    BY <1>1, <1>3, <2>3, <2>4, <2>9, <2>11, <2>12, InvPush
  <2> QED BY <2>1, <2>4, <2>13
<1> QED BY <1>6, <1>7

LEMMA RestIs ==
  ASSUME IInv, todo # <<>>
  PROVE  LET t == Tail(todo) IN /\ t \in Seq(Op) /\ (t # <<>> => t[1].op # "Execute")
                                /\ \A i \in 1 .. Len(t) : t[i].op # "Execute"
<1> DEFINE t == Tail(todo)
<1>1. Popped(Op, todo, t) /\ todo \in Seq(Op) /\ Bottom(todo)
  BY HeadIs DEF IInv, Inv
<1>2. t \in Seq(Op) /\ \A i \in 1 .. Len(t) : t[i].op # "Execute"
  BY <1>1, BottomPop DEF Popped
<1> HIDE DEF t
<1>3. t # <<>> => 1 \in 1 .. Len(t)
  BY <1>2
<1> QED BY <1>2, <1>3 DEF t

LEMMA ResultStep ==
  ASSUME IInv, todo # <<>>, todo[1].op = "Result", Result(todo[1], Tail(todo)), UNCHANGED made
  PROVE  IInv'
<1> DEFINE rest == Tail(todo)
<1>1. /\ 1 \in 1 .. Len(todo) /\ todo[1].e \in Range(list) /\ Inv(list, prio, on, todo, made)
      /\ todo \in Seq(Op) /\ Popped(Op, todo, rest)
      /\ Phase(list, prio, on, todo)
  BY HeadIs DEF IInv, Inv
<1>2. Resting(prio, on, todo)
  <2>1. ~Urgent(todo[1])
    BY DEF Urgent, Hurry
  <2> QED BY <1>1, <2>1, PhaseIs
<1>3. Resting(prio, on, rest)
  <2>1. Calm(todo, 1 + 1)
    BY <1>2 DEF Resting, Calm
  <2>2. Calm(rest, 1)
    BY <1>1, <2>1, CalmPop
  <2> QED BY <1>2, <2>2 DEF Resting
<1>4. Inv(list, prio, on, rest, made)
  BY <1>1, <1>3, PopSame DEF Phase
<1>5. Inv(list, prio, on, Kill(todo[1].e) \o rest, made)
  <2>1. rest # <<>> => rest[1].op # "Execute"
    BY RestIs
  <2> HIDE DEF rest
  <2> QED BY <1>1, <1>3, <1>4, <2>1, KillIs
<1>6. todo' \in {rest, Kill(todo[1].e) \o rest} /\ UNCHANGED <<list, prio, on, made>>
  BY DEF Result
<1> QED BY <1>4, <1>5, <1>6 DEF IInv

\* What holds of the steps after the next one, when nothing after that one is urgent.
LEMMA AfterIs ==
  ASSUME IInv, todo # <<>>, todo[1].op # "Readd"
  PROVE  LET t == Tail(todo)
         IN  /\ t \in Seq(Op) /\ Range(t) \subseteq Range(todo) /\ Bottom(t)
             /\ \A i \in 1 .. Len(t) : t[i].op # "Execute"
             /\ Calm(todo, 2) => Calm(t, 1)
             /\ Covered(list, prio, Range(t))
<1> DEFINE t == Tail(todo)
<1>1. /\ Popped(Op, todo, t) /\ todo \in Seq(Op) /\ Range(todo) = {todo[1]} \cup Range(t)
      /\ Bottom(todo) /\ Covered(list, prio, Range(todo))
  BY HeadIs DEF IInv, Inv
<1>2. t \in Seq(Op) /\ Bottom(t) /\ \A i \in 1 .. Len(t) : t[i].op # "Execute"
  BY <1>1, BottomPop DEF Popped
<1>3. Calm(todo, 1 + 1) => Calm(t, 1)
  BY <1>1, CalmPop
<1>4. Covered(list, prio, Range(t))
  BY <1>1, CoveredIs
<1> QED BY <1>1, <1>2, <1>3, <1>4

LEMMA AddStep ==
  ASSUME IInv, todo # <<>>, todo[1].op = "Add", Add(todo[1], Tail(todo)), UNCHANGED made
  PROVE  IInv'
<1> DEFINE e == todo[1].e
           rest == Tail(todo)
           x == Call(e, "Add")
<1>1. /\ 1 \in 1 .. Len(todo) /\ e \in Range(list) /\ Types(list, prio, on, todo, made)
      /\ Inv(list, prio, on, todo, made) /\ Phase(list, prio, on, todo) /\ made \in Int
  BY HeadIs DEF IInv, Inv, Types
<1>2. Calm(todo, 2) /\ Exact(prio, on, {})
  BY <1>1, NowIs
<1>3. Resting(prio, on, rest) /\ (rest # <<>> => rest[1].op # "Execute")
  BY <1>2, AfterIs, RestIs DEF Resting
<1>4. Inv(list, prio, on, rest, made)
  BY <1>1, <1>3, PopSame DEF Phase
<1>5. x \in Called /\ x.op = "Call" /\ x.fn = "Add" /\ x.e = e /\ x.made = made
  BY <1>1, CallIs DEF Calls
<1>6. UNCHANGED <<list, prio, on>> /\ todo' = <<x>> \o rest
  BY DEF Add
<1> HIDE DEF x, e, rest
<1>7. x \in Op /\ ~Urgent(x) /\ Weightless(x)
  BY <1>5 DEF Op, Urgent, Hurry, Silent, Weightless
<1>8. Good(list, made, x)
  BY <1>1, <1>5 DEF Good, Refers, ToldRight, Starts, Stops
<1>9. Inv(list, prio, on, <<x>> \o rest, made)
  BY <1>3, <1>4, <1>5, <1>7, <1>8, PushOne
<1> QED BY <1>6, <1>9 DEF IInv

LEMMA NewStep ==
  ASSUME IInv, todo # <<>>, todo[1].op = "New", New(todo[1], Tail(todo)), UNCHANGED made
  PROVE  IInv'
<1> DEFINE s == todo[1]
           e == s.e
           rest == Tail(todo)
           x == [op |-> "Start", e |-> e, p |-> s.p]
           a == IF s.p = 1 THEN <<x>> ELSE Bracket(e, <<x>>)
<1>1. /\ 1 \in 1 .. Len(todo) /\ e \in Range(list) /\ e \in Effect /\ s \in Op /\ s \in Range(todo)
      /\ Inv(list, prio, on, todo, made) /\ Phase(list, prio, on, todo)
      /\ list \in Seq(Effect) /\ Distinct(list) /\ prio \in [Effect -> Int]
      /\ Sorted(list, prio, Range(todo), made)
  BY HeadIs DEF IInv, Inv, Types
<1>2. s \in News /\ s.op = "New"
  BY <1>1 DEF Op, Plain, Readds, Checks, Called
<1>3. s.p \in Priority /\ s.p \in Nat \ {0}
  BY <1>2, PriorityAssumption DEF News
<1>4. prio[e] = 0 /\ Calm(todo, 2) /\ Exact(prio, on, {})
  BY <1>1, PhaseIs DEF Placing
<1>5. todo' = a \o rest /\ UNCHANGED <<list, prio, on>>
  BY DEF New
<1>6. /\ rest \in Seq(Op) /\ Range(rest) \subseteq Range(todo) /\ Bottom(rest)
      /\ \A i \in 1 .. Len(rest) : rest[i].op # "Execute"
      /\ Calm(rest, 1) /\ Covered(list, prio, Range(rest))
  BY <1>4, AfterIs
<1> HIDE DEF s
<1>7. x \in Op /\ x.op = "Start" /\ x.e = e /\ x.p = s.p
  BY <1>1, <1>3 DEF Op, News
<1> HIDE DEF x
<1>8. ASSUME s.p # 1 PROVE NoneOne(list, prio, e)
  <2> SUFFICES ASSUME NEW y \in Range(list), Pos(list, e) < Pos(list, y), prio[y] = 1 PROVE FALSE
    BY <1>4 DEF NoneOne
  <2> DEFINE i == Pos(list, e)
             j == Pos(list, y)
  <2>1. i \in 1 .. Len(list) /\ j \in 1 .. Len(list) /\ list[i] = e /\ list[j] = y /\ i < j
    BY <1>1, PosIs
  <2> HIDE DEF i, j
  <2>2. InOrder(prio, Range(todo), made, e, y)
    BY <1>1, <2>1 DEF Sorted
  <2>3. Abs(1) = 1
    BY DEF Abs
  <2>4. Weighs(prio, Range(todo), made, y, 1)
    BY <2>3 DEF Weighs
  <2>5. Weighs(prio, Range(todo), made, e, s.p)
    <3>1. Carries(made, s, e, s.p)
      BY <1>2 DEF Carries
    <3> QED BY <1>1, <3>1 DEF Weighs
  <2>6. s.p <= 1
    BY <1>3, <2>2, <2>4, <2>5 DEF InOrder
  <2> QED BY <1>3, <1>8, <2>6
<1>9. \E k : Frames(list, prio, on, Range(todo), e, x, a, k)
  <2>1. CASE s.p = 1
    <3>1. BracketAt(list, prio, e, x, a, 1)
      BY <1>7, <2>1, AloneIs
    <3>2. ~Heavy(prio, x)
      BY <1>7, <2>1 DEF Heavy
    <3>3. Frames(list, prio, on, Range(todo), e, x, a, 1)
      BY <1>1, <1>2, <1>4, <1>7, <3>1, <3>2 DEF Frames
    <3> QED BY <3>3
  <2>2. CASE s.p # 1
    <3>1. a = Bracket(e, <<x>>)
      BY <2>2
    <3> DEFINE b == Bracket(e, <<x>>)
    <3>2. PICK k \in 1 .. Len(b) : BracketAt(list, prio, e, x, b, k) /\ (NoneOne(list, prio, e) => AllUp(list, prio, e, b, 1, k))
      BY <1>1, <1>7, BracketIs
    <3> HIDE DEF a, b
    <3>3. Frames(list, prio, on, Range(todo), e, x, b, k)
      BY <1>1, <1>2, <1>4, <1>7, <1>8, <2>2, <3>2 DEF Frames
    <3> QED BY <3>1, <3>3 DEF b
  <2> QED BY <2>1, <2>2
<1> HIDE DEF a, rest, e
<1>10. PICK k : Frames(list, prio, on, Range(todo), e, x, a, k)
  BY <1>9
<1>11. PICK u : u = a \o rest
  OBVIOUS
<1>12. Inv(list, prio, on, u, made)
  BY <1>1, <1>4, <1>6, <1>10, <1>11, PushStops
<1> QED BY <1>5, <1>11, <1>12 DEF IInv

\* An effect is asked about the new one: its callback comes first, and then the rest
\* of the question.
LEMMA AskStep ==
  ASSUME IInv, todo # <<>>, todo[1].op = "Check", NEW x \in Range(list)
  PROVE  Inv(list, prio, on, <<Call(x, "Effect"), [todo[1] EXCEPT !.at = x]>> \o Tail(todo), made)
<1> DEFINE s == todo[1]
           rest == Tail(todo)
           c == Call(x, "Effect")
           n == [s EXCEPT !.at = x]
           a == <<c, n>>
           h == Len(todo)
<1>1. /\ 1 \in 1 .. h /\ s \in Op /\ s \in Range(todo) /\ Types(list, prio, on, todo, made) /\ todo \in Seq(Op)
      /\ Inv(list, prio, on, todo, made) /\ Phase(list, prio, on, todo) /\ made \in Int
      /\ list \in Seq(Effect) /\ prio \in [Effect -> Int] /\ Good(list, made, s) /\ Popped(Op, todo, rest)
  BY HeadIs DEF IInv, Inv, Types
<1>2. s \in Checks /\ s.op = "Check"
  BY <1>1 DEF Op, Plain, Readds, News, Called
<1>3. 2 \in 1 .. h /\ todo[2].op = "New" /\ prio[todo[2].e] = 0 /\ Calm(todo, 3) /\ Exact(prio, on, {})
  <2>1. Asking(prio, on, todo, 1)
    BY <1>1, PhaseIs
  <2> QED BY <2>1 DEF Asking
<1>4. x \in Effect
  BY <1>1 DEF Range
<1>5. n \in Checks /\ n.op = "Check" /\ n.e = s.e /\ n.at = x /\ n.add = s.add
  BY <1>2, <1>4 DEF Checks
<1>6. c \in Called /\ c.op = "Call" /\ c.fn = "Effect" /\ c.e = x /\ c.made = made
  BY <1>1, CallIs DEF Calls
<1>7. rest \in Seq(Op) /\ Range(rest) \subseteq Range(todo) /\ Bottom(rest) /\ Covered(list, prio, Range(rest))
      /\ \A i \in 1 .. Len(rest) : rest[i].op # "Execute"
  BY AfterIs
<1>8. h \in Nat /\ Len(rest) = h - 1 /\ \A i \in 1 .. h - 1 : rest[i] = todo[i + 1]
  BY <1>1 DEF Popped
<1> HIDE DEF s, c, n, rest, h
<1>9. a \in Seq(Op) /\ Len(a) = 2 /\ a[1] = c /\ a[2] = n /\ Range(a) = {c, n}
  <2>1. c \in Op /\ n \in Op
    BY <1>5, <1>6 DEF Op
  <2> QED BY <2>1 DEF Range
<1> HIDE DEF a
<1>10. PICK u : u = a \o rest
  OBVIOUS
<1>11. Pushed(Op, a, rest, u)
  BY <1>7, <1>9, <1>10, PushIs
<1>12. /\ Len(u) = h + 1 /\ u[1] = c /\ u[2] = n /\ Range(u) = {c, n} \cup Range(rest)
       /\ \A i \in 3 .. h + 1 : u[i] = todo[i - 1]
  <2>1. Len(u) = h + 1 /\ u[1] = c /\ u[2] = n /\ Range(u) = {c, n} \cup Range(rest)
    BY <1>8, <1>9, <1>11 DEF Pushed
  <2>2. ASSUME NEW i \in 3 .. h + 1 PROVE u[i] = todo[i - 1]
    <3> DEFINE j == i - 2
    <3>1. j \in 1 .. h - 1 /\ j + 1 = i - 1 /\ i \in 2 + 1 .. 2 + (h - 1)
      BY <1>8
    <3>2. u[i] = rest[j]
      BY <1>8, <1>9, <1>11, <3>1 DEF Pushed
    <3> HIDE DEF j
    <3> QED BY <1>8, <3>1, <3>2
  <2> QED BY <2>1, <2>2
<1>13. CallOf(u, {"Effect"}) /\ Asking(prio, on, u, 2)
  <2>1. 1 \in 1 .. h + 1 /\ 2 + 1 \in 1 .. h + 1 /\ 3 - 1 = 2 /\ 3 \in 3 .. h + 1
    BY <1>3, <1>8
  <2>2. u[2 + 1] = todo[2]
    BY <1>12, <2>1
  <2>3. Calm(u, 2 + 2)
    <3> SUFFICES ASSUME NEW i \in 4 .. h + 1 PROVE ~Urgent(u[i])
      BY <1>12 DEF Calm
    <3> DEFINE j == i - 1
    <3>1. j \in 3 .. h /\ u[i] = todo[j]
      BY <1>8, <1>12
    <3> HIDE DEF j
    <3> QED BY <1>3, <3>1 DEF Calm, h
  <2> QED BY <1>3, <1>5, <1>6, <1>12, <2>1, <2>2, <2>3 DEF CallOf, Asking
<1>14. Weightless(c) /\ Weightless(n) /\ Good(list, made, c) /\ Good(list, made, n)
  <2>1. Weightless(c) /\ Weightless(n)
    BY <1>5, <1>6 DEF Weightless
  <2>2. Good(list, made, c)
    BY <1>1, <1>6 DEF Good, Refers, ToldRight, Starts, Stops
  <2>3. Good(list, made, n)
    BY <1>1, <1>2, <1>5 DEF Good, Refers, ToldRight
  <2> QED BY <2>1, <2>2, <2>3
<1>15. Covered(list, prio, Range(u)) /\ Lighter(list, prio, Range(todo), made, prio, Range(u), made)
  <2>1. Covered(list, prio, Range(u))
    BY <1>7, <1>12, CoveredIs
  <2>2. \A r \in Range(u) : r \in Range(todo) \/ Weightless(r)
    BY <1>7, <1>12, <1>14
  <2> QED BY <1>1, <2>1, <2>2, LighterSame
<1>16. \A i \in 1 .. Len(a) : a[i].op \notin {"Execute", "Next", "Clear"} /\ Good(list, made, a[i])
  <2>1. ASSUME NEW i \in 1 .. Len(a) PROVE a[i] = c \/ a[i] = n
    BY <1>9
  <2> QED BY <1>5, <1>6, <1>14, <2>1
<1>17. Phase(list, prio, on, u)
  BY <1>13 DEF Phase
<1>18. Inv(list, prio, on, u, made)
  BY <1>1, <1>7, <1>9, <1>10, <1>15, <1>16, <1>17, InvPush
<1> QED BY <1>10, <1>18 DEF a, c, n, s, rest

LEMMA CheckStep ==
  ASSUME IInv, todo # <<>>, todo[1].op = "Check", Check(todo[1], Tail(todo)), UNCHANGED made
  PROVE  IInv'
<1> DEFINE s == todo[1]
           rest == Tail(todo)
           asked == {i \in Index(s.at) + 1 .. Len(list) : prio[list[i]] >= s.p}
<1>1. /\ 1 \in 1 .. Len(todo) /\ s \in Op /\ s \in Range(todo) /\ Types(list, prio, on, todo, made) /\ todo \in Seq(Op)
      /\ Inv(list, prio, on, todo, made) /\ Phase(list, prio, on, todo)
      /\ Good(list, made, s) /\ Popped(Op, todo, rest)
      /\ list \in Seq(Effect) /\ Distinct(list) /\ prio \in [Effect -> Int]
  BY HeadIs DEF IInv, Inv, Types
<1>2. s.at \in Range(list) /\ (s.add # None => s.add \in Range(list))
  BY <1>1 DEF Good, Refers
<1>3. UNCHANGED <<list, prio, on>>
  BY DEF Check
<1>4. CASE asked # {}
  <2> DEFINE x == list[Min(asked)]
             u == <<Call(x, "Effect"), [s EXCEPT !.at = x]>> \o rest
  <2>1. asked \subseteq 1 .. Len(list)
    <3>1. Index(s.at) \in 1 .. Len(list)
      BY <1>1, <1>2, PlaceIs
    <3> QED BY <3>1
  <2>2. Min(asked) \in asked
    <3> HIDE DEF asked
    <3>1. asked \subseteq Nat
      BY <2>1
    <3>2. \E i \in asked : \A j \in asked : i <= j
      BY <1>4, <3>1, LeastNat
    <3> QED BY <3>2 DEF Min
  <2>3. x \in Range(list)
    <3> HIDE DEF asked
    <3> QED BY <1>1, <2>1, <2>2, PlaceIs
  <2>4. todo' = u
    BY <1>4 DEF Check
  <2> HIDE DEF x
  <2>5. Inv(list, prio, on, u, made)
    BY <2>3, AskStep
  <2> HIDE DEF u
  <2> QED BY <1>3, <2>4, <2>5 DEF IInv
<1>5. /\ Asking(prio, on, todo, 1) /\ todo[2].op = "New" /\ 2 \in 1 .. Len(todo)
      /\ Exact(prio, on, {})
  <2>1. Asking(prio, on, todo, 1)
    BY <1>1, PhaseIs
  <2> QED BY <2>1 DEF Asking
<1>6. Inv(list, prio, on, rest, made) /\ rest # <<>> /\ rest[1].op = "New" /\ rest \in Seq(Op)
      /\ Placing(prio, on, rest)
  <2>1. rest \in Seq(Op) /\ Len(rest) = Len(todo) - 1 /\ Len(todo) \in Nat /\ \A i \in 1 .. Len(todo) - 1 : rest[i] = todo[i + 1]
    BY <1>1 DEF Popped
  <2>2. 1 \in 1 .. Len(rest) /\ rest[1] = todo[1 + 1]
    BY <1>5, <2>1
  <2>3. Calm(todo, 2 + 1) /\ prio[todo[2].e] = 0
    BY <1>5 DEF Asking
  <2>4. Calm(rest, 2)
    BY <1>1, <2>3, CalmPop
  <2>5. Placing(prio, on, rest)
    BY <1>5, <2>2, <2>3, <2>4 DEF Placing
  <2>6. Inv(list, prio, on, rest, made)
    BY <1>1, <2>5, PopSame DEF Phase
  <2>7. rest # <<>>
    <3> HIDE DEF rest
    <3> QED BY <2>1, <2>2
  <2> QED BY <1>5, <2>1, <2>2, <2>5, <2>6, <2>7
<1>7. CASE asked = {} /\ s.add = None
  <2>1. todo' = rest
    BY <1>7 DEF Check
  <2> QED BY <1>3, <1>6, <2>1 DEF IInv
<1>8. CASE asked = {} /\ s.add # None
  <2> DEFINE e == s.add
             t == Tail(rest)
             x == [op |-> "Add", e |-> e]
             r == [op |-> "Result", e |-> e]
             a == IF s.calls THEN Bracket(e, <<x>>) ELSE <<x>>
  <2>1. e \in Range(list) /\ e \in Effect
    BY <1>1, <1>2, <1>8, PlaceIs
  <2>2. todo' = a \o <<r>> \o t
    BY <1>8 DEF Check
  <2> HIDE DEF rest, e, s
  <2>3. Inv(list, prio, on, t, made) /\ Resting(prio, on, t) /\ t \in Seq(Op) /\ (t # <<>> => t[1].op # "Execute")
    <3>1. Popped(Op, rest, t)
      BY <1>6, PopIs
    <3>2. Calm(rest, 1 + 1) /\ Exact(prio, on, {})
      BY <1>6 DEF Placing
    <3>3. Calm(t, 1) /\ t \in Seq(Op)
      <4>1. Calm(t, 1)
        BY <1>6, <3>1, <3>2, CalmPop
      <4> QED BY <3>1, <4>1 DEF Popped
    <3>4. Resting(prio, on, t)
      BY <3>2, <3>3 DEF Resting
    <3>5. Inv(list, prio, on, t, made)
      BY <1>6, <3>4, PopSame DEF Phase
    <3>6. \A i \in 1 .. Len(t) : t[i].op # "Execute"
      BY <1>6, <3>1, BottomPop DEF Inv
    <3> HIDE DEF t
    <3>7. t # <<>> => 1 \in 1 .. Len(t)
      BY <3>3
    <3> QED BY <3>3, <3>4, <3>5, <3>6, <3>7
  <2>4. /\ r \in Op /\ r.op = "Result" /\ r.e = e
        /\ x \in Op /\ x.op = "Add" /\ x.e = e
    BY <2>1 DEF Op, Plain
  <2> HIDE DEF r, x, t
  <2>5. ~Urgent(r) /\ Weightless(r) /\ Good(list, made, r)
    BY <2>1, <2>4 DEF Urgent, Hurry, Weightless, Good, Refers, ToldRight
  <2>6. PICK v : v = <<r>> \o t
    OBVIOUS
  <2>7. Inv(list, prio, on, v, made) /\ Resting(prio, on, v)
    BY <2>3, <2>4, <2>5, <2>6, PushOne
  <2>8. v \in Seq(Op) /\ Bottom(v) /\ Calm(v, 1) /\ Covered(list, prio, Range(v)) /\ v[1] = r
    <3>1. v \in Seq(Op) /\ Bottom(v) /\ Calm(v, 1) /\ Covered(list, prio, Range(v))
      BY <2>7 DEF Inv, Types, Resting
    <3>2. v[1] = r
      <4> DEFINE o == <<r>>
      <4>1. o \in Seq(Op) /\ Len(o) = 1 /\ o[1] = r
        BY <2>4
      <4>2. v = o \o t
        BY <2>6
      <4> HIDE DEF o
      <4>3. Pushed(Op, o, t, v)
        BY <2>3, <4>1, <4>2, PushIs
      <4> QED BY <4>1, <4>3 DEF Pushed
    <3> QED BY <3>1, <3>2
  <2>9. \A i \in 1 .. Len(v) : v[i].op # "Execute"
    BY <2>4, <2>8, NoExecute
  <2>10. \E k : Frames(list, prio, on, Range(v), e, x, a, k)
    <3>1. ~Heavy(prio, x)
      BY <2>4 DEF Heavy
    <3>2. \E k : BracketAt(list, prio, e, x, a, k)
      <4>1. CASE s.calls
        <5>1. a = Bracket(e, <<x>>)
          BY <4>1
        <5> DEFINE b == Bracket(e, <<x>>)
        <5>2. PICK k \in 1 .. Len(b) : BracketAt(list, prio, e, x, b, k)
          BY <1>1, <2>1, <2>4, BracketIs
        <5> QED BY <5>1, <5>2
      <4>2. CASE ~s.calls
        <5>1. a = <<x>>
          BY <4>2
        <5> QED BY <2>4, <5>1, AloneIs
      <4> QED BY <4>1, <4>2
    <3> HIDE DEF a
    <3> QED BY <2>4, <3>1, <3>2 DEF Frames
  <2> HIDE DEF a
  <2>11. PICK k : Frames(list, prio, on, Range(v), e, x, a, k)
    BY <2>10
  <2>12. a \in Seq(Op)
    BY <2>11 DEF Frames, BracketAt
  <2>13. PICK u : u = a \o v
    OBVIOUS
  <2>14. Inv(list, prio, on, u, made)
    BY <1>5, <2>1, <2>7, <2>8, <2>9, <2>11, <2>13, PushStops
  <2>15. u = todo'
    <3>1. <<r>> \in Seq(Op)
      BY <2>4
    <3>2. (a \o <<r>>) \o t = a \o (<<r>> \o t)
      BY <2>3, <2>12, <3>1, ConcatAssociative
    <3> QED BY <2>2, <2>6, <2>13, <3>2
  <2> QED BY <1>3, <2>14, <2>15 DEF IInv
<1> QED BY <1>4, <1>7, <1>8

-----------------------------------------------------------------------------
(* What scripts and the game do from outside.                              *)

LEMMA IdleIs ==
  ASSUME NEW l, NEW P, NEW o, Phase(l, P, o, <<>>)
  PROVE  Resting(P, o, <<>>)
<1>1. Len(<<>>) = 0 /\ 1 .. 0 = {} /\ 2 .. 0 = {}
  OBVIOUS
<1> QED BY <1>1 DEF Phase, Asking, Placing, Reviving, CallOf

LEMMA ScriptIs ==
  ASSUME IInv, ScriptRuns, Meddling \cap Silent = {}
  PROVE  Resting(prio, on, todo) /\ (todo # <<>> => todo[1].op # "Execute")
<1>1. CASE todo = <<>>
  BY <1>1, IdleIs DEF IInv, Inv
<1>2. CASE todo # <<>>
  <2>1. todo[1].op = "Call" /\ todo[1].fn \in Meddling
    BY <1>2, HeadIs DEF ScriptRuns
  <2>2. ~Urgent(todo[1])
    BY <2>1 DEF Urgent, Hurry
  <2>3. 1 \in 1 .. Len(todo) /\ Phase(list, prio, on, todo)
    BY <1>2, HeadIs DEF IInv, Inv
  <2> QED BY <2>1, <2>2, <2>3, PhaseIs
<1> QED BY <1>1, <1>2

LEMMA RemoveStep ==
  ASSUME IInv, Meddling \cap Silent = {}, NEW e \in Effect, RemoveEffect(e)
  PROVE  IInv'
<1>1. ScriptRuns /\ e \in Range(list) /\ todo' = Kill(e) \o todo /\ UNCHANGED <<list, prio, on, made>>
  BY DEF RemoveEffect
<1>2. Inv(list, prio, on, Kill(e) \o todo, made)
  BY <1>1, ScriptIs, KillIs DEF IInv
<1> QED BY <1>1, <1>2 DEF IInv

LEMMA SilentStep ==
  ASSUME IInv, Meddling \cap Silent = {}, NEW e \in Effect, RemoveSilently(e)
  PROVE  IInv'
<1>1. /\ ScriptRuns /\ e \in Range(list) /\ UNCHANGED <<list, todo, made>>
      /\ prio' = [prio EXCEPT ![e] = 0] /\ on' = [on EXCEPT ![e] = FALSE]
  BY DEF RemoveSilently
<1>2. /\ Inv(list, prio, on, todo, made) /\ list \in Seq(Effect) /\ Covered(list, prio, Range(todo))
      /\ prio \in [Effect -> Int] /\ on \in [Effect -> BOOLEAN] /\ \A y \in Effect \ Range(list) : prio[y] = 0
  BY DEF IInv, Inv, Types
<1>3. Calm(todo, 1) /\ Exact(prio, on, {})
  BY <1>1, ScriptIs DEF Resting
<1>4. /\ prio' \in [Effect -> Int] /\ on' \in [Effect -> BOOLEAN] /\ prio'[e] = 0 /\ on'[e] = FALSE
      /\ \A y \in Effect : y # e => prio'[y] = prio[y] /\ on'[y] = on[y]
  BY <1>1, <1>2
<1>5. ASSUME NEW y \in Effect PROVE (on'[y] <=> prio'[y] > 0) /\ (prio'[y] < 0 => prio[y] < 0)
  <2>1. CASE y = e
    BY <1>4, <2>1
  <2>2. CASE y # e
    BY <1>3, <1>4, <2>2 DEF Exact
  <2> QED BY <2>1, <2>2
<1>6. Resting(prio', on', todo)
  BY <1>3, <1>5 DEF Resting, Exact
<1>7. Covered(list, prio', Range(todo))
  BY <1>2, <1>5, CoveredIs
<1>8. Lighter(list, prio, Range(todo), made, prio', Range(todo), made)
  <2>1. ASSUME NEW y \in Range(list) PROVE prio'[y] = 0 \/ Weighs(prio, Range(todo), made, y, Abs(prio'[y]))
    <3>1. y \in Effect
      BY <1>2 DEF Range
    <3> QED BY <1>4, <3>1 DEF Weighs
  <2> QED BY <1>2, <1>4, <2>1, LighterIs
<1>9. \A y \in Effect \ Range(list) : prio'[y] = 0
  BY <1>2, <1>4
<1>10. Fits(list, prio, todo, made, prio', on', Range(todo), todo)
  BY <1>4, <1>6, <1>7, <1>8, <1>9 DEF Fits, Phase
<1>11. Inv(list, prio', on', todo, made)
  BY <1>2, <1>10, InvChange
<1> QED BY <1>1, <1>11 DEF IInv

\* Without a Readd that is left to do, no effect is stopped temporarily, and other such
\* steps may come.
LEMMA FreshIs ==
  ASSUME NEW l, NEW P, NEW o, NEW b, NEW m, Inv(l, P, o, b, m), Exact(P, o, {}),
         \A r \in Range(b) : r.op # "Readd",
         NEW u \in Seq(Op), Bottom(u), Calm(u, 1), \A r \in Range(u) : Good(l, m, r) /\ Weightless(r)
  PROVE  Inv(l, P, o, u, m)
<1>1. /\ l \in Seq(Effect) /\ Sorted(l, P, Range(b), m) /\ Covered(l, P, Range(b))
  BY DEF Inv, Types
<1>2. Covered(l, P, Range(u))
  BY <1>1 DEF Covered, IsCovered, Covers
<1>3. Lighter(l, P, Range(b), m, P, Range(u), m)
  BY <1>1, LighterSame
<1>4. Sorted(l, P, Range(u), m)
  BY <1>1, <1>3, SortedStep
<1>5. Phase(l, P, o, u)
  BY DEF Phase, Resting
<1> QED BY <1>2, <1>4, <1>5 DEF Inv, Types

LEMMA ClearAllStep ==
  ASSUME IInv, ClearAll
  PROVE  IInv'
<1> DEFINE back == Reverse(list)
           clear(y) == [op |-> "Clear", e |-> y]
           u == [i \in DOMAIN list |-> clear(back[i])]
           n == Len(list)
<1>1. /\ todo = <<>> /\ todo' = u /\ UNCHANGED <<list, prio, on, made>>
  BY DEF ClearAll
<1>2. list \in Seq(Effect) /\ Inv(list, prio, on, todo, made) /\ Resting(prio, on, todo)
  BY <1>1, IdleIs DEF IInv, Inv, Types
<1>3. n \in Nat /\ DOMAIN list = 1 .. n /\ \A i \in 1 .. n : list[i] \in Effect /\ list[i] \in Range(list)
  BY <1>2 DEF Range
<1>4. back = [i \in 1 .. n |-> list[(n - i) + 1]]
  BY DEF Reverse
<1> HIDE DEF n, back
<1>5. ASSUME NEW i \in 1 .. n PROVE back[i] \in Effect /\ back[i] \in Range(list)
  <2> DEFINE j == (n - i) + 1
  <2>1. back[i] = list[j] /\ j \in 1 .. n
    BY <1>3, <1>4
  <2> HIDE DEF j
  <2> QED BY <1>3, <2>1
<1>6. \A y \in Effect : clear(y) \in Op /\ clear(y).op = "Clear" /\ clear(y).e = y
  BY DEF Op, Plain
<1> HIDE DEF clear
<1>7. u \in Seq(Op) /\ Len(u) = n /\ \A i \in 1 .. n : u[i] = clear(back[i])
  <2>1. \A i \in 1 .. n : clear(back[i]) \in Op
    BY <1>5, <1>6
  <2> QED BY <1>3, <2>1
<1> HIDE DEF u
<1>8. ASSUME NEW i \in 1 .. n PROVE u[i].op = "Clear" /\ u[i].e \in Range(list)
  BY <1>5, <1>6, <1>7
<1>9. Bottom(u) /\ Calm(u, 1)
  <2>1. Bottom(u)
    <3>1. ASSUME NEW i \in 1 .. n, NEW j \in i .. n PROVE u[j].op = "Clear"
      <4>1. j \in 1 .. n
        BY <1>3
      <4> QED BY <1>8, <4>1
    <3> QED BY <1>7, <1>8, <3>1 DEF Bottom
  <2> QED BY <1>7, <1>8, <2>1 DEF Calm, Urgent, Hurry
<1>10. ASSUME NEW r \in Range(u) PROVE Good(list, made, r) /\ Weightless(r)
  <2>1. PICK i \in 1 .. n : u[i] = r
    BY <1>7 DEF Range
  <2>2. r.op = "Clear" /\ r.e \in Range(list)
    BY <1>8, <2>1
  <2> QED BY <2>2 DEF Good, Refers, ToldRight, Weightless
<1>11. \A r \in Range(todo) : r.op # "Readd"
  BY <1>1 DEF Range
<1>12. Inv(list, prio, on, u, made)
  BY <1>2, <1>7, <1>9, <1>10, <1>11, FreshIs DEF Resting
<1> QED BY <1>1, <1>12 DEF IInv

\* Steps of which the first and only call to Execute may consist.
Fresh(l, m, u) == u \in Seq(Op) /\ Bottom(u) /\ Calm(u, 1) /\ \A r \in Range(u) : Good(l, m, r) /\ Weightless(r)

Goes(x) == <<[op |-> "Execute", e |-> x]>>

LEMMA GoesIs ==
  ASSUME NEW l, NEW m, NEW x \in Effect, x \in Range(l)
  PROVE  Fresh(l, m, Goes(x)) /\ Fresh(l, m, <<>>)
<1> DEFINE r == [op |-> "Execute", e |-> x]
           u == Goes(x)
<1>1. r \in Op /\ r.op = "Execute" /\ r.e = x
  BY DEF Op, Plain
<1>2. u = <<r>>
  BY DEF Goes
<1> HIDE DEF r, u
<1>3. u \in Seq(Op) /\ Len(u) = 1 /\ u[1] = r /\ Range(u) = {r}
  BY <1>1, <1>2 DEF Range
<1>4. \A i \in 1 .. Len(u) : i = 1 /\ u[i] = r
  BY <1>3
<1>5. Bottom(u) /\ Calm(u, 1)
  BY <1>1, <1>3, <1>4 DEF Bottom, Calm, Urgent, Hurry
<1>6. Good(l, m, r) /\ Weightless(r)
  BY <1>1 DEF Good, Refers, ToldRight, Weightless
<1>7. Fresh(l, m, u)
  BY <1>3, <1>5, <1>6 DEF Fresh
<1>8. Fresh(l, m, <<>>)
  <2>1. <<>> \in Seq(Op) /\ Len(<<>>) = 0 /\ Range(<<>>) = {}
    BY DEF Range
  <2> QED BY <2>1 DEF Fresh, Bottom, Calm
<1> QED BY <1>7, <1>8 DEF u

\* Nothing comes after a step of Execute.
LEMMA LastIs ==
  ASSUME IInv, todo # <<>>, todo[1].op \in {"Execute", "Next"}
  PROVE  /\ Tail(todo) = <<>> /\ \A r \in Range(todo) : r.op # "Readd"
         /\ Resting(prio, on, todo) /\ todo[1].e \in Range(list) /\ todo[1].e \in Effect
         /\ Types(list, prio, on, todo, made) /\ Inv(list, prio, on, todo, made)
<1> DEFINE t == Tail(todo)
           n == Len(todo)
<1>1. /\ 1 \in 1 .. n /\ Types(list, prio, on, todo, made) /\ todo \in Seq(Op)
      /\ Inv(list, prio, on, todo, made) /\ Phase(list, prio, on, todo) /\ Bottom(todo)
      /\ Popped(Op, todo, t) /\ Range(todo) = {todo[1]} \cup Range(t)
      /\ todo[1].e \in Range(list) /\ todo[1].e \in Effect
  BY HeadIs DEF IInv, Inv
<1>2. n = 1
  BY <1>1 DEF Bottom
<1>3. t \in Seq(Op) /\ Len(t) = 0
  BY <1>1, <1>2 DEF Popped
<1> HIDE DEF t
<1>4. t = <<>>
  BY <1>3
<1>5. Range(todo) = {todo[1]}
  <2>1. Range(<<>>) = {}
    BY DEF Range
  <2> QED BY <1>1, <1>4, <2>1
<1>6. ~Urgent(todo[1])
  BY DEF Urgent, Hurry
<1>7. Resting(prio, on, todo)
  BY <1>1, <1>6, PhaseIs
<1> QED BY <1>1, <1>4, <1>5, <1>7 DEF t

LEMMA ExecuteNextIs ==
  ASSUME Types(list, prio, on, todo, made), NEW e \in Range(list)
  PROVE  /\ ExecuteNext(e) = <<>> \/ \E x \in Range(list) \ {e} : x \in Effect /\ ExecuteNext(e) = Goes(x)
         /\ ExecuteNext(e) \o <<>> = ExecuteNext(e)
<1>1. ExecuteNext(e) = <<>> \/ \E x \in Range(list) \ {e} : x \in Effect /\ ExecuteNext(e) = Goes(x)
  <2>1. CASE Index(e) = Len(list)
    BY <2>1 DEF ExecuteNext
  <2>2. CASE Index(e) # Len(list)
    <3> DEFINE x == pNext(e)
    <3>1. Index(e) = Pos(list, e) /\ Pos(list, e) \in 1 .. Len(list) /\ Len(list) \in Nat
      BY PlaceIs
    <3>2. Pos(list, e) < Len(list)
      BY <2>2, <3>1
    <3>3. x \in Range(list) \ {e} /\ x \in Effect
      BY <3>2, pNextIs
    <3>4. ExecuteNext(e) = Goes(x)
      BY <2>2 DEF ExecuteNext, Goes
    <3> QED BY <3>3, <3>4
  <2> QED BY <2>1, <2>2
<1>2. ExecuteNext(e) \in Seq(Op)
  <2>1. CASE ExecuteNext(e) = <<>>
    BY <2>1
  <2>2. CASE \E x \in Range(list) \ {e} : x \in Effect /\ ExecuteNext(e) = Goes(x)
    BY <2>2, GoesIs DEF Fresh
  <2> QED BY <1>1, <2>1, <2>2
<1> QED BY <1>1, <1>2, ConcatEmptySeq

LEMMA ExecuteStart ==
  ASSUME IInv, Execute
  PROVE  IInv'
<1> DEFINE x == Head(list)
           u == Goes(x)
<1>1. todo = <<>> /\ list # <<>> /\ todo' = u /\ UNCHANGED <<list, prio, on, made>>
  BY DEF Execute, Goes
<1>2. list \in Seq(Effect) /\ Inv(list, prio, on, todo, made) /\ Resting(prio, on, todo)
  BY <1>1, IdleIs DEF IInv, Inv, Types
<1>3. x = list[1] /\ 1 \in 1 .. Len(list)
  BY <1>1, <1>2, PopIs
<1>4. x \in Effect /\ x \in Range(list)
  BY <1>2, <1>3 DEF Range
<1> HIDE DEF x, u
<1>5. Fresh(list, made, u)
  BY <1>4, GoesIs DEF u
<1>6. \A r \in Range(todo) : r.op # "Readd"
  BY <1>1 DEF Range
<1>7. Inv(list, prio, on, u, made)
  BY <1>2, <1>5, <1>6, FreshIs DEF Resting, Fresh
<1> QED BY <1>1, <1>7 DEF IInv

LEMMA NextStep ==
  ASSUME IInv, todo # <<>>, todo[1].op \in {"Execute", "Next"},
         todo' = ExecuteNext(todo[1].e) \o Tail(todo), UNCHANGED <<list, prio, on, made>>
  PROVE  IInv'
<1> DEFINE e == todo[1].e
           u == ExecuteNext(e)
<1>1. /\ Tail(todo) = <<>> /\ (\A r \in Range(todo) : r.op # "Readd") /\ Resting(prio, on, todo)
      /\ e \in Range(list) /\ e \in Effect /\ Types(list, prio, on, todo, made) /\ Inv(list, prio, on, todo, made)
  BY LastIs
<1> HIDE DEF e
<1>2. u = <<>> \/ \E x \in Range(list) \ {e} : x \in Effect /\ u = Goes(x)
  BY <1>1, ExecuteNextIs
<1>3. todo' = u
  BY <1>1, ExecuteNextIs DEF e
<1> HIDE DEF u
<1>4. Fresh(list, made, u)
  BY <1>1, <1>2, GoesIs
<1>5. Inv(list, prio, on, u, made)
  BY <1>1, <1>4, FreshIs DEF Resting, Fresh
<1> QED BY <1>3, <1>5 DEF IInv

\* A dead effect is deleted.
LEMMA DeleteStep ==
  ASSUME IInv, todo # <<>>, todo[1].op = "Execute", prio[todo[1].e] = 0, list' = RemoveAt(list, Index(todo[1].e)),
         todo' = ExecuteNext(todo[1].e) \o Tail(todo), UNCHANGED <<prio, on, made>>
  PROVE  IInv'
<1> DEFINE e == todo[1].e
           u == ExecuteNext(e)
           k == Index(e)
           m == RemoveAt(list, k)
<1>1. /\ Tail(todo) = <<>> /\ (\A r \in Range(todo) : r.op # "Readd") /\ Resting(prio, on, todo)
      /\ e \in Range(list) /\ e \in Effect /\ Types(list, prio, on, todo, made) /\ Inv(list, prio, on, todo, made)
  BY LastIs
<1> HIDE DEF e
<1>2. u = <<>> \/ \E x \in Range(list) \ {e} : x \in Effect /\ u = Goes(x)
  BY <1>1, ExecuteNextIs
<1>3. todo' = u
  BY <1>1, ExecuteNextIs DEF e
<1>4. /\ list \in Seq(Effect) /\ Distinct(list) /\ Covered(list, prio, Range(todo)) /\ Sorted(list, prio, Range(todo), made)
      /\ Range(list) \subseteq 1 .. made /\ \A y \in Effect \ Range(list) : prio[y] = 0
  BY <1>1 DEF Inv, Types
<1>5. k \in 1 .. Len(list) /\ list[k] = e
  BY <1>1, PlaceIs
<1> HIDE DEF u, k
<1>6. Removed(Effect, list, k, m)
  BY <1>4, <1>5, RemoveIs
<1> HIDE DEF m
<1>7. /\ Distinct(m) /\ Range(m) = Range(list) \ {e}
      /\ \A i \in 1 .. Len(m) : \E j \in 1 .. Len(list) : m[i] = list[j] /\ (j = i \/ j = i + 1) /\ (j = i <=> i < k)
  BY <1>4, <1>5, <1>6, RemoveRange
<1>8. m \in Seq(Effect) /\ Len(m) \in Nat
  BY <1>6 DEF Removed
<1>9. Fresh(m, made, u)
  <2>1. CASE u = <<>>
    <3>1. <<>> \in Seq(Op) /\ Len(<<>>) = 0 /\ Range(<<>>) = {}
      BY DEF Range
    <3> QED BY <2>1, <3>1 DEF Fresh, Bottom, Calm
  <2>2. CASE \E x \in Range(list) \ {e} : x \in Effect /\ u = Goes(x)
    BY <1>7, <2>2, GoesIs
  <2> QED BY <1>2, <2>1, <2>2
<1>10. \A y \in Effect : ~(prio[y] < 0)
  BY <1>1, <1>4 DEF Covered, IsCovered, Covers
<1>11. Covered(m, prio, Range(u))
  BY <1>10 DEF Covered
<1>12. Sorted(m, prio, Range(u), made)
  <2> SUFFICES ASSUME NEW i \in 1 .. Len(m), NEW j \in 1 .. Len(m), i < j PROVE InOrder(prio, Range(u), made, m[i], m[j])
    BY DEF Sorted
  <2>1. PICK p \in 1 .. Len(list) : m[i] = list[p] /\ (p = i \/ p = i + 1) /\ (p = i <=> i < k)
    BY <1>7
  <2>2. PICK q \in 1 .. Len(list) : m[j] = list[q] /\ (q = j \/ q = j + 1) /\ (q = j <=> j < k)
    BY <1>7
  <2>3. p < q
    <3>1. i \in Nat /\ j \in Nat /\ k \in Nat /\ p \in Nat /\ q \in Nat
      BY <1>5, <1>8
    <3> QED BY <2>1, <2>2, <3>1
  <2>4. InOrder(prio, Range(todo), made, m[i], m[j])
    BY <1>4, <2>1, <2>2, <2>3 DEF Sorted
  <2>5. \A r \in Range(u) : Weightless(r)
    BY <1>9 DEF Fresh
  <2>6. ASSUME NEW y, NEW w, Weighs(prio, Range(u), made, y, w) PROVE Weighs(prio, Range(todo), made, y, w)
    <3>1. \A r \in Range(u) : ~Carries(made, r, y, w)
      BY <2>5 DEF Carries, Weightless
    <3> QED BY <2>6, <3>1 DEF Weighs
  <2> QED BY <2>4, <2>6 DEF InOrder
<1>13. Phase(m, prio, on, u)
  BY <1>1, <1>9 DEF Phase, Resting, Fresh
<1>14. Types(m, prio, on, u, made)
  <2>1. \A y \in Effect \ Range(m) : prio[y] = 0
    BY <1>4, <1>7 DEF e
  <2> QED BY <1>1, <1>4, <1>7, <1>8, <1>9, <2>1 DEF Types, Fresh
<1>15. Inv(m, prio, on, u, made)
  BY <1>9, <1>11, <1>12, <1>13, <1>14 DEF Inv, Fresh
<1>16. list' = m
  BY DEF m, k, e
<1> QED BY <1>3, <1>15, <1>16 DEF IInv

\* Its time has come.
LEMMA TimerStep ==
  ASSUME IInv, todo # <<>>, todo[1].op = "Execute", UNCHANGED <<list, prio, on, made>>,
         todo' = <<Call(todo[1].e, "Timer"), [op |-> "Result", e |-> todo[1].e], [op |-> "Next", e |-> todo[1].e]>> \o Tail(todo)
  PROVE  IInv'
<1> DEFINE e == todo[1].e
           c == Call(e, "Timer")
           r == [op |-> "Result", e |-> e]
           n == [op |-> "Next", e |-> e]
           u == <<c, r, n>>
<1>1. /\ Tail(todo) = <<>> /\ (\A q \in Range(todo) : q.op # "Readd") /\ Resting(prio, on, todo)
      /\ e \in Range(list) /\ e \in Effect /\ Types(list, prio, on, todo, made) /\ Inv(list, prio, on, todo, made)
      /\ made \in Int
  BY LastIs DEF Types
<1>2. /\ c \in Called /\ c.op = "Call" /\ c.fn = "Timer" /\ c.made = made /\ c.e = e
  BY <1>1, CallIs DEF Calls
<1>3. r \in Plain /\ r.op = "Result" /\ r.e = e /\ n \in Plain /\ n.op = "Next" /\ n.e = e
  BY <1>1 DEF Plain
<1>4. todo' = u \o <<>>
  BY <1>1
<1> HIDE DEF c, r, n, e
<1>5. u \in Seq(Op) /\ Len(u) = 3 /\ u[1] = c /\ u[2] = r /\ u[3] = n /\ Range(u) = {c, r, n}
  <2>1. c \in Op /\ r \in Op /\ n \in Op
    BY <1>2, <1>3 DEF Op
  <2> QED BY <2>1 DEF Range
<1> HIDE DEF u
<1>6. todo' = u
  BY <1>4, <1>5, ConcatEmptySeq
<1>7. Calm(u, 1) /\ Bottom(u)
  <2>1. ~Urgent(c) /\ ~Urgent(r) /\ ~Urgent(n)
    BY <1>2, <1>3 DEF Urgent, Hurry, Silent
  <2>2. \A i \in 1 .. 3 : i = 1 \/ i = 2 \/ i = 3
    OBVIOUS
  <2> QED BY <1>2, <1>3, <1>5, <2>1, <2>2 DEF Calm, Bottom
<1>8. \A q \in Range(u) : Good(list, made, q) /\ Weightless(q)
  BY <1>1, <1>2, <1>3, <1>5 DEF Good, Refers, ToldRight, Weightless, Starts, Stops
<1>9. Inv(list, prio, on, u, made)
  BY <1>1, <1>5, <1>7, <1>8, FreshIs DEF Resting
<1> QED BY <1>6, <1>9 DEF IInv

LEMMA ExecuteStep ==
  ASSUME IInv, todo # <<>>, todo[1].op = "Execute", ExecuteEffect(todo[1], Tail(todo)), UNCHANGED made
  PROVE  IInv'
BY DeleteStep, NextStep, TimerStep DEF ExecuteEffect

\* The effects before the place of a new one have a lower priority, those from there on
\* are dead or have a priority that is not lower.
LEMMA LowerIs ==
  ASSUME Types(list, prio, on, todo, made), NEW R, Sorted(list, prio, R, made), NEW p \in Nat \ {0}
  PROVE  /\ Place(p) \in 1 .. Len(list) + 1
         /\ \A i \in 1 .. Len(list) : /\ i < Place(p) => Abs(prio[list[i]]) < p
                                      /\ ~(i < Place(p)) => prio[list[i]] = 0 \/ Abs(prio[list[i]]) >= p
<1> DEFINE n == Len(list)
           A(i) == Abs(prio[list[i]])
           higher == {i \in 2 .. n : A(i) >= p}
           k == Place(p)
<1>1. /\ n \in Nat /\ \A i \in 1 .. n : prio[list[i]] \in Int
  BY DEF Types
<1>2. ASSUME NEW i \in 1 .. n PROVE A(i) \in Nat /\ (A(i) = 0 <=> prio[list[i]] = 0)
  BY <1>1 DEF Abs
<1>3. ASSUME NEW i \in 1 .. n, NEW j \in 1 .. n, i < j, A(i) >= p PROVE prio[list[j]] = 0 \/ A(j) >= p
  <2>1. InOrder(prio, R, made, list[i], list[j])
    BY <1>3 DEF Sorted
  <2>2. Weighs(prio, R, made, list[i], A(i)) /\ Weighs(prio, R, made, list[j], A(j))
    BY DEF Weighs
  <2> HIDE DEF A
  <2>3. A(i) \in Nat \ {0} /\ A(j) \in Nat
    BY <1>2, <1>3
  <2>4. A(j) # 0 => A(i) <= A(j)
    BY <2>1, <2>2, <2>3 DEF InOrder
  <2> QED BY <1>2, <1>3, <2>3, <2>4
<1>4. k = IF list = <<>> \/ A(1) >= p THEN 1 ELSE IF higher = {} THEN n + 1 ELSE Min(higher)
  BY DEF Place
<1>5. list = <<>> <=> n = 0
  BY DEF Types
<1> HIDE DEF A, n, k
<1>6. CASE list = <<>> \/ A(1) >= p
  <2>1. k = 1
    BY <1>4, <1>6
  <2>2. ASSUME NEW i \in 1 .. n PROVE prio[list[i]] = 0 \/ A(i) >= p
    <3>1. 1 \in 1 .. n /\ A(1) >= p
      BY <1>1, <1>5, <1>6
    <3>2. CASE i = 1
      BY <3>1, <3>2
    <3>3. CASE i # 1
      BY <1>1, <1>3, <3>1, <3>3
    <3> QED BY <3>2, <3>3
  <2>3. k \in 1 .. n + 1 /\ \A i \in 1 .. n : ~(i < k)
    BY <1>1, <2>1
  <2> QED BY <2>2, <2>3 DEF A, k, n
<1>7. CASE ~(list = <<>> \/ A(1) >= p)
  <2>1. 1 \in 1 .. n /\ A(1) < p
    BY <1>1, <1>2, <1>5, <1>7
  <2>2. CASE higher = {}
    <3>1. k = n + 1
      BY <1>4, <1>7, <2>2
    <3>2. ASSUME NEW i \in 1 .. n PROVE A(i) < p
      <4>1. CASE i = 1
        BY <2>1, <4>1
      <4>2. CASE i # 1
        <5>1. i \in 2 .. n /\ A(i) \in Nat
          BY <1>1, <1>2, <4>2
        <5>2. ~(A(i) >= p)
          BY <2>2, <5>1
        <5> QED BY <5>1, <5>2
      <4> QED BY <4>1, <4>2
    <3>3. k \in 1 .. n + 1 /\ \A i \in 1 .. n : i < k
      BY <1>1, <3>1
    <3> QED BY <3>2, <3>3 DEF A, k, n
  <2>3. CASE higher # {}
    <3>1. k = Min(higher)
      BY <1>4, <1>7, <2>3
    <3>2. higher \subseteq 2 .. n /\ higher \subseteq Nat
      OBVIOUS
    <3>3. k \in higher /\ \A i \in higher : k <= i
      <4> HIDE DEF higher
      <4>1. \E i \in higher : \A j \in higher : i <= j
        BY <2>3, <3>2, LeastNat
      <4> QED BY <3>1, <4>1 DEF Min
    <3>4. k \in 1 .. n /\ A(k) >= p
      BY <1>1, <3>3
    <3>5. ASSUME NEW i \in 1 .. n, i < k PROVE A(i) < p
      <4>1. CASE i = 1
        BY <2>1, <4>1
      <4>2. CASE i # 1
        <5>1. i \in 2 .. n /\ A(i) \in Nat
          BY <1>1, <1>2, <4>2
        <5>2. i \notin higher
          BY <3>3, <3>4, <3>5, <5>1
        <5>3. ~(A(i) >= p)
          BY <5>1, <5>2
        <5> QED BY <5>1, <5>3
      <4> QED BY <4>1, <4>2
    <3>6. ASSUME NEW i \in 1 .. n, ~(i < k) PROVE prio[list[i]] = 0 \/ A(i) >= p
      <4>1. CASE i = k
        BY <3>4, <4>1
      <4>2. CASE i # k
        <5>1. k < i
          BY <3>4, <3>6, <4>2
        <5> QED BY <1>3, <3>4, <5>1
      <4> QED BY <4>1, <4>2
    <3>7. k \in 1 .. n + 1
      BY <1>1, <3>4
    <3> QED BY <3>5, <3>6, <3>7 DEF A, k, n
  <2> QED BY <2>2, <2>3
<1> QED BY <1>6, <1>7

\* The list m has the effects of l in the same order.
Extends(l, m) ==
    /\ Range(l) \subseteq Range(m)
    /\ \A x, y \in Range(l) : /\ Pos(m, x) < Pos(m, y) <=> Pos(l, x) < Pos(l, y)
                              /\ Pos(m, x) <= Pos(m, y) <=> Pos(l, x) <= Pos(l, y)

LEMMA ExtendsIs ==
  ASSUME NEW l, NEW m, Extends(l, m), NEW n \in Nat, NEW P, NEW R, NEW T, R \subseteq T, R \subseteq Op,
         \A r \in R : Good(l, n, r), Covered(l, P, R), \A x \in Effect \ Range(l) : ~(P[x] < 0)
  PROVE  (\A r \in R : Good(m, n + 1, r)) /\ Covered(m, P, T)
<1>1. ASSUME NEW r \in R PROVE Good(m, n + 1, r)
  <2>1. Refers(m, r)
    BY DEF Extends, Good, Refers
  <2>2. r.op = "Call" => r.made \in Nat /\ r.made <= n
    <3>1. r \in Op /\ (r.op = "Call" => r.made <= n)
      BY DEF Good
    <3>2. r.op = "Call" => r \in Called
      BY <3>1 DEF Op, Plain, Readds, Checks, News
    <3> QED BY <3>1, <3>2 DEF Called
  <2>3. r.op = "Call" => r.made <= n + 1
    BY <2>2
  <2> QED BY <2>1, <2>3 DEF Good
<1>2. ASSUME NEW x \in Effect, P[x] < 0 PROVE IsCovered(m, T, x)
  <2>1. x \in Range(l)
    BY <1>2
  <2>2. PICK r \in R : Covers(l, r, x)
    BY <1>2 DEF Covered, IsCovered
  <2>3. r.e \in Range(l) /\ r.last \in Range(l)
    BY <2>2 DEF Good, Refers, Covers
  <2>4. Covers(m, r, x)
    BY <2>1, <2>2, <2>3 DEF Extends, Covers
  <2> QED BY <2>2, <2>4 DEF IsCovered
<1> QED BY <1>1, <1>2 DEF Covered

LEMMA AddEffectStep ==
  ASSUME IInv, Meddling \cap Silent = {}, NEW p \in Priority, AddEffect(p)
  PROVE  IInv'
<1> DEFINE n == made + 1
           k == Place(p)
           m == InsertAt(list, k, n)
           c == [op |-> "Check", e |-> n, at |-> n, p |-> p, add |-> None, calls |-> FALSE]
           w == [op |-> "New", e |-> n, p |-> p]
           a == (IF p = 1 THEN <<>> ELSE <<c>>) \o <<w>>
           h == Len(a)
<1>1. /\ ScriptRuns /\ made < MaxEffect /\ made' = n /\ list' = m /\ todo' = a \o todo
      /\ UNCHANGED <<prio, on>>
  BY DEF AddEffect
<1>2. /\ Types(list, prio, on, todo, made) /\ Sorted(list, prio, Range(todo), made)
      /\ Covered(list, prio, Range(todo)) /\ Bottom(todo) /\ \A r \in Range(todo) : Good(list, made, r)
      /\ list \in Seq(Effect) /\ Distinct(list) /\ Range(list) \subseteq 1 .. made
      /\ prio \in [Effect -> Int] /\ on \in [Effect -> BOOLEAN] /\ made \in 0 .. MaxEffect
      /\ todo \in Seq(Op) /\ \A y \in Effect \ Range(list) : prio[y] = 0
  BY DEF IInv, Inv, Types
<1>3. Calm(todo, 1) /\ Exact(prio, on, {}) /\ (todo # <<>> => todo[1].op # "Execute")
  BY <1>1, ScriptIs DEF Resting
<1>4. p \in Nat \ {0}
  BY PriorityAssumption
<1>5. n \in Effect /\ made \in Nat /\ n \notin Range(list)
  <2>1. made \in Nat /\ MaxEffect \in Nat
    BY <1>2, BoundAssumption
  <2> QED BY <1>1, <1>2, <2>1 DEF Effect
<1>6. k \in 1 .. Len(list) + 1
  BY <1>2, <1>4, LowerIs
<1>7. \A i \in 1 .. Len(list) : /\ i < k => Abs(prio[list[i]]) < p
                                /\ ~(i < k) => prio[list[i]] = 0 \/ Abs(prio[list[i]]) >= p
  BY <1>2, <1>4, LowerIs
<1> HIDE DEF n, k
<1>8. /\ m \in Seq(Effect) /\ Distinct(m) /\ Range(m) = Range(list) \cup {n}
      /\ \A x, y \in Range(list) : Pos(m, x) < Pos(m, y) <=> Pos(list, x) < Pos(list, y)
      /\ \A x, y \in Range(list) : Pos(m, x) <= Pos(m, y) <=> Pos(list, x) <= Pos(list, y)
      /\ \A x \in Range(list) : /\ Pos(m, x) < Pos(m, n) <=> Pos(list, x) < k
                                /\ Pos(m, n) < Pos(m, x) <=> Pos(list, x) >= k
  BY <1>2, <1>5, <1>6, InsertPos
<1> HIDE DEF m
<1>9. c \in Checks /\ c.op = "Check" /\ c.e = n /\ c.at = n /\ c.add = None /\ w \in News /\ w.op = "New" /\ w.e = n /\ w.p = p
  BY <1>5 DEF Checks, News
<1> HIDE DEF c, w
<1>10. /\ a \in Seq(Op) /\ h \in {1, 2} /\ a[h] = w /\ (h = 2 => a[1] = c)
       /\ Range(a) \subseteq {c, w} /\ w \in Range(a)
  <2>1. c \in Op /\ w \in Op
    BY <1>9 DEF Op
  <2>2. CASE p = 1
    <3>1. <<w>> \in Seq(Op)
      BY <2>1
    <3>2. a = <<w>>
      BY <2>2, <3>1, ConcatEmptySeq
    <3> QED BY <2>1, <3>2 DEF Range
  <2>3. CASE p # 1
    <3> DEFINE o == <<c>>
               f == <<w>>
    <3>1. /\ o \in Seq(Op) /\ Len(o) = 1 /\ o[1] = c /\ Range(o) = {c}
          /\ f \in Seq(Op) /\ Len(f) = 1 /\ f[1] = w /\ Range(f) = {w}
      <4>1. o \in Seq(Op) /\ Len(o) = 1 /\ o[1] = c /\ Range(o) = {c}
        BY <2>1 DEF Range
      <4>2. f \in Seq(Op) /\ Len(f) = 1 /\ f[1] = w /\ Range(f) = {w}
        BY <2>1 DEF Range
      <4> QED BY <4>1, <4>2
    <3>2. a = o \o f
      BY <2>3
    <3> HIDE DEF o, f, a
    <3>3. Pushed(Op, o, f, a)
      BY <3>1, <3>2, PushIs
    <3>4. a \in Seq(Op) /\ Len(a) = 2 /\ Range(a) = {c, w} /\ a[1] = c
      BY <3>1, <3>3 DEF Pushed
    <3>5. 2 \in 1 + 1 .. 1 + 1 /\ 2 - 1 = 1
      OBVIOUS
    <3>6. a[2] = w
      BY <3>1, <3>3, <3>5 DEF Pushed
    <3> QED BY <3>4, <3>6
  <2> QED BY <2>2, <2>3
<1> HIDE DEF a, h
<1>11. PICK u : u = a \o todo
  OBVIOUS
<1>12. Pushed(Op, a, todo, u)
  BY <1>2, <1>10, <1>11, PushIs
<1>13. /\ u \in Seq(Op) /\ Len(u) = h + Len(todo) /\ Range(u) = Range(a) \cup Range(todo)
       /\ \A i \in 1 .. h : u[i] = a[i]
  BY <1>12 DEF Pushed, h
<1>14. Extends(list, m)
  BY <1>8 DEF Extends
<1>15. (\A r \in Range(todo) : Good(m, n, r)) /\ Covered(m, prio, Range(u))
  <2>1. \A y \in Effect \ Range(list) : ~(prio[y] < 0)
    BY <1>2
  <2>2. Range(todo) \subseteq Op
    BY <1>2 DEF Range
  <2>3. Range(todo) \subseteq Range(u)
    BY <1>13
  <2>4. (\A r \in Range(todo) : Good(m, made + 1, r)) /\ Covered(m, prio, Range(u))
    BY <1>2, <1>5, <1>14, <2>1, <2>2, <2>3, ExtendsIs
  <2> QED BY <2>4 DEF n
<1>16. \A r \in Range(u) : Good(m, n, r)
  <2>1. Good(m, n, c) /\ Good(m, n, w)
    BY <1>8, <1>9 DEF Good, Refers, ToldRight
  <2> QED BY <1>10, <1>13, <1>15, <2>1
<1>17. Bottom(u)
  <2>1. \A i \in 1 .. Len(todo) : todo[i].op # "Execute"
    BY <1>2, <1>3, NoExecute
  <2>2. \A i \in 1 .. Len(a) : a[i].op \notin {"Execute", "Next", "Clear"}
    <3>1. \A i \in 1 .. Len(a) : a[i] \in {c, w}
      BY <1>10 DEF Range
    <3> QED BY <1>9, <3>1
  <2> QED BY <1>2, <1>10, <1>12, <2>1, <2>2, BottomPush
<1>18. prio[n] = 0
  BY <1>2, <1>5
<1>19. Phase(m, prio, on, u)
  <2>1. a[h] = w /\ Calm(a, h + 1) /\ h + 1 \in Nat \ {0}
    BY <1>10 DEF Calm, h
  <2>2. Calm(u, h + 1)
    BY <1>2, <1>3, <1>10, <1>12, <2>1, CalmPush
  <2>3. Len(todo) \in Nat
    BY <1>2
  <2>4. CASE h = 1
    <3>1. 1 \in 1 .. Len(u) /\ u[1] = w
      BY <1>10, <1>13, <2>3, <2>4
    <3>2. Calm(u, 2)
      BY <2>2, <2>4
    <3>3. Placing(prio, on, u)
      BY <1>3, <1>9, <1>18, <3>1, <3>2 DEF Placing
    <3> QED BY <3>3 DEF Phase
  <2>5. CASE h = 2
    <3>1. 1 + 1 \in 1 .. Len(u) /\ u[1] = c /\ u[1 + 1] = w
      BY <1>10, <1>13, <2>3, <2>5
    <3>2. Calm(u, 1 + 2)
      BY <2>2, <2>5
    <3>3. Asking(prio, on, u, 1)
      BY <1>3, <1>9, <1>18, <3>1, <3>2 DEF Asking
    <3> QED BY <3>3 DEF Phase
  <2> QED BY <1>10, <2>4, <2>5
\* What the effects weigh now.
<1>20. ASSUME NEW r \in Range(u), NEW y, NEW v, Carries(n, r, y, v) PROVE r = w /\ y = n /\ v = p
  <2>1. CASE r \in Range(todo)
    <3>1. ~Urgent(r)
      <4>1. PICK i \in 1 .. Len(todo) : todo[i] = r
        BY <1>2, <2>1 DEF Range
      <4> QED BY <1>3, <4>1 DEF Calm
    <3>2. r.op \notin {"New", "Start"}
      BY <3>1 DEF Urgent, Hurry
    <3>3. r.op = "Call" => r.made \in Nat /\ r.made <= made
      <4>1. r \in Op /\ (r.op = "Call" => r.made <= made)
        BY <1>2, <2>1 DEF Good, Range
      <4>2. r.op = "Call" => r \in Called
        BY <4>1 DEF Op, Plain, Readds, Checks, News
      <4> QED BY <4>1, <4>2 DEF Called
    <3>4. r.op = "Call" => r.made # n
      BY <1>5, <3>3 DEF n
    <3> QED BY <1>20, <3>2, <3>4 DEF Carries
  <2>2. CASE r = c
    BY <1>9, <1>20, <2>2 DEF Carries
  <2>3. CASE r = w
    BY <1>9, <1>20, <2>3 DEF Carries
  <2> QED BY <1>10, <1>13, <2>1, <2>2, <2>3
<1>21. ASSUME NEW y \in Range(list), NEW v \in Nat \ {0}, Weighs(prio, Range(u), n, y, v)
       PROVE  v = Abs(prio[y])
  BY <1>5, <1>20, <1>21 DEF Weighs
<1>22. ASSUME NEW v \in Nat \ {0}, Weighs(prio, Range(u), n, n, v) PROVE v = p
  <2>1. Abs(0) = 0
    BY DEF Abs
  <2> QED BY <1>18, <1>20, <1>22, <2>1 DEF Weighs
<1>23. Sorted(m, prio, Range(u), n)
  <2> SUFFICES ASSUME NEW i \in 1 .. Len(m), NEW j \in 1 .. Len(m), i < j,
                      NEW v \in Nat \ {0}, NEW q \in Nat \ {0},
                      Weighs(prio, Range(u), n, m[i], v), Weighs(prio, Range(u), n, m[j], q)
               PROVE  v <= q
    BY DEF Sorted, InOrder
  <2> DEFINE x == m[i]
             y == m[j]
  <2>1. Pos(m, x) = i /\ Pos(m, y) = j /\ x \in Range(list) \cup {n} /\ y \in Range(list) \cup {n}
    <3>1. x \in Range(m) /\ y \in Range(m)
      BY <1>8 DEF Range
    <3> QED BY <1>8, <3>1, PosIs
  <2>2. /\ \A z \in Range(list) : Pos(list, z) \in 1 .. Len(list) /\ list[Pos(list, z)] = z /\ prio[z] \in Int
        /\ i \in Nat /\ j \in Nat
    <3>1. \A z \in Range(list) : z \in Effect
      BY <1>2 DEF Range
    <3> QED BY <1>2, <1>8, <3>1, PosIs
  <2> HIDE DEF x, y
  <2>3. Weighs(prio, Range(u), n, x, v) /\ Weighs(prio, Range(u), n, y, q)
    BY DEF x, y
  <2>4. CASE x \in Range(list) /\ y \in Range(list)
    <3>1. v = Abs(prio[x]) /\ q = Abs(prio[y])
      BY <1>21, <2>3, <2>4
    <3>2. Pos(list, x) < Pos(list, y)
      BY <1>8, <2>1, <2>4
    <3>3. InOrder(prio, Range(todo), made, x, y)
      <4> DEFINE f == Pos(list, x)
                 g == Pos(list, y)
      <4>1. f \in 1 .. Len(list) /\ g \in 1 .. Len(list) /\ list[f] = x /\ list[g] = y /\ f < g
        BY <2>2, <2>4, <3>2
      <4> HIDE DEF f, g
      <4> QED BY <1>2, <4>1 DEF Sorted
    <3>4. Weighs(prio, Range(todo), made, x, v) /\ Weighs(prio, Range(todo), made, y, q)
      BY <3>1 DEF Weighs
    <3> QED BY <3>3, <3>4 DEF InOrder
  <2>5. CASE x \in Range(list) /\ y = n
    <3>1. v = Abs(prio[x]) /\ q = p
      BY <1>21, <1>22, <2>3, <2>5
    <3>2. Pos(list, x) < k
      BY <1>8, <2>1, <2>5
    <3>3. Abs(prio[x]) < p
      BY <1>7, <2>2, <2>5, <3>2
    <3> QED BY <3>1, <3>3
  <2>6. CASE x = n /\ y \in Range(list)
    <3>1. v = p /\ q = Abs(prio[y])
      BY <1>21, <1>22, <2>3, <2>6
    <3>2. ~(Pos(list, y) < k)
      <4>1. Pos(list, y) >= k /\ k \in Int /\ Pos(list, y) \in Int
        BY <1>6, <1>8, <2>1, <2>2, <2>6
      <4> QED BY <4>1
    <3>3. prio[y] = 0 \/ Abs(prio[y]) >= p
      BY <1>7, <2>2, <2>6, <3>2
    <3>4. prio[y] # 0
      BY <3>1 DEF Abs
    <3> QED BY <3>1, <3>3, <3>4
  <2>7. CASE x = n /\ y = n
    BY <2>1, <2>2, <2>7
  <2> QED BY <2>1, <2>4, <2>5, <2>6, <2>7
<1>24. Types(m, prio, on, u, n)
  <2>1. Range(m) \subseteq 1 .. n /\ n \in 0 .. MaxEffect
    BY <1>1, <1>2, <1>5, <1>8 DEF n, Effect
  <2> QED BY <1>2, <1>8, <1>13, <2>1 DEF Types
<1>25. Inv(m, prio, on, u, n)
  BY <1>15, <1>16, <1>17, <1>19, <1>23, <1>24 DEF Inv
<1> QED BY <1>1, <1>11, <1>25 DEF IInv

-----------------------------------------------------------------------------
(* The invariant.                                                          *)

LEMMA InitIs ==
  ASSUME Init
  PROVE  IInv
<1>1. list = <<>> /\ prio = [e \in Effect |-> 0] /\ on = [e \in Effect |-> FALSE] /\ todo = <<>> /\ made = 0
  BY DEF Init
<1>2. Len(<<>>) = 0 /\ Range(<<>>) = {} /\ 1 .. 0 = {}
  BY DEF Range
<1>3. Types(list, prio, on, todo, made)
  <2>1. <<>> \in Seq(Effect) /\ <<>> \in Seq(Op) /\ Distinct(<<>>)
    BY <1>2 DEF Distinct
  <2>2. 0 \in 0 .. MaxEffect
    BY BoundAssumption
  <2> QED BY <1>1, <1>2, <2>1, <2>2 DEF Types
<1>4. \A e \in Effect : ~(prio[e] < 0) /\ ~(prio[e] > 0) /\ on[e] = FALSE
  BY <1>1
<1>5. Covered(list, prio, Range(todo)) /\ Sorted(list, prio, Range(todo), made) /\ Bottom(todo)
  BY <1>1, <1>2, <1>4 DEF Covered, Sorted, Bottom
<1>6. Resting(prio, on, todo)
  BY <1>1, <1>2, <1>4 DEF Resting, Calm, Exact
<1>7. \A r \in Range(todo) : Good(list, made, r)
  BY <1>1, <1>2
<1> QED BY <1>3, <1>5, <1>6, <1>7 DEF IInv, Inv, Phase

LEMMA StepIs ==
  ASSUME IInv, Step
  PROVE  IInv'
<1> DEFINE s == Head(todo)
           rest == Tail(todo)
<1>1. todo # <<>> /\ UNCHANGED made
  BY DEF Step
<1>2. s = todo[1]
  BY <1>1, HeadIs
<1>3. CASE s.op = "Execute" /\ ExecuteEffect(s, rest)
  <2>1. ExecuteEffect(todo[1], rest)
    BY <1>2, <1>3 DEF ExecuteEffect
  <2> QED BY <1>1, <1>2, <1>3, <2>1, ExecuteStep
<1>4. CASE s.op = "Next" /\ todo' = ExecuteNext(s.e) \o rest /\ UNCHANGED <<list, prio, on>>
  BY <1>1, <1>2, <1>4, NextStep
<1>5. CASE s.op = "Check" /\ Check(s, rest)
  <2>1. Check(todo[1], rest)
    BY <1>2, <1>5 DEF Check
  <2> QED BY <1>1, <1>2, <1>5, <2>1, CheckStep
<1>6. CASE s.op = "New" /\ New(s, rest)
  <2>1. New(todo[1], rest)
    BY <1>2, <1>6 DEF New
  <2> QED BY <1>1, <1>2, <1>6, <2>1, NewStep
<1>7. CASE s.op = "Start" /\ Start(s, rest)
  <2>1. Start(todo[1], rest)
    BY <1>2, <1>7 DEF Start, Tell
  <2> QED BY <1>1, <1>2, <1>7, <2>1, StartStep
<1>8. CASE s.op = "Add" /\ Add(s, rest)
  <2>1. Add(todo[1], rest)
    BY <1>2, <1>8 DEF Add
  <2> QED BY <1>1, <1>2, <1>8, <2>1, AddStep
<1>9. CASE s.op = "Result" /\ Result(s, rest)
  <2>1. Result(todo[1], rest)
    BY <1>2, <1>9 DEF Result
  <2> QED BY <1>1, <1>2, <1>9, <2>1, ResultStep
<1>10. CASE s.op = "TempRemove" /\ TempRemove(s, rest)
  <2>1. TempRemove(todo[1], rest)
    BY <1>2, <1>10 DEF TempRemove, Tell
  <2> QED BY <1>1, <1>2, <1>10, <2>1, TempRemoveStep
<1>11. CASE s.op = "Readd" /\ Readd(s, rest)
  <2>1. Readd(todo[1], rest)
    BY <1>2, <1>11 DEF Readd, Tell
  <2> QED BY <1>1, <1>2, <1>11, <2>1, ReaddStep
<1>12. CASE s.op = "Reactivate" /\ Reactivate(s, rest)
  <2>1. Reactivate(todo[1], rest)
    BY <1>2, <1>12 DEF Reactivate, Tell
  <2> QED BY <1>1, <1>2, <1>12, <2>1, ReactivateStep
<1>13. CASE s.op = "SetDead" /\ SetDead(s, rest, "Stop")
  <2>1. SetDead(todo[1], rest, "Stop")
    BY <1>2, <1>13 DEF SetDead, Tell
  <2> QED BY <1>1, <1>2, <1>13, <2>1, DeadStep
<1>14. CASE s.op = "Clear" /\ Clear(s, rest)
  <2>1. Clear(todo[1], rest)
    BY <1>2, <1>14 DEF Clear, SetDead, Tell
  <2> QED BY <1>1, <1>2, <1>14, <2>1, ClearStep
<1> QED BY <1>1, <1>3, <1>4, <1>5, <1>6, <1>7, <1>8, <1>9, <1>10, <1>11, <1>12, <1>13, <1>14 DEF Step

LEMMA NextIs ==
  ASSUME IInv, Meddling \cap Silent = {}, ~Stubborn, [Next]_vars
  PROVE  IInv'
<1>1. CASE \E p \in Priority : AddEffect(p)
  BY <1>1, AddEffectStep
<1>2. CASE \E e \in Effect : RemoveEffect(e) \/ RemoveSilently(e)
  BY <1>2, RemoveStep, SilentStep
<1>3. CASE ClearAll
  BY <1>3, ClearAllStep
<1>4. CASE Execute
  BY <1>4, ExecuteStart
<1>5. CASE Step
  BY <1>5, StepIs
<1>6. CASE Return
  BY <1>6, ReturnStep
<1>7. CASE UNCHANGED vars
  BY <1>7 DEF vars, IInv
<1> QED BY <1>1, <1>2, <1>3, <1>4, <1>5, <1>6, <1>7 DEF Next

\* The callbacks in Silent leave the list alone, and no effect refuses to be removed
\* while it is stopped.
LEMMA Invariance ==
  ASSUME Meddling \cap Silent = {}, ~Stubborn
  PROVE  Spec => []IInv
<1>1. Init => IInv
  BY InitIs
<1>2. IInv /\ [Next]_vars => IInv'
  BY NextIs
<1> QED BY <1>1, <1>2, PTL DEF Spec

-----------------------------------------------------------------------------
\* Effects are told Start and Stop in turn, the temporary ones included, if no script
\* adds or removes effects when it is stopped temporarily, asked about a new effect or
\* started for its removal (C4Effect::Kill, TempReaddUpperEffects).
THEOREM BalancedHolds ==
  ASSUME Meddling \cap Silent = {}, ~Stubborn
  PROVE  Spec => []Balanced
<1>1. IInv => Balanced
  <2> SUFFICES ASSUME IInv PROVE Balanced
    OBVIOUS
  <2>1. \A i \in DOMAIN todo : ToldRight(todo[i])
    BY DEF IInv, Inv, Good, Range
  <2> QED BY <2>1 DEF Balanced, Told, ToldRight
<1>2. Spec => []IInv
  BY Invariance
<1> QED BY <1>1, <1>2, PTL

\* An effect starts, or an active one ends, only when those above it are stopped
\* (C4Effect::TempRemoveUpperEffects), under the same assumption.
THEOREM LayeredHolds ==
  ASSUME Meddling \cap Silent = {}, ~Stubborn
  PROVE  Spec => []Layered
<1>1. IInv => Layered
  <2> SUFFICES ASSUME IInv PROVE Layered
    OBVIOUS
  <2>1. \A i \in DOMAIN todo : ToldRight(todo[i])
    BY DEF IInv, Inv, Good, Range
  <2> QED BY <2>1 DEF Layered, Told, ToldRight
<1>2. Spec => []IInv
  BY Invariance
<1> QED BY <1>1, <1>2, PTL

\* When all callbacks have returned, exactly the active effects are started, none is
\* left stopped, and the list is sorted, under the same assumption.
THEOREM RestoredHolds ==
  ASSUME Meddling \cap Silent = {}, ~Stubborn
  PROVE  Spec => []Restored
<1>1. ASSUME IInv PROVE Restored
  <2> SUFFICES ASSUME todo = <<>> PROVE Restored
    BY DEF Restored
  <2> DEFINE live == {i \in DOMAIN list : prio[list[i]] # 0}
  <2>1. /\ list \in Seq(Effect) /\ Distinct(list) /\ prio \in [Effect -> Int] /\ on \in [Effect -> BOOLEAN]
        /\ Covered(list, prio, {}) /\ Sorted(list, prio, {}, made) /\ \A y \in Effect \ Range(list) : prio[y] = 0
    <3>1. Range(<<>>) = {}
      BY DEF Range
    <3> QED BY <1>1, <3>1 DEF IInv, Inv, Types
  <2>2. Exact(prio, on, {})
    BY <1>1, IdleIs DEF IInv, Inv, Resting
  <2>3. \A y \in Effect : ~(prio[y] < 0)
    BY <2>1 DEF Covered, IsCovered
  <2>4. DOMAIN list = 1 .. Len(list) /\ Len(list) \in Nat /\ \A i \in 1 .. Len(list) : list[i] \in Effect /\ prio[list[i]] \in Int
    BY <2>1
  <2>5. ASSUME NEW i \in live PROVE prio[list[i]] > 0
    BY <2>3, <2>4
  <2>6. ASSUME NEW e \in Effect PROVE on[e] <=> \E i \in live : list[i] = e
    <3>1. ASSUME on[e] PROVE \E i \in live : list[i] = e
      <4>1. prio[e] > 0
        BY <2>2, <3>1 DEF Exact
      <4>2. prio[e] # 0
        BY <2>1, <4>1
      <4>3. PICK i \in DOMAIN list : list[i] = e
        BY <2>1, <4>2 DEF Range
      <4> QED BY <4>2, <4>3
    <3>2. ASSUME NEW i \in live, list[i] = e PROVE on[e]
      <4>1. prio[e] > 0
        BY <2>5, <3>2
      <4> QED BY <2>2, <4>1 DEF Exact
    <3> QED BY <3>1, <3>2
  <2>7. ASSUME NEW i \in live, NEW j \in live, i < j PROVE prio[list[i]] <= prio[list[j]] /\ list[i] # list[j]
    <3>1. i \in 1 .. Len(list) /\ j \in 1 .. Len(list)
      BY <2>4
    <3>2. InOrder(prio, {}, made, list[i], list[j])
      BY <2>1, <2>7, <3>1 DEF Sorted
    <3> DEFINE v == prio[list[i]]
               w == prio[list[j]]
    <3>3. v \in Nat \ {0} /\ w \in Nat \ {0}
      BY <2>4, <2>5, <3>1
    <3>4. Abs(v) = v /\ Abs(w) = w
      BY <3>3 DEF Abs
    <3>5. Weighs(prio, {}, made, list[i], v) /\ Weighs(prio, {}, made, list[j], w)
      BY <3>4 DEF Weighs
    <3> HIDE DEF v, w
    <3>6. v <= w
      BY <3>2, <3>3, <3>5 DEF InOrder
    <3>7. list[i] # list[j]
      BY <2>1, <2>7, <3>1 DEF Distinct
    <3> QED BY <3>6, <3>7 DEF v, w
  <2> QED BY <2>5, <2>6, <2>7 DEF Restored
<1>2. Spec => []IInv
  BY Invariance
<1> QED BY <1>1, <1>2, PTL
=============================================================================
