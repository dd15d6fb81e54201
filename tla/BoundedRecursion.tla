-------------------------- MODULE BoundedRecursion --------------------------
(***************************************************************************)
(* Induction up to a limit, for sets of numbers, and that a loop with a    *)
(* fixed number of steps is a well defined recursive function.             *)
(***************************************************************************)
EXTENDS Integers, FiniteSetTheorems, WellFoundedInduction, TLAPS

\* Every set of natural numbers has a least element.
LEMMA LeastNat ==
  ASSUME NEW T, T \subseteq Nat, T # {}
  PROVE  \E n \in T : \A m \in T : n <= m
<1> DEFINE U == {0 .. n : n \in T}
<1>1. U \subseteq FiniteSubsetsOf(Nat)
  <2> SUFFICES ASSUME NEW n \in T PROVE 0 .. n \in FiniteSubsetsOf(Nat)
    OBVIOUS
  <2>1. n \in Int /\ 0 .. n \subseteq Nat
    OBVIOUS
  <2>2. IsFiniteSet(0 .. n)
    BY <2>1, FS_Interval
  <2> QED BY <2>1, <2>2 DEF FiniteSubsetsOf
<1>2. U # {}
  OBVIOUS
<1>3. PICK u \in U : \A v \in U : <<v, u>> \notin StrictSubsetOrdering(Nat)
  <2> HIDE DEF U
  <2> QED BY <1>1, <1>2, WFMin, FS_StrictSubsetOrderingWellFounded
<1>4. PICK n \in T : u = 0 .. n
  OBVIOUS
<1>5. ASSUME NEW m \in T, ~(n <= m) PROVE FALSE
  <2>1. n \in Nat /\ m \in Nat /\ m < n
    BY <1>5
  <2>2. 0 .. m \subseteq Nat /\ 0 .. n \subseteq Nat /\ 0 .. m \subseteq 0 .. n /\ n \in 0 .. n /\ n \notin 0 .. m
    BY <2>1
  <2>3. <<0 .. m, 0 .. n>> \in StrictSubsetOrdering(Nat)
    BY <2>2 DEF StrictSubsetOrdering
  <2> QED BY <1>3, <1>4, <2>3
<1> QED BY <1>5

\* A set of numbers that contains 0, and with a number below the limit the next
\* one, contains all numbers up to the limit.
LEMMA Induction ==
  ASSUME NEW limit \in Nat, NEW T, 0 \in T, \A k \in 1 .. limit : k - 1 \in T => k \in T
  PROVE  0 .. limit \subseteq T
<1> DEFINE Missing == 0 .. limit \ T
<1>1. SUFFICES ASSUME Missing # {} PROVE FALSE
  OBVIOUS
<1>2. Missing \subseteq Nat
  OBVIOUS
<1>3. PICK k \in Missing : \A m \in Missing : k <= m
  <2> HIDE DEF Missing
  <2> QED BY <1>1, <1>2, LeastNat
<1>4. k \in 1 .. limit /\ k \notin T /\ k - 1 \in 0 .. limit /\ ~(k <= k - 1)
  OBVIOUS
<1>5. k - 1 \in T
  BY <1>3, <1>4
<1> QED BY <1>4, <1>5

\* The states f[0], f[1], ... of a loop that starts in start and takes the k-th
\* step of G from a state of D.
Loop(f, D, start, limit, G) == /\ f \in [0 .. limit -> D]
                               /\ f[0] = start
                               /\ \A k \in 1 .. limit : f[k] = G[<<f[k - 1], k>>]

\* There are such states.
LEMMA Recursion ==
  ASSUME NEW D, NEW start \in D, NEW limit \in Nat, NEW G \in [D \X (1 .. limit) -> D]
  PROVE  \E f : Loop(f, D, start, limit, G)
<1> DEFINE T == {n \in 0 .. limit : \E f : Loop(f, D, start, n, G)}
<1>1. 0 \in T
  <2> DEFINE g == [k \in 0 .. 0 |-> start]
  <2>1. g \in [0 .. 0 -> D] /\ g[0] = start /\ 1 .. 0 = {}
    OBVIOUS
  <2> HIDE DEF g
  <2>2. Loop(g, D, start, 0, G)
    BY <2>1 DEF Loop
  <2> QED BY <2>2
<1>2. ASSUME NEW n \in 1 .. limit, n - 1 \in T PROVE n \in T
  <2>1. PICK f : Loop(f, D, start, n - 1, G)
    BY <1>2
  <2>2. f \in [0 .. n - 1 -> D] /\ f[0] = start /\ \A k \in 1 .. n - 1 : f[k] = G[<<f[k - 1], k>>]
    BY <2>1 DEF Loop
  <2> DEFINE g == [k \in 0 .. n |-> IF k = n THEN G[<<f[n - 1], n>>] ELSE f[k]]
  <2>3. n - 1 \in 0 .. n - 1 /\ f[n - 1] \in D /\ G[<<f[n - 1], n>>] \in D
    BY <2>2
  <2>4. g \in [0 .. n -> D]
    BY <2>2, <2>3
  <2>5. g[0] = start
    BY <2>2
  <2>6. ASSUME NEW k \in 1 .. n PROVE g[k] = G[<<g[k - 1], k>>]
    <3>1. k - 1 \in 0 .. n /\ k - 1 # n /\ g[k - 1] = f[k - 1]
      OBVIOUS
    <3>2. CASE k = n
      <4>1. g[k] = G[<<f[k - 1], k>>]
        BY <3>2
      <4> HIDE DEF g
      <4> QED BY <3>1, <4>1
    <3>3. CASE k # n
      <4>1. k \in 1 .. n - 1 /\ g[k] = f[k]
        BY <3>3
      <4> HIDE DEF g
      <4> QED BY <2>2, <3>1, <4>1
    <3> QED BY <3>2, <3>3
  <2> HIDE DEF g
  <2>7. Loop(g, D, start, n, G)
    BY <2>4, <2>5, <2>6 DEF Loop
  <2> QED BY <2>7
<1>3. 0 .. limit \subseteq T
  <2> HIDE DEF T
  <2> QED BY <1>1, <1>2, Induction
<1> QED BY <1>3
=============================================================================
