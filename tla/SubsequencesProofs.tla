------------------------- MODULE SubsequencesProofs -------------------------
(* What the operators of Subsequences return, for any list and positions.  *)
EXTENDS Subsequences, FiniteSetTheorems, WellFoundedInduction, TLAPS

(* A set of numbers that is not empty has a least member.                  *)
LEMMA LeastMember ==
    ASSUME NEW T \in SUBSET Nat, T # {}
    PROVE  \E m \in T : \A n \in T : m <= n
<1> DEFINE R == OpToRel(<, Nat)
<1>1. IsWellFoundedOn(R, Nat)
  BY NatLessThanWellFounded
<1>2. PICK m \in T : \A n \in T : ~ <<n, m>> \in R
  BY <1>1, WFMin
<1>3. \A n \in T : ~(n < m)
  BY <1>2 DEF OpToRel
<1> QED
  BY <1>3

(* The ranks of the members of a finite set are different numbers below    *)
(* their number, in the order of the members.                              *)
LEMMA RanksAreDistinct ==
    ASSUME NEW S \in SUBSET Nat, IsFiniteSet(S)
    PROVE  /\ Cardinality(S) \in Nat
           /\ \A i \in S : Rank(S, i) \in 0..(Cardinality(S) - 1)
           /\ \A i, j \in S : i < j => Rank(S, i) < Rank(S, j)
           /\ \A i, j \in S : Rank(S, i) = Rank(S, j) => i = j
<1> DEFINE Below(i) == {k \in S : k < i}
<1>1. \A i \in S : IsFiniteSet(Below(i)) /\ Cardinality(Below(i)) \in Nat
  BY FS_Subset, FS_CardinalityType
<1>2. ASSUME NEW i \in S, NEW T \in SUBSET S, Below(i) \cup {i} \subseteq T
      PROVE  Cardinality(Below(i)) < Cardinality(T)
  <2>1. /\ IsFiniteSet(Below(i) \cup {i})
        /\ Cardinality(Below(i) \cup {i}) = Cardinality(Below(i)) + 1
    <3>1. i \notin Below(i)
      OBVIOUS
    <3> QED
      BY <1>1, <3>1, FS_AddElement
  <2>2. IsFiniteSet(T) /\ Cardinality(T) \in Nat
    BY FS_Subset, FS_CardinalityType
  <2>3. Cardinality(Below(i) \cup {i}) <= Cardinality(T)
    BY <1>2, <2>2, FS_Subset
  <2> QED
    BY <1>1, <2>1, <2>2, <2>3
<1>3. \A i \in S : Cardinality(Below(i)) < Cardinality(S)
  BY <1>2
<1>4. ASSUME NEW i \in S, NEW j \in S, i < j
      PROVE  Cardinality(Below(i)) < Cardinality(Below(j))
  <2>1. ASSUME NEW k \in Below(i) \cup {i} PROVE k \in Below(j)
    <3>1. k \in S /\ k \in Nat /\ i \in Nat /\ j \in Nat /\ k <= i
      OBVIOUS
    <3> QED
      BY <1>4, <3>1
  <2> QED
    BY <1>2, <2>1
<1>5. Cardinality(S) \in Nat
  BY FS_CardinalityType
<1>6. \A i \in S : Rank(S, i) = Cardinality(Below(i))
  BY DEF Rank
<1> HIDE DEF Below
<1>7. ASSUME NEW i \in S, NEW j \in S, Rank(S, i) = Rank(S, j) PROVE i = j
  <2>1. i \in Nat /\ j \in Nat /\ ~(i < j) /\ ~(j < i)
    BY <1>1, <1>4, <1>6, <1>7
  <2> QED
    BY <2>1
<1> QED
  BY <1>1, <1>3, <1>4, <1>5, <1>6, <1>7

(* Every number up to the size of a finite set has a member of that rank.  *)
LEMMA NthIsMember ==
    ASSUME NEW S \in SUBSET Nat, IsFiniteSet(S), NEW m \in 1..Cardinality(S)
    PROVE  Nth(S, m) \in S /\ Rank(S, Nth(S, m)) = m - 1
<1> DEFINE n == Cardinality(S)
           rank == [i \in S |-> Rank(S, i)]
<1>1. n \in Nat /\ rank \in Injection(S, 0..(n - 1))
  BY RanksAreDistinct DEF Injection, IsInjective
<1>2. IsFiniteSet(0..(n - 1)) /\ Cardinality(0..(n - 1)) = n
  BY <1>1, FS_Interval
<1>3. rank \in Surjection(S, 0..(n - 1))
  BY <1>1, <1>2, FS_Injection
<1>4. m - 1 \in 0..(n - 1)
  BY <1>1
<1> HIDE DEF n
<1>5. PICK i \in S : rank[i] = m - 1
  BY <1>3, <1>4 DEF Surjection
<1>6. Rank(S, i) = m - 1
  BY <1>5
<1> QED
  BY <1>6 DEF Nth

(* The m-th members are different, and in order.                           *)
LEMMA NthIsOrdered ==
    ASSUME NEW S \in SUBSET Nat, IsFiniteSet(S)
    PROVE  \A l, m \in 1..Cardinality(S) : l < m => Nth(S, l) < Nth(S, m)
<1> SUFFICES ASSUME NEW l \in 1..Cardinality(S), NEW m \in 1..Cardinality(S), l < m
             PROVE  Nth(S, l) < Nth(S, m)
  OBVIOUS
<1> DEFINE i == Nth(S, l)
           j == Nth(S, m)
<1>1. i \in S /\ j \in S /\ Rank(S, i) = l - 1 /\ Rank(S, j) = m - 1
  BY NthIsMember
<1> HIDE DEF i, j
<1>2. i \in Nat /\ j \in Nat /\ i # j /\ ~(j < i)
  BY <1>1, RanksAreDistinct
<1>3. i < j
  BY <1>2
<1> QED
  BY <1>3 DEF i, j

(* What is kept of a list is a list of elements at these positions, each   *)
(* position once, and no longer than the list.                             *)
LEMMA KeptFromList ==
    ASSUME NEW A, NEW list \in Seq(A), NEW S \in SUBSET DOMAIN list
    PROVE  /\ Kept(list, S) \in Seq(A)
           /\ Len(Kept(list, S)) = Cardinality(S)
           /\ Cardinality(S) \in 0..Len(list)
           /\ \A m \in 1..Cardinality(S) : Nth(S, m) \in S /\ Kept(list, S)[m] = list[Nth(S, m)]
           /\ \A l, m \in 1..Cardinality(S) : Nth(S, l) = Nth(S, m) => l = m
           /\ \A i \in S : \E m \in 1..Cardinality(S) : Nth(S, m) = i
<1>1. /\ IsFiniteSet(1..Len(list)) /\ Cardinality(1..Len(list)) = Len(list)
      /\ S \in SUBSET (1..Len(list)) /\ S \in SUBSET Nat
  <2>1. Len(list) \in Nat /\ DOMAIN list = 1..Len(list)
    OBVIOUS
  <2>2. \A n \in Nat : IsFiniteSet(1..n) /\ Cardinality(1..n) = n
    BY FS_Interval
  <2>3. S \in SUBSET (1..Len(list))
    BY <2>1
  <2> QED
    BY <2>1, <2>2, <2>3
<1>2. IsFiniteSet(S) /\ Cardinality(S) \in 0..Len(list)
  BY <1>1, FS_Subset, FS_CardinalityType
<1>3. \A m \in 1..Cardinality(S) : Nth(S, m) \in S /\ Rank(S, Nth(S, m)) = m - 1
  BY <1>1, <1>2, NthIsMember
<1>4. /\ Kept(list, S) \in [1..Cardinality(S) -> A]
      /\ \A m \in 1..Cardinality(S) : Kept(list, S)[m] = list[Nth(S, m)]
  BY <1>3 DEF Kept
<1>5. \A l, m \in 1..Cardinality(S) : Nth(S, l) = Nth(S, m) => l = m
  BY <1>2, <1>3
<1>6. ASSUME NEW i \in S PROVE \E m \in 1..Cardinality(S) : Nth(S, m) = i
  <2> DEFINE m == Rank(S, i) + 1
  <2>1. m \in 1..Cardinality(S)
    BY <1>1, <1>2, RanksAreDistinct
  <2>2. Nth(S, m) \in S /\ Rank(S, Nth(S, m)) = Rank(S, i)
    BY <1>1, <1>2, <1>3, <2>1, RanksAreDistinct
  <2>3. Nth(S, m) = i
    BY <1>1, <1>2, <2>2, RanksAreDistinct
  <2> QED
    BY <2>1, <2>3
<1> QED
  BY <1>2, <1>3, <1>4, <1>5, <1>6

(* A set of positions is the range of an ordered walk in one way: the m-th *)
(* member is the one that has m - 1 members before it.                     *)
LEMMA NthByRank ==
    ASSUME NEW S \in SUBSET Nat, IsFiniteSet(S), NEW m \in 1..Cardinality(S),
           NEW i \in S, Rank(S, i) = m - 1
    PROVE  Nth(S, m) = i
<1>1. Nth(S, m) \in S /\ Rank(S, Nth(S, m)) = m - 1
  BY NthIsMember
<1>2. \A j, k \in S : Rank(S, j) = Rank(S, k) => j = k
  BY RanksAreDistinct
<1> QED
  BY <1>1, <1>2

(* The list s without the element at position i.                           *)
RemovedAt(s, i) == [n \in 1..(Len(s) - 1) |-> IF n < i THEN s[n] ELSE s[n + 1]]

(* Keeping all positions but one removes that one.                         *)
LEMMA KeptAllButOne ==
    ASSUME NEW A, NEW s \in Seq(A), NEW i \in DOMAIN s
    PROVE  Kept(s, DOMAIN s \ {i}) = RemovedAt(s, i)
<1> DEFINE S == DOMAIN s \ {i}
<1>1. /\ Len(s) \in Nat /\ DOMAIN s = 1..Len(s)
      /\ i \in 1..Len(s) /\ S \in SUBSET Nat
  OBVIOUS
<1>2. \A n \in Nat : IsFiniteSet(1..n) /\ Cardinality(1..n) = n
  BY FS_Interval
<1>3. IsFiniteSet(S) /\ Cardinality(S) = Len(s) - 1
  <2>1. IsFiniteSet(DOMAIN s) /\ Cardinality(DOMAIN s) = Len(s)
    BY <1>1, <1>2
  <2>2. /\ IsFiniteSet(DOMAIN s \ {i})
        /\ Cardinality(DOMAIN s \ {i}) = Cardinality(DOMAIN s) - 1
    BY <2>1, FS_RemoveElement
  <2> QED
    BY <2>1, <2>2
<1>4. ASSUME NEW j \in S
      PROVE  Rank(S, j) = IF j < i THEN j - 1 ELSE j - 2
  <2>1. j \in 1..Len(s) /\ j # i /\ j - 1 \in Nat
    BY <1>1
  <2>2. Rank(S, j) = Cardinality({x \in S : x < j})
    BY DEF Rank
  <2>3. CASE j < i
    <3>1. {x \in S : x < j} = 1..(j - 1)
      BY <1>1, <2>1, <2>3
    <3> QED
      BY <1>2, <2>1, <2>2, <2>3, <3>1
  <2>4. CASE ~(j < i)
    <3>1. {x \in S : x < j} = (1..(j - 1)) \ {i}
      BY <1>1, <2>1, <2>4
    <3>2. i \in 1..(j - 1)
      BY <1>1, <2>1, <2>4
    <3> DEFINE T == 1..(j - 1)
    <3>3. IsFiniteSet(T) /\ Cardinality(T) = j - 1 /\ i \in T
      BY <1>2, <2>1, <3>2
    <3> HIDE DEF T
    <3>4. Cardinality(T \ {i}) = Cardinality(T) - 1
      BY <3>3, FS_RemoveElement
    <3>5. Cardinality(T \ {i}) = j - 2
      BY <2>1, <3>3, <3>4
    <3> QED
      BY <2>2, <2>4, <3>1, <3>5 DEF T
  <2> QED
    BY <2>3, <2>4
<1>5. ASSUME NEW m \in 1..(Len(s) - 1)
      PROVE  Nth(S, m) = IF m < i THEN m ELSE m + 1
  <2> DEFINE j == IF m < i THEN m ELSE m + 1
  <2>1. j \in S
    BY <1>1
  <2>2. Rank(S, j) = m - 1
    <3>1. m \in Nat /\ i \in Nat
      BY <1>1
    <3>2. CASE m < i
      BY <1>4, <2>1, <3>2
    <3>3. CASE ~(m < i)
      <4>1. j = m + 1 /\ ~(m + 1 < i) /\ m + 1 - 2 = m - 1
        BY <3>1, <3>3
      <4>2. Rank(S, j) = IF j < i THEN j - 1 ELSE j - 2
        BY <1>4, <2>1
      <4> HIDE DEF j, S
      <4> QED
        BY <4>1, <4>2
    <3> QED
      BY <3>2, <3>3
  <2>3. m \in 1..Cardinality(S)
    BY <1>3
  <2> HIDE DEF j, S
  <2>4. Nth(S, m) = j
    BY <1>1, <1>3, <2>1, <2>2, <2>3, NthByRank
  <2> QED
    BY <2>4 DEF j
<1> HIDE DEF S
<1>6. Kept(s, S) = [m \in 1..(Len(s) - 1) |-> s[Nth(S, m)]]
  BY <1>3 DEF Kept
<1>7. \A m \in 1..(Len(s) - 1) : s[Nth(S, m)] = IF m < i THEN s[m] ELSE s[m + 1]
  BY <1>5
<1>8. Kept(s, S) = RemovedAt(s, i)
  BY <1>6, <1>7 DEF RemovedAt
<1> QED
  BY <1>8 DEF S

(* Keeping all positions keeps the list.                                   *)
LEMMA KeptAll ==
    ASSUME NEW A, NEW s \in Seq(A)
    PROVE  Kept(s, DOMAIN s) = s
<1>1. /\ Len(s) \in Nat /\ DOMAIN s = 1..Len(s)
      /\ s = [n \in 1..Len(s) |-> s[n]]
      /\ DOMAIN s \in SUBSET Nat
  OBVIOUS
<1>2. \A n \in Nat : IsFiniteSet(1..n) /\ Cardinality(1..n) = n
  BY FS_Interval
<1>3. ASSUME NEW m \in 1..Len(s) PROVE Nth(DOMAIN s, m) = m
  <2>1. {x \in DOMAIN s : x < m} = 1..(m - 1) /\ m - 1 \in Nat
    BY <1>1
  <2>2. Rank(DOMAIN s, m) = m - 1
    BY <1>2, <2>1 DEF Rank
  <2>3. IsFiniteSet(DOMAIN s) /\ m \in 1..Cardinality(DOMAIN s) /\ m \in DOMAIN s
    BY <1>1, <1>2
  <2> QED
    BY <1>1, <2>2, <2>3, NthByRank
<1>4. Kept(s, DOMAIN s) = [m \in 1..Len(s) |-> s[Nth(DOMAIN s, m)]]
  BY <1>1, <1>2 DEF Kept
<1> QED
  BY <1>1, <1>3, <1>4

(* Any set of positions of a kept list is as large as the set of their     *)
(* positions in the list.                                                  *)
LEMMA ImageCounted ==
    ASSUME NEW S \in SUBSET Nat, IsFiniteSet(S), NEW V \in SUBSET (1..Cardinality(S))
    PROVE  /\ IsFiniteSet({Nth(S, k) : k \in V})
           /\ Cardinality({Nth(S, k) : k \in V}) = Cardinality(V)
<1> DEFINE W == {Nth(S, k) : k \in V}
           f == [k \in V |-> Nth(S, k)]
<1>1. Cardinality(S) \in Nat
  BY RanksAreDistinct
<1>2. IsFiniteSet(V)
  <2>1. IsFiniteSet(1..Cardinality(S))
    BY <1>1, FS_Interval
  <2> QED
    BY <2>1, FS_Subset
<1>3. \A k, l \in V : Nth(S, k) = Nth(S, l) => k = l
  <2>1. \A k, l \in 1..Cardinality(S) : k < l => Nth(S, k) < Nth(S, l)
    BY NthIsOrdered
  <2>2. \A k \in 1..Cardinality(S) : Nth(S, k) \in Nat
    BY NthIsMember
  <2> QED
    BY <1>1, <2>1, <2>2
<1>4. f \in Bijection(V, W)
  BY <1>3 DEF Bijection, Injection, Surjection, IsInjective
<1>5. ExistsBijection(V, W)
  BY <1>4 DEF ExistsBijection
<1> HIDE DEF W
<1>6. IsFiniteSet(W) /\ Cardinality(W) = Cardinality(V)
  BY <1>2, <1>5, FS_Bijection
<1> QED
  BY <1>6 DEF W

(* Keeping a part of what was kept is keeping that part.                   *)
LEMMA KeptTwice ==
    ASSUME NEW A, NEW list \in Seq(A), NEW S \in SUBSET DOMAIN list,
           NEW T \in SUBSET (1..Cardinality(S))
    PROVE  Kept(Kept(list, S), T) = Kept(list, {Nth(S, k) : k \in T})
<1> DEFINE U == {Nth(S, k) : k \in T}
           N == Cardinality(S)
<1>1. /\ S \in SUBSET Nat /\ IsFiniteSet(S) /\ N \in Nat
  <2>1. DOMAIN list = 1..Len(list) /\ Len(list) \in Nat
    OBVIOUS
  <2>2. IsFiniteSet(1..Len(list))
    BY <2>1, FS_Interval
  <2>3. S \in SUBSET Nat /\ IsFiniteSet(S)
    BY <2>1, <2>2, FS_Subset
  <2> QED
    BY <2>3, RanksAreDistinct
<1>2. T \in SUBSET Nat /\ IsFiniteSet(T) /\ Cardinality(T) \in Nat
  <2>1. IsFiniteSet(1..N)
    BY <1>1, FS_Interval
  <2>2. IsFiniteSet(T)
    BY <2>1, FS_Subset
  <2> QED
    BY <1>1, <2>2, RanksAreDistinct
<1>3. /\ IsFiniteSet(U) /\ Cardinality(U) = Cardinality(T)
      /\ U \in SUBSET Nat
  BY <1>1, ImageCounted, NthIsMember
<1>4. \A k, l \in 1..N : k < l <=> Nth(S, k) < Nth(S, l)
  <2>1. \A k, l \in 1..N : k < l => Nth(S, k) < Nth(S, l)
    BY <1>1, NthIsOrdered
  <2>2. \A k \in 1..N : Nth(S, k) \in Nat
    BY <1>1, NthIsMember
  <2> QED
    BY <1>1, <2>1, <2>2
<1>5. ASSUME NEW k \in T
      PROVE  Rank(U, Nth(S, k)) = Rank(T, k)
  <2> DEFINE V == {l \in T : l < k}
  <2>1. {j \in U : j < Nth(S, k)} = {Nth(S, l) : l \in V}
    BY <1>4
  <2>2. Cardinality({Nth(S, l) : l \in V}) = Cardinality(V)
    BY <1>1, ImageCounted
  <2> QED
    BY <2>1, <2>2 DEF Rank
<1>6. ASSUME NEW m \in 1..Cardinality(T)
      PROVE  Nth(U, m) = Nth(S, Nth(T, m)) /\ Nth(T, m) \in 1..N
  <2>1. Nth(T, m) \in T /\ Rank(T, Nth(T, m)) = m - 1
    BY <1>2, NthIsMember
  <2>2. Nth(S, Nth(T, m)) \in U /\ Rank(U, Nth(S, Nth(T, m))) = m - 1
    BY <1>5, <2>1
  <2>3. m \in 1..Cardinality(U)
    BY <1>3
  <2> HIDE DEF U
  <2>4. \A i \in U : Rank(U, i) = m - 1 => Nth(U, m) = i
    BY <1>3, <2>3, NthByRank
  <2>5. Nth(U, m) = Nth(S, Nth(T, m))
    BY <2>2, <2>4
  <2> QED
    BY <2>1, <2>5
<1> HIDE DEF U
<1>7. \A n \in 1..N : Kept(list, S)[n] = list[Nth(S, n)]
  BY KeptFromList
<1>8. \A m \in 1..Cardinality(T) : Kept(list, S)[Nth(T, m)] = list[Nth(U, m)]
  BY <1>6, <1>7
<1>9. Kept(Kept(list, S), T) = Kept(list, U)
  BY <1>3, <1>8 DEF Kept
<1> QED
  BY <1>9 DEF U

(* Keeping the last element besides others puts it last.                   *)
LEMMA KeptAppended ==
    ASSUME NEW A, NEW list \in Seq(A), NEW S \in SUBSET DOMAIN list, NEW x \in A
    PROVE  Kept(Append(list, x), S \cup {Len(list) + 1}) = Append(Kept(list, S), x)
<1> DEFINE N == Len(list)
           U == S \cup {N + 1}
<1>1. N \in Nat /\ DOMAIN list = 1..N /\ S \subseteq 1..N
  OBVIOUS
<1>2. IsFiniteSet(S) /\ S \in SUBSET Nat /\ Cardinality(S) \in Nat
  <2>1. IsFiniteSet(1..N)
    BY <1>1, FS_Interval
  <2>2. IsFiniteSet(S)
    BY <1>1, <2>1, FS_Subset
  <2> QED
    BY <1>1, <2>2, RanksAreDistinct
<1>3. /\ IsFiniteSet(U) /\ U \in SUBSET Nat
      /\ Cardinality(U) = Cardinality(S) + 1
  <2>1. N + 1 \notin S
    BY <1>1
  <2> QED
    BY <1>1, <1>2, <2>1, FS_AddElement
<1>4. \A i \in S : Rank(U, i) = Rank(S, i)
  <2>1. \A i \in S : {j \in U : j < i} = {j \in S : j < i}
    BY <1>1
  <2> QED
    BY <2>1 DEF Rank
<1>5. Rank(U, N + 1) = Cardinality(S)
  <2>1. {j \in U : j < N + 1} = S
    BY <1>1
  <2> QED
    BY <2>1 DEF Rank
<1> HIDE DEF U
<1>6. \A m \in 1..Cardinality(S) : Nth(U, m) = Nth(S, m) /\ Nth(S, m) \in 1..N
  <2> TAKE m \in 1..Cardinality(S)
  <2>1. Nth(S, m) \in S /\ Rank(S, Nth(S, m)) = m - 1
    BY <1>2, NthIsMember
  <2>2. Nth(S, m) \in U
    BY <2>1 DEF U
  <2>3. Rank(U, Nth(S, m)) = m - 1
    BY <1>4, <2>1
  <2>4. m \in 1..Cardinality(U)
    BY <1>2, <1>3
  <2>5. \A i \in U : Rank(U, i) = m - 1 => Nth(U, m) = i
    BY <1>3, <2>4, NthByRank
  <2> QED
    BY <1>1, <2>1, <2>2, <2>3, <2>5
<1>7. Nth(U, Cardinality(S) + 1) = N + 1
  <2>1. N + 1 \in U /\ Rank(U, N + 1) = (Cardinality(S) + 1) - 1
    BY <1>2, <1>5 DEF U
  <2>2. Cardinality(S) + 1 \in 1..Cardinality(U)
    BY <1>2, <1>3
  <2> QED
    BY <1>3, <2>1, <2>2, NthByRank
<1>8. /\ \A n \in 1..N : Append(list, x)[n] = list[n]
      /\ Append(list, x)[N + 1] = x
  OBVIOUS
<1>9. Kept(list, S) = [m \in 1..Cardinality(S) |-> list[Nth(S, m)]]
  BY DEF Kept
<1>10. Append(Kept(list, S), x)
         = [m \in 1..(Cardinality(S) + 1) |->
              IF m = Cardinality(S) + 1 THEN x ELSE list[Nth(S, m)]]
  <2>1. Kept(list, S) \in Seq(A) /\ Len(Kept(list, S)) = Cardinality(S)
    BY KeptFromList
  <2>2. ASSUME NEW K \in Seq(A)
        PROVE  Append(K, x) = [m \in 1..(Len(K) + 1) |->
                                 IF m = Len(K) + 1 THEN x ELSE K[m]]
    <3>1. PICK n \in Nat : n = Len(K) /\ DOMAIN K = 1..n
      OBVIOUS
    <3>2. /\ Append(K, x) \in Seq(A) /\ Len(Append(K, x)) = n + 1
          /\ \A m \in 1..n : Append(K, x)[m] = K[m]
          /\ Append(K, x)[n + 1] = x
      BY <3>1
    <3>3. \A t \in Seq(A) : t = [m \in 1..Len(t) |-> t[m]]
      OBVIOUS
    <3>4. Append(K, x) = [m \in 1..(n + 1) |-> Append(K, x)[m]]
      BY <3>2, <3>3
    <3> QED
      BY <3>1, <3>2, <3>4
  <2>3. \A m \in 1..Cardinality(S) : Kept(list, S)[m] = list[Nth(S, m)]
    BY <1>9
  <2> QED
    BY <1>2, <2>1, <2>2, <2>3
<1>11. \A m \in 1..(Cardinality(S) + 1) :
          Append(list, x)[Nth(U, m)]
            = IF m = Cardinality(S) + 1 THEN x ELSE list[Nth(S, m)]
  BY <1>2, <1>6, <1>7, <1>8
<1>12. Kept(Append(list, x), U) = Append(Kept(list, S), x)
  BY <1>3, <1>10, <1>11 DEF Kept
<1> QED
  BY <1>12 DEF U

=============================================================================
