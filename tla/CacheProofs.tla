----------------------------- MODULE CacheProofs -----------------------------
(***************************************************************************)
(* What is proved of the cache, for any keys and sizes.  Of the in-memory  *)
(* layer: the links always form one list of the cached keys, and the class *)
(* implements a cache that gives up the key it has not used for the longest*)
(* time.  Of both layers: no answer is outdated, and evictions follow use. *)
(***************************************************************************)
EXTENDS LRUCache, MultiLayerCache, SubsequencesProofs, SequenceTheorems

List == [head : Reference, tail : Reference,
         prev : [LRUKeys -> Reference], next : [LRUKeys -> Reference]]

(* The links of l join the elements of s in their order.                   *)
Links(l, s) ==
    /\ Len(s) = 0 => l.head = NoNode /\ l.tail = NoNode
    /\ Len(s) # 0 => /\ l.head = s[1] /\ l.prev[s[1]] = NoNode
                    /\ l.tail = s[Len(s)] /\ l.next[s[Len(s)]] = NoNode
    /\ \A n \in 1..(Len(s) - 1) : l.next[s[n]] = s[n + 1] /\ l.prev[s[n + 1]] = s[n]

(* They do, and these elements are the members of c, each of them once.    *)
Listed(l, c, s) ==
    /\ s \in Seq(c)
    /\ \A m, n \in 1..Len(s) : s[m] = s[n] => m = n
    /\ \A k \in c : \E n \in 1..Len(s) : s[n] = k
    /\ Links(l, s)

ListInv ==
    /\ cache \subseteq LRUKeys
    /\ IsFiniteSet(cache)
    /\ Cardinality(cache) <= MaxSize
    /\ expired \subseteq cache
    /\ list \in List
    /\ \E s \in Seq(cache) : Listed(list, cache, s)

-----------------------------------------------------------------------------
(* Lists.                                                                  *)

LEMMA Basics ==
    ASSUME NEW c \in SUBSET LRUKeys, NEW l \in List, NEW s, Listed(l, c, s)
    PROVE  /\ Len(s) \in Nat
           /\ s \in [1..Len(s) -> c]
           /\ IsFiniteSet(c) /\ Cardinality(c) = Len(s)
           /\ NoNode \notin c
           /\ l.prev \in [LRUKeys -> Reference] /\ l.next \in [LRUKeys -> Reference]
<1>1. Len(s) \in Nat /\ s \in [1..Len(s) -> c]
  BY DEF Listed
<1>2. \A n \in Nat : IsFiniteSet(1..n) /\ Cardinality(1..n) = n
  BY FS_Interval
<1>3. s \in Bijection(1..Len(s), c)
  BY <1>1 DEF Listed, Bijection, Injection, Surjection, IsInjective
<1>4. ExistsBijection(1..Len(s), c)
  BY <1>3 DEF ExistsBijection
<1>5. IsFiniteSet(c) /\ Cardinality(c) = Len(s)
  BY <1>1, <1>2, <1>4, FS_Bijection
<1> QED
  BY <1>1, <1>5, LRUAssumption DEF List

(* A list with one more element in front.                                  *)
LEMMA Front ==
    ASSUME NEW A, NEW e \in A, NEW s \in Seq(A)
    PROVE  LET u == <<e>> \o s
           IN  /\ u \in Seq(A)
               /\ Len(u) = Len(s) + 1
               /\ u[1] = e
               /\ \A n \in 1..Len(s) : u[n + 1] = s[n]
  OBVIOUS

(* The walk along the links meets the keys in that order.                  *)
LEMMA WalkIsListing ==
    ASSUME NEW c \in SUBSET LRUKeys, NEW l \in List, NEW s, Listed(l, c, s)
    PROVE  Walk(l, c) = s
<1> DEFINE F == [1..Cardinality(c) -> c]
           Follows(t) == \A n \in DOMAIN t : t[n] = IF n = 1 THEN l.head ELSE l.next[t[n - 1]]
<1>1. Len(s) \in Nat /\ Cardinality(c) = Len(s) /\ s \in F /\ DOMAIN s = 1..Len(s)
  BY Basics
<1>2. /\ Len(s) # 0 => s[1] = l.head
      /\ \A n \in 1..Len(s) : n # 1 => s[n] = l.next[s[n - 1]]
  <2>1. Links(l, s)
    BY DEF Listed
  <2>2. ASSUME NEW n \in 1..Len(s), n # 1 PROVE s[n] = l.next[s[n - 1]]
    <3>1. n - 1 \in 1..(Len(s) - 1) /\ (n - 1) + 1 = n
      BY <1>1, <2>2
    <3>2. l.next[s[n - 1]] = s[(n - 1) + 1]
      BY <2>1, <3>1 DEF Links
    <3> QED
      BY <3>1, <3>2
  <2> QED
    BY <2>1, <2>2 DEF Links
<1>3. Follows(s)
  <2> TAKE n \in DOMAIN s
  <2>1. n \in 1..Len(s) /\ Len(s) # 0
    BY <1>1
  <2>2. CASE n = 1
    BY <1>2, <2>1, <2>2
  <2>3. CASE n # 1
    BY <1>2, <2>1, <2>3
  <2> QED
    BY <2>2, <2>3
<1>4. ASSUME NEW t \in F, Follows(t) PROVE t = s
  <2> DEFINE Differ == {n \in 1..Len(s) : t[n] # s[n]}
  <2>1. SUFFICES ASSUME Differ # {} PROVE FALSE
    <3>1. \A n \in 1..Len(s) : t[n] = s[n]
      BY <2>1
    <3> QED
      BY <1>1, <3>1
  <2>2. Differ \in SUBSET Nat
    OBVIOUS
  <2>3. PICK n \in Differ : \A m \in Differ : n <= m
    <3> HIDE DEF Differ
    <3> QED
      BY <2>1, <2>2, LeastMember
  <2>4. n \in 1..Len(s) /\ t[n] # s[n] /\ DOMAIN t = 1..Len(s) /\ Len(s) # 0
    BY <1>1
  <2>5. t[n] = IF n = 1 THEN l.head ELSE l.next[t[n - 1]]
    BY <1>4, <2>4
  <2>6. n # 1
    BY <1>2, <2>4, <2>5
  <2>7. n - 1 \in 1..Len(s) /\ ~(n <= n - 1)
    BY <1>1, <2>4, <2>6
  <2>8. t[n - 1] = s[n - 1]
    BY <2>3, <2>7
  <2> QED
    BY <1>2, <2>4, <2>5, <2>6, <2>8
<1> HIDE DEF F, Follows
<1>5. Walk(l, c) = CHOOSE t \in F : Follows(t)
  BY DEF Walk, F, Follows
<1> QED
  BY <1>1, <1>3, <1>4, <1>5

(* The fields after removeNode(), for a node with neighbours p and q.      *)
LEMMA RemoveFields ==
    ASSUME NEW l \in List, NEW k \in LRUKeys, NEW p \in Reference, NEW q \in Reference,
           l.prev[k] = p, l.next[k] = q
    PROVE  LET after == RemoveNode(l, k)
           IN  /\ after \in List
               /\ \A x \in LRUKeys : after.next[x] = IF x = p THEN q ELSE l.next[x]
               /\ \A x \in LRUKeys : after.prev[x] = IF x = q THEN p ELSE l.prev[x]
               /\ after.head = IF p = NoNode THEN q ELSE l.head
               /\ after.tail = IF q = NoNode THEN p ELSE l.tail
<1> DEFINE next == Assign(l.next, p, q)
           prev == Assign(l.prev, q, p)
           head == IF p = NoNode THEN q ELSE l.head
           tail == IF q = NoNode THEN p ELSE l.tail
<1>1. /\ l.prev \in [LRUKeys -> Reference] /\ l.next \in [LRUKeys -> Reference]
      /\ l.head \in Reference /\ l.tail \in Reference /\ NoNode \notin LRUKeys
  BY LRUAssumption DEF List
<1>2. /\ next \in [LRUKeys -> Reference]
      /\ \A x \in LRUKeys : next[x] = IF x = p THEN q ELSE l.next[x]
  BY <1>1 DEF Assign, Reference
<1>3. /\ prev \in [LRUKeys -> Reference]
      /\ \A x \in LRUKeys : prev[x] = IF x = q THEN p ELSE l.prev[x]
  BY <1>1 DEF Assign, Reference
<1>4. head \in Reference /\ tail \in Reference
  BY <1>1
<1>5. RemoveNode(l, k) = [l EXCEPT !.next = next, !.head = head, !.prev = prev, !.tail = tail]
  BY DEF RemoveNode
<1> HIDE DEF next, prev, head, tail
<1>6. RemoveNode(l, k) = [head |-> head, tail |-> tail, prev |-> prev, next |-> next]
  BY <1>5 DEF List
<1>7. RemoveNode(l, k) \in List
  BY <1>2, <1>3, <1>4, <1>6 DEF List
<1> QED
  BY <1>2, <1>3, <1>6, <1>7 DEF head, tail

(* removeNode() takes one key out of the list.                             *)
LEMMA RemoveListed ==
    ASSUME NEW c \in SUBSET LRUKeys, NEW l \in List, NEW s, Listed(l, c, s),
           NEW i \in 1..Len(s)
    PROVE  /\ RemoveNode(l, s[i]) \in List
           /\ Listed(RemoveNode(l, s[i]), c \ {s[i]}, RemovedAt(s, i))
<1> DEFINE k == s[i]
           t == RemovedAt(s, i)
           d == c \ {k}
           after == RemoveNode(l, k)
<1>1. PICK N \in Nat : N = Len(s)
  BY Basics
<1>2. i \in 1..N /\ i \in Nat /\ N # 0
  BY <1>1
<1>3. /\ s \in [1..N -> c] /\ NoNode \notin c
      /\ \A m, n \in 1..N : s[m] = s[n] => m = n
      /\ \A x \in c : \E n \in 1..N : s[n] = x
  BY <1>1, Basics DEF Listed
<1>4. /\ l.head = s[1] /\ l.prev[s[1]] = NoNode
      /\ l.tail = s[N] /\ l.next[s[N]] = NoNode
      /\ \A n \in 1..(N - 1) : l.next[s[n]] = s[n + 1] /\ l.prev[s[n + 1]] = s[n]
  BY <1>1, <1>2 DEF Listed, Links
<1>5. k \in c /\ k \in LRUKeys
  BY <1>2, <1>3
<1>6. PICK p : p = l.prev[k]
  OBVIOUS
<1>7. PICK q : q = l.next[k]
  OBVIOUS
<1>8. /\ i = 1 => p = NoNode
      /\ i # 1 => i - 1 \in 1..(N - 1) /\ p = s[i - 1]
  <2>1. i # 1 => i - 1 \in 1..(N - 1) /\ (i - 1) + 1 = i
    BY <1>2
  <2> QED
    BY <1>4, <1>6, <2>1
<1>9. /\ i = N => q = NoNode
      /\ i # N => i + 1 \in 1..N /\ q = s[i + 1]
  <2>1. i # N => i \in 1..(N - 1) /\ i + 1 \in 1..N
    BY <1>2
  <2> QED
    BY <1>4, <1>7, <2>1
<1>10. p \in c \cup {NoNode} /\ q \in c \cup {NoNode}
  <2>1. 1..(N - 1) \subseteq 1..N
    BY <1>1
  <2>2. p \in c \cup {NoNode}
    BY <1>3, <1>8, <2>1
  <2> QED
    BY <1>3, <1>9, <2>2
<1>11. /\ after \in List
       /\ \A x \in LRUKeys : after.next[x] = IF x = p THEN q ELSE l.next[x]
       /\ \A x \in LRUKeys : after.prev[x] = IF x = q THEN p ELSE l.prev[x]
       /\ after.head = IF p = NoNode THEN q ELSE l.head
       /\ after.tail = IF q = NoNode THEN p ELSE l.tail
  <2>1. p \in Reference /\ q \in Reference
    BY <1>10 DEF Reference
  <2> HIDE DEF k
  <2> QED
    BY <1>5, <1>6, <1>7, <2>1, RemoveFields
<1>12. /\ t = [n \in 1..(N - 1) |-> IF n < i THEN s[n] ELSE s[n + 1]]
       /\ \A n \in 1..(N - 1) : n < i => t[n] = s[n]
       /\ \A n \in 1..(N - 1) : n >= i => t[n] = s[n + 1]
  BY <1>1, <1>2 DEF RemovedAt
<1>13. t \in Seq(d) /\ Len(t) = N - 1
  <2>1. \A n \in 1..(N - 1) : t[n] \in d
    BY <1>2, <1>3, <1>12
  <2>2. t \in [1..(N - 1) -> d]
    BY <1>12, <2>1
  <2>3. N - 1 \in Nat
    BY <1>2
  <2> HIDE DEF t, d
  <2> QED
    BY <2>2, <2>3
<1> HIDE DEF t, k, after, d
<1>14. ASSUME NEW m \in 1..(N - 1), NEW n \in 1..(N - 1), t[m] = t[n] PROVE m = n
  <2> DEFINE old(x) == IF x < i THEN x ELSE x + 1
  <2>1. \A x \in 1..(N - 1) : old(x) \in 1..N /\ t[x] = s[old(x)]
    <3> TAKE x \in 1..(N - 1)
    <3>1. CASE x < i
      BY <1>2, <1>12, <3>1
    <3>2. CASE x >= i
      BY <1>2, <1>12, <3>2
    <3> QED
      BY <1>2, <3>1, <3>2
  <2>2. old(m) = old(n)
    <3> HIDE DEF old
    <3> QED
      BY <1>3, <1>14, <2>1
  <2> QED
    BY <1>2, <2>2
<1>15. ASSUME NEW x \in d PROVE \E n \in 1..(N - 1) : t[n] = x
  <2>1. PICK n \in 1..N : s[n] = x
    BY <1>3 DEF d
  <2>2. n # i
    BY <2>1 DEF d, k
  <2>3. CASE n < i
    <3>1. n \in 1..(N - 1)
      BY <1>2, <2>3
    <3> QED
      BY <1>12, <2>1, <2>3, <3>1
  <2>4. CASE n > i
    <3>1. n - 1 \in 1..(N - 1) /\ n - 1 >= i /\ n - 1 + 1 = n
      BY <1>2, <2>4
    <3> QED
      BY <1>12, <2>1, <3>1
  <2> QED
    BY <1>2, <2>2, <2>3, <2>4
<1>16. N - 1 = 0 => after.head = NoNode /\ after.tail = NoNode
  <2>1. N - 1 = 0 => i = 1 /\ i = N
    BY <1>2
  <2> QED
    BY <1>8, <1>9, <1>11, <2>1
<1>17. /\ \A n \in 1..N : s[n] \in LRUKeys /\ s[n] # NoNode
       /\ \A m, n \in 1..N : m # n => s[m] # s[n]
  BY <1>3
<1>18. ASSUME N - 1 # 0
       PROVE  after.head = t[1] /\ after.prev[t[1]] = NoNode
  <2>1. 1 \in 1..(N - 1) /\ 1 \in 1..N /\ 1 + 1 \in 1..N /\ N # 1
    BY <1>2, <1>18
  <2>2. CASE i = 1
    <3>1. q = s[1 + 1] /\ p = NoNode
      BY <1>8, <1>9, <2>1, <2>2
    <3>2. t[1] = s[1 + 1] /\ after.head = q
      BY <1>11, <1>12, <2>1, <2>2, <3>1
    <3>3. after.prev[t[1]] = NoNode
      BY <1>11, <1>17, <2>1, <3>1, <3>2
    <3> QED
      BY <3>1, <3>2, <3>3
  <2>3. CASE i # 1
    <3>1. 1 < i /\ i - 1 \in 1..N /\ i + 1 # 1
      BY <1>2, <2>3
    <3>2. t[1] = s[1]
      BY <1>12, <2>1, <3>1
    <3>3. q # s[1]
      BY <1>9, <1>17, <2>1, <3>1
    <3>4. p # NoNode
      BY <1>8, <1>17, <2>3, <3>1
    <3> QED
      BY <1>4, <1>11, <1>17, <2>1, <3>2, <3>3, <3>4
  <2> QED
    BY <2>2, <2>3
<1>19. ASSUME N - 1 # 0
       PROVE  after.tail = t[N - 1] /\ after.next[t[N - 1]] = NoNode
  <2>1. N - 1 \in 1..(N - 1) /\ N - 1 \in 1..N /\ N \in 1..N /\ (N - 1) + 1 = N
    BY <1>2, <1>19
  <2>2. CASE i = N
    <3>1. i # 1 /\ N - 1 < i
      BY <1>2, <1>19, <2>2
    <3>2. q = NoNode /\ p = s[N - 1]
      BY <1>8, <1>9, <2>2, <3>1
    <3>3. t[N - 1] = s[N - 1]
      BY <1>12, <2>1, <3>1
    <3> QED
      BY <1>11, <1>17, <2>1, <3>2, <3>3
  <2>3. CASE i # N
    <3>1. N - 1 >= i /\ i - 1 # N
      BY <1>2, <2>3
    <3>2. t[N - 1] = s[N]
      BY <1>12, <2>1, <3>1
    <3>3. p # s[N]
      <4>1. i # 1 => i - 1 \in 1..N
        BY <1>2
      <4> QED
        BY <1>8, <1>17, <2>1, <3>1, <4>1
    <3>4. q # NoNode
      BY <1>9, <1>17, <2>3
    <3> QED
      BY <1>4, <1>11, <1>17, <2>1, <3>2, <3>3, <3>4
  <2> QED
    BY <2>2, <2>3
<1>20. ASSUME NEW n \in 1..(N - 1 - 1)
       PROVE  after.next[t[n]] = t[n + 1] /\ after.prev[t[n + 1]] = t[n]
  <2>1. /\ n \in 1..(N - 1) /\ n + 1 \in 1..(N - 1)
        /\ n \in 1..N /\ n + 1 \in 1..N /\ n + 1 + 1 \in 1..N
    BY <1>2
  <2>2. i # 1 => i - 1 \in 1..N
    BY <1>2
  <2>3. CASE n + 1 < i
    <3>1. n < i /\ i # 1 /\ i - 1 # n /\ i + 1 # n + 1
      BY <1>2, <2>1, <2>3
    <3>2. t[n] = s[n] /\ t[n + 1] = s[n + 1]
      BY <1>12, <2>1, <2>3, <3>1
    <3>3. p # s[n] /\ q # s[n + 1]
      BY <1>8, <1>9, <1>17, <2>1, <2>2, <3>1
    <3>4. after.next[s[n]] = l.next[s[n]]
      BY <1>11, <1>17, <2>1, <3>3
    <3>5. after.prev[s[n + 1]] = l.prev[s[n + 1]]
      BY <1>11, <1>17, <2>1, <3>3
    <3>6. n \in 1..(N - 1)
      BY <2>1
    <3> QED
      BY <1>4, <3>2, <3>4, <3>5, <3>6
  <2>4. CASE n + 1 = i
    <3>1. n < i /\ i # 1 /\ i - 1 = n /\ i # N /\ n + 1 >= i /\ i + 1 = n + 1 + 1
      BY <1>2, <2>1, <2>4
    <3>2. t[n] = s[n] /\ t[n + 1] = s[n + 1 + 1]
      BY <1>12, <2>1, <3>1
    <3>3. p = s[n] /\ q = s[n + 1 + 1]
      BY <1>8, <1>9, <3>1
    <3>4. after.next[s[n]] = q
      BY <1>11, <1>17, <2>1, <3>3
    <3>5. after.prev[s[n + 1 + 1]] = p
      BY <1>11, <1>17, <2>1, <3>3
    <3> QED
      BY <3>2, <3>3, <3>4, <3>5
  <2>5. CASE n >= i
    <3>1. /\ n + 1 >= i /\ i - 1 # n + 1 /\ i + 1 # n + 1 + 1
      BY <1>2, <2>1, <2>5
    <3>2. t[n] = s[n + 1] /\ t[n + 1] = s[n + 1 + 1]
      BY <1>12, <2>1, <2>5, <3>1
    <3>3. p # s[n + 1] /\ q # s[n + 1 + 1]
      BY <1>8, <1>9, <1>17, <2>1, <2>2, <3>1
    <3>4. after.next[s[n + 1]] = l.next[s[n + 1]]
      BY <1>11, <1>17, <2>1, <3>3
    <3>5. after.prev[s[n + 1 + 1]] = l.prev[s[n + 1 + 1]]
      BY <1>11, <1>17, <2>1, <3>3
    <3>6. n + 1 \in 1..(N - 1)
      BY <2>1
    <3> QED
      BY <1>4, <3>2, <3>4, <3>5, <3>6
  <2> QED
    BY <1>2, <2>1, <2>3, <2>4, <2>5
<1>21. Links(after, t)
  BY <1>13, <1>16, <1>18, <1>19, <1>20 DEF Links
<1>22. Listed(after, d, t)
  BY <1>13, <1>14, <1>15, <1>21 DEF Listed
<1> QED
  BY <1>11, <1>22 DEF after, d, t, k

(* The fields after addToFront().                                          *)
LEMMA AddFields ==
    ASSUME NEW l \in List, NEW k \in LRUKeys
    PROVE  LET after == AddToFront(l, k)
           IN  /\ after \in List
               /\ \A x \in LRUKeys : after.next[x] = IF x = k THEN l.head ELSE l.next[x]
               /\ \A x \in LRUKeys : after.prev[x] = IF x = l.head THEN k
                                                  ELSE IF x = k THEN NoNode ELSE l.prev[x]
               /\ after.head = k
               /\ after.tail = IF l.tail = NoNode THEN k ELSE l.tail
<1> DEFINE cleared == [l.prev EXCEPT ![k] = NoNode]
           next == [l.next EXCEPT ![k] = l.head]
           prev == Assign(cleared, l.head, k)
           tail == IF l.tail = NoNode THEN k ELSE l.tail
<1>1. /\ l.prev \in [LRUKeys -> Reference] /\ l.next \in [LRUKeys -> Reference]
      /\ l.head \in Reference /\ l.tail \in Reference /\ NoNode \notin LRUKeys
  BY LRUAssumption DEF List
<1>2. /\ next \in [LRUKeys -> Reference]
      /\ \A x \in LRUKeys : next[x] = IF x = k THEN l.head ELSE l.next[x]
  BY <1>1
<1>3. /\ cleared \in [LRUKeys -> Reference]
      /\ \A x \in LRUKeys : cleared[x] = IF x = k THEN NoNode ELSE l.prev[x]
  BY <1>1 DEF Reference
<1>4. /\ prev \in [LRUKeys -> Reference]
      /\ \A x \in LRUKeys : prev[x] = IF x = l.head THEN k ELSE cleared[x]
  <2> HIDE DEF cleared
  <2> QED
    BY <1>1, <1>3 DEF Assign, Reference
<1>5. tail \in Reference /\ k \in Reference
  BY <1>1 DEF Reference
<1>6. AddToFront(l, k) = [l EXCEPT !.next = next, !.prev = prev, !.head = k, !.tail = tail]
  BY DEF AddToFront
<1> HIDE DEF next, prev, tail
<1>7. AddToFront(l, k) = [head |-> k, tail |-> tail, prev |-> prev, next |-> next]
  BY <1>6 DEF List
<1>8. AddToFront(l, k) \in List
  BY <1>2, <1>4, <1>5, <1>7 DEF List
<1> QED
  BY <1>2, <1>3, <1>4, <1>7, <1>8 DEF tail

(* addToFront() of a key that is not in the list.                          *)
LEMMA AddListed ==
    ASSUME NEW c \in SUBSET LRUKeys, NEW l \in List, NEW s, Listed(l, c, s),
           NEW k \in LRUKeys, k \notin c
    PROVE  /\ AddToFront(l, k) \in List
           /\ Listed(AddToFront(l, k), c \cup {k}, <<k>> \o s)
<1> DEFINE u == <<k>> \o s
           d == c \cup {k}
           after == AddToFront(l, k)
<1>1. PICK N \in Nat : N = Len(s)
  BY Basics
<1>2. /\ s \in [1..N -> c] /\ s \in Seq(c) /\ NoNode \notin c
      /\ \A m, n \in 1..N : s[m] = s[n] => m = n
      /\ \A x \in c : \E n \in 1..N : s[n] = x
  BY <1>1, Basics DEF Listed
<1>3. /\ N = 0 => l.head = NoNode /\ l.tail = NoNode
      /\ N # 0 => /\ l.head = s[1] /\ l.prev[s[1]] = NoNode
                 /\ l.tail = s[N] /\ l.next[s[N]] = NoNode
      /\ \A n \in 1..(N - 1) : l.next[s[n]] = s[n + 1] /\ l.prev[s[n + 1]] = s[n]
  BY <1>1 DEF Listed, Links
<1>4. /\ after \in List
      /\ \A x \in LRUKeys : after.next[x] = IF x = k THEN l.head ELSE l.next[x]
      /\ \A x \in LRUKeys : after.prev[x] = IF x = l.head THEN k
                                         ELSE IF x = k THEN NoNode ELSE l.prev[x]
      /\ after.head = k
      /\ after.tail = IF l.tail = NoNode THEN k ELSE l.tail
  BY AddFields
<1>5. /\ u \in Seq(d)
      /\ Len(u) = N + 1 /\ u[1] = k
      /\ \A n \in 1..N : u[n + 1] = s[n]
  <2>1. s \in Seq(d) /\ k \in d
    BY <1>2
  <2> HIDE DEF d
  <2> QED
    BY <1>1, <2>1, Front
<1> HIDE DEF u, d, after
<1>6. \A n \in 2..(N + 1) : n - 1 \in 1..N /\ u[n] = s[n - 1] /\ u[n] \in c
  <2> TAKE n \in 2..(N + 1)
  <2>1. n - 1 \in 1..N /\ (n - 1) + 1 = n
    BY <1>1
  <2> QED
    BY <1>2, <1>5, <2>1
<1>7. ASSUME NEW m \in 1..(N + 1), NEW n \in 1..(N + 1), u[m] = u[n] PROVE m = n
  <2>1. (m = 1 \/ m \in 2..(N + 1)) /\ (n = 1 \/ n \in 2..(N + 1))
    BY <1>1
  <2>2. CASE m = 1 \/ n = 1
    BY <1>5, <1>6, <1>7, <2>1, <2>2
  <2>3. CASE m \in 2..(N + 1) /\ n \in 2..(N + 1)
    <3>1. m - 1 = n - 1
      BY <1>2, <1>6, <1>7, <2>3
    <3> QED
      BY <3>1
  <2> QED
    BY <2>1, <2>2, <2>3
<1>8. ASSUME NEW x \in d PROVE \E n \in 1..(N + 1) : u[n] = x
  <2>1. CASE x = k
    BY <1>1, <1>5, <2>1
  <2>2. CASE x \in c
    <3>1. PICK n \in 1..N : s[n] = x
      BY <1>2, <2>2
    <3>2. n + 1 \in 1..(N + 1)
      BY <1>1
    <3> QED
      BY <1>5, <3>1, <3>2
  <2> QED
    BY <2>1, <2>2 DEF d
<1>9. /\ N # 0 => 1 \in 1..N /\ N \in 1..N /\ l.head \in c /\ l.tail \in c
      /\ l.head # k /\ (l.tail = NoNode <=> N = 0)
  <2>1. N # 0 => 1 \in 1..N /\ N \in 1..N
    BY <1>1
  <2> QED
    BY <1>2, <1>3, <2>1, LRUAssumption
<1>10. after.head = u[1] /\ after.prev[u[1]] = NoNode
  BY <1>4, <1>5, <1>9
<1>11. after.tail = u[N + 1] /\ after.next[u[N + 1]] = NoNode
  <2>1. CASE N = 0
    BY <1>3, <1>4, <1>5, <2>1
  <2>2. CASE N # 0
    <3>1. u[N + 1] = s[N] /\ s[N] \in c
      BY <1>2, <1>5, <1>9, <2>2
    <3> QED
      BY <1>3, <1>4, <1>9, <2>2, <3>1
  <2> QED
    BY <2>1, <2>2
<1>12. ASSUME NEW n \in 1..N
       PROVE  after.next[u[n]] = u[n + 1] /\ after.prev[u[n + 1]] = u[n]
  <2>1. N # 0 /\ u[n + 1] = s[n] /\ s[n] \in c
    BY <1>2, <1>5
  <2>2. CASE n = 1
    BY <1>3, <1>4, <1>5, <1>9, <2>1, <2>2
  <2>3. CASE n # 1
    <3>1. /\ n - 1 \in 1..(N - 1) /\ n - 1 \in 1..N /\ (n - 1) + 1 = n
          /\ n \in 2..(N + 1)
      BY <1>1, <2>3
    <3>2. u[n] = s[n - 1] /\ s[n - 1] \in c
      BY <1>2, <1>6, <3>1
    <3>3. s[n] # s[1]
      BY <1>2, <1>9, <2>1, <2>3
    <3>4. l.next[s[n - 1]] = s[n] /\ l.prev[s[n]] = s[n - 1]
      BY <1>3, <3>1
    <3> QED
      BY <1>3, <1>4, <2>1, <3>2, <3>3, <3>4
  <2> QED
    BY <2>2, <2>3
<1>13. Links(after, u)
  <2>1. Len(u) # 0 /\ Len(u) - 1 = N
    BY <1>1, <1>5
  <2> QED
    BY <1>5, <1>10, <1>11, <1>12, <2>1 DEF Links
<1>14. Listed(after, d, u)
  BY <1>5, <1>7, <1>8, <1>13 DEF Listed
<1> QED
  BY <1>4, <1>14 DEF after, d, u

(* moveToFront() of a key in the list.                                     *)
LEMMA MoveListed ==
    ASSUME NEW c \in SUBSET LRUKeys, NEW l \in List, NEW s, Listed(l, c, s),
           NEW i \in 1..Len(s)
    PROVE  /\ MoveToFront(l, s[i]) \in List
           /\ Listed(MoveToFront(l, s[i]), c, <<s[i]>> \o RemovedAt(s, i))
<1>1. /\ Len(s) \in Nat /\ s \in [1..Len(s) -> c]
      /\ \A m, n \in 1..Len(s) : s[m] = s[n] => m = n
  BY Basics DEF Listed
<1>2. Len(s) # 0 /\ 1 \in 1..Len(s) /\ s[i] \in c /\ l.head = s[1]
  <2>1. Len(s) # 0 /\ 1 \in 1..Len(s)
    BY <1>1
  <2> QED
    BY <1>1, <2>1 DEF Listed, Links
<1>3. CASE i = 1
  <2>1. <<s[1]>> \o RemovedAt(s, 1) = s
    <3> DEFINE t == RemovedAt(s, 1)
    <3>1. /\ t \in Seq(c) /\ Len(t) = Len(s) - 1
          /\ \A n \in 1..(Len(s) - 1) : t[n] = s[n + 1]
      <4>1. \A n \in 1..(Len(s) - 1) : n + 1 \in 1..Len(s) /\ ~(n < 1)
        BY <1>1
      <4>2. t \in [1..(Len(s) - 1) -> c] /\ \A n \in 1..(Len(s) - 1) : t[n] = s[n + 1]
        BY <1>1, <4>1 DEF RemovedAt
      <4>3. Len(s) - 1 \in Nat
        BY <1>1, <1>2
      <4> HIDE DEF t
      <4> QED
        BY <4>2, <4>3
    <3> DEFINE u == <<s[1]>> \o t
    <3>2. /\ u \in Seq(c) /\ Len(u) = 1 + Len(t) /\ u[1] = s[1]
          /\ \A n \in 1..Len(t) : u[n + 1] = t[n]
      <4>1. Len(t) + 1 = 1 + Len(t)
        BY <1>1, <3>1
      <4>2. s[1] \in c
        BY <1>1, <1>2
      <4> HIDE DEF t
      <4> QED
        BY <3>1, <4>1, <4>2, Front
    <3> HIDE DEF u, t
    <3>3. Len(u) = Len(s)
      BY <1>1, <1>2, <3>1, <3>2
    <3>4. \A n \in 1..Len(s) : u[n] = s[n]
      <4> TAKE n \in 1..Len(s)
      <4>1. n # 1 => n - 1 \in 1..(Len(s) - 1) /\ (n - 1) + 1 = n
        BY <1>1
      <4> QED
        BY <3>1, <3>2, <4>1
    <3>5. u = s
      <4>1. s \in Seq(c)
        BY DEF Listed
      <4> QED
        BY <3>2, <3>3, <3>4, <4>1
    <3> QED
      BY <3>5 DEF u, t
  <2>2. MoveToFront(l, s[i]) = l
    BY <1>2, <1>3 DEF MoveToFront
  <2> QED
    BY <1>3, <2>1, <2>2
<1>4. CASE i # 1
  <2>1. s[i] # l.head
    BY <1>1, <1>2, <1>4
  <2>2. MoveToFront(l, s[i]) = AddToFront(RemoveNode(l, s[i]), s[i])
    BY <2>1 DEF MoveToFront
  <2> DEFINE removed == RemoveNode(l, s[i])
             d == c \ {s[i]}
             t == RemovedAt(s, i)
  <2>3. removed \in List /\ Listed(removed, d, t)
    BY RemoveListed
  <2>4. d \in SUBSET LRUKeys /\ s[i] \in LRUKeys /\ s[i] \notin d /\ d \cup {s[i]} = c
    BY <1>2
  <2> HIDE DEF removed, d, t
  <2>5. /\ AddToFront(removed, s[i]) \in List
        /\ Listed(AddToFront(removed, s[i]), d \cup {s[i]}, <<s[i]>> \o t)
    BY <2>3, <2>4, AddListed
  <2> QED
    BY <2>2, <2>4, <2>5 DEF removed, t
<1> QED
  BY <1>3, <1>4

(* Forgetting the links of a node that is not in the list.                 *)
LEMMA ForgetListed ==
    ASSUME NEW c \in SUBSET LRUKeys, NEW l \in List, NEW s, Listed(l, c, s),
           NEW k \in LRUKeys, k \notin c
    PROVE  Unlink(l, k) \in List /\ Listed(Unlink(l, k), c, s)
<1> DEFINE after == Unlink(l, k)
           prev == [l.prev EXCEPT ![k] = NoNode]
           next == [l.next EXCEPT ![k] = NoNode]
<1>1. /\ l.prev \in [LRUKeys -> Reference] /\ l.next \in [LRUKeys -> Reference]
      /\ l.head \in Reference /\ l.tail \in Reference
  BY DEF List
<1>2. /\ prev \in [LRUKeys -> Reference] /\ next \in [LRUKeys -> Reference]
      /\ \A x \in LRUKeys \ {k} : prev[x] = l.prev[x] /\ next[x] = l.next[x]
  BY <1>1 DEF Reference
<1>3. after = [l EXCEPT !.prev = prev, !.next = next]
  BY DEF Unlink
<1> HIDE DEF prev, next, after
<1>4. after = [head |-> l.head, tail |-> l.tail, prev |-> prev, next |-> next]
  BY <1>3 DEF List
<1>5. after \in List
  BY <1>1, <1>2, <1>4 DEF List
<1>6. PICK N \in Nat : N = Len(s)
  BY Basics
<1>7. \A n \in 1..N : s[n] \in LRUKeys \ {k}
  <2>1. s \in [1..N -> c]
    BY <1>6, Basics
  <2> QED
    BY <2>1
<1>8. Links(l, s)
  BY DEF Listed
<1>9. Links(after, s)
  <2>1. N # 0 => 1 \in 1..N /\ N \in 1..N
    BY <1>6
  <2>2. \A n \in 1..(N - 1) : n \in 1..N /\ n + 1 \in 1..N
    BY <1>6
  <2>3. /\ after.head = l.head /\ after.tail = l.tail
        /\ \A n \in 1..N : after.prev[s[n]] = l.prev[s[n]] /\ after.next[s[n]] = l.next[s[n]]
    BY <1>2, <1>4, <1>7
  <2> QED
    BY <1>6, <1>8, <2>1, <2>2, <2>3 DEF Links
<1>10. Listed(after, c, s)
  BY <1>9 DEF Listed
<1> QED
  BY <1>5, <1>10 DEF after

-----------------------------------------------------------------------------
(* The abstract cache.                                                     *)

LEMMA SameKept == \A s, S : Recency!Kept(s, S) = Kept(s, S)
<1>1. \A S : Recency!Cardinality(S) = Cardinality(S)
  BY DEF Recency!Cardinality, Cardinality, Recency!IsFiniteSet, IsFiniteSet
<1>2. \A S, i : Recency!Rank(S, i) = Rank(S, i)
  BY <1>1 DEF Recency!Rank, Rank
<1>3. \A S, m : Recency!Nth(S, m) = Nth(S, m)
  BY <1>2 DEF Recency!Nth, Nth
<1> QED
  BY <1>1, <1>3 DEF Recency!Kept, Kept

(* What the operators of the abstract cache mean for the list s.           *)
LEMMA Abstraction ==
    ASSUME ListInv, NEW s, Listed(list, cache, s)
    PROVE  /\ Order = s
           /\ Recency!Cached = cache
           /\ \A i \in 1..Len(s) : Recency!Dropped(s[i]) = RemovedAt(s, i)
           /\ \A k \in LRUKeys \ cache : Recency!Dropped(k) = s
<1>1. cache \in SUBSET LRUKeys /\ list \in List
  BY DEF ListInv
<1>2. Order = s
  BY <1>1, WalkIsListing DEF Order
<1>3. /\ Len(s) \in Nat /\ s \in Seq(cache) /\ DOMAIN s = 1..Len(s)
      /\ \A n \in 1..Len(s) : s[n] \in cache
      /\ \A m, n \in 1..Len(s) : s[m] = s[n] => m = n
      /\ \A k \in cache : \E n \in 1..Len(s) : s[n] = k
  BY DEF Listed
<1>4. Recency!Cached = cache
  BY <1>2, <1>3 DEF Recency!Cached
<1>5. \A k : Recency!Dropped(k) = Kept(s, {n \in DOMAIN s : s[n] # k})
  BY <1>2, SameKept DEF Recency!Dropped
<1>6. ASSUME NEW i \in 1..Len(s) PROVE Recency!Dropped(s[i]) = RemovedAt(s, i)
  <2>1. {n \in DOMAIN s : s[n] # s[i]} = DOMAIN s \ {i}
    BY <1>3
  <2>2. i \in DOMAIN s
    BY <1>3
  <2>3. Kept(s, DOMAIN s \ {i}) = RemovedAt(s, i)
    BY <1>3, <2>2, KeptAllButOne
  <2> QED
    BY <1>5, <2>1, <2>3
<1>7. ASSUME NEW k \in LRUKeys \ cache PROVE Recency!Dropped(k) = s
  <2>1. {n \in DOMAIN s : s[n] # k} = DOMAIN s
    BY <1>3
  <2>2. Kept(s, DOMAIN s) = s
    BY <1>3, KeptAll
  <2> QED
    BY <1>5, <2>1, <2>2
<1> QED
  BY <1>2, <1>4, <1>6, <1>7

(* A state reached with the list t satisfies the invariant.                *)
LEMMA ListedState ==
    ASSUME NEW t, cache' \in SUBSET LRUKeys, list' \in List, expired' \subseteq cache',
           Listed(list', cache', t), Len(t) <= MaxSize
    PROVE  ListInv' /\ Order' = t
<1>1. PICK c : c = cache'
  OBVIOUS
<1>2. PICK l : l = list'
  OBVIOUS
<1>3. c \in SUBSET LRUKeys /\ l \in List /\ Listed(l, c, t)
  BY <1>1, <1>2
<1>4. IsFiniteSet(c) /\ Cardinality(c) = Len(t) /\ Walk(l, c) = t
  BY <1>3, Basics, WalkIsListing
<1>5. t \in Seq(c)
  BY <1>3 DEF Listed
<1>6. ListInv'
  BY <1>1, <1>2, <1>3, <1>4, <1>5 DEF ListInv
<1> QED
  BY <1>1, <1>2, <1>4, <1>6 DEF Order

-----------------------------------------------------------------------------
(* The steps.                                                              *)

LEMMA ListInvInit == LRUInit => ListInv /\ Recency!Init
<1> SUFFICES ASSUME LRUInit PROVE ListInv /\ Recency!Init
  OBVIOUS
<1>1. cache = {} /\ list = EmptyList /\ expired = {}
  BY DEF LRUInit
<1>2. EmptyList \in List
  BY DEF EmptyList, NoLinks, List, Reference
<1>3. Listed(EmptyList, {}, <<>>)
  BY DEF Listed, Links, EmptyList
<1>4. Walk(EmptyList, {}) = <<>>
  BY <1>2, <1>3, WalkIsListing
<1>5. IsFiniteSet({}) /\ Cardinality({}) = 0
  BY FS_EmptySet
<1>6. ListInv
  <2>1. <<>> \in Seq({})
    OBVIOUS
  <2>2. 0 <= MaxSize
    BY LRUAssumption
  <2>3. IsFiniteSet(cache) /\ Cardinality(cache) <= MaxSize
    BY <1>1, <1>5, <2>2
  <2>4. \E s \in Seq(cache) : Listed(list, cache, s)
    BY <1>1, <1>3, <2>1
  <2>5. cache \subseteq LRUKeys /\ expired \subseteq cache /\ list \in List
    BY <1>1, <1>2
  <2> QED
    BY <2>3, <2>4, <2>5 DEF ListInv
<1>7. Recency!Init
  BY <1>1, <1>4 DEF Recency!Init, Order
<1> QED
  BY <1>6, <1>7

(* LRUDrop(): delete(), and get() of a key that has expired.                  *)
LEMMA DropStep ==
    ASSUME ListInv, NEW k \in cache, LRUDrop(k)
    PROVE  /\ ListInv'
           /\ Order' = Recency!Dropped(k)
           /\ expired' = expired \ {k}
<1>1. PICK s \in Seq(cache) : Listed(list, cache, s)
  BY DEF ListInv
<1>2. cache \in SUBSET LRUKeys /\ list \in List /\ expired \subseteq cache
      /\ Cardinality(cache) <= MaxSize
  BY DEF ListInv
<1>3. PICK i \in 1..Len(s) : s[i] = k
  BY <1>1 DEF Listed
<1> DEFINE l == RemoveNode(list, k)
           c == cache \ {k}
           t == RemovedAt(s, i)
<1>4. l \in List /\ Listed(l, c, t)
  BY <1>1, <1>2, <1>3, RemoveListed
<1>5. c \in SUBSET LRUKeys /\ k \in LRUKeys /\ k \notin c
  BY <1>2
<1>6. Unlink(l, k) \in List /\ Listed(Unlink(l, k), c, t)
  <2> HIDE DEF l, c, t
  <2> QED
    BY <1>4, <1>5, ForgetListed
<1>7. cache' = c /\ list' = Unlink(l, k) /\ expired' = expired \ {k}
  BY DEF LRUDrop
<1>8. Len(t) <= MaxSize
  <2>1. /\ Len(s) \in Nat /\ Cardinality(cache) = Len(s)
    BY <1>1, <1>2, Basics
  <2>2. Len(t) = Cardinality(c) /\ IsFiniteSet(c) /\ Len(t) \in Nat
    <3> HIDE DEF l, c, t
    <3> QED
      BY <1>4, <1>5, Basics
  <2>3. Cardinality(c) <= Cardinality(cache)
    <3>1. IsFiniteSet(cache) /\ c \in SUBSET cache
      BY <1>1, <1>2, Basics
    <3> HIDE DEF c
    <3> QED
      BY <3>1, FS_Subset
  <2>4. MaxSize \in Nat
    BY LRUAssumption
  <2> QED
    BY <1>2, <2>1, <2>2, <2>3, <2>4
<1>9. Recency!Dropped(k) = t
  BY <1>1, <1>3, Abstraction
<1>10. ListInv' /\ Order' = t
  <2>1. expired' \subseteq cache'
    BY <1>2, <1>7
  <2> HIDE DEF l, c, t
  <2> QED
    BY <1>5, <1>6, <1>7, <1>8, <2>1, ListedState
<1> QED
  BY <1>7, <1>9, <1>10

(* moveToFront(): get() of a live key, and set() of a cached one.          *)
LEMMA MoveStep ==
    ASSUME ListInv, NEW k \in cache, cache' = cache, list' = MoveToFront(list, k),
           expired' \subseteq cache
    PROVE  /\ ListInv'
           /\ Order' = <<k>> \o Recency!Dropped(k)
           /\ Len(<<k>> \o Recency!Dropped(k)) <= MaxSize
<1>1. PICK s \in Seq(cache) : Listed(list, cache, s)
  BY DEF ListInv
<1>2. cache \in SUBSET LRUKeys /\ list \in List /\ Cardinality(cache) <= MaxSize
  BY DEF ListInv
<1>3. PICK i \in 1..Len(s) : s[i] = k
  BY <1>1 DEF Listed
<1> DEFINE l == MoveToFront(list, k)
           t == <<k>> \o RemovedAt(s, i)
<1>4. l \in List /\ Listed(l, cache, t)
  BY <1>1, <1>2, <1>3, MoveListed
<1>5. Recency!Dropped(k) = RemovedAt(s, i)
  BY <1>1, <1>3, Abstraction
<1>6. Len(t) <= MaxSize
  <2> HIDE DEF l, t
  <2>1. Cardinality(cache) = Len(t)
    BY <1>2, <1>4, Basics
  <2> QED
    BY <1>2, <2>1
<1>7. ListInv' /\ Order' = t
  <2>1. list' = l
    OBVIOUS
  <2> HIDE DEF l, t
  <2> QED
    BY <1>2, <1>4, <1>6, <2>1, ListedState
<1> QED
  BY <1>5, <1>6, <1>7

(* set() of a new key, and the eviction that makes place for it.           *)
LEMMA AddStep ==
    ASSUME ListInv, NEW k \in LRUKeys \ cache, LRUAdd(k)
    PROVE  ListInv' /\ Recency!Set(k)
<1>1. PICK s \in Seq(cache) : Listed(list, cache, s)
  BY DEF ListInv
<1>2. cache \in SUBSET LRUKeys /\ list \in List /\ expired \subseteq cache
      /\ Cardinality(cache) <= MaxSize
  BY DEF ListInv
<1> DEFINE added == AddToFront(list, k)
           c == cache \cup {k}
           u == <<k>> \o s
<1>3. added \in List /\ Listed(added, c, u) /\ c \in SUBSET LRUKeys /\ k \in c
  BY <1>1, <1>2, AddListed
<1>4. /\ Len(u) \in Nat /\ Cardinality(c) = Len(u) /\ IsFiniteSet(c)
      /\ Len(u) = Len(s) + 1 /\ Len(s) \in Nat /\ Cardinality(cache) = Len(s)
      /\ Len(s) <= MaxSize /\ MaxSize \in Nat \ {0}
  <2>1. Len(s) \in Nat /\ Cardinality(cache) = Len(s)
    BY <1>1, <1>2, Basics
  <2>2. Len(u) = Len(s) + 1
    <3>1. s \in Seq(c) /\ k \in c
      BY <1>1
    <3> HIDE DEF c
    <3> QED
      BY <3>1, Front
  <2>3. Len(u) \in Nat /\ Cardinality(c) = Len(u) /\ IsFiniteSet(c)
    <3> HIDE DEF added, c, u
    <3> QED
      BY <1>3, Basics
  <2> QED
    BY <1>2, <2>1, <2>2, <2>3, LRUAssumption
<1>5. <<k>> \o Recency!Dropped(k) = u
  BY <1>1, Abstraction
<1>6. CASE Cardinality(c) <= MaxSize
  <2>1. cache' = c /\ list' = added /\ expired' = expired
    <3>1. ~(Cardinality(c) > MaxSize)
      BY <1>4, <1>6
    <3> QED
      BY <3>1 DEF LRUAdd
  <2>2. Len(u) <= MaxSize /\ ~(Len(u) > MaxSize)
    BY <1>4, <1>6
  <2>3. expired' \subseteq cache'
    BY <1>2, <2>1
  <2>4. ListInv' /\ Order' = u
    <3> HIDE DEF added, c, u
    <3> QED
      BY <1>3, <2>1, <2>2, <2>3, ListedState
  <2>5. \A e \in c : \E n \in DOMAIN u : u[n] = e
    <3> HIDE DEF added, c, u
    <3>1. u \in Seq(c) /\ \A e \in c : \E n \in 1..Len(u) : u[n] = e
      BY <1>3 DEF Listed
    <3>2. DOMAIN u = 1..Len(u)
      BY <3>1
    <3> QED
      BY <3>1, <3>2
  <2>6. expired' = {e \in expired \ {k} : \E n \in DOMAIN u : u[n] = e}
    <3>1. k \notin expired /\ expired \subseteq c
      BY <1>2
    <3> QED
      BY <2>1, <2>5, <3>1
  <2> HIDE DEF added, c, u
  <2> QED
    BY <1>5, <2>2, <2>4, <2>6 DEF Recency!Set
<1>7. CASE Cardinality(c) > MaxSize
  <2> DEFINE N == Len(u)
             victim == u[N]
             l == RemoveNode(added, victim)
             d == c \ {victim}
             t == RemovedAt(u, N)
             front == SubSeq(u, 1, N - 1)
  <2>1. N \in 1..N /\ N \in Nat /\ N # 0 /\ N # 1 /\ N > MaxSize /\ N - 1 <= MaxSize
    BY <1>4, <1>7
  <2>2. added.tail = victim /\ victim \in c /\ victim # k
    <3>1. u[1] = k
      <4>1. s \in Seq(c) /\ k \in c
        BY <1>1
      <4> HIDE DEF c
      <4> QED
        BY <4>1, Front
    <3> HIDE DEF added, c, u
    <3>2. added.tail = victim /\ victim \in c
      BY <1>3, <2>1 DEF Listed, Links
    <3>3. 1 \in 1..N
      BY <2>1
    <3> QED
      BY <1>3, <2>1, <3>1, <3>2, <3>3 DEF Listed
  <2>3. /\ cache' = d
        /\ list' = Unlink(l, victim)
        /\ expired' = expired \ {victim}
    BY <1>7, <2>2 DEF LRUAdd
  <2>4. l \in List /\ Listed(l, d, t)
    <3> HIDE DEF added, c, u
    <3> QED
      BY <1>3, <2>1, RemoveListed
  <2>5. d \in SUBSET LRUKeys /\ victim \in LRUKeys /\ victim \notin d
    BY <1>3, <2>2
  <2>6. Unlink(l, victim) \in List /\ Listed(Unlink(l, victim), d, t)
    <3> HIDE DEF l, d, t, victim
    <3> QED
      BY <2>4, <2>5, ForgetListed
  <2>7. expired' \subseteq cache'
    BY <1>2, <2>3
  <2>8. t = front
    <3> HIDE DEF added, c, u
    <3>1. u \in Seq(c)
      BY <1>3 DEF Listed
    <3>2. \A n \in 1..(N - 1) : u[n] \in c
      BY <2>1, <3>1
    <3>3. /\ front \in Seq(c)
          /\ Len(front) = IF 1 <= N - 1 THEN N - 1 - 1 + 1 ELSE 0
          /\ \A n \in 1..(N - 1 - 1 + 1) : front[n] = u[1 + n - 1]
      BY <2>1, <3>2, SubSeqProperties
    <3> HIDE DEF front, N
    <3>4. 1 <= N - 1 /\ N - 1 - 1 + 1 = N - 1 /\ \A n \in 1..(N - 1) : 1 + n - 1 = n /\ n < N
      BY <2>1
    <3>5. Len(front) = N - 1 /\ \A n \in 1..(N - 1) : front[n] = u[n]
      BY <3>3, <3>4
    <3>6. front = [n \in 1..(N - 1) |-> u[n]]
      BY <3>3, <3>5
    <3> QED
      BY <3>4, <3>6 DEF RemovedAt, N
  <2>9. Len(t) = N - 1
    BY <2>1 DEF RemovedAt
  <2>10. ListInv' /\ Order' = t
    <3>1. Len(t) <= MaxSize
      BY <2>1, <2>9
    <3> HIDE DEF l, d, t, victim
    <3> QED
      BY <2>3, <2>5, <2>6, <2>7, <3>1, ListedState
  <2>11. expired' = {e \in expired \ {k} : \E n \in DOMAIN t : t[n] = e}
    <3>1. t \in Seq(d) /\ \A e \in d : \E n \in 1..Len(t) : t[n] = e
      <4> HIDE DEF l, d, t
      <4> QED
        BY <2>4 DEF Listed
    <3>2. DOMAIN t = 1..Len(t) /\ \A n \in DOMAIN t : t[n] \in d
      <4> HIDE DEF l, d, t
      <4> QED
        BY <3>1
    <3>3. \A e \in expired : e # k /\ (e \in d <=> e # victim)
      BY <1>2
    <3> HIDE DEF t, d, victim
    <3> QED
      BY <2>3, <3>1, <3>2, <3>3
  <2>12. Order' = IF Len(u) > MaxSize THEN SubSeq(u, 1, Len(u) - 1) ELSE u
    BY <2>1, <2>8, <2>10
  <2>13. expired' = {e \in expired \ {k} : \E n \in DOMAIN Order' : Order'[n] = e}
    BY <2>10, <2>11
  <2> HIDE DEF added, c, u, t, victim, N, l, d, front
  <2> QED
    BY <1>5, <2>10, <2>12, <2>13 DEF Recency!Set
<1> QED
  BY <1>4, <1>6, <1>7

LEMMA GetStep ==
    ASSUME ListInv, NEW k \in LRUKeys, LRUGet(k)
    PROVE  ListInv' /\ (Recency!Get(k) \/ UNCHANGED lruVars)
<1>1. expired \subseteq cache /\ Recency!Cached = cache
  <2>1. PICK s \in Seq(cache) : Listed(list, cache, s)
    BY DEF ListInv
  <2> QED
    BY <2>1, Abstraction DEF ListInv
<1>2. CASE k \in cache \ expired /\ list' = MoveToFront(list, k) /\ UNCHANGED <<cache, expired>>
  <2>1. ListInv' /\ Order' = <<k>> \o Recency!Dropped(k)
    BY <1>1, <1>2, MoveStep
  <2>2. Recency!Get(k)
    BY <1>1, <1>2, <2>1 DEF Recency!Get
  <2> QED
    BY <2>1, <2>2
<1>3. CASE k \in expired /\ LRUDrop(k)
  <2>1. ListInv' /\ Order' = Recency!Dropped(k) /\ expired' = expired \ {k}
    BY <1>1, <1>3, DropStep
  <2>2. Recency!Get(k)
    BY <1>3, <2>1 DEF Recency!Get
  <2> QED
    BY <2>1, <2>2
<1>4. CASE UNCHANGED lruVars
  BY <1>4 DEF lruVars, ListInv
<1> QED
  BY <1>2, <1>3, <1>4 DEF LRUGet

LEMMA LRUSetStep ==
    ASSUME ListInv, NEW k \in LRUKeys, LRUSet(k)
    PROVE  ListInv' /\ Recency!Set(k)
<1>1. CASE k \in cache /\ list' = MoveToFront(list, k) /\ expired' = expired \ {k} /\ cache' = cache
  <2> DEFINE u == <<k>> \o Recency!Dropped(k)
  <2>1. expired' \subseteq cache
    BY <1>1 DEF ListInv
  <2>2. ListInv' /\ Order' = u /\ Len(u) <= MaxSize
    BY <1>1, <2>1, MoveStep
  <2>3. PICK t \in Seq(cache') : Listed(list', cache', t)
    BY <2>2 DEF ListInv
  <2>4. PICK c : c = cache'
    OBVIOUS
  <2>5. PICK l : l = list'
    OBVIOUS
  <2>6. c \in SUBSET LRUKeys /\ l \in List /\ Listed(l, c, t)
    BY <2>2, <2>3, <2>4, <2>5 DEF ListInv
  <2>7. t = u
    BY <2>2, <2>4, <2>5, <2>6, WalkIsListing DEF Order
  <2>8. Len(t) \in Nat /\ ~(Len(t) > MaxSize)
    BY <2>2, <2>6, <2>7, Basics, LRUAssumption
  <2>9. DOMAIN t = 1..Len(t) /\ \A e \in c : \E n \in DOMAIN t : t[n] = e
    <3>1. t \in Seq(c) /\ \A e \in c : \E n \in 1..Len(t) : t[n] = e
      BY <2>6 DEF Listed
    <3>2. DOMAIN t = 1..Len(t)
      BY <3>1
    <3> QED
      BY <3>1, <3>2
  <2>10. expired' = {e \in expired \ {k} : \E n \in DOMAIN t : t[n] = e}
    BY <1>1, <2>1, <2>4, <2>9
  <2> HIDE DEF u
  <2>11. Order' = IF Len(u) > MaxSize THEN SubSeq(u, 1, Len(u) - 1) ELSE u
    BY <2>2, <2>7, <2>8
  <2>12. expired' = {e \in expired \ {k} : \E n \in DOMAIN Order' : Order'[n] = e}
    BY <2>2, <2>7, <2>10
  <2>13. Recency!Set(k)
    BY <2>11, <2>12 DEF Recency!Set, u
  <2> QED
    BY <2>2, <2>13
<1>2. CASE k \notin cache /\ LRUAdd(k)
  BY <1>2, AddStep
<1> QED
  BY <1>1, <1>2 DEF LRUSet

LEMMA DeleteStep ==
    ASSUME ListInv, NEW k \in LRUKeys, LRUDelete(k)
    PROVE  ListInv' /\ Recency!Delete(k)
<1>1. CASE k \in cache /\ LRUDrop(k)
  BY <1>1, DropStep DEF Recency!Delete
<1>2. CASE k \notin cache /\ UNCHANGED lruVars
  <2>1. PICK s \in Seq(cache) : Listed(list, cache, s)
    BY DEF ListInv
  <2>2. Order = s /\ Recency!Dropped(k) = s
    BY <1>2, <2>1, Abstraction
  <2>3. Order' = Order /\ expired' = expired /\ k \notin expired
    BY <1>2 DEF lruVars, Order, ListInv
  <2>4. ListInv'
    BY <1>2 DEF lruVars, ListInv
  <2>5. expired' = expired \ {k}
    BY <2>3
  <2> QED
    BY <2>2, <2>3, <2>4, <2>5 DEF Recency!Delete
<1> QED
  BY <1>1, <1>2 DEF LRUDelete

LEMMA ClearStep ==
    ASSUME ListInv, LRUClear
    PROVE  ListInv' /\ Recency!Clear
<1>1. cache' = {} /\ list' = EmptyList /\ expired' = {}
  BY DEF LRUClear
<1>2. EmptyList \in List
  BY DEF EmptyList, NoLinks, List, Reference
<1>3. Listed(EmptyList, {}, <<>>)
  BY DEF Listed, Links, EmptyList
<1>4. Len(<<>>) <= MaxSize
  BY LRUAssumption
<1>5. ListInv' /\ Order' = <<>>
  <2> DEFINE empty == <<>>
  <2>1. Listed(EmptyList, {}, empty) /\ Len(empty) <= MaxSize
    BY <1>3, <1>4
  <2> HIDE DEF empty
  <2>2. ListInv' /\ Order' = empty
    BY <1>1, <1>2, <2>1, ListedState
  <2> QED
    BY <2>2 DEF empty
<1> QED
  BY <1>1, <1>5 DEF Recency!Clear

LEMMA ExpireStep ==
    ASSUME ListInv, NEW k \in LRUKeys, LRUExpire(k)
    PROVE  ListInv' /\ Recency!Expire(k)
<1>1. PICK s \in Seq(cache) : Listed(list, cache, s)
  BY DEF ListInv
<1>2. Recency!Cached = cache
  BY <1>1, Abstraction
<1>3. /\ k \in cache \ expired /\ expired' = expired \cup {k}
      /\ cache' = cache /\ list' = list
  BY DEF LRUExpire
<1>4. ListInv'
  BY <1>3 DEF ListInv
<1>5. Order' = Order
  BY <1>3 DEF Order
<1> QED
  BY <1>2, <1>3, <1>4, <1>5 DEF Recency!Expire

LEMMA ListStep == ListInv /\ [LRUNext]_lruVars => ListInv' /\ [Recency!Next]_(Recency!recency)
<1> SUFFICES ASSUME ListInv, [LRUNext]_lruVars
             PROVE  ListInv' /\ [Recency!Next]_(Recency!recency)
  OBVIOUS
<1>1. UNCHANGED lruVars => ListInv' /\ UNCHANGED Recency!recency
  BY DEF lruVars, ListInv, Recency!recency, Order
<1>2. ASSUME NEW k \in LRUKeys, LRUGet(k) PROVE ListInv' /\ (Recency!Next \/ UNCHANGED lruVars)
  BY <1>2, GetStep DEF Recency!Next
<1>3. ASSUME NEW k \in LRUKeys, LRUSet(k) PROVE ListInv' /\ Recency!Next
  BY <1>3, LRUSetStep DEF Recency!Next
<1>4. ASSUME NEW k \in LRUKeys, LRUDelete(k) PROVE ListInv' /\ Recency!Next
  BY <1>4, DeleteStep DEF Recency!Next
<1>5. ASSUME NEW k \in LRUKeys, LRUExpire(k) PROVE ListInv' /\ Recency!Next
  BY <1>5, ExpireStep DEF Recency!Next
<1>6. CASE LRUClear
  BY <1>6, ClearStep DEF Recency!Next
<1> QED
  BY <1>1, <1>2, <1>3, <1>4, <1>5, <1>6 DEF LRUNext

(* The links form one list of the cached keys in every reachable state.    *)
THEOREM ListInvHolds == LRUSpec => []ListInv
  BY ListInvInit, ListStep, PTL DEF LRUSpec

-----------------------------------------------------------------------------
(* The properties of the runs.                                             *)

LEMMA InvSound == ListInv => ListIsSound
<1> SUFFICES ASSUME ListInv PROVE ListIsSound
  OBVIOUS
<1>1. PICK s \in Seq(cache) : Listed(list, cache, s)
  BY DEF ListInv
<1>2. cache \in SUBSET LRUKeys /\ list \in List /\ expired \subseteq cache
  BY DEF ListInv
<1>3. PICK N \in Nat : N = Len(s)
  BY <1>1, <1>2, Basics
<1>4. /\ s \in [1..N -> cache] /\ NoNode \notin cache
      /\ \A m, n \in 1..N : s[m] = s[n] => m = n
      /\ \A k \in cache : \E n \in 1..N : s[n] = k
  BY <1>1, <1>2, <1>3, Basics DEF Listed
<1>5. /\ N = 0 => list.head = NoNode /\ list.tail = NoNode
      /\ N # 0 => /\ list.head = s[1] /\ list.prev[s[1]] = NoNode
                 /\ list.tail = s[N] /\ list.next[s[N]] = NoNode
      /\ \A n \in 1..(N - 1) : list.next[s[n]] = s[n + 1] /\ list.prev[s[n + 1]] = s[n]
  BY <1>1, <1>3 DEF Listed, Links
<1>6. N # 0 => 1 \in 1..N /\ N \in 1..N
  BY <1>3
<1>7. N = 0 <=> cache = {}
  BY <1>3, <1>4, <1>6
<1>8. /\ list.head = NoNode <=> cache = {}
      /\ list.tail = NoNode <=> cache = {}
      /\ {list.head, list.tail} \subseteq cache \cup {NoNode}
  BY <1>4, <1>5, <1>6, <1>7
<1>9. ASSUME NEW k \in cache
      PROVE  /\ list.prev[k] = NoNode <=> list.head = k
             /\ list.prev[k] # NoNode =>
                  list.prev[k] \in cache /\ list.next[list.prev[k]] = k
  <2>1. PICK n \in 1..N : s[n] = k
    BY <1>4
  <2>2. CASE n = 1
    BY <1>4, <1>5, <1>6, <2>1, <2>2
  <2>3. CASE n # 1
    <3>1. n - 1 \in 1..(N - 1) /\ n - 1 \in 1..N /\ (n - 1) + 1 = n /\ N # 0
      BY <1>3, <2>3
    <3>2. list.prev[k] = s[n - 1] /\ list.next[s[n - 1]] = k
      BY <1>5, <2>1, <3>1
    <3>3. s[n - 1] \in cache /\ k # s[1]
      BY <1>4, <1>6, <2>1, <2>3, <3>1
    <3> QED
      BY <1>4, <1>5, <3>1, <3>2, <3>3
  <2> QED
    BY <2>2, <2>3
<1>10. ASSUME NEW k \in cache
       PROVE  /\ list.next[k] = NoNode <=> list.tail = k
              /\ list.next[k] # NoNode =>
                   list.next[k] \in cache /\ list.prev[list.next[k]] = k
  <2>1. PICK n \in 1..N : s[n] = k
    BY <1>4
  <2>2. CASE n = N
    <3>1. N # 0
      BY <2>1
    <3> QED
      BY <1>4, <1>5, <1>6, <2>1, <2>2, <3>1
  <2>3. CASE n # N
    <3>1. n \in 1..(N - 1) /\ n + 1 \in 1..N /\ N # 0
      BY <1>3, <2>3
    <3>2. list.next[k] = s[n + 1] /\ list.prev[s[n + 1]] = k
      BY <1>5, <2>1, <3>1
    <3>3. s[n + 1] \in cache /\ k # s[N]
      BY <1>4, <1>6, <2>1, <2>3, <3>1
    <3> QED
      BY <1>4, <1>5, <3>1, <3>2, <3>3
  <2> QED
    BY <2>2, <2>3
<1>11. LinksAgree
  BY <1>8, <1>9, <1>10 DEF LinksAgree
<1>12. ListOK /\ SizeBounded
  BY DEF ListInv, List, ListOK, SizeBounded
<1> QED
  BY <1>11, <1>12 DEF ListIsSound

(* No sequence of get(), set(), delete(), clear() and expiries of LRUCache *)
(* leaves head, tail or a link at a node that is gone, or overfills it.    *)
THEOREM ListSound == LRUSpec => []ListIsSound
  BY ListInvHolds, InvSound, PTL

(* The class implements the cache of RecencyCache: what evictLRU() gives   *)
(* up is the key that was not used for the longest time.                   *)
THEOREM Implements == LRUSpec => ImplementsRecency
  BY ListInvInit, ListInvHolds, ListStep, PTL DEF LRUSpec, ImplementsRecency, Recency!Spec

-----------------------------------------------------------------------------
(* Both layers.                                                            *)

(* An entry of the first layer holds what was set last, and may outlive it *)
(* by one default time to live, that of a promotion.                       *)
Backed(e, set) ==
    /\ set # Null
    /\ e.data = set.data
    /\ e.expiry <= set.expiry + DefaultTTL

Distinct(layer) == \A m, n \in DOMAIN layer : layer[m].key = layer[n].key => m = n

L1Sound(layer, sets) ==
    /\ layer \in Seq(Entry)
    /\ Distinct(layer)
    /\ \A n \in DOMAIN layer : Backed(layer[n], sets[layer[n].key])

(* An item of the second layer is what was set last, its expiry included.  *)
L2Sound(items, sets, time) ==
    /\ IsFiniteSet(DOMAIN items)
    /\ DOMAIN items \subseteq Keys
    /\ items \in [DOMAIN items -> Item]
    /\ \A k \in DOMAIN items :
         /\ items[k].lastAccessed <= time
         /\ sets[k] # Null
         /\ items[k].data = sets[k].data
         /\ items[k].expiry = sets[k].expiry

Sets == [Keys -> [data : Data, expiry : Nat] \cup {Null}]

Inv ==
    /\ now \in 0..MaxTime
    /\ latest \in Sets
    /\ L1Sound(l1, latest)
    /\ Len(l1) <= L1MaxSize
    /\ L2Sound(l2, latest, now)

-----------------------------------------------------------------------------
(* The first layer.                                                        *)

(* Removing keys leaves elements of the layer, without those keys.         *)
LEMMA WithoutIsPart ==
    ASSUME NEW layer \in Seq(Entry), Distinct(layer), NEW gone
    PROVE  LET rest == Without(layer, gone)
           IN  /\ rest \in Seq(Entry)
               /\ Distinct(rest)
               /\ Len(rest) <= Len(layer)
               /\ \A n \in DOMAIN rest : \E m \in DOMAIN layer :
                     rest[n] = layer[m] /\ layer[m].key \notin gone
               /\ (\E m \in DOMAIN layer : layer[m].key \in gone)
                     => Len(rest) < Len(layer)
<1> DEFINE S == {n \in DOMAIN layer : layer[n].key \notin gone}
           rest == Kept(layer, S)
<1>1. /\ S \in SUBSET DOMAIN layer
      /\ \A n \in S : layer[n].key \notin gone
      /\ \A n \in DOMAIN layer : layer[n].key \in gone => n \notin S
  OBVIOUS
<1> HIDE DEF S
<1>2. /\ rest \in Seq(Entry)
      /\ Len(rest) = Cardinality(S)
      /\ Cardinality(S) \in 0..Len(layer)
      /\ \A m \in 1..Cardinality(S) : Nth(S, m) \in S /\ rest[m] = layer[Nth(S, m)]
      /\ \A l, m \in 1..Cardinality(S) : Nth(S, l) = Nth(S, m) => l = m
  BY <1>1, KeptFromList
<1>3. rest = Without(layer, gone)
  BY DEF Without, S
<1> HIDE DEF rest
<1>4. DOMAIN rest = 1..Cardinality(S)
  BY <1>2
<1>5. \A n \in DOMAIN rest : \E m \in DOMAIN layer :
            rest[n] = layer[m] /\ layer[m].key \notin gone
  BY <1>1, <1>2, <1>4
<1>6. Distinct(rest)
  BY <1>1, <1>2, <1>4 DEF Distinct
<1>7. ASSUME NEW m \in DOMAIN layer, layer[m].key \in gone
      PROVE  Cardinality(S) < Len(layer)
  <2>1. Len(layer) \in Nat /\ DOMAIN layer = 1..Len(layer)
    OBVIOUS
  <2>2. \A n \in Nat : IsFiniteSet(1..n) /\ Cardinality(1..n) = n
    BY FS_Interval
  <2>3. /\ IsFiniteSet((1..Len(layer)) \ {m})
        /\ Cardinality((1..Len(layer)) \ {m}) = Len(layer) - 1
    BY <2>1, <2>2, FS_RemoveElement
  <2>4. S \in SUBSET ((1..Len(layer)) \ {m})
    BY <1>1, <1>7, <2>1
  <2> DEFINE others == (1..Len(layer)) \ {m}
  <2>5. IsFiniteSet(others) /\ S \in SUBSET others
    BY <2>3, <2>4
  <2> HIDE DEF others
  <2>6. Cardinality(S) <= Cardinality(others)
    BY <2>5, FS_Subset
  <2>7. Cardinality(S) <= Len(layer) - 1
    BY <2>3, <2>6 DEF others
  <2> QED
    BY <1>2, <2>1, <2>7
<1> QED
  BY <1>2, <1>3, <1>5, <1>6, <1>7

(* What is left is sound, also when the keys removed were deleted.         *)
LEMMA WithoutIsSound ==
    ASSUME NEW sets, NEW after, NEW layer, L1Sound(layer, sets), NEW gone,
           \A k \in Keys \ gone : after[k] = sets[k]
    PROVE  L1Sound(Without(layer, gone), after)
<1> DEFINE rest == Without(layer, gone)
<1>1. /\ rest \in Seq(Entry)
      /\ Distinct(rest)
      /\ \A n \in DOMAIN rest : \E m \in DOMAIN layer :
            rest[n] = layer[m] /\ layer[m].key \notin gone
  BY WithoutIsPart DEF L1Sound
<1>2. \A m \in DOMAIN layer : layer[m].key \in Keys
  <2>1. \A m \in DOMAIN layer : layer[m] \in Entry
    BY DEF L1Sound
  <2> QED
    BY <2>1 DEF Entry
<1> HIDE DEF rest
<1>3. ASSUME NEW n \in DOMAIN rest PROVE Backed(rest[n], after[rest[n].key])
  <2>1. PICK m \in DOMAIN layer : rest[n] = layer[m] /\ layer[m].key \notin gone
    BY <1>1
  <2>2. after[layer[m].key] = sets[layer[m].key]
    BY <1>2, <2>1
  <2>3. Backed(layer[m], sets[layer[m].key])
    BY DEF L1Sound
  <2> QED
    BY <2>1, <2>2, <2>3
<1>4. L1Sound(rest, after)
  BY <1>1, <1>3 DEF L1Sound
<1> QED
  BY <1>4 DEF rest

(* A sound entry in front of what is left without its key.                 *)
LEMMA FrontIsSound ==
    ASSUME NEW sets, NEW after, NEW layer, L1Sound(layer, sets), NEW e \in Entry,
           \A k \in Keys \ {e.key} : after[k] = sets[k],
           Backed(e, after[e.key])
    PROVE  LET used == <<e>> \o Without(layer, {e.key})
           IN  /\ L1Sound(used, after)
               /\ Len(used) <= Len(layer) + 1
               /\ (\E m \in DOMAIN layer : layer[m].key = e.key) => Len(used) <= Len(layer)
<1> DEFINE rest == Without(layer, {e.key})
           used == <<e>> \o rest
<1>1. L1Sound(rest, after)
  BY WithoutIsSound
<1>2. /\ Len(rest) <= Len(layer)
      /\ \A n \in DOMAIN rest : rest[n].key # e.key
      /\ (\E m \in DOMAIN layer : layer[m].key = e.key) => Len(rest) < Len(layer)
  <2>1. /\ Len(rest) <= Len(layer)
        /\ \A n \in DOMAIN rest : \E m \in DOMAIN layer :
              rest[n] = layer[m] /\ layer[m].key \notin {e.key}
        /\ (\E m \in DOMAIN layer : layer[m].key \in {e.key}) => Len(rest) < Len(layer)
    BY WithoutIsPart DEF L1Sound
  <2> QED
    BY <2>1
<1>3. layer \in Seq(Entry) /\ rest \in Seq(Entry)
  BY <1>1 DEF L1Sound
<1> HIDE DEF rest
<1>4. /\ used \in Seq(Entry)
      /\ Len(used) = Len(rest) + 1
      /\ used[1] = e
      /\ \A n \in 1..Len(rest) : used[n + 1] = rest[n]
  BY <1>3
<1> HIDE DEF used
<1>5. \A n \in DOMAIN used : n = 1 \/ (n - 1 \in DOMAIN rest /\ used[n] = rest[n - 1])
  <2> TAKE n \in DOMAIN used
  <2>1. n \in 1..(Len(rest) + 1) /\ Len(rest) \in Nat /\ DOMAIN rest = 1..Len(rest)
    BY <1>3, <1>4
  <2>2. n # 1 => n - 1 \in 1..Len(rest) /\ (n - 1) + 1 = n
    BY <2>1
  <2> QED
    BY <1>4, <2>1, <2>2
<1>6. Distinct(used)
  <2>1. \A m, n \in DOMAIN rest : rest[m].key = rest[n].key => m = n
    BY <1>1 DEF L1Sound, Distinct
  <2>2. SUFFICES ASSUME NEW m \in DOMAIN used, NEW n \in DOMAIN used,
                        used[m].key = used[n].key
                 PROVE  m = n
    BY DEF Distinct
  <2>3. m \in Int /\ n \in Int
    BY <1>4
  <2> QED
    BY <1>2, <1>4, <1>5, <2>1, <2>2, <2>3
<1>7. \A n \in DOMAIN used : Backed(used[n], after[used[n].key])
  BY <1>1, <1>4, <1>5 DEF L1Sound
<1>8. L1Sound(used, after)
  BY <1>4, <1>6, <1>7 DEF L1Sound
<1>9. Len(rest) \in Nat /\ Len(layer) \in Nat
  BY <1>3
<1> QED
  BY <1>2, <1>4, <1>8, <1>9 DEF used, rest

(* The last entry is given up.                                             *)
LEMMA TrimIsSound ==
    ASSUME NEW sets, NEW layer, L1Sound(layer, sets), Len(layer) > 0
    PROVE  LET front == SubSeq(layer, 1, Len(layer) - 1)
           IN  L1Sound(front, sets) /\ Len(front) = Len(layer) - 1
<1> DEFINE front == SubSeq(layer, 1, Len(layer) - 1)
<1>1. layer \in Seq(Entry) /\ Len(layer) \in Nat
  BY DEF L1Sound
<1>2. /\ front \in Seq(Entry)
      /\ Len(front) = Len(layer) - 1
      /\ \A n \in 1..(Len(layer) - 1) : front[n] = layer[n]
  <2>1. \A n \in 1..(Len(layer) - 1) : layer[n] \in Entry
    BY <1>1
  <2>2. /\ front \in Seq(Entry)
        /\ Len(front) = IF 1 <= Len(layer) - 1 THEN Len(layer) - 1 - 1 + 1 ELSE 0
        /\ \A n \in 1..(Len(layer) - 1 - 1 + 1) : front[n] = layer[1 + n - 1]
    BY <1>1, <2>1, SubSeqProperties
  <2> HIDE DEF front
  <2>3. Len(layer) - 1 - 1 + 1 = Len(layer) - 1
    BY <1>1
  <2>4. \A n \in 1..(Len(layer) - 1) : 1 + n - 1 = n
    OBVIOUS
  <2>5. Len(front) = Len(layer) - 1
    <3>1. \A n \in Nat : n > 0 => (IF 1 <= n - 1 THEN n - 1 - 1 + 1 ELSE 0) = n - 1
      OBVIOUS
    <3> QED
      BY <1>1, <2>2, <3>1, Zenon
  <2>6. \A n \in 1..(Len(layer) - 1) : front[n] = layer[n]
    BY <2>2, <2>3, <2>4
  <2> QED
    BY <2>2, <2>5, <2>6
<1> HIDE DEF front
<1>3. \A n \in DOMAIN front : n \in DOMAIN layer /\ front[n] = layer[n]
  BY <1>1, <1>2
<1>4. Distinct(front)
  BY <1>3 DEF Distinct, L1Sound
<1>5. L1Sound(front, sets)
  BY <1>2, <1>3, <1>4 DEF L1Sound
<1> QED
  BY <1>2, <1>5 DEF front

-----------------------------------------------------------------------------
(* The second layer.                                                       *)

(* Some of the items, also when the others were deleted.                   *)
LEMMA PartIsSound ==
    ASSUME NEW sets, NEW after, NEW time, NEW items, L2Sound(items, sets, time),
           NEW gone, \A k \in Keys \ gone : after[k] = sets[k]
    PROVE  /\ L2Sound(L2Without(items, gone), after, time)
           /\ Cardinality(DOMAIN items) \in Nat
           /\ Cardinality(DOMAIN items \ gone) \in Nat
           /\ Cardinality(DOMAIN items \ gone) <= Cardinality(DOMAIN items)
<1> DEFINE rest == L2Without(items, gone)
<1>1. /\ DOMAIN rest = DOMAIN items \ gone
      /\ rest \in [DOMAIN rest -> Item]
      /\ \A k \in DOMAIN rest : k \in Keys \ gone /\ rest[k] = items[k]
  BY DEF L2Without, L2Sound
<1>2. IsFiniteSet(DOMAIN items)
  BY DEF L2Sound
<1>3. /\ IsFiniteSet(DOMAIN items \ gone)
      /\ Cardinality(DOMAIN items \ gone) <= Cardinality(DOMAIN items)
  BY <1>2, FS_Subset
<1>4. /\ Cardinality(DOMAIN items) \in Nat
      /\ Cardinality(DOMAIN items \ gone) \in Nat
  BY <1>2, <1>3, FS_CardinalityType
<1> HIDE DEF rest
<1>5. L2Sound(rest, after, time)
  BY <1>1, <1>3 DEF L2Sound
<1> QED
  BY <1>3, <1>4, <1>5 DEF rest

(* Of items that were used at different instants some were used first.     *)
LEMMA SomeVictim ==
    ASSUME Inv, NEW items, IsFiniteSet(DOMAIN items),
           \A k \in DOMAIN items : items[k].lastAccessed \in 0..now,
           Victims(items) = {}
    PROVE  \A k \in DOMAIN items : items[k].lastAccessed = now
<1> DEFINE older == {k \in DOMAIN items : items[k].lastAccessed < now}
           used == {items[k].lastAccessed : k \in older}
<1>1. now \in Nat
  BY CacheAssumption DEF Inv
<1>2. SUFFICES ASSUME NEW k \in older PROVE FALSE
  BY <1>1
<1>3. used \in SUBSET Nat /\ used # {}
  BY <1>1, <1>2
<1>4. PICK first \in used : \A u \in used : first <= u
  BY <1>3, LeastMember
<1>5. PICK victim \in older : items[victim].lastAccessed = first
  BY <1>4
<1>6. \A other \in older : items[victim].lastAccessed <= items[other].lastAccessed
  BY <1>4, <1>5
<1>7. victim \in Victims(items)
  BY <1>5, <1>6 DEF Victims
<1> QED
  BY <1>7

-----------------------------------------------------------------------------
(* The invariant.                                                          *)

LEMMA InvInit == Init => Inv
<1> SUFFICES ASSUME Init PROVE Inv
  OBVIOUS
<1>1. now \in 0..MaxTime /\ latest \in Sets
  BY CacheAssumption DEF Init, Sets
<1>2. L1Sound(l1, latest) /\ Len(l1) <= L1MaxSize
  <2>1. l1 = <<>> /\ L1MaxSize \in Nat
    BY CacheAssumption DEF Init
  <2> QED
    BY <2>1 DEF L1Sound, Distinct
<1>3. L2Sound(l2, latest, now)
  BY FS_EmptySet DEF Init, NoItems, L2Sound
<1> QED
  BY <1>1, <1>2, <1>3 DEF Inv

(* What L1Set() leaves in the first layer is sound.                        *)
LEMMA L1SetSound ==
    ASSUME Inv, NEW k \in Keys, NEW data \in Data, NEW ttl \in Nat, NEW after,
           \A other \in Keys \ {k} : after[other] = latest[other],
           Backed([key |-> k, data |-> data, expiry |-> now + ttl], after[k])
    PROVE  L1Sound(L1Set(k, data, ttl), after) /\ Len(L1Set(k, data, ttl)) <= L1MaxSize
<1> DEFINE entry == [key |-> k, data |-> data, expiry |-> now + ttl]
           used == <<entry>> \o Without(l1, {k})
<1>1. now \in Nat /\ L1MaxSize \in Nat \ {0} /\ L1Sound(l1, latest) /\ Len(l1) <= L1MaxSize
  BY CacheAssumption DEF Inv
<1>2. entry \in Entry /\ entry.key = k
  BY <1>1 DEF Entry
<1>3. Backed(entry, after[entry.key]) /\ (\A other \in Keys \ {entry.key} : after[other] = latest[other])
  BY <1>2
<1>4. L1Set(k, data, ttl) = IF Len(used) > L1MaxSize THEN SubSeq(used, 1, Len(used) - 1) ELSE used
  BY DEF L1Set
<1>5. used = <<entry>> \o Without(l1, {entry.key})
  BY <1>2
<1> HIDE DEF entry, used
<1>6. L1Sound(used, after) /\ Len(used) <= Len(l1) + 1
  BY <1>1, <1>2, <1>3, <1>5, FrontIsSound
<1>7. Len(used) \in Nat /\ Len(l1) \in Nat
  BY <1>1, <1>6 DEF L1Sound
<1>8. CASE Len(used) > L1MaxSize
  <2>1. /\ L1Sound(SubSeq(used, 1, Len(used) - 1), after)
        /\ Len(SubSeq(used, 1, Len(used) - 1)) = Len(used) - 1
    BY <1>1, <1>6, <1>7, <1>8, TrimIsSound
  <2> QED
    BY <1>1, <1>4, <1>6, <1>7, <1>8, <2>1
<1>9. CASE ~(Len(used) > L1MaxSize)
  BY <1>1, <1>4, <1>6, <1>7, <1>9
<1> QED
  BY <1>8, <1>9

(* The items with a new one among them, before anything is evicted.        *)
LEMMA L2WithSound ==
    ASSUME Inv, NEW k \in Keys, NEW data \in Data, NEW ttl \in Nat
    PROVE  LET items == L2With(k, data, ttl)
               after == [latest EXCEPT ![k] = [data |-> data, expiry |-> now + ttl]]
           IN  /\ L2Sound(items, after, now)
               /\ DOMAIN items = DOMAIN l2 \cup {k}
               /\ items[k].lastAccessed = now
               /\ \A other \in DOMAIN l2 \ {k} : items[other] = l2[other]
               /\ Cardinality(DOMAIN l2) \in Nat
               /\ Cardinality(DOMAIN items) \in Nat
               /\ Cardinality(DOMAIN items) <= Cardinality(DOMAIN l2) + 1
<1> DEFINE items == L2With(k, data, ttl)
           set == [data |-> data, expiry |-> now + ttl]
           after == [latest EXCEPT ![k] = set]
<1>1. now \in 0..MaxTime /\ now \in Nat /\ latest \in Sets /\ L2Sound(l2, latest, now)
  BY CacheAssumption DEF Inv
<1>2. /\ set \in [data : Data, expiry : Nat] /\ set # Null
      /\ set.data = data /\ set.expiry = now + ttl
  BY <1>1, CacheAssumption
<1> HIDE DEF set
<1>3. after[k] = set /\ \A other \in Keys \ {k} : after[other] = latest[other]
  BY <1>1 DEF Sets
<1>4. /\ DOMAIN items = DOMAIN l2 \cup {k}
      /\ items[k] = [data |-> data, expiry |-> now + ttl, lastAccessed |-> now]
      /\ \A other \in DOMAIN l2 \ {k} : items[other] = l2[other]
  BY DEF L2With
<1>5. /\ IsFiniteSet(DOMAIN l2) /\ Cardinality(DOMAIN l2) \in Nat
      /\ IsFiniteSet(DOMAIN items)
      /\ Cardinality(DOMAIN items) <= Cardinality(DOMAIN l2) + 1
      /\ Cardinality(DOMAIN items) \in Nat
  <2>1. IsFiniteSet(DOMAIN l2)
    BY <1>1 DEF L2Sound
  <2>2. /\ IsFiniteSet(DOMAIN l2 \cup {k})
        /\ Cardinality(DOMAIN l2 \cup {k}) =
             IF k \in DOMAIN l2 THEN Cardinality(DOMAIN l2) ELSE Cardinality(DOMAIN l2) + 1
    BY <2>1, FS_AddElement
  <2>3. Cardinality(DOMAIN l2) \in Nat
    BY <2>1, FS_CardinalityType
  <2> QED
    BY <1>4, <2>1, <2>2, <2>3
<1>6. items \in [DOMAIN items -> Item]
  <2>1. items = [key \in DOMAIN items |-> items[key]]
    BY DEF L2With
  <2>2. items[k] \in Item
    BY <1>1, <1>4 DEF Item
  <2>3. \A other \in DOMAIN l2 : l2[other] \in Item
    BY <1>1 DEF L2Sound
  <2> HIDE DEF items
  <2>4. \A key \in DOMAIN items : items[key] \in Item
    BY <1>4, <2>2, <2>3
  <2> QED
    BY <2>1, <2>4
<1> HIDE DEF items, after
<1>7. L2Sound(items, after, now)
  <2>1. ASSUME NEW key \in DOMAIN items
        PROVE  /\ items[key].lastAccessed <= now
               /\ after[key] # Null
               /\ items[key].data = after[key].data
               /\ items[key].expiry = after[key].expiry
    <3>1. CASE key = k
      BY <1>1, <1>2, <1>3, <1>4, <3>1
    <3>2. CASE key # k
      BY <1>1, <1>3, <1>4, <3>2 DEF L2Sound
    <3> QED
      BY <3>1, <3>2
  <2>2. DOMAIN items \subseteq Keys
    BY <1>1, <1>4 DEF L2Sound
  <2> QED
    BY <1>5, <1>6, <2>1, <2>2 DEF L2Sound
<1>8. items[k].lastAccessed = now
  BY <1>4
<1> QED
  BY <1>4, <1>5, <1>7, <1>8 DEF items, after, set

(* What is evicted was used before all that stays, and the layer grows     *)
(* beyond its size only when everything was used now.                      *)
LEMMA SetL2Sound ==
    ASSUME Inv, NEW k \in Keys, NEW data \in Data, NEW ttl \in Nat, SetL2(k, data, ttl),
           latest' = [latest EXCEPT ![k] = [data |-> data, expiry |-> now + ttl]]
    PROVE  L2Sound(l2', latest', now) /\ EvictsOldest /\ OverflowsOnlyInABurst
<1> DEFINE with == L2With(k, data, ttl)
<1>1. PICK after : after = latest'
  OBVIOUS
<1>2. PICK items : items = with
  OBVIOUS
<1>3. /\ L2Sound(items, after, now)
      /\ DOMAIN items = DOMAIN l2 \cup {k}
      /\ items[k].lastAccessed = now
      /\ \A other \in DOMAIN l2 \ {k} : items[other] = l2[other]
      /\ Cardinality(DOMAIN l2) \in Nat
      /\ Cardinality(DOMAIN items) \in Nat
      /\ Cardinality(DOMAIN items) <= Cardinality(DOMAIN l2) + 1
  BY <1>1, <1>2, L2WithSound
<1>4. \/ l2' = items /\ (Cardinality(DOMAIN items) <= L2MaxSize \/ Victims(items) = {})
      \/ \E victim \in Victims(items) : l2' = L2Without(items, {victim})
  BY <1>2 DEF SetL2
<1>5. now \in Nat /\ L2MaxSize \in Nat
  BY CacheAssumption DEF Inv
<1>6. \A key \in DOMAIN items : items[key].lastAccessed \in 0..now
  BY <1>3, <1>5 DEF L2Sound, Item
<1> HIDE DEF with
<1>7. CASE l2' = items /\ (Cardinality(DOMAIN items) <= L2MaxSize \/ Victims(items) = {})
  <2>1. EvictsOldest
    BY <1>3, <1>7 DEF EvictsOldest
  <2>2. OverflowsOnlyInABurst
    <3>1. CASE Cardinality(DOMAIN items) <= L2MaxSize
      BY <1>3, <1>5, <1>7, <3>1 DEF OverflowsOnlyInABurst
    <3>2. CASE Victims(items) = {}
      <4>1. IsFiniteSet(DOMAIN items)
        BY <1>3 DEF L2Sound
      <4>2. \A key \in DOMAIN items : items[key].lastAccessed = now
        BY <1>6, <3>2, <4>1, SomeVictim
      <4> QED
        BY <1>7, <4>2 DEF OverflowsOnlyInABurst
    <3> QED
      BY <1>7, <3>1, <3>2
  <2> QED
    BY <1>1, <1>3, <1>7, <2>1, <2>2
<1>8. ASSUME NEW victim \in Victims(items), l2' = L2Without(items, {victim})
      PROVE  L2Sound(l2', latest', now) /\ EvictsOldest /\ OverflowsOnlyInABurst
  <2>1. /\ victim \in DOMAIN items
        /\ items[victim].lastAccessed < now
        /\ \A other \in DOMAIN items : items[other].lastAccessed < now
              => items[victim].lastAccessed <= items[other].lastAccessed
    BY DEF Victims
  <2>2. L2Sound(L2Without(items, {victim}), after, now)
    BY <1>3, PartIsSound
  <2>3. /\ DOMAIN l2' = DOMAIN items \ {victim}
        /\ \A key \in DOMAIN l2' : l2'[key] = items[key]
    BY <1>8 DEF L2Without
  <2>4. victim # k /\ victim \in DOMAIN l2 /\ items[victim] = l2[victim]
    BY <1>3, <1>5, <2>1
  <2>5. EvictsOldest
    <3>1. \A kept \in DOMAIN items :
             items[victim].lastAccessed <= items[kept].lastAccessed
      BY <1>5, <1>6, <2>1
    <3>2. \A gone \in DOMAIN l2 \ DOMAIN l2' : gone = victim
      BY <1>3, <2>3
    <3> QED
      BY <2>3, <2>4, <3>1, <3>2 DEF EvictsOldest
  <2>6. OverflowsOnlyInABurst
    <3>1. IsFiniteSet(DOMAIN items)
      BY <1>3 DEF L2Sound
    <3>2. Cardinality(DOMAIN items \ {victim}) = Cardinality(DOMAIN items) - 1
      BY <2>1, <3>1, FS_RemoveElement
    <3>3. ~(Cardinality(DOMAIN l2') > Cardinality(DOMAIN l2))
      BY <1>3, <2>3, <3>2
    <3> QED
      BY <3>3 DEF OverflowsOnlyInABurst
  <2> QED
    BY <1>1, <1>8, <2>2, <2>5, <2>6
<1> QED
  BY <1>4, <1>7, <1>8

-----------------------------------------------------------------------------
(* The steps.                                                              *)

(* A step that keeps the second layer, or removes what is deleted or over. *)
LEMMA NothingEvicted ==
    ASSUME Inv, NEW gone, l2' = L2Without(l2, gone),
           \A k \in gone \cap DOMAIN l2 : latest'[k] = Null \/ ~L2Live(k)
    PROVE  EvictsOldest /\ OverflowsOnlyInABurst
<1>1. DOMAIN l2' = DOMAIN l2 \ gone
  BY DEF L2Without
<1>2. L2Sound(l2, latest, now)
  BY DEF Inv
<1>3. /\ Cardinality(DOMAIN l2) \in Nat
      /\ Cardinality(DOMAIN l2 \ gone) \in Nat
      /\ Cardinality(DOMAIN l2 \ gone) <= Cardinality(DOMAIN l2)
  BY <1>2, PartIsSound
<1>4. EvictsOldest
  BY <1>1 DEF EvictsOldest
<1>5. OverflowsOnlyInABurst
  BY <1>1, <1>3 DEF OverflowsOnlyInABurst
<1> QED
  BY <1>4, <1>5

LEMMA SameItems ==
    ASSUME Inv, DOMAIN l2' = DOMAIN l2
    PROVE  EvictsOldest /\ OverflowsOnlyInABurst
<1>1. L2Sound(l2, latest, now)
  BY DEF Inv
<1>2. Cardinality(DOMAIN l2) \in Nat
  BY <1>1, FS_CardinalityType DEF L2Sound
<1> QED
  BY <1>2 DEF EvictsOldest, OverflowsOnlyInABurst

(* A step that removes keys from both layers, and what of them it deletes. *)
LEMMA RemovalSound ==
    ASSUME Inv, NEW gone, now' = now, latest' \in Sets,
           l1' = Without(l1, gone), l2' = L2Without(l2, gone),
           \A k \in Keys \ gone : latest'[k] = latest[k]
    PROVE  Inv'
<1>1. PICK after : after = latest'
  OBVIOUS
<1>2. L1Sound(l1, latest) /\ Len(l1) <= L1MaxSize /\ L2Sound(l2, latest, now)
  BY DEF Inv
<1>3. \A k \in Keys \ gone : after[k] = latest[k]
  BY <1>1
<1>4. L1Sound(Without(l1, gone), after) /\ L2Sound(L2Without(l2, gone), after, now)
  BY <1>2, <1>3, WithoutIsSound, PartIsSound
<1>5. Len(Without(l1, gone)) <= L1MaxSize
  <2>1. l1 \in Seq(Entry) /\ Distinct(l1)
    BY <1>2 DEF L1Sound
  <2>2. Len(Without(l1, gone)) <= Len(l1) /\ Without(l1, gone) \in Seq(Entry)
    BY <2>1, WithoutIsPart
  <2>3. Len(Without(l1, gone)) \in Nat /\ Len(l1) \in Nat /\ L1MaxSize \in Nat
    BY <2>1, <2>2, CacheAssumption
  <2> QED
    BY <1>2, <2>2, <2>3
<1> QED
  BY <1>1, <1>4, <1>5 DEF Inv

Promises == EvictsOldest /\ OverflowsOnlyInABurst

LEMMA SetStep ==
    ASSUME Inv, NEW k \in Keys, NEW data \in Data, NEW ttl \in TTLs, Set(k, data, ttl)
    PROVE  Inv' /\ Promises
<1> DEFINE effective == IF ttl = 0 THEN DefaultTTL ELSE ttl
           set == [data |-> data, expiry |-> now + effective]
<1>1. effective \in Nat /\ DefaultTTL \in Nat /\ now \in Nat /\ latest \in Sets
  BY CacheAssumption DEF Inv
<1>2. /\ l1' = L1Set(k, data, effective)
      /\ SetL2(k, data, effective)
      /\ latest' = [latest EXCEPT ![k] = [data |-> data, expiry |-> now + effective]]
      /\ now' = now
  BY DEF Set
<1> HIDE DEF effective
<1>3. set \in [data : Data, expiry : Nat] /\ set # Null /\ set.data = data
      /\ set.expiry = now + effective
  BY <1>1, CacheAssumption
<1>4. Backed([key |-> k, data |-> data, expiry |-> now + effective], set)
  BY <1>1, <1>3 DEF Backed
<1>5. PICK after : after = latest'
  OBVIOUS
<1>6. /\ after \in Sets /\ after[k] = set
      /\ \A other \in Keys \ {k} : after[other] = latest[other]
  BY <1>1, <1>2, <1>3, <1>5 DEF Sets
<1> HIDE DEF set
<1>7. L1Sound(L1Set(k, data, effective), after) /\ Len(L1Set(k, data, effective)) <= L1MaxSize
  BY <1>1, <1>4, <1>6, L1SetSound
<1>8. L2Sound(l2', latest', now) /\ EvictsOldest /\ OverflowsOnlyInABurst
  BY <1>1, <1>2, SetL2Sound
<1>9. Inv'
  BY <1>2, <1>5, <1>6, <1>7, <1>8 DEF Inv
<1> QED
  BY <1>8, <1>9 DEF Promises

LEMMA GetL1Step ==
    ASSUME Inv, NEW k \in Keys, GetL1(k)
    PROVE  Inv' /\ Promises
<1>1. PICK n \in DOMAIN l1 : /\ l1[n].key = k
                            /\ l1' = <<l1[n]>> \o Without(l1, {k})
                            /\ UNCHANGED <<now, l2, latest>>
  BY DEF GetL1
<1>2. L1Sound(l1, latest) /\ Len(l1) <= L1MaxSize
  BY DEF Inv
<1>3. PICK e : e = l1[n]
  OBVIOUS
<1>4. e \in Entry /\ e.key = k /\ Backed(e, latest[e.key])
  BY <1>1, <1>2, <1>3 DEF L1Sound
<1>5. l1' = <<e>> \o Without(l1, {e.key})
  BY <1>1, <1>3, <1>4
<1>6. \E m \in DOMAIN l1 : l1[m].key = e.key
  BY <1>1, <1>4
<1>7. /\ L1Sound(<<e>> \o Without(l1, {e.key}), latest)
      /\ Len(<<e>> \o Without(l1, {e.key})) <= Len(l1)
  BY <1>2, <1>4, <1>6, FrontIsSound
<1>8. Len(l1') <= L1MaxSize
  <2>1. Len(<<e>> \o Without(l1, {e.key})) \in Nat /\ Len(l1) \in Nat /\ L1MaxSize \in Nat
    BY <1>2, <1>7, CacheAssumption DEF L1Sound
  <2> QED
    BY <1>2, <1>5, <1>7, <2>1
<1>9. Inv'
  BY <1>1, <1>5, <1>7, <1>8 DEF Inv
<1> QED
  BY <1>1, <1>9, SameItems DEF Promises

LEMMA GetL2Step ==
    ASSUME Inv, NEW k \in Keys, GetL2(k)
    PROVE  Inv' /\ Promises
<1>1. /\ L2Live(k)
      /\ l2' = [l2 EXCEPT ![k].lastAccessed = now]
      /\ l1' = IF l2[k].data \in Falsy THEN Without(l1, {k})
               ELSE L1Set(k, l2[k].data, DefaultTTL)
      /\ UNCHANGED <<now, latest>>
  BY DEF GetL2
<1>2. /\ L1Sound(l1, latest) /\ Len(l1) <= L1MaxSize
      /\ L2Sound(l2, latest, now)
      /\ now \in 0..MaxTime /\ now \in Nat /\ latest \in Sets
  BY CacheAssumption DEF Inv
<1>3. k \in DOMAIN l2 /\ l2[k].expiry >= now
  BY <1>1 DEF L2Live
<1>4. PICK item : item = l2[k]
  OBVIOUS
<1>5. item \in [data : Data, expiry : Nat, lastAccessed : 0..MaxTime]
  BY <1>2, <1>3, <1>4 DEF L2Sound, Item
<1>6. /\ latest[k] # Null
      /\ item.data = latest[k].data
      /\ item.expiry = latest[k].expiry
  BY <1>2, <1>3, <1>4 DEF L2Sound
<1>7. PICK items : items = l2'
  OBVIOUS
<1>8. /\ DOMAIN items = DOMAIN l2
      /\ items[k] = [item EXCEPT !.lastAccessed = now]
      /\ \A other \in DOMAIN l2 \ {k} : items[other] = l2[other]
  BY <1>1, <1>2, <1>3, <1>4, <1>7 DEF L2Sound
<1>9. items[k] \in Item /\ items[k].lastAccessed = now
      /\ items[k].data = item.data /\ items[k].expiry = item.expiry
  BY <1>2, <1>5, <1>8 DEF Item
<1>10. L2Sound(items, latest, now)
  <2>1. items = [key \in DOMAIN items |-> items[key]]
    BY <1>1, <1>2, <1>7 DEF L2Sound
  <2>2. \A key \in DOMAIN items :
          /\ items[key] \in Item
          /\ items[key].lastAccessed <= now
          /\ latest[key] # Null
          /\ items[key].data = latest[key].data
          /\ items[key].expiry = latest[key].expiry
    <3> TAKE key \in DOMAIN items
    <3>1. CASE key = k
      BY <1>2, <1>6, <1>9, <3>1
    <3>2. CASE key # k
      BY <1>2, <1>8, <3>2 DEF L2Sound
    <3> QED
      BY <3>1, <3>2
  <2>3. items \in [DOMAIN items -> Item]
    BY <2>1, <2>2
  <2> QED
    BY <1>2, <1>8, <2>2, <2>3 DEF L2Sound
<1>11. PICK layer : layer = l1'
  OBVIOUS
<1>12. L1Sound(layer, latest) /\ Len(layer) <= L1MaxSize
  <2>1. CASE item.data \in Falsy
    <3>1. layer = Without(l1, {k})
      BY <1>1, <1>4, <1>11, <2>1
    <3>2. L1Sound(Without(l1, {k}), latest)
      BY <1>2, WithoutIsSound
    <3>3. l1 \in Seq(Entry) /\ Distinct(l1)
      BY <1>2 DEF L1Sound
    <3>4. Len(Without(l1, {k})) <= Len(l1) /\ Without(l1, {k}) \in Seq(Entry)
      BY <3>3, WithoutIsPart
    <3>5. Len(Without(l1, {k})) \in Nat /\ Len(l1) \in Nat /\ L1MaxSize \in Nat
      BY <3>3, <3>4, CacheAssumption
    <3> QED
      BY <1>2, <3>1, <3>2, <3>4, <3>5
  <2>2. CASE item.data \notin Falsy
    <3>1. layer = L1Set(k, item.data, DefaultTTL)
      BY <1>1, <1>4, <1>11, <2>2
    <3>2. DefaultTTL \in Nat /\ item.data \in Data /\ item.expiry \in Nat /\ item.expiry >= now
      BY <1>3, <1>4, <1>5, CacheAssumption
    <3>3. now + DefaultTTL <= item.expiry + DefaultTTL
      BY <1>2, <3>2
    <3>4. Backed([key |-> k, data |-> item.data, expiry |-> now + DefaultTTL], latest[k])
      BY <1>6, <3>3 DEF Backed
    <3> QED
      BY <3>1, <3>2, <3>4, L1SetSound
  <2> QED
    BY <2>1, <2>2
<1>13. Inv'
  BY <1>1, <1>2, <1>7, <1>10, <1>11, <1>12 DEF Inv
<1>14. DOMAIN l2' = DOMAIN l2
  BY <1>7, <1>8
<1> QED
  BY <1>13, <1>14, SameItems DEF Promises

LEMMA GetMissStep ==
    ASSUME Inv, NEW k \in Keys, GetMiss(k)
    PROVE  Inv' /\ Promises
<1>1. /\ ~L2Live(k)
      /\ l1' = Without(l1, {k})
      /\ l2' = L2Without(l2, {k})
      /\ now' = now /\ latest' = latest
  BY DEF GetMiss
<1>2. latest' \in Sets
  BY <1>1 DEF Inv
<1>3. Inv'
  BY <1>1, <1>2, RemovalSound
<1>4. EvictsOldest /\ OverflowsOnlyInABurst
  BY <1>1, NothingEvicted
<1> QED
  BY <1>3, <1>4 DEF Promises

(* delete() and deletePattern().                                           *)
LEMMA DeletionStep ==
    ASSUME Inv, NEW gone \in SUBSET Keys, now' = now, Forget(gone),
           l1' = Without(l1, gone), l2' = L2Without(l2, gone)
    PROVE  Inv' /\ Promises
<1>1. /\ \A k \in gone : latest'[k] = Null
      /\ \A k \in Keys \ gone : latest'[k] = latest[k]
      /\ latest' \in Sets
  <2>1. latest \in Sets
    BY DEF Inv
  <2> QED
    BY <2>1 DEF Forget, Sets
<1>2. Inv'
  BY <1>1, RemovalSound
<1>3. EvictsOldest /\ OverflowsOnlyInABurst
  BY <1>1, NothingEvicted
<1> QED
  BY <1>2, <1>3 DEF Promises

(* clear(), and a restart, which leaves latest as it is.                   *)
LEMMA EmptyingStep ==
    ASSUME Inv, now' = now, l1' = <<>>, l2' = NoItems, latest' \in Sets
    PROVE  Inv' /\ Promises
<1>1. L1MaxSize \in Nat
  BY CacheAssumption
<1>2. L1Sound(<<>>, latest') /\ Len(<<>>) <= L1MaxSize
  BY <1>1 DEF L1Sound, Distinct
<1>3. DOMAIN l2' = {} /\ l2' \in [{} -> Item]
  BY DEF NoItems
<1>4. L2Sound(l2', latest', now)
  BY <1>3, FS_EmptySet DEF L2Sound
<1>5. Inv'
  BY <1>2, <1>4 DEF Inv
<1>6. EvictsOldest
  BY <1>3 DEF EvictsOldest
<1>7. OverflowsOnlyInABurst
  BY <1>3 DEF OverflowsOnlyInABurst
<1> QED
  BY <1>5, <1>6, <1>7 DEF Promises

LEMMA TickStep ==
    ASSUME Inv, Tick
    PROVE  Inv' /\ Promises
<1>1. /\ now \in Nat /\ now < MaxTime /\ now' = now + 1
      /\ l1' = l1 /\ l2' = l2 /\ latest' = latest
  BY CacheAssumption DEF Inv, Tick
<1>2. now' \in 0..MaxTime
  BY <1>1, CacheAssumption
<1>3. L2Sound(l2, latest, now + 1)
  <2>1. L2Sound(l2, latest, now)
    BY DEF Inv
  <2>2. \A k \in DOMAIN l2 : l2[k].lastAccessed <= now /\ l2[k].lastAccessed \in Int
    BY <2>1 DEF L2Sound, Item
  <2>3. \A k \in DOMAIN l2 : l2[k].lastAccessed <= now + 1
    BY <1>1, <2>2
  <2> QED
    BY <2>1, <2>3 DEF L2Sound
<1>4. Inv'
  BY <1>1, <1>2, <1>3 DEF Inv
<1> QED
  BY <1>1, <1>4, SameItems DEF Promises

LEMMA Step == Inv /\ [Next]_vars => Inv' /\ (Promises \/ UNCHANGED vars)
<1> SUFFICES ASSUME Inv, [Next]_vars PROVE Inv' /\ (Promises \/ UNCHANGED vars)
  OBVIOUS
<1>1. ASSUME NEW k \in Keys, NEW data \in Data, NEW ttl \in TTLs, Set(k, data, ttl)
      PROVE  Inv' /\ Promises
  BY <1>1, SetStep
<1>2. ASSUME NEW k \in Keys, GetL1(k) PROVE Inv' /\ Promises
  BY <1>2, GetL1Step
<1>3. ASSUME NEW k \in Keys, GetL2(k) PROVE Inv' /\ Promises
  BY <1>3, GetL2Step
<1>4. ASSUME NEW k \in Keys, GetMiss(k) PROVE Inv' /\ Promises
  BY <1>4, GetMissStep
<1>5. ASSUME NEW k \in Keys, Delete(k) PROVE Inv' /\ Promises
  <2>1. {k} \in SUBSET Keys
    OBVIOUS
  <2> QED
    BY <1>5, <2>1, DeletionStep DEF Delete
<1>6. ASSUME NEW matched \in Patterns, DeletePattern(matched) PROVE Inv' /\ Promises
  <2>1. matched \in SUBSET Keys
    BY CacheAssumption
  <2> QED
    BY <1>6, <2>1, DeletionStep DEF DeletePattern
<1>7. CASE Clear
  <2>1. latest' \in Sets
    BY <1>7 DEF Clear, Forget, Sets
  <2> QED
    BY <1>7, <2>1, EmptyingStep DEF Clear
<1>8. CASE Restart
  <2>1. latest' \in Sets
    BY <1>8 DEF Restart, Inv
  <2> QED
    BY <1>8, <2>1, EmptyingStep DEF Restart
<1>9. CASE Tick
  BY <1>9, TickStep
<1>10. CASE UNCHANGED vars
  BY <1>10 DEF vars, Inv
<1> QED
  BY <1>1, <1>2, <1>3, <1>4, <1>5, <1>6, <1>7, <1>8, <1>9, <1>10 DEF Next

(* The two layers agree with what was set last, in every reachable state.  *)
THEOREM InvHolds == Spec => []Inv
  BY InvInit, Step, PTL DEF Spec

-----------------------------------------------------------------------------
(* The properties of the runs.                                             *)

LEMMA InvCurrent == Inv => AnswersAreCurrent
<1> SUFFICES ASSUME Inv PROVE AnswersAreCurrent
  OBVIOUS
<1>1. /\ now \in 0..MaxTime /\ now \in Nat /\ DefaultTTL \in Nat /\ latest \in Sets
      /\ L1Sound(l1, latest) /\ Len(l1) <= L1MaxSize
      /\ L2Sound(l2, latest, now)
  BY CacheAssumption DEF Inv
<1>2. TypeOK
  <2>1. \A n \in DOMAIN l1 : l1[n] \in Entry
    BY <1>1 DEF L1Sound
  <2>2. \A k \in DOMAIN l2 : l2[k] \in Item
    BY <1>1 DEF L2Sound
  <2>3. \A k \in Keys : latest[k] \in [data : Data, expiry : Nat] \cup {Null}
    BY <1>1 DEF Sets
  <2>4. \A m, n \in DOMAIN l1 : l1[m].key = l1[n].key => m = n
    BY <1>1 DEF L1Sound, Distinct
  <2>5. DOMAIN l2 \subseteq Keys
    BY <1>1 DEF L2Sound
  <2> QED
    BY <1>1, <2>1, <2>2, <2>3, <2>4, <2>5 DEF TypeOK
<1>3. ASSUME NEW k \in Keys, Answer(k) # Null
      PROVE  /\ latest[k] # Null
             /\ Answer(k) = latest[k].data
             /\ now <= latest[k].expiry + DefaultTTL
  <2> DEFINE hits == {n \in DOMAIN l1 : l1[n].key = k /\ L1Hit(n)}
  <2>1. CASE hits # {}
    <3>1. PICK n \in hits : Answer(k) = l1[n].data
      BY <2>1 DEF Answer
    <3>2. n \in DOMAIN l1 /\ l1[n].key = k /\ l1[n].expiry >= now
      BY DEF L1Hit
    <3>3. Backed(l1[n], latest[k]) /\ l1[n] \in Entry
      BY <1>1, <3>2 DEF L1Sound
    <3>4. latest[k] # Null /\ latest[k] \in [data : Data, expiry : Nat]
      BY <1>1, <3>3 DEF Backed, Sets
    <3>5. l1[n].expiry \in Nat /\ latest[k].expiry \in Nat
      BY <3>3, <3>4 DEF Entry
    <3>6. l1[n].data = latest[k].data /\ l1[n].expiry <= latest[k].expiry + DefaultTTL
      BY <3>3 DEF Backed
    <3>7. now <= latest[k].expiry + DefaultTTL
      BY <1>1, <3>2, <3>5, <3>6
    <3> QED
      BY <3>1, <3>4, <3>6, <3>7
  <2>2. CASE hits = {}
    <3>1. L2Live(k) /\ Answer(k) = l2[k].data
      BY <1>3, <2>2 DEF Answer
    <3>2. k \in DOMAIN l2 /\ l2[k].expiry >= now
      BY <3>1 DEF L2Live
    <3>3. latest[k] # Null /\ l2[k].data = latest[k].data /\ l2[k].expiry = latest[k].expiry
      BY <1>1, <3>2 DEF L2Sound
    <3>4. latest[k].expiry \in Nat
      BY <1>1, <3>3 DEF Sets
    <3>5. now <= latest[k].expiry + DefaultTTL
      BY <1>1, <3>2, <3>3, <3>4
    <3> QED
      BY <3>1, <3>3, <3>5
  <2> QED
    BY <2>1, <2>2
<1>4. NeverOutdated
  BY <1>3 DEF NeverOutdated
<1>5. StaleAtMostDefaultTTL
  BY <1>3 DEF StaleAtMostDefaultTTL
<1> QED
  BY <1>2, <1>4, <1>5 DEF AnswersAreCurrent

(* No eviction, promotion, expiry, deletion or restart lets get() of       *)
(* AdvancedCacheService return what a set() replaced or a deletion         *)
(* removed, nor anything one default time to live past its own end.        *)
THEOREM Current == Spec => []AnswersAreCurrent
  BY InvHolds, InvCurrent, PTL

(* evictL2() gives up what was least recently used, and the second layer   *)
(* outgrows its limit only when all its items were used at one instant.    *)
THEOREM Follows == Spec => EvictionFollowsUse
<1>1. Inv /\ [Next]_vars => [EvictsOldest /\ OverflowsOnlyInABurst]_vars
  BY Step DEF Promises
<1> QED
  BY <1>1, InvHolds, PTL DEF Spec, EvictionFollowsUse

=============================================================================
