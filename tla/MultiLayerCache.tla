--------------------------- MODULE MultiLayerCache ---------------------------
(***************************************************************************)
(* The two-layer cache, class AdvancedCacheService of                      *)
(* src/services/cache.service.ts, with its second layer enabled.  Every    *)
(* operation is synchronous, hence one action.  The first layer is the     *)
(* recency list that module LRUCache is shown to implement; the second is  *)
(* the map l2Cache, its ties for the oldest entry broken arbitrarily.  The *)
(* files written behind the second layer are never read, and are left out  *)
(* together with the statistics.                                           *)
(***************************************************************************)
EXTENDS Integers, FiniteSets, Sequences, Subsequences

CONSTANTS
    Keys,
    Data,           (* what callers store                                  *)
    Falsy,          (* the data that JavaScript takes for false            *)
    Null,           (* the null that get() returns on a miss               *)
    TTLs,           (* the ttl arguments of set(), 0 when none is given    *)
    Patterns,       (* the sets of keys that a pattern can match           *)
    L1MaxSize, L2MaxSize, DefaultTTL,
    MaxTime         (* bound: the last instant of the clock                *)

ASSUME CacheAssumption ==
    /\ Falsy \subseteq Data
    /\ Null \notin Data \cup Keys \cup [data : Data, expiry : Nat]
    /\ TTLs \subseteq Nat /\ Patterns \subseteq SUBSET Keys
    /\ {L1MaxSize, L2MaxSize, DefaultTTL} \subseteq Nat \ {0}
    /\ MaxTime \in Nat

VARIABLES
    now,
    l1,         (* the entries of the first layer, most recently used first *)
    l2,         (* the items of the second layer, a function on its keys   *)
    latest      (* history: the last set() of each key that nothing has    *)
                (* deleted, Null if there is none                          *)

vars == <<now, l1, l2, latest>>

NoItems == [k \in {} |-> Null]

Entry == [key : Keys, data : Data, expiry : Nat]
Item == [data : Data, expiry : Nat, lastAccessed : 0..MaxTime]

TypeOK ==
    /\ now \in 0..MaxTime
    /\ Len(l1) <= L1MaxSize
    /\ \A n \in DOMAIN l1 : l1[n] \in Entry
    /\ \A m, n \in DOMAIN l1 : l1[m].key = l1[n].key => m = n
    /\ DOMAIN l2 \subseteq Keys
    /\ \A k \in DOMAIN l2 : l2[k] \in Item
    /\ \A k \in Keys : latest[k] \in [data : Data, expiry : Nat] \cup {Null}

Init ==
    /\ now = 0
    /\ l1 = <<>>
    /\ l2 = NoItems
    /\ latest = [k \in Keys |-> Null]

-----------------------------------------------------------------------------
(* The first layer.                                                        *)

Without(layer, gone) == Kept(layer, {n \in DOMAIN layer : layer[n].key \notin gone})

L1Set(k, data, ttl) ==
    LET entry == [key |-> k, data |-> data, expiry |-> now + ttl]
        used == <<entry>> \o Without(l1, {k})
    IN  IF Len(used) > L1MaxSize THEN SubSeq(used, 1, Len(used) - 1) ELSE used

L1Hit(n) == l1[n].expiry >= now

-----------------------------------------------------------------------------
(* The second layer.                                                       *)

L2Live(k) == k \in DOMAIN l2 /\ l2[k].expiry >= now

L2Without(items, gone) == [k \in DOMAIN items \ gone |-> items[k]]

(* Mutation of evictL2(): the youngest entry is given up.                  *)
VictimsYoungest(items) ==
    LET older == {k \in DOMAIN items : items[k].lastAccessed < now}
    IN  {k \in older : \A other \in older :
            items[k].lastAccessed >= items[other].lastAccessed}

(* evictL2() looks for the entry used the longest time ago, and among      *)
(* those used before this very millisecond only.                           *)
Victims(items) ==
    LET older == {k \in DOMAIN items : items[k].lastAccessed < now}
    IN  {k \in older : \A other \in older :
            items[k].lastAccessed <= items[other].lastAccessed}

L2With(k, data, ttl) ==
    [key \in DOMAIN l2 \cup {k} |->
        IF key = k THEN [data |-> data, expiry |-> now + ttl, lastAccessed |-> now]
        ELSE l2[key]]

SetL2(k, data, ttl) ==
    LET items == L2With(k, data, ttl)
        victims == Victims(items)
    IN  IF Cardinality(DOMAIN items) <= L2MaxSize \/ victims = {}
        THEN l2' = items
        ELSE \E victim \in victims : l2' = L2Without(items, {victim})

-----------------------------------------------------------------------------
(* The operations of the cache.                                            *)

Set(k, data, ttl) ==
    LET effectiveTTL == IF ttl = 0 THEN DefaultTTL ELSE ttl
    IN  /\ l1' = L1Set(k, data, effectiveTTL)
        /\ SetL2(k, data, effectiveTTL)
        /\ latest' = [latest EXCEPT ![k] =
                        [data |-> data, expiry |-> now + effectiveTTL]]
        /\ UNCHANGED now

(* get() answered by the first layer.                                      *)
GetL1(k) ==
    \E n \in DOMAIN l1 :
        /\ l1[n].key = k
        /\ L1Hit(n)
        /\ l1' = <<l1[n]>> \o Without(l1, {k})
        /\ UNCHANGED <<now, l2, latest>>

L1Miss(k) == \A n \in DOMAIN l1 : l1[n].key = k => ~L1Hit(n)

(* get() answered by the second layer, which promotes the item; data that  *)
(* is taken for false is a miss.                                           *)
GetL2(k) ==
    /\ L1Miss(k)
    /\ L2Live(k)
    /\ l2' = [l2 EXCEPT ![k].lastAccessed = now]
    /\ l1' = IF l2[k].data \in Falsy THEN Without(l1, {k})
             ELSE L1Set(k, l2[k].data, DefaultTTL)
    /\ UNCHANGED <<now, latest>>

(* get() that misses in both layers drops what has expired.                *)
GetMiss(k) ==
    /\ L1Miss(k)
    /\ ~L2Live(k)
    /\ l1' = Without(l1, {k})
    /\ l2' = L2Without(l2, {k})
    /\ UNCHANGED <<now, latest>>

Forget(gone) == latest' = [k \in Keys |-> IF k \in gone THEN Null ELSE latest[k]]

(* Mutation: only the first layer is told.                                 *)
DeleteL1Only(k) ==
    /\ l1' = Without(l1, {k})
    /\ Forget({k})
    /\ UNCHANGED <<now, l2>>

Delete(k) ==
    /\ l1' = Without(l1, {k})
    /\ l2' = L2Without(l2, {k})
    /\ Forget({k})
    /\ UNCHANGED now

DeletePattern(matched) ==
    /\ l1' = Without(l1, matched)
    /\ l2' = L2Without(l2, matched)
    /\ Forget(matched)
    /\ UNCHANGED now

Clear ==
    /\ l1' = <<>>
    /\ l2' = NoItems
    /\ Forget(Keys)
    /\ UNCHANGED now

(* The process is restarted: the constructor fills neither layer.          *)
Restart ==
    /\ l1' = <<>>
    /\ l2' = NoItems
    /\ UNCHANGED <<now, latest>>

Tick ==
    /\ now < MaxTime
    /\ now' = now + 1
    /\ UNCHANGED <<l1, l2, latest>>

Next ==
    \/ \E k \in Keys, data \in Data, ttl \in TTLs : Set(k, data, ttl)
    \/ \E k \in Keys : GetL1(k)
    \/ \E k \in Keys : GetL2(k)
    \/ \E k \in Keys : GetMiss(k)
    \/ \E k \in Keys : Delete(k)
    \/ \E matched \in Patterns : DeletePattern(matched)
    \/ Clear
    \/ Restart
    \/ Tick

Spec == Init /\ [][Next]_vars

-----------------------------------------------------------------------------
(* Properties.                                                             *)

(* What get() would return in the current state.                           *)
Answer(k) ==
    LET hits == {n \in DOMAIN l1 : l1[n].key = k /\ L1Hit(n)}
    IN  IF hits # {} THEN l1[CHOOSE n \in hits : TRUE].data
        ELSE IF L2Live(k) /\ l2[k].data \notin Falsy THEN l2[k].data
        ELSE Null

(* A reader is never given data that a later set() has replaced or that a  *)
(* deletion has removed, whatever either layer evicts or promotes.         *)
NeverOutdated ==
    \A k \in Keys : Answer(k) # Null =>
        latest[k] # Null /\ Answer(k) = latest[k].data

(* Promotion starts a new life in the first layer, but only one: data is   *)
(* gone at the latest DefaultTTL after the end of its own time to live.    *)
StaleAtMostDefaultTTL ==
    \A k \in Keys : Answer(k) # Null => now <= latest[k].expiry + DefaultTTL

(* What a reader is given is current, and not kept for too long.           *)
AnswersAreCurrent == TypeOK /\ NeverOutdated /\ StaleAtMostDefaultTTL

(* An item that is live and not deleted leaves the second layer only as    *)
(* the one it has used for the longest time (evictL2()).                   *)
EvictsOldest ==
    \A gone \in DOMAIN l2 \ DOMAIN l2' :
      (latest'[gone] # Null /\ L2Live(gone)) =>
         \A kept \in DOMAIN l2' : l2[gone].lastAccessed <= l2'[kept].lastAccessed

(* The second layer grows beyond its size only while everything in it was  *)
(* used at the same instant.                                               *)
OverflowsOnlyInABurst ==
    Cardinality(DOMAIN l2') > Cardinality(DOMAIN l2)
      /\ Cardinality(DOMAIN l2') > L2MaxSize
    => \A k \in DOMAIN l2' : l2'[k].lastAccessed = now

(* The second layer gives up what was least recently used, and grows past  *)
(* its limit only when that does not tell its items apart.                 *)
EvictionFollowsUse == [][EvictsOldest /\ OverflowsOnlyInABurst]_vars

=============================================================================
