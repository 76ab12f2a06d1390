------------------------------ MODULE LRUCache ------------------------------
(***************************************************************************)
(* The in-memory layer of the cache, class LRUCache of                     *)
(* src/services/cache.service.ts: a map and a doubly linked list of its    *)
(* nodes, the most recently used first.  A node is named by its key.       *)
(* Values and the hit, miss and eviction statistics are left out; of an    *)
(* expiry date it matters only whether it has passed.  The operations are  *)
(* named after the class, for CacheProofs is about both layers of a cache. *)
(***************************************************************************)
EXTENDS Integers, FiniteSets

CONSTANTS
    LRUKeys,
    NoNode,     (* the null reference                                      *)
    MaxSize     (* the maxSize given to the constructor                    *)

ASSUME LRUAssumption == NoNode \notin LRUKeys /\ MaxSize \in Nat \ {0}

VARIABLES
    cache,      (* the keys in the map                                     *)
    list,       (* head, tail, and the prev and next field of every node   *)
    expired     (* the keys in the map whose expiry date has passed        *)

lruVars == <<cache, list, expired>>

Reference == LRUKeys \cup {NoNode}

ListOK ==
    /\ cache \subseteq LRUKeys
    /\ expired \subseteq cache
    /\ list \in [head : Reference, tail : Reference,
                 prev : [LRUKeys -> Reference], next : [LRUKeys -> Reference]]

NoLinks == [k \in LRUKeys |-> NoNode]
EmptyList == [head |-> NoNode, tail |-> NoNode, prev |-> NoLinks, next |-> NoLinks]

LRUInit ==
    /\ cache = {}
    /\ list = EmptyList
    /\ expired = {}

-----------------------------------------------------------------------------
(* The operations on the list.                                             *)

(* f[k] = v, unless the node to assign to is missing.                      *)
Assign(f, k, v) == IF k = NoNode THEN f ELSE [f EXCEPT ![k] = v]

(* Mutation of removeNode(): the tail is not moved.                        *)
RemoveNodeKeepTail(l, n) ==
    [l EXCEPT !.next = Assign(@, l.prev[n], l.next[n]),
              !.head = IF l.prev[n] = NoNode THEN l.next[n] ELSE @,
              !.prev = Assign(@, l.next[n], l.prev[n])]

RemoveNode(l, n) ==
    [l EXCEPT !.next = Assign(@, l.prev[n], l.next[n]),
              !.head = IF l.prev[n] = NoNode THEN l.next[n] ELSE @,
              !.prev = Assign(@, l.next[n], l.prev[n]),
              !.tail = IF l.next[n] = NoNode THEN l.prev[n] ELSE @]

AddToFront(l, n) ==
    [l EXCEPT !.next = [@ EXCEPT ![n] = l.head],
              !.prev = Assign([@ EXCEPT ![n] = NoNode], l.head, n),
              !.head = n,
              !.tail = IF @ = NoNode THEN n ELSE @]

(* Mutation: a used node stays where it is.                                *)
MoveToFrontSkipped(l, n) == l

MoveToFront(l, n) ==
    IF n = l.head THEN l ELSE AddToFront(RemoveNode(l, n), n)

(* The links of a node that is no longer in the map.                       *)
Unlink(l, n) ==
    [l EXCEPT !.prev = [@ EXCEPT ![n] = NoNode],
              !.next = [@ EXCEPT ![n] = NoNode]]

-----------------------------------------------------------------------------

LRUDrop(k) ==
    /\ cache' = cache \ {k}
    /\ list' = Unlink(RemoveNode(list, k), k)
    /\ expired' = expired \ {k}

LRUGet(k) ==
    \/ /\ k \in cache \ expired
       /\ list' = MoveToFront(list, k)
       /\ UNCHANGED <<cache, expired>>
    \/ /\ k \in expired
       /\ LRUDrop(k)
    \/ /\ k \notin cache
       /\ UNCHANGED lruVars

(* set() of a new key, evictLRU() included.                                *)
LRUAdd(k) ==
    LET added == AddToFront(list, k)
        victim == added.tail
        full == Cardinality(cache \cup {k}) > MaxSize
    IN  /\ cache' = IF full THEN (cache \cup {k}) \ {victim} ELSE cache \cup {k}
        /\ list' = IF full THEN Unlink(RemoveNode(added, victim), victim) ELSE added
        /\ expired' = IF full THEN expired \ {victim} ELSE expired

LRUSet(k) ==
    \/ /\ k \in cache
       /\ list' = MoveToFront(list, k)
       /\ expired' = expired \ {k}
       /\ UNCHANGED cache
    \/ /\ k \notin cache
       /\ LRUAdd(k)

LRUDelete(k) ==
    \/ k \in cache /\ LRUDrop(k)
    \/ k \notin cache /\ UNCHANGED lruVars

(* clear() drops the map and both ends; the nodes go with them.            *)
LRUClear ==
    /\ cache' = {}
    /\ list' = EmptyList
    /\ expired' = {}

(* Time passes.                                                            *)
LRUExpire(k) ==
    /\ k \in cache \ expired
    /\ expired' = expired \cup {k}
    /\ UNCHANGED <<cache, list>>

LRUNext ==
    \/ \E k \in LRUKeys : LRUGet(k)
    \/ \E k \in LRUKeys : LRUSet(k)
    \/ \E k \in LRUKeys : LRUDelete(k)
    \/ \E k \in LRUKeys : LRUExpire(k)
    \/ LRUClear

LRUSpec == LRUInit /\ [][LRUNext]_lruVars

-----------------------------------------------------------------------------

(* The list and the map agree: the links of the cached nodes are mutual,   *)
(* only the two ends have none, and they are head and tail.                *)
LinksAgree ==
    /\ list.head = NoNode <=> cache = {}
    /\ list.tail = NoNode <=> cache = {}
    /\ {list.head, list.tail} \subseteq cache \cup {NoNode}
    /\ \A k \in cache :
         /\ list.prev[k] = NoNode <=> list.head = k
         /\ list.next[k] = NoNode <=> list.tail = k
         /\ list.prev[k] # NoNode =>
              list.prev[k] \in cache /\ list.next[list.prev[k]] = k
         /\ list.next[k] # NoNode =>
              list.next[k] \in cache /\ list.prev[list.next[k]] = k

(* No sequence of operations makes the map exceed its size (set()).        *)
SizeBounded == Cardinality(cache) <= MaxSize

(* No sequence of operations breaks the list or overfills the map.         *)
ListIsSound == ListOK /\ LinksAgree /\ SizeBounded

-----------------------------------------------------------------------------
(* The refinement: the keys in the order of the list.                      *)

(* What a walk from the head of the list l to its tail meets, c being the  *)
(* set of its nodes.                                                       *)
Walk(l, c) ==
    CHOOSE s \in [1..Cardinality(c) -> c] :
        \A n \in DOMAIN s : s[n] = IF n = 1 THEN l.head ELSE l.next[s[n - 1]]

Order == Walk(list, cache)

Recency == INSTANCE RecencyCache WITH order <- Order, Keys <- LRUKeys

(* What falls out of the cache is what was not used for the longest time.  *)
ImplementsRecency == Recency!Spec

=============================================================================
