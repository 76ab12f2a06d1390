---------------------------- MODULE RecencyCache ----------------------------
(***************************************************************************)
(* What an LRU cache promises: it holds at most MaxSize keys, and the one  *)
(* it gives up for a new key is the one not used for the longest time.     *)
(***************************************************************************)
EXTENDS Integers, Sequences, Subsequences

CONSTANTS Keys, MaxSize

VARIABLES
    order,      (* the cached keys, the most recently used first           *)
    expired     (* cached keys whose time to live is over                  *)

recency == <<order, expired>>

Cached == {order[n] : n \in DOMAIN order}

Init == order = <<>> /\ expired = {}

Dropped(k) == Kept(order, {n \in DOMAIN order : order[n] # k})

(* A key that is used becomes the most recent one; a key that is not live  *)
(* is a miss, and one that has expired is given up.                        *)
Get(k) ==
    \/ /\ k \in Cached \ expired
       /\ order' = <<k>> \o Dropped(k)
       /\ UNCHANGED expired
    \/ /\ k \in expired
       /\ order' = Dropped(k)
       /\ expired' = expired \ {k}
    \/ /\ k \notin Cached
       /\ UNCHANGED recency

Set(k) ==
    LET used == <<k>> \o Dropped(k)
    IN  /\ order' = IF Len(used) > MaxSize THEN SubSeq(used, 1, Len(used) - 1) ELSE used
        /\ expired' = {e \in expired \ {k} : \E n \in DOMAIN order' : order'[n] = e}

Delete(k) ==
    /\ order' = Dropped(k)
    /\ expired' = expired \ {k}

Clear == order' = <<>> /\ expired' = {}

Expire(k) ==
    /\ k \in Cached \ expired
    /\ expired' = expired \cup {k}
    /\ UNCHANGED order

Next ==
    \/ \E k \in Keys : Get(k) \/ Set(k) \/ Delete(k) \/ Expire(k)
    \/ Clear

Spec == Init /\ [][Next]_recency

=============================================================================
