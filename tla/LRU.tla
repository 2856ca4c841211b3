--------------------------------- MODULE LRU ---------------------------------
(***************************************************************************)
(* What the class docstring of TUCache promises its callers (tu_cache.py   *)
(* 55-60): a store of at most Capacity keys in order of use, from which    *)
(* the least recently used goes first, with counters of what happened.     *)
(* Nothing about threads, files or the time between a miss and the         *)
(* insertion that follows it.                                              *)
(***************************************************************************)
EXTENDS Integers, Sequences, FiniteSets

CONSTANTS Keys, Capacity

VARIABLES order,    \* the cached keys, least recently used first
          hits, misses, evictions

vars == <<order, hits, misses, evictions>>

Held == {order[i] : i \in DOMAIN order}

(* j was used less recently than k. *)
Before(j, k) ==
    \E g, h \in DOMAIN order : g < h /\ order[g] = j /\ order[h] = k

(* The keys of R leave, those of last come to the end, and the others stay *)
(* in the order they were in.  With at most one key in last that is one    *)
(* sequence: no key is before itself in it, so none is in it twice.        *)
Rearrange(R, last) ==
    /\ order' \in Seq(Keys)
    /\ Held' = (Held \ R) \cup last
    /\ \A j, k \in Held' :
          Before(j, k)' <=> j \notin last /\ (k \in last \/ Before(j, k))

Init == order = <<>> /\ hits = 0 /\ misses = 0 /\ evictions = 0

(* A lookup that finds k makes it the most recently used. *)
Use(k) ==
    /\ k \in Held
    /\ Rearrange({}, {k})
    /\ hits' = hits + 1
    /\ UNCHANGED <<misses, evictions>>

(* Keys of R leave, each counted. *)
Evict(R) ==
    /\ R \subseteq Held
    /\ Rearrange(R, {})
    /\ evictions' = evictions + Cardinality(R)

(* A lookup that does not, and evicts k if it is there all the same. *)
Fail(k) ==
    /\ Evict({k} \cap Held)
    /\ misses' = misses + 1
    /\ UNCHANGED hits

Discard(R) == Evict(R) /\ UNCHANGED <<hits, misses>>

(* Into a full store k is added once the least recently used has gone. *)
Displaced == IF Len(order) = Capacity THEN {order[1]} ELSE {}

Add(k) ==
    /\ Rearrange(Displaced, {k})
    /\ evictions' = evictions + Cardinality(Displaced)
    /\ UNCHANGED <<hits, misses>>

Clear == order' = <<>> /\ UNCHANGED <<hits, misses, evictions>>

Next ==
    \/ \E k \in Keys : Use(k) \/ Fail(k) \/ Add(k)
    \/ \E R \in SUBSET Keys : Discard(R)
    \/ Clear

Spec == Init /\ [][Next]_vars
=============================================================================
