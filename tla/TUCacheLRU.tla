----------------------------- MODULE TUCacheLRU -----------------------------
(***************************************************************************)
(* The translation-unit cache as an LRU store: which sequence of keys the  *)
(* dictionary of TUCache stands for, and what it means to implement LRU.   *)
(***************************************************************************)
EXTENDS TUCache

(* The keys of S as a sequence: k comes after the Cardinality(o[k]) keys   *)
(* that are in front of it.                                                *)
Sorted(S, o) ==
    [i \in 1..Cardinality(S) |-> CHOOSE k \in S : Cardinality(o[k]) = i - 1]

Order == Sorted(Cached, older)

Abstract == INSTANCE LRU WITH order <- Order

(* The cache implements LRU: in every step of every thread, the entries    *)
(* kept, the order of use and the three counters are those of a sequential *)
(* LRU store of the same capacity, and a hit, a miss and an insertion are  *)
(* that store's operations on the same key.                                *)
IsLRU ==
    /\ Abstract!Spec
    /\ [][\A t \in Threads, k \in Keys :
             /\ Hit(t, k) => Abstract!Use(k)
             /\ Miss(t, k) => Abstract!Fail(k)
             /\ Insert(t) => Abstract!Add(key[t])]_vars
=============================================================================
