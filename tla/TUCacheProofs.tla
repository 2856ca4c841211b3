---------------------------- MODULE TUCacheProofs ----------------------------
(***************************************************************************)
(* What holds of the translation-unit cache for every set of threads,      *)
(* files and keys, every capacity and every bound.                         *)
(*                                                                         *)
(* Inv is inductive.  It adds to the claimed invariants what a thread in   *)
(* get_or_parse knows of the entry it is building (CleanCalls), which is   *)
(* what makes the entry clean when it is inserted.                         *)
(***************************************************************************)
EXTENDS TUCacheLRU, FiniteSetTheorems, FunctionTheorems,
        SequenceTheorems, WellFoundedInduction, TLAPS

(* While a thread stands between read and stat without a write, the disk   *)
(* still has the version it read, or nothing; after the stat, the new      *)
(* entry carries that version's mtime, or none.                            *)
CleanCalls ==
    \A t \in Threads :
        /\ pc[t] = "stat" /\ ~ new[t].raced
              => disk[key[t].file] \in {Gone, new[t].tu}
        /\ pc[t] = "insert" /\ ~ new[t].raced
              => new[t].mtime \in {NoStat, new[t].tu}

Inv == TypeOK /\ LRUOrder /\ SizeBound /\ CleanEntries /\ CleanCalls

USE DEF Cached

-----------------------------------------------------------------------------
(* The helpers of the OrderedDict. *)

LEMMA AnyKeyInKeys == AnyKey \in Keys
  BY KeysAssumption, Zenon DEF AnyKey

LEMMA KeyFile == \A k \in Keys : k.file \in Files
  BY KeysAssumption DEF CacheKey

LEMMA DropDomain ==
  ASSUME NEW R, NEW s
  PROVE  /\ DOMAIN Drop(R, s) = DOMAIN s \ R
         /\ \A k \in DOMAIN s \ R : Drop(R, s)[k] = s[k]
  BY DEF Drop

(* Removing keys and moving a key to the MRU end keep a total order. *)
LEMMA DropOrderTotal ==
  ASSUME NEW S \in SUBSET Keys, NEW o \in [Keys -> SUBSET S],
         TotalOrder(S, o), NEW R
  PROVE  /\ DropOrder(R, o) \in [Keys -> SUBSET (S \ R)]
         /\ TotalOrder(S \ R, DropOrder(R, o))
<1>1. DropOrder(R, o) \in [Keys -> SUBSET (S \ R)]
  BY DEF DropOrder
<1>2. PICK d : d = DropOrder(R, o)
  OBVIOUS
<1>3. \A j \in Keys : \A i : i \in d[j] <=> i \in o[j] /\ i \notin R /\ j \notin R
  BY <1>2 DEF DropOrder
<1>4. \A j \in Keys : j \notin d[j] /\ (j \notin S \ R => d[j] = {})
  BY <1>3 DEF TotalOrder
<1>5. \A i, j \in S \ R : i # j => (i \in d[j] <=> j \notin d[i])
  BY <1>3 DEF TotalOrder
<1>6. \A h, i, j \in S \ R : h \in d[i] /\ i \in d[j] => h \in d[j]
  BY <1>3 DEF TotalOrder
<1>7. TotalOrder(S \ R, d)
  BY <1>4, <1>5, <1>6 DEF TotalOrder
<1> QED BY <1>1, <1>2, <1>7

LEMMA TouchTotal ==
  ASSUME NEW S \in SUBSET Keys, NEW o \in [Keys -> SUBSET S],
         TotalOrder(S, o), NEW k \in Keys
  PROVE  /\ Touch(k, o, S) \in [Keys -> SUBSET (S \cup {k})]
         /\ TotalOrder(S \cup {k}, Touch(k, o, S))
<1>1. Touch(k, o, S) \in [Keys -> SUBSET (S \cup {k})]
  BY DEF Touch
<1>2. PICK d : d = Touch(k, o, S)
  OBVIOUS
<1>3. \A j \in Keys : \A i :
         i \in d[j] <=> i # k /\ (IF j = k THEN i \in S ELSE i \in o[j])
  BY <1>2 DEF Touch
<1>4. \A j \in Keys : j \notin d[j] /\ (j \notin S \cup {k} => d[j] = {})
  BY <1>3 DEF TotalOrder
<1>5. \A i, j \in S \cup {k} : i # j => (i \in d[j] <=> j \notin d[i])
  BY <1>3 DEF TotalOrder
<1>6. \A h, i, j \in S \cup {k} : h \in d[i] /\ i \in d[j] => h \in d[j]
  BY <1>3 DEF TotalOrder
<1>7. TotalOrder(S \cup {k}, d)
  BY <1>4, <1>5, <1>6 DEF TotalOrder
<1> QED BY <1>1, <1>2, <1>7

(* A nonempty finite total order has a first element. *)
LEMMA OldestExists ==
  ASSUME NEW S \in SUBSET Keys, NEW o \in [Keys -> SUBSET S],
         TotalOrder(S, o), IsFiniteSet(S), S # {}
  PROVE  \E k \in S : o[k] = {}
<1> DEFINE T == {o[k] : k \in S}
           R == StrictSubsetOrdering(S)
<1>1. IsWellFoundedOn(R, SUBSET S)
  BY FS_StrictSubsetOrderingWellFounded, FS_FiniteSubsetsOfFinite
<1>2. T \subseteq SUBSET S /\ T # {}
  OBVIOUS
<1>3. PICK x \in T : \A y \in T : ~ (<<y, x>> \in R)
  BY <1>1, <1>2, WFMin
<1>4. PICK k \in S : x = o[k]
  OBVIOUS
<1>5. ASSUME NEW j \in o[k] PROVE FALSE
  <2>1. j \in S
    OBVIOUS
  <2>2. o[j] \subseteq o[k] /\ o[j] # o[k]
    BY <2>1 DEF TotalOrder
  <2>3. <<o[j], o[k]>> \in R
    BY <2>1, <2>2 DEF StrictSubsetOrdering
  <2> QED BY <2>1, <2>3, <1>3, <1>4
<1> QED BY <1>5

(* The eviction loop leaves room for one entry. *)
LEMMA SurplusLeavesRoom ==
  ASSUME TypeOK, LRUOrder, SizeBound
  PROVE  /\ Surplus \subseteq Cached
         /\ IsFiniteSet(Cached \ Surplus)
         /\ Cardinality(Cached \ Surplus) \in Nat
         /\ Cardinality(Cached \ Surplus) < Capacity
<1> DEFINE n == Cardinality(Cached)
<1>1. n \in Nat /\ n <= Capacity /\ Capacity \in Nat \ {0}
  BY FS_CardinalityType, CapacityAssumption DEF TypeOK, SizeBound
<1>2. Surplus \subseteq Cached
  BY DEF Surplus
<1>3. /\ IsFiniteSet(Cached \ Surplus)
      /\ Cardinality(Cached \ Surplus) \in Nat
      /\ Cardinality(Cached \ Surplus) <= n
  BY FS_Subset, FS_CardinalityType DEF TypeOK
<1>4. CASE n < Capacity
  BY <1>1, <1>2, <1>3, <1>4
<1>5. CASE n = Capacity
  <2>1. Cached # {}
    BY <1>1, <1>5, FS_EmptySet
  <2>2. PICK k \in Cached : older[k] = {}
    BY <2>1, OldestExists DEF TypeOK, LRUOrder
  <2>3. k \in Surplus
    BY <1>1, <1>5, <2>2, FS_EmptySet DEF Surplus
  <2>4. Cached \ Surplus \in SUBSET (Cached \ {k})
    BY <2>3
  <2>5. /\ IsFiniteSet(Cached \ {k})
        /\ Cardinality(Cached \ {k}) = n - 1
    BY FS_RemoveElement DEF TypeOK
  <2>6. Cardinality(Cached \ Surplus) <= n - 1
    BY <2>4, <2>5, FS_Subset
  <2> QED BY <1>1, <1>2, <1>3, <1>5, <2>6
<1> QED BY <1>1, <1>4, <1>5

-----------------------------------------------------------------------------
(* The three ways in which a step changes the dictionary. *)

StoreOK ==
    /\ Cached \subseteq Keys /\ IsFiniteSet(Cached)
    /\ store \in [Cached -> Entry]
    /\ older \in [Keys -> SUBSET Cached]
    /\ LRUOrder /\ SizeBound /\ CleanEntries

LEMMA RemoveStep ==
  ASSUME Inv, NEW R, store' = Drop(R, store), older' = DropOrder(R, older)
  PROVE  StoreOK' /\ Cached' = Cached \ R
<1>1. /\ Cached' = Cached \ R
      /\ \A k \in Cached' : store'[k] = store[k]
  <2>1. /\ DOMAIN Drop(R, store) = Cached \ R
        /\ \A k \in Cached \ R : Drop(R, store)[k] = store[k]
    BY DropDomain
  <2> QED BY <2>1
<1>2. Cached' \subseteq Keys /\ IsFiniteSet(Cached')
      /\ Cardinality(Cached') <= Cardinality(Cached)
  BY <1>1, FS_Subset DEF Inv, TypeOK
<1>3. store' \in [Cached' -> Entry]
  BY <1>1 DEF Inv, TypeOK, Drop
<1>4. older' \in [Keys -> SUBSET Cached'] /\ LRUOrder'
  <2>1. /\ DropOrder(R, older) \in [Keys -> SUBSET (Cached \ R)]
        /\ TotalOrder(Cached \ R, DropOrder(R, older))
    BY DropOrderTotal DEF Inv, TypeOK, LRUOrder
  <2> QED BY <1>1, <2>1 DEF LRUOrder
<1>5. SizeBound'
  BY <1>2, FS_CardinalityType, CapacityAssumption DEF Inv, TypeOK, SizeBound
<1>6. CleanEntries'
  BY <1>1 DEF Inv, CleanEntries
<1> QED BY <1>1, <1>2, <1>3, <1>4, <1>5, <1>6 DEF StoreOK

LEMMA TouchStep ==
  ASSUME Inv, NEW k \in Cached, UNCHANGED store,
         older' = Touch(k, older, Cached)
  PROVE  StoreOK'
<1>1. k \in Keys /\ Cached \cup {k} = Cached
  BY DEF Inv, TypeOK
<1>2. older' \in [Keys -> SUBSET Cached] /\ TotalOrder(Cached, older')
  <2>1. /\ Touch(k, older, Cached) \in [Keys -> SUBSET (Cached \cup {k})]
        /\ TotalOrder(Cached \cup {k}, Touch(k, older, Cached))
    BY <1>1, TouchTotal DEF Inv, TypeOK, LRUOrder
  <2> QED BY <1>1, <2>1
<1> QED BY <1>2 DEF Inv, TypeOK, StoreOK, LRUOrder, SizeBound, CleanEntries

LEMMA InsertStep ==
  ASSUME Inv, NEW k \in Keys, NEW e \in Entry,
         e.raced \/ e.mtime \in {NoStat, e.tu},
         store' = Put(k, e, Drop(Surplus, store)),
         older' = Touch(k, DropOrder(Surplus, older),
                        DOMAIN Drop(Surplus, store))
  PROVE  StoreOK' /\ Cached' = (Cached \ Surplus) \cup {k}
<1> DEFINE kept == Cached \ Surplus
<1>1. DOMAIN Drop(Surplus, store) = kept
  BY DropDomain
<1>2. /\ Cached' = kept \cup {k}
      /\ store'[k] = e
      /\ \A j \in kept \ {k} : store'[j] = store[j]
  <2> DEFINE s == Drop(Surplus, store)
  <2>1. \A j \in kept : s[j] = store[j]
    BY DropDomain
  <2> HIDE DEF s
  <2>2. /\ DOMAIN Put(k, e, s) = DOMAIN s \cup {k}
        /\ Put(k, e, s)[k] = e
        /\ \A j \in DOMAIN s \ {k} : Put(k, e, s)[j] = s[j]
    BY DEF Put
  <2> QED BY <1>1, <2>1, <2>2 DEF s
<1>3. /\ IsFiniteSet(kept) /\ Cardinality(kept) \in Nat
      /\ Cardinality(kept) < Capacity
  BY SurplusLeavesRoom DEF Inv
<1>4. Cached' \subseteq Keys /\ IsFiniteSet(Cached')
  <2>1. IsFiniteSet(kept \cup {k})
    BY <1>3, FS_AddElement
  <2> QED BY <1>2, <2>1 DEF Inv, TypeOK
<1>5. SizeBound'
  BY <1>2, <1>3, FS_AddElement, CapacityAssumption DEF SizeBound
<1>6. \A j \in Cached' : store'[j] \in Entry
  BY <1>2 DEF Inv, TypeOK
<1>7. store' = [j \in Cached' |-> store'[j]]
  BY <1>1, <1>2 DEF Put
<1>8. store' \in [Cached' -> Entry]
  BY <1>6, <1>7
<1>9. /\ DropOrder(Surplus, older) \in [Keys -> SUBSET kept]
      /\ TotalOrder(kept, DropOrder(Surplus, older))
  BY DropOrderTotal DEF Inv, TypeOK, LRUOrder
<1>10. kept \in SUBSET Keys
  BY DEF Inv, TypeOK
<1>11. older' \in [Keys -> SUBSET Cached'] /\ LRUOrder'
  <2>1. /\ Touch(k, DropOrder(Surplus, older), kept)
                \in [Keys -> SUBSET (kept \cup {k})]
        /\ TotalOrder(kept \cup {k}, Touch(k, DropOrder(Surplus, older), kept))
    BY <1>9, <1>10, TouchTotal
  <2> QED BY <1>1, <1>2, <2>1 DEF LRUOrder
<1>12. CleanEntries'
  BY <1>2 DEF Inv, CleanEntries
<1> QED BY <1>2, <1>4, <1>5, <1>8, <1>11, <1>12 DEF StoreOK

-----------------------------------------------------------------------------
(* The first step of a thread in get_or_parse. *)

LEMMA InitInv == Init => Inv
<1> SUFFICES ASSUME Init PROVE Inv
  OBVIOUS
<1>1. Cached = {} /\ IsFiniteSet(Cached) /\ Cardinality(Cached) = 0
  BY FS_EmptySet DEF Init
<1>2. Blank \in Entry
  BY BoundsAssumption DEF Blank, Entry, Version
<1>3. TypeOK
  BY <1>1, <1>2, AnyKeyInKeys, BoundsAssumption
  DEF Init, TypeOK, Version
<1>4. LRUOrder
  BY <1>1 DEF Init, LRUOrder, TotalOrder
<1>5. SizeBound /\ CleanEntries /\ CleanCalls
  BY <1>1, CapacityAssumption DEF Init, SizeBound, CleanEntries, CleanCalls
<1> QED BY <1>3, <1>4, <1>5 DEF Inv

LEMMA ReturnStep ==
  ASSUME Inv, NEW t \in Threads, Return(t), UNCHANGED diskVars
  PROVE  /\ pc' \in [Threads -> {"idle", "parse", "stat", "insert"}]
         /\ key' \in [Threads -> Keys]
         /\ new' \in [Threads -> Entry]
         /\ CleanCalls'
<1>1. Blank \in Entry
  BY BoundsAssumption DEF Blank, Entry, Version
<1>2. \A u \in Threads : u # t =>
         pc'[u] = pc[u] /\ key'[u] = key[u] /\ new'[u] = new[u]
  BY DEF Return, Inv, TypeOK
<1>3. pc'[t] = "idle"
  BY DEF Return, Inv, TypeOK
<1>4. CleanCalls'
  BY <1>2, <1>3 DEF Inv, CleanCalls, diskVars
<1> QED BY <1>1, <1>4, AnyKeyInKeys DEF Return, Inv, TypeOK

LEMMA NextInv == Inv /\ [Next]_vars => Inv'
<1> SUFFICES ASSUME Inv, [Next]_vars PROVE Inv'
  OBVIOUS
<1> USE DEF diskVars, cacheVars, threadVars
<1>1. ASSUME NEW t \in Threads, NEW k \in Keys, Hit(t, k) PROVE Inv'
  <2>1. StoreOK'
    BY <1>1, TouchStep DEF Hit, Valid
  <2>2. TypeOK'
    BY <1>1, <2>1 DEF Hit, Inv, TypeOK, StoreOK
  <2>3. CleanCalls'
    BY <1>1 DEF Hit, Inv, CleanCalls
  <2> QED BY <2>1, <2>2, <2>3 DEF Inv, StoreOK
<1>2. ASSUME NEW t \in Threads, NEW k \in Keys, Miss(t, k) PROVE Inv'
  <2>1. StoreOK'
    BY <1>2, RemoveStep DEF Miss
  <2>2. evictions' \in Nat /\ misses' \in Nat
    BY <1>2 DEF Miss, Inv, TypeOK
  <2>3. TypeOK'
    BY <1>2, <2>1, <2>2 DEF Miss, Inv, TypeOK, StoreOK
  <2>4. CleanCalls'
    BY <1>2 DEF Miss, Inv, CleanCalls, TypeOK
  <2> QED BY <2>1, <2>3, <2>4 DEF Inv, StoreOK
<1>3. ASSUME NEW t \in Threads, ParseDone(t) PROVE Inv'
  <2>1. StoreOK'
    BY <1>3 DEF ParseDone, Inv, TypeOK, StoreOK, LRUOrder, SizeBound,
                CleanEntries
  <2>2. disk[key[t].file] \in Version
    BY <1>3, KeyFile DEF ParseDone, Inv, TypeOK
  <2>3. [tu |-> disk[key[t].file], mtime |-> NoStat, raced |-> FALSE] \in Entry
    BY <2>2 DEF Entry
  <2>4. TypeOK'
    BY <1>3, <2>1, <2>3 DEF ParseDone, Inv, TypeOK, StoreOK
  <2>5. CleanCalls'
    BY <1>3 DEF ParseDone, Inv, CleanCalls, TypeOK
  <2> QED BY <2>1, <2>4, <2>5 DEF Inv, StoreOK
<1>4. ASSUME NEW t \in Threads, ParseRaises(t) PROVE Inv'
  <2>1. StoreOK'
    BY <1>4 DEF ParseRaises, Inv, TypeOK, StoreOK, LRUOrder, SizeBound,
                CleanEntries
  <2>2. TypeOK' /\ CleanCalls'
    BY <1>4, <2>1, ReturnStep DEF ParseRaises, Inv, TypeOK, StoreOK
  <2> QED BY <2>1, <2>2 DEF Inv, StoreOK
<1>5. ASSUME NEW t \in Threads, StatAfterParse(t) PROVE Inv'
  <2>1. StoreOK'
    BY <1>5 DEF StatAfterParse, Inv, TypeOK, StoreOK, LRUOrder, SizeBound,
                CleanEntries
  <2> DEFINE m == IF disk[key[t].file] = Gone THEN NoStat ELSE disk[key[t].file]
  <2>2. m \in Version \cup {NoStat}
    BY KeyFile DEF Inv, TypeOK
  <2>3. new' \in [Threads -> Entry]
    BY <1>5, <2>2 DEF StatAfterParse, Inv, TypeOK, Entry
  <2>4. TypeOK'
    BY <1>5, <2>1, <2>3 DEF StatAfterParse, Inv, TypeOK, StoreOK
  <2>5. /\ new'[t].mtime = m /\ new'[t].tu = new[t].tu
        /\ new'[t].raced = new[t].raced
    BY <1>5 DEF StatAfterParse, Inv, TypeOK, Entry
  <2>6. ~ new[t].raced => m \in {NoStat, new[t].tu}
    BY <1>5 DEF StatAfterParse, Inv, CleanCalls
  <2>7. \A u \in Threads : u # t => new'[u] = new[u] /\ pc'[u] = pc[u]
    BY <1>5 DEF StatAfterParse, Inv, TypeOK
  <2>8. pc'[t] = "insert"
    BY <1>5 DEF StatAfterParse, Inv, TypeOK
  <2>9. UNCHANGED <<disk, key>>
    BY <1>5 DEF StatAfterParse
  <2> HIDE DEF m
  <2>10. CleanCalls'
    BY <2>5, <2>6, <2>7, <2>8, <2>9 DEF Inv, CleanCalls
  <2> QED BY <2>1, <2>4, <2>10 DEF Inv, StoreOK
<1>6. ASSUME NEW t \in Threads, Insert(t) PROVE Inv'
  <2>1. key[t] \in Keys /\ new[t] \in Entry
    BY DEF Inv, TypeOK
  <2>2. new[t].raced \/ new[t].mtime \in {NoStat, new[t].tu}
    BY <1>6 DEF Insert, Inv, CleanCalls
  <2>3. StoreOK'
    BY <1>6, <2>1, <2>2, InsertStep DEF Insert
  <2>4. Cardinality(Surplus) \in Nat
    BY FS_Subset, FS_CardinalityType DEF Inv, TypeOK, Surplus
  <2>5. TypeOK' /\ CleanCalls'
    BY <1>6, <2>3, <2>4, ReturnStep DEF Insert, Inv, TypeOK, StoreOK
  <2> QED BY <2>3, <2>5 DEF Inv, StoreOK
<1>7. ASSUME NEW f \in Files, NEW b \in Builds \cup {NoBuild}, Invalidate(f, b)
      PROVE  Inv'
  <2>1. StoreOK'
    BY <1>7, RemoveStep DEF Invalidate
  <2>2. Cardinality(Matching(f, b)) \in Nat
    BY FS_Subset, FS_CardinalityType DEF Inv, TypeOK, Matching
  <2>3. TypeOK' /\ CleanCalls'
    BY <1>7, <2>1, <2>2 DEF Invalidate, Inv, TypeOK, StoreOK, CleanCalls
  <2> QED BY <2>1, <2>3 DEF Inv, StoreOK
<1>8. CASE Clear
  <2>1. Cached' = {} /\ IsFiniteSet(Cached') /\ Cardinality(Cached') = 0
    BY <1>8, FS_EmptySet DEF Clear
  <2>2. LRUOrder'
    BY <1>8, <2>1 DEF Clear, LRUOrder, TotalOrder
  <2>3. TypeOK'
    BY <1>8, <2>1 DEF Clear, Inv, TypeOK
  <2>4. SizeBound' /\ CleanEntries' /\ CleanCalls'
    BY <1>8, <2>1, CapacityAssumption
    DEF Clear, Inv, SizeBound, CleanEntries, CleanCalls
  <2> QED BY <2>2, <2>3, <2>4 DEF Inv
<1>9. ASSUME NEW f \in Files, Edit(f) \/ (\E v \in Version : Restore(f, v))
      PROVE  Inv'
  <2>1. /\ UNCHANGED <<cacheVars, pc, key>> /\ MarkRaced(f)
        /\ disk' \in [Files -> Version \cup {Gone}]
        /\ newest' \in [Files -> Version]
        /\ \A g \in Files : g # f => disk'[g] = disk[g]
    BY <1>9, BoundsAssumption DEF Edit, Restore, Inv, TypeOK, Version
  <2>2. StoreOK'
    BY <2>1 DEF Inv, TypeOK, StoreOK, LRUOrder, SizeBound, CleanEntries
  <2>3. \A t \in Threads :
           /\ new'[t] \in Entry
           /\ new'[t] = new[t] \/ (pc[t] = "stat" /\ new'[t].raced)
           /\ pc[t] = "stat" /\ key[t].file = f => new'[t].raced
    BY <2>1 DEF MarkRaced, Inv, TypeOK, Entry
  <2>4. TypeOK'
    BY <2>1, <2>2, <2>3 DEF MarkRaced, Inv, TypeOK, StoreOK
  <2>5. CleanCalls'
    BY <2>1, <2>3, KeyFile DEF Inv, TypeOK, CleanCalls
  <2> QED BY <2>2, <2>4, <2>5 DEF Inv, StoreOK
<1>10. ASSUME NEW f \in Files, Delete(f) PROVE Inv'
  <2>1. StoreOK'
    BY <1>10 DEF Delete, Inv, TypeOK, StoreOK, LRUOrder, SizeBound,
                 CleanEntries
  <2>2. TypeOK'
    BY <1>10 DEF Delete, Inv, TypeOK
  <2>3. CleanCalls'
    BY <1>10, KeyFile DEF Delete, Inv, TypeOK, CleanCalls
  <2> QED BY <2>1, <2>2, <2>3 DEF Inv, StoreOK
<1>11. CASE UNCHANGED vars
  BY <1>11 DEF vars, Inv, TypeOK, LRUOrder, SizeBound, CleanEntries, CleanCalls
<1> QED
  BY <1>1, <1>2, <1>3, <1>4, <1>5, <1>6, <1>7, <1>8, <1>9, <1>10, <1>11
  DEF Next, Call

-----------------------------------------------------------------------------
(* Inv is an invariant, and with it the claimed ones. *)
THEOREM Invariance == Spec => []Inv
  BY InitInv, NextInv, PTL DEF Spec

(* No interleaving leaves the cache, its order or a thread in a state of   *)
(* another type.                                                           *)
THEOREM TypeCorrect == Spec => []TypeOK
  BY Invariance, PTL DEF Inv

(* The OrderedDict stays totally ordered whatever the threads do. *)
THEOREM OrderCorrect == Spec => []LRUOrder
  BY Invariance, PTL DEF Inv

(* The cache never holds more than capacity entries. *)
THEOREM SizeCorrect == Spec => []SizeBound
  BY Invariance, PTL DEF Inv

(* A hit whose entry was made without a write in between is current. *)
THEOREM FreshHitsCorrect == Spec => FreshHits
<1>1. Inv /\ [Next]_vars =>
        [\A t \in Threads, k \in Keys :
            Hit(t, k) /\ ~ store[k].raced => store[k].tu = disk[k.file]]_vars
  <2> SUFFICES ASSUME Inv, NEW t \in Threads, NEW k \in Keys,
                      Hit(t, k), ~ store[k].raced
               PROVE  store[k].tu = disk[k.file]
    OBVIOUS
  <2>1. k \in Cached /\ store[k].mtime = disk[k.file]
    BY DEF Hit, Valid
  <2>2. store[k].mtime \in {NoStat, store[k].tu}
    BY <2>1 DEF Inv, CleanEntries
  <2>3. disk[k.file] # NoStat
    BY KeyFile DEF Inv, TypeOK, Version, Gone, NoStat
  <2> QED BY <2>1, <2>2, <2>3
<1> QED BY <1>1, Invariance, PTL DEF Spec, FreshHits

-----------------------------------------------------------------------------
(* The counters. *)

LEMMA CountsAreNat ==
  ASSUME TypeOK
  PROVE  /\ Cardinality(Cached) \in Nat
         /\ IsFiniteSet(InFlight) /\ Cardinality(InFlight) \in Nat
<1>1. InFlight \in SUBSET Threads
  BY DEF InFlight
<1> QED BY <1>1, ThreadsAssumption, FS_Subset, FS_CardinalityType DEF TypeOK

(* Taking the keys of R out of the dictionary takes as many entries out as *)
(* were counted. *)
LEMMA RemovedCount ==
  ASSUME TypeOK, NEW R \in SUBSET Cached
  PROVE  /\ IsFiniteSet(Cached \ R)
         /\ Cardinality(R) \in Nat
         /\ Cardinality(Cached \ R) = Cardinality(Cached) - Cardinality(R)
<1>1. Cached \cap R = R
  OBVIOUS
<1>2. IsFiniteSet(R) /\ Cardinality(R) \in Nat
  BY FS_Subset, FS_CardinalityType DEF TypeOK
<1>3. /\ IsFiniteSet(Cached \ R)
      /\ Cardinality(Cached \ R) = Cardinality(Cached) - Cardinality(Cached \cap R)
  BY FS_Difference DEF TypeOK
<1> QED BY <1>1, <1>2, <1>3

LEMMA LedgerInit == Init => StatsLedger
<1> SUFFICES ASSUME Init PROVE StatsLedger
  OBVIOUS
<1>1. Cached = {} /\ InFlight = {}
  BY DEF Init, InFlight
<1> QED BY <1>1, FS_EmptySet DEF Init, StatsLedger

LEMMA LedgerNext == Inv /\ StatsLedger /\ [Next]_vars => StatsLedger'
<1> SUFFICES ASSUME Inv, StatsLedger, [Next]_vars PROVE StatsLedger'
  OBVIOUS
<1> USE CountsAreNat DEF diskVars, cacheVars, threadVars
<1>0. TypeOK /\ evictions \in Nat /\ misses \in Nat
  BY DEF Inv, TypeOK
<1>1. ASSUME UNCHANGED <<store, evictions, misses>>, InFlight' \subseteq InFlight
      PROVE  StatsLedger'
  <2>1. Cardinality(InFlight') <= Cardinality(InFlight)
        /\ Cardinality(InFlight') \in Nat
    BY <1>0, <1>1, FS_Subset, FS_CardinalityType
  <2> QED BY <1>0, <1>1, <2>1 DEF StatsLedger
<1>2. ASSUME NEW t \in Threads, NEW k \in Keys, Miss(t, k) PROVE StatsLedger'
  <2>1. InFlight' = InFlight \cup {t} /\ t \notin InFlight
    BY <1>2 DEF Miss, InFlight, Inv, TypeOK
  <2>2. Cardinality(InFlight') = Cardinality(InFlight) + 1
    BY <1>0, <2>1, FS_AddElement
  <2>3. Cached' = Cached \ {k}
    BY <1>2, DropDomain DEF Miss
  <2>4. Cardinality(Cached') = IF k \in Cached THEN Cardinality(Cached) - 1
                               ELSE Cardinality(Cached)
    BY <2>3, FS_RemoveElement DEF Inv, TypeOK
  <2> QED BY <1>0, <1>2, <2>2, <2>4 DEF Miss, StatsLedger
<1>3. ASSUME NEW t \in Threads, Insert(t) PROVE StatsLedger'
  <2>1. InFlight' = InFlight \ {t} /\ t \in InFlight
    BY <1>3 DEF Insert, Return, InFlight, Inv, TypeOK
  <2>2. Cardinality(InFlight') = Cardinality(InFlight) - 1
    BY <1>0, <2>1, FS_RemoveElement
  <2>3. Cached' = (Cached \ Surplus) \cup {key[t]}
    BY <1>3, DropDomain DEF Insert, Put
  <2>4. Surplus \in SUBSET Cached
    BY DEF Surplus
  <2>5. Cardinality(Cached') <= Cardinality(Cached) - Cardinality(Surplus) + 1
        /\ Cardinality(Cached') \in Nat /\ Cardinality(Surplus) \in Nat
    <3>1. /\ IsFiniteSet(Cached \ Surplus)
          /\ Cardinality(Surplus) \in Nat
          /\ Cardinality(Cached \ Surplus)
                = Cardinality(Cached) - Cardinality(Surplus)
      BY <1>0, <2>4, RemovedCount
    <3>2. Cardinality(Cached \ Surplus) \in Nat
      BY <3>1, FS_CardinalityType
    <3>3. Cardinality(Cached') \in {Cardinality(Cached \ Surplus),
                                   Cardinality(Cached \ Surplus) + 1}
      BY <2>3, <3>1, FS_AddElement
    <3> HIDE DEF Cached
    <3> QED BY <1>0, <3>1, <3>2, <3>3
  <2> QED BY <1>0, <1>3, <2>2, <2>5 DEF Insert, StatsLedger
<1>4. ASSUME NEW f \in Files, NEW b \in Builds \cup {NoBuild}, Invalidate(f, b)
      PROVE  StatsLedger'
  <2>1. Matching(f, b) \in SUBSET Cached
    BY DEF Matching
  <2>2. Cached' = Cached \ Matching(f, b)
    BY <1>4, DropDomain DEF Invalidate
  <2>3. Cardinality(Matching(f, b)) \in Nat
        /\ Cardinality(Cached') = Cardinality(Cached) - Cardinality(Matching(f, b))
    BY <1>0, <2>1, <2>2, RemovedCount
  <2>4. InFlight' = InFlight
    BY <1>4 DEF Invalidate, InFlight
  <2> QED BY <1>0, <1>4, <2>3, <2>4 DEF Invalidate, StatsLedger
<1>5. CASE Clear
  <2>1. Cached' = {} /\ InFlight' = InFlight
    BY <1>5 DEF Clear, InFlight
  <2>2. Cardinality(Cached') = 0
    BY <2>1, FS_EmptySet
  <2> QED BY <1>0, <1>5, <2>1, <2>2 DEF Clear, StatsLedger
<1>6. ASSUME NEW t \in Threads, ParseRaises(t) PROVE StatsLedger'
  <2>1. InFlight' \subseteq InFlight
    BY <1>6 DEF ParseRaises, Return, InFlight, Inv, TypeOK
  <2> QED BY <1>1, <1>6, <2>1 DEF ParseRaises
<1>7. ASSUME NEW t \in Threads, ParseDone(t) \/ StatAfterParse(t) PROVE StatsLedger'
  <2>1. InFlight' \subseteq InFlight
    BY <1>7 DEF ParseDone, StatAfterParse, InFlight, Inv, TypeOK
  <2> QED BY <1>1, <1>7, <2>1 DEF ParseDone, StatAfterParse
<1>8. ASSUME NEW t \in Threads, NEW k \in Keys, Hit(t, k) PROVE StatsLedger'
  BY <1>1, <1>8 DEF Hit, InFlight
<1>9. ASSUME NEW f \in Files,
             Edit(f) \/ Delete(f) \/ (\E v \in Version : Restore(f, v))
      PROVE  StatsLedger'
  BY <1>1, <1>9 DEF Edit, Delete, Restore, InFlight
<1>10. CASE UNCHANGED vars
  BY <1>1, <1>10 DEF vars, InFlight
<1> QED
  BY <1>2, <1>3, <1>4, <1>5, <1>6, <1>7, <1>8, <1>9, <1>10 DEF Next, Call

(* The counters of stats() account for each other in every interleaving. *)
THEOREM LedgerCorrect == Spec => []StatsLedger
  BY Invariance, LedgerInit, LedgerNext, PTL DEF Spec

-----------------------------------------------------------------------------
(* The dictionary as a sequence: the keys of a finite total order have the *)
(* numbers 0 to n - 1 of keys in front of them, each number once.          *)

LEMMA Ranks ==
  ASSUME NEW S \in SUBSET Keys, NEW o \in [Keys -> SUBSET S],
         TotalOrder(S, o), IsFiniteSet(S)
  PROVE  /\ Cardinality(S) \in Nat
         /\ \A k \in S : Cardinality(o[k]) \in 0..(Cardinality(S) - 1)
         /\ \A j, k \in S : j \in o[k] <=> Cardinality(o[j]) < Cardinality(o[k])
         /\ \A j, k \in S : Cardinality(o[j]) = Cardinality(o[k]) => j = k
         /\ \A i \in 1..Cardinality(S) : \E k \in S : Cardinality(o[k]) = i - 1
<1> DEFINE n == Cardinality(S)
           f == [k \in S |-> Cardinality(o[k]) + 1]
<1>1. n \in Nat
  BY FS_CardinalityType
<1>2. ASSUME NEW k \in S
      PROVE  IsFiniteSet(o[k]) /\ Cardinality(o[k]) \in 0..(n - 1)
  <2>1. o[k] \in SUBSET (S \ {k})
    BY DEF TotalOrder
  <2>2. IsFiniteSet(S \ {k}) /\ Cardinality(S \ {k}) = n - 1
    BY FS_RemoveElement
  <2>3. IsFiniteSet(o[k]) /\ Cardinality(o[k]) <= n - 1
    BY <2>1, <2>2, FS_Subset
  <2>4. Cardinality(o[k]) \in Nat
    BY <2>3, FS_CardinalityType
  <2> QED BY <1>1, <2>3, <2>4
<1>3. ASSUME NEW j \in S, NEW k \in S, j \in o[k]
      PROVE  Cardinality(o[j]) < Cardinality(o[k])
  <2>1. o[j] \in SUBSET (o[k] \ {j})
    BY <1>3 DEF TotalOrder
  <2>2. /\ IsFiniteSet(o[k] \ {j})
        /\ Cardinality(o[k] \ {j}) = Cardinality(o[k]) - 1
    BY <1>2, <1>3, FS_RemoveElement
  <2>3. Cardinality(o[j]) <= Cardinality(o[k]) - 1
    BY <2>1, <2>2, FS_Subset
  <2>4. Cardinality(o[j]) \in Int /\ Cardinality(o[k]) \in Int
    BY <1>1, <1>2
  <2> QED BY <2>3, <2>4
<1>4. \A j, k \in S : j # k => j \in o[k] \/ k \in o[j]
  BY DEF TotalOrder
<1>5. \A k \in S : Cardinality(o[k]) \in Int
  BY <1>1, <1>2
<1>6. \A j, k \in S : Cardinality(o[j]) = Cardinality(o[k]) => j = k
  BY <1>3, <1>4, <1>5
<1>7. ASSUME NEW j \in S, NEW k \in S, Cardinality(o[j]) < Cardinality(o[k])
      PROVE  j \in o[k]
  BY <1>3, <1>4, <1>5, <1>7
<1>8. ASSUME NEW i \in 1..n PROVE \E k \in S : Cardinality(o[k]) = i - 1
  <2>1. f \in [S -> 1..n] /\ \A j, k \in S : f[j] = f[k] => j = k
    BY <1>1, <1>2, <1>6
  <2>2. f \in Injection(S, 1..n)
    BY <2>1, Fun_IsInj
  <2>3. IsFiniteSet(1..n) /\ Cardinality(1..n) = n
    BY <1>1, FS_Interval
  <2>4. f \in Surjection(S, 1..n)
    BY <2>2, <2>3, FS_Injection
  <2>5. \E k \in S : f[k] = i
    <3> HIDE DEF f
    <3> QED BY <2>4 DEF Surjection
  <2>6. PICK k \in S : Cardinality(o[k]) + 1 = i
    BY <2>5
  <2> QED BY <1>1, <1>5, <2>6
<1> QED BY <1>1, <1>2, <1>3, <1>6, <1>7, <1>8

(* So Sorted is a sequence of the keys in which j stands before k exactly  *)
(* when the dictionary has it in front of k.                               *)
LEMMA SortedOrder ==
  ASSUME NEW S \in SUBSET Keys, NEW o \in [Keys -> SUBSET S],
         TotalOrder(S, o), IsFiniteSet(S)
  PROVE  LET s == Sorted(S, o) IN
         /\ s \in Seq(S) /\ Len(s) = Cardinality(S)
         /\ DOMAIN s = 1..Cardinality(S)
         /\ {s[i] : i \in DOMAIN s} = S
         /\ \A j, k : (\E g, h \in DOMAIN s : g < h /\ s[g] = j /\ s[h] = k)
                        <=> j \in S /\ k \in S /\ j \in o[k]
<1> DEFINE n == Cardinality(S)
           s == Sorted(S, o)
<1>1. n \in Nat
  BY Ranks
<1>2. DOMAIN s = 1..n
        /\ \A i \in 1..n : s[i] = CHOOSE k \in S : Cardinality(o[k]) = i - 1
  BY DEF Sorted
<1>3. \A i \in 1..n : s[i] \in S /\ Cardinality(o[s[i]]) = i - 1
  <2> TAKE i \in 1..n
  <2>1. \E k \in S : Cardinality(o[k]) = i - 1
    BY Ranks
  <2> QED BY <1>2, <2>1, Zenon
<1>4. s \in [1..n -> S]
  BY <1>2, <1>3 DEF Sorted
<1>5. \A k \in S : Cardinality(o[k]) + 1 \in 1..n /\ s[Cardinality(o[k]) + 1] = k
  <2> TAKE k \in S
  <2>1. Cardinality(o[k]) \in 0..(n - 1)
    BY Ranks
  <2> DEFINE i == Cardinality(o[k]) + 1
  <2>2. i \in 1..n /\ i - 1 = Cardinality(o[k])
    BY <1>1, <2>1
  <2>3. s[i] \in S /\ Cardinality(o[s[i]]) = Cardinality(o[k])
    BY <1>3, <2>2
  <2> HIDE DEF s
  <2>4. s[i] = k
    BY <2>3, Ranks
  <2> QED BY <2>2, <2>4
<1> HIDE DEF s
<1>6. s \in Seq(S) /\ Len(s) = n
  BY <1>1, <1>4
<1>7. {s[i] : i \in DOMAIN s} = S
  BY <1>2, <1>3, <1>5
<1>8. ASSUME NEW j, NEW k, NEW g \in 1..n, NEW h \in 1..n,
             g < h, s[g] = j, s[h] = k
      PROVE  j \in S /\ k \in S /\ j \in o[k]
  <2>1. /\ j \in S /\ Cardinality(o[j]) = g - 1
        /\ k \in S /\ Cardinality(o[k]) = h - 1
    BY <1>3, <1>8
  <2>2. Cardinality(o[j]) < Cardinality(o[k])
    BY <1>1, <1>8, <2>1
  <2> QED BY <2>1, <2>2, Ranks
<1>9. ASSUME NEW j \in S, NEW k \in S, j \in o[k]
      PROVE  \E g, h \in 1..n : g < h /\ s[g] = j /\ s[h] = k
  <2>1. Cardinality(o[j]) < Cardinality(o[k])
    BY <1>9, Ranks
  <2>2. Cardinality(o[j]) \in Int /\ Cardinality(o[k]) \in Int
    BY <1>1, Ranks
  <2>3. Cardinality(o[j]) + 1 < Cardinality(o[k]) + 1
    BY <2>1, <2>2
  <2> QED BY <1>5, <2>3
<1>10. \A j, k : (\E g, h \in DOMAIN s : g < h /\ s[g] = j /\ s[h] = k)
                   <=> j \in S /\ k \in S /\ j \in o[k]
  BY <1>2, <1>8, <1>9
<1> QED BY <1>2, <1>6, <1>7, <1>10 DEF s

OrderOK ==
    /\ Order \in Seq(Keys) /\ Len(Order) = Cardinality(Cached)
    /\ \A k \in Cached : older[k] = {} => Order[1] = k
    /\ Abstract!Held = Cached
    /\ \A j, k : Abstract!Before(j, k)
                   <=> j \in Cached /\ k \in Cached /\ j \in older[k]

LEMMA OrderIs == Inv => OrderOK
<1> SUFFICES ASSUME Inv PROVE OrderOK
  OBVIOUS
<1> DEFINE s == Sorted(Cached, older)
<1>1. /\ Cached \in SUBSET Keys /\ IsFiniteSet(Cached)
      /\ older \in [Keys -> SUBSET Cached] /\ TotalOrder(Cached, older)
  BY DEF Inv, TypeOK, LRUOrder
<1>2. /\ s \in Seq(Cached) /\ Len(s) = Cardinality(Cached)
      /\ DOMAIN s = 1..Cardinality(Cached)
      /\ {s[i] : i \in DOMAIN s} = Cached
      /\ \A j, k : (\E g, h \in DOMAIN s : g < h /\ s[g] = j /\ s[h] = k)
                     <=> j \in Cached /\ k \in Cached /\ j \in older[k]
  BY <1>1, SortedOrder
<1>3. s = Order
  BY DEF Order
<1> HIDE DEF s
<1>4. Order \in Seq(Keys) /\ Len(Order) = Cardinality(Cached)
  BY <1>1, <1>2, <1>3
<1>5. ASSUME NEW k \in Cached, older[k] = {} PROVE Order[1] = k
  <2>1. Cardinality(Cached) \in Nat
    BY <1>1, FS_CardinalityType
  <2>2. PICK i \in DOMAIN s : s[i] = k
    BY <1>2
  <2>3. CASE i = 1
    BY <1>3, <2>2, <2>3
  <2>4. CASE i # 1
    <3>1. 1 \in DOMAIN s /\ 1 < i
      BY <1>2, <2>1, <2>2, <2>4
    <3>2. s[1] \in older[k]
      BY <1>2, <2>2, <3>1
    <3> QED BY <1>5, <3>2
  <2> QED BY <2>3, <2>4
<1> QED BY <1>2, <1>3, <1>4, <1>5 DEF OrderOK, Abstract!Held, Abstract!Before

LEMMA RearrangeStep ==
  ASSUME Inv, Inv', NEW R, NEW last,
         Cached' = (Cached \ R) \cup last,
         \A j, k \in Cached' :
            j \in older'[k] <=> j \notin last /\ (k \in last \/ j \in older[k])
  PROVE  Abstract!Rearrange(R, last)
<1>1. OrderOK
  BY OrderIs
<1>2. OrderOK'
  BY OrderIs, PTL
<1>3. \A j, k \in Cached' : j \notin last /\ k \notin last
         => j \in Cached /\ k \in Cached
  OBVIOUS
<1>4. Order' \in Seq(Keys) /\ Abstract!Held' = (Abstract!Held \ R) \cup last
  BY <1>1, <1>2 DEF OrderOK
<1>5. \A j, k \in Abstract!Held' :
         Abstract!Before(j, k)'
            <=> j \notin last /\ (k \in last \/ Abstract!Before(j, k))
  BY <1>1, <1>2, <1>3 DEF OrderOK
<1> QED BY <1>4, <1>5 DEF Abstract!Rearrange

(* What a full cache evicts is the sequence's first key. *)
LEMMA SurplusDisplaced ==
  ASSUME Inv
  PROVE  Surplus = Abstract!Displaced
<1> DEFINE n == Cardinality(Cached)
<1>1. n \in Nat /\ n <= Capacity /\ Capacity \in Nat \ {0}
  BY FS_CardinalityType, CapacityAssumption DEF Inv, TypeOK, SizeBound
<1>2. OrderOK
  BY OrderIs
<1>3. \A k \in Cached : Cardinality(older[k]) \in Nat
                        /\ (Cardinality(older[k]) = 0 <=> older[k] = {})
  <2> TAKE k \in Cached
  <2>1. older[k] \in SUBSET Cached
    BY DEF Inv, TypeOK
  <2>2. IsFiniteSet(older[k])
    BY <2>1, FS_Subset DEF Inv, TypeOK
  <2> QED BY <2>2, FS_EmptySet, FS_CardinalityType
<1>4. CASE n < Capacity
  <2>1. Surplus = {}
    BY <1>1, <1>3, <1>4 DEF Surplus
  <2> QED BY <1>1, <1>2, <1>4, <2>1 DEF OrderOK, Abstract!Displaced
<1>5. CASE n = Capacity
  <2>1. Cached # {}
    BY <1>1, <1>5, FS_EmptySet
  <2>2. PICK k \in Cached : older[k] = {}
    BY <2>1, OldestExists DEF Inv, TypeOK, LRUOrder
  <2>3. \A j \in Cached : older[j] = {} => j = k
    BY <1>2, <2>2 DEF OrderOK
  <2>4. Surplus = {j \in Cached : older[j] = {}}
    BY <1>1, <1>3, <1>5 DEF Surplus
  <2>5. Surplus = {k}
    BY <2>2, <2>3, <2>4
  <2> QED BY <1>2, <1>5, <2>2, <2>5 DEF OrderOK, Abstract!Displaced
<1> QED BY <1>1, <1>4, <1>5

(* What Drop and DropOrder do to the sequence, and a removal's count. *)
LEMMA EvictStep ==
  ASSUME Inv, Inv', NEW R \in SUBSET Cached,
         store' = Drop(R, store), older' = DropOrder(R, older),
         evictions' = evictions + Cardinality(R)
  PROVE  Abstract!Evict(R)
<1>1. Cached' = (Cached \ R) \cup {}
  BY DropDomain
<1>2. \A j, k \in Cached' :
         j \in older'[k] <=> j \notin {} /\ (k \in {} \/ j \in older[k])
  BY <1>1 DEF Inv, TypeOK, DropOrder
<1>3. Abstract!Rearrange(R, {})
  BY <1>1, <1>2, RearrangeStep
<1>4. R \subseteq Abstract!Held
  BY OrderIs DEF OrderOK
<1>5. Abstract!Cardinality(R) = Cardinality(R)
  BY DEF Cardinality, Abstract!Cardinality
<1> QED BY <1>3, <1>4, <1>5 DEF Abstract!Evict

LEMMA UseStep ==
  ASSUME Inv, Inv', NEW t \in Threads, NEW k \in Keys, Hit(t, k)
  PROVE  Abstract!Use(k)
<1>1. k \in Cached /\ Cached' = (Cached \ {}) \cup {k}
  BY DEF Hit, Valid
<1>2. \A i, j \in Cached' :
         i \in older'[j] <=> i \notin {k} /\ (j \in {k} \/ i \in older[j])
  BY <1>1 DEF Hit, Touch, Inv, TypeOK
<1>3. Abstract!Rearrange({}, {k})
  BY <1>1, <1>2, RearrangeStep
<1>4. k \in Abstract!Held
  BY <1>1, OrderIs DEF OrderOK
<1> QED BY <1>3, <1>4 DEF Hit, Abstract!Use

LEMMA FailStep ==
  ASSUME Inv, Inv', NEW t \in Threads, NEW k \in Keys, Miss(t, k)
  PROVE  Abstract!Fail(k)
<1> DEFINE R == {k} \cap Cached
<1>1. store' = Drop(R, store) /\ older' = DropOrder(R, older)
  <2>1. DOMAIN store \ {k} = DOMAIN store \ R
    OBVIOUS
  <2>2. Drop({k}, store) = Drop(R, store)
    BY <2>1 DEF Drop
  <2>3. DropOrder({k}, older) = DropOrder(R, older)
    <3>1. \A j \in Keys : (IF j \in {k} THEN {} ELSE older[j] \ {k})
                          = (IF j \in R THEN {} ELSE older[j] \ R)
      <4>1. \A j \in Keys : older[j] \subseteq Cached /\ (j \notin Cached => older[j] = {})
        BY DEF Inv, TypeOK, LRUOrder, TotalOrder
      <4>2. k \notin Cached => older[k] = {}
        BY <4>1
      <4> QED BY <4>1, <4>2
    <3> QED BY <3>1 DEF DropOrder
  <2> QED BY <2>2, <2>3 DEF Miss
<1>2. evictions' = evictions + Cardinality(R)
  <2>1. Cardinality(R) = IF k \in Cached THEN 1 ELSE 0
    <3>1. CASE k \in Cached
      <4>1. R = {k}
        BY <3>1
      <4> QED BY <3>1, <4>1, FS_Singleton
    <3>2. CASE k \notin Cached
      <4>1. R = {}
        BY <3>2
      <4> QED BY <3>2, <4>1, FS_EmptySet
    <3> QED BY <3>1, <3>2
  <2> HIDE DEF R
  <2> QED BY <2>1 DEF Miss, Inv, TypeOK
<1>3. Abstract!Evict(R)
  BY <1>1, <1>2, EvictStep
<1>4. R = {k} \cap Abstract!Held
  BY OrderIs DEF OrderOK
<1> QED BY <1>3, <1>4 DEF Miss, Abstract!Fail

LEMMA AddStep ==
  ASSUME Inv, Inv', NEW t \in Threads, Insert(t)
  PROVE  Abstract!Add(key[t])
<1> DEFINE kept == Cached \ Surplus
           k == key[t]
<1>1. DOMAIN Drop(Surplus, store) = kept /\ k \in Keys
  BY DropDomain DEF Inv, TypeOK
<1>2. Cached' = kept \cup {k}
  <2>1. store' = Put(k, new[t], Drop(Surplus, store))
    BY DEF Insert
  <2> QED BY <1>1, <2>1 DEF Put
<1>3. older' = Touch(k, DropOrder(Surplus, older), kept)
  BY <1>1 DEF Insert
<1>4. \A i, j \in Cached' :
         i \in older'[j] <=> i \notin {k} /\ (j \in {k} \/ i \in older[j])
  <2>1. \A i : \A j \in Keys : i \in older'[j] <=>
           i # k /\ (IF j = k THEN i \in kept
                     ELSE i \in DropOrder(Surplus, older)[j])
    BY <1>3 DEF Touch
  <2>2. \A i : \A j \in Keys : i \in DropOrder(Surplus, older)[j]
           <=> j \notin Surplus /\ i \in older[j] /\ i \notin Surplus
    BY DEF DropOrder
  <2>3. Cached' \subseteq Keys
    BY DEF Inv, TypeOK
  <2> QED BY <1>2, <2>1, <2>2, <2>3
<1>5. Abstract!Rearrange(Surplus, {k})
  BY <1>2, <1>4, RearrangeStep
<1>6. evictions' = evictions + Cardinality(Surplus)
      /\ UNCHANGED <<hits, misses>>
  BY DEF Insert
<1>7. Abstract!Cardinality(Surplus) = Cardinality(Surplus)
  BY DEF Cardinality, Abstract!Cardinality
<1> QED BY <1>5, <1>6, <1>7, SurplusDisplaced DEF Abstract!Add

LEMMA ClearStep ==
  ASSUME Inv, Inv', Clear
  PROVE  Abstract!Clear
<1>1. Order' = << >>
  <2>1. Cached' = {}
    BY DEF Clear
  <2>2. Cardinality(Cached') = 0
    BY <2>1, FS_EmptySet
  <2>3. OrderOK'
    BY OrderIs, PTL
  <2> QED BY <2>2, <2>3, EmptySeq DEF OrderOK
<1> QED BY <1>1 DEF Clear, Abstract!Clear

LEMMA LRUInit == Init => Abstract!Init
<1> SUFFICES ASSUME Init PROVE Abstract!Init
  OBVIOUS
<1>1. OrderOK
  BY InitInv, OrderIs
<1>2. Cardinality(Cached) = 0
  <2>1. Cached = {}
    BY DEF Init
  <2> QED BY <2>1, FS_EmptySet
<1>3. Order = << >>
  BY <1>1, <1>2, EmptySeq DEF OrderOK
<1> QED BY <1>3 DEF Init, Abstract!Init

(* Each step is an operation of the abstract store, or none. *)
LEMMA LRUNext == Inv /\ Inv' /\ [Next]_vars => [Abstract!Next]_(Abstract!vars)
<1> SUFFICES ASSUME Inv, Inv', [Next]_vars
             PROVE  Abstract!Next \/ UNCHANGED Abstract!vars
  OBVIOUS
<1> USE DEF diskVars, cacheVars, threadVars
<1>1. ASSUME UNCHANGED cacheVars PROVE UNCHANGED Abstract!vars
  BY <1>1 DEF Order, Abstract!vars
<1>2. ASSUME NEW t \in Threads, NEW k \in Keys, Hit(t, k) PROVE Abstract!Next
  BY <1>2, UseStep DEF Abstract!Next
<1>3. ASSUME NEW t \in Threads, NEW k \in Keys, Miss(t, k) PROVE Abstract!Next
  BY <1>3, FailStep DEF Abstract!Next
<1>4. ASSUME NEW t \in Threads, Insert(t) PROVE Abstract!Next
  <2>1. key[t] \in Keys
    BY DEF Inv, TypeOK
  <2> QED BY <1>4, <2>1, AddStep DEF Abstract!Next
<1>5. ASSUME NEW f \in Files, NEW b \in Builds \cup {NoBuild}, Invalidate(f, b)
      PROVE  Abstract!Next
  <2>1. Matching(f, b) \in SUBSET Cached /\ Matching(f, b) \in SUBSET Keys
    BY DEF Matching, Inv, TypeOK
  <2>2. Abstract!Evict(Matching(f, b))
    BY <1>5, <2>1, EvictStep DEF Invalidate
  <2>3. Abstract!Discard(Matching(f, b))
    BY <1>5, <2>2 DEF Invalidate, Abstract!Discard
  <2> QED BY <2>1, <2>3 DEF Abstract!Next
<1>6. CASE Clear
  BY <1>6, ClearStep DEF Abstract!Next
<1>7. ASSUME NEW t \in Threads,
             ParseDone(t) \/ ParseRaises(t) \/ StatAfterParse(t)
      PROVE  UNCHANGED Abstract!vars
  BY <1>1, <1>7 DEF ParseDone, ParseRaises, StatAfterParse
<1>8. ASSUME NEW f \in Files,
             Edit(f) \/ Delete(f) \/ (\E v \in Version : Restore(f, v))
      PROVE  UNCHANGED Abstract!vars
  BY <1>1, <1>8 DEF Edit, Delete, Restore
<1>9. CASE UNCHANGED vars
  BY <1>1, <1>9 DEF vars
<1> QED
  BY <1>2, <1>3, <1>4, <1>5, <1>6, <1>7, <1>8, <1>9 DEF Next, Call

(* The cache of several threads implements the sequential LRU store its    *)
(* docstring promises: step by step, with hits, misses and insertions      *)
(* those of the store on the same key, whatever the threads interleave.    *)
THEOREM ImplementsLRU == Spec => IsLRU
<1>1. Inv /\ Inv' /\ [Next]_vars =>
        [\A t \in Threads, k \in Keys :
            /\ Hit(t, k) => Abstract!Use(k)
            /\ Miss(t, k) => Abstract!Fail(k)
            /\ Insert(t) => Abstract!Add(key[t])]_vars
  BY UseStep, FailStep, AddStep
<1> QED
  BY <1>1, Invariance, LRUInit, LRUNext, PTL DEF Spec, IsLRU, Abstract!Spec
=============================================================================
