------------------------------- MODULE TUCache -------------------------------
(***************************************************************************)
(* The translation-unit cache of core/tu_cache.py: an LRU dictionary keyed *)
(* by (file, build, flags), shared by several threads.                     *)
(*                                                                         *)
(* get_or_parse is four steps, because only the first and the last hold    *)
(* the lock: look the key up and stat the file (Hit or Miss), run the      *)
(* parser (ParseDone or ParseRaises), stat the file again                  *)
(* (StatAfterParse), insert (Insert).  Other threads and whoever edits the *)
(* sources act between them.                                               *)
(*                                                                         *)
(* A source file is abstracted to its version: one number stands for its   *)
(* content and for its st_mtime_ns, so putting an old version back puts    *)
(* its old mtime back too (cp -p, a checkout that keeps times).            *)
(***************************************************************************)
EXTENDS Integers, FiniteSets

CONSTANTS
    Threads,    \* threads that call the cache
    Files,      \* source files, after os.path.realpath
    Builds,     \* build directories, after os.path.realpath
    NoBuild,    \* the "" that stands for build_path = None
    Flags,      \* hashes of flag tuples
    Keys,       \* the keys that the callers ask for
    Capacity,   \* TUCache(capacity)
    MaxVersion, \* bound: versions a file goes through
    MaxLookups  \* bound: calls of get_or_parse

CacheKey == [file: Files, build: Builds \cup {NoBuild}, flags: Flags]

ASSUME KeysAssumption == Keys \subseteq CacheKey /\ Keys # {}
ASSUME ThreadsAssumption == IsFiniteSet(Threads)
ASSUME CapacityAssumption == Capacity \in Nat \ {0}
ASSUME BoundsAssumption == MaxVersion \in Nat \ {0} /\ MaxLookups \in Nat

Gone   == -1    \* what Hit and Miss take for the mtime of a missing file
NoStat == 0     \* what StatAfterParse stores for one

Version == 1..MaxVersion

VARIABLES
    disk,       \* disk[f]: the version of file f, or Gone
    newest,     \* newest[f]: the last version f was given
    store,      \* the entries: a function from the keys that are cached
    older,      \* older[k]: the cached keys nearer the LRU end than k
    pc,         \* pc[t]: where thread t is in get_or_parse
    key,        \* key[t]: the key of its call
    new,        \* new[t]: the entry it is building
    hits, misses, evictions

vars == <<disk, newest, store, older, pc, key, new, hits, misses, evictions>>
cacheVars == <<store, older, hits, misses, evictions>>
threadVars == <<pc, key, new>>
diskVars == <<disk, newest>>

-----------------------------------------------------------------------------
(* An entry: the version tu was parsed from, the mtime stored with it, and *)
(* (a history bit, not in the code) whether the file was written between   *)
(* the parser's read and that stat.                                        *)
Entry == [tu: Version, mtime: Version \cup {NoStat}, raced: BOOLEAN]

Cached == DOMAIN store

(* The locals of a thread that is not in a call. *)
AnyKey == CHOOSE k \in Keys : TRUE
Blank  == [tu |-> 1, mtime |-> NoStat, raced |-> FALSE]

(* The OrderedDict: a function for its items, and for its order the keys   *)
(* in front of each.  Drop removes the keys of R, Append stores e under k  *)
(* at the MRU end (an assignment and a move_to_end), Touch is move_to_end. *)
Drop(R, s)  == [k \in DOMAIN s \ R |-> s[k]]

(* Mutant of DropOrder: the others still come after what has left. *)
DropOrderHalf(R, o) == [k \in Keys |-> IF k \in R THEN {} ELSE o[k]]
DropOrder(R, o) == [k \in Keys |-> IF k \in R THEN {} ELSE o[k] \ R]

Put(k, e, s)   == [j \in DOMAIN s \cup {k} |-> IF j = k THEN e ELSE s[j]]

(* Mutants of Touch: k is kept before the others too; k is not moved. *)
TouchTwice(k, o, present) == [o EXCEPT ![k] = present \ {k}]
TouchFifo(k, o, present) ==
    IF k \in present THEN o ELSE [o EXCEPT ![k] = present]
Touch(k, o, present) ==
    [j \in Keys |-> IF j = k THEN present \ {k} ELSE o[j] \ {k}]

Init ==
    /\ disk = [f \in Files |-> 1]
    /\ newest = [f \in Files |-> 1]
    /\ store = [k \in {} |-> 0]
    /\ older = [k \in Keys |-> {}]
    /\ pc = [t \in Threads |-> "idle"]
    /\ key = [t \in Threads |-> AnyKey]
    /\ new = [t \in Threads |-> Blank]
    /\ hits = 0 /\ misses = 0 /\ evictions = 0

-----------------------------------------------------------------------------
(* get_or_parse *)

(* Mutant of Valid: an entry newer than its file is valid. *)
ValidIfNewer(k) == k \in Cached /\ store[k].mtime >= disk[k.file]
Valid(k) == k \in Cached /\ store[k].mtime = disk[k.file]

(* The entry is there and its mtime is the file's. *)
Hit(t, k) ==
    /\ pc[t] = "idle" /\ hits + misses < MaxLookups
    /\ Valid(k)
    /\ older' = Touch(k, older, Cached)
    /\ hits' = hits + 1
    /\ UNCHANGED <<diskVars, threadVars, store, misses, evictions>>

Return(t) ==
    /\ pc' = [pc EXCEPT ![t] = "idle"]
    /\ key' = [key EXCEPT ![t] = AnyKey]
    /\ new' = [new EXCEPT ![t] = Blank]

(* Mutants of Miss: a stale entry is no miss; a stale entry is kept. *)
MissStaleUncounted(t, k) ==
    /\ pc[t] = "idle" /\ hits + misses < MaxLookups
    /\ ~ Valid(k)
    /\ store' = Drop({k}, store)
    /\ older' = DropOrder({k}, older)
    /\ evictions' = IF k \in Cached THEN evictions + 1 ELSE evictions
    /\ misses' = IF k \in Cached THEN misses ELSE misses + 1
    /\ pc' = [pc EXCEPT ![t] = "parse"]
    /\ key' = [key EXCEPT ![t] = k]
    /\ UNCHANGED <<diskVars, new, hits>>

MissKeepsStale(t, k) ==
    /\ pc[t] = "idle" /\ hits + misses < MaxLookups
    /\ ~ Valid(k)
    /\ misses' = misses + 1
    /\ pc' = [pc EXCEPT ![t] = "parse"]
    /\ key' = [key EXCEPT ![t] = k]
    /\ UNCHANGED <<diskVars, store, older, new, hits, evictions>>

(* No entry, or a stale one, which is evicted; the lock is released. *)
Miss(t, k) ==
    /\ pc[t] = "idle" /\ hits + misses < MaxLookups
    /\ ~ Valid(k)
    /\ store' = Drop({k}, store)
    /\ older' = DropOrder({k}, older)
    /\ evictions' = IF k \in Cached THEN evictions + 1 ELSE evictions
    /\ misses' = misses + 1
    /\ pc' = [pc EXCEPT ![t] = "parse"]
    /\ key' = [key EXCEPT ![t] = k]
    /\ UNCHANGED <<diskVars, new, hits>>

ParseDone(t) ==
    /\ pc[t] = "parse"
    /\ disk[key[t].file] # Gone
    /\ new' = [new EXCEPT ![t] = [tu |-> disk[key[t].file],
                                  mtime |-> NoStat, raced |-> FALSE]]
    /\ pc' = [pc EXCEPT ![t] = "stat"]
    /\ UNCHANGED <<diskVars, cacheVars, key>>

(* The parser's exception leaves get_or_parse: nothing is inserted. *)
ParseRaises(t) ==
    /\ pc[t] = "parse"
    /\ Return(t)
    /\ UNCHANGED <<diskVars, cacheVars>>

StatAfterParse(t) ==
    /\ pc[t] = "stat"
    /\ new' = [new EXCEPT ![t].mtime = IF disk[key[t].file] = Gone
                                       THEN NoStat ELSE disk[key[t].file]]
    /\ pc' = [pc EXCEPT ![t] = "insert"]
    /\ UNCHANGED <<diskVars, cacheVars, key>>

(* What the loop popitem(last=False) takes while the store is full: the    *)
(* entries in the oldest Cardinality(Cached) - Capacity + 1 places.        *)
(* Mutant of Surplus: the loop stops at capacity + 1. *)
SurplusLate ==
    {k \in Cached : Cardinality(older[k]) + Capacity < Cardinality(Cached)}
Surplus ==
    {k \in Cached : Cardinality(older[k]) + Capacity <= Cardinality(Cached)}

Insert(t) ==
    /\ pc[t] = "insert"
    /\ LET kept == Drop(Surplus, store) IN
       /\ store' = Put(key[t], new[t], kept)
       /\ older' = Touch(key[t], DropOrder(Surplus, older), DOMAIN kept)
    /\ evictions' = evictions + Cardinality(Surplus)
    /\ Return(t)
    /\ UNCHANGED <<diskVars, hits, misses>>

-----------------------------------------------------------------------------
(* invalidate(file, build) and clear(); b = NoBuild is build_path = None,  *)
(* which matches every build.                                              *)

Matching(f, b) == {k \in Cached : k.file = f /\ (b # NoBuild => k.build = b)}

Invalidate(f, b) ==
    /\ store' = Drop(Matching(f, b), store)
    /\ older' = DropOrder(Matching(f, b), older)
    /\ evictions' = evictions + Cardinality(Matching(f, b))
    /\ UNCHANGED <<diskVars, threadVars, hits, misses>>

Clear ==
    /\ store' = [k \in {} |-> 0]
    /\ older' = [k \in Keys |-> {}]
    /\ UNCHANGED <<diskVars, threadVars, hits, misses, evictions>>

-----------------------------------------------------------------------------
(* The user's editor and build: files change at any moment. *)

MarkRaced(f) ==
    new' = [t \in Threads |-> IF pc[t] = "stat" /\ key[t].file = f
                              THEN [new[t] EXCEPT !.raced = TRUE] ELSE new[t]]

Edit(f) ==
    /\ newest[f] < MaxVersion
    /\ newest' = [newest EXCEPT ![f] = @ + 1]
    /\ disk' = [disk EXCEPT ![f] = newest[f] + 1]
    /\ MarkRaced(f)
    /\ UNCHANGED <<cacheVars, pc, key>>

Restore(f, v) ==
    /\ v <= newest[f] /\ v # disk[f]
    /\ disk' = [disk EXCEPT ![f] = v]
    /\ MarkRaced(f)
    /\ UNCHANGED <<cacheVars, newest, pc, key>>

Delete(f) ==
    /\ disk[f] # Gone
    /\ disk' = [disk EXCEPT ![f] = Gone]
    /\ UNCHANGED <<cacheVars, threadVars, newest>>

-----------------------------------------------------------------------------
Call(t) ==
    \/ \E k \in Keys : Hit(t, k) \/ Miss(t, k)
    \/ ParseDone(t) \/ ParseRaises(t) \/ StatAfterParse(t) \/ Insert(t)

Next ==
    \/ \E t \in Threads : Call(t)
    \/ \E f \in Files, b \in Builds \cup {NoBuild} : Invalidate(f, b)
    \/ Clear
    \/ \E f \in Files : Edit(f) \/ Delete(f) \/ \E v \in Version : Restore(f, v)

Spec == Init /\ [][Next]_vars

-----------------------------------------------------------------------------
TypeOK ==
    /\ disk \in [Files -> Version \cup {Gone}]
    /\ newest \in [Files -> Version]
    /\ Cached \subseteq Keys /\ IsFiniteSet(Cached)
    /\ store \in [Cached -> Entry]
    /\ older \in [Keys -> SUBSET Cached]
    /\ pc \in [Threads -> {"idle", "parse", "stat", "insert"}]
    /\ key \in [Threads -> Keys]
    /\ new \in [Threads -> Entry]
    /\ hits \in Nat /\ misses \in Nat /\ evictions \in Nat

(* The order of the dictionary stays one: whatever lookups, insertions and *)
(* removals of several threads do, the cached keys are in a strict total   *)
(* order, so the eviction loop (146-148) always has one oldest entry.      *)
TotalOrder(S, o) ==
    /\ \A k \in Keys : k \notin o[k] /\ (k \notin S => o[k] = {})
    /\ \A j, k \in S : j # k => (j \in o[k] <=> k \notin o[j])
    /\ \A i, j, k \in S : i \in o[j] /\ j \in o[k] => i \in o[k]

LRUOrder == TotalOrder(Cached, older)

(* However many threads missed at once and insert one after the other, the *)
(* cache never holds more than capacity entries (lines 143-150).           *)
SizeBound == Cardinality(Cached) <= Capacity

(* The counters that stats() reports account for each other: an entry that *)
(* is cached or was evicted, and a parse that is under way, each have a    *)
(* miss of their own.  A double eviction count or a missed miss breaks it. *)
InFlight == {t \in Threads : pc[t] # "idle"}
StatsLedger ==
    evictions + Cardinality(Cached) + Cardinality(InFlight) <= misses

(* An entry whose file was not written while it was being made was parsed  *)
(* from the version whose mtime it carries (or carries no mtime at all).   *)
CleanEntries ==
    \A k \in Cached : store[k].raced \/ store[k].mtime \in {NoStat, store[k].tu}

(* A hit returns a TU of the version that is on disk now, and never for a  *)
(* file that is gone, unless the file was written between the parser's     *)
(* read and the stat that follows it (lines 126-131): the mtime check of   *)
(* line 112 closes every other window.                                     *)
FreshHits ==
    [][\A t \in Threads, k \in Keys :
          Hit(t, k) /\ ~ store[k].raced => store[k].tu = disk[k.file]]_vars
=============================================================================
