-------------------------- MODULE IngestCodeProofs --------------------------
(***************************************************************************)
(* What ingest_code leaves in the graph, for any number of runs, files and *)
(* records, on either database, whatever fails: nothing is missing of a    *)
(* file that is reported as processed.                                     *)
(*                                                                         *)
(* The argument is about one run at a time: while it writes nodes, a node  *)
(* of its file is stored or still in the batch; while it writes edges, the *)
(* nodes are all stored, so every edge between them can be.  Other runs    *)
(* only add to what is stored.                                             *)
(***************************************************************************)
EXTENDS IngestCode, FiniteSetTheorems, TLAPS

(* Where run r is in its file, whichever of the two batches it writes.     *)
Pending(r) ==
    /\ stage[r] = "nodes" =>
          /\ todo[r] # <<>>
          /\ left[r] \subseteq NodesOf[File(r)]
          /\ NodesOf[File(r)] \subseteq left[r] \cup Stored
    /\ stage[r] = "edges" =>
          /\ todo[r] # <<>>
          /\ left[r] \subseteq EdgesOf[File(r)]
          /\ NodesOf[File(r)] \subseteq Stored
          /\ Within(File(r)) \subseteq left[r] \cup Stored

Inv ==
    /\ TypeOK
    /\ ProcessedIsStored
    /\ \A r \in Runs : Pending(r)

-----------------------------------------------------------------------------
(* What is stored. *)

LEMMA RecordsFinite == IsFiniteSet(Nodes \cup Edges)
  BY NodesAssumption, FS_Product, FS_Union DEF Edges

LEMMA CountIsNat ==
  ASSUME NEW X \in SUBSET (Nodes \cup Edges)
  PROVE  Cardinality(X) \in Nat
  BY RecordsFinite, FS_Subset, FS_CardinalityType

(* Writing adds what is written to what is stored, and nothing else. *)
LEMMA WriteAdds ==
  ASSUME TypeOK, NEW r \in Runs, NEW X \in SUBSET (Nodes \cup Edges), Write(r, X)
  PROVE  /\ writer' \in [Nodes \cup Edges -> Runs \cup {Nobody}]
         /\ Stored' = Stored \cup X
  BY NobodyAssumption DEF TypeOK, Write, Stored

(* A file that was stored stays stored. *)
LEMMA ProcessedStays ==
  ASSUME ProcessedIsStored, Stored \subseteq Stored', UNCHANGED processed
  PROVE  ProcessedIsStored'
  BY DEF ProcessedIsStored, Within

(* The other runs are where they were, whatever is stored besides. *)
LEMMA OthersPending ==
  ASSUME NEW q \in Runs, Pending(q), Stored \subseteq Stored',
         stage'[q] = stage[q], todo'[q] = todo[q], left'[q] = left[q]
  PROVE  Pending(q)'
  BY DEF Pending, File, Within

(* A run that is between two files, or has ended, has nothing pending. *)
LEMMA NotWriting ==
  ASSUME NEW r \in Runs, stage'[r] \notin {"nodes", "edges"}
  PROVE  Pending(r)'
  BY DEF Pending

-----------------------------------------------------------------------------
(* The end of a file, however it came. *)

NextFileTyped(r) ==
    /\ File(r) \in Files
    /\ stage' \in [Runs -> Stages]
    /\ todo' \in [Runs -> Seq(Files)]
    /\ left' \in [Runs -> SUBSET (Nodes \cup Edges)]
    /\ missing' \in [Runs -> SUBSET (Nodes \cup Edges)]
    /\ counted' \in [Runs -> Nat]

LEMMA NextFileType ==
  ASSUME TypeOK, NEW r \in Runs, todo[r] # <<>>, NextFile(r)
  PROVE  NextFileTyped(r)
<1>1. File(r) \in Files /\ todo' \in [Runs -> Seq(Files)]
  BY DEF TypeOK, NextFile, File
<1>2. stage' \in [Runs -> Stages] /\ counted' \in [Runs -> Nat]
  BY DEF TypeOK, NextFile, Stages
<1>3. /\ left' \in [Runs -> SUBSET (Nodes \cup Edges)]
      /\ missing' \in [Runs -> SUBSET (Nodes \cup Edges)]
  BY DEF TypeOK, NextFile
<1> QED BY <1>1, <1>2, <1>3 DEF NextFileTyped

LEMMA NextFilePending ==
  ASSUME TypeOK, NEW r \in Runs, NextFile(r), Stored \subseteq Stored',
         \A q \in Runs : Pending(q)
  PROVE  \A q \in Runs : Pending(q)'
<1> SUFFICES ASSUME NEW q \in Runs PROVE Pending(q)'
  OBVIOUS
<1>1. CASE q = r
  BY <1>1, NotWriting DEF NextFile, TypeOK
<1>2. CASE q # r
  BY <1>2, OthersPending DEF NextFile, TypeOK
<1> QED BY <1>1, <1>2

-----------------------------------------------------------------------------
LEMMA InitInv == Init => Inv
<1> SUFFICES ASSUME Init PROVE Inv
  OBVIOUS
<1>1. TypeOK
  BY DEF Init, TypeOK, Stages
<1>2. Stored = {}
  BY DEF Init, Stored
<1>3. ProcessedIsStored
  BY <1>2 DEF Init, ProcessedIsStored
<1>4. \A r \in Runs : Pending(r)
  BY DEF Init, Pending
<1> QED BY <1>1, <1>3, <1>4 DEF Inv

(* A step that stores nothing and ends no file. *)
LEMMA NothingStored ==
  ASSUME Inv, TypeOK', UNCHANGED <<writer, processed>>,
         NEW r \in Runs, Pending(r)',
         \A q \in Runs \ {r} :
             stage'[q] = stage[q] /\ todo'[q] = todo[q] /\ left'[q] = left[q]
  PROVE  Inv'
<1>1. Stored' = Stored
  BY DEF Stored
<1>2. ProcessedIsStored'
  BY <1>1, ProcessedStays DEF Inv
<1>3. \A q \in Runs : Pending(q)'
  BY <1>1, OthersPending DEF Inv
<1> QED BY <1>2, <1>3 DEF Inv

LEMMA NextInv == Inv /\ [Next]_vars => Inv'
<1> USE DEF fileVars, tallies
<1> SUFFICES ASSUME Inv, [Next]_vars PROVE Inv'
  OBVIOUS
<1>1. ASSUME NEW r \in Runs, Connect(r) PROVE Inv'
  <2>1. TypeOK'
    <3>1. input' \in [Runs -> Seq(Files)]
      BY <1>1, InputsAssumption DEF Inv, TypeOK, Connect
    <3>2. earlier' \in [Runs -> SUBSET Runs]
      BY <1>1 DEF Inv, TypeOK, Connect, Ended
    <3>3. stage' \in [Runs -> Stages] /\ linked' \in [Runs -> BOOLEAN]
      BY <1>1 DEF Inv, TypeOK, Connect, Stages
    <3> QED BY <1>1, <3>1, <3>2, <3>3 DEF Inv, TypeOK, Connect
  <2>2. Pending(r)'
    BY <1>1, NotWriting DEF Inv, TypeOK, Connect
  <2> QED BY <1>1, <2>1, <2>2, NothingStored DEF Inv, TypeOK, Connect
<1>2. ASSUME NEW r \in Runs, Collect(r) PROVE Inv'
  <2>1. TypeOK'
    BY <1>2 DEF Inv, TypeOK, Collect, Stages
  <2>2. Pending(r)'
    BY <1>2, NotWriting DEF Inv, TypeOK, Collect
  <2> QED BY <1>2, <2>1, <2>2, NothingStored DEF Inv, TypeOK, Collect
<1>3. ASSUME NEW r \in Runs, Return(r) PROVE Inv'
  <2>1. TypeOK'
    BY <1>3 DEF Inv, TypeOK, Return, Stages
  <2>2. Pending(r)'
    BY <1>3, NotWriting DEF Inv, TypeOK, Return
  <2> QED BY <1>3, <2>1, <2>2, NothingStored DEF Inv, TypeOK, Return
<1>4. ASSUME NEW r \in Runs, Crash(r) PROVE Inv'
  <2>1. TypeOK'
    BY <1>4 DEF Inv, TypeOK, Crash, Stages
  <2>2. Pending(r)'
    BY <1>4, NotWriting DEF Inv, TypeOK, Crash
  <2> QED BY <1>4, <2>1, <2>2, NothingStored DEF Inv, TypeOK, Crash
<1>5. ASSUME NEW r \in Runs, StartFile(r) PROVE Inv'
  <2>1. File(r) \in Files
    BY <1>5 DEF Inv, TypeOK, StartFile, File
  <2>2. TypeOK'
    BY <1>5, <2>1, ExtractionAssumption DEF Inv, TypeOK, StartFile, Stages
  <2>3. stage'[r] = "nodes" /\ left'[r] = NodesOf[File(r)] /\ File(r)' = File(r)
    BY <1>5 DEF Inv, TypeOK, StartFile, File
  <2>4. Pending(r)'
    BY <1>5, <2>3 DEF Pending, StartFile
  <2> QED BY <1>5, <2>2, <2>4, NothingStored DEF Inv, TypeOK, StartFile
<1>6. ASSUME NEW r \in Runs, FileFails(r) PROVE Inv'
  <2>1. Stored' = Stored
    BY <1>6 DEF FileFails, Stored
  <2>2. TypeOK'
    <3>1. NextFileTyped(r)
      BY <1>6, NextFileType DEF Inv, FileFails
    <3>2. errors' \in [Runs -> SUBSET Files]
      BY <1>6, <3>1 DEF Inv, TypeOK, FileFails, NextFileTyped
    <3> QED BY <1>6, <3>1, <3>2 DEF Inv, TypeOK, FileFails, NextFileTyped
  <2>3. \A q \in Runs : Pending(q)'
    BY <1>6, <2>1, NextFilePending DEF Inv, FileFails
  <2>4. ProcessedIsStored'
    BY <1>6, <2>1, ProcessedStays DEF Inv, FileFails
  <2> QED BY <2>2, <2>3, <2>4 DEF Inv
<1>7. ASSUME NEW r \in Runs, BatchDone(r), stage[r] = "nodes" PROVE Inv'
  <2>1. File(r) \in Files /\ todo[r] # <<>>
    BY <1>7 DEF Inv, TypeOK, Pending, File
  <2>2. /\ stage' = [stage EXCEPT ![r] = "edges"]
        /\ left' = [left EXCEPT ![r] = EdgesOf[File(r)]]
        /\ UNCHANGED <<backend, writer, input, todo, missing, counted, tallies, linked, earlier>>
    BY <1>7 DEF BatchDone
  <2>3. TypeOK'
    BY <2>1, <2>2, ExtractionAssumption DEF Inv, TypeOK, Stages
  <2>4. NodesOf[File(r)] \subseteq Stored
    BY <1>7 DEF Inv, Pending, BatchDone
  <2>5. File(r)' = File(r) /\ Stored' = Stored
    BY <2>2 DEF File, Stored
  <2>6. stage'[r] = "edges" /\ left'[r] = EdgesOf[File(r)] /\ todo'[r] # <<>>
    BY <2>1, <2>2 DEF Inv, TypeOK
  <2>7. Pending(r)'
    BY <2>4, <2>5, <2>6 DEF Pending, Within
  <2> QED BY <2>2, <2>3, <2>7, NothingStored DEF Inv, TypeOK
<1>8. ASSUME NEW r \in Runs, BatchDone(r), stage[r] = "edges" PROVE Inv'
  <2>1. todo[r] # <<>>
    BY <1>8 DEF Inv, Pending
  <2>2. /\ NextFile(r)
        /\ total' = [total EXCEPT ![r] = @ + counted[r]]
        /\ processed' = [processed EXCEPT ![r] = @ \cup {File(r)}]
        /\ UNCHANGED <<backend, writer, input, linked, earlier, errors>>
    BY <1>8 DEF BatchDone
  <2>3. Stored' = Stored
    BY <2>2 DEF Stored
  <2>4. TypeOK'
    <3>1. NextFileTyped(r)
      BY <2>1, <2>2, NextFileType DEF Inv
    <3>2. total' \in [Runs -> Nat] /\ processed' \in [Runs -> SUBSET Files]
      BY <2>2, <3>1 DEF Inv, TypeOK, NextFileTyped
    <3> QED BY <2>2, <3>1, <3>2 DEF Inv, TypeOK, NextFileTyped
  <2>5. \A q \in Runs : Pending(q)'
    BY <2>2, <2>3, NextFilePending DEF Inv
  <2>6. NodesOf[File(r)] \cup Within(File(r)) \subseteq Stored
    BY <1>8 DEF Inv, Pending, BatchDone
  <2>7. ProcessedIsStored'
    BY <2>2, <2>3, <2>6 DEF Inv, TypeOK, ProcessedIsStored, Within
  <2> QED BY <2>3, <2>4, <2>5, <2>7 DEF Inv
<1>9. ASSUME NEW r \in Runs, Transact(r) PROVE Inv'
  <2> DEFINE created == {x \in left[r] : Creatable(x)} \ Stored
  <2>1. created \in SUBSET (Nodes \cup Edges) /\ \A x \in created : Creatable(x)
    BY DEF Inv, TypeOK
  <2>2. Write(r, created) /\ UNCHANGED <<backend, input, total, processed, linked, earlier>>
    BY <1>9 DEF Transact
  <2>3. Stored' = Stored \cup created /\ writer' \in [Nodes \cup Edges -> Runs \cup {Nobody}]
    BY <2>1, <2>2, WriteAdds DEF Inv
  <2>4. ProcessedIsStored'
    BY <2>1, <2>2, <2>3, ProcessedStays DEF Inv
  <2>5. CASE NextFile(r) /\ errors' = [errors EXCEPT ![r] = @ \cup {File(r)}]
    <3>1. todo[r] # <<>>
      BY <1>9 DEF Inv, Pending, Transact, Writing
    <3>2. TypeOK'
      <4>1. NextFileTyped(r)
        BY <2>5, <3>1, NextFileType DEF Inv
      <4>2. errors' \in [Runs -> SUBSET Files]
        BY <2>5, <4>1 DEF Inv, TypeOK, NextFileTyped
      <4> QED BY <2>2, <2>3, <4>1, <4>2 DEF Inv, TypeOK, NextFileTyped
    <3>3. \A q \in Runs : Pending(q)'
      BY <2>3, <2>5, NextFilePending DEF Inv
    <3> QED BY <2>4, <3>2, <3>3 DEF Inv
  <2>6. CASE /\ counted' = [counted EXCEPT ![r] = @ + Cardinality(created)]
             /\ left' = [left EXCEPT ![r] = {}]
             /\ UNCHANGED <<stage, todo, missing, errors>>
    <3>1. Cardinality(created) \in Nat
      BY <2>1, CountIsNat
    <3>2. TypeOK'
      BY <2>2, <2>3, <2>6, <3>1 DEF Inv, TypeOK
    <3>3. \A q \in Runs \ {r} : Pending(q)'
      BY <2>3, <2>6, OthersPending DEF Inv, TypeOK
    <3>4. left'[r] = {} /\ stage'[r] = stage[r] /\ todo'[r] = todo[r] /\ File(r)' = File(r)
      BY <2>6 DEF Inv, TypeOK, File
    <3>5. ASSUME stage[r] = "nodes" PROVE NodesOf[File(r)] \subseteq Stored'
      <4>1. File(r) \in Files /\ left[r] \subseteq NodesOf[File(r)]
        BY <3>5 DEF Inv, TypeOK, Pending, File
      <4>2. left[r] \subseteq Stored \cup created
        BY <4>1, ExtractionAssumption DEF Creatable
      <4> QED BY <2>3, <3>5, <4>2 DEF Inv, Pending
    <3>6. ASSUME stage[r] = "edges"
          PROVE  Within(File(r)) \subseteq Stored' /\ NodesOf[File(r)] \subseteq Stored'
      <4>1. NodesOf[File(r)] \subseteq Stored /\ Within(File(r)) \subseteq left[r] \cup Stored
        BY <3>6 DEF Inv, Pending
      <4>2. \A x \in Within(File(r)) : Creatable(x)
        BY <4>1 DEF Within, Creatable
      <4> QED BY <2>3, <4>1, <4>2
    <3>7. Pending(r)'
      <4>1. CASE stage[r] = "nodes"
        BY <3>4, <3>5, <4>1 DEF Inv, Pending
      <4>2. CASE stage[r] = "edges"
        BY <3>4, <3>6, <4>2 DEF Inv, Pending, Within
      <4>3. CASE stage[r] \notin {"nodes", "edges"}
        BY <3>4, <4>3, NotWriting
      <4> QED BY <4>1, <4>2, <4>3
    <3> QED BY <2>4, <3>2, <3>3, <3>7 DEF Inv
  <2> QED BY <1>9, <2>5, <2>6 DEF Transact
<1>10. ASSUME NEW r \in Runs, NEW x \in Nodes \cup Edges, Check(r, x) PROVE Inv'
  <2>1. TypeOK'
    <3>1. CASE x \in Stored
      <4>1. left' = [left EXCEPT ![r] = left[r] \ {x}] /\ UNCHANGED missing
        BY <1>10, <3>1 DEF Check
      <4>2. left' \in [Runs -> SUBSET (Nodes \cup Edges)]
        BY <4>1 DEF Inv, TypeOK
      <4> QED BY <1>10, <4>1, <4>2 DEF Inv, TypeOK, Check
    <3>2. CASE x \notin Stored
      <4>1. missing' = [missing EXCEPT ![r] = {x}]
        BY <1>10, <3>2 DEF Check
      <4>2. missing' \in [Runs -> SUBSET (Nodes \cup Edges)]
        BY <4>1 DEF Inv, TypeOK
      <4> QED BY <1>10, <3>2, <4>2 DEF Inv, TypeOK, Check
    <3> QED BY <3>1, <3>2
  <2>2. File(r)' = File(r) /\ Stored' = Stored /\ stage'[r] = stage[r] /\ todo'[r] = todo[r]
    BY <1>10 DEF Check, File, Stored
  <2>3. left'[r] = left[r] \/ (x \in Stored /\ left'[r] = left[r] \ {x})
    BY <1>10 DEF Inv, TypeOK, Check
  <2>4. Pending(r)'
    BY <2>2, <2>3 DEF Inv, Pending, Within
  <2> QED BY <1>10, <2>1, <2>4, NothingStored DEF Inv, TypeOK, Check
<1>11. ASSUME NEW r \in Runs, NEW x \in Nodes \cup Edges, Create(r, x) PROVE Inv'
  <2> DEFINE created == IF Creatable(x) THEN {x} \ Stored ELSE {}
  <2>1. created \in SUBSET (Nodes \cup Edges) /\ \A y \in created : Creatable(y)
    OBVIOUS
  <2>2. Write(r, created) /\ UNCHANGED <<backend, stage, input, todo, tallies, linked, earlier>>
    BY <1>11 DEF Create
  <2>3. Stored' = Stored \cup created /\ writer' \in [Nodes \cup Edges -> Runs \cup {Nobody}]
    BY <2>1, <2>2, WriteAdds DEF Inv
  <2>4. ProcessedIsStored'
    BY <2>1, <2>2, <2>3, ProcessedStays DEF Inv
  <2>5. TypeOK'
    BY <1>11, <2>2, <2>3 DEF Inv, TypeOK, Create
  <2>6. \A q \in Runs \ {r} : Pending(q)'
    BY <1>11, <2>2, <2>3, OthersPending DEF Inv, TypeOK, Create
  <2>7. /\ left'[r] = left[r] \ {x} /\ stage'[r] = stage[r] /\ todo'[r] = todo[r]
        /\ File(r)' = File(r)
    BY <1>11 DEF Inv, TypeOK, Create, File
  <2>8. Creatable(x) => x \in Stored'
    BY <2>3
  <2>9. Pending(r)'
    <3>1. CASE stage[r] = "nodes"
      <4>1. /\ File(r) \in Files /\ todo[r] # <<>>
            /\ left[r] \subseteq NodesOf[File(r)]
            /\ NodesOf[File(r)] \subseteq left[r] \cup Stored
        BY <3>1 DEF Inv, TypeOK, Pending, File
      <4>2. NodesOf[File(r)] \subseteq left'[r] \cup Stored'
        BY <2>3, <2>7, <2>8, <4>1, ExtractionAssumption DEF Creatable
      <4> QED BY <2>7, <3>1, <4>1, <4>2 DEF Pending
    <3>2. CASE stage[r] = "edges"
      <4>1. /\ todo[r] # <<>>
            /\ left[r] \subseteq EdgesOf[File(r)]
            /\ NodesOf[File(r)] \subseteq Stored
            /\ Within(File(r)) \subseteq left[r] \cup Stored
        BY <3>2 DEF Inv, Pending
      <4>2. x \in Within(File(r)) => Creatable(x)
        BY <4>1 DEF Within, Creatable
      <4>3. Within(File(r)) \subseteq left'[r] \cup Stored'
        BY <2>3, <2>7, <2>8, <4>1, <4>2
      <4> QED BY <2>3, <2>7, <3>2, <4>1, <4>3 DEF Pending, Within
    <3>3. CASE stage[r] \notin {"nodes", "edges"}
      BY <2>7, <3>3, NotWriting
    <3> QED BY <3>1, <3>2, <3>3
  <2> QED BY <2>4, <2>5, <2>6, <2>9 DEF Inv
<1>12. CASE UNCHANGED vars
  BY <1>12 DEF vars, Inv, TypeOK, ProcessedIsStored, Pending, Stored, File, Within, Ended
<1>13. ASSUME NEW r \in Runs, BatchDone(r) PROVE stage[r] \in {"nodes", "edges"}
  BY <1>13 DEF BatchDone
<1> QED BY <1>1, <1>2, <1>3, <1>4, <1>5, <1>6, <1>7, <1>8, <1>9, <1>10, <1>11, <1>12, <1>13
        DEF Next, Step

(* The invariant the theorems below rest on holds in every state: whatever *)
(* two runs of ingest_code write in turn, each still has all of its file   *)
(* in the graph or in hand.                                                *)
THEOREM Invariance == Spec => []Inv
  BY InitInv, NextInv, PTL DEF Spec

(* Runs that write at the same time keep every variable in its type. *)
THEOREM TypeCorrect == Spec => []TypeOK
  BY Invariance, PTL DEF Inv

(* A file that is counted in files_processed is in the graph, its nodes    *)
(* and the edges between them, whatever happened to other files and runs.  *)
THEOREM ProcessedCorrect == Spec => []ProcessedIsStored
  BY Invariance, PTL DEF Inv
=============================================================================
