-------------------------- MODULE IngestGraphProofs --------------------------
(***************************************************************************)
(* ingest_code implements SymbolGraph: for any number of runs, files and   *)
(* records, on either database and whatever fails, what it does to the     *)
(* database is to add records of its files, edges after their ends, and to *)
(* report a file only when all of it is there.                             *)
(*                                                                         *)
(* To the invariant of IngestCodeProofs the argument adds that the record  *)
(* a run found missing, and is about to create, is one of its batch.       *)
(*                                                                         *)
(* The second part is about what a run returns: the files behind it, what  *)
(* is stored of them, what the run itself created, and what it counted.    *)
(***************************************************************************)
EXTENDS IngestCodeProofs

MissingIsLeft ==
    \A r \in Runs :
        /\ missing[r] \subseteq left[r]
        /\ stage[r] \in {"idle", "connected", "file"} => left[r] = {}
        /\ backend = "neo4j" => missing[r] = {}

LEMMA InitMissing == Init => MissingIsLeft
  BY DEF Init, MissingIsLeft

(* A record that is missing leaves the batch only as it is created, and a  *)
(* batch begins when nothing is left of the one before.                    *)
LEMMA NextMissing == TypeOK /\ MissingIsLeft /\ [Next]_vars => MissingIsLeft'
<1> USE DEF fileVars, tallies, MissingIsLeft, TypeOK
<1> SUFFICES ASSUME TypeOK, MissingIsLeft, [Next]_vars PROVE MissingIsLeft'
  OBVIOUS
<1>1. ASSUME NEW r \in Runs, Connect(r) \/ Collect(r) \/ Return(r) \/ Crash(r)
      PROVE  MissingIsLeft'
  <2>1. UNCHANGED <<backend, left, missing>>
    BY <1>1 DEF Connect, Collect, Return, Crash
  <2>2. stage'[r] \in {"connected", "file"} => stage[r] \in {"idle", "connected"}
    BY <1>1 DEF Connect, Collect, Return, Crash
  <2>3. stage'[r] # "idle" /\ \A q \in Runs \ {r} : stage'[q] = stage[q]
    BY <1>1 DEF Connect, Collect, Return, Crash
  <2> QED BY <2>1, <2>2, <2>3
<1>2. ASSUME NEW r \in Runs, NextFile(r), UNCHANGED backend PROVE MissingIsLeft'
  BY <1>2 DEF NextFile
<1>3. ASSUME NEW r \in Runs, StartFile(r) PROVE MissingIsLeft'
  BY <1>3 DEF StartFile
<1>4. ASSUME NEW r \in Runs, FileFails(r) PROVE MissingIsLeft'
  BY <1>2, <1>4 DEF FileFails
<1>5. ASSUME NEW r \in Runs, BatchDone(r) PROVE MissingIsLeft'
  BY <1>2, <1>5 DEF BatchDone
<1>6. ASSUME NEW r \in Runs, Transact(r) PROVE MissingIsLeft'
  <2>1. CASE NextFile(r)
    BY <1>2, <1>6, <2>1 DEF Transact
  <2>2. CASE left' = [left EXCEPT ![r] = {}] /\ UNCHANGED <<stage, missing>>
    BY <1>6, <2>2 DEF Transact
  <2> QED BY <1>6, <2>1, <2>2 DEF Transact
<1>7. ASSUME NEW r \in Runs, NEW x \in Nodes \cup Edges, Check(r, x)
      PROVE  MissingIsLeft'
  <2>1. CASE x \in Stored
    <3>1. left' = [left EXCEPT ![r] = @ \ {x}] /\ missing[r] = {}
      BY <1>7, <2>1 DEF Check
    <3>2. UNCHANGED <<backend, stage, missing>>
      BY <1>7, <2>1 DEF Check
    <3> QED BY <3>1, <3>2
  <2>2. CASE x \notin Stored
    <3>1. missing' = [missing EXCEPT ![r] = {x}] /\ x \in left[r] /\ backend # "neo4j"
      BY <1>7, <2>2 DEF Check
    <3>2. UNCHANGED <<backend, stage, left>>
      BY <1>7, <2>2 DEF Check
    <3> QED BY <3>1, <3>2
  <2> QED BY <2>1, <2>2
<1>8. ASSUME NEW r \in Runs, NEW x \in Nodes \cup Edges, Create(r, x)
      PROVE  MissingIsLeft'
  BY <1>8 DEF Create, Writing
<1>9. CASE UNCHANGED vars
  BY <1>9 DEF vars
<1> QED BY <1>1, <1>3, <1>4, <1>5, <1>6, <1>7, <1>8, <1>9 DEF Next, Step

-----------------------------------------------------------------------------
(* What a run writes is of its batch, and so of the current file.          *)
LEMMA BatchIsYielded ==
  ASSUME Inv, NEW r \in Runs, Writing(r)
  PROVE  left[r] \subseteq Graph!Yielded
<1>1. File(r) \in Files
  BY DEF Inv, TypeOK, Pending, Writing, File
<1> QED BY <1>1 DEF Inv, Pending, Writing, Graph!Yielded

(* Records of the batch that can be created are an addition to the graph.  *)
LEMMA WritingAdds ==
  ASSUME Inv, NEW r \in Runs, Writing(r), NEW X \in SUBSET left[r],
         \A x \in X : Creatable(x), Stored' = Stored \cup X, UNCHANGED processed
  PROVE  Graph!Add
<1>1. X \subseteq Graph!Yielded
  BY BatchIsYielded
<1>2. ASSUME NEW e \in Graph!EdgesIn(X) PROVE e[1] \in Stored /\ e[2] \in Stored
  <2>1. e \in Edges /\ e \in X
    BY <1>2, ExtractionAssumption DEF Graph!EdgesIn
  <2> QED BY <2>1, NobodyAssumption DEF Creatable
<1>3. Graph!EdgesIn(Stored' \ Stored) \subseteq Graph!EdgesIn(X)
  BY DEF Graph!EdgesIn
<1> QED BY <1>1, <1>2, <1>3 DEF Graph!Add

LEMMA InitRefines == Init => Graph!Init
  BY DEF Init, Stored, Graph!Init

LEMMA StepRefines ==
  Inv /\ MissingIsLeft /\ [Next]_vars => [Graph!Next]_<<Stored, processed>>
<1> USE DEF fileVars, tallies
<1> SUFFICES ASSUME Inv, MissingIsLeft, [Next]_vars
             PROVE  Graph!Next \/ UNCHANGED <<Stored, processed>>
  OBVIOUS
<1>1. ASSUME UNCHANGED <<writer, processed>> PROVE UNCHANGED <<Stored, processed>>
  BY <1>1 DEF Stored
<1>2. ASSUME NEW r \in Runs, Connect(r) \/ Collect(r) \/ Return(r) \/ Crash(r)
      PROVE  UNCHANGED <<Stored, processed>>
  BY <1>1, <1>2 DEF Connect, Collect, Return, Crash
<1>3. ASSUME NEW r \in Runs, StartFile(r) \/ FileFails(r)
      PROVE  UNCHANGED <<Stored, processed>>
  BY <1>1, <1>3 DEF StartFile, FileFails
<1>4. ASSUME NEW r \in Runs, BatchDone(r)
      PROVE  Graph!Next \/ UNCHANGED <<Stored, processed>>
  <2>1. CASE stage[r] = "nodes"
    BY <1>1, <1>4, <2>1 DEF BatchDone
  <2>2. CASE stage[r] = "edges"
    <3>1. File(r) \in Files
      BY <2>2 DEF Inv, TypeOK, Pending, File
    <3>2. NodesOf[File(r)] \cup Within(File(r)) \subseteq Stored
      BY <1>4, <2>2 DEF Inv, Pending, BatchDone
    <3>3. Graph!Whole(File(r)) \subseteq Stored
      BY <3>1, <3>2, ExtractionAssumption DEF Graph!Whole, Within, Edges
    <3>4. processed' = [processed EXCEPT ![r] = @ \cup {File(r)}] /\ UNCHANGED writer
      BY <1>4, <2>2 DEF BatchDone
    <3>5. Graph!Report(r, File(r))
      BY <3>3, <3>4 DEF Graph!Report, Stored
    <3> QED BY <3>1, <3>5 DEF Graph!Next
  <2> QED BY <1>4, <2>1, <2>2 DEF BatchDone
<1>5. ASSUME NEW r \in Runs, Transact(r) PROVE Graph!Next
  <2> DEFINE created == {x \in left[r] : Creatable(x)} \ Stored
  <2>1. created \in SUBSET left[r] /\ \A x \in created : Creatable(x)
    OBVIOUS
  <2>2. Writing(r) /\ Write(r, created) /\ UNCHANGED processed
    BY <1>5 DEF Transact
  <2>3. Stored' = Stored \cup created
    BY <2>1, <2>2, WriteAdds DEF Inv, TypeOK
  <2> QED BY <2>1, <2>2, <2>3, WritingAdds DEF Graph!Next
<1>6. ASSUME NEW r \in Runs, NEW x \in Nodes \cup Edges, Check(r, x)
      PROVE  UNCHANGED <<Stored, processed>>
  BY <1>1, <1>6 DEF Check
<1>7. ASSUME NEW r \in Runs, NEW x \in Nodes \cup Edges, Create(r, x) PROVE Graph!Next
  <2> DEFINE created == IF Creatable(x) THEN {x} \ Stored ELSE {}
  <2>1. x \in left[r]
    BY <1>7 DEF Create, MissingIsLeft
  <2>2. created \in SUBSET left[r] /\ \A y \in created : Creatable(y)
    BY <2>1
  <2>3. Writing(r) /\ Write(r, created) /\ UNCHANGED processed
    BY <1>7 DEF Create
  <2>4. Stored' = Stored \cup created
    BY <2>2, <2>3, WriteAdds DEF Inv, TypeOK
  <2> QED BY <2>2, <2>3, <2>4, WritingAdds DEF Graph!Next
<1>8. CASE UNCHANGED vars
  BY <1>1, <1>8 DEF vars
<1> QED BY <1>2, <1>3, <1>4, <1>5, <1>6, <1>7, <1>8 DEF Next, Step

(* ingest_code, on Neo4j and on IndraDB, implements SymbolGraph: one       *)
(* record or one batch at a time, with failures, crashes and other runs at *)
(* any point, the graph grows only by what the files yield and a report    *)
(* is never ahead of it.                                                   *)
THEOREM Refinement == Spec => GrowsAsPromised
<1>1. Init /\ [][Next]_vars => [](Inv /\ MissingIsLeft)
  <2>1. Init => Inv /\ MissingIsLeft
    BY InitInv, InitMissing
  <2>2. Inv /\ MissingIsLeft /\ [Next]_vars => Inv' /\ MissingIsLeft'
    BY NextInv, NextMissing DEF Inv
  <2> QED BY <2>1, <2>2, PTL
<1>2. Init => Graph!Init
  BY InitRefines
<1>3. Inv /\ MissingIsLeft /\ [Next]_vars => [Graph!Next]_<<Stored, processed>>
  BY StepRefines
<1> QED BY <1>1, <1>2, <1>3, PTL DEF Spec, GrowsAsPromised, Graph!Spec, Graph!vars

-----------------------------------------------------------------------------
(* The files a run has behind it, in the order in which it was asked for   *)
(* them.                                                                   *)
Behind(r) == Len(input[r]) - Len(todo[r])

Started(r) == stage[r] \in {"file", "nodes", "edges", "done"}

InOrder(r) ==
    /\ stage[r] \in {"idle", "connected"} => processed[r] = {} /\ errors[r] = {}
    /\ stage[r] = "idle" => earlier[r] = {}
    /\ stage[r] = "connected" => input[r] \in Inputs
    /\ stage[r] = "done" => todo[r] = <<>> /\ ~ linked[r]
    /\ Started(r) =>
          /\ input[r] \in Inputs
          /\ Len(todo[r]) <= Len(input[r])
          /\ \A i \in 1..Len(todo[r]) : todo[r][i] = input[r][Behind(r) + i]
          /\ processed[r] \cup errors[r] = {input[r][i] : i \in 1..Behind(r)}
          /\ processed[r] \cap errors[r] = {}

(* What a run finds or leaves in the database of its i-th file, when none  *)
(* has failed: all but the edges that lead ahead.                          *)
Reach(r, i) ==
    NodesOf[input[r][i]] \cup {e \in EdgesOf[input[r][i]] : e[2] \in UpTo(r, i)}

Reached(r) ==
    Started(r) /\ errors[r] = {} =>
        /\ \A i \in 1..Behind(r) : Reach(r, i) \subseteq Stored
        /\ stage[r] = "edges" => Reach(r, Behind(r) + 1) \subseteq left[r] \cup Stored

(* A run's records are of its files; those that an earlier run reached are *)
(* not of its making.                                                      *)
OwnRecords(q) ==
    /\ \A x \in Stored : writer[x] = q =>
          /\ stage[q] \notin {"idle", "connected"}
          /\ \E i \in DOMAIN input[q] : x \in NodesOf[input[q][i]] \cup EdgesOf[input[q][i]]
    /\ \A r \in earlier[q] :
          /\ r \in Ended
          /\ stage[r] = "done" /\ errors[r] = {} =>
                \A i \in DOMAIN input[r] : \A x \in Reach(r, i) : x \in Stored /\ writer[x] # q

History == \A r \in Runs : InOrder(r) /\ Reached(r) /\ OwnRecords(r)

(* Where the current file is in the list. *)
LEMMA CurrentFile ==
  ASSUME TypeOK, NEW r \in Runs, InOrder(r), Started(r), todo[r] # <<>>
  PROVE  /\ Behind(r) \in Nat /\ Behind(r) + 1 \in DOMAIN input[r]
         /\ File(r) = input[r][Behind(r) + 1]
         /\ File(r) \notin processed[r] \cup errors[r]
<1>1. /\ input[r] \in Seq(Files) /\ todo[r] \in Seq(Files) /\ todo[r] # <<>>
      /\ Len(todo[r]) <= Len(input[r])
  BY DEF TypeOK, InOrder
<1>2. /\ Behind(r) \in Nat /\ Behind(r) + 1 \in 1..Len(input[r]) /\ 1 \in 1..Len(todo[r])
      /\ Head(todo[r]) = todo[r][1] /\ DOMAIN input[r] = 1..Len(input[r])
  <2>1. Len(todo[r]) \in Nat \ {0} /\ Len(input[r]) \in Nat
    BY <1>1
  <2>2. Head(todo[r]) = todo[r][1] /\ DOMAIN input[r] = 1..Len(input[r])
    BY <1>1
  <2>3. Behind(r) = Len(input[r]) - Len(todo[r]) /\ Len(todo[r]) <= Len(input[r])
    BY <1>1 DEF Behind
  <2>4. Behind(r) \in Nat /\ Behind(r) + 1 <= Len(input[r])
    BY <2>1, <2>3
  <2> QED BY <2>1, <2>2, <2>4
<1>3. File(r) = input[r][Behind(r) + 1]
  BY <1>2 DEF InOrder, File
<1>4. \A i \in 1..Behind(r) : input[r][i] # input[r][Behind(r) + 1]
  <2> SUFFICES ASSUME NEW i \in 1..Behind(r) PROVE input[r][i] # input[r][Behind(r) + 1]
    OBVIOUS
  <2>1. i \in DOMAIN input[r] /\ Behind(r) + 1 \in DOMAIN input[r] /\ i # Behind(r) + 1
    BY <1>1, <1>2
  <2>2. input[r] \in Inputs
    BY DEF InOrder
  <2> QED BY <2>1, <2>2, InputsAssumption
<1> QED BY <1>2, <1>3, <1>4 DEF InOrder

(* A file that is done with, as it may be, is behind the run. *)
LEMMA NextInOrder ==
  ASSUME TypeOK, NEW r \in Runs, InOrder(r), Started(r), todo[r] # <<>>, NextFile(r),
         UNCHANGED input,
         \/ processed'[r] = processed[r] \cup {File(r)} /\ errors'[r] = errors[r]
         \/ errors'[r] = errors[r] \cup {File(r)} /\ processed'[r] = processed[r]
  PROVE  InOrder(r)' /\ Behind(r)' = Behind(r) + 1
<1>1. /\ input[r] \in Seq(Files) /\ todo[r] \in Seq(Files) /\ todo[r] # <<>>
      /\ Len(todo[r]) <= Len(input[r]) /\ input[r] \in Inputs
  BY DEF TypeOK, InOrder
<1>2. todo'[r] = Tail(todo[r]) /\ stage'[r] = "file"
  BY DEF TypeOK, NextFile
<1>3. /\ Behind(r)' = Behind(r) + 1 /\ Len(todo'[r]) <= Len(input[r])
      /\ Len(todo'[r]) = Len(todo[r]) - 1
      /\ \A i \in 1..Len(todo'[r]) : todo'[r][i] = todo[r][i + 1]
  <2>1. Len(todo[r]) \in Nat \ {0} /\ Len(input[r]) \in Nat
    BY <1>1
  <2>2. /\ Len(Tail(todo[r])) = Len(todo[r]) - 1
        /\ \A i \in 1..Len(Tail(todo[r])) : Tail(todo[r])[i] = todo[r][i + 1]
    BY <1>1
  <2>3. Len(todo'[r]) = Len(todo[r]) - 1
    BY <1>2, <2>2
  <2>4. Behind(r)' = Behind(r) + 1 /\ Len(todo'[r]) <= Len(input[r])
    BY <1>1, <2>1, <2>3 DEF Behind
  <2> QED BY <1>2, <2>2, <2>3, <2>4
<1>4. Behind(r) \in Nat /\ Len(todo[r]) \in Nat /\ Len(input[r]) \in Nat
  BY <1>1, CurrentFile
<1>5. ASSUME NEW i \in 1..Len(todo'[r]) PROVE todo'[r][i] = input'[r][Behind(r)' + i]
  <2>1. i + 1 \in 1..Len(todo[r])
    BY <1>3, <1>4
  <2>2. Behind(r) + (i + 1) = (Behind(r) + 1) + i
    BY <1>4
  <2>3. todo[r][i + 1] = input[r][Behind(r) + (i + 1)]
    BY <2>1 DEF InOrder
  <2> QED BY <1>3, <2>1, <2>2, <2>3
<1>6. processed'[r] \cup errors'[r] = {input'[r][i] : i \in 1..Behind(r)'}
  <2>1. 1..Behind(r)' = 1..Behind(r) \cup {Behind(r) + 1}
    BY <1>3, <1>4
  <2>2. processed'[r] \cup errors'[r] = processed[r] \cup errors[r] \cup {input[r][Behind(r) + 1]}
    BY CurrentFile
  <2> QED BY <2>1, <2>2 DEF InOrder
<1>7. processed'[r] \cap errors'[r] = {}
  BY CurrentFile DEF InOrder
<1> QED BY <1>1, <1>2, <1>3, <1>5, <1>6, <1>7 DEF InOrder

-----------------------------------------------------------------------------
(* One step of r, which adds the records X. *)
OthersStay(r) ==
    \A q \in Runs \ {r} :
        /\ stage'[q] = stage[q] /\ input'[q] = input[q] /\ todo'[q] = todo[q]
        /\ left'[q] = left[q] /\ missing'[q] = missing[q] /\ counted'[q] = counted[q]
        /\ total'[q] = total[q] /\ processed'[q] = processed[q] /\ errors'[q] = errors[q]
        /\ linked'[q] = linked[q] /\ earlier'[q] = earlier[q]

StepOf(r, X) ==
    /\ r \notin Ended
    /\ OthersStay(r)
    /\ X \cap Stored = {} /\ Stored' = Stored \cup X
    /\ \A x \in Stored : writer'[x] = writer[x]
    /\ \A x \in X : writer'[x] = r

(* Nothing happens to what the other runs have behind them. *)
LEMMA OthersHistory ==
  ASSUME History, NEW r \in Runs, NEW X, StepOf(r, X), NEW q \in Runs \ {r}
  PROVE  InOrder(q)' /\ Reached(q)' /\ OwnRecords(q)'
<1> USE DEF StepOf, OthersStay
<1>1. /\ stage'[q] = stage[q] /\ input'[q] = input[q] /\ todo'[q] = todo[q]
      /\ left'[q] = left[q] /\ processed'[q] = processed[q] /\ errors'[q] = errors[q]
      /\ linked'[q] = linked[q] /\ earlier'[q] = earlier[q] /\ Stored \subseteq Stored'
  OBVIOUS
<1> Behind(q)' = Behind(q) /\ Started(q)' = Started(q)
  BY <1>1 DEF Behind, Started
<1>2. InOrder(q)'
  BY <1>1 DEF History, InOrder
<1>3. ASSUME NEW i PROVE Reach(q, i)' = Reach(q, i)
  BY <1>1 DEF Reach, UpTo
<1>4. Reached(q)'
  <2> SUFFICES ASSUME Started(q), errors[q] = {}
               PROVE  /\ \A i \in 1..Behind(q) : Reach(q, i)' \subseteq Stored'
                      /\ stage[q] = "edges" => Reach(q, Behind(q) + 1)' \subseteq left[q] \cup Stored'
    BY <1>1 DEF Reached
  <2> QED BY <1>1, <1>3 DEF History, Reached
<1>5. ASSUME NEW x \in Stored', writer'[x] = q PROVE x \in Stored /\ writer[x] = q
  BY <1>5
<1>6. ASSUME NEW p \in earlier[q]
      PROVE  /\ p \in Ended'
             /\ stage'[p] = "done" /\ errors'[p] = {} =>
                  \A i \in DOMAIN input'[p] : \A x \in Reach(p, i)' : x \in Stored' /\ writer'[x] # q
  <2>1. p \in Ended /\ p \in Runs \ {r}
    BY DEF History, OwnRecords, Ended
  <2>2. \A i : Reach(p, i)' = Reach(p, i)
    BY <2>1 DEF Reach, UpTo
  <2> QED BY <2>1, <2>2 DEF History, OwnRecords, Ended
<1>7. OwnRecords(q)'
  BY <1>1, <1>5, <1>6 DEF History, OwnRecords
<1> QED BY <1>2, <1>4, <1>7

(* What r adds is of its current file. *)
LEMMA OwnHistory ==
  ASSUME History, NEW r \in Runs, NEW X, StepOf(r, X),
         stage'[r] \notin {"idle", "connected"}, input'[r] = input[r], earlier'[r] = earlier[r],
         \A x \in X : \E i \in DOMAIN input[r] :
                        x \in NodesOf[input[r][i]] \cup EdgesOf[input[r][i]]
  PROVE  OwnRecords(r)'
<1> USE DEF StepOf, OthersStay
<1>1. ASSUME NEW x \in Stored', writer'[x] = r
      PROVE  \E i \in DOMAIN input[r] : x \in NodesOf[input[r][i]] \cup EdgesOf[input[r][i]]
  BY <1>1 DEF History, OwnRecords
<1>2. ASSUME NEW p \in earlier[r]
      PROVE  /\ p \in Ended'
             /\ stage'[p] = "done" /\ errors'[p] = {} =>
                  \A i \in DOMAIN input'[p] : \A x \in Reach(p, i)' : x \in Stored' /\ writer'[x] # r
  <2>1. p \in Ended /\ p \in Runs \ {r}
    BY DEF History, OwnRecords, Ended
  <2>2. \A i : Reach(p, i)' = Reach(p, i)
    BY <2>1 DEF Reach, UpTo
  <2> QED BY <2>1, <2>2 DEF History, OwnRecords, Ended
<1> QED BY <1>1, <1>2 DEF OwnRecords

LEMMA StepIsOfRun ==
  ASSUME TypeOK, NEW r \in Runs, r \notin Ended, OthersStay(r),
         NEW X \in SUBSET ((Nodes \cup Edges) \ Stored),
         Write(r, X) \/ (X = {} /\ UNCHANGED writer)
  PROVE  StepOf(r, X)
  BY NobodyAssumption DEF TypeOK, Write, StepOf, Stored

(* Most steps write nothing. *)
LEMMA QuietSteps ==
  ASSUME TypeOK, NEW r \in Runs,
         \/ Connect(r) \/ Collect(r) \/ Return(r) \/ Crash(r)
         \/ StartFile(r) \/ FileFails(r) \/ BatchDone(r)
         \/ \E x \in Nodes \cup Edges : Check(r, x)
  PROVE  StepOf(r, {})
<1> USE DEF fileVars, tallies
<1>1. CASE Connect(r) \/ Collect(r) \/ Return(r) \/ Crash(r)
  <2>1. OthersStay(r)
    BY <1>1 DEF Connect, Collect, Return, Crash, OthersStay, TypeOK
  <2>2. r \notin Ended /\ UNCHANGED writer
    BY <1>1 DEF Connect, Collect, Return, Crash, Ended
  <2> QED BY <2>1, <2>2, StepIsOfRun
<1>2. CASE StartFile(r) \/ FileFails(r) \/ BatchDone(r)
  <2>1. OthersStay(r)
    BY <1>2 DEF StartFile, FileFails, BatchDone, NextFile, OthersStay, TypeOK
  <2>2. r \notin Ended /\ UNCHANGED writer
    BY <1>2 DEF StartFile, FileFails, BatchDone, Ended
  <2> QED BY <2>1, <2>2, StepIsOfRun
<1>3. ASSUME NEW x \in Nodes \cup Edges, Check(r, x) PROVE StepOf(r, {})
  <2>1. OthersStay(r)
    BY <1>3 DEF Check, OthersStay, TypeOK
  <2>2. r \notin Ended /\ UNCHANGED writer
    BY <1>3 DEF Check, Writing, Ended
  <2> QED BY <2>1, <2>2, StepIsOfRun
<1> QED BY <1>1, <1>2, <1>3

Created(r) == {x \in left[r] : Creatable(x)} \ Stored

LEMMA TransactStep ==
  ASSUME TypeOK, NEW r \in Runs, Transact(r)
  PROVE  StepOf(r, Created(r))
<1>1. OthersStay(r)
  BY DEF Transact, NextFile, TypeOK, OthersStay
<1>2. r \notin Ended /\ Write(r, Created(r)) /\ Created(r) \in SUBSET ((Nodes \cup Edges) \ Stored)
  BY DEF Transact, Created, Writing, Ended, TypeOK
<1> QED BY <1>1, <1>2, StepIsOfRun

CreatedOne(x) == IF Creatable(x) THEN {x} \ Stored ELSE {}

LEMMA CreateStep ==
  ASSUME TypeOK, NEW r \in Runs, NEW x \in Nodes \cup Edges, Create(r, x)
  PROVE  StepOf(r, CreatedOne(x))
<1>1. OthersStay(r)
  BY DEF Create, TypeOK, OthersStay, tallies
<1>2. r \notin Ended /\ Write(r, CreatedOne(x)) /\ CreatedOne(x) \in SUBSET ((Nodes \cup Edges) \ Stored)
  BY DEF Create, CreatedOne, Writing, Ended
<1> QED BY <1>1, <1>2, StepIsOfRun

(* What a run writes next is of its current file, which is one of its list. *)
LEMMA BatchIsAsked ==
  ASSUME Inv, History, NEW r \in Runs, Writing(r), NEW x \in left[r]
  PROVE  \E i \in DOMAIN input[r] : x \in NodesOf[input[r][i]] \cup EdgesOf[input[r][i]]
<1>1. Started(r) /\ todo[r] # <<>> /\ x \in NodesOf[File(r)] \cup EdgesOf[File(r)]
  BY DEF Inv, Pending, Writing, Started
<1>2. Behind(r) + 1 \in DOMAIN input[r] /\ File(r) = input[r][Behind(r) + 1]
  BY <1>1, CurrentFile DEF Inv, History
<1> QED BY <1>1, <1>2

(* An edge that leads to a node of a file so far has both its ends there. *)
LEMMA ReachIsCreatable ==
  ASSUME Inv, History, NEW r \in Runs, stage[r] = "edges", errors[r] = {},
         NEW x \in Reach(r, Behind(r) + 1)
  PROVE  x \in Stored \/ Creatable(x)
<1>1. /\ Started(r) /\ todo[r] # <<>> /\ NodesOf[File(r)] \subseteq Stored /\ File(r) \in Files
      /\ InOrder(r) /\ Reached(r)
  BY DEF Inv, TypeOK, Pending, Started, History, File
<1>2. Behind(r) \in Nat /\ File(r) = input[r][Behind(r) + 1]
  BY <1>1, CurrentFile DEF Inv
<1>3. CASE x \in NodesOf[File(r)]
  BY <1>1, <1>3
<1>4. CASE x \in EdgesOf[File(r)] /\ x[2] \in UpTo(r, Behind(r) + 1)
  <2>1. x[1] \in Stored
    BY <1>1, <1>4, ExtractionAssumption
  <2>2. PICK j \in 1..(Behind(r) + 1) : x[2] \in NodesOf[input[r][j]]
    BY <1>4 DEF UpTo
  <2>3. CASE j = Behind(r) + 1
    BY <1>1, <1>2, <2>1, <2>2, <2>3 DEF Creatable
  <2>4. CASE j # Behind(r) + 1
    <3>1. j \in 1..Behind(r)
      BY <1>2, <2>4
    <3>2. x[2] \in Stored
      BY <1>1, <2>2, <3>1 DEF Reached, Reach
    <3> QED BY <2>1, <3>2 DEF Creatable
  <2> QED BY <2>3, <2>4
<1> QED BY <1>2, <1>3, <1>4 DEF Reach

(* While r is in one file: the list is where it was.                       *)
LEMMA SameFile ==
  ASSUME History, NEW r \in Runs, Started(r), stage'[r] \in {"file", "nodes", "edges"},
         UNCHANGED <<input, todo, tallies>>, Stored \subseteq Stored',
         stage'[r] = "edges" /\ errors[r] = {} => Reach(r, Behind(r) + 1) \subseteq left'[r] \cup Stored'
  PROVE  InOrder(r)' /\ Reached(r)'
<1> USE DEF tallies
<1>1. Behind(r)' = Behind(r) /\ Started(r)'
  BY DEF Behind, Started
<1>2. ASSUME NEW i PROVE Reach(r, i)' = Reach(r, i)
  BY DEF Reach, UpTo
<1>3. InOrder(r)'
  BY <1>1 DEF History, InOrder
<1>4. Reached(r)'
  <2> SUFFICES ASSUME errors[r] = {}
               PROVE  /\ \A i \in 1..Behind(r) : Reach(r, i)' \subseteq Stored'
                      /\ stage'[r] = "edges" => Reach(r, Behind(r) + 1)' \subseteq left'[r] \cup Stored'
    BY <1>1 DEF Reached
  <2> QED BY <1>1, <1>2 DEF History, Reached
<1> QED BY <1>3, <1>4

(* A run that has failed with a file claims no more to have reached any.   *)
LEMMA FailedFile ==
  ASSUME Inv, History, NEW r \in Runs, Started(r), todo[r] # <<>>, NextFile(r),
         UNCHANGED <<input, processed>>, errors' = [errors EXCEPT ![r] = @ \cup {File(r)}]
  PROVE  InOrder(r)' /\ Reached(r)'
<1>1. errors'[r] = errors[r] \cup {File(r)} /\ errors'[r] # {}
  BY DEF Inv, TypeOK
<1> QED BY <1>1, NextInOrder DEF Inv, History, Reached

LEMMA Together ==
  ASSUME Inv, History, NEW r \in Runs, NEW X \in SUBSET left[r],
         X = {} \/ Writing(r), StepOf(r, X), InOrder(r)', Reached(r)',
         stage'[r] \notin {"idle", "connected"}, UNCHANGED <<input, earlier>>
  PROVE  History'
<1>1. \A x \in X : \E i \in DOMAIN input[r] :
                     x \in NodesOf[input[r][i]] \cup EdgesOf[input[r][i]]
  BY BatchIsAsked
<1>2. OwnRecords(r)'
  BY <1>1, OwnHistory
<1> QED BY <1>2, OthersHistory DEF History

LEMMA ConnectHistory ==
  ASSUME Inv, History, NEW r \in Runs, Connect(r)
  PROVE  History'
<1> USE DEF fileVars, tallies
<1>1. StepOf(r, {})
  BY QuietSteps DEF Inv
<1>2. /\ stage'[r] \in {"connected", "raised"} /\ input'[r] \in Inputs
      /\ earlier'[r] = Ended /\ UNCHANGED <<writer, processed, errors>> /\ stage[r] = "idle"
  BY DEF Connect, Inv, TypeOK
<1>3. InOrder(r)' /\ Reached(r)'
  BY <1>2 DEF InOrder, Reached, Started, History
<1>4. ASSUME NEW x \in Stored' PROVE x \in Stored /\ writer'[x] # r
  BY <1>2, <1>4 DEF History, OwnRecords, Stored
<1>5. ASSUME NEW p \in Ended
      PROVE  /\ p \in Ended'
             /\ stage'[p] = "done" /\ errors'[p] = {} =>
                  \A i \in DOMAIN input'[p] : \A x \in Reach(p, i)' : x \in Stored' /\ writer'[x] # r
  <2>1. p \in Runs \ {r} /\ stage'[p] = stage[p] /\ errors'[p] = errors[p] /\ input'[p] = input[p]
    BY <1>1, <1>2 DEF Ended, StepOf, OthersStay
  <2>2. ASSUME NEW i PROVE Reach(p, i)' = Reach(p, i)
    BY <2>1 DEF Reach, UpTo
  <2>3. ASSUME stage[p] = "done", errors[p] = {}, NEW i \in DOMAIN input[p]
        PROVE  Reach(p, i) \subseteq Stored
    <3>1. todo[p] = <<>> /\ input[p] \in Seq(Files) /\ Started(p)
      BY <2>1, <2>3 DEF History, InOrder, Inv, TypeOK, Started
    <3>2. Len(todo[p]) = 0 /\ Len(input[p]) \in Nat /\ DOMAIN input[p] = 1..Len(input[p])
      BY <3>1
    <3>3. i \in 1..Behind(p)
      BY <3>2 DEF Behind
    <3> QED BY <2>1, <2>3, <3>1, <3>3 DEF History, Reached
  <2>4. Stored' = Stored
    BY <1>2 DEF Stored
  <2> QED BY <1>4, <2>1, <2>2, <2>3, <2>4 DEF Ended
<1>6. OwnRecords(r)'
  BY <1>2, <1>4, <1>5 DEF OwnRecords
<1> QED BY <1>1, <1>3, <1>6, OthersHistory DEF History

(* Before and after the files. *)
LEMMA CallHistory ==
  ASSUME Inv, History, NEW r \in Runs, Collect(r) \/ Return(r) \/ Crash(r)
  PROVE  History'
<1> USE DEF fileVars, tallies
<1>1. StepOf(r, {})
  BY QuietSteps DEF Inv
<1>2. UNCHANGED <<input, earlier, processed, errors>> /\ Stored' = Stored
      /\ stage'[r] \in {"file", "raised", "done", "dead"} /\ input[r] \in Seq(Files)
  BY DEF Collect, Return, Crash, Stored, Inv, TypeOK
<1>3. CASE Collect(r) /\ stage'[r] = "file"
  <2>1. todo'[r] = input[r] /\ stage[r] = "connected"
    BY <1>3 DEF Collect, Inv, TypeOK
  <2>2. Behind(r)' = 0 /\ Len(todo'[r]) <= Len(input'[r])
        /\ \A i \in 1..Len(todo'[r]) : 0 + i = i
    BY <1>2, <2>1 DEF Behind
  <2>3. InOrder(r)' /\ Reached(r)'
    BY <1>2, <1>3, <2>1, <2>2 DEF InOrder, Reached, History
  <2> QED BY <1>1, <1>2, <2>3, <1>3, Together
<1>4. CASE Return(r)
  <2>1. /\ stage[r] = "file" /\ todo'[r] = <<>> /\ todo[r] = <<>> /\ ~ linked'[r]
        /\ stage'[r] = "done"
    BY <1>4 DEF Return, Inv, TypeOK
  <2>2. Behind(r)' = Behind(r) /\ Started(r)
    BY <1>2, <2>1 DEF Behind, Started
  <2>3. ASSUME NEW i PROVE Reach(r, i)' = Reach(r, i)
    BY <1>2 DEF Reach, UpTo
  <2>4. InOrder(r)'
    BY <1>2, <2>1, <2>2 DEF InOrder, History
  <2>5. Reached(r)'
    BY <1>2, <2>1, <2>2, <2>3 DEF Reached, History
  <2> QED BY <1>1, <1>2, <2>1, <2>4, <2>5, Together
<1>5. CASE stage'[r] \in {"raised", "dead"}
  <2>1. InOrder(r)' /\ Reached(r)'
    BY <1>5 DEF InOrder, Reached, Started
  <2> QED BY <1>1, <1>2, <1>5, <2>1, Together
<1>6. Return(r) \/ stage'[r] \in {"raised", "dead"} \/ (Collect(r) /\ stage'[r] = "file")
  BY <1>2 DEF Collect, Crash, Inv, TypeOK
<1> QED BY <1>3, <1>4, <1>5, <1>6

(* The steps of one file that write nothing. *)
LEMMA FileHistory ==
  ASSUME Inv, History, NEW r \in Runs, StartFile(r) \/ FileFails(r) \/ BatchDone(r)
  PROVE  History'
<1> USE DEF fileVars, tallies
<1>1. StepOf(r, {})
  BY QuietSteps DEF Inv
<1>2. /\ UNCHANGED <<input, earlier>> /\ Stored' = Stored
      /\ stage'[r] \in {"file", "nodes", "edges"} /\ Started(r) /\ todo[r] # <<>>
  BY DEF StartFile, FileFails, BatchDone, NextFile, Stored, Started, Inv, TypeOK, Pending
<1>3. CASE StartFile(r)
  <2>1. stage'[r] = "nodes" /\ UNCHANGED <<todo, tallies>>
    BY <1>3 DEF StartFile, Inv, TypeOK
  <2> QED BY <1>1, <1>2, <2>1, SameFile, Together
<1>4. CASE FileFails(r)
  <2>1. InOrder(r)' /\ Reached(r)'
    BY <1>2, <1>4, FailedFile DEF FileFails
  <2> QED BY <1>1, <1>2, <2>1, Together
<1>5. CASE BatchDone(r) /\ stage[r] = "nodes"
  <2>1. /\ UNCHANGED <<todo, tallies>> /\ left'[r] = EdgesOf[File(r)] /\ left[r] = {}
    BY <1>5 DEF BatchDone, Inv, TypeOK
  <2>2. NodesOf[File(r)] \subseteq Stored
    BY <1>5, <2>1 DEF Inv, Pending
  <2>3. File(r) = input[r][Behind(r) + 1]
    BY <1>2, CurrentFile DEF Inv, History
  <2>4. Reach(r, Behind(r) + 1) \subseteq left'[r] \cup Stored'
    BY <1>2, <2>1, <2>2, <2>3 DEF Reach
  <2> QED BY <1>1, <1>2, <2>1, <2>4, SameFile, Together
<1>6. CASE BatchDone(r) /\ stage[r] = "edges"
  <2>1. /\ processed'[r] = processed[r] \cup {File(r)} /\ errors'[r] = errors[r]
        /\ NextFile(r) /\ left[r] = {} /\ stage'[r] = "file"
    BY <1>6 DEF BatchDone, NextFile, Inv, TypeOK
  <2>2. InOrder(r)' /\ Behind(r)' = Behind(r) + 1 /\ Behind(r) \in Nat
    BY <1>2, <2>1, NextInOrder, CurrentFile DEF Inv, History
  <2>3. ASSUME NEW i PROVE Reach(r, i)' = Reach(r, i)
    BY <1>2 DEF Reach, UpTo
  <2>4. Reached(r)'
    <3> SUFFICES ASSUME errors[r] = {}, NEW i \in 1..(Behind(r) + 1)
                 PROVE  Reach(r, i) \subseteq Stored
      BY <1>2, <2>1, <2>2, <2>3 DEF Reached
    <3>1. i \in 1..Behind(r) \/ i = Behind(r) + 1
      BY <2>2
    <3> QED BY <1>2, <1>6, <2>1, <3>1 DEF History, Reached
  <2> QED BY <1>1, <1>2, <2>2, <2>4, Together
<1> QED BY <1>3, <1>4, <1>5, <1>6 DEF BatchDone

(* The steps that write. *)
LEMMA WritingHistory ==
  ASSUME Inv, MissingIsLeft, History, NEW r \in Runs,
         Transact(r) \/ \E x \in Nodes \cup Edges : Check(r, x) \/ Create(r, x)
  PROVE  History'
<1> USE DEF fileVars, tallies
<1>1. /\ Writing(r) /\ UNCHANGED <<input, earlier, processed>>
      /\ Started(r) /\ todo[r] # <<>>
  BY DEF Transact, Check, Create, Writing, Started, Inv, Pending
<1>2. stage[r] = "edges" /\ errors[r] = {} => Reach(r, Behind(r) + 1) \subseteq left[r] \cup Stored
  BY <1>1 DEF History, Reached
<1>3. CASE Transact(r)
  <2>2. StepOf(r, Created(r)) /\ Created(r) \subseteq left[r]
    BY <1>3, TransactStep DEF Inv, Created
  <2>3. Stored' = Stored \cup Created(r)
    BY <2>2 DEF StepOf
  <2>4. CASE left' = [left EXCEPT ![r] = {}] /\ UNCHANGED <<stage, todo, errors>>
    <3>1. stage[r] = "edges" /\ errors[r] = {} => Reach(r, Behind(r) + 1) \subseteq Stored'
      BY <1>2, <2>3, ReachIsCreatable DEF Created
    <3>2. stage'[r] \in {"nodes", "edges"}
      BY <1>1, <2>4 DEF Writing
    <3>3. UNCHANGED tallies
      BY <1>3, <2>4 DEF Transact
    <3>4. InOrder(r)' /\ Reached(r)'
      BY <1>1, <2>3, <2>4, <3>1, <3>2, <3>3, SameFile
    <3> QED BY <1>1, <2>2, <3>2, <3>4, Together
  <2>5. CASE NextFile(r) /\ errors' = [errors EXCEPT ![r] = @ \cup {File(r)}]
    <3>1. InOrder(r)' /\ Reached(r)'
      BY <1>1, <2>5, FailedFile
    <3>2. stage'[r] = "file"
      BY <2>5 DEF NextFile, Inv, TypeOK
    <3> QED BY <1>1, <2>2, <3>1, <3>2, Together
  <2> QED BY <1>3, <2>4, <2>5 DEF Transact
<1>4. ASSUME NEW x \in Nodes \cup Edges, Check(r, x) PROVE History'
  <2>1. UNCHANGED <<writer, stage, todo, tallies>> /\ Stored' = Stored
    BY <1>4 DEF Check, Stored
  <2>2. StepOf(r, {})
    BY <1>4, QuietSteps DEF Inv
  <2>3. left[r] \subseteq left'[r] \cup Stored
    <3>1. CASE x \in Stored
      BY <1>4, <3>1 DEF Check, Inv, TypeOK
    <3>2. CASE x \notin Stored
      BY <1>4, <3>2 DEF Check
    <3> QED BY <3>1, <3>2
  <2>4. InOrder(r)' /\ Reached(r)' /\ stage'[r] \in {"nodes", "edges"}
    BY <1>1, <1>2, <2>1, <2>3, SameFile DEF Writing
  <2> QED BY <1>1, <2>2, <2>4, Together
<1>5. ASSUME NEW x \in Nodes \cup Edges, Create(r, x) PROVE History'
  <2>1. x \in left[r] /\ left'[r] = left[r] \ {x} /\ UNCHANGED <<stage, todo, tallies>>
    BY <1>5 DEF Create, MissingIsLeft, Inv, TypeOK
  <2>2. StepOf(r, CreatedOne(x)) /\ CreatedOne(x) \subseteq left[r]
    BY <1>5, <2>1, CreateStep DEF Inv, CreatedOne
  <2>3. Stored' = Stored \cup CreatedOne(x)
    BY <2>2 DEF StepOf
  <2>4. stage[r] = "edges" /\ errors[r] = {} => Reach(r, Behind(r) + 1) \subseteq left'[r] \cup Stored'
    BY <1>2, <2>1, <2>3, ReachIsCreatable DEF CreatedOne
  <2>5. InOrder(r)' /\ Reached(r)' /\ stage'[r] \in {"nodes", "edges"}
    BY <1>1, <2>1, <2>3, <2>4, SameFile DEF Writing
  <2> QED BY <1>1, <2>2, <2>5, Together
<1> QED BY <1>3, <1>4, <1>5

LEMMA InitHistory == Init => History
  BY DEF Init, History, InOrder, Reached, OwnRecords, Started, Stored

LEMMA NextHistory == Inv /\ MissingIsLeft /\ History /\ [Next]_vars => History'
<1> SUFFICES ASSUME Inv, MissingIsLeft, History, [Next]_vars PROVE History'
  OBVIOUS
<1>1. CASE UNCHANGED vars
  <2> SUFFICES ASSUME NEW r \in Runs PROVE InOrder(r)' /\ Reached(r)' /\ OwnRecords(r)'
    BY DEF History
  <2>1. UNCHANGED <<writer, stage, input, todo, left, processed, errors, linked, earlier>>
    BY <1>1 DEF vars, fileVars, tallies
  <2>2. ASSUME NEW p, NEW i PROVE Reach(p, i)' = Reach(p, i)
    BY <2>1 DEF Reach, UpTo
  <2>3. Stored' = Stored /\ Ended' = Ended /\ Behind(r)' = Behind(r) /\ Started(r)' = Started(r)
    BY <2>1 DEF Stored, Ended, Behind, Started
  <2>4. InOrder(r)'
    BY <2>1, <2>3 DEF History, InOrder
  <2>5. Reached(r)'
    <3> SUFFICES ASSUME Started(r), errors[r] = {}
                 PROVE  /\ \A i \in 1..Behind(r) : Reach(r, i)' \subseteq Stored
                        /\ stage[r] = "edges" => Reach(r, Behind(r) + 1)' \subseteq left[r] \cup Stored
      BY <2>1, <2>3 DEF Reached
    <3> QED BY <2>2, <2>3 DEF History, Reached
  <2>6. OwnRecords(r)'
    <3>1. ASSUME NEW p \in earlier[r], stage[p] = "done", errors[p] = {}, NEW i \in DOMAIN input[p],
                 NEW x \in Reach(p, i)'
          PROVE  x \in Stored /\ writer[x] # r
      BY <2>2, <3>1 DEF History, OwnRecords
    <3> QED BY <2>1, <2>3, <3>1 DEF History, OwnRecords
  <2> QED BY <2>4, <2>5, <2>6
<1> QED BY <1>1, ConnectHistory, CallHistory, FileHistory, WritingHistory DEF Next, Step

LEMMA HistoryHolds == Spec => [](Inv /\ History)
<1>1. Init => Inv /\ MissingIsLeft /\ History
  BY InitInv, InitMissing, InitHistory
<1>2. Inv /\ MissingIsLeft /\ History /\ [Next]_vars => Inv' /\ MissingIsLeft' /\ History'
  BY NextInv, NextMissing, NextHistory DEF Inv
<1> QED BY <1>1, <1>2, PTL DEF Spec

(* A run that returns has listed each file that it was asked for once, as  *)
(* processed or as an error, whatever raised in its loop, and has closed   *)
(* its connection.                                                         *)
THEOREM FilesAreAccounted == Spec => []EveryFileAccounted
<1>1. Inv /\ History => EveryFileAccounted
  <2> SUFFICES ASSUME Inv, History, NEW r \in Runs, stage[r] = "done"
               PROVE  /\ processed[r] \cup errors[r] = {input[r][i] : i \in DOMAIN input[r]}
                      /\ processed[r] \cap errors[r] = {}
                      /\ ~ linked[r]
    BY DEF EveryFileAccounted
  <2>1. todo[r] = <<>> /\ input[r] \in Seq(Files) /\ Started(r) /\ InOrder(r) /\ ~ linked[r]
    BY DEF History, InOrder, Started, Inv, TypeOK
  <2>2. Len(todo[r]) = 0 /\ Len(input[r]) \in Nat /\ DOMAIN input[r] = 1..Len(input[r])
    BY <2>1
  <2>3. Behind(r) = Len(input[r])
    BY <2>2 DEF Behind
  <2> QED BY <2>1, <2>2, <2>3 DEF InOrder
<1> QED BY <1>1, HistoryHolds, PTL

(* Ingesting the same files again, after they all succeeded, adds no node, *)
(* and of the edges only those that lead to a node of a later file.        *)
THEOREM RepeatsAddForwardEdges == Spec => []RepeatAddsOnlyForwardEdges
<1>1. History => RepeatAddsOnlyForwardEdges
  <2> SUFFICES ASSUME History, NEW q \in Runs, NEW r \in Runs, Repeats(q, r),
                      NEW x \in Stored, writer[x] = q
               PROVE  \E i \in DOMAIN input[q] :
                         x \in EdgesOf[input[q][i]] /\ x[2] \notin UpTo(q, i)
    BY DEF RepeatAddsOnlyForwardEdges
  <2>1. PICK i \in DOMAIN input[q] : x \in NodesOf[input[q][i]] \cup EdgesOf[input[q][i]]
    BY DEF History, OwnRecords
  <2>2. x \notin Reach(r, i)
    BY <2>1 DEF Repeats, History, OwnRecords
  <2>3. UpTo(r, i) = UpTo(q, i)
    BY DEF Repeats, UpTo
  <2> QED BY <2>1, <2>2, <2>3 DEF Reach, Repeats
<1> QED BY <1>1, HistoryHolds, PTL

-----------------------------------------------------------------------------
(* The edges to the files that earlier runs had processed.                 *)
LinkedSoFar(q) ==
    /\ \A f \in processed[q] : \A g \in KnownTo(q) : Links(f, g) \subseteq Stored
    /\ stage[q] = "edges" =>
          \A g \in KnownTo(q) : Links(File(q), g) \subseteq left[q] \cup Stored

AllLinked == \A q \in Runs : LinkedSoFar(q)

(* What was known to a run when it began does not change, because the runs *)
(* before it have ended.                                                   *)
LEMMA KnownStays ==
  ASSUME History, NEW r \in Runs, NEW X, StepOf(r, X), NEW q \in Runs, earlier'[q] = earlier[q]
  PROVE  KnownTo(q)' = KnownTo(q)
<1>1. ASSUME NEW p \in earlier[q] PROVE processed'[p] = processed[p]
  <2>1. p \in Ended /\ p \in Runs \ {r}
    BY DEF History, OwnRecords, Ended, StepOf
  <2> QED BY <2>1 DEF StepOf, OthersStay
<1> QED BY <1>1 DEF KnownTo

LEMMA OthersLinked ==
  ASSUME History, NEW r \in Runs, NEW X, StepOf(r, X), NEW q \in Runs \ {r}, LinkedSoFar(q)
  PROVE  LinkedSoFar(q)'
<1>1. /\ stage'[q] = stage[q] /\ left'[q] = left[q] /\ processed'[q] = processed[q]
      /\ File(q)' = File(q) /\ earlier'[q] = earlier[q] /\ Stored \subseteq Stored'
  BY DEF StepOf, OthersStay, File
<1>2. KnownTo(q)' = KnownTo(q)
  BY <1>1, KnownStays
<1>3. ASSUME NEW f, NEW g PROVE Links(f, g)' = Links(f, g)
  BY DEF Links
<1> QED BY <1>1, <1>2, <1>3 DEF LinkedSoFar

(* While r is in one file, or between files, or ends.                      *)
LEMMA OwnLinked ==
  ASSUME History, NEW r \in Runs, NEW X, StepOf(r, X), LinkedSoFar(r),
         processed'[r] = processed[r], earlier'[r] = earlier[r],
         stage'[r] = "edges" =>
             /\ File(r)' = File(r)
             /\ \A g \in KnownTo(r) : Links(File(r), g) \subseteq left'[r] \cup Stored'
  PROVE  LinkedSoFar(r)'
<1>1. KnownTo(r)' = KnownTo(r) /\ Stored \subseteq Stored'
  BY KnownStays DEF StepOf
<1>2. ASSUME NEW f, NEW g PROVE Links(f, g)' = Links(f, g)
  BY DEF Links
<1> QED BY <1>1, <1>2 DEF LinkedSoFar

(* An edge to a known file can be created, once the nodes of its own are.  *)
LEMMA LinkIsCreatable ==
  ASSUME Inv, NEW r \in Runs, stage[r] = "edges", NEW g \in KnownTo(r), NEW x \in Links(File(r), g)
  PROVE  Creatable(x)
<1>1. File(r) \in Files /\ NodesOf[File(r)] \subseteq Stored
  BY DEF Inv, TypeOK, Pending, File
<1>2. NodesOf[g] \subseteq Stored
  BY DEF Inv, TypeOK, ProcessedIsStored, KnownTo
<1> QED BY <1>1, <1>2, ExtractionAssumption DEF Links, Creatable

LEMMA InitLinked == Init => AllLinked
  BY DEF Init, AllLinked, LinkedSoFar

LEMMA NextLinked ==
  Inv /\ MissingIsLeft /\ History /\ AllLinked /\ [Next]_vars => AllLinked'
<1> USE DEF fileVars, tallies
<1> SUFFICES ASSUME Inv, MissingIsLeft, History, AllLinked, [Next]_vars PROVE AllLinked'
  OBVIOUS
<1> TypeOK
  BY DEF Inv
<1>1. ASSUME NEW r \in Runs, NEW X, StepOf(r, X), LinkedSoFar(r)' PROVE AllLinked'
  BY <1>1, OthersLinked DEF AllLinked
<1>2. ASSUME NEW r \in Runs, NEW X, StepOf(r, X), UNCHANGED <<processed, earlier>>,
             stage'[r] # "edges"
      PROVE  AllLinked'
  BY <1>1, <1>2, OwnLinked DEF AllLinked
<1>3. ASSUME NEW r \in Runs, Connect(r) PROVE AllLinked'
  <2>1. StepOf(r, {}) /\ stage'[r] # "edges" /\ processed'[r] = {}
    BY <1>3, QuietSteps DEF Connect, TypeOK, History, InOrder
  <2> QED BY <1>1, <2>1 DEF LinkedSoFar
<1>4. ASSUME NEW r \in Runs, Collect(r) \/ Return(r) \/ Crash(r) \/ StartFile(r) \/ FileFails(r)
      PROVE  AllLinked'
  <2>1. StepOf(r, {}) /\ stage'[r] # "edges" /\ UNCHANGED <<processed, earlier>>
    BY <1>4, QuietSteps DEF Collect, Return, Crash, StartFile, FileFails, NextFile, TypeOK
  <2> QED BY <1>2, <2>1
<1>5. ASSUME NEW r \in Runs, BatchDone(r) PROVE AllLinked'
  <2>1. StepOf(r, {}) /\ left[r] = {} /\ UNCHANGED earlier /\ Stored' = Stored
    BY <1>5, QuietSteps DEF BatchDone, Stored
  <2>2. CASE stage[r] = "nodes"
    <3>1. /\ UNCHANGED <<processed, todo>> /\ left'[r] = EdgesOf[File(r)] /\ File(r)' = File(r)
      BY <1>5, <2>2 DEF BatchDone, TypeOK, File
    <3>2. LinkedSoFar(r)'
      BY <2>1, <3>1, OwnLinked DEF Links, AllLinked
    <3> QED BY <1>1, <2>1, <3>2
  <2>3. CASE stage[r] = "edges"
    <3>1. processed'[r] = processed[r] \cup {File(r)} /\ stage'[r] # "edges"
      BY <1>5, <2>3 DEF BatchDone, NextFile, TypeOK
    <3>2. KnownTo(r)' = KnownTo(r)
      BY <2>1, KnownStays
    <3>3. \A g \in KnownTo(r) : Links(File(r), g) \subseteq Stored
      BY <2>1, <2>3 DEF AllLinked, LinkedSoFar
    <3>4. LinkedSoFar(r)'
      BY <2>1, <3>1, <3>2, <3>3 DEF AllLinked, LinkedSoFar, Links
    <3> QED BY <1>1, <2>1, <3>4
  <2> QED BY <1>5, <2>2, <2>3 DEF BatchDone
<1>6. ASSUME NEW r \in Runs, Transact(r) PROVE AllLinked'
  <2>1. StepOf(r, Created(r)) /\ Stored' = Stored \cup Created(r) /\ UNCHANGED <<processed, earlier>>
    BY <1>6, TransactStep DEF StepOf, Transact
  <2>2. CASE NextFile(r)
    BY <1>2, <2>1, <2>2 DEF NextFile, TypeOK
  <2>3. CASE left' = [left EXCEPT ![r] = {}] /\ UNCHANGED <<stage, todo>>
    <3>1. File(r)' = File(r)
      BY <2>3 DEF File
    <3>2. ASSUME stage[r] = "edges", NEW g \in KnownTo(r)
          PROVE  Links(File(r), g) \subseteq Stored'
      BY <2>1, <3>2, LinkIsCreatable DEF AllLinked, LinkedSoFar, Created
    <3>3. LinkedSoFar(r)'
      BY <2>1, <2>3, <3>1, <3>2, OwnLinked DEF AllLinked
    <3> QED BY <1>1, <2>1, <3>3
  <2> QED BY <1>6, <2>2, <2>3 DEF Transact
<1>7. ASSUME NEW r \in Runs, NEW x \in Nodes \cup Edges, Check(r, x) PROVE AllLinked'
  <2>1. StepOf(r, {}) /\ Stored' = Stored /\ UNCHANGED <<processed, earlier, stage, todo>>
    BY <1>7, QuietSteps DEF Check, Stored
  <2>2. left[r] \subseteq left'[r] \cup Stored
    BY <1>7 DEF Check, TypeOK
  <2>3. LinkedSoFar(r)'
    BY <2>1, <2>2, OwnLinked DEF AllLinked, LinkedSoFar, File
  <2> QED BY <1>1, <2>1, <2>3
<1>8. ASSUME NEW r \in Runs, NEW x \in Nodes \cup Edges, Create(r, x) PROVE AllLinked'
  <2>1. /\ StepOf(r, CreatedOne(x)) /\ Stored' = Stored \cup CreatedOne(x)
        /\ UNCHANGED <<processed, earlier, stage, todo>> /\ left'[r] = left[r] \ {x}
    <3>1. StepOf(r, CreatedOne(x))
      BY <1>8, CreateStep
    <3>2. UNCHANGED <<processed, earlier, stage, todo>> /\ left'[r] = left[r] \ {x}
      BY <1>8 DEF Create, TypeOK
    <3> QED BY <3>1, <3>2 DEF StepOf
  <2>2. ASSUME stage[r] = "edges", NEW g \in KnownTo(r)
        PROVE  Links(File(r), g) \subseteq left'[r] \cup Stored'
    BY <2>1, <2>2, LinkIsCreatable DEF AllLinked, LinkedSoFar, CreatedOne
  <2>3. LinkedSoFar(r)'
    BY <2>1, <2>2, OwnLinked DEF AllLinked, File
  <2> QED BY <1>1, <2>1, <2>3
<1>9. CASE UNCHANGED vars
  <2>1. UNCHANGED <<writer, stage, todo, left, processed, earlier>>
    BY <1>9 DEF vars
  <2> QED BY <2>1 DEF AllLinked, LinkedSoFar, KnownTo, Links, File, Stored
<1> QED BY <1>3, <1>4, <1>5, <1>6, <1>7, <1>8, <1>9 DEF Next, Step

(* Ingesting files again adds the edges that the runs before had to drop:  *)
(* of a processed file no edge is missing to a node of a file that an      *)
(* earlier run had processed, even one that crashed later.                 *)
THEOREM SecondRunLinks == Spec => []LinksToKnownFiles
<1>1. Init => Inv /\ MissingIsLeft /\ History /\ AllLinked
  BY InitInv, InitMissing, InitHistory, InitLinked
<1>2. Inv /\ MissingIsLeft /\ History /\ AllLinked /\ [Next]_vars
      => Inv' /\ MissingIsLeft' /\ History' /\ AllLinked'
  BY NextInv, NextMissing, NextHistory, NextLinked DEF Inv
<1>3. AllLinked => LinksToKnownFiles
  BY DEF AllLinked, LinkedSoFar, LinksToKnownFiles
<1> QED BY <1>1, <1>2, <1>3, PTL DEF Spec

-----------------------------------------------------------------------------
(* What a run has counted, against what it created.                        *)
Mine(r) == {x \in Stored : writer[x] = r}

Exact(r) == backend = "neo4j" \/ ~ Overlap(r)

Counts(r) ==
    /\ stage[r] = "idle" => total[r] = 0
    /\ stage[r] \notin {"nodes", "edges", "dead"} => counted[r] = 0
    /\ Exact(r) =>
          /\ total[r] + counted[r] <= Cardinality(Mine(r))
          /\ errors[r] = {} => total[r] + counted[r] = Cardinality(Mine(r))
          /\ r \notin Ended => missing[r] \cap Stored = {}

AllCounts == \A r \in Runs : Counts(r)

LEMMA MineGrows ==
  ASSUME TypeOK, NEW r \in Runs, NEW X \in SUBSET (Nodes \cup Edges), StepOf(r, X)
  PROVE  /\ Cardinality(Mine(r)') = Cardinality(Mine(r)) + Cardinality(X)
         /\ Cardinality(Mine(r)) \in Nat /\ Cardinality(X) \in Nat
         /\ \A q \in Runs \ {r} : Mine(q)' = Mine(q)
<1>1. Mine(r)' = Mine(r) \cup X /\ Mine(r) \cap X = {}
  BY DEF StepOf, Mine
<1>2. \A q \in Runs \ {r} : Mine(q)' = Mine(q)
  BY DEF StepOf, Mine
<1>3. IsFiniteSet(Mine(r)) /\ IsFiniteSet(X)
  BY RecordsFinite, FS_Subset DEF Mine, Stored
<1>4. Cardinality(Mine(r) \cup X)
         = Cardinality(Mine(r)) + Cardinality(X) - Cardinality(Mine(r) \cap X)
  BY <1>3, FS_Union
<1>5. Cardinality(Mine(r) \cap X) = 0
  BY <1>1, FS_EmptySet
<1>6. Cardinality(Mine(r)) \in Nat /\ Cardinality(X) \in Nat
  BY <1>3, FS_CardinalityType
<1> QED BY <1>1, <1>2, <1>4, <1>5, <1>6

(* A run that has not begun has nothing to count. *)
LEMMA IdleCounts ==
  ASSUME TypeOK, MissingIsLeft, History, AllCounts, NEW r \in Runs, stage[r] = "idle"
  PROVE  /\ total[r] = 0 /\ counted[r] = 0 /\ Cardinality(Mine(r)) = 0 /\ missing[r] = {}
<1>1. Mine(r) = {}
  BY DEF Mine, History, OwnRecords
<1> QED BY <1>1, FS_EmptySet DEF AllCounts, Counts, MissingIsLeft

(* Runs that have overlapped have. *)
LEMMA OverlapStays ==
  ASSUME NEW r \in Runs, NEW q \in Runs, NEW X, StepOf(q, X), stage[r] # "idle",
         stage[q] # "idle" => stage'[q] # "idle" /\ earlier'[q] = earlier[q],
         Overlap(r)
  PROVE  Overlap(r)'
<1>1. PICK p \in Runs \ {r} : stage[p] # "idle" /\ p \notin earlier[r] /\ r \notin earlier[p]
  BY DEF Overlap
<1>2. stage'[p] # "idle" /\ earlier'[p] = earlier[p] /\ earlier'[r] = earlier[r]
  BY <1>1 DEF StepOf, OthersStay
<1> QED BY <1>1, <1>2 DEF Overlap

LEMMA OthersCounts ==
  ASSUME TypeOK, MissingIsLeft, History, AllCounts, UNCHANGED backend,
         NEW q \in Runs, NEW X \in SUBSET (Nodes \cup Edges), StepOf(q, X),
         X = {} \/ stage[q] # "idle",
         stage[q] # "idle" => stage'[q] # "idle" /\ earlier'[q] = earlier[q],
         NEW r \in Runs \ {q}
  PROVE  Counts(r)'
<1>1. /\ stage'[r] = stage[r] /\ total'[r] = total[r] /\ counted'[r] = counted[r]
      /\ missing'[r] = missing[r] /\ errors'[r] = errors[r]
      /\ Mine(r)' = Mine(r) /\ (r \in Ended' <=> r \in Ended)
  <2>1. /\ stage'[r] = stage[r] /\ total'[r] = total[r] /\ counted'[r] = counted[r]
        /\ missing'[r] = missing[r] /\ errors'[r] = errors[r]
    BY DEF StepOf, OthersStay
  <2>2. r \in Ended' <=> r \in Ended
    BY <2>1 DEF Ended
  <2> QED BY <2>1, <2>2, MineGrows
<1>2. CASE stage[r] = "idle"
  BY <1>1, <1>2, IdleCounts DEF Counts
<1>3. CASE stage[r] # "idle"
  <2>1. Exact(r)' => Exact(r)
    BY <1>3, OverlapStays DEF Exact
  <2>2. ASSUME Exact(r), r \notin Ended PROVE missing[r] \cap Stored' = {}
    <3>1. CASE backend = "neo4j"
      BY <3>1 DEF MissingIsLeft
    <3>2. CASE ~ Overlap(r) /\ X # {}
      <4>1. q \in earlier[r] \/ r \in earlier[q]
        BY <3>2 DEF Overlap
      <4>2. q \notin Ended
        BY DEF StepOf
      <4> QED BY <2>2, <4>1, <4>2 DEF History, OwnRecords
    <3>3. CASE X = {}
      BY <2>2, <3>3 DEF AllCounts, Counts, StepOf
    <3> QED BY <2>2, <3>1, <3>2, <3>3 DEF Exact
  <2> QED BY <1>1, <2>1, <2>2, <1>3 DEF AllCounts, Counts
<1> QED BY <1>2, <1>3

(* The counts of the run that makes the step, by what it does to them. *)
LEMMA OwnCounts ==
  ASSUME TypeOK, AllCounts, NEW r \in Runs, NEW X \in SUBSET (Nodes \cup Edges),
         StepOf(r, X), UNCHANGED backend,
         stage[r] # "idle", stage'[r] # "idle", earlier'[r] = earlier[r],
         total'[r] \in Nat, counted'[r] \in Nat,
         stage'[r] \notin {"nodes", "edges", "dead"} => counted'[r] = 0,
         Exact(r) =>
             /\ total'[r] + counted'[r] <= total[r] + counted[r] + Cardinality(X)
             /\ errors'[r] = {} =>
                   /\ errors[r] = {}
                   /\ total'[r] + counted'[r] = total[r] + counted[r] + Cardinality(X)
             /\ r \notin Ended' => missing'[r] \cap Stored' = {}
  PROVE  Counts(r)'
<1>1. Exact(r)' => Exact(r)
  BY OverlapStays DEF Exact
<1>2. /\ Cardinality(Mine(r)') = Cardinality(Mine(r)) + Cardinality(X)
      /\ Cardinality(Mine(r)) \in Nat /\ Cardinality(X) \in Nat
  BY MineGrows
<1>3. total[r] \in Nat /\ counted[r] \in Nat
  BY DEF TypeOK
<1>4. ASSUME Exact(r)
      PROVE  /\ total'[r] + counted'[r] <= Cardinality(Mine(r)')
             /\ errors'[r] = {} => total'[r] + counted'[r] = Cardinality(Mine(r)')
  <2>1. /\ total[r] + counted[r] <= Cardinality(Mine(r))
        /\ errors[r] = {} => total[r] + counted[r] = Cardinality(Mine(r))
    BY <1>4 DEF AllCounts, Counts
  <2> QED BY <1>2, <1>3, <1>4, <2>1
<1> QED BY <1>1, <1>4 DEF Counts

LEMMA NextCounts ==
  Inv /\ MissingIsLeft /\ History /\ AllCounts /\ [Next]_vars => AllCounts'
<1> USE DEF fileVars, tallies
<1> SUFFICES ASSUME Inv, MissingIsLeft, History, AllCounts, [Next]_vars PROVE AllCounts'
  OBVIOUS
<1> TypeOK
  BY DEF Inv
<1>1. ASSUME NEW r \in Runs, Connect(r) PROVE AllCounts'
  <2>1. StepOf(r, {}) /\ UNCHANGED backend /\ stage[r] = "idle"
    BY <1>1, QuietSteps DEF Connect
  <2>2. /\ UNCHANGED <<total, counted, missing, errors, writer>>
        /\ stage'[r] \in {"connected", "raised"}
    BY <1>1 DEF Connect, TypeOK
  <2>3. Mine(r)' = Mine(r) /\ Stored' = Stored
    BY <2>2 DEF Mine, Stored
  <2>4. Counts(r)'
    BY <2>1, <2>2, <2>3, IdleCounts DEF Counts
  <2> QED BY <2>1, <2>4, OthersCounts DEF AllCounts
<1>2. ASSUME NEW r \in Runs, NEW X \in SUBSET (Nodes \cup Edges), StepOf(r, X), UNCHANGED backend,
             stage[r] # "idle", stage'[r] # "idle", UNCHANGED earlier, Counts(r)'
      PROVE  AllCounts'
  BY <1>2, OthersCounts DEF AllCounts
<1>3. ASSUME NEW r \in Runs, Collect(r) \/ Return(r) \/ Crash(r) \/ StartFile(r)
      PROVE  AllCounts'
  <2>1. /\ StepOf(r, {}) /\ UNCHANGED <<backend, earlier, writer, total, counted, errors, missing>>
        /\ stage[r] # "idle" /\ stage'[r] # "idle"
    BY <1>3, QuietSteps DEF Collect, Return, Crash, StartFile, TypeOK
  <2>2. stage'[r] \notin {"nodes", "edges", "dead"} => stage[r] \notin {"nodes", "edges", "dead"}
    BY <1>3 DEF Collect, Return, Crash, StartFile, TypeOK
  <2>3. /\ Stored' = Stored /\ Cardinality({}) = 0 /\ r \notin Ended
        /\ total[r] \in Nat /\ counted[r] \in Nat
    BY <2>1, FS_EmptySet DEF Stored, StepOf, TypeOK
  <2>4. Counts(r)'
    BY <2>1, <2>2, <2>3, OwnCounts DEF AllCounts, Counts
  <2> QED BY <1>2, <2>1, <2>4
<1>4. ASSUME NEW r \in Runs, NEW X \in SUBSET (Nodes \cup Edges), StepOf(r, X), stage[r] # "idle",
             NextFile(r), UNCHANGED <<backend, earlier, total>>,
             errors' = [errors EXCEPT ![r] = @ \cup {File(r)}]
      PROVE  AllCounts'
  <2>1. /\ counted'[r] = 0 /\ stage'[r] = "file" /\ missing'[r] = {} /\ errors'[r] # {}
        /\ total'[r] = total[r] /\ total[r] \in Nat /\ counted[r] \in Nat
    BY <1>4 DEF NextFile, TypeOK
  <2>2. Cardinality(X) \in Nat
    BY CountIsNat
  <2>3. Counts(r)'
    BY <1>4, <2>1, <2>2, OwnCounts
  <2> QED BY <1>2, <1>4, <2>1, <2>3
<1>5. ASSUME NEW r \in Runs, FileFails(r) PROVE AllCounts'
  <2>1. StepOf(r, {}) /\ stage[r] # "idle"
    BY <1>5, QuietSteps DEF FileFails
  <2> QED BY <1>4, <1>5, <2>1 DEF FileFails
<1>6. ASSUME NEW r \in Runs, BatchDone(r) PROVE AllCounts'
  <2>1. /\ StepOf(r, {}) /\ UNCHANGED <<backend, earlier, writer, errors>>
        /\ stage[r] \in {"nodes", "edges"} /\ stage'[r] \in {"edges", "file"}
    BY <1>6, QuietSteps DEF BatchDone, NextFile, TypeOK
  <2>2. /\ Stored' = Stored /\ Cardinality({}) = 0 /\ r \notin Ended
        /\ total[r] \in Nat /\ counted[r] \in Nat
    BY <2>1, FS_EmptySet DEF Stored, StepOf, TypeOK
  <2>3. CASE stage[r] = "nodes"
    <3>1. UNCHANGED <<missing, counted, total>> /\ stage'[r] = "edges"
      BY <1>6, <2>3 DEF BatchDone, TypeOK
    <3>2. Counts(r)'
      BY <2>1, <2>2, <3>1, OwnCounts DEF AllCounts, Counts
    <3> QED BY <1>2, <2>1, <3>2
  <2>4. CASE stage[r] = "edges"
    <3>1. /\ missing'[r] = {} /\ counted'[r] = 0 /\ total'[r] = total[r] + counted[r]
      BY <1>6, <2>4 DEF BatchDone, NextFile, TypeOK
    <3>2. Counts(r)'
      BY <2>1, <2>2, <3>1, OwnCounts
    <3> QED BY <1>2, <2>1, <3>2
  <2> QED BY <2>1, <2>3, <2>4
<1>7. ASSUME NEW r \in Runs, Transact(r) PROVE AllCounts'
  <2>1. /\ StepOf(r, Created(r)) /\ UNCHANGED <<backend, earlier, total>> /\ backend = "neo4j"
        /\ stage[r] \in {"nodes", "edges"} /\ Created(r) \in SUBSET (Nodes \cup Edges)
    BY <1>7, TransactStep DEF Transact, Writing, Created, TypeOK
  <2>2. total[r] \in Nat /\ counted[r] \in Nat /\ Cardinality(Created(r)) \in Nat /\ missing[r] = {}
    BY <2>1, CountIsNat DEF TypeOK, MissingIsLeft
  <2>3. CASE /\ counted' = [counted EXCEPT ![r] = @ + Cardinality(Created(r))]
             /\ UNCHANGED <<stage, missing, errors>>
    <3>1. counted'[r] = counted[r] + Cardinality(Created(r))
      BY <2>3 DEF TypeOK
    <3>2. Counts(r)'
      BY <2>1, <2>2, <2>3, <3>1, OwnCounts
    <3> QED BY <1>2, <2>1, <2>3, <3>2
  <2>4. CASE NextFile(r) /\ errors' = [errors EXCEPT ![r] = @ \cup {File(r)}]
    BY <1>4, <2>1, <2>4
  <2> QED BY <1>7, <2>3, <2>4 DEF Transact, Created
<1>8. ASSUME NEW r \in Runs, NEW x \in Nodes \cup Edges, Check(r, x) PROVE AllCounts'
  <2>1. /\ StepOf(r, {}) /\ UNCHANGED <<backend, earlier, writer, errors, stage, counted, total>>
        /\ stage[r] \in {"nodes", "edges"}
    BY <1>8, QuietSteps DEF Check, Writing
  <2>2. /\ Stored' = Stored /\ Cardinality({}) = 0 /\ r \notin Ended
        /\ total[r] \in Nat /\ counted[r] \in Nat
    BY <2>1, FS_EmptySet DEF Stored, StepOf, TypeOK
  <2>3. missing'[r] \cap Stored = {}
    BY <1>8 DEF Check, TypeOK
  <2>4. Counts(r)'
    BY <2>1, <2>2, <2>3, OwnCounts
  <2> QED BY <1>2, <2>1, <2>4
<1>9. ASSUME NEW r \in Runs, NEW x \in Nodes \cup Edges, Create(r, x) PROVE AllCounts'
  <2>1. /\ StepOf(r, CreatedOne(x)) /\ UNCHANGED <<backend, earlier, errors, stage, total>>
        /\ stage[r] \in {"nodes", "edges"} /\ x \in missing[r] /\ missing'[r] = {}
    BY <1>9, CreateStep DEF Create, Writing, TypeOK
  <2>2. /\ CreatedOne(x) \in SUBSET (Nodes \cup Edges) /\ r \notin Ended
        /\ total[r] \in Nat /\ counted[r] \in Nat
    BY <2>1 DEF CreatedOne, StepOf, TypeOK
  <2>3. Exact(r) => x \notin Stored
    BY <2>1, <2>2 DEF AllCounts, Counts
  <2>4. /\ Exact(r) => counted'[r] = counted[r] + Cardinality(CreatedOne(x))
        /\ counted'[r] \in Nat
    <3>1. Cardinality({x}) = 1 /\ Cardinality({}) = 0
      BY FS_Singleton, FS_EmptySet
    <3>2. counted'[r] = IF Creatable(x) THEN counted[r] + 1 ELSE counted[r]
      BY <1>9 DEF Create, TypeOK
    <3>3. Exact(r) => CreatedOne(x) = IF Creatable(x) THEN {x} ELSE {}
      BY <2>3 DEF CreatedOne
    <3> QED BY <2>2, <3>1, <3>2, <3>3
  <2>5. Cardinality(CreatedOne(x)) \in Nat
    BY <2>2, CountIsNat
  <2>6. Counts(r)'
    BY <2>1, <2>2, <2>4, <2>5, OwnCounts
  <2> QED BY <1>2, <2>1, <2>2, <2>6
<1>10. CASE UNCHANGED vars
  <2>1. UNCHANGED <<backend, writer, stage, total, counted, missing, errors, earlier>>
    BY <1>10 DEF vars
  <2>2. ASSUME NEW r \in Runs PROVE Counts(r)'
    <3>1. Mine(r)' = Mine(r) /\ Stored' = Stored /\ Ended' = Ended /\ Exact(r)' = Exact(r)
      BY <2>1 DEF Mine, Stored, Ended, Exact, Overlap
    <3> QED BY <2>1, <3>1 DEF AllCounts, Counts
  <2> QED BY <2>2 DEF AllCounts
<1> QED BY <1>1, <1>3, <1>5, <1>6, <1>7, <1>8, <1>9, <1>10 DEF Next, Step

LEMMA InitCounts == Init => AllCounts
<1> SUFFICES ASSUME Init, NEW r \in Runs PROVE Counts(r)
  BY DEF AllCounts
<1>1. Mine(r) = {}
  BY NobodyAssumption DEF Init, Mine, Stored
<1>2. Cardinality(Mine(r)) = 0 /\ total[r] = 0 /\ counted[r] = 0 /\ missing[r] = {}
  BY <1>1, FS_EmptySet DEF Init
<1> QED BY <1>2 DEF Counts

(* "count only records that were actually created": on Neo4j, and on       *)
(* IndraDB when no other run overlaps, a run that returns has not counted  *)
(* more than it created, and has counted all of it when no file failed,    *)
(* whatever was rolled back, lost on the way or there before.              *)
THEOREM CountsAreCorrect == Spec => []CountsAreInserts
<1> DEFINE I == Inv /\ MissingIsLeft /\ History /\ AllCounts
<1>1. Init => I
  BY InitInv, InitMissing, InitHistory, InitCounts
<1>2. I /\ [Next]_vars => I'
  BY NextInv, NextMissing, NextHistory, NextCounts DEF Inv
<1>3. I => CountsAreInserts
  <2> SUFFICES ASSUME I, NEW r \in Runs, stage[r] = "done", Exact(r)
               PROVE  /\ total[r] <= Cardinality(Mine(r))
                      /\ errors[r] = {} => total[r] = Cardinality(Mine(r))
    BY DEF CountsAreInserts, Mine, Exact
  <2>1. total[r] \in Nat /\ counted[r] = 0
    BY DEF Inv, TypeOK, AllCounts, Counts
  <2> QED BY <2>1 DEF AllCounts, Counts
<1> QED BY <1>1, <1>2, <1>3, PTL DEF Spec
=============================================================================
