----------------------------- MODULE IngestCode -----------------------------
(***************************************************************************)
(* ingest_code: export a list of C++ files to a graph database             *)
(* (tools/ingest_code.py, export_file of graphdb/exporter.py, and the two  *)
(* drivers graphdb/neo4j_driver.py and graphdb/indradb_driver.py).         *)
(*                                                                         *)
(* A run is one call of the tool.  Runs of one server take turns on its    *)
(* worker (ClangSession), but two servers may ingest into one database, so *)
(* runs may overlap here.  The Neo4j driver writes a batch in one          *)
(* transaction; the IndraDB driver asks for each record and then creates   *)
(* it, in calls of their own.  What a file's extraction yields is given:   *)
(* a set of nodes and a set of edges, which may lead to nodes that only    *)
(* another file yields.  Labels, edge types and properties are left out:   *)
(* a node is its USR and an edge its ends.                                 *)
(***************************************************************************)
EXTENDS Integers, Sequences, FiniteSets

CONSTANTS
    Runs,       \* calls of ingest_code
    Files,      \* C++ files
    Nodes,      \* USRs
    NodesOf,    \* NodesOf[f]: the node records extracted from f
    EdgesOf,    \* EdgesOf[f]: the edge records, as pairs of USRs
    Inputs,     \* what a run is asked for: sequences of files
    Nobody      \* the writer of what is not in the database

Edges == Nodes \X Nodes

ASSUME ExtractionAssumption ==
    /\ NodesOf \in [Files -> SUBSET Nodes]
    /\ EdgesOf \in [Files -> SUBSET Edges]
    /\ \A f \in Files : \A e \in EdgesOf[f] : e[1] \in NodesOf[f]
ASSUME NodesAssumption == IsFiniteSet(Nodes)
ASSUME InputsAssumption ==
    /\ Inputs \subseteq Seq(Files)
    /\ \A s \in Inputs : \A i, j \in DOMAIN s : i # j => s[i] # s[j]
ASSUME NobodyAssumption == Nobody \notin Runs /\ Nodes \cap Edges = {}

VARIABLES
    backend,    \* "neo4j" or "indradb": the scheme of db_uri
    writer,     \* writer[x]: the run that created record x, or Nobody
    stage,      \* stage[r]: where run r is
    input,      \* input[r]: the files it was asked for
    todo,       \* todo[r]: those it has not finished, the current one first
    left,       \* left[r]: records of the current batch not yet written
    missing,    \* missing[r]: the record it found missing, in a set of one
    counted,    \* counted[r]: inserts of the current file
    total,      \* total[r]: nodes_written + edges_written
    processed,  \* processed[r]: files that succeeded
    errors,     \* errors[r]: files that did not
    linked,     \* linked[r]: whether its connection is open
    earlier     \* earlier[r]: runs that had ended when r began (history)

vars == <<backend, writer, stage, input, todo, left, missing, counted, total,
          processed, errors, linked, earlier>>
fileVars == <<left, missing, counted>>
tallies  == <<total, processed, errors>>

Stages == {"idle", "connected", "file", "nodes", "edges", "done", "raised", "dead"}
Ended  == {r \in Runs : stage[r] \in {"done", "raised", "dead"}}

Stored == {x \in Nodes \cup Edges : writer[x] # Nobody}

Init ==
    /\ backend \in {"neo4j", "indradb"}
    /\ writer = [x \in Nodes \cup Edges |-> Nobody]
    /\ stage = [r \in Runs |-> "idle"]
    /\ input = [r \in Runs |-> <<>>]
    /\ todo = [r \in Runs |-> <<>>]
    /\ left = [r \in Runs |-> {}] /\ missing = [r \in Runs |-> {}]
    /\ counted = [r \in Runs |-> 0] /\ total = [r \in Runs |-> 0]
    /\ processed = [r \in Runs |-> {}] /\ errors = [r \in Runs |-> {}]
    /\ linked = [r \in Runs |-> FALSE]
    /\ earlier = [r \in Runs |-> {}]

-----------------------------------------------------------------------------
(* The call before and after its loop over the files. *)

(* Arguments and paths have been validated; connect succeeds, or raises.   *)
Connect(r) ==
    /\ stage[r] = "idle"
    /\ \E i \in Inputs : input' = [input EXCEPT ![r] = i]
    /\ earlier' = [earlier EXCEPT ![r] = Ended]
    /\ \/ /\ stage' = [stage EXCEPT ![r] = "connected"]
          /\ linked' = [linked EXCEPT ![r] = TRUE]
       \/ /\ stage' = [stage EXCEPT ![r] = "raised"]
          /\ UNCHANGED linked
    /\ UNCHANGED <<backend, writer, todo, fileVars, tallies>>

(* collect_cpp_files; when the directory cannot be read its exception      *)
(* leaves the call, and the connection stays open.                         *)
Collect(r) ==
    /\ stage[r] = "connected"
    /\ \/ /\ stage' = [stage EXCEPT ![r] = "file"]
          /\ todo' = [todo EXCEPT ![r] = input[r]]
       \/ /\ stage' = [stage EXCEPT ![r] = "raised"]
          /\ UNCHANGED todo
    /\ UNCHANGED <<backend, writer, input, fileVars, tallies, linked, earlier>>

Return(r) ==
    /\ stage[r] = "file" /\ todo[r] = <<>>
    /\ linked' = [linked EXCEPT ![r] = FALSE]
    /\ stage' = [stage EXCEPT ![r] = "done"]
    /\ UNCHANGED <<backend, writer, input, todo, fileVars, tallies, earlier>>

(* The server is killed; its connections go with it. *)
Crash(r) ==
    /\ stage[r] \notin {"idle", "done", "raised", "dead"}
    /\ stage' = [stage EXCEPT ![r] = "dead"]
    /\ linked' = [linked EXCEPT ![r] = FALSE]
    /\ UNCHANGED <<backend, writer, input, todo, fileVars, tallies, earlier>>

-----------------------------------------------------------------------------
(* One file. *)

File(r) == Head(todo[r])

Within(f) == EdgesOf[f] \cap (NodesOf[f] \X NodesOf[f])

NextFile(r) ==
    /\ stage' = [stage EXCEPT ![r] = "file"]
    /\ todo' = [todo EXCEPT ![r] = Tail(@)]
    /\ left' = [left EXCEPT ![r] = {}]
    /\ missing' = [missing EXCEPT ![r] = {}]
    /\ counted' = [counted EXCEPT ![r] = 0]

(* Mutant of StartFile: the file itself is a record of the batch. *)
StartFileAsRecord(r) ==
    /\ stage[r] = "file" /\ todo[r] # <<>>
    /\ stage' = [stage EXCEPT ![r] = "nodes"]
    /\ left' = [left EXCEPT ![r] = NodesOf[File(r)] \cup {File(r)}]
    /\ UNCHANGED <<backend, writer, input, todo, missing, counted, tallies,
                   linked, earlier>>

(* Mutant of StartFile: a file of which all is stored but the edges to     *)
(* other files is not exported again.                                      *)
StartFileSkipsStored(r) ==
    /\ stage[r] = "file" /\ todo[r] # <<>>
    /\ IF NodesOf[File(r)] \cup Within(File(r)) \subseteq Stored
       THEN /\ processed' = [processed EXCEPT ![r] = @ \cup {File(r)}]
            /\ NextFile(r)
       ELSE /\ stage' = [stage EXCEPT ![r] = "nodes"]
            /\ left' = [left EXCEPT ![r] = NodesOf[File(r)]]
            /\ UNCHANGED <<todo, missing, counted, processed>>
    /\ UNCHANGED <<backend, writer, input, total, errors, linked, earlier>>

(* Flags, TU and extraction; then upsert_nodes gets its batch. *)
StartFile(r) ==
    /\ stage[r] = "file" /\ todo[r] # <<>>
    /\ stage' = [stage EXCEPT ![r] = "nodes"]
    /\ left' = [left EXCEPT ![r] = NodesOf[File(r)]]
    /\ UNCHANGED <<backend, writer, input, todo, missing, counted, tallies,
                   linked, earlier>>

(* Mutant of FileFails: the exception ends the loop. *)
FileFailsEndsLoop(r) ==
    /\ stage[r] \in {"file", "nodes", "edges"} /\ todo[r] # <<>>
    /\ errors' = [errors EXCEPT ![r] = @ \cup {File(r)}]
    /\ stage' = [stage EXCEPT ![r] = "file"]
    /\ todo' = [todo EXCEPT ![r] = <<>>]
    /\ left' = [left EXCEPT ![r] = {}]
    /\ missing' = [missing EXCEPT ![r] = {}]
    /\ counted' = [counted EXCEPT ![r] = 0]
    /\ UNCHANGED <<backend, writer, input, total, processed, linked, earlier>>

(* Mutant of FileFails: what the run wrote is taken back. *)
FileFailsUndoes(r) ==
    /\ stage[r] \in {"file", "nodes", "edges"} /\ todo[r] # <<>>
    /\ errors' = [errors EXCEPT ![r] = @ \cup {File(r)}]
    /\ writer' = [x \in Nodes \cup Edges |-> IF writer[x] = r THEN Nobody ELSE writer[x]]
    /\ NextFile(r)
    /\ UNCHANGED <<backend, input, total, processed, linked, earlier>>

(* Whatever raises: the file is listed in errors, what was counted for it  *)
(* is not added to the totals, and the loop goes on.                       *)
FileFails(r) ==
    /\ stage[r] \in {"file", "nodes", "edges"} /\ todo[r] # <<>>
    /\ errors' = [errors EXCEPT ![r] = @ \cup {File(r)}]
    /\ NextFile(r)
    /\ UNCHANGED <<backend, writer, input, total, processed, linked, earlier>>

(* Mutant of BatchDone: the file is done while edges are left. *)
BatchDoneEarly(r) ==
    /\ stage[r] = "nodes" => left[r] = {}
    /\ \/ /\ stage[r] = "nodes"
          /\ stage' = [stage EXCEPT ![r] = "edges"]
          /\ left' = [left EXCEPT ![r] = EdgesOf[File(r)]]
          /\ UNCHANGED <<todo, missing, counted, tallies>>
       \/ /\ stage[r] = "edges"
          /\ total' = [total EXCEPT ![r] = @ + counted[r]]
          /\ processed' = [processed EXCEPT ![r] = @ \cup {File(r)}]
          /\ NextFile(r)
          /\ UNCHANGED errors
    /\ UNCHANGED <<backend, writer, input, linked, earlier>>

(* upsert_nodes has returned and upsert_edges gets its batch; or           *)
(* upsert_edges has, and the file's counts are added to the totals.        *)
BatchDone(r) ==
    /\ left[r] = {}
    /\ \/ /\ stage[r] = "nodes"
          /\ stage' = [stage EXCEPT ![r] = "edges"]
          /\ left' = [left EXCEPT ![r] = EdgesOf[File(r)]]
          /\ UNCHANGED <<todo, missing, counted, tallies>>
       \/ /\ stage[r] = "edges"
          /\ total' = [total EXCEPT ![r] = @ + counted[r]]
          /\ processed' = [processed EXCEPT ![r] = @ \cup {File(r)}]
          /\ NextFile(r)
          /\ UNCHANGED errors
    /\ UNCHANGED <<backend, writer, input, linked, earlier>>

-----------------------------------------------------------------------------
(* The databases.  Both refuse an edge one of whose ends is not there, and *)
(* neither reports it: MATCH finds no row, create_edge does nothing.       *)

Writing(r) == stage[r] \in {"nodes", "edges"} /\ left[r] # {}

Creatable(x) == x \in Nodes \/ (x[1] \in Stored /\ x[2] \in Stored)

Write(r, X) == writer' = [x \in Nodes \cup Edges |-> IF x \in X THEN r ELSE writer[x]]

(* Mutant of Transact: CREATE instead of MERGE. *)
TransactCreates(r) ==
    /\ backend = "neo4j" /\ Writing(r)
    /\ LET created == {x \in left[r] : Creatable(x)} IN
       /\ Write(r, created)
       /\ counted' = [counted EXCEPT ![r] = @ + Cardinality(created)]
       /\ left' = [left EXCEPT ![r] = {}]
    /\ UNCHANGED <<backend, stage, input, todo, missing, tallies, linked, earlier>>

(* Neo4jDriver: the whole batch in one execute_write.  It commits; or it   *)
(* commits and the answer is lost, which raises.  (A transaction that is   *)
(* rolled back is FileFails.)                                              *)
Transact(r) ==
    /\ backend = "neo4j" /\ Writing(r)
    /\ LET created == {x \in left[r] : Creatable(x)} \ Stored IN
       /\ Write(r, created)
       /\ \/ /\ counted' = [counted EXCEPT ![r] = @ + Cardinality(created)]
             /\ left' = [left EXCEPT ![r] = {}]
             /\ UNCHANGED <<stage, todo, missing, errors>>
          \/ /\ errors' = [errors EXCEPT ![r] = @ \cup {File(r)}]
             /\ NextFile(r)
    /\ UNCHANGED <<backend, input, total, processed, linked, earlier>>

(* IndraDBDriver, one record x: client.get finds it, or not. *)
Check(r, x) ==
    /\ backend = "indradb" /\ Writing(r) /\ missing[r] = {}
    /\ x \in left[r]
    /\ IF x \in Stored
       THEN left' = [left EXCEPT ![r] = @ \ {x}] /\ UNCHANGED missing
       ELSE missing' = [missing EXCEPT ![r] = {x}] /\ UNCHANGED left
    /\ UNCHANGED <<backend, writer, stage, input, todo, counted, tallies,
                   linked, earlier>>

(* Mutant of Create: an edge too is counted unseen. *)
CreateCountsAll(r, x) ==
    /\ backend = "indradb" /\ Writing(r) /\ x \in missing[r]
    /\ Write(r, IF Creatable(x) THEN {x} \ Stored ELSE {})
    /\ counted' = [counted EXCEPT ![r] = @ + 1]
    /\ left' = [left EXCEPT ![r] = @ \ {x}]
    /\ missing' = [missing EXCEPT ![r] = {}]
    /\ UNCHANGED <<backend, stage, input, todo, tallies, linked, earlier>>

(* Then create it.  A vertex is counted without looking at what            *)
(* create_vertex says; an edge if it is there afterwards.                  *)
Create(r, x) ==
    /\ backend = "indradb" /\ Writing(r) /\ x \in missing[r]
    /\ Write(r, IF Creatable(x) THEN {x} \ Stored ELSE {})
    /\ counted' = IF Creatable(x) THEN [counted EXCEPT ![r] = @ + 1] ELSE counted
    /\ left' = [left EXCEPT ![r] = @ \ {x}]
    /\ missing' = [missing EXCEPT ![r] = {}]
    /\ UNCHANGED <<backend, stage, input, todo, tallies, linked, earlier>>

Step(r) ==
    \/ Connect(r) \/ Collect(r) \/ Return(r) \/ Crash(r)
    \/ StartFile(r) \/ FileFails(r) \/ BatchDone(r) \/ Transact(r)
    \/ \E x \in Nodes \cup Edges : Check(r, x) \/ Create(r, x)

Next == \E r \in Runs : Step(r)

Spec == Init /\ [][Next]_vars

-----------------------------------------------------------------------------
TypeOK ==
    /\ backend \in {"neo4j", "indradb"}
    /\ writer \in [Nodes \cup Edges -> Runs \cup {Nobody}]
    /\ stage \in [Runs -> Stages]
    /\ input \in [Runs -> Seq(Files)]
    /\ todo \in [Runs -> Seq(Files)]
    /\ left \in [Runs -> SUBSET (Nodes \cup Edges)]
    /\ missing \in [Runs -> SUBSET (Nodes \cup Edges)]
    /\ counted \in [Runs -> Nat] /\ total \in [Runs -> Nat]
    /\ processed \in [Runs -> SUBSET Files] /\ errors \in [Runs -> SUBSET Files]
    /\ linked \in [Runs -> BOOLEAN]
    /\ earlier \in [Runs -> SUBSET Runs]

(* A file reported as processed is in the database: all of its nodes and   *)
(* every edge between them, whatever failed, crashed or ran at the same    *)
(* time.  It rests on nodes being written before edges.                    *)
ProcessedIsStored ==
    \A r \in Runs : \A f \in processed[r] : NodesOf[f] \cup Within(f) \subseteq Stored

(* The database is a graph to which runs only add what files yield, an     *)
(* edge never before its ends, and no run reports a file before it is all  *)
(* there (SymbolGraph), in one transaction per batch or a call per record. *)
Graph == INSTANCE SymbolGraph WITH graph <- Stored, reported <- processed
GrowsAsPromised == Graph!Spec

(* A run that returns has accounted for every file it was asked for, as    *)
(* processed or as an error, and has closed its connection.                *)
EveryFileAccounted ==
    \A r \in Runs : stage[r] = "done" =>
        /\ processed[r] \cup errors[r] = {input[r][i] : i \in DOMAIN input[r]}
        /\ processed[r] \cap errors[r] = {}
        /\ ~ linked[r]

Overlap(r) == \E q \in Runs \ {r} :
    stage[q] # "idle" /\ q \notin earlier[r] /\ r \notin earlier[q]

(* nodes_written and edges_written "count only records that were actually  *)
(* created" (ingest_code.py, lines 67-68): never more than the run         *)
(* created, and all of it when no file failed.  On IndraDB only as long as *)
(* no other server writes between a check and its create.                  *)
CountsAreInserts ==
    \A r \in Runs :
        LET mine == Cardinality({x \in Stored : writer[x] = r}) IN
        stage[r] = "done" /\ (backend = "neo4j" \/ ~ Overlap(r)) =>
            /\ total[r] <= mine
            /\ errors[r] = {} => total[r] = mine

(* q repeats r: it was asked for the same files after r had exported them  *)
(* all, and has done so too.                                               *)
Repeats(q, r) ==
    /\ stage[q] = "done" /\ r \in earlier[q] /\ input[q] = input[r]
    /\ stage[r] = "done" /\ errors[r] = {}

(* What a repeat adds is never a node, and of the edges only those that     *)
(* lead from a file to a node no file up to it has: the first run came     *)
(* upon them before their end existed, and neither database said so.       *)
UpTo(r, i) == UNION {NodesOf[input[r][j]] : j \in 1..i}
RepeatAddsOnlyForwardEdges ==
    \A q, r \in Runs : Repeats(q, r) =>
        \A x \in Stored : writer[x] = q =>
            \E i \in DOMAIN input[q] :
                x \in EdgesOf[input[q][i]] /\ x[2] \notin UpTo(q, i)

(* Ingesting again completes the graph: in a file that q reports as        *)
(* processed no edge is missing that leads to a node of a file which a run *)
(* before q had processed, however that run ended, with errors in other    *)
(* files, with an exception or in a crash.  (The edges that were dropped   *)
(* because their end came later are the ones it is about.)                 *)
KnownTo(q)  == UNION {processed[r] : r \in earlier[q]}
Links(f, g) == {e \in EdgesOf[f] : e[2] \in NodesOf[g]}
LinksToKnownFiles ==
    \A q \in Runs : \A f \in processed[q] : \A g \in KnownTo(q) : Links(f, g) \subseteq Stored

(* "Each file's nodes + edges are written in a single execute_write        *)
(* transaction, satisfying the per-file atomicity requirement"             *)
(* (neo4j_driver.py, lines 11-12): a file that failed left all of its      *)
(* records or none that it is alone in having.                             *)
FileIsAtomic ==
    backend = "neo4j" =>
        \A r \in Runs : \A f \in errors[r] :
            \/ NodesOf[f] \cup Within(f) \subseteq Stored
            \/ \A x \in NodesOf[f] \cup Within(f) : writer[x] # r
=============================================================================
