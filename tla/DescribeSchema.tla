--------------------------- MODULE DescribeSchema ---------------------------
(***************************************************************************)
(* describe_graph_schema against a graph that servers may be writing to    *)
(* (tools/describe_graph_schema.py, the introspectors of                   *)
(* graphdb/schema_introspector.py).                                        *)
(*                                                                         *)
(* A call connects, hands describe() to a thread pool of its own, waits a  *)
(* limited time, leaves the pool's `with` block and closes the connection. *)
(* On IndraDB describe() lists the vertices, then the edges, then reads    *)
(* the properties of each, where upsert_nodes creates a vertex and sets    *)
(* its properties one by one.  On Neo4j it lists the labels and counts the *)
(* nodes of each, then the same of the edges, and reads no version.  Of    *)
(* the graph only the File vertices and the INCLUDES edges between them    *)
(* are kept, and of properties only how far schema_version has come; the   *)
(* keys that describe() samples are not.                                   *)
(***************************************************************************)
EXTENDS Integers, FiniteSets

CONSTANTS Calls,    \* calls of describe_graph_schema
          Files,    \* File vertices
          Includes  \* INCLUDES edges, pairs of File vertices

ASSUME IncludesAssumption == Includes \subseteq Files \X Files

VARIABLES
    backend,    \* the database that the db_uri names
    vertex,     \* vertex[f]: what the database has of File vertex f
    edge,       \* the edges it has
    stage,      \* stage[c]: where the caller's thread is
    worker,     \* worker[c]: where its pool's thread is
    linked,     \* linked[c]: its introspector is connected
    seen,       \* seen[c]: the File vertices describe() counted
    tallied,    \* tallied[c]: the edges it counted
    unread,     \* unread[c]: those whose properties it has yet to read
    observed,   \* observed[c]: the versions it found, "null" for none
    answer,     \* answer[c]: what the caller gets, or will get
    began       \* began[c]: vertex and edge, when the call began (history)

graphVars == <<backend, vertex, edge>>
workerVars == <<worker, seen, tallied, unread, observed>>
callVars == <<stage, linked, answer, began>>
vars == <<graphVars, workerVars, callVars>>

(* A vertex that was made by this version's ingest_code goes from "absent" *)
(* to "bare" (no property), "path" (the first ones) and "current"; "pre"   *)
(* was made by a writer that had no schema_version, "old" by one that had  *)
(* another.                                                                *)
VertexStates == {"absent", "bare", "path", "current", "pre", "old"}
Versions == {"null", "old", "current"}
Notes    == {"no note", "pre-v6", "mismatch"}
Errors   == {"DB_UNREACHABLE", "QUERY_TIMEOUT", "INTERNAL_ERROR"}

Present == {f \in Files : vertex[f] # "absent"}
Between(vertices) == {e \in Includes : e[1] \in vertices /\ e[2] \in vertices}
Graph == [vertex |-> vertex, edge |-> edge]

Init ==
    /\ backend \in {"indradb", "neo4j"}
    /\ vertex \in [Files -> {"absent", "pre", "old", "current"}]
    /\ edge \in SUBSET Between(Present)
    /\ stage = [c \in Calls |-> "idle"]
    /\ worker = [c \in Calls |-> "none"]
    /\ linked = [c \in Calls |-> FALSE]
    /\ seen = [c \in Calls |-> {}] /\ tallied = [c \in Calls |-> {}]
    /\ unread = [c \in Calls |-> {}] /\ observed = [c \in Calls |-> {}]
    /\ answer = [c \in Calls |-> "none"]
    /\ began = [c \in Calls |-> Graph]

-----------------------------------------------------------------------------
(* upsert_nodes on a File record: on IndraDB create_vertex if it is not    *)
(* there, then set_properties for path, spelling, schema_version and usr   *)
(* in turn; it may stop at any point.  On Neo4j a transaction.             *)

Upsert(f) ==
    /\ vertex[f] # "current"
    /\ vertex' = [vertex EXCEPT ![f] =
          CASE backend = "neo4j" -> "current"
            [] backend = "indradb" /\ @ = "absent" -> "bare"
            [] backend = "indradb" /\ @ = "bare"   -> "path"
            [] OTHER -> "current"]
    /\ UNCHANGED <<backend, edge, callVars, workerVars>>

(* upsert_edges on an INCLUDES record: an edge without its ends is dropped. *)
UpsertEdge(e) ==
    /\ e \in Between(Present) \ edge
    /\ edge' = edge \cup {e}
    /\ UNCHANGED <<backend, vertex, callVars, workerVars>>

-----------------------------------------------------------------------------
(* The caller. *)

Connect(c) ==
    /\ stage[c] = "idle"
    /\ began' = [began EXCEPT ![c] = Graph]
    /\ \/ /\ stage' = [stage EXCEPT ![c] = "waiting"]
          /\ worker' = [worker EXCEPT ![c] = "vertices"]
          /\ linked' = [linked EXCEPT ![c] = TRUE]
          /\ UNCHANGED answer
       \/ /\ stage' = [stage EXCEPT ![c] = "answered"]
          /\ answer' = [answer EXCEPT ![c] = "DB_UNREACHABLE"]
          /\ UNCHANGED <<worker, linked>>
    /\ UNCHANGED <<graphVars, seen, tallied, unread, observed>>

(* Where describe() waits for an answer of the database. *)
Requests == {"vertices", "label", "edges", "type", "properties"}
Running(c) == worker[c] \in Requests

(* Mutant of Note: one unstamped file is enough. *)
NoteIfAnyNull(versions) ==
    CASE "null" \in versions -> "pre-v6"
      [] "old" \in versions -> "mismatch"
      [] OTHER -> "no note"

(* _build_notes. *)
Note(versions) ==
    CASE versions = {"null"} -> "pre-v6"
      [] "old" \in versions -> "mismatch"
      [] OTHER -> "no note"

(* result(timeout=...) returns, or raises what describe() raised. *)
Result(c) ==
    /\ stage[c] = "waiting" /\ ~ Running(c)
    /\ stage' = [stage EXCEPT ![c] = "leaving"]
    /\ answer' = [answer EXCEPT ![c] = IF worker[c] = "failed" THEN "INTERNAL_ERROR"
                                       ELSE Note(observed[c])]
    /\ UNCHANGED <<graphVars, workerVars, linked, began>>

(* It gives up: QueryTimeoutError is on its way out of the `with` block.   *)
Timeout(c) ==
    /\ stage[c] = "waiting" /\ Running(c)
    /\ stage' = [stage EXCEPT ![c] = "leaving"]
    /\ answer' = [answer EXCEPT ![c] = "QUERY_TIMEOUT"]
    /\ UNCHANGED <<graphVars, workerVars, linked, began>>

(* Mutants of LeavePool: shutdown(wait=False); only a result releases it. *)
LeavePoolAtOnce(c) ==
    /\ stage[c] = "leaving"
    /\ stage' = [stage EXCEPT ![c] = "closing"]
    /\ UNCHANGED <<graphVars, workerVars, linked, answer, began>>

LeavePoolOnResult(c) ==
    /\ stage[c] = "leaving" /\ worker[c] = "returned"
    /\ stage' = [stage EXCEPT ![c] = "closing"]
    /\ UNCHANGED <<graphVars, workerVars, linked, answer, began>>

(* The executor's __exit__ is shutdown(wait=True). *)
LeavePool(c) ==
    /\ stage[c] = "leaving" /\ ~ Running(c)
    /\ stage' = [stage EXCEPT ![c] = "closing"]
    /\ UNCHANGED <<graphVars, workerVars, linked, answer, began>>

Close(c) ==
    /\ stage[c] = "closing"
    /\ linked' = [linked EXCEPT ![c] = FALSE]
    /\ stage' = [stage EXCEPT ![c] = "answered"]
    /\ UNCHANGED <<graphVars, workerVars, answer, began>>

-----------------------------------------------------------------------------
(* The pool's thread.  Every step is an answer of the database. *)

Resume(c, at) == worker' = [worker EXCEPT ![c] = at]

(* Mutant of ReadVertices: a vertex with no property is passed over. *)
ReadVerticesWithProperties(c) ==
    /\ backend = "indradb" /\ worker[c] = "vertices"
    /\ LET found == {f \in Present : vertex[f] # "bare"} IN
       /\ seen' = [seen EXCEPT ![c] = found]
       /\ unread' = [unread EXCEPT ![c] = found]
    /\ Resume(c, "edges")
    /\ UNCHANGED <<graphVars, callVars, tallied, observed>>

(* AllVertexQuery, then AllEdgeQuery. *)
ReadVertices(c) ==
    /\ backend = "indradb" /\ worker[c] = "vertices"
    /\ seen' = [seen EXCEPT ![c] = Present]
    /\ unread' = [unread EXCEPT ![c] = Present]
    /\ Resume(c, "edges")
    /\ UNCHANGED <<graphVars, callVars, tallied, observed>>

ReadEdges(c) ==
    /\ backend = "indradb" /\ worker[c] = "edges"
    /\ tallied' = [tallied EXCEPT ![c] = edge]
    /\ Resume(c, "properties")
    /\ UNCHANGED <<graphVars, callVars, seen, unread, observed>>

VersionsIn(state) ==
    CASE state = "bare" -> {}
      [] state \in {"path", "pre"} -> {"null"}
      [] OTHER -> {state}

ReadProperties(c, f) ==
    /\ worker[c] = "properties" /\ f \in unread[c]
    /\ observed' = [observed EXCEPT ![c] = @ \cup VersionsIn(vertex[f])]
    /\ unread' = [unread EXCEPT ![c] = @ \ {f}]
    /\ UNCHANGED <<graphVars, callVars, worker, seen, tallied>>

(* db.labels(): a label that no node has may be listed or not. *)
ListLabels(c) ==
    /\ backend = "neo4j" /\ worker[c] = "vertices"
    /\ Resume(c, "label") \/ (Present = {} /\ Resume(c, "edges"))
    /\ UNCHANGED <<graphVars, callVars, seen, tallied, unread, observed>>

CountNodes(c) ==
    /\ worker[c] = "label"
    /\ seen' = [seen EXCEPT ![c] = Present]
    /\ Resume(c, "edges")
    /\ UNCHANGED <<graphVars, callVars, tallied, unread, observed>>

(* db.relationshipTypes(), likewise; the notes read nothing. *)
ListTypes(c) ==
    /\ backend = "neo4j" /\ worker[c] = "edges"
    /\ Resume(c, "type") \/ (edge = {} /\ Resume(c, "returned"))
    /\ UNCHANGED <<graphVars, callVars, seen, tallied, unread, observed>>

CountEdges(c) ==
    /\ worker[c] = "type"
    /\ tallied' = [tallied EXCEPT ![c] = edge]
    /\ Resume(c, "returned")
    /\ UNCHANGED <<graphVars, callVars, seen, unread, observed>>

DescribeReturns(c) ==
    /\ worker[c] = "properties" /\ unread[c] = {}
    /\ Resume(c, "returned")
    /\ UNCHANGED <<graphVars, callVars, seen, tallied, unread, observed>>

DescribeRaises(c) ==
    /\ Running(c)
    /\ Resume(c, "failed")
    /\ UNCHANGED <<graphVars, callVars, seen, tallied, unread, observed>>

Caller(c) == Result(c) \/ Timeout(c) \/ LeavePool(c) \/ Close(c)
Describe(c) ==
    \/ ReadVertices(c) \/ ReadEdges(c) \/ \E f \in Files : ReadProperties(c, f)
    \/ ListLabels(c) \/ CountNodes(c) \/ ListTypes(c) \/ CountEdges(c)
    \/ DescribeReturns(c) \/ DescribeRaises(c)

Next ==
    \/ \E f \in Files : Upsert(f)
    \/ \E e \in Includes : UpsertEdge(e)
    \/ \E c \in Calls : Connect(c) \/ Caller(c) \/ Describe(c)

Spec == Init /\ [][Next]_vars

(* The caller's thread is scheduled and its timer fires.  Nothing makes    *)
(* the database answer: the gRPC client is used without a deadline.        *)
Fairness == \A c \in Calls : WF_vars(Caller(c))
FairSpec == Spec /\ Fairness

BackendAnswers == \A c \in Calls : WF_vars(Describe(c))

-----------------------------------------------------------------------------
(* A call that timed out leaves nothing behind: its connection is never    *)
(* closed under a describe() that is still using it, and when its caller   *)
(* has the answer the pool's thread has ended and the connection is closed.*)
NothingLeftBehind ==
    \A c \in Calls :
        /\ Running(c) => linked[c] /\ stage[c] \in {"waiting", "leaving"}
        /\ stage[c] = "answered" => ~ linked[c]

Succeeded(c) == stage[c] = "answered" /\ answer[c] \in Notes

(* "No caching - every call is fresh" (describe_graph_schema.py, line      *)
(* 126): the counts have every vertex and edge that was there when the     *)
(* call began, and none that is not there.                                 *)
CountsAreFresh ==
    \A c \in Calls : Succeeded(c) =>
        /\ {f \in Files : began[c].vertex[f] # "absent"} \subseteq seen[c]
        /\ began[c].edge \subseteq tallied[c]
        /\ seen[c] \subseteq Present /\ tallied[c] \subseteq edge

(* "Re-run ingest_code to re-stamp": a call on a graph whose files have    *)
(* all been stamped with this version brings no version note, even while   *)
(* an ingest is half-way through more files.                               *)
StampedGivesNoNote ==
    \A c \in Calls :
        LET at(f) == began[c].vertex[f] IN
        /\ Succeeded(c)
        /\ \A f \in Files : at(f) \in {"absent", "current"}
        /\ \E f \in Files : at(f) = "current"
        => answer[c] = "no note"

(* If the database answers each request, every call is answered. *)
EveryCallAnswered ==
    BackendAnswers => \A c \in Calls : stage[c] = "waiting" ~> stage[c] = "answered"

(* "QUERY_TIMEOUT - introspector.describe exceeds resolved timeout"        *)
(* (describe_graph_schema.py, line 11): a caller whose time is up is       *)
(* answered.                                                               *)
TimeoutAnswers ==
    \A c \in Calls : stage[c] = "leaving" /\ answer[c] = "QUERY_TIMEOUT"
                        ~> stage[c] = "answered"
=============================================================================
