----------------------------- MODULE GraphQuery -----------------------------
(***************************************************************************)
(* query_graphdb on a graph to which another server's ingest_code is       *)
(* writing (graphdb/indradb_query_executor.py, neo4j_query_executor.py).   *)
(*                                                                         *)
(* The IndraDB client has no query that returns items with their           *)
(* properties, and its filters do not work, so one query is two or three   *)
(* requests: list the items, for pipe the vertices at the other ends, then *)
(* properties.  On Neo4j it is EXPLAIN, whose plan is walked for writing   *)
(* operators, and then the query.  Each request sees the graph of a moment *)
(* of its own.                                                             *)
(*                                                                         *)
(* Items are vertices and edges; of the properties one is kept, whose      *)
(* value goes from "old" to "new" when an item is upserted again.  A       *)
(* query is the JSON object, "verb" and its arguments, or "cypher" for all *)
(* vertices, with the operators of its plan, the root first: their names,  *)
(* by what the code makes of them, and whether they write, which is        *)
(* Neo4j's and need not agree.                                             *)
(***************************************************************************)
EXTENDS Integers, FiniteSets, FiniteSetsExt

CONSTANTS
    Vertices,
    TypeOf,     \* TypeOf[v]: the type of vertex v
    Edges,      \* edges that may be stored
    Queries     \* what a caller may ask, each with its row_limit

Types == {"File", "Function", "CALLS", "REFERENCES"}
Items == Vertices \cup Edges

ASSUME GraphAssumption ==
    /\ Edges \subseteq [out: Vertices, t: Types, in: Vertices]
    /\ TypeOf \in [Vertices -> Types]
    /\ IsFiniteSet(Vertices) /\ IsFiniteSet(Edges)
    /\ Vertices \cap (Edges \cup Vertices \X Types \X Vertices) = {}
ASSUME QueriesAssumption == \A q \in Queries : q.row_limit \in Nat \ {0}

VARIABLES
    stored,     \* stored[i]: what the database has of item i
    query,
    stage,      \* the executor's next request
    items,      \* what the first request listed, cut to the limit
    shown,      \* shown[i]: the item that the row for i is about
    total,      \* _last_total
    rows,       \* the rows: a value for each item
    answer,     \* "rows" or the error
    began,      \* stored, when the query began (history)
    always,     \* items that have matched ever since (history)
    ever        \* items that have matched at some time since (history)

vars == <<stored, query, stage, items, shown, total, rows, answer, began, always, ever>>
history == <<began, always, ever>>

States == {"absent", "bare", "old", "new"}
Errors == {"DB_UNREACHABLE", "QUERY_PARSE_ERROR", "QUERY_UNSUPPORTED", "QUERY_TIMEOUT",
           "READ_ONLY_VIOLATION", "INTERNAL_ERROR"}

VertexVerbs == {"all_vertices", "vertex_with_type", "vertex_with_property_equal"}
EdgeVerbs   == {"all_edges", "edge_with_type", "edge_with_property_equal"}
Allowed == VertexVerbs \cup EdgeVerbs \cup {"pipe"}

ByType  == {"vertex_with_type", "edge_with_type"}
ByValue == {"vertex_with_property_equal", "edge_with_property_equal"}

Init ==
    /\ stored \in [Items -> States]
    /\ \A e \in Edges : stored[e] # "absent" => "absent" \notin {stored[e.out], stored[e.in]}
    /\ query \in Queries
    /\ stage = "connect"
    /\ items = {} /\ shown = [i \in {} |-> i] /\ total = 0
    /\ rows = [i \in {} |-> "bare"]
    /\ answer = "none"
    /\ began = stored /\ always = {} /\ ever = {}

-----------------------------------------------------------------------------
(* The items that satisfy a query in graph g, by the meaning of its verb:  *)
(* for pipe the edges followed.  A property that is not there is null.     *)
Answers(g) ==
    LET there == {i \in Items : g[i] # "absent"} IN
    CASE query.verb \in {"all_vertices", "cypher"} -> there \cap Vertices
      [] query.verb = "all_edges"        -> there \cap Edges
      [] query.verb = "vertex_with_type" -> {v \in there \cap Vertices : TypeOf[v] = query.t}
      [] query.verb = "edge_with_type"   -> {e \in there \cap Edges : e.t = query.t}
      [] query.verb = "vertex_with_property_equal" -> {v \in there \cap Vertices : g[v] = query.value}
      [] query.verb = "edge_with_property_equal"   -> {e \in there \cap Edges : g[e] = query.value}
      [] query.verb = "pipe" ->
            {e \in there \cap Edges :
                /\ query.vertex = IF query.direction = "outbound" THEN e.out ELSE e.in
                /\ query.t \in {"any", e.t}}
      [] OTHER -> {}

(* The other server: create_vertex or create_edge, then set_properties.    *)
(* What it does before and after the query is in Init, and of no interest. *)
Upsert(i) ==
    /\ stage \notin {"connect", "closed"}
    /\ stored[i] # "new"
    /\ i \in Edges => "absent" \notin {stored[i.out], stored[i.in]}
    /\ stored' = [stored EXCEPT ![i] = IF @ = "absent" THEN "bare" ELSE "new"]
    /\ always' = always \cap Answers(stored')
    /\ ever' = ever \cup Answers(stored')
    /\ UNCHANGED <<query, stage, items, shown, total, rows, answer, began>>

-----------------------------------------------------------------------------
End(result) ==
    /\ stage' = "closed"
    /\ answer' = result

Connect ==
    /\ stage = "connect"
    /\ began' = stored /\ always' = Answers(stored) /\ ever' = Answers(stored)
    /\ \/ stage' = (IF query.verb = "cypher" THEN "explain" ELSE "list") /\ UNCHANGED answer
       \/ End("DB_UNREACHABLE")
    /\ UNCHANGED <<stored, query, items, shown, total, rows>>

Malformed == query.verb = "malformed"

(* What is not JSON or has wrong arguments, and verbs that are not allowed.*)
Reject ==
    /\ stage = "list" /\ query.verb \notin Allowed
    /\ End(IF Malformed THEN "QUERY_PARSE_ERROR" ELSE "QUERY_UNSUPPORTED")
    /\ UNCHANGED <<stored, query, items, shown, total, rows, history>>

There(S) == {i \in S : stored[i] # "absent"}

(* svq.outbound() or svq.inbound(), and their t(). *)
Followed ==
    {e \in There(Edges) :
        /\ query.vertex = IF query.direction = "outbound" THEN e.out ELSE e.in
        /\ query.t # "any" => e.t = query.t}

(* The first request, and the filter on what it returns. *)
Raw ==
    CASE query.verb \in ByType /\ query.verb \in VertexVerbs ->
            {v \in There(Vertices) : TypeOf[v] = query.t}
      [] query.verb \in ByType /\ query.verb \in EdgeVerbs -> {e \in There(Edges) : e.t = query.t}
      [] query.verb = "pipe" -> Followed
      [] query.verb \in VertexVerbs \ ByType -> There(Vertices)
      [] query.verb \in EdgeVerbs \ ByType   -> There(Edges)

(* raw[:row_limit], in whatever order the database returned them. *)
Cut(raw) == IF Cardinality(raw) <= query.row_limit THEN {raw} ELSE kSubset(query.row_limit, raw)

(* Mutant of CutsFirst: the limit is applied to what is listed. *)
CutsAlways == TRUE
CutsFirst == query.verb \notin ByValue

Other(e) == IF query.direction = "outbound" THEN e.in ELSE e.out

List ==
    /\ stage = "list" /\ query.verb \in Allowed
    /\ \E s \in IF CutsFirst THEN Cut(Raw) ELSE {Raw} :
          /\ items' = s
          /\ shown' = [i \in s |-> IF query.verb = "pipe" THEN Other(i) ELSE i]
          /\ IF s = {} /\ query.verb \notin ByValue \cup {"all_vertices", "all_edges"}
             THEN End("rows")
             ELSE /\ stage' = IF query.verb = "pipe" THEN "neighbours" ELSE "properties"
                  /\ UNCHANGED answer
    /\ total' = Cardinality(Raw)
    /\ UNCHANGED <<stored, query, rows, history>>

(* pipe's second request: the vertices at the other ends. *)
Neighbours ==
    /\ stage = "neighbours"
    /\ items' = {i \in items : shown[i] \in There(Vertices)}
    /\ IF items' = {} THEN End("rows") ELSE stage' = "properties" /\ UNCHANGED answer
    /\ UNCHANGED <<stored, query, shown, total, rows, history>>

Key(i) == IF i \in Edges THEN <<i.out, i.t, i.in>> ELSE i

(* The last request's properties, by key: none for an item it lacks.       *)
Fetched(i) == stored[CHOOSE j \in Items : Key(j) = Key(i)]

Selected ==
    IF query.verb \in ByValue THEN {i \in items : Fetched(i) = query.value} ELSE items

Properties ==
    /\ stage = "properties"
    /\ \E s \in Cut(Selected) : rows' = [i \in s |-> Fetched(shown[i])]
    /\ total' = IF query.verb \in ByValue THEN Cardinality(Selected) ELSE total
    /\ End("rows")
    /\ UNCHANGED <<stored, query, items, shown, history>>

(* An operator's name is "listed" if it begins with one of                 *)
(* WRITE_OPERATOR_PREFIXES, "procedure" if it is ProcedureCall, of a       *)
(* procedure that is not in READ_ONLY_PROCEDURES, and else "other".        *)
Refused == {"listed", "procedure"}

(* Mutant of Permitted: only the plan's root is looked at. *)
PermittedAtRoot == query.plan[1].name \notin Refused

(* _walk_plan: every name it does not know passes. *)
Permitted == \A i \in DOMAIN query.plan : query.plan[i].name \notin Refused

Explain ==
    /\ stage = "explain"
    /\ \/ Permitted /\ stage' = "run" /\ UNCHANGED answer
       \/ ~ Permitted /\ End("READ_ONLY_VIOLATION")
       \/ \E e \in {"QUERY_PARSE_ERROR", "QUERY_TIMEOUT", "INTERNAL_ERROR"} : End(e)
    /\ UNCHANGED <<stored, query, items, shown, total, rows, history>>

(* What a plan does to the graph when it is run: one that writes changes   *)
(* or creates a vertex, whatever its operators are called.                 *)
Effects ==
    IF \E i \in DOMAIN query.plan : query.plan[i].writes
    THEN {[stored EXCEPT ![v] = "new"] : v \in Vertices}
    ELSE {stored}

(* The query itself, whose answer may be lost after it took effect.        *)
Run ==
    /\ stage = "run"
    /\ \/ /\ stored' \in Effects
          /\ \E s \in Cut(There(Vertices)) :
                /\ items' = s
                /\ shown' = [i \in s |-> i]
                /\ rows' = [i \in s |-> stored'[i]]
          /\ total' = Cardinality(There(Vertices))
          /\ End("rows")
       \/ /\ stored' \in Effects \cup {stored}
          /\ \E e \in {"QUERY_PARSE_ERROR", "QUERY_TIMEOUT", "DB_UNREACHABLE", "INTERNAL_ERROR"} :
                End(e)
          /\ UNCHANGED <<items, shown, total, rows>>
    /\ UNCHANGED <<query, history>>

(* A request to IndraDB fails. *)
Fail ==
    /\ stage \in {"list", "neighbours", "properties"}
    /\ query.verb \in Allowed
    /\ End("INTERNAL_ERROR")
    /\ UNCHANGED <<stored, query, items, shown, total, rows, history>>

Next ==
    \/ Connect \/ Reject \/ List \/ Neighbours \/ Properties \/ Fail
    \/ Explain \/ Run
    \/ \E i \in Items : Upsert(i)

Spec == Init /\ [][Next]_vars

-----------------------------------------------------------------------------
truncated == Cardinality(DOMAIN rows) < total

ItemsAnswer ==
    /\ DOMAIN rows \subseteq ever
    /\ ~ truncated => always \subseteq DOMAIN rows
    /\ truncated => Cardinality(DOMAIN rows) = query.row_limit
    /\ query.verb = "pipe" =>
          \A e \in DOMAIN rows : {query.vertex, shown[e]} = {e.out, e.in}

PropertiesAreFresh ==
    \A i \in DOMAIN rows :
        /\ began[shown[i]] = "new" => rows[i] = "new"
        /\ began[shown[i]] = "old" => rows[i] \in {"old", "new"}
        /\ stored[shown[i]] # "new" => rows[i] # "new"
        /\ query.verb \in ByValue => rows[i] = query.value

(* A query is several requests on a graph that changes between them, yet   *)
(* its rows answer it: each is for an item that satisfied the query at     *)
(* some time while it ran, about the vertex an edge leads to (README:      *)
(* "outbound to see what it references"), and, when stats.truncated is     *)
(* false, there is one for every item that did so all the time.  A row's   *)
(* properties are those of its own item, no older than when the query      *)
(* began, and not another edge's between the same vertices.                *)
RowsAnswerQuery == answer = "rows" => ItemsAnswer /\ PropertiesAreFresh

(* The walk is as good as its list: when each operator of the plan that    *)
(* writes has a name that is refused, at whatever depth of the plan it is, *)
(* the query leaves the graph as it is.                                    *)
WritesAreListed ==
    query.verb = "cypher" =>
        \A i \in DOMAIN query.plan : query.plan[i].writes => query.plan[i].name \in Refused
ListedWritesNeverRun == [][stage' # stage /\ WritesAreListed => stored' = stored]_vars
=============================================================================
