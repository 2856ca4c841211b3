------------------------- MODULE DescribeSchemaProofs -------------------------
(***************************************************************************)
(* For any number of calls, files and includes, and on either database:    *)
(* describe_graph_schema leaves nothing behind, its counts are fresh and a *)
(* stamped graph gets no note.                                             *)
(*                                                                         *)
(* The graph only grows (Grown), so what a call reads late is no less than *)
(* what was there when it began; the rest says what it has read by when    *)
(* (Control, Counted, Observed).                                           *)
(***************************************************************************)
EXTENDS DescribeSchema, TLAPS

Stages == {"idle", "waiting", "leaving", "closing", "answered"}
Ends   == {"returned", "failed"}

TypeOK ==
    /\ backend \in {"indradb", "neo4j"}
    /\ vertex \in [Files -> VertexStates]
    /\ edge \subseteq Includes
    /\ stage \in [Calls -> Stages]
    /\ worker \in [Calls -> Requests \cup Ends \cup {"none"}]
    /\ linked \in [Calls -> BOOLEAN]
    /\ seen \in [Calls -> SUBSET Files]
    /\ tallied \in [Calls -> SUBSET Includes]
    /\ unread \in [Calls -> SUBSET Files]
    /\ observed \in [Calls -> SUBSET Versions]
    /\ answer \in [Calls -> {"none"} \cup Notes \cup Errors]
    /\ began \in [Calls -> [vertex : [Files -> VertexStates], edge : SUBSET Includes]]

(* No File vertex goes away, or loses its stamp, and no new one has an old *)
(* stamp.                                                                  *)
Grown(c) ==
    /\ \A f \in Files :
          /\ began[c].vertex[f] # "absent" => vertex[f] # "absent"
          /\ began[c].vertex[f] = "current" => vertex[f] = "current"
          /\ began[c].vertex[f] = "absent" => vertex[f] \notin {"pre", "old"}
    /\ began[c].edge \subseteq edge

(* The caller's thread and the pool's, and what the one has of the other. *)
Control(c) ==
    /\ stage[c] = "idle" => /\ worker[c] = "none" /\ ~ linked[c]
                            /\ seen[c] = {} /\ tallied[c] = {}
                            /\ unread[c] = {} /\ observed[c] = {}
    /\ stage[c] \in {"waiting", "leaving"} => linked[c] /\ worker[c] # "none"
    /\ stage[c] = "closing" => worker[c] \in Ends
    /\ stage[c] = "answered" => ~ linked[c] /\ ~ Running(c)
    /\ stage[c] \in {"idle", "waiting"} => answer[c] = "none"
    /\ answer[c] \in Notes => worker[c] = "returned" /\ answer[c] = Note(observed[c])

(* What describe() has counted, by how far it is. *)
Counted(c) ==
    /\ seen[c] \subseteq Present /\ tallied[c] \subseteq edge
    /\ worker[c] \in {"edges", "type", "properties", "returned"} =>
          {f \in Files : began[c].vertex[f] # "absent"} \subseteq seen[c]
    /\ worker[c] \in {"properties", "returned"} => began[c].edge \subseteq tallied[c]

Stamped(c) ==
    /\ \A f \in Files : began[c].vertex[f] \in {"absent", "current"}
    /\ \E f \in Files : began[c].vertex[f] = "current"

(* What it has read of the versions of those it counted. *)
Observed(c) ==
    /\ unread[c] \subseteq seen[c]
    /\ backend = "neo4j" => observed[c] = {} /\ worker[c] # "properties"
    /\ backend = "indradb" => /\ worker[c] \notin {"label", "type"}
                              /\ worker[c] = "returned" => unread[c] = {}
    /\ worker[c] \in {"vertices", "edges", "label", "type"} => observed[c] = {}
    /\ worker[c] = "edges" /\ backend = "indradb" => unread[c] = seen[c]
    /\ Stamped(c) => "old" \notin observed[c]
    /\ backend = "indradb" /\ worker[c] \in {"properties", "returned"} =>
          \A f \in seen[c] \ unread[c] :
             began[c].vertex[f] = "current" => "current" \in observed[c]

InvOf(c) == Grown(c) /\ Control(c) /\ Counted(c) /\ Observed(c)
Inv == TypeOK /\ \A c \in Calls : InvOf(c)

-----------------------------------------------------------------------------
LEMMA InitInv == Init => Inv
<1> SUFFICES ASSUME Init PROVE Inv
  OBVIOUS
<1>1. TypeOK
  BY DEF Init, TypeOK, VertexStates, Stages, Notes, Errors, Graph, Between
<1>2. ASSUME NEW c \in Calls PROVE InvOf(c)
  BY DEF Init, InvOf, Grown, Control, Counted, Observed, Graph, Notes, Ends, Requests, Running
<1> QED BY <1>1, <1>2 DEF Inv

(* What the notes make of a vertex. *)
LEMMA VersionsOfState ==
  ASSUME NEW state \in VertexStates \ {"absent"}
  PROVE  /\ VersionsIn(state) \subseteq Versions
         /\ state # "old" => "old" \notin VersionsIn(state)
         /\ state = "current" => "current" \in VersionsIn(state)
<1>1. CASE state = "bare"
  BY <1>1 DEF VersionsIn
<1>2. CASE state \in {"path", "pre"}
  BY <1>2 DEF VersionsIn, Versions
<1>3. CASE state \in {"current", "old"}
  BY <1>3 DEF VersionsIn, Versions
<1> QED BY <1>1, <1>2, <1>3 DEF VertexStates

LEMMA NextTypes == Inv /\ [Next]_vars => TypeOK'
<1> SUFFICES ASSUME Inv, TypeOK, [Next]_vars PROVE TypeOK'
  BY DEF Inv
<1> USE DEF TypeOK, graphVars, callVars, workerVars
<1>1. ASSUME NEW f \in Files, Upsert(f) PROVE TypeOK'
  BY <1>1 DEF Upsert, VertexStates
<1>2. ASSUME NEW e \in Includes, UpsertEdge(e) PROVE TypeOK'
  BY <1>2 DEF UpsertEdge
<1>3. ASSUME NEW c \in Calls, Connect(c) PROVE TypeOK'
  <2>1. Graph \in [vertex : [Files -> VertexStates], edge : SUBSET Includes]
    BY DEF Graph
  <2>2. UNCHANGED <<graphVars, seen, tallied, unread, observed>>
    BY <1>3 DEF Connect
  <2>3. began' = [began EXCEPT ![c] = Graph]
    BY <1>3 DEF Connect
  <2>4. /\ stage' \in [Calls -> Stages]
        /\ worker' \in [Calls -> Requests \cup Ends \cup {"none"}]
        /\ linked' \in [Calls -> BOOLEAN]
        /\ answer' \in [Calls -> {"none"} \cup Notes \cup Errors]
    BY <1>3 DEF Connect, Stages, Requests, Errors
  <2> QED BY <2>1, <2>2, <2>3, <2>4
<1>4. ASSUME NEW c \in Calls, Caller(c) PROVE TypeOK'
  <2>1. ASSUME NEW versions PROVE Note(versions) \in Notes
    BY DEF Note, Notes
  <2>2. CASE Result(c)
    <3>1. stage' \in [Calls -> Stages] /\ UNCHANGED <<graphVars, workerVars, linked, began>>
      BY <2>2 DEF Result, Stages
    <3>2. answer' = [answer EXCEPT ![c] = "INTERNAL_ERROR"]
             \/ answer' = [answer EXCEPT ![c] = Note(observed[c])]
      BY <2>2 DEF Result
    <3>3. Note(observed[c]) \in Notes /\ "INTERNAL_ERROR" \in Errors
      BY <2>1 DEF Errors
    <3>4. answer' \in [Calls -> {"none"} \cup Notes \cup Errors]
      BY <3>2, <3>3
    <3> QED BY <3>1, <3>4
  <2>3. CASE Timeout(c)
    BY <2>3 DEF Timeout, Stages, Errors
  <2>4. CASE LeavePool(c) \/ Close(c)
    BY <2>4 DEF LeavePool, Close, Stages
  <2> QED BY <1>4, <2>2, <2>3, <2>4 DEF Caller
<1>5. ASSUME NEW c \in Calls, Describe(c) PROVE TypeOK'
  <2>1. Present \subseteq Files
    BY DEF Present
  <2>2. ASSUME NEW f \in Files, ReadProperties(c, f) PROVE TypeOK'
    <3>1. vertex[f] # "absent"
      BY <2>2 DEF ReadProperties, Inv, InvOf, Observed, Counted, Present
    <3>2. VersionsIn(vertex[f]) \subseteq Versions
      BY <3>1, VersionsOfState
    <3> QED BY <2>2, <3>2 DEF ReadProperties
  <2>3. CASE ReadVertices(c) \/ ReadEdges(c)
    BY <2>1, <2>3 DEF ReadVertices, ReadEdges, Resume, Requests
  <2>4. CASE ListLabels(c) \/ CountNodes(c)
    BY <2>1, <2>4 DEF ListLabels, CountNodes, Resume, Requests
  <2>5. CASE ListTypes(c) \/ CountEdges(c) \/ DescribeReturns(c) \/ DescribeRaises(c)
    BY <2>5 DEF ListTypes, CountEdges, DescribeReturns, DescribeRaises, Resume, Requests, Ends
  <2> QED BY <1>5, <2>2, <2>3, <2>4, <2>5 DEF Describe
<1>6. CASE UNCHANGED vars
  BY <1>6 DEF vars
<1> QED BY <1>1, <1>2, <1>3, <1>4, <1>5, <1>6 DEF Next

-----------------------------------------------------------------------------
(* The writers only add to the graph. *)
LEMMA GraphSteps ==
  ASSUME Inv, TypeOK', NEW c \in Calls,
         (\E f \in Files : Upsert(f)) \/ (\E e \in Includes : UpsertEdge(e))
  PROVE  InvOf(c)'
<1> USE DEF graphVars, callVars, workerVars
<1>1. UNCHANGED <<backend, callVars, workerVars>> /\ edge \subseteq edge'
  BY DEF Upsert, UpsertEdge
<1>2. \A f \in Files : /\ vertex[f] # "absent" => vertex'[f] # "absent"
                       /\ vertex[f] = "current" => vertex'[f] = "current"
                       /\ vertex[f] \notin {"pre", "old"} => vertex'[f] \notin {"pre", "old"}
  BY DEF Upsert, UpsertEdge, Inv, TypeOK, VertexStates
<1>3. Grown(c)'
  BY <1>1, <1>2 DEF Grown, Inv, InvOf
<1>4. Control(c)'
  BY <1>1 DEF Control, Inv, InvOf, Running
<1>5. Counted(c)'
  BY <1>1, <1>2 DEF Counted, Inv, InvOf, Present
<1>6. Observed(c)'
  BY <1>1 DEF Observed, Inv, InvOf, Stamped
<1> QED BY <1>3, <1>4, <1>5, <1>6 DEF InvOf

(* A call changes nothing of another. *)
LEMMA OtherCalls ==
  ASSUME Inv, TypeOK', NEW c \in Calls, NEW d \in Calls \ {c}, UNCHANGED graphVars,
         Connect(d) \/ Caller(d) \/ Describe(d)
  PROVE  InvOf(c)'
<1>1. /\ stage'[c] = stage[c] /\ worker'[c] = worker[c] /\ linked'[c] = linked[c]
      /\ answer'[c] = answer[c] /\ began'[c] = began[c]
  BY DEF Inv, TypeOK, graphVars, callVars, workerVars, Connect, Caller, Describe, Resume,
         Result, Timeout, LeavePool, Close, ReadVertices, ReadEdges, ReadProperties,
         ListLabels, CountNodes, ListTypes, CountEdges, DescribeReturns, DescribeRaises
<1>2. /\ seen'[c] = seen[c] /\ tallied'[c] = tallied[c]
      /\ unread'[c] = unread[c] /\ observed'[c] = observed[c]
  BY DEF Inv, TypeOK, graphVars, callVars, workerVars, Connect, Caller, Describe,
         Result, Timeout, LeavePool, Close, ReadVertices, ReadEdges, ReadProperties,
         ListLabels, CountNodes, ListTypes, CountEdges, DescribeReturns, DescribeRaises
<1> QED
  BY <1>1, <1>2 DEF Inv, InvOf, Grown, Control, Counted, Observed, Stamped, Running,
                    Present, graphVars

-----------------------------------------------------------------------------
(* The caller's own steps. *)
LEMMA CallerSteps ==
  ASSUME Inv, TypeOK', NEW c \in Calls, Connect(c) \/ Caller(c)
  PROVE  InvOf(c)'
<1> USE DEF graphVars, callVars, workerVars
<1>1. TypeOK /\ Grown(c) /\ Control(c) /\ Counted(c) /\ Observed(c)
  BY DEF Inv, InvOf
<1>2. CASE Connect(c)
  <2>1. /\ began'[c] = Graph /\ stage[c] = "idle"
        /\ UNCHANGED <<graphVars, seen, tallied, unread, observed>>
    BY <1>1, <1>2 DEF Connect, TypeOK
  <2>2. \/ /\ stage'[c] = "waiting" /\ worker'[c] = "vertices" /\ linked'[c]
           /\ answer'[c] = "none"
        \/ /\ stage'[c] = "answered" /\ worker'[c] = "none" /\ ~ linked'[c]
           /\ answer'[c] = "DB_UNREACHABLE"
    BY <1>1, <1>2, <2>1 DEF Connect, TypeOK, Control
  <2>3. Grown(c)'
    BY <2>1 DEF Grown, Graph
  <2>4. Control(c)'
    BY <2>1, <2>2 DEF Control, Notes, Running, Requests
  <2>5. Counted(c)' /\ Observed(c)'
    BY <1>1, <2>1, <2>2 DEF Control, Counted, Observed
  <2> QED BY <2>3, <2>4, <2>5 DEF InvOf
<1>3. CASE Caller(c)
  <2>1. UNCHANGED <<graphVars, workerVars, began>>
    BY <1>3 DEF Caller, Result, Timeout, LeavePool, Close
  <2>2. Grown(c)' /\ Counted(c)' /\ Observed(c)'
    BY <1>1, <2>1 DEF Grown, Counted, Observed, Stamped, Present
  <2>3. ASSUME Result(c) PROVE Control(c)'
    BY <1>1, <2>1, <2>3 DEF Result, Control, TypeOK, Running, Requests, Ends, Notes
  <2>4. ASSUME Timeout(c) PROVE Control(c)'
    BY <1>1, <2>1, <2>4 DEF Timeout, Control, TypeOK, Notes
  <2>5. ASSUME LeavePool(c) PROVE Control(c)'
    BY <1>1, <2>1, <2>5 DEF LeavePool, Control, TypeOK, Running, Ends
  <2>6. ASSUME Close(c) PROVE Control(c)'
    BY <1>1, <2>1, <2>6 DEF Close, Control, TypeOK, Running, Requests, Ends
  <2> QED BY <1>3, <2>2, <2>3, <2>4, <2>5, <2>6 DEF Caller, InvOf
<1> QED BY <1>2, <1>3

(* The pool's thread. *)
LEMMA DescribeSteps ==
  ASSUME Inv, TypeOK', NEW c \in Calls, Describe(c)
  PROVE  InvOf(c)'
<1> USE DEF graphVars, callVars, workerVars
<1>1. TypeOK /\ Grown(c) /\ Control(c) /\ Counted(c) /\ Observed(c)
  BY DEF Inv, InvOf
<1>2. UNCHANGED <<graphVars, callVars>> /\ Running(c)
  BY DEF Describe, ReadVertices, ReadEdges, ReadProperties, ListLabels, CountNodes,
         ListTypes, CountEdges, DescribeReturns, DescribeRaises, Running, Requests
<1>3. Grown(c)'
  BY <1>1, <1>2 DEF Grown
<1>4. stage[c] \in {"waiting", "leaving"} /\ answer[c] \notin Notes
  BY <1>1, <1>2 DEF Control, Running, Requests, TypeOK, Stages, Ends
<1>5. worker'[c] # "none"
  BY <1>1, <1>2 DEF Describe, ReadVertices, ReadEdges, ReadProperties, ListLabels, CountNodes,
         ListTypes, CountEdges, DescribeReturns, DescribeRaises, Resume, TypeOK, Running, Requests
<1>6. Control(c)'
  BY <1>1, <1>2, <1>4, <1>5 DEF Control
<1>7. ASSUME ReadVertices(c) PROVE Counted(c)' /\ Observed(c)'
  <2>1. /\ backend = "indradb" /\ worker[c] = "vertices" /\ worker'[c] = "edges"
        /\ seen'[c] = Present /\ unread'[c] = Present
        /\ tallied'[c] = tallied[c] /\ observed'[c] = observed[c]
    BY <1>1, <1>7 DEF ReadVertices, Resume, TypeOK
  <2> QED BY <1>1, <1>2, <2>1 DEF Grown, Counted, Observed, Stamped, Present
<1>8. ASSUME ReadEdges(c) PROVE Counted(c)' /\ Observed(c)'
  <2>1. /\ backend = "indradb" /\ worker[c] = "edges" /\ worker'[c] = "properties"
        /\ tallied'[c] = edge
        /\ seen'[c] = seen[c] /\ unread'[c] = unread[c] /\ observed'[c] = observed[c]
    BY <1>1, <1>8 DEF ReadEdges, Resume, TypeOK
  <2> QED BY <1>1, <1>2, <2>1 DEF Grown, Counted, Observed, Stamped, Present
<1>9. ASSUME NEW f \in Files, ReadProperties(c, f) PROVE Counted(c)' /\ Observed(c)'
  <2>1. /\ UNCHANGED <<worker, seen, tallied>> /\ worker[c] = "properties" /\ f \in unread[c]
        /\ observed'[c] = observed[c] \cup VersionsIn(vertex[f])
        /\ unread'[c] = unread[c] \ {f}
    BY <1>1, <1>9 DEF ReadProperties, TypeOK
  <2>2. Counted(c)'
    BY <1>1, <1>2, <2>1 DEF Counted, Present
  <2>3. Stamped(c) => vertex[f] # "old"
    BY <1>1 DEF Stamped, Grown
  <2>4. vertex[f] \in VertexStates \ {"absent"}
    BY <1>1, <2>1 DEF TypeOK, Counted, Observed, Present
  <2>5. /\ vertex[f] # "old" => "old" \notin VersionsIn(vertex[f])
        /\ began[c].vertex[f] = "current" => "current" \in VersionsIn(vertex[f])
    BY <1>1, <2>4, VersionsOfState DEF Grown
  <2>6. Observed(c)'
    BY <1>1, <1>2, <2>1, <2>3, <2>4, <2>5 DEF Observed, Stamped
  <2> QED BY <2>2, <2>6
<1>10. ASSUME ListLabels(c) PROVE Counted(c)' /\ Observed(c)'
  <2>1. /\ backend = "neo4j" /\ worker[c] = "vertices"
        /\ worker'[c] = "label" \/ (worker'[c] = "edges" /\ Present = {})
        /\ UNCHANGED <<seen, tallied, unread, observed>>
    BY <1>1, <1>10 DEF ListLabels, Resume, TypeOK
  <2> QED BY <1>1, <1>2, <2>1 DEF Grown, Counted, Observed, Stamped, Present
<1>11. ASSUME CountNodes(c) PROVE Counted(c)' /\ Observed(c)'
  <2>1. /\ worker[c] = "label" /\ worker'[c] = "edges" /\ seen'[c] = Present
        /\ UNCHANGED <<tallied, unread, observed>>
    BY <1>1, <1>11 DEF CountNodes, Resume, TypeOK
  <2>2. seen[c] \subseteq Present
    BY <1>1 DEF Counted
  <2>3. backend = "neo4j"
    BY <1>1, <2>1 DEF Observed, TypeOK
  <2> QED BY <1>1, <1>2, <2>1, <2>2, <2>3 DEF Grown, Counted, Observed, Stamped, Present
<1>12. ASSUME ListTypes(c) PROVE Counted(c)' /\ Observed(c)'
  <2>1. /\ backend = "neo4j" /\ worker[c] = "edges"
        /\ worker'[c] = "type" \/ (worker'[c] = "returned" /\ edge = {})
        /\ UNCHANGED <<seen, tallied, unread, observed>>
    BY <1>1, <1>12 DEF ListTypes, Resume, TypeOK
  <2> QED BY <1>1, <1>2, <2>1 DEF Grown, Counted, Observed, Stamped, Present
<1>13. ASSUME CountEdges(c) PROVE Counted(c)' /\ Observed(c)'
  <2>1. /\ worker[c] = "type" /\ worker'[c] = "returned" /\ tallied'[c] = edge
        /\ UNCHANGED <<seen, unread, observed>>
    BY <1>1, <1>13 DEF CountEdges, Resume, TypeOK
  <2>2. backend = "neo4j"
    BY <1>1, <2>1 DEF Observed, TypeOK
  <2> QED BY <1>1, <1>2, <2>1, <2>2 DEF Grown, Counted, Observed, Stamped, Present
<1>14. ASSUME DescribeReturns(c) \/ DescribeRaises(c) PROVE Counted(c)' /\ Observed(c)'
  <2>1. /\ \/ worker[c] = "properties" /\ worker'[c] = "returned" /\ unread[c] = {}
           \/ worker'[c] = "failed"
        /\ UNCHANGED <<seen, tallied, unread, observed>>
    BY <1>1, <1>14 DEF DescribeReturns, DescribeRaises, Resume, TypeOK
  <2> QED BY <1>1, <1>2, <2>1 DEF Counted, Observed, Stamped, Present
<1>15. Counted(c)' /\ Observed(c)'
  BY <1>7, <1>8, <1>9, <1>10, <1>11, <1>12, <1>13, <1>14 DEF Describe
<1> QED BY <1>3, <1>6, <1>15 DEF InvOf

-----------------------------------------------------------------------------
LEMMA NextInv == Inv /\ [Next]_vars => Inv'
<1> SUFFICES ASSUME Inv, [Next]_vars PROVE Inv'
  OBVIOUS
<1>1. TypeOK'
  BY NextTypes
<1>2. ASSUME NEW c \in Calls PROVE InvOf(c)'
  <2>1. CASE (\E f \in Files : Upsert(f)) \/ (\E e \in Includes : UpsertEdge(e))
    BY <1>1, <2>1, GraphSteps
  <2>2. ASSUME NEW d \in Calls, Connect(d) \/ Caller(d) \/ Describe(d) PROVE InvOf(c)'
    <3>1. UNCHANGED graphVars
      BY <2>2 DEF Connect, Caller, Describe, Result, Timeout, LeavePool, Close, ReadVertices,
           ReadEdges, ReadProperties, ListLabels, CountNodes, ListTypes, CountEdges,
           DescribeReturns, DescribeRaises, graphVars
    <3>2. CASE d = c
      BY <1>1, <2>2, <3>2, CallerSteps, DescribeSteps
    <3>3. CASE d # c
      BY <1>1, <2>2, <3>1, <3>3, OtherCalls
    <3> QED BY <3>2, <3>3
  <2>3. CASE UNCHANGED vars
    <3>1. InvOf(c)
      BY DEF Inv
    <3> QED BY <2>3, <3>1 DEF vars, graphVars, callVars, workerVars, InvOf, Grown, Control,
                Counted, Observed, Stamped, Running, Present
  <2> QED BY <2>1, <2>2, <2>3 DEF Next
<1> QED BY <1>1, <1>2 DEF Inv

(* What every call has been doing, by where its two threads are: the       *)
(* invariant from which the three properties follow.                       *)
THEOREM Invariance == Spec => []Inv
  BY InitInv, NextInv, PTL DEF Spec

(* No describe() outlives its caller or loses its connection to it.        *)
THEOREM NothingIsLeft == Spec => []NothingLeftBehind
<1>1. Inv => NothingLeftBehind
  BY DEF Inv, InvOf, Control, NothingLeftBehind, Running, Requests, Ends, TypeOK, Stages
<1> QED BY <1>1, Invariance, PTL

(* A count has what was there when the call began, and nothing that is     *)
(* not, whatever servers write between the requests.                       *)
THEOREM FreshCounts == Spec => []CountsAreFresh
<1>1. Inv => CountsAreFresh
  BY DEF Inv, InvOf, Control, Counted, CountsAreFresh, Succeeded
<1> QED BY <1>1, Invariance, PTL

(* A graph whose files are all stamped gets no version note, also while an *)
(* ingest of more files is half-way.                                       *)
THEOREM NoFalseNote == Spec => []StampedGivesNoNote
<1>1. ASSUME Inv, NEW c \in Calls, Succeeded(c), Stamped(c) PROVE answer[c] = "no note"
  <2>1. Control(c) /\ Counted(c) /\ Observed(c) /\ TypeOK
    BY <1>1 DEF Inv, InvOf
  <2>2. worker[c] = "returned" /\ answer[c] = Note(observed[c])
    BY <1>1, <2>1 DEF Succeeded, Control
  <2>3. "old" \notin observed[c]
    BY <1>1, <2>1 DEF Observed
  <2>4. observed[c] # {"null"}
    <3>1. CASE backend = "neo4j"
      BY <2>1, <3>1 DEF Observed
    <3>2. CASE backend = "indradb"
      <4>1. PICK f \in Files : began[c].vertex[f] = "current"
        BY <1>1 DEF Stamped
      <4>2. f \in seen[c] \ unread[c]
        BY <2>1, <2>2, <3>2, <4>1 DEF Counted, Observed
      <4>3. "current" \in observed[c]
        BY <2>1, <2>2, <3>2, <4>1, <4>2 DEF Observed
      <4> QED BY <4>3
    <3> QED BY <2>1, <3>1, <3>2 DEF TypeOK
  <2> QED BY <2>2, <2>3, <2>4 DEF Note
<1>2. Inv => StampedGivesNoNote
  BY <1>1 DEF StampedGivesNoNote, Stamped
<1> QED BY <1>2, Invariance, PTL
=============================================================================
