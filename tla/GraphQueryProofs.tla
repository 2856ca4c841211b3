-------------------------- MODULE GraphQueryProofs --------------------------
(***************************************************************************)
(* That query_graphdb runs no plan with a refused operator in it, and that *)
(* its rows answer the query, for every graph, query, plan and limit,      *)
(* while another server upserts.                                           *)
(***************************************************************************)
EXTENDS GraphQuery, FiniteSetTheorems, TLAPS

(* By the time the query itself is sent, its plan has been walked to the   *)
(* end: it is the query that EXPLAIN was given, and has no refused         *)
(* operator in it.                                                         *)
RunIsPermitted == stage = "run" => Permitted /\ query.verb = "cypher"

LEMMA RunInit == Init => RunIsPermitted
  BY DEF Init, RunIsPermitted

(* A request that ends the query leaves the stage "run" alone. *)
LEMMA EndIsNotRun ==
  ASSUME NEW result, End(result)
  PROVE  stage' # "run"
  BY DEF End

ExplainIsCypher == stage = "explain" => query.verb = "cypher"

LEMMA ExplainNext == ExplainIsCypher /\ [Next]_vars => ExplainIsCypher'
  BY DEF ExplainIsCypher, Next, Connect, Reject, List, Neighbours, Properties, Fail, Explain,
         Run, Upsert, End, vars

LEMMA RunNext == RunIsPermitted /\ ExplainIsCypher /\ [Next]_vars => RunIsPermitted'
<1> SUFFICES ASSUME RunIsPermitted, ExplainIsCypher, [Next]_vars PROVE RunIsPermitted'
  OBVIOUS
<1>1. CASE Connect
  BY <1>1 DEF Connect, End, RunIsPermitted
<1>2. CASE Reject
  BY <1>2, EndIsNotRun DEF Reject, RunIsPermitted
<1>3. CASE List
  BY <1>3, EndIsNotRun DEF List, RunIsPermitted
<1>4. CASE Neighbours
  BY <1>4, EndIsNotRun DEF Neighbours, RunIsPermitted
<1>5. CASE Properties
  BY <1>5, EndIsNotRun DEF Properties, RunIsPermitted
<1>6. CASE Fail
  BY <1>6, EndIsNotRun DEF Fail, RunIsPermitted
<1>7. CASE Explain
  BY <1>7, EndIsNotRun DEF Explain, Permitted, RunIsPermitted, ExplainIsCypher
<1>8. CASE Run
  BY <1>8, EndIsNotRun DEF Run, RunIsPermitted
<1>9. CASE \E i \in Items : Upsert(i)
  BY <1>9 DEF Upsert, Permitted, RunIsPermitted
<1>10. CASE UNCHANGED vars
  BY <1>10 DEF vars, Permitted, RunIsPermitted
<1> QED BY <1>1, <1>2, <1>3, <1>4, <1>5, <1>6, <1>7, <1>8, <1>9, <1>10 DEF Next

(* A plan that passes the walk has no effect, if the walk knows all of its *)
(* writing operators.                                                      *)
LEMMA PermittedHasNoEffect ==
  WritesAreListed /\ Permitted /\ query.verb = "cypher" => Effects = {stored}
  BY DEF WritesAreListed, Permitted, Effects

(* However deep in the plan it is, an operator with a refused name keeps   *)
(* the query from being run: a query of which all writing operators have   *)
(* such names leaves the graph as it is.                                   *)
THEOREM RefusedNeverRuns == Spec => ListedWritesNeverRun
<1>1. RunIsPermitted /\ [Next]_vars
      => [stage' # stage /\ WritesAreListed => stored' = stored]_vars
  <2> SUFFICES ASSUME RunIsPermitted, Next, stage' # stage, WritesAreListed
               PROVE  stored' = stored
    OBVIOUS
  <2>1. CASE Connect \/ Reject
    BY <2>1 DEF Connect, Reject
  <2>2. CASE List \/ Neighbours \/ Properties \/ Fail
    BY <2>2 DEF List, Neighbours, Properties, Fail
  <2>3. CASE Explain
    BY <2>3 DEF Explain
  <2>4. CASE Run
    BY <2>4, PermittedHasNoEffect DEF Run, RunIsPermitted
  <2>5. CASE \E i \in Items : Upsert(i)
    BY <2>5 DEF Upsert
  <2> QED BY <2>1, <2>2, <2>3, <2>4, <2>5 DEF Next
<1>2. Init => ExplainIsCypher
  BY DEF Init, ExplainIsCypher
<1> QED BY <1>1, <1>2, RunInit, RunNext, ExplainNext, PTL DEF Spec, ListedWritesNeverRun

-----------------------------------------------------------------------------
(* The rows answer the query.  QInv says what the executor knows between   *)
(* two requests, while other servers' upserts come in.                     *)

Running == stage \in {"list", "neighbours", "properties", "explain", "run"}
Listed  == stage \in {"neighbours", "properties"}

QType ==
    /\ stored \in [Items -> States] /\ began \in [Items -> States]
    /\ query \in Queries
    /\ stage = "connect" \/ stage = "closed" \/ Running
    /\ stage # "closed" => answer = "none" /\ DOMAIN rows = {}
    /\ stage \in {"explain", "run"} => query.verb = "cypher"
    /\ stage \in {"list", "neighbours", "properties"} => query.verb # "cypher"
    /\ stage = "neighbours" => query.verb = "pipe"
    /\ stage = "properties" => query.verb \in Allowed
    /\ RunIsPermitted

(* Edges have their ends, and items only gain what they have. *)
EdgesHaveEnds ==
    \A e \in Edges : stored[e] # "absent" => "absent" \notin {stored[e.out], stored[e.in]}

Grown ==
    Running => \A i \in Items : /\ began[i] = "new" => stored[i] = "new"
                                /\ began[i] = "old" => stored[i] \in {"old", "new"}

(* What satisfies the query now is between what always did and ever did. *)
Tracked == Running => always \subseteq Answers(stored) /\ Answers(stored) \subseteq ever

(* What List knows still holds when the last request is made. *)
ItemsListed ==
    Listed =>
        /\ items \subseteq There(Items)
        /\ query.verb \in ByValue =>
              /\ always \subseteq items
              /\ query.verb \in VertexVerbs => items \subseteq Vertices
              /\ query.verb \in EdgeVerbs => items \subseteq Edges
        /\ query.verb \notin ByValue =>
              /\ items \subseteq ever
              /\ \/ /\ Cardinality(items) = total /\ total <= query.row_limit
                    /\ always \subseteq items
                 \/ Cardinality(items) = query.row_limit /\ query.row_limit < total
        /\ items \subseteq DOMAIN shown
        /\ query.verb # "pipe" => \A i \in items : shown[i] = i
        /\ query.verb = "pipe" =>
              \A e \in items : /\ e \in Edges /\ shown[e] = Other(e)
                               /\ query.vertex = IF query.direction = "outbound"
                                                 THEN e.out ELSE e.in

QInv == QType /\ EdgesHaveEnds /\ Grown /\ Tracked /\ ItemsListed /\ RowsAnswerQuery

-----------------------------------------------------------------------------
(* What the requests return. *)

LEMMA ItemsFinite == \A S \in SUBSET Items : IsFiniteSet(S) /\ Cardinality(S) \in Nat
<1>1. IsFiniteSet(Items)
  BY GraphAssumption, FS_Union DEF Items
<1> QED BY <1>1, FS_Subset, FS_CardinalityType

LEMMA CutIs ==
  ASSUME NEW raw \in SUBSET Items, NEW s \in Cut(raw), query \in Queries
  PROVE  /\ s \subseteq raw
         /\ \/ s = raw /\ Cardinality(raw) <= query.row_limit
            \/ Cardinality(s) = query.row_limit /\ query.row_limit < Cardinality(raw)
<1>1. Cardinality(raw) \in Nat /\ query.row_limit \in Nat
  BY ItemsFinite, QueriesAssumption
<1> QED BY <1>1 DEF Cut, kSubset

LEMMA FetchedIs ==
  ASSUME NEW i \in Items
  PROVE  Fetched(i) = stored[i]
<1>1. ASSUME NEW j \in Items, Key(j) = Key(i) PROVE j = i
  <2>1. CASE i \in Edges /\ j \in Edges
    BY <1>1, <2>1, GraphAssumption DEF Key
  <2>2. CASE i \notin Edges /\ j \notin Edges
    BY <1>1, <2>2 DEF Key
  <2>3. \A e \in Edges : Key(e) \in Vertices \X Types \X Vertices
    BY GraphAssumption DEF Key
  <2>4. \A v \in Items \ Edges : Key(v) \in Vertices
    BY DEF Key, Items
  <2> QED BY <1>1, <2>1, <2>2, <2>3, <2>4, GraphAssumption
<1>2. (CHOOSE j \in Items : Key(j) = Key(i)) = i
  BY <1>1
<1> QED BY <1>2 DEF Fetched

LEMMA RawIs ==
  ASSUME query.verb \in Allowed
  PROVE  /\ Raw \subseteq There(Items)
         /\ query.verb \notin ByValue => Raw = Answers(stored)
         /\ query.verb \in ByValue =>
               /\ Answers(stored) = {i \in Raw : stored[i] = query.value}
               /\ query.verb \in VertexVerbs => Raw \subseteq Vertices
               /\ query.verb \in EdgeVerbs => Raw \subseteq Edges
         /\ query.verb = "pipe" => Raw = Followed
<1> USE DEF Allowed, VertexVerbs, EdgeVerbs, ByType, ByValue, Raw, Answers, There,
            Items
<1>1. CASE query.verb = "all_vertices"
  BY <1>1
<1>2. CASE query.verb = "all_edges"
  BY <1>2
<1>3. CASE query.verb = "vertex_with_type"
  BY <1>3
<1>4. CASE query.verb = "edge_with_type"
  BY <1>4
<1>5. CASE query.verb = "vertex_with_property_equal"
  BY <1>5
<1>6. CASE query.verb = "edge_with_property_equal"
  BY <1>6
<1>7. CASE query.verb = "pipe"
  BY <1>7 DEF Followed
<1> QED BY <1>1, <1>2, <1>3, <1>4, <1>5, <1>6, <1>7

(* Once the items are listed, those of them that match the value are the   *)
(* items that answer the query now.                                        *)
LEMMA SelectedIs ==
  ASSUME QInv, Listed, query.verb \in ByValue
  PROVE  /\ Selected = {i \in items : stored[i] = query.value}
         /\ Selected \subseteq Answers(stored)
         /\ always \subseteq Selected
<1>1. /\ items \subseteq There(Items) /\ always \subseteq items
      /\ query.verb \in VertexVerbs => items \subseteq Vertices
      /\ query.verb \in EdgeVerbs => items \subseteq Edges
      /\ always \subseteq Answers(stored)
  BY DEF QInv, ItemsListed, Tracked, Listed, Running
<1>2. Selected = {i \in items : stored[i] = query.value}
  BY <1>1, FetchedIs DEF Selected, There
<1>3. query.verb \in Allowed
  BY DEF ByValue, Allowed, VertexVerbs, EdgeVerbs
<1>4. Answers(stored) = {i \in Raw : stored[i] = query.value}
  BY <1>3, RawIs
<1>5. items \subseteq Raw
  <2>1. CASE query.verb = "vertex_with_property_equal"
    BY <1>1, <2>1 DEF Raw, There, ByType, VertexVerbs, EdgeVerbs
  <2>2. CASE query.verb = "edge_with_property_equal"
    BY <1>1, <2>2 DEF Raw, There, ByType, VertexVerbs, EdgeVerbs
  <2> QED BY <2>1, <2>2 DEF ByValue
<1> QED BY <1>1, <1>2, <1>4, <1>5

-----------------------------------------------------------------------------
(* The steps. *)

LEMMA AnswersLater ==
  ASSUME UNCHANGED query
  PROVE  Answers(stored)' = Answers(stored')
  BY DEF Answers

LEMMA RejectAnswers ==
  ASSUME answer' # "rows"
  PROVE  RowsAnswerQuery'
  BY DEF RowsAnswerQuery

LEMMA QInit == Init => QInv
<1> SUFFICES ASSUME Init PROVE QInv
  OBVIOUS
<1>1. stage = "connect" /\ answer = "none" /\ DOMAIN rows = {} /\ began = stored
      /\ stored \in [Items -> States] /\ query \in Queries
  BY DEF Init
<1>2. QType
  BY <1>1 DEF QType, RunIsPermitted, Running
<1>3. EdgesHaveEnds
  BY DEF Init, EdgesHaveEnds
<1>4. Grown /\ Tracked /\ ItemsListed /\ RowsAnswerQuery
  BY <1>1 DEF Grown, Tracked, ItemsListed, RowsAnswerQuery, Running, Listed
<1> QED BY <1>2, <1>3, <1>4 DEF QInv

LEMMA QUpsert ==
  ASSUME QInv, NEW i \in Items, Upsert(i)
  PROVE  QInv'
<1>1. /\ stored \in [Items -> States] /\ began \in [Items -> States]
      /\ stored' = [stored EXCEPT ![i] = IF @ = "absent" THEN "bare" ELSE "new"]
      /\ UNCHANGED <<query, stage, items, shown, total, rows, answer, began>>
      /\ stage # "connect" /\ stage # "closed" /\ Running
  BY DEF Upsert, QInv, QType
<1>2. /\ stored' \in [Items -> States]
      /\ \A j \in Items : /\ stored[j] # "absent" => stored'[j] # "absent"
                          /\ stored[j] = "new" => stored'[j] = "new"
                          /\ stored[j] = "old" => stored'[j] \in {"old", "new"}
      /\ \A j \in Items : stored'[j] # "absent" => stored[j] # "absent" \/ j = i
  BY <1>1 DEF States
<1>3. QType'
  BY <1>1, <1>2 DEF QInv, QType, Running, RunIsPermitted, Permitted
<1>4. EdgesHaveEnds'
  <2> SUFFICES ASSUME NEW e \in Edges, stored'[e] # "absent"
               PROVE  stored'[e.out] # "absent" /\ stored'[e.in] # "absent"
    BY DEF EdgesHaveEnds
  <2>1. e \in Items /\ e.out \in Items /\ e.in \in Items
    BY GraphAssumption DEF Items
  <2>2. stored[e] # "absent" \/ e = i
    BY <1>2, <2>1
  <2>3. stored[e.out] # "absent" /\ stored[e.in] # "absent"
    BY <2>2 DEF QInv, EdgesHaveEnds, Upsert
  <2> QED BY <1>2, <2>1, <2>3
<1>5. Grown'
  BY <1>1, <1>2 DEF QInv, Grown, Running
<1>6. Tracked'
  <2>1. always' \subseteq Answers(stored') /\ Answers(stored') \subseteq ever'
    BY DEF Upsert
  <2> QED BY <1>1, <2>1, AnswersLater DEF Tracked
<1>7. ItemsListed'
  <2>1. always' \subseteq always /\ ever \subseteq ever'
    BY DEF Upsert
  <2>2. Listed' => There(items)' = items /\ ItemsListed
    <3>1. ItemsListed
      BY DEF QInv
    <3> QED BY <1>1, <1>2, <3>1 DEF ItemsListed, Listed, There
  <2>3. Listed' => items' \subseteq There(Items)'
    BY <1>1, <2>2 DEF There, ItemsListed, Listed
  <2> QED BY <1>1, <2>1, <2>2, <2>3 DEF ItemsListed, Listed, Other
<1>8. RowsAnswerQuery'
  BY <1>1 DEF QInv, QType, RowsAnswerQuery
<1> QED BY <1>3, <1>4, <1>5, <1>6, <1>7, <1>8 DEF QInv

LEMMA QConnect == QInv /\ Connect => QInv'
<1> SUFFICES ASSUME QInv, Connect PROVE QInv'
  OBVIOUS
<1>1. /\ UNCHANGED <<stored, query, items, shown, total, rows>>
      /\ answer = "none" /\ DOMAIN rows = {}
      /\ \/ stage' = "explain" /\ query.verb = "cypher" /\ answer' = answer
         \/ stage' = "list" /\ query.verb # "cypher" /\ answer' = answer
         \/ stage' = "closed" /\ answer' = "DB_UNREACHABLE"
  BY DEF Connect, End, QInv, QType
<1>2. QType'
  BY <1>1 DEF Connect, QInv, QType, Running, RunIsPermitted
<1>3. EdgesHaveEnds' /\ Grown'
  BY <1>1 DEF Connect, QInv, EdgesHaveEnds, Grown
<1>4. Tracked'
  BY <1>1, AnswersLater DEF Connect, Tracked
<1>5. ItemsListed' /\ RowsAnswerQuery'
  BY <1>1 DEF ItemsListed, Listed, RowsAnswerQuery
<1> QED BY <1>2, <1>3, <1>4, <1>5 DEF QInv

(* A request that ends the query with an error. *)
LEMMA QEnds ==
  ASSUME QInv, stage' = "closed", answer' # "rows",
         UNCHANGED <<stored, query, began>>
  PROVE  QInv'
<1>1. QType'
  BY DEF QInv, QType, RunIsPermitted, Running
<1>2. EdgesHaveEnds' /\ Grown' /\ Tracked' /\ ItemsListed' /\ RowsAnswerQuery'
  BY DEF QInv, EdgesHaveEnds, Grown, Tracked, ItemsListed, RowsAnswerQuery,
         Running, Listed
<1> QED BY <1>1, <1>2 DEF QInv

LEMMA QList == QInv /\ List => QInv'
<1> SUFFICES ASSUME QInv, List PROVE QInv'
  OBVIOUS
<1> DEFINE shows(s) == [i \in s |-> IF query.verb = "pipe" THEN Other(i) ELSE i]
<1>1. PICK s \in IF CutsFirst THEN Cut(Raw) ELSE {Raw} :
         /\ items' = s
         /\ shown' = shows(s)
         /\ \/ /\ s = {} /\ query.verb \notin ByValue
               /\ stage' = "closed" /\ answer' = "rows"
            \/ /\ stage' = IF query.verb = "pipe" THEN "neighbours" ELSE "properties"
               /\ answer' = answer
  BY DEF List, End
<1>2. /\ query.verb \in Allowed /\ query.verb # "cypher"
      /\ total' = Cardinality(Raw)
      /\ UNCHANGED <<stored, query, rows, began, always, ever>>
      /\ answer = "none" /\ DOMAIN rows = {}
  BY DEF List, QInv, QType, history
<1>3. always \subseteq Answers(stored) /\ Answers(stored) \subseteq ever
  BY DEF List, QInv, Tracked, Running
<1>4. Raw \in SUBSET Items /\ Raw \subseteq There(Items)
  BY <1>2, RawIs DEF There
<1>5. query.row_limit \in Nat \ {0}
  BY QueriesAssumption DEF QInv, QType
<1>6. s \subseteq Raw /\ s \in SUBSET Items
      /\ (query.verb \in ByValue => s = Raw)
      /\ (query.verb \notin ByValue =>
             \/ s = Raw /\ Cardinality(Raw) <= query.row_limit
             \/ Cardinality(s) = query.row_limit /\ query.row_limit < Cardinality(Raw))
  <2>1. CASE query.verb \in ByValue
    BY <1>1, <1>4, <2>1 DEF CutsFirst
  <2>2. CASE query.verb \notin ByValue
    <3>1. s \in Cut(Raw)
      BY <1>1, <2>2 DEF CutsFirst
    <3> QED BY <1>4, <2>2, <3>1, CutIs DEF QInv, QType
  <2> QED BY <2>1, <2>2
<1>7. QType'
  BY <1>1, <1>2 DEF QInv, QType, RunIsPermitted, Running
<1>8. EdgesHaveEnds' /\ Grown'
  BY <1>2 DEF List, QInv, EdgesHaveEnds, Grown, Running
<1>9. Tracked'
  BY <1>2, <1>3, AnswersLater DEF Tracked
<1>10. ItemsListed'
  <2> SUFFICES ASSUME Listed' PROVE ItemsListed'
    BY DEF ItemsListed
  <2>1. items' \subseteq There(Items)'
    BY <1>1, <1>2, <1>4, <1>6 DEF There
  <2>2. ASSUME query.verb \in ByValue
        PROVE  /\ always' \subseteq items'
               /\ query.verb \in VertexVerbs => items' \subseteq Vertices
               /\ query.verb \in EdgeVerbs => items' \subseteq Edges
    BY <1>1, <1>2, <1>3, <1>6, <2>2, RawIs
  <2>3. ASSUME query.verb \notin ByValue
        PROVE  /\ items' \subseteq ever'
               /\ \/ /\ Cardinality(items') = total' /\ total' <= query.row_limit
                     /\ always' \subseteq items'
                  \/ Cardinality(items') = query.row_limit /\ query.row_limit < total'
    BY <1>1, <1>2, <1>3, <1>6, <2>3, RawIs
  <2>4. items' \subseteq DOMAIN shown'
        /\ (query.verb # "pipe" => \A i \in items' : shown'[i] = i)
        /\ (query.verb = "pipe" => \A i \in items' : shown'[i] = Other(i))
    BY <1>1
  <2>5. query.verb = "pipe" =>
           \A e \in items' : /\ e \in Edges
                             /\ query.vertex = IF query.direction = "outbound"
                                               THEN e.out ELSE e.in
    BY <1>1, <1>2, <1>6, RawIs DEF Followed, There
  <2>6. \A e : Other(e)' = Other(e)
    BY <1>2 DEF Other
  <2> HIDE DEF shows
  <2> QED BY <1>2, <2>1, <2>2, <2>3, <2>4, <2>5, <2>6 DEF ItemsListed
<1>11. RowsAnswerQuery'
  <2>1. CASE answer' = "rows"
    <3>1. s = {} /\ query.verb \notin ByValue
      BY <1>1, <1>2, <2>1
    <3>2. Raw = {} /\ always = {}
      <4>1. Cardinality(s) = 0
        BY <3>1, FS_EmptySet
      <4>2. s = Raw
        BY <1>5, <1>6, <3>1, <4>1
      <4> QED BY <1>2, <1>3, <3>1, <4>2, RawIs
    <3>3. total' = 0 /\ Cardinality(DOMAIN rows') = 0
      BY <1>2, <3>2, FS_EmptySet
    <3> QED BY <1>2, <3>2, <3>3
            DEF RowsAnswerQuery, ItemsAnswer, PropertiesAreFresh, truncated
  <2> QED BY <2>1 DEF RowsAnswerQuery
<1> QED BY <1>7, <1>8, <1>9, <1>10, <1>11 DEF QInv

(* The vertices at the other ends are there, so this request loses none.   *)
LEMMA QNeighbours == QInv /\ Neighbours => QInv'
<1> SUFFICES ASSUME QInv, Neighbours PROVE QInv'
  OBVIOUS
<1>1. /\ stage = "neighbours" /\ query.verb = "pipe" /\ Listed /\ Running
      /\ UNCHANGED <<stored, query, shown, total, rows, began, always, ever>>
      /\ answer = "none" /\ DOMAIN rows = {} /\ query.verb \notin ByValue
  BY DEF Neighbours, QInv, QType, history, Listed, Running, ByValue
<1>2. items' = items
  <2>1. ASSUME NEW e \in items PROVE shown[e] \in There(Vertices)
    <3>1. e \in Edges /\ stored[e] # "absent" /\ shown[e] \in {e.out, e.in}
      BY <1>1 DEF QInv, ItemsListed, There, Other
    <3> QED BY <3>1, GraphAssumption DEF QInv, EdgesHaveEnds, There
  <2> QED BY <2>1 DEF Neighbours
<1>3. ItemsListed
  BY DEF QInv
<1>4. CASE stage' = "properties" /\ answer' = answer
  <2>1. QType'
    BY <1>1, <1>4 DEF QInv, QType, RunIsPermitted, Running, Allowed
  <2>2. EdgesHaveEnds' /\ Grown'
    BY <1>1 DEF QInv, EdgesHaveEnds, Grown
  <2>3. Tracked'
    BY <1>1, AnswersLater DEF QInv, Tracked
  <2>4. ItemsListed'
    BY <1>1, <1>2, <1>3 DEF ItemsListed, Listed, There, Other
  <2>5. RowsAnswerQuery'
    BY <1>1, <1>4 DEF RowsAnswerQuery
  <2> QED BY <2>1, <2>2, <2>3, <2>4, <2>5 DEF QInv
<1>5. CASE items' = {} /\ stage' = "closed" /\ answer' = "rows"
  <2>1. Cardinality(items) = 0 /\ query.row_limit \in Nat \ {0}
    BY <1>2, <1>5, FS_EmptySet, QueriesAssumption DEF QInv, QType
  <2>2. total = 0 /\ always = {}
    BY <1>1, <1>2, <1>3, <1>5, <2>1 DEF ItemsListed
  <2>3. RowsAnswerQuery'
    BY <1>1, <2>2, FS_EmptySet
    DEF RowsAnswerQuery, ItemsAnswer, PropertiesAreFresh, truncated
  <2>4. QType' /\ EdgesHaveEnds' /\ Grown' /\ Tracked' /\ ItemsListed'
    BY <1>1, <1>5 DEF QInv, QType, EdgesHaveEnds, Grown, Tracked, ItemsListed,
                      Running, Listed, RunIsPermitted
  <2> QED BY <2>3, <2>4 DEF QInv
<1> QED BY <1>4, <1>5 DEF Neighbours, End

(* What a query may do to the graph: an item is never lost or older, and   *)
(* the edges are as they were.                                             *)
OnlyGrows ==
    /\ stored' \in [Items -> States]
    /\ \A i \in Items : /\ stored[i] # "absent" => stored'[i] # "absent"
                        /\ stored[i] = "new" => stored'[i] = "new"
                        /\ stored[i] = "old" => stored'[i] \in {"old", "new"}
    /\ \A e \in Edges : stored'[e] = stored[e]

LEMMA OnlyGrowsKeeps ==
  ASSUME QInv, OnlyGrows, UNCHANGED began
  PROVE  /\ EdgesHaveEnds'
         /\ Running => \A i \in Items : /\ began[i] = "new" => stored'[i] = "new"
                                        /\ began[i] = "old" => stored'[i] \in {"old", "new"}
<1>1. EdgesHaveEnds'
  <2> SUFFICES ASSUME NEW e \in Edges, stored'[e] # "absent"
               PROVE  stored'[e.out] # "absent" /\ stored'[e.in] # "absent"
    BY DEF EdgesHaveEnds
  <2>1. e.out \in Items /\ e.in \in Items
    BY GraphAssumption DEF Items
  <2> QED BY <2>1 DEF QInv, EdgesHaveEnds, OnlyGrows
<1> QED BY <1>1 DEF QInv, Grown, OnlyGrows

(* The request that answers: rows for a cut of what satisfies the query    *)
(* now, with the properties that their items have now.                     *)
LEMMA Answering ==
  ASSUME QInv, Running, NEW sel \in SUBSET Items, NEW s \in SUBSET sel,
         stage' = "closed", OnlyGrows, UNCHANGED <<query, began, always, ever>>,
         DOMAIN rows' = s, sel \subseteq ever,
         \/ always \subseteq s /\ Cardinality(s) = total'
         \/ Cardinality(s) = query.row_limit /\ query.row_limit < total',
         \A i \in s : shown'[i] \in Items /\ rows'[i] = stored'[shown'[i]],
         query.verb \in ByValue =>
            \A i \in s : shown'[i] = i /\ stored'[i] = query.value,
         query.verb = "pipe" =>
            \A e \in s : {query.vertex, shown'[e]} = {e.out, e.in}
  PROVE  QInv'
<1>1. Cardinality(s) \in Nat /\ query.row_limit \in Nat \ {0}
  BY ItemsFinite, QueriesAssumption DEF QInv, QType
<1>2. ItemsAnswer'
  BY <1>1 DEF ItemsAnswer, truncated
<1>3. PropertiesAreFresh'
  BY OnlyGrowsKeeps DEF PropertiesAreFresh
<1>4. QType' /\ EdgesHaveEnds' /\ Grown' /\ Tracked' /\ ItemsListed'
  BY OnlyGrowsKeeps DEF QInv, QType, Grown, Tracked, ItemsListed, Running, Listed,
         RunIsPermitted, OnlyGrows
<1> QED BY <1>2, <1>3, <1>4 DEF QInv, RowsAnswerQuery

LEMMA QProperties == QInv /\ Properties => QInv'
<1> SUFFICES ASSUME QInv, Properties PROVE QInv'
  OBVIOUS
<1>1. PICK s \in Cut(Selected) : rows' = [i \in s |-> Fetched(shown[i])]
  BY DEF Properties
<1>2. /\ stage = "properties" /\ Listed /\ Running /\ stage' = "closed"
      /\ query.verb \in Allowed
      /\ UNCHANGED <<stored, query, shown, began, always, ever>>
      /\ total' = IF query.verb \in ByValue THEN Cardinality(Selected) ELSE total
  BY DEF Properties, End, QInv, QType, history, Listed, Running
<1>3. ItemsListed /\ items \in SUBSET Items
  BY <1>2 DEF QInv, ItemsListed, There
<1>4. Selected \in SUBSET items
  BY DEF Selected
<1>5. /\ s \subseteq Selected
      /\ \/ s = Selected /\ Cardinality(Selected) <= query.row_limit
         \/ Cardinality(s) = query.row_limit
            /\ query.row_limit < Cardinality(Selected)
  BY <1>3, <1>4, CutIs DEF QInv, QType
<1>6. Selected \subseteq ever
      /\ \/ always \subseteq s /\ Cardinality(s) = total'
         \/ Cardinality(s) = query.row_limit /\ query.row_limit < total'
  <2>1. CASE query.verb \in ByValue
    BY <1>2, <1>5, <2>1, SelectedIs DEF QInv, Tracked
  <2>2. CASE query.verb \notin ByValue
    <3>1. Selected = items /\ total' = total
      BY <1>2, <2>2 DEF Selected
    <3>2. items \subseteq ever
          /\ \/ /\ Cardinality(items) = total /\ total <= query.row_limit
                /\ always \subseteq items
             \/ Cardinality(items) = query.row_limit /\ query.row_limit < total
      BY <1>2, <1>3, <2>2 DEF ItemsListed
    <3>3. query.row_limit \in Nat
      BY QueriesAssumption DEF QInv, QType
    <3> QED BY <1>5, <3>1, <3>2, <3>3
  <2> QED BY <2>1, <2>2
<1>7. \A i \in s : shown[i] \in Items /\ rows'[i] = stored[shown[i]]
  <2> TAKE i \in s
  <2>1. i \in items
    BY <1>4, <1>5
  <2>2. shown[i] \in Items
    <3>1. CASE query.verb = "pipe"
      BY <1>2, <1>3, <2>1, <3>1, GraphAssumption DEF ItemsListed, Other, Items
    <3>2. CASE query.verb # "pipe"
      BY <1>2, <1>3, <2>1, <3>2 DEF ItemsListed
    <3> QED BY <3>1, <3>2
  <2> QED BY <1>1, <2>2, FetchedIs
<1>8. query.verb \in ByValue =>
         \A i \in s : shown[i] = i /\ stored[i] = query.value
  BY <1>2, <1>3, <1>5, SelectedIs DEF ItemsListed, ByValue
<1>9. query.verb = "pipe" =>
         \A e \in s : {query.vertex, shown[e]} = {e.out, e.in}
  BY <1>2, <1>3, <1>4, <1>5 DEF ItemsListed, Other
<1>10. DOMAIN rows' = s /\ shown' = shown
  BY <1>1, <1>2
<1>11. OnlyGrows
  BY <1>2 DEF QInv, QType, OnlyGrows
<1> QED BY <1>2, <1>3, <1>4, <1>5, <1>6, <1>7, <1>8, <1>9, <1>10, <1>11, Answering

LEMMA QRun == QInv /\ Run => QInv'
<1> SUFFICES ASSUME QInv, Run PROVE QInv'
  OBVIOUS
<1>1. /\ stage = "run" /\ Running /\ query.verb = "cypher"
      /\ UNCHANGED <<query, began, always, ever>> /\ stage' = "closed"
      /\ query.verb \notin ByValue
  BY DEF Run, End, QInv, QType, history, Running, RunIsPermitted, ByValue
<1>2. OnlyGrows
  <2>1. stored' \in Effects \cup {stored} /\ stored \in [Items -> States]
    BY DEF Run, QInv, QType
  <2>2. ASSUME NEW v \in Vertices, stored' = [stored EXCEPT ![v] = "new"] PROVE OnlyGrows
    <3>1. v \notin Edges /\ v \in Items
      BY GraphAssumption DEF Items
    <3> QED BY <2>1, <2>2, <3>1, GraphAssumption DEF OnlyGrows, States, Items
  <2>3. CASE stored' = stored
    BY <2>1, <2>3 DEF OnlyGrows
  <2> QED BY <2>1, <2>2, <2>3 DEF Effects
<1>3. CASE answer' # "rows"
  <2>1. EdgesHaveEnds' /\ stored' \in [Items -> States]
    BY <1>1, <1>2, OnlyGrowsKeeps DEF OnlyGrows
  <2>2. QType'
    BY <1>1, <2>1 DEF QInv, QType, RunIsPermitted, Running
  <2>3. Grown' /\ Tracked' /\ ItemsListed' /\ RowsAnswerQuery'
    BY <1>1, <1>3 DEF Grown, Tracked, ItemsListed, RowsAnswerQuery, Running, Listed
  <2> QED BY <2>1, <2>2, <2>3 DEF QInv
<1>4. CASE /\ \E s \in Cut(There(Vertices)) :
                 /\ shown' = [i \in s |-> i]
                 /\ rows' = [i \in s |-> stored'[i]]
           /\ total' = Cardinality(There(Vertices))
  <2> DEFINE raw == There(Vertices)
  <2>2. PICK s \in Cut(raw) : /\ shown' = [i \in s |-> i]
                              /\ rows' = [i \in s |-> stored'[i]]
    BY <1>4
  <2>3. raw = Answers(stored) /\ raw \in SUBSET Items
    BY <1>1 DEF Answers, There, Items
  <2>4. always \subseteq raw /\ raw \subseteq ever
    BY <1>1, <2>3 DEF QInv, Tracked
  <2>5. /\ s \subseteq raw
        /\ \/ s = raw /\ Cardinality(raw) <= query.row_limit
           \/ Cardinality(s) = query.row_limit /\ query.row_limit < Cardinality(raw)
    BY <2>3, CutIs DEF QInv, QType
  <2>6. \/ always \subseteq s /\ Cardinality(s) = total'
        \/ Cardinality(s) = query.row_limit /\ query.row_limit < total'
    BY <1>4, <2>4, <2>5
  <2>7. DOMAIN rows' = s
        /\ \A i \in s : shown'[i] \in Items /\ rows'[i] = stored'[shown'[i]]
    BY <2>2, <2>3, <2>5
  <2> HIDE DEF raw
  <2> QED BY <1>1, <1>2, <2>3, <2>4, <2>5, <2>6, <2>7, Answering
<1> QED BY <1>3, <1>4 DEF Run, End

LEMMA QNext == QInv /\ [Next]_vars => QInv'
<1> SUFFICES ASSUME QInv, [Next]_vars PROVE QInv'
  OBVIOUS
<1>1. CASE Connect
  BY <1>1, QConnect
<1>2. CASE Reject
  BY <1>2, QEnds DEF Reject, End, history
<1>3. CASE List
  BY <1>3, QList
<1>4. CASE Neighbours
  BY <1>4, QNeighbours
<1>5. CASE Properties
  BY <1>5, QProperties
<1>6. CASE Fail
  BY <1>6, QEnds DEF Fail, End, history
<1>7. CASE Explain
  <2>1. CASE \E e \in Errors : End(e)
    BY <1>7, <2>1, QEnds DEF Explain, End, history, Errors
  <2>2. CASE Permitted /\ stage' = "run" /\ UNCHANGED answer
    <3>1. /\ UNCHANGED <<stored, query, items, shown, total, rows, began, always, ever>>
          /\ stage = "explain" /\ Running
      BY <1>7 DEF Explain, history, Running
    <3>2. QType'
      BY <2>2, <3>1 DEF QInv, QType, Running, RunIsPermitted, Permitted
    <3>3. EdgesHaveEnds' /\ Grown'
      BY <3>1 DEF QInv, EdgesHaveEnds, Grown
    <3>4. Tracked'
      BY <3>1, AnswersLater DEF QInv, Tracked
    <3>5. ItemsListed' /\ RowsAnswerQuery'
      BY <2>2, <3>1 DEF QInv, QType, ItemsListed, Listed, RowsAnswerQuery
    <3> QED BY <3>2, <3>3, <3>4, <3>5 DEF QInv
  <2> QED BY <1>7, <2>1, <2>2 DEF Explain, Errors
<1>8. CASE Run
  BY <1>8, QRun
<1>9. CASE \E i \in Items : Upsert(i)
  BY <1>9, QUpsert
<1>10. CASE UNCHANGED vars
  <2>1. QType' /\ EdgesHaveEnds' /\ Grown'
    BY <1>10 DEF vars, QInv, QType, EdgesHaveEnds, Grown, Running, RunIsPermitted,
                 Permitted
  <2>2. Tracked'
    BY <1>10, AnswersLater DEF vars, QInv, Tracked, Running
  <2>3. ItemsListed'
    BY <1>10 DEF vars, QInv, ItemsListed, Listed, There, Other
  <2>4. RowsAnswerQuery'
    BY <1>10 DEF vars, QInv, RowsAnswerQuery, ItemsAnswer, PropertiesAreFresh,
                 truncated
  <2> QED BY <2>1, <2>2, <2>3, <2>4 DEF QInv
<1> QED BY <1>1, <1>2, <1>3, <1>4, <1>5, <1>6, <1>7, <1>8, <1>9, <1>10 DEF Next

(* However the requests of a query and the upserts of another server       *)
(* interleave, the rows are for items that satisfied the query while it    *)
(* ran, all of them that did all along unless truncated says otherwise,    *)
(* each with properties of its own.                                        *)
THEOREM RowsCorrect == Spec => []RowsAnswerQuery
<1>1. QInv => RowsAnswerQuery
  BY DEF QInv
<1> QED BY <1>1, QInit, QNext, PTL DEF Spec
=============================================================================
