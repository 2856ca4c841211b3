---------------------------- MODULE MCGraphQuery ----------------------------
(* Two vertices, two edges from one to the other and one back, and every   *)
(* verb, and Cypher queries that read or write, with limits of 1 and 2.    *)
EXTENDS GraphQuery, TLC

CONSTANTS f, g

SmallTypes == (f :> "File") @@ (g :> "Function")

Edge(out, t, in) == [out |-> out, t |-> t, in |-> in]
SmallEdges == {Edge(f, "REFERENCES", g), Edge(f, "CALLS", g), Edge(g, "CALLS", f)}

(* The operators of plans: Sets is one like SetPropertiesFromMap, whose    *)
(* name has none of the prefixes.                                          *)
Op(name, writes) == [name |-> name, writes |-> writes]
Reads   == Op("other", FALSE)
Creates == Op("listed", TRUE)
Calls   == Op("procedure", TRUE)
Sets    == Op("other", TRUE)

Plans == {<<Reads>>, <<Creates>>, <<Reads, Creates>>, <<Reads, Reads, Calls>>, <<Reads, Sets>>}

Limits == {1, 2}
SmallQueries ==
    [verb: {"all_vertices", "all_edges"}, row_limit: Limits]
    \cup [verb: {"malformed", "delete_vertices"}, row_limit: {1}]
    \cup [verb: {"vertex_with_type"}, t: {"Function"}, row_limit: {1}]
    \cup [verb: {"edge_with_type"}, t: {"CALLS"}, row_limit: Limits]
    \cup [verb: ByValue, value: {"bare", "old", "new"}, row_limit: Limits]
    \cup [verb: {"pipe"}, vertex: {f, g}, direction: {"outbound", "inbound"},
          t: {"any", "CALLS"}, row_limit: Limits]
    \cup [verb: {"cypher"}, row_limit: Limits, plan: Plans]
=============================================================================
