----------------------------- MODULE SymbolGraph -----------------------------
(***************************************************************************)
(* What ingest_code promises of the graph, whatever database it writes to, *)
(* however it groups its writes and whatever fails: records are only added *)
(* and only those that some file yields; an edge comes with both its ends  *)
(* or after them; and a run reports a file as processed only when all of   *)
(* the file is there.                                                      *)
(***************************************************************************)
CONSTANTS
    Runs, Files,
    NodesOf, EdgesOf    \* what a file yields, as in IngestCode

VARIABLES
    graph,      \* the records in the database
    reported    \* reported[r]: the files run r has reported as processed

vars == <<graph, reported>>

Yielded   == UNION {NodesOf[f] \cup EdgesOf[f] : f \in Files}
EdgesIn(X) == X \cap UNION {EdgesOf[f] : f \in Files}

(* The records of f that need no other file. *)
Whole(f) == NodesOf[f] \cup {e \in EdgesOf[f] : e[1] \in NodesOf[f] /\ e[2] \in NodesOf[f]}

Init ==
    /\ graph = {}
    /\ reported = [r \in Runs |-> {}]

Add ==
    /\ graph' \in SUBSET (graph \cup Yielded)
    /\ graph \subseteq graph'
    /\ \A e \in EdgesIn(graph' \ graph) : e[1] \in graph' /\ e[2] \in graph'
    /\ UNCHANGED reported

Report(r, f) ==
    /\ Whole(f) \subseteq graph
    /\ reported' = [reported EXCEPT ![r] = @ \cup {f}]
    /\ UNCHANGED graph

Next == Add \/ \E r \in Runs, f \in Files : Report(r, f)

Spec == Init /\ [][Next]_vars
=============================================================================
