---------------------------- MODULE MCIngestCode ----------------------------
(* Two files: a.cpp calls into b.cpp, so the edge <<a1, b1>> of a.cpp has   *)
(* an end that only b.cpp yields, and a.cpp is ingested first.              *)
EXTENDS IngestCode, TLC

CONSTANTS r1, r2, fa, fb, a1, a2, b1

MCNodesOf == (fa :> {a1, a2}) @@ (fb :> {b1})
MCEdgesOf == (fa :> {<<a1, a2>>, <<a1, b1>>}) @@ (fb :> {<<b1, b1>>})
Both   == {<<fa, fb>>}

RunSymmetry == Permutations(Runs)
=============================================================================
