------------------------------ MODULE AstWalker ------------------------------
(***************************************************************************)
(* get_ast: walk_json and walk_graph of core/ast_walker.py, the walks over *)
(* the cursors of a translation unit that stop when a budget of nodes or   *)
(* bytes is spent, and the checks of tools/get_ast.py before them.         *)
(*                                                                         *)
(* A tree is a sequence of cursors in the order of the depth-first walk,   *)
(* of which the first is the TRANSLATION_UNIT.  The recursion is a set of  *)
(* pending calls; the one for the least cursor is the next.  The nested    *)
(* "children" of one format and the "edges" of the other are both kept as  *)
(* pairs of node ids.  A cursor is its place, its lines and the length of  *)
(* its serialised node.                                                    *)
(***************************************************************************)
EXTENDS Integers, Sequences, FiniteSets

CONSTANTS
    Trees,      \* trees of cursors
    Asks,       \* what a caller may ask for
    NoLine      \* no start_line, no end_line

Cursor == [up: Nat, first: Nat, last: Nat, size: Nat \ {0}]
Line   == Nat \cup {NoLine}
Ask    == [format: {"json", "graph"}, depth: Nat \ {0}, start: Line, end: Line,
           maxNodes: Nat \ {0}, maxBytes: Nat \ {0}, fatal: BOOLEAN]

(* In a depth-first walk a cursor and all above it: what comes between one *)
(* of them and the cursor is not above the one.                            *)
Path(t, c) == {a \in 1..c : \A d \in (a + 1)..c : t[d].up >= a}

(* SourceTools assumes these of the constants. *)
TreesAreWalks ==
    /\ Trees \subseteq Seq(Cursor) \ {<<>>}
    /\ \A t \in Trees : \A c \in DOMAIN t :
          /\ t[c].up \in 0..(c - 1) /\ (t[c].up = 0 <=> c = 1)
          /\ c > 1 => t[c].up \in Path(t, c - 1)
AsksAreAsks == Asks \subseteq Ask /\ NoLine \notin Nat

VARIABLES
    tree, ask,
    status,     \* "called", "walking", "done", or the error that was raised
    pending,    \* calls of the walk to come
    nodes,      \* the cursors emitted: node i has id i
    links,      \* <<parent's id, id>>: edges, or entries of "children"
    marked,     \* ids of the nodes with truncated = true
    bytes,      \* bytes_estimate
    reason      \* truncation_reason, or "none" while truncated is false

vars == <<tree, ask, status, pending, nodes, links, marked, bytes, reason>>

Kids(c) == {d \in DOMAIN tree : tree[d].up = c}

Call(c, depth, parent) == [c |-> c, depth |-> depth, parent |-> parent]

Init ==
    /\ tree \in Trees /\ ask \in Asks
    /\ status = "called"
    /\ pending = {}
    /\ nodes = <<>> /\ links = {} /\ marked = {}
    /\ bytes = 0 /\ reason = "none"

-----------------------------------------------------------------------------
Fatal == ask.fatal /\ Kids(1) = {}

(* get_ast: the range, then whether there is anything to walk. *)
Begin ==
    /\ status = "called"
    /\ status' =
          CASE NoLine \notin {ask.start, ask.end} /\ ask.start > ask.end -> "INVALID_RANGE"
            [] Fatal -> "PARSE_ERROR"
            [] OTHER -> "walking"
    /\ pending' = {Call(1, 0, 0)}
    /\ UNCHANGED <<tree, ask, nodes, links, marked, bytes, reason>>

(* Mutant of Overlaps: a cursor must lie in the range. *)
Inside(x) ==
    /\ ask.end # NoLine => x.last <= ask.end
    /\ ask.start # NoLine => x.first >= ask.start
Overlaps(x) ==
    /\ ask.end # NoLine => x.first <= ask.end
    /\ ask.start # NoLine => x.last >= ask.start

Exhausted == reason # "none" /\ nodes # <<>>

IsNext(w) == w \in pending /\ \A v \in pending : w.c <= v.c

Omit(w) ==
    /\ ~ Exhausted /\ ~ Overlaps(tree[w.c])
    /\ pending' = pending \ {w}
    /\ UNCHANGED <<nodes, links, marked, bytes, reason>>

(* _Budget.charge: the node that spends a budget is the last one. *)
Spent(count, size) ==
    CASE count >= ask.maxNodes -> "max_nodes"
      [] count < ask.maxNodes /\ size >= ask.maxBytes -> "max_bytes"
      [] OTHER -> "none"

AtDepth(w) == ask.format = "json" /\ w.depth >= ask.depth

(* Mutant of Descend: a child is linked to its grandparent. *)
DescendFlat(w, id) == {Call(d, w.depth + 1, w.parent) : d \in Kids(w.c)}
Descend(w, id) == {Call(d, w.depth + 1, id) : d \in Kids(w.c)}

(* Mutant of Mark: the depth limit cuts and does not say so. *)
MarkNever(w, id) == marked' = marked
Mark(w, id) ==
    marked' = IF AtDepth(w) /\ Kids(w.c) # {} THEN marked \cup {id} ELSE marked

Emit(w) ==
    LET id == Len(nodes) + 1 IN
    /\ ~ Exhausted /\ Overlaps(tree[w.c])
    /\ nodes' = Append(nodes, w.c)
    /\ bytes' = bytes + tree[w.c].size
    /\ reason' = Spent(id, bytes + tree[w.c].size)
    /\ links' = IF w.parent = 0 THEN links ELSE links \cup {<<w.parent, id>>}
    /\ Mark(w, id)
    /\ pending' = (pending \ {w}) \cup (IF AtDepth(w) THEN {} ELSE Descend(w, id))

(* The budget is spent: every loop over children breaks. *)
Stop ==
    /\ Exhausted /\ pending # {}
    /\ pending' = {}
    /\ UNCHANGED <<nodes, links, marked, bytes, reason>>

Walk ==
    /\ status = "walking"
    /\ Stop \/ \E w \in pending : IsNext(w) /\ (Omit(w) \/ Emit(w))
    /\ UNCHANGED <<tree, ask, status>>

Return ==
    /\ status = "walking" /\ pending = {}
    /\ status' = "done"
    /\ UNCHANGED <<tree, ask, pending, nodes, links, marked, bytes, reason>>

Next == Begin \/ Walk \/ Return

Spec == Init /\ [][Next]_vars

-----------------------------------------------------------------------------
(* The walk without a budget, said of each cursor by what is above it: in  *)
(* the range together with everything above it, and not below the limit.   *)
Outside(c) == \/ ask.end # NoLine /\ ask.end < tree[c].first
              \/ ask.start # NoLine /\ tree[c].last < ask.start
Ranged == {c \in DOMAIN tree : \A a \in Path(tree, c) : ~ Outside(a)}
Whole == {c \in Ranged : ask.format = "json" => Cardinality(Path(tree, c)) <= ask.depth + 1}

(* Whatever budget cuts it short, the output is the beginning of the whole *)
(* walk: no cursor is skipped before one that is emitted, so the ids count *)
(* the cursors in source order, and the walk overruns neither budget by    *)
(* more than the node that spends it.                                      *)
IsBeginning ==
    LET shown == {nodes[i] : i \in DOMAIN nodes} IN
    /\ shown \subseteq Whole
    /\ \A c \in Whole \ shown : \A d \in shown : d < c
    /\ \A i, j \in DOMAIN nodes : i < j => nodes[i] < nodes[j]
    /\ Len(nodes) <= ask.maxNodes
    /\ nodes # <<>> => bytes - tree[nodes[Len(nodes)]].size < ask.maxBytes

(* Nothing is left out in silence: a response that is not truncated and in *)
(* which no node is has every cursor of the range, however deep.  A        *)
(* truncated one has spent the budget that it names.                       *)
OmissionIsMarked ==
    status = "done" =>
        /\ reason = "none" /\ marked = {} => {nodes[i] : i \in DOMAIN nodes} = Ranged
        /\ reason = "none" => {nodes[i] : i \in DOMAIN nodes} = Whole
        /\ reason = "max_nodes" => Len(nodes) = ask.maxNodes
        /\ reason = "max_bytes" => bytes >= ask.maxBytes

(* The emitted nodes are one tree, the cursors' own: "edges (only for      *)
(* emitted nodes - no dangling refs)" (line 329), each node below the node *)
(* of the cursor it is under, also where a budget cuts a family short.     *)
LinksAreTree ==
    links = {e \in (DOMAIN nodes) \X (DOMAIN nodes) : tree[nodes[e[2]]].up = nodes[e[1]]}
=============================================================================
