------------------------------ MODULE Exporter ------------------------------
(***************************************************************************)
(* extract_nodes_and_edges of graphdb/exporter.py: the walk over the       *)
(* cursors of one translation unit that yields the node and edge records   *)
(* of one file, which IngestCode then writes.                              *)
(*                                                                         *)
(* A unit is a sequence of cursors in the order of the depth-first walk;   *)
(* the TRANSLATION_UNIT cursor itself is 0.  The recursion is a set of     *)
(* pending calls of _walk_cursor, of which the one for the least cursor is *)
(* the next; a call is a cursor and the context handed down to it.  Cursor *)
(* kinds the walk treats alike are one kind here, properties are left out, *)
(* and libclang's exceptions, which the code suppresses, do not happen.    *)
(***************************************************************************)
EXTENDS Integers, Sequences, FiniteSets

CONSTANTS
    Units,      \* translation units
    Symbols,    \* libclang's USRs
    Headers,    \* the other files
    Types,      \* spellings of types
    Pointee,    \* Pointee[t]: what t points or refers to, or NoType
    NoType,
    None        \* no USR

(* USRs of the records; ThisFile is _file_usr(file_path). *)
ThisFile    == <<"file">>
FileUsr(h)  == <<"header", h>>
Symbol(s)   == <<"symbol", s>>
TypeUsr(t)  == <<"type", t>>
Param(d, i) == <<"param", d, i>>

Declared  == {Symbol(s) : s \in Symbols}
Files     == {ThisFile} \cup {FileUsr(h) : h \in Headers}
Usr == Files \cup Declared
       \cup {TypeUsr(t) : t \in Types} \cup ({"param"} \X Declared \X Nat)

Functions == {"function", "method"}
DeclKinds == {"namespace", "class", "variable", "field"} \cup Functions
RefKinds  == {"reference"}              \* DECL_REF, MEMBER_REF, TYPE_REF
OtherKinds == {"call", "base", "parameter", "include", "other"}
Kinds == DeclKinds \cup RefKinds \cup OtherKinds

(* here: the cursor is in file_path or nowhere; usr and ref: its own USR   *)
(* and that of what it refers to, calls, derives from or includes.         *)
Cursor == [up: Nat, kind: Kinds, here: BOOLEAN, usr: Declared \cup {None},
           ref: Files \cup Declared \cup {None}, def: BOOLEAN, type: Types]

(* The walk is depth-first, and it is includes that refer to files. *)
ASSUME UnitsAssumption ==
    /\ Units \subseteq Seq(Cursor)
    /\ \A u \in Units : \A c \in DOMAIN u :
          /\ u[c].up < c /\ \A d \in (u[c].up + 1)..(c - 1) : u[d].up >= u[c].up
          /\ u[c].ref \in (IF u[c].kind = "include" THEN Files ELSE Declared) \cup {None}
ASSUME TypesAssumption ==
    /\ Pointee \in [Types -> Types \cup {NoType}] /\ NoType \notin Types
    /\ None \notin Usr

VARIABLES unit,     \* the translation unit
          pending,  \* calls of _walk_cursor to come
          nodes,    \* the node records
          edges,    \* the edge records: <<source, type, target>>
          seen,     \* seen_usrs
          done      \* whether the two lists have been returned

vars == <<unit, pending, nodes, edges, seen, done>>

Call(c, parent, kind, function) ==
    [c |-> c, parent |-> parent, kind |-> kind, function |-> function]

Kids(c) == {d \in DOMAIN unit : unit[d].up = c}

(* The calls for the children of c, all with the same context. *)
Descend(c, parent, kind, function) ==
    {Call(d, parent, kind, function) : d \in Kids(c)}

(* A record of a node, with the cursor its properties come from.           *)
Record(label, usr, c) == [label |-> label, usr |-> usr, at |-> c]

(* The walk of the root hands its context, which is empty, to its children. *)
Init ==
    /\ unit \in Units
    /\ pending = Descend(0, None, "none", None)
    /\ nodes = {Record("File", ThisFile, 0)}
    /\ edges = {}
    /\ seen = {ThisFile}
    /\ done = FALSE

-----------------------------------------------------------------------------
(* One call of _walk_cursor, w, on cursor x: its cases in the code's order. *)

IsNext(w) == w \in pending /\ \A v \in pending : w.c <= v.c

(* Records for USRs that have not been seen; the mutant takes all.         *)
EmitAlways(records) ==
    /\ nodes' = nodes \cup records
    /\ seen' = seen \cup {n.usr : n \in records}

Emit(records) ==
    /\ nodes' = nodes \cup {n \in records : n.usr \notin seen}
    /\ seen' = seen \cup {n.usr : n \in records}

Rest(w) == pending \ {w}

SkipParameter(w, x) ==
    /\ x.kind = "parameter"
    /\ pending' = Rest(w)
    /\ UNCHANGED <<nodes, edges, seen>>

Include(w, x) ==
    /\ x.kind = "include"
    /\ IF x.ref = None THEN UNCHANGED <<nodes, edges, seen>>
       ELSE /\ Emit({Record("File", x.ref, w.c)})
            /\ edges' = edges \cup {<<ThisFile, "INCLUDES", x.ref>>}
    /\ pending' = Rest(w)

(* From the function around the use-site, or else from the file. *)
Reference(w, x) ==
    /\ x.kind \in RefKinds
    /\ LET source == IF w.function # None THEN w.function ELSE ThisFile IN
       edges' = edges \cup (IF x.ref = None THEN {}
                            ELSE {<<source, "REFERENCES", x.ref>>})
    /\ pending' = Rest(w) \cup Descend(w.c, w.parent, w.kind, w.function)
    /\ UNCHANGED <<nodes, seen>>

Walked(x) == x.kind \notin RefKinds \cup {"parameter", "include"}

(* Mutant of Elsewhere: its children have it as their parent. *)
ElsewhereAsParent(w, x) ==
    /\ Walked(x) /\ ~ x.here
    /\ pending' = Rest(w) \cup Descend(w.c, x.usr, x.kind, w.function)
    /\ UNCHANGED <<nodes, edges, seen>>

(* A cursor of another file: its children lose the parent. *)
Elsewhere(w, x) ==
    /\ Walked(x) /\ ~ x.here
    /\ pending' = Rest(w) \cup Descend(w.c, None, "none", w.function)
    /\ UNCHANGED <<nodes, edges, seen>>

(* Mutant of PassThrough: its children lose the context. *)
PassNothing(w, x) ==
    /\ Walked(x) /\ x.here
    /\ x.kind \notin DeclKinds \/ x.usr = None
    /\ pending' = Rest(w) \cup Descend(w.c, None, "none", None)
    /\ UNCHANGED <<nodes, edges, seen>>

(* A cursor that is no symbol: its children keep the context. *)
PassThrough(w, x) ==
    /\ Walked(x) /\ x.here
    /\ x.kind \notin DeclKinds \/ x.usr = None
    /\ pending' = Rest(w) \cup Descend(w.c, w.parent, w.kind, w.function)
    /\ UNCHANGED <<nodes, edges, seen>>

-----------------------------------------------------------------------------
(* A symbol of this file. *)

(* Mutant of NewTypes: only t itself. *)
NewTypeAlone(t) == IF TypeUsr(t) \in seen THEN {} ELSE {t}

(* _get_or_create_type: t and what it points to, up to a type that has     *)
(* been seen, and the edges between them.                                  *)
NewTypes(t) ==
    LET unseen(y) == y # NoType /\ TypeUsr(y) \notin seen
        closed(S) == /\ unseen(t) => t \in S
                     /\ \A y \in S : unseen(Pointee[y]) => Pointee[y] \in S
    IN  {y \in Types : \A S \in SUBSET Types : closed(S) => y \in S}
TypeNodes(T, c) == {Record("Type", TypeUsr(t), c) : t \in T}
TypeEdges(T) == {<<TypeUsr(t), "POINTS_TO", TypeUsr(Pointee[t])>> :
                    t \in {y \in T : Pointee[y] # NoType}}

(* get_arguments(): the parameters of function c, by their number. *)
Arguments(c) == {d \in Kids(c) : unit[d].kind = "parameter"}
Index(d) == Cardinality({e \in Arguments(unit[d].up) : e < d})
NewArguments(c, x) == {d \in Arguments(c) : Param(x.usr, Index(d)) \notin seen}

(* The edge between x and its parent: a member's goes up, any other down. *)
ParentEdge(w, x) ==
    LET type == IF x.def THEN "DEFINES" ELSE "DECLARES" IN
    CASE w.parent = None -> <<ThisFile, type, x.usr>>
      [] w.parent # None /\ w.kind = "class" /\ x.kind \in {"field", "method"} ->
            <<x.usr, "MEMBER_OF", w.parent>>
      [] OTHER -> <<w.parent, type, x.usr>>

Bases(c, x) ==
    IF x.kind # "class" THEN {}
    ELSE {unit[d].ref : d \in {b \in Kids(c) : unit[b].kind = "base"}} \ {None}

(* CALL_EXPR is asked for here, among the symbols.                         *)
Callees(w, x) ==
    IF x.kind = "call" /\ x.ref # None /\ w.parent # None THEN {x.ref} ELSE {}

Declare(w, x) ==
    LET isFunction == x.kind \in Functions
        isVariable == x.kind \in {"field", "variable"} /\ x.usr \notin seen
        args  == IF isFunction THEN NewArguments(w.c, x) ELSE {}
        types == (IF isFunction \/ isVariable THEN NewTypes(x.type) ELSE {})
                 \cup UNION {NewTypes(unit[d].type) : d \in args}
        arg(d) == Param(x.usr, Index(d))
    IN
    /\ Walked(x) /\ x.here /\ x.kind \in DeclKinds /\ x.usr # None
    /\ Emit({Record(x.kind, x.usr, w.c)} \cup TypeNodes(types, w.c)
            \cup {Record("Parameter", arg(d), d) : d \in args})
    /\ edges' = edges \cup {ParentEdge(w, x)} \cup TypeEdges(types)
          \cup {<<x.usr, "INHERITS", b>> : b \in Bases(w.c, x)}
          \cup {<<w.parent, "CALLS", f>> : f \in Callees(w, x)}
          \cup (IF isVariable THEN {<<x.usr, "OF_TYPE", TypeUsr(x.type)>>} ELSE {})
          \cup (IF isFunction THEN {<<x.usr, "RETURNS", TypeUsr(x.type)>>} ELSE {})
          \cup {<<x.usr, "HAS_PARAM", arg(d)>> : d \in args}
          \cup {<<arg(d), "OF_TYPE", TypeUsr(unit[d].type)>> : d \in args}
    /\ pending' = Rest(w) \cup
          Descend(w.c, x.usr, x.kind, IF isFunction THEN x.usr ELSE w.function)

-----------------------------------------------------------------------------
Walk(w) ==
    LET x == unit[w.c] IN
    /\ IsNext(w)
    /\ \/ SkipParameter(w, x) \/ Include(w, x) \/ Reference(w, x)
       \/ Elsewhere(w, x) \/ PassThrough(w, x) \/ Declare(w, x)
    /\ UNCHANGED <<unit, done>>

(* The reference that a call implies is dropped. *)
Return ==
    /\ pending = {} /\ ~ done
    /\ edges' = {e \in edges : ~ (e[2] = "REFERENCES" /\ <<e[1], "CALLS", e[3]>> \in edges)}
    /\ done' = TRUE
    /\ UNCHANGED <<unit, pending, nodes, seen>>

Next == Return \/ \E w \in pending : Walk(w)

Spec == Init /\ [][Next]_vars

-----------------------------------------------------------------------------
(* What a batch promises the drivers, which write node by node: one record *)
(* for each USR, and seen_usrs is exactly the USRs of the records.         *)
OneRecordPerUsr ==
    /\ seen = {n.usr : n \in nodes}
    /\ \A m, n \in nodes : m.usr = n.usr => m = n

(* Every edge of a batch starts at a node of the same batch.  IngestCode   *)
(* assumes it of the files it is given (ExtractionAssumption): it is why   *)
(* an edge can only get lost for want of its target.                       *)
SourcesInBatch == \A e \in edges : e[1] \in seen

(* The records of a unit, said of each cursor by what is above it: what    *)
(* comes between a cursor and one above it is not above the latter.        *)
Above(c) == {a \in 1..(c - 1) : \A d \in (a + 1)..c : unit[d].up >= a}

Nearest(S) == CHOOSE a \in S : \A b \in S : b <= a

IsSymbol(c) == unit[c].here /\ unit[c].kind \in DeclKinds /\ unit[c].usr # None
Visited(c) == \A a \in Above(c) : unit[a].kind \notin {"parameter", "include"}
SymbolCursors == {c \in DOMAIN unit : IsSymbol(c) /\ Visited(c)}

(* The nearest symbol above c, when nothing of another file lies between;  *)
(* and the nearest function.                                               *)
Around(c) ==
    LET stops == {a \in Above(c) : IsSymbol(a) \/ (~ unit[a].here /\ Walked(unit[a]))} IN
    IF stops = {} \/ ~ unit[Nearest(stops)].here THEN 0 ELSE Nearest(stops)
FunctionOf(c) ==
    LET functions == {a \in Above(c) : IsSymbol(a) /\ unit[a].kind \in Functions} IN
    IF functions = {} THEN ThisFile ELSE unit[Nearest(functions)].usr

MemberEdges ==
    {<<unit[c].usr, "MEMBER_OF", unit[Around(c)].usr>> :
        c \in {d \in SymbolCursors : /\ Around(d) # 0 /\ unit[Around(d)].kind = "class"
                                     /\ unit[d].kind \in {"field", "method"}}}

ScopeEdges ==
    {<<IF Around(c) = 0 THEN ThisFile ELSE unit[Around(c)].usr,
       IF unit[c].def THEN "DEFINES" ELSE "DECLARES", unit[c].usr>> :
        c \in {d \in SymbolCursors : ~ (/\ Around(d) # 0 /\ unit[Around(d)].kind = "class"
                                        /\ unit[d].kind \in {"field", "method"})}}

ReferenceEdges ==
    {<<FunctionOf(c), "REFERENCES", unit[c].ref>> :
        c \in {d \in DOMAIN unit : unit[d].kind \in RefKinds /\ unit[d].ref # None /\ Visited(d)}}

(* When the walk is over the structure is complete and has nothing more: a *)
(* symbol node for each symbol of this file that is walked, each symbol    *)
(* under the scope around it and each use-site under its function,         *)
(* whatever lies between them and whatever is declared again.  (Use-sites  *)
(* in other files count too: the filter comes after them.)                 *)
OfType(types) == {e \in edges : e[2] \in types}
WalkIsComplete ==
    done =>
        /\ {n.usr : n \in nodes} \cap Declared = {unit[c].usr : c \in SymbolCursors}
        /\ OfType({"MEMBER_OF"}) = MemberEdges
        /\ OfType({"DEFINES", "DECLARES"}) = ScopeEdges
        /\ OfType({"REFERENCES"}) = ReferenceEdges

(* Every type that has a node has the nodes and edges of all it points to, *)
(* though the chain stops at the first type seen before.                   *)
TypeChainsClosed ==
    \A t \in Types : TypeUsr(t) \in seen /\ Pointee[t] # NoType =>
        <<TypeUsr(t), "POINTS_TO", TypeUsr(Pointee[t])>> \in edges
            /\ TypeUsr(Pointee[t]) \in seen

(* "CALL_EXPR -> CALLS callee" (exporter.py, line 47): a call in a         *)
(* function of this file gives an edge to what is called.                  *)
CallsAreEmitted ==
    done => \A c \in DOMAIN unit :
        /\ unit[c].kind = "call" /\ unit[c].ref # None /\ Visited(c)
        /\ Around(c) # 0 /\ unit[Around(c)].kind \in Functions
        => <<unit[Around(c)].usr, "CALLS", unit[c].ref>> \in edges
=============================================================================
