----------------------------- MODULE MCExporter -----------------------------
(* All units of Size cursors, and some of two more, with one symbol that   *)
(* can be declared again, one header and a type that points to another.    *)
EXTENDS Exporter, TLC

CONSTANTS h, ext, int, ptr, Size

MCPointee == (ptr :> int) @@ (int :> NoType)
MCSymbols == 1..(Size + 2) \cup {ext}

(* The kinds libclang puts under each kind. *)
Under ==
    [root |-> {"namespace", "class", "function", "variable", "include"},
     namespace |-> {"namespace", "class", "function", "include"},
     class |-> {"class", "method", "field", "base"},
     function |-> {"parameter", "other", "reference"},
     method |-> {"parameter", "other"},
     variable |-> {"reference", "call"}, field |-> {"reference"},
     other |-> {"call", "variable"}, call |-> {"reference"},
     reference |-> {"reference"}, base |-> {"reference"},
     parameter |-> {"reference"}, include |-> {}]

KindAt(u, c) == IF c = 0 THEN "root" ELSE u[c].kind
HereAt(u, c) == IF c = 0 THEN TRUE ELSE u[c].here

(* The cursors that the next one may be under: the last and all above it.  *)
Open(u) ==
    LET open[c \in 0..Len(u)] == IF c = 0 THEN {0} ELSE {c} \cup open[u[c].up]
    IN  open[Len(u)]

UsrsFor(u, kind) ==
    IF kind \notin DeclKinds THEN {None}
    ELSE {Symbol(Len(u) + 1)} \cup {u[d].usr : d \in {e \in DOMAIN u : u[e].kind = kind}}

RefsFor(u, kind) ==
    CASE kind = "include" -> {FileUsr(h), None}
      [] kind \in {"call", "reference", "base"} ->
            {Symbol(ext)} \cup {u[d].usr : d \in {e \in DOMAIN u : u[e].kind \in DeclKinds}}
      [] OTHER -> {None}

HeresFor(u, p) ==
    IF KindAt(u, p) \in {"root", "namespace"} THEN BOOLEAN ELSE {HereAt(u, p)}

(* One more cursor, of kind k under p. *)
Cursors(u, p, k) ==
    {[up |-> p, kind |-> k, here |-> y, usr |-> s, ref |-> r, def |-> Len(u) % 2 = 1,
      type |-> IF k = "parameter" THEN int ELSE ptr] :
        y \in HeresFor(u, p), s \in UsrsFor(u, k), r \in RefsFor(u, k)}

Extensions(u) ==
    UNION {UNION {{Append(u, x) : x \in Cursors(u, p, k)} : k \in Under[KindAt(u, p)]} :
              p \in Open(u)}

Grow(U, n) ==
    LET grown[i \in 0..n] ==
          IF i = 0 THEN U ELSE UNION {Extensions(u) : u \in grown[i - 1]}
    IN  grown[n]

(* Units that begin with a method's or a function's body go deeper.       *)
KindsOf(u) == [c \in DOMAIN u |-> u[c].kind]
Short == Grow({<<>>}, Size)
Seeds == {u \in Short : /\ KindsOf(u) \in {<<"class", "method", "other">>,
                                           <<"namespace", "function", "other">>,
                                           <<"function", "parameter", "other">>,
                                           <<"function", "function", "parameter">>}
                        /\ u[3].up = 2 \/ u[1].kind = "function"
                        /\ \A c \in 1..3 : u[c].here}
SmallUnits == Short \cup Grow(Seeds, 2)
=============================================================================
