---------------------------- MODULE ExporterProofs ----------------------------
(***************************************************************************)
(* For any translation unit, whatever its symbols, headers and types: a    *)
(* batch has one record for each USR, every edge of it starts at a node of *)
(* it, nothing that the unit has is missing from it, and its types are     *)
(* there with all they point to.                                           *)
(*                                                                         *)
(* The first invariant adds what the pending calls were handed down: a     *)
(* parent and a function from which the edges to come will start           *)
(* (Contexts).  The second says which parent and which function, by what   *)
(* is above the call's cursor, and that the records are those of the       *)
(* cursors that no pending call is for or above (YieldInv).                *)
(***************************************************************************)
EXTENDS Exporter, FiniteSetTheorems, WellFoundedInduction, TLAPS

(* The scope and the function around a call have records already. *)
Contexts ==
    /\ unit \in Units
    /\ ThisFile \in seen
    /\ \A w \in pending : /\ w.c \in DOMAIN unit
                          /\ w.parent \in seen \cup {None}
                          /\ w.function \in seen \cup {None}

Inv == Contexts /\ SourcesInBatch /\ OneRecordPerUsr

LEMMA InitInv == Init => Inv
  BY DEF Init, Inv, Contexts, SourcesInBatch, OneRecordPerUsr, Descend, Call, Kids, Record

-----------------------------------------------------------------------------
(* What a call hands down to its children. *)
LEMMA Handed ==
  ASSUME NEW w, NEW parent, NEW kind, NEW function, Contexts, seen \subseteq seen',
         UNCHANGED unit, parent \in seen' \cup {None}, function \in seen' \cup {None},
         pending' = Rest(w) \cup Descend(w.c, parent, kind, function)
  PROVE  Contexts'
  BY DEF Contexts, Rest, Descend, Call, Kids

(* Records whose USRs differ are added where their USRs are new. *)
LEMMA Emitted ==
  ASSUME OneRecordPerUsr, NEW records, Emit(records),
         \A m, n \in records : m.usr = n.usr => m = n
  PROVE  /\ OneRecordPerUsr'
         /\ seen \subseteq seen'
         /\ \A n \in records : n.usr \in seen'
  BY DEF OneRecordPerUsr, Emit

(* The parameters of a function are numbered without a number twice. *)
LEMMA IndexIsInjective ==
  ASSUME unit \in Units, NEW c, NEW d \in Arguments(c), NEW e \in Arguments(c),
         Index(d) = Index(e)
  PROVE  d = e
<1> DEFINE below(b) == {a \in Arguments(c) : a < b}
<1>1. Arguments(c) \subseteq 1..Len(unit) /\ Len(unit) \in Nat
  BY UnitsAssumption DEF Arguments, Kids
<1>2. IsFiniteSet(Arguments(c))
  <2>1. IsFiniteSet(1..Len(unit))
    BY <1>1, FS_Interval
  <2> QED BY <1>1, <2>1, FS_Subset
<1>3. ASSUME NEW b PROVE IsFiniteSet(below(b)) /\ Cardinality(below(b)) \in Nat
  BY <1>2, FS_Subset, FS_CardinalityType
<1>4. ASSUME NEW a \in Arguments(c), NEW b \in Arguments(c), a < b
      PROVE  Cardinality(below(a)) < Cardinality(below(b))
  <2>1. below(a) \subseteq below(b) /\ a \in below(b) /\ a \notin below(a)
    BY <1>1, <1>4
  <2>2. below(a) # below(b)
    BY <2>1
  <2>3. Cardinality(below(a)) <= Cardinality(below(b))
        /\ (Cardinality(below(a)) = Cardinality(below(b)) => below(a) = below(b))
    BY <1>3, <2>1, FS_Subset
  <2> HIDE DEF below
  <2> QED BY <1>3, <2>2, <2>3
<1>5. Index(d) = Cardinality(below(d)) /\ Index(e) = Cardinality(below(e))
  BY DEF Index, Arguments, Kids
<1> HIDE DEF below
<1>6. Cardinality(below(d)) = Cardinality(below(e)) /\ Cardinality(below(d)) \in Nat
  BY <1>3, <1>5
<1>7. ~ (d < e) /\ ~ (e < d)
  BY <1>4, <1>6
<1> QED BY <1>1, <1>7

-----------------------------------------------------------------------------
(* The calls that yield no symbol. *)
LEMMA OtherCalls ==
  ASSUME Inv, NEW w \in pending, NEW x, UNCHANGED unit,
         SkipParameter(w, x) \/ Include(w, x) \/ Reference(w, x)
            \/ Elsewhere(w, x) \/ PassThrough(w, x)
  PROVE  Inv'
<1> USE DEF Inv
<1>1. w.parent \in seen \cup {None} /\ w.function \in seen \cup {None}
  BY DEF Contexts
<1>2. CASE SkipParameter(w, x)
  BY <1>2 DEF SkipParameter, Contexts, SourcesInBatch, OneRecordPerUsr, Rest
<1>3. CASE Include(w, x)
  <2>1. CASE x.ref = None
    BY <1>3, <2>1 DEF Include, Contexts, SourcesInBatch, OneRecordPerUsr, Rest
  <2>2. CASE x.ref # None
    <3>1. Emit({Record("File", x.ref, w.c)})
      BY <1>3, <2>2 DEF Include
    <3>2. OneRecordPerUsr' /\ seen \subseteq seen'
      BY <3>1, Emitted
    <3>3. Contexts'
      BY <1>3, <3>2 DEF Include, Contexts, Rest
    <3>4. SourcesInBatch'
      BY <1>3, <2>2, <3>2 DEF Include, SourcesInBatch, Contexts
    <3> QED BY <3>2, <3>3, <3>4
  <2> QED BY <2>1, <2>2
<1>4. CASE Reference(w, x)
  <2>1. Contexts'
    BY <1>1, <1>4, Handed DEF Reference
  <2>2. SourcesInBatch'
    BY <1>1, <1>4 DEF Reference, SourcesInBatch, Contexts
  <2> QED BY <1>4, <2>1, <2>2 DEF Reference, OneRecordPerUsr
<1>5. CASE Elsewhere(w, x)
  BY <1>1, <1>5, Handed DEF Elsewhere, SourcesInBatch, OneRecordPerUsr
<1>6. CASE PassThrough(w, x)
  BY <1>1, <1>6, Handed DEF PassThrough, SourcesInBatch, OneRecordPerUsr
<1> QED BY <1>2, <1>3, <1>4, <1>5, <1>6

(* A symbol with its types and parameters. *)
LEMMA Declaration ==
  ASSUME Inv, NEW w \in pending, UNCHANGED unit, Declare(w, unit[w.c])
  PROVE  Inv'
<1> DEFINE x == unit[w.c]
           isFunction == x.kind \in Functions
           isVariable == x.kind \in {"field", "variable"} /\ x.usr \notin seen
           args  == IF isFunction THEN NewArguments(w.c, x) ELSE {}
           types == (IF isFunction \/ isVariable THEN NewTypes(x.type) ELSE {})
                    \cup UNION {NewTypes(unit[d].type) : d \in args}
           arg(d) == Param(x.usr, Index(d))
           records == {Record(x.kind, x.usr, w.c)} \cup TypeNodes(types, w.c)
                      \cup {Record("Parameter", arg(d), d) : d \in args}
<1> USE DEF Inv
<1>1. x.usr \in Declared
  <2>1. unit \in Seq(Cursor) /\ w.c \in DOMAIN unit
    BY UnitsAssumption DEF Contexts
  <2>2. unit[w.c] \in Cursor
    BY <2>1
  <2>3. unit[w.c].usr \in Declared \cup {None}
    BY <2>2 DEF Cursor
  <2> QED BY <2>3 DEF Declare
<1>2. Emit(records)
  BY DEF Declare
<1>3. args \subseteq Arguments(w.c) /\ unit \in Units
  BY DEF NewArguments, Contexts
<1>4. pending' = Rest(w) \cup
          Descend(w.c, x.usr, x.kind, IF isFunction THEN x.usr ELSE w.function)
  BY DEF Declare
<1>5. edges' = edges \cup {ParentEdge(w, x)} \cup TypeEdges(types)
          \cup {<<x.usr, "INHERITS", b>> : b \in Bases(w.c, x)}
          \cup {<<w.parent, "CALLS", f>> : f \in Callees(w, x)}
          \cup (IF isVariable THEN {<<x.usr, "OF_TYPE", TypeUsr(x.type)>>} ELSE {})
          \cup (IF isFunction THEN {<<x.usr, "RETURNS", TypeUsr(x.type)>>} ELSE {})
          \cup {<<x.usr, "HAS_PARAM", arg(d)>> : d \in args}
          \cup {<<arg(d), "OF_TYPE", TypeUsr(unit[d].type)>> : d \in args}
  BY DEF Declare
<1> HIDE DEF args, types
<1>6. \A m, n \in records : m.usr = n.usr => m = n
  <2>1. \A d, e \in args : arg(d) = arg(e) => d = e
    BY <1>3, IndexIsInjective DEF Param
  <2>2. \A t \in types : TypeUsr(t) \notin Declared /\ \A d \in args : TypeUsr(t) # arg(d)
    BY DEF TypeUsr, Declared, Symbol, Param
  <2>3. \A d \in args : arg(d) \notin Declared
    BY DEF Declared, Symbol, Param
  <2>4. \A s, t \in types : TypeUsr(s) = TypeUsr(t) => s = t
    BY DEF TypeUsr
  <2> QED BY <1>1, <2>1, <2>2, <2>3, <2>4 DEF TypeNodes, Record
<1>7. /\ OneRecordPerUsr' /\ seen \subseteq seen'
      /\ \A n \in records : n.usr \in seen'
  BY <1>2, <1>6, Emitted
<1>8. /\ x.usr \in seen'
      /\ \A t \in types : TypeUsr(t) \in seen'
      /\ \A d \in args : arg(d) \in seen'
  <2>1. Record(x.kind, x.usr, w.c) \in records
    OBVIOUS
  <2>2. ASSUME NEW t \in types PROVE Record("Type", TypeUsr(t), w.c) \in records
    BY DEF TypeNodes
  <2>3. ASSUME NEW d \in args PROVE Record("Parameter", arg(d), d) \in records
    OBVIOUS
  <2> HIDE DEF records, x, arg
  <2> QED BY <1>7, <2>1, <2>2, <2>3 DEF Record
<1>9. w.parent \in seen' \cup {None} /\ w.function \in seen' \cup {None} /\ ThisFile \in seen'
  BY <1>7 DEF Contexts
<1>10. Contexts'
  BY <1>4, <1>7, <1>8, <1>9, Handed
<1>11. SourcesInBatch'
  <2>1. ParentEdge(w, x)[1] \in seen'
    BY <1>8, <1>9 DEF ParentEdge
  <2>2. \A e \in TypeEdges(types) : e[1] \in seen'
    BY <1>8 DEF TypeEdges
  <2>3. \A f \in Callees(w, x) : w.parent \in seen'
    BY <1>9 DEF Callees
  <2>4. \A e \in edges : e[1] \in seen'
    BY <1>7 DEF SourcesInBatch
  <2> HIDE DEF x, arg
  <2>5. ASSUME NEW e \in edges' PROVE e[1] \in seen'
    BY <1>5, <1>8, <2>1, <2>2, <2>3, <2>4
  <2> QED BY <2>5 DEF SourcesInBatch
<1> QED BY <1>7, <1>10, <1>11

LEMMA NextInv == Inv /\ [Next]_vars => Inv'
<1> SUFFICES ASSUME Inv, [Next]_vars PROVE Inv'
  OBVIOUS
<1>1. CASE Return
  BY <1>1 DEF Return, Inv, Contexts, SourcesInBatch, OneRecordPerUsr
<1>2. ASSUME NEW w \in pending, Walk(w) PROVE Inv'
  BY <1>2, OtherCalls, Declaration DEF Walk
<1>3. CASE UNCHANGED vars
  BY <1>3 DEF vars, Inv, Contexts, SourcesInBatch, OneRecordPerUsr
<1> QED BY <1>1, <1>2, <1>3 DEF Next

LEMMA Invariance == Spec => []Inv
  BY InitInv, NextInv, PTL DEF Spec

(* However often a symbol is declared, and whichever walks meet a type or  *)
(* a parameter, the batch that upsert_nodes gets has one record of it.     *)
THEOREM UsrsAreUnique == Spec => []OneRecordPerUsr
  BY Invariance, PTL DEF Inv

(* The drivers drop an edge only for want of its target: this is what      *)
(* IngestCode assumes of the files (ExtractionAssumption).                 *)
THEOREM SourcesAreYielded == Spec => []SourcesInBatch
  BY Invariance, PTL DEF Inv
-----------------------------------------------------------------------------
(* What the walk has yielded.  A cursor is behind it when no pending call  *)
(* is for the cursor or for one above it, and a pending call knows of its  *)
(* cursor what the properties say by what is above that.                   *)

Barren == {"parameter", "include"}      \* nothing below these is walked

Behind == {c \in DOMAIN unit : Visited(c) /\ \A w \in pending : w.c # c /\ w.c \notin Above(c)}

(* The call for c. *)
Due(c) ==
    Call(c, IF Around(c) = 0 THEN None ELSE unit[Around(c)].usr,
            IF Around(c) = 0 THEN "none" ELSE unit[Around(c)].kind,
            IF FunctionOf(c) = ThisFile THEN None ELSE FunctionOf(c))

CallsAreDue ==
    /\ \A w \in pending : w.c \in DOMAIN unit /\ Visited(w.c) /\ w = Due(w.c)
    /\ \A v, w \in pending : v.c \notin Above(w.c)

(* The edges that the structure has for c. *)
Structure == {"MEMBER_OF", "DEFINES", "DECLARES", "REFERENCES"}
IsMember(c) ==
    Around(c) # 0 /\ unit[Around(c)].kind = "class" /\ unit[c].kind \in {"field", "method"}
Scope(c) ==
    IF IsMember(c) THEN <<unit[c].usr, "MEMBER_OF", unit[Around(c)].usr>>
    ELSE <<IF Around(c) = 0 THEN ThisFile ELSE unit[Around(c)].usr,
           IF unit[c].def THEN "DEFINES" ELSE "DECLARES", unit[c].usr>>
Uses(c) == unit[c].kind \in RefKinds /\ unit[c].ref # None
Yield(c) ==
    (IF IsSymbol(c) THEN {Scope(c)} ELSE {})
    \cup (IF Uses(c) THEN {<<FunctionOf(c), "REFERENCES", unit[c].ref>>} ELSE {})

YieldInv ==
    /\ CallsAreDue
    /\ seen \cap Declared = {unit[c].usr : c \in {d \in Behind : IsSymbol(d)}}
    /\ OfType(Structure) = UNION {Yield(c) : c \in Behind}
    /\ OfType({"CALLS"}) = {}
    /\ done => pending = {}

-----------------------------------------------------------------------------
(* What is above a cursor *)

LEMMA LeastNat ==
  ASSUME NEW S \in SUBSET Nat, S # {}
  PROVE  \E m \in S : \A n \in S : m <= n
<1> DEFINE R == OpToRel(<, Nat)
<1>1. IsWellFoundedOn(R, Nat)
  BY NatLessThanWellFounded
<1>2. \A x, y \in Nat : x < y => <<x, y>> \in R
  BY DEF OpToRel
<1> HIDE DEF R
<1>3. PICK m \in S : \A n \in S : ~ (<<n, m>> \in R)
  BY <1>1, WFMin
<1>4. \A n \in S : ~ (n < m)
  BY <1>2, <1>3
<1>5. \A n \in S : m <= n
  BY <1>4
<1> QED BY <1>5

LEMMA UnitFacts ==
  ASSUME unit \in Units
  PROVE  /\ Len(unit) \in Nat /\ DOMAIN unit = 1..Len(unit)
         /\ \A c \in DOMAIN unit :
               /\ c \in Nat \ {0} /\ unit[c].up \in Nat /\ unit[c].up < c
               /\ \A d \in (unit[c].up + 1)..(c - 1) : unit[d].up >= unit[c].up
               /\ unit[c].usr \in Declared \cup {None}
               /\ unit[c].ref \in (IF unit[c].kind = "include" THEN Files ELSE Declared)
                                    \cup {None}
               /\ unit[c].type \in Types
<1>1. unit \in Seq(Cursor)
  BY UnitsAssumption
<1>2. Len(unit) \in Nat /\ DOMAIN unit = 1..Len(unit) /\ \A c \in DOMAIN unit : unit[c] \in Cursor
  BY <1>1
<1>3. \A c \in DOMAIN unit : /\ unit[c].up \in Nat /\ unit[c].usr \in Declared \cup {None}
                             /\ unit[c].type \in Types
  BY <1>2 DEF Cursor
<1>4. \A c \in DOMAIN unit :
         /\ unit[c].up < c /\ \A d \in (unit[c].up + 1)..(c - 1) : unit[d].up >= unit[c].up
         /\ unit[c].ref \in (IF unit[c].kind = "include" THEN Files ELSE Declared) \cup {None}
  BY UnitsAssumption
<1>5. \A c \in DOMAIN unit : c \in Nat \ {0}
  BY <1>2
<1> QED BY <1>2, <1>3, <1>4, <1>5

(* Above a cursor are the cursor that it is under and what is above that. *)
LEMMA AboveStep ==
  ASSUME unit \in Units, NEW c \in DOMAIN unit
  PROVE  /\ \A a \in Above(c) : a \in DOMAIN unit /\ a < c
         /\ unit[c].up = 0 => Above(c) = {}
         /\ unit[c].up # 0 => /\ unit[c].up \in DOMAIN unit
                              /\ Above(c) = Above(unit[c].up) \cup {unit[c].up}
<1>1. /\ Len(unit) \in Nat /\ DOMAIN unit = 1..Len(unit) /\ c \in Nat \ {0}
      /\ \A d \in DOMAIN unit : unit[d].up \in Nat /\ unit[d].up < d
  BY UnitFacts
<1>2. \A b \in DOMAIN unit : \A a : a \in Above(b) <=>
         a \in 1..(b - 1) /\ \A d \in (a + 1)..b : unit[d].up >= a
  BY DEF Above
<1>3. \A a \in Above(c) : a \in 1..(c - 1) /\ unit[c].up >= a
  <2>1. \A a \in 1..(c - 1) : c \in (a + 1)..c
    BY <1>1
  <2> QED BY <1>2, <2>1
<1>4. \A a \in Above(c) : a \in DOMAIN unit /\ a < c
  BY <1>1, <1>3
<1>5. unit[c].up = 0 => Above(c) = {}
  BY <1>3
<1>6. ASSUME unit[c].up # 0
      PROVE  /\ unit[c].up \in DOMAIN unit
             /\ Above(c) = Above(unit[c].up) \cup {unit[c].up}
  <2> DEFINE p == unit[c].up
  <2>1. p \in DOMAIN unit /\ p < c /\ p \in Nat \ {0} /\ p \in 1..(c - 1)
    BY <1>1, <1>6
  <2>2. \A d \in (p + 1)..(c - 1) : unit[d].up >= p
    BY UnitFacts
  <2> HIDE DEF p
  <2>3. unit[c].up = p
    BY DEF p
  <2>4. \A d \in (p + 1)..c : unit[d].up >= p
    <3>1. \A d \in (p + 1)..c : d = c \/ d \in (p + 1)..(c - 1)
      BY <1>1, <2>1
    <3>2. p >= p
      BY <2>1
    <3> QED BY <2>2, <2>3, <3>1, <3>2
  <2>5. p \in Above(c)
    BY <1>2, <2>1, <2>4
  <2>6. ASSUME NEW a \in Above(c), a # p PROVE a \in Above(p)
    <3>1. a \in 1..(c - 1) /\ a <= p /\ \A d \in (a + 1)..c : unit[d].up >= a
      BY <1>2, <1>3, <2>1, <2>3
    <3>2. a \in 1..(p - 1) /\ \A d \in (a + 1)..p : d \in (a + 1)..c
      BY <1>1, <2>1, <2>6, <3>1
    <3> QED BY <1>2, <2>1, <3>1, <3>2
  <2>7. ASSUME NEW a \in Above(p) PROVE a \in Above(c)
    <3>1. a \in 1..(p - 1) /\ \A d \in (a + 1)..p : unit[d].up >= a
      BY <1>2, <2>1
    <3>2. ASSUME NEW d \in (a + 1)..c PROVE unit[d].up >= a
      <4>1. CASE d <= p
        <5>1. d \in (a + 1)..p
          BY <2>1, <3>1, <4>1
        <5> QED BY <3>1, <5>1
      <4>2. CASE d > p
        <5>1. d \in (p + 1)..c /\ d \in DOMAIN unit
          BY <1>1, <2>1, <3>1, <4>2
        <5>2. unit[d].up >= p /\ unit[d].up \in Nat
          BY <1>1, <2>4, <5>1
        <5> QED BY <2>1, <3>1, <5>2
      <4> QED BY <2>1, <3>1, <4>1, <4>2
    <3>3. a \in 1..(c - 1)
      BY <1>1, <2>1, <3>1
    <3> QED BY <1>2, <3>2, <3>3
  <2> QED BY <2>1, <2>3, <2>5, <2>6, <2>7
<1> QED BY <1>4, <1>5, <1>6

LEMMA AboveWithin ==
  ASSUME unit \in Units, NEW c \in DOMAIN unit, NEW b \in Above(c)
  PROVE  Above(b) \subseteq Above(c) /\ b \in DOMAIN unit
<1>1. /\ Len(unit) \in Nat /\ DOMAIN unit = 1..Len(unit) /\ c \in Nat \ {0}
      /\ \A d \in DOMAIN unit : unit[d].up \in Nat
  BY UnitFacts
<1>2. b \in 1..(c - 1) /\ \A d \in (b + 1)..c : unit[d].up >= b
  BY DEF Above
<1> SUFFICES ASSUME NEW a \in Above(b) PROVE a \in Above(c)
  BY AboveStep
<1>3. a \in 1..(b - 1) /\ \A d \in (a + 1)..b : unit[d].up >= a
  BY DEF Above
<1>4. ASSUME NEW d \in (a + 1)..c PROVE unit[d].up >= a
  <2>1. CASE d <= b
    <3>1. d \in (a + 1)..b
      BY <1>1, <1>2, <1>3, <2>1
    <3> QED BY <1>3, <3>1
  <2>2. CASE d > b
    <3>1. d \in (b + 1)..c /\ d \in DOMAIN unit
      BY <1>1, <1>2, <1>3, <2>2
    <3>2. unit[d].up >= b /\ unit[d].up \in Nat
      BY <1>1, <1>2, <3>1
    <3> QED BY <1>1, <1>2, <1>3, <3>2
  <2> QED BY <1>1, <1>2, <1>3, <2>1, <2>2
<1>5. a \in 1..(c - 1)
  BY <1>1, <1>2, <1>3
<1> QED BY <1>4, <1>5 DEF Above

(* Below a cursor the way to c goes on with one of its children; and from  *)
(* the root, with one of the root's.                                       *)
LEMMA AboveChild ==
  ASSUME unit \in Units, NEW c \in DOMAIN unit, NEW a \in Above(c) \cup {0}
  PROVE  \E k \in Above(c) \cup {c} : k \in Kids(a)
<1> DEFINE S == {x \in Above(c) \cup {c} : x > a}
<1>1. /\ DOMAIN unit \subseteq Nat \ {0} /\ Above(c) \subseteq DOMAIN unit
      /\ a \in Nat /\ a < c /\ c \in S
  BY UnitFacts, AboveStep
<1>2. PICK k \in S : \A x \in S : k <= x
  <2>1. S \in SUBSET Nat /\ S # {}
    BY <1>1
  <2> HIDE DEF S
  <2> QED BY <2>1, LeastNat
<1>3. k \in DOMAIN unit /\ k \in Nat /\ unit[k].up \in Nat /\ unit[k].up < k
  BY <1>1, <1>2, UnitFacts
<1>4. unit[k].up >= a
  <2>1. CASE a = 0
    BY <1>3, <2>1
  <2>2. CASE a \in Above(c)
    <3>1. \A d \in (a + 1)..c : unit[d].up >= a
      BY <2>2 DEF Above
    <3>2. k \in (a + 1)..c
      BY <1>1, <1>2, <1>3, AboveStep
    <3> QED BY <3>1, <3>2
  <2> QED BY <2>1, <2>2
<1>5. unit[k].up = 0 \/ unit[k].up \in Above(c)
  BY <1>2, <1>3, AboveStep, AboveWithin
<1>6. unit[k].up = a
  BY <1>1, <1>2, <1>3, <1>4, <1>5
<1> QED BY <1>2, <1>3, <1>6 DEF Kids

LEMMA NearestIs ==
  ASSUME NEW S \in SUBSET Nat, NEW m \in S, \A b \in S : b <= m
  PROVE  Nearest(S) = m
<1>1. \E a \in S : \A b \in S : b <= a
  OBVIOUS
<1>2. PICK n : n = Nearest(S) /\ n \in S /\ \A b \in S : b <= n
  BY <1>1 DEF Nearest
<1>3. n \in Nat /\ m \in Nat /\ n <= m /\ m <= n
  BY <1>2
<1>4. n = m
  BY <1>3
<1> QED BY <1>2, <1>4

(* What is around a cursor, by the cursor that it is under. *)
LEMMA AroundStep ==
  ASSUME unit \in Units, NEW c \in DOMAIN unit, NEW p, p = unit[c].up
  PROVE  /\ p = 0 => Around(c) = 0 /\ FunctionOf(c) = ThisFile /\ Visited(c)
         /\ p # 0 =>
               /\ p \in DOMAIN unit
               /\ Visited(c) <=> Visited(p) /\ unit[p].kind \notin Barren
               /\ Around(c) = IF IsSymbol(p) THEN p
                              ELSE IF ~ unit[p].here /\ Walked(unit[p]) THEN 0 ELSE Around(p)
               /\ FunctionOf(c) = IF IsSymbol(p) /\ unit[p].kind \in Functions
                                  THEN unit[p].usr ELSE FunctionOf(p)
<1> DEFINE Stop(a) == IsSymbol(a) \/ (~ unit[a].here /\ Walked(unit[a]))
           Fun(a) == IsSymbol(a) /\ unit[a].kind \in Functions
           Stops(b) == {a \in Above(b) : Stop(a)}
           Funs(b) == {a \in Above(b) : Fun(a)}
<1>1. \A b : /\ Around(b) = IF Stops(b) = {} \/ ~ unit[Nearest(Stops(b))].here THEN 0
                            ELSE Nearest(Stops(b))
             /\ FunctionOf(b) = IF Funs(b) = {} THEN ThisFile ELSE unit[Nearest(Funs(b))].usr
             /\ Visited(b) <=> \A a \in Above(b) : unit[a].kind \notin Barren
  BY DEF Around, FunctionOf, Visited, Barren
<1>2. CASE p = 0
  <2>1. Above(c) = {}
    BY <1>2, AboveStep
  <2> QED BY <1>1, <1>2, <2>1
<1>3. CASE p # 0
  <2>1. p \in DOMAIN unit /\ Above(c) = Above(p) \cup {p}
    BY <1>3, AboveStep
  <2>2. p \in Nat /\ \A a \in Above(p) : a \in Nat /\ a < p
    BY <2>1, AboveStep, UnitFacts
  <2>3. IsSymbol(p) => unit[p].here
    BY DEF IsSymbol
  <2> HIDE DEF Stop, Fun
  <2>4. Around(c) = IF IsSymbol(p) THEN p
                    ELSE IF ~ unit[p].here /\ Walked(unit[p]) THEN 0 ELSE Around(p)
    <3>1. CASE Stop(p)
      <4>1. Stops(c) \in SUBSET Nat /\ p \in Stops(c) /\ \A b \in Stops(c) : b <= p
        BY <2>1, <2>2, <3>1
      <4> HIDE DEF Stops
      <4>2. Nearest(Stops(c)) = p /\ Stops(c) # {}
        BY <4>1, NearestIs
      <4>3. Around(c) = IF unit[p].here THEN p ELSE 0
        BY <1>1, <4>2
      <4> QED BY <2>3, <3>1, <4>3 DEF Stop
    <3>2. CASE ~ Stop(p)
      <4>1. Stops(c) = Stops(p)
        BY <2>1, <3>2
      <4>2. Around(c) = Around(p)
        BY <1>1, <4>1
      <4> QED BY <3>2, <4>2 DEF Stop
    <3> QED BY <3>1, <3>2
  <2>5. FunctionOf(c) = IF IsSymbol(p) /\ unit[p].kind \in Functions
                        THEN unit[p].usr ELSE FunctionOf(p)
    <3>1. CASE Fun(p)
      <4>1. Funs(c) \in SUBSET Nat /\ p \in Funs(c) /\ \A b \in Funs(c) : b <= p
        BY <2>1, <2>2, <3>1
      <4> HIDE DEF Funs
      <4>2. Nearest(Funs(c)) = p /\ Funs(c) # {}
        BY <4>1, NearestIs
      <4> QED BY <1>1, <3>1, <4>2 DEF Fun
    <3>2. CASE ~ Fun(p)
      <4>1. Funs(c) = Funs(p)
        BY <2>1, <3>2
      <4> QED BY <1>1, <3>2, <4>1 DEF Fun
    <3> QED BY <3>1, <3>2
  <2>6. Visited(c) <=> Visited(p) /\ unit[p].kind \notin Barren
    BY <1>1, <2>1
  <2> QED BY <1>3, <2>1, <2>4, <2>5, <2>6
<1> QED BY <1>2, <1>3

(* All of these are said of the unit alone. *)
LEMMA SameUnit ==
  ASSUME unit' = unit
  PROVE  \A c : /\ Above(c)' = Above(c) /\ Visited(c)' = Visited(c) /\ Due(c)' = Due(c)
                /\ IsSymbol(c)' = IsSymbol(c) /\ Yield(c)' = Yield(c)
<1>1. \A c : Above(c)' = Above(c)
  BY DEF Above
<1>2. \A c : IsSymbol(c)' = IsSymbol(c)
  BY DEF IsSymbol
<1>3. \A c : Visited(c)' = Visited(c)
  BY <1>1 DEF Visited
<1>4. \A c : Around(c)' = Around(c)
  <2> TAKE c
  <2> DEFINE S == {a \in Above(c) : IsSymbol(a) \/ (~ unit[a].here /\ Walked(unit[a]))}
  <2>1. S' = S
    BY <1>1, <1>2 DEF Walked
  <2>2. Around(c) = IF S = {} \/ ~ unit[Nearest(S)].here THEN 0 ELSE Nearest(S)
    BY DEF Around
  <2>3. Around(c)' = IF S' = {} \/ ~ unit[Nearest(S')].here THEN 0 ELSE Nearest(S')
    BY DEF Around
  <2> HIDE DEF S
  <2> QED BY <2>1, <2>2, <2>3
<1>5. \A c : FunctionOf(c)' = FunctionOf(c)
  <2> TAKE c
  <2> DEFINE S == {a \in Above(c) : IsSymbol(a) /\ unit[a].kind \in Functions}
  <2>1. S' = S
    BY <1>1, <1>2
  <2>2. FunctionOf(c) = IF S = {} THEN ThisFile ELSE unit[Nearest(S)].usr
    BY DEF FunctionOf
  <2>3. FunctionOf(c)' = IF S' = {} THEN ThisFile ELSE unit[Nearest(S')].usr
    BY DEF FunctionOf
  <2> HIDE DEF S
  <2> QED BY <2>1, <2>2, <2>3
<1>6. \A c : Due(c)' = Due(c)
  BY <1>4, <1>5 DEF Due, Call
<1>7. \A c : Yield(c)' = Yield(c)
  BY <1>2, <1>4, <1>5 DEF Yield, Scope, IsMember, Uses
<1> QED BY <1>1, <1>2, <1>3, <1>6, <1>7

(* What a call hands down is what the calls of the children are to know. *)
LEMMA DueChild ==
  ASSUME unit \in Units, NEW c \in DOMAIN unit, NEW d \in Kids(c)
  PROVE  /\ d \in DOMAIN unit
         /\ Visited(d) <=> Visited(c) /\ unit[c].kind \notin Barren
         /\ Above(d) = Above(c) \cup {c} /\ d \notin Above(c) /\ d # c
         /\ Due(d) = IF IsSymbol(c)
                     THEN Call(d, unit[c].usr, unit[c].kind,
                               IF unit[c].kind \in Functions THEN unit[c].usr
                               ELSE Due(c).function)
                     ELSE IF ~ unit[c].here /\ Walked(unit[c])
                     THEN Call(d, None, "none", Due(c).function)
                     ELSE Call(d, Due(c).parent, Due(c).kind, Due(c).function)
<1>1. d \in DOMAIN unit /\ unit[d].up = c /\ c # 0 /\ c < d /\ c \in Nat /\ d \in Nat
  BY UnitFacts DEF Kids
<1>2. Above(d) = Above(c) \cup {c} /\ \A a \in Above(c) : a < c /\ a \in Nat
  BY <1>1, AboveStep, UnitFacts
<1>3. d \notin Above(c) /\ d # c
  BY <1>1, <1>2
<1>4. /\ Visited(d) <=> Visited(c) /\ unit[c].kind \notin Barren
      /\ Around(d) = IF IsSymbol(c) THEN c
                     ELSE IF ~ unit[c].here /\ Walked(unit[c]) THEN 0 ELSE Around(c)
      /\ FunctionOf(d) = IF IsSymbol(c) /\ unit[c].kind \in Functions
                         THEN unit[c].usr ELSE FunctionOf(c)
  BY <1>1, AroundStep
<1>5. IsSymbol(c) => unit[c].usr # ThisFile
  <2>1. IsSymbol(c) => unit[c].usr \in Declared
    BY UnitFacts DEF IsSymbol
  <2> QED BY <2>1 DEF Declared, Symbol, ThisFile
<1>6. /\ Due(c).function = IF FunctionOf(c) = ThisFile THEN None ELSE FunctionOf(c)
      /\ Due(c).parent = IF Around(c) = 0 THEN None ELSE unit[Around(c)].usr
      /\ Due(c).kind = IF Around(c) = 0 THEN "none" ELSE unit[Around(c)].kind
  BY DEF Due, Call
<1>7. CASE IsSymbol(c)
  <2>1. Around(d) = c /\ FunctionOf(d) = IF unit[c].kind \in Functions THEN unit[c].usr
                                         ELSE FunctionOf(c)
    BY <1>4, <1>7
  <2>2. (IF FunctionOf(d) = ThisFile THEN None ELSE FunctionOf(d))
          = IF unit[c].kind \in Functions THEN unit[c].usr ELSE Due(c).function
    BY <1>5, <1>6, <1>7, <2>1
  <2>3. Due(d) = Call(d, unit[c].usr, unit[c].kind,
                      IF FunctionOf(d) = ThisFile THEN None ELSE FunctionOf(d))
    BY <1>1, <2>1 DEF Due
  <2> QED BY <1>1, <1>2, <1>3, <1>4, <1>7, <2>2, <2>3
<1>8. CASE ~ IsSymbol(c)
  <2>1. /\ FunctionOf(d) = FunctionOf(c)
        /\ Around(d) = IF ~ unit[c].here /\ Walked(unit[c]) THEN 0 ELSE Around(c)
    BY <1>4, <1>8
  <2>2. Due(d) = IF ~ unit[c].here /\ Walked(unit[c])
                 THEN Call(d, None, "none", Due(c).function)
                 ELSE Call(d, Due(c).parent, Due(c).kind, Due(c).function)
    BY <1>6, <2>1 DEF Due
  <2> QED BY <1>1, <1>2, <1>3, <1>4, <1>8, <2>2
<1> QED BY <1>7, <1>8

-----------------------------------------------------------------------------
(* One call more is made: its cursor, and no other, is behind the walk.    *)
LEMMA Advance ==
  ASSUME unit \in Units, unit' = unit, CallsAreDue, NEW w \in pending,
         NEW more, pending' = Rest(w) \cup more,
         IF unit[w.c].kind \in Barren THEN more = {}
         ELSE more = {Due(d) : d \in Kids(w.c)}
  PROVE  CallsAreDue' /\ Behind' = Behind \cup {w.c} /\ w.c \in DOMAIN unit
<1>1. PICK x : x = w.c /\ x \in DOMAIN unit /\ Visited(x) /\ x \in Nat
  BY UnitFacts DEF CallsAreDue
<1>2. \A v \in pending : /\ v.c \in DOMAIN unit /\ Visited(v.c) /\ v = Due(v.c)
                         /\ v.c \notin Above(x) /\ x \notin Above(v.c)
  BY <1>1 DEF CallsAreDue
<1>3. \A v \in pending : v.c = x => v = w
  BY <1>1, <1>2
<1>4. \A c : Due(c).c = c
  BY DEF Due, Call
<1>5. \A v \in Rest(w) : v \in pending /\ v.c # x
  BY <1>3 DEF Rest
<1>6. \A v \in pending : v = w \/ v \in Rest(w)
  BY DEF Rest
<1>7. \A k \in Kids(x) : /\ k \in DOMAIN unit /\ k # x
                         /\ Visited(k) <=> unit[x].kind \notin Barren
                         /\ Above(k) = Above(x) \cup {x} /\ k \notin Above(x)
  BY <1>1, DueChild
<1>8. \A v \in more : v.c \in Kids(x) /\ v = Due(v.c) /\ unit[x].kind \notin Barren
  BY <1>1, <1>4
<1>9. \A v \in pending' : v \in Rest(w) \/ v \in more
  OBVIOUS
<1>10. \A v \in pending' : v.c \in DOMAIN unit /\ Visited(v.c) /\ v = Due(v.c)
  BY <1>2, <1>5, <1>7, <1>8, <1>9
<1>11. ASSUME NEW u \in pending', NEW v \in pending', u.c \in Above(v.c) PROVE FALSE
  <2>1. CASE u \in Rest(w) /\ v \in Rest(w)
    BY <1>5, <1>11, <2>1 DEF CallsAreDue
  <2>2. CASE u \in Rest(w) /\ v \in more
    BY <1>2, <1>5, <1>7, <1>8, <1>11, <2>2
  <2>3. CASE u \in more /\ v \in more
    BY <1>7, <1>8, <1>11, <2>3
  <2>4. CASE u \in more /\ v \in Rest(w)
    <3>1. v \in pending /\ v.c \in DOMAIN unit /\ x \notin Above(v.c)
      BY <1>2, <1>5, <2>4
    <3>2. x \in Above(u.c)
      BY <1>7, <1>8, <2>4
    <3>3. Above(u.c) \subseteq Above(v.c)
      BY <1>11, <3>1, AboveWithin
    <3> QED BY <3>1, <3>2, <3>3
  <2> QED BY <1>9, <2>1, <2>2, <2>3, <2>4
<1>12. CallsAreDue'
  BY <1>10, <1>11, SameUnit DEF CallsAreDue
<1>13. Behind' = {c \in DOMAIN unit : Visited(c) /\ \A v \in pending' : v.c # c /\ v.c \notin Above(c)}
  BY SameUnit DEF Behind
<1>14. x \in Behind'
  <2>1. \A v \in pending' : v.c # x /\ v.c \notin Above(x)
    BY <1>2, <1>5, <1>7, <1>8, <1>9
  <2> QED BY <1>1, <1>13, <2>1
<1>15. ASSUME NEW c \in Behind PROVE c \in Behind'
  <2>1. /\ c \in DOMAIN unit /\ Visited(c)
        /\ \A v \in pending : v.c # c /\ v.c \notin Above(c)
    BY DEF Behind
  <2>2. \A v \in more : v.c # c /\ v.c \notin Above(c)
    <3> SUFFICES ASSUME NEW v \in more, v.c = c \/ v.c \in Above(c) PROVE FALSE
      OBVIOUS
    <3>1. x \in Above(v.c)
      BY <1>7, <1>8
    <3>2. x \in Above(c)
      BY <2>1, <3>1, AboveWithin
    <3> QED BY <1>1, <2>1, <3>2
  <2> QED BY <1>5, <1>9, <1>13, <2>1, <2>2
<1>16. ASSUME NEW c \in Behind', c # x PROVE c \in Behind
  <2>1. /\ c \in DOMAIN unit /\ Visited(c)
        /\ \A v \in pending' : v.c # c /\ v.c \notin Above(c)
    BY <1>13
  <2>2. x \notin Above(c)
    <3> SUFFICES ASSUME x \in Above(c) PROVE FALSE
      OBVIOUS
    <3>1. unit[x].kind \notin Barren
      BY <2>1 DEF Visited, Barren
    <3>2. PICK k \in Above(c) \cup {c} : k \in Kids(x)
      BY <2>1, AboveChild
    <3>3. Due(k) \in pending' /\ Due(k).c = k
      BY <1>1, <1>4, <3>1, <3>2
    <3> QED BY <2>1, <3>2, <3>3
  <2>3. \A v \in pending : v.c # c /\ v.c \notin Above(c)
    <3>1. \A v \in Rest(w) : v \in pending'
      OBVIOUS
    <3> QED BY <1>1, <1>6, <1>16, <2>1, <2>2, <3>1
  <2> QED BY <2>1, <2>3 DEF Behind
<1> QED BY <1>1, <1>12, <1>14, <1>15, <1>16

LEMMA NearestIn ==
  ASSUME NEW c \in Nat, NEW S \in SUBSET (1..c), S # {}
  PROVE  Nearest(S) \in S
<1> DEFINE T == {c - a : a \in S}
<1>1. T \in SUBSET Nat /\ T # {}
  <2>1. \A a \in S : a \in Nat /\ a <= c
    OBVIOUS
  <2>2. \A a \in S : c - a \in Nat
    BY <2>1
  <2> QED BY <2>2
<1> HIDE DEF T
<1>2. PICK m \in T : \A n \in T : m <= n
  BY <1>1, LeastNat
<1> USE DEF T
<1>3. PICK a \in S : m = c - a
  BY <1>2
<1>4. \A b \in S : b <= a
  <2> TAKE b \in S
  <2>1. a \in Nat /\ b \in Nat
    OBVIOUS
  <2>2. c - a <= c - b
    BY <1>2, <1>3
  <2> QED BY <2>1, <2>2
<1> QED BY <1>3, <1>4 DEF Nearest

LEMMA AroundIs ==
  ASSUME unit \in Units, NEW c \in DOMAIN unit
  PROVE  /\ Around(c) # 0 => Around(c) \in DOMAIN unit /\ IsSymbol(Around(c))
         /\ FunctionOf(c) \in Declared \cup {ThisFile}
<1>1. c \in Nat /\ Above(c) \in SUBSET (1..c) /\ Above(c) \subseteq DOMAIN unit
  <2>1. c \in Nat /\ 1..(c - 1) \subseteq 1..c
    BY UnitFacts
  <2>2. Above(c) \subseteq 1..(c - 1)
    BY DEF Above
  <2> QED BY <2>1, <2>2, AboveStep
<1>2. Around(c) # 0 => Around(c) \in DOMAIN unit /\ IsSymbol(Around(c))
  <2> DEFINE S == {a \in Above(c) : IsSymbol(a) \/ (~ unit[a].here /\ Walked(unit[a]))}
  <2>1. Around(c) = IF S = {} \/ ~ unit[Nearest(S)].here THEN 0 ELSE Nearest(S)
    BY DEF Around
  <2>2. S # {} => Nearest(S) \in S
    BY <1>1, NearestIn
  <2>3. \A a \in S : a \in DOMAIN unit /\ (unit[a].here => IsSymbol(a))
    BY <1>1
  <2> HIDE DEF S
  <2> QED BY <2>1, <2>2, <2>3
<1>3. FunctionOf(c) \in Declared \cup {ThisFile}
  <2> DEFINE S == {a \in Above(c) : IsSymbol(a) /\ unit[a].kind \in Functions}
  <2>1. FunctionOf(c) = IF S = {} THEN ThisFile ELSE unit[Nearest(S)].usr
    BY DEF FunctionOf
  <2>2. S # {} => Nearest(S) \in S
    BY <1>1, NearestIn
  <2>3. \A a \in S : unit[a].usr \in Declared
    BY <1>1, UnitFacts DEF IsSymbol
  <2> HIDE DEF S
  <2> QED BY <2>1, <2>2, <2>3
<1> QED BY <1>2, <1>3

(* USRs of files, symbols, types and parameters are told apart. *)
LEMMA UsrsDiffer ==
  /\ ThisFile # None
  /\ \A s \in Declared : s # None /\ s \notin Files
  /\ \A t : TypeUsr(t) \notin Declared \cup Files
  /\ \A d, i : Param(d, i) \notin Declared /\ \A t : Param(d, i) # TypeUsr(t)
<1>1. None \notin Declared /\ None # ThisFile
  BY TypesAssumption DEF Usr, Files
<1>2. \A s \in Declared : s \notin Files
  BY DEF Declared, Symbol, Files, ThisFile, FileUsr
<1>3. \A t : TypeUsr(t) \notin Declared \cup Files
  BY DEF Declared, Symbol, Files, ThisFile, FileUsr, TypeUsr
<1>4. \A d, i : Param(d, i) \notin Declared /\ \A t : Param(d, i) # TypeUsr(t)
  BY DEF Declared, Symbol, Param, TypeUsr
<1> QED BY <1>1, <1>2, <1>3, <1>4

-----------------------------------------------------------------------------
(* A call that yields what the structure has for its cursor. *)
LEMMA Yielded ==
  ASSUME Contexts, YieldInv, UNCHANGED <<unit, done>>, NEW w \in pending,
         NEW more, pending' = Rest(w) \cup more,
         IF unit[w.c].kind \in Barren THEN more = {}
         ELSE more = {Due(d) : d \in Kids(w.c)},
         seen' \cap Declared
             = (seen \cap Declared) \cup (IF IsSymbol(w.c) THEN {unit[w.c].usr} ELSE {}),
         OfType(Structure)' = OfType(Structure) \cup Yield(w.c),
         OfType({"CALLS"})' = OfType({"CALLS"})
  PROVE  YieldInv'
<1>1. PICK x : x = w.c
  OBVIOUS
<1>2. CallsAreDue' /\ Behind' = Behind \cup {x}
  <2>1. unit \in Units /\ CallsAreDue
    BY DEF Contexts, YieldInv
  <2> QED BY <1>1, <2>1, Advance
<1>3. (seen \cap Declared = {unit[c].usr : c \in {d \in Behind : IsSymbol(d)}})'
  <2>1. seen \cap Declared = {unit[c].usr : c \in {d \in Behind : IsSymbol(d)}}
    BY DEF YieldInv
  <2>2. seen' \cap Declared = {unit[c].usr : c \in {d \in Behind \cup {x} : IsSymbol(d)}}
    BY <1>1, <2>1
  <2>3. Declared' = Declared /\ \A d : IsSymbol(d)' = IsSymbol(d)
    BY SameUnit DEF Declared, Symbol
  <2> QED BY <1>2, <2>2, <2>3
<1>4. (OfType(Structure) = UNION {Yield(c) : c \in Behind})'
  <2>1. OfType(Structure) = UNION {Yield(c) : c \in Behind}
    BY DEF YieldInv
  <2>2. OfType(Structure)' = UNION {Yield(c) : c \in Behind \cup {x}}
    BY <1>1, <2>1
  <2>3. \A c : Yield(c)' = Yield(c)
    BY SameUnit
  <2> QED BY <1>2, <2>2, <2>3
<1>5. ~ done /\ OfType({"CALLS"})' = {}
  BY DEF YieldInv
<1> QED BY <1>2, <1>3, <1>4, <1>5 DEF YieldInv

LEMMA DueIs ==
  ASSUME Contexts, YieldInv, NEW w \in pending
  PROVE  /\ unit \in Units /\ w.c \in DOMAIN unit /\ w = Due(w.c)
         /\ w.parent = IF Around(w.c) = 0 THEN None ELSE unit[Around(w.c)].usr
         /\ w.kind = IF Around(w.c) = 0 THEN "none" ELSE unit[Around(w.c)].kind
         /\ w.function = IF FunctionOf(w.c) = ThisFile THEN None ELSE FunctionOf(w.c)
<1>1. unit \in Units /\ w.c \in DOMAIN unit /\ w = Due(w.c)
  BY DEF Contexts, YieldInv, CallsAreDue
<1>2. PICK x : x = w.c /\ w = Due(x)
  BY <1>1
<1> QED BY <1>1, <1>2 DEF Due, Call

(* What is yielded by the calls that yield no symbol. *)
LEMMA OthersYield ==
  ASSUME Contexts, YieldInv, NEW w \in pending, UNCHANGED <<unit, done>>,
         SkipParameter(w, unit[w.c]) \/ Include(w, unit[w.c]) \/ Reference(w, unit[w.c])
            \/ Elsewhere(w, unit[w.c]) \/ PassThrough(w, unit[w.c])
  PROVE  YieldInv'
<1>1. PICK c, x : c = w.c /\ x = unit[c]
  OBVIOUS
<1>2. unit \in Units /\ c \in DOMAIN unit /\ w = Due(c)
  BY <1>1, DueIs
<1>3. \A d \in Kids(c) : Due(d) = IF IsSymbol(c)
                     THEN Call(d, x.usr, x.kind, IF x.kind \in Functions THEN x.usr
                                                 ELSE w.function)
                     ELSE IF ~ x.here /\ Walked(x)
                     THEN Call(d, None, "none", w.function)
                     ELSE Call(d, w.parent, w.kind, w.function)
  BY <1>1, <1>2, DueChild
<1>4. IsSymbol(c) <=> x.here /\ x.kind \in DeclKinds /\ x.usr # None
  BY <1>1 DEF IsSymbol
<1>5. Yield(c) = (IF IsSymbol(c) THEN {Scope(c)} ELSE {})
                 \cup (IF x.kind \in RefKinds /\ x.ref # None
                       THEN {<<FunctionOf(c), "REFERENCES", x.ref>>} ELSE {})
  BY <1>1 DEF Yield, Uses
<1> USE DEF Barren, DeclKinds, Functions, RefKinds
<1>6. CASE SkipParameter(w, x)
  <2>1. /\ x.kind = "parameter" /\ pending' = Rest(w) \cup {} /\ UNCHANGED <<edges, seen>>
    BY <1>6 DEF SkipParameter
  <2>2. ~ IsSymbol(c) /\ Yield(c) = {}
    BY <1>4, <1>5, <2>1
  <2>3. \A T : OfType(T)' = OfType(T)
    BY <2>1 DEF OfType
  <2>4. OfType(Structure)' = OfType(Structure) /\ OfType({"CALLS"})' = OfType({"CALLS"})
    BY <2>1 DEF OfType, Structure
  <2> QED BY <1>1, <2>1, <2>2, <2>4, Yielded
<1>7. CASE Include(w, x)
  <2>1. /\ x.kind = "include" /\ pending' = Rest(w) \cup {}
        /\ x.ref \in Files \cup {None}
    BY <1>1, <1>2, <1>7, UnitFacts DEF Include
  <2>2. ~ IsSymbol(c) /\ Yield(c) = {}
    BY <1>4, <1>5, <2>1
  <2>3. edges' = edges \/ edges' = edges \cup {<<ThisFile, "INCLUDES", x.ref>>}
    BY <1>7 DEF Include
  <2>4. OfType(Structure)' = OfType(Structure) /\ OfType({"CALLS"})' = OfType({"CALLS"})
    BY <2>3 DEF OfType, Structure
  <2>5. seen' \cap Declared = seen \cap Declared
    <3>1. seen' = seen \/ (x.ref # None /\ seen' = seen \cup {x.ref})
      BY <1>7 DEF Include, Emit, Record
    <3> QED BY <2>1, <3>1, UsrsDiffer
  <2> QED BY <1>1, <2>1, <2>2, <2>4, <2>5, Yielded
<1>8. CASE Reference(w, x)
  <2>1. /\ x.kind \in RefKinds /\ UNCHANGED seen
        /\ pending' = Rest(w) \cup Descend(c, w.parent, w.kind, w.function)
        /\ edges' = edges \cup (IF x.ref = None THEN {}
                       ELSE {<<IF w.function # None THEN w.function ELSE ThisFile,
                               "REFERENCES", x.ref>>})
    BY <1>1, <1>8 DEF Reference
  <2>2. ~ IsSymbol(c) /\ ~ Walked(x) /\ x.kind \notin Barren
    BY <1>4, <2>1 DEF Walked
  <2>3. Descend(c, w.parent, w.kind, w.function) = {Due(d) : d \in Kids(c)}
    BY <1>3, <2>2 DEF Descend
  <2>4. (IF w.function # None THEN w.function ELSE ThisFile) = FunctionOf(c)
    <3>1. FunctionOf(c) # None
      BY <1>2, AroundIs, UsrsDiffer DEF Files
    <3> QED BY <1>1, <3>1, DueIs
  <2>5. edges' = edges \cup Yield(c)
    BY <1>5, <2>1, <2>2, <2>4
  <2>6. \A e \in Yield(c) : e[2] = "REFERENCES"
    BY <1>5, <2>2
  <2>7. OfType(Structure)' = OfType(Structure) \cup Yield(c)
        /\ OfType({"CALLS"})' = OfType({"CALLS"})
    BY <2>5, <2>6 DEF OfType, Structure
  <2> QED BY <1>1, <2>1, <2>2, <2>3, <2>7, Yielded
<1>9. CASE Elsewhere(w, x) \/ PassThrough(w, x)
  <2>1. Walked(x) /\ UNCHANGED <<edges, seen>> /\ ~ IsSymbol(c)
    BY <1>4, <1>9 DEF Elsewhere, PassThrough
  <2>2. x.kind \notin Barren /\ x.kind \notin RefKinds
    BY <2>1 DEF Walked
  <2>3. pending' = Rest(w) \cup {Due(d) : d \in Kids(c)}
    <3>1. CASE Elsewhere(w, x)
      <4>1. ~ x.here /\ pending' = Rest(w) \cup Descend(c, None, "none", w.function)
        BY <1>1, <3>1 DEF Elsewhere
      <4>2. Descend(c, None, "none", w.function) = {Due(d) : d \in Kids(c)}
        BY <1>3, <2>1, <4>1 DEF Descend
      <4> QED BY <4>1, <4>2
    <3>2. CASE PassThrough(w, x)
      <4>1. x.here /\ pending' = Rest(w) \cup Descend(c, w.parent, w.kind, w.function)
        BY <1>1, <3>2 DEF PassThrough
      <4>2. Descend(c, w.parent, w.kind, w.function) = {Due(d) : d \in Kids(c)}
        BY <1>3, <2>1, <4>1 DEF Descend
      <4> QED BY <4>1, <4>2
    <3> QED BY <1>9, <3>1, <3>2
  <2>4. Yield(c) = {}
    BY <1>5, <2>1, <2>2
  <2>5. OfType(Structure)' = OfType(Structure) /\ OfType({"CALLS"})' = OfType({"CALLS"})
    BY <2>1 DEF OfType, Structure
  <2> QED BY <1>1, <2>1, <2>2, <2>3, <2>4, <2>5, Yielded
<1> QED BY <1>1, <1>6, <1>7, <1>8, <1>9

(* A symbol is yielded with its edge, and so are the types that are new.   *)
LEMMA SymbolYields ==
  ASSUME Contexts, YieldInv, NEW w \in pending, UNCHANGED <<unit, done>>,
         Declare(w, unit[w.c])
  PROVE  YieldInv'
<1>1. PICK c, x : c = w.c /\ x = unit[c]
  OBVIOUS
<1>2. unit \in Units /\ c \in DOMAIN unit /\ w = Due(c)
  BY <1>1, DueIs
<1> DEFINE isFunction == x.kind \in Functions
           isVariable == x.kind \in {"field", "variable"} /\ x.usr \notin seen
           args  == IF isFunction THEN NewArguments(c, x) ELSE {}
           types == (IF isFunction \/ isVariable THEN NewTypes(x.type) ELSE {})
                    \cup UNION {NewTypes(unit[d].type) : d \in args}
           arg(d) == Param(x.usr, Index(d))
           others == TypeEdges(types)
              \cup {<<x.usr, "INHERITS", b>> : b \in Bases(c, x)}
              \cup (IF isVariable THEN {<<x.usr, "OF_TYPE", TypeUsr(x.type)>>} ELSE {})
              \cup (IF isFunction THEN {<<x.usr, "RETURNS", TypeUsr(x.type)>>} ELSE {})
              \cup {<<x.usr, "HAS_PARAM", arg(d)>> : d \in args}
              \cup {<<arg(d), "OF_TYPE", TypeUsr(unit[d].type)>> : d \in args}
<1>3. /\ Walked(x) /\ x.here /\ x.kind \in DeclKinds /\ x.usr # None
      /\ Emit({Record(x.kind, x.usr, c)} \cup TypeNodes(types, c)
              \cup {Record("Parameter", arg(d), d) : d \in args})
      /\ edges' = edges \cup {ParentEdge(w, x)} \cup TypeEdges(types)
            \cup {<<x.usr, "INHERITS", b>> : b \in Bases(c, x)}
            \cup {<<w.parent, "CALLS", f>> : f \in Callees(w, x)}
            \cup (IF isVariable THEN {<<x.usr, "OF_TYPE", TypeUsr(x.type)>>} ELSE {})
            \cup (IF isFunction THEN {<<x.usr, "RETURNS", TypeUsr(x.type)>>} ELSE {})
            \cup {<<x.usr, "HAS_PARAM", arg(d)>> : d \in args}
            \cup {<<arg(d), "OF_TYPE", TypeUsr(unit[d].type)>> : d \in args}
      /\ pending' = Rest(w) \cup
            Descend(c, x.usr, x.kind, IF isFunction THEN x.usr ELSE w.function)
  BY <1>1 DEF Declare
<1> HIDE DEF args, types, arg
<1>4. IsSymbol(c) /\ x.kind \notin Barren
  BY <1>1, <1>3 DEF IsSymbol, Walked, Barren
<1>5. pending' = Rest(w) \cup {Due(d) : d \in Kids(c)}
  <2>1. \A d \in Kids(c) :
           Due(d) = Call(d, x.usr, x.kind, IF isFunction THEN x.usr ELSE w.function)
    BY <1>1, <1>2, <1>4, DueChild
  <2> QED BY <1>3, <2>1 DEF Descend
<1>6. seen' \cap Declared = (seen \cap Declared) \cup {x.usr}
  <2>1. seen' = seen \cup {x.usr} \cup {TypeUsr(t) : t \in types} \cup {arg(d) : d \in args}
    <3>1. \A k, u, a : Record(k, u, a).usr = u
      BY DEF Record
    <3>2. {n.usr : n \in {Record(x.kind, x.usr, c)} \cup TypeNodes(types, c)
                          \cup {Record("Parameter", arg(d), d) : d \in args}}
             = {x.usr} \cup {TypeUsr(t) : t \in types} \cup {arg(d) : d \in args}
      BY <3>1 DEF TypeNodes
    <3> QED BY <1>3, <3>2 DEF Emit
  <2>2. x.usr \in Declared
    BY <1>1, <1>2, <1>3, UnitFacts
  <2>3. \A d : arg(d) \notin Declared
    BY UsrsDiffer DEF arg
  <2>4. \A t : TypeUsr(t) \notin Declared
    BY UsrsDiffer
  <2> QED BY <2>1, <2>2, <2>3, <2>4
<1>7. Callees(w, x) = {}
  BY <1>3 DEF Callees, DeclKinds, Functions
<1>8. edges' = edges \cup {ParentEdge(w, x)} \cup others
  BY <1>3, <1>7
<1>9. ParentEdge(w, x) = Scope(c)
  <2>1. /\ Around(c) = 0 => w.parent = None
        /\ Around(c) # 0 => /\ w.parent # None /\ w.parent = unit[Around(c)].usr
                            /\ w.kind = unit[Around(c)].kind
    BY <1>1, <1>2, DueIs, AroundIs DEF IsSymbol
  <2>2. CASE Around(c) = 0
    BY <1>1, <2>1, <2>2 DEF ParentEdge, Scope, IsMember
  <2>3. CASE Around(c) # 0
    BY <1>1, <2>1, <2>3 DEF ParentEdge, Scope, IsMember
  <2> QED BY <2>2, <2>3
<1>10. Yield(c) = {Scope(c)} /\ Scope(c)[2] \in {"MEMBER_OF", "DEFINES", "DECLARES"}
  BY <1>1, <1>3, <1>4 DEF Yield, Uses, Scope, Walked
<1>11. \A e \in others : e[2] \in {"POINTS_TO", "INHERITS", "OF_TYPE", "RETURNS", "HAS_PARAM"}
  BY DEF TypeEdges
<1> HIDE DEF others
<1>12. edges' = edges \cup Yield(c) \cup others
  BY <1>8, <1>9, <1>10
<1>13. OfType(Structure)' = OfType(Structure) \cup Yield(c)
       /\ OfType({"CALLS"})' = OfType({"CALLS"})
  BY <1>10, <1>11, <1>12 DEF OfType, Structure
<1> QED BY <1>1, <1>4, <1>5, <1>6, <1>13, Yielded

(* No call has an edge, so none makes a reference redundant. *)
LEMMA ReturnYields ==
  ASSUME YieldInv, Return
  PROVE  YieldInv'
<1>1. UNCHANGED <<unit, pending, seen>> /\ pending = {}
  BY DEF Return
<1>2. \A a, b : <<a, "CALLS", b>> \notin edges
  BY DEF YieldInv, OfType
<1>3. edges' = edges
  BY <1>2 DEF Return
<1>4. Behind' = Behind /\ CallsAreDue'
  BY <1>1, SameUnit DEF Behind, CallsAreDue
<1>5. (seen \cap Declared = {unit[c].usr : c \in {d \in Behind : IsSymbol(d)}})'
  BY <1>1, <1>4, SameUnit DEF YieldInv, Declared, Symbol
<1>6. (OfType(Structure) = UNION {Yield(c) : c \in Behind} /\ OfType({"CALLS"}) = {})'
  BY <1>1, <1>3, <1>4, SameUnit DEF YieldInv, OfType, Structure
<1> QED BY <1>1, <1>4, <1>5, <1>6 DEF YieldInv

LEMMA InitYield == Init => YieldInv
<1> SUFFICES ASSUME Init PROVE YieldInv
  OBVIOUS
<1>1. /\ unit \in Units /\ pending = Descend(0, None, "none", None)
      /\ edges = {} /\ seen = {ThisFile} /\ ~ done
  BY DEF Init
<1>2. \A c \in Kids(0) : /\ c \in DOMAIN unit /\ Visited(c) /\ Above(c) = {}
                         /\ Due(c) = Call(c, None, "none", None)
  <2> TAKE c \in Kids(0)
  <2>1. c \in DOMAIN unit /\ unit[c].up = 0
    BY DEF Kids
  <2>2. Around(c) = 0 /\ FunctionOf(c) = ThisFile /\ Visited(c) /\ Above(c) = {}
    BY <1>1, <2>1, AroundStep, AboveStep
  <2> QED BY <2>1, <2>2 DEF Due
<1>3. \A w \in pending : w.c \in Kids(0) /\ w = Call(w.c, None, "none", None)
  BY <1>1 DEF Descend, Call
<1>4. CallsAreDue
  BY <1>2, <1>3 DEF CallsAreDue
<1>5. Behind = {}
  <2> SUFFICES ASSUME NEW c \in Behind PROVE FALSE
    OBVIOUS
  <2>1. c \in DOMAIN unit /\ \A w \in pending : w.c # c /\ w.c \notin Above(c)
    BY DEF Behind
  <2>2. PICK k \in Above(c) \cup {c} : k \in Kids(0)
    BY <1>1, <2>1, AboveChild
  <2>3. Call(k, None, "none", None) \in pending /\ Call(k, None, "none", None).c = k
    BY <1>1, <2>2 DEF Descend, Call
  <2> QED BY <2>1, <2>2, <2>3
<1>6. seen \cap Declared = {}
  BY <1>1, UsrsDiffer DEF Files
<1> QED BY <1>1, <1>4, <1>5, <1>6 DEF YieldInv, OfType

LEMMA NextYield == Contexts /\ YieldInv /\ [Next]_vars => YieldInv'
<1> SUFFICES ASSUME Contexts, YieldInv, [Next]_vars PROVE YieldInv'
  OBVIOUS
<1>1. ASSUME NEW w \in pending, Walk(w) PROVE YieldInv'
  BY <1>1, OthersYield, SymbolYields DEF Walk
<1>2. CASE UNCHANGED vars
  <2>1. UNCHANGED <<unit, pending, edges, seen, done>>
    BY <1>2 DEF vars
  <2>2. Behind' = Behind /\ (CallsAreDue' <=> CallsAreDue)
    BY <2>1, SameUnit DEF Behind, CallsAreDue
  <2>3. (seen \cap Declared = {unit[c].usr : c \in {d \in Behind : IsSymbol(d)}})'
    BY <2>1, <2>2, SameUnit DEF YieldInv, Declared, Symbol
  <2>4. (OfType(Structure) = UNION {Yield(c) : c \in Behind} /\ OfType({"CALLS"}) = {})'
    BY <2>1, <2>2, SameUnit DEF YieldInv, OfType, Structure
  <2> QED BY <2>1, <2>2, <2>3, <2>4 DEF YieldInv
<1> QED BY <1>1, <1>2, ReturnYields DEF Next

(* When no call is pending every cursor that is visited is behind, and the *)
(* edges of each kind are those of the structure.                          *)
LEMMA AllIsBehind ==
  ASSUME unit \in Units, OneRecordPerUsr, YieldInv
  PROVE  WalkIsComplete
<1> SUFFICES ASSUME done
             PROVE  /\ {n.usr : n \in nodes} \cap Declared = {unit[c].usr : c \in SymbolCursors}
                    /\ OfType({"MEMBER_OF"}) = MemberEdges
                    /\ OfType({"DEFINES", "DECLARES"}) = ScopeEdges
                    /\ OfType({"REFERENCES"}) = ReferenceEdges
  BY DEF WalkIsComplete
<1>1. Behind = {c \in DOMAIN unit : Visited(c)}
  BY DEF YieldInv, Behind
<1>2. {n.usr : n \in nodes} \cap Declared = {unit[c].usr : c \in SymbolCursors}
  <2>1. {d \in Behind : IsSymbol(d)} = SymbolCursors
    BY <1>1 DEF SymbolCursors
  <2> QED BY <2>1 DEF YieldInv, OneRecordPerUsr
<1> DEFINE All == UNION {Yield(c) : c \in Behind}
<1>3. /\ OfType({"MEMBER_OF"}) = {e \in All : e[2] = "MEMBER_OF"}
      /\ OfType({"DEFINES", "DECLARES"}) = {e \in All : e[2] \in {"DEFINES", "DECLARES"}}
      /\ OfType({"REFERENCES"}) = {e \in All : e[2] = "REFERENCES"}
  <2>1. OfType(Structure) = All
    BY DEF YieldInv
  <2> HIDE DEF All
  <2> QED BY <2>1 DEF OfType, Structure
<1>4. \A c : /\ Scope(c)[2] = "MEMBER_OF" <=> IsMember(c)
             /\ Scope(c)[2] \in {"DEFINES", "DECLARES"} <=> ~ IsMember(c)
             /\ Scope(c)[2] # "REFERENCES"
  BY DEF Scope
<1>5. \A c, e : e \in Yield(c) <=>
         \/ IsSymbol(c) /\ e = Scope(c)
         \/ Uses(c) /\ e = <<FunctionOf(c), "REFERENCES", unit[c].ref>>
  BY DEF Yield
<1>6. {e \in All : e[2] = "MEMBER_OF"}
         = {Scope(c) : c \in {d \in SymbolCursors : IsMember(d)}}
  BY <1>1, <1>4, <1>5 DEF SymbolCursors
<1>7. {e \in All : e[2] \in {"DEFINES", "DECLARES"}}
         = {Scope(c) : c \in {d \in SymbolCursors : ~ IsMember(d)}}
  BY <1>1, <1>4, <1>5 DEF SymbolCursors
<1>8. {e \in All : e[2] = "REFERENCES"}
         = {<<FunctionOf(c), "REFERENCES", unit[c].ref>> : c \in {d \in Behind : Uses(d)}}
  BY <1>4, <1>5
<1>9. MemberEdges = {Scope(c) : c \in {d \in SymbolCursors : IsMember(d)}}
  BY DEF MemberEdges, Scope, IsMember
<1>10. ScopeEdges = {Scope(c) : c \in {d \in SymbolCursors : ~ IsMember(d)}}
  BY DEF ScopeEdges, Scope, IsMember
<1>11. ReferenceEdges
         = {<<FunctionOf(c), "REFERENCES", unit[c].ref>> : c \in {d \in Behind : Uses(d)}}
  BY <1>1 DEF ReferenceEdges, Uses
<1> HIDE DEF All
<1> QED BY <1>2, <1>3, <1>6, <1>7, <1>8, <1>9, <1>10, <1>11

(* The graph of a file has every symbol of it, each in the scope that the  *)
(* file has it in, and every use of a symbol, for any unit.                *)
THEOREM NothingIsLeftOut == Spec => []WalkIsComplete
<1>1. Inv /\ YieldInv => WalkIsComplete
  BY AllIsBehind DEF Inv, Contexts
<1>2. Inv /\ YieldInv /\ [Next]_vars => YieldInv'
  BY NextYield DEF Inv
<1> QED BY <1>1, <1>2, Invariance, InitYield, PTL DEF Spec

-----------------------------------------------------------------------------
(* Types *)

LEMMA NewTypesClosed ==
  ASSUME NEW t \in Types, NEW y \in NewTypes(t), Pointee[y] # NoType
  PROVE  y \in Types /\ (TypeUsr(Pointee[y]) \in seen \/ Pointee[y] \in NewTypes(t))
<1>1. y \in Types /\ Pointee[y] \in Types
  BY TypesAssumption DEF NewTypes
<1> QED BY <1>1 DEF NewTypes

LEMMA ChainsStep == Contexts /\ TypeChainsClosed /\ [Next]_vars => TypeChainsClosed'
<1> SUFFICES ASSUME Contexts, TypeChainsClosed, [Next]_vars PROVE TypeChainsClosed'
  OBVIOUS
<1>1. ASSUME seen \subseteq seen', \A t \in Types : TypeUsr(t) \in seen' => TypeUsr(t) \in seen,
             \A e \in edges : e[2] = "POINTS_TO" => e \in edges'
      PROVE  TypeChainsClosed'
  <2> SUFFICES ASSUME NEW t \in Types, TypeUsr(t) \in seen', Pointee[t] # NoType
               PROVE  /\ <<TypeUsr(t), "POINTS_TO", TypeUsr(Pointee[t])>> \in edges'
                      /\ TypeUsr(Pointee[t]) \in seen'
    BY DEF TypeChainsClosed, TypeUsr
  <2>1. /\ <<TypeUsr(t), "POINTS_TO", TypeUsr(Pointee[t])>> \in edges
        /\ TypeUsr(Pointee[t]) \in seen
    BY <1>1 DEF TypeChainsClosed
  <2> QED BY <1>1, <2>1
<1>2. CASE Return
  BY <1>1, <1>2 DEF Return
<1>3. CASE UNCHANGED vars
  BY <1>1, <1>3 DEF vars
<1>4. ASSUME NEW w \in pending, Walk(w), ~ Declare(w, unit[w.c]) PROVE TypeChainsClosed'
  <2>1. PICK x : x = unit[w.c]
    OBVIOUS
  <2>2. CASE Include(w, x)
    <3>1. seen' = seen \/ (x.ref \in Files /\ seen' = seen \cup {x.ref})
      <4>1. x.kind = "include" => x.ref \in Files \cup {None}
        BY <2>1, UnitFacts DEF Contexts
      <4> QED BY <2>2, <4>1 DEF Include, Emit, Record
    <3>2. \A t \in Types : TypeUsr(t) \in seen' => TypeUsr(t) \in seen
      BY <3>1, UsrsDiffer
    <3>3. edges \subseteq edges'
      BY <2>2 DEF Include
    <3> QED BY <1>1, <3>1, <3>2, <3>3
  <2>3. CASE ~ Include(w, x)
    <3>1. seen' = seen /\ edges \subseteq edges'
      BY <1>4, <2>1, <2>3 DEF Walk, SkipParameter, Reference, Elsewhere, PassThrough
    <3> QED BY <1>1, <3>1
  <2> QED BY <2>2, <2>3
<1>5. ASSUME NEW w \in pending, Declare(w, unit[w.c]) PROVE TypeChainsClosed'
  <2> DEFINE x == unit[w.c]
             isFunction == x.kind \in Functions
             isVariable == x.kind \in {"field", "variable"} /\ x.usr \notin seen
             args  == IF isFunction THEN NewArguments(w.c, x) ELSE {}
             types == (IF isFunction \/ isVariable THEN NewTypes(x.type) ELSE {})
                      \cup UNION {NewTypes(unit[d].type) : d \in args}
             arg(d) == Param(x.usr, Index(d))
  <2>1. w.c \in DOMAIN unit /\ unit \in Units /\ \A d \in args : d \in DOMAIN unit
    BY DEF Contexts, NewArguments, Arguments, Kids
  <2>2. x.usr \in Declared /\ x.type \in Types /\ \A d \in args : unit[d].type \in Types
    BY <1>5, <2>1, UnitFacts DEF Declare
  <2>3. seen' = seen \cup {x.usr} \cup {TypeUsr(t) : t \in types} \cup {arg(d) : d \in args}
    <3>1. Emit({Record(x.kind, x.usr, w.c)} \cup TypeNodes(types, w.c)
              \cup {Record("Parameter", arg(d), d) : d \in args})
      BY <1>5 DEF Declare
    <3>2. \A k, u, a : Record(k, u, a).usr = u
      BY DEF Record
    <3> HIDE DEF x, types, args, arg
    <3>3. {n.usr : n \in {Record(x.kind, x.usr, w.c)} \cup TypeNodes(types, w.c)
                          \cup {Record("Parameter", arg(d), d) : d \in args}}
             = {x.usr} \cup {TypeUsr(t) : t \in types} \cup {arg(d) : d \in args}
      BY <3>2 DEF TypeNodes
    <3> QED BY <3>1, <3>3 DEF Emit
  <2>4. edges \cup TypeEdges(types) \subseteq edges'
    <3> HIDE DEF types
    <3> QED BY <1>5 DEF Declare, types
  <2>5. \A t : TypeUsr(t) # x.usr /\ \A d : TypeUsr(t) # arg(d)
    BY <2>2, UsrsDiffer
  <2>6. ASSUME NEW t \in types, Pointee[t] # NoType
        PROVE  TypeUsr(Pointee[t]) \in seen \/ Pointee[t] \in types
    <3>1. PICK s \in Types : t \in NewTypes(s) /\ NewTypes(s) \subseteq types
      BY <2>2
    <3> QED BY <2>6, <3>1, NewTypesClosed
  <2> HIDE DEF x, types, args, arg
  <2>7. ASSUME NEW t \in Types, TypeUsr(t) \in seen', Pointee[t] # NoType
        PROVE  /\ <<TypeUsr(t), "POINTS_TO", TypeUsr(Pointee[t])>> \in edges'
               /\ TypeUsr(Pointee[t]) \in seen'
    <3>1. TypeUsr(t) \in seen \/ t \in types
      <4>1. \A s : TypeUsr(t) = TypeUsr(s) => t = s
        BY DEF TypeUsr
      <4> QED BY <2>3, <2>5, <2>7, <4>1
    <3>2. CASE TypeUsr(t) \in seen
      BY <2>3, <2>4, <2>7, <3>2 DEF TypeChainsClosed
    <3>3. CASE t \in types
      <4>1. <<TypeUsr(t), "POINTS_TO", TypeUsr(Pointee[t])>> \in TypeEdges(types)
        BY <2>7, <3>3 DEF TypeEdges
      <4> QED BY <2>3, <2>4, <2>6, <2>7, <3>3, <4>1
    <3> QED BY <3>1, <3>2, <3>3
  <2> QED BY <2>7 DEF TypeChainsClosed, TypeUsr
<1> QED BY <1>2, <1>3, <1>4, <1>5 DEF Next, Walk

(* However far a chain of pointers goes, and wherever it meets types that  *)
(* other symbols had before, the graph has all of it.                      *)
THEOREM ChainsAreWhole == Spec => []TypeChainsClosed
<1>1. Init => TypeChainsClosed
  BY UsrsDiffer DEF Init, TypeChainsClosed, Files
<1>2. Inv /\ TypeChainsClosed /\ [Next]_vars => TypeChainsClosed'
  BY ChainsStep DEF Inv
<1> QED BY <1>1, <1>2, Invariance, PTL DEF Spec
=============================================================================
