-------------------------- MODULE SourceToolsProofs --------------------------
(***************************************************************************)
(* What the position tools make of a position, and which uses they list;   *)
(* that what get_ast emits is a tree, and the beginning of the walk; and   *)
(* that get_preprocessor_state finds the branches and guesses right: for   *)
(* any source file, whatever an editor saves meanwhile, any position, any  *)
(* tree of cursors and any budget.                                         *)
(*                                                                         *)
(* There are five arguments.  The two readings of cursor_at: the line is   *)
(* in the state of the file that CountLines read; if the state that        *)
(* Measure reads has the line, the column is checked against it, and if    *)
(* not the column can only be the first, which is on any line of the       *)
(* former.  The calls to come of the walk: each is for a cursor after all  *)
(* that are emitted, and has the id of the node that its cursor is under.  *)
(* Its path: what is neither emitted nor waiting is below something that   *)
(* was cut, or behind a waiting call.  The scanner's stack against         *)
(* counting: a level of the stack is a block that is still open, and the   *)
(* branches that are recorded are those of the lines so far.  And the      *)
(* visited users: the places listed are those of the uses visited.         *)
(***************************************************************************)
EXTENDS SourceTools, FiniteSetTheorems, SequenceTheorems, WellFoundedInduction, TLAPS

LineExists ==
    \E v \in seen \ {Sym!Gone} : query.line \in 1..Sym!LineCount(v)

(* What is exact of any file, in the lines and characters of the check. *)
JudgedRight ==
    LET named == Sym!CursorAt(unit, query.line, query.col)
        symbol == Sym!InRange(unit, query.line, query.col) /\ named # 1
    IN  seen = {unit} =>
            /\ status = "INVALID_POSITION" => ~ symbol
            /\ status \in {"located", "done"} => symbol /\ found = named

(* How much of the position is checked, by how far the call is. *)
Checked ==
    /\ query \in Sym!Query
    /\ saved \in Sym!Versions \cup {Sym!Gone} /\ seen \subseteq Sym!Versions \cup {Sym!Gone}
    /\ status = "called" => saved \in Sym!Versions
    /\ status # "called" => unit \in Sym!Versions
    /\ status \in {"called", "parsed"} => seen = {}
    /\ status \in {"counted", "placed", "located"} => saved \in seen
    /\ status = "counted" => LineExists /\ query.col >= 1
    /\ Sym!AcceptedWasInRange
    /\ JudgedRight

SymInv == tool = "symbol" => Checked

LEMMA SymCardinality == \A S : Sym!Cardinality(S) = Cardinality(S)
  BY DEF Cardinality, Sym!Cardinality

LEMMA LinesHaveBytes ==
  ASSUME NEW text \in Sym!Text
  PROVE  /\ Len(text) \in Nat /\ DOMAIN text = 1..Len(text)
         /\ text # <<>> => Len(text) # 0
         /\ \A l \in DOMAIN text : /\ Len(text[l]) \in Nat \ {0}
                                  /\ DOMAIN text[l] = 1..Len(text[l])
<1>1. text \in Seq(Seq(Sym!Byte) \ {<<>>})
  BY DEF Sym!Text
<1>2. /\ Len(text) \in Nat /\ DOMAIN text = 1..Len(text)
      /\ text # <<>> => Len(text) # 0
  BY <1>1
<1>3. \A l \in DOMAIN text : text[l] \in Seq(Sym!Byte) /\ text[l] # <<>>
  BY <1>1
<1> QED BY <1>2, <1>3

LEMMA PlacesAreFinite ==
  ASSUME NEW text \in Sym!Text
  PROVE  IsFiniteSet(Sym!Places(text))
<1> DEFINE row == [l \in DOMAIN text |-> {l} \X DOMAIN text[l]]
           rows == {row[l] : l \in DOMAIN text}
<1>1. IsFiniteSet(DOMAIN text)
  BY LinesHaveBytes, FS_Interval
<1>2. row \in Surjection(DOMAIN text, rows)
  BY DEF Surjection
<1>3. IsFiniteSet(rows)
  BY <1>1, <1>2, FS_Surjection
<1>4. ASSUME NEW r \in rows PROVE IsFiniteSet(r)
  <2>1. PICK l \in DOMAIN text : r = {l} \X DOMAIN text[l]
    OBVIOUS
  <2>2. IsFiniteSet(DOMAIN text[l])
    BY LinesHaveBytes, FS_Interval
  <2>3. IsFiniteSet({l})
    BY FS_Singleton
  <2> QED BY <2>1, <2>2, <2>3, FS_Product
<1>5. Sym!Places(text) = UNION rows
  BY DEF Sym!Places
<1> QED BY <1>3, <1>4, <1>5, FS_UNION

(* Each byte is on one of the lines that are counted. *)
LEMMA LinesAreCounted ==
  ASSUME NEW text \in Sym!Text
  PROVE  /\ Sym!Cardinality(Sym!Splits(text)) \in Nat
         /\ \A p \in Sym!Places(text) :
               Sym!LineOf(text, p) \in 1..(Len(text) + Sym!Cardinality(Sym!Splits(text)))
<1>1. IsFiniteSet(Sym!Splits(text))
  BY PlacesAreFinite, FS_Subset DEF Sym!Splits
<1>2. PICK n \in Nat : n = Cardinality(Sym!Splits(text))
  BY <1>1, FS_CardinalityType
<1>3. ASSUME NEW p \in Sym!Places(text)
      PROVE  Sym!LineOf(text, p) \in 1..(Len(text) + n)
  <2> DEFINE before == {q \in Sym!Splits(text) : Sym!Precedes(q, p)}
  <2>1. PICK m \in Nat : m = Cardinality(before) /\ m <= n
    <3>1. before \in SUBSET Sym!Splits(text)
      OBVIOUS
    <3>2. IsFiniteSet(before) /\ Cardinality(before) <= Cardinality(Sym!Splits(text))
      BY <1>1, <3>1, FS_Subset
    <3> QED BY <1>2, <3>2, FS_CardinalityType
  <2>2. PICK l : l = p[1] /\ l \in 1..Len(text) /\ Len(text) \in Nat
    BY LinesHaveBytes DEF Sym!Places
  <2>3. Sym!LineOf(text, p) = l + m
    BY <2>1, <2>2, SymCardinality DEF Sym!LineOf
  <2> QED BY <2>1, <2>2, <2>3
<1> QED BY <1>2, <1>3, SymCardinality

LEMMA TextFacts ==
  ASSUME NEW v \in Sym!Versions
  PROVE  /\ v # Sym!Gone
         /\ Sym!MainText(v) \in Sym!Text
         /\ Sym!LineCount(v) \in Nat \ {0}
<1>1. v # Sym!Gone /\ Sym!MainText(v) \in Sym!Text
  <2>1. Programs \in Seq(Sym!Program)
    BY SymbolAssumption DEF Sym!ProgramsAreParsed
  <2>2. v \in 1..Len(Programs) /\ Programs[v] \in Sym!Program
    BY <2>1 DEF Sym!Versions
  <2>3. Programs[v].text \in Sym!Text
    BY <2>2 DEF Sym!Program
  <2> QED BY <2>2, <2>3 DEF Sym!Gone, Sym!MainText
<1>2. PICK n \in Nat : n = Len(Sym!MainText(v)) /\ (Sym!MainText(v) # <<>> => n # 0)
  BY <1>1, LinesHaveBytes
<1>3. PICK m \in Nat : m = Sym!Cardinality(Sym!Splits(Sym!MainText(v)))
  BY <1>1, LinesAreCounted
<1> QED BY <1>1, <1>2, <1>3 DEF Sym!LineCount

(* No line is shorter than nothing, so every line has a first column; and  *)
(* a line that is not there has no character.                              *)
LEMMA LengthIsNat ==
  ASSUME NEW v \in Sym!Versions, NEW l
  PROVE  /\ Sym!LineLength(v, l) \in Nat
         /\ l \notin 1..Sym!LineCount(v) => Sym!LineLength(v, l) = 0
<1> DEFINE text == Sym!MainText(v)
           length == {p \in Sym!OnLine(text, l) :
                         p[2] < Len(text[p[1]]) /\ Sym!ByteAt(text, p).is = "char"}
<1>1. text \in Sym!Text
  BY TextFacts
<1>2. Sym!LineLength(v, l) = Cardinality(length)
  BY SymCardinality DEF Sym!LineLength
<1>3. length \in SUBSET Sym!Places(text)
  BY DEF Sym!OnLine
<1>4. Cardinality(length) \in Nat
  BY <1>1, <1>3, PlacesAreFinite, FS_Subset, FS_CardinalityType
<1>5. ASSUME l \notin 1..Sym!LineCount(v) PROVE length = {}
  <2>1. CASE text = <<>>
    <3>1. Sym!Places(text) = {}
      BY <2>1 DEF Sym!Places
    <3> QED BY <1>3, <3>1
  <2>2. CASE text # <<>>
    <3>1. Sym!LineCount(v) = Len(text) + Sym!Cardinality(Sym!Splits(text))
      BY <2>2 DEF Sym!LineCount
    <3>2. \A p \in Sym!Places(text) : Sym!LineOf(text, p) # l
      BY <1>1, <1>5, <3>1, LinesAreCounted
    <3> QED BY <3>2 DEF Sym!OnLine
  <2> QED BY <2>1, <2>2
<1> HIDE DEF length
<1> QED BY <1>2, <1>4, <1>5, FS_EmptySet

(* The two readings make one: if the line exists in some state and the     *)
(* column passes the check against saved, some state has the position.     *)
LEMMA TwoReadings ==
  ASSUME seen \subseteq Sym!Versions \cup {Sym!Gone}, saved \in seen,
         query \in Sym!Query, LineExists, query.col >= 1,
         saved # Sym!Gone, query.col <= Sym!LineLength(saved, query.line) + 1
  PROVE  \E v \in seen \ {Sym!Gone} : Sym!InRange(v, query.line, query.col)
<1>1. saved \in Sym!Versions
  OBVIOUS
<1>2. query.line \in Int /\ query.col \in Int
  BY DEF Sym!Query
<1>3. CASE query.line \in 1..Sym!LineCount(saved)
  <2>1. Sym!InRange(saved, query.line, query.col)
    BY <1>1, <1>2, <1>3, LengthIsNat DEF Sym!InRange
  <2> QED BY <2>1
<1>4. CASE query.line \notin 1..Sym!LineCount(saved)
  <2>1. query.col = 1
    <3>1. Sym!LineLength(saved, query.line) = 0
      BY <1>1, <1>4, LengthIsNat
    <3> QED BY <1>2, <3>1
  <2>2. PICK v \in seen \ {Sym!Gone} : query.line \in 1..Sym!LineCount(v)
    BY DEF LineExists
  <2>3. v \in Sym!Versions /\ Sym!LineLength(v, query.line) \in Nat
    BY <2>2, LengthIsNat
  <2>4. Sym!InRange(v, query.line, query.col)
    BY <2>1, <2>2, <2>3 DEF Sym!InRange
  <2> QED BY <2>4
<1> QED BY <1>3, <1>4

-----------------------------------------------------------------------------
LEMMA InitChecked == Sym!Init => Checked
<1> SUFFICES ASSUME Sym!Init PROVE Checked
  OBVIOUS
<1>1. /\ query \in Sym!Query /\ saved \in Sym!Versions
      /\ status = "called" /\ unit = Sym!Gone /\ seen = {}
  BY SymbolAssumption DEF Sym!Init, Sym!QueriesAreQueries
<1> QED BY <1>1 DEF Checked, Sym!AcceptedWasInRange, JudgedRight

LEMMA StepChecked == Checked /\ Sym!Next => Checked'
<1> SUFFICES ASSUME Checked, Sym!Next PROVE Checked'
  OBVIOUS
<1> USE DEF Checked, LineExists
<1>1. CASE Sym!Parse
  <2>1. /\ status' = "parsed" /\ unit' \in Sym!Versions
        /\ UNCHANGED <<query, saved, seen>> /\ seen = {}
    BY <1>1 DEF Sym!Parse
  <2> QED BY <2>1 DEF Sym!AcceptedWasInRange, JudgedRight
<1>2. CASE Sym!Edit
  <2>1. CASE status = "parsed"
    BY <1>2, <2>1 DEF Sym!Edit, Sym!AcceptedWasInRange, JudgedRight
  <2>2. CASE status \in {"counted", "placed", "located"}
    <3>1. /\ seen' = seen \cup {saved'} /\ saved' \in Sym!Versions \cup {Sym!Gone}
          /\ saved' # saved /\ UNCHANGED <<query, status, unit, found>>
      BY <1>2, <2>2 DEF Sym!Edit
    <3>2. seen' # {unit'}
      BY <2>2, <3>1
    <3>3. Sym!AcceptedWasInRange'
      BY <3>1 DEF Sym!AcceptedWasInRange, Sym!InRange
    <3> QED BY <2>2, <3>1, <3>2, <3>3 DEF JudgedRight
  <2> QED BY <1>2, <2>1, <2>2 DEF Sym!Edit
<1>3. CASE Sym!CountLines
  <2> DEFINE ok == /\ query.line >= 1 /\ query.col >= 1 /\ saved # Sym!Gone
                   /\ query.line <= Sym!LineCount(saved)
  <2>1. /\ status = "parsed" /\ seen' = {saved} /\ UNCHANGED <<query, saved, unit, found>>
        /\ status' = IF ok THEN "counted" ELSE "INVALID_POSITION"
    BY <1>3 DEF Sym!CountLines, Sym!Proceed
  <2>2. query.line \in Int /\ query.col \in Int
    BY DEF Sym!Query
  <2>3. CASE ok
    <3>1. query.line \in 1..Sym!LineCount(saved)
      BY <2>2, <2>3, TextFacts
    <3>2. LineExists'
      BY <2>1, <2>3, <3>1
    <3> QED BY <2>1, <2>3, <3>2 DEF Sym!AcceptedWasInRange, JudgedRight
  <2>4. CASE ~ ok
    <3>1. ASSUME seen' = {unit'} PROVE ~ Sym!InRange(unit, query.line, query.col)
      <4>1. saved = unit /\ unit \in Sym!Versions
        BY <2>1, <3>1
      <4>2. query.line < 1 \/ query.col < 1 \/ query.line > Sym!LineCount(unit)
        BY <2>2, <2>4, <4>1, TextFacts
      <4> QED BY <2>2, <4>1, <4>2, TextFacts, LengthIsNat DEF Sym!InRange
    <3>2. ASSUME seen' = {unit'} PROVE ~ Sym!InRange(unit, query.line, query.col)'
      BY <2>1, <3>1, <3>2 DEF Sym!InRange
    <3>3. status' = "INVALID_POSITION"
      BY <2>1, <2>4
    <3>4. JudgedRight'
      BY <3>2, <3>3 DEF JudgedRight
    <3> QED BY <2>1, <3>3, <3>4 DEF Sym!AcceptedWasInRange
  <2> QED BY <2>3, <2>4
<1>4. CASE Sym!Measure
  <2> DEFINE ok == saved # Sym!Gone /\ query.col <= Sym!LineLength(saved, query.line) + 1
  <2>1. /\ status = "counted" /\ UNCHANGED <<query, saved, unit, seen, found>>
        /\ status' = IF ok THEN "placed" ELSE "INVALID_POSITION"
    BY <1>4 DEF Sym!Measure, Sym!Proceed
  <2>2. CASE ok
    <3>1. \E v \in seen \ {Sym!Gone} : Sym!InRange(v, query.line, query.col)
      BY <2>1, <2>2, TwoReadings
    <3>2. Sym!AcceptedWasInRange'
      BY <2>1, <3>1 DEF Sym!AcceptedWasInRange, Sym!InRange
    <3> QED BY <2>1, <2>2, <3>2 DEF JudgedRight
  <2>3. CASE ~ ok
    <3>1. ASSUME seen = {unit} PROVE ~ Sym!InRange(unit, query.line, query.col)
      <4>1. saved = unit /\ unit \in Sym!Versions
        BY <2>1, <3>1
      <4>2. query.col \in Int /\ query.col > Sym!LineLength(unit, query.line) + 1
        BY <2>3, <4>1, TextFacts, LengthIsNat DEF Sym!Query
      <4> QED BY <4>1, <4>2, LengthIsNat DEF Sym!InRange
    <3>2. ASSUME seen' = {unit'} PROVE ~ Sym!InRange(unit, query.line, query.col)'
      BY <2>1, <3>1, <3>2 DEF Sym!InRange
    <3>3. status' = "INVALID_POSITION"
      BY <2>1, <2>3
    <3>4. JudgedRight'
      BY <3>2, <3>3 DEF JudgedRight
    <3> QED BY <2>1, <3>3, <3>4 DEF Sym!AcceptedWasInRange
  <2> QED BY <2>2, <2>3
<1>5. CASE Sym!Locate
  <2>1. /\ status = "placed" /\ UNCHANGED <<query, saved, unit, seen>>
        /\ found' = Sym!CursorAt(unit, query.line, query.col)
        /\ status' = IF found' # 1 THEN "located" ELSE "INVALID_POSITION"
    BY <1>5 DEF Sym!Locate, Sym!Proceed
  <2>2. \E v \in seen \ {Sym!Gone} : Sym!InRange(v, query.line, query.col)
    BY <2>1 DEF Sym!AcceptedWasInRange
  <2>3. seen = {unit} => Sym!InRange(unit, query.line, query.col)
    BY <2>2
  <2>4. /\ Sym!CursorAt(unit, query.line, query.col)' = Sym!CursorAt(unit, query.line, query.col)
        /\ Sym!InRange(unit, query.line, query.col)' <=> Sym!InRange(unit, query.line, query.col)
    BY <2>1 DEF Sym!CursorAt, Sym!InRange
  <2>5. JudgedRight'
    BY <2>1, <2>3, <2>4 DEF JudgedRight
  <2>6. Sym!AcceptedWasInRange'
    BY <2>1, <2>2 DEF Sym!AcceptedWasInRange, Sym!InRange
  <2> QED BY <2>1, <2>5, <2>6
<1>6. CASE Sym!Define \/ Sym!DescribeType \/ Sym!ReturnReferences
  <2>1. /\ status = "located" /\ status' = "done"
        /\ UNCHANGED <<query, saved, unit, seen, found>>
    BY <1>6 DEF Sym!Define, Sym!DescribeType, Sym!ReturnReferences, Sym!Reply
  <2> QED BY <2>1 DEF Sym!AcceptedWasInRange, JudgedRight, Sym!CursorAt, Sym!InRange
<1>7. CASE Sym!Visit
  <2>1. UNCHANGED <<query, status, saved, unit, seen, found>>
    BY <1>7 DEF Sym!Visit
  <2> QED BY <2>1 DEF Sym!AcceptedWasInRange, JudgedRight, Sym!CursorAt, Sym!InRange
<1>8. CASE Sym!InspectHeader
  <2>1. /\ status = "parsed" /\ status' = "done" /\ seen = {}
        /\ UNCHANGED <<query, saved, unit, seen, found>>
    BY <1>8 DEF Sym!InspectHeader, Sym!Reply
  <2> QED BY <2>1 DEF Sym!AcceptedWasInRange, JudgedRight
<1> QED BY <1>1, <1>2, <1>3, <1>4, <1>5, <1>6, <1>7, <1>8 DEF Sym!Next

(* The other tools leave the variables of these alone. *)
LEMMA NextSym == SymInv /\ [Next]_vars => SymInv'
<1> SUFFICES ASSUME SymInv, [Next]_vars PROVE SymInv'
  OBVIOUS
<1>1. CASE tool = "symbol" /\ Sym!Next /\ UNCHANGED tool
  BY <1>1, StepChecked DEF SymInv
<1>2. CASE tool # "symbol" /\ UNCHANGED tool
  BY <1>2 DEF SymInv
<1>3. CASE UNCHANGED vars
  BY <1>3 DEF SymInv, vars, symbolVars, Checked, LineExists, Sym!AcceptedWasInRange,
              JudgedRight, Sym!CursorAt, Sym!InRange
<1> QED BY <1>1, <1>2, <1>3 DEF Next

LEMMA InitSym == Init => SymInv
  BY InitChecked DEF Init, SymInv

(* However often the file is saved while a call looks at it, a position    *)
(* that cursor_at accepts was one of the file, in one of its states.       *)
THEOREM PositionsWereInRange == Spec => []AcceptedWasInRange
<1>1. SymInv => AcceptedWasInRange
  BY DEF SymInv, Checked, AcceptedWasInRange
<1> QED BY <1>1, InitSym, NextSym, PTL DEF Spec

(* In a text where each byte is a character, the lines that are counted    *)
(* are the text's, and of the length that they have there.                 *)
LEMMA PlainLines ==
  ASSUME NEW v \in Sym!Versions, Sym!Plain(Sym!MainText(v))
  PROVE  /\ Sym!MainText(v) # <<>> => Sym!LineCount(v) = Len(Sym!MainText(v))
         /\ \A l \in DOMAIN Sym!MainText(v) :
               Sym!LineLength(v, l) = Len(Sym!MainText(v)[l]) - 1
<1> DEFINE text == Sym!MainText(v)
<1>1. text \in Sym!Text
  BY TextFacts
<1>2. Sym!Splits(text) = {}
  BY DEF Sym!Splits, Sym!Plain
<1>3. Cardinality({}) = 0
  BY FS_EmptySet
<1>4. text # <<>> => Sym!LineCount(v) = Len(text)
  BY <1>1, <1>2, <1>3, LinesHaveBytes, SymCardinality DEF Sym!LineCount
<1>5. ASSUME NEW p \in Sym!Places(text) PROVE Sym!LineOf(text, p) = p[1]
  <2>1. p[1] \in Nat
    BY <1>1, LinesHaveBytes DEF Sym!Places
  <2>2. {q \in Sym!Splits(text) : Sym!Precedes(q, p)} = {}
    BY <1>2
  <2>3. Sym!LineOf(text, p) = p[1] + 0
    BY <1>3, <2>2, SymCardinality DEF Sym!LineOf
  <2> QED BY <2>1, <2>3
<1>6. ASSUME NEW l \in DOMAIN text
      PROVE  Sym!LineLength(v, l) = Len(text[l]) - 1
  <2>1. PICK n \in Nat : n = Len(text[l]) - 1 /\ Len(text[l]) = n + 1
                       /\ DOMAIN text[l] = 1..(n + 1)
    <3>1. Len(text[l]) \in Nat \ {0} /\ DOMAIN text[l] = 1..Len(text[l])
      BY <1>1, LinesHaveBytes
    <3>2. PICK k \in Nat \ {0} : k = Len(text[l])
      BY <3>1
    <3>3. k - 1 \in Nat /\ k = (k - 1) + 1
      OBVIOUS
    <3> QED BY <3>1, <3>2, <3>3
  <2>2. {p \in Sym!OnLine(text, l) :
           p[2] < Len(text[p[1]]) /\ Sym!ByteAt(text, p).is = "char"} = {l} \X (1..n)
    <3>1. Sym!OnLine(text, l) = {l} \X (1..(n + 1))
      BY <1>5, <2>1 DEF Sym!OnLine, Sym!Places
    <3>2. \A p \in Sym!OnLine(text, l) : Sym!ByteAt(text, p).is = "char"
      BY DEF Sym!OnLine, Sym!Plain
    <3>3. \A p \in {l} \X (1..(n + 1)) :
             p[2] < Len(text[p[1]]) <=> p \in {l} \X (1..n)
      BY <2>1
    <3>4. ({l} \X (1..n)) \subseteq {l} \X (1..(n + 1))
      OBVIOUS
    <3> QED BY <3>1, <3>2, <3>3, <3>4
  <2>3. Cardinality({l} \X (1..n)) = n
    <3>1. IsFiniteSet({l}) /\ Cardinality({l}) = 1
      BY FS_Singleton
    <3>2. IsFiniteSet(1..n) /\ Cardinality(1..n) = n
      BY FS_Interval
    <3>3. Cardinality({l} \X (1..n)) = 1 * n
      BY <3>1, <3>2, FS_Product
    <3> QED BY <3>3
  <2> QED BY <2>1, <2>2, <2>3, SymCardinality DEF Sym!LineLength
<1> QED BY <1>4, <1>6

(* INVALID_POSITION and the symbol a call is about are right for every     *)
(* position of every file in which a byte is a character, as long as       *)
(* nobody saves the file meanwhile.                                        *)
THEOREM UneditedCallsAreExact == Spec => []PlainIsExact
<1>1. Checked => Sym!PlainIsExact
  <2> SUFFICES ASSUME Checked, unit # Sym!Gone, Sym!Plain(Sym!MainText(unit))
               PROVE  Sym!Exact
    BY DEF Sym!PlainIsExact
  <2> DEFINE text == Sym!MainText(unit)
             named == Sym!CursorAt(unit, query.line, query.col)
             there == /\ query.line \in DOMAIN text
                      /\ query.col \in 1..Len(text[query.line])
  <2>1. CASE unit \notin Sym!Versions
    <3>1. status = "called" /\ seen = {}
      BY <2>1 DEF Checked
    <3> QED BY <3>1 DEF Sym!Exact
  <2>2. CASE unit \in Sym!Versions
    <3>1. text \in Sym!Text
      BY <2>2, TextFacts
    <3>2. CASE query.line \notin DOMAIN text
      <4>1. named = 1 /\ ~ there
        BY <3>2 DEF Sym!CursorAt
      <4> QED BY <4>1 DEF Checked, JudgedRight, Sym!Exact
    <3>3. CASE query.line \in DOMAIN text
      <4>1. /\ Sym!LineCount(unit) = Len(text) /\ query.line \in 1..Len(text)
            /\ Sym!LineLength(unit, query.line) + 1 = Len(text[query.line])
        <5>1. text # <<>>
          BY <3>3
        <5>2. Len(text[query.line]) \in Nat
          BY <3>1, <3>3, LinesHaveBytes
        <5> QED BY <2>2, <3>1, <3>3, <5>1, <5>2, PlainLines, LinesHaveBytes
      <4>2. Sym!InRange(unit, query.line, query.col) <=> there
        BY <3>3, <4>1 DEF Sym!InRange
      <4> HIDE DEF named
      <4> QED BY <4>2 DEF Checked, JudgedRight, Sym!Exact, named
    <3> QED BY <3>2, <3>3
  <2> QED BY <2>1, <2>2
<1>2. SymInv => PlainIsExact
  BY <1>1 DEF SymInv, PlainIsExact
<1> QED BY <1>2, InitSym, NextSym, PTL DEF Spec

-----------------------------------------------------------------------------
(* get_ast *)

Linked == \A e \in (DOMAIN nodes) \X (DOMAIN nodes) :
              e \in links <=> tree[nodes[e[2]]].up = nodes[e[1]]

(* The calls to come, against what is emitted. *)
ToCome(w) ==
    /\ w.c \in DOMAIN tree
    /\ \A i \in DOMAIN nodes : nodes[i] < w.c
    /\ IF w.parent = 0 THEN w.c = 1
       ELSE w.parent \in DOMAIN nodes /\ nodes[w.parent] = tree[w.c].up

Walked ==
    /\ tree \in Trees
    /\ nodes \in Seq(DOMAIN tree)
    /\ \A i, j \in DOMAIN nodes : i < j => nodes[i] < nodes[j]
    /\ \A w \in pending : ToCome(w)
    /\ \A v, w \in pending : v.c = w.c => v = w
    /\ links \subseteq (DOMAIN nodes) \X (DOMAIN nodes)
    /\ Linked
    /\ status = "called" => nodes = <<>> /\ links = {}

AstInv == tool = "ast" => Walked

LEMMA TreeFacts ==
  ASSUME tree \in Trees
  PROVE  /\ DOMAIN tree \subseteq Nat \ {0} /\ 1 \in DOMAIN tree
         /\ \A c \in DOMAIN tree : /\ tree[c].up \in Nat /\ tree[c].up < c
                                   /\ tree[c].up = 0 <=> c = 1
<1>1. tree \in Seq(Ast!Cursor) /\ tree # <<>>
  BY AstAssumption DEF Ast!TreesAreWalks
<1>2. Len(tree) \in Nat /\ DOMAIN tree = 1..Len(tree) /\ Len(tree) # 0
  BY <1>1
<1>3. ASSUME NEW c \in DOMAIN tree
      PROVE  tree[c].up \in 0..(c - 1) /\ (tree[c].up = 0 <=> c = 1)
  BY AstAssumption DEF Ast!TreesAreWalks
<1> QED BY <1>2, <1>3

LEMMA InitWalked == Ast!Init => Walked
  BY DEF Ast!Init, Walked, Linked

(* One node more: it is the child of the node that the call names, and of  *)
(* no other, and no node is its child yet.                                 *)
LEMMA EmitLinks ==
  ASSUME Walked, NEW w \in pending, Ast!Emit(w), UNCHANGED tree
  PROVE  /\ links' \subseteq (DOMAIN nodes') \X (DOMAIN nodes')
         /\ Linked'
<1> DEFINE id == Len(nodes) + 1
<1>1. /\ nodes' = Append(nodes, w.c) /\ Len(nodes) \in Nat
      /\ DOMAIN nodes = 1..Len(nodes) /\ DOMAIN nodes' = 1..id
      /\ nodes'[id] = w.c /\ \A i \in DOMAIN nodes : nodes'[i] = nodes[i]
  BY DEF Walked, Ast!Emit
<1>2. links' = IF w.parent = 0 THEN links ELSE links \cup {<<w.parent, id>>}
  BY DEF Ast!Emit
<1>3. ToCome(w) /\ w.c \in Nat /\ tree[w.c].up < w.c /\ tree[w.c].up \in Nat
  BY TreeFacts DEF Walked, ToCome
<1>4. links' \subseteq (DOMAIN nodes') \X (DOMAIN nodes')
  BY <1>1, <1>2, <1>3 DEF Walked, ToCome
<1>5. ASSUME NEW i \in DOMAIN nodes', NEW j \in DOMAIN nodes'
      PROVE  <<i, j>> \in links' <=> tree[nodes'[j]].up = nodes'[i]
  <2>1. CASE i \in DOMAIN nodes /\ j \in DOMAIN nodes
    <3>1. <<i, j>> \in links' <=> <<i, j>> \in links
      BY <1>1, <1>2, <2>1
    <3>2. <<i, j>> \in links <=> tree[nodes[j]].up = nodes[i]
      BY <2>1 DEF Walked, Linked
    <3> QED BY <1>1, <2>1, <3>1, <3>2
  <2>2. CASE i \in DOMAIN nodes /\ j = id
    <3>1. <<i, j>> \notin links
      BY <1>1, <2>2 DEF Walked
    <3>2. CASE w.parent = 0
      <4>1. DOMAIN nodes = {}
        BY <1>3, <3>2, TreeFacts DEF ToCome, Walked
      <4> QED BY <2>2, <4>1
    <3>3. CASE w.parent # 0
      <4>1. w.parent \in DOMAIN nodes /\ nodes[w.parent] = tree[w.c].up
        BY <1>3, <3>3 DEF ToCome
      <4>2. nodes[i] = nodes[w.parent] => i = w.parent
        <5>1. nodes[i] \in Nat /\ nodes[w.parent] \in Nat
          BY <2>2, <4>1, TreeFacts DEF Walked
        <5>2. i \in Nat /\ w.parent \in Nat
          BY <1>1, <2>2, <4>1
        <5>3. /\ i < w.parent => nodes[i] < nodes[w.parent]
              /\ w.parent < i => nodes[w.parent] < nodes[i]
          BY <2>2, <4>1 DEF Walked
        <5> QED BY <5>1, <5>2, <5>3
      <4>3. <<i, j>> \in links' <=> i = w.parent
        BY <1>2, <2>2, <3>1, <3>3
      <4>4. nodes'[j] = w.c /\ nodes'[i] = nodes[i]
        BY <1>1, <2>2
      <4> QED BY <4>1, <4>2, <4>3, <4>4
    <3> QED BY <3>2, <3>3
  <2>3. CASE i = id
    <3>1. <<i, j>> \notin links'
      BY <1>1, <1>2, <1>3, <2>3 DEF Walked, ToCome
    <3>2. CASE j = id
      BY <1>1, <1>3, <2>3, <3>1, <3>2
    <3>3. CASE j \in DOMAIN nodes
      <4>1. nodes[j] \in DOMAIN tree /\ nodes[j] < w.c
        BY <1>3, <3>3 DEF Walked, ToCome
      <4>2. tree[nodes[j]].up < nodes[j] /\ tree[nodes[j]].up \in Nat /\ nodes[j] \in Nat
        BY <4>1, TreeFacts DEF Walked
      <4> QED BY <1>1, <1>3, <2>3, <3>1, <3>3, <4>1, <4>2
    <3> QED BY <1>1, <3>2, <3>3
  <2> QED BY <1>1, <2>1, <2>2, <2>3
<1> QED BY <1>4, <1>5 DEF Linked

(* The calls of an emitted cursor's children are new, and come after it.   *)
LEMMA EmitCalls ==
  ASSUME Walked, NEW w \in pending, Ast!IsNext(w), Ast!Emit(w), UNCHANGED tree
  PROVE  /\ \A v \in pending' : ToCome(v)'
         /\ \A u, v \in pending' : u.c = v.c => u = v
<1> DEFINE id == Len(nodes) + 1
           new == {v \in Ast!Descend(w, id) : TRUE}
<1>1. /\ Len(nodes) \in Nat /\ DOMAIN nodes = 1..Len(nodes) /\ DOMAIN nodes' = 1..id
      /\ nodes'[id] = w.c /\ \A i \in DOMAIN nodes : nodes'[i] = nodes[i]
  BY DEF Walked, Ast!Emit
<1>2. pending' \subseteq (pending \ {w}) \cup new
  BY DEF Ast!Emit
<1>3. /\ w.c \in DOMAIN tree /\ w.c \in Nat \ {0}
      /\ \A i \in DOMAIN nodes : nodes[i] < w.c
  BY TreeFacts DEF Walked, ToCome
<1>4. ASSUME NEW v \in new
      PROVE  /\ v.c \in DOMAIN tree /\ tree[v.c].up = w.c /\ w.c < v.c
             /\ v = Ast!Call(v.c, w.depth + 1, id) /\ v.parent = id
  <2>1. PICK d \in Ast!Kids(w.c) : v = Ast!Call(d, w.depth + 1, id)
    BY DEF Ast!Descend
  <2>2. v.c = d /\ v.parent = id
    BY <2>1 DEF Ast!Call
  <2>3. d \in DOMAIN tree /\ tree[d].up = w.c
    BY <2>1 DEF Ast!Kids
  <2>4. tree[d].up < d
    BY <2>3, TreeFacts DEF Walked
  <2> QED BY <2>1, <2>2, <2>3, <2>4
<1>5. ASSUME NEW v \in pending \ {w}
      PROVE  w.c < v.c /\ v.c \in DOMAIN tree
  <2>1. w.c <= v.c /\ w.c # v.c
    BY <1>5 DEF Ast!IsNext, Walked
  <2>2. v.c \in DOMAIN tree /\ v.c \in Nat
    BY TreeFacts DEF Walked, ToCome
  <2> QED BY <1>3, <2>1, <2>2
<1>6. ASSUME NEW v \in pending \ {w} PROVE ToCome(v)'
  <2>1. \A i \in DOMAIN nodes' : nodes'[i] < v.c
    BY <1>1, <1>5 DEF Walked, ToCome
  <2>2. v.parent # 0 => v.parent \in DOMAIN nodes' /\ nodes'[v.parent] = tree[v.c].up
    BY <1>1 DEF Walked, ToCome
  <2>3. v.parent = 0 => v.c = 1
    BY DEF Walked, ToCome
  <2> QED BY <1>5, <2>1, <2>2, <2>3 DEF ToCome
<1>7. ASSUME NEW v \in new PROVE ToCome(v)'
  <2>1. v.c \in Nat
    BY <1>4, TreeFacts DEF Walked
  <2>2. \A i \in DOMAIN nodes' : nodes'[i] < v.c
    <3>1. ASSUME NEW i \in DOMAIN nodes PROVE nodes'[i] < v.c
      <4>1. nodes[i] \in Nat
        BY TreeFacts DEF Walked
      <4> QED BY <1>1, <1>3, <1>4, <2>1, <4>1
    <3> QED BY <1>1, <1>4, <3>1
  <2> QED BY <1>1, <1>4, <2>2 DEF ToCome
<1>8. ASSUME NEW u \in pending \ {w}, NEW v \in new PROVE u.c # v.c
  <2>1. SUFFICES ASSUME u.c = v.c PROVE FALSE
    OBVIOUS
  <2>2. tree[u.c].up = w.c /\ w.c < u.c
    BY <1>4, <2>1
  <2>3. u.parent # 0
    BY <1>3, <2>2 DEF Walked, ToCome
  <2>4. u.parent \in DOMAIN nodes /\ nodes[u.parent] = w.c
    BY <2>2, <2>3 DEF Walked, ToCome
  <2> QED BY <1>3, <2>4
<1>9. ASSUME NEW u \in pending', NEW v \in pending', u.c = v.c PROVE u = v
  <2>1. CASE u \in new /\ v \in new
    BY <1>4, <1>9, <2>1
  <2>2. CASE u \in pending /\ v \in pending
    BY <1>9, <2>2 DEF Walked
  <2> QED BY <1>2, <1>8, <1>9, <2>1, <2>2
<1> QED BY <1>2, <1>6, <1>7, <1>9

LEMMA StepWalked == Walked /\ Ast!Next => Walked'
<1> SUFFICES ASSUME Walked, Ast!Next PROVE Walked'
  OBVIOUS
<1>1. CASE Ast!Begin
  <2>1. /\ UNCHANGED <<tree, nodes, links>> /\ nodes = <<>> /\ links = {}
        /\ pending' = {Ast!Call(1, 0, 0)}
    BY <1>1 DEF Ast!Begin, Walked
  <2>2. \A v \in pending' : v.c = 1 /\ v.parent = 0
    BY <2>1 DEF Ast!Call
  <2> QED BY <2>1, <2>2, TreeFacts DEF Walked, ToCome, Linked
<1>2. CASE Ast!Walk
  <2>1. status = "walking" /\ UNCHANGED <<tree, status>>
    BY <1>2 DEF Ast!Walk
  <2>2. CASE Ast!Stop \/ \E w \in pending : Ast!Omit(w)
    <3>1. pending' \subseteq pending /\ UNCHANGED <<nodes, links>>
      BY <2>2 DEF Ast!Stop, Ast!Omit
    <3> QED BY <2>1, <3>1 DEF Walked, ToCome, Linked
  <2>3. ASSUME NEW w \in pending, Ast!IsNext(w), Ast!Emit(w) PROVE Walked'
    <3>1. /\ links' \subseteq (DOMAIN nodes') \X (DOMAIN nodes')
          /\ Linked'
      BY <2>1, <2>3, EmitLinks
    <3>2. /\ \A v \in pending' : ToCome(v)'
          /\ \A u, v \in pending' : u.c = v.c => u = v
      BY <2>1, <2>3, EmitCalls
    <3>3. /\ nodes' = Append(nodes, w.c) /\ w.c \in DOMAIN tree
          /\ \A i \in DOMAIN nodes : nodes[i] < w.c
      BY <2>3 DEF Ast!Emit, Walked, ToCome
    <3>4. /\ nodes' \in Seq(DOMAIN tree')
          /\ \A i, j \in DOMAIN nodes' : i < j => nodes'[i] < nodes'[j]
      BY <2>1, <3>3 DEF Walked
    <3> QED BY <2>1, <3>1, <3>2, <3>4 DEF Walked
  <2> QED BY <1>2, <2>2, <2>3 DEF Ast!Walk
<1>3. CASE Ast!Return
  BY <1>3 DEF Ast!Return, Walked, ToCome, Linked
<1> QED BY <1>1, <1>2, <1>3 DEF Ast!Next

LEMMA NextAst == AstInv /\ [Next]_vars => AstInv'
<1> SUFFICES ASSUME AstInv, [Next]_vars PROVE AstInv'
  OBVIOUS
<1>1. CASE tool = "ast" /\ Ast!Next /\ UNCHANGED tool
  BY <1>1, StepWalked DEF AstInv
<1>2. CASE tool # "ast" /\ UNCHANGED tool
  BY <1>2 DEF AstInv
<1>3. CASE UNCHANGED vars
  BY <1>3 DEF AstInv, vars, astVars, Walked, ToCome, Linked
<1> QED BY <1>1, <1>2, <1>3 DEF Next

LEMMA InitAst == Init => AstInv
  BY InitWalked DEF Init, AstInv

(* For every tree of cursors and every budget, depth and range: each node  *)
(* that get_ast emits is linked to the node of the cursor that it is       *)
(* under, and there is no other link.                                      *)
THEOREM NodesAreATree == Spec => []LinksAreTree
<1>1. AstInv => LinksAreTree
  <2> SUFFICES ASSUME Walked PROVE Ast!LinksAreTree
    BY DEF AstInv, LinksAreTree
  <2> QED BY DEF Walked, Linked, Ast!LinksAreTree
<1> QED BY <1>1, InitAst, NextAst, PTL DEF Spec

-----------------------------------------------------------------------------
(* What get_ast emits is the beginning of the walk.  The argument is about *)
(* paths: a cursor of the walk that is not emitted has, on its path, the   *)
(* cursor of a call to come, and all of those are after what is emitted.   *)

Shown == {nodes[i] : i \in DOMAIN nodes}

(* What a call to come knows of its cursor. *)
InWalk(w) ==
    /\ w.depth \in Nat /\ Cardinality(Ast!Path(tree, w.c)) = w.depth + 1
    /\ \A a \in Ast!Path(tree, w.c) \ {w.c} : ~ Ast!Outside(a)
    /\ ask.format = "json" => w.depth <= ask.depth

Covered ==
    \A c \in Ast!Whole \ Shown : \E w \in pending : w.c \in Ast!Path(tree, c)

Budgeted ==
    /\ bytes \in Nat
    /\ reason = "none" => Len(nodes) < ask.maxNodes /\ bytes < ask.maxBytes
    /\ reason # "none" => nodes # <<>>
    /\ reason = "max_nodes" => Len(nodes) = ask.maxNodes
    /\ reason = "max_bytes" => bytes >= ask.maxBytes
    /\ Len(nodes) <= ask.maxNodes
    /\ nodes # <<>> => bytes - tree[nodes[Len(nodes)]].size < ask.maxBytes

(* A node whose children the depth limit cut off is marked. *)
CutsAreMarked ==
    marked = {} => \A d \in Shown :
        ask.format = "json" /\ Cardinality(Ast!Path(tree, d)) > ask.depth
            => Ast!Kids(d) = {}

Begun ==
    /\ Shown \subseteq Ast!Whole
    /\ \A c \in Ast!Whole \ Shown : \A d \in Shown : d < c

WalkInv ==
    /\ Walked /\ ask \in Asks
    /\ \A w \in pending : InWalk(w)
    /\ Begun /\ Budgeted /\ CutsAreMarked
    /\ status = "called" => reason = "none" /\ bytes = 0 /\ marked = {}
    /\ status = "walking" /\ reason = "none" => Covered
    /\ status = "done" /\ reason = "none" => Ast!Whole \subseteq Shown

AstWalkInv == tool = "ast" => WalkInv

-----------------------------------------------------------------------------
(* Paths *)

LEMMA LeastNat ==
  ASSUME NEW S \in SUBSET Nat, S # {}
  PROVE  \E m \in S : \A n \in S : m <= n
<1> DEFINE R == OpToRel(<, Nat)
<1>1. IsWellFoundedOn(R, Nat)
  BY NatLessThanWellFounded
<1>2. \A x, y \in Nat : x < y => <<x, y>> \in R
  BY DEF OpToRel
<1> HIDE DEF R
<1>3. PICK m \in S : \A n \in S : ~ (<<n, m>> \in R)
  BY <1>1, WFMin
<1>4. \A n \in S : ~ (n < m)
  BY <1>2, <1>3
<1>5. \A n \in S : m <= n
  BY <1>4
<1> QED BY <1>5

(* The path of a cursor is that of the cursor it is under, and itself. *)
LEMMA PathStep ==
  ASSUME tree \in Trees, NEW c \in DOMAIN tree
  PROVE  /\ Ast!Path(tree, c) \subseteq DOMAIN tree
         /\ \A a \in Ast!Path(tree, c) : a <= c
         /\ c \in Ast!Path(tree, c) /\ 1 \in Ast!Path(tree, c)
         /\ c = 1 => Ast!Path(tree, c) = {1}
         /\ c # 1 => /\ tree[c].up \in DOMAIN tree
                     /\ Ast!Path(tree, c) = Ast!Path(tree, tree[c].up) \cup {c}
                     /\ c \notin Ast!Path(tree, tree[c].up)
<1>1. /\ DOMAIN tree = 1..Len(tree) /\ Len(tree) \in Nat /\ c \in Nat \ {0}
      /\ \A d \in DOMAIN tree : /\ tree[d].up \in Nat /\ tree[d].up < d
                                /\ tree[d].up = 0 <=> d = 1
                                /\ d > 1 => tree[d].up \in Ast!Path(tree, d - 1)
  <2>1. tree \in Seq(Ast!Cursor)
    BY AstAssumption DEF Ast!TreesAreWalks
  <2>2. DOMAIN tree = 1..Len(tree) /\ Len(tree) \in Nat
    BY <2>1
  <2>3. \A d \in DOMAIN tree : d > 1 => tree[d].up \in Ast!Path(tree, d - 1)
    BY AstAssumption DEF Ast!TreesAreWalks
  <2> QED BY <2>2, <2>3, TreeFacts
<1>2. 1..c \subseteq DOMAIN tree
  BY <1>1
<1>3. \A b \in DOMAIN tree : \A a : a \in Ast!Path(tree, b) <=>
         a \in 1..b /\ \A d \in (a + 1)..b : tree[d].up >= a
  BY DEF Ast!Path
<1>4. c \in Ast!Path(tree, c)
  <2>1. (c + 1)..c = {}
    BY <1>1
  <2>2. c \in 1..c
    BY <1>1
  <2> QED BY <1>3, <2>1, <2>2
<1>5. 1 \in Ast!Path(tree, c)
  <2>1. \A d \in (1 + 1)..c : d \in DOMAIN tree /\ d # 1
    BY <1>1
  <2>2. \A d \in (1 + 1)..c : tree[d].up >= 1
    BY <1>1, <2>1
  <2>3. 1 \in 1..c
    BY <1>1
  <2> QED BY <1>3, <2>2, <2>3
<1>6. c = 1 => Ast!Path(tree, c) = {1}
  BY <1>3, <1>4
<1>7. ASSUME c # 1
      PROVE  /\ tree[c].up \in DOMAIN tree
             /\ Ast!Path(tree, c) = Ast!Path(tree, tree[c].up) \cup {c}
             /\ c \notin Ast!Path(tree, tree[c].up)
  <2> DEFINE p == tree[c].up
  <2>1. p \in DOMAIN tree /\ p < c /\ p \in Nat \ {0} /\ c - 1 \in DOMAIN tree
    BY <1>1, <1>7
  <2>2. p \in 1..(c - 1) /\ \A d \in (p + 1)..(c - 1) : tree[d].up >= p
    BY <1>1, <1>3, <1>7, <2>1
  <2> HIDE DEF p
  <2>3. tree[c].up = p
    BY DEF p
  <2>4. ASSUME NEW a \in Ast!Path(tree, c), a # c PROVE a \in Ast!Path(tree, p)
    <3>1. a \in 1..c /\ \A d \in (a + 1)..c : tree[d].up >= a
      BY <1>3
    <3>2. a <= p
      <4>1. c \in (a + 1)..c
        BY <1>1, <2>4, <3>1
      <4> QED BY <2>3, <3>1, <4>1
    <3>3. \A d \in (a + 1)..p : tree[d].up >= a
      <4>1. \A d \in (a + 1)..p : d \in (a + 1)..c
        BY <1>1, <2>1, <3>1
      <4> QED BY <3>1, <4>1
    <3>4. a \in 1..p
      BY <2>1, <3>1, <3>2
    <3> QED BY <1>3, <2>1, <3>3, <3>4
  <2>5. ASSUME NEW a \in Ast!Path(tree, p) PROVE a \in Ast!Path(tree, c) /\ a # c
    <3>1. a \in 1..p /\ \A d \in (a + 1)..p : tree[d].up >= a
      BY <1>3, <2>1
    <3>2. ASSUME NEW d \in (a + 1)..c PROVE tree[d].up >= a
      <4>1. CASE d <= p
        <5>1. d \in (a + 1)..p
          BY <2>1, <3>1, <4>1
        <5> QED BY <3>1, <5>1
      <4>2. CASE d > p /\ d # c
        <5>1. d \in (p + 1)..(c - 1)
          BY <1>1, <2>1, <3>1, <4>2
        <5>2. tree[d].up >= p /\ tree[d].up \in Nat
          BY <1>1, <1>2, <2>2, <5>1
        <5> QED BY <2>1, <3>1, <5>2
      <4>3. CASE d = c
        BY <2>1, <2>3, <3>1, <4>3
      <4> QED BY <2>1, <3>1, <4>1, <4>2, <4>3
    <3>3. a \in 1..c /\ a # c
      BY <1>1, <2>1, <3>1
    <3> QED BY <1>3, <3>2, <3>3
  <2> QED BY <1>4, <2>1, <2>3, <2>4, <2>5
<1>8. \A a \in Ast!Path(tree, c) : a \in 1..c
  BY <1>3
<1>9. Ast!Path(tree, c) \subseteq DOMAIN tree /\ \A a \in Ast!Path(tree, c) : a <= c
  BY <1>1, <1>2, <1>8
<1> QED BY <1>4, <1>5, <1>6, <1>7, <1>9

LEMMA PathWithin ==
  ASSUME tree \in Trees, NEW c \in DOMAIN tree, NEW b \in Ast!Path(tree, c)
  PROVE  Ast!Path(tree, b) \subseteq Ast!Path(tree, c)
<1>1. /\ DOMAIN tree \subseteq Nat \ {0}
      /\ \A d \in DOMAIN tree : tree[d].up \in Nat
      /\ DOMAIN tree = 1..Len(tree) /\ Len(tree) \in Nat
  <2>1. tree \in Seq(Ast!Cursor)
    BY AstAssumption DEF Ast!TreesAreWalks
  <2> QED BY <2>1, TreeFacts
<1>2. b \in 1..c /\ \A d \in (b + 1)..c : tree[d].up >= b
  BY DEF Ast!Path
<1> SUFFICES ASSUME NEW a \in Ast!Path(tree, b) PROVE a \in Ast!Path(tree, c)
  OBVIOUS
<1>3. a \in 1..b /\ \A d \in (a + 1)..b : tree[d].up >= a
  BY DEF Ast!Path
<1>4. ASSUME NEW d \in (a + 1)..c PROVE tree[d].up >= a
  <2>1. CASE d <= b
    <3>1. d \in (a + 1)..b
      BY <1>1, <1>2, <1>3, <2>1
    <3> QED BY <1>3, <3>1
  <2>2. CASE d > b
    <3>1. d \in (b + 1)..c /\ d \in DOMAIN tree
      BY <1>1, <1>2, <1>3, <2>2
    <3>2. tree[d].up >= b /\ tree[d].up \in Nat
      BY <1>1, <1>2, <3>1
    <3> QED BY <1>1, <1>2, <1>3, <3>2
  <2> QED BY <1>1, <1>2, <1>3, <2>1, <2>2
<1>5. a \in 1..c
  BY <1>1, <1>2, <1>3
<1> QED BY <1>4, <1>5 DEF Ast!Path

(* The cardinalities that the instance counts with are these. *)
LEMMA AstCardinality == \A S : Ast!Cardinality(S) = Cardinality(S)
  BY DEF Cardinality, Ast!Cardinality

LEMMA PathFinite ==
  ASSUME tree \in Trees, NEW c \in DOMAIN tree
  PROVE  /\ IsFiniteSet(Ast!Path(tree, c)) /\ Cardinality(Ast!Path(tree, c)) \in Nat \ {0}
         /\ c = 1 => Cardinality(Ast!Path(tree, c)) = 1
         /\ c # 1 => Cardinality(Ast!Path(tree, c))
                        = Cardinality(Ast!Path(tree, tree[c].up)) + 1
<1>1. \A b \in DOMAIN tree : IsFiniteSet(Ast!Path(tree, b))
  <2> TAKE b \in DOMAIN tree
  <2>1. b \in Nat
    BY TreeFacts
  <2>2. IsFiniteSet(1..b) /\ Ast!Path(tree, b) \in SUBSET (1..b)
    BY <2>1, FS_Interval DEF Ast!Path
  <2> QED BY <2>2, FS_Subset
<1>2. Cardinality(Ast!Path(tree, c)) \in Nat \ {0}
  BY <1>1, PathStep, FS_CardinalityType, FS_EmptySet
<1>3. c = 1 => Cardinality(Ast!Path(tree, c)) = 1
  BY PathStep, FS_Singleton
<1>4. c # 1 => Cardinality(Ast!Path(tree, c))
                 = Cardinality(Ast!Path(tree, tree[c].up)) + 1
  <2> SUFFICES ASSUME c # 1
               PROVE  Cardinality(Ast!Path(tree, c))
                        = Cardinality(Ast!Path(tree, tree[c].up)) + 1
    OBVIOUS
  <2> DEFINE P == Ast!Path(tree, tree[c].up)
  <2>1. tree[c].up \in DOMAIN tree /\ Ast!Path(tree, c) = P \cup {c} /\ c \notin P
    BY PathStep
  <2>2. IsFiniteSet(P)
    BY <1>1, <2>1
  <2> HIDE DEF P
  <2>3. Cardinality(P \cup {c}) = Cardinality(P) + 1
    BY <2>1, <2>2, FS_AddElement
  <2> QED BY <2>1, <2>3 DEF P
<1> QED BY <1>1, <1>2, <1>3, <1>4

(* Below a cursor of the path the path goes on with one of its children. *)
LEMMA PathChild ==
  ASSUME tree \in Trees, NEW c \in DOMAIN tree, NEW a \in Ast!Path(tree, c), a # c
  PROVE  \E k \in Ast!Path(tree, c) : k \in DOMAIN tree /\ tree[k].up = a
<1> DEFINE S == {x \in Ast!Path(tree, c) : x > a}
<1>1. /\ DOMAIN tree \subseteq Nat \ {0} /\ Ast!Path(tree, c) \subseteq DOMAIN tree
      /\ a \in Nat \ {0} /\ c \in S
  BY TreeFacts, PathStep
<1>2. PICK k \in S : \A x \in S : k <= x
  BY <1>1, LeastNat
<1>3. k \in DOMAIN tree /\ k # 1 /\ k \in Nat /\ tree[k].up \in Nat /\ tree[k].up < k
  BY <1>1, <1>2, TreeFacts
<1>4. tree[k].up >= a
  <2>1. a \in 1..c /\ \A d \in (a + 1)..c : tree[d].up >= a
    BY DEF Ast!Path
  <2>2. k \in (a + 1)..c
    BY <1>1, <1>2, <1>3, PathStep
  <2> QED BY <2>1, <2>2
<1>5. tree[k].up \in Ast!Path(tree, c)
  <2>1. tree[k].up \in DOMAIN tree /\ Ast!Path(tree, k)
            = Ast!Path(tree, tree[k].up) \cup {k}
    BY <1>3, PathStep
  <2>2. tree[k].up \in Ast!Path(tree, k)
    BY <2>1, PathStep
  <2> QED BY <1>2, <2>2, PathWithin
<1>6. tree[k].up = a
  BY <1>1, <1>2, <1>3, <1>4, <1>5
<1> QED BY <1>2, <1>3, <1>6

LEMMA AskFacts ==
  ASSUME tree \in Trees, ask \in Asks
  PROVE  /\ ask.maxNodes \in Nat \ {0} /\ ask.maxBytes \in Nat \ {0}
         /\ ask.depth \in Nat \ {0}
         /\ \A c \in DOMAIN tree : /\ tree[c].size \in Nat \ {0}
                                   /\ Ast!Overlaps(tree[c]) <=> ~ Ast!Outside(c)
<1>1. ask \in Ast!Ask /\ NoLine \notin Nat
  BY AstAssumption DEF Ast!AsksAreAsks
<1>2. \A c \in DOMAIN tree : tree[c] \in Ast!Cursor
  <2>1. tree \in Seq(Ast!Cursor)
    BY AstAssumption DEF Ast!TreesAreWalks
  <2> QED BY <2>1
<1>3. ask.end \in Ast!Line /\ ask.start \in Ast!Line
  BY <1>1 DEF Ast!Ask
<1>4. \A c \in DOMAIN tree : Ast!Overlaps(tree[c]) <=> ~ Ast!Outside(c)
  <2> TAKE c \in DOMAIN tree
  <2>1. tree[c].first \in Nat /\ tree[c].last \in Nat
    BY <1>2 DEF Ast!Cursor
  <2> QED BY <1>3, <2>1 DEF Ast!Overlaps, Ast!Outside, Ast!Line
<1> QED BY <1>1, <1>2, <1>4 DEF Ast!Ask, Ast!Cursor

LEMMA WholeIs ==
  \A c : c \in Ast!Whole <=>
      /\ c \in Ast!Ranged
      /\ ask.format = "json" => Cardinality(Ast!Path(tree, c)) <= ask.depth + 1
  BY AstCardinality DEF Ast!Whole

(* Nothing of what a cursor's call knows changes while the tree and the    *)
(* question stay.                                                          *)
LEMMA Unasked ==
  ASSUME UNCHANGED <<tree, ask>>
  PROVE  /\ Ast!Whole' = Ast!Whole /\ Ast!Ranged' = Ast!Ranged
         /\ \A a : Ast!Outside(a)' <=> Ast!Outside(a)
         /\ \A a : Ast!Kids(a)' = Ast!Kids(a)
<1>1. \A a : Ast!Outside(a)' <=> Ast!Outside(a)
  BY DEF Ast!Outside
<1>2. Ast!Ranged' = Ast!Ranged
  BY <1>1 DEF Ast!Ranged
<1>3. Ast!Whole' = Ast!Whole
  BY <1>2 DEF Ast!Whole
<1>4. \A a : Ast!Kids(a)' = Ast!Kids(a)
  BY DEF Ast!Kids
<1> QED BY <1>1, <1>2, <1>3, <1>4

LEMMA WalkInit == Ast!Init => WalkInv
<1> SUFFICES ASSUME Ast!Init PROVE WalkInv
  OBVIOUS
<1>1. /\ tree \in Trees /\ ask \in Asks /\ status = "called" /\ pending = {}
      /\ nodes = <<>> /\ marked = {} /\ bytes = 0 /\ reason = "none"
  BY DEF Ast!Init
<1>2. Shown = {} /\ Len(nodes) = 0
  BY <1>1 DEF Shown
<1>3. Begun /\ CutsAreMarked
  BY <1>2 DEF Begun, CutsAreMarked
<1>4. Budgeted
  BY <1>1, <1>2, AskFacts DEF Budgeted
<1> QED BY <1>1, <1>3, <1>4, InitWalked DEF WalkInv

LEMMA WalkBegin == WalkInv /\ Ast!Begin => WalkInv'
<1> SUFFICES ASSUME WalkInv, Ast!Begin PROVE WalkInv'
  OBVIOUS
<1>1. /\ UNCHANGED <<tree, ask, nodes, links, marked, bytes, reason>>
      /\ status' \in {"INVALID_RANGE", "PARSE_ERROR", "walking"}
      /\ pending' = {Ast!Call(1, 0, 0)}
      /\ tree \in Trees /\ ask \in Asks
  BY DEF Ast!Begin, WalkInv, Walked
<1>2. Walked'
  <2>1. Ast!Next
    BY DEF Ast!Next
  <2> QED BY <2>1, StepWalked DEF WalkInv
<1>3. 1 \in DOMAIN tree
  BY <1>1, TreeFacts
<1>4. \A w \in pending' : InWalk(w)'
  <2>1. Ast!Path(tree, 1) = {1} /\ Cardinality(Ast!Path(tree, 1)) = 1
    BY <1>1, <1>3, PathStep, PathFinite
  <2>2. ask.depth \in Nat
    BY <1>1, AskFacts
  <2>3. \A w \in pending' : w.c = 1 /\ w.depth = 0
    BY <1>1 DEF Ast!Call
  <2> QED BY <1>1, <2>1, <2>2, <2>3 DEF InWalk
<1>5. Shown' = Shown
  BY <1>1 DEF Shown
<1>6. Begun' /\ CutsAreMarked' /\ Budgeted'
  BY <1>1, <1>5, Unasked DEF WalkInv, Begun, CutsAreMarked, Budgeted
<1>7. Covered'
  <2>1. \A c \in Ast!Whole : 1 \in Ast!Path(tree, c)
    BY <1>1, PathStep DEF Ast!Whole, Ast!Ranged
  <2>2. \E w \in pending' : w.c = 1
    BY <1>1 DEF Ast!Call
  <2> QED BY <1>1, <1>5, <2>1, <2>2, Unasked DEF Covered
<1> QED BY <1>1, <1>2, <1>4, <1>6, <1>7 DEF WalkInv

(* A call that is left out covers nothing: its cursor is out of the range. *)
LEMMA WalkOmit ==
  ASSUME WalkInv, status = "walking", NEW w \in pending, Ast!Omit(w),
         UNCHANGED <<tree, ask, status>>
  PROVE  WalkInv'
<1>1. /\ UNCHANGED <<nodes, links, marked, bytes, reason>>
      /\ pending' = pending \ {w} /\ ~ Ast!Overlaps(tree[w.c])
      /\ tree \in Trees /\ ask \in Asks
  BY DEF Ast!Omit, WalkInv, Walked
<1>2. Walked'
  BY <1>1 DEF WalkInv, Walked, ToCome, Linked
<1>3. Shown' = Shown
  BY <1>1 DEF Shown
<1>4. \A v \in pending' : InWalk(v)'
  BY <1>1, Unasked DEF WalkInv, InWalk
<1>5. Begun' /\ CutsAreMarked' /\ Budgeted'
  BY <1>1, <1>3, Unasked DEF WalkInv, Begun, CutsAreMarked, Budgeted
<1>6. Covered => Covered'
  <2>1. w.c \in DOMAIN tree
    BY DEF WalkInv, Walked, ToCome
  <2>2. Ast!Outside(w.c)
    BY <1>1, <2>1, AskFacts
  <2>3. \A c \in Ast!Whole : w.c \notin Ast!Path(tree, c)
    BY <2>2 DEF Ast!Whole, Ast!Ranged
  <2> QED BY <1>1, <1>3, <2>3, Unasked DEF Covered
<1> QED BY <1>1, <1>2, <1>4, <1>5, <1>6 DEF WalkInv

(* Once a budget is spent nothing is emitted, and nothing need be covered. *)
LEMMA WalkStop ==
  ASSUME WalkInv, status = "walking", Ast!Stop, UNCHANGED <<tree, ask, status>>
  PROVE  WalkInv'
<1>1. /\ UNCHANGED <<nodes, links, marked, bytes, reason>>
      /\ pending' = {} /\ reason # "none"
  BY DEF Ast!Stop, Ast!Exhausted
<1>2. Walked'
  BY <1>1 DEF WalkInv, Walked, Linked
<1>3. Shown' = Shown
  BY <1>1 DEF Shown
<1>4. Begun' /\ CutsAreMarked' /\ Budgeted'
  BY <1>1, <1>3, Unasked DEF WalkInv, Begun, CutsAreMarked, Budgeted
<1> QED BY <1>1, <1>2, <1>4 DEF WalkInv

LEMMA WalkReturn == WalkInv /\ Ast!Return => WalkInv'
<1> SUFFICES ASSUME WalkInv, Ast!Return PROVE WalkInv'
  OBVIOUS
<1>1. /\ UNCHANGED <<tree, ask, pending, nodes, links, marked, bytes, reason>>
      /\ status = "walking" /\ status' = "done" /\ pending = {}
  BY DEF Ast!Return
<1>2. Walked'
  BY <1>1 DEF WalkInv, Walked, Linked
<1>3. Shown' = Shown
  BY <1>1 DEF Shown
<1>4. Begun' /\ CutsAreMarked' /\ Budgeted'
  BY <1>1, <1>3, Unasked DEF WalkInv, Begun, CutsAreMarked, Budgeted
<1>5. reason = "none" => Ast!Whole \subseteq Shown
  BY <1>1 DEF WalkInv, Covered
<1> QED BY <1>1, <1>2, <1>3, <1>4, <1>5, Unasked DEF WalkInv

LEMMA WalkEmit ==
  ASSUME WalkInv, status = "walking", NEW w \in pending, Ast!IsNext(w), Ast!Emit(w),
         UNCHANGED <<tree, ask, status>>
  PROVE  WalkInv'
<1> DEFINE c == w.c
           id == Len(nodes) + 1
           P(d) == Ast!Path(tree, d)
<1>1. /\ tree \in Trees /\ ask \in Asks /\ InWalk(w) /\ c \in DOMAIN tree
      /\ \A i \in DOMAIN nodes : nodes[i] < c
      /\ nodes \in Seq(DOMAIN tree)
      /\ nodes' = Append(nodes, c) /\ bytes' = bytes + tree[c].size
      /\ reason' = Ast!Spent(id, bytes + tree[c].size)
      /\ reason = "none"
  <2>1. Walked /\ Budgeted /\ InWalk(w)
    BY DEF WalkInv
  <2>2. ToCome(w)
    BY <2>1 DEF Walked
  <2> QED BY <2>1, <2>2 DEF WalkInv, Walked, ToCome, Budgeted, Ast!Emit, Ast!Exhausted
<1>2. Walked'
  <2>1. Ast!Next
    BY DEF Ast!Next, Ast!Walk
  <2> QED BY <2>1, StepWalked DEF WalkInv
<1>3. Shown' = Shown \cup {c} /\ \A d \in Shown : d < c
  <2>1. DOMAIN nodes = 1..Len(nodes) /\ Len(nodes) \in Nat /\ DOMAIN nodes' = 1..id
        /\ nodes'[id] = c /\ \A i \in DOMAIN nodes : nodes'[i] = nodes[i]
    BY <1>1
  <2> QED BY <1>1, <2>1 DEF Shown
<1>4. ~ Ast!Outside(c)
  BY <1>1, AskFacts DEF Ast!Emit
<1>5. \A a \in P(c) : ~ Ast!Outside(a)
  BY <1>1, <1>4 DEF InWalk
<1>6. c \in Ast!Ranged
  BY <1>1, <1>5 DEF Ast!Ranged
<1>7. c \in Ast!Whole
  BY <1>1, <1>6, WholeIs, AskFacts DEF InWalk
<1>8. Budgeted'
  <2>1. /\ bytes \in Nat /\ Len(nodes) \in Nat /\ Len(nodes) < ask.maxNodes
        /\ bytes < ask.maxBytes /\ tree[c].size \in Nat \ {0}
        /\ ask.maxNodes \in Nat /\ ask.maxBytes \in Nat
    BY <1>1, AskFacts DEF WalkInv, Budgeted
  <2>2. nodes' # <<>> /\ Len(nodes') = id /\ nodes'[Len(nodes')] = c
    BY <1>1
  <2>3. bytes' \in Nat /\ bytes' - tree[c].size < ask.maxBytes /\ id <= ask.maxNodes
    BY <1>1, <2>1
  <2>4. \/ reason' = "max_nodes" /\ id >= ask.maxNodes
        \/ reason' = "max_bytes" /\ bytes' >= ask.maxBytes
        \/ reason' = "none" /\ id < ask.maxNodes /\ bytes' < ask.maxBytes
    BY <1>1, <2>1, <2>3 DEF Ast!Spent
  <2>5. id = Len(nodes) + 1
    OBVIOUS
  <2> HIDE DEF id
  <2>6. reason' = "max_nodes" => id = ask.maxNodes
    BY <2>1, <2>3, <2>4, <2>5
  <2> QED BY <2>2, <2>3, <2>4, <2>6 DEF Budgeted
<1>9. /\ IsFiniteSet(P(c)) /\ Cardinality(P(c)) = w.depth + 1 /\ w.depth \in Nat
      /\ ask.depth \in Nat
  BY <1>1, PathFinite, AskFacts DEF InWalk
<1>10. CutsAreMarked'
  <2> SUFFICES ASSUME marked' = {}, NEW d \in Shown', ask.format = "json",
                      Cardinality(P(d)) > ask.depth
               PROVE  Ast!Kids(d) = {}
    BY Unasked DEF CutsAreMarked
  <2>1. marked = {} /\ (Ast!AtDepth(w) => Ast!Kids(c) = {})
    BY DEF Ast!Emit, Ast!Mark
  <2>2. CASE d = c
    BY <1>9, <2>1, <2>2 DEF Ast!AtDepth
  <2>3. CASE d \in Shown
    BY <2>1, <2>3 DEF WalkInv, CutsAreMarked
  <2> QED BY <1>3, <2>2, <2>3
<1>11. pending' = (pending \ {w})
                    \cup (IF Ast!AtDepth(w) THEN {} ELSE Ast!Descend(w, id))
  BY DEF Ast!Emit
<1>12. ASSUME NEW v \in Ast!Descend(w, id), ~ Ast!AtDepth(w) PROVE InWalk(v)
  <2>1. PICK d \in Ast!Kids(c) : v = Ast!Call(d, w.depth + 1, id)
    BY DEF Ast!Descend
  <2>2. v.c = d /\ v.depth = w.depth + 1 /\ d \in DOMAIN tree /\ tree[d].up = c
    BY <2>1 DEF Ast!Call, Ast!Kids
  <2>3. d # 1 /\ P(d) = P(c) \cup {d} /\ Cardinality(P(d)) = Cardinality(P(c)) + 1
    BY <1>1, <2>2, TreeFacts, PathStep, PathFinite
  <2>4. ask.format = "json" => w.depth + 1 <= ask.depth
    BY <1>9, <1>12 DEF Ast!AtDepth
  <2> QED BY <1>5, <1>9, <2>2, <2>3, <2>4 DEF InWalk
<1>13. \A v \in pending' : InWalk(v)'
  <2>1. \A v \in pending' : InWalk(v)
    BY <1>11, <1>12 DEF WalkInv
  <2> QED BY <2>1, Unasked DEF InWalk
<1>14. Covered'
  <2> SUFFICES ASSUME NEW d \in Ast!Whole \ Shown'
               PROVE  \E v \in pending' : v.c \in P(d)
    BY Unasked DEF Covered
  <2>1. d \in Ast!Whole \ Shown /\ d # c
    BY <1>3
  <2>2. PICK v \in pending : v.c \in P(d)
    BY <1>1, <2>1 DEF WalkInv, Covered
  <2>3. CASE v # w
    BY <1>11, <2>2, <2>3
  <2>4. CASE v = w
    <3>1. d \in DOMAIN tree
      BY <2>1 DEF Ast!Whole, Ast!Ranged
    <3>2. c \in P(d)
      BY <2>2, <2>4
    <3>3. PICK k \in P(d) : k \in DOMAIN tree /\ tree[k].up = c
      BY <1>1, <2>1, <3>1, <3>2, PathChild
    <3>4. ~ Ast!AtDepth(w)
      <4>1. P(c) \subseteq P(d) /\ d \in P(d) /\ d \notin P(c)
        <5>1. P(c) \subseteq P(d)
          BY <1>1, <3>1, <3>2, PathWithin
        <5>2. d \in P(d) /\ c <= d
          BY <1>1, <3>1, <3>2, PathStep
        <5>3. \A a \in P(c) : a <= c
          BY <1>1, PathStep
        <5>4. c \in Nat /\ d \in Nat
          BY <1>1, <3>1, TreeFacts
        <5> QED BY <2>1, <5>1, <5>2, <5>3, <5>4
      <4>2. IsFiniteSet(P(d) \ {d}) /\ Cardinality(P(d) \ {d}) = Cardinality(P(d)) - 1
            /\ Cardinality(P(d)) \in Nat
        BY <1>1, <3>1, <4>1, PathFinite, FS_RemoveElement
      <4>3. P(c) \in SUBSET (P(d) \ {d})
        BY <4>1
      <4>4. Cardinality(P(c)) <= Cardinality(P(d)) - 1
        BY <4>2, <4>3, FS_Subset
      <4>5. ask.format = "json" => Cardinality(P(d)) <= ask.depth + 1
        BY <2>1, WholeIs
      <4> HIDE DEF P
      <4> QED BY <1>9, <4>2, <4>4, <4>5 DEF Ast!AtDepth
    <3>5. Ast!Call(k, w.depth + 1, id) \in pending'
      BY <1>11, <3>3, <3>4 DEF Ast!Descend, Ast!Kids
    <3>6. Ast!Call(k, w.depth + 1, id).c = k
      BY DEF Ast!Call
    <3> QED BY <3>3, <3>5, <3>6
  <2> QED BY <2>3, <2>4
<1>15. Begun'
  <2>1. Shown' \subseteq Ast!Whole
    BY <1>3, <1>7 DEF WalkInv, Begun
  <2>2. ASSUME NEW d \in Ast!Whole \ Shown', NEW e \in Shown' PROVE e < d
    <3>1. PICK v \in pending' : v.c \in P(d)
      BY <1>14, <2>2, Unasked DEF Covered
    <3>2. ToCome(v)'
      BY <1>2 DEF Walked
    <3>3. v.c \in DOMAIN tree /\ e < v.c
      BY <2>2, <3>2 DEF ToCome, Shown
    <3>4. d \in DOMAIN tree /\ v.c <= d
      <4>1. d \in DOMAIN tree
        BY <2>2 DEF Ast!Whole, Ast!Ranged
      <4> QED BY <1>1, <3>1, <4>1, PathStep
    <3>5. e \in Nat /\ v.c \in Nat /\ d \in Nat
      BY <1>1, <2>1, <2>2, <3>3, <3>4, TreeFacts DEF Ast!Whole, Ast!Ranged
    <3> QED BY <3>3, <3>4, <3>5
  <2> QED BY <2>1, <2>2, Unasked DEF Begun
<1> QED BY <1>1, <1>2, <1>8, <1>10, <1>13, <1>14, <1>15 DEF WalkInv

LEMMA WalkStep == WalkInv /\ Ast!Next => WalkInv'
<1> SUFFICES ASSUME WalkInv, Ast!Next PROVE WalkInv'
  OBVIOUS
<1>1. CASE Ast!Begin
  BY <1>1, WalkBegin
<1>2. CASE Ast!Walk
  <2>1. status = "walking" /\ UNCHANGED <<tree, ask, status>>
    BY <1>2 DEF Ast!Walk
  <2>2. CASE Ast!Stop
    BY <2>1, <2>2, WalkStop
  <2>3. CASE \E w \in pending : Ast!Omit(w)
    BY <2>1, <2>3, WalkOmit
  <2>4. CASE \E w \in pending : Ast!IsNext(w) /\ Ast!Emit(w)
    BY <2>1, <2>4, WalkEmit
  <2> QED BY <1>2, <2>2, <2>3, <2>4 DEF Ast!Walk
<1>3. CASE Ast!Return
  BY <1>3, WalkReturn
<1> QED BY <1>1, <1>2, <1>3 DEF Ast!Next

LEMMA NextAstWalk == AstWalkInv /\ [Next]_vars => AstWalkInv'
<1> SUFFICES ASSUME AstWalkInv, [Next]_vars PROVE AstWalkInv'
  OBVIOUS
<1>1. CASE tool = "ast" /\ Ast!Next /\ UNCHANGED tool
  BY <1>1, WalkStep DEF AstWalkInv
<1>2. CASE tool # "ast" /\ UNCHANGED tool
  BY <1>2 DEF AstWalkInv
<1>3. CASE UNCHANGED vars
  <2>1. UNCHANGED <<tool, status, tree, ask, pending, nodes, links, marked, bytes, reason>>
    BY <1>3 DEF vars, astVars
  <2>2. UNCHANGED <<tree, ask>> /\ Shown' = Shown
    BY <2>1 DEF Shown
  <2>3. Walked' <=> Walked
    BY <2>1 DEF Walked, ToCome, Linked
  <2>4. (Covered' <=> Covered) /\ (Begun' <=> Begun) /\ (Budgeted' <=> Budgeted)
        /\ (CutsAreMarked' <=> CutsAreMarked)
    BY <2>1, <2>2, Unasked DEF Covered, Begun, Budgeted, CutsAreMarked
  <2>5. \A w : InWalk(w)' <=> InWalk(w)
    BY <2>1, <2>2, Unasked DEF InWalk
  <2> QED BY <2>1, <2>2, <2>3, <2>4, <2>5, Unasked DEF AstWalkInv, WalkInv
<1> QED BY <1>1, <1>2, <1>3 DEF Next

LEMMA InitAstWalk == Init => AstWalkInv
  BY WalkInit DEF Init, AstWalkInv

(* What get_ast emits is the beginning of the whole walk, for every tree,  *)
(* every range and every budget: nothing is skipped, nothing is emitted    *)
(* out of order, and neither budget is overrun by more than one node.      *)
THEOREM EmitsBeginning == Spec => []IsBeginning
<1>1. AstWalkInv => IsBeginning
  <2> SUFFICES ASSUME WalkInv PROVE Ast!IsBeginning
    BY DEF AstWalkInv, IsBeginning
  <2>1. Walked /\ Begun /\ Budgeted
    BY DEF WalkInv
  <2>2. \A i, j \in DOMAIN nodes : i < j => nodes[i] < nodes[j]
    BY <2>1 DEF Walked
  <2>3. /\ Len(nodes) <= ask.maxNodes
        /\ nodes # <<>> => bytes - tree[nodes[Len(nodes)]].size < ask.maxBytes
    BY <2>1 DEF Budgeted
  <2>4. /\ Shown \subseteq Ast!Whole
        /\ \A c \in Ast!Whole \ Shown : \A d \in Shown : d < c
    BY <2>1 DEF Begun
  <2> QED BY <2>2, <2>3, <2>4 DEF Ast!IsBeginning, Shown
<1> QED BY <1>1, InitAstWalk, NextAstWalk, PTL DEF Spec

(* Where no node is marked, the depth limit cut nothing: above the first   *)
(* cursor of a path that is too deep there is one with a child cut off.    *)
LEMMA UnmarkedIsUncut ==
  ASSUME WalkInv, marked = {}, Ast!Whole = Shown
  PROVE  Ast!Ranged \subseteq Ast!Whole
<1> DEFINE deep(x) == Cardinality(Ast!Path(tree, x)) > ask.depth + 1
<1>1. tree \in Trees /\ ask \in Asks /\ ask.depth \in Nat \ {0}
  BY AskFacts DEF WalkInv, Walked
<1> SUFFICES ASSUME NEW c \in Ast!Ranged, c \notin Ast!Whole PROVE FALSE
  OBVIOUS
<1>2. c \in DOMAIN tree /\ \A a \in Ast!Path(tree, c) : ~ Ast!Outside(a)
  BY DEF Ast!Ranged
<1>3. ask.format = "json" /\ deep(c)
  BY <1>1, <1>2, WholeIs, PathFinite
<1>4. Ast!Path(tree, c) \subseteq DOMAIN tree /\ c \in Ast!Path(tree, c)
  BY <1>1, <1>2, PathStep
<1>5. PICK k \in Ast!Path(tree, c) : deep(k) /\ \A x \in Ast!Path(tree, c) : deep(x) => k <= x
  <2> DEFINE S == {x \in Ast!Path(tree, c) : deep(x)}
  <2>1. S \in SUBSET Nat /\ c \in S
    BY <1>1, <1>3, <1>4, TreeFacts
  <2>2. PICK m \in S : \A x \in S : m <= x
    BY <2>1, LeastNat
  <2> QED BY <2>2
<1> DEFINE p == tree[k].up
<1>6. k \in DOMAIN tree /\ k # 1
  BY <1>1, <1>4, <1>5, PathFinite
<1>7. /\ p \in DOMAIN tree /\ p < k /\ p \in Nat /\ k \in Nat
      /\ p \in Ast!Path(tree, k)
  <2>1. p \in DOMAIN tree /\ Ast!Path(tree, k) = Ast!Path(tree, p) \cup {k}
    BY <1>1, <1>6, PathStep
  <2>2. p \in Ast!Path(tree, p)
    BY <1>1, <2>1, PathStep
  <2> QED BY <1>1, <1>6, <2>1, <2>2, TreeFacts
<1>8. p \in Ast!Path(tree, c) /\ Ast!Path(tree, p) \subseteq Ast!Path(tree, c)
  <2>1. p \in Ast!Path(tree, c)
    BY <1>1, <1>2, <1>7, PathWithin
  <2> QED BY <1>1, <1>2, <2>1, PathWithin
<1>9. Cardinality(Ast!Path(tree, p)) = ask.depth + 1
  <2>1. ~ deep(p)
    BY <1>5, <1>7, <1>8
  <2>2. /\ Cardinality(Ast!Path(tree, k)) = Cardinality(Ast!Path(tree, p)) + 1
        /\ Cardinality(Ast!Path(tree, p)) \in Nat
    BY <1>1, <1>6, <1>7, PathFinite
  <2> QED BY <1>1, <1>5, <2>1, <2>2
<1>10. p \in Shown
  <2>1. p \in Ast!Ranged
    BY <1>2, <1>7, <1>8 DEF Ast!Ranged
  <2> QED BY <1>1, <1>9, <2>1, WholeIs
<1>11. Ast!Kids(p) = {}
  BY <1>1, <1>3, <1>9, <1>10 DEF WalkInv, CutsAreMarked
<1> QED BY <1>6, <1>11 DEF Ast!Kids

(* A response of get_ast that says nothing of a cut is the whole range,    *)
(* for every tree, and one that names a budget has spent it.               *)
THEOREM NothingIsCutInSilence == Spec => []OmissionIsMarked
<1>1. AstWalkInv => OmissionIsMarked
  <2> SUFFICES ASSUME WalkInv, status = "done" PROVE Ast!OmissionIsMarked
    BY DEF AstWalkInv, OmissionIsMarked, Ast!OmissionIsMarked
  <2>1. reason = "none" => Ast!Whole = Shown
    BY DEF WalkInv, Begun
  <2>2. Ast!Whole \subseteq Ast!Ranged
    BY DEF Ast!Whole
  <2>3. reason = "none" /\ marked = {} => Shown = Ast!Ranged
    BY <2>1, <2>2, UnmarkedIsUncut
  <2>4. /\ reason = "max_nodes" => Len(nodes) = ask.maxNodes
        /\ reason = "max_bytes" => bytes >= ask.maxBytes
    BY DEF WalkInv, Budgeted
  <2> QED BY <2>1, <2>3, <2>4 DEF Ast!OmissionIsMarked, Shown
<1> QED BY <1>1, InitAstWalk, NextAstWalk, PTL DEF Spec

-----------------------------------------------------------------------------
(* get_preprocessor_state.  The scan keeps a stack; what the directives    *)
(* mean is said by counting.  The argument relates the two: the lines that *)
(* were scanned after a branch of the stack have as many more #ifs than    *)
(* #endifs as there are branches above it.                                 *)

Nest(t, a, b) == Pre!Count(t, "if", a, b) - Pre!Count(t, "endif", a, b)

(* The scanned lines after a have k more #ifs than #endifs, and close none *)
(* that they did not open.                                                 *)
Deep(a, k) ==
    /\ Nest(lines, a + 1, at - 1) = k
    /\ \A l \in (a + 1)..(at - 1) : Nest(lines, a + 1, l) >= 0

Enders == {"elif", "else", "endif"}

Unended(d) ==
    \A e \in (d + 1)..(at - 1) : lines[e] \in Enders => ~ Pre!Balanced(lines, d + 1, e - 1)

(* The branch that begins at d goes on below k others, and so does the #if *)
(* of its chain.                                                           *)
Going(d, k) ==
    /\ d \in Pre!Starts(lines) /\ d < at
    /\ Deep(d, k) /\ Unended(d)
    /\ \E f \in 1..d : lines[f] = "if" /\ Deep(f, k)

(* An #if that was scanned is closed, or there is a branch for it. *)
Kept(f) ==
    \/ \E l \in (f + 1)..(at - 1) : Nest(lines, f + 1, l) < 0
    \/ \E i \in DOMAIN stack : Deep(f, Len(stack) - i)

Result(d, to) == IF \E l \in cursors : d < l /\ l <= to THEN "true" ELSE "false"

Recorded(c) ==
    LET b == Pre!Bound(lines, c.start) IN
    /\ c.start \in Pre!Starts(lines) /\ c.word = lines[c.start]
    /\ b < at /\ c.end = (IF lines[b] = "endif" THEN b ELSE b - 1)
    /\ c.result = Result(c.start, c.end)

Scanned ==
    /\ lines \in Seq(Pre!Words) /\ at \in 1..(Len(lines) + 1)
    /\ stack \in Seq(Pre!Branch({"null"}))
    /\ conditionals \in Seq(Pre!Branch({"true", "false"}))
    /\ \A i \in DOMAIN stack : /\ stack[i].word = lines[stack[i].start]
                               /\ Going(stack[i].start, Len(stack) - i)
    /\ \A f \in 1..(at - 1) : lines[f] = "if" => Kept(f)
    /\ \A i \in DOMAIN conditionals : Recorded(conditionals[i])
    /\ \A d \in Pre!Starts(lines) : d < at =>
          \/ \E i \in DOMAIN stack : stack[i].start = d
          \/ \E i \in DOMAIN conditionals : conditionals[i].start = d
    /\ Len(conditionals) + Len(stack) = Cardinality({d \in Pre!Starts(lines) : d < at})
    /\ (\A l \in 1..(at - 1) : Nest(lines, 1, l) >= 0) => Nest(lines, 1, at - 1) = Len(stack)

ScanInv ==
    /\ status \in {"called", "parsed", "scanning", "done"}
    /\ status = "called" => disk \in Files
    /\ status = "parsed" => disk \in Seq(Pre!Words) /\ (disk = parsed => disk \in Files)
    /\ status \in {"called", "parsed"} => at = 1 /\ stack = <<>> /\ conditionals = <<>>
    /\ status # "called" =>
          \E words \in {{"code"}, {"code", "if"}} : cursors = Pre!Compiled(parsed, holds, words)
    /\ status = "scanning" => Scanned
    /\ Pre!BranchesAreFound /\ Pre!ResultsFollowTheCode

PreInv == tool = "preprocessor" => ScanInv

LEMMA PreCardinality == \A S : Pre!Cardinality(S) = Cardinality(S)
  BY DEF Cardinality, Pre!Cardinality

LEMMA MinIs ==
  ASSUME NEW S \in SUBSET Nat, NEW m \in S, \A n \in S : m <= n
  PROVE  Pre!Min(S) = m
<1>1. \A x \in S : (\A y \in S : x <= y) => x = m
  OBVIOUS
<1> QED BY <1>1 DEF Pre!Min

LEMMA CountStep ==
  ASSUME NEW w, NEW a \in Nat, NEW b \in Nat, a <= b + 1
  PROVE  /\ Pre!Count(lines, w, a, b) \in Nat
         /\ Pre!Count(lines, w, b + 1, b) = 0
         /\ Pre!Count(lines, w, a, b + 1)
               = Pre!Count(lines, w, a, b) + (IF lines[b + 1] = w THEN 1 ELSE 0)
<1> DEFINE C(i, j) == {l \in i..j : lines[l] = w}
<1>1. \A i, j : Pre!Count(lines, w, i, j) = Cardinality(C(i, j))
  BY PreCardinality DEF Pre!Count
<1>2. IsFiniteSet(C(a, b))
  <2>1. IsFiniteSet(a..b) /\ C(a, b) \in SUBSET (a..b)
    BY FS_Interval
  <2> QED BY <2>1, FS_Subset
<1>3. C(b + 1, b) = {}
  OBVIOUS
<1>4. C(a, b + 1) = IF lines[b + 1] = w THEN C(a, b) \cup {b + 1} ELSE C(a, b)
  OBVIOUS
<1>5. b + 1 \notin C(a, b)
  OBVIOUS
<1> HIDE DEF C
<1>6. Cardinality(C(a, b)) \in Nat
  BY <1>2, FS_CardinalityType
<1>7. Cardinality(C(a, b) \cup {b + 1}) = Cardinality(C(a, b)) + 1
  BY <1>2, <1>5, FS_AddElement
<1> QED BY <1>1, <1>3, <1>4, <1>6, <1>7, FS_EmptySet

(* How a line changes the nesting. *)
Shift(word) == CASE word = "if" -> 1 [] word = "endif" -> -1 [] OTHER -> 0

LEMMA NestStep ==
  ASSUME NEW a \in Nat, NEW b \in Nat, a <= b + 1
  PROVE  /\ Nest(lines, a, b) \in Int
         /\ Nest(lines, b + 1, b) = 0
         /\ Nest(lines, a, b + 1) = Nest(lines, a, b) + Shift(lines[b + 1])
<1>1. /\ Pre!Count(lines, "if", a, b) \in Nat /\ Pre!Count(lines, "endif", a, b) \in Nat
      /\ Pre!Count(lines, "if", b + 1, b) = 0 /\ Pre!Count(lines, "endif", b + 1, b) = 0
      /\ Pre!Count(lines, "if", a, b + 1)
            = Pre!Count(lines, "if", a, b) + (IF lines[b + 1] = "if" THEN 1 ELSE 0)
      /\ Pre!Count(lines, "endif", a, b + 1)
            = Pre!Count(lines, "endif", a, b) + (IF lines[b + 1] = "endif" THEN 1 ELSE 0)
  BY CountStep
<1> QED BY <1>1 DEF Nest, Shift

LEMMA BalancedIs ==
  ASSUME NEW a \in Nat, NEW b \in Nat, a <= b + 1
  PROVE  Pre!Balanced(lines, a, b) <=> Nest(lines, a, b) = 0 /\ \A l \in a..b : Nest(lines, a, l) >= 0
<1>1. ASSUME NEW l \in Nat, a <= l + 1
      PROVE  /\ Pre!Count(lines, "if", a, l) \in Nat /\ Pre!Count(lines, "endif", a, l) \in Nat
             /\ Nest(lines, a, l) = Pre!Count(lines, "if", a, l) - Pre!Count(lines, "endif", a, l)
  BY <1>1, CountStep DEF Nest
<1>2. \A l \in a..b : Nest(lines, a, l) >= 0
                        <=> Pre!Count(lines, "endif", a, l) <= Pre!Count(lines, "if", a, l)
  <2> TAKE l \in a..b
  <2>1. l \in Nat /\ a <= l + 1
    OBVIOUS
  <2> QED BY <1>1, <2>1
<1>3. Nest(lines, a, b) = 0
        <=> Pre!Count(lines, "endif", a, b) = Pre!Count(lines, "if", a, b)
  BY <1>1
<1> QED BY <1>2, <1>3 DEF Pre!Balanced

Scanning ==
    /\ lines \in Seq(Pre!Words) /\ at \in Nat \ {0} /\ at <= Len(lines)
    /\ at' = at + 1 /\ UNCHANGED lines

LEMMA DeepStep ==
  ASSUME Scanning, NEW a \in 1..(at - 1), NEW k \in Nat, Deep(a, k)
  PROVE  /\ Nest(lines, a + 1, at) = k + Shift(lines[at])
         /\ \A n \in Nat : n = k + Shift(lines[at]) => Deep(a, n)'
<1>1. Nest(lines, a + 1, at - 1) = k /\ \A l \in (a + 1)..(at - 1) : Nest(lines, a + 1, l) >= 0
  BY DEF Deep
<1>2. a \in Nat /\ at \in Nat /\ a + 1 \in Nat /\ at - 1 \in Nat /\ a + 1 <= at /\ (at - 1) + 1 = at
  BY DEF Scanning
<1>3. Nest(lines, a + 1, at) = k + Shift(lines[at])
  BY <1>1, <1>2, NestStep
<1>4. \A l \in (a + 1)..at : l \in (a + 1)..(at - 1) \/ l = at
  BY <1>2
<1>5. at' - 1 = at
  BY <1>2 DEF Scanning
<1>6. k + Shift(lines[at]) >= 0 => \A l \in (a + 1)..at : Nest(lines, a + 1, l) >= 0
  BY <1>1, <1>3, <1>4
<1>7. lines' = lines
  BY DEF Scanning
<1> QED BY <1>3, <1>5, <1>6, <1>7 DEF Deep

LEMMA DeepNew ==
  ASSUME Scanning, NEW a, a = at
  PROVE  Deep(a, 0)' /\ Unended(a)'
<1>1. at \in Nat /\ at' - 1 = a /\ (a + 1)..a = {} /\ Nest(lines, a + 1, a) = 0
  BY NestStep DEF Scanning
<1>2. Deep(a, 0)'
  BY <1>1 DEF Scanning, Deep
<1> QED BY <1>1, <1>2 DEF Unended

LEMMA UnendedStep ==
  ASSUME Scanning, NEW d \in 1..(at - 1), NEW k \in Nat, Deep(d, k), Unended(d),
         lines[at] \in Enders => k # 0
  PROVE  Unended(d)'
<1>1. d \in Nat /\ at \in Nat /\ at - 1 \in Nat /\ d + 1 \in Nat /\ d + 1 <= at
      /\ at' - 1 = at /\ (at - 1) + 1 = at
  BY DEF Scanning
<1>2. lines[at] \in Enders => ~ Pre!Balanced(lines, d + 1, at - 1)
  BY <1>1, BalancedIs DEF Deep
<1>3. \A e \in (d + 1)..at : e \in (d + 1)..(at - 1) \/ e = at
  BY <1>1
<1>4. \A e \in (d + 1)..at : lines[e] \in Enders => ~ Pre!Balanced(lines, d + 1, e - 1)
  BY <1>2, <1>3 DEF Unended
<1> QED BY <1>1, <1>4 DEF Unended, Scanning

(* A branch ends at the first line that ends it, or with the file. *)
LEMMA BoundIs ==
  ASSUME lines \in Seq(Pre!Words), NEW d \in 1..Len(lines)
  PROVE  /\ Pre!Bound(lines, d) \in (d + 1)..(Len(lines) + 1)
         /\ at \in (d + 1)..Len(lines) /\ Unended(d) /\ Deep(d, 0) /\ lines[at] \in Enders
               => Pre!Bound(lines, d) = at
         /\ at = Len(lines) + 1 /\ Unended(d) => Pre!Bound(lines, d) = Len(lines) + 1
<1> DEFINE n == Len(lines)
           E == {e \in (d + 1)..n : lines[e] \in Enders /\ Pre!Balanced(lines, d + 1, e - 1)}
           S == E \cup {n + 1}
<1>1. n \in Nat /\ d \in Nat /\ d <= n
  OBVIOUS
<1>2. Pre!Bound(lines, d) = Pre!Min(S)
  BY DEF Pre!Bound, Enders
<1>3. E \subseteq (d + 1)..n
  OBVIOUS
<1>4. S \in SUBSET Nat /\ S \subseteq (d + 1)..(n + 1) /\ n + 1 \in S
  <2> HIDE DEF E, n
  <2>1. S \subseteq (d + 1)..(n + 1)
    BY <1>1, <1>3
  <2> QED BY <1>1, <2>1
<1>5. Pre!Bound(lines, d) \in (d + 1)..(n + 1)
  <2> HIDE DEF S
  <2>1. PICK m \in S : \A x \in S : m <= x
    BY <1>4, LeastNat
  <2> QED BY <1>2, <1>4, <2>1, MinIs
<1>6. ASSUME at \in (d + 1)..n, Unended(d), Deep(d, 0), lines[at] \in Enders
      PROVE  Pre!Bound(lines, d) = at
  <2>1. at \in Nat /\ at - 1 \in Nat /\ d + 1 \in Nat /\ d + 1 <= at /\ (at - 1) + 1 = at
    BY <1>1, <1>6
  <2>2. Pre!Balanced(lines, d + 1, at - 1)
    BY <1>6, <2>1, BalancedIs DEF Deep
  <2>3. at \in E
    BY <1>6, <2>2
  <2>4. \A e \in E : e \notin (d + 1)..(at - 1)
    BY <1>6 DEF Unended
  <2>5. \A e \in S : at <= e
    <3> HIDE DEF E
    <3> QED BY <1>1, <1>3, <1>6, <2>1, <2>4
  <2> HIDE DEF S, E
  <2>6. at \in S
    BY <2>3 DEF S
  <2> QED BY <1>2, <1>4, <2>5, <2>6, MinIs
<1>7. ASSUME at = n + 1, Unended(d)
      PROVE  Pre!Bound(lines, d) = n + 1
  <2>1. at - 1 = n
    BY <1>1, <1>7
  <2>2. E = {}
    BY <1>7, <2>1 DEF Unended
  <2>3. \A e \in S : n + 1 <= e
    BY <1>1, <2>2
  <2> HIDE DEF S, E, n
  <2> QED BY <1>2, <1>4, <2>3, MinIs
<1> QED BY <1>5, <1>6, <1>7

LEMMA ScannedFacts ==
  ASSUME Scanned
  PROVE  /\ Len(lines) \in Nat /\ DOMAIN lines = 1..Len(lines)
         /\ Len(stack) \in Nat /\ DOMAIN stack = 1..Len(stack)
         /\ Len(conditionals) \in Nat /\ DOMAIN conditionals = 1..Len(conditionals)
         /\ at \in Nat \ {0}
         /\ \A l \in 1..Len(lines) : lines[l] \in Pre!Words
         /\ \A i \in 1..Len(stack) : stack[i] \in Pre!Branch({"null"})
         /\ Pre!Starts(lines) \subseteq 1..Len(lines)
  BY DEF Scanned, Pre!Starts

(* The scan takes a line for the beginning of a branch when it is one. *)
LEMMA StartIs ==
  ASSUME Scanned, Scanning
  PROVE  at \in Pre!Starts(lines) <=>
            \/ lines[at] = "if"
            \/ lines[at] \in {"elif", "else"} /\ stack # <<>>
<1>1. /\ at \in DOMAIN lines /\ at \in Nat /\ at - 1 \in Nat
      /\ Len(stack) \in Nat /\ DOMAIN stack = 1..Len(stack)
  BY ScannedFacts DEF Scanning
<1>2. at \in Pre!Starts(lines) <=>
         \/ lines[at] = "if"
         \/ /\ lines[at] \in {"elif", "else"}
            /\ \E i \in 1..(at - 1) : lines[i] = "if" /\ Pre!Balanced(lines, i + 1, at - 1)
  BY <1>1 DEF Pre!Starts
<1>3. \A i \in 1..(at - 1) : Pre!Balanced(lines, i + 1, at - 1) <=> Deep(i, 0)
  <2> TAKE i \in 1..(at - 1)
  <2>1. i + 1 \in Nat /\ i + 1 <= (at - 1) + 1
    BY <1>1
  <2> QED BY <1>1, <2>1, BalancedIs DEF Deep
<1>4. ASSUME stack # <<>>
      PROVE  \E i \in 1..(at - 1) : lines[i] = "if" /\ Deep(i, 0)
  <2>1. Len(stack) \in DOMAIN stack
    BY <1>1, <1>4 DEF Scanned
  <2> DEFINE d == stack[Len(stack)].start
  <2>2. Going(d, Len(stack) - Len(stack))
    BY <2>1 DEF Scanned
  <2>3. PICK f \in 1..d : lines[f] = "if" /\ Deep(f, Len(stack) - Len(stack))
    BY <2>2 DEF Going
  <2>4. d < at /\ d \in Nat
    BY <1>1, <2>2, ScannedFacts DEF Going
  <2>5. Len(stack) - Len(stack) = 0
    BY <1>1
  <2> HIDE DEF d
  <2> QED BY <1>1, <2>3, <2>4, <2>5
<1>5. ASSUME NEW i \in 1..(at - 1), lines[i] = "if", Deep(i, 0) PROVE stack # <<>>
  <2>1. Kept(i)
    BY <1>5 DEF Scanned
  <2>2. \A l \in (i + 1)..(at - 1) : Nest(lines, i + 1, l) >= 0 /\ Nest(lines, i + 1, l) \in Int
    <3>1. \A l \in (i + 1)..(at - 1) : Nest(lines, i + 1, l) \in Int
      <4> TAKE l \in (i + 1)..(at - 1)
      <4>1. i + 1 \in Nat /\ l \in Nat /\ i + 1 <= l + 1
        BY <1>1
      <4> QED BY <4>1, NestStep
    <3> QED BY <1>5, <3>1 DEF Deep
  <2>3. \E j \in DOMAIN stack : TRUE
    BY <2>1, <2>2 DEF Kept
  <2> QED BY <1>1, <2>3 DEF Scanned
<1> QED BY <1>2, <1>3, <1>4, <1>5

LEMMA StartsUpTo ==
  ASSUME Scanned, Scanning
  PROVE  Cardinality({d \in Pre!Starts(lines) : d < at + 1})
            = Cardinality({d \in Pre!Starts(lines) : d < at})
                 + (IF at \in Pre!Starts(lines) THEN 1 ELSE 0)
<1> DEFINE S == {d \in Pre!Starts(lines) : d < at}
<1>1. at \in Nat /\ Len(lines) \in Nat /\ Pre!Starts(lines) \subseteq 1..Len(lines)
  BY ScannedFacts
<1>2. IsFiniteSet(S)
  <2>1. IsFiniteSet(1..Len(lines)) /\ S \in SUBSET (1..Len(lines))
    BY <1>1, FS_Interval
  <2> QED BY <2>1, FS_Subset
<1>3. at \notin S
  BY <1>1
<1>4. {d \in Pre!Starts(lines) : d < at + 1}
         = IF at \in Pre!Starts(lines) THEN S \cup {at} ELSE S
  BY <1>1
<1>5. Cardinality(S) \in Nat
  BY <1>2, FS_CardinalityType
<1> HIDE DEF S
<1>6. Cardinality(S \cup {at}) = Cardinality(S) + 1
  BY <1>2, <1>3, FS_AddElement
<1> QED BY <1>4, <1>5, <1>6 DEF S

(* What the scan does to a line, whatever the line is. *)
Ends == lines[at] \in Enders /\ stack # <<>>
Left == IF Ends THEN Len(stack) - 1 ELSE Len(stack)
EndOf == IF lines[at] = "endif" THEN at ELSE at - 1

LineStep ==
    /\ Scanned /\ Scanning /\ UNCHANGED cursors
    /\ stack' \in Seq(Pre!Branch({"null"}))
    /\ conditionals' \in Seq(Pre!Branch({"true", "false"}))
    /\ \A i \in 1..Left : stack'[i] = stack[i]
    /\ IF at \in Pre!Starts(lines)
       THEN Len(stack') = Left + 1 /\ stack'[Left + 1] = Pre!Opened(lines[at])
       ELSE Len(stack') = Left
    /\ IF Ends THEN conditionals' = Append(conditionals, Pre!Ended(Pre!Top, EndOf, EndOf))
       ELSE conditionals' = conditionals

LEMMA LineFacts ==
  ASSUME LineStep
  PROVE  /\ Left \in Nat /\ Left <= Len(stack)
         /\ Left < Len(stack) <=> Ends
         /\ lines[at] \in Pre!Words
         /\ stack # <<>> \/ lines[at] # "endif" =>
               Len(stack') = Len(stack) + Shift(lines[at])
         /\ at \in 1..Len(lines) /\ at \in Nat
<1>1. /\ Len(stack) \in Nat /\ (stack # <<>> => Len(stack) # 0)
      /\ at \in 1..Len(lines) /\ at \in Nat /\ lines[at] \in Pre!Words
  BY ScannedFacts DEF LineStep, Scanned, Scanning
<1>2. Left = (IF Ends THEN Len(stack) - 1 ELSE Len(stack)) /\ Left \in Nat
  BY <1>1 DEF Left, Ends
<1>3. Len(stack') = IF at \in Pre!Starts(lines) THEN Left + 1 ELSE Left
  BY DEF LineStep
<1>4. at \in Pre!Starts(lines) <=> \/ lines[at] = "if"
                                   \/ lines[at] \in {"elif", "else"} /\ stack # <<>>
  BY StartIs DEF LineStep
<1>5. stack # <<>> \/ lines[at] # "endif" => Len(stack') = Len(stack) + Shift(lines[at])
  BY <1>1, <1>2, <1>3, <1>4 DEF Ends, Enders, Shift, Pre!Words
<1> QED BY <1>1, <1>2, <1>5

LEMMA ShiftIs ==
  \A word : /\ Shift(word) \in {0 - 1, 0, 1}
            /\ Shift(word) = 0 - 1 => word \in Enders
  BY DEF Shift, Enders

(* The branches that stay on the stack go on. *)
LEMMA KeepsGoing ==
  ASSUME LineStep, NEW i \in 1..Left
  PROVE  /\ i \in DOMAIN stack' /\ stack'[i] = stack[i]
         /\ stack'[i].word = lines'[stack'[i].start]
         /\ Going(stack[i].start, Len(stack) - i)
         /\ Going(stack[i].start, Len(stack) - i)'
<1> DEFINE d == stack[i].start
           k == Len(stack) - i
<1>1. /\ i \in Nat /\ i <= Len(stack) /\ i \in 1..Len(stack) /\ Len(stack) \in Nat
      /\ at \in 1..Len(lines) /\ at \in Nat /\ Scanned /\ Scanning
      /\ Len(stack') \in Nat /\ DOMAIN stack' = 1..Len(stack') /\ i <= Len(stack')
      /\ DOMAIN stack = 1..Len(stack)
  <2>1. Scanned /\ Scanning /\ stack' \in Seq(Pre!Branch({"null"}))
        /\ (Len(stack') = Left + 1 \/ Len(stack') = Left)
    BY DEF LineStep
  <2> QED BY <2>1, LineFacts, ScannedFacts
<1>2. stack'[i] = stack[i] /\ stack[i].word = lines[d] /\ Going(d, k)
  BY <1>1 DEF LineStep, Scanned
<1>3. Len(stack') = Len(stack) + Shift(lines[at]) /\ k \in Nat
  <2>1. stack # <<>>
    BY <1>1
  <2> QED BY <1>1, <2>1, LineFacts
<1>4. lines[at] \in Enders => k # 0
  <2> SUFFICES ASSUME lines[at] \in Enders PROVE k # 0
    OBVIOUS
  <2>1. stack # <<>>
    BY <1>1
  <2>2. Left = Len(stack) - 1
    BY <2>1 DEF Ends, Left
  <2>3. i <= Len(stack) - 1 /\ i \in Nat /\ Len(stack) \in Nat
    BY <1>1, <2>2
  <2> QED BY <2>3
<1>5. PICK x \in 1..(at - 1), y \in Nat : x = d /\ y = k
  <2>1. d < at /\ d \in 1..Len(lines)
    BY <1>1, <1>2, ScannedFacts DEF Going
  <2> QED BY <1>1, <1>3, <2>1
<1>6. Going(x, y) /\ (lines[at] \in Enders => y # 0)
  BY <1>2, <1>4, <1>5
<1>7. PICK z \in Nat : z = y + Shift(lines[at])
  <2>1. PICK s \in {0 - 1, 0, 1} : s = Shift(lines[at]) /\ (s = 0 - 1 => lines[at] \in Enders)
    BY ShiftIs
  <2>2. y + s \in Nat
    BY <1>4, <1>5, <2>1
  <2> QED BY <2>1, <2>2
<1>8. Deep(x, z)' /\ Unended(x)'
  BY <1>1, <1>6, <1>7, DeepStep, UnendedStep DEF Going
<1>9. PICK f \in 1..x : lines[f] = "if" /\ Deep(f, y)
  BY <1>6 DEF Going
<1>10. f \in 1..(at - 1) /\ Deep(f, z)'
  <2>1. f \in 1..(at - 1)
    BY <1>1
  <2> QED BY <1>1, <1>7, <1>9, <2>1, DeepStep
<1>11. lines' = lines /\ at' = at + 1
  BY <1>1 DEF Scanning
<1>12. Going(x, z)'
  BY <1>1, <1>6, <1>8, <1>9, <1>10, <1>11 DEF Going
<1>13. stack'[i].start = x /\ Len(stack') - i = z
  <2>1. stack'[i].start = x
    BY <1>2, <1>5
  <2>2. PICK s \in {0 - 1, 0, 1} : s = Shift(lines[at])
    BY ShiftIs
  <2>3. PICK m \in Nat, n \in Nat : m = Len(stack) /\ n = Len(stack')
    BY <1>1
  <2>4. n = m + s /\ y = m - i /\ z = y + s
    BY <1>3, <1>5, <1>7, <2>2, <2>3
  <2>5. n - i = z
    BY <1>1, <2>4
  <2> QED BY <2>1, <2>3, <2>5
<1>14. Going(stack[i].start, Len(stack) - i)'
  BY <1>12, <1>13
<1> QED BY <1>1, <1>2, <1>11, <1>14

(* The branch that a line begins goes on. *)
LEMMA BeginsGoing ==
  ASSUME LineStep, at \in Pre!Starts(lines), NEW i, i = Left + 1
  PROVE  /\ stack'[i].word = lines'[stack'[i].start] /\ stack'[i].start = at
         /\ Going(stack[i].start, Len(stack) - i)'
<1>1. /\ at \in 1..Len(lines) /\ at \in Nat /\ Scanned /\ Scanning /\ Left \in Nat
      /\ lines' = lines /\ at' = at + 1
  BY LineFacts DEF LineStep, Scanning
<1>2. stack'[i] = Pre!Opened(lines[at]) /\ Len(stack') - i = 0
  BY <1>1 DEF LineStep
<1>3. stack'[i].word = lines[at] /\ stack'[i].start = at
  BY <1>2 DEF Pre!Opened
<1>4. PICK x \in Nat : x = at
  BY <1>1
<1>5. Deep(x, 0)' /\ Unended(x)'
  BY <1>1, <1>4, DeepNew
<1>6. \E f \in 1..x : lines[f] = "if" /\ Deep(f, 0)'
  <2>1. CASE lines[at] = "if"
    BY <1>1, <1>4, <1>5, <2>1
  <2>2. CASE lines[at] \in {"elif", "else"} /\ stack # <<>>
    <3>1. Len(stack) \in DOMAIN stack /\ Len(stack) - Len(stack) = 0
      BY <1>1, <2>2, ScannedFacts DEF Scanned
    <3> DEFINE d == stack[Len(stack)].start
    <3>2. Going(d, 0)
      BY <1>1, <3>1 DEF Scanned
    <3> HIDE DEF d
    <3>3. d \in Nat /\ d < at
      BY <1>1, <3>2, ScannedFacts DEF Going
    <3>4. PICK f \in 1..d : lines[f] = "if" /\ Deep(f, 0)
      BY <3>2 DEF Going
    <3>5. f \in 1..(at - 1) /\ f \in 1..x
      BY <1>1, <1>4, <3>3
    <3>6. Shift(lines[at]) = 0
      BY <2>2 DEF Shift
    <3>7. Deep(f, 0)'
      BY <1>1, <3>4, <3>5, <3>6, DeepStep
    <3> QED BY <3>4, <3>5, <3>7
  <2> QED BY <1>1, <2>1, <2>2, StartIs
<1>7. Going(x, 0)'
  BY <1>1, <1>4, <1>5, <1>6 DEF Going
<1>8. Going(stack[i].start, Len(stack) - i)'
  BY <1>2, <1>3, <1>4, <1>7
<1> QED BY <1>1, <1>3, <1>8

LEMMA LineKept ==
  ASSUME LineStep, NEW f \in 1..at, lines[f] = "if"
  PROVE  Kept(f)'
<1>1. /\ at \in 1..Len(lines) /\ at \in Nat /\ Scanned /\ Scanning /\ Left \in Nat
      /\ lines' = lines /\ at' = at + 1 /\ at' - 1 = at
      /\ Len(stack) \in Nat /\ DOMAIN stack = 1..Len(stack)
      /\ Len(stack') \in Nat /\ DOMAIN stack' = 1..Len(stack')
  <2>1. Scanned /\ Scanning /\ stack' \in Seq(Pre!Branch({"null"}))
    BY DEF LineStep
  <2> QED BY <2>1, LineFacts, ScannedFacts DEF Scanning
<1>2. CASE f = at
  <2>1. Deep(f, 0)'
    BY <1>1, <1>2, DeepNew
  <2>2. at \in Pre!Starts(lines)
    BY <1>1, <1>2, StartIs
  <2>3. Len(stack') = Left + 1
    BY <2>2 DEF LineStep
  <2>4. Len(stack') \in DOMAIN stack' /\ Len(stack') - Len(stack') = 0
    BY <1>1, <2>3
  <2> QED BY <2>1, <2>4 DEF Kept
<1>3. CASE f \in 1..(at - 1)
  <2>1. Kept(f)
    BY <1>1, <1>3 DEF Scanned
  <2>2. CASE \E l \in (f + 1)..(at - 1) : Nest(lines, f + 1, l) < 0
    <3>1. \E l \in (f + 1)..at : Nest(lines, f + 1, l) < 0
      BY <1>1, <2>2
    <3> QED BY <1>1, <3>1 DEF Kept
  <2>3. CASE \E i \in DOMAIN stack : Deep(f, Len(stack) - i)
    <3>1. PICK i \in DOMAIN stack : Deep(f, Len(stack) - i)
      BY <2>3
    <3>2. PICK k \in Nat : k = Len(stack) - i
      BY <1>1
    <3>3. Nest(lines, f + 1, at) = k + Shift(lines[at])
          /\ \A n \in Nat : n = k + Shift(lines[at]) => Deep(f, n)'
      BY <1>1, <1>3, <3>1, <3>2, DeepStep
    <3>4. stack # <<>>
      BY <1>1, <3>1
    <3>5. Len(stack') = Len(stack) + Shift(lines[at])
      BY <3>4, LineFacts
    <3>6. CASE k + Shift(lines[at]) < 0
      <4>1. Nest(lines, f + 1, at) < 0 /\ at \in (f + 1)..at
        BY <1>1, <1>3, <3>3, <3>6
      <4> QED BY <1>1, <4>1 DEF Kept
    <3>7. CASE k + Shift(lines[at]) >= 0
      <4>1. Shift(lines[at]) \in {0 - 1, 0, 1}
        BY ShiftIs
      <4>2. PICK n \in Nat : n = k + Shift(lines[at])
        BY <3>7, <4>1
      <4>3. Len(stack') - i = n /\ i \in DOMAIN stack'
        <5>1. PICK s \in {0 - 1, 0, 1} : s = Shift(lines[at])
          BY <4>1
        <5> QED BY <1>1, <3>2, <3>5, <4>2, <5>1
      <4>4. Deep(f, n)'
        BY <3>3, <4>2
      <4> QED BY <4>3, <4>4 DEF Kept
    <3>8. Shift(lines[at]) \in {0 - 1, 0, 1}
      BY ShiftIs
    <3> QED BY <3>6, <3>7, <3>8
  <2> QED BY <2>1, <2>2, <2>3 DEF Kept
<1> QED BY <1>1, <1>2, <1>3

(* The branch that a line ends is recorded as it should be. *)
LEMMA LineRecorded ==
  ASSUME LineStep
  PROVE  /\ \A i \in DOMAIN conditionals' : Recorded(conditionals[i])'
         /\ \A i \in DOMAIN conditionals :
               i \in DOMAIN conditionals' /\ conditionals'[i] = conditionals[i]
         /\ Ends => /\ Len(conditionals') = Len(conditionals) + 1
                    /\ conditionals'[Len(conditionals')].start = stack[Len(stack)].start
                    /\ Len(conditionals') \in DOMAIN conditionals'
         /\ ~ Ends => Len(conditionals') = Len(conditionals)
<1>1. /\ at \in 1..Len(lines) /\ at \in Nat /\ Scanned /\ Scanning
      /\ lines' = lines /\ at' = at + 1 /\ cursors' = cursors
      /\ Len(stack) \in Nat /\ DOMAIN stack = 1..Len(stack)
      /\ Len(conditionals) \in Nat /\ DOMAIN conditionals = 1..Len(conditionals)
  <2>1. Scanned /\ Scanning /\ UNCHANGED cursors
    BY DEF LineStep
  <2> QED BY <2>1, LineFacts, ScannedFacts DEF Scanning
<1>2. ASSUME NEW c, Recorded(c) PROVE Recorded(c)'
  <2>1. c.start \in 1..Len(lines) /\ lines \in Seq(Pre!Words)
    BY <1>1, <1>2, ScannedFacts DEF Recorded, Scanned
  <2>2. Pre!Bound(lines, c.start) \in Nat
    BY <2>1, BoundIs
  <2>3. Pre!Bound(lines, c.start) < at + 1
    BY <1>1, <1>2, <2>2 DEF Recorded
  <2> QED BY <1>1, <1>2, <2>3 DEF Recorded, Result
<1>3. \A i \in DOMAIN conditionals : Recorded(conditionals[i])
  BY <1>1 DEF Scanned
<1>4. CASE ~ Ends
  <2>1. conditionals' = conditionals
    BY <1>4 DEF LineStep
  <2>2. \A i \in DOMAIN conditionals' : Recorded(conditionals[i])'
    <3> SUFFICES ASSUME NEW i \in DOMAIN conditionals' PROVE Recorded(conditionals[i])'
      OBVIOUS
    <3>1. PICK c : c = conditionals[i]
      OBVIOUS
    <3>2. Recorded(c)' /\ conditionals'[i] = c
      BY <1>2, <1>3, <2>1, <3>1
    <3> QED BY <3>2
  <2> QED BY <1>4, <2>1, <2>2
<1>5. CASE Ends
  <2> DEFINE e == Pre!Ended(Pre!Top, EndOf, EndOf)
  <2>1. PICK c : c = e
    OBVIOUS
  <2>2. /\ conditionals' = Append(conditionals, c) /\ Len(conditionals') = Len(conditionals) + 1
        /\ DOMAIN conditionals' = 1..(Len(conditionals) + 1)
        /\ conditionals'[Len(conditionals) + 1] = c
        /\ \A i \in DOMAIN conditionals : conditionals'[i] = conditionals[i]
    <3>1. conditionals' = Append(conditionals, e)
      BY <1>5 DEF LineStep
    <3>2. conditionals \in Seq(Pre!Branch({"true", "false"}))
      BY <1>1 DEF Scanned
    <3> QED BY <1>1, <2>1, <3>1, <3>2
  <2>3. Len(stack) \in DOMAIN stack /\ Len(stack) - Len(stack) = 0
    BY <1>1, <1>5 DEF Ends, Scanned
  <2>4. PICK d \in Nat : /\ d = stack[Len(stack)].start /\ Going(d, 0)
                         /\ stack[Len(stack)].word = lines[d]
    <3>1. /\ Going(stack[Len(stack)].start, 0)
          /\ stack[Len(stack)].word = lines[stack[Len(stack)].start]
      BY <1>1, <2>3 DEF Scanned
    <3>2. stack[Len(stack)].start \in Nat
      BY <1>1, <3>1, ScannedFacts DEF Going
    <3> QED BY <3>1, <3>2
  <2>5. d \in Pre!Starts(lines) /\ d \in 1..Len(lines) /\ d < at
    BY <1>1, <2>4, ScannedFacts DEF Going
  <2>6. Pre!Bound(lines, d) = at
    BY <1>1, <1>5, <2>4, <2>5, BoundIs DEF Going, Ends, Scanned
  <2>7. /\ c.start = d /\ c.word = lines[d] /\ c.end = EndOf
        /\ c.result = Result(d, EndOf)
    <3>1. stack[Len(stack)] \in Pre!Branch({"null"})
      BY <1>1, <2>3, ScannedFacts
    <3> QED BY <2>1, <2>4, <3>1 DEF Pre!Ended, Pre!Top, Pre!Guess, Pre!Branch, Result
  <2>8. Recorded(c)'
    BY <1>1, <2>5, <2>6, <2>7 DEF Recorded, EndOf, Result
  <2>9. ASSUME NEW i \in DOMAIN conditionals' PROVE Recorded(conditionals[i])'
    <3>1. CASE i \in DOMAIN conditionals
      <4>1. PICK x : x = conditionals[i]
        OBVIOUS
      <4>2. Recorded(x)' /\ conditionals'[i] = x
        BY <1>2, <1>3, <2>2, <3>1, <4>1
      <4> QED BY <4>2
    <3>2. CASE i = Len(conditionals) + 1
      BY <2>2, <2>8, <3>2
    <3> QED BY <1>1, <2>2, <3>1, <3>2
  <2> QED BY <1>1, <1>5, <2>2, <2>4, <2>7, <2>9
<1> QED BY <1>4, <1>5

LEMMA LineNest ==
  ASSUME LineStep, \A l \in 1..at : Nest(lines, 1, l) >= 0
  PROVE  Nest(lines, 1, at) = Len(stack')
<1>1. /\ at \in 1..Len(lines) /\ at \in Nat /\ Scanned /\ Scanning
      /\ Len(stack) \in Nat /\ DOMAIN stack = 1..Len(stack)
      /\ at - 1 \in Nat /\ (at - 1) + 1 = at /\ 1 <= at
  <2>1. Scanned /\ Scanning
    BY DEF LineStep
  <2> QED BY <2>1, LineFacts, ScannedFacts
<1>2. Nest(lines, 1, at - 1) = Len(stack)
  <2>1. \A l \in 1..(at - 1) : l \in 1..at
    BY <1>1
  <2> QED BY <1>1, <2>1 DEF Scanned
<1>3. Nest(lines, 1, at) = Len(stack) + Shift(lines[at])
  BY <1>1, <1>2, NestStep
<1>4. Nest(lines, 1, at) >= 0
  BY <1>1
<1>5. stack # <<>> \/ lines[at] # "endif"
  BY <1>1, <1>3, <1>4 DEF Shift, Scanned
<1> QED BY <1>3, <1>5, LineFacts

LEMMA PopIs ==
  ASSUME NEW B, NEW s \in Seq(B), s # <<>>
  PROVE  /\ Len(SubSeq(s, 1, Len(s) - 1)) = Len(s) - 1
         /\ SubSeq(s, 1, Len(s) - 1) \in Seq(B)
         /\ \A i \in 1..(Len(s) - 1) : SubSeq(s, 1, Len(s) - 1)[i] = s[i]
<1>1. Len(s) - 1 \in Nat /\ Len(s) - 1 <= Len(s) /\ Len(s) \in Nat
  OBVIOUS
<1>2. PICK n \in Nat : n = Len(s) - 1
  BY <1>1
<1>3. \A i \in 1..n : s[i] \in B
  BY <1>1, <1>2
<1>4. /\ SubSeq(s, 1, n) \in Seq(B)
      /\ Len(SubSeq(s, 1, n)) = IF 1 <= n THEN n - 1 + 1 ELSE 0
      /\ \A i \in 1..(n - 1 + 1) : SubSeq(s, 1, n)[i] = s[1 + i - 1]
  BY <1>3, SubSeqProperties
<1>5. /\ Len(SubSeq(s, 1, n)) = n
      /\ \A i \in 1..n : SubSeq(s, 1, n)[i] = s[i]
  BY <1>4
<1> QED BY <1>2, <1>4, <1>5

LEMMA StepScanned == LineStep => Scanned'
<1> SUFFICES ASSUME LineStep PROVE Scanned'
  OBVIOUS
<1>1. /\ at \in 1..Len(lines) /\ at \in Nat /\ Scanned /\ Scanning /\ Left \in Nat
      /\ lines' = lines /\ at' = at + 1 /\ at' - 1 = at
      /\ Len(stack) \in Nat /\ DOMAIN stack = 1..Len(stack)
      /\ Len(stack') \in Nat /\ DOMAIN stack' = 1..Len(stack')
      /\ stack' \in Seq(Pre!Branch({"null"}))
      /\ conditionals' \in Seq(Pre!Branch({"true", "false"}))
      /\ Len(conditionals) \in Nat
  <2>1. /\ Scanned /\ Scanning /\ stack' \in Seq(Pre!Branch({"null"}))
        /\ conditionals' \in Seq(Pre!Branch({"true", "false"}))
    BY DEF LineStep
  <2> QED BY <2>1, LineFacts, ScannedFacts DEF Scanning
<1>2. lines' \in Seq(Pre!Words) /\ at' \in 1..(Len(lines') + 1)
  BY <1>1 DEF Scanned
<1>3. (\A i \in DOMAIN stack : /\ stack[i].word = lines[stack[i].start]
                               /\ Going(stack[i].start, Len(stack) - i))'
  <2> SUFFICES ASSUME NEW i \in DOMAIN stack'
               PROVE  (/\ stack[i].word = lines[stack[i].start]
                       /\ Going(stack[i].start, Len(stack) - i))'
    OBVIOUS
  <2>1. CASE i \in 1..Left
    BY <2>1, KeepsGoing
  <2>2. CASE i \notin 1..Left
    <3>1. Len(stack') = IF at \in Pre!Starts(lines) THEN Left + 1 ELSE Left
      BY DEF LineStep
    <3>2. i \in 1..Len(stack')
      BY <1>1
    <3>3. at \in Pre!Starts(lines) /\ i = Left + 1
      BY <1>1, <2>2, <3>1, <3>2
    <3> QED BY <3>3, BeginsGoing
  <2> QED BY <2>1, <2>2
<1>4. (\A f \in 1..(at - 1) : lines[f] = "if" => Kept(f))'
  BY <1>1, LineKept
<1>5. (\A i \in DOMAIN conditionals : Recorded(conditionals[i]))'
  BY LineRecorded
<1>6. ASSUME NEW d \in Pre!Starts(lines), d < at + 1
      PROVE  \/ \E i \in DOMAIN stack' : stack'[i].start = d
             \/ \E i \in DOMAIN conditionals' : conditionals'[i].start = d
  <2>1. d \in Nat
    BY <1>1, ScannedFacts
  <2>2. CASE d = at
    <3>1. PICK i : i = Left + 1
      OBVIOUS
    <3>2. stack'[i].start = at
      BY <1>6, <2>2, <3>1, BeginsGoing
    <3>3. i \in DOMAIN stack'
      BY <1>1, <1>6, <2>2, <3>1 DEF LineStep
    <3> QED BY <2>2, <3>2, <3>3
  <2>3. CASE \E i \in DOMAIN conditionals : conditionals[i].start = d
    BY <2>3, LineRecorded
  <2>4. CASE \E i \in DOMAIN stack : stack[i].start = d
    <3>1. PICK i \in DOMAIN stack : stack[i].start = d
      BY <2>4
    <3>2. CASE i \in 1..Left
      BY <3>1, <3>2, KeepsGoing
    <3>3. CASE i \notin 1..Left
      <4>1. Ends /\ i = Len(stack)
        BY <1>1, <3>3 DEF Left
      <4> QED BY <3>1, <4>1, LineRecorded
    <3> QED BY <3>2, <3>3
  <2>5. d < at \/ d = at
    BY <1>1, <1>6, <2>1
  <2> QED BY <1>1, <2>2, <2>3, <2>4, <2>5 DEF Scanned
<1>7. Len(conditionals') + Len(stack') = Cardinality({d \in Pre!Starts(lines) : d < at + 1})
  <2> DEFINE C == Cardinality({d \in Pre!Starts(lines) : d < at})
  <2>1. Len(conditionals) + Len(stack) = C
    BY <1>1 DEF Scanned
  <2>2. Cardinality({d \in Pre!Starts(lines) : d < at + 1})
           = C + (IF at \in Pre!Starts(lines) THEN 1 ELSE 0)
    BY <1>1, StartsUpTo
  <2>3. Len(stack') = IF at \in Pre!Starts(lines) THEN Left + 1 ELSE Left
    BY DEF LineStep
  <2>4. Len(conditionals') + Left = Len(conditionals) + Len(stack)
    <3>1. Left = IF Ends THEN Len(stack) - 1 ELSE Len(stack)
      BY DEF Left
    <3>2. Len(conditionals') = IF Ends THEN Len(conditionals) + 1 ELSE Len(conditionals)
      BY LineRecorded
    <3>3. Len(stack) \in Nat /\ Len(conditionals) \in Nat
      BY <1>1
    <3> QED BY <3>1, <3>2, <3>3
  <2>5. Len(conditionals') \in Nat
    BY <1>1
  <2> HIDE DEF C
  <2> QED BY <1>1, <2>1, <2>2, <2>3, <2>4, <2>5
<1>8. (\A l \in 1..at : Nest(lines, 1, l) >= 0) => Nest(lines, 1, at) = Len(stack')
  BY LineNest
<1>9. /\ Pre!Starts(lines)' = Pre!Starts(lines)
      /\ \A l : Nest(lines, 1, l)' = Nest(lines, 1, l)
  BY <1>1
<1> QED BY <1>1, <1>2, <1>3, <1>4, <1>5, <1>6, <1>7, <1>8, <1>9 DEF Scanned

LEMMA LineIsStep ==
  ASSUME Scanned, Pre!Line
  PROVE  LineStep
<1>1. /\ at <= Len(lines) /\ at' = at + 1 /\ lines' = lines /\ cursors' = cursors
      /\ lines \in Seq(Pre!Words) /\ at \in Nat \ {0}
      /\ stack \in Seq(Pre!Branch({"null"}))
      /\ conditionals \in Seq(Pre!Branch({"true", "false"}))
  BY ScannedFacts DEF Pre!Line, Scanned
<1>2. Scanning
  BY <1>1 DEF Scanning
<1>3. at \in 1..Len(lines) /\ lines[at] \in Pre!Words
  BY <1>1, ScannedFacts
<1>4. at \in Pre!Starts(lines) <=> \/ lines[at] = "if"
                                   \/ lines[at] \in {"elif", "else"} /\ stack # <<>>
  BY <1>2, StartIs
<1>5. Len(stack) \in Nat /\ (stack = <<>> <=> Len(stack) = 0)
  BY <1>1
<1>6. Pre!Opened(lines[at]) \in Pre!Branch({"null"}) \/ lines[at] \notin {"if", "elif", "else"}
  BY <1>1 DEF Pre!Opened, Pre!Branch
<1>7. ASSUME stack # <<>>
      PROVE  /\ Len(Pre!Pop) = Len(stack) - 1 /\ Pre!Pop \in Seq(Pre!Branch({"null"}))
             /\ \A i \in 1..(Len(stack) - 1) : Pre!Pop[i] = stack[i]
             /\ \A to \in Nat : Pre!Ended(Pre!Top, to, to) \in Pre!Branch({"true", "false"})
  <2>1. Len(stack) \in 1..Len(stack) /\ Len(stack) - 1 \in Nat /\ Len(stack) - 1 <= Len(stack)
    BY <1>5, <1>7
  <2>2. Pre!Top \in Pre!Branch({"null"})
    BY <1>1, <2>1 DEF Pre!Top
  <2>3. \A to \in Nat : Pre!Ended(Pre!Top, to, to) \in Pre!Branch({"true", "false"})
    <3> TAKE to \in Nat
    <3>1. Pre!Guess(Pre!Top, to) \in {"true", "false"}
      BY DEF Pre!Guess
    <3> QED BY <2>2, <3>1 DEF Pre!Ended, Pre!Branch
  <2>4. Pre!Pop = SubSeq(stack, 1, Len(stack) - 1)
    BY DEF Pre!Pop
  <2>5. /\ Len(Pre!Pop) = Len(stack) - 1 /\ Pre!Pop \in Seq(Pre!Branch({"null"}))
        /\ \A i \in 1..(Len(stack) - 1) : Pre!Pop[i] = stack[i]
    BY <1>1, <1>7, <2>4, PopIs
  <2> QED BY <2>3, <2>5
<1>8. EndOf \in Nat /\ at - 1 \in Nat
  BY <1>1 DEF EndOf
<1>9. ASSUME NEW s \in Seq(Pre!Branch({"null"})), NEW b \in Pre!Branch({"null"})
      PROVE  /\ Append(s, b) \in Seq(Pre!Branch({"null"})) /\ Len(Append(s, b)) = Len(s) + 1
             /\ Append(s, b)[Len(s) + 1] = b
             /\ \A i \in 1..Len(s) : Append(s, b)[i] = s[i]
  OBVIOUS
<1>10. ASSUME NEW b \in Pre!Branch({"true", "false"})
       PROVE  Append(conditionals, b) \in Seq(Pre!Branch({"true", "false"}))
  BY <1>1
<1>11. CASE Pre!Open
  <2>1. /\ lines[at] = "if" /\ conditionals' = conditionals
        /\ stack' = Append(stack, Pre!Opened(lines[at]))
    BY <1>11 DEF Pre!Open
  <2>2. ~ Ends /\ Left = Len(stack) /\ at \in Pre!Starts(lines)
    BY <1>4, <2>1 DEF Ends, Left, Enders
  <2> QED BY <1>1, <1>2, <1>6, <1>9, <2>1, <2>2 DEF LineStep
<1>12. CASE Pre!Alternative
  <2>1. /\ lines[at] \in {"elif", "else"} /\ stack # <<>>
        /\ conditionals' = Append(conditionals, Pre!Ended(Pre!Top, at - 1, at - 1))
        /\ stack' = Append(Pre!Pop, Pre!Opened(lines[at]))
    BY <1>12 DEF Pre!Alternative
  <2>2. Ends /\ Left = Len(stack) - 1 /\ at \in Pre!Starts(lines) /\ EndOf = at - 1
    BY <1>4, <2>1 DEF Ends, Left, Enders, EndOf
  <2>3. /\ stack' \in Seq(Pre!Branch({"null"})) /\ Len(stack') = Left + 1
        /\ stack'[Left + 1] = Pre!Opened(lines[at])
        /\ \A i \in 1..Left : stack'[i] = stack[i]
    BY <1>6, <1>7, <1>9, <2>1, <2>2
  <2>4. conditionals' \in Seq(Pre!Branch({"true", "false"}))
    BY <1>7, <1>8, <1>10, <2>1
  <2> QED BY <1>1, <1>2, <2>1, <2>2, <2>3, <2>4 DEF LineStep
<1>13. CASE Pre!Close
  <2>1. /\ lines[at] = "endif" /\ stack # <<>>
        /\ conditionals' = Append(conditionals, Pre!Ended(Pre!Top, at, at))
        /\ stack' = Pre!Pop
    BY <1>13 DEF Pre!Close
  <2>2. Ends /\ Left = Len(stack) - 1 /\ at \notin Pre!Starts(lines) /\ EndOf = at
    BY <1>4, <2>1 DEF Ends, Left, Enders, EndOf
  <2>3. conditionals' \in Seq(Pre!Branch({"true", "false"}))
    BY <1>1, <1>7, <1>10, <2>1
  <2> QED BY <1>1, <1>2, <1>7, <2>1, <2>2, <2>3 DEF LineStep
<1>14. CASE Pre!Skip
  <2>1. /\ stack' = stack /\ conditionals' = conditionals
        /\ lines[at] \in {"code", "blank"} \/ (lines[at] # "if" /\ stack = <<>>)
    BY <1>14 DEF Pre!Skip
  <2>2. ~ Ends /\ Left = Len(stack) /\ at \notin Pre!Starts(lines)
    BY <1>4, <2>1 DEF Ends, Left, Enders
  <2> QED BY <1>1, <1>2, <2>1, <2>2 DEF LineStep
<1> QED BY <1>11, <1>12, <1>13, <1>14 DEF Pre!Line

(* The line at which the record of a branch ends, by its bound. *)
LastOf(d) ==
    LET b == Pre!Bound(lines, d) IN
    CASE b > Len(lines) -> Len(lines)
      [] b <= Len(lines) /\ lines[b] = "endif" -> b
      [] OTHER -> b - 1

LEMMA FinishRecords ==
  ASSUME Scanned, Pre!Finish
  PROVE  /\ Len(conditionals') = Len(conditionals) + Len(stack)
         /\ DOMAIN conditionals' = 1..(Len(conditionals) + Len(stack))
         /\ \A i \in 1..Len(conditionals) : conditionals'[i] = conditionals[i]
         /\ \A i \in 1..Len(stack) :
               conditionals'[Len(conditionals) + i] = Pre!Leftover(stack[i])
         /\ at = Len(lines) + 1 /\ lines' = lines
<1> DEFINE f == [i \in DOMAIN stack |-> Pre!Leftover(stack[i])]
           B == Pre!Branch({"true", "false"})
<1>1. /\ conditionals' = conditionals \o f /\ conditionals \in Seq(B)
      /\ at > Len(lines) /\ at \in 1..(Len(lines) + 1) /\ Len(lines) \in Nat
      /\ Len(stack) \in Nat /\ DOMAIN stack = 1..Len(stack) /\ lines' = lines
  BY ScannedFacts DEF Pre!Finish, Scanned
<1>2. f \in Seq(B) /\ Len(f) = Len(stack)
  <2>1. \A i \in DOMAIN stack : Pre!Leftover(stack[i]) \in B
    <3> TAKE i \in DOMAIN stack
    <3>1. stack[i] \in Pre!Branch({"null"})
      BY <1>1, ScannedFacts
    <3> QED BY <1>1, <3>1 DEF Pre!Leftover, Pre!Branch
  <2>2. f \in [1..Len(stack) -> B]
    BY <1>1, <2>1
  <2> HIDE DEF f, B
  <2> QED BY <1>1, <2>2
<1>3. \A i \in 1..Len(stack) : f[i] = Pre!Leftover(stack[i])
  BY <1>1
<1> HIDE DEF f, B
<1>4. /\ conditionals \o f \in Seq(B) /\ Len(conditionals \o f) = Len(conditionals) + Len(f)
      /\ \A i \in 1..Len(conditionals) : (conditionals \o f)[i] = conditionals[i]
      /\ \A i \in 1..Len(f) : (conditionals \o f)[Len(conditionals) + i] = f[i]
      /\ DOMAIN (conditionals \o f) = 1..(Len(conditionals) + Len(f))
  <2>1. /\ conditionals \o f \in Seq(B) /\ Len(conditionals \o f) = Len(conditionals) + Len(f)
        /\ \A i \in 1..(Len(conditionals) + Len(f)) : (conditionals \o f)[i]
               = IF i <= Len(conditionals) THEN conditionals[i] ELSE f[i - Len(conditionals)]
    BY <1>1, <1>2, ConcatProperties
  <2>2. Len(conditionals) \in Nat /\ Len(f) \in Nat
    BY <1>1, <1>2
  <2>3. \A i \in 1..Len(f) : (conditionals \o f)[Len(conditionals) + i] = f[i]
    <3> TAKE i \in 1..Len(f)
    <3>1. /\ Len(conditionals) + i \in 1..(Len(conditionals) + Len(f))
          /\ ~ (Len(conditionals) + i <= Len(conditionals))
          /\ Len(conditionals) + i - Len(conditionals) = i
      BY <2>2
    <3> QED BY <2>1, <3>1
  <2>4. \A i \in 1..Len(conditionals) : (conditionals \o f)[i] = conditionals[i]
    BY <2>1, <2>2
  <2> QED BY <2>1, <2>2, <2>3, <2>4
<1> QED BY <1>1, <1>2, <1>3, <1>4

LEMMA RecordIsRight ==
  ASSUME Scanned, at = Len(lines) + 1, NEW c, Recorded(c)
  PROVE  c.start \in Pre!Starts(lines) /\ c.word = lines[c.start] /\ c.end = LastOf(c.start)
<1>1. c.start \in 1..Len(lines) /\ lines \in Seq(Pre!Words) /\ Len(lines) \in Nat
  BY ScannedFacts DEF Recorded, Scanned
<1>2. Pre!Bound(lines, c.start) \in Nat
  BY <1>1, BoundIs
<1>3. Pre!Bound(lines, c.start) <= Len(lines)
  BY <1>1, <1>2 DEF Recorded
<1> QED BY <1>1, <1>2, <1>3 DEF Recorded, LastOf

LEMMA LeftoverIsRight ==
  ASSUME Scanned, at = Len(lines) + 1, NEW i \in 1..Len(stack)
  PROVE  /\ Pre!Leftover(stack[i]).start = stack[i].start
         /\ stack[i].start \in Pre!Starts(lines)
         /\ Pre!Leftover(stack[i]).word = lines[stack[i].start]
         /\ Pre!Leftover(stack[i]).end = LastOf(stack[i].start)
<1>1. /\ stack[i] \in Pre!Branch({"null"}) /\ i \in DOMAIN stack
      /\ lines \in Seq(Pre!Words) /\ Len(lines) \in Nat
  BY ScannedFacts DEF Scanned
<1>2. Going(stack[i].start, Len(stack) - i) /\ stack[i].word = lines[stack[i].start]
  BY <1>1 DEF Scanned
<1>3. stack[i].start \in 1..Len(lines) /\ stack[i].start \in Pre!Starts(lines)
  BY <1>2, ScannedFacts DEF Going
<1>4. Pre!Bound(lines, stack[i].start) = Len(lines) + 1
  BY <1>1, <1>2, <1>3, BoundIs DEF Going
<1>5. LastOf(stack[i].start) = Len(lines)
  BY <1>1, <1>4 DEF LastOf
<1> QED BY <1>1, <1>2, <1>3, <1>5 DEF Pre!Leftover, Pre!Branch

LEMMA FinishFinds ==
  ASSUME Scanned, Pre!Finish
  PROVE  Pre!BranchesAreFound'
<1>1. /\ Len(conditionals) \in Nat /\ Len(stack) \in Nat /\ Len(lines) \in Nat
      /\ DOMAIN conditionals = 1..Len(conditionals) /\ DOMAIN stack = 1..Len(stack)
      /\ Pre!Starts(lines) \subseteq 1..Len(lines)
  BY ScannedFacts
<1>2. \A i \in DOMAIN conditionals' : i \in 1..Len(conditionals)
        \/ \E j \in 1..Len(stack) : i = Len(conditionals) + j
  <2> SUFFICES ASSUME NEW i \in DOMAIN conditionals', i \notin 1..Len(conditionals)
               PROVE  \E j \in 1..Len(stack) : i = Len(conditionals) + j
    OBVIOUS
  <2>1. i \in 1..(Len(conditionals) + Len(stack))
    BY FinishRecords
  <2>2. i - Len(conditionals) \in 1..Len(stack) /\ i = Len(conditionals) + (i - Len(conditionals))
    BY <1>1, <2>1
  <2> QED BY <2>2
<1>3. ASSUME NEW i \in DOMAIN conditionals'
      PROVE  LET c == conditionals'[i] IN
             /\ c.start \in Pre!Starts(lines) /\ c.word = lines[c.start]
             /\ c.end = LastOf(c.start)
  <2>1. CASE i \in 1..Len(conditionals)
    <3>1. conditionals'[i] = conditionals[i] /\ Recorded(conditionals[i])
      BY <1>1, <2>1, FinishRecords DEF Scanned
    <3> QED BY <3>1, FinishRecords, RecordIsRight
  <2>2. CASE \E j \in 1..Len(stack) : i = Len(conditionals) + j
    <3>1. PICK j \in 1..Len(stack) : i = Len(conditionals) + j
      BY <2>2
    <3>2. conditionals'[i] = Pre!Leftover(stack[j])
      BY <3>1, FinishRecords
    <3> QED BY <3>2, FinishRecords, LeftoverIsRight
  <2> QED BY <1>2, <2>1, <2>2
<1>4. ASSUME NEW d \in Pre!Starts(lines)
      PROVE  \E i \in DOMAIN conditionals' : conditionals'[i].start = d
  <2>1. d < at
    BY <1>1, FinishRecords
  <2>2. CASE \E i \in DOMAIN conditionals : conditionals[i].start = d
    <3>1. PICK i \in DOMAIN conditionals : conditionals[i].start = d
      BY <2>2
    <3>2. i \in DOMAIN conditionals'
      BY <1>1, FinishRecords
    <3> QED BY <1>1, <3>1, <3>2, FinishRecords
  <2>3. CASE \E i \in DOMAIN stack : stack[i].start = d
    <3>1. PICK i \in 1..Len(stack) : stack[i].start = d
      BY <1>1, <2>3
    <3>2. Len(conditionals) + i \in DOMAIN conditionals'
      BY <1>1, FinishRecords
    <3> QED BY <3>1, <3>2, FinishRecords, LeftoverIsRight
  <2> QED BY <2>1, <2>2, <2>3 DEF Scanned
<1>5. Len(conditionals') = Cardinality(Pre!Starts(lines))
  <2>1. {d \in Pre!Starts(lines) : d < at} = Pre!Starts(lines)
    BY <1>1, FinishRecords
  <2> QED BY <2>1, FinishRecords DEF Scanned
<1> DEFINE R == {conditionals'[i] : i \in DOMAIN conditionals'}
<1>6. {<<c.word, c.start, c.end>> : c \in R} = {<<lines[d], d, LastOf(d)>> : d \in Pre!Starts(lines)}
  <2>1. \A c \in R : /\ c.start \in Pre!Starts(lines) /\ c.word = lines[c.start]
                     /\ c.end = LastOf(c.start)
    BY <1>3
  <2>2. \A d \in Pre!Starts(lines) : \E c \in R : c.start = d
    BY <1>4
  <2> HIDE DEF R
  <2> QED BY <2>1, <2>2
<1>7. lines' = lines
  BY FinishRecords
<1> QED BY <1>5, <1>6, <1>7, PreCardinality DEF Pre!BranchesAreFound, LastOf

(* A file whose directives balance leaves no branch open. *)
LEMMA BalancedLeavesNone ==
  ASSUME Scanned, at = Len(lines) + 1, Pre!WellFormed(lines)
  PROVE  Len(stack) = 0
<1>1. Len(lines) \in Nat /\ 1 <= Len(lines) + 1 /\ at - 1 = Len(lines)
  BY ScannedFacts
<1>2. Pre!Balanced(lines, 1, Len(lines))
  BY DEF Pre!WellFormed
<1>3. Nest(lines, 1, Len(lines)) = 0 /\ \A l \in 1..Len(lines) : Nest(lines, 1, l) >= 0
  BY <1>1, <1>2, BalancedIs
<1> QED BY <1>1, <1>3 DEF Scanned

LEMMA FinishJudges ==
  ASSUME Scanned, Pre!Finish, NEW words \in {{"code"}, {"code", "if"}},
         cursors = Pre!Compiled(parsed, holds, words)
  PROVE  Pre!ResultsFollowTheCode'
<1>1. UNCHANGED <<parsed, holds, lines>> /\ at = Len(lines) + 1
  BY FinishRecords DEF Pre!Finish
<1> SUFFICES ASSUME lines = parsed, Pre!WellFormed(lines),
                    NEW i \in DOMAIN conditionals', NEW c, c = conditionals'[i]
             PROVE  IF c.result = "true" THEN c.start \in Pre!Entered(lines, holds)
                    ELSE \A l \in Pre!Compiled(lines, holds, {"code"}) :
                            c.start \notin Pre!Within(lines, l)
  BY <1>1 DEF Pre!ResultsFollowTheCode, Pre!Unedited
<1>2. Recorded(c)
  <2>1. Len(stack) = 0 /\ Len(conditionals) \in Nat
    BY <1>1, BalancedLeavesNone, ScannedFacts
  <2>2. i \in 1..Len(conditionals) /\ c = conditionals[i]
    BY <2>1, FinishRecords
  <2> QED BY <2>2, ScannedFacts DEF Scanned
<1> DEFINE d == c.start
           b == Pre!Bound(lines, d)
<1>3. /\ d \in Pre!Starts(lines) /\ d \in Nat /\ b \in Nat /\ b <= Len(lines) /\ b \in 1..Len(lines)
      /\ c.end = (IF lines[b] = "endif" THEN b ELSE b - 1)
      /\ c.result = IF \E l \in cursors : d < l /\ l <= c.end THEN "true" ELSE "false"
  <2>1. d \in Pre!Starts(lines) /\ d \in 1..Len(lines) /\ lines \in Seq(Pre!Words)
        /\ Len(lines) \in Nat
    BY <1>2, ScannedFacts DEF Recorded, Scanned
  <2>2. b \in Nat /\ d + 1 <= b
    BY <2>1, BoundIs
  <2>3. b < at
    BY <1>2 DEF Recorded
  <2> QED BY <1>1, <1>2, <2>1, <2>2, <2>3 DEF Recorded, Result
<1>4. \A l \in cursors : l \in 1..Len(lines) /\ lines[l] \in {"code", "if"}
                          /\ Pre!Within(lines, l) \subseteq Pre!Entered(lines, holds)
  BY ScannedFacts DEF Pre!Compiled
<1>5. Pre!Compiled(lines, holds, {"code"}) \subseteq cursors
  BY DEF Pre!Compiled
<1> HIDE DEF d, b
<1>6. CASE \E l \in cursors : d < l /\ l <= c.end
  <2>1. PICK l \in cursors : d < l /\ l <= c.end
    BY <1>6
  <2>2. l # b \/ lines[b] # "endif"
    BY <1>4
  <2>3. l < b
    BY <1>3, <1>4, <2>1, <2>2
  <2>4. d \in Pre!Within(lines, l)
    BY <1>3, <2>1, <2>3 DEF Pre!Within, b
  <2> QED BY <1>3, <1>4, <1>6, <2>1, <2>4 DEF d
<1>7. CASE ~ \E l \in cursors : d < l /\ l <= c.end
  <2> SUFFICES ASSUME NEW l \in Pre!Compiled(lines, holds, {"code"}), d \in Pre!Within(lines, l)
               PROVE  FALSE
    BY <1>3, <1>7 DEF d
  <2>1. d < l /\ l < b /\ l \in cursors /\ l \in Nat
    BY <1>4, <1>5 DEF Pre!Within, b
  <2>2. l <= c.end
    BY <1>3, <2>1
  <2> QED BY <1>7, <2>1, <2>2
<1> QED BY <1>6, <1>7

LEMMA InitScan == Pre!Init => ScanInv
  BY DEF Pre!Init, ScanInv, Pre!BranchesAreFound, Pre!ResultsFollowTheCode, Pre!Unedited

LEMMA ReadScanned ==
  ASSUME ScanInv, Pre!Read
  PROVE  Scanned'
<1>1. /\ at' = 1 /\ stack' = <<>> /\ conditionals' = <<>> /\ lines' \in Seq(Pre!Words)
  <2>1. /\ status = "parsed" /\ (lines' = disk \/ lines' = <<>>)
        /\ UNCHANGED <<at, stack, conditionals>>
    BY DEF Pre!Read
  <2>2. disk \in Seq(Pre!Words) /\ <<>> \in Seq(Pre!Words)
    BY <2>1 DEF ScanInv
  <2> QED BY <2>1, <2>2 DEF ScanInv
<1>2. Len(stack') = 0 /\ Len(conditionals') = 0 /\ Len(lines') \in Nat
  BY <1>1
<1>3. Pre!Starts(lines') \subseteq 1..Len(lines')
  BY <1>1 DEF Pre!Starts
<1>4. {d \in Pre!Starts(lines') : d < 1} = {}
  BY <1>2, <1>3
<1>5. Cardinality({d \in Pre!Starts(lines') : d < 1}) = 0
  BY <1>4, FS_EmptySet
<1>6. Nest(lines', 1, 0) = 0
  <2>1. \A w : Pre!Count(lines', w, 1, 0) = 0
    <3>1. \A w : {l \in 1..0 : lines'[l] = w} = {}
      OBVIOUS
    <3> QED BY <3>1, PreCardinality, FS_EmptySet DEF Pre!Count
  <2> QED BY <2>1 DEF Nest
<1>7. \A d \in Pre!Starts(lines') : ~ d < 1
  BY <1>4
<1>8. stack' \in Seq(Pre!Branch({"null"})) /\ conditionals' \in Seq(Pre!Branch({"true", "false"}))
  BY <1>1
<1> QED BY <1>1, <1>2, <1>5, <1>6, <1>7, <1>8 DEF Scanned

LEMMA StepScan == ScanInv /\ Pre!Next => ScanInv'
<1> SUFFICES ASSUME ScanInv, Pre!Next PROVE ScanInv'
  OBVIOUS
<1>1. CASE Pre!Parse
  <2>1. /\ status = "called" /\ status' = "parsed" /\ parsed' = disk
        /\ UNCHANGED <<disk, lines, at, stack, conditionals>>
    BY <1>1 DEF Pre!Parse
  <2>2. PICK words \in {{"code"}, {"code", "if"}} : cursors' = Pre!Compiled(disk, holds', words)
    BY <1>1 DEF Pre!Parse
  <2>3. disk \in Files /\ disk \in Seq(Pre!Words)
    BY <2>1, PreprocessorAssumption DEF ScanInv, Pre!FilesAreLines
  <2>4. (\E w \in {{"code"}, {"code", "if"}} : cursors = Pre!Compiled(parsed, holds, w))'
    BY <2>1, <2>2
  <2> QED BY <2>1, <2>3, <2>4 DEF ScanInv, Pre!BranchesAreFound, Pre!ResultsFollowTheCode, Pre!Unedited
<1>2. CASE Pre!Edit
  <2>1. /\ status = "parsed" /\ disk = parsed /\ disk' \in Edits(disk)
        /\ UNCHANGED <<parsed, holds, cursors, lines, at, stack, conditionals, status>>
    BY <1>2 DEF Pre!Edit
  <2>2. disk \in Files /\ disk' \in Seq(Pre!Words)
    BY <2>1, PreprocessorAssumption DEF ScanInv, Pre!FilesAreLines
  <2>3. (\E w \in {{"code"}, {"code", "if"}} : cursors = Pre!Compiled(parsed, holds, w))'
    BY <2>1 DEF ScanInv
  <2> QED BY <2>1, <2>2, <2>3 DEF ScanInv, Pre!BranchesAreFound, Pre!ResultsFollowTheCode, Pre!Unedited
<1>3. CASE Pre!Read
  <2>1. /\ status = "parsed" /\ status' = "scanning"
        /\ UNCHANGED <<disk, parsed, holds, cursors, at, stack, conditionals>>
    BY <1>3 DEF Pre!Read
  <2>2. (\E w \in {{"code"}, {"code", "if"}} : cursors = Pre!Compiled(parsed, holds, w))'
    BY <2>1 DEF ScanInv
  <2>3. Scanned'
    BY <1>3, ReadScanned
  <2> QED BY <2>1, <2>2, <2>3 DEF ScanInv, Pre!BranchesAreFound, Pre!ResultsFollowTheCode, Pre!Unedited
<1>4. CASE Pre!Line
  <2>1. /\ status = "scanning" /\ UNCHANGED <<disk, parsed, holds, cursors, lines, status>>
    BY <1>4 DEF Pre!Line
  <2>2. (\E w \in {{"code"}, {"code", "if"}} : cursors = Pre!Compiled(parsed, holds, w))'
    BY <2>1 DEF ScanInv
  <2>3. Scanned'
    BY <1>4, <2>1, LineIsStep, StepScanned DEF ScanInv
  <2> QED BY <2>1, <2>2, <2>3 DEF ScanInv, Pre!BranchesAreFound, Pre!ResultsFollowTheCode, Pre!Unedited
<1>5. CASE Pre!Finish
  <2>1. /\ status = "scanning" /\ status' = "done"
        /\ UNCHANGED <<disk, parsed, holds, cursors, lines, at>>
    BY <1>5 DEF Pre!Finish
  <2>2. PICK words \in {{"code"}, {"code", "if"}} : cursors = Pre!Compiled(parsed, holds, words)
    BY <2>1 DEF ScanInv
  <2>3. (\E w \in {{"code"}, {"code", "if"}} : cursors = Pre!Compiled(parsed, holds, w))'
    BY <2>1, <2>2
  <2>4. Pre!BranchesAreFound' /\ Pre!ResultsFollowTheCode'
    BY <1>5, <2>1, <2>2, FinishFinds, FinishJudges DEF ScanInv
  <2> QED BY <2>1, <2>3, <2>4 DEF ScanInv
<1> QED BY <1>1, <1>2, <1>3, <1>4, <1>5 DEF Pre!Next

LEMMA NextPre == PreInv /\ [Next]_vars => PreInv'
<1> SUFFICES ASSUME PreInv, [Next]_vars PROVE PreInv'
  OBVIOUS
<1>1. CASE tool = "preprocessor" /\ Pre!Next /\ UNCHANGED tool
  BY <1>1, StepScan DEF PreInv
<1>2. CASE tool # "preprocessor" /\ UNCHANGED tool
  BY <1>2 DEF PreInv
<1>3. CASE UNCHANGED vars
  <2>1. UNCHANGED <<tool, status, disk, parsed, holds, cursors, lines, at, stack, conditionals>>
    BY <1>3 DEF vars, preprocessorVars
  <2>2. Scanned' <=> Scanned
    BY <2>1 DEF Scanned, Going, Deep, Unended, Kept, Recorded, Result
  <2>3. /\ Pre!BranchesAreFound' <=> Pre!BranchesAreFound
        /\ Pre!ResultsFollowTheCode' <=> Pre!ResultsFollowTheCode
    BY <2>1 DEF Pre!BranchesAreFound, Pre!ResultsFollowTheCode, Pre!Unedited
  <2> QED BY <2>1, <2>2, <2>3 DEF PreInv, ScanInv
<1> QED BY <1>1, <1>2, <1>3 DEF Next

LEMMA InitPre == Init => PreInv
  BY InitScan DEF Init, PreInv

(* The stack finds what counting finds: for every file, balanced or not,   *)
(* the scan of get_preprocessor_state gives each branch once, from the     *)
(* line at which it begins to the line at which it ends.                   *)
THEOREM ScanFindsBranches == Spec => []BranchesAreFound
<1>1. PreInv => BranchesAreFound
  BY DEF PreInv, ScanInv, BranchesAreFound
<1> QED BY <1>1, InitPre, NextPre, PTL DEF Spec

(* For every well-formed file that is scanned as it was parsed, no         *)
(* evaluated_result contradicts what the compiler did.                     *)
THEOREM GuessesAreRight == Spec => []ResultsFollowTheCode
<1>1. PreInv => ResultsFollowTheCode
  BY DEF PreInv, ScanInv, ResultsFollowTheCode
<1> QED BY <1>1, InitPre, NextPre, PTL DEF Spec
-----------------------------------------------------------------------------
(* get_references and get_header_info.  The places that are listed are     *)
(* those of the uses among the cursors that were visited, each once; and   *)
(* each line that is quoted is one of a state that the file has had.       *)

Quotes ==
    {[file |-> x.file, line |-> x.line, col |-> x.col,
      snippet |-> Sym!Snippet(v, x.file, x.line)] :
        x \in Sym!Cursor, v \in Sym!Versions \cup {Sym!Gone}}

Visited ==
    /\ uses \in Seq(Quotes) /\ next \in 1..(Len(Sym!Cursors) + 1)
    /\ Sym!Listed = {Sym!Place(Sym!Cursors[c]) : c \in {d \in Sym!Users : d < next}}
    /\ IsFiniteSet(Sym!Listed) /\ Cardinality(Sym!Listed) = Len(uses)
    /\ \A i, j \in DOMAIN uses : Sym!Place(uses[i]) = Sym!Place(uses[j]) => i = j
    /\ \A i \in DOMAIN uses :
          \E v \in seen : uses[i].snippet = Sym!Snippet(v, uses[i].file, uses[i].line)

UsesInv ==
    /\ Checked
    /\ status \in {"called", "parsed", "counted", "placed"} => uses = <<>> /\ next = 1
    /\ status = "located" => Visited
    /\ Sym!ReferencesAreUses

SymUsesInv == tool = "symbol" => UsesInv

LEMMA CursorFacts ==
  ASSUME unit \in Sym!Versions
  PROVE  /\ Sym!Cursors \in Seq(Sym!Cursor) /\ Len(Sym!Cursors) \in Nat \ {0}
         /\ DOMAIN Sym!Cursors = 1..Len(Sym!Cursors)
         /\ \A c \in DOMAIN Sym!Cursors :
               /\ Sym!Cursors[c] \in Sym!Cursor
               /\ Sym!Cursors[c].refers \in {0} \cup DOMAIN Sym!Cursors
<1>1. Programs \in Seq(Sym!Program) /\ unit \in DOMAIN Programs
  BY SymbolAssumption DEF Sym!ProgramsAreParsed, Sym!Versions
<1>2. Programs[unit] \in Sym!Program
  BY <1>1
<1>3. Sym!Cursors \in Seq(Sym!Cursor) /\ Sym!Cursors # <<>>
  BY <1>2 DEF Sym!Program, Sym!Cursors
<1>4. /\ Len(Sym!Cursors) \in Nat \ {0} /\ DOMAIN Sym!Cursors = 1..Len(Sym!Cursors)
      /\ \A c \in DOMAIN Sym!Cursors : Sym!Cursors[c] \in Sym!Cursor
  BY <1>3
<1>5. \A c \in DOMAIN Sym!Cursors : Sym!Cursors[c].refers \in {0} \cup DOMAIN Sym!Cursors
  BY <1>1, SymbolAssumption DEF Sym!ProgramsAreParsed, Sym!Cursors
<1> QED BY <1>3, <1>4, <1>5

(* What a cursor is a use of depends on the parse alone. *)
LEMMA SameUnit ==
  ASSUME UNCHANGED <<unit, found>>
  PROVE  Sym!Cursors' = Sym!Cursors /\ Sym!Users' = Sym!Users
  BY DEF Sym!Cursors, Sym!Users, Sym!IsUse, Sym!Target

LEMMA LocateVisited ==
  ASSUME UsesInv, Sym!Locate
  PROVE  Visited'
<1>1. /\ unit' = unit /\ unit \in Sym!Versions /\ uses' = <<>> /\ next' = 1
  BY DEF UsesInv, Checked, Sym!Locate
<1>2. Len(Sym!Cursors') \in Nat \ {0}
  BY <1>1, CursorFacts DEF Sym!Cursors
<1>3. Sym!Listed' = {}
  BY <1>1 DEF Sym!Listed
<1>4. (Sym!Users \subseteq DOMAIN Sym!Cursors)'
  BY DEF Sym!Users
<1>5. DOMAIN Sym!Cursors' = 1..Len(Sym!Cursors')
  BY <1>1, CursorFacts DEF Sym!Cursors
<1>6. {d \in Sym!Users' : d < 1} = {}
  BY <1>2, <1>4, <1>5
<1>7. uses' \in Seq(Quotes') /\ Len(uses') = 0 /\ DOMAIN uses' = {}
  BY <1>1
<1> QED BY <1>1, <1>2, <1>3, <1>6, <1>7, FS_EmptySet DEF Visited

LEMMA VisitVisited ==
  ASSUME UsesInv, Sym!Visit
  PROVE  Visited'
<1> DEFINE x == Sym!Cursors[next]
           n == Len(Sym!Cursors)
           q == [file |-> x.file, line |-> x.line, col |-> x.col,
                 snippet |-> Sym!Snippet(saved, x.file, x.line)]
           new == Sym!IsUse(x) /\ Sym!Place(x) \notin Sym!Listed
<1>1. /\ Visited /\ unit \in Sym!Versions /\ saved \in seen
      /\ saved \in Sym!Versions \cup {Sym!Gone}
      /\ next' = next + 1 /\ next \in Nat /\ next <= n /\ next \in 1..n
      /\ uses' = IF new THEN Append(uses, q) ELSE uses
      /\ UNCHANGED <<unit, found, seen>>
  <2>1. Visited /\ unit \in Sym!Versions /\ saved \in seen /\ saved \in Sym!Versions \cup {Sym!Gone}
    BY DEF UsesInv, Checked, Sym!Visit
  <2>2. next \in Nat /\ next \in 1..n /\ next <= n
    BY <2>1, CursorFacts DEF Visited, Sym!Visit
  <2> QED BY <2>1, <2>2 DEF Sym!Visit
<1>2. /\ n \in Nat \ {0} /\ x \in Sym!Cursor /\ DOMAIN Sym!Cursors = 1..n
      /\ Sym!Cursors' = Sym!Cursors /\ Sym!Users' = Sym!Users
  BY <1>1, CursorFacts, SameUnit
<1>3. next \in Sym!Users <=> Sym!IsUse(x)
  BY <1>1, <1>2 DEF Sym!Users
<1>4. {d \in Sym!Users : d < next + 1}
         = IF Sym!IsUse(x) THEN {d \in Sym!Users : d < next} \cup {next}
           ELSE {d \in Sym!Users : d < next}
  <2>1. Sym!Users \subseteq Nat
    BY <1>2 DEF Sym!Users
  <2>2. \A d \in Sym!Users : d < next + 1 <=> d < next \/ d = next
    BY <1>1, <2>1
  <2>3. ~ next < next
    BY <1>1
  <2> HIDE DEF x
  <2> QED BY <1>3, <2>2, <2>3
<1> DEFINE P(S) == {Sym!Place(Sym!Cursors[c]) : c \in S}
<1>5. Sym!Listed = P({d \in Sym!Users : d < next})
  BY <1>1 DEF Visited
<1>6. P({d \in Sym!Users : d < next + 1})
         = IF Sym!IsUse(x) THEN Sym!Listed \cup {Sym!Place(x)} ELSE Sym!Listed
  <2>1. \A S : P(S \cup {next}) = P(S) \cup {Sym!Place(x)}
    OBVIOUS
  <2> HIDE DEF P
  <2> QED BY <1>4, <1>5, <2>1
<1>7. (P({d \in Sym!Users : d < next}))' = P({d \in Sym!Users : d < next + 1})
  BY <1>1, <1>2
<1>8. CASE ~ new
  <2>1. uses' = uses
    BY <1>1, <1>8
  <2>2. Sym!Listed' = Sym!Listed
    BY <2>1 DEF Sym!Listed
  <2>3. Sym!Listed = P({d \in Sym!Users : d < next + 1})
    BY <1>6, <1>8
  <2>4. \A v, f, l : Sym!Snippet(v, f, l)' = Sym!Snippet(v, f, l)
    BY DEF Sym!Snippet, Sym!MainText
  <2> HIDE DEF P, new
  <2>5. Sym!Listed' = (P({d \in Sym!Users : d < next}))'
    BY <1>7, <2>2, <2>3
  <2>6. uses' \in Seq(Quotes) /\ Quotes' = Quotes
    BY <1>1, <2>1 DEF Visited
  <2>7. next' \in 1..(Len(Sym!Cursors') + 1)
    BY <1>1, <1>2
  <2> QED BY <1>1, <2>1, <2>2, <2>4, <2>5, <2>6, <2>7 DEF Visited, P
<1>9. CASE new
  <2>1. uses' = Append(uses, q)
    BY <1>1, <1>9
  <2>2. q \in Quotes
    BY <1>1, <1>2 DEF Quotes
  <2>3. q.file = x.file /\ q.line = x.line /\ q.col = x.col
        /\ q.snippet = Sym!Snippet(saved, q.file, q.line) /\ Sym!Place(q) = Sym!Place(x)
    BY DEF Sym!Place
  <2>4. PICK m \in Nat : m = Len(uses)
    <3>1. uses \in Seq(Quotes)
      BY <1>1 DEF Visited
    <3>2. Len(uses) \in Nat
      BY <3>1
    <3> QED BY <3>2
  <2>5. PICK z : z = q
    OBVIOUS
  <2>6. /\ uses' \in Seq(Quotes) /\ Len(uses') = m + 1 /\ DOMAIN uses' = 1..(m + 1)
        /\ uses'[m + 1] = z /\ DOMAIN uses = 1..m
        /\ \A i \in 1..m : uses'[i] = uses[i]
    <3>1. uses \in Seq(Quotes)
      BY <1>1 DEF Visited
    <3> HIDE DEF q
    <3> QED BY <2>1, <2>2, <2>4, <2>5, <3>1
  <2>7. Sym!Place(z) = Sym!Place(x) /\ Sym!Place(x) \notin Sym!Listed
        /\ z.snippet = Sym!Snippet(saved, z.file, z.line)
    BY <1>9, <2>3, <2>5
  <2>8. Sym!Listed' = Sym!Listed \cup {Sym!Place(x)}
    <3>1. Sym!Listed' = {Sym!Place(uses'[i]) : i \in 1..(m + 1)}
      BY <2>6 DEF Sym!Listed, Sym!Place
    <3>2. Sym!Listed = {Sym!Place(uses[i]) : i \in 1..m}
      BY <2>6 DEF Sym!Listed
    <3>3. \A i \in 1..(m + 1) : i \in 1..m \/ i = m + 1
      OBVIOUS
    <3>4. \A i \in 1..m : i \in 1..(m + 1)
      OBVIOUS
    <3>5. m + 1 \in 1..(m + 1)
      OBVIOUS
    <3> QED BY <2>6, <2>7, <3>1, <3>2, <3>3, <3>4, <3>5
  <2>9. Sym!Listed' = (P({d \in Sym!Users : d < next}))'
    BY <1>6, <1>7, <1>9, <2>8
  <2>10. IsFiniteSet(Sym!Listed') /\ Cardinality(Sym!Listed') = Len(uses')
    <3>1. IsFiniteSet(Sym!Listed) /\ Cardinality(Sym!Listed) = m
      BY <1>1, <2>4 DEF Visited
    <3> QED BY <2>6, <2>7, <2>8, <3>1, FS_AddElement
  <2>11. ASSUME NEW i \in DOMAIN uses', NEW j \in DOMAIN uses',
                Sym!Place(uses'[i]) = Sym!Place(uses'[j])
         PROVE  i = j
    <3>1. \A k \in 1..m : Sym!Place(uses'[k]) # Sym!Place(z)
      BY <2>6, <2>7 DEF Sym!Listed
    <3>2. CASE i \in 1..m /\ j \in 1..m
      BY <1>1, <2>6, <2>11, <3>2 DEF Visited
    <3>3. CASE i = m + 1 /\ j \in 1..m
      BY <2>6, <2>11, <3>1, <3>3
    <3>4. CASE i \in 1..m /\ j = m + 1
      BY <2>6, <2>11, <3>1, <3>4
    <3> QED BY <2>6, <3>2, <3>3, <3>4
  <2>12. ASSUME NEW i \in DOMAIN uses'
         PROVE  \E v \in seen : uses'[i].snippet = Sym!Snippet(v, uses'[i].file, uses'[i].line)
    <3>1. CASE i \in 1..m
      BY <1>1, <2>6, <3>1 DEF Visited
    <3>2. CASE i = m + 1
      BY <1>1, <2>6, <2>7, <3>2
    <3> QED BY <2>6, <3>1, <3>2
  <2>13. next' \in 1..(Len(Sym!Cursors') + 1) /\ Quotes' = Quotes /\ seen' = seen
    BY <1>1, <1>2
  <2> HIDE DEF P, q, new
  <2>14. (\A i, j \in DOMAIN uses : Sym!Place(uses[i]) = Sym!Place(uses[j]) => i = j)'
    BY <2>11 DEF Sym!Place
  <2>15. (\A i \in DOMAIN uses :
             \E v \in seen : uses[i].snippet = Sym!Snippet(v, uses[i].file, uses[i].line))'
    BY <2>12, <2>13
  <2> QED BY <2>6, <2>9, <2>10, <2>13, <2>14, <2>15 DEF Visited, P
<1> QED BY <1>8, <1>9

LEMMA ReturnLists ==
  ASSUME UsesInv, Sym!ReturnReferences
  PROVE  Sym!ReferencesAreUses'
<1> DEFINE over == Len(uses) > Limit
           a == [references |-> SubSeq(uses, 1, IF over THEN Limit ELSE Len(uses)),
                 truncated |-> over, omitted |-> IF over THEN Len(uses) - Limit ELSE 0]
           places == {Sym!Place(Sym!Cursors[c]) : c \in Sym!Users}
<1>1. /\ Visited /\ unit \in Sym!Versions /\ next > Len(Sym!Cursors) /\ answer' = a
      /\ UNCHANGED <<query, unit, seen, saved, found>> /\ Limit \in Nat
  <2>1. answer' = a /\ UNCHANGED <<query, unit, seen, saved, found>>
    BY DEF Sym!ReturnReferences, Sym!Reply
  <2>2. Limit \in Nat
    BY SymbolAssumption DEF Sym!QueriesAreQueries
  <2> HIDE DEF a
  <2> QED BY <2>1, <2>2 DEF UsesInv, Checked, Sym!ReturnReferences
<1>2. uses \in Seq(Quotes) /\ Len(uses) \in Nat /\ DOMAIN uses = 1..Len(uses)
  <2>1. uses \in Seq(Quotes)
    BY <1>1 DEF Visited
  <2> QED BY <2>1
<1>3. places = Sym!Listed /\ Cardinality(places) = Len(uses)
  <2>1. {d \in Sym!Users : d < next} = Sym!Users
    <3>1. Len(Sym!Cursors) \in Nat /\ DOMAIN Sym!Cursors = 1..Len(Sym!Cursors) /\ next \in Nat
      BY <1>1, CursorFacts DEF Visited
    <3> QED BY <1>1, <3>1 DEF Sym!Users
  <2> QED BY <1>1, <2>1 DEF Visited
<1>4. PICK m \in Nat : m = (IF over THEN Limit ELSE Len(uses)) /\ m <= Len(uses)
  <2>1. Limit \in Nat /\ Len(uses) \in Nat
    BY <1>1, <1>2
  <2> QED BY <2>1
<1>5. PICK b, list : b = a /\ list = b.references
  OBVIOUS
<1>6. /\ Len(list) = m /\ DOMAIN list = 1..m
      /\ \A i \in 1..m : i \in DOMAIN uses /\ list[i] = uses[i]
  <2>1. list = SubSeq(uses, 1, m)
    BY <1>4, <1>5
  <2>2. \A i \in 1..m : uses[i] \in Quotes /\ i \in DOMAIN uses
    <3>1. PICK n \in Nat : n = Len(uses)
      BY <1>2
    <3>2. m <= n
      BY <1>4, <3>1
    <3>3. \A i \in 1..m : i \in 1..n
      BY <3>2
    <3> QED BY <1>2, <3>1, <3>3
  <2>3. /\ list \in Seq(Quotes) /\ Len(list) = IF 1 <= m THEN m - 1 + 1 ELSE 0
        /\ \A i \in 1..(m - 1 + 1) : list[i] = uses[1 + i - 1]
    BY <2>1, <2>2, SubSeqProperties
  <2>4. Len(list) = m /\ \A i \in 1..m : list[i] = uses[i]
    BY <2>3
  <2>5. DOMAIN list = 1..Len(list)
    BY <2>3
  <2> QED BY <2>2, <2>4, <2>5
<1>7. b.truncated = over /\ b.omitted = IF over THEN Len(uses) - Limit ELSE 0
  BY <1>5
<1>8. /\ m + b.omitted = Len(uses)
      /\ b.truncated <=> m < Len(uses)
      /\ b.truncated => m = Limit
  <2>1. PICK n \in Nat, k \in Nat : n = Len(uses) /\ k = Limit
    BY <1>1, <1>2
  <2>2. /\ m = IF n > k THEN k ELSE n
        /\ b.truncated = (n > k) /\ b.omitted = IF n > k THEN n - k ELSE 0
    BY <1>4, <1>7, <2>1
  <2>3. CASE n > k
    <3>1. m = k /\ b.truncated = TRUE /\ b.omitted = n - k
      BY <2>2, <2>3
    <3>2. m < n
      BY <2>3, <3>1
    <3>3. k + (n - k) = n
      OBVIOUS
    <3> QED BY <2>1, <3>1, <3>2, <3>3
  <2>4. CASE ~ (n > k)
    <3>1. (n > k) = FALSE
      BY <2>4
    <3>2. m = n /\ b.truncated = FALSE /\ b.omitted = 0
      BY <2>2, <3>1, Zenon
    <3>3. ~ (m < n) /\ n + 0 = n
      BY <3>2
    <3> QED BY <2>1, <3>2, <3>3
  <2> QED BY <2>3, <2>4
<1>9. \A i \in 1..m : Sym!Place(list[i]) \in places
  BY <1>3, <1>6 DEF Sym!Listed
<1>10. \A i, j \in 1..m : Sym!Place(list[i]) = Sym!Place(list[j]) => i = j
  BY <1>1, <1>6 DEF Visited
<1>11. \A i \in 1..m : \E v \in seen : list[i].snippet = Sym!Snippet(v, list[i].file, list[i].line)
  BY <1>1, <1>6 DEF Visited
<1>12. answer' = b /\ Sym!Cursors' = Sym!Cursors /\ Sym!Users' = Sym!Users /\ seen' = seen
  BY <1>1, <1>5, SameUnit
<1>13. /\ \A i \in DOMAIN list : Sym!Place(list[i]) \in places
       /\ \A i, j \in DOMAIN list : Sym!Place(list[i]) = Sym!Place(list[j]) => i = j
       /\ Len(list) + b.omitted = Sym!Cardinality(places)
       /\ b.truncated <=> Len(list) < Sym!Cardinality(places)
       /\ b.truncated => Len(list) = Limit
       /\ \A i \in DOMAIN list :
             \E v \in seen : list[i].snippet = Sym!Snippet(v, list[i].file, list[i].line)
  <2> HIDE DEF places
  <2> QED BY <1>3, <1>6, <1>8, <1>9, <1>10, <1>11, SymCardinality
<1>14. answer'.references = list /\ answer' = b
  BY <1>5, <1>12
<1> HIDE DEF a, over
<1> QED BY <1>12, <1>13, <1>14 DEF Sym!ReferencesAreUses, Sym!Place

LEMMA InitUses == Sym!Init => UsesInv
  BY InitChecked DEF Sym!Init, UsesInv, Sym!ReferencesAreUses

LEMMA StepUses == UsesInv /\ Sym!Next => UsesInv'
<1> SUFFICES ASSUME UsesInv, Sym!Next PROVE UsesInv'
  OBVIOUS
<1>1. Checked'
  BY StepChecked DEF UsesInv
<1> USE DEF UsesInv, Sym!ReferencesAreUses
<1>2. CASE Sym!Parse
  BY <1>1, <1>2 DEF Sym!Parse
<1>3. CASE Sym!Edit
  <2>1. /\ status \in {"parsed", "counted", "placed", "located"} /\ seen \subseteq seen'
        /\ UNCHANGED <<query, status, unit, found, next, uses, answer>>
    BY <1>3 DEF Sym!Edit
  <2>2. Sym!Users' = Sym!Users /\ Sym!Cursors' = Sym!Cursors /\ Sym!Listed' = Sym!Listed
    BY <2>1, SameUnit DEF Sym!Listed
  <2>3. Quotes' = Quotes /\ \A v, f, l : Sym!Snippet(v, f, l)' = Sym!Snippet(v, f, l)
    BY DEF Sym!Snippet, Sym!MainText
  <2>4. Visited => Visited'
    BY <2>1, <2>2, <2>3 DEF Visited
  <2> QED BY <1>1, <2>1, <2>4
<1>4. CASE Sym!CountLines \/ Sym!Measure
  <2>1. /\ status \in {"parsed", "counted"} /\ UNCHANGED <<uses, next>>
        /\ status' \in {"counted", "placed", "INVALID_POSITION"}
    BY <1>4 DEF Sym!CountLines, Sym!Measure, Sym!Proceed
  <2> QED BY <1>1, <2>1
<1>5. CASE Sym!Locate
  <2>1. Visited' /\ status' \in {"located", "INVALID_POSITION"}
    BY <1>5, LocateVisited DEF Sym!Locate, Sym!Proceed
  <2> QED BY <1>1, <2>1
<1>6. CASE Sym!Define \/ Sym!DescribeType
  <2>1. status' = "done" /\ query' = query /\ query.tool \in {"get_definition", "get_type_info"}
    BY <1>6 DEF Sym!Define, Sym!DescribeType, Sym!Reply
  <2> QED BY <1>1, <2>1
<1>7. CASE Sym!Visit
  <2>1. Visited' /\ status' = "located"
    BY <1>7, VisitVisited DEF Sym!Visit
  <2> QED BY <1>1, <2>1
<1>8. CASE Sym!ReturnReferences
  <2>1. status' = "done" /\ query' = query /\ query.tool = "get_references"
    BY <1>8 DEF Sym!ReturnReferences, Sym!Reply
  <2>2. Sym!ReferencesAreUses'
    BY <1>8, ReturnLists
  <2> QED BY <1>1, <2>1, <2>2
<1>9. CASE Sym!InspectHeader
  <2>1. status' = "done" /\ query' = query /\ query.tool = "get_header_info"
    BY <1>9 DEF Sym!InspectHeader, Sym!Reply
  <2> QED BY <1>1, <2>1
<1> QED BY <1>2, <1>3, <1>4, <1>5, <1>6, <1>7, <1>8, <1>9 DEF Sym!Next

LEMMA NextSymUses == SymUsesInv /\ [Next]_vars => SymUsesInv'
<1> SUFFICES ASSUME SymUsesInv, [Next]_vars PROVE SymUsesInv'
  OBVIOUS
<1>1. CASE tool = "symbol" /\ Sym!Next /\ UNCHANGED tool
  BY <1>1, StepUses DEF SymUsesInv
<1>2. CASE tool # "symbol" /\ UNCHANGED tool
  BY <1>2 DEF SymUsesInv
<1>3. CASE UNCHANGED vars
  <2>1. UNCHANGED <<tool, status, query, saved, unit, seen, found, next, uses, answer>>
    BY <1>3 DEF vars, symbolVars
  <2>2. SymInv => SymInv'
    BY <1>3, NextSym
  <2>3. Sym!Users' = Sym!Users /\ Sym!Cursors' = Sym!Cursors /\ Sym!Listed' = Sym!Listed
    BY <2>1, SameUnit DEF Sym!Listed
  <2>4. Visited' <=> Visited
    BY <2>1, <2>3 DEF Visited, Quotes, Sym!Place, Sym!Snippet, Sym!MainText
  <2>5. Sym!ReferencesAreUses' <=> Sym!ReferencesAreUses
    BY <2>1, <2>3 DEF Sym!ReferencesAreUses, Sym!Place, Sym!Snippet, Sym!MainText
  <2> QED BY <2>1, <2>2, <2>4, <2>5 DEF SymUsesInv, UsesInv, SymInv
<1> QED BY <1>1, <1>2, <1>3 DEF Next

LEMMA InitSymUses == Init => SymUsesInv
  BY InitUses DEF Init, SymUsesInv

(* Each place of use once, the rest counted, and no line quoted that the   *)
(* file did not have: for every program, and however it is edited          *)
(* meanwhile.                                                              *)
THEOREM ListsEachUseOnce == Spec => []ReferencesAreUses
<1>1. SymUsesInv => ReferencesAreUses
  BY DEF SymUsesInv, UsesInv, ReferencesAreUses
<1> QED BY <1>1, InitSymUses, NextSymUses, PTL DEF Spec
=============================================================================
