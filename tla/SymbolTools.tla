----------------------------- MODULE SymbolTools -----------------------------
(***************************************************************************)
(* The tools that name symbols: get_definition, get_type_info and          *)
(* get_references at a position of a source file, through core/cursor.py,  *)
(* and get_header_info of the whole file.                                  *)
(*                                                                         *)
(* A call parses the file, or finds it parsed, and from then on asks the   *)
(* translation unit; but cursor_at reads the file twice more to judge the  *)
(* position, and get_references once for each reference it quotes, while   *)
(* an editor may save the file.  A program is one state of the file with   *)
(* what libclang makes of it: its cursors in the order of the walk, the    *)
(* TRANSLATION_UNIT first, and its inclusions.                             *)
(*                                                                         *)
(* The text is what both libclang and Python read, in their own ways.  To  *)
(* libclang a line ends at a line break only, and a column is a byte; the  *)
(* checks of a position, and the quotes, are of what str.splitlines() and  *)
(* len() make of the text, for which some characters end a line that to    *)
(* libclang goes on, and a character may be several bytes.                 *)
(***************************************************************************)
EXTENDS Integers, Sequences, FiniteSets

CONSTANTS
    Programs,   \* a sequence: the states of the source file
    Headers,    \* Headers[f]: the text of header f
    Main,       \* the source file's name
    NoFile,     \* where the TRANSLATION_UNIT is
    NoUsr,      \* the USR of an expression
    Queries,    \* calls of the tools
    Limit       \* _MAX_REFERENCES

Gone == 0       \* the file cannot be read
Versions == DOMAIN Programs

(* A byte: the first of a character, or the last of one that ends a line   *)
(* for Python alone, such as a form feed, or any other.                    *)
Byte == [cursor: Nat \ {0}, is: {"char", "split", "rest"}]

(* The lines of libclang, each with its line break as the last byte. *)
Text == Seq(Seq(Byte) \ {<<>>})

Cursor ==
    [up: Nat, file: DOMAIN Headers \cup {Main, NoFile}, line: Nat, col: Nat,
     public: BOOLEAN,       \* of one of the _EXPORTED_KINDS
     usr: STRING,
     refers: Nat, defined: Nat,     \* places of other cursors, or 0
     size: Int]
Program ==
    [text: Text, cursors: Seq(Cursor) \ {<<>>},
     includes: Seq([file: DOMAIN Headers, depth: Nat \ {0}])]

PositionTools == {"get_definition", "get_type_info", "get_references"}
Query == [tool: PositionTools \cup {"get_header_info"}, line: Int, col: Int]

(* SourceTools assumes these of the constants. *)
ProgramsAreParsed ==
    /\ Programs \in Seq(Program)
    /\ \A v \in Versions : \A l \in DOMAIN Programs[v].text :
          \A c \in DOMAIN Programs[v].text[l] :
             Programs[v].text[l][c].cursor \in DOMAIN Programs[v].cursors
    /\ \A v \in Versions : \A c \in DOMAIN Programs[v].cursors :
          {Programs[v].cursors[c].refers, Programs[v].cursors[c].defined}
              \subseteq {0} \cup DOMAIN Programs[v].cursors
QueriesAreQueries == Queries \subseteq Query /\ Limit \in Nat

VARIABLES
    query,
    status,     \* how far the call is
    saved,      \* the state of the file
    unit,       \* the state that was parsed
    seen,       \* states the file had since the call first read it (history)
    found,      \* cursor_at's cursor
    next,       \* the walk's next cursor
    uses,       \* references so far
    answer

vars == <<query, status, saved, unit, seen, found, next, uses, answer>>

Cursors == Programs[unit].cursors
Target  == Cursors[found].usr

Init ==
    /\ query \in Queries
    /\ status = "called"
    /\ saved \in Versions
    /\ unit = Gone /\ seen = {}
    /\ found = 0 /\ next = 1 /\ uses = <<>> /\ answer = <<>>

-----------------------------------------------------------------------------
(* The file. *)

(* It is parsed, or comes from the cache. *)
Parse ==
    /\ status = "called"
    /\ unit' = saved
    /\ status' = "parsed"
    /\ UNCHANGED <<query, saved, seen, found, next, uses, answer>>

Edit ==
    /\ status \in {"parsed", "counted", "placed", "located"}
    /\ saved' \in (Versions \cup {Gone}) \ {saved}
    /\ seen' = IF status = "parsed" THEN seen ELSE seen \cup {saved'}
    /\ UNCHANGED <<query, status, unit, found, next, uses, answer>>

MainText(v) == IF v = Gone THEN <<>> ELSE Programs[v].text

Places(text) == UNION {{l} \X DOMAIN text[l] : l \in DOMAIN text}
ByteAt(text, p) == text[p[1]][p[2]]

Splits(text) == {p \in Places(text) : ByteAt(text, p).is = "split"}
Precedes(p, q) == p[1] < q[1] \/ (p[1] = q[1] /\ p[2] < q[2])

(* The line of Python's that the byte at p is on, and all bytes of one. *)
LineOf(text, p) == p[1] + Cardinality({q \in Splits(text) : Precedes(q, p)})
OnLine(text, l) == {p \in Places(text) : LineOf(text, p) = l}

LineCount(v) ==
    LET text == MainText(v)
    IN  IF text = <<>> THEN 1 ELSE Len(text) + Cardinality(Splits(text))

(* Its characters, without the line break. *)
LineLength(v, l) ==
    LET text == MainText(v)
    IN  Cardinality({p \in OnLine(text, l) :
                        p[2] < Len(text[p[1]]) /\ ByteAt(text, p).is = "char"})

-----------------------------------------------------------------------------
(* cursor_at *)

Proceed(ok, then) == status' = IF ok THEN then ELSE "INVALID_POSITION"

(* Mutant of CountLines: only the column is checked, by Measure. *)
CountLinesNot ==
    /\ status = "parsed" /\ query.tool \in PositionTools
    /\ Proceed(query.line >= 1 /\ query.col >= 1 /\ saved # Gone, "counted")
    /\ seen' = {saved}
    /\ UNCHANGED <<query, saved, unit, found, next, uses, answer>>

(* The line is checked against one reading of the file ... *)
CountLines ==
    /\ status = "parsed" /\ query.tool \in PositionTools
    /\ Proceed(query.line >= 1 /\ query.col >= 1 /\ saved # Gone
                /\ query.line <= LineCount(saved), "counted")
    /\ seen' = {saved}
    /\ UNCHANGED <<query, saved, unit, found, next, uses, answer>>

(* ... and the column against another, which may lack the line. *)
Measure ==
    /\ status = "counted"
    /\ Proceed(saved # Gone /\ query.col <= LineLength(saved, query.line) + 1, "placed")
    /\ UNCHANGED <<query, saved, unit, seen, found, next, uses, answer>>

(* libclang takes what is beyond a line for its end, and what is beyond    *)
(* the file for the end of that, where nothing but the whole file is.      *)
CursorAt(v, l, c) ==
    IF l \notin DOMAIN MainText(v) THEN 1
    ELSE LET line == MainText(v)[l] IN line[IF c <= Len(line) THEN c ELSE Len(line)].cursor

(* Mutant of Locate: the cursor of the whole file is as good as any. *)
LocateAny ==
    /\ status = "placed"
    /\ found' = CursorAt(unit, query.line, query.col)
    /\ status' = "located"
    /\ UNCHANGED <<query, saved, unit, seen, next, uses, answer>>
Locate ==
    /\ status = "placed"
    /\ found' = CursorAt(unit, query.line, query.col)
    /\ Proceed(found' # 1, "located")
    /\ UNCHANGED <<query, saved, unit, seen, next, uses, answer>>

-----------------------------------------------------------------------------
(* What the tools say of the cursor. *)

Reply(a) ==
    /\ answer' = a
    /\ status' = "done"
    /\ UNCHANGED <<query, saved, unit, seen, found, next, uses>>

Define ==
    /\ status = "located" /\ query.tool = "get_definition"
    /\ LET d == Cursors[found].defined
           here == d # 0 /\ Cursors[d].file # NoFile
       IN  Reply([found |-> here, cursor |-> IF here THEN d ELSE 0,
                  usr |-> IF here THEN Cursors[d].usr ELSE Target])

(* _safe_size: libclang's error codes, and zero, are no size. *)
DescribeType ==
    /\ status = "located" /\ query.tool = "get_type_info"
    /\ Reply([cursor |-> found,
              size |-> IF Cursors[found].size > 0 THEN {Cursors[found].size} ELSE {}])

Place(x) == <<x.file, x.line, x.col>>
Listed == {Place(uses[i]) : i \in DOMAIN uses}

IsUse(x) ==
    /\ x.file # NoFile /\ x.usr # Target
    /\ x.refers # 0 /\ Cursors[x.refers].usr = Target

(* _context_snippet: the line as it is on disk by now. *)
Snippet(v, f, l) ==
    LET text == IF f = Main THEN MainText(v) ELSE Headers[f]
    IN  [p \in OnLine(text, l) |-> ByteAt(text, p)]

(* Mutant of Visit: a place is listed once for each cursor there. *)
VisitAll ==
    /\ status = "located" /\ query.tool = "get_references" /\ next <= Len(Cursors)
    /\ LET x == Cursors[next] IN
       uses' = IF IsUse(x)
               THEN Append(uses, [file |-> x.file, line |-> x.line, col |-> x.col,
                                  snippet |-> Snippet(saved, x.file, x.line)])
               ELSE uses
    /\ next' = next + 1
    /\ UNCHANGED <<query, status, saved, unit, seen, found, answer>>

(* _collect_references, one cursor of the walk. *)
Visit ==
    /\ status = "located" /\ query.tool = "get_references" /\ next <= Len(Cursors)
    /\ LET x == Cursors[next] IN
       uses' = IF IsUse(x) /\ Place(x) \notin Listed
               THEN Append(uses, [file |-> x.file, line |-> x.line, col |-> x.col,
                                  snippet |-> Snippet(saved, x.file, x.line)])
               ELSE uses
    /\ next' = next + 1
    /\ UNCHANGED <<query, status, saved, unit, seen, found, answer>>

ReturnReferences ==
    /\ status = "located" /\ query.tool = "get_references" /\ next > Len(Cursors)
    /\ LET over == Len(uses) > Limit IN
       Reply([references |-> SubSeq(uses, 1, IF over THEN Limit ELSE Len(uses)),
              truncated |-> over, omitted |-> IF over THEN Len(uses) - Limit ELSE 0])

-----------------------------------------------------------------------------
(* get_header_info *)

Inclusions == {Programs[unit].includes[i] : i \in DOMAIN Programs[unit].includes}
Direct == {i.file : i \in {j \in Inclusions : j.depth = 1}}

DeclaredIn(f) == {Cursors[c].usr : c \in {d \in DOMAIN Cursors : Cursors[d].file = f}} \ {NoUsr}

(* _collect_usrs_in_main_file *)
Referenced ==
    {Cursors[Cursors[c].refers].usr :
        c \in {d \in DOMAIN Cursors : Cursors[d].file = Main /\ Cursors[d].refers # 0}} \ {NoUsr}

Orphaned == {f \in Direct : DeclaredIn(f) # {} /\ DeclaredIn(f) \cap Referenced = {}}

(* _collect_exported_symbols returns at a cursor that is in no file or of  *)
(* another kind, without a look at its children.                           *)
Exported ==
    LET passed(c) == Cursors[c].file # NoFile /\ Cursors[c].public
        above(a, c) == \A d \in (a + 1)..c : Cursors[d].up >= a
    IN  {c \in DOMAIN Cursors : \A a \in 1..c : above(a, c) => passed(a)}

InspectHeader ==
    /\ status = "parsed" /\ query.tool = "get_header_info"
    /\ Reply([direct |-> Direct, transitive |-> {i.file : i \in Inclusions},
              orphaned |-> Orphaned, exported |-> Exported])

Next ==
    \/ Parse \/ Edit \/ CountLines \/ Measure \/ Locate
    \/ Define \/ DescribeType \/ Visit \/ ReturnReferences \/ InspectHeader

Spec == Init /\ [][Next]_vars

-----------------------------------------------------------------------------
InRange(v, l, c) == l \in 1..LineCount(v) /\ c \in 1..(LineLength(v, l) + 1)

(* A position that is not rejected was one of the file, all of it in one   *)
(* state that the file had while it was checked, though its line and its   *)
(* column are checked against two readings that may differ.                *)
AcceptedWasInRange ==
    status \in {"placed", "located"} =>
        \E v \in seen \ {Gone} : InRange(v, query.line, query.col)

(* While nobody saves the file, INVALID_POSITION is the answer to those    *)
(* positions that are not in the file or at which there is nothing, and    *)
(* the symbol that any other answer is about is the one at the position,   *)
(* as the translation unit has it.                                         *)
Exact ==
    LET there == /\ query.line \in DOMAIN MainText(unit)
                 /\ query.col \in 1..Len(MainText(unit)[query.line])
        at == CursorAt(unit, query.line, query.col)
        symbol == there /\ at # 1
    IN  seen = {unit} =>
            /\ status = "INVALID_POSITION" => ~ symbol
            /\ status \in {"located", "done"} => symbol /\ found = at

(* Each byte is a character, and one that ends a line for both or neither. *)
Plain(text) == \A p \in Places(text) : ByteAt(text, p).is = "char"

PlainIsExact == unit # Gone /\ Plain(MainText(unit)) => Exact

Users == {c \in DOMAIN Cursors : IsUse(Cursors[c])}

(* get_references lists each place at which the symbol is used once, as    *)
(* many as the limit lets and counting the others, and quotes a line of a  *)
(* state the file had by then, or nothing if one had no such line.         *)
ReferencesAreUses ==
    status = "done" /\ query.tool = "get_references" =>
        LET places == {Place(Cursors[c]) : c \in Users}
            list == answer.references
        IN  /\ \A i \in DOMAIN list : Place(list[i]) \in places
            /\ \A i, j \in DOMAIN list : Place(list[i]) = Place(list[j]) => i = j
            /\ Len(list) + answer.omitted = Cardinality(places)
            /\ answer.truncated <=> Len(list) < Cardinality(places)
            /\ answer.truncated => Len(list) = Limit
            /\ \A i \in DOMAIN list :
                  \E v \in seen : list[i].snippet = Snippet(v, list[i].file, list[i].line)

(* "Collect top-level non-system symbols from tu's cursor"                 *)
(* (get_header_info.py, line 52).                                          *)
ExportsTopLevel ==
    status = "done" /\ query.tool = "get_header_info" =>
        \A c \in DOMAIN Cursors :
            Cursors[c].up = 1 /\ Cursors[c].file # NoFile /\ Cursors[c].public =>
                c \in answer.exported
=============================================================================
