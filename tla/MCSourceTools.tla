---------------------------- MODULE MCSourceTools ----------------------------
EXTENDS SourceTools

CONSTANT MaxLines

(* get_ast: all shapes of trees of up to four cursors, on lines 1 and 2, of *)
(* which every other one is two bytes long.                                 *)

(* The cursors that the next one may be under: the last and all above it. *)
Open(t) ==
    LET open[c \in DOMAIN t] == {c} \cup (IF c = 1 THEN {} ELSE open[t[c].up])
    IN  open[Len(t)]

Spans == {<<1, 1>>, <<2, 2>>, <<1, 2>>}

At(up, span, c) == [up |-> up, first |-> span[1], last |-> span[2], size |-> 1 + (c % 2)]

Grow(t) == {Append(t, At(p, s, Len(t) + 1)) : p \in Open(t), s \in Spans}

SmallTrees ==
    LET trees[n \in 1..4] ==
          IF n = 1 THEN {<<At(0, s, 1)>> : s \in Spans}
          ELSE UNION {Grow(t) : t \in trees[n - 1]}
    IN  UNION {trees[n] : n \in 1..4}

Ranges == {<<NoLine, NoLine>>, <<1, 1>>, <<2, NoLine>>, <<NoLine, 1>>, <<2, 1>>}
Budgets == {<<9, 9>>, <<2, 9>>, <<4, 9>>, <<9, 4>>, <<2, 3>>}
Formats == {<<"graph", 1>>, <<"json", 1>>, <<"json", 2>>}

SomeAsks ==
    {[format |-> f[1], depth |-> f[2], start |-> r[1], end |-> r[2],
      maxNodes |-> b[1], maxBytes |-> b[2], fatal |-> b = <<9, 4>>] :
        f \in Formats, r \in Ranges, b \in Budgets}

-----------------------------------------------------------------------------
(* get_preprocessor_state: all files of up to MaxLines lines, and an editor *)
(* that inserts a line at the top or deletes the first one.                 *)

Directives == {"if", "elif", "else", "endif"}
SmallFiles == UNION {[1..n -> Directives \cup {"code", "blank"}] : n \in 0..MaxLines}

ShiftByOne(t) == {<<"blank">> \o t} \cup (IF t = <<>> THEN {} ELSE {Tail(t)})

-----------------------------------------------------------------------------
(* The symbol tools: four states of main.cpp.  Its headers declare g, k    *)
(* and h, the last of which uses the others; main.cpp declares g once more *)
(* and defines f, which calls g and uses h.  The second state has a line   *)
(* less at the top, the third is empty, and the fourth has a form feed on  *)
(* the first line and a character of two bytes before the call of g.       *)

Declared(up, file, line, usr, i) ==
    [up |-> up, file |-> file, line |-> line, col |-> 1, public |-> TRUE, usr |-> usr,
     refers |-> i, defined |-> 0, size |-> 0]
Using(up, file, line, col, i) ==
    [up |-> up, file |-> file, line |-> line, col |-> col, public |-> FALSE, usr |-> "",
     refers |-> i, defined |-> 0, size |-> 4]

Whole == [up |-> 0, file |-> "", line |-> 0, col |-> 0, public |-> FALSE, usr |-> "",
          refers |-> 0, defined |-> 0, size |-> -1]

(* What main.cpp yields when f begins on line l and calls g at column c. *)
Program(l, c) ==
    <<Whole,
      Declared(1, "a.h", 1, "g", 2),
      Declared(1, "c.h", 1, "k", 3),
      Declared(1, "b.h", 1, "h", 4), Using(4, "b.h", 1, 2, 2), Using(4, "b.h", 1, 3, 3),
      Declared(1, "main.cpp", l - 1, "g", 7),
      [Declared(1, "main.cpp", l, "f", 8) EXCEPT !.defined = 8],
      Using(8, "main.cpp", l, c, 7), Using(9, "main.cpp", l, c, 7),
      Using(8, "main.cpp", l + 1, 1, 8), Using(8, "main.cpp", l + 1, 2, 4)>>

Chars(line) == [i \in DOMAIN line |-> [cursor |-> line[i], is |-> "char"]]
Other(c, is) == <<[cursor |-> c, is |-> is]>>

SourceText == <<Chars(<<1>>), Chars(<<7, 1>>), Chars(<<8, 10, 8>>), Chars(<<11, 12, 1>>)>>
WideText ==
    [SourceText EXCEPT ![1] = Other(1, "split") \o Chars(<<1>>),
                       ![3] = Chars(<<8>>) \o Other(8, "rest") \o Chars(<<10, 8>>)]

Included ==
    <<[file |-> "a.h", depth |-> 1], [file |-> "c.h", depth |-> 1],
      [file |-> "b.h", depth |-> 2], [file |-> "b.h", depth |-> 1]>>

Saves ==
    <<[text |-> SourceText, cursors |-> Program(3, 2), includes |-> Included],
      [text |-> Tail(SourceText), cursors |-> Program(2, 2), includes |-> Included],
      [text |-> <<>>, cursors |-> <<Whole>>, includes |-> <<>>],
      [text |-> WideText, cursors |-> Program(3, 3), includes |-> Included]>>

HeaderText == [f \in {"a.h", "b.h", "c.h"} |-> <<Chars(<<2, 2, 2>>)>>]

SomeQueries ==
    [tool : {"get_definition", "get_type_info", "get_references"}, line : 0..5, col : 0..5]
        \cup {[tool |-> "get_header_info", line |-> 0, col |-> 0]}
=============================================================================
