---------------------------- MODULE Preprocessor ----------------------------
(***************************************************************************)
(* get_preprocessor_state (tools/get_preprocessor_state.py): the           *)
(* conditional branches of a source file.                                  *)
(*                                                                         *)
(* The branches are found by a scan, line by line with a stack, of the     *)
(* file as it is on disk by then; whether one was compiled is guessed from *)
(* the lines at which the translation unit, parsed earlier, has cursors.   *)
(*                                                                         *)
(* A line is the word that matters: a directive, "code" at which a cursor  *)
(* begins (a #define has one too), or "blank" (all else).                  *)
(***************************************************************************)
EXTENDS Integers, Sequences, FiniteSets, FiniteSetsExt

CONSTANTS
    Files,      \* contents of a source file
    Edits(_)    \* Edits(t): what an editor may save in place of t

Words == {"if", "elif", "else", "endif", "code", "blank"}

(* SourceTools assumes this of the constants. *)
FilesAreLines ==
    /\ Files \subseteq Seq(Words)
    /\ \A t \in Files : Edits(t) \subseteq Seq(Words)

VARIABLES
    disk,       \* the source file
    parsed,     \* what libclang parsed
    holds,      \* the lines of parsed whose condition holds
    cursors,    \* lines of parsed at which the translation unit has a cursor
    lines,      \* what the scan read
    at,         \* lines before this one are scanned
    stack,      \* branches that are open, the innermost last
    conditionals,
    status

vars == <<disk, parsed, holds, cursors, lines, at, stack, conditionals, status>>

Branch(results) == [word: {"if", "elif", "else"}, start: Nat, end: Nat, result: results]

Init ==
    /\ disk \in Files
    /\ parsed = <<>> /\ holds = {} /\ cursors = {}
    /\ lines = <<>> /\ at = 1
    /\ stack = <<>> /\ conditionals = <<>>
    /\ status = "called"

-----------------------------------------------------------------------------
(* What the directives of t mean, said without a stack.                    *)

Count(t, word, a, b) == Cardinality({l \in a..b : t[l] = word})

(* Every #endif in a..b closes an #if in a..b, and every #if is closed. *)
Balanced(t, a, b) ==
    /\ \A l \in a..b : Count(t, "endif", a, l) <= Count(t, "if", a, l)
    /\ Count(t, "endif", a, b) = Count(t, "if", a, b)

(* The line at which the branch that begins at d ends. *)
Bound(t, d) ==
    Min({e \in (d + 1)..Len(t) : t[e] \in {"elif", "else", "endif"} /\ Balanced(t, d + 1, e - 1)}
        \cup {Len(t) + 1})

(* Lines at which a branch begins: an #elif or #else needs an open #if. *)
Starts(t) ==
    {d \in DOMAIN t : \/ t[d] = "if"
                      \/ /\ t[d] \in {"elif", "else"}
                         /\ \E i \in 1..(d - 1) : t[i] = "if" /\ Balanced(t, i + 1, d - 1)}

Within(t, l) == {d \in Starts(t) : d < l /\ l < Bound(t, d)}

(* The branches of the chain of d that come before it. *)
Before(t, d) ==
    LET if(b) == CHOOSE i \in 1..b : t[i] = "if" /\ (i = b \/ Balanced(t, i + 1, b - 1))
    IN  {p \in Starts(t) : p < d /\ if(p) = if(d)}

(* The branches of t that are compiled when the conditions at hold are true. *)
Entered(t, hold) ==
    LET taken(d) == (t[d] = "else" \/ d \in hold) /\ Before(t, d) \cap hold = {}
    IN  {d \in Starts(t) : taken(d) /\ \A o \in Within(t, d) : taken(o)}

WellFormed(t) ==
    /\ Balanced(t, 1, Len(t))
    /\ \A d \in DOMAIN t : t[d] \in {"elif", "else"} => d \in Starts(t)
    /\ \A d \in Starts(t) : t[d] = "else" => Bound(t, d) > Len(t) \/ t[Bound(t, d)] = "endif"

-----------------------------------------------------------------------------
(* libclang: cursors for what it compiles, and, if a condition names a     *)
(* macro, at an #if that it comes to.                                      *)
Compiled(t, hold, words) ==
    {l \in DOMAIN t : t[l] \in words /\ Within(t, l) \subseteq Entered(t, hold)}

(* The translation unit is parsed, or comes from the cache. *)
Parse ==
    /\ status = "called"
    /\ parsed' = disk
    /\ holds' \in SUBSET {l \in DOMAIN disk : disk[l] \in {"if", "elif"}}
    /\ \E words \in {{"code"}, {"code", "if"}} :
          cursors' = Compiled(disk, holds', words)
    /\ status' = "parsed"
    /\ UNCHANGED <<disk, lines, at, stack, conditionals>>

Edit ==
    /\ status = "parsed" /\ disk = parsed
    /\ disk' \in Edits(disk)
    /\ UNCHANGED <<parsed, holds, cursors, lines, at, stack, conditionals, status>>

(* The file is read, or cannot be: then there is nothing to scan. *)
Read ==
    /\ status = "parsed"
    /\ lines' \in {disk, <<>>}
    /\ status' = "scanning"
    /\ UNCHANGED <<disk, parsed, holds, cursors, at, stack, conditionals>>

Opened(word) == [word |-> word, start |-> at, end |-> 0, result |-> "null"]
Top == stack[Len(stack)]
Pop == SubSeq(stack, 1, Len(stack) - 1)

(* Mutant of Guess: the line of the directive counts as one of the branch. *)
GuessFrom(branch, to) ==
    IF \E l \in cursors : branch.start <= l /\ l <= to THEN "true" ELSE "false"
Guess(branch, to) ==
    IF \E l \in cursors : branch.start < l /\ l <= to THEN "true" ELSE "false"

Ended(branch, end, to) == [branch EXCEPT !.end = end, !.result = Guess(branch, to)]

Open ==
    /\ lines[at] = "if"
    /\ stack' = Append(stack, Opened("if"))
    /\ UNCHANGED conditionals

(* Mutant of Alternative: the branch before is left on the stack. *)
AlternativeKeeps ==
    /\ lines[at] \in {"elif", "else"} /\ stack # <<>>
    /\ conditionals' = Append(conditionals, Ended(Top, at - 1, at - 1))
    /\ stack' = Append(stack, Opened(lines[at]))
Alternative ==
    /\ lines[at] \in {"elif", "else"} /\ stack # <<>>
    /\ conditionals' = Append(conditionals, Ended(Top, at - 1, at - 1))
    /\ stack' = Append(Pop, Opened(lines[at]))

Close ==
    /\ lines[at] = "endif" /\ stack # <<>>
    /\ conditionals' = Append(conditionals, Ended(Top, at, at))
    /\ stack' = Pop

(* A line that is no directive, or one that belongs to no #if. *)
Skip ==
    /\ lines[at] \in {"code", "blank"} \/ (lines[at] # "if" /\ stack = <<>>)
    /\ UNCHANGED <<stack, conditionals>>

Line ==
    /\ status = "scanning" /\ at <= Len(lines)
    /\ Open \/ Alternative \/ Close \/ Skip
    /\ at' = at + 1
    /\ UNCHANGED <<disk, parsed, holds, cursors, lines, status>>

Leftover(branch) == [branch EXCEPT !.end = Len(lines), !.result = "false"]

(* Branches left open end with the file and count as not compiled. *)
Finish ==
    /\ status = "scanning" /\ at > Len(lines)
    /\ conditionals' = conditionals \o [i \in DOMAIN stack |-> Leftover(stack[i])]
    /\ stack' = <<>>
    /\ status' = "done"
    /\ UNCHANGED <<disk, parsed, holds, cursors, lines, at>>

Next == Parse \/ Edit \/ Read \/ Line \/ Finish

Spec == Init /\ [][Next]_vars

-----------------------------------------------------------------------------
(* The scan finds the branches of what it read: each #if and each #elif or *)
(* #else of an open #if once, ending where the directives that balance say *)
(* it does, also when some #endif is missing or one too many.              *)
BranchesAreFound ==
    status = "done" =>
        LET end(d) == LET b == Bound(lines, d) IN
                CASE b > Len(lines) -> Len(lines)
                  [] b <= Len(lines) /\ lines[b] = "endif" -> b
                  [] OTHER -> b - 1
        IN  /\ {<<c.word, c.start, c.end>> : c \in {conditionals[i] : i \in DOMAIN conditionals}}
                 = {<<lines[d], d, end(d)>> : d \in Starts(lines)}
            /\ Len(conditionals) = Cardinality(Starts(lines))

Unedited == status = "done" /\ lines = parsed /\ WellFormed(parsed)

(* Unless an editor saved the file between the parse and the scan, a       *)
(* branch of a well-formed file that the compiler skipped is never given   *)
(* as true, so of a chain at most one is; and one is never given as false  *)
(* when something in it was compiled, at any depth.  (One that was entered *)
(* but has nothing to compile in it is given as false.)                    *)
ResultsFollowTheCode ==
    Unedited =>
        \A i \in DOMAIN conditionals :
            LET c == conditionals[i] IN
            IF c.result = "true" THEN c.start \in Entered(parsed, holds)
            ELSE c.start \in Entered(parsed, holds) =>
                    \A l \in Compiled(parsed, holds, {"code"}) :
                        c.start \notin Within(parsed, l)
=============================================================================
