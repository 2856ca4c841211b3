----------------------------- MODULE SourceTools -----------------------------
(***************************************************************************)
(* One call of a tool that answers from a translation unit: the server     *)
(* (build_server of server/app.py) registers get_ast,                      *)
(* get_preprocessor_state, get_definition, get_type_info, get_references   *)
(* and get_header_info, and its single worker runs one call of one of them *)
(* at a time (ClangSession).  Each has a module of its own; the variables  *)
(* of the tools that were not called stay as they are.                     *)
(***************************************************************************)
EXTENDS Integers, Sequences, FiniteSets

CONSTANTS
    Trees, Asks, NoLine,                                        \* AstWalker
    Files, Edits(_),                                            \* Preprocessor
    Programs, Headers, Main, NoFile, NoUsr, Queries, Limit      \* SymbolTools

VARIABLES
    tool,       \* "ast", "preprocessor" or "symbol"
    status,     \* the call's, whatever the tool
    tree, ask, pending, nodes, links, marked, bytes, reason,
    disk, parsed, holds, cursors, lines, at, stack, conditionals,
    query, saved, unit, seen, found, next, uses, answer

astVars          == <<tree, ask, pending, nodes, links, marked, bytes, reason>>
preprocessorVars == <<disk, parsed, holds, cursors, lines, at, stack, conditionals>>
symbolVars       == <<query, saved, unit, seen, found, next, uses, answer>>
vars == <<tool, status, astVars, preprocessorVars, symbolVars>>

Ast == INSTANCE AstWalker
Pre == INSTANCE Preprocessor
Sym == INSTANCE SymbolTools

ASSUME AstAssumption == Ast!TreesAreWalks /\ Ast!AsksAreAsks
ASSUME PreprocessorAssumption == Pre!FilesAreLines
ASSUME SymbolAssumption == Sym!ProgramsAreParsed /\ Sym!QueriesAreQueries

NoAst ==
    /\ tree = <<>> /\ ask = <<>> /\ pending = <<>> /\ nodes = <<>>
    /\ links = <<>> /\ marked = <<>> /\ bytes = <<>> /\ reason = <<>>
NoPreprocessor ==
    /\ disk = <<>> /\ parsed = <<>> /\ holds = <<>> /\ cursors = <<>>
    /\ lines = <<>> /\ at = <<>> /\ stack = <<>> /\ conditionals = <<>>
NoSymbol ==
    /\ query = <<>> /\ saved = <<>> /\ unit = <<>> /\ seen = <<>>
    /\ found = <<>> /\ next = <<>> /\ uses = <<>> /\ answer = <<>>

Init ==
    \/ tool = "ast" /\ NoPreprocessor /\ NoSymbol /\ Ast!Init
    \/ tool = "preprocessor" /\ NoAst /\ NoSymbol /\ Pre!Init
    \/ tool = "symbol" /\ NoAst /\ NoPreprocessor /\ Sym!Init

Next ==
    \/ tool = "ast" /\ Ast!Next /\ UNCHANGED <<tool, preprocessorVars, symbolVars>>
    \/ tool = "preprocessor" /\ Pre!Next /\ UNCHANGED <<tool, astVars, symbolVars>>
    \/ tool = "symbol" /\ Sym!Next /\ UNCHANGED <<tool, astVars, preprocessorVars>>

Spec == Init /\ [][Next]_vars

-----------------------------------------------------------------------------
(* get_ast emits the beginning of the walk, whatever budget cuts it.       *)
IsBeginning == tool = "ast" => Ast!IsBeginning

(* get_ast leaves nothing out without saying so, and why.                  *)
OmissionIsMarked == tool = "ast" => Ast!OmissionIsMarked

(* What get_ast emits hangs together as the cursors do, also when cut.     *)
LinksAreTree == tool = "ast" => Ast!LinksAreTree

(* get_preprocessor_state finds the branches of what it read, also of a    *)
(* file whose directives do not balance.                                   *)
BranchesAreFound == tool = "preprocessor" => Pre!BranchesAreFound

(* Its evaluated_result is true only of what was compiled, and true where  *)
(* anything was, unless the file was saved between the parse and the scan. *)
ResultsFollowTheCode == tool = "preprocessor" => Pre!ResultsFollowTheCode

(* cursor_at takes a position only if one state of the file had it, though *)
(* its line and its column are checked against two readings.               *)
AcceptedWasInRange == tool = "symbol" => Sym!AcceptedWasInRange

(* While nobody saves a file in which a byte is a character, a position is *)
(* rejected when nothing is there, and else the answer is about the symbol *)
(* that is.                                                                *)
PlainIsExact == tool = "symbol" => Sym!PlainIsExact

(* get_references lists the places of use once each, up to its limit, and  *)
(* quotes lines that the file had while it ran.                            *)
ReferencesAreUses == tool = "symbol" => Sym!ReferencesAreUses

(* "Collect top-level non-system symbols from *tu*'s cursor"               *)
(* (get_header_info.py, line 52): every one of them is exported.           *)
ExportsTopLevel == tool = "symbol" => Sym!ExportsTopLevel
=============================================================================
