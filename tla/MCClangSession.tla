--------------------------- MODULE MCClangSession ---------------------------
EXTENDS ClangSession, TLC

CONSTANTS c1, c2, c3, a, b, none, std

Cpp(f) == [file |-> f, build |-> none, flags |-> std]
BothFiles == {Cpp(a), Cpp(b)}

Get(f)    == [tool |-> "get", files |-> <<Cpp(f)>>]
ParseOf(f) == [tool |-> "parse", files |-> <<Cpp(f)>>]
Ingest    == [tool |-> "ingest", files |-> <<Cpp(a), Cpp(b)>>]
Query     == [tool |-> "query", files |-> <<>>]

AllTools  == {Get(a), ParseOf(a), Ingest, Query}

CallSymmetry == Permutations(Calls)
=============================================================================
