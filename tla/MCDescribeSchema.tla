--------------------------- MODULE MCDescribeSchema ---------------------------
EXTENDS DescribeSchema

CONSTANTS f1, f2

(* Each file includes the other. *)
SomeIncludes == {<<f1, f2>>, <<f2, f1>>}
=============================================================================
