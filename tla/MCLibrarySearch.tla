--------------------------- MODULE MCLibrarySearch ---------------------------
(* LibrarySearch on the three kinds of system, every setting of what it    *)
(* reads, and any two libraries in any two places.                         *)

EXTENDS LibrarySearch

=============================================================================
