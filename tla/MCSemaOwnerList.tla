--------------------------- MODULE MCSemaOwnerList ---------------------------
(* A small instance of SemaOwnerList.                                      *)
EXTENDS SemaOwnerList, TLC

Symmetry == Permutations(Thread) \cup Permutations(Sema)
=============================================================================
