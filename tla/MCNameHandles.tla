---------------------------- MODULE MCNameHandles ----------------------------
(* A small instance of NameHandles: name a has the same hash index as the  *)
(* empty name, c and e share another one.                                  *)
EXTENDS NameHandles, TLC

CONSTANTS a, c, e

HashIndex == [s \in Name |-> IF s \in {c, e} THEN 1 ELSE 0]

Symmetry == Permutations(Holder)
=============================================================================
