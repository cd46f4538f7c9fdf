---- MODULE MCStrings ----
(* Instance of Strings for TLC: see strings.cfg. *)
EXTENDS Strings, TLC

CONSTANTS s1, s2, s3

MCString == {s1, s2, s3}
Symmetric == Permutations(MCString)
MCBuf == 1 .. 3
MCAlphabet == <<"a", "b">>
MCSources == {<<"a", "b">>, <<>>}
====
