---- MODULE MCValues ----
(* Instance of Values for TLC: see values.cfg. *)
EXTENDS Values

MCPool == 101 .. 103
MCScratch == 201 .. 208
MCBuf == 1 .. 12
MCAlphabet == <<"0", "1", "n">>
MCNum == 0 .. 2

\* Opcodes that are tried together: what builds values, and one group of what
\* works on them.
MCScenarios ==
    { {"one", "locals", "varidf", "dot", "totemp", "gl", "rename"},
      {"one", "locals", "varidx", "idx", "newidx", "totemp", "part"},
      {"one", "locals", "varidx", "totemp", "list", "hashhash"},
      {"locals", "one", "varidf", "newidf", "idf", "arrow", "del", "drop", "list", "swap"},
      {"object", "locals", "varidf", "totemp", "gl", "dup", "dies", "swap", "swapargs"},
      {"text", "idx", "strings"},
      {"text", "totemp", "idx", "replace"},
      {"zero", "one", "text", "totemp", "texts", "math"},
      {"one", "text", "totemp", "list", "find", "measure"},
      {"text", "one", "totemp", "hash", "idx"},
      {"one", "text", "totemp", "list", "split", "join", "hash"},
      {"zero", "one", "totemp", "list", "plus", "minus", "incr", "compare", "dup", "idx"},
      {"one", "totemp", "list", "sort", "locals", "varidx"},
      {"error", "one", "totemp", "idx", "gl", "plus", "sort", "minmax", "swap", "incr", "shuffle"},
      {"error", "idx", "gl", "swap"},
      {"error", "text", "idx", "split", "join"},
      {"error", "idx", "hash"} }
====
