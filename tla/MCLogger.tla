------------------------------ MODULE MCLogger ------------------------------
(* Instances of the logger for TLC: two names of the program, four files,  *)
(* and one call or two of every function.                                  *)
EXTENDS LoggerRefinement, TLC

CONSTANTS t1, t2, f1, f2, f3

MCSymmetry == Permutations({t1, t2}) \union Permutations({f1, f2, f3})

MCInherited == {{0, 1, 2}}

MCCalls ==
  {NamedCall("open", mode, n, NoName) : mode \in {"read", "create"}, n \in {"a"}}
    \union {NamedCall("creat", "truncate", "a", NoName), NamedCall("fopen", "read", "b", NoName),
            NamedCall("chmod", "none", "a", NoName), NamedCall("remove", "none", "b", NoName),
            NamedCall("rename", "none", "a", "b"), NamedCall("tmpfile", "create", NoName, NoName)}
    \union {FdCall(fn, 4, 1) : fn \in {"close", "fclose", "read", "fread", "write", "fwrite"}}
=============================================================================
