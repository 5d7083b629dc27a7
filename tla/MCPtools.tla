------------------------------ MODULE MCPtools ------------------------------
(* Memories of up to three mappings on five addresses, some with one more  *)
(* in the upper half; a name with a blank.                                 *)
EXTENDS Ptools

CONSTANTS prog, deleted, stack, vsyscall

MCFirstWord == [n \in MapNames |-> IF n = deleted THEN prog ELSE n]

L(b, e, name, long) ==
  [range |-> [begin |-> b, end |-> e], perm |-> IF name = prog THEN "r-x" ELSE "rw-",
   name |-> name, long |-> long]

(* Adjacent mappings, gaps, and all lengths.                               *)
Shapes == {<<0, 1, 1, 2>>, <<0, 1, 2, 3>>, <<0, 2, 2, 3>>, <<1, 2, 2, 3>>, <<0, 1, 1, 3>>}

MCMemories == {<< >>, <<L(0, 4, prog, FALSE)>>, <<L(2, 3, NoMapName, FALSE)>>}
    \union {<<L(s[1], s[2], prog, l), L(s[3], s[4], o, FALSE), L(s[4], 4, stack, FALSE)>> :
             s \in Shapes, o \in {deleted, NoMapName}, l \in BOOLEAN}
    \union {<<L(s[1], s[2], prog, FALSE), L(s[3], s[4], NoMapName, FALSE),
               L(s[4], 4, NoMapName, FALSE), L(6, 7, vsyscall, FALSE)>> : s \in Shapes}
    \union {<<L(s[1], s[2], NoMapName, FALSE), L(s[3], s[4], prog, TRUE)>> : s \in Shapes}

E(open, complete, m0, mE, sections, flaws, text) ==
  [open |-> open, complete |-> complete, magic0 |-> m0, magicE |-> mE, entry |-> 4,
   sections |-> sections, flaws |-> flaws, hasText |-> text, size |-> 8]

MCElfFiles ==
  {E(FALSE, FALSE, FALSE, FALSE, 0, {}, FALSE), E(TRUE, FALSE, FALSE, FALSE, 0, {}, FALSE),
   E(TRUE, TRUE, TRUE, TRUE, 2, {}, TRUE), E(TRUE, TRUE, FALSE, TRUE, 2, {}, FALSE),
   E(TRUE, TRUE, TRUE, TRUE, 0, {}, FALSE), E(TRUE, TRUE, FALSE, FALSE, 2, {}, FALSE),
   E(TRUE, TRUE, FALSE, TRUE, 2, {"e_shstrndx"}, TRUE)}
=============================================================================
