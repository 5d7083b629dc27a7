------------------------------- MODULE MCSdb -------------------------------
(***************************************************************************)
(* Instances of the debugger for TLC.  Two executables of four text bytes: *)
(*                                                                         *)
(*   "p"  1: one byte, before the entry point (code the entry point calls);*)
(*        2-3: entry, two bytes, jumps to 1 or 4;  4: exits                *)
(*   "q"  1: entry, two bytes;  3: one byte, jumps to 1 or 4;  4: exits    *)
(*                                                                         *)
(* The .text of "p" is longer than what follows its entry point, as in a   *)
(* real executable, so the disassembly runs past the mapping.              *)
(***************************************************************************)
EXTENDS Sdb

MCByte == {0, 11, 12, 13, 14, 21, 22, 23, 24, 204}

P == [entry |-> 2, size |-> 4, text |-> <<11, 12, 13, 14>>, len |-> <<1, 2, 1, 1>>,
      starts |-> {1, 2, 4}, succ |-> <<{2, 4}, {1, 4}, {}, {}>>, exits |-> {4}]

Q == [entry |-> 1, size |-> 4, text |-> <<21, 22, 23, 24>>, len |-> <<2, 2, 1, 1>>,
      starts |-> {1, 3, 4}, succ |-> <<{3}, {}, {1, 4}, {}>>, exits |-> {4}]

MCImage == [p \in {"p", "q"} |-> IF p = "p" THEN P ELSE Q]
=============================================================================
