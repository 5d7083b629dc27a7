------------------------------- MODULE SigSet -------------------------------
(***************************************************************************)
(* A program that works on one sigset_t with the functions of              *)
(* hw3/libmini.c, beside the set of signals it means.                      *)
(***************************************************************************)
EXTENDS SigSetOps

CONSTANTS
  AddNos,  \* arguments of sigaddset, of any value
  DelNos   \* arguments of sigdelset

ASSUME SigSetAssumption == AddNos \subseteq Int /\ DelNos \subseteq Int

VARIABLES
  set,     \* the sigset_t
  members  \* history: the signals it should have

vars == <<set, members>>

Init == set = sigemptyset /\ members = {}

Empty == set' = sigemptyset /\ members' = {}

Fill == set' = sigfillset /\ members' = Signals

Add(n) ==
  /\ set' = sigaddset(set, n)
  /\ members' = members \union ({n} \intersect Signals)

Delete(n) ==
  /\ set' = sigdelset(set, n)
  /\ members' = members \ {n}

Next ==
  \/ Empty \/ Fill
  \/ \E n \in AddNos : Add(n)
  \/ \E n \in DelNos : Delete(n)

Spec == Init /\ [][Next]_vars

(* sigismember answers for every signal what the calls before it mean:     *)
(* adding or deleting one signal touches no other, at both ends of the     *)
(* word too, and a number that is no signal adds nothing.                  *)
MembersAgree == \A n \in Signals : sigismember(set, n) <=> n \in members
=============================================================================
