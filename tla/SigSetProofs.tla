---------------------------- MODULE SigSetProofs ----------------------------
(***************************************************************************)
(* Proofs about the operations on sigset_t, for a word of any size.        *)
(***************************************************************************)
EXTENDS SigSet, TLAPS

(* The bit of a signal: the shift count needs no reduction.                *)
LEMMA BitOfSignal ==
  ASSUME NEW n \in Signals
  PROVE  Bit(n) = n - 1 /\ Bit(n) \in Bits
<1>1. n - 1 \in 0 .. NSIG - 1 /\ NSIG \in Nat /\ NSIG > 0
  BY NSIGAssumption DEF Signals
<1>2. (n - 1) % NSIG = n - 1
  BY <1>1
<1> QED BY <1>1, <1>2 DEF Bit, Bits

(* Different signals have different bits.                                  *)
LEMMA BitsDiffer ==
  ASSUME NEW m \in Signals, NEW n \in Signals, Bit(m) = Bit(n)
  PROVE  m = n
<1>1. m - 1 = n - 1
  BY BitOfSignal
<1> QED BY <1>1, NSIGAssumption DEF Signals

(* What the word says of each signal is what the calls made so far mean,   *)
(* for any arguments of sigaddset, as long as sigdelset is given signals.  *)
THEOREM WordMeansMembers ==
  ASSUME DelNos \subseteq Signals
  PROVE  Spec => []MembersAgree
<1>1. Init => MembersAgree
  BY DEF Init, MembersAgree, sigemptyset, sigismember
<1>2. MembersAgree /\ [Next]_vars => MembersAgree'
  <2> SUFFICES ASSUME MembersAgree, [Next]_vars, NEW n \in Signals
               PROVE  Bit(n) \in set' <=> n \in members'
    BY DEF MembersAgree, sigismember
  <2>0. Bit(n) \in set <=> n \in members
    BY DEF MembersAgree, sigismember
  <2>1. CASE Empty
    BY <2>1 DEF Empty, sigemptyset
  <2>2. CASE Fill
    BY <2>2, BitOfSignal DEF Fill, sigfillset
  <2>3. ASSUME NEW a \in AddNos, Add(a)
        PROVE  Bit(n) \in set' <=> n \in members'
    <3>1. OutOfRange(a) <=> a \notin Signals
      BY SigSetAssumption, NSIGAssumption DEF OutOfRange, Signals
    <3>2. CASE a \in Signals
      BY <2>0, <2>3, <3>1, <3>2, BitsDiffer DEF Add, sigaddset
    <3>3. CASE a \notin Signals
      BY <2>0, <2>3, <3>1, <3>3 DEF Add, sigaddset
    <3> QED BY <3>2, <3>3
  <2>4. ASSUME NEW d \in DelNos, Delete(d)
        PROVE  Bit(n) \in set' <=> n \in members'
    <3>1. d \in Signals
      OBVIOUS
    <3> QED BY <2>0, <2>4, <3>1, BitsDiffer DEF Delete, sigdelset
  <2>5. CASE UNCHANGED vars
    BY <2>0, <2>5 DEF vars
  <2> QED BY <2>1, <2>2, <2>3, <2>4, <2>5 DEF Next
<1> QED BY <1>1, <1>2, PTL DEF Spec
=============================================================================
