----------------------------- MODULE SigSetOps -----------------------------
(***************************************************************************)
(* The operations on sigset_t of hw3/libmini.c.  A sigset_t is one word of *)
(* NSIG bits, here the set of the bits that are 1.  The word is shifted by *)
(* signo - 1 positions; the processor takes the shift count modulo NSIG.   *)
(***************************************************************************)
EXTENDS Integers

CONSTANT NSIG   \* _NSIG, the number of signals and of bits of the word

ASSUME NSIGAssumption == NSIG \in Nat \ {0}

Bits    == 0 .. NSIG - 1
Signals == 1 .. NSIG

ShiftBySigno(signo) == signo % NSIG

Bit(signo) == (signo - 1) % NSIG

sigemptyset == {}
sigfillset  == Bits

OutOfRangeButZero(signo) == signo < 0 \/ signo > NSIG

OutOfRange(signo) == signo < 1 \/ signo > NSIG

sigaddset(set, signo)   == IF OutOfRange(signo) THEN set ELSE set \union {Bit(signo)}
sigdelset(set, signo)   == set \ {Bit(signo)}
sigismember(set, signo) == Bit(signo) \in set
=============================================================================
