------------------------------- MODULE ProcFs -------------------------------
(***************************************************************************)
(* What /proc shows of the processes of a system, as hw1/hw1.cpp reads it. *)
(* A process may change between any two reads: end, close and open files,  *)
(* execute another program, or give its pid to a new process.              *)
(***************************************************************************)
EXTENDS Integers, Sequences, SequencesExt

CONSTANTS
  Pids, Gone,
  Processes,   \* the states a process may be in
  Files,       \* files, under their absolute names
  Kind,        \* of each file, the type bits of st_mode
  Node,        \* of each file, its i-node
  Descriptors, \* descriptor numbers
  Addresses,   \* where something may be mapped
  NotOpen, NotMapped,
  Anonymous,   \* a mapping of no file
  MaxChanges   \* bound of the changes during one run of lsof

VARIABLES
  proc,     \* of each pid its process, if any
  changes   \* history: number of changes

procVars == <<proc, changes>>

Kinds == {"S_IFBLK", "S_IFCHR", "S_IFDIR", "S_IFIFO", "S_IFLNK", "S_IFREG", "S_IFSOCK", "none"}

Links == {"cwd", "root", "exe"}

(* denied is what access() refuses to lsof. It follows a link, so that a   *)
(* target that cannot be read, or is missing, refuses that link alone. A   *)
(* maps that can be accessed but not opened counts as denied.              *)
Process == [comm : STRING, uid : STRING, denied : SUBSET (Links \union {"maps", "fd"}),
            link : [Links -> Files],
            maps : [Addresses -> Files \union {Anonymous, NotMapped}],
            fds  : [Descriptors -> [file : Files, flags : {"0", "1", "2", "3"}] \union {NotOpen}]]

ASSUME ProcFsAssumption ==
  /\ Gone \notin Processes
  /\ Kind \in [Files -> Kinds]
  /\ Node \in [Files -> STRING]
  /\ Processes \subseteq Process
  /\ NotMapped \notin Files \union {Anonymous}
  /\ MaxChanges \in Nat

ProcInit ==
  /\ proc \in [Pids -> Processes \union {Gone}]
  /\ changes = 0

Alive(p)       == proc[p] # Gone
Shown(p, what) == Alive(p) /\ what \notin proc[p].denied
Mapped(p)      == IF Alive(p) THEN {a \in Addresses : proc[p].maps[a] # NotMapped} ELSE {}
OpenFds(p)     == IF Alive(p) THEN {d \in Descriptors : proc[p].fds[d] # NotOpen} ELSE {}
HasFd(p, d)    == Shown(p, "fd") /\ d \in OpenFds(p)

Change(p) ==
  /\ changes < MaxChanges
  /\ changes' = changes + 1
  /\ \E s \in Processes \union {Gone} : s # proc[p] /\ proc' = [proc EXCEPT ![p] = s]
=============================================================================
