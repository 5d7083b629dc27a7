-------------------------------- MODULE Lsof --------------------------------
(***************************************************************************)
(* hw1/hw1.cpp: one pass over /proc, a few system calls per line, while    *)
(* the processes go on; then the lines that the options ask for.           *)
(*                                                                         *)
(* What C leaves uninitialised, or what a failed call leaves in a buffer,  *)
(* is Garbage; the stat buffer of get_fd keeps the descriptor before.      *)
(***************************************************************************)
EXTENDS ProcFs, FiniteSets

CONSTANTS
  Rank,       \* of each pid, address and descriptor its place where it is listed
  Words,      \* the words with a "/" that lines of maps may have
  WordsIn,    \* of each mapping those of its line: a name is cut at its blanks
  Users,      \* of the uids in the user data base, their names
  Garbage,
  MaxDirs,    \* how many directories may stay open until no descriptor is left
  Invalid,    \* a REGEX that is none
  CommArgs, TypeArgs, FileArgs  \* what -c, -t and -f may match, or Invalid

ASSUME LsofAssumption ==
  /\ IsFiniteSet(Pids) /\ IsFiniteSet(Descriptors) /\ IsFiniteSet(Addresses)
  /\ Rank \in [Pids \union Addresses \union Descriptors -> Nat \ {0}] /\ IsInjective(Rank)
  /\ WordsIn \in [Files \union {Anonymous} -> Seq(Words)]
  /\ Descriptors \intersect (Links \union {"mem", "NOFD"}) = {}
  /\ "0" \in DOMAIN Users
  /\ MaxDirs \in Nat

VARIABLES
  pc,
  pid_list,
  lsof,      \* the vector of pid_info
  sb,        \* the stat buffer in use
  buf,       \* the name that readlink has read
  todo,      \* links, lines of maps or descriptors still to be read
  at,        \* how far maps, or the directory of descriptors, is listed
  dirs,      \* directories open: none is ever closed
  args,      \* the options: what each of them matches
  i, j,      \* the indices of the search loops
  touched,   \* history: the process under the scan has changed
  collected  \* history: lsof before the search

readVars   == <<sb, buf, todo, at, dirs>>
searchVars == <<i, j, collected>>
vars       == <<procVars, pc, pid_list, lsof, readVars, args, searchVars, touched>>

Point == {"scandir", "comm", "uid", "access", "readlink", "stat", "maps", "mapsread", "mapsstat",
          "fd", "opendir", "readdir", "fdstat", "fdlink", "fdinfo", "next",
          "getopt", "search_comm", "search_type", "search_file", "done", "crashed"}

(* The switch of get_type, in its spelling.                                *)
get_type(kind) ==
  CASE kind = "S_IFBLK"  -> "Blok"
    [] kind = "S_IFCHR"  -> "CHR"
    [] kind = "S_IFDIR"  -> "DIR"
    [] kind = "S_IFIFO"  -> "FIFO"
    [] kind = "S_IFLNK"  -> "LINK"
    [] kind = "S_IFREG"  -> "REG"
    [] kind = "S_IFSOCK" -> "SOCK"
    [] kind = "none"     -> "unknow"
    [] OTHER             -> Garbage

(* The letters for the last digit of flags.                                *)
Letter(flags) ==
  CASE flags = "0" -> "r" [] flags = "1" -> "w" [] flags = "2" -> "u" [] OTHER -> "N"

Stat(f)   == [kind |-> Kind[f], node |-> Node[f]]
NoStat    == [kind |-> Garbage, node |-> Garbage]

Desc(fd, mode, st, name) ==
  [fd |-> fd, mode |-> mode, type |-> get_type(st.kind), node |-> st.node, name |-> name]

Denied(fd) == [fd |-> fd, mode |-> "", type |-> "unknown", node |-> "\t", name |-> "Permission denied"]

NoFd(st) == [Desc("NOFD", "", st, "Permission denied") EXCEPT !.node = "\t"]

All    == [comm : CommArgs, type : TypeArgs, file : FileArgs]
NoArgs == [comm |-> {}, type |-> {}, file |-> {}]

Init ==
  /\ ProcInit
  /\ pc = "scandir"
  /\ pid_list = << >> /\ lsof = << >>
  /\ sb = NoStat /\ buf = Garbage /\ todo = << >> /\ at = 0 /\ dirs = 0
  /\ args = NoArgs
  /\ i = 1 /\ j = 1
  /\ touched = FALSE /\ collected = << >>

-----------------------------------------------------------------------------
pid == pid_list[i]

Pushed(d) == [lsof EXCEPT ![i].file_desc = Append(@, d)]

Goto(p) == pc' = p

(* The descriptors are those of the limit that no directory holds.         *)
HasDescriptor == dirs < MaxDirs

Sorted(S) == {s \in SetToSeqs(S) : \A k, l \in DOMAIN s : k < l => Rank[s[k]] < Rank[s[l]]}

(* scandir may fail; a vector of -1 elements is an exception.              *)
ScandirFails ==
  /\ pc = "scandir"
  /\ Goto("crashed")
  /\ UNCHANGED <<procVars, pid_list, lsof, readVars, args, searchVars, touched>>

Scandir ==
  /\ pc = "scandir"
  /\ \E s \in Sorted({p \in Pids : Alive(p)}) : pid_list' = s
  /\ lsof' = [k \in DOMAIN pid_list' |->
               [pid |-> pid_list'[k], comm |-> "", username |-> "", file_desc |-> << >>]]
  /\ Goto(IF pid_list' = << >> THEN "getopt" ELSE "comm")
  /\ UNCHANGED <<procVars, readVars, args, searchVars, touched>>

GetComm ==
  /\ pc = "comm"
  /\ lsof' = [lsof EXCEPT ![i].comm = IF Alive(pid) /\ HasDescriptor THEN proc[pid].comm ELSE ""]
  /\ Goto("uid")
  /\ touched' = FALSE
  /\ UNCHANGED <<procVars, pid_list, readVars, args, searchVars>>

(* A process without status has no uid, and atoi of nothing is 0. The user *)
(* data base is a file too.                                                *)
GetUsername ==
  LET uid == IF Alive(pid) THEN proc[pid].uid ELSE "0" IN
  /\ pc = "uid"
  /\ IF uid \in DOMAIN Users /\ HasDescriptor
     THEN /\ lsof' = [lsof EXCEPT ![i].username = Users[uid]]
          /\ todo' = <<"cwd", "root", "exe">>
          /\ Goto("access")
     ELSE Goto("crashed") /\ UNCHANGED <<lsof, todo>>
  /\ UNCHANGED <<procVars, pid_list, sb, buf, at, dirs, args, searchVars, touched>>

(* get_cwd, get_root and get_exe: access, readlink, stat.                  *)
AfterLink == IF Len(todo) = 1 THEN "maps" ELSE "access"

AccessLink ==
  /\ pc = "access"
  /\ IF Shown(pid, Head(todo))
     THEN Goto("readlink") /\ UNCHANGED <<lsof, todo>>
     ELSE /\ lsof' = Pushed(Denied(Head(todo)))
          /\ todo' = Tail(todo)
          /\ Goto(AfterLink)
  /\ UNCHANGED <<procVars, pid_list, sb, buf, at, dirs, args, searchVars, touched>>

(* readlink and stat do not ask what access asks: after a change they may  *)
(* succeed all the same.                                                   *)
Outcomes(result, failed) ==
  IF ~Alive(pid) THEN {failed}
  ELSE IF Shown(pid, Head(todo)) THEN {result} ELSE {result, failed}

ReadLink ==
  /\ pc = "readlink"
  /\ buf' \in Outcomes(proc[pid].link[Head(todo)], Garbage)
  /\ Goto("stat")
  /\ UNCHANGED <<procVars, pid_list, lsof, sb, todo, at, dirs, args, searchVars, touched>>

StatLink ==
  /\ pc = "stat"
  /\ \E st \in Outcomes(Stat(proc[pid].link[Head(todo)]), NoStat) :
       lsof' = Pushed(Desc(Head(todo), "", st, buf))
  /\ todo' = Tail(todo) /\ buf' = Garbage
  /\ Goto(AfterLink)
  /\ UNCHANGED <<procVars, pid_list, sb, at, dirs, args, searchVars, touched>>

GetLinks == AccessLink \/ ReadLink \/ StatLink

(* maps and the directory of descriptors are read piece by piece: what is  *)
(* there at that moment and beyond the last piece.  What of S comes next,  *)
(* up to x.                                                                *)
Later(S) == {x \in S : Rank[x] > at}

Until(x, S) == {y \in Later(S) : Rank[y] <= Rank[x]}

(* get_mem: access, the names in maps, and a stat of maps itself for each. *)
AccessMaps ==
  /\ pc = "maps"
  /\ at' = 0
  /\ Goto(IF Shown(pid, "maps") THEN "mapsread" ELSE "fd")
  /\ UNCHANGED <<procVars, pid_list, lsof, sb, buf, todo, dirs, args, searchVars, touched>>

ReadMaps ==
  /\ pc = "mapsread"
  /\ \E x \in Later(Mapped(pid)) :
       /\ at' = Rank[x]
       /\ \E s \in Sorted(Until(x, Mapped(pid))) :
            todo' = [k \in DOMAIN s |-> WordsIn[proc[pid].maps[s[k]]]]
  /\ Goto("mapsstat")
  /\ UNCHANGED <<procVars, pid_list, lsof, sb, buf, dirs, args, searchVars, touched>>

(* The maps of a program that was replaced meanwhile end early.            *)
MapsEnd ==
  /\ pc = "mapsread"
  /\ Later(Mapped(pid)) = {} \/ touched
  /\ Goto("fd")
  /\ UNCHANGED <<procVars, pid_list, lsof, readVars, args, searchVars, touched>>

MapsStat == IF Alive(pid) THEN [kind |-> "S_IFREG", node |-> "maps"] ELSE NoStat

HasMem(w) == \E k \in DOMAIN lsof[i].file_desc :
               lsof[i].file_desc[k].fd = "mem" /\ lsof[i].file_desc[k].name = w

(* One word of the line in hand, shown unless it has been; or its end.     *)
StatMaps ==
  LET line == Head(todo) IN
  /\ pc = "mapsstat"
  /\ IF line = << >>
     THEN /\ todo' = Tail(todo)
          /\ Goto(IF Len(todo) = 1 THEN "mapsread" ELSE "mapsstat")
          /\ UNCHANGED lsof
     ELSE /\ lsof' = IF HasMem(Head(line)) THEN lsof
                     ELSE Pushed(Desc("mem", "", MapsStat, Head(line)))
          /\ todo' = <<Tail(line)>> \o Tail(todo)
          /\ UNCHANGED pc
  /\ UNCHANGED <<procVars, pid_list, sb, buf, at, dirs, args, searchVars, touched>>

GetMem == AccessMaps \/ ReadMaps \/ MapsEnd \/ StatMaps

AccessFdUnchecked ==
  /\ pc = "fd"
  /\ Goto("opendir")
  /\ UNCHANGED <<procVars, pid_list, lsof, readVars, args, searchVars, touched>>

(* get_fd: access, opendir, then stat, readlink and fdinfo of each entry.  *)
AccessFd ==
  /\ pc = "fd"
  /\ IF Shown(pid, "fd")
     THEN Goto("opendir") /\ UNCHANGED lsof
     ELSE lsof' = Pushed(NoFd(sb)) /\ Goto("next")
  /\ UNCHANGED <<procVars, pid_list, readVars, args, searchVars, touched>>

(* readdir of a directory that could not be opened ends lsof.              *)
Opendir ==
  /\ pc = "opendir"
  /\ IF Shown(pid, "fd") /\ HasDescriptor
     THEN dirs' = dirs + 1 /\ at' = 0 /\ Goto("readdir")
     ELSE Goto("crashed") /\ UNCHANGED <<dirs, at>>
  /\ UNCHANGED <<procVars, pid_list, lsof, sb, buf, todo, args, searchVars, touched>>

Readdir ==
  /\ pc = "readdir"
  /\ \E x \in Later(OpenFds(pid)) :
       /\ at' = Rank[x]
       /\ \E s \in Sorted(Until(x, OpenFds(pid))) : todo' = s
  /\ Goto("fdstat")
  /\ UNCHANGED <<procVars, pid_list, lsof, sb, buf, dirs, args, searchVars, touched>>

(* So does the directory, when the pid has gone to another process.        *)
ReaddirEnds ==
  /\ pc = "readdir"
  /\ Later(OpenFds(pid)) = {} \/ touched
  /\ Goto("next")
  /\ UNCHANGED <<procVars, pid_list, lsof, readVars, args, searchVars, touched>>

StatOnce(d) == IF sb = NoStat /\ HasFd(pid, d) THEN Stat(proc[pid].fds[d].file) ELSE sb

StatAfter(d) == IF HasFd(pid, d) THEN Stat(proc[pid].fds[d].file) ELSE sb

FdStat ==
  /\ pc = "fdstat"
  /\ sb' = StatAfter(Head(todo))
  /\ Goto("fdlink")
  /\ UNCHANGED <<procVars, pid_list, lsof, buf, todo, at, dirs, args, searchVars, touched>>

FdLink ==
  /\ pc = "fdlink"
  /\ IF HasFd(pid, Head(todo)) THEN buf' = proc[pid].fds[Head(todo)].file
                               ELSE buf' \in {buf, Garbage}
  /\ Goto("fdinfo")
  /\ UNCHANGED <<procVars, pid_list, lsof, sb, todo, at, dirs, args, searchVars, touched>>

(* Without a descriptor left fdinfo is not read.                           *)
FdInfo ==
  LET d == Head(todo) IN
  /\ pc = "fdinfo"
  /\ lsof' = Pushed(Desc(d, IF HasFd(pid, d) /\ HasDescriptor THEN Letter(proc[pid].fds[d].flags) ELSE "",
                         sb, buf))
  /\ todo' = Tail(todo)
  /\ Goto(IF Len(todo) = 1 THEN "readdir" ELSE "fdstat")
  /\ UNCHANGED <<procVars, pid_list, sb, buf, at, dirs, args, searchVars, touched>>

GetFd == AccessFd \/ Opendir \/ Readdir \/ ReaddirEnds \/ FdStat \/ FdLink \/ FdInfo

HasNextOffByOne == i <= Len(pid_list)

HasNext == i < Len(pid_list)

NextPid ==
  /\ pc = "next"
  /\ IF HasNext THEN i' = i + 1 /\ Goto("comm") /\ UNCHANGED collected
                ELSE i' = 1 /\ Goto("getopt") /\ collected' = lsof
  /\ sb' = NoStat /\ buf' = Garbage
  /\ UNCHANGED <<procVars, pid_list, lsof, todo, at, dirs, args, j, touched>>

-----------------------------------------------------------------------------
Getopt ==
  /\ pc = "getopt"
  /\ args' \in All
  /\ Goto("search_comm")
  /\ UNCHANGED <<procVars, pid_list, lsof, readVars, searchVars, touched>>

(* The search loops: erase what does not match, step over what does.       *)
ErasedNothing(s, k) == s

MovedToEnd(s, k) == Append(RemoveAt(s, k), s[k])

Erased(s, k) == [m \in 1 .. Len(s) - 1 |-> IF m < k THEN s[m] ELSE s[m + 1]]

SearchCommSkips ==
  /\ pc = "search_comm"
  /\ IF i > Len(lsof) THEN i' = 1 /\ Goto("search_type") /\ UNCHANGED lsof
     ELSE /\ i' = i + 1 /\ UNCHANGED pc
          /\ args.comm # Invalid
          /\ lsof' = IF lsof[i].comm \notin args.comm THEN Erased(lsof, i) ELSE lsof
  /\ UNCHANGED <<procVars, pid_list, readVars, args, j, collected, touched>>

(* Of a REGEX that is none the constructor is an exception, before the loop. *)
SearchComm ==
  /\ pc = "search_comm"
  /\ IF args.comm = Invalid THEN Goto("crashed") /\ UNCHANGED <<lsof, i>>
     ELSE IF i > Len(lsof) THEN i' = 1 /\ Goto("search_type") /\ UNCHANGED lsof
     ELSE IF lsof[i].comm \notin args.comm
          THEN lsof' = Erased(lsof, i) /\ UNCHANGED <<i, pc>>
          ELSE i' = i + 1 /\ UNCHANGED <<lsof, pc>>
  /\ UNCHANGED <<procVars, pid_list, readVars, args, j, collected, touched>>

(* search_type and search_file: the loop over the lines of every process.  *)
Regex == IF pc = "search_type" THEN args.type ELSE args.file

Wanted(d) == IF pc = "search_type" THEN d.type \in args.type ELSE d.name \in args.file

SearchDesc ==
  /\ pc \in {"search_type", "search_file"}
  /\ IF Regex = Invalid
     THEN Goto("crashed") /\ UNCHANGED <<lsof, i, j>>
     ELSE IF i > Len(lsof)
     THEN i' = 1 /\ j' = 1 /\ Goto(IF pc = "search_type" THEN "search_file" ELSE "done") /\ UNCHANGED lsof
     ELSE IF j > Len(lsof[i].file_desc)
     THEN i' = i + 1 /\ j' = 1 /\ UNCHANGED <<lsof, pc>>
     ELSE IF ~Wanted(lsof[i].file_desc[j])
     THEN lsof' = [lsof EXCEPT ![i].file_desc = Erased(@, j)] /\ UNCHANGED <<i, j, pc>>
     ELSE j' = j + 1 /\ UNCHANGED <<lsof, i, pc>>
  /\ UNCHANGED <<procVars, pid_list, readVars, args, collected, touched>>

-----------------------------------------------------------------------------
Reading == pc \notin {"getopt", "search_comm", "search_type", "search_file", "done", "crashed"}

(* The processes go on; only what happens before the last read matters.    *)
ProcessChanges ==
  /\ Reading
  /\ \E p \in Pids :
       /\ Change(p)
       /\ touched' = (touched \/ (pc # "scandir" /\ pid = p))
  /\ UNCHANGED <<pc, pid_list, lsof, readVars, args, searchVars>>

Step ==
  \/ ScandirFails \/ Scandir \/ GetComm \/ GetUsername \/ GetLinks \/ GetMem \/ GetFd \/ NextPid
  \/ Getopt \/ SearchComm \/ SearchDesc

Next == Step \/ ProcessChanges

Spec == Init /\ [][Next]_vars

(* The scheduler runs lsof.                                                *)
FairSpec == Spec /\ WF_vars(Step)
-----------------------------------------------------------------------------
Types == {"Blok", "CHR", "DIR", "FIFO", "LINK", "REG", "SOCK", "unknow", "unknown", Garbage}
Nodes == {Node[f] : f \in Files} \union {"maps", "\t", Garbage}
Comms == {s.comm : s \in Processes} \union {""}
Names == {Users[u] : u \in DOMAIN Users} \union {""}

Line == [fd : Links \union {"mem", "NOFD"} \union Descriptors, mode : {"", "r", "w", "u", "N"},
         type : Types, node : Nodes, name : Files \union Words \union {Garbage, "Permission denied"}]

Info == [pid : Pids, comm : Comms, username : Names, file_desc : Seq(Line)]

StatBuf == [kind : Kinds \union {Garbage}, node : Nodes]

(* What is still to be read depends on the place.                         *)
TodoOK ==
  /\ pc \in {"access", "readlink", "stat"}   => todo \in Seq(Links) \ {<< >>}
  /\ pc = "mapsstat"                         => todo \in Seq(Seq(Words)) \ {<< >>}
  /\ pc \in {"fdstat", "fdlink", "fdinfo"}   => todo \in Seq(Descriptors) \ {<< >>}
  /\ pc \notin {"access", "readlink", "stat", "mapsstat", "fdstat", "fdlink", "fdinfo"} => todo = << >>

(* Types of the variables; the scan and the search stay in their vectors.  *)
TypeOK ==
  /\ pc \in Point
  /\ proc \in [Pids -> Processes \union {Gone}] /\ changes \in 0 .. MaxChanges
  /\ pid_list \in Seq(Pids)
  /\ lsof \in Seq(Info) /\ collected \in Seq(Info)
  /\ sb \in StatBuf
  /\ buf \in Files \union {Garbage}
  /\ TodoOK
  /\ at \in Nat /\ dirs \in 0 .. MaxDirs
  /\ args \in All \union {NoArgs}
  /\ i \in Nat \ {0} /\ j \in Nat \ {0} /\ touched \in BOOLEAN
  /\ Reading /\ pc # "scandir" => i \in DOMAIN pid_list /\ DOMAIN lsof = DOMAIN pid_list

(* What a process has to show: a line for each link, each word of its maps *)
(* that has a "/" and each open descriptor, or of what access refuses the  *)
(* line that says so. The node of a mem line is MemNodes' matter.          *)
LinkLine(s, l) == IF l \in s.denied THEN Denied(l) ELSE Desc(l, "", Stat(s.link[l]), s.link[l])

MemLine(w) == Desc("mem", "", [kind |-> "S_IFREG", node |-> "maps"], w)

FdLine(s, d) == Desc(d, Letter(s.fds[d].flags), Stat(s.fds[d].file), s.fds[d].file)

WordsAt(s, A) == UNION {ToSet(WordsIn[s.maps[a]]) : a \in A}

MappedIn(s) == {a \in Addresses : s.maps[a] # NotMapped}

OpenIn(s) == {d \in Descriptors : s.fds[d] # NotOpen}

LinesOf(s) ==
       {LinkLine(s, l) : l \in Links}
  \union {MemLine(w) : w \in IF "maps" \in s.denied THEN {} ELSE WordsAt(s, MappedIn(s))}
  \union {FdLine(s, d) : d \in IF "fd" \in s.denied THEN {} ELSE OpenIn(s)}

Complete(s, lines) ==
  IF "fd" \in s.denied THEN \E st \in StatBuf : ToSet(lines) = LinesOf(s) \union {NoFd(st)}
                       ELSE ToSet(lines) = LinesOf(s)

(* A process that did not change while it was read is shown as it is: no   *)
(* line is lost, doubled, or filled with another line's stat, whatever the *)
(* other processes did, whatever was read of the processes before, and     *)
(* whichever of its links, maps and descriptors access refuses (hw1.cpp:   *)
(* 248, 275, 303, 331, 437).  When the directories that are never closed   *)
(* have taken the last descriptor, its lines lack what a file would tell.  *)
Faithful ==
  pc = "next" /\ ~touched /\ Alive(pid) /\ HasDescriptor =>
    LET lines == lsof[i].file_desc IN
    /\ lsof[i].pid = pid /\ lsof[i].comm = proc[pid].comm
    /\ lsof[i].username = Users[proc[pid].uid]
    /\ IsInjective(lines)
    /\ Complete(proc[pid], lines)

(* What ends the scan by a signal is scandir itself, a uid without a name, *)
(* the last descriptor taken by the directories that are never closed, or  *)
(* a change of the process between the access to its directory and the     *)
(* opendir that nobody checks; what ends a search, an option that is no    *)
(* REGEX, whatever was read before (hw1.cpp:92, 112, 134, 212, 437-443,    *)
(* 485).                                                                   *)
CrashNeedsCause ==
  [][pc' = "crashed" /\ pc # "crashed" =>
       IF Reading THEN \/ pc = "scandir" \/ ~HasDescriptor
                       \/ pc = "opendir" /\ touched
                       \/ Alive(pid) /\ proc[pid].uid \notin DOMAIN Users
       ELSE Invalid \in {args.comm, args.type, args.file}]_vars

(* The elements of s at the places P, in their order.                      *)
Nth(P, m) == CHOOSE k \in P : Cardinality({p \in P : p <= k}) = m

Sub(s, P) == [m \in 1 .. Cardinality(P) |-> s[Nth(P, m)]]

Named == Sub(collected, {k \in DOMAIN collected : collected[k].comm \in args.comm})

AskedOf(ds) == Sub(ds, {k \in DOMAIN ds : ds[k].type \in args.type /\ ds[k].name \in args.file})

(* The lines of a process that the options ask for, all processes of a     *)
(* matching name kept, in the order read: the loops of erase skip no       *)
(* element after an erased one, and none is erased twice (hw1.cpp:88-150). *)
SearchExact ==
  pc = "done" => lsof = [k \in DOMAIN Named |-> [Named[k] EXCEPT !.file_desc = AskedOf(@)]]

(* The scan and the search loops, whose bounds move while they run, end    *)
(* (hw1.cpp:93, 115, 137).                                                 *)
Terminates == <>(pc \in {"done", "crashed"})

(* What is ahead, in this order: phases, processes, places (or lines, in   *)
(* the search), addresses or descriptor numbers beyond those listed, the   *)
(* entries of the list in hand, calls for one of them or words of it.      *)
PhasesAhead ==
  IF pc = "scandir" THEN 6 ELSE IF Reading THEN 5 ELSE IF pc = "getopt" THEN 4
  ELSE IF pc = "search_comm" THEN 3 ELSE IF pc = "search_type" THEN 2
  ELSE IF pc = "search_file" THEN 1 ELSE 0

ProcessesAhead == IF pc = "scandir" THEN 0 ELSE Len(lsof) + 1 - i

Place ==
  [scandir |-> 0, comm |-> 8, uid |-> 7, access |-> 6, readlink |-> 6, stat |-> 6, maps |-> 5,
   mapsread |-> 4, mapsstat |-> 4, fd |-> 3, opendir |-> 2, readdir |-> 1, fdstat |-> 1,
   fdlink |-> 1, fdinfo |-> 1, next |-> 0]

PlacesAhead ==
  IF Reading THEN Place[pc]
  ELSE IF i \in DOMAIN lsof THEN Len(lsof[i].file_desc) + 1 - j ELSE 0

NumbersAhead ==
  IF pc \in {"mapsread", "mapsstat"} THEN Cardinality(Later(Addresses))
  ELSE IF pc \in {"readdir", "fdstat", "fdlink", "fdinfo"} THEN Cardinality(Later(Descriptors))
  ELSE 0

CallsAhead ==
  IF pc \in {"access", "fdstat"} THEN 2 ELSE IF pc \in {"readlink", "fdlink"} THEN 1
  ELSE IF pc = "mapsstat" THEN Len(Head(todo)) ELSE 0

Ahead == <<PhasesAhead, ProcessesAhead, PlacesAhead, NumbersAhead, Len(todo), CallsAhead>>

Nearer(x, y) == \E k \in DOMAIN x : x[k] < y[k] /\ \A m \in 1 .. k - 1 : x[m] = y[m]

(* Every step of lsof leaves less ahead, in a well-founded order, and the  *)
(* processes cannot add to it: no loop turns without progress, also where  *)
(* it erases from the vector that bounds it (hw1.cpp:93, 115, 137).  A     *)
(* process that grows while maps or its descriptors are listed (337, 443)  *)
(* may be read for longer, but only on towards higher numbers, which are   *)
(* all counted before: it cannot hold lsof up for ever.                    *)
Advances ==
  [][/\ Ahead' \in [1 .. 6 -> Nat]
     /\ IF Step THEN Nearer(Ahead', Ahead) ELSE Ahead' = Ahead]_vars

(* hw1/README: NODE is "the i-node number of the file"; of a mem line it   *)
(* is that of /proc/[pid]/maps (hw1.cpp:353, 370).                         *)
MemNodes ==
  pc = "next" /\ ~touched =>
    \A k \in DOMAIN lsof[i].file_desc :
      lsof[i].file_desc[k].fd = "mem" /\ lsof[i].file_desc[k].name \in Files =>
        lsof[i].file_desc[k].node = Node[lsof[i].file_desc[k].name]
=============================================================================
