----------------------------- MODULE LsofProofs -----------------------------
(***************************************************************************)
(* Proofs about lsof, for any processes, files and descriptors, any number *)
(* of changes during the scan and any options.                             *)
(***************************************************************************)
EXTENDS Lsof, FiniteSetTheorems, SequenceTheorems, TLAPS

(* Adding a line.                                                          *)
LEMMA AppendLine ==
  ASSUME NEW S, NEW s \in Seq(S), NEW e \in S
  PROVE  /\ Append(s, e) \in Seq(S)
         /\ Len(Append(s, e)) = Len(s) + 1
         /\ \A k \in 1 .. Len(s) : Append(s, e)[k] = s[k]
         /\ Append(s, e)[Len(s) + 1] = e
  OBVIOUS

(* The first of what is still to be read, and the rest.                    *)
LEMMA FirstAndRest ==
  ASSUME NEW S, NEW s \in Seq(S), s # << >>
  PROVE  /\ Head(s) \in S /\ Tail(s) \in Seq(S)
         /\ Len(s) \in Nat /\ Len(s) >= 1
         /\ Len(s) = 1 <=> Tail(s) = << >>
         /\ Len(Tail(s)) = Len(s) - 1
         /\ s[1] = Head(s)
         /\ \A k \in 1 .. Len(s) - 1 : Tail(s)[k] = s[k + 1]
<1>1. Len(s) \in Nat /\ Len(s) # 0
  BY EmptySeq, LenProperties
<1>2. /\ Head(s) \in S /\ Tail(s) \in Seq(S) /\ Len(Tail(s)) = Len(s) - 1
      /\ s[1] = Head(s)
      /\ \A k \in 1 .. Len(s) - 1 : Tail(s)[k] = s[k + 1]
  BY HeadTailProperties
<1>3. Tail(s) = << >> <=> Len(Tail(s)) = 0
  BY <1>2, EmptySeq
<1>4. Len(s) = 1 <=> Len(s) - 1 = 0
  BY <1>1
<1>5. Len(s) >= 1
  BY <1>1
<1> QED BY <1>1, <1>2, <1>3, <1>4, <1>5

LEMMA EmptyIn == \A S : << >> \in Seq(S)
  OBVIOUS

(* Erasing an element.                                                     *)
LEMMA ErasedType ==
  ASSUME NEW S, NEW s \in Seq(S), NEW k \in 1 .. Len(s)
  PROVE  /\ Erased(s, k) \in Seq(S)
         /\ Len(Erased(s, k)) = Len(s) - 1
         /\ DOMAIN Erased(s, k) = 1 .. Len(s) - 1
         /\ \A m \in 1 .. Len(s) - 1 : Erased(s, k)[m] = IF m < k THEN s[m] ELSE s[m + 1]
<1>1. Len(s) \in Nat /\ \A m \in 1 .. Len(s) : s[m] \in S
  OBVIOUS
<1>2. \A m \in 1 .. Len(s) - 1 : (IF m < k THEN s[m] ELSE s[m + 1]) \in S
  BY <1>1
<1>3. Erased(s, k) = [m \in 1 .. Len(s) - 1 |-> IF m < k THEN s[m] ELSE s[m + 1]]
  BY DEF Erased
<1>4. Erased(s, k) \in [1 .. Len(s) - 1 -> S]
  BY <1>2, <1>3
<1>5. Len(s) - 1 \in Nat
  BY <1>1
<1> QED BY <1>3, <1>4, <1>5

(* A listing: everything there is, once.                                   *)
LEMMA SortedLists ==
  ASSUME NEW T, IsFiniteSet(T), NEW S \in SUBSET T, NEW s \in Sorted(S)
  PROVE  s \in Seq(T) /\ IsInjective(s) /\ ToSet(s) = S /\ (S # {} => s # << >>)
<1>1. IsFiniteSet(S)
  BY FS_Subset
<1>2. Cardinality(S) \in Nat
  BY <1>1, FS_CardinalityType
<1>3. s \in [1 .. Cardinality(S) -> S] /\ \A a, b \in 1 .. Cardinality(S) : a # b => s[a] # s[b]
  BY DEF Sorted, SetToSeqs
<1>4. IsInjective(s)
  BY <1>3 DEF IsInjective
<1>5. s \in Injection(1 .. Cardinality(S), S)
  BY <1>3, <1>4 DEF Injection
<1>6. Cardinality(1 .. Cardinality(S)) = Cardinality(S)
  BY <1>2, FS_Interval
<1>7. s \in Surjection(1 .. Cardinality(S), S)
  BY <1>1, <1>5, <1>6, FS_Injection
<1>8. ToSet(s) = S
  BY <1>3, <1>7 DEF Surjection, ToSet
<1>9. S # {} => s # << >>
  BY <1>8 DEF ToSet
<1>10. s \in Seq(T)
  BY <1>2, <1>3
<1> QED BY <1>4, <1>8, <1>9, <1>10

LEMMA ListedAre ==
  /\ IsFiniteSet(Pids) /\ IsFiniteSet(Addresses) /\ IsFiniteSet(Descriptors)
  /\ \A x \in Addresses \union Descriptors : Rank[x] \in Nat \ {0}
  /\ \A S, x : Until(x, S) \in SUBSET S /\ Until(x, S) \in SUBSET Later(S) /\ Later(S) \in SUBSET S
BY LsofAssumption DEF Until, Later

-----------------------------------------------------------------------------
(* Type correctness.                                                       *)
LEMMA ProcessTypes ==
  ASSUME NEW p \in Pids, proc \in [Pids -> Processes \union {Gone}], Alive(p)
  PROVE  /\ proc[p] \in Process
         /\ proc[p].comm \in Comms
         /\ \A l \in Links : proc[p].link[l] \in Files
         /\ \A a \in Mapped(p) : proc[p].maps[a] \in Files \union {Anonymous}
         /\ \A d \in OpenFds(p) : /\ proc[p].fds[d].file \in Files
                                  /\ proc[p].fds[d].flags \in {"0", "1", "2", "3"}
<1>1. proc[p] \in Process
  BY ProcFsAssumption DEF Alive
<1> QED BY <1>1, ProcFsAssumption DEF Process, OpenFds, Mapped, Alive, Comms

LEMMA StatTypes ==
  /\ \A f \in Files : Stat(f) \in StatBuf
  /\ NoStat \in StatBuf
BY ProcFsAssumption DEF Stat, NoStat, StatBuf, Nodes

LEMMA GetTypeType == \A kind : get_type(kind) \in Types
BY DEF get_type, Types

LEMMA DescType ==
  ASSUME NEW fd \in Links \union {"mem", "NOFD"} \union Descriptors,
         NEW mode \in {"", "r", "w", "u", "N"},
         NEW st \in StatBuf,
         NEW name \in Files \union Words \union {Garbage, "Permission denied"}
  PROVE  Desc(fd, mode, st, name) \in Line
BY GetTypeType DEF Desc, Line, StatBuf

(* A line pushed to the process being read.                                *)
LEMMA PushedType ==
  ASSUME lsof \in Seq(Info), i \in DOMAIN lsof, NEW d \in Line
  PROVE  Pushed(d) \in Seq(Info) /\ DOMAIN Pushed(d) = DOMAIN lsof
<1>1. lsof[i] \in Info
  OBVIOUS
<1>2. Append(lsof[i].file_desc, d) \in Seq(Line)
  BY <1>1, AppendLine DEF Info
<1>3. [lsof[i] EXCEPT !.file_desc = Append(lsof[i].file_desc, d)] \in Info
  BY <1>1, <1>2 DEF Info
<1>4. Pushed(d) = [lsof EXCEPT ![i] = [lsof[i] EXCEPT !.file_desc = Append(lsof[i].file_desc, d)]]
  BY DEF Pushed
<1> QED BY <1>3, <1>4

(* The scan starts at the first process.                                   *)
TypeInv == TypeOK /\ (pc = "scandir" => i = 1)

LEMMA TypeInit == Init => TypeInv
<1> SUFFICES ASSUME Init PROVE TypeInv
  OBVIOUS
<1>1. pid_list \in Seq(Pids) /\ lsof \in Seq(Info) /\ collected \in Seq(Info)
  BY EmptyIn DEF Init
<1>2. sb \in StatBuf
  BY StatTypes DEF Init
<1>3. proc \in [Pids -> Processes \union {Gone}] /\ changes \in 0 .. MaxChanges
  BY ProcFsAssumption DEF Init, ProcInit
<1>4. dirs \in 0 .. MaxDirs /\ at \in Nat
  BY LsofAssumption DEF Init
<1>5. TodoOK /\ pc \in Point /\ ~(Reading /\ pc # "scandir")
  BY DEF Init, TodoOK, Point
<1>6. /\ buf \in Files \union {Garbage} /\ args \in All \union {NoArgs}
      /\ i = 1 /\ j = 1 /\ touched \in BOOLEAN
  BY DEF Init
<1> QED BY <1>1, <1>2, <1>3, <1>4, <1>5, <1>6 DEF TypeInv, TypeOK

LEMMA ProcessChangesType ==
  ASSUME TypeInv, ProcessChanges
  PROVE  TypeInv'
<1> USE DEF TypeInv
<1>1. PICK p \in Pids : Change(p) /\ touched' = (touched \/ (pc # "scandir" /\ pid = p))
  BY DEF ProcessChanges
<1>2. proc' \in [Pids -> Processes \union {Gone}]
  BY <1>1 DEF Change, TypeOK
<1>3. changes' \in 0 .. MaxChanges
  BY <1>1, ProcFsAssumption DEF Change, TypeOK
<1>4. touched' \in BOOLEAN
  <2>1. touched \in BOOLEAN
    BY DEF TypeOK
  <2> QED BY <1>1, <2>1, Zenon
<1>5. UNCHANGED <<pc, pid_list, lsof, sb, buf, todo, at, dirs, args, i, j, collected>>
  BY DEF ProcessChanges, readVars, searchVars
<1>6. TodoOK' = TodoOK /\ Reading' = Reading
  BY <1>5 DEF TodoOK, Reading
<1> QED BY <1>2, <1>3, <1>4, <1>5, <1>6 DEF TypeOK

LEMMA ScandirType ==
  ASSUME TypeInv, Scandir
  PROVE  TypeInv'
<1> USE DEF TypeInv
<1>1. pid_list' \in Seq(Pids)
  <2>1. PICK s \in Sorted({p \in Pids : Alive(p)}) : pid_list' = s
    BY DEF Scandir
  <2>2. {p \in Pids : Alive(p)} \in SUBSET Pids
    OBVIOUS
  <2> QED BY <2>1, <2>2, SortedLists, ListedAre
<1> DEFINE info(p) == [pid |-> p, comm |-> "", username |-> "", file_desc |-> << >>]
<1>3. lsof' = [k \in DOMAIN pid_list' |-> info(pid_list'[k])]
  BY DEF Scandir
<1>4. DOMAIN pid_list' = 1 .. Len(pid_list') /\ Len(pid_list') \in Nat
  BY <1>1
<1>2. \A p \in Pids : info(p) \in Info
  BY EmptyIn DEF Info, Comms, Names
<1> HIDE DEF info
<1>5. lsof' \in [1 .. Len(pid_list') -> Info]
  <2>1. \A k \in 1 .. Len(pid_list') : pid_list'[k] \in Pids
    BY <1>1
  <2> QED BY <1>2, <1>3, <1>4, <2>1
<1>6. lsof' \in Seq(Info) /\ DOMAIN lsof' = DOMAIN pid_list'
  BY <1>3, <1>4, <1>5
<1>7. i' = 1
  BY DEF Scandir, searchVars, TypeOK
<1>8. pid_list' = << >> \/ Len(pid_list') >= 1
  BY <1>1, <1>4
<1>9. /\ pc = "scandir"
      /\ pc' = IF pid_list' = << >> THEN "getopt" ELSE "comm"
      /\ UNCHANGED <<proc, changes, sb, buf, todo, at, dirs, args, j, collected, touched>>
  BY DEF Scandir, procVars, readVars, searchVars, Goto
<1>10. TodoOK'
  BY <1>9 DEF TypeOK, TodoOK
<1> QED BY <1>1, <1>4, <1>6, <1>7, <1>8, <1>9, <1>10 DEF TypeOK, Reading, Point

(* The process being read, and its entry.                                  *)
LEMMA AtProcess ==
  ASSUME TypeInv, Reading, pc # "scandir"
  PROVE  /\ i \in DOMAIN lsof /\ i \in 1 .. Len(pid_list) /\ Len(pid_list) \in Nat
         /\ lsof \in Seq(Info) /\ lsof[i] \in Info
         /\ pid \in Pids
         /\ Alive(pid) => proc[pid] \in Process
BY ProcessTypes DEF TypeInv, TypeOK, pid

(* Steps that leave the lists and indices alone.                           *)
LEMMA SameLists ==
  ASSUME TypeInv, UNCHANGED <<procVars, pid_list, args, searchVars>>,
         Reading, pc # "scandir", pc' \in Point, pc' # "scandir",
         lsof' \in Seq(Info), DOMAIN lsof' = DOMAIN lsof,
         sb' \in StatBuf, buf' \in Files \union {Garbage}, TodoOK', at' \in Nat, dirs' \in 0 .. MaxDirs,
         touched' \in BOOLEAN
  PROVE  TypeInv'
BY DEF TypeInv, TypeOK, procVars, searchVars

LEMMA EntryReplaced ==
  ASSUME lsof \in Seq(Info), i \in DOMAIN lsof, NEW e \in Info
  PROVE  [lsof EXCEPT ![i] = e] \in Seq(Info) /\ DOMAIN [lsof EXCEPT ![i] = e] = DOMAIN lsof
  OBVIOUS

LEMMA GetCommType ==
  ASSUME TypeInv, GetComm
  PROVE  TypeInv'
<1>1. pc = "comm" /\ pc' = "uid" /\ touched' = FALSE /\ Reading
  BY DEF GetComm, Goto, Reading
<1>2. (IF Alive(pid) /\ HasDescriptor THEN proc[pid].comm ELSE "") \in Comms
  BY <1>1, AtProcess, ProcessTypes DEF TypeInv, TypeOK, Comms
<1>3. [lsof[i] EXCEPT !.comm = IF Alive(pid) /\ HasDescriptor THEN proc[pid].comm ELSE ""] \in Info
  BY <1>1, <1>2, AtProcess DEF Info
<1>4. lsof' = [lsof EXCEPT ![i] = [lsof[i] EXCEPT !.comm = IF Alive(pid) /\ HasDescriptor THEN proc[pid].comm ELSE ""]]
  BY DEF GetComm
<1>5. lsof' \in Seq(Info) /\ DOMAIN lsof' = DOMAIN lsof
  BY <1>1, <1>3, <1>4, AtProcess, EntryReplaced
<1>6. UNCHANGED <<sb, buf, todo, at, dirs>>
  BY DEF GetComm, readVars
<1>7. TodoOK'
  BY <1>1, <1>6 DEF TypeInv, TypeOK, TodoOK
<1>8. UNCHANGED <<procVars, pid_list, args, searchVars>>
  BY DEF GetComm
<1> QED BY <1>1, <1>5, <1>6, <1>7, <1>8, SameLists DEF TypeInv, TypeOK, Point

LEMMA GetUsernameType ==
  ASSUME TypeInv, GetUsername
  PROVE  TypeInv'
<1> DEFINE uid == IF Alive(pid) THEN proc[pid].uid ELSE "0"
<1>1. /\ pc = "uid" /\ Reading
      /\ UNCHANGED <<procVars, pid_list, sb, buf, at, dirs, args, searchVars, touched>>
  BY DEF GetUsername, Reading
<1>2. CASE uid \in DOMAIN Users /\ HasDescriptor
  <2>1. /\ lsof' = [lsof EXCEPT ![i] = [lsof[i] EXCEPT !.username = Users[uid]]]
        /\ todo' = <<"cwd", "root", "exe">> /\ pc' = "access"
    BY <1>2 DEF GetUsername, Goto
  <2>2. [lsof[i] EXCEPT !.username = Users[uid]] \in Info
    BY <1>1, <1>2, AtProcess DEF Info, Names
  <2>3. lsof' \in Seq(Info) /\ DOMAIN lsof' = DOMAIN lsof
    BY <1>1, <2>1, <2>2, AtProcess
  <2>4. TodoOK'
    BY <2>1 DEF TodoOK, Links
  <2> QED BY <1>1, <2>1, <2>3, <2>4, SameLists DEF TypeInv, TypeOK, Point
<1>3. CASE ~(uid \in DOMAIN Users /\ HasDescriptor)
  <2>1. pc' = "crashed" /\ UNCHANGED <<lsof, todo>>
    BY <1>3 DEF GetUsername, Goto
  <2>2. TodoOK'
    BY <1>1, <2>1 DEF TypeInv, TypeOK, TodoOK
  <2> QED BY <1>1, <2>1, <2>2, SameLists DEF TypeInv, TypeOK, Point
<1> QED BY <1>2, <1>3

LEMMA GetLinksType ==
  ASSUME TypeInv, GetLinks
  PROVE  TypeInv'
<1>0. /\ pc \in {"access", "readlink", "stat"} /\ Reading
      /\ UNCHANGED <<procVars, pid_list, sb, at, dirs, args, searchVars, touched>>
  BY DEF GetLinks, AccessLink, ReadLink, StatLink, Reading
<1>1. /\ todo \in Seq(Links) /\ todo # << >>
      /\ sb \in StatBuf /\ buf \in Files \union {Garbage} /\ at \in Nat /\ dirs \in 0 .. MaxDirs
      /\ touched \in BOOLEAN
  BY <1>0 DEF TypeInv, TypeOK, TodoOK
<1>2. Head(todo) \in Links /\ Tail(todo) \in Seq(Links) /\ (Len(todo) # 1 => Tail(todo) # << >>)
  BY <1>1, FirstAndRest
<1>3. ASSUME todo' = Tail(todo), pc' = AfterLink PROVE TodoOK' /\ pc' \in Point
  <2>1. CASE Len(todo) = 1
    <3>1. Len(Tail(todo)) = 0
      BY <1>1, <2>1, FirstAndRest
    <3> QED BY <1>2, <1>3, <2>1, <3>1, EmptySeq DEF AfterLink, TodoOK, Point
  <2>2. CASE Len(todo) # 1
    BY <1>2, <1>3, <2>2 DEF AfterLink, TodoOK, Point
  <2> QED BY <2>1, <2>2
<1>4. CASE AccessLink
  <2>1. CASE Shown(pid, Head(todo))
    <3>1. pc' = "readlink" /\ UNCHANGED <<lsof, todo, buf>>
      BY <1>4, <2>1 DEF AccessLink, Goto
    <3>2. TodoOK' /\ pc' \in Point
      BY <1>1, <3>1 DEF TodoOK, Point
    <3> QED BY <1>0, <1>1, <3>1, <3>2, SameLists DEF TypeInv, TypeOK
  <2>2. CASE ~Shown(pid, Head(todo))
    <3>1. lsof' = Pushed(Denied(Head(todo))) /\ todo' = Tail(todo) /\ pc' = AfterLink /\ buf' = buf
      BY <1>4, <2>2 DEF AccessLink, Goto
    <3>2. Denied(Head(todo)) \in Line
      BY <1>2 DEF Denied, Line, Types, Nodes
    <3>3. lsof' \in Seq(Info) /\ DOMAIN lsof' = DOMAIN lsof
      BY <1>0, <3>1, <3>2, AtProcess, PushedType
    <3>4. pc' # "scandir"
      BY <3>1 DEF AfterLink
    <3> QED BY <1>0, <1>1, <1>3, <3>1, <3>3, <3>4, SameLists
  <2> QED BY <2>1, <2>2
<1>5. CASE ReadLink
  <2>1. pc' = "stat" /\ UNCHANGED <<lsof, todo>>
    BY <1>5 DEF ReadLink, Goto
  <2>2. buf' \in Files \union {Garbage}
    BY <1>0, <1>2, <1>5, AtProcess, ProcessTypes DEF ReadLink, Outcomes, TypeInv, TypeOK
  <2>3. TodoOK' /\ pc' \in Point
    BY <1>1, <2>1 DEF TodoOK, Point
  <2> QED BY <1>0, <1>1, <2>1, <2>2, <2>3, SameLists DEF TypeInv, TypeOK
<1>6. CASE StatLink
  <2>0. PICK st \in Outcomes(Stat(proc[pid].link[Head(todo)]), NoStat) :
          lsof' = Pushed(Desc(Head(todo), "", st, buf))
    BY <1>6 DEF StatLink
  <2>1. /\ lsof' = Pushed(Desc(Head(todo), "", st, buf)) /\ todo' = Tail(todo)
        /\ pc' = AfterLink /\ buf' = Garbage
    BY <1>6, <2>0 DEF StatLink, Goto
  <2>2. st \in StatBuf
    BY <1>0, <1>2, AtProcess, ProcessTypes, StatTypes DEF Outcomes, TypeInv, TypeOK
  <2>3. Desc(Head(todo), "", st, buf) \in Line
    BY <1>1, <1>2, <2>2, DescType
  <2>4. lsof' \in Seq(Info) /\ DOMAIN lsof' = DOMAIN lsof
    BY <1>0, <2>1, <2>3, AtProcess, PushedType
  <2>5. pc' # "scandir"
    BY <2>1 DEF AfterLink
  <2> QED BY <1>0, <1>1, <1>3, <2>1, <2>4, <2>5, SameLists
<1> QED BY <1>4, <1>5, <1>6 DEF GetLinks

LEMMA ScandirFailsType ==
  ASSUME TypeInv, ScandirFails
  PROVE  TypeInv'
<1>1. /\ pc = "scandir" /\ pc' = "crashed" /\ UNCHANGED <<proc, changes, pid_list, lsof, sb, buf, todo, at, dirs>>
      /\ UNCHANGED <<args, i, j, collected, touched>>
  BY DEF ScandirFails, Goto, procVars, readVars, searchVars
<1>2. TodoOK' /\ pc' \in Point /\ ~Reading'
  BY <1>1 DEF TypeInv, TypeOK, TodoOK, Point, Reading
<1> QED BY <1>1, <1>2 DEF TypeInv, TypeOK

LEMMA WordsTypes ==
  /\ \A f \in Files \union {Anonymous} : WordsIn[f] \in Seq(Words)
  /\ MapsStat \in StatBuf
BY LsofAssumption, StatTypes DEF MapsStat, StatBuf, Nodes, Kinds

(* A listed piece of maps, as the lines it has.                            *)
LEMMA PieceOfMaps ==
  ASSUME TypeInv, Reading, pc # "scandir", NEW x \in Later(Mapped(pid)),
         NEW s \in Sorted(Until(x, Mapped(pid)))
  PROVE  /\ Rank[x] \in Nat /\ Rank[x] > at
         /\ s \in Seq(Addresses) /\ ToSet(s) = Until(x, Mapped(pid)) /\ s # << >>
         /\ [k \in DOMAIN s |-> WordsIn[proc[pid].maps[s[k]]]] \in Seq(Seq(Words)) \ {<< >>}
<1>1. Alive(pid) /\ Mapped(pid) \in SUBSET Addresses
  BY DEF Later, Mapped
<1>2. /\ x \in Addresses /\ Rank[x] \in Nat /\ Rank[x] > at
      /\ Until(x, Mapped(pid)) \in SUBSET Addresses /\ Until(x, Mapped(pid)) \in SUBSET Mapped(pid)
      /\ x \in Until(x, Mapped(pid))
  BY <1>1, ListedAre DEF Later, Until
<1>3. s \in Seq(Addresses) /\ ToSet(s) = Until(x, Mapped(pid)) /\ s # << >>
  BY <1>2, ListedAre, SortedLists
<1>4. \A k \in DOMAIN s : s[k] \in Mapped(pid)
  BY <1>2, <1>3 DEF ToSet
<1>5. \A a \in Mapped(pid) : WordsIn[proc[pid].maps[a]] \in Seq(Words)
  BY <1>1, AtProcess, ProcessTypes, WordsTypes DEF TypeInv, TypeOK
<1> DEFINE lines == [k \in DOMAIN s |-> WordsIn[proc[pid].maps[s[k]]]]
<1>6. DOMAIN s = 1 .. Len(s) /\ Len(s) \in Nat /\ Len(s) # 0
  BY <1>3, EmptySeq, LenProperties
<1>7. lines \in [1 .. Len(s) -> Seq(Words)]
  BY <1>4, <1>5, <1>6
<1>8. lines \in Seq(Seq(Words)) /\ Len(lines) = Len(s)
  BY <1>6, <1>7
<1>9. lines # << >>
  BY <1>6, <1>8
<1> QED BY <1>2, <1>3, <1>8, <1>9

(* The line in hand, and its next word.                                    *)
LEMMA WordOfLine ==
  ASSUME NEW td \in Seq(Seq(Words)), td # << >>
  PROVE  /\ Head(td) \in Seq(Words) /\ Tail(td) \in Seq(Seq(Words))
         /\ Len(td) # 1 => Tail(td) # << >>
         /\ Head(td) # << >> =>
              /\ Head(Head(td)) \in Words
              /\ <<Tail(Head(td))>> \o Tail(td) \in Seq(Seq(Words)) \ {<< >>}
              /\ Head(<<Tail(Head(td))>> \o Tail(td)) = Tail(Head(td))
              /\ Tail(<<Tail(Head(td))>> \o Tail(td)) = Tail(td)
              /\ Len(<<Tail(Head(td))>> \o Tail(td)) = Len(td)
<1>1. /\ Head(td) \in Seq(Words) /\ Tail(td) \in Seq(Seq(Words)) /\ (Len(td) # 1 => Tail(td) # << >>)
      /\ Len(Tail(td)) = Len(td) - 1 /\ Len(td) \in Nat /\ Len(td) >= 1
  BY FirstAndRest
<1>2. ASSUME NEW l \in Seq(Words), NEW r \in Seq(Seq(Words))
      PROVE  /\ <<l>> \o r \in Seq(Seq(Words)) /\ Len(<<l>> \o r) = Len(r) + 1
             /\ (<<l>> \o r)[1] = l
             /\ \A k \in 1 .. Len(r) : (<<l>> \o r)[k + 1] = r[k]
  <2> DEFINE T == Seq(Words)
  <2> HIDE DEF T
  <2>1. l \in T /\ r \in Seq(T)
    BY <1>2 DEF T
  <2>2. <<l>> \in Seq(T)
    BY <2>1
  <2> QED BY <2>1, <2>2 DEF T
<1>3. ASSUME Head(td) # << >>
      PROVE  Head(Head(td)) \in Words /\ Tail(Head(td)) \in Seq(Words)
  BY <1>1, <1>3, FirstAndRest
<1>4. ASSUME NEW l \in Seq(Words), NEW r \in Seq(Seq(Words))
      PROVE  /\ <<l>> \o r # << >> /\ Head(<<l>> \o r) = l /\ Tail(<<l>> \o r) = r
  <2> DEFINE T == Seq(Words)
             q == <<l>> \o r
  <2> HIDE DEF T, q
  <2>1. /\ q \in Seq(T) /\ Len(q) = Len(r) + 1 /\ q[1] = l /\ r \in Seq(T) /\ Len(r) \in Nat
        /\ \A k \in 1 .. Len(r) : q[k + 1] = r[k]
    BY <1>2, <1>4 DEF T, q
  <2>2. q # << >>
    BY <2>1
  <2>3. /\ Head(q) = l /\ Tail(q) \in Seq(T) /\ Len(Tail(q)) = Len(r)
        /\ \A k \in 1 .. Len(r) : Tail(q)[k] = q[k + 1]
    BY <2>1, <2>2, FirstAndRest
  <2>4. Tail(q) = r
    <3>1. \A k \in 1 .. Len(r) : Tail(q)[k] = r[k]
      BY <2>1, <2>3
    <3> QED BY <2>1, <2>3, <3>1, SeqEqual
  <2> QED BY <2>2, <2>3, <2>4 DEF q
<1>5. ASSUME Head(td) # << >>
      PROVE  Len(<<Tail(Head(td))>> \o Tail(td)) = Len(td)
  BY <1>1, <1>2, <1>3, <1>5
<1> QED BY <1>1, <1>2, <1>3, <1>4, <1>5

LEMMA GetMemType ==
  ASSUME TypeInv, GetMem
  PROVE  TypeInv'
<1>0. /\ pc \in {"maps", "mapsread", "mapsstat"} /\ Reading /\ pc # "scandir"
      /\ UNCHANGED <<procVars, pid_list, sb, buf, dirs, args, searchVars, touched>>
  BY DEF GetMem, AccessMaps, ReadMaps, MapsEnd, StatMaps, Reading, readVars
<1>1. /\ sb \in StatBuf /\ buf \in Files \union {Garbage} /\ dirs \in 0 .. MaxDirs /\ touched \in BOOLEAN
      /\ at \in Nat /\ lsof \in Seq(Info)
  BY DEF TypeInv, TypeOK
<1>2. CASE AccessMaps
  <2>1. pc' \in {"mapsread", "fd"} /\ at' = 0 /\ UNCHANGED <<lsof, todo>> /\ todo = << >>
    BY <1>2 DEF AccessMaps, Goto, TypeInv, TypeOK, TodoOK
  <2>2. TodoOK' /\ pc' \in Point /\ pc' # "scandir"
    BY <2>1 DEF TodoOK, Point
  <2> QED BY <1>0, <1>1, <2>1, <2>2, SameLists
<1>3. CASE ReadMaps
  <2>1. PICK x \in Later(Mapped(pid)) :
          /\ at' = Rank[x]
          /\ \E s \in Sorted(Until(x, Mapped(pid))) :
               todo' = [k \in DOMAIN s |-> WordsIn[proc[pid].maps[s[k]]]]
    BY <1>3 DEF ReadMaps
  <2>5. PICK s \in Sorted(Until(x, Mapped(pid))) :
          todo' = [k \in DOMAIN s |-> WordsIn[proc[pid].maps[s[k]]]]
    BY <2>1
  <2>2. at' \in Nat /\ todo' \in Seq(Seq(Words)) \ {<< >>}
    BY <1>0, <2>1, <2>5, PieceOfMaps
  <2>3. pc' = "mapsstat" /\ UNCHANGED lsof
    BY <1>3 DEF ReadMaps, Goto
  <2>4. TodoOK' /\ pc' \in Point
    BY <2>2, <2>3 DEF TodoOK, Point
  <2> QED BY <1>0, <1>1, <2>2, <2>3, <2>4, SameLists
<1>4. CASE MapsEnd
  <2>1. pc' = "fd" /\ UNCHANGED <<lsof, todo, at>> /\ todo = << >>
    BY <1>4 DEF MapsEnd, Goto, readVars, TypeInv, TypeOK, TodoOK
  <2>2. TodoOK' /\ pc' \in Point
    BY <2>1 DEF TodoOK, Point
  <2> QED BY <1>0, <1>1, <2>1, <2>2, SameLists
<1>5. CASE StatMaps
  <2>1. pc = "mapsstat" /\ todo \in Seq(Seq(Words)) /\ todo # << >> /\ at' = at
    BY <1>5 DEF StatMaps, TypeInv, TypeOK, TodoOK
  <2>2. CASE Head(todo) = << >>
    <3>1. /\ todo' = Tail(todo) /\ UNCHANGED lsof
          /\ pc' = IF Len(todo) = 1 THEN "mapsread" ELSE "mapsstat"
      BY <1>5, <2>2 DEF StatMaps, Goto
    <3>2. /\ Tail(todo) \in Seq(Seq(Words)) /\ (Len(todo) = 1 <=> Tail(todo) = << >>)
      BY <2>1, FirstAndRest
    <3>3. TodoOK' /\ pc' \in Point /\ pc' # "scandir"
      BY <3>1, <3>2 DEF TodoOK, Point
    <3> QED BY <1>0, <1>1, <2>1, <3>1, <3>3, SameLists
  <2>3. CASE Head(todo) # << >>
    <3> DEFINE w == Head(Head(todo))
               d == Desc("mem", "", MapsStat, w)
    <3>1. /\ lsof' = IF HasMem(w) THEN lsof ELSE Pushed(d)
          /\ todo' = <<Tail(Head(todo))>> \o Tail(todo) /\ pc' = pc
      BY <1>5, <2>3 DEF StatMaps
    <3>2. w \in Words /\ todo' \in Seq(Seq(Words)) \ {<< >>}
      BY <2>1, <2>3, <3>1, WordOfLine
    <3>3. d \in Line
      BY <3>2, WordsTypes, DescType
    <3>4. lsof' \in Seq(Info) /\ DOMAIN lsof' = DOMAIN lsof
      BY <1>0, <3>1, <3>3, AtProcess, PushedType
    <3>5. TodoOK' /\ pc' \in Point
      BY <2>1, <3>1, <3>2 DEF TodoOK, Point
    <3> QED BY <1>0, <1>1, <2>1, <3>1, <3>4, <3>5, SameLists
  <2> QED BY <2>2, <2>3
<1> QED BY <1>2, <1>3, <1>4, <1>5 DEF GetMem

LEMMA NoFdType == \A st \in StatBuf : NoFd(st) \in Line
<1> SUFFICES ASSUME NEW st \in StatBuf PROVE NoFd(st) \in Line
  OBVIOUS
<1>1. Desc("NOFD", "", st, "Permission denied") \in Line
  BY DescType
<1> QED BY <1>1 DEF NoFd, Line, Nodes

(* A listed piece of the directory.                                        *)
LEMMA PieceOfFds ==
  ASSUME NEW x \in Later(OpenFds(pid)), NEW s \in Sorted(Until(x, OpenFds(pid))), at \in Nat
  PROVE  /\ Rank[x] \in Nat /\ Rank[x] > at
         /\ s \in Seq(Descriptors) /\ IsInjective(s) /\ ToSet(s) = Until(x, OpenFds(pid)) /\ s # << >>
<1>1. OpenFds(pid) \in SUBSET Descriptors
  BY DEF OpenFds
<1>2. /\ x \in Descriptors /\ Rank[x] \in Nat /\ Rank[x] > at
      /\ Until(x, OpenFds(pid)) \in SUBSET Descriptors /\ x \in Until(x, OpenFds(pid))
  BY <1>1, ListedAre DEF Later, Until
<1> QED BY <1>2, ListedAre, SortedLists

LEMMA GetFdType ==
  ASSUME TypeInv, GetFd
  PROVE  TypeInv'
<1>0. /\ pc \in {"fd", "opendir", "readdir", "fdstat", "fdlink", "fdinfo"} /\ Reading /\ pc # "scandir"
      /\ UNCHANGED <<procVars, pid_list, args, searchVars, touched>>
  BY DEF GetFd, AccessFd, Opendir, Readdir, ReaddirEnds, FdStat, FdLink, FdInfo, Reading, readVars
<1>1. /\ sb \in StatBuf /\ buf \in Files \union {Garbage} /\ at \in Nat /\ dirs \in 0 .. MaxDirs
      /\ touched \in BOOLEAN /\ lsof \in Seq(Info)
  BY DEF TypeInv, TypeOK
<1>2. CASE AccessFd
  <2>1. UNCHANGED <<sb, buf, todo, at, dirs>> /\ todo = << >>
    BY <1>2 DEF AccessFd, readVars, TypeInv, TypeOK, TodoOK
  <2>2. CASE Shown(pid, "fd")
    <3>1. pc' = "opendir" /\ UNCHANGED lsof
      BY <1>2, <2>2 DEF AccessFd, Goto
    <3>2. TodoOK' /\ pc' \in Point
      BY <2>1, <3>1 DEF TodoOK, Point
    <3> QED BY <1>0, <1>1, <2>1, <3>1, <3>2, SameLists
  <2>3. CASE ~Shown(pid, "fd")
    <3>1. pc' = "next" /\ lsof' = Pushed(NoFd(sb))
      BY <1>2, <2>3 DEF AccessFd, Goto
    <3>2. lsof' \in Seq(Info) /\ DOMAIN lsof' = DOMAIN lsof
      BY <1>0, <1>1, <3>1, NoFdType, AtProcess, PushedType
    <3>3. TodoOK' /\ pc' \in Point
      BY <2>1, <3>1 DEF TodoOK, Point
    <3> QED BY <1>0, <1>1, <2>1, <3>1, <3>2, <3>3, SameLists
  <2> QED BY <2>2, <2>3
<1>3. CASE Opendir
  <2>1. UNCHANGED <<lsof, sb, buf, todo>> /\ pc = "opendir" /\ todo = << >>
    BY <1>3 DEF Opendir, TypeInv, TypeOK, TodoOK
  <2>2. CASE Shown(pid, "fd") /\ HasDescriptor
    <3>1. dirs' = dirs + 1 /\ at' = 0 /\ pc' = "readdir"
      BY <1>3, <2>2 DEF Opendir, Goto
    <3>2. TodoOK' /\ pc' \in Point
      BY <2>1, <3>1 DEF TodoOK, Point
    <3>3. dirs' \in 0 .. MaxDirs
      BY <1>1, <2>2, <3>1, LsofAssumption DEF HasDescriptor
    <3> QED BY <1>0, <1>1, <2>1, <3>1, <3>2, <3>3, SameLists
  <2>3. CASE ~(Shown(pid, "fd") /\ HasDescriptor)
    <3>1. pc' = "crashed" /\ UNCHANGED <<dirs, at>>
      BY <1>3, <2>3 DEF Opendir, Goto
    <3>2. TodoOK' /\ pc' \in Point
      BY <2>1, <3>1 DEF TodoOK, Point
    <3> QED BY <1>0, <1>1, <2>1, <3>1, <3>2, SameLists
  <2> QED BY <2>2, <2>3
<1>9. CASE Readdir
  <2>1. PICK x \in Later(OpenFds(pid)) :
          at' = Rank[x] /\ \E s \in Sorted(Until(x, OpenFds(pid))) : todo' = s
    BY <1>9 DEF Readdir
  <2>5. PICK s \in Sorted(Until(x, OpenFds(pid))) : todo' = s
    BY <2>1
  <2>2. at' \in Nat /\ todo' \in Seq(Descriptors) \ {<< >>}
    BY <1>1, <2>1, <2>5, PieceOfFds
  <2>3. pc' = "fdstat" /\ UNCHANGED <<lsof, sb, buf, dirs>>
    BY <1>9 DEF Readdir, Goto
  <2>4. TodoOK' /\ pc' \in Point
    BY <2>2, <2>3 DEF TodoOK, Point
  <2> QED BY <1>0, <1>1, <2>2, <2>3, <2>4, SameLists
<1>10. CASE ReaddirEnds
  <2>1. pc' = "next" /\ UNCHANGED <<lsof, sb, buf, todo, at, dirs>> /\ todo = << >>
    BY <1>10 DEF ReaddirEnds, Goto, readVars, TypeInv, TypeOK, TodoOK
  <2>2. TodoOK' /\ pc' \in Point
    BY <2>1 DEF TodoOK, Point
  <2> QED BY <1>0, <1>1, <2>1, <2>2, SameLists
<1>4. ASSUME pc \in {"fdstat", "fdlink", "fdinfo"}
      PROVE  /\ todo \in Seq(Descriptors) /\ todo # << >>
             /\ Head(todo) \in Descriptors /\ Tail(todo) \in Seq(Descriptors)
             /\ Len(todo) = 1 => Tail(todo) = << >>
             /\ Len(todo) # 1 => Tail(todo) # << >>
  <2>1. todo \in Seq(Descriptors) /\ todo # << >>
    BY <1>4 DEF TypeInv, TypeOK, TodoOK
  <2> QED BY <2>1, FirstAndRest
<1>5. ASSUME NEW d \in Descriptors, HasFd(pid, d)
      PROVE  /\ proc[pid].fds[d].file \in Files
             /\ proc[pid].fds[d].flags \in {"0", "1", "2", "3"}
  BY <1>0, <1>5, AtProcess, ProcessTypes DEF HasFd, Shown, TypeInv, TypeOK
<1>6. CASE FdStat
  <2>1. pc = "fdstat" /\ pc' = "fdlink" /\ UNCHANGED <<lsof, buf, todo, at, dirs>>
    BY <1>6 DEF FdStat, Goto
  <2>2. sb' \in StatBuf
    BY <1>1, <1>4, <1>5, <1>6, <2>1, StatTypes DEF FdStat, StatAfter
  <2>3. TodoOK' /\ pc' \in Point
    BY <1>4, <2>1 DEF TodoOK, Point
  <2> QED BY <1>0, <1>1, <2>1, <2>2, <2>3, SameLists
<1>7. CASE FdLink
  <2>1. pc = "fdlink" /\ pc' = "fdinfo" /\ UNCHANGED <<lsof, sb, todo, at, dirs>>
    BY <1>7 DEF FdLink, Goto
  <2>2. buf' \in Files \union {Garbage}
    BY <1>1, <1>4, <1>5, <1>7, <2>1 DEF FdLink
  <2>3. TodoOK' /\ pc' \in Point
    BY <1>4, <2>1 DEF TodoOK, Point
  <2> QED BY <1>0, <1>1, <2>1, <2>2, <2>3, SameLists
<1>8. CASE FdInfo
  <2> DEFINE d    == Head(todo)
             mode == IF HasFd(pid, d) /\ HasDescriptor THEN Letter(proc[pid].fds[d].flags) ELSE ""
  <2>1. /\ pc = "fdinfo" /\ lsof' = Pushed(Desc(d, mode, sb, buf)) /\ todo' = Tail(todo)
        /\ pc' = IF Len(todo) = 1 THEN "readdir" ELSE "fdstat"
        /\ UNCHANGED <<sb, buf, at, dirs>>
    BY <1>8 DEF FdInfo, Goto
  <2>2. mode \in {"", "r", "w", "u", "N"}
    BY <1>4, <1>5, <2>1 DEF Letter
  <2>3. Desc(d, mode, sb, buf) \in Line
    BY <1>1, <1>4, <2>1, <2>2, DescType
  <2>4. lsof' \in Seq(Info) /\ DOMAIN lsof' = DOMAIN lsof
    BY <1>0, <2>1, <2>3, AtProcess, PushedType
  <2>5. TodoOK' /\ pc' \in Point
    BY <1>4, <2>1 DEF TodoOK, Point
  <2> QED BY <1>0, <1>1, <2>1, <2>4, <2>5, SameLists
<1> QED BY <1>2, <1>3, <1>6, <1>7, <1>8, <1>9, <1>10 DEF GetFd

LEMMA NextPidType ==
  ASSUME TypeInv, NextPid
  PROVE  TypeInv'
<1>0. /\ pc = "next" /\ Reading /\ todo = << >>
      /\ UNCHANGED <<procVars, pid_list, lsof, todo, at, dirs, args, j, touched>>
      /\ sb' = NoStat /\ buf' = Garbage
  BY DEF NextPid, Reading, TypeInv, TypeOK, TodoOK
<1>1. i \in 1 .. Len(pid_list) /\ Len(pid_list) \in Nat /\ DOMAIN lsof = DOMAIN pid_list
  BY <1>0, AtProcess DEF TypeInv, TypeOK
<1>2. /\ pc' \in {"comm", "getopt"} /\ collected' \in Seq(Info) /\ i' \in Nat \ {0}
      /\ pc' = "comm" => i' \in 1 .. Len(pid_list)
  BY <1>0, <1>1 DEF NextPid, HasNext, Goto, TypeInv, TypeOK
<1>3. TodoOK' /\ pc' \in Point /\ (Reading' => pc' = "comm")
  BY <1>0, <1>2 DEF TodoOK, Point, Reading
<1>4. sb' \in StatBuf /\ buf' \in Files \union {Garbage}
  BY <1>0, StatTypes
<1>5. DOMAIN pid_list = 1 .. Len(pid_list)
  BY DEF TypeInv, TypeOK
<1> QED BY <1>0, <1>1, <1>2, <1>3, <1>4, <1>5 DEF TypeInv, TypeOK, procVars

(* The search leaves the processes and the buffers alone.                  *)
LEMMA SearchStep ==
  ASSUME TypeInv, pc \in {"getopt", "search_comm", "search_type", "search_file"},
         pc' \in {"search_comm", "search_type", "search_file", "done", "crashed"},
         UNCHANGED <<procVars, pid_list, readVars, collected, touched>>,
         lsof' \in Seq(Info), args' \in All \union {NoArgs},
         i' \in Nat \ {0}, j' \in Nat \ {0}
  PROVE  TypeInv'
<1>1. TodoOK' /\ pc' \in Point /\ ~Reading' /\ pc' # "scandir"
  BY DEF TypeInv, TypeOK, TodoOK, Point, Reading, readVars
<1> QED BY <1>1 DEF TypeInv, TypeOK, procVars, readVars

LEMMA GetoptType ==
  ASSUME TypeInv, Getopt
  PROVE  TypeInv'
BY SearchStep DEF Getopt, Goto, searchVars, TypeInv, TypeOK

LEMMA SearchCommType ==
  ASSUME TypeInv, SearchComm
  PROVE  TypeInv'
<1>0. /\ pc = "search_comm" /\ UNCHANGED <<procVars, pid_list, readVars, args, j, collected, touched>>
      /\ lsof \in Seq(Info) /\ i \in Nat \ {0} /\ Len(lsof) \in Nat
      /\ args \in All \union {NoArgs} /\ j \in Nat \ {0}
  BY DEF SearchComm, TypeInv, TypeOK
<1>1. lsof' = lsof \/ (i \in 1 .. Len(lsof) /\ lsof' = Erased(lsof, i))
  BY <1>0 DEF SearchComm
<1>2. lsof' \in Seq(Info)
  BY <1>0, <1>1, ErasedType
<1>3. pc' \in {"search_comm", "search_type", "crashed"} /\ i' \in Nat \ {0}
  BY <1>0 DEF SearchComm, Goto
<1> QED BY <1>0, <1>2, <1>3, SearchStep

LEMMA SearchDescType ==
  ASSUME TypeInv, SearchDesc
  PROVE  TypeInv'
<1>0. /\ pc \in {"search_type", "search_file"}
      /\ UNCHANGED <<procVars, pid_list, readVars, args, collected, touched>>
      /\ lsof \in Seq(Info) /\ i \in Nat \ {0} /\ Len(lsof) \in Nat
      /\ args \in All \union {NoArgs} /\ j \in Nat \ {0}
  BY DEF SearchDesc, TypeInv, TypeOK
<1> DEFINE rest == Erased(lsof[i].file_desc, j)
<1>1. \/ lsof' = lsof
      \/ /\ i \in 1 .. Len(lsof) /\ ~(j > Len(lsof[i].file_desc))
         /\ lsof' = [lsof EXCEPT ![i] = [lsof[i] EXCEPT !.file_desc = rest]]
  BY <1>0 DEF SearchDesc
<1>2. lsof' \in Seq(Info)
  <2> SUFFICES ASSUME i \in 1 .. Len(lsof), ~(j > Len(lsof[i].file_desc)),
                      lsof' = [lsof EXCEPT ![i] = [lsof[i] EXCEPT !.file_desc = rest]]
               PROVE  lsof' \in Seq(Info)
    BY <1>0, <1>1
  <2>1. lsof[i] \in Info /\ i \in DOMAIN lsof
    BY <1>0
  <2>2. lsof[i].file_desc \in Seq(Line) /\ Len(lsof[i].file_desc) \in Nat
    BY <2>1 DEF Info
  <2>3. rest \in Seq(Line)
    BY <1>0, <2>2, ErasedType
  <2>4. [lsof[i] EXCEPT !.file_desc = rest] \in Info
    BY <2>1, <2>3 DEF Info
  <2> QED BY <1>0, <2>1, <2>4, EntryReplaced
<1>3. pc' \in {"search_type", "search_file", "done", "crashed"} /\ i' \in Nat \ {0} /\ j' \in Nat \ {0}
  BY <1>0 DEF SearchDesc, Goto
<1> QED BY <1>0, <1>2, <1>3, SearchStep

LEMMA TypeStutter ==
  ASSUME TypeInv, UNCHANGED vars
  PROVE  TypeInv'
BY DEF TypeInv, TypeOK, TodoOK, Reading, vars, procVars, readVars, searchVars

LEMMA TypeStep == TypeInv /\ [Next]_vars => TypeInv'
<1> SUFFICES ASSUME TypeInv, [Next]_vars PROVE TypeInv'
  OBVIOUS
<1> QED BY ProcessChangesType, ScandirFailsType, ScandirType, GetCommType, GetUsernameType, GetLinksType, GetMemType,
           GetFdType, NextPidType, GetoptType, SearchCommType, SearchDescType, TypeStutter
        DEF Next, Step

(* Whatever the processes do and whichever options are given, the scan     *)
(* stays within pid_list and the search within its vectors.                *)
THEOREM TypeCorrect == Spec => []TypeOK
<1>1. Spec => []TypeInv
  BY TypeInit, TypeStep, PTL DEF Spec
<1>2. TypeInv => TypeOK
  BY DEF TypeInv
<1> QED BY <1>1, <1>2, PTL

-----------------------------------------------------------------------------
(* Why lsof can crash: what the access before opendir has seen still holds *)
(* as long as the process is untouched.                                    *)
ShownAtOpendir == pc = "opendir" /\ ~touched => Shown(pid, "fd")

CrashInv == TypeInv /\ ShownAtOpendir

LEMMA CrashInit == Init => CrashInv
BY TypeInit DEF Init, CrashInv, ShownAtOpendir

(* A change of another process, and the only steps that end in a crash.    *)
LEMMA OthersChange ==
  ASSUME TypeInv, ProcessChanges, ~touched', pc # "scandir"
  PROVE  ~touched /\ pid' = pid /\ proc'[pid] = proc[pid]
<1>1. PICK p \in Pids : Change(p) /\ touched' = (touched \/ (pc # "scandir" /\ pid = p))
  BY DEF ProcessChanges
<1>2. ~touched /\ pid # p
  BY <1>1
<1>3. UNCHANGED <<pid_list, i>>
  BY DEF ProcessChanges, searchVars
<1>4. PICK s : proc' = [proc EXCEPT ![p] = s]
  BY <1>1 DEF Change
<1> QED BY <1>2, <1>3, <1>4 DEF pid, TypeInv, TypeOK

LEMMA CrashStep == CrashInv /\ [Next]_vars => CrashInv'
<1> SUFFICES ASSUME CrashInv, [Next]_vars PROVE CrashInv'
  OBVIOUS
<1>0. TypeInv /\ TypeInv'
  BY TypeStep DEF CrashInv
<1> SUFFICES ASSUME pc' = "opendir", ~touched' PROVE Shown(pid, "fd")'
  BY <1>0 DEF CrashInv, ShownAtOpendir
<1>1. CASE ProcessChanges
  <2>1. pc = "opendir"
    BY <1>1 DEF ProcessChanges
  <2>2. ~touched /\ pid' = pid /\ proc'[pid] = proc[pid]
    BY <1>0, <1>1, <2>1, OthersChange
  <2> QED BY <2>1, <2>2 DEF CrashInv, ShownAtOpendir, Shown, Alive
<1>2. CASE AccessFd
  BY <1>2 DEF AccessFd, Goto, procVars, searchVars, pid, Shown, Alive
<1>3. CASE UNCHANGED vars
  BY <1>3 DEF CrashInv, ShownAtOpendir, Shown, Alive, pid, vars, procVars, readVars, searchVars
<1>4. CASE Step /\ ~AccessFd
  BY <1>4 DEF Step, ScandirFails, Scandir, GetComm, GetUsername, GetLinks, AccessLink, ReadLink, StatLink,
     AfterLink, GetMem, AccessMaps, ReadMaps, MapsEnd, StatMaps, GetFd, Opendir, Readdir, ReaddirEnds,
     FdStat, FdLink, FdInfo, NextPid, Getopt, SearchComm, SearchDesc, Goto
<1> QED BY <1>1, <1>2, <1>3, <1>4 DEF Next

Cause == IF Reading THEN \/ pc = "scandir" \/ ~HasDescriptor
                         \/ pc = "opendir" /\ touched
                         \/ Alive(pid) /\ proc[pid].uid \notin DOMAIN Users
         ELSE Invalid \in {args.comm, args.type, args.file}

LEMMA CrashCause ==
  ASSUME CrashInv, [Next]_vars, pc' = "crashed", pc # "crashed"
  PROVE  Cause
<1>1. CASE ScandirFails
  BY <1>1 DEF ScandirFails, Reading, Cause
<1>2. CASE GetUsername
  <2>1. pc = "uid" /\ (~HasDescriptor \/ (Alive(pid) /\ proc[pid].uid \notin DOMAIN Users))
    BY <1>2, LsofAssumption DEF GetUsername, Goto
  <2> QED BY <2>1 DEF Reading, Cause
<1>3. CASE Opendir
  <2>1. pc = "opendir" /\ ~(Shown(pid, "fd") /\ HasDescriptor)
    BY <1>3 DEF Opendir, Goto
  <2>2. touched \/ Shown(pid, "fd")
    BY <2>1 DEF CrashInv, ShownAtOpendir
  <2> QED BY <2>1, <2>2 DEF Reading, Cause
<1>4. CASE SearchComm
  <2>1. pc = "search_comm" /\ args.comm = Invalid
    BY <1>4 DEF SearchComm, Goto
  <2> QED BY <2>1 DEF Reading, Cause
<1>5. CASE SearchDesc
  <2>1. pc \in {"search_type", "search_file"} /\ (args.type = Invalid \/ args.file = Invalid)
    BY <1>5 DEF SearchDesc, Regex, Goto
  <2> QED BY <2>1 DEF Reading, Cause
<1>6. CASE \/ Scandir \/ GetComm \/ GetLinks \/ GetMem \/ (GetFd /\ ~Opendir) \/ NextPid \/ Getopt
           \/ ProcessChanges \/ UNCHANGED vars
  BY <1>6 DEF Scandir, GetComm, GetLinks, AccessLink, ReadLink, StatLink, AfterLink, GetMem, AccessMaps,
     ReadMaps, MapsEnd, StatMaps, GetFd, AccessFd, Readdir, ReaddirEnds, FdStat, FdLink, FdInfo, NextPid,
     Getopt, ProcessChanges, vars, Goto
<1> QED BY <1>1, <1>2, <1>3, <1>4, <1>5, <1>6 DEF Next, Step

(* lsof ends by a signal only when scandir fails, a user has no name, no   *)
(* descriptor is left, the process changed before its directory was opened *)
(* (hw1.cpp:212, 437-443, 485), or, in the search, when one of the options *)
(* is no REGEX (92, 112, 134).                                             *)
THEOREM CrashesHaveCause == Spec => CrashNeedsCause
<1>1. CrashInv /\ [Next]_vars =>
        [pc' = "crashed" /\ pc # "crashed" =>
           IF Reading THEN \/ pc = "scandir" \/ ~HasDescriptor
                           \/ pc = "opendir" /\ touched
                           \/ Alive(pid) /\ proc[pid].uid \notin DOMAIN Users
           ELSE Invalid \in {args.comm, args.type, args.file}]_vars
  BY CrashCause DEF Cause
<1> QED BY CrashInit, CrashStep, <1>1, PTL DEF Spec, CrashNeedsCause


-----------------------------------------------------------------------------
(* The search.  t is s with some elements left out, none at the places P.  *)
Picks(g, t, s, P) ==
  /\ g \in [1 .. Len(t) -> DOMAIN s]
  /\ \A a, b \in 1 .. Len(t) : a < b => g[a] < g[b]
  /\ \A m \in 1 .. Len(t) : t[m] = s[g[m]]
  /\ \A c \in P : \E m \in 1 .. Len(t) : g[m] = c

Between(t, s, P) == \E g : Picks(g, t, s, P)

LEMMA BetweenSelf ==
  ASSUME NEW S, NEW s \in Seq(S), NEW P \in SUBSET (DOMAIN s)
  PROVE  Between(s, s, P)
<1> DEFINE g == [m \in 1 .. Len(s) |-> m]
<1>1. DOMAIN s = 1 .. Len(s) /\ Len(s) \in Nat
  OBVIOUS
<1>2. Picks(g, s, s, P)
  BY <1>1 DEF Picks
<1> QED BY <1>2 DEF Between

(* Erasing an element that is at none of the places.                       *)
LEMMA BetweenErased ==
  ASSUME NEW S, NEW s \in Seq(S), NEW t \in Seq(S), NEW P \in SUBSET (DOMAIN s),
         Between(t, s, P), NEW k \in 1 .. Len(t), \A c \in P : s[c] # t[k]
  PROVE  Between(Erased(t, k), s, P)
<1>1. PICK g : Picks(g, t, s, P)
  BY DEF Between
<1>2. Len(t) \in Nat /\ DOMAIN s = 1 .. Len(s) /\ Len(s) \in Nat
  OBVIOUS
<1>3. g \in Seq(DOMAIN s) /\ Len(g) = Len(t)
  BY <1>1, <1>2 DEF Picks
<1> DEFINE h == Erased(g, k)
<1>4. /\ h \in [1 .. Len(t) - 1 -> DOMAIN s]
      /\ \A m \in 1 .. Len(t) - 1 : h[m] = IF m < k THEN g[m] ELSE g[m + 1]
  <2> DEFINE D == DOMAIN s
  <2> HIDE DEF D
  <2>1. g \in Seq(D) /\ k \in 1 .. Len(g)
    BY <1>3 DEF D
  <2>2. /\ h \in Seq(D) /\ DOMAIN h = 1 .. Len(g) - 1
        /\ \A m \in 1 .. Len(g) - 1 : h[m] = IF m < k THEN g[m] ELSE g[m + 1]
    BY <2>1, ErasedType
  <2> HIDE DEF h
  <2>3. h \in [1 .. Len(t) - 1 -> D]
    BY <1>3, <2>2
  <2> QED BY <1>3, <2>2, <2>3 DEF D
<1>5. /\ Len(Erased(t, k)) = Len(t) - 1
      /\ \A m \in 1 .. Len(t) - 1 : Erased(t, k)[m] = IF m < k THEN t[m] ELSE t[m + 1]
  BY ErasedType
<1> HIDE DEF h
<1>6. \A a, b \in 1 .. Len(t) - 1 : a < b => h[a] < h[b]
  <2> SUFFICES ASSUME NEW a \in 1 .. Len(t) - 1, NEW b \in 1 .. Len(t) - 1, a < b
               PROVE  h[a] < h[b]
    OBVIOUS
  <2>1. a \in 1 .. Len(t) /\ b \in 1 .. Len(t) /\ a + 1 \in 1 .. Len(t) /\ b + 1 \in 1 .. Len(t)
    BY <1>2
  <2>2. g[a] < g[b] /\ g[a] < g[b + 1] /\ g[a + 1] < g[b + 1]
    BY <1>1, <1>2, <2>1 DEF Picks
  <2>3. h[a] = (IF a < k THEN g[a] ELSE g[a + 1]) /\ h[b] = (IF b < k THEN g[b] ELSE g[b + 1])
    BY <1>4
  <2>4. CASE a < k
    BY <2>2, <2>3, <2>4
  <2>5. CASE ~(a < k)
    <3>1. ~(b < k)
      BY <1>2, <2>5
    <3> QED BY <2>2, <2>3, <2>5, <3>1
  <2> QED BY <2>4, <2>5
<1>7. \A m \in 1 .. Len(t) - 1 : Erased(t, k)[m] = s[h[m]]
  <2> SUFFICES ASSUME NEW m \in 1 .. Len(t) - 1 PROVE Erased(t, k)[m] = s[h[m]]
    OBVIOUS
  <2>1. m \in 1 .. Len(t) /\ m + 1 \in 1 .. Len(t)
    BY <1>2
  <2> QED BY <1>1, <1>4, <1>5, <2>1 DEF Picks
<1>8. \A c \in P : \E m \in 1 .. Len(t) - 1 : h[m] = c
  <2> SUFFICES ASSUME NEW c \in P PROVE \E m \in 1 .. Len(t) - 1 : h[m] = c
    OBVIOUS
  <2>1. PICK m \in 1 .. Len(t) : g[m] = c
    BY <1>1 DEF Picks
  <2>2. m # k
    BY <1>1, <2>1 DEF Picks
  <2>3. CASE m < k
    <3>1. m \in 1 .. Len(t) - 1
      BY <1>2, <2>3
    <3> QED BY <1>4, <2>1, <2>3, <3>1
  <2>4. CASE m > k
    <3>1. m - 1 \in 1 .. Len(t) - 1 /\ ~(m - 1 < k) /\ (m - 1) + 1 = m
      BY <1>2, <2>4
    <3> QED BY <1>4, <2>1, <3>1
  <2> QED BY <1>2, <2>2, <2>3, <2>4
<1>9. Picks(h, Erased(t, k), s, P)
  BY <1>4, <1>5, <1>6, <1>7, <1>8 DEF Picks
<1> QED BY <1>9 DEF Between

(* Counting finds an increasing enumeration of a set.                      *)
LEMMA EnumerationIsNth ==
  ASSUME NEW P \in SUBSET Nat, NEW n \in Nat, NEW g \in [1 .. n -> P],
         \A a, b \in 1 .. n : a < b => g[a] < g[b],
         \A c \in P : \E m \in 1 .. n : g[m] = c
  PROVE  Cardinality(P) = n /\ \A m \in 1 .. n : Nth(P, m) = g[m]
<1>1. \A a, b \in 1 .. n : g[a] <= g[b] <=> a <= b
  <2> SUFFICES ASSUME NEW a \in 1 .. n, NEW b \in 1 .. n PROVE g[a] <= g[b] <=> a <= b
    OBVIOUS
  <2>0. g[a] \in P /\ g[b] \in P
    OBVIOUS
  <2>3. g[a] \in Nat /\ g[b] \in Nat
    BY <2>0
  <2>4. a \in Nat /\ b \in Nat
    OBVIOUS
  <2>1. g[a] \in Nat /\ g[b] \in Nat /\ a \in Nat /\ b \in Nat
    BY <2>3, <2>4
  <2>2. a < b \/ a = b \/ b < a
    BY <2>1
  <2> QED BY <2>1, <2>2
<1>2. ASSUME NEW m \in 0 .. n, NEW Q, Q = {g[a] : a \in 1 .. m}
      PROVE  Cardinality(Q) = m
  <2> DEFINE h == [a \in 1 .. m |-> g[a]]
  <2>1. m \in Nat /\ \A a \in 1 .. m : a \in 1 .. n
    OBVIOUS
  <2>2. h \in [1 .. m -> Q]
    BY <1>2
  <2>3. \A a, b \in 1 .. m : h[a] = h[b] => a = b
    BY <1>1, <2>1
  <2>4. \A q \in Q : \E a \in 1 .. m : h[a] = q
    BY <1>2
  <2>5. h \in Bijection(1 .. m, Q)
    BY <2>2, <2>3, <2>4 DEF Bijection, Injection, Surjection, IsInjective
  <2> QED BY <2>1, <2>5, FS_CountingElements DEF ExistsBijection
<1>3. P = {g[a] : a \in 1 .. n}
  OBVIOUS
<1>4. Cardinality(P) = n
  BY <1>2, <1>3
<1>5. ASSUME NEW m \in 1 .. n PROVE Cardinality({p \in P : p <= g[m]}) = m
  <2>1. {p \in P : p <= g[m]} = {g[a] : a \in 1 .. m}
    <3>1. \A a \in 1 .. m : a \in 1 .. n /\ a <= m
      OBVIOUS
    <3>2. \A a \in 1 .. n : a <= m => a \in 1 .. m
      OBVIOUS
    <3> QED BY <1>1, <1>3, <3>1, <3>2
  <2>2. m \in 0 .. n
    OBVIOUS
  <2> QED BY <1>2, <2>1, <2>2
<1>6. ASSUME NEW m \in 1 .. n PROVE Nth(P, m) = g[m]
  <2>1. \A k \in P : Cardinality({p \in P : p <= k}) = m => k = g[m]
    BY <1>5
  <2>2. g[m] \in P /\ Cardinality({p \in P : p <= g[m]}) = m
    BY <1>5
  <2> QED BY <2>1, <2>2 DEF Nth
<1> QED BY <1>4, <1>6

(* When all that is left is at the places, the search is over.             *)
LEMMA BetweenIsSub ==
  ASSUME NEW S, NEW s \in Seq(S), NEW t \in Seq(S), NEW P \in SUBSET (DOMAIN s),
         Between(t, s, P),
         \A m \in 1 .. Len(t), c \in DOMAIN s : s[c] = t[m] => c \in P
  PROVE  t = Sub(s, P)
<1>1. PICK g : Picks(g, t, s, P)
  BY DEF Between
<1>2. Len(t) \in Nat /\ P \in SUBSET Nat
  OBVIOUS
<1>3. g \in [1 .. Len(t) -> P]
  BY <1>1 DEF Picks
<1>4. Cardinality(P) = Len(t) /\ \A m \in 1 .. Len(t) : Nth(P, m) = g[m]
  BY <1>1, <1>2, <1>3, EnumerationIsNth DEF Picks
<1>5. Sub(s, P) = [m \in 1 .. Len(t) |-> t[m]]
  BY <1>1, <1>4 DEF Sub, Picks
<1> QED BY <1>5

-----------------------------------------------------------------------------
(* The places of the matching processes, and of the lines asked for.       *)
Matching == {k \in DOMAIN collected : collected[k].comm \in args.comm}

AskedIn(ds) == {k \in DOMAIN ds : ds[k].type \in args.type /\ ds[k].name \in args.file}

(* An entry in the second and third loop: the lines left are those read,   *)
(* without some that nobody asks for.                                      *)
LinesLeft(k) ==
  /\ lsof[k] = [Named[k] EXCEPT !.file_desc = lsof[k].file_desc]
  /\ Between(lsof[k].file_desc, Named[k].file_desc, AskedIn(Named[k].file_desc))

EntriesLeft ==
  /\ Named \in Seq(Info) /\ DOMAIN lsof = DOMAIN Named
  /\ \A k \in DOMAIN lsof : LinesLeft(k)

(* The elements before the indices have passed the test of the loop.       *)
Passed(k, m) == k < i \/ (k = i /\ m < j)

Typed(k, m) == lsof[k].file_desc[m].type \in args.type
Filed(k, m) == lsof[k].file_desc[m].name \in args.file

BeforeSearch ==
  /\ pc = "scandir" => collected = << >>
  /\ pc = "getopt" => lsof = collected /\ i = 1
  /\ Reading \/ pc \in {"getopt", "search_comm"} => j = 1

InSearchComm ==
  pc = "search_comm" =>
    /\ Between(lsof, collected, Matching)
    /\ \A m \in DOMAIN lsof : m < i => lsof[m].comm \in args.comm

InSearchDesc ==
  /\ pc \in {"search_type", "search_file", "done"} => EntriesLeft
  /\ pc = "search_type" =>
       \A k \in DOMAIN lsof : \A m \in DOMAIN lsof[k].file_desc : Passed(k, m) => Typed(k, m)
  /\ pc = "search_file" =>
       \A k \in DOMAIN lsof : \A m \in DOMAIN lsof[k].file_desc :
         Typed(k, m) /\ (Passed(k, m) => Filed(k, m))
  /\ pc = "done" =>
       \A k \in DOMAIN lsof : \A m \in DOMAIN lsof[k].file_desc : Typed(k, m) /\ Filed(k, m)

SearchInv == TypeInv /\ BeforeSearch /\ InSearchComm /\ InSearchDesc

LEMMA SearchInit == Init => SearchInv
BY TypeInit DEF Init, SearchInv, BeforeSearch, InSearchComm, InSearchDesc

LEMMA SearchCrash == TypeInv' /\ pc' = "crashed" => SearchInv'
BY DEF SearchInv, BeforeSearch, InSearchComm, InSearchDesc, Reading

LEMMA SearchCommStep ==
  ASSUME SearchInv, SearchComm
  PROVE  SearchInv'
<1>0. /\ TypeInv' /\ pc = "search_comm" /\ UNCHANGED <<args, j, collected>> /\ j = 1
      /\ lsof \in Seq(Info) /\ collected \in Seq(Info) /\ i \in Nat \ {0} /\ Len(lsof) \in Nat
      /\ DOMAIN lsof = 1 .. Len(lsof)
      /\ Between(lsof, collected, Matching)
      /\ \A m \in DOMAIN lsof : m < i => lsof[m].comm \in args.comm
  BY SearchCommType DEF SearchInv, SearchComm, TypeInv, TypeOK, BeforeSearch, InSearchComm
<1>1. Matching' = Matching /\ Named' = Named /\ Matching \in SUBSET (DOMAIN collected)
  BY <1>0 DEF Matching, Named
<1>2. CASE args.comm # Invalid /\ i > Len(lsof)
  <2>1. pc' = "search_type" /\ i' = 1 /\ lsof' = lsof
    BY <1>0, <1>2 DEF SearchComm, Goto
  <2>2. \A m \in 1 .. Len(lsof), c \in DOMAIN collected : collected[c] = lsof[m] => c \in Matching
    BY <1>0, <1>2 DEF Matching
  <2>3. lsof = Sub(collected, Matching)
    BY <1>0, <1>1, <2>2, BetweenIsSub
  <2>4. lsof = Named
    BY <2>3 DEF Named, Matching
  <2>5. ASSUME NEW k \in DOMAIN lsof PROVE LinesLeft(k)'
    <3>0. lsof[k] \in Info
      BY <1>0, ElementOfSeq
    <3>1. lsof[k] \in Info /\ lsof[k].file_desc \in Seq(Line)
      BY <3>0 DEF Info
    <3>2. AskedIn(lsof[k].file_desc) \in SUBSET (DOMAIN lsof[k].file_desc)
      BY DEF AskedIn
    <3>3. Between(lsof[k].file_desc, lsof[k].file_desc, AskedIn(lsof[k].file_desc))
      BY <3>1, <3>2, BetweenSelf
    <3>4. AskedIn(lsof[k].file_desc)' = AskedIn(lsof[k].file_desc)
      BY <1>0, <2>1 DEF AskedIn
    <3>5. lsof[k] = [lsof[k] EXCEPT !.file_desc = lsof[k].file_desc]
      BY <3>1 DEF Info
    <3> QED BY <1>1, <2>1, <2>4, <3>3, <3>4, <3>5 DEF LinesLeft
  <2>6. EntriesLeft'
    BY <1>0, <1>1, <2>1, <2>4, <2>5 DEF EntriesLeft
  <2>7. \A k \in DOMAIN lsof : \A m \in DOMAIN lsof[k].file_desc : ~Passed(k, m)'
    <3> SUFFICES ASSUME NEW k \in DOMAIN lsof, NEW m \in DOMAIN lsof[k].file_desc
                 PROVE  ~Passed(k, m)'
      OBVIOUS
    <3>0. lsof[k] \in Info
      BY <1>0, ElementOfSeq
    <3>1. lsof[k].file_desc \in Seq(Line)
      BY <3>0 DEF Info
    <3>2. k \in Nat \ {0} /\ m \in Nat \ {0}
      BY <1>0, <3>1
    <3> QED BY <1>0, <2>1, <3>2 DEF Passed
  <2> QED BY <1>0, <2>1, <2>6, <2>7 DEF SearchInv, BeforeSearch, InSearchComm, InSearchDesc, Reading
<1>3. CASE args.comm # Invalid /\ ~(i > Len(lsof)) /\ lsof[i].comm \notin args.comm
  <2>1. i \in 1 .. Len(lsof) /\ lsof' = Erased(lsof, i) /\ pc' = pc /\ i' = i
    BY <1>0, <1>3 DEF SearchComm
  <2>2. \A c \in Matching : collected[c] # lsof[i]
    BY <1>3 DEF Matching
  <2>3. Between(lsof', collected, Matching)
    BY <1>0, <1>1, <2>1, <2>2, BetweenErased
  <2>4. \A m \in DOMAIN lsof' : m < i => lsof'[m].comm \in args.comm
    <3>1. /\ DOMAIN lsof' = 1 .. Len(lsof) - 1
          /\ \A m \in 1 .. Len(lsof) - 1 : lsof'[m] = IF m < i THEN lsof[m] ELSE lsof[m + 1]
      BY <1>0, <2>1, ErasedType
    <3>2. \A m \in 1 .. Len(lsof) - 1 : m \in DOMAIN lsof
      BY <1>0
    <3> QED BY <1>0, <3>1, <3>2
  <2> QED BY <1>0, <1>1, <2>1, <2>3, <2>4 DEF SearchInv, BeforeSearch, InSearchComm, InSearchDesc, Reading
<1>4. CASE args.comm # Invalid /\ ~(i > Len(lsof)) /\ lsof[i].comm \in args.comm
  <2>1. i' = i + 1 /\ lsof' = lsof /\ pc' = pc
    BY <1>0, <1>4 DEF SearchComm
  <2>2. \A m \in DOMAIN lsof : m < i + 1 => m < i \/ m = i
    BY <1>0
  <2> QED BY <1>0, <1>1, <1>4, <2>1, <2>2 DEF SearchInv, BeforeSearch, InSearchComm, InSearchDesc, Reading
<1>5. CASE args.comm = Invalid
  BY <1>0, <1>5, SearchCrash DEF SearchComm, Goto
<1> QED BY <1>2, <1>3, <1>4, <1>5

(* What EntriesLeft says of the types of an entry and its lines.           *)
LEMMA EntryTypes ==
  ASSUME EntriesLeft, lsof \in Seq(Info), NEW k \in DOMAIN lsof
  PROVE  /\ lsof[k] \in Info /\ Named[k] \in Info
         /\ lsof[k].file_desc \in Seq(Line) /\ Named[k].file_desc \in Seq(Line)
         /\ Len(lsof[k].file_desc) \in Nat
         /\ DOMAIN lsof[k].file_desc = 1 .. Len(lsof[k].file_desc)
<1>1. lsof[k] \in Info /\ Named[k] \in Info
  BY ElementOfSeq DEF EntriesLeft
<1> QED BY <1>1 DEF Info

(* An erased line is one that nobody asked for.                            *)
LEMMA EraseLine ==
  ASSUME EntriesLeft, lsof \in Seq(Info), i \in DOMAIN lsof,
         j \in 1 .. Len(lsof[i].file_desc),
         ~(Typed(i, j) /\ Filed(i, j)),
         lsof' = [lsof EXCEPT ![i].file_desc = Erased(@, j)],
         UNCHANGED <<args, collected>>
  PROVE  /\ EntriesLeft'
         /\ DOMAIN lsof' = DOMAIN lsof
         /\ \A k \in DOMAIN lsof : k # i => lsof'[k] = lsof[k]
         /\ lsof'[i].file_desc = Erased(lsof[i].file_desc, j)
<1>0. Named' = Named
  BY DEF Named
<1>1. /\ lsof[i] \in Info /\ Named[i] \in Info
      /\ lsof[i].file_desc \in Seq(Line) /\ Named[i].file_desc \in Seq(Line)
  BY EntryTypes
<1>2. lsof' = [lsof EXCEPT ![i] = [lsof[i] EXCEPT !.file_desc = Erased(lsof[i].file_desc, j)]]
  OBVIOUS
<1> DEFINE e == [lsof[i] EXCEPT !.file_desc = Erased(lsof[i].file_desc, j)]
<1>3. e.file_desc = Erased(lsof[i].file_desc, j) /\ e = [Named[i] EXCEPT !.file_desc = e.file_desc]
  BY <1>1 DEF EntriesLeft, LinesLeft, Info
<1> HIDE DEF e
<1>4. /\ DOMAIN lsof' = DOMAIN lsof
      /\ \A k \in DOMAIN lsof : k # i => lsof'[k] = lsof[k]
      /\ lsof'[i] = e
  BY <1>2 DEF e
<1>5. Between(e.file_desc, Named[i].file_desc, AskedIn(Named[i].file_desc))
  <2>1. AskedIn(Named[i].file_desc) \in SUBSET (DOMAIN Named[i].file_desc)
    BY DEF AskedIn
  <2>2. \A c \in AskedIn(Named[i].file_desc) : Named[i].file_desc[c] # lsof[i].file_desc[j]
    BY DEF AskedIn, Typed, Filed
  <2>3. Between(lsof[i].file_desc, Named[i].file_desc, AskedIn(Named[i].file_desc))
    BY DEF EntriesLeft, LinesLeft
  <2>4. Between(Erased(lsof[i].file_desc, j), Named[i].file_desc, AskedIn(Named[i].file_desc))
    BY <1>1, <2>1, <2>2, <2>3, BetweenErased
  <2> QED BY <1>3, <2>4
<1>7. ASSUME NEW k \in DOMAIN lsof PROVE LinesLeft(k)'
  <2>1. AskedIn(Named[k].file_desc)' = AskedIn(Named[k].file_desc)
    BY <1>0 DEF AskedIn
  <2>2. CASE k = i
    BY <1>0, <1>3, <1>4, <1>5, <2>1, <2>2 DEF LinesLeft
  <2>3. CASE k # i
    BY <1>0, <1>4, <2>1, <2>3 DEF LinesLeft, EntriesLeft
  <2> QED BY <2>2, <2>3
<1> QED BY <1>0, <1>3, <1>4, <1>7 DEF EntriesLeft

(* Steps of the loops that leave the lines alone.                          *)
LEMMA KeepLines ==
  ASSUME EntriesLeft, UNCHANGED <<lsof, args, collected>>
  PROVE  EntriesLeft'
<1>1. Named' = Named
  BY DEF Named
<1>2. \A k \in DOMAIN lsof : AskedIn(Named[k].file_desc)' = AskedIn(Named[k].file_desc)
  BY <1>1 DEF AskedIn
<1>3. \A k \in DOMAIN lsof : LinesLeft(k)'
  BY <1>1, <1>2 DEF EntriesLeft, LinesLeft
<1> QED BY <1>1, <1>3 DEF EntriesLeft

LEMMA SearchDescStep ==
  ASSUME SearchInv, SearchDesc
  PROVE  SearchInv'
<1>0. /\ TypeInv' /\ pc \in {"search_type", "search_file"} /\ UNCHANGED <<args, collected>>
      /\ lsof \in Seq(Info) /\ i \in Nat \ {0} /\ j \in Nat \ {0} /\ Len(lsof) \in Nat
      /\ DOMAIN lsof = 1 .. Len(lsof) /\ EntriesLeft
  BY SearchDescType DEF SearchInv, SearchDesc, TypeInv, TypeOK, InSearchDesc
<1>1. ASSUME NEW k \in DOMAIN lsof, NEW m \in DOMAIN lsof[k].file_desc
      PROVE  /\ k \in Nat \ {0} /\ m \in Nat \ {0} /\ m <= Len(lsof[k].file_desc)
             /\ k <= Len(lsof) /\ Len(lsof[k].file_desc) \in Nat
  BY <1>0, <1>1, EntryTypes
<1>2. CASE Regex # Invalid /\ i > Len(lsof)
  <2>1. /\ pc' = IF pc = "search_type" THEN "search_file" ELSE "done"
        /\ i' = 1 /\ j' = 1 /\ lsof' = lsof
    BY <1>0, <1>2 DEF SearchDesc, Goto
  <2>2. EntriesLeft'
    BY <1>0, <2>1, KeepLines
  <2>3. \A k \in DOMAIN lsof : \A m \in DOMAIN lsof[k].file_desc : Passed(k, m) /\ ~Passed(k, m)'
    BY <1>0, <1>1, <1>2, <2>1 DEF Passed
  <2> QED BY <1>0, <2>1, <2>2, <2>3
          DEF SearchInv, BeforeSearch, InSearchComm, InSearchDesc, Reading, Typed, Filed
<1>3. CASE Regex # Invalid /\ ~(i > Len(lsof)) /\ j > Len(lsof[i].file_desc)
  <2>1. pc' = pc /\ i' = i + 1 /\ j' = 1 /\ lsof' = lsof
    BY <1>0, <1>3 DEF SearchDesc
  <2>2. EntriesLeft'
    BY <1>0, <2>1, KeepLines
  <2>3. \A k \in DOMAIN lsof : \A m \in DOMAIN lsof[k].file_desc : Passed(k, m)' => Passed(k, m)
    <3> SUFFICES ASSUME NEW k \in DOMAIN lsof, NEW m \in DOMAIN lsof[k].file_desc, Passed(k, m)'
                 PROVE  Passed(k, m)
      OBVIOUS
    <3>1. k < i \/ k = i
      BY <1>0, <1>1, <2>1 DEF Passed
    <3>2. k = i => m < j
      BY <1>0, <1>1, <1>3
    <3> QED BY <3>1, <3>2 DEF Passed
  <2> QED BY <1>0, <2>1, <2>2, <2>3
          DEF SearchInv, BeforeSearch, InSearchComm, InSearchDesc, Reading, Typed, Filed
<1>4. CASE Regex # Invalid /\ ~(i > Len(lsof)) /\ ~(j > Len(lsof[i].file_desc))
  <2>0. i \in DOMAIN lsof
    BY <1>0, <1>4
  <2>1. j \in 1 .. Len(lsof[i].file_desc) /\ j \in DOMAIN lsof[i].file_desc
    BY <1>0, <1>4, <2>0, EntryTypes
  <2>2. Wanted(lsof[i].file_desc[j]) = IF pc = "search_type" THEN Typed(i, j) ELSE Filed(i, j)
    BY DEF Wanted, Typed, Filed
  <2>3. CASE ~Wanted(lsof[i].file_desc[j])
    <3>1. pc' = pc /\ i' = i /\ j' = j /\ lsof' = [lsof EXCEPT ![i].file_desc = Erased(@, j)]
      BY <1>0, <1>4, <2>3 DEF SearchDesc
    <3>2. /\ EntriesLeft'
          /\ DOMAIN lsof' = DOMAIN lsof
          /\ \A k \in DOMAIN lsof : k # i => lsof'[k] = lsof[k]
          /\ lsof'[i].file_desc = Erased(lsof[i].file_desc, j)
      BY <1>0, <2>0, <2>1, <2>2, <2>3, <3>1, EraseLine
    <3>3. /\ DOMAIN lsof'[i].file_desc = 1 .. Len(lsof[i].file_desc) - 1
          /\ \A m \in 1 .. Len(lsof[i].file_desc) - 1 :
               lsof'[i].file_desc[m] = IF m < j THEN lsof[i].file_desc[m] ELSE lsof[i].file_desc[m + 1]
          /\ Len(lsof[i].file_desc) \in Nat
          /\ DOMAIN lsof[i].file_desc = 1 .. Len(lsof[i].file_desc)
      <4>1. /\ lsof[i].file_desc \in Seq(Line) /\ Len(lsof[i].file_desc) \in Nat
            /\ DOMAIN lsof[i].file_desc = 1 .. Len(lsof[i].file_desc)
        BY <1>0, <2>0, EntryTypes
      <4> QED BY <2>1, <3>2, <4>1, ErasedType
    <3>4. ASSUME NEW k \in DOMAIN lsof', NEW m \in DOMAIN lsof'[k].file_desc
          PROVE  \E n \in DOMAIN lsof[k].file_desc :
                   /\ lsof'[k].file_desc[m] = lsof[k].file_desc[n]
                   /\ Passed(k, m)' => Passed(k, n)
      <4>1. CASE k = i
        <5>1. m \in 1 .. Len(lsof[i].file_desc) - 1
          BY <3>3, <4>1
        <5>2. CASE m < j
          <6>1. m \in DOMAIN lsof[k].file_desc /\ lsof'[k].file_desc[m] = lsof[k].file_desc[m]
            BY <3>3, <4>1, <5>1, <5>2
          <6> QED BY <3>1, <6>1 DEF Passed
        <5>3. CASE ~(m < j)
          <6>1. m + 1 \in DOMAIN lsof[k].file_desc /\ lsof'[k].file_desc[m] = lsof[k].file_desc[m + 1]
            BY <3>3, <4>1, <5>1, <5>3
          <6>2. ~Passed(k, m)'
            BY <1>0, <3>1, <4>1, <5>3 DEF Passed
          <6> QED BY <6>1, <6>2
        <5> QED BY <5>2, <5>3
      <4>2. CASE k # i
        BY <3>1, <3>2, <4>2 DEF Passed
      <4> QED BY <4>1, <4>2
    <3>5. CASE pc = "search_type"
      <4>1. \A k \in DOMAIN lsof' : \A m \in DOMAIN lsof'[k].file_desc : Passed(k, m)' => Typed(k, m)'
        BY <1>0, <3>2, <3>4, <3>5 DEF Typed, SearchInv, InSearchDesc
      <4> QED BY <1>0, <3>1, <3>2, <3>5, <4>1 DEF SearchInv, BeforeSearch, InSearchComm, InSearchDesc, Reading
    <3>6. CASE pc = "search_file"
      <4>1. \A k \in DOMAIN lsof' : \A m \in DOMAIN lsof'[k].file_desc :
              Typed(k, m)' /\ (Passed(k, m)' => Filed(k, m)')
        BY <1>0, <3>2, <3>4, <3>6 DEF Typed, Filed, SearchInv, InSearchDesc
      <4> QED BY <1>0, <3>1, <3>2, <3>6, <4>1 DEF SearchInv, BeforeSearch, InSearchComm, InSearchDesc, Reading
    <3> QED BY <1>0, <3>5, <3>6
  <2>4. CASE Wanted(lsof[i].file_desc[j])
    <3>1. pc' = pc /\ i' = i /\ j' = j + 1 /\ lsof' = lsof
      BY <1>0, <1>4, <2>4 DEF SearchDesc
    <3>2. EntriesLeft'
      BY <1>0, <3>1, KeepLines
    <3>3. \A k \in DOMAIN lsof : \A m \in DOMAIN lsof[k].file_desc :
            Passed(k, m)' => Passed(k, m) \/ (k = i /\ m = j)
      BY <1>0, <1>1, <3>1 DEF Passed
    <3>4. CASE pc = "search_type"
      <4>1. Typed(i, j)
        BY <2>2, <2>4, <3>4 DEF Wanted, Typed
      <4>2. \A k \in DOMAIN lsof : \A m \in DOMAIN lsof[k].file_desc : Passed(k, m)' => Typed(k, m)'
        BY <1>0, <3>1, <3>3, <3>4, <4>1 DEF Typed, SearchInv, InSearchDesc
      <4> QED BY <1>0, <3>1, <3>2, <3>4, <4>2 DEF SearchInv, BeforeSearch, InSearchComm, InSearchDesc, Reading
    <3>5. CASE pc = "search_file"
      <4>1. Filed(i, j)
        BY <2>2, <2>4, <3>5 DEF Wanted, Filed
      <4>2. \A k \in DOMAIN lsof : \A m \in DOMAIN lsof[k].file_desc :
              Typed(k, m)' /\ (Passed(k, m)' => Filed(k, m)')
        BY <1>0, <3>1, <3>3, <3>5, <4>1 DEF Typed, Filed, SearchInv, InSearchDesc
      <4> QED BY <1>0, <3>1, <3>2, <3>5, <4>2 DEF SearchInv, BeforeSearch, InSearchComm, InSearchDesc, Reading
    <3> QED BY <1>0, <3>4, <3>5
  <2> QED BY <2>3, <2>4
<1>5. CASE Regex = Invalid
  BY <1>0, <1>5, SearchCrash DEF SearchDesc, Goto
<1> QED BY <1>2, <1>3, <1>4, <1>5

LEMMA SearchStarts ==
  ASSUME SearchInv, Getopt
  PROVE  SearchInv'
<1>0. /\ TypeInv' /\ pc = "getopt" /\ pc' = "search_comm" /\ lsof = collected /\ i = 1 /\ j = 1
      /\ UNCHANGED <<lsof, i, j, collected>>
      /\ lsof \in Seq(Info) /\ DOMAIN lsof = 1 .. Len(lsof) /\ Len(lsof) \in Nat
  BY GetoptType DEF SearchInv, Getopt, Goto, searchVars, BeforeSearch, TypeInv, TypeOK
<1>1. Matching' \in SUBSET (DOMAIN collected)
  BY <1>0 DEF Matching
<1>2. Between(lsof, collected, Matching')
  BY <1>0, <1>1, BetweenSelf
<1>3. Between(lsof, collected, Matching)'
  BY <1>0, <1>2
<1> QED BY <1>0, <1>3 DEF SearchInv, BeforeSearch, InSearchComm, InSearchDesc, Reading

LEMMA ScanLeavesSearch ==
  ASSUME SearchInv, ScandirFails \/ Scandir \/ GetComm \/ GetUsername \/ GetLinks \/ GetMem \/ GetFd \/ NextPid
           \/ ProcessChanges
  PROVE  SearchInv'
<1>0. TypeInv' /\ Reading
  BY TypeStep DEF Next, Step, SearchInv, ScandirFails, Scandir, GetComm, GetUsername, GetLinks, AccessLink, ReadLink,
     StatLink, GetMem, AccessMaps, ReadMaps, MapsEnd, StatMaps, GetFd, AccessFd, Opendir, Readdir, ReaddirEnds, FdStat, FdLink, FdInfo,
     NextPid, ProcessChanges, Reading
<1>1. j' = j /\ j = 1
  BY <1>0 DEF SearchInv, BeforeSearch, ScandirFails, Scandir, GetComm, GetUsername, GetLinks, AccessLink, ReadLink,
     StatLink, GetMem, AccessMaps, ReadMaps, MapsEnd, StatMaps, GetFd, AccessFd, Opendir, Readdir, ReaddirEnds, FdStat, FdLink, FdInfo,
     NextPid, ProcessChanges, searchVars
<1>2. pc' \notin {"search_comm", "search_type", "search_file", "done"}
  BY <1>0 DEF ScandirFails, Scandir, GetComm, GetUsername, GetLinks, AccessLink, ReadLink, AfterLink,
     StatLink, GetMem, AccessMaps, ReadMaps, MapsEnd, StatMaps, GetFd, AccessFd, Opendir, Readdir, ReaddirEnds, FdStat, FdLink, FdInfo,
     NextPid, ProcessChanges, Goto, Reading
<1>3. CASE Scandir
  <2>1. /\ pc = "scandir" /\ pc' # "scandir" /\ i' = 1 /\ collected' = << >>
        /\ pc' = "getopt" => pid_list' = << >>
        /\ lsof' = [k \in DOMAIN pid_list' |->
                     [pid |-> pid_list'[k], comm |-> "", username |-> "", file_desc |-> << >>]]
    BY <1>3 DEF Scandir, Goto, searchVars, SearchInv, TypeInv, BeforeSearch
  <2>2. pid_list' = << >> => lsof' = << >>
    BY <2>1
  <2> QED BY <1>0, <1>1, <1>2, <2>1, <2>2 DEF SearchInv, BeforeSearch, InSearchComm, InSearchDesc
<1>4. CASE NextPid
  <2>1. pc' # "scandir" /\ (pc' = "getopt" => collected' = lsof /\ i' = 1) /\ lsof' = lsof
    BY <1>4 DEF NextPid, Goto
  <2> QED BY <1>0, <1>1, <1>2, <2>1 DEF SearchInv, BeforeSearch, InSearchComm, InSearchDesc
<1>5. CASE ProcessChanges
  <2>1. pc' = pc /\ collected' = collected /\ pc # "getopt"
    BY <1>0, <1>5 DEF ProcessChanges, searchVars, Reading
  <2> QED BY <1>0, <1>1, <1>2, <2>1 DEF SearchInv, BeforeSearch, InSearchComm, InSearchDesc
<1>6. CASE GetComm \/ GetUsername \/ GetLinks \/ GetMem \/ GetFd
  <2>1. pc' # "scandir" /\ pc' # "getopt"
    BY <1>6 DEF GetComm, GetUsername, GetLinks, AccessLink, ReadLink, AfterLink,
       StatLink, GetMem, AccessMaps, ReadMaps, MapsEnd, StatMaps, GetFd, AccessFd, Opendir, Readdir, ReaddirEnds, FdStat, FdLink, FdInfo, Goto
  <2> QED BY <1>0, <1>1, <1>2, <2>1 DEF SearchInv, BeforeSearch, InSearchComm, InSearchDesc
<1>7. CASE ScandirFails
  BY <1>0, <1>7, SearchCrash DEF ScandirFails, Goto
<1> QED BY <1>3, <1>4, <1>5, <1>6, <1>7

LEMMA SearchStutter ==
  ASSUME SearchInv, UNCHANGED vars
  PROVE  SearchInv'
<1>0. /\ TypeInv' /\ UNCHANGED <<pc, lsof, args, i, j, collected>> /\ Reading' = Reading
      /\ Matching' = Matching
  BY TypeStutter DEF SearchInv, vars, searchVars, Reading, Matching
<1>1. EntriesLeft => EntriesLeft'
  BY <1>0, KeepLines
<1>2. BeforeSearch' /\ InSearchComm'
  BY <1>0 DEF SearchInv, BeforeSearch, InSearchComm
<1>3. InSearchDesc'
  BY <1>0, <1>1 DEF SearchInv, InSearchDesc, Typed, Filed, Passed
<1> QED BY <1>0, <1>2, <1>3 DEF SearchInv

LEMMA SearchInvStep == SearchInv /\ [Next]_vars => SearchInv'
BY SearchStarts, ScanLeavesSearch, SearchCommStep, SearchDescStep, SearchStutter DEF Next, Step

LEMMA SearchInvExact == SearchInv => SearchExact
<1> SUFFICES ASSUME SearchInv, pc = "done"
             PROVE  lsof = [k \in DOMAIN Named |-> [Named[k] EXCEPT !.file_desc = AskedOf(@)]]
  BY DEF SearchExact
<1>0. lsof \in Seq(Info) /\ EntriesLeft /\ DOMAIN lsof = DOMAIN Named
  BY DEF SearchInv, TypeInv, TypeOK, InSearchDesc, EntriesLeft
<1>1. ASSUME NEW k \in DOMAIN lsof
      PROVE  lsof[k].file_desc = AskedOf(Named[k].file_desc)
  <2> DEFINE t == lsof[k].file_desc
             s == Named[k].file_desc
  <2>1. t \in Seq(Line) /\ s \in Seq(Line) /\ DOMAIN t = 1 .. Len(t)
    BY <1>0, EntryTypes
  <2>2. Between(t, s, AskedIn(s))
    BY <1>0 DEF EntriesLeft, LinesLeft
  <2>3. \A m \in 1 .. Len(t) : t[m].type \in args.type /\ t[m].name \in args.file
    BY <2>1 DEF SearchInv, InSearchDesc, Typed, Filed
  <2> HIDE DEF t, s
  <2>4. AskedIn(s) \in SUBSET (DOMAIN s)
    BY DEF AskedIn
  <2>5. \A m \in 1 .. Len(t), c \in DOMAIN s : s[c] = t[m] => c \in AskedIn(s)
    BY <2>3 DEF AskedIn
  <2>6. t = Sub(s, AskedIn(s))
    BY <2>1, <2>2, <2>4, <2>5, BetweenIsSub
  <2>7. AskedOf(s) = Sub(s, AskedIn(s))
    BY DEF AskedOf, AskedIn
  <2> QED BY <2>6, <2>7 DEF t, s
<1>2. \A k \in DOMAIN lsof : lsof[k] = [Named[k] EXCEPT !.file_desc = AskedOf(Named[k].file_desc)]
  BY <1>0, <1>1 DEF EntriesLeft, LinesLeft
<1>3. lsof = [k \in DOMAIN lsof |-> lsof[k]]
  BY <1>0
<1> QED BY <1>0, <1>2, <1>3

(* The search leaves, of all that was read, exactly the lines that the     *)
(* options ask for, in their order, however many there are.                *)
THEOREM SearchFindsExactly == Spec => []SearchExact
<1>1. Spec => []SearchInv
  BY SearchInit, SearchInvStep, PTL DEF Spec
<1> QED BY <1>1, SearchInvExact, PTL


-----------------------------------------------------------------------------
(* The scan.  Sequences as the sets of their elements.                     *)
LEMMA AppendNew ==
  ASSUME NEW S, NEW s \in Seq(S), NEW d \in S, IsInjective(s), d \notin ToSet(s)
  PROVE  IsInjective(Append(s, d)) /\ ToSet(Append(s, d)) = ToSet(s) \union {d}
<1>1. /\ Len(s) \in Nat /\ DOMAIN s = 1 .. Len(s)
      /\ DOMAIN Append(s, d) = 1 .. Len(s) + 1
      /\ \A k \in 1 .. Len(s) : Append(s, d)[k] = s[k]
      /\ Append(s, d)[Len(s) + 1] = d
  BY AppendLine
<1>2. \A k \in 1 .. Len(s) + 1 : k \in 1 .. Len(s) \/ k = Len(s) + 1
  BY <1>1
<1>3. \A k \in 1 .. Len(s) : k \in 1 .. Len(s) + 1 /\ s[k] # d
  BY <1>1 DEF ToSet
<1>4. IsInjective(Append(s, d))
  BY <1>1, <1>2, <1>3 DEF IsInjective
<1>5. Len(s) + 1 \in 1 .. Len(s) + 1
  BY <1>1
<1>6. ToSet(Append(s, d)) = ToSet(s) \union {d}
  BY <1>1, <1>2, <1>3, <1>5 DEF ToSet
<1> QED BY <1>4, <1>6

LEMMA HeadAndRest ==
  ASSUME NEW S, NEW s \in Seq(S), s # << >>
  PROVE  /\ ToSet(s) = {Head(s)} \union ToSet(Tail(s))
         /\ IsInjective(s) => IsInjective(Tail(s)) /\ Head(s) \notin ToSet(Tail(s))
<1>1. /\ Len(s) \in Nat /\ Len(s) >= 1 /\ DOMAIN s = 1 .. Len(s)
      /\ DOMAIN Tail(s) = 1 .. Len(s) - 1
      /\ s[1] = Head(s)
      /\ \A k \in 1 .. Len(s) - 1 : Tail(s)[k] = s[k + 1]
  BY FirstAndRest
<1>2. \A k \in 1 .. Len(s) - 1 : k + 1 \in 1 .. Len(s) /\ k + 1 # 1
  BY <1>1
<1>3. \A k \in 1 .. Len(s) : k = 1 \/ (k - 1 \in 1 .. Len(s) - 1 /\ (k - 1) + 1 = k)
  BY <1>1
<1>4. 1 \in 1 .. Len(s)
  BY <1>1
<1>5. ToSet(s) = {Head(s)} \union ToSet(Tail(s))
  <2>1. \A x \in ToSet(s) : x = Head(s) \/ x \in ToSet(Tail(s))
    <3> SUFFICES ASSUME NEW k \in 1 .. Len(s) PROVE s[k] = Head(s) \/ s[k] \in ToSet(Tail(s))
      BY <1>1 DEF ToSet
    <3>1. CASE k = 1
      BY <1>1, <3>1
    <3>2. CASE k # 1
      <4>1. k - 1 \in DOMAIN Tail(s) /\ Tail(s)[k - 1] = s[k]
        BY <1>1, <1>3, <3>2
      <4> QED BY <4>1 DEF ToSet
    <3> QED BY <3>1, <3>2
  <2>2. \A x \in ToSet(Tail(s)) : x \in ToSet(s)
    BY <1>1, <1>2 DEF ToSet
  <2>3. Head(s) \in ToSet(s)
    BY <1>1, <1>4 DEF ToSet
  <2> QED BY <2>1, <2>2, <2>3
<1>6. ASSUME IsInjective(s) PROVE IsInjective(Tail(s)) /\ Head(s) \notin ToSet(Tail(s))
  <2>1. Head(s) \notin ToSet(Tail(s))
    BY <1>1, <1>2, <1>4, <1>6 DEF IsInjective, ToSet
  <2>2. \A a, b \in 1 .. Len(s) - 1 : Tail(s)[a] = Tail(s)[b] => a + 1 = b + 1
    BY <1>1, <1>2, <1>6 DEF IsInjective
  <2>3. \A a, b \in 1 .. Len(s) - 1 : a + 1 = b + 1 => a = b
    OBVIOUS
  <2> QED BY <1>1, <2>1, <2>2, <2>3 DEF IsInjective
<1> QED BY <1>5, <1>6

LEMMA EmptySet == ToSet(<< >>) = {} /\ IsInjective(<< >>)
BY DEF ToSet, IsInjective

-----------------------------------------------------------------------------
(* How far the lines ls of a process s have come at the place p, with td   *)
(* still to be read, b in buf, st in sb and a in at: in its links, in its  *)
(* maps and in its descriptors.                                            *)
LinkLines(s, L) == {LinkLine(s, l) : l \in L}

MemLines(F) == {MemLine(w) : w \in F}

FdLines(s, D) == {FdLine(s, d) : d \in D}

UpTo(a, S) == {x \in S : Rank[x] <= a}

LineWords(td) == UNION {ToSet(td[k]) : k \in DOMAIN td}

LinksAt(s, p, ls, td, b) ==
  /\ p \in {"access", "readlink", "stat"} =>
       IsInjective(td) /\ ToSet(ls) = LinkLines(s, Links \ ToSet(td))
  /\ p \in {"readlink", "stat"} => Head(td) \notin s.denied
  /\ p = "stat" => b = s.link[Head(td)]

MapsAt(s, p, ls, td, a) ==
  /\ p = "maps" => ToSet(ls) = LinkLines(s, Links)
  /\ p \in {"mapsread", "mapsstat"} => "maps" \notin s.denied
  /\ p = "mapsread" =>
       ToSet(ls) = LinkLines(s, Links) \union MemLines(WordsAt(s, UpTo(a, MappedIn(s))))
  /\ p = "mapsstat" =>
       \E F : /\ F \union LineWords(td) = WordsAt(s, UpTo(a, MappedIn(s)))
              /\ ToSet(ls) = LinkLines(s, Links) \union MemLines(F)

(* All lines but those of the descriptors.                                 *)
FirstLines(s) ==
  LinkLines(s, Links) \union MemLines(IF "maps" \in s.denied THEN {} ELSE WordsAt(s, MappedIn(s)))

FdPoint == {"fdstat", "fdlink", "fdinfo"}

FdsAt(s, p, ls, td, b, st, a) ==
  /\ p \in {"fd", "opendir"} => ToSet(ls) = FirstLines(s)
  /\ p \in {"opendir", "readdir"} \union FdPoint => "fd" \notin s.denied
  /\ p = "readdir" => ToSet(ls) = FirstLines(s) \union FdLines(s, UpTo(a, OpenIn(s)))
  /\ p \in FdPoint =>
       /\ IsInjective(td) /\ ToSet(td) \subseteq UpTo(a, OpenIn(s))
       /\ ToSet(ls) = FirstLines(s) \union FdLines(s, UpTo(a, OpenIn(s)) \ ToSet(td))
  /\ p \in {"fdlink", "fdinfo"} => st = Stat(s.fds[Head(td)].file)
  /\ p = "fdinfo" => b = s.fds[Head(td)].file
  /\ p = "next" => Complete(s, ls)

ShownAt(s, p, ls, td, b, st, a) ==
  /\ p = "uid" => ls = << >>
  /\ IsInjective(ls)
  /\ LinksAt(s, p, ls, td, b) /\ MapsAt(s, p, ls, td, a) /\ FdsAt(s, p, ls, td, b, st, a)

(* A listing that is taken in pieces, and the words of the lines in hand.  *)
LEMMA Listing ==
  ASSUME at \in Nat, NEW S, S \subseteq Addresses \/ S \subseteq Descriptors
  PROVE  /\ UpTo(0, S) = {}
         /\ \A x \in Later(S) : /\ UpTo(Rank[x], S) = UpTo(at, S) \union Until(x, S)
                                /\ UpTo(Rank[x], S) \ Until(x, S) = UpTo(at, S)
         /\ Later(S) = {} => UpTo(at, S) = S
<1>1. \A x \in S : Rank[x] \in Nat /\ Rank[x] # 0
  BY ListedAre
<1>2. UpTo(0, S) = {}
  BY <1>1 DEF UpTo
<1>3. ASSUME NEW x \in Later(S)
      PROVE  /\ UpTo(Rank[x], S) = UpTo(at, S) \union Until(x, S)
             /\ UpTo(Rank[x], S) \ Until(x, S) = UpTo(at, S)
  <2>1. x \in S /\ Rank[x] > at /\ Rank[x] \in Nat
    BY <1>1 DEF Later
  <2>2. \A y \in S : /\ Rank[y] <= Rank[x] <=> Rank[y] <= at \/ (Rank[y] > at /\ Rank[y] <= Rank[x])
                     /\ ~(Rank[y] <= at /\ Rank[y] > at)
    BY <1>1, <2>1
  <2> QED BY <2>2 DEF UpTo, Until, Later
<1>4. Later(S) = {} => UpTo(at, S) = S
  <2> SUFFICES ASSUME Later(S) = {}, NEW y \in S PROVE Rank[y] <= at
    BY DEF UpTo
  <2>1. ~(Rank[y] > at)
    BY DEF Later
  <2> QED BY <1>1, <2>1
<1> QED BY <1>2, <1>3, <1>4

LEMMA WordsOfPiece ==
  ASSUME NEW s, NEW q
  PROVE  LineWords([k \in DOMAIN q |-> WordsIn[s.maps[q[k]]]]) = WordsAt(s, ToSet(q))
BY DEF LineWords, WordsAt, ToSet

LEMMA WordsOfLines ==
  ASSUME NEW td \in Seq(Seq(Words)), td # << >>
  PROVE  /\ LineWords(td) = ToSet(Head(td)) \union LineWords(Tail(td))
         /\ Len(td) = 1 => LineWords(Tail(td)) = {}
<1>1. /\ Len(td) \in Nat /\ Len(td) >= 1 /\ DOMAIN td = 1 .. Len(td)
      /\ DOMAIN Tail(td) = 1 .. Len(td) - 1
      /\ td[1] = Head(td)
      /\ \A k \in 1 .. Len(td) - 1 : Tail(td)[k] = td[k + 1]
  BY FirstAndRest
<1>2. \A k \in 1 .. Len(td) - 1 : k + 1 \in 1 .. Len(td)
  BY <1>1
<1>3. \A k \in 1 .. Len(td) : k = 1 \/ (k - 1 \in 1 .. Len(td) - 1 /\ (k - 1) + 1 = k)
  BY <1>1
<1>4. 1 \in 1 .. Len(td)
  BY <1>1
<1>5. \A w \in LineWords(td) : w \in ToSet(Head(td)) \/ w \in LineWords(Tail(td))
  <2> SUFFICES ASSUME NEW k \in 1 .. Len(td), NEW w \in ToSet(td[k])
               PROVE  w \in ToSet(Head(td)) \/ w \in LineWords(Tail(td))
    BY <1>1 DEF LineWords
  <2>1. CASE k = 1
    BY <1>1, <2>1
  <2>2. CASE k # 1
    <3>1. k - 1 \in DOMAIN Tail(td) /\ Tail(td)[k - 1] = td[k]
      BY <1>1, <1>3, <2>2
    <3> QED BY <3>1 DEF LineWords
  <2> QED BY <2>1, <2>2
<1>6. \A w \in ToSet(Head(td)) : w \in LineWords(td)
  BY <1>1, <1>4 DEF LineWords
<1>7. \A w \in LineWords(Tail(td)) : w \in LineWords(td)
  BY <1>1, <1>2 DEF LineWords
<1>8. Len(td) = 1 => LineWords(Tail(td)) = {}
  BY <1>1 DEF LineWords
<1> QED BY <1>5, <1>6, <1>7, <1>8

(* The entries are those of pid_list, the later ones still empty.          *)
EntriesInOrder ==
  Reading /\ pc # "scandir" => \A k \in DOMAIN lsof :
    /\ lsof[k].pid = pid_list[k]
    /\ k > i \/ (k = i /\ pc \in {"comm", "uid"}) => lsof[k].file_desc = << >>

Untouched == Reading /\ pc \notin {"scandir", "comm"} /\ ~touched /\ Alive(pid) /\ HasDescriptor

ShownSoFar ==
  Untouched =>
    /\ lsof[i].comm = proc[pid].comm
    /\ pc # "uid" => lsof[i].username = Users[proc[pid].uid]
    /\ ShownAt(proc[pid], pc, lsof[i].file_desc, todo, buf, sb, at)

ShownInv == TypeInv /\ EntriesInOrder /\ ShownSoFar

LEMMA ShownInit == Init => ShownInv
BY TypeInit DEF Init, ShownInv, EntriesInOrder, ShownSoFar, Untouched

LEMMA ShownFaithful == ShownInv => Faithful
<1> SUFFICES ASSUME ShownInv, pc = "next", ~touched, Alive(pid), HasDescriptor
             PROVE  LET lines == lsof[i].file_desc IN
                    /\ lsof[i].pid = pid /\ lsof[i].comm = proc[pid].comm
                    /\ lsof[i].username = Users[proc[pid].uid]
                    /\ IsInjective(lines)
                    /\ Complete(proc[pid], lines)
  BY DEF Faithful
<1>1. Reading /\ Untouched /\ TypeInv
  BY DEF Reading, Untouched, ShownInv
<1>2. lsof[i].pid = pid
  BY <1>1, AtProcess DEF ShownInv, EntriesInOrder, pid
<1>3. /\ lsof[i].comm = proc[pid].comm /\ lsof[i].username = Users[proc[pid].uid]
      /\ IsInjective(lsof[i].file_desc)
      /\ Complete(proc[pid], lsof[i].file_desc)
  BY <1>1 DEF ShownInv, ShownSoFar, ShownAt, FdsAt
<1> QED BY <1>2, <1>3

LEMMA PushedEntry ==
  ASSUME lsof \in Seq(Info), i \in DOMAIN lsof, NEW d \in Line
  PROVE  /\ DOMAIN Pushed(d) = DOMAIN lsof
         /\ Pushed(d)[i].file_desc = Append(lsof[i].file_desc, d)
         /\ Pushed(d)[i].pid = lsof[i].pid
         /\ Pushed(d)[i].comm = lsof[i].comm
         /\ Pushed(d)[i].username = lsof[i].username
         /\ \A k \in DOMAIN lsof : k # i => Pushed(d)[k] = lsof[k]
<1>1. lsof[i] \in Info
  BY ElementOfSeq
<1> DEFINE e == [lsof[i] EXCEPT !.file_desc = Append(lsof[i].file_desc, d)]
<1>2. /\ e.file_desc = Append(lsof[i].file_desc, d)
      /\ e.pid = lsof[i].pid /\ e.comm = lsof[i].comm /\ e.username = lsof[i].username
  BY <1>1 DEF Info
<1>3. Pushed(d) = [lsof EXCEPT ![i] = e]
  BY DEF Pushed
<1> HIDE DEF e
<1> QED BY <1>2, <1>3

(* A step that reads a bit more of an unchanged process.                   *)
LEMMA ScanStep ==
  ASSUME ShownInv, TypeInv', Reading, pc \notin {"scandir", "comm", "uid"},
         pc' \notin {"scandir", "comm", "uid"},
         UNCHANGED <<proc, pid_list, i, touched>>, dirs' = dirs \/ dirs' = dirs + 1,
         lsof' = lsof \/ \E d \in Line : lsof' = Pushed(d),
         Untouched /\ Reading' => ShownAt(proc[pid], pc', lsof'[i].file_desc, todo', buf', sb', at')
  PROVE  ShownInv'
<1>1. lsof \in Seq(Info) /\ i \in DOMAIN lsof /\ pid' = pid
  BY AtProcess DEF ShownInv, pid
<1>2. /\ DOMAIN lsof' = DOMAIN lsof
      /\ lsof'[i].pid = lsof[i].pid
      /\ lsof'[i].comm = lsof[i].comm
      /\ lsof'[i].username = lsof[i].username
      /\ \A k \in DOMAIN lsof : k # i => lsof'[k] = lsof[k]
  BY <1>1, PushedEntry
<1>3. EntriesInOrder'
  <2> SUFFICES ASSUME NEW k \in DOMAIN lsof
               PROVE  lsof'[k].pid = pid_list[k] /\ (k > i => lsof'[k].file_desc = << >>)
    BY <1>2 DEF EntriesInOrder
  <2>1. lsof[k].pid = pid_list[k] /\ (k > i => lsof[k].file_desc = << >>)
    BY DEF ShownInv, EntriesInOrder
  <2>2. i \in Nat
    BY DEF ShownInv, TypeInv, TypeOK
  <2> QED BY <1>2, <2>1, <2>2
<1>4. ShownSoFar'
  <2> SUFFICES ASSUME Untouched'
               PROVE  /\ lsof'[i].comm = proc[pid].comm
                      /\ lsof'[i].username = Users[proc[pid].uid]
                      /\ ShownAt(proc[pid], pc', lsof'[i].file_desc, todo', buf', sb', at')
    BY <1>1 DEF ShownSoFar
  <2>1. dirs \in Nat /\ MaxDirs \in Nat
    BY LsofAssumption DEF ShownInv, TypeInv, TypeOK
  <2>2. HasDescriptor
    BY <2>1 DEF Untouched, HasDescriptor
  <2>3. Untouched /\ Reading'
    BY <1>1, <2>2 DEF Untouched, Alive
  <2> QED BY <1>2, <2>3 DEF ShownInv, ShownSoFar
<1> QED BY <1>3, <1>4 DEF ShownInv

(* What ShownInv says before such a step.                                  *)
LEMMA ShownBefore ==
  ASSUME ShownInv, Untouched
  PROVE  /\ Alive(pid) /\ proc[pid] \in Process /\ pid \in Pids /\ HasDescriptor /\ at \in Nat
         /\ i \in DOMAIN lsof /\ lsof \in Seq(Info) /\ lsof[i].file_desc \in Seq(Line)
         /\ IsInjective(lsof[i].file_desc)
         /\ \A what : Shown(pid, what) <=> what \notin proc[pid].denied
         /\ Mapped(pid) = MappedIn(proc[pid]) /\ OpenFds(pid) = OpenIn(proc[pid])
         /\ LinksAt(proc[pid], pc, lsof[i].file_desc, todo, buf)
         /\ MapsAt(proc[pid], pc, lsof[i].file_desc, todo, at)
         /\ FdsAt(proc[pid], pc, lsof[i].file_desc, todo, buf, sb, at)
<1>1. TypeInv /\ Reading /\ pc # "scandir" /\ Alive(pid) /\ HasDescriptor /\ at \in Nat
  BY DEF ShownInv, Untouched, TypeInv, TypeOK
<1>2. /\ proc[pid] \in Process /\ pid \in Pids /\ i \in DOMAIN lsof /\ lsof \in Seq(Info) /\ lsof[i] \in Info
  BY <1>1, AtProcess
<1>3. lsof[i].file_desc \in Seq(Line)
  BY <1>2 DEF Info
<1>4. ShownAt(proc[pid], pc, lsof[i].file_desc, todo, buf, sb, at)
  BY DEF ShownInv, ShownSoFar
<1>5. /\ \A what : Shown(pid, what) <=> what \notin proc[pid].denied
      /\ Mapped(pid) = MappedIn(proc[pid]) /\ OpenFds(pid) = OpenIn(proc[pid])
  BY <1>1 DEF Shown, Mapped, MappedIn, OpenFds, OpenIn
<1> QED BY <1>1, <1>2, <1>3, <1>4, <1>5 DEF ShownAt

(* A new line, told from the others by its descriptor and its name.        *)
LEMMA PushedNew ==
  ASSUME lsof \in Seq(Info), i \in DOMAIN lsof, lsof[i].file_desc \in Seq(Line),
         IsInjective(lsof[i].file_desc), NEW d \in Line, d \notin ToSet(lsof[i].file_desc)
  PROVE  /\ IsInjective(Pushed(d)[i].file_desc)
         /\ ToSet(Pushed(d)[i].file_desc) = ToSet(lsof[i].file_desc) \union {d}
<1> DEFINE s == lsof[i].file_desc
<1>1. IsInjective(Append(s, d)) /\ ToSet(Append(s, d)) = ToSet(s) \union {d}
  <2> HIDE DEF s
  <2>1. s \in Seq(Line) /\ IsInjective(s) /\ d \notin ToSet(s)
    BY DEF s
  <2> QED BY <2>1, AppendNew
<1>2. Pushed(d)[i].file_desc = Append(s, d)
  BY PushedEntry
<1> QED BY <1>1, <1>2

LEMMA LinkFields == \A s, l : LinkLine(s, l).fd = l
BY DEF LinkLine, Desc, Denied

LEMMA MemFields == \A w : MemLine(w).fd = "mem" /\ MemLine(w).name = w
BY DEF MemLine, Desc

LEMMA FdFields == \A s, d : FdLine(s, d).fd = d
BY DEF FdLine, Desc

LEMMA NoFdFields == \A st : NoFd(st).fd = "NOFD"
BY DEF NoFd, Desc

LEMMA LinesOfParts ==
  \A s : LinesOf(s) = FirstLines(s) \union FdLines(s, IF "fd" \in s.denied THEN {} ELSE OpenIn(s))
BY DEF LinesOf, FirstLines, LinkLines, MemLines, FdLines

(* The first lines are neither of a descriptor nor the line that refuses.  *)
LEMMA FirstFields ==
  ASSUME NEW s, NEW d \in FirstLines(s)
  PROVE  d.fd \in Links \union {"mem"}
BY LinkFields, MemFields DEF FirstLines, LinkLines, MemLines

LEMMA LinksShown ==
  ASSUME ShownInv, GetLinks, TypeInv'
  PROVE  ShownInv'
<1>0. /\ pc \in {"access", "readlink", "stat"} /\ Reading
      /\ UNCHANGED <<proc, pid_list, i, touched, sb, at, dirs>>
      /\ pc' \in {"access", "readlink", "stat", "maps"}
  BY DEF GetLinks, AccessLink, ReadLink, StatLink, Reading, AfterLink, Goto, procVars, searchVars
<1>1. todo \in Seq(Links) /\ todo # << >>
  BY <1>0 DEF ShownInv, TypeInv, TypeOK, TodoOK
<1>2. /\ Head(todo) \in Links /\ Tail(todo) \in Seq(Links)
      /\ Len(todo) = 1 <=> Tail(todo) = << >>
      /\ ToSet(todo) = {Head(todo)} \union ToSet(Tail(todo))
      /\ IsInjective(todo) => IsInjective(Tail(todo)) /\ Head(todo) \notin ToSet(Tail(todo))
  BY <1>1, FirstAndRest, HeadAndRest
<1>3. ToSet(Tail(todo)) \subseteq Links
  BY <1>2 DEF ToSet
<1> DEFINE s  == proc[pid]
           ls == lsof[i].file_desc
           l  == Head(todo)
(* The line of a link is added.                                            *)
<1>4. ASSUME Untouched, NEW d \in Line, d = LinkLine(s, l),
             lsof' = Pushed(d), todo' = Tail(todo), pc' = AfterLink
      PROVE  ShownAt(s, pc', lsof'[i].file_desc, todo', buf', sb', at')
  <2>1. IsInjective(todo) /\ ToSet(ls) = LinkLines(s, Links \ ToSet(todo))
    BY <1>0, <1>4, ShownBefore DEF LinksAt
  <2>2. /\ Links \ ToSet(Tail(todo)) = (Links \ ToSet(todo)) \union {l}
        /\ pc' \in {"access", "maps"}
        /\ pc' = "maps" => Links \ ToSet(Tail(todo)) = Links
    BY <1>2, <1>3, <1>4, <2>1, EmptySet DEF AfterLink
  <2>3. d \notin ToSet(ls)
    <3> SUFFICES ASSUME NEW m \in Links \ ToSet(todo), d = LinkLine(s, m) PROVE FALSE
      BY <2>1 DEF LinkLines
    <3>1. d.fd = l
      BY <1>4, LinkFields
    <3>2. d.fd = m
      BY LinkFields
    <3> QED BY <1>2, <3>1, <3>2
  <2>4. IsInjective(lsof'[i].file_desc) /\ ToSet(lsof'[i].file_desc) = ToSet(ls) \union {d}
    BY <1>4, <2>3, ShownBefore, PushedNew
  <2>5. ToSet(lsof'[i].file_desc) = LinkLines(s, Links \ ToSet(Tail(todo)))
    BY <1>4, <2>1, <2>2, <2>4 DEF LinkLines
  <2> QED BY <1>2, <1>4, <2>1, <2>2, <2>4, <2>5 DEF ShownAt, LinksAt, MapsAt, FdsAt, FdPoint
<1>5. CASE AccessLink
  <2>0. pc = "access" /\ buf' = buf
    BY <1>5 DEF AccessLink
  <2>1. CASE Shown(pid, l)
    <3>1. pc' = "readlink" /\ UNCHANGED <<lsof, todo>>
      BY <1>5, <2>1 DEF AccessLink, Goto
    <3>2. ASSUME Untouched PROVE ShownAt(s, pc', lsof'[i].file_desc, todo', buf', sb', at')
      <4>1. l \notin s.denied
        BY <2>1, <3>2, ShownBefore
      <4>2. IsInjective(todo) /\ ToSet(ls) = LinkLines(s, Links \ ToSet(todo)) /\ IsInjective(ls)
        BY <2>0, <3>2, ShownBefore DEF LinksAt
      <4> QED BY <3>1, <4>1, <4>2 DEF ShownAt, LinksAt, MapsAt, FdsAt, FdPoint
    <3> QED BY <1>0, <3>1, <3>2, ScanStep
  <2>2. CASE ~Shown(pid, l)
    <3>1. lsof' = Pushed(Denied(l)) /\ todo' = Tail(todo) /\ pc' = AfterLink
      BY <1>5, <2>2 DEF AccessLink, Goto
    <3>2. Denied(l) \in Line
      BY <1>2 DEF Denied, Line, Types, Nodes
    <3>3. ASSUME Untouched PROVE ShownAt(s, pc', lsof'[i].file_desc, todo', buf', sb', at')
      <4>1. Denied(l) = LinkLine(s, l)
        BY <2>2, <3>3, ShownBefore DEF LinkLine
      <4> QED BY <1>4, <3>1, <3>2, <3>3, <4>1
    <3> QED BY <1>0, <3>1, <3>2, <3>3, ScanStep
  <2> QED BY <2>1, <2>2
<1>6. CASE ReadLink
  <2>1. pc = "readlink" /\ pc' = "stat" /\ UNCHANGED <<lsof, todo>>
        /\ buf' \in Outcomes(s.link[l], Garbage)
    BY <1>6 DEF ReadLink, Goto
  <2>2. ASSUME Untouched PROVE ShownAt(s, pc', lsof'[i].file_desc, todo', buf', sb', at')
    <3>1. /\ IsInjective(todo) /\ ToSet(ls) = LinkLines(s, Links \ ToSet(todo)) /\ l \notin s.denied
          /\ IsInjective(ls)
      BY <2>1, <2>2, ShownBefore DEF LinksAt
    <3>2. buf' = s.link[l]
      BY <2>1, <2>2, <3>1, ShownBefore DEF Outcomes
    <3> QED BY <2>1, <3>1, <3>2 DEF ShownAt, LinksAt, MapsAt, FdsAt, FdPoint
  <2> QED BY <1>0, <2>1, <2>2, ScanStep
<1>7. CASE StatLink
  <2>0. PICK st \in Outcomes(Stat(s.link[l]), NoStat) : lsof' = Pushed(Desc(l, "", st, buf))
    BY <1>7 DEF StatLink
  <2> DEFINE d == Desc(l, "", st, buf)
  <2>1. pc = "stat" /\ lsof' = Pushed(d) /\ todo' = Tail(todo) /\ pc' = AfterLink
    BY <1>7, <2>0 DEF StatLink, Goto
  <2>2. d \in Line
    <3>1. st \in StatBuf
      BY <1>0, <1>2, AtProcess, ProcessTypes, StatTypes DEF Outcomes, ShownInv, TypeInv, TypeOK
    <3>2. buf \in Files \union {Garbage}
      BY DEF ShownInv, TypeInv, TypeOK
    <3> QED BY <1>2, <3>1, <3>2, DescType
  <2>3. ASSUME Untouched PROVE ShownAt(s, pc', lsof'[i].file_desc, todo', buf', sb', at')
    <3>1. l \notin s.denied /\ buf = s.link[l]
      BY <2>1, <2>3, ShownBefore DEF LinksAt
    <3>2. st = Stat(s.link[l])
      BY <2>3, <3>1, ShownBefore DEF Outcomes
    <3>3. d = LinkLine(s, l)
      BY <3>1, <3>2 DEF LinkLine
    <3> QED BY <1>4, <2>1, <2>2, <2>3, <3>3
  <2> QED BY <1>0, <2>1, <2>2, <2>3, ScanStep
<1> QED BY <1>5, <1>6, <1>7 DEF GetLinks

LEMMA MapsShown ==
  ASSUME ShownInv, GetMem, TypeInv'
  PROVE  ShownInv'
<1>0. /\ pc \in {"maps", "mapsread", "mapsstat"} /\ Reading
      /\ UNCHANGED <<proc, pid_list, i, touched, sb, buf, dirs>>
      /\ pc' \in {"mapsread", "mapsstat", "fd"}
  BY DEF GetMem, AccessMaps, ReadMaps, MapsEnd, StatMaps, Reading, Goto, procVars, searchVars, readVars
<1> DEFINE s  == proc[pid]
           ls == lsof[i].file_desc
<1>m. MappedIn(s) \subseteq Addresses /\ at \in Nat
  BY DEF MappedIn, ShownInv, TypeInv, TypeOK
<1>1. CASE AccessMaps
  <2>1. /\ pc = "maps" /\ pc' = (IF Shown(pid, "maps") THEN "mapsread" ELSE "fd") /\ at' = 0
        /\ UNCHANGED <<lsof, todo>>
    BY <1>1 DEF AccessMaps, Goto
  <2>2. ASSUME Untouched PROVE ShownAt(s, pc', lsof'[i].file_desc, todo', buf', sb', at')
    <3>1. /\ ToSet(ls) = LinkLines(s, Links) /\ IsInjective(ls)
          /\ Shown(pid, "maps") <=> "maps" \notin s.denied
      BY <2>1, <2>2, ShownBefore DEF MapsAt
    <3>2. MemLines({}) = {} /\ WordsAt(s, {}) = {} /\ UpTo(0, MappedIn(s)) = {}
      BY <1>m, Listing DEF MemLines, WordsAt
    <3>3. CASE Shown(pid, "maps")
      BY <2>1, <3>1, <3>2, <3>3 DEF ShownAt, LinksAt, MapsAt, FdsAt, FdPoint
    <3>4. CASE ~Shown(pid, "maps")
      <4>1. ToSet(ls) = FirstLines(s)
        BY <3>1, <3>2, <3>4 DEF FirstLines
      <4> QED BY <2>1, <3>1, <3>4, <4>1 DEF ShownAt, LinksAt, MapsAt, FdsAt, FdPoint
    <3> QED BY <3>3, <3>4
  <2> QED BY <1>0, <2>1, <2>2, ScanStep
<1>2. CASE ReadMaps
  <2>1. PICK x \in Later(Mapped(pid)) :
          /\ at' = Rank[x]
          /\ \E q \in Sorted(Until(x, Mapped(pid))) :
               todo' = [k \in DOMAIN q |-> WordsIn[proc[pid].maps[q[k]]]]
    BY <1>2 DEF ReadMaps
  <2>2. PICK q \in Sorted(Until(x, Mapped(pid))) :
          todo' = [k \in DOMAIN q |-> WordsIn[proc[pid].maps[q[k]]]]
    BY <2>1
  <2>3. pc = "mapsread" /\ pc' = "mapsstat" /\ UNCHANGED lsof
    BY <1>2 DEF ReadMaps, Goto
  <2>4. ToSet(q) = Until(x, Mapped(pid))
    BY <1>0, <2>3, PieceOfMaps DEF ShownInv
  <2>5. ASSUME Untouched PROVE ShownAt(s, pc', lsof'[i].file_desc, todo', buf', sb', at')
    <3> DEFINE F == WordsAt(s, UpTo(at, MappedIn(s)))
    <3>1. /\ "maps" \notin s.denied /\ ToSet(ls) = LinkLines(s, Links) \union MemLines(F)
          /\ IsInjective(ls) /\ Mapped(pid) = MappedIn(s)
      BY <2>3, <2>5, ShownBefore DEF MapsAt
    <3>2. LineWords(todo') = WordsAt(s, Until(x, MappedIn(s)))
      BY <2>2, <2>4, <3>1, WordsOfPiece
    <3>3. UpTo(at', MappedIn(s)) = UpTo(at, MappedIn(s)) \union Until(x, MappedIn(s))
      BY <1>m, <2>1, <3>1, Listing
    <3>4. F \union LineWords(todo') = WordsAt(s, UpTo(at', MappedIn(s)))
      BY <3>2, <3>3 DEF WordsAt
    <3> HIDE DEF F
    <3> QED BY <2>3, <3>1, <3>4 DEF ShownAt, LinksAt, MapsAt, FdsAt, FdPoint
  <2> QED BY <1>0, <2>3, <2>5, ScanStep
<1>3. CASE MapsEnd
  <2>1. /\ pc = "mapsread" /\ pc' = "fd" /\ UNCHANGED <<lsof, todo, at>>
        /\ Later(Mapped(pid)) = {} \/ touched
    BY <1>3 DEF MapsEnd, Goto, readVars
  <2>2. ASSUME Untouched PROVE ShownAt(s, pc', lsof'[i].file_desc, todo', buf', sb', at')
    <3>1. /\ "maps" \notin s.denied /\ IsInjective(ls) /\ Mapped(pid) = MappedIn(s)
          /\ ToSet(ls) = LinkLines(s, Links) \union MemLines(WordsAt(s, UpTo(at, MappedIn(s))))
      BY <2>1, <2>2, ShownBefore DEF MapsAt
    <3>2. UpTo(at, MappedIn(s)) = MappedIn(s)
      BY <1>m, <2>1, <2>2, <3>1, Listing DEF Untouched
    <3>3. ToSet(ls) = FirstLines(s)
      BY <3>1, <3>2 DEF FirstLines
    <3> QED BY <2>1, <3>1, <3>3 DEF ShownAt, LinksAt, MapsAt, FdsAt, FdPoint
  <2> QED BY <1>0, <2>1, <2>2, ScanStep
<1>4. CASE StatMaps
  <2>1. pc = "mapsstat" /\ todo \in Seq(Seq(Words)) /\ todo # << >> /\ at' = at
    BY <1>4 DEF StatMaps, ShownInv, TypeInv, TypeOK, TodoOK
  <2>2. ASSUME Untouched
        PROVE  /\ "maps" \notin s.denied /\ IsInjective(ls)
               /\ \E F : /\ F \union LineWords(todo) = WordsAt(s, UpTo(at, MappedIn(s)))
                         /\ ToSet(ls) = LinkLines(s, Links) \union MemLines(F)
    BY <2>1, <2>2, ShownBefore DEF MapsAt
  <2>3. /\ Head(todo) \in Seq(Words) /\ Tail(todo) \in Seq(Seq(Words))
        /\ LineWords(todo) = ToSet(Head(todo)) \union LineWords(Tail(todo))
        /\ Len(todo) = 1 => LineWords(Tail(todo)) = {}
    BY <2>1, WordOfLine, WordsOfLines
  <2>4. CASE Head(todo) = << >>
    <3>1. /\ UNCHANGED lsof /\ todo' = Tail(todo)
          /\ pc' = IF Len(todo) = 1 THEN "mapsread" ELSE "mapsstat"
      BY <1>4, <2>4 DEF StatMaps, Goto
    <3>2. LineWords(todo) = LineWords(Tail(todo))
      BY <2>3, <2>4, EmptySet
    <3>3. ASSUME Untouched PROVE ShownAt(s, pc', lsof'[i].file_desc, todo', buf', sb', at')
      <4>1. PICK F : /\ F \union LineWords(todo) = WordsAt(s, UpTo(at, MappedIn(s)))
                     /\ ToSet(ls) = LinkLines(s, Links) \union MemLines(F)
        BY <2>2, <3>3
      <4>2. pc' = "mapsread" => F = WordsAt(s, UpTo(at, MappedIn(s)))
        BY <2>3, <3>1, <3>2, <4>1
      <4> QED BY <2>1, <2>2, <3>1, <3>2, <3>3, <4>1, <4>2 DEF ShownAt, LinksAt, MapsAt, FdsAt, FdPoint
    <3> QED BY <1>0, <2>1, <3>1, <3>3, ScanStep
  <2>5. CASE Head(todo) # << >>
    <3> DEFINE w == Head(Head(todo))
               d == Desc("mem", "", MapsStat, w)
    <3>1. /\ lsof' = IF HasMem(w) THEN lsof ELSE Pushed(d)
          /\ todo' = <<Tail(Head(todo))>> \o Tail(todo) /\ pc' = "mapsstat"
      BY <1>4, <2>1, <2>5 DEF StatMaps
    <3>2. /\ w \in Words /\ todo' \in Seq(Seq(Words)) /\ todo' # << >>
          /\ Head(todo') = Tail(Head(todo)) /\ Tail(todo') = Tail(todo)
      BY <2>1, <2>5, <3>1, WordOfLine
    <3>3. LineWords(todo) = {w} \union LineWords(todo')
      <4>1. ToSet(Head(todo)) = {w} \union ToSet(Tail(Head(todo)))
        BY <2>3, <2>5, HeadAndRest
      <4>2. LineWords(todo') = ToSet(Head(todo')) \union LineWords(Tail(todo'))
        BY <3>2, WordsOfLines
      <4> QED BY <2>3, <3>2, <4>1, <4>2
    <3>4. d \in Line
      BY <3>2, WordsTypes, DescType
    <3>5. ASSUME Untouched PROVE ShownAt(s, pc', lsof'[i].file_desc, todo', buf', sb', at')
      <4>1. PICK F : /\ F \union LineWords(todo) = WordsAt(s, UpTo(at, MappedIn(s)))
                     /\ ToSet(ls) = LinkLines(s, Links) \union MemLines(F)
        BY <2>2, <3>5
      <4>2. d = MemLine(w)
        BY <3>5, ShownBefore DEF MapsStat, MemLine
      <4> HIDE DEF d
      <4>3. SUFFICES \E G : /\ G \union LineWords(todo') = WordsAt(s, UpTo(at, MappedIn(s)))
                            /\ ToSet(lsof'[i].file_desc) = LinkLines(s, Links) \union MemLines(G)
                            /\ IsInjective(lsof'[i].file_desc)
        BY <2>1, <2>2, <3>1, <3>5 DEF ShownAt, LinksAt, MapsAt, FdsAt, FdPoint
      <4>4. CASE HasMem(w)
        <5>1. PICK k \in DOMAIN ls : ls[k].fd = "mem" /\ ls[k].name = w
          BY <4>4 DEF HasMem
        <5>2. ls[k] \in MemLines(F)
          <6>1. ls[k] \in ToSet(ls)
            BY DEF ToSet
          <6>2. ls[k] \notin LinkLines(s, Links)
            <7> SUFFICES ASSUME NEW l \in Links, ls[k] = LinkLine(s, l) PROVE FALSE
              BY DEF LinkLines
            <7>1. l # "mem"
              BY DEF Links
            <7> QED BY <5>1, <7>1, LinkFields
          <6> QED BY <4>1, <6>1, <6>2
        <5>3. w \in F
          <6> PICK g \in F : ls[k] = MemLine(g)
            BY <5>2 DEF MemLines
          <6> QED BY <5>1, MemFields
        <5>4. F \union LineWords(todo') = WordsAt(s, UpTo(at, MappedIn(s))) /\ lsof' = lsof
          BY <3>1, <3>3, <4>1, <4>4, <5>3
        <5> QED BY <2>2, <3>5, <4>1, <5>4
      <4>5. CASE ~HasMem(w)
        <5>1. d.fd = "mem" /\ d.name = w
          BY <4>2, MemFields
        <5>2. d \notin ToSet(ls)
          BY <4>5, <5>1 DEF HasMem, ToSet
        <5>3. /\ IsInjective(lsof'[i].file_desc)
              /\ ToSet(lsof'[i].file_desc) = ToSet(ls) \union {d}
          BY <3>1, <3>4, <3>5, <4>5, <5>2, ShownBefore, PushedNew
        <5>4. ToSet(lsof'[i].file_desc) = LinkLines(s, Links) \union MemLines(F \union {w})
          BY <4>1, <4>2, <5>3 DEF MemLines
        <5>5. (F \union {w}) \union LineWords(todo') = WordsAt(s, UpTo(at, MappedIn(s)))
          BY <3>3, <4>1
        <5> QED BY <5>3, <5>4, <5>5
      <4> QED BY <4>4, <4>5
    <3> QED BY <1>0, <3>1, <3>4, <3>5, ScanStep
  <2> QED BY <2>4, <2>5
<1> QED BY <1>1, <1>2, <1>3, <1>4 DEF GetMem

LEMMA FdShown ==
  ASSUME ShownInv, GetFd, TypeInv'
  PROVE  ShownInv'
<1>0. /\ pc \in {"fd", "opendir", "readdir", "fdstat", "fdlink", "fdinfo"} /\ Reading
      /\ UNCHANGED <<proc, pid_list, i, touched>> /\ (dirs' = dirs \/ dirs' = dirs + 1)
      /\ pc' \in {"opendir", "readdir", "fdstat", "fdlink", "fdinfo", "next", "crashed"}
  BY DEF GetFd, AccessFd, Opendir, Readdir, ReaddirEnds, FdStat, FdLink, FdInfo, Reading, Goto, procVars,
         searchVars, readVars
<1> DEFINE s    == proc[pid]
           ls   == lsof[i].file_desc
           h    == Head(todo)
           open == UpTo(at, OpenIn(s))
<1>m. OpenIn(s) \subseteq Descriptors /\ at \in Nat
  BY DEF OpenIn, ShownInv, TypeInv, TypeOK
<1>1. ASSUME pc \in FdPoint
      PROVE  /\ h \in Descriptors /\ Tail(todo) \in Seq(Descriptors)
             /\ Len(todo) = 1 <=> Tail(todo) = << >>
             /\ ToSet(todo) = {h} \union ToSet(Tail(todo))
             /\ IsInjective(todo) => IsInjective(Tail(todo)) /\ h \notin ToSet(Tail(todo))
  <2>1. todo \in Seq(Descriptors) /\ todo # << >>
    BY <1>1 DEF FdPoint, ShownInv, TypeInv, TypeOK, TodoOK
  <2> QED BY <2>1, FirstAndRest, HeadAndRest
<1>2. ASSUME Untouched, pc \in FdPoint
      PROVE  /\ IsInjective(todo) /\ ToSet(todo) \subseteq open
             /\ ToSet(ls) = FirstLines(s) \union FdLines(s, open \ ToSet(todo))
             /\ "fd" \notin s.denied /\ IsInjective(ls)
             /\ HasFd(pid, h)
  <2>1. /\ IsInjective(todo) /\ ToSet(todo) \subseteq open
        /\ ToSet(ls) = FirstLines(s) \union FdLines(s, open \ ToSet(todo))
        /\ "fd" \notin s.denied /\ IsInjective(ls) /\ Shown(pid, "fd") /\ OpenFds(pid) = OpenIn(s)
    BY <1>2, ShownBefore DEF FdsAt
  <2>2. h \in OpenIn(s)
    BY <1>1, <1>2, <2>1 DEF UpTo
  <2> QED BY <2>1, <2>2 DEF HasFd
<1>3. CASE AccessFd
  <2>1. pc = "fd" /\ UNCHANGED <<sb, buf, todo, at, dirs>>
    BY <1>3 DEF AccessFd, readVars
  <2>2. CASE Shown(pid, "fd")
    <3>1. pc' = "opendir" /\ UNCHANGED lsof
      BY <1>3, <2>2 DEF AccessFd, Goto
    <3>2. ASSUME Untouched PROVE ShownAt(s, pc', lsof'[i].file_desc, todo', buf', sb', at')
      <4>1. ToSet(ls) = FirstLines(s) /\ "fd" \notin s.denied /\ IsInjective(ls)
        BY <2>1, <2>2, <3>2, ShownBefore DEF FdsAt
      <4> QED BY <3>1, <4>1 DEF ShownAt, LinksAt, MapsAt, FdsAt, FdPoint
    <3> QED BY <1>0, <3>1, <3>2, ScanStep
  <2>3. CASE ~Shown(pid, "fd")
    <3> DEFINE d == NoFd(sb)
    <3>1. pc' = "next" /\ lsof' = Pushed(d)
      BY <1>3, <2>3 DEF AccessFd, Goto
    <3>2. sb \in StatBuf /\ d \in Line /\ d.fd = "NOFD"
      BY NoFdType, NoFdFields DEF ShownInv, TypeInv, TypeOK
    <3>3. ASSUME Untouched PROVE ShownAt(s, pc', lsof'[i].file_desc, todo', buf', sb', at')
      <4>1. ToSet(ls) = FirstLines(s) /\ "fd" \in s.denied
        BY <2>1, <2>3, <3>3, ShownBefore DEF FdsAt
      <4>2. d \notin ToSet(ls)
        <5> SUFFICES ASSUME d \in FirstLines(s) PROVE FALSE
          BY <4>1
        <5>1. d.fd \in Links \union {"mem"}
          BY FirstFields
        <5> QED BY <3>2, <5>1 DEF Links
      <4>3. IsInjective(lsof'[i].file_desc) /\ ToSet(lsof'[i].file_desc) = ToSet(ls) \union {d}
        BY <3>1, <3>2, <3>3, <4>2, ShownBefore, PushedNew
      <4>4. LinesOf(s) = FirstLines(s)
        BY <4>1, LinesOfParts DEF FdLines
      <4>5. Complete(s, lsof'[i].file_desc)
        BY <3>2, <4>1, <4>3, <4>4 DEF Complete
      <4> QED BY <3>1, <4>3, <4>5 DEF ShownAt, LinksAt, MapsAt, FdsAt, FdPoint
    <3> QED BY <1>0, <3>1, <3>2, <3>3, ScanStep
  <2> QED BY <2>2, <2>3
<1>4. CASE Opendir
  <2>1. UNCHANGED <<lsof, sb, buf, todo>> /\ pc = "opendir" /\ pc' \in {"readdir", "crashed"}
    BY <1>4 DEF Opendir, Goto
  <2>2. ASSUME Untouched, Reading'
        PROVE  ShownAt(s, pc', lsof'[i].file_desc, todo', buf', sb', at')
    <3>1. pc' = "readdir" /\ at' = 0
      BY <1>4, <2>1, <2>2 DEF Opendir, Goto, Reading
    <3>2. ToSet(ls) = FirstLines(s) /\ "fd" \notin s.denied /\ IsInjective(ls)
      BY <2>1, <2>2, ShownBefore DEF FdsAt
    <3>3. FdLines(s, UpTo(0, OpenIn(s))) = {}
      BY <1>m, Listing DEF FdLines
    <3> QED BY <2>1, <3>1, <3>2, <3>3 DEF ShownAt, LinksAt, MapsAt, FdsAt, FdPoint
  <2> QED BY <1>0, <2>1, <2>2, ScanStep
<1>5. CASE Readdir
  <2>1. PICK x \in Later(OpenFds(pid)) :
          at' = Rank[x] /\ \E q \in Sorted(Until(x, OpenFds(pid))) : todo' = q
    BY <1>5 DEF Readdir
  <2>2. PICK q \in Sorted(Until(x, OpenFds(pid))) : todo' = q
    BY <2>1
  <2>3. pc = "readdir" /\ pc' = "fdstat" /\ UNCHANGED <<lsof, sb, buf, dirs>>
    BY <1>5 DEF Readdir, Goto
  <2>4. IsInjective(q) /\ ToSet(q) = Until(x, OpenFds(pid))
    BY <1>m, PieceOfFds
  <2>5. ASSUME Untouched PROVE ShownAt(s, pc', lsof'[i].file_desc, todo', buf', sb', at')
    <3>1. /\ ToSet(ls) = FirstLines(s) \union FdLines(s, open) /\ "fd" \notin s.denied
          /\ IsInjective(ls) /\ OpenFds(pid) = OpenIn(s)
      BY <2>3, <2>5, ShownBefore DEF FdsAt
    <3>2. /\ UpTo(at', OpenIn(s)) = open \union ToSet(todo')
          /\ UpTo(at', OpenIn(s)) \ ToSet(todo') = open
      BY <1>m, <2>1, <2>2, <2>4, <3>1, Listing
    <3> QED BY <2>2, <2>3, <2>4, <3>1, <3>2 DEF ShownAt, LinksAt, MapsAt, FdsAt, FdPoint
  <2> QED BY <1>0, <2>3, <2>5, ScanStep
<1>6. CASE ReaddirEnds
  <2>1. /\ pc = "readdir" /\ pc' = "next" /\ UNCHANGED <<lsof, sb, buf, todo, at, dirs>>
        /\ Later(OpenFds(pid)) = {} \/ touched
    BY <1>6 DEF ReaddirEnds, Goto, readVars
  <2>2. ASSUME Untouched PROVE ShownAt(s, pc', lsof'[i].file_desc, todo', buf', sb', at')
    <3>1. /\ ToSet(ls) = FirstLines(s) \union FdLines(s, open) /\ "fd" \notin s.denied
          /\ IsInjective(ls) /\ OpenFds(pid) = OpenIn(s)
      BY <2>1, <2>2, ShownBefore DEF FdsAt
    <3>2. open = OpenIn(s)
      BY <1>m, <2>1, <2>2, <3>1, Listing DEF Untouched
    <3>3. Complete(s, ls)
      BY <3>1, <3>2, LinesOfParts DEF Complete
    <3> QED BY <2>1, <3>1, <3>3 DEF ShownAt, LinksAt, MapsAt, FdsAt, FdPoint
  <2> QED BY <1>0, <2>1, <2>2, ScanStep
<1>7. CASE FdStat
  <2>1. pc = "fdstat" /\ pc' = "fdlink" /\ UNCHANGED <<lsof, buf, todo, at, dirs>> /\ sb' = StatAfter(h)
    BY <1>7 DEF FdStat, Goto
  <2>2. ASSUME Untouched PROVE ShownAt(s, pc', lsof'[i].file_desc, todo', buf', sb', at')
    <3>1. pc \in FdPoint
      BY <2>1 DEF FdPoint
    <3>2. sb' = Stat(s.fds[h].file)
      BY <1>2, <2>1, <2>2, <3>1 DEF StatAfter
    <3> QED BY <1>2, <2>1, <2>2, <3>1, <3>2 DEF ShownAt, LinksAt, MapsAt, FdsAt, FdPoint
  <2> QED BY <1>0, <2>1, <2>2, ScanStep
<1>8. CASE FdLink
  <2>1. /\ pc = "fdlink" /\ pc' = "fdinfo" /\ UNCHANGED <<lsof, sb, todo, at, dirs>>
        /\ HasFd(pid, h) => buf' = s.fds[h].file
    BY <1>8 DEF FdLink, Goto
  <2>2. ASSUME Untouched PROVE ShownAt(s, pc', lsof'[i].file_desc, todo', buf', sb', at')
    <3>1. pc \in FdPoint
      BY <2>1 DEF FdPoint
    <3>2. buf' = s.fds[h].file /\ sb = Stat(s.fds[h].file)
      BY <1>2, <2>1, <2>2, <3>1, ShownBefore DEF FdsAt
    <3> QED BY <1>2, <2>1, <2>2, <3>1, <3>2 DEF ShownAt, LinksAt, MapsAt, FdsAt, FdPoint
  <2> QED BY <1>0, <2>1, <2>2, ScanStep
<1>9. CASE FdInfo
  <2> DEFINE mode == IF HasFd(pid, h) /\ HasDescriptor THEN Letter(proc[pid].fds[h].flags) ELSE ""
             d    == Desc(h, mode, sb, buf)
  <2>1. /\ pc = "fdinfo" /\ lsof' = Pushed(d) /\ todo' = Tail(todo)
        /\ pc' = IF Len(todo) = 1 THEN "readdir" ELSE "fdstat"
        /\ UNCHANGED <<sb, buf, at, dirs>>
    BY <1>9 DEF FdInfo, Goto
  <2>2. pc \in FdPoint
    BY <2>1 DEF FdPoint
  <2>3. d \in Line
    <3>1. mode \in {"", "r", "w", "u", "N"}
      BY DEF Letter
    <3>2. sb \in StatBuf /\ buf \in Files \union {Garbage}
      BY DEF ShownInv, TypeInv, TypeOK
    <3> QED BY <1>1, <2>2, <3>1, <3>2, DescType
  <2>4. ASSUME Untouched PROVE ShownAt(s, pc', lsof'[i].file_desc, todo', buf', sb', at')
    <3>1. d = FdLine(s, h)
      <4>1. HasFd(pid, h) /\ HasDescriptor /\ buf = s.fds[h].file /\ sb = Stat(s.fds[h].file)
        BY <1>2, <2>1, <2>2, <2>4, ShownBefore DEF FdsAt
      <4>2. mode = Letter(s.fds[h].flags)
        BY <4>1
      <4> QED BY <4>1, <4>2 DEF FdLine
    <3> HIDE DEF d
    <3>2. d \notin ToSet(ls)
      <4>1. d.fd = h
        BY <3>1, FdFields
      <4>2. d \notin FirstLines(s)
        <5> SUFFICES ASSUME d \in FirstLines(s) PROVE FALSE
          OBVIOUS
        <5>1. d.fd \in Links \union {"mem"}
          BY FirstFields
        <5> QED BY <1>1, <2>2, <4>1, <5>1, LsofAssumption
      <4>3. d \notin FdLines(s, open \ ToSet(todo))
        <5> SUFFICES ASSUME NEW m \in open \ ToSet(todo), d = FdLine(s, m) PROVE FALSE
          BY DEF FdLines
        <5>1. d.fd = m
          BY FdFields
        <5> QED BY <1>1, <2>2, <4>1, <5>1
      <4> QED BY <1>2, <2>2, <2>4, <4>2, <4>3
    <3>3. IsInjective(lsof'[i].file_desc) /\ ToSet(lsof'[i].file_desc) = ToSet(ls) \union {d}
      BY <2>1, <2>3, <2>4, <3>2, ShownBefore, PushedNew
    <3>4. /\ open \ ToSet(Tail(todo)) = (open \ ToSet(todo)) \union {h}
          /\ IsInjective(Tail(todo)) /\ ToSet(Tail(todo)) \subseteq open
      BY <1>1, <1>2, <2>2, <2>4
    <3>5. ToSet(lsof'[i].file_desc) = FirstLines(s) \union FdLines(s, open \ ToSet(Tail(todo)))
      BY <1>2, <2>2, <2>4, <3>1, <3>3, <3>4 DEF FdLines
    <3>6. pc' = "readdir" => open \ ToSet(Tail(todo)) = open
      BY <1>1, <2>1, <2>2, EmptySet
    <3> QED BY <1>2, <2>1, <2>2, <2>4, <3>3, <3>4, <3>5, <3>6
            DEF ShownAt, LinksAt, MapsAt, FdsAt, FdPoint
  <2> QED BY <1>0, <2>1, <2>3, <2>4, ScanStep
<1> QED BY <1>3, <1>4, <1>5, <1>6, <1>7, <1>8, <1>9 DEF GetFd

(* The step after which no process is being read: entries as they are.     *)
LEMMA CommShown ==
  ASSUME ShownInv, GetComm, TypeInv'
  PROVE  ShownInv'
<1> DEFINE e == [lsof[i] EXCEPT !.comm = IF Alive(pid) /\ HasDescriptor THEN proc[pid].comm ELSE ""]
<1>1. /\ pc = "comm" /\ pc' = "uid" /\ lsof' = [lsof EXCEPT ![i] = e]
      /\ UNCHANGED <<proc, pid_list, i, todo, buf, sb, at, dirs>>
  BY DEF GetComm, Goto, procVars, readVars, searchVars
<1>2. /\ i \in DOMAIN lsof /\ lsof[i] \in Info /\ i \in Nat /\ pid' = pid
      /\ lsof \in Seq(Info)
  BY <1>1, AtProcess DEF ShownInv, Reading, TypeInv, TypeOK, pid
<1>3. lsof[i].pid = pid /\ lsof[i].file_desc = << >>
  BY <1>1, <1>2 DEF ShownInv, EntriesInOrder, Reading, pid
<1>4. /\ e.pid = lsof[i].pid /\ e.file_desc = lsof[i].file_desc
      /\ e.comm = IF Alive(pid) /\ HasDescriptor THEN proc[pid].comm ELSE ""
  BY <1>2 DEF Info
<1> HIDE DEF e
<1>5. /\ DOMAIN lsof' = DOMAIN lsof /\ lsof'[i] = e
      /\ \A k \in DOMAIN lsof : k # i => lsof'[k] = lsof[k]
  BY <1>1, <1>2
<1>6. EntriesInOrder'
  <2> SUFFICES ASSUME NEW k \in DOMAIN lsof
               PROVE  /\ lsof'[k].pid = pid_list[k]
                      /\ k > i \/ k = i => lsof'[k].file_desc = << >>
    BY <1>1, <1>5 DEF EntriesInOrder
  <2>1. lsof[k].pid = pid_list[k] /\ (k > i \/ k = i => lsof[k].file_desc = << >>)
    BY <1>1 DEF ShownInv, EntriesInOrder, Reading
  <2> QED BY <1>4, <1>5, <2>1
<1>7. ShownSoFar'
  <2> SUFFICES ASSUME Untouched'
               PROVE  lsof'[i].comm = proc[pid].comm /\ ShownAt(proc[pid], pc', lsof'[i].file_desc, todo', buf', sb', at')
    BY <1>1, <1>2 DEF ShownSoFar
  <2>1. Alive(pid) /\ HasDescriptor
    BY <1>1, <1>2 DEF Untouched, Alive, HasDescriptor
  <2>2. lsof'[i].file_desc = << >> /\ IsInjective(<< >>)
    BY <1>3, <1>4, <1>5, EmptySet
  <2> QED BY <1>1, <1>4, <1>5, <2>1, <2>2 DEF ShownAt, LinksAt, MapsAt, FdsAt, FdPoint
<1> QED BY <1>6, <1>7 DEF ShownInv

LEMMA UsernameShown ==
  ASSUME ShownInv, GetUsername, TypeInv'
  PROVE  ShownInv'
<1> DEFINE uid == IF Alive(pid) THEN proc[pid].uid ELSE "0"
           e   == [lsof[i] EXCEPT !.username = Users[uid]]
<1>1. pc = "uid" /\ UNCHANGED <<proc, pid_list, i, buf, sb, at, dirs, touched>>
  BY DEF GetUsername, procVars, searchVars
<1>2. CASE ~(uid \in DOMAIN Users /\ HasDescriptor)
  <2>1. pc' = "crashed"
    BY <1>2 DEF GetUsername, Goto
  <2> QED BY <2>1 DEF ShownInv, EntriesInOrder, ShownSoFar, Untouched, Reading
<1>3. CASE uid \in DOMAIN Users /\ HasDescriptor
  <2>1. pc' = "access" /\ lsof' = [lsof EXCEPT ![i] = e] /\ todo' = <<"cwd", "root", "exe">>
    BY <1>3 DEF GetUsername, Goto
  <2>2. /\ i \in DOMAIN lsof /\ lsof[i] \in Info /\ i \in Nat /\ pid' = pid /\ lsof \in Seq(Info)
    BY <1>1, AtProcess DEF ShownInv, Reading, TypeInv, TypeOK, pid
  <2>3. lsof[i].pid = pid /\ lsof[i].file_desc = << >>
    BY <1>1, <2>2 DEF ShownInv, EntriesInOrder, Reading, pid
  <2>4. /\ e.pid = lsof[i].pid /\ e.file_desc = lsof[i].file_desc /\ e.comm = lsof[i].comm
        /\ e.username = Users[uid]
    BY <2>2 DEF Info
  <2> HIDE DEF e
  <2>5. /\ DOMAIN lsof' = DOMAIN lsof /\ lsof'[i] = e
        /\ \A k \in DOMAIN lsof : k # i => lsof'[k] = lsof[k]
    BY <2>1, <2>2
  <2>6. EntriesInOrder'
    <3> SUFFICES ASSUME NEW k \in DOMAIN lsof
                 PROVE  /\ lsof'[k].pid = pid_list[k]
                        /\ k > i => lsof'[k].file_desc = << >>
      BY <1>1, <2>1, <2>5 DEF EntriesInOrder
    <3>1. lsof[k].pid = pid_list[k] /\ (k > i => lsof[k].file_desc = << >>)
      BY <1>1 DEF ShownInv, EntriesInOrder, Reading
    <3> QED BY <2>2, <2>4, <2>5, <3>1
  <2>7. ShownSoFar'
    <3> SUFFICES ASSUME Untouched'
                 PROVE  /\ lsof'[i].comm = proc[pid].comm
                        /\ lsof'[i].username = Users[proc[pid].uid]
                        /\ ShownAt(proc[pid], pc', lsof'[i].file_desc, todo', buf', sb', at')
      BY <1>1, <2>2 DEF ShownSoFar
    <3>1. Untouched /\ Alive(pid)
      BY <1>1, <1>3, <2>2 DEF Untouched, Alive, Reading
    <3>2. lsof'[i].file_desc = << >>
      BY <2>3, <2>4, <2>5
    <3>3. IsInjective(<< >>) /\ ToSet(<< >>) = {}
      BY EmptySet
    <3>4. IsInjective(<<"cwd", "root", "exe">>) /\ ToSet(<<"cwd", "root", "exe">>) = Links
      BY DEF IsInjective, ToSet, Links
    <3>5. LinkLines(proc[pid], {}) = {}
      BY DEF LinkLines
    <3>6. ShownAt(proc[pid], pc', lsof'[i].file_desc, todo', buf', sb', at')
      <4>1. Links \ ToSet(todo') = {} /\ IsInjective(todo') /\ pc' = "access"
        BY <2>1, <3>4
      <4> QED BY <3>2, <3>3, <3>5, <4>1 DEF ShownAt, LinksAt, MapsAt, FdsAt, FdPoint
    <3> QED BY <2>4, <2>5, <3>1, <3>6 DEF ShownInv, ShownSoFar
  <2> QED BY <2>6, <2>7 DEF ShownInv
<1> QED BY <1>2, <1>3

(* Every entry starts empty, and the next one is still empty.              *)
LEMMA StartsShown ==
  ASSUME ShownInv, Scandir \/ NextPid, TypeInv'
  PROVE  ShownInv'
<1>1. pc' \in {"comm", "getopt"}
  BY DEF Scandir, NextPid, Goto
<1>2. ShownSoFar'
  BY <1>1 DEF ShownSoFar, Untouched, Reading
<1>3. CASE Scandir
  <2>1. /\ lsof' = [k \in DOMAIN pid_list' |->
               [pid |-> pid_list'[k], comm |-> "", username |-> "", file_desc |-> << >>]]
    BY <1>3 DEF Scandir
  <2>2. EntriesInOrder'
    BY <2>1 DEF EntriesInOrder
  <2> QED BY <1>2, <2>2 DEF ShownInv
<1>4. CASE NextPid /\ pc' = "comm"
  <2>1. i' = i + 1 /\ UNCHANGED <<lsof, pid_list>> /\ pc = "next" /\ i \in Nat
    BY <1>4 DEF NextPid, Goto, ShownInv, TypeInv, TypeOK
  <2>2. EntriesInOrder'
    <3> SUFFICES ASSUME NEW k \in DOMAIN lsof
                 PROVE  lsof[k].pid = pid_list[k] /\ (k > i' \/ k = i' => lsof[k].file_desc = << >>)
      BY <1>4, <2>1 DEF EntriesInOrder
    <3>1. lsof[k].pid = pid_list[k] /\ (k > i => lsof[k].file_desc = << >>)
      BY <2>1 DEF ShownInv, EntriesInOrder, Reading
    <3>2. k \in Nat
      BY DEF ShownInv, TypeInv, TypeOK
    <3> QED BY <2>1, <3>1, <3>2
  <2> QED BY <1>2, <2>2 DEF ShownInv
<1>5. CASE pc' = "getopt"
  BY <1>2, <1>5 DEF ShownInv, EntriesInOrder, Reading
<1> QED BY <1>1, <1>3, <1>4, <1>5

(* The changes of the processes, and the steps after the last read.        *)
LEMMA OthersShown ==
  ASSUME ShownInv, ProcessChanges, TypeInv'
  PROVE  ShownInv'
<1>1. UNCHANGED <<pc, pid_list, lsof, todo, buf, sb, at, dirs, i>>
  BY DEF ProcessChanges, readVars, searchVars
<1>2. EntriesInOrder'
  BY <1>1 DEF ShownInv, EntriesInOrder, Reading
<1>3. ShownSoFar'
  <2> SUFFICES ASSUME Untouched'
               PROVE  /\ lsof[i].comm = proc'[pid].comm
                      /\ pc # "uid" => lsof[i].username = Users[proc'[pid].uid]
                      /\ ShownAt(proc'[pid], pc, lsof[i].file_desc, todo, buf, sb, at)
    BY <1>1 DEF ShownSoFar, pid
  <2>1. pc # "scandir" /\ ~touched'
    BY <1>1 DEF Untouched
  <2>2. ~touched /\ pid' = pid /\ proc'[pid] = proc[pid]
    BY <2>1, OthersChange DEF ShownInv
  <2>3. Untouched
    BY <1>1, <2>2 DEF Untouched, Reading, Alive, HasDescriptor
  <2> QED BY <2>2, <2>3 DEF ShownInv, ShownSoFar
<1> QED BY <1>2, <1>3 DEF ShownInv

LEMMA SearchShown ==
  ASSUME ShownInv, ScandirFails \/ Getopt \/ SearchComm \/ SearchDesc, TypeInv'
  PROVE  ShownInv'
<1>1. pc' \in {"search_comm", "search_type", "search_file", "done", "crashed"}
  BY DEF ScandirFails, Getopt, SearchComm, SearchDesc, Goto
<1> QED BY <1>1 DEF ShownInv, EntriesInOrder, ShownSoFar, Untouched, Reading

LEMMA ShownStutter ==
  ASSUME ShownInv, UNCHANGED vars
  PROVE  ShownInv'
<1>1. TypeInv'
  BY TypeStutter DEF ShownInv
<1>2. UNCHANGED <<proc, pc, pid_list, lsof, todo, buf, sb, at, dirs, i, touched>>
  BY DEF vars, procVars, readVars, searchVars
<1>3. EntriesInOrder'
  BY <1>2 DEF ShownInv, EntriesInOrder, Reading
<1>4. ShownSoFar'
  BY <1>2 DEF ShownInv, ShownSoFar, Untouched, Reading, Alive, HasDescriptor, pid
<1> QED BY <1>1, <1>3, <1>4 DEF ShownInv

LEMMA ShownStep == ShownInv /\ [Next]_vars => ShownInv'
<1> SUFFICES ASSUME ShownInv, [Next]_vars PROVE ShownInv'
  OBVIOUS
<1>1. TypeInv'
  BY TypeStep DEF ShownInv
<1> QED BY <1>1, LinksShown, MapsShown, FdShown, CommShown, UsernameShown, StartsShown, OthersShown,
           SearchShown, ShownStutter DEF Next, Step

(* A process that did not change while it was read is shown as it is, for  *)
(* any number of processes, of their descriptors and of the changes of the *)
(* others between any two reads.                                           *)
THEOREM ShownAsItIs == Spec => []Faithful
<1>1. Spec => []ShownInv
  BY ShownInit, ShownStep, PTL DEF Spec
<1> QED BY <1>1, ShownFaithful, PTL


-----------------------------------------------------------------------------
(* Every step of lsof leaves less ahead.  That what is ahead is counted by *)
(* naturals needs that the search stays within its bounds (InBounds).      *)
InBounds ==
  /\ ~Reading => i <= Len(lsof) + 1
  /\ pc \notin {"search_type", "search_file", "crashed"} => j = 1
  /\ ~Reading /\ i \in DOMAIN lsof => j <= Len(lsof[i].file_desc) + 1
  /\ pc = "getopt" => i = 1

AheadInv == TypeInv /\ InBounds

LEMMA NearerTuples ==
  ASSUME NEW a1 \in Nat, NEW b1 \in Nat, NEW c1 \in Nat, NEW d1 \in Nat, NEW e1 \in Nat, NEW f1 \in Nat,
         NEW a2 \in Nat, NEW b2 \in Nat, NEW c2 \in Nat, NEW d2 \in Nat, NEW e2 \in Nat, NEW f2 \in Nat,
         \/ a2 < a1
         \/ a2 = a1 /\ b2 < b1
         \/ a2 = a1 /\ b2 = b1 /\ c2 < c1
         \/ a2 = a1 /\ b2 = b1 /\ c2 = c1 /\ d2 < d1
         \/ a2 = a1 /\ b2 = b1 /\ c2 = c1 /\ d2 = d1 /\ e2 < e1
         \/ a2 = a1 /\ b2 = b1 /\ c2 = c1 /\ d2 = d1 /\ e2 = e1 /\ f2 < f1
  PROVE  Nearer(<<a2, b2, c2, d2, e2, f2>>, <<a1, b1, c1, d1, e1, f1>>)
<1> DEFINE x == <<a2, b2, c2, d2, e2, f2>>
           y == <<a1, b1, c1, d1, e1, f1>>
<1>0. /\ DOMAIN x = 1 .. 6
      /\ x[1] = a2 /\ x[2] = b2 /\ x[3] = c2 /\ x[4] = d2 /\ x[5] = e2 /\ x[6] = f2
      /\ y[1] = a1 /\ y[2] = b1 /\ y[3] = c1 /\ y[4] = d1 /\ y[5] = e1 /\ y[6] = f1
  OBVIOUS
<1> HIDE DEF x, y
<1>1. PICK k \in 1 .. 6 : x[k] < y[k] /\ \A m \in 1 .. k - 1 : x[m] = y[m]
  <2>1. CASE a2 < a1
    <3>1. x[1] < y[1] /\ \A m \in 1 .. 1 - 1 : x[m] = y[m]
      BY <2>1, <1>0
    <3> QED BY <3>1
  <2>2. CASE a2 = a1 /\ b2 < b1
    <3>1. x[2] < y[2] /\ \A m \in 1 .. 2 - 1 : x[m] = y[m]
      BY <2>2, <1>0
    <3> QED BY <3>1
  <2>3. CASE a2 = a1 /\ b2 = b1 /\ c2 < c1
    <3>0. \A m \in 1 .. 3 - 1 : m = 1 \/ m = 2
      OBVIOUS
    <3>1. x[3] < y[3] /\ \A m \in 1 .. 3 - 1 : x[m] = y[m]
      BY <2>3, <1>0, <3>0
    <3> QED BY <3>1
  <2>4. CASE a2 = a1 /\ b2 = b1 /\ c2 = c1 /\ d2 < d1
    <3>0. \A m \in 1 .. 4 - 1 : m = 1 \/ m = 2 \/ m = 3
      OBVIOUS
    <3>1. x[4] < y[4] /\ \A m \in 1 .. 4 - 1 : x[m] = y[m]
      BY <2>4, <1>0, <3>0
    <3> QED BY <3>1
  <2>5. CASE a2 = a1 /\ b2 = b1 /\ c2 = c1 /\ d2 = d1 /\ e2 < e1
    <3>0. \A m \in 1 .. 5 - 1 : m = 1 \/ m = 2 \/ m = 3 \/ m = 4
      OBVIOUS
    <3>1. x[5] < y[5] /\ \A m \in 1 .. 5 - 1 : x[m] = y[m]
      BY <2>5, <1>0, <3>0
    <3> QED BY <3>1
  <2>6. CASE a2 = a1 /\ b2 = b1 /\ c2 = c1 /\ d2 = d1 /\ e2 = e1 /\ f2 < f1
    <3>0. \A m \in 1 .. 6 - 1 : m = 1 \/ m = 2 \/ m = 3 \/ m = 4 \/ m = 5
      OBVIOUS
    <3>1. x[6] < y[6] /\ \A m \in 1 .. 6 - 1 : x[m] = y[m]
      BY <2>6, <1>0, <3>0
    <3> QED BY <3>1
  <2> QED BY <2>1, <2>2, <2>3, <2>4, <2>5, <2>6
<1>2. Nearer(x, y)
  BY <1>0, <1>1 DEF Nearer
<1> QED BY <1>2 DEF x, y

(* What is left of a listing, and that a piece taken leaves less.          *)
LEMMA LaterCounts ==
  \A S : S = Addresses \/ S = Descriptors => Cardinality(Later(S)) \in Nat
<1> SUFFICES ASSUME NEW S, S = Addresses \/ S = Descriptors PROVE Cardinality(Later(S)) \in Nat
  OBVIOUS
<1>1. IsFiniteSet(S) /\ Later(S) \in SUBSET S
  BY ListedAre
<1> QED BY <1>1, FS_Subset, FS_CardinalityType

LEMMA LessLater ==
  ASSUME NEW S, S = Addresses \/ S = Descriptors, NEW x \in Later(S), at \in Nat, at' = Rank[x]
  PROVE  Cardinality({y \in S : Rank[y] > at'}) < Cardinality(Later(S))
<1> DEFINE T == {y \in S : Rank[y] > at'}
<1>1. IsFiniteSet(Later(S))
  BY ListedAre, FS_Subset
<1>2. x \in S /\ Rank[x] > at /\ \A y \in S : Rank[y] \in Nat
  BY ListedAre DEF Later
<1>3. T \in SUBSET Later(S) /\ x \notin T
  BY <1>2 DEF Later
<1> HIDE DEF T
<1>4. IsFiniteSet(T) /\ Cardinality(T) <= Cardinality(Later(S)) /\ Cardinality(T) # Cardinality(Later(S))
  BY <1>1, <1>3, FS_Subset
<1>5. Cardinality(T) \in Nat /\ Cardinality(Later(S)) \in Nat
  BY <1>1, <1>4, FS_CardinalityType
<1>6. Cardinality(T) < Cardinality(Later(S))
  BY <1>4, <1>5
<1> QED BY <1>6 DEF T

Counted ==
  /\ PhasesAhead \in Nat /\ ProcessesAhead \in Nat /\ PlacesAhead \in Nat
  /\ NumbersAhead \in Nat /\ Len(todo) \in Nat /\ CallsAhead \in Nat

LEMMA CountsAreNaturals == AheadInv => Counted
<1> SUFFICES ASSUME AheadInv PROVE Counted
  OBVIOUS
<1>0. /\ TypeInv /\ pc \in Point /\ lsof \in Seq(Info) /\ i \in Nat \ {0} /\ j \in Nat \ {0}
      /\ Len(lsof) \in Nat /\ DOMAIN lsof = 1 .. Len(lsof)
  BY DEF AheadInv, TypeInv, TypeOK
<1>1. PhasesAhead \in Nat /\ CallsAhead \in Nat
  <2>1. pc = "mapsstat" => Len(Head(todo)) \in Nat
    <3> SUFFICES ASSUME pc = "mapsstat" PROVE Len(Head(todo)) \in Nat
      OBVIOUS
    <3>1. todo \in Seq(Seq(Words)) /\ todo # << >>
      BY DEF AheadInv, TypeInv, TypeOK, TodoOK
    <3>2. Head(todo) \in Seq(Words)
      BY <3>1, WordOfLine
    <3> QED BY <3>2
  <2> QED BY <2>1 DEF PhasesAhead, CallsAhead
<1>2. ProcessesAhead \in Nat
  <2>1. CASE Reading /\ pc # "scandir"
    BY <1>0, <2>1, AtProcess DEF ProcessesAhead
  <2>2. CASE ~Reading
    BY <1>0, <2>2 DEF AheadInv, InBounds, ProcessesAhead
  <2> QED BY <2>1, <2>2 DEF ProcessesAhead
<1>3. PlacesAhead \in Nat
  <2>1. CASE Reading
    BY <1>0, <2>1 DEF PlacesAhead, Place, Reading, Point
  <2>2. CASE ~Reading /\ i \in DOMAIN lsof
    <3>1. lsof[i] \in Info
      BY <1>0, <2>2
    <3>2. lsof[i].file_desc \in Seq(Line)
      BY <3>1 DEF Info
    <3>3. Len(lsof[i].file_desc) \in Nat
      BY <3>2
    <3> QED BY <1>0, <2>2, <3>3 DEF AheadInv, InBounds, PlacesAhead
  <2> QED BY <2>1, <2>2 DEF PlacesAhead
<1>4. Len(todo) \in Nat
  BY EmptySeq DEF AheadInv, TypeInv, TypeOK, TodoOK
<1>5. NumbersAhead \in Nat
  BY LaterCounts DEF NumbersAhead
<1> QED BY <1>1, <1>2, <1>3, <1>4, <1>5 DEF Counted

LEMMA AheadIn ==
  AheadInv => Ahead \in [1 .. 6 -> Nat]
BY CountsAreNaturals DEF Ahead, Counted

(* What has to be shown of a step.                                         *)
LEMMA StepNearer ==
  ASSUME AheadInv, AheadInv',
         \/ PhasesAhead' < PhasesAhead
         \/ PhasesAhead' = PhasesAhead /\ ProcessesAhead' < ProcessesAhead
         \/ /\ PhasesAhead' = PhasesAhead /\ ProcessesAhead' = ProcessesAhead
            /\ PlacesAhead' < PlacesAhead
         \/ /\ PhasesAhead' = PhasesAhead /\ ProcessesAhead' = ProcessesAhead
            /\ PlacesAhead' = PlacesAhead
            /\ \/ NumbersAhead' < NumbersAhead
               \/ NumbersAhead' = NumbersAhead /\ Len(todo') < Len(todo)
               \/ NumbersAhead' = NumbersAhead /\ Len(todo') = Len(todo) /\ CallsAhead' < CallsAhead
  PROVE  Nearer(Ahead', Ahead)
<1>1. Counted
  BY CountsAreNaturals
<1>2. AheadInv' => Counted'
  BY CountsAreNaturals, PTL
<1>3. Nearer(<<PhasesAhead', ProcessesAhead', PlacesAhead', NumbersAhead', Len(todo'), CallsAhead'>>,
             <<PhasesAhead, ProcessesAhead, PlacesAhead, NumbersAhead, Len(todo), CallsAhead>>)
  BY <1>1, <1>2, NearerTuples DEF Counted
<1> QED BY <1>3 DEF Ahead

LEMMA BoundsFrom ==
  ASSUME TypeInv', j' = 1,
         ~Reading' => i' <= Len(lsof') + 1,
         pc' = "getopt" => i' = 1
  PROVE  AheadInv'
<1>1. ASSUME i' \in DOMAIN lsof' PROVE j' <= Len(lsof'[i'].file_desc) + 1
  <2>1. lsof'[i'] \in Info
    BY <1>1 DEF TypeInv, TypeOK
  <2>2. lsof'[i'].file_desc \in Seq(Line)
    BY <2>1 DEF Info
  <2>3. Len(lsof'[i'].file_desc) \in Nat
    BY <2>2
  <2> QED BY <2>3
<1> QED BY <1>1 DEF AheadInv, InBounds

(* A step of the scan that stays with its process, or crashes.             *)
LEMMA ScanNearer ==
  ASSUME AheadInv, TypeInv', Reading, pc # "scandir", UNCHANGED <<pid_list, i, j>>,
         \/ pc' = "crashed" /\ lsof' = lsof
         \/ /\ Reading' /\ pc' # "scandir"
            /\ \/ Place[pc'] < Place[pc]
               \/ /\ Place[pc'] = Place[pc]
                  /\ \/ NumbersAhead' < NumbersAhead
                     \/ NumbersAhead' = NumbersAhead /\ Len(todo') < Len(todo)
                     \/ /\ NumbersAhead' = NumbersAhead /\ Len(todo') = Len(todo)
                        /\ CallsAhead' < CallsAhead
  PROVE  AheadInv' /\ Nearer(Ahead', Ahead)
<1>0. /\ pid_list \in Seq(Pids) /\ lsof \in Seq(Info) /\ lsof' \in Seq(Info) /\ TypeInv /\ j = 1
      /\ DOMAIN lsof = DOMAIN pid_list /\ i \in DOMAIN lsof
  BY DEF AheadInv, InBounds, TypeInv, TypeOK, Reading
<1>1. CASE pc' = "crashed" /\ lsof' = lsof
  <2>1. i <= Len(lsof) + 1
    BY <1>0
  <2>2. AheadInv'
    BY <1>0, <1>1, <2>1, BoundsFrom
  <2>3. PhasesAhead' < PhasesAhead
    BY <1>1 DEF PhasesAhead, Reading
  <2> QED BY <2>2, <2>3, StepNearer
<1>2. CASE /\ Reading' /\ pc' # "scandir"
           /\ \/ Place[pc'] < Place[pc]
              \/ /\ Place[pc'] = Place[pc]
                 /\ \/ NumbersAhead' < NumbersAhead
                    \/ NumbersAhead' = NumbersAhead /\ Len(todo') < Len(todo)
                    \/ /\ NumbersAhead' = NumbersAhead /\ Len(todo') = Len(todo)
                       /\ CallsAhead' < CallsAhead
  <2>1. AheadInv'
    BY <1>0, <1>2, BoundsFrom DEF Reading
  <2>2. PhasesAhead' = PhasesAhead
    BY <1>2 DEF PhasesAhead
  <2>3. DOMAIN lsof' = DOMAIN lsof
    BY <1>0, <1>2 DEF TypeInv, TypeOK
  <2>4. Len(lsof') = Len(lsof)
    BY <1>0, <2>3
  <2>5. ProcessesAhead' = ProcessesAhead
    BY <1>2, <2>4 DEF ProcessesAhead
  <2>6. PlacesAhead' = Place[pc'] /\ PlacesAhead = Place[pc]
    BY <1>2 DEF PlacesAhead
  <2> QED BY <1>2, <2>1, <2>2, <2>5, <2>6, StepNearer
<1> QED BY <1>1, <1>2

LEMMA LinksNearer ==
  ASSUME AheadInv, TypeInv', GetLinks
  PROVE  AheadInv' /\ Nearer(Ahead', Ahead)
<1>0. /\ pc \in {"access", "readlink", "stat"} /\ Reading /\ UNCHANGED <<pid_list, i, j>>
      /\ todo \in Seq(Links) /\ todo # << >>
  BY DEF GetLinks, AccessLink, ReadLink, StatLink, searchVars, Reading, AheadInv, TypeInv, TypeOK,
         TodoOK
<1>1. Len(Tail(todo)) < Len(todo)
  BY <1>0, FirstAndRest
<1>2. CASE ReadLink \/ (AccessLink /\ pc' = "readlink")
  <2>1. /\ Reading' /\ pc' # "scandir" /\ Place[pc'] = Place[pc] /\ Len(todo') = Len(todo)
        /\ NumbersAhead' = NumbersAhead /\ CallsAhead' < CallsAhead
    BY <1>2 DEF ReadLink, AccessLink, AfterLink, Goto, Reading, Place, CallsAhead, NumbersAhead
  <2> QED BY <1>0, <2>1, ScanNearer
<1>3. CASE StatLink \/ (AccessLink /\ pc' # "readlink")
  <2>1. pc' \in {"maps", "access"} /\ todo' = Tail(todo)
    BY <1>3 DEF StatLink, AccessLink, AfterLink, Goto
  <2>2. /\ Reading' /\ pc' # "scandir" /\ NumbersAhead' = NumbersAhead
        /\ Place[pc'] < Place[pc] \/ Place[pc'] = Place[pc]
    BY <1>0, <2>1 DEF Reading, Place, NumbersAhead
  <2> QED BY <1>0, <1>1, <2>1, <2>2, ScanNearer
<1> QED BY <1>2, <1>3 DEF GetLinks

LEMMA MemNearer ==
  ASSUME AheadInv, TypeInv', GetMem
  PROVE  AheadInv' /\ Nearer(Ahead', Ahead)
<1>0. /\ pc \in {"maps", "mapsread", "mapsstat"} /\ Reading /\ UNCHANGED <<pid_list, i, j>>
      /\ at \in Nat /\ (at' = at \/ AccessMaps \/ ReadMaps)
  BY DEF GetMem, AccessMaps, ReadMaps, MapsEnd, StatMaps, searchVars, readVars, Reading, AheadInv, TypeInv,
         TypeOK
<1>1. CASE AccessMaps \/ MapsEnd
  <2>1. <<pc, pc'>> \in {<<"maps", "mapsread">>, <<"maps", "fd">>, <<"mapsread", "fd">>}
    BY <1>1, Zenon DEF AccessMaps, MapsEnd, Goto
  <2>2. Reading' /\ pc' # "scandir" /\ Place[pc'] < Place[pc]
    BY <2>1 DEF Reading, Place
  <2> QED BY <1>0, <2>2, ScanNearer
<1>2. CASE ReadMaps
  <2>1. pc = "mapsread" /\ pc' = "mapsstat"
    BY <1>2 DEF ReadMaps, Goto
  <2>2. PICK x \in Later(Mapped(pid)) : at' = Rank[x]
    BY <1>2 DEF ReadMaps
  <2>3. x \in Later(Addresses)
    BY DEF Later, Mapped
  <2>4. NumbersAhead' < NumbersAhead
    BY <1>0, <2>1, <2>2, <2>3, LessLater DEF NumbersAhead, Later
  <2>5. Reading' /\ pc' # "scandir" /\ Place[pc'] = Place[pc]
    BY <2>1 DEF Reading, Place
  <2> QED BY <1>0, <2>4, <2>5, ScanNearer
<1>3. CASE StatMaps
  <2>1. pc = "mapsstat" /\ todo \in Seq(Seq(Words)) /\ todo # << >> /\ at' = at
    BY <1>3 DEF StatMaps, AheadInv, TypeInv, TypeOK, TodoOK
  <2>2. /\ pc' \in {"mapsread", "mapsstat"} /\ Reading' /\ pc' # "scandir"
        /\ Place[pc'] = Place[pc] /\ NumbersAhead' = NumbersAhead
    <3>1. pc' \in {"mapsread", "mapsstat"}
      BY <1>3, <2>1 DEF StatMaps, Goto
    <3> QED BY <2>1, <3>1 DEF Reading, Place, NumbersAhead, Later
  <2>3. CASE Head(todo) = << >>
    <3>1. todo' = Tail(todo)
      BY <1>3, <2>3 DEF StatMaps
    <3>2. Len(todo') < Len(todo)
      BY <2>1, <3>1, FirstAndRest
    <3> QED BY <1>0, <2>2, <3>2, ScanNearer
  <2>4. CASE Head(todo) # << >>
    <3>1. todo' = <<Tail(Head(todo))>> \o Tail(todo) /\ pc' = "mapsstat"
      BY <1>3, <2>1, <2>4 DEF StatMaps
    <3>2. Len(todo') = Len(todo) /\ Head(todo') = Tail(Head(todo)) /\ Head(todo) \in Seq(Words)
      BY <2>1, <2>4, <3>1, WordOfLine
    <3>3. Len(Head(todo')) < Len(Head(todo))
      BY <2>4, <3>2, FirstAndRest
    <3>4. CallsAhead' < CallsAhead
      BY <2>1, <3>1, <3>3 DEF CallsAhead
    <3> QED BY <1>0, <2>2, <3>2, <3>4, ScanNearer
  <2> QED BY <2>3, <2>4
<1> QED BY <1>1, <1>2, <1>3 DEF GetMem

LEMMA FdNearer ==
  ASSUME AheadInv, TypeInv', GetFd
  PROVE  AheadInv' /\ Nearer(Ahead', Ahead)
<1>0. /\ pc \in {"fd", "opendir", "readdir", "fdstat", "fdlink", "fdinfo"} /\ Reading
      /\ UNCHANGED <<pid_list, i, j>> /\ at \in Nat
  BY DEF GetFd, AccessFd, Opendir, Readdir, ReaddirEnds, FdStat, FdLink, FdInfo, searchVars, Reading,
         AheadInv, TypeInv, TypeOK
<1>1. CASE AccessFd \/ ReaddirEnds
  <2>1. <<pc, pc'>> \in {<<"fd", "opendir">>, <<"fd", "next">>, <<"readdir", "next">>}
    BY <1>1, Zenon DEF AccessFd, ReaddirEnds, Goto
  <2>2. Reading' /\ pc' # "scandir" /\ Place[pc'] < Place[pc]
    BY <2>1 DEF Reading, Place
  <2> QED BY <1>0, <2>2, ScanNearer
<1>2. CASE Opendir
  <2>1. pc = "opendir" /\ lsof' = lsof /\ pc' \in {"readdir", "crashed"}
    BY <1>2 DEF Opendir, Goto
  <2>2. pc' = "readdir" => Reading' /\ Place[pc'] < Place[pc]
    BY <2>1 DEF Reading, Place
  <2> QED BY <1>0, <2>1, <2>2, ScanNearer
<1>3. CASE Readdir
  <2>1. pc = "readdir" /\ pc' = "fdstat"
    BY <1>3 DEF Readdir, Goto
  <2>2. PICK x \in Later(OpenFds(pid)) : at' = Rank[x]
    BY <1>3 DEF Readdir
  <2>3. x \in Later(Descriptors)
    BY DEF Later, OpenFds
  <2>4. NumbersAhead' < NumbersAhead
    BY <1>0, <2>1, <2>2, <2>3, LessLater DEF NumbersAhead, Later
  <2>5. Reading' /\ pc' # "scandir" /\ Place[pc'] = Place[pc]
    BY <2>1 DEF Reading, Place
  <2> QED BY <1>0, <2>4, <2>5, ScanNearer
<1>4. CASE FdStat \/ FdLink
  <2>1. /\ <<pc, pc'>> \in {<<"fdstat", "fdlink">>, <<"fdlink", "fdinfo">>} /\ todo' = todo /\ at' = at
    BY <1>4, Zenon DEF FdStat, FdLink, Goto
  <2>2. /\ Reading' /\ pc' # "scandir" /\ Place[pc'] = Place[pc] /\ Len(todo') = Len(todo)
        /\ NumbersAhead' = NumbersAhead /\ CallsAhead' < CallsAhead
    BY <2>1 DEF Reading, Place, CallsAhead, NumbersAhead, Later
  <2> QED BY <1>0, <2>2, ScanNearer
<1>5. CASE FdInfo
  <2>1. pc = "fdinfo" /\ pc' \in {"readdir", "fdstat"} /\ todo' = Tail(todo) /\ at' = at
    BY <1>5 DEF FdInfo, Goto
  <2>2. todo \in Seq(Descriptors) /\ todo # << >>
    BY <2>1 DEF AheadInv, TypeInv, TypeOK, TodoOK
  <2>3. Len(todo') < Len(todo)
    BY <2>1, <2>2, FirstAndRest
  <2>4. Reading' /\ pc' # "scandir" /\ Place[pc'] = Place[pc] /\ NumbersAhead' = NumbersAhead
    BY <2>1 DEF Reading, Place, NumbersAhead, Later
  <2> QED BY <1>0, <2>3, <2>4, ScanNearer
<1> QED BY <1>1, <1>2, <1>3, <1>4, <1>5 DEF GetFd

LEMMA ProcessNearer ==
  ASSUME AheadInv, TypeInv', ScandirFails \/ Scandir \/ GetComm \/ GetUsername \/ NextPid
  PROVE  AheadInv' /\ Nearer(Ahead', Ahead)
<1>i. TypeInv /\ lsof' \in Seq(Info)
  BY DEF AheadInv, TypeInv, TypeOK
<1>1. CASE Scandir
  <2>1. /\ pc = "scandir" /\ pc' \in {"getopt", "comm"} /\ i' = i /\ i = 1 /\ j' = j /\ j = 1
    BY <1>1 DEF Scandir, Goto, searchVars, AheadInv, InBounds, TypeInv
  <2>2. i' <= Len(lsof') + 1
    BY <1>i, <2>1, LenProperties
  <2>3. AheadInv'
    BY <2>1, <2>2, BoundsFrom
  <2>4. PhasesAhead' < PhasesAhead
    BY <2>1 DEF PhasesAhead, Reading
  <2> QED BY <2>3, <2>4, StepNearer
<1>2. CASE GetComm
  <2>1. /\ pc = "comm" /\ pc' = "uid" /\ UNCHANGED <<pid_list, i, j>>
    BY <1>2 DEF GetComm, Goto, searchVars
  <2>2. Reading /\ Reading' /\ Place[pc'] < Place[pc]
    BY <2>1 DEF Reading, Place
  <2> QED BY <2>1, <2>2, ScanNearer
<1>3. CASE GetUsername
  <2>1. /\ pc = "uid" /\ Reading /\ UNCHANGED <<pid_list, i, j>>
        /\ pc' = "access" \/ (pc' = "crashed" /\ lsof' = lsof)
    BY <1>3 DEF GetUsername, Goto, searchVars, Reading
  <2>2. pc' = "access" => Reading' /\ pc' # "scandir" /\ Place[pc'] < Place[pc]
    BY <2>1 DEF Reading, Place
  <2> QED BY <2>1, <2>2, ScanNearer
<1>4. CASE NextPid
  <2>0. /\ pc = "next" /\ Reading /\ lsof' = lsof /\ j' = j /\ j = 1
    BY <1>4 DEF NextPid, Reading, AheadInv, InBounds
  <2>1. /\ i \in 1 .. Len(pid_list) /\ Len(pid_list) \in Nat /\ Len(lsof) = Len(pid_list)
    BY <1>i, <2>0, AtProcess DEF TypeInv, TypeOK
  <2>2. CASE HasNext
    <3>1. i' = i + 1 /\ pc' = "comm"
      BY <1>4, <2>2 DEF NextPid, Goto
    <3>2. AheadInv'
      BY <2>0, <3>1, BoundsFrom DEF Reading
    <3>3. PhasesAhead' = PhasesAhead /\ ProcessesAhead' < ProcessesAhead
      BY <2>0, <2>1, <3>1 DEF PhasesAhead, ProcessesAhead, Reading
    <3> QED BY <3>2, <3>3, StepNearer
  <2>3. CASE ~HasNext
    <3>1. i' = 1 /\ pc' = "getopt"
      BY <1>4, <2>3 DEF NextPid, Goto
    <3>2. AheadInv'
      BY <2>0, <2>1, <3>1, BoundsFrom
    <3>3. PhasesAhead' < PhasesAhead
      BY <2>0, <3>1 DEF PhasesAhead, Reading
    <3> QED BY <3>2, <3>3, StepNearer
  <2> QED BY <2>2, <2>3
<1>5. CASE ScandirFails
  <2>1. /\ pc = "scandir" /\ pc' = "crashed" /\ UNCHANGED <<lsof, i, j>> /\ i = 1 /\ j = 1
        /\ lsof \in Seq(Info)
    BY <1>5, <1>i DEF ScandirFails, Goto, searchVars, AheadInv, InBounds, TypeInv, TypeOK
  <2>2. i' <= Len(lsof') + 1
    BY <2>1, LenProperties
  <2>3. AheadInv'
    BY <2>1, <2>2, BoundsFrom
  <2>4. PhasesAhead' < PhasesAhead
    BY <2>1 DEF PhasesAhead, Reading
  <2> QED BY <2>3, <2>4, StepNearer
<1> QED BY <1>1, <1>2, <1>3, <1>4, <1>5

LEMMA SearchNearer ==
  ASSUME AheadInv, TypeInv', Getopt \/ SearchComm \/ SearchDesc
  PROVE  AheadInv' /\ Nearer(Ahead', Ahead)
<1>0. /\ TypeInv /\ lsof \in Seq(Info) /\ lsof' \in Seq(Info) /\ i \in Nat \ {0} /\ j \in Nat \ {0}
      /\ Len(lsof) \in Nat /\ Len(lsof') \in Nat
      /\ DOMAIN lsof = 1 .. Len(lsof) /\ DOMAIN lsof' = 1 .. Len(lsof')
      /\ pc \in {"getopt", "search_comm", "search_type", "search_file"} /\ ~Reading
      /\ i <= Len(lsof) + 1
  BY LenProperties DEF AheadInv, InBounds, TypeInv, TypeOK, Getopt, SearchComm, SearchDesc, Reading
<1>4. ASSUME pc' = "crashed", UNCHANGED <<lsof, i, j>>
      PROVE  AheadInv' /\ Nearer(Ahead', Ahead)
  <2>1. AheadInv'
    BY <1>0, <1>4 DEF AheadInv, InBounds, Reading
  <2>2. PhasesAhead' < PhasesAhead
    BY <1>0, <1>4 DEF PhasesAhead, Reading
  <2> QED BY <2>1, <2>2, StepNearer
<1>1. CASE Getopt
  <2>1. pc = "getopt" /\ pc' = "search_comm" /\ i' = 1 /\ j' = 1
    BY <1>1 DEF Getopt, Goto, searchVars, AheadInv, InBounds
  <2>2. AheadInv'
    BY <1>0, <2>1, BoundsFrom
  <2>3. PhasesAhead' < PhasesAhead
    BY <2>1 DEF PhasesAhead, Reading
  <2> QED BY <2>2, <2>3, StepNearer
<1>5. CASE SearchComm /\ args.comm = Invalid
  BY <1>4, <1>5 DEF SearchComm, Goto
<1>2. CASE SearchComm /\ args.comm # Invalid
  <2>0. pc = "search_comm" /\ j' = 1
    BY <1>2 DEF SearchComm, AheadInv, InBounds
  <2>1. CASE i > Len(lsof)
    <3>1. pc' = "search_type" /\ i' = 1
      BY <1>2, <2>1 DEF SearchComm, Goto
    <3>2. AheadInv'
      BY <1>0, <2>0, <3>1, BoundsFrom
    <3>3. PhasesAhead' < PhasesAhead
      BY <2>0, <3>1 DEF PhasesAhead, Reading
    <3> QED BY <3>2, <3>3, StepNearer
  <2>2. CASE ~(i > Len(lsof))
    <3>1. /\ pc' = pc
          /\ \/ lsof' = Erased(lsof, i) /\ i' = i
             \/ lsof' = lsof /\ i' = i + 1
      BY <1>2, <2>2 DEF SearchComm
    <3>2. Len(lsof') + 1 - i' < Len(lsof) + 1 - i /\ i' <= Len(lsof') + 1
      BY <1>0, <2>2, <3>1, ErasedType
    <3>3. AheadInv'
      BY <2>0, <3>1, <3>2, BoundsFrom
    <3>4. PhasesAhead' = PhasesAhead /\ ProcessesAhead' < ProcessesAhead
      BY <2>0, <3>1, <3>2 DEF PhasesAhead, ProcessesAhead, Reading
    <3> QED BY <3>3, <3>4, StepNearer
  <2> QED BY <2>1, <2>2
<1>6. CASE SearchDesc /\ Regex = Invalid
  BY <1>4, <1>6 DEF SearchDesc, Goto
<1>3. CASE SearchDesc /\ Regex # Invalid
  <2>0. pc \in {"search_type", "search_file"}
    BY <1>3 DEF SearchDesc
  <2>1. CASE i > Len(lsof)
    <3>1. /\ i' = 1 /\ j' = 1
          /\ pc' = IF pc = "search_type" THEN "search_file" ELSE "done"
      BY <1>3, <2>1 DEF SearchDesc, Goto
    <3>2. AheadInv'
      BY <1>0, <3>1, BoundsFrom
    <3>3. PhasesAhead' < PhasesAhead
      BY <2>0, <3>1 DEF PhasesAhead, Reading
    <3> QED BY <3>2, <3>3, StepNearer
  <2>2. CASE ~(i > Len(lsof))
    <3>0. /\ i \in DOMAIN lsof /\ lsof[i].file_desc \in Seq(Line)
          /\ Len(lsof[i].file_desc) \in Nat
      <4>1. lsof[i] \in Info /\ i \in DOMAIN lsof
        BY <1>0, <2>2
      <4>2. lsof[i].file_desc \in Seq(Line)
        BY <4>1 DEF Info
      <4> QED BY <4>1, <4>2
    <3>1. CASE j > Len(lsof[i].file_desc)
      <4>1. i' = i + 1 /\ j' = 1 /\ lsof' = lsof /\ pc' = pc
        BY <1>3, <2>2, <3>1 DEF SearchDesc
      <4>2. AheadInv'
        BY <1>0, <2>2, <2>0, <4>1, BoundsFrom
      <4>3. PhasesAhead' = PhasesAhead /\ ProcessesAhead' < ProcessesAhead
        BY <1>0, <2>0, <4>1 DEF PhasesAhead, ProcessesAhead, Reading
      <4> QED BY <4>2, <4>3, StepNearer
    <3>2. CASE ~(j > Len(lsof[i].file_desc))
      <4> DEFINE rest == Erased(lsof[i].file_desc, j)
      <4>1. /\ pc' = pc /\ i' = i
            /\ \/ lsof' = [lsof EXCEPT ![i].file_desc = rest] /\ j' = j
               \/ lsof' = lsof /\ j' = j + 1
        BY <1>3, <2>2, <3>2 DEF SearchDesc
      <4>2. Len(rest) = Len(lsof[i].file_desc) - 1
        <5>1. j \in 1 .. Len(lsof[i].file_desc)
          BY <1>0, <3>0, <3>2
        <5> QED BY <5>1, <3>0, ErasedType
      <4> HIDE DEF rest
      <4>3. /\ DOMAIN lsof' = DOMAIN lsof
            /\ Len(lsof'[i].file_desc) + 1 - j' < Len(lsof[i].file_desc) + 1 - j
            /\ j' <= Len(lsof'[i].file_desc) + 1
        <5>1. CASE lsof' = lsof /\ j' = j + 1
          <6>1. lsof'[i].file_desc = lsof[i].file_desc /\ DOMAIN lsof' = DOMAIN lsof
            BY <5>1
          <6> DEFINE n == Len(lsof[i].file_desc)
          <6>2. n \in Nat /\ j \in Nat /\ ~(j > n)
            BY <1>0, <3>0, <3>2
          <6> HIDE DEF n
          <6>3. n + 1 - (j + 1) < n + 1 - j /\ j + 1 <= n + 1
            BY <6>2
          <6> QED BY <5>1, <6>1, <6>3 DEF n
        <5>2. CASE lsof' = [lsof EXCEPT ![i].file_desc = rest] /\ j' = j
          <6>1. DOMAIN lsof' = DOMAIN lsof /\ lsof'[i] = [lsof[i] EXCEPT !.file_desc = rest]
            BY <5>2, <3>0
          <6>2. lsof[i] \in Info
            BY <1>0, <3>0
          <6>3. lsof'[i].file_desc = rest
            BY <6>1, <6>2 DEF Info
          <6> QED BY <5>2, <6>1, <6>3, <4>2, <1>0, <3>0, <3>2
        <5> QED BY <4>1, <5>1, <5>2
      <4>4. Len(lsof') = Len(lsof)
        <5>1. lsof \in Seq(Info) /\ lsof' \in Seq(Info) /\ DOMAIN lsof' = DOMAIN lsof
          BY <1>0, <4>3
        <5> QED BY <5>1
      <4>5. AheadInv'
        BY <1>0, <2>0, <4>1, <4>3, <4>4 DEF AheadInv, InBounds, Reading
      <4>6. PhasesAhead' = PhasesAhead /\ ProcessesAhead' = ProcessesAhead
        BY <2>0, <4>1, <4>4 DEF PhasesAhead, ProcessesAhead, Reading
      <4>7. /\ PlacesAhead = Len(lsof[i].file_desc) + 1 - j
            /\ PlacesAhead' = Len(lsof'[i].file_desc) + 1 - j'
        BY <2>0, <3>0, <4>1, <4>3 DEF PlacesAhead, Reading
      <4> QED BY <4>3, <4>5, <4>6, <4>7, StepNearer
    <3> QED BY <3>1, <3>2
  <2> QED BY <2>1, <2>2
<1> QED BY <1>1, <1>2, <1>3, <1>5, <1>6

LEMMA OthersAhead ==
  ASSUME AheadInv, TypeInv', ProcessChanges \/ UNCHANGED vars
  PROVE  AheadInv' /\ Ahead' = Ahead
<1>1. UNCHANGED <<pc, lsof, todo, at, i, j>>
  BY DEF ProcessChanges, vars, readVars, searchVars
<1>2. InBounds'
  BY <1>1 DEF AheadInv, InBounds, Reading
<1>3. Ahead' = Ahead
  BY <1>1 DEF Ahead, PhasesAhead, ProcessesAhead, PlacesAhead, NumbersAhead, Later, CallsAhead, Reading
<1> QED BY <1>2, <1>3 DEF AheadInv

LEMMA StepAhead ==
  AheadInv /\ TypeInv' /\ [Next]_vars =>
    AheadInv' /\ IF Step THEN Nearer(Ahead', Ahead) ELSE Ahead' = Ahead
BY LinksNearer, MemNearer, FdNearer, ProcessNearer, SearchNearer, OthersAhead DEF Next, Step

(* lsof cannot go on for ever, whatever the processes do: every step of it *)
(* lowers six naturals in their lexicographic order, and no other step     *)
(* changes them; a process that grows while it is listed (hw1.cpp:337,     *)
(* 443) is only followed on to higher numbers.                             *)
THEOREM EveryStepAdvances == Spec => Advances
<1>1. Init => AheadInv
  BY TypeInit DEF Init, AheadInv, InBounds, Reading
<1>2. AheadInv /\ [Next]_vars => AheadInv'
  BY TypeStep, StepAhead DEF AheadInv
<1>3. AheadInv /\ AheadInv' /\ [Next]_vars =>
        [/\ Ahead' \in [1 .. 6 -> Nat]
         /\ IF Step THEN Nearer(Ahead', Ahead) ELSE Ahead' = Ahead]_vars
  <2>1. AheadInv' => (Ahead \in [1 .. 6 -> Nat])'
    BY AheadIn, PTL
  <2>2. AheadInv' => TypeInv'
    BY DEF AheadInv
  <2> QED BY <2>1, <2>2, StepAhead
<1> QED BY <1>1, <1>2, <1>3, PTL DEF Spec, Advances
=============================================================================
