---------------------------- MODULE LoggerProofs ----------------------------
(***************************************************************************)
(* Proofs about the logger: the types, the names and the errno it keeps,   *)
(* and that it implements FileCalls.                                       *)
(***************************************************************************)
EXTENDS LoggerRefinement, SequenceTheorems, TLAPS

Content == [data : Seq(Nat), lines : Seq(Lines)]

FsType ==
  /\ dir \in [Names -> Files \union {NoFile}]
  /\ fdt \in [Fd -> Files \union {NoFile}]
  /\ content \in [Files -> Content]
  /\ streams \subseteq Fd

LEMMA FdFacts == Fd \subseteq Int /\ -1 \notin Fd /\ \A x \in Fd : x \in Nat
BY FileSystemAssumption DEF Fd

LEMMA BlankType == Blank \in Content
BY DEF Blank, Content

LEMMA DoesType ==
  ASSUME FsType, NEW c \in Call, NEW ret, NEW err, Does(c, ret, err)
  PROVE  FsType' /\ ret \in Int
<1>1. CASE Fails(c, err) /\ ret = -1
  BY <1>1 DEF Fails, fsVars, FsType, OnDescriptors
<1>2. CASE OpensOld(c, ret)
  <2>1. dir[c.name] \in Files /\ ret \in Fd
    BY <1>2 DEF OpensOld, Exists, FsType, LowestFd, FreeFds
  <2>2. fdt' \in [Fd -> Files \union {NoFile}] /\ dir' = dir
    BY <1>2, <2>1 DEF OpensOld, FsType
  <2>3. content' \in [Files -> Content]
    BY <1>2, <2>1, BlankType DEF OpensOld, FsType
  <2>4. streams' \subseteq Fd
    BY <1>2, <2>1 DEF OpensOld, FsType
  <2> QED BY <2>1, <2>2, <2>3, <2>4, FdFacts DEF FsType
<1>3. CASE OpensNew(c, ret)
  <2>1. ret \in Fd /\ c.name \in Names
    BY <1>3 DEF OpensNew, LowestFd, FreeFds
  <2>2. PICK f \in Files : /\ dir' = [dir EXCEPT ![c.name] = f]
                           /\ fdt' = [fdt EXCEPT ![ret] = f]
                           /\ content' = [content EXCEPT ![f] = Blank]
    BY <1>3 DEF OpensNew
  <2>3. streams' \subseteq Fd
    BY <1>3, <2>1 DEF OpensNew, FsType
  <2> QED BY <2>1, <2>2, <2>3, FdFacts, BlankType DEF FsType
<1>4. CASE OpensTemporary(c, ret)
  <2>1. ret \in Fd /\ dir' = dir
    BY <1>4 DEF OpensTemporary, LowestFd, FreeFds
  <2>2. PICK f \in Files : fdt' = [fdt EXCEPT ![ret] = f] /\ content' = [content EXCEPT ![f] = Blank]
    BY <1>4 DEF OpensTemporary
  <2>3. streams' \subseteq Fd
    BY <1>4, <2>1 DEF OpensTemporary, FsType
  <2> QED BY <2>1, <2>2, <2>3, FdFacts, BlankType DEF FsType
<1>5. CASE Closes(c, ret)
  <2>1. fdt' \in [Fd -> Files \union {NoFile}] /\ streams' \subseteq Fd /\ ret = 0
    BY <1>5 DEF Closes, FsType
  <2>2. UNCHANGED <<dir, content>>
    BY <1>5 DEF Closes
  <2> QED BY <2>1, <2>2 DEF FsType
<1>6. CASE Reads(c, ret)
  BY <1>6 DEF Reads, FsType, fsVars, Call
<1>7. CASE Writes(c, ret)
  <2>1. fdt[c.fd] \in Files /\ c.count \in Nat
    BY <1>7 DEF Writes, IsOpen, FsType, Call
  <2>2. content[fdt[c.fd]] \in Content
    BY <2>1 DEF FsType
  <2>3. [content[fdt[c.fd]] EXCEPT !.data = Append(@, c.count)] \in Content
    <3>1. Append(content[fdt[c.fd]].data, c.count) \in Seq(Nat)
      BY <2>1, <2>2 DEF Content
    <3> QED BY <2>2, <3>1 DEF Content
  <2>4. content' = [content EXCEPT ![fdt[c.fd]] = [content[fdt[c.fd]] EXCEPT !.data = Append(@, c.count)]]
    BY <1>7 DEF Writes
  <2>5. content' \in [Files -> Content]
    BY <2>1, <2>3, <2>4 DEF FsType
  <2> QED BY <1>7, <2>1, <2>5 DEF Writes, FsType
<1>8. CASE ChangesStatus(c, ret)
  BY <1>8 DEF ChangesStatus, FsType, fsVars
<1>9. CASE Removes(c, ret)
  <2>1. dir' \in [Names -> Files \union {NoFile}] /\ ret = 0
    BY <1>9 DEF Removes, FsType
  <2>2. UNCHANGED <<fdt, content, streams>>
    BY <1>9 DEF Removes
  <2> QED BY <2>1, <2>2 DEF FsType
<1>10. CASE Renames(c, ret)
  <2>1. dir[c.name] \in Files \union {NoFile}
    BY <1>10 DEF Renames, Exists, FsType
  <2>2. dir' \in [Names -> Files \union {NoFile}] /\ ret = 0
    BY <1>10, <2>1 DEF Renames, FsType
  <2>3. UNCHANGED <<fdt, content, streams>>
    BY <1>10 DEF Renames
  <2> QED BY <2>2, <2>3 DEF FsType
<1> QED BY <1>1, <1>2, <1>3, <1>4, <1>5, <1>6, <1>7, <1>8, <1>9, <1>10 DEF Does, Succeeds

LEMMA LookupTypesNext == \A c \in Call : Lookup(c)' \in Printed /\ LookupTo(c)' \in Printed
<1> SUFFICES ASSUME NEW c \in Call PROVE Lookup(c)' \in Printed /\ LookupTo(c)' \in Printed
  OBVIOUS
<1>1. \A n \in Names \union {NoName} : realpath(n)' \in Printed
  BY DEF realpath, Printed, Path, Untouched
<1>2. \A fd : readlink(fd)' \in Printed
  BY DEF readlink, Printed, Path, Deleted, Nothing
<1>3. Nothing \in Printed
  BY DEF Nothing, Printed
<1> QED BY <1>1, <1>2, <1>3 DEF Lookup, LookupTo

LEMMA LookupTypes == \A c \in Call : Lookup(c) \in Printed /\ LookupTo(c) \in Printed
<1> SUFFICES ASSUME NEW c \in Call PROVE Lookup(c) \in Printed /\ LookupTo(c) \in Printed
  OBVIOUS
<1>1. \A n \in Names \union {NoName} : realpath(n) \in Printed
  BY DEF realpath, Printed, Path, Untouched
<1>2. \A fd : readlink(fd) \in Printed
  BY DEF readlink, Printed, Path, Deleted, Nothing
<1>3. Nothing \in Printed
  BY DEF Nothing, Printed
<1> QED BY <1>1, <1>2, <1>3 DEF Lookup, LookupTo

-----------------------------------------------------------------------------
(* Type correctness.                                                       *)
LEMMA TypeSplit ==
  TypeOK <=> /\ FsType
             /\ phase \in {"launcher", "program", "ended"}
             /\ output_fd \in Fd \union {-1}
             /\ th \in [Threads -> Thread]
             /\ truth \in [Threads -> Truth]
             /\ calls \in 0 .. MaxCalls
BY DEF TypeOK, FsType, Content

LEMMA NoCallType == NoCall \in Thread /\ NoTruth \in Truth
<1>1. Nothing \in Printed
  BY DEF Nothing, Printed
<1>2. FdCall("close", -1, 0) \in Call
  BY DEF FdCall, Call, Fns
<1> QED BY <1>1, <1>2 DEF NoCall, NoTruth, Thread, Truth, Errnos

LEMMA TypeInit == Init => TypeOK
<1> SUFFICES ASSUME Init PROVE TypeOK
  OBVIOUS
<1>1. fdt \in [Fd -> Files \union {NoFile}]
  BY LoggerAssumption DEF Init
<1>2. FsType
  BY <1>1, BlankType DEF Init, FsType
<1>3. 0 \in 0 .. MaxCalls
  BY LoggerAssumption
<1> QED BY <1>2, <1>3, NoCallType, TypeSplit DEF Init

LEMMA LogCallIs ==
  /\ LogCall \in Call
  /\ LogCall.fn = "open" /\ LogCall.mode = "truncate" /\ LogCall.name = LogName
BY LoggerAssumption DEF LogCall, NamedCall, Call, Fns

(* What opening the log may do: create its file.                           *)
LEMMA LogOpens ==
  ASSUME FsType, NEW ret, NEW err, Does(LogCall, ret, err), ~Exists(LogName)
  PROVE  \/ ret = -1 /\ UNCHANGED fsVars
         \/ OpensNew(LogCall, ret) /\ ret \in Fd
<1>1. CASE Fails(LogCall, err) /\ ret = -1
  BY <1>1 DEF Fails
<1>2. CASE Succeeds(LogCall, ret)
  <2>1. OpensNew(LogCall, ret)
    BY <1>2, LogCallIs DEF Succeeds, OpensOld, OpensTemporary, Closes, Reads, Writes, ChangesStatus,
                           Removes, Renames, Exists
  <2> QED BY <2>1 DEF OpensNew, LowestFd, FreeFds
<1> QED BY <1>1, <1>2 DEF Does

LEMMA LaunchType ==
  ASSUME TypeOK, LaunchToFile \/ LaunchToStderr \/ LaunchRefused
  PROVE  TypeOK'
<1>1. UNCHANGED <<th, truth, calls>>
  BY DEF LaunchToFile, LaunchToStderr, LaunchRefused
<1>2. phase' \in {"launcher", "program", "ended"}
  BY DEF LaunchToFile, LaunchToStderr, LaunchRefused, Executes
<1>3. CASE LaunchToFile
  <2>1. PICK ret \in Results(LogCall), err \in Errnos : Does(LogCall, ret, err) /\ output_fd' = ret
    BY <1>3 DEF LaunchToFile
  <2>2. FsType'
    BY <2>1, DoesType, LogCallIs, TypeSplit
  <2>3. ret \in Fd \union {-1}
    BY <2>1, LogCallIs DEF Does, Fails, Succeeds, OpensOld, OpensNew, OpensTemporary, Closes, Reads, Writes,
                           ChangesStatus, Removes, Renames, LowestFd, FreeFds
  <2> QED BY <1>1, <1>2, <2>1, <2>2, <2>3, TypeSplit DEF TypeOK, FsType, Content
<1>4. CASE LaunchToStderr
  <2>1. UNCHANGED <<dir, content, streams>> /\ output_fd' = 3 /\ 3 \in Fd
    BY <1>4, LoggerAssumption DEF LaunchToStderr
  <2>2. fdt' \in [Fd -> Files \union {NoFile}]
    BY <1>4 DEF LaunchToStderr, IsOpen, TypeOK
  <2> QED BY <1>1, <1>2, <2>1, <2>2 DEF TypeOK
<1>5. CASE LaunchRefused
  BY <1>1, <1>2, <1>5 DEF LaunchRefused, TypeOK, fsVars
<1> QED BY <1>3, <1>4, <1>5

LEMMA EnterType ==
  ASSUME TypeOK, NEW t \in Threads, NEW c \in Calls, NEW name \in Printed, Enter(t, c, name)
  PROVE  TypeOK'
<1>1. UNCHANGED <<dir, fdt, content, streams, phase, output_fd, truth>> /\ calls' = calls + 1 /\ calls < MaxCalls
  BY DEF Enter, fsVars
<1>2. [NoCall EXCEPT !.pc = "real", !.call = c, !.name = name] \in Thread
  BY NoCallType, FileSystemAssumption DEF Thread
<1>3. th' \in [Threads -> Thread]
  BY <1>2 DEF Enter, TypeOK
<1>4. calls' \in 0 .. MaxCalls
  BY <1>1, LoggerAssumption DEF TypeOK
<1> QED BY <1>1, <1>3, <1>4 DEF TypeOK

LEMMA RealType ==
  ASSUME TypeOK, NEW t \in Threads, NEW next \in {"log", "after"}, Real(t, next)
  PROVE  TypeOK'
<1> DEFINE c == th[t].call
<1>0. th[t] \in Thread /\ c \in Call /\ UNCHANGED <<phase, output_fd, calls>>
  BY DEF TypeOK, Thread, Real
<1>1. PICK ret \in Results(c), err \in Errnos :
        /\ Does(c, ret, err)
        /\ th' = [th EXCEPT ![t].pc = next,
                            ![t].ret = Kept(c.fn, ret), ![t].err = err, ![t].errno = err]
  BY DEF Real
<1>2. FsType' /\ ret \in Int
  BY <1>0, <1>1, DoesType, TypeSplit
<1>3. Kept(c.fn, ret) \in Int
  BY <1>2, LoggerAssumption DEF Kept, ToInt
<1> DEFINE r == [th[t] EXCEPT !.pc = next, !.ret = Kept(c.fn, ret), !.err = err, !.errno = err]
<1>4. r \in Thread
  BY <1>0, <1>3 DEF Thread
<1>5. th' = [th EXCEPT ![t] = r]
  BY <1>1
<1>6. th' \in [Threads -> Thread]
  BY <1>4, <1>5 DEF TypeOK
<1>7. truth' \in [Threads -> Truth]
  <2>1. \A x \in Call : Lookup(x) \in Printed
    BY LookupTypes
  <2>3. \A n \in Names : Path(n) \in Printed
    BY DEF Printed, Path
  <2>5. TrueName(c) \in Printed
    <3>1. c.name \notin Names => TrueName(c) = Lookup(c)
      BY DEF TrueName, Lookup
    <3> QED BY <1>0, <2>1, <2>3, <3>1 DEF TrueName
  <2>6. TrueTo(c) \in Printed
    BY <2>3 DEF TrueTo, Printed, Nothing
  <2>7. [truth[t] EXCEPT !.name = TrueName(c), !.to = TrueTo(c),
                         !.created = c.name \in Names /\ ~Exists(c.name)] \in Truth
    BY <2>5, <2>6 DEF TypeOK, Truth
  <2>8. \A u \in Threads : [truth[u] EXCEPT !.disturbed = @ \/ Disturbs(u)] \in Truth
    BY DEF TypeOK, Truth
  <2> QED BY <2>7, <2>8 DEF Real
<1> QED BY <1>0, <1>2, <1>6, <1>7, TypeSplit DEF TypeOK, FsType, Content

LEMMA AfterType ==
  ASSUME TypeOK, NEW t \in Threads, After(t)
  PROVE  TypeOK'
<1> DEFINE c == th[t].call
<1>1. th[t] \in Thread /\ c \in Call
  BY DEF TypeOK, Thread
<1>2. Late(c) \in Printed
  BY <1>1, LookupTypes DEF Late
<1>3. PICK e \in Errnos :
        th' = [th EXCEPT ![t].pc = "log", ![t].errno = e,
                         ![t].name = IF c.fn = "rename" THEN @ ELSE Late(c),
                         ![t].to = IF c.fn = "rename" THEN Late(c) ELSE @]
  <2>1. PICK e \in {th[t].errno, "ENOENT"} :
          th' = [th EXCEPT ![t].pc = "log", ![t].errno = e,
                           ![t].name = IF c.fn = "rename" THEN @ ELSE Late(c),
                           ![t].to = IF c.fn = "rename" THEN Late(c) ELSE @]
    BY DEF After
  <2>2. e \in Errnos
    BY <1>1 DEF Thread, Errnos
  <2> QED BY <2>1, <2>2
<1> DEFINE n == IF c.fn = "rename" THEN th[t].name ELSE Late(c)
           m == IF c.fn = "rename" THEN Late(c) ELSE th[t].to
<1>4. n \in Printed /\ m \in Printed
  BY <1>1, <1>2 DEF Thread
<1>5. th' = [th EXCEPT ![t] = [th[t] EXCEPT !.pc = "log", !.errno = e, !.name = n, !.to = m]]
  BY <1>3
<1> HIDE DEF n, m
<1>6. [th[t] EXCEPT !.pc = "log", !.errno = e, !.name = n, !.to = m] \in Thread
  BY <1>1, <1>4 DEF Thread
<1>7. th' \in [Threads -> Thread]
  BY <1>5, <1>6 DEF TypeOK
<1> QED BY <1>7 DEF After, TypeOK, fsVars

LEMMA LineType ==
  ASSUME TypeOK, NEW t \in Threads
  PROVE  Line(t) \in Lines
BY DEF TypeOK, Thread, Call, Line, Lines

LEMMA LogType ==
  ASSUME TypeOK, NEW t \in Threads, Log(t)
  PROVE  TypeOK'
<1>1. content' \in [Files -> Content]
  <2>1. CASE IsOpen(output_fd)
    <3> DEFINE f == fdt[output_fd]
    <3>1. f \in Files
      BY <2>1 DEF IsOpen, TypeOK
    <3>2. content[f] \in Content
      BY <3>1, TypeSplit DEF FsType
    <3>3. Append(content[f].lines, Line(t)) \in Seq(Lines)
      BY <3>2, LineType DEF Content
    <3>4. [content[f] EXCEPT !.lines = Append(content[f].lines, Line(t))] \in Content
      BY <3>2, <3>3 DEF Content
    <3>5. content' = [content EXCEPT ![f] = [content[f] EXCEPT !.lines = Append(content[f].lines, Line(t))]]
      BY <2>1 DEF Log, WritesLine
    <3> QED BY <3>1, <3>4, <3>5, TypeSplit DEF FsType
  <2>2. CASE ~IsOpen(output_fd)
    BY <2>2, TypeSplit DEF Log, WritesLine, FsType
  <2> QED BY <2>1, <2>2
<1>2. th' \in [Threads -> Thread]
  <2> DEFINE e == IF IsOpen(output_fd) THEN th[t].errno ELSE "EBADF"
  <2>1. th[t] \in Thread
    BY DEF TypeOK
  <2>2. e \in Errnos
    BY <2>1 DEF Thread, Errnos
  <2>3. th' = [th EXCEPT ![t] = [th[t] EXCEPT !.pc = "idle", !.errno = e]]
    BY DEF Log
  <2> HIDE DEF e
  <2>4. [th[t] EXCEPT !.pc = "idle", !.errno = e] \in Thread
    BY <2>1, <2>2 DEF Thread
  <2> QED BY <2>3, <2>4 DEF TypeOK
<1>3. truth' \in [Threads -> Truth]
  BY NoCallType DEF Log, TypeOK
<1> QED BY <1>1, <1>2, <1>3 DEF Log, TypeOK, Content

(* The functions that look a name up before the call, and after it.        *)
LooksBefore == {"open", "write", "fread", "fopen", "fwrite", "fclose", "remove", "close", "rename"}

LooksAfter  == {"chmod", "creat", "chown", "read", "rename"}

LEMMA StepKinds ==
  ASSUME NEW t \in Threads, CallsFunction(t)
  PROVE  \/ \E c \in Calls : Enter(t, c, IF c.fn \in LooksBefore THEN Lookup(c) ELSE Nothing)
         \/ Real(t, IF th[t].call.fn \in LooksAfter THEN "after" ELSE "log")
         \/ th[t].call.fn \in LooksAfter /\ After(t)
         \/ Log(t)
<1>1. ASSUME NEW fn \in {"open", "write", "fread", "fopen", "fwrite", "fclose", "remove", "close"},
             LooksThenCalls(t, fn)
      PROVE  \/ \E c \in Calls : Enter(t, c, IF c.fn \in LooksBefore THEN Lookup(c) ELSE Nothing)
             \/ Real(t, IF th[t].call.fn \in LooksAfter THEN "after" ELSE "log")
             \/ Log(t)
  <2>1. ASSUME NEW c \in CallsTo(fn), Enter(t, c, Lookup(c))
        PROVE  \E x \in Calls : Enter(t, x, IF x.fn \in LooksBefore THEN Lookup(x) ELSE Nothing)
    <3>1. c \in Calls /\ c.fn \in LooksBefore
      BY DEF CallsTo, LooksBefore
    <3> QED BY <2>1, <3>1
  <2>2. ASSUME Within(t, fn), Real(t, "log")
        PROVE  Real(t, IF th[t].call.fn \in LooksAfter THEN "after" ELSE "log")
    <3>1. th[t].call.fn \notin LooksAfter
      BY <2>2 DEF Within, LooksAfter
    <3> QED BY <2>2, <3>1
  <2> QED BY <1>1, <2>1, <2>2 DEF LooksThenCalls
<1>2. ASSUME NEW fn \in {"chmod", "creat", "chown", "read"}, CallsThenLooks(t, fn)
      PROVE  \/ \E c \in Calls : Enter(t, c, IF c.fn \in LooksBefore THEN Lookup(c) ELSE Nothing)
             \/ Real(t, IF th[t].call.fn \in LooksAfter THEN "after" ELSE "log")
             \/ th[t].call.fn \in LooksAfter /\ After(t)
             \/ Log(t)
  <2>1. ASSUME NEW c \in CallsTo(fn), Enter(t, c, Nothing)
        PROVE  \E x \in Calls : Enter(t, x, IF x.fn \in LooksBefore THEN Lookup(x) ELSE Nothing)
    <3>1. c \in Calls /\ c.fn \notin LooksBefore
      BY DEF CallsTo, LooksBefore
    <3> QED BY <2>1, <3>1
  <2>2. Within(t, fn) => th[t].call.fn \in LooksAfter
    BY DEF Within, LooksAfter
  <2> QED BY <1>2, <2>1, <2>2 DEF CallsThenLooks
<1>3. ASSUME Rename(t)
      PROVE  \/ \E c \in Calls : Enter(t, c, IF c.fn \in LooksBefore THEN Lookup(c) ELSE Nothing)
             \/ Real(t, IF th[t].call.fn \in LooksAfter THEN "after" ELSE "log")
             \/ th[t].call.fn \in LooksAfter /\ After(t)
             \/ Log(t)
  <2>1. ASSUME NEW c \in CallsTo("rename"), Enter(t, c, Lookup(c))
        PROVE  \E x \in Calls : Enter(t, x, IF x.fn \in LooksBefore THEN Lookup(x) ELSE Nothing)
    <3>1. c \in Calls /\ c.fn \in LooksBefore
      BY DEF CallsTo, LooksBefore
    <3> QED BY <2>1, <3>1
  <2>2. Within(t, "rename") => th[t].call.fn \in LooksAfter
    BY DEF Within, LooksAfter
  <2> QED BY <1>3, <2>1, <2>2 DEF Rename
<1>4. ASSUME Tmpfile(t)
      PROVE  \/ \E c \in Calls : Enter(t, c, IF c.fn \in LooksBefore THEN Lookup(c) ELSE Nothing)
             \/ Real(t, IF th[t].call.fn \in LooksAfter THEN "after" ELSE "log")
             \/ Log(t)
  <2>1. ASSUME NEW c \in CallsTo("tmpfile"), Enter(t, c, Nothing)
        PROVE  \E x \in Calls : Enter(t, x, IF x.fn \in LooksBefore THEN Lookup(x) ELSE Nothing)
    <3>1. c \in Calls /\ c.fn \notin LooksBefore
      BY DEF CallsTo, LooksBefore
    <3> QED BY <2>1, <3>1
  <2>2. Within(t, "tmpfile") => th[t].call.fn \notin LooksAfter
    BY DEF Within, LooksAfter
  <2> QED BY <1>4, <2>1, <2>2 DEF Tmpfile
<1> QED BY <1>1, <1>2, <1>3, <1>4 DEF CallsFunction, Chmod, Creat, Chown, Read, Open, Write, Fread, Fopen,
           Fwrite, Fclose, Remove, Close

LEMMA TypeStep == TypeOK /\ [Next]_vars => TypeOK'
<1> SUFFICES ASSUME TypeOK, [Next]_vars PROVE TypeOK'
  OBVIOUS
<1>1. ASSUME NEW t \in Threads, CallsFunction(t) PROVE TypeOK'
  <2>1. \A c \in Calls : (IF c.fn \in LooksBefore THEN Lookup(c) ELSE Nothing) \in Printed
    BY LookupTypes, FileSystemAssumption DEF Nothing, Printed
  <2> QED BY <1>1, <2>1, StepKinds, EnterType, RealType, AfterType, LogType
<1>2. CASE UNCHANGED vars
  BY <1>2 DEF vars, logVars, fsVars, TypeOK
<1> QED BY <1>1, <1>2, LaunchType DEF Next

(* The variables keep their types.                                         *)
THEOREM TypeCorrect == Spec => []TypeOK
BY TypeInit, TypeStep, PTL DEF Spec

-----------------------------------------------------------------------------
(* The names.  What is looked up before the call still holds when it takes *)
(* effect, and what is looked up after it held then, unless disturbed.     *)
NamesOf(t) ==
  /\ th[t].pc # "idle" => th[t].call \in Calls
  /\ th[t].pc = "real" =>
       /\ th[t].to = Nothing
       /\ th[t].call.fn \notin LooksBefore => th[t].name = Nothing
       /\ th[t].call.fn \in LooksBefore /\ ~truth[t].disturbed => th[t].name = Lookup(th[t].call)
  /\ th[t].pc = "after" =>
       /\ th[t].call.fn \in LooksAfter /\ th[t].to = Nothing
       /\ th[t].err = "none" /\ ~truth[t].disturbed =>
            IF th[t].call.fn = "rename"
            THEN th[t].name = truth[t].name /\ Late(th[t].call) = truth[t].to
            ELSE Late(th[t].call) = truth[t].name /\ truth[t].to = Nothing
  /\ th[t].pc = "log" /\ th[t].err = "none" /\ ~truth[t].disturbed =>
       th[t].name = LoggedName(t) /\ th[t].to = truth[t].to

NamesInv ==
  /\ TypeOK
  /\ phase # "program" => \A t \in Threads : th[t] = NoCall
  /\ \A t \in Threads : NamesOf(t)

LEMMA NamesInit == Init => NamesInv
BY TypeInit DEF Init, NamesInv, NamesOf, NoCall

LEMMA SameLookups ==
  ASSUME UNCHANGED <<dir, fdt>>
  PROVE  \A x : Lookup(x)' = Lookup(x) /\ LookupTo(x)' = LookupTo(x) /\ Late(x)' = Late(x)
BY DEF Lookup, LookupTo, Late, realpath, readlink, Exists, IsOpen

LEMMA NamesLaunch ==
  ASSUME NamesInv, LaunchToFile \/ LaunchToStderr \/ LaunchRefused
  PROVE  NamesInv'
<1>1. UNCHANGED th /\ phase = "launcher"
  BY DEF LaunchToFile, LaunchToStderr, LaunchRefused
<1>2. \A t \in Threads : th'[t] = NoCall
  BY <1>1 DEF NamesInv
<1>3. \A t \in Threads : NamesOf(t)'
  BY <1>2 DEF NamesOf, NoCall
<1> QED BY <1>2, <1>3, LaunchType DEF NamesInv

(* Threads whose record and lookups stay, stay as they are.                *)
LEMMA NamesOther ==
  ASSUME NEW u \in Threads, NamesOf(u), th'[u] = th[u], truth'[u] = truth[u], UNCHANGED <<dir, fdt>>
  PROVE  NamesOf(u)'
<1>1. Lookup(th[u].call)' = Lookup(th[u].call) /\ Late(th[u].call)' = Late(th[u].call)
  <2> DEFINE c == th[u].call
  <2>1. th'[u].call = c
    OBVIOUS
  <2>2. \A x : Lookup(x)' = Lookup(x) /\ Late(x)' = Late(x)
    BY SameLookups
  <2> QED BY <2>1, <2>2
<1> QED BY <1>1 DEF NamesOf, LoggedName

LEMMA NamesEnter ==
  ASSUME NamesInv, NEW t \in Threads, NEW c \in Calls,
         Enter(t, c, IF c.fn \in LooksBefore THEN Lookup(c) ELSE Nothing)
  PROVE  NamesInv'
<1> DEFINE n == IF c.fn \in LooksBefore THEN Lookup(c) ELSE Nothing
           r == [NoCall EXCEPT !.pc = "real", !.call = c, !.name = n]
<1>1. /\ phase = "program" /\ UNCHANGED <<dir, fdt, phase, truth>>
      /\ th' = [th EXCEPT ![t] = r]
  BY DEF Enter, fsVars
<1>2. TypeOK'
  <2>1. n \in Printed
    BY LookupTypes, FileSystemAssumption DEF Nothing, Printed
  <2> QED BY <2>1, EnterType DEF NamesInv
<1>3. r.pc = "real" /\ r.call = c /\ r.name = n /\ r.to = Nothing
  BY DEF NoCall
<1> HIDE DEF r
<1>4. th'[t] = r /\ \A u \in Threads : u # t => th'[u] = th[u]
  BY <1>1 DEF NamesInv, TypeOK
<1>5. Lookup(th[t].call)' = Lookup(c)
  <2>1. th'[t].call = c
    BY <1>3, <1>4
  <2>2. \A x : Lookup(x)' = Lookup(x)
    BY <1>1, SameLookups
  <2> QED BY <2>1, <2>2
<1>6. NamesOf(t)'
  <2>1. c.fn \in LooksBefore => n = Lookup(c)
    OBVIOUS
  <2>2. c.fn \notin LooksBefore => n = Nothing
    OBVIOUS
  <2> HIDE DEF n
  <2> QED BY <1>3, <1>4, <1>5, <2>1, <2>2 DEF NamesOf
<1>7. \A u \in Threads : NamesOf(u)'
  BY <1>1, <1>4, <1>6, NamesOther DEF NamesInv
<1> QED BY <1>1, <1>2, <1>7 DEF NamesInv

LEMMA NamesAfter ==
  ASSUME NamesInv, NEW t \in Threads, After(t)
  PROVE  NamesInv'
<1> DEFINE c == th[t].call
<1>1. /\ th[t].pc = "after" /\ UNCHANGED <<dir, fdt, phase, truth>>
      /\ th[t] \in Thread
  BY DEF After, fsVars, NamesInv, TypeOK
<1>2. PICK e : th' = [th EXCEPT ![t].pc = "log", ![t].errno = e,
                        ![t].name = IF c.fn = "rename" THEN @ ELSE Late(c),
                        ![t].to = IF c.fn = "rename" THEN Late(c) ELSE @]
  BY DEF After
<1> DEFINE n == IF c.fn = "rename" THEN th[t].name ELSE Late(c)
           m == IF c.fn = "rename" THEN Late(c) ELSE th[t].to
           r == [th[t] EXCEPT !.pc = "log", !.errno = e, !.name = n, !.to = m]
<1>3. th' = [th EXCEPT ![t] = r]
  BY <1>2
<1>4. r.pc = "log" /\ r.call = c /\ r.name = n /\ r.to = m /\ r.err = th[t].err
  BY <1>1 DEF Thread
<1> HIDE DEF r
<1>5. th'[t] = r /\ \A u \in Threads : u # t => th'[u] = th[u]
  BY <1>3 DEF NamesInv, TypeOK
<1>6. NamesOf(t)'
  BY <1>1, <1>4, <1>5 DEF NamesOf, NamesInv, LoggedName, LooksAfter
<1>7. \A u \in Threads : NamesOf(u)'
  BY <1>1, <1>5, <1>6, NamesOther DEF NamesInv
<1>8. phase = "program"
  BY <1>1 DEF NamesInv, NoCall
<1> QED BY <1>1, <1>7, <1>8, AfterType DEF NamesInv

LEMMA NamesLog ==
  ASSUME NamesInv, NEW t \in Threads, Log(t)
  PROVE  NamesInv'
<1>1. /\ th[t].pc = "log" /\ UNCHANGED <<dir, fdt, phase>> /\ th[t] \in Thread
      /\ truth' = [truth EXCEPT ![t] = NoTruth]
  BY DEF Log, NamesInv, TypeOK
<1>2. th'[t].pc = "idle" /\ \A u \in Threads : u # t => th'[u] = th[u] /\ truth'[u] = truth[u]
  BY <1>1 DEF Log, NamesInv, TypeOK, Thread
<1>3. NamesOf(t)'
  BY <1>2 DEF NamesOf
<1>4. \A u \in Threads : NamesOf(u)'
  BY <1>1, <1>2, <1>3, NamesOther DEF NamesInv
<1>5. phase = "program"
  BY <1>1 DEF NamesInv, NoCall
<1> QED BY <1>1, <1>4, <1>5, LogType DEF NamesInv

(* A name that a successful call acts on is there before it, or after it,  *)
(* or both.                                                                *)
LEMMA NamesThere ==
  ASSUME NEW c, NEW ret, Does(c, ret, "none"), NamesInv,
         c.name \in Names <=> c.fn \notin OnDescriptors \union {"tmpfile"},
         c.to \in Names <=> c.fn = "rename"
  PROVE  /\ c.fn \in {"remove", "rename"} => Exists(c.name)
         /\ c.fn \in {"creat", "chmod", "chown"} => Exists(c.name)'
         /\ c.fn = "rename" => Exists(c.to)'
<1>0. /\ dir \in [Names -> Files \union {NoFile}] /\ NoFile \notin Files
  BY FileSystemAssumption DEF NamesInv, TypeOK
<1>1. Succeeds(c, ret)
  BY DEF Does, Fails, Errnos
<1>2. c.fn \in {"remove", "rename"} => Exists(c.name)
  BY <1>1 DEF Succeeds, OpensOld, OpensNew, OpensTemporary, Closes, Reads, Writes, ChangesStatus, Removes,
              Renames, Opening
<1>3. c.fn \in {"chmod", "chown"} => Exists(c.name)'
  BY <1>1 DEF Succeeds, OpensOld, OpensNew, OpensTemporary, Closes, Reads, Writes, ChangesStatus, Removes,
              Renames, Opening, Exists, fsVars
<1>4. c.fn = "creat" => Exists(c.name)'
  <2> SUFFICES ASSUME c.fn = "creat" PROVE c.name \in Names /\ dir'[c.name] # NoFile
    BY DEF Exists
  <2>1. OpensOld(c, ret) \/ OpensNew(c, ret)
    BY <1>1 DEF Succeeds, OpensTemporary, Closes, Reads, Writes, ChangesStatus, Removes, Renames
  <2> QED BY <1>0, <2>1 DEF OpensOld, OpensNew, Exists
<1>5. c.fn = "rename" => Exists(c.to)'
  <2> SUFFICES ASSUME c.fn = "rename" PROVE c.to \in Names /\ dir'[c.to] # NoFile
    BY DEF Exists
  <2>1. Renames(c, ret)
    BY <1>1 DEF Succeeds, OpensOld, OpensNew, OpensTemporary, Closes, Reads, Writes, ChangesStatus, Removes,
                Opening
  <2> QED BY <1>0, <2>1 DEF Renames, Exists
<1> QED BY <1>2, <1>3, <1>4, <1>5

LEMMA NamesReal ==
  ASSUME NamesInv, NEW t \in Threads,
         Real(t, IF th[t].call.fn \in LooksAfter THEN "after" ELSE "log")
  PROVE  NamesInv'
<1> DEFINE c    == th[t].call
           next == IF c.fn \in LooksAfter THEN "after" ELSE "log"
<1>1. /\ th[t].pc = "real" /\ th[t] \in Thread /\ UNCHANGED phase
      /\ truth' = [u \in Threads |->
           IF u = t THEN [truth[t] EXCEPT !.name = TrueName(c), !.to = TrueTo(c),
                                          !.created = c.name \in Names /\ ~Exists(c.name)]
           ELSE [truth[u] EXCEPT !.disturbed = @ \/ Disturbs(u)]]
      /\ c \in Calls /\ truth[t] \in Truth
  BY DEF Real, NamesInv, NamesOf, TypeOK
<1>2. PICK ret \in Results(c), err \in Errnos :
        /\ Does(c, ret, err)
        /\ th' = [th EXCEPT ![t].pc = next,
                            ![t].ret = Kept(c.fn, ret), ![t].err = err, ![t].errno = err]
  BY DEF Real
<1> DEFINE r == [th[t] EXCEPT !.pc = next, !.ret = Kept(c.fn, ret), !.err = err, !.errno = err]
<1>3. th' = [th EXCEPT ![t] = r]
  BY <1>2
<1>4. r.pc = next /\ r.call = c /\ r.name = th[t].name /\ r.to = th[t].to /\ r.err = err
  BY <1>1 DEF Thread
<1> HIDE DEF r
<1>5. th'[t] = r /\ \A u \in Threads : u # t => th'[u] = th[u]
  BY <1>3 DEF NamesInv, TypeOK
<1>6. /\ truth'[t].name = TrueName(c) /\ truth'[t].to = TrueTo(c)
      /\ truth'[t].created <=> c.name \in Names /\ ~Exists(c.name)
      /\ truth'[t].disturbed = truth[t].disturbed
  BY <1>1 DEF Truth
<1>7. /\ c.name \in Names <=> c.fn \notin OnDescriptors \union {"tmpfile"}
      /\ c.to \in Names <=> c.fn = "rename"
      /\ c.fn \in Fns
  <2> HIDE DEF c
  <2>1. c \in Calls /\ c \in Call
    BY <1>1, FileSystemAssumption
  <2>2. c.fn \in Fns
    BY <2>1 DEF Call
  <2>3. \A x \in Calls : /\ x.name \in Names <=> x.fn \notin OnDescriptors \union {"tmpfile"}
                         /\ x.to \in Names <=> x.fn = "rename"
    BY FileSystemAssumption
  <2> QED BY <2>1, <2>2, <2>3
<1>8. NamesOf(t)'
  <2>1. th'[t].pc = next /\ th'[t].call = c /\ th'[t].name = th[t].name /\ th'[t].to = Nothing
        /\ th'[t].err = err
    BY <1>1, <1>4, <1>5 DEF NamesInv, NamesOf
  <2>2. /\ c.fn \notin LooksBefore => th[t].name = Nothing
        /\ c.fn \in LooksBefore /\ ~truth[t].disturbed => th[t].name = Lookup(c)
    BY <1>1 DEF NamesInv, NamesOf
  <2>3. c.fn # "rename" => TrueTo(c) = Nothing
    BY <1>7 DEF TrueTo
  <2>4. CASE c.fn = "rename"
    <3>1. next = "after" /\ c.fn \in LooksBefore
      BY <2>4 DEF LooksAfter, LooksBefore
    <3>2. Late(th[t].call)' = LookupTo(c)'
      BY <2>1, <2>4 DEF Late
    <3>3. err = "none" => Lookup(c) = TrueName(c)
      BY <1>2, <1>7, <2>4, NamesThere DEF Lookup, TrueName, realpath, OnDescriptors, OnStreams
    <3>4. err = "none" => LookupTo(c)' = TrueTo(c)
      <4>1. ASSUME err = "none", NEW x, x = c PROVE Exists(x.to)'
        BY <1>2, <1>7, <2>4, <4>1, NamesThere
      <4> QED BY <1>7, <2>1, <2>4, <4>1 DEF LookupTo, TrueTo, realpath
    <3> QED BY <1>1, <1>6, <2>1, <2>2, <2>4, <3>1, <3>2, <3>3, <3>4 DEF NamesOf
  <2>5. CASE c.fn \in LooksAfter /\ c.fn # "rename"
    <3>1. next = "after"
      BY <2>5
    <3>2. Late(th[t].call)' = Lookup(c)'
      BY <2>1, <2>5 DEF Late
    <3>3. err = "none" => TrueName(c) = Lookup(c)'
      <4>1. CASE c.fn = "read"
        <5>1. err = "none" => UNCHANGED fsVars
          BY <1>2, <4>1 DEF Does, Fails, Succeeds, OpensOld, OpensNew, OpensTemporary, Closes, Reads,
                            Writes, ChangesStatus, Removes, Renames, Opening
        <5>2. err = "none" => Lookup(c)' = Lookup(c)
          <6> SUFFICES ASSUME err = "none" PROVE Lookup(th[t].call)' = Lookup(c)
            BY <2>1
          <6>1. \A x : Lookup(x)' = Lookup(x)
            BY <5>1, SameLookups DEF fsVars
          <6> QED BY <2>1, <6>1
        <5>3. Lookup(c) = TrueName(c)
          BY <1>7, <4>1 DEF Lookup, TrueName, OnDescriptors
        <5> QED BY <5>2, <5>3
      <4>2. CASE c.fn # "read"
        <5>1. c.fn \in {"creat", "chmod", "chown"} /\ c.name \in Names
          BY <1>7, <2>5, <4>2 DEF LooksAfter, OnDescriptors, OnStreams
        <5>2. ASSUME err = "none", NEW x, x = c PROVE Exists(x.name)'
          BY <1>2, <1>7, <5>1, <5>2, NamesThere
        <5> QED BY <2>1, <5>1, <5>2 DEF TrueName, Lookup, realpath
      <4> QED BY <4>1, <4>2
    <3> QED BY <1>1, <1>6, <2>1, <2>3, <2>5, <3>1, <3>2, <3>3 DEF NamesOf
  <2>6. CASE c.fn \notin LooksAfter
    <3>1. next = "log" /\ c.fn # "rename"
      BY <2>6 DEF LooksAfter
    <3>2. ASSUME err = "none", ~truth[t].disturbed
          PROVE  th[t].name = LoggedName(t)'
      <4>1. th'[t].call = c /\ th'[t].call.fn = c.fn
        BY <2>1
      <4>2. CASE c.fn \notin LooksBefore
        <5>1. c.fn = "tmpfile"
          BY <1>7, <2>6, <4>2 DEF LooksBefore, LooksAfter, Fns
        <5>2. TrueName(c) = Nothing
          BY <1>7, <5>1 DEF TrueName, OnDescriptors, OnStreams
        <5> QED BY <1>6, <2>2, <4>1, <4>2, <5>1, <5>2 DEF LoggedName
      <4>3. CASE c.fn \in LooksBefore /\ c.fn \in OnDescriptors
        <5>1. Lookup(c) = TrueName(c)
          BY <1>7, <4>3 DEF Lookup, TrueName
        <5>2. c.fn \notin {"open", "fopen"}
          BY <4>3 DEF OnDescriptors, OnStreams
        <5> QED BY <1>6, <2>2, <3>2, <4>1, <4>3, <5>1, <5>2 DEF LoggedName
      <4>4. CASE c.fn \in {"open", "fopen", "remove"}
        <5>1. c.name \in Names /\ Lookup(c) = realpath(c.name) /\ TrueName(c) = Path(c.name)
          BY <1>7, <4>4 DEF Lookup, TrueName, OnDescriptors, OnStreams
        <5>2. c.fn = "remove" => Exists(c.name)
          BY <1>2, <1>7, <3>2, NamesThere
        <5>3. th[t].name = Lookup(c)
          BY <2>2, <3>2, <4>4 DEF LooksBefore
        <5> QED BY <1>6, <4>1, <4>4, <5>1, <5>2, <5>3 DEF LoggedName, realpath
      <4> QED BY <1>7, <3>1, <4>2, <4>3, <4>4 DEF LooksBefore, OnDescriptors, OnStreams
    <3> QED BY <1>1, <1>6, <2>1, <2>3, <3>1, <3>2 DEF NamesOf
  <2> QED BY <2>4, <2>5, <2>6
<1>9. ASSUME NEW u \in Threads, u # t
      PROVE  NamesOf(u)'
  <2>1. th'[u] = th[u] /\ NamesOf(u) /\ th[u] \in Thread /\ truth[u] \in Truth
    BY <1>5, <1>9 DEF NamesInv, TypeOK
  <2>2. /\ truth'[u].name = truth[u].name /\ truth'[u].to = truth[u].to
        /\ truth'[u].disturbed <=> truth[u].disturbed \/ Disturbs(u)
    BY <1>1, <1>9, <2>1 DEF Truth
  <2>3. ASSUME ~truth'[u].disturbed, th[u].pc = "real", th[u].call.fn \in LooksBefore
        PROVE  Lookup(th[u].call)' = Lookup(th[u].call)
    BY <2>2, <2>3 DEF Disturbs, LooksBefore
  <2>4. ASSUME ~truth'[u].disturbed, th[u].pc = "after"
        PROVE  Late(th[u].call)' = Late(th[u].call)
    BY <2>2, <2>4 DEF Disturbs
  <2>5. LoggedName(u)' = LoggedName(u)
    BY <1>1, <1>9, <2>1 DEF LoggedName, Truth
  <2> QED BY <2>1, <2>2, <2>3, <2>4, <2>5 DEF NamesOf
<1>10. phase = "program"
  BY <1>1 DEF NamesInv, NoCall
<1>11. TypeOK'
  BY RealType DEF NamesInv
<1> QED BY <1>1, <1>8, <1>9, <1>10, <1>11 DEF NamesInv

LEMMA NamesStep == NamesInv /\ [Next]_vars => NamesInv'
<1> SUFFICES ASSUME NamesInv, [Next]_vars PROVE NamesInv'
  OBVIOUS
<1>1. ASSUME NEW t \in Threads, CallsFunction(t) PROVE NamesInv'
  BY <1>1, StepKinds, NamesEnter, NamesReal, NamesAfter, NamesLog
<1>2. CASE UNCHANGED vars
  <2>1. UNCHANGED <<th, truth, dir, fdt, phase>>
    BY <1>2 DEF vars, logVars, fsVars
  <2>2. \A u \in Threads : NamesOf(u)'
    BY <2>1, NamesOther DEF NamesInv
  <2>3. TypeOK'
    BY <1>2, TypeStep DEF NamesInv
  <2> QED BY <2>1, <2>2, <2>3 DEF NamesInv
<1> QED BY <1>1, <1>2, NamesLaunch DEF Next

(* The log names the files that a call acted on, for any number of threads *)
(* and calls, of any program.                                              *)
THEOREM NamesAreTrue == Spec => []NamesTrue
<1>1. NamesInv => NamesTrue
  BY DEF NamesInv, NamesOf, NamesTrue
<1> QED BY <1>1, NamesInit, NamesStep, PTL DEF Spec

-----------------------------------------------------------------------------
(* A careful program: the log keeps its descriptor, and its file has no    *)
(* name but LogName.                                                       *)
Clean ==
  /\ dir = [n \in Names |-> NoFile] /\ content = [f \in Files |-> Blank] /\ streams = {}
  /\ output_fd = -1 /\ fdt[2] # NoFile /\ fdt[3] = NoFile

LogKept ==
  /\ phase = "program" => logged \/ output_fd = -1
  /\ logged => \A n \in Names \ {LogName} : dir[n] # fdt[output_fd]
  /\ \A t \in Threads : th[t].pc # "idle" /\ th[t].call.fn \in OnDescriptors => th[t].call.fd # output_fd

ErrnoOf(t) ==
  /\ phase = "program" /\ logged
  /\ th[t].pc \in {"log", "idle"} /\ th[t].err # "none"
  /\ th[t].call.fn \in {"open", "fopen", "tmpfile", "remove", "write", "close", "fread", "fwrite", "fclose"}
  => th[t].errno = th[t].err

CareInv ==
  /\ NamesInv
  /\ phase = "launcher" => Clean
  /\ LogKept
  /\ \A t \in Threads : ErrnoOf(t)

LEMMA CareInit == Init => CareInv
<1> SUFFICES ASSUME Init PROVE CareInv
  OBVIOUS
<1>1. PICK open \in Inherited : fdt = [fd \in Fd |-> IF fd \in open THEN Terminal ELSE NoFile]
  BY DEF Init
<1>2. 2 \in open /\ 3 \notin open
  BY ProgramAssumption DEF StandardDescriptors
<1>3. 2 \in Fd /\ 3 \in Fd
  BY LoggerAssumption, FileSystemAssumption DEF Fd
<1>4. fdt[2] # NoFile /\ fdt[3] = NoFile
  BY <1>1, <1>2, <1>3, LoggerAssumption, FileSystemAssumption
<1>5. Clean
  BY <1>4 DEF Init, Clean
<1>6. ~logged /\ \A t \in Threads : th[t] = NoCall
  <2>1. output_fd = -1 /\ th = [t \in Threads |-> NoCall] /\ phase = "launcher"
    BY DEF Init
  <2> QED BY <2>1, FdFacts DEF logged, IsOpen
<1>7. LogKept
  BY <1>6 DEF LogKept, NoCall, Init
<1>8. \A t \in Threads : ErrnoOf(t)
  BY <1>6 DEF ErrnoOf
<1> QED BY <1>5, <1>7, <1>8, NamesInit DEF CareInv

LEMMA CareLaunch ==
  ASSUME CareInv, LaunchToFile \/ LaunchToStderr \/ LaunchRefused
  PROVE  CareInv'
<1>0. NamesInv'
  BY NamesLaunch DEF CareInv
<1>1. phase = "launcher" /\ phase' # "launcher" /\ UNCHANGED th
  BY DEF LaunchToFile, LaunchToStderr, LaunchRefused, Executes
<1>2. Clean /\ FsType /\ \A t \in Threads : th'[t] = NoCall
  BY <1>1, TypeSplit DEF CareInv, NamesInv
<1>3. \A t \in Threads : ErrnoOf(t)'
  BY <1>2 DEF ErrnoOf, NoCall
<1>4. /\ phase' = "program" => logged' \/ output_fd' = -1
      /\ logged' => \A n \in Names \ {LogName} : dir'[n] # fdt'[output_fd']
  <2>1. CASE LaunchToFile
    <3>1. PICK ret, err : Does(LogCall, ret, err) /\ output_fd' = ret
      BY <2>1 DEF LaunchToFile
    <3>2. ~Exists(LogName)
      BY <1>2 DEF Clean, Exists
    <3>3. CASE ret = -1
      BY <3>1, <3>3, FdFacts DEF logged, IsOpen
    <3>4. CASE OpensNew(LogCall, ret) /\ ret \in Fd
      <4>1. PICK f \in Files : /\ dir' = [dir EXCEPT ![LogName] = f]
                               /\ fdt' = [fdt EXCEPT ![ret] = f]
        BY <3>4, LogCallIs DEF OpensNew
      <4>2. f # NoFile
        BY FileSystemAssumption
      <4>3. fdt'[output_fd'] = f
        BY <1>2, <3>1, <3>4, <4>1 DEF FsType
      <4>4. \A n \in Names \ {LogName} : dir'[n] = NoFile
        BY <1>2, <4>1 DEF Clean
      <4> QED BY <3>1, <3>4, <4>2, <4>3, <4>4 DEF logged, IsOpen
    <3> QED BY <1>2, <3>1, <3>2, <3>3, <3>4, LogOpens
  <2>2. CASE LaunchToStderr
    <3>1. 2 \in Fd /\ 3 \in Fd
      BY LoggerAssumption, FileSystemAssumption DEF Fd
    <3>2. IsOpen(2)
      BY <1>2, <3>1 DEF IsOpen, Clean
    <3>3. fdt' = [fdt EXCEPT ![3] = fdt[2]] /\ output_fd' = 3 /\ dir' = dir
      BY <2>2, <3>2 DEF LaunchToStderr
    <3>4. fdt'[output_fd'] = fdt[2] /\ fdt[2] # NoFile
      BY <1>2, <3>1, <3>3 DEF FsType, Clean
    <3>5. \A n \in Names \ {LogName} : dir'[n] = NoFile
      BY <1>2, <3>3 DEF Clean
    <3> QED BY <3>1, <3>3, <3>4, <3>5 DEF logged, IsOpen
  <2>3. CASE LaunchRefused
    BY <1>2, <2>3, FdFacts DEF LaunchRefused, fsVars, Clean, logged, IsOpen
  <2> QED BY <2>1, <2>2, <2>3
<1>5. LogKept'
  BY <1>2, <1>4 DEF LogKept, NoCall
<1> QED BY <1>0, <1>1, <1>3, <1>5 DEF CareInv

(* No call of a careful program touches the log's descriptor or names its  *)
(* file.                                                                   *)
LEMMA CallKeepsLog ==
  ASSUME FsType, LogKept, UNCHANGED output_fd,
         NEW c \in Calls, c.fn \in OnDescriptors => c.fd # output_fd,
         NEW ret, NEW err, Does(c, ret, err)
  PROVE  /\ logged => /\ fdt'[output_fd] = fdt[output_fd]
                      /\ \A n \in Names \ {LogName} : dir'[n] # fdt[output_fd]
         /\ output_fd = -1 => ~logged /\ ~logged'
<1>1. output_fd = -1 => ~logged /\ ~logged'
  BY FdFacts DEF logged, IsOpen
<1>2. ASSUME logged
      PROVE  /\ fdt'[output_fd] = fdt[output_fd]
             /\ \A n \in Names \ {LogName} : dir'[n] # fdt[output_fd]
  <2> DEFINE L == fdt[output_fd]
  <2>0. /\ output_fd \in Fd /\ L \in Files /\ L # NoFile
        /\ \A n \in Names \ {LogName} : dir[n] # L
        /\ c.name # LogName /\ c.to # LogName
    BY <1>2, ProgramAssumption DEF logged, IsOpen, FsType, LogKept
  <2>1. CASE Fails(c, err)
    BY <2>0, <2>1 DEF Fails, fsVars
  <2>2. CASE OpensOld(c, ret)
    <3>1. fdt[ret] = NoFile /\ ret \in Fd /\ dir' = dir /\ fdt' = [fdt EXCEPT ![ret] = dir[c.name]]
      BY <2>2 DEF OpensOld, LowestFd, FreeFds
    <3> QED BY <2>0, <3>1 DEF FsType
  <2>3. CASE OpensNew(c, ret)
    <3>1. fdt[ret] = NoFile /\ ret \in Fd /\ c.name \in Names
      BY <2>3 DEF OpensNew, LowestFd, FreeFds
    <3>2. PICK f \in Files : Unused(f) /\ dir' = [dir EXCEPT ![c.name] = f] /\ fdt' = [fdt EXCEPT ![ret] = f]
      BY <2>3 DEF OpensNew
    <3>3. f # L
      BY <2>0, <3>2 DEF Unused
    <3> QED BY <2>0, <3>1, <3>2, <3>3 DEF FsType
  <2>4. CASE OpensTemporary(c, ret)
    <3>1. fdt[ret] = NoFile /\ ret \in Fd /\ dir' = dir
      BY <2>4 DEF OpensTemporary, LowestFd, FreeFds
    <3>2. PICK f : fdt' = [fdt EXCEPT ![ret] = f]
      BY <2>4 DEF OpensTemporary
    <3> QED BY <2>0, <3>1, <3>2 DEF FsType
  <2>5. CASE Closes(c, ret)
    <3>1. c.fd # output_fd /\ dir' = dir /\ fdt' = [fdt EXCEPT ![c.fd] = NoFile]
      BY <2>5 DEF Closes, OnDescriptors, OnStreams
    <3> QED BY <2>0, <3>1 DEF FsType
  <2>6. CASE Reads(c, ret) \/ Writes(c, ret) \/ ChangesStatus(c, ret)
    BY <2>0, <2>6 DEF Reads, Writes, ChangesStatus, fsVars
  <2>7. CASE Removes(c, ret)
    BY <2>0, <2>7 DEF Removes, FsType
  <2>8. CASE Renames(c, ret)
    <3>1. fdt' = fdt /\ dir[c.name] # L /\ dir' = [n \in Names |-> IF n = c.to THEN dir[c.name]
                             ELSE IF n = c.name THEN NoFile ELSE dir[n]]
      BY <2>0, <2>8 DEF Renames, Exists
    <3> QED BY <2>0, <3>1
  <2> QED BY <2>1, <2>2, <2>3, <2>4, <2>5, <2>6, <2>7, <2>8 DEF Does, Succeeds
<1> QED BY <1>1, <1>2


LEMMA CareCall ==
  ASSUME CareInv, NEW t \in Threads, CallsFunction(t), LeavesLogAlone
  PROVE  CareInv' /\ UNCHANGED <<phase, output_fd>> /\ (logged' <=> logged)
<1>1. phase = "program" /\ UNCHANGED <<phase, output_fd>> /\ FsType
  <2>1. th[t].pc # "idle" => phase = "program"
    BY DEF CareInv, NamesInv, NoCall
  <2> QED BY <2>1, StepKinds, TypeSplit DEF Enter, Real, After, Log, CareInv, NamesInv
<1>2. NamesInv'
  BY NamesStep DEF CareInv, Next
<1>3. \A u \in Threads : u # t => th'[u] = th[u]
  BY StepKinds DEF Enter, Real, After, Log, CareInv, NamesInv, TypeOK
<1>4. /\ logged => /\ fdt'[output_fd] = fdt[output_fd]
                   /\ \A n \in Names \ {LogName} : dir'[n] # fdt[output_fd]
      /\ output_fd = -1 => ~logged /\ ~logged'
  <2>1. CASE \E next : Real(t, next)
    <3> DEFINE c == th[t].call
    <3>1. th[t].pc = "real" /\ \E ret, err : Does(c, ret, err)
      BY <2>1 DEF Real
    <3>2. c \in Calls /\ (c.fn \in OnDescriptors => c.fd # output_fd)
      BY <3>1 DEF CareInv, NamesInv, NamesOf, LogKept
    <3> HIDE DEF c
    <3> QED BY <1>1, <3>1, <3>2, CallKeepsLog DEF CareInv
  <2>2. CASE UNCHANGED <<dir, fdt>>
    BY <1>1, <2>2, FdFacts DEF CareInv, LogKept, logged, IsOpen
  <2> QED BY <2>1, <2>2, StepKinds DEF Enter, After, Log, fsVars
<1>5. logged' <=> logged
  <2>1. logged \/ output_fd = -1
    BY <1>1 DEF CareInv, LogKept
  <2>2. logged => logged'
    BY <1>1, <1>4 DEF logged, IsOpen
  <2> QED BY <1>4, <2>1, <2>2
<1>6. LogKept'
  <2>1. \A u \in Threads : th'[u].pc # "idle" /\ th'[u].call.fn \in OnDescriptors => th'[u].call.fd # output_fd
    BY DEF LeavesLogAlone
  <2> QED BY <1>1, <1>4, <1>5, <2>1 DEF LogKept, CareInv
<1>7. ErrnoOf(t)'
  <2> DEFINE nine == {"open", "fopen", "tmpfile", "remove", "write", "close", "fread", "fwrite", "fclose"}
  <2>0. th[t] \in Thread
    BY DEF CareInv, NamesInv, TypeOK
  <2>1. ASSUME NEW c \in Calls, NEW name, Enter(t, c, name) PROVE th'[t].pc = "real"
    BY <2>1 DEF Enter, CareInv, NamesInv, TypeOK, NoCall
  <2>2. ASSUME NEW next, Real(t, next) PROVE th'[t].errno = th'[t].err
    BY <2>0, <2>2 DEF Real, CareInv, NamesInv, TypeOK, Thread
  <2>3. ASSUME th[t].call.fn \in LooksAfter, After(t) PROVE th'[t].call.fn \notin nine
    <3>1. th'[t].call = th[t].call
      BY <2>0, <2>3 DEF After, CareInv, NamesInv, TypeOK, Thread
    <3> QED BY <2>3, <3>1 DEF LooksAfter
  <2>4. ASSUME Log(t), logged
        PROVE  /\ th'[t].errno = th[t].errno /\ th'[t].err = th[t].err /\ th'[t].call = th[t].call
               /\ th[t].pc = "log"
    BY <2>0, <2>4 DEF Log, logged, CareInv, NamesInv, TypeOK, Thread
  <2>5. CASE Log(t)
    BY <1>1, <1>5, <2>4, <2>5 DEF ErrnoOf, CareInv
  <2> QED BY <2>1, <2>2, <2>3, <2>5, StepKinds DEF ErrnoOf
<1>8. \A u \in Threads : ErrnoOf(u)'
  BY <1>1, <1>3, <1>5, <1>7 DEF ErrnoOf, CareInv
<1> QED BY <1>1, <1>2, <1>5, <1>6, <1>8 DEF CareInv, logged

LEMMA CareStep == CareInv /\ [CarefulNext]_vars => CareInv'
<1> SUFFICES ASSUME CareInv, [CarefulNext]_vars PROVE CareInv'
  OBVIOUS
<1>1. CASE CarefulNext
  BY <1>1, CareLaunch, CareCall DEF CarefulNext, Next
<1>2. CASE UNCHANGED vars
  <2>1. NamesInv'
    BY <1>2, NamesStep DEF CareInv
  <2>2. UNCHANGED <<dir, fdt, content, streams, phase, output_fd, th>>
    BY <1>2 DEF vars, logVars, fsVars
  <2> QED BY <2>1, <2>2 DEF CareInv, Clean, LogKept, ErrnoOf, logged, IsOpen
<1> QED BY <1>1, <1>2

LEMMA CareAlways == CarefulSpec => []CareInv
BY CareInit, CareStep, PTL DEF CarefulSpec

(* A failed call reports its own error.                                    *)
THEOREM ErrnoIsKept == CarefulSpec => []ErrnoKept
<1>1. CareInv => ErrnoKept
  BY DEF CareInv, ErrnoOf, ErrnoKept
<1> QED BY <1>1, CareAlways, PTL

-----------------------------------------------------------------------------
(* The refinement mapping, thread by thread and file by file.              *)
Place(p) == IF p = "idle" THEN "idle" ELSE IF p = "real" THEN "called" ELSE "done"

Bar(r) == [pc |-> Place(r.pc), call |-> r.call, ret |-> r.ret]

LEMMA CallBarIs ==
  /\ callBar = [t \in Threads |-> Bar(th[t])]
  /\ callBar' = [t \in Threads |-> Bar(th'[t])]
BY DEF callBar, Bar, Place

LEMMA CallBarChanges ==
  ASSUME NEW t \in Threads, \A u \in Threads : u # t => th'[u] = th[u]
  PROVE  callBar' = [callBar EXCEPT ![t] = Bar(th'[t])]
BY CallBarIs

LogEntry(l) == [by |-> l.by, fn |-> l.fn, ret |-> l.ret]

LogOf(s) == [k \in 1 .. Len(s) |-> LogEntry(s[k])]

LEMMA LogOfAppend ==
  ASSUME NEW s \in Seq(Lines), NEW x \in Lines
  PROVE  LogOf(Append(s, x)) = Append(LogOf(s), LogEntry(x))
<1> DEFINE S == {LogEntry(l) : l \in Lines}
           a == LogOf(Append(s, x))
           b == Append(LogOf(s), LogEntry(x))
<1>1. /\ Len(s) \in Nat /\ Len(Append(s, x)) = Len(s) + 1
      /\ \A k \in 1 .. Len(s) : s[k] \in Lines /\ Append(s, x)[k] = s[k]
      /\ Append(s, x)[Len(s) + 1] = x
  OBVIOUS
<1>2. LogOf(s) \in [1 .. Len(s) -> S]
  BY <1>1 DEF LogOf
<1>3. LogOf(s) \in Seq(S) /\ Len(LogOf(s)) = Len(s) /\ LogEntry(x) \in S
  <2>1. LogOf(s) \in Seq(S)
    BY <1>1, <1>2
  <2>2. DOMAIN LogOf(s) = 1 .. Len(s)
    BY DEF LogOf
  <2> QED BY <1>1, <2>1, <2>2
<1> HIDE DEF S
<1>4. /\ b \in Seq(S) /\ Len(b) = Len(s) + 1 /\ b[Len(s) + 1] = LogEntry(x)
      /\ \A k \in 1 .. Len(s) : b[k] = LogOf(s)[k]
  <2> DEFINE g == LogOf(s)
             y == LogEntry(x)
  <2> HIDE DEF g, y
  <2>1. g \in Seq(S) /\ y \in S /\ Len(g) = Len(s)
    BY <1>3 DEF g, y
  <2>2. /\ Append(g, y) \in Seq(S) /\ Len(Append(g, y)) = Len(s) + 1 /\ Append(g, y)[Len(s) + 1] = y
        /\ \A k \in 1 .. Len(s) : Append(g, y)[k] = g[k]
    BY <1>1, <2>1
  <2> QED BY <2>2 DEF g, y
<1>5. /\ DOMAIN a = 1 .. Len(s) + 1 /\ a[Len(s) + 1] = LogEntry(x)
      /\ \A k \in 1 .. Len(s) : a[k] = LogEntry(s[k])
  BY <1>1 DEF LogOf
<1>6. \A k \in 1 .. Len(s) : LogOf(s)[k] = LogEntry(s[k])
  BY <1>1 DEF LogOf
<1>7. a = [k \in DOMAIN a |-> a[k]]
  BY DEF LogOf
<1> HIDE DEF a, b
<1>8. DOMAIN b = 1 .. Len(s) + 1 /\ b = [k \in DOMAIN b |-> b[k]]
  BY <1>1, <1>4
<1>9. \A k \in 1 .. Len(s) + 1 : a[k] = b[k]
  <2> SUFFICES ASSUME NEW k \in 1 .. Len(s) + 1 PROVE a[k] = b[k]
    OBVIOUS
  <2>1. k \in 1 .. Len(s) \/ k = Len(s) + 1
    BY <1>1
  <2> QED BY <1>4, <1>5, <1>6, <2>1
<1>10. a = b
  BY <1>5, <1>7, <1>8, <1>9
<1> QED BY <1>10 DEF a, b

LEMMA LogOfEmpty == LogOf(<< >>) = << >>
BY DEF LogOf

LEMMA SimulateInit == Init => Alone!Init
<1> SUFFICES ASSUME Init PROVE Alone!Init
  OBVIOUS
<1>1. CareInv
  BY CareInit
<1>2. ~logged
  BY FdFacts DEF Init, logged, IsOpen
<1>3. contentBar = [f \in Files |-> Alone!Blank]
  BY <1>2 DEF Init, contentBar, Blank, Alone!Blank
<1>4. callBar = [t \in Threads |-> Alone!Idle]
  <2>1. \A t \in Threads : th[t] = NoCall
    BY DEF Init
  <2>2. Bar(NoCall) = Alone!Idle
    BY DEF Bar, Place, NoCall, Alone!Idle, FdCall, Alone!FdCall
  <2> QED BY <2>1, <2>2, CallBarIs
<1>5. lines = << >>
  BY <1>2 DEF lines
<1>6. LogOf(lines) = << >>
  BY <1>5, LogOfEmpty
<1>7. dir \in [Names -> Files \union {NoFile}] /\ fdt \in [Fd -> Files \union {NoFile}]
  BY TypeInit DEF TypeOK
<1> QED BY <1>2, <1>3, <1>4, <1>6, <1>7 DEF Init, Alone!Init, LogOf, LogEntry, Alone!Fd, Fd

LEMMA SimulateLaunch ==
  ASSUME CareInv, LaunchToFile \/ LaunchToStderr \/ LaunchRefused
  PROVE  Alone!Next
<1>1. /\ phase = "launcher" /\ phase' \in {"program", "ended"} /\ UNCHANGED th
      /\ Clean /\ FsType /\ ~logged
  BY TypeSplit, FdFacts DEF LaunchToFile, LaunchToStderr, LaunchRefused, Executes, CareInv, NamesInv, Clean,
                        logged, IsOpen
<1>2. callBar' = callBar
  BY <1>1, CallBarIs
<1>3. CASE content' = content /\ streams' = streams
  <2>1. contentBar' = contentBar
    <3>1. \A f \in Files : content[f] = [content[f] EXCEPT !.lines = << >>] /\ content'[f] = content[f]
      BY <1>1, <1>3 DEF Clean, Blank
    <3> QED BY <1>1, <3>1 DEF contentBar
  <2>2. lines' = lines
    <3>1. fdt'[output_fd'] \in Files => content[fdt'[output_fd']].lines = << >>
      BY <1>1 DEF Clean, Blank
    <3>2. CareInv'
      BY CareLaunch
    <3>3. logged' => fdt'[output_fd'] \in Files
      BY <3>2 DEF logged, IsOpen, CareInv, NamesInv, TypeOK
    <3> QED BY <1>1, <1>3, <3>1, <3>3 DEF lines
  <2>3. \/ UNCHANGED <<dir, fdt>>
        \/ \E fd \in Fd, f \in Files : /\ fdt[fd] = NoFile /\ fdt' = [fdt EXCEPT ![fd] = f]
                                       /\ dir' \in {dir, [dir EXCEPT ![LogName] = f]}
    <3>1. CASE LaunchToFile
      <4>1. PICK ret, err : Does(LogCall, ret, err)
        BY <3>1 DEF LaunchToFile
      <4>2. ~Exists(LogName)
        BY <1>1 DEF Clean, Exists
      <4>3. CASE UNCHANGED fsVars
        BY <4>3 DEF fsVars
      <4>4. CASE OpensNew(LogCall, ret) /\ ret \in Fd
        BY <4>4, LogCallIs DEF OpensNew, LowestFd, FreeFds
      <4> QED BY <1>1, <4>1, <4>2, <4>3, <4>4, LogOpens
    <3>2. CASE LaunchToStderr
      <4>1. 2 \in Fd /\ 3 \in Fd
        BY LoggerAssumption, FileSystemAssumption DEF Fd
      <4>2. fdt[2] \in Files /\ fdt[3] = NoFile
        BY <1>1, <4>1 DEF Clean, FsType
      <4> QED BY <3>2, <4>1, <4>2 DEF LaunchToStderr
    <3>3. CASE LaunchRefused
      BY <3>3 DEF LaunchRefused, fsVars
    <3> QED BY <3>1, <3>2, <3>3
  <2> QED BY <1>1, <1>2, <1>3, <2>1, <2>2, <2>3 DEF Alone!Next, Alone!Start, Alone!Fd, Fd, logged, IsOpen
<1>4. content' = content /\ streams' = streams
  <2>1. CASE LaunchToFile
    <3>1. PICK ret, err : Does(LogCall, ret, err)
      BY <2>1 DEF LaunchToFile
    <3>2. ~Exists(LogName)
      BY <1>1 DEF Clean, Exists
    <3>3. CASE UNCHANGED fsVars
      BY <3>3 DEF fsVars
    <3>4. CASE OpensNew(LogCall, ret)
      BY <1>1, <3>4, LogCallIs DEF OpensNew, Clean
    <3> QED BY <1>1, <3>1, <3>2, <3>3, <3>4, LogOpens
  <2>2. CASE LaunchToStderr \/ LaunchRefused
    BY <2>2 DEF LaunchToStderr, LaunchRefused, fsVars
  <2> QED BY <2>1, <2>2
<1> QED BY <1>3, <1>4

LEMMA SimulateEnter ==
  ASSUME CareInv, NEW t \in Threads, NEW c \in Calls, NEW name, Enter(t, c, name)
  PROVE  Alone!Next
<1> DEFINE r == [NoCall EXCEPT !.pc = "real", !.call = c, !.name = name]
<1>1. /\ phase = "program" /\ UNCHANGED <<dir, fdt, content, streams, phase, output_fd>>
      /\ th' = [th EXCEPT ![t] = r] /\ th[t].pc = "idle"
  BY DEF Enter, fsVars
<1>2. Bar(r) = [pc |-> "called", call |-> c, ret |-> 0]
  BY DEF Bar, Place, NoCall
<1> HIDE DEF r
<1>3. th'[t] = r /\ \A u \in Threads : u # t => th'[u] = th[u]
  BY <1>1 DEF CareInv, NamesInv, TypeOK
<1>4. callBar' = [callBar EXCEPT ![t] = [pc |-> "called", call |-> c, ret |-> 0]]
  BY <1>2, <1>3, CallBarChanges
<1>5. callBar[t].pc = "idle"
  BY <1>1, CallBarIs DEF Bar, Place
<1>6. contentBar' = contentBar /\ lines' = lines /\ logged' = logged
  BY <1>1 DEF contentBar, lines, logged, IsOpen
<1> QED BY <1>1, <1>4, <1>5, <1>6 DEF Alone!Next, Alone!Enter, Alone!fsVars

LEMMA SimulateAfter ==
  ASSUME CareInv, NEW t \in Threads, After(t)
  PROVE  UNCHANGED Alone!vars
<1>1. UNCHANGED <<dir, fdt, content, streams, phase, output_fd>> /\ th[t].pc = "after" /\ th[t] \in Thread
  BY DEF After, fsVars, CareInv, NamesInv, TypeOK
<1>2. /\ th'[t].pc = "log" /\ th'[t].call = th[t].call /\ th'[t].ret = th[t].ret
      /\ \A u \in Threads : u # t => th'[u] = th[u]
  BY <1>1 DEF After, CareInv, NamesInv, TypeOK, Thread
<1>3. callBar' = callBar
  <2>1. Bar(th'[t]) = Bar(th[t])
    BY <1>1, <1>2 DEF Bar, Place
  <2> QED BY <1>2, <2>1, CallBarIs
<1>4. contentBar' = contentBar /\ lines' = lines /\ logged' = logged
  BY <1>1 DEF contentBar, lines, logged, IsOpen
<1> QED BY <1>1, <1>3, <1>4 DEF Alone!vars, Alone!fsVars

(* The line of a call that returns is added to the log, to nothing else.   *)
LEMMA SimulateLog ==
  ASSUME CareInv, CareInv', NEW t \in Threads, Log(t)
  PROVE  Alone!Next
<1>1. /\ UNCHANGED <<dir, fdt, streams, phase, output_fd>> /\ th[t].pc = "log" /\ th[t] \in Thread
      /\ logged' = logged /\ FsType
  BY TypeSplit DEF Log, CareInv, NamesInv, TypeOK, logged, IsOpen
<1>2. /\ th'[t].pc = "idle" /\ th'[t].call = th[t].call /\ th'[t].ret = th[t].ret
      /\ \A u \in Threads : u # t => th'[u] = th[u]
  BY <1>1 DEF Log, CareInv, NamesInv, TypeOK, Thread
<1>3. callBar[t].pc = "done" /\ callBar[t].call = th[t].call /\ callBar[t].ret = th[t].ret
  BY <1>1, CallBarIs DEF Bar, Place
<1>4. callBar' = [callBar EXCEPT ![t].pc = "idle"]
  <2>1. callBar[t] = Bar(th[t]) /\ callBar' = [callBar EXCEPT ![t] = Bar(th'[t])]
    BY <1>2, CallBarIs, CallBarChanges
  <2>2. Bar(th'[t]) = [Bar(th[t]) EXCEPT !.pc = "idle"]
    BY <1>2 DEF Bar, Place
  <2> QED BY <2>1, <2>2
<1>5. CASE logged
  <2> DEFINE L == fdt[output_fd]
  <2>1. L \in Files /\ content[L] \in Content
    BY <1>1, <1>5 DEF logged, IsOpen, FsType
  <2>2. content' = [content EXCEPT ![L] = [content[L] EXCEPT !.lines = Append(content[L].lines, Line(t))]]
    BY <1>5 DEF Log, WritesLine, logged
  <2>3. contentBar' = contentBar
    <3>1. \A f \in Files : f # L => content'[f] = content[f]
      BY <1>1, <2>2 DEF FsType
    <3>2. content'[L] = [content[L] EXCEPT !.lines = Append(content[L].lines, Line(t))]
      BY <1>1, <2>1, <2>2 DEF FsType
    <3>3. [content'[L] EXCEPT !.lines = << >>] = [content[L] EXCEPT !.lines = << >>]
      BY <2>1, <3>2 DEF Content
    <3> QED BY <1>1, <1>5, <3>1, <3>3 DEF contentBar
  <2>4. lines' = Append(lines, Line(t)) /\ lines \in Seq(Lines)
    BY <1>1, <1>5, <2>1, <2>2 DEF lines, Content, FsType
  <2>5. LogOf(lines') = Append(LogOf(lines), LogEntry(Line(t)))
    BY <2>4, LineType, LogOfAppend DEF CareInv, NamesInv
  <2>6. LogEntry(Line(t)) = [by |-> t, fn |-> callBar[t].call.fn, ret |-> callBar[t].ret]
    BY <1>3 DEF LogEntry, Line
  <2> QED BY <1>1, <1>3, <1>4, <1>5, <2>3, <2>5, <2>6
          DEF Alone!Next, Alone!Leave, Alone!fsVars, LogOf, LogEntry
<1>6. CASE ~logged
  <2>1. content' = content
    BY <1>6 DEF Log, WritesLine, logged
  <2>2. contentBar' = contentBar /\ lines' = lines
    BY <1>1, <1>6, <2>1 DEF contentBar, lines
  <2> QED BY <1>1, <1>3, <1>4, <1>6, <2>2 DEF Alone!Next, Alone!Leave, Alone!fsVars
<1> QED BY <1>5, <1>6

(* The call itself, seen without the lines of the log.                     *)
LEMMA SimulateDoes ==
  ASSUME FsType, LogKept, UNCHANGED output_fd, logged \/ output_fd = -1,
         NEW c \in Calls, c.fn \in OnDescriptors => c.fd # output_fd,
         NEW ret, NEW err, Does(c, ret, err)
  PROVE  Alone!Does(c, ret, err) /\ lines' = lines
<1> DEFINE L == fdt[output_fd]
<1>0. c.name # LogName
  BY ProgramAssumption
<1>1. /\ logged' <=> logged
      /\ logged => /\ fdt'[output_fd] = L /\ L \in Files /\ output_fd \in Fd
                   /\ \A n \in Names \ {LogName} : dir[n] # L
  BY CallKeepsLog DEF logged, IsOpen, FsType, LogKept
<1>2. ASSUME content' = content
      PROVE  contentBar' = contentBar /\ lines' = lines
  BY <1>1, <1>2 DEF contentBar, lines
<1>3. ASSUME NEW f \in Files, logged => f # L, content' = [content EXCEPT ![f] = Blank]
      PROVE  contentBar' = [contentBar EXCEPT ![f] = Alone!Blank] /\ lines' = lines
  <2>1. Alone!Blank = Blank
    BY DEF Blank, Alone!Blank
  <2>2. content'[f] = Blank /\ \A g \in Files : g # f => content'[g] = content[g]
    BY <1>3 DEF FsType
  <2>3. lines' = lines
    BY <1>1, <1>3, <2>2 DEF lines
  <2>4. contentBar' = [g \in Files |-> IF g = f THEN Blank ELSE contentBar[g]]
    BY <1>1, <1>3, <2>2 DEF contentBar
  <2>5. contentBar = [g \in Files |-> contentBar[g]]
    BY DEF contentBar
  <2> QED BY <2>1, <2>3, <2>4, <2>5
<1>4. CASE Fails(c, err) /\ ret = -1
  <2>1. UNCHANGED <<dir, fdt, content, streams>>
    BY <1>4 DEF Fails, fsVars
  <2> QED BY <1>2, <1>4, <2>1 DEF Fails, Alone!Does, Alone!Fails, Alone!fsVars, Alone!Exists, Exists, Alone!IsOpen,
             IsOpen, Alone!FreeFds, FreeFds, Alone!Unused, Unused, Alone!Fd, Fd, Alone!Opening, Opening,
             Alone!OnDescriptors, OnDescriptors, Alone!OnStreams, OnStreams
<1>5. CASE OpensOld(c, ret) /\ err = "none"
  <2>1. dir[c.name] \in Files /\ c.name \in Names
    BY <1>5 DEF OpensOld, Exists, FsType
  <2>2. logged => dir[c.name] # L
    BY <1>0, <1>1, <2>1
  <2>3. lines' = lines /\ contentBar' = IF c.mode = "truncate" THEN [contentBar EXCEPT ![dir[c.name]] = Alone!Blank]
                                        ELSE contentBar
    BY <1>2, <1>3, <1>5, <2>1, <2>2 DEF OpensOld
  <2>4. Alone!OpensOld(c, ret)
    BY <1>5, <2>3 DEF OpensOld, Alone!OpensOld, Alone!Exists, Exists, Alone!LowestFd, LowestFd, Alone!FreeFds, FreeFds,
       Alone!Fd, Fd, Alone!Opening, Opening
  <2> QED BY <1>5, <2>3, <2>4 DEF Alone!Does, Alone!Succeeds
<1>6. CASE OpensNew(c, ret) /\ err = "none"
  <2>1. PICK f \in Files : /\ Unused(f) /\ dir' = [dir EXCEPT ![c.name] = f]
                           /\ fdt' = [fdt EXCEPT ![ret] = f] /\ content' = [content EXCEPT ![f] = Blank]
    BY <1>6 DEF OpensNew
  <2>2. logged => f # L
    BY <1>1, <2>1 DEF Unused
  <2>3. lines' = lines /\ contentBar' = [contentBar EXCEPT ![f] = Alone!Blank]
    BY <1>3, <2>1, <2>2
  <2>4. Alone!Unused(f)
    BY <2>1 DEF Unused, Alone!Unused, Fd, Alone!Fd
  <2>5. Alone!OpensNew(c, ret)
    BY <1>6, <2>1, <2>3, <2>4 DEF OpensNew, Alone!OpensNew, Alone!Exists, Exists, Alone!LowestFd, LowestFd,
       Alone!FreeFds, FreeFds, Alone!Fd, Fd, Alone!Opening, Opening
  <2> QED BY <1>6, <2>3, <2>5 DEF Alone!Does, Alone!Succeeds
<1>7. CASE OpensTemporary(c, ret) /\ err = "none"
  <2>1. PICK f \in Files : /\ Unused(f) /\ fdt' = [fdt EXCEPT ![ret] = f] /\ content' = [content EXCEPT ![f] = Blank]
    BY <1>7 DEF OpensTemporary
  <2>2. logged => f # L
    BY <1>1, <2>1 DEF Unused
  <2>3. lines' = lines /\ contentBar' = [contentBar EXCEPT ![f] = Alone!Blank]
    BY <1>3, <2>1, <2>2
  <2>4. Alone!Unused(f)
    BY <2>1 DEF Unused, Alone!Unused, Fd, Alone!Fd
  <2>5. Alone!OpensTemporary(c, ret)
    BY <1>7, <2>1, <2>3, <2>4 DEF OpensTemporary, Alone!OpensTemporary, Alone!LowestFd, LowestFd,
       Alone!FreeFds, FreeFds, Alone!Fd, Fd
  <2> QED BY <1>7, <2>3, <2>5 DEF Alone!Does, Alone!Succeeds
<1>8. CASE Closes(c, ret) /\ err = "none"
  <2>1. contentBar' = contentBar /\ lines' = lines
    BY <1>2, <1>8 DEF Closes
  <2>2. Alone!Closes(c, ret)
    BY <1>8, <2>1 DEF Closes, Alone!Closes, IsOpen, Alone!IsOpen, Fd, Alone!Fd
  <2> QED BY <1>8, <2>1, <2>2 DEF Alone!Does, Alone!Succeeds
<1>9. CASE Reads(c, ret) /\ err = "none"
  <2>1. contentBar' = contentBar /\ lines' = lines
    BY <1>2, <1>9 DEF Reads, fsVars
  <2>2. Alone!Reads(c, ret)
    BY <1>9, <2>1 DEF Reads, Alone!Reads, IsOpen, Alone!IsOpen, Fd, Alone!Fd, fsVars, Alone!fsVars
  <2> QED BY <1>9, <2>1, <2>2 DEF Alone!Does, Alone!Succeeds
<1>10. CASE Writes(c, ret) /\ err = "none"
  <2> DEFINE f == fdt[c.fd]
             d == Append(content[f].data, c.count)
  <2>1. f \in Files /\ content[f] \in Content
    BY <1>10 DEF Writes, IsOpen, FsType
  <2>2. content' = [content EXCEPT ![f] = [content[f] EXCEPT !.data = d]]
    BY <1>10 DEF Writes
  <2> HIDE DEF d
  <2>3. /\ content'[f] = [content[f] EXCEPT !.data = d]
        /\ \A g \in Files : g # f => content'[g] = content[g]
    BY <2>1, <2>2 DEF FsType
  <2>4. lines' = lines
    <3>1. \A g \in Files : content'[g].lines = content[g].lines
      BY <2>1, <2>3 DEF Content
    <3> QED BY <1>1, <3>1 DEF lines
  <2>5. contentBar[f].data = content[f].data
    BY <2>1 DEF contentBar, Content
  <2>6. contentBar' = [g \in Files |-> IF g = f THEN [contentBar[f] EXCEPT !.data = d] ELSE contentBar[g]]
    <3>1. ASSUME NEW g \in Files, g # f PROVE contentBar'[g] = contentBar[g]
      BY <1>1, <2>3, <3>1 DEF contentBar
    <3>2. contentBar'[f] = [contentBar[f] EXCEPT !.data = d]
      <4>1. CASE logged /\ f = L
        <5>1. contentBar'[f] = [content'[f] EXCEPT !.lines = << >>] /\ contentBar[f] = [content[f] EXCEPT !.lines = << >>]
          BY <1>1, <2>1, <4>1 DEF contentBar
        <5> QED BY <2>1, <2>3, <5>1 DEF Content
      <4>2. CASE ~(logged /\ f = L)
        BY <1>1, <2>1, <2>3, <4>2 DEF contentBar
      <4> QED BY <4>1, <4>2
    <3>3. contentBar' = [g \in Files |-> contentBar'[g]]
      BY DEF contentBar
    <3> QED BY <3>1, <3>2, <3>3
  <2>7. contentBar' = [contentBar EXCEPT ![f] = [contentBar[f] EXCEPT !.data = d]]
    <3>1. contentBar = [g \in Files |-> contentBar[g]]
      BY DEF contentBar
    <3> QED BY <2>6, <3>1
  <2>8. contentBar' = [contentBar EXCEPT ![f].data = Append(@, c.count)]
    BY <2>5, <2>7 DEF d
  <2>9. Alone!Writes(c, ret)
    BY <1>10, <2>8 DEF Writes, Alone!Writes, IsOpen, Alone!IsOpen, Fd, Alone!Fd
  <2> QED BY <1>10, <2>4, <2>9 DEF Alone!Does, Alone!Succeeds
<1>11. CASE (ChangesStatus(c, ret) \/ Removes(c, ret) \/ Renames(c, ret)) /\ err = "none"
  <2>1. contentBar' = contentBar /\ lines' = lines
    BY <1>2, <1>11 DEF ChangesStatus, Removes, Renames, fsVars
  <2>2. Alone!ChangesStatus(c, ret) \/ Alone!Removes(c, ret) \/ Alone!Renames(c, ret)
    BY <1>11, <2>1 DEF ChangesStatus, Removes, Renames, fsVars, Alone!ChangesStatus, Alone!Removes, Alone!Renames,
       Alone!fsVars, Exists, Alone!Exists
  <2> QED BY <1>11, <2>1, <2>2 DEF Alone!Does, Alone!Succeeds
<1> QED BY <1>4, <1>5, <1>6, <1>7, <1>8, <1>9, <1>10, <1>11 DEF Does, Succeeds

LEMMA SimulateReal ==
  ASSUME CareInv, CareInv', NEW t \in Threads, NEW next \in {"after", "log"}, Real(t, next)
  PROVE  Alone!Next
<1> DEFINE c == th[t].call
<1>1. /\ th[t].pc = "real" /\ th[t] \in Thread /\ UNCHANGED <<phase, output_fd>> /\ FsType /\ LogKept
      /\ c \in Calls /\ (c.fn \in OnDescriptors => c.fd # output_fd) /\ phase = "program"
      /\ logged \/ output_fd = -1
  <2>1. th[t].pc = "real" /\ UNCHANGED <<phase, output_fd>>
    BY DEF Real
  <2>2. th[t] \in Thread /\ FsType /\ LogKept /\ c \in Calls
    BY <2>1, TypeSplit DEF CareInv, NamesInv, NamesOf, TypeOK
  <2>3. phase = "program"
    BY <2>1 DEF CareInv, NamesInv, NoCall
  <2> QED BY <2>1, <2>2, <2>3 DEF LogKept
<1>2. PICK ret \in Results(c), err \in Errnos :
        /\ Does(c, ret, err)
        /\ th' = [th EXCEPT ![t].pc = next,
                            ![t].ret = Kept(c.fn, ret), ![t].err = err, ![t].errno = err]
  BY DEF Real
<1>3. Kept(c.fn, ret) = ret
  <2>1. c.count <= IntMax /\ c.count \in Nat /\ IntMax \in Nat
    BY <1>1, ProgramAssumption, FileSystemAssumption, LoggerAssumption DEF Call
  <2>2. c.fn \in {"write", "read", "fwrite"} => ret \in {-1, 0, c.count}
    BY <1>2 DEF Does, Fails, Succeeds, OpensOld, OpensNew, OpensTemporary, Closes, Reads, Writes, ChangesStatus,
                Removes, Renames, Opening
  <2> QED BY <2>1, <2>2 DEF Kept, ToInt
<1>4. /\ th'[t].pc = next /\ th'[t].call = c /\ th'[t].ret = ret
      /\ \A u \in Threads : u # t => th'[u] = th[u]
  BY <1>1, <1>2, <1>3 DEF CareInv, NamesInv, TypeOK, Thread
<1>5. callBar[t].pc = "called" /\ callBar[t].call = c
  BY <1>1, CallBarIs DEF Bar, Place
<1>6. callBar' = [callBar EXCEPT ![t].pc = "done", ![t].ret = ret]
  <2>1. callBar[t] = Bar(th[t]) /\ callBar' = [callBar EXCEPT ![t] = Bar(th'[t])]
    BY <1>4, CallBarIs, CallBarChanges
  <2>2. Place(next) = "done"
    BY DEF Place
  <2>3. Bar(th'[t]) = [pc |-> "done", call |-> c, ret |-> ret]
    BY <1>4, <2>2 DEF Bar
  <2> DEFINE a == Place(th[t].pc)
             b == th[t].ret
             s == [pc |-> "done", call |-> c, ret |-> b]
  <2>4. Bar(th[t]) = [pc |-> a, call |-> c, ret |-> b]
    BY DEF Bar
  <2> HIDE DEF a, b, c
  <2>5. s = [Bar(th[t]) EXCEPT !.pc = "done"]
    BY <2>4
  <2>6. [s EXCEPT !.ret = ret] = Bar(th'[t])
    BY <2>3
  <2> HIDE DEF s
  <2>7. Bar(th'[t]) = [Bar(th[t]) EXCEPT !.pc = "done", !.ret = ret]
    BY <2>5, <2>6
  <2> QED BY <2>1, <2>7
<1> HIDE DEF c
<1>7. Alone!Does(c, ret, err) /\ lines' = lines
  BY <1>1, <1>2, SimulateDoes
<1>8. logged' = logged
  <2>1. output_fd = -1 => ~logged /\ ~logged'
    BY <1>1, FdFacts DEF logged, IsOpen
  <2>2. logged => logged'
    BY <1>1, <1>2, CallKeepsLog DEF logged, IsOpen
  <2>3. logged \in BOOLEAN /\ logged' \in BOOLEAN
    BY DEF logged, IsOpen
  <2> QED BY <1>1, <2>1, <2>2, <2>3
<1>9. ret \in Alone!Results(c) /\ err \in Alone!Errnos
  BY <1>2 DEF Results, Alone!Results, Errnos, Alone!Errnos, Fd, Alone!Fd
<1>10. Alone!Do(t)
  BY <1>1, <1>5, <1>6, <1>7, <1>8, <1>9 DEF Alone!Do
<1> QED BY <1>10 DEF Alone!Next

LEMMA SimulateStep == CareInv /\ CareInv' /\ [CarefulNext]_vars => [Alone!Next]_Alone!vars
<1> SUFFICES ASSUME CareInv, CareInv', [CarefulNext]_vars PROVE Alone!Next \/ UNCHANGED Alone!vars
  OBVIOUS
<1>1. ASSUME NEW t \in Threads, CallsFunction(t) PROVE Alone!Next \/ UNCHANGED Alone!vars
  BY <1>1, StepKinds, SimulateEnter, SimulateReal, SimulateAfter, SimulateLog
<1>2. CASE UNCHANGED vars
  <2>1. UNCHANGED <<dir, fdt, content, streams, phase, output_fd, th>>
    BY <1>2 DEF vars, logVars, fsVars
  <2>2. contentBar' = contentBar /\ lines' = lines /\ callBar' = callBar /\ logged' = logged
    BY <2>1 DEF contentBar, lines, callBar, logged, IsOpen
  <2> QED BY <2>1, <2>2 DEF Alone!vars, Alone!fsVars
<1> QED BY <1>1, <1>2, SimulateLaunch DEF CarefulNext, Next

(* A careful program runs under the logger as alone, and its log is        *)
(* complete, for any number of threads, files and calls.                   *)
THEOREM LoggerInvisible == CarefulSpec => ImplementsFileCalls
<1>1. CareInv /\ CareInv' /\ [CarefulNext]_vars => [Alone!Next]_Alone!vars
  BY SimulateStep
<1> QED BY <1>1, SimulateInit, CareAlways, PTL DEF CarefulSpec, ImplementsFileCalls, Alone!Spec
=============================================================================
