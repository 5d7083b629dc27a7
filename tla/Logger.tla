------------------------------- MODULE Logger -------------------------------
(***************************************************************************)
(* The logger of hw2: hw2.cpp, which opens the log and executes a program, *)
(* and logger.cpp, preloaded into it, whose functions stand in front of    *)
(* the C library's.                                                        *)
(*                                                                         *)
(* A thread of the program in one of these functions makes up to three     *)
(* system calls apart from the one it was asked for: it looks names up     *)
(* before or after the real call and then writes a line to the descriptor  *)
(* OUTPUT_FD.  Other threads run in between.                               *)
(***************************************************************************)
EXTENDS FileSystem

CONSTANTS
  Threads,
  LogName,    \* the argument of -o
  Terminal,   \* the file behind the standard descriptors
  Inherited,  \* which descriptors may be open when hw2 starts
  IntMax,     \* INT_MAX
  MaxCalls    \* bound of the calls the program makes

ASSUME LoggerAssumption ==
  /\ LogName \in Names
  /\ Terminal \in Files
  /\ Inherited \subseteq SUBSET Fd
  /\ 3 \in Fd
  /\ IntMax \in Nat \ {0}
  /\ MaxCalls \in Nat

VARIABLES
  phase,      \* hw2 itself, then the program, if it comes to that
  output_fd,  \* the environment variable OUTPUT_FD
  th,         \* the threads
  truth,      \* history: the files a call acted on, and whether it made the first
  calls       \* history: number of calls made

logVars == <<phase, output_fd, th, truth, calls>>
vars    == <<fsVars, logVars>>

(* A thread: where it is, the arguments of its call, the names it has      *)
(* looked up, what the real call returned and its errno, and the thread's  *)
(* errno.                                                                  *)
Thread == [pc : {"idle", "real", "after", "log"}, call : Call, name : Printed, to : Printed,
           ret : Int, err : Errnos, errno : Errnos]

Truth == [name : Printed, to : Printed, created : BOOLEAN, disturbed : BOOLEAN]

Lines == [by : Threads, fn : Fns, name : Printed, to : Printed, ret : Int]

TypeOK ==
  /\ dir \in [Names -> Files \union {NoFile}]
  /\ fdt \in [Fd -> Files \union {NoFile}]
  /\ content \in [Files -> [data : Seq(Nat), lines : Seq(Lines)]]
  /\ streams \subseteq Fd
  /\ phase \in {"launcher", "program", "ended"}
  /\ output_fd \in Fd \union {-1}
  /\ th \in [Threads -> Thread]
  /\ truth \in [Threads -> Truth]
  /\ calls \in 0 .. MaxCalls

NoCall  == [pc |-> "idle", call |-> FdCall("close", -1, 0), name |-> Nothing, to |-> Nothing,
            ret |-> 0, err |-> "none", errno |-> "none"]
NoTruth == [name |-> Nothing, to |-> Nothing, created |-> FALSE, disturbed |-> FALSE]

Init ==
  /\ dir = [n \in Names |-> NoFile]
  /\ \E open \in Inherited : fdt = [fd \in Fd |-> IF fd \in open THEN Terminal ELSE NoFile]
  /\ content = [f \in Files |-> Blank]
  /\ streams = {}
  /\ phase = "launcher"
  /\ output_fd = -1
  /\ th = [t \in Threads |-> NoCall]
  /\ truth = [t \in Threads |-> NoTruth]
  /\ calls = 0

-----------------------------------------------------------------------------
(* hw2.cpp.  execvp may fail, then all ends.                               *)
Executes == phase' \in {"program", "ended"}

LogCall == NamedCall("open", "truncate", LogName, NoName)

LaunchWithErrno ==
  /\ phase = "launcher"
  /\ \E ret \in Results(LogCall), err \in Errnos :
       Does(LogCall, ret, err) /\ output_fd' = IF err = "none" THEN ret ELSE -13
  /\ Executes
  /\ UNCHANGED <<th, truth, calls>>

(* With -o: the program runs also if the log cannot be opened.             *)
LaunchToFile ==
  /\ phase = "launcher"
  /\ \E ret \in Results(LogCall), err \in Errnos :
       Does(LogCall, ret, err) /\ output_fd' = ret
  /\ Executes
  /\ UNCHANGED <<th, truth, calls>>

(* Without: dup2(2, 3), whose result nobody checks.                        *)
LaunchToStderr ==
  /\ phase = "launcher"
  /\ fdt' = IF IsOpen(2) THEN [fdt EXCEPT ![3] = fdt[2]] ELSE fdt
  /\ output_fd' = 3
  /\ Executes
  /\ UNCHANGED <<dir, content, streams, th, truth, calls>>

(* An unknown option, or no command.                                       *)
LaunchRefused ==
  /\ phase = "launcher"
  /\ phase' = "ended"
  /\ UNCHANGED <<fsVars, output_fd, th, truth, calls>>

-----------------------------------------------------------------------------
(* A thread of the program calls c; name is what is looked up before the   *)
(* real call.  A program uses only streams that it has opened, closes the  *)
(* descriptor of a stream with the stream, and a stream when no other      *)
(* thread uses it.                                                         *)
Uses(t, fd) == th[t].pc # "idle" /\ th[t].call.fd = fd

Permitted(c) ==
  /\ c.fn \in OnStreams => c.fd \in streams
  /\ c.fn = "close" => c.fd \notin streams
  /\ c.fn \in OnStreams => \A u \in Threads : Uses(u, c.fd) =>
       c.fn # "fclose" /\ th[u].call.fn # "fclose"

Enter(t, c, name) ==
  /\ phase = "program"
  /\ th[t].pc = "idle"
  /\ calls < MaxCalls
  /\ Permitted(c)
  /\ th' = [th EXCEPT ![t] = [NoCall EXCEPT !.pc = "real", !.call = c, !.name = name]]
  /\ calls' = calls + 1
  /\ UNCHANGED <<fsVars, phase, output_fd, truth>>

(* What a function looks up of its arguments: the path of a name, what is  *)
(* behind a descriptor, the new name of rename.                            *)
Lookup(c) == IF c.name \in Names THEN realpath(c.name)
             ELSE IF c.fn \in OnDescriptors THEN readlink(c.fd) ELSE Nothing

LookupTo(c) == IF c.to \in Names THEN realpath(c.to) ELSE Nothing

Late(c) == IF c.fn = "rename" THEN LookupTo(c) ELSE Lookup(c)

(* The real call.  write, read and fwrite keep its result in an int.       *)
ToInt(n) == IF n <= IntMax THEN n ELSE n - 2 * (IntMax + 1)

Kept(fn, n) == IF fn \in {"write", "read", "fwrite"} THEN ToInt(n) ELSE n

(* The files a successful call acts on: those its names name, or what was  *)
(* behind its descriptor when it took effect.                              *)
TrueName(c) == IF c.name \in Names THEN Path(c.name)
               ELSE IF c.fn \in OnDescriptors THEN readlink(c.fd) ELSE Nothing

TrueTo(c) == IF c.to \in Names THEN Path(c.to) ELSE Nothing

(* Between lookup and call another thread has changed what the lookup gave.*)
Disturbs(u) ==
  LET c == th[u].call IN
  \/ /\ th[u].pc = "real"
     /\ c.fn \notin {"chmod", "creat", "chown", "read"}
     /\ Lookup(c)' # Lookup(c)
  \/ th[u].pc = "after" /\ Late(c)' # Late(c)

Real(t, next) ==
  LET c == th[t].call IN
  /\ th[t].pc = "real"
  /\ \E ret \in Results(c), err \in Errnos :
       /\ Does(c, ret, err)
       /\ th' = [th EXCEPT ![t].pc = next,
                           ![t].ret = Kept(c.fn, ret), ![t].err = err, ![t].errno = err]
  /\ truth' = [u \in Threads |->
       IF u = t THEN [truth[t] EXCEPT !.name = TrueName(c), !.to = TrueTo(c),
                                      !.created = c.name \in Names /\ ~Exists(c.name)]
       ELSE [truth[u] EXCEPT !.disturbed = @ \/ Disturbs(u)]]
  /\ UNCHANGED <<phase, output_fd, calls>>

(* A lookup after it.  One that fails sets errno, one that succeeds need   *)
(* not leave it alone.                                                     *)
After(t) ==
  LET c    == th[t].call
      late == Late(c)
  IN
  /\ th[t].pc = "after"
  /\ \E e \in IF late.kind \in {"untouched", "nothing"} THEN {"ENOENT"} ELSE {th[t].errno, "ENOENT"} :
       th' = [th EXCEPT ![t].pc = "log", ![t].errno = e,
                        ![t].name = IF c.fn = "rename" THEN @ ELSE late,
                        ![t].to = IF c.fn = "rename" THEN late ELSE @]
  /\ UNCHANGED <<fsVars, phase, output_fd, truth, calls>>

Line(t) == [by |-> t, fn |-> th[t].call.fn, name |-> th[t].name, to |-> th[t].to, ret |-> th[t].ret]

WritesSuccess(t) ==
  content' = IF IsOpen(output_fd) /\ th[t].err = "none"
             THEN [content EXCEPT ![fdt[output_fd]].lines = Append(@, Line(t))]
             ELSE content

WritesLine(t) ==
  content' = IF IsOpen(output_fd)
             THEN [content EXCEPT ![fdt[output_fd]].lines = Append(@, Line(t))]
             ELSE content

(* dprintf to OUTPUT_FD, whatever that is by now, and the return.          *)
Log(t) ==
  /\ th[t].pc = "log"
  /\ WritesLine(t)
  /\ th' = [th EXCEPT ![t].pc = "idle",
                      ![t].errno = IF IsOpen(output_fd) THEN @ ELSE "EBADF"]
  /\ truth' = [truth EXCEPT ![t] = NoTruth]
  /\ UNCHANGED <<dir, fdt, streams, phase, output_fd, calls>>

-----------------------------------------------------------------------------
(* The functions, all their steps: a lookup before the call, after it, or  *)
(* none; open64 and the like are as their namesakes.                       *)
CallsTo(fn) == {c \in Calls : c.fn = fn}

Within(t, fn) == th[t].call.fn = fn

LooksThenCalls(t, fn) ==
  \/ \E c \in CallsTo(fn) : Enter(t, c, Lookup(c))
  \/ Within(t, fn) /\ (Real(t, "log") \/ Log(t))

CallsThenLooks(t, fn) ==
  \/ \E c \in CallsTo(fn) : Enter(t, c, Nothing)
  \/ Within(t, fn) /\ (Real(t, "after") \/ After(t) \/ Log(t))

Chmod(t)  == CallsThenLooks(t, "chmod")
Creat(t)  == CallsThenLooks(t, "creat")
Chown(t)  == CallsThenLooks(t, "chown")
Read(t)   == CallsThenLooks(t, "read")

Open(t)   == LooksThenCalls(t, "open")
Write(t)  == LooksThenCalls(t, "write")
Fread(t)  == LooksThenCalls(t, "fread")
Fopen(t)  == LooksThenCalls(t, "fopen")
Fwrite(t) == LooksThenCalls(t, "fwrite")
Fclose(t) == LooksThenCalls(t, "fclose")

RemoveThenLook(t) == CallsThenLooks(t, "remove")

Remove(t) == LooksThenCalls(t, "remove")

CloseThenLook(t) == CallsThenLooks(t, "close")

Close(t) == LooksThenCalls(t, "close")

(* The old name before the call, the new one after it.                     *)
Rename(t) ==
  \/ \E c \in CallsTo("rename") : Enter(t, c, Lookup(c))
  \/ Within(t, "rename") /\ (Real(t, "after") \/ After(t) \/ Log(t))

Tmpfile(t) ==
  \/ \E c \in CallsTo("tmpfile") : Enter(t, c, Nothing)
  \/ Within(t, "tmpfile") /\ (Real(t, "log") \/ Log(t))

CallsFunction(t) ==
  \/ Chmod(t) \/ Creat(t) \/ Chown(t) \/ Remove(t) \/ Open(t) \/ Rename(t)
  \/ Write(t) \/ Read(t) \/ Close(t) \/ Fread(t)
  \/ Fopen(t) \/ Fwrite(t) \/ Fclose(t) \/ Tmpfile(t)

Next ==
  \/ LaunchToFile \/ LaunchToStderr \/ LaunchRefused
  \/ \E t \in Threads : CallsFunction(t)

Spec == Init /\ [][Next]_vars
=============================================================================
