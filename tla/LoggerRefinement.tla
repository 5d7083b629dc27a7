-------------------------- MODULE LoggerRefinement --------------------------
(***************************************************************************)
(* When logger.so is invisible to the program it logs and its log is       *)
(* complete: it implements FileCalls, used with care.  Careful names the   *)
(* care.                                                                   *)
(***************************************************************************)
EXTENDS Logger

(* Descriptor 2 is open and 3 is not: dup2(2, 3) closes what it finds.     *)
StandardDescriptors == \A fds \in Inherited : 2 \in fds /\ 3 \notin fds

(* The program leaves alone the descriptor and the name of the log, and    *)
(* its fwrite calls write no more items than an int counts.                *)
ASSUME ProgramAssumption ==
  /\ StandardDescriptors
  /\ \A c \in Calls : c.name # LogName /\ c.to # LogName /\ c.count <= IntMax

LeavesLogAlone == \A t \in Threads :
  th'[t].pc # "idle" /\ th'[t].call.fn \in OnDescriptors => th'[t].call.fd # output_fd

CarefulNext == Next /\ LeavesLogAlone

CarefulSpec == Init /\ [][CarefulNext]_vars

-----------------------------------------------------------------------------
(* The refinement mapping: the lines in the file behind OUTPUT_FD are the  *)
(* log and no content of the file.  A call between its real call and its   *)
(* line has been done.                                                     *)
logged == IsOpen(output_fd)

contentBar ==
  [f \in Files |-> IF logged /\ f = fdt[output_fd] THEN [content[f] EXCEPT !.lines = << >>]
                   ELSE content[f]]

lines == IF logged THEN content[fdt[output_fd]].lines ELSE << >>

callBar ==
  [t \in Threads |->
    [pc   |-> CASE th[t].pc = "idle" -> "idle"
                [] th[t].pc = "real" -> "called"
                [] OTHER             -> "done",
     call |-> th[t].call, ret |-> th[t].ret]]

Alone == INSTANCE FileCalls WITH
  content <- contentBar,
  logging <- logged,
  call    <- callBar,
  log     <- [i \in 1 .. Len(lines) |-> [by |-> lines[i].by, fn |-> lines[i].fn, ret |-> lines[i].ret]]

(* A program that is logged makes its calls as if alone, whatever its      *)
(* threads do between the lookups, the real call and the line: the same    *)
(* files, descriptors, contents and results.  Each call that returns adds  *)
(* one line with its result to the log, in the order of the returns, and   *)
(* nothing else goes there; a log that cannot be opened stays empty.       *)
ImplementsFileCalls == Alone!Spec

(* A successful call is logged with the real names of the files it acted   *)
(* on, unless another thread changed just these between lookup and call:   *)
(* close, fclose, remove and rename look before the name or descriptor is  *)
(* gone, creat and rename look after the name is there. open and fopen     *)
(* look before: a file that they create is logged as the program wrote it. *)
LoggedName(t) ==
  IF truth[t].created /\ th[t].call.fn \in {"open", "fopen"}
  THEN Untouched(th[t].call.name) ELSE truth[t].name

NamesTrue == \A t \in Threads :
  th[t].pc = "log" /\ th[t].err = "none" /\ ~truth[t].disturbed =>
    th[t].name = LoggedName(t) /\ th[t].to = truth[t].to

(* A failed call reports its own error, not that of a lookup or of the     *)
(* log. chmod, creat, chown, read and rename, which look their names up    *)
(* after the call, do not promise that.                                    *)
ErrnoKept == \A t \in Threads :
  /\ phase = "program" /\ logged
  /\ th[t].pc = "idle" /\ th[t].err # "none"
  /\ th[t].call.fn \in {"open", "fopen", "tmpfile", "remove", "write", "close", "fread", "fwrite", "fclose"}
  => th[t].errno = th[t].err
=============================================================================
