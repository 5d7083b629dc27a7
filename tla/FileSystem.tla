----------------------------- MODULE FileSystem -----------------------------
(***************************************************************************)
(* Files, names and descriptors of one process: what the kernel and the C  *)
(* library promise to the calls that hw2/logger.cpp passes on.             *)
(*                                                                         *)
(* A name is a link of its own (no two names for one file, no symbolic     *)
(* links).  A stream is the descriptor under it; what stdio buffers counts *)
(* as written.  A pointer returned by fopen or tmpfile stands as the       *)
(* number of its descriptor, NULL as -1.                                   *)
(***************************************************************************)
EXTENDS Integers, Sequences

CONSTANTS
  Names,   \* file names the programs use
  NoName,
  Files,   \* files, linked or not
  NoFile,
  MaxFd,   \* the limit of open descriptors
  Calls    \* the calls the program makes, with their arguments

Fd == 0 .. MaxFd

VARIABLES
  dir,      \* the file behind each name
  fdt,      \* the file behind each descriptor
  content,  \* of each file what the program wrote and the lines of the logger
  streams   \* the descriptors that are streams

fsVars == <<dir, fdt, content, streams>>

Fns == {"open", "fopen", "creat", "tmpfile", "close", "fclose", "read", "fread",
        "write", "fwrite", "chmod", "chown", "remove", "rename"}

Opening       == {"open", "fopen", "creat"}
OnStreams     == {"fread", "fwrite", "fclose"}
OnDescriptors == {"close", "read", "write"} \union OnStreams

(* A call with its arguments; mode is what an opening call asks for.       *)
Call == [fn : Fns, mode : {"read", "create", "truncate", "none"},
         name : Names \union {NoName}, to : Names \union {NoName}, fd : Int, count : Nat]

ASSUME FileSystemAssumption ==
  /\ NoName \notin Names
  /\ NoFile \notin Files
  /\ MaxFd \in Nat
  /\ Calls \subseteq Call
  /\ \A c \in Calls : /\ c.name \in Names <=> c.fn \notin OnDescriptors \union {"tmpfile"}
                      /\ c.to \in Names <=> c.fn = "rename"

NamedCall(fn, mode, n, m) == [fn |-> fn, mode |-> mode, name |-> n, to |-> m, fd |-> -1, count |-> 0]

FdCall(fn, fd, k) == [fn |-> fn, mode |-> "none", name |-> NoName, to |-> NoName, fd |-> fd, count |-> k]

Blank == [data |-> << >>, lines |-> << >>]

IsOpen(fd)   == fd \in Fd /\ fdt[fd] # NoFile
Exists(n)    == n \in Names /\ dir[n] # NoFile
FreeFds      == {fd \in Fd : fdt[fd] = NoFile}
LowestFd(fd) == fd \in FreeFds /\ \A g \in FreeFds : fd <= g
Unused(f)    == f \in Files /\ (\A n \in Names : dir[n] # f) /\ (\A fd \in Fd : fdt[fd] # f)

-----------------------------------------------------------------------------
(* realpath(3): the absolute path of a name, or the name untouched.        *)
Nothing      == [kind |-> "nothing", name |-> NoName]
Path(n)      == [kind |-> "path", name |-> n]
Untouched(n) == [kind |-> "untouched", name |-> n]
Deleted      == [kind |-> "deleted", name |-> NoName]

Printed == [kind : {"nothing", "path", "untouched", "deleted"}, name : Names \union {NoName}]

realpath(n) == IF Exists(n) THEN Path(n) ELSE Untouched(n)

(* readlink of /proc/self/fd: the name the open file has now, if any.      *)
readlink(fd) ==
  IF ~IsOpen(fd) THEN Nothing
  ELSE IF \E n \in Names : dir[n] = fdt[fd]
       THEN Path(CHOOSE n \in Names : dir[n] = fdt[fd])
       ELSE Deleted

-----------------------------------------------------------------------------
(* The calls.  ret is what a successful call returns.                      *)
OpensOld(c, ret) ==
  /\ c.fn \in Opening
  /\ Exists(c.name)
  /\ LowestFd(ret)
  /\ fdt' = [fdt EXCEPT ![ret] = dir[c.name]]
  /\ content' = IF c.mode = "truncate" THEN [content EXCEPT ![dir[c.name]] = Blank] ELSE content
  /\ streams' = IF c.fn = "fopen" THEN streams \union {ret} ELSE streams
  /\ UNCHANGED dir

OpensNew(c, ret) ==
  /\ c.fn \in Opening
  /\ c.name \in Names /\ ~Exists(c.name) /\ c.mode # "read"
  /\ LowestFd(ret)
  /\ \E f \in Files :
       /\ Unused(f)
       /\ dir' = [dir EXCEPT ![c.name] = f]
       /\ fdt' = [fdt EXCEPT ![ret] = f]
       /\ content' = [content EXCEPT ![f] = Blank]
  /\ streams' = IF c.fn = "fopen" THEN streams \union {ret} ELSE streams

OpensTemporary(c, ret) ==
  /\ c.fn = "tmpfile"
  /\ LowestFd(ret)
  /\ \E f \in Files :
       /\ Unused(f)
       /\ fdt' = [fdt EXCEPT ![ret] = f]
       /\ content' = [content EXCEPT ![f] = Blank]
  /\ streams' = streams \union {ret}
  /\ UNCHANGED dir

Closes(c, ret) ==
  /\ c.fn \in {"close", "fclose"}
  /\ IsOpen(c.fd) /\ ret = 0
  /\ fdt' = [fdt EXCEPT ![c.fd] = NoFile]
  /\ streams' = streams \ {c.fd}
  /\ UNCHANGED <<dir, content>>

Reads(c, ret) ==
  /\ c.fn \in {"read", "fread"}
  /\ IsOpen(c.fd) /\ ret \in {0, c.count}
  /\ UNCHANGED fsVars

Writes(c, ret) ==
  /\ c.fn \in {"write", "fwrite"}
  /\ IsOpen(c.fd) /\ ret = c.count
  /\ content' = [content EXCEPT ![fdt[c.fd]].data = Append(@, c.count)]
  /\ UNCHANGED <<dir, fdt, streams>>

ChangesStatus(c, ret) ==
  /\ c.fn \in {"chmod", "chown"}
  /\ Exists(c.name) /\ ret = 0
  /\ UNCHANGED fsVars

Removes(c, ret) ==
  /\ c.fn = "remove"
  /\ Exists(c.name) /\ ret = 0
  /\ dir' = [dir EXCEPT ![c.name] = NoFile]
  /\ UNCHANGED <<fdt, content, streams>>

Renames(c, ret) ==
  /\ c.fn = "rename"
  /\ Exists(c.name) /\ c.to \in Names /\ ret = 0
  /\ dir' = [n \in Names |-> IF n = c.to THEN dir[c.name]
                             ELSE IF n = c.name THEN NoFile ELSE dir[n]]
  /\ UNCHANGED <<fdt, content, streams>>

Succeeds(c, ret) ==
  \/ OpensOld(c, ret) \/ OpensNew(c, ret) \/ OpensTemporary(c, ret)
  \/ Closes(c, ret) \/ Reads(c, ret) \/ Writes(c, ret)
  \/ ChangesStatus(c, ret) \/ Removes(c, ret) \/ Renames(c, ret)

Results(c) == Fd \union {-1, 0, c.count}

Errnos == {"none", "EACCES", "ENOENT", "EBADF", "EMFILE"}

(* Permission may fail for any name; the other errors have their cause.    *)
Fails(c, err) ==
  /\ \/ err = "EACCES" /\ c.name # NoName
     \/ err = "ENOENT" /\ c.name # NoName /\ ~Exists(c.name) /\ c.mode \in {"read", "none"}
     \/ err = "EMFILE" /\ c.fn \in Opening \union {"tmpfile"} /\ FreeFds = {}
     \/ err = "EBADF" /\ c.fn \in OnDescriptors /\ ~IsOpen(c.fd)
     \/ err = "EACCES" /\ c.fn \in Opening \union {"tmpfile"} /\ ~\E f \in Files : Unused(f)
  /\ UNCHANGED fsVars

(* The call c returns ret, with errno err if it fails.                     *)
Does(c, ret, err) ==
  \/ Succeeds(c, ret) /\ err = "none"
  \/ Fails(c, err) /\ ret = -1
=============================================================================
