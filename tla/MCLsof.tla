------------------------------- MODULE MCLsof -------------------------------
(* Three pids, four states of a process, two descriptors, three addresses, *)
(* five files, two of them with a blank in their names.                    *)
EXTENDS Lsof

CONSTANTS bin, lib, tty, log, tmp, x

F(file, flags) == [file |-> file, flags |-> flags]

Links3(cwd, exe) == [l \in Links |-> IF l = "exe" THEN exe ELSE cwd]

Maps3(first, second, third) == "a1" :> first @@ "a2" :> second @@ "a3" :> third

Shell  == [comm |-> "sh", uid |-> "0", denied |-> {}, link |-> Links3(lib, bin),
           maps |-> Maps3(bin, lib, bin),
           fds |-> ("0" :> F(tty, "2") @@ "1" :> F(log, "1"))]
Editor == [comm |-> "ed", uid |-> "0", denied |-> {"exe"}, link |-> Links3(tmp, bin),
           maps |-> Maps3(Anonymous, tmp, log),
           fds |-> ("0" :> NotOpen @@ "1" :> F(tty, "3"))]
Daemon == [comm |-> "sh", uid |-> "1", denied |-> Links \union {"maps", "fd"}, link |-> Links3(lib, bin),
           maps |-> Maps3(NotMapped, NotMapped, NotMapped), fds |-> ("0" :> F(log, "0") @@ "1" :> NotOpen)]
Stray  == [Editor EXCEPT !.uid = "7"]

MCProcesses == {Shell, Editor, Daemon, Stray}
MCFiles == {bin, lib, tty, log, tmp}
MCKind  == bin :> "S_IFREG" @@ lib :> "S_IFREG" @@ tty :> "S_IFCHR" @@ log :> "S_IFREG" @@ tmp :> "S_IFDIR"
MCNode  == bin :> "11" @@ lib :> "12" @@ tty :> "13" @@ log :> "14" @@ tmp :> "15"
MCUsers == "0" :> "root" @@ "1" :> "daemon"
MCRank  == "0" :> 1 @@ "1" :> 2 @@ "2" :> 3 @@ "3" :> 4 @@ "a1" :> 5 @@ "a2" :> 6 @@ "a3" :> 7

(* tmp and log are x, a blank, and more, with a "/" in that of log.        *)
MCWords   == {bin, lib, tty, x, log}
MCWordsIn == bin :> <<bin>> @@ lib :> <<lib>> @@ tty :> <<tty>> @@ log :> <<x, log>> @@ tmp :> <<x>>
             @@ Anonymous :> << >>

MCCommArgs == {{"sh", ""}, Invalid}
MCTypeArgs == {{"REG", "CHR"}, Invalid}
MCFileArgs == {{log, tty}, Invalid}
=============================================================================
