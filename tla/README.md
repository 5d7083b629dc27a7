# Verification of NCTU-UNIX-Programming

TLA+ models of the programs of this repository, the TLC configurations that
check them on small instances, and proofs of their main invariants that TLAPS
checks for every instance. This page says which part of the code each module
models, what each run and each theorem shows, and what is left.

## 1. The system

Four independent homeworks. Paths are relative to `src/`.

| Part | Code | Modelled |
|---|---|---|
| debugger `sdb` | `hw4/sdb.cpp`, `hw4/sdb.h` | `Tracee`, `Sdb`, `SdbHistory`, `DebugService` |
| its file readers | `hw4/ptools.cpp` | `Ptools` |
| C library `libmini`, signals | `hw3/libmini.c`, `hw3/libmini64.asm`, `hw3/libmini.h` | `KernelSignals`, `LibMini`, `PosixSignals`, `SigSetOps`, `SigSet` |
| its sample programs | `hw3/alarm1.c`, `alarm2.c`, `alarm3.c`, `jmp1.c`, `start.asm` | `MiniPrograms` |
| file activity `logger` | `hw2/logger.cpp`, `hw2/hw2.cpp` | `FileSystem`, `Logger`, `FileCalls`, `LoggerRefinement` |
| `lsof` | `hw1/hw1.cpp` | `ProcFs`, `Lsof` |

`M` is checked by the instances in `MCM` and proved about in `MProofs`, where
there is such a module.

### sdb, a breakpoint debugger (hw4)

*State.* `info` (state NOLOAD / LOADED / RUNNING, path, entry, size, the
breakpoint list `bp_vec` of address and saved byte), the static `bp_restore`
(the breakpoint that the next `cont` must step over), the static
`orig_instructions` (the disassembly), and the tracee: a process the kernel
stops and resumes, whose text the debugger patches with `int3`.

*Operations.* One function per command: `load`, `start`, `run`, `cont`, `si`,
`set_bp`, `del_bp`, `set`, `quit`, and printing ones. A command that resumes
the tracee returns after one or two `waitpid` calls.

*What is hard.* Between two waits the tracee may hit any breakpoint, stop by a
signal, exit, or be killed; a SIGKILL may even come while it is stopped. `cont`
from a hit breakpoint takes three resumptions' worth of state across calls
(`bp_restore`), and every other command may come between. Two statics outlive
the process they describe.

*Correct when* breakpoints that are listed are armed and never passed unseen,
patches are undone exactly, a program under the debugger executes its own
instructions only, the debugger never waits for nothing, and no tracee outlives
it.

### libmini, signals for a small C library (hw3)

*State.* `errno`; the user's `jmp_buf`; in the kernel the mask, the pending
signals, the actions, the alarm timer; on the stack one frame per running
handler.

*Operations.* `sigprocmask`, `sigpending`, `sigaction`, `signal`, `pause`,
`sleep`, `alarm`, `setjmp`, `longjmp`, the `sigset_t` functions, `perror`, and
some thirty wrappers that turn a negative result into `errno`.

*What is hard.* A handler may interrupt the program between any two system
calls, call the same library, nest, return, or jump out and never return.
`sigaction` makes two system calls and keeps locals across them.

*Correct when* masks and actions are what the standard C library would have
made them (the README's promise), a handler that did not ask for it is never
entered again while it runs, and `sigset_t` words mean the sets that were built.

### ptools, the debugger's file readers (hw4)

*State.* `elf_info_t` of the loaded file; per `vmmap` a `std::map` from ranges
to entries, a line buffer and a vector of pointers into it.

*Operations.* `elf_read` (for `load`), `load_maps` (for `vmmap`), `operator<`.

*What is hard.* The map's order is not an order on ranges in general; a pointer
to the last field of a line outlives its line; long lines come in two parts;
no file is closed.

*Correct when* each mapping is shown once, with its own fields.

### logger, the file activity of a program (hw2)

*State.* The environment variable `OUTPUT_FD`; the program's descriptors, names,
files and streams; per thread the call in progress and `errno`.

*Operations.* `hw2.cpp` opens the log and executes the program. Preloaded into
it, `logger.cpp` interposes fourteen functions (and their `64` namesakes): each
looks names up, makes the real call, writes one line to `OUTPUT_FD`, returns.

*What is hard.* Other threads run between the lookups, the call and the line;
functions differ in what they look up before the call and what after it; the
lookups and the line change `errno`; the log shares the descriptors of the
program; results are narrowed to `int`.

*Correct when* the program is served as if it were alone, and every call that
returns is logged once, with its own result, its own names and its own error.

### lsof, one pass over /proc (hw1)

*State.* `pid_list`, the vector `lsof` of processes and their lines, the options.

*Operations.* `scandir`; per process `get_comm`, `get_uid`, `get_username`,
`get_cwd`, `get_root`, `get_exe`, `get_mem`, `get_fd`; then `search_comm`,
`search_type`, `search_file`, which erase from the vectors they run over.

*What is hard.* Every field is read by a system call of its own while processes
end, start and change; failed calls leave buffers as they were; no directory is
closed.

*Correct when* a process that holds still is shown as it is, whatever the others
do, and the options select exactly what they name.

The hazards of all four, each at its line and with the properties that cover
it, are in `PROJECT.json`.

## 2. The debugger

### `Tracee`: process, kernel and processor

External: what `ptrace(2)` and `waitpid(2)` promise to `sdb.cpp`. A text
segment is a function from addresses to bytes; an executable (`Image`) says
where instructions begin, how long they are and where they may continue. A
resumed process executes one instruction per step. Where the bytes of the
instruction are intact it executes it; at `0xcc` it traps with `rip` one byte
later; on anything else it *derails*: it may go anywhere, fault or end.

`Faults` lists what the environment may do at any moment: a stopping signal, a
SIGKILL, an `exec` that fails, the death of the debugger.

### `Sdb`: the commands

One variable per static or field, under the source's names. `pc` is the one
point where the debugger waits: `wait_exec` (start), `sweep` (the loop of
`get_orig_code`), `wait_step` and `wait_cont` (cont), `wait_si` (si); `exit` is
the end by `quit`, `errquit`, the assertion or a signal. Between two such
points the debugger's requests are one action: the tracee is stopped, so nothing
but a SIGKILL can intervene, and that one can be ordered before or after except
where a status read by `waitpid` is older than the kill; those cases are
disjuncts of their own (`StartReturns`, `ContKilled`).

Abstractions: a PEEKTEXT/POKETEXT word is one byte, so the eight-byte access at
the end of a mapping is not told apart; capstone is `Image.len`; only `rip` is
modelled of the registers; `get`, `getregs` and `dump` appear where a failed
request ends the debugger.

`SdbHistory` adds two variables that restrict no step: `inherited`, what a process
finds in `bp_restore`, and `reported`, the hits that `cont` has reported and the
tracee has not yet gone past. Two of the properties are about them.

### `DebugService`, `SdbRefinement`: what a user is promised

`DebugService` has no `int3`, no saved bytes and no waits: a program, its next
instruction, a set of breakpoints, the last hit. `SdbRefinement` maps `Sdb` to
it. The mapping exists for a *careful* user: breakpoints and `set rip` only at
instructions that were disassembled, `si` never at a breakpoint, no signal for a
program one byte behind a breakpoint. `ProgramAssumption` excludes programs with
overlapping instructions or an `int3` of their own. Each condition names
something the code does not do (section 8), or is a limit of every patching
debugger.

### `Ptools`: executables and memory maps

`elf_read` is one action; which of its checks fails is a property of the file
(`ElfFile`), and so is what it does not check: `flaws` says whether the section
headers can be read, `e_shstrndx` is a section, `sh_size` fits into file and
stack, the names lie in their table. With a flaw, `elf_read` may crash, and may
otherwise find a `.text` or none, with any size. `Vmmap` opens the maps, `ReadLine` is one turn of the loop of
`load_maps`, `ReadRest` the turn that takes the rest of a line longer than `buf`
for a line. `args5` is where `args[5]` points: a line without a name does not
set it, so `SixthField` is the name of an earlier line (still in `buf`) or
anything. `Put` is insertion by `operator<`, where two ranges neither of which is
less are one key. `strtoll` stops at `LLONG_MAX`, so the one line of the upper half
that the kernel writes, `[vsyscall]` (an assumption, `IsMaps`), is kept as
7fffffffffffffff to 7fffffffffffffff; `FirstWord` is what `strtok_r` leaves of a name with
a blank. The maps do not change during a `vmmap`, since the tracee is
stopped; between two they may. The offset column is left out, and so is the
printing: `vmmap` prints its `char perm[3]`, which has no end, with `%s`
(`sdb.cpp:494-506`). In `Sdb` the
result of `elf_read` is the constant `Image` and its failure `LoadFails`.

### Runs

| Run | Checks | Instance |
|---|---|---|
| `sdb_safety` | `TypeOK Armed UniqueBps TextSync RestoreListed OneStray WaitsAnswered NoOrphan`, `PassesReported CommandsAdvance SweepEnds NeverStuck` | two executables, two sessions, every command and fault |
| `sdb_service` | `OwnInstructions`, `ImplementsService` | careful user, two executables, every fault |
| `sdb_claim_relist` | a counterexample (`SdbClaims`), section 8 | as small as it needs |
| `ptools` | `TypeOK EntryPerLine UndefinedNeedsCause` | seven files, memories of up to four mappings |

*Bounds.* Four text bytes hold a one-byte instruction, a two-byte one, a branch
and an exit, so an address may be an instruction, the inside of one, or
unmapped (0, 5, 6). The two executables differ in where instructions begin,
because stale state of the first is wrong for the second; "p" has code before
its entry point and a `.text` that ends beyond the mapping, as real ones do.
Two sessions are the least that show a static surviving; a third adds nothing
that the second has not (nothing counts sessions). `TextSync` and `RestoreListed` are asked
of the first session only, since `bp_restore` breaks them in the second (finding
`sdb_claim_relist`); all others are asked of every session. `OneStray` is what is
left of `TextSync` then: only the address that was in `bp_restore` at the fork is
astray, throughout the session, however many processes came before.
`PassesReported` counts reports against passes: what is at a listed breakpoint runs
once for each hit that `cont` reported. The breakpoint inherited in `bp_restore`
is the exception, and the property grants it one pass a process: `cont` steps over
it although this process has never hit it. Hits that are not reported at all (an
`int3` that `si` runs into, or `cont` outside of the disassembly) stop the tracee
before the instruction, and are no passes. `WaitsAnswered` says that no `waitpid` is called for a process that
has nothing to report and never will. `CommandsAdvance` ranks what a command has
ahead (stages, addresses of the sweep, what the child may still do) and says that
every step lowers it, but for a tracee that runs on under `cont`. For `ptools`, five addresses below `MaxLong` give neighbours, gaps
and ranges of every relation that the kernel can show, two above it a line that
`strtoll` changes; three lines let a name be
inherited, kept and replaced; two files let `vmmap` fail after one success.

*Fairness.* The scheduler runs a resumed tracee and lets a completed `exec` and
`waitpid` return. Nothing makes the user type or the environment send signals.
`NeverStuck` therefore allows a tracee that runs for ever.

## 3. The library

### `KernelSignals`: the kernel's side

External: masks, pending set (a posted signal pending already is lost, as for
all standard signals), actions, delivery, the frame that `rt_sigreturn` pops,
the alarm and sleep clocks. A signal is delivered when it is pending and not
blocked, before the process's next step; the default action kills. `sleep`
reports whole seconds, so the remainder after an interruption is the clock's or
one less. Of `sa_flags` those are modelled that change what a delivery does
here: `SA_NODEFER` leaves the handler's own signal open, `SA_RESETHAND` gives
the signal its default action back, and without `SA_RESTORER` and its restorer
there is no frame to return through and the process dies (of SIGSEGV, which is
not among the modelled signals). The others change nothing in these calls:
`pause` and `nanosleep` do not restart with `SA_RESTART`, there are no children,
no second stack, and handlers do not look at a `siginfo_t`.

### `LibMini`: the functions

`ctx` is what a handler interrupts: user code with the result of its last call,
or a call in progress with its parameters and locals. Handlers run between a
system call and the wrapper that reads its result, between the two system calls
of `sigaction` and `signal`, and inside `pause` and `sleep`. Handlers call
everything main calls.

What is uninitialised in C is chosen freely: `sa_mask` in `signal` (`Garbage`),
`kact` in a query, handler, mask, flags and restorer (`GarbageHandlers`,
`Garbage`, `GarbageFlags`), and `oact` in `signal`. The flags a program asks for
go through with the restorer's flag added (`libmini.c:360`). `sigaction` passes
`&oact`, so the kernel writes the old action over `sigaction`'s own parameters
and dead locals, which nothing reads afterwards; only that the caller gets
nothing is modelled. `setjmp` and `longjmp` pass a `sigset_t` size of 32, which
the kernel refuses; `MaskAfter` says so.

Abstractions: `setjmp` and `longjmp` are atomic; a jump is only to a frame that
still exists (others are undefined in C); `sigprocmask` with a null set is left
out; the file and process wrappers are one action, a system call with any
result.

### `PosixSignals`, `LibMiniRefinement`: the API of the standard C library

`PosixSignals` is what `hw3/README.md` promises: `sigaction` changes one action,
to the handler, mask and flags asked for, and nothing else; `longjmp` restores the mask
of `setjmp`. `ImplementsPosix` shows the library does this for a program that
asks, as mask of a handler, for the mask it has itself, never queries, and jumps
only under the mask of its `setjmp`. `sigaction` is two steps in both, since
handlers run in between. What `sigprocmask` makes of the mask is left open
there: it is one system call with the program's own arguments. Of the sample programs `alarm3` is not careful: its
`signal` blocks what an uninitialised `sa_mask` holds; the others are.

### `SigSetOps`, `SigSet`, `MiniPrograms`

`SigSetOps` are the five functions on the bits of one word, shift counts taken
modulo the word as the processor does. `SigSet` runs them beside the set that is
meant. `MiniPrograms` runs the four sample programs on `LibMini`, with `SigSetOps`
for their sets and a ^C at any moment. `ArgumentsAssumption` says that what the
programs pass is among the arguments `LibMini` considers; then they are programs
as `LibMini` means them (`ProgramsUseLibrary`), and what is proved of the library
holds for them.

### Runs

| Run | Checks | Instance |
|---|---|---|
| `libmini` | `TypeOK MasksNest NoReentry` | programs that only block; SIGINT and SIGALRM; `SA_NODEFER` asked for; an uninitialised mask that holds SIGINT; two deep |
| `libmini_posix` | `ImplementsPosix` | the careful program; `SA_NODEFER` with `SA_RESETHAND`; a number out of range; two deep |
| `sigset` | `MembersAgree` | word of 8 bits, `sigaddset` out of range at both ends |
| `programs` | `DeathByAlarm PendingReported JumpsInOrder`, `ProgramsEnd` | the four programs, real numbers, 64 bits |
| `longjmp_claim_mask` | a counterexample, section 8 | as small as it needs |

*Bounds.* `MaxDepth` bounds handlers running and signals pending together.
Two are enough for a handler inside a handler, for a jump that leaves one of
them, for a handler between the two system calls of `sigaction`, and for a
handler to be entered again if a call unblocked its signal. `MasksNest` is about
neighbours on the stack, so deeper stacks repeat it, and the theorems of section
6 are for any depth. Seconds matter in `programs` only, where they are the real
ones; `libmini` has none, so that the clock does not multiply the states, and no
`Errors` of the plain wrappers: its one error is the `EINTR` of `pause`.
The word of the `sigset` run has 8 bits
for the number of states; the code depends on the width only through the shift,
and the theorem is for any width.

*Programs that only block.* `MasksNest` is no property of a program that
unblocks signals in a handler on purpose; so `Hows` is `{SIG_BLOCK}` there, and
the property says that no *library function* takes a signal off the mask: not
`sigaction`, which sets the mask as a side effect, not `longjmp`.

*Fairness.* The processor runs the program, the kernel delivers, time passes
(`PFairSpec`). No signal from outside is assumed: `ProgramsEnd` asks of `alarm3`
only that it ends after a ^C that is not blocked has reached its `pause`.

## 4. The logger

### `FileSystem`: the kernel and the C library

External: names, files, descriptors, streams, what the fourteen calls do to them,
their errors, `realpath`, and `readlink` of `/proc/self/fd`. A name is a link of
its own (no hard or symbolic links), a stream is its descriptor, what stdio
buffers counts as written, a read or a write is complete or returns 0 at the end
of the file. `Permitted` is C's condition on programs: streams are used when open
and not while another thread closes them.

### `Logger`: launcher and library

`LaunchToFile`, `LaunchToStderr` and `LaunchRefused` are `main` of `hw2.cpp`;
its `open` may fail and its `dup2(2, 3)` is not checked. Then every thread of the
program goes through the steps of the function it is in:

| Step | Code |
|---|---|
| `Enter` | the arguments, and the lookups before the call |
| `Real` | the call that `dlsym` found, its result kept in `int` where the code does (`Kept`) |
| `After` | the lookups after the call, which may set `errno` |
| `Log` | the `dprintf` to `OUTPUT_FD`, whatever is behind it by then, and the return |

One action per function says which of these it has (`Chmod` to `Tmpfile`).
Threads interleave between the steps. Lookup and entry are one step, as are line
and return: the moment between them is the thread's own. `truth` is history:
the files the real call acted on (the paths of its names, or what was behind its
descriptor), whether it made the first, and whether another thread changed what
is looked up between lookup and call.

Left out: the bytes a line shows (`checkbuf`), a resolved path that overflows
`char resolved_path[200]`, a NULL path, the formats, `clearenv`; that
`LD_PRELOAD` works is assumed.

### `FileCalls`, `LoggerRefinement`: monitoring that nobody notices

`FileCalls` is the program alone: calls that take effect at one moment on the
same `FileSystem`, and a log outside of it. In the mapping the lines in the file
behind `OUTPUT_FD` are the log and are no content of the file, and a call between
its real call and its line is done. It exists for a careful program
(`ProgramAssumption`, `LeavesLogAlone`): it does not touch the name or the
descriptor of the log, `fwrite` writes no more items than an `int` counts, and
the launcher is started with descriptor 2 open and 3 not.

`NamesTrue` is what the sides of the lookups are for: `close` must look up before
the call, `creat` after it. The name it compares with does not depend on the side
the code takes. `open` and `fopen` take the wrong one for a file they create,
which `LoggedName` says: such a file is logged as the program wrote it (see 8). `ErrnoKept` is promised for the nine functions that
look up before the call only.

### Run

| Run | Checks | Instance |
|---|---|---|
| `logger` | `TypeOK NamesTrue ErrnoKept`, `ImplementsFileCalls` | two threads, three calls in all of fourteen functions |

*Bounds.* Two threads are what an interleaving needs: all properties are about
one thread and what changes under it. Three calls let one thread open a file and
the other change it between the lookup and the call of a third. Three files
beside the terminal are the log and one for each other name or a deleted one;
six descriptors are the standard ones, the log and two, so that opening meets the
limit. `IntMax` is 1, the count of the reads and writes, so a narrowing that is
one off shows. No fairness and no liveness: a program calls what it likes.

## 5. lsof

### `ProcFs`: what /proc shows

External: a process is what its directory shows (name, uid, links, maps,
descriptors) and `denied`, what of it `access` refuses to this user. That is a set,
not a flag: `access` follows a link, so a working directory that cannot be read,
or the missing program of a kernel thread, refuses one link and no other. `Change`
replaces a process, at any moment, by another state or process or by nothing.

### `Lsof`: the walk

One step per system call: `GetComm`, `GetUsername`, for each of the three links
`access`, `readlink` and `stat`, for the maps `access`, each piece of the file and
a `stat` per name, for the descriptors `access`, `opendir`, each piece of the
directory and per entry `stat`, `readlink` and `fdinfo`. `sb` and `buf` are the
buffers of these functions, with `Garbage` where C has nothing and, in `get_fd`,
the values of the descriptor before. The search loops are one step per turn.

Neither `maps` nor the directory of descriptors is read at one moment: `getline`
and `readdir` ask the kernel again when their buffer is used up. `ReadMaps` and
`Readdir` take any piece of what the process has there now beyond `at`, where the
last piece ended; `MapsEnd` and `ReaddirEnds` find nothing more (or the process
replaced). A line of maps is cut at its blanks, and each word with a "/" in it is
a name: `WordsIn` has the words of each mapping, so a file with a blank in its name
is shown in parts and two such files may be one.

Four things end the program (`crashed`): a `scandir` that fails makes a vector of
-1 elements (`ScandirFails`); a uid without a name is a null pointer
(`GetUsername`); so is a directory that does not open (`Opendir`); an option that
is no REGEX (`Invalid`) is an exception nobody catches (`SearchComm`,
`SearchDesc`). No directory is ever closed: after `MaxDirs` of them no descriptor
is left (`HasDescriptor`), and neither `comm`, the user data base, `fdinfo` nor the
next directory can be opened.

`touched` and `collected` are history: whether the process being read has
changed since its first read, and what the scan had before the search.

`Faithful` is the point of the program: a process that did not change under the
scan is shown exactly as it is, each line once, although buffers and failed calls
of the processes before it are still around, and whichever of its links, maps and
descriptors are refused; it holds while a descriptor is left. `CrashNeedsCause` is
about steps: what ended the program must be there at that moment. `SearchExact` says what three loops that
erase from the vectors they run over must leave. `Advances` ranks the states: a
tuple of six naturals (phases, processes, places or lines, numbers not listed yet,
entries, calls still ahead) is lowered lexicographically by every step of `lsof`
and left alone by every change of a process. A process that grows is read for
longer, but only on towards higher addresses and descriptor numbers, which the
tuple counts from the start. An option is the set of names it matches, or
`Invalid`; regular expressions are data.

### Runs

| Run | Checks | Instance |
|---|---|---|
| `lsof` | `TypeOK Faithful SearchExact`, `CrashNeedsCause Advances Terminates` | three pids, four process states, three addresses, two descriptors, one change |
| `lsof_claim_mem` | a counterexample, section 8 | the same |

*Bounds.* The four states are one that shows everything, one whose program alone
is refused, one with a uid without a name, one that shows nothing; two files have a
blank in their names and share their first word, so each branch is taken. Three
processes let the middle one leave buffers to the next and receive them from the
one before; `MaxDirs` 2 lets the third find no descriptor. Three addresses and two
descriptors are listed in every number of pieces. One change at any moment
suffices for `Faithful` and `CrashNeedsCause`, which are about whether there was
one at all; the theorems are for any number. Of each option a set that matches
some and not others, or none that is a REGEX: lines of three processes give the
search loops every pattern of neighbours to erase.

*Fairness.* The scheduler runs `lsof` (`WF_vars(Step)`); nothing makes processes
change. A change can add entries to a list in hand, but never before `at`, so it
cannot keep a loop going (`Advances`).

## 6. Proofs

All for any values of the constants that the named assumptions allow
(`TraceeAssumption`, `SdbAssumption`, `KernelAssumption`, `LibMiniAssumption`,
`NSIGAssumption`, `SigSetAssumption`, `ProcFsAssumption`, `LsofAssumption`,
`FileSystemAssumption`, `LoggerAssumption`, `ProgramAssumption`,
`PtoolsAssumption`, `ProgramsAssumption`, `ArgumentsAssumption`).

| Theorem | States |
|---|---|
| `SdbProofs!TypeCorrect` | `[]TypeOK` |
| `SdbProofs!BreakpointsArmed`, `BreakpointsUnique` | `Armed`, `UniqueBps` |
| `SdbProofs!PassesAreReported` | `HSpec => PassesReported` |
| `SdbProofs!TraceeDiesWithDebugger` | `NoOrphan` |
| `SdbProofs!TextInSync`, `RestoreIsListed` | `TextSync`, `RestoreListed` |
| `SdbProofs!AtMostOneStray`, `EveryWaitIsAnswered` | `HSpec => []OneStray`, `WaitsAnswered`, for any number of sessions |
| `SdbProofs!EveryCommandAdvances` | `Spec => CommandsAdvance` |
| `SdbProofs!PatchesListedAtFirst` | `[]PatchesAreListed`, if `MaxSessions <= 1`: the claim of `sdb_claim_relist` holds until a second process |
| `SdbRefinementProofs!DebuggerIsTransparent`, `OnlyOwnInstructions` | `CarefulSpec => ImplementsService`, `CarefulSpec => []OwnInstructions`, if `MaxSessions <= 1` |
| `LibMiniProofs!TypeCorrect` | `[]TypeOK` |
| `LibMiniProofs!HandlersKeepMasks`, `HandlersNotReentered` | `MasksNest`, `NoReentry`, if `Hows \subseteq {SIG_BLOCK}` |
| `LibMiniProofs!LibraryIsPosix` | `CarefulSpec => ImplementsPosix`, if `HandlerArgs` are handlers, `SIG_DFL` and `SIG_IGN` |
| `MiniProgramsProofs!ProgramsUseLibrary` | `PSpec => Spec` |
| `MiniProgramsProofs!AlarmKillsOnlyAlarm1`, `ReportsAreRight`, `JumpsGoThrough` | `DeathByAlarm`, `PendingReported`, `JumpsInOrder` |
| `MiniProgramsProofs!ProgramsSeePosix` | `PSpec => ImplementsPosix`, if `alarm3` is not among `Progs` and `HandlerArgs` are as in `LibraryIsPosix` |
| `SigSetProofs!WordMeansMembers` | `MembersAgree`, if `DelNos \subseteq Signals` |
| `PtoolsProofs!TypeCorrect`, `UndefinedHasCause`, `MappingsShownOnce` | `TypeOK`, `UndefinedNeedsCause`, `EntryPerLine` |
| `LoggerProofs!TypeCorrect`, `NamesAreTrue` | `TypeOK`, `NamesTrue` |
| `LoggerProofs!ErrnoIsKept` | `ErrnoKept`, of a careful program |
| `LoggerProofs!LoggerInvisible` | `CarefulSpec => ImplementsFileCalls` |
| `LsofProofs!TypeCorrect`, `CrashesHaveCause` | `TypeOK`, `CrashNeedsCause` |
| `LsofProofs!SearchFindsExactly`, `ShownAsItIs` | `SearchExact`, `Faithful` |
| `LsofProofs!EveryStepAdvances` | `Spec => Advances` |

*The debugger.* `TypeInv` adds to `TypeOK` that a loaded debugger has a program
(else `Fork` has none). `ArmedInv` adds four facts without which `Armed` is not
inductive: breakpoints are at mapped addresses (`BpMapped`), so re-arming writes
where the list says; addresses are unique, so `delete` disarms only the one it
removes; a debugger that is not RUNNING has neither breakpoints nor a living
tracee outside start (`Fresh`); and the tracee is dead or detached once the
debugger is gone (`Mortal`). `OrphanInv` replaces `Armed` by `Guarded`: from the
end of start on, `PTRACE_O_EXITKILL` is set. `SyncInv` carries the byte-for-byte
description of the text through a session, with `Phases` (who may be stepping at
which wait) to rule out that two step-overs overlap. One lemma per side, tracee
and debugger, has one step per action.

`SyncInv` is about the first session, where `bp_restore` starts empty.
`StrayInv` is about any: the address that may be astray is `inherited`, which the
fork sets to that of `bp_restore` and nothing sets again; from the exec on `bp_restore` is
that one or a listed breakpoint (`Stray`), so stepping over writes an `int3` that
the list does not know, or a saved byte that is not the program's, there and
nowhere else. `RestoreReported` carries `PassesReported`: while a program runs,
what the next `cont` would step over was reported and not passed since, except in
the single step that uses the report up; and by `Armed` and `WaitsAnswered` only
that step passes a listed breakpoint. `WaitsAnswered` is inductive as it stands: each command resumes the
process as its wait expects, and a step, a signal or a kill makes it waitable. `SweptInv`
adds that the sweep runs over a known program (`Sweeping`) and that no child runs
during sweep and `cont` (`Held`); then stage, address or child goes down in every
step, since a decoded instruction has a length, also one that could not be read.
The two are the safety half of `NeverStuck` and `SweepEnds`.

The refinement adds `CareInv`: every breakpoint is at a disassembled instruction
(`Marked`); a running process is at an instruction of its program, a stopped one
too or just behind the breakpoint it hit (`Placed`); each wait knows what may have
ended it (`Waits`). With `SyncInv` a running process then finds `int3` exactly at
an armed breakpoint and otherwise a whole instruction (`TextAt`), so it never
derails, a trap is always recognised as a hit and a signal never. Executing is
`Execute`, the waitpid of cont that sees a trap is `Hit`, the one that sees a
signal `Interrupt`, a `cont` either way `Continue`; a trap itself, the re-arming
and all other waits are stutters. One session only: `bp_restore` of the first
breaks the second (section 8).

*Executables and maps.* `operator<` is no order on ranges in general, but on the
lines of a memory it is the order of addresses (`Ascending`); so each line finds
no key that `std::map` takes for its own, and `LoadedSoFar` counts one entry per
line read. `CauseInv`: once a line with a name was read, `args[5]` is set.

*The library.* `TypeInv` adds that the `jmp_buf` points into the stack. `MasksNest`
relates each frame to the next; a jump cuts the
stack at any depth and keeps the innermost mask, so the inductive form
(`Nested`) relates each frame to every later one and to the mask in force, each
with its own signal unless its flags have `SA_NODEFER` (`Saved`). It
also needs `ForcedFree`: SIGKILL is never handled, hence in no frame, hence no
frame asks for a mask the kernel would refuse. The refinement adds that actions
are known handlers with a restorer, here and in the frames (`NeverAstray`), and
that a `sigaction` in progress, here or in a frame, will
install the mask it was asked for; each system call is then one step of
`PosixSignals`, and everything between them a stutter.

*The sample programs.* `PInv`, which TLC checked before it was proved, says of
each program what the orders of ^C, alarm and return leave open: which handlers
are installed (`ActionsAsked`), that only alarm3 ever runs one
(`OnlyAlarm3Handles`), which calls may be in progress (`InCalls`), that SIGALRM is blocked once asked (`AlarmBlocked`) and stays pending
once it rang (`AlarmPends`, in `alarm3` too, where the kernel keeps an ignored
signal that is blocked), that alarm2's clock rings before its sleep ends
(`AlarmBeforeWake`), and what the answer of `sigpending` was when it is read
(`AnswerIsDue`). That a step of a program is one of `LibMini`'s, handlers included,
is `StepOfLibrary`; that it is a careful one, `ProgramsAreCareful`; the two carry
the theorems about the library over.

*The logger.* `NamesInv` says what a thread between lookup and call, and between
call and late lookup, holds: the name that the lookup would give now, unless
another thread disturbed it. `CareInv` adds that the log's descriptor stays with
the log's file, that this file has no other descriptor or name the program can
reach, and that the thread's `errno` is its call's. The refinement is a step
simulation: the launcher is `Start`, `Enter` and `Real` are `Enter` and `Do`,
`After` is a stutter, `Log` is `Leave`; `Real` needs that a call of a careful
program does the same to the files with and without the lines in one of them.

*lsof.* `CrashInv` is the type invariant and what the first `access` told of the
directory of descriptors (`ShownAtOpendir`): unchanged, it still opens.
`ShownInv` says, for each place of the scan, which lines of the process are there
by now, given that it has not changed: those of the links so far (`LinksAt`), of
all words of the mappings up to `at` less those still to do (`MapsAt`), and of the
descriptors likewise (`FdsAt`). For the search,
`SearchInv` keeps an increasing map from the places of `lsof` to those of
`collected`, onto exactly the places that the turns so far have kept; the end of
a loop makes it an enumeration of the matching places, which `Sub` is. `AheadInv`
keeps `i` and `j` at most one beyond what they index (`InBounds`), which makes the
ranks of `Advances` naturals; a turn that erases lowers the length, any other
raises an index, and a piece that is listed raises `at` (`NumbersAhead`). It is the safety half of `Terminates`: what is left to TLC is that
a process that is scheduled takes a step.

*Model-checked only.* Liveness: `SweepEnds`, `NeverStuck`, `ProgramsEnd` and
`Terminates` rest on fairness and ENABLED, which are beyond the provers used
here.

## 7. Hazards without a property

In the models, but the repository promises nothing about them: `set rip 0` equals
the empty `bp_restore`; `disasm` after a second `load`; `perror` beyond its
table; files that `ptools` never closes; a program that closes the log
descriptor. Not in the models: the bytes that `checkbuf` shows, its reads past
the buffer, paths longer than `resolved_path`, and the `perm[3]` that `vmmap`
prints beyond its end. Further, a debugger killed between `fork` and `PTRACE_O_EXITKILL`
leaves its tracee; `PTRACE_CONT` swallows signals; `longjmp(env, 0)` returns 0
from `setjmp`; `errno` does not survive a handler.

## 8. Where code and text disagree

With a run that ends in a counterexample; `PROJECT.json` quotes the line.

| Run | Disagreement |
|---|---|
| `sdb_claim_relist` | `bp_restore` survives the process: an unlisted `int3` in the next |
| `longjmp_claim_mask` | `setjmp` and `longjmp` neither save nor restore the mask |
| `lsof_claim_mem` | NODE of a `mem` line is the i-node of `/proc/pid/maps`, not the file's |

In the models, without a run of their own. *sdb*: a program killed under `cont`,
or one that ends under `si`, stays RUNNING (`ContKilled`, `SiReturns`); a hit
outside the disassembly is not reported (`ContHits`); `si` at a breakpoint executes the
`int3` (`Si`, `Trap`); a stop by a signal one byte behind a breakpoint is taken
for a hit (`ContHits`); a failing exec violates the assertion of `start`
(`StartReturns`); stepping over a breakpoint on the exit ends the debugger
(`StepReturns`). *libmini*: `signal` blocks
an uninitialised mask, perhaps with the signal it handles; `sigaction` blocks `sa_mask` in its caller and gives the handler
the caller's mask (`SigactionBegins`); with a null action it installs what the
stack holds (`SigActionQuery`); no old action is ever returned
(`SignalInstalls`); `perror` checks one `errno` and indexes with another
(`Perror`); `sigdelset` does not check its range (`sigdelset`, the reason why
`WordMeansMembers` assumes `DelNos \subseteq Signals`).

*logger*: `open` and `fopen` log the name of a file they create untouched, since
they look it up before it exists (`Open`, `Fopen`); `chmod`, `creat`, `chown`,
`read` and `rename` change the `errno` of a failed call (`After`); a program that
uses `OUTPUT_FD` for files of its own finds log lines in them (`WritesLine`).
*lsof*: the TYPE of a NOFD line is that of whatever `sb` holds (`AccessFd`); a
file with a blank in its name is a `mem` line per word with a "/" (`StatMaps`); an
option that is no REGEX aborts (`SearchComm`); a
type is spelled "unknow" that `-t unknown` asks for. *ptools*: no file is closed
(`files`); one of the two first bytes of an ELF file is enough (`IsElf`);
`[vsyscall]` is shown at 7fffffffffffffff (`Stored`), a name with a blank up to it
(`SixthField`);
`operator<` takes overlapping ranges, one in the other, for the same (`Same`).

Likewise, a second `load` leaves the first program's instructions in front of
`disasm`'s list (`orig_instructions`), and a successful call sets `errno` to 0
(`ErrnoAfter`). Seen while reading, not in the models: `sigaddset` returns `-EINVAL` instead of -1 with `errno`; `sleep` returns nothing
for errors other than EINTR; `lsof` never shows
`del`, and does not reject an invalid `-t`.

## 9. Plan

Done: all four homeworks, in the order debugger, library, logger, lsof, ptools;
their runs, claims and proofs.

Left: `DebuggerIsTransparent` for later sessions, which needs a specification that
says what the inherited `bp_restore` may do.

Not modelled: output formatting (it is data of the models), capstone's decoding
(`Image`), registers other than `rip`, the file and process wrappers of `libmini`
one by one (they are one macro), what `disasm`, `dump` and `help` print, programs
to debug and command scripts, build files.
