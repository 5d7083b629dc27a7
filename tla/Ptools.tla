------------------------------- MODULE Ptools -------------------------------
(***************************************************************************)
(* hw4/ptools.cpp: what load learns from an executable file (elf_read) and *)
(* what vmmap shows of the memory of the tracee (load_maps), one line of   *)
(* /proc/pid/maps after the other into a std::map ordered by operator<.    *)
(*                                                                         *)
(* The tracee is stopped during a vmmap, so its maps do not change under   *)
(* it; between two calls they may.                                         *)
(***************************************************************************)
EXTENDS Integers, FiniteSets, Sequences

CONSTANTS
  MaxAddress,
  MaxLong,    \* LLONG_MAX: the addresses above are the upper half
  MapNames,   \* names of mappings
  FirstWord,  \* of a name, what is before its first blank
  NoMapName,  \* of an anonymous mapping
  Garbage,    \* what an uninitialised variable holds
  Perms,      \* permissions
  Memories,   \* the contents of /proc/pid/maps: sequences of lines
  ElfFiles,   \* arguments of load
  MaxFiles    \* the limit of open files

Address == 0 .. MaxAddress
RangeT  == [begin : Address, end : Address]

(* A line of maps; long if it does not fit into buf.                       *)
MapLine == [range : RangeT, perm : Perms, name : MapNames \union {NoMapName}, long : BOOLEAN]

(* What the kernel writes: mappings are not empty, do not overlap and come *)
(* in ascending order; only a named line is long. One line at most, the    *)
(* last, [vsyscall], is of the upper half; the others end well below it.   *)
IsMaps(m) ==
  /\ m \in Seq(MapLine)
  /\ \A k \in DOMAIN m :
       /\ m[k].range.begin < m[k].range.end
       /\ m[k].long => m[k].name # NoMapName
       /\ \A l \in 1 .. k - 1 : m[l].range.end <= m[k].range.begin
       /\ m[k].range.end < MaxLong \/ (m[k].range.begin > MaxLong /\ k = Len(m))

(* A file for elf_read: whether it opens, has a whole header, has the two  *)
(* first bytes of an ELF file, its entry point, number of sections, .text, *)
(* and what else is wrong with it: section headers that cannot be read, an *)
(* e_shstrndx that is no section, a table of names that is not in the file *)
(* or larger than the stack, a name outside of the table.                  *)
Flaws == {"headers", "e_shstrndx", "sh_size", "sh_name"}

ElfFile == [open : BOOLEAN, complete : BOOLEAN, magic0 : BOOLEAN, magicE : BOOLEAN, entry : Nat,
            sections : Nat, flaws : SUBSET Flaws, hasText : BOOLEAN, size : Nat]

ASSUME PtoolsAssumption ==
  /\ MaxAddress \in Nat /\ MaxLong \in 0 .. MaxAddress
  /\ FirstWord \in [MapNames -> MapNames]
  /\ NoMapName \notin MapNames /\ Garbage \notin MapNames \union {NoMapName}
  /\ \A m \in Memories : IsMaps(m)
  /\ ElfFiles \subseteq ElfFile
  /\ MaxFiles \in Nat

VARIABLES
  pc,
  elf,     \* the file that load reads
  info,    \* its entry point and size, Garbage if not set
  maps,    \* /proc/pid/maps
  at,      \* its line to be read
  args5,   \* where args[5] points: a name still in buf, or Garbage
  loaded,  \* the std::map: keys and entries
  files    \* open files: no one is ever closed

vars == <<pc, elf, info, maps, at, args5, loaded, files>>

Entry == [range : RangeT, perm : Perms \union {Garbage}, name : MapNames \union {Garbage}]

Init ==
  /\ pc = "load"
  /\ elf \in ElfFiles
  /\ info = [entry |-> Garbage, size |-> Garbage]
  /\ maps = << >> /\ at = 1
  /\ args5 = Garbage
  /\ loaded = {}
  /\ files = 0

-----------------------------------------------------------------------------
(* elf_read.  One of the two first bytes is enough, and no result of fseek *)
(* or fread is looked at: with a flaw, or without sections, it reads what  *)
(* was never set or is not there, and if it survives that it may take any  *)
(* section for .text. A file without .text leaves info unset.              *)
IsElf(f) == f.magic0 \/ f.magicE

Sound(f) == f.sections # 0 /\ f.flaws = {}

FindsText(f) == IF ~IsElf(f) \/ f.sections = 0 THEN {FALSE}
                ELSE IF Sound(f) THEN {f.hasText} ELSE BOOLEAN

FindsSize(f) == IF Sound(f) THEN {f.size} ELSE {f.size, Garbage}

ElfRead ==
  /\ pc = "load"
  /\ \/ /\ ~elf.open \/ ~elf.complete \/ files = MaxFiles
        /\ pc' = "exit"
        /\ UNCHANGED <<info, files>>
     \/ /\ elf.open /\ elf.complete /\ files < MaxFiles
        /\ pc' \in IF IsElf(elf) /\ ~Sound(elf) THEN {"crashed", "prompt"} ELSE {"prompt"}
        /\ \E text \in FindsText(elf), size \in FindsSize(elf) :
             info' = IF text THEN [entry |-> elf.entry, size |-> size] ELSE info
        /\ files' = files + 1
  /\ UNCHANGED <<elf, maps, at, args5, loaded>>

-----------------------------------------------------------------------------
(* operator< on ranges, and the keys that std::map takes for the same.     *)
LessWithGap(r1, r2) == r1.end < r2.begin

Less(r1, r2) == r1.begin < r2.begin /\ r1.end < r2.end

Same(r1, r2) == ~Less(r1, r2) /\ ~Less(r2, r1)

Put(e) ==
  IF \E x \in loaded : Same(x.key, e.range)
  THEN {IF Same(x.key, e.range) THEN [x EXCEPT !.entry = e] ELSE x : x \in loaded}
  ELSE loaded \union {[key |-> e.range, entry |-> e]}

(* vmmap opens the maps; a process that is gone has none.                  *)
Vmmap ==
  /\ pc \in {"prompt", "shown", "failed"}
  /\ \/ /\ files < MaxFiles
        /\ maps' \in Memories
        /\ files' = files + 1
        /\ pc' = "line"
     \/ /\ files = MaxFiles
        /\ pc' = "failed"
        /\ UNCHANGED <<maps, files>>
  /\ loaded' = {} /\ args5' = Garbage /\ at' = 1
  /\ UNCHANGED <<elf, info>>

(* strtoll stops at LLONG_MAX, for both ends of a range.                   *)
strtoll(a) == IF a <= MaxLong THEN a ELSE MaxLong

Stored(r) == [begin |-> strtoll(r.begin), end |-> strtoll(r.end)]

(* The sixth field: a name up to its first blank. An anonymous line has    *)
(* none: args[5] has the name of an earlier line, or it points anywhere.   *)
SixthField(l) == IF l.name = NoMapName THEN {args5, Garbage} ELSE {FirstWord[l.name]}

PointsToOwn(l) == IF l.name = NoMapName THEN Garbage ELSE FirstWord[l.name]

PointsToNoName(l) == l.name

PointsTo(l) == IF l.name = NoMapName THEN args5 ELSE FirstWord[l.name]

ReadLine ==
  /\ pc = "line" /\ at \in DOMAIN maps
  /\ \E name \in SixthField(maps[at]) :
       loaded' = Put([range |-> Stored(maps[at].range), perm |-> maps[at].perm, name |-> name])
  /\ args5' = PointsTo(maps[at])
  /\ IF maps[at].long THEN pc' = "rest" /\ UNCHANGED at
                      ELSE at' = at + 1 /\ UNCHANGED pc
  /\ UNCHANGED <<elf, info, maps, files>>

(* An anonymous line before any name: the pointer was never set.           *)
ReadLineCrashes ==
  /\ pc = "line" /\ at \in DOMAIN maps
  /\ maps[at].name = NoMapName /\ args5 = Garbage
  /\ pc' = "crashed"
  /\ UNCHANGED <<elf, info, maps, at, args5, loaded, files>>

(* The rest of a long line is taken for a line of its own: its range is    *)
(* whatever m or the text after a minus gives, as are its other fields.    *)
ReadRest ==
  /\ pc = "rest"
  /\ \/ /\ \E range \in RangeT, name \in {args5, Garbage} :
             loaded' = Put([range |-> range, perm |-> Garbage, name |-> name])
        /\ pc' = "line"
        /\ at' = at + 1
     \/ /\ pc' = "crashed"
        /\ UNCHANGED <<at, loaded>>
  /\ UNCHANGED <<elf, info, maps, args5, files>>

(* load_maps returns the size of the map, and vmmap shows it in order.     *)
Shows ==
  /\ pc = "line" /\ at \notin DOMAIN maps
  /\ pc' = IF loaded = {} THEN "failed" ELSE "shown"
  /\ UNCHANGED <<elf, info, maps, at, args5, loaded, files>>

Next == ElfRead \/ Vmmap \/ ReadLine \/ ReadLineCrashes \/ ReadRest \/ Shows

Spec == Init /\ [][Next]_vars

-----------------------------------------------------------------------------
(* Types of the variables.                                                 *)
TypeOK ==
  /\ pc \in {"load", "prompt", "line", "rest", "shown", "failed", "exit", "crashed"}
  /\ elf \in ElfFiles
  /\ info \in [entry : Nat \union {Garbage}, size : Nat \union {Garbage}]
  /\ IsMaps(maps)
  /\ at \in 1 .. Len(maps) + 1
  /\ args5 \in MapNames \union {Garbage}
  /\ loaded \subseteq [key : RangeT, entry : Entry]
  /\ files \in 0 .. MaxFiles

LongIn(m) == \E k \in DOMAIN m : m[k].long

(* load_maps hands vmmap one entry for each mapping, with its permissions, *)
(* its range and, if it has one, its name, although operator< is no order  *)
(* on ranges and args[5] outlives its line: no mapping replaces another    *)
(* (ptools.cpp:13-16, 28-46). As strtoll and strtok_r would have it, the   *)
(* name ends at its first blank and [vsyscall] is at 7fffffffffffffff.     *)
ShownRange(r) == IF r.end < MaxLong THEN r ELSE [begin |-> MaxLong, end |-> MaxLong]

EntryPerLine ==
  pc = "shown" /\ ~LongIn(maps) =>
    /\ Cardinality(loaded) = Len(maps)
    /\ \A k \in DOMAIN maps : \E x \in loaded :
         /\ x.key = ShownRange(maps[k].range) /\ x.entry.range = ShownRange(maps[k].range)
         /\ x.entry.perm = maps[k].perm
         /\ maps[k].name # NoMapName => x.entry.name = FirstWord[maps[k].name]

(* Undefined behaviour ends load only for a file taken for ELF that has no *)
(* sections or is damaged where no result is looked at (ptools.cpp:94-105),*)
(* and vmmap only for a line longer than buf or for maps that begin with   *)
(* an anonymous mapping: the name read last protects all later lines       *)
(* (ptools.cpp:24, 39).                                                    *)
UndefinedNeedsCause ==
  pc = "crashed" =>
    IF maps = << >> THEN IsElf(elf) /\ ~Sound(elf)
    ELSE LongIn(maps) \/ maps[1].name = NoMapName
=============================================================================
