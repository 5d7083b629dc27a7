---------------------------- MODULE PtoolsProofs ----------------------------
(***************************************************************************)
(* Proofs about elf_read and load_maps, for any files, any memories the    *)
(* kernel can show and any number of calls.                                *)
(***************************************************************************)
EXTENDS Ptools, FiniteSetTheorems, SequenceTheorems, TLAPS

Loaded == [key : RangeT, entry : Entry]

(* Type correctness, and where a line is in progress.                      *)
TypeInv ==
  /\ TypeOK
  /\ pc = "rest" => at \in DOMAIN maps /\ maps[at].long
  /\ pc = "shown" => at = Len(maps) + 1

LEMMA Lines ==
  ASSUME TypeInv
  PROVE  /\ maps \in Seq(MapLine) /\ Len(maps) \in Nat /\ DOMAIN maps = 1 .. Len(maps)
         /\ at \in Nat
         /\ \A k \in DOMAIN maps :
              /\ maps[k].range \in RangeT /\ maps[k].perm \in Perms
              /\ maps[k].name \in MapNames \union {NoMapName} /\ maps[k].long \in BOOLEAN
<1>1. maps \in Seq(MapLine) /\ at \in 1 .. Len(maps) + 1
  BY DEF TypeInv, TypeOK, IsMaps
<1>2. Len(maps) \in Nat /\ DOMAIN maps = 1 .. Len(maps)
  BY <1>1, LenProperties
<1>3. \A k \in DOMAIN maps : maps[k] \in MapLine
  BY <1>1, <1>2, ElementOfSeq
<1> QED BY <1>1, <1>2, <1>3 DEF MapLine

(* strtoll gives an address, and a range of the lower half unchanged.      *)
LEMMA RangeType ==
  ASSUME NEW q \in RangeT
  PROVE  /\ Stored(q) \in RangeT /\ Stored(q).begin = strtoll(q.begin) /\ Stored(q).end = strtoll(q.end)
         /\ q.end < MaxLong /\ q.begin < q.end => Stored(q) = q
<1>1. q.begin \in Int /\ q.end \in Int /\ q = [begin |-> q.begin, end |-> q.end] /\ MaxLong \in Int
  BY PtoolsAssumption DEF RangeT, Address
<1>2. \A a \in Address : strtoll(a) \in Address
  BY PtoolsAssumption DEF strtoll, Address
<1>3. q.end < MaxLong /\ q.begin < q.end => strtoll(q.begin) = q.begin /\ strtoll(q.end) = q.end
  BY <1>1 DEF strtoll
<1> QED BY <1>1, <1>2, <1>3 DEF Stored, RangeT

(* std::map keeps keys of ranges and entries of lines.                     *)
LEMMA PutType ==
  ASSUME loaded \subseteq Loaded, NEW e \in Entry
  PROVE  Put(e) \subseteq Loaded
<1>1. [key |-> e.range, entry |-> e] \in Loaded
  BY DEF Entry, Loaded
<1>2. ASSUME NEW x \in loaded
      PROVE  (IF Same(x.key, e.range) THEN [x EXCEPT !.entry = e] ELSE x) \in Loaded
  <2>1. x \in Loaded
    BY <1>2
  <2>2. [x EXCEPT !.entry = e] \in Loaded
    BY <2>1 DEF Loaded
  <2> QED BY <2>1, <2>2
<1> QED BY <1>1, <1>2 DEF Put

LEMMA EntryOfLine ==
  ASSUME TypeInv, at \in DOMAIN maps, NEW name \in SixthField(maps[at])
  PROVE  [range |-> Stored(maps[at].range), perm |-> maps[at].perm, name |-> name] \in Entry
<1>1. name \in MapNames \union {Garbage}
  BY Lines, PtoolsAssumption DEF SixthField, TypeInv, TypeOK
<1>2. Stored(maps[at].range) \in RangeT
  BY Lines, RangeType
<1> QED BY <1>1, <1>2, Lines DEF Entry

LEMMA TypeInvInit == Init => TypeInv
<1> SUFFICES ASSUME Init PROVE TypeInv
  OBVIOUS
<1>1. info \in [entry : Nat \union {Garbage}, size : Nat \union {Garbage}]
  BY DEF Init
<1>2. IsMaps(maps) /\ Len(maps) = 0
  BY EmptySeq DEF Init, IsMaps
<1> QED BY <1>1, <1>2, PtoolsAssumption DEF Init, TypeInv, TypeOK

LEMMA TypeInvNext == TypeInv /\ [Next]_vars => TypeInv'
<1> SUFFICES ASSUME TypeInv, [Next]_vars PROVE TypeInv'
  OBVIOUS
<1>1. CASE ElfRead
  <2>1. info' \in [entry : Nat \union {Garbage}, size : Nat \union {Garbage}]
    <3>1. elf.entry \in Nat /\ elf.size \in Nat
      BY PtoolsAssumption DEF TypeInv, TypeOK, ElfFile
    <3>2. info' = info \/ \E n \in {elf.size, Garbage} : info' = [entry |-> elf.entry, size |-> n]
      BY <1>1 DEF ElfRead, FindsSize
    <3> QED BY <3>1, <3>2 DEF TypeInv, TypeOK
  <2>2. files' \in 0 .. MaxFiles
    BY <1>1, PtoolsAssumption DEF ElfRead, TypeInv, TypeOK
  <2>3. pc' \in {"exit", "crashed", "prompt"} /\ UNCHANGED <<elf, maps, at, args5, loaded>>
    BY <1>1 DEF ElfRead
  <2> QED BY <2>1, <2>2, <2>3 DEF TypeInv, TypeOK
<1>2. CASE Vmmap
  <2>1. IsMaps(maps') /\ at' = 1 /\ pc' \in {"line", "failed"} /\ files' \in 0 .. MaxFiles
    BY <1>2, PtoolsAssumption DEF Vmmap, TypeInv, TypeOK
  <2>2. Len(maps') \in Nat
    BY <2>1, LenProperties DEF IsMaps
  <2> QED BY <1>2, <2>1, <2>2 DEF Vmmap, TypeInv, TypeOK
<1>3. CASE ReadLine
  <2>1. PICK name \in SixthField(maps[at]) :
          loaded' = Put([range |-> Stored(maps[at].range), perm |-> maps[at].perm, name |-> name])
    BY <1>3 DEF ReadLine
  <2>2. at \in DOMAIN maps
    BY <1>3 DEF ReadLine
  <2>3. loaded' \subseteq [key : RangeT, entry : Entry]
    BY <2>1, <2>2, EntryOfLine, PutType DEF TypeInv, TypeOK, Loaded
  <2>4. args5' \in MapNames \union {Garbage}
    BY <1>3, <2>2, Lines, PtoolsAssumption DEF ReadLine, PointsTo, TypeInv, TypeOK
  <2>5. /\ UNCHANGED <<elf, info, maps, files>>
        /\ \/ maps[at].long /\ pc' = "rest" /\ at' = at
           \/ pc' = "line" /\ at' = at + 1
    BY <1>3 DEF ReadLine
  <2>6. at' \in 1 .. Len(maps) + 1
    BY <2>2, <2>5, Lines
  <2> QED BY <2>2, <2>3, <2>4, <2>5, <2>6 DEF TypeInv, TypeOK
<1>4. CASE ReadRest
  <2>1. loaded' \subseteq [key : RangeT, entry : Entry]
    <3>1. CASE UNCHANGED loaded
      BY <3>1 DEF TypeInv, TypeOK
    <3>2. CASE ~UNCHANGED loaded
      <4>1. PICK range \in RangeT, name \in {args5, Garbage} :
              loaded' = Put([range |-> range, perm |-> Garbage, name |-> name])
        BY <1>4, <3>2 DEF ReadRest
      <4>2. [range |-> range, perm |-> Garbage, name |-> name] \in Entry
        BY DEF Entry, TypeInv, TypeOK
      <4> QED BY <4>1, <4>2, PutType DEF TypeInv, TypeOK, Loaded
    <3> QED BY <3>1, <3>2
  <2>2. pc' \in {"line", "crashed"} /\ at' \in {at, at + 1} /\ UNCHANGED <<elf, info, maps, args5, files>>
    BY <1>4 DEF ReadRest
  <2>3. at' \in 1 .. Len(maps) + 1
    <3>1. at \in 1 .. Len(maps)
      BY <1>4, Lines DEF ReadRest, TypeInv
    <3> QED BY <2>2, <3>1, Lines
  <2> QED BY <2>1, <2>2, <2>3 DEF TypeInv, TypeOK
<1>5. CASE ReadLineCrashes
  BY <1>5 DEF ReadLineCrashes, TypeInv, TypeOK
<1>6. CASE Shows
  <2>1. at = Len(maps) + 1
    BY <1>6, Lines DEF Shows, TypeInv, TypeOK
  <2> QED BY <1>6, <2>1 DEF Shows, TypeInv, TypeOK
<1>7. CASE UNCHANGED vars
  BY <1>7 DEF vars, TypeInv, TypeOK
<1> QED BY <1>1, <1>2, <1>3, <1>4, <1>5, <1>6, <1>7 DEF Next

LEMMA TypeInvariance == Spec => []TypeInv
BY TypeInvInit, TypeInvNext, PTL DEF Spec

(* Whatever the maps and the files are, the variables keep their types.    *)
THEOREM TypeCorrect == Spec => []TypeOK
<1>1. TypeInv => TypeOK
  BY DEF TypeInv
<1> QED BY <1>1, TypeInvariance, PTL

-----------------------------------------------------------------------------
(* Undefined behaviour.  From the first line on, if it has a name, args[5] *)
(* points to some name that was read; no maps are read before load is done.*)
Anonymous == maps # << >> /\ maps[1].name = NoMapName

CauseInv ==
  /\ UndefinedNeedsCause
  /\ pc = "load" => maps = << >>
  /\ pc \in {"line", "rest"} /\ (at > 1 \/ pc = "rest") /\ ~Anonymous => args5 # Garbage

LEMMA CauseNext == TypeInv /\ CauseInv /\ [Next]_vars => CauseInv'
<1> SUFFICES ASSUME TypeInv, CauseInv, [Next]_vars PROVE CauseInv'
  OBVIOUS
<1>1. CASE ElfRead
  <2>1. pc' \in {"exit", "crashed", "prompt"} /\ elf' = elf /\ maps' = maps /\ maps = << >>
        /\ (pc' = "crashed" => IsElf(elf) /\ ~Sound(elf))
    BY <1>1 DEF ElfRead, CauseInv
  <2> QED BY <2>1 DEF CauseInv, UndefinedNeedsCause, IsElf, Sound
<1>2. CASE Vmmap
  BY <1>2 DEF Vmmap, CauseInv, UndefinedNeedsCause
<1>3. ASSUME at \in DOMAIN maps
      PROVE  /\ maps # << >> /\ 1 \in DOMAIN maps /\ (at = 1 \/ at > 1)
             /\ maps[at].name = NoMapName \/ FirstWord[maps[at].name] # Garbage
  <2>1. 1 \in DOMAIN maps
    BY <1>3, Lines
  <2> QED BY <1>3, <2>1, Lines, PtoolsAssumption, EmptySeq
<1>4. CASE ReadLine
  <2>1. /\ at \in DOMAIN maps /\ pc = "line" /\ pc' \in {"line", "rest"}
        /\ args5' = (IF maps[at].name = NoMapName THEN args5 ELSE FirstWord[maps[at].name])
        /\ maps' = maps
    BY <1>4 DEF ReadLine, PointsTo
  <2>2. ~Anonymous => args5' # Garbage
    BY <1>3, <2>1 DEF CauseInv, Anonymous
  <2> QED BY <2>1, <2>2 DEF CauseInv, UndefinedNeedsCause, Anonymous
<1>5. CASE ReadLineCrashes
  <2>1. /\ at \in DOMAIN maps /\ pc = "line" /\ pc' = "crashed" /\ args5 = Garbage
        /\ maps[at].name = NoMapName /\ maps' = maps
    BY <1>5 DEF ReadLineCrashes
  <2>2. Anonymous
    BY <1>3, <2>1 DEF CauseInv, Anonymous
  <2> QED BY <2>1, <2>2 DEF CauseInv, UndefinedNeedsCause, Anonymous
<1>6. CASE ReadRest
  <2>1. /\ pc = "rest" /\ pc' \in {"line", "crashed"} /\ UNCHANGED <<elf, maps, args5>>
    BY <1>6 DEF ReadRest
  <2>2. LongIn(maps) /\ maps # << >>
    BY <2>1, EmptySeq DEF TypeInv, LongIn
  <2> QED BY <2>1, <2>2 DEF CauseInv, UndefinedNeedsCause, Anonymous
<1>7. CASE Shows
  <2>1. pc' \in {"failed", "shown"}
    BY <1>7 DEF Shows
  <2> QED BY <2>1 DEF CauseInv, UndefinedNeedsCause
<1>8. CASE UNCHANGED vars
  BY <1>8 DEF vars, CauseInv, UndefinedNeedsCause, Anonymous
<1> QED BY <1>1, <1>2, <1>4, <1>5, <1>6, <1>7, <1>8 DEF Next

(* Reading what was never set needs an executable without sections or with *)
(* a flaw, a line longer than the buffer, or maps that begin with an       *)
(* anonymous mapping.                                                      *)
THEOREM UndefinedHasCause == Spec => []UndefinedNeedsCause
<1>1. Init => CauseInv
  BY DEF Init, CauseInv, UndefinedNeedsCause
<1>2. CauseInv => UndefinedNeedsCause
  BY DEF CauseInv
<1> QED BY <1>1, <1>2, CauseNext, TypeInvariance, PTL DEF Spec

-----------------------------------------------------------------------------
(* One entry for each line.  operator< is no order on all ranges, but on   *)
(* those of a memory, as strtoll reads them, it is the order of the        *)
(* addresses, so a line never takes the place of another one.              *)
ShowsLine(x, k) ==
  /\ x.key = ShownRange(maps[k].range) /\ x.entry.range = ShownRange(maps[k].range)
  /\ x.entry.perm = maps[k].perm
  /\ maps[k].name # NoMapName => x.entry.name = FirstWord[maps[k].name]

LoadedSoFar ==
  pc \in {"line", "shown"} /\ ~LongIn(maps) =>
    /\ IsFiniteSet(loaded) /\ Cardinality(loaded) = at - 1
    /\ \A x \in loaded : \E k \in 1 .. at - 1 : x.key = Stored(maps[k].range)
    /\ \A k \in 1 .. at - 1 : \E x \in loaded : ShowsLine(x, k)

LEMMA Halves ==
  ASSUME TypeInv, NEW k \in DOMAIN maps
  PROVE  /\ maps[k].range.begin < maps[k].range.end
         /\ maps[k].range.end < MaxLong \/ (maps[k].range.begin > MaxLong /\ k = Len(maps))
         /\ maps[k].range.begin \in Int /\ maps[k].range.end \in Int /\ MaxLong \in Int
BY Lines, PtoolsAssumption DEF TypeInv, TypeOK, IsMaps, RangeT, Address

LEMMA RangeShown ==
  ASSUME TypeInv, NEW k \in DOMAIN maps
  PROVE  Stored(maps[k].range) = ShownRange(maps[k].range)
<1>1. CASE maps[k].range.end < MaxLong
  BY <1>1, Lines, Halves, RangeType DEF ShownRange
<1>2. CASE ~(maps[k].range.end < MaxLong)
  BY <1>2, Halves DEF ShownRange, Stored, strtoll
<1> QED BY <1>1, <1>2

LEMMA Ascending ==
  ASSUME TypeInv, NEW k \in DOMAIN maps, NEW l \in DOMAIN maps, l < k
  PROVE  /\ Less(Stored(maps[l].range), Stored(maps[k].range))
         /\ Stored(maps[l].range) # Stored(maps[k].range)
<1>1. maps[l].range.end <= maps[k].range.begin
  BY Lines DEF TypeInv, TypeOK, IsMaps
<1>2. l # Len(maps)
  BY Lines
<1>3. Stored(maps[l].range) = maps[l].range
  BY <1>2, Lines, Halves, RangeType
<1>4. Stored(maps[k].range) = IF maps[k].range.end < MaxLong THEN maps[k].range
                             ELSE [begin |-> MaxLong, end |-> MaxLong]
  BY RangeShown DEF ShownRange
<1>5. CASE maps[k].range.end < MaxLong
  BY <1>1, <1>3, <1>4, <1>5, Halves DEF Less
<1>6. CASE ~(maps[k].range.end < MaxLong)
  <2>1. maps[l].range.begin < MaxLong /\ maps[l].range.end < MaxLong
    BY <1>2, Halves
  <2> QED BY <1>3, <1>4, <1>6, <2>1, Halves DEF Less
<1> QED BY <1>5, <1>6

LEMMA LoadedNext == TypeInv /\ LoadedSoFar /\ [Next]_vars => LoadedSoFar'
<1> SUFFICES ASSUME TypeInv, LoadedSoFar, [Next]_vars PROVE LoadedSoFar'
  OBVIOUS
<1>1. CASE ElfRead \/ ReadLineCrashes
  <2>1. pc' \notin {"line", "shown"}
    BY <1>1 DEF ElfRead, ReadLineCrashes
  <2> QED BY <2>1 DEF LoadedSoFar
<1>2. CASE Vmmap
  <2>1. loaded' = {} /\ at' = 1
    BY <1>2 DEF Vmmap
  <2>2. IsFiniteSet(loaded') /\ Cardinality(loaded') = at' - 1
    BY <2>1, FS_EmptySet
  <2>3. 1 .. at' - 1 = {}
    BY <2>1
  <2>4. /\ \A x \in loaded' : \E k \in 1 .. at' - 1 : x.key = Stored(maps'[k].range)
        /\ \A k \in 1 .. at' - 1 : \E x \in loaded' : ShowsLine(x, k)'
    <3>1. loaded' = {}
      BY <2>1
    <3> QED BY <2>3, <3>1, Zenon
  <2> QED BY <2>1, <2>2, <2>4 DEF LoadedSoFar
<1>3. CASE ReadLine
  <2> SUFFICES ASSUME pc' = "line", ~LongIn(maps)
               PROVE  /\ IsFiniteSet(loaded') /\ Cardinality(loaded') = at' - 1
                      /\ \A x \in loaded' : \E k \in 1 .. at' - 1 : x.key = Stored(maps[k].range)
                      /\ \A k \in 1 .. at' - 1 : \E x \in loaded' : ShowsLine(x, k)
    BY <1>3 DEF ReadLine, LoadedSoFar, LongIn, ShowsLine
  <2>1. PICK name \in SixthField(maps[at]) :
          loaded' = Put([range |-> Stored(maps[at].range), perm |-> maps[at].perm, name |-> name])
    BY <1>3 DEF ReadLine
  <2>2. at \in DOMAIN maps /\ at \in Nat /\ at' = at + 1 /\ pc = "line"
    BY <1>3, Lines DEF ReadLine
  <2>3. /\ IsFiniteSet(loaded) /\ Cardinality(loaded) = at - 1
        /\ \A x \in loaded : \E k \in 1 .. at - 1 : x.key = Stored(maps[k].range)
        /\ \A k \in 1 .. at - 1 : \E x \in loaded : ShowsLine(x, k)
    BY <2>2 DEF LoadedSoFar
  <2> DEFINE e == [range |-> Stored(maps[at].range), perm |-> maps[at].perm, name |-> name]
             new == [key |-> e.range, entry |-> e]
  <2>4. ASSUME NEW x \in loaded
        PROVE  ~Same(x.key, Stored(maps[at].range)) /\ x.key # Stored(maps[at].range)
    <3>1. PICK k \in 1 .. at - 1 : x.key = Stored(maps[k].range)
      BY <2>3
    <3>2. k \in DOMAIN maps /\ k < at
      BY <2>2, Lines
    <3> QED BY <2>2, <3>1, <3>2, Ascending DEF Same
  <2>5. loaded' = loaded \union {new} /\ new \notin loaded
    <3>1. e.range = Stored(maps[at].range) /\ new.key = Stored(maps[at].range)
      OBVIOUS
    <3>2. loaded' = Put(e)
      BY <2>1
    <3> HIDE DEF e
    <3> QED BY <2>4, <3>1, <3>2 DEF Put
  <2>6. ShowsLine(new, at) /\ new.key = Stored(maps[at].range)
    BY <2>2, RangeShown DEF ShowsLine, SixthField
  <2> HIDE DEF new
  <2>7. IsFiniteSet(loaded') /\ Cardinality(loaded') = at' - 1
    <3>1. /\ IsFiniteSet(loaded \union {new})
          /\ Cardinality(loaded \union {new}) = Cardinality(loaded) + 1
      BY <2>3, <2>5, FS_AddElement
    <3>2. IsFiniteSet(loaded') /\ Cardinality(loaded') = (at - 1) + 1
      BY <2>3, <2>5, <3>1
    <3> QED BY <2>2, <3>2
  <2>8. \A k \in 1 .. at' - 1 : k = at \/ k \in 1 .. at - 1
    BY <2>2
  <2>9. (1 .. at - 1) \subseteq (1 .. at' - 1) /\ at \in 1 .. at' - 1
    BY <2>2, Lines
  <2> QED BY <2>3, <2>5, <2>6, <2>7, <2>8, <2>9
<1>4. CASE ReadRest
  <2>1. LongIn(maps) /\ maps' = maps
    BY <1>4 DEF ReadRest, TypeInv, LongIn
  <2> QED BY <2>1 DEF LoadedSoFar, LongIn
<1>5. CASE Shows
  BY <1>5 DEF Shows, LoadedSoFar, LongIn, ShowsLine
<1>6. CASE UNCHANGED vars
  BY <1>6 DEF vars, LoadedSoFar, LongIn, ShowsLine
<1> QED BY <1>1, <1>2, <1>3, <1>4, <1>5, <1>6 DEF Next

(* For every memory load_maps has one entry per mapping, with its range,   *)
(* permissions and name as strtoll and strtok_r read them.                 *)
THEOREM MappingsShownOnce == Spec => []EntryPerLine
<1>1. Init => LoadedSoFar
  BY DEF Init, LoadedSoFar
<1>2. TypeInv /\ LoadedSoFar => EntryPerLine
  <2> SUFFICES ASSUME TypeInv, LoadedSoFar, pc = "shown", ~LongIn(maps)
               PROVE  /\ Cardinality(loaded) = Len(maps)
                      /\ \A k \in DOMAIN maps : \E x \in loaded : ShowsLine(x, k)
    BY DEF EntryPerLine, ShowsLine
  <2>1. at = Len(maps) + 1 /\ at - 1 = Len(maps)
    BY Lines DEF TypeInv
  <2> QED BY <2>1, Lines DEF LoadedSoFar
<1> QED BY <1>1, <1>2, LoadedNext, TypeInvariance, PTL DEF Spec
=============================================================================
