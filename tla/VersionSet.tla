----------------------------- MODULE VersionSet -----------------------------
(***************************************************************************)
(* The pure part of LevelDB's db/version_set.cc: what a Version looks up,  *)
(* which files a compaction takes and what comes out of it.                *)
(*                                                                         *)
(* An entry is an internal key: [key, seq, type]; the value it carries is  *)
(* identified by its sequence number.  A table file is a record with its   *)
(* number, its first and its last internal key and the set of its entries; *)
(* its size is its number of entries.  A version maps every level to the   *)
(* list of its files.                                                      *)
(***************************************************************************)
EXTENDS Integers, Sequences, FiniteSets

CONSTANTS
  kNumLevels,              \* config::kNumLevels, 7
  kMaxMemCompactLevel,     \* config::kMaxMemCompactLevel, 2
  kL0_CompactionTrigger,   \* config::kL0_CompactionTrigger, 4
  TargetFileSize,          \* options->max_file_size, in entries
  GrandParentFactor,       \* MaxGrandParentOverlapBytes, 10 target sizes
  ExpandFactor,            \* ExpandedCompactionByteSizeLimit, 25 target sizes
  LevelBase,               \* MaxBytesForLevel(1), 10 MB; in entries
  LevelRatio,              \* growth of MaxBytesForLevel per level, 10
  BlockEntries,            \* options->block_size, in entries
  ShortestSeparator(_, _), \* of the user comparator, when it shortens the key
  NULL

ASSUME LevelsAssumption ==
  /\ kNumLevels \in Nat \ {0, 1} /\ kNumLevels > kMaxMemCompactLevel
  /\ kMaxMemCompactLevel \in Nat
  /\ kL0_CompactionTrigger \in Nat \ {0}
  /\ TargetFileSize \in Nat \ {0}
  /\ {GrandParentFactor, ExpandFactor, LevelBase, LevelRatio, BlockEntries} \subseteq Nat \ {0}

Levels == 0 .. kNumLevels - 1

\* F(x), with x evaluated once however often F mentions it.
With(x, F(_)) == CHOOSE r \in {F(y) : y \in {x}} : TRUE

kTypeDeletion == 0
kTypeValue == 1
kValueTypeForSeek == kTypeValue
kMaxSequenceNumber == 1000000000    \* above every sequence number of a run

MaxGrandParentOverlapBytes == GrandParentFactor * TargetFileSize
ExpandedCompactionByteSizeLimit == ExpandFactor * TargetFileSize
MaxFileSizeForLevel(level) == TargetFileSize

\* MaxBytesForLevel: the same for levels 0 and 1, then times LevelRatio.
MaxBytesForLevel[level \in Levels] ==
  IF level <= 1 THEN LevelBase ELSE LevelRatio * MaxBytesForLevel[level - 1]

-----------------------------------------------------------------------------
(* Internal keys (db/dbformat).                                            *)

InternalKey(k, s, t) == [key |-> k, seq |-> s, type |-> t]

\* InternalKeyComparator: increasing key, then decreasing sequence and type.
Less(a, b) ==
  \/ a.key < b.key
  \/ a.key = b.key /\ a.seq > b.seq
  \/ a.key = b.key /\ a.seq = b.seq /\ a.type > b.type

LessEq(a, b) == a = b \/ Less(a, b)

\* The elements of the finite set S in the order Before(_, _).
Sorted(S, Before(_, _)) ==
  [i \in 1 .. Cardinality(S) |->
     CHOOSE x \in S : Cardinality({y \in S : Before(y, x)}) = i - 1]

First(S) == CHOOSE e \in S : \A o \in S : LessEq(e, o)
Last(S) == CHOOSE e \in S : \A o \in S : LessEq(o, e)

\* A table built from a non-empty set of entries.
FileMetaData(number, entries) ==
  [number |-> number, smallest |-> First(entries), largest |-> Last(entries),
   entries |-> entries]

FileSize(f) == Cardinality(f.entries)

FilesOf(list) == {list[i] : i \in DOMAIN list}

TotalFileSize(list) ==
  LET sum[i \in 0 .. Len(list)] ==
        IF i = 0 THEN 0 ELSE sum[i - 1] + FileSize(list[i])
  IN sum[Len(list)]

-----------------------------------------------------------------------------
(* Which files of a level concern a key or a range.                        *)

\* The smallest index whose largest key is not before key, Len + 1 if none
\* (the code's binary search; its precondition is a sorted disjoint list).
FindFile(files, key) ==
  LET search[lr \in (1 .. Len(files) + 1) \X (1 .. Len(files) + 1)] ==
        IF lr[1] >= lr[2] THEN lr[2]
        ELSE IF Less(files[(lr[1] + lr[2]) \div 2].largest, key)
             THEN search[<<(lr[1] + lr[2]) \div 2 + 1, lr[2]>>]
             ELSE search[<<lr[1], (lr[1] + lr[2]) \div 2>>]
  IN search[<<1, Len(files) + 1>>]

AfterFile(user_key, f) == user_key # NULL /\ user_key > f.largest.key
BeforeFile(user_key, f) == user_key # NULL /\ user_key < f.smallest.key
Overlaps(f, r) == ~AfterFile(r[1], f) /\ ~BeforeFile(r[2], f)

SomeFileOverlapsRange(disjoint_sorted, files, smallest, largest) ==
  IF ~disjoint_sorted
  THEN \E f \in FilesOf(files) :
         Overlaps(f, <<smallest, largest>>)
  ELSE LET index ==
             IF smallest = NULL THEN 1
             ELSE FindFile(files, InternalKey(smallest, kMaxSequenceNumber,
                                              kValueTypeForSeek))
       IN index <= Len(files) /\ ~BeforeFile(largest, files[index])

OverlapInLevel(v, level, smallest, largest) ==
  SomeFileOverlapsRange(level > 0, v[level], smallest, largest)

\* The files of a list that overlap the user keys r[1] .. r[2], in their order.
Overlapping(files, r) ==
  LET places == Sorted({i \in DOMAIN files : Overlaps(files[i], r)}, LAMBDA i, j : i < j)
  IN [n \in DOMAIN places |-> files[places[n]]]

\* The range r and the keys of the files it overlaps; an open end stays open.
Widened(files, r) ==
  LET hits == {f \in FilesOf(files) : Overlaps(f, r)}
      lower == {r[1]} \cup {f.smallest.key : f \in hits}
      upper == {r[2]} \cup {f.largest.key : f \in hits}
  IN << IF r[1] = NULL THEN NULL ELSE CHOOSE k \in lower : \A o \in lower : k <= o,
        IF r[2] = NULL THEN NULL ELSE CHOOSE k \in upper : \A o \in upper : k >= o >>

\* Files of a level that overlap the user keys begin .. end (NULL: open).  In
\* level 0 a file taken widens the range and the search starts again.
GetOverlappingInputs(v, level, begin, end) ==
  LET files == v[level]
      widened[n \in 0 .. Len(files)] ==
        IF n = 0 THEN <<begin, end>> ELSE Widened(files, widened[n - 1])
  IN IF level = 0 THEN Overlapping(files, widened[Len(files)])
     ELSE Overlapping(files, <<begin, end>>)

\* First and last internal key over a non-empty list of files.
GetRange(list) ==
  [smallest |-> First({f.smallest : f \in FilesOf(list)}),
   largest  |-> Last({f.largest : f \in FilesOf(list)})]

GetRange2(list1, list2) == GetRange(list1 \o list2)

-----------------------------------------------------------------------------
(* Lookup in one version.                                                  *)

\* What a sorted run of entries (a table or a memtable) answers for the
\* internal key: its first entry at or after it, if of the same user key.
SaveValue(entries, ikey) ==
  LET newest == {e \in entries : /\ e.key = ikey.key /\ LessEq(ikey, e)
                                 /\ \A o \in entries : LessEq(ikey, o) => LessEq(e, o)}
  IN IF newest = {} THEN NULL ELSE CHOOSE e \in newest : TRUE

NewestFirst(a, b) == a.number > b.number

\* The files of a level that a lookup of ikey opens, in order.
FilesToSearch(v, level, ikey) ==
  IF level = 0
  THEN Sorted({f \in FilesOf(v[0]) : /\ ikey.key >= f.smallest.key
                                     /\ ikey.key <= f.largest.key}, NewestFirst)
  ELSE LET index == FindFile(v[level], ikey)
       IN IF index > Len(v[level]) \/ ikey.key < v[level][index].smallest.key
          THEN <<>> ELSE <<v[level][index]>>

\* Every file that overlaps the key, newest data first.
ForEachOverlapping(v, ikey) ==
  LET upTo[level \in -1 .. kNumLevels - 1] ==
        IF level = -1 THEN <<>>
        ELSE upTo[level - 1]
             \o With(FilesToSearch(v, level, ikey), LAMBDA files :
                     [i \in DOMAIN files |-> [level |-> level, file |-> files[i]]])
  IN upTo[kNumLevels - 1]

\* Version::Get: the entry found (NULL: none) and the file charged for the
\* seek, the first one opened when a second one had to be.
GetAnswer(probes, ikey) ==
  LET Found(i) == SaveValue(probes[i].file.entries, ikey)
      FirstOf(hits) == IF hits = {} THEN NULL
                       ELSE Found(CHOOSE i \in hits : \A j \in hits : i <= j)
  IN [entry |-> With({i \in DOMAIN probes : Found(i) # NULL}, FirstOf),
      seek_file |-> IF Len(probes) >= 2 /\ Found(1) = NULL THEN probes[1] ELSE NULL]

VersionGet(v, ikey) ==
  With(ForEachOverlapping(v, ikey), LAMBDA probes : GetAnswer(probes, ikey))

\* RecordReadSample charges the first of at least two overlapping files.
ReadSampleFile(v, ikey) ==
  With(ForEachOverlapping(v, ikey),
       LAMBDA probes : IF Len(probes) >= 2 THEN probes[1] ELSE NULL)

\* Broken variant: the files of level 0 are not counted.
OffsetWithoutLevel0(v, ikey) ==
  Cardinality(UNION {{e \in f.entries : Less(e, ikey)}
                       : f \in UNION {FilesOf(v[level]) : level \in Levels \ {0}}})

\* TableBuilder::Add: the index entry of a block that ends with last, when the
\* next block starts with next (InternalKeyComparator::FindShortestSeparator).
IndexKey(last, next) ==
  IF last.key < next.key /\ last.key < ShortestSeparator(last.key, next.key)
  THEN InternalKey(ShortestSeparator(last.key, next.key), kMaxSequenceNumber,
                   kValueTypeForSeek)
  ELSE last

\* Table::ApproximateOffsetOf of a key before the table's last one: the data
\* blocks, of BlockEntries entries each, that the index's Seek leaves behind.
EntriesPassed(f, ikey) ==
  LET keys == Sorted(f.entries, Less)
      ends == {i \in 1 .. Len(keys) - 1 : \E j \in 1 .. i : i = j * BlockEntries}
      passed == {i \in ends : Less(IndexKey(keys[i], keys[i + 1]), ikey)}
  IN {keys[i] : i \in {n \in DOMAIN keys : \E p \in passed : n <= p}}

\* VersionSet::ApproximateOffsetOf, of files that open, in entries.
ApproximateOffsetOf(v, ikey) ==
  LET files(level) ==
        IF level = 0 THEN FilesOf(v[0])
        ELSE LET after == {i \in DOMAIN v[level] : Less(ikey, v[level][i].smallest)}
             IN {v[level][i] : i \in {j \in DOMAIN v[level] : \A a \in after : j < a}}
      offset(f) == IF LessEq(f.largest, ikey) THEN FileSize(f)
                   ELSE IF Less(ikey, f.smallest) THEN 0
                   ELSE Cardinality(EntriesPassed(f, ikey))
      sumOf(S) == LET list == Sorted(S, NewestFirst)
                      sum[i \in 0 .. Len(list)] ==
                        IF i = 0 THEN 0 ELSE sum[i - 1] + offset(list[i])
                  IN sum[Len(list)]
      total[level \in -1 .. kNumLevels - 1] ==
        IF level = -1 THEN 0 ELSE total[level - 1] + sumOf(files(level))
  IN total[kNumLevels - 1]

-----------------------------------------------------------------------------
(* Version edits and what a version says about the next compaction.        *)

BySmallestKey(a, b) ==
  \/ Less(a.smallest, b.smallest)
  \/ a.smallest = b.smallest /\ a.number < b.number

\* Builder::Apply and SaveTo: deleted and added are sets of <<level, file>>.
\* A file both deleted and added at a level is kept.
ApplyEdit(v, deleted, added) ==
  [level \in Levels |->
     Sorted({f \in FilesOf(v[level]) : <<level, f>> \notin deleted}
              \cup {f \in {a[2] : a \in added} : <<level, f>> \in added},
            BySmallestKey)]

\* Finalize: the level with the best score, as the fraction bytes/limit.
Score(v, level) ==
  IF level = 0 THEN <<Len(v[0]), kL0_CompactionTrigger>>
  ELSE <<TotalFileSize(v[level]), MaxBytesForLevel[level]>>

Finalize(v) ==
  LET candidates == 0 .. kNumLevels - 2
      AtLeast(a, b) == Score(v, a)[1] * Score(v, b)[2] >= Score(v, b)[1] * Score(v, a)[2]
      best == {l \in candidates : \A o \in candidates : AtLeast(l, o)}
  IN CHOOSE l \in best : \A o \in best : l <= o

SizeCompaction(v) == Score(v, Finalize(v))[1] >= Score(v, Finalize(v))[2]

NeedsCompaction(v, file_to_compact) == SizeCompaction(v) \/ file_to_compact # NULL

\* Broken variant: as deep as allowed when level 0 does not overlap.
PickDeepestLevel(v, smallest, largest) ==
  IF OverlapInLevel(v, 0, smallest, largest) THEN 0 ELSE kMaxMemCompactLevel

\* Where a flushed memtable with keys smallest .. largest goes.
PickLevelForMemTableOutput(v, smallest, largest) ==
  LET Stops(level) ==
        \/ level >= kMaxMemCompactLevel
        \/ OverlapInLevel(v, level + 1, smallest, largest)
        \/ /\ level + 2 < kNumLevels
           /\ TotalFileSize(GetOverlappingInputs(v, level + 2, smallest, largest))
                > MaxGrandParentOverlapBytes
  IN IF OverlapInLevel(v, 0, smallest, largest) THEN 0
     ELSE CHOOSE level \in Levels : Stops(level) /\ \A l \in 0 .. level - 1 : ~Stops(l)

-----------------------------------------------------------------------------
(* Choosing the inputs of a compaction.                                    *)

\* The inputs of the next level.
ParentInputs(v, level, inputs0) ==
  With(GetRange(inputs0), LAMBDA r :
    GetOverlappingInputs(v, level + 1, r.smallest.key, r.largest.key))

\* The inputs of this level grown to the range of both, if that takes no more
\* files of the next level and is not too large; else as they were.
ExpandedInputs(v, level, inputs0, inputs1) ==
  LET Candidate(all) == GetOverlappingInputs(v, level, all.smallest.key, all.largest.key)
      Grows(expanded0) ==
        /\ Len(expanded0) > Len(inputs0)
        /\ TotalFileSize(inputs1) + TotalFileSize(expanded0)
             < ExpandedCompactionByteSizeLimit
        /\ Len(ParentInputs(v, level, expanded0)) = Len(inputs1)
  IN IF inputs1 = <<>> THEN inputs0
     ELSE With(With(GetRange2(inputs0, inputs1), Candidate),
               LAMBDA expanded0 : IF Grows(expanded0) THEN expanded0 ELSE inputs0)

\* A compaction: both sets of inputs, the grandparents they overlap and the
\* new compact pointer.
Compaction(v, level, inputs0, inputs1) ==
  LET Grandparents(range) ==
        IF level + 2 < kNumLevels
        THEN GetOverlappingInputs(v, level + 2, range.smallest.key, range.largest.key)
        ELSE <<>>
  IN [level |-> level, inputs0 |-> inputs0, inputs1 |-> inputs1,
      grandparents |-> With(GetRange2(inputs0, inputs1), Grandparents),
      pointer |-> GetRange(inputs0).largest]

SetupOtherInputs(v, level, inputs0) ==
  With(ParentInputs(v, level, inputs0), LAMBDA inputs1 :
    With(ExpandedInputs(v, level, inputs0, inputs1), LAMBDA final0 :
      Compaction(v, level, final0, IF final0 = inputs0 THEN inputs1
                                   ELSE ParentInputs(v, level, final0))))

\* The first file after a level's compact pointer, or the first one.
NextFile(files, pointer) ==
  LET after == {i \in DOMAIN files : pointer = NULL \/ Less(pointer, files[i].largest)}
  IN IF after = {} THEN files[1] ELSE files[CHOOSE i \in after : \A j \in after : i <= j]

\* The compaction of one file; in level 0 with all the files it overlaps.
CompactionOf(v, level, picked) ==
  SetupOtherInputs(v, level,
    IF level = 0
    THEN GetOverlappingInputs(v, 0, picked.smallest.key, picked.largest.key)
    ELSE <<picked>>)

\* A size compaction takes the first file after the level's compact pointer, a
\* seek compaction the file that was charged too often; NULL if neither.
PickCompaction(v, compact_pointer, file_to_compact) ==
  IF SizeCompaction(v)
  THEN With(Finalize(v), LAMBDA level :
         CompactionOf(v, level, NextFile(v[level], compact_pointer[level])))
  ELSE IF file_to_compact # NULL
  THEN CompactionOf(v, file_to_compact.level, file_to_compact.file)
  ELSE NULL

\* A manual compaction of begin .. end; above level 0 only as many files as
\* make up one target size.
CompactRange(v, level, begin, end) ==
  LET Enough(inputs) ==
        {i \in DOMAIN inputs :
           TotalFileSize(SubSeq(inputs, 1, i)) >= MaxFileSizeForLevel(level)}
      Bounded(inputs) ==
        IF level = 0 \/ Enough(inputs) = {} THEN inputs
        ELSE SubSeq(inputs, 1, CHOOSE i \in Enough(inputs) :
                                 \A j \in Enough(inputs) : i <= j)
  IN With(GetOverlappingInputs(v, level, begin, end), LAMBDA inputs :
       IF inputs = <<>> THEN NULL ELSE SetupOtherInputs(v, level, Bounded(inputs)))

IsTrivialMove(c) ==
  /\ Len(c.inputs0) = 1
  /\ c.inputs1 = <<>>
  /\ TotalFileSize(c.grandparents) <= MaxGrandParentOverlapBytes

AddInputDeletions(c) ==
  {<<c.level, f>> : f \in FilesOf(c.inputs0)}
    \cup {<<c.level + 1, f>> : f \in FilesOf(c.inputs1)}

-----------------------------------------------------------------------------
(* The merge of a compaction (DBImpl::DoCompactionWork).                   *)

\* No level below the output holds the key (scan of each level up to the
\* first file that does not end before it).
IsBaseLevelForKey(v, c, user_key) ==
  \A level \in c.level + 2 .. kNumLevels - 1 :
    LET reach == {i \in DOMAIN v[level] : user_key <= v[level][i].largest.key}
    IN reach # {} =>
         LET i == CHOOSE j \in reach : \A o \in reach : j <= o
         IN user_key < v[level][i].smallest.key

\* ShouldStopBefore: grandparents passed since the output was opened.
ShouldStopBefore(c, st, ikey) ==
  LET passed == {i \in st.grandparent_index .. Len(c.grandparents) :
                   \A j \in st.grandparent_index .. i :
                     Less(c.grandparents[j].largest, ikey)}
      index == st.grandparent_index + Cardinality(passed)
      bytes == st.overlapped_bytes
                 + IF st.seen_key
                   THEN TotalFileSize(SubSeq(c.grandparents, st.grandparent_index, index - 1))
                   ELSE 0
  IN [stop |-> bytes > MaxGrandParentOverlapBytes,
      grandparent_index |-> index,
      overlapped_bytes |-> IF bytes > MaxGrandParentOverlapBytes THEN 0 ELSE bytes]

\* Rule (A): an entry is hidden when a newer entry of its key is visible to
\* every snapshot; a deletion nothing lies below is dropped too.
Drop(v, c, smallest_snapshot, newer, e) ==
  \/ newer <= smallest_snapshot
  \/ /\ e.type = kTypeDeletion
     /\ e.seq <= smallest_snapshot
     /\ IsBaseLevelForKey(v, c, e.key)

\* last_sequence_for_key when entry i is handled.
LastSequenceForKey(input, i) ==
  IF i > 1 /\ input[i - 1].key = input[i].key THEN input[i - 1].seq ELSE kMaxSequenceNumber

\* FinishCompactionOutputFile, when an output is open.
CloseOutput(st) ==
  IF st.builder = {} THEN st
  ELSE [st EXCEPT !.done = Append(@, st.builder), !.builder = {}]

AddToOutput(c, st, e) ==
  With([st EXCEPT !.builder = @ \cup {e}], LAMBDA grown :
    IF Cardinality(grown.builder) >= MaxFileSizeForLevel(c.level)
    THEN CloseOutput(grown) ELSE grown)

\* One round of the merge loop.
MergeStep(v, c, smallest_snapshot, input, i, st) ==
  LET sb == ShouldStopBefore(c, st, input[i])
      next == [IF sb.stop THEN CloseOutput(st) ELSE st
                 EXCEPT !.seen_key = TRUE, !.grandparent_index = sb.grandparent_index,
                        !.overlapped_bytes = sb.overlapped_bytes]
  IN IF Drop(v, c, smallest_snapshot, LastSequenceForKey(input, i), input[i]) THEN next
     ELSE AddToOutput(c, next, input[i])

MergeOutputs(v, c, smallest_snapshot, input) ==
  LET run[i \in 0 .. Len(input)] ==
        IF i = 0
        THEN [done |-> <<>>, builder |-> {}, seen_key |-> FALSE,
              grandparent_index |-> 1, overlapped_bytes |-> 0]
        ELSE With(run[i - 1], LAMBDA st : MergeStep(v, c, smallest_snapshot, input, i, st))
  IN CloseOutput(run[Len(input)]).done

\* The entries of the outputs, one set per output file, of the compaction c of
\* version v.
CompactionOutputs(v, c, smallest_snapshot) ==
  With(Sorted(UNION {f.entries : f \in FilesOf(c.inputs0 \o c.inputs1)}, Less),
       LAMBDA input : MergeOutputs(v, c, smallest_snapshot, input))
=============================================================================
