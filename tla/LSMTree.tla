------------------------------ MODULE LSMTree ------------------------------
(***************************************************************************)
(* LevelDB's tree of sorted runs: the memtables, the levels of the current *)
(* version, and the background thread that flushes and compacts while      *)
(* clients write, read and hold snapshots (db/db_impl.cc on top of         *)
(* db/version_set.cc).  A compaction runs with the mutex released, so      *)
(* writes, snapshots and even the flush of a memtable fall between its     *)
(* start and the installation of its results.  Durability and errors are   *)
(* the subject of DBFiles.                                                 *)
(***************************************************************************)
EXTENDS VersionSet

CONSTANTS
  Keys,                \* user keys, ordered as integers
  MaxWrites,           \* bound on the number of writes
  Scripts,             \* the sequences of MaxWrites writes a run may make
  write_buffer_size,   \* entries a memtable holds before it is replaced
  kL0_StopWritesTrigger,
  MaxSnapshots,        \* snapshots held at a time
  Ranges,              \* <<begin, end>> of the calls of CompactRange
  MaxRangeCalls,       \* number of those calls
  SizeKeys,            \* user keys that GetApproximateSizes is asked about
  Readers,             \* whether reads, which only change statistics, are taken
  AllowedSeeks         \* FileMetaData::allowed_seeks of a new file

ASSUME LSMAssumption ==
  /\ Keys \subseteq Int /\ NULL \notin Keys /\ SizeKeys \subseteq Int
  /\ \A a, b \in Keys : a < b => /\ ShortestSeparator(a, b) \in Int
                                /\ a <= ShortestSeparator(a, b) /\ ShortestSeparator(a, b) < b
  /\ MaxWrites \in Nat /\ MaxWrites < kMaxSequenceNumber
  /\ Scripts \subseteq [1 .. MaxWrites -> [key : Keys, type : {kTypeDeletion, kTypeValue}]]

VARIABLES
  history,             \* the writes made; write i has sequence number i
  mem, imm,            \* the memtables, imm NULL when there is none
  version,             \* current_
  next_file,           \* next_file_number_
  snapshots,           \* sequence numbers held
  compact_pointer,     \* per level
  allowed_seeks,       \* per file of the current version
  file_to_compact,     \* of the current version
  compaction,          \* the compaction whose merge runs, or NULL
  manual,              \* manual_compaction_
  range,               \* the thread inside CompactRange, or NULL
  calls                \* calls of CompactRange so far

vars == <<history, mem, imm, version, next_file, snapshots, compact_pointer,
          allowed_seeks, file_to_compact, compaction, manual, range, calls>>

LastSequence == Len(history)
ReadPoints == snapshots \cup {LastSequence}
MemEntries(m) == IF m = NULL THEN {} ELSE m

VersionFiles(v) == UNION {FilesOf(v[level]) : level \in Levels}

Init ==
  /\ history = <<>>
  /\ mem = {} /\ imm = NULL
  /\ version = [level \in Levels |-> <<>>]
  /\ next_file = 2
  /\ snapshots = {}
  /\ compact_pointer = [level \in Levels |-> NULL]
  /\ allowed_seeks = [n \in {} |-> 0]
  /\ file_to_compact = NULL
  /\ compaction = NULL /\ manual = NULL /\ range = NULL
  /\ calls = 0

-----------------------------------------------------------------------------
(* Client threads.                                                         *)

\* DBImpl::Write of one update while MakeRoomForWrite finds room.
Write ==
  /\ Cardinality(mem) <= write_buffer_size
  /\ LastSequence < MaxWrites
  /\ \E script \in Scripts :
       /\ SubSeq(script, 1, LastSequence) = history
       /\ LET op == script[LastSequence + 1]
          IN /\ history' = Append(history, op)
             /\ mem' = mem \cup {InternalKey(op.key, LastSequence + 1, op.type)}
  /\ UNCHANGED <<imm, version, next_file, snapshots, compact_pointer, allowed_seeks,
                 file_to_compact, compaction, manual, range, calls>>

\* MakeRoomForWrite: the memtable becomes the immutable one.
SwitchMemTable(force) ==
  /\ force \/ Cardinality(mem) > write_buffer_size
  /\ imm = NULL
  /\ Len(version[0]) < kL0_StopWritesTrigger
  /\ imm' = mem /\ mem' = {}
  /\ next_file' = next_file + 1        \* the number of the new log

MakeRoomForWrite ==
  /\ SwitchMemTable(FALSE)
  /\ UNCHANGED <<history, version, snapshots, compact_pointer, allowed_seeks,
                 file_to_compact, compaction, manual, range, calls>>

GetSnapshot ==
  /\ Cardinality(snapshots) < MaxSnapshots
  /\ LastSequence \notin snapshots
  /\ snapshots' = snapshots \cup {LastSequence}
  /\ UNCHANGED <<history, mem, imm, version, next_file, compact_pointer, allowed_seeks,
                 file_to_compact, compaction, manual, range, calls>>

ReleaseSnapshot ==
  /\ \E s \in snapshots : snapshots' = snapshots \ {s}
  /\ UNCHANGED <<history, mem, imm, version, next_file, compact_pointer, allowed_seeks,
                 file_to_compact, compaction, manual, range, calls>>

LookupKey(k, s) == InternalKey(k, s, kValueTypeForSeek)

\* DBImpl::Get: the memtables first, then the version.
Lookup(k, s) ==
  LET ikey == LookupKey(k, s)
  IN With(SaveValue(mem, ikey), LAMBDA inMem :
       IF inMem # NULL THEN inMem
       ELSE With(SaveValue(MemEntries(imm), ikey), LAMBDA inImm :
              IF inImm # NULL THEN inImm ELSE VersionGet(version, ikey).entry))

\* The value a read returns: the number of the write that set it, or NULL.
GetValue(k, s) ==
  With(Lookup(k, s), LAMBDA e :
    IF e = NULL THEN NULL ELSE IF e.type = kTypeDeletion THEN NULL ELSE e.seq)

\* UpdateStats; the counter is an int that is only compared with 0.
UpdateStats(probe) ==
  LET n == probe.file.number
      left == IF allowed_seeks[n] > 0 THEN allowed_seeks[n] - 1 ELSE 0
  IN /\ allowed_seeks' = [allowed_seeks EXCEPT ![n] = left]
     /\ file_to_compact' = IF left = 0 /\ file_to_compact = NULL THEN probe
                           ELSE file_to_compact

\* Get and RecordReadSample change nothing but the statistics of a file.
Get(k, s) ==
  LET ikey == LookupKey(k, s)
      probe == VersionGet(version, ikey).seek_file
  IN /\ Readers
     /\ SaveValue(mem, ikey) = NULL /\ SaveValue(MemEntries(imm), ikey) = NULL
     /\ probe # NULL
     /\ UpdateStats(probe)
     /\ UNCHANGED <<history, mem, imm, version, next_file, snapshots, compact_pointer,
                    compaction, manual, range, calls>>

RecordReadSample(e) ==
  LET probe == ReadSampleFile(version, e)
  IN /\ Readers
     /\ probe # NULL
     /\ UpdateStats(probe)
     /\ UNCHANGED <<history, mem, imm, version, next_file, snapshots, compact_pointer,
                    compaction, manual, range, calls>>

\* DBImpl::CompactRange: a forced flush, then every level from 0 down to the
\* last one with data in the range, each through TEST_CompactRange.
CompactRangeCall ==
  /\ range = NULL /\ calls < MaxRangeCalls
  /\ \E r \in Ranges :
       LET hit == {l \in Levels \ {0} : OverlapInLevel(version, l, r[1], r[2])}
       IN range' = [begin |-> r[1], from |-> r[1], end |-> r[2], step |-> "room", level |-> 0,
                    last |-> IF hit = {} THEN 1
                             ELSE CHOOSE l \in hit : \A o \in hit : l >= o]
  /\ calls' = calls + 1
  /\ UNCHANGED <<history, mem, imm, version, next_file, snapshots, compact_pointer,
                 allowed_seeks, file_to_compact, compaction, manual>>

\* TEST_CompactMemTable: a write of no batch, then the wait for the flush.
ForceMemTable ==
  /\ range # NULL
  /\ range.step = "room"
  /\ SwitchMemTable(TRUE)
  /\ range' = [range EXCEPT !.step = "wait"]
  /\ UNCHANGED <<history, version, snapshots, compact_pointer, allowed_seeks,
                 file_to_compact, compaction, manual, calls>>

TEST_CompactRange ==
  /\ range # NULL
  /\ \/ range.step = "wait" /\ imm = NULL
     \/ range.step = "level"
  /\ IF range.level >= range.last
     THEN range' = NULL /\ UNCHANGED manual
     ELSE /\ manual = NULL
          /\ manual' = [level |-> range.level, begin |-> range.begin, end |-> range.end]
          /\ range' = [range EXCEPT !.step = "waitlevel"]
  /\ UNCHANGED <<history, mem, imm, version, next_file, snapshots, compact_pointer,
                 allowed_seeks, file_to_compact, compaction, calls>>

-----------------------------------------------------------------------------
(* The background thread.                                                  *)

\* LogAndApply: the new version gets fresh statistics.
LogAndApply(deleted, added) ==
  /\ version' = ApplyEdit(version, deleted, added)
  /\ file_to_compact' = NULL
  /\ LET fresh == {a[2].number : a \in added}
     IN allowed_seeks' = [n \in {f.number : f \in VersionFiles(version')} |->
                            IF n \in fresh THEN AllowedSeeks ELSE allowed_seeks[n]]

\* CompactMemTable and WriteLevel0Table; an empty memtable leaves no file.
FlushImm ==
  /\ imm # NULL
  /\ imm' = NULL
  /\ next_file' = next_file + 1
  /\ IF imm = {}
     THEN LogAndApply({}, {})
     ELSE LET f == FileMetaData(next_file, imm)
              level == PickLevelForMemTableOutput(version, f.smallest.key, f.largest.key)
          IN LogAndApply({}, {<<level, f>>})

\* Called by BackgroundCompaction, and by DoCompactionWork in the middle of a
\* merge: compaction stays as it is.
CompactMemTable ==
  /\ FlushImm
  /\ UNCHANGED <<history, mem, snapshots, compact_pointer, compaction, manual, range, calls>>

\* Broken variant: the snapshots held are not looked at.
SnapshotsIgnored == LastSequence

SmallestSnapshot ==
  IF snapshots = {} THEN LastSequence
  ELSE CHOOSE s \in snapshots : \A o \in snapshots : s <= o

\* DoCompactionWork up to the release of the mutex.  The merge depends only on
\* what is fixed here, so its outputs are known.
StartCompaction(c, is_manual) ==
  \E outputs \in {CompactionOutputs(version, c, SmallestSnapshot)} :
     /\ compaction' = [c |-> c, is_manual |-> is_manual,
                       outputs |-> {<<c.level + 1, FileMetaData(next_file + i - 1, outputs[i])>>
                                      : i \in DOMAIN outputs}]
     /\ next_file' = next_file + Len(outputs)
     /\ compact_pointer' = [compact_pointer EXCEPT ![c.level] = c.pointer]

\* Broken variant: the end of the range is not reported to the waiting thread.
BackgroundManualForgetsDone ==
  /\ compaction = NULL /\ imm = NULL
  /\ manual # NULL
  /\ \E c \in {CompactRange(version, manual.level, manual.begin, manual.end)} :
        IF c = NULL
        THEN manual' = NULL /\ UNCHANGED <<compaction, next_file, compact_pointer, range>>
        ELSE StartCompaction(c, TRUE) /\ UNCHANGED <<manual, range>>
  /\ UNCHANGED <<history, mem, imm, version, snapshots, allowed_seeks, file_to_compact, calls>>

\* BackgroundCompaction without a memtable to flush: a manual compaction ...
BackgroundManual ==
  /\ compaction = NULL /\ imm = NULL
  /\ manual # NULL
  /\ \E c \in {CompactRange(version, manual.level, manual.begin, manual.end)} :
        IF c = NULL
        THEN /\ manual' = NULL
             /\ range' = [range EXCEPT !.step = "level", !.level = @ + 1,
                                       !.begin = range.from]
             /\ UNCHANGED <<compaction, next_file, compact_pointer>>
        ELSE /\ StartCompaction(c, TRUE)
             /\ UNCHANGED <<manual, range>>
  /\ UNCHANGED <<history, mem, imm, version, snapshots, allowed_seeks, file_to_compact, calls>>

\* ... or one the version asks for: a file moved as it is or a merge.
BackgroundAutomatic ==
  /\ compaction = NULL /\ imm = NULL /\ manual = NULL
  /\ NeedsCompaction(version, file_to_compact)
  /\ \E c \in {PickCompaction(version, compact_pointer, file_to_compact)} :
        IF IsTrivialMove(c)
        THEN /\ LogAndApply({<<c.level, c.inputs0[1]>>}, {<<c.level + 1, c.inputs0[1]>>})
             /\ compact_pointer' = [compact_pointer EXCEPT ![c.level] = c.pointer]
             /\ UNCHANGED <<compaction, next_file>>
        ELSE /\ StartCompaction(c, FALSE)
             /\ UNCHANGED <<version, allowed_seeks, file_to_compact>>
  /\ UNCHANGED <<history, mem, imm, snapshots, manual, range, calls>>

\* InstallCompactionResults and, for a manual compaction, the range left.
InstallCompactionResults ==
  /\ compaction # NULL
  /\ LET c == compaction.c
     IN /\ LogAndApply(AddInputDeletions(c), compaction.outputs)
        /\ IF compaction.is_manual
           THEN /\ manual' = NULL
                /\ range' = [range EXCEPT !.step = "level",
                                          !.begin = c.inputs0[Len(c.inputs0)].largest.key]
           ELSE UNCHANGED <<manual, range>>
  /\ compaction' = NULL
  /\ UNCHANGED <<history, mem, imm, next_file, snapshots, compact_pointer, calls>>

BackgroundThread ==
  \/ CompactMemTable
  \/ BackgroundManual
  \/ BackgroundAutomatic
  \/ InstallCompactionResults

Next ==
  \/ Write
  \/ MakeRoomForWrite
  \/ GetSnapshot
  \/ ReleaseSnapshot
  \/ \E k \in Keys, s \in ReadPoints : Get(k, s)
  \/ \E f \in VersionFiles(version) : \E e \in f.entries : RecordReadSample(e)
  \/ CompactRangeCall
  \/ ForceMemTable
  \/ TEST_CompactRange
  \/ BackgroundThread

Spec == Init /\ [][Next]_vars

\* The background thread and the thread inside CompactRange keep running;
\* clients need not do anything.
Fairness ==
  /\ WF_vars(BackgroundThread)
  /\ WF_vars(ForceMemTable)
  /\ WF_vars(TEST_CompactRange)

FairSpec == Spec /\ Fairness

-----------------------------------------------------------------------------
(* Properties.                                                             *)

\* Files of a level above 0 are sorted and disjoint: what the asserts of
\* MaybeAddFile and SaveTo demand and FindFile's binary search relies on.
LevelsDisjoint ==
  \A level \in Levels \ {0} : \A i \in 2 .. Len(version[level]) :
    Less(version[level][i - 1].largest, version[level][i].smallest)

\* "Entries never hop across levels": of one key, everything in a smaller
\* level is newer than everything in a larger one, which is why Version::Get
\* may stop at the first level that answers.
SmallerLevelIsNewer ==
  \A l1, l2 \in Levels : l1 < l2 =>
    \A f1 \in FilesOf(version[l1]), f2 \in FilesOf(version[l2]) :
      \A e1 \in f1.entries, e2 \in f2.entries : e1.key = e2.key => e1.seq > e2.seq

\* The key that GetApproximateSizes makes of a user key.
SeekTo(k) == InternalKey(k, kMaxSequenceNumber, kValueTypeForSeek)

\* The last entries before ikey of a table, as many as a data block holds.
LastBefore(f, ikey) ==
  LET below == {e \in f.entries : Less(e, ikey)}
  IN {e \in below : Cardinality({o \in below : LessEq(e, o)}) <= BlockEntries}

\* Those of all the tables that hold keys on both sides of ikey.
LastBlocks(ikey) ==
  UNION {LastBefore(f, ikey) :
           f \in {g \in VersionFiles(version) : Less(g.smallest, ikey) /\ Less(ikey, g.largest)}}

\* The entries of the tables from user key a up to b.
EntriesBetween(a, b) ==
  UNION {{e \in f.entries : a <= e.key /\ e.key < b} : f \in VersionFiles(version)}

\* GetApproximateSizes: the offsets that ApproximateOffsetOf yields grow with
\* the key, and what they differ by is the number of the entries in between but
\* for at most a data block in every table that one of the two keys falls into.
ApproximateSizesBounded ==
  LET offset == [k \in SizeKeys |-> ApproximateOffsetOf(version, SeekTo(k))]
  IN \A a, b \in SizeKeys : a < b =>
       LET size == offset[b] - offset[a]
           between == Cardinality(EntriesBetween(a, b))
       IN /\ size >= 0
          /\ between - Cardinality(LastBlocks(SeekTo(b))) <= size
          /\ size <= between + Cardinality(LastBlocks(SeekTo(a)))

\* The tree implements the map db.h promises, snapshots included: a read gives
\* the value of the last of the writes made (history) to its key, as of the
\* snapshot, whatever flushes, compactions, moves and releases of other
\* snapshots fell in between.
KV == INSTANCE KVStore WITH
        updates <- history,
        SnapshotIds <- 0 .. MaxWrites,
        dict <- [k \in Keys |-> GetValue(k, LastSequence)],
        snaps <- [s \in snapshots |-> [k \in Keys |-> GetValue(k, s)]]

ImplementsKVStore == KV!Spec

\* A thread that calls CompactRange returns: between its steps, the flushes and
\* the automatic compactions, the background thread comes back to its request.
CompactRangeReturns == (range # NULL) ~> (range = NULL)
=============================================================================
