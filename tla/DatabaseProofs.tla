--------------------------- MODULE DatabaseProofs ---------------------------
(***************************************************************************)
(* What is proved of a LevelDB database, as theorems of MCDatabase's       *)
(* specification: its files, by the theorems of DBFilesProofs, and the     *)
(* levels of its version, by those of LSMTreeProofs.                       *)
(***************************************************************************)
EXTENDS MCDatabase, LSMTreeProofs

FilesP == INSTANCE DBFilesProofs WITH MaxWrites <- MaxFileWrites, mem <- fileMem, imm <- fileImm,
                                      version <- tableNumbers

-----------------------------------------------------------------------------
(* The files                                                               *)

\* The files of an empty database, seen from the proofs about DBFiles.
LEMMA FilesInit == DatabaseInit => FilesP!Init
  BY DEF DatabaseInit, Files!Init, FilesP!Init, Files!Empty, FilesP!Empty

\* The operators of DBFiles are the same in both instances of it.
LEMMA OperatorsAgree ==
  /\ \A edits, k : Files!LastEdit(edits, k) = FilesP!LastEdit(edits, k)
  /\ \A edits, k : Files!ApplyEdits(edits, k) = FilesP!ApplyEdits(edits, k)
  /\ \A s : Files!ToSet(s) = FilesP!ToSet(s) /\ Files!Max(s) = FilesP!Max(s) /\ Files!Min(s) = FilesP!Min(s)
  /\ \A s : Files!Cardinality(s) = FilesP!Cardinality(s) /\ Files!Last(s) = FilesP!Last(s)
  /\ \A found : Files!NextEntry(found) = FilesP!NextEntry(found)
  /\ Files!LogIsSound = FilesP!LogIsSound /\ Files!Readable = FilesP!Readable
  /\ \A entries : Files!Readings(entries) = FilesP!Readings(entries)
<1>1. \A edits, k : Files!Whole(edits, k) = FilesP!Whole(edits, k)
  BY DEF Files!Whole, FilesP!Whole
<1>2. \A s : Files!Max(s) = FilesP!Max(s) /\ Files!Min(s) = FilesP!Min(s)
  BY DEF Files!Max, FilesP!Max, Files!Min, FilesP!Min
<1>3. \A edits, k : Files!LastEdit(edits, k) = FilesP!LastEdit(edits, k)
  BY <1>1, <1>2 DEF Files!LastEdit, FilesP!LastEdit
<1>4. \A edits, k : Files!ApplyEdits(edits, k) = FilesP!ApplyEdits(edits, k)
  BY <1>1 DEF Files!ApplyEdits, FilesP!ApplyEdits
<1>5. \A s : Files!ToSet(s) = FilesP!ToSet(s)
  BY DEF Files!ToSet, FilesP!ToSet
<1>6. \A s : Files!Cardinality(s) = FilesP!Cardinality(s)
  BY DEF Files!Cardinality, FilesP!Cardinality, Files!IsFiniteSet, FilesP!IsFiniteSet
<1>7. \A s : Files!Last(s) = FilesP!Last(s)
  BY DEF Files!Last, FilesP!Last
<1>8. \A found : Files!NextEntry(found) = FilesP!NextEntry(found)
  BY DEF Files!NextEntry, FilesP!NextEntry
<1>9. Files!LogIsSound = FilesP!LogIsSound
  BY <1>5 DEF Files!LogIsSound, FilesP!LogIsSound
<1>10. Files!Readable = FilesP!Readable
  BY <1>9 DEF Files!Readable, FilesP!Readable
<1>11. \A entries : Files!Readings(entries) = FilesP!Readings(entries)
  BY <1>5 DEF Files!Readings, FilesP!Readings
<1> QED BY <1>2, <1>3, <1>4, <1>5, <1>6, <1>7, <1>8, <1>9, <1>10, <1>11

\* A step of the files is one in the proofs' instance of DBFiles.
LEMMA FilesNext == Files!Next => FilesP!Next
<1> USE DEF Files!directory, FilesP!directory, Files!numbers, FilesP!numbers,
            Files!background, FilesP!background, Files!history, FilesP!history
<1>1. ASSUME NEW sync \in BOOLEAN, Files!Write(sync) PROVE FilesP!Write(sync)
  <2>1. Files!NextEntry(Files!Readable) = FilesP!NextEntry(FilesP!Readable)
    BY OperatorsAgree
  <2>2. Files!LogIsSound <=> FilesP!LogIsSound
    BY OperatorsAgree
  <2>3. \A files, n, x : /\ Files!AppendTo(files, n, x) = FilesP!AppendTo(files, n, x)
                        /\ Files!SyncFile(files, n) = FilesP!SyncFile(files, n)
    BY DEF Files!AppendTo, FilesP!AppendTo, Files!SyncFile, FilesP!SyncFile
  <2> QED BY ONLY <1>1, <2>1, <2>2, <2>3 DEF Files!Write, FilesP!Write
<1>27. ASSUME NEW sync \in BOOLEAN, Files!FailWrite(sync) PROVE FilesP!FailWrite(sync)
  BY <1>27, OperatorsAgree DEF Files!FailWrite, FilesP!FailWrite, Files!AppendTo, FilesP!AppendTo
<1>2. Files!MakeRoomForWrite => FilesP!MakeRoomForWrite
  BY DEF Files!MakeRoomForWrite, FilesP!MakeRoomForWrite, Files!Create, FilesP!Create,
         Files!Empty, FilesP!Empty
<1>3. Files!NewInternalIterator => FilesP!NewInternalIterator
  BY DEF Files!NewInternalIterator, FilesP!NewInternalIterator
<1>4. Files!CleanupIteratorState => FilesP!CleanupIteratorState
  BY DEF Files!CleanupIteratorState, FilesP!CleanupIteratorState
<1>5. Files!BeginFlush => FilesP!BeginFlush
  BY DEF Files!BeginFlush, FilesP!BeginFlush, Files!WriteTable, FilesP!WriteTable
<1>6. Files!EndFlush => FilesP!EndFlush
  BY DEF Files!EndFlush, FilesP!EndFlush, Files!SyncTable, FilesP!SyncTable,
         Files!Edit, FilesP!Edit
<1>7. Files!BeginMerge => FilesP!BeginMerge
  BY OperatorsAgree DEF Files!BeginMerge, FilesP!BeginMerge, Files!WriteTable, FilesP!WriteTable,
         Files!TableEntries, FilesP!TableEntries
<1>8. Files!EndMerge => FilesP!EndMerge
  BY DEF Files!EndMerge, FilesP!EndMerge, Files!SyncTable, FilesP!SyncTable,
         Files!Edit, FilesP!Edit
<1>9. Files!Manifest = FilesP!Manifest /\ Files!Appended = FilesP!Appended
  BY OperatorsAgree DEF Files!Manifest, FilesP!Manifest, Files!Appended, FilesP!Appended
<1>10. Files!EndBackgroundWork => FilesP!EndBackgroundWork
  BY DEF Files!EndBackgroundWork, FilesP!EndBackgroundWork
<1>11. \A v, n, o : Files!DeleteObsoleteFiles(v, n, o) => FilesP!DeleteObsoleteFiles(v, n, o)
  BY DEF Files!DeleteObsoleteFiles, FilesP!DeleteObsoleteFiles, Files!Keep, FilesP!Keep,
         Files!Entries, FilesP!Entries
<1>12. Files!AppendEdit => FilesP!AppendEdit
  BY <1>9 DEF Files!AppendEdit, FilesP!AppendEdit, Files!AppendTo, FilesP!AppendTo
<1>13. Files!SyncEdit => FilesP!SyncEdit
  BY <1>9 DEF Files!SyncEdit, FilesP!SyncEdit, Files!SyncFile, FilesP!SyncFile
<1>14. Files!FailEdit => FilesP!FailEdit
  BY <1>9, <1>10 DEF Files!FailEdit, FilesP!FailEdit, Files!AppendTo, FilesP!AppendTo
<1>15. Files!InstallEdit => FilesP!InstallEdit
  <2> SUFFICES ASSUME Files!InstallEdit PROVE FilesP!InstallEdit
    OBVIOUS
  <2>1. ~bg_error => FilesP!DeleteObsoleteFiles(tableNumbers', log_number', pending_outputs')
    BY <1>11 DEF Files!InstallEdit
  <2> QED BY <1>9, <1>10, <2>1 DEF Files!InstallEdit, FilesP!InstallEdit
<1>16. \A files : Files!Survivors(files) = FilesP!Survivors(files)
  BY OperatorsAgree DEF Files!Survivors, FilesP!Survivors
<1>17. Files!Crash => FilesP!Crash
  BY <1>16 DEF Files!Crash, FilesP!Crash
<1>18. Files!Recover => FilesP!Recover
  <2>1. \A edits, k : Files!Whole(edits, k) = FilesP!Whole(edits, k)
    BY DEF Files!Whole, FilesP!Whole
  <2>2. \A edits : Files!Torn(edits) = FilesP!Torn(edits)
    BY DEF Files!Torn, FilesP!Torn
  <2> QED BY <1>9, <2>1, <2>2, OperatorsAgree DEF Files!Recover, FilesP!Recover
<1>19. Files!RecoverLogFile => FilesP!RecoverLogFile
  BY OperatorsAgree DEF Files!RecoverLogFile, FilesP!RecoverLogFile, Files!WriteTable, FilesP!WriteTable
<1>20. Files!OpenLog => FilesP!OpenLog
  BY DEF Files!OpenLog, FilesP!OpenLog, Files!Create, FilesP!Create, Files!Empty, FilesP!Empty
<1>21. Files!WriteSnapshot => FilesP!WriteSnapshot
  BY DEF Files!WriteSnapshot, FilesP!WriteSnapshot, Files!Create, FilesP!Create,
         Files!Empty, FilesP!Empty, Files!Edit, FilesP!Edit
<1>22. Files!SyncNewManifest => FilesP!SyncNewManifest
  BY DEF Files!SyncNewManifest, FilesP!SyncNewManifest, Files!SyncFile, FilesP!SyncFile
<1>23. Files!SetCurrentFile => FilesP!SetCurrentFile
  BY DEF Files!SetCurrentFile, FilesP!SetCurrentFile
<1>24. Files!OpenInstall => FilesP!OpenInstall
  <2> SUFFICES ASSUME Files!OpenInstall PROVE FilesP!OpenInstall
    OBVIOUS
  <2>1. FilesP!DeleteObsoleteFiles(tableNumbers', log_number', {})
    BY <1>11 DEF Files!OpenInstall
  <2> QED BY <2>1 DEF Files!OpenInstall, FilesP!OpenInstall
<1>25. Files!OpenFails => FilesP!OpenFails
  BY DEF Files!OpenFails, FilesP!OpenFails, Files!Keep, FilesP!Keep
<1>26. Files!Open => FilesP!Open
  BY <1>18, <1>19, <1>20, <1>21, <1>22, <1>23, <1>24, <1>25 DEF Files!Open, FilesP!Open
<1> QED BY <1>1, <1>2, <1>3, <1>4, <1>5, <1>6, <1>7, <1>8, <1>12, <1>13, <1>14, <1>15, <1>17, <1>26,
           <1>27
        DEF Files!Next, FilesP!Next

\* A step of the database is one of its files, or leaves them alone.
LEMMA FilesStep == [DatabaseNext]_<<part, fileVars, vars>> => [FilesP!Next]_FilesP!vars
<1> USE DEF FilesP!directory, FilesP!numbers, FilesP!background, FilesP!history
<1>1. UNCHANGED fileVars => UNCHANGED FilesP!vars
  BY DEF fileVars, FilesP!vars
<1> QED BY <1>1, FilesNext DEF DatabaseNext

\* What the properties say of the files is the same in both instances.
LEMMA StatesAgree ==
  /\ Files!Manifest = FilesP!Manifest /\ Files!PossibleLengths = FilesP!PossibleLengths
  /\ \A k : Files!VersionAt(k) = FilesP!VersionAt(k) /\ Files!LogAt(k) = FilesP!LogAt(k)
  /\ \A edits, k : Files!Whole(edits, k) = FilesP!Whole(edits, k)
  /\ \A ns : Files!TableEntries(ns) = FilesP!TableEntries(ns) /\ Files!Ids(ns) = FilesP!Ids(ns)
  /\ \A n : Files!Complete(n) = FilesP!Complete(n) /\ Files!Entries(n) = FilesP!Entries(n)
  /\ \A l : Files!SurelyRead(l) = FilesP!SurelyRead(l) /\ Files!Torn(l) = FilesP!Torn(l)
<1>1. Files!Manifest = FilesP!Manifest
  BY DEF Files!Manifest, FilesP!Manifest
<1>2. Files!PossibleLengths = FilesP!PossibleLengths
  BY <1>1 DEF Files!PossibleLengths, FilesP!PossibleLengths
<1>3. \A k : Files!VersionAt(k) = FilesP!VersionAt(k) /\ Files!LogAt(k) = FilesP!LogAt(k)
  BY <1>1, OperatorsAgree DEF Files!VersionAt, FilesP!VersionAt, Files!LogAt, FilesP!LogAt
<1>4. \A edits, k : Files!Whole(edits, k) = FilesP!Whole(edits, k)
  BY DEF Files!Whole, FilesP!Whole
<1>5. \A ns : Files!TableEntries(ns) = FilesP!TableEntries(ns) /\ Files!Ids(ns) = FilesP!Ids(ns)
  BY DEF Files!TableEntries, FilesP!TableEntries, Files!Ids, FilesP!Ids
<1>6. \A n : Files!Complete(n) = FilesP!Complete(n) /\ Files!Entries(n) = FilesP!Entries(n)
  BY DEF Files!Complete, FilesP!Complete, Files!Entries, FilesP!Entries
<1>7. \A l : Files!SurelyRead(l) = FilesP!SurelyRead(l)
  BY OperatorsAgree DEF Files!SurelyRead, FilesP!SurelyRead
<1>8. \A l : Files!Torn(l) = FilesP!Torn(l)
  BY DEF Files!Torn, FilesP!Torn
<1> QED BY <1>1, <1>2, <1>3, <1>4, <1>5, <1>6, <1>7, <1>8

\* DeleteObsoleteFiles and pending_outputs_: whenever a write, an iterator, a
\* flush, a merge and a crash come between, what is in use stays on the disk.
\* (NULL stands for no memtable, version, edit or piece of work.)
THEOREM NothingInUseIsDeleted ==
  ASSUME FilesP!NullIsNoValue PROVE DatabaseSpec => []FilesInUseExist
<1>1. FilesP!FilesInUseExist => FilesInUseExist
  BY StatesAgree DEF FilesInUseExist, Files!FilesInUseExist, FilesP!FilesInUseExist
<1>2. FilesP!Spec => []FilesP!FilesInUseExist
  BY FilesP!NothingInUseIsDeleted
<1> QED BY <1>1, <1>2, FilesInit, FilesStep, PTL DEF DatabaseSpec, FilesP!Spec

\* Write with sync, LogAndApply and the machine that stops at any moment, also in
\* DB::Open: what was acknowledged after a sync to a log no append to which had
\* failed is in the files the next DB::Open reads.
THEOREM SyncedWritesAreFound ==
  ASSUME FilesP!NullIsNoValue PROVE DatabaseSpec => []SyncedWritesSurvive
<1> DEFINE
      Held(k) ==
        /\ Files!Whole(Files!Manifest.data, k) # {}
        /\ promised \subseteq
             Files!Ids(Files!TableEntries(Files!VersionAt(k) \cap DOMAIN tables))
             \cup Files!Ids(UNION {Files!SurelyRead(logs[n])
                                  : n \in {m \in DOMAIN logs : m >= Files!LogAt(k)}})
      HeldThere(k) ==
        /\ FilesP!Whole(FilesP!Manifest.data, k) # {}
        /\ promised \subseteq
             FilesP!Ids(FilesP!TableEntries(FilesP!VersionAt(k) \cap DOMAIN tables))
             \cup FilesP!Ids(UNION {FilesP!SurelyRead(logs[n])
                                   : n \in {m \in DOMAIN logs : m >= FilesP!LogAt(k)}})
<1>a. ASSUME NEW k PROVE HeldThere(k) => Held(k)
  <2>1. UNION {Files!SurelyRead(logs[n])
               : n \in {m \in DOMAIN logs : m >= Files!LogAt(k)}}
        = UNION {FilesP!SurelyRead(logs[n])
                 : n \in {m \in DOMAIN logs : m >= FilesP!LogAt(k)}}
    BY ONLY StatesAgree, OperatorsAgree
  <2>2. Files!TableEntries(Files!VersionAt(k) \cap DOMAIN tables)
        = FilesP!TableEntries(FilesP!VersionAt(k) \cap DOMAIN tables)
    BY ONLY StatesAgree
  <2>3. /\ Files!Manifest = FilesP!Manifest
        /\ \A edits, n : Files!Whole(edits, n) = FilesP!Whole(edits, n)
        /\ \A ns : Files!Ids(ns) = FilesP!Ids(ns)
    BY ONLY StatesAgree
  <2> QED BY ONLY <2>1, <2>2, <2>3
<1>b. Files!PossibleLengths = FilesP!PossibleLengths
  BY ONLY StatesAgree
<1>c. FilesP!SyncedWritesSurvive => (promised # {} => \A k \in FilesP!PossibleLengths : HeldThere(k))
  BY ONLY Zenon DEF FilesP!SyncedWritesSurvive
<1>d. (promised # {} => \A k \in Files!PossibleLengths : Held(k)) => SyncedWritesSurvive
  BY ONLY Zenon DEF SyncedWritesSurvive, Files!SyncedWritesSurvive
<1> HIDE DEF Held, HeldThere
<1>1. FilesP!SyncedWritesSurvive => SyncedWritesSurvive
  BY ONLY <1>a, <1>b, <1>c, <1>d, Zenon
<1>2. FilesP!Spec => []FilesP!SyncedWritesSurvive
  BY FilesP!SyncedWritesAreFound
<1> QED BY <1>1, <1>2, FilesInit, FilesStep, PTL DEF DatabaseSpec, FilesP!Spec

\* DB::Open: once it is done the database has every write acknowledged after a
\* sync to a log no append to which had failed, each sequence number once, and
\* counts on from the largest; it refuses only a manifest with an edit behind the
\* piece of a failed one.
THEOREM OpenFindsEverything ==
  ASSUME FilesP!NullIsNoValue PROVE DatabaseSpec => []OpenDatabaseIsComplete
<1>1. Files!Contents = FilesP!Contents
  BY StatesAgree DEF Files!Contents, FilesP!Contents
<1>2. FilesP!OpenDatabaseIsComplete => OpenDatabaseIsComplete
  BY <1>1, StatesAgree
  DEF OpenDatabaseIsComplete, Files!OpenDatabaseIsComplete, FilesP!OpenDatabaseIsComplete
<1>3. FilesP!Spec => []FilesP!OpenDatabaseIsComplete
  BY FilesP!OpenFindsEverything
<1> QED BY <1>2, <1>3, FilesInit, FilesStep, PTL DEF DatabaseSpec, FilesP!Spec

-----------------------------------------------------------------------------
(* The levels                                                              *)

\* A step of the database is one of its levels, or leaves them alone.
LEMMA LevelsOfTheDatabase == DatabaseSpec => Spec
<1>1. DatabaseInit => Init
  BY DEF DatabaseInit
<1>2. [DatabaseNext]_<<part, fileVars, vars>> => [Next]_vars
  BY DEF DatabaseNext
<1> QED BY <1>1, <1>2, PTL DEF DatabaseSpec, Spec

\* The assertions of MaybeAddFile and SaveTo: the files of a level above 0 of
\* the database stay sorted and disjoint while nobody calls CompactRange.
THEOREM DatabaseLevelsStayInOrder ==
  ASSUME MaxRangeCalls = 0 PROVE DatabaseSpec => []LevelsDisjoint
BY LevelsOfTheDatabase, LevelsStayInOrder, PTL

\* "Entries never hop across levels", on which Version::Get of the database
\* relies: of one key, a smaller level has what is newer.
THEOREM DatabaseSmallerLevelsStayNewer ==
  ASSUME MaxRangeCalls = 0, MaxSnapshots = 0 PROVE DatabaseSpec => []SmallerLevelIsNewer
BY LevelsOfTheDatabase, SmallerLevelsStayNewer, PTL

\* GetApproximateSizes of the database counts the entries between two keys but for
\* a data block of every table that one of the keys falls into.
THEOREM DatabaseSizesStayBounded ==
  ASSUME MaxRangeCalls = 0 PROVE DatabaseSpec => []ApproximateSizesBounded
BY LevelsOfTheDatabase, ApproximateSizesStayBounded, PTL
=============================================================================
