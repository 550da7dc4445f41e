------------------------------ MODULE DBFiles ------------------------------
(***************************************************************************)
(* The files of a LevelDB database: logs, tables, MANIFEST and CURRENT, as *)
(* db/db_impl.cc and db/version_set.cc create, sync, replace and delete    *)
(* them, with crashes of the machine between any two steps and the         *)
(* recovery of the next DB::Open.  What was synced survives a crash; of    *)
(* the rest any prefix does.  Creating, renaming and deleting a file is    *)
(* atomic and durable.  The writers' queue is the subject of WriteQueue,   *)
(* the levels and the order of tables that of LSMTree: a version is here   *)
(* the set of its tables.  What a failed append does to the records behind *)
(* it is the subject of LogFormat: a reader may find them or not.  The     *)
(* options reuse_logs and paranoid_checks are off, their defaults.         *)
(***************************************************************************)
EXTENDS Naturals, FiniteSets, SequencesExt

CONSTANTS
  MaxWrites,           \* bound on the writes
  MaxFile,             \* bound on the file numbers of a running database
  MaxCrashes, MaxFaults,
  NULL

VARIABLES
  logs, manifests,     \* the directory: functions from numbers to [data, synced], data a
                       \* sequence and synced a length for logs and manifests ...
  tables,              \* ... and for a table, which is built in one go, a set and a flag
  current,             \* the manifest CURRENT names
  phase,               \* "down", the steps of DB::Open, or "up"
  mem, imm,            \* the memtables; imm may be NULL
  logfile_number, log_number, manifest_file_number, next_file_number, last_sequence,
  version,             \* the numbers of the tables of current_
  pinned,              \* a version an iterator holds, or NULL
  pending_outputs,
  flush, merge,        \* what the background thread is doing, or NULL
  edit,                \* the edit that is being applied, or NULL
  replay,              \* logs DB::Open has still to replay
  bg_error,
  issued, promised,    \* history: writes made, writes acknowledged after a sync
  crashes, faults

directory == <<logs, tables, manifests, current>>
numbers == <<logfile_number, log_number, manifest_file_number, next_file_number, last_sequence>>
background == <<flush, merge, edit, pending_outputs, bg_error>>
history == <<issued, promised, crashes, faults>>
vars == <<directory, phase, mem, imm, numbers, version, pinned, background, replay, history>>

\* A file that was created, truncating what had its name.
Empty == [data |-> <<>>, synced |-> 0]
Create(files, n, data) == [m \in DOMAIN files \cup {n} |->
                             IF m = n THEN [Empty EXCEPT !.data = data] ELSE files[m]]
AppendTo(files, n, x) == [files EXCEPT ![n].data = Append(@, x)]
SyncFile(files, n) == [files EXCEPT ![n].synced = Len(files[n].data)]
Keep(files, ns) == [n \in DOMAIN files \cap ns |-> files[n]]

WriteTable(n, entries, synced) ==
  [m \in DOMAIN tables \cup {n} |->
     IF m = n THEN [data |-> entries, synced |-> synced] ELSE tables[m]]
SyncTable(n) == [tables EXCEPT ![n].synced = TRUE]

Entries(m) == IF m = NULL THEN {} ELSE m
TableEntries(ns) == UNION {tables[n].data : n \in ns}

\* A VersionEdit; Edit fills in what LogAndApply adds.
Edit(log, added, deleted) ==
  [log |-> log, next |-> next_file_number, last |-> last_sequence,
   added |-> added, deleted |-> deleted]

\* The records among the first k of a manifest that are whole; the rest of a
\* record whose write failed is a NULL.
Whole(edits, k) == {i \in 1 .. k : edits[i] # NULL}
LastEdit(edits, k) == edits[Max(Whole(edits, k))]

\* VersionSet::Builder over them: what one adds and no later one deletes.
ApplyEdits(edits, k) ==
  {n \in UNION {edits[i].added : i \in Whole(edits, k)} :
     \E i \in Whole(edits, k) :
       /\ n \in edits[i].added
       /\ \A j \in Whole(edits, k) : j > i => n \notin edits[j].deleted}

\* A database that was created and opened (NewDB and the first DB::Open).
Init ==
  /\ manifests = [n \in {2} |->
       [data |-> <<[log |-> 3, next |-> 4, last |-> 0, added |-> {}, deleted |-> {}]>>,
        synced |-> 1]]
  /\ logs = [n \in {3} |-> Empty]
  /\ tables = <<>>
  /\ current = 2
  /\ phase = "up"
  /\ mem = {} /\ imm = NULL
  /\ logfile_number = 3 /\ log_number = 3
  /\ manifest_file_number = 2 /\ next_file_number = 4
  /\ last_sequence = 0
  /\ version = {} /\ pinned = NULL
  /\ pending_outputs = {}
  /\ flush = NULL /\ merge = NULL /\ edit = NULL
  /\ replay = {}
  /\ bg_error = FALSE
  /\ issued = 0 /\ promised = {}
  /\ crashes = 0 /\ faults = 0

-----------------------------------------------------------------------------
(* Writers and readers.                                                    *)

\* The entry of the next write, and whether a reader will find its record in the
\* log: it may miss one whose append failed and those behind it.
NextEntry(found) == [seq |-> last_sequence + 1, id |-> issued + 1, found |-> found]
LogIsSound == \A e \in ToSet(logs[logfile_number].data) : e.found = "yes"
Readable == IF LogIsSound THEN "yes" ELSE "maybe"

\* One write: its record in the log, synced if the caller asks for it, and its
\* entry in the memtable.
Write(sync) ==
  /\ phase = "up" /\ ~bg_error
  /\ issued < MaxWrites
  /\ LET e == NextEntry(Readable)
         appended == AppendTo(logs, logfile_number, e)
     IN /\ logs' = IF sync THEN SyncFile(appended, logfile_number) ELSE appended
        /\ mem' = mem \cup {e}
        /\ promised' = IF sync /\ LogIsSound THEN promised \cup {issued + 1} ELSE promised
  /\ issued' = issued + 1
  /\ last_sequence' = last_sequence + 1
  /\ UNCHANGED <<tables, manifests, current, phase, imm, logfile_number, log_number,
                 manifest_file_number, next_file_number, version, pinned, background,
                 replay, crashes, faults>>

\* AddRecord fails somewhere in the record, or in flushing all of it, and the next
\* write goes on behind it; or the sync of the record fails, which is a background
\* error.  Its numbers are spent and the memtable does not have it.
FailWrite(sync) ==
  /\ phase = "up" /\ ~bg_error
  /\ issued < MaxWrites
  /\ faults < MaxFaults
  /\ faults' = faults + 1
  /\ logs' = AppendTo(logs, logfile_number, NextEntry(IF sync THEN Readable ELSE "maybe"))
  /\ bg_error' = sync
  /\ issued' = issued + 1
  /\ last_sequence' = last_sequence + 1
  /\ UNCHANGED <<tables, manifests, current, phase, mem, imm, logfile_number, log_number,
                 manifest_file_number, next_file_number, version, pinned, flush, merge, edit,
                 pending_outputs, replay, promised, crashes>>

\* MakeRoomForWrite: a new log, not named by any manifest, and a new memtable.
MakeRoomForWrite ==
  /\ phase = "up" /\ ~bg_error
  /\ imm = NULL /\ mem # {}
  /\ next_file_number <= MaxFile
  /\ logs' = Create(logs, next_file_number, <<>>)
  /\ logfile_number' = next_file_number
  /\ next_file_number' = next_file_number + 1
  /\ imm' = mem /\ mem' = {}
  /\ UNCHANGED <<tables, manifests, current, phase, log_number, manifest_file_number,
                 last_sequence, version, pinned, background, replay, history>>

\* An iterator holds the version it was made from.
NewInternalIterator ==
  /\ phase = "up" /\ pinned = NULL
  /\ version # {}
  /\ pinned' = version
  /\ UNCHANGED <<directory, phase, mem, imm, numbers, version, background, replay, history>>

CleanupIteratorState ==
  /\ pinned # NULL
  /\ pinned' = NULL
  /\ UNCHANGED <<directory, phase, mem, imm, numbers, version, background, replay, history>>

-----------------------------------------------------------------------------
(* The background thread.                                                  *)

\* Broken variant: tables that are still being written are not spared.
DeleteObsoleteForgettingOutputs(newVersion, newLog, outputs) ==
  /\ logs' = Keep(logs, {n \in DOMAIN logs : n >= newLog})
  /\ manifests' = Keep(manifests, {n \in DOMAIN manifests : n >= manifest_file_number})
  /\ tables' = Keep(tables, newVersion \cup Entries(pinned))

\* DeleteObsoleteFiles with the version and log number just installed.
DeleteObsoleteFiles(newVersion, newLog, outputs) ==
  /\ logs' = Keep(logs, {n \in DOMAIN logs : n >= newLog})
  /\ manifests' = Keep(manifests, {n \in DOMAIN manifests : n >= manifest_file_number})
  /\ tables' = Keep(tables, outputs \cup newVersion \cup Entries(pinned))

\* WriteLevel0Table: the number is taken and the table is begun.  A merge looks
\* for an imm_ at every key, also after an error ...
BeginFlush ==
  /\ phase = "up" /\ (bg_error => merge # NULL)
  /\ imm # NULL /\ flush = NULL /\ edit = NULL
  /\ next_file_number <= MaxFile
  /\ flush' = [number |-> next_file_number, step |-> "build"]
  /\ next_file_number' = next_file_number + 1
  /\ pending_outputs' = pending_outputs \cup {next_file_number}
  /\ tables' = WriteTable(next_file_number, imm, FALSE)
  /\ UNCHANGED <<logs, manifests, current, phase, mem, imm, logfile_number, log_number,
                 manifest_file_number, last_sequence, version, pinned, merge, edit,
                 bg_error, replay, history>>

\* ... BuildTable syncs it, and CompactMemTable hands the edit to LogAndApply:
\* the new log is the first one needed.
EndFlush ==
  /\ phase = "up" /\ flush # NULL
  /\ flush.step = "build" /\ edit = NULL
  /\ tables' = SyncTable(flush.number)
  /\ pending_outputs' = pending_outputs \ {flush.number}
  /\ edit' = Edit(logfile_number, {flush.number}, {})
  /\ flush' = [flush EXCEPT !.step = "apply"]
  /\ UNCHANGED <<logs, manifests, current, phase, mem, imm, numbers, version, pinned,
                 merge, bg_error, replay, history>>

\* DoCompactionWork over some tables, OpenCompactionOutputFile.
BeginMerge ==
  /\ phase = "up" /\ ~bg_error
  /\ imm = NULL /\ flush = NULL /\ merge = NULL
  /\ next_file_number <= MaxFile
  /\ \E inputs \in {s \in SUBSET version : Cardinality(s) >= 2} :
       /\ merge' = [number |-> next_file_number, step |-> "build", inputs |-> inputs]
       /\ tables' = WriteTable(next_file_number, TableEntries(inputs), FALSE)
  /\ next_file_number' = next_file_number + 1
  /\ pending_outputs' = pending_outputs \cup {next_file_number}
  /\ UNCHANGED <<logs, manifests, current, phase, mem, imm, logfile_number, log_number,
                 manifest_file_number, last_sequence, version, pinned, flush, edit,
                 bg_error, replay, history>>

\* FinishCompactionOutputFile and InstallCompactionResults; a flush in the
\* middle of the merge comes first.
EndMerge ==
  /\ phase = "up" /\ merge # NULL
  /\ merge.step = "build" /\ flush = NULL /\ edit = NULL
  /\ tables' = SyncTable(merge.number)
  /\ edit' = Edit(log_number, {merge.number}, merge.inputs)
  /\ merge' = [merge EXCEPT !.step = "apply"]
  /\ UNCHANGED <<logs, manifests, current, phase, mem, imm, numbers, version, pinned,
                 flush, pending_outputs, bg_error, replay, history>>
-----------------------------------------------------------------------------
(* VersionSet::LogAndApply on the manifest that is open.                   *)

Manifest == manifests[current]
Appended == Last(Manifest.data) = edit

\* The record is written ...
AppendEdit ==
  /\ phase = "up" /\ edit # NULL /\ ~Appended
  /\ manifests' = AppendTo(manifests, current, edit)
  /\ UNCHANGED <<logs, tables, current, phase, mem, imm, numbers, version, pinned,
                 background, replay, history>>

\* ... and synced.
SyncEdit ==
  /\ phase = "up" /\ edit # NULL /\ Appended
  /\ Manifest.synced < Len(Manifest.data)
  /\ manifests' = SyncFile(manifests, current)
  /\ UNCHANGED <<logs, tables, current, phase, mem, imm, numbers, version, pinned,
                 background, replay, history>>

\* CompactMemTable or the merge is over, with its outputs no longer pending.
EndBackgroundWork ==
  /\ edit' = NULL
  /\ IF flush # NULL
     THEN flush' = NULL /\ UNCHANGED <<merge, pending_outputs>>
     ELSE /\ merge' = NULL
          /\ pending_outputs' = pending_outputs \ {merge.number}
          /\ UNCHANGED flush

\* One of the two fails; a failed AddRecord may leave a piece of its record,
\* written NULL.  The error is recorded, nothing is installed or deleted.
FailEdit ==
  /\ phase = "up" /\ edit # NULL
  /\ faults < MaxFaults
  /\ faults' = faults + 1
  /\ IF Appended
     THEN Manifest.synced < Len(Manifest.data) /\ UNCHANGED manifests
     ELSE manifests' \in {manifests, AppendTo(manifests, current, NULL)}
  /\ bg_error' = TRUE
  /\ EndBackgroundWork
  /\ UNCHANGED <<logs, tables, current, phase, mem, imm, numbers, version, pinned, replay,
                 issued, promised, crashes>>

\* The version is installed and, unless there was an error, obsolete files go.
InstallEdit ==
  /\ phase = "up" /\ edit # NULL /\ Appended
  /\ Manifest.synced = Len(Manifest.data)
  /\ version' = (version \ edit.deleted) \cup edit.added
  /\ log_number' = edit.log
  /\ imm' = IF flush # NULL THEN NULL ELSE imm
  /\ EndBackgroundWork
  /\ IF bg_error THEN UNCHANGED <<logs, tables, manifests>>
     ELSE DeleteObsoleteFiles(version', log_number', pending_outputs')
  /\ UNCHANGED <<current, phase, mem, logfile_number, manifest_file_number,
                 next_file_number, last_sequence, pinned, bg_error, replay, history>>

-----------------------------------------------------------------------------
(* Crash, and DB::Open.                                                    *)

\* What a crash may leave of files: of each, some prefix not shorter than what
\* was synced.
Survivors(files) ==
  LET kept == {k \in [DOMAIN files -> 0 .. Max({0} \cup {Len(files[n].data) : n \in DOMAIN files})] :
                 \A n \in DOMAIN files : k[n] \in files[n].synced .. Len(files[n].data)}
  IN {[n \in DOMAIN files |-> [data |-> SubSeq(files[n].data, 1, k[n]), synced |-> k[n]]]
        : k \in kept}

Crash ==
  /\ phase \notin {"down", "corrupt"}
  /\ crashes < MaxCrashes
  /\ crashes' = crashes + 1
  /\ logs' \in Survivors(logs)
  /\ manifests' \in Survivors(manifests)
  /\ tables' \in {tables, [n \in DOMAIN tables |->
                              IF tables[n].synced THEN tables[n]
                              ELSE [data |-> {}, synced |-> FALSE]]}
  /\ phase' = "down"
  /\ mem' = {} /\ imm' = NULL /\ version' = {} /\ pinned' = NULL
  /\ flush' = NULL /\ merge' = NULL /\ edit' = NULL
  /\ pending_outputs' = {} /\ replay' = {}
  /\ bg_error' = FALSE
  /\ UNCHANGED <<current, numbers, issued, promised, faults>>

\* A piece of a record is passed over at the end of the manifest only.
Torn(edits) == \E i \in 1 .. Len(edits) - 1 : edits[i] = NULL

\* VersionSet::Recover and the check for missing files, which goes by number.
Recover ==
  /\ phase = "down"
  /\ LET edits == Manifest.data
         files == ApplyEdits(edits, Len(edits))
         exists == DOMAIN tables \cup DOMAIN logs \cup DOMAIN manifests
     IN IF Torn(edits) \/ Whole(edits, Len(edits)) = {} \/ ~(files \subseteq exists)
        THEN phase' = "corrupt" /\ UNCHANGED <<version, edit, replay, numbers>>
        ELSE LET last == LastEdit(edits, Len(edits))
             IN /\ phase' = "replay"
                /\ version' = files
                /\ edit' = [last EXCEPT !.added = {}, !.deleted = {}]
                /\ log_number' = last.log
                /\ manifest_file_number' = last.next
                /\ next_file_number' = last.next + 1
                /\ last_sequence' = last.last
                /\ replay' = {n \in DOMAIN logs : n >= last.log}
                /\ UNCHANGED logfile_number
  /\ UNCHANGED <<directory, mem, imm, pinned, flush, merge, pending_outputs, bg_error, history>>

\* What a reader may find of a log.
Readings(entries) ==
  {read \in SUBSET ToSet(entries) : \A e \in ToSet(entries) : e.found = "yes" => e \in read}

\* Broken variant: the sequence numbers found in the log are not taken over.
RecoverLogFileOldSequence ==
  /\ phase = "replay" /\ replay # {}
  /\ \E read \in Readings(logs[Min(replay)].data) :
       LET n == Min(replay)
           number == next_file_number
           next == IF read = {} THEN number ELSE number + 1
       IN /\ replay' = replay \ {n}
          /\ IF read = {} THEN UNCHANGED <<edit, tables>>
             ELSE /\ tables' = WriteTable(number, read, TRUE)
                  /\ edit' = [edit EXCEPT !.added = @ \cup {number}]
          /\ next_file_number' = Max({next, n + 1})
  /\ UNCHANGED <<logs, manifests, current, phase, mem, imm, logfile_number, log_number,
                 manifest_file_number, last_sequence, version, pinned, flush, merge,
                 pending_outputs, bg_error, history>>

\* RecoverLogFile, oldest log first: what is read becomes a table of the edit.
RecoverLogFile ==
  /\ phase = "replay" /\ replay # {}
  /\ \E read \in Readings(logs[Min(replay)].data) :
       LET n == Min(replay)
           number == next_file_number
           next == IF read = {} THEN number ELSE number + 1
       IN /\ replay' = replay \ {n}
          /\ IF read = {} THEN UNCHANGED <<edit, tables>>
             ELSE /\ tables' = WriteTable(number, read, TRUE)
                  /\ edit' = [edit EXCEPT !.added = @ \cup {number}]
          /\ next_file_number' = Max({next, n + 1})                  \* MarkFileNumberUsed
          /\ last_sequence' = Max({last_sequence} \cup {e.seq : e \in read})
  /\ UNCHANGED <<logs, manifests, current, phase, mem, imm, logfile_number, log_number,
                 manifest_file_number, version, pinned, flush, merge, pending_outputs,
                 bg_error, history>>

\* DB::Open: the new log ...
OpenLog ==
  /\ phase = "replay" /\ replay = {}
  /\ phase' = "snapshot"
  /\ logs' = Create(logs, next_file_number, <<>>)
  /\ logfile_number' = next_file_number
  /\ next_file_number' = next_file_number + 1
  /\ UNCHANGED <<tables, manifests, current, mem, imm, log_number, manifest_file_number,
                 last_sequence, version, pinned, background, replay, history>>

\* ... the new manifest, begun with a snapshot of the version ...
WriteSnapshot ==
  /\ phase = "snapshot"
  /\ phase' = "sync"
  /\ edit' = Edit(logfile_number, edit.added, {})
  /\ manifests' = Create(manifests, manifest_file_number, <<[edit' EXCEPT !.added = version \cup @]>>)
  /\ UNCHANGED <<logs, tables, current, mem, imm, numbers, version, pinned, flush, merge,
                 pending_outputs, bg_error, replay, history>>

\* Broken variant: CURRENT is changed without a sync of the manifest.
SyncNothing ==
  /\ phase = "sync"
  /\ phase' = "rename"
  /\ UNCHANGED <<directory, mem, imm, numbers, version, pinned, background, replay, history>>

\* ... its sync ...
SyncNewManifest ==
  /\ phase = "sync"
  /\ phase' = "rename"
  /\ manifests' = SyncFile(manifests, manifest_file_number)
  /\ UNCHANGED <<logs, tables, current, mem, imm, numbers, version, pinned, background,
                 replay, history>>

\* ... CURRENT, through a temporary file that is renamed ...
SetCurrentFile ==
  /\ phase = "rename"
  /\ phase' = "install"
  /\ current' = manifest_file_number
  /\ UNCHANGED <<logs, tables, manifests, mem, imm, numbers, version, pinned, background,
                 replay, history>>

\* ... and the version, after which the old files go.
OpenInstall ==
  /\ phase = "install"
  /\ phase' = "up"
  /\ version' = version \cup edit.added
  /\ log_number' = edit.log
  /\ edit' = NULL
  /\ DeleteObsoleteFiles(version', log_number', {})
  /\ UNCHANGED <<current, mem, imm, logfile_number, manifest_file_number, next_file_number,
                 last_sequence, pinned, flush, merge, pending_outputs, bg_error, replay, history>>

\* LogAndApply fails: the new manifest is deleted, and Open may be tried again.
OpenFails ==
  /\ phase \in {"sync", "rename"}
  /\ faults < MaxFaults
  /\ faults' = faults + 1
  /\ manifests' = Keep(manifests, DOMAIN manifests \ {manifest_file_number})
  /\ phase' = "down"
  /\ version' = {} /\ edit' = NULL
  /\ UNCHANGED <<logs, tables, current, mem, imm, numbers, pinned, flush, merge,
                 pending_outputs, bg_error, replay, issued, promised, crashes>>

Open == Recover \/ RecoverLogFile \/ OpenLog \/ WriteSnapshot \/ SyncNewManifest
          \/ SetCurrentFile \/ OpenInstall \/ OpenFails

Next ==
  \/ \E sync \in BOOLEAN : Write(sync) \/ FailWrite(sync)
  \/ MakeRoomForWrite
  \/ NewInternalIterator \/ CleanupIteratorState
  \/ BeginFlush \/ EndFlush \/ BeginMerge \/ EndMerge
  \/ AppendEdit \/ SyncEdit \/ FailEdit \/ InstallEdit
  \/ Crash
  \/ Open

Spec == Init /\ [][Next]_vars

-----------------------------------------------------------------------------
(* Properties.                                                             *)

Complete(n) == n \in DOMAIN tables /\ tables[n].synced
Ids(entries) == {e.id : e \in entries}

\* How many records CURRENT's manifest can have after a crash at this moment,
\* and what it then says.
PossibleLengths == Manifest.synced .. Len(Manifest.data)
VersionAt(k) == ApplyEdits(Manifest.data, k)
LogAt(k) == LastEdit(Manifest.data, k).log

\* Whatever the database uses is there and whole: the tables of the current
\* version, of versions iterators hold and of a running merge, and, after a
\* crash at any moment, those of every version the manifest can come back
\* with.  It has pending_outputs_ and AddLiveFiles for that.
FilesInUseExist ==
  /\ phase = "up" =>
       \A n \in version \cup Entries(pinned) \cup (IF merge = NULL THEN {} ELSE merge.inputs) :
         Complete(n)
  /\ current \in DOMAIN manifests
  /\ \A k \in PossibleLengths :
       Whole(Manifest.data, k) # {} /\ \A n \in VersionAt(k) : Complete(n)

\* The synced records of a log that any reader finds.
SurelyRead(log) == {e \in ToSet(SubSeq(log.data, 1, log.synced)) : e.found = "yes"}

\* A crash at any moment, also while DB::Open recovers from an earlier one, loses
\* no write that was acknowledged after a sync to a log no append to which had
\* failed: whatever version comes back, its tables and the logs it makes Recover
\* replay have it.
SyncedWritesSurvive ==
  promised # {} => \A k \in PossibleLengths :
    /\ Whole(Manifest.data, k) # {}
    /\ promised \subseteq
         Ids(TableEntries(VersionAt(k) \cap DOMAIN tables))
           \cup Ids(UNION {SurelyRead(logs[n]) : n \in {m \in DOMAIN logs : m >= LogAt(k)}})

Contents == mem \cup Entries(imm) \cup TableEntries(version \cap DOMAIN tables)

\* A database that is open has every write acknowledged after a sync to a log no
\* append to which had failed, gives no sequence number twice, and is not behind
\* the numbers it holds.  DB::Open refuses a database only when an edit was
\* appended behind the piece of a failed one, which the flush after a failing edit
\* of a merge does.
OpenDatabaseIsComplete ==
  /\ phase = "up" =>
       /\ promised \subseteq Ids(Contents)
       /\ \A e \in Contents : e.seq <= last_sequence
       /\ \A e, f \in Contents : e.seq = f.seq => e.id = f.id
  /\ phase = "corrupt" => Torn(Manifest.data)
=============================================================================
