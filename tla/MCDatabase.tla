----------------------------- MODULE MCDatabase -----------------------------
(***************************************************************************)
(* The two views of a LevelDB database that the modules have: its levels   *)
(* (LSMTree) and its files (DBFiles).  They share no variable in the       *)
(* models, so a state is a state of one of them: part says which, and the  *)
(* other stays in its initial state.                                       *)
(***************************************************************************)
EXTENDS MCLSMTree

CONSTANTS MaxFileWrites, MaxFile, MaxCrashes, MaxFaults

VARIABLES part,
          logs, manifests, tables, current, phase, fileMem, fileImm, logfile_number,
          log_number, manifest_file_number, next_file_number, last_sequence, tableNumbers,
          pinned, pending_outputs, flush, merge, edit, replay, bg_error, issued, promised,
          crashes, faults

Files == INSTANCE DBFiles WITH MaxWrites <- MaxFileWrites, mem <- fileMem, imm <- fileImm,
                               version <- tableNumbers

fileVars == <<logs, manifests, tables, current, phase, fileMem, fileImm, logfile_number,
              log_number, manifest_file_number, next_file_number, last_sequence, tableNumbers,
              pinned, pending_outputs, flush, merge, edit, replay, bg_error, issued, promised,
              crashes, faults>>

DatabaseInit ==
  /\ part \in {"levels", "files"}
  /\ Files!Init
  /\ Init

DatabaseNext ==
  \/ part = "levels" /\ Next /\ UNCHANGED <<part, fileVars>>
  \/ part = "files" /\ Files!Next /\ UNCHANGED <<part, vars>>

DatabaseSpec == DatabaseInit /\ [][DatabaseNext]_<<part, fileVars, vars>>

-----------------------------------------------------------------------------
\* Of the files, what their module says of them.

\* DeleteObsoleteFiles and pending_outputs_: what is in use is on the disk.
FilesInUseExist == Files!FilesInUseExist
\* Write with sync, LogAndApply, Recover: a crash loses no write that was synced to
\* a log no append to which had failed.
SyncedWritesSurvive == Files!SyncedWritesSurvive
\* DB::Open: the database has them, and gives no number twice; only a manifest with
\* an edit behind the piece of a failed one is refused.
OpenDatabaseIsComplete == Files!OpenDatabaseIsComplete
=============================================================================
