------------------------------ MODULE FileLock ------------------------------
(***************************************************************************)
(* The lock that keeps two owners from opening one database: LockFile and  *)
(* UnlockFile of util/env_posix.cc, called by threads of several           *)
(* processes.  fcntl(2) locks belong to a process, and the system releases *)
(* them when the process closes any descriptor of the file.                *)
(***************************************************************************)
EXTENDS Naturals, FiniteSets

CONSTANTS
  Threads,        \* threads that open and close the database
  Processes,
  ProcessOf,      \* ProcessOf[t]: the process of thread t
  NULL

VARIABLES
  thread,         \* per thread: where it is in LockFile or UnlockFile
  locked_files_,  \* the processes whose PosixLockTable has the file
  fcntl           \* the process the system's lock belongs to, or NULL

vars == <<thread, locked_files_, fcntl>>

Init ==
  /\ thread = [t \in Threads |-> "closed"]
  /\ locked_files_ = {}
  /\ fcntl = NULL

\* close(2) of one of the process's descriptors of the file.
AfterClose(p) == IF fcntl = p THEN NULL ELSE fcntl

OpenLockFile(t) ==
  /\ thread[t] = "closed"
  /\ thread' = [thread EXCEPT ![t] = "opened"]
  /\ UNCHANGED <<locked_files_, fcntl>>

\* Broken variant: a thread that comes second cleans up the table as well.
InsertLockCleaningUp(t) ==
  LET p == ProcessOf[t]
  IN /\ thread[t] = "opened"
     /\ thread' = [thread EXCEPT ![t] = IF p \in locked_files_ THEN "closed" ELSE "inserted"]
     /\ fcntl' = IF p \in locked_files_ THEN AfterClose(p) ELSE fcntl
     /\ locked_files_' = IF p \in locked_files_ THEN locked_files_ \ {p} ELSE locked_files_ \cup {p}

\* PosixLockTable::Insert; a thread that comes second closes its descriptor.
InsertLock(t) ==
  LET p == ProcessOf[t]
  IN /\ thread[t] = "opened"
     /\ IF p \in locked_files_
        THEN /\ thread' = [thread EXCEPT ![t] = "closed"]
             /\ fcntl' = AfterClose(p)
             /\ UNCHANGED locked_files_
        ELSE /\ thread' = [thread EXCEPT ![t] = "inserted"]
             /\ locked_files_' = locked_files_ \cup {p}
             /\ UNCHANGED fcntl

\* LockOrUnlock(fd, true); on failure the descriptor is closed, then the name
\* removed from the table.
LockFile(t) ==
  LET p == ProcessOf[t]
  IN /\ thread[t] = "inserted"
     /\ IF fcntl \in {NULL, p}
        THEN /\ thread' = [thread EXCEPT ![t] = "held"]
             /\ fcntl' = p
             /\ UNCHANGED locked_files_
        ELSE /\ thread' = [thread EXCEPT ![t] = "closed"]
             /\ locked_files_' = locked_files_ \ {p}
             /\ fcntl' = AfterClose(p)

\* UnlockFile: the system's lock, then the table, then the descriptor.
UnlockFile(t) ==
  LET p == ProcessOf[t]
  IN \/ /\ thread[t] = "held"
        /\ fcntl' = AfterClose(p)
        /\ thread' = [thread EXCEPT ![t] = "unlocked"]
        /\ UNCHANGED locked_files_
     \/ /\ thread[t] = "unlocked"
        /\ locked_files_' = locked_files_ \ {p}
        /\ thread' = [thread EXCEPT ![t] = "removed"]
        /\ UNCHANGED fcntl
     \/ /\ thread[t] = "removed"
        /\ fcntl' = AfterClose(p)
        /\ thread' = [thread EXCEPT ![t] = "closed"]
        /\ UNCHANGED locked_files_

\* A process ends: its memory and its locks are gone.
Exit(p) ==
  /\ thread' = [t \in Threads |-> IF ProcessOf[t] = p THEN "closed" ELSE thread[t]]
  /\ locked_files_' = locked_files_ \ {p}
  /\ fcntl' = AfterClose(p)

Next ==
  \/ \E t \in Threads : \/ OpenLockFile(t)
                        \/ InsertLock(t)
                        \/ LockFile(t)
                        \/ UnlockFile(t)
  \/ \E p \in Processes : Exit(p)

Spec == Init /\ [][Next]_vars

Holders == {t \in Threads : thread[t] = "held"}

\* Within one process the lock table keeps two threads apart, whatever happens
\* to the system's lock, which the close of a second thread's descriptor can
\* take away from the first (between processes that breaks the exclusion).
OneHolderPerProcess ==
  \A p \in Processes : Cardinality({t \in Holders : ProcessOf[t] = p}) <= 1
=============================================================================
