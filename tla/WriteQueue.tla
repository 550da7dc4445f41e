----------------------------- MODULE WriteQueue -----------------------------
(***************************************************************************)
(* The writers of LevelDB (db/db_impl.cc): threads queue in writers_, the  *)
(* first one makes room, logs a group of batches with the mutex released   *)
(* and answers the whole group; when the memtable is full it waits on      *)
(* bg_cv_ for the background thread.  Condition variables are explicit: a  *)
(* thread that waits runs again only after a signal, so a lost wakeup is a *)
(* thread that never returns.  An action is what one thread does while it  *)
(* holds mutex_, or one step of the thread that logs without holding it.   *)
(* Each thread makes one call.                                             *)
(***************************************************************************)
EXTENDS Naturals, FiniteSets, SequencesExt

CONSTANTS
  Threads,
  Calls,               \* what the threads call: per thread a WriteBatch to write,
                       \* or NULL for TEST_CompactMemTable
  MaxGroupGrowth,      \* 128 << 10: how much a small first batch lets a group grow
  MaxGroupSize,        \* 1 << 20
  write_buffer_size,   \* entries
  kL0_CompactionTrigger, kL0_SlowdownWritesTrigger, kL0_StopWritesTrigger,
  MaxFaults,           \* bound on the failing calls of the environment
  NULL

\* sync is WriteOptions::sync, count the entries of the batch, size its bytes.
WriteBatch == [sync : BOOLEAN, count : Nat, size : Nat]

VARIABLES
  batch,               \* the call of each thread
  pc,                  \* where each thread is
  delayed,             \* threads that slept once (allow_delay is false)
  awake,               \* waiting threads whose condition variable was signalled
  writers,             \* writers_
  status,              \* what Write answered, per thread
  group,               \* number of writers the logging thread answers for
  log,                 \* the records logged: [file, entries, synced]
  log_file,            \* logfile_number_
  mem, imm,            \* the memtables: sets of [seq, owner]; imm may be NULL
  tables,              \* entries that were flushed
  last_sequence,
  level0,              \* NumLevelFiles(0)
  bg,                  \* the background thread; bg_compaction_scheduled_ iff not "idle"
  bg_error,            \* bg_error_ is set
  faults,
  before               \* history: the threads that had returned when this one called

memory == <<mem, imm, level0, log_file>>
vars == <<batch, pc, delayed, awake, writers, status, group, log, memory, tables,
          last_sequence, bg, bg_error, faults, before>>

HasBatch(t) == batch[t] # NULL
Sync(t) == HasBatch(t) /\ batch[t].sync
NeedsCompaction == level0 >= kL0_CompactionTrigger

Init ==
  /\ batch \in Calls
  /\ pc = [t \in Threads |-> "start"]
  /\ delayed = {} /\ awake = {}
  /\ writers = <<>> /\ group = 0
  /\ status = [t \in Threads |-> "none"]
  /\ log = <<>> /\ log_file = 1
  /\ mem = {} /\ imm = NULL /\ tables = {}
  /\ last_sequence = 0 /\ level0 = 0
  /\ bg = "idle" /\ bg_error = FALSE
  /\ faults = 0
  /\ before = [t \in Threads |-> {}]

Fault == faults < MaxFaults /\ faults' = faults + 1

\* bg_cv_.SignalAll()
WaitingForBackground == {t \in Threads : pc[t] \in {"room", "flush"}}

MaybeScheduleCompaction(immutable) ==
  bg' = IF bg = "idle" /\ ~bg_error /\ (immutable # NULL \/ NeedsCompaction)
        THEN "scheduled" ELSE bg

-----------------------------------------------------------------------------
(* Write: room, group, answer.                                             *)

\* The size of the batches of the first n writers.
SizeOf(queue, n) ==
  FoldSet(LAMBDA i, sum : sum + batch[queue[i]].size, 0,
          {i \in 1 .. n : HasBatch(queue[i])})

\* Broken variant: a batch that asks for a sync joins any group.
BuildBatchGroupAnySync(queue) ==
  LET first == batch[queue[1]]
      max_size == IF first.size <= MaxGroupGrowth THEN first.size + MaxGroupGrowth
                  ELSE MaxGroupSize
      groups == {n \in DOMAIN queue :
                   \A i \in 2 .. n : HasBatch(queue[i]) => SizeOf(queue, i) <= max_size}
  IN CHOOSE n \in groups : \A o \in groups : n >= o

\* How many writers, from the front, the first one answers for.  A writer
\* without a batch joins any group.
BuildBatchGroup(queue) ==
  LET first == batch[queue[1]]
      max_size == IF first.size <= MaxGroupGrowth THEN first.size + MaxGroupGrowth
                  ELSE MaxGroupSize
      groups == {n \in DOMAIN queue :
                   \A i \in 2 .. n : /\ Sync(queue[i]) => first.sync
                                     /\ HasBatch(queue[i]) => SizeOf(queue, i) <= max_size}
  IN CHOOSE n \in groups : \A o \in groups : n >= o

\* Where the entries of the batches of some threads stand, <<thread, entry>>,
\* and how many stand up to one of them.
Places(threads) ==
  UNION {{i} \X (1 .. batch[threads[i]].count) : i \in {k \in DOMAIN threads : HasBatch(threads[k])}}
Rank(places, p) ==
  Cardinality({o \in places : o[1] < p[1] \/ (o[1] = p[1] /\ o[2] <= p[2])})

\* The entries of the group, numbered in the order of the queue.
Numbered(threads) ==
  {[seq |-> last_sequence + Rank(Places(threads), p), owner |-> threads[p[1]]] :
     p \in Places(threads)}

\* Broken variant: the new head of the queue is not signalled.
AnswerGroupOnly(queue, n, t, result, signalled) ==
  LET answered == ToSet(SubSeq(queue, 1, n))
      rest == SubSeq(queue, n + 1, Len(queue))
  IN /\ writers' = rest
     /\ status' = [u \in Threads |-> IF u \in answered THEN result ELSE status[u]]
     /\ awake' = (awake \cup answered \cup signalled) \ {t}

\* The last loop of Write: the first n writers are popped and answered and the
\* new head of the queue is signalled.
AnswerGroup(queue, n, t, result, signalled) ==
  LET answered == ToSet(SubSeq(queue, 1, n))
      rest == SubSeq(queue, n + 1, Len(queue))
  IN /\ writers' = rest
     /\ status' = [u \in Threads |-> IF u \in answered THEN result ELSE status[u]]
     /\ awake' = (awake \cup answered \cup signalled
                    \cup (IF rest = <<>> THEN {} ELSE {Head(rest)})) \ {t}

\* The mutex is released, in a wait, a sleep or for the log.
Release(queue, t, at) ==
  /\ writers' = queue
  /\ pc' = [pc EXCEPT ![t] = at]
  /\ awake' = awake \ {t}
  /\ UNCHANGED status

\* Where a thread is whose Write has returned result.
Returned(t, result) == IF HasBatch(t) \/ result = "error" THEN "returned" ELSE "flushing"

Answer(queue, t, result) ==
  /\ AnswerGroup(queue, 1, t, result, {})
  /\ pc' = [pc EXCEPT ![t] = Returned(t, result)]
  /\ UNCHANGED group

\* There is room: a batch is logged, a writer without one has nothing to do.
GotRoom(queue, t) ==
  \/ /\ HasBatch(t)
     /\ group' = BuildBatchGroup(queue)
     /\ Release(queue, t, "log")
  \/ /\ ~HasBatch(t)
     /\ Answer(queue, t, "ok")

\* MakeRoomForWrite with force = (no batch); its loop ends or releases the
\* mutex once in each of these disjuncts.  After a switch there is room.
MakeRoomForWrite(queue, t, allow_delay) ==
  LET force == ~HasBatch(t)
      slow == allow_delay /\ ~force /\ level0 >= kL0_SlowdownWritesTrigger
      full == force \/ Cardinality(mem) > write_buffer_size
      blocked == imm # NULL \/ level0 >= kL0_StopWritesTrigger
  IN \/ /\ bg_error
        /\ Answer(queue, t, "error")
        /\ UNCHANGED <<memory, bg, faults>>
     \/ /\ ~bg_error /\ slow
        /\ Release(queue, t, "delay")
        /\ UNCHANGED <<group, memory, bg, faults>>
     \/ /\ ~bg_error /\ ~slow /\ ~full
        /\ GotRoom(queue, t)
        /\ UNCHANGED <<memory, bg, faults>>
     \/ /\ ~bg_error /\ ~slow /\ full /\ blocked
        /\ Release(queue, t, "room")
        /\ UNCHANGED <<group, memory, bg, faults>>
     \/ /\ ~bg_error /\ ~slow /\ full /\ ~blocked
        /\ imm' = mem /\ mem' = {}
        /\ log_file' = log_file + 1
        /\ MaybeScheduleCompaction(mem)
        /\ GotRoom(queue, t)
        /\ UNCHANGED <<level0, faults>>
     \/ /\ ~bg_error /\ ~slow /\ full /\ ~blocked
        /\ Fault                            \* NewWritableFile fails
        /\ Answer(queue, t, "error")
        /\ UNCHANGED <<memory, bg>>

-----------------------------------------------------------------------------
(* The threads.                                                            *)

\* Write is called; behind another writer the thread waits.
Write(t) ==
  /\ pc[t] = "start"
  /\ before' = [before EXCEPT ![t] = {u \in Threads : pc[u] = "returned"}]
  /\ \/ /\ writers = <<>>
        /\ MakeRoomForWrite(<<t>>, t, TRUE)
     \/ /\ writers # <<>>
        /\ Release(Append(writers, t), t, "queued")
        /\ UNCHANGED <<group, memory, bg, faults>>
  /\ UNCHANGED <<batch, delayed, log, tables, last_sequence, bg_error>>

\* A queued writer was signalled: it was answered or is at the front.
WakeInQueue(t) ==
  /\ pc[t] = "queued" /\ t \in awake
  /\ \/ /\ status[t] # "none"
        /\ pc' = [pc EXCEPT ![t] = Returned(t, status[t])]
        /\ awake' = awake \ {t}
        /\ UNCHANGED <<writers, status, group, memory, bg, faults>>
     \/ /\ status[t] = "none" /\ Head(writers) = t
        /\ MakeRoomForWrite(writers, t, TRUE)
  /\ UNCHANGED <<batch, delayed, log, tables, last_sequence, bg_error, before>>

\* MakeRoomForWrite goes on after its sleep or after bg_cv_ was signalled.
ResumeMakeRoom(t) ==
  /\ pc[t] = "delay" \/ (pc[t] = "room" /\ t \in awake)
  /\ delayed' = IF pc[t] = "delay" THEN delayed \cup {t} ELSE delayed
  /\ MakeRoomForWrite(writers, t, t \notin delayed')
  /\ UNCHANGED <<batch, log, tables, last_sequence, bg_error, before>>

GroupEntries == Numbered(SubSeq(writers, 1, group))

\* log_->AddRecord, without the mutex; it may fail.
AddRecord(t) ==
  /\ pc[t] = "log"
  /\ \/ /\ log' = Append(log, [file |-> log_file, entries |-> GroupEntries, synced |-> FALSE])
        /\ pc' = [pc EXCEPT ![t] = IF Sync(t) THEN "sync" ELSE "insert"]
        /\ UNCHANGED faults
     \/ /\ Fault
        /\ pc' = [pc EXCEPT ![t] = "failed"]
        /\ UNCHANGED log
  /\ UNCHANGED <<batch, delayed, awake, writers, status, group, memory, tables,
                 last_sequence, bg, bg_error, before>>

\* logfile_->Sync() covers everything written to the current log.
SyncLog(t) ==
  /\ pc[t] = "sync"
  /\ \/ /\ log' = [i \in DOMAIN log |-> [log[i] EXCEPT !.synced = @ \/ log[i].file = log_file]]
        /\ pc' = [pc EXCEPT ![t] = "insert"]
        /\ UNCHANGED faults
     \/ /\ Fault
        /\ pc' = [pc EXCEPT ![t] = "sync_failed"]
        /\ UNCHANGED log
  /\ UNCHANGED <<batch, delayed, awake, writers, status, group, memory, tables,
                 last_sequence, bg, bg_error, before>>

\* Broken variant: last_sequence_ follows the insertions.
InsertIntoVisibly(t) ==
  /\ pc[t] = "insert"
  /\ \E e \in GroupEntries \ mem :
       /\ \A o \in GroupEntries \ mem : e.seq <= o.seq
       /\ mem' = mem \cup {e}
       /\ last_sequence' = e.seq
  /\ UNCHANGED <<batch, pc, delayed, awake, writers, status, group, log, imm, log_file,
                 tables, level0, bg, bg_error, faults, before>>

\* InsertInto adds the entries one by one; readers may look in between.
InsertInto(t) ==
  /\ pc[t] = "insert"
  /\ \E e \in GroupEntries \ mem :
       /\ \A o \in GroupEntries \ mem : e.seq <= o.seq
       /\ mem' = mem \cup {e}
  /\ UNCHANGED <<batch, pc, delayed, awake, writers, status, group, log, imm, log_file,
                 tables, last_sequence, level0, bg, bg_error, faults, before>>

\* The mutex is taken again: RecordBackgroundError after a failed sync, the new
\* last_sequence whatever happened, and the answers.
FinishWrite(t) ==
  /\ \/ pc[t] = "insert" /\ GroupEntries \subseteq mem
     \/ pc[t] \in {"failed", "sync_failed"}
  /\ LET result == IF pc[t] = "insert" THEN "ok" ELSE "error"
         error == pc[t] = "sync_failed" /\ ~bg_error
     IN /\ AnswerGroup(writers, group, t, result, IF error THEN WaitingForBackground ELSE {})
        /\ bg_error' = (bg_error \/ error)
  /\ pc' = [pc EXCEPT ![t] = "returned"]
  /\ last_sequence' = last_sequence + Cardinality(GroupEntries)
  /\ UNCHANGED <<batch, delayed, group, log, memory, tables, bg, faults, before>>

\* TEST_CompactMemTable after its Write: wait until there is no imm_.
TEST_CompactMemTable(t) ==
  /\ pc[t] = "flushing" \/ (pc[t] = "flush" /\ t \in awake)
  /\ awake' = awake \ {t}
  /\ \/ /\ imm # NULL /\ ~bg_error
        /\ pc' = [pc EXCEPT ![t] = "flush"]
        /\ UNCHANGED status
     \/ /\ imm = NULL \/ bg_error
        /\ pc' = [pc EXCEPT ![t] = "returned"]
        /\ status' = [status EXCEPT ![t] = IF imm = NULL THEN @ ELSE "error"]
  /\ UNCHANGED <<batch, delayed, writers, group, log, memory, tables, last_sequence,
                 bg, bg_error, faults, before>>

Thread(t) ==
  \/ WakeInQueue(t)
  \/ ResumeMakeRoom(t)
  \/ AddRecord(t)
  \/ SyncLog(t)
  \/ InsertInto(t)
  \/ FinishWrite(t)
  \/ TEST_CompactMemTable(t)

-----------------------------------------------------------------------------
(* The background thread, as far as writers depend on it.                  *)

\* CompactMemTable: the table may go to level 0 or below it.  A failure is
\* recorded and leaves imm_.
CompactMemTable ==
  \/ /\ tables' = tables \cup imm
     /\ imm' = NULL
     /\ level0' \in (IF imm = {} THEN {level0} ELSE {level0, level0 + 1})
     /\ UNCHANGED <<bg_error, faults>>
  \/ /\ Fault
     /\ bg_error' = TRUE
     /\ UNCHANGED <<tables, imm, level0>>

\* The end of BackgroundCall: perhaps more work, and bg_cv_.SignalAll().
EndBackgroundCall ==
  /\ bg' = IF ~bg_error' /\ (imm' # NULL \/ level0' >= kL0_CompactionTrigger)
           THEN "scheduled" ELSE "idle"
  /\ awake' = awake \cup WaitingForBackground

\* BackgroundCall: nothing after an error, a flush, or the start of a merge.
BackgroundCall ==
  /\ bg = "scheduled"
  /\ \/ /\ bg_error
        /\ UNCHANGED <<tables, imm, level0, bg_error, faults>>
        /\ EndBackgroundCall
     \/ /\ ~bg_error /\ imm # NULL
        /\ CompactMemTable
        /\ EndBackgroundCall
     \/ /\ ~bg_error /\ imm = NULL
        /\ bg' = "compact"
        /\ UNCHANGED <<awake, tables, imm, level0, bg_error, faults>>
  /\ UNCHANGED <<batch, pc, delayed, writers, status, group, log, log_file, mem,
                 last_sequence, before>>

\* DoCompactionWork gives way to a memtable that became immutable meanwhile.
FlushInCompaction ==
  /\ bg = "compact" /\ imm # NULL
  /\ CompactMemTable
  /\ awake' = awake \cup WaitingForBackground
  /\ UNCHANGED <<batch, pc, delayed, writers, status, group, log, log_file, mem,
                 last_sequence, bg, before>>

\* The merge is installed or fails.  It takes at least one file out of level 0;
\* those that do not overlap it stay, and those flushed in the middle of it.
EndCompaction ==
  /\ bg = "compact"
  /\ \/ /\ \E taken \in 1 .. level0 : level0' = level0 - taken
        /\ UNCHANGED <<bg_error, faults>>
     \/ Fault /\ bg_error' = TRUE /\ UNCHANGED level0
  /\ UNCHANGED <<tables, imm>>
  /\ EndBackgroundCall
  /\ UNCHANGED <<batch, pc, delayed, writers, status, group, log, log_file, mem,
                 last_sequence, before>>

Background == BackgroundCall \/ FlushInCompaction \/ EndCompaction

Next == (\E t \in Threads : Write(t) \/ Thread(t)) \/ Background

Spec == Init /\ [][Next]_vars

\* Threads run when they can; nobody is obliged to call.
Fairness ==
  /\ \A t \in Threads : WF_vars(Thread(t))
  /\ WF_vars(Background)

FairSpec == Spec /\ Fairness

-----------------------------------------------------------------------------
(* Properties.                                                             *)

Entries(m) == IF m = NULL THEN {} ELSE m
Applied == mem \cup Entries(imm) \cup tables

\* A batch is atomic for readers: of the entries up to last_sequence, which is
\* where Get and GetSnapshot read, all or none of a batch are there, although
\* they are inserted one by one without the mutex.
BatchesAppearWhole ==
  \A t \in Threads : HasBatch(t) =>
    Cardinality({e \in Applied : e.owner = t /\ e.seq <= last_sequence})
      \in {0, batch[t].count}

\* A write that returned ok is in memory or a table and in the log, under the
\* same numbers; if it asked for a sync its record was synced, whoever wrote
\* it; and it comes after every write that had returned when it was called.
AnsweredMeansLogged ==
  \A t \in Threads : HasBatch(t) /\ status[t] = "ok" =>
    LET mine == {e \in Applied : e.owner = t}
    IN /\ Cardinality(mine) = batch[t].count
       /\ \E i \in DOMAIN log : mine \subseteq log[i].entries /\ (Sync(t) => log[i].synced)
       /\ \A u \in before[t], e \in Applied : e.owner = u => \A f \in mine : e.seq < f.seq

\* Every call returns: no thread waits for a signal that was sent before it
\* waited, or for a background thread that was not scheduled.
EveryCallReturns == \A t \in Threads : pc[t] # "start" ~> pc[t] = "returned"

=============================================================================
