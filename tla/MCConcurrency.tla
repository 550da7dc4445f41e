---------------------------- MODULE MCConcurrency ----------------------------
(***************************************************************************)
(* One instance of each component whose threads or callbacks interleave.   *)
(* They share no state in the program that the modules model, so a state   *)
(* is a state of one of them: part says which, and the others stay in      *)
(* their initial states.                                                   *)
(***************************************************************************)
EXTENDS Naturals, Sequences, FiniteSets

CONSTANTS t1, t2, t3, NULL,
          write_buffer_size, kL0_CompactionTrigger, kL0_SlowdownWritesTrigger,
          kL0_StopWritesTrigger, MaxGroupGrowth, MaxGroupSize, MaxFaults,
          Keys, kMaxHeight, Readers,
          CacheKeys, Charges, capacity, kNumShards, InitialLength, MaxInserts,
          MaxItems, Openers, mmap_limit, open_read_only_file_limit,
          Processes, ProcessOf,    \* of each thread that locks files, its process
          Accounts, Records, MaxScreens, MaxSignIns, MaxEvents, MaxLaunches

VARIABLES part,
          batch, pc, delayed, awake, writers, status, group, log, log_file, mem, imm,
          tables, last_sequence, level0, bg, bg_error, faults, before,
          next, heights, insertion, iterator, published,
          entry, shard, held, deleted,
          queue_, scheduled, bgthread_, ran, opener, allowed_,
          thread, locked_files_, fcntl,
          googleUser, asking, helperUser, signIns, firebaseUser, screens, trapped,
          server, downloads, image, launches

Threads == {t1, t2, t3}

\* What the three threads call: small, large and synced batches, and
\* TEST_CompactMemTable (NULL).
Synced == [sync |-> TRUE, count |-> 1, size |-> 2]
Small == [sync |-> FALSE, count |-> 2, size |-> 1]
Large == [sync |-> FALSE, count |-> 1, size |-> 4]
Three(a, b, c) == [t \in Threads |-> IF t = t1 THEN a ELSE IF t = t2 THEN b ELSE c]
Calls == {Three(Small, Small, Small), Three(Small, Small, NULL), Three(Small, Synced, Synced),
          Three(Small, Synced, NULL), Three(Large, Small, Synced), Three(Large, Large, Synced),
          Three(NULL, Large, NULL), Three(Small, Large, NULL)}

\* Two threads of one process and one of another, for ProcessOf.
TwoAndOne == [t \in {1, 2, 3} |-> IF t < 3 THEN 1 ELSE 2]

\* What the theorems about the components suppose of their parameters.
ASSUME ListParameters == /\ Keys \subseteq Nat \ {0}
                         /\ kMaxHeight \in Nat \ {0}
                         /\ NULL \notin Nat
ASSUME CacheParameters == /\ CacheKeys \subseteq Nat /\ Charges \subseteq Nat /\ capacity \in Nat
                          /\ kNumShards \in Nat \ {0} /\ InitialLength \in Nat \ {0}
ASSUME EnvParameters == /\ IsFiniteSet(Openers)
                        /\ mmap_limit \in Nat /\ open_read_only_file_limit \in Nat
ASSUME AppParameters == NULL \notin Accounts /\ IsFiniteSet(Records)

OwnerOf == [r \in Records |-> CHOOSE a \in Accounts : TRUE]

Writes == INSTANCE WriteQueue
List == INSTANCE SkipList
Cache == INSTANCE LRUCache
Env == INSTANCE PosixEnv
Lock == INSTANCE FileLock WITH Threads <- DOMAIN ProcessOf
App == INSTANCE AppScreens

writeVars == <<batch, pc, delayed, awake, writers, status, group, log, log_file, mem, imm,
               tables, last_sequence, level0, bg, bg_error, faults, before>>
listVars == <<next, heights, insertion, iterator, published>>
cacheVars == <<entry, shard, held, deleted>>
envVars == <<queue_, scheduled, bgthread_, ran, opener, allowed_>>
lockVars == <<thread, locked_files_, fcntl>>
appVars == <<googleUser, asking, helperUser, signIns, firebaseUser, screens, trapped,
             server, downloads, image, launches>>
vars == <<part, writeVars, listVars, cacheVars, envVars, lockVars, appVars>>

Init == /\ part \in {"writes", "list", "cache", "env", "lock", "app"}
        /\ Writes!Init /\ (part # "writes" => batch = Three(Small, Small, Small))
        /\ List!Init /\ Cache!Init /\ Env!Init /\ Lock!Init /\ App!Init

Next ==
  \/ part = "writes" /\ Writes!Next
       /\ UNCHANGED <<part, listVars, cacheVars, envVars, lockVars, appVars>>
  \/ part = "list" /\ List!Next
       /\ UNCHANGED <<part, writeVars, cacheVars, envVars, lockVars, appVars>>
  \/ part = "cache" /\ Cache!Next
       /\ UNCHANGED <<part, writeVars, listVars, envVars, lockVars, appVars>>
  \/ part = "env" /\ Env!Next
       /\ UNCHANGED <<part, writeVars, listVars, cacheVars, lockVars, appVars>>
  \/ part = "lock" /\ Lock!Next
       /\ UNCHANGED <<part, writeVars, listVars, cacheVars, envVars, appVars>>
  \/ part = "app" /\ App!Next
       /\ UNCHANGED <<part, writeVars, listVars, cacheVars, envVars, lockVars>>

Spec == Init /\ [][Next]_vars /\ Writes!Fairness /\ Env!Fairness

-----------------------------------------------------------------------------
\* Of each component, what its module says of it; in the initial state, where
\* the others stay, it is true.

\* DBImpl::Write: readers see all of a batch or nothing of it.
BatchesAppearWhole == Writes!BatchesAppearWhole
\* DBImpl::Write: an answered batch is in the log and after all earlier ones.
AnsweredMeansLogged == Writes!AnsweredMeansLogged
\* DBImpl::Write and TEST_CompactMemTable: every call returns.
EveryCallReturns == Writes!EveryCallReturns
\* SkipList: an iterator meets every key that was there when it started.
ReadersMissNothing == List!ReadersMissNothing
\* ShardedLRUCache: references, usage, lists and table agree.
CacheAccounting == Cache!CacheAccounting
\* PosixEnv Limiter: what is given out and what is left make the limit.
LimiterAccounting == Env!LimiterAccounting
\* PosixEnv Schedule and BGThread: work runs, once and in order.
ScheduledWorkRuns == Env!ScheduledWorkRuns
\* PosixLockTable: two threads of a process never both hold the lock.
OneHolderPerProcess == Lock!OneHolderPerProcess
\* LoginHelper and the segues: a user behind LoginVC, one camera session.
ScreensAreServed == App!ScreensAreServed
\* HistoryVC: the rows are the records its listener was told of.
RowsCoverRecords == App!RowsCoverRecords
=============================================================================
