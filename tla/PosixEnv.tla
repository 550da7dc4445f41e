------------------------------ MODULE PosixEnv ------------------------------
(***************************************************************************)
(* The environment of util/env_posix.cc: the queue of background work with *)
(* its one thread, and the two limits on files kept open, acquired by      *)
(* threads that open tables and released when the tables are closed.       *)
(***************************************************************************)
EXTENDS Integers, Sequences, FiniteSets

CONSTANTS
  MaxItems,        \* bound on the calls of Schedule
  Openers,         \* threads that open one table each, again and again
  mmap_limit, open_read_only_file_limit

VARIABLES
  queue_,          \* queue_: the items, numbered in the order of the calls
  scheduled,       \* calls of Schedule so far
  bgthread_,       \* "none", "runnable", "waiting", or the item it runs
  ran,             \* the items in the order they were started
  opener,          \* per thread: what it is doing, and for which limit
  allowed_         \* Limiter::allowed_ of the two limiters

vars == <<queue_, scheduled, bgthread_, ran, opener, allowed_>>
queueVars == <<queue_, scheduled, bgthread_, ran>>
fileVars == <<opener, allowed_>>

Limits == [mmap |-> mmap_limit, fd |-> open_read_only_file_limit]

Init ==
  /\ queue_ = <<>> /\ scheduled = 0 /\ ran = <<>>
  /\ bgthread_ = "none"
  /\ opener = [t \in Openers |-> "closed"]
  /\ allowed_ = Limits

-----------------------------------------------------------------------------
(* Background work.  Schedule holds mu_ from end to end; the thread holds  *)
(* it from the test of the queue to the wait or to the removal of an item. *)

\* Broken variant: the signal is given for a queue that is not empty.
ScheduleSignalsLate ==
  /\ scheduled < MaxItems
  /\ scheduled' = scheduled + 1
  /\ bgthread_' = IF bgthread_ = "none" \/ (queue_ # <<>> /\ bgthread_ = "waiting")
                  THEN "runnable" ELSE bgthread_
  /\ queue_' = Append(queue_, scheduled + 1)
  /\ UNCHANGED <<ran, fileVars>>

Schedule ==
  /\ scheduled < MaxItems
  /\ scheduled' = scheduled + 1
  /\ bgthread_' = IF bgthread_ = "none" \/ (queue_ = <<>> /\ bgthread_ = "waiting")
                  THEN "runnable" ELSE bgthread_
  /\ queue_' = Append(queue_, scheduled + 1)
  /\ UNCHANGED <<ran, fileVars>>

\* pthread_cond_wait may return without a signal.
SpuriousWakeup ==
  /\ bgthread_ = "waiting"
  /\ bgthread_' = "runnable"
  /\ UNCHANGED <<queue_, scheduled, ran, fileVars>>

BGThread ==
  \/ /\ bgthread_ = "runnable"
     /\ IF queue_ = <<>>
        THEN bgthread_' = "waiting" /\ UNCHANGED <<queue_, ran>>
        ELSE /\ bgthread_' = "running"
             /\ ran' = Append(ran, Head(queue_))
             /\ queue_' = Tail(queue_)
     /\ UNCHANGED <<scheduled, fileVars>>
  \/ /\ bgthread_ = "running"
     /\ bgthread_' = "runnable"
     /\ UNCHANGED <<queue_, scheduled, ran, fileVars>>

-----------------------------------------------------------------------------
(* Limited files.  Acquire looks at the counter before it takes the mutex, *)
(* and again after.                                                        *)

Goto(t, step) == opener' = [opener EXCEPT ![t] = step]

\* Broken variant: the counter is not looked at again under the mutex.
AcquireUnchecked(t, which, otherwise) ==
  /\ allowed_' = [allowed_ EXCEPT ![which] = @ - 1]
  /\ Goto(t, which)

\* What Acquire does under the mutex.
Acquire(t, which, otherwise) ==
  IF allowed_[which] <= 0 THEN Goto(t, otherwise) /\ UNCHANGED allowed_
  ELSE allowed_' = [allowed_ EXCEPT ![which] = @ - 1] /\ Goto(t, which)

Release(which) == allowed_' = [allowed_ EXCEPT ![which] = @ + 1]

\* NewRandomAccessFile: mmap while the limit allows ...
NewRandomAccessFile(t) ==
  /\ opener[t] = "closed"
  /\ Goto(t, IF allowed_.mmap <= 0 THEN "tryfd" ELSE "trymmap")
  /\ UNCHANGED <<allowed_, queueVars>>

AcquireMmap(t) ==
  /\ opener[t] = "trymmap"
  /\ Acquire(t, "mmap", "tryfd")
  /\ UNCHANGED queueVars

\* ... and when the size cannot be read or mmap fails, the limit is given back.
MmapFails(t) ==
  /\ opener[t] = "mmap"
  /\ Release("mmap")
  /\ Goto(t, "closed")
  /\ UNCHANGED queueVars

\* PosixRandomAccessFile: without a descriptor of its own it opens the file
\* at every read.
PosixRandomAccessFile(t) ==
  /\ \/ /\ opener[t] = "tryfd"
        /\ Goto(t, IF allowed_.fd <= 0 THEN "temporary" ELSE "acquirefd")
        /\ UNCHANGED allowed_
     \/ /\ opener[t] = "acquirefd"
        /\ Acquire(t, "fd", "temporary")
  /\ UNCHANGED queueVars

\* The destructors.
CloseFile(t) ==
  /\ \/ opener[t] = "mmap" /\ Release("mmap")
     \/ opener[t] = "fd" /\ Release("fd")
     \/ opener[t] = "temporary" /\ UNCHANGED allowed_
  /\ Goto(t, "closed")
  /\ UNCHANGED queueVars

Next ==
  \/ Schedule
  \/ SpuriousWakeup
  \/ BGThread
  \/ \E t \in Openers : \/ NewRandomAccessFile(t)
                        \/ AcquireMmap(t)
                        \/ MmapFails(t)
                        \/ PosixRandomAccessFile(t)
                        \/ CloseFile(t)

Spec == Init /\ [][Next]_vars

\* The background thread runs whenever it can; the functions return.
Fairness == WF_vars(BGThread)
FairSpec == Spec /\ Fairness

-----------------------------------------------------------------------------
(* Properties.                                                             *)

\* However the unlocked test of a limiter and the acquisitions interleave, a
\* limiter has given out what it lacks, never more than its limit, and a file
\* that could not be mapped does not keep its share.
LimiterAccounting ==
  \A which \in {"mmap", "fd"} :
    /\ allowed_[which] >= 0
    /\ allowed_[which] + Cardinality({t \in Openers : opener[t] = which}) = Limits[which]

\* Work runs once, in the order it was scheduled, and none of it is lost to a
\* signal that was given too early or not at all.
ScheduledWorkRuns ==
  /\ \A i \in 1 .. MaxItems : (scheduled >= i) ~> (Len(ran) >= i)
  /\ [](\A i \in DOMAIN ran : ran[i] = i)
=============================================================================
