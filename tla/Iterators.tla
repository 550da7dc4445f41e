----------------------------- MODULE Iterators -----------------------------
(***************************************************************************)
(* Iterators made of iterators: TwoLevelIterator over the blocks of a      *)
(* table (table/two_level_iterator.cc), MergingIterator over a memtable    *)
(* and a table (table/merger.cc) and DBIter (db/db_iter.cc), which shows   *)
(* the user what the entries up to a sequence number add up to.  The       *)
(* memtable grows while it is iterated over.                               *)
(***************************************************************************)
EXTENDS Table

CONSTANTS
  MemKeys,      \* internal keys the memtable may hold when the iterator is made
  LaterKeys,    \* internal keys written after that
  MaxMem,       \* bound on the memtable before the iterator is made
  Snapshots,    \* sequence numbers of iterators
  Targets       \* user keys that are sought

VARIABLES
  mem,          \* the internal keys of the memtable
  iter,         \* the DBIter, or NULL
  cursor        \* the user key its caller should see, NULL if none

vars == <<builder, added, table, mem, iter, cursor>>

-----------------------------------------------------------------------------
(* The memtable's iterator: at is the node it is at.                       *)

MemSmallest(keys) ==
  IF keys = {} THEN NULL ELSE CHOOSE k \in keys : \A o \in keys : InternalCompare(k, o) <= 0
MemLargest(keys) ==
  IF keys = {} THEN NULL ELSE CHOOSE k \in keys : \A o \in keys : InternalCompare(k, o) >= 0

MemAt(key) == [kind |-> "mem", at |-> key]
MemSeek(target) == MemAt(MemSmallest({k \in mem : InternalCompare(k, target) >= 0}))
MemNext(it) == MemAt(MemSmallest({k \in mem : InternalCompare(k, it.at) > 0}))
MemPrev(it) == MemAt(MemLargest({k \in mem : InternalCompare(k, it.at) < 0}))

-----------------------------------------------------------------------------
(* TwoLevelIterator: data is the block iterator or NULL, ok is status_.    *)

NewTwoLevelIterator(t) ==
  [kind |-> "table", t |-> t, index |-> BlockIterator(t.index), data |-> NULL,
   handle |-> NULL, ok |-> TRUE]

DataValid(it) == it.data # NULL /\ BlockValid(it.data)

TwoLevelOk(it) == it.index.ok /\ (it.data # NULL => it.data.ok) /\ it.ok

SetDataIterator(it, data) ==
  [it EXCEPT !.data = data, !.ok = @ /\ (it.data # NULL => it.data.ok)]

InitDataBlock(it) ==
  IF ~BlockValid(it.index) THEN SetDataIterator(it, NULL)
  ELSE LET handle == BlockValue(it.index)
       IN IF it.data # NULL /\ handle = it.handle THEN it
          ELSE [SetDataIterator(it, BlockReader(it.t, handle)) EXCEPT !.handle = handle]

\* An operation of the block iterator, if there is one.
OnData(it, Op(_)) == IF it.data = NULL THEN it ELSE [it EXCEPT !.data = Op(@)]

RECURSIVE SkipEmptyDataBlocksForward(_), SkipEmptyDataBlocksBackward(_)
SkipEmptyDataBlocksForward(it) ==
  IF DataValid(it) THEN it
  ELSE IF ~BlockValid(it.index) THEN SetDataIterator(it, NULL)
  ELSE SkipEmptyDataBlocksForward(
         OnData(InitDataBlock([it EXCEPT !.index = BlockNext(@)]), BlockSeekToFirst))

SkipEmptyDataBlocksBackward(it) ==
  IF DataValid(it) THEN it
  ELSE IF ~BlockValid(it.index) THEN SetDataIterator(it, NULL)
  ELSE SkipEmptyDataBlocksBackward(
         OnData(InitDataBlock([it EXCEPT !.index = BlockPrev(@)]), BlockSeekToLast))

TableSeek(it, target) ==
  SkipEmptyDataBlocksForward(
    OnData(InitDataBlock([it EXCEPT !.index = BlockSeek(@, target)]),
           LAMBDA b : BlockSeek(b, target)))
TableSeekToFirst(it) ==
  SkipEmptyDataBlocksForward(
    OnData(InitDataBlock([it EXCEPT !.index = BlockSeekToFirst(@)]), BlockSeekToFirst))
TableSeekToLast(it) ==
  SkipEmptyDataBlocksBackward(
    OnData(InitDataBlock([it EXCEPT !.index = BlockSeekToLast(@)]), BlockSeekToLast))
TableNextEntry(it) == SkipEmptyDataBlocksForward(OnData(it, BlockNext))
TablePrevEntry(it) == SkipEmptyDataBlocksBackward(OnData(it, BlockPrev))

-----------------------------------------------------------------------------
(* The children of a merging iterator.                                     *)

ChildValid(c) == IF c.kind = "mem" THEN c.at # NULL ELSE DataValid(c)
ChildKey(c) == IF c.kind = "mem" THEN c.at ELSE c.data.key
ChildOk(c) == c.kind # "mem" => TwoLevelOk(c)
ChildSeek(c, target) == IF c.kind = "mem" THEN MemSeek(target) ELSE TableSeek(c, target)
ChildSeekToFirst(c) == IF c.kind = "mem" THEN MemAt(MemSmallest(mem)) ELSE TableSeekToFirst(c)
ChildSeekToLast(c) == IF c.kind = "mem" THEN MemAt(MemLargest(mem)) ELSE TableSeekToLast(c)
ChildNext(c) == IF c.kind = "mem" THEN MemNext(c) ELSE TableNextEntry(c)
ChildPrev(c) == IF c.kind = "mem" THEN MemPrev(c) ELSE TablePrevEntry(c)

-----------------------------------------------------------------------------
(* MergingIterator: current is the number of a child, 0 for NULL.          *)

NewMergingIterator(children) == [children |-> children, current |-> 0, direction |-> "forward"]

MergeValid(m) == m.current # 0
MergeKey(m) == ChildKey(m.children[m.current])
MergeOk(m) == \A i \in DOMAIN m.children : ChildOk(m.children[i])
ValidChildren(m) == {i \in DOMAIN m.children : ChildValid(m.children[i])}

\* The first child with the smallest key, the last one with the largest.
FindSmallest(m) ==
  LET v == ValidChildren(m)
      smallest == {i \in v : \A j \in v : InternalCompare(ChildKey(m.children[i]),
                                                          ChildKey(m.children[j])) <= 0}
  IN [m EXCEPT !.current = IF v = {} THEN 0 ELSE Min(smallest), !.direction = "forward"]

FindLargest(m) ==
  LET v == ValidChildren(m)
      largest == {i \in v : \A j \in v : InternalCompare(ChildKey(m.children[i]),
                                                         ChildKey(m.children[j])) >= 0}
  IN [m EXCEPT !.current = IF v = {} THEN 0 ELSE Max(largest), !.direction = "reverse"]

OnChildren(m, Op(_)) == [m EXCEPT !.children = [i \in DOMAIN @ |-> Op(@[i])]]

MergeSeek(m, target) == FindSmallest(OnChildren(m, LAMBDA c : ChildSeek(c, target)))
MergeSeekToFirst(m) == FindSmallest(OnChildren(m, ChildSeekToFirst))
MergeSeekToLast(m) == FindLargest(OnChildren(m, ChildSeekToLast))

\* Every other child is put after the current key ...
PastEqual(c, key) ==
  IF ChildValid(c) /\ InternalCompare(ChildKey(c), key) = 0 THEN ChildNext(c) ELSE c
PastKey(c, key) == PastEqual(ChildSeek(c, key), key)

\* Broken variant: children without an entry at or after the key stay behind.
BeforeOrInvalid(c) == IF ChildValid(c) THEN ChildPrev(c) ELSE c

\* ... or before it, when the direction changes.
Before(c) == IF ChildValid(c) THEN ChildPrev(c) ELSE ChildSeekToLast(c)
BeforeKey(c, key) == Before(ChildSeek(c, key))

\* The current child takes a step after the others have been turned round.
MergeStep(m, direction, Turn(_, _), Step(_)) ==
  [m EXCEPT !.children = [i \in DOMAIN @ |->
     IF i = m.current THEN Step(@[i])
     ELSE IF m.direction = direction THEN @[i] ELSE Turn(@[i], MergeKey(m))]]

MergeNext(m) == FindSmallest(MergeStep(m, "forward", PastKey, ChildNext))
MergePrev(m) == FindLargest(MergeStep(m, "reverse", BeforeKey, ChildPrev))

-----------------------------------------------------------------------------
(* DBIter.                                                                 *)

NewDBIterator(internal, sequence) ==
  [iter |-> internal, sequence |-> sequence, direction |-> "forward", valid |-> FALSE,
   saved_key |-> NULL, saved_value |-> NULL]

DBKey(d) == IF d.direction = "forward" THEN ExtractUserKey(MergeKey(d.iter)) ELSE d.saved_key
DBValue(d) == IF d.direction = "forward" THEN SequenceOf(MergeKey(d.iter)) ELSE d.saved_value

NotValid(d) == [d EXCEPT !.valid = FALSE, !.saved_key = NULL]

\* skip: the user key whose entries are hidden, or NULL.
RECURSIVE FindNextUserEntry(_, _)
FindNextUserEntry(d, skip) ==
  LET ikey == MergeKey(d.iter)
      visible == SequenceOf(ikey) <= d.sequence
      hidden == skip # NULL /\ Compare(ExtractUserKey(ikey), skip) <= 0
      skip_now == IF visible /\ TypeOf(ikey) = kTypeDeletion THEN ExtractUserKey(ikey) ELSE skip
  IN IF ~MergeValid(d.iter) THEN NotValid(d)
     ELSE IF visible /\ TypeOf(ikey) = kTypeValue /\ ~hidden
          THEN [d EXCEPT !.valid = TRUE, !.saved_key = NULL]
     ELSE FindNextUserEntry([d EXCEPT !.iter = MergeNext(@)], skip_now)

\* value_type is the type of the last visible entry met.
RECURSIVE FindPrevUserEntry(_, _)
FindPrevUserEntry(d, value_type) ==
  LET ikey == MergeKey(d.iter)
      visible == SequenceOf(ikey) <= d.sequence
      earlier == visible /\ value_type # kTypeDeletion
                   /\ Compare(ExtractUserKey(ikey), d.saved_key) < 0
      saved == IF ~visible THEN d
               ELSE IF TypeOf(ikey) = kTypeDeletion
                    THEN [d EXCEPT !.saved_key = NULL, !.saved_value = NULL]
               ELSE [d EXCEPT !.saved_key = ExtractUserKey(ikey), !.saved_value = SequenceOf(ikey)]
  IN IF ~MergeValid(d.iter) \/ earlier
     THEN IF value_type = kTypeDeletion
          THEN [NotValid(d) EXCEPT !.saved_value = NULL, !.direction = "forward"]
          ELSE [d EXCEPT !.valid = TRUE]
     ELSE FindPrevUserEntry([saved EXCEPT !.iter = MergePrev(@)],
                            IF visible THEN TypeOf(ikey) ELSE value_type)

DBSeek(d, target) ==
  FindNextUserEntry([d EXCEPT !.direction = "forward", !.saved_value = NULL,
                       !.iter = MergeSeek(@, AppendInternalKey(target, d.sequence,
                                                               kValueTypeForSeek))], NULL)
DBSeekToFirst(d) ==
  FindNextUserEntry([d EXCEPT !.direction = "forward", !.saved_value = NULL,
                              !.iter = MergeSeekToFirst(@)], NULL)
DBSeekToLast(d) ==
  FindPrevUserEntry([d EXCEPT !.direction = "reverse", !.saved_value = NULL,
                              !.iter = MergeSeekToLast(@)], kTypeDeletion)

\* In reverse the internal iterator is before the entries of saved_key.
DBNext(d) ==
  LET turned == [d EXCEPT !.direction = "forward",
                   !.iter = IF MergeValid(@) THEN MergeNext(@) ELSE MergeSeekToFirst(@)]
  IN IF d.direction = "reverse" THEN FindNextUserEntry(turned, d.saved_key)
     ELSE FindNextUserEntry(d, DBKey(d))

RECURSIVE BackToEarlierKey(_, _)
BackToEarlierKey(m, key) ==
  IF ~MergeValid(m) \/ Compare(ExtractUserKey(MergeKey(m)), key) < 0 THEN m
  ELSE BackToEarlierKey(MergePrev(m), key)

DBPrev(d) ==
  LET back == [d EXCEPT !.iter = BackToEarlierKey(MergePrev(@), DBKey(d)), !.saved_key = DBKey(d)]
  IN IF d.direction = "reverse" THEN FindPrevUserEntry(d, kTypeDeletion)
     ELSE IF ~MergeValid(back.iter) THEN [NotValid(back) EXCEPT !.saved_value = NULL]
     ELSE FindPrevUserEntry([back EXCEPT !.direction = "reverse"], kTypeDeletion)

-----------------------------------------------------------------------------
(* What the caller should see: the user keys whose newest entry up to the  *)
(* sequence number is a value.                                             *)

VisibleEntries(d) == {k \in mem \cup ToSet(added) : SequenceOf(k) <= d.sequence}

NewestEntry(d, user) ==
  LET mine == {k \in VisibleEntries(d) : ExtractUserKey(k) = user}
  IN CHOOSE k \in mine : \A o \in mine : SequenceOf(o) <= SequenceOf(k)

VisibleKeys(d) == {u \in {ExtractUserKey(k) : k \in VisibleEntries(d)} :
                     TypeOf(NewestEntry(d, u)) = kTypeValue}

FirstOf(users) == IF users = {} THEN NULL ELSE CHOOSE u \in users : \A o \in users : Compare(u, o) <= 0
LastOf(users) == IF users = {} THEN NULL ELSE CHOOSE u \in users : \A o \in users : Compare(u, o) >= 0

-----------------------------------------------------------------------------
Init ==
  /\ TableInit
  /\ mem = {} /\ iter = NULL /\ cursor = NULL

BuildTable == iter = NULL /\ mem = {} /\ TableNext /\ UNCHANGED <<mem, iter, cursor>>

\* NewInternalIterator over the memtable and the table, NewDBIterator on top.
NewIterator ==
  /\ table # NULL /\ iter = NULL
  /\ \E m \in kSubset(MaxMem, MemKeys), sequence \in Snapshots :
       /\ mem' = m
       /\ iter' = NewDBIterator(NewMergingIterator(<<MemAt(NULL), NewTwoLevelIterator(table)>>),
                                sequence)
  /\ UNCHANGED <<builder, added, table, cursor>>

\* A write that the iterator must not see.
WriteLater ==
  /\ iter # NULL
  /\ \E k \in LaterKeys \ mem : SequenceOf(k) > iter.sequence /\ mem' = mem \cup {k}
  /\ UNCHANGED <<builder, added, table, iter, cursor>>

Operate(op, position) ==
  /\ iter' = op /\ cursor' = position
  /\ UNCHANGED <<builder, added, table, mem>>

Seek == iter # NULL /\ \E target \in Targets :
          Operate(DBSeek(iter, target), FirstOf({u \in VisibleKeys(iter) : Compare(u, target) >= 0}))
SeekToFirst == iter # NULL /\ Operate(DBSeekToFirst(iter), FirstOf(VisibleKeys(iter)))
SeekToLast == iter # NULL /\ Operate(DBSeekToLast(iter), LastOf(VisibleKeys(iter)))

StatusOk == MergeOk(iter.iter)

\* The caller moves on from where it is; after an error it gives up.
MayMove == iter # NULL /\ StatusOk /\ iter.valid

NextUser == MayMove /\ Operate(DBNext(iter), FirstOf({u \in VisibleKeys(iter) : Compare(u, cursor) > 0}))
PrevUser == MayMove /\ Operate(DBPrev(iter), LastOf({u \in VisibleKeys(iter) : Compare(u, cursor) < 0}))

Next ==
  \/ BuildTable \/ NewIterator \/ WriteLater
  \/ Seek \/ SeekToFirst \/ SeekToLast \/ NextUser \/ PrevUser

Spec == Init /\ [][Next]_vars

-----------------------------------------------------------------------------
\* Whatever sequence of calls is made and whatever is written meanwhile, an
\* iterator that reports no error is at the key its caller expects, with the
\* value the newest entry up to its sequence number has: no entry of a block, a
\* memtable or another child is skipped, shown twice or shown after a deletion.
IteratorIsACursor ==
  iter # NULL /\ StatusOk =>
    IF iter.valid THEN DBKey(iter) = cursor /\ DBValue(iter) = SequenceOf(NewestEntry(iter, cursor))
    ELSE cursor = NULL
=============================================================================
