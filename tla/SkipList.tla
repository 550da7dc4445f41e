------------------------------ MODULE SkipList ------------------------------
(***************************************************************************)
(* The skip list under a memtable (db/skiplist.h): one writer inserts,     *)
(* readers iterate without a lock.  Every load of a link and every         *)
(* publication of a node is a step of its own.  max_height_ is loaded      *)
(* without a barrier, so a reader may get any value it has held.           *)
(***************************************************************************)
EXTENDS Naturals, FiniteSets

CONSTANTS
  Keys,          \* a set of positive integers
  kMaxHeight,
  Readers,       \* threads with an iterator each
  NULL

VARIABLES
  next,          \* next[n][level]: Node::next_
  heights,       \* the values max_height_ has held
  insertion,     \* the writer inside Insert, or NULL
  iterator,      \* per reader: where its iterator is and what it is doing
  published      \* keys of the nodes linked at level 0

vars == <<next, heights, insertion, iterator, published>>

head_ == 0                         \* before every key
Nodes == Keys \cup {head_}
AllLevels == 0 .. kMaxHeight - 1
GetMaxHeight == CHOOSE h \in heights : \A o \in heights : o <= h

Init ==
  /\ next = [n \in Nodes |-> [level \in AllLevels |-> NULL]]
  /\ heights = {1}
  /\ insertion = NULL
  /\ iterator = [r \in Readers |-> [node |-> NULL, op |-> "none"]]
  /\ published = {}

-----------------------------------------------------------------------------
(* The searches: a walk is at node x and level, and done with its result.  *)

Walk(find, key, height) ==
  [find |-> find, key |-> key, x |-> head_, level |-> height - 1,
   prev |-> [level \in AllLevels |-> head_], done |-> FALSE, result |-> NULL]

KeyIsAfterNode(key, n) == n # NULL /\ n < key

Down(w, result) ==
  IF w.level = 0 THEN [w EXCEPT !.done = TRUE, !.result = result]
  ELSE [w EXCEPT !.level = @ - 1]

FindGreaterOrEqual(w, n) ==
  IF KeyIsAfterNode(w.key, n) THEN [w EXCEPT !.x = n]
  ELSE Down([w EXCEPT !.prev[w.level] = w.x], n)

FindLessThan(w, n) ==
  IF n = NULL \/ n >= w.key THEN Down(w, w.x) ELSE [w EXCEPT !.x = n]

FindLast(w, n) == IF n = NULL THEN Down(w, w.x) ELSE [w EXCEPT !.x = n]

\* One turn of the loop of a search: a link is loaded and acted upon.
Turn(w) ==
  LET n == next[w.x][w.level]
  IN CASE w.find = "ge"   -> FindGreaterOrEqual(w, n)
       [] w.find = "lt"   -> FindLessThan(w, n)
       [] w.find = "last" -> FindLast(w, n)

-----------------------------------------------------------------------------
(* The writer.                                                             *)

StartInsert ==
  /\ insertion = NULL
  /\ \E key \in Keys \ published, height \in 1 .. kMaxHeight :
       insertion' = [key |-> key, height |-> height, level |-> 0,
                     walk |-> Walk("ge", key, GetMaxHeight)]
  /\ UNCHANGED <<next, heights, iterator, published>>

SearchInsert ==
  /\ insertion # NULL
  /\ ~insertion.walk.done
  /\ insertion' = [insertion EXCEPT !.walk = Turn(@)]
  /\ UNCHANGED <<next, heights, iterator, published>>

\* max_height_ grows before the new levels have a node; prev is head_ there.
RaiseHeight ==
  /\ insertion # NULL
  /\ insertion.walk.done
  /\ insertion.height > GetMaxHeight
  /\ heights' = heights \cup {insertion.height}
  /\ UNCHANGED <<next, insertion, iterator, published>>

Insertable ==
  /\ insertion # NULL
  /\ insertion.walk.done
  /\ insertion.height <= GetMaxHeight

\* The node gets its own link, which nobody reads before, and is published.
Link(level) ==
  LET x == insertion.key
      prev == insertion.walk.prev[level]
  IN next' = [next EXCEPT ![x][level] = next[prev][level], ![prev][level] = x]

\* Broken variant: the levels are linked from the top down.
InsertTopDown ==
  /\ Insertable
  /\ Link(insertion.height - 1 - insertion.level)
  /\ published' = IF insertion.level = insertion.height - 1
                  THEN published \cup {insertion.key} ELSE published
  /\ insertion' = IF insertion.level = insertion.height - 1 THEN NULL
                  ELSE [insertion EXCEPT !.level = @ + 1]
  /\ UNCHANGED <<heights, iterator>>

\* The loop of Insert over the levels of the node, from 0 up.
Insert ==
  /\ Insertable
  /\ Link(insertion.level)
  /\ published' = published \cup {insertion.key}
  /\ insertion' = IF insertion.level = insertion.height - 1 THEN NULL
                  ELSE [insertion EXCEPT !.level = @ + 1]
  /\ UNCHANGED <<heights, iterator>>

-----------------------------------------------------------------------------
(* The readers.                                                            *)

Idle(it) == it.op \in {"none", "done"}

\* An operation begins: its search, from the height it happens to load.
Begin(r, op, find, from) ==
  /\ Idle(iterator[r])
  /\ \E height \in heights :
       iterator' = [iterator EXCEPT ![r] =
         [node |-> @.node, op |-> op, from |-> from, before |-> published,
          walk |-> Walk(find, from, height)]]
  /\ UNCHANGED <<next, heights, insertion, published>>

Seek(r) == \E target \in Keys : Begin(r, "Seek", "ge", target)
SeekToLast(r) == Begin(r, "Prev", "last", NULL)
Prev(r) == iterator[r].node # NULL /\ Begin(r, "Prev", "lt", iterator[r].node)

Done(r, op, from, before, node) ==
  iterator' = [iterator EXCEPT ![r] =
    [node |-> node, op |-> "done", was |-> op, from |-> from, before |-> before]]

SeekToFirst(r) ==
  /\ Idle(iterator[r])
  /\ Done(r, "Seek", head_, published, next[head_][0])
  /\ UNCHANGED <<next, heights, insertion, published>>

Next_(r) ==
  /\ Idle(iterator[r])
  /\ iterator[r].node # NULL
  /\ Done(r, "Next", iterator[r].node, published, next[iterator[r].node][0])
  /\ UNCHANGED <<next, heights, insertion, published>>

\* A search goes on; Prev and SeekToLast make head_ an invalid position.
Search(r) ==
  LET it == iterator[r]
      w == Turn(it.walk)
  IN /\ ~Idle(it)
     /\ IF w.done
        THEN Done(r, it.op, it.from, it.before,
                  IF it.op = "Prev" /\ w.result = head_ THEN NULL ELSE w.result)
        ELSE iterator' = [iterator EXCEPT ![r].walk = w]
     /\ UNCHANGED <<next, heights, insertion, published>>

Next ==
  \/ StartInsert
  \/ SearchInsert
  \/ RaiseHeight
  \/ Insert
  \/ \E r \in Readers : \/ Seek(r)
                        \/ SeekToFirst(r)
                        \/ SeekToLast(r)
                        \/ Next_(r)
                        \/ Prev(r)
                        \/ Search(r)

Spec == Init /\ [][Next]_vars

-----------------------------------------------------------------------------
(* Property.                                                               *)

Between(lo, k, hi) == (lo = NULL \/ lo < k) /\ (hi = NULL \/ k < hi)

\* A reader that runs beside the writer lands on a published node on the right
\* side of where it started, and never steps over a key whose insertion had
\* been published when its operation began.
ReadersMissNothing ==
  \A r \in Readers : LET it == iterator[r] IN it.op = "done" =>
    /\ it.node \in published \cup {NULL}
    /\ CASE it.was = "Seek" ->
              /\ it.node = NULL \/ it.node >= it.from
              /\ \A k \in it.before : k >= it.from => ~Between(NULL, k, it.node)
         [] it.was = "Next" ->
              /\ it.node = NULL \/ it.node > it.from
              /\ \A k \in it.before : ~Between(it.from, k, it.node)
         [] it.was = "Prev" ->
              /\ it.node = NULL \/ it.from = NULL \/ it.node < it.from
              /\ \A k \in it.before : ~Between(it.node, k, it.from)
=============================================================================
