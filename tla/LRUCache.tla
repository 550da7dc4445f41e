------------------------------ MODULE LRUCache ------------------------------
(***************************************************************************)
(* The sharded cache of blocks and tables (util/cache.cc): entries counted *)
(* by reference, two lists of the entries in the cache, a hash table that  *)
(* grows, and clients that hold handles across insertions and erasures by  *)
(* others.  Every method holds the mutex of its shard from end to end.     *)
(***************************************************************************)
EXTENDS Naturals, Sequences, SequencesExt, FiniteSetsExt

CONSTANTS
  CacheKeys,       \* keys, each its own hash: HashSlice is the identity here
  Charges,         \* the charges of insertions
  capacity,        \* of the whole cache
  kNumShards,
  InitialLength,   \* of the hash table of a shard
  MaxInserts       \* bound on the number of insertions

VARIABLES
  entry,           \* the LRUHandles allocated so far, by number
  shard,           \* the shards
  held,            \* handles clients hold, per entry
  deleted          \* calls of the deleter, per entry

vars == <<entry, shard, held, deleted>>

Shards == 0 .. kNumShards - 1
Shard(hash) == hash % kNumShards
PerShard == (capacity + kNumShards - 1) \div kNumShards

-----------------------------------------------------------------------------
(* HandleTable: buckets of entries, in chain order.                        *)

EmptyTable(length) == [length |-> length, elems |-> 0, list |-> [b \in 0 .. length - 1 |-> <<>>]]

Bucket(t, key) == (key \div kNumShards) % t.length

\* Index in the chain of the entry that matches, or one past its end.
FindPointer(t, e, key) ==
  LET chain == t.list[Bucket(t, key)]
      found == {i \in DOMAIN chain : e[chain[i]].key = key}
  IN IF found = {} THEN Len(chain) + 1 ELSE Min(found)

TableLookup(t, e, key) ==
  LET chain == t.list[Bucket(t, key)]
      i == FindPointer(t, e, key)
  IN IF i > Len(chain) THEN 0 ELSE chain[i]

\* The number of buckets that follows: doubled while it is less than the entries.
NewLength(t) ==
  LET length[i \in 0 .. t.elems] ==
        IF i = 0 THEN InitialLength
        ELSE IF length[i - 1] < t.elems THEN 2 * length[i - 1] ELSE length[i - 1]
  IN length[t.elems]

\* An entry is moved to the front of its new chain.
MoveEntry(new, e, h) == [new EXCEPT !.list[Bucket(new, e[h].key)] = <<h>> \o @]

MoveChain(new, e, chain) ==
  LET moved[j \in 0 .. Len(chain)] ==
        IF j = 0 THEN new ELSE MoveEntry(moved[j - 1], e, chain[j])
  IN moved[Len(chain)]

\* The old buckets are moved in order.
Resize(t, e) ==
  LET moved[b \in 0 .. t.length] ==
        IF b = 0 THEN [EmptyTable(NewLength(t)) EXCEPT !.elems = t.elems]
        ELSE MoveChain(moved[b - 1], e, t.list[b - 1])
  IN moved[t.length]

\* Insert puts h in the place of the entry it finds.
TableInsert(t, e, h) ==
  LET b == Bucket(t, e[h].key)
      i == FindPointer(t, e, e[h].key)
      new == i > Len(t.list[b])
      changed == [t EXCEPT !.list[b] = IF new THEN Append(@, h) ELSE [@ EXCEPT ![i] = h],
                           !.elems = IF new THEN @ + 1 ELSE @]
  IN IF new /\ changed.elems > changed.length THEN Resize(changed, e) ELSE changed

TableRemove(t, e, key) ==
  LET b == Bucket(t, key)
      i == FindPointer(t, e, key)
  IN IF i > Len(t.list[b]) THEN t
     ELSE [t EXCEPT !.list[b] = RemoveAt(@, i), !.elems = @ - 1]

-----------------------------------------------------------------------------
(* A shard.  The operators take and return what a method works on: the     *)
(* shard s, the entries e, and the entries d given to their deleter.       *)

\* An entry is in one of the lists or in none.
LRU_Remove(S, h) ==
  [S EXCEPT !.s.lru = RemoveFirst(@, h), !.s.in_use = RemoveFirst(@, h)]

Ref(S, h) ==
  LET S1 == IF S.e[h].refs = 1 /\ S.e[h].in_cache
            THEN [LRU_Remove(S, h) EXCEPT !.s.in_use = Append(@, h)] ELSE S
  IN [S1 EXCEPT !.e[h].refs = @ + 1]

Unref(S, h) ==
  LET S1 == [S EXCEPT !.e[h].refs = @ - 1]
  IN IF S1.e[h].refs = 0 THEN [S1 EXCEPT !.d = Append(@, h)]
     ELSE IF S1.e[h].in_cache /\ S1.e[h].refs = 1
          THEN [LRU_Remove(S1, h) EXCEPT !.s.lru = Append(@, h)]
          ELSE S1

\* Broken variant: the charge stays counted.
FinishEraseKeepingCharge(S, h) ==
  IF h = 0 THEN S ELSE Unref([LRU_Remove(S, h) EXCEPT !.e[h].in_cache = FALSE], h)

\* h has left the hash table already; 0 is NULL.
FinishErase(S, h) ==
  IF h = 0 THEN S
  ELSE Unref([LRU_Remove(S, h) EXCEPT !.e[h].in_cache = FALSE,
                                      !.s.usage = @ - S.e[h].charge], h)

EraseKey(S, key) ==
  FinishErase([S EXCEPT !.s.table = TableRemove(@, S.e, key)], TableLookup(S.s.table, S.e, key))

EvictOldest(S) == EraseKey(S, S.e[Head(S.s.lru)].key)

\* Insert evicts from the old end of the LRU list while over capacity.
EvictOver(S) ==
  LET left[i \in 0 .. Len(S.s.lru)] ==
        IF i = 0 THEN S
        ELSE IF left[i - 1].s.lru # <<>> /\ left[i - 1].s.usage > PerShard
             THEN EvictOldest(left[i - 1]) ELSE left[i - 1]
  IN left[Len(S.s.lru)]

\* Prune evicts until the list is empty.
EvictAll(S) ==
  LET left[i \in 0 .. Len(S.s.lru)] ==
        IF i = 0 THEN S
        ELSE IF left[i - 1].s.lru # <<>> THEN EvictOldest(left[i - 1]) ELSE left[i - 1]
  IN left[Len(S.s.lru)]

CacheInsert(S, h, key, charge) ==
  LET e == [key |-> key, charge |-> charge, in_cache |-> PerShard > 0,
            refs |-> IF PerShard > 0 THEN 2 ELSE 1]
      S1 == [S EXCEPT !.e = Append(@, e)]
      old == TableLookup(S1.s.table, S1.e, key)
      S2 == [S1 EXCEPT !.s.in_use = Append(@, h), !.s.usage = @ + charge,
                       !.s.table = TableInsert(@, S1.e, h)]
      S3 == IF PerShard > 0 THEN FinishErase(S2, old) ELSE S1
  IN EvictOver(S3)

-----------------------------------------------------------------------------

Init ==
  /\ entry = <<>> /\ held = <<>> /\ deleted = <<>>
  /\ shard = [i \in Shards |-> [usage |-> 0, lru |-> <<>>, in_use |-> <<>>,
                                table |-> EmptyTable(InitialLength)]]

\* Stores what a method did in shard i.
Commit(i, S) ==
  /\ shard' = [shard EXCEPT ![i] = S.s]
  /\ entry' = S.e
  /\ deleted' = [h \in DOMAIN S.e |->
                   (IF h \in DOMAIN deleted THEN deleted[h] ELSE 0)
                   + Cardinality({j \in DOMAIN S.d : S.d[j] = h})]

State(i) == [s |-> shard[i], e |-> entry, d |-> <<>>]

Insert(key, charge) ==
  LET i == Shard(key)
  IN /\ Len(entry) < MaxInserts
     /\ Commit(i, CacheInsert(State(i), Len(entry) + 1, key, charge))
     /\ held' = Append(held, 1)

Lookup(key) ==
  LET i == Shard(key)
      h == TableLookup(shard[i].table, entry, key)
  IN /\ h # 0 /\ held[h] < 2
     /\ Commit(i, Ref(State(i), h))
     /\ held' = [held EXCEPT ![h] = @ + 1]

Release(h) ==
  LET i == Shard(entry[h].key)
  IN /\ held[h] > 0
     /\ Commit(i, Unref(State(i), h))
     /\ held' = [held EXCEPT ![h] = @ - 1]

Erase(key) ==
  /\ Commit(Shard(key), EraseKey(State(Shard(key)), key))
  /\ UNCHANGED held

\* ShardedLRUCache::Prune goes shard by shard, each under its own mutex.
Prune(i) ==
  /\ Commit(i, EvictAll(State(i)))
  /\ UNCHANGED held

Next ==
  \/ \E key \in CacheKeys, charge \in Charges : Insert(key, charge)
  \/ \E key \in CacheKeys : Lookup(key)
  \/ \E h \in DOMAIN entry : Release(h)
  \/ \E key \in CacheKeys : Erase(key)
  \/ \E i \in Shards : Prune(i)

Spec == Init /\ [][Next]_vars

-----------------------------------------------------------------------------
(* Property.                                                               *)

Cached(i) == {h \in DOMAIN entry : entry[h].in_cache /\ Shard(entry[h].key) = i}

\* The sum of a sequence of numbers.
Total(w) ==
  LET sum[n \in 0 .. Len(w)] == IF n = 0 THEN 0 ELSE sum[n - 1] + w[n]
  IN sum[Len(w)]

\* No client's handle is ever freed and nothing is freed twice or leaked: the
\* deleter has run once for exactly the entries that neither the cache nor a
\* client refers to.  What the cache counts as its usage is what it holds, the
\* two lists divide it by whether a client holds it, the hash table finds
\* each key's newest entry, whatever was replaced, erased, evicted or moved
\* to other buckets meanwhile.
CacheAccounting ==
  /\ \A h \in DOMAIN entry :
       /\ entry[h].refs = held[h] + (IF entry[h].in_cache THEN 1 ELSE 0)
       /\ deleted[h] = IF entry[h].refs = 0 THEN 1 ELSE 0
  /\ \A i \in Shards :
       LET s == shard[i]
       IN /\ s.usage = Total([h \in DOMAIN entry |-> IF h \in Cached(i) THEN entry[h].charge ELSE 0])
          /\ ToSet(s.lru) = {h \in Cached(i) : held[h] = 0}
          /\ ToSet(s.in_use) = {h \in Cached(i) : held[h] > 0}
          /\ IsInjective(s.lru) /\ IsInjective(s.in_use)
          /\ s.table.elems = Cardinality(Cached(i))
          /\ \A h \in Cached(i) : TableLookup(s.table, entry, entry[h].key) = h
=============================================================================
