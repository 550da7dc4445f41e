------------------------- MODULE WriteQueueProofs -------------------------
(***************************************************************************)
(* What is proved of the writers of LevelDB: for any number of threads,    *)
(* any batches and any sizes, a batch appears at once and an answered      *)
(* write is logged.                                                        *)
(***************************************************************************)
EXTENDS WriteQueue, FiniteSetTheorems, WellFoundedInduction, TLAPS

Entry == [seq : Nat, owner : Threads]

\* NULL is neither a batch nor a memtable.
WriteConstants ==
  /\ Calls \subseteq [Threads -> WriteBatch \cup {NULL}]
  /\ NULL \notin SUBSET Entry

Logging == {"log", "sync", "insert", "failed", "sync_failed"}
Leading == {"delay", "room"} \cup Logging

TypeInv ==
  /\ batch \in [Threads -> WriteBatch \cup {NULL}]
  /\ pc \in [Threads -> {"start", "queued", "flushing", "flush", "returned"} \cup Leading]
  /\ writers \in Seq(Threads)
  /\ status \in [Threads -> {"none", "ok", "error"}]
  /\ log \in Seq([file : Nat, entries : SUBSET Entry, synced : BOOLEAN])
  /\ log_file \in Nat
  /\ mem \in SUBSET Entry
  /\ imm = NULL \/ imm \in SUBSET Entry
  /\ tables \in SUBSET Entry
  /\ last_sequence \in Nat
  /\ before \in [Threads -> SUBSET Threads]

\* Behind the first writer all wait unanswered; only the first one does more.
InLine(queue) ==
  /\ \A i, j \in 1 .. Len(queue) : queue[i] = queue[j] => i = j
  /\ \A i \in 1 .. Len(queue) : status[queue[i]] = "none"
  /\ \A i \in 2 .. Len(queue) : pc[queue[i]] = "queued"

QueueInv ==
  /\ InLine(writers)
  /\ writers # <<>> => pc[writers[1]] \in Leading \cup {"queued"}
  /\ \A t \in Threads : pc[t] \in Leading => writers # <<>> /\ writers[1] = t
  /\ \A t \in Threads : pc[t] = "start" => status[t] = "none"
  /\ \A t \in Threads : pc[t] = "queued" /\ status[t] = "none" =>
       \E i \in 1 .. Len(writers) : writers[i] = t
  /\ \A t \in Threads : pc[t] \in {"flushing", "flush"} => ~HasBatch(t)

\* The group that is logged is a part of the queue its leader may answer for.
GroupOK(queue, n) ==
  /\ n \in 1 .. Len(queue)
  /\ \A i \in 2 .. n : Sync(queue[i]) => Sync(queue[1])

GroupInv ==
  \A t \in Threads : pc[t] \in Logging => HasBatch(t) /\ GroupOK(writers, group)

\* Its record is the last one of the log, and synced before it is inserted.
LastRecord(entries, synced) ==
  /\ log # <<>>
  /\ log[Len(log)].entries = entries
  /\ log[Len(log)].file = log_file
  /\ synced => log[Len(log)].synced

LogInv ==
  \A t \in Threads :
    /\ pc[t] = "sync" => LastRecord(GroupEntries, FALSE)
    /\ pc[t] = "insert" => LastRecord(GroupEntries, Sync(t))

Mine(t) == {e \in Applied : e.owner = t}

InLog(t) == \E i \in DOMAIN log : Mine(t) \subseteq log[i].entries /\ (Sync(t) => log[i].synced)

\* What lies beyond last_sequence is of the group being inserted; what lies
\* up to it is of the writes answered ok, all of each.
DataInv ==
  /\ \A e \in Applied : HasBatch(e.owner) /\ pc[e.owner] # "start"
  /\ \A e \in Applied : e.seq > last_sequence =>
       \E t \in Threads : pc[t] = "insert" /\ e \in GroupEntries
  /\ \A e \in Applied : e.seq <= last_sequence => status[e.owner] = "ok"
  /\ \A t \in Threads : HasBatch(t) /\ status[t] = "ok" =>
       /\ Cardinality(Mine(t)) = batch[t].count
       /\ \A e \in Mine(t) : e.seq <= last_sequence
       /\ InLog(t)

BeforeInv ==
  /\ \A t \in Threads : \A u \in before[t] : pc[u] = "returned" /\ pc[t] # "start"
  /\ \A e, f \in Applied : e.owner \in before[f.owner] => e.seq < f.seq

-----------------------------------------------------------------------------
(* The numbers of a group                                                  *)

LEMMA SameSize ==
  ASSUME NEW S, NEW T, IsFiniteSet(S), NEW f \in [S -> T],
         \A x, y \in S : f[x] = f[y] => x = y,
         \A y \in T : \E x \in S : f[x] = y
  PROVE  IsFiniteSet(T) /\ Cardinality(T) = Cardinality(S)
<1>1. f \in Bijection(S, T)
  BY DEF Bijection, Injection, Surjection, IsInjective
<1> QED BY <1>1, FS_Bijection DEF ExistsBijection

LEMMA PlacesOfEntries ==
  ASSUME NEW threads \in Seq(Threads), batch \in [Threads -> WriteBatch \cup {NULL}]
  PROVE  /\ IsFiniteSet(Places(threads))
         /\ \A p \in Places(threads) :
              /\ p \in Nat \X Nat /\ p[1] \in 1 .. Len(threads)
              /\ HasBatch(threads[p[1]])
              /\ p[2] \in 1 .. batch[threads[p[1]]].count
         /\ \A i \in 1 .. Len(threads) : HasBatch(threads[i]) =>
              \A j \in 1 .. batch[threads[i]].count : <<i, j>> \in Places(threads)
<1> DEFINE I == {k \in DOMAIN threads : HasBatch(threads[k])}
           Of(i) == {i} \X (1 .. batch[threads[i]].count)
           C == {Of(i) : i \in I}
<1>1. DOMAIN threads = 1 .. Len(threads) /\ Len(threads) \in Nat
  OBVIOUS
<1>2. IsFiniteSet(I)
  <2>1. IsFiniteSet(1 .. Len(threads))
    BY <1>1, FS_Interval
  <2>2. I \in SUBSET (1 .. Len(threads))
    BY <1>1
  <2> HIDE DEF I
  <2> QED BY <2>1, <2>2, FS_Subset
<1>3. \A i \in I : batch[threads[i]].count \in Nat
  BY <1>1 DEF HasBatch, WriteBatch
<1>4. \A i \in I : IsFiniteSet(Of(i))
  <2> SUFFICES ASSUME NEW i \in I PROVE IsFiniteSet(Of(i))
    OBVIOUS
  <2> DEFINE c == batch[threads[i]].count
  <2>1. c \in Nat
    BY <1>3
  <2> HIDE DEF c, I
  <2>2. IsFiniteSet(1 .. c)
    BY <2>1, FS_Interval
  <2>4. IsFiniteSet({i})
    BY FS_Singleton
  <2>3. IsFiniteSet({i} \X (1 .. c))
    BY <2>2, <2>4, FS_Product
  <2> QED BY <2>3 DEF c
<1>5. IsFiniteSet(C)
  <2> DEFINE f == [i \in I |-> Of(i)]
  <2>1. f \in Surjection(I, C)
    BY DEF Surjection
  <2> HIDE DEF f, I, C
  <2> QED BY <1>2, <2>1, FS_Surjection
<1>6. IsFiniteSet(UNION C)
  <2>1. \A T \in C : IsFiniteSet(T)
    BY <1>4
  <2> HIDE DEF C
  <2> QED BY <1>5, <2>1, FS_UNION
<1>7. Places(threads) = UNION C
  BY DEF Places
<1>8. ASSUME NEW p \in Places(threads)
      PROVE  /\ p \in Nat \X Nat /\ p[1] \in 1 .. Len(threads)
             /\ HasBatch(threads[p[1]])
             /\ p[2] \in 1 .. batch[threads[p[1]]].count
  <2>1. PICK i \in I : p \in Of(i)
    BY DEF Places
  <2>2. i \in 1 .. Len(threads) /\ batch[threads[i]].count \in Nat /\ HasBatch(threads[i])
    BY <1>1, <1>3
  <2>3. PICK j \in 1 .. batch[threads[i]].count : p = <<i, j>>
    BY <2>1
  <2>4. i \in Nat /\ j \in Nat
    BY <2>2, <2>3
  <2> QED BY <2>2, <2>3, <2>4
<1>9. ASSUME NEW i \in 1 .. Len(threads), HasBatch(threads[i]),
             NEW j \in 1 .. batch[threads[i]].count
      PROVE  <<i, j>> \in Places(threads)
  <2>1. i \in I /\ <<i, j>> \in Of(i)
    BY <1>1, <1>9
  <2> QED BY <2>1 DEF Places
<1> QED BY <1>6, <1>7, <1>8, <1>9

\* The rank of a place is between one and the number of places, and its own.
LEMMA RanksDiffer ==
  ASSUME NEW S \in SUBSET (Nat \X Nat), IsFiniteSet(S)
  PROVE  /\ Cardinality(S) \in Nat
         /\ \A p \in S : Rank(S, p) \in 1 .. Cardinality(S)
         /\ \A p, q \in S : Rank(S, p) = Rank(S, q) => p = q
<1> DEFINE UpTo(p) == {o \in S : o[1] < p[1] \/ (o[1] = p[1] /\ o[2] <= p[2])}
<1>1. \A p \in S : p[1] \in Nat /\ p[2] \in Nat /\ p = <<p[1], p[2]>>
  OBVIOUS
<1>2. Cardinality(S) \in Nat
  BY FS_CardinalityType
<1>3. ASSUME NEW p \in S
      PROVE  /\ IsFiniteSet(UpTo(p)) /\ Cardinality(UpTo(p)) \in Nat
             /\ Cardinality(UpTo(p)) <= Cardinality(S)
             /\ p \in UpTo(p) /\ Rank(S, p) = Cardinality(UpTo(p))
  <2>1. UpTo(p) \in SUBSET S /\ p \in UpTo(p)
    BY <1>1
  <2>2. Rank(S, p) = Cardinality(UpTo(p))
    BY DEF Rank
  <2> HIDE DEF UpTo
  <2> QED BY <2>1, <2>2, FS_Subset, FS_CardinalityType
<1>4. ASSUME NEW p \in S PROVE Rank(S, p) \in 1 .. Cardinality(S)
  <2>1. UpTo(p) # {}
    BY <1>3
  <2> HIDE DEF UpTo
  <2>2. Cardinality(UpTo(p)) # 0
    BY <1>3, <2>1, FS_EmptySet
  <2> QED BY <1>2, <1>3, <2>2
<1>5. ASSUME NEW p \in S, NEW q \in S, p # q,
             p[1] < q[1] \/ (p[1] = q[1] /\ p[2] <= q[2])
      PROVE  Rank(S, p) # Rank(S, q)
  <2>1. p[1] < q[1] \/ (p[1] = q[1] /\ p[2] < q[2])
    BY <1>1, <1>5
  <2>2. q \in UpTo(q) /\ q \notin UpTo(p)
    BY <1>1, <2>1
  <2>3. UpTo(p) \in SUBSET UpTo(q)
    <3> SUFFICES ASSUME NEW o \in S, o[1] < p[1] \/ (o[1] = p[1] /\ o[2] <= p[2])
                 PROVE  o[1] < q[1] \/ (o[1] = q[1] /\ o[2] <= q[2])
      OBVIOUS
    <3> QED BY <1>1, <2>1
  <2>4. UpTo(p) # UpTo(q)
    BY <2>2
  <2> HIDE DEF UpTo
  <2>5. Cardinality(UpTo(q)) # Cardinality(UpTo(p))
    BY <1>3, <2>3, <2>4, FS_Subset
  <2> QED BY <1>3, <2>5
<1>6. ASSUME NEW p \in S, NEW q \in S, Rank(S, p) = Rank(S, q)
      PROVE  p = q
  <2>1. \/ p[1] < q[1] \/ (p[1] = q[1] /\ p[2] <= q[2])
        \/ q[1] < p[1] \/ (q[1] = p[1] /\ q[2] <= p[2])
    BY <1>1
  <2> QED BY <1>5, <1>6, <2>1
<1> QED BY <1>2, <1>4, <1>6

\* The entries of different places have different numbers, all beyond
\* last_sequence; a batch in the group has all its entries.
LEMMA NumbersOfEntries ==
  ASSUME NEW threads \in Seq(Threads), batch \in [Threads -> WriteBatch \cup {NULL}],
         last_sequence \in Nat
  PROVE  /\ Numbered(threads) \in SUBSET Entry
         /\ Cardinality(Numbered(threads)) \in Nat
         /\ \A e \in Numbered(threads) :
              /\ e.seq > last_sequence
              /\ e.seq <= last_sequence + Cardinality(Numbered(threads))
              /\ HasBatch(e.owner)
              /\ \E i \in 1 .. Len(threads) : threads[i] = e.owner
         /\ (\A i, j \in 1 .. Len(threads) : threads[i] = threads[j] => i = j) =>
              \A i \in 1 .. Len(threads) : HasBatch(threads[i]) =>
                Cardinality({e \in Numbered(threads) : e.owner = threads[i]})
                  = batch[threads[i]].count
<1> DEFINE S == Places(threads)
           At(p) == [seq |-> last_sequence + Rank(S, p), owner |-> threads[p[1]]]
           E == Numbered(threads)
<1>1. /\ IsFiniteSet(S)
      /\ \A p \in S : /\ p \in Nat \X Nat /\ p[1] \in 1 .. Len(threads)
                      /\ HasBatch(threads[p[1]])
                      /\ p[2] \in 1 .. batch[threads[p[1]]].count
      /\ \A i \in 1 .. Len(threads) : HasBatch(threads[i]) =>
           \A j \in 1 .. batch[threads[i]].count : <<i, j>> \in S
  BY PlacesOfEntries
<1>2. E = {At(p) : p \in S}
  BY DEF Numbered
<1> HIDE DEF S, E
<1>3. /\ Cardinality(S) \in Nat
      /\ \A p \in S : Rank(S, p) \in 1 .. Cardinality(S)
      /\ \A p, q \in S : Rank(S, p) = Rank(S, q) => p = q
  <2>1. S \in SUBSET (Nat \X Nat)
    BY <1>1
  <2> QED BY <1>1, <2>1, RanksDiffer
<1>4. ASSUME NEW p \in S
      PROVE  /\ At(p) \in Entry /\ At(p).seq > last_sequence
             /\ At(p).seq <= last_sequence + Cardinality(S)
             /\ At(p).owner = threads[p[1]]
  <2>1. threads[p[1]] \in Threads
    BY <1>1
  <2>2. Rank(S, p) \in Nat /\ Rank(S, p) >= 1 /\ Rank(S, p) <= Cardinality(S)
    BY <1>3
  <2> QED BY <1>3, <2>1, <2>2 DEF Entry
<1>5. ASSUME NEW p \in S, NEW q \in S, At(p) = At(q) PROVE p = q
  <2>1. At(p).seq = last_sequence + Rank(S, p) /\ At(q).seq = last_sequence + Rank(S, q)
    OBVIOUS
  <2>2. Rank(S, p) \in Nat /\ Rank(S, q) \in Nat
    BY <1>3
  <2> HIDE DEF At
  <2>3. Rank(S, p) = Rank(S, q)
    BY <1>5, <2>1, <2>2
  <2> QED BY <1>3, <2>3
<1> HIDE DEF At
<1>6. IsFiniteSet(E) /\ Cardinality(E) = Cardinality(S)
  <2> DEFINE f == [p \in S |-> At(p)]
  <2>1. f \in [S -> E] /\ \A p \in S : f[p] = At(p)
    BY <1>2
  <2>2. \A y \in E : \E x \in S : f[x] = y
    BY <1>2
  <2> HIDE DEF f
  <2>3. \A x, y \in S : f[x] = f[y] => x = y
    BY <1>5, <2>1
  <2> QED BY <1>1, <2>1, <2>2, <2>3, SameSize
<1>7. ASSUME NEW e \in E
      PROVE  /\ e \in Entry /\ e.seq > last_sequence
             /\ e.seq <= last_sequence + Cardinality(E)
             /\ HasBatch(e.owner)
             /\ \E i \in 1 .. Len(threads) : threads[i] = e.owner
  <2>1. PICK p \in S : e = At(p)
    BY <1>2
  <2> QED BY <1>1, <1>4, <1>6, <2>1
<1>8. ASSUME \A i, j \in 1 .. Len(threads) : threads[i] = threads[j] => i = j,
             NEW i \in 1 .. Len(threads), HasBatch(threads[i])
      PROVE  Cardinality({e \in E : e.owner = threads[i]}) = batch[threads[i]].count
  <2> DEFINE c == batch[threads[i]].count
             Own == {e \in E : e.owner = threads[i]}
             f == [j \in 1 .. c |-> At(<<i, j>>)]
  <2>1. c \in Nat
    <3>1. threads[i] \in Threads
      OBVIOUS
    <3> QED BY <1>8, <3>1 DEF HasBatch, WriteBatch
  <2>2. \A j \in 1 .. c : <<i, j>> \in S /\ <<i, j>>[1] = i /\ <<i, j>>[2] = j
    BY <1>1, <1>8
  <2>3. \A j \in 1 .. c : At(<<i, j>>) \in Own
    BY <1>2, <1>4, <2>2
  <2>4. f \in [1 .. c -> Own] /\ \A j \in 1 .. c : f[j] = At(<<i, j>>)
    BY <2>3
  <2>5. \A y \in Own : \E x \in 1 .. c : f[x] = y
    <3> SUFFICES ASSUME NEW y \in Own PROVE \E x \in 1 .. c : f[x] = y
      OBVIOUS
    <3>1. PICK p \in S : y = At(p)
      BY <1>2
    <3>2. threads[p[1]] = threads[i]
      BY <1>4, <3>1
    <3>3. p[1] = i /\ p[2] \in 1 .. c /\ p = <<p[1], p[2]>>
      BY <1>1, <1>8, <3>2
    <3> QED BY <2>4, <3>1, <3>3
  <2> HIDE DEF f, c, Own
  <2>6. ASSUME NEW x \in 1 .. c, NEW y \in 1 .. c, f[x] = f[y] PROVE x = y
    <3>1. At(<<i, x>>) = At(<<i, y>>) /\ <<i, x>> \in S /\ <<i, y>> \in S
      BY <2>2, <2>4, <2>6
    <3>2. <<i, x>> = <<i, y>>
      BY <1>5, <3>1
    <3> QED BY <3>2
  <2>7. IsFiniteSet(1 .. c) /\ Cardinality(1 .. c) = c
    BY <2>1, FS_Interval
  <2>8. Cardinality(Own) = c
    BY <2>4, <2>5, <2>6, <2>7, SameSize
  <2> QED BY <2>8 DEF Own, c
<1> QED BY <1>3, <1>6, <1>7, <1>8 DEF E
-----------------------------------------------------------------------------
(* The queue                                                               *)

LEMMA LargestOf ==
  ASSUME NEW n \in Nat, NEW S \in SUBSET (1 .. n), S # {}
  PROVE  \E m \in S : \A o \in S : m >= o
<1> DEFINE D == {n - i : i \in S}
<1>1. \A i \in S : i \in Nat /\ i <= n
  OBVIOUS
<1>2. D \subseteq Nat /\ D # {}
  <2>1. \A i \in S : n - i \in Nat
    BY <1>1
  <2> QED BY <2>1
<1>3. PICK d \in D : \A c \in D : ~(<<c, d>> \in OpToRel(<, Nat))
  BY <1>2, WFMin, NatLessThanWellFounded
<1>4. PICK m \in S : d = n - m
  BY <1>3
<1>5. ASSUME NEW o \in S PROVE m >= o
  <2>1. n - o \in D /\ n - o \in Nat /\ d \in Nat
    BY <1>2
  <2>2. ~(n - o < d)
    BY <1>3, <2>1 DEF OpToRel
  <2> QED BY <1>1, <1>4, <2>2
<1> QED BY <1>5

LEMMA BuildBatchGroupIsOK ==
  ASSUME NEW queue \in Seq(Threads), queue # <<>>, HasBatch(queue[1])
  PROVE  GroupOK(queue, BuildBatchGroup(queue))
<1> DEFINE MaxSize == IF batch[queue[1]].size <= MaxGroupGrowth
                  THEN batch[queue[1]].size + MaxGroupGrowth ELSE MaxGroupSize
           G == {n \in DOMAIN queue :
                   \A i \in 2 .. n : /\ Sync(queue[i]) => batch[queue[1]].sync
                                     /\ HasBatch(queue[i]) => SizeOf(queue, i) <= MaxSize}
<1>1. DOMAIN queue = 1 .. Len(queue) /\ Len(queue) \in Nat /\ 1 \in 1 .. Len(queue)
  OBVIOUS
<1>2. 1 \in G /\ G \in SUBSET (1 .. Len(queue))
  BY <1>1
<1>3. \A n \in G : GroupOK(queue, n)
  BY <1>1 DEF GroupOK, Sync
<1>4. BuildBatchGroup(queue) = CHOOSE n \in G : \A o \in G : n >= o
  BY DEF BuildBatchGroup
<1> HIDE DEF G
<1>5. \E n \in G : \A o \in G : n >= o
  BY <1>1, <1>2, LargestOf
<1> QED BY <1>3, <1>4, <1>5

LEMMA FrontOfQueue ==
  ASSUME NEW queue \in Seq(Threads), NEW n \in 0 .. Len(queue)
  PROVE  /\ SubSeq(queue, 1, n) \in Seq(Threads)
         /\ Len(SubSeq(queue, 1, n)) = n
         /\ \A i \in 1 .. n : SubSeq(queue, 1, n)[i] = queue[i]
         /\ ToSet(SubSeq(queue, 1, n)) = {queue[i] : i \in 1 .. n}
         /\ \A t \in Threads : SubSeq(Append(queue, t), 1, n) = SubSeq(queue, 1, n)
<1> DEFINE front == SubSeq(queue, 1, n)
<1>1. /\ front \in Seq(Threads) /\ Len(front) = n
      /\ \A i \in 1 .. n : front[i] = queue[i]
  OBVIOUS
<1> HIDE DEF front
<1>2. ToSet(front) = {queue[i] : i \in 1 .. n}
  <2>1. DOMAIN front = 1 .. n
    BY <1>1
  <2> QED BY <1>1, <2>1 DEF ToSet
<1>3. ASSUME NEW t \in Threads PROVE SubSeq(Append(queue, t), 1, n) = front
  <2> DEFINE other == SubSeq(Append(queue, t), 1, n)
  <2>1. /\ other \in Seq(Threads) /\ Len(other) = n
        /\ \A i \in 1 .. n : other[i] = queue[i]
    OBVIOUS
  <2> HIDE DEF other
  <2>2. other = front
    BY <1>1, <2>1
  <2> QED BY <2>2 DEF other
<1> QED BY <1>1, <1>2, <1>3 DEF front

LEMMA RestOfQueue ==
  ASSUME NEW queue \in Seq(Threads), NEW n \in 0 .. Len(queue)
  PROVE  /\ SubSeq(queue, n + 1, Len(queue)) \in Seq(Threads)
         /\ Len(SubSeq(queue, n + 1, Len(queue))) = Len(queue) - n
         /\ \A i \in 1 .. (Len(queue) - n) :
              i + n \in 1 .. Len(queue)
                /\ SubSeq(queue, n + 1, Len(queue))[i] = queue[i + n]
  OBVIOUS

\* The entries of a group are a matter of its writers, not of those behind it.
LEMMA GroupEntriesKept ==
  ASSUME batch' = batch, last_sequence' = last_sequence,
         SubSeq(writers', 1, group') = SubSeq(writers, 1, group)
  PROVE  GroupEntries' = GroupEntries
<1> DEFINE front == SubSeq(writers, 1, group)
<1>1. front' = front
  OBVIOUS
<1> HIDE DEF front
<1>2. Places(front)' = Places(front)
  BY <1>1 DEF Places, HasBatch
<1>3. Numbered(front)' = Numbered(front)
  BY <1>1, <1>2 DEF Numbered, Rank
<1> QED BY <1>3 DEF GroupEntries, front

\* Thread t is at the front of a queue, and nobody else holds the front.
Standing(queue, t) ==
  /\ queue = writers \/ writers = <<>>
  /\ InLine(queue)
  /\ queue # <<>> /\ queue[1] = t
  /\ \A u \in Threads : pc[u] \in Leading => u = t

\* The first writer goes on.
LEMMA QueueReleased ==
  ASSUME TypeInv, QueueInv, NEW t \in Threads, NEW queue \in Seq(Threads),
         Standing(queue, t), NEW at \in Leading, Release(queue, t, at), batch' = batch
  PROVE  QueueInv'
<1>1. /\ writers' = queue /\ status' = status /\ pc'[t] = at
      /\ \A u \in Threads : u # t => pc'[u] = pc[u]
  BY DEF Release, TypeInv
<1>2. Len(queue) \in Nat /\ 1 \in 1 .. Len(queue) /\ \A i \in 1 .. Len(queue) : queue[i] \in Threads
  BY DEF Standing
<1>3. ASSUME NEW i \in 2 .. Len(queue) PROVE queue[i] # t /\ pc'[queue[i]] = "queued"
  <2>1. i \in 1 .. Len(queue) /\ i # 1
    BY <1>2
  <2>2. queue[i] # t
    BY <1>2, <2>1 DEF Standing, InLine
  <2> QED BY <1>1, <1>2, <2>1, <2>2 DEF Standing, InLine
<1>4. InLine(writers)'
  BY <1>1, <1>3 DEF Standing, InLine
<1>5. at \notin {"start", "queued", "flushing", "flush"}
  BY DEF Leading, Logging
<1>6. ASSUME NEW u \in Threads, pc'[u] = "queued", status'[u] = "none"
      PROVE  \E i \in 1 .. Len(queue) : queue[i] = u
  <2>1. \E i \in 1 .. Len(writers) : writers[i] = u
    BY <1>1, <1>5, <1>6 DEF QueueInv
  <2> QED BY <2>1 DEF Standing
<1> QED BY <1>1, <1>2, <1>4, <1>5, <1>6 DEF QueueInv, Standing, HasBatch

\* The first n writers are answered and leave; the first one returns.
LEMMA QueueAnswered ==
  ASSUME TypeInv, QueueInv, NEW t \in Threads, NEW queue \in Seq(Threads),
         Standing(queue, t), NEW n \in 1 .. Len(queue), NEW result \in {"ok", "error"},
         NEW S, AnswerGroup(queue, n, t, result, S), batch' = batch,
         NEW at \in {"returned", "flushing"}, at = "flushing" => ~HasBatch(t),
         pc' = [pc EXCEPT ![t] = at]
  PROVE  QueueInv'
<1> DEFINE rest == SubSeq(queue, n + 1, Len(queue))
<1>1. /\ writers' = rest /\ pc'[t] = at
      /\ \A u \in Threads : u # t => pc'[u] = pc[u]
      /\ \A u \in Threads : status'[u] = IF \E i \in 1 .. n : queue[i] = u
                                         THEN result ELSE status[u]
  <2>1. ToSet(SubSeq(queue, 1, n)) = {queue[i] : i \in 1 .. n}
    BY FrontOfQueue
  <2> QED BY <2>1 DEF AnswerGroup, TypeInv
<1>2. /\ Len(queue) \in Nat /\ n \in Nat /\ Len(rest) = Len(queue) - n
      /\ \A i \in 1 .. Len(queue) : queue[i] \in Threads
      /\ \A i \in 1 .. (Len(queue) - n) : i + n \in 2 .. Len(queue) /\ rest[i] = queue[i + n]
  <2>1. Len(queue) \in Nat /\ n \in Nat /\ n \in 0 .. Len(queue)
    OBVIOUS
  <2>2. \A i \in 1 .. (Len(queue) - n) : i + n \in 2 .. Len(queue)
    BY <2>1
  <2> QED BY <2>1, <2>2, RestOfQueue
<1> HIDE DEF rest
<1>3. ASSUME NEW i \in 1 .. Len(rest)
      PROVE  /\ rest[i] \in Threads /\ rest[i] # t /\ pc'[rest[i]] = "queued"
             /\ status'[rest[i]] = "none"
             /\ \A j \in 1 .. Len(rest) : rest[i] = rest[j] => i = j
  <2>1. i + n \in 2 .. Len(queue) /\ rest[i] = queue[i + n] /\ i + n \in 1 .. Len(queue)
    BY <1>2
  <2>2. \A j \in 1 .. n : queue[j] # queue[i + n]
    BY <1>2, <2>1 DEF Standing, InLine
  <2>3. 1 \in 1 .. n
    BY <1>2
  <2>4. ASSUME NEW j \in 1 .. Len(rest), rest[i] = rest[j] PROVE i = j
    <3>1. j + n \in 1 .. Len(queue) /\ rest[j] = queue[j + n]
      BY <1>2
    <3>2. j + n = i + n
      BY <2>1, <2>4, <3>1 DEF Standing, InLine
    <3> QED BY <1>2, <3>2
  <2>5. rest[i] \in Threads /\ pc[rest[i]] = "queued" /\ status[rest[i]] = "none"
    BY <1>2, <2>1 DEF Standing, InLine
  <2>6. rest[i] # t
    BY <2>1, <2>2, <2>3 DEF Standing
  <2>7. \A j \in 1 .. n : queue[j] # rest[i]
    BY <2>1, <2>2
  <2> QED BY <1>1, <2>4, <2>5, <2>6, <2>7
<1>4. InLine(writers)'
  <2>1. \A i \in 2 .. Len(rest) : i \in 1 .. Len(rest)
    BY <1>2
  <2> QED BY <1>1, <1>3, <2>1 DEF InLine
<1>5. \A u \in Threads : pc'[u] \notin Leading
  <2>1. at \notin Leading
    BY DEF Leading, Logging
  <2> QED BY <1>1, <2>1 DEF Standing
<1>6. rest # <<>> => pc'[rest[1]] = "queued"
  <2>1. rest # <<>> => 1 \in 1 .. Len(rest)
    BY <1>1, <1>2, RestOfQueue DEF rest
  <2> QED BY <1>3, <2>1
<1>7. ASSUME NEW u \in Threads, pc'[u] = "start" PROVE status'[u] = "none"
  <2>1. u # t /\ pc[u] = "start"
    BY <1>1, <1>7
  <2>2. ASSUME NEW i \in 1 .. n PROVE queue[i] # u
    <3>1. i = 1 \/ i \in 2 .. Len(queue)
      BY <1>2
    <3> QED BY <2>1, <3>1 DEF Standing, InLine
  <2> QED BY <1>1, <2>1, <2>2 DEF QueueInv
<1>8. \A u \in Threads : pc'[u] \in {"flushing", "flush"} => ~HasBatch(u)'
  BY <1>1 DEF QueueInv, HasBatch
<1>9. ASSUME NEW u \in Threads, pc'[u] = "queued", status'[u] = "none"
      PROVE  \E i \in 1 .. Len(rest) : rest[i] = u
  <2>1. u # t /\ pc[u] = "queued"
    BY <1>1, <1>9
  <2>2. status[u] = "none" /\ \A i \in 1 .. n : queue[i] # u
    BY <1>1, <1>9
  <2>3. \E i \in 1 .. Len(writers) : writers[i] = u
    BY <2>1, <2>2 DEF QueueInv
  <2>4. PICK i \in 1 .. Len(queue) : queue[i] = u
    BY <2>3 DEF Standing
  <2>5. ~(i <= n) /\ i \in Nat
    BY <1>2, <2>2, <2>4
  <2>6. i - n \in 1 .. (Len(queue) - n) /\ (i - n) + n = i
    BY <1>2, <2>4, <2>5
  <2> QED BY <1>2, <2>4, <2>6
<1> QED BY <1>1, <1>4, <1>5, <1>6, <1>7, <1>8, <1>9 DEF QueueInv
-----------------------------------------------------------------------------
(* Room for a batch                                                        *)

\* How MakeRoomForWrite leaves the queue: t waits for room, logs a group or is
\* answered, and ok only if it had nothing to write.
RoomOutcome(queue, t) ==
  \/ \E at \in {"delay", "room"} : Release(queue, t, at)
  \/ HasBatch(t) /\ group' = BuildBatchGroup(queue) /\ Release(queue, t, "log")
  \/ \E result \in {"ok", "error"} :
       Answer(queue, t, result) /\ (result = "ok" => ~HasBatch(t))

LEMMA RoomStep ==
  ASSUME WriteConstants, TypeInv, NEW t \in Threads, NEW queue, NEW allow,
         MakeRoomForWrite(queue, t, allow), tables' = tables
  PROVE  /\ RoomOutcome(queue, t)
         /\ Applied' = Applied
         /\ mem' \in SUBSET Entry /\ (imm' = NULL \/ imm' \in SUBSET Entry) /\ log_file' \in Nat
<1>1. ASSUME GotRoom(queue, t) PROVE RoomOutcome(queue, t)
  BY <1>1 DEF GotRoom, RoomOutcome
<1>2. ASSUME Answer(queue, t, "error") PROVE RoomOutcome(queue, t)
  BY <1>2 DEF RoomOutcome
<1>3. ASSUME NEW at \in {"delay", "room"}, Release(queue, t, at) PROVE RoomOutcome(queue, t)
  BY <1>3 DEF RoomOutcome
<1>4. RoomOutcome(queue, t)
  BY <1>1, <1>2, <1>3 DEF MakeRoomForWrite
<1>5. CASE UNCHANGED memory
  BY <1>4, <1>5 DEF memory, Applied, Entries, TypeInv
<1>6. CASE imm = NULL /\ imm' = mem /\ mem' = {} /\ log_file' = log_file + 1
  BY <1>4, <1>6 DEF Applied, Entries, TypeInv, WriteConstants
<1>7. UNCHANGED memory \/ (imm = NULL /\ imm' = mem /\ mem' = {} /\ log_file' = log_file + 1)
  BY DEF MakeRoomForWrite
<1> QED BY <1>5, <1>6, <1>7

\* A step that neither applies nor answers a write.
Steady ==
  /\ batch' = batch /\ last_sequence' = last_sequence /\ Applied' = Applied
  /\ \A u \in Threads : pc[u] # "start" => pc'[u] # "start"
  /\ \A u \in Threads : pc[u] = "returned" => pc'[u] = "returned"
  /\ \A u \in Threads : pc[u] = "insert" => pc'[u] = "insert" /\ GroupEntries' = GroupEntries
  /\ \A u \in Threads : HasBatch(u) => (status'[u] = "ok" <=> status[u] = "ok")
  /\ \A i \in DOMAIN log : /\ i \in DOMAIN log' /\ log'[i].entries = log[i].entries
                           /\ log[i].synced => log'[i].synced

\* before changes for a thread that calls, which learns who has returned.
Learns ==
  \A u \in Threads :
    \/ before'[u] = before[u]
    \/ /\ pc[u] = "start" /\ pc'[u] # "start"
       /\ \A v \in before'[u] : v \in Threads /\ pc[v] = "returned"

LEMMA DataKept ==
  ASSUME TypeInv, DataInv, BeforeInv, Steady, Learns
  PROVE  DataInv' /\ BeforeInv'
<1>1. Applied \in SUBSET Entry
  BY DEF TypeInv, Applied, Entries
<1>2. /\ batch' = batch /\ last_sequence' = last_sequence /\ Applied' = Applied
      /\ \A u \in Threads : (HasBatch(u))' = HasBatch(u) /\ (Sync(u))' = Sync(u)
      /\ \A u \in Threads : (Mine(u))' = Mine(u)
  BY DEF Steady, HasBatch, Sync, Mine
<1>3. \A e \in Applied : e.owner \in Threads /\ HasBatch(e.owner) /\ pc[e.owner] # "start"
  BY <1>1 DEF DataInv, Entry
<1>4. \A e \in Applied' : (HasBatch(e.owner))' /\ pc'[e.owner] # "start"
  BY <1>2, <1>3 DEF Steady
<1>5. ASSUME NEW e \in Applied', e.seq > last_sequence'
      PROVE  \E t \in Threads : pc'[t] = "insert" /\ e \in GroupEntries'
  BY <1>2, <1>5 DEF Steady, DataInv
<1>6. ASSUME NEW e \in Applied', e.seq <= last_sequence' PROVE status'[e.owner] = "ok"
  BY <1>2, <1>3, <1>6 DEF Steady, DataInv
<1>7. ASSUME NEW t \in Threads, HasBatch(t), status'[t] = "ok"
      PROVE  /\ Cardinality(Mine(t)) = batch[t].count
             /\ \A e \in Mine(t) : e.seq <= last_sequence
             /\ (InLog(t))'
  <2>1. status[t] = "ok"
    BY <1>7 DEF Steady
  <2>2. PICK i \in DOMAIN log : Mine(t) \subseteq log[i].entries /\ (Sync(t) => log[i].synced)
    BY <1>7, <2>1 DEF DataInv, InLog
  <2>3. i \in DOMAIN log' /\ log'[i].entries = log[i].entries /\ (log[i].synced => log'[i].synced)
    BY DEF Steady
  <2>4. (InLog(t))'
    BY <1>2, <2>2, <2>3 DEF InLog
  <2> QED BY <1>7, <2>1, <2>4 DEF DataInv
<1>8. DataInv'
  BY <1>2, <1>4, <1>5, <1>6, <1>7 DEF DataInv
<1>9. ASSUME NEW t \in Threads, NEW u \in before'[t]
      PROVE  pc'[u] = "returned" /\ pc'[t] # "start"
  <2>1. CASE before'[t] = before[t]
    <3>1. u \in Threads
      BY <2>1 DEF TypeInv
    <3> QED BY <2>1, <3>1 DEF BeforeInv, Steady
  <2>2. CASE before'[t] # before[t]
    BY <2>2 DEF Learns, Steady
  <2> QED BY <2>1, <2>2
<1>10. ASSUME NEW e \in Applied', NEW f \in Applied', e.owner \in before'[f.owner]
       PROVE  e.seq < f.seq
  <2>1. f.owner \in Threads /\ pc[f.owner] # "start"
    BY <1>2, <1>3
  <2>2. before'[f.owner] = before[f.owner]
    BY <2>1 DEF Learns
  <2> QED BY <1>2, <1>10, <2>2 DEF BeforeInv
<1> QED BY <1>8, <1>9, <1>10 DEF BeforeInv

\* The first writer looks for room.
LEMMA RoomMade ==
  ASSUME WriteConstants, TypeInv, QueueInv, NEW t \in Threads, NEW queue \in Seq(Threads),
         NEW allow, Standing(queue, t), pc[t] \in {"start", "queued", "delay", "room"},
         MakeRoomForWrite(queue, t, allow),
         UNCHANGED <<batch, log, tables, last_sequence>>
  PROVE  QueueInv' /\ GroupInv' /\ LogInv' /\ Steady /\ pc'[t] # "start"
<1>1. RoomOutcome(queue, t) /\ Applied' = Applied
  BY RoomStep
<1>2. /\ batch' = batch /\ log' = log /\ last_sequence' = last_sequence
      /\ \A u \in Threads : (HasBatch(u))' = HasBatch(u) /\ (Sync(u))' = Sync(u)
  BY DEF HasBatch, Sync
<1>3. \A u \in Threads : u # t => pc[u] \notin Leading
  BY DEF Standing
<1>4. pc[t] \notin Logging /\ pc[t] # "insert" /\ pc[t] # "returned"
  BY DEF Logging
<1>5. queue # <<>> /\ queue[1] = t /\ status[t] = "none" /\ Len(queue) \in Nat
      /\ 1 \in 1 .. Len(queue)
  BY DEF Standing, InLine
<1>6. \A u \in Threads : pc[u] # "insert"
  BY <1>3, <1>4 DEF Leading, Logging
<1>7. \A i \in DOMAIN log : /\ i \in DOMAIN log' /\ log'[i].entries = log[i].entries
                            /\ log[i].synced => log'[i].synced
  BY <1>2
<1>8. ASSUME NEW at \in Leading, Release(queue, t, at), at \in {"delay", "room", "log"},
             at = "log" => HasBatch(t) /\ group' = BuildBatchGroup(queue)
      PROVE  QueueInv' /\ GroupInv' /\ LogInv' /\ Steady /\ pc'[t] # "start"
  <2>1. QueueInv'
    BY <1>2, <1>8, QueueReleased
  <2>2. /\ writers' = queue /\ status' = status /\ pc'[t] = at
        /\ \A u \in Threads : u # t => pc'[u] = pc[u]
    BY <1>8 DEF Release, TypeInv
  <2>3. \A u \in Threads : pc'[u] \in Logging => u = t /\ at = "log"
    BY <1>3, <1>8, <2>2 DEF Leading, Logging
  <2>4. ASSUME at = "log" PROVE HasBatch(t) /\ (GroupOK(writers, group))'
    <3>1. GroupOK(queue, BuildBatchGroup(queue))
      BY <1>5, <1>8, <2>4, BuildBatchGroupIsOK
    <3> QED BY <1>2, <1>8, <2>2, <2>4, <3>1 DEF GroupOK, Sync, HasBatch
  <2>5. GroupInv'
    BY <1>2, <2>3, <2>4 DEF GroupInv
  <2>6. LogInv'
    BY <1>8, <2>2, <2>3 DEF LogInv, Logging
  <2>7. Steady
    BY <1>1, <1>2, <1>4, <1>6, <1>7, <1>8, <2>2 DEF Steady
  <2> QED BY <1>8, <2>1, <2>2, <2>5, <2>6, <2>7
<1>9. ASSUME NEW result \in {"ok", "error"}, Answer(queue, t, result),
             result = "ok" => ~HasBatch(t)
      PROVE  QueueInv' /\ GroupInv' /\ LogInv' /\ Steady /\ pc'[t] # "start"
  <2>1. PICK at \in {"returned", "flushing"} :
          at = Returned(t, result) /\ (at = "flushing" => ~HasBatch(t))
    BY DEF Returned
  <2>2. AnswerGroup(queue, 1, t, result, {}) /\ pc' = [pc EXCEPT ![t] = at]
    BY <1>9, <2>1 DEF Answer
  <2>3. QueueInv'
    <3>1. 1 \in 1 .. Len(queue) /\ batch' = batch /\ (at = "flushing" => ~HasBatch(t))
      BY <1>2, <1>5, <2>1
    <3> QED BY <3>1, <2>2, QueueAnswered, ZenonT(60)
  <2>4. pc'[t] = at /\ \A u \in Threads : u # t => pc'[u] = pc[u]
    BY <2>2 DEF TypeInv
  <2>5. ToSet(SubSeq(queue, 1, 1)) = {t}
    <3>1. ToSet(SubSeq(queue, 1, 1)) = {queue[i] : i \in 1 .. 1}
      BY <1>5, FrontOfQueue
    <3> QED BY <1>5, <3>1
  <2>6. status'[t] = result /\ \A u \in Threads : u # t => status'[u] = status[u]
    BY <2>2, <2>5 DEF AnswerGroup, TypeInv
  <2>7. \A u \in Threads : pc'[u] \notin Leading
    BY <1>3, <2>1, <2>4 DEF Leading, Logging
  <2>8. GroupInv' /\ LogInv'
    BY <2>7 DEF GroupInv, LogInv, Leading, Logging
  <2>9. \A u \in Threads : HasBatch(u) => (status'[u] = "ok" <=> status[u] = "ok")
    BY <1>5, <1>9, <2>6
  <2>10. Steady
    BY <1>1, <1>2, <1>4, <1>6, <1>7, <2>1, <2>4, <2>9 DEF Steady
  <2> QED BY <2>1, <2>3, <2>4, <2>8, <2>10
<1>10. CASE \E at \in {"delay", "room"} : Release(queue, t, at)
  <2>1. PICK at \in {"delay", "room"} : Release(queue, t, at)
    BY <1>10
  <2>2. at \in Leading /\ at # "log"
    BY DEF Leading
  <2> QED BY <1>8, <2>1, <2>2
<1>11. CASE HasBatch(t) /\ group' = BuildBatchGroup(queue) /\ Release(queue, t, "log")
  <2>1. "log" \in Leading
    BY DEF Leading, Logging
  <2> QED BY <1>8, <1>11, <2>1
<1>12. CASE \E result \in {"ok", "error"} :
              Answer(queue, t, result) /\ (result = "ok" => ~HasBatch(t))
  BY <1>9, <1>12
<1> QED BY <1>1, <1>10, <1>11, <1>12 DEF RoomOutcome

\* The five parts of the invariant.
WriteInv == QueueInv /\ GroupInv /\ LogInv /\ DataInv /\ BeforeInv

-----------------------------------------------------------------------------
(* The steps                                                               *)

\* Whoever holds the front is the first writer.
LEMMA FrontIsStanding ==
  ASSUME TypeInv, QueueInv, NEW t \in Threads, writers # <<>>, writers[1] = t
  PROVE  Standing(writers, t)
<1>1. \A u \in Threads : pc[u] \in Leading => u = t
  BY DEF QueueInv
<1> QED BY <1>1 DEF Standing, QueueInv

LEMMA LeaderIsStanding ==
  ASSUME TypeInv, QueueInv, NEW t \in Threads, pc[t] \in Leading
  PROVE  Standing(writers, t)
<1>1. writers # <<>> /\ writers[1] = t
  BY DEF QueueInv
<1> QED BY <1>1, FrontIsStanding

LEMMA WriteStep ==
  ASSUME WriteConstants, TypeInv, WriteInv, NEW t \in Threads, Write(t)
  PROVE  WriteInv'
<1> USE DEF WriteInv
<1>1. /\ pc[t] = "start" /\ UNCHANGED <<batch, log, tables, last_sequence>>
      /\ before' = [before EXCEPT ![t] = {u \in Threads : pc[u] = "returned"}]
  BY DEF Write
<1>2. status[t] = "none"
  BY <1>1 DEF QueueInv
<1>3. Learns \/ pc'[t] = "start"
  <2>1. /\ before'[t] = {u \in Threads : pc[u] = "returned"}
        /\ \A u \in Threads : u # t => before'[u] = before[u]
    BY <1>1 DEF TypeInv
  <2> QED BY <1>1, <2>1 DEF Learns
<1>4. CASE writers = <<>> /\ MakeRoomForWrite(<<t>>, t, TRUE)
  <2> DEFINE queue == <<t>>
  <2>1. queue \in Seq(Threads) /\ Len(queue) = 1 /\ queue[1] = t /\ queue # <<>>
    OBVIOUS
  <2> HIDE DEF queue
  <2>2. \A u \in Threads : pc[u] \in Leading => u = t
    BY <1>4 DEF QueueInv
  <2>3. Standing(queue, t)
    BY <1>2, <1>4, <2>1, <2>2 DEF Standing, InLine
  <2>4. MakeRoomForWrite(queue, t, TRUE)
    BY <1>4 DEF queue
  <2>5. QueueInv' /\ GroupInv' /\ LogInv' /\ Steady /\ pc'[t] # "start"
    BY <1>1, <2>1, <2>3, <2>4, RoomMade
  <2> QED BY <1>3, <2>5, DataKept
<1>5. CASE /\ writers # <<>> /\ Release(Append(writers, t), t, "queued")
           /\ UNCHANGED <<group, memory, bg, faults>>
  <2> DEFINE queue == Append(writers, t)
  <2>1. /\ queue \in Seq(Threads) /\ Len(queue) = Len(writers) + 1 /\ Len(writers) \in Nat
        /\ \A i \in 1 .. Len(writers) : queue[i] = writers[i] /\ writers[i] \in Threads
        /\ queue[Len(writers) + 1] = t
        /\ 1 \in 1 .. Len(writers) /\ queue # <<>>
    <3>1. writers \in Seq(Threads) /\ writers # <<>>
      BY <1>5 DEF TypeInv
    <3> QED BY ONLY <3>1, t \in Threads DEF queue
  <2> HIDE DEF queue
  <2>2. /\ writers' = queue /\ status' = status /\ pc'[t] = "queued"
        /\ \A u \in Threads : u # t => pc'[u] = pc[u]
    BY <1>5 DEF Release, TypeInv, queue
  <2>3. \A i \in 1 .. Len(writers) : writers[i] # t
    <3> SUFFICES ASSUME NEW i \in 1 .. Len(writers), writers[i] = t PROVE FALSE
      OBVIOUS
    <3>1. i = 1 \/ i \in 2 .. Len(writers)
      BY <2>1
    <3> QED BY <1>1, <1>5, <3>1 DEF QueueInv, InLine, Leading, Logging
  <2>4. InLine(writers)'
    <3>1. ASSUME NEW i \in 1 .. Len(queue), NEW j \in 1 .. Len(queue), queue[i] = queue[j]
          PROVE  i = j
      <4>1. /\ i = Len(writers) + 1 \/ i \in 1 .. Len(writers)
            /\ j = Len(writers) + 1 \/ j \in 1 .. Len(writers)
        BY <2>1
      <4> QED BY <2>1, <2>3, <3>1, <4>1 DEF QueueInv, InLine
    <3>2. ASSUME NEW i \in 1 .. Len(queue) PROVE status'[queue[i]] = "none"
      <4>1. i = Len(writers) + 1 \/ i \in 1 .. Len(writers)
        BY <2>1
      <4> QED BY <1>2, <2>1, <2>2, <4>1 DEF QueueInv, InLine
    <3>3. ASSUME NEW i \in 2 .. Len(queue) PROVE pc'[queue[i]] = "queued"
      <4>1. i = Len(writers) + 1 \/ (i \in 1 .. Len(writers) /\ i \in 2 .. Len(writers))
        BY <2>1
      <4> QED BY <2>1, <2>2, <2>3, <4>1 DEF QueueInv, InLine
    <3> QED BY <2>2, <3>1, <3>2, <3>3 DEF InLine
  <2>5. QueueInv'
    <3>1. queue[1] = writers[1] /\ writers[1] # t /\ writers[1] \in Threads
      BY <2>1, <2>3
    <3>2. \A u \in Threads : pc'[u] \in Leading => u # t
      BY <2>2 DEF Leading, Logging
    <3>3. \A u \in Threads : pc'[u] \in Leading => queue # <<>> /\ queue[1] = u
      BY <2>1, <2>2, <3>1, <3>2 DEF QueueInv
    <3>4. ASSUME NEW u \in Threads, pc'[u] = "queued", status'[u] = "none"
          PROVE  \E i \in 1 .. Len(queue) : queue[i] = u
      <4>1. u = t \/ \E i \in 1 .. Len(writers) : writers[i] = u
        BY <2>2, <3>4 DEF QueueInv
      <4>2. /\ Len(writers) + 1 \in 1 .. Len(queue)
            /\ \A i \in 1 .. Len(writers) : i \in 1 .. Len(queue)
        BY <2>1
      <4> QED BY <2>1, <4>1, <4>2
    <3>5. pc'[queue[1]] \in Leading \cup {"queued"}
      BY <1>5, <2>2, <3>1 DEF QueueInv
    <3>6. \A u \in Threads : pc'[u] = "start" => status'[u] = "none"
      BY <2>2 DEF QueueInv
    <3>7. \A u \in Threads : pc'[u] \in {"flushing", "flush"} => ~(HasBatch(u))'
      BY <1>1, <2>2 DEF QueueInv, HasBatch
    <3> QED BY <2>2, <2>4, <3>3, <3>4, <3>5, <3>6, <3>7 DEF QueueInv
  <2>6. ASSUME NEW u \in Threads, pc'[u] \in Logging
        PROVE  pc[u] = pc'[u] /\ HasBatch(u) /\ GroupOK(writers, group)
    <3>1. u # t
      BY <2>2, <2>6 DEF Logging
    <3> QED BY <2>2, <2>6, <3>1 DEF GroupInv
  <2>7. ASSUME GroupOK(writers, group)
        PROVE  /\ (GroupOK(writers, group))' /\ GroupEntries' = GroupEntries
    <3>1. /\ group' = group /\ group \in 1 .. Len(writers)
          /\ \A i \in 2 .. group : Sync(writers[i]) => Sync(writers[1])
      BY <1>5, <2>7 DEF GroupOK
    <3>2. group \in 1 .. Len(queue) /\ \A i \in 1 .. group : i \in 1 .. Len(writers)
      BY <2>1, <3>1
    <3>3. \A i \in 2 .. group : i \in 1 .. group
      BY <2>1, <3>1
    <3>4. \A u : (Sync(u))' = Sync(u)
      BY <1>1 DEF Sync, HasBatch
    <3>5. SubSeq(queue, 1, group) = SubSeq(writers, 1, group)
      <4>1. group \in 0 .. Len(writers)
        BY <2>1, <3>1
      <4> QED BY <4>1, FrontOfQueue DEF queue, TypeInv
    <3>6. GroupEntries' = GroupEntries
      BY <1>1, <2>2, <3>1, <3>5, GroupEntriesKept
    <3>7. \A i \in 2 .. group : Sync(queue[i]) => Sync(queue[1])
      BY <2>1, <3>1, <3>2, <3>3
    <3> QED BY <2>2, <3>1, <3>2, <3>4, <3>6, <3>7 DEF GroupOK
  <2>8. GroupInv'
    BY <1>1, <2>6, <2>7 DEF GroupInv, HasBatch
  <2>9. LogInv'
    <3> SUFFICES ASSUME NEW u \in Threads, pc'[u] \in {"sync", "insert"}
                 PROVE  /\ pc'[u] = "sync" => (LastRecord(GroupEntries, FALSE))'
                        /\ pc'[u] = "insert" => (LastRecord(GroupEntries, Sync(u)))'
      BY DEF LogInv
    <3>1. pc[u] = pc'[u] /\ GroupEntries' = GroupEntries
      BY <2>6, <2>7 DEF Logging
    <3>2. log' = log /\ log_file' = log_file /\ (Sync(u))' = Sync(u)
      BY <1>1, <1>5 DEF memory, Sync, HasBatch
    <3> QED BY <3>1, <3>2 DEF LogInv, LastRecord
  <2>10. Steady
    <3>1. Applied' = Applied /\ log' = log /\ batch' = batch /\ last_sequence' = last_sequence
      BY <1>1, <1>5 DEF memory, Applied, Entries
    <3>2. \A u \in Threads : pc[u] = "insert" => pc'[u] = "insert" /\ GroupEntries' = GroupEntries
      BY <1>1, <2>2, <2>7 DEF GroupInv, Logging
    <3> QED BY <1>1, <2>2, <3>1, <3>2 DEF Steady
  <2> QED BY <1>3, <2>2, <2>5, <2>8, <2>9, <2>10, DataKept
<1> QED BY <1>4, <1>5 DEF Write

LEMMA WakeInQueueStep ==
  ASSUME WriteConstants, TypeInv, WriteInv, NEW t \in Threads, WakeInQueue(t)
  PROVE  WriteInv'
<1> USE DEF WriteInv
<1>1. /\ pc[t] = "queued" /\ UNCHANGED <<batch, log, tables, last_sequence>> /\ before' = before
  BY DEF WakeInQueue
<1>2. Learns
  BY <1>1 DEF Learns
<1>3. CASE /\ status[t] # "none" /\ pc' = [pc EXCEPT ![t] = Returned(t, status[t])]
           /\ UNCHANGED <<writers, status, group, memory>>
  <2>1. PICK at \in {"returned", "flushing"} :
          at = Returned(t, status[t]) /\ (at = "flushing" => ~HasBatch(t))
    BY DEF Returned
  <2>2. pc'[t] = at /\ \A u \in Threads : u # t => pc'[u] = pc[u]
    BY <1>3, <2>1 DEF TypeInv
  <2>3. /\ \A u \in Threads : pc'[u] \in Leading \cup {"start", "queued"} => u # t
        /\ pc[t] \notin Leading
    BY <1>1, <2>2 DEF Leading, Logging
  <2>4. \A i \in 1 .. Len(writers) : writers[i] \in Threads /\ writers[i] # t
    BY <1>3 DEF TypeInv, QueueInv, InLine
  <2>5. QueueInv'
    <3>1. InLine(writers)'
      <4>1. \A i \in 2 .. Len(writers) : i \in 1 .. Len(writers)
        BY DEF TypeInv
      <4> QED BY <1>3, <2>2, <2>4, <4>1 DEF QueueInv, InLine
    <3>2. ASSUME writers # <<>> PROVE pc'[writers[1]] \in Leading \cup {"queued"}
      <4>1. 1 \in 1 .. Len(writers)
        BY <3>2 DEF TypeInv
      <4> QED BY <2>2, <2>4, <3>2, <4>1 DEF QueueInv
    <3>3. \A u \in Threads : pc'[u] \in Leading => writers # <<>> /\ writers[1] = u
      BY <2>2, <2>3 DEF QueueInv
    <3>4. \A u \in Threads : pc'[u] = "start" => status[u] = "none"
      BY <2>2, <2>3 DEF QueueInv
    <3>5. ASSUME NEW u \in Threads, pc'[u] = "queued", status[u] = "none"
          PROVE  \E i \in 1 .. Len(writers) : writers[i] = u
      BY <2>2, <2>3, <3>5 DEF QueueInv
    <3>6. \A u \in Threads : pc'[u] \in {"flushing", "flush"} => ~(HasBatch(u))'
      BY <1>1, <2>1, <2>2 DEF QueueInv, HasBatch
    <3> QED BY <1>3, <3>1, <3>2, <3>3, <3>4, <3>5, <3>6 DEF QueueInv
  <2>6. GroupEntries' = GroupEntries /\ Applied' = Applied /\ log_file' = log_file
    <3>1. GroupEntries' = GroupEntries
      BY <1>1, <1>3, GroupEntriesKept
    <3> QED BY <1>1, <1>3, <3>1 DEF memory, Applied, Entries
  <2>7. \A u \in Threads : pc'[u] \in Logging => pc[u] = pc'[u]
    BY <2>2, <2>3 DEF Leading
  <2>8. GroupInv'
    BY <1>1, <1>3, <2>7 DEF GroupInv, GroupOK, HasBatch, Sync
  <2>9. LogInv'
    BY <1>1, <2>6, <2>7 DEF LogInv, LastRecord, Logging, HasBatch, Sync
  <2>10. Steady
    BY <1>1, <1>3, <2>1, <2>2, <2>6 DEF Steady
  <2> QED BY <1>2, <2>5, <2>8, <2>9, <2>10, DataKept
<1>4. CASE /\ status[t] = "none" /\ Head(writers) = t /\ MakeRoomForWrite(writers, t, TRUE)
  <2>1. writers # <<>> /\ writers[1] = t
    <3>1. PICK i \in 1 .. Len(writers) : writers[i] = t
      BY <1>1, <1>4 DEF QueueInv
    <3>2. writers \in Seq(Threads) /\ writers # <<>>
      BY <3>1 DEF TypeInv
    <3> QED BY <1>4, <3>2
  <2>2. writers \in Seq(Threads)
    BY DEF TypeInv
  <2>3. Standing(writers, t)
    BY <2>1, FrontIsStanding
  <2>4. QueueInv' /\ GroupInv' /\ LogInv' /\ Steady
    BY <1>1, <1>4, <2>2, <2>3, RoomMade
  <2> QED BY <1>2, <2>4, DataKept
<1> QED BY <1>3, <1>4 DEF WakeInQueue

LEMMA ResumeStep ==
  ASSUME WriteConstants, TypeInv, WriteInv, NEW t \in Threads, ResumeMakeRoom(t)
  PROVE  WriteInv'
<1> USE DEF WriteInv
<1>1. /\ pc[t] \in {"delay", "room"} /\ UNCHANGED <<batch, log, tables, last_sequence>>
      /\ before' = before
  BY DEF ResumeMakeRoom
<1>2. Learns
  BY <1>1 DEF Learns
<1>3. Standing(writers, t) /\ writers \in Seq(Threads)
  BY <1>1, LeaderIsStanding DEF Leading, TypeInv
<1>4. PICK allow : MakeRoomForWrite(writers, t, allow)
  BY DEF ResumeMakeRoom
<1>5. QueueInv' /\ GroupInv' /\ LogInv' /\ Steady
  BY <1>1, <1>3, <1>4, RoomMade
<1> QED BY <1>2, <1>5, DataKept

\* The leader goes from one state to another and the queue stays as it is.
LEMMA LeaderMoves ==
  ASSUME TypeInv, QueueInv, NEW t \in Threads, pc[t] \in Leading, NEW at \in Leading,
         pc' = [pc EXCEPT ![t] = at], UNCHANGED <<batch, writers, status>>
  PROVE  QueueInv'
<1>1. Standing(writers, t) /\ writers \in Seq(Threads)
  BY LeaderIsStanding DEF TypeInv
<1>2. /\ pc'[t] = at /\ \A u \in Threads : u # t => pc'[u] = pc[u]
  BY DEF TypeInv
<1>3. \A i \in 2 .. Len(writers) : writers[i] \in Threads /\ writers[i] # t
  <2>1. \A i \in 2 .. Len(writers) : i \in 1 .. Len(writers) /\ i # 1 /\ 1 \in 1 .. Len(writers)
    BY <1>1
  <2> QED BY <1>1, <2>1 DEF Standing, InLine
<1>4. InLine(writers)'
  BY <1>2, <1>3 DEF QueueInv, InLine
<1>5. at \notin {"start", "queued", "flushing", "flush"}
  BY DEF Leading, Logging
<1> QED BY <1>1, <1>2, <1>4, <1>5 DEF QueueInv, Standing, HasBatch

\* The part of AddRecord and SyncLog: the log grows or its records are synced.
LEMMA LoggingMoves ==
  ASSUME TypeInv, WriteInv, NEW t \in Threads, pc[t] \in {"log", "sync"}, NEW at \in Logging,
         pc' = [pc EXCEPT ![t] = at],
         UNCHANGED <<batch, writers, status, group, memory, tables, last_sequence, before>>,
         \A i \in DOMAIN log : /\ i \in DOMAIN log' /\ log'[i].entries = log[i].entries
                               /\ log[i].synced => log'[i].synced,
         at = "sync" => (LastRecord(GroupEntries, FALSE))',
         at = "insert" => (LastRecord(GroupEntries, Sync(t)))'
  PROVE  WriteInv'
<1> USE DEF WriteInv
<1>1. pc[t] \in Leading /\ at \in Leading
  BY DEF Leading, Logging
<1>2. QueueInv'
  BY <1>1, LeaderMoves
<1>3. pc'[t] = at /\ \A u \in Threads : u # t => pc'[u] = pc[u] /\ pc[u] \notin Logging
  BY <1>1, LeaderIsStanding DEF TypeInv, Standing, Leading
<1>4. GroupInv'
  BY <1>3 DEF GroupInv, GroupOK, HasBatch, Sync, Logging
<1>5. LogInv'
  BY <1>3 DEF LogInv, Logging
<1>6. \A u \in Threads : pc[u] # "insert"
  BY <1>3 DEF Logging
<1>7. Applied' = Applied
  BY DEF Applied, Entries, memory
<1>8. pc[t] # "returned" /\ at # "start"
  BY DEF Logging
<1>9. Steady
  BY <1>3, <1>6, <1>7, <1>8 DEF Steady
<1>10. Learns
  BY DEF Learns
<1> QED BY <1>2, <1>4, <1>5, <1>9, <1>10, DataKept

LEMMA AddRecordStep ==
  ASSUME TypeInv, WriteInv, NEW t \in Threads, AddRecord(t)
  PROVE  WriteInv'
<1>1. /\ pc[t] = "log" /\ UNCHANGED <<batch, writers, status, group, memory, tables, last_sequence, before>>
  BY DEF AddRecord
<1>2. GroupEntries' = GroupEntries /\ log_file' = log_file
  BY <1>1, GroupEntriesKept DEF memory
<1>3. CASE /\ log' = Append(log, [file |-> log_file, entries |-> GroupEntries, synced |-> FALSE])
           /\ pc' = [pc EXCEPT ![t] = IF Sync(t) THEN "sync" ELSE "insert"]
  <2> DEFINE R == [file |-> log_file, entries |-> GroupEntries, synced |-> FALSE]
             at == IF Sync(t) THEN "sync" ELSE "insert"
  <2>1. R.file = log_file /\ R.entries = GroupEntries /\ R.synced = FALSE /\ log' = Append(log, R)
    BY <1>3
  <2> HIDE DEF R
  <2>2. /\ log' # <<>> /\ log'[Len(log')] = R
        /\ \A i \in DOMAIN log : i \in DOMAIN log' /\ log'[i] = log[i]
    <3>1. \E X : log \in Seq(X)
      BY DEF TypeInv
    <3>2. DOMAIN log = 1 .. Len(log) /\ Len(log) \in Nat
      BY <3>1
    <3>3. Len(log') = Len(log) + 1 /\ DOMAIN log' = 1 .. (Len(log) + 1)
      BY <2>1, <3>1
    <3> QED BY <2>1, <3>1, <3>2, <3>3
  <2>3. (LastRecord(GroupEntries, FALSE))'
    BY <1>2, <2>1, <2>2 DEF LastRecord
  <2>4. ~Sync(t) => (LastRecord(GroupEntries, Sync(t)))'
    BY <1>1, <1>2, <2>1, <2>2 DEF LastRecord, Sync, HasBatch
  <2>5. at \in Logging /\ (at = "insert" => ~Sync(t)) /\ pc' = [pc EXCEPT ![t] = at]
    BY <1>3 DEF Logging
  <2> HIDE DEF at
  <2>6. \A i \in DOMAIN log : /\ i \in DOMAIN log' /\ log'[i].entries = log[i].entries
                              /\ log[i].synced => log'[i].synced
    BY <2>2
  <2> QED BY <1>1, <2>3, <2>4, <2>5, <2>6, LoggingMoves
<1>4. CASE log' = log /\ pc' = [pc EXCEPT ![t] = "failed"]
  <2>1. "failed" \in Logging
    BY DEF Logging
  <2> QED BY <1>1, <1>4, <2>1, LoggingMoves
<1> QED BY <1>3, <1>4 DEF AddRecord

LEMMA SyncLogStep ==
  ASSUME TypeInv, WriteInv, NEW t \in Threads, SyncLog(t)
  PROVE  WriteInv'
<1>1. /\ pc[t] = "sync" /\ UNCHANGED <<batch, writers, status, group, memory, tables, last_sequence, before>>
  BY DEF SyncLog
<1>2. GroupEntries' = GroupEntries /\ log_file' = log_file
  BY <1>1, GroupEntriesKept DEF memory
<1>3. CASE /\ log' = [i \in DOMAIN log |-> [log[i] EXCEPT !.synced = @ \/ log[i].file = log_file]]
           /\ pc' = [pc EXCEPT ![t] = "insert"]
  <2>1. LastRecord(GroupEntries, FALSE)
    BY <1>1 DEF WriteInv, LogInv
  <2>2. /\ DOMAIN log = 1 .. Len(log) /\ Len(log) \in Nat
        /\ \A i \in DOMAIN log : log[i] \in [file : Nat, entries : SUBSET Entry, synced : BOOLEAN]
    <3>1. PICK Record : Record = [file : Nat, entries : SUBSET Entry, synced : BOOLEAN]
      OBVIOUS
    <3>2. log \in Seq(Record)
      BY <3>1 DEF TypeInv
    <3>3. DOMAIN log = 1 .. Len(log) /\ Len(log) \in Nat /\ \A i \in DOMAIN log : log[i] \in Record
      BY ONLY <3>2
    <3> QED BY <3>1, <3>3
  <2>3. /\ DOMAIN log' = DOMAIN log /\ Len(log') = Len(log)
        /\ \A i \in DOMAIN log : /\ log'[i].entries = log[i].entries /\ log'[i].file = log[i].file
                                 /\ log'[i].synced = (log[i].synced \/ log[i].file = log_file)
    BY <1>3, <2>2
  <2>4. log # <<>> /\ Len(log) \in DOMAIN log
    BY <2>1 DEF LastRecord, TypeInv
  <2>5. (LastRecord(GroupEntries, Sync(t)))'
    <3>1. log' # <<>>
      BY <2>3, <2>4
    <3>2. log'[Len(log')].entries = GroupEntries /\ log'[Len(log')].file = log_file
      BY <2>1, <2>3, <2>4 DEF LastRecord
    <3>3. log'[Len(log')].synced
      BY <2>1, <2>3, <2>4 DEF LastRecord
    <3> QED BY <1>2, <3>1, <3>2, <3>3 DEF LastRecord
  <2>6. \A i \in DOMAIN log : /\ i \in DOMAIN log' /\ log'[i].entries = log[i].entries
                              /\ log[i].synced => log'[i].synced
    BY <2>3
  <2>7. "insert" \in Logging
    BY DEF Logging
  <2> QED BY <1>1, <1>3, <2>5, <2>6, <2>7, LoggingMoves
<1>4. CASE log' = log /\ pc' = [pc EXCEPT ![t] = "sync_failed"]
  <2>1. "sync_failed" \in Logging
    BY DEF Logging
  <2> QED BY <1>1, <1>4, <2>1, LoggingMoves
<1> QED BY <1>3, <1>4 DEF SyncLog

\* The entries of the group that is logged: their owners are its writers,
\* which are not answered yet.
LEMMA GroupIsUnanswered ==
  ASSUME TypeInv, QueueInv, GroupInv, NEW t \in Threads, pc[t] \in Logging
  PROVE  /\ GroupEntries \in SUBSET Entry /\ Cardinality(GroupEntries) \in Nat
         /\ group \in 1 .. Len(writers)
         /\ \A i \in 1 .. group : /\ writers[i] \in Threads /\ status[writers[i]] = "none"
                                  /\ pc[writers[i]] \notin {"start", "returned"}
         /\ \A e \in GroupEntries :
              /\ e.seq > last_sequence /\ e.seq <= last_sequence + Cardinality(GroupEntries)
              /\ HasBatch(e.owner) /\ \E i \in 1 .. group : writers[i] = e.owner
         /\ \A i \in 1 .. group : HasBatch(writers[i]) =>
              Cardinality({e \in GroupEntries : e.owner = writers[i]}) = batch[writers[i]].count
<1> DEFINE front == SubSeq(writers, 1, group)
<1>1. group \in 1 .. Len(writers) /\ Len(writers) \in Nat /\ writers \in Seq(Threads)
  BY DEF GroupInv, GroupOK, TypeInv
<1>2. group \in 0 .. Len(writers) /\ group \in Nat
  BY <1>1
<1>3. front \in Seq(Threads) /\ Len(front) = group /\ \A i \in 1 .. group : front[i] = writers[i]
  BY <1>1, <1>2, FrontOfQueue
<1>4. GroupEntries = Numbered(front)
  BY DEF GroupEntries
<1> HIDE DEF front
<1>5. /\ Numbered(front) \in SUBSET Entry
      /\ Cardinality(Numbered(front)) \in Nat
      /\ \A e \in Numbered(front) :
           /\ e.seq > last_sequence
           /\ e.seq <= last_sequence + Cardinality(Numbered(front))
           /\ HasBatch(e.owner)
           /\ \E i \in 1 .. Len(front) : front[i] = e.owner
      /\ (\A i, j \in 1 .. Len(front) : front[i] = front[j] => i = j) =>
           \A i \in 1 .. Len(front) : HasBatch(front[i]) =>
             Cardinality({e \in Numbered(front) : e.owner = front[i]}) = batch[front[i]].count
  BY <1>3, NumbersOfEntries DEF TypeInv
<1>6. \A i \in 1 .. group : i \in 1 .. Len(writers) /\ (i = 1 \/ i \in 2 .. Len(writers))
  BY <1>1, <1>2
<1>7. \A i, j \in 1 .. Len(front) : front[i] = front[j] => i = j
  BY <1>3, <1>6 DEF QueueInv, InLine
<1>8. pc[t] \in Leading /\ pc[t] \notin {"start", "returned"} /\ writers[1] = t
  BY DEF QueueInv, Leading, Logging
<1>9. ASSUME NEW i \in 1 .. group
      PROVE  /\ writers[i] \in Threads /\ status[writers[i]] = "none"
             /\ pc[writers[i]] \notin {"start", "returned"}
  BY <1>1, <1>6, <1>8 DEF QueueInv, InLine
<1>10. ASSUME NEW i \in 1 .. group, HasBatch(writers[i])
       PROVE  Cardinality({e \in GroupEntries : e.owner = writers[i]}) = batch[writers[i]].count
  <2>1. front[i] = writers[i] /\ i \in 1 .. Len(front)
    BY <1>3
  <2>2. Cardinality({e \in Numbered(front) : e.owner = front[i]}) = batch[front[i]].count
    BY <1>5, <1>7, <1>10, <2>1
  <2> QED BY <1>4, <2>1, <2>2
<1>11. ASSUME NEW e \in GroupEntries
       PROVE  /\ e.seq > last_sequence /\ e.seq <= last_sequence + Cardinality(GroupEntries)
              /\ HasBatch(e.owner) /\ \E i \in 1 .. group : writers[i] = e.owner
  BY <1>3, <1>4, <1>5
<1> QED BY <1>1, <1>4, <1>5, <1>9, <1>10, <1>11

LEMMA InsertIntoStep ==
  ASSUME TypeInv, WriteInv, NEW t \in Threads, InsertInto(t)
  PROVE  WriteInv'
<1> USE DEF WriteInv
<1>1. PICK e \in GroupEntries : mem' = mem \cup {e}
  BY DEF InsertInto
<1>2. /\ pc[t] = "insert" /\ pc[t] \in Logging
      /\ UNCHANGED <<batch, pc, writers, status, group, log, imm, log_file, tables, last_sequence, before>>
  BY DEF InsertInto, Logging
<1>3. /\ \A u : (HasBatch(u))' = HasBatch(u) /\ (Sync(u))' = Sync(u)
      /\ GroupEntries' = GroupEntries
  BY <1>2, GroupEntriesKept DEF HasBatch, Sync
<1>4. QueueInv' /\ GroupInv' /\ LogInv'
  BY <1>2, <1>3 DEF QueueInv, InLine, GroupInv, GroupOK, LogInv, LastRecord
<1>5. Applied' = Applied \cup {e} /\ Applied \in SUBSET Entry
  BY <1>1, <1>2 DEF Applied, Entries, TypeInv
<1>6. \A x \in GroupEntries :
        /\ x \in Entry /\ x.owner \in Threads /\ x.seq > last_sequence /\ HasBatch(x.owner)
        /\ status[x.owner] = "none" /\ pc[x.owner] \notin {"start", "returned"}
  BY <1>2, GroupIsUnanswered DEF Entry
<1>7. ASSUME NEW u \in Threads, status[u] = "ok" PROVE (Mine(u))' = Mine(u)
  <2>1. e.owner # u
    BY <1>6, <1>7
  <2> QED BY <1>5, <2>1 DEF Mine
<1>8. e \in Entry /\ last_sequence \in Nat /\ e.seq \in Nat
  BY <1>6 DEF TypeInv, Entry
<1>9. DataInv'
  <2>1. \A x \in Applied' : (HasBatch(x.owner))' /\ pc'[x.owner] # "start"
    BY <1>2, <1>3, <1>5, <1>6 DEF DataInv
  <2>2. \A x \in Applied' : x.seq > last_sequence' =>
          \E u \in Threads : pc'[u] = "insert" /\ x \in GroupEntries'
    BY <1>2, <1>3, <1>5 DEF DataInv
  <2>3. \A x \in Applied' : x.seq <= last_sequence' => status'[x.owner] = "ok"
    BY <1>2, <1>5, <1>6, <1>8 DEF DataInv
  <2>4. ASSUME NEW u \in Threads, HasBatch(u), status[u] = "ok"
        PROVE  /\ Cardinality((Mine(u))') = batch[u].count
               /\ \A x \in (Mine(u))' : x.seq <= last_sequence
               /\ (InLog(u))'
    BY <1>2, <1>3, <1>7, <2>4 DEF DataInv, InLog
  <2> QED BY <1>2, <1>3, <2>1, <2>2, <2>3, <2>4 DEF DataInv
<1>10. BeforeInv'
  <2>1. ASSUME NEW x \in Applied', NEW y \in Applied', x.owner \in before[y.owner]
        PROVE  x.seq < y.seq
    <3>1. y.owner \in Threads
      BY <1>5, <1>8 DEF Entry
    <3>2. pc[x.owner] = "returned"
      BY <2>1, <3>1 DEF BeforeInv
    <3>3. x \notin GroupEntries /\ x \in Applied
      BY <1>5, <1>6, <3>2
    <3>4. CASE y \in Applied
      BY <2>1, <3>3, <3>4 DEF BeforeInv
    <3>5. CASE y = e
      <4>1. ~(x.seq > last_sequence)
        BY <3>3 DEF DataInv
      <4>2. x.seq \in Nat
        BY <1>5, <3>3 DEF Entry
      <4> QED BY <1>6, <1>8, <3>5, <4>1, <4>2
    <3> QED BY <1>5, <3>4, <3>5
  <2> QED BY <1>2, <2>1 DEF BeforeInv
<1> QED BY <1>4, <1>9, <1>10

LEMMA FinishWriteStep ==
  ASSUME TypeInv, WriteInv, NEW t \in Threads, FinishWrite(t)
  PROVE  WriteInv'
<1> USE DEF WriteInv
<1>1. /\ pc[t] \in {"insert", "failed", "sync_failed"}
      /\ pc[t] = "insert" => GroupEntries \subseteq mem
      /\ pc' = [pc EXCEPT ![t] = "returned"]
      /\ last_sequence' = last_sequence + Cardinality(GroupEntries)
      /\ UNCHANGED <<batch, log, memory, tables, before>>
  BY DEF FinishWrite
<1>2. PICK result, S :
        /\ result \in {"ok", "error"}
        /\ AnswerGroup(writers, group, t, result, S)
        /\ result = "ok" <=> pc[t] = "insert"
  BY DEF FinishWrite
<1>3. Standing(writers, t) /\ pc[t] \in Logging
  BY <1>1, LeaderIsStanding DEF Leading, Logging
<1>4. /\ Cardinality(GroupEntries) \in Nat
      /\ group \in 1 .. Len(writers)
      /\ \A i \in 1 .. group : /\ writers[i] \in Threads /\ status[writers[i]] = "none"
                               /\ pc[writers[i]] \notin {"start", "returned"}
      /\ \A e \in GroupEntries :
           /\ e.seq > last_sequence /\ e.seq <= last_sequence + Cardinality(GroupEntries)
           /\ HasBatch(e.owner) /\ \E i \in 1 .. group : writers[i] = e.owner
      /\ \A i \in 1 .. group : HasBatch(writers[i]) =>
           Cardinality({e \in GroupEntries : e.owner = writers[i]}) = batch[writers[i]].count
  BY <1>3, GroupIsUnanswered
<1>5. QueueInv'
  <2>1. writers \in Seq(Threads) /\ batch' = batch
    BY <1>1 DEF TypeInv
  <2>2. "returned" \in {"returned", "flushing"} /\ "returned" # "flushing"
    OBVIOUS
  <2> QED BY <1>1, <1>2, <1>3, <1>4, <2>1, <2>2, QueueAnswered
<1>6. /\ pc'[t] = "returned" /\ \A u \in Threads : u # t => pc'[u] = pc[u]
      /\ \A u \in Threads : u # t => pc[u] \notin Leading
  BY <1>1, <1>3 DEF TypeInv, Standing
<1>7. \A u \in Threads : pc'[u] \notin Logging
  BY <1>6 DEF Leading, Logging
<1>8. GroupInv' /\ LogInv'
  BY <1>7 DEF GroupInv, LogInv, Logging
<1>9. \A u \in Threads : status'[u] = IF \E i \in 1 .. group : writers[i] = u
                                       THEN result ELSE status[u]
  <2>1. writers \in Seq(Threads) /\ group \in 0 .. Len(writers)
    BY <1>4 DEF TypeInv
  <2>2. ToSet(SubSeq(writers, 1, group)) = {writers[i] : i \in 1 .. group}
    BY <2>1, FrontOfQueue
  <2> QED BY <1>2, <2>2 DEF AnswerGroup
<1>10. /\ Applied' = Applied /\ Applied \in SUBSET Entry
       /\ last_sequence \in Nat /\ last_sequence' \in Nat /\ last_sequence <= last_sequence'
       /\ \A u : (HasBatch(u))' = HasBatch(u) /\ (Sync(u))' = Sync(u) /\ (Mine(u))' = Mine(u)
       /\ \A u : (InLog(u))' = InLog(u)
  <2>1. Applied' = Applied /\ Applied \in SUBSET Entry
    BY <1>1 DEF memory, Applied, Entries, TypeInv
  <2>2. last_sequence \in Nat /\ last_sequence' \in Nat /\ last_sequence <= last_sequence'
    BY <1>1, <1>4 DEF TypeInv
  <2>3. \A u : (HasBatch(u))' = HasBatch(u) /\ (Sync(u))' = Sync(u) /\ (Mine(u))' = Mine(u)
    BY <1>1, <2>1 DEF HasBatch, Sync, Mine
  <2>4. \A u : (InLog(u))' = InLog(u)
    BY <1>1, <2>3 DEF InLog
  <2> QED BY <2>1, <2>2, <2>3, <2>4
<1>11. \A e \in Applied : e.seq \in Nat /\ e.owner \in Threads
  BY <1>10 DEF Entry
\* What lies beyond last_sequence is of this group.
<1>12. ASSUME NEW e \in Applied, e.seq > last_sequence
       PROVE  result = "ok" /\ e \in GroupEntries /\ e.seq <= last_sequence'
  <2>1. PICK u \in Threads : pc[u] = "insert" /\ e \in GroupEntries
    BY <1>12 DEF DataInv
  <2>2. u = t
    BY <1>6, <2>1 DEF Leading, Logging
  <2> QED BY <1>1, <1>2, <1>4, <2>1, <2>2
<1>13. ASSUME NEW e \in Applied, ~(e.seq > last_sequence)
       PROVE  /\ status[e.owner] = "ok" /\ status'[e.owner] = "ok"
              /\ \A i \in 1 .. group : writers[i] # e.owner
  <2>1. status[e.owner] = "ok"
    BY <1>10, <1>11, <1>13 DEF DataInv
  <2>2. \A i \in 1 .. group : writers[i] # e.owner
    BY <1>4, <2>1
  <2> QED BY <1>9, <1>11, <2>1, <2>2
<1>14. \A e \in Applied : (HasBatch(e.owner))' /\ pc'[e.owner] # "start"
  BY <1>6, <1>10, <1>11 DEF DataInv
<1>15. \A e \in Applied : ~(e.seq > last_sequence')
  BY <1>10, <1>11, <1>12
<1>16. ASSUME NEW e \in Applied PROVE status'[e.owner] = "ok"
  <2>1. CASE e.seq > last_sequence
    <3>1. result = "ok" /\ \E i \in 1 .. group : writers[i] = e.owner
      BY <1>4, <1>12, <2>1
    <3> QED BY <1>9, <1>11, <3>1
  <2> QED BY <1>13, <2>1
<1>17. ASSUME NEW u \in Threads, HasBatch(u), status'[u] = "ok"
       PROVE  Cardinality(Mine(u)) = batch[u].count /\ InLog(u)
  <2>1. CASE \E i \in 1 .. group : writers[i] = u
    <3>1. PICK i \in 1 .. group : writers[i] = u
      BY <2>1
    <3>2. result = "ok" /\ pc[t] = "insert" /\ GroupEntries \subseteq mem
      BY <1>1, <1>2, <1>9, <1>17, <2>1
    <3>3. Mine(u) = {e \in GroupEntries : e.owner = u}
      <4>1. \A e \in Applied : e.owner = u => e \in GroupEntries
        BY <1>12, <1>13, <3>1
      <4>2. GroupEntries \subseteq Applied
        BY <3>2 DEF Applied
      <4> QED BY <4>1, <4>2 DEF Mine
    <3>4. Cardinality(Mine(u)) = batch[u].count
      BY <1>4, <1>17, <3>1, <3>3
    <3>5. LastRecord(GroupEntries, Sync(t))
      BY <3>2 DEF LogInv
    <3>6. Sync(u) => Sync(t)
      <4>1. i = 1 \/ i \in 2 .. group
        BY <1>4
      <4> QED BY <1>3, <3>1, <4>1 DEF GroupInv, GroupOK, Standing
    <3>7. Len(log) \in DOMAIN log
      BY <3>5 DEF LastRecord, TypeInv
    <3>8. InLog(u)
      BY <3>3, <3>5, <3>6, <3>7 DEF InLog, LastRecord
    <3> QED BY <3>4, <3>8
  <2>2. CASE ~(\E i \in 1 .. group : writers[i] = u)
    <3>1. status[u] = "ok"
      BY <1>9, <1>17, <2>2
    <3> QED BY <1>17, <3>1 DEF DataInv
  <2> QED BY <2>1, <2>2
<1>18. \A u \in Threads : \A e \in Mine(u) : e.seq <= last_sequence'
  BY <1>10, <1>11, <1>15 DEF Mine
<1>19. DataInv'
  BY <1>1, <1>10, <1>14, <1>15, <1>16, <1>17, <1>18 DEF DataInv
<1>20. BeforeInv'
  <2>1. \A u \in Threads : pc[u] # "start" => pc'[u] # "start"
    BY <1>6
  <2>2. \A u \in Threads : pc[u] = "returned" => pc'[u] = "returned"
    BY <1>6
  <2>3. \A u \in Threads : \A v \in before[u] : v \in Threads
    BY DEF TypeInv
  <2> QED BY <1>1, <1>10, <2>1, <2>2, <2>3 DEF BeforeInv
<1> QED BY <1>5, <1>8, <1>19, <1>20

LEMMA CompactMemTableCallStep ==
  ASSUME TypeInv, WriteInv, NEW t \in Threads, TEST_CompactMemTable(t)
  PROVE  WriteInv'
<1> USE DEF WriteInv
<1>1. /\ pc[t] \in {"flushing", "flush"} /\ ~HasBatch(t)
      /\ UNCHANGED <<batch, writers, group, log, memory, tables, last_sequence, before>>
  BY DEF TEST_CompactMemTable, QueueInv
<1>2. PICK at \in {"flush", "returned"} : pc' = [pc EXCEPT ![t] = at]
  BY DEF TEST_CompactMemTable
<1>3. /\ pc'[t] = at /\ \A u \in Threads : u # t => pc'[u] = pc[u]
      /\ \A u \in Threads : u # t => status'[u] = status[u]
  BY <1>2 DEF TEST_CompactMemTable, TypeInv
<1>4. /\ \A u : (HasBatch(u))' = HasBatch(u) /\ (Sync(u))' = Sync(u)
      /\ GroupEntries' = GroupEntries /\ log_file' = log_file /\ Applied' = Applied
  BY <1>1, GroupEntriesKept DEF HasBatch, Sync, memory, Applied, Entries
<1>5. \A u \in Threads : pc'[u] \in Leading \cup {"start", "queued"} => u # t /\ pc[u] = pc'[u]
  BY <1>3 DEF Leading, Logging
<1>6. \A i \in 1 .. Len(writers) :
        /\ writers[i] \in Threads /\ writers[i] # t
        /\ pc'[writers[i]] = pc[writers[i]] /\ status'[writers[i]] = status[writers[i]]
  <2> SUFFICES ASSUME NEW i \in 1 .. Len(writers)
               PROVE  writers[i] \in Threads /\ writers[i] # t
    BY <1>3
  <2>1. writers \in Seq(Threads) /\ (i = 1 \/ i \in 2 .. Len(writers)) /\ writers # <<>>
    BY DEF TypeInv
  <2> QED BY <1>1, <2>1 DEF QueueInv, InLine, Leading, Logging
<1>7. \A i \in 2 .. Len(writers) : i \in 1 .. Len(writers)
  BY DEF TypeInv
<1>8. InLine(writers)'
  BY <1>1, <1>6, <1>7 DEF QueueInv, InLine
<1>9. writers # <<>> => pc'[writers[1]] \in Leading \cup {"queued"}
  <2>1. writers # <<>> => 1 \in 1 .. Len(writers)
    BY DEF TypeInv
  <2> QED BY <1>6, <2>1 DEF QueueInv
<1>10. QueueInv'
  <2>1. \A u \in Threads : pc'[u] \in {"flushing", "flush"} => ~HasBatch(u)
    BY <1>1, <1>3 DEF QueueInv
  <2>2. \A u \in Threads : pc'[u] \in Leading => writers # <<>> /\ writers[1] = u
    BY <1>5 DEF QueueInv
  <2>3. \A u \in Threads : pc'[u] = "start" => status'[u] = "none"
    BY <1>3, <1>5 DEF QueueInv
  <2>4. ASSUME NEW u \in Threads, pc'[u] = "queued", status'[u] = "none"
        PROVE  \E i \in 1 .. Len(writers) : writers[i] = u
    BY <1>3, <1>5, <2>4 DEF QueueInv
  <2> QED BY <1>1, <1>4, <1>8, <1>9, <2>1, <2>2, <2>3, <2>4 DEF QueueInv
<1>11. GroupInv'
  BY <1>1, <1>4, <1>5 DEF GroupInv, GroupOK, Leading
<1>12. LogInv'
  BY <1>1, <1>4, <1>5 DEF LogInv, LastRecord, Leading, Logging
<1>13. Steady
  BY <1>1, <1>3, <1>4 DEF Steady
<1>14. Learns
  BY <1>1 DEF Learns
<1> QED BY <1>10, <1>11, <1>12, <1>13, <1>14, DataKept

LEMMA BackgroundStep ==
  ASSUME WriteConstants, TypeInv, WriteInv, Background
  PROVE  WriteInv' /\ TypeInv'
<1> USE DEF WriteInv
<1>1. UNCHANGED <<batch, pc, writers, status, group, log, log_file, mem, last_sequence, before>>
  BY DEF Background, BackgroundCall, FlushInCompaction, EndCompaction
<1>2. UNCHANGED <<imm, tables>> \/ (imm # NULL /\ tables' = tables \cup imm /\ imm' = NULL)
  BY DEF Background, BackgroundCall, FlushInCompaction, EndCompaction, CompactMemTable
<1>3. Applied' = Applied
  BY <1>1, <1>2 DEF Applied, Entries
<1>4. TypeInv'
  BY <1>1, <1>2 DEF TypeInv
<1>5. /\ \A u : (HasBatch(u))' = HasBatch(u) /\ (Sync(u))' = Sync(u)
      /\ GroupEntries' = GroupEntries
  BY <1>1, GroupEntriesKept DEF HasBatch, Sync
<1>6. QueueInv' /\ GroupInv' /\ LogInv'
  BY <1>1, <1>5 DEF QueueInv, InLine, GroupInv, GroupOK, LogInv, LastRecord
<1>7. Steady /\ Learns
  BY <1>1, <1>3, <1>5 DEF Steady, Learns
<1> QED BY <1>4, <1>6, <1>7, DataKept

-----------------------------------------------------------------------------
(* Types                                                                   *)

LEMMA AnswerType ==
  ASSUME TypeInv, NEW queue \in Seq(Threads), NEW n \in 1 .. Len(queue), NEW t, NEW S,
         NEW result \in {"ok", "error"}, AnswerGroup(queue, n, t, result, S)
  PROVE  writers' \in Seq(Threads) /\ status' \in [Threads -> {"none", "ok", "error"}]
<1>1. n \in 0 .. Len(queue)
  OBVIOUS
<1>2. writers' \in Seq(Threads)
  BY <1>1, RestOfQueue DEF AnswerGroup
<1> QED BY <1>2 DEF AnswerGroup, TypeInv

LEMMA RoomType ==
  ASSUME WriteConstants, TypeInv, NEW t \in Threads, NEW queue \in Seq(Threads), queue # <<>>,
         NEW allow, MakeRoomForWrite(queue, t, allow),
         UNCHANGED <<batch, log, tables, last_sequence>>,
         before' \in [Threads -> SUBSET Threads]
  PROVE  TypeInv'
<1>1. /\ RoomOutcome(queue, t)
      /\ mem' \in SUBSET Entry /\ (imm' = NULL \/ imm' \in SUBSET Entry) /\ log_file' \in Nat
  BY RoomStep
<1>2. /\ writers' \in Seq(Threads) /\ status' \in [Threads -> {"none", "ok", "error"}]
      /\ \E at \in {"delay", "room", "log", "returned", "flushing"} : pc' = [pc EXCEPT ![t] = at]
  <2>1. ASSUME NEW at \in {"delay", "room", "log"}, Release(queue, t, at)
        PROVE  <1>2!:
    BY <2>1 DEF Release, TypeInv
  <2>2. ASSUME NEW result \in {"ok", "error"}, Answer(queue, t, result)
        PROVE  <1>2!:
    <3>1. 1 \in 1 .. Len(queue) /\ AnswerGroup(queue, 1, t, result, {})
      BY <2>2 DEF Answer
    <3>2. writers' \in Seq(Threads) /\ status' \in [Threads -> {"none", "ok", "error"}]
      BY <3>1, AnswerType
    <3> QED BY <2>2, <3>2 DEF Answer, Returned
  <2> QED BY <1>1, <2>1, <2>2 DEF RoomOutcome
<1>3. pc' \in [Threads -> {"start", "queued", "flushing", "flush", "returned"} \cup Leading]
  BY <1>2 DEF TypeInv, Leading, Logging
<1> QED BY <1>1, <1>2, <1>3 DEF TypeInv

LEMMA NextTypeInv ==
  ASSUME WriteConstants, TypeInv, WriteInv, [Next]_vars
  PROVE  TypeInv'
<1>1. ASSUME NEW t \in Threads, Write(t) PROVE TypeInv'
  <2>1. /\ UNCHANGED <<batch, log, tables, last_sequence>>
        /\ before' \in [Threads -> SUBSET Threads]
    BY <1>1 DEF Write, TypeInv
  <2>2. CASE MakeRoomForWrite(<<t>>, t, TRUE)
    <3>1. <<t>> \in Seq(Threads) /\ <<t>> # <<>>
      OBVIOUS
    <3> QED BY <2>1, <2>2, <3>1, RoomType
  <2>3. CASE Release(Append(writers, t), t, "queued") /\ UNCHANGED memory
    <3>1. writers' \in Seq(Threads) /\ status' = status
      BY <2>3 DEF Release, TypeInv
    <3>2. pc' \in [Threads -> {"start", "queued", "flushing", "flush", "returned"} \cup Leading]
      BY <2>3 DEF Release, TypeInv
    <3> QED BY <2>1, <2>3, <3>1, <3>2 DEF TypeInv, memory
  <2> QED BY <1>1, <2>2, <2>3 DEF Write
<1>2. ASSUME NEW t \in Threads, WakeInQueue(t) PROVE TypeInv'
  <2>1. UNCHANGED <<batch, log, tables, last_sequence, before>> /\ pc[t] = "queued"
    BY <1>2 DEF WakeInQueue
  <2>2. CASE UNCHANGED <<writers, status, memory>> /\ pc' = [pc EXCEPT ![t] = Returned(t, status[t])]
    BY <2>1, <2>2 DEF TypeInv, memory, Returned
  <2>3. CASE status[t] = "none" /\ MakeRoomForWrite(writers, t, TRUE)
    <3>1. \E i \in 1 .. Len(writers) : writers[i] = t
      BY <2>1, <2>3 DEF WriteInv, QueueInv
    <3>2. writers \in Seq(Threads) /\ writers # <<>>
      BY <3>1 DEF TypeInv
    <3>3. before' \in [Threads -> SUBSET Threads]
      BY <2>1 DEF TypeInv
    <3> QED BY <2>1, <2>3, <3>2, <3>3, RoomType
  <2> QED BY <1>2, <2>2, <2>3 DEF WakeInQueue
<1>3. ASSUME NEW t \in Threads, ResumeMakeRoom(t) PROVE TypeInv'
  <2>1. /\ UNCHANGED <<batch, log, tables, last_sequence>> /\ pc[t] \in {"delay", "room"}
        /\ before' \in [Threads -> SUBSET Threads]
    BY <1>3 DEF ResumeMakeRoom, TypeInv
  <2>2. PICK allow : MakeRoomForWrite(writers, t, allow)
    BY <1>3 DEF ResumeMakeRoom
  <2>3. writers \in Seq(Threads) /\ writers # <<>>
    BY <2>1 DEF TypeInv, WriteInv, QueueInv, Leading
  <2> QED BY <2>1, <2>2, <2>3, RoomType
<1>4. ASSUME NEW t \in Threads, pc[t] \in Logging
      PROVE  GroupEntries \in SUBSET Entry /\ group \in 1 .. Len(writers)
             /\ Cardinality(GroupEntries) \in Nat
  BY <1>4, GroupIsUnanswered DEF WriteInv
<1>5. PICK Record : Record = [file : Nat, entries : SUBSET Entry, synced : BOOLEAN]
  OBVIOUS
<1>6. log \in Seq(Record)
  BY <1>5 DEF TypeInv
<1>7. ASSUME NEW t \in Threads, AddRecord(t) PROVE TypeInv'
  <2>1. pc[t] = "log" /\ UNCHANGED <<batch, writers, status, memory, tables, last_sequence, before>>
    BY <1>7 DEF AddRecord
  <2>2. [file |-> log_file, entries |-> GroupEntries, synced |-> FALSE] \in Record
    BY <1>4, <1>5, <2>1 DEF TypeInv, Logging
  <2>3. log' \in Seq(Record)
    <3>1. log' = log \/ log' = Append(log, [file |-> log_file, entries |-> GroupEntries, synced |-> FALSE])
      BY <1>7 DEF AddRecord
    <3> QED BY <1>6, <2>2, <3>1
  <2>4. pc' \in [Threads -> {"start", "queued", "flushing", "flush", "returned"} \cup Leading]
    BY <1>7 DEF AddRecord, TypeInv, Leading, Logging
  <2> QED BY <1>5, <2>1, <2>3, <2>4 DEF TypeInv, memory
<1>8. ASSUME NEW t \in Threads, SyncLog(t) PROVE TypeInv'
  <2>1. UNCHANGED <<batch, writers, status, memory, tables, last_sequence, before>>
    BY <1>8 DEF SyncLog
  <2>2. log' \in Seq(Record)
    <3>1. CASE log' = [i \in DOMAIN log |-> [log[i] EXCEPT !.synced = @ \/ log[i].file = log_file]]
      <4>1. DOMAIN log = 1 .. Len(log) /\ Len(log) \in Nat /\ \A i \in DOMAIN log : log[i] \in Record
        BY ONLY <1>6
      <4>2. \A i \in 1 .. Len(log) : [log[i] EXCEPT !.synced = @ \/ log[i].file = log_file] \in Record
        BY <1>5, <4>1
      <4> QED BY <3>1, <4>1, <4>2
    <3> QED BY <1>6, <1>8, <3>1 DEF SyncLog
  <2>3. pc' \in [Threads -> {"start", "queued", "flushing", "flush", "returned"} \cup Leading]
    BY <1>8 DEF SyncLog, TypeInv, Leading, Logging
  <2> QED BY <1>5, <2>1, <2>2, <2>3 DEF TypeInv, memory
<1>9. ASSUME NEW t \in Threads, InsertInto(t) PROVE TypeInv'
  <2>1. /\ pc[t] = "insert"
        /\ UNCHANGED <<batch, pc, writers, status, log, imm, log_file, tables, last_sequence, before>>
    BY <1>9 DEF InsertInto
  <2>2. mem' \in SUBSET Entry
    BY <1>4, <1>9, <2>1 DEF InsertInto, Logging, TypeInv
  <2> QED BY <2>1, <2>2 DEF TypeInv
<1>10. ASSUME NEW t \in Threads, FinishWrite(t) PROVE TypeInv'
  <2>1. /\ pc[t] \in Logging /\ UNCHANGED <<batch, log, memory, tables, before>>
        /\ pc' = [pc EXCEPT ![t] = "returned"]
        /\ last_sequence' = last_sequence + Cardinality(GroupEntries)
    BY <1>10 DEF FinishWrite, Logging
  <2>2. PICK result, S : result \in {"ok", "error"} /\ AnswerGroup(writers, group, t, result, S)
    BY <1>10 DEF FinishWrite
  <2>3. writers' \in Seq(Threads) /\ status' \in [Threads -> {"none", "ok", "error"}]
    BY <1>4, <2>1, <2>2, AnswerType DEF TypeInv
  <2>4. last_sequence' \in Nat
    BY <1>4, <2>1 DEF TypeInv
  <2>5. pc' \in [Threads -> {"start", "queued", "flushing", "flush", "returned"} \cup Leading]
    BY <2>1 DEF TypeInv
  <2> QED BY <2>1, <2>3, <2>4, <2>5 DEF TypeInv, memory
<1>11. ASSUME NEW t \in Threads, TEST_CompactMemTable(t) PROVE TypeInv'
  <2>1. UNCHANGED <<batch, writers, log, memory, tables, last_sequence, before>>
    BY <1>11 DEF TEST_CompactMemTable
  <2>2. pc' \in [Threads -> {"start", "queued", "flushing", "flush", "returned"} \cup Leading]
    BY <1>11 DEF TEST_CompactMemTable, TypeInv
  <2>3. status' \in [Threads -> {"none", "ok", "error"}]
    BY <1>11 DEF TEST_CompactMemTable, TypeInv
  <2> QED BY <2>1, <2>2, <2>3 DEF TypeInv, memory
<1>12. ASSUME Background PROVE TypeInv'
  BY <1>12, BackgroundStep
<1>13. CASE UNCHANGED vars
  BY <1>13 DEF vars, memory, TypeInv
<1> QED BY <1>1, <1>2, <1>3, <1>7, <1>8, <1>9, <1>10, <1>11, <1>12, <1>13 DEF Next, Thread

-----------------------------------------------------------------------------
(* The theorems                                                            *)

LEMMA InitWriteInv ==
  ASSUME WriteConstants, Init PROVE TypeInv /\ WriteInv
<1>1. TypeInv
  BY DEF Init, TypeInv, WriteConstants
<1>2. /\ writers = <<>> /\ Len(writers) = 0 /\ Applied = {} /\ imm = NULL
      /\ \A t \in Threads : pc[t] = "start" /\ status[t] = "none" /\ before[t] = {}
  BY DEF Init, Applied, Entries
<1>3. QueueInv /\ GroupInv /\ LogInv
  <2>1. \A t \in Threads : pc[t] \notin Leading \cup Logging \cup {"queued", "flushing", "flush"}
    BY <1>2 DEF Leading, Logging
  <2>2. InLine(writers)
    <3>1. 1 .. Len(writers) = {} /\ 2 .. Len(writers) = {}
      BY <1>2
    <3> QED BY <3>1 DEF InLine
  <2>3. QueueInv
    BY <1>2, <2>1, <2>2 DEF QueueInv
  <2>4. GroupInv /\ LogInv
    BY <2>1 DEF GroupInv, LogInv, Leading, Logging
  <2> QED BY <2>3, <2>4
<1>4. DataInv /\ BeforeInv
  BY <1>2 DEF DataInv, BeforeInv
<1> QED BY <1>1, <1>3, <1>4 DEF WriteInv

LEMMA NextWriteInv ==
  ASSUME WriteConstants, TypeInv, WriteInv, [Next]_vars
  PROVE  WriteInv'
<1>1. CASE UNCHANGED vars
  <2>1. UNCHANGED <<batch, pc, writers, status, group, log, log_file, mem, imm, tables,
                    last_sequence, before>>
    BY <1>1 DEF vars, memory
  <2>2. /\ \A u : (HasBatch(u))' = HasBatch(u) /\ (Sync(u))' = Sync(u)
        /\ GroupEntries' = GroupEntries /\ Applied' = Applied
    BY <2>1, GroupEntriesKept DEF HasBatch, Sync, Applied, Entries
  <2>3. QueueInv' /\ GroupInv' /\ LogInv'
    BY <2>1, <2>2 DEF WriteInv, QueueInv, InLine, GroupInv, GroupOK, LogInv, LastRecord
  <2>4. Steady /\ Learns
    BY <2>1, <2>2 DEF Steady, Learns
  <2> QED BY <2>3, <2>4, DataKept DEF WriteInv
<1>2. CASE Background
  BY <1>2, BackgroundStep
<1>3. ASSUME NEW t \in Threads, Write(t) PROVE WriteInv'
  BY <1>3, WriteStep
<1>4. ASSUME NEW t \in Threads, Thread(t) PROVE WriteInv'
  BY <1>4, WakeInQueueStep, ResumeStep, AddRecordStep, SyncLogStep, InsertIntoStep,
     FinishWriteStep, CompactMemTableCallStep DEF Thread
<1> QED BY <1>1, <1>2, <1>3, <1>4 DEF Next

LEMMA WriteInvImpliesProperties ==
  ASSUME TypeInv, WriteInv PROVE BatchesAppearWhole /\ AnsweredMeansLogged
<1> USE DEF WriteInv
<1>1. Applied \in SUBSET Entry /\ last_sequence \in Nat
  BY DEF TypeInv, Applied, Entries
<1>2. ASSUME NEW t \in Threads, HasBatch(t)
      PROVE  Cardinality({e \in Applied : e.owner = t /\ e.seq <= last_sequence})
               \in {0, batch[t].count}
  <2> DEFINE Seen == {e \in Applied : e.owner = t /\ e.seq <= last_sequence}
  <2>1. CASE status[t] = "ok"
    <3>1. Seen = Mine(t)
      BY <1>2, <2>1 DEF DataInv, Mine
    <3> QED BY <1>2, <2>1, <3>1 DEF DataInv
  <2>2. CASE status[t] # "ok"
    <3>1. Seen = {}
      BY <2>2 DEF DataInv
    <3>2. Cardinality(Seen) = 0
      BY <3>1, FS_EmptySet
    <3> QED BY <3>2
  <2> QED BY <2>1, <2>2
<1>3. ASSUME NEW t \in Threads, HasBatch(t), status[t] = "ok"
      PROVE  /\ Cardinality(Mine(t)) = batch[t].count
             /\ \E i \in DOMAIN log : Mine(t) \subseteq log[i].entries /\ (Sync(t) => log[i].synced)
             /\ \A u \in before[t], e \in Applied : e.owner = u => \A f \in Mine(t) : e.seq < f.seq
  <2>1. Cardinality(Mine(t)) = batch[t].count /\ InLog(t)
    BY <1>3 DEF DataInv
  <2>2. \A u \in before[t], e \in Applied : e.owner = u => \A f \in Mine(t) : e.seq < f.seq
    BY DEF BeforeInv, Mine
  <2> QED BY <2>1, <2>2 DEF InLog
<1>4. BatchesAppearWhole
  BY <1>2 DEF BatchesAppearWhole
<1>5. AnsweredMeansLogged
  BY <1>3 DEF AnsweredMeansLogged, Mine
<1> QED BY <1>4, <1>5

LEMMA WriteInvHolds ==
  ASSUME WriteConstants PROVE Spec => [](TypeInv /\ WriteInv)
<1>1. Init => TypeInv /\ WriteInv
  BY InitWriteInv
<1>2. (TypeInv /\ WriteInv) /\ [Next]_vars => (TypeInv /\ WriteInv)'
  BY NextTypeInv, NextWriteInv
<1> QED BY <1>1, <1>2, PTL DEF Spec

\* Whatever the threads write and however their groups, syncs, failures and
\* flushes fall, a reader at last_sequence sees all of a batch or nothing of
\* it: Write moves last_sequence_ only after the last insertion of a group,
\* and only by what the group's record holds.
THEOREM BatchesAreAtomic ==
  ASSUME WriteConstants PROVE Spec => []BatchesAppearWhole
<1>1. TypeInv /\ WriteInv => BatchesAppearWhole
  BY WriteInvImpliesProperties
<1> QED BY <1>1, WriteInvHolds, PTL

\* A write that was answered ok, by its own thread or by another one that
\* wrote its group, has all its entries in memory or in a table and in a log
\* record, synced if it asked for that, and after every write that had
\* returned when Write was called.
THEOREM AnswersAreLogged ==
  ASSUME WriteConstants PROVE Spec => []AnsweredMeansLogged
<1>1. TypeInv /\ WriteInv => AnsweredMeansLogged
  BY WriteInvImpliesProperties
<1> QED BY <1>1, WriteInvHolds, PTL
=============================================================================
