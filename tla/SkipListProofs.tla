---------------------------- MODULE SkipListProofs ----------------------------
(***************************************************************************)
(* Theorem about SkipList, for any keys, heights and readers.              *)
(***************************************************************************)
EXTENDS SkipList, WellFoundedInduction, TLAPS

\* Keys follow the head, and NULL is no node.
SkipConstants == /\ Keys \subseteq Nat \ {0}
                 /\ kMaxHeight \in Nat \ {0}
                 /\ NULL \notin Nat

-----------------------------------------------------------------------------
(* The inductive invariant: the lists                                      *)

\* The nodes a link of the level leads to, and those a search may stand on.
Linked(level) == {n \in Keys : \E m \in Nodes : next[m][level] = n}
In(n, level) == n = head_ \/ n \in Linked(level)

\* Every link of a level leads from a node of it to the next one.
Ordered(level) ==
  /\ \A m \in Nodes : next[m][level] # NULL => In(m, level) /\ m < next[m][level]
  /\ \A m \in Nodes, k \in Linked(level) :
       In(m, level) /\ m < k => next[m][level] # NULL /\ next[m][level] <= k

\* A node of a level is in the level below; the lowest has what is published;
\* no level above the height of the list has a node.
ListInv ==
  /\ next \in [Nodes -> [AllLevels -> Keys \cup {NULL}]]
  /\ published = Linked(0)
  /\ \A level \in AllLevels : Ordered(level)
  /\ \A level \in AllLevels : level > 0 => Linked(level) \subseteq Linked(level - 1)
  /\ heights \in SUBSET (1 .. kMaxHeight) /\ heights # {}
  /\ \A level \in AllLevels : Linked(level) # {} => \E h \in heights : level < h

-----------------------------------------------------------------------------
(* The inductive invariant: the searches                                   *)

Walks == [find : {"ge", "lt", "last"}, key : Keys \cup {NULL}, x : Nodes, level : AllLevels,
          prev : [AllLevels -> Nodes], done : BOOLEAN, result : Nodes \cup {NULL}]

\* A search under way stands on a node of its level, before its key.
UnderWay(w) ==
  /\ w \in Walks /\ ~w.done
  /\ In(w.x, w.level)
  /\ w.find \in {"ge", "lt"} => w.key \in Keys /\ w.x < w.key

\* node is where key belongs in a level: the link to cut.
Before(node, key, level) ==
  /\ In(node, level) /\ node < key
  /\ next[node][level] = NULL \/ key < next[node][level]

\* The writer has linked its node at the levels below insertion.level, and knows
\* where it belongs at the levels its search has left.
InsertInv ==
  insertion # NULL =>
    LET w == insertion.walk
    IN /\ insertion \in [key : Keys, height : 1 .. kMaxHeight, level : AllLevels, walk : Walks]
       /\ insertion.level < insertion.height
       /\ w.find = "ge" /\ w.key = insertion.key
       /\ \A level \in AllLevels : insertion.key \in Linked(level) <=> level < insertion.level
       /\ ~w.done => UnderWay(w) /\ insertion.level = 0
       /\ \A level \in AllLevels :
            (IF w.done THEN level >= insertion.level ELSE level > w.level)
              => Before(w.prev[level], insertion.key, level)

Resting == [node : {NULL}, op : {"none"}]
Busy == [node : Keys \cup {NULL}, op : {"Seek", "Prev"}, from : Keys \cup {NULL},
         before : SUBSET Keys, walk : Walks]
Finished == [node : Keys \cup {NULL}, op : {"done"}, was : {"Seek", "Next", "Prev"},
             from : Nodes \cup {NULL}, before : SUBSET Keys]

\* What an operation of a reader has found.
Found(was, from, before, node) ==
  /\ was = "Seek" => /\ from \in Nodes
                     /\ node = NULL \/ node >= from
                     /\ \A k \in before : k >= from => ~Between(NULL, k, node)
  /\ was = "Next" => /\ from \in Nodes
                     /\ node = NULL \/ node > from
                     /\ \A k \in before : ~Between(from, k, node)
  /\ was = "Prev" => /\ from \in Keys \cup {NULL}
                     /\ node = NULL \/ from = NULL \/ node < from
                     /\ \A k \in before : ~Between(node, k, from)

ReaderInv(it) ==
  /\ it \in Resting \cup Busy \cup Finished
  /\ it \in Busy => /\ UnderWay(it.walk) /\ it.walk.key = it.from
                    /\ it.before \subseteq published
                    /\ it.op = "Seek" => it.walk.find = "ge"
                    /\ it.op = "Prev" => it.walk.find = IF it.from = NULL THEN "last" ELSE "lt"
  /\ it \in Finished => /\ it.node \in published \cup {NULL}
                        /\ it.before \subseteq published
                        /\ Found(it.was, it.from, it.before, it.node)

ReadersInv == iterator = [r \in Readers |-> iterator[r]] /\ \A r \in Readers : ReaderInv(iterator[r])

SkipInv == ListInv /\ InsertInv /\ ReadersInv

-----------------------------------------------------------------------------
(* The greatest height                                                     *)

\* A bounded set of natural numbers has a greatest element.
LEMMA MaximumExists ==
  ASSUME NEW n \in Nat, NEW S \in SUBSET (0 .. n), S # {}
  PROVE  \E m \in S : \A o \in S : o <= m
<1> DEFINE D == {n - s : s \in S}
<1>1. D \subseteq Nat /\ D # {}
  <2>1. \A s \in S : s \in Nat /\ s <= n
    OBVIOUS
  <2>2. \A s \in S : n - s \in Nat
    BY <2>1
  <2> QED BY <2>2
<1>2. PICK d \in D : \A e \in D : ~(<<e, d>> \in OpToRel(<, Nat))
  BY <1>1, WFMin, NatLessThanWellFounded
<1>3. PICK m \in S : d = n - m
  BY <1>2
<1>4. ASSUME NEW o \in S PROVE o <= m
  <2>1. n - o \in D /\ n - o \in Nat /\ d \in Nat
    BY <1>1
  <2>2. ~(n - o < d)
    BY <1>2, <2>1 DEF OpToRel
  <2> QED BY <1>3, <2>1, <2>2
<1> QED BY <1>4

LEMMA GreatestHeight ==
  ASSUME SkipConstants, heights \in SUBSET (1 .. kMaxHeight), heights # {}
  PROVE  GetMaxHeight \in heights /\ \A o \in heights : o <= GetMaxHeight
<1>1. heights \in SUBSET (0 .. kMaxHeight) /\ kMaxHeight \in Nat
  BY DEF SkipConstants
<1>2. \E m \in heights : \A o \in heights : o <= m
  BY <1>1, MaximumExists
<1> QED BY <1>2 DEF GetMaxHeight

-----------------------------------------------------------------------------
(* One turn of a search                                                    *)

LEMMA WalkMoves ==
  ASSUME NEW w \in Walks, NEW n \in Nodes
  PROVE  LET v == [w EXCEPT !.x = n]
         IN /\ v \in Walks /\ v.find = w.find /\ v.key = w.key /\ v.x = n /\ v.level = w.level
            /\ v.prev = w.prev /\ v.done = w.done
  BY DEF Walks

LEMMA WalkNotes ==
  ASSUME NEW w \in Walks
  PROVE  LET v == [w EXCEPT !.prev[w.level] = w.x]
         IN /\ v \in Walks /\ v.find = w.find /\ v.key = w.key /\ v.x = w.x /\ v.level = w.level
            /\ v.prev = [w.prev EXCEPT ![w.level] = w.x] /\ v.done = w.done
<1>1. w.prev \in [AllLevels -> Nodes] /\ w.x \in Nodes /\ w.level \in AllLevels
  BY DEF Walks
<1>2. [w.prev EXCEPT ![w.level] = w.x] \in [AllLevels -> Nodes]
  BY <1>1
<1> DEFINE p == [w.prev EXCEPT ![w.level] = w.x]
<1>3. [w EXCEPT !.prev[w.level] = w.x] = [w EXCEPT !.prev = p]
  OBVIOUS
<1> HIDE DEF p
<1>4. LET v == [w EXCEPT !.prev = p]
      IN /\ v.find = w.find /\ v.key = w.key /\ v.x = w.x /\ v.level = w.level
         /\ v.prev = p /\ v.done = w.done
  BY DEF Walks
<1>5. p \in [AllLevels -> Nodes]
  BY <1>2 DEF p
<1>6. [w EXCEPT !.prev = p] \in Walks
  BY <1>5 DEF Walks
<1> QED BY <1>3, <1>4, <1>6 DEF p

LEMMA WalkDescends ==
  ASSUME SkipConstants, NEW w \in Walks, NEW result \in Nodes \cup {NULL}
  PROVE  LET v == Down(w, result)
         IN /\ v \in Walks /\ v.find = w.find /\ v.key = w.key /\ v.x = w.x /\ v.prev = w.prev
            /\ w.level = 0 => v.done /\ v.result = result
            /\ w.level > 0 => v.done = w.done /\ v.level = w.level - 1
<1> DEFINE v == Down(w, result)
<1> SUFFICES /\ v \in Walks /\ v.find = w.find /\ v.key = w.key /\ v.x = w.x /\ v.prev = w.prev
             /\ w.level = 0 => v.done /\ v.result = result
             /\ w.level > 0 => v.done = w.done /\ v.level = w.level - 1
  OBVIOUS
<1>1. w.level \in AllLevels /\ (w.level = 0 \/ w.level > 0)
  BY DEF Walks, AllLevels, SkipConstants
<1>2. CASE w.level = 0
  <2>1. PICK yes \in BOOLEAN : yes = TRUE
    OBVIOUS
  <2>2. v = [w EXCEPT !.done = yes, !.result = result]
    BY <1>2, <2>1 DEF Down
  <2> HIDE DEF v
  <2>3. /\ v \in Walks /\ v.find = w.find /\ v.key = w.key /\ v.x = w.x /\ v.prev = w.prev
        /\ v.done = yes /\ v.result = result
    BY <2>2 DEF Walks
  <2> QED BY <1>2, <2>1, <2>3
<1>3. CASE w.level > 0
  <2> DEFINE below == w.level - 1
  <2>1. below \in AllLevels
    BY <1>1, <1>3 DEF AllLevels, SkipConstants
  <2>2. v = [w EXCEPT !.level = below]
    BY <1>3 DEF Down
  <2> HIDE DEF v, below
  <2>3. /\ v \in Walks /\ v.find = w.find /\ v.key = w.key /\ v.x = w.x /\ v.prev = w.prev
        /\ v.done = w.done /\ v.level = below
    BY <2>1, <2>2 DEF Walks
  <2> QED BY <1>3, <2>3 DEF below
<1> QED BY <1>1, <1>2, <1>3

\* What is linked at a level is linked below it.
LEMMA InBelow ==
  ASSUME SkipConstants, ListInv, NEW level \in AllLevels, level > 0, NEW n, In(n, level)
  PROVE  In(n, level - 1)
  BY DEF ListInv, In

\* The link a search loads leads to a node of its level, further on.
LEMMA LoadedLink ==
  ASSUME SkipConstants, ListInv, NEW n \in Nodes, NEW level \in AllLevels, next[n][level] # NULL
  PROVE  next[n][level] \in Keys /\ In(next[n][level], level) /\ n < next[n][level]
  BY DEF ListInv, In, Linked, Ordered

\* Where the search of a level ends, nothing of that level was stepped over.
LEMMA NothingBetween ==
  ASSUME SkipConstants, ListInv, NEW n \in Nodes, NEW level \in AllLevels, In(n, level),
         NEW k \in Linked(level), n < k
  PROVE  next[n][level] \in Keys /\ next[n][level] <= k
  BY DEF ListInv, Ordered

LEMMA TurnOfGreaterOrEqual ==
  ASSUME SkipConstants, ListInv, NEW w, UnderWay(w), w.find = "ge"
  PROVE  LET n == next[w.x][w.level]
             v == Turn(w)
         IN /\ v \in Walks /\ v.find = "ge" /\ v.key = w.key
            /\ \/ UnderWay(v) /\ v.prev = w.prev /\ v.level = w.level
               \/ /\ n \in Keys \cup {NULL} /\ (n = NULL \/ n >= w.key)
                  /\ v.prev = [w.prev EXCEPT ![w.level] = w.x]
                  /\ \/ w.level > 0 /\ UnderWay(v) /\ v.level = w.level - 1
                     \/ w.level = 0 /\ v.done /\ v.result = n
<1> DEFINE n == next[w.x][w.level]
           v == Turn(w)
<1> SUFFICES /\ v \in Walks /\ v.find = "ge" /\ v.key = w.key
             /\ \/ UnderWay(v) /\ v.prev = w.prev /\ v.level = w.level
                \/ /\ n \in Keys \cup {NULL} /\ (n = NULL \/ n >= w.key)
                   /\ v.prev = [w.prev EXCEPT ![w.level] = w.x]
                   /\ \/ w.level > 0 /\ UnderWay(v) /\ v.level = w.level - 1
                      \/ w.level = 0 /\ v.done /\ v.result = n
  OBVIOUS
<1>1. /\ w \in Walks /\ ~w.done /\ w.x \in Nodes /\ w.level \in AllLevels /\ In(w.x, w.level)
      /\ w.key \in Keys /\ w.x < w.key
  BY DEF UnderWay, Walks
<1>2. v = FindGreaterOrEqual(w, n)
  BY DEF Turn
<1>3. n \in Keys \cup {NULL}
  BY <1>1 DEF ListInv
<1>4. CASE KeyIsAfterNode(w.key, n)
  <2>1. n \in Nodes /\ In(n, w.level) /\ n < w.key
    BY <1>1, <1>4, LoadedLink DEF KeyIsAfterNode, Nodes
  <2>2. v = [w EXCEPT !.x = n]
    BY <1>2, <1>4 DEF FindGreaterOrEqual
  <2> HIDE DEF n, v
  <2> QED BY <1>1, <2>1, <2>2, WalkMoves DEF UnderWay
<1>5. CASE ~KeyIsAfterNode(w.key, n)
  <2> DEFINE u == [w EXCEPT !.prev[w.level] = w.x]
  <2>1. v = Down(u, n) /\ n \in Nodes \cup {NULL} /\ (n = NULL \/ n >= w.key)
    BY <1>1, <1>2, <1>3, <1>5 DEF FindGreaterOrEqual, KeyIsAfterNode, Nodes, SkipConstants
  <2>2. /\ u \in Walks /\ u.find = w.find /\ u.key = w.key /\ u.x = w.x /\ u.level = w.level
        /\ u.prev = [w.prev EXCEPT ![w.level] = w.x] /\ u.done = w.done
    BY <1>1, WalkNotes
  <2> HIDE DEF n, v, u
  <2>3. /\ v \in Walks /\ v.find = w.find /\ v.key = w.key /\ v.x = w.x
        /\ v.prev = [w.prev EXCEPT ![w.level] = w.x]
        /\ w.level = 0 => v.done /\ v.result = n
        /\ w.level > 0 => ~v.done /\ v.level = w.level - 1
    BY <1>1, <2>1, <2>2, WalkDescends
  <2>4. w.level > 0 => In(w.x, w.level - 1)
    BY <1>1, InBelow
  <2>5. w.level = 0 \/ w.level > 0
    BY <1>1 DEF AllLevels, SkipConstants
  <2> QED BY <1>1, <1>3, <2>1, <2>3, <2>4, <2>5 DEF UnderWay
<1> QED BY <1>4, <1>5

LEMMA TurnOfLessThanOrLast ==
  ASSUME SkipConstants, ListInv, NEW w, UnderWay(w), w.find \in {"lt", "last"}
  PROVE  LET n == next[w.x][w.level]
             v == Turn(w)
         IN /\ v \in Walks /\ v.find = w.find /\ v.key = w.key
            /\ \/ UnderWay(v)
               \/ /\ n \in Keys \cup {NULL}
                  /\ n = NULL \/ (w.find = "lt" /\ n >= w.key)
                  /\ w.level = 0 /\ v.done /\ v.result = w.x
<1> DEFINE n == next[w.x][w.level]
           v == Turn(w)
<1> SUFFICES /\ v \in Walks /\ v.find = w.find /\ v.key = w.key
             /\ \/ UnderWay(v)
                \/ /\ n \in Keys \cup {NULL}
                   /\ n = NULL \/ (w.find = "lt" /\ n >= w.key)
                   /\ w.level = 0 /\ v.done /\ v.result = w.x
  OBVIOUS
<1>1. /\ w \in Walks /\ ~w.done /\ w.x \in Nodes /\ w.level \in AllLevels /\ In(w.x, w.level)
      /\ w.find = "lt" => w.key \in Keys /\ w.x < w.key
  BY DEF UnderWay, Walks
<1>2. v = IF w.find = "lt" THEN FindLessThan(w, n) ELSE FindLast(w, n)
  BY DEF Turn
<1>3. n \in Keys \cup {NULL}
  BY <1>1 DEF ListInv
<1>4. CASE n = NULL \/ (w.find = "lt" /\ n >= w.key)
  <2>1. v = Down(w, w.x)
    BY <1>2, <1>4 DEF FindLessThan, FindLast
  <2>2. /\ v \in Walks /\ v.find = w.find /\ v.key = w.key /\ v.x = w.x
        /\ w.level = 0 => v.done /\ v.result = w.x
        /\ w.level > 0 => ~v.done /\ v.level = w.level - 1
    BY <1>1, <2>1, WalkDescends
  <2>3. w.level > 0 => In(w.x, w.level - 1)
    BY <1>1, InBelow
  <2>4. w.level = 0 \/ w.level > 0
    BY <1>1 DEF AllLevels, SkipConstants
  <2> HIDE DEF n, v
  <2> QED BY <1>1, <1>3, <1>4, <2>2, <2>3, <2>4 DEF UnderWay
<1>5. CASE ~(n = NULL \/ (w.find = "lt" /\ n >= w.key))
  <2>1. n \in Nodes /\ In(n, w.level) /\ (w.find = "lt" => n < w.key)
    <3>1. n \in Keys /\ (w.find = "lt" => ~(n >= w.key))
      BY <1>3, <1>5
    <3>2. In(n, w.level)
      BY <1>1, <1>5, LoadedLink
    <3>3. w.find = "lt" => n < w.key
      <4>1. \A a, b \in Keys : ~(a >= b) => a < b
        BY DEF SkipConstants
      <4>2. w.find = "lt" => w.key \in Keys
        BY <1>1
      <4> HIDE DEF n, v
      <4> QED BY <3>1, <4>1, <4>2
    <3> QED BY <3>1, <3>2, <3>3 DEF Nodes
  <2>2. v = [w EXCEPT !.x = n]
    BY <1>2, <1>5 DEF FindLessThan, FindLast
  <2> HIDE DEF n, v
  <2> QED BY <1>1, <2>1, <2>2, WalkMoves DEF UnderWay
<1> QED BY <1>4, <1>5

-----------------------------------------------------------------------------
(* The writer                                                              *)

LEMMA ListStays ==
  ASSUME ListInv, UNCHANGED <<next, heights, published>>
  PROVE  ListInv'
<1>1. \A level : Linked(level)' = Linked(level)
  BY DEF Linked
<1> QED BY <1>1 DEF ListInv, Ordered, In

\* One link: the node is put between its predecessor and what followed it.
LEMMA LinkInserts ==
  ASSUME SkipConstants, ListInv, InsertInv, Insert,
         NEW i, i = insertion.level, NEW x, x = insertion.key
  PROVE  /\ \A n \in Nodes, level \in AllLevels \ {i} : next'[n][level] = next[n][level]
         /\ next' \in [Nodes -> [AllLevels -> Keys \cup {NULL}]]
         /\ Ordered(i)'
         /\ Linked(i)' = Linked(i) \cup {x}
<1>p. PICK p : p = insertion.walk.prev[i]
  OBVIOUS
<1>1. /\ x \in Keys /\ x \in Nodes /\ i \in AllLevels /\ p \in Nodes
      /\ Before(p, x, i) /\ x \notin Linked(i)
      /\ next' = [next EXCEPT ![x][i] = next[p][i], ![p][i] = x]
  <2>1. insertion # NULL /\ insertion.walk.done
    BY DEF Insert, Insertable
  <2>2. insertion \in [key : Keys, height : 1 .. kMaxHeight, level : AllLevels, walk : Walks]
    BY <2>1 DEF InsertInv
  <2>3. x \in Keys /\ i \in AllLevels /\ p \in Nodes
    BY <1>p, <2>2 DEF Walks
  <2>4. Before(p, x, i) /\ x \notin Linked(i)
    <3>1. i \in Int
      BY <2>3 DEF AllLevels, SkipConstants
    <3> QED BY <1>p, <2>1, <2>3, <3>1 DEF InsertInv
  <2>5. next' = [next EXCEPT ![x][i] = next[p][i], ![p][i] = x]
    BY <1>p DEF Insert, Link
  <2> QED BY <2>3, <2>4, <2>5 DEF Nodes
<1>2. /\ next \in [Nodes -> [AllLevels -> Keys \cup {NULL}]] /\ Ordered(i)
      /\ \A n \in Nodes, level \in AllLevels : next[n][level] \in Keys \cup {NULL}
      /\ Keys \subseteq Nat /\ NULL \notin Nat /\ Nodes \subseteq Nat /\ x # 0
  BY <1>1 DEF ListInv, SkipConstants, Nodes, head_
<1>3. In(p, i) /\ p < x /\ p # x /\ (next[p][i] = NULL \/ x < next[p][i])
  BY <1>1, <1>2 DEF Before
<1>4. /\ next'[p][i] = x /\ next'[x][i] = next[p][i]
      /\ \A n \in Nodes \ {p, x} : next'[n][i] = next[n][i]
      /\ \A n \in Nodes, level \in AllLevels \ {i} : next'[n][level] = next[n][level]
  BY <1>1, <1>2, <1>3
<1>5. next' \in [Nodes -> [AllLevels -> Keys \cup {NULL}]]
  BY <1>1, <1>2
<1>6. next[x][i] = NULL
  BY <1>1, <1>2 DEF Ordered, In, head_
<1>7. Linked(i)' = Linked(i) \cup {x}
  <2>1. ASSUME NEW k \in Linked(i)' PROVE k \in Linked(i) \cup {x}
    BY <1>1, <1>2, <1>4, <2>1 DEF Linked
  <2>2. ASSUME NEW k \in Linked(i) PROVE k \in Linked(i)'
    <3>1. PICK m \in Nodes : next[m][i] = k /\ k \in Keys
      BY DEF Linked
    <3>2. CASE m = p
      BY <1>1, <1>4, <3>1, <3>2 DEF Linked
    <3>3. CASE m # p
      BY <1>1, <1>2, <1>4, <1>6, <3>1, <3>3 DEF Linked
    <3> QED BY <3>2, <3>3
  <2>3. x \in Linked(i)'
    BY <1>1, <1>4 DEF Linked
  <2> QED BY <2>1, <2>2, <2>3
<1>8. \A n : In(n, i)' <=> In(n, i) \/ n = x
  BY <1>7 DEF In
<1>9. ASSUME NEW m \in Nodes, next'[m][i] # NULL
      PROVE  In(m, i)' /\ m < next'[m][i]
  BY <1>1, <1>2, <1>3, <1>4, <1>8, <1>9 DEF Ordered
<1>10. ASSUME NEW m \in Nodes, NEW k \in Linked(i)', In(m, i)', m < k
       PROVE  next'[m][i] # NULL /\ next'[m][i] <= k
  <2>1. k \in Linked(i) \/ k = x
    BY <1>7
  <2>2. Linked(i) \subseteq Keys
    BY DEF Linked
  <2>3. \A n \in Nodes, j \in Linked(i) : In(n, i) /\ n < j => next[n][i] # NULL /\ next[n][i] <= j
    BY <1>2 DEF Ordered
  <2>4. CASE m = p
    BY <1>1, <1>2, <1>3, <1>4, <2>1, <2>2, <2>3, <2>4, <1>10
  <2>5. CASE m = x
    BY <1>1, <1>2, <1>3, <1>4, <2>1, <2>2, <2>3, <2>5, <1>10
  <2>6. CASE m \notin {p, x}
    <3>1. In(m, i) /\ next'[m][i] = next[m][i]
      BY <1>4, <1>8, <1>10, <2>6
    <3>2. CASE k \in Linked(i)
      BY <2>3, <3>1, <3>2, <1>10
    <3>3. CASE k = x
      <4>1. m < p
        <5>1. SUFFICES ASSUME p < m PROVE FALSE
          BY <1>1, <1>2, <2>6, SMTT(30)
        <5>2. m \in Linked(i)
          BY <1>2, <3>1, <5>1, <1>1 DEF In, head_
        <5>3. next[p][i] # NULL /\ next[p][i] <= m
          BY <1>1, <1>3, <2>3, <5>1, <5>2
        <5> QED BY <1>1, <1>2, <1>3, <1>10, <3>3, <5>3
      <4>2. p \in Linked(i)
        BY <1>1, <1>2, <1>3, <4>1 DEF In, head_
      <4>3. next[m][i] # NULL /\ next[m][i] <= p
        BY <2>3, <3>1, <4>1, <4>2
      <4> QED BY <1>1, <1>2, <1>3, <3>1, <3>3, <4>3
    <3> QED BY <2>1, <3>2, <3>3
  <2> QED BY <2>4, <2>5, <2>6
<1>11. Ordered(i)'
  BY <1>9, <1>10 DEF Ordered
<1> QED BY <1>1, <1>4, <1>5, <1>7, <1>11

LEMMA InsertKeepsList ==
  ASSUME SkipConstants, ListInv, InsertInv, Insert
  PROVE  /\ ListInv'
         /\ published \subseteq published'
         /\ \A level \in AllLevels : Linked(level) \subseteq Linked(level)'
<1>p. PICK i, x : i = insertion.level /\ x = insertion.key
  OBVIOUS
<1>1. /\ \A n \in Nodes, level \in AllLevels \ {i} : next'[n][level] = next[n][level]
      /\ next' \in [Nodes -> [AllLevels -> Keys \cup {NULL}]]
      /\ Ordered(i)'
      /\ Linked(i)' = Linked(i) \cup {x}
  BY <1>p, LinkInserts
<1>2. /\ insertion # NULL /\ insertion.walk.done /\ insertion.height <= GetMaxHeight
      /\ published' = published \cup {x} /\ heights' = heights
  BY <1>p DEF Insert, Insertable
<1>3. /\ insertion \in [key : Keys, height : 1 .. kMaxHeight, level : AllLevels, walk : Walks]
      /\ insertion.level < insertion.height
      /\ \A level \in AllLevels : insertion.key \in Linked(level) <=> level < insertion.level
  BY <1>2 DEF InsertInv
<1>4. /\ i \in AllLevels /\ x \in Keys /\ 0 \in AllLevels /\ AllLevels \subseteq Nat
      /\ \A level \in AllLevels : x \in Linked(level) <=> level < i
  BY <1>p, <1>3 DEF AllLevels, SkipConstants
<1>5. \A level \in AllLevels \ {i} : Linked(level)' = Linked(level)
  BY <1>1 DEF Linked
<1>6. \A level \in AllLevels \ {i} : Ordered(level)'
  BY <1>1, <1>5 DEF ListInv, Ordered, In
<1>7. published' = Linked(0)'
  BY <1>1, <1>2, <1>4, <1>5 DEF ListInv
<1>8. ASSUME NEW level \in AllLevels, level > 0
      PROVE  Linked(level)' \subseteq Linked(level - 1)'
  <2>1. level - 1 \in AllLevels /\ level - 1 # level
    BY <1>4, <1>8 DEF AllLevels, SkipConstants
  <2>2. Linked(level) \subseteq Linked(level - 1)
    BY <1>8 DEF ListInv
  <2>3. CASE level = i
    BY <1>1, <1>4, <1>5, <2>1, <2>2, <2>3
  <2>4. CASE level # i
    BY <1>1, <1>5, <2>1, <2>2, <2>4
  <2> QED BY <2>3, <2>4
<1>9. ASSUME NEW level \in AllLevels, Linked(level)' # {}
      PROVE  \E h \in heights : level < h
  <2>1. CASE level = i
    <3>1. GetMaxHeight \in heights /\ heights \subseteq Nat
      BY GreatestHeight DEF ListInv
    <3>2. i < GetMaxHeight
      BY <1>p, <1>2, <1>3, <1>4, <3>1
    <3> QED BY <2>1, <3>1, <3>2
  <2>2. CASE level # i
    BY <1>5, <1>9, <2>2 DEF ListInv
  <2> QED BY <2>1, <2>2
<1>10. ListInv'
  BY <1>1, <1>2, <1>6, <1>7, <1>8, <1>9 DEF ListInv
<1>11. \A level \in AllLevels : Linked(level) \subseteq Linked(level)'
  BY <1>1, <1>5
<1> QED BY <1>2, <1>10, <1>11

LEMMA InsertKeepsInsertion ==
  ASSUME SkipConstants, ListInv, InsertInv, Insert
  PROVE  InsertInv'
<1>p. PICK i, x, w : i = insertion.level /\ x = insertion.key /\ w = insertion.walk
  OBVIOUS
<1>1. /\ \A n \in Nodes, level \in AllLevels \ {i} : next'[n][level] = next[n][level]
      /\ Linked(i)' = Linked(i) \cup {x}
  BY <1>p, LinkInserts
<1>2. CASE i = insertion.height - 1
  BY <1>p, <1>2 DEF Insert, InsertInv
<1>3. CASE i # insertion.height - 1
  <2>1. /\ insertion # NULL /\ w.done
        /\ insertion' = [insertion EXCEPT !.level = i + 1]
    BY <1>p, <1>3 DEF Insert, Insertable
  <2>2. /\ insertion \in [key : Keys, height : 1 .. kMaxHeight, level : AllLevels, walk : Walks]
        /\ i < insertion.height /\ w.find = "ge" /\ w.key = x
        /\ \A level \in AllLevels : x \in Linked(level) <=> level < i
        /\ \A level \in AllLevels : level >= i => Before(w.prev[level], x, level)
    BY <1>p, <2>1 DEF InsertInv
  <2>3. i + 1 \in AllLevels /\ i + 1 < insertion.height /\ i \in AllLevels /\ AllLevels \subseteq Nat
    BY <1>p, <1>3, <2>2 DEF AllLevels, SkipConstants
  <2>4. /\ insertion' \in [key : Keys, height : 1 .. kMaxHeight, level : AllLevels, walk : Walks]
        /\ insertion'.level = i + 1 /\ insertion'.height = insertion.height
        /\ insertion'.key = x /\ insertion'.walk = w
    BY <1>p, <2>1, <2>2, <2>3
  <2>5. \A level \in AllLevels \ {i} : Linked(level)' = Linked(level)
    BY <1>1 DEF Linked
  <2>6. \A level \in AllLevels : x \in Linked(level)' <=> level < i + 1
    BY <1>1, <2>2, <2>3, <2>5
  <2>7. ASSUME NEW level \in AllLevels, level >= i + 1
        PROVE  Before(w.prev[level], x, level)'
    <3>1. level # i /\ level >= i
      BY <2>3, <2>7
    <3>2. w.prev[level] \in Nodes
      BY <1>p, <2>2 DEF Walks
    <3> QED BY <1>1, <2>2, <2>5, <3>1, <3>2 DEF Before, In
  <2> QED BY <2>1, <2>2, <2>3, <2>4, <2>6, <2>7 DEF InsertInv
<1> QED BY <1>2, <1>3

LEMMA StartInsertStep ==
  ASSUME SkipConstants, ListInv, StartInsert
  PROVE  InsertInv'
<1>1. PICK key \in Keys \ published, height \in 1 .. kMaxHeight :
        insertion' = [key |-> key, height |-> height, level |-> 0,
                      walk |-> Walk("ge", key, GetMaxHeight)]
  BY DEF StartInsert
<1>w. PICK w : w = Walk("ge", key, GetMaxHeight)
  OBVIOUS
<1>2. GetMaxHeight \in heights /\ GetMaxHeight \in 1 .. kMaxHeight /\ \A h \in heights : h <= GetMaxHeight
  BY GreatestHeight DEF ListInv
<1>3. 0 \in AllLevels /\ GetMaxHeight - 1 \in AllLevels /\ AllLevels \subseteq Nat
        /\ head_ \in Nodes /\ head_ < key /\ key \in Nat
  BY <1>2 DEF AllLevels, SkipConstants, Nodes, head_
<1>4. /\ w \in Walks /\ w.find = "ge" /\ w.key = key /\ w.x = head_ /\ w.level = GetMaxHeight - 1
      /\ w.prev = [level \in AllLevels |-> head_] /\ ~w.done
  BY <1>w, <1>3 DEF Walk, Walks
<1>5. UnderWay(w)
  BY <1>3, <1>4 DEF UnderWay, In
<1>6. \A level \in AllLevels : key \notin Linked(level)
  <2>1. ASSUME NEW level \in AllLevels, key \in Linked(level) PROVE FALSE
    <3> DEFINE S == {l \in AllLevels : key \in Linked(l)}
    <3>1. S \subseteq Nat /\ S # {}
      BY <1>3, <2>1
    <3>2. PICK l \in S : \A m \in S : ~(<<m, l>> \in OpToRel(<, Nat))
      BY <3>1, WFMin, NatLessThanWellFounded
    <3>a. l \in AllLevels /\ key \in Linked(l) /\ l \in Nat
      BY <1>3, <3>2
    <3>3. l # 0
      BY <3>a DEF ListInv
    <3>4. l > 0 /\ l - 1 \in AllLevels
      BY <3>a, <3>3 DEF AllLevels, SkipConstants
    <3>5. l - 1 \in S
      BY <3>a, <3>4 DEF ListInv
    <3>6. l - 1 \in Nat /\ l \in Nat /\ l - 1 < l
      BY <3>a, <3>3
    <3> QED BY <3>2, <3>5, <3>6 DEF OpToRel
  <2> QED BY <2>1
<1>7. ASSUME NEW level \in AllLevels, level > w.level
      PROVE  Before(w.prev[level], key, level)
  <2>1. \A h \in heights : ~(level < h)
    BY <1>2, <1>3, <1>4, <1>7 DEF ListInv
  <2>2. Linked(level) = {}
    BY <2>1 DEF ListInv
  <2>3. next[head_][level] = NULL
    BY <1>3, <2>2, LoadedLink DEF In, head_, Linked
  <2> QED BY <1>3, <1>4, <2>3 DEF Before, In
<1>8. UNCHANGED next
  BY DEF StartInsert
<1>9. /\ insertion' \in [key : Keys, height : 1 .. kMaxHeight, level : AllLevels, walk : Walks]
      /\ insertion'.key = key /\ insertion'.level = 0 /\ insertion'.walk = w
      /\ insertion'.height \in 1 .. kMaxHeight /\ insertion'.level < insertion'.height
  BY <1>1, <1>w, <1>3, <1>4
<1>10. /\ UnderWay(w)' /\ \A level \in AllLevels : key \notin Linked(level)'
       /\ \A level \in AllLevels : level > w.level => Before(w.prev[level], key, level)'
  BY <1>5, <1>6, <1>7, <1>8 DEF UnderWay, Before, In, Linked
<1>11. \A level \in AllLevels : ~(level < 0)
  BY <1>3
<1> QED BY <1>4, <1>9, <1>10, <1>11 DEF InsertInv

LEMMA SearchInsertStep ==
  ASSUME SkipConstants, ListInv, InsertInv, SearchInsert
  PROVE  InsertInv'
<1>p. PICK x, w : x = insertion.key /\ w = insertion.walk
  OBVIOUS
<1>1. /\ insertion # NULL /\ ~w.done /\ insertion' = [insertion EXCEPT !.walk = Turn(w)]
      /\ UNCHANGED <<next, heights, published>>
  BY <1>p DEF SearchInsert
<1>2. /\ insertion \in [key : Keys, height : 1 .. kMaxHeight, level : AllLevels, walk : Walks]
      /\ insertion.level < insertion.height /\ w.find = "ge" /\ w.key = x
      /\ \A level \in AllLevels : x \in Linked(level) <=> level < insertion.level
      /\ UnderWay(w) /\ insertion.level = 0
      /\ \A level \in AllLevels : level > w.level => Before(w.prev[level], x, level)
  BY <1>p, <1>1 DEF InsertInv
<1>n. PICK v, n : v = Turn(w) /\ n = next[w.x][w.level]
  OBVIOUS
<1>3. /\ v \in Walks /\ v.find = "ge" /\ v.key = x
      /\ \/ UnderWay(v) /\ v.prev = w.prev /\ v.level = w.level
         \/ /\ n \in Keys \cup {NULL} /\ (n = NULL \/ n >= x)
            /\ v.prev = [w.prev EXCEPT ![w.level] = w.x]
            /\ \/ w.level > 0 /\ UnderWay(v) /\ v.level = w.level - 1
               \/ w.level = 0 /\ v.done
  BY <1>n, <1>2, TurnOfGreaterOrEqual
<1>4. /\ insertion' \in [key : Keys, height : 1 .. kMaxHeight, level : AllLevels, walk : Walks]
      /\ insertion'.key = x /\ insertion'.height = insertion.height /\ insertion'.level = 0
      /\ insertion'.walk = v
  BY <1>p, <1>n, <1>1, <1>2, <1>3
<1>5. /\ w \in Walks /\ w.x \in Nodes /\ w.level \in AllLevels /\ w.prev \in [AllLevels -> Nodes]
      /\ In(w.x, w.level) /\ w.x < x /\ x \in Keys /\ x \notin Linked(w.level)
      /\ AllLevels \subseteq Nat
  BY <1>2 DEF UnderWay, Walks, AllLevels, SkipConstants
<1>6. n # x
  BY <1>n, <1>5, LoadedLink DEF Linked, SkipConstants
<1>v. v.done \/ UnderWay(v)
  BY <1>3
<1>7. ASSUME NEW level \in AllLevels, IF v.done THEN TRUE ELSE level > v.level
      PROVE  Before(v.prev[level], x, level)
  <2>1. CASE UnderWay(v) /\ v.prev = w.prev /\ v.level = w.level
    BY <1>2, <1>7, <2>1 DEF UnderWay
  <2>2. CASE /\ n \in Keys \cup {NULL} /\ (n = NULL \/ n >= x)
             /\ v.prev = [w.prev EXCEPT ![w.level] = w.x]
             /\ \/ w.level > 0 /\ UnderWay(v) /\ v.level = w.level - 1
                \/ w.level = 0 /\ v.done
    <3>1. CASE level = w.level
      <4>1. v.prev[level] = w.x
        BY <1>5, <2>2, <3>1
      <4>2. n = NULL \/ x < n
        <5>1. n = NULL \/ (n \in Nat /\ n >= x /\ x \in Nat)
          BY <1>5, <2>2 DEF SkipConstants
        <5> QED BY <1>6, <5>1
      <4> QED BY <1>n, <1>5, <3>1, <4>1, <4>2 DEF Before
    <3>2. CASE level # w.level
      <4>1. v.prev[level] = w.prev[level]
        BY <1>5, <2>2, <3>2
      <4>2. level > w.level
        <5>1. level \in Nat /\ w.level \in Nat
          BY <1>5
        <5>2. CASE w.level = 0
          BY <3>2, <5>1, <5>2
        <5>3. CASE w.level > 0 /\ UnderWay(v) /\ v.level = w.level - 1
          <6>1. ~v.done
            BY <5>3 DEF UnderWay
          <6>2. level > w.level - 1
            BY <1>7, <5>3, <6>1
          <6> QED BY <3>2, <5>1, <6>2
        <5> QED BY <2>2, <5>2, <5>3
      <4> QED BY <1>2, <4>1, <4>2
    <3> QED BY <3>1, <3>2
  <2> QED BY <1>3, <2>1, <2>2
<1>8. /\ \A level \in AllLevels : x \in Linked(level)' <=> level < 0
      /\ UnderWay(v) => UnderWay(v)'
      /\ \A level \in AllLevels : (IF v.done THEN TRUE ELSE level > v.level) => Before(v.prev[level], x, level)'
  BY <1>1, <1>2, <1>7 DEF UnderWay, Before, In, Linked
<1>9. insertion'.level < insertion'.height
  BY <1>2, <1>4
<1> QED BY <1>2, <1>3, <1>4, <1>v, <1>8, <1>9 DEF InsertInv

-----------------------------------------------------------------------------
(* The readers                                                             *)

\* What the writer does leaves a reader's position and search valid: nodes are
\* never taken out of a level.
LEMMA ReadersStay ==
  ASSUME ReadersInv, UNCHANGED iterator, published \subseteq published',
         \A level \in AllLevels : Linked(level) \subseteq Linked(level)'
  PROVE  ReadersInv'
<1>1. ASSUME NEW r \in Readers PROVE ReaderInv(iterator[r])'
  <2>p. PICK it : it = iterator[r]
    OBVIOUS
  <2>1. ReaderInv(it)
    BY <2>p DEF ReadersInv
  <2>2. \A w : UnderWay(w) => UnderWay(w)'
    BY DEF UnderWay, In, Walks
  <2>3. ReaderInv(it)'
    <3>1. it \in Busy => UnderWay(it.walk)'
      BY <2>1, <2>2 DEF ReaderInv
    <3> QED BY <2>1, <3>1 DEF ReaderInv
  <2> QED BY <2>p, <2>3
<1> QED BY <1>1 DEF ReadersInv

\* A step of one reader.
LEMMA ReaderMoves ==
  ASSUME ReadersInv, NEW r \in Readers, NEW it, ReaderInv(it),
         iterator' = [iterator EXCEPT ![r] = it], UNCHANGED <<next, published>>
  PROVE  ReadersInv'
<1>1. DOMAIN iterator = Readers
  BY DEF ReadersInv
<1>2. iterator' = [q \in Readers |-> iterator'[q]]
  BY <1>1
<1>3. ASSUME NEW q \in Readers PROVE ReaderInv(iterator[q])'
  <2>p. PICK other : other = iterator'[q]
    OBVIOUS
  <2>1. ReaderInv(other)
    BY <1>1, <2>p DEF ReadersInv
  <2>2. \A w : UnderWay(w) => UnderWay(w)'
    BY DEF UnderWay, In, Linked
  <2>3. ReaderInv(other)'
    <3>1. other \in Busy => UnderWay(other.walk)'
      BY <2>1, <2>2 DEF ReaderInv
    <3> QED BY <2>1, <3>1 DEF ReaderInv
  <2> QED BY <2>p, <2>3
<1> QED BY <1>2, <1>3 DEF ReadersInv

\* An iterator that rests is nowhere or on a published node.
LEMMA IdleNode ==
  ASSUME NEW it, ReaderInv(it), Idle(it), ListInv
  PROVE  it.node \in published \cup {NULL} /\ published \subseteq Keys
<1>1. it \in Resting \cup Finished
  BY DEF ReaderInv, Idle, Busy
<1> QED BY <1>1 DEF ReaderInv, Resting, Finished, ListInv, Linked

LEMMA BeginStep ==
  ASSUME SkipConstants, ListInv, ReadersInv, NEW r \in Readers,
         NEW op \in {"Seek", "Prev"}, NEW find \in {"ge", "lt", "last"}, NEW from \in Keys \cup {NULL},
         op = "Seek" => find = "ge" /\ from \in Keys,
         op = "Prev" => find = IF from = NULL THEN "last" ELSE "lt",
         Begin(r, op, find, from)
  PROVE  ReadersInv'
<1>1. PICK height \in heights :
        iterator' = [iterator EXCEPT ![r] =
          [node |-> iterator[r].node, op |-> op, from |-> from, before |-> published,
           walk |-> Walk(find, from, height)]]
  BY DEF Begin
<1>2. PICK w : w = Walk(find, from, height)
  OBVIOUS
<1>3. height - 1 \in AllLevels /\ head_ \in Nodes
  BY DEF ListInv, AllLevels, SkipConstants, Nodes
<1>4. /\ w \in Walks /\ w.find = find /\ w.key = from /\ w.x = head_ /\ ~w.done
  BY <1>2, <1>3 DEF Walk, Walks
<1>5. UnderWay(w)
  <2>1. find \in {"ge", "lt"} => from \in Keys
    OBVIOUS
  <2>2. from \in Keys => head_ < from
    BY DEF SkipConstants, head_
  <2> QED BY <1>4, <2>1, <2>2 DEF UnderWay, In
<1>6. PICK it : it = [node |-> iterator[r].node, op |-> op, from |-> from, before |-> published, walk |-> w]
  OBVIOUS
<1>7. iterator[r].node \in Keys \cup {NULL} /\ published \subseteq Keys
  BY IdleNode DEF Begin, ReadersInv
<1>8. /\ it \in Busy /\ it.walk = w /\ it.op = op /\ it.from = from /\ it.before = published
  BY <1>4, <1>6, <1>7 DEF Busy
<1>9. it \notin Finished
  BY <1>8 DEF Finished
<1>10. ReaderInv(it)
  BY <1>4, <1>5, <1>8, <1>9 DEF ReaderInv
<1>11. iterator' = [iterator EXCEPT ![r] = it] /\ UNCHANGED <<next, published>>
  BY <1>1, <1>2, <1>6 DEF Begin
<1> QED BY <1>10, <1>11, ReaderMoves

\* An operation ends on what Found describes.
LEMMA DoneStep ==
  ASSUME SkipConstants, ListInv, ReadersInv, NEW r \in Readers, NEW op \in {"Seek", "Next", "Prev"},
         NEW from \in Nodes \cup {NULL}, NEW before \in SUBSET published,
         NEW node \in published \cup {NULL}, Found(op, from, before, node),
         Done(r, op, from, before, node), UNCHANGED <<next, published>>
  PROVE  ReadersInv'
<1>1. PICK it : it = [node |-> node, op |-> "done", was |-> op, from |-> from, before |-> before]
  OBVIOUS
<1>2. published \subseteq Keys
  BY DEF ListInv, Linked
<1>3. it \in Finished /\ it.node = node /\ it.was = op /\ it.from = from /\ it.before = before /\ it.op = "done"
  BY <1>1, <1>2 DEF Finished
<1>4. it \notin Busy
  BY <1>3 DEF Busy
<1>5. ReaderInv(it)
  BY <1>3, <1>4 DEF ReaderInv
<1>6. iterator' = [iterator EXCEPT ![r] = it]
  BY <1>1 DEF Done
<1> QED BY <1>5, <1>6, ReaderMoves

\* SeekToFirst and Next load one link of the lowest level.
LEMMA LowestLink ==
  ASSUME SkipConstants, ListInv, NEW n \in published \cup {head_}
  PROVE  /\ n \in Nodes /\ next[n][0] \in published \cup {NULL}
         /\ next[n][0] = NULL \/ next[n][0] > n
         /\ \A k \in published : ~Between(n, k, next[n][0])
<1>1. 0 \in AllLevels /\ published = Linked(0) /\ n \in Nodes /\ In(n, 0) /\ n \in Nat /\ n # NULL
  BY DEF ListInv, AllLevels, SkipConstants, Linked, Nodes, In, head_
<1>2. next[n][0] \in Keys \cup {NULL}
  BY <1>1 DEF ListInv
<1>3. next[n][0] # NULL => next[n][0] \in published /\ n < next[n][0] /\ next[n][0] \in Nat
  BY <1>1, <1>2, LoadedLink DEF Linked, SkipConstants
<1>4. ASSUME NEW k \in published, Between(n, k, next[n][0]) PROVE FALSE
  <2>1. k \in Linked(0) /\ k \in Nat /\ n < k
    BY <1>1, <1>4 DEF Between, Linked, SkipConstants
  <2>2. next[n][0] \in Keys /\ next[n][0] <= k
    BY <1>1, <2>1, NothingBetween
  <2>3. k < next[n][0]
    BY <1>4, <2>2 DEF Between, SkipConstants
  <2>4. \A a, b \in Nat : ~(a < b /\ b <= a)
    OBVIOUS
  <2>5. next[n][0] \in Nat
    BY <2>2 DEF SkipConstants
  <2> QED BY <2>1, <2>2, <2>3, <2>4, <2>5
<1> QED BY <1>1, <1>2, <1>3, <1>4

LEMMA SeekToFirstStep ==
  ASSUME SkipConstants, ListInv, ReadersInv, NEW r \in Readers, SeekToFirst(r)
  PROVE  ReadersInv'
<1> DEFINE node == next[head_][0]
<1>1. /\ head_ \in Nodes /\ node \in published \cup {NULL}
      /\ node = NULL \/ node > head_
      /\ \A k \in published : ~Between(head_, k, node)
  BY LowestLink
<1>2. \A k \in published : head_ < k /\ head_ # NULL
  BY DEF ListInv, Linked, SkipConstants, head_
<1> HIDE DEF node
<1>3. node = NULL \/ node >= head_
  <2>1. published \subseteq Nat /\ head_ \in Nat
    BY DEF ListInv, Linked, SkipConstants, head_
  <2> QED BY <1>1, <2>1
<1>4. Found("Seek", head_, published, node)
  BY <1>1, <1>2, <1>3 DEF Found, Between
<1>5. Done(r, "Seek", head_, published, node) /\ UNCHANGED <<next, published>>
  BY DEF SeekToFirst, node
<1> QED BY <1>1, <1>4, <1>5, DoneStep

LEMMA NextStep ==
  ASSUME SkipConstants, ListInv, ReadersInv, NEW r \in Readers, Next_(r)
  PROVE  ReadersInv'
<1>p. PICK from, node : from = iterator[r].node /\ node = next[from][0]
  OBVIOUS
<1>1. from \in published
  BY <1>p, IdleNode DEF Next_, ReadersInv
<1>2. /\ from \in Nodes /\ node \in published \cup {NULL}
      /\ node = NULL \/ node > from
      /\ \A k \in published : ~Between(from, k, node)
  BY <1>p, <1>1, LowestLink
<1>3. Found("Next", from, published, node)
  BY <1>2 DEF Found
<1>4. Done(r, "Next", from, published, node) /\ UNCHANGED <<next, published>>
  BY <1>p DEF Next_
<1> QED BY <1>2, <1>3, <1>4, DoneStep

\* A search that ends has found what it was for.
LEMMA SearchFinds ==
  ASSUME SkipConstants, ListInv, NEW it, ReaderInv(it), it \in Busy,
         NEW w, w = Turn(it.walk), w.done,
         NEW node, node = IF it.op = "Prev" /\ w.result = head_ THEN NULL ELSE w.result
  PROVE  /\ node \in published \cup {NULL} /\ Found(it.op, it.from, it.before, node)
         /\ it.before \subseteq published /\ it.from \in Nodes \cup {NULL}
         /\ it.op \in {"Seek", "Prev"}
<1>p. PICK x, n, from : x = it.walk.x /\ n = next[x][it.walk.level] /\ from = it.from
  OBVIOUS
<1>1. /\ UnderWay(it.walk) /\ it.walk.key = from /\ it.before \subseteq published
      /\ it.op = "Seek" => it.walk.find = "ge"
      /\ it.op = "Prev" => it.walk.find = IF from = NULL THEN "last" ELSE "lt"
  BY <1>p DEF ReaderInv
<1>2. /\ it.op \in {"Seek", "Prev"} /\ from \in Keys \cup {NULL} /\ it.walk \in Walks
  BY <1>p DEF Busy
<1>3. /\ x \in Nodes /\ it.walk.level \in AllLevels /\ In(x, it.walk.level) /\ 0 \in AllLevels
      /\ it.walk.find \in {"ge", "lt"} => from \in Keys /\ x < from
      /\ Keys \subseteq Nat \ {0} /\ Nodes \subseteq Nat /\ published = Linked(0) /\ published \subseteq Keys
      /\ NULL \notin Nat /\ head_ = 0
  BY <1>p, <1>1, <1>2 DEF UnderWay, Walks, SkipConstants, Nodes, ListInv, Linked, head_, AllLevels
<1>4. ~UnderWay(w)
  BY DEF UnderWay
<1>5. CASE it.op = "Seek"
  <2>1. /\ it.walk.level = 0 /\ w.result = n /\ n \in Keys \cup {NULL} /\ (n = NULL \/ n >= from)
    BY <1>p, <1>1, <1>4, <1>5, TurnOfGreaterOrEqual
  <2>2. node = n
    BY <1>5, <2>1
  <2>3. n # NULL => n \in published
    BY <1>p, <1>3, <2>1, LoadedLink DEF In, Linked, SkipConstants
  <2>4. ASSUME NEW k \in it.before, k >= from, Between(NULL, k, n) PROVE FALSE
    <3>1. k \in Linked(0) /\ k \in Nat /\ from \in Nat /\ x < from
      BY <1>1, <1>3, <1>5
    <3>2. x < k
      BY <1>3, <2>4, <3>1
    <3>3. n \in Keys /\ n <= k
      BY <1>p, <1>3, <2>1, <3>1, <3>2, NothingBetween
    <3>4. k < n
      BY <1>3, <2>4, <3>3 DEF Between
    <3> QED BY <1>3, <3>1, <3>3, <3>4
  <2>5. Found("Seek", from, it.before, n)
    BY <1>1, <1>3, <1>5, <2>1, <2>4 DEF Found, Nodes
  <2> QED BY <1>p, <1>1, <1>2, <1>5, <2>1, <2>2, <2>3, <2>5 DEF Nodes
<1>6. CASE it.op = "Prev"
  <2>1. it.walk.find \in {"lt", "last"}
    BY <1>1, <1>6
  <2>2. /\ it.walk.level = 0 /\ w.result = x /\ n \in Keys \cup {NULL}
        /\ n = NULL \/ (it.walk.find = "lt" /\ n >= from)
    BY <1>p, <1>1, <1>4, <2>1, TurnOfLessThanOrLast
  <2>3. (x = head_ /\ node = NULL) \/ (x \in published /\ node = x)
    BY <1>3, <1>6, <2>2 DEF In
  <2>4. from # NULL => it.walk.find = "lt" /\ from \in Keys /\ x < from
    BY <1>1, <1>2, <1>3, <1>6
  <2>5. node = NULL \/ from = NULL \/ node < from
    BY <2>3, <2>4
  <2>6. ASSUME NEW k \in it.before, Between(node, k, from) PROVE FALSE
    <3>1. k \in Linked(0) /\ k \in Nat /\ k > 0
      <4>1. k \in published /\ k \in Keys
        BY <1>1, <1>3
      <4>2. k \in Nat \ {0}
        BY <1>3, <4>1
      <4> QED BY <1>3, <4>1, <4>2
    <3>2. x < k
      BY <1>3, <2>3, <2>6, <3>1 DEF Between
    <3>3. n \in Keys /\ n <= k
      BY <1>p, <1>3, <2>2, <3>1, <3>2, NothingBetween
    <3>4. n # NULL /\ from # NULL
      BY <1>1, <1>3, <1>6, <2>2, <3>3
    <3>5. k < from /\ n >= from
      BY <2>2, <2>6, <3>4 DEF Between
    <3>6. \A a, b, c \in Nat : ~(a < b /\ c >= b /\ c <= a)
      OBVIOUS
    <3>7. n \in Nat /\ from \in Nat
      BY <1>3, <2>4, <3>3, <3>4
    <3> QED BY <3>1, <3>3, <3>5, <3>6, <3>7
  <2>7. Found("Prev", from, it.before, node)
    BY <1>2, <2>5, <2>6 DEF Found
  <2> QED BY <1>p, <1>1, <1>2, <1>6, <2>3, <2>7 DEF Nodes
<1> QED BY <1>2, <1>5, <1>6

LEMMA SearchStep ==
  ASSUME SkipConstants, ListInv, ReadersInv, NEW r \in Readers, Search(r)
  PROVE  ReadersInv'
<1>p. PICK it, w : it = iterator[r] /\ w = Turn(it.walk)
  OBVIOUS
<1>1. ReaderInv(it) /\ it \in Busy
  BY <1>p DEF ReadersInv, ReaderInv, Search, Idle, Resting, Finished
<1>2. UNCHANGED <<next, published>>
  BY DEF Search
<1>3. CASE w.done
  <2>p. PICK node : node = IF it.op = "Prev" /\ w.result = head_ THEN NULL ELSE w.result
    OBVIOUS
  <2>1. Done(r, it.op, it.from, it.before, node)
    BY <1>p, <1>3, <2>p DEF Search
  <2>2. /\ node \in published \cup {NULL} /\ Found(it.op, it.from, it.before, node)
        /\ it.before \subseteq published /\ it.from \in Nodes \cup {NULL}
        /\ it.op \in {"Seek", "Prev"}
    BY <1>p, <1>1, <1>3, <2>p, SearchFinds
  <2> QED BY <1>2, <2>1, <2>2, DoneStep
<1>4. CASE ~w.done
  <2>1. UnderWay(it.walk)
    BY <1>1 DEF ReaderInv
  <2>2. it.walk.find \in {"ge", "lt", "last"}
    BY <2>1 DEF UnderWay, Walks
  <2>3. UnderWay(w) /\ w.find = it.walk.find /\ w.key = it.walk.key
    <3>1. CASE it.walk.find = "ge"
      BY <1>p, <1>4, <2>1, <3>1, TurnOfGreaterOrEqual
    <3>2. CASE it.walk.find \in {"lt", "last"}
      BY <1>p, <1>4, <2>1, <3>2, TurnOfLessThanOrLast
    <3> QED BY <2>2, <3>1, <3>2
  <2>p. PICK new : new = [it EXCEPT !.walk = w]
    OBVIOUS
  <2>4. w \in Walks
    BY <2>3 DEF UnderWay
  <2>5. /\ new \in Busy /\ new.walk = w /\ new.op = it.op /\ new.from = it.from
        /\ new.before = it.before /\ new.node = it.node
    BY <1>1, <2>p, <2>4 DEF Busy
  <2>6. new \notin Finished
    BY <2>5 DEF Finished, Busy
  <2>7. ReaderInv(new)
    BY <1>1, <2>3, <2>5, <2>6 DEF ReaderInv
  <2>8. iterator' = [iterator EXCEPT ![r] = new]
    BY <1>p, <1>4, <2>p DEF Search
  <2> QED BY <1>2, <2>7, <2>8, ReaderMoves
<1> QED BY <1>3, <1>4

-----------------------------------------------------------------------------
LEMMA InitSkipInv ==
  ASSUME SkipConstants, Init
  PROVE  SkipInv
<1>1. \A level \in AllLevels : Linked(level) = {}
  BY DEF Init, Linked, SkipConstants
<1>2. 0 \in AllLevels
  BY DEF AllLevels, SkipConstants
<1>3. ListInv
  <2>1. next \in [Nodes -> [AllLevels -> Keys \cup {NULL}]]
    BY DEF Init
  <2>2. \A level \in AllLevels : Ordered(level)
    BY <1>1 DEF Init, Ordered
  <2>3. heights \in SUBSET (1 .. kMaxHeight) /\ heights # {}
    BY DEF Init, SkipConstants
  <2>4. published = Linked(0)
    BY <1>1, <1>2 DEF Init
  <2>5. \A level \in AllLevels : level > 0 => Linked(level) \subseteq Linked(level - 1)
    BY <1>1
  <2> QED BY <1>1, <2>1, <2>2, <2>3, <2>4, <2>5 DEF ListInv
<1>4. InsertInv
  BY DEF Init, InsertInv
<1>5. ReadersInv
  <2>1. PICK it : it = [node |-> NULL, op |-> "none"]
    OBVIOUS
  <2>2. it \in Resting /\ it \notin Busy /\ it \notin Finished
    BY <2>1 DEF Resting, Busy, Finished
  <2>3. ReaderInv(it)
    BY <2>2 DEF ReaderInv
  <2> QED BY <2>1, <2>3 DEF Init, ReadersInv
<1> QED BY <1>3, <1>4, <1>5 DEF SkipInv

LEMMA SkipStep ==
  ASSUME SkipConstants, SkipInv, [Next]_vars
  PROVE  SkipInv'
<1> USE DEF SkipInv
<1>1. ASSUME UNCHANGED <<next, heights, published>> PROVE ListInv'
  BY <1>1, ListStays
<1>2. ASSUME UNCHANGED <<next, published, iterator>> PROVE ReadersInv'
  BY <1>2, ReadersStay DEF Linked
<1>3. ASSUME UNCHANGED <<next, insertion>> PROVE InsertInv'
  BY <1>3 DEF InsertInv, UnderWay, Before, In, Linked
<1>4. CASE StartInsert
  BY <1>1, <1>2, <1>4, StartInsertStep DEF StartInsert
<1>5. CASE SearchInsert
  BY <1>1, <1>2, <1>5, SearchInsertStep DEF SearchInsert
<1>6. CASE RaiseHeight
  <2>1. insertion.height \in 1 .. kMaxHeight /\ heights \subseteq heights' /\ heights' = heights \cup {insertion.height}
    BY <1>6 DEF RaiseHeight, InsertInv
  <2>2. UNCHANGED <<next, insertion, published, iterator>>
    BY <1>6 DEF RaiseHeight
  <2>3. \A level : Linked(level)' = Linked(level)
    BY <2>2 DEF Linked
  <2>4. ListInv'
    BY <2>1, <2>2, <2>3 DEF ListInv, Ordered, In
  <2> QED BY <1>2, <1>3, <2>2, <2>4
<1>7. CASE Insert
  <2>1. iterator' = iterator
    BY <1>7 DEF Insert
  <2> QED BY <1>7, <2>1, InsertKeepsList, InsertKeepsInsertion, ReadersStay
<1>8. ASSUME NEW r \in Readers, Seek(r) \/ SeekToFirst(r) \/ SeekToLast(r) \/ Next_(r) \/ Prev(r) \/ Search(r)
      PROVE  SkipInv'
  <2>1. UNCHANGED <<next, heights, insertion, published>>
    BY <1>8 DEF Seek, SeekToFirst, SeekToLast, Next_, Prev, Search, Begin
  <2>2. ASSUME Seek(r) PROVE ReadersInv'
    BY <2>2, BeginStep, "Seek" # "Prev" DEF Seek, SkipConstants
  <2>3. ASSUME SeekToLast(r) PROVE ReadersInv'
    BY <2>3, BeginStep, "Seek" # "Prev" DEF SeekToLast
  <2>4. ASSUME Prev(r) PROVE ReadersInv'
    <3>1. iterator[r].node \in Keys /\ iterator[r].node # NULL
      BY <2>4, IdleNode DEF Prev, Begin, ReadersInv
    <3> QED BY <2>4, <3>1, BeginStep, "Seek" # "Prev" DEF Prev
  <2> QED BY <1>1, <1>3, <1>8, <2>1, <2>2, <2>3, <2>4, SeekToFirstStep, NextStep, SearchStep
<1>9. CASE UNCHANGED vars
  BY <1>1, <1>2, <1>3, <1>9 DEF vars
<1> QED BY <1>4, <1>5, <1>6, <1>7, <1>8, <1>9 DEF Next

LEMMA SkipInvImplies == SkipInv => ReadersMissNothing
<1> SUFFICES ASSUME SkipInv, NEW r \in Readers, iterator[r].op = "done"
             PROVE  LET it == iterator[r]
                    IN /\ it.node \in published \cup {NULL}
                       /\ CASE it.was = "Seek" ->
                                 /\ it.node = NULL \/ it.node >= it.from
                                 /\ \A k \in it.before : k >= it.from => ~Between(NULL, k, it.node)
                            [] it.was = "Next" ->
                                 /\ it.node = NULL \/ it.node > it.from
                                 /\ \A k \in it.before : ~Between(it.from, k, it.node)
                            [] it.was = "Prev" ->
                                 /\ it.node = NULL \/ it.from = NULL \/ it.node < it.from
                                 /\ \A k \in it.before : ~Between(it.node, k, it.from)
  BY DEF ReadersMissNothing
<1>p. PICK it : it = iterator[r]
  OBVIOUS
<1>1. ReaderInv(it) /\ it.op = "done"
  BY <1>p DEF SkipInv, ReadersInv
<1>2. it \in Finished
  BY <1>1 DEF ReaderInv, Resting, Busy
<1>3. it.was \in {"Seek", "Next", "Prev"} /\ Found(it.was, it.from, it.before, it.node) /\ it.node \in published \cup {NULL}
  BY <1>1, <1>2 DEF ReaderInv, Finished
<1> QED BY <1>p, <1>3 DEF Found

\* SkipList: for any keys, any height of the list and any number of readers
\* that load its links beside the writer, an iterator lands on a published node
\* and steps over no key whose insertion was published when it started.
THEOREM NothingIsSteppedOver ==
  ASSUME SkipConstants
  PROVE  Spec => []ReadersMissNothing
<1>1. Init => SkipInv
  BY InitSkipInv
<1>2. SkipInv /\ [Next]_vars => SkipInv'
  BY SkipStep
<1> QED BY <1>1, <1>2, SkipInvImplies, PTL DEF Spec
===============================================================================
