-------------------------- MODULE ConcurrencyProofs --------------------------
(***************************************************************************)
(* What is proved of the components that MCConcurrency instantiates, as    *)
(* theorems of its specification.                                          *)
(***************************************************************************)
EXTENDS MCConcurrency, FiniteSetTheorems, SequenceTheorems, WellFoundedInduction, TLAPS

-----------------------------------------------------------------------------
(* Induction over an interval, and functions defined along one.            *)

\* A set of indices with 0, and with every next one, has all.
LEMMA AllIndices ==
  ASSUME NEW n \in Nat, NEW I, 0 \in I, \A i \in 1 .. n : i - 1 \in I => i \in I
  PROVE  \A i \in 0 .. n : i \in I
<1> DEFINE Missing == {k \in 0 .. n : k \notin I}
<1> SUFFICES ASSUME Missing # {} PROVE FALSE
  OBVIOUS
<1>1. Missing \subseteq Nat
  OBVIOUS
<1>2. PICK k \in Missing : \A j \in Missing : ~(<<j, k>> \in OpToRel(<, Nat))
  BY <1>1, WFMin, NatLessThanWellFounded
<1>3. k \in 1 .. n /\ k - 1 \in Nat /\ k - 1 < k
  BY <1>1
<1>4. k - 1 \notin Missing
  BY <1>1, <1>2, <1>3 DEF OpToRel
<1> QED BY <1>3, <1>4

\* A function defined by its first value and by a step from each to the next.
Recursions(n, S, a, G) == {f \in [0 .. n -> S] : f[0] = a /\ \A i \in 1 .. n : f[i] = G[i][f[i - 1]]}

\* There is such a function, for any length.
LEMMA RecursionExists ==
  ASSUME NEW n \in Nat, NEW S, NEW a \in S, NEW G \in [1 .. n -> [S -> S]]
  PROVE  Recursions(n, S, a, G) # {}
<1> DEFINE Up(m, f) == f[0] = a /\ \A i \in 1 .. m : f[i] = G[i][f[i - 1]]
           I == {m \in 0 .. n : \E f \in [0 .. m -> S] : Up(m, f)}
<1>1. 0 \in I
  <2> DEFINE f == [i \in 0 .. 0 |-> a]
  <2>1. f \in [0 .. 0 -> S] /\ f[0] = a /\ 1 .. 0 = {} /\ 0 \in 0 .. n
    OBVIOUS
  <2> HIDE DEF f
  <2>2. Up(0, f)
    BY <2>1
  <2> QED BY <2>1, <2>2
<1>2. ASSUME NEW m \in 1 .. n, m - 1 \in I PROVE m \in I
  <2>1. PICK f \in [0 .. m - 1 -> S] : Up(m - 1, f)
    BY <1>2
  <2> DEFINE g == [i \in 0 .. m |-> IF i < m THEN f[i] ELSE G[m][f[m - 1]]]
  <2>2. m - 1 \in 0 .. m - 1 /\ m \in 0 .. n
    OBVIOUS
  <2>3. G[m][f[m - 1]] \in S
    BY <2>2
  <2>4. g \in [0 .. m -> S]
    BY <2>3
  <2>5. g[0] = a
    BY <2>1
  <2>6. ASSUME NEW i \in 1 .. m PROVE g[i] = G[i][g[i - 1]]
    <3>1. CASE i = m
      BY <3>1
    <3>2. CASE i # m
      BY <2>1, <3>2
    <3> QED BY <3>1, <3>2
  <2> QED BY <2>2, <2>4, <2>5, <2>6
<1>3. \A i \in 0 .. n : i \in I
  <2> HIDE DEF I
  <2> QED BY <1>1, <1>2, AllIndices
<1> QED BY <1>3 DEF Recursions
-----------------------------------------------------------------------------
(* The sharded cache                                                       *)

\* q lists the elements of C, each once.
Lists(q, C) ==
  /\ q \in Seq(C)
  /\ \A j, k \in 1 .. Len(q) : q[j] = q[k] => j = k
  /\ \A h \in C : \E j \in 1 .. Len(q) : q[j] = h

\* The empty list.
LEMMA ListsNothing == Lists(<<>>, {})
BY DEF Lists

\* LRU_Append: a new element at the end of a list.
LEMMA ListsAppended ==
  ASSUME NEW C, NEW q, Lists(q, C), NEW h, h \notin C
  PROVE  Lists(Append(q, h), C \cup {h})
<1>1. q \in Seq(C) /\ q \in Seq(C \cup {h})
  BY DEF Lists
<1> DEFINE r == Append(q, h)
<1>2. r \in Seq(C \cup {h}) /\ Len(r) = Len(q) + 1 /\ r[Len(q) + 1] = h /\ \A j \in 1 .. Len(q) : r[j] = q[j]
  BY <1>1
<1>3. \A j \in 1 .. Len(q) : q[j] \in C
  BY <1>1
<1> HIDE DEF r
<1>4. \A j, k \in 1 .. Len(r) : r[j] = r[k] => j = k
  <2> SUFFICES ASSUME NEW j \in 1 .. Len(r), NEW k \in 1 .. Len(r), r[j] = r[k] PROVE j = k
    OBVIOUS
  <2>1. Len(q) \in Nat
    BY <1>1
  <2>2. j # Len(q) + 1 => j \in 1 .. Len(q) /\ r[j] = q[j] /\ r[j] # h
    BY <1>2, <1>3, <2>1
  <2>3. k # Len(q) + 1 => k \in 1 .. Len(q) /\ r[k] = q[k] /\ r[k] # h
    BY <1>2, <1>3, <2>1
  <2> QED BY <1>2, <2>1, <2>2, <2>3 DEF Lists
<1>5. \A g \in C \cup {h} : \E j \in 1 .. Len(r) : r[j] = g
  <2> TAKE g \in C \cup {h}
  <2>1. CASE g = h
    BY <1>1, <1>2, <2>1
  <2>2. CASE g \in C
    <3>1. PICK j \in 1 .. Len(q) : q[j] = g
      BY <2>2 DEF Lists
    <3> QED BY <1>1, <1>2, <3>1
  <2> QED BY <2>1, <2>2
<1>6. Lists(r, C \cup {h})
  BY <1>2, <1>4, <1>5 DEF Lists
<1> QED BY <1>6 DEF r

\* Resize puts a moved entry in front of its new chain.
LEMMA ListsInFront ==
  ASSUME NEW C, NEW q, Lists(q, C), NEW h, h \notin C
  PROVE  Lists(<<h>> \o q, C \cup {h})
<1>1. q \in Seq(C) /\ q \in Seq(C \cup {h}) /\ <<h>> \in Seq(C \cup {h})
  BY DEF Lists
<1> DEFINE r == <<h>> \o q
<1>2. r \in Seq(C \cup {h}) /\ Len(r) = Len(q) + 1 /\ r[1] = h /\ \A j \in 2 .. Len(r) : r[j] = q[j - 1]
  BY <1>1
<1>3. \A j \in 1 .. Len(q) : q[j] \in C
  BY <1>1
<1> HIDE DEF r
<1>4. \A j, k \in 1 .. Len(r) : r[j] = r[k] => j = k
  <2> SUFFICES ASSUME NEW j \in 1 .. Len(r), NEW k \in 1 .. Len(r), r[j] = r[k] PROVE j = k
    OBVIOUS
  <2>1. j # 1 => j - 1 \in 1 .. Len(q) /\ r[j] = q[j - 1] /\ r[j] # h
    BY <1>1, <1>2, <1>3
  <2>2. k # 1 => k - 1 \in 1 .. Len(q) /\ r[k] = q[k - 1] /\ r[k] # h
    BY <1>1, <1>2, <1>3
  <2>3. CASE j # 1 /\ k # 1
    <3>1. j - 1 = k - 1
      BY <2>1, <2>2, <2>3 DEF Lists
    <3> QED BY <1>1, <1>2, <3>1
  <2> QED BY <1>2, <2>1, <2>2, <2>3
<1>5. \A g \in C \cup {h} : \E j \in 1 .. Len(r) : r[j] = g
  <2> TAKE g \in C \cup {h}
  <2>1. CASE g = h
    BY <1>1, <1>2, <2>1
  <2>2. CASE g \in C
    <3>1. PICK j \in 1 .. Len(q) : q[j] = g
      BY <2>2 DEF Lists
    <3>2. j + 1 \in 2 .. Len(r) /\ (j + 1) - 1 = j /\ j + 1 \in 1 .. Len(r)
      BY <1>1, <1>2, <3>1
    <3>3. r[j + 1] = g
      BY <1>2, <3>1, <3>2
    <3> QED BY <3>2, <3>3
  <2> QED BY <2>1, <2>2
<1>6. Lists(r, C \cup {h})
  BY <1>2, <1>4, <1>5 DEF Lists
<1> QED BY <1>6 DEF r

\* Remove takes an entry out of its chain.
LEMMA ListsWithout ==
  ASSUME NEW C, NEW q, Lists(q, C), NEW i \in 1 .. Len(q)
  PROVE  Lists(Cache!RemoveAt(q, i), C \ {q[i]})
<1>1. q \in Seq(C) /\ Len(q) \in Nat
  BY DEF Lists
<1> DEFINE r == Cache!RemoveAt(q, i)
<1> DEFINE front == SubSeq(q, 1, i - 1)
           rest == SubSeq(q, i + 1, Len(q))
<1>2. /\ front \in Seq(C) /\ Len(front) = i - 1 /\ \A j \in 1 .. i - 1 : front[j] = q[j]
      /\ rest \in Seq(C) /\ Len(rest) = Len(q) - i
      /\ \A j \in 1 .. Len(q) - i : rest[j] = q[j + i]
  BY <1>1
<1>3. r = front \o rest
  BY DEF Cache!RemoveAt
<1> HIDE DEF r, front, rest
<1>4. /\ r \in Seq(C) /\ Len(r) = Len(q) - 1
      /\ \A j \in 1 .. Len(r) : r[j] = IF j < i THEN q[j] ELSE q[j + 1]
  <2>1. /\ r \in Seq(C) /\ Len(r) = (i - 1) + (Len(q) - i)
        /\ \A j \in 1 .. Len(r) : r[j] = IF j <= i - 1 THEN front[j] ELSE rest[j - (i - 1)]
    <3>1. i - 1 \in Nat /\ Len(q) - i \in Nat
      BY <1>1
    <3>2. front \in Seq(C) /\ rest \in Seq(C) /\ Len(front) = i - 1 /\ Len(rest) = Len(q) - i
      BY <1>2
    <3>3. r \in Seq(C) /\ Len(r) = Len(front) + Len(rest)
      BY <1>3, <3>2, ConcatProperties
    <3>4. ASSUME NEW j \in 1 .. Len(r)
          PROVE  r[j] = IF j <= Len(front) THEN front[j] ELSE rest[j - Len(front)]
      BY <1>3, <3>2, <3>3, <3>4, ConcatProperties
    <3> QED BY ONLY <3>1, <3>2, <3>3, <3>4
  <2>2. ASSUME NEW j \in 1 .. Len(r) PROVE r[j] = IF j < i THEN q[j] ELSE q[j + 1]
    <3>1. CASE j < i
      BY <1>1, <1>2, <2>1, <3>1
    <3>2. CASE ~(j < i)
      <4>1. j - (i - 1) \in 1 .. Len(q) - i /\ (j - (i - 1)) + i = j + 1
        BY <1>1, <2>1, <3>2
      <4>2. r[j] = rest[j - (i - 1)]
        BY <1>1, <2>1, <3>2
      <4> QED BY <1>2, <3>2, <4>1, <4>2
    <3> QED BY <3>1, <3>2
  <2> QED BY <1>1, <2>1, <2>2
<1>5. \A j \in 1 .. Len(r) : r[j] \in C \ {q[i]}
  <2> TAKE j \in 1 .. Len(r)
  <2>1. j \in 1 .. Len(q) /\ j + 1 \in 1 .. Len(q)
    BY <1>1, <1>4
  <2>2. CASE j < i
    <3>1. r[j] = q[j] /\ j # i
      BY <1>4, <2>2
    <3>2. q[j] # q[i] /\ q[j] \in C
      BY <1>1, <2>1, <3>1 DEF Lists
    <3> QED BY <3>1, <3>2
  <2>3. CASE ~(j < i)
    <3>1. r[j] = q[j + 1] /\ j + 1 # i
      BY <1>1, <1>4, <2>3
    <3>2. q[j + 1] # q[i] /\ q[j + 1] \in C
      BY <1>1, <2>1, <3>1 DEF Lists
    <3> QED BY <3>1, <3>2
  <2> QED BY <2>2, <2>3
<1>6. r \in Seq(C \ {q[i]})
  BY <1>4, <1>5
<1>7. \A j, k \in 1 .. Len(r) : r[j] = r[k] => j = k
  <2> SUFFICES ASSUME NEW j \in 1 .. Len(r), NEW k \in 1 .. Len(r), r[j] = r[k] PROVE j = k
    OBVIOUS
  <2>1. /\ j \in 1 .. Len(q) /\ j + 1 \in 1 .. Len(q)
        /\ k \in 1 .. Len(q) /\ k + 1 \in 1 .. Len(q)
    BY <1>1, <1>4
  <2>2. \A a, b \in 1 .. Len(q) : q[a] = q[b] => a = b
    BY DEF Lists
  <2>3. r[j] = (IF j < i THEN q[j] ELSE q[j + 1]) /\ r[k] = (IF k < i THEN q[k] ELSE q[k + 1])
    BY <1>4
  <2> QED BY ONLY <1>1, <2>1, <2>2, <2>3, r[j] = r[k], i \in 1 .. Len(q)
<1>8. \A g \in C \ {q[i]} : \E j \in 1 .. Len(r) : r[j] = g
  <2> TAKE g \in C \ {q[i]}
  <2>1. PICK j \in 1 .. Len(q) : q[j] = g
    BY DEF Lists
  <2>2. j # i
    BY <2>1
  <2>3. CASE j < i
    BY <1>1, <1>4, <2>1, <2>3
  <2>4. CASE ~(j < i)
    <3>1. j - 1 \in 1 .. Len(r) /\ ~(j - 1 < i) /\ (j - 1) + 1 = j
      BY <1>1, <1>4, <2>1, <2>2, <2>4
    <3> QED BY <1>4, <2>1, <3>1
  <2> QED BY <2>3, <2>4
<1>9. Lists(r, C \ {q[i]})
  BY <1>6, <1>7, <1>8 DEF Lists
<1> QED BY <1>9 DEF r

\* Insert puts a new entry in the place of the old one.
LEMMA ListsReplaced ==
  ASSUME NEW C, NEW q, Lists(q, C), NEW i \in 1 .. Len(q), NEW h, h \notin C
  PROVE  Lists([q EXCEPT ![i] = h], (C \ {q[i]}) \cup {h})
<1>1. q \in Seq(C) /\ Len(q) \in Nat
  BY DEF Lists
<1> DEFINE r == [q EXCEPT ![i] = h]
<1>2. r \in Seq(C \cup {h}) /\ Len(r) = Len(q) /\ \A j \in 1 .. Len(q) : r[j] = IF j = i THEN h ELSE q[j]
  BY <1>1
<1> HIDE DEF r
<1>3. \A a, b \in 1 .. Len(q) : q[a] = q[b] => a = b
  BY DEF Lists
<1>4. \A j \in 1 .. Len(q) : q[j] \in C
  BY <1>1
<1>5. \A j \in 1 .. Len(r) : r[j] \in (C \ {q[i]}) \cup {h}
  BY <1>2, <1>3, <1>4
<1>6. r \in Seq((C \ {q[i]}) \cup {h})
  BY <1>2, <1>5
<1>7. \A j, k \in 1 .. Len(r) : r[j] = r[k] => j = k
  BY <1>2, <1>3, <1>4
<1>8. \A g \in (C \ {q[i]}) \cup {h} : \E j \in 1 .. Len(r) : r[j] = g
  <2> TAKE g \in (C \ {q[i]}) \cup {h}
  <2>1. CASE g = h
    BY <1>1, <1>2, <2>1
  <2>2. CASE g \in C \ {q[i]}
    <3>1. PICK j \in 1 .. Len(q) : q[j] = g
      BY <2>2 DEF Lists
    <3> QED BY <1>2, <2>2, <3>1
  <2> QED BY <2>1, <2>2
<1>9. Lists(r, (C \ {q[i]}) \cup {h})
  BY <1>6, <1>7, <1>8 DEF Lists
<1> QED BY <1>9 DEF r

\* LRU_Remove takes an entry out of a list, if it is there.
LEMMA ListsRemoved ==
  ASSUME NEW C, NEW q, Lists(q, C), NEW h
  PROVE  Lists(Cache!RemoveFirst(q, h), C \ {h})
<1>1. q \in Seq(C) /\ Len(q) \in Nat
  BY DEF Lists
<1>2. CASE \E i \in 1 .. Len(q) : q[i] = h
  <2> DEFINE I == {i \in 1 .. Len(q) : q[i] = h}
  <2>1. PICK i \in 1 .. Len(q) : q[i] = h
    BY <1>2
  <2>2. I = {i}
    BY <2>1 DEF Lists
  <2>3. Cache!Min(I) = i
    BY <2>1, <2>2 DEF Cache!Min
  <2>4. Cache!SelectInSeq(q, LAMBDA v : v = h) = i
    BY <2>2, <2>3 DEF Cache!SelectInSeq
  <2>5. Cache!RemoveFirst(q, h) = Cache!RemoveAt(q, i)
    BY <1>2, <2>4 DEF Cache!RemoveFirst
  <2> QED BY <2>1, <2>5, ListsWithout
<1>3. CASE ~ \E i \in 1 .. Len(q) : q[i] = h
  <2>1. Cache!RemoveFirst(q, h) = q
    BY <1>3 DEF Cache!RemoveFirst
  <2>2. C \ {h} = C
    BY <1>3 DEF Lists
  <2> QED BY <2>1, <2>2
<1> QED BY <1>2, <1>3

\* A function that sums a sequence from its first number on ends in its total.
Sums(w, f) == f[0] = 0 /\ \A k \in 1 .. Len(w) : f[k] = f[k - 1] + w[k]

\* A total is what any such function ends in.
LEMMA TotalIsSum ==
  ASSUME NEW w \in Seq(Int)
  PROVE  /\ \E f \in [0 .. Len(w) -> Int] : Sums(w, f) /\ Cache!Total(w) = f[Len(w)]
         /\ \A g : Sums(w, g) => Cache!Total(w) = g[Len(w)]
<1> DEFINE n == Len(w)
           G == [k \in 1 .. n |-> [x \in Int |-> x + w[k]]]
           Is(f) == f = [k \in 0 .. n |-> IF k = 0 THEN 0 ELSE f[k - 1] + w[k]]
           sum == CHOOSE f : Is(f)
<1>1. n \in Nat /\ \A k \in 1 .. n : w[k] \in Int
  OBVIOUS
<1>2. \E f : Is(f)
  <2>1. G \in [1 .. n -> [Int -> Int]]
    BY <1>1
  <2>2. PICK f \in [0 .. n -> Int] : f[0] = 0 /\ \A k \in 1 .. n : f[k] = G[k][f[k - 1]]
    <3>1. 0 \in Int
      OBVIOUS
    <3>2. n \in Nat
      BY <1>1
    <3> HIDE DEF G, n
    <3> DEFINE T == Int
    <3>3. 0 \in T /\ G \in [1 .. n -> [T -> T]]
      BY <2>1, <3>1
    <3> HIDE DEF T
    <3>4. Recursions(n, T, 0, G) # {}
      BY <3>2, <3>3, RecursionExists
    <3>5. PICK f : f \in Recursions(n, T, 0, G)
      BY ONLY <3>4
    <3> QED BY <3>5 DEF T, Recursions
  <2>3. ASSUME NEW k \in 0 .. n PROVE f[k] = IF k = 0 THEN 0 ELSE f[k - 1] + w[k]
    <3>1. CASE k = 0
      BY <2>2, <3>1
    <3>2. CASE k # 0
      <4>1. k \in 1 .. n /\ k - 1 \in 0 .. n
        BY <1>1, <3>2
      <4>2. f[k] = G[k][f[k - 1]] /\ f[k - 1] \in Int
        BY <2>2, <4>1
      <4>3. G[k] = [x \in Int |-> x + w[k]]
        BY <4>1
      <4> QED BY <3>2, <4>2, <4>3
    <3> QED BY <3>1, <3>2
  <2>4. Is(f)
    BY <2>2, <2>3
  <2> QED BY <2>4
<1>3. Is(sum)
  BY <1>2
<1>4. Cache!Total(w) = sum[n]
  BY DEF Cache!Total
<1> HIDE DEF sum
<1>5. sum[0] = 0 /\ \A k \in 1 .. n : sum[k] = sum[k - 1] + w[k]
  BY <1>1, <1>3
<1>6. ASSUME NEW g, Sums(w, g) PROVE sum[n] = g[n]
  <2> DEFINE I == {k \in 0 .. n : sum[k] = g[k]}
  <2>1. 0 \in I
    BY <1>1, <1>5, <1>6 DEF Sums
  <2>2. ASSUME NEW k \in 1 .. n, k - 1 \in I PROVE k \in I
    BY <1>1, <1>5, <1>6, <2>2 DEF Sums
  <2>3. \A k \in 0 .. n : k \in I
    <3> HIDE DEF I, n
    <3> QED BY <1>1, <2>1, <2>2, AllIndices
  <2> QED BY <1>1, <2>3
<1>7. sum \in [0 .. n -> Int]
  <2> DEFINE I == {k \in 0 .. n : sum[k] \in Int}
  <2>1. 0 \in I
    BY <1>1, <1>5
  <2>2. ASSUME NEW k \in 1 .. n, k - 1 \in I PROVE k \in I
    BY <1>1, <1>5, <2>2
  <2>3. \A k \in 0 .. n : k \in I
    <3> HIDE DEF I, n
    <3> QED BY <1>1, <2>1, <2>2, AllIndices
  <2> QED BY <1>3, <2>3
<1>8. Sums(w, sum)
  BY <1>5 DEF Sums
<1> QED BY <1>4, <1>6, <1>7, <1>8

\* The usage of an empty shard.
LEMMA TotalOfNone == Cache!Total(<<>>) = 0
<1>1. <<>> \in Seq(Int) /\ Len(<<>>) = 0
  OBVIOUS
<1> QED BY <1>1, TotalIsSum DEF Sums

\* The charge of a new entry is added to the total.
LEMMA TotalAppended ==
  ASSUME NEW w \in Seq(Int), NEW x \in Int
  PROVE  Cache!Total(Append(w, x)) = Cache!Total(w) + x
<1> DEFINE r == Append(w, x)
<1>1. r \in Seq(Int) /\ Len(r) = Len(w) + 1 /\ r[Len(w) + 1] = x /\ \A k \in 1 .. Len(w) : r[k] = w[k]
  OBVIOUS
<1> HIDE DEF r
<1>2. PICK f \in [0 .. Len(r) -> Int] : Sums(r, f) /\ Cache!Total(r) = f[Len(r)]
  BY <1>1, TotalIsSum
<1>3. Len(w) \in Nat
  OBVIOUS
<1>4. Sums(w, f)
  BY <1>1, <1>2, <1>3 DEF Sums
<1>5. Cache!Total(w) = f[Len(w)]
  BY <1>4, TotalIsSum
<1>6. f[Len(w) + 1] = f[Len(w)] + x
  <2>1. Len(w) + 1 \in 1 .. Len(r) /\ (Len(w) + 1) - 1 = Len(w)
    BY <1>1, <1>3
  <2> QED BY <1>1, <1>2, <2>1 DEF Sums
<1> QED BY <1>1, <1>2, <1>5, <1>6 DEF r

\* The charge of an entry that leaves the cache is subtracted.
LEMMA TotalChanged ==
  ASSUME NEW w \in Seq(Int), NEW i \in 1 .. Len(w), NEW x \in Int
  PROVE  Cache!Total([w EXCEPT ![i] = x]) = Cache!Total(w) - w[i] + x
<1> DEFINE r == [w EXCEPT ![i] = x]
<1>1. r \in Seq(Int) /\ Len(r) = Len(w) /\ \A k \in 1 .. Len(w) : r[k] = IF k = i THEN x ELSE w[k]
  OBVIOUS
<1>2. Len(w) \in Nat /\ \A k \in 1 .. Len(w) : w[k] \in Int
  OBVIOUS
<1> HIDE DEF r
<1>3. PICK f \in [0 .. Len(w) -> Int] : Sums(w, f) /\ Cache!Total(w) = f[Len(w)]
  BY TotalIsSum
<1> DEFINE g == [k \in 0 .. Len(w) |-> IF k < i THEN f[k] ELSE f[k] - w[i] + x]
<1>4. g[0] = 0
  BY <1>2, <1>3 DEF Sums
<1>5. ASSUME NEW k \in 1 .. Len(r) PROVE g[k] = g[k - 1] + r[k]
  <2>0. k \in 1 .. Len(w) /\ k \in 0 .. Len(w) /\ k - 1 \in 0 .. Len(w)
    BY <1>1, <1>2
  <2>1. f[k] = f[k - 1] + w[k] /\ f[k] \in Int /\ f[k - 1] \in Int
    BY <1>3, <2>0 DEF Sums
  <2>2. g[k] = (IF k < i THEN f[k] ELSE f[k] - w[i] + x) /\ g[k - 1] = IF k - 1 < i THEN f[k - 1] ELSE f[k - 1] - w[i] + x
    BY <2>0
  <2>3. r[k] = (IF k = i THEN x ELSE w[k]) /\ w[k] \in Int /\ w[i] \in Int
    BY <1>1, <1>2
  <2>4. k \in Int /\ i \in Int
    OBVIOUS
  <2> HIDE DEF g
  <2>5. CASE k < i
    BY ONLY <2>1, <2>2, <2>3, <2>4, <2>5, x \in Int
  <2>6. CASE k = i
    <3>1. g[k] = f[k] - w[i] + x /\ g[k - 1] = f[k - 1] /\ r[k] = x
      BY ONLY <2>2, <2>3, <2>4, <2>6
    <3> QED BY ONLY <2>1, <2>3, <2>6, <3>1, x \in Int
  <2>7. CASE k > i
    <3>1. g[k] = f[k] - w[i] + x /\ g[k - 1] = f[k - 1] - w[i] + x /\ r[k] = w[k]
      BY ONLY <2>2, <2>3, <2>4, <2>7
    <3> DEFINE p == f[k]
               q == f[k - 1]
               u == w[k]
               v == w[i]
    <3>2. p = q + u /\ p \in Int /\ q \in Int /\ u \in Int /\ v \in Int
      BY <2>1, <2>3
    <3>3. g[k] = p - v + x /\ g[k - 1] = q - v + x /\ r[k] = u
      BY <3>1
    <3> HIDE DEF p, q, u, v
    <3> QED BY ONLY <3>2, <3>3, x \in Int
  <2> QED BY <2>4, <2>5, <2>6, <2>7
<1>6. Sums(r, g)
  BY <1>4, <1>5 DEF Sums
<1>7. g[Len(w)] = f[Len(w)] - w[i] + x
  BY <1>2
<1> HIDE DEF g
<1>8. Cache!Total(r) = g[Len(r)]
  BY <1>1, <1>6, TotalIsSum
<1> QED BY <1>1, <1>3, <1>7, <1>8 DEF r

-----------------------------------------------------------------------------
(* HandleTable                                                             *)

EntryRecord == [key : Nat, charge : Nat, in_cache : BOOLEAN, refs : Nat]
BucketLists == UNION {[0 .. n - 1 -> Seq(Nat)] : n \in Nat}
Tables == [length : Nat \ {0}, elems : Nat, list : BucketLists]
InBucket(t, e, C, b) == {h \in C : Cache!Bucket(t, e[h].key) = b}

\* The buckets of t list the entries C of e, each in its own.
Hashed(t, e, C) ==
  /\ t \in Tables /\ t.list \in [0 .. t.length - 1 -> Seq(Nat)]
  /\ \A b \in 0 .. t.length - 1 : Lists(t.list[b], InBucket(t, e, C, b))

\* The table t finds the entries C of e, by their keys.
Finds(t, e, C) ==
  /\ Hashed(t, e, C)
  /\ t.elems = Cardinality(C)
  /\ \A g, h \in C : e[g].key = e[h].key => g = h

Entries(e, C) == e \in Seq(EntryRecord) /\ C \subseteq DOMAIN e

\* The entries are numbered from 1, and finitely many.
LEMMA EntriesAreFinite ==
  ASSUME NEW e, NEW C, Entries(e, C)
  PROVE  /\ IsFiniteSet(C) /\ Cardinality(C) \in Nat
         /\ C \subseteq Nat \ {0}
         /\ \A h \in C : e[h].key \in Nat /\ e[h] \in EntryRecord
<1>1. Len(e) \in Nat /\ DOMAIN e = 1 .. Len(e)
  BY DEF Entries
<1>2. IsFiniteSet(1 .. Len(e))
  BY <1>1, FS_Interval
<1>3. IsFiniteSet(C)
  BY <1>1, <1>2, FS_Subset DEF Entries
<1>4. \A h \in C : e[h] \in EntryRecord
  BY <1>1 DEF Entries
<1> QED BY <1>1, <1>3, <1>4, FS_CardinalityType DEF Entries, EntryRecord

\* hash & (length_ - 1), here a remainder, is the index of a bucket.
LEMMA BucketExists ==
  ASSUME NEW t, t \in Tables, NEW key \in Nat
  PROVE  Cache!Bucket(t, key) \in 0 .. t.length - 1
<1>1. t.length \in Nat \ {0} /\ kNumShards \in Nat \ {0}
  BY CacheParameters DEF Tables
<1>2. key \div kNumShards \in Nat
  BY <1>1
<1>3. (key \div kNumShards) % t.length \in 0 .. t.length - 1
  BY <1>1, <1>2
<1> QED BY <1>3 DEF Cache!Bucket

\* FindPointer stops at the entry that matches, or at the end of the chain.
LEMMA PointerFound ==
  ASSUME NEW t, NEW e, NEW C, Entries(e, C), Hashed(t, e, C), NEW key \in Nat
  PROVE  LET b == Cache!Bucket(t, key)
             chain == t.list[b]
             i == Cache!FindPointer(t, e, key)
         IN /\ b \in 0 .. t.length - 1
            /\ chain \in Seq(Nat) /\ Lists(chain, InBucket(t, e, C, b))
            /\ i \in 1 .. Len(chain) + 1
            /\ i \in 1 .. Len(chain) => chain[i] \in C /\ e[chain[i]].key = key
            /\ i = Len(chain) + 1 => \A h \in C : e[h].key # key
<1> DEFINE b == Cache!Bucket(t, key)
           chain == t.list[b]
           i == Cache!FindPointer(t, e, key)
           found == {j \in DOMAIN chain : e[chain[j]].key = key}
<1>1. b \in 0 .. t.length - 1
  BY BucketExists DEF Hashed
<1>2. chain \in Seq(Nat) /\ Lists(chain, InBucket(t, e, C, b))
  BY <1>1 DEF Hashed
<1>3. DOMAIN chain = 1 .. Len(chain) /\ Len(chain) \in Nat /\ \A j \in 1 .. Len(chain) : chain[j] \in InBucket(t, e, C, b)
  BY <1>2 DEF Lists
<1>4. i = IF found = {} THEN Len(chain) + 1 ELSE Cache!Min(found)
  BY DEF Cache!FindPointer
<1> HIDE DEF i, b, chain
<1>5. CASE found = {}
  <2>1. ASSUME NEW h \in C PROVE e[h].key # key
    <3> SUFFICES ASSUME e[h].key = key PROVE FALSE
      OBVIOUS
    <3>1. h \in InBucket(t, e, C, b)
      BY DEF InBucket, b
    <3>2. PICK j \in 1 .. Len(chain) : chain[j] = h
      BY <1>2, <3>1 DEF Lists
    <3> QED BY <1>3, <1>5, <3>2
  <2>2. i = Len(chain) + 1
    BY <1>4, <1>5
  <2>3. i \in 1 .. Len(chain) + 1 /\ i \notin 1 .. Len(chain)
    BY <1>3, <2>2
  <2> QED BY <1>1, <1>2, <2>1, <2>3 DEF i, b, chain
<1>6. CASE found # {}
  <2>1. found \subseteq Nat
    BY <1>3
  <2>2. PICK m \in found : \A j \in found : ~(<<j, m>> \in OpToRel(<, Nat))
    BY <1>6, <2>1, WFMin, NatLessThanWellFounded
  <2>3. ASSUME NEW j \in found PROVE m <= j
    <3>1. j \in Nat /\ m \in Nat
      BY <2>1
    <3>2. ~(<<j, m>> \in OpToRel(<, Nat))
      BY <2>2
    <3> HIDE DEF found
    <3> QED BY <3>1, <3>2 DEF OpToRel
  <2>4. Cache!Min(found) \in found
    <3> HIDE DEF found
    <3>1. m \in found /\ \A y \in found : m <= y
      BY <2>3
    <3> QED BY <3>1 DEF Cache!Min
  <2>5. i \in 1 .. Len(chain) /\ e[chain[i]].key = key
    BY <1>3, <1>4, <1>6, <2>4
  <2>6. chain[i] \in C
    BY <1>3, <2>5 DEF InBucket
  <2>7. i \in 1 .. Len(chain) + 1 /\ i # Len(chain) + 1
    BY <1>3, <2>5
  <2> QED BY <1>1, <1>2, <2>5, <2>6, <2>7 DEF i, b, chain
<1> QED BY <1>5, <1>6

\* Lookup finds the entry with the key, if there is one.
LEMMA LookupFinds ==
  ASSUME NEW t, NEW e, NEW C, Entries(e, C), Hashed(t, e, C), NEW key \in Nat
  PROVE  LET h == Cache!TableLookup(t, e, key)
         IN \/ h \in C /\ e[h].key = key
            \/ h = 0 /\ \A g \in C : e[g].key # key
<1> DEFINE b == Cache!Bucket(t, key)
           chain == t.list[b]
           i == Cache!FindPointer(t, e, key)
<1>1. /\ chain \in Seq(Nat) /\ i \in 1 .. Len(chain) + 1
      /\ i \in 1 .. Len(chain) => chain[i] \in C /\ e[chain[i]].key = key
      /\ i = Len(chain) + 1 => \A h \in C : e[h].key # key
  BY PointerFound
<1>2. Cache!TableLookup(t, e, key) = IF i > Len(chain) THEN 0 ELSE chain[i]
  BY DEF Cache!TableLookup
<1> HIDE DEF chain, i, b
<1>3. CASE i > Len(chain)
  BY <1>1, <1>2, <1>3
<1>4. CASE ~(i > Len(chain))
  BY <1>1, <1>2, <1>4
<1> QED BY <1>3, <1>4

\* Nothing is found twice, so a key that is in C finds its entry.
LEMMA LookupOf ==
  ASSUME NEW t, NEW e, NEW C, Entries(e, C), Finds(t, e, C), NEW h \in C
  PROVE  Cache!TableLookup(t, e, e[h].key) = h
<1>1. e[h].key \in Nat
  BY EntriesAreFinite
<1> QED BY <1>1, LookupFinds DEF Finds

\* The keys are all a table looks at.
LEMMA FindsByKeys ==
  ASSUME NEW t, NEW e, NEW f, NEW C, Finds(t, e, C), \A h \in C : f[h].key = e[h].key
  PROVE  Finds(t, f, C)
<1>1. \A b : InBucket(t, f, C, b) = InBucket(t, e, C, b)
  BY DEF InBucket
<1>2. Hashed(t, f, C)
  BY <1>1 DEF Finds, Hashed
<1> QED BY <1>2 DEF Finds

\* Remove takes the entry it finds out of its chain.
LEMMA RemoveTakesOut ==
  ASSUME NEW t, NEW e, NEW C, Entries(e, C), Finds(t, e, C), NEW key \in Nat
  PROVE  LET h == Cache!TableLookup(t, e, key)
         IN Finds(Cache!TableRemove(t, e, key), e, C \ {h})
<1> DEFINE b == Cache!Bucket(t, key)
           chain == t.list[b]
           i == Cache!FindPointer(t, e, key)
           h == Cache!TableLookup(t, e, key)
           u == Cache!TableRemove(t, e, key)
<1>1. /\ b \in 0 .. t.length - 1 /\ chain \in Seq(Nat) /\ Lists(chain, InBucket(t, e, C, b))
      /\ i \in 1 .. Len(chain) + 1
      /\ i \in 1 .. Len(chain) => chain[i] \in C /\ e[chain[i]].key = key
      /\ i = Len(chain) + 1 => \A g \in C : e[g].key # key
  BY PointerFound DEF Finds
<1>2. h = IF i > Len(chain) THEN 0 ELSE chain[i]
  BY DEF Cache!TableLookup
<1>3. u = IF i > Len(chain) THEN t
          ELSE [t EXCEPT !.list[b] = Cache!RemoveAt(@, i), !.elems = @ - 1]
  BY DEF Cache!TableRemove
<1>4. /\ t \in Tables /\ t.list \in [0 .. t.length - 1 -> Seq(Nat)] /\ t.elems = Cardinality(C)
      /\ \A a \in 0 .. t.length - 1 : Lists(t.list[a], InBucket(t, e, C, a))
      /\ \A f, g \in C : e[f].key = e[g].key => f = g
  BY DEF Finds, Hashed
<1>5. IsFiniteSet(C) /\ Cardinality(C) \in Nat /\ C \subseteq Nat \ {0}
  BY EntriesAreFinite
<1> HIDE DEF b, chain, i, h, u
<1>6. CASE i > Len(chain)
  <2>1. h = 0 /\ u = t
    BY <1>2, <1>3, <1>6
  <2>2. C \ {h} = C
    BY <1>5, <2>1
  <2> QED BY <2>1, <2>2 DEF u, h
<1>7. CASE ~(i > Len(chain))
  <2>1. i \in 1 .. Len(chain) /\ h = chain[i] /\ h \in C /\ e[h].key = key
    BY <1>1, <1>2, <1>7
  <2> DEFINE left == Cache!RemoveAt(chain, i)
  <2>2. u = [t EXCEPT !.list = [t.list EXCEPT ![b] = left], !.elems = t.elems - 1]
    BY <1>3, <1>4, <1>7 DEF chain
  <2>3. Lists(left, InBucket(t, e, C, b) \ {h})
    BY <1>1, <2>1, ListsWithout
  <2>4. InBucket(t, e, C, b) \subseteq Nat
    BY <1>5 DEF InBucket
  <2>5. left \in Seq(Nat)
    BY <2>3, <2>4 DEF Lists
  <2> HIDE DEF left
  <2>6. Cardinality(C \ {h}) = Cardinality(C) - 1 /\ Cardinality(C) # 0
    BY <1>5, <2>1, FS_RemoveElement, FS_EmptySet
  <2>7. t.elems - 1 \in Nat
    BY <1>4, <1>5, <2>6
  <2>8. [t.list EXCEPT ![b] = left] \in [0 .. t.length - 1 -> Seq(Nat)]
    BY <1>4, <2>5
  <2>9. t.length \in Nat /\ [0 .. t.length - 1 -> Seq(Nat)] \subseteq BucketLists
    BY <1>4 DEF Tables, BucketLists
  <2>10. /\ u \in Tables /\ u.length = t.length /\ u.elems = t.elems - 1
         /\ u.list = [t.list EXCEPT ![b] = left]
    BY <1>4, <2>2, <2>7, <2>8, <2>9 DEF Tables
  <2>11. \A a : InBucket(u, e, C \ {h}, a) = InBucket(t, e, C, a) \ {h}
    BY <2>10 DEF InBucket, Cache!Bucket
  <2>12. ASSUME NEW a \in 0 .. u.length - 1 PROVE Lists(u.list[a], InBucket(u, e, C \ {h}, a))
    <3>1. CASE a = b
      BY <1>1, <1>4, <2>3, <2>10, <2>11, <3>1
    <3>2. CASE a # b
      <4>1. u.list[a] = t.list[a]
        BY <1>4, <2>10, <3>2
      <4>2. h \notin InBucket(t, e, C, a)
        BY <2>1, <3>2 DEF InBucket, b
      <4>3. InBucket(t, e, C, a) \ {h} = InBucket(t, e, C, a)
        BY <4>2
      <4> QED BY <1>4, <2>10, <2>11, <4>1, <4>3
    <3> QED BY <3>1, <3>2
  <2>13. Hashed(u, e, C \ {h})
    BY <2>8, <2>10, <2>12 DEF Hashed
  <2>14. Finds(u, e, C \ {h})
    BY <1>4, <2>6, <2>10, <2>13 DEF Finds
  <2> QED BY <2>14 DEF u, h
<1> QED BY <1>6, <1>7

\* The table is doubled until it has room, and never empty.
LEMMA NewLengthIsPositive ==
  ASSUME NEW t, t \in Tables
  PROVE  Cache!NewLength(t) \in Nat \ {0}
<1> DEFINE n == t.elems
           T == Nat \ {0}
           G == [i \in 1 .. n |-> [x \in T |-> IF x < n THEN 2 * x ELSE x]]
           Is(f) == f = [i \in 0 .. n |-> IF i = 0 THEN InitialLength
                                          ELSE IF f[i - 1] < n THEN 2 * f[i - 1] ELSE f[i - 1]]
           length == CHOOSE f : Is(f)
<1>1. n \in Nat /\ InitialLength \in T
  BY CacheParameters DEF Tables
<1>2. \E f : Is(f)
  <2>1. G \in [1 .. n -> [T -> T]]
    BY <1>1
  <2>2. \A i \in 1 .. n : \A x \in T : G[i][x] = IF x < n THEN 2 * x ELSE x
    OBVIOUS
  <2>3. Recursions(n, T, InitialLength, G) # {}
    <3> HIDE DEF n, T, G
    <3> QED BY <1>1, <2>1, RecursionExists
  <2>4. PICK f : f \in Recursions(n, T, InitialLength, G)
    BY ONLY <2>3
  <2> HIDE DEF G, T
  <2>5. f \in [0 .. n -> T] /\ f[0] = InitialLength /\ \A i \in 1 .. n : f[i] = G[i][f[i - 1]]
    BY <2>4 DEF Recursions
  <2>6. ASSUME NEW i \in 0 .. n
        PROVE  f[i] = IF i = 0 THEN InitialLength ELSE IF f[i - 1] < n THEN 2 * f[i - 1] ELSE f[i - 1]
    <3>1. CASE i # 0
      <4>1. i \in 1 .. n /\ i - 1 \in 0 .. n
        BY <1>1, <3>1
      <4>2. f[i] = G[i][f[i - 1]] /\ f[i - 1] \in T
        BY <2>5, <4>1
      <4> QED BY <2>2, <3>1, <4>1, <4>2
    <3> QED BY <2>5, <3>1
  <2>7. Is(f)
    BY <2>5, <2>6
  <2> QED BY <2>7
<1>3. Is(length)
  BY <1>2
<1>4. Cache!NewLength(t) = length[n]
  BY DEF Cache!NewLength
<1> HIDE DEF length
<1> DEFINE I == {i \in 0 .. n : length[i] \in T}
<1>5. 0 \in I
  BY <1>1, <1>3
<1>6. ASSUME NEW i \in 1 .. n, i - 1 \in I PROVE i \in I
  <2>1. i \in 0 .. n /\ i # 0 /\ length[i - 1] \in T
    BY <1>1, <1>6
  <2> HIDE DEF n
  <2>2. length[i] = IF length[i - 1] < n THEN 2 * length[i - 1] ELSE length[i - 1]
    BY <1>3, <2>1
  <2> QED BY <2>1, <2>2
<1>7. \A i \in 0 .. n : i \in I
  <2> HIDE DEF I, n
  <2> QED BY <1>1, <1>5, <1>6, AllIndices
<1>8. length[n] \in T
  BY <1>1, <1>7
<1> QED BY <1>4, <1>8

ShapedTables == {t \in Tables : t.list \in [0 .. t.length - 1 -> Seq(Nat)]}

\* Resize moves an entry to the front of the chain it belongs to now.
LEMMA MovedEntry ==
  ASSUME NEW u, u \in ShapedTables, NEW e, e \in Seq(EntryRecord), NEW h \in DOMAIN e
  PROVE  LET v == Cache!MoveEntry(u, e, h)
         IN /\ v \in ShapedTables /\ v.length = u.length /\ v.elems = u.elems
            /\ \A C : Hashed(u, e, C) /\ h \notin C => Hashed(v, e, C \cup {h})
<1> DEFINE v == Cache!MoveEntry(u, e, h)
           b == Cache!Bucket(u, e[h].key)
           front == <<h>> \o u.list[b]
<1>1. e[h].key \in Nat /\ h \in Nat
  <2>1. e[h] \in EntryRecord /\ DOMAIN e \subseteq Nat
    OBVIOUS
  <2> QED BY <2>1 DEF EntryRecord
<1>2. u \in Tables /\ u.list \in [0 .. u.length - 1 -> Seq(Nat)] /\ u.length \in Nat \ {0}
  BY DEF ShapedTables, Tables
<1>3. b \in 0 .. u.length - 1
  BY <1>1, <1>2, BucketExists
<1>4. u.list[b] \in Seq(Nat) /\ <<h>> \in Seq(Nat)
  BY <1>1, <1>2, <1>3
<1>5. front \in Seq(Nat)
  BY <1>4
<1>6. v = [u EXCEPT !.list = [u.list EXCEPT ![b] = front]]
  BY DEF Cache!MoveEntry
<1> HIDE DEF v, b, front
<1>7. [u.list EXCEPT ![b] = front] \in [0 .. u.length - 1 -> Seq(Nat)]
  BY <1>2, <1>5
<1>8. [0 .. u.length - 1 -> Seq(Nat)] \subseteq BucketLists
  BY <1>2 DEF BucketLists
<1>9. /\ v \in Tables /\ v.length = u.length /\ v.elems = u.elems
      /\ v.list = [u.list EXCEPT ![b] = front]
  BY <1>2, <1>6, <1>7, <1>8 DEF Tables
<1>10. v \in ShapedTables
  BY <1>7, <1>9 DEF ShapedTables
<1>11. ASSUME NEW C, Hashed(u, e, C), h \notin C PROVE Hashed(v, e, C \cup {h})
  <2>1. \A a : InBucket(v, e, C \cup {h}, a) = InBucket(u, e, C, a) \cup IF a = b THEN {h} ELSE {}
    BY <1>9 DEF InBucket, Cache!Bucket, b
  <2>2. ASSUME NEW a \in 0 .. v.length - 1 PROVE Lists(v.list[a], InBucket(v, e, C \cup {h}, a))
    <3>1. Lists(u.list[a], InBucket(u, e, C, a)) /\ h \notin InBucket(u, e, C, a)
      BY <1>9, <1>11 DEF Hashed, InBucket
    <3>2. CASE a = b
      <4>1. v.list[a] = front /\ InBucket(v, e, C \cup {h}, a) = InBucket(u, e, C, a) \cup {h}
        BY <1>2, <1>3, <1>9, <2>1, <3>2
      <4>2. Lists(<<h>> \o u.list[a], InBucket(u, e, C, a) \cup {h})
        BY <3>1, ListsInFront
      <4> QED BY <3>2, <4>1, <4>2 DEF front
    <3>3. CASE a # b
      <4>1. v.list[a] = u.list[a] /\ InBucket(v, e, C \cup {h}, a) = InBucket(u, e, C, a)
        BY <1>2, <1>9, <2>1, <3>3
      <4> QED BY <3>1, <4>1
    <3> QED BY <3>2, <3>3
  <2> QED BY <1>7, <1>9, <2>2 DEF Hashed
<1> QED BY <1>9, <1>10, <1>11 DEF v

FirstOf(chain, j) == {chain[k] : k \in 1 .. j}

\* Resize moves every entry of a chain.
LEMMA MovedChain ==
  ASSUME NEW u, u \in ShapedTables, NEW e, e \in Seq(EntryRecord),
         NEW D, D \subseteq DOMAIN e, NEW chain, Lists(chain, D)
  PROVE  LET v == Cache!MoveChain(u, e, chain)
         IN /\ v \in ShapedTables /\ v.length = u.length /\ v.elems = u.elems
            /\ \A C : Hashed(u, e, C) /\ C \cap D = {} => Hashed(v, e, C \cup D)
<1> DEFINE n == Len(chain)
           v == Cache!MoveChain(u, e, chain)
           G == [j \in 1 .. n |-> [w \in ShapedTables |-> Cache!MoveEntry(w, e, chain[j])]]
           Is(f) == f = [j \in 0 .. n |-> IF j = 0 THEN u ELSE Cache!MoveEntry(f[j - 1], e, chain[j])]
           moved == CHOOSE f : Is(f)
<1>1. n \in Nat /\ \A j \in 1 .. n : chain[j] \in D /\ chain[j] \in DOMAIN e
  <2>1. chain \in Seq(D)
    BY DEF Lists
  <2> QED BY <2>1
<1>2. \E f : Is(f)
  <2>1. \A j \in 1 .. n : \A w \in ShapedTables : Cache!MoveEntry(w, e, chain[j]) \in ShapedTables
    BY <1>1, MovedEntry
  <2>2. G \in [1 .. n -> [ShapedTables -> ShapedTables]]
    BY <2>1
  <2>3. \A j \in 1 .. n : \A w \in ShapedTables : G[j][w] = Cache!MoveEntry(w, e, chain[j])
    OBVIOUS
  <2>4. Recursions(n, ShapedTables, u, G) # {}
    <3> HIDE DEF n, G
    <3> QED BY <1>1, <2>2, RecursionExists
  <2>5. PICK f : f \in Recursions(n, ShapedTables, u, G)
    BY ONLY <2>4
  <2> HIDE DEF G
  <2>6. f \in [0 .. n -> ShapedTables] /\ f[0] = u /\ \A j \in 1 .. n : f[j] = G[j][f[j - 1]]
    BY <2>5 DEF Recursions
  <2>7. ASSUME NEW j \in 0 .. n
        PROVE  f[j] = IF j = 0 THEN u ELSE Cache!MoveEntry(f[j - 1], e, chain[j])
    <3>1. CASE j # 0
      <4>1. j \in 1 .. n /\ j - 1 \in 0 .. n
        BY <1>1, <3>1
      <4>2. f[j] = G[j][f[j - 1]] /\ f[j - 1] \in ShapedTables
        BY <2>6, <4>1
      <4> QED BY <2>3, <3>1, <4>1, <4>2
    <3> QED BY <2>6, <3>1
  <2>8. Is(f)
    BY <2>6, <2>7
  <2> QED BY <2>8
<1>3. Is(moved)
  BY <1>2
<1>4. v = moved[n]
  BY DEF Cache!MoveChain
<1> HIDE DEF moved, v
<1> DEFINE OK(j) == /\ moved[j] \in ShapedTables
                    /\ moved[j].length = u.length /\ moved[j].elems = u.elems
                    /\ \A C : Hashed(u, e, C) /\ C \cap D = {} => Hashed(moved[j], e, C \cup FirstOf(chain, j))
           I == {j \in 0 .. n : OK(j)}
<1>5. 0 \in I
  <2>1. moved[0] = u
    BY <1>1, <1>3
  <2>2. \A C : C \cup FirstOf(chain, 0) = C
    BY DEF FirstOf
  <2>3. OK(0)
    BY <2>1, <2>2
  <2> QED BY <1>1, <2>3
<1>6. ASSUME NEW j \in 1 .. n, j - 1 \in I PROVE j \in I
  <2>1. j \in 0 .. n /\ j # 0 /\ j - 1 \in 0 .. n /\ OK(j - 1) /\ j \in Nat
    <3> HIDE DEF OK, n
    <3> QED BY <1>1, <1>6
  <2> DEFINE w == moved[j - 1]
             h == chain[j]
  <2>2. moved[j] = Cache!MoveEntry(w, e, h)
    <3> HIDE DEF n
    <3> QED BY <1>3, <2>1
  <2>3. h \in DOMAIN e /\ h \in D
    BY <1>1
  <2>4. ASSUME NEW C, Hashed(u, e, C), C \cap D = {}
        PROVE  /\ Hashed(w, e, C \cup FirstOf(chain, j - 1)) /\ h \notin C \cup FirstOf(chain, j - 1)
               /\ (C \cup FirstOf(chain, j - 1)) \cup {h} = C \cup FirstOf(chain, j)
    <3>1. Hashed(w, e, C \cup FirstOf(chain, j - 1))
      BY <2>1, <2>4
    <3>2. h \notin C
      BY <2>3, <2>4
    <3>3. h \notin FirstOf(chain, j - 1)
      <4> SUFFICES ASSUME NEW k \in 1 .. j - 1, chain[k] = h PROVE FALSE
        BY DEF FirstOf
      <4>1. k \in 1 .. n /\ j \in 1 .. n /\ k # j
        BY <1>1, <2>1
      <4> QED BY <4>1 DEF Lists
    <3>4. 1 .. j = (1 .. j - 1) \cup {j}
      BY <2>1
    <3>5. FirstOf(chain, j) = FirstOf(chain, j - 1) \cup {h}
      BY <3>4 DEF FirstOf
    <3> QED BY <3>1, <3>2, <3>3, <3>5
  <2>5. w \in ShapedTables /\ w.length = u.length /\ w.elems = u.elems
    BY <2>1
  <2> HIDE DEF w, h
  <2>6. /\ moved[j] \in ShapedTables /\ moved[j].length = w.length /\ moved[j].elems = w.elems
        /\ \A C : Hashed(w, e, C) /\ h \notin C => Hashed(moved[j], e, C \cup {h})
    BY <2>2, <2>3, <2>5, MovedEntry
  <2>7. ASSUME NEW C, Hashed(u, e, C), C \cap D = {} PROVE Hashed(moved[j], e, C \cup FirstOf(chain, j))
    BY <2>4, <2>6, <2>7
  <2>8. OK(j)
    BY <2>5, <2>6, <2>7
  <2> QED BY <2>1, <2>8
<1>7. \A j \in 0 .. n : j \in I
  <2> HIDE DEF I, n
  <2> QED BY <1>1, <1>5, <1>6, AllIndices
<1>8. OK(n)
  <2> HIDE DEF OK, n
  <2> QED BY <1>1, <1>7
<1>9. FirstOf(chain, n) = D
  <2>1. \A h \in D : \E j \in 1 .. n : chain[j] = h
    BY DEF Lists
  <2> HIDE DEF n
  <2> QED BY <1>1, <2>1 DEF FirstOf
<1> QED BY <1>4, <1>8, <1>9 DEF v

\* Resize keeps every entry, in the chain of its new bucket.
LEMMA ResizeKeeps ==
  ASSUME NEW t, NEW e, NEW C, Entries(e, C), Hashed(t, e, C)
  PROVE  Hashed(Cache!Resize(t, e), e, C) /\ Cache!Resize(t, e).elems = t.elems
<1> DEFINE n == t.length
           v == Cache!Resize(t, e)
           new == [Cache!EmptyTable(Cache!NewLength(t)) EXCEPT !.elems = t.elems]
           G == [b \in 1 .. n |-> [w \in ShapedTables |-> Cache!MoveChain(w, e, t.list[b - 1])]]
           Is(f) == f = [b \in 0 .. n |-> IF b = 0 THEN new ELSE Cache!MoveChain(f[b - 1], e, t.list[b - 1])]
           moved == CHOOSE f : Is(f)
           Below(b) == {h \in C : Cache!Bucket(t, e[h].key) < b}
<1>1. n \in Nat /\ e \in Seq(EntryRecord)
  BY DEF Hashed, Tables, Entries
<1>2. \A b \in 1 .. n : /\ b - 1 \in 0 .. n - 1 /\ b - 1 \in 0 .. n
                        /\ Lists(t.list[b - 1], InBucket(t, e, C, b - 1))
                        /\ InBucket(t, e, C, b - 1) \subseteq DOMAIN e
  <2>1. \A b \in 0 .. n - 1 : Lists(t.list[b], InBucket(t, e, C, b))
    BY DEF Hashed
  <2>2. \A b : InBucket(t, e, C, b) \subseteq DOMAIN e
    BY DEF Entries, InBucket
  <2> HIDE DEF n
  <2>3. \A b \in 1 .. n : b - 1 \in 0 .. n - 1 /\ b - 1 \in 0 .. n
    BY <1>1
  <2> QED BY <2>1, <2>2, <2>3
<1>3. new \in ShapedTables /\ Hashed(new, e, {}) /\ new.elems = t.elems
  <2> DEFINE m == Cache!NewLength(t)
             lists == [b \in 0 .. m - 1 |-> <<>>]
  <2>1. m \in Nat \ {0} /\ t.elems \in Nat
    BY NewLengthIsPositive DEF Hashed, Tables
  <2>2. new = [length |-> m, elems |-> t.elems, list |-> lists]
    <3>1. Cache!EmptyTable(m) = [length |-> m, elems |-> 0, list |-> lists]
      BY DEF Cache!EmptyTable
    <3>2. new = [Cache!EmptyTable(m) EXCEPT !.elems = t.elems]
      OBVIOUS
    <3> HIDE DEF m, new, lists
    <3> QED BY <3>1, <3>2
  <2> HIDE DEF m, new
  <2>3. lists \in [0 .. m - 1 -> Seq(Nat)]
    OBVIOUS
  <2>4. lists \in BucketLists
    BY <2>1, <2>3 DEF BucketLists
  <2>5. \A b \in 0 .. m - 1 : lists[b] = <<>>
    OBVIOUS
  <2> HIDE DEF lists
  <2>6. new \in Tables /\ new.length = m /\ new.elems = t.elems /\ new.list = lists
    BY <2>1, <2>2, <2>4 DEF Tables
  <2>7. \A b : InBucket(new, e, {}, b) = {}
    BY DEF InBucket
  <2>8. \A b \in 0 .. m - 1 : Lists(lists[b], InBucket(new, e, {}, b))
    BY <2>5, <2>7, ListsNothing
  <2> QED BY <2>3, <2>6, <2>8 DEF ShapedTables, Hashed
<1> HIDE DEF new
<1>4. \E f : Is(f)
  <2>1. \A b \in 1 .. n : \A w \in ShapedTables : Cache!MoveChain(w, e, t.list[b - 1]) \in ShapedTables
    BY <1>1, <1>2, MovedChain
  <2>2. G \in [1 .. n -> [ShapedTables -> ShapedTables]]
    BY <2>1
  <2>3. \A b \in 1 .. n : \A w \in ShapedTables : G[b][w] = Cache!MoveChain(w, e, t.list[b - 1])
    OBVIOUS
  <2>4. Recursions(n, ShapedTables, new, G) # {}
    <3> HIDE DEF n, G
    <3> QED BY <1>1, <1>3, <2>2, RecursionExists
  <2>5. PICK f : f \in Recursions(n, ShapedTables, new, G)
    BY ONLY <2>4
  <2> HIDE DEF G
  <2>6. f \in [0 .. n -> ShapedTables] /\ f[0] = new /\ \A b \in 1 .. n : f[b] = G[b][f[b - 1]]
    BY <2>5 DEF Recursions
  <2>7. ASSUME NEW b \in 0 .. n
        PROVE  f[b] = IF b = 0 THEN new ELSE Cache!MoveChain(f[b - 1], e, t.list[b - 1])
    <3>1. CASE b # 0
      <4>1. b \in 1 .. n /\ b - 1 \in 0 .. n
        BY <1>1, <3>1
      <4>2. f[b] = G[b][f[b - 1]] /\ f[b - 1] \in ShapedTables
        BY <2>6, <4>1
      <4> QED BY <2>3, <3>1, <4>1, <4>2
    <3> QED BY <2>6, <3>1
  <2>8. Is(f)
    BY <2>6, <2>7
  <2> QED BY <2>8
<1>5. Is(moved)
  BY <1>4
<1>6. v = moved[n]
  BY DEF Cache!Resize, new
<1> HIDE DEF moved, v
<1> DEFINE OK(b) == /\ moved[b] \in ShapedTables /\ moved[b].elems = t.elems
                    /\ Hashed(moved[b], e, Below(b))
           I == {b \in 0 .. n : OK(b)}
<1>7. 0 \in I
  <2>1. moved[0] = new /\ 0 \in 0 .. n
    BY <1>1, <1>5
  <2>2. \A h \in C : Cache!Bucket(t, e[h].key) \in 0 .. n - 1
    BY EntriesAreFinite, BucketExists DEF Hashed
  <2>3. Below(0) = {}
    BY <1>1, <2>2
  <2> QED BY <1>3, <2>1, <2>3
<1>8. ASSUME NEW b \in 1 .. n, b - 1 \in I PROVE b \in I
  <2>1. b \in 0 .. n /\ b # 0 /\ b - 1 \in 0 .. n /\ OK(b - 1) /\ b \in Nat
    <3> HIDE DEF OK, n
    <3> QED BY <1>1, <1>8
  <2> DEFINE w == moved[b - 1]
             D == InBucket(t, e, C, b - 1)
             chain == t.list[b - 1]
  <2>2. moved[b] = Cache!MoveChain(w, e, chain)
    <3> HIDE DEF n
    <3> QED BY <1>5, <2>1
  <2>3. Lists(chain, D) /\ D \subseteq DOMAIN e
    BY <1>2
  <2>4. \A h \in C : Cache!Bucket(t, e[h].key) \in Nat
    <3>1. \A h \in C : Cache!Bucket(t, e[h].key) \in 0 .. n - 1
      BY EntriesAreFinite, BucketExists DEF Hashed
    <3> QED BY <1>1, <3>1
  <2>5. Below(b - 1) \cap D = {} /\ Below(b - 1) \cup D = Below(b)
    BY <2>1, <2>4 DEF InBucket
  <2>6. w \in ShapedTables /\ w.elems = t.elems /\ Hashed(w, e, Below(b - 1))
    BY <2>1
  <2> HIDE DEF w, D, chain, Below
  <2>7. /\ moved[b] \in ShapedTables /\ moved[b].elems = w.elems
        /\ \A B : Hashed(w, e, B) /\ B \cap D = {} => Hashed(moved[b], e, B \cup D)
    <3> DEFINE x == Cache!MoveChain(w, e, chain)
    <3>0. w \in ShapedTables /\ e \in Seq(EntryRecord) /\ D \subseteq DOMAIN e /\ Lists(chain, D)
      BY <1>1, <2>3, <2>6
    <3>1. /\ x \in ShapedTables /\ x.elems = w.elems
          /\ \A B : Hashed(w, e, B) /\ B \cap D = {} => Hashed(x, e, B \cup D)
      BY ONLY <3>0, MovedChain
    <3> HIDE DEF x
    <3>2. moved[b] = x
      BY <2>2 DEF x
    <3> QED BY <3>1, <3>2
  <2>8. Hashed(moved[b], e, Below(b))
    BY <2>5, <2>6, <2>7
  <2>9. OK(b)
    BY <2>6, <2>7, <2>8
  <2> QED BY <2>1, <2>9
<1>9. \A b \in 0 .. n : b \in I
  <2> HIDE DEF I, n
  <2> QED BY <1>1, <1>7, <1>8, AllIndices
<1>10. OK(n)
  <2> HIDE DEF OK, n
  <2> QED BY <1>1, <1>9
<1>11. Below(n) = C
  <2>1. \A h \in C : Cache!Bucket(t, e[h].key) \in 0 .. n - 1
    BY EntriesAreFinite, BucketExists DEF Hashed
  <2> QED BY <1>1, <2>1
<1> HIDE DEF Below
<1> QED BY <1>6, <1>10, <1>11 DEF v

\* Insert puts the new entry in the place of the one with its key, if any.
LEMMA InsertPutsIn ==
  ASSUME NEW t, NEW e, NEW C, NEW h, Entries(e, C \cup {h}), Finds(t, e, C), h \notin C
  PROVE  LET old == Cache!TableLookup(t, e, e[h].key)
         IN Finds(Cache!TableInsert(t, e, h), e, (C \ {old}) \cup {h})
<1> DEFINE key == e[h].key
           b == Cache!Bucket(t, key)
           chain == t.list[b]
           i == Cache!FindPointer(t, e, key)
           old == Cache!TableLookup(t, e, key)
           u == Cache!TableInsert(t, e, h)
           new == i > Len(chain)
           links == IF new THEN Append(chain, h) ELSE [chain EXCEPT ![i] = h]
           changed == [t EXCEPT !.list = [t.list EXCEPT ![b] = links],
                                !.elems = IF new THEN t.elems + 1 ELSE t.elems]
           A == (C \ {old}) \cup {h}
<1>1. Entries(e, C) /\ key \in Nat /\ IsFiniteSet(C) /\ Cardinality(C) \in Nat /\ C \cup {h} \subseteq Nat \ {0}
  <2>1. Entries(e, C)
    BY DEF Entries
  <2> QED BY <2>1, EntriesAreFinite
<1> HIDE DEF key
<1>2. /\ b \in 0 .. t.length - 1 /\ chain \in Seq(Nat) /\ Lists(chain, InBucket(t, e, C, b))
      /\ i \in 1 .. Len(chain) + 1
      /\ i \in 1 .. Len(chain) => chain[i] \in C /\ e[chain[i]].key = key
      /\ i = Len(chain) + 1 => \A g \in C : e[g].key # key
  BY <1>1, PointerFound DEF Finds
<1>3. old = IF new THEN 0 ELSE chain[i]
  BY DEF Cache!TableLookup
<1>4. t \in Tables /\ t.list \in [0 .. t.length - 1 -> Seq(Nat)] /\ t.elems = Cardinality(C)
  BY DEF Finds, Hashed
<1>5. /\ \A a \in 0 .. t.length - 1 : Lists(t.list[a], InBucket(t, e, C, a))
      /\ \A f, g \in C : e[f].key = e[g].key => f = g
  BY DEF Finds, Hashed
<1>6. u = IF new /\ changed.elems > changed.length THEN Cache!Resize(changed, e) ELSE changed
  BY <1>4 DEF Cache!TableInsert, key
<1> HIDE DEF b, chain, i, u
<1>7. \/ new /\ old = 0 /\ A = C \cup {h} /\ \A g \in C : e[g].key # key
      \/ ~new /\ i \in 1 .. Len(chain) /\ old = chain[i] /\ old \in C /\ e[old].key = key
  <2>1. CASE new
    <3>1. i = Len(chain) + 1
      BY <1>2, <2>1
    <3> QED BY <1>1, <1>2, <1>3, <2>1, <3>1
  <2>2. CASE ~new
    <3>1. i \in 1 .. Len(chain)
      BY <1>2, <2>2
    <3> QED BY <1>2, <1>3, <2>2, <3>1
  <2> QED BY <2>1, <2>2
<1>8. Lists(links, (InBucket(t, e, C, b) \ {old}) \cup {h})
  <2>1. h \notin InBucket(t, e, C, b)
    BY DEF InBucket
  <2>2. CASE new
    <3>1. links = Append(chain, h) /\ InBucket(t, e, C, b) \ {old} = InBucket(t, e, C, b)
      BY <1>1, <1>7, <2>2 DEF InBucket
    <3>2. Lists(Append(chain, h), InBucket(t, e, C, b) \cup {h})
      BY <1>2, <2>1, ListsAppended
    <3> HIDE DEF links
    <3> QED BY <3>1, <3>2
  <2>3. CASE ~new
    <3>1. links = [chain EXCEPT ![i] = h] /\ i \in 1 .. Len(chain) /\ old = chain[i]
      BY <1>7, <2>3
    <3>2. Lists([chain EXCEPT ![i] = h], (InBucket(t, e, C, b) \ {chain[i]}) \cup {h})
      BY <1>2, <2>1, <3>1, ListsReplaced
    <3> HIDE DEF links
    <3> QED BY <3>1, <3>2
  <2> QED BY <2>2, <2>3
<1>9. links \in Seq(Nat)
  <2>1. (InBucket(t, e, C, b) \ {old}) \cup {h} \subseteq Nat
    BY <1>1 DEF InBucket
  <2>2. links \in Seq((InBucket(t, e, C, b) \ {old}) \cup {h})
    BY <1>8 DEF Lists
  <2> HIDE DEF links
  <2> QED BY <2>1, <2>2
<1>10. (IF new THEN t.elems + 1 ELSE t.elems) = Cardinality(A) /\ Cardinality(A) \in Nat
  <2>1. CASE new
    <3>1. A = C \cup {h}
      BY <1>7, <2>1
    <3>2. Cardinality(C \cup {h}) = Cardinality(C) + 1
      BY <1>1, FS_AddElement
    <3> HIDE DEF A, new
    <3> QED BY <1>1, <1>4, <2>1, <3>1, <3>2
  <2>2. CASE ~new
    <3>1. old \in C /\ IsFiniteSet(C \ {old}) /\ Cardinality(C \ {old}) = Cardinality(C) - 1
      BY <1>1, <1>7, <2>2, FS_RemoveElement
    <3>2. h \notin C \ {old}
      OBVIOUS
    <3>3. Cardinality((C \ {old}) \cup {h}) = Cardinality(C \ {old}) + 1
      BY <3>1, <3>2, FS_AddElement
    <3> QED BY <1>1, <1>4, <2>2, <3>1, <3>3
  <2> QED BY <2>1, <2>2
<1> DEFINE count == IF new THEN t.elems + 1 ELSE t.elems
<1> HIDE DEF links, new
<1>11. [t.list EXCEPT ![b] = links] \in [0 .. t.length - 1 -> Seq(Nat)]
  BY <1>4, <1>9
<1>12. t.length \in Nat /\ [0 .. t.length - 1 -> Seq(Nat)] \subseteq BucketLists
  BY <1>4 DEF Tables, BucketLists
<1>13. count \in Nat /\ count = Cardinality(A)
  BY <1>10
<1> HIDE DEF count, A
<1>14. /\ changed \in Tables /\ changed.length = t.length /\ changed.elems = count
       /\ changed.list = [t.list EXCEPT ![b] = links]
  BY <1>4, <1>11, <1>12, <1>13 DEF Tables, count
<1> HIDE DEF changed
<1>15. Hashed(changed, e, A)
  <2>1. \A a : InBucket(changed, e, A, a) = (InBucket(t, e, C, a) \ {old}) \cup IF a = b THEN {h} ELSE {}
    BY <1>14 DEF InBucket, Cache!Bucket, A, b, key
  <2>2. ASSUME NEW a \in 0 .. changed.length - 1 PROVE Lists(changed.list[a], InBucket(changed, e, A, a))
    <3>1. CASE a = b
      BY <1>4, <1>8, <1>14, <2>1, <3>1
    <3>2. CASE a # b
      <4>1. changed.list[a] = t.list[a]
        BY <1>4, <1>14, <3>2
      <4>2. old \notin InBucket(t, e, C, a)
        BY <1>1, <1>7, <3>2 DEF InBucket, b, key
      <4>3. InBucket(changed, e, A, a) = InBucket(t, e, C, a)
        BY <2>1, <3>2, <4>2
      <4> QED BY <1>5, <1>14, <4>1, <4>3
    <3> QED BY <3>1, <3>2
  <2> QED BY <1>11, <1>14, <2>2 DEF Hashed
<1>16. Entries(e, A)
  BY DEF Entries, A
<1>17. Hashed(u, e, A) /\ u.elems = Cardinality(A)
  BY <1>6, <1>13, <1>14, <1>15, <1>16, ResizeKeeps
<1>18. \A f, g \in A : e[f].key = e[g].key => f = g
  <2>1. \A g \in C \ {old} : e[g].key # key
    BY <1>5, <1>7
  <2> QED BY <1>5, <2>1 DEF A, key
<1>19. Finds(u, e, A)
  BY <1>17, <1>18 DEF Finds
<1> QED BY <1>19 DEF u, A, old, key

-----------------------------------------------------------------------------
(* LRUCache: references, lists and usage                                   *)

ShardStates == [usage : Int, lru : Seq(Nat), in_use : Seq(Nat), table : Tables]
Work == [s : ShardStates, e : Seq(EntryRecord), d : Seq(Nat)]

InCache(e, i) == {h \in DOMAIN e : e[h].in_cache /\ Cache!Shard(e[h].key) = i}
ChargesOf(e, i) == [h \in DOMAIN e |-> IF h \in InCache(e, i) THEN e[h].charge ELSE 0]
Unreferenced(e) == {h \in DOMAIN e : e[h].refs = 0}
Holders(e, H, h) == H[h] + (IF e[h].in_cache THEN 1 ELSE 0)

\* While a method works on S in shard i, with the handles H held by clients and
\* the entries in F freed before: the counts are right, and the lists too.
Counted(S, i, H, F) ==
  /\ S \in Work /\ H \in [DOMAIN S.e -> Nat]
  /\ \A h \in DOMAIN S.e : S.e[h].refs = Holders(S.e, H, h)
  /\ F \subseteq Unreferenced(S.e) /\ Lists(S.d, Unreferenced(S.e) \ F)
  /\ S.s.usage = Cache!Total(ChargesOf(S.e, i))
  /\ Lists(S.s.lru, {h \in InCache(S.e, i) : H[h] = 0})
  /\ Lists(S.s.in_use, {h \in InCache(S.e, i) : H[h] > 0})

\* What a method in shard i leaves of the entries e0: all of other shards, and
\* the keys and charges of its own.
Kept(e0, e, i) ==
  /\ DOMAIN e0 \subseteq DOMAIN e
  /\ \A h \in DOMAIN e0 : /\ e[h].key = e0[h].key /\ e[h].charge = e0[h].charge
                          /\ Cache!Shard(e0[h].key) # i => e[h] = e0[h]
  /\ \A h \in DOMAIN e \ DOMAIN e0 : Cache!Shard(e[h].key) = i

\* What two steps of a method leave, both leave.
LEMMA KeptTwice ==
  ASSUME NEW e, NEW f, NEW g, NEW i, Kept(e, f, i), Kept(f, g, i)
  PROVE  Kept(e, g, i)
<1>1. DOMAIN e \subseteq DOMAIN g
  BY DEF Kept
<1>2. ASSUME NEW h \in DOMAIN e
      PROVE  /\ g[h].key = e[h].key /\ g[h].charge = e[h].charge
             /\ Cache!Shard(e[h].key) # i => g[h] = e[h]
  BY DEF Kept
<1>3. ASSUME NEW h \in DOMAIN g \ DOMAIN e PROVE Cache!Shard(g[h].key) = i
  BY DEF Kept
<1> QED BY <1>1, <1>2, <1>3 DEF Kept

\* The fields of an entry.
LEMMA EntryTypes ==
  ASSUME NEW e \in Seq(EntryRecord), NEW h \in DOMAIN e
  PROVE  /\ h \in Nat \ {0} /\ e[h] \in EntryRecord
         /\ e[h].key \in Nat /\ e[h].charge \in Nat /\ e[h].in_cache \in BOOLEAN /\ e[h].refs \in Nat
         /\ e[h] = [key |-> e[h].key, charge |-> e[h].charge, in_cache |-> e[h].in_cache, refs |-> e[h].refs]
<1>1. e[h] \in EntryRecord /\ h \in Nat \ {0}
  OBVIOUS
<1> QED BY <1>1 DEF EntryRecord

\* Counting a reference to h changes nothing else.
OnlyRefs(e, f, h, r) ==
  /\ f \in Seq(EntryRecord) /\ DOMAIN f = DOMAIN e
  /\ f[h].refs = r /\ \A g \in DOMAIN e : g # h => f[g] = e[g]
  /\ \A g \in DOMAIN e : /\ f[g].key = e[g].key /\ f[g].charge = e[g].charge
                         /\ f[g].in_cache = e[g].in_cache
  /\ \A i : InCache(f, i) = InCache(e, i) /\ ChargesOf(f, i) = ChargesOf(e, i)
  /\ Kept(e, f, Cache!Shard(e[h].key))

\* e->refs++ and e->refs--.
LEMMA RefsChanged ==
  ASSUME NEW e \in Seq(EntryRecord), NEW h \in DOMAIN e, NEW r \in Nat
  PROVE  OnlyRefs(e, [e EXCEPT ![h].refs = r], h, r)
<1> DEFINE f == [e EXCEPT ![h].refs = r]
           c == [key |-> e[h].key, charge |-> e[h].charge, in_cache |-> e[h].in_cache, refs |-> r]
<1>1. f = [e EXCEPT ![h] = c]
  <2>1. f = [e EXCEPT ![h] = [e[h] EXCEPT !.refs = r]]
    OBVIOUS
  <2> DEFINE k == e[h]
  <2>2. k = [key |-> k.key, charge |-> k.charge, in_cache |-> k.in_cache, refs |-> k.refs]
    BY EntryTypes
  <2> HIDE DEF k
  <2>3. [k EXCEPT !.refs = r] = [key |-> k.key, charge |-> k.charge, in_cache |-> k.in_cache, refs |-> r]
    BY <2>2
  <2> QED BY <2>1, <2>3 DEF k
<1>2. c \in EntryRecord
  BY EntryTypes DEF EntryRecord
<1> HIDE DEF f
<1>3. c.key = e[h].key /\ c.charge = e[h].charge /\ c.in_cache = e[h].in_cache /\ c.refs = r
  OBVIOUS
<1> HIDE DEF c
<1>4. /\ f \in Seq(EntryRecord) /\ DOMAIN f = DOMAIN e
      /\ f[h] = c /\ \A g \in DOMAIN e : g # h => f[g] = e[g]
  BY <1>1, <1>2
<1>5. \A g \in DOMAIN e : /\ f[g].key = e[g].key /\ f[g].charge = e[g].charge
                          /\ f[g].in_cache = e[g].in_cache
  BY <1>3, <1>4
<1>6. ASSUME NEW i PROVE InCache(f, i) = InCache(e, i) /\ ChargesOf(f, i) = ChargesOf(e, i)
  <2>1. InCache(f, i) = InCache(e, i)
    BY <1>4, <1>5 DEF InCache
  <2> QED BY <1>4, <1>5, <2>1 DEF ChargesOf
<1>7. Kept(e, f, Cache!Shard(e[h].key))
  BY <1>4, <1>5 DEF Kept
<1> QED BY <1>3, <1>4, <1>5, <1>6, <1>7 DEF f, OnlyRefs

\* LRU_Remove and LRU_Append move an entry between the lists.
LEMMA ListsMoved ==
  ASSUME NEW q, NEW C, Lists(q, C), NEW h
  PROVE  Lists(Append(Cache!RemoveFirst(q, h), h), C \cup {h})
<1>1. Lists(Cache!RemoveFirst(q, h), C \ {h})
  BY ListsRemoved
<1>2. Lists(Append(Cache!RemoveFirst(q, h), h), (C \ {h}) \cup {h})
  BY <1>1, ListsAppended
<1>3. (C \ {h}) \cup {h} = C \cup {h}
  OBVIOUS
<1> QED BY <1>2, <1>3

\* The parts of what a method works on.
LEMMA WorkTypes ==
  ASSUME NEW S, S \in Work
  PROVE  /\ S = [s |-> S.s, e |-> S.e, d |-> S.d] /\ S.e \in Seq(EntryRecord) /\ S.d \in Seq(Nat)
         /\ S.s \in ShardStates
         /\ S.s = [usage |-> S.s.usage, lru |-> S.s.lru, in_use |-> S.s.in_use, table |-> S.s.table]
         /\ S.s.usage \in Int /\ S.s.lru \in Seq(Nat) /\ S.s.in_use \in Seq(Nat) /\ S.s.table \in Tables
         /\ \A h \in DOMAIN S.e : h \in Nat \ {0}
<1>1. S.e \in Seq(EntryRecord) /\ S.s \in ShardStates
  BY DEF Work
<1>2. \A h \in DOMAIN S.e : h \in Nat \ {0}
  BY <1>1
<1> QED BY <1>1, <1>2 DEF Work, ShardStates

\* What the lists and the table hold are entries.
LEMMA ListedEntries ==
  ASSUME NEW q, NEW C, Lists(q, C), C \subseteq Nat
  PROVE  q \in Seq(Nat)
<1>1. q \in Seq(C)
  BY DEF Lists
<1>2. \A j \in 1 .. Len(q) : q[j] \in Nat
  <2>1. \A j \in 1 .. Len(q) : q[j] \in C
    BY <1>1
  <2> QED BY <2>1
<1> QED BY <1>1, <1>2

Shape(u, lru, in_use, t, e, d) ==
  [s |-> [usage |-> u, lru |-> lru, in_use |-> in_use, table |-> t], e |-> e, d |-> d]

\* LRU_Remove touches both lists.
LEMMA RemovedFromLists ==
  ASSUME NEW u, NEW lru, NEW in_use, NEW t, NEW e, NEW d, NEW h
  PROVE  Cache!LRU_Remove(Shape(u, lru, in_use, t, e, d), h)
           = Shape(u, Cache!RemoveFirst(lru, h), Cache!RemoveFirst(in_use, h), t, e, d)
<1> DEFINE S == Shape(u, lru, in_use, t, e, d)
           x == Cache!RemoveFirst(lru, h)
           y == Cache!RemoveFirst(in_use, h)
           R == [S EXCEPT !.s.lru = x]
<1>1. S.s.lru = lru /\ S.s.in_use = in_use
  BY DEF Shape
<1>2. Cache!LRU_Remove(S, h) = [S EXCEPT !.s.lru = x, !.s.in_use = y]
  <2> HIDE DEF S
  <2> QED BY <1>1 DEF Cache!LRU_Remove
<1> HIDE DEF x, y
<1>3. R = Shape(u, x, in_use, t, e, d)
  BY DEF Shape
<1>4. [S EXCEPT !.s.lru = x, !.s.in_use = y] = [R EXCEPT !.s.in_use = y]
  OBVIOUS
<1> HIDE DEF R, S
<1>5. [R EXCEPT !.s.in_use = y] = Shape(u, x, y, t, e, d)
  BY <1>3 DEF Shape
<1> QED BY <1>2, <1>4, <1>5 DEF S, x, y

\* What LRU_Remove, Ref, Unref and the rest assign.
LEMMA Assignments ==
  ASSUME NEW S, S \in Work, NEW h
  PROVE  LET u == S.s.usage
             lru == S.s.lru
             in_use == S.s.in_use
             t == S.s.table
             e == S.e
             d == S.d
         IN /\ S = Shape(u, lru, in_use, t, e, d)
            /\ Cache!LRU_Remove(S, h)
                 = Shape(u, Cache!RemoveFirst(lru, h), Cache!RemoveFirst(in_use, h), t, e, d)
            /\ Cache!Ref(S, h)
                 = LET f == [e EXCEPT ![h].refs = e[h].refs + 1]
                   IN IF e[h].refs = 1 /\ e[h].in_cache
                      THEN Shape(u, Cache!RemoveFirst(lru, h), Append(Cache!RemoveFirst(in_use, h), h), t, f, d)
                      ELSE Shape(u, lru, in_use, t, f, d)
            /\ Cache!Unref(S, h)
                 = LET f == [e EXCEPT ![h].refs = e[h].refs - 1]
                   IN IF f[h].refs = 0 THEN Shape(u, lru, in_use, t, f, Append(d, h))
                      ELSE IF f[h].in_cache /\ f[h].refs = 1
                           THEN Shape(u, Append(Cache!RemoveFirst(lru, h), h), Cache!RemoveFirst(in_use, h), t, f, d)
                           ELSE Shape(u, lru, in_use, t, f, d)
<1> DEFINE u == S.s.usage
           lru == S.s.lru
           in_use == S.s.in_use
           t == S.s.table
           e == S.e
           d == S.d
           X == Shape(u, lru, in_use, t, e, d)
<1>1. S = X
  BY WorkTypes DEF Shape
<1> HIDE DEF u, lru, in_use, t, e, d
<1>2. X.s.lru = lru /\ X.s.in_use = in_use /\ X.e = e /\ X.d = d
  BY DEF Shape
<1>8. \A x : [X EXCEPT !.e[h].refs = x] = Shape(u, lru, in_use, t, [e EXCEPT ![h].refs = x], d)
  BY DEF Shape
<1>3. Cache!LRU_Remove(X, h) = Shape(u, Cache!RemoveFirst(lru, h), Cache!RemoveFirst(in_use, h), t, e, d)
  BY RemovedFromLists
<1>4. Cache!Ref(X, h)
        = LET f == [e EXCEPT ![h].refs = e[h].refs + 1]
          IN IF e[h].refs = 1 /\ e[h].in_cache
             THEN Shape(u, Cache!RemoveFirst(lru, h), Append(Cache!RemoveFirst(in_use, h), h), t, f, d)
             ELSE Shape(u, lru, in_use, t, f, d)
  <2> DEFINE f == [e EXCEPT ![h].refs = e[h].refs + 1]
             a == Cache!RemoveFirst(lru, h)
             b == Cache!RemoveFirst(in_use, h)
             c == Append(b, h)
             Y == Shape(u, a, b, t, e, d)
             Z == Shape(u, a, c, t, e, d)
  <2> HIDE DEF a, b, c, f
  <2>1. CASE e[h].refs = 1 /\ e[h].in_cache
    <3>1. Y.s.in_use = b /\ \A x : [Y EXCEPT !.s.in_use = x] = Shape(u, a, x, t, e, d)
      BY DEF Shape
    <3>2. Z.e = e /\ \A x : [Z EXCEPT !.e[h].refs = x] = Shape(u, a, c, t, [e EXCEPT ![h].refs = x], d)
      BY DEF Shape
    <3>3. Cache!LRU_Remove(X, h) = Y
      BY <1>3 DEF a, b
    <3>4. Shape(u, a, Append(Y.s.in_use, h), t, e, d) = Z
      BY <3>1 DEF c
    <3> HIDE DEF X, Y, Z
    <3>5. [Y EXCEPT !.s.in_use = Append(Y.s.in_use, h)] = Z
      BY <3>1, <3>4
    <3>6. Cache!Ref(X, h) = [Z EXCEPT !.e[h].refs = Z.e[h].refs + 1]
      BY <1>2, <2>1, <3>3, <3>5 DEF Cache!Ref
    <3>7. Cache!Ref(X, h) = Shape(u, a, c, t, f, d)
      BY <3>2, <3>6 DEF f
    <3> QED BY <2>1, <3>7 DEF a, b, c, f
  <2>2. CASE ~(e[h].refs = 1 /\ e[h].in_cache)
    <3>1. Cache!Ref(X, h) = [X EXCEPT !.e[h].refs = X.e[h].refs + 1]
      <4> HIDE DEF X
      <4> QED BY <1>2, <2>2 DEF Cache!Ref
    <3> HIDE DEF X
    <3> QED BY <1>2, <1>8, <2>2, <3>1 DEF f
  <2> QED BY <2>1, <2>2
<1>5. Cache!Unref(X, h)
        = LET f == [e EXCEPT ![h].refs = e[h].refs - 1]
          IN IF f[h].refs = 0 THEN Shape(u, lru, in_use, t, f, Append(d, h))
             ELSE IF f[h].in_cache /\ f[h].refs = 1
                  THEN Shape(u, Append(Cache!RemoveFirst(lru, h), h), Cache!RemoveFirst(in_use, h), t, f, d)
                  ELSE Shape(u, lru, in_use, t, f, d)
  <2> DEFINE f == [e EXCEPT ![h].refs = e[h].refs - 1]
             Y == Shape(u, lru, in_use, t, f, d)
             a == Cache!RemoveFirst(lru, h)
             b == Cache!RemoveFirst(in_use, h)
             Z == Shape(u, a, b, t, f, d)
  <2> HIDE DEF f
  <2>1. [X EXCEPT !.e[h].refs = X.e[h].refs - 1] = Y
    <3> HIDE DEF X
    <3> QED BY <1>2, <1>8 DEF f
  <2>2. Y.s.lru = lru /\ Y.s.in_use = in_use /\ Y.e = f /\ Y.d = d
    BY DEF Shape
  <2>3. Cache!LRU_Remove(Y, h) = Z
    BY RemovedFromLists
  <2>4. [Z EXCEPT !.s.lru = Append(Z.s.lru, h)] = Shape(u, Append(a, h), b, t, f, d)
    <3> HIDE DEF a, b
    <3>1. Z.s.lru = a /\ \A x : [Z EXCEPT !.s.lru = x] = Shape(u, x, b, t, f, d)
      BY DEF Shape
    <3> HIDE DEF Z
    <3> QED BY <3>1
  <2>5. [Y EXCEPT !.d = Append(Y.d, h)] = Shape(u, lru, in_use, t, f, Append(d, h))
    <3>1. Y.d = d /\ \A x : [Y EXCEPT !.d = x] = Shape(u, lru, in_use, t, f, x)
      BY DEF Shape
    <3> HIDE DEF Y
    <3> QED BY <3>1
  <2> HIDE DEF X, Y, Z
  <2>6. CASE f[h].refs = 0
    BY <2>1, <2>2, <2>5, <2>6 DEF Cache!Unref, f
  <2>7. CASE f[h].refs # 0 /\ f[h].in_cache /\ f[h].refs = 1
    BY <2>1, <2>2, <2>3, <2>4, <2>7 DEF Cache!Unref, f
  <2>8. CASE f[h].refs # 0 /\ ~(f[h].in_cache /\ f[h].refs = 1)
    BY <2>1, <2>2, <2>8 DEF Cache!Unref, f, Y
  <2> QED BY <2>6, <2>7, <2>8 DEF f
<1> HIDE DEF X
<1>6. S = Shape(u, lru, in_use, t, e, d)
  BY <1>1 DEF X
<1> QED BY <1>1, <1>3, <1>4, <1>5, <1>6 DEF u, lru, in_use, t, e, d

\* T is what is left of S, with the handles H and the entries C in the cache.
Did(S, T, i, H, F, C) ==
  /\ Counted(T, i, H, F)
  /\ T.s.table = S.s.table /\ InCache(T.e, i) = C /\ Kept(S.e, T.e, i)
  /\ DOMAIN T.e = DOMAIN S.e

\* A client gets a handle of a cached entry: it leaves the LRU list.
LEMMA RefCounts ==
  ASSUME NEW S, NEW i, NEW H, NEW F, Counted(S, i, H, F), NEW h \in InCache(S.e, i),
         NEW G, G = [H EXCEPT ![h] = @ + 1]
  PROVE  Did(S, Cache!Ref(S, h), i, G, F, InCache(S.e, i))
<1> DEFINE e == S.e
           f == [e EXCEPT ![h].refs = e[h].refs + 1]
           H1 == G
           T == Cache!Ref(S, h)
           lru == IF e[h].refs = 1 THEN Cache!RemoveFirst(S.s.lru, h) ELSE S.s.lru
           in_use == IF e[h].refs = 1 THEN Append(Cache!RemoveFirst(S.s.in_use, h), h) ELSE S.s.in_use
           U == Shape(S.s.usage, lru, in_use, S.s.table, f, S.d)
<1>1. S \in Work /\ H \in [DOMAIN e -> Nat] /\ h \in DOMAIN e /\ e[h].in_cache /\ Cache!Shard(e[h].key) = i
  BY DEF Counted, InCache
<1>2. e \in Seq(EntryRecord)
  BY <1>1, WorkTypes
<1>3. e[h].refs = H[h] + 1 /\ H[h] \in Nat
  BY <1>1 DEF Counted, Holders
<1>4. T = U
  <2> HIDE DEF f
  <2>1. CASE e[h].refs = 1
    BY <1>1, <2>1, Assignments DEF f
  <2>2. CASE e[h].refs # 1
    BY <1>1, <2>2, Assignments DEF f
  <2> QED BY <2>1, <2>2
<1>5. e[h].refs + 1 \in Nat
  BY <1>3
<1>6. /\ f \in Seq(EntryRecord) /\ DOMAIN f = DOMAIN e
      /\ f[h].refs = e[h].refs + 1 /\ \A g \in DOMAIN e : g # h => f[g] = e[g]
      /\ \A g \in DOMAIN e : f[g].in_cache = e[g].in_cache
      /\ InCache(f, i) = InCache(e, i) /\ ChargesOf(f, i) = ChargesOf(e, i) /\ Kept(e, f, i)
  <2>1. e \in Seq(EntryRecord) /\ h \in DOMAIN e /\ Cache!Shard(e[h].key) = i
    BY <1>1, <1>2
  <2>2. OnlyRefs(e, f, h, e[h].refs + 1)
    BY <1>5, <2>1, RefsChanged
  <2> HIDE DEF e, f
  <2> QED BY <2>1, <2>2 DEF OnlyRefs
<1> HIDE DEF T, f
<1>7. H1 \in [DOMAIN f -> Nat] /\ H1[h] = H[h] + 1 /\ \A g \in DOMAIN e : g # h => H1[g] = H[g]
  BY <1>1, <1>3, <1>6
<1> HIDE DEF H1
<1>8. \A g \in DOMAIN f : f[g].refs = Holders(f, H1, g)
  <2> TAKE g \in DOMAIN f
  <2>1. CASE g = h
    BY <1>1, <1>3, <1>6, <1>7, <2>1 DEF Holders
  <2>2. CASE g # h
    BY <1>6, <1>7, <2>2 DEF Holders, Counted
  <2> QED BY <2>1, <2>2
<1>9. Unreferenced(f) = Unreferenced(e)
  BY <1>3, <1>6 DEF Unreferenced
<1> DEFINE Idle(K) == {g \in InCache(e, i) : K[g] = 0}
           Busy(K) == {g \in InCache(e, i) : K[g] > 0}
<1>10. InCache(e, i) \subseteq DOMAIN e /\ InCache(e, i) \subseteq Nat
  BY <1>2 DEF InCache
<1>11. Lists(lru, Idle(H1)) /\ Lists(in_use, Busy(H1))
  <2>1. Lists(S.s.lru, Idle(H)) /\ Lists(S.s.in_use, Busy(H))
    BY DEF Counted
  <2>2. CASE e[h].refs = 1
    <3>1. Idle(H1) = Idle(H) \ {h} /\ Busy(H1) = Busy(H) \cup {h}
      BY <1>3, <1>7, <1>10, <2>2
    <3> HIDE DEF Idle, Busy
    <3> QED BY <2>1, <2>2, <3>1, ListsRemoved, ListsMoved
  <2>3. CASE e[h].refs # 1
    <3>1. Idle(H1) = Idle(H) /\ Busy(H1) = Busy(H)
      BY <1>3, <1>7, <1>10, <2>3
    <3> QED BY <2>1, <2>3, <3>1
  <2> QED BY <2>2, <2>3
<1>12. lru \in Seq(Nat) /\ in_use \in Seq(Nat)
  <2>1. Idle(H1) \subseteq Nat /\ Busy(H1) \subseteq Nat
    BY <1>10
  <2> HIDE DEF Idle, Busy, lru, in_use
  <2> QED BY <1>11, <2>1, ListedEntries
<1> HIDE DEF lru, in_use
<1>0. U.s.usage = S.s.usage /\ U.s.lru = lru /\ U.s.in_use = in_use /\ U.s.table = S.s.table /\ U.e = f /\ U.d = S.d
  BY DEF Shape
<1>13. U \in Work
  BY <1>1, <1>6, <1>12, WorkTypes DEF Work, ShardStates, Shape
<1>14. Counted(U, i, H1, F)
  BY <1>0, <1>6, <1>7, <1>8, <1>9, <1>11, <1>13 DEF Counted
<1>15. U.s.table = S.s.table /\ InCache(U.e, i) = InCache(S.e, i) /\ Kept(S.e, U.e, i) /\ DOMAIN U.e = DOMAIN S.e
  BY <1>0, <1>6
<1> HIDE DEF U
<1> QED BY <1>4, <1>14, <1>15 DEF T, H1, Did

\* A reference is given back: the entry moves to the LRU list, or is deleted,
\* when it was the last of a client or the last of all.
LEMMA UnrefCounts ==
  ASSUME NEW S, NEW i, NEW H, NEW F, Counted(S, i, H, F),
         NEW h \in DOMAIN S.e, Cache!Shard(S.e[h].key) = i, H[h] > 0,
         NEW G, G = [H EXCEPT ![h] = @ - 1]
  PROVE  Did(S, Cache!Unref(S, h), i, G, F, InCache(S.e, i))
<1> DEFINE e == S.e
           f == [e EXCEPT ![h].refs = e[h].refs - 1]
           H1 == G
           T == Cache!Unref(S, h)
           last == f[h].refs = 0
           idle == ~last /\ f[h].in_cache /\ f[h].refs = 1
           lru == IF idle THEN Append(Cache!RemoveFirst(S.s.lru, h), h) ELSE S.s.lru
           in_use == IF idle THEN Cache!RemoveFirst(S.s.in_use, h) ELSE S.s.in_use
           d == IF last THEN Append(S.d, h) ELSE S.d
           U == Shape(S.s.usage, lru, in_use, S.s.table, f, d)
<1>1. S \in Work /\ H \in [DOMAIN e -> Nat] /\ h \in DOMAIN e /\ h \in Nat
  BY WorkTypes DEF Counted
<1>2. e \in Seq(EntryRecord)
  BY <1>1, WorkTypes
<1>3. e[h].refs = Holders(e, H, h) /\ H[h] \in Nat /\ H[h] > 0 /\ e[h].in_cache \in BOOLEAN
  BY <1>1, <1>2, EntryTypes DEF Counted
<1>4. T = U
  <2> HIDE DEF f
  <2>1. CASE last
    BY <1>1, <2>1, Assignments DEF f
  <2>2. CASE idle
    BY <1>1, <2>2, Assignments DEF f
  <2>3. CASE ~last /\ ~idle
    BY <1>1, <2>3, Assignments DEF f
  <2> QED BY <2>1, <2>2, <2>3
<1>5. e[h].refs - 1 \in Nat
  BY <1>3 DEF Holders
<1>6. /\ f \in Seq(EntryRecord) /\ DOMAIN f = DOMAIN e
      /\ f[h].refs = e[h].refs - 1 /\ \A g \in DOMAIN e : g # h => f[g] = e[g]
      /\ \A g \in DOMAIN e : f[g].in_cache = e[g].in_cache
      /\ InCache(f, i) = InCache(e, i) /\ ChargesOf(f, i) = ChargesOf(e, i) /\ Kept(e, f, i)
  <2>1. e \in Seq(EntryRecord) /\ h \in DOMAIN e /\ Cache!Shard(e[h].key) = i
    BY <1>1, <1>2
  <2>2. OnlyRefs(e, f, h, e[h].refs - 1)
    BY <1>5, <2>1, RefsChanged
  <2> HIDE DEF e, f
  <2> QED BY <2>1, <2>2 DEF OnlyRefs
<1> HIDE DEF T, f
<1>7. H1 \in [DOMAIN f -> Nat] /\ H1[h] = H[h] - 1 /\ \A g \in DOMAIN e : g # h => H1[g] = H[g]
  BY <1>1, <1>3, <1>6
<1> HIDE DEF H1
<1>8. \A g \in DOMAIN f : f[g].refs = Holders(f, H1, g)
  <2> TAKE g \in DOMAIN f
  <2>1. CASE g = h
    BY <1>1, <1>3, <1>6, <1>7, <2>1 DEF Holders
  <2>2. CASE g # h
    BY <1>6, <1>7, <2>2 DEF Holders, Counted
  <2> QED BY <2>1, <2>2
<1>9. /\ last => H1[h] = 0 /\ ~e[h].in_cache
      /\ idle => H1[h] = 0 /\ e[h].in_cache
      /\ H1[h] = 0 /\ e[h].in_cache => idle
  BY <1>3, <1>6, <1>7 DEF Holders
<1>10. e[h].refs > 0
  BY <1>3 DEF Holders
<1>11. F \subseteq Unreferenced(f) /\ Lists(d, Unreferenced(f) \ F)
  <2>1. F \subseteq Unreferenced(e) /\ Lists(S.d, Unreferenced(e) \ F)
    BY DEF Counted
  <2>2. h \notin Unreferenced(e) /\ h \notin F
    BY <1>10, <2>1 DEF Unreferenced
  <2>3. CASE last
    <3>1. Unreferenced(f) = Unreferenced(e) \cup {h}
      BY <1>1, <1>6, <2>3 DEF Unreferenced
    <3>2. Unreferenced(f) \ F = (Unreferenced(e) \ F) \cup {h}
      BY <2>2, <3>1
    <3>3. Lists(Append(S.d, h), (Unreferenced(e) \ F) \cup {h})
      BY <2>1, <2>2, ListsAppended
    <3> QED BY <2>1, <2>3, <3>1, <3>2, <3>3
  <2>4. CASE ~last
    <3>1. Unreferenced(f) = Unreferenced(e)
      BY <1>6, <2>2, <2>4 DEF Unreferenced
    <3> QED BY <2>1, <2>4, <3>1
  <2> QED BY <2>3, <2>4
<1> DEFINE Idle(K) == {g \in InCache(e, i) : K[g] = 0}
           Busy(K) == {g \in InCache(e, i) : K[g] > 0}
<1>12. InCache(e, i) \subseteq DOMAIN e /\ InCache(e, i) \subseteq Nat /\ (h \in InCache(e, i) <=> e[h].in_cache)
  BY <1>2 DEF InCache
<1>13. Lists(lru, Idle(H1)) /\ Lists(in_use, Busy(H1))
  <2>1. Lists(S.s.lru, Idle(H)) /\ Lists(S.s.in_use, Busy(H))
    BY DEF Counted
  <2>2. CASE idle
    <3>1. Idle(H1) = Idle(H) \cup {h} /\ Busy(H1) = Busy(H) \ {h}
      BY <1>3, <1>7, <1>9, <1>12, <2>2
    <3> HIDE DEF Idle, Busy, idle
    <3> QED BY <2>1, <2>2, <3>1, ListsRemoved, ListsMoved
  <2>3. CASE ~idle
    <3>1. Idle(H1) = Idle(H) /\ Busy(H1) = Busy(H)
      <4>1. h \in InCache(e, i) => H[h] > 0 /\ H1[h] > 0
        BY <1>3, <1>7, <1>9, <1>12, <2>3
      <4> QED BY <1>7, <1>12, <4>1
    <3> QED BY <2>1, <2>3, <3>1
  <2> QED BY <2>2, <2>3
<1>14. lru \in Seq(Nat) /\ in_use \in Seq(Nat) /\ d \in Seq(Nat)
  <2>1. Idle(H1) \subseteq Nat /\ Busy(H1) \subseteq Nat /\ Unreferenced(f) \ F \subseteq Nat
    BY <1>2, <1>6, <1>12 DEF Unreferenced
  <2> HIDE DEF Idle, Busy, lru, in_use, d
  <2> QED BY <1>11, <1>13, <2>1, ListedEntries
<1> HIDE DEF lru, in_use, d
<1>0. U.s.usage = S.s.usage /\ U.s.lru = lru /\ U.s.in_use = in_use /\ U.s.table = S.s.table /\ U.e = f /\ U.d = d
  BY DEF Shape
<1>15. U \in Work
  BY <1>1, <1>6, <1>14, WorkTypes DEF Work, ShardStates, Shape
<1>16. Counted(U, i, H1, F)
  BY <1>0, <1>6, <1>7, <1>8, <1>11, <1>13, <1>15 DEF Counted
<1>17. U.s.table = S.s.table /\ InCache(U.e, i) = InCache(S.e, i) /\ Kept(S.e, U.e, i) /\ DOMAIN U.e = DOMAIN S.e
  BY <1>0, <1>6
<1> HIDE DEF U
<1> QED BY <1>4, <1>16, <1>17 DEF T, H1, Did

\* FinishErase: the entry stops being in the cache.
Uncached(e, f, h, i) ==
  /\ f \in Seq(EntryRecord) /\ DOMAIN f = DOMAIN e
  /\ f[h].refs = e[h].refs /\ ~f[h].in_cache /\ \A g \in DOMAIN e : g # h => f[g] = e[g]
  /\ \A g \in DOMAIN e : f[g].key = e[g].key /\ f[g].charge = e[g].charge
  /\ InCache(f, i) = InCache(e, i) \ {h}
  /\ ChargesOf(f, i) = [ChargesOf(e, i) EXCEPT ![h] = 0]
  /\ Kept(e, f, i)

\* e->in_cache = false.
LEMMA CacheLeft ==
  ASSUME NEW e \in Seq(EntryRecord), NEW i, NEW h \in InCache(e, i)
  PROVE  Uncached(e, [e EXCEPT ![h].in_cache = FALSE], h, i)
<1> DEFINE f == [e EXCEPT ![h].in_cache = FALSE]
           c == [key |-> e[h].key, charge |-> e[h].charge, in_cache |-> FALSE, refs |-> e[h].refs]
<1>0. h \in DOMAIN e /\ Cache!Shard(e[h].key) = i
  BY DEF InCache
<1>1. f = [e EXCEPT ![h] = c]
  <2>1. f = [e EXCEPT ![h] = [e[h] EXCEPT !.in_cache = FALSE]]
    OBVIOUS
  <2> DEFINE k == e[h]
  <2>2. k = [key |-> k.key, charge |-> k.charge, in_cache |-> k.in_cache, refs |-> k.refs]
    BY <1>0, EntryTypes
  <2> HIDE DEF k
  <2>3. \A x : [k EXCEPT !.in_cache = x] = [key |-> k.key, charge |-> k.charge, in_cache |-> x, refs |-> k.refs]
    BY <2>2
  <2> QED BY <2>1, <2>3 DEF k
<1>2. c \in EntryRecord
  BY <1>0, EntryTypes DEF EntryRecord
<1> HIDE DEF f
<1>3. c.key = e[h].key /\ c.charge = e[h].charge /\ ~c.in_cache /\ c.refs = e[h].refs
  OBVIOUS
<1> HIDE DEF c
<1>4. /\ f \in Seq(EntryRecord) /\ DOMAIN f = DOMAIN e
      /\ f[h] = c /\ \A g \in DOMAIN e : g # h => f[g] = e[g]
  BY <1>0, <1>1, <1>2
<1>5. \A g \in DOMAIN e : f[g].key = e[g].key /\ f[g].charge = e[g].charge
  BY <1>3, <1>4
<1>6. InCache(f, i) = InCache(e, i) \ {h}
  BY <1>3, <1>4, <1>5 DEF InCache
<1>7. ChargesOf(f, i) = [ChargesOf(e, i) EXCEPT ![h] = 0]
  <2>1. DOMAIN ChargesOf(e, i) = DOMAIN e /\ DOMAIN ChargesOf(f, i) = DOMAIN e
    BY <1>4 DEF ChargesOf
  <2>2. \A g \in DOMAIN e : ChargesOf(f, i)[g] = IF g = h THEN 0 ELSE ChargesOf(e, i)[g]
    BY <1>4, <1>5, <1>6 DEF ChargesOf
  <2>3. ChargesOf(f, i) = [g \in DOMAIN e |-> ChargesOf(f, i)[g]]
    BY <1>4 DEF ChargesOf
  <2>4. [ChargesOf(e, i) EXCEPT ![h] = 0] = [g \in DOMAIN e |-> IF g = h THEN 0 ELSE ChargesOf(e, i)[g]]
    BY <2>1
  <2> QED BY <2>2, <2>3, <2>4
<1>8. Kept(e, f, i)
  BY <1>0, <1>4, <1>5 DEF Kept
<1> QED BY <1>3, <1>4, <1>5, <1>6, <1>7, <1>8 DEF f, Uncached

\* The charges of the entries, those not in the cache counted as 0.
LEMMA ChargesAreNumbers ==
  ASSUME NEW e \in Seq(EntryRecord), NEW i
  PROVE  /\ ChargesOf(e, i) \in Seq(Int) /\ Len(ChargesOf(e, i)) = Len(e)
         /\ \A h \in DOMAIN e : h \in 1 .. Len(ChargesOf(e, i))
         /\ \A h \in InCache(e, i) : ChargesOf(e, i)[h] = e[h].charge
<1>1. DOMAIN e = 1 .. Len(e) /\ Len(e) \in Nat
  OBVIOUS
<1>2. \A h \in DOMAIN e : e[h].charge \in Int
  BY EntryTypes
<1>3. ChargesOf(e, i) = [h \in 1 .. Len(e) |-> IF h \in InCache(e, i) THEN e[h].charge ELSE 0]
  BY <1>1 DEF ChargesOf
<1>4. ChargesOf(e, i) \in Seq(Int) /\ Len(ChargesOf(e, i)) = Len(e)
  BY <1>1, <1>2, <1>3
<1>5. \A h \in InCache(e, i) : ChargesOf(e, i)[h] = e[h].charge
  BY DEF InCache, ChargesOf
<1> QED BY <1>1, <1>4, <1>5

\* What FinishErase assigns before it calls Unref.
Uncaching(S, h) ==
  [Cache!LRU_Remove(S, h) EXCEPT !.e[h].in_cache = FALSE, !.s.usage = @ - S.e[h].charge]

\* The cache's own reference is one more to give back.
LEMMA UncachedCounts ==
  ASSUME NEW S, NEW i, NEW H, NEW F, Counted(S, i, H, F), NEW h \in InCache(S.e, i),
         NEW G, G = [H EXCEPT ![h] = @ + 1]
  PROVE  Did(S, Uncaching(S, h), i, G, F, InCache(S.e, i) \ {h})
<1> DEFINE e == S.e
           f == [e EXCEPT ![h].in_cache = FALSE]
           H1 == G
           R == Uncaching(S, h)
           u == S.s.usage - e[h].charge
           lru == Cache!RemoveFirst(S.s.lru, h)
           in_use == Cache!RemoveFirst(S.s.in_use, h)
           U == Shape(u, lru, in_use, S.s.table, f, S.d)
<1>1. S \in Work /\ H \in [DOMAIN e -> Nat] /\ h \in DOMAIN e /\ e[h].in_cache /\ Cache!Shard(e[h].key) = i
  BY DEF Counted, InCache
<1>2. e \in Seq(EntryRecord) /\ S.s.usage \in Int
  BY <1>1, WorkTypes
<1>3. e[h].refs = H[h] + 1 /\ H[h] \in Nat /\ e[h].charge \in Nat
  BY <1>1, <1>2, EntryTypes DEF Counted, Holders
<1>4. R = U
  <2> DEFINE L == Shape(S.s.usage, lru, in_use, S.s.table, e, S.d)
             Q == [L EXCEPT !.e[h].in_cache = FALSE]
  <2>1. Cache!LRU_Remove(S, h) = L
    BY <1>1, Assignments
  <2> HIDE DEF lru, in_use
  <2>2. L.s.usage = S.s.usage
    BY DEF Shape
  <2>3. R = [L EXCEPT !.e[h].in_cache = FALSE, !.s.usage = u]
    <3> HIDE DEF L
    <3> QED BY <2>1, <2>2 DEF Uncaching
  <2>4. [L EXCEPT !.e[h].in_cache = FALSE, !.s.usage = u] = [Q EXCEPT !.s.usage = u]
    <3> HIDE DEF L, u
    <3> QED OBVIOUS
  <2>5. Q = Shape(S.s.usage, lru, in_use, S.s.table, f, S.d)
    <3>1. \A x : [L EXCEPT !.e[h].in_cache = x]
                    = Shape(S.s.usage, lru, in_use, S.s.table, [e EXCEPT ![h].in_cache = x], S.d)
      BY DEF Shape
    <3> HIDE DEF L
    <3> QED BY <3>1
  <2> HIDE DEF Q, f, u
  <2>6. [Q EXCEPT !.s.usage = u] = U
    BY <2>5 DEF Shape
  <2> HIDE DEF L, U
  <2> QED BY <2>3, <2>4, <2>6
<1>5. Uncached(e, f, h, i)
  BY <1>2, CacheLeft
<1> HIDE DEF R, f
<1>6. H1 \in [DOMAIN f -> Nat] /\ H1[h] = H[h] + 1 /\ \A g \in DOMAIN e : g # h => H1[g] = H[g]
  BY <1>1, <1>3, <1>5 DEF Uncached
<1> HIDE DEF H1
<1>7. \A g \in DOMAIN f : f[g].refs = Holders(f, H1, g)
  <2> TAKE g \in DOMAIN f
  <2>1. CASE g = h
    BY <1>1, <1>3, <1>5, <1>6, <2>1 DEF Holders, Uncached
  <2>2. CASE g # h
    BY <1>5, <1>6, <2>2 DEF Holders, Counted, Uncached
  <2> QED BY <2>1, <2>2
<1>8. Unreferenced(f) = Unreferenced(e)
  BY <1>5 DEF Unreferenced, Uncached
<1>9. u = Cache!Total(ChargesOf(f, i)) /\ u \in Int
  <2> DEFINE w == ChargesOf(e, i)
  <2>1. w \in Seq(Int) /\ h \in 1 .. Len(w) /\ w[h] = e[h].charge
    BY <1>1, <1>2, ChargesAreNumbers
  <2>2. ChargesOf(f, i) = [w EXCEPT ![h] = 0] /\ S.s.usage = Cache!Total(w)
    BY <1>5 DEF Uncached, Counted
  <2> HIDE DEF w
  <2>3. Cache!Total([w EXCEPT ![h] = 0]) = Cache!Total(w) - w[h] + 0
    <3>1. w \in Seq(Int) /\ h \in 1 .. Len(w) /\ 0 \in Int
      BY <2>1
    <3> QED BY ONLY <3>1, TotalChanged
  <2> QED BY <1>2, <1>3, <2>1, <2>2, <2>3
<1>10. InCache(e, i) \subseteq DOMAIN e /\ InCache(e, i) \subseteq Nat
  BY <1>2 DEF InCache
<1>11. /\ Lists(lru, {g \in InCache(f, i) : H1[g] = 0})
       /\ Lists(in_use, {g \in InCache(f, i) : H1[g] > 0})
  <2> DEFINE Idle == {g \in InCache(e, i) : H[g] = 0}
             Busy == {g \in InCache(e, i) : H[g] > 0}
  <2>1. Lists(S.s.lru, Idle) /\ Lists(S.s.in_use, Busy)
    BY DEF Counted
  <2>2. InCache(f, i) = InCache(e, i) \ {h}
    BY <1>5 DEF Uncached
  <2>3. /\ {g \in InCache(f, i) : H1[g] = 0} = Idle \ {h}
        /\ {g \in InCache(f, i) : H1[g] > 0} = Busy \ {h}
    BY <1>6, <1>10, <2>2
  <2> HIDE DEF Idle, Busy
  <2>4. Lists(lru, Idle \ {h}) /\ Lists(in_use, Busy \ {h})
    BY <2>1, ListsRemoved
  <2> HIDE DEF lru, in_use
  <2> QED BY <2>3, <2>4
<1>12. lru \in Seq(Nat) /\ in_use \in Seq(Nat)
  <2>1. /\ {g \in InCache(f, i) : H1[g] = 0} \subseteq Nat
        /\ {g \in InCache(f, i) : H1[g] > 0} \subseteq Nat
    BY <1>5, <1>10 DEF Uncached
  <2> HIDE DEF lru, in_use
  <2> QED BY <1>11, <2>1, ListedEntries
<1> HIDE DEF lru, in_use, u
<1>0. U.s.usage = u /\ U.s.lru = lru /\ U.s.in_use = in_use /\ U.s.table = S.s.table /\ U.e = f /\ U.d = S.d
  BY DEF Shape
<1>13. U \in Work
  BY <1>1, <1>5, <1>9, <1>12, WorkTypes DEF Work, ShardStates, Shape, Uncached
<1> HIDE DEF U
<1>14. Counted(U, i, H1, F)
  <2>1. F \subseteq Unreferenced(e) /\ Lists(S.d, Unreferenced(e) \ F)
    BY DEF Counted
  <2> QED BY <1>0, <1>6, <1>7, <1>8, <1>9, <1>11, <1>13, <2>1 DEF Counted
<1>15. /\ U.s.table = S.s.table /\ InCache(U.e, i) = InCache(S.e, i) \ {h} /\ Kept(S.e, U.e, i)
       /\ DOMAIN U.e = DOMAIN S.e
  BY <1>0, <1>1, <1>5 DEF Uncached
<1> QED BY <1>4, <1>14, <1>15 DEF R, H1, Did

\* FinishErase of a cached entry takes it out of the cache, and nothing else.
LEMMA FinishEraseCounts ==
  ASSUME NEW S, NEW i, NEW H, NEW F, Counted(S, i, H, F),
         NEW h, h \in InCache(S.e, i) \/ h = 0
  PROVE  Did(S, Cache!FinishErase(S, h), i, H, F, InCache(S.e, i) \ {h})
<1>0. S \in Work /\ H \in [DOMAIN S.e -> Nat] /\ S.e \in Seq(EntryRecord)
  BY WorkTypes DEF Counted
<1>1. CASE h = 0
  <2>1. Cache!FinishErase(S, h) = S
    BY <1>1 DEF Cache!FinishErase
  <2>2. 0 \notin InCache(S.e, i)
    BY <1>0 DEF InCache
  <2>3. Kept(S.e, S.e, i)
    BY DEF Kept
  <2> QED BY <1>1, <2>1, <2>2, <2>3 DEF Did
<1>2. CASE h # 0
  <2> DEFINE R == Uncaching(S, h)
             H1 == [H EXCEPT ![h] = @ + 1]
             H2 == [H1 EXCEPT ![h] = @ - 1]
             T == Cache!Unref(R, h)
  <2>1. h \in InCache(S.e, i) /\ h \in DOMAIN S.e /\ Cache!Shard(S.e[h].key) = i
    BY <1>2 DEF InCache
  <2>2. Cache!FinishErase(S, h) = T
    BY <1>2 DEF Cache!FinishErase, Uncaching
  <2>3. Did(S, R, i, H1, F, InCache(S.e, i) \ {h})
    BY <2>1, UncachedCounts
  <2>4. H[h] \in Nat /\ H1[h] = H[h] + 1
    BY <1>0, <2>1
  <2>5. H1[h] > 0 /\ H2 = H
    <3>1. H1 \in [DOMAIN S.e -> Nat] /\ \A g \in DOMAIN S.e : g # h => H1[g] = H[g]
      BY <1>0, <2>1, <2>4
    <3>2. H1[h] - 1 = H[h]
      BY <2>4
    <3> HIDE DEF H1
    <3>3. H2 \in [DOMAIN S.e -> Nat] /\ \A g \in DOMAIN S.e : H2[g] = H[g]
      BY <1>0, <2>1, <2>4, <3>1, <3>2
    <3> HIDE DEF H2
    <3> QED BY <1>0, <2>4, <3>3
  <2> HIDE DEF R, H1
  <2>6. h \in DOMAIN R.e /\ Cache!Shard(R.e[h].key) = i
    BY <2>1, <2>3 DEF Did, Kept
  <2>7. Did(R, T, i, H2, F, InCache(R.e, i))
    <3>1. Counted(R, i, H1, F)
      BY <2>3 DEF Did
    <3>2. H2 = [H1 EXCEPT ![h] = @ - 1]
      OBVIOUS
    <3> HIDE DEF H2
    <3> QED BY <2>5, <2>6, <3>1, <3>2, UnrefCounts
  <2> HIDE DEF T, H2
  <2>8. Kept(S.e, T.e, i)
    BY <2>3, <2>7, KeptTwice DEF Did
  <2> QED BY <2>2, <2>3, <2>5, <2>7, <2>8 DEF Did
<1> QED BY <1>1, <1>2

\* Between two steps of a method, and between methods, the table is right too.
Good(S, i, H, F) == Counted(S, i, H, F) /\ Finds(S.s.table, S.e, InCache(S.e, i))

\* What an erasure, one or several, leaves.
Less(S, T, i, H, F) == Good(T, i, H, F) /\ Kept(S.e, T.e, i) /\ DOMAIN T.e = DOMAIN S.e

\* The entries in the cache are entries of the shard.
LEMMA CachedEntries ==
  ASSUME NEW S, NEW i, NEW H, NEW F, Counted(S, i, H, F)
  PROVE  /\ S \in Work /\ S.e \in Seq(EntryRecord) /\ Entries(S.e, InCache(S.e, i))
         /\ H \in [DOMAIN S.e -> Nat]
         /\ \A h \in InCache(S.e, i) : /\ h \in DOMAIN S.e /\ h \in Nat \ {0}
                                       /\ S.e[h].key \in Nat /\ Cache!Shard(S.e[h].key) = i
<1>1. S \in Work /\ S.e \in Seq(EntryRecord) /\ H \in [DOMAIN S.e -> Nat]
  BY WorkTypes DEF Counted
<1>2. Entries(S.e, InCache(S.e, i))
  BY <1>1 DEF Entries, InCache
<1>3. \A h \in InCache(S.e, i) : h \in DOMAIN S.e /\ Cache!Shard(S.e[h].key) = i
  BY DEF InCache
<1>4. \A h \in InCache(S.e, i) : h \in Nat \ {0} /\ S.e[h].key \in Nat
  BY <1>2, EntriesAreFinite
<1> QED BY <1>1, <1>2, <1>3, <1>4

WithTable(S, t) == [S EXCEPT !.s.table = t]

\* The table is not part of what is counted.
LEMMA TableReplaced ==
  ASSUME NEW S, NEW i, NEW H, NEW F, Counted(S, i, H, F), NEW t, t \in Tables
  PROVE  LET T == WithTable(S, t)
         IN Counted(T, i, H, F) /\ T.e = S.e /\ T.s.table = t
<1> DEFINE T == WithTable(S, t)
<1>1. S \in Work
  BY DEF Counted
<1>2. S = Shape(S.s.usage, S.s.lru, S.s.in_use, S.s.table, S.e, S.d)
  BY <1>1, WorkTypes DEF Shape
<1>3. T = Shape(S.s.usage, S.s.lru, S.s.in_use, t, S.e, S.d)
  <2> DEFINE u == S.s.usage
             lru == S.s.lru
             in_use == S.s.in_use
             e == S.e
             d == S.d
             v == S.s.table
  <2>1. S = Shape(u, lru, in_use, v, e, d)
    BY <1>2
  <2> HIDE DEF u, lru, in_use, e, d, v
  <2>2. [S EXCEPT !.s.table = t] = Shape(u, lru, in_use, t, e, d)
    BY <2>1 DEF Shape
  <2> QED BY <2>2 DEF u, lru, in_use, e, d, WithTable
<1> HIDE DEF T
<1>4. /\ T.s.usage = S.s.usage /\ T.s.lru = S.s.lru /\ T.s.in_use = S.s.in_use /\ T.s.table = t
      /\ T.e = S.e /\ T.d = S.d
  BY <1>3 DEF Shape
<1>5. T \in Work
  <2> DEFINE s == [usage |-> S.s.usage, lru |-> S.s.lru, in_use |-> S.s.in_use, table |-> t]
  <2>1. s \in ShardStates
    BY <1>1, WorkTypes DEF ShardStates
  <2>2. T = [s |-> s, e |-> S.e, d |-> S.d]
    BY <1>3 DEF Shape
  <2> HIDE DEF s
  <2> QED BY <1>1, <2>1, <2>2, WorkTypes DEF Work
<1>6. Counted(T, i, H, F)
  BY <1>4, <1>5 DEF Counted
<1> QED BY <1>4, <1>6 DEF T

\* Erase: the entry with the key, if there is one, leaves the table and the cache.
LEMMA EraseKeyKeeps ==
  ASSUME NEW S, NEW i, NEW H, NEW F, Good(S, i, H, F), NEW key \in Nat
  PROVE  Less(S, Cache!EraseKey(S, key), i, H, F)
<1> DEFINE C == InCache(S.e, i)
           h == Cache!TableLookup(S.s.table, S.e, key)
           t == Cache!TableRemove(S.s.table, S.e, key)
           R == WithTable(S, t)
           T == Cache!FinishErase(R, h)
<1>1. Counted(S, i, H, F) /\ Finds(S.s.table, S.e, C)
  BY DEF Good
<1>2. Entries(S.e, C)
  BY <1>1, CachedEntries
<1>3. h \in C \/ h = 0
  BY <1>1, <1>2, LookupFinds DEF Finds
<1>4. Finds(t, S.e, C \ {h})
  BY <1>1, <1>2, RemoveTakesOut
<1>5. Cache!EraseKey(S, key) = T
  BY DEF Cache!EraseKey, WithTable
<1>6. t \in Tables
  BY <1>4 DEF Finds, Hashed
<1> HIDE DEF h, t
<1>7. Counted(R, i, H, F) /\ R.e = S.e /\ R.s.table = t
  BY <1>1, <1>6, TableReplaced
<1> HIDE DEF R
<1>8. Did(R, T, i, H, F, C \ {h})
  BY <1>3, <1>7, FinishEraseCounts
<1> HIDE DEF T, C
<1>9. /\ Counted(T, i, H, F) /\ T.s.table = t /\ InCache(T.e, i) = C \ {h} /\ Kept(S.e, T.e, i)
      /\ DOMAIN T.e = DOMAIN S.e
  BY <1>7, <1>8 DEF Did
<1>10. \A g \in C \ {h} : T.e[g].key = S.e[g].key
  BY <1>9 DEF Kept, C, InCache
<1>11. Finds(t, T.e, C \ {h})
  BY <1>4, <1>10, FindsByKeys
<1> QED BY <1>5, <1>9, <1>11 DEF Less, Good

\* Insert and Prune erase lru_.next, the oldest entry that no client holds.
LEMMA EvictOldestKeeps ==
  ASSUME NEW S, NEW i, NEW H, NEW F, Good(S, i, H, F), S.s.lru # <<>>
  PROVE  Less(S, Cache!EvictOldest(S), i, H, F)
<1>1. Counted(S, i, H, F)
  BY DEF Good
<1> DEFINE Idle == {h \in InCache(S.e, i) : H[h] = 0}
<1>2. Lists(S.s.lru, Idle)
  BY <1>1 DEF Counted
<1>3. Head(S.s.lru) \in Idle
  <2> HIDE DEF Idle
  <2> QED BY <1>2 DEF Lists
<1>4. S.e[Head(S.s.lru)].key \in Nat
  BY <1>1, <1>3, CachedEntries
<1> QED BY <1>4, EraseKeyKeeps DEF Cache!EvictOldest

\* Two erasures leave what one leaves.
LEMMA LessTwice ==
  ASSUME NEW S, NEW T, NEW U, NEW i, NEW H, NEW F, Less(S, T, i, H, F), Less(T, U, i, H, F)
  PROVE  Less(S, U, i, H, F)
BY KeptTwice DEF Less

\* The loops that evict: what is left after each round.
LEMMA EvictionsKeep ==
  ASSUME NEW S, NEW i, NEW H, NEW F, Good(S, i, H, F), NEW n \in Nat, NEW left,
         left[0] = S,
         \A j \in 1 .. n : \/ left[j] = left[j - 1]
                           \/ left[j - 1].s.lru # <<>> /\ left[j] = Cache!EvictOldest(left[j - 1])
  PROVE  Less(S, left[n], i, H, F)
<1> DEFINE I == {j \in 0 .. n : Less(S, left[j], i, H, F)}
<1>1. 0 \in I
  <2>1. Kept(S.e, S.e, i)
    BY DEF Kept
  <2> QED BY <2>1 DEF Less
<1>2. ASSUME NEW j \in 1 .. n, j - 1 \in I PROVE j \in I
  <2>1. Less(S, left[j - 1], i, H, F) /\ Good(left[j - 1], i, H, F)
    BY <1>2 DEF Less
  <2>2. CASE left[j] = left[j - 1]
    BY <2>1, <2>2
  <2>3. CASE left[j - 1].s.lru # <<>> /\ left[j] = Cache!EvictOldest(left[j - 1])
    <3>1. Less(left[j - 1], left[j], i, H, F)
      BY <2>1, <2>3, EvictOldestKeeps
    <3>2. Less(S, left[j], i, H, F)
      BY <2>1, <3>1, LessTwice
    <3> QED BY <3>2
  <2> QED BY <2>2, <2>3
<1>3. \A j \in 0 .. n : j \in I
  <2> HIDE DEF I
  <2> QED BY <1>1, <1>2, AllIndices
<1> QED BY <1>3

\* Insert evicts while the shard is over its capacity.
LEMMA EvictOverKeeps ==
  ASSUME NEW S, NEW i, NEW H, NEW F, Good(S, i, H, F)
  PROVE  Less(S, Cache!EvictOver(S), i, H, F)
<1> DEFINE n == Len(S.s.lru)
           A == {T \in Work : Less(S, T, i, H, F)}
           G == [j \in 1 .. n |-> [T \in A |-> IF T.s.lru # <<>> /\ T.s.usage > Cache!PerShard THEN Cache!EvictOldest(T) ELSE T]]
           Is(f) == f = [j \in 0 .. n |-> IF j = 0 THEN S
                                         ELSE IF f[j - 1].s.lru # <<>> /\ f[j - 1].s.usage > Cache!PerShard
                                              THEN Cache!EvictOldest(f[j - 1]) ELSE f[j - 1]]
           left == CHOOSE f : Is(f)
<1>1. n \in Nat /\ S \in A
  <2>1. S \in Work /\ n \in Nat
    BY WorkTypes DEF Good, Counted
  <2>2. Kept(S.e, S.e, i)
    BY DEF Kept
  <2> QED BY <2>1, <2>2 DEF Less
<1>2. \E f : Is(f)
  <2>1. ASSUME NEW T \in A PROVE (IF T.s.lru # <<>> /\ T.s.usage > Cache!PerShard THEN Cache!EvictOldest(T) ELSE T) \in A
    <3>1. CASE T.s.lru # <<>> /\ T.s.usage > Cache!PerShard
      <4>1. Less(S, T, i, H, F) /\ Good(T, i, H, F)
        BY DEF Less
      <4>2. Less(T, Cache!EvictOldest(T), i, H, F)
        BY <3>1, <4>1, EvictOldestKeeps
      <4>3. Less(S, Cache!EvictOldest(T), i, H, F)
        BY <4>1, <4>2, LessTwice
      <4>4. Cache!EvictOldest(T) \in Work
        BY <4>3 DEF Less, Good, Counted
      <4> QED BY <3>1, <4>3, <4>4
    <3> QED BY <3>1
  <2> HIDE DEF n, A
  <2>2. G \in [1 .. n -> [A -> A]]
    BY <2>1
  <2>3. \A j \in 1 .. n : \A T \in A : G[j][T] = IF T.s.lru # <<>> /\ T.s.usage > Cache!PerShard THEN Cache!EvictOldest(T) ELSE T
    OBVIOUS
  <2>4. Recursions(n, A, S, G) # {}
    <3> HIDE DEF G
    <3> QED BY <1>1, <2>2, RecursionExists
  <2>5. PICK f : f \in Recursions(n, A, S, G)
    BY ONLY <2>4
  <2> HIDE DEF G
  <2>6. f \in [0 .. n -> A] /\ f[0] = S /\ \A j \in 1 .. n : f[j] = G[j][f[j - 1]]
    BY <2>5 DEF Recursions
  <2>7. ASSUME NEW j \in 0 .. n
        PROVE  f[j] = IF j = 0 THEN S
                      ELSE IF f[j - 1].s.lru # <<>> /\ f[j - 1].s.usage > Cache!PerShard
                           THEN Cache!EvictOldest(f[j - 1]) ELSE f[j - 1]
    <3>1. CASE j # 0
      <4>1. j \in 1 .. n /\ j - 1 \in 0 .. n
        BY <1>1, <3>1
      <4>2. f[j] = G[j][f[j - 1]] /\ f[j - 1] \in A
        BY <2>6, <4>1
      <4> QED BY <2>3, <3>1, <4>1, <4>2
    <3> QED BY <2>6, <3>1
  <2>8. Is(f)
    BY <2>6, <2>7
  <2> QED BY <2>8
<1>3. Is(left)
  BY <1>2
<1>4. Cache!EvictOver(S) = left[n]
  BY DEF Cache!EvictOver
<1> HIDE DEF left, A, G
<1>5. left[0] = S
  BY <1>1, <1>3
<1>6. ASSUME NEW j \in 1 .. n
      PROVE  \/ left[j] = left[j - 1]
             \/ left[j - 1].s.lru # <<>> /\ left[j] = Cache!EvictOldest(left[j - 1])
  <2>1. j \in 0 .. n /\ j # 0
    BY <1>1
  <2> HIDE DEF n
  <2>2. left[j] = IF left[j - 1].s.lru # <<>> /\ left[j - 1].s.usage > Cache!PerShard THEN Cache!EvictOldest(left[j - 1]) ELSE left[j - 1]
    BY <1>3, <2>1
  <2> QED BY <2>2
<1> HIDE DEF n, Is
<1>7. Less(S, left[n], i, H, F)
  BY <1>1, <1>5, <1>6, EvictionsKeep
<1> QED BY <1>4, <1>7

\* Prune evicts until the LRU list is empty.
LEMMA EvictAllKeeps ==
  ASSUME NEW S, NEW i, NEW H, NEW F, Good(S, i, H, F)
  PROVE  Less(S, Cache!EvictAll(S), i, H, F)
<1> DEFINE n == Len(S.s.lru)
           A == {T \in Work : Less(S, T, i, H, F)}
           G == [j \in 1 .. n |-> [T \in A |-> IF T.s.lru # <<>> THEN Cache!EvictOldest(T) ELSE T]]
           Is(f) == f = [j \in 0 .. n |-> IF j = 0 THEN S
                                         ELSE IF f[j - 1].s.lru # <<>>
                                              THEN Cache!EvictOldest(f[j - 1]) ELSE f[j - 1]]
           left == CHOOSE f : Is(f)
<1>1. n \in Nat /\ S \in A
  <2>1. S \in Work /\ n \in Nat
    BY WorkTypes DEF Good, Counted
  <2>2. Kept(S.e, S.e, i)
    BY DEF Kept
  <2> QED BY <2>1, <2>2 DEF Less
<1>2. \E f : Is(f)
  <2>1. ASSUME NEW T \in A PROVE (IF T.s.lru # <<>> THEN Cache!EvictOldest(T) ELSE T) \in A
    <3>1. CASE T.s.lru # <<>>
      <4>1. Less(S, T, i, H, F) /\ Good(T, i, H, F)
        BY DEF Less
      <4>2. Less(T, Cache!EvictOldest(T), i, H, F)
        BY <3>1, <4>1, EvictOldestKeeps
      <4>3. Less(S, Cache!EvictOldest(T), i, H, F)
        BY <4>1, <4>2, LessTwice
      <4>4. Cache!EvictOldest(T) \in Work
        BY <4>3 DEF Less, Good, Counted
      <4> QED BY <3>1, <4>3, <4>4
    <3> QED BY <3>1
  <2> HIDE DEF n, A
  <2>2. G \in [1 .. n -> [A -> A]]
    BY <2>1
  <2>3. \A j \in 1 .. n : \A T \in A : G[j][T] = IF T.s.lru # <<>> THEN Cache!EvictOldest(T) ELSE T
    OBVIOUS
  <2>4. Recursions(n, A, S, G) # {}
    <3> HIDE DEF G
    <3> QED BY <1>1, <2>2, RecursionExists
  <2>5. PICK f : f \in Recursions(n, A, S, G)
    BY ONLY <2>4
  <2> HIDE DEF G
  <2>6. f \in [0 .. n -> A] /\ f[0] = S /\ \A j \in 1 .. n : f[j] = G[j][f[j - 1]]
    BY <2>5 DEF Recursions
  <2>7. ASSUME NEW j \in 0 .. n
        PROVE  f[j] = IF j = 0 THEN S
                      ELSE IF f[j - 1].s.lru # <<>>
                           THEN Cache!EvictOldest(f[j - 1]) ELSE f[j - 1]
    <3>1. CASE j # 0
      <4>1. j \in 1 .. n /\ j - 1 \in 0 .. n
        BY <1>1, <3>1
      <4>2. f[j] = G[j][f[j - 1]] /\ f[j - 1] \in A
        BY <2>6, <4>1
      <4> QED BY <2>3, <3>1, <4>1, <4>2
    <3> QED BY <2>6, <3>1
  <2>8. Is(f)
    BY <2>6, <2>7
  <2> QED BY <2>8
<1>3. Is(left)
  BY <1>2
<1>4. Cache!EvictAll(S) = left[n]
  BY DEF Cache!EvictAll
<1> HIDE DEF left, A, G
<1>5. left[0] = S
  BY <1>1, <1>3
<1>6. ASSUME NEW j \in 1 .. n
      PROVE  \/ left[j] = left[j - 1]
             \/ left[j - 1].s.lru # <<>> /\ left[j] = Cache!EvictOldest(left[j - 1])
  <2>1. j \in 0 .. n /\ j # 0
    BY <1>1
  <2> HIDE DEF n
  <2>2. left[j] = IF left[j - 1].s.lru # <<>> THEN Cache!EvictOldest(left[j - 1]) ELSE left[j - 1]
    BY <1>3, <2>1
  <2> QED BY <2>2
<1> HIDE DEF n, Is
<1>7. Less(S, left[n], i, H, F)
  BY <1>1, <1>5, <1>6, EvictionsKeep
<1> QED BY <1>4, <1>7

\* Insert allocates an entry: f is e and c after it.
Grown(e, f, c, i) ==
  /\ f \in Seq(EntryRecord) /\ DOMAIN f = DOMAIN e \cup {Len(e) + 1} /\ Len(e) + 1 \notin DOMAIN e
  /\ f[Len(e) + 1] = c /\ \A g \in DOMAIN e : f[g] = e[g]
  /\ InCache(f, i) = IF c.in_cache THEN InCache(e, i) \cup {Len(e) + 1} ELSE InCache(e, i)
  /\ Cache!Total(ChargesOf(f, i)) = Cache!Total(ChargesOf(e, i)) + (IF c.in_cache THEN c.charge ELSE 0)
  /\ Kept(e, f, i)

\* LRUCache::Insert allocates an entry behind all others.
LEMMA EntryAllocated ==
  ASSUME NEW e \in Seq(EntryRecord), NEW i, NEW c, c \in EntryRecord, Cache!Shard(c.key) = i
  PROVE  Grown(e, Append(e, c), c, i)
<1> DEFINE f == Append(e, c)
           h == Len(e) + 1
           x == IF c.in_cache THEN c.charge ELSE 0
<1>1. /\ f \in Seq(EntryRecord) /\ DOMAIN f = DOMAIN e \cup {h} /\ h \notin DOMAIN e
      /\ f[h] = c /\ \A g \in DOMAIN e : f[g] = e[g]
  <2>1. f \in Seq(EntryRecord) /\ Len(f) = h /\ Len(e) \in Nat /\ f[h] = c /\ \A g \in 1 .. Len(e) : f[g] = e[g]
    OBVIOUS
  <2>2. DOMAIN f = 1 .. Len(e) + 1 /\ DOMAIN e = 1 .. Len(e)
    BY <2>1
  <2> QED BY <2>1, <2>2
<1> DEFINE n == Len(e)
<1>2. InCache(f, i) = IF c.in_cache THEN InCache(e, i) \cup {h} ELSE InCache(e, i)
  <2> HIDE DEF f, h
  <2>1. CASE c.in_cache
    BY <1>1, <2>1 DEF InCache
  <2>2. CASE ~c.in_cache
    BY <1>1, <2>2 DEF InCache
  <2> QED BY <2>1, <2>2
<1>3. ChargesOf(f, i) = Append(ChargesOf(e, i), x)
  <2>1. ChargesOf(e, i) \in Seq(Int) /\ Len(ChargesOf(e, i)) = Len(e) /\ DOMAIN ChargesOf(e, i) = DOMAIN e
    BY ChargesAreNumbers DEF ChargesOf
  <2>2. \A g \in DOMAIN e : ChargesOf(f, i)[g] = ChargesOf(e, i)[g]
    <3> HIDE DEF f, h
    <3> TAKE g \in DOMAIN e
    <3>1. g \in DOMAIN f /\ f[g] = e[g] /\ g # h
      BY <1>1
    <3>2. g \in InCache(f, i) <=> g \in InCache(e, i)
      BY <1>2, <3>1
    <3> QED BY <3>1, <3>2 DEF ChargesOf
  <2>3. ChargesOf(f, i)[h] = x
    <3> HIDE DEF f, h
    <3>1. h \in DOMAIN f /\ h \notin InCache(e, i)
      BY <1>1 DEF InCache
    <3>2. h \in InCache(f, i) <=> c.in_cache
      BY <1>2, <3>1
    <3> QED BY <1>1, <3>1, <3>2 DEF ChargesOf
  <2> DEFINE w == ChargesOf(e, i)
             v == ChargesOf(f, i)
             T == Int
  <2>4. w \in Seq(T) /\ Len(w) = n /\ n \in Nat /\ x \in T
    BY <2>1 DEF EntryRecord
  <2>5. v \in Seq(T) /\ Len(v) = n + 1
    <3>1. Len(f) = n + 1
      OBVIOUS
    <3> QED BY <1>1, <3>1, ChargesAreNumbers
  <2>6. \A g \in 1 .. n : v[g] = w[g]
    BY <2>2
  <2>7. v[n + 1] = x
    BY <2>3
  <2> HIDE DEF v, w, x, n, f, T, h
  <2>8. /\ Append(w, x) \in Seq(T) /\ Len(Append(w, x)) = n + 1
        /\ Append(w, x)[n + 1] = x /\ \A g \in 1 .. n : Append(w, x)[g] = w[g]
    BY ONLY <2>4, AppendProperties
  <2>9. \A g \in 1 .. Len(v) : v[g] = Append(w, x)[g]
    BY <2>4, <2>5, <2>6, <2>7, <2>8, AppendProperties
  <2>10. v = Append(w, x)
    BY <2>5, <2>8, <2>9, SeqEqual
  <2> QED BY <2>10 DEF v, w
<1>4. Cache!Total(ChargesOf(f, i)) = Cache!Total(ChargesOf(e, i)) + x
  <2>1. x \in Int
    BY DEF EntryRecord
  <2>2. ChargesOf(e, i) \in Seq(Int)
    BY ChargesAreNumbers
  <2> HIDE DEF x
  <2> QED BY <1>3, <2>1, <2>2, TotalAppended
<1>5. Kept(e, f, i)
  <2> HIDE DEF f, h
  <2> QED BY <1>1 DEF Kept
<1> QED BY <1>1, <1>2, <1>4, <1>5 DEF Grown

\* Before it evicts anything Insert leaves a new entry that its caller holds,
\* in the cache when there is room for any; the old one with the key is erased.
Inserted(S, h, key, charge) ==
  LET e == [key |-> key, charge |-> charge, in_cache |-> Cache!PerShard > 0,
            refs |-> IF Cache!PerShard > 0 THEN 2 ELSE 1]
      S1 == [S EXCEPT !.e = Append(@, e)]
      old == Cache!TableLookup(S1.s.table, S1.e, key)
      S2 == [S1 EXCEPT !.s.in_use = Append(@, h), !.s.usage = @ + charge,
                       !.s.table = Cache!TableInsert(@, S1.e, h)]
  IN IF Cache!PerShard > 0 THEN Cache!FinishErase(S2, old) ELSE S1

More(S, T, i, H, F) ==
  Good(T, i, H, F) /\ Kept(S.e, T.e, i) /\ DOMAIN T.e = DOMAIN S.e \cup {Len(S.e) + 1}

\* The lists and counts when the new entry is in the cache.
LEMMA NewEntryCounts ==
  ASSUME NEW S, NEW i, NEW H, NEW F, Counted(S, i, H, F), NEW c, NEW f, Grown(S.e, f, c, i),
         c \in EntryRecord, c.in_cache, c.refs = 2, NEW h, h = Len(S.e) + 1,
         NEW t, t \in Tables, NEW K, K \in [DOMAIN f -> Nat], K[h] = 1, \A g \in DOMAIN S.e : K[g] = H[g]
  PROVE  Counted(Shape(S.s.usage + c.charge, S.s.lru, Append(S.s.in_use, h), t, f, S.d), i, K, F)
<1> DEFINE e == S.e
           u == S.s.usage + c.charge
           lru == S.s.lru
           in_use == Append(S.s.in_use, h)
           U == Shape(u, lru, in_use, t, f, S.d)
<1>1. S \in Work /\ S.e \in Seq(EntryRecord) /\ InCache(e, i) \subseteq DOMAIN e /\ InCache(e, i) \subseteq Nat
  BY CachedEntries
<1>2. h \in Nat /\ h \notin DOMAIN e /\ DOMAIN f = DOMAIN e \cup {h} /\ f[h] = c /\ f \in Seq(EntryRecord)
      /\ InCache(f, i) = InCache(e, i) \cup {h} /\ \A g \in DOMAIN e : f[g] = e[g]
  BY <1>1 DEF Grown
<1>3. \A g \in DOMAIN f : f[g].refs = Holders(f, K, g)
  <2> TAKE g \in DOMAIN f
  <2>1. CASE g = h
    BY <1>2, <2>1 DEF Holders
  <2>2. CASE g # h
    BY <1>2, <2>2 DEF Holders, Counted
  <2> QED BY <2>1, <2>2
<1>4. Unreferenced(f) = Unreferenced(e)
  BY <1>2 DEF Unreferenced
<1>5. u = Cache!Total(ChargesOf(f, i)) /\ u \in Int
  <2>0. c.charge \in Int
    BY DEF EntryRecord
  <2>1. S.s.usage \in Int /\ S.s.usage = Cache!Total(ChargesOf(e, i))
    BY <1>1, WorkTypes DEF Counted
  <2> QED BY <2>0, <2>1 DEF Grown
<1> DEFINE Idle == {g \in InCache(e, i) : H[g] = 0}
           Busy == {g \in InCache(e, i) : H[g] > 0}
<1>6. Lists(lru, Idle) /\ Lists(S.s.in_use, Busy)
  BY DEF Counted
<1>7. /\ {g \in InCache(f, i) : K[g] = 0} = Idle
      /\ {g \in InCache(f, i) : K[g] > 0} = Busy \cup {h}
      /\ h \notin Busy
  BY <1>1, <1>2
<1>8. Lists(in_use, Busy \cup {h})
  <2> HIDE DEF Busy
  <2> QED BY <1>6, <1>7, ListsAppended
<1>9. lru \in Seq(Nat) /\ in_use \in Seq(Nat)
  <2>1. Idle \subseteq Nat /\ Busy \cup {h} \subseteq Nat
    BY <1>1, <1>2
  <2> HIDE DEF Idle, Busy, lru, in_use
  <2> QED BY <1>6, <1>8, <2>1, ListedEntries
<1>10. F \subseteq Unreferenced(e) /\ Lists(S.d, Unreferenced(e) \ F)
  BY DEF Counted
<1> HIDE DEF u, lru, in_use, Idle, Busy
<1>11. U.s.usage = u /\ U.s.lru = lru /\ U.s.in_use = in_use /\ U.s.table = t /\ U.e = f /\ U.d = S.d
  BY DEF Shape
<1>12. U \in Work
  <2> DEFINE s == [usage |-> u, lru |-> lru, in_use |-> in_use, table |-> t]
  <2>1. s \in ShardStates
    BY <1>5, <1>9 DEF ShardStates
  <2>2. U = [s |-> s, e |-> f, d |-> S.d]
    BY DEF Shape
  <2> HIDE DEF s, U
  <2> QED BY <1>1, <1>2, <2>1, <2>2, WorkTypes DEF Work
<1> HIDE DEF U
<1>13. Counted(U, i, K, F)
  BY <1>3, <1>4, <1>5, <1>6, <1>7, <1>8, <1>10, <1>11, <1>12 DEF Counted
<1> QED BY <1>13 DEF U, u, lru, in_use

\* When it is not.
LEMMA LooseEntryCounts ==
  ASSUME NEW S, NEW i, NEW H, NEW F, Counted(S, i, H, F), NEW c, NEW f, Grown(S.e, f, c, i),
         c \in EntryRecord, ~c.in_cache, c.refs = 1, NEW h, h = Len(S.e) + 1,
         NEW K, K \in [DOMAIN f -> Nat], K[h] = 1, \A g \in DOMAIN S.e : K[g] = H[g]
  PROVE  Counted(Shape(S.s.usage, S.s.lru, S.s.in_use, S.s.table, f, S.d), i, K, F)
<1> DEFINE e == S.e
           U == Shape(S.s.usage, S.s.lru, S.s.in_use, S.s.table, f, S.d)
<1>1. S \in Work /\ S.e \in Seq(EntryRecord) /\ InCache(e, i) \subseteq DOMAIN e /\ InCache(e, i) \subseteq Nat
  BY CachedEntries
<1>2. h \in Nat /\ h \notin DOMAIN e /\ DOMAIN f = DOMAIN e \cup {h} /\ f[h] = c /\ f \in Seq(EntryRecord)
      /\ InCache(f, i) = InCache(e, i) /\ \A g \in DOMAIN e : f[g] = e[g]
  BY <1>1 DEF Grown
<1>3. \A g \in DOMAIN f : f[g].refs = Holders(f, K, g)
  <2> TAKE g \in DOMAIN f
  <2>1. CASE g = h
    BY <1>2, <2>1 DEF Holders
  <2>2. CASE g # h
    BY <1>2, <2>2 DEF Holders, Counted
  <2> QED BY <2>1, <2>2
<1>4. Unreferenced(f) = Unreferenced(e)
  BY <1>2 DEF Unreferenced
<1>5. S.s.usage = Cache!Total(ChargesOf(f, i))
  <2>1. S.s.usage \in Int /\ S.s.usage = Cache!Total(ChargesOf(e, i))
    BY <1>1, WorkTypes DEF Counted
  <2> QED BY <2>1 DEF Grown
<1>6. /\ {g \in InCache(f, i) : K[g] = 0} = {g \in InCache(e, i) : H[g] = 0}
      /\ {g \in InCache(f, i) : K[g] > 0} = {g \in InCache(e, i) : H[g] > 0}
  BY <1>1, <1>2
<1>7. /\ F \subseteq Unreferenced(e) /\ Lists(S.d, Unreferenced(e) \ F)
      /\ Lists(S.s.lru, {g \in InCache(e, i) : H[g] = 0})
      /\ Lists(S.s.in_use, {g \in InCache(e, i) : H[g] > 0})
  BY DEF Counted
<1>8. /\ U.s.usage = S.s.usage /\ U.s.lru = S.s.lru /\ U.s.in_use = S.s.in_use
      /\ U.e = f /\ U.d = S.d /\ U.s = S.s
  BY <1>1, WorkTypes DEF Shape
<1>9. U \in Work
  <2>1. U = [s |-> S.s, e |-> f, d |-> S.d]
    BY <1>8 DEF Shape
  <2> HIDE DEF U
  <2> QED BY <1>1, <1>2, <2>1, WorkTypes DEF Work
<1> HIDE DEF U
<1>10. Counted(U, i, K, F)
  BY <1>3, <1>4, <1>5, <1>6, <1>7, <1>8, <1>9 DEF Counted
<1> QED BY <1>10 DEF U

\* LRUCache::Insert up to its eviction loop keeps its shard right.
LEMMA InsertedKeeps ==
  ASSUME NEW S, NEW i, NEW H, NEW F, Good(S, i, H, F), NEW key \in Nat, NEW charge \in Nat,
         Cache!Shard(key) = i, NEW h, h = Len(S.e) + 1,
         NEW K, K \in [DOMAIN S.e \cup {h} -> Nat], K[h] = 1, \A g \in DOMAIN S.e : K[g] = H[g]
  PROVE  More(S, Inserted(S, h, key, charge), i, K, F)
<1> DEFINE e == S.e
           t == S.s.table
           C == InCache(e, i)
           p == Cache!PerShard > 0
           c == [key |-> key, charge |-> charge, in_cache |-> p, refs |-> IF p THEN 2 ELSE 1]
           f == Append(e, c)
           S1 == [S EXCEPT !.e = f]
           T == Inserted(S, h, key, charge)
<1>1. /\ S \in Work /\ e \in Seq(EntryRecord) /\ Counted(S, i, H, F) /\ Finds(t, e, C) /\ C \subseteq DOMAIN e
      /\ C \subseteq Nat \ {0}
  BY CachedEntries DEF Good
<1>2. p \in BOOLEAN
  OBVIOUS
<1> HIDE DEF p
<1>3. c \in EntryRecord /\ c.key = key /\ c.charge = charge /\ (c.in_cache <=> p) /\ c.refs = IF p THEN 2 ELSE 1
  BY <1>2 DEF EntryRecord
<1> HIDE DEF c
<1>4. Grown(e, f, c, i)
  BY <1>1, <1>3, EntryAllocated
<1> HIDE DEF f
<1>5. /\ f \in Seq(EntryRecord) /\ DOMAIN f = DOMAIN e \cup {h} /\ h \notin DOMAIN e /\ f[h] = c
      /\ \A g \in DOMAIN e : f[g] = e[g]
      /\ Kept(e, f, i) /\ InCache(f, i) = IF c.in_cache THEN C \cup {h} ELSE C
  BY <1>4 DEF Grown
<1>6. Finds(t, f, C)
  <2>1. \A g \in C : f[g].key = e[g].key
    BY <1>1, <1>5
  <2> QED BY <1>1, <2>1, FindsByKeys
<1>7. S1 = Shape(S.s.usage, S.s.lru, S.s.in_use, t, f, S.d) /\ S1.e = f /\ S1.s = S.s
  <2> DEFINE s == S.s
             d == S.d
  <2>1. S = [s |-> s, e |-> e, d |-> d]
    BY <1>1, WorkTypes
  <2>2. s = [usage |-> s.usage, lru |-> s.lru, in_use |-> s.in_use, table |-> s.table]
    BY <1>1, WorkTypes
  <2> HIDE DEF s, d, e
  <2>3. S1 = [s |-> s, e |-> f, d |-> d]
    BY <2>1
  <2> HIDE DEF S1
  <2> QED BY <2>2, <2>3 DEF Shape, s, d
<1>8. CASE ~p
  <2>1. T = S1
    BY <1>8 DEF Inserted, S1, f, c, p
  <2>2. Counted(S1, i, K, F)
    <3> DEFINE X == Shape(S.s.usage, S.s.lru, S.s.in_use, S.s.table, f, S.d)
    <3>1. K \in [DOMAIN f -> Nat] /\ ~c.in_cache /\ c.refs = 1
      BY <1>3, <1>5, <1>8
    <3>2. Counted(X, i, K, F)
      BY <1>1, <1>3, <1>4, <3>1, LooseEntryCounts
    <3>3. S1 = X
      BY <1>7
    <3> HIDE DEF S1, X
    <3> QED BY <3>2, <3>3
  <2>3. Good(S1, i, K, F)
    BY <1>3, <1>5, <1>6, <1>7, <1>8, <2>2 DEF Good
  <2> HIDE DEF S1
  <2> QED BY <1>5, <1>7, <2>1, <2>3 DEF More
<1>9. CASE p
  <2> DEFINE old == Cache!TableLookup(S1.s.table, S1.e, key)
             tt == Cache!TableInsert(S1.s.table, S1.e, h)
             S2 == [S1 EXCEPT !.s.in_use = Append(@, h), !.s.usage = @ + charge,
                              !.s.table = Cache!TableInsert(@, S1.e, h)]
             U == Shape(S.s.usage + c.charge, S.s.lru, Append(S.s.in_use, h), tt, f, S.d)
  <2>1. T = Cache!FinishErase(S2, old)
    BY <1>9 DEF Inserted, S1, f, c, p
  <2>2. old = Cache!TableLookup(t, f, key) /\ tt = Cache!TableInsert(t, f, h)
    BY <1>7
  <2>3. S2 = U
    <3> DEFINE u == S.s.usage + charge
               q == Append(S.s.in_use, h)
               R == [S1 EXCEPT !.s.in_use = q]
               Q == [R EXCEPT !.s.usage = u]
    <3>1. S1.s.in_use = S.s.in_use /\ S1.s.usage = S.s.usage
      BY <1>7
    <3>2. S2 = [S1 EXCEPT !.s.in_use = q, !.s.usage = u, !.s.table = tt]
      <4> HIDE DEF S1
      <4> QED BY <3>1
    <3> HIDE DEF S1, q, u, tt
    <3>3. [S1 EXCEPT !.s.in_use = q, !.s.usage = u, !.s.table = tt] = [Q EXCEPT !.s.table = tt]
      OBVIOUS
    <3>4. R = Shape(S.s.usage, S.s.lru, q, t, f, S.d)
      BY <1>7 DEF Shape
    <3> HIDE DEF R
    <3>5. Q = Shape(u, S.s.lru, q, t, f, S.d)
      BY <3>4 DEF Shape
    <3> HIDE DEF Q
    <3>6. [Q EXCEPT !.s.table = tt] = Shape(u, S.s.lru, q, tt, f, S.d)
      BY <3>5 DEF Shape
    <3>7. U = Shape(u, S.s.lru, q, tt, f, S.d)
      BY <1>3 DEF u, q
    <3> HIDE DEF S2, U
    <3> QED BY <3>2, <3>3, <3>6, <3>7
  <2>4. Entries(f, C \cup {h}) /\ Entries(f, C)
    BY <1>1, <1>5 DEF Entries
  <2>5. h \notin C
    BY <1>1, <1>5
  <2> HIDE DEF S2, S1
  <2>6. Finds(tt, f, (C \ {old}) \cup {h})
    <3>1. f[h].key = key
      BY <1>3, <1>5
    <3> HIDE DEF C, old, tt
    <3>2. Finds(Cache!TableInsert(t, f, h), f, (C \ {Cache!TableLookup(t, f, f[h].key)}) \cup {h})
      BY <1>6, <2>4, <2>5, InsertPutsIn
    <3> QED BY <2>2, <3>1, <3>2
  <2>7. tt \in Tables
    BY <2>6 DEF Finds, Hashed
  <2>8. old \in C \/ old = 0
    <3> HIDE DEF C
    <3>1. Hashed(t, f, C)
      BY <1>6 DEF Finds
    <3> QED BY <2>2, <2>4, <3>1, LookupFinds
  <2> HIDE DEF tt, old
  <2>9. Counted(U, i, K, F)
    BY <1>1, <1>3, <1>4, <1>5, <1>9, <2>7, NewEntryCounts
  <2>10. U.e = f /\ U.s.table = tt
    BY DEF Shape
  <2> HIDE DEF U
  <2>11. InCache(U.e, i) = C \cup {h}
    BY <1>3, <1>5, <1>9, <2>10
  <2> DEFINE V == Cache!FinishErase(U, old)
             D == InCache(U.e, i) \ {old}
  <2>12. Did(U, V, i, K, F, D)
    BY <2>8, <2>9, <2>11, FinishEraseCounts
  <2> HIDE DEF V
  <2>13. D = (C \ {old}) \cup {h}
    <3>1. old # h
      BY <1>1, <1>5, <2>8
    <3> QED BY <2>11, <3>1
  <2> HIDE DEF D, C
  <2>14. /\ Counted(V, i, K, F) /\ V.s.table = tt /\ InCache(V.e, i) = D /\ Kept(f, V.e, i)
         /\ DOMAIN V.e = DOMAIN f
    BY <2>10, <2>12 DEF Did
  <2>15. Finds(tt, V.e, D)
    <3>1. \A g \in D : V.e[g].key = f[g].key
      BY <2>14 DEF Kept, InCache
    <3> QED BY <2>6, <2>13, <3>1, FindsByKeys
  <2>16. Good(V, i, K, F)
    BY <2>14, <2>15 DEF Good
  <2>17. Kept(e, V.e, i)
    BY <1>5, <2>14, KeptTwice
  <2>18. T = V
    BY <2>1, <2>3 DEF V
  <2> HIDE DEF T
  <2>19. T = Inserted(S, h, key, charge)
    BY DEF T
  <2>20. DOMAIN V.e = DOMAIN S.e \cup {Len(S.e) + 1}
    BY <1>5, <2>14
  <2>21. More(S, V, i, K, F)
    BY <2>16, <2>17, <2>20 DEF More
  <2> QED BY <2>18, <2>19, <2>21
<1> QED BY <1>8, <1>9

\* Insert: what it evicts afterwards is not the new entry, which its caller holds.
LEMMA CacheInsertKeeps ==
  ASSUME NEW S, NEW i, NEW H, NEW F, Good(S, i, H, F), NEW key \in Nat, NEW charge \in Nat,
         Cache!Shard(key) = i, NEW h, h = Len(S.e) + 1,
         NEW K, K \in [DOMAIN S.e \cup {h} -> Nat], K[h] = 1, \A g \in DOMAIN S.e : K[g] = H[g]
  PROVE  More(S, Cache!CacheInsert(S, h, key, charge), i, K, F)
<1> DEFINE T == Inserted(S, h, key, charge)
<1>1. Cache!CacheInsert(S, h, key, charge) = Cache!EvictOver(T)
  BY DEF Cache!CacheInsert, Inserted
<1>2. More(S, T, i, K, F)
  BY InsertedKeeps
<1> HIDE DEF T
<1>3. Less(T, Cache!EvictOver(T), i, K, F)
  BY <1>2, EvictOverKeeps DEF More
<1> QED BY <1>1, <1>2, <1>3, KeptTwice DEF More, Less

\* The whole cache between two methods: every shard is right, and the deleter
\* has run once for each entry that nothing refers to.
Balanced(e, s, H, d) ==
  /\ e \in Seq(EntryRecord) /\ H \in [DOMAIN e -> Nat]
  /\ s \in [Cache!Shards -> ShardStates]
  /\ d = [h \in DOMAIN e |-> IF e[h].refs = 0 THEN 1 ELSE 0]
  /\ \A i \in Cache!Shards : Good([s |-> s[i], e |-> e, d |-> <<>>], i, H, Unreferenced(e))

\* Cardinality is the same wherever FiniteSets is extended.
LEMMA SameCardinality == \A C : Cache!Cardinality(C) = Cardinality(C)
BY DEF Cache!Cardinality, Cardinality, Cache!IsFiniteSet, IsFiniteSet

\* The deleter runs once for each entry that a method frees.
LEMMA TimesListed ==
  ASSUME NEW q, NEW C, Lists(q, C), NEW h
  PROVE  Cache!Cardinality({j \in DOMAIN q : q[j] = h}) = IF h \in C THEN 1 ELSE 0
<1> DEFINE J == {j \in DOMAIN q : q[j] = h}
<1>1. q \in Seq(C) /\ DOMAIN q = 1 .. Len(q)
  BY DEF Lists
<1>2. CASE h \in C
  <2>1. PICK j \in 1 .. Len(q) : q[j] = h
    BY <1>2 DEF Lists
  <2>2. J = {j}
    BY <1>1, <2>1 DEF Lists
  <2> HIDE DEF J
  <2>3. Cardinality(J) = 1
    BY <2>2, FS_Singleton
  <2> QED BY <1>2, <2>3, SameCardinality DEF J
<1>3. CASE h \notin C
  <2>1. J = {}
    BY <1>1, <1>3
  <2> HIDE DEF J
  <2>2. Cardinality(J) = 0
    BY <2>1, FS_EmptySet
  <2> QED BY <1>3, <2>2, SameCardinality DEF J
<1> QED BY <1>2, <1>3

\* A method that works on one shard does not touch the others.
LEMMA OtherShardKept ==
  ASSUME NEW e, NEW x, NEW i, NEW j, NEW H, i # j,
         Good([s |-> x, e |-> e, d |-> <<>>], j, H, Unreferenced(e)),
         NEW f \in Seq(EntryRecord), Kept(e, f, i),
         DOMAIN f = DOMAIN e \/ DOMAIN f = DOMAIN e \cup {Len(e) + 1},
         NEW K, K \in [DOMAIN f -> Nat], \A h \in DOMAIN f : f[h].refs = Holders(f, K, h),
         \A h \in DOMAIN e : Cache!Shard(e[h].key) # i => K[h] = H[h]
  PROVE  Good([s |-> x, e |-> f, d |-> <<>>], j, K, Unreferenced(f))
<1> DEFINE S == [s |-> x, e |-> e, d |-> <<>>]
           T == [s |-> x, e |-> f, d |-> <<>>]
<1>1. S.e = e /\ S.s = x /\ S.d = <<>> /\ T.e = f /\ T.s = x /\ T.d = <<>>
  OBVIOUS
<1>2. T \in Work <=> x \in ShardStates
  BY DEF Work
<1> HIDE DEF S, T
<1>3. Counted(S, j, H, Unreferenced(e)) /\ Finds(x.table, e, InCache(e, j))
  BY <1>1 DEF Good, S
<1>4. e \in Seq(EntryRecord) /\ x \in ShardStates
  BY <1>1, <1>3, WorkTypes DEF Counted
<1>5. \A h \in InCache(e, j) : h \in DOMAIN e /\ h \in DOMAIN f /\ f[h] = e[h] /\ K[h] = H[h]
  BY DEF InCache, Kept
<1>6. InCache(f, j) = InCache(e, j)
  <2>1. ASSUME NEW h \in InCache(f, j) PROVE h \in InCache(e, j)
    <3>1. h \in DOMAIN f /\ Cache!Shard(f[h].key) = j
      BY DEF InCache
    <3>2. h \in DOMAIN e
      BY <3>1 DEF Kept
    <3>3. f[h] = e[h]
      BY <3>1, <3>2 DEF Kept
    <3> QED BY <3>2, <3>3 DEF InCache
  <2>2. ASSUME NEW h \in InCache(e, j) PROVE h \in InCache(f, j)
    BY <1>5 DEF InCache
  <2> QED BY <2>1, <2>2
<1>7. Cache!Total(ChargesOf(f, j)) = Cache!Total(ChargesOf(e, j))
  <2> DEFINE w == ChargesOf(e, j)
             v == ChargesOf(f, j)
             n == Len(e)
             T0 == Int
  <2>1. w \in Seq(T0) /\ Len(w) = n /\ v \in Seq(T0) /\ Len(v) = Len(f) /\ n \in Nat
    BY <1>4, ChargesAreNumbers
  <2>2. \A h \in 1 .. n : v[h] = w[h]
    <3>1. ASSUME NEW h \in DOMAIN e PROVE v[h] = w[h]
      <4>1. h \in DOMAIN f
        BY DEF Kept
      <4> QED BY <1>5, <1>6, <4>1 DEF ChargesOf
    <3> QED BY <1>4, <3>1
  <2>3. CASE DOMAIN f = DOMAIN e
    <3>1. Len(f) = n
      BY <1>4, <2>3
    <3> HIDE DEF w, v, n, T0
    <3>2. v = w
      BY <2>1, <2>2, <3>1, SeqEqual
    <3> QED BY <3>2 DEF v, w
  <2>4. CASE DOMAIN f = DOMAIN e \cup {n + 1}
    <3>1. Len(f) = n + 1
      <4>1. DOMAIN e = 1 .. n /\ DOMAIN f = 1 .. Len(f) /\ Len(f) \in Nat /\ n \in Nat
        BY <1>4
      <4> HIDE DEF n
      <4>2. n + 1 \in 1 .. Len(f)
        BY <2>4, <4>1
      <4>3. Len(f) \in (1 .. n) \cup {n + 1}
        BY <2>4, <4>1, <4>2
      <4>4. \A a, b \in Nat : a + 1 \in 1 .. b /\ b \in (1 .. a) \cup {a + 1} => b = a + 1
        OBVIOUS
      <4> QED BY ONLY <4>1, <4>2, <4>3, <4>4
    <3>2. v[n + 1] = 0
      <4>1. n + 1 \notin DOMAIN e /\ n + 1 \in DOMAIN f
        BY <1>4, <2>4
      <4>2. n + 1 \notin InCache(f, j)
        BY <1>6, <4>1 DEF InCache
      <4> QED BY <4>1, <4>2 DEF ChargesOf
    <3>3. 0 \in T0
      OBVIOUS
    <3> HIDE DEF w, v, n, T0
    <3>4. /\ Append(w, 0) \in Seq(T0) /\ Len(Append(w, 0)) = n + 1
          /\ \A h \in 1 .. n : Append(w, 0)[h] = w[h]
          /\ Append(w, 0)[n + 1] = 0
      BY <2>1, <3>3, AppendProperties
    <3>5. \A h \in 1 .. Len(v) : v[h] = Append(w, 0)[h]
      BY <2>1, <2>2, <3>1, <3>2, <3>4
    <3>6. v = Append(w, 0)
      BY <2>1, <3>1, <3>4, <3>5, SeqEqual
    <3>7. Cache!Total(Append(w, 0)) = Cache!Total(w) + 0 /\ Cache!Total(w) \in Int
      <4>1. w \in Seq(Int) /\ 0 \in Int
        BY <2>1 DEF T0
      <4>2. Cache!Total(Append(w, 0)) = Cache!Total(w) + 0
        BY ONLY <4>1, TotalAppended
      <4>3. Cache!Total(w) = x.usage
        BY <1>1, <1>3 DEF Counted, w
      <4> QED BY <1>4, <4>2, <4>3 DEF ShardStates
    <3> QED BY <3>6, <3>7 DEF v, w
  <2> QED BY <2>3, <2>4
<1>8. /\ {h \in InCache(f, j) : K[h] = 0} = {h \in InCache(e, j) : H[h] = 0}
      /\ {h \in InCache(f, j) : K[h] > 0} = {h \in InCache(e, j) : H[h] > 0}
  BY <1>5, <1>6
<1>9. Lists(<<>>, Unreferenced(f) \ Unreferenced(f))
  BY ListsNothing
<1>10. Counted(T, j, K, Unreferenced(f))
  BY <1>1, <1>2, <1>3, <1>4, <1>7, <1>8, <1>9 DEF Counted
<1>11. Finds(x.table, f, InCache(f, j))
  <2>1. \A h \in InCache(e, j) : f[h].key = e[h].key
    BY <1>5
  <2> QED BY <1>3, <1>6, <2>1, FindsByKeys
<1>12. Good(T, j, K, Unreferenced(f))
  BY <1>1, <1>10, <1>11 DEF Good
<1> QED BY <1>12 DEF T

\* The deleter's runs after a method of shard i left T.
Runs(d, T) ==
  [h \in DOMAIN T.e |-> (IF h \in DOMAIN d THEN d[h] ELSE 0)
                        + Cache!Cardinality({j \in DOMAIN T.d : T.d[j] = h})]

\* What a method that keeps its own shard right stores keeps the cache right.
LEMMA CommitKeeps ==
  ASSUME NEW e, NEW s, NEW H, NEW d, Balanced(e, s, H, d), NEW i \in Cache!Shards,
         NEW T, NEW K, Good(T, i, K, Unreferenced(e)), Kept(e, T.e, i),
         DOMAIN T.e = DOMAIN e \/ DOMAIN T.e = DOMAIN e \cup {Len(e) + 1},
         \A h \in DOMAIN e : Cache!Shard(e[h].key) # i => K[h] = H[h]
  PROVE  Balanced(T.e, [s EXCEPT ![i] = T.s], K, Runs(d, T))
<1> DEFINE f == T.e
           r == [s EXCEPT ![i] = T.s]
<1>1. /\ f \in Seq(EntryRecord) /\ T.s \in ShardStates /\ K \in [DOMAIN f -> Nat] /\ T \in Work
      /\ \A h \in DOMAIN f : f[h].refs = Holders(f, K, h)
      /\ Unreferenced(e) \subseteq Unreferenced(f) /\ Lists(T.d, Unreferenced(f) \ Unreferenced(e))
  <2>1. Counted(T, i, K, Unreferenced(e))
    BY DEF Good
  <2> QED BY <2>1, CachedEntries, WorkTypes DEF Counted
<1>2. /\ s \in [Cache!Shards -> ShardStates] /\ d = [h \in DOMAIN e |-> IF e[h].refs = 0 THEN 1 ELSE 0]
      /\ \A j \in Cache!Shards : Good([s |-> s[j], e |-> e, d |-> <<>>], j, H, Unreferenced(e))
  BY DEF Balanced
<1> HIDE DEF f
<1>3. r \in [Cache!Shards -> ShardStates] /\ r[i] = T.s /\ \A j \in Cache!Shards : j # i => r[j] = s[j]
  BY <1>1, <1>2
<1> HIDE DEF r
<1>4. Runs(d, T) = [h \in DOMAIN f |-> IF f[h].refs = 0 THEN 1 ELSE 0]
  <2> DEFINE D == Unreferenced(f) \ Unreferenced(e)
  <2>1. ASSUME NEW h \in DOMAIN f
        PROVE  (IF h \in DOMAIN d THEN d[h] ELSE 0) + Cache!Cardinality({j \in DOMAIN T.d : T.d[j] = h})
                 = IF f[h].refs = 0 THEN 1 ELSE 0
    <3>1. Cache!Cardinality({j \in DOMAIN T.d : T.d[j] = h}) = IF h \in D THEN 1 ELSE 0
      <4> HIDE DEF D
      <4>1. Lists(T.d, D)
        BY <1>1 DEF D
      <4> QED BY <4>1, TimesListed
    <3>2. (IF h \in DOMAIN d THEN d[h] ELSE 0) = IF h \in Unreferenced(e) THEN 1 ELSE 0
      BY <1>2 DEF Unreferenced
    <3>3. h \in Unreferenced(f) <=> f[h].refs = 0
      BY DEF Unreferenced
    <3> DEFINE a == IF h \in DOMAIN d THEN d[h] ELSE 0
               b == Cache!Cardinality({j \in DOMAIN T.d : T.d[j] = h})
               old == h \in Unreferenced(e)
               now == h \in Unreferenced(f)
    <3>4. h \in D <=> now /\ ~old
      OBVIOUS
    <3>5. old => now
      BY <1>1
    <3> HIDE DEF f, D, a, b, old, now
    <3>6. a = (IF old THEN 1 ELSE 0) /\ b = IF now /\ ~old THEN 1 ELSE 0
      BY <3>1, <3>2, <3>4 DEF a, b, old
    <3>7. a + b = IF now THEN 1 ELSE 0
      BY <3>5, <3>6
    <3> QED BY <3>3, <3>7 DEF a, b, now
  <2> QED BY <2>1 DEF Runs, f
<1>5. ASSUME NEW j \in Cache!Shards
      PROVE  Good([s |-> r[j], e |-> f, d |-> <<>>], j, K, Unreferenced(f))
  <2>1. CASE j = i
    <3> DEFINE U == [s |-> T.s, e |-> f, d |-> <<>>]
    <3>1. U.s = T.s /\ U.e = f /\ U.d = <<>>
      OBVIOUS
    <3>2. U \in Work
      BY <1>1 DEF Work
    <3> HIDE DEF U
    <3>3. Counted(T, i, K, Unreferenced(e)) /\ Finds(T.s.table, f, InCache(f, i))
      BY DEF Good, f
    <3>4. Lists(<<>>, Unreferenced(f) \ Unreferenced(f))
      BY ListsNothing
    <3>5. Counted(U, i, K, Unreferenced(f))
      BY <1>1, <3>1, <3>2, <3>3, <3>4 DEF Counted, f
    <3>6. Good(U, i, K, Unreferenced(f))
      BY <3>1, <3>3, <3>5 DEF Good
    <3> QED BY <1>3, <2>1, <3>6 DEF U
  <2>2. CASE j # i
    <3>1. Good([s |-> s[j], e |-> e, d |-> <<>>], j, H, Unreferenced(e)) /\ r[j] = s[j]
      BY <1>2, <1>3, <2>2
    <3>2. Good([s |-> s[j], e |-> f, d |-> <<>>], j, K, Unreferenced(f))
      BY <1>1, <2>2, <3>1, OtherShardKept DEF f
    <3> QED BY <3>1, <3>2
  <2> QED BY <2>1, <2>2
<1>6. Balanced(f, r, K, Runs(d, T))
  BY <1>1, <1>3, <1>4, <1>5 DEF Balanced
<1> QED BY <1>6 DEF f, r

\* The entries, shards, handles and runs of the deleter agree.
CacheBalanced == Balanced(entry, shard, held, deleted)

\* Every key has a shard.
LEMMA ShardsOfKeys ==
  /\ \A key \in Nat : Cache!Shard(key) \in Cache!Shards
  /\ CacheKeys \subseteq Nat /\ Charges \subseteq Nat
<1>1. kNumShards \in Nat \ {0} /\ CacheKeys \subseteq Nat /\ Charges \subseteq Nat
  BY CacheParameters
<1>2. ASSUME NEW key \in Nat PROVE Cache!Shard(key) \in Cache!Shards
  BY <1>1 DEF Cache!Shard, Cache!Shards
<1> QED BY <1>1, <1>2

\* What a method starts from.
LEMMA StatesAreGood ==
  ASSUME CacheBalanced, NEW i \in Cache!Shards
  PROVE  /\ Good(Cache!State(i), i, held, Unreferenced(entry))
         /\ Cache!State(i).e = entry /\ Cache!State(i).s = shard[i]
         /\ entry \in Seq(EntryRecord) /\ held \in [DOMAIN entry -> Nat]
BY DEF CacheBalanced, Balanced, Cache!State

\* A method of shard i that leaves T and the handles K.
LEMMA MethodKeeps ==
  ASSUME CacheBalanced, NEW i \in Cache!Shards, NEW T, Cache!Commit(i, T),
         NEW K, held' = K, Good(T, i, K, Unreferenced(entry)), Kept(entry, T.e, i),
         DOMAIN T.e = DOMAIN entry \/ DOMAIN T.e = DOMAIN entry \cup {Len(entry) + 1},
         \A h \in DOMAIN entry : Cache!Shard(entry[h].key) # i => K[h] = held[h]
  PROVE  CacheBalanced'
<1>1. /\ entry' = T.e /\ shard' = [shard EXCEPT ![i] = T.s] /\ deleted' = Runs(deleted, T)
  BY DEF Cache!Commit, Runs
<1>2. Balanced(entry, shard, held, deleted)
  BY DEF CacheBalanced
<1>3. Balanced(T.e, [shard EXCEPT ![i] = T.s], K, Runs(deleted, T))
  BY <1>2, CommitKeeps
<1> QED BY <1>1, <1>3 DEF CacheBalanced

\* Init: no entry and nothing to find.
LEMMA CacheStartsBalanced == Cache!Init => CacheBalanced
<1> SUFFICES ASSUME Cache!Init PROVE Balanced(<<>>, shard, <<>>, <<>>)
  BY DEF CacheBalanced, Cache!Init
<1> DEFINE t == Cache!EmptyTable(InitialLength)
           x == [usage |-> 0, lru |-> <<>>, in_use |-> <<>>, table |-> t]
<1>1. InitialLength \in Nat \ {0}
  BY CacheParameters
<1>2. t = [length |-> InitialLength, elems |-> 0, list |-> [b \in 0 .. InitialLength - 1 |-> <<>>]]
  BY DEF Cache!EmptyTable
<1>3. t \in Tables /\ t.elems = 0 /\ t.length = InitialLength /\ t.list = [b \in 0 .. t.length - 1 |-> <<>>]
  BY <1>1, <1>2 DEF Tables, BucketLists
<1>4. shard = [i \in Cache!Shards |-> x]
  BY DEF Cache!Init
<1> HIDE DEF t
<1>5. x \in ShardStates
  BY <1>3 DEF ShardStates
<1>6. ASSUME NEW i PROVE InCache(<<>>, i) = {} /\ ChargesOf(<<>>, i) = <<>>
  BY DEF InCache, ChargesOf
<1>7. Finds(t, <<>>, {})
  <2>1. \A b : InBucket(t, <<>>, {}, b) = {}
    BY DEF InBucket
  <2>2. \A b \in 0 .. t.length - 1 : Lists(t.list[b], InBucket(t, <<>>, {}, b))
    BY <1>3, <2>1, ListsNothing
  <2>3. t.list \in [0 .. t.length - 1 -> Seq(Nat)]
    BY <1>3
  <2> QED BY <1>3, <2>2, <2>3, FS_EmptySet DEF Finds, Hashed
<1>8. Unreferenced(<<>>) = {}
  BY DEF Unreferenced
<1>9. ASSUME NEW i \in Cache!Shards
      PROVE  Good([s |-> x, e |-> <<>>, d |-> <<>>], i, <<>>, Unreferenced(<<>>))
  <2> DEFINE S == [s |-> x, e |-> <<>>, d |-> <<>>]
  <2>1. S.e = <<>> /\ S.d = <<>> /\ S.s = x /\ x.usage = 0 /\ x.lru = <<>> /\ x.in_use = <<>> /\ x.table = t
    OBVIOUS
  <2>2. S \in Work
    BY <1>5 DEF Work
  <2> HIDE DEF S, x
  <2>3. Counted(S, i, <<>>, {})
    <3>1. <<>> \in [DOMAIN <<>> -> Nat] /\ DOMAIN <<>> = {}
      OBVIOUS
    <3>2. Lists(<<>>, {} \ {}) /\ Lists(<<>>, {h \in {} : <<>>[h] = 0}) /\ Lists(<<>>, {h \in {} : <<>>[h] > 0})
      <4>1. {} \ {} = {} /\ {h \in {} : <<>>[h] = 0} = {} /\ {h \in {} : <<>>[h] > 0} = {}
        OBVIOUS
      <4> QED BY ONLY <4>1, ListsNothing
    <3>3. S.s.usage = Cache!Total(ChargesOf(<<>>, i)) /\ InCache(<<>>, i) = {}
      BY <1>6, <2>1, TotalOfNone
    <3> QED BY <1>8, <2>1, <2>2, <3>1, <3>2, <3>3 DEF Counted
  <2>4. Good(S, i, <<>>, {})
    BY <1>6, <1>7, <2>1, <2>3 DEF Good
  <2> QED BY <1>8, <2>4 DEF S
<1> HIDE DEF x
<1>10. shard \in [Cache!Shards -> ShardStates] /\ \A i \in Cache!Shards : shard[i] = x
  BY <1>4, <1>5
<1> QED BY <1>9, <1>10 DEF Balanced

\* Ref and Unref do not touch the table, so it stays right.
LEMMA DidKeeps ==
  ASSUME NEW S, NEW i, NEW H, NEW F, Good(S, i, H, F), NEW T, NEW K,
         Did(S, T, i, K, F, InCache(S.e, i))
  PROVE  Less(S, T, i, K, F)
<1>1. Finds(S.s.table, S.e, InCache(S.e, i))
  BY DEF Good
<1>2. /\ Counted(T, i, K, F) /\ T.s.table = S.s.table /\ InCache(T.e, i) = InCache(S.e, i)
      /\ Kept(S.e, T.e, i) /\ DOMAIN T.e = DOMAIN S.e
  BY DEF Did
<1>3. \A h \in InCache(S.e, i) : T.e[h].key = S.e[h].key
  BY <1>2 DEF Kept, InCache
<1>4. Finds(S.s.table, T.e, InCache(S.e, i))
  BY <1>1, <1>3, FindsByKeys
<1> QED BY <1>2, <1>4 DEF Less, Good

\* Insert: a new entry that its caller holds once.
LEMMA InsertBalanced ==
  ASSUME CacheBalanced, NEW key \in CacheKeys, NEW charge \in Charges, Cache!Insert(key, charge)
  PROVE  CacheBalanced'
<1> DEFINE i == Cache!Shard(key)
           S == Cache!State(i)
           h == Len(entry) + 1
           K == Append(held, 1)
           T == Cache!CacheInsert(S, h, key, charge)
<1>1. key \in Nat /\ charge \in Nat /\ i \in Cache!Shards
  BY ShardsOfKeys
<1>2. Cache!Commit(i, T) /\ held' = K
  BY DEF Cache!Insert
<1> HIDE DEF i
<1>3. /\ Good(S, i, held, Unreferenced(entry)) /\ S.e = entry
      /\ entry \in Seq(EntryRecord) /\ held \in [DOMAIN entry -> Nat]
  BY <1>1, StatesAreGood
<1>4. /\ K \in [DOMAIN entry \cup {h} -> Nat] /\ K[h] = 1 /\ \A g \in DOMAIN entry : K[g] = held[g]
  <2> DEFINE n == Len(entry)
             N == Nat
  <2>1. n \in Nat /\ DOMAIN entry = 1 .. n /\ held \in [1 .. n -> Nat]
    BY <1>3
  <2>2. held \in Seq(N) /\ Len(held) = n /\ 1 \in N
    BY <2>1
  <2> HIDE DEF n
  <2>3. K \in Seq(N) /\ Len(K) = n + 1 /\ K[n + 1] = 1 /\ \A g \in 1 .. n : K[g] = held[g]
    <3> HIDE DEF N
    <3> QED BY <2>2, AppendProperties
  <2> HIDE DEF K
  <2>4. K \in [1 .. n + 1 -> Nat] /\ K[n + 1] = 1 /\ \A g \in 1 .. n : K[g] = held[g]
    BY <2>3
  <2>5. 1 .. n + 1 = DOMAIN entry \cup {n + 1}
    BY <2>1 DEF n
  <2> QED BY <2>1, <2>4, <2>5 DEF n
<1> HIDE DEF K, S
<1>5. More(S, T, i, K, Unreferenced(entry))
  <2>1. Cache!Shard(key) = i /\ h = Len(S.e) + 1 /\ K \in [DOMAIN S.e \cup {h} -> Nat]
        /\ \A g \in DOMAIN S.e : K[g] = held[g]
    BY <1>3, <1>4 DEF i
  <2> HIDE DEF h
  <2> QED BY <1>1, <1>3, <1>4, <2>1, CacheInsertKeeps
<1> HIDE DEF T
<1> QED BY <1>1, <1>2, <1>3, <1>4, <1>5, MethodKeeps DEF More

\* Lookup: one handle more of the entry found.
LEMMA LookupBalanced ==
  ASSUME CacheBalanced, NEW key \in CacheKeys, Cache!Lookup(key)
  PROVE  CacheBalanced'
<1> DEFINE i == Cache!Shard(key)
           S == Cache!State(i)
           h == Cache!TableLookup(shard[i].table, entry, key)
           K == [held EXCEPT ![h] = @ + 1]
           T == Cache!Ref(S, h)
<1>1. key \in Nat /\ i \in Cache!Shards
  BY ShardsOfKeys
<1>2. h # 0 /\ Cache!Commit(i, T) /\ held' = K
  BY DEF Cache!Lookup
<1> HIDE DEF i
<1>3. /\ Good(S, i, held, Unreferenced(entry)) /\ S.e = entry /\ S.s = shard[i]
      /\ entry \in Seq(EntryRecord) /\ held \in [DOMAIN entry -> Nat]
  BY <1>1, StatesAreGood
<1>4. Counted(S, i, held, Unreferenced(entry)) /\ Hashed(shard[i].table, entry, InCache(entry, i))
      /\ Entries(entry, InCache(entry, i))
  BY <1>3, CachedEntries DEF Good, Finds
<1>5. h \in InCache(entry, i)
  BY <1>1, <1>2, <1>4, LookupFinds
<1> HIDE DEF S, h
<1>6. K = [held EXCEPT ![h] = @ + 1]
  OBVIOUS
<1>7. \A g \in DOMAIN entry : Cache!Shard(entry[g].key) # i => K[g] = held[g]
  BY <1>3, <1>5 DEF InCache
<1> HIDE DEF K
<1>8. Did(S, T, i, K, Unreferenced(entry), InCache(S.e, i))
  BY <1>3, <1>4, <1>5, <1>6, RefCounts
<1> HIDE DEF T
<1>9. Less(S, T, i, K, Unreferenced(entry))
  BY <1>3, <1>8, DidKeeps
<1> QED BY <1>1, <1>2, <1>3, <1>7, <1>9, MethodKeeps DEF Less

\* Release: one handle less.
LEMMA ReleaseBalanced ==
  ASSUME CacheBalanced, NEW h \in DOMAIN entry, Cache!Release(h)
  PROVE  CacheBalanced'
<1> DEFINE i == Cache!Shard(entry[h].key)
           S == Cache!State(i)
           K == [held EXCEPT ![h] = @ - 1]
           T == Cache!Unref(S, h)
<1>0. entry \in Seq(EntryRecord)
  BY DEF CacheBalanced, Balanced
<1>1. entry[h].key \in Nat /\ i \in Cache!Shards
  BY <1>0, EntryTypes, ShardsOfKeys
<1>2. held[h] > 0 /\ Cache!Commit(i, T) /\ held' = K
  BY DEF Cache!Release
<1>3. Cache!Shard(entry[h].key) = i
  OBVIOUS
<1> HIDE DEF i
<1>4. /\ Good(S, i, held, Unreferenced(entry)) /\ S.e = entry /\ held \in [DOMAIN entry -> Nat]
      /\ Counted(S, i, held, Unreferenced(entry))
  BY <1>1, StatesAreGood DEF Good
<1> HIDE DEF S
<1>5. K = [held EXCEPT ![h] = @ - 1]
  OBVIOUS
<1>6. \A g \in DOMAIN entry : Cache!Shard(entry[g].key) # i => K[g] = held[g]
  BY <1>3, <1>4
<1> HIDE DEF K
<1>7. Did(S, T, i, K, Unreferenced(entry), InCache(S.e, i))
  BY <1>2, <1>3, <1>4, <1>5, UnrefCounts
<1> HIDE DEF T
<1>8. Less(S, T, i, K, Unreferenced(entry))
  BY <1>4, <1>7, DidKeeps
<1> QED BY <1>1, <1>2, <1>4, <1>6, <1>8, MethodKeeps DEF Less

\* Erase: the cache's own reference.
LEMMA EraseBalanced ==
  ASSUME CacheBalanced, NEW key \in CacheKeys, Cache!Erase(key)
  PROVE  CacheBalanced'
<1> DEFINE i == Cache!Shard(key)
           S == Cache!State(i)
           T == Cache!EraseKey(S, key)
<1>1. key \in Nat /\ i \in Cache!Shards
  BY ShardsOfKeys
<1>2. Cache!Commit(i, T) /\ held' = held
  BY DEF Cache!Erase
<1> HIDE DEF i
<1>3. Good(S, i, held, Unreferenced(entry)) /\ S.e = entry
  BY <1>1, StatesAreGood
<1> HIDE DEF S
<1>4. Less(S, T, i, held, Unreferenced(entry))
  BY <1>1, <1>3, EraseKeyKeeps
<1> HIDE DEF T
<1> QED BY <1>1, <1>2, <1>3, <1>4, MethodKeeps DEF Less

\* Prune of one shard: the LRU list of that shard is emptied.
LEMMA PruneBalanced ==
  ASSUME CacheBalanced, NEW i \in Cache!Shards, Cache!Prune(i)
  PROVE  CacheBalanced'
<1> DEFINE S == Cache!State(i)
           T == Cache!EvictAll(S)
<1>1. Cache!Commit(i, T) /\ held' = held
  BY DEF Cache!Prune
<1>2. Good(S, i, held, Unreferenced(entry)) /\ S.e = entry
  BY StatesAreGood
<1> HIDE DEF S
<1>3. Less(S, T, i, held, Unreferenced(entry))
  BY <1>2, EvictAllKeeps
<1> HIDE DEF T
<1> QED BY <1>1, <1>2, <1>3, MethodKeeps DEF Less

\* The set of a sequence that lists it, without repetition.
LEMMA ListedSet ==
  ASSUME NEW q, NEW C, Lists(q, C)
  PROVE  Cache!ToSet(q) = C /\ Cache!IsInjective(q)
<1>1. q \in Seq(C) /\ DOMAIN q = 1 .. Len(q)
  BY DEF Lists
<1>2. Cache!ToSet(q) = {q[j] : j \in DOMAIN q}
  BY DEF Cache!ToSet
<1>3. Cache!ToSet(q) = C
  <2>1. \A j \in DOMAIN q : q[j] \in C
    BY <1>1
  <2>2. \A h \in C : \E j \in DOMAIN q : q[j] = h
    BY <1>1 DEF Lists
  <2> QED BY <1>2, <2>1, <2>2
<1>4. Cache!IsInjective(q)
  <2>1. \A j, k \in DOMAIN q : q[j] = q[k] => j = k
    BY <1>1 DEF Lists
  <2> QED BY <2>1 DEF Cache!IsInjective
<1> QED BY <1>3, <1>4

\* The invariant says what the property says.
LEMMA BalancedAccounts == CacheBalanced => CacheAccounting
<1> SUFFICES ASSUME CacheBalanced PROVE Cache!CacheAccounting
  BY DEF CacheAccounting
<1>1. /\ entry \in Seq(EntryRecord) /\ held \in [DOMAIN entry -> Nat]
      /\ deleted = [h \in DOMAIN entry |-> IF entry[h].refs = 0 THEN 1 ELSE 0]
      /\ \A i \in Cache!Shards : Good(Cache!State(i), i, held, Unreferenced(entry))
  BY StatesAreGood DEF CacheBalanced, Balanced
<1>2. ASSUME NEW h \in DOMAIN entry
      PROVE  /\ entry[h].refs = held[h] + (IF entry[h].in_cache THEN 1 ELSE 0)
             /\ deleted[h] = IF entry[h].refs = 0 THEN 1 ELSE 0
  <2> DEFINE i == Cache!Shard(entry[h].key)
  <2>1. i \in Cache!Shards
    BY <1>1, EntryTypes, ShardsOfKeys
  <2> HIDE DEF i
  <2>2. Counted(Cache!State(i), i, held, Unreferenced(entry)) /\ Cache!State(i).e = entry
    BY <1>1, <2>1, StatesAreGood DEF Good
  <2>3. entry[h].refs = Holders(entry, held, h)
    BY <2>2 DEF Counted
  <2> QED BY <1>1, <2>3 DEF Holders
<1>3. ASSUME NEW i \in Cache!Shards
      PROVE  LET s == shard[i]
             IN /\ s.usage = Cache!Total([h \in DOMAIN entry |-> IF h \in Cache!Cached(i) THEN entry[h].charge ELSE 0])
                /\ Cache!ToSet(s.lru) = {h \in Cache!Cached(i) : held[h] = 0}
                /\ Cache!ToSet(s.in_use) = {h \in Cache!Cached(i) : held[h] > 0}
                /\ Cache!IsInjective(s.lru) /\ Cache!IsInjective(s.in_use)
                /\ s.table.elems = Cache!Cardinality(Cache!Cached(i))
                /\ \A h \in Cache!Cached(i) : Cache!TableLookup(s.table, entry, entry[h].key) = h
  <2> DEFINE C == Cache!Cached(i)
             s == shard[i]
  <2>1. C = InCache(entry, i)
    BY DEF InCache, Cache!Cached
  <2>2. /\ Counted(Cache!State(i), i, held, Unreferenced(entry)) /\ Finds(s.table, entry, C)
        /\ Cache!State(i).e = entry /\ Cache!State(i).s = s
    BY <2>1, StatesAreGood DEF Good
  <2>3. /\ s.usage = Cache!Total(ChargesOf(entry, i))
        /\ Lists(s.lru, {h \in C : held[h] = 0}) /\ Lists(s.in_use, {h \in C : held[h] > 0})
    BY <2>1, <2>2 DEF Counted
  <2>4. Entries(entry, C)
    BY <2>1, <2>2, CachedEntries
  <2>5. ChargesOf(entry, i) = [h \in DOMAIN entry |-> IF h \in C THEN entry[h].charge ELSE 0]
    BY <2>1 DEF ChargesOf
  <2> HIDE DEF C, s
  <2>6. /\ Cache!ToSet(s.lru) = {h \in C : held[h] = 0} /\ Cache!IsInjective(s.lru)
        /\ Cache!ToSet(s.in_use) = {h \in C : held[h] > 0} /\ Cache!IsInjective(s.in_use)
    BY <2>3, ListedSet
  <2>7. s.table.elems = Cache!Cardinality(C)
    BY <2>2, SameCardinality DEF Finds
  <2>8. \A h \in C : Cache!TableLookup(s.table, entry, entry[h].key) = h
    BY <2>2, <2>4, LookupOf
  <2> QED BY <2>3, <2>5, <2>6, <2>7, <2>8 DEF C, s
<1> QED BY <1>2, <1>3 DEF Cache!CacheAccounting

\* LRUCache::Insert, Lookup, Release, Erase and Prune: no entry is freed while
\* the cache or a client refers to it and every other is freed once, the usage
\* is the charge of what is cached, the two lists divide it by whether a client
\* holds it, and the hash table finds each key's entry, for any number of
\* shards and insertions, any keys, charges and capacity.
THEOREM CacheIsBalanced == Spec => []CacheAccounting
<1>1. Init => CacheBalanced
  BY CacheStartsBalanced DEF Init
<1>2. CacheBalanced /\ [Next]_vars => CacheBalanced'
  <2> SUFFICES ASSUME CacheBalanced, [Next]_vars PROVE CacheBalanced'
    OBVIOUS
  <2>1. ASSUME part = "cache", Cache!Next PROVE CacheBalanced'
    BY <2>1, InsertBalanced, LookupBalanced, ReleaseBalanced, EraseBalanced, PruneBalanced DEF Cache!Next
  <2>2. CASE UNCHANGED cacheVars
    BY <2>2 DEF cacheVars, CacheBalanced
  <2> QED BY <2>1, <2>2 DEF Next, vars
<1>3. CacheBalanced => CacheAccounting
  BY BalancedAccounts
<1> QED BY <1>1, <1>2, <1>3, PTL DEF Spec

-----------------------------------------------------------------------------
(* The app                                                                 *)

Controllers == {"LoginVC", "SetNameVC", "InstructionsVC", "DetectionVC", "HistoryVC", "InfoVC"}
RowType == [record : Records, image : Records \cup {NULL}]
ScreenType == [vc : Controllers, running : BOOLEAN, login : Accounts \cup {NULL},
               rows : Seq(RowType), seen : SUBSET Records, events : Nat]

-----------------------------------------------------------------------------
(* Sequences and sets                                                      *)

\* AppScreens has the finite sets, cardinalities and injections of this module.
LEMMA LibraryAgrees ==
  /\ \A S : App!IsFiniteSet(S) = IsFiniteSet(S)
  /\ \A S : App!Cardinality(S) = Cardinality(S)
  /\ \A f : App!IsInjective(f) = IsInjective(f)
<1>1. \A S : App!IsFiniteSet(S) = IsFiniteSet(S)
  BY DEF App!IsFiniteSet, IsFiniteSet
<1>2. \A S : App!Cardinality(S) = Cardinality(S)
  BY <1>1 DEF App!Cardinality, Cardinality
<1>3. \A f : App!IsInjective(f) = IsInjective(f)
  BY DEF App!IsInjective, IsInjective
<1> QED BY <1>1, <1>2, <1>3

\* SetToSeq enumerates a finite set.
LEMMA SetToSeqEnumerates ==
  ASSUME NEW S, IsFiniteSet(S)
  PROVE  App!SetToSeq(S) \in Seq(S) /\ App!ToSet(App!SetToSeq(S)) = S
<1> DEFINE n == Cardinality(S)
<1>1. n \in Nat /\ ExistsBijection(1..n, S)
  BY FS_CardinalityType
<1>2. \E f \in [1..n -> S] : IsInjective(f)
  BY <1>1 DEF ExistsBijection, Bijection, Injection
<1>3. App!SetToSeq(S) \in [1..n -> S] /\ IsInjective(App!SetToSeq(S))
  BY <1>2, LibraryAgrees DEF App!SetToSeq
<1>4. App!SetToSeq(S) \in Injection(1..n, S)
  BY <1>3 DEF Injection
<1>5. Cardinality(1..n) = Cardinality(S)
  BY <1>1, FS_Interval
<1>6. App!SetToSeq(S) \in Surjection(1..n, S)
  BY <1>4, <1>5, FS_Injection
<1>7. App!SetToSeq(S) \in Seq(S)
  BY <1>1, <1>3
<1>8. \A s \in S : \E i \in 1..n : App!SetToSeq(S)[i] = s
  BY <1>6 DEF Surjection
<1> QED BY <1>3, <1>7, <1>8 DEF App!ToSet

\* What is left of a sequence without its i-th element.
LEMMA RemoveAtElements ==
  ASSUME NEW S, NEW s \in Seq(S), NEW i \in DOMAIN s
  PROVE  App!RemoveAt(s, i) \in Seq(S)
<1>1. SubSeq(s, 1, i-1) \in Seq(S) /\ SubSeq(s, i+1, Len(s)) \in Seq(S)
  BY SubSeqProperties
<1> QED BY <1>1, ConcatProperties DEF App!RemoveAt

\* The elements of a sequence to which others are appended.
LEMMA ToSetConcat ==
  ASSUME NEW S, NEW s \in Seq(S), NEW t \in Seq(S)
  PROVE  s \o t \in Seq(S) /\ App!ToSet(s \o t) = App!ToSet(s) \cup App!ToSet(t)
<1>1. /\ s \o t \in Seq(S) /\ Len(s \o t) = Len(s) + Len(t)
      /\ \A i \in 1..Len(s) : (s \o t)[i] = s[i]
      /\ \A i \in 1..Len(t) : (s \o t)[Len(s) + i] = t[i]
  BY ConcatProperties
<1>2. App!ToSet(s \o t) \subseteq App!ToSet(s) \cup App!ToSet(t)
  <2> SUFFICES ASSUME NEW i \in 1..Len(s) + Len(t)
               PROVE  (s \o t)[i] \in App!ToSet(s) \cup App!ToSet(t)
    BY <1>1 DEF App!ToSet
  <2>1. CASE i <= Len(s)
    BY <1>1, <2>1 DEF App!ToSet
  <2>2. CASE i > Len(s)
    <3>1. i - Len(s) \in 1..Len(t) /\ i = Len(s) + (i - Len(s))
      BY <2>2
    <3> QED BY <1>1, <3>1 DEF App!ToSet
  <2> QED BY <2>1, <2>2
<1>3. App!ToSet(s) \subseteq App!ToSet(s \o t)
  BY <1>1 DEF App!ToSet
<1>4. App!ToSet(t) \subseteq App!ToSet(s \o t)
  <2> SUFFICES ASSUME NEW i \in 1..Len(t) PROVE t[i] \in App!ToSet(s \o t)
    BY DEF App!ToSet
  <2>1. Len(s) + i \in 1..Len(s) + Len(t)
    OBVIOUS
  <2> QED BY <1>1, <2>1 DEF App!ToSet
<1> QED BY <1>1, <1>2, <1>3, <1>4

-----------------------------------------------------------------------------
(* The inductive invariant                                                 *)

LoginInv ==
  /\ signIns \in Seq(Accounts)
  /\ firebaseUser \in Accounts \cup {NULL}
  /\ App!SignedIn

HistoryInv ==
  /\ server \in SUBSET Records
  /\ downloads \in Seq(server)
  /\ image \in server \cup {NULL}

\* The listener of a screen was told of records of its account that are still
\* known to the server, and every row shows one of them.
Covered(s, known) ==
  /\ s.seen \subseteq {r \in known : OwnerOf[r] = s.login}
  /\ {row.record : row \in App!ToSet(s.rows)} = s.seen
  /\ \A row \in App!ToSet(s.rows) : OwnerOf[row.record] = s.login /\ row.image \in known \cup {NULL}

\* A stack of controllers over a LoginVC, of which only the last may run a
\* camera, and only when it is a DetectionVC.
Stack(stack, known) ==
  /\ stack \in Seq(ScreenType) /\ stack # <<>>
  /\ stack[1].vc = "LoginVC"
  /\ \A i \in DOMAIN stack :
       /\ stack[i].running => i = Len(stack) /\ stack[i].vc = "DetectionVC"
       /\ Covered(stack[i], known)

AppInv == LoginInv /\ HistoryInv /\ Stack(screens, server)

LEMMA AppInvImplies == AppInv => App!ScreensAreServed /\ App!RowsCoverRecords
  BY DEF AppInv, LoginInv, Stack, Covered, App!ScreensAreServed, App!OneCamera, App!RowsCoverRecords

\* A controller that was just created.
NewRecord(vc, login, running) ==
  [vc |-> vc, running |-> running, login |-> login, rows |-> <<>>, seen |-> {}, events |-> 0]

LEMMA NewScreen ==
  ASSUME NEW vc \in Controllers, NEW login \in Accounts \cup {NULL}, NEW running \in BOOLEAN
  PROVE  /\ NewRecord(vc, login, running) \in ScreenType
         /\ NewRecord(vc, login, running).vc = vc
         /\ NewRecord(vc, login, running).running = running
         /\ \A known : Covered(NewRecord(vc, login, running), known)
<1> DEFINE s == NewRecord(vc, login, running)
<1>1. s.rows = <<>> /\ s.seen = {} /\ s.vc = vc /\ s.running = running
  BY DEF NewRecord
<1>2. <<>> \in Seq(RowType)
  OBVIOUS
<1>3. s \in ScreenType
  BY <1>2 DEF ScreenType, NewRecord
<1>4. App!ToSet(<<>>) = {}
  BY DEF App!ToSet
<1>5. {row.record : row \in App!ToSet(s.rows)} = {}
  BY <1>1, <1>4
<1>6. \A known : Covered(s, known)
  BY <1>1, <1>4, <1>5 DEF Covered
<1> QED BY <1>1, <1>3, <1>6

LEMMA CreatedScreens ==
  /\ \A vc : App!Screen(vc) = NewRecord(vc, NULL, FALSE)
  /\ [App!Screen("DetectionVC") EXCEPT !.running = TRUE] = NewRecord("DetectionVC", NULL, TRUE)
  /\ \A login : [App!Screen("HistoryVC") EXCEPT !.login = login] = NewRecord("HistoryVC", login, FALSE)
<1>1. \A vc : App!Screen(vc) = NewRecord(vc, NULL, FALSE)
  BY DEF App!Screen, NewRecord
<1>2. ASSUME NEW vc, NEW login, NEW running, NEW rows, NEW seen, NEW events, NEW running2
      PROVE  [[vc |-> vc, running |-> running, login |-> login, rows |-> rows, seen |-> seen, events |-> events]
                EXCEPT !.running = running2]
               = [vc |-> vc, running |-> running2, login |-> login, rows |-> rows, seen |-> seen, events |-> events]
  OBVIOUS
<1>3. ASSUME NEW vc, NEW login, NEW running, NEW rows, NEW seen, NEW events, NEW login2
      PROVE  [[vc |-> vc, running |-> running, login |-> login, rows |-> rows, seen |-> seen, events |-> events]
                EXCEPT !.login = login2]
               = [vc |-> vc, running |-> running, login |-> login2, rows |-> rows, seen |-> seen, events |-> events]
  OBVIOUS
<1>4. [App!Screen("DetectionVC") EXCEPT !.running = TRUE] = NewRecord("DetectionVC", NULL, TRUE)
  <2>1. PICK on, off, none, rows, seen, events :
          on = TRUE /\ off = FALSE /\ none = NULL /\ rows = <<>> /\ seen = {} /\ events = 0
    OBVIOUS
  <2>2. [[vc |-> "DetectionVC", running |-> off, login |-> none, rows |-> rows, seen |-> seen, events |-> events]
                EXCEPT !.running = on]
               = [vc |-> "DetectionVC", running |-> on, login |-> none, rows |-> rows, seen |-> seen, events |-> events]
    BY <1>2
  <2> QED BY <2>1, <2>2 DEF App!Screen, NewRecord
<1>5. ASSUME NEW login
      PROVE  [App!Screen("HistoryVC") EXCEPT !.login = login] = NewRecord("HistoryVC", login, FALSE)
  <2>1. PICK off, none, rows, seen, events :
          off = FALSE /\ none = NULL /\ rows = <<>> /\ seen = {} /\ events = 0
    OBVIOUS
  <2>2. [[vc |-> "HistoryVC", running |-> off, login |-> none, rows |-> rows, seen |-> seen, events |-> events]
                EXCEPT !.login = login]
               = [vc |-> "HistoryVC", running |-> off, login |-> login, rows |-> rows, seen |-> seen, events |-> events]
    BY <1>3
  <2> QED BY <2>1, <2>2 DEF App!Screen, NewRecord
<1> QED BY <1>1, <1>4, <1>5

LEMMA InitAppInv == App!Init => AppInv
<1> SUFFICES ASSUME App!Init PROVE AppInv
  OBVIOUS
<1> DEFINE s == NewRecord("LoginVC", NULL, FALSE)
<1>1. screens = <<s>>
  BY CreatedScreens DEF App!Init
<1>2. s \in ScreenType /\ s.vc = "LoginVC" /\ s.running = FALSE /\ Covered(s, server)
  BY NewScreen DEF Controllers
<1> HIDE DEF s
<1>3. Len(screens) = 1 /\ DOMAIN screens = {1} /\ screens[1] = s /\ screens # <<>> /\ screens \in Seq(ScreenType)
  BY <1>1, <1>2
<1> QED BY <1>2, <1>3 DEF AppInv, LoginInv, HistoryInv, Stack, App!SignedIn, App!Init

-----------------------------------------------------------------------------
(* What the actions do to the stack                                        *)

\* A record added to the server leaves every screen as right as it was.
LEMMA StackGrows ==
  ASSUME NEW stack, NEW known, NEW more, Stack(stack, known), known \subseteq more
  PROVE  Stack(stack, more)
  BY DEF Stack, Covered

\* A controller presented on a stack where no camera runs.
LEMMA PresentOnStack ==
  ASSUME NEW stack, NEW known, Stack(stack, known), \A i \in DOMAIN stack : ~stack[i].running,
         NEW vc \in Controllers, NEW login \in Accounts \cup {NULL}, NEW running \in BOOLEAN,
         running => vc = "DetectionVC"
  PROVE  /\ Stack(Append(stack, NewRecord(vc, login, running)), known)
         /\ Len(Append(stack, NewRecord(vc, login, running))) > 1
<1> DEFINE s == NewRecord(vc, login, running)
<1>1. /\ s \in ScreenType /\ s.vc = vc /\ s.running = running /\ Covered(s, known)
  BY NewScreen
<1> HIDE DEF s
<1> DEFINE new == Append(stack, s)
<1>2. stack \in Seq(ScreenType) /\ Len(stack) >= 1
  BY DEF Stack
<1>3. /\ new \in Seq(ScreenType) /\ Len(new) = Len(stack) + 1
      /\ \A i \in 1..Len(stack) : new[i] = stack[i]
      /\ new[Len(new)] = s
  BY <1>1, <1>2, AppendProperties
<1>4. DOMAIN new = 1..Len(stack) + 1 /\ DOMAIN stack = 1..Len(stack) /\ new # <<>> /\ new[1] = stack[1]
  BY <1>2, <1>3
<1> HIDE DEF new
<1>5. ASSUME NEW i \in DOMAIN new
      PROVE  /\ new[i].running => i = Len(new) /\ new[i].vc = "DetectionVC"
             /\ Covered(new[i], known)
  <2>1. CASE i \in 1..Len(stack)
    BY <1>3, <1>4, <2>1 DEF Stack
  <2>2. CASE i = Len(new)
    BY <1>1, <1>3, <2>2
  <2> QED BY <1>2, <1>3, <1>4, <2>1, <2>2
<1>6. Stack(new, known) /\ Len(new) > 1
  BY <1>2, <1>3, <1>4, <1>5 DEF Stack
<1> QED BY <1>6 DEF new, s

\* Only a DetectionVC that is visible has a camera running.
LEMMA NoCameraElsewhere ==
  ASSUME Stack(screens, server), screens[Len(screens)].vc # "DetectionVC"
  PROVE  \A i \in DOMAIN screens : ~screens[i].running
  BY DEF Stack

-----------------------------------------------------------------------------
(* The sign-ins                                                            *)

LEMMA SignInStep ==
  ASSUME NULL \notin Accounts, AppInv, NEW i, NEW error \in BOOLEAN, App!signInCompleted(i, error)
  PROVE  AppInv'
<1>1. signIns \in Seq(Accounts) /\ i \in DOMAIN signIns /\ signIns' = App!RemoveAt(signIns, i)
  BY DEF AppInv, LoginInv, App!signInCompleted
<1>2. signIns' \in Seq(Accounts) /\ signIns[i] \in Accounts
  BY <1>1, RemoveAtElements
<1>3. firebaseUser' \in Accounts \cup {NULL} /\ (~error => firebaseUser' # NULL)
        /\ (firebaseUser # NULL => firebaseUser' # NULL)
  BY <1>2 DEF AppInv, LoginInv, App!signInCompleted
<1>4. UNCHANGED <<server, downloads, image>> /\ Stack(screens, server)
  BY DEF AppInv, App!signInCompleted, App!historyVars
<1>5. CASE screens' = screens
  BY <1>2, <1>3, <1>4, <1>5 DEF AppInv, LoginInv, HistoryInv, App!SignedIn
<1>6. CASE ~error /\ Len(screens) = 1 /\ screens' = Append(screens, App!Screen("SetNameVC"))
  <2>1. \A j \in DOMAIN screens : ~screens[j].running
    BY <1>4, <1>6 DEF Stack
  <2>2. screens' = Append(screens, NewRecord("SetNameVC", NULL, FALSE))
    BY <1>6, CreatedScreens
  <2>3. Stack(screens', server)
    BY <1>4, <2>1, <2>2, PresentOnStack DEF Controllers
  <2> QED BY <1>2, <1>3, <1>4, <1>6, <2>3 DEF AppInv, LoginInv, HistoryInv, App!SignedIn
<1> QED BY <1>5, <1>6 DEF App!signInCompleted, App!Present

\* A controller opened over a stack that runs no camera, by a signed-in user.
LEMMA OpenStep ==
  ASSUME AppInv, NEW base, Stack(base, server), \A i \in DOMAIN base : ~base[i].running,
         NEW vc \in Controllers, NEW login \in Accounts \cup {NULL}, NEW running \in BOOLEAN,
         running => vc = "DetectionVC",
         screens' = Append(base, NewRecord(vc, login, running)), firebaseUser # NULL,
         UNCHANGED <<App!loginVars, App!historyVars>>
  PROVE  AppInv'
<1>1. Stack(screens', server)
  BY PresentOnStack
<1> QED BY <1>1 DEF AppInv, LoginInv, HistoryInv, App!SignedIn, App!loginVars, App!historyVars

\* Behind LoginVC somebody is signed in.
LEMMA UserBehindLogin ==
  ASSUME AppInv, screens[Len(screens)].vc # "LoginVC"
  PROVE  firebaseUser # NULL
<1>1. Len(screens) \in Nat /\ Len(screens) # 0 /\ Len(screens) # 1
  BY DEF AppInv, Stack
<1>2. Len(screens) > 1
  BY <1>1
<1>3. App!SignedIn
  BY DEF AppInv, LoginInv
<1> QED BY <1>2, <1>3 DEF App!SignedIn

\* stopSession: the visible controller's camera stops.
LEMMA StopCamera ==
  ASSUME NEW known, Stack(screens, known)
  PROVE  LET stack == [screens EXCEPT ![Len(screens)].running = FALSE]
         IN Stack(stack, known) /\ \A i \in DOMAIN stack : ~stack[i].running
<1> DEFINE n == Len(screens)
           stack == [screens EXCEPT ![n].running = FALSE]
<1>1. screens \in Seq(ScreenType) /\ n \in DOMAIN screens /\ screens[n] \in ScreenType
  BY DEF Stack
<1>2. [screens[n] EXCEPT !.running = FALSE] \in ScreenType
  BY <1>1 DEF ScreenType
<1>3. /\ [screens[n] EXCEPT !.running = FALSE].vc = screens[n].vc
      /\ [screens[n] EXCEPT !.running = FALSE].login = screens[n].login
      /\ [screens[n] EXCEPT !.running = FALSE].rows = screens[n].rows
      /\ [screens[n] EXCEPT !.running = FALSE].seen = screens[n].seen
      /\ [screens[n] EXCEPT !.running = FALSE].running = FALSE
  BY <1>1 DEF ScreenType
<1>4. /\ stack \in Seq(ScreenType) /\ Len(stack) = n /\ DOMAIN stack = DOMAIN screens
      /\ \A i \in DOMAIN screens : i # n => stack[i] = screens[i]
      /\ stack[n] = [screens[n] EXCEPT !.running = FALSE]
  BY <1>1, <1>2
<1> HIDE DEF stack
<1>5. ASSUME NEW i \in DOMAIN stack
      PROVE  ~stack[i].running /\ Covered(stack[i], known) /\ stack[i].vc = screens[i].vc
  <2>1. Covered(screens[i], known) /\ (screens[i].running => i = n)
    BY <1>4 DEF Stack
  <2>2. CASE i = n
    BY <1>3, <1>4, <2>1, <2>2 DEF Covered
  <2>3. CASE i # n
    BY <1>4, <2>1, <2>3
  <2> QED BY <2>2, <2>3
<1>6. stack # <<>> /\ stack[1].vc = "LoginVC"
  BY <1>4, <1>5 DEF Stack
<1> QED BY <1>4, <1>5, <1>6 DEF Stack, stack

LEMMA SegueStep ==
  ASSUME AppInv, \/ App!startCollectingDidTap \/ App!OpenDetectionVC \/ App!stopCollectingDidTap
                 \/ App!OpenInstructionsVC \/ App!OpenInfoVC \/ App!OpenHistoryVC
  PROVE  AppInv'
<1> USE DEF App!Visible, App!Segue, App!Open
<1>1. firebaseUser # NULL
  BY UserBehindLogin DEF App!startCollectingDidTap, App!OpenDetectionVC, App!stopCollectingDidTap,
                         App!OpenInstructionsVC, App!OpenInfoVC, App!OpenHistoryVC
<1>2. Stack(screens, server) /\ firebaseUser \in Accounts \cup {NULL}
  BY DEF AppInv, LoginInv
<1>3. CASE App!startCollectingDidTap
  <2>1. screens' = Append(screens, NewRecord("InstructionsVC", NULL, FALSE))
          /\ UNCHANGED <<App!loginVars, App!historyVars>>
    BY <1>3, CreatedScreens DEF App!startCollectingDidTap
  <2> QED BY <1>1, <1>2, <1>3, <2>1, NoCameraElsewhere, OpenStep DEF App!startCollectingDidTap, Controllers
<1>4. CASE App!OpenDetectionVC
  <2>1. screens' = Append(screens, NewRecord("DetectionVC", NULL, TRUE))
          /\ UNCHANGED <<App!loginVars, App!historyVars>>
    BY <1>4, CreatedScreens DEF App!OpenDetectionVC
  <2> QED BY <1>1, <1>2, <1>4, <2>1, NoCameraElsewhere, OpenStep DEF App!OpenDetectionVC, Controllers
<1>5. CASE App!stopCollectingDidTap
  <2> DEFINE base == [screens EXCEPT ![Len(screens)].running = FALSE]
  <2>1. screens' = Append(base, NewRecord("InstructionsVC", NULL, FALSE))
          /\ UNCHANGED <<App!loginVars, App!historyVars>>
    BY <1>5, CreatedScreens DEF App!stopCollectingDidTap
  <2>2. Stack(base, server) /\ \A i \in DOMAIN base : ~base[i].running
    BY <1>2, StopCamera
  <2> HIDE DEF base
  <2> QED BY <1>1, <2>1, <2>2, OpenStep DEF Controllers
<1>6. CASE App!OpenInstructionsVC
  <2>1. screens' = Append(screens, NewRecord("InstructionsVC", NULL, FALSE))
          /\ UNCHANGED <<App!loginVars, App!historyVars>>
    BY <1>6, CreatedScreens DEF App!OpenInstructionsVC
  <2> QED BY <1>1, <1>2, <1>6, <2>1, NoCameraElsewhere, OpenStep DEF App!OpenInstructionsVC, Controllers
<1>7. CASE App!OpenInfoVC
  <2>1. screens' = Append(screens, NewRecord("InfoVC", NULL, FALSE))
          /\ UNCHANGED <<App!loginVars, App!historyVars>>
    BY <1>7, CreatedScreens DEF App!OpenInfoVC
  <2> QED BY <1>1, <1>2, <1>7, <2>1, NoCameraElsewhere, OpenStep DEF App!OpenInfoVC, Controllers
<1>8. CASE App!OpenHistoryVC
  <2>1. screens' = Append(screens, NewRecord("HistoryVC", firebaseUser, FALSE))
          /\ UNCHANGED <<App!loginVars, App!historyVars>>
    BY <1>1, <1>8, CreatedScreens DEF App!OpenHistoryVC
  <2> QED BY <1>1, <1>2, <1>8, <2>1, NoCameraElsewhere, OpenStep DEF App!OpenHistoryVC, Controllers
<1> QED BY <1>3, <1>4, <1>5, <1>6, <1>7, <1>8

-----------------------------------------------------------------------------
(* HistoryVC                                                               *)

LEMMA RecordAddedStep ==
  ASSUME AppInv, NEW r \in Records, App!RecordAdded(r)
  PROVE  AppInv'
<1>1. server \subseteq server' /\ server' \in SUBSET Records
  BY DEF AppInv, HistoryInv, App!RecordAdded
<1>2. Stack(screens, server')
  BY <1>1, StackGrows DEF AppInv
<1>3. downloads \in Seq(server')
  BY <1>1 DEF AppInv, HistoryInv
<1> QED BY <1>1, <1>2, <1>3 DEF AppInv, LoginInv, HistoryInv, App!SignedIn, App!RecordAdded, App!loginVars

LEMMA HistoryEventStep ==
  ASSUME IsFiniteSet(Records), AppInv, NEW i \in DOMAIN screens, App!HistoryEvent(i)
  PROVE  AppInv'
<1> DEFINE s == screens[i]
           told == {r \in server : OwnerOf[r] = s.login}
           new == App!Children(s.login)
           added == [j \in DOMAIN new |-> App!Row(new[j])]
           t == [s EXCEPT !.rows = s.rows \o added, !.seen = App!ToSet(new), !.events = s.events + 1]
<1>1. /\ screens \in Seq(ScreenType) /\ s \in ScreenType /\ Covered(s, server)
      /\ server \in SUBSET Records /\ image \in server \cup {NULL} /\ downloads \in Seq(server)
  BY DEF AppInv, HistoryInv, Stack
<1>2. new \in Seq(told) /\ App!ToSet(new) = told
  <2>1. told \subseteq Records
    BY <1>1
  <2>2. IsFiniteSet(told)
    BY <2>1, FS_Subset
  <2> QED BY <2>2, SetToSeqEnumerates DEF App!Children
<1> HIDE DEF new
<1>3. /\ added \in Seq(RowType)
      /\ {row.record : row \in App!ToSet(added)} = told
      /\ \A row \in App!ToSet(added) : OwnerOf[row.record] = s.login /\ row.image \in server \cup {NULL}
  <2>1. \A j \in DOMAIN new : /\ new[j] \in told /\ App!Row(new[j]) \in RowType
                              /\ App!Row(new[j]).record = new[j] /\ App!Row(new[j]).image = image
    BY <1>1, <1>2 DEF App!Row, RowType
  <2>2. added \in Seq(RowType)
    BY <1>2, <2>1
  <2>3. App!ToSet(added) = {App!Row(new[j]) : j \in DOMAIN new} /\ told = {new[j] : j \in DOMAIN new}
    BY <1>2 DEF App!ToSet
  <2>4. \A row \in App!ToSet(added) : \E j \in DOMAIN new : row = App!Row(new[j])
    BY <2>3
  <2> HIDE DEF added
  <2>5. \A row \in App!ToSet(added) : OwnerOf[row.record] = s.login /\ row.image \in server \cup {NULL}
    BY <1>1, <2>1, <2>4
  <2>6. \A row \in App!ToSet(added) : row.record \in told
    BY <2>1, <2>4
  <2>7. \A r \in told : \E row \in App!ToSet(added) : r = row.record
    BY <2>1, <2>3
  <2>8. {row.record : row \in App!ToSet(added)} = told
    BY <2>6, <2>7
  <2> QED BY <2>2, <2>5, <2>8
<1> HIDE DEF added
<1>4. /\ s.rows \o added \in Seq(RowType)
      /\ App!ToSet(s.rows \o added) = App!ToSet(s.rows) \cup App!ToSet(added)
  BY <1>1, <1>3, ToSetConcat DEF ScreenType
<1>5. /\ t \in ScreenType /\ t.vc = s.vc /\ t.running = s.running /\ t.login = s.login
      /\ t.rows = s.rows \o added /\ t.seen = told
  <2>1. told \subseteq Records /\ s.events + 1 \in Nat
    BY <1>1 DEF ScreenType
  <2> DEFINE rows == s.rows \o added
             seen == App!ToSet(new)
             events == s.events + 1
  <2>3. rows \in Seq(RowType) /\ seen \in SUBSET Records /\ events \in Nat /\ seen = told
    BY <1>2, <1>4, <2>1
  <2>4. t = [s EXCEPT !.rows = rows, !.seen = seen, !.events = events] /\ rows = s.rows \o added
    OBVIOUS
  <2>2. s \in ScreenType
    BY <1>1
  <2> HIDE DEF rows, seen, events, t, s, told
  <2>5. LET u == [s EXCEPT !.rows = rows, !.seen = seen, !.events = events]
        IN /\ u \in ScreenType /\ u.vc = s.vc /\ u.running = s.running /\ u.login = s.login
           /\ u.rows = rows /\ u.seen = seen
    BY <2>2, <2>3 DEF ScreenType
  <2> QED BY <2>3, <2>4, <2>5, Zenon
<1>6. Covered(t, server)
  <2>1. {row.record : row \in App!ToSet(t.rows)} = s.seen \cup told
    BY <1>1, <1>3, <1>4, <1>5 DEF Covered
  <2>2. s.seen \subseteq told
    BY <1>1 DEF Covered
  <2> QED BY <1>1, <1>3, <1>4, <1>5, <2>1, <2>2 DEF Covered
<1>7. screens' = [screens EXCEPT ![i] = t]
  BY <1>1 DEF App!HistoryEvent, new, added
<1> HIDE DEF t
<1>8. /\ screens' \in Seq(ScreenType) /\ Len(screens') = Len(screens) /\ DOMAIN screens' = DOMAIN screens
      /\ screens'[i] = t /\ \A j \in DOMAIN screens : j # i => screens'[j] = screens[j]
  BY <1>1, <1>5, <1>7
<1>9. Stack(screens', server)
  <2>1. Stack(screens, server) /\ screens \in Seq(ScreenType)
    BY DEF AppInv, Stack
  <2>2. t.vc = screens[i].vc /\ t.running = screens[i].running
    BY <1>5
  <2>3. screens' # <<>> /\ screens'[1].vc = "LoginVC"
    BY <1>8, <2>1, <2>2 DEF Stack
  <2>4. ASSUME NEW j \in DOMAIN screens'
        PROVE  /\ screens'[j].running => j = Len(screens') /\ screens'[j].vc = "DetectionVC"
               /\ Covered(screens'[j], server)
    <3>1. CASE j = i
      <4>1. screens[i].running => i = Len(screens) /\ screens[i].vc = "DetectionVC"
        BY <2>1 DEF Stack
      <4> QED BY <1>6, <1>8, <2>2, <3>1, <4>1
    <3>2. CASE j # i
      BY <1>8, <2>1, <3>2 DEF Stack
    <3> QED BY <3>1, <3>2
  <2> QED BY <1>8, <2>3, <2>4 DEF Stack
<1>10. downloads' \in Seq(server)
  <2>1. new \in Seq(server)
    BY <1>2
  <2> QED BY <1>1, <2>1, ConcatProperties DEF App!HistoryEvent, new
<1> QED BY <1>1, <1>8, <1>9, <1>10 DEF AppInv, LoginInv, HistoryInv, App!SignedIn, App!HistoryEvent, App!loginVars

LEMMA DownloadStep ==
  ASSUME AppInv, NEW i, NEW error \in BOOLEAN, App!DownloadCompleted(i, error)
  PROVE  AppInv'
<1>1. downloads \in Seq(server) /\ i \in DOMAIN downloads
  BY DEF AppInv, HistoryInv, App!DownloadCompleted
<1>2. downloads' \in Seq(server) /\ downloads[i] \in server
  BY <1>1, RemoveAtElements DEF App!DownloadCompleted
<1> QED BY <1>2 DEF AppInv, LoginInv, HistoryInv, App!SignedIn, App!DownloadCompleted, App!loginVars

LEMMA RelaunchStep ==
  ASSUME AppInv, App!Relaunch
  PROVE  AppInv'
<1> DEFINE s == NewRecord("LoginVC", NULL, FALSE)
<1>1. screens' = <<s>>
  BY CreatedScreens DEF App!Relaunch
<1>2. s \in ScreenType /\ s.vc = "LoginVC" /\ s.running = FALSE /\ Covered(s, server)
  BY NewScreen DEF Controllers
<1> HIDE DEF s
<1>3. Len(screens') = 1 /\ DOMAIN screens' = {1} /\ screens'[1] = s /\ screens' # <<>> /\ screens' \in Seq(ScreenType)
  BY <1>1, <1>2
<1> QED BY <1>2, <1>3 DEF AppInv, LoginInv, HistoryInv, Stack, App!SignedIn, App!Relaunch

-----------------------------------------------------------------------------
LEMMA AppStep ==
  ASSUME NULL \notin Accounts, IsFiniteSet(Records), AppInv, [App!Next]_App!appVars
  PROVE  AppInv'
<1>1. CASE App!googleSignInDidTap
  BY <1>1 DEF AppInv, LoginInv, HistoryInv, App!SignedIn, App!historyVars, App!googleSignInDidTap
<1>2. CASE \E user \in Accounts : App!didSignInFor(user)
  BY <1>2 DEF AppInv, LoginInv, HistoryInv, App!SignedIn, App!historyVars, App!didSignInFor
<1>3. CASE App!didSignInWithError
  BY <1>3 DEF AppInv, LoginInv, HistoryInv, App!SignedIn, App!historyVars, App!didSignInWithError
<1>4. CASE UNCHANGED App!appVars
  BY <1>4 DEF AppInv, LoginInv, HistoryInv, App!SignedIn, App!appVars, App!loginVars, App!historyVars
<1> QED BY <1>1, <1>2, <1>3, <1>4, SignInStep, SegueStep, RecordAddedStep, HistoryEventStep,
           DownloadStep, RelaunchStep DEF App!Next

\* The app's part of a step of the specification.
LEMMA AppInvariant == AppInv /\ [Next]_vars => AppInv'
<1>1. [Next]_vars => [App!Next]_App!appVars
  BY DEF Next, vars, appVars, App!appVars, App!loginVars, App!historyVars
<1> QED BY <1>1, AppStep, AppParameters

LEMMA AppInvAtStart == Init => AppInv
  BY InitAppInv DEF Init

LEMMA AppInvServes == AppInv => ScreensAreServed /\ RowsCoverRecords
  BY AppInvImplies DEF ScreensAreServed, RowsCoverRecords

\* LoginVC, the segues, DetectionVC: whatever the order of taps, sign-ins,
\* their failures, segues and relaunches, every screen behind LoginVC has a
\* Firebase user to unwrap, and no camera runs under a screen that was left.
THEOREM UserBehindEveryScreen == Spec => []ScreensAreServed
BY AppInvAtStart, AppInvariant, AppInvServes, PTL DEF Spec

\* HistoryVC: its table shows every record its listener was told of, of its
\* account only, and no image but one that was downloaded for a record, for any
\* number of records, screens, events and downloads.
THEOREM RowsShowTheRecords == Spec => []RowsCoverRecords
BY AppInvAtStart, AppInvariant, AppInvServes, PTL DEF Spec

-----------------------------------------------------------------------------
(* The components that have a module of proofs                             *)

ListP == INSTANCE SkipListProofs
WriteP == INSTANCE WriteQueueProofs

\* SkipList: an iterator that runs beside the writer lands on a published node
\* and steps over no key that was published when its operation began.
THEOREM NothingIsSteppedOver == Spec => []ReadersMissNothing
<1>1. Init => ListP!Init
  BY DEF Init, List!Init, ListP!Init, List!Nodes, ListP!Nodes, List!head_, ListP!head_,
         List!AllLevels, ListP!AllLevels
<1>2. \A w : List!Turn(w) = ListP!Turn(w)
  BY DEF List!Turn, ListP!Turn, List!Down, ListP!Down, List!KeyIsAfterNode, ListP!KeyIsAfterNode,
         List!FindGreaterOrEqual, ListP!FindGreaterOrEqual, List!FindLessThan, ListP!FindLessThan,
         List!FindLast, ListP!FindLast
<1>3. \A r \in Readers : List!Search(r) => ListP!Search(r)
  BY <1>2 DEF List!Search, ListP!Search, List!Idle, ListP!Idle, List!Done, ListP!Done, List!head_, ListP!head_
<1> USE DEF List!Nodes, ListP!Nodes, List!head_, ListP!head_, List!AllLevels, ListP!AllLevels,
            List!GetMaxHeight, ListP!GetMaxHeight, List!Walk, ListP!Walk, List!Turn, ListP!Turn,
            List!Down, ListP!Down, List!KeyIsAfterNode, ListP!KeyIsAfterNode,
            List!FindGreaterOrEqual, ListP!FindGreaterOrEqual, List!FindLessThan, ListP!FindLessThan,
            List!FindLast, ListP!FindLast, List!Link, ListP!Link, List!Insertable, ListP!Insertable,
            List!Idle, ListP!Idle, List!Begin, ListP!Begin, List!Done, ListP!Done
<1>4. [Next]_vars => [ListP!Next]_ListP!vars
  <2>1. List!StartInsert => ListP!StartInsert
    BY DEF List!StartInsert, ListP!StartInsert
  <2>2. List!SearchInsert => ListP!SearchInsert
    BY DEF List!SearchInsert, ListP!SearchInsert
  <2>3. List!RaiseHeight => ListP!RaiseHeight
    BY DEF List!RaiseHeight, ListP!RaiseHeight
  <2>4. List!Insert => ListP!Insert
    BY DEF List!Insert, ListP!Insert
  <2>5. \A r \in Readers : List!Seek(r) => ListP!Seek(r)
    BY DEF List!Seek, ListP!Seek
  <2>6. \A r \in Readers : List!SeekToFirst(r) => ListP!SeekToFirst(r)
    BY DEF List!SeekToFirst, ListP!SeekToFirst
  <2>7. \A r \in Readers : List!SeekToLast(r) => ListP!SeekToLast(r)
    BY DEF List!SeekToLast, ListP!SeekToLast
  <2>8. \A r \in Readers : List!Next_(r) => ListP!Next_(r)
    BY DEF List!Next_, ListP!Next_
  <2>9. \A r \in Readers : List!Prev(r) => ListP!Prev(r)
    BY DEF List!Prev, ListP!Prev
  <2>10. List!Next => ListP!Next
    BY <2>1, <2>2, <2>3, <2>4, <2>5, <2>6, <2>7, <2>8, <2>9, <1>3 DEF List!Next, ListP!Next
  <2> QED BY <2>10 DEF Next, vars, listVars, ListP!vars
<1>5. ListP!ReadersMissNothing => ReadersMissNothing
  BY DEF ReadersMissNothing, List!ReadersMissNothing, ListP!ReadersMissNothing, List!Between, ListP!Between
<1>6. ListP!Spec => []ListP!ReadersMissNothing
  BY ListParameters, ListP!NothingIsSteppedOver DEF ListP!SkipConstants
<1> QED BY <1>1, <1>4, <1>5, <1>6, PTL DEF Spec, ListP!Spec

-----------------------------------------------------------------------------
(* The limits on open files                                                *)

OpenerSteps == {"closed", "trymmap", "mmap", "tryfd", "acquirefd", "fd", "temporary"}

\* The threads that hold a share of a limit.
HoldersOf(which) == {t \in Openers : opener[t] = which}

Kinds == {"mmap", "fd"}

\* Counters never go below zero; what they lack is what is held.
LimiterInv ==
  /\ opener \in [Openers -> OpenerSteps]
  /\ allowed_ \in [Kinds -> Nat]
  /\ \A which \in Kinds : allowed_[which] + Cardinality(HoldersOf(which)) = Env!Limits[which]

\* A thread that takes a share, and one that gives one back.
LEMMA OneMoreHolder ==
  ASSUME IsFiniteSet(Openers), opener \in [Openers -> OpenerSteps],
         NEW t \in Openers, NEW which, opener[t] # which,
         opener' = [opener EXCEPT ![t] = which]
  PROVE  Cardinality(HoldersOf(which)') = Cardinality(HoldersOf(which)) + 1
<1>1. HoldersOf(which)' = HoldersOf(which) \cup {t} /\ t \notin HoldersOf(which)
  BY DEF HoldersOf
<1>2. IsFiniteSet(HoldersOf(which))
  BY FS_Subset DEF HoldersOf
<1> QED BY <1>1, <1>2, FS_AddElement

LEMMA OneLessHolder ==
  ASSUME IsFiniteSet(Openers), opener \in [Openers -> OpenerSteps],
         NEW t \in Openers, NEW which, opener[t] = which, NEW step, step # which,
         opener' = [opener EXCEPT ![t] = step]
  PROVE  Cardinality(HoldersOf(which)') = Cardinality(HoldersOf(which)) - 1
<1>1. HoldersOf(which)' = HoldersOf(which) \ {t} /\ t \in HoldersOf(which)
  BY DEF HoldersOf
<1>2. IsFiniteSet(HoldersOf(which))
  BY FS_Subset DEF HoldersOf
<1> QED BY <1>1, <1>2, FS_RemoveElement

LEMMA SameHolders ==
  ASSUME opener \in [Openers -> OpenerSteps],
         NEW t \in Openers, NEW which, opener[t] # which, NEW step, step # which,
         opener' = [opener EXCEPT ![t] = step]
  PROVE  HoldersOf(which)' = HoldersOf(which)
  BY DEF HoldersOf

LEMMA HoldersCount ==
  ASSUME IsFiniteSet(Openers), NEW which
  PROVE  Cardinality(HoldersOf(which)) \in Nat
<1>1. IsFiniteSet(HoldersOf(which))
  BY FS_Subset DEF HoldersOf
<1> QED BY <1>1, FS_CardinalityType

LEMMA InitLimiterInv ==
  ASSUME mmap_limit \in Nat, open_read_only_file_limit \in Nat, Env!Init
  PROVE  LimiterInv
<1>1. \A which \in Kinds : HoldersOf(which) = {}
  BY DEF Env!Init, HoldersOf, Kinds
<1>2. allowed_ \in [Kinds -> Nat] /\ allowed_ = Env!Limits
  BY DEF Env!Init, Env!Limits, Kinds
<1>3. opener \in [Openers -> OpenerSteps]
  BY DEF Env!Init, OpenerSteps
<1> QED BY <1>1, <1>2, <1>3, FS_EmptySet DEF LimiterInv

\* A thread goes from one step to another, neither of which holds a share.
LEMMA NoShareMoves ==
  ASSUME LimiterInv, NEW t \in Openers, NEW step \in OpenerSteps \ Kinds,
         opener[t] \notin Kinds, Env!Goto(t, step), UNCHANGED allowed_
  PROVE  LimiterInv'
<1>1. opener' = [opener EXCEPT ![t] = step] /\ opener \in [Openers -> OpenerSteps]
  BY DEF Env!Goto, LimiterInv
<1>2. \A which \in Kinds : HoldersOf(which)' = HoldersOf(which)
  BY <1>1, SameHolders
<1>3. opener' \in [Openers -> OpenerSteps]
  BY <1>1
<1> QED BY <1>2, <1>3 DEF LimiterInv, Env!Limits

\* A thread takes a share that the counter says is left.
LEMMA ShareTaken ==
  ASSUME IsFiniteSet(Openers), LimiterInv, NEW t \in Openers, NEW which \in Kinds,
         opener[t] \notin Kinds, allowed_[which] > 0,
         allowed_' = [allowed_ EXCEPT ![which] = @ - 1], Env!Goto(t, which)
  PROVE  LimiterInv'
<1>1. opener' = [opener EXCEPT ![t] = which] /\ opener \in [Openers -> OpenerSteps]
  BY DEF Env!Goto, LimiterInv
<1>2. opener' \in [Openers -> OpenerSteps]
  BY <1>1 DEF OpenerSteps, Kinds
<1>3. Cardinality(HoldersOf(which)') = Cardinality(HoldersOf(which)) + 1
  BY <1>1, OneMoreHolder
<1>4. \A w \in Kinds \ {which} : HoldersOf(w)' = HoldersOf(w)
  BY <1>1, SameHolders
<1>5. allowed_' \in [Kinds -> Nat]
  BY DEF LimiterInv
<1>6. ASSUME NEW w \in Kinds
      PROVE  allowed_'[w] + Cardinality(HoldersOf(w)') = Env!Limits[w]
  <2>1. Cardinality(HoldersOf(w)) \in Nat /\ allowed_ \in [Kinds -> Nat]
        /\ allowed_[w] + Cardinality(HoldersOf(w)) = Env!Limits[w]
    BY HoldersCount DEF LimiterInv
  <2>2. CASE w = which
    <3>1. allowed_'[w] = allowed_[w] - 1
      BY <2>1, <2>2
    <3> QED BY <3>1, <2>1, <2>2, <1>3
  <2>3. CASE w # which
    <3>1. allowed_'[w] = allowed_[w]
      BY <2>1, <2>3
    <3> QED BY <3>1, <2>1, <2>3, <1>4
  <2> QED BY <2>2, <2>3
<1> QED BY <1>2, <1>5, <1>6 DEF LimiterInv, Env!Limits

\* A thread gives its share back.
LEMMA ShareReturned ==
  ASSUME IsFiniteSet(Openers), LimiterInv, NEW t \in Openers, NEW which \in Kinds,
         opener[t] = which, Env!Release(which), Env!Goto(t, "closed")
  PROVE  LimiterInv'
<1>1. opener' = [opener EXCEPT ![t] = "closed"] /\ opener \in [Openers -> OpenerSteps]
  BY DEF Env!Goto, LimiterInv
<1>2. opener' \in [Openers -> OpenerSteps]
  BY <1>1 DEF OpenerSteps
<1>3. Cardinality(HoldersOf(which)') = Cardinality(HoldersOf(which)) - 1
  BY <1>1, OneLessHolder DEF Kinds
<1>4. \A w \in Kinds \ {which} : HoldersOf(w)' = HoldersOf(w)
  BY <1>1, SameHolders DEF Kinds
<1>5. allowed_' \in [Kinds -> Nat]
  BY DEF LimiterInv, Env!Release
<1>6. ASSUME NEW w \in Kinds
      PROVE  allowed_'[w] + Cardinality(HoldersOf(w)') = Env!Limits[w]
  BY <1>3, <1>4, HoldersCount DEF LimiterInv, Env!Release
<1> QED BY <1>2, <1>5, <1>6 DEF LimiterInv, Env!Limits

LEMMA AcquireKeepsInv ==
  ASSUME IsFiniteSet(Openers), LimiterInv, NEW t \in Openers, NEW which \in Kinds,
         NEW otherwise \in OpenerSteps \ Kinds, opener[t] \notin Kinds, Env!Acquire(t, which, otherwise)
  PROVE  LimiterInv'
<1>1. CASE allowed_[which] <= 0
  BY <1>1, NoShareMoves DEF Env!Acquire
<1>2. CASE allowed_[which] > 0
  BY <1>2, ShareTaken DEF Env!Acquire, LimiterInv
<1> QED BY <1>1, <1>2 DEF LimiterInv

LEMMA NextLimiterInv ==
  ASSUME IsFiniteSet(Openers), LimiterInv, [Next]_vars
  PROVE  LimiterInv'
<1> USE DEF Kinds, OpenerSteps
<1>1. CASE UNCHANGED <<opener, allowed_>>
  BY <1>1 DEF LimiterInv, HoldersOf, Env!Limits
<1>2. ASSUME NEW t \in Openers, Env!NewRandomAccessFile(t) PROVE LimiterInv'
  <2>1. PICK step \in {"tryfd", "trymmap"} : Env!Goto(t, step)
    BY <1>2 DEF Env!NewRandomAccessFile
  <2> QED BY <1>2, <2>1, NoShareMoves DEF Env!NewRandomAccessFile
<1>3. ASSUME NEW t \in Openers, Env!AcquireMmap(t) PROVE LimiterInv'
  BY <1>3, AcquireKeepsInv DEF Env!AcquireMmap
<1>4. ASSUME NEW t \in Openers, Env!MmapFails(t) PROVE LimiterInv'
  BY <1>4, ShareReturned DEF Env!MmapFails
<1>5. ASSUME NEW t \in Openers, Env!PosixRandomAccessFile(t) PROVE LimiterInv'
  <2>1. CASE opener[t] = "tryfd"
    <3>1. PICK step \in {"temporary", "acquirefd"} : Env!Goto(t, step)
      BY <1>5, <2>1 DEF Env!PosixRandomAccessFile
    <3> QED BY <1>5, <2>1, <3>1, NoShareMoves DEF Env!PosixRandomAccessFile
  <2>2. CASE opener[t] = "acquirefd"
    BY <1>5, <2>2, AcquireKeepsInv DEF Env!PosixRandomAccessFile
  <2> QED BY <1>5, <2>1, <2>2 DEF Env!PosixRandomAccessFile
<1>6. ASSUME NEW t \in Openers, Env!CloseFile(t) PROVE LimiterInv'
  <2>1. CASE opener[t] = "temporary"
    BY <1>6, <2>1, NoShareMoves DEF Env!CloseFile
  <2>2. CASE opener[t] = "mmap"
    BY <1>6, <2>2, ShareReturned DEF Env!CloseFile
  <2>3. CASE opener[t] = "fd"
    BY <1>6, <2>3, ShareReturned DEF Env!CloseFile
  <2> QED BY <1>6, <2>1, <2>2, <2>3 DEF Env!CloseFile
<1>7. CASE Env!Next
  BY <1>1, <1>2, <1>3, <1>4, <1>5, <1>6, <1>7
  DEF Env!Next, Env!fileVars, Env!Schedule, Env!SpuriousWakeup, Env!BGThread
<1>8. CASE UNCHANGED envVars
  BY <1>1, <1>8 DEF envVars
<1> QED BY <1>7, <1>8 DEF Next, vars

LEMMA LimiterInvImplies ==
  ASSUME LimiterInv
  PROVE  LimiterAccounting
<1>1. \A which \in Kinds : allowed_[which] >= 0
  BY DEF LimiterInv
<1>2. \A S : Env!Cardinality(S) = Cardinality(S)
  BY DEF Env!Cardinality, Env!IsFiniteSet, Cardinality, IsFiniteSet
<1> QED BY <1>1, <1>2 DEF LimiterInv, LimiterAccounting, Env!LimiterAccounting, HoldersOf, Kinds

\* Limiter::Acquire tests the counter once without and once with the mutex,
\* and an opening that fails gives its share back: for any number of threads
\* and any limits, no more is given out than the limit and nothing is lost.
THEOREM LimitsAreKept == Spec => []LimiterAccounting
<1>1. Init => LimiterInv
  BY EnvParameters, InitLimiterInv DEF Init
<1>2. LimiterInv /\ [Next]_vars => LimiterInv'
  BY EnvParameters, NextLimiterInv
<1>3. LimiterInv => LimiterAccounting
  BY LimiterInvImplies
<1> QED BY <1>1, <1>2, <1>3, PTL DEF Spec

-----------------------------------------------------------------------------
(* The lock file                                                           *)

LockSteps == {"closed", "opened", "inserted", "held", "unlocked", "removed"}

\* The threads that put their process's name into the lock table and have not
\* taken it out.
InTable(t) == thread[t] \in {"inserted", "held", "unlocked"}

\* A thread is between Insert and Remove only while its process is in the
\* table, and alone there.  The system's lock plays no part.
TableInv ==
  /\ thread \in [DOMAIN ProcessOf -> LockSteps]
  /\ \A t \in DOMAIN ProcessOf : InTable(t) => ProcessOf[t] \in locked_files_
  /\ \A t, u \in DOMAIN ProcessOf : InTable(t) /\ InTable(u) /\ ProcessOf[t] = ProcessOf[u] => t = u

LEMMA TableInvImplies == TableInv => OneHolderPerProcess
<1> SUFFICES ASSUME TableInv, NEW p \in Processes
             PROVE  Cardinality({t \in Lock!Holders : ProcessOf[t] = p}) <= 1
  <2>1. \A S : Lock!Cardinality(S) = Cardinality(S)
    BY DEF Lock!Cardinality, Lock!IsFiniteSet, Cardinality, IsFiniteSet
  <2> QED BY <2>1 DEF OneHolderPerProcess, Lock!OneHolderPerProcess
<1> DEFINE S == {t \in Lock!Holders : ProcessOf[t] = p}
<1>1. CASE S = {}
  BY <1>1, FS_EmptySet
<1>2. CASE S # {}
  <2>1. PICK t : t \in S
    BY <1>2
  <2>2. S = {t}
    BY <2>1 DEF TableInv, InTable, Lock!Holders
  <2> QED BY <2>2, FS_Singleton
<1> QED BY <1>1, <1>2

LEMMA StepTableInv == TableInv /\ [Next]_vars => TableInv'
<1> SUFFICES ASSUME TableInv, [Next]_vars PROVE TableInv'
  OBVIOUS
<1> USE DEF TableInv, InTable, LockSteps
<1>1. ASSUME NEW t \in DOMAIN ProcessOf, Lock!OpenLockFile(t) PROVE TableInv'
  BY <1>1 DEF Lock!OpenLockFile
<1>2. ASSUME NEW t \in DOMAIN ProcessOf, Lock!InsertLock(t) PROVE TableInv'
  BY <1>2 DEF Lock!InsertLock
<1>3. ASSUME NEW t \in DOMAIN ProcessOf, Lock!LockFile(t) PROVE TableInv'
  BY <1>3 DEF Lock!LockFile
<1>4. ASSUME NEW t \in DOMAIN ProcessOf, Lock!UnlockFile(t) PROVE TableInv'
  BY <1>4 DEF Lock!UnlockFile
<1>5. ASSUME NEW p \in Processes, Lock!Exit(p) PROVE TableInv'
  BY <1>5 DEF Lock!Exit
<1>6. CASE UNCHANGED lockVars
  BY <1>6 DEF lockVars
<1> QED BY <1>1, <1>2, <1>3, <1>4, <1>5, <1>6 DEF Next, vars, Lock!Next

\* LockFile and UnlockFile: whatever the system does with the process's lock,
\* the lock table lets one thread of a process hold the database at a time.
THEOREM LockTableExcludes == Spec => []OneHolderPerProcess
<1>1. Init => TableInv
  BY DEF Init, Lock!Init, TableInv, InTable, LockSteps
<1> QED BY <1>1, StepTableInv, TableInvImplies, PTL DEF Spec

-----------------------------------------------------------------------------
(* The writers                                                             *)

LEMMA WriteInit == Init => WriteP!Init
  BY DEF Init, Writes!Init, WriteP!Init

LEMMA SizesAgree == \A queue, n : Writes!SizeOf(queue, n) = WriteP!SizeOf(queue, n)
  BY DEF Writes!SizeOf, WriteP!SizeOf, Writes!HasBatch, WriteP!HasBatch,
         Writes!FoldSet, WriteP!FoldSet, Writes!MapThenFoldSet, WriteP!MapThenFoldSet

LEMMA GroupsAgree ==
  /\ \A t : Writes!HasBatch(t) = WriteP!HasBatch(t) /\ Writes!Sync(t) = WriteP!Sync(t)
  /\ \A queue : Writes!BuildBatchGroup(queue) = WriteP!BuildBatchGroup(queue)
  /\ \A threads : Writes!Places(threads) = WriteP!Places(threads)
  /\ \A S : Writes!ToSet(S) = WriteP!ToSet(S)
  /\ \A S : Writes!Cardinality(S) = WriteP!Cardinality(S)
<1>1. \A t : Writes!HasBatch(t) = WriteP!HasBatch(t) /\ Writes!Sync(t) = WriteP!Sync(t)
  BY DEF Writes!HasBatch, WriteP!HasBatch, Writes!Sync, WriteP!Sync
<1>2. \A queue : Writes!BuildBatchGroup(queue) = WriteP!BuildBatchGroup(queue)
  BY <1>1, SizesAgree DEF Writes!BuildBatchGroup, WriteP!BuildBatchGroup
<1>3. \A threads : Writes!Places(threads) = WriteP!Places(threads)
  BY DEF Writes!Places, WriteP!Places, Writes!HasBatch, WriteP!HasBatch
<1>4. \A S : Writes!ToSet(S) = WriteP!ToSet(S)
  BY DEF Writes!ToSet, WriteP!ToSet
<1>5. \A S : Writes!Cardinality(S) = WriteP!Cardinality(S)
  BY DEF Writes!Cardinality, WriteP!Cardinality, Writes!IsFiniteSet, WriteP!IsFiniteSet
<1> QED BY <1>1, <1>2, <1>3, <1>4, <1>5

LEMMA GroupEntriesAgree == Writes!GroupEntries = WriteP!GroupEntries
<1>1. \A places, p : Writes!Rank(places, p) = WriteP!Rank(places, p)
  BY DEF Writes!Rank, WriteP!Rank, Writes!Cardinality, WriteP!Cardinality,
         Writes!IsFiniteSet, WriteP!IsFiniteSet
<1>2. \A threads : Writes!Numbered(threads) = WriteP!Numbered(threads)
  BY <1>1, GroupsAgree DEF Writes!Numbered, WriteP!Numbered
<1> QED BY <1>2 DEF Writes!GroupEntries, WriteP!GroupEntries

LEMMA RoomAgrees ==
  ASSUME NEW queue, NEW t, NEW allow, Writes!MakeRoomForWrite(queue, t, allow)
  PROVE  WriteP!MakeRoomForWrite(queue, t, allow)
<1> USE DEF Writes!memory, WriteP!memory
<1>1. \A at : Writes!Release(queue, t, at) => WriteP!Release(queue, t, at)
  BY DEF Writes!Release, WriteP!Release
<1>2. \A result : Writes!Answer(queue, t, result) => WriteP!Answer(queue, t, result)
  <2> SUFFICES ASSUME NEW result, Writes!Answer(queue, t, result)
               PROVE  WriteP!Answer(queue, t, result)
    OBVIOUS
  <2>1. WriteP!AnswerGroup(queue, 1, t, result, {})
    BY GroupsAgree DEF Writes!Answer, Writes!AnswerGroup, WriteP!AnswerGroup
  <2>2. Writes!Returned(t, result) = WriteP!Returned(t, result)
    BY GroupsAgree DEF Writes!Returned, WriteP!Returned
  <2> QED BY <2>1, <2>2 DEF Writes!Answer, WriteP!Answer
<1>3. Writes!GotRoom(queue, t) => WriteP!GotRoom(queue, t)
  BY <1>1, <1>2, GroupsAgree DEF Writes!GotRoom, WriteP!GotRoom
<1>4. /\ Writes!Fault => WriteP!Fault
      /\ \A m : Writes!MaybeScheduleCompaction(m) => WriteP!MaybeScheduleCompaction(m)
  BY DEF Writes!Fault, WriteP!Fault, Writes!MaybeScheduleCompaction, WriteP!MaybeScheduleCompaction,
         Writes!NeedsCompaction, WriteP!NeedsCompaction
<1> QED BY <1>1, <1>2, <1>3, <1>4, GroupsAgree
        DEF Writes!MakeRoomForWrite, WriteP!MakeRoomForWrite

LEMMA WriteStep == [Next]_vars => [WriteP!Next]_WriteP!vars
<1> USE DEF Writes!memory, WriteP!memory
<1>1. ASSUME NEW t \in Threads, Writes!Write(t) PROVE WriteP!Write(t)
  BY <1>1, RoomAgrees DEF Writes!Write, WriteP!Write, Writes!Release, WriteP!Release
<1>2. ASSUME NEW t \in Threads, Writes!WakeInQueue(t) PROVE WriteP!WakeInQueue(t)
  BY <1>2, RoomAgrees, GroupsAgree DEF Writes!WakeInQueue, WriteP!WakeInQueue,
     Writes!Returned, WriteP!Returned
<1>3. ASSUME NEW t \in Threads, Writes!ResumeMakeRoom(t) PROVE WriteP!ResumeMakeRoom(t)
  BY <1>3, RoomAgrees DEF Writes!ResumeMakeRoom, WriteP!ResumeMakeRoom
<1>4. ASSUME NEW t \in Threads, Writes!AddRecord(t) PROVE WriteP!AddRecord(t)
  BY <1>4, GroupEntriesAgree, GroupsAgree DEF Writes!AddRecord, WriteP!AddRecord,
     Writes!Fault, WriteP!Fault
<1>5. ASSUME NEW t \in Threads, Writes!SyncLog(t) PROVE WriteP!SyncLog(t)
  BY <1>5 DEF Writes!SyncLog, WriteP!SyncLog, Writes!Fault, WriteP!Fault
<1>6. ASSUME NEW t \in Threads, Writes!InsertInto(t) PROVE WriteP!InsertInto(t)
  BY <1>6, GroupEntriesAgree DEF Writes!InsertInto, WriteP!InsertInto
<1>7. ASSUME NEW t \in Threads, Writes!FinishWrite(t) PROVE WriteP!FinishWrite(t)
  BY <1>7, GroupEntriesAgree, GroupsAgree DEF Writes!FinishWrite, WriteP!FinishWrite,
     Writes!AnswerGroup, WriteP!AnswerGroup, Writes!WaitingForBackground, WriteP!WaitingForBackground
<1>8. ASSUME NEW t \in Threads, Writes!TEST_CompactMemTable(t) PROVE WriteP!TEST_CompactMemTable(t)
  BY <1>8 DEF Writes!TEST_CompactMemTable, WriteP!TEST_CompactMemTable
<1>9. ASSUME Writes!Background PROVE WriteP!Background
  BY <1>9 DEF Writes!Background, WriteP!Background, Writes!BackgroundCall, WriteP!BackgroundCall,
     Writes!FlushInCompaction, WriteP!FlushInCompaction, Writes!EndCompaction, WriteP!EndCompaction,
     Writes!CompactMemTable, WriteP!CompactMemTable, Writes!EndBackgroundCall, WriteP!EndBackgroundCall,
     Writes!WaitingForBackground, WriteP!WaitingForBackground, Writes!Fault, WriteP!Fault
<1>10. Writes!Next => WriteP!Next
  BY <1>1, <1>2, <1>3, <1>4, <1>5, <1>6, <1>7, <1>8, <1>9
     DEF Writes!Next, WriteP!Next, Writes!Thread, WriteP!Thread
<1> QED BY <1>10 DEF Next, vars, writeVars, WriteP!vars

LEMMA WriteParametersP ==
  ASSUME NULL \notin SUBSET WriteP!Entry PROVE WriteP!WriteConstants
BY DEF WriteP!WriteConstants, WriteP!WriteBatch, Calls, Three, Synced, Small, Large

\* DBImpl::Write: readers, who read at last_sequence_, see all of a batch or
\* nothing of it, although a group is inserted without the mutex.  (NULL is
\* what imm_ is when there is no memtable; a memtable is a set of entries.)
THEOREM BatchesAreAtomic ==
  ASSUME NULL \notin SUBSET WriteP!Entry PROVE Spec => []BatchesAppearWhole
<1>1. WriteP!BatchesAppearWhole => BatchesAppearWhole
  BY GroupsAgree DEF BatchesAppearWhole, Writes!BatchesAppearWhole, WriteP!BatchesAppearWhole,
     Writes!Applied, WriteP!Applied, Writes!Entries, WriteP!Entries
<1>2. WriteP!Spec => []WriteP!BatchesAppearWhole
  BY WriteParametersP, WriteP!BatchesAreAtomic
<1> QED BY <1>1, <1>2, WriteInit, WriteStep, PTL DEF Spec, WriteP!Spec

\* DBImpl::Write: an answer of ok, given by whichever writer led the group,
\* means that the batch is logged, synced if asked, whole, and after every
\* batch that was answered before the call.
THEOREM AnswersAreLogged ==
  ASSUME NULL \notin SUBSET WriteP!Entry PROVE Spec => []AnsweredMeansLogged
<1>1. WriteP!AnsweredMeansLogged => AnsweredMeansLogged
  BY GroupsAgree DEF AnsweredMeansLogged, Writes!AnsweredMeansLogged, WriteP!AnsweredMeansLogged,
     Writes!Applied, WriteP!Applied, Writes!Entries, WriteP!Entries
<1>2. WriteP!Spec => []WriteP!AnsweredMeansLogged
  BY WriteParametersP, WriteP!AnswersAreLogged
<1> QED BY <1>1, <1>2, WriteInit, WriteStep, PTL DEF Spec, WriteP!Spec
==============================================================================
